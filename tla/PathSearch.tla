------------------------------ MODULE PathSearch ------------------------------
(***************************************************************************)
(* DesignInstance::get_path: from one edge of the instantiation graph, a   *)
(* depth-first search with backtracking for a path to an output port.      *)
(*                                                                         *)
(* Its callers differ in how they pick an edge. least/most_tagged_path and *)
(* least/most_toggled_path take an extremal one of the candidates          *)
(* ("extremal": some candidate, whichever the weights favour). The others  *)
(* take the first candidate that satisfies a condition: x_tag_path also as *)
(* its initial edge ("first"), while tag_path_from_input starts from the   *)
(* first edge at the named input, whatever its tag ("from_input"). All of  *)
(* them ask for both directions.                                           *)
(***************************************************************************)
EXTENDS Integers, Sequences, SequencesExt

CONSTANTS
  Vertices,    (* of the instantiation graph                               *)
  Outputs,     (* the vertices of output ports, of instances as well       *)
  Inputs,      (* the vertices of input ports, of instances as well        *)
  Pairs        (* the pairs of vertices that may be connected              *)

ASSUME PathAssumption ==
  /\ Outputs \subseteq Vertices
  /\ Inputs \subseteq Vertices
  /\ Pairs \subseteq Vertices \X Vertices

VARIABLES
  graph,     (* for every pair: no edge, an edge that the edge filter      *)
             (* excludes, or one it lets through; "tagged" if it satisfies *)
             (* the condition of the search                                *)
  initial,   (* the edge the search starts from                            *)
  query,     (* how the next edge is selected                              *)
  path,
  visited,
  vertex,    (* source_vertex of the loop                                  *)
  phase      (* "backward", "forward", "done"; "undefined" once an end     *)
             (* iterator has been dereferenced                             *)

searchVars == <<graph, initial, query, path, visited, vertex, phase>>

EdgeKinds == {"none", "excluded", "plain", "tagged"}

Edges == {e \in Pairs : graph[e] # "none"}
Usable == {e \in Pairs : graph[e] \in {"plain", "tagged"}}
Tagged == {e \in Pairs : graph[e] = "tagged"}

Queries == {"extremal", "first", "from_input"}

TypeOK ==
  /\ graph \in [Pairs -> EdgeKinds]
  /\ initial \in Pairs
  /\ query \in Queries
  /\ path \in Seq(Vertices) /\ Len(path) >= 2
  /\ visited \in SUBSET Vertices
  /\ vertex \in Vertices
  /\ phase \in {"backward", "forward", "done", "undefined"}

(* The callers take the initial edge from the filtered edges; x_tag_path   *)
(* takes one that satisfies its condition, tag_path_from_input one whose   *)
(* source has the name of the input, which any vertex may have.            *)
SearchInit ==
  /\ graph \in [Pairs -> EdgeKinds]
  /\ query \in Queries
  /\ initial \in IF query = "first" THEN Tagged ELSE Usable
  /\ path = initial
  /\ visited = {initial[1], initial[2]}
  /\ vertex = initial[1]
  /\ phase = "backward"

(* An edge leads to its target, in either direction of the search. For an  *)
(* in-edge of v that is v itself.                                          *)
BackwardCandidates(v) == {e \in Usable : e[2] = v /\ e[2] \notin visited}
ForwardCandidates(v) == {e \in Usable : e[1] = v /\ e[2] \notin visited}

Select(candidates) ==
  IF query = "extremal" THEN candidates ELSE candidates \cap Tagged

AtInput(v) == v \in Inputs /\ ~\E e \in Edges : e[2] = v
AtOutput(v) == v \in Outputs /\ ~\E e \in Edges : e[1] = v

(* The backward loop: its vertex is the initial source, which is at the    *)
(* front of the path, so without a candidate it breaks. There never is a   *)
(* candidate (BackwardNeverExtends), so no step extends the path.          *)
Backward ==
  /\ phase = "backward"
  /\ AtInput(vertex) \/ BackwardCandidates(vertex) = {}
  /\ phase' = "forward"
  /\ vertex' = initial[2]
  /\ UNCHANGED <<graph, initial, query, path, visited>>

Searching == phase = "forward" /\ ~AtOutput(vertex)

ExtendUnvisited ==                                                        (* mutant *)
  /\ Searching
  /\ \E e \in Select(ForwardCandidates(vertex)) :
       /\ path' = Append(path, e[2])
       /\ vertex' = e[2]
  /\ UNCHANGED <<graph, initial, query, visited, phase>>

Extend ==
  /\ Searching
  /\ \E e \in Select(ForwardCandidates(vertex)) :
       /\ path' = Append(path, e[2])
       /\ visited' = visited \cup {e[2]}
       /\ vertex' = e[2]
  /\ UNCHANGED <<graph, initial, query, phase>>

(* No candidate satisfies the condition: the selector returns the end, and *)
(* get_path dereferences it.                                               *)
SelectNone ==
  /\ Searching
  /\ ForwardCandidates(vertex) # {}
  /\ Select(ForwardCandidates(vertex)) = {}
  /\ phase' = "undefined"
  /\ UNCHANGED <<graph, initial, query, path, visited, vertex>>

AtStart == Len(path) = 1 \/ Last(path) = initial[2]

BacktrackWithoutPop ==                                                    (* mutant *)
  /\ Searching
  /\ ForwardCandidates(vertex) = {}
  /\ ~AtStart
  /\ vertex' = Last(path)
  /\ UNCHANGED <<graph, initial, query, path, visited, phase>>

Backtrack ==
  /\ Searching
  /\ ForwardCandidates(vertex) = {}
  /\ ~AtStart
  /\ path' = Front(path)
  /\ vertex' = Last(path')
  /\ UNCHANGED <<graph, initial, query, visited, phase>>

StopAtDeadEnd ==                                                          (* mutant *)
  /\ phase = "forward"
  /\ AtOutput(vertex) \/ ForwardCandidates(vertex) = {}
  /\ phase' = "done"
  /\ UNCHANGED <<graph, initial, query, path, visited, vertex>>

Stop ==
  /\ phase = "forward"
  /\ AtOutput(vertex) \/ (ForwardCandidates(vertex) = {} /\ AtStart)
  /\ phase' = "done"
  /\ UNCHANGED <<graph, initial, query, path, visited, vertex>>

(* get_path has returned, or has left its defined behaviour                *)
Over == phase \in {"done", "undefined"} /\ UNCHANGED searchVars

SearchNext == Backward \/ Extend \/ SelectNone \/ Backtrack \/ Stop \/ Over

(* A sequential function: it takes every step it can.                      *)
SearchSpec == SearchInit /\ [][SearchNext]_searchVars /\ WF_searchVars(SearchNext)

-----------------------------------------------------------------------------
(* Properties.                                                             *)

(* The path begins with the initial edge and follows usable edges of the   *)
(* graph, after the first one those that satisfy the condition when the    *)
(* search has one (the first of x_tag_path does so, too), and meets no     *)
(* vertex twice (only the initial edge may be a loop), however often the   *)
(* search has backtracked.                                                 *)
PathIsSimpleWalk ==
  /\ path[1] = initial[1] /\ path[2] = initial[2]
  /\ \A i \in 1 .. Len(path) - 1 :
       <<path[i], path[i + 1]>> \in
         IF query = "first" \/ (query = "from_input" /\ i > 1) THEN Tagged ELSE Usable
  /\ \A i, j \in 2 .. Len(path) : i # j => path[i] # path[j]
  /\ initial[1] # initial[2] => \A i \in 2 .. Len(path) : path[i] # path[1]

(* A set of vertices that holds the end of the initial edge and all its    *)
(* usable successors, but no output: no path leads on from the initial     *)
(* edge, without returning to its source, to an output.                    *)
Enclosed(C) ==
  /\ initial[2] \in C
  /\ \A v \in C : ~AtOutput(v)
  /\ \A e \in Usable : e[1] \in C => e[2] \in C \cup {initial[1]}

(* The backtracking misses nothing: a search that returns has either       *)
(* arrived at an output, or there is none to arrive at.                    *)
FindsAnOutput ==
  phase = "done" => AtOutput(Last(path)) \/ \E C \in SUBSET Vertices : Enclosed(C)

(* The search comes to an end on every graph, cycles included.             *)
SearchEnds == <>(phase \in {"done", "undefined"})
=============================================================================
