SPECIFICATION SearchSpec
CONSTANTS
  i = i
  a = a
  b = b
  o = o
  Vertices <- MCVertices
  Inputs <- MCInputs
  Outputs <- MCOutputs
  Pairs <- MCPairs
INVARIANTS PathIsSimpleWalk FindsAnOutput
PROPERTIES SearchEnds
