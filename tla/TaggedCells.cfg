SPECIFICATION Spec
CONSTANTS
  MaxWidth = 2
  Addresses = {0, 1}
  Registers = {"$dff", "$dffe", "$adff", "$adffe", "$sdff", "$sdffe", "$aldff", "$aldffe", "$dlatch", "$adlatch", "$dffsr", "$dffsre", "$dlatchsr", "$sr", "$mem_v2"}
  GatesInFront = {"$and", "$or", "$logic_and", "$logic_or", "$xor", "$eq", "$not", "$reduce_or", "$mux", "$pmux"}
INVARIANTS TagCoversData SmtAgreesWithSimulation GateTagsAreSound GateTagsAreExact
