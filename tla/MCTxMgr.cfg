\* Three clients, blocks of up to three transactions.
SPECIFICATION Spec
CONSTANTS
  NumKeys = 3
  Client = {c1, c2, c3}
  Chaincode <- RangeChaincodes
  MaxBlock = 2
INVARIANTS
  Serializable
  BatchIsSerial
  NoSpuriousConflict
  SimulatorSeesOneState
SYMMETRY Symmetry
