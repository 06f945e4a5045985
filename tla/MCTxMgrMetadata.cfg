\* A key deleted and its metadata written in one block.
SPECIFICATION Spec
CONSTANTS
  NumKeys = 2
  Client = {c1, c2}
  Chaincode <- SomeChaincodes
  MaxBlock = 2
INVARIANTS
  MetadataOfMissingKeyIsNoop
