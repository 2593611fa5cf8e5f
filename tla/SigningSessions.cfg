SPECIFICATION Spec
CONSTANTS
  HardenedStart <- MCHardenedStart
  Parties <- MCParties
  Calls <- MCCalls
  Owner <- MCOwner
  Requests <- MCRequests
  Names <- MCNames
  ChainCodes <- MCChainCodes
  DKGs <- MCDKGs
  Imported <- MCImported
INVARIANTS
  SignInv
  CommitmentsAgree
  HashMeansSame
  FacadeDecides
  OwnSignature
  EntriesBelong
  DKGKeysSign
