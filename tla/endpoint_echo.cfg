SPECIFICATION Spec
CONSTANTS
  Endpoints <- MCEndpoints
  Messages <- MCMessages
  Results <- MCResults
INVARIANTS
  TakesMessage
CHECK_DEADLOCK FALSE
