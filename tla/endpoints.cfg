SPECIFICATION Spec
CONSTANTS
  Endpoints <- MCEndpoints
  Messages <- MCMessages
  Results <- MCResults
INVARIANTS
  RunsAsDeclared
  RefusedUntouched
  ContextsClosed
  RuntimeErrorExplained
\* The one message is settled, or the endpoint is refused and ends the set-up.
CHECK_DEADLOCK FALSE
