\* Two requests to one session, together or one after the other, and one
\* upset anywhere.
CONSTANTS
  r1 = r1  r2 = r2  s0 = s0
  Runs = {r1, r2}
  Shared = s0
  None = None
  MaxUpsets = 1
SPECIFICATION FairSpec
INVARIANT TypeOK
PROPERTIES CompletedByItsOwnExecution ToldFailureIsReported RunIsReported
CHECK_DEADLOCK FALSE
