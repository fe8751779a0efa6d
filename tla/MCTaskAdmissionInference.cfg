SPECIFICATION Spec
CONSTANTS
  Requests = {r1, r2}
  Nonces = {n1}
  TaskIds = {t1}
  None = None
  Inputs <- FewInputs
  MaxConcurrent = 1
  Shares = {100}
  EnableIdempotency = FALSE
CHECK_DEADLOCK FALSE
INVARIANT InferenceCapped
