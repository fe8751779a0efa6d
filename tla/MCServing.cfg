SPECIFICATION ServingSpec
CONSTANTS
  Requests = {r1, r2, r3}
  r1 = r1
  r3 = r3
  Nonces = {n1}
  TaskIds = {t1}
  None = None
  Inputs <- FewInputs
  MaxConcurrent = 2
  Shares = {50, 100}
  EnableIdempotency = TRUE
  Openers = {a, b, c}
  WaitForCapacity = TRUE
  Cooldown = 2
  Interval = 1
  Lease = 2
INVARIANTS SlotAccounts NoDuplicateExecution RefusalLeavesNoTrace
PROPERTIES EveryRequestLeaves EveryOpenerProceeds
CHECK_DEADLOCK FALSE
