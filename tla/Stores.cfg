\* Three jobs on two workers; two runs; four calls on the other tables.
CONSTANTS
  MaxAttempts = 2
  BackoffAfter <- MCBackoffAfter
  Lease = 1
  DefaultBudget = 3
  Null = Null
  Worker = {w1, w2}
  RunKey = {i1, i2}
  RunState = {"waiting", "working"}
  Context = {c1}
  Cost = {1, 2}
  Kind = {"plan", "spec"}
  Content = {v1, v2}
  Index = {0, 1}
  Patch <- MCPatch
  Installation = {n1, n2}
  Secret = {s1, s2}
  AuthType = {"api_key", "subscription"}
  MaxJobs = 3
  MaxCalls = 4
  MaxNow = 4
SPECIFICATION StoresSpec
CHECK_DEADLOCK FALSE
INVARIANTS RowsMirrored AnswersMirrored StaleRunsMirrored
