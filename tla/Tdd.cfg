\* Two tasks that may take every outcome, a refactoring that throws and a job
\* that ends early included.
CONSTANTS
  Path = {p1, p2}
  Content <- MCContent
  LastTask = 2
  SONNET_ATTEMPTS = 2
  OPUS_ATTEMPTS = 0
  MaxThrows = 1
  MaxAborts = 1
SPECIFICATION FairSpec
INVARIANTS DefinitionOfDone CommittedOnce
PROPERTY TaskEnds
CHECK_DEADLOCK FALSE
