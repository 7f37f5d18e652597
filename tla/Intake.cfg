\* Four events, one delivery of them repeated, two requests at a time and one
\* failure: long enough for an answer before, at and after a gate.
SPECIFICATION FairSpec
CONSTANTS
  Slot = {s1, s2}
  MaxEvents = 4
  MaxRedeliveries = 1
  MaxFailures = 1
  MaxVisits = 2
INVARIANTS OneJobPerDelivery
PROPERTIES OnlyHumansMoveOn AnswersTakenUp KeyPurged
CHECK_DEADLOCK FALSE
