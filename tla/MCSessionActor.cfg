SPECIFICATION FairSpec
CONSTANTS
  Query = {q1, q2, q3}
  Interrupt = {i1}
  Disconnect = {d1}
  NoCommand = NoCommand
  Faults = {"connect", "query", "interrupt", "recv", "cancel"}
CHECK_DEADLOCK FALSE
INVARIANTS
  AtMostOneLost
PROPERTIES
  MailboxSpec
  Answered
