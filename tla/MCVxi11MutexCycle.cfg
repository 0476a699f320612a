SPECIFICATION FairSpec
CONSTANTS
  Conns = {"a", "b"}
  Interrupts = {"a"}
  None = None
PROPERTY
  AbortChannelAnswers
CHECK_DEADLOCK FALSE
