SPECIFICATION FairSpec
CONSTANTS
  Jobs <- OneMessageEdDSA
  Recipients <- OneBroadcast
  OutCap = 2
  InboundQueueCap = 1
  EventSlack = 0
  StallFail = 1
  EndlessReplays = TRUE
  MaxFaults = 0
PROPERTIES
  Termination
