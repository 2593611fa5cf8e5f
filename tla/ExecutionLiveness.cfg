SPECIFICATION FairSpec
CONSTANTS
  Jobs <- OneMessageECDSA
  Recipients <- OneBroadcast
  OutCap = 2
  InboundQueueCap = 1
  EventSlack = 0
  StallFail = 1
  EndlessReplays = FALSE
  MaxFaults = 1
PROPERTIES
  Termination
  CancellationReturns
  ResultReachesCaller
