SPECIFICATION Spec
CONSTANTS
  Jobs <- OutboundAndInbound
  Recipients <- BroadcastThenTwo
  OutCap = 2
  InboundQueueCap = 1
  EventSlack = 0
  StallFail = 1
  EndlessReplays = FALSE
  MaxFaults = 1
INVARIANTS
  TypeOK
  Inv
  CompletionBarrier
  FailureHidesResult
  SuccessIsComplete
  SendFailureFails
  DeliveryInOrder
  AtMostOneLateFrame
PROPERTIES
  ImplementsSession
