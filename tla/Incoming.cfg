SPECIFICATION Spec
CONSTANTS
  Codes <- MCCodes
  Asked <- MCAsked
  PortNumber <- MCPortNumber
  default_port = 80
  EndpointPaths <- MCEndpointPaths
  LowerCase <- MCLowerCase
  Requests <- MCRequests
  Answers <- MCAnswers
  Radix <- MCRadix
  Lengths <- MCLengths
  max_message_size <- MCMax
  MaxFrames = 4
  MaxEarly = 1
  None = None
INVARIANTS AskedIsUnderstood OpensOnAcceptance MessagesInOrder SizeRespected
PROPERTIES RightRequestOpens QuietAfterEnd EveryMessageRead
CHECK_DEADLOCK FALSE
