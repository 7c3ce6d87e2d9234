SPECIFICATION Spec
CONSTANTS
  Scripts <- MCScripts
  Configs <- MCConfigs
  Endpoints = 2
  max_message_size = 4
  MaxEager = 12
  None = None
INVARIANTS BytesInStep
PROPERTIES QuietAfterDestruction ConnectionSettles
CHECK_DEADLOCK FALSE
