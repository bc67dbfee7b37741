\* Is every connection accepted in the default mode?
SPECIFICATION Spec
CONSTANTS
  Clients = {1, 2}
  Pieces = 1
  LISTEN = LISTEN
  MAX_EVENT_NUM = 2
PROPERTIES DefaultModeAccepts
CHECK_DEADLOCK FALSE
