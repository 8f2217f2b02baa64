SPECIFICATION FairSpec
CONSTANTS
  wlan = wlan
  code9 = code9
  key = key
  Pages = {"page"}
  MaxConns = 2
  Listened = {"startCommunication", "startKeypadListen", "startEventListen"}
  Triggers = {wlan, code9, key}
  Event <- MCEvent
INVARIANTS TypeOK ToldInOrder NetworkStatCurrent
PROPERTIES BackOnAir EventsHandled
CHECK_DEADLOCK FALSE
