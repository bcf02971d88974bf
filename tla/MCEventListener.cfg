SPECIFICATION EventFairSpec
CONSTANTS
  Emitters = {e1, timer}
  Timer = timer
  Options <- MCOptions
  Listeners = {l1, l2}
  BufferSize = 1
  MaxSerial = 3
  NoListener = NoListener
INVARIANT InFlightIsFirst
PROPERTY EventDelivered
CHECK_DEADLOCK FALSE
