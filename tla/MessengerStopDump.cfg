CONSTANTS
  RecvBuffer = 2
  Lengths = {1}
  MaxMessages = 3
  MaxQueues = 2
  MaxConnections = 2
  MaxExits = 1
  SocketPackets = 2
  Failures = {"stop_dump"}
SPECIFICATION MessengerSpec
INVARIANT TimerOfLiveQueue
CHECK_DEADLOCK FALSE
