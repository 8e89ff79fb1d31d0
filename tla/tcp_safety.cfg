CONSTANTS
  max_bandwidth = 0
  delay_ms = 10
  tcp_timeout = 10
  ip_bandwidth <- MCIpLimit
  TCP_PACKET_EXTRA_OVERHEAD = 10
  MAX_TCP_MSG_QUEUE_SIZE = 1
  Sizes = {20}
  Steps <- MCSteps
  IpSteps = {10}
  MaxChunks = 3
  MaxIdle = 20
  MaxLag = 10
SPECIFICATION Spec
INVARIANTS TypeOK WriteInFlight QueueBound Backpressure HalfOpenHasData
  ClosedIsQuiet DebtBound
PROPERTIES RelaysInOrder
