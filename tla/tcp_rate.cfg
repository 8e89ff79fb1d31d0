CONSTANTS
  max_bandwidth = 2550
  delay_ms = 0
  tcp_timeout = 100
  ip_bandwidth <- MCNoIpLimit
  TCP_PACKET_EXTRA_OVERHEAD = 10
  MAX_TCP_MSG_QUEUE_SIZE = 1
  Sizes = {20}
  Steps <- MCSteps
  IpSteps = {10}
  MaxChunks = 2
  MaxIdle = 10
  MaxLag = 10
  MaxElapsed = 40
SPECIFICATION RateSpec
INVARIANTS RateBounded
PROPERTIES TcpThrottled
