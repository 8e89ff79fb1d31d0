CONSTANTS
  max_bandwidth = 0
  delay_ms = 10
  tcp_timeout = 20
  ip_bandwidth <- MCNoIpLimit
  TCP_PACKET_EXTRA_OVERHEAD = 10
  MAX_TCP_MSG_QUEUE_SIZE = 1
  Sizes = {20}
  Steps <- MCForward
  IpSteps = {10}
  MaxChunks = 2
  MaxIdle = 30
  MaxLag = 0
SPECIFICATION FairSpec
PROPERTIES Released
