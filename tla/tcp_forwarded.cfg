CONSTANTS
  max_bandwidth = 2500
  delay_ms = 10
  tcp_timeout = 30
  ip_bandwidth <- MCNoIpLimit
  TCP_PACKET_EXTRA_OVERHEAD = 10
  MAX_TCP_MSG_QUEUE_SIZE = 1
  Sizes = {20}
  Steps <- MCForward
  IpSteps = {10}
  MaxChunks = 3
  MaxIdle = 10
  MaxLag = 0
SPECIFICATION FairPeersSpec
PROPERTIES Forwarded ReaderResumes
