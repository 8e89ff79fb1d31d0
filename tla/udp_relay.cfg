CONSTANTS
  d = d
  c1 = c1
  c2 = c2
  Peers = {d, c1}
  Servers = {d}
  Flows <- Stray
  MAX_UDP_MSG_QUEUE_SIZE = 1
  max_bandwidth = 2500
  delay_ms = 0
  udp_timeout = 10
  drop_prob = 100
  ip_limit = TRUE
  Cost = 30
  Steps = {10}
  MaxMsgs <- TwoOne
  MaxErrors = 1
  MaxIdle = 20
  None = None
  Gone = Gone
SPECIFICATION Spec
INVARIANTS TypeOK OneReceive QueueBound ServersStay
PROPERTIES ForwardsInOrder
