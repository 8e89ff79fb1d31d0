CONSTANTS
  d = d
  c1 = c1
  c2 = c2
  Peers = {d, c1}
  Servers = {d}
  Flows <- OneClient
  MAX_UDP_MSG_QUEUE_SIZE = 2
  max_bandwidth = 0
  delay_ms = 0
  udp_timeout = 20
  drop_prob = 0
  ip_limit = FALSE
  Cost = 30
  Steps = {10}
  MaxMsgs <- TwoTwo
  MaxErrors = 0
  MaxIdle = 20
  None = None
  Gone = Gone
SPECIFICATION Spec
INVARIANTS NoDropAtZero
