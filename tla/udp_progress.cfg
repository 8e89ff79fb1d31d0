CONSTANTS
  d = d
  c1 = c1
  c2 = c2
  Peers = {d, c1, c2}
  Servers = {d}
  Flows <- TwoClients
  MAX_UDP_MSG_QUEUE_SIZE = 1
  max_bandwidth = 2500
  delay_ms = 10
  udp_timeout = 10
  drop_prob = 0
  ip_limit = FALSE
  Cost = 30
  Steps = {10}
  MaxMsgs <- OneTwo
  MaxErrors = 1
  MaxIdle = 20
  None = None
  Gone = Gone
SPECIFICATION FairSpec
PROPERTIES Resumes ClientsExpire
