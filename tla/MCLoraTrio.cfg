SPECIFICATION Spec
CONSTANTS
  a = a
  b = b
  c = c
  Node <- MCNode
  Workload <- MCWorkload
  NetOn <- MCNetOn
  SeqBase <- MCSeqBase
  Reach <- MCReach
  SEQ_MOD = 3
  MAX_RETRIES = 1
  ACK_DEPTH = 1
  SEND_DEPTH = 2
  RECV_DEPTH = 1
  NET_DEPTH = 1
  BadSeq = {}
  DEDUP_SLOTS = 2
  DEDUP_WINDOW = 2
INVARIANTS
  InOrderOncePerWindow
  DedupTracksLatest
  AcksAreEarned
  OkMeansSeqAccepted
