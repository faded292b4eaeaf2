SPECIFICATION Spec
CONSTANTS
  a = a
  b = b
  Node <- MCNode
  Workload <- WrapWorkload
  NetOn <- MCNode
  SeqBase <- MCSeqBase
  Reach <- MCReach
  SEQ_MOD = 4
  MAX_RETRIES = 1
  ACK_DEPTH = 1
  SEND_DEPTH = 5
  RECV_DEPTH = 1
  NET_DEPTH = 1
  BadSeq = {}
  DEDUP_SLOTS = 4
  DEDUP_WINDOW = 2
INVARIANT
  FreshIsNotDuplicate
