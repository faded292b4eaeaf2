SPECIFICATION FairSpec
CONSTANTS
  a = a
  b = b
  Node <- MCNode
  Workload <- MCWorkload
  NetOn <- MCNode
  SeqBase <- MCSeqBase
  Reach <- MCReach
  SEQ_MOD = 3
  MAX_RETRIES = 1
  ACK_DEPTH = 1
  SEND_DEPTH = 2
  RECV_DEPTH = 1
  NET_DEPTH = 1
  BadSeq = {0}
  DEDUP_SLOTS = 1
  DEDUP_WINDOW = 2
INVARIANTS
  TypeOK
  FreshIsNotDuplicate
PROPERTIES
  ImplementsService
  EveryPacketReported
