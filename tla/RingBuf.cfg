SPECIFICATION FairSpec
CONSTANTS
  a = a
  b = b
  Frame <- MCFrame
  FrameLen <- MCFrameLen
  Mtu = 2
  Hdr = 2
  Cap = 8
  W = 16
  StatW = 2
  WeakOrder = FALSE
  NoFrame = NoFrame
INVARIANTS TypeOK NoTornFrame NoResync RingInv
PROPERTIES ImplementsFifo EveryFrameDelivered
