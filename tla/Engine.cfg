\* Two workers, one place in each channel, four packets of three streams, of
\* which two share a worker: a burst of packets can fill a channel.
CONSTANTS
  N = 2
  StreamIDs = {0, 1, 2}
  ChanSize = 1
  MaxPackets = 4
SPECIFICATION FairSpec
INVARIANT EachPacketOnce
PROPERTIES ImplementsPacketOrder EveryPacketAnswered RunAndWorkersStop
CHECK_DEADLOCK FALSE
