CONSTANTS
  MaxFrames = 2
  FrameLen = 2
  RingSize = 4
  EventQueueLen = 2
  NumIncomingPackets = 1
  MaxChunk = 3
SPECIFICATION FairSpec
INVARIANTS
  TypeOK
  ReadNeverBlocks
  SurvivingFrameBecomesPacket
PROPERTIES
  LinkSpec
  StrandedOnlyByOverflow
  QueuedPacketHandled
