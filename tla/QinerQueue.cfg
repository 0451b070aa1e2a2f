SPECIFICATION FairQueueSpec
CONSTANTS
  t1 = t1
  t2 = t2
  Threads = {t1, t2}
  MaxFound = 2
  PacketParts = 2
PROPERTIES ImplementsOutbox EverySolutionHanded ShutsDown
CHECK_DEADLOCK FALSE
