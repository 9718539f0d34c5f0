SPECIFICATION FairSpec
CONSTANTS
  NLidars = 2
  Size = 2
  Modulus = 4
  MaxOffered <- SomeOffered
  Sampling0 = {0}
  StoreBuffer = TRUE
INVARIANTS NoSlotRace QueueInv AtMostOneStranded
PROPERTIES ImplementsDropNewest Delivered ShutdownEnds
CHECK_DEADLOCK FALSE
