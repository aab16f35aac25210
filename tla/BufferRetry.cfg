SPECIFICATION FairSpec
CONSTANTS
  a = a
  b = b
  c = c
  Nobody = Nobody
  Sender <- TwoSenders
  Size <- ShortAndFull
  Limit = 6
  Headroom <- Scarce
  MaxCalls = 2
  MaxRetries = 1
INVARIANT BufferSound
PROPERTIES EveryCallCompletes
