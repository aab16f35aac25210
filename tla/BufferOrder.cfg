SPECIFICATION Spec
CONSTANTS
  a = a
  b = b
  c = c
  Nobody = Nobody
  Sender <- ThreeSenders
  Size <- Lengths
  Limit = 6
  Headroom <- Scarce
  MaxCalls = 2
  MaxRetries = 0
SYMMETRY Interchangeable
INVARIANTS NeverStranded FifoOrder ReturnedMeansFinished
PROPERTIES ImplementsChannel
