SPECIFICATION Spec
CONSTANTS
  a = a
  Handler <- OneHandler
  Statements = 2
  Timeout = 1
  Broken <- First
  DropsLoading = FALSE
  MaxDrops = 0
PROPERTIES StartsComplete
