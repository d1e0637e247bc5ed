SPECIFICATION FairSpec
CONSTANTS
  MaxBypass = 6
  MaxIdle = 6
INVARIANTS OneHot BoundedBypass HandOver
PROPERTIES NoPreemption NoStarvation
