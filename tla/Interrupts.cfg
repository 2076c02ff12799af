CONSTANTS
  t0 = t0
  g0 = g0
  Sources = {t0, g0}
  Timer = t0
SPECIFICATION FairSpec
INVARIANTS
  ReturnIsQuiet
PROPERTIES
  UntoldIsKept
  Delivered
