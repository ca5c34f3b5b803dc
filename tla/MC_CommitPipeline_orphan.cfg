\* A transient window whose parent is mapped but not yet paired.
CONSTANTS
  s1 = s1  s2 = s2  c1 = c1  w1 = w1  w2 = w2
  NoWin = NoWin  NoSurf = NoSurf
  Surf <- MCSurf
  CursorSurf <- MCCursorSurf
  Win <- MCWin2
  MaxIdle = 2
  Fallible <- MCNoFailure
  ParentPaired = FALSE
INIT Init
NEXT Next
INVARIANT NoPanic
