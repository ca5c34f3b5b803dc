\* A window claimed by a commit whose entry creation fails is lost.
CONSTANTS
  s1 = s1  s2 = s2  c1 = c1  w1 = w1  w2 = w2
  NoWin = NoWin  NoSurf = NoSurf
  Surf <- MCSurf
  CursorSurf <- MCCursorSurf
  Win <- MCWin2
  MaxIdle = 2
  Fallible <- MCCreateFailure
  ParentPaired = TRUE
INIT Init
NEXT Next
INVARIANT NoLostWindow
