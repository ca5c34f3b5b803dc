\* A failed commit of an unpaired surface arms no retry.
CONSTANTS
  s1 = s1  s2 = s2  c1 = c1  w1 = w1  w2 = w2
  NoWin = NoWin  NoSurf = NoSurf
  Surf <- MCSurf
  CursorSurf <- MCCursorSurf
  Win <- MCWin2
  MaxIdle = 2
  Fallible <- MCBufferFailure
  ParentPaired = TRUE
SPECIFICATION Spec
PROPERTY PairingConvergence
