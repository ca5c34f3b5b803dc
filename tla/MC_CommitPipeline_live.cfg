\* Pairing convergence and retry termination when no step fails.
CONSTANTS
  s1 = s1  s2 = s2  c1 = c1  w1 = w1  w2 = w2
  NoWin = NoWin  NoSurf = NoSurf
  Surf <- MCSurf
  CursorSurf <- MCCursorSurf
  Win <- MCWin2
  Fallible <- MCNoFailure
  MaxIdle = 2
  ParentPaired = TRUE
SPECIFICATION Spec
INVARIANT NoLostWindow
PROPERTY  CursorRetryEnds
