\* Panic freedom when the window manager maps a transient window only after
\* its parent is paired and update_x11_surface cannot fail.
CONSTANTS
  s1 = s1  s2 = s2  c1 = c1  w1 = w1  w2 = w2
  NoWin = NoWin  NoSurf = NoSurf
  Surf <- MCSurf
  CursorSurf <- MCCursorSurf
  Win <- MCWin2
  MaxIdle = 2
  Fallible <- MCNoPairFailure
  ParentPaired = TRUE
INIT Init
NEXT Next
INVARIANT NoPanic
SYMMETRY MCSymmetry
