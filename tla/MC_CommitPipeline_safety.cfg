\* Safety of pairing and parent links with recoverable failures.
CONSTANTS
  s1 = s1  s2 = s2  c1 = c1  w1 = w1  w2 = w2
  NoWin = NoWin  NoSurf = NoSurf
  Surf <- MCSurf
  CursorSurf <- MCCursorSurf
  Win <- MCWin2
  Fallible <- MCSafeFailures
  MaxIdle = 2
  ParentPaired = TRUE
INIT Init
NEXT Next
INVARIANT TypeOK NoDoublePairing ParentLinksConsistent
PROPERTY BindingPermanent
SYMMETRY MCSymmetry
