\* The pairing implements AbstractPairing with every step of commit_inner
\* failing at will and under the weaker ordering guarantee.  A panic ends
\* the process, so states after one have no successor.
CONSTANTS
  s1 = s1  s2 = s2  c1 = c1  w1 = w1  w2 = w2
  NoWin = NoWin  NoSurf = NoSurf
  Surf <- MCSurf
  CursorSurf <- MCCursorSurf
  Win <- MCWin2
  Fallible <- MCCommitFailures
  MaxIdle = 2
  ParentPaired = FALSE
INIT Init
NEXT Next
PROPERTY PairingRefined
SYMMETRY MCSymmetry
CHECK_DEADLOCK FALSE
