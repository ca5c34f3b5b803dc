\* Output descriptors of two ids, with the zero mode and two others.
CONSTANTS
  o1 = o1
  o2 = o2
  zero = zero
  m1 = m1
  m2 = m2
  p1 = p1
  p2 = p2
  NoMode = NoMode
  NoProps = NoProps
  OutputId <- MCOutputId
  Mode <- MCMode
  ZeroMode = zero
  Props <- MCProps
INIT Init
NEXT Next
INVARIANT OutputModesConsistent
