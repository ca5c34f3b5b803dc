------------------------ MODULE MC_OutputReconciler ------------------------
EXTENDS OutputReconciler, TLC

CONSTANTS o1, o2, zero, m1, m2, p1, p2

MCOutputId == {o1, o2}
MCMode == {zero, m1, m2}
MCProps == {p1, p2}
=============================================================================
