------------------------- MODULE MC_CommitPipeline -------------------------
(* Small instances of CommitPipeline for TLC.                             *)
EXTENDS CommitPipeline, TLC

CONSTANTS s1, s2, c1, w1, w2

\* Two window surfaces and one cursor surface.
MCSurf == {s1, s2, c1}
MCCursorSurf == {c1}
\* Two windows: a toplevel and a transient child.
MCWin2 == {w1, w2}

\* No recoverable step fails.
MCNoFailure == {}
\* Recoverable failures that do not lose a claimed window.
MCSafeFailures == {"create", "buffer", "frames"}
\* Every step of commit_inner that can return Err.
MCCommitFailures == {"create", "pair", "buffer", "frames"}
\* Every failure that neither update_x11_surface nor the XWayland start-up
\* expects can return.
MCNoPairFailure == {"create", "buffer", "frames", "theme"}
\* A commit whose registry entry cannot be created.
MCCreateFailure == {"create"}
\* A commit whose buffer step returns Err.
MCBufferFailure == {"buffer"}

\* Window ids are interchangeable; the two window surfaces are too.
MCSymmetry == Permutations({w1, w2}) \cup Permutations({s1, s2})
=============================================================================
