-------------------------- MODULE AbstractPairing --------------------------
(***************************************************************************)
(* What the surface-identity reconciliation promises, with no commits,     *)
(* retries: every X11 window the window manager maps waits until it is     *)
(* bound, once and for good, to the one wl_surface it renders to, or until *)
(* a failed commit of that surface drops it.  A surface holds at most one  *)
(* window, and a bound window is never unbound or replaced.                *)
(*                                                                         *)
(*   waiting    the mapped windows not yet bound                           *)
(*   bound      the window each surface is bound to, NoWin for none        *)
(*   surfaceOf  the wl_surface each window renders to, NoSurf if not known *)
(***************************************************************************)
CONSTANTS Surf, Win, NoWin, NoSurf

VARIABLES waiting, bound, surfaceOf

vars == <<waiting, bound, surfaceOf>>

TypeOK ==
  /\ waiting \subseteq Win
  /\ bound \in [Surf -> Win \cup {NoWin}]
  /\ surfaceOf \in [Win -> Surf \cup {NoSurf}]

Init ==
  /\ waiting = {}
  /\ bound = [s \in Surf |-> NoWin]
  /\ surfaceOf = [w \in Win |-> NoSurf]

\* The windows bound to some surface.
Bound == {bound[s] : s \in Surf} \ {NoWin}

\* A window neither waiting nor bound is mapped and starts waiting.
Map(w) ==
  /\ w \notin waiting \cup Bound
  /\ waiting' = waiting \cup {w}
  /\ UNCHANGED <<bound, surfaceOf>>

\* The window manager learns the surface of a window; no surface renders
\* two windows.
Associate(w, s) ==
  /\ surfaceOf[w] = NoSurf
  /\ \A v \in Win : surfaceOf[v] # s
  /\ surfaceOf' = [surfaceOf EXCEPT ![w] = s]
  /\ UNCHANGED <<waiting, bound>>

\* A waiting window is bound to its surface, which holds no window yet.
Pair(s, w) ==
  /\ w \in waiting
  /\ surfaceOf[w] = s
  /\ bound[s] = NoWin
  /\ waiting' = waiting \ {w}
  /\ bound' = [bound EXCEPT ![s] = w]
  /\ UNCHANGED surfaceOf

\* A waiting window whose surface is known and holds no window is dropped:
\* the commit of that surface that claimed it failed.
Drop(w) ==
  /\ w \in waiting
  /\ surfaceOf[w] # NoSurf
  /\ bound[surfaceOf[w]] = NoWin
  /\ waiting' = waiting \ {w}
  /\ UNCHANGED <<bound, surfaceOf>>

Next ==
  \/ \E w \in Win : Map(w)
  \/ \E w \in Win : Drop(w)
  \/ \E w \in Win, s \in Surf : Associate(w, s)
  \/ \E s \in Surf, w \in Win : Pair(s, w)

Spec == Init /\ [][Next]_vars

=============================================================================
