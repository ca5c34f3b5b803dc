------------------------ MODULE CommitPipelineProofs ------------------------
(***************************************************************************)
(* Proofs about CommitPipeline for every value of its constants.           *)
(***************************************************************************)
EXTENDS CommitPipeline, TLAPS

USE ConstAssumption

\* The outcome, window and role a commit may pick are of the right kind.
LEMMA CommitChoices ==
  ASSUME TypeOK, NEW s \in Surf, NEW att \in Assignment
  PROVE  /\ Claim(s) \subseteq Win \cup {NoWin}
         /\ \A w \in Claim(s) : Outcomes(s, att, w) \subseteq
                                  {"ok", "create", "pair", "buffer", "frames"}
         /\ \A w \in Claim(s) : NewRoles(w) \subseteq Roles
BY DEF TypeOK, Claim, Matching, Outcomes, NewRoles, Roles

(* A commit of s with assignment att and remaining queue queue keeps every *)
(* variable of the right type, whether it panics, fails or succeeds.        *)
LEMMA CommitTypeOK ==
  ASSUME TypeOK, NEW s \in Surf, NEW att \in Assignment, NEW queue \in Seq(Surf),
         ExecuteOrDeferCommit(s, att, queue)
  PROVE  TypeOK'
<1>1. PICK w \in Claim(s) :
        \/ /\ ParentPanics(s, w)
           /\ halted' = TRUE
           /\ UNCHANGED <<bridgeVars, unpaired, registryVars, attached, idle, pointer>>
        \/ /\ ~ParentPanics(s, w)
           /\ \E o \in Outcomes(s, att, w), keep \in BOOLEAN, r \in NewRoles(w) :
                CommitRuns(s, att, queue, w, o, keep, r)
  BY DEF ExecuteOrDeferCommit
<1>2. w \in Win \cup {NoWin}
  BY <1>1, CommitChoices
<1>3. CASE ParentPanics(s, w)
  BY <1>1, <1>3 DEF TypeOK, bridgeVars, registryVars
<1>4. CASE ~ParentPanics(s, w)
  <2>1. PICK o \in Outcomes(s, att, w), keep \in BOOLEAN, r \in NewRoles(w) :
               CommitRuns(s, att, queue, w, o, keep, r)
    BY <1>1, <1>4
  <2>2. o \in {"ok", "create", "pair", "buffer", "frames"} /\ r \in Roles
    BY <1>1, CommitChoices
  <2>3. PairedWith(s, w, o, keep) \in Win \cup {NoWin}
    BY <1>2 DEF TypeOK, PairedWith
  <2>4. RoleAfter(s, w, o, r) \in Roles
    BY <2>2 DEF TypeOK, RoleAfter
  <2>5. BufferAfter(s, att, o) \in BOOLEAN
    BY DEF TypeOK, BufferAfter
  <2>6. AddChild(FindX11Parent(w), s) \in [Surf -> SUBSET Surf]
    BY DEF TypeOK, AddChild
  <2>7. Unclaim(w) \subseteq Win
    BY DEF TypeOK, Unclaim
  <2>8. Append(queue, s) \in Seq(Surf)
    OBVIOUS
  <2>9. /\ unpaired' \subseteq Win
        /\ children' \in [Surf -> SUBSET Surf]
        /\ x11' \in [Surf -> Win \cup {NoWin}]
        /\ role' \in [Surf -> Roles]
        /\ buffer' \in [Surf -> BOOLEAN]
    BY <2>1, <2>3, <2>4, <2>5, <2>6, <2>7 DEF CommitRuns, TypeOK
  <2>10. /\ surfaces' \subseteq Surf
         /\ attached' \in [Surf -> Assignment]
         /\ idle' \in Seq(Surf)
    BY <2>1, <2>8 DEF CommitRuns, TypeOK, Assignment
  <2>11. UNCHANGED <<xwayland, mapped, wlSurface, transientFor, pointer, halted>>
    BY <2>1 DEF CommitRuns, bridgeVars
  <2>. QED
    BY <2>9, <2>10, <2>11 DEF TypeOK
<1>. QED
  BY <1>1, <1>3, <1>4

\* The initial state is well typed.
LEMMA InitTypeOK == Init => TypeOK
<1> SUFFICES ASSUME Init PROVE TypeOK
  OBVIOUS
<1>1. idle \in Seq(Surf)
  BY DEF Init
<1>2. /\ wlSurface \in [Win -> Surf \cup {NoSurf}]
      /\ transientFor \in [Win -> Win \cup {NoWin}]
      /\ x11 \in [Surf -> Win \cup {NoWin}]
  BY DEF Init
<1>3. /\ role \in [Surf -> Roles]
      /\ buffer \in [Surf -> BOOLEAN]
      /\ children \in [Surf -> SUBSET Surf]
      /\ attached \in [Surf -> Assignment]
  BY DEF Init, Roles, Assignment
<1>. QED
  BY <1>1, <1>2, <1>3 DEF Init, TypeOK

\* Every step keeps the variables well typed.
LEMMA NextTypeOK == TypeOK /\ [Next]_vars => TypeOK'
<1> SUFFICES ASSUME TypeOK, [Next]_vars PROVE TypeOK'
  OBVIOUS
<1>1. ASSUME NEW s \in Surf, NEW a \in Assignment, ClientCommit(s, a)
      PROVE  TypeOK'
  <2>1. (IF a = "none" THEN attached[s] ELSE a) \in Assignment
    BY DEF TypeOK
  <2>. QED
    BY <1>1, <2>1, CommitTypeOK DEF ClientCommit, TypeOK
<1>2. CASE IdleRetry
  <2>1. Head(idle) \in Surf /\ Tail(idle) \in Seq(Surf)
    BY <1>2 DEF IdleRetry, TypeOK
  <2>2. attached[Head(idle)] \in Assignment
    BY <2>1 DEF TypeOK
  <2>. QED
    BY <1>2, <2>1, <2>2, CommitTypeOK DEF IdleRetry
<1>3. CASE CursorHidden
  BY <1>3 DEF CursorHidden, TypeOK, bridgeVars, registryVars
<1>4. CASE CursorNamed
  BY <1>4 DEF CursorNamed, TypeOK, bridgeVars, registryVars
<1>5. ASSUME NEW s \in CursorSurf, CursorSurface(s) PROVE TypeOK'
  BY <1>5 DEF CursorSurface, TypeOK, bridgeVars, registryVars, Roles
<1>6. CASE XWaylandReady
  BY <1>6 DEF XWaylandReady, TypeOK, registryVars
<1>7. CASE XWaylandExited
  BY <1>7 DEF XWaylandExited, TypeOK, registryVars
<1>8. ASSUME NEW w \in Win, NEW t \in (Win \ {w}) \cup {NoWin}, MapWindow(w, t)
      PROVE  TypeOK'
  BY <1>8 DEF MapWindow, TypeOK, registryVars
<1>9. ASSUME NEW w \in Win, NEW s \in Surf \ CursorSurf, AssociateSurface(w, s)
      PROVE  TypeOK'
  BY <1>9 DEF AssociateSurface, TypeOK, registryVars
<1>10. CASE UNCHANGED vars
  BY <1>10 DEF vars, TypeOK, bridgeVars, registryVars
<1>. QED
  BY <1>1, <1>2, <1>3, <1>4, <1>5, <1>6, <1>7, <1>8, <1>9, <1>10 DEF Next

(* Type correctness of the whole specification.                            *)
THEOREM TypeCorrect == Spec => []TypeOK
BY InitTypeOK, NextTypeOK, PTL DEF Spec

-----------------------------------------------------------------------------
(* No double pairing.  It is not inductive alone: a window pushed onto     *)
(* x11_surfaces must not already be bound, which holds because MapWindow   *)
(* pushes only windows never pushed before and every window in the list   *)
(* or bound to an entry was pushed.                                        *)
PairingInv ==
  /\ TypeOK
  /\ NoDoublePairing
  /\ unpaired \subseteq mapped
  /\ \A s \in Surf : x11[s] # NoWin => x11[s] \in mapped

(* A commit keeps the pairing invariant: the window it claims comes out of *)
(* x11_surfaces, so no other entry can hold it.                            *)
LEMMA CommitPairing ==
  ASSUME PairingInv, NEW s \in Surf, NEW att \in Assignment, NEW queue \in Seq(Surf),
         ExecuteOrDeferCommit(s, att, queue)
  PROVE  PairingInv'
<1>0. TypeOK'
  BY CommitTypeOK DEF PairingInv
<1>1. PICK w \in Claim(s) :
        \/ /\ ParentPanics(s, w)
           /\ halted' = TRUE
           /\ UNCHANGED <<bridgeVars, unpaired, registryVars, attached, idle, pointer>>
        \/ /\ ~ParentPanics(s, w)
           /\ \E o \in Outcomes(s, att, w), keep \in BOOLEAN, r \in NewRoles(w) :
                CommitRuns(s, att, queue, w, o, keep, r)
  BY DEF ExecuteOrDeferCommit
<1>2. CASE ParentPanics(s, w)
  BY <1>0, <1>1, <1>2 DEF PairingInv, NoDoublePairing, bridgeVars, registryVars
<1>3. CASE ~ParentPanics(s, w)
  <2>1. PICK o \in Outcomes(s, att, w), keep \in BOOLEAN, r \in NewRoles(w) :
               CommitRuns(s, att, queue, w, o, keep, r)
    BY <1>1, <1>3
  <2>2. /\ unpaired' = unpaired \ {w}
        /\ x11' = [x11 EXCEPT ![s] = PairedWith(s, w, o, keep)]
        /\ mapped' = mapped
    BY <2>1 DEF CommitRuns, Unclaim, bridgeVars
  <2>3. PairedWith(s, w, o, keep) \in {w, x11[s]}
    BY DEF PairedWith
  <2>4. w # NoWin => w \in unpaired
    BY DEF Claim, Matching
  <2>5. \A s2 \in Surf : x11'[s2] \in {x11[s2], w}
    BY <2>2, <2>3 DEF PairingInv, TypeOK
  <2>6. \A s2 \in Surf \ {s} : x11'[s2] = x11[s2]
    BY <2>2 DEF PairingInv, TypeOK
  <2>7. NoDoublePairing'
    BY <2>2, <2>4, <2>5, <2>6 DEF PairingInv, NoDoublePairing, TypeOK
  <2>8. \A s2 \in Surf : x11'[s2] # NoWin => x11'[s2] \in mapped'
    BY <2>2, <2>4, <2>5 DEF PairingInv
  <2>. QED
    BY <1>0, <2>2, <2>7, <2>8 DEF PairingInv
<1>. QED
  BY <1>1, <1>2, <1>3

(* The initial state satisfies the pairing invariant.                      *)
LEMMA InitPairingInv == Init => PairingInv
BY InitTypeOK DEF Init, PairingInv, NoDoublePairing

(* Every step keeps the pairing invariant.                                 *)
LEMMA NextPairingInv == PairingInv /\ [Next]_vars => PairingInv'
<1> SUFFICES ASSUME PairingInv, [Next]_vars PROVE PairingInv'
  OBVIOUS
<1>1. ASSUME NEW s \in Surf, NEW a \in Assignment, ClientCommit(s, a)
      PROVE  PairingInv'
  <2>1. (IF a = "none" THEN attached[s] ELSE a) \in Assignment
    BY DEF PairingInv, TypeOK
  <2>2. idle \in Seq(Surf)
    BY DEF PairingInv, TypeOK
  <2>. QED
    BY <1>1, <2>1, <2>2, CommitPairing DEF ClientCommit
<1>2. CASE IdleRetry
  <2>1. Head(idle) \in Surf /\ Tail(idle) \in Seq(Surf)
    BY <1>2 DEF IdleRetry, PairingInv, TypeOK
  <2>2. attached[Head(idle)] \in Assignment
    BY <2>1 DEF PairingInv, TypeOK
  <2>. QED
    BY <1>2, <2>1, <2>2, CommitPairing DEF IdleRetry
<1>3. ASSUME NEW w \in Win, NEW t \in (Win \ {w}) \cup {NoWin}, MapWindow(w, t)
      PROVE  PairingInv'
  <2>1. TypeOK'
    BY <1>3, NextTypeOK DEF PairingInv
  <2>2. \A s \in Surf : x11[s] # w
    BY <1>3 DEF MapWindow, PairingInv
  <2>. QED
    BY <1>3, <2>1, <2>2 DEF MapWindow, PairingInv, NoDoublePairing, registryVars
<1>4. CASE ~(\E s \in Surf, a \in Assignment : ClientCommit(s, a))
           /\ ~IdleRetry
           /\ ~(\E w \in Win : \E t \in (Win \ {w}) \cup {NoWin} : MapWindow(w, t))
  <2>1. TypeOK'
    BY NextTypeOK DEF PairingInv
  <2>2. UNCHANGED <<unpaired, mapped, x11>>
    BY <1>4 DEF Next, vars, CursorHidden, CursorNamed, CursorSurface,
                XWaylandReady, XWaylandExited, AssociateSurface,
                bridgeVars, registryVars
  <2>. QED
    BY <2>1, <2>2 DEF PairingInv, NoDoublePairing
<1>. QED
  BY <1>1, <1>2, <1>3, <1>4

(* No X11 window is ever bound to two registry entries, nor bound while    *)
(* still waiting in x11_surfaces.                                          *)
THEOREM PairingCorrect == Spec => []NoDoublePairing
<1>1. PairingInv => NoDoublePairing
  BY DEF PairingInv
<1>. QED
  BY InitPairingInv, NextPairingInv, <1>1, PTL DEF Spec
=============================================================================
