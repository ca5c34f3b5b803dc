------------------------- MODULE ParentGraphProofs -------------------------
(***************************************************************************)
(* Proofs about the parent lookup of commit_inner and the permanence of    *)
(* the registry's bindings, for every value of CommitPipeline's constants, *)
(* with any step failing and under either ordering guarantee of the window *)
(* manager.  The self-parent assert and the Cursor arm of find_x11_parent   *)
(* never fire: the surface being committed holds no window yet, and no     *)
(* window ever renders to a cursor surface, so no cursor is ever paired.   *)
(***************************************************************************)
EXTENDS RegistryProofs

\* No window renders to a surface XWayland uses as a pointer image.
CursorsUnpaired == \A v \in Win : wlSurface[v] \notin CursorSurf

\* Only a pointer-image surface ever has the Cursor role.
CursorRoleOnCursors == \A s \in Surf : role[s] = "cursor" => s \in CursorSurf

AssertInv == RegInv /\ CursorsUnpaired /\ CursorRoleOnCursors

-----------------------------------------------------------------------------
(* AssertInv implies the asserts are unreachable: the target's entry holds *)
(* a window, which s does not, and which renders to the entry's surface,   *)
(* which is therefore not a cursor surface.                                *)
LEMMA AssertInvUnreachable == AssertInv => AssertsUnreachable
<1> SUFFICES ASSUME AssertInv, NEW s \in Surf, NEW w \in Claim(s),
                    TransientTarget(w) # NoWin,
                    NEW p \in Surf, x11[p] = TransientTarget(w)
             PROVE  p # s /\ role[p] # "cursor"
  BY DEF AssertsUnreachable
<1>1. w # NoWin
  BY DEF TransientTarget
<1>2. x11[s] = NoWin
  BY <1>1, ClaimFacts DEF AssertInv
<1>3. x11[p] # NoWin
  OBVIOUS
<1>4. wlSurface[x11[p]] = p /\ x11[p] \in Win
  BY <1>3 DEF AssertInv, RegInv, PairedMatches, PairingInv, TypeOK
<1>5. p \notin CursorSurf
  BY <1>4 DEF AssertInv, CursorsUnpaired
<1>. QED
  BY <1>2, <1>3, <1>5 DEF AssertInv, CursorRoleOnCursors

(* A commit keeps AssertInv: it gives s either the role it had or the role *)
(* update_x11_surface chose, which is never Cursor, and leaves the window  *)
(* manager's associations alone.                                           *)
LEMMA CommitAssert ==
  ASSUME AssertInv, NEW s \in Surf, NEW att \in Assignment, NEW queue \in Seq(Surf),
         ExecuteOrDeferCommit(s, att, queue)
  PROVE  AssertInv'
<1>1. RegInv'
  BY CommitReg DEF AssertInv
<1>2. PICK w \in Claim(s) :
        \/ /\ ParentPanics(s, w)
           /\ halted' = TRUE
           /\ UNCHANGED <<bridgeVars, unpaired, registryVars, attached, idle, pointer>>
        \/ /\ ~ParentPanics(s, w)
           /\ \E o \in Outcomes(s, att, w), keep \in BOOLEAN, r \in NewRoles(w) :
                CommitRuns(s, att, queue, w, o, keep, r)
  BY DEF ExecuteOrDeferCommit
<1>3. CASE ParentPanics(s, w)
  BY <1>1, <1>2, <1>3 DEF AssertInv, CursorsUnpaired, CursorRoleOnCursors,
                          bridgeVars, registryVars
<1>4. CASE ~ParentPanics(s, w)
  <2>1. PICK o \in Outcomes(s, att, w), keep \in BOOLEAN, r \in NewRoles(w) :
               CommitRuns(s, att, queue, w, o, keep, r)
    BY <1>2, <1>4
  <2>2. /\ role' = [role EXCEPT ![s] = RoleAfter(s, w, o, r)]
        /\ wlSurface' = wlSurface
    BY <2>1 DEF CommitRuns, bridgeVars
  <2>3. r \in {"toplevel", "popup"}
    BY DEF NewRoles
  <2>4. RoleAfter(s, w, o, r) = "cursor" => role[s] = "cursor"
    BY <2>3 DEF RoleAfter
  <2>5. role \in [Surf -> Roles]
    BY DEF AssertInv, RegInv, PairingInv, TypeOK
  <2>6. CursorRoleOnCursors'
    BY <2>2, <2>4, <2>5 DEF AssertInv, CursorRoleOnCursors
  <2>. QED
    BY <1>1, <2>2, <2>6 DEF AssertInv, CursorsUnpaired
<1>. QED
  BY <1>2, <1>3, <1>4

(* The initial state satisfies AssertInv.                                  *)
LEMMA InitAssert == Init => AssertInv
BY InitReg, ConstAssumption DEF Init, AssertInv, CursorsUnpaired, CursorRoleOnCursors

(* Every step keeps AssertInv.                                             *)
LEMMA NextAssert == AssertInv /\ [Next]_vars => AssertInv'
<1> SUFFICES ASSUME AssertInv, [Next]_vars PROVE AssertInv'
  OBVIOUS
<1>0. RegInv'
  BY NextReg DEF AssertInv
<1>1. ASSUME NEW s \in Surf, NEW a \in Assignment, ClientCommit(s, a)
      PROVE  AssertInv'
  <2>1. (IF a = "none" THEN attached[s] ELSE a) \in Assignment
    BY DEF AssertInv, RegInv, PairingInv, TypeOK
  <2>2. idle \in Seq(Surf)
    BY DEF AssertInv, RegInv, PairingInv, TypeOK
  <2>. QED
    BY <1>1, <2>1, <2>2, CommitAssert DEF ClientCommit
<1>2. CASE IdleRetry
  <2>1. Head(idle) \in Surf /\ Tail(idle) \in Seq(Surf)
    BY <1>2 DEF IdleRetry, AssertInv, RegInv, PairingInv, TypeOK
  <2>2. attached[Head(idle)] \in Assignment
    BY <2>1 DEF AssertInv, RegInv, PairingInv, TypeOK
  <2>. QED
    BY <1>2, <2>1, <2>2, CommitAssert DEF IdleRetry
<1>3. ASSUME NEW s \in CursorSurf, CursorSurface(s)
      PROVE  AssertInv'
  <2>1. role \in [Surf -> Roles] /\ s \in Surf
    BY ConstAssumption DEF AssertInv, RegInv, PairingInv, TypeOK
  <2>2. CursorRoleOnCursors'
    BY <1>3, <2>1 DEF CursorSurface, AssertInv, CursorRoleOnCursors, registryVars
  <2>. QED
    BY <1>0, <1>3, <2>2 DEF CursorSurface, AssertInv, CursorsUnpaired, bridgeVars
<1>4. ASSUME NEW w \in Win, NEW s \in Surf \ CursorSurf, AssociateSurface(w, s)
      PROVE  AssertInv'
  <2>1. wlSurface \in [Win -> Surf \cup {NoSurf}]
    BY DEF AssertInv, RegInv, PairingInv, TypeOK
  <2>2. CursorsUnpaired'
    BY <1>4, <2>1, ConstAssumption DEF AssociateSurface, AssertInv, CursorsUnpaired
  <2>. QED
    BY <1>0, <1>4, <2>2 DEF AssociateSurface, AssertInv, CursorRoleOnCursors, registryVars
<1>5. CASE ~(\E s \in Surf, a \in Assignment : ClientCommit(s, a))
           /\ ~IdleRetry
           /\ ~(\E s \in CursorSurf : CursorSurface(s))
           /\ ~(\E w \in Win, s \in Surf \ CursorSurf : AssociateSurface(w, s))
  <2>1. UNCHANGED <<wlSurface, role>>
    BY <1>5 DEF Next, vars, CursorHidden, CursorNamed, XWaylandReady,
                XWaylandExited, MapWindow, bridgeVars, registryVars
  <2>. QED
    BY <1>0, <2>1 DEF AssertInv, CursorsUnpaired, CursorRoleOnCursors
<1>. QED
  BY <1>1, <1>2, <1>3, <1>4, <1>5

(* The self-parent assert of commit_inner and the Cursor arm of            *)
(* find_x11_parent never fire (AssertsUnreachable): in every behaviour,    *)
(* with any step failing and under either ordering guarantee of the window *)
(* manager, the entry holding a claimed window's transient-for target is   *)
(* neither the committed surface nor a cursor.                             *)
THEOREM AssertsUnreachableCorrect == Spec => []AssertsUnreachable
<1>1. Init => AssertInv
  BY InitAssert
<1>2. AssertInv /\ [Next]_vars => AssertInv'
  BY NextAssert
<1>3. AssertInv => AssertsUnreachable
  BY AssertInvUnreachable
<1>. QED
  BY <1>1, <1>2, <1>3, PTL DEF Spec

-----------------------------------------------------------------------------
(* A commit never replaces or clears a stored window: the window it claims *)
(* renders to s, and s then holds none (ClaimFacts).                       *)
LEMMA CommitKeepsBindings ==
  ASSUME RegInv, NEW s \in Surf, NEW att \in Assignment, NEW queue \in Seq(Surf),
         ExecuteOrDeferCommit(s, att, queue)
  PROVE  \A s2 \in Surf : x11[s2] # NoWin => x11'[s2] = x11[s2]
<1>1. PICK w \in Claim(s) :
        \/ /\ ParentPanics(s, w)
           /\ halted' = TRUE
           /\ UNCHANGED <<bridgeVars, unpaired, registryVars, attached, idle, pointer>>
        \/ /\ ~ParentPanics(s, w)
           /\ \E o \in Outcomes(s, att, w), keep \in BOOLEAN, r \in NewRoles(w) :
                CommitRuns(s, att, queue, w, o, keep, r)
  BY DEF ExecuteOrDeferCommit
<1>2. CASE ParentPanics(s, w)
  BY <1>1, <1>2 DEF registryVars
<1>3. CASE ~ParentPanics(s, w)
  <2>1. PICK o \in Outcomes(s, att, w), keep \in BOOLEAN, r \in NewRoles(w) :
               CommitRuns(s, att, queue, w, o, keep, r)
    BY <1>1, <1>3
  <2>2. x11' = [x11 EXCEPT ![s] = PairedWith(s, w, o, keep)]
    BY <2>1 DEF CommitRuns
  <2>3. w # NoWin => x11[s] = NoWin
    BY ClaimFacts
  <2>. QED
    BY <2>2, <2>3 DEF PairedWith, RegInv, PairingInv, TypeOK
<1>. QED
  BY <1>1, <1>2, <1>3

(* Every step keeps the windows stored in the registry.                    *)
LEMMA NextKeepsBindings ==
  ASSUME RegInv, [Next]_vars
  PROVE  [\A s \in Surf : x11[s] # NoWin => x11'[s] = x11[s]]_vars
<1>1. ASSUME NEW s \in Surf, NEW a \in Assignment, ClientCommit(s, a)
      PROVE  \A s2 \in Surf : x11[s2] # NoWin => x11'[s2] = x11[s2]
  <2>1. (IF a = "none" THEN attached[s] ELSE a) \in Assignment
    BY DEF RegInv, PairingInv, TypeOK
  <2>2. idle \in Seq(Surf)
    BY DEF RegInv, PairingInv, TypeOK
  <2>. QED
    BY <1>1, <2>1, <2>2, CommitKeepsBindings DEF ClientCommit
<1>2. CASE IdleRetry
  <2>1. Head(idle) \in Surf /\ Tail(idle) \in Seq(Surf)
    BY <1>2 DEF IdleRetry, RegInv, PairingInv, TypeOK
  <2>2. attached[Head(idle)] \in Assignment
    BY <2>1 DEF RegInv, PairingInv, TypeOK
  <2>. QED
    BY <1>2, <2>1, <2>2, CommitKeepsBindings DEF IdleRetry
<1>3. CASE ~(\E s \in Surf, a \in Assignment : ClientCommit(s, a)) /\ ~IdleRetry
  <2>1. UNCHANGED x11
    BY <1>3 DEF Next, vars, CursorHidden, CursorNamed, CursorSurface,
                XWaylandReady, XWaylandExited, MapWindow, AssociateSurface,
                registryVars
  <2>. QED
    BY <2>1
<1>. QED
  BY <1>1, <1>2, <1>3

(* Bindings are permanent (update_x11_surface, called by commit_inner on   *)
(* every claimed window without looking at the entry's x11_surface): in    *)
(* every behaviour, with any steps failing, a window stored in a registry  *)
(* entry is never replaced or cleared.                                     *)
THEOREM BindingPermanentCorrect == Spec => BindingPermanent
BY InitReg, NextReg, NextKeepsBindings, PTL DEF Spec, BindingPermanent

=============================================================================
