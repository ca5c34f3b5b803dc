--------------------------- MODULE RegistryProofs ---------------------------
(***************************************************************************)
(* Proofs about the registry's parent links and about the pairing as a     *)
(* whole, for every value of CommitPipeline's constants.  Both rest on how *)
(* the window manager associates surfaces: no wl_surface renders two      *)
(* windows, and a bound window renders to the entry it is bound to.  From  *)
(* that, a surface that is already paired can never claim a second window, *)
(* so a window once bound stays bound.                                     *)
(***************************************************************************)
EXTENDS CommitPipelineProofs

\* No wl_surface is associated with two windows.
AssocInjective ==
  \A v1, v2 \in Win : v1 # v2 /\ wlSurface[v1] = wlSurface[v2] => wlSurface[v1] = NoSurf

\* A window bound to an entry renders to that entry's surface.
PairedMatches == \A s \in Surf : x11[s] # NoWin => wlSurface[x11[s]] = s

\* Every child link was made by a mapped window of the child's surface that
\* is transient for the parent's window.
LinkedHasWindow ==
  \A p, c \in Surf :
    c \in children[p] =>
      /\ x11[p] # NoWin
      /\ \E v \in mapped : wlSurface[v] = c /\ transientFor[v] = x11[p]

RegInv == PairingInv /\ AssocInjective /\ PairedMatches /\ LinkedHasWindow

-----------------------------------------------------------------------------
(* A window commit_inner claims for s is waiting, mapped and renders to s, *)
(* and s holds no window yet.                                              *)
LEMMA ClaimFacts ==
  ASSUME RegInv, NEW s \in Surf, NEW w \in Claim(s), w # NoWin
  PROVE  /\ w \in unpaired /\ w \in mapped
         /\ wlSurface[w] = s
         /\ x11[s] = NoWin
<1>1. w \in unpaired /\ wlSurface[w] = s
  BY DEF Claim, Matching
<1>2. w \in mapped
  BY <1>1 DEF RegInv, PairingInv
<1>3. x11[s] = NoWin
  <2> SUFFICES ASSUME x11[s] # NoWin PROVE FALSE
    OBVIOUS
  <2>1. wlSurface[x11[s]] = s
    BY DEF RegInv, PairedMatches
  <2>2. x11[s] \notin unpaired /\ x11[s] \in Win
    BY DEF RegInv, PairingInv, NoDoublePairing, TypeOK
  <2>3. x11[s] # w /\ w \in Win
    BY <1>1, <2>2 DEF RegInv, PairingInv, TypeOK
  <2>. QED
    BY <1>1, <2>1, <2>2, <2>3, ConstAssumption DEF RegInv, AssocInjective
<1>. QED
  BY <1>1, <1>2, <1>3

(* The parent find_x11_parent returns when commit_inner does not panic is  *)
(* a paired entry other than s, holding the claimed window's target.       *)
LEMMA ParentFacts ==
  ASSUME RegInv, NEW s \in Surf, NEW w \in Claim(s), ~ParentPanics(s, w),
         FindX11Parent(w) # NoSurf
  PROVE  /\ w # NoWin
         /\ FindX11Parent(w) \in Surf
         /\ FindX11Parent(w) # s
         /\ x11[FindX11Parent(w)] = transientFor[w]
         /\ transientFor[w] # NoWin
<1>1. w # NoWin /\ TransientTarget(w) # NoWin
  BY DEF FindX11Parent, TransientTarget
<1>2. TransientTarget(w) = transientFor[w]
  BY <1>1 DEF TransientTarget
<1>3. \E p \in Surf : x11[p] = TransientTarget(w)
  BY <1>1 DEF ParentPanics, Paired
<1>4. FindX11Parent(w) \in Surf /\ x11[FindX11Parent(w)] = TransientTarget(w)
  BY <1>1, <1>3 DEF FindX11Parent, EntryOf
<1>5. FindX11Parent(w) # s
  BY <1>1, <1>4 DEF ParentPanics
<1>. QED
  BY <1>1, <1>2, <1>4, <1>5

(* A commit keeps RegInv: the window it may bind renders to s, and the     *)
(* link it may add is backed by that window.                               *)
LEMMA CommitReg ==
  ASSUME RegInv, NEW s \in Surf, NEW att \in Assignment, NEW queue \in Seq(Surf),
         ExecuteOrDeferCommit(s, att, queue)
  PROVE  RegInv'
<1>0. PairingInv'
  BY CommitPairing DEF RegInv
<1>1. PICK w \in Claim(s) :
        \/ /\ ParentPanics(s, w)
           /\ halted' = TRUE
           /\ UNCHANGED <<bridgeVars, unpaired, registryVars, attached, idle, pointer>>
        \/ /\ ~ParentPanics(s, w)
           /\ \E o \in Outcomes(s, att, w), keep \in BOOLEAN, r \in NewRoles(w) :
                CommitRuns(s, att, queue, w, o, keep, r)
  BY DEF ExecuteOrDeferCommit
<1>2. CASE ParentPanics(s, w)
  BY <1>0, <1>1, <1>2 DEF RegInv, AssocInjective, PairedMatches, LinkedHasWindow,
                          bridgeVars, registryVars
<1>3. CASE ~ParentPanics(s, w)
  <2>1. PICK o \in Outcomes(s, att, w), keep \in BOOLEAN, r \in NewRoles(w) :
               CommitRuns(s, att, queue, w, o, keep, r)
    BY <1>1, <1>3
  <2>2. /\ children' = AddChild(FindX11Parent(w), s)
        /\ x11' = [x11 EXCEPT ![s] = PairedWith(s, w, o, keep)]
        /\ UNCHANGED <<mapped, wlSurface, transientFor>>
    BY <2>1 DEF CommitRuns, bridgeVars
  <2>3. w # NoWin => wlSurface[w] = s /\ x11[s] = NoWin /\ w \in mapped
    BY ClaimFacts
  <2>4. \A s2 \in Surf : x11[s2] # NoWin => x11'[s2] = x11[s2]
    BY <2>2, <2>3 DEF PairedWith, RegInv, PairingInv, TypeOK
  <2>5. AssocInjective'
    BY <2>2 DEF RegInv, AssocInjective
  <2>6. PairedMatches'
    BY <2>2, <2>3 DEF PairedWith, RegInv, PairedMatches, PairingInv, TypeOK
  <2>7. LinkedHasWindow'
    <3> SUFFICES ASSUME NEW p \in Surf, NEW c \in Surf, c \in children'[p]
                 PROVE  /\ x11'[p] # NoWin
                        /\ \E v \in mapped' : wlSurface'[v] = c
                                              /\ transientFor'[v] = x11'[p]
      BY DEF LinkedHasWindow
    <3>1. CASE c \in children[p]
      BY <2>2, <2>4, <3>1 DEF RegInv, LinkedHasWindow
    <3>2. CASE c \notin children[p]
      <4>1. FindX11Parent(w) = p /\ c = s
        BY <2>2, <3>2 DEF AddChild, RegInv, PairingInv, TypeOK
      <4>2. /\ w # NoWin
            /\ x11[p] = transientFor[w]
            /\ transientFor[w] # NoWin
        BY <4>1, <1>3, ParentFacts, ConstAssumption
      <4>. QED
        BY <2>2, <2>3, <2>4, <4>1, <4>2
    <3>. QED
      BY <3>1, <3>2
  <2>. QED
    BY <1>0, <2>5, <2>6, <2>7 DEF RegInv
<1>. QED
  BY <1>1, <1>2, <1>3

(* The initial state satisfies RegInv.                                     *)
LEMMA InitReg == Init => RegInv
BY InitPairingInv DEF Init, RegInv, AssocInjective, PairedMatches, LinkedHasWindow

(* Every step keeps RegInv.  Only a commit, a window map and a surface      *)
(* association touch the state it is about.                               *)
LEMMA NextReg == RegInv /\ [Next]_vars => RegInv'
<1> SUFFICES ASSUME RegInv, [Next]_vars PROVE RegInv'
  OBVIOUS
<1>0. PairingInv'
  BY NextPairingInv DEF RegInv
<1>1. ASSUME NEW s \in Surf, NEW a \in Assignment, ClientCommit(s, a)
      PROVE  RegInv'
  <2>1. (IF a = "none" THEN attached[s] ELSE a) \in Assignment
    BY DEF RegInv, PairingInv, TypeOK
  <2>2. idle \in Seq(Surf)
    BY DEF RegInv, PairingInv, TypeOK
  <2>. QED
    BY <1>1, <2>1, <2>2, CommitReg DEF ClientCommit
<1>2. CASE IdleRetry
  <2>1. Head(idle) \in Surf /\ Tail(idle) \in Seq(Surf)
    BY <1>2 DEF IdleRetry, RegInv, PairingInv, TypeOK
  <2>2. attached[Head(idle)] \in Assignment
    BY <2>1 DEF RegInv, PairingInv, TypeOK
  <2>. QED
    BY <1>2, <2>1, <2>2, CommitReg DEF IdleRetry
<1>3. ASSUME NEW w \in Win, NEW t \in (Win \ {w}) \cup {NoWin}, MapWindow(w, t)
      PROVE  RegInv'
  <2>1. UNCHANGED <<wlSurface, x11, children>> /\ mapped' = mapped \cup {w}
    BY <1>3 DEF MapWindow, registryVars
  <2>2. \A v \in mapped : transientFor'[v] = transientFor[v]
    BY <1>3 DEF MapWindow, RegInv, PairingInv, TypeOK
  <2>. QED
    BY <1>0, <2>1, <2>2 DEF RegInv, AssocInjective, PairedMatches, LinkedHasWindow
<1>4. ASSUME NEW w \in Win, NEW s \in Surf \ CursorSurf, AssociateSurface(w, s)
      PROVE  RegInv'
  <2>1. /\ wlSurface' = [wlSurface EXCEPT ![w] = s]
        /\ wlSurface[w] = NoSurf
        /\ \A v \in Win : wlSurface[v] # s
        /\ UNCHANGED <<x11, children, mapped, transientFor>>
    BY <1>4 DEF AssociateSurface, registryVars
  <2>2. \A v \in Win : wlSurface[v] # NoSurf => wlSurface'[v] = wlSurface[v]
    BY <2>1 DEF RegInv, PairingInv, TypeOK
  <2>3. AssocInjective'
    BY <2>1, <2>2 DEF RegInv, AssocInjective, PairingInv, TypeOK
  <2>4. PairedMatches'
    BY <2>1, <2>2, ConstAssumption DEF RegInv, PairedMatches, PairingInv, TypeOK
  <2>5. LinkedHasWindow'
    BY <2>1, <2>2, ConstAssumption DEF RegInv, LinkedHasWindow, PairingInv, TypeOK
  <2>. QED
    BY <1>0, <2>3, <2>4, <2>5 DEF RegInv
<1>5. CASE ~(\E s \in Surf, a \in Assignment : ClientCommit(s, a))
           /\ ~IdleRetry
           /\ ~(\E w \in Win : \E t \in (Win \ {w}) \cup {NoWin} : MapWindow(w, t))
           /\ ~(\E w \in Win, s \in Surf \ CursorSurf : AssociateSurface(w, s))
  <2>1. UNCHANGED <<wlSurface, x11, children, mapped, transientFor>>
    BY <1>5 DEF Next, vars, CursorHidden, CursorNamed, CursorSurface,
                XWaylandReady, XWaylandExited, bridgeVars, registryVars
  <2>. QED
    BY <1>0, <2>1 DEF RegInv, AssocInjective, PairedMatches, LinkedHasWindow
<1>. QED
  BY <1>1, <1>2, <1>3, <1>4, <1>5

(* Parent links are consistent (commit_inner's children.insert after      *)
(* find_x11_parent): in every behaviour, with any steps failing, a surface *)
(* is recorded as a child only of a paired surface, and once the child is  *)
(* paired its window is transient for the parent's window.                 *)
THEOREM ParentLinksCorrect == Spec => []ParentLinksConsistent
<1>1. RegInv => ParentLinksConsistent
  <2> SUFFICES ASSUME RegInv, NEW p \in Surf, NEW c \in Surf, c \in children[p],
                      x11[c] # NoWin
               PROVE  transientFor[x11[c]] = x11[p]
    BY DEF RegInv, LinkedHasWindow, ParentLinksConsistent
  <2>1. PICK v \in mapped : wlSurface[v] = c /\ transientFor[v] = x11[p]
    BY DEF RegInv, LinkedHasWindow
  <2>2. wlSurface[x11[c]] = c /\ x11[c] \in Win /\ v \in Win
    BY DEF RegInv, PairedMatches, PairingInv, TypeOK
  <2>3. v = x11[c]
    BY <2>1, <2>2, ConstAssumption DEF RegInv, AssocInjective
  <2>. QED
    BY <2>1, <2>3
<1>. QED
  BY InitReg, NextReg, <1>1, PTL DEF Spec

-----------------------------------------------------------------------------
(* Refinement of AbstractPairing, with every step of commit_inner allowed   *)
(* to fail.  A commit that claims a window binds it to s when               *)
(* update_x11_surface stored it, and otherwise drops it: entry creation or  *)
(* update_x11_surface returned Err after the swap_remove (the lost run).   *)

(* A commit is a Pair or a Drop step of the abstract pairing, or leaves it *)
(* unchanged.                                                              *)
LEMMA CommitRefines ==
  ASSUME RegInv,
         NEW s \in Surf, NEW att \in Assignment, NEW queue \in Seq(Surf),
         ExecuteOrDeferCommit(s, att, queue)
  PROVE  [AP!Next]_AP!vars
<1>1. PICK w \in Claim(s) :
        \/ /\ ParentPanics(s, w)
           /\ halted' = TRUE
           /\ UNCHANGED <<bridgeVars, unpaired, registryVars, attached, idle, pointer>>
        \/ /\ ~ParentPanics(s, w)
           /\ \E o \in Outcomes(s, att, w), keep \in BOOLEAN, r \in NewRoles(w) :
                CommitRuns(s, att, queue, w, o, keep, r)
  BY DEF ExecuteOrDeferCommit
<1>2. CASE ParentPanics(s, w)
  BY <1>1, <1>2 DEF AP!vars, bridgeVars, registryVars
<1>3. CASE ~ParentPanics(s, w)
  <2>1. PICK o \in Outcomes(s, att, w), keep \in BOOLEAN, r \in NewRoles(w) :
               CommitRuns(s, att, queue, w, o, keep, r)
    BY <1>1, <1>3
  <2>2. /\ unpaired' = unpaired \ {w}
        /\ x11' = [x11 EXCEPT ![s] = PairedWith(s, w, o, keep)]
        /\ wlSurface' = wlSurface
    BY <2>1 DEF CommitRuns, Unclaim, bridgeVars
  <2>3. CASE w = NoWin
    <3>1. unpaired' = unpaired
      BY <2>2, <2>3, ConstAssumption DEF RegInv, PairingInv, TypeOK
    <3>2. x11' = x11
      BY <2>2, <2>3 DEF PairedWith, RegInv, PairingInv, TypeOK
    <3>. QED
      BY <2>2, <3>1, <3>2 DEF AP!vars
  <2>4. CASE w # NoWin
    <3>1. w \in unpaired /\ wlSurface[w] = s /\ x11[s] = NoWin /\ w \in Win
      BY <2>4, ClaimFacts DEF RegInv, PairingInv, TypeOK
    <3>2. CASE PairedWith(s, w, o, keep) = w
      <4>1. AP!Pair(s, w)
        BY <2>2, <3>1, <3>2 DEF AP!Pair
      <4>. QED
        BY <3>1, <4>1 DEF AP!Next
    <3>3. CASE PairedWith(s, w, o, keep) # w
      <4>1. x11' = x11
        BY <2>2, <2>4, <3>3, <3>1 DEF PairedWith, RegInv, PairingInv, TypeOK
      <4>2. s \in Surf /\ s # NoSurf
        BY ConstAssumption
      <4>3. AP!Drop(w)
        BY <2>2, <3>1, <4>1, <4>2 DEF AP!Drop
      <4>. QED
        BY <3>1, <4>3 DEF AP!Next
    <3>. QED
      BY <3>2, <3>3
  <2>. QED
    BY <2>3, <2>4
<1>. QED
  BY <1>1, <1>2, <1>3

(* Every step of the pipeline is a step of the abstract pairing or leaves  *)
(* x11_surfaces, the entries' windows and the surface association alone.  *)
LEMMA NextRefines ==
  ASSUME RegInv, [Next]_vars
  PROVE  [AP!Next]_AP!vars
<1>1. ASSUME NEW s \in Surf, NEW a \in Assignment, ClientCommit(s, a)
      PROVE  [AP!Next]_AP!vars
  <2>1. (IF a = "none" THEN attached[s] ELSE a) \in Assignment
    BY DEF RegInv, PairingInv, TypeOK
  <2>2. idle \in Seq(Surf)
    BY DEF RegInv, PairingInv, TypeOK
  <2>. QED
    BY <1>1, <2>1, <2>2, CommitRefines DEF ClientCommit
<1>2. CASE IdleRetry
  <2>1. Head(idle) \in Surf /\ Tail(idle) \in Seq(Surf)
    BY <1>2 DEF IdleRetry, RegInv, PairingInv, TypeOK
  <2>2. attached[Head(idle)] \in Assignment
    BY <2>1 DEF RegInv, PairingInv, TypeOK
  <2>. QED
    BY <1>2, <2>1, <2>2, CommitRefines DEF IdleRetry
<1>3. ASSUME NEW w \in Win, NEW t \in (Win \ {w}) \cup {NoWin}, MapWindow(w, t)
      PROVE  [AP!Next]_AP!vars
  <2>0. w \notin mapped /\ PairingInv
    BY <1>3 DEF MapWindow, RegInv
  <2>1. w \notin unpaired /\ \A s \in Surf : x11[s] # w
    BY <2>0, ConstAssumption DEF PairingInv
  <2>2. AP!Map(w)
    BY <1>3, <2>1 DEF MapWindow, AP!Map, AP!Bound, registryVars
  <2>. QED
    BY <2>2 DEF AP!Next
<1>4. ASSUME NEW w \in Win, NEW s \in Surf \ CursorSurf, AssociateSurface(w, s)
      PROVE  [AP!Next]_AP!vars
  <2>1. AP!Associate(w, s)
    BY <1>4 DEF AssociateSurface, AP!Associate, registryVars
  <2>. QED
    BY <2>1 DEF AP!Next
<1>5. CASE ~(\E s \in Surf, a \in Assignment : ClientCommit(s, a))
           /\ ~IdleRetry
           /\ ~(\E w \in Win : \E t \in (Win \ {w}) \cup {NoWin} : MapWindow(w, t))
           /\ ~(\E w \in Win, s \in Surf \ CursorSurf : AssociateSurface(w, s))
  BY <1>5 DEF Next, vars, AP!vars, CursorHidden, CursorNamed, CursorSurface,
              XWaylandReady, XWaylandExited, bridgeVars, registryVars
<1>. QED
  BY <1>1, <1>2, <1>3, <1>4, <1>5

(* The commit pipeline implements the abstract pairing (PairingRefined),   *)
(* with every step of commit_inner failing at will and under either        *)
(* ordering guarantee of the window manager: each mapped window waits, is  *)
(* bound once to its own surface and never unbound or replaced, and leaves *)
(* x11_surfaces unbound only when a failed commit of its own, still        *)
(* unpaired, surface drops it.                                             *)
THEOREM PairingRefinement == Spec => PairingRefined
<1>1. Init => AP!Init
  BY DEF Init, AP!Init
<1>2. RegInv /\ [Next]_vars => [AP!Next]_AP!vars
  BY NextRefines
<1>. QED
  BY <1>1, <1>2, InitReg, NextReg, PTL DEF Spec, PairingRefined, AP!Spec

=============================================================================
