---------------------- MODULE OutputReconcilerProofs ----------------------
(***************************************************************************)
(* handle_output keeps every output at one advertised mode, for any set of *)
(* ids and modes.  OutputModesConsistent alone is not inductive: the first *)
(* descriptor for an id must find the Output smithay creates, with an      *)
(* empty mode list and no current or preferred mode, so the invariant is   *)
(* strengthened with what holds of ids not yet in the map.                 *)
(***************************************************************************)
EXTENDS OutputReconciler, TLAPS

USE OutputAssumption

\* An id not in compositor_state.outputs has a pristine Output.
Unseen ==
  \A o \in OutputId \ outputs :
    modes[o] = {} /\ current[o] = NoMode /\ preferred[o] = NoMode

OutputInv == TypeOK /\ OutputModesConsistent /\ Unseen

LEMMA InitOutputInv == Init => OutputInv
BY DEF Init, OutputInv, TypeOK, OutputModesConsistent, Unseen

(* One handle_output call preserves the strengthened invariant: the output *)
(* it touches ends at exactly the received mode, every other is unchanged. *)
LEMMA HandleOutputInv ==
  ASSUME OutputInv,
         NEW o \in OutputId, NEW m \in Mode, NEW pref \in BOOLEAN,
         NEW pr \in Props,
         HandleOutput(o, m, pref, pr)
  PROVE  OutputInv'
<1>1. modes'[o] = {m}
  <2>1. CASE o \in outputs
    BY <2>1 DEF OutputInv, TypeOK, OutputModesConsistent, HandleOutput,
               StaleMode, CurrentOrZero, DeleteModes
  <2>2. CASE o \notin outputs
    BY <2>2 DEF OutputInv, TypeOK, Unseen, HandleOutput, StaleMode,
               CurrentOrZero, DeleteModes
  <2> QED BY <2>1, <2>2
<1>2. preferred'[o] \in {m, NoMode}
  <2>1. CASE o \in outputs
    BY <2>1 DEF OutputInv, TypeOK, OutputModesConsistent, HandleOutput,
               StaleMode, CurrentOrZero, Cleared
  <2>2. CASE o \notin outputs
    BY <2>2 DEF OutputInv, TypeOK, Unseen, HandleOutput, StaleMode,
               CurrentOrZero, Cleared
  <2> QED BY <2>1, <2>2
<1>3. TypeOK'
  BY DEF OutputInv, TypeOK, HandleOutput, StaleMode, CurrentOrZero,
         DeleteModes, Cleared
<1>4. OutputModesConsistent'
  BY <1>1, <1>2 DEF OutputInv, TypeOK, OutputModesConsistent, HandleOutput
<1>5. Unseen'
  BY DEF OutputInv, TypeOK, Unseen, HandleOutput
<1> QED BY <1>3, <1>4, <1>5 DEF OutputInv

LEMMA NextOutputInv == OutputInv /\ [Next]_vars => OutputInv'
<1> SUFFICES ASSUME OutputInv, [Next]_vars PROVE OutputInv'
  OBVIOUS
<1>1. CASE Next BY <1>1, HandleOutputInv DEF Next
<1>2. CASE UNCHANGED vars
  BY <1>2 DEF vars, OutputInv, TypeOK, OutputModesConsistent, Unseen
<1> QED BY <1>1, <1>2

(* Idempotent output reconciliation: in every behaviour of handle_output,  *)
(* each output advertises exactly its current mode, and its preferred mode *)
(* is that mode or none.                                                   *)
THEOREM OutputModesCorrect == Spec => []OutputModesConsistent
<1>1. OutputInv => OutputModesConsistent BY DEF OutputInv
<1> QED BY InitOutputInv, NextOutputInv, <1>1, PTL DEF Spec
=============================================================================
