-------------------------- MODULE OutputReconciler --------------------------
(***************************************************************************)
(* handle_output (src/xwayland_xdg_shell/compositor.rs): the upsert of a   *)
(* smithay Output per id from the OutputInfo descriptors the remote sends. *)
(*                                                                         *)
(*   outputs    the keys of compositor_state.outputs                       *)
(*   modes      the Output's advertised mode list                          *)
(*   current    its current mode, NoMode for None                          *)
(*   preferred  its preferred mode, NoMode for None                        *)
(*   props      transform, scale and location, as one opaque value         *)
(*                                                                         *)
(* The Output operations it calls (delete_mode, change_current_state,      *)
(* set_preferred) are smithay's; they are modelled from what they do to   *)
(* the mode list.                                                          *)
(***************************************************************************)
EXTENDS FiniteSets

CONSTANTS
  OutputId,   \* the ids the remote assigns to outputs
  Mode,       \* the modes (dimensions and refresh) a descriptor may carry
  ZeroMode,   \* Mode { size: (0, 0), refresh: 0 }, the unwrap_or default
  Props,      \* the transform, scale and location a descriptor may carry
  NoMode,     \* None for an Option<Mode>
  NoProps     \* an output created but not yet given its state

ASSUME OutputAssumption ==
  /\ ZeroMode \in Mode
  /\ NoMode \notin Mode
  /\ NoProps \notin Props

VARIABLES outputs, modes, current, preferred, props

vars == <<outputs, modes, current, preferred, props>>

TypeOK ==
  /\ outputs \subseteq OutputId
  /\ modes \in [OutputId -> SUBSET Mode]
  /\ current \in [OutputId -> Mode \cup {NoMode}]
  /\ preferred \in [OutputId -> Mode \cup {NoMode}]
  /\ props \in [OutputId -> Props \cup {NoProps}]

Init ==
  /\ outputs = {}
  /\ modes = [o \in OutputId |-> {}]
  /\ current = [o \in OutputId |-> NoMode]
  /\ preferred = [o \in OutputId |-> NoMode]
  /\ props = [o \in OutputId |-> NoProps]

\* local_output.current_mode().unwrap_or(Mode { (0, 0), 0 }).
CurrentOrZero(o) == IF current[o] = NoMode THEN ZeroMode ELSE current[o]

(* Output::delete_mode(d), a no-op for an empty set of modes: the mode is  *)
(* removed from the list and clears current and preferred if it was them.  *)
DeleteModes(ms, ds) == ms \ ds
Cleared(x, ds) == IF x \in ds THEN NoMode ELSE x

\* Mutant: delete_mode is called with the received mode instead of the current.
StaleModeReceived(o, m) == IF CurrentOrZero(o) # m THEN {m} ELSE {}

\* The mode handle_output deletes: the current one (or the zero mode), when
\* it differs from the received one.
StaleMode(o, m) == IF CurrentOrZero(o) # m THEN {CurrentOrZero(o)} ELSE {}

(* handle_output(state, output) with output.id = o, output.mode = m,       *)
(* output.mode.preferred = pref and the rest of the descriptor pr.  The    *)
(* entry is created on first sight; the stale mode is deleted; then        *)
(* change_current_state adds m to the list and makes it current, with the  *)
(* other state pr; set_preferred marks m preferred (it is in the list).    *)
HandleOutput(o, m, pref, pr) ==
  LET stale == StaleMode(o, m) IN
  /\ outputs' = outputs \cup {o}
  /\ modes' = [modes EXCEPT ![o] = DeleteModes(@, stale) \cup {m}]
  /\ current' = [current EXCEPT ![o] = m]
  /\ preferred' = [preferred EXCEPT ![o] = IF pref THEN m ELSE Cleared(@, stale)]
  /\ props' = [props EXCEPT ![o] = pr]

Next ==
  \E o \in OutputId, m \in Mode, pref \in BOOLEAN, pr \in Props :
    HandleOutput(o, m, pref, pr)

Spec == Init /\ [][Next]_vars

-----------------------------------------------------------------------------
(* Output idempotence and no stale modes: every output advertises exactly  *)
(* one mode, its current one, and its preferred mode, if any, is that one; *)
(* repeated or changing descriptors never accumulate modes in the list.    *)
OutputModesConsistent ==
  \A o \in outputs :
    /\ modes[o] = {current[o]}
    /\ preferred[o] \in {current[o], NoMode}

=============================================================================
