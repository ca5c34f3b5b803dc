--------------------------- MODULE CommitPipeline ---------------------------
(***************************************************************************)
(* The surface-identity reconciliation of the xwayland-xdg-shell           *)
(* compositor (src/xwayland_xdg_shell/compositor.rs).                      *)
(*                                                                         *)
(*   surfaces, x11, role, buffer, children  the registry state.surfaces,   *)
(*                                          one XWaylandSurface per id     *)
(*   unpaired                               compositor_state.x11_surfaces  *)
(*   idle                                   the calloop idle callbacks     *)
(*                                          queued by insert_idle          *)
(*   attached                               the buffer assignment in the   *)
(*                                          surface's current cached state *)
(*   xwayland                               the XWayland source: xwm is    *)
(*                                          Some exactly when "ready"      *)
(*   mapped, wlSurface, transientFor        what the X11 window manager    *)
(*                                          (XwmHandler, not in this file) *)
(*                                          has told the compositor        *)
(*   pointer                                the image the seat displays    *)
(*   halted                                 the process has panicked       *)
(*                                                                         *)
(* Every handler runs to completion on the single event-loop thread, so    *)
(* each one is one atomic action.  A step that returns Err leaves the      *)
(* mutations made before it in place and skips everything after it.        *)
(***************************************************************************)
EXTENDS Naturals, Sequences, FiniteSets

CONSTANTS
  Surf,          \* wl_surface ids of the XWayland client
  CursorSurf,    \* the ones XWayland uses as pointer images
  Win,           \* X11Surface handles, one per mapped X11 window
  NoWin,         \* None for an Option<X11Surface>
  NoSurf,        \* None for an Option<X11Parent>
  Fallible,      \* the steps that may return Err (or fail fatally) in a run
  MaxIdle,       \* bound: number of idle callbacks pending at once
  ParentPaired   \* the window manager maps a transient window only after
                 \* its transient-for target has been paired

FailPoint == {"create", "pair", "buffer", "frames", "wm", "theme"}

ASSUME ConstAssumption ==
  /\ CursorSurf \subseteq Surf
  /\ NoWin \notin Win
  /\ NoSurf \notin Surf
  /\ Fallible \subseteq FailPoint
  /\ MaxIdle \in Nat \ {0}
  /\ ParentPaired \in BOOLEAN

Roles == {"none", "toplevel", "popup", "cursor"}
Assignment == {"new", "removed", "none"}     \* Option<BufferAssignment>

VARIABLES xwayland, mapped, unpaired, wlSurface, transientFor,
          surfaces, x11, role, buffer, children, attached,
          idle, pointer, halted

bridgeVars   == <<xwayland, mapped, wlSurface, transientFor>>
registryVars == <<surfaces, x11, role, buffer, children>>
vars == <<bridgeVars, unpaired, registryVars, attached, idle, pointer, halted>>

TypeOK ==
  /\ xwayland \in {"starting", "ready", "exited"}
  /\ mapped \subseteq Win
  /\ unpaired \subseteq Win
  /\ wlSurface \in [Win -> Surf \cup {NoSurf}]
  /\ transientFor \in [Win -> Win \cup {NoWin}]
  /\ surfaces \subseteq Surf
  /\ x11 \in [Surf -> Win \cup {NoWin}]
  /\ role \in [Surf -> Roles]
  /\ buffer \in [Surf -> BOOLEAN]
  /\ children \in [Surf -> SUBSET Surf]
  /\ attached \in [Surf -> Assignment]
  /\ idle \in Seq(Surf)
  /\ pointer \in {"default", "hidden", "named"} \cup Surf
  /\ halted \in BOOLEAN

Init ==
  /\ xwayland = "starting"
  /\ mapped = {}
  /\ unpaired = {}
  /\ wlSurface = [w \in Win |-> NoSurf]
  /\ transientFor = [w \in Win |-> NoWin]
  /\ surfaces = {}
  /\ x11 = [s \in Surf |-> NoWin]
  /\ role = [s \in Surf |-> "none"]
  /\ buffer = [s \in Surf |-> FALSE]
  /\ children = [s \in Surf |-> {}]
  /\ attached = [s \in Surf |-> "none"]
  /\ idle = <<>>
  /\ pointer = "default"
  /\ halted = FALSE

-----------------------------------------------------------------------------
(* Helpers over the registry.                                              *)

\* The X11 windows bound to some registry entry.
Paired == {x11[s] : s \in Surf} \ {NoWin}

\* Mutant: a window with no wl_surface yet matches every surface
\* (unwrap_or(true) in the position predicate).
MatchingUnassociated(s) == {w \in unpaired : wlSurface[w] \in {s, NoSurf}}

\* The x11_surfaces entries whose wl_surface() is s.
Matching(s) == {w \in unpaired : wlSurface[w] = s}

\* The window commit_inner takes out of x11_surfaces, NoWin if none.
Claim(s) == IF Matching(s) = {} THEN {NoWin} ELSE Matching(s)

\* The transient-for target of a claimed window.
TransientTarget(w) == IF w = NoWin THEN NoWin ELSE transientFor[w]

\* The registry entry whose x11_surface has window id t.
EntryOf(t) == CHOOSE p \in Surf : x11[p] = t

\* find_x11_parent: the parent surface id, NoSurf when there is none.
FindX11Parent(w) ==
  IF TransientTarget(w) = NoWin THEN NoSurf ELSE EntryOf(TransientTarget(w))

\* The conditions under which commit_inner panics before any mutation:
\* the find(..).unwrap() on an unpaired target, the unreachable!() arms for
\* a Cursor or role-less parent, and the assert against self-parenting.
ParentPanics(s, w) ==
  /\ TransientTarget(w) # NoWin
  /\ \/ TransientTarget(w) \notin Paired
     \/ \E p \in Surf : /\ x11[p] = TransientTarget(w)
                       /\ (role[p] \in {"cursor", "none"} \/ p = s)

\* The role update_x11_surface gives a freshly paired window.
NewRoles(w) ==
  IF FindX11Parent(w) = NoSurf THEN {"toplevel"} ELSE {"toplevel", "popup"}

\* The order of the fallible steps of commit; "ok" is past all of them.
Rank == [create |-> 1, pair |-> 2, buffer |-> 3, frames |-> 4, ok |-> 5]

\* Step f completed in a commit whose outcome is o.
Done(f, o) == Rank[f] < Rank[o]

\* Whether send_frames runs: the surface stays unpaired or is a cursor.
SendsFrames(s, w) == w = NoWin /\ (x11[s] = NoWin \/ role[s] = "cursor")

\* The outcomes of one commit: "ok", or the first step that returned Err.
Outcomes(s, att, w) ==
  {"ok"} \cup
  (Fallible \cap
     {f \in {"create", "pair", "buffer", "frames"} :
        \/ f = "create" /\ s \notin surfaces
        \/ f = "pair"   /\ w # NoWin
        \/ f = "buffer" /\ att = "new"
        \/ f = "frames" /\ SendsFrames(s, w)})

\* Mutant: the claimed window is found but not swap_removed.
UnclaimKeeps(w) == unpaired

\* x11_surfaces after the swap_remove of the claimed window.
Unclaim(w) == unpaired \ {w}

\* Mutant: parent and child swapped in the children.insert.
AddChildReversed(p, s) ==
  IF p = NoSurf THEN children ELSE [children EXCEPT ![s] = @ \cup {p}]

\* The children sets after registering s with its parent p.
AddChild(p, s) ==
  IF p = NoSurf THEN children ELSE [children EXCEPT ![p] = @ \cup {s}]

\* Mutant: the X11Parent's surface id is stored where the window belongs.
PairedWithParentId(s, w, o, keep) ==
  IF w # NoWin /\ (Done("pair", o) \/ (o = "pair" /\ keep))
    THEN FindX11Parent(w) ELSE x11[s]

\* The entry's x11_surface after update_x11_surface: keep tells whether a
\* failing update had already stored the window.
PairedWith(s, w, o, keep) ==
  IF w # NoWin /\ (Done("pair", o) \/ (o = "pair" /\ keep)) THEN w ELSE x11[s]

\* Mutant: the role is only given when the whole commit succeeds.
RoleAfterOk(s, w, o, r) == IF w # NoWin /\ o = "ok" THEN r ELSE role[s]

\* The entry's role after update_x11_surface gave it r.
RoleAfter(s, w, o, r) == IF w # NoWin /\ Done("pair", o) THEN r ELSE role[s]

\* The entry's buffer after the match on the buffer assignment att.
BufferAfter(s, att, o) ==
  IF Done("buffer", o) /\ att # "none" THEN att = "new" ELSE buffer[s]

DefersMisgrouped(s, o, x, rl) == o = "ok" /\ (~(x # NoWin) \/ rl = "cursor")

\* execute_or_defer_commit defers when commit returned Ok and the entry is
\* neither paired nor a cursor.
Defers(s, o, x, rl) == o = "ok" /\ ~(x # NoWin \/ rl = "cursor")

-----------------------------------------------------------------------------
(* commit_inner after the parent was resolved, then execute_or_defer_commit *)
(* deciding on a retry.  o is the outcome, keep whether a failing           *)
(* update_x11_surface had already stored the window, r the role it gives.   *)
CommitRuns(s, att, queue, w, o, keep, r) ==
  LET x  == PairedWith(s, w, o, keep)
      rl == RoleAfter(s, w, o, r)
  IN
  /\ unpaired' = Unclaim(w)
  /\ children' = AddChild(FindX11Parent(w), s)
  /\ surfaces' = IF Done("create", o) THEN surfaces \cup {s} ELSE surfaces
  /\ x11' = [x11 EXCEPT ![s] = x]
  /\ role' = [role EXCEPT ![s] = rl]
  /\ buffer' = [buffer EXCEPT ![s] = BufferAfter(s, att, o)]
  /\ attached' = [attached EXCEPT ![s] = IF o = "ok" THEN "none" ELSE att]
  /\ idle' = IF Defers(s, o, x, rl) THEN Append(queue, s) ELSE queue
  /\ UNCHANGED <<bridgeVars, pointer, halted>>

\* execute_or_defer_commit for surface s whose current buffer assignment is
\* att, with the idle queue left as queue once this callback is taken off.
ExecuteOrDeferCommit(s, att, queue) ==
  \E w \in Claim(s) :
    \/ /\ ParentPanics(s, w)
       /\ halted' = TRUE
       /\ UNCHANGED <<bridgeVars, unpaired, registryVars, attached, idle, pointer>>
    \/ /\ ~ParentPanics(s, w)
       /\ \E o \in Outcomes(s, att, w), keep \in BOOLEAN, r \in NewRoles(w) :
            CommitRuns(s, att, queue, w, o, keep, r)

\* CompositorHandler::commit: the client commits s, attaching a.
ClientCommit(s, a) ==
  /\ ~halted
  /\ xwayland = "ready"
  /\ Len(idle) < MaxIdle
  /\ ExecuteOrDeferCommit(s, IF a = "none" THEN attached[s] ELSE a, idle)

\* The idle callback inserted by execute_or_defer_commit runs.
IdleRetry ==
  /\ ~halted
  /\ idle # <<>>
  /\ ExecuteOrDeferCommit(Head(idle), attached[Head(idle)], Tail(idle))

-----------------------------------------------------------------------------
(* SeatHandler::cursor_image.                                               *)
CursorHidden ==
  /\ ~halted
  /\ \/ pointer' = "hidden"
     \/ "theme" \in Fallible /\ UNCHANGED pointer
  /\ UNCHANGED <<bridgeVars, unpaired, registryVars, attached, idle, halted>>

CursorNamed ==
  /\ ~halted
  /\ \/ pointer' = "named"
     \/ "theme" \in Fallible /\ UNCHANGED pointer
  /\ UNCHANGED <<bridgeVars, unpaired, registryVars, attached, idle, halted>>

CursorSurface(s) ==
  /\ ~halted
  /\ xwayland = "ready"
  /\ \/ /\ s \notin surfaces /\ "create" \in Fallible
        /\ UNCHANGED <<registryVars, pointer>>
     \/ /\ surfaces' = surfaces \cup {s}
        /\ role' = [role EXCEPT ![s] = "cursor"]
        /\ pointer' = s
        /\ UNCHANGED <<x11, buffer, children>>
  /\ UNCHANGED <<bridgeVars, unpaired, attached, idle, halted>>

-----------------------------------------------------------------------------
(* The XWayland event source inserted by WprsCompositorState::new.          *)
XWaylandReady ==
  /\ ~halted
  /\ xwayland = "starting"
  /\ \/ xwayland' = "ready" /\ UNCHANGED halted
     \/ "wm" \in Fallible /\ halted' = TRUE /\ UNCHANGED xwayland
  /\ UNCHANGED <<mapped, wlSurface, transientFor, unpaired, registryVars,
                 attached, idle, pointer>>

XWaylandExited ==
  /\ ~halted
  /\ xwayland \in {"starting", "ready"}
  /\ xwayland' = "exited"
  /\ UNCHANGED <<mapped, wlSurface, transientFor, unpaired, registryVars,
                 attached, idle, pointer, halted>>

-----------------------------------------------------------------------------
(* The X11 window manager (XwmHandler, outside this file): it pushes a      *)
(* mapped window onto x11_surfaces, and learns which wl_surface renders it. *)
MapWindow(w, t) ==
  /\ ~halted
  /\ xwayland = "ready"
  /\ w \notin mapped
  /\ t # NoWin => IF ParentPaired THEN t \in Paired ELSE t \in mapped
  /\ mapped' = mapped \cup {w}
  /\ unpaired' = unpaired \cup {w}
  /\ transientFor' = [transientFor EXCEPT ![w] = t]
  /\ UNCHANGED <<xwayland, wlSurface, registryVars, attached, idle, pointer, halted>>

AssociateSurface(w, s) ==
  /\ ~halted
  /\ xwayland = "ready"
  /\ wlSurface[w] = NoSurf
  /\ \A v \in Win : wlSurface[v] # s
  /\ wlSurface' = [wlSurface EXCEPT ![w] = s]
  /\ UNCHANGED <<xwayland, mapped, transientFor, unpaired, registryVars,
                 attached, idle, pointer, halted>>

-----------------------------------------------------------------------------
Next ==
  \/ \E s \in Surf, a \in Assignment : ClientCommit(s, a)
  \/ IdleRetry
  \/ CursorHidden
  \/ CursorNamed
  \/ \E s \in CursorSurf : CursorSurface(s)
  \/ XWaylandReady
  \/ XWaylandExited
  \/ \E w \in Win : \E t \in (Win \ {w}) \cup {NoWin} : MapWindow(w, t)
  \/ \E w \in Win, s \in Surf \ CursorSurf : AssociateSurface(w, s)

\* calloop dispatches every pending idle callback on its next turn.
Fairness == WF_vars(IdleRetry)

Spec == Init /\ [][Next]_vars /\ Fairness

-----------------------------------------------------------------------------
(* Properties.                                                              *)

\* Some idle callback is pending for s.
RetryPending(s) == \E i \in 1 .. Len(idle) : idle[i] = s

(* No double pairing (commit_inner's swap_remove and update_x11_surface):  *)
(* an X11 window is bound to at most one registry entry, and a bound       *)
(* window is no longer in x11_surfaces.                                    *)
NoDoublePairing ==
  /\ \A s1, s2 \in Surf : s1 # s2 /\ x11[s1] = x11[s2] => x11[s1] = NoWin
  /\ \A s \in Surf : x11[s] \notin unpaired

(* No lost window: every window the window manager pushed onto            *)
(* x11_surfaces is either still there, waiting for its surface's commit,   *)
(* or bound to a registry entry; commit_inner never drops one.            *)
NoLostWindow == \A w \in mapped : w \in unpaired \/ w \in Paired

(* Parent links (find_x11_parent and the children.insert in commit_inner): *)
(* a surface is only ever recorded as a child of a paired surface, and     *)
(* once the child is paired its window is transient for the parent's.      *)
ParentLinksConsistent ==
  \A p, c \in Surf :
    c \in children[p] =>
      /\ x11[p] # NoWin
      /\ x11[c] # NoWin => transientFor[x11[c]] = x11[p]

(* Bindings are permanent: once update_x11_surface has stored a window in *)
(* a registry entry, no step replaces or clears it.  commit_inner calls     *)
(* update_x11_surface on every window it claims, without looking at the    *)
(* entry's x11_surface, so this rests on no second window ever being        *)
(* claimed for a surface that is already paired.                           *)
BindingPermanent ==
  [][\A s \in Surf : x11[s] # NoWin => x11'[s] = x11[s]]_vars

(* The self-parent assert of commit_inner and the Cursor arm of           *)
(* find_x11_parent can never fire, in any order of events and with any     *)
(* step failing: for every window a commit of s could claim, the entry     *)
(* holding its transient-for target is neither s itself nor a cursor.      *)
(* Only the unwrap at the lookup and the role-less arm can panic.          *)
AssertsUnreachable ==
  \A s \in Surf : \A w \in Claim(s) :
    TransientTarget(w) # NoWin =>
      \A p \in Surf : x11[p] = TransientTarget(w) => p # s /\ role[p] # "cursor"

(* The process never panics: find_x11_parent's unwrap and unreachable!    *)
(* arms, the self-parent assert, and the expects on XWayland Ready.        *)
NoPanic == ~halted

(* Pairing convergence: once a surface has been committed, the window     *)
(* that renders to it is eventually paired with it, in whichever order the *)
(* commit and the window arrived, with no further commit from the client:  *)
(* execute_or_defer_commit's idle retry keeps re-arming until it pairs.    *)
PairingConvergence ==
  \A w \in Win, s \in Surf :
    (w \in unpaired /\ wlSurface[w] = s /\ s \in surfaces) ~> x11[s] = w

(* Once XWayland has exited, X11 activity is inert (spec 4.6): the idle    *)
(* retries execute_or_defer_commit queued for surfaces of the gone server *)
(* eventually stop, rather than re-arming on every turn of the loop.      *)
RetriesEndAfterExit == xwayland = "exited" ~> idle = <<>>

(* A surface committed before cursor_image gave it the Cursor role keeps   *)
(* re-arming its idle retry; once it is a cursor the chain ends.           *)
CursorRetryEnds ==
  \A s \in CursorSurf : role[s] = "cursor" ~> ~RetryPending(s)

-----------------------------------------------------------------------------
(* Refinement.  The registry's pairing (x11_surfaces and the entries'      *)
(* x11_surface) implements AbstractPairing: windows wait, are bound once   *)
(* to their own surface, are never unbound or rebound, and leave the       *)
(* waiting set unbound only when their own surface's commit drops them.    *)
AP == INSTANCE AbstractPairing
        WITH waiting <- unpaired, bound <- x11, surfaceOf <- wlSurface

(* Every behaviour of the commit pipeline, seen through x11_surfaces, the  *)
(* entries' x11_surface and the window manager's surface association, is a *)
(* behaviour of the abstract pairing, with every step allowed to fail:     *)
(* commit_inner binds a claimed window to its own surface, drops it when   *)
(* entry creation or update_x11_surface fails, or leaves the pairing alone. *)
PairingRefined == AP!Spec

=============================================================================
