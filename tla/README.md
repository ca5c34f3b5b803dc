# Formal model of the xwayland-xdg-shell compositor

TLA+ models of `src/src/xwayland_xdg_shell/compositor.rs`. This is the part of
wprs that lets X11 applications, running under a nested XWayland server,
appear as xdg-shell windows of the remote Wayland session. The modules are
checked with TLC on small instances. Their central invariants are proved with
TLAPS for every instance.

## 1. The system

Everything below runs on one calloop event-loop thread. Every handler runs to
completion before the next event is dispatched, so each handler is one atomic
step of the model. Concurrency comes from the order in which events arrive and
from idle callbacks that the code queues for later.

| Part (spec section) | Code | State it keeps |
|---|---|---|
| Surface Registry (4.1) | `state.surfaces`, one `XWaylandSurface` per wl_surface id | bound `x11_surface`, `role`, `buffer`, `children` |
| Unpaired-window set (3) | `compositor_state.x11_surfaces` | X11 windows mapped by the WM and not yet claimed by a commit |
| Parent Resolver (4.2) | `find_x11_parent` (307–363) | none; it reads the registry |
| Commit Pipeline (4.3) | `execute_or_defer_commit`, `commit`, `commit_inner` (238–291, 366–467) | idle callbacks queued by `insert_idle` |
| Cursor Presenter (4.5) | `SeatHandler::cursor_image` (485–542) | pointer image; registry role `Cursor` |
| Bridge lifecycle (4.6) | XWayland event source in `WprsCompositorState::new` (127–162) | `xwm: Option<X11Wm>` |
| Output Reconciler (4.4) | `handle_output` (550–591) | `compositor_state.outputs`: an smithay `Output` per id |
| X11 WM events | `XwmHandler` (not in this file) | pushes windows onto `x11_surfaces` |

How the parts interact:
- The X11 window manager pushes a mapped window onto `x11_surfaces` and later
  learns which wl_surface renders it.
- The XWayland client commits that surface. `commit_inner` then claims the
  window (swap_remove), resolves its transient-for parent among the already
  paired entries, records the child link, and creates the registry entry.
  `update_x11_surface` pairs the entry (giving it a toplevel or popup role).
  After that come the buffer, the frame and, for unpaired surfaces or cursors,
  the synthesised frame callbacks.
- If, after a successful commit, the surface is neither paired nor a cursor,
  `execute_or_defer_commit` queues an idle callback that runs the same function
  again. The window and the commit may arrive in either order, and this retry
  is what closes that race.
- `cursor_image` can give a surface the Cursor role at any moment, and that
  also ends its retries.

The hard behaviours:
- Commits, window maps and cursor updates interleave in any order.
- Each of the fallible steps (`?`) can fail midway, after earlier mutations
  have been made.
- Idle retries chain themselves.
- Panics (`unwrap`, `unreachable!`, `assert!`, `expect`) depend on the order in
  which parent and child surfaces commit.

## 2. Modules

### `CommitPipeline.tla`: registry, resolver, pipeline, cursor, bridge

| Variable | Code |
|---|---|
| `unpaired` | `compositor_state.x11_surfaces` |
| `surfaces` | the keys of `state.surfaces` |
| `x11`, `role`, `buffer`, `children` | the fields of each `XWaylandSurface` |
| `attached` | the pending `BufferAssignment` of the surface's cached state; `on_commit_buffer_handler` clears it after a successful commit |
| `idle` | the queue of pending `insert_idle` callbacks, each one for a surface |
| `xwayland` | the XWayland source: `xwm` is `Some` exactly when `"ready"` |
| `mapped`, `wlSurface`, `transientFor` | what the X11 WM has reported |
| `pointer` | the pointer image |
| `halted` | the process panicked |

| Action | Code |
|---|---|
| `ClientCommit(s, a)` | `CompositorHandler::commit`, which calls `execute_or_defer_commit` |
| `IdleRetry` | the idle callback of line 257 |
| `ExecuteOrDeferCommit` / `CommitRuns` | the whole of `execute_or_defer_commit` and `commit_inner`, in code order |
| `CursorHidden`, `CursorSurface(s)`, `CursorNamed` | the three arms of `cursor_image` |
| `XWaylandReady`, `XWaylandExited` | the two arms of the XWayland event source |
| `MapWindow(w, t)`, `AssociateSurface(w, s)` | the X11 WM's pushes (modelled from the spec) |

How `ExecuteOrDeferCommit` models the commit path:
- Claims the window (`Claim`).
- Panics (`ParentPanics`) in these cases:
  - the transient-for target is unpaired (the `unwrap` at 321);
  - the parent is a cursor or has no role (351 and 353);
  - the parent is the surface itself (the `assert!` at 390).
- Otherwise it picks an outcome `o` among `"ok"` and the fallible steps that
  apply here (`Outcomes`):
  - `create`: `or_insert_with_result`;
  - `pair`: `update_x11_surface`;
  - `buffer`: the buffer decode;
  - `frames`: `send_frames`.
- Everything before the failing step takes effect, and nothing after it does:
  - the swap_remove and the children insert always happen;
  - the pairing happens only when `pair` has succeeded (or `keep` says the
    failing update had already stored the window);
  - the buffer is consumed only on `"ok"`.
- The deferral (`Defers`) happens only when the commit returned `Ok`, which
  matches the `?` at line 239.

Data is abstracted:
- windows, surfaces, modes and outputs are model values;
- the buffer is whether one is held;
- offsets, hotspots, serials and the pixel data are left out, because no
  property tells them apart.

Constants and their assumptions (`ConstAssumption`):
- `Surf` holds the surface ids, and its subset `CursorSurf` holds the surfaces
  XWayland uses as pointer images.
- `Win` holds the window ids.
- `NoWin` and `NoSurf` stand for `None`.
- `Fallible` is the set of steps that may fail in a run.
- `MaxIdle` bounds the idle queue. This is a model bound, not a limit the code
  has.
- `ParentPaired` selects the upstream ordering guarantee:
  - TRUE: the WM maps a transient window only once its parent is paired;
  - FALSE: only once the parent is mapped. This is what the spec actually
    states.

### `OutputReconciler.tla`: `handle_output`

- Variables:
  - `outputs` is the set of output ids;
  - `modes`, `current` and `preferred` are smithay's mode list, current mode
    and preferred mode;
  - `props` is the rest of the descriptor.
- The single action `HandleOutput(o, m, pref, pr)` follows the code in order:
  1. create the entry;
  2. compute the stale mode as `current_mode().unwrap_or(zero)`;
  3. call `delete_mode` if it differs from the received mode;
  4. call `change_current_state`;
  5. call `set_preferred` if the descriptor flags the mode preferred.
- The smithay `Output` methods are modelled from what they do to the mode
  list: `delete_mode` removes the mode and clears current and preferred if
  they equal it, and `set_preferred` adds the mode if absent.

### `AbstractPairing.tla`: what the pairing promises

This module states the contract of the registry's pairing, with no commits,
retries or failures.
- Variables:
  - `waiting`: the mapped windows not yet bound;
  - `bound`: the window each surface holds;
  - `surfaceOf`: the surface each window renders to.
- Actions:
  - `Map(w)`: a window neither waiting nor bound starts waiting.
  - `Associate(w, s)`: the window manager learns the window's surface. No
    surface gets two windows.
  - `Pair(s, w)`: a waiting window is bound to its own surface, which holds no
    window yet.
  - `Drop(w)`: a waiting window whose surface holds no window stops waiting
    without being bound. This is what a commit of that surface does when
    entry creation or `update_x11_surface` fails after the swap_remove.
- It has no step that unbinds or rebinds a window.
- `CommitPipeline` instantiates it as `AP`, with the mapping
  `waiting <- unpaired`, `bound <- x11`, `surfaceOf <- wlSurface`.
- `PairingRefined == AP!Spec` is the refinement property:
  - a commit that binds its claimed window is `Pair`, one that claims it and
    fails before storing it is `Drop`;
  - `MapWindow` is `Map`;
  - `AssociateSurface` is `Associate`;
  - every other step leaves the three mapped variables unchanged.

### MC modules

- `MC_CommitPipeline.tla`:
  - surfaces `s1, s2` and cursor `c1`;
  - windows `w1, w2`;
  - `MaxIdle = 2`;
  - the failure sets used by the runs;
  - a symmetry over the two windows and the two window surfaces.
- `MC_OutputReconciler.tla`:
  - output ids `o1, o2`;
  - modes `zero, m1, m2`;
  - two property values.

## 3. Runs

| Run | Expect | Properties | What it shows |
|---|---|---|---|
| `safety` | pass | `TypeOK`, `NoDoublePairing`, `ParentLinksConsistent`, `BindingPermanent` | With entry creation, buffer and frame steps failing at will, a window is bound to at most one entry and is never both bound and unpaired. A window stored in an entry is never replaced or cleared. Child links point at paired parents whose windows the child is transient for. |
| `live` | pass | `NoLostWindow`, `PairingConvergence`, `CursorRetryEnds` | With no failures, no mapped window disappears, and every committed surface is eventually paired with its window by the idle retries alone, whichever came first. A cursor surface's retry chain ends once it has the role. |
| `refines` | pass | `PairingRefined` | With every step of `commit_inner` failing at will and `ParentPaired = FALSE`, the pipeline implements `AbstractPairing`: a window leaves `x11_surfaces` only to be bound to its own surface, or dropped by a failed commit of that surface. |
| `asserts` | pass | `AssertsUnreachable` | Under the same conditions, the self-parent assert (390) and the Cursor arm of `find_x11_parent` (351) never fire: the entry holding a claimed window's target is never the committed surface and never a cursor. Only the `unwrap` (321) and the role-None arm (353) can panic. |
| `nopanic` | pass | `NoPanic` | With `ParentPaired = TRUE` and every failure except `update_x11_surface` and the XWayland start-up, no order of commits, maps and cursor updates panics. |
| `outputs` | pass | `OutputModesConsistent` | Any sequence of descriptors leaves each output with exactly its current mode, with the preferred mode that mode or none. |
| `lost` | violation | `NoLostWindow` | With `create` failing, a claimed window is dropped for good. |
| `stalled` | violation | `PairingConvergence` | With `buffer` failing, an unpaired surface's failed commit arms no retry. |
| `spin` | violation | `RetriesEndAfterExit` | After XWayland exits, the retry of a surface that never got a window re-arms forever. |
| `orphan` | violation | `NoPanic` | With `ParentPaired = FALSE`, a child that commits before its parent's surface panics in `find_x11_parent`. |

Why these bounds are enough:
- Two windows allow a toplevel and a transient child, in either order of map
  and commit, and a child whose parent is not yet paired.
- Two window surfaces plus a cursor surface allow one surface per window and a
  cursor that commits before `cursor_image`.
- `MaxIdle = 2` allows two retries pending at once, so a retry can run while
  another commit of the same or another surface arrives.
- Every action fires in the passing runs.
- Each property has a mutant (PROJECT.json), a plausible bug in the mapped
  code that TLC catches under the run's own configuration:
  - `Unclaim` that forgets the swap_remove (it also breaks `PairingRefined`);
  - `AddChild` with parent and child swapped;
  - `PairedWith` storing the parent;
  - `Matching` that takes a window with no wl_surface yet as a match
    (`unwrap_or(true)` in the position predicate at 376): it breaks
    `BindingPermanent`, `AssertsUnreachable` and `NoLostWindow`;
  - `RoleAfter` that gives the role only when the whole commit succeeds
    (it breaks `NoPanic` in the `nopanic` run);
  - `Defers` only on the first commit, or with the negation misgrouped;
  - `StaleMode` that deletes the received mode.

Fairness: `WF_vars(IdleRetry)`. calloop dispatches every pending idle callback
on each turn of the loop, and nothing cancels them (spec section 5), so an
enabled retry cannot be postponed forever. No fairness is assumed for client
commits, window maps or cursor events. Those come from the outside world.

## 4. Findings

- **Lost window on a failed commit (line 377).**
  - `commit_inner` swap_removes the window from `x11_surfaces` before
    `or_insert_with_result` (409) and `update_x11_surface` (423), either of
    which can fail.
  - On `Err`, the `X11Surface` is dropped, so the window is never paired.
  - Spec section 7 says a failed commit commits no partial mutation.
- **No retry after a failed commit (line 239).**
  - `commit(..)?` returns before the deferral.
  - So an unpaired surface whose commit fails is retried only when the client
    commits again.
  - This contradicts the spec's pairing convergence.
- **Child before parent panics (line 321).**
  - The spec relies on X11 mapping the parent first.
  - But pairing needs the parent's surface commit. If the child's surface
    commits first, the `unwrap` panics.
  - With `ParentPaired = TRUE` (the stronger guarantee) there is no panic as
    long as `update_x11_surface` and the XWayland start-up do not fail: the
    `nopanic` run checks it on the small instance.
  - Whatever the order and the failures, the other two panics of the parent
    lookup, the self-parent assert and the Cursor arm, cannot fire
    (`asserts` run, `AssertsUnreachableCorrect`).

- **Retries outlive XWayland (line 152).**
  - The `Exited` arm only takes the `xwm`.
  - An idle callback queued for a surface that never got a window re-inserts
    itself on every loop turn, forever.
  - Spec section 4.6 says X11 activity is inert after the exit signal.
  - The `spin` run shows this with no failing step.
  - Its counterexample ends in a retry that changes nothing but is re-queued
    on every turn.

## 5. Proofs (TLAPS)

`CommitPipelineProofs.tla`:
- `TypeCorrect`: `Spec => []TypeOK` for all constants satisfying
  `ConstAssumption`.
  - The lemmas `InitTypeOK` and `NextTypeOK` carry it.
  - `NextTypeOK` has one step per action.
  - `CommitTypeOK` covers the shared commit path, with one step per updated
    variable.
- `PairingCorrect`: `Spec => []NoDoublePairing`.
  - `NoDoublePairing` alone is not inductive. `MapWindow` adds a window to
    `unpaired`, and nothing in the invariant says that window is not already
    bound to an entry.
  - The strengthening is `PairingInv`: `TypeOK`, plus `unpaired ⊆ mapped`,
    plus every bound window being mapped. `MapWindow` only pushes unmapped
    windows, so a pushed window can be bound nowhere.
  - `CommitPairing` shows the commit path preserves it. The claimed window
    leaves `unpaired` in the same step that can bind it, and it was in no
    other entry.
  - `PairingInv` was checked with TLC first, with every failure enabled and
    `ParentPaired = FALSE`.

`OutputReconcilerProofs.tla`:
- `OutputModesCorrect`: `Spec => []OutputModesConsistent`.
- It is proved through `OutputInv`. That adds `Unseen`: ids not yet in the map
  have an empty mode list and no current or preferred mode. The first
  descriptor for an id needs this.

`RegistryProofs.tla` (EXTENDS `CommitPipelineProofs`):
- All of it rests on `RegInv`, which is `PairingInv` plus three facts:
  - `AssocInjective`: no wl_surface renders two windows;
  - `PairedMatches`: a bound window renders to its own entry's surface;
  - `LinkedHasWindow`: every child link is backed by a mapped window of the
    child's surface that is transient for the parent's window.
- Together these show that a paired surface can never claim a second window
  (`ClaimFacts`). So a window, once bound, stays bound.
- `find_x11_parent`, when it does not panic, returns a paired entry other than
  the committing one (`ParentFacts`).
- `RegInv` was checked with TLC first, with every failure enabled and
  `ParentPaired = FALSE` (772k distinct states).
- `ParentLinksCorrect`: `Spec => []ParentLinksConsistent`, with any steps
  failing.
- `PairingRefinement`: `Spec => PairingRefined`, with every step failing and
  for either value of `ParentPaired`.
  - The initial state maps to `AP!Init`.
  - Every step is an `AP!Next` step or leaves `<<unpaired, x11, wlSurface>>`
    unchanged (`CommitRefines`, `NextRefines`).
  - A commit that claims a window `w` either stores it (`PairedWith` is `w`:
    `AP!Pair`) or does not, and then only removes it from `x11_surfaces`:
    `AP!Drop`, whose guard `ClaimFacts` supplies.
  - This is the same argument TLC checks in the `refines` run.

`ParentGraphProofs.tla` (EXTENDS `RegistryProofs`):
- `AssertsUnreachableCorrect`: `Spec => []AssertsUnreachable`, with every step
  failing and for either value of `ParentPaired`.
  - `AssertsUnreachable` is not inductive: it says nothing of entries that
    a `cursor_image` could turn into cursors. The inductive invariant is
    `AssertInv`: `RegInv`, plus `CursorsUnpaired` (no window renders to a
    cursor surface, since the window manager associates only window
    surfaces) and `CursorRoleOnCursors` (only cursor surfaces have the
    Cursor role, since a commit gives a toplevel or popup role or keeps the
    old one).
  - `AssertInvUnreachable`: the target's entry holds a window, so it is not
    the committed surface (which holds none, `ClaimFacts`), and that window
    renders to the entry's surface (`PairedMatches`), so the entry is no
    cursor surface and has no Cursor role.
  - `AssertInv` was checked with TLC first, with every commit failure and
    `ParentPaired = FALSE` (772k distinct states).
- `BindingPermanentCorrect`: `Spec => BindingPermanent`, with any steps
  failing. A commit binds only a window it claimed, and `ClaimFacts` shows
  that the entry then holds none (`CommitKeepsBindings`).

What stays with TLC, and why:
- The liveness properties (`PairingConvergence`, `CursorRetryEnds`,
  `RetriesEndAfterExit`), because TLAPS does not handle fairness and ENABLED.
- `NoLostWindow` and `NoPanic`, which hold only under hypotheses (no failing
  step, resp. `ParentPaired = TRUE` and no `pair` or `wm` failure), are
  checked by TLC in the `live` and `nopanic` runs only. The refinement
  checked by TLC in `refines` is also proved (`PairingRefinement`).

## 6. Not modelled

- The selection, data-device, primary-selection and DnD handlers. They only
  log or return accessors.
- `buffer_destroyed`, the state accessors and the delegate macros.
- Pixel decoding and decoration drawing. These are data; only their success or
  failure is kept.
- Surface destruction and client disconnect. They are handled outside this
  file, so no model step removes a registry entry or ends its retries.
- The `seat_objects.last().unwrap()` in `cursor_image`. The seat is created
  outside this file.

## 7. Plan

1. Model window unmap/destroy and surface destruction from the spec. Then
   check that the retries of destroyed surfaces end.
2. Add the `pair` failure with `keep` to a run, to reach the role-None
   `unreachable!` at line 353. This waits on the code of
   `update_x11_surface`, which is outside this file. It would show whether the
   window can be stored before the failure.
