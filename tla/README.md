# typio: specifications, checks and proofs

typio is a Wayland input method for Linux: a daemon (C) that speaks
`input-method-v2`, holds an exclusive keyboard grab while a text field has
focus, feeds keys to pluggable engines through a Rust core, and sends what no
engine wants back to the application through a virtual keyboard. A voice
session turns recorded speech into text with a second kind of engine.

This directory specifies the parts of it whose correctness depends on the order
of events: who holds the grab, where a key goes and whether its release
follows, what four threads do to one recording, which engine is active after a
switch that failed, what is remembered for which application, what the tray and
the buses show of it, whose configuration ends up in the file, and what the
user sees of a composition.

Paths below are relative to the repository root.

## 1. Inventory

| Component | Source | State | Operations | Modelled |
|---|---|---|---|---|
| Input method lifecycle | `daemon/wayland/wl_input_method.c`, `lifecycle*.c`, `reconciler.c`, `reconcile_model.c` | staged and committed focus, phase, pending reactivation, divergence timer, commit serial | activate, deactivate, done, unavailable, resume, repair, commit | `InputMethodLifecycle` |
| Grab and virtual keyboard | `wl_keyboard.c`, `vk_bridge.c`, `keyboard_xkb.c` | grab object, keymap gate and its deadline, key generation, owned keys, carried and forwarded modifiers | rebuild, hard reset, expect/cancel keymap, on_keymap, on_modifiers, health check | `InputMethodLifecycle`, `GrabContract`, `KeyRouting` |
| Key routing | `key_route.c`, `key_arbiter.c`, `key_tracking*.h`, `keyboard_repeat.c`, the guards and policies beside them | per-key tracking with a generation, the arbiter's buffer, repeat key, startup guard | press, release, modifiers, repeat timer, chord completion, replay, consumption, teardown | `KeyRouting` |
| Event loop, reconnect | `wl_event_loop.c`, `wl_frontend.c`, `reconnect_backoff.c` | `running`, the Wayland objects, attempt count | one turn of the loop, unbind, bind, give up, stop | `InputMethodLifecycle` |
| Voice session | `core/src/voice/session.rs`, `proxy.rs`, `engine.rs`, `daemon/voice/pw_capture.c` | state and its mutex, audio buffer, inference thread, event fd, idle timer, pending reload, shared backend | start, stop, feed, dispatch, reload, unload, free | `VoiceSession` |
| Engine manager | `core/src/engine_manager.rs`, `engine_manager/*.rs` | entries with their instances and flags, keyboard and voice slots, last switch, recent pair | register, set_active, next, prev, notify_commit, get_engine, load, unload | `EngineManager` |
| Instance | `core/src/instance.rs`, `instance/*.rs` | configuration, focused context, last mode, callbacks | init, reload, deploy Rime, notify engine and mode | `EngineManager` |
| Keyboard engines | `engines/basic`, `engines/rime`, `engines/mozc` | per-context session, mode, composition | focus_in, focus_out, reset, process_key, get/set_mode, reload_config | what they do to the context and the callbacks: `EngineManager` |
| Application memory | `daemon/wayland/identity.c`, callbacks of `daemon/app.c` | current identity, `identity-engine-state.toml` | refresh, remember, restore | `EngineMemory` |
| Input context | `core/src/input_context*` | focus, preedit, candidates, surrounding text | focus, set_composition, commit | focus and owner of the composition in `EngineManager`, its content in `TextUi` |
| Text UI | `wl_input_method.c`, `text_ui_*.c`, `preedit_format.c` | pending update, the preedit sent last | update, flush, commit, reset | `TextUi` |
| Popup rendering | `popup/candidate_panel*.cc`, `flux_renderer.c` | geometry, layout cache, retire ring, frames in flight, presented list, status text | update, show, hide, present, retry, invalidate, scale | `TextUi` (what is shown and who owns it, not how it is drawn) |
| Runtime configuration | `wl_runtime_config.c` | inotify watch, reload timer | event, debounce, reload | `ControlPanel`; the reload's effect on voice: `VoiceSession` |
| Watchdog, resume signal | `wl_watchdog.c`, `resume_signal.c`, `aux_*.c` | heartbeat, armed flag, delay lock | arm, disarm, tick, delay | the resume itself: `InputMethodLifecycle` |
| Socket server | `daemon/ipc/uds_server.c`, `ipc_bus.c`, `tip_*.c` | client table, read and write buffers, the socket file | accept, read, dispatch, broadcast, write, close, restart | `UdsServer` |
| Command line client | `cli/*` | one connection | connect, call | `UdsServer` |
| State controller, status service | `daemon/state/*`, `daemon/app.c` | cached engine, mode and icon; property snapshots | notify, sync, broadcast, handle a method | `StatusSurfaces`, `ControlPanel` |
| Tray | `daemon/tray/*` | registration, item, menu | register, re-register, click, emit | `StatusSurfaces` |
| Control panel | `control/*` | staged and committed text, timers, widgets | edit, autosave, refresh, record a shortcut | `ControlPanel` |
| Configuration, types | `core/src/config*`, `event.rs`, `string.rs`, `types.rs` | values | parse, get, set, serialize | what a text keeps and loses: `ControlPanel` |
| Notifications, diagnostics | `daemon/notify/*`, `key_debug.c`, `wl_trace.c` | rate limits | notify, format | no |

**How they interact.** One main thread runs the event loop and everything it
dispatches: Wayland events, the key-repeat timer, the tray, the buses, the
configuration watcher, the voice session's event fd. Handlers run to
completion, so on that thread what can go wrong is the *order* of handlers and
the state one of them leaves to the next. A signal handler clears `running` at
any point. Beside the main thread the voice session has PipeWire's thread, an
inference thread per recording and an idle timer thread; they share the
session through a mutex, a buffer, the backend proxy and an event fd. Engines
call back into the daemon from inside the calls the manager makes to them, so
one switch is a chain of callbacks, each of which may write a file.

**What is hard here.**

* The compositor stages focus and commits it with `done`; suspends, repairs,
  engine switches and reconnects come between the two.
* A grab is exclusive: held when it should not be, or held without a keymap, it
  locks the user out of the keyboard.
* A key pressed under one state of affairs is released under another: the
  engine, the modifiers, the candidate list, the grab itself may have changed.
* The arbiter holds keys back, in a bounded buffer, until it knows whether they
  are a chord.
* The compositor may restart; its objects and their counters are new while the
  daemon's state is not.
* Model loads and stream connections take long and are made without the lock.
* A switch stops the old engine before it knows whether the new one starts.
* A broadcast goes out from inside the handling of a request, to the client that
  made it among others, through buffers that may be full.
* The watcher of tray items comes and goes while the signals that say so wait in
  the bus's queue.
* The panel edits a text that the daemon, the file and other clients change
  while its own write is in flight.
* The GPU draws a frame after the layouts it uses were replaced.

`PROJECT.json` lists every hazard with its line and the properties that cover it.

## 2. The modules

```
InputMethodLifecycle --refines--> GrabContract        (INSTANCE, refinement mapping)
KeyRouting            (its EndGrab, NewGrab, Resume, Deactivated are the lifecycle's effects on keys)
VoiceSession
EngineMemory          EXTENDS EngineManager     (application memory composed with the manager)
StatusSurfaces        EXTENDS EngineManager     (controller, tray and buses composed with the manager)
UdsServer
ControlPanel
TextUi
MC*                   values of the constants for a run, nothing else

SequenceLemmas                                        (induction, folds)
InputMethodLifecycleProofs  EXTENDS InputMethodLifecycle
KeyRoutingProofs            EXTENDS KeyRouting
VoiceSessionProofs          EXTENDS VoiceSession
EngineManagerProofs         EXTENDS StatusSurfaces, EngineMemory, SequenceLemmas   (the manager, its surfaces, the memory)
UdsServerProofs             EXTENDS UdsServer
ControlPanelProofs          EXTENDS ControlPanel, SequenceLemmas
TextUiProofs                EXTENDS TextUi, SequenceLemmas
```

**InputMethodLifecycle.** One action per handler of the compositor's events
(`Activate`, `Deactivate`, `Done`, `Unavailable`, `OnKeymap`, `OnModifiers`,
`KeyPress`, `KeyRejected`), per tick of the loop (`HealthCheck`, `Reconcile*`,
`ResumeTick`), per auxiliary source (`CommitText`, `EngineActivated`) and per
step of the reconnect, where the signal handler may come in between
(`BindSucceeds`, then `Reconnected`). The keyboard boundary (`kb`) is a record
and the calls a handler makes to it are functions on that record, composed in
the order the code calls them. The generation numbers are only compared for
equality with the current one, so `kb.keymap_current` stands for the
comparison; a modifier mask is zero or not.

**GrabContract** says what the frontend owes about the grab without any
handler: it exists for a focused field only, and `ready` has to be earned from
the compositor in the epoch it is used in. `GrabContractHolds` is the
refinement.

**KeyRouting.** `PressKey`, `ReleaseKey`, `ResendKey` are `on_key` up to the
router; the calls it makes to `process_key_press` and `process_key_release`
(one of them, or a whole replayed buffer) are queued in `todo` and made in order by
`RoutePress` and `RouteRelease`, with every other action disabled until the
queue is empty. `track` is the table of `key_states`; `own` the keys whose
recorded generation is the active one; `app` is what the application has been
sent, the yardstick of most properties.

**VoiceSession.** Each of four threads has a program counter; a step ends where
the code takes or releases a lock, calls out, or leaves a visible intermediate
state. `state_lock` is explicit because the main thread holds it across steps;
PipeWire's loop lock is held exactly while its callback runs. A backend is a
number in order of loading, so a use after free or a leak is a statement about
sets of numbers.

**EngineManager.** Handlers call one another here, so the state a call passes
to the next is a record `mgr` and each call an operator on it: `SetActive`
composes `EnsureInstance`, `Activate`, `TryRestore`, `RebindContext` as
`typio_engine_manager_set_active` does. `result` and `events` are the return
value and the callbacks of the last handler; `typed` and `cycle` are history.

**EngineMemory** applies the callbacks in `mgr.events`, in their order, to the
file of the application the frontend believes to be focused; `FocusApp` is
`transition_to_active` with its three calls: focus the context, refresh the
identity, restore engine and mode.

**UdsServer.** A byte stream is a sequence of units, the header and the body of
a frame, so a read may end inside a frame. The kernel is explicit: the listen
queue, the socket buffers, the peer's close; clients act between any two steps
of the server. `EpollWait` takes the batch of ready descriptors,
`typio_uds_server_dispatch` handles them one by one (`AcceptConnection`, the
hang-up, the read), and a read is a loop over frames, `cur` being the client it
is in: the handler's broadcast and the response are steps of their own, because
the peer may close between them. `Merge` puts together the sends of one
broadcast, one to each client.

**StatusSurfaces.** Every action of the manager but a commit (it calls nothing back), with the callbacks it left in
`mgr.events`: `Notify` applies them to the controller's cache in their order,
each broadcasts, the item takes the cache, and the clients are sent properties
read from the manager at that moment (`told`). The tray's registration is the
other half: `NameOwnerChanged` signals queue up in `signals` until the loop
dispatches one (`OwnerChanged`), while the watcher leaves, comes back, answers
late or refuses.

**ControlPanel.** The panel (staged and committed text, timer, write in
flight), the daemon (configuration in force, its text, running voice engine),
the file and its watch, and between them the requests and messages that are
still on the bus. A text is a configuration together with the line on which its
first quotation mark stands, which is what `SetConfigText` makes of it.

**TextUi.** The input context's composition, the update it marks pending, the
preedit `tracking` remembers, and the panel: its current geometry, its LRU cache
of rows, the ring of slots in which retired layouts wait, the frames the GPU has
not finished. A resource is a number with at most one owner. `Flush` is
`typio_wl_input_method_flush_pending_popup` with all it calls: lay out (or
reuse the cache), retire, present (which the compositor may skip or fail), and
send the preedit when it differs from the one sent last.

Definitions with a comment "Defect:" are mutants: a plausible bug in the
definition that follows, which some property must then reject.

### Environment

* The compositor sends modifiers after a keymap and after each key that changes
  them; those are read in the same dispatch, before the repeat timer.
* It re-sends keys held before a grab only before fresh ones.
* The build has voice support (`HAVE_VOICE`), and libpipewire takes its loop
  lock as documented.
* libdbus delivers the messages of one sender in order; a watcher answers a
  registration at once, late (after the second it is given), or with an error.
* A kernel socket buffer holds what it accepted until the peer reads it or goes.
* The GPU finishes frames in order, and flux bounds the frames in flight.
* Rime's deployment has finished when a session is asked for; state files are
  written without failure and not edited by hand.

## 3. What is checked

Every bound is a constant named in the module. `CHECK_DEADLOCK FALSE` appears
where the daemon may stop (`running` cleared, session freed).

| Run | Instance | Shows |
|---|---|---|
| `Lifecycle` | 3 `done` events per object, 2 reconnect attempts | `NothingOutlivesFocus` (grab, ACTIVE phase, pending reactivation), `KeymapGate` (never open too early, never shut without a deadline), `DoneCommitsFocus`, `RecoveryStartsClean`, the refinement `GrabContractHolds`, and under fairness `ActiveWithoutGrabRecovers`, `SilentGrabIsReleased` |
| `KeyRoutingChord` | Ctrl, Shift and a letter, chord Ctrl+Shift, buffer of 4 | `TrackingIsTrue`, `BufferingEndsWithChord`, `TeardownReleasesKeys` |
| `KeyRoutingKinds` | a modifier, an arrow, Return, the push-to-talk key | `TrackingIsTrue`, `RepeatingKeyIsHeld` |
| `Voice` | 2 engines, 3 model loads, 2 chunks of audio | `BackendLivesWhileHeld`, `InferenceOwnsSession`, `RestIsQuiet`, and under fairness `MainThreadReturns`, `ProcessingEnds` |
| `Engines` | 3 keyboard engines of which one fails to initialize at will, one engine that cannot be created, a voice engine, 3 commits, an order with a stranger and a repetition | `TypeOK` (the active flags are those of the slots), `FailedSwitchChangesNothing`, `CompositionBelongsToActiveEngine`, `RecentsAreLastTyped`, `RapidCyclingVisitsAll` |
| `EngineMemory` | 2 applications (symmetric) and the unidentified one, 2 engines, the preference on and off, 1 commit | `SwitchIsRemembered` (for the application in focus, for no other, without the old engine's mode), `FocusRestoresEngine` |
| `UdsServer` | a command line client and a program that pipelines 2 requests, a read buffer of 4 units, a write buffer of 3, a socket buffer of 3, a change from elsewhere, a crash and a restart | `AnswersInOrder` (whole frames, answers in order and to what was asked, no request forgotten or left waiting in a buffer), and under fairness `RequestIsHandled` |
| `UdsFull` | 3 connections, 2 entries, requests longer than the read buffer, a stop | `ConnectionsAreOwned` |
| `StatusSurfaces` | 2 keyboard engines, one with modes and one that fails to initialize at will, a voice engine, 2 undispatched signals | `SurfacesAgree`, `PanelIsCurrent`, and under fairness `ItemReturns` |
| `ControlPanel` | the engine order and a shortcut edited, 2 edits, 1 event from elsewhere (an edit of the file, a failed save, a stop of the daemon) | `OneWriteInFlight`, `NothingBeforeSeed`, `ConfigFollowsFile`, and under fairness `EditIsSubmitted` |
| `ControlRoundTrip` | one edit of the font size | *violated*: see 5 |
| `TextUi` | 2 lists of one row that evict each other from a cache of one, 2 modes, a status text, 2 styles, a ring of 3 slots of 2, 2 frames in flight, 5 events | `ResourcesAreOwned`, `FramesKeepTheirLayouts`, `TrackingIsTrue`, `CandidatesNeedFocus`, and under fairness `PreeditReachesApp` |

**Why the bounds suffice.** In the lifecycle the counters guard nothing: `im_serial`
is only copied and the attempt only compared with its maximum, and three `done`
events let one field be entered, left and entered again on one object and after a
reconnect. In the routing model the interesting cases need one key of each
kind, a chord of two keys, and a buffer that can fill: 4 events do what 8 do,
and the runs where the size matters use 8. In the voice model three loads allow
the backend of one engine to be replaced while an older one is held, two
engines a switch during a job, two chunks a loss that is not total. Three keyboard
engines separate "the neighbour" from "the partner"; three commits make and
replace a pair; two applications are what a leak from one to another needs.
In the socket server a write buffer and a socket buffer that hold one frame and a half
overflow between header and body, a read buffer of two frames holds one and a part of the
next, and two entries for three connections make a descriptor be reused within a
batch. Two waiting signals let a watcher's going and coming overtake their
dispatch. Two edits and one event put any of the panel's changes between
another and its answer; a daemon that stops is one such event. In the text UI the
interesting orders are an update, another that replaces it, a frame that is still
drawn, and a change of focus or style: five events, with the code's ring of three
slots. The lists have one row, since rows
are retired one by one; with two rows in a cache of two the properties hold as
well (619k states). A list longer than the panel never occurs in the run.

**Fairness.** The loop wakes at least every 100 ms, and on every turn ticks the
reconciler, checks the keymap's deadline and reads `running`: weak fairness of
those three, and nothing of the compositor. For the voice session every thread
continues while it can and the event fd is polled each turn. A mutex or the
PipeWire loop lock that is free again and again is granted eventually (strong
fairness of the steps that wait for one). Nobody is obliged to press or release
a key, and an idle timeout need never come. The socket server is polled whenever
it is readable and clients promise nothing; the bus is dispatched at every turn,
and a panel that was told fetches; GTK's loop runs the panel's timer and sources,
the daemon's loop its bus, its watch and its timer, and nobody is obliged to
start a daemon that went (`EditIsSubmitted` assumes one that comes back); the loop
flushes a pending update at its next turn, and neither compositor nor GPU owes
anything to `PreeditReachesApp`.

## 4. What is proved

Every safety property of the passing runs is the subject of a theorem. Each is about
the specification the run checks (`Spec`, `SurfacesSpec` or `MemorySpec`), for every value
of the constants that satisfies the named assumptions of its module; those say what kind of
value a constant is, and little more. `FramesInFlight <= Depth` (`TextUi`) is what the
code's two numbers satisfy. Three theorems of `KeyRouting` have the hypothesis
`ChordBlocks`, one of them speaks only of the behaviours in which the arbiter's buffer
never fills (`[]NotFull`), and one of `TextUi` has `ListsFit`; all are needed, and section 5
says what happens without them.

| Module | Theorems | Property of a run |
|---|---|---|
| `InputMethodLifecycleProofs` | `TypeCorrect`, `GrabNeedsFocus`, `KeymapIsCurrent`, `WaitHasDeadline`, `ReactivationCurrent`, `ActiveNeedsFocus` | `FocusOwnsEverything`: `NothingOutlivesFocus`; `GateIsSound`: `KeymapGate` |
| | `ImplementsContract`, `DoneCommits`, `RecoveryIsClean` | `GrabContractHolds`, `DoneCommitsFocus`, `RecoveryStartsClean` |
| `KeyRoutingProofs` | `RoutingTypes`, `BufferingEnds` | `BufferingEndsWithChord` |
| | `TrackingTellsTruth`, `GrabsEndReleased`, given `ChordBlocks` | `TrackingIsTrue`, `TeardownReleasesKeys` |
| | `RepeatsWhileHeld`, given `ChordBlocks` and `[]NotFull` | `RepeatingKeyIsHeld` |
| `VoiceSessionProofs` | `VoiceTypes`, `BackendsAreCounted`, `InferenceIsAlone`, `RestsQuietly` | `BackendLivesWhileHeld`, `InferenceOwnsSession`, `RestIsQuiet` |
| `EngineManagerProofs` | `ManagerTypes`, `CompositionsAreOwned`, `FailuresMoveNothing` | `TypeOK`, `CompositionBelongsToActiveEngine`, `FailedSwitchChangesNothing` |
| | `RecentsFollowTyping`, `CyclingVisitsAll` | `RecentsAreLastTyped`, `RapidCyclingVisitsAll` |
| | `SurfacesFollow`, `PanelsFollow` | `SurfacesAgree`, `PanelIsCurrent` |
| | `MemoryTypes`, `SwitchesAreRemembered`, `FocusBringsEngineBack` | `SwitchIsRemembered`, `FocusRestoresEngine` |
| `UdsServerProofs` | `ServerTypes`, `ConnectionsAreKnown`, `AnswersComeInOrder` | `ConnectionsAreOwned`, `AnswersInOrder` |
| `ControlPanelProofs` | `WritesAreSingle`, `SeedComesFirst`, `FileIsFollowed` | `OneWriteInFlight`, `NothingBeforeSeed`, `ConfigFollowsFile` |
| `TextUiProofs` | `PanelTypes`, `LayoutsAreOwned`, `NoFocusNoCandidates`, `PreeditIsTracked` | `ResourcesAreOwned`, `CandidatesNeedFocus`, `TrackingIsTrue` |
| | `FramesAreSafe`, given `ListsFit` | `FramesKeepTheirLayouts` |

**The shape of the proofs.** Each module defines an inductive invariant and proves
that it holds at first, that every action keeps it, and that it implies the
property. Where handlers are compositions of operators on a record (the
keyboard boundary, the manager, the socket table, the panel) a lemma per operator
says what it does to a record that satisfies the invariant; the step lemma then has
one case per action and does not look inside them. `SequenceLemmas` is shared:
induction over `Nat` for a set of numbers instead of a predicate, from the
library's well-founded induction, and what `FoldLeft` computes, step by step.

**The lifecycle** (`IInv`). None of the safety properties is inductive. Three
things are added: a focused context has a session; no grab object exists
while the frontend is not running its loop (`GrabOnlyWhileFocused` alone says nothing
of a grab that survived the loss of the connection); and the boundary record alone
satisfies `KbSafe`, which joins the keymap's currency with the deadline, since
the gate in front of the virtual keyboard may turn `needs_keymap` into `ready` in the
middle of any handler that forwards a modifier. The refinement needs four facts
about a step: one that does no more than that gate is a handshake, an end
or a stutter; one that leaves no grabbed object is an end; a rebuild for a
focused field is a build; and every action is one of these. `KbSafe` excludes a
build that is `ready` at once.

**Key routing.** The invariant says what exists only within a grab (`GrabInv`),
that under the startup guard nothing was forwarded (`GuardInv`), and, the part that
took the longest to find, when a key may repeat (`RepeatInv`): the generation owns it, or the
modifiers event that is due will stop it, and while the arbiter buffers the chord's
own blocking modifiers are down. The lemma `DispatchCases` reduces what `on_key` does to four
outcomes (dropped, routed, buffered, completing the chord).

`RepeatingKeyIsHeld` says nothing of the states between two calls of a handler; `HeldInv`
does. The key that repeats is down, or its release is in the arbiter's buffer, or on its
way from there to the router, or the modifiers event that is due will stop it. Two facts
make it inductive: the arbiter keeps no press but those of the chord's modifiers, so among the events
handed to the router only the last can start a repeat, and its key is down. The chord that
swallows the release of a repeating key was completed by the last of its modifiers, by `RepeatInv` one
whose modifiers event stops the repeat.

**Voice session.** `SessionInv` says at each of the main thread's steps, between
which the other threads run, what the session's state and the inference thread are;
`CaptureInv` and `AudioInv` bound the window in which PipeWire's callback may still write;
`BackendInv` counts every backend that was loaded and not destroyed: a proxy's, and
none twice, or the running inference's.

**Engine manager and surfaces.** The manager's invariant is typing, flags
that agree with the slots, and ownership of the composition; the work is in the
operators. `FailuresMoveNothing` needs for every failing way through `SetActive`
that the restore brings everything back but the wrappers it created.
`RecentInv` is inductive because only a commit and a start touch the pair, and a start
takes what was saved. `CycleInv` says of the presses recorded that each went on by one in
the ordered list and the last came to the active engine; that list is a fold that has every
keyboard engine exactly once (`OrderedOK`), so a walk round it needs as
many steps as there are engines to come back (`WalkVisitsAll`, by induction over the steps). For the
surfaces the cache after a handler is a fold over the callbacks the handler made, so
every operator has a second lemma: the cache that heard the
callbacks shows the record the operator returns, and the last callback found the
properties of now. `SurfacesInv` adds the tray: while a signal waits no watcher that
is there has the item and the last signal tells of the present watcher; when none waits, a
watcher that has the item, and took it in on time, is one the daemon is registered with.

**Application memory.** What the file says after a handler is again a fold over the
callbacks it made, so each operator has a third lemma (`EngineKept`, `Records`): the entry
that heard the callbacks names the engine the operator leaves active, or the one
it named before if none changed. `RememberAllOK` adds that the other applications' entries stay as they
were. `FocusAppOK` composes the three calls of `transition_to_active`, each with the file
and the identity of its moment. The invariant itself is little: the manager's, and types.

**Socket server.** `Core` relates table, links and listen queue: nobody has two entries
or waits twice, and a link is open exactly if an entry has its client. All that a
handler does to the table besides accepting is to lose clients, each of which
is told by its link; calls that only do this compose, and `Merge`, which puts the sends of one broadcast together, is one.

`AnswersInOrder` is about what each client got, and inductive only for what it got and will
get: its own part, then what the kernel and the write buffer hold (`Coming`), is whole frames whose
answers are numbered in order; and what its read buffer and the kernel hold (`Asking`) are the requests
without an answer, from the first of them on. Of a connection that is open the first is made of complete frames,
so that the next frame may follow; of one that is shut nothing more is claimed than
that it got a beginning of such a stream. A lemma per call says that a client is sent a value
or its link is shut and it gets a beginning of it (`Sends`, `Serves`), and the step that hands
a request to the handler takes the head of `Asking` and gives it the next number. `Reading`
adds what the read loop knows: the request in hand is the first of its buffer, and only
the buffer being read may hold a complete one.

**Control panel.** A write in flight waits at the daemon or its answer is on the bus,
exactly one (`InFlight`); whoever vanishes or comes back in between appends a message
that is no answer. Before the seed there is no text, no timer and no write.

**Text UI.** `OwnInv`: each layout has one owner, also within the cache. `DrawInv` is the argument of the
retire ring: what a frame in flight uses is alive, and if it waits in a slot, that slot
was parked in no earlier than the frame was presented, so it is younger than the
frames in flight and the ring does not come round to it. `RowsInv` says that the
current geometry's rows are cached, which is what an eviction followed by a
frame would break.

**Model-checked only.**

* Liveness under fairness is out of the prover's reach: `ActiveWithoutGrabRecovers`,
  `SilentGrabIsReleased`, `MainThreadReturns`, `ProcessingEnds`, `RequestIsHandled`,
  `ItemReturns`, `EditIsSubmitted`, `PreeditReachesApp`.
* `RepeatingKeyIsHeld` without `[]NotFull`: it is true of the run's chord of one key and false of others (section 5).

## 5. Where the code and its documents part

**One run finds a violation**, `ControlRoundTrip`: D-Bus's `SetConfigText` puts
the text between quotation marks as it is (`state/dbus.c:775`), and
`tip_json_extract_string` ends it at the first quotation mark it holds, so an edit
in the panel saves a configuration cut at its first quoted value
(`docs/explanation/control-surfaces.md:123`, `:126`).

The other divergences are written down as definitions under "What the comments
and documents say" in their modules. TLC violates each on the instance of the
named run, when it is made an invariant or property of that run's cfg:

* `CommitSerialIsDoneCount` (`Lifecycle`). The new input method object starts
  counting `done` events from nothing; `im_serial` keeps the old object's count
  (`wl_frontend.c:567` against `wl_input_method.c:279`).
* `StopIsHonoured` (`Lifecycle`). A stop signal during a rebind is undone by
  `running = true` (`wl_frontend.c:607` against its own comment at 592).
* `ReleaseFollowsPress` (`KeyRoutingChord`, `KeyRoutingKinds`). A full arbiter
  buffer drops the release of a key whose press was forwarded (`key_arbiter.c:34`:
  hold the chord, tap one of its keys three times); a completed chord releases only keys tracked
  as forwarded, not those sent as shortcuts or plain text (`key_arbiter.c:86`);
  and a candidate list that appeared after the press takes the release
  (`key_route.c:795`). `docs/dev/maintenance.md:15` promises one release for
  every press.
* `JobKeepsItsModel` (`Voice`). A reload during a recording unloads its model when
  another voice engine is configured (`wl_runtime_config.c:79`;
  `docs/explanation/voice-input.md:8`).
* `FocusRestoresMode` (`EngineMemory`). The mode remembered for an application
  is overwritten by the callback of the switch that restores its engine, before
  it is read (`identity.c:668`; `control/control_ui.c:243`).
* `ReloadKeepsTheUsersEngine` (`Engines`). A reload compares `default_engine` with
  the engine of the moment, so an unrelated edit takes back the user's switch
  (`config_ops.rs:116`; `docs/explanation/configuration-system.md:80` says the
  engine is switched "if `default_engine` changed").
* `NoGrabOverCarriedModifiers`, `TeardownLeavesNoModifiers` (`Lifecycle`):
  modifiers forwarded to the application survive a grab that owned no key
  (`lifecycle.c:77`).
* `DivergenceConverges` (`Lifecycle`): a repair rebuilds the grab only from the
  ACTIVE phase, so a context that is focused with the phase INACTIVE (after a
  failed rebuild or a reconnect) is repaired again and again and stays without a
  grab.
* `HeldModifierMakesShortcut` (`KeyRoutingChord`), `ResumeFencesStaleKeys` and
  `PttKeyStaysInternal` (`KeyRoutingKinds`): narrow orders in which a held modifier is not seen, a key
  held over a suspend is pressed again by the new grab, and the push-to-talk key
  reaches the application.
* `CallReturnsItsResponse` (`UdsServer`). `IpcClient::call` takes the first frame
  for the answer, also a `PropertiesChanged` that was broadcast before it
  (`cli/src/ipc.rs:102` against its comment at 56).
* `ClientsHoldTheConfiguration` (`StatusSurfaces`). `ActivateEngine` writes the default engine
  after its `PropertiesChanged` went out, and a reload that switches no engine
  sends none (`state/service.c:481`; `docs/reference/dbus-interface.md:110`,
  `docs/explanation/configuration-system.md:65`).
* `NewerEditsKept` (`ControlPanel`). An edit taken back while its write is in
  flight makes the stage equal to the committed text, so the next refresh takes
  the daemon's text over the newest edit; and a refresh sets the voice dropdown
  to the running backend, and the stage with it, while the user's choice was not
  submitted (`control_config.c:1391`; `docs/explanation/control-surfaces.md`:
  "Old daemon replies must not overwrite newer local staged edits").
* `PanelCatchesUp` (`TextUi`). A frame that was skipped after a change of content is retried as if only
  the selection had changed, and an equal selection presents nothing
  (`candidate_panel.cc:630`), so the old candidates stay on screen;
  `wl_input_method.c:689` and `candidate_panel.cc:727` promise the retry.
* `CacheFreedBehindFence` (`TextUi`). A change of scale or theme frees the cached layouts while
  frames that use them are in flight (`candidate_panel.cc:664`);
  `candidate_panel_layout.cc:99` says that its callers have drained the GPU.

Proving found three more. Each is a state that the code can reach on an instance
other than the runs', and the reason for a hypothesis or for a missing theorem;
TLC shows each on the constants given.

* A chord without Ctrl, Alt and Super, such as Shift alone, which
  `typio_shortcut_parse` accepts, makes `TrackingIsTrue` false: a letter is
  pressed and repeats, Shift goes down and the arbiter buffers, the letter goes up, then Shift.
  The completed chord releases the letter (`key_arbiter.c:86`) and its timer
  runs on, because only a change of the other three modifiers stops it; the next repeat
  presses a key nobody owns. With `ChordBlocks`, which the default chord
  Ctrl+Shift satisfies, the modifiers event stops it.
* `RepeatingKeyIsHeld` is false with the chord Ctrl+Shift and a buffer of 4: a full
  buffer drops the release of the repeating key (`key_arbiter.c:34`), which then
  repeats although it is up. The run's chord of one key cannot fill the buffer; the theorem is about the behaviours in which it
  never fills, and with that restriction TLC confirms it for Ctrl+Shift as well.
* A list longer than `POPUP_MAX_ROWS` makes `FramesKeepTheirLayouts` false (two
  rows where one fits, 7 events): a change of style frees the cached
  rows, the layout of the long list fails (`candidate_panel_layout.cc:380`) and the panel keeps its
  geometry, whose rows are gone; when the style changes back, the next frame draws them.
  Hence `ListsFit`.

Behaviours met while modelling that no property states:

* The voice session keeps the engine captured at its creation, although
  `docs/explanation/voice-input.md:94` speaks of a new snapshot at each reload.
* Whisper's and Sherpa's `reload_config` do nothing.
* The idle thread's check, unload and disarm are three steps: a recording that
  starts in between loses its model or its armed timer.
* Shutdown detaches the audio source without stopping it; the model ends there.
* An engine found unfit is accepted by the next switch to it: the wrapper is
  stored before it is validated (`engine_manager.rs:362`).
* Rime announces its mode from `focus_out` after the slot was switched, so the
  mode is stored under the new engine's name; deploying Rime while another
  engine is active does the same; after a deployment the session is reopened
  by the focus of the next application before its identity is known.
* Mozc's mode, toggled by key, is never announced, so never remembered.
* An engine that cannot be created blocks cycling past it.
* A voice commit counts as a commit of the keyboard engine.
* The socket server removes the socket file of a daemon that is alive as readily
  as a stale one; a frame over 8192 bytes closes the client although the limit
  is 1 MiB; output that did not fit is written on only at the client's next event; a
  hang-up in the batch closes whatever client has the descriptor now; and a
  response that closes its client lets the read loop go on in an emptied buffer
  (`uds_server.c:239`), where the model ends the daemon.
* Menu entries are resolved by their index at the time of the click; a name
  handed from one watcher to another without a gap is not registered with; a
  failed registration waits for the next change of the name.
* The panel compares texts whose tables come in the order of a hash map, so its
  stage practically never equals what the daemon sends back, and the next
  autosave overwrites what others changed meanwhile. An edit made while a shortcut is being
  recorded saves the placeholder. Closing the window loses a pending autosave.
* A reload with the file missing keeps the old configuration, and a clean
  shutdown writes the configuration in force over the file.
* After a resume the preedit is cleared from the application but not from the
  tracking, so it comes back only when its text changes; a reactivated field gets
  none until the next change. A status text covers the candidates, and hiding it
  hides them. A frame that was skipped while a status was shown, or that failed,
  is not retried; a first frame that was skipped leaves the retry flag set when
  the panel is hidden.

## 6. Plan

No safety property a run checks is left to prove; a module that is added gets its
theorems as these did. Models: the watchdog's heartbeat thread against long handlers, with the armed
flag that a failed grab leaves behind (`wl_keyboard.c:206`), and the suspend's
delay lock; the lifecycle composed with the routing of keys, so that the four
actions of `KeyRouting` that stand for the lifecycle are replaced by it; the
compose table of `engines/basic/compose.c` against a reference definition.

## 7. What is not modelled, and why

Sizes, colours and glyphs of the popup, log and trace formatting, option parsing
and D-Bus marshalling have no state that an order of events could corrupt, or
delegate it to a library. What an engine makes of keys, and what a voice backend
recognizes, is the engines' own business: the models let it be anything. Of
parsing and storing configuration only what a round trip loses is modelled; the
rest is sequential code with unit tests. Loading shared objects and unloading
engines happens at start or never in the daemon. Desktop notifications are sent
and forgotten. Of the socket server, `realloc` and `epoll_ctl` failures are left
out; of the tray, the animation of its status; of the control panel, the layout
of its widgets.
