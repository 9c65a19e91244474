------------------------ MODULE InputMethodLifecycle ------------------------
(***************************************************************************)
(* The focus and keyboard-grab lifecycle of typio's Wayland frontend:      *)
(* daemon/wayland/wl_input_method.c, lifecycle.c, lifecycle_state.c,       *)
(* reconciler.c, the virtual-keyboard gate of vk_bridge.c, the grab object *)
(* of wl_keyboard.c and the reconnect path of wl_frontend.c.               *)
(*                                                                         *)
(* The frontend is one thread: every handler below runs to completion, so  *)
(* every handler is one action.  What interleaves with it is the order in  *)
(* which the compositor's events, the per-turn ticks of the event loop,    *)
(* auxiliary sources (engine switches, voice results) and the asynchronous *)
(* signal handler arrive; that order is not constrained here.              *)
(*                                                                         *)
(* Abstractions.  active_key_generation is only ever compared for equality *)
(* with the generation a keymap was recorded under, so the pair is kept as *)
(* the BOOLEAN kb.keymap_current.  A modifier mask is zero or not.  Time   *)
(* is an action that may or may not have passed its threshold.  Per-key    *)
(* tracking belongs to module KeyRouting.                                  *)
(***************************************************************************)
EXTENDS Naturals

CONSTANTS
    MaxDone,      \* bound on im_serial, the number of `done` events received
    MaxAttempts   \* reconnect attempts before giving up (12 in the code)

ASSUME ConstantsAssumption == MaxDone \in Nat /\ MaxAttempts \in Nat

VARIABLES
    stage,                  \* where typio_wl_frontend_run is
    attempt,                \* attempt of typio_wl_frontend_reconnect
    stop_requested,         \* history: SIGTERM/SIGINT called frontend_stop
    session,                \* frontend->session exists
    pending_active,         \* session->pending.active
    focused,                \* session->ctx is focused
    lifecycle_phase,
    pending_reactivation,
    engine,                 \* the manager has an active keyboard engine
    kb,                     \* keyboard boundary: grab, virtual keyboard
    diverged,               \* reconcile_divergence_since_ms # 0
    im_serial,
    done_count,             \* `done` events the current input method object sent
    last_commit             \* last_committed_serial, and done_count then

vars == <<stage, attempt, stop_requested, session, pending_active, focused,
          lifecycle_phase, pending_reactivation, engine, kb, diverged,
          im_serial, done_count, last_commit>>

loopVars == <<stage, attempt, stop_requested>>
focusVars == <<session, pending_active, focused>>
phaseVars == <<lifecycle_phase, pending_reactivation>>
serialVars == <<im_serial, done_count, last_commit>>

Phases == {"inactive", "activating", "active", "deactivating"}
Stages == {"run", "backoff", "bound", "exited"}

(* "null" is state BROKEN with no virtual keyboard object behind it.       *)
VkStates == {"absent", "null", "needs_keymap", "ready", "broken"}

KbState ==
    [running : BOOLEAN,         \* frontend->running
     keyboard : {"none", "grabbed", "released"},
     xkb : BOOLEAN,             \* keyboard->xkb_state exists
     mods : BOOLEAN,            \* keyboard->mods_* # 0
     owned : BOOLEAN,           \* active_generation_owned_keys
     carried : BOOLEAN,         \* carried_vk_modifiers
     vk : VkStates,             \* virtual_keyboard_state
     keymap_current : BOOLEAN,  \* keymap generation = active_key_generation
     deadline : BOOLEAN,        \* virtual_keyboard_keymap_deadline_ms # 0
     mask : BOOLEAN]            \* modifiers last sent to the compositor # 0

(* Every variable has its type; attempts stay within the retry budget      *)
(* (typio_wl_reconnect_should_retry).                                      *)
TypeOK ==
    /\ stage \in Stages
    /\ attempt \in 0..MaxAttempts
    /\ stop_requested \in BOOLEAN
    /\ session \in BOOLEAN
    /\ pending_active \in BOOLEAN
    /\ focused \in BOOLEAN
    /\ lifecycle_phase \in Phases
    /\ pending_reactivation \in BOOLEAN
    /\ engine \in BOOLEAN
    /\ kb \in KbState
    /\ diverged \in BOOLEAN
    /\ im_serial \in Nat
    /\ done_count \in Nat
    /\ last_commit \in [serial : Nat, dones : Nat]

-----------------------------------------------------------------------------
(* The keyboard boundary, as functions on kb: the handlers below compose   *)
(* them in the order the code makes the calls.                             *)

VkExists(k) == k.vk \notin {"absent", "null"}

VkReady(k) == k.vk = "ready" \/ (k.vk = "needs_keymap" /\ k.keymap_current)

ReleaseGrab(k) ==
    [k EXCEPT !.keyboard = IF @ = "grabbed" THEN "released" ELSE @]

Stop(k) == [k EXCEPT !.running = FALSE]

FailSafe(k) == IF k.running THEN Stop(ReleaseGrab(k)) ELSE k

(* Every use of the virtual keyboard asks typio_wl_vk_is_ready first; the  *)
(* question promotes a completed keymap wait, and stops a broken frontend. *)
VkGate(k) ==
    CASE k.vk = "needs_keymap" /\ k.keymap_current ->
            [k EXCEPT !.vk = "ready", !.deadline = FALSE]
      [] k.vk \in {"broken", "null"} -> FailSafe(k)
      [] OTHER -> k

ForwardModifiers(k, m) ==
    IF VkReady(k) THEN [VkGate(k) EXCEPT !.mask = m] ELSE VkGate(k)

ResetModifiers(k) ==
    IF VkReady(k)
    THEN [VkGate(k) EXCEPT !.mask = FALSE, !.carried = FALSE, !.mods = FALSE]
    ELSE VkGate(k)

DestroyKeyboard(k) ==
    [k EXCEPT !.keyboard = "none", !.xkb = FALSE, !.mods = FALSE]

CancelKeymapWait(k) ==
    IF k.vk = "needs_keymap"
    THEN [k EXCEPT !.vk = IF k.keymap_current THEN "ready" ELSE @,
                   !.deadline = FALSE]
    ELSE k

ShouldCarry(k, phase) ==
    k.owned /\ k.keyboard # "none" /\ phase = "deactivating" /\ k.mods

(* Modifiers are handed over to the next client when the grab ends in the  *)
(* middle of a deactivation, and reset otherwise -- but only for a grab    *)
(* that saw a key of its own.                                              *)
SettleModifiers(k, phase) ==
    CASE ShouldCarry(k, phase) ->
            [ForwardModifiers(k, TRUE) EXCEPT !.carried = TRUE]
      [] k.owned /\ ~ShouldCarry(k, phase) -> ResetModifiers(k)
      [] OTHER -> k

HardReset(k, phase) ==
    LET fresh == IF k.carried /\ phase # "deactivating"
                 THEN ResetModifiers(k) ELSE k
        settled == SettleModifiers(fresh, phase)
    IN [CancelKeymapWait(DestroyKeyboard(settled)) EXCEPT !.owned = FALSE]

(* Defect: the new grab continues the old generation.                      *)
CreateKeyboardSameGeneration(k, ok) ==
    [k EXCEPT !.keyboard = IF ok THEN "grabbed" ELSE "none", !.owned = FALSE]

(* A failed creation has already begun a new generation.                   *)
CreateKeyboard(k, ok) ==
    [k EXCEPT !.keyboard = IF ok THEN "grabbed" ELSE "none",
              !.owned = FALSE, !.keymap_current = FALSE]

(* Defects: an inherited keymap is trusted; a wait has no deadline.        *)
TrustOldKeymap(k) == k

ExpectKeymapForever(k) ==
    IF VkExists(k) THEN [k EXCEPT !.vk = "needs_keymap"] ELSE k

ExpectKeymap(k) ==
    IF VkExists(k)
    THEN [k EXCEPT !.vk = "needs_keymap", !.deadline = TRUE]
    ELSE k

RebuildGrab(k, phase, ok) ==
    LET created == CreateKeyboard(HardReset(k, phase), ok)
    IN IF ok THEN ExpectKeymap(created) ELSE created

(* Defect: the carried mask survives the scrub.                            *)
ScrubKeepsCarried(k, phase) ==
    [ResetModifiers(HardReset(k, phase)) EXCEPT !.keymap_current = FALSE]

Scrub(k, phase) ==
    [ResetModifiers(HardReset(k, phase))
        EXCEPT !.carried = FALSE, !.keymap_current = FALSE]

-----------------------------------------------------------------------------
(* Dispatch of compositor events; a batch is dispatched to its end even    *)
(* when one of its handlers stops the frontend.                            *)
Dispatching == stage = "run"

Grabbed == Dispatching /\ kb.keyboard = "grabbed"

(* typio_wl_commit: the single chokepoint of every commit.                 *)
Commit ==
    last_commit' = IF session /\ im_serial # 0
                   THEN [serial |-> im_serial, dones |-> done_count]
                   ELSE last_commit

Activate ==
    /\ Dispatching
    /\ session' = TRUE
    /\ pending_active' = TRUE
    /\ pending_reactivation' = focused
    /\ lifecycle_phase' = IF focused THEN lifecycle_phase ELSE "activating"
    /\ UNCHANGED <<loopVars, focused, engine, kb, diverged, serialVars>>

Deactivate ==
    /\ Dispatching
    /\ pending_reactivation' = FALSE
    /\ lifecycle_phase' = "deactivating"
    /\ pending_active' = FALSE
    /\ UNCHANGED <<loopVars, session, focused, engine, kb, diverged, serialVars>>

(* Defect: no focus without an engine to give it to.                       *)
FocusInNeedsEngine ==
    /\ pending_active /\ ~focused
    /\ focused' = engine
    /\ lifecycle_phase' = IF engine THEN "active" ELSE "inactive"
    /\ pending_reactivation' = FALSE
    /\ UNCHANGED <<engine, kb>>

(* transition_to_active: restoring the identity's engine may activate one. *)
FocusIn ==
    /\ pending_active /\ ~focused
    /\ focused' = TRUE
    /\ engine' \in {engine, TRUE}
    /\ pending_reactivation' = FALSE
    /\ \/ /\ ~engine'
          /\ lifecycle_phase' = "active"
          /\ UNCHANGED kb
       \/ /\ engine'
          /\ \E ok \in BOOLEAN :
                /\ kb' = RebuildGrab(kb, lifecycle_phase, ok)
                /\ lifecycle_phase' = IF ok THEN "active" ELSE "inactive"

Reactivate ==
    /\ pending_reactivation /\ focused /\ pending_active
    /\ pending_reactivation' = FALSE
    /\ \/ /\ ~engine
          /\ UNCHANGED <<lifecycle_phase, kb>>
       \/ /\ engine
          /\ \E ok \in BOOLEAN :
                /\ kb' = RebuildGrab(kb, lifecycle_phase, ok)
                /\ lifecycle_phase' = IF ok THEN "active" ELSE "inactive"
    /\ UNCHANGED <<focused, engine>>

(* Defect: leaving the field does not tear the grab down.                  *)
FocusOutKeepsGrab ==
    /\ focused /\ ~pending_active
    /\ focused' = FALSE
    /\ lifecycle_phase' = "inactive"
    /\ pending_reactivation' = FALSE
    /\ UNCHANGED <<engine, kb>>

FocusOut ==
    /\ focused /\ ~pending_active
    /\ focused' = FALSE
    /\ kb' = HardReset(kb, lifecycle_phase)
    /\ lifecycle_phase' = "inactive"
    /\ pending_reactivation' = FALSE
    /\ UNCHANGED engine

(* The recovery branch for a grab nothing routes to.                       *)
NoTransition ==
    /\ pending_active = focused
    /\ ~(pending_reactivation /\ focused)
    /\ IF kb.keyboard # "none" /\ ~pending_active
       THEN /\ kb' = HardReset(kb, lifecycle_phase)
            /\ lifecycle_phase' = "inactive"
       ELSE UNCHANGED <<kb, lifecycle_phase>>
    /\ UNCHANGED <<focused, engine, pending_reactivation>>

Done ==
    /\ Dispatching
    /\ im_serial < MaxDone
    /\ im_serial' = im_serial + 1
    /\ done_count' = done_count + 1
    /\ IF session
       THEN FocusIn \/ Reactivate \/ FocusOut \/ NoTransition
       ELSE UNCHANGED <<focused, engine, kb, phaseVars>>
    /\ UNCHANGED <<loopVars, session, pending_active, diverged, last_commit>>

Unavailable ==
    /\ Dispatching
    /\ kb' = Stop(kb)
    /\ UNCHANGED <<loopVars, focusVars, phaseVars, engine, diverged, serialVars>>

-----------------------------------------------------------------------------
(* Events of the keyboard grab.                                            *)

(* Duplicating the keymap's descriptor may fail, and so may compiling it.  *)
OnKeymap ==
    /\ Grabbed
    /\ \E dup, compiled \in BOOLEAN :
          kb' = [kb EXCEPT
                   !.xkb = @ \/ compiled,
                   !.vk = IF ~VkExists(kb) THEN @
                          ELSE IF dup THEN "ready" ELSE "broken",
                   !.keymap_current = @ \/ (VkExists(kb) /\ dup),
                   !.deadline = @ /\ ~VkExists(kb)]
    /\ UNCHANGED <<loopVars, focusVars, phaseVars, engine, diverged, serialVars>>

OnModifiers ==
    /\ Grabbed
    /\ \E m \in BOOLEAN :
          kb' = ForwardModifiers([kb EXCEPT !.mods = IF kb.xkb THEN m ELSE @], m)
    /\ UNCHANGED <<loopVars, focusVars, phaseVars, engine, diverged, serialVars>>

(* guard_reason of wl_keyboard.c.                                          *)
Routable == session /\ lifecycle_phase = "active" /\ focused

(* A press that passes the guard claims the generation; it may be          *)
(* forwarded, and the engine may commit text.                              *)
KeyPress ==
    /\ Grabbed /\ kb.xkb /\ Routable
    /\ \E forwarded, commits \in BOOLEAN :
          /\ kb' = [IF forwarded THEN VkGate(kb) ELSE kb EXCEPT !.owned = TRUE]
          /\ IF commits THEN Commit ELSE UNCHANGED last_commit
    /\ UNCHANGED <<loopVars, focusVars, phaseVars, engine, diverged,
                   im_serial, done_count>>

(* A streak of rejected presses outside an activation gives the keyboard   *)
(* back; the length of the streak is abstracted.                           *)
KeyRejected ==
    /\ Grabbed /\ kb.xkb /\ ~Routable
    /\ lifecycle_phase # "activating"
    /\ kb' = Stop(ReleaseGrab(kb))
    /\ UNCHANGED <<loopVars, focusVars, phaseVars, engine, diverged, serialVars>>

EmergencyExit ==
    /\ Grabbed /\ kb.xkb
    /\ kb' = Stop(ReleaseGrab(kb))
    /\ UNCHANGED <<loopVars, focusVars, phaseVars, engine, diverged, serialVars>>

-----------------------------------------------------------------------------
(* The event loop's own steps.                                             *)

(* The deadline may or may not have passed.                                *)
HealthCheck ==
    /\ Grabbed /\ kb.running
    /\ kb.vk = "needs_keymap" /\ kb.deadline
    /\ kb' = FailSafe(kb)
    /\ UNCHANGED <<loopVars, focusVars, phaseVars, engine, diverged, serialVars>>

(* Composition updates and voice results reach the chokepoint from the     *)
(* loop, whatever the phase.                                               *)
CommitText ==
    /\ Dispatching /\ session
    /\ Commit
    /\ UNCHANGED <<loopVars, focusVars, phaseVars, engine, kb, diverged,
                   im_serial, done_count>>

EngineActivated ==
    /\ Dispatching /\ ~engine
    /\ engine' = TRUE
    /\ UNCHANGED <<loopVars, focusVars, phaseVars, kb, diverged, serialVars>>

(* typio_wl_input_method_handle_resume: scrub, then rebuild the grab if it *)
(* was in use.                                                             *)
HandleResume ==
    LET was_active == focused /\ lifecycle_phase = "active"
        scrubbed == Scrub(kb, lifecycle_phase)
    IN /\ Commit
       /\ pending_reactivation' = FALSE
       /\ IF was_active /\ engine
          THEN \E ok \in BOOLEAN :
                  /\ kb' = RebuildGrab(scrubbed, "activating", ok)
                  /\ lifecycle_phase' = IF ok THEN "active" ELSE "inactive"
          ELSE /\ kb' = scrubbed
               /\ lifecycle_phase' = "inactive"

ResumeTick ==
    /\ Dispatching /\ kb.running
    /\ HandleResume
    /\ UNCHANGED <<loopVars, focusVars, engine, diverged, im_serial, done_count>>

(* What the observed resources say the phase should be.                    *)
ProjectedPhase ==
    IF ~focused THEN "inactive"
    ELSE IF kb.keyboard # "none" THEN "active" ELSE "activating"

(* Defect: no grab is taken for a legitimate passive state.                *)
AgreesWithoutGrab ==
    \/ lifecycle_phase \in {"activating", "deactivating"}
    \/ lifecycle_phase = ProjectedPhase
    \/ focused /\ kb.keyboard = "none"

Agrees ==
    \/ lifecycle_phase \in {"activating", "deactivating"}
    \/ lifecycle_phase = ProjectedPhase
    \/ focused /\ kb.keyboard = "none" /\ ~engine

ReconcileOk ==
    /\ Dispatching /\ kb.running
    /\ Agrees /\ diverged
    /\ diverged' = FALSE
    /\ UNCHANGED <<loopVars, focusVars, phaseVars, engine, kb, serialVars>>

ReconcileArm ==
    /\ Dispatching /\ kb.running
    /\ ~Agrees /\ ~diverged
    /\ diverged' = TRUE
    /\ UNCHANGED <<loopVars, focusVars, phaseVars, engine, kb, serialVars>>

(* The divergence outlived its threshold.                                  *)
ReconcileRepair ==
    /\ Dispatching /\ kb.running
    /\ ~Agrees /\ diverged
    /\ diverged' = FALSE
    /\ HandleResume
    /\ UNCHANGED <<loopVars, focusVars, engine, im_serial, done_count>>

-----------------------------------------------------------------------------
(* Losing the connection, reconnecting, stopping.                          *)

Unbind(k) ==
    [DestroyKeyboard(k) EXCEPT
        !.vk = IF VkExists(k) THEN "absent" ELSE @,
        !.deadline = @ /\ ~VkExists(k),
        !.mask = FALSE]

ConnectionLost ==
    /\ Dispatching
    /\ stage' = "backoff"
    /\ attempt' = 0
    /\ kb' = [Unbind(kb) EXCEPT !.owned = FALSE, !.carried = FALSE,
                                !.keymap_current = FALSE]
    /\ lifecycle_phase' = "inactive"
    /\ pending_reactivation' = FALSE
    /\ diverged' = FALSE
    /\ UNCHANGED <<stop_requested, focusVars, engine, serialVars>>

(* A new input method object has sent no `done` yet; the virtual keyboard  *)
(* manager may be missing, and the object may fail to be created.          *)
BindSucceeds ==
    /\ stage = "backoff" /\ kb.running /\ attempt < MaxAttempts
    /\ stage' = "bound"
    /\ done_count' = 0
    /\ \E vk \in {"absent", "null", "needs_keymap"} :
          kb' = [kb EXCEPT !.vk = vk,
                           !.deadline = @ /\ vk = "needs_keymap"]
    /\ UNCHANGED <<attempt, stop_requested, focusVars, phaseVars, engine,
                   diverged, im_serial, last_commit>>

(* Defect: one attempt too many.                                           *)
BindFailsOnceMore ==
    /\ stage = "backoff" /\ kb.running /\ attempt <= MaxAttempts
    /\ attempt' = attempt + 1
    /\ UNCHANGED <<stage, stop_requested, focusVars, phaseVars, engine, kb,
                   diverged, serialVars>>

BindFails ==
    /\ stage = "backoff" /\ kb.running /\ attempt < MaxAttempts
    /\ attempt' = attempt + 1
    /\ UNCHANGED <<stage, stop_requested, focusVars, phaseVars, engine, kb,
                   diverged, serialVars>>

(* The bind returned; reconnect sets running and the loop goes on.         *)
Reconnected ==
    /\ stage = "bound"
    /\ stage' = "run"
    /\ attempt' = 0
    /\ kb' = [kb EXCEPT !.running = TRUE]
    /\ UNCHANGED <<stop_requested, focusVars, phaseVars, engine, diverged,
                   serialVars>>

ReconnectGivesUp ==
    /\ stage = "backoff" /\ (~kb.running \/ attempt = MaxAttempts)
    /\ stage' = "exited"
    /\ kb' = Stop(kb)
    /\ UNCHANGED <<attempt, stop_requested, focusVars, phaseVars, engine,
                   diverged, serialVars>>

(* typio_daemon_signal_handler: between any two steps.                     *)
StopSignal ==
    /\ stage # "exited" /\ ~stop_requested
    /\ stop_requested' = TRUE
    /\ kb' = Stop(kb)
    /\ UNCHANGED <<stage, attempt, focusVars, phaseVars, engine, diverged,
                   serialVars>>

(* The loop sees running cleared; the frontend and its session are freed.  *)
LoopExits ==
    /\ stage = "run" /\ ~kb.running
    /\ stage' = "exited"
    /\ session' = FALSE /\ pending_active' = FALSE /\ focused' = FALSE
    /\ lifecycle_phase' = "inactive" /\ pending_reactivation' = FALSE
    /\ kb' = Unbind(kb)
    /\ UNCHANGED <<attempt, stop_requested, engine, diverged, serialVars>>

-----------------------------------------------------------------------------
Init ==
    /\ stage = "run" /\ attempt = 0 /\ stop_requested = FALSE
    /\ session = FALSE /\ pending_active = FALSE /\ focused = FALSE
    /\ lifecycle_phase = "inactive" /\ pending_reactivation = FALSE
    /\ engine \in BOOLEAN
    /\ \E vk \in {"absent", "null", "needs_keymap"} :
          kb = [running |-> TRUE, keyboard |-> "none", xkb |-> FALSE,
                mods |-> FALSE, owned |-> FALSE, carried |-> FALSE, vk |-> vk,
                keymap_current |-> FALSE, deadline |-> FALSE, mask |-> FALSE]
    /\ diverged = FALSE
    /\ im_serial = 0 /\ done_count = 0
    /\ last_commit = [serial |-> 0, dones |-> 0]

CompositorEvent ==
    \/ Activate \/ Deactivate \/ Done \/ Unavailable
    \/ OnKeymap \/ OnModifiers \/ KeyPress \/ KeyRejected \/ EmergencyExit

LoopStep ==
    \/ HealthCheck \/ CommitText \/ EngineActivated \/ ResumeTick
    \/ ReconcileOk \/ ReconcileArm \/ ReconcileRepair
    \/ LoopExits

ConnectionStep ==
    \/ ConnectionLost \/ BindSucceeds \/ BindFails \/ Reconnected
    \/ ReconnectGivesUp

Next == CompositorEvent \/ LoopStep \/ ConnectionStep \/ StopSignal

Spec == Init /\ [][Next]_vars

(* The loop wakes at least every 100 ms and ticks the reconciler on every  *)
(* turn, and a divergence that persists outlives any threshold.            *)
ReconcileTick == ReconcileOk \/ ReconcileArm \/ ReconcileRepair

(* The keymap deadline is checked, and `running` read, on every turn too.  *)
FairSpec ==
    Spec /\ WF_vars(ReconcileTick) /\ WF_vars(HealthCheck) /\ WF_vars(LoopExits)

-----------------------------------------------------------------------------
(* Safety.                                                                 *)

(* The exclusive keyboard grab is held only while a text field has focus:  *)
(* no order of activate, deactivate, done, resume, repair and reconnect    *)
(* leaves a grab object behind in an unfocused frontend (wl_input_method.c *)
(* transition_to_inactive, handle_resume, rebuild_keyboard_grab).          *)
GrabOnlyWhileFocused == kb.keyboard # "none" => session /\ focused

(* A rebuilt grab never inherits the keymap health of an earlier one: with *)
(* a grab in place the virtual keyboard is trusted only if the keymap was  *)
(* delivered in this generation (rebuild_keyboard_grab's expect_keymap).   *)
ReadyKeymapIsCurrent ==
    kb.keyboard = "grabbed" /\ kb.vk = "ready" => kb.keymap_current

(* A grab that waits for its keymap always has a deadline, so the health   *)
(* check can release it: the user is never locked behind a silent grab     *)
(* (typio_wl_vk_expect_keymap, typio_wl_vk_health_check).                  *)
WaitingGrabHasDeadline ==
    kb.keyboard = "grabbed" /\ kb.vk = "needs_keymap" /\ ~kb.keymap_current
        => kb.deadline

(* A pending reactivation belongs to a field that is focused and still     *)
(* active, so a `done` never rebuilds a grab for a field that was left     *)
(* (im_handle_activate, im_handle_deactivate, im_handle_done).             *)
ReactivationIsCurrent ==
    pending_reactivation => session /\ focused /\ pending_active

(* The phase that lets keys reach the engine is only ever declared in a    *)
(* focused context (every set_phase to ACTIVE).                            *)
ActiveOnlyWhileFocused == lifecycle_phase = "active" => focused

(* Nothing that belongs to a focused field outlives its focus: neither the *)
(* grab, nor the phase that feeds the engine, nor a reactivation that      *)
(* waits for its `done`, through resume, repair, reconnect and stop.       *)
NothingOutlivesFocus ==
    GrabOnlyWhileFocused /\ ActiveOnlyWhileFocused /\ ReactivationIsCurrent

(* The keymap gate neither opens too early nor stays shut: `ready` is of   *)
(* this generation, and a wait for the keymap has its deadline.            *)
KeymapGate == ReadyKeymapIsCurrent /\ WaitingGrabHasDeadline

(* `done` is the commit point of the protocol's double buffer: whatever    *)
(* branch im_handle_done takes, the context's focus afterwards is what the *)
(* compositor last staged, and no grab survives a field that was left.     *)
DoneCommitsFocus ==
    [][Done /\ session => /\ focused' = pending_active
                          /\ ~pending_active => kb'.keyboard = "none"]_vars

(* A resume or a repair never gives a grab to an unfocused frontend, nor   *)
(* leaves the pre-suspend generation's keymap, keys or carried modifiers   *)
(* in force, whatever phase it interrupts (typio_wl_lifecycle_on_resume).  *)
RecoveryStartsClean ==
    [][ResumeTick \/ ReconcileRepair =>
          /\ ~kb'.carried /\ ~kb'.owned /\ ~kb'.keymap_current
          /\ kb'.keyboard # "none" => focused /\ kb'.keyboard = "grabbed"]_vars

-----------------------------------------------------------------------------
(* Liveness.                                                               *)

GrabMissing ==
    stage = "run" /\ kb.running /\ focused /\ engine /\ kb.keyboard = "none"

(* An engine that becomes active after the focus came, with no grab yet,   *)
(* gets one (or the attempt fails and says so): the reconciler sees the    *)
(* ACTIVE phase without a grab (typio_wl_reconcile_tick).                  *)
ActiveWithoutGrabRecovers ==
    GrabMissing /\ lifecycle_phase = "active"
        ~> ~(GrabMissing /\ lifecycle_phase = "active")

(* The user is never locked behind a silent grab: one whose keymap never   *)
(* arrives is released or replaced (typio_wl_vk_health_check).             *)
GrabIsSilent == kb.keyboard = "grabbed" /\ kb.vk = "needs_keymap"

SilentGrabIsReleased == GrabIsSilent ~> ~GrabIsSilent

-----------------------------------------------------------------------------
(* Refinement.                                                             *)

GrabReadiness ==
    CASE kb.keyboard # "grabbed" -> "absent"
      [] kb.keyboard = "grabbed" /\ kb.vk \in {"ready", "needs_keymap"} -> kb.vk
      [] OTHER -> "broken"

Contract == INSTANCE GrabContract
            WITH focus <- focused, grab <- GrabReadiness,
                 keymap <- kb.keymap_current

(* Every handler of the frontend is one step of the grab's contract, or    *)
(* none: `ready` is always earned from the compositor in the epoch it is   *)
(* used in, and the grab ends with the focus (rebuild_keyboard_grab).      *)
GrabContractHolds == Contract!Spec

-----------------------------------------------------------------------------
(* What the comments and documents say, which the code does not do.        *)

(* "When a divergence persists, the reconciler forces a recovery (scrub +  *)
(* regrab) so the frontend converges back onto reality" (reconciler.h:17). *)
DivergenceConverges ==
    (stage = "run" /\ kb.running /\ ~Agrees)
        ~> (Agrees \/ stage # "run" \/ ~kb.running)

(* "commit serial is the count of `done` events received"                  *)
(* (wl_input_method.c:279), by the object the commit is sent to.           *)
CommitSerialIsDoneCount == last_commit.serial = last_commit.dones

(* "Honor a stop request that arrived before/while we were down."          *)
(* (wl_frontend.c:592).                                                    *)
StopIsHonoured == stop_requested => ~kb.running

(* "That carried VK modifier state is a short-lived bridge only and must   *)
(* be cleared before the next activation starts"                           *)
(* (docs/dev/maintenance.md:110).                                          *)
NoGrabOverCarriedModifiers == kb.keyboard = "grabbed" => ~kb.carried

(* "Every transition that ends a grab ... virtual-keyboard modifiers are   *)
(* reset to zero (exception below)", the exception being the carried mask  *)
(* (docs/explanation/timing-model.md:110-119).                             *)
TeardownLeavesNoModifiers == kb.keyboard = "none" /\ kb.mask => kb.carried
=============================================================================
