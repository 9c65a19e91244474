----------------------------- MODULE KeyRouting -----------------------------
(***************************************************************************)
(* The path of a key through typio's keyboard grab, and what the           *)
(* application sees of it: on_key of wl_keyboard.c, the chord arbiter      *)
(* (key_arbiter.c), the press/release router (key_route.c), per-key        *)
(* tracking (key_tracking*.h) and key repeat (keyboard_repeat.c).          *)
(*                                                                         *)
(* A grab is made and torn down by the lifecycle (InputMethodLifecycle);   *)
(* EndGrab, NewGrab, Resume and Deactivated are its effects on keys.       *)
(*                                                                         *)
(* on_key is one handler.  The calls it makes to process_key_press and     *)
(* process_key_release -- one, or a whole replayed buffer -- are queued in *)
(* `todo` and made by the actions Route*, with every other action disabled *)
(* until the queue is empty: the handler's calls in the handler's order.   *)
(*                                                                         *)
(* Abstractions.  One key per modifier.  What an engine answers, whether   *)
(* the basic engine's printable keys are forwarded and whether voice is    *)
(* available may change between any two events.  RELEASED_PENDING is set   *)
(* and cleared within one teardown, so no handler ever meets it.           *)
(***************************************************************************)
EXTENDS Naturals, Sequences, FiniteSets

CONSTANTS
    Keys,
    Modifiers,    \* modifier keys
    Blocking,     \* Ctrl, Alt, Super: modifiers that make an app shortcut
    Chord,        \* shortcuts.switch_engine, Ctrl+Shift by default
    NavKeys,      \* arrow keys
    EnterKeys,    \* Return, whose release is cleaned up after any grab
    PttKeys,      \* shortcuts.voice_ptt bound without a modifier
    MaxBuffered   \* TYPIO_ARBITER_MAX_BUFFERED, 8 in the code

ASSUME KeysAssumption ==
    /\ Modifiers \subseteq Keys /\ Blocking \subseteq Modifiers
    /\ Chord \subseteq Modifiers /\ Chord # {}
    /\ NavKeys \cup EnterKeys \subseteq Keys \ Modifiers
    /\ PttKeys \subseteq Keys \ Modifiers
    /\ MaxBuffered \in Nat \ {0}

VARIABLES
    held,       \* keys physically down
    mods_due,   \* the compositor owes a modifiers event
    stale,      \* keys down before the grab, which it may yet be sent
    suspended,  \* history: keys down since before the last resume
    stopped,    \* typio_wl_frontend_stop was called
    live,       \* frontend->keyboard exists
    routable,   \* guard_reason is null: ACTIVE phase, focused context
    vk,         \* virtual_keyboard_state
    xkb,        \* keyboard->xkb_state exists
    xkbmods,    \* its effective modifiers, none when it does not exist
    window,     \* within the startup guard's dispatch epochs
    suppress,   \* suppress_stale_keys
    saw,        \* saw_blocking_modifier
    phys,       \* physical_modifiers
    owned,      \* active_generation_owned_keys
    track,      \* key_states
    own,        \* keys whose generation is the active one
    buffer,     \* the arbiter's buffer; BUFFERING iff it is not empty
    todo,       \* events on_key has yet to hand to the router
    repeat,     \* repeat_key while `repeating`, or NoKey
    app,        \* keys the application believes down, by the virtual keyboard
    recording   \* the voice session records

envVars   == <<held, mods_due, stale, suspended>>
grabVars  == <<live, routable, vk>>
xkbVars   == <<xkb, xkbmods, saw>>
guardVars == <<window, suppress>>
ownVars   == <<owned, own, track>>
vars == <<envVars, stopped, grabVars, xkbVars, guardVars, phys, ownVars,
          buffer, todo, repeat, app, recording>>

NoKey == "no key"

TrackStates == {"idle", "forwarded", "basic_passthrough", "app_shortcut",
                "suppressed_startup", "voice_ptt", "voice_ptt_unavail"}

(* The states of keys whose press was sent to the application.             *)
SentStates == {"forwarded", "basic_passthrough", "app_shortcut"}

Events == [press : BOOLEAN, key : Keys, mods : SUBSET Modifiers]

(* The arbiter's buffer never outgrows its array (arbiter_buffer_push), and *)
(* every variable has its type.                                            *)
TypeOK ==
    /\ held \subseteq Keys /\ mods_due \in BOOLEAN /\ stale \subseteq held
    /\ suspended \subseteq held
    /\ stopped \in BOOLEAN
    /\ live \in BOOLEAN /\ routable \in BOOLEAN
    /\ vk \in {"absent", "needs_keymap", "ready", "broken"}
    /\ xkb \in BOOLEAN /\ xkbmods \subseteq Modifiers
    /\ saw \in BOOLEAN /\ window \in BOOLEAN /\ suppress \in BOOLEAN
    /\ phys \subseteq Modifiers
    /\ owned \in BOOLEAN /\ own \subseteq Keys
    /\ track \in [Keys -> TrackStates]
    /\ buffer \in Seq(Events) /\ Len(buffer) <= MaxBuffered
    /\ todo \in Seq(Events)
    /\ repeat \in Keys \cup {NoKey}
    /\ app \subseteq Keys
    /\ recording \in BOOLEAN

-----------------------------------------------------------------------------
(* The virtual keyboard.  A broken one stops the frontend.                 *)
Forward(k, press) ==
    /\ app' = CASE vk = "ready" /\ press  -> app \cup {k}
                [] vk = "ready" /\ ~press -> app \ {k}
                [] OTHER -> app
    /\ stopped' = (stopped \/ vk = "broken")

ForwardsNothing == UNCHANGED <<app, stopped>>

Suppressed(t) == {k \in Keys : t[k] = "suppressed_startup"}

ClearTracking(k) ==
    /\ track' = [track EXCEPT ![k] = "idle"]
    /\ own' = own \ {k}
    /\ UNCHANGED owned

(* Defect: the press is routed but its generation is not recorded.          *)
ClaimWithoutGeneration(k) == own' = own /\ owned' = TRUE

Claim(k) == own' = own \cup {k} /\ owned' = TRUE

-----------------------------------------------------------------------------
(* The arbiter.                                                            *)

(* modifier_policy.c: a generation that owns keys trusts its own view of   *)
(* the modifiers; the current key counts as already pressed or released.   *)
EffectiveModifiers(k, press) ==
    LET known == phys \cup (IF owned THEN {} ELSE xkbmods \cap Blocking)
    IN IF press THEN known \cup ({k} \cap Modifiers) ELSE known \ {k}

StartsBuffering(k, p) == k \in Chord /\ p = Chord

CancelsBuffering(e, p) == (e.press /\ e.key \notin Chord) \/ ~(p \subseteq Chord)

(* A full buffer drops what is pushed.                                     *)
Push(e) == IF Len(buffer) < MaxBuffered THEN Append(buffer, e) ELSE buffer

Replay(e) == todo' = Append(buffer, e) /\ buffer' = <<>>

(* Keys forwarded before the chord began and released during it.           *)
Orphans(b) ==
    {k \in Keys : /\ track[k] = "forwarded"
                  /\ \E i \in 1..Len(b) : ~b[i].press /\ b[i].key = k}

ArbiterPress(e, p) ==
    /\ IF buffer = <<>>
       THEN IF StartsBuffering(e.key, p)
            THEN buffer' = <<e>> /\ UNCHANGED todo
            ELSE todo' = <<e>> /\ UNCHANGED buffer
       ELSE IF CancelsBuffering(e, p) \/ Len(buffer) >= MaxBuffered - 1
            THEN Replay(e)
            ELSE buffer' = Push(e) /\ UNCHANGED todo
    /\ UNCHANGED <<ownVars, app, stopped>>

(* Defect: the keys sent before the chord are forgotten, not released.     *)
ConsumeForgetsOrphans(b) ==
    /\ track' = [k \in Keys |-> IF k \in Orphans(b) THEN "idle" ELSE track[k]]
    /\ own' = own \ Orphans(b)
    /\ buffer' = <<>>
    /\ UNCHANGED <<owned, todo, app, stopped>>

(* The chord is complete: the engine is switched, the buffer forgotten.    *)
Consume(b) ==
    LET orphans == Orphans(b)
    IN /\ app' = IF vk = "ready" THEN app \ orphans ELSE app
       /\ stopped' = (stopped \/ (vk = "broken" /\ orphans # {}))
       /\ track' = [k \in Keys |-> IF k \in orphans THEN "idle" ELSE track[k]]
       /\ own' = own \ orphans
       /\ buffer' = <<>>
       /\ UNCHANGED <<owned, todo>>

(* Defect: the end of the chord goes unnoticed.                            *)
ArbiterReleaseNeverCompletes(e, p) ==
    /\ IF buffer = <<>> \/ CancelsBuffering(e, p)
       THEN Replay(e)
       ELSE buffer' = Push(e) /\ UNCHANGED todo
    /\ UNCHANGED <<ownVars, app, stopped>>

ArbiterRelease(e, p) ==
    \/ /\ buffer = <<>>
       /\ todo' = <<e>>
       /\ UNCHANGED <<buffer, ownVars, app, stopped>>
    \/ /\ buffer # <<>> /\ CancelsBuffering(e, p)
       /\ Replay(e)
       /\ UNCHANGED <<ownVars, app, stopped>>
    \/ /\ buffer # <<>> /\ ~CancelsBuffering(e, p)
       /\ IF p \cap Chord = {}
          THEN Consume(Push(e))
          ELSE buffer' = Push(e) /\ UNCHANGED <<todo, ownVars, app, stopped>>

-----------------------------------------------------------------------------
(* on_key: guard, physical modifiers, arbiter.                             *)

(* Defect: a release that is not routed does not stop the repeat.          *)
KeepsRepeatOnReject(k, press) == UNCHANGED repeat

StopsRepeatOnReject(k, press) ==
    repeat' = IF ~press /\ repeat = k THEN NoKey ELSE repeat

RejectKey(k, press) ==
    /\ StopsRepeatOnReject(k, press)
    /\ UNCHANGED <<phys, ownVars, buffer, todo, app, stopped>>

DispatchKey(k, press) ==
    LET e == [press |-> press, key |-> k,
              mods |-> EffectiveModifiers(k, press)]
        p == IF press THEN phys \cup ({k} \cap Modifiers) ELSE phys \ {k}
    IN /\ phys' = p
       /\ IF press THEN ArbiterPress(e, p) ELSE ArbiterRelease(e, p)
       /\ UNCHANGED repeat

OnKey(k, press) ==
    /\ IF xkb /\ routable
       THEN DispatchKey(k, press)
       ELSE IF xkb THEN RejectKey(k, press)
       ELSE UNCHANGED <<phys, ownVars, buffer, todo, repeat, app, stopped>>
    /\ UNCHANGED <<grabVars, xkbVars, guardVars, recording>>

Ready == ~stopped /\ todo = <<>>

(* The user presses and releases keys, with or without a grab; the         *)
(* compositor follows a modifier key with a modifiers event.               *)
KeyMoves(k, press) ==
    /\ Ready /\ ~mods_due
    /\ mods_due' = (live /\ k \in Modifiers)
    /\ stale' = {}
    /\ IF live THEN OnKey(k, press)
       ELSE UNCHANGED <<stopped, grabVars, xkbVars, guardVars, phys, ownVars,
                        buffer, todo, repeat, app, recording>>

PressKey(k) ==
    /\ k \notin held
    /\ held' = held \cup {k}
    /\ UNCHANGED suspended
    /\ KeyMoves(k, TRUE)

ReleaseKey(k) ==
    /\ k \in held
    /\ held' = held \ {k}
    /\ suspended' = suspended \ {k}
    /\ KeyMoves(k, FALSE)

(* A new grab may be sent the keys that were already down, before others.  *)
ResendKey(k) ==
    /\ Ready /\ ~mods_due /\ k \in stale
    /\ stale' = stale \ {k}
    /\ OnKey(k, TRUE)
    /\ UNCHANGED <<held, mods_due, suspended>>

-----------------------------------------------------------------------------
(* The router.                                                             *)

StartsRepeat(e) == e.key \notin Modifiers /\ e.mods \cap Blocking = {}

(* process_key_press: route, then perhaps start the repeat timer.          *)
RepeatAfterPress(e) ==
    repeat' = IF track'[e.key] # "suppressed_startup" /\ StartsRepeat(e)
              THEN e.key ELSE repeat

(* A key that is down, or suppressed, keeps the route it has.              *)
RouteLatchedPress(e) ==
    /\ track[e.key] \in {"suppressed_startup", "app_shortcut", "forwarded"}
    /\ IF \/ track[e.key] = "forwarded"
          \/ track[e.key] = "app_shortcut" /\ phys \cap Blocking # {}
       THEN Forward(e.key, TRUE) ELSE ForwardsNothing
    /\ UNCHANGED <<ownVars, suppress, recording>>

IsNewPress(e) ==
    track[e.key] \in {"idle", "basic_passthrough", "voice_ptt",
                      "voice_ptt_unavail"}

RouteSuppressedPress(e) ==
    /\ IsNewPress(e) /\ suppress /\ window
    /\ Claim(e.key)
    /\ track' = [track EXCEPT ![e.key] = "suppressed_startup"]
    /\ ForwardsNothing
    /\ UNCHANGED <<suppress, recording>>

(* A press that the startup guard lets through; with the window elapsed    *)
(* and no suppressed key down, the guard retires.                          *)
Admits(e) ==
    /\ IsNewPress(e) /\ ~(suppress /\ window)
    /\ Claim(e.key)
    /\ suppress' = (suppress /\ Suppressed(track) # {})

RoutePttPress(e) ==
    /\ Admits(e) /\ e.key \in PttKeys
    /\ \/ /\ track' = [track EXCEPT ![e.key] = "voice_ptt"]
          /\ recording' \in {recording, TRUE}
       \/ /\ track' = [track EXCEPT ![e.key] = "voice_ptt_unavail"]
          /\ UNCHANGED recording
    /\ ForwardsNothing

RouteSentPress(e, state) ==
    /\ Admits(e) /\ e.key \notin PttKeys
    /\ Forward(e.key, TRUE)
    /\ track' = [track EXCEPT ![e.key] = state]
    /\ UNCHANGED recording

IsAppShortcut(e) == e.key \notin Modifiers /\ e.mods \cap Blocking # {}

RouteShortcutPress(e) == IsAppShortcut(e) /\ RouteSentPress(e, "app_shortcut")

RouteBasicPress(e) ==
    /\ e.key \notin Modifiers \cup NavKeys \cup EnterKeys
    /\ e.mods \cap Blocking = {}
    /\ RouteSentPress(e, "basic_passthrough")

(* The engine sees the key; modifiers are forwarded even when handled.     *)
RouteUnhandledPress(e) ==
    ~IsAppShortcut(e) /\ RouteSentPress(e, "forwarded")

RouteConsumedPress(e) ==
    /\ ~IsAppShortcut(e) /\ e.key \notin Modifiers
    /\ Admits(e) /\ e.key \notin PttKeys
    /\ ForwardsNothing
    /\ UNCHANGED <<track, recording>>

RoutePress ==
    /\ ~stopped /\ todo # <<>> /\ Head(todo).press
    /\ todo' = Tail(todo)
    /\ LET e == Head(todo)
       IN /\ \/ RouteLatchedPress(e) \/ RouteSuppressedPress(e)
             \/ RoutePttPress(e) \/ RouteShortcutPress(e) \/ RouteBasicPress(e)
             \/ RouteUnhandledPress(e) \/ RouteConsumedPress(e)
          /\ RepeatAfterPress(e)
    /\ UNCHANGED <<envVars, grabVars, xkbVars, window, phys, buffer>>

RouteSuppressedRelease(k) ==
    /\ track[k] = "suppressed_startup"
    /\ suppress' = (suppress /\ Suppressed(track) # {k})
    /\ Forward(k, FALSE)
    /\ UNCHANGED recording

RouteShortcutOrBasicRelease(k) ==
    /\ track[k] \in {"app_shortcut", "basic_passthrough"}
    /\ Forward(k, FALSE)
    /\ UNCHANGED <<suppress, recording>>

(* An arrow key's release is taken by a candidate list that is showing.    *)
RouteForwardedRelease(k) ==
    /\ track[k] = "forwarded"
    /\ Forward(k, FALSE) \/ (k \in NavKeys /\ ForwardsNothing)
    /\ UNCHANGED <<suppress, recording>>

RoutePttRelease(k) ==
    /\ track[k] \in {"voice_ptt", "voice_ptt_unavail"}
    /\ recording' = (recording /\ track[k] # "voice_ptt")
    /\ ForwardsNothing
    /\ UNCHANGED suppress

(* A release whose press this generation never saw.                        *)
RouteOrphanRelease(e) ==
    /\ track[e.key] = "idle" /\ e.key \notin own
    /\ IF e.key \notin Modifiers /\ 
           /\ (window \/ saw \/ e.key \in EnterKeys \/ e.mods \cap Blocking # {})
       THEN Forward(e.key, FALSE) ELSE ForwardsNothing
    /\ UNCHANGED <<suppress, recording>>

RouteConsumedRelease(k) ==
    /\ track[k] = "idle" /\ k \in own
    /\ suppress' = (suppress /\ Suppressed(track) # {})
    /\ ForwardsNothing
    /\ UNCHANGED recording

RouteRelease ==
    /\ ~stopped /\ todo # <<>> /\ ~Head(todo).press
    /\ todo' = Tail(todo)
    /\ LET k == Head(todo).key
       IN /\ repeat' = IF repeat = k THEN NoKey ELSE repeat
          /\ \/ RouteSuppressedRelease(k) \/ RouteShortcutOrBasicRelease(k)
             \/ RouteForwardedRelease(k) \/ RoutePttRelease(k)
             \/ RouteOrphanRelease(Head(todo)) \/ RouteConsumedRelease(k)
          /\ ClearTracking(k)
    /\ UNCHANGED <<envVars, grabVars, xkbVars, window, phys, buffer>>

-----------------------------------------------------------------------------
(* Key repeat.  A modifier key and the modifiers event that follows it are *)
(* read in one dispatch, before the loop looks at the repeat timer.        *)

RepeatSentKey ==
    /\ track[repeat] \in SentStates
    /\ IF track[repeat] = "app_shortcut" /\ phys \cap Blocking = {}
       THEN repeat' = NoKey /\ ForwardsNothing
       ELSE Forward(repeat, TRUE) /\ UNCHANGED repeat
    /\ UNCHANGED track

RepeatSuppressedKey ==
    /\ track[repeat] = "suppressed_startup"
    /\ repeat' = NoKey
    /\ ForwardsNothing
    /\ UNCHANGED track

(* The engine sees the repeat, and the application what it does not take.  *)
RepeatEngineKey ==
    /\ track[repeat] \in {"idle", "voice_ptt", "voice_ptt_unavail"}
    /\ \/ ForwardsNothing /\ UNCHANGED track
       \/ /\ Forward(repeat, TRUE)
          /\ track' = [track EXCEPT ![repeat] = "forwarded"]
    /\ UNCHANGED repeat

DispatchRepeat ==
    /\ Ready /\ live /\ ~mods_due /\ repeat # NoKey
    /\ IF routable /\ xkb
       THEN RepeatSentKey \/ RepeatSuppressedKey \/ RepeatEngineKey
       ELSE repeat' = NoKey /\ ForwardsNothing /\ UNCHANGED track
    /\ UNCHANGED <<envVars, grabVars, xkbVars, guardVars, phys, owned, own,
                   buffer, todo, recording>>

-----------------------------------------------------------------------------
(* The other events of the grab.                                           *)

(* Copying the keymap's descriptor may fail, and so may compiling it; the  *)
(* compositor follows a keymap with the state of the modifiers.            *)
OnKeymap ==
    /\ Ready /\ live /\ ~mods_due
    /\ mods_due' = TRUE
    /\ \/ UNCHANGED <<xkb, xkbmods>>
       \/ xkb' = TRUE /\ xkbmods' = {}
    /\ vk' \in IF vk = "absent" THEN {vk} ELSE {"ready", "broken"}
    /\ UNCHANGED <<held, stale, suspended, stopped, live, routable, saw, guardVars, phys,
                   ownVars, buffer, todo, repeat, app, recording>>

OnModifiers ==
    /\ Ready /\ live
    /\ mods_due' = FALSE
    /\ xkbmods' = IF xkb THEN held \cap Modifiers ELSE {}
    /\ saw' = (saw \/ xkbmods' \cap Blocking # {})
    /\ repeat' = IF xkbmods \cap Blocking # xkbmods' \cap Blocking
                 THEN NoKey ELSE repeat
    /\ stopped' = (vk = "broken")
    /\ UNCHANGED <<held, stale, suspended, grabVars, xkb, guardVars, phys,
                   ownVars, buffer, todo, app, recording>>

(* Two dispatch epochs after the grab was created.                         *)
WindowElapses ==
    /\ Ready /\ live /\ window
    /\ window' = FALSE /\ stale' = {}
    /\ UNCHANGED <<held, mods_due, suspended, stopped, grabVars, xkbVars, suppress, phys,
                   ownVars, buffer, todo, repeat, app, recording>>

-----------------------------------------------------------------------------
(* The lifecycle's effects on keys.                                        *)

(* Defect: one of the three ways of having been sent.                      *)
ReleasesForwardedOnly == {k \in Keys : track[k] = "forwarded"}

ReleasedAtTeardown == {k \in Keys : track[k] \in SentStates}

(* Teardown: sent keys are released, and everything the grab knew is gone. *)
HardReset ==
    /\ app' = IF vk \in {"absent", "broken"} THEN app
              ELSE app \ ReleasedAtTeardown
    /\ track' = [k \in Keys |-> "idle"]
    /\ own' = {} /\ owned' = FALSE
    /\ buffer' = <<>> /\ repeat' = NoKey
    /\ phys' = {} /\ saw' = FALSE
    /\ xkb' = FALSE /\ xkbmods' = {}

EndGrab ==
    /\ Ready /\ live
    /\ HardReset
    /\ stopped' = (vk = "broken" /\ owned)
    /\ live' = FALSE /\ routable' = FALSE
    /\ mods_due' = FALSE /\ stale' = {}
    /\ UNCHANGED <<held, suspended, vk, guardVars, todo, recording>>

(* rebuild_keyboard_grab; stale keys are suppressed only if a grab existed *)
(* up to now, and a resume has destroyed it before it rebuilds one.        *)
RebuildGrab(suppresses) ==
    /\ HardReset
    /\ live' = TRUE /\ routable' = TRUE
    /\ mods_due' = FALSE /\ stale' = held
    /\ vk' = IF vk = "absent" THEN vk ELSE "needs_keymap"
    /\ window' = TRUE /\ suppress' = suppresses
    /\ UNCHANGED <<held, todo, recording>>

NewGrab ==
    /\ Ready
    /\ RebuildGrab(live)
    /\ stopped' = (vk = "broken" /\ owned)
    /\ suspended' = {}

Resume ==
    /\ Ready /\ live /\ routable
    /\ RebuildGrab(FALSE)
    /\ stopped' = (vk = "broken")
    /\ suspended' = held

(* im_handle_deactivate, before the `done` that tears the grab down.       *)
Deactivated ==
    /\ Ready /\ live /\ routable
    /\ routable' = FALSE
    /\ UNCHANGED <<envVars, stopped, live, vk, xkbVars, guardVars, phys,
                   ownVars, buffer, todo, repeat, app, recording>>

-----------------------------------------------------------------------------
Init ==
    /\ held = {} /\ mods_due = FALSE /\ stale = {} /\ suspended = {}
    /\ stopped = FALSE
    /\ live = FALSE /\ routable = FALSE
    /\ vk \in {"absent", "needs_keymap"}
    /\ xkb = FALSE /\ xkbmods = {} /\ saw = FALSE /\ window = FALSE /\ suppress = FALSE
    /\ phys = {} /\ owned = FALSE /\ own = {}
    /\ track = [k \in Keys |-> "idle"]
    /\ buffer = <<>> /\ todo = <<>> /\ repeat = NoKey
    /\ app = {} /\ recording = FALSE

Next ==
    \/ \E k \in Keys : PressKey(k) \/ ReleaseKey(k) \/ ResendKey(k)
    \/ RoutePress \/ RouteRelease \/ DispatchRepeat
    \/ OnKeymap \/ OnModifiers \/ WindowElapses
    \/ EndGrab \/ NewGrab \/ Resume \/ Deactivated

Spec == Init /\ [][Next]_vars

-----------------------------------------------------------------------------
(* Safety.                                                                 *)

(* A key the application believes down is one this grab's tracking knows   *)
(* it sent, under the current generation: teardown releases exactly those, *)
(* so no key outlives the grab in the application (key_route.c,            *)
(* release_forwarded_keys).  Arrow keys are excepted: see                  *)
(* ReleaseFollowsPress.                                                    *)
DownKeysAreTracked ==
    \A k \in app \ NavKeys :
        stopped \/ (live /\ track[k] \in SentStates /\ k \in own)

(* Whatever typio remembers of a key, it remembers of a key pressed in the *)
(* grab that is live: no tracking leaks from one grab, or one chord, into  *)
(* the next press of the same key (key_claim_current_generation,           *)
(* tracking_reset, arbiter_release_orphaned_keys).                         *)
TrackedKeysAreOwned ==
    \A k \in Keys : track[k] # "idle" => live /\ owned /\ k \in own

(* The tracking tells the truth both ways: no key is down in the           *)
(* application that it does not know, and it knows no key of another grab. *)
TrackingIsTrue == DownKeysAreTracked /\ TrackedKeysAreOwned

(* The release of k waits in the arbiter's buffer.                         *)
ReleaseIsBuffered(k) ==
    \E i \in 1..Len(buffer) : ~buffer[i].press /\ buffer[i].key = k

(* A key repeats only while it is physically down, or its release waits    *)
(* in the arbiter: no route, rejection, finished chord or modifier change  *)
(* leaves the repeat timer running (process_key_release, on_key,           *)
(* on_modifiers, arbiter_consume, keyboard_repeat.c).  Said of a chord     *)
(* that cannot fill the buffer: a full one drops the release               *)
(* (arbiter_buffer_push), and the key repeats until another event.         *)
RepeatingKeyIsHeld ==
    todo = <<>> /\ ~mods_due /\ repeat # NoKey =>
        repeat \in held \/ ReleaseIsBuffered(repeat)

(* The arbiter buffers only while a key of the chord is down and never     *)
(* past its array, so the keyboard is never wedged in BUFFERING            *)
(* (arbiter_chord_complete, arbiter_buffer_push).                          *)
BufferingEndsWithChord ==
    /\ Len(buffer) <= MaxBuffered
    /\ routable /\ buffer # <<>> => held \cap Chord # {}

(* Whatever ends a grab, the application is left with no key down that     *)
(* typio pressed (typio_wl_vk_release_forwarded_keys).                     *)
TeardownReleasesKeys ==
    [][EndGrab \/ NewGrab \/ Resume => app' \subseteq NavKeys \/ stopped']_vars

-----------------------------------------------------------------------------
(* What the comments and documents say, which the code does not do.        *)

(* "physical modifier state must be resynchronized from XKB on modifier     *)
(* updates so later shortcuts still inherit the held modifier"             *)
(* (docs/dev/maintenance.md:184): a key pressed under a held Ctrl, Alt or  *)
(* Super never reaches the application as plain text.                      *)
HeldModifierMakesShortcut ==
    [][\A k \in Keys :
          track[k] # "basic_passthrough" /\ track'[k] = "basic_passthrough"
              => held \cap Blocking = {}]_vars

(* "every forwarded key press must eventually produce exactly one          *)
(* forwarded release" (docs/dev/maintenance.md:15): a key that is up is up *)
(* for the application too, unless its release waits in the arbiter.       *)
ReleaseFollowsPress ==
    Ready /\ routable =>
        \A k \in app : k \in held \/ ReleaseIsBuffered(k)

(* "Bump the key generation so any stale key event the compositor          *)
(* re-delivers from before the suspend is fenced out at the routing        *)
(* boundary" (lifecycle.c:147): a key held since before a resume is not    *)
(* pressed in the application by the grab rebuilt after it.                *)
ResumeFencesStaleKeys == app \cap suspended = {}

(* "voice tracking states are internal consume paths and must not leak VK  *)
(* events" (docs/dev/maintenance.md:72).                                   *)
PttKeyStaysInternal == app \cap PttKeys = {}
=============================================================================
