-------------------------- MODULE KeyRoutingProofs --------------------------
(***************************************************************************)
(* Proofs about the path of a key, for every set of keys and modifiers,    *)
(* every chord and every size of the arbiter's buffer.                     *)
(***************************************************************************)
EXTENDS KeyRouting, TLAPS

(* The default chord is Ctrl+Shift; any chord with Ctrl, Alt or Super will *)
(* do.  Without it the theorems about tracking are false: a chord of Shift *)
(* alone releases a repeating key and leaves its repeat running, because   *)
(* only a change of these modifiers stops it (arbiter_consume,             *)
(* on_modifiers).                                                          *)
ChordBlocks == Chord \cap Blocking # {}

(* What exists only within a grab, and what the compositor has told it.    *)
GrabInv ==
    /\ xkb \/ routable \/ mods_due \/ stale # {} => live
    /\ todo # <<>> \/ phys # {} \/ buffer # <<>> \/ repeat # NoKey => xkb
    /\ todo # <<>> => buffer = <<>>
    /\ routable => phys \subseteq held
    /\ buffer # <<>> => phys \cap Chord # {}
    /\ xkb /\ ~mods_due => xkbmods = held \cap Modifiers

(* Under the startup guard every press is suppressed, and a key of         *)
(* push-to-talk is never left to the application.                          *)
GuardInv ==
    /\ suppress /\ window =>
           repeat = NoKey /\ \A k \in Keys : track[k] \in {"idle", "suppressed_startup"}
    /\ \A k \in PttKeys : track[k] # "basic_passthrough"

(* The modifiers event that is due will stop the repeat.                   *)
RepeatEnds == mods_due /\ xkbmods \cap Blocking # held \cap Blocking

(* A key repeats within the generation that owns it, or about to stop;     *)
(* and the chord it repeats under is still held down to the modifiers      *)
(* whose release stops it.                                                 *)
RepeatInv ==
    repeat # NoKey =>
        /\ (owned /\ repeat \in own) \/ RepeatEnds
        /\ buffer # <<>> => Chord \cap Blocking \subseteq phys \/ RepeatEnds

(* A key down in the application was sent by a keyboard that works, or did.*)
SentInv ==
    /\ DownKeysAreTracked
    /\ app \ NavKeys # {} => stopped \/ vk \in {"ready", "broken"}

(* The inductive invariant.                                                *)
IInv == TypeOK /\ GrabInv /\ GuardInv /\ TrackedKeysAreOwned /\ RepeatInv /\ SentInv

-----------------------------------------------------------------------------
(* What on_key does of a key, in four words.                               *)

PhysAfter(k, press) ==
    IF press THEN phys \cup ({k} \cap Modifiers) ELSE phys \ {k}

(* It is dropped, for want of a keymap or of a focused context.            *)
Drops ==
    /\ ~(xkb /\ routable)
    /\ repeat' \in {repeat, NoKey}
    /\ UNCHANGED <<phys, ownVars, buffer, todo, app, stopped>>

(* It goes to the router, after what the arbiter had kept.                 *)
Routes(k, press) ==
    /\ phys' = PhysAfter(k, press)
    /\ buffer' = <<>> /\ todo' \in Seq(Events)
    /\ UNCHANGED <<ownVars, app, stopped, repeat>>

(* The arbiter keeps it.                                                   *)
Buffers(k, press) ==
    /\ phys' = PhysAfter(k, press)
    /\ phys' \cap Chord # {}
    /\ buffer = <<>> => press /\ phys' = Chord
    /\ buffer' \in Seq(Events) /\ Len(buffer') <= MaxBuffered
    /\ UNCHANGED <<todo, ownVars, app, stopped, repeat>>

(* It is the last of the chord.                                            *)
Completes(k, press) ==
    /\ ~press /\ buffer # <<>>
    /\ phys' = {} /\ phys \subseteq {k}
    /\ \E b \in Seq(Events) : Consume(b)
    /\ UNCHANGED repeat

KeyEvent(k, press) ==
    /\ \/ Drops
       \/ /\ xkb /\ routable
          /\ Routes(k, press) \/ Buffers(k, press) \/ Completes(k, press)
    /\ UNCHANGED <<grabVars, xkbVars, guardVars, recording>>

(* Dispatching a key is one of these (typio_wl_key_arbiter_process).       *)
LEMMA DispatchCases ==
    ASSUME TypeOK, GrabInv, NEW k \in Keys, NEW press \in BOOLEAN,
           DispatchKey(k, press)
    PROVE  Routes(k, press) \/ Buffers(k, press) \/ Completes(k, press)
<1> DEFINE e == [press |-> press, key |-> k,
                 mods |-> EffectiveModifiers(k, press)]
           p == PhysAfter(k, press)
<1>1. EffectiveModifiers(k, press) \subseteq Modifiers
  BY KeysAssumption DEF EffectiveModifiers, TypeOK
<1>2. e \in Events
  BY <1>1 DEF Events
<1>3. /\ Append(buffer, e) \in Seq(Events)
      /\ Append(buffer, e) # <<>>
      /\ Len(Append(buffer, e)) = Len(buffer) + 1
      /\ buffer \in Seq(Events) /\ Len(buffer) \in Nat
      /\ Len(buffer) <= MaxBuffered
  BY <1>2 DEF TypeOK
<1>4. /\ phys' = p
      /\ IF press THEN ArbiterPress(e, p) ELSE ArbiterRelease(e, p)
      /\ UNCHANGED repeat
  BY DEF DispatchKey, PhysAfter
<1>5. Push(e) \in Seq(Events) /\ Len(Push(e)) <= MaxBuffered
  BY <1>3, KeysAssumption DEF Push
<1>6. p \subseteq Modifiers
  BY DEF PhysAfter, TypeOK
<1>7. e.key = k
  OBVIOUS
<1> HIDE DEF e
<1>8. CASE press
  <2>1. ArbiterPress(e, p)
    BY <1>4, <1>8
  <2>2. CASE buffer = <<>>
    <3>1. CASE StartsBuffering(e.key, p)
      <4>1. buffer' = <<e>> /\ UNCHANGED <<todo, ownVars, app, stopped, repeat>>
        BY <1>4, <2>1, <2>2, <3>1 DEF ArbiterPress
      <4>2. <<e>> \in Seq(Events) /\ Len(<<e>>) = 1 /\ <<e>> # <<>>
        BY <1>2
      <4>3. p = Chord /\ p \cap Chord # {}
        BY <3>1, KeysAssumption DEF StartsBuffering
      <4>4. buffer' \in Seq(Events) /\ Len(buffer') <= MaxBuffered
        BY <4>1, <4>2, KeysAssumption
      <4> QED
        BY <1>4, <1>8, <4>1, <4>3, <4>4 DEF Buffers
    <3>2. CASE ~StartsBuffering(e.key, p)
      <4>1. todo' = <<e>> /\ buffer' = <<>> /\ UNCHANGED <<ownVars, app, stopped, repeat>>
        BY <1>4, <2>1, <2>2, <3>2 DEF ArbiterPress
      <4> QED
        BY <1>2, <1>4, <4>1 DEF Routes
    <3> QED
      BY <3>1, <3>2
  <2>3. CASE buffer # <<>>
    <3>1. CASE CancelsBuffering(e, p) \/ Len(buffer) >= MaxBuffered - 1
      <4>1. /\ todo' = Append(buffer, e) /\ buffer' = <<>>
            /\ UNCHANGED <<ownVars, app, stopped, repeat>>
        BY <1>4, <2>1, <2>3, <3>1 DEF ArbiterPress, Replay
      <4> QED
        BY <1>3, <1>4, <4>1 DEF Routes
    <3>2. CASE ~(CancelsBuffering(e, p) \/ Len(buffer) >= MaxBuffered - 1)
      <4>1. buffer' = Push(e) /\ UNCHANGED <<todo, ownVars, app, stopped, repeat>>
        BY <1>4, <2>1, <2>3, <3>2 DEF ArbiterPress
      <4>2. phys \subseteq p
        BY <1>8 DEF PhysAfter
      <4>3. p \cap Chord # {}
        BY <2>3, <4>2 DEF GrabInv
      <4> QED
        BY <1>4, <1>5, <2>3, <4>1, <4>3 DEF Buffers
    <3> QED
      BY <3>1, <3>2
  <2> QED
    BY <2>2, <2>3
<1>9. CASE ~press
  <2>1. ArbiterRelease(e, p)
    BY <1>4, <1>9
  <2>2. CASE buffer = <<>> /\ todo' = <<e>> /\ UNCHANGED <<buffer, ownVars, app, stopped>>
    BY <1>2, <1>4, <2>2 DEF Routes
  <2>3. CASE Replay(e) /\ UNCHANGED <<ownVars, app, stopped>>
    BY <1>3, <1>4, <2>3 DEF Routes, Replay
  <2>4. CASE /\ buffer # <<>> /\ ~CancelsBuffering(e, p)
             /\ IF p \cap Chord = {}
                THEN Consume(Push(e))
                ELSE buffer' = Push(e) /\ UNCHANGED <<todo, ownVars, app, stopped>>
    <3>1. p \subseteq Chord
      BY <2>4 DEF CancelsBuffering
    <3>2. CASE p \cap Chord = {}
      <4>1. p = {}
        BY <3>1, <3>2
      <4>2. phys \subseteq {k}
        BY <1>9, <4>1 DEF PhysAfter
      <4> QED
        BY <1>4, <1>5, <1>9, <2>4, <3>2, <4>1, <4>2 DEF Completes
    <3>3. CASE p \cap Chord # {}
      BY <1>4, <1>5, <2>4, <3>3 DEF Buffers
    <3> QED
      BY <3>2, <3>3
  <2> QED
    BY <2>1, <2>2, <2>3, <2>4 DEF ArbiterRelease
<1> QED
  BY <1>8, <1>9

(* So is handling one, with or without a grab.                             *)
LEMMA KeyCases ==
    ASSUME TypeOK, GrabInv, NEW k \in Keys, NEW press \in BOOLEAN,
           KeyMoves(k, press) \/ (ResendKey(k) /\ press = TRUE)
    PROVE  KeyEvent(k, press)
<1>1. CASE OnKey(k, press)
  <2>1. UNCHANGED <<grabVars, xkbVars, guardVars, recording>>
    BY <1>1 DEF OnKey
  <2>2. CASE xkb /\ routable
    BY <1>1, <2>1, <2>2, DispatchCases DEF OnKey, KeyEvent
  <2>3. CASE ~(xkb /\ routable)
    BY <1>1, <2>1, <2>3 DEF OnKey, KeyEvent, RejectKey, StopsRepeatOnReject, Drops
  <2> QED
    BY <2>2, <2>3
<1>2. CASE ~live /\ KeyMoves(k, press)
  BY <1>2 DEF KeyMoves, KeyEvent, Drops, GrabInv
<1> QED
  BY <1>1, <1>2 DEF KeyMoves, ResendKey

-----------------------------------------------------------------------------
(* The routes of a press, by what they do to the key's tracking.           *)

(* Kept: the key was down, or suppressed; nothing is learned.              *)
KeepsRoute(k) ==
    /\ track[k] \in {"suppressed_startup", "app_shortcut", "forwarded"}
    /\ ForwardsNothing \/ (track[k] \in SentStates /\ Forward(k, TRUE))
    /\ UNCHANGED <<ownVars, suppress>>

(* Suppressed, because the startup guard stands.                           *)
Suppresses(k) ==
    /\ suppress /\ window
    /\ Claim(k) /\ track' = [track EXCEPT ![k] = "suppressed_startup"]
    /\ ForwardsNothing /\ UNCHANGED suppress

(* Admitted, and kept from the application.                                *)
TakesInside(k) ==
    /\ track[k] \notin {"forwarded", "app_shortcut"}
    /\ ~(suppress /\ window) /\ Claim(k) /\ suppress' \in {suppress, FALSE}
    /\ \/ UNCHANGED track
       \/ /\ k \in PttKeys
          /\ \E s \in {"voice_ptt", "voice_ptt_unavail"} :
                track' = [track EXCEPT ![k] = s]
    /\ ForwardsNothing

(* Admitted, and sent to the application.                                  *)
Sends(k) ==
    /\ ~(suppress /\ window) /\ Claim(k) /\ suppress' \in {suppress, FALSE}
    /\ k \notin PttKeys
    /\ \E s \in SentStates : track' = [track EXCEPT ![k] = s]
    /\ Forward(k, TRUE)

PressRouted(k) ==
    /\ k \in Keys /\ ~stopped /\ todo # <<>> /\ todo' \in Seq(Events)
    /\ track[k] \in TrackStates
    /\ KeepsRoute(k) \/ Suppresses(k) \/ TakesInside(k) \/ Sends(k)
    /\ repeat' \in {repeat, k}
    /\ repeat' = k => repeat = k \/ track'[k] # "suppressed_startup"
    /\ recording' \in BOOLEAN
    /\ UNCHANGED <<envVars, grabVars, xkbVars, window, phys, buffer>>

(* Every press that is routed is one of these (key_route.c).               *)
LEMMA PressCases ==
    ASSUME TypeOK, RoutePress
    PROVE  \E k \in Keys : PressRouted(k)
<1> DEFINE e == Head(todo)
           k == e.key
<1>1. /\ e \in Events /\ todo' \in Seq(Events)
      /\ ~stopped /\ todo # <<>>
  BY DEF RoutePress, TypeOK
<1>2. k \in Keys /\ track[k] \in TrackStates
  BY <1>1 DEF Events, TypeOK
<1>3. /\ repeat' \in {repeat, k}
      /\ repeat' = k => repeat = k \/ track'[k] # "suppressed_startup"
  BY DEF RoutePress, RepeatAfterPress
<1>4. UNCHANGED <<envVars, grabVars, xkbVars, window, phys, buffer>>
  BY DEF RoutePress
<1>5. /\ KeepsRoute(k) \/ Suppresses(k) \/ TakesInside(k) \/ Sends(k)
      /\ recording' \in BOOLEAN
  <2>0. recording \in BOOLEAN
    BY DEF TypeOK
  <2>1. CASE RouteLatchedPress(e)
    BY <2>0, <2>1 DEF RouteLatchedPress, KeepsRoute, SentStates
  <2>2. CASE RouteSuppressedPress(e)
    BY <2>0, <2>2 DEF RouteSuppressedPress, Suppresses
  <2>3. CASE RoutePttPress(e)
    BY <2>0, <2>3 DEF RoutePttPress, Admits, IsNewPress,
       TakesInside
  <2>4. ASSUME NEW s \in SentStates, RouteSentPress(e, s)
        PROVE  Sends(k) /\ recording' \in BOOLEAN
    BY <2>0, <2>4 DEF RouteSentPress, Admits, Sends
  <2>5. CASE RouteConsumedPress(e)
    BY <2>0, <2>5 DEF RouteConsumedPress, Admits, IsNewPress,
       TakesInside
  <2> QED
    BY <2>1, <2>2, <2>3, <2>4, <2>5 DEF RoutePress, RouteShortcutPress,
       RouteBasicPress, RouteUnhandledPress, SentStates
<1> HIDE DEF e
<1> QED
  BY <1>1, <1>2, <1>3, <1>4, <1>5 DEF PressRouted

(* A release forgets the key, having perhaps told the application.         *)
ReleaseRouted(k) ==
    /\ k \in Keys /\ ~stopped /\ todo # <<>> /\ todo' \in Seq(Events)
    /\ ClearTracking(k)
    /\ \/ Forward(k, FALSE)
       \/ ForwardsNothing /\ (k \in NavKeys \/ track[k] \notin SentStates)
    /\ suppress' \in {suppress, FALSE}
    /\ repeat' = IF repeat = k THEN NoKey ELSE repeat
    /\ recording' \in BOOLEAN
    /\ UNCHANGED <<envVars, grabVars, xkbVars, window, phys, buffer>>

(* process_key_release is one of the ways above.                           *)
LEMMA ReleaseCases ==
    ASSUME TypeOK, RouteRelease
    PROVE  \E k \in Keys : ReleaseRouted(k)
<1> DEFINE e == Head(todo)
           k == e.key
<1>1. /\ e \in Events /\ todo' \in Seq(Events)
      /\ ~stopped /\ todo # <<>>
  BY DEF RouteRelease, TypeOK
<1>2. k \in Keys /\ track[k] \in TrackStates
  BY <1>1 DEF Events, TypeOK
<1>3. /\ repeat' = IF repeat = k THEN NoKey ELSE repeat
      /\ ClearTracking(k)
      /\ UNCHANGED <<envVars, grabVars, xkbVars, window, phys, buffer>>
  BY DEF RouteRelease
<1>4. /\ \/ Forward(k, FALSE)
         \/ ForwardsNothing /\ (k \in NavKeys \/ track[k] \notin SentStates)
      /\ suppress' \in {suppress, FALSE}
      /\ recording' \in BOOLEAN
  <2> USE DEF SentStates
  <2>0. recording \in BOOLEAN /\ suppress \in BOOLEAN
    BY DEF TypeOK
  <2>1. CASE RouteSuppressedRelease(k)
    BY <2>0, <2>1 DEF RouteSuppressedRelease
  <2>2. CASE RouteShortcutOrBasicRelease(k)
    BY <2>0, <2>2 DEF RouteShortcutOrBasicRelease
  <2>3. CASE RouteForwardedRelease(k)
    BY <2>0, <2>3 DEF RouteForwardedRelease
  <2>4. CASE RoutePttRelease(k)
    BY <2>0, <2>4 DEF RoutePttRelease
  <2>5. CASE RouteOrphanRelease(e)
    BY <2>0, <2>5 DEF RouteOrphanRelease
  <2>6. CASE RouteConsumedRelease(k)
    BY <2>0, <2>6 DEF RouteConsumedRelease
  <2> QED
    BY <2>1, <2>2, <2>3, <2>4, <2>5, <2>6 DEF RouteRelease
<1> HIDE DEF e
<1> QED
  BY <1>1, <1>2, <1>3, <1>4 DEF ReleaseRouted

-----------------------------------------------------------------------------
(* Types.                                                                  *)

(* What a forwarded key makes of the types.                                *)
LEMMA ForwardTypes ==
    ASSUME TypeOK, NEW k \in Keys, NEW press \in BOOLEAN,
           Forward(k, press) \/ ForwardsNothing
    PROVE  app' \subseteq Keys /\ stopped' \in BOOLEAN
  BY DEF TypeOK, Forward, ForwardsNothing

(* on_key keeps the types.                                                 *)
LEMMA KeyTypes ==
    ASSUME TypeOK, NEW k \in Keys, NEW press \in BOOLEAN, KeyEvent(k, press),
           held' \subseteq Keys, mods_due' \in BOOLEAN, stale' \subseteq held',
           suspended' \subseteq held'
    PROVE  TypeOK'
<1> USE DEF KeyEvent, grabVars, xkbVars, guardVars, ownVars
<1>1. phys \ {k} \subseteq Modifiers /\ PhysAfter(k, press) \subseteq Modifiers
  BY DEF TypeOK, PhysAfter
<1>2. CASE Drops
  BY <1>2 DEF Drops, TypeOK
<1>3. CASE Routes(k, press)
  BY <1>1, <1>3, KeysAssumption DEF Routes, TypeOK
<1>4. CASE Buffers(k, press)
  BY <1>1, <1>4 DEF Buffers, TypeOK
<1>5. CASE Completes(k, press)
  <2> PICK b \in Seq(Events) : Consume(b)
    BY <1>5 DEF Completes
  <2>1. /\ track' \in [Keys -> TrackStates]
        /\ own' \subseteq Keys /\ app' \subseteq Keys /\ stopped' \in BOOLEAN
    BY DEF Consume, TypeOK, TrackStates
  <2>2. buffer' \in Seq(Events) /\ Len(buffer') <= MaxBuffered
    BY KeysAssumption DEF Consume
  <2>3. UNCHANGED <<owned, todo>>
    BY DEF Consume
  <2> QED
    BY <1>5, <2>1, <2>2, <2>3 DEF Completes, TypeOK
<1> QED
  BY <1>2, <1>3, <1>4, <1>5

(* The router keeps the types.                                             *)
LEMMA RouteTypes ==
    ASSUME TypeOK, NEW k \in Keys, PressRouted(k) \/ ReleaseRouted(k)
    PROVE  TypeOK'
<1> USE DEF envVars, grabVars, xkbVars, ownVars
<1>1. /\ suppress' \in BOOLEAN /\ repeat' \in Keys \cup {NoKey}
      /\ UNCHANGED <<envVars, grabVars, xkbVars, window, phys, buffer>>
      /\ todo' \in Seq(Events) /\ recording' \in BOOLEAN
  BY DEF TypeOK, PressRouted, ReleaseRouted, KeepsRoute, Suppresses,
     TakesInside, Sends
<1>2. app' \subseteq Keys /\ stopped' \in BOOLEAN
  BY ForwardTypes DEF PressRouted, ReleaseRouted, KeepsRoute, Suppresses,
     TakesInside, Sends
<1>3. owned' \in BOOLEAN /\ own' \subseteq Keys
  BY DEF TypeOK, PressRouted, ReleaseRouted, KeepsRoute, Suppresses,
     TakesInside, Sends, Claim, ClearTracking
<1>4. track' \in [Keys -> TrackStates]
  BY DEF TypeOK, PressRouted, ReleaseRouted, KeepsRoute, Suppresses,
     TakesInside, Sends, ClearTracking, TrackStates, SentStates
<1> QED
  BY <1>1, <1>2, <1>3, <1>4 DEF TypeOK

(* What a teardown leaves behind.                                          *)
LEMMA ResetTypes ==
    ASSUME TypeOK, HardReset
    PROVE  /\ app' \subseteq Keys /\ track' \in [Keys -> TrackStates]
           /\ own' \subseteq Keys /\ owned' \in BOOLEAN
           /\ buffer' \in Seq(Events) /\ Len(buffer') <= MaxBuffered
           /\ repeat' \in Keys \cup {NoKey} /\ phys' \subseteq Modifiers
           /\ saw' \in BOOLEAN /\ xkb' \in BOOLEAN /\ xkbmods' \subseteq Modifiers
<1>1. app' \subseteq Keys
  BY DEF TypeOK, HardReset
<1>2. track' \in [Keys -> TrackStates]
  BY DEF HardReset, TrackStates
<1>3. buffer' \in Seq(Events) /\ Len(buffer') <= MaxBuffered
  BY KeysAssumption DEF HardReset
<1> QED
  BY <1>1, <1>2, <1>3 DEF HardReset

(* Every step keeps the types.                                             *)
LEMMA TypeStep == TypeOK /\ GrabInv /\ [Next]_vars => TypeOK'
<1> SUFFICES ASSUME TypeOK, GrabInv, [Next]_vars
             PROVE  TypeOK'
  OBVIOUS
<1> USE DEF envVars, grabVars, xkbVars, guardVars, ownVars
<1>1. ASSUME NEW k \in Keys, PressKey(k)
      PROVE  TypeOK'
  <2>1. KeyMoves(k, TRUE) /\ held' = held \cup {k} /\ UNCHANGED suspended
    BY <1>1 DEF PressKey
  <2>2. mods_due' \in BOOLEAN /\ stale' = {}
    BY <2>1 DEF KeyMoves, TypeOK
  <2>3. held' \subseteq Keys /\ suspended' \subseteq held'
    BY <2>1 DEF TypeOK
  <2> QED
    BY <2>1, <2>2, <2>3, KeyCases, KeyTypes
<1>2. ASSUME NEW k \in Keys, ReleaseKey(k)
      PROVE  TypeOK'
  <2>1. /\ KeyMoves(k, FALSE) /\ held' = held \ {k}
        /\ suspended' = suspended \ {k}
    BY <1>2 DEF ReleaseKey
  <2>2. mods_due' \in BOOLEAN /\ stale' = {}
    BY <2>1 DEF KeyMoves, TypeOK
  <2>3. held' \subseteq Keys /\ suspended' \subseteq held'
    BY <2>1 DEF TypeOK
  <2> QED
    BY <2>1, <2>2, <2>3, KeyCases, KeyTypes
<1>3. ASSUME NEW k \in Keys, ResendKey(k)
      PROVE  TypeOK'
  <2>1. stale' = stale \ {k} /\ UNCHANGED <<held, mods_due, suspended>>
    BY <1>3 DEF ResendKey
  <2>2. KeyEvent(k, TRUE)
    BY <1>3, KeyCases
  <2> QED
    BY <2>1, <2>2, KeyTypes DEF TypeOK
<1>4. CASE RoutePress
  BY <1>4, PressCases, RouteTypes
<1>5. CASE RouteRelease
  BY <1>5, ReleaseCases, RouteTypes
<1>6. CASE DispatchRepeat
  <2>0. repeat \in Keys /\ track[repeat] \in TrackStates
    BY <1>6 DEF DispatchRepeat, TypeOK
  <2>1. Forward(repeat, TRUE) \/ ForwardsNothing
    BY <1>6 DEF DispatchRepeat, RepeatSentKey, RepeatSuppressedKey, RepeatEngineKey
  <2>2. app' \subseteq Keys /\ stopped' \in BOOLEAN
    BY <2>0, <2>1, ForwardTypes
  <2>3. repeat' \in Keys \cup {NoKey} /\ track' \in [Keys -> TrackStates]
    BY <1>6, <2>0 DEF DispatchRepeat, RepeatSentKey, RepeatSuppressedKey,
       RepeatEngineKey, TypeOK, TrackStates
  <2> QED
    BY <1>6, <2>2, <2>3 DEF DispatchRepeat, TypeOK
<1>7. CASE OnKeymap
  BY <1>7 DEF OnKeymap, TypeOK
<1>8. CASE OnModifiers
  BY <1>8 DEF OnModifiers, TypeOK
<1>9. CASE WindowElapses
  BY <1>9 DEF WindowElapses, TypeOK
<1>10. CASE EndGrab
  BY <1>10, ResetTypes DEF EndGrab, TypeOK
<1>11. CASE NewGrab
  BY <1>11, ResetTypes DEF NewGrab, RebuildGrab, TypeOK
<1>12. CASE Resume
  BY <1>12, ResetTypes DEF Resume, RebuildGrab, TypeOK
<1>13. CASE Deactivated
  BY <1>13 DEF Deactivated, TypeOK
<1>14. CASE UNCHANGED vars
  BY <1>14 DEF vars, TypeOK
<1> QED
  BY <1>1, <1>2, <1>3, <1>4, <1>5, <1>6, <1>7, <1>8, <1>9, <1>10, <1>11,
     <1>12, <1>13, <1>14 DEF Next

-----------------------------------------------------------------------------
(* A key that is pressed, released or sent again, and what on_key does of  *)
(* it: the keys held follow, and a modifier's event is due.                *)
KeyStep(k, press) ==
    /\ ~stopped /\ todo = <<>> /\ ~mods_due
    /\ KeyEvent(k, press)
    /\ stale' \subseteq stale /\ (mods_due' => live)
    /\ IF press
       THEN /\ held' = held \cup {k}
            /\ live => mods_due' \/ held' \cap Modifiers = held \cap Modifiers
       ELSE /\ k \in held /\ held' = held \ {k}
            /\ live /\ k \in Modifiers => mods_due'

(* A key of the compositor, fresh or sent again, is such a step.           *)
LEMMA KeySteps ==
    ASSUME TypeOK, GrabInv, NEW k \in Keys,
           PressKey(k) \/ ReleaseKey(k) \/ ResendKey(k)
    PROVE  \E press \in BOOLEAN : KeyStep(k, press)
<1>1. CASE PressKey(k)
  <2>1. KeyEvent(k, TRUE)
    BY <1>1, KeyCases DEF PressKey
  <2> QED
    BY <1>1, <2>1 DEF PressKey, KeyMoves, KeyStep, Ready
<1>2. CASE ReleaseKey(k)
  <2>1. KeyEvent(k, FALSE)
    BY <1>2, KeyCases DEF ReleaseKey
  <2> QED
    BY <1>2, <2>1 DEF ReleaseKey, KeyMoves, KeyStep, Ready
<1>3. CASE ResendKey(k)
  <2>1. KeyEvent(k, TRUE)
    BY <1>3, KeyCases
  <2>2. held' = held \cup {k}
    BY <1>3 DEF ResendKey, TypeOK
  <2> QED
    BY <1>3, <2>1, <2>2 DEF ResendKey, KeyStep, Ready
<1> QED
  BY <1>1, <1>2, <1>3

(* The queue of on_key, the chord and the compositor's view of the keys.   *)
LEMMA GrabKey ==
    ASSUME TypeOK, GrabInv, NEW k \in Keys, NEW press \in BOOLEAN,
           KeyStep(k, press)
    PROVE  GrabInv'
<1> USE DEF KeyStep, KeyEvent, grabVars, xkbVars, GrabInv
<1>0. xkb => live
  OBVIOUS
<1>1. xkb' /\ ~mods_due' => xkbmods' = held' \cap Modifiers
  <2>1. SUFFICES ASSUME xkb, ~mods_due'
                 PROVE  held' \cap Modifiers = held \cap Modifiers
    OBVIOUS
  <2> QED
    BY <2>1
<1>2. CASE Drops
  <2>1. routable' => phys' \subseteq held'
    BY <1>2 DEF Drops
  <2> QED
    BY <1>1, <1>2, <2>1 DEF Drops, TypeOK
<1>3. xkb /\ routable => PhysAfter(k, press) \subseteq held'
  BY DEF PhysAfter
<1>4. CASE xkb /\ routable /\ Routes(k, press)
  BY <1>1, <1>3, <1>4 DEF Routes
<1>5. CASE xkb /\ routable /\ Buffers(k, press)
  BY <1>1, <1>3, <1>5 DEF Buffers
<1>6. CASE xkb /\ routable /\ Completes(k, press)
  BY <1>1, <1>6 DEF Completes, Consume
<1>7. \/ Drops
      \/ xkb /\ routable /\ Routes(k, press)
      \/ xkb /\ routable /\ Buffers(k, press)
      \/ xkb /\ routable /\ Completes(k, press)
  OBVIOUS
<1> QED
  BY <1>2, <1>4, <1>5, <1>6, <1>7

(* Every step keeps the facts of the grab.                                 *)
LEMMA GrabStep == TypeOK /\ GrabInv /\ [Next]_vars => GrabInv'
<1> SUFFICES ASSUME TypeOK, GrabInv, [Next]_vars
             PROVE  GrabInv'
  OBVIOUS
<1> USE DEF envVars, grabVars, xkbVars, guardVars, ownVars, GrabInv
<1>1. ASSUME NEW k \in Keys, PressKey(k) \/ ReleaseKey(k) \/ ResendKey(k)
      PROVE  GrabInv'
  BY <1>1, KeySteps, GrabKey
<1>2. ASSUME NEW k \in Keys, PressRouted(k)
      PROVE  GrabInv'
  BY <1>2 DEF PressRouted
<1>3. ASSUME NEW k \in Keys, ReleaseRouted(k)
      PROVE  GrabInv'
  BY <1>3 DEF ReleaseRouted
<1>4. CASE DispatchRepeat
  <2>1. repeat' \in {repeat, NoKey}
    BY <1>4 DEF DispatchRepeat, RepeatSentKey, RepeatSuppressedKey, RepeatEngineKey
  <2> QED
    BY <1>4, <2>1 DEF DispatchRepeat
<1>5. CASE OnKeymap
  BY <1>5 DEF OnKeymap, Ready
<1>6. CASE OnModifiers
  BY <1>6 DEF OnModifiers, Ready
<1>7. CASE WindowElapses
  BY <1>7 DEF WindowElapses, Ready
<1>8. CASE EndGrab
  BY <1>8 DEF EndGrab, Ready, HardReset
<1>9. CASE NewGrab
  BY <1>9 DEF NewGrab, Ready, RebuildGrab, HardReset
<1>10. CASE Resume
  BY <1>10 DEF Resume, Ready, RebuildGrab, HardReset
<1>11. CASE Deactivated
  BY <1>11 DEF Deactivated
<1>12. CASE UNCHANGED vars
  BY <1>12 DEF vars
<1> QED
  BY <1>1, <1>2, <1>3, <1>4, <1>5, <1>6, <1>7, <1>8, <1>9, <1>10, <1>11,
     <1>12, PressCases, ReleaseCases DEF Next

-----------------------------------------------------------------------------
(* The startup guard lets no key through while it stands.                  *)
LEMMA GuardStep == TypeOK /\ GuardInv /\ GrabInv /\ [Next]_vars => GuardInv'
<1> SUFFICES ASSUME TypeOK, GuardInv, GrabInv, [Next]_vars
             PROVE  GuardInv'
  OBVIOUS
<1> USE DEF envVars, grabVars, xkbVars, guardVars, ownVars, GuardInv
<1>0. track \in [Keys -> TrackStates]
  BY DEF TypeOK
<1>1. ASSUME NEW k \in Keys, PressKey(k) \/ ReleaseKey(k) \/ ResendKey(k)
      PROVE  GuardInv'
  <2> PICK press \in BOOLEAN : KeyStep(k, press)
    BY <1>1, KeySteps
  <2> USE DEF KeyStep, KeyEvent
  <2>1. repeat' \in {repeat, NoKey}
    BY DEF Drops, Routes, Buffers, Completes
  <2>2. \A j \in Keys : track'[j] \in {track[j], "idle"}
    BY <1>0 DEF Drops, Routes, Buffers, Completes, Consume
  <2>3. PttKeys \subseteq Keys
    BY KeysAssumption
  <2> QED
    BY <2>1, <2>2, <2>3
<1>2. ASSUME NEW k \in Keys, PressRouted(k)
      PROVE  GuardInv'
  <2>1. CASE KeepsRoute(k)
    BY <1>2, <2>1 DEF PressRouted, KeepsRoute
  <2>2. CASE Suppresses(k)
    BY <1>0, <1>2, <2>2, KeysAssumption DEF PressRouted, Suppresses
  <2>3. CASE TakesInside(k) \/ Sends(k)
    <3>1. ~(suppress' /\ window')
      BY <1>2, <2>3 DEF PressRouted, TakesInside, Sends
    <3>2. \A j \in PttKeys : track'[j] # "basic_passthrough"
      BY <1>0, <2>3, KeysAssumption DEF TakesInside, Sends
    <3> QED
      BY <3>1, <3>2
  <2> QED
    BY <1>2, <2>1, <2>2, <2>3 DEF PressRouted
<1>3. ASSUME NEW k \in Keys, ReleaseRouted(k)
      PROVE  GuardInv'
  <2>1. \A j \in Keys : track'[j] \in {track[j], "idle"}
    BY <1>0, <1>3 DEF ReleaseRouted, ClearTracking
  <2>2. suppress' /\ window' => suppress /\ window /\ repeat' \in {repeat, NoKey}
    BY <1>3 DEF ReleaseRouted
  <2> QED
    BY <2>1, <2>2, KeysAssumption
<1>4. CASE DispatchRepeat
  <2>1. ~(suppress /\ window)
    BY <1>4 DEF DispatchRepeat
  <2>2. \A j \in Keys : track'[j] \in {track[j], "forwarded"}
    BY <1>0, <1>4 DEF DispatchRepeat, RepeatSentKey, RepeatSuppressedKey,
       RepeatEngineKey
  <2> QED
    BY <1>4, <2>1, <2>2, KeysAssumption DEF DispatchRepeat
<1>5. CASE OnKeymap
  BY <1>5 DEF OnKeymap
<1>6. CASE OnModifiers
  BY <1>6 DEF OnModifiers
<1>7. CASE WindowElapses
  BY <1>7 DEF WindowElapses
<1>8. CASE EndGrab \/ NewGrab \/ Resume
  BY <1>8, KeysAssumption DEF EndGrab, NewGrab, Resume, RebuildGrab, HardReset
<1>9. CASE Deactivated
  BY <1>9 DEF Deactivated
<1>10. CASE UNCHANGED vars
  BY <1>10 DEF vars
<1> QED
  BY <1>1, <1>2, <1>3, <1>4, <1>5, <1>6, <1>7, <1>8, <1>9, <1>10,
     PressCases, ReleaseCases DEF Next

-----------------------------------------------------------------------------
(* A key's tracking lives as long as its generation.                       *)
LEMMA TrackedStep ==
    /\ TypeOK /\ GrabInv /\ RepeatInv /\ TrackedKeysAreOwned
    /\ [Next]_vars
    => TrackedKeysAreOwned'
<1> SUFFICES ASSUME TypeOK, GrabInv, RepeatInv, TrackedKeysAreOwned, [Next]_vars
             PROVE  TrackedKeysAreOwned'
  OBVIOUS
<1> USE DEF envVars, grabVars, xkbVars, guardVars, ownVars, TrackedKeysAreOwned
<1>0. track \in [Keys -> TrackStates]
  BY DEF TypeOK
<1>1. ASSUME NEW k \in Keys, PressKey(k) \/ ReleaseKey(k) \/ ResendKey(k)
      PROVE  TrackedKeysAreOwned'
  <2> PICK press \in BOOLEAN : KeyStep(k, press)
    BY <1>1, KeySteps
  <2>1. UNCHANGED ownVars \/ \E b \in Seq(Events) : Consume(b)
    BY DEF KeyStep, KeyEvent, Drops, Routes, Buffers, Completes
  <2>2. live' = live
    BY DEF KeyStep, KeyEvent
  <2> QED
    BY <1>0, <2>1, <2>2 DEF Consume
<1>2. ASSUME NEW k \in Keys, PressRouted(k)
      PROVE  TrackedKeysAreOwned'
  <2>1. live' = live /\ live
    BY <1>2 DEF PressRouted, GrabInv
  <2>2. CASE KeepsRoute(k)
    BY <2>1, <2>2 DEF KeepsRoute
  <2>3. CASE Suppresses(k) \/ TakesInside(k) \/ Sends(k)
    BY <1>0, <2>1, <2>3 DEF Suppresses, TakesInside, Sends, Claim
  <2> QED
    BY <1>2, <2>2, <2>3 DEF PressRouted
<1>3. ASSUME NEW k \in Keys, ReleaseRouted(k)
      PROVE  TrackedKeysAreOwned'
  BY <1>0, <1>3 DEF ReleaseRouted, ClearTracking
<1>4. CASE DispatchRepeat
  <2>1. repeat # NoKey /\ live /\ ~mods_due /\ UNCHANGED <<live, owned, own>>
    BY <1>4 DEF DispatchRepeat
  <2>2. owned /\ repeat \in own
    BY <2>1 DEF RepeatInv, RepeatEnds
  <2>3. track' = track \/ track' = [track EXCEPT ![repeat] = "forwarded"]
    BY <1>4 DEF DispatchRepeat, RepeatSentKey, RepeatSuppressedKey,
       RepeatEngineKey
  <2> QED
    BY <1>0, <2>1, <2>2, <2>3
<1>5. CASE OnKeymap
  BY <1>5 DEF OnKeymap
<1>6. CASE OnModifiers
  BY <1>6 DEF OnModifiers
<1>7. CASE WindowElapses
  BY <1>7 DEF WindowElapses
<1>8. CASE EndGrab \/ NewGrab \/ Resume
  BY <1>8 DEF EndGrab, NewGrab, Resume, RebuildGrab, HardReset
<1>9. CASE Deactivated
  BY <1>9 DEF Deactivated
<1>10. CASE UNCHANGED vars
  BY <1>10 DEF vars
<1> QED
  BY <1>1, <1>2, <1>3, <1>4, <1>5, <1>6, <1>7, <1>8, <1>9, <1>10,
     PressCases, ReleaseCases DEF Next

-----------------------------------------------------------------------------
(* A repeat does not outlive its generation.  The chord that completes may *)
(* have released the key that repeats; then the modifier that completed it *)
(* is one whose release stops the repeat.                                  *)
LEMMA RepeatKey ==
    ASSUME ChordBlocks, TypeOK, GrabInv, RepeatInv,
           NEW k \in Keys, NEW press \in BOOLEAN, KeyStep(k, press)
    PROVE  RepeatInv'
<1> USE DEF KeyStep, KeyEvent, grabVars, xkbVars, ownVars
<1>1. SUFFICES ASSUME repeat' # NoKey
               PROVE  /\ (owned' /\ repeat' \in own') \/ RepeatEnds'
                      /\ buffer' # <<>> =>
                             Chord \cap Blocking \subseteq phys' \/ RepeatEnds'
  BY DEF RepeatInv
<1>2. repeat' = repeat /\ repeat # NoKey
  BY <1>1 DEF Drops, Routes, Buffers, Completes
<1>3. /\ owned /\ repeat \in own
      /\ buffer # <<>> => Chord \cap Blocking \subseteq phys
  BY <1>2 DEF RepeatInv, RepeatEnds
<1>4. CASE Drops
  BY <1>2, <1>3, <1>4 DEF Drops
<1>5. CASE Routes(k, press)
  BY <1>2, <1>3, <1>5 DEF Routes
<1>6. ASSUME xkb, routable, ~press, k \in Chord \cap Blocking
      PROVE  RepeatEnds'
  <2>1. k \in Modifiers /\ live /\ k \in held
    BY <1>6, KeysAssumption DEF GrabInv
  <2>2. k \in xkbmods
    BY <1>6, <2>1 DEF GrabInv
  <2>3. mods_due' /\ k \notin held' /\ xkbmods' = xkbmods
    BY <1>6, <2>1
  <2> QED
    BY <1>6, <2>2, <2>3 DEF RepeatEnds
<1>7. CASE xkb /\ routable /\ Buffers(k, press)
  <2>1. owned' /\ repeat' \in own'
    BY <1>2, <1>3, <1>7 DEF Buffers
  <2>2. CASE buffer = <<>> \/ press
    BY <1>3, <1>7, <2>1, <2>2 DEF Buffers, PhysAfter
  <2>3. CASE buffer # <<>> /\ ~press /\ k \notin Chord \cap Blocking
    BY <1>3, <1>7, <2>1, <2>3 DEF Buffers, PhysAfter
  <2>4. CASE ~press /\ k \in Chord \cap Blocking
    BY <1>6, <1>7, <2>1, <2>4
  <2> QED
    BY <2>2, <2>3, <2>4
<1>8. CASE xkb /\ routable /\ Completes(k, press)
  <2>1. Chord \cap Blocking \subseteq {k}
    BY <1>3, <1>8 DEF Completes
  <2>2. RepeatEnds'
    BY <1>6, <1>8, <2>1 DEF ChordBlocks, Completes
  <2> QED
    BY <2>2
<1> QED
  BY <1>4, <1>5, <1>7, <1>8

(* Every step keeps the facts of the repeat timer.                         *)
LEMMA RepeatStep ==
    /\ ChordBlocks
    /\ TypeOK /\ GrabInv /\ TrackedKeysAreOwned /\ RepeatInv
    /\ [Next]_vars
    => RepeatInv'
<1> SUFFICES ASSUME ChordBlocks, TypeOK, GrabInv, TrackedKeysAreOwned,
                    RepeatInv, [Next]_vars
             PROVE  RepeatInv'
  OBVIOUS
<1> USE DEF envVars, grabVars, xkbVars, guardVars, ownVars, RepeatInv
<1>1. ASSUME NEW k \in Keys, PressKey(k) \/ ReleaseKey(k) \/ ResendKey(k)
      PROVE  RepeatInv'
  BY <1>1, KeySteps, RepeatKey
<1>2. ASSUME NEW k \in Keys, PressRouted(k)
      PROVE  RepeatInv'
  <2>1. buffer' = <<>>
    BY <1>2 DEF PressRouted, GrabInv
  <2>2. owned' /\ k \in own' /\ own \subseteq own'
    <3>1. CASE KeepsRoute(k)
      BY <1>2, <3>1 DEF KeepsRoute, TrackedKeysAreOwned
    <3>2. CASE Suppresses(k) \/ TakesInside(k) \/ Sends(k)
      BY <3>2 DEF Suppresses, TakesInside, Sends, Claim
    <3> QED
      BY <1>2, <3>1, <3>2 DEF PressRouted
  <2>3. RepeatEnds' = RepeatEnds /\ repeat' \in {repeat, k}
    BY <1>2 DEF PressRouted, RepeatEnds
  <2> QED
    BY <2>1, <2>2, <2>3
<1>3. ASSUME NEW k \in Keys, ReleaseRouted(k)
      PROVE  RepeatInv'
  <2>1. buffer' = <<>>
    BY <1>3 DEF ReleaseRouted, GrabInv
  <2>2. repeat' # NoKey => repeat' = repeat /\ repeat # k
    BY <1>3 DEF ReleaseRouted
  <2>3. RepeatEnds' = RepeatEnds /\ owned' = owned /\ own' = own \ {k}
    BY <1>3 DEF ReleaseRouted, RepeatEnds, ClearTracking
  <2> QED
    BY <2>1, <2>2, <2>3
<1>4. CASE DispatchRepeat
  <2>1. repeat' \in {repeat, NoKey}
    BY <1>4 DEF DispatchRepeat, RepeatSentKey, RepeatSuppressedKey, RepeatEngineKey
  <2> QED
    BY <1>4, <2>1 DEF DispatchRepeat, RepeatEnds
<1>5. CASE OnKeymap
  <2>1. ~RepeatEnds
    BY <1>5 DEF OnKeymap, RepeatEnds
  <2> QED
    BY <1>5, <2>1 DEF OnKeymap
<1>6. CASE OnModifiers
  <2>1. SUFFICES ASSUME repeat' # NoKey
                 PROVE  ~RepeatEnds
    BY <1>6 DEF OnModifiers
  <2>2. xkbmods' = held \cap Modifiers
    BY <1>6, <2>1 DEF OnModifiers, GrabInv
  <2>3. xkbmods \cap Blocking = held \cap Blocking
    BY <1>6, <2>1, <2>2, KeysAssumption DEF OnModifiers
  <2> QED
    BY <2>3 DEF RepeatEnds
<1>7. CASE WindowElapses
  BY <1>7 DEF WindowElapses, RepeatEnds
<1>8. CASE EndGrab \/ NewGrab \/ Resume
  BY <1>8 DEF EndGrab, NewGrab, Resume, RebuildGrab, HardReset
<1>9. CASE Deactivated
  BY <1>9 DEF Deactivated, RepeatEnds
<1>10. CASE UNCHANGED vars
  BY <1>10 DEF vars, RepeatEnds
<1> QED
  BY <1>1, <1>2, <1>3, <1>4, <1>5, <1>6, <1>7, <1>8, <1>9, <1>10,
     PressCases, ReleaseCases DEF Next

-----------------------------------------------------------------------------
(* What is down in the application is tracked, or the frontend stops.      *)

(* A teardown releases it: a broken keyboard stops the frontend instead    *)
(* (release_forwarded_keys, typio_wl_vk_send_key).                         *)
LEMMA ResetReleases ==
    ASSUME ~stopped, TrackedKeysAreOwned, SentInv, HardReset, app \subseteq Keys
    PROVE  app' \ NavKeys = {} \/ (vk = "broken" /\ owned)
<1>1. CASE app \ NavKeys = {}
  BY <1>1 DEF HardReset
<1>2. CASE app \ NavKeys # {}
  <2>1. /\ \A k \in app \ NavKeys : track[k] \in SentStates
        /\ owned /\ vk \in {"ready", "broken"}
    BY <1>2 DEF SentInv, DownKeysAreTracked, TrackedKeysAreOwned, SentStates
  <2>2. app \ NavKeys \subseteq ReleasedAtTeardown
    BY <2>1 DEF ReleasedAtTeardown
  <2> QED
    BY <2>1, <2>2 DEF HardReset
<1> QED
  BY <1>1, <1>2

(* A key that is sent, or released, while its tracking becomes t.          *)
LEMMA ForwardKeeps ==
    ASSUME ~stopped, TypeOK, SentInv, NEW k \in Keys, NEW press \in BOOLEAN,
           Forward(k, press) \/ ForwardsNothing,
           live' = live, vk' = vk,
           \A j \in Keys \ {k} : /\ track'[j] = track[j]
                                 /\ j \in own => j \in own',
           k \in app' => \/ k \in NavKeys \/ stopped'
                         \/ live /\ track'[k] \in SentStates /\ k \in own'
    PROVE  SentInv'
<1>1. app' \subseteq app \cup {k}
  BY DEF Forward, ForwardsNothing
<1>2. DownKeysAreTracked'
  BY <1>1 DEF SentInv, DownKeysAreTracked, TypeOK
<1>3. app' \subseteq app \/ vk = "ready"
  BY DEF Forward, ForwardsNothing
<1> QED
  BY <1>2, <1>3 DEF SentInv

(* on_key keeps what the application was sent.                             *)
LEMMA SentKey ==
    ASSUME TypeOK, GrabInv, SentInv, NEW k \in Keys, NEW press \in BOOLEAN,
           KeyStep(k, press)
    PROVE  SentInv'
<1> USE DEF KeyStep, KeyEvent, grabVars, ownVars
<1>1. CASE UNCHANGED <<ownVars, app, stopped>>
  BY <1>1 DEF SentInv, DownKeysAreTracked
<1>2. ASSUME NEW b \in Seq(Events), Consume(b)
      PROVE  SentInv'
  <2>1. CASE app \ NavKeys = {}
    BY <1>2, <2>1 DEF Consume, SentInv, DownKeysAreTracked
  <2>2. CASE vk = "ready"
    <3>1. app' \subseteq app \ Orphans(b)
      BY <1>2, <2>2 DEF Consume
    <3>2. \A j \in Keys \ Orphans(b) :
             track'[j] = track[j] /\ (j \in own => j \in own')
      BY <1>2 DEF Consume
    <3> QED
      BY <2>2, <3>1, <3>2 DEF SentInv, DownKeysAreTracked, TypeOK
  <2>3. CASE vk = "broken" /\ Orphans(b) = {}
    <3>0. stopped' = stopped
      BY <1>2, <2>3 DEF Consume, TypeOK
    <3>1. app' = app /\ own' = own
      BY <1>2, <2>3 DEF Consume
    <3>2. \A j \in Keys : track'[j] = track[j]
      BY <1>2, <2>3 DEF Consume
    <3> QED
      BY <3>0, <3>1, <3>2 DEF SentInv, DownKeysAreTracked, TypeOK
  <2>4. CASE vk = "broken" /\ Orphans(b) # {}
    BY <1>2, <2>4 DEF Consume, SentInv, DownKeysAreTracked
  <2> QED
    BY <2>1, <2>2, <2>3, <2>4 DEF SentInv
<1> QED
  BY <1>1, <1>2 DEF Drops, Routes, Buffers, Completes

(* A routed press keeps what the application was sent.                     *)
LEMMA SentPress ==
    ASSUME TypeOK, GrabInv, GuardInv, TrackedKeysAreOwned, SentInv,
           NEW k \in Keys, PressRouted(k)
    PROVE  SentInv'
<1>1. /\ ~stopped /\ live /\ live' = live /\ vk' = vk
      /\ track \in [Keys -> TrackStates]
  BY DEF PressRouted, GrabInv, grabVars, TypeOK
<1>2. k \in app => k \in NavKeys \/ (track[k] \in SentStates /\ k \in own)
  BY <1>1 DEF SentInv, DownKeysAreTracked
<1>3. CASE KeepsRoute(k)
  <2>1. Forward(k, TRUE) \/ ForwardsNothing
    BY <1>3 DEF KeepsRoute
  <2>2. track' = track /\ own' = own
    BY <1>3 DEF KeepsRoute, ownVars
  <2>3. k \in app' => k \in NavKeys \/ (track[k] \in SentStates /\ k \in own)
    BY <1>2, <1>3 DEF KeepsRoute, ForwardsNothing, TrackedKeysAreOwned, SentStates
  <2> QED
    BY <1>1, <2>1, <2>2, <2>3, ForwardKeeps
<1>4. CASE Suppresses(k)
  <2>1. ForwardsNothing /\ k \in own' /\ own \subseteq own'
    BY <1>4 DEF Suppresses, Claim
  <2>2. \A j \in Keys \ {k} : track'[j] = track[j]
    BY <1>1, <1>4 DEF Suppresses
  <2>3. k \in app' => k \in NavKeys
    BY <1>2, <1>4, <2>1 DEF GuardInv, Suppresses, ForwardsNothing, SentStates
  <2> QED
    BY <1>1, <2>1, <2>2, <2>3, ForwardKeeps
<1>5. CASE TakesInside(k)
  <2>1. ForwardsNothing /\ k \in own' /\ own \subseteq own'
    BY <1>5 DEF TakesInside, Claim
  <2>2. \A j \in Keys \ {k} : track'[j] = track[j]
    BY <1>1, <1>5 DEF TakesInside
  <2>3. k \in app' => k \in NavKeys \/ (track'[k] \in SentStates /\ k \in own')
    <3>1. CASE UNCHANGED track
      BY <1>2, <2>1, <3>1 DEF ForwardsNothing
    <3>2. CASE k \in PttKeys
      BY <1>2, <1>5, <2>1, <3>2 DEF GuardInv, TakesInside, ForwardsNothing,
         SentStates
    <3> QED
      BY <1>5, <3>1, <3>2 DEF TakesInside
  <2> QED
    BY <1>1, <2>1, <2>2, <2>3, ForwardKeeps
<1>6. CASE Sends(k)
  <2>1. Forward(k, TRUE) /\ k \in own' /\ own \subseteq own'
    BY <1>6 DEF Sends, Claim
  <2>2. \A j \in Keys \ {k} : track'[j] = track[j]
    BY <1>1, <1>6 DEF Sends
  <2>3. track'[k] \in SentStates
    BY <1>1, <1>6 DEF Sends
  <2> QED
    BY <1>1, <2>1, <2>2, <2>3, ForwardKeeps
<1> QED
  BY <1>3, <1>4, <1>5, <1>6 DEF PressRouted

(* A routed release keeps what the application was sent.                   *)
LEMMA SentRelease ==
    ASSUME TypeOK, SentInv, NEW k \in Keys, ReleaseRouted(k)
    PROVE  SentInv'
<1>1. /\ ~stopped /\ live' = live /\ vk' = vk
      /\ track \in [Keys -> TrackStates]
  BY DEF ReleaseRouted, grabVars, TypeOK
<1>2. \A j \in Keys \ {k} : track'[j] = track[j] /\ (j \in own => j \in own')
  BY <1>1 DEF ReleaseRouted, ClearTracking
<1>3. k \in app' => k \in NavKeys \/ stopped'
  <2>1. CASE Forward(k, FALSE)
    BY <1>1, <2>1 DEF Forward, SentInv
  <2>2. CASE ForwardsNothing /\ (k \in NavKeys \/ track[k] \notin SentStates)
    BY <1>1, <2>2 DEF ForwardsNothing, SentInv, DownKeysAreTracked
  <2> QED
    BY <2>1, <2>2 DEF ReleaseRouted
<1>4. Forward(k, FALSE) \/ ForwardsNothing
  BY DEF ReleaseRouted
<1> QED
  BY <1>1, <1>2, <1>3, <1>4, ForwardKeeps

(* Every step keeps what the application was sent.                         *)
LEMMA SentStep ==
    /\ TypeOK /\ GrabInv /\ GuardInv /\ TrackedKeysAreOwned /\ RepeatInv
    /\ SentInv /\ [Next]_vars
    => SentInv'
<1> SUFFICES ASSUME TypeOK, GrabInv, GuardInv, TrackedKeysAreOwned, RepeatInv,
                    SentInv, [Next]_vars
             PROVE  SentInv'
  OBVIOUS
<1> USE DEF envVars, grabVars, xkbVars, guardVars, ownVars
<1>1. ASSUME NEW k \in Keys, PressKey(k) \/ ReleaseKey(k) \/ ResendKey(k)
      PROVE  SentInv'
  BY <1>1, KeySteps, SentKey
<1>2. ASSUME NEW k \in Keys, PressRouted(k)
      PROVE  SentInv'
  BY <1>2, SentPress
<1>3. ASSUME NEW k \in Keys, ReleaseRouted(k)
      PROVE  SentInv'
  BY <1>3, SentRelease
<1>4. CASE DispatchRepeat
  <2>1. /\ ~stopped /\ live /\ repeat # NoKey /\ repeat \in Keys
        /\ UNCHANGED <<live, vk, own>> /\ track \in [Keys -> TrackStates]
    BY <1>4 DEF DispatchRepeat, Ready, TypeOK
  <2>2. repeat \in own
    BY <1>4 DEF DispatchRepeat, RepeatInv, RepeatEnds
  <2>3. \/ ForwardsNothing /\ UNCHANGED track
        \/ /\ Forward(repeat, TRUE) /\ track'[repeat] \in SentStates
           /\ \A j \in Keys \ {repeat} : track'[j] = track[j]
    BY <1>4, <2>1 DEF DispatchRepeat, RepeatSentKey, RepeatSuppressedKey,
       RepeatEngineKey, SentStates
  <2>4. CASE ForwardsNothing /\ UNCHANGED track
    BY <2>1, <2>4 DEF ForwardsNothing, SentInv, DownKeysAreTracked
  <2>5. CASE /\ Forward(repeat, TRUE) /\ track'[repeat] \in SentStates
             /\ \A j \in Keys \ {repeat} : track'[j] = track[j]
    BY <2>1, <2>2, <2>5, ForwardKeeps
  <2> QED
    BY <2>3, <2>4, <2>5
<1>5. CASE OnKeymap
  BY <1>5 DEF OnKeymap, Ready, SentInv, DownKeysAreTracked
<1>6. CASE OnModifiers
  BY <1>6 DEF OnModifiers, Ready, SentInv, DownKeysAreTracked
<1>7. CASE WindowElapses
  BY <1>7 DEF WindowElapses, SentInv, DownKeysAreTracked
<1>8. CASE EndGrab \/ NewGrab \/ Resume
  <2>1. app' \ NavKeys = {} \/ stopped'
    BY <1>8, ResetReleases DEF EndGrab, NewGrab, Resume, RebuildGrab, Ready,
       TypeOK
  <2> QED
    BY <2>1 DEF SentInv, DownKeysAreTracked
<1>9. CASE Deactivated
  BY <1>9 DEF Deactivated, SentInv, DownKeysAreTracked
<1>10. CASE UNCHANGED vars
  BY <1>10 DEF vars, SentInv, DownKeysAreTracked
<1> QED
  BY <1>1, <1>2, <1>3, <1>4, <1>5, <1>6, <1>7, <1>8, <1>9, <1>10,
     PressCases, ReleaseCases DEF Next

-----------------------------------------------------------------------------
(* The invariant holds of the frontend before its first grab.              *)
LEMMA IInvInit == Init => IInv
<1> SUFFICES ASSUME Init PROVE IInv
  OBVIOUS
<1> USE DEF Init
<1>1. TypeOK
  <2>1. buffer \in Seq(Events) /\ Len(buffer) <= MaxBuffered /\ todo \in Seq(Events)
    BY KeysAssumption
  <2>2. track \in [Keys -> TrackStates]
    BY DEF TrackStates
  <2> QED
    BY <2>1, <2>2 DEF TypeOK
<1>2. GrabInv /\ RepeatInv
  BY DEF GrabInv, RepeatInv
<1>3. GuardInv /\ TrackedKeysAreOwned
  BY KeysAssumption DEF GuardInv, TrackedKeysAreOwned
<1>4. SentInv
  BY DEF SentInv, DownKeysAreTracked
<1> QED
  BY <1>1, <1>2, <1>3, <1>4 DEF IInv

(* The parts that hold whatever the chord.                                 *)
LEMMA SpecGrab == Spec => [](TypeOK /\ GrabInv)
<1>1. Init => TypeOK /\ GrabInv
  BY IInvInit DEF IInv
<1>2. TypeOK /\ GrabInv /\ [Next]_vars => TypeOK' /\ GrabInv'
  BY TypeStep, GrabStep
<1> QED
  BY <1>1, <1>2, PTL DEF Spec

(* So it always holds.                                                     *)
LEMMA SpecIInv == ASSUME ChordBlocks PROVE Spec => []IInv
<1>1. IInv /\ [Next]_vars => IInv'
  BY TypeStep, GrabStep, GuardStep, TrackedStep, RepeatStep, SentStep DEF IInv
<1> QED
  BY <1>1, IInvInit, PTL DEF Spec

(* The variables keep their types, and the arbiter's buffer its size       *)
(* (arbiter_buffer_push).                                                  *)
THEOREM RoutingTypes == Spec => []TypeOK
  BY SpecGrab, PTL

(* The keyboard is never wedged in BUFFERING: a key of the chord is down,  *)
(* whose release, or whose grab's end, empties the buffer (key_arbiter.c). *)
THEOREM BufferingEnds == Spec => []BufferingEndsWithChord
<1>1. TypeOK /\ GrabInv => BufferingEndsWithChord
  BY DEF TypeOK, GrabInv, BufferingEndsWithChord
<1> QED
  BY <1>1, SpecGrab, PTL

(* The per-key tracking is true both ways, through chords, repeats, grabs  *)
(* that come and go and a virtual keyboard that breaks (key_route.c,       *)
(* key_arbiter.c, key_tracking.h).                                         *)
THEOREM TrackingTellsTruth == ASSUME ChordBlocks PROVE Spec => []TrackingIsTrue
<1>1. IInv => TrackingIsTrue
  BY DEF IInv, SentInv, TrackingIsTrue
<1> QED
  BY <1>1, SpecIInv, PTL

(* A grab that ends leaves no key down in the application, or the frontend *)
(* stops (release_forwarded_keys, lifecycle.c).                            *)
THEOREM GrabsEndReleased == ASSUME ChordBlocks PROVE Spec => TeardownReleasesKeys
<1>1. IInv /\ [Next]_vars =>
          [EndGrab \/ NewGrab \/ Resume => app' \subseteq NavKeys \/ stopped']_vars
  <2> SUFFICES ASSUME IInv, EndGrab \/ NewGrab \/ Resume
               PROVE  app' \subseteq NavKeys \/ stopped'
    OBVIOUS
  <2>1. app' \ NavKeys = {} \/ stopped'
    BY ResetReleases DEF IInv, TypeOK, EndGrab, NewGrab, Resume, RebuildGrab, Ready
  <2> QED
    BY <2>1
<1> QED
  BY <1>1, SpecIInv, PTL DEF Spec, TeardownReleasesKeys

-----------------------------------------------------------------------------
(* The repeat and the release that ends it.                                *)

(* A chord of few enough keys that the arbiter's buffer never fills.       *)
NotFull == Len(buffer) < MaxBuffered

HasRelease(s, k) == \E i \in 1..Len(s) : ~s[i].press /\ s[i].key = k

(* The arbiter keeps no press but those of the chord's keys.               *)
PressesChordOnly(s) == \A i \in 1..Len(s) : s[i].press => s[i].key \in Chord

(* So a key that could begin to repeat is the one that has just moved, the *)
(* last of those on_key hands to the router.                               *)
RepeatsLastOnly(s, h) ==
    \A i \in 1..Len(s) :
        s[i].press /\ s[i].key \notin Modifiers => i = Len(s) /\ s[i].key \in h

(* The key that repeats is down, or its release is kept by the arbiter, or *)
(* on its way to the router, or a modifiers event is due that will stop it.*)
HeldInv ==
    /\ PressesChordOnly(buffer)
    /\ RepeatsLastOnly(todo, held)
    /\ repeat # NoKey =>
           /\ repeat \notin Modifiers
           /\ \/ repeat \in held \/ RepeatEnds
              \/ HasRelease(buffer, repeat) \/ HasRelease(todo, repeat)

(* What is appended is kept with what was there.                           *)
LEMMA Appended ==
    ASSUME NEW s \in Seq(Events), NEW e \in Events
    PROVE  /\ \A k : HasRelease(s, k) => HasRelease(Append(s, e), k)
           /\ ~e.press => HasRelease(Append(s, e), e.key)
           /\ PressesChordOnly(s) /\ (e.press => e.key \in Chord)
                  => PressesChordOnly(Append(s, e))
           /\ \A h : PressesChordOnly(s) /\ (e.press => e.key \in h)
                  => RepeatsLastOnly(Append(s, e), h)
<1> DEFINE t == Append(s, e)
<1>1. /\ Len(s) \in Nat /\ Len(t) = Len(s) + 1
      /\ \A i \in 1..Len(s) : t[i] = s[i]
      /\ t[Len(s) + 1] = e
  OBVIOUS
<1> HIDE DEF t
<1>2. \A i \in 1..Len(t) : i \in 1..Len(s) \/ i = Len(t)
  BY <1>1
<1>3. 1..Len(s) \subseteq 1..Len(t) /\ Len(t) \in 1..Len(t)
  BY <1>1
<1>4. t[Len(t)] = e
  BY <1>1
<1>5. \A k : HasRelease(s, k) => HasRelease(t, k)
  BY <1>1, <1>3 DEF HasRelease
<1>6. ~e.press => HasRelease(t, e.key)
  BY <1>3, <1>4 DEF HasRelease
<1>7. PressesChordOnly(s) /\ (e.press => e.key \in Chord) => PressesChordOnly(t)
  BY <1>1, <1>2, <1>4 DEF PressesChordOnly
<1>8. ASSUME NEW h, PressesChordOnly(s), e.press => e.key \in h
      PROVE  RepeatsLastOnly(t, h)
  BY <1>1, <1>2, <1>4, <1>8, KeysAssumption DEF PressesChordOnly, RepeatsLastOnly
<1> QED
  BY <1>5, <1>6, <1>7, <1>8 DEF t

(* What the router takes first leaves the rest as it was.                  *)
LEMMA Taken ==
    ASSUME NEW s \in Seq(Events), s # <<>>
    PROVE  /\ \A k : HasRelease(s, k) =>
                  HasRelease(Tail(s), k) \/ (~Head(s).press /\ Head(s).key = k)
           /\ \A h : RepeatsLastOnly(s, h) =>
                  /\ RepeatsLastOnly(Tail(s), h)
                  /\ Head(s).press /\ Head(s).key \notin Modifiers => Head(s).key \in h
<1> DEFINE t == Tail(s)
<1>1. /\ Len(s) \in Nat /\ Len(s) >= 1 /\ Len(t) = Len(s) - 1
      /\ \A i \in 1..Len(t) : t[i] = s[i+1]
      /\ Head(s) = s[1]
  OBVIOUS
<1> HIDE DEF t
<1>2. \A i \in 1..Len(s) : i = 1 \/ (i - 1 \in 1..Len(t) /\ t[i-1] = s[i])
  BY <1>1
<1>3. 1 \in 1..Len(s) /\ \A i \in 1..Len(t) : i + 1 \in 1..Len(s) /\ (i + 1 = Len(s) => i = Len(t))
  BY <1>1
<1>4. ASSUME NEW k, HasRelease(s, k), Head(s).press \/ Head(s).key # k
      PROVE  HasRelease(t, k)
  <2>1. PICK i \in 1..Len(s) : ~s[i].press /\ s[i].key = k
    BY <1>4 DEF HasRelease
  <2>2. i - 1 \in 1..Len(t) /\ t[i-1] = s[i]
    BY <1>1, <1>2, <1>4, <2>1
  <2> QED
    BY <2>1, <2>2 DEF HasRelease
<1>5. ASSUME NEW h, RepeatsLastOnly(s, h)
      PROVE  /\ RepeatsLastOnly(t, h)
             /\ Head(s).press /\ Head(s).key \notin Modifiers => Head(s).key \in h
  BY <1>1, <1>3, <1>5 DEF RepeatsLastOnly
<1> QED
  BY <1>4, <1>5 DEF t

(* The way of an event through the arbiter: it goes to the router after    *)
(* what was kept; it is kept; it is the last of the chord; or, without a   *)
(* focused context, it is dropped.                                         *)
Passes(e) == todo' = Append(buffer, e) /\ buffer' = <<>> /\ repeat' = repeat

Waits(e) ==
    /\ buffer' = Append(buffer, e) /\ (e.press => e.key \in Chord)
    /\ UNCHANGED <<todo, repeat>>

Ends(e) ==
    /\ xkb /\ routable /\ ~e.press /\ buffer # <<>>
    /\ phys \subseteq {e.key}
    /\ buffer' = <<>> /\ UNCHANGED <<todo, repeat, xkbmods>>

Lost(e) ==
    /\ UNCHANGED <<buffer, todo>>
    /\ repeat' \in {repeat, NoKey}
    /\ ~e.press /\ repeat = e.key => repeat' = NoKey

(* Every event goes one of these ways (typio_wl_key_arbiter_process).      *)
LEMMA EventWays ==
    ASSUME TypeOK, GrabInv, NotFull, xkb, routable, UNCHANGED xkbmods,
           NEW k \in Keys, NEW press \in BOOLEAN,
           DispatchKey(k, press)
    PROVE  \E e \in Events : /\ e.key = k /\ e.press = press
                             /\ Passes(e) \/ Waits(e) \/ Ends(e)
<1> DEFINE e == [press |-> press, key |-> k,
                 mods |-> EffectiveModifiers(k, press)]
           p == PhysAfter(k, press)
<1>1. EffectiveModifiers(k, press) \subseteq Modifiers
  BY KeysAssumption DEF EffectiveModifiers, TypeOK
<1>2. e \in Events /\ e.key = k /\ e.press = press
  BY <1>1 DEF Events
<1>3. Append(<<>>, e) = <<e>>
  BY <1>2
<1>4. /\ IF press THEN ArbiterPress(e, p) ELSE ArbiterRelease(e, p)
      /\ repeat' = repeat
  BY DEF DispatchKey, PhysAfter
<1>5. Push(e) = Append(buffer, e)
  BY DEF Push, NotFull
<1>6. repeat' = repeat
  BY <1>4
<1> HIDE DEF e
<1>7. CASE press
  <2>1. ArbiterPress(e, p)
    BY <1>4, <1>7
  <2>2. CASE buffer = <<>>
    BY <1>2, <1>3, <1>4, <2>1, <2>2
       DEF ArbiterPress, StartsBuffering, Passes, Waits
  <2>3. CASE buffer # <<>>
    BY <1>2, <1>4, <1>5, <1>7, <2>1, <2>3
       DEF ArbiterPress, CancelsBuffering, Replay, Passes, Waits
  <2> QED
    BY <1>2, <2>2, <2>3
<1>8. CASE ~press
  <2>1. ArbiterRelease(e, p)
    BY <1>4, <1>8
  <2>2. CASE buffer = <<>> /\ todo' = <<e>> /\ UNCHANGED buffer
    BY <1>2, <1>3, <1>6, <2>2 DEF Passes
  <2>3. CASE Replay(e)
    BY <1>2, <1>6, <2>3 DEF Replay, Passes
  <2>4. CASE /\ buffer # <<>> /\ ~CancelsBuffering(e, p)
             /\ IF p \cap Chord = {}
                THEN Consume(Push(e))
                ELSE buffer' = Push(e) /\ UNCHANGED todo
    <3>1. CASE p \cap Chord = {}
      <4>1. p = {}
        BY <2>4, <3>1 DEF CancelsBuffering
      <4>2. phys \subseteq {k}
        BY <1>8, <4>1 DEF PhysAfter
      <4>3. buffer' = <<>> /\ todo' = todo
        BY <2>4, <3>1 DEF Consume
      <4> QED
        BY <1>2, <1>4, <1>8, <2>4, <4>2, <4>3 DEF Ends
    <3>2. CASE p \cap Chord # {}
      BY <1>2, <1>4, <1>5, <1>8, <2>4, <3>2 DEF Waits
    <3> QED
      BY <3>1, <3>2
  <2> QED
    BY <2>1, <2>2, <2>3, <2>4 DEF ArbiterRelease
<1> QED
  BY <1>7, <1>8

KeyGoes(k) ==
    \E e \in Events : /\ e.key = k /\ KeyStep(k, e.press)
                      /\ e.press => k \in held'
                      /\ Passes(e) \/ Waits(e) \/ Ends(e) \/ Lost(e)

(* So does every key the compositor sends, or it is lost.                  *)
LEMMA KeyWays ==
    ASSUME TypeOK, GrabInv, NotFull, NEW k \in Keys,
           PressKey(k) \/ ReleaseKey(k) \/ ResendKey(k)
    PROVE  KeyGoes(k)
<1>1. PICK press \in BOOLEAN :
          /\ KeyStep(k, press) /\ (press => k \in held')
          /\ OnKey(k, press) \/ (~live /\ UNCHANGED <<buffer, todo, repeat>>)
  <2>1. CASE PressKey(k)
    <3>1. KeyEvent(k, TRUE)
      BY <2>1, KeyCases DEF PressKey
    <3> QED
      BY <2>1, <3>1 DEF PressKey, KeyMoves, KeyStep, Ready
  <2>2. CASE ReleaseKey(k)
    <3>1. KeyEvent(k, FALSE)
      BY <2>2, KeyCases DEF ReleaseKey
    <3> QED
      BY <2>2, <3>1 DEF ReleaseKey, KeyMoves, KeyStep, Ready
  <2>3. CASE ResendKey(k)
    <3>1. KeyEvent(k, TRUE)
      BY <2>3, KeyCases
    <3>2. held' = held \cup {k}
      BY <2>3 DEF ResendKey, TypeOK
    <3> QED
      BY <2>3, <3>1, <3>2 DEF ResendKey, KeyStep, Ready
  <2> QED
    BY <2>1, <2>2, <2>3
<1>2. ASSUME NEW e \in Events, e.key = k, e.press = press, Lost(e)
      PROVE  KeyGoes(k)
  BY <1>1, <1>2 DEF KeyGoes
<1>3. \E e \in Events : e.key = k /\ e.press = press
  <2>1. [press |-> press, key |-> k, mods |-> {}] \in Events
    BY DEF Events
  <2> QED
    BY <2>1
<1>4. repeat # NoKey => xkb /\ live
  BY DEF GrabInv
<1>5. CASE OnKey(k, press)
  <2>1. CASE xkb /\ routable
    <3>1. DispatchKey(k, press) /\ UNCHANGED xkbmods
      BY <1>5, <2>1 DEF OnKey, xkbVars
    <3> QED
      BY <1>1, <2>1, <3>1, EventWays DEF KeyGoes
  <2>2. CASE ~(xkb /\ routable)
    <3>1. ASSUME NEW e \in Events, e.key = k, e.press = press
          PROVE  Lost(e)
      BY <1>4, <1>5, <2>2, <3>1 DEF OnKey, RejectKey, StopsRepeatOnReject, Lost
    <3> QED
      BY <1>2, <1>3, <3>1
  <2> QED
    BY <2>1, <2>2
<1>6. CASE ~live /\ UNCHANGED <<buffer, todo, repeat>>
  <2>1. ASSUME NEW e \in Events, e.key = k, e.press = press
        PROVE  Lost(e)
    BY <1>4, <1>6, <2>1 DEF Lost
  <2> QED
    BY <1>2, <1>3, <2>1
<1> QED
  BY <1>1, <1>5, <1>6

(* A key that ends its chord while another repeats was the last of the     *)
(* chord down, Ctrl, Alt or Super: its modifiers event stops the repeat.   *)
LEMMA ChordEndStops ==
    ASSUME ChordBlocks, TypeOK, GrabInv, RepeatInv, repeat # NoKey,
           NEW k \in Keys, NEW press \in BOOLEAN, KeyStep(k, press),
           NEW e \in Events, e.key = k, e.press = press, Ends(e)
    PROVE  RepeatEnds' /\ k \in Modifiers
<1>1. xkb /\ routable /\ live /\ ~press /\ buffer # <<>> /\ phys \subseteq {k}
  BY DEF Ends, GrabInv
<1>2. ~mods_due /\ k \in held /\ held' = held \ {k} /\ (k \in Modifiers => mods_due')
  BY <1>1 DEF KeyStep
<1>3. Chord \cap Blocking \subseteq phys
  BY <1>1, <1>2 DEF RepeatInv, RepeatEnds
<1>4. k \in Blocking /\ k \in Modifiers
  BY <1>1, <1>3, KeysAssumption DEF ChordBlocks
<1>5. k \in xkbmods /\ xkbmods' = xkbmods
  BY <1>1, <1>2, <1>4 DEF GrabInv, Ends
<1> QED
  BY <1>2, <1>4, <1>5 DEF RepeatEnds

(* A key that moves leaves the release of the one that repeats to come.    *)
LEMMA HeldKey ==
    ASSUME ChordBlocks, TypeOK, GrabInv, RepeatInv, HeldInv, NotFull,
           NEW k \in Keys, KeyGoes(k)
    PROVE  HeldInv'
<1>1. PICK e \in Events :
          /\ e.key = k /\ KeyStep(k, e.press) /\ (e.press => k \in held')
          /\ Passes(e) \/ Waits(e) \/ Ends(e) \/ Lost(e)
  BY DEF KeyGoes
<1>2. e.press \in BOOLEAN
  BY DEF Events
<1>3. /\ buffer \in Seq(Events) /\ todo = <<>> /\ ~RepeatEnds
      /\ \A h : RepeatsLastOnly(<<>>, h)
      /\ \A j : ~HasRelease(<<>>, j)
      /\ PressesChordOnly(<<>>) /\ PressesChordOnly(buffer)
  BY <1>1 DEF TypeOK, KeyStep, RepeatEnds, RepeatsLastOnly, HasRelease,
     PressesChordOnly, HeldInv
<1>4. \A j : j \in held /\ j \notin held' => j = k /\ ~e.press
  BY <1>1, <1>2 DEF KeyStep
<1>5. repeat # NoKey =>
          repeat \notin Modifiers /\ (repeat \in held \/ HasRelease(buffer, repeat))
  BY <1>3 DEF HeldInv
<1>6. /\ \A j : HasRelease(buffer, j) => HasRelease(Append(buffer, e), j)
      /\ ~e.press => HasRelease(Append(buffer, e), k)
      /\ (e.press => k \in Chord) => PressesChordOnly(Append(buffer, e))
      /\ RepeatsLastOnly(Append(buffer, e), held')
  BY <1>1, <1>3, Appended
<1>7. CASE Passes(e)
  BY <1>3, <1>4, <1>5, <1>6, <1>7 DEF Passes, HeldInv
<1>8. CASE Waits(e)
  BY <1>1, <1>3, <1>4, <1>5, <1>6, <1>8 DEF Waits, HeldInv
<1>9. CASE Ends(e)
  <2>1. repeat # NoKey => RepeatEnds'
    BY <1>1, <1>2, <1>9, ChordEndStops
  <2> QED
    BY <1>3, <1>5, <1>9, <2>1 DEF Ends, HeldInv
<1>10. CASE Lost(e)
  <2>1. repeat' # NoKey => repeat' = repeat /\ ~(~e.press /\ repeat = k)
    BY <1>1, <1>10 DEF Lost
  <2> QED
    BY <1>3, <1>4, <1>5, <1>10, <2>1 DEF Lost, HeldInv
<1> QED
  BY <1>1, <1>7, <1>8, <1>9, <1>10

(* A routed press starts to repeat a key that is down, or leaves the       *)
(* repeat as it was.                                                       *)
LEMMA HeldPress ==
    ASSUME TypeOK, HeldInv, RoutePress
    PROVE  HeldInv'
<1> DEFINE e == Head(todo)
<1>1. /\ todo \in Seq(Events) /\ todo # <<>> /\ e.press /\ todo' = Tail(todo)
      /\ UNCHANGED <<held, mods_due, xkbmods, buffer>>
  BY DEF RoutePress, TypeOK, envVars, xkbVars
<1>2. repeat' = repeat \/ (repeat' = e.key /\ e.key \notin Modifiers)
  BY DEF RoutePress, RepeatAfterPress, StartsRepeat
<1>3. /\ \A k : HasRelease(todo, k) => HasRelease(Tail(todo), k)
      /\ RepeatsLastOnly(Tail(todo), held)
      /\ e.key \notin Modifiers => e.key \in held
  BY <1>1, Taken DEF HeldInv
<1> HIDE DEF e
<1>4. RepeatEnds' = RepeatEnds
  BY <1>1 DEF RepeatEnds
<1> QED
  BY <1>1, <1>2, <1>3, <1>4 DEF HeldInv

(* A routed release stops the repeat of its key, and of no other.          *)
LEMMA HeldRelease ==
    ASSUME TypeOK, HeldInv, RouteRelease
    PROVE  HeldInv'
<1> DEFINE e == Head(todo)
<1>1. /\ todo \in Seq(Events) /\ todo # <<>> /\ ~e.press /\ todo' = Tail(todo)
      /\ UNCHANGED <<held, mods_due, xkbmods, buffer>>
  BY DEF RouteRelease, TypeOK, envVars, xkbVars
<1>2. repeat' = IF repeat = e.key THEN NoKey ELSE repeat
  BY DEF RouteRelease
<1>3. /\ \A k : HasRelease(todo, k) => HasRelease(Tail(todo), k) \/ e.key = k
      /\ RepeatsLastOnly(Tail(todo), held)
  BY <1>1, Taken DEF HeldInv
<1> HIDE DEF e
<1>4. RepeatEnds' = RepeatEnds
  BY <1>1 DEF RepeatEnds
<1> QED
  BY <1>1, <1>2, <1>3, <1>4 DEF HeldInv

(* The keyboard forgets its repeat, and what it kept, with its grab.       *)
LEMMA HeldReset ==
    ASSUME todo' = <<>>, buffer' = <<>>, repeat' = NoKey
    PROVE  HeldInv'
  BY DEF HeldInv, PressesChordOnly, RepeatsLastOnly

(* Every step keeps the repeat and the release that ends it together.      *)
LEMMA HeldStep ==
    ChordBlocks /\ NotFull /\ IInv /\ HeldInv /\ [Next]_vars => HeldInv'
<1> SUFFICES ASSUME ChordBlocks, NotFull, IInv, HeldInv, [Next]_vars
             PROVE  HeldInv'
  OBVIOUS
<1> USE DEF IInv
<1>1. ASSUME NEW k \in Keys, PressKey(k) \/ ReleaseKey(k) \/ ResendKey(k)
      PROVE  HeldInv'
  BY <1>1, KeyWays, HeldKey
<1>2. CASE RoutePress
  BY <1>2, HeldPress
<1>3. CASE RouteRelease
  BY <1>3, HeldRelease
<1>4. CASE DispatchRepeat
  <2>1. /\ repeat' \in {repeat, NoKey}
        /\ UNCHANGED <<held, mods_due, xkbmods, buffer, todo>>
    BY <1>4 DEF DispatchRepeat, RepeatSentKey, RepeatSuppressedKey,
       RepeatEngineKey, envVars, xkbVars
  <2> QED
    BY <2>1 DEF HeldInv, RepeatEnds
<1>5. CASE OnKeymap
  <2>1. ~RepeatEnds /\ UNCHANGED <<held, buffer, todo, repeat>>
    BY <1>5 DEF OnKeymap, RepeatEnds
  <2> QED
    BY <2>1 DEF HeldInv
<1>6. CASE OnModifiers
  <2>1. /\ UNCHANGED <<held, buffer, todo>>
        /\ repeat' \in {repeat, NoKey}
    BY <1>6 DEF OnModifiers
  <2>2. repeat' # NoKey => ~RepeatEnds
    <3>1. SUFFICES ASSUME repeat' # NoKey
                   PROVE  ~RepeatEnds
      OBVIOUS
    <3>2. xkbmods' = held \cap Modifiers
      BY <1>6, <3>1 DEF OnModifiers, GrabInv
    <3>3. xkbmods \cap Blocking = held \cap Blocking
      BY <1>6, <3>1, <3>2, KeysAssumption DEF OnModifiers
    <3> QED
      BY <3>3 DEF RepeatEnds
  <2> QED
    BY <2>1, <2>2 DEF HeldInv
<1>7. CASE WindowElapses
  BY <1>7 DEF WindowElapses, HeldInv, RepeatEnds, xkbVars
<1>8. CASE EndGrab \/ NewGrab \/ Resume
  <2>1. todo' = <<>> /\ buffer' = <<>> /\ repeat' = NoKey
    BY <1>8 DEF EndGrab, NewGrab, Resume, RebuildGrab, HardReset, Ready
  <2> QED
    BY <2>1, HeldReset
<1>9. CASE Deactivated
  BY <1>9 DEF Deactivated, HeldInv, RepeatEnds, xkbVars, envVars
<1>10. CASE UNCHANGED vars
  BY <1>10 DEF vars, HeldInv, RepeatEnds, xkbVars, envVars
<1> QED
  BY <1>1, <1>2, <1>3, <1>4, <1>5, <1>6, <1>7, <1>8, <1>9, <1>10 DEF Next

(* A key repeats only while it is down or its release waits in the         *)
(* arbiter, through chords, rejected keys, modifiers and grabs that come   *)
(* and go (process_key_release, on_key, on_modifiers, arbiter_consume),    *)
(* in every run whose buffer never fills: a full one drops the release     *)
(* (arbiter_buffer_push).                                                  *)
THEOREM RepeatsWhileHeld ==
    ASSUME ChordBlocks PROVE Spec /\ []NotFull => []RepeatingKeyIsHeld
<1>1. Init => HeldInv
  BY DEF Init, HeldInv, PressesChordOnly, RepeatsLastOnly
<1>2. NotFull /\ IInv /\ HeldInv /\ [Next]_vars => HeldInv'
  BY HeldStep
<1>3. HeldInv => RepeatingKeyIsHeld
  BY DEF HeldInv, RepeatingKeyIsHeld, HasRelease, ReleaseIsBuffered, RepeatEnds
<1>4. Spec => []IInv
  BY SpecIInv
<1> QED
  BY <1>1, <1>2, <1>3, <1>4, PTL DEF Spec
=============================================================================
