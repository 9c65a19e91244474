-------------------------- MODULE EngineManagerProofs --------------------------
(***************************************************************************)
(* Proofs about the engine manager, for every set of engines, whichever of *)
(* them are missing, unfit or fail to initialize, and every configuration. *)
(*                                                                         *)
(* The handlers are compositions of calls from record to record, so the    *)
(* proof goes call by call: a lemma says of each operator what it makes of *)
(* a record that satisfies the invariant, and the steps use the lemmas.    *)
(*                                                                         *)
(* The surfaces follow in the same way.  What the controller's cache holds *)
(* after a handler is a fold over the callbacks the handler made, so each  *)
(* operator has a second lemma: the cache that heard its callbacks shows   *)
(* the record it returns.                                                  *)
(*                                                                         *)
(* The memory of the applications is a fold over the same callbacks; its   *)
(* third lemma for an operator says what the callbacks leave in the entry  *)
(* of the application in focus.                                            *)
(***************************************************************************)
EXTENDS StatusSurfaces, EngineMemory, SequenceLemmas, FiniteSetTheorems

(* What a callback of a kind is about.                                     *)
About(kind, what) ==
    /\ kind \in {"mode", "voice", "engine"}
    /\ what \in Engines \cup ModeNames
    /\ kind = "mode" => what \in ModeNames

(* A callback as it was made.                                              *)
Event ==
    {event \in [kind : {"mode", "voice", "engine"}, what : Engines \cup ModeNames,
                engine : Keyboards \cup {NoEngine}, voice : Voices \cup {NoEngine},
                mode : ModeNames] :
       About(event.kind, event.what)}

MgrType ==
    [created : SUBSET Engines, initialized : SUBSET Engines,
     active : SUBSET Engines,
     keyboard : Keyboards \cup {NoEngine}, voice : Voices \cup {NoEngine},
     rapid : BOOLEAN, recent : Recents,
     focused : BOOLEAN, shown : Keyboards \cup {NoEngine},
     sessions : SUBSET Moded, mode : [Moded -> Modes], last_mode : ModeNames,
     result : {"ok", "error"}, events : Seq(Event)]

(* The flags of the wrappers agree with the slots.                         *)
Slotted(m) ==
    /\ m.active = {m.keyboard, m.voice} \ {NoEngine}
    /\ m.active \subseteq m.initialized
    /\ m.initialized \subseteq m.created

(* The composition on screen is the active engine's.                       *)
Composed(m) == m.shown # NoEngine => m.shown = m.keyboard /\ m.focused

SlotsOK(m) == m \in MgrType /\ Slotted(m)

MgrOK(m) == SlotsOK(m) /\ Composed(m)

ConfigType == [default : Engines \cup {NoEngine},
               voice : Engines \cup {NoEngine},
               order : Seq(Engines), prefs : BOOLEAN]

(* The inductive invariant of the manager.                                 *)
IInv ==
    /\ MgrOK(mgr)
    /\ saved \in Recents
    /\ config \in ConfigType
    /\ typed \in Seq(Engines) /\ cycle \in Seq(Engines)

(* What the engines' own operations never touch.                           *)
Frame(m, r) ==
    /\ r.keyboard = m.keyboard /\ r.voice = m.voice /\ r.focused = m.focused
    /\ r.result = m.result /\ r.recent = m.recent

-----------------------------------------------------------------------------
(* What follows from the assumptions.                                      *)
LEMMA EngineKinds ==
    /\ Keyboards \subseteq Engines /\ Voices \subseteq Engines
    /\ NoEngine \notin Keyboards /\ NoEngine \notin Voices
    /\ Moded \subseteq Keyboards /\ Announcing \subseteq Moded
    /\ \A e \in Engines : e \in Voices <=> e \notin Keyboards
    /\ NoMode \in ModeNames
  BY EnginesAssumption DEF Voices, ModeNames

(* A callback adds to the events and changes nothing else.                 *)
LEMMA EmitOK ==
    ASSUME NEW m \in MgrType, NEW kind, NEW what, About(kind, what)
    PROVE  Emit(m, kind, what) \in MgrType
<1> DEFINE e == [kind |-> kind, what |-> what, engine |-> m.keyboard,
                 voice |-> m.voice, mode |-> m.last_mode]
<1>1. e \in Event
  BY DEF MgrType, Event, About
<1>2. Append(m.events, e) \in Seq(Event)
  BY <1>1 DEF MgrType
<1> HIDE DEF e
<1> QED
  BY <1>2 DEF Emit, MgrType, e

(* A callback changes nothing of the slots.                                *)
LEMMA EmitSlotsOK ==
    ASSUME NEW m, SlotsOK(m), NEW kind, NEW what, About(kind, what)
    PROVE  LET r == Emit(m, kind, what)
           IN  SlotsOK(r) /\ Frame(m, r) /\ r.shown = m.shown
<1>1. Emit(m, kind, what) \in MgrType
  BY EmitOK DEF SlotsOK
<1> QED
  BY <1>1 DEF Emit, SlotsOK, MgrType, Slotted, Frame

(* typio_instance_notify_mode.                                             *)
LEMMA NotifyModeOK ==
    ASSUME NEW m, SlotsOK(m), NEW mode \in ModeNames
    PROVE  LET r == NotifyMode(m, mode)
           IN  SlotsOK(r) /\ Frame(m, r) /\ r.shown = m.shown
<1> DEFINE n == [m EXCEPT !.last_mode = mode]
<1>1. SlotsOK(n) /\ Frame(m, n) /\ n.shown = m.shown
  BY DEF SlotsOK, MgrType, Slotted, Frame
<1>2. Emit(n, "mode", mode) \in MgrType
  BY <1>1, EmitOK DEF SlotsOK, About
<1> HIDE DEF n
<1>3. SlotsOK(Emit(n, "mode", mode)) /\ Frame(m, Emit(n, "mode", mode))
      /\ Emit(n, "mode", mode).shown = m.shown
  BY <1>1, <1>2 DEF SlotsOK, MgrType, Slotted, Frame, Emit
<1> QED
  BY <1>3 DEF NotifyMode, Frame, n

(* typio_rime_get_session and mozc_get_session, and with them focus_in.    *)
LEMMA OpenSessionOK ==
    ASSUME NEW m, SlotsOK(m), NEW e
    PROVE  LET r == OpenSession(m, e)
           IN  SlotsOK(r) /\ Frame(m, r) /\ r.shown = m.shown
<1>1. CASE e \notin Moded \ m.sessions
  BY <1>1 DEF OpenSession, Frame
<1>2. CASE e \in Moded \ m.sessions
  <2> DEFINE n == [m EXCEPT !.sessions = @ \cup {e}]
  <2>1. SlotsOK(n) /\ Frame(m, n) /\ n.shown = m.shown
    BY <1>2 DEF SlotsOK, MgrType, Slotted, Frame
  <2>2. ModeOf(m, e) \in ModeNames
    BY <1>2 DEF ModeOf, ModeNames, SlotsOK, MgrType
  <2> HIDE DEF n
  <2>3. LET r == NotifyMode(n, ModeOf(m, e))
        IN  SlotsOK(r) /\ Frame(m, r) /\ r.shown = m.shown
    BY <2>1, <2>2, NotifyModeOK DEF Frame
  <2> QED
    BY <1>2, <2>1, <2>3 DEF OpenSession, n
<1> QED
  BY <1>1, <1>2

(* reset and focus_out clear the composition of the engine they are for.   *)
LEMMA EngineResetOK ==
    ASSUME NEW m, SlotsOK(m), NEW e
    PROVE  LET r == EngineReset(m, e)
           IN  /\ SlotsOK(r) /\ Frame(m, r)
               /\ r.shown \in {m.shown, NoEngine}
               /\ m.shown = e => r.shown = NoEngine
<1> DEFINE c == IF e \in Moded \/ m.shown = e
                THEN [m EXCEPT !.shown = NoEngine] ELSE m
<1>1. /\ SlotsOK(c) /\ Frame(m, c) /\ c.shown \in {m.shown, NoEngine}
      /\ m.shown = e => c.shown = NoEngine
  BY DEF SlotsOK, MgrType, Slotted, Frame
<1>2. e \in Announcing \cap m.sessions => ModeOf(m, e) \in ModeNames
  BY EngineKinds DEF ModeOf, ModeNames, SlotsOK, MgrType
<1> HIDE DEF c
<1>3. e \in Announcing \cap m.sessions
      => LET r == NotifyMode(c, ModeOf(m, e))
         IN  SlotsOK(r) /\ Frame(c, r) /\ r.shown = c.shown
  BY <1>1, <1>2, NotifyModeOK
<1> QED
  BY <1>1, <1>3 DEF EngineReset, Frame, c

(* Rime's reload drops the composition, the others' leave it.              *)
LEMMA EngineReloadOK ==
    ASSUME NEW m, SlotsOK(m), NEW e
    PROVE  LET r == EngineReload(m, e)
           IN  SlotsOK(r) /\ Frame(m, r) /\ r.shown \in {m.shown, NoEngine}
<1> DEFINE o == OpenSession(m, e)
<1>1. SlotsOK(o) /\ Frame(m, o) /\ o.shown = m.shown
  BY OpenSessionOK
<1> HIDE DEF o
<1>2. LET r == [o EXCEPT !.shown = NoEngine]
      IN  SlotsOK(r) /\ Frame(m, r) /\ r.shown = NoEngine
  BY <1>1 DEF SlotsOK, MgrType, Slotted, Frame
<1> QED
  BY <1>2 DEF EngineReload, Frame, o

(* typio_input_context_focus_in and _focus_out.                            *)
LEMMA ContextFocusInOK ==
    ASSUME NEW m, MgrOK(m)
    PROVE  MgrOK(ContextFocusIn(m)) /\ ContextFocusIn(m).result = m.result
<1> DEFINE f == [m EXCEPT !.focused = TRUE]
<1>1. MgrOK(f) /\ f.result = m.result
  BY DEF MgrOK, SlotsOK, MgrType, Slotted, Composed
<1>2. LET r == OpenSession(f, m.keyboard)
      IN  MgrOK(r) /\ r.result = m.result
  <2> HIDE DEF f
  <2> QED
    BY <1>1, OpenSessionOK DEF MgrOK, Composed, Frame
<1> QED
  BY <1>2 DEF ContextFocusIn, EngineFocusIn

(* typio_input_context_focus_out takes the composition down.               *)
LEMMA ContextFocusOutOK ==
    ASSUME NEW m, MgrOK(m)
    PROVE  MgrOK(ContextFocusOut(m)) /\ ContextFocusOut(m).result = m.result
<1> DEFINE l == IF m.keyboard = NoEngine THEN m
                ELSE EngineReset(m, m.keyboard)
<1>1. SlotsOK(l) /\ l.result = m.result /\ l.shown = NoEngine
  BY EngineResetOK DEF Frame, MgrOK, Composed
<1> HIDE DEF l
<1>2. LET r == [l EXCEPT !.focused = FALSE]
      IN  MgrOK(r) /\ r.result = m.result
  BY <1>1 DEF MgrOK, SlotsOK, MgrType, Slotted, Composed
<1> QED
  BY <1>1, <1>2 DEF ContextFocusOut, EngineFocusOut, l

(* rebind_focused_context: the old engine is in no slot any more, and its  *)
(* composition, the only one there can be, is cleared on the way.          *)
LEMMA RebindContextOK ==
    ASSUME NEW m, SlotsOK(m), NEW old,
           m.keyboard \in Keyboards,
           m.shown # NoEngine => m.shown = old /\ m.focused
    PROVE  LET r == RebindContext(m, old)
           IN  MgrOK(r) /\ Frame(m, r)
<1>1. CASE ~m.focused
  BY <1>1 DEF RebindContext, MgrOK, Composed, Frame
<1>2. CASE m.focused
  <2> DEFINE new     == m.keyboard
             left    == IF old = NoEngine THEN m ELSE EngineFocusOut(m, old)
             unmoded == ClearMode(left)
             clear   == EngineReset(unmoded, new)
             entered == EngineFocusIn(clear, new)
  <2>1. SlotsOK(left) /\ Frame(m, left) /\ left.shown = NoEngine
    BY EngineResetOK DEF EngineFocusOut, Frame
  <2>2. SlotsOK(unmoded) /\ Frame(m, unmoded) /\ unmoded.shown = NoEngine
    <3> HIDE DEF left
    <3> QED
      BY <2>1, EngineKinds DEF ClearMode, SlotsOK, MgrType, Slotted, Frame
  <2>3. SlotsOK(clear) /\ Frame(m, clear) /\ clear.shown = NoEngine
    <3> HIDE DEF unmoded
    <3> QED
      BY <2>2, EngineResetOK DEF Frame
  <2>4. SlotsOK(entered) /\ Frame(m, entered) /\ entered.shown = NoEngine
    <3> HIDE DEF clear
    <3> QED
      BY <2>3, OpenSessionOK DEF Frame, EngineFocusIn
  <2> HIDE DEF entered
  <2>5. new \in Moded => ModeOf(entered, new) \in ModeNames
    BY <2>4 DEF ModeOf, ModeNames, SlotsOK, MgrType
  <2>6. new \in Moded
        => LET r == NotifyMode(entered, ModeOf(entered, new))
           IN  SlotsOK(r) /\ Frame(m, r) /\ r.shown = NoEngine
    BY <2>4, <2>5, NotifyModeOK DEF Frame
  <2>7. RebindContext(m, old) = IF new \in Moded
                                THEN NotifyMode(entered, ModeOf(entered, new))
                                ELSE entered
    BY <1>2 DEF RebindContext, entered
  <2> QED
    BY <2>4, <2>6, <2>7 DEF MgrOK, Composed
<1> QED
  BY <1>1, <1>2 DEF SlotsOK, MgrType

-----------------------------------------------------------------------------
(* Switching.                                                              *)

(* What a failed switch leaves alone, with the callbacks.                  *)
Unmoved(m, r) ==
    /\ \A f \in {"keyboard", "voice", "active", "rapid", "recent", "focused",
                 "shown", "sessions", "mode", "last_mode"} : r[f] = m[f]
    /\ r.events = m.events

(* The old engine stopped, the new one created and started: what there is  *)
(* of that when the start fails, and when it succeeds.                     *)
FailedStart(m, current, s) ==
    \E C \in SUBSET Engines :
        /\ m.created \subseteq C
        /\ s = [m EXCEPT !.active = @ \ {current}, !.created = C,
                         !.result = "error"]

DoneStart(m, current, e, s) ==
    \E C \in SUBSET Engines :
        /\ m.created \subseteq C /\ e \in C
        /\ s = [m EXCEPT !.active = (@ \ {current}) \cup {e}, !.created = C,
                         !.initialized = @ \cup {e}]

(* ensure_instance and activate.                                           *)
LEMMA StartOK ==
    ASSUME NEW m, m \in MgrType, m.result = "ok",
           NEW e \in Engines, NEW current, NEW ok
    PROVE  LET ready == EnsureInstance([m EXCEPT !.active = @ \ {current}], e)
               s == IF ready.result = "ok" THEN Activate(ready, e, ok) ELSE ready
           IN  \/ s.result = "error" /\ FailedStart(m, current, s)
               \/ s.result = "ok" /\ DoneStart(m, current, e, s)
<1> DEFINE stopped == [m EXCEPT !.active = @ \ {current}]
           ready == EnsureInstance(stopped, e)
           s == IF ready.result = "ok" THEN Activate(ready, e, ok) ELSE ready
<1>1. \E C \in SUBSET Engines, R \in {"ok", "error"} :
         /\ m.created \subseteq C /\ (R = "ok" => e \in C)
         /\ ready = [m EXCEPT !.active = @ \ {current}, !.created = C, !.result = R]
  <2>1. CASE e \in m.created
    <3>1. ready = [m EXCEPT !.active = @ \ {current}, !.created = m.created,
                            !.result = "ok"]
      BY <2>1 DEF EnsureInstance, MgrType
    <3> QED
      BY <2>1, <3>1 DEF MgrType
  <2>2. CASE e \notin m.created /\ e \in Missing
    <3>1. ready = [m EXCEPT !.active = @ \ {current}, !.created = m.created,
                            !.result = "error"]
      BY <2>2 DEF EnsureInstance, Fail, MgrType
    <3> QED
      BY <3>1 DEF MgrType
  <2>3. CASE e \notin m.created /\ e \notin Missing
    <3>1. ready = [m EXCEPT !.active = @ \ {current},
                            !.created = m.created \cup {e},
                            !.result = IF e \in Unfit THEN "error" ELSE "ok"]
      BY <2>3 DEF EnsureInstance, Fail, MgrType
    <3> QED
      BY <3>1 DEF MgrType
  <2> QED
    BY <2>1, <2>2, <2>3
<1>2. PICK C \in SUBSET Engines, R \in {"ok", "error"} :
         /\ m.created \subseteq C /\ (R = "ok" => e \in C)
         /\ ready = [m EXCEPT !.active = @ \ {current}, !.created = C, !.result = R]
  BY <1>1
<1> HIDE DEF ready
<1>3. CASE R = "error"
  <2>1. ready = [m EXCEPT !.active = @ \ {current}, !.created = C, !.result = "error"]
    BY <1>2, <1>3
  <2>2. ready.result = "error"
    BY <2>1 DEF MgrType
  <2>3. s = ready
    BY <2>2
  <2>4. FailedStart(m, current, s)
    <3> HIDE DEF s
    <3> QED
      BY <1>2, <2>1, <2>3 DEF FailedStart
  <2> QED
    BY <2>2, <2>3, <2>4 DEF ready
<1>4. CASE R = "ok" /\ ~Inits(ready, e, ok)
  <2>1. s = [m EXCEPT !.active = @ \ {current}, !.created = C, !.result = "error"]
    BY <1>2, <1>4 DEF Activate, Fail, MgrType
  <2> QED
    BY <1>2, <2>1 DEF FailedStart, MgrType, ready
<1>5. CASE R = "ok" /\ Inits(ready, e, ok)
  <2>1. s = [m EXCEPT !.active = (@ \ {current}) \cup {e}, !.created = C,
                      !.initialized = @ \cup {e}]
    BY <1>2, <1>5 DEF Activate, MgrType
  <2> QED
    BY <1>2, <1>5, <2>1 DEF DoneStart, MgrType, ready
<1> QED
  BY <1>2, <1>3, <1>4, <1>5 DEF ready

(* The slots and the flags once the new engine runs: what the callbacks and *)
(* the focused context then find.                                          *)
Switched(m, e, current, started) ==
    /\ e \in Voices =>
         LET n == [started EXCEPT !.voice = e]
         IN  /\ SlotsOK(n) /\ Composed(n) /\ n.result = "ok"
             /\ n.recent = m.recent /\ n.focused = m.focused
             /\ n.keyboard = m.keyboard /\ n.voice = e
             /\ n.events = m.events /\ n.last_mode = m.last_mode
    /\ e \in Keyboards =>
         LET n == ClearMode([started EXCEPT !.keyboard = e, !.rapid = TRUE])
         IN  /\ SlotsOK(n) /\ n.result = "ok" /\ n.recent = m.recent
             /\ n.focused = m.focused /\ n.keyboard = e
             /\ n.shown # NoEngine => n.shown = current /\ n.focused
             /\ n.voice = m.voice /\ n.events = m.events

(* That is what they are when nothing failed.                               *)
LEMMA SwitchDone ==
    ASSUME NEW m, MgrOK(m), m.result = "ok", NEW e \in Engines,
           NEW current, current = IF e \in Keyboards THEN m.keyboard ELSE m.voice,
           current # e, NEW started, DoneStart(m, current, e, started)
    PROVE  Switched(m, e, current, started)
<1>1. PICK C \in SUBSET Engines :
        /\ m.created \subseteq C /\ e \in C
        /\ started = [m EXCEPT !.active = (@ \ {current}) \cup {e}, !.created = C,
                               !.initialized = @ \cup {e}]
  BY DEF DoneStart
<1>2. m \in MgrType /\ Slotted(m) /\ Composed(m)
  BY DEF MgrOK, SlotsOK
<1>3. ASSUME e \in Voices
      PROVE  LET n == [started EXCEPT !.voice = e]
             IN  /\ SlotsOK(n) /\ Composed(n) /\ n.result = "ok"
                 /\ n.recent = m.recent /\ n.focused = m.focused
                 /\ n.keyboard = m.keyboard /\ n.voice = e
                 /\ n.events = m.events /\ n.last_mode = m.last_mode
  <2> DEFINE n == [started EXCEPT !.voice = e]
  <2>1. (m.active \ {current}) \cup {e} = {m.keyboard, e} \ {NoEngine}
    BY <1>2, <1>3, EngineKinds DEF MgrType, Slotted
  <2>2. n = [m EXCEPT !.active = {m.keyboard, e} \ {NoEngine},
                      !.created = C, !.initialized = @ \cup {e}, !.voice = e]
    BY <1>1, <1>2, <2>1 DEF MgrType
  <2>3. /\ {m.keyboard, e} \ {NoEngine} \subseteq m.initialized \cup {e}
        /\ m.initialized \cup {e} \subseteq C
        /\ {m.keyboard, e} \ {NoEngine} \subseteq Engines
    BY <1>1, <1>2, <1>3, EngineKinds DEF MgrType, Slotted
  <2> HIDE DEF n
  <2>4. n \in MgrType
    BY <1>2, <1>3, <2>2, <2>3 DEF MgrType
  <2>5. n.events = m.events /\ n.last_mode = m.last_mode /\ n.voice = e
    BY <1>2, <2>2 DEF MgrType
  <2>6. /\ SlotsOK(n) /\ Composed(n) /\ n.result = "ok"
        /\ n.recent = m.recent /\ n.focused = m.focused /\ n.keyboard = m.keyboard
    BY <1>2, <2>2, <2>3, <2>4 DEF SlotsOK, MgrType, Slotted, Composed
  <2> QED
    BY <2>5, <2>6 DEF n
<1>4. ASSUME e \in Keyboards
      PROVE  LET n == ClearMode([started EXCEPT !.keyboard = e, !.rapid = TRUE])
             IN  /\ SlotsOK(n) /\ n.result = "ok" /\ n.recent = m.recent
                 /\ n.focused = m.focused /\ n.keyboard = e
                 /\ n.shown # NoEngine => n.shown = current /\ n.focused
                 /\ n.voice = m.voice /\ n.events = m.events
  <2> DEFINE n == ClearMode([started EXCEPT !.keyboard = e, !.rapid = TRUE])
  <2>1. /\ (m.active \ {current}) \cup {e} = {e, m.voice} \ {NoEngine}
        /\ m.shown # NoEngine => m.shown = current /\ m.focused
    BY <1>2, <1>4, EngineKinds DEF MgrType, Slotted, Composed
  <2>2. n = [m EXCEPT !.active = {e, m.voice} \ {NoEngine},
                      !.created = C, !.initialized = @ \cup {e},
                      !.keyboard = e, !.rapid = TRUE, !.last_mode = NoMode]
    BY <1>1, <1>2, <2>1 DEF MgrType, ClearMode
  <2>3. /\ {e, m.voice} \ {NoEngine} \subseteq m.initialized \cup {e}
        /\ m.initialized \cup {e} \subseteq C
        /\ {e, m.voice} \ {NoEngine} \subseteq Engines
    BY <1>1, <1>2, <1>4, EngineKinds DEF MgrType, Slotted
  <2> HIDE DEF n
  <2>4. n \in MgrType
    BY <1>2, <1>4, <2>2, <2>3, EngineKinds DEF MgrType
  <2>5. n.events = m.events /\ n.voice = m.voice
    BY <1>2, <2>2 DEF MgrType
  <2>6. /\ SlotsOK(n) /\ n.result = "ok" /\ n.recent = m.recent
        /\ n.focused = m.focused /\ n.keyboard = e
        /\ n.shown # NoEngine => n.shown = current /\ n.focused
    BY <1>2, <2>1, <2>2, <2>3, <2>4 DEF SlotsOK, MgrType, Slotted
  <2> QED
    BY <2>5, <2>6 DEF n
<1> QED
  BY <1>3, <1>4 DEF Switched

(* typio_engine_manager_set_active: the invariant is kept, a failure moves *)
(* nothing, and a slot once filled stays filled.                           *)
LEMMA SetActiveOK ==
    ASSUME NEW m, MgrOK(m), m.result = "ok", NEW e, NEW ok
    PROVE  LET r == SetActive(m, e, ok)
           IN  /\ MgrOK(r)
               /\ r.recent = m.recent /\ r.focused = m.focused
               /\ r.result = "error" => Unmoved(m, r)
               /\ m.keyboard # NoEngine => r.keyboard # NoEngine
               /\ r.result # "error" /\ e \in Keyboards => r.keyboard = e
<1> DEFINE current == IF e \in Keyboards THEN m.keyboard ELSE m.voice
           stopped == [m EXCEPT !.active = @ \ {current}]
           ready   == EnsureInstance(stopped, e)
           started == IF ready.result = "ok" THEN Activate(ready, e, ok) ELSE ready
           r       == SetActive(m, e, ok)
<1>1. CASE e \notin Engines
  <2>1. r = [m EXCEPT !.result = "error"]
    BY <1>1 DEF SetActive, Fail
  <2> QED
    BY <2>1 DEF MgrOK, SlotsOK, MgrType, Slotted, Composed, Unmoved
<1>2. CASE e \in Engines /\ current = e
  BY <1>2 DEF SetActive
<1>3. CASE e \in Engines /\ current # e
  <2>1. \/ started.result = "error" /\ FailedStart(m, current, started)
        \/ started.result = "ok" /\ DoneStart(m, current, e, started)
    BY <1>3, StartOK DEF MgrOK, SlotsOK
  <2>2. r = IF started.result = "error" THEN TryRestore(started, current, ok)
            ELSE IF e \in Voices THEN Emit([started EXCEPT !.voice = e], "voice", e)
            ELSE Emit(RebindContext(ClearMode([started EXCEPT !.keyboard = e,
                                                              !.rapid = TRUE]),
                                    current),
                      "engine", e)
    BY <1>3 DEF SetActive
  <2>3. current # NoEngine => current \in m.active /\ current \in m.initialized
    BY DEF MgrOK, SlotsOK, MgrType, Slotted
  <2>6. current = IF e \in Keyboards THEN m.keyboard ELSE m.voice
    OBVIOUS
  <2> HIDE DEF current, started, r
  <2>4. CASE started.result = "error" /\ FailedStart(m, current, started)
    <3>1. PICK C \in SUBSET Engines :
            /\ m.created \subseteq C
            /\ started = [m EXCEPT !.active = @ \ {current}, !.created = C,
                                   !.result = "error"]
      BY <2>4 DEF FailedStart
    <3>2. m \in MgrType /\ Slotted(m) /\ Composed(m)
      BY DEF MgrOK, SlotsOK
    <3>3. started \in MgrType /\ started.initialized = m.initialized
          /\ started.created = C /\ started.active = m.active \ {current}
      BY <3>1, <3>2 DEF MgrType
    <3>4. current # NoEngine
          => r = [m EXCEPT !.active = @, !.created = C, !.result = "error"]
      <4> SUFFICES ASSUME current # NoEngine
                   PROVE  r = [m EXCEPT !.active = @, !.created = C,
                                        !.result = "error"]
        OBVIOUS
      <4>1. current \in started.created /\ current \in started.initialized
        BY <2>3, <3>1, <3>2, <3>3 DEF Slotted
      <4>2. r = [started EXCEPT !.initialized = @ \cup {current},
                                !.active = @ \cup {current}]
        BY <2>2, <2>4, <4>1 DEF TryRestore, Inits
      <4>3. m.initialized \cup {current} = m.initialized
            /\ (m.active \ {current}) \cup {current} = m.active
        BY <2>3
      <4> QED
        BY <3>1, <3>2, <4>2, <4>3 DEF MgrType
    <3>5. current = NoEngine
          => r = [m EXCEPT !.active = @, !.created = C, !.result = "error"]
      <4> SUFFICES ASSUME current = NoEngine
                   PROVE  r = [m EXCEPT !.active = @, !.created = C,
                                        !.result = "error"]
        OBVIOUS
      <4>1. current \notin C /\ m.active \ {current} = m.active
        BY <3>2, EnginesAssumption DEF MgrType
      <4>2. r = started
        BY <2>2, <2>4, <3>3, <4>1 DEF TryRestore
      <4> QED
        BY <3>1, <3>2, <4>1, <4>2 DEF MgrType
    <3>6. r = [m EXCEPT !.active = @, !.created = C, !.result = "error"]
      BY <3>4, <3>5
    <3>7. MgrOK(r) /\ r.recent = m.recent /\ r.focused = m.focused
          /\ r.keyboard = m.keyboard /\ r.result = "error"
      BY <3>1, <3>2, <3>6 DEF MgrOK, SlotsOK, MgrType, Slotted, Composed
    <3>8. Unmoved(m, r)
      BY <3>2, <3>6 DEF MgrType, Unmoved
    <3> QED
      BY <3>7, <3>8 DEF r
  <2>5. CASE started.result = "ok" /\ DoneStart(m, current, e, started)
    <3>1. Switched(m, e, current, started)
      BY <1>3, <2>5, <2>6, SwitchDone
    <3>2. CASE e \in Voices
      <4> DEFINE n == [started EXCEPT !.voice = e]
      <4>1. SlotsOK(n) /\ Composed(n) /\ n.result = "ok"
            /\ n.recent = m.recent /\ n.focused = m.focused
            /\ n.keyboard = m.keyboard
        BY <3>1, <3>2 DEF Switched
      <4>2. r = Emit(n, "voice", e)
        BY <2>2, <2>5, <3>2
      <4> HIDE DEF n
      <4>3. SlotsOK(r) /\ Frame(n, r) /\ r.shown = n.shown
        BY <1>3, <4>1, <4>2, EmitSlotsOK DEF About
      <4> QED
        BY <3>2, <4>1, <4>3, EngineKinds DEF r, Frame, MgrOK, Composed
    <3>3. CASE e \in Keyboards
      <4> DEFINE n == ClearMode([started EXCEPT !.keyboard = e, !.rapid = TRUE])
                 b == RebindContext(n, current)
      <4>1. SlotsOK(n) /\ n.result = "ok" /\ n.recent = m.recent
            /\ n.focused = m.focused /\ n.keyboard = e
            /\ (n.shown # NoEngine => n.shown = current /\ n.focused)
        BY <3>1, <3>3 DEF Switched
      <4>2. r = Emit(b, "engine", e)
        BY <2>2, <2>5, <3>3, EngineKinds
      <4> HIDE DEF n
      <4>3. MgrOK(b) /\ Frame(n, b)
        BY <3>3, <4>1, RebindContextOK
      <4> HIDE DEF b
      <4>4. SlotsOK(r) /\ Frame(b, r) /\ r.shown = b.shown
        BY <1>3, <4>2, <4>3, EmitSlotsOK DEF MgrOK, About
      <4> QED
        BY <3>3, <4>1, <4>3, <4>4, EngineKinds DEF r, Frame, MgrOK, Composed
    <3> QED
      BY <1>3, <3>2, <3>3, EngineKinds
  <2> QED
    BY <2>1, <2>4, <2>5 DEF r
<1> QED
  BY <1>1, <1>2, <1>3

(* The calls around it.                                                    *)
LEMMA SetActiveVoiceOK ==
    ASSUME NEW m, MgrOK(m), m.result = "ok", NEW e, NEW ok
    PROVE  MgrOK(SetActiveVoice(m, e, ok))
<1>1. MgrOK(Fail(m))
  BY DEF Fail, MgrOK, SlotsOK, MgrType, Slotted, Composed
<1> QED
  BY <1>1, SetActiveOK DEF SetActiveVoice

(* typio_instance_reload_config ignores the result of the switch it tries. *)
LEMMA TryOK ==
    ASSUME NEW m, MgrOK(m)
    PROVE  MgrOK(Try(m)) /\ Try(m).result = "ok"
  BY DEF Try, MgrOK, SlotsOK, MgrType, Slotted, Composed

(* typio_engine_manager_next and _prev.                                    *)
LEMMA CycleOK ==
    ASSUME NEW m, MgrOK(m), m.result = "ok", NEW direction, NEW ok
    PROVE  LET r == Cycle(m, direction, ok)
           IN  /\ MgrOK(r)
               /\ r.result = "error" => Unmoved(m, r)
               /\ r.result # "error" => r.keyboard # NoEngine
<1>1. CASE m.keyboard = NoEngine
  <2>1. Cycle(m, direction, ok) = [m EXCEPT !.result = "error"]
    BY <1>1 DEF Cycle, Fail
  <2> QED
    BY <2>1 DEF MgrOK, SlotsOK, MgrType, Slotted, Composed, Unmoved
<1>2. CASE m.keyboard # NoEngine
  <2> DEFINE e == ResolveSwitch(m, direction)
  <2>1. Cycle(m, direction, ok) = SetActive(m, e, ok)
    BY <1>2 DEF Cycle
  <2> HIDE DEF e
  <2> QED
    BY <1>2, <2>1, SetActiveOK
<1> QED
  BY <1>1, <1>2

(* update_recent_pair touches the pair alone.                              *)
LEMMA UpdateRecentOK ==
    ASSUME NEW m, MgrOK(m), m.result = "ok"
    PROVE  MgrOK(UpdateRecent(m)) /\ UpdateRecent(m).result = "ok"
<1> DEFINE kept == IF m.recent.primary # NoEngine THEN m.recent.primary
                   ELSE IF m.recent.secondary # m.keyboard THEN m.recent.secondary
                   ELSE NoEngine
<1>1. m.keyboard # NoEngine
      => [primary |-> m.keyboard, secondary |-> kept] \in Recents
  BY EngineKinds DEF MgrOK, SlotsOK, MgrType, Recents
<1>2. UpdateRecent(m) = IF m.keyboard = NoEngine \/ m.recent.primary = m.keyboard
                        THEN m
                        ELSE [m EXCEPT !.recent = [primary |-> m.keyboard,
                                                   secondary |-> kept]]
  BY DEF UpdateRecent
<1> HIDE DEF kept
<1> QED
  BY <1>1, <1>2 DEF MgrOK, SlotsOK, MgrType, Slotted, Composed

(* An instance before it chose its engines.                                *)
LEMMA InstanceOK ==
    ASSUME NEW recent \in Recents
    PROVE  LET fresh == [Booted EXCEPT !.recent = recent]
           IN  MgrOK(fresh) /\ fresh.result = "ok" /\ fresh.recent = recent
<1>1. <<>> \in Seq(Event) /\ NoMode \in ModeNames
  BY EngineKinds
<1>2. [e \in Moded |-> "native"] \in [Moded -> Modes]
  BY DEF Modes
<1>3. Booted \in MgrType
  BY <1>1, <1>2 DEF Booted, MgrType, Recents, NoRecent
<1>4. /\ Booted.active = {} /\ Booted.keyboard = NoEngine
      /\ Booted.voice = NoEngine /\ Booted.shown = NoEngine
      /\ Booted.result = "ok" /\ Booted.initialized = {}
  BY DEF Booted
<1> QED
  BY <1>3, <1>4 DEF MgrOK, SlotsOK, MgrType, Slotted, Composed

(* typio_instance_init and typio_instance_reload_config.                   *)
LEMMA BootOK ==
    ASSUME NEW recent \in Recents, NEW conf, NEW ok
    PROVE  MgrOK(Boot(recent, conf, ok)) /\ Boot(recent, conf, ok).result = "ok"
<1> DEFINE fresh  == [Booted EXCEPT !.recent = recent]
           chosen == IF conf.default = NoEngine THEN fresh
                     ELSE Try(SetActive(fresh, conf.default, ok))
           some   == IF chosen.keyboard = NoEngine
                     THEN Try(SetActive(chosen, Registered[1], ok)) ELSE chosen
           voiced == IF conf.voice = NoEngine THEN some
                     ELSE Try(SetActiveVoice(some, conf.voice, ok))
<1>1. MgrOK(fresh) /\ fresh.result = "ok"
  BY InstanceOK
<1>2. MgrOK(chosen) /\ chosen.result = "ok"
  <2> HIDE DEF fresh
  <2> QED
    BY <1>1, SetActiveOK, TryOK
<1>3. MgrOK(some) /\ some.result = "ok"
  <2> HIDE DEF chosen
  <2> QED
    BY <1>2, SetActiveOK, TryOK
<1>4. MgrOK(voiced) /\ voiced.result = "ok"
  <2> HIDE DEF some
  <2> QED
    BY <1>3, SetActiveVoiceOK, TryOK
<1>5. Boot(recent, conf, ok) = [voiced EXCEPT !.events = <<>>]
  BY DEF Boot
<1> HIDE DEF voiced
<1>6. <<>> \in Seq(Event)
  OBVIOUS
<1> QED
  BY <1>4, <1>5, <1>6 DEF MgrOK, SlotsOK, MgrType, Slotted, Composed

(* What a reload does to the manager: the default engine, then the active  *)
(* engine's own reload.                                                    *)
LEMMA ReloadedOK ==
    ASSUME NEW m, MgrOK(m), m.result = "ok", NEW conf, NEW ok
    PROVE  MgrOK(Reloaded(m, conf, ok)) /\ Reloaded(m, conf, ok).result = "ok"
<1> DEFINE switched == IF conf.default \in {NoEngine, m.keyboard} THEN m
                       ELSE Try(SetActive(m, conf.default, ok))
           heard == IF switched.keyboard = NoEngine THEN switched
                   ELSE EngineReload(switched, switched.keyboard)
<1>1. MgrOK(switched) /\ switched.result = "ok"
  BY SetActiveOK, TryOK
<1>2. MgrOK(heard) /\ heard.result = "ok"
  <2> HIDE DEF switched
  <2> QED
    BY <1>1, EngineReloadOK DEF MgrOK, Composed, Frame
<1>3. Reloaded(m, conf, ok) = IF conf.voice \in {NoEngine, heard.voice} THEN heard
                              ELSE Try(SetActiveVoice(heard, conf.voice, ok))
  BY DEF Reloaded
<1> HIDE DEF heard
<1> QED
  BY <1>2, <1>3, SetActiveVoiceOK, TryOK

(* rime_reload_config with a deploy.                                       *)
LEMMA RedeployedOK ==
    ASSUME NEW m, MgrOK(m), m.result = "ok", NEW e \in Announcing, NEW done
    PROVE  MgrOK(Redeployed(m, e, done)) /\ Redeployed(m, e, done).result = "ok"
<1> DEFINE old == [m EXCEPT !.sessions = @ \ {e}, !.mode[e] = "native"]
<1>1. MgrOK(old) /\ old.result = "ok"
  BY DEF MgrOK, SlotsOK, MgrType, Slotted, Composed, Modes
<1>2. Redeployed(m, e, done) = IF done THEN EngineReload(old, e) ELSE old
  BY DEF Redeployed
<1> HIDE DEF old
<1> QED
  BY <1>1, <1>2, EngineReloadOK DEF MgrOK, Composed, Frame

-----------------------------------------------------------------------------
(* The handlers.                                                           *)

(* A handler starts without an error and without callbacks.                *)
LEMMA FreshOK ==
    ASSUME MgrOK(mgr)
    PROVE  /\ MgrOK(Fresh) /\ Fresh.result = "ok" /\ Fresh.events = <<>>
           /\ Fresh = [mgr EXCEPT !.result = "ok", !.events = <<>>]
<1>1. <<>> \in Seq(Event)
  OBVIOUS
<1> QED
  BY <1>1 DEF Fresh, MgrOK, SlotsOK, MgrType, Slotted, Composed

(* A handler's record stays sound and, where a handler reports an error,   *)
(* nothing but result, events and the engines created differ.              *)
Sound ==
    /\ MgrOK(mgr')
    /\ mgr'.result = "error" => Unmoved(Fresh, mgr') /\ UNCHANGED <<config, saved, typed>>

(* Every handler is sound.                                                 *)
LEMMA HandlersAreSound ==
    ASSUME IInv, Next
    PROVE  Sound
<1> USE DEF IInv, Sound
<1>0. MgrOK(Fresh) /\ Fresh.result = "ok"
  BY FreshOK
<1>1. ASSUME NEW e \in Engines, NEW ok \in BOOLEAN, Select(e, ok)
      PROVE  Sound
  BY <1>0, <1>1, SetActiveOK DEF Select
<1>2. ASSUME NEW e \in Engines, NEW ok \in BOOLEAN, ActivateEngine(e, ok)
      PROVE  Sound
  BY <1>0, <1>2, SetActiveOK DEF ActivateEngine
<1>3. ASSUME NEW ok \in BOOLEAN, CycleNext(ok)
      PROVE  Sound
  BY <1>0, <1>3, CycleOK DEF CycleNext
<1>4. ASSUME NEW ok \in BOOLEAN, CyclePrev(ok)
      PROVE  Sound
  BY <1>0, <1>4, CycleOK DEF CyclePrev
<1>5. ASSUME NEW ok \in BOOLEAN, Restart(ok)
      PROVE  Sound
  BY <1>5, BootOK DEF Restart
<1>6. CASE Pause
  BY <1>0, <1>6 DEF Pause, MgrOK, SlotsOK, MgrType, Slotted, Composed
<1>7. CASE FocusIn
  BY <1>0, <1>7, ContextFocusInOK DEF FocusIn
<1>8. CASE FocusOut
  BY <1>0, <1>8, ContextFocusOutOK DEF FocusOut
<1>9. CASE Compose
  <2> DEFINE o == OpenSession(Fresh, mgr.keyboard)
  <2>1. SlotsOK(o) /\ Frame(Fresh, o)
    BY <1>0, OpenSessionOK DEF MgrOK
  <2>2. Fresh.keyboard = mgr.keyboard /\ Fresh.focused = mgr.focused
    BY FreshOK DEF MgrOK, SlotsOK, MgrType
  <2>3. PICK shown \in {mgr.keyboard, NoEngine} : mgr' = [o EXCEPT !.shown = shown]
    BY <1>9 DEF Compose
  <2>4. mgr.focused
    BY <1>9 DEF Compose, Typing
  <2> HIDE DEF o
  <2> QED
    BY <1>0, <2>1, <2>2, <2>3, <2>4
       DEF MgrOK, SlotsOK, MgrType, Slotted, Composed, Frame
<1>10. CASE ToggleMode
  <2> DEFINE e == mgr.keyboard
             o == OpenSession(Fresh, e)
             t == [o EXCEPT !.mode[e] = IF @ = "native" THEN "latin" ELSE "native"]
  <2>1. MgrOK(o) /\ o.result = "ok"
    BY <1>0, OpenSessionOK DEF MgrOK, Frame, Composed
  <2>2. e \in Moded
    BY <1>10 DEF ToggleMode
  <2>3. MgrOK(t) /\ t.result = "ok"
    <3> HIDE DEF o
    <3> QED
      BY <2>1, <2>2 DEF MgrOK, SlotsOK, MgrType, Slotted, Composed, Modes
  <2>4. mgr' = IF e \in Announcing THEN NotifyMode(t, ModeOf(t, e)) ELSE t
    BY <1>10 DEF ToggleMode
  <2> HIDE DEF t
  <2>5. ModeOf(t, e) \in ModeNames
    BY <2>2, <2>3 DEF ModeOf, ModeNames, MgrOK, SlotsOK, MgrType
  <2>6. LET r == NotifyMode(t, ModeOf(t, e)) IN MgrOK(r) /\ r.result = "ok"
    BY <2>3, <2>5, NotifyModeOK DEF MgrOK, Frame, Composed
  <2> QED
    BY <2>3, <2>4, <2>6
<1>11. CASE Commit
  <2> DEFINE c == [Fresh EXCEPT !.shown = NoEngine]
  <2>1. MgrOK(c) /\ c.result = "ok"
    BY <1>0 DEF MgrOK, SlotsOK, MgrType, Slotted, Composed
  <2>2. mgr' = UpdateRecent(c)
    BY <1>11 DEF Commit
  <2> HIDE DEF c
  <2> QED
    BY <2>1, <2>2, UpdateRecentOK
<1>12. ASSUME NEW conf \in Configs \cup {config}, NEW ok \in BOOLEAN,
              ReloadConfig(conf, ok)
       PROVE  Sound
  BY <1>0, <1>12, ReloadedOK DEF ReloadConfig
<1>13. ASSUME NEW e \in Announcing, NEW ok \in BOOLEAN, NEW done \in BOOLEAN,
              DeployRime(e, ok, done)
       PROVE  Sound
  <2> DEFINE made == IF e \in Missing THEN Fresh
                     ELSE [Fresh EXCEPT !.created = @ \cup {e}]
             inited == [made EXCEPT !.initialized = @ \cup {e}]
  <2>0. UNCHANGED <<config, saved, typed>>
    BY <1>13 DEF DeployRime
  <2>1. mgr' = IF DeployFails(e, ok) THEN Fail(made) ELSE Redeployed(inited, e, done)
    BY <1>13, Zenon DEF DeployRime
  <2>2. e \in Engines
    BY EngineKinds
  <2>3. MgrOK(made) /\ made.result = "ok" /\ Unmoved(Fresh, made)
    BY <1>0, <2>2 DEF MgrOK, SlotsOK, MgrType, Slotted, Composed, Unmoved
  <2>4. ~DeployFails(e, ok) => e \in made.created
    BY <1>0, FreshOK DEF DeployFails, MgrOK, SlotsOK, MgrType
  <2> HIDE DEF made
  <2>5. MgrOK(Fail(made)) /\ Unmoved(Fresh, Fail(made))
    BY <2>3 DEF Fail, MgrOK, SlotsOK, MgrType, Slotted, Composed, Unmoved
  <2>6. ~DeployFails(e, ok) => MgrOK(inited) /\ inited.result = "ok"
    BY <2>2, <2>3, <2>4 DEF MgrOK, SlotsOK, MgrType, Slotted, Composed
  <2> HIDE DEF inited
  <2>7. ~DeployFails(e, ok)
        => LET r == Redeployed(inited, e, done) IN MgrOK(r) /\ r.result = "ok"
    BY <2>6, RedeployedOK
  <2>8. CASE DeployFails(e, ok)
    BY <2>0, <2>1, <2>5, <2>8
  <2>9. CASE ~DeployFails(e, ok)
    BY <2>0, <2>1, <2>7, <2>9
  <2> QED
    BY <2>8, <2>9
<1> QED
  BY <1>1, <1>2, <1>3, <1>4, <1>5, <1>6, <1>7, <1>8, <1>9, <1>10, <1>11,
     <1>12, <1>13 DEF Next

(* A process that boots satisfies the invariant.                           *)
LEMMA IInvInit == Init => IInv
<1> SUFFICES ASSUME Init
             PROVE  IInv
  OBVIOUS
<1>1. NoRecent \in Recents
  BY DEF NoRecent, Recents
<1>2. MgrOK(mgr)
  BY <1>1, BootOK DEF Init
<1> QED
  BY <1>1, <1>2, ConfigsAssumption DEF Init, IInv, ConfigType

(* Every handler preserves it.                                             *)
LEMMA IInvStep == IInv /\ [Next]_vars => IInv'
<1> SUFFICES ASSUME IInv, [Next]_vars
             PROVE  IInv'
  OBVIOUS
<1>1. CASE UNCHANGED vars
  BY <1>1 DEF vars, IInv
<1>2. CASE Next
  <2> USE DEF IInv
  <2>1. MgrOK(mgr')
    BY <1>2, HandlersAreSound DEF Sound
  <2>2. saved' \in Recents
    <3>1. mgr'.recent \in Recents
      BY <2>1 DEF MgrOK, SlotsOK, MgrType
    <3> QED
      BY <1>2, <3>1 DEF Next, Select, ActivateEngine, CycleNext, CyclePrev,
         Restart, Pause, FocusIn, FocusOut, Compose, ToggleMode, Commit,
         ReloadConfig, DeployRime
  <2>3. config' \in ConfigType
    BY <1>2, ConfigsAssumption
       DEF ConfigType, Next, Select, ActivateEngine, CycleNext, CyclePrev,
         Restart, Pause, FocusIn, FocusOut, Compose, ToggleMode, Commit,
         ReloadConfig, DeployRime
  <2>4. typed' \in Seq(Engines)
    <3>1. typed' = typed \/ Commit
      BY <1>2 DEF Next, Select, ActivateEngine, CycleNext, CyclePrev,
         Restart, Pause, FocusIn, FocusOut, Compose, ToggleMode, ReloadConfig, DeployRime
    <3>2. ASSUME Commit
          PROVE  typed' \in Seq(Engines)
      <4>1. mgr.keyboard \in Engines
        BY <3>2, EngineKinds DEF Commit, MgrOK, SlotsOK, MgrType
      <4> QED
        BY <3>2, <4>1 DEF Commit
    <3> QED
      BY <3>1, <3>2
  <2>5. cycle' \in Seq(Engines)
    <3>1. cycle' \in {cycle, <<>>} \/ \E ok \in BOOLEAN : CycleNext(ok)
      BY <1>2 DEF Next, Select, ActivateEngine, CyclePrev,
         Restart, Pause, FocusIn, FocusOut, Compose, ToggleMode, Commit,
         ReloadConfig, DeployRime
    <3>2. ASSUME NEW ok \in BOOLEAN, CycleNext(ok)
          PROVE  cycle' \in Seq(Engines)
      <4>1. mgr'.result # "error" => mgr'.keyboard \in Engines
        BY <2>1, <3>2, FreshOK, CycleOK, EngineKinds
           DEF CycleNext, MgrOK, SlotsOK, MgrType
      <4>2. CASE mgr'.result = "error"
        BY <3>2, <4>2 DEF CycleNext
      <4>3. CASE mgr'.result # "error"
        <5>1. <<mgr'.keyboard>> \in Seq(Engines)
              /\ Append(cycle, mgr'.keyboard) \in Seq(Engines)
          BY <4>1, <4>3
        <5> QED
          BY <3>2, <5>1 DEF CycleNext
      <4> QED
        BY <4>2, <4>3
    <3>3. cycle \in Seq(Engines) /\ <<>> \in Seq(Engines)
      OBVIOUS
    <3> QED
      BY <3>1, <3>2, <3>3
  <2> QED
    BY <2>1, <2>2, <2>3, <2>4, <2>5
<1> QED
  BY <1>1, <1>2

(* So it always holds.                                                     *)
LEMMA SpecIInv == Spec => []IInv
  BY IInvInit, IInvStep, PTL DEF Spec

(* The manager's types, with what they say of the flags: through every     *)
(* failed switch, restore, reload and restart the engines marked active    *)
(* are exactly those of the two slots, and all of them are initialized     *)
(* (switch.rs, engine_manager.rs).                                         *)
THEOREM ManagerTypes == Spec => []TypeOK
<1>1. IInv => TypeOK
  BY DEF IInv, MgrOK, SlotsOK, MgrType, Slotted, ConfigType, TypeOK
<1> QED
  BY <1>1, SpecIInv, PTL

(* A composition on screen is the active engine's and its context is       *)
(* focused, whatever switches, reloads and focus changes came before       *)
(* (rebind_focused_context, engine_manager.rs).                            *)
THEOREM CompositionsAreOwned == Spec => []CompositionBelongsToActiveEngine
<1>1. IInv => CompositionBelongsToActiveEngine
  BY DEF IInv, MgrOK, Composed, CompositionBelongsToActiveEngine
<1> QED
  BY <1>1, SpecIInv, PTL

(* A handler that reports an error leaves the user where he was: engines,  *)
(* composition, modes, recent pair, configuration (switch.rs, with the     *)
(* restore of the engine it stopped).                                      *)
THEOREM FailuresMoveNothing == Spec => FailedSwitchChangesNothing
<1> DEFINE Kept ==
      mgr'.result = "error" =>
        /\ \A f \in {"keyboard", "voice", "active", "rapid", "recent", "focused",
                     "shown", "sessions", "mode", "last_mode"} : mgr'[f] = mgr[f]
        /\ mgr'.events = <<>>
        /\ UNCHANGED <<config, saved, typed>>
<1>1. IInv /\ [Next]_vars => [Kept]_vars
  <2> SUFFICES ASSUME IInv, Next, mgr'.result = "error"
               PROVE  Kept
    BY DEF vars
  <2>1. Unmoved(Fresh, mgr') /\ UNCHANGED <<config, saved, typed>>
    BY HandlersAreSound DEF Sound
  <2>2. MgrOK(mgr) /\ Fresh = [mgr EXCEPT !.result = "ok", !.events = <<>>]
        /\ Fresh.events = <<>>
    BY FreshOK DEF IInv
  <2>3. \A f \in {"keyboard", "voice", "active", "rapid", "recent", "focused",
                  "shown", "sessions", "mode", "last_mode"} : Fresh[f] = mgr[f]
    BY <2>2 DEF MgrOK, SlotsOK, MgrType
  <2> QED
    BY <2>1, <2>2, <2>3 DEF Unmoved
<1>2. [][Kept]_vars => FailedSwitchChangesNothing
  BY PTL DEF FailedSwitchChangesNothing
<1> QED
  BY <1>1, <1>2, SpecIInv, PTL DEF Spec

-----------------------------------------------------------------------------
(* The controller's cache after a sequence of callbacks.                   *)

Shows == Engines \cup {NoEngine} \cup ModeNames \cup {<<e, "icon">> : e \in Engines \cup {NoEngine}}

(* What the cache may hold.                                                *)
Caches == [engine : Shows, voice : Shows, icon : Shows]

(* A callback leaves a cache.                                              *)
LEMMA NotifyOK ==
    ASSUME NEW c \in Caches, NEW event \in Event
    PROVE  Notify(c, event) \in Caches
<1>1. /\ event.kind \in {"mode", "voice", "engine"} /\ event.what \in Shows
      /\ event.engine \in Shows /\ event.mode \in Shows
      /\ event.engine \in Engines \cup {NoEngine}
  BY EngineKinds DEF Event, Shows
<1>2. IconOf(event.engine, event.mode) \in Shows
  BY <1>1 DEF IconOf, Shows, DefaultIcon
<1> HIDE DEF Shows
<1>3. CASE event.kind = "engine"
  BY <1>1, <1>2, <1>3 DEF Notify, Caches
<1>4. CASE event.kind = "voice"
  BY <1>1, <1>4 DEF Notify, Caches
<1>5. CASE event.kind = "mode"
  BY <1>1, <1>5 DEF Notify, Caches
<1> QED
  BY <1>1, <1>3, <1>4, <1>5

(* The callbacks are heard one by one.                                     *)
NotifySteps(f, c, ev) ==
    /\ f[0] = c
    /\ \A k \in 0..Len(ev) : f[k] \in Caches
    /\ \A k \in 1..Len(ev) : f[k] = Notify(f[k-1], ev[k])

(* Each step of the fold hears one callback.                               *)
LEMMA NotifiedSteps ==
    ASSUME NEW c \in Caches, NEW ev \in Seq(Event)
    PROVE  \E f : NotifySteps(f, c, ev) /\ f[Len(ev)] = Notified(c, ev)
<1> DEFINE n == Len(ev)
           B == Caches
           g == [x \in B \X (1..n) |-> Notify(x[1], ev[x[2]])]
           eq(h) == h = [t \in SUBSET (1..n) |->
                           IF t = {} THEN c ELSE Notify(h[t \ {Max(t)}], ev[Max(t)])]
<1>2. n \in Nat /\ DOMAIN ev = 1..n
  OBVIOUS
<1>1. g \in [B \X (1..n) -> B]
  BY NotifyOK
<1>3. \A s \in B, i \in 1..n : g[<<s, i>>] = Notify(s, ev[i])
  OBVIOUS
<1> HIDE DEF g
<1>4. Notified(c, ev) = (CHOOSE h : eq(h))[1..n]
  BY <1>2 DEF Notified, FoldLeft, MapThenFoldSet
<1>5. PICK h \in [SUBSET (1..n) -> B] : FoldEquation(h, B, c, g, n)
  BY <1>1, <1>2, FoldExists
<1>6. eq(h)
  <2>1. ASSUME NEW t \in SUBSET (1..n)
        PROVE  h[t] = IF t = {} THEN c ELSE Notify(h[t \ {Max(t)}], ev[Max(t)])
    <3>1. CASE t = {}
      BY <1>5, <3>1 DEF FoldEquation
    <3>2. CASE t # {}
      <4>1. Max(t) \in 1..n
        BY <1>2, <3>2, MaxIsMember
      <4>2. h[t \ {Max(t)}] \in B
        OBVIOUS
      <4>3. h[t] = g[<<h[t \ {Max(t)}], Max(t)>>]
        BY <1>5, <3>2, <4>2 DEF FoldEquation
      <4> HIDE DEF B
      <4> QED
        BY <1>3, <3>2, <4>1, <4>2, <4>3
    <3> QED
      BY <3>1, <3>2
  <2> QED
    BY <2>1
<1> DEFINE r == CHOOSE h2 : eq(h2)
<1>7. eq(r)
  <2> HIDE DEF eq
  <2> QED
    BY <1>6
<1> HIDE DEF r
<1>8. FoldEquation(r, B, c, g, n)
  <2>1. r[{}] = c
    BY <1>7
  <2>2. ASSUME NEW t \in SUBSET (1..n), t # {}, r[t \ {Max(t)}] \in B
        PROVE  r[t] = g[<<r[t \ {Max(t)}], Max(t)>>]
    <3>1. Max(t) \in 1..n
      BY <1>2, <2>2, MaxIsMember
    <3>2. r[t] = Notify(r[t \ {Max(t)}], ev[Max(t)])
      BY <1>7, <2>2
    <3> HIDE DEF B
    <3> QED
      BY <1>3, <2>2, <3>1, <3>2
  <2> QED
    BY <2>1, <2>2 DEF FoldEquation
<1> DEFINE f == [k \in 0..n |-> r[1..k]]
<1>9. \A k \in 0..n : r[1..k] \in B /\ (k # 0 => FoldStep(r, g, k))
  <2> HIDE DEF B, n
  <2> QED
    BY <1>1, <1>2, <1>8, FoldSteps DEF B
<1>10. \A k \in 0..n : f[k] = r[1..k]
  OBVIOUS
<1>11. f[0] = c
  <2>1. 1..0 = {} /\ 0 \in 0..n
    BY <1>2
  <2>2. f[0] = r[{}]
    BY <1>10, <2>1
  <2> QED
    BY <1>8, <2>2 DEF FoldEquation
<1>12. f[n] = Notified(c, ev)
  <2>1. n \in 0..n
    BY <1>2
  <2> QED
    BY <1>4, <1>10, <2>1 DEF r
<1>13. ASSUME NEW k \in 1..n
       PROVE  f[k] = Notify(f[k-1], ev[k])
  <2>1. k \in 0..n /\ k # 0 /\ k - 1 \in 0..n
    BY <1>2
  <2>2. f[k] = r[1..k] /\ f[k-1] = r[1..(k-1)]
    BY <1>10, <2>1
  <2>3. r[1..(k-1)] \in B /\ r[1..k] = g[<<r[1..(k-1)], k>>]
    BY <1>9, <2>1 DEF FoldStep
  <2> HIDE DEF B, f
  <2> QED
    BY <1>3, <2>2, <2>3
<1>14. \A k \in 0..n : f[k] \in Caches
  BY <1>9, <1>10
<1> HIDE DEF f
<1> QED
  BY <1>11, <1>12, <1>13, <1>14 DEF NotifySteps

(* No callback changes nothing.                                            *)
LEMMA NotifiedOfNone ==
    ASSUME NEW c \in Caches
    PROVE  Notified(c, <<>>) = c
<1>1. <<>> \in Seq(Event) /\ Len(<<>>) = 0
  OBVIOUS
<1>2. PICK f : NotifySteps(f, c, <<>>) /\ f[Len(<<>>)] = Notified(c, <<>>)
  BY <1>1, NotifiedSteps
<1> QED
  BY <1>1, <1>2 DEF NotifySteps

(* One more callback is heard after those before.                          *)
LEMMA NotifiedOfMore ==
    ASSUME NEW c \in Caches, NEW ev \in Seq(Event), NEW event \in Event
    PROVE  /\ Notified(c, ev) \in Caches
           /\ Notified(c, Append(ev, event)) = Notify(Notified(c, ev), event)
<1> DEFINE n == Len(ev)
           more == Append(ev, event)
<1>1. /\ n \in Nat /\ more \in Seq(Event) /\ Len(more) = n + 1
      /\ more[n + 1] = event /\ \A k \in 1..n : more[k] = ev[k]
  OBVIOUS
<1>2. PICK f : NotifySteps(f, c, ev) /\ f[n] = Notified(c, ev)
  BY NotifiedSteps
<1> HIDE DEF more
<1>3. PICK g : NotifySteps(g, c, more) /\ g[n + 1] = Notified(c, more)
  BY <1>1, NotifiedSteps
<1> HIDE DEF n
<1> DEFINE T == {k \in Nat : k <= n => f[k] = g[k]}
<1>4. 0 \in T
  BY <1>2, <1>3 DEF NotifySteps
<1>5. ASSUME NEW k \in Nat, k \in T
      PROVE  k + 1 \in T
  <2>1. CASE k + 1 <= n
    <3>1. k + 1 \in 1..n /\ k + 1 \in 1..(n+1) /\ (k + 1) - 1 = k /\ f[k] = g[k]
      BY <1>1, <1>5, <2>1
    <3>2. f[k+1] = Notify(f[k], ev[k+1])
      BY <1>2, <3>1 DEF NotifySteps, n
    <3>3. g[k+1] = Notify(g[k], more[k+1])
      BY <1>1, <1>3, <3>1 DEF NotifySteps
    <3> QED
      BY <1>1, <3>1, <3>2, <3>3
  <2>2. CASE ~(k + 1 <= n)
    BY <2>2
  <2> QED
    BY <2>1, <2>2
<1>6. Nat \subseteq T
  <2> HIDE DEF T
  <2> QED
    BY <1>4, <1>5, Induction
<1>7. f[n] = g[n]
  BY <1>1, <1>6
<1>8. g[n + 1] = Notify(g[n], event)
  <2>1. n + 1 \in 1..(n+1) /\ (n + 1) - 1 = n
    BY <1>1
  <2> QED
    BY <1>1, <1>3, <2>1 DEF NotifySteps
<1>9. f[n] \in Caches
  <2>1. n \in 0..n
    BY <1>1
  <2> QED
    BY <1>2, <2>1 DEF NotifySteps, n
<1> QED
  BY <1>2, <1>3, <1>7, <1>8, <1>9 DEF more

-----------------------------------------------------------------------------
(* What the manager's operators say of the engines and the mode.           *)

(* The cache that heard every callback shows what the manager has.         *)
CacheFollows(c, m) == Notified(c, m.events) = Synced(m)

(* Callbacks left nothing unsaid: without one nothing changed since n, and *)
(* the last one found what the manager has now.                            *)
Settled(n, m) ==
    IF m.events = <<>>
    THEN m.keyboard = n.keyboard /\ m.voice = n.voice /\ m.last_mode = n.last_mode
    ELSE LET last == Last(m.events)
         IN  last.engine = m.keyboard /\ last.voice = m.voice /\ last.mode = m.last_mode

Current(c, n, m) == CacheFollows(c, m) /\ Settled(n, m)

(* Between the slot's change and its callback only the voice is known.     *)
VoiceHeard(c, m) == Notified(c, m.events).voice = m.voice

(* Nothing of what the surfaces show is touched.                           *)
SameFace(m, r) ==
    /\ r.events = m.events /\ r.keyboard = m.keyboard
    /\ r.voice = m.voice /\ r.last_mode = m.last_mode

(* So it stays as current as it was.                                       *)
LEMMA FaceKeeps ==
    ASSUME NEW c, NEW n, NEW m, NEW r, SameFace(m, r)
    PROVE  /\ Current(c, n, m) => Current(c, n, r)
           /\ VoiceHeard(c, m) => VoiceHeard(c, r)
  BY DEF SameFace, Current, CacheFollows, Settled, VoiceHeard, Synced

(* A callback is the last one heard.                                       *)
LEMMA Emitted ==
    ASSUME NEW c \in Caches, NEW m, SlotsOK(m), NEW kind, NEW what, About(kind, what)
    PROVE  LET r == Emit(m, kind, what)
               event == [kind |-> kind, what |-> what, engine |-> m.keyboard,
                         voice |-> m.voice, mode |-> m.last_mode]
           IN  /\ Notified(c, m.events) \in Caches
               /\ Notified(c, r.events) = Notify(Notified(c, m.events), event)
               /\ r.keyboard = m.keyboard /\ r.voice = m.voice /\ r.last_mode = m.last_mode
               /\ \A n : Settled(n, r)
<1> DEFINE event == [kind |-> kind, what |-> what, engine |-> m.keyboard,
                     voice |-> m.voice, mode |-> m.last_mode]
           r == Emit(m, kind, what)
<1>1. m \in MgrType /\ m.events \in Seq(Event)
  BY DEF SlotsOK, MgrType
<1>2. event \in Event
  BY <1>1 DEF Event, MgrType, About
<1>3. /\ r.events = Append(m.events, event)
      /\ r.keyboard = m.keyboard /\ r.voice = m.voice /\ r.last_mode = m.last_mode
  BY <1>1 DEF Emit, MgrType
<1>4. /\ event.engine = m.keyboard /\ event.voice = m.voice /\ event.mode = m.last_mode
  OBVIOUS
<1> HIDE DEF event, r
<1>5. r.events # <<>> /\ Last(r.events) = event
  BY <1>1, <1>2, <1>3 DEF Last
<1>6. /\ Notified(c, m.events) \in Caches
      /\ Notified(c, r.events) = Notify(Notified(c, m.events), event)
  BY <1>1, <1>2, <1>3, NotifiedOfMore
<1>7. \A n : Settled(n, r)
  BY <1>3, <1>4, <1>5 DEF Settled
<1> QED
  BY <1>3, <1>6, <1>7 DEF event, r

(* The callback of a switch says everything anew.                          *)
LEMMA EmitEngineFollows ==
    ASSUME NEW c \in Caches, NEW n, NEW m, SlotsOK(m), VoiceHeard(c, m), NEW e \in Engines
    PROVE  Current(c, n, Emit(m, "engine", e))
<1> DEFINE r == Emit(m, "engine", e)
           event == [kind |-> "engine", what |-> e, engine |-> m.keyboard,
                     voice |-> m.voice, mode |-> m.last_mode]
           d == Notified(c, m.events)
<1>1. /\ d \in Caches /\ Notified(c, r.events) = Notify(d, event)
      /\ r.keyboard = m.keyboard /\ r.voice = m.voice /\ r.last_mode = m.last_mode
      /\ Settled(n, r)
  BY Emitted DEF About
<1>2. d.voice = m.voice
  BY DEF VoiceHeard
<1> HIDE DEF r, d
<1>3. Notify(d, event) = [d EXCEPT !.engine = m.keyboard,
                                   !.icon = IconOf(m.keyboard, m.last_mode)]
  BY DEF Notify
<1>4. Notify(d, event) = [engine |-> m.keyboard, voice |-> m.voice,
                          icon |-> IconOf(m.keyboard, m.last_mode)]
  BY <1>1, <1>2, <1>3 DEF Caches
<1> HIDE DEF event
<1>5. Synced(r) = [engine |-> m.keyboard, voice |-> m.voice,
                   icon |-> IconOf(m.keyboard, m.last_mode)]
  BY <1>1 DEF Synced
<1> QED
  BY <1>1, <1>4, <1>5 DEF Current, CacheFollows, r

(* The callback of a voice switch.                                         *)
LEMMA EmitVoiceFollows ==
    ASSUME NEW c \in Caches, NEW n, NEW m, SlotsOK(m), m.voice \in Engines,
           NEW old, Notified(c, m.events) = [Synced(m) EXCEPT !.voice = old]
    PROVE  Current(c, n, Emit(m, "voice", m.voice))
<1> DEFINE r == Emit(m, "voice", m.voice)
           event == [kind |-> "voice", what |-> m.voice, engine |-> m.keyboard,
                     voice |-> m.voice, mode |-> m.last_mode]
           d == Notified(c, m.events)
<1>1. /\ d \in Caches /\ Notified(c, r.events) = Notify(d, event)
      /\ r.keyboard = m.keyboard /\ r.voice = m.voice /\ r.last_mode = m.last_mode
      /\ Settled(n, r)
  BY Emitted DEF About
<1>2. d = [engine |-> m.keyboard, voice |-> old, icon |-> IconOf(m.keyboard, m.last_mode)]
  BY DEF Synced
<1> HIDE DEF r, d
<1>3. Notify(d, event) = [d EXCEPT !.voice = m.voice]
  BY DEF Notify
<1>4. Notify(d, event) = [engine |-> m.keyboard, voice |-> m.voice,
                          icon |-> IconOf(m.keyboard, m.last_mode)]
  BY <1>2, <1>3
<1> HIDE DEF event
<1>5. Synced(r) = [engine |-> m.keyboard, voice |-> m.voice,
                   icon |-> IconOf(m.keyboard, m.last_mode)]
  BY <1>1 DEF Synced
<1> QED
  BY <1>1, <1>4, <1>5 DEF Current, CacheFollows, r

(* typio_instance_notify_mode with the mode of an engine.                  *)
LEMMA NotifyModeFollows ==
    ASSUME NEW c \in Caches, NEW n, NEW m, SlotsOK(m), NEW mode \in Moded \X Modes
    PROVE  /\ Current(c, n, m) => Current(c, n, NotifyMode(m, mode))
           /\ VoiceHeard(c, m) => VoiceHeard(c, NotifyMode(m, mode))
<1> DEFINE v == [m EXCEPT !.last_mode = mode]
           r == Emit(v, "mode", mode)
           event == [kind |-> "mode", what |-> mode, engine |-> v.keyboard,
                     voice |-> v.voice, mode |-> v.last_mode]
           d == Notified(c, m.events)
<1>1. CASE m.last_mode = mode
  BY <1>1 DEF NotifyMode
<1>2. CASE m.last_mode # mode
  <2>1. mode \in ModeNames /\ mode # NoMode
    <3>1. mode[1] \in Moded /\ NoMode[1] = NoEngine
      BY DEF NoMode
    <3> QED
      BY <3>1, EngineKinds DEF ModeNames
  <2>2. /\ SlotsOK(v) /\ v.events = m.events /\ v.last_mode = mode
        /\ v.keyboard = m.keyboard /\ v.voice = m.voice
    BY <2>1 DEF SlotsOK, MgrType, Slotted
  <2>3. NotifyMode(m, mode) = r
    BY <1>2 DEF NotifyMode
  <2> HIDE DEF v
  <2>4. /\ d \in Caches /\ Notified(c, r.events) = Notify(d, event)
        /\ r.keyboard = m.keyboard /\ r.voice = m.voice /\ r.last_mode = mode
        /\ Settled(n, r)
    BY <2>1, <2>2, Emitted DEF About
  <2> HIDE DEF r, d
  <2>5. Notify(d, event) = [d EXCEPT !.icon = mode]
    BY DEF Notify
  <2> HIDE DEF event
  <2>6. Notify(d, event).voice = d.voice
    BY <2>4, <2>5 DEF Caches
  <2>7. ASSUME d = Synced(m)
        PROVE  Notify(d, event) = Synced(r)
    <3>1. Notify(d, event) = [engine |-> m.keyboard, voice |-> m.voice, icon |-> mode]
      BY <2>5, <2>7 DEF Synced
    <3>2. Synced(r) = [engine |-> m.keyboard, voice |-> m.voice, icon |-> mode]
      BY <2>1, <2>4 DEF Synced, IconOf
    <3> QED
      BY <3>1, <3>2
  <2>8. Current(c, n, m) => Current(c, n, r)
    BY <2>4, <2>7 DEF Current, CacheFollows, d
  <2>9. VoiceHeard(c, m) => VoiceHeard(c, r)
    BY <2>4, <2>6 DEF VoiceHeard, d
  <2> QED
    BY <2>3, <2>8, <2>9
<1> QED
  BY <1>1, <1>2

(* The mode of an engine that has modes.                                   *)
LEMMA ModeOfOK ==
    ASSUME NEW m, SlotsOK(m), NEW e \in Moded
    PROVE  ModeOf(m, e) \in Moded \X Modes
  BY DEF ModeOf, SlotsOK, MgrType

(* The engines' operations announce the modes they bring up.               *)
LEMMA OpenSessionFollows ==
    ASSUME NEW c \in Caches, NEW n, NEW m, SlotsOK(m), NEW e
    PROVE  LET r == OpenSession(m, e)
           IN  /\ Current(c, n, m) => Current(c, n, r)
               /\ VoiceHeard(c, m) => VoiceHeard(c, r)
<1> DEFINE o == [m EXCEPT !.sessions = @ \cup {e}]
<1>1. CASE e \notin Moded \ m.sessions
  BY <1>1 DEF OpenSession
<1>2. CASE e \in Moded \ m.sessions
  <2>1. SlotsOK(o) /\ SameFace(m, o)
    BY <1>2 DEF SlotsOK, MgrType, Slotted, SameFace
  <2>2. OpenSession(m, e) = IF e \in Announcing THEN NotifyMode(o, ModeOf(m, e)) ELSE o
    BY <1>2 DEF OpenSession
  <2>3. ModeOf(m, e) \in Moded \X Modes
    BY <1>2, ModeOfOK
  <2> HIDE DEF o
  <2>4. /\ Current(c, n, m) => Current(c, n, o)
        /\ VoiceHeard(c, m) => VoiceHeard(c, o)
    BY <2>1, FaceKeeps
  <2> QED
    BY <2>1, <2>2, <2>3, <2>4, NotifyModeFollows
<1> QED
  BY <1>1, <1>2

(* A reset calls nothing back.                                             *)
LEMMA EngineResetFollows ==
    ASSUME NEW c \in Caches, NEW n, NEW m, SlotsOK(m), NEW e
    PROVE  LET r == EngineReset(m, e)
           IN  /\ Current(c, n, m) => Current(c, n, r)
               /\ VoiceHeard(c, m) => VoiceHeard(c, r)
<1> DEFINE o == IF e \in Moded \/ m.shown = e THEN [m EXCEPT !.shown = NoEngine] ELSE m
<1>1. SlotsOK(o) /\ SameFace(m, o)
  BY DEF SlotsOK, MgrType, Slotted, SameFace
<1>2. EngineReset(m, e) = IF e \in Announcing \cap m.sessions
                          THEN NotifyMode(o, ModeOf(m, e)) ELSE o
  BY DEF EngineReset
<1>3. e \in Announcing => ModeOf(m, e) \in Moded \X Modes
  BY EngineKinds, ModeOfOK
<1> HIDE DEF o
<1>4. /\ Current(c, n, m) => Current(c, n, o)
      /\ VoiceHeard(c, m) => VoiceHeard(c, o)
  BY <1>1, FaceKeeps
<1> QED
  BY <1>1, <1>2, <1>3, <1>4, NotifyModeFollows

(* A reload of an engine may announce its mode.                            *)
LEMMA EngineReloadFollows ==
    ASSUME NEW c \in Caches, NEW n, NEW m, SlotsOK(m), NEW e
    PROVE  Current(c, n, m) => Current(c, n, EngineReload(m, e))
<1> DEFINE o == OpenSession(m, e)
           r == [o EXCEPT !.shown = NoEngine]
<1>1. SlotsOK(o) /\ (Current(c, n, m) => Current(c, n, o))
  BY OpenSessionOK, OpenSessionFollows
<1>2. EngineReload(m, e) = IF m.focused /\ e \in Announcing THEN r ELSE m
  BY DEF EngineReload
<1> HIDE DEF o
<1>3. SameFace(o, r)
  BY <1>1 DEF SlotsOK, MgrType, SameFace
<1> HIDE DEF r
<1> QED
  BY <1>1, <1>2, <1>3, FaceKeeps

(* The focused context moves to the other engine.                          *)
LEMMA RebindContextKeepsVoice ==
    ASSUME NEW c \in Caches, NEW m, SlotsOK(m), NEW old, VoiceHeard(c, m)
    PROVE  VoiceHeard(c, RebindContext(m, old))
<1>1. CASE ~m.focused
  BY <1>1 DEF RebindContext
<1>2. CASE m.focused
  <2> DEFINE new     == m.keyboard
             left    == IF old = NoEngine THEN m ELSE EngineFocusOut(m, old)
             unmoded == ClearMode(left)
             clear   == EngineReset(unmoded, new)
             entered == EngineFocusIn(clear, new)
  <2>1. SlotsOK(left) /\ VoiceHeard(c, left)
    BY EngineResetOK, EngineResetFollows DEF EngineFocusOut
  <2>2. SlotsOK(unmoded) /\ VoiceHeard(c, unmoded)
    <3> HIDE DEF left
    <3>1. /\ SlotsOK(unmoded) /\ unmoded.events = left.events
          /\ unmoded.voice = left.voice
      BY <2>1, EngineKinds DEF ClearMode, SlotsOK, MgrType, Slotted
    <3> QED
      BY <2>1, <3>1 DEF VoiceHeard
  <2>3. SlotsOK(clear) /\ VoiceHeard(c, clear)
    <3> HIDE DEF unmoded
    <3> QED
      BY <2>2, EngineResetOK, EngineResetFollows
  <2>4. SlotsOK(entered) /\ VoiceHeard(c, entered)
    <3> HIDE DEF clear
    <3> QED
      BY <2>3, OpenSessionOK, OpenSessionFollows DEF EngineFocusIn
  <2>5. RebindContext(m, old) = IF new \in Moded
                                THEN NotifyMode(entered, ModeOf(entered, new))
                                ELSE entered
    BY <1>2 DEF RebindContext, entered
  <2> HIDE DEF entered
  <2>6. new \in Moded => ModeOf(entered, new) \in Moded \X Modes
    BY <2>4, ModeOfOK
  <2> QED
    BY <2>4, <2>5, <2>6, NotifyModeFollows
<1> QED
  BY <1>1, <1>2 DEF SlotsOK, MgrType

(* typio_engine_manager_set_active: every callback a switch makes, the     *)
(* modes that the contexts' operations announce included, adds up.         *)
LEMMA SetActiveFollows ==
    ASSUME NEW c \in Caches, NEW k, NEW m, MgrOK(m), m.result = "ok", NEW e, NEW ok,
           Current(c, k, m)
    PROVE  Current(c, k, SetActive(m, e, ok))
<1> DEFINE current == IF e \in Keyboards THEN m.keyboard ELSE m.voice
           stopped == [m EXCEPT !.active = @ \ {current}]
           ready   == EnsureInstance(stopped, e)
           started == IF ready.result = "ok" THEN Activate(ready, e, ok) ELSE ready
           r       == SetActive(m, e, ok)
<1>1. CASE r.result = "error"
  <2>1. Unmoved(m, r)
    BY <1>1, SetActiveOK
  <2>2. SameFace(m, r)
    BY <2>1 DEF Unmoved, SameFace
  <2> QED
    BY <2>2, FaceKeeps
<1>2. CASE r.result # "error" /\ e \in Engines /\ current = e
  BY <1>2 DEF SetActive
<1>3. CASE r.result # "error" /\ e \in Engines /\ current # e
  <2>1. \/ started.result = "error" /\ FailedStart(m, current, started)
        \/ started.result = "ok" /\ DoneStart(m, current, e, started)
    BY <1>3, StartOK DEF MgrOK, SlotsOK
  <2>2. r = IF started.result = "error" THEN TryRestore(started, current, ok)
            ELSE IF e \in Voices THEN Emit([started EXCEPT !.voice = e], "voice", e)
            ELSE Emit(RebindContext(ClearMode([started EXCEPT !.keyboard = e,
                                                              !.rapid = TRUE]),
                                    current),
                      "engine", e)
    BY <1>3 DEF SetActive
  <2>3. current = IF e \in Keyboards THEN m.keyboard ELSE m.voice
    OBVIOUS
  <2> HIDE DEF current, started, r
  <2>4. started.result = "ok"
    <3> SUFFICES ASSUME started.result = "error", FailedStart(m, current, started)
                 PROVE  FALSE
      BY <2>1
    <3>1. m \in MgrType
      BY DEF MgrOK, SlotsOK
    <3>2. PICK C \in SUBSET Engines :
            started = [m EXCEPT !.active = @ \ {current}, !.created = C, !.result = "error"]
      BY DEF FailedStart
    <3>3. TryRestore(started, current, ok).result = "error"
      BY <3>1, <3>2 DEF TryRestore, MgrType
    <3> QED
      BY <1>3, <2>2, <3>3
  <2>5. Switched(m, e, current, started)
    BY <1>3, <2>1, <2>3, <2>4, SwitchDone
  <2>6. CASE e \in Voices
    <3> DEFINE n == [started EXCEPT !.voice = e]
    <3>1. /\ SlotsOK(n) /\ n.keyboard = m.keyboard /\ n.voice = e
          /\ n.events = m.events /\ n.last_mode = m.last_mode
      BY <2>5, <2>6 DEF Switched
    <3>2. r = Emit(n, "voice", e)
      BY <2>2, <2>4, <2>6
    <3> HIDE DEF n
    <3>3. Notified(c, n.events) = [Synced(n) EXCEPT !.voice = m.voice]
      BY <3>1 DEF Current, CacheFollows, Synced
    <3>4. n.voice \in Engines
      BY <1>3, <3>1
    <3>5. Current(c, k, Emit(n, "voice", n.voice))
      BY <3>1, <3>3, <3>4, EmitVoiceFollows
    <3>6. Current(c, k, r)
      BY <3>1, <3>2, <3>5
    <3> QED
      BY <3>6 DEF r
  <2>7. CASE e \in Keyboards
    <3> DEFINE n == ClearMode([started EXCEPT !.keyboard = e, !.rapid = TRUE])
               b == RebindContext(n, current)
    <3>1. /\ SlotsOK(n) /\ n.keyboard = e
          /\ n.shown # NoEngine => n.shown = current /\ n.focused
          /\ n.voice = m.voice /\ n.events = m.events
      BY <2>5, <2>7 DEF Switched
    <3>2. r = Emit(b, "engine", e)
      BY <2>2, <2>4, <2>7, EngineKinds
    <3> HIDE DEF n
    <3>3. VoiceHeard(c, n)
      BY <3>1 DEF VoiceHeard, Current, CacheFollows, Synced
    <3>4. VoiceHeard(c, b)
      BY <3>1, <3>3, RebindContextKeepsVoice
    <3>5. SlotsOK(b)
      BY <2>7, <3>1, RebindContextOK DEF MgrOK
    <3> HIDE DEF b
    <3>6. Current(c, k, r)
      BY <1>3, <3>2, <3>4, <3>5, EmitEngineFollows
    <3> QED
      BY <3>6 DEF r
  <2> QED
    BY <1>3, <2>6, <2>7, EngineKinds DEF r
<1>4. CASE e \notin Engines
  <2>1. SetActive(m, e, ok) = [m EXCEPT !.result = "error"]
    BY <1>4 DEF SetActive, Fail
  <2>2. SameFace(m, SetActive(m, e, ok))
    BY <2>1 DEF SameFace, MgrOK, SlotsOK, MgrType
  <2> QED
    BY <2>2, FaceKeeps
<1> HIDE DEF r, current
<1> QED
  BY <1>1, <1>2, <1>3, <1>4 DEF r

(* What a caller does with the result is not shown.                        *)
LEMMA TryFollows ==
    ASSUME NEW c, NEW k, NEW m, MgrOK(m), Current(c, k, m)
    PROVE  Current(c, k, Try(m)) /\ Current(c, k, Fail(m))
<1>1. SameFace(m, Try(m)) /\ SameFace(m, Fail(m))
  BY DEF SameFace, Try, Fail, MgrOK, SlotsOK, MgrType
<1> QED
  BY <1>1, FaceKeeps

(* A switch of the voice engine.                                           *)
LEMMA SetActiveVoiceFollows ==
    ASSUME NEW c \in Caches, NEW k, NEW m, MgrOK(m), m.result = "ok", NEW e, NEW ok,
           Current(c, k, m)
    PROVE  Current(c, k, SetActiveVoice(m, e, ok))
  BY SetActiveFollows, TryFollows DEF SetActiveVoice

(* A cycle is a switch to the neighbour, or nothing.                       *)
LEMMA CycleFollows ==
    ASSUME NEW c \in Caches, NEW k, NEW m, MgrOK(m), m.result = "ok", NEW direction, NEW ok,
           Current(c, k, m)
    PROVE  Current(c, k, Cycle(m, direction, ok))
  BY SetActiveFollows, TryFollows DEF Cycle

(* typio_instance_reload_config                                            *)
LEMMA ReloadedFollows ==
    ASSUME NEW c \in Caches, NEW k, NEW m, MgrOK(m), m.result = "ok", NEW conf, NEW ok,
           Current(c, k, m)
    PROVE  Current(c, k, Reloaded(m, conf, ok))
<1> DEFINE switched == IF conf.default \in {NoEngine, m.keyboard} THEN m
                       ELSE Try(SetActive(m, conf.default, ok))
           heard == IF switched.keyboard = NoEngine THEN switched
                    ELSE EngineReload(switched, switched.keyboard)
<1>1. MgrOK(switched) /\ switched.result = "ok" /\ Current(c, k, switched)
  BY SetActiveOK, SetActiveFollows, TryOK, TryFollows
<1>2. MgrOK(heard) /\ heard.result = "ok" /\ Current(c, k, heard)
  <2> HIDE DEF switched
  <2> QED
    BY <1>1, EngineReloadOK, EngineReloadFollows DEF MgrOK, Composed, Frame
<1>3. Reloaded(m, conf, ok) = IF conf.voice \in {NoEngine, heard.voice} THEN heard
                              ELSE Try(SetActiveVoice(heard, conf.voice, ok))
  BY DEF Reloaded
<1> HIDE DEF heard
<1>4. /\ MgrOK(SetActiveVoice(heard, conf.voice, ok))
      /\ Current(c, k, SetActiveVoice(heard, conf.voice, ok))
  BY <1>2, SetActiveVoiceOK, SetActiveVoiceFollows
<1> QED
  BY <1>2, <1>3, <1>4, TryFollows

(* A deployment reloads the engine and announces its mode.                 *)
LEMMA RedeployedFollows ==
    ASSUME NEW c \in Caches, NEW k, NEW m, MgrOK(m), NEW e \in Announcing, NEW done,
           Current(c, k, m)
    PROVE  Current(c, k, Redeployed(m, e, done))
<1> DEFINE old == [m EXCEPT !.sessions = @ \ {e}, !.mode[e] = "native"]
<1>1. SlotsOK(old) /\ SameFace(m, old)
  BY DEF MgrOK, SlotsOK, MgrType, Slotted, Modes, SameFace
<1>2. Redeployed(m, e, done) = IF done THEN EngineReload(old, e) ELSE old
  BY DEF Redeployed
<1> HIDE DEF old
<1> QED
  BY <1>1, <1>2, FaceKeeps, EngineReloadFollows

(* A context that gains or loses the focus.                                *)
LEMMA ContextFollows ==
    ASSUME NEW c \in Caches, NEW k, NEW m, MgrOK(m), Current(c, k, m)
    PROVE  Current(c, k, ContextFocusIn(m)) /\ Current(c, k, ContextFocusOut(m))
<1>1. Current(c, k, ContextFocusIn(m))
  <2> DEFINE f == [m EXCEPT !.focused = TRUE]
  <2>1. SlotsOK(f) /\ SameFace(m, f) /\ m.keyboard = f.keyboard
    BY DEF MgrOK, SlotsOK, MgrType, Slotted, SameFace
  <2>2. ContextFocusIn(m) = IF m.focused THEN m ELSE OpenSession(f, m.keyboard)
    BY DEF ContextFocusIn, EngineFocusIn
  <2> HIDE DEF f
  <2> QED
    BY <2>1, <2>2, FaceKeeps, OpenSessionFollows
<1>2. Current(c, k, ContextFocusOut(m))
  <2> DEFINE l == IF m.keyboard = NoEngine THEN m ELSE EngineReset(m, m.keyboard)
             f == [l EXCEPT !.focused = FALSE]
  <2>1. SlotsOK(l) /\ Current(c, k, l)
    BY EngineResetOK, EngineResetFollows DEF MgrOK
  <2>2. ContextFocusOut(m) = IF m.focused THEN f ELSE m
    BY DEF ContextFocusOut, EngineFocusOut
  <2> HIDE DEF l
  <2>3. SameFace(l, f)
    BY <2>1 DEF SlotsOK, MgrType, SameFace
  <2> HIDE DEF f
  <2> QED
    BY <2>1, <2>2, <2>3, FaceKeeps
<1> QED
  BY <1>1, <1>2

-----------------------------------------------------------------------------
(* The signals of the bus, in their order.                                 *)

SignalNames == {"left", "appeared"}
WatcherStates == [owner : BOOLEAN, gap : BOOLEAN, aware : BOOLEAN, refused : BOOLEAN,
                  late : BOOLEAN]
TrayStates == [registered : BOOLEAN, watcher : WatcherStates]

(* A signal leaves the tray in one of its states.                          *)
LEMMA FilterOK ==
    ASSUME NEW s \in TrayStates, NEW signal, NEW ok \in BOOLEAN, NEW late \in BOOLEAN
    PROVE  Filter(s, signal, ok, late) \in TrayStates
<1>1. Register(s, ok, late) \in TrayStates
  BY DEF Register, TrayStates, WatcherStates
<1>2. [s EXCEPT !.registered = FALSE] \in TrayStates
  BY DEF TrayStates
<1> QED
  BY <1>1, <1>2 DEF Filter

(* The tray goes through the signals one by one.                           *)
FilterSteps(f, s, oks, late) ==
    /\ f[0] = s
    /\ \A k \in 0..Len(signals) : f[k] \in TrayStates
    /\ \A k \in 1..Len(signals) : f[k] = Filter(f[k-1], signals[k], oks[k], late)

(* Each step of the fold dispatches one signal.                            *)
LEMMA FilteredSteps ==
    ASSUME NEW s \in TrayStates, signals \in Seq(SignalNames),
           NEW oks \in [DOMAIN signals -> BOOLEAN], NEW late \in BOOLEAN
    PROVE  \E f : FilterSteps(f, s, oks, late) /\ f[Len(signals)] = Filtered(s, oks, late)
<1> DEFINE n == Len(signals)
           B == TrayStates
           g == [x \in B \X (1..n) |-> Filter(x[1], signals[x[2]], oks[x[2]], late)]
           seq == [i \in DOMAIN signals |-> i]
           eq(h) == h = [t \in SUBSET (1..n) |->
                           IF t = {} THEN s
                           ELSE Filter(h[t \ {Max(t)}], signals[seq[Max(t)]],
                                       oks[seq[Max(t)]], late)]
<1>2. n \in Nat /\ DOMAIN signals = 1..n /\ DOMAIN seq = 1..n /\ \A i \in 1..n : seq[i] = i
  OBVIOUS
<1>1. g \in [B \X (1..n) -> B]
  BY <1>2, FilterOK
<1>3. \A r \in B, i \in 1..n : g[<<r, i>>] = Filter(r, signals[i], oks[i], late)
  OBVIOUS
<1>4. Filtered(s, oks, late) = (CHOOSE h : eq(h))[1..n]
  BY <1>2 DEF Filtered, FoldLeft, MapThenFoldSet
<1> HIDE DEF g, seq
<1>5. PICK h \in [SUBSET (1..n) -> B] : FoldEquation(h, B, s, g, n)
  BY <1>1, <1>2, FoldExists
<1>6. eq(h)
  <2>1. ASSUME NEW t \in SUBSET (1..n)
        PROVE  h[t] = IF t = {} THEN s
                      ELSE Filter(h[t \ {Max(t)}], signals[seq[Max(t)]],
                                  oks[seq[Max(t)]], late)
    <3>1. CASE t = {}
      BY <1>5, <3>1 DEF FoldEquation
    <3>2. CASE t # {}
      <4>1. Max(t) \in 1..n /\ seq[Max(t)] = Max(t)
        BY <1>2, <3>2, MaxIsMember
      <4>2. h[t \ {Max(t)}] \in B
        OBVIOUS
      <4>3. h[t] = g[<<h[t \ {Max(t)}], Max(t)>>]
        BY <1>5, <3>2, <4>2 DEF FoldEquation
      <4> HIDE DEF B
      <4> QED
        BY <1>3, <3>2, <4>1, <4>2, <4>3
    <3> QED
      BY <3>1, <3>2
  <2> QED
    BY <2>1
<1> DEFINE r == CHOOSE h2 : eq(h2)
<1>7. eq(r)
  <2> HIDE DEF eq
  <2> QED
    BY <1>6
<1> HIDE DEF r
<1>8. FoldEquation(r, B, s, g, n)
  <2>1. r[{}] = s
    BY <1>7
  <2>2. ASSUME NEW t \in SUBSET (1..n), t # {}, r[t \ {Max(t)}] \in B
        PROVE  r[t] = g[<<r[t \ {Max(t)}], Max(t)>>]
    <3>1. Max(t) \in 1..n /\ seq[Max(t)] = Max(t)
      BY <1>2, <2>2, MaxIsMember
    <3>2. r[t] = Filter(r[t \ {Max(t)}], signals[seq[Max(t)]], oks[seq[Max(t)]], late)
      BY <1>7, <2>2
    <3> HIDE DEF B
    <3> QED
      BY <1>3, <2>2, <3>1, <3>2
  <2> QED
    BY <2>1, <2>2 DEF FoldEquation
<1> DEFINE f == [k \in 0..n |-> r[1..k]]
<1>9. \A k \in 0..n : r[1..k] \in B /\ (k # 0 => FoldStep(r, g, k))
  <2> HIDE DEF B, n
  <2> QED
    BY <1>1, <1>2, <1>8, FoldSteps DEF B
<1>10. \A k \in 0..n : f[k] = r[1..k]
  OBVIOUS
<1>11. f[0] = s
  <2>1. 1..0 = {} /\ 0 \in 0..n
    BY <1>2
  <2>2. f[0] = r[{}]
    BY <1>10, <2>1
  <2> QED
    BY <1>8, <2>2 DEF FoldEquation
<1>12. f[n] = Filtered(s, oks, late)
  <2>1. n \in 0..n
    BY <1>2
  <2> QED
    BY <1>4, <1>10, <2>1 DEF r
<1>13. ASSUME NEW k \in 1..n
       PROVE  f[k] = Filter(f[k-1], signals[k], oks[k], late)
  <2>1. k \in 0..n /\ k # 0 /\ k - 1 \in 0..n
    BY <1>2
  <2>2. f[k] = r[1..k] /\ f[k-1] = r[1..(k-1)]
    BY <1>10, <2>1
  <2>3. r[1..(k-1)] \in B /\ r[1..k] = g[<<r[1..(k-1)], k>>]
    BY <1>9, <2>1 DEF FoldStep
  <2> HIDE DEF B, f
  <2> QED
    BY <1>3, <2>2, <2>3
<1>14. \A k \in 0..n : f[k] \in TrayStates
  BY <1>9, <1>10
<1> HIDE DEF f
<1> QED
  BY <1>11, <1>12, <1>13, <1>14 DEF FilterSteps

(* Whoever has taken the item in, not late, is who the daemon registered   *)
(* with, but between a leaving and the coming that follows it.             *)
LEMMA FilteredRegisters ==
    ASSUME signals \in Seq(SignalNames), signals # <<>>,
           NEW s \in TrayStates, ~s.watcher.aware,
           NEW oks \in [DOMAIN signals -> BOOLEAN], NEW late \in BOOLEAN
    PROVE  LET r == Filtered(s, oks, late)
           IN  /\ r \in TrayStates
               /\ r.watcher.owner = s.watcher.owner
               /\ r.watcher.aware => r.watcher.owner
               /\ r.watcher.aware /\ ~r.watcher.late => r.registered \/ Last(signals) = "left"
<1> DEFINE n == Len(signals)
           Kept(r, k) == /\ r.watcher.owner = s.watcher.owner
                         /\ r.watcher.aware => r.watcher.owner
                         /\ r.watcher.aware /\ ~r.watcher.late =>
                               r.registered \/ (k # 0 /\ signals[k] = "left")
<1>1. PICK f : FilterSteps(f, s, oks, late) /\ f[n] = Filtered(s, oks, late)
  BY FilteredSteps
<1>2. n \in Nat /\ n # 0 /\ DOMAIN signals = 1..n /\ \A k \in 1..n : signals[k] \in SignalNames
  OBVIOUS
<1> HIDE DEF n
<1> DEFINE T == {k \in Nat : k <= n => Kept(f[k], k)}
<1>3. 0 \in T
  BY <1>1 DEF FilterSteps, TrayStates, WatcherStates
<1>4. ASSUME NEW k \in Nat, k \in T
      PROVE  k + 1 \in T
  <2>1. CASE k + 1 <= n
    <3>1. k + 1 \in 1..n /\ k \in 0..n /\ (k + 1) - 1 = k /\ k + 1 # 0 /\ Kept(f[k], k)
      BY <1>2, <1>4, <2>1
    <3>2. f[k] \in TrayStates
      BY <1>1, <3>1 DEF FilterSteps, n
    <3>3. f[k+1] = Filter(f[k], signals[k+1], oks[k+1], late)
      BY <1>1, <3>1 DEF FilterSteps, n
    <3>4. oks[k+1] \in BOOLEAN /\ signals[k+1] \in SignalNames
      BY <1>2, <3>1
    <3>5. CASE signals[k+1] = "left"
      <4>1. f[k+1] = [f[k] EXCEPT !.registered = FALSE]
        BY <3>3, <3>5 DEF Filter
      <4>2. f[k+1].watcher = f[k].watcher
        BY <3>2, <4>1 DEF TrayStates
      <4> QED
        BY <3>1, <3>5, <4>2
    <3>6. CASE signals[k+1] # "left" /\ f[k].registered
      <4>1. f[k+1] = f[k]
        BY <3>3, <3>6 DEF Filter
      <4> QED
        BY <3>1, <3>6, <4>1
    <3>7. CASE signals[k+1] # "left" /\ ~f[k].registered
      <4>1. f[k+1] = Register(f[k], oks[k+1], late)
        BY <3>3, <3>7 DEF Filter
      <4> DEFINE w == f[k].watcher
                 v == f[k+1].watcher
      <4>2. w \in WatcherStates
        BY <3>2 DEF TrayStates
      <4> DEFINE aware_ == w.aware \/ (w.owner /\ (oks[k+1] \/ late))
                 refused_ == w.owner /\ ~oks[k+1]
                 late_ == w.late \/ (~oks[k+1] /\ (w.aware \/ (w.owner /\ late)))
                 registered_ == w.owner /\ oks[k+1]
      <4>7. f[k+1] = [registered |-> registered_,
                      watcher |-> [w EXCEPT !.aware = aware_, !.refused = refused_,
                                            !.late = late_]]
        BY <4>1 DEF Register
      <4>8. /\ f[k+1].registered = registered_
            /\ v = [w EXCEPT !.aware = aware_, !.refused = refused_, !.late = late_]
        <5> HIDE DEF registered_, aware_, refused_, late_
        <5> QED
          BY <4>7
      <4>9. v.owner = w.owner /\ v.aware = aware_ /\ v.late = late_
        <5> HIDE DEF registered_, aware_, refused_, late_, v
        <5> QED
          BY <4>2, <4>8 DEF WatcherStates
      <4>3. /\ v.owner = w.owner
            /\ v.aware <=> (w.aware \/ (w.owner /\ (oks[k+1] \/ late)))
            /\ v.late <=> (w.late \/ (~oks[k+1] /\ (w.aware \/ (w.owner /\ late))))
            /\ f[k+1].registered <=> (w.owner /\ oks[k+1])
        <5> HIDE DEF v, w
        <5> QED
          BY <4>8, <4>9
      <4>4. w.aware => w.owner
        BY <3>1
      <4>5. w.owner = s.watcher.owner
        BY <3>1
      <4> HIDE DEF w, v, aware_, late_, refused_, registered_
      <4>6. /\ v.owner = s.watcher.owner /\ (v.aware => v.owner)
            /\ v.aware /\ ~v.late => f[k+1].registered
        BY <3>4, <4>2, <4>3, <4>4, <4>5 DEF WatcherStates
      <4> QED
        BY <4>6 DEF v
    <3> QED
      BY <3>5, <3>6, <3>7
  <2>2. CASE ~(k + 1 <= n)
    BY <2>2
  <2> QED
    BY <2>1, <2>2
<1>5. Nat \subseteq T
  <2> HIDE DEF T
  <2> QED
    BY <1>3, <1>4, Induction
<1>6. Kept(f[n], n)
  BY <1>2, <1>5
<1>7. f[n] \in TrayStates
  <2>1. n \in 0..n
    BY <1>2
  <2> QED
    BY <1>1, <2>1 DEF FilterSteps, n
<1>8. Last(signals) = signals[n]
  BY DEF Last, n
<1> HIDE DEF T
<1> QED
  BY <1>1, <1>6, <1>7, <1>8

-----------------------------------------------------------------------------
(* The invariant of the surfaces.                                          *)

(* What the last PropertiesChanged said but for the configuration.         *)
ClientsFollow == \E x : told = Sent(mgr.keyboard, mgr.voice, mgr.last_mode, x)

(* The tray's registration and the signals of the bus: while one waits, no *)
(* watcher that is there has the item, and the last tells of this watcher. *)
Dispatching ==
    /\ signals \in Seq(SignalNames) /\ registered \in BOOLEAN /\ stale \in BOOLEAN
    /\ watcher \in WatcherStates
    /\ signals # <<>> => ~watcher.aware /\ (Last(signals) = "appeared" <=> watcher.owner)
    /\ signals = <<>> /\ watcher.aware /\ ~watcher.late => registered

(* The panel shows the item of now, or was told to fetch it.               *)
PanelFollows ==
    watcher.aware /\ ~watcher.late /\ ~stale =>
        panel.mark = item.engine /\ panel.voice = item.voice /\ panel.icon = item.icon

SurfacesInv ==
    IInv /\ item = Synced(mgr) /\ ClientsFollow /\ Dispatching /\ PanelFollows

(* The cache that shows a manager.                                         *)
LEMMA SyncedOK ==
    ASSUME NEW m, SlotsOK(m)
    PROVE  Synced(m) \in Caches
<1>1. /\ m.keyboard \in Engines \cup {NoEngine} /\ m.voice \in Engines \cup {NoEngine}
      /\ m.last_mode \in ModeNames
  BY EngineKinds DEF SlotsOK, MgrType
<1>2. IconOf(m.keyboard, m.last_mode) \in Shows
  BY <1>1 DEF IconOf, DefaultIcon, Shows
<1>3. m.keyboard \in Shows /\ m.voice \in Shows
  BY <1>1 DEF Shows
<1> QED
  BY <1>2, <1>3 DEF Synced, Caches

(* A handler starts from what is shown.                                    *)
LEMMA FreshFollows ==
    ASSUME IInv
    PROVE  Current(Synced(mgr), Fresh, Fresh) /\ Synced(mgr) \in Caches
<1>1. /\ SlotsOK(mgr) /\ Fresh.events = <<>> /\ Synced(Fresh) = Synced(mgr)
  BY FreshOK DEF IInv, MgrOK, SlotsOK, MgrType, Synced
<1>2. Synced(mgr) \in Caches
  BY <1>1, SyncedOK
<1>3. Notified(Synced(mgr), <<>>) = Synced(mgr)
  BY <1>2, NotifiedOfNone
<1> QED
  BY <1>1, <1>2, <1>3 DEF Current, CacheFollows, Settled

(* A cache that heard the callbacks, as the handlers leave it.             *)
Told == Current(Synced(mgr), Fresh, mgr')

(* A choice in the menu.                                                   *)
LEMMA SelectTells ==
    ASSUME IInv, NEW e, NEW ok, Select(e, ok)
    PROVE  IInv' /\ Told
<1>1. MgrOK(Fresh) /\ Fresh.result = "ok"
  BY FreshOK DEF IInv
<1>2. /\ mgr' = SetActive(Fresh, e, ok) /\ cycle' = <<>>
      /\ UNCHANGED <<config, saved, typed>>
  BY DEF Select
<1>3. IInv'
  BY <1>1, <1>2, SetActiveOK DEF IInv
<1> QED
  BY <1>1, <1>2, <1>3, FreshFollows, SetActiveFollows DEF Told

(* The switches of the bus and of the item.                                *)
LEMMA SwitchesTell ==
    ASSUME IInv, NEW ok \in BOOLEAN, NEW e,
           ActivateEngine(e, ok) \/ CycleNext(ok) \/ CyclePrev(ok)
    PROVE  Told
<1>1. MgrOK(Fresh) /\ Fresh.result = "ok"
  BY FreshOK DEF IInv
<1>2. \/ mgr' = SetActive(Fresh, e, ok) \/ mgr' = Cycle(Fresh, "next", ok)
      \/ mgr' = Cycle(Fresh, "prev", ok)
  BY DEF ActivateEngine, CycleNext, CyclePrev
<1> QED
  BY <1>1, <1>2, FreshFollows, SetActiveFollows, CycleFollows DEF Told

(* What the frontend and the engines do of themselves.                     *)
LEMMA UseTells ==
    ASSUME IInv, Pause \/ FocusIn \/ FocusOut \/ Compose \/ ToggleMode
    PROVE  Told
<1>1. /\ MgrOK(Fresh) /\ SlotsOK(Fresh) /\ Fresh.keyboard = mgr.keyboard
      /\ Current(Synced(mgr), Fresh, Fresh) /\ Synced(mgr) \in Caches
  BY FreshOK, FreshFollows DEF IInv, MgrOK, SlotsOK, MgrType
<1>2. CASE Pause
  <2> DEFINE r == [Fresh EXCEPT !.rapid = FALSE]
  <2>1. mgr' = r /\ SameFace(Fresh, r)
    BY <1>1, <1>2 DEF Pause, SameFace, SlotsOK, MgrType
  <2> QED
    BY <1>1, <2>1, FaceKeeps DEF Told
<1>3. CASE FocusIn \/ FocusOut
  BY <1>1, <1>3, ContextFollows DEF FocusIn, FocusOut, Told
<1> DEFINE o == OpenSession(Fresh, mgr.keyboard)
<1>4. SlotsOK(o) /\ Current(Synced(mgr), Fresh, o)
  BY <1>1, OpenSessionOK, OpenSessionFollows
<1>5. CASE Compose
  <2>1. PICK shown \in {mgr.keyboard, NoEngine} : mgr' = [o EXCEPT !.shown = shown]
    BY <1>5 DEF Compose
  <2> HIDE DEF o
  <2>2. SameFace(o, mgr')
    BY <1>4, <2>1 DEF SameFace, SlotsOK, MgrType
  <2> QED
    BY <1>4, <2>2, FaceKeeps DEF Told
<1>6. CASE ToggleMode
  <2> DEFINE e == mgr.keyboard
             t == [o EXCEPT !.mode[e] = IF @ = "native" THEN "latin" ELSE "native"]
  <2>1. e \in Moded /\ mgr' = IF e \in Announcing THEN NotifyMode(t, ModeOf(t, e)) ELSE t
    BY <1>6 DEF ToggleMode
  <2> HIDE DEF o
  <2>2. SlotsOK(t) /\ SameFace(o, t)
    BY <1>4, <2>1 DEF SlotsOK, MgrType, Slotted, Modes, SameFace
  <2> HIDE DEF t
  <2>3. Current(Synced(mgr), Fresh, t)
    BY <1>4, <2>2, FaceKeeps
  <2>4. ModeOf(t, e) \in Moded \X Modes
    BY <2>1, <2>2, ModeOfOK
  <2> QED
    BY <1>1, <2>1, <2>2, <2>3, <2>4, NotifyModeFollows DEF Told
<1> QED
  BY <1>2, <1>3, <1>5, <1>6

(* A reload of the configuration.                                          *)
LEMMA ReloadTells ==
    ASSUME IInv, NEW conf, NEW ok, ReloadConfig(conf, ok)
    PROVE  Told
<1>1. MgrOK(Fresh) /\ Fresh.result = "ok"
  BY FreshOK DEF IInv
<1>2. mgr' = Reloaded(Fresh, conf, ok)
  BY DEF ReloadConfig
<1> QED
  BY <1>1, <1>2, FreshFollows, ReloadedFollows DEF Told

(* A deployment, whether or not the engine could be made.                  *)
LEMMA DeployTells ==
    ASSUME IInv, NEW e \in Announcing, NEW ok \in BOOLEAN, NEW done \in BOOLEAN,
           DeployRime(e, ok, done)
    PROVE  Told
<1> DEFINE made == IF e \in Missing THEN Fresh ELSE [Fresh EXCEPT !.created = @ \cup {e}]
           inited == [made EXCEPT !.initialized = @ \cup {e}]
<1>1. /\ MgrOK(Fresh) /\ Fresh.result = "ok"
      /\ Current(Synced(mgr), Fresh, Fresh) /\ Synced(mgr) \in Caches
  BY FreshOK, FreshFollows DEF IInv
<1>2. mgr' = IF DeployFails(e, ok) THEN Fail(made) ELSE Redeployed(inited, e, done)
  BY Zenon DEF DeployRime
<1>3. MgrOK(made) /\ SameFace(Fresh, made)
  BY <1>1, EngineKinds DEF MgrOK, SlotsOK, MgrType, Slotted, Composed, SameFace
<1>4. ~DeployFails(e, ok) => e \in made.created
  BY <1>1, FreshOK DEF DeployFails, MgrOK, SlotsOK, MgrType, IInv
<1> HIDE DEF made
<1>5. Current(Synced(mgr), Fresh, made)
  BY <1>1, <1>3, FaceKeeps
<1>6. ~DeployFails(e, ok) => MgrOK(inited)
  BY <1>3, <1>4, EngineKinds DEF MgrOK, SlotsOK, MgrType, Slotted, Composed
<1>7. SameFace(made, inited)
  BY <1>3 DEF SameFace, MgrOK, SlotsOK, MgrType
<1> HIDE DEF inited
<1>8. Current(Synced(mgr), Fresh, inited)
  BY <1>5, <1>7, FaceKeeps
<1>9. CASE DeployFails(e, ok)
  BY <1>2, <1>3, <1>5, <1>9, TryFollows DEF Told
<1>10. CASE ~DeployFails(e, ok)
  BY <1>1, <1>2, <1>6, <1>8, <1>10, RedeployedFollows DEF Told
<1> QED
  BY <1>9, <1>10

(* A handler whose callbacks were heard keeps the surfaces' invariant.     *)
LEMMA ShownKeeps ==
    ASSUME SurfacesInv, NEW action, NEW conf, ShownUnder(action, conf), IInv', Told
    PROVE  SurfacesInv'
<1>1. /\ item = Synced(mgr) /\ ClientsFollow /\ Dispatching /\ PanelFollows
      /\ item' = Notified(item, mgr'.events)
      /\ told' = Heard(mgr'.events, conf)
      /\ IF mgr'.events = <<>> THEN stale' = stale ELSE Broadcast
      /\ registered' = registered /\ signals' = signals /\ watcher' = watcher
      /\ panel' = panel
  BY SMT DEF SurfacesInv, ShownUnder
<1>2. item' = Synced(mgr')
  BY <1>1 DEF Told, Current, CacheFollows
<1>3. Settled(Fresh, mgr')
  BY DEF Told, Current
<1>4. Fresh.keyboard = mgr.keyboard /\ Fresh.voice = mgr.voice /\ Fresh.last_mode = mgr.last_mode
  BY FreshOK DEF SurfacesInv, IInv, MgrOK, SlotsOK, MgrType
<1>5. CASE mgr'.events = <<>>
  <2>1. mgr'.keyboard = mgr.keyboard /\ mgr'.voice = mgr.voice /\ mgr'.last_mode = mgr.last_mode
    BY <1>3, <1>4, <1>5 DEF Settled
  <2>2. item' = item
    BY <1>1, <1>2, <2>1 DEF Synced
  <2>3. told' = Silence
    BY <1>1, <1>5 DEF Heard
  <2> DEFINE still == told.dbus.current /\ config' = config
  <2>4. told' = Sent(mgr'.keyboard, mgr'.voice, mgr'.last_mode, still)
    <3>1. told' = [told EXCEPT !.socket.current = still, !.dbus.current = still]
      BY <2>3 DEF Silence
    <3>2. PICK x : told = Sent(mgr.keyboard, mgr.voice, mgr.last_mode, x)
      BY <1>1 DEF ClientsFollow
    <3> HIDE DEF still
    <3> QED
      BY <2>1, <3>1, <3>2 DEF Sent, ServiceProperties, DBusProperties
  <2>5. ClientsFollow'
    BY <2>4 DEF ClientsFollow
  <2>6. Dispatching' /\ PanelFollows'
    BY <1>1, <1>5, <2>2 DEF Dispatching, PanelFollows
  <2> QED
    BY <1>2, <2>5, <2>6 DEF SurfacesInv
<1>6. CASE mgr'.events # <<>>
  <2>1. \E x : told' = Sent(mgr'.keyboard, mgr'.voice, mgr'.last_mode, x)
    BY <1>1, <1>3, <1>6 DEF Heard, Settled
  <2>2. ClientsFollow'
    BY <2>1 DEF ClientsFollow
  <2>3. stale' = (stale \/ registered)
    BY <1>1, <1>6 DEF Broadcast
  <2>4. Dispatching' /\ PanelFollows'
    BY <1>1, <2>3 DEF Dispatching, PanelFollows
  <2> QED
    BY <1>2, <2>2, <2>4 DEF SurfacesInv
<1> QED
  BY <1>5, <1>6

(* So does one that ends with a sync of the controller.                    *)
LEMMA SyncedKeeps ==
    ASSUME SurfacesInv, NEW action, SyncedAfter(action), IInv'
    PROVE  SurfacesInv'
<1>1. /\ Dispatching /\ PanelFollows
      /\ item' = Synced(mgr') /\ told' = SentOf(mgr') /\ stale' = (stale \/ registered)
      /\ registered' = registered /\ signals' = signals /\ watcher' = watcher
      /\ panel' = panel
  BY SMT DEF SurfacesInv, SyncedAfter, Broadcast
<1>2. ClientsFollow'
  BY <1>1 DEF ClientsFollow, SentOf
<1>3. Dispatching' /\ PanelFollows'
  BY <1>1 DEF Dispatching, PanelFollows
<1> QED
  BY <1>1, <1>2, <1>3 DEF SurfacesInv

(* A tray that starts, and nothing but the watcher of before is known.     *)
LEMMA TrayKeeps ==
    ASSUME NEW w \in WatcherStates, NEW ok \in BOOLEAN, TrayStarts(w, ok)
    PROVE  Dispatching' /\ PanelFollows'
<1> DEFINE in == w.owner /\ ok
           out == w.owner /\ ~ok
<1>1. /\ watcher' = [w EXCEPT !.aware = in, !.refused = out, !.late = FALSE]
      /\ registered' = in /\ stale' = in /\ signals' = <<>>
  BY DEF TrayStarts
<1>2. in \in BOOLEAN /\ out \in BOOLEAN
  BY DEF WatcherStates
<1> HIDE DEF in, out
<1>3. watcher' \in WatcherStates /\ watcher'.aware = in
  BY <1>1, <1>2 DEF WatcherStates
<1>4. <<>> \in Seq(SignalNames)
  OBVIOUS
<1> QED
  BY <1>1, <1>2, <1>3, <1>4 DEF Dispatching, PanelFollows

(* The menu's entries, each through the manager or a restart.              *)
LEMMA MenuKeeps ==
    ASSUME SurfacesInv, MenuEvents
    PROVE  SurfacesInv'
<1> USE DEF SurfacesInv
<1>1. ASSUME NEW i \in 1..MaxMenu, NEW ok \in BOOLEAN, MenuClick(i, ok)
      PROVE  SurfacesInv'
  <2> DEFINE e == MenuEntries[i]
  <2>1. ShownUnder(Select(e, ok), config) /\ Select(e, ok)
    BY <1>1 DEF MenuClick, Shown, ShownUnder
  <2> HIDE DEF e
  <2>2. IInv' /\ Told
    BY <2>1, SelectTells
  <2> QED
    BY <2>1, <2>2, ShownKeeps
<1>2. ASSUME NEW ok \in BOOLEAN, RimeSchemaClick(ok)
      PROVE  SurfacesInv'
  <2>1. SyncedAfter(ReloadConfig(config, ok)) /\ ReloadConfig(config, ok)
    BY <1>2 DEF RimeSchemaClick, SyncedAfter
  <2>2. IInv'
    BY <2>1, IInvStep DEF Next
  <2> QED
    BY <2>1, <2>2, SyncedKeeps
<1>3. ASSUME NEW ok \in BOOLEAN, RestartDaemon(ok)
      PROVE  SurfacesInv'
  <2>1. PICK answered \in BOOLEAN : TrayStarts(watcher, answered)
    BY <1>3 DEF RestartDaemon
  <2>2. Restart(ok) /\ item' = Synced(mgr') /\ told' = SentOf(mgr')
    BY <1>3 DEF RestartDaemon
  <2>3. IInv'
    BY <2>2, IInvStep DEF Next
  <2>4. Dispatching' /\ PanelFollows'
    BY <2>1, TrayKeeps DEF Dispatching
  <2> QED
    BY <2>2, <2>3, <2>4 DEF ClientsFollow, SentOf
<1>4. ASSUME NEW e \in Announcing, NEW ok \in BOOLEAN, NEW done \in BOOLEAN,
             RimeDeployClick(e, ok, done)
      PROVE  SurfacesInv'
  <2>1. \/ Shown(DeployRime(e, ok, done)) \/ SyncedAfter(DeployRime(e, ok, done))
    BY <1>4 DEF RimeDeployClick
  <2>2. DeployRime(e, ok, done)
    BY <2>1 DEF Shown, ShownUnder, SyncedAfter
  <2>3. IInv' /\ Told
    BY <2>2, DeployTells, IInvStep DEF Next
  <2> QED
    BY <2>1, <2>3, ShownKeeps, SyncedKeeps DEF Shown
<1> QED
  BY <1>1, <1>2, <1>3, <1>4 DEF MenuEvents

(* The methods of the item and of the bus, and the frontend's own.         *)
LEMMA HandlersKeep ==
    ASSUME SurfacesInv, ItemMethods \/ BusMethods \/ Use
    PROVE  SurfacesInv'
<1> USE DEF SurfacesInv
<1>1. ASSUME NEW ok \in BOOLEAN, Shown(CycleNext(ok)) \/ Shown(CyclePrev(ok))
      PROVE  SurfacesInv'
  <2>1. CycleNext(ok) \/ CyclePrev(ok)
    BY <1>1 DEF Shown, ShownUnder
  <2>2. IInv' /\ Told
    BY <2>1, SwitchesTell, IInvStep DEF Next
  <2> QED
    BY <1>1, <2>2, ShownKeeps DEF Shown
<1>2. ASSUME NEW e \in Engines, NEW ok \in BOOLEAN, BusActivates(e, ok)
      PROVE  SurfacesInv'
  <2>1. ShownUnder(ActivateEngine(e, ok), config) /\ ActivateEngine(e, ok)
    BY <1>2 DEF BusActivates, ShownUnder
  <2>2. IInv' /\ Told
    BY <2>1, SwitchesTell, IInvStep DEF Next
  <2> QED
    BY <2>1, <2>2, ShownKeeps
<1>3. ASSUME NEW conf \in Configs \cup {config}, NEW ok \in BOOLEAN,
             ConfigurationReloads(conf, ok)
      PROVE  SurfacesInv'
  <2>1. ShownUnder(ReloadConfig(conf, ok), conf) /\ ReloadConfig(conf, ok)
    BY <1>3 DEF ConfigurationReloads, ShownUnder
  <2>2. IInv' /\ Told
    BY <2>1, ReloadTells, IInvStep DEF Next
  <2> QED
    BY <2>1, <2>2, ShownKeeps
<1>4. ASSUME NEW e \in Announcing, NEW ok \in BOOLEAN, NEW done \in BOOLEAN,
             Shown(DeployRime(e, ok, done))
      PROVE  SurfacesInv'
  <2>1. DeployRime(e, ok, done)
    BY <1>4 DEF Shown, ShownUnder
  <2>2. IInv' /\ Told
    BY <2>1, DeployTells, IInvStep DEF Next
  <2> QED
    BY <1>4, <2>2, ShownKeeps DEF Shown
<1>5. CASE Use
  <2>1. Pause \/ FocusIn \/ FocusOut \/ Compose \/ ToggleMode
    BY <1>5 DEF Use, Shown, ShownUnder
  <2>2. IInv' /\ Told
    BY <2>1, UseTells, IInvStep DEF Next
  <2> QED
    BY <1>5, <2>2, ShownKeeps DEF Use, Shown
<1> QED
  BY <1>1, <1>2, <1>3, <1>4, <1>5 DEF ItemMethods, BusMethods

(* The watcher and the panel touch neither the item nor the clients.       *)
LEMMA DesktopKeeps ==
    ASSUME SurfacesInv, Dispatching', PanelFollows', UNCHANGED <<vars, item, told>>
    PROVE  SurfacesInv'
<1>1. /\ mgr' = mgr /\ config' = config /\ saved' = saved /\ typed' = typed
      /\ cycle' = cycle /\ item' = item /\ told' = told
  BY SMT DEF vars
<1> QED
  BY <1>1 DEF SurfacesInv, IInv, ClientsFollow

(* A round of the loop that dispatches the bus.                            *)
LEMMA DispatchKeeps ==
    ASSUME SurfacesInv, OwnerChanged
    PROVE  SurfacesInv'
<1> DEFINE s == [registered |-> registered, watcher |-> watcher]
<1>1. PICK oks \in [DOMAIN signals -> BOOLEAN], late \in BOOLEAN :
        /\ registered' = Filtered(s, oks, late).registered
        /\ watcher' = Filtered(s, oks, late).watcher
  BY DEF OwnerChanged
<1>2. /\ signals # <<>> /\ signals' = <<>>
      /\ stale' = (stale \/ watcher'.aware # watcher.aware)
      /\ UNCHANGED <<vars, item, told>> /\ panel' = panel
  BY SMT DEF OwnerChanged
<1>3. /\ signals \in Seq(SignalNames) /\ stale \in BOOLEAN /\ watcher \in WatcherStates
      /\ registered \in BOOLEAN
      /\ ~watcher.aware /\ (Last(signals) = "appeared" <=> watcher.owner)
  BY <1>2 DEF SurfacesInv, Dispatching
<1>4. s \in TrayStates /\ s.watcher = watcher
  BY <1>3 DEF TrayStates
<1> HIDE DEF s
<1> DEFINE r == Filtered(s, oks, late)
<1>5. /\ r \in TrayStates /\ r.watcher.owner = watcher.owner
      /\ r.watcher.aware => r.watcher.owner
      /\ r.watcher.aware /\ ~r.watcher.late => r.registered \/ Last(signals) = "left"
  BY <1>2, <1>3, <1>4, FilteredRegisters
<1>6. registered' = r.registered /\ watcher' = r.watcher
  BY <1>1
<1> HIDE DEF r
<1>7. registered' \in BOOLEAN /\ watcher' \in WatcherStates
  BY <1>5, <1>6 DEF TrayStates
<1>8. watcher'.aware /\ ~watcher'.late => registered'
  BY <1>3, <1>5, <1>6
<1>9. stale' \in BOOLEAN /\ (watcher'.aware => stale')
  <2>1. watcher.aware = FALSE /\ watcher'.aware \in BOOLEAN
    BY <1>3, <1>7 DEF WatcherStates
  <2> QED
    BY <1>2, <1>3, <2>1
<1>10. <<>> \in Seq(SignalNames)
  OBVIOUS
<1>11. Dispatching' /\ PanelFollows'
  BY <1>2, <1>7, <1>8, <1>9, <1>10 DEF Dispatching, PanelFollows
<1> QED
  BY <1>2, <1>11, DesktopKeeps

(* The watcher's name changes hands.                                       *)
LEMMA WatcherKeeps ==
    ASSUME SurfacesInv, WatcherLeaves \/ WatcherComes
    PROVE  SurfacesInv'
<1>1. PICK name \in SignalNames :
        /\ signals' = Append(signals, name) /\ watcher' \in WatcherStates
        /\ ~watcher'.aware /\ (name = "appeared" <=> watcher'.owner)
  <2>1. Absent \in WatcherStates /\ ~Absent.aware /\ ~Absent.owner
    BY DEF Absent, WatcherStates
  <2>2. ASSUME NEW w, w = [Absent EXCEPT !.owner = TRUE, !.gap = FALSE]
                      \/ w = [Absent EXCEPT !.owner = TRUE]
        PROVE  w \in WatcherStates /\ ~w.aware /\ w.owner
    BY <2>2 DEF Absent, WatcherStates
  <2>3. \/ Signal("left") /\ watcher' = Absent
        \/ Signal("appeared") /\ watcher' = [Absent EXCEPT !.owner = TRUE, !.gap = FALSE]
        \/ Signal("appeared") /\ watcher' = [Absent EXCEPT !.owner = TRUE]
    BY DEF WatcherLeaves, WatcherComes
  <2>4. \/ Signal("left") /\ watcher' \in WatcherStates /\ ~watcher'.aware /\ ~watcher'.owner
        \/ Signal("appeared") /\ watcher' \in WatcherStates /\ ~watcher'.aware
                               /\ watcher'.owner
    BY <2>1, <2>2, <2>3
  <2> QED
    BY <2>4 DEF Signal, SignalNames
<1>2. UNCHANGED <<vars, item, told>> /\ registered' = registered /\ stale' \in BOOLEAN
  <2>1. stale \in BOOLEAN
    BY DEF SurfacesInv, Dispatching
  <2>2. UNCHANGED <<vars, item, told>> /\ registered' = registered
    BY SMT DEF WatcherLeaves, WatcherComes
  <2>3. stale' = FALSE \/ stale' = stale
    BY SMT DEF WatcherLeaves, WatcherComes
  <2> QED
    BY <2>1, <2>2, <2>3
<1>3. signals \in Seq(SignalNames) /\ registered \in BOOLEAN
  BY DEF SurfacesInv, Dispatching
<1>4. /\ signals' \in Seq(SignalNames) /\ signals' # <<>> /\ Last(signals') = name
  BY <1>1, <1>3 DEF Last
<1>5. Dispatching' /\ PanelFollows'
  BY <1>1, <1>2, <1>3, <1>4 DEF Dispatching, PanelFollows
<1> QED
  BY <1>2, <1>5, DesktopKeeps

(* The inductive invariant of the surfaces.                                *)
LEMMA SurfacesInvInit == SurfacesInit => SurfacesInv
<1> SUFFICES ASSUME SurfacesInit
             PROVE  SurfacesInv
  OBVIOUS
<1>1. /\ Init /\ item = Synced(mgr) /\ told = SentOf(mgr)
      /\ signals = <<>> /\ stale = registered
  BY DEF SurfacesInit
<1>2. PICK owner \in BOOLEAN, ok \in BOOLEAN :
        /\ watcher = [Absent EXCEPT !.owner = owner, !.aware = owner /\ ok,
                                    !.refused = owner /\ ~ok]
        /\ registered = (owner /\ ok)
  BY DEF SurfacesInit
<1>3. /\ watcher = [owner |-> owner, gap |-> TRUE, aware |-> owner /\ ok,
                    refused |-> owner /\ ~ok, late |-> FALSE]
  BY <1>2 DEF Absent
<1>4. watcher \in WatcherStates /\ watcher.aware = registered /\ registered \in BOOLEAN
  <2> DEFINE in == owner /\ ok
             out == owner /\ ~ok
  <2>1. in \in BOOLEAN /\ out \in BOOLEAN
    OBVIOUS
  <2>2. /\ watcher = [owner |-> owner, gap |-> TRUE, aware |-> in,
                      refused |-> out, late |-> FALSE]
        /\ registered = in
    BY <1>2, <1>3
  <2> HIDE DEF in, out
  <2> QED
    BY <2>1, <2>2 DEF WatcherStates
<1>5. <<>> \in Seq(SignalNames)
  OBVIOUS
<1>6. Dispatching /\ PanelFollows
  BY <1>1, <1>4, <1>5 DEF Dispatching, PanelFollows
<1> QED
  BY <1>1, <1>6, IInvInit DEF SurfacesInv, ClientsFollow, SentOf

(* Every action of the surfaces preserves it.                              *)
LEMMA SurfacesInvStep == SurfacesInv /\ [SurfacesNext]_surfaceVars => SurfacesInv'
<1> SUFFICES ASSUME SurfacesInv, [SurfacesNext]_surfaceVars
             PROVE  SurfacesInv'
  OBVIOUS
<1>1. CASE UNCHANGED surfaceVars
  <2>1. /\ UNCHANGED <<vars, item, told>> /\ registered' = registered
        /\ signals' = signals /\ watcher' = watcher /\ panel' = panel /\ stale' = stale
    BY <1>1, SMT DEF surfaceVars, external
  <2>2. item' = item
    BY <2>1, SMT
  <2>3. Dispatching' /\ PanelFollows'
    BY <2>1, <2>2 DEF SurfacesInv, Dispatching, PanelFollows
  <2> QED
    BY <2>1, <2>3, DesktopKeeps
<1>2. CASE PanelFetches
  <2>1. /\ panel' = View /\ stale' = FALSE
        /\ UNCHANGED <<vars, item, told>> /\ registered' = registered
        /\ signals' = signals /\ watcher' = watcher
    BY <1>2, SMT DEF PanelFetches
  <2>2. item' = item
    BY <2>1, SMT
  <2>3. panel'.icon = item.icon /\ panel'.mark = item.engine /\ panel'.voice = item.voice
    BY <2>1 DEF View
  <2>4. Dispatching' /\ PanelFollows'
    BY <2>1, <2>2, <2>3 DEF SurfacesInv, Dispatching, PanelFollows
  <2> QED
    BY <2>1, <2>4, DesktopKeeps
<1> QED
  BY <1>1, <1>2, MenuKeeps, HandlersKeep, DispatchKeeps, WatcherKeeps DEF SurfacesNext

(* So it always holds.                                                     *)
LEMMA SurfacesSpecInv == SurfacesSpec => []SurfacesInv
  BY SurfacesInvInit, SurfacesInvStep, PTL DEF SurfacesSpec

(* Whatever handler ran, with the switches that failed half way and the    *)
(* restores that followed, the tray item and the clients of both buses     *)
(* hold the engines, the mode and the icon of the manager (controller.c,   *)
(* service.c, app.c).                                                      *)
THEOREM SurfacesFollow == SurfacesSpec => []SurfacesAgree
<1>1. SurfacesInv => SurfacesAgree
  <2> SUFFICES ASSUME SurfacesInv
               PROVE  SurfacesAgree
    OBVIOUS
  <2>1. PICK x : told = Sent(mgr.keyboard, mgr.voice, mgr.last_mode, x)
    BY DEF SurfacesInv, ClientsFollow
  <2>2. [told EXCEPT !.socket.current = TRUE, !.dbus.current = TRUE] = SentOf(mgr)
    <3>1. ASSUME NEW y
          PROVE  [told EXCEPT !.socket.current = y, !.dbus.current = y]
                   = Sent(mgr.keyboard, mgr.voice, mgr.last_mode, y)
      <4> DEFINE one == [told EXCEPT !.socket.current = y]
                 both == [one EXCEPT !.dbus.current = y]
      <4>1. one = [socket |-> ServiceProperties(mgr.keyboard, mgr.voice, mgr.last_mode, y),
                   dbus |-> DBusProperties(mgr.keyboard, mgr.voice, mgr.last_mode, x)]
        BY <2>1 DEF Sent, ServiceProperties
      <4> HIDE DEF one
      <4>2. both = Sent(mgr.keyboard, mgr.voice, mgr.last_mode, y)
        BY <4>1 DEF Sent, DBusProperties
      <4> QED
        BY <4>2 DEF one
    <3> QED
      BY <3>1 DEF SentOf
  <2> QED
    BY <2>2 DEF SurfacesInv, SurfacesAgree
<1> QED
  BY <1>1, SurfacesSpecInv, PTL

(* A panel that fetched what it was told to marks and shows the engine the *)
(* daemon uses, however watchers come and go and their signals wait, as    *)
(* long as its watcher did not take the item in after the daemon had given *)
(* up on the answer (tray_bus_filter, typio_tray_sni_register).            *)
THEOREM PanelsFollow == SurfacesSpec => []PanelIsCurrent
<1>1. SurfacesInv => PanelIsCurrent
  BY DEF SurfacesInv, PanelFollows, PanelIsCurrent, Synced
<1> QED
  BY <1>1, SurfacesSpecInv, PTL

-----------------------------------------------------------------------------
(* The recent pair.                                                        *)

(* The calls whose result is ignored.                                      *)
LEMMA TryKeepsRecent ==
    ASSUME NEW m, MgrOK(m)
    PROVE  Try(m).recent = m.recent /\ Fail(m).recent = m.recent
  BY DEF Try, Fail, MgrOK, SlotsOK, MgrType

(* Nor does a switch of the voice engine.                                  *)
LEMMA SetActiveVoiceKeepsRecent ==
    ASSUME NEW m, MgrOK(m), m.result = "ok", NEW e, NEW ok
    PROVE  SetActiveVoice(m, e, ok).recent = m.recent
  BY SetActiveOK, TryKeepsRecent DEF SetActiveVoice

(* Only a commit touches the pair: a boot takes the one that was saved.    *)
LEMMA BootKeepsRecent ==
    ASSUME NEW recent \in Recents, NEW conf, NEW ok
    PROVE  Boot(recent, conf, ok).recent = recent
<1> DEFINE fresh  == [Booted EXCEPT !.recent = recent]
           chosen == IF conf.default = NoEngine THEN fresh
                     ELSE Try(SetActive(fresh, conf.default, ok))
           some   == IF chosen.keyboard = NoEngine
                     THEN Try(SetActive(chosen, Registered[1], ok)) ELSE chosen
           voiced == IF conf.voice = NoEngine THEN some
                     ELSE Try(SetActiveVoice(some, conf.voice, ok))
<1>1. MgrOK(fresh) /\ fresh.result = "ok" /\ fresh.recent = recent
  BY InstanceOK
<1> HIDE DEF fresh
<1>2. MgrOK(chosen) /\ chosen.result = "ok" /\ chosen.recent = recent
  BY <1>1, SetActiveOK, TryOK, TryKeepsRecent
<1> HIDE DEF chosen
<1>3. MgrOK(some) /\ some.result = "ok" /\ some.recent = recent
  BY <1>2, SetActiveOK, TryOK, TryKeepsRecent
<1> HIDE DEF some
<1>4. MgrOK(voiced) /\ voiced.recent = recent
  BY <1>3, SetActiveVoiceOK, TryOK, TryKeepsRecent, SetActiveVoiceKeepsRecent
<1>5. Boot(recent, conf, ok) = [voiced EXCEPT !.events = <<>>]
  BY DEF Boot, fresh, chosen, some
<1> HIDE DEF voiced
<1> QED
  BY <1>4, <1>5 DEF MgrOK, SlotsOK, MgrType

(* Using an engine keeps it, and the pair.                                 *)
LEMMA UseKeeps ==
    ASSUME IInv, \/ Pause \/ FocusIn \/ FocusOut \/ Compose \/ ToggleMode
                 \/ \E e \in Announcing, ok \in BOOLEAN, done \in BOOLEAN : DeployRime(e, ok, done)
    PROVE  mgr'.recent = mgr.recent /\ mgr'.keyboard = mgr.keyboard
<1> USE DEF IInv
<1>0. /\ MgrOK(Fresh) /\ Fresh.result = "ok" /\ Fresh.recent = mgr.recent
      /\ Fresh.keyboard = mgr.keyboard
  BY FreshOK DEF MgrOK, SlotsOK, MgrType
<1>4. CASE Pause
  BY <1>0, <1>4 DEF Pause, MgrOK, SlotsOK, MgrType
<1>5. CASE FocusIn
  <2> DEFINE f == [Fresh EXCEPT !.focused = TRUE]
  <2>1. SlotsOK(f) /\ f.recent = mgr.recent /\ f.keyboard = mgr.keyboard
    BY <1>0 DEF MgrOK, SlotsOK, MgrType, Slotted
  <2>2. mgr' = Fresh \/ mgr' = OpenSession(f, Fresh.keyboard)
    BY <1>5 DEF FocusIn, ContextFocusIn, EngineFocusIn
  <2> HIDE DEF f
  <2> QED
    BY <1>0, <2>1, <2>2, OpenSessionOK DEF Frame
<1>6. CASE FocusOut
  <2> DEFINE l == IF Fresh.keyboard = NoEngine THEN Fresh
                  ELSE EngineReset(Fresh, Fresh.keyboard)
  <2>1. SlotsOK(l) /\ l.recent = mgr.recent /\ l.keyboard = mgr.keyboard
    BY <1>0, EngineResetOK DEF Frame, MgrOK
  <2>2. mgr' = Fresh \/ mgr' = [l EXCEPT !.focused = FALSE]
    BY <1>6 DEF FocusOut, ContextFocusOut, EngineFocusOut
  <2> HIDE DEF l
  <2> QED
    BY <1>0, <2>1, <2>2 DEF SlotsOK, MgrType
<1> DEFINE o == OpenSession(Fresh, mgr.keyboard)
<1>7. SlotsOK(o) /\ o.recent = mgr.recent /\ o.keyboard = mgr.keyboard
  BY <1>0, OpenSessionOK DEF MgrOK, Frame
<1>8. CASE Compose
  <2>1. PICK shown \in {mgr.keyboard, NoEngine} : mgr' = [o EXCEPT !.shown = shown]
    BY <1>8 DEF Compose
  <2> HIDE DEF o
  <2> QED
    BY <1>7, <2>1 DEF SlotsOK, MgrType
<1>9. CASE ToggleMode
  <2> DEFINE e == mgr.keyboard
             t == [o EXCEPT !.mode[e] = IF @ = "native" THEN "latin" ELSE "native"]
  <2>1. e \in Moded /\ mgr' = IF e \in Announcing THEN NotifyMode(t, ModeOf(t, e)) ELSE t
    BY <1>9 DEF ToggleMode
  <2> HIDE DEF o
  <2>2. SlotsOK(t) /\ t.recent = mgr.recent /\ t.keyboard = mgr.keyboard
    BY <1>7, <2>1 DEF SlotsOK, MgrType, Slotted, Modes
  <2> HIDE DEF t
  <2>3. ModeOf(t, e) \in ModeNames
    BY <2>1, <2>2 DEF ModeOf, ModeNames, SlotsOK, MgrType
  <2> QED
    BY <2>1, <2>2, <2>3, NotifyModeOK DEF Frame
<1>11. ASSUME NEW e \in Announcing, NEW ok, NEW done, DeployRime(e, ok, done)
       PROVE  mgr'.recent = mgr.recent /\ mgr'.keyboard = mgr.keyboard
  <2> DEFINE made == IF e \in Missing THEN Fresh
                     ELSE [Fresh EXCEPT !.created = @ \cup {e}]
             inited == [made EXCEPT !.initialized = @ \cup {e}]
             old == [inited EXCEPT !.sessions = @ \ {e}, !.mode[e] = "native"]
  <2>1. \/ mgr' = Fail(made) \/ mgr' = old
        \/ (~DeployFails(e, ok) /\ mgr' = EngineReload(old, e))
    BY <1>11 DEF DeployRime, Redeployed
  <2>9. e \in Engines
    BY EngineKinds
  <2>2. MgrOK(made) /\ made.recent = mgr.recent /\ made.keyboard = mgr.keyboard
    BY <1>0, <2>9 DEF MgrOK, SlotsOK, MgrType, Slotted, Composed
  <2>3. ~DeployFails(e, ok) => e \in made.created
    BY <1>0, FreshOK DEF DeployFails, MgrOK, SlotsOK, MgrType
  <2>4. Fail(made).recent = mgr.recent /\ Fail(made).keyboard = mgr.keyboard
    BY <2>2 DEF Fail, MgrOK, SlotsOK, MgrType
  <2> HIDE DEF made
  <2>6. ~DeployFails(e, ok) => SlotsOK(inited)
    BY <2>2, <2>3, <2>9 DEF MgrOK, SlotsOK, MgrType, Slotted
  <2>5. old.recent = mgr.recent /\ old.keyboard = mgr.keyboard
    BY <2>2 DEF MgrOK, SlotsOK, MgrType
  <2> HIDE DEF inited
  <2>8. ~DeployFails(e, ok) => SlotsOK(old)
    BY <2>6 DEF SlotsOK, MgrType, Slotted, Modes
  <2> HIDE DEF old
  <2> QED
    BY <2>1, <2>4, <2>5, <2>8, EngineReloadOK DEF Frame
<1> QED
  BY <1>4, <1>5, <1>6, <1>8, <1>9, <1>11

(* Nor does any other handler.                                             *)
LEMMA OnlyCommitsAreRecent ==
    ASSUME IInv, Next, ~Commit
    PROVE  mgr'.recent = mgr.recent \/ mgr'.recent = saved
<1> USE DEF IInv
<1>0. MgrOK(Fresh) /\ Fresh.result = "ok" /\ Fresh.recent = mgr.recent
  BY FreshOK DEF MgrOK, SlotsOK, MgrType
<1>1. ASSUME NEW e \in Engines, NEW ok \in BOOLEAN, Select(e, ok) \/ ActivateEngine(e, ok)
      PROVE  mgr'.recent = mgr.recent
  BY <1>0, <1>1, SetActiveOK DEF Select, ActivateEngine
<1>2. ASSUME NEW ok \in BOOLEAN, CycleNext(ok) \/ CyclePrev(ok)
      PROVE  mgr'.recent = mgr.recent
  BY <1>0, <1>2, SetActiveOK, TryKeepsRecent DEF CycleNext, CyclePrev, Cycle
<1>3. ASSUME NEW ok \in BOOLEAN, Restart(ok)
      PROVE  mgr'.recent = saved
  BY <1>3, BootKeepsRecent DEF Restart
<1>10. ASSUME NEW conf, NEW ok, ReloadConfig(conf, ok)
       PROVE  mgr'.recent = mgr.recent
  <2> DEFINE switched == IF conf.default \in {NoEngine, Fresh.keyboard} THEN Fresh
                         ELSE Try(SetActive(Fresh, conf.default, ok))
             heard == IF switched.keyboard = NoEngine THEN switched
                      ELSE EngineReload(switched, switched.keyboard)
  <2>1. MgrOK(switched) /\ switched.result = "ok" /\ switched.recent = mgr.recent
    BY <1>0, SetActiveOK, TryOK, TryKeepsRecent
  <2>2. MgrOK(heard) /\ heard.result = "ok" /\ heard.recent = mgr.recent
    <3> HIDE DEF switched
    <3> QED
      BY <2>1, EngineReloadOK DEF MgrOK, Composed, Frame
  <2>3. mgr' = IF conf.voice \in {NoEngine, heard.voice} THEN heard
               ELSE Try(SetActiveVoice(heard, conf.voice, ok))
    BY <1>10 DEF ReloadConfig, Reloaded
  <2> HIDE DEF heard
  <2> QED
    BY <2>2, <2>3, SetActiveVoiceOK, TryKeepsRecent, SetActiveVoiceKeepsRecent
<1> QED
  BY <1>1, <1>2, <1>3, <1>10, UseKeeps DEF Next

(* What the pair is after one more commit.                                 *)
RecentInv ==
    saved = mgr.recent /\ mgr.recent = [primary |-> LastOf(typed), secondary |-> LastOther(typed)]

(* The last of a history, and the last that is another.                    *)
LEMMA LastTyped ==
    ASSUME NEW s \in Seq(Engines), NEW e \in Engines
    PROVE  LET t == Append(s, e)
           IN  /\ LastOf(t) = e
               /\ s = <<>> => LastOf(s) = NoEngine /\ LastOther(s) = NoEngine
                              /\ LastOther(t) = NoEngine
               /\ s # <<>> => LastOf(s) \in Engines
               /\ LastOf(s) = e => LastOther(t) = LastOther(s)
               /\ s # <<>> /\ LastOf(s) # e => LastOther(t) = LastOf(s)
<1> DEFINE t == Append(s, e)
           n == Len(s)
           Others(x) == {i \in 1 .. Len(x) : x[i] # LastOf(x)}
<1>1. /\ n \in Nat /\ Len(t) = n + 1 /\ t[n+1] = e /\ t # <<>>
      /\ \A i \in 1..n : t[i] = s[i] /\ s[i] \in Engines
      /\ (s = <<>> <=> n = 0)
  OBVIOUS
<1> HIDE DEF t
<1>2. LastOf(t) = e
  BY <1>1 DEF LastOf
<1>3. Others(t) = {i \in 1..n : s[i] # e}
  BY <1>1, <1>2
<1>4. CASE s = <<>>
  <2>1. Others(s) = {} /\ Others(t) = {}
    BY <1>1, <1>3, <1>4
  <2> QED
    BY <1>2, <1>4, <2>1, EnginesAssumption DEF LastOf, LastOther, t
<1>5. CASE s # <<>>
  <2>1. LastOf(s) = s[n] /\ s[n] \in Engines /\ n \in 1..n
    BY <1>1, <1>5 DEF LastOf
  <2>2. CASE s[n] = e
    <3>1. Others(t) = Others(s)
      BY <1>3, <2>1, <2>2
    <3>2. Others(s) # {} => Max(Others(s)) \in 1..n
      <4>1. Others(s) \in SUBSET (1..n)
        OBVIOUS
      <4> HIDE DEF Others
      <4> QED
        BY <1>1, <4>1, MaxIsMember
    <3> HIDE DEF Others
    <3>3. LastOther(t) = LastOther(s)
      BY <1>1, <3>1, <3>2 DEF LastOther, Others
    <3> QED
      BY <1>2, <1>5, <2>1, <2>2, <3>3 DEF t
  <2>3. CASE s[n] # e
    <3>1. n \in Others(t) /\ Others(t) \in SUBSET (1..n)
      BY <1>3, <2>1, <2>3
    <3>2. Max(Others(t)) = n
      BY <1>1, <3>1, MaxIsTop
    <3> HIDE DEF Others
    <3>3. LastOther(t) = s[n]
      BY <1>1, <2>1, <3>1, <3>2 DEF LastOther, Others
    <3> QED
      BY <1>2, <1>5, <2>1, <2>3, <3>3 DEF t
  <2> QED
    BY <2>2, <2>3
<1> QED
  BY <1>4, <1>5

(* The commit's own pair.                                                  *)
LEMMA CommitIsRecent ==
    ASSUME IInv, RecentInv, Commit
    PROVE  RecentInv'
<1> DEFINE c == [Fresh EXCEPT !.shown = NoEngine]
           k == mgr.keyboard
<1>1. /\ k \in Engines /\ k # NoEngine /\ typed \in Seq(Engines) /\ typed' = Append(typed, k)
      /\ mgr' = UpdateRecent(c) /\ saved' = IF mgr'.recent = mgr.recent THEN saved ELSE mgr'.recent
  BY EngineKinds DEF IInv, Commit, MgrOK, SlotsOK, MgrType
<1>2. c \in MgrType /\ c.recent = mgr.recent /\ c.keyboard = k
  BY FreshOK DEF IInv, MgrOK, SlotsOK, MgrType
<1>3. saved' = mgr'.recent
  BY <1>1 DEF RecentInv
<1> HIDE DEF c
<1> DEFINE pair == mgr.recent
           kept == IF pair.primary # NoEngine THEN pair.primary
                   ELSE IF pair.secondary # k THEN pair.secondary
                   ELSE NoEngine
<1>4. pair.primary = LastOf(typed) /\ pair.secondary = LastOther(typed)
      /\ pair = [primary |-> LastOf(typed), secondary |-> LastOther(typed)]
  BY DEF RecentInv
<1>5. CASE pair.primary = k
  <2>1. mgr'.recent = pair
    BY <1>1, <1>2, <1>5 DEF UpdateRecent
  <2>2. LastOf(typed') = k /\ LastOther(typed') = LastOther(typed)
    BY <1>1, <1>4, <1>5, LastTyped
  <2> QED
    BY <1>3, <1>4, <1>5, <2>1, <2>2 DEF RecentInv
<1>6. CASE pair.primary # k
  <2>1. mgr'.recent = [primary |-> k, secondary |-> kept]
    BY <1>1, <1>2, <1>6 DEF UpdateRecent, MgrType
  <2>2. LastOf(typed') = k /\ LastOther(typed') = kept
    <3>1. CASE typed = <<>>
      BY <1>1, <1>4, <3>1, LastTyped
    <3>2. CASE typed # <<>>
      <4>1. LastOf(typed) \in Engines /\ LastOf(typed) # NoEngine
        BY <1>1, <3>2, LastTyped, EnginesAssumption
      <4>2. LastOf(typed') = k /\ LastOther(typed') = LastOf(typed)
        BY <1>1, <1>4, <1>6, <3>2, LastTyped
      <4> QED
        BY <1>4, <4>1, <4>2
    <3> QED
      BY <3>1, <3>2
  <2> QED
    BY <1>3, <2>1, <2>2 DEF RecentInv
<1> QED
  BY <1>5, <1>6

(* The recent pair, in memory and on disk, is the engine of the last       *)
(* commit and the last other engine a commit was made in, across restarts  *)
(* and whatever was switched through in between (update_recent_pair).      *)
THEOREM RecentsFollowTyping == Spec => []RecentsAreLastTyped
<1>1. Init => RecentInv
  <2> SUFFICES ASSUME Init
               PROVE  RecentInv
    OBVIOUS
  <2>1. NoRecent \in Recents
    BY DEF NoRecent, Recents
  <2>2. mgr.recent = NoRecent /\ saved = NoRecent /\ typed = <<>>
    BY <2>1, BootKeepsRecent DEF Init
  <2> QED
    BY <2>2 DEF RecentInv, NoRecent, LastOf, LastOther
<1>2. IInv /\ RecentInv /\ [Next]_vars => RecentInv'
  <2> SUFFICES ASSUME IInv, RecentInv, [Next]_vars
               PROVE  RecentInv'
    OBVIOUS
  <2>1. CASE Commit
    BY <2>1, CommitIsRecent
  <2>2. CASE UNCHANGED vars
    BY <2>2 DEF vars, RecentInv
  <2>3. CASE Next /\ ~Commit
    <3>1. typed' = typed /\ saved' = saved
      BY <2>3 DEF Next, Select, ActivateEngine, CycleNext, CyclePrev,
         Restart, Pause, FocusIn, FocusOut, Compose, ToggleMode, ReloadConfig, DeployRime
    <3>2. mgr'.recent = mgr.recent
      BY <2>3, OnlyCommitsAreRecent DEF RecentInv
    <3> QED
      BY <3>1, <3>2 DEF RecentInv
  <2> QED
    BY <2>1, <2>2, <2>3
<1>3. RecentInv => RecentsAreLastTyped
  BY DEF RecentInv, RecentsAreLastTyped
<1> QED
  BY <1>1, <1>2, <1>3, SpecIInv, PTL DEF Spec

-----------------------------------------------------------------------------
(* The order in which "next" visits the engines.                           *)

(* One more name of the list.                                              *)
AddName(names, e) ==
    IF e \in Keyboards /\ e \notin ToSet(names) THEN Append(names, e) ELSE names

AddSteps(f, s) ==
    /\ f[0] = <<>>
    /\ \A k \in 0..Len(s) : f[k] \in Seq(Keyboards)
    /\ \A k \in 1..Len(s) : f[k] = AddName(f[k-1], s[k])

(* The list of the names is made one by one.                               *)
LEMMA OrderedSteps ==
    ASSUME NEW order \in Seq(Engines)
    PROVE  LET s == order \o Registered
           IN  \E f : AddSteps(f, s) /\ f[Len(s)] = OrderedKeyboards(order)
<1> DEFINE s == order \o Registered
           n == Len(s)
           B == Seq(Keyboards)
           g == [x \in B \X (1..n) |-> AddName(x[1], s[x[2]])]
           nil == <<>>
           eq(h) == h = [t \in SUBSET (1..n) |->
                           IF t = {} THEN <<>>
                           ELSE IF /\ s[Max(t)] \in Keyboards
                                   /\ s[Max(t)] \notin ToSet(h[t \ {Max(t)}])
                                THEN Append(h[t \ {Max(t)}], s[Max(t)])
                                ELSE h[t \ {Max(t)}]]
<1>2. s \in Seq(Engines) /\ n \in Nat /\ DOMAIN s = 1..n
  BY EnginesAssumption
<1>4. OrderedKeyboards(order) = (CHOOSE h : eq(h))[1..n]
  <2> HIDE DEF s
  <2>1. OrderedKeyboards(order) =
          FoldLeft(LAMBDA names, e :
                     IF e \in Keyboards /\ e \notin ToSet(names)
                     THEN Append(names, e) ELSE names, <<>>, s)
    BY DEF OrderedKeyboards, s
  <2> QED
    BY <1>2, <2>1 DEF FoldLeft, MapThenFoldSet
<1> HIDE DEF s
<1>1. g \in [B \X (1..n) -> B]
  BY DEF AddName
<1>3. \A r \in B, i \in 1..n : g[<<r, i>>] = AddName(r, s[i])
  OBVIOUS
<1> HIDE DEF g
<1>0. nil \in B
  OBVIOUS
<1>5. PICK h \in [SUBSET (1..n) -> B] : FoldEquation(h, B, nil, g, n)
  <2> HIDE DEF nil, B
  <2> QED
    BY <1>0, <1>1, <1>2, FoldExists
<1>6. eq(h)
  <2>1. ASSUME NEW t \in SUBSET (1..n)
        PROVE  h[t] = IF t = {} THEN nil ELSE AddName(h[t \ {Max(t)}], s[Max(t)])
    <3> HIDE DEF nil
    <3>1. CASE t = {}
      BY <1>5, <3>1 DEF FoldEquation
    <3>2. CASE t # {}
      <4>1. Max(t) \in 1..n
        BY <1>2, <3>2, MaxIsMember
      <4>2. h[t \ {Max(t)}] \in B
        OBVIOUS
      <4>3. h[t] = g[<<h[t \ {Max(t)}], Max(t)>>]
        BY <1>5, <3>2, <4>2 DEF FoldEquation
      <4> HIDE DEF B
      <4> QED
        BY <1>3, <3>2, <4>1, <4>2, <4>3
    <3> QED
      BY <3>1, <3>2
  <2> HIDE DEF n
  <2> QED
    BY <2>1 DEF AddName
<1> DEFINE r == CHOOSE h2 : eq(h2)
<1>7. eq(r)
  <2> HIDE DEF eq
  <2> QED
    BY <1>6
<1> HIDE DEF r
<1>8. FoldEquation(r, B, nil, g, n)
  <2>1. r[{}] = nil
    BY <1>7
  <2>2. ASSUME NEW t \in SUBSET (1..n), t # {}, r[t \ {Max(t)}] \in B
        PROVE  r[t] = g[<<r[t \ {Max(t)}], Max(t)>>]
    <3>1. Max(t) \in 1..n
      BY <1>2, <2>2, MaxIsMember
    <3>2. r[t] = AddName(r[t \ {Max(t)}], s[Max(t)])
      BY <1>7, <2>2 DEF AddName
    <3> HIDE DEF B
    <3> QED
      BY <1>3, <2>2, <3>1, <3>2
  <2> HIDE DEF nil
  <2> QED
    BY <2>1, <2>2 DEF FoldEquation
<1> HIDE DEF nil
<1> DEFINE f == [k \in 0..n |-> r[1..k]]
<1>9. \A k \in 0..n : r[1..k] \in B /\ (k # 0 => FoldStep(r, g, k))
  <2> HIDE DEF B, n
  <2> QED
    BY <1>0, <1>1, <1>2, <1>8, FoldSteps DEF B
<1>10. \A k \in 0..n : f[k] = r[1..k]
  OBVIOUS
<1>11. f[0] = nil
  <2>1. 1..0 = {} /\ 0 \in 0..n
    BY <1>2
  <2>2. f[0] = r[{}]
    BY <1>10, <2>1
  <2> QED
    BY <1>8, <2>2 DEF FoldEquation
<1>12. f[n] = OrderedKeyboards(order)
  <2>1. n \in 0..n
    BY <1>2
  <2> QED
    BY <1>4, <1>10, <2>1 DEF r
<1>13. ASSUME NEW k \in 1..n
       PROVE  f[k] = AddName(f[k-1], s[k])
  <2>1. k \in 0..n /\ k # 0 /\ k - 1 \in 0..n
    BY <1>2
  <2>2. f[k] = r[1..k] /\ f[k-1] = r[1..(k-1)]
    BY <1>10, <2>1
  <2>3. r[1..(k-1)] \in B /\ r[1..k] = g[<<r[1..(k-1)], k>>]
    BY <1>9, <2>1 DEF FoldStep
  <2> HIDE DEF B, f
  <2> QED
    BY <1>3, <2>2, <2>3
<1>14. \A k \in 0..n : f[k] \in B
  BY <1>9, <1>10
<1> HIDE DEF f
<1> QED
  BY <1>11, <1>12, <1>13, <1>14 DEF AddSteps, nil, s

(* A list without repetitions.                                             *)
Once(names) == \A i, j \in 1..Len(names) : names[i] = names[j] => i = j

(* What a name added to the list does to it.                               *)
LEMMA AddedName ==
    ASSUME NEW names \in Seq(Keyboards), Once(names), NEW e
    PROVE  LET r == AddName(names, e)
           IN  /\ r \in Seq(Keyboards) /\ Once(r)
               /\ ToSet(r) = ToSet(names) \cup ({e} \cap Keyboards)
<1>1. CASE e \in Keyboards /\ e \notin ToSet(names)
  <2> DEFINE r == Append(names, e)
             n == Len(names)
  <2>1. /\ n \in Nat /\ r \in Seq(Keyboards) /\ Len(r) = n + 1 /\ r[n+1] = e
        /\ \A i \in 1..n : r[i] = names[i]
        /\ DOMAIN names = 1..n /\ DOMAIN r = 1..(n+1)
    BY <1>1
  <2> HIDE DEF r
  <2>2. \A i \in 1..n : names[i] # e
    BY <1>1, <2>1 DEF ToSet
  <2>3. \A i \in 1..(n+1) : i \in 1..n \/ i = n + 1
    BY <2>1
  <2>4. Once(r)
    <3>1. ASSUME NEW i \in 1..(n+1), NEW j \in 1..(n+1), r[i] = r[j]
          PROVE  i = j
      <4>1. CASE i = n + 1 \/ j = n + 1
        BY <2>1, <2>2, <2>3, <3>1, <4>1
      <4>2. CASE i # n + 1 /\ j # n + 1
        <5>1. i \in 1..n /\ j \in 1..n /\ names[i] = names[j]
          BY <2>1, <2>3, <3>1, <4>2
        <5> QED
          BY <5>1 DEF Once
      <4> QED
        BY <4>1, <4>2
    <3> QED
      BY <2>1, <3>1 DEF Once
  <2>5. ToSet(r) = ToSet(names) \cup {e}
    <3>1. ASSUME NEW x \in ToSet(r)
          PROVE  x \in ToSet(names) \cup {e}
      <4>1. PICK i \in 1..(n+1) : x = r[i]
        BY <2>1, <3>1 DEF ToSet
      <4> QED
        BY <2>1, <2>3, <4>1 DEF ToSet
    <3>2. ASSUME NEW x \in ToSet(names)
          PROVE  x \in ToSet(r)
      <4>1. PICK i \in 1..n : x = names[i]
        BY <2>1, <3>2 DEF ToSet
      <4>2. i \in 1..(n+1) /\ x = r[i]
        BY <2>1, <4>1
      <4> QED
        BY <2>1, <4>2 DEF ToSet
    <3>3. e \in ToSet(r)
      <4>1. n + 1 \in 1..(n+1)
        BY <2>1
      <4> QED
        BY <2>1, <4>1 DEF ToSet
    <3> QED
      BY <3>1, <3>2, <3>3
  <2>6. AddName(names, e) = r
    BY <1>1 DEF AddName, r
  <2>7. {e} \cap Keyboards = {e}
    BY <1>1
  <2> QED
    BY <2>1, <2>4, <2>5, <2>6, <2>7
<1>2. CASE ~(e \in Keyboards /\ e \notin ToSet(names))
  <2>1. AddName(names, e) = names
    BY <1>2 DEF AddName
  <2>2. ToSet(names) = ToSet(names) \cup ({e} \cap Keyboards)
    BY <1>2
  <2> QED
    BY <2>1, <2>2
<1> QED
  BY <1>1, <1>2

(* The list has every keyboard engine once.                                *)
LEMMA OrderedOK ==
    ASSUME NEW order \in Seq(Engines)
    PROVE  LET names == OrderedKeyboards(order)
           IN  /\ names \in Seq(Keyboards) /\ Once(names)
               /\ ToSet(names) = Keyboards
               /\ Cardinality(Keyboards) = Len(names)
<1> DEFINE s == order \o Registered
           n == Len(s)
           names == OrderedKeyboards(order)
<1>1. PICK f : AddSteps(f, s) /\ f[n] = names
  BY OrderedSteps
<1>2. /\ s \in Seq(Engines) /\ n \in Nat /\ DOMAIN s = 1..n
      /\ \A i \in DOMAIN Registered : \E j \in 1..n : s[j] = Registered[i]
  <2>1. /\ Registered \in Seq(Engines) /\ s \in Seq(Engines)
        /\ n = Len(order) + Len(Registered)
        /\ \A i \in 1..Len(Registered) : s[Len(order) + i] = Registered[i]
    BY EnginesAssumption
  <2>2. ASSUME NEW i \in DOMAIN Registered
        PROVE  \E j \in 1..n : s[j] = Registered[i]
    <3>1. i \in 1..Len(Registered) /\ Len(order) + i \in 1..n
      BY <2>1
    <3> HIDE DEF s, n
    <3> QED
      BY <2>1, <3>1
  <2> QED
    BY <2>1, <2>2
<1> HIDE DEF s, n
<1> DEFINE Upto(k) == {s[i] : i \in 1..k} \cap Keyboards
           T == {k \in Nat : k <= n => /\ f[k] \in Seq(Keyboards) /\ Once(f[k])
                                       /\ ToSet(f[k]) = Upto(k)}
<1>3. 0 \in T
  <2>1. f[0] = <<>> /\ <<>> \in Seq(Keyboards) /\ Once(<<>>) /\ ToSet(<<>>) = {}
    BY <1>1 DEF AddSteps, Once, ToSet
  <2>2. Upto(0) = {}
    OBVIOUS
  <2> QED
    BY <2>1, <2>2
<1>4. ASSUME NEW k \in Nat, k \in T
      PROVE  k + 1 \in T
  <2>1. CASE k + 1 <= n
    <3>1. k + 1 \in 1..n /\ (k + 1) - 1 = k
      BY <1>2, <2>1
    <3>2. f[k] \in Seq(Keyboards) /\ Once(f[k]) /\ ToSet(f[k]) = Upto(k)
      BY <1>2, <1>4, <2>1
    <3>3. f[k+1] = AddName(f[k], s[k+1])
      BY <1>1, <3>1 DEF AddSteps, n
    <3>4. Upto(k+1) = Upto(k) \cup ({s[k+1]} \cap Keyboards)
      BY <1>4
    <3> HIDE DEF Upto
    <3>5. /\ f[k+1] \in Seq(Keyboards) /\ Once(f[k+1])
          /\ ToSet(f[k+1]) = Upto(k+1)
      BY <3>2, <3>3, <3>4, AddedName
    <3> QED
      BY <3>5
  <2>2. CASE ~(k + 1 <= n)
    BY <2>2
  <2> QED
    BY <2>1, <2>2
<1>5. Nat \subseteq T
  <2> HIDE DEF T
  <2> QED
    BY <1>3, <1>4, Induction
<1>6. names \in Seq(Keyboards) /\ Once(names) /\ ToSet(names) = Upto(n)
  <2>1. n \in T
    <3> HIDE DEF T
    <3> QED
      BY <1>2, <1>5
  <2>2. n <= n
    BY <1>2
  <2>3. f[n] = names
    BY <1>1
  <2> HIDE DEF Upto, names
  <2> QED
    BY <2>1, <2>2, <2>3
<1>7. Upto(n) = Keyboards
  <2> SUFFICES ASSUME NEW e \in Keyboards
               PROVE  \E i \in 1..n : s[i] = e
    OBVIOUS
  <2>1. PICK i \in DOMAIN Registered : Registered[i] = e
    BY EnginesAssumption DEF Engines, ToSet
  <2> QED
    BY <1>2, <2>1
<1> HIDE DEF Upto, names
<1>8. Cardinality(Keyboards) = Len(names)
  <2> DEFINE m == Len(names)
  <2>1. m \in Nat /\ DOMAIN names = 1..m /\ names \in [1..m -> Keyboards]
    BY <1>6
  <2>2. IsInjective(names)
    BY <1>6, <2>1 DEF Once, IsInjective
  <2>3. \A e \in Keyboards : \E i \in 1..m : names[i] = e
    BY <1>6, <1>7, <2>1 DEF ToSet
  <2>4. names \in Bijection(1..m, Keyboards)
    BY <2>1, <2>2, <2>3 DEF Bijection, Injection, Surjection
  <2>5. ExistsBijection(1..m, Keyboards)
    BY <2>4 DEF ExistsBijection
  <2> HIDE DEF m
  <2>6. Cardinality(Keyboards) = m
    BY <2>1, <2>5, FS_CountingElements
  <2> QED
    BY <2>6 DEF m
<1> QED
  BY <1>6, <1>7, <1>8 DEF names

-----------------------------------------------------------------------------
(* Walking the list.                                                       *)

(* The index after another, round the list.                                *)
After(n, p) == IF p = n THEN 1 ELSE p + 1

(* The remainder the code takes is that index.                             *)
LEMMA Successor ==
    ASSUME NEW n \in Nat \ {0}, NEW h \in 1..n
    PROVE  (h % n) + 1 = After(n, h)
<1>1. CASE h = n
  <2>1. n % n = 0
    BY SMTT(30)
  <2> QED
    BY <1>1, <2>1 DEF After
<1>2. CASE h # n
  <2>1. h \in 0..(n-1)
    BY <1>2
  <2>2. h % n = h
    BY <2>1, SMTT(30)
  <2> QED
    BY <1>2, <2>2 DEF After
<1> QED
  BY <1>1, <1>2

(* One engine is listed after another.                                     *)
Follows(names, a, b) ==
    \E p \in 1..Len(names) : names[p] = a /\ b = names[After(Len(names), p)]

(* The presses recorded: the last came to the active engine, and each went *)
(* on by one in the list.                                                  *)
CycleInv ==
    LET n == Len(cycle)
    IN  /\ cycle \in Seq(Keyboards)
        /\ MaxCycle = 0 => n = 0
        /\ n # 0 => cycle[n] = mgr.keyboard
        /\ \A i \in 1..n : i + 1 <= n =>
              Follows(OrderedKeyboards(config.order), cycle[i], cycle[i+1])

(* A walk round the list comes back only after all of it.                  *)
LEMMA WalkVisitsAll ==
    ASSUME NEW names \in Seq(Keyboards), Once(names), NEW walk \in Seq(Keyboards),
           \A i \in 1..Len(walk) : i + 1 <= Len(walk) => Follows(names, walk[i], walk[i+1])
    PROVE  \A i, j \in 1..Len(walk) :
              i < j /\ walk[i] = walk[j] => j - i >= Len(names)
<1> DEFINE n == Len(walk)
           N == Len(names)
<1>0. n \in Nat /\ N \in Nat
  OBVIOUS
<1> SUFFICES ASSUME NEW i \in 1..n, NEW j \in 1..n, i < j, walk[i] = walk[j], j - i < N
             PROVE  FALSE
  BY <1>0
<1>1. ASSUME NEW k \in 1..n, k + 1 <= n, NEW p \in 1..N, walk[k] = names[p]
      PROVE  walk[k+1] = names[After(N, p)]
  <2>1. PICK q \in 1..N : names[q] = walk[k] /\ walk[k+1] = names[After(N, q)]
    BY <1>1 DEF Follows
  <2>2. q = p
    BY <1>1, <2>1 DEF Once
  <2> QED
    BY <2>1, <2>2
<1>2. PICK p \in 1..N : names[p] = walk[i]
  BY <1>0 DEF Follows
<1> DEFINE at(d) == IF p + d <= N THEN p + d ELSE (p + d) - N
           T == {d \in Nat : i + d <= n /\ d < N => walk[i+d] = names[at(d)]}
<1> HIDE DEF n, N
<1>3. 0 \in T
  <2>1. at(0) = p /\ i + 0 = i
    BY <1>0
  <2> QED
    BY <1>2, <2>1
<1>4. ASSUME NEW d \in Nat, d \in T
      PROVE  d + 1 \in T
  <2> SUFFICES ASSUME i + (d + 1) <= n, d + 1 < N
               PROVE  walk[i+(d+1)] = names[at(d+1)]
    OBVIOUS
  <2>1. i + d <= n /\ d < N /\ i + d \in 1..n /\ (i + d) + 1 = i + (d + 1)
    BY <1>0
  <2>2. walk[i+d] = names[at(d)]
    BY <1>4, <2>1
  <2>3. at(d) \in 1..N /\ After(N, at(d)) = at(d + 1)
    BY <1>0 DEF After
  <2> HIDE DEF at
  <2> QED
    BY <1>1, <2>1, <2>2, <2>3
<1>5. Nat \subseteq T
  <2> HIDE DEF T
  <2> QED
    BY <1>3, <1>4, Induction
<1> DEFINE d == j - i
<1>6. d \in Nat \ {0} /\ d < N /\ i + d = j
  BY <1>0
<1>7. d \in T
  <2> HIDE DEF T, d
  <2> QED
    BY <1>5, <1>6
<1>8. walk[j] = names[at(d)]
  <2> HIDE DEF d, at
  <2> QED
    BY <1>0, <1>6, <1>7
<1>9. at(d) \in 1..N /\ at(d) # p
  BY <1>0, <1>6
<1> QED
  BY <1>2, <1>8, <1>9 DEF Once, N

(* A press goes on by one, if it comes without a pause.                    *)
LEMMA PressFollows ==
    ASSUME IInv, NEW ok, mgr.keyboard # NoEngine,
           Cycle(Fresh, "next", ok).result # "error"
    PROVE  LET r == Cycle(Fresh, "next", ok)
           IN  /\ r.keyboard \in Keyboards
               /\ mgr.rapid => Follows(OrderedKeyboards(config.order), mgr.keyboard, r.keyboard)
<1> DEFINE names == OrderedKeyboards(config.order)
           e == ResolveSwitch(Fresh, "next")
           r == Cycle(Fresh, "next", ok)
           n == Len(names)
<1>1. /\ MgrOK(Fresh) /\ Fresh.result = "ok" /\ Fresh.keyboard = mgr.keyboard
      /\ mgr.keyboard \in Keyboards /\ Fresh.rapid = mgr.rapid
      /\ config.order \in Seq(Engines)
  BY FreshOK DEF ConfigType, IInv, MgrOK, SlotsOK, MgrType
<1>2. r = SetActive(Fresh, e, ok)
  BY <1>1 DEF Cycle
<1>3. /\ names \in Seq(Keyboards) /\ Once(names) /\ ToSet(names) = Keyboards
  BY <1>1, OrderedOK
<1> HIDE DEF names
<1>4. PICK h \in 1..n : h = (CHOOSE i \in DOMAIN names : names[i] = mgr.keyboard)
                        /\ names[h] = mgr.keyboard
  <2>1. \E i \in DOMAIN names : names[i] = mgr.keyboard
    BY <1>1, <1>3 DEF ToSet
  <2>2. DOMAIN names = 1..n
    BY <1>3
  <2> QED
    BY <2>1, <2>2
<1>5. n \in Nat \ {0} /\ After(n, h) \in 1..n
  BY <1>3, <1>4 DEF After
<1>6. Neighbour(Fresh, "next") = names[After(n, h)]
  <2>1. Neighbour(Fresh, "next") = names[(h % n) + 1]
    BY <1>1, <1>4 DEF Neighbour, names
  <2> QED
    BY <1>5, <2>1, Successor
<1>7. e \in Keyboards
  <2>1. names[After(n, h)] \in Keyboards
    BY <1>3, <1>5
  <2>2. RecentPartner(Fresh) \in Keyboards \cup {NoEngine}
    BY DEF RecentPartner
  <2> QED
    BY <1>6, <2>1, <2>2 DEF ResolveSwitch
<1>8. mgr.rapid => e = names[After(n, h)]
  BY <1>1, <1>6 DEF ResolveSwitch
<1>9. r.result # "error"
  OBVIOUS
<1> HIDE DEF e, r
<1>10. r.keyboard = e
  BY <1>1, <1>2, <1>7, <1>9, SetActiveOK
<1>11. mgr.rapid => Follows(names, mgr.keyboard, e)
  BY <1>4, <1>8 DEF Follows
<1> QED
  BY <1>7, <1>10, <1>11 DEF r, names

(* The press itself.                                                       *)
LEMMA PressKeepsCycle ==
    ASSUME IInv, CycleInv, NEW ok \in BOOLEAN, CycleNext(ok)
    PROVE  CycleInv'
<1> DEFINE r == Cycle(Fresh, "next", ok)
           k == r.keyboard
           names == OrderedKeyboards(config.order)
           n == Len(cycle)
<1>1. /\ mgr' = r /\ config' = config
      /\ cycle' = IF r.result = "error" \/ MaxCycle = 0 THEN cycle
                  ELSE IF mgr.rapid /\ n < MaxCycle THEN Append(cycle, k) ELSE <<k>>
  BY DEF CycleNext
<1>2. /\ cycle \in Seq(Keyboards) /\ n \in Nat /\ (MaxCycle = 0 => n = 0)
      /\ (n # 0 => cycle[n] = mgr.keyboard)
      /\ \A i \in 1..n : i + 1 <= n => Follows(names, cycle[i], cycle[i+1])
  BY DEF CycleInv
<1>3. r.result = "error" => k = mgr.keyboard
  <2>1. MgrOK(Fresh) /\ Fresh.result = "ok" /\ Fresh.keyboard = mgr.keyboard
    BY FreshOK DEF IInv, MgrOK, SlotsOK, MgrType
  <2>2. r.result = "error" => Unmoved(Fresh, r)
    BY <2>1, CycleOK
  <2> QED
    BY <2>1, <2>2 DEF Unmoved
<1>4. mgr.keyboard = NoEngine => r.result = "error"
  BY DEF Cycle, Fail, Fresh, IInv, MgrOK, SlotsOK, MgrType
<1>5. r.result # "error" => k \in Keyboards /\ (mgr.rapid => Follows(names, mgr.keyboard, k))
  BY <1>4, PressFollows
<1>6. OrderedKeyboards(config.order)' = names
  BY <1>1
<1> HIDE DEF r, k, names, n
<1>7. CASE r.result = "error" \/ MaxCycle = 0
  BY <1>1, <1>2, <1>3, <1>6, <1>7 DEF CycleInv, n, k, names
<1>8. CASE r.result # "error" /\ MaxCycle # 0 /\ mgr.rapid /\ n < MaxCycle
  <2> DEFINE c == Append(cycle, k)
  <2>1. /\ c \in Seq(Keyboards) /\ Len(c) = n + 1 /\ c[n+1] = k
        /\ \A i \in 1..n : c[i] = cycle[i]
    BY <1>2, <1>5, <1>8 DEF n
  <2>2. cycle' = c
    BY <1>1, <1>8
  <2> HIDE DEF c
  <2>3. ASSUME NEW i \in 1..(n+1), i + 1 <= n + 1
        PROVE  Follows(names, c[i], c[i+1])
    <3>1. CASE i = n
      BY <1>2, <1>5, <1>8, <2>1, <3>1
    <3>2. CASE i # n
      <4>1. i \in 1..n /\ i + 1 \in 1..n
        BY <1>2, <2>3, <3>2
      <4> QED
        BY <1>2, <2>1, <4>1
    <3> QED
      BY <3>1, <3>2
  <2> QED
    BY <1>1, <1>2, <1>6, <1>8, <2>1, <2>2, <2>3 DEF CycleInv, k, names
<1>9. CASE r.result # "error" /\ MaxCycle # 0 /\ ~(mgr.rapid /\ n < MaxCycle)
  <2> DEFINE c == <<k>>
  <2>1. c \in Seq(Keyboards) /\ Len(c) = 1 /\ c[1] = k
    BY <1>5, <1>9
  <2>2. cycle' = c
    BY <1>1, <1>9
  <2>3. mgr'.keyboard = k
    BY <1>1 DEF k
  <2> HIDE DEF c
  <2>4. cycle' \in Seq(Keyboards) /\ Len(cycle') = 1 /\ cycle'[1] = k
    BY <2>1, <2>2
  <2>5. \A i \in 1..1 : ~(i + 1 <= 1)
    OBVIOUS
  <2> QED
    BY <1>9, <2>3, <2>4, <2>5 DEF CycleInv
<1> QED
  BY <1>7, <1>8, <1>9

(* Pressing "next" without a pause comes to every keyboard engine before   *)
(* it comes to one a second time (resolve_switch and the ordered list).    *)
THEOREM CyclingVisitsAll == Spec => []RapidCyclingVisitsAll
<1>1. Init => CycleInv
  BY DEF Init, CycleInv
<1>2. IInv /\ CycleInv /\ [Next]_vars => CycleInv'
  <2> SUFFICES ASSUME IInv, CycleInv, [Next]_vars
               PROVE  CycleInv'
    OBVIOUS
  <2>1. CASE \E ok \in BOOLEAN : CycleNext(ok)
    BY <2>1, PressKeepsCycle
  <2>2. CASE cycle' = <<>>
    BY <2>2 DEF CycleInv
  <2>3. CASE cycle' = cycle /\ config' = config /\ mgr'.keyboard = mgr.keyboard
    BY <2>3 DEF CycleInv
  <2>4. CASE UNCHANGED vars
    BY <2>3, <2>4 DEF vars
  <2>5. CASE Commit
    <3>1. mgr'.keyboard = mgr.keyboard
      BY <2>5, UpdateRecentOK, FreshOK DEF Commit, UpdateRecent, IInv, MgrOK, SlotsOK, MgrType
    <3> QED
      BY <2>3, <2>5, <3>1 DEF Commit
  <2>6. CASE \/ Pause \/ FocusIn \/ FocusOut \/ Compose \/ ToggleMode
             \/ \E e \in Announcing, ok \in BOOLEAN, done \in BOOLEAN : DeployRime(e, ok, done)
    <3>1. mgr'.keyboard = mgr.keyboard
      BY <2>6, UseKeeps
    <3>2. cycle' = <<>> \/ (cycle' = cycle /\ config' = config)
      BY <2>6 DEF Pause, FocusIn, FocusOut, Compose, ToggleMode, DeployRime
    <3> QED
      BY <2>2, <2>3, <3>1, <3>2
  <2>7. CASE Next /\ ~(\E ok \in BOOLEAN : CycleNext(ok)) /\ ~Commit
             /\ ~(\/ Pause \/ FocusIn \/ FocusOut \/ Compose \/ ToggleMode
                  \/ \E e \in Announcing, ok \in BOOLEAN, done \in BOOLEAN :
                        DeployRime(e, ok, done))
    <3>1. cycle' = <<>>
      BY <2>7 DEF Next, Select, ActivateEngine, CyclePrev, Restart, ReloadConfig
    <3> QED
      BY <2>2, <3>1
  <2> QED
    BY <2>1, <2>4, <2>5, <2>6, <2>7
<1>3. IInv /\ CycleInv => RapidCyclingVisitsAll
  <2> SUFFICES ASSUME IInv, CycleInv
               PROVE  RapidCyclingVisitsAll
    OBVIOUS
  <2> DEFINE names == OrderedKeyboards(config.order)
  <2>1. config.order \in Seq(Engines)
    BY DEF IInv, ConfigType
  <2>2. /\ names \in Seq(Keyboards) /\ Once(names) /\ Cardinality(Keyboards) = Len(names)
    BY <2>1, OrderedOK
  <2>3. /\ cycle \in Seq(Keyboards) /\ DOMAIN cycle = 1..Len(cycle)
        /\ \A i \in 1..Len(cycle) : i + 1 <= Len(cycle) => Follows(names, cycle[i], cycle[i+1])
    BY DEF CycleInv
  <2> HIDE DEF names
  <2> QED
    BY <2>2, <2>3, WalkVisitsAll DEF RapidCyclingVisitsAll
<1> QED
  BY <1>1, <1>2, <1>3, SpecIInv, PTL DEF Spec

-----------------------------------------------------------------------------
(* The memory of the applications.                                         *)

(* What the file may hold of an application, and of all of them.           *)
Entries == [engine : Keyboards \cup {NoEngine},
            mode_engine : Keyboards \cup {NoEngine}, mode : ModeNames]
Files == [Apps -> Entries]

(* Storing the engine of a switch makes the entry that engine's: the mode  *)
(* of another one is forgotten (identity_memory_store_engine).             *)
LEMMA StoreEngineOK ==
    ASSUME NEW entry \in Entries, NEW e \in Keyboards
    PROVE  LET r == StoreEngine(entry, e)
           IN  r \in Entries /\ r.engine = e /\ r.mode_engine \in {NoEngine, e}
<1>1. NoMemory \in Entries /\ NoMemory.mode_engine = NoEngine
  BY EngineKinds DEF NoMemory, Entries
<1>2. CASE entry.mode_engine \in {NoEngine, e}
  BY <1>2 DEF StoreEngine, Entries
<1>3. CASE entry.mode_engine \notin {NoEngine, e}
  <2>1. StoreEngine(entry, e) = [NoMemory EXCEPT !.engine = e]
    BY <1>3 DEF StoreEngine
  <2> QED
    BY <1>1, <2>1 DEF Entries
<1> QED
  BY <1>2, <1>3

(* Storing a mode leaves the engine (identity_memory_store_mode).          *)
LEMMA StoreModeOK ==
    ASSUME NEW entry \in Entries, NEW e \in Keyboards, NEW mode \in ModeNames
    PROVE  LET r == StoreMode(entry, e, mode)
           IN  r \in Entries /\ r.engine = entry.engine /\ r.mode_engine = e
  BY DEF StoreMode, Entries

(* One callback reaches the entry of one application, and only that of a   *)
(* switch its engine.                                                      *)
LEMMA RememberOK ==
    ASSUME NEW file \in Files, NEW app \in Apps \cup {NoApp}, NEW event \in Event
    PROVE  LET r == Remember(file, app, event)
           IN  /\ r \in Files
               /\ \A a \in Apps \ {app} : r[a] = file[a]
               /\ app = NoApp \/ event.kind = "voice" => r = file
               /\ event.kind = "mode" /\ app \in Apps =>
                    /\ r[app].engine = file[app].engine
                    /\ r[app].mode_engine \in {file[app].mode_engine, event.engine}
               /\ event.kind = "engine" /\ app \in Apps /\ event.engine # NoEngine =>
                    /\ r[app].engine = event.engine
                    /\ r[app].mode_engine \in {NoEngine, event.engine}
<1> DEFINE r == Remember(file, app, event)
           kept == app = NoApp \/ event.engine = NoEngine \/ event.kind = "voice"
           entry == IF event.kind = "engine" THEN StoreEngine(file[app], event.engine)
                    ELSE StoreMode(file[app], event.engine, event.what)
<1>1. /\ event.kind \in {"mode", "voice", "engine"}
      /\ event.engine \in Keyboards \cup {NoEngine}
      /\ event.kind = "mode" => event.what \in ModeNames
  BY DEF Event, About
<1>2. r = IF kept THEN file ELSE [file EXCEPT ![app] = entry]
  BY DEF Remember
<1>3. CASE kept
  BY <1>1, <1>2, <1>3, AppsAssumption
<1>4. CASE ~kept
  <2>1. app \in Apps /\ event.engine \in Keyboards /\ file[app] \in Entries
    BY <1>1, <1>4 DEF Files
  <2>2. /\ entry \in Entries
        /\ event.kind = "mode" => entry.engine = file[app].engine
                                  /\ entry.mode_engine = event.engine
        /\ event.kind = "engine" => entry.engine = event.engine
                                    /\ entry.mode_engine \in {NoEngine, event.engine}
    BY <1>1, <1>4, <2>1, StoreEngineOK, StoreModeOK
  <2> HIDE DEF entry
  <2>3. r = [file EXCEPT ![app] = entry]
    BY <1>2, <1>4
  <2>4. r \in Files /\ r[app] = entry /\ \A a \in Apps \ {app} : r[a] = file[a]
    BY <2>1, <2>2, <2>3 DEF Files
  <2> HIDE DEF r
  <2>5. app # NoApp /\ event.kind # "voice"
    BY <1>4
  <2> QED
    BY <2>2, <2>4, <2>5 DEF r
<1> QED
  BY <1>3, <1>4

(* The callbacks are remembered one by one.                                *)
RememberSteps(f, file, app, ev) ==
    /\ f[0] = file
    /\ \A k \in 0..Len(ev) : f[k] \in Files
    /\ \A k \in 1..Len(ev) : f[k] = Remember(f[k-1], app, ev[k])

(* Each step of the fold remembers one callback.                           *)
LEMMA RememberedSteps ==
    ASSUME NEW file \in Files, NEW app \in Apps \cup {NoApp}, NEW ev \in Seq(Event)
    PROVE  \E f : RememberSteps(f, file, app, ev)
                  /\ f[Len(ev)] = Remembered(file, app, ev)
<1> DEFINE n == Len(ev)
           B == Files
           g == [x \in B \X (1..n) |-> Remember(x[1], app, ev[x[2]])]
           eq(h) == h = [t \in SUBSET (1..n) |->
                           IF t = {} THEN file
                           ELSE Remember(h[t \ {Max(t)}], app, ev[Max(t)])]
<1>2. n \in Nat /\ DOMAIN ev = 1..n
  OBVIOUS
<1>1. g \in [B \X (1..n) -> B]
  BY RememberOK
<1>3. \A s \in B, i \in 1..n : g[<<s, i>>] = Remember(s, app, ev[i])
  OBVIOUS
<1> HIDE DEF g
<1>4. Remembered(file, app, ev) = (CHOOSE h : eq(h))[1..n]
  BY <1>2 DEF Remembered, FoldLeft, MapThenFoldSet
<1>5. PICK h \in [SUBSET (1..n) -> B] : FoldEquation(h, B, file, g, n)
  BY <1>1, <1>2, FoldExists
<1>6. eq(h)
  <2>1. ASSUME NEW t \in SUBSET (1..n)
        PROVE  h[t] = IF t = {} THEN file
                      ELSE Remember(h[t \ {Max(t)}], app, ev[Max(t)])
    <3>1. CASE t = {}
      BY <1>5, <3>1 DEF FoldEquation
    <3>2. CASE t # {}
      <4>1. Max(t) \in 1..n
        BY <1>2, <3>2, MaxIsMember
      <4>2. h[t \ {Max(t)}] \in B
        OBVIOUS
      <4>3. h[t] = g[<<h[t \ {Max(t)}], Max(t)>>]
        BY <1>5, <3>2, <4>2 DEF FoldEquation
      <4> HIDE DEF B
      <4> QED
        BY <1>3, <3>2, <4>1, <4>2, <4>3
    <3> QED
      BY <3>1, <3>2
  <2> QED
    BY <2>1
<1> DEFINE r == CHOOSE h2 : eq(h2)
<1>7. eq(r)
  <2> HIDE DEF eq
  <2> QED
    BY <1>6
<1> HIDE DEF r
<1>8. FoldEquation(r, B, file, g, n)
  <2>1. r[{}] = file
    BY <1>7
  <2>2. ASSUME NEW t \in SUBSET (1..n), t # {}, r[t \ {Max(t)}] \in B
        PROVE  r[t] = g[<<r[t \ {Max(t)}], Max(t)>>]
    <3>1. Max(t) \in 1..n
      BY <1>2, <2>2, MaxIsMember
    <3>2. r[t] = Remember(r[t \ {Max(t)}], app, ev[Max(t)])
      BY <1>7, <2>2
    <3> HIDE DEF B
    <3> QED
      BY <1>3, <2>2, <3>1, <3>2
  <2> QED
    BY <2>1, <2>2 DEF FoldEquation
<1> DEFINE f == [k \in 0..n |-> r[1..k]]
<1>9. \A k \in 0..n : r[1..k] \in B /\ (k # 0 => FoldStep(r, g, k))
  <2> HIDE DEF B, n
  <2> QED
    BY <1>1, <1>2, <1>8, FoldSteps DEF B
<1>10. \A k \in 0..n : f[k] = r[1..k]
  OBVIOUS
<1>11. f[0] = file
  <2>1. 1..0 = {} /\ 0 \in 0..n
    BY <1>2
  <2>2. f[0] = r[{}]
    BY <1>10, <2>1
  <2> QED
    BY <1>8, <2>2 DEF FoldEquation
<1>12. f[n] = Remembered(file, app, ev)
  <2>1. n \in 0..n
    BY <1>2
  <2> QED
    BY <1>4, <1>10, <2>1 DEF r
<1>13. ASSUME NEW k \in 1..n
       PROVE  f[k] = Remember(f[k-1], app, ev[k])
  <2>1. k \in 0..n /\ k # 0 /\ k - 1 \in 0..n
    BY <1>2
  <2>2. f[k] = r[1..k] /\ f[k-1] = r[1..(k-1)]
    BY <1>10, <2>1
  <2>3. r[1..(k-1)] \in B /\ r[1..k] = g[<<r[1..(k-1)], k>>]
    BY <1>9, <2>1 DEF FoldStep
  <2> HIDE DEF B, f
  <2> QED
    BY <1>3, <2>2, <2>3
<1>14. \A k \in 0..n : f[k] \in Files
  BY <1>9, <1>10
<1> HIDE DEF f
<1> QED
  BY <1>11, <1>12, <1>13, <1>14 DEF RememberSteps

(* No callback changes nothing.                                            *)
LEMMA RememberedOfNone ==
    ASSUME NEW file \in Files, NEW app \in Apps \cup {NoApp}
    PROVE  Remembered(file, app, <<>>) = file
<1>1. <<>> \in Seq(Event) /\ Len(<<>>) = 0
  OBVIOUS
<1>2. PICK f : RememberSteps(f, file, app, <<>>)
               /\ f[Len(<<>>)] = Remembered(file, app, <<>>)
  BY <1>1, RememberedSteps
<1> QED
  BY <1>1, <1>2 DEF RememberSteps

(* One more callback is remembered after those before.                     *)
LEMMA RememberedOfMore ==
    ASSUME NEW file \in Files, NEW app \in Apps \cup {NoApp},
           NEW ev \in Seq(Event), NEW event \in Event
    PROVE  /\ Remembered(file, app, ev) \in Files
           /\ Remembered(file, app, Append(ev, event))
                = Remember(Remembered(file, app, ev), app, event)
<1> DEFINE n == Len(ev)
           more == Append(ev, event)
<1>1. /\ n \in Nat /\ more \in Seq(Event) /\ Len(more) = n + 1
      /\ more[n + 1] = event /\ \A k \in 1..n : more[k] = ev[k]
  OBVIOUS
<1>2. PICK f : RememberSteps(f, file, app, ev) /\ f[n] = Remembered(file, app, ev)
  BY RememberedSteps
<1> HIDE DEF more
<1>3. PICK g : RememberSteps(g, file, app, more)
               /\ g[n + 1] = Remembered(file, app, more)
  BY <1>1, RememberedSteps
<1> HIDE DEF n
<1> DEFINE T == {k \in Nat : k <= n => f[k] = g[k]}
<1>4. 0 \in T
  BY <1>2, <1>3 DEF RememberSteps
<1>5. ASSUME NEW k \in Nat, k \in T
      PROVE  k + 1 \in T
  <2>1. CASE k + 1 <= n
    <3>1. k + 1 \in 1..n /\ k + 1 \in 1..(n+1) /\ (k + 1) - 1 = k /\ f[k] = g[k]
      BY <1>1, <1>5, <2>1
    <3>2. f[k+1] = Remember(f[k], app, ev[k+1])
      BY <1>2, <3>1 DEF RememberSteps, n
    <3>3. g[k+1] = Remember(g[k], app, more[k+1])
      BY <1>1, <1>3, <3>1 DEF RememberSteps
    <3> QED
      BY <1>1, <3>1, <3>2, <3>3
  <2>2. CASE ~(k + 1 <= n)
    BY <2>2
  <2> QED
    BY <2>1, <2>2
<1>6. Nat \subseteq T
  <2> HIDE DEF T
  <2> QED
    BY <1>4, <1>5, Induction
<1>7. f[n] = g[n]
  BY <1>1, <1>6
<1>8. g[n + 1] = Remember(g[n], app, event)
  <2>1. n + 1 \in 1..(n+1) /\ (n + 1) - 1 = n
    BY <1>1
  <2> QED
    BY <1>1, <1>3, <2>1 DEF RememberSteps
<1>9. f[n] \in Files
  <2>1. n \in 0..n
    BY <1>1
  <2> QED
    BY <1>2, <2>1 DEF RememberSteps, n
<1> QED
  BY <1>2, <1>3, <1>7, <1>8, <1>9 DEF more

(* Callbacks reach the memory of one application.                          *)
LEMMA RememberedOK ==
    ASSUME NEW file \in Files, NEW app \in Apps \cup {NoApp}, NEW ev \in Seq(Event)
    PROVE  LET r == Remembered(file, app, ev)
           IN  r \in Files /\ \A a \in Apps \ {app} : r[a] = file[a]
<1> DEFINE n == Len(ev)
<1>1. n \in Nat /\ \A k \in 1..n : ev[k] \in Event
  OBVIOUS
<1>2. PICK f : RememberSteps(f, file, app, ev) /\ f[n] = Remembered(file, app, ev)
  BY RememberedSteps
<1>3. /\ f[0] = file /\ \A k \in 0..n : f[k] \in Files
      /\ \A k \in 1..n : f[k] = Remember(f[k-1], app, ev[k])
  BY <1>2 DEF RememberSteps
<1> HIDE DEF n
<1> DEFINE T == {k \in Nat : k <= n => \A a \in Apps \ {app} : f[k][a] = file[a]}
<1>4. 0 \in T
  BY <1>3
<1>5. ASSUME NEW k \in Nat, k \in T
      PROVE  k + 1 \in T
  <2>1. CASE k + 1 <= n
    <3>1. k + 1 \in 1..n /\ k \in 0..n /\ (k + 1) - 1 = k
      BY <1>1, <2>1
    <3>2. f[k+1] = Remember(f[k], app, ev[k+1]) /\ f[k] \in Files /\ ev[k+1] \in Event
      BY <1>1, <1>3, <3>1
    <3>3. \A a \in Apps \ {app} : f[k+1][a] = f[k][a]
      <4>1. ASSUME NEW g \in Files, NEW event \in Event
            PROVE  \A a \in Apps \ {app} : Remember(g, app, event)[a] = g[a]
        BY RememberOK
      <4> QED
        BY <3>2, <4>1
    <3>4. \A a \in Apps \ {app} : f[k][a] = file[a]
      BY <1>1, <1>5, <3>1
    <3> QED
      BY <3>3, <3>4
  <2>2. CASE ~(k + 1 <= n)
    BY <2>2
  <2> QED
    BY <2>1, <2>2
<1>6. Nat \subseteq T
  <2> HIDE DEF T
  <2> QED
    BY <1>4, <1>5, Induction
<1>7. n \in 0..n
  BY <1>1
<1> QED
  BY <1>1, <1>2, <1>3, <1>6, <1>7

(* The entry of an application once the callbacks of m are in.             *)
EntryOf(file, a, m) == Remembered(file, a, m.events)[a]

(* From m to r the engine is the same, and the entry's engine with it; the *)
(* callbacks in between are of modes and voices.                           *)
EngineKept(file, a, m, r) ==
    /\ r.keyboard = m.keyboard
    /\ EntryOf(file, a, r).engine = EntryOf(file, a, m).engine
    /\ EntryOf(file, a, r).mode_engine \in {EntryOf(file, a, m).mode_engine, m.keyboard}

(* The entry is of the active engine.                                      *)
Holds(file, a, m) ==
    /\ EntryOf(file, a, m).engine = m.keyboard
    /\ EntryOf(file, a, m).mode_engine \in {NoEngine, m.keyboard}

(* Such calls compose, and keep the entry the engine's.                    *)
LEMMA EngineKeptComposes ==
    ASSUME NEW file, NEW a, NEW m, NEW n, NEW r,
           EngineKept(file, a, m, n), EngineKept(file, a, n, r)
    PROVE  EngineKept(file, a, m, r)
  BY DEF EngineKept

(* So the entry of the active engine stays one.                            *)
LEMMA EngineKeptHolds ==
    ASSUME NEW file, NEW a, NEW m, NEW r, EngineKept(file, a, m, r), Holds(file, a, m)
    PROVE  Holds(file, a, r)
  BY DEF EngineKept, Holds

(* Without a callback and a switch nothing changes.                        *)
LEMMA SilentKeeps ==
    ASSUME NEW file, NEW a, NEW m, NEW r, r.events = m.events, r.keyboard = m.keyboard
    PROVE  EngineKept(file, a, m, r)
  BY DEF EngineKept, EntryOf

(* A callback of a mode or a voice.                                        *)
LEMMA EmitKeepsEntry ==
    ASSUME NEW file \in Files, NEW a \in Apps, NEW m, SlotsOK(m),
           NEW kind, NEW what, About(kind, what)
    PROVE  LET r == Emit(m, kind, what)
           IN  /\ r.keyboard = m.keyboard
               /\ kind # "engine" => EngineKept(file, a, m, r)
               /\ kind = "engine" /\ m.keyboard # NoEngine => Holds(file, a, r)
<1> DEFINE event == [kind |-> kind, what |-> what, engine |-> m.keyboard,
                     voice |-> m.voice, mode |-> m.last_mode]
           r == Emit(m, kind, what)
           g == Remembered(file, a, m.events)
<1>1. m \in MgrType /\ m.events \in Seq(Event) /\ a \in Apps \cup {NoApp}
  BY DEF SlotsOK, MgrType
<1>2. event \in Event
  BY <1>1 DEF Event, MgrType, About
<1>3. r.events = Append(m.events, event) /\ r.keyboard = m.keyboard
  BY <1>1 DEF Emit, MgrType
<1>4. event.engine = m.keyboard /\ event.kind = kind
  OBVIOUS
<1>5. kind \in {"mode", "voice", "engine"}
  BY DEF About
<1> HIDE DEF event, r
<1>6. g \in Files /\ Remembered(file, a, r.events) = Remember(g, a, event)
  BY <1>1, <1>2, <1>3, RememberedOfMore
<1> DEFINE h == Remember(g, a, event)
<1>7. EntryOf(file, a, r) = h[a] /\ EntryOf(file, a, m) = g[a]
  BY <1>6 DEF EntryOf
<1> HIDE DEF g
<1>8. /\ event.kind = "voice" => h = g
      /\ event.kind = "mode" => /\ h[a].engine = g[a].engine
                                /\ h[a].mode_engine \in {g[a].mode_engine, event.engine}
      /\ event.kind = "engine" /\ event.engine # NoEngine =>
           h[a].engine = event.engine /\ h[a].mode_engine \in {NoEngine, event.engine}
  BY <1>1, <1>2, <1>6, RememberOK
<1> HIDE DEF h
<1>9. kind # "engine" => EngineKept(file, a, m, r)
  BY <1>3, <1>4, <1>5, <1>7, <1>8 DEF EngineKept
<1>10. kind = "engine" /\ m.keyboard # NoEngine => Holds(file, a, r)
  BY <1>3, <1>4, <1>7, <1>8 DEF Holds
<1> QED
  BY <1>3, <1>9, <1>10 DEF r

(* typio_instance_notify_mode.                                             *)
LEMMA NotifyModeKeepsEntry ==
    ASSUME NEW file \in Files, NEW a \in Apps, NEW m, SlotsOK(m), NEW mode \in ModeNames
    PROVE  EngineKept(file, a, m, NotifyMode(m, mode))
<1> DEFINE n == [m EXCEPT !.last_mode = mode]
<1>1. /\ SlotsOK(n) /\ n.events = m.events /\ n.keyboard = m.keyboard
  BY DEF SlotsOK, MgrType, Slotted
<1>2. NotifyMode(m, mode) = IF m.last_mode = mode THEN m ELSE Emit(n, "mode", mode)
  BY DEF NotifyMode
<1> HIDE DEF n
<1>3. EngineKept(file, a, m, n) /\ EngineKept(file, a, m, m)
  BY <1>1, SilentKeeps
<1>4. EngineKept(file, a, n, Emit(n, "mode", mode))
  BY <1>1, EmitKeepsEntry DEF About
<1> QED
  BY <1>2, <1>3, <1>4, EngineKeptComposes

(* typio_rime_get_session, and with it focus_in.                           *)
LEMMA OpenSessionKeepsEntry ==
    ASSUME NEW file \in Files, NEW a \in Apps, NEW m, SlotsOK(m), NEW e
    PROVE  EngineKept(file, a, m, OpenSession(m, e))
<1> DEFINE n == [m EXCEPT !.sessions = @ \cup {e}]
<1>1. CASE e \notin Moded \ m.sessions
  <2>1. OpenSession(m, e) = m
    BY <1>1 DEF OpenSession
  <2> QED
    BY <2>1, SilentKeeps
<1>2. CASE e \in Moded \ m.sessions
  <2>1. SlotsOK(n) /\ n.events = m.events /\ n.keyboard = m.keyboard
    BY <1>2 DEF SlotsOK, MgrType, Slotted
  <2>2. ModeOf(m, e) \in ModeNames
    BY <1>2 DEF ModeOf, ModeNames, SlotsOK, MgrType
  <2>3. OpenSession(m, e) = IF e \in Announcing THEN NotifyMode(n, ModeOf(m, e)) ELSE n
    BY <1>2 DEF OpenSession
  <2> HIDE DEF n
  <2>4. EngineKept(file, a, m, n)
    BY <2>1, SilentKeeps
  <2>5. EngineKept(file, a, n, NotifyMode(n, ModeOf(m, e)))
    BY <2>1, <2>2, NotifyModeKeepsEntry
  <2> QED
    BY <2>3, <2>4, <2>5, EngineKeptComposes
<1> QED
  BY <1>1, <1>2

(* An engine's reload.                                                     *)
LEMMA EngineReloadKeepsEntry ==
    ASSUME NEW file \in Files, NEW a \in Apps, NEW m, SlotsOK(m), NEW e
    PROVE  EngineKept(file, a, m, EngineReload(m, e))
<1> DEFINE o == OpenSession(m, e)
           r == [o EXCEPT !.shown = NoEngine]
<1>1. SlotsOK(o) /\ EngineKept(file, a, m, o)
  BY OpenSessionOK, OpenSessionKeepsEntry
<1>2. EngineReload(m, e) = IF m.focused /\ e \in Announcing THEN r ELSE m
  BY DEF EngineReload
<1> HIDE DEF o
<1>3. r.events = o.events /\ r.keyboard = o.keyboard
  BY <1>1 DEF SlotsOK, MgrType
<1> HIDE DEF r
<1>4. EngineKept(file, a, o, r) /\ EngineKept(file, a, m, m)
  BY <1>3, SilentKeeps
<1> QED
  BY <1>1, <1>2, <1>4, EngineKeptComposes

(* typio_input_context_focus_in.                                           *)
LEMMA ContextFocusInKeepsEntry ==
    ASSUME NEW file \in Files, NEW a \in Apps, NEW m, MgrOK(m)
    PROVE  EngineKept(file, a, m, ContextFocusIn(m))
<1> DEFINE f == [m EXCEPT !.focused = TRUE]
<1>1. SlotsOK(f) /\ f.events = m.events /\ f.keyboard = m.keyboard
  BY DEF MgrOK, SlotsOK, MgrType, Slotted
<1>2. ContextFocusIn(m) = IF m.focused THEN m ELSE OpenSession(f, m.keyboard)
  BY DEF ContextFocusIn, EngineFocusIn
<1> HIDE DEF f
<1>3. EngineKept(file, a, m, f) /\ EngineKept(file, a, m, m)
  BY <1>1, SilentKeeps
<1>4. EngineKept(file, a, f, OpenSession(f, m.keyboard))
  BY <1>1, OpenSessionKeepsEntry
<1> QED
  BY <1>2, <1>3, <1>4, EngineKeptComposes

(* What a switch records: a change of the engine is held by the entry, and   *)
(* without a change the entry's engine is what it was.                     *)
Records(file, a, m, r) ==
    IF r.keyboard = m.keyboard
    THEN Holds(file, a, m) => Holds(file, a, r)
    ELSE Holds(file, a, r)

(* Of the calls that follow a switch none undoes it.                       *)
LEMMA RecordsCompose ==
    ASSUME NEW file, NEW a, NEW m, NEW n, NEW r,
           Records(file, a, m, n), Records(file, a, n, r)
    PROVE  Records(file, a, m, r)
  BY DEF Records, Holds

(* typio_engine_manager_set_active.                                        *)
LEMMA SetActiveRecords ==
    ASSUME NEW file \in Files, NEW a \in Apps,
           NEW m, MgrOK(m), m.result = "ok", NEW e, NEW ok
    PROVE  Records(file, a, m, SetActive(m, e, ok))
<1> DEFINE current == IF e \in Keyboards THEN m.keyboard ELSE m.voice
           stopped == [m EXCEPT !.active = @ \ {current}]
           ready   == EnsureInstance(stopped, e)
           started == IF ready.result = "ok" THEN Activate(ready, e, ok) ELSE ready
           r       == SetActive(m, e, ok)
<1>1. CASE r.result = "error"
  <2>1. Unmoved(m, r)
    BY <1>1, SetActiveOK
  <2>2. r.events = m.events /\ r.keyboard = m.keyboard
    BY <2>1 DEF Unmoved
  <2> HIDE DEF r
  <2>3. EngineKept(file, a, m, r)
    BY <2>2, SilentKeeps
  <2> QED
    BY <2>2, <2>3, EngineKeptHolds DEF Records, r
<1>2. CASE r.result # "error" /\ (e \notin Engines \/ current = e)
  <2>1. e \in Engines
    BY <1>2 DEF SetActive, Fail, MgrOK, SlotsOK, MgrType
  <2>2. r = m
    BY <1>2, <2>1 DEF SetActive
  <2> HIDE DEF r
  <2> QED
    BY <2>2 DEF Records, r
<1>3. CASE r.result # "error" /\ e \in Engines /\ current # e
  <2>1. \/ started.result = "error" /\ FailedStart(m, current, started)
        \/ started.result = "ok" /\ DoneStart(m, current, e, started)
    BY <1>3, StartOK DEF MgrOK, SlotsOK
  <2>2. r = IF started.result = "error" THEN TryRestore(started, current, ok)
            ELSE IF e \in Voices THEN Emit([started EXCEPT !.voice = e], "voice", e)
            ELSE Emit(RebindContext(ClearMode([started EXCEPT !.keyboard = e,
                                                              !.rapid = TRUE]),
                                    current),
                      "engine", e)
    BY <1>3 DEF SetActive
  <2>3. current = IF e \in Keyboards THEN m.keyboard ELSE m.voice
    OBVIOUS
  <2> HIDE DEF current, started, r
  <2>4. CASE started.result = "error" /\ FailedStart(m, current, started)
    <3>1. r = started \/ r = [started EXCEPT !.initialized = @ \cup {current},
                                             !.active = @ \cup {current}]
      BY <2>2, <2>4 DEF TryRestore
    <3>2. PICK C \in SUBSET Engines :
            started = [m EXCEPT !.active = @ \ {current}, !.created = C,
                                !.result = "error"]
      BY <2>4 DEF FailedStart
    <3>3. r.result = "error"
      BY <3>1, <3>2, <2>4 DEF MgrOK, SlotsOK, MgrType
    <3> QED
      BY <1>3, <3>3
  <2>5. CASE started.result = "ok" /\ DoneStart(m, current, e, started)
    <3>1. Switched(m, e, current, started)
      BY <1>3, <2>5, <2>3, SwitchDone
    <3>2. CASE e \in Voices
      <4> DEFINE n == [started EXCEPT !.voice = e]
      <4>1. SlotsOK(n) /\ n.keyboard = m.keyboard /\ n.events = m.events
        BY <3>1, <3>2 DEF Switched
      <4>2. r = Emit(n, "voice", e)
        BY <2>2, <2>5, <3>2
      <4> HIDE DEF n
      <4>3. EngineKept(file, a, m, n)
        BY <4>1, SilentKeeps
      <4>4. EngineKept(file, a, n, r)
        BY <1>3, <4>1, <4>2, EmitKeepsEntry DEF About
      <4>5. EngineKept(file, a, m, r)
        BY <4>3, <4>4, EngineKeptComposes
      <4> QED
        BY <4>5, EngineKeptHolds DEF Records, EngineKept, r
    <3>3. CASE e \in Keyboards
      <4> DEFINE n == ClearMode([started EXCEPT !.keyboard = e, !.rapid = TRUE])
                 b == RebindContext(n, current)
      <4>1. SlotsOK(n) /\ n.keyboard = e
            /\ (n.shown # NoEngine => n.shown = current /\ n.focused)
        BY <3>1, <3>3 DEF Switched
      <4>2. r = Emit(b, "engine", e)
        BY <2>2, <2>5, <3>3, EngineKinds
      <4> HIDE DEF n
      <4>3. MgrOK(b) /\ Frame(n, b)
        BY <3>3, <4>1, RebindContextOK
      <4>4. SlotsOK(b) /\ b.keyboard = e
        BY <4>1, <4>3 DEF MgrOK, Frame
      <4> HIDE DEF b
      <4>5. e # NoEngine /\ About("engine", e)
        BY <1>3, <3>3, EngineKinds DEF About
      <4>6. Holds(file, a, r)
        BY <4>2, <4>4, <4>5, EmitKeepsEntry
      <4> QED
        BY <4>6 DEF Records, r
    <3> QED
      BY <1>3, <3>2, <3>3, EngineKinds
  <2> QED
    BY <2>1, <2>4, <2>5 DEF r
<1> QED
  BY <1>1, <1>2, <1>3

(* Whether the caller looks at its result, or checks the type first, a     *)
(* switch records the same.                                                  *)
LEMMA CallsRecord ==
    ASSUME NEW file \in Files, NEW a \in Apps, NEW m, MgrOK(m), m.result = "ok",
           NEW e, NEW ok
    PROVE  /\ Records(file, a, m, Try(SetActive(m, e, ok)))
           /\ Records(file, a, m, Try(SetActiveVoice(m, e, ok)))
<1>1. ASSUME NEW n, MgrOK(n)
      PROVE  /\ Try(n).events = n.events /\ Try(n).keyboard = n.keyboard
             /\ Fail(n).events = n.events /\ Fail(n).keyboard = n.keyboard
  BY <1>1 DEF Try, Fail, MgrOK, SlotsOK, MgrType
<1>2. ASSUME NEW n, MgrOK(n)
      PROVE  Records(file, a, n, Try(n)) /\ Records(file, a, n, Fail(n))
  BY <1>1, <1>2 DEF Records, Holds, EntryOf
<1>3. MgrOK(SetActive(m, e, ok)) /\ MgrOK(SetActiveVoice(m, e, ok))
  BY SetActiveOK, SetActiveVoiceOK
<1>4. Records(file, a, m, SetActiveVoice(m, e, ok))
  BY <1>2, SetActiveRecords DEF SetActiveVoice
<1> QED
  BY <1>2, <1>3, <1>4, SetActiveRecords, RecordsCompose

(* typio_instance_reload_config.                                           *)
LEMMA ReloadedRecords ==
    ASSUME NEW file \in Files, NEW a \in Apps, NEW m, MgrOK(m), m.result = "ok",
           NEW conf, NEW ok
    PROVE  Records(file, a, m, Reloaded(m, conf, ok))
<1> DEFINE switched == IF conf.default \in {NoEngine, m.keyboard} THEN m
                       ELSE Try(SetActive(m, conf.default, ok))
           heard == IF switched.keyboard = NoEngine THEN switched
                   ELSE EngineReload(switched, switched.keyboard)
<1>1. MgrOK(switched) /\ switched.result = "ok"
  BY SetActiveOK, TryOK
<1>2. Records(file, a, m, switched)
  BY CallsRecord DEF Records
<1>3. /\ MgrOK(heard) /\ heard.result = "ok" /\ Records(file, a, switched, heard)
  <2> HIDE DEF switched
  <2>1. EngineKept(file, a, switched, EngineReload(switched, switched.keyboard))
    BY <1>1, EngineReloadKeepsEntry DEF MgrOK
  <2>2. Records(file, a, switched, heard)
    BY <2>1, EngineKeptHolds DEF Records, EngineKept
  <2>3. MgrOK(heard) /\ heard.result = "ok"
    BY <1>1, EngineReloadOK DEF MgrOK, Composed, Frame
  <2> QED
    BY <2>2, <2>3
<1>4. Reloaded(m, conf, ok) = IF conf.voice \in {NoEngine, heard.voice} THEN heard
                              ELSE Try(SetActiveVoice(heard, conf.voice, ok))
  BY DEF Reloaded
<1>5. Records(file, a, m, heard)
  BY <1>2, <1>3, RecordsCompose
<1> HIDE DEF heard
<1>6. Records(file, a, heard, Try(SetActiveVoice(heard, conf.voice, ok)))
  BY <1>3, CallsRecord
<1> QED
  BY <1>4, <1>5, <1>6, RecordsCompose

(* typio_engine_manager_next and _prev.                                    *)
LEMMA CycleRecords ==
    ASSUME NEW file \in Files, NEW a \in Apps, NEW m, MgrOK(m), m.result = "ok",
           NEW direction, NEW ok
    PROVE  Records(file, a, m, Cycle(m, direction, ok))
<1>1. CASE m.keyboard = NoEngine
  <2>1. Cycle(m, direction, ok) = [m EXCEPT !.result = "error"]
    BY <1>1 DEF Cycle, Fail
  <2>2. LET r == [m EXCEPT !.result = "error"]
        IN  r.events = m.events /\ r.keyboard = m.keyboard
    BY DEF MgrOK, SlotsOK, MgrType
  <2> QED
    BY <2>1, <2>2 DEF Records, Holds, EntryOf
<1>2. CASE m.keyboard # NoEngine
  <2> DEFINE e == ResolveSwitch(m, direction)
  <2>1. Cycle(m, direction, ok) = SetActive(m, e, ok)
    BY <1>2 DEF Cycle
  <2> HIDE DEF e
  <2> QED
    BY <2>1, SetActiveRecords
<1> QED
  BY <1>1, <1>2

(* The inductive invariant of the composition.                             *)
MemoryInv ==
    /\ IInv
    /\ identity \in Apps \cup {NoApp}
    /\ memory \in Files

(* No application but app is affected.                                     *)
OthersKept(file, app, r) == \A a \in Apps \ {app} : r[a] = file[a]

(* The callbacks of a record are remembered into a file.                   *)
LEMMA RememberAllOK ==
    ASSUME NEW file \in Files, NEW app \in Apps \cup {NoApp}, NEW conf, NEW m, MgrOK(m)
    PROVE  /\ RememberAll(file, app, conf, m.events) \in Files
           /\ OthersKept(file, app, RememberAll(file, app, conf, m.events))
<1>1. m.events \in Seq(Event)
  BY DEF MgrOK, SlotsOK, MgrType
<1> QED
  BY <1>1, RememberedOK DEF RememberAll, OthersKept

(* Before a handler's first callback.                                      *)
LEMMA QuietOK ==
    ASSUME NEW m, MgrOK(m)
    PROVE  LET q == Quiet(m)
           IN  /\ MgrOK(q) /\ q.events = <<>>
               /\ q.keyboard = m.keyboard /\ q.result = m.result
               /\ q.focused = m.focused /\ q.voice = m.voice
<1>1. <<>> \in Seq(Event)
  OBVIOUS
<1> QED
  BY <1>1 DEF Quiet, MgrOK, SlotsOK, MgrType, Slotted, Composed

(* identity_restore_mode: it keeps the engine and the result, and its      *)
(* callback keeps the engine of the entry.                                 *)
LEMMA RestoreModeOK ==
    ASSUME NEW file \in Files, NEW a \in Apps, NEW m, MgrOK(m), NEW entry \in Entries
    PROVE  LET r == RestoreMode(m, entry)
           IN  /\ MgrOK(r) /\ r.keyboard = m.keyboard /\ r.result = m.result
               /\ EngineKept(file, a, m, r)
<1> DEFINE e == m.keyboard
           refused == entry.mode_engine # e \/ e \notin Moded \cap m.sessions
                        \/ entry.mode[1] # e \/ entry.mode = ModeOf(m, e)
           n == [m EXCEPT !.mode[e] = entry.mode[2]]
           r == RestoreMode(m, entry)
<1>1. r = IF refused THEN m ELSE NotifyMode(n, entry.mode)
  BY DEF RestoreMode
<1>2. CASE refused
  <2>1. r = m
    BY <1>1, <1>2
  <2> HIDE DEF r
  <2> QED
    BY <2>1, SilentKeeps DEF r
<1>3. CASE ~refused
  <2>1. e \in Moded /\ entry.mode[1] = e /\ entry.mode \in ModeNames
    BY <1>3 DEF Entries
  <2>2. entry.mode[2] \in Modes
    <3>1. entry.mode # NoMode
      BY <2>1, EngineKinds DEF NoMode
    <3>2. entry.mode \in Moded \X Modes
      BY <2>1, <3>1 DEF ModeNames
    <3> QED
      BY <3>2
  <2>3. /\ MgrOK(n) /\ n.events = m.events /\ n.keyboard = m.keyboard
        /\ n.result = m.result
    BY <2>1, <2>2 DEF MgrOK, SlotsOK, MgrType, Slotted, Composed
  <2>4. r = NotifyMode(n, entry.mode)
    BY <1>1, <1>3
  <2> HIDE DEF n, r
  <2>5. MgrOK(r) /\ Frame(n, r)
    BY <2>1, <2>3, <2>4, NotifyModeOK DEF MgrOK, Composed, Frame
  <2>6. EngineKept(file, a, m, n) /\ EngineKept(file, a, n, r)
    BY <2>1, <2>3, <2>4, SilentKeeps, NotifyModeKeepsEntry DEF MgrOK
  <2> QED
    BY <2>3, <2>5, <2>6, EngineKeptComposes DEF Frame, r
<1> QED
  BY <1>2, <1>3

(* The first half of typio_wl_frontend_restore_identity_engine.            *)
LEMMA RestoreEngineOK ==
    ASSUME NEW file \in Files, NEW a \in Apps, NEW m, MgrOK(m), m.result = "ok",
           NEW entry \in Entries, NEW ok
    PROVE  LET r == RestoreEngine(m, entry, ok)
           IN  /\ MgrOK(r) /\ r.focused = m.focused /\ Records(file, a, m, r)
               /\ entry.engine # NoEngine => r.keyboard = entry.engine \/ r.result = "error"
<1> DEFINE r == RestoreEngine(m, entry, ok)
<1>1. entry.engine \in Keyboards \cup {NoEngine}
  BY DEF Entries
<1>2. CASE entry.engine \in {NoEngine, m.keyboard}
  <2>1. r = m
    BY <1>2 DEF RestoreEngine
  <2> HIDE DEF r
  <2> QED
    BY <1>2, <2>1 DEF Records, r
<1>3. CASE entry.engine \notin {NoEngine, m.keyboard}
  <2>1. r = SetActive(m, entry.engine, ok)
    BY <1>3 DEF RestoreEngine
  <2> HIDE DEF r
  <2> QED
    BY <1>1, <1>3, <2>1, SetActiveOK, SetActiveRecords DEF r
<1> QED
  BY <1>2, <1>3

(* What transition_to_active leaves: the manager is sound, the engine the  *)
(* application has in memory is active or could not be activated, and the  *)
(* memory has the engine that is.                                          *)
LEMMA FocusAppOK ==
    ASSUME MemoryInv, NEW app \in Apps \cup {NoApp}, NEW ok \in BOOLEAN, FocusApp(app, ok)
    PROVE  /\ MemoryInv'
           /\ \A a \in Apps \ {app} : memory'[a].engine = memory[a].engine
           /\ mgr'.keyboard # mgr.keyboard /\ app # NoApp /\ config.prefs =>
                /\ memory'[app].engine = mgr'.keyboard
                /\ memory'[app].mode_engine \in {NoEngine, mgr'.keyboard}
           /\ app # NoApp /\ config.prefs /\ memory[app].engine # NoEngine =>
                mgr'.keyboard = memory[app].engine \/ mgr'.result = "error"
<1> DEFINE focused == ContextFocusIn(Fresh)
           before == RememberAll(memory, identity, config, focused.events)
           restores == config.prefs /\ app # NoApp
           quiet == Quiet(focused)
           switched == IF restores THEN RestoreEngine(quiet, before[app], ok) ELSE quiet
           between == RememberAll(before, app, config, switched.events)
           silent == Quiet(switched)
           moded == IF restores THEN RestoreMode(silent, between[app]) ELSE silent
<1>1. /\ memory' = RememberAll(between, app, config, moded.events)
      /\ mgr' = moded /\ identity' = app /\ UNCHANGED <<config, saved, typed, cycle>>
  BY DEF FocusApp, FocusAs
<1>2. /\ MgrOK(Fresh) /\ Fresh.result = "ok" /\ Fresh.events = <<>>
      /\ Fresh.keyboard = mgr.keyboard
  BY FreshOK DEF MemoryInv, IInv, MgrOK, SlotsOK, MgrType
<1>3. /\ MgrOK(focused) /\ focused.result = "ok" /\ focused.keyboard = mgr.keyboard
      /\ \A a \in Apps : EngineKept(memory, a, Fresh, focused)
  <2>1. MgrOK(focused) /\ focused.result = "ok"
    BY <1>2, ContextFocusInOK
  <2>2. \A a \in Apps : EngineKept(memory, a, Fresh, focused)
    BY <1>2, ContextFocusInKeepsEntry DEF MemoryInv
  <2>3. focused.keyboard = mgr.keyboard
    <3>1. LET f == [Fresh EXCEPT !.focused = TRUE]
          IN  SlotsOK(f) /\ f.keyboard = Fresh.keyboard
      BY <1>2 DEF MgrOK, SlotsOK, MgrType, Slotted
    <3>2. focused.keyboard = Fresh.keyboard
      BY <3>1, OpenSessionOK DEF ContextFocusIn, EngineFocusIn, Frame
    <3> QED
      BY <1>2, <3>2
  <2> QED
    BY <2>1, <2>2, <2>3
<1>4. before \in Files /\ \A a \in Apps : before[a].engine = memory[a].engine
  <2> HIDE DEF focused
  <2>1. before \in Files /\ OthersKept(memory, identity, before)
    <3>1. MgrOK(focused) /\ memory \in Files /\ identity \in Apps \cup {NoApp}
      BY <1>3 DEF MemoryInv
    <3> QED
      BY <3>1, RememberAllOK
  <2>2. ASSUME identity \in Apps
        PROVE  before[identity].engine = memory[identity].engine
    <3>1. Remembered(memory, identity, Fresh.events) = memory
      BY <1>2, RememberedOfNone DEF MemoryInv
    <3>2. Remembered(memory, identity, focused.events)[identity].engine
            = memory[identity].engine
      BY <1>3, <2>2, <3>1 DEF EngineKept, EntryOf
    <3> QED
      BY <3>2 DEF RememberAll
  <2> QED
    BY <2>1, <2>2 DEF OthersKept
<1> HIDE DEF focused
<1>5. /\ MgrOK(quiet) /\ quiet.result = "ok" /\ quiet.events = <<>>
      /\ quiet.keyboard = mgr.keyboard
  BY <1>3, QuietOK
<1> HIDE DEF before, quiet
<1>6. /\ MgrOK(switched)
      /\ ~restores => switched.keyboard = mgr.keyboard
      /\ restores => /\ Records(before, app, quiet, switched)
                     /\ before[app].engine # NoEngine
                        => switched.keyboard = before[app].engine
                           \/ switched.result = "error"
  <2>1. CASE ~restores
    BY <1>5, <2>1
  <2>2. CASE restores
    <3>1. app \in Apps /\ before[app] \in Entries
      BY <1>4, <2>2 DEF Files
    <3>2. switched = RestoreEngine(quiet, before[app], ok)
      BY <2>2
    <3> HIDE DEF switched
    <3> QED
      BY <1>4, <1>5, <2>2, <3>1, <3>2, RestoreEngineOK
  <2> QED
    BY <2>1, <2>2
<1> HIDE DEF switched
<1>7. between \in Files /\ OthersKept(before, app, between)
  <2>1. MgrOK(switched) /\ before \in Files
    BY <1>4, <1>6
  <2> QED
    BY <2>1, RememberAllOK
<1>8. restores /\ switched.keyboard # mgr.keyboard
      => /\ between[app].engine = switched.keyboard
         /\ between[app].mode_engine \in {NoEngine, switched.keyboard}
  BY <1>5, <1>6 DEF Records, Holds, EntryOf, RememberAll
<1>9. /\ MgrOK(silent) /\ silent.events = <<>>
      /\ silent.keyboard = switched.keyboard /\ silent.result = switched.result
  BY <1>6, QuietOK
<1> HIDE DEF between, silent
<1>10. /\ MgrOK(moded) /\ moded.keyboard = switched.keyboard
       /\ moded.result = switched.result
       /\ restores => EngineKept(between, app, silent, moded)
  <2>1. CASE ~restores
    BY <1>9, <2>1
  <2>2. CASE restores
    <3>1. app \in Apps /\ between[app] \in Entries
      BY <1>7, <2>2 DEF Files
    <3>2. moded = RestoreMode(silent, between[app])
      BY <2>2
    <3> HIDE DEF moded
    <3> QED
      BY <1>7, <1>9, <2>2, <3>1, <3>2, RestoreModeOK
  <2> QED
    BY <2>1, <2>2
<1> HIDE DEF moded
<1>11. memory' \in Files /\ OthersKept(between, app, memory')
  <2>1. MgrOK(moded) /\ between \in Files
    BY <1>7, <1>10
  <2>2. /\ RememberAll(between, app, config, moded.events) \in Files
        /\ OthersKept(between, app, RememberAll(between, app, config, moded.events))
    BY <2>1, RememberAllOK
  <2> QED
    BY <1>1, <2>2
<1>12. restores
       => /\ memory'[app].engine = between[app].engine
          /\ memory'[app].mode_engine \in {between[app].mode_engine, switched.keyboard}
  <2> SUFFICES ASSUME restores
               PROVE  /\ memory'[app].engine = between[app].engine
                      /\ memory'[app].mode_engine
                           \in {between[app].mode_engine, switched.keyboard}
    OBVIOUS
  <2>1. Remembered(between, app, silent.events) = between
    BY <1>7, <1>9, RememberedOfNone
  <2>2. memory' = Remembered(between, app, moded.events)
    BY <1>1 DEF RememberAll
  <2> QED
    BY <1>9, <1>10, <2>1, <2>2 DEF EngineKept, EntryOf
<1>13. MemoryInv'
  BY <1>1, <1>10, <1>11 DEF MemoryInv, IInv
<1>14. \A a \in Apps \ {app} : memory'[a].engine = memory[a].engine
  BY <1>4, <1>7, <1>11 DEF OthersKept
<1>15. mgr'.keyboard # mgr.keyboard /\ app # NoApp /\ config.prefs =>
         /\ memory'[app].engine = mgr'.keyboard
         /\ memory'[app].mode_engine \in {NoEngine, mgr'.keyboard}
  BY <1>1, <1>8, <1>10, <1>12
<1>16. app # NoApp /\ config.prefs /\ memory[app].engine # NoEngine =>
         mgr'.keyboard = memory[app].engine \/ mgr'.result = "error"
  BY <1>1, <1>4, <1>6, <1>10
<1> QED
  BY <1>13, <1>14, <1>15, <1>16

(* The switches leave the context as it is.                                *)
LEMMA SwitchesKeepFocus ==
    ASSUME NEW m, MgrOK(m), m.result = "ok", NEW e, NEW direction, NEW conf, NEW ok
    PROVE  /\ SetActive(m, e, ok).focused = m.focused
           /\ Cycle(m, direction, ok).focused = m.focused
           /\ Reloaded(m, conf, ok).focused = m.focused
<1>1. ASSUME NEW n, MgrOK(n)
      PROVE  Try(n).focused = n.focused /\ Fail(n).focused = n.focused
  BY <1>1 DEF Try, Fail, MgrOK, SlotsOK, MgrType
<1>2. ASSUME NEW n, MgrOK(n), n.result = "ok", NEW f
      PROVE  /\ SetActive(n, f, ok).focused = n.focused
             /\ Try(SetActive(n, f, ok)).focused = n.focused
             /\ Try(SetActiveVoice(n, f, ok)).focused = n.focused
  <2>1. MgrOK(SetActive(n, f, ok)) /\ SetActive(n, f, ok).focused = n.focused
    BY <1>2, SetActiveOK
  <2>2. MgrOK(SetActiveVoice(n, f, ok)) /\ SetActiveVoice(n, f, ok).focused = n.focused
    BY <1>1, <1>2, <2>1, SetActiveVoiceOK DEF SetActiveVoice
  <2> QED
    BY <1>1, <2>1, <2>2
<1>3. Cycle(m, direction, ok).focused = m.focused
  BY <1>1, <1>2 DEF Cycle
<1>4. Reloaded(m, conf, ok).focused = m.focused
  <2> DEFINE switched == IF conf.default \in {NoEngine, m.keyboard} THEN m
                         ELSE Try(SetActive(m, conf.default, ok))
             heard == IF switched.keyboard = NoEngine THEN switched
                      ELSE EngineReload(switched, switched.keyboard)
  <2>1. MgrOK(switched) /\ switched.result = "ok" /\ switched.focused = m.focused
    BY <1>2, SetActiveOK, TryOK
  <2>2. MgrOK(heard) /\ heard.result = "ok" /\ heard.focused = m.focused
    <3> HIDE DEF switched
    <3> QED
      BY <2>1, EngineReloadOK DEF MgrOK, Composed, Frame
  <2>3. Reloaded(m, conf, ok) = IF conf.voice \in {NoEngine, heard.voice} THEN heard
                                ELSE Try(SetActiveVoice(heard, conf.voice, ok))
    BY DEF Reloaded
  <2> HIDE DEF heard
  <2> QED
    BY <1>2, <2>2, <2>3
<1> QED
  BY <1>2, <1>3, <1>4

(* A handler besides a focus change and a restart.                         *)
Handled ==
    \/ \E e \in Engines, ok \in BOOLEAN : Select(e, ok) \/ ActivateEngine(e, ok)
    \/ \E ok \in BOOLEAN : CycleNext(ok) \/ CyclePrev(ok)
    \/ Pause \/ FocusOut \/ Compose \/ ToggleMode \/ Commit
    \/ \E conf \in Configs \cup {config}, ok \in BOOLEAN : ReloadConfig(conf, ok)
    \/ \E e \in Announcing, ok \in BOOLEAN, done \in BOOLEAN : DeployRime(e, ok, done)

(* Its callbacks are remembered for the application in focus.              *)
HandledElsewhere ==
    /\ Handled /\ identity' = identity
    /\ memory' = RememberAll(memory, identity, config', mgr'.events)

(* Those are all the steps there are.                                      *)
LEMMA MemorySteps ==
    ASSUME MemoryNext
    PROVE  \/ \E app \in Apps \cup {NoApp}, ok \in BOOLEAN : FocusApp(app, ok)
           \/ \E ok \in BOOLEAN : RestartWithoutIdentity(ok)
           \/ HandledElsewhere
  BY DEF MemoryNext, Elsewhere, HandledElsewhere, Handled

(* A handler never focuses the context, and what it switches is recorded.  *)
LEMMA HandledRecords ==
    ASSUME IInv, memory \in Files, NEW a \in Apps, Handled
    PROVE  /\ Records(memory, a, Fresh, mgr')
           /\ mgr'.focused => mgr.focused
<1>0. /\ MgrOK(Fresh) /\ Fresh.result = "ok" /\ Fresh.events = <<>>
      /\ Fresh.keyboard = mgr.keyboard /\ Fresh.focused = mgr.focused
  BY FreshOK DEF IInv, MgrOK, SlotsOK, MgrType
<1>1. ASSUME NEW e \in Engines, NEW ok \in BOOLEAN, Select(e, ok) \/ ActivateEngine(e, ok)
      PROVE  Records(memory, a, Fresh, mgr') /\ (mgr'.focused => mgr.focused)
  <2>1. mgr' = SetActive(Fresh, e, ok)
    BY <1>1 DEF Select, ActivateEngine
  <2> QED
    BY <1>0, <2>1, SetActiveOK, SetActiveRecords
<1>2. ASSUME NEW ok \in BOOLEAN, CycleNext(ok) \/ CyclePrev(ok)
      PROVE  Records(memory, a, Fresh, mgr') /\ (mgr'.focused => mgr.focused)
  <2>1. PICK direction \in {"next", "prev"} : mgr' = Cycle(Fresh, direction, ok)
    BY <1>2 DEF CycleNext, CyclePrev
  <2> QED
    BY <1>0, <2>1, SwitchesKeepFocus, CycleRecords
<1>3. ASSUME NEW conf \in Configs \cup {config}, NEW ok \in BOOLEAN, ReloadConfig(conf, ok)
      PROVE  Records(memory, a, Fresh, mgr') /\ (mgr'.focused => mgr.focused)
  <2>1. mgr' = Reloaded(Fresh, conf, ok)
    BY <1>3 DEF ReloadConfig
  <2> QED
    BY <1>0, <2>1, SwitchesKeepFocus, ReloadedRecords
<1> DEFINE o == OpenSession(Fresh, mgr.keyboard)
<1>4. SlotsOK(o) /\ EngineKept(memory, a, Fresh, o)
  BY <1>0, OpenSessionOK, OpenSessionKeepsEntry DEF MgrOK
<1>5. ASSUME EngineKept(memory, a, Fresh, mgr')
      PROVE  Records(memory, a, Fresh, mgr')
  BY <1>5, EngineKeptHolds DEF Records, EngineKept
<1>6. CASE Pause
  <2>1. mgr' = [Fresh EXCEPT !.rapid = FALSE]
    BY <1>6 DEF Pause
  <2>2. /\ mgr'.events = Fresh.events /\ mgr'.keyboard = Fresh.keyboard
        /\ mgr'.focused = mgr.focused
    BY <1>0, <2>1 DEF MgrOK, SlotsOK, MgrType
  <2> QED
    BY <1>5, <2>2, SilentKeeps
<1>7. CASE FocusOut
  <2> DEFINE l == IF Fresh.keyboard = NoEngine THEN Fresh
                  ELSE EngineReset(Fresh, Fresh.keyboard)
  <2>1. SlotsOK(l) /\ EngineKept(memory, a, Fresh, l)
    <3> DEFINE e == Fresh.keyboard
               c == IF e \in Moded \/ Fresh.shown = e
                    THEN [Fresh EXCEPT !.shown = NoEngine] ELSE Fresh
    <3>1. SlotsOK(l)
      BY <1>0, EngineResetOK DEF MgrOK
    <3>2. SlotsOK(c) /\ c.events = Fresh.events /\ c.keyboard = Fresh.keyboard
      BY <1>0 DEF MgrOK, SlotsOK, MgrType, Slotted
    <3>3. EngineReset(Fresh, e) = IF e \in Announcing \cap Fresh.sessions
                                  THEN NotifyMode(c, ModeOf(Fresh, e)) ELSE c
      BY DEF EngineReset
    <3>4. e \in Announcing => ModeOf(Fresh, e) \in ModeNames
      BY <1>0, EngineKinds, ModeOfOK DEF MgrOK, ModeNames
    <3> HIDE DEF c
    <3>5. EngineKept(memory, a, Fresh, c) /\ EngineKept(memory, a, Fresh, Fresh)
      BY <3>2, SilentKeeps
    <3>6. e \in Announcing => EngineKept(memory, a, c, NotifyMode(c, ModeOf(Fresh, e)))
      BY <3>2, <3>4, NotifyModeKeepsEntry
    <3>7. EngineKept(memory, a, Fresh, EngineReset(Fresh, e))
      BY <3>3, <3>5, <3>6, EngineKeptComposes
    <3> QED
      BY <3>1, <3>5, <3>7
  <2>2. mgr' = Fresh \/ mgr' = [l EXCEPT !.focused = FALSE]
    BY <1>7 DEF FocusOut, ContextFocusOut, EngineFocusOut
  <2>3. mgr.focused
    BY <1>7 DEF FocusOut
  <2> HIDE DEF l
  <2>4. LET r == [l EXCEPT !.focused = FALSE]
        IN  r.events = l.events /\ r.keyboard = l.keyboard
    BY <2>1 DEF SlotsOK, MgrType
  <2>5. EngineKept(memory, a, Fresh, mgr')
    BY <2>1, <2>2, <2>4, SilentKeeps, EngineKeptComposes
  <2> QED
    BY <1>5, <2>3, <2>5
<1>8. CASE Compose
  <2>1. PICK shown \in {mgr.keyboard, NoEngine} : mgr' = [o EXCEPT !.shown = shown]
    BY <1>8 DEF Compose
  <2> HIDE DEF o
  <2>2. mgr'.events = o.events /\ mgr'.keyboard = o.keyboard
    BY <1>4, <2>1 DEF SlotsOK, MgrType
  <2>3. EngineKept(memory, a, o, mgr')
    BY <2>2, SilentKeeps
  <2> QED
    BY <1>4, <1>5, <1>8, <2>3, EngineKeptComposes DEF Compose, Typing
<1>9. CASE ToggleMode
  <2> DEFINE e == mgr.keyboard
             t == [o EXCEPT !.mode[e] = IF @ = "native" THEN "latin" ELSE "native"]
  <2>1. mgr' = IF e \in Announcing THEN NotifyMode(t, ModeOf(t, e)) ELSE t
    BY <1>9 DEF ToggleMode
  <2>2. e \in Moded /\ mgr.focused
    BY <1>9 DEF ToggleMode, Typing
  <2> HIDE DEF o
  <2>3. SlotsOK(t) /\ t.events = o.events /\ t.keyboard = o.keyboard
    BY <1>4, <2>2 DEF SlotsOK, MgrType, Slotted, Modes
  <2> HIDE DEF t
  <2>4. ModeOf(t, e) \in ModeNames
    BY <2>2, <2>3, ModeOfOK DEF ModeNames
  <2>5. /\ EngineKept(memory, a, o, t)
        /\ EngineKept(memory, a, t, NotifyMode(t, ModeOf(t, e)))
    BY <2>3, <2>4, SilentKeeps, NotifyModeKeepsEntry
  <2>6. EngineKept(memory, a, Fresh, mgr')
    BY <1>4, <2>1, <2>5, EngineKeptComposes
  <2> QED
    BY <1>5, <2>2, <2>6
<1>10. CASE Commit
  <2> DEFINE c == [Fresh EXCEPT !.shown = NoEngine]
  <2>1. MgrOK(c) /\ c.events = Fresh.events /\ c.keyboard = Fresh.keyboard
    BY <1>0 DEF MgrOK, SlotsOK, MgrType, Slotted, Composed
  <2>2. mgr' = UpdateRecent(c) /\ mgr.focused
    BY <1>10 DEF Commit
  <2> HIDE DEF c
  <2>3. UpdateRecent(c).events = c.events /\ UpdateRecent(c).keyboard = c.keyboard
    BY <2>1 DEF UpdateRecent, MgrOK, SlotsOK, MgrType
  <2>4. EngineKept(memory, a, Fresh, mgr')
    BY <2>1, <2>2, <2>3, SilentKeeps
  <2> QED
    BY <1>5, <2>2, <2>4
<1>11. ASSUME NEW e \in Announcing, NEW ok \in BOOLEAN, NEW done \in BOOLEAN,
              DeployRime(e, ok, done)
       PROVE  Records(memory, a, Fresh, mgr') /\ (mgr'.focused => mgr.focused)
  <2>1. EngineKept(memory, a, Fresh, mgr') /\ mgr'.focused = mgr.focused
    <3> DEFINE made == IF e \in Missing THEN Fresh
                       ELSE [Fresh EXCEPT !.created = @ \cup {e}]
               inited == [made EXCEPT !.initialized = @ \cup {e}]
               old == [inited EXCEPT !.sessions = @ \ {e}, !.mode[e] = "native"]
    <3>1. mgr' = IF DeployFails(e, ok) THEN Fail(made)
                 ELSE IF done THEN EngineReload(old, e) ELSE old
      BY <1>11, Zenon DEF DeployRime, Redeployed
    <3>2. e \in Engines /\ e \in Moded
      BY EngineKinds
    <3>3. /\ MgrOK(made) /\ made.events = Fresh.events
          /\ made.keyboard = Fresh.keyboard /\ made.focused = mgr.focused
      BY <1>0, <3>2 DEF MgrOK, SlotsOK, MgrType, Slotted, Composed
    <3>4. ~DeployFails(e, ok) => e \in made.created
      BY <1>0, FreshOK DEF DeployFails, MgrOK, SlotsOK, MgrType, IInv
    <3> HIDE DEF made
    <3>5. /\ Fail(made).events = Fresh.events /\ Fail(made).keyboard = Fresh.keyboard
          /\ Fail(made).focused = mgr.focused
      BY <3>3 DEF Fail, MgrOK, SlotsOK, MgrType
    <3>6. /\ ~DeployFails(e, ok) => MgrOK(inited)
          /\ inited.events = Fresh.events /\ inited.keyboard = Fresh.keyboard
          /\ inited.focused = mgr.focused
      BY <3>2, <3>3, <3>4 DEF MgrOK, SlotsOK, MgrType, Slotted, Composed
    <3>7. ~DeployFails(e, ok)
          => /\ SlotsOK(old) /\ old.focused = mgr.focused
             /\ old.events = Fresh.events /\ old.keyboard = Fresh.keyboard
      <4> HIDE DEF inited
      <4> QED
        BY <3>2, <3>6 DEF MgrOK, SlotsOK, MgrType, Slotted, Modes
    <3> HIDE DEF old
    <3>8. CASE DeployFails(e, ok)
      BY <3>1, <3>5, <3>8, SilentKeeps
    <3>9. CASE ~DeployFails(e, ok)
      <4>1. /\ EngineKept(memory, a, Fresh, old)
            /\ EngineKept(memory, a, old, EngineReload(old, e))
        BY <3>7, <3>9, SilentKeeps, EngineReloadKeepsEntry
      <4>2. EngineReload(old, e).focused = old.focused
        BY <3>7, <3>9, EngineReloadOK DEF Frame
      <4> QED
        BY <3>1, <3>7, <3>9, <4>1, <4>2, EngineKeptComposes
    <3> QED
      BY <3>8, <3>9
  <2> QED
    BY <1>5, <2>1
<1> QED
  BY <1>1, <1>2, <1>3, <1>6, <1>7, <1>8, <1>9, <1>10, <1>11 DEF Handled

(* A handler keeps the inductive invariant, and the other applications.    *)
LEMMA HandledOK ==
    ASSUME MemoryInv, HandledElsewhere
    PROVE  MemoryInv' /\ OthersKept(memory, identity, memory')
<1>1. Next
  BY DEF HandledElsewhere, Handled, Next
<1>2. IInv'
  BY <1>1, IInvStep DEF MemoryInv
<1>3. MgrOK(mgr') /\ memory \in Files /\ identity \in Apps \cup {NoApp}
  BY <1>2 DEF IInv, MemoryInv
<1>4. /\ RememberAll(memory, identity, config', mgr'.events) \in Files
      /\ OthersKept(memory, identity, RememberAll(memory, identity, config', mgr'.events))
  BY <1>3, RememberAllOK
<1> QED
  BY <1>2, <1>3, <1>4 DEF HandledElsewhere, MemoryInv

(* A new process keeps it: its manager is sound, and it knows nobody.      *)
LEMMA RestartKeepsMemory ==
    ASSUME MemoryInv, NEW ok \in BOOLEAN, RestartWithoutIdentity(ok)
    PROVE  MemoryInv'
<1>1. Next
  BY DEF RestartWithoutIdentity, Next
<1>2. IInv'
  BY <1>1, IInvStep DEF MemoryInv
<1> QED
  BY <1>2 DEF RestartWithoutIdentity, MemoryInv

(* So the invariant is inductive.                                          *)
LEMMA MemoryInvInductive ==
    /\ MemoryInit => MemoryInv
    /\ MemoryInv /\ [MemoryNext]_memoryVars => MemoryInv'
<1>1. ASSUME MemoryInit
      PROVE  MemoryInv
  <2>1. NoMemory \in Entries
    BY EngineKinds DEF NoMemory, Entries
  <2> QED
    BY <1>1, <2>1, IInvInit DEF MemoryInit, MemoryInv, Files
<1>2. ASSUME MemoryInv, MemoryNext
      PROVE  MemoryInv'
  BY <1>2, MemorySteps, FocusAppOK, RestartKeepsMemory, HandledOK
<1>3. ASSUME MemoryInv, UNCHANGED memoryVars
      PROVE  MemoryInv'
  BY <1>3 DEF memoryVars, vars, MemoryInv, IInv
<1> QED
  BY <1>1, <1>2, <1>3

(* So it always holds.                                                     *)
LEMMA MemorySpecInv == MemorySpec => []MemoryInv
  BY MemoryInvInductive, PTL DEF MemorySpec

(* The memory of an application is an engine with a mode of an engine that *)
(* has modes, or part of it, whatever handlers wrote it (identity.c).      *)
THEOREM MemoryTypes == MemorySpec => []MemoryTypeOK
<1>1. MemoryInv => MemoryTypeOK
  BY DEF MemoryInv, Files, Entries, MemoryTypeOK
<1> QED
  BY <1>1, MemorySpecInv, PTL

(* Whoever switches the engine, by chord, tray, bus, reload or focus, the  *)
(* application in focus has it in its memory, with no mode of another      *)
(* engine; the engines of the other applications stay what they were, that *)
(* of the one focused before above all (app.c, identity.c).                *)
THEOREM SwitchesAreRemembered == MemorySpec => SwitchIsRemembered
<1> DEFINE Kept ==
      /\ mgr'.keyboard # mgr.keyboard /\ identity' # NoApp /\ config'.prefs =>
           /\ memory'[identity'].engine = mgr'.keyboard
           /\ memory'[identity'].mode_engine \in {NoEngine, mgr'.keyboard}
      /\ \A a \in Apps \ {identity'} : memory'[a].engine = memory[a].engine
<1>1. MemoryInv /\ [MemoryNext]_memoryVars => [Kept]_memoryVars
  <2> SUFFICES ASSUME MemoryInv, MemoryNext
               PROVE  Kept
    OBVIOUS
  <2>1. ASSUME NEW app \in Apps \cup {NoApp}, NEW ok \in BOOLEAN, FocusApp(app, ok)
        PROVE  Kept
    <3>1. identity' = app /\ config' = config
      BY <2>1 DEF FocusApp, FocusAs
    <3> QED
      BY <2>1, <3>1, FocusAppOK
  <2>2. ASSUME NEW ok \in BOOLEAN, RestartWithoutIdentity(ok)
        PROVE  Kept
    BY <2>2 DEF RestartWithoutIdentity
  <2>3. CASE HandledElsewhere
    <3>1. /\ Handled /\ identity' = identity /\ OthersKept(memory, identity, memory')
          /\ identity \in Apps \cup {NoApp} /\ memory \in Files /\ IInv
          /\ memory' = RememberAll(memory, identity, config', mgr'.events)
      BY <2>3, HandledOK DEF HandledElsewhere, MemoryInv
    <3>2. Fresh.keyboard = mgr.keyboard
      BY <3>1, FreshOK DEF IInv, MgrOK, SlotsOK, MgrType
    <3>3. ASSUME mgr'.keyboard # mgr.keyboard, identity \in Apps, config'.prefs
          PROVE  /\ memory'[identity].engine = mgr'.keyboard
                 /\ memory'[identity].mode_engine \in {NoEngine, mgr'.keyboard}
      <4>1. Records(memory, identity, Fresh, mgr')
        BY <3>1, <3>3, HandledRecords
      <4>2. Holds(memory, identity, mgr')
        BY <3>2, <3>3, <4>1 DEF Records
      <4>3. memory' = Remembered(memory, identity, mgr'.events)
        BY <3>1, <3>3 DEF RememberAll
      <4> QED
        BY <4>2, <4>3 DEF Holds, EntryOf
    <3> QED
      BY <3>1, <3>3 DEF OthersKept
  <2> QED
    BY <2>1, <2>2, <2>3, MemorySteps
<1>2. [][Kept]_memoryVars => SwitchIsRemembered
  BY PTL DEF SwitchIsRemembered
<1> QED
  BY <1>1, <1>2, MemorySpecInv, PTL DEF MemorySpec

(* Focusing an application brings back the engine its memory has, unless   *)
(* that engine cannot be activated any more (transition_to_active with     *)
(* typio_wl_frontend_restore_identity_engine).                             *)
THEOREM FocusBringsEngineBack == MemorySpec => FocusRestoresEngine
<1> DEFINE Back ==
      \A a \in Apps :
         /\ ~mgr.focused /\ mgr'.focused /\ identity' = a
         /\ config.prefs /\ memory[a].engine # NoEngine
         => mgr'.keyboard = memory[a].engine \/ mgr'.result = "error"
<1>1. MemoryInv /\ [MemoryNext]_memoryVars => [Back]_memoryVars
  <2> SUFFICES ASSUME MemoryInv, MemoryNext, NEW a \in Apps,
                      ~mgr.focused, mgr'.focused, identity' = a,
                      config.prefs, memory[a].engine # NoEngine
               PROVE  mgr'.keyboard = memory[a].engine \/ mgr'.result = "error"
    OBVIOUS
  <2>1. ASSUME NEW app \in Apps \cup {NoApp}, NEW ok \in BOOLEAN, FocusApp(app, ok)
        PROVE  mgr'.keyboard = memory[a].engine \/ mgr'.result = "error"
    <3>1. app = a /\ app # NoApp
      BY <2>1, AppsAssumption DEF FocusApp, FocusAs
    <3> QED
      BY <2>1, <3>1, FocusAppOK
  <2>2. ASSUME NEW ok \in BOOLEAN, RestartWithoutIdentity(ok)
        PROVE  FALSE
    BY <2>2, AppsAssumption DEF RestartWithoutIdentity
  <2>3. ASSUME HandledElsewhere
        PROVE  FALSE
    <3>1. Handled /\ IInv /\ memory \in Files
      BY <2>3 DEF HandledElsewhere, MemoryInv
    <3> QED
      BY <3>1, HandledRecords
  <2> QED
    BY <2>1, <2>2, <2>3, MemorySteps
<1>2. [][Back]_memoryVars => FocusRestoresEngine
  BY PTL DEF FocusRestoresEngine
<1> QED
  BY <1>1, <1>2, MemorySpecInv, PTL DEF MemorySpec

=============================================================================
