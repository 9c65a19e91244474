---------------------------- MODULE EngineManager ----------------------------
(***************************************************************************)
(* The engine manager: core/src/engine_manager.rs with its switch.rs and   *)
(* query.rs, the instance's callbacks, boot and configuration reload       *)
(* (core/src/instance.rs, instance/*.rs), the focus calls of the input     *)
(* context (input_context/focus.rs), and what the keyboard engines do when *)
(* they are focused, reset or told to reload (engines/rime, engines/mozc,  *)
(* engines/basic).                                                         *)
(*                                                                         *)
(* All of it runs on the main thread and most handlers call one another,   *)
(* so the state one call passes to the next is a record, mgr, and a call   *)
(* is an operator from a record to a record; an action composes the calls  *)
(* of one handler.  Two of its fields belong to the last handler only:     *)
(* result, and events, the callbacks it made in their order.               *)
(*                                                                         *)
(* Abstractions.  An engine is a model value.  There is one input context, *)
(* as in the frontend's session.  An engine's mode is one of two.  Rime's  *)
(* deployment has finished whenever a session is asked for.  Engines are   *)
(* registered before the first action and none is unloaded: the daemon     *)
(* never calls typio_engine_manager_unload.                                *)
(***************************************************************************)
EXTENDS Naturals, FiniteSets, SequencesExt

CONSTANTS
    Registered,   \* engine names in the order of registration
    Keyboards,    \* those of type keyboard; the others are voice engines
    Moded,        \* keyboards with get_mode and set_mode (Rime, Mozc)
    Announcing,   \* those that notify their mode from reset (Rime)
    Missing,      \* engines whose factory returns NULL
    Unfit,        \* engines without the operations of their type
    Flaky,        \* engines whose init may fail
    Configs,      \* the configurations the user may write
    NoEngine,
    MaxCommits,   \* bound on the commits the history records
    MaxCycle      \* bound on the presses of "next" it records

Engines == ToSet(Registered)
Voices == Engines \ Keyboards
Modes == {"native", "latin"}
NoMode == <<NoEngine, "native">>
NoRecent == [primary |-> NoEngine, secondary |-> NoEngine]

ASSUME EnginesAssumption ==
    /\ Registered \in Seq(Engines)
    /\ Keyboards \subseteq Engines /\ NoEngine \notin Engines
    /\ Announcing \subseteq Moded /\ Moded \subseteq Keyboards \ Unfit
    /\ MaxCommits \in Nat /\ MaxCycle \in Nat

ASSUME ConfigsAssumption ==
    Configs \subseteq [default : Engines \cup {NoEngine},
                      voice : Engines \cup {NoEngine},
                      order : Seq(Engines), prefs : BOOLEAN]

VARIABLES
    mgr,       \* TypioEngineManager and TypioInstance
    config,    \* the configuration, in memory and in typio.toml
    saved,     \* recent pair in engine-state.toml
    typed,     \* history: the active engine at every commit
    cycle      \* history: engines reached by "next" since the last pause

vars == <<mgr, config, saved, typed, cycle>>

Booted ==
    [created |-> {}, initialized |-> {}, active |-> {},
     keyboard |-> NoEngine, voice |-> NoEngine,
     rapid |-> FALSE, recent |-> NoRecent,
     focused |-> FALSE, shown |-> NoEngine,
     sessions |-> {}, mode |-> [e \in Moded |-> "native"], last_mode |-> NoMode,
     result |-> "ok", events |-> <<>>]

-----------------------------------------------------------------------------
(* The instance's callbacks and the engines' own operations.               *)

\* What the listeners of a callback find when they ask is part of the event
Emit(m, kind, what) ==
    [m EXCEPT !.events =
        Append(@, [kind |-> kind, what |-> what, engine |-> m.keyboard,
                   voice |-> m.voice, mode |-> m.last_mode])]

\* typio_instance_notify_mode: an unchanged mode is not announced
NotifyMode(m, mode) ==
    IF m.last_mode = mode THEN m
    ELSE Emit([m EXCEPT !.last_mode = mode], "mode", mode)

ClearMode(m) == [m EXCEPT !.last_mode = NoMode]

ModeOf(m, e) == <<e, m.mode[e]>>

\* typio_rime_get_session(create) and mozc_get_session(create)
OpenSession(m, e) ==
    IF e \notin Moded \ m.sessions THEN m
    ELSE LET opened == [m EXCEPT !.sessions = @ \cup {e}]
         IN  IF e \in Announcing THEN NotifyMode(opened, ModeOf(m, e)) ELSE opened

EngineFocusIn(m, e) == OpenSession(m, e)

\* reset clears the context's composition; basic clears its own only
EngineReset(m, e) ==
    LET cleared == IF e \in Moded \/ m.shown = e
                   THEN [m EXCEPT !.shown = NoEngine] ELSE m
    IN  IF e \in Announcing \cap m.sessions
        THEN NotifyMode(cleared, ModeOf(m, e)) ELSE cleared

EngineFocusOut(m, e) == EngineReset(m, e)

\* only Rime's reload touches the context: it drops the composition
EngineReload(m, e) ==
    IF m.focused /\ e \in Announcing
    THEN [OpenSession(m, e) EXCEPT !.shown = NoEngine] ELSE m

\* typio_input_context_focus_in and _focus_out
ContextFocusIn(m) ==
    IF m.focused THEN m
    ELSE EngineFocusIn([m EXCEPT !.focused = TRUE], m.keyboard)

ContextFocusOut(m) ==
    LET left == IF m.keyboard = NoEngine THEN m ELSE EngineFocusOut(m, m.keyboard)
    IN  IF m.focused THEN [left EXCEPT !.focused = FALSE] ELSE m

-----------------------------------------------------------------------------
(* Switching.                                                              *)

Fail(m) == [m EXCEPT !.result = "error"]

\* The wrapper is stored before its operations are checked, and what is
\* stored is not checked again.
EnsureInstance(m, e) ==
    IF e \in m.created THEN m
    ELSE IF e \in Missing THEN Fail(m)
    ELSE LET made == [m EXCEPT !.created = @ \cup {e}]
         IN  IF e \in Unfit THEN Fail(made) ELSE made

Inits(m, e, ok) == e \in m.initialized \/ e \notin Flaky \/ ok

Activate(m, e, ok) ==
    IF Inits(m, e, ok)
    THEN [m EXCEPT !.initialized = @ \cup {e}, !.active = @ \cup {e}]
    ELSE Fail(m)

\* Defect: a failed switch leaves the old engine stopped
TryRestoreNothing(m, e, ok) == m

TryRestore(m, e, ok) ==
    IF e \in m.created /\ Inits(m, e, ok)
    THEN [m EXCEPT !.initialized = @ \cup {e}, !.active = @ \cup {e}]
    ELSE m

\* Defect: the context is handed over without a reset
RebindWithoutReset(m, old) ==
    IF m.focused THEN EngineFocusIn(ClearMode(m), m.keyboard) ELSE m

\* rebind_focused_context: the new engine is already in the slot
RebindContext(m, old) ==
    IF ~m.focused THEN m
    ELSE LET new == m.keyboard
             left == IF old = NoEngine THEN m ELSE EngineFocusOut(m, old)
             entered == EngineFocusIn(EngineReset(ClearMode(left), new), new)
         IN  IF new \in Moded THEN NotifyMode(entered, ModeOf(entered, new))
             ELSE entered

\* typio_engine_manager_set_active
SetActive(m, e, ok) ==
    LET current == IF e \in Keyboards THEN m.keyboard ELSE m.voice
        stopped == [m EXCEPT !.active = @ \ {current}]
        ready == EnsureInstance(stopped, e)
        started == IF ready.result = "ok" THEN Activate(ready, e, ok) ELSE ready
    IN  IF e \notin Engines THEN Fail(m)
        ELSE IF current = e THEN m
        ELSE IF started.result = "error" THEN TryRestore(started, current, ok)
        ELSE IF e \in Voices THEN Emit([started EXCEPT !.voice = e], "voice", e)
        ELSE Emit(RebindContext(ClearMode([started EXCEPT !.keyboard = e,
                                                          !.rapid = TRUE]),
                                current),
                  "engine", e)

SetActiveVoice(m, e, ok) ==
    IF e \in Voices THEN SetActive(m, e, ok) ELSE Fail(m)

\* A call whose result the caller ignores
Try(m) == [m EXCEPT !.result = "ok"]

\* The configured order without strangers and repetitions, then the rest
OrderedKeyboards(order) ==
    FoldLeft(LAMBDA names, e :
                 IF e \in Keyboards /\ e \notin ToSet(names)
                 THEN Append(names, e) ELSE names,
             <<>>, order \o Registered)

\* recent_partner_index
RecentPartner(m) ==
    LET partner == IF m.recent.primary = m.keyboard THEN m.recent.secondary
                   ELSE IF m.recent.secondary = m.keyboard THEN m.recent.primary
                   ELSE NoEngine
    IN  IF partner \in Keyboards THEN partner ELSE NoEngine

Neighbour(m, direction) ==
    LET names == OrderedKeyboards(config.order)
        here == CHOOSE i \in DOMAIN names : names[i] = m.keyboard
        count == Len(names)
    IN  IF direction = "next" THEN names[(here % count) + 1]
        ELSE names[IF here = 1 THEN count ELSE here - 1]

\* Defect: the pause is not asked for
ResolveAlwaysPartner(m, direction) ==
    IF RecentPartner(m) # NoEngine THEN RecentPartner(m)
    ELSE Neighbour(m, direction)

\* resolve_switch: after a pause, back to the engine typed with before
ResolveSwitch(m, direction) ==
    IF ~m.rapid /\ RecentPartner(m) # NoEngine THEN RecentPartner(m)
    ELSE Neighbour(m, direction)

Cycle(m, direction, ok) ==
    IF m.keyboard = NoEngine THEN Fail(m)
    ELSE SetActive(m, ResolveSwitch(m, direction), ok)

\* Defect: the second place is filled once
UpdateRecentOnce(m) ==
    IF m.keyboard = NoEngine \/ m.recent.primary = m.keyboard THEN m
    ELSE [m EXCEPT !.recent =
            [primary |-> m.keyboard,
             secondary |-> IF @.secondary = NoEngine THEN @.primary ELSE @.secondary]]

\* update_recent_pair
UpdateRecent(m) ==
    LET pair == m.recent
        kept == IF pair.primary # NoEngine THEN pair.primary
                ELSE IF pair.secondary # m.keyboard THEN pair.secondary
                ELSE NoEngine
    IN  IF m.keyboard = NoEngine \/ pair.primary = m.keyboard THEN m
        ELSE [m EXCEPT !.recent = [primary |-> m.keyboard, secondary |-> kept]]

\* typio_instance_init, then typio_wl_frontend_new
Boot(recent, conf, ok) ==
    LET fresh == [Booted EXCEPT !.recent = recent]
        chosen == IF conf.default = NoEngine THEN fresh
                  ELSE Try(SetActive(fresh, conf.default, ok))
        some == IF chosen.keyboard = NoEngine
                THEN Try(SetActive(chosen, Registered[1], ok)) ELSE chosen
        voiced == IF conf.voice = NoEngine THEN some
                  ELSE Try(SetActiveVoice(some, conf.voice, ok))
    IN  [voiced EXCEPT !.events = <<>>]

\* typio_instance_reload_config
Reloaded(m, conf, ok) ==
    LET switched == IF conf.default \in {NoEngine, m.keyboard} THEN m
                    ELSE Try(SetActive(m, conf.default, ok))
        told == IF switched.keyboard = NoEngine THEN switched
                ELSE EngineReload(switched, switched.keyboard)
    IN  IF conf.voice \in {NoEngine, told.voice} THEN told
        ELSE Try(SetActiveVoice(told, conf.voice, ok))

\* rime_reload_config with a deploy requested: the sessions are stale, and a
\* new one is opened at once when the deployment is synchronous (done)
Redeployed(m, e, done) ==
    LET stale == [m EXCEPT !.sessions = @ \ {e}, !.mode[e] = "native"]
    IN  IF done THEN EngineReload(stale, e) ELSE stale

-----------------------------------------------------------------------------
(* The handlers, as actions.                                               *)

Fresh == [mgr EXCEPT !.result = "ok", !.events = <<>>]

Init ==
    /\ config \in Configs
    /\ \E ok \in BOOLEAN : mgr = Boot(NoRecent, config, ok)
    /\ saved = NoRecent
    /\ typed = <<>>
    /\ cycle = <<>>

\* The tray's engine menu
Select(e, ok) ==
    /\ mgr' = SetActive(Fresh, e, ok)
    /\ cycle' = <<>>
    /\ UNCHANGED <<config, saved, typed>>

\* Defect: the default engine is written before the switch is known to work
ActivateEngineAnyway(e, ok) ==
    /\ mgr' = SetActive(Fresh, e, ok)
    /\ config' = [config EXCEPT !.default = e]
    /\ cycle' = <<>>
    /\ UNCHANGED <<saved, typed>>

\* ActivateEngine on the bus makes the engine the default one as well
ActivateEngine(e, ok) ==
    /\ mgr' = SetActive(Fresh, e, ok)
    /\ config' = IF mgr'.result = "ok" THEN [config EXCEPT !.default = e] ELSE config
    /\ cycle' = <<>>
    /\ UNCHANGED <<saved, typed>>

\* The switch chord, NextEngine on the bus, the tray's click and wheel
CycleNext(ok) ==
    /\ mgr' = Cycle(Fresh, "next", ok)
    /\ cycle' = IF mgr'.result = "error" \/ MaxCycle = 0 THEN cycle
                ELSE IF mgr.rapid /\ Len(cycle) < MaxCycle
                THEN Append(cycle, mgr'.keyboard) ELSE <<mgr'.keyboard>>
    /\ UNCHANGED <<config, saved, typed>>

CyclePrev(ok) ==
    /\ mgr' = Cycle(Fresh, "prev", ok)
    /\ cycle' = <<>>
    /\ UNCHANGED <<config, saved, typed>>

\* The stability threshold passes since the last switch
Pause ==
    /\ mgr.rapid
    /\ mgr' = [Fresh EXCEPT !.rapid = FALSE]
    /\ cycle' = <<>>
    /\ UNCHANGED <<config, saved, typed>>

FocusIn ==
    /\ ~mgr.focused
    /\ mgr' = ContextFocusIn(Fresh)
    /\ UNCHANGED <<config, saved, typed, cycle>>

FocusOut ==
    /\ mgr.focused
    /\ mgr' = ContextFocusOut(Fresh)
    /\ UNCHANGED <<config, saved, typed, cycle>>

Typing == mgr.focused /\ mgr.keyboard \notin {NoEngine} \cup Unfit

\* A key the engine turns into composition, or that ends the composition
\* without a commit
Compose ==
    /\ Typing
    /\ \E shown \in {mgr.keyboard, NoEngine} :
          mgr' = [OpenSession(Fresh, mgr.keyboard) EXCEPT !.shown = shown]
    /\ UNCHANGED <<config, saved, typed, cycle>>

\* A key that toggles the engine's mode; Mozc does not announce it
ToggleMode ==
    /\ Typing /\ mgr.keyboard \in Moded
    /\ LET e == mgr.keyboard
           toggled == [OpenSession(Fresh, e) EXCEPT
                         !.mode[e] = IF @ = "native" THEN "latin" ELSE "native"]
       IN  mgr' = IF e \in Announcing THEN NotifyMode(toggled, ModeOf(toggled, e))
                  ELSE toggled
    /\ UNCHANGED <<config, saved, typed, cycle>>

\* Text is committed, by the keyboard engine or by the voice session: the
\* commit callback clears the composition and tells the manager
Commit ==
    /\ mgr.focused /\ mgr.keyboard # NoEngine
    /\ mgr.keyboard \notin Unfit \/ mgr.voice # NoEngine
    /\ Len(typed) < MaxCommits
    /\ mgr' = UpdateRecent([Fresh EXCEPT !.shown = NoEngine])
    /\ saved' = IF mgr'.recent = mgr.recent THEN saved ELSE mgr'.recent
    /\ typed' = Append(typed, mgr.keyboard)
    /\ UNCHANGED <<config, cycle>>

ReloadConfig(conf, ok) ==
    /\ config' = conf
    /\ mgr' = Reloaded(Fresh, conf, ok)
    /\ cycle' = <<>>
    /\ UNCHANGED <<saved, typed>>

DeployFails(e, ok) == e \in Missing \ mgr.created \/ ~Inits(mgr, e, ok)

\* typio_instance_deploy_rime_config: the engine need not be the active one
DeployRime(e, ok, done) ==
    /\ e \in Announcing
    /\ LET made == IF e \in Missing THEN Fresh
                   ELSE [Fresh EXCEPT !.created = @ \cup {e}]
       IN  mgr' = IF DeployFails(e, ok) THEN Fail(made)
                  ELSE Redeployed([made EXCEPT !.initialized = @ \cup {e}], e, done)
    /\ UNCHANGED <<config, saved, typed, cycle>>

\* The daemon ends, by a crash or an orderly exit, and starts again
Restart(ok) ==
    /\ mgr' = Boot(saved, config, ok)
    /\ cycle' = <<>>
    /\ UNCHANGED <<config, saved, typed>>

Next ==
    \/ \E e \in Engines, ok \in BOOLEAN : Select(e, ok) \/ ActivateEngine(e, ok)
    \/ \E ok \in BOOLEAN : CycleNext(ok) \/ CyclePrev(ok) \/ Restart(ok)
    \/ Pause \/ FocusIn \/ FocusOut \/ Compose \/ ToggleMode \/ Commit
    \/ \E conf \in Configs \cup {config}, ok \in BOOLEAN : ReloadConfig(conf, ok)
    \/ \E e \in Announcing, ok, done \in BOOLEAN : DeployRime(e, ok, done)

Spec == Init /\ [][Next]_vars

-----------------------------------------------------------------------------
(* Properties.                                                             *)

Recents == [primary : Engines \cup {NoEngine}, secondary : Engines \cup {NoEngine}]
ModeNames == {NoMode} \cup Moded \X Modes

\* Every field keeps its type, nobody is active who is not initialized, and
\* the engines whose active flag is set are exactly those of the two slots,
\* through every failed switch, restore, reload and restart (switch.rs:97,
\* 107, 134, 143; docs/dev/maintenance.md:152).
TypeOK ==
    /\ mgr.active = {mgr.keyboard, mgr.voice} \ {NoEngine}
    /\ mgr.active \subseteq mgr.initialized
    /\ mgr.initialized \subseteq mgr.created /\ mgr.created \subseteq Engines
    /\ mgr.keyboard \in Keyboards \cup {NoEngine}
    /\ mgr.voice \in Voices \cup {NoEngine}
    /\ mgr.rapid \in BOOLEAN /\ mgr.focused \in BOOLEAN
    /\ mgr.recent \in Recents /\ saved \in Recents
    /\ mgr.shown \in Keyboards \cup {NoEngine}
    /\ mgr.sessions \subseteq Moded /\ mgr.mode \in [Moded -> Modes]
    /\ mgr.last_mode \in ModeNames
    /\ mgr.result \in {"ok", "error"}
    /\ config.default \in Engines \cup {NoEngine}
    /\ typed \in Seq(Engines) /\ cycle \in Seq(Engines)

\* A switch that reports an error leaves the user where he was: the engines
\* in the slots, the composition on screen, the modes, the recent pair and
\* the default engine (docs/explanation/timing-model.md:165).
FailedSwitchChangesNothing ==
    [][mgr'.result = "error" =>
        /\ \A f \in {"keyboard", "voice", "active", "rapid", "recent", "focused",
                     "shown", "sessions", "mode", "last_mode"} : mgr'[f] = mgr[f]
        /\ mgr'.events = <<>>
        /\ UNCHANGED <<config, saved, typed>>]_vars

\* A composition on screen is the active engine's, in a focused context: no
\* switch, reload or focus change leaves one behind (engine_manager.rs:431).
CompositionBelongsToActiveEngine ==
    mgr.shown # NoEngine => mgr.shown = mgr.keyboard /\ mgr.focused

LastOf(s) == IF s = <<>> THEN NoEngine ELSE s[Len(s)]
LastOther(s) ==
    LET others == {i \in 1 .. Len(s) : s[i] # LastOf(s)}
    IN  IF others = {} THEN NoEngine ELSE s[Max(others)]

\* The recent pair, in memory and on disk, is the engine of the last commit
\* and the last other engine a commit was made in, across restarts and
\* whatever was switched through in between (engine_manager.rs:259).
RecentsAreLastTyped ==
    /\ mgr.recent = [primary |-> LastOf(typed), secondary |-> LastOther(typed)]
    /\ saved = mgr.recent

\* Pressing "next" without a pause comes to every keyboard engine before it
\* comes to one a second time (engine_manager.rs:466).
RapidCyclingVisitsAll ==
    \A i, j \in DOMAIN cycle :
        i < j /\ cycle[i] = cycle[j] => j - i >= Cardinality(Keyboards)

\* Reloading a configuration whose default engine did not change leaves the
\* engine the user switched to (docs/explanation/configuration-system.md:80).
ReloadKeepsTheUsersEngine ==
    [][\A ok \in BOOLEAN : ReloadConfig(config, ok) => mgr'.keyboard = mgr.keyboard]_vars

=============================================================================
