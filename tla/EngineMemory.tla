---------------------------- MODULE EngineMemory ----------------------------
(***************************************************************************)
(* The engine and mode remembered for each application: identity.c of the  *)
(* Wayland frontend, the daemon's engine and mode callbacks (daemon/app.c) *)
(* that write it, and transition_to_active (wl_input_method.c) that reads  *)
(* it back, composed with the engine manager.                              *)
(*                                                                         *)
(* Every action of the manager is an action here.  The callbacks it made,  *)
(* mgr.events, are applied to the memory of the application the frontend   *)
(* believes to be focused, in their order and under the preference in      *)
(* force; a focus change interleaves its three calls with them.            *)
(*                                                                         *)
(* Abstractions.  An application is its stable key.  The file is written   *)
(* without failure, and is never edited by hand.                           *)
(***************************************************************************)
EXTENDS EngineManager

CONSTANTS
    Apps,     \* stable keys of the applications
    NoApp     \* no provider, or its query failed

ASSUME AppsAssumption == NoApp \notin Apps

VARIABLES
    identity,   \* TypioWlFrontend.current_identity
    memory      \* identity-engine-state.toml

memoryVars == <<vars, identity, memory>>

NoMemory == [engine |-> NoEngine, mode_engine |-> NoEngine, mode |-> NoMode]

\* identity_memory_store_engine: the mode of another engine is forgotten
StoreEngine(entry, e) ==
    IF entry.mode_engine \in {NoEngine, e} THEN [entry EXCEPT !.engine = e]
    ELSE [NoMemory EXCEPT !.engine = e]

\* identity_memory_store_mode, with the name of the engine active just then
StoreMode(entry, e, mode) == [entry EXCEPT !.mode_engine = e, !.mode = mode]

\* typio_daemon_on_engine_change and _on_mode_change
Remember(file, app, event) ==
    IF app = NoApp \/ event.engine = NoEngine \/ event.kind = "voice" THEN file
    ELSE [file EXCEPT ![app] =
            IF event.kind = "engine" THEN StoreEngine(@, event.engine)
            ELSE StoreMode(@, event.engine, event.what)]

\* The file after a handler's callbacks, in their order
Remembered(file, app, events) ==
    FoldLeft(LAMBDA f, event : Remember(f, app, event), file, events)

RememberAll(file, app, conf, events) ==
    IF conf.prefs THEN Remembered(file, app, events) ELSE file

Quiet(m) == [m EXCEPT !.events = <<>>]

\* Defect: only an engine already loaded is restored
RestoreLoadedEngine(m, entry, ok) ==
    IF entry.engine \notin m.created \ {m.keyboard} THEN m
    ELSE SetActive(m, entry.engine, ok)

\* The first half of typio_wl_frontend_restore_identity_engine
RestoreEngine(m, entry, ok) ==
    IF entry.engine \in {NoEngine, m.keyboard} THEN m
    ELSE SetActive(m, entry.engine, ok)

\* identity_restore_mode: set_mode refuses another engine's mode
RestoreMode(m, entry) ==
    LET e == m.keyboard
    IN  IF entry.mode_engine # e \/ e \notin Moded \cap m.sessions
           \/ entry.mode[1] # e \/ entry.mode = ModeOf(m, e)
        THEN m
        ELSE NotifyMode([m EXCEPT !.mode[e] = entry.mode[2]], entry.mode)

-----------------------------------------------------------------------------

MemoryInit ==
    /\ Init
    /\ identity = NoApp
    /\ memory = [a \in Apps |-> NoMemory]

\* transition_to_active: the context is focused, then the identity is
\* queried, then the application's engine and mode are restored; callbacks
\* of the restore go to the memory of "current"
FocusAs(app, current, ok) ==
    /\ ~mgr.focused
    /\ LET focused == ContextFocusIn(Fresh)
           before == RememberAll(memory, identity, config, focused.events)
           restores == config.prefs /\ app # NoApp
           switched == IF restores THEN RestoreEngine(Quiet(focused), before[app], ok)
                       ELSE Quiet(focused)
           between == RememberAll(before, current, config, switched.events)
           moded == IF restores THEN RestoreMode(Quiet(switched), between[app])
                    ELSE Quiet(switched)
       IN  /\ memory' = RememberAll(between, current, config, moded.events)
           /\ mgr' = moded
    /\ identity' = app
    /\ UNCHANGED <<config, saved, typed, cycle>>

\* Defect: the identity is refreshed after the restore
FocusRefreshedLate(app, ok) == FocusAs(app, identity, ok)

FocusApp(app, ok) == FocusAs(app, app, ok)

\* Every other handler: the identity stays what the last focus found
Elsewhere(action) ==
    /\ action
    /\ identity' = identity
    /\ memory' = RememberAll(memory, identity, config', mgr'.events)

\* The new process has no identity until the next focus
RestartWithoutIdentity(ok) ==
    /\ Restart(ok)
    /\ identity' = NoApp
    /\ UNCHANGED memory

MemoryNext ==
    \/ \E app \in Apps \cup {NoApp}, ok \in BOOLEAN : FocusApp(app, ok)
    \/ \E e \in Engines, ok \in BOOLEAN :
          Elsewhere(Select(e, ok)) \/ Elsewhere(ActivateEngine(e, ok))
    \/ \E ok \in BOOLEAN : Elsewhere(CycleNext(ok)) \/ Elsewhere(CyclePrev(ok))
    \/ \E ok \in BOOLEAN : RestartWithoutIdentity(ok)
    \/ Elsewhere(Pause) \/ Elsewhere(FocusOut) \/ Elsewhere(Compose)
    \/ Elsewhere(ToggleMode) \/ Elsewhere(Commit)
    \/ \E conf \in Configs \cup {config}, ok \in BOOLEAN :
          Elsewhere(ReloadConfig(conf, ok))
    \/ \E e \in Announcing, ok, done \in BOOLEAN : Elsewhere(DeployRime(e, ok, done))

MemorySpec == MemoryInit /\ [][MemoryNext]_memoryVars

-----------------------------------------------------------------------------
(* Properties.                                                             *)

\* The memory of an application is an engine with a mode announced while
\* that engine was active, or part of it.
MemoryTypeOK ==
    /\ identity \in Apps \cup {NoApp}
    /\ memory \in [Apps -> [engine : Keyboards \cup {NoEngine},
                            mode_engine : Keyboards \cup {NoEngine},
                            mode : ModeNames]]

\* Whoever switches the keyboard engine, by chord, tray, bus, reload or
\* focus, the application in focus gets it back next time (app.c:338); the
\* switch forgets the mode of the engine it leaves (identity.c:204), and
\* never reaches the memory of another application, the one that was
\* focused before above all (wl_input_method.c:403).
SwitchIsRemembered ==
    [][/\ mgr'.keyboard # mgr.keyboard /\ identity' # NoApp /\ config'.prefs =>
            /\ memory'[identity'].engine = mgr'.keyboard
            /\ memory'[identity'].mode_engine \in {NoEngine, mgr'.keyboard}
       /\ \A a \in Apps \ {identity'} :
            memory'[a].engine = memory[a].engine]_memoryVars

\* Focusing an application brings back its engine, unless that engine
\* cannot be activated any more (identity.c:641).
FocusRestoresEngine ==
    [][\A a \in Apps :
         /\ ~mgr.focused /\ mgr'.focused /\ identity' = a
         /\ config.prefs /\ memory[a].engine # NoEngine
         => mgr'.keyboard = memory[a].engine \/ mgr'.result = "error"]_memoryVars

------------------------------------------------------------------------------
(* What the comments and documents say, and the code does not do.          *)

\* Focusing an application brings back the mode remembered with its engine
\* (control/control_ui.c:243; data/typio.toml.example:7).
FocusRestoresMode ==
    [][\A a \in Apps :
         /\ ~mgr.focused /\ mgr'.focused /\ identity' = a /\ config.prefs
         /\ memory[a].engine \in Moded
         /\ memory[a].mode[1] = memory[a].engine
         /\ mgr'.keyboard = memory[a].engine
         => ModeOf(mgr', mgr'.keyboard) = memory[a].mode]_memoryVars

=============================================================================
