---------------------------- MODULE StatusSurfaces ----------------------------
(***************************************************************************)
(* Where the engines' state is shown: the state controller                 *)
(* (state/controller.c), the daemon's callbacks that feed it (app.c), the  *)
(* status service on the socket and on D-Bus (state/service.c, ipc_bus.c,  *)
(* state/dbus.c), and the tray item with its menu and its registration     *)
(* (tray/sni.c, tray/bus.c), composed with the engine manager.             *)
(*                                                                         *)
(* Every action of the manager but a commit is one here, reached as the    *)
(* tray or the bus reaches it.  The callbacks a handler made, mgr.events,  *)
(* go to the controller in their order; each makes it broadcast, the item  *)
(* is set from the controller's cache and the clients are sent a snapshot  *)
(* of the properties, read from the manager at that moment.                *)
(*                                                                         *)
(* The desktop's side is external: a watcher owns the name                 *)
(* StatusNotifierWatcher, may leave, come back or hand the name over, and  *)
(* shows a panel.  Messages of one sender arrive in order.                 *)
(*                                                                         *)
(* Abstractions.  One broadcast sends NewIcon, LayoutUpdated, NewToolTip   *)
(* together and the panel fetches everything they stand for together.  The *)
(* properties are those the engines and the configuration determine; of    *)
(* the latter (ConfigText, EngineOrder and what follows from them) told    *)
(* keeps only whether they are those of the configuration in force.        *)
(***************************************************************************)
EXTENDS EngineManager

CONSTANTS
    MaxMenu,      \* engines the menu lists (10 in the code)
    MaxSignals    \* bound on undispatched NameOwnerChanged signals

ASSUME SurfacesAssumption == MaxMenu \in Nat \ {0} /\ MaxSignals \in Nat \ {0}

VARIABLES
    item,        \* the controller's cache and what the tray item answers
    told,        \* the properties as the last PropertiesChanged gave them
    registered,  \* TypioTray.registered
    signals,     \* NameOwnerChanged signals the daemon has not dispatched
    watcher,     \* external: who owns the watcher's name
    panel,       \* external: what the desktop shows of the item
    stale        \* external: the panel was told to fetch and has not yet

external == <<watcher, panel, stale>>
surfaceVars == <<vars, item, told, registered, signals, external>>

-----------------------------------------------------------------------------
(* The controller, the item and the clients.                               *)

DefaultIcon == <<NoEngine, "icon">>

\* The icon of the mode, else the engine's own, else the default
IconOf(engine, mode) ==
    IF mode # NoMode THEN mode
    ELSE IF engine # NoEngine THEN <<engine, "icon">> ELSE DefaultIcon

\* typio_state_controller_sync
Synced(m) == [engine |-> m.keyboard, voice |-> m.voice,
              icon |-> IconOf(m.keyboard, m.last_mode)]

\* Defect: the icon of the last mode survives a switch
NotifyKeepsIcon(cache, event) ==
    CASE event.kind = "engine" -> [cache EXCEPT !.engine = event.engine]
      [] event.kind = "voice" -> [cache EXCEPT !.voice = event.what]
      [] event.kind = "mode" -> [cache EXCEPT !.icon = event.what]

\* typio_state_controller_notify_*: a mode brings its icon with it
Notify(cache, event) ==
    CASE event.kind = "engine" ->
            [cache EXCEPT !.engine = event.engine,
                          !.icon = IconOf(event.engine, event.mode)]
      [] event.kind = "voice" -> [cache EXCEPT !.voice = event.what]
      [] event.kind = "mode" -> [cache EXCEPT !.icon = event.what]

\* The cache after a handler's callbacks, in their order
Notified(cache, events) == FoldLeft(Notify, cache, events)

\* What the builders of the service read from the manager
ActiveEngines(engine, voice) == [engine |-> engine, voice |-> voice]

\* typio_status_service_get_all_json, at some moment of a handler
ServiceProperties(engine, voice, mode, current) ==
    [active |-> ActiveEngines(engine, voice), mode |-> mode,
     current |-> current]

\* append_property_variant reads the manager a second time
DBusProperties(engine, voice, mode, current) ==
    [engine |-> engine, voice |-> voice, mode |-> mode, current |-> current]

\* Both transports send all they have
Sent(engine, voice, mode, current) ==
    [socket |-> ServiceProperties(engine, voice, mode, current),
     dbus |-> DBusProperties(engine, voice, mode, current)]

SentOf(m) == Sent(m.keyboard, m.voice, m.last_mode, TRUE)

\* The properties that follow from a configuration: are they those in force
ConfigurationProperties(conf) == conf = config'

\* Nothing is sent: the clients keep what they have
Silence ==
    LET still == told.dbus.current /\ config' = config
    IN  [told EXCEPT !.socket.current = still, !.dbus.current = still]

\* The last of the snapshots broadcast while a handler ran, under the
\* configuration conf
Heard(events, conf) ==
    IF events = <<>> THEN Silence
    ELSE LET last == Last(events)
         IN  Sent(last.engine, last.voice, last.mode,
                  ConfigurationProperties(conf))

\* Defect: an update of the item that keeps the engine is not announced
BroadcastEngine == stale' = (stale \/ (registered /\ item'.engine # item.engine))

\* typio_daemon_sync_runtime_surfaces sent the item's signals; an
\* unregistered item sends none
Broadcast == stale' = (stale \/ registered)

-----------------------------------------------------------------------------
(* Handlers of the manager, seen from the surfaces.                        *)

\* Snapshots of a handler are taken under the configuration conf
ShownUnder(action, conf) ==
    /\ action
    /\ item' = Notified(item, mgr'.events)
    /\ told' = Heard(mgr'.events, conf)
    /\ IF mgr'.events = <<>> THEN stale' = stale ELSE Broadcast
    /\ UNCHANGED <<registered, signals, watcher, panel>>

Shown(action) == ShownUnder(action, config)

\* ActivateEngine sets default_engine when its broadcasts are out already
BusActivates(e, ok) == ShownUnder(ActivateEngine(e, ok), config)

\* ReloadConfig, SetConfigText, SetRimeSchema and the watch on typio.toml:
\* the new configuration is in place before the engines are told
ConfigurationReloads(conf, ok) == ShownUnder(ReloadConfig(conf, ok), conf)

\* Rime's entries of the tray menu end with a sync of the controller, which
\* broadcasts whatever happened
SyncedAfter(action) ==
    /\ action
    /\ item' = Synced(mgr')
    /\ told' = SentOf(mgr')
    /\ Broadcast
    /\ UNCHANGED <<registered, signals, watcher, panel>>

MenuEntries ==
    SubSeq(OrderedKeyboards(config.order), 1,
           IF MaxMenu < Cardinality(Keyboards) THEN MaxMenu
           ELSE Cardinality(Keyboards))

RimeMenu == item.engine \in Announcing /\ mgr.keyboard = item.engine

\* handle_menu_event: an entry is found by its place in the order of now
MenuClick(i, ok) ==
    /\ i \in DOMAIN panel.entries /\ i \in DOMAIN MenuEntries
    /\ Shown(Select(MenuEntries[i], ok))

\* rime-schema: the schema is saved, then the configuration is reloaded
RimeSchemaClick(ok) ==
    /\ panel.rime /\ RimeMenu
    /\ SyncedAfter(ReloadConfig(config, ok))

RimeDeployClick(e, ok, done) ==
    /\ panel.rime
    /\ IF DeployFails(e, ok) THEN Shown(DeployRime(e, ok, done))
       ELSE SyncedAfter(DeployRime(e, ok, done))

-----------------------------------------------------------------------------
(* The watcher and the panel.                                              *)

NoPanel == [icon |-> DefaultIcon, mark |-> NoEngine, voice |-> NoEngine,
            entries |-> <<>>, rime |-> FALSE]

\* gap: the owner came after a time without one; refused: it did not answer
\* the last registration in time; late: it took the item in all the same
Absent == [owner |-> FALSE, gap |-> TRUE, aware |-> FALSE, refused |-> FALSE,
           late |-> FALSE]

Signal(name) ==
    /\ Len(signals) < MaxSignals
    /\ signals' = Append(signals, name)

\* typio_tray_sni_register waits a second for the answer: without an owner
\* it fails, and an owner that is slow may still take the item in
Register(s, ok, late) ==
    LET owner == s.watcher.owner
    IN  [registered |-> owner /\ ok,
         watcher |-> [s.watcher EXCEPT
                        !.aware = @ \/ (owner /\ (ok \/ late)),
                        !.refused = owner /\ ~ok,
                        !.late = @ \/ (~ok /\ (s.watcher.aware \/ (owner /\ late)))]]

\* Defect: a watcher that leaves is not noted
FilterAppearances(s, signal, ok, late) ==
    IF signal = "appeared" /\ ~s.registered THEN Register(s, ok, late) ELSE s

\* tray_bus_filter on NameOwnerChanged
Filter(s, signal, ok, late) ==
    IF signal = "left" THEN [s EXCEPT !.registered = FALSE]
    ELSE IF ~s.registered THEN Register(s, ok, late) ELSE s

\* The signals in their order; oks are the answers to the registrations
Filtered(s, oks, late) ==
    FoldLeft(LAMBDA r, i : Filter(r, signals[i], oks[i], late), s,
             [i \in DOMAIN signals |-> i])

\* typio_tray_dispatch: all that has arrived, in one round of the loop.  The
\* blocking registration receives what was sent before its answer as well.
OwnerChanged ==
    /\ signals # <<>> /\ signals' = <<>>
    /\ \E oks \in [DOMAIN signals -> BOOLEAN], late \in BOOLEAN :
          LET done == Filtered([registered |-> registered, watcher |-> watcher], oks, late)
          IN  registered' = done.registered /\ watcher' = done.watcher
    /\ stale' = (stale \/ watcher'.aware # watcher.aware)
    /\ UNCHANGED <<vars, item, told, panel>>

\* The owner takes its panel with it; a successor that waited for the name
\* gets it at once
WatcherLeaves ==
    /\ watcher.owner
    /\ \/ Signal("left") /\ watcher' = Absent
       \/ Signal("appeared") /\ watcher' = [Absent EXCEPT !.owner = TRUE, !.gap = FALSE]
    /\ panel' = NoPanel /\ stale' = FALSE
    /\ UNCHANGED <<vars, item, told, registered>>

WatcherComes ==
    /\ ~watcher.owner
    /\ Signal("appeared")
    /\ watcher' = [Absent EXCEPT !.owner = TRUE]
    /\ UNCHANGED <<vars, item, told, registered, panel, stale>>

\* GetAll and GetLayout
View == [icon |-> item.icon, mark |-> item.engine, voice |-> item.voice,
         entries |-> MenuEntries, rime |-> RimeMenu]

PanelFetches ==
    /\ watcher.aware /\ stale
    /\ panel' = View /\ stale' = FALSE
    /\ UNCHANGED <<vars, item, told, registered, signals, watcher>>

-----------------------------------------------------------------------------

\* typio_tray_new: a fresh connection, and one attempt to register
TrayStarts(w, ok) ==
    /\ watcher' = [w EXCEPT !.aware = w.owner /\ ok, !.refused = w.owner /\ ~ok,
                            !.late = FALSE]
    /\ registered' = (w.owner /\ ok) /\ stale' = (w.owner /\ ok)
    /\ signals' = <<>> /\ panel' = NoPanel

\* typio_daemon_app_run: tray and buses, then the sync.  A client starts
\* with GetAll.
SurfacesInit ==
    /\ Init
    /\ item = Synced(mgr) /\ told = SentOf(mgr)
    /\ signals = <<>> /\ panel = NoPanel
    /\ \E owner, ok \in BOOLEAN :
          /\ watcher = [Absent EXCEPT !.owner = owner, !.aware = owner /\ ok,
                                      !.refused = owner /\ ~ok]
          /\ registered = (owner /\ ok)
    /\ stale = registered

\* The menu's Restart and Quit, the bus's Stop, a crash: the connection
\* closes, the panel drops the item, and the new process registers its own
RestartDaemon(ok) ==
    /\ Restart(ok)
    /\ item' = Synced(mgr') /\ told' = SentOf(mgr')
    /\ \E answered \in BOOLEAN : TrayStarts(watcher, answered)

\* handle_sni_method: a click or the wheel on the item
ItemMethods ==
    \E ok \in BOOLEAN : Shown(CycleNext(ok)) \/ Shown(CyclePrev(ok))

\* handle_menu_event
MenuEvents ==
    \/ \E i \in 1 .. MaxMenu, ok \in BOOLEAN : MenuClick(i, ok)
    \/ \E ok \in BOOLEAN : RimeSchemaClick(ok) \/ RestartDaemon(ok)
    \/ \E e \in Announcing, ok, done \in BOOLEAN : RimeDeployClick(e, ok, done)

\* The methods of the bus besides those above
BusMethods ==
    \/ \E e \in Engines, ok \in BOOLEAN : BusActivates(e, ok)
    \/ \E conf \in Configs \cup {config}, ok \in BOOLEAN : ConfigurationReloads(conf, ok)
    \/ \E e \in Announcing, ok, done \in BOOLEAN : Shown(DeployRime(e, ok, done))

\* What the frontend and the engines do meanwhile.  A commit is left out: it
\* calls nothing back, and the recent pair it writes only chooses among the
\* engines that the bus and the menu choose freely.
Use ==
    \/ Shown(Pause) \/ Shown(FocusIn) \/ Shown(FocusOut)
    \/ Shown(Compose) \/ Shown(ToggleMode)

SurfacesNext ==
    \/ ItemMethods \/ MenuEvents \/ BusMethods \/ Use
    \/ OwnerChanged \/ WatcherLeaves \/ WatcherComes \/ PanelFetches

\* The event loop dispatches the bus at every round; panels answer signals
SurfacesSpec ==
    /\ SurfacesInit /\ [][SurfacesNext]_surfaceVars
    /\ WF_surfaceVars(OwnerChanged) /\ WF_surfaceVars(PanelFetches)

-----------------------------------------------------------------------------
(* Properties.                                                             *)

\* Whatever handler ran, with its failed switches, restores and mode changes
\* half way, the tray item and the clients of both buses are left with the
\* engines, the mode and the icon of the manager (app.c:173).
SurfacesAgree ==
    /\ item = Synced(mgr)
    /\ [told EXCEPT !.socket.current = TRUE, !.dbus.current = TRUE] = SentOf(mgr)

\* A panel that fetched what it was told to marks and shows the engine the
\* daemon uses, unless its watcher took the item in after the daemon had
\* given up on it (tray/bus.c:47, sni.c:930).
PanelIsCurrent ==
    watcher.aware /\ ~watcher.late /\ ~stale =>
        /\ panel.mark = mgr.keyboard /\ panel.voice = mgr.voice
        /\ panel.icon = IconOf(mgr.keyboard, mgr.last_mode)

\* A watcher that comes after a time without one is given the item, however
\* its coming, the leaving of others and their dispatch interleave, unless
\* it fails to answer (tray/bus.c:68).
ItemReturns ==
    [](watcher.owner /\ watcher.gap
       => <>(watcher.aware \/ ~watcher.owner \/ ~watcher.gap \/ watcher.refused))

-----------------------------------------------------------------------------
(* What the documents say.                                                 *)

\* PropertiesChanged follows every method that modifies state, so clients
\* hold the configuration in force (docs/reference/dbus-interface.md:110,
\* docs/explanation/configuration-system.md:65).
ClientsHoldTheConfiguration == told.socket.current /\ told.dbus.current

=============================================================================
