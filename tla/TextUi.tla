------------------------------- MODULE TextUi -------------------------------
(***************************************************************************)
(* What the user sees of a composition: the preedit in the application and *)
(* the candidate panel.                                                    *)
(*                                                                         *)
(* Engines change the composition in the input context and the context     *)
(* marks an update pending; the event loop flushes it, once per turn       *)
(* (wl_input_method.c, text_ui_state.c).  The panel lays a list out, keeps *)
(* the layouts in an LRU cache, and presents frames that the GPU draws     *)
(* later, so what a frame uses is parked in a ring of slots and freed some *)
(* presents after (popup/candidate_panel.cc, candidate_panel_layout.cc).   *)
(* The GPU, the compositor and flux, the drawing library, are external.    *)
(*                                                                         *)
(* A row's four layouts are one resource and a geometry's own layouts      *)
(* another; resources are numbers.  Sizes, colours and strings are not     *)
(* modelled: a style stands for scale, palette and fonts.                  *)
(***************************************************************************)
EXTENDS Integers, Sequences, FiniteSets, SequencesExt

CONSTANTS
    Compositions,   \* records [list, preedit]: the rows' texts and the preedit
    Modes,          \* mode labels
    Statuses,       \* voice status texts
    Styles,
    MaxRows,        \* POPUP_MAX_ROWS
    CacheSize,      \* POPUP_LAYOUT_CACHE_CAP
    Depth,          \* POPUP_RETIRE_DEPTH
    SlotMax,        \* POPUP_RETIRE_SLOT_MAX
    FramesInFlight, \* flux's frames_in_flight
    RecoverStreak,  \* POPUP_PRESENT_RECOVER_STREAK
    MaxEvents,      \* bound: what users, engines and the compositor do
    None

Idle == [list |-> <<>>, preedit |-> None]

\* The rows' texts, and the layouts of a list: a geometry
Texts == UNION {ToSet(c.list) : c \in Compositions}
Geometries == [list : Seq(Texts), aux : Statuses \cup {None}, mode : Modes, style : Styles,
               rows : SUBSET Nat, own : SUBSET Nat]

\* The cache holds the rows of one list, and the ring of retired layouts is as
\* long as the GPU's queue of frames; an idle context is a composition
ASSUME BoundsAssumption ==
    /\ MaxRows \in Nat \ {0} /\ CacheSize \in Nat /\ CacheSize >= MaxRows
    /\ {Depth, SlotMax, FramesInFlight, RecoverStreak} \subseteq Nat \ {0}
    /\ FramesInFlight <= Depth

ASSUME DataAssumption ==
    /\ Compositions \subseteq [list : Seq(Texts), preedit : {c.preedit : c \in Compositions}]
    /\ Idle \in Compositions /\ None \notin Modes \cup Statuses \cup Styles \cup Geometries

VARIABLES
    ctx,        \* the input context: [focused, comp, selected]
    mode,       \* typio_instance_get_last_mode
    tracking,   \* the session's [last, pending]; and what it does not know, until
                \* a preedit is sent: the application's went (stale), the field is
                \* another one and was given none (cut)
    app,        \* the preedit the application shows
    events,     \* bound counter
    panel       \* TypioWlCandidatePanel, with the GPU's frames and the screen

vars == <<ctx, mode, tracking, app, panel, events>>

-----------------------------------------------------------------------------
(* GPU resources.                                                          *)

Free(p, ids) == [p EXCEPT !.live = @ \ ids]

\* flux_device_wait_idle
WaitIdle(p) == [p EXCEPT !.flights = <<>>]

\* retire_slot_drain
Drain(p, s) == [Free(p, p.ring[s]) EXCEPT !.ring[s] = {}]

Cached(p) == {e.id : e \in ToSet(p.cache)}
OwnedBy(g) == IF g = None THEN {} ELSE g.own
Uses(g) == IF g = None THEN {} ELSE g.rows \cup g.own

\* A name no resource has that is alive or still referenced
Unused(p) ==
    LET used == p.live \cup (UNION {f.uses : f \in ToSet(p.flights)}) \cup Uses(p.geom)
    IN  CHOOSE i \in 1 .. Cardinality(used) + 1 :
            i \notin used /\ 1 .. i - 1 \subseteq used

\* retire_geometry, popup_retire_layout: parked for Depth presents; a full slot
\* is emptied behind a fence
Retire(p, ids) ==
    IF ~p.ready THEN Free(p, ids)
    ELSE LET s == p.epoch
             q == IF Cardinality(p.ring[s]) >= SlotMax THEN Drain(WaitIdle(p), s) ELSE p
         IN  [q EXCEPT !.ring[s] = @ \cup ids]

-----------------------------------------------------------------------------
(* Layout.                                                                 *)

\* Defect: an evicted layout is lost
EvictForgets(p) == [p EXCEPT !.cache = Tail(@)]

\* The eviction of lru_get_or_create
Evict(p) == [Retire(p, {Head(p.cache).id}) EXCEPT !.cache = Tail(@)]

\* lru_get_or_create, for each of some panels: the cache is ordered by use, the
\* oldest entry first
GetOrCreate(panels, key) ==
    LET hits(p) == {i \in DOMAIN p.cache : p.cache[i].key = key}
        used(p, i) == [p EXCEPT !.cache = Append(RemoveAt(@, i), @[i])]
        loaded(p) == [p EXCEPT !.cache = Append(@, [key |-> key, id |-> Unused(p)]),
                               !.live = @ \cup {Unused(p)}]
    IN  UNION {IF hits(p) # {} THEN {used(p, i) : i \in hits(p)}
               ELSE {loaded(IF Len(p.cache) = CacheSize THEN Evict(p) ELSE p)} : p \in panels}

\* A geometry with its own preedit and mode layouts replaces the current one
Replace(p, list, aux, rows) ==
    {[q EXCEPT !.geom = [list |-> list, aux |-> aux, mode |-> mode, style |-> p.style,
                         rows |-> rows, own |-> {Unused(p)}],
               !.live = @ \cup {Unused(p)}] : q \in {Retire(p, OwnedBy(p.geom))}}

\* popup_geometry_compute: the rows borrow their layouts from the cache
Compute(p, list, aux) ==
    LET keys == [i \in DOMAIN list |-> <<list[i], p.style>>]
    IN  UNION {Replace(q, list, aux, {e.id : e \in {x \in ToSet(q.cache) : x.key \in ToSet(keys)}}) :
                  q \in FoldLeft(GetOrCreate, {p}, keys)}

\* popup_render_ctx_invalidate: at once, and without the evict callback
InvalidateCache(p) == [Free(p, Cached(p)) EXCEPT !.cache = <<>>]

\* The change of style of popup_render, which waits for no frame; the frames in
\* flight are marked
Restyle(p) == [InvalidateCache(p) EXCEPT
                  !.flights = [i \in DOMAIN @ |-> [@[i] EXCEPT !.restyled = TRUE]]]

\* classify_delta
Delta(p, list, aux) ==
    CASE p.geom = None -> "content"
      [] p.geom # None /\ p.geom.style # p.style -> "style"
      [] p.geom # None /\ p.geom.style = p.style /\ p.geom.list # list -> "content"
      [] p.geom # None /\ p.geom.style = p.style /\ p.geom.list = list ->
            IF <<p.geom.aux, p.geom.mode>> # <<aux, mode>> THEN "aux" ELSE "selection"

\* The new layout of popup_render, or none: too many rows.  An auxiliary text
\* of another size needs a geometry of its own
Relaid(p, delta, list, aux) ==
    LET computed(q) == IF Len(list) > MaxRows THEN {} ELSE Compute(q, list, aux)
    IN  CASE delta = "selection" -> {p}
          [] delta = "aux" -> Replace(p, list, aux, p.geom.rows) \cup computed(p)
          [] delta = "style" -> computed(Restyle(p))
          [] delta = "content" -> computed(p)

-----------------------------------------------------------------------------
(* Presenting.                                                             *)

\* Defect: the slot is emptied before the ring moves on
AdvanceLate(p) == [Drain(p, p.epoch) EXCEPT !.epoch = (@ + 1) % Depth]

\* A frame was presented: the ring moves on, and its next slot is emptied
Advance(p) == Drain([p EXCEPT !.epoch = (@ + 1) % Depth], (p.epoch + 1) % Depth)

\* popup_present and what popup_render makes of its result.  begin_frame waits
\* for the frame whose place it takes, resizing waits for all of them
Present(p, selected) ==
    LET frame == [uses |-> Uses(p.geom), restyled |-> FALSE]
        begun == IF Len(p.flights) = FramesInFlight THEN Tail(p.flights) ELSE p.flights
        ready == [p EXCEPT !.ready = TRUE]
        ok == Advance([ready EXCEPT !.flights = Append(begun, frame), !.streak = 0,
                                    !.selected = selected, !.visible = TRUE, !.screen = p.geom.list])
        timeout == IF p.streak + 1 >= RecoverStreak
                   THEN [WaitIdle(ready) EXCEPT !.streak = 0, !.retry = TRUE]
                   ELSE [ready EXCEPT !.streak = @ + 1, !.retry = TRUE]
        lost == [WaitIdle(ready) EXCEPT !.streak = 0, !.retry = TRUE]
        failed == [ready EXCEPT !.flights = Append(begun, frame), !.streak = 0]
    IN  {ok, timeout, lost, ready, failed, p}

\* popup_render.  A list that cannot be laid out leaves everything as it was,
\* the invalidated cache of a new style excepted
Render(p, list, selected, aux) ==
    LET q == [p EXCEPT !.retry = FALSE]
        delta == Delta(p, list, aux)
        laid == Relaid(q, delta, list, aux)
    IN  IF delta = "selection" /\ selected = p.selected /\ p.visible THEN {q}
        ELSE IF laid = {} THEN {IF delta = "style" THEN Restyle(q) ELSE q}
        ELSE UNION {Present(r, selected) : r \in laid}

\* hide_surface: nothing to do for a panel that is not visible
Hide(p) ==
    IF ~p.visible THEN p
    ELSE [Retire(p, OwnedBy(p.geom)) EXCEPT
             !.visible = FALSE, !.selected = -1, !.retry = FALSE, !.screen = None, !.geom = None]

\* typio_wl_candidate_panel_update_content: candidates before the status
UpdateContent(p, list, selected) ==
    IF list = <<>> /\ p.status = None THEN {Hide(p)}
    ELSE IF list = <<>> THEN Render(p, list, -1, p.status)
    ELSE Render(p, list, selected, None)

NewPanel(style) ==
    [style |-> style, visible |-> FALSE, selected |-> -1, geom |-> None, retry |-> FALSE, streak |-> 0,
     status |-> None, ready |-> FALSE, screen |-> None, cache |-> <<>>, epoch |-> 0,
     ring |-> [s \in 0 .. Depth - 1 |-> {}], flights |-> <<>>, live |-> {}]

-----------------------------------------------------------------------------
(* The session.                                                            *)

\* typio_wl_text_ui_reset_tracking
NoTracking == [last |-> None, pending |-> FALSE, stale |-> FALSE, cut |-> FALSE]

\* Defect: the deferred update survives
ResetKeepsLast == [tracking EXCEPT !.pending = FALSE]

ResetTracking == NoTracking

Event == events < MaxEvents /\ events' = events + 1

\* The engine changes the composition, the selection or both:
\* set_composition, clear and on_composition_callback
Compose ==
    /\ ctx.focused
    /\ \E c \in Compositions :
          \E s \in IF c.list = <<>> THEN {-1} ELSE DOMAIN c.list :
              /\ <<c, s>> # <<ctx.comp, ctx.selected>>
              /\ ctx' = [ctx EXCEPT !.comp = c, !.selected = s]
    /\ tracking' = [tracking EXCEPT !.pending = TRUE]
    /\ Event
    /\ UNCHANGED <<mode, app, panel>>

\* typio_input_context_commit and on_commit_callback, by an engine or by the
\* voice session, whatever the focus
Commit ==
    /\ ctx' = [ctx EXCEPT !.comp = Idle, !.selected = -1]
    /\ app' = None
    /\ panel' = Hide(panel)
    /\ tracking' = ResetTracking
    /\ Event
    /\ UNCHANGED mode

\* activate and done: a new field, which shows no preedit
FocusIn ==
    /\ ~ctx.focused
    /\ ctx' = [ctx EXCEPT !.focused = TRUE]
    /\ tracking' = ResetTracking
    /\ app' = None
    /\ Event
    /\ UNCHANGED <<mode, panel>>

\* The same while the context is focused: the composition goes on
Reactivate ==
    /\ ctx.focused
    /\ tracking' = [ResetTracking EXCEPT !.cut = tracking.pending \/ ctx.comp.preedit # None]
    /\ app' = None
    /\ Event
    /\ UNCHANGED <<ctx, mode, panel>>

\* Defect: the panel is left to the next update
FocusOutKeepsPanel ==
    /\ ctx.focused
    /\ ctx' = [focused |-> FALSE, comp |-> Idle, selected |-> -1]
    /\ tracking' = [ResetTracking EXCEPT !.pending = TRUE]
    /\ app' = None
    /\ Event
    /\ UNCHANGED <<mode, panel>>

\* transition_to_inactive: the reset of the context marks an update pending
\* again, which waits for a focused context
FocusOut ==
    /\ ctx.focused
    /\ ctx' = [focused |-> FALSE, comp |-> Idle, selected |-> -1]
    /\ tracking' = [ResetTracking EXCEPT !.pending = TRUE]
    /\ app' = None
    /\ panel' = Hide(panel)
    /\ Event
    /\ UNCHANGED mode

\* typio_wl_lifecycle_on_resume: the application's preedit goes, the
\* composition and the tracking stay
Scrub ==
    /\ app' = None
    /\ tracking' = [tracking EXCEPT !.stale = @ \/ tracking.last # None]
    /\ Event
    /\ UNCHANGED <<ctx, mode, panel>>

\* typio_wl_frontend_reconnect: the panel is destroyed and another one made;
\* context and tracking stay
Reconnect ==
    /\ app' = None
    /\ tracking' = [tracking EXCEPT !.stale = @ \/ tracking.last # None]
    /\ panel' = NewPanel(panel.style)
    /\ Event
    /\ UNCHANGED <<ctx, mode>>

\* Defect: a composition without candidates only hides the panel
FlushPanelOnly ==
    /\ tracking.pending /\ ctx.focused
    /\ \E p \in UpdateContent(panel, ctx.comp.list, ctx.selected) :
          /\ panel' = p
          /\ tracking' = [tracking EXCEPT !.pending = p.retry]
    /\ UNCHANGED <<ctx, mode, app, events>>

\* event_loop_flush_pending_popup and update_wayland_text_ui: a preedit that is
\* the one sent last is not sent again
Flush ==
    /\ tracking.pending /\ ctx.focused
    /\ LET preedit == ctx.comp.preedit
           sent == preedit # tracking.last
       IN  /\ \E p \in UpdateContent(panel, ctx.comp.list, ctx.selected) :
                 /\ panel' = p
                 /\ tracking' = [last |-> preedit, pending |-> p.retry,
                                 stale |-> tracking.stale /\ ~sent, cut |-> tracking.cut /\ ~sent]
           /\ app' = IF sent THEN preedit ELSE app
    /\ UNCHANGED <<ctx, mode, events>>

-----------------------------------------------------------------------------
(* The other callers of the panel.                                         *)

\* typio_wl_text_ui_backend_show_status: the voice session's state, or why
\* there is none, over the candidates
ShowStatus ==
    /\ \E s \in Statuses : panel' \in UpdateContent([panel EXCEPT !.status = s], <<>>, -1)
    /\ Event
    /\ UNCHANGED <<ctx, mode, tracking, app>>

\* typio_wl_text_ui_backend_hide_status
HideStatus ==
    /\ panel' \in UpdateContent([panel EXCEPT !.status = None], <<>>, -1)
    /\ Event
    /\ UNCHANGED <<ctx, mode, tracking, app>>

\* The mode changes; the panel shows it with its next update
ModeChanges ==
    /\ mode' \in Modes \ {mode}
    /\ Event
    /\ UNCHANGED <<ctx, tracking, app, panel>>

\* typio_wl_candidate_panel_invalidate_config, on a reload
InvalidateConfig ==
    /\ LET parked == UNION {panel.ring[s] : s \in DOMAIN panel.ring}
           p == IF panel.ready
                THEN [WaitIdle(panel) EXCEPT !.ring = [s \in DOMAIN @ |-> {}], !.live = @ \ parked]
                ELSE panel
       IN  \E s \in Styles :
              panel' = [Free(InvalidateCache(p), OwnedBy(p.geom)) EXCEPT !.geom = None, !.style = s]
    /\ Event
    /\ UNCHANGED <<ctx, mode, tracking, app>>

\* The preferred scale, an output's or the outputs the panel is on: a visible
\* panel is updated (refresh_visible), and no flush follows a frame it skips
ScaleChanges ==
    /\ \E s \in Styles \ {panel.style} :
          LET p == [panel EXCEPT !.style = s]
          IN  IF panel.visible THEN panel' \in UpdateContent(p, ctx.comp.list, ctx.selected)
              ELSE panel' = p
    /\ Event
    /\ UNCHANGED <<ctx, mode, tracking, app>>

\* The GPU is done with its oldest frame
GpuFinishes ==
    /\ panel.flights # <<>>
    /\ panel' = [panel EXCEPT !.flights = Tail(@)]
    /\ UNCHANGED <<ctx, mode, tracking, app, events>>

-----------------------------------------------------------------------------

Init ==
    /\ ctx = [focused |-> FALSE, comp |-> Idle, selected |-> -1]
    /\ mode \in Modes
    /\ tracking = NoTracking
    /\ app = None /\ events = 0
    /\ \E s \in Styles : panel = NewPanel(s)

Next ==
    \/ Compose \/ Commit \/ FocusIn \/ Reactivate \/ FocusOut \/ Scrub \/ Reconnect
    \/ ShowStatus \/ HideStatus \/ ModeChanges \/ InvalidateConfig \/ ScaleChanges
    \/ Flush \/ GpuFinishes

\* The event loop flushes a pending update at its next turn
Spec == Init /\ [][Next]_vars /\ WF_vars(Flush)

-----------------------------------------------------------------------------
(* Properties.                                                             *)

\* Every resource alive has one owner, the cache, a slot of the ring or the
\* current geometry, and every owner's is alive: none is lost and none is freed
\* twice, whatever is evicted, replaced, hidden or invalidated (the retire ring
\* of candidate_panel.cc)
ResourcesAreOwned ==
    LET cached == Cached(panel)
        own == OwnedBy(panel.geom)
        parked == UNION {panel.ring[s] : s \in DOMAIN panel.ring}
    IN  /\ panel.live = cached \cup own \cup parked
        /\ cached \cap own = {} /\ parked \cap (cached \cup own) = {}
        /\ \A s, t \in DOMAIN panel.ring : s # t => panel.ring[s] \cap panel.ring[t] = {}

\* What a frame in flight draws is not freed under it, on every path but the
\* change of style: evictions, replaced and hidden geometries and full slots
\* wait for the GPU (POPUP_RETIRE_DEPTH)
FramesKeepTheirLayouts ==
    \A f \in ToSet(panel.flights) : f.restyled \/ f.uses \subseteq panel.live

\* The preedit that was sent last is the one the application shows, so that an
\* update is skipped only when it changes nothing; except after a resume or a
\* reconnect took it away (typio_wl_text_ui_plan_update)
TrackingIsTrue == ctx.focused /\ ~tracking.stale => tracking.last = app

\* An application without focus is offered no candidates: no order of late
\* updates, status texts, scale changes and skipped frames brings back those of
\* the field that was left (transition_to_inactive)
CandidatesNeedFocus == ~ctx.focused /\ panel.screen # None => panel.screen = <<>>

\* Every change of the composition reaches the application, unless focus goes
\* or is given again, or a resume or a reconnect comes in between
\* (popup_update_pending)
PreeditReachesApp ==
    (ctx.focused /\ tracking.pending)
        ~> (app = ctx.comp.preedit \/ ~ctx.focused \/ tracking.stale \/ tracking.cut)

-----------------------------------------------------------------------------
(* What the comments say.                                                  *)

\* "the event loop keeps retrying until the visible highlight catches up with
\* the committed selection": with no update pending a panel that is on screen
\* shows the context's candidates (wl_input_method.c)
PanelCatchesUp ==
    ctx.focused /\ ~tracking.pending /\ ~tracking.cut /\ panel.visible /\ panel.status = None
        => panel.screen = ctx.comp.list

\* The paths that free the cache's layouts "are only called when the caller has
\* already drained in-flight GPU work" (candidate_panel_layout.cc)
CacheFreedBehindFence == \A f \in ToSet(panel.flights) : f.uses \subseteq panel.live

=============================================================================
