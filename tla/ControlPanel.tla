----------------------------- MODULE ControlPanel -----------------------------
(***************************************************************************)
(* The configuration between its editors: typio-control                    *)
(* (control/control_config.c, control_ui.c, control_bind.c, main.c), the   *)
(* daemon's SetConfigText and ActivateEngine (state/dbus.c,                *)
(* state/service.c, core/src/instance/config_ops.rs), and the watch on     *)
(* typio.toml with its debounced reload (wayland/wl_runtime_config.c).     *)
(*                                                                         *)
(* The panel keeps a staged text, edited through its widgets, and the text *)
(* the daemon last gave it (committed); a timer submits the stage, one     *)
(* write at a time.  The daemon serves one request per step and its        *)
(* messages reach the panel in order; it may stop and be started again,    *)
(* and a save may fail.                                                    *)
(*                                                                         *)
(* Abstractions.  Six settings stand for the schema's kinds: the default   *)
(* engine (no widget), the engine order, the voice backend (shown from     *)
(* the running one), a number, a string with options and a shortcut.  The  *)
(* delays of the timers are left out: an armed timer may fire.             *)
(***************************************************************************)
EXTENDS Naturals, Sequences, FiniteSets, SequencesExt

CONSTANTS
    Keyboards,    \* the keyboard engines the daemon lists, in its order
    Backends,     \* the voice backends it lists
    Fonts,        \* sizes the spin button offers
    Shortcuts,    \* combinations the user may record
    NoText,       \* no configuration text
    Editable,     \* the settings the user edits in the panel
    MaxEdits,     \* bound on the user's edits
    MaxEvents     \* bound on edits from elsewhere, failed saves and restarts

ASSUME PanelAssumption ==
    /\ Keyboards \in Seq(STRING) /\ Backends \subseteq STRING
    /\ Fonts \subseteq Nat \ {0}
    /\ MaxEdits \in Nat /\ MaxEvents \in Nat

VARIABLES
    panel,      \* TypioControl
    request,    \* the SetConfigText calls the daemon has not served
    bus,        \* the daemon's messages the panel has not seen
    daemon,     \* [up, conf, text, voice]: its configuration and voice engine
    file,       \* typio.toml
    watch,      \* the inotify event and the reload timer
    spent       \* how much of each bound is used

vars == <<panel, request, bus, daemon, file, watch, spent>>

-----------------------------------------------------------------------------
(* Configurations and their texts.                                         *)

Unset == [engine |-> "unset", order |-> <<>>, voice |-> "unset",
          font |-> 0, theme |-> "unset", keys |-> "unset"]
Default == [Unset EXCEPT !.font = 1, !.theme = "auto", !.keys = "ctrl"]
Settings == DOMAIN Unset

\* typio_config_apply_defaults
WithDefaults(c) == [k \in Settings |-> IF c[k] = Unset[k] THEN Default[k] ELSE c[k]]

\* A text is a configuration and the line with its first quotation mark, with
\* the lines before it.  Settings outside a section come first; the entries of
\* a section, and those, stand in the order of a hash map: any order
TopLevel(c) == {k \in {"engine", "order", "voice"} : c[k] # Unset[k]}
Texts(c) == IF TopLevel(c) # {}
            THEN {[conf |-> c, first |-> k, early |-> {}] : k \in TopLevel(c)}
            ELSE {[conf |-> c, first |-> "theme", early |-> e] : e \in SUBSET {"font"}}

\* What a value cut short after its quotation mark is read as
Broken == <<"[">>
Cut == [engine |-> "", order |-> Broken, voice |-> "", theme |-> ""]

\* SetConfigText over D-Bus: the text goes between quotation marks as it is,
\* and is read back up to the first it holds itself
Received(t) == [k \in Settings |->
    IF k = t.first THEN Cut[k] ELSE IF k \in t.early THEN t.conf[k] ELSE Unset[k]]

\* typio_config_get_array_size: a string is no array
OrderOf(c) == IF c.order = Broken THEN <<>> ELSE c.order

-----------------------------------------------------------------------------
(* The panel's widgets.                                                    *)

NoChoice == "none"   \* nothing selected
Placeholder == "Press shortcut..."

Known(p) == IF p.cache = NoText THEN <<>> ELSE Keyboards

\* control_sync_form_from_buffer
FormOf(p, c) ==
    [font  |-> WithDefaults(c).font,
     theme |-> IF c.theme = "" THEN NoChoice ELSE WithDefaults(c).theme,
     keys  |-> WithDefaults(c).keys,
     voice |-> IF p.cache # NoText /\ c.voice \in Backends THEN c.voice ELSE NoChoice,
     order |-> IF Known(p) = <<>> THEN OrderOf(c)
               ELSE SelectSeq(OrderOf(c), LAMBDA k : k \in ToSet(Known(p)))]

\* control_sync_buffer_from_form, before it is rendered
Saved(c, form) ==
    [c EXCEPT !.font = form.font, !.keys = form.keys, !.order = form.order,
              !.theme = IF form.theme = NoChoice THEN @ ELSE form.theme,
              !.voice = IF form.voice = NoChoice THEN @ ELSE form.voice]

\* The voice backend shown: the running one, else the staged one
VoiceShown(p) ==
    LET staged == IF p.staged = NoText THEN "unset" ELSE p.staged.conf.voice
        v == IF p.cache.voice # NoChoice THEN p.cache.voice ELSE staged
    IN  IF v \in Backends THEN v ELSE NoChoice

\* control_replace_staged_config_text
Replaced(p, text) == [p EXCEPT !.staged = text, !.form = FormOf(p, text.conf)]

\* control_set_config_text
Seeded(p, text) ==
    LET pending == p.staged # NoText /\ p.committed # NoText /\ p.staged # p.committed
        q == [p EXCEPT !.seeded = TRUE, !.committed = text]
    IN  IF pending /\ p.staged # text THEN q ELSE Replaced(q, text)

\* control_refresh_from_proxy
Refreshed(p) ==
    IF p.cache = NoText THEN [p EXCEPT !.form.voice = NoChoice]
    ELSE Seeded([p EXCEPT !.form.voice = VoiceShown(p)], p.cache.text)

-----------------------------------------------------------------------------
(* The user edits.                                                         *)

Within(bound, max) == spent[bound] < max
Spend(bound) == spent' = [spent EXCEPT ![bound] = @ + 1]

\* Defect: an edit is staged before the daemon's text has come
StageUnseeded(p, form, changed) ==
    LET conf == Saved(IF p.staged = NoText THEN Unset ELSE p.staged.conf, form)
    IN  {[p EXCEPT !.form = form, !.staged = t, !.timer = TRUE,
                   !.unsent = [k \in {changed} |-> conf[k]] @@ @] : t \in Texts(conf)}

\* control_stage_form_change, with control_queue_autosave: the edited form is
\* written into the stage, once there is one.  changed: what was edited
StageFormChange(p, form, changed) ==
    IF ~p.seeded THEN {[p EXCEPT !.form = form]}
    ELSE LET conf == Saved(p.staged.conf, form)
         IN  {[p EXCEPT !.form = form, !.staged = t, !.timer = TRUE,
                        !.unsent = [k \in {changed} |-> conf[k]] @@ @] : t \in Texts(conf)}

\* control_engine_order_reorder_to: place the engine before or after another
Reordered(s) ==
    {InsertAt(RemoveAt(s, i), j, s[i]) : i \in DOMAIN s, j \in DOMAIN s} \ {s}

\* The engine order editor: the order shown is made the custom one
\* (control_materialize_current_engine_order), then changed
OrderEdits(p) ==
    LET custom == p.form.order
        shown == IF custom = <<>> THEN Known(p) ELSE custom
    IN  {<<>>} \cup Reordered(shown)
        \cup {Append(shown, k) : k \in ToSet(Known(p)) \ ToSet(custom)}
        \cup {RemoveAt(shown, i) : i \in DOMAIN shown}

\* What the user can make of the form in one edit of a setting
Edits(p, k) ==
    CASE k = "font"  -> {[p.form EXCEPT !.font = f] : f \in Fonts}
      [] k = "theme" -> {[p.form EXCEPT !.theme = v] : v \in {"auto", "dark"}}
      [] k = "voice" -> {[p.form EXCEPT !.voice = v] :
                            v \in IF p.cache = NoText THEN {} ELSE Backends}
      [] k = "order" -> {[p.form EXCEPT !.order = o] : o \in OrderEdits(p)}
      [] k = "keys"  -> {[p.form EXCEPT !.keys = c] : c \in IF p.recording THEN Shortcuts ELSE {}}

\* The change handlers of the widgets, and shortcut_key_pressed
UserEdits(k) ==
    /\ Within("edits", MaxEdits)
    /\ \E form \in Edits(panel, k) \ {panel.form} :
          \E p \in StageFormChange(panel, form, k) :
             panel' = [p EXCEPT !.recording = IF k = "keys" THEN FALSE ELSE @]
    /\ Spend("edits")
    /\ UNCHANGED <<request, bus, daemon, file, watch>>

\* shortcut_btn_clicked: record, or cancel and show the stage again
ShortcutClicked ==
    /\ "keys" \in Editable /\ Within("edits", MaxEdits)
    /\ panel' = IF panel.recording
                THEN [panel EXCEPT !.recording = FALSE,
                                   !.form = IF panel.staged = NoText THEN @
                                            ELSE FormOf(panel, panel.staged.conf)]
                ELSE [panel EXCEPT !.recording = TRUE, !.form.keys = Placeholder]
    /\ Spend("edits")
    /\ UNCHANGED <<request, bus, daemon, file, watch>>

-----------------------------------------------------------------------------
(* The panel submits, and sees the daemon's messages.                      *)

\* Defect: a write is submitted while another is in flight
AutosaveIgnoresFlight ==
    /\ panel.timer /\ panel.cache # NoText
    /\ IF panel.staged = panel.committed
       THEN panel' = [panel EXCEPT !.timer = FALSE] /\ UNCHANGED request
       ELSE /\ panel' = [panel EXCEPT !.timer = FALSE, !.submitting = TRUE,
                                      !.sent = panel.unsent, !.unsent = <<>>]
            /\ request' = Append(request, panel.staged)
    /\ UNCHANGED <<bus, daemon, file, watch, spent>>

\* Defect: a timer that finds a write in flight is not armed again
AutosaveGivesUp ==
    /\ panel.timer /\ panel.cache # NoText
    /\ IF panel.submitting \/ panel.staged = panel.committed
       THEN panel' = [panel EXCEPT !.timer = FALSE] /\ UNCHANGED request
       ELSE /\ panel' = [panel EXCEPT !.timer = FALSE, !.submitting = TRUE,
                                      !.sent = panel.unsent, !.unsent = <<>>]
            /\ request' = Append(request, panel.staged)
    /\ UNCHANGED <<bus, daemon, file, watch, spent>>

\* control_autosave_timeout_cb.  Without a daemon, or with a write in flight,
\* the timer is armed again: nothing changes
AutosaveFires ==
    /\ panel.timer /\ panel.cache # NoText /\ ~panel.submitting
    /\ IF panel.staged = panel.committed
       THEN panel' = [panel EXCEPT !.timer = FALSE] /\ UNCHANGED request
       ELSE /\ panel' = [panel EXCEPT !.timer = FALSE, !.submitting = TRUE,
                                      !.sent = panel.unsent, !.unsent = <<>>]
            /\ request' = Append(request, panel.staged)
    /\ UNCHANGED <<bus, daemon, file, watch, spent>>

\* on_set_config_text_finished
Finished(p, ok) ==
    IF ok THEN Refreshed([p EXCEPT !.submitting = FALSE, !.sent = <<>>])
    ELSE [p EXCEPT !.submitting = FALSE, !.timer = TRUE,
                   !.unsent = @ @@ p.sent, !.sent = <<>>]

\* on_name_appeared: a proxy with the properties of the moment; a stage that
\* differs from them is submitted again
Appeared(p) ==
    LET q == Refreshed([p EXCEPT !.cache = [text |-> daemon.text, voice |-> daemon.voice]])
    IN  [q EXCEPT !.timer = @ \/ q.staged # q.committed]

Message(kind) == [kind |-> kind, text |-> NoText, voice |-> NoChoice]
Properties(d) == [kind |-> "properties", text |-> d.text, voice |-> d.voice]

\* The messages that are not of this kind
Without(messages, kind) ==
    FoldLeft(LAMBDA kept, m : IF m.kind = kind THEN kept ELSE Append(kept, m), <<>>, messages)

\* The messages of the daemon, in their order: on_proxy_properties_changed,
\* on_set_config_text_finished, on_name_vanished, on_name_appeared.  The
\* signals sent before there was a proxy do not reach it
PanelSees ==
    /\ bus # <<>>
    /\ LET m == Head(bus)
           later == Tail(bus)
       IN  CASE m.kind = "properties" ->
                  /\ panel' = IF panel.cache = NoText THEN panel
                              ELSE Refreshed([panel EXCEPT !.cache = [text |-> m.text, voice |-> m.voice]])
                  /\ bus' = later
             [] m.kind \in {"done", "failed"} ->
                  /\ panel' = Finished(panel, m.kind = "done")
                  /\ bus' = later
             [] m.kind = "vanished" ->
                  /\ panel' = Refreshed([panel EXCEPT !.cache = NoText])
                  /\ bus' = later
             [] m.kind = "appeared" ->
                  /\ panel' = IF daemon.up THEN Appeared(panel) ELSE panel
                  /\ bus' = Without(later, "properties")
    /\ UNCHANGED <<request, daemon, file, watch, spent>>

-----------------------------------------------------------------------------
(* The daemon.                                                             *)

\* A new configuration in force: its text has an order of its own
InForce(d, c) == {[d EXCEPT !.conf = c, !.text = t] : t \in Texts(c)}

\* The configured voice backend is made the active one if it can be
VoiceOf(c, v) == IF c.voice \in Backends THEN {c.voice, v} ELSE {v}

\* typio_instance_reload_config: a file that cannot be read changes nothing.
\* The switch of the voice engine is announced at once
Reloaded(d) ==
    LET c == IF file = NoText THEN d.conf ELSE WithDefaults(file)
    IN  {[e EXCEPT !.voice = v] : e \in IF file = NoText THEN {d} ELSE InForce(d, c),
                                  v \in VoiceOf(c, d.voice)}

\* SetConfigText: defaults, save, reload (which finds no engine to switch to in
\* what was received).  A save that fails leaves everything as it was
SetConfigText ==
    /\ daemon.up /\ request # <<>>
    /\ LET c == WithDefaults(Received(Head(request)))
       IN  \/ \E d \in InForce(daemon, c) :
              /\ daemon' = d /\ file' = c
              /\ watch' = [watch EXCEPT !.event = TRUE]
              /\ bus' = Append(bus, Message("done"))
              /\ UNCHANGED spent
          \/ /\ Within("events", MaxEvents) /\ Spend("events")
             /\ bus' = Append(bus, Message("failed"))
             /\ UNCHANGED <<daemon, file, watch>>
    /\ request' = Tail(request)
    /\ UNCHANGED panel

\* ActivateEngine, from any client: the switch is announced, then the default
\* engine is set and saved.  The panel waits for the answer
ActivateEngine(e) ==
    /\ daemon.up /\ request = <<>> /\ Within("events", MaxEvents)
    /\ LET c == [daemon.conf EXCEPT !.engine = e]
       IN  /\ \E d \in InForce(daemon, c) : daemon' = d
           /\ file' = c
    /\ bus' \in {bus, Append(bus, Properties(daemon))}   \* it may be active already
    /\ watch' = [watch EXCEPT !.event = TRUE]
    /\ Spend("events")
    /\ UNCHANGED <<panel, request>>

\* typio.toml is written by hand, or removed
FileChanges ==
    /\ Within("events", MaxEvents)
    /\ \/ file' = NoText /\ file # NoText
       \/ /\ file # NoText
          /\ \/ \E v \in Backends : file' = [file EXCEPT !.voice = v]
             \/ \E f \in Fonts : file' = [file EXCEPT !.font = f]
    /\ watch' = [watch EXCEPT !.event = daemon.up]
    /\ Spend("events")
    /\ UNCHANGED <<panel, request, bus, daemon>>

\* Defect: an event that comes while the timer is armed is dropped with it
WatchDisarms ==
    /\ daemon.up /\ watch.event
    /\ watch' = [event |-> FALSE, armed |-> ~watch.armed]
    /\ UNCHANGED <<panel, request, bus, daemon, file, spent>>

\* typio_wl_frontend_handle_config_watch: the events arm the timer again
HandleConfigWatch ==
    /\ daemon.up /\ watch.event
    /\ watch' = [event |-> FALSE, armed |-> TRUE]
    /\ UNCHANGED <<panel, request, bus, daemon, file, spent>>

\* typio_wl_frontend_dispatch_config_reload: reload, and tell the clients
DispatchConfigReload ==
    /\ daemon.up /\ watch.armed
    /\ \E d \in Reloaded(daemon) : daemon' = d /\ bus' = Append(bus, Properties(d))
    /\ watch' = [watch EXCEPT !.armed = FALSE]
    /\ UNCHANGED <<panel, request, file, spent>>

\* The daemon crashes, or stops and saves the configuration in force, whatever
\* the file holds by then; the bus fails the calls it had not answered
Stop ==
    /\ daemon.up /\ Within("events", MaxEvents)
    /\ daemon' = [daemon EXCEPT !.up = FALSE]
    /\ file' \in {file, daemon.conf}
    /\ bus' = bus \o <<Message("vanished")>> \o [i \in DOMAIN request |-> Message("failed")]
    /\ request' = <<>>
    /\ watch' = [event |-> FALSE, armed |-> FALSE]
    /\ Spend("events")
    /\ UNCHANGED panel

\* It starts with the file, or with the defaults
Start ==
    /\ ~daemon.up
    /\ \E d \in InForce(daemon, IF file = NoText THEN Default ELSE WithDefaults(file)) :
          \E v \in VoiceOf(d.conf, NoChoice) : daemon' = [d EXCEPT !.up = TRUE, !.voice = v]
    /\ bus' = Append(bus, Message("appeared"))
    /\ UNCHANGED <<panel, request, file, watch, spent>>

-----------------------------------------------------------------------------

Init ==
    /\ panel = [staged |-> NoText, committed |-> NoText, cache |-> NoText,
                seeded |-> FALSE, submitting |-> FALSE, timer |-> FALSE,
                recording |-> FALSE, unsent |-> <<>>, sent |-> <<>>,
                form |-> [font |-> 1, theme |-> "auto", keys |-> "ctrl",
                          voice |-> NoChoice, order |-> <<>>]]
    /\ request = <<>>
    /\ bus = <<Message("vanished")>>
    /\ daemon = [up |-> FALSE, conf |-> Default, text |-> NoText, voice |-> NoChoice]
    /\ file \in {[Default EXCEPT !.engine = Head(Keyboards)], NoText}
    /\ watch = [event |-> FALSE, armed |-> FALSE]
    /\ spent = [edits |-> 0, events |-> 0]

User == ShortcutClicked \/ \E k \in Editable : UserEdits(k)

Daemon ==
    \/ SetConfigText \/ HandleConfigWatch \/ DispatchConfigReload
    \/ \E e \in ToSet(Keyboards) : ActivateEngine(e)

Next == User \/ AutosaveFires \/ PanelSees \/ Daemon \/ FileChanges \/ Stop \/ Start

\* GTK's main loop runs its timers and sources; the daemon's event loop serves
\* its bus, its watch and its timer.  Nothing makes anyone start the daemon
Fairness ==
    /\ WF_vars(AutosaveFires) /\ WF_vars(PanelSees) /\ WF_vars(SetConfigText)
    /\ WF_vars(HandleConfigWatch) /\ WF_vars(DispatchConfigReload)

Spec == Init /\ [][Next]_vars /\ Fairness

-----------------------------------------------------------------------------
(* Properties.                                                             *)

Confs == [engine : ToSet(Keyboards) \cup {"unset", ""}, voice : Backends \cup {"unset", ""},
          font : Fonts \cup {0, 1}, theme : {"unset", "", "auto", "dark"},
          keys : Shortcuts \cup {"unset", "ctrl", Placeholder}, order : Seq(STRING)]
IsText(t) == t = NoText \/ (t.conf \in Confs /\ t.first \in DOMAIN Cut)

\* The types of the variables
TypeOK ==
    /\ IsText(panel.staged) /\ IsText(panel.committed) /\ IsText(daemon.text)
    /\ panel.cache = NoText \/ IsText(panel.cache.text)
    /\ {panel.seeded, panel.submitting, panel.timer, panel.recording, daemon.up} \subseteq BOOLEAN
    /\ daemon.conf \in Confs /\ daemon.voice \in Backends \cup {NoChoice}
    /\ file = NoText \/ file \in Confs
    /\ watch \in [event : BOOLEAN, armed : BOOLEAN]

\* One write is in flight at a time, and the panel knows of it until its answer
\* is seen: a daemon that stops, or starts again, in between loses none
\* (submitting_config; "Only one config write may be in flight at a time")
OneWriteInFlight ==
    LET answers == {i \in DOMAIN bus : bus[i].kind \in {"done", "failed"}}
    IN  Len(request) + Cardinality(answers) = IF panel.submitting THEN 1 ELSE 0

\* Nothing is staged and nothing written before the daemon has given its
\* configuration: an edit made while it is away cannot replace the file by the
\* widgets' defaults (config_seeded; the documented known failure pattern)
NothingBeforeSeed == ~panel.seeded => panel.staged = NoText /\ request = <<>>

\* With no event and no reload pending the configuration in force is the
\* file's, whoever wrote it last and however the writes and the debounce fell
\* (wl_runtime_config.c)
ConfigFollowsFile ==
    daemon.up /\ ~watch.event /\ ~watch.armed /\ file # NoText
        => daemon.conf = WithDefaults(file)

\* With a daemon that does not stay away every edit is submitted, or the stage
\* is what the daemon gave last, failed saves and restarts included
EditIsSubmitted ==
    []<>daemon.up =>
        ((panel.unsent # <<>> /\ panel.staged # panel.committed)
            ~> (panel.unsent = <<>> \/ panel.staged = panel.committed))

-----------------------------------------------------------------------------
(* What the documents say.                                                 *)

\* "changing one field must not rewrite unrelated top-level settings": no one
\* but ActivateEngine sets the default engine, so the daemon's is the file's
\* first or one that was activated (docs/explanation/control-surfaces.md)
OtherSettingsKept == file # NoText => file.engine \in ToSet(Keyboards) \cup {"unset"}

\* "Old daemon replies must not overwrite newer local staged edits": an edit
\* that was not submitted stays in the stage (docs/explanation/control-surfaces.md)
NewerEditsKept == \A k \in DOMAIN panel.unsent : panel.staged.conf[k] = panel.unsent[k]

=============================================================================
