---------------------------- MODULE VoiceSession ----------------------------
(***************************************************************************)
(* The voice session: core/src/voice/session.rs, the backend proxy of      *)
(* core/src/voice/proxy.rs inside an engine of core/src/voice/engine.rs,   *)
(* the PipeWire source of daemon/voice/pw_capture.c, and the daemon's uses *)
(* of them (key_route.c, wl_runtime_config.c, wl_frontend.c).              *)
(*                                                                         *)
(* Four threads run: the main loop, the idle timer's thread, one inference *)
(* thread per recording, and PipeWire's own.  Each has a program counter;  *)
(* a step ends where the code releases or waits for a lock, calls out, or  *)
(* leaves another thread a chance to see an intermediate state.  The state *)
(* lock is kept as state_lock because the main thread holds it across      *)
(* steps; PipeWire's loop lock is held exactly while its callback runs     *)
(* (pw = "in").  Every other lock is a leaf, held within one step.         *)
(*                                                                         *)
(* Abstractions.  A backend is a number, in the order of loading; 0 is     *)
(* none.  Audio is a number of chunks, of which any number may turn out to *)
(* be silence.  VoiceState::Loading is never assigned and has no steps,    *)
(* nor has the auto-start that depends on it.  reload_config of the two    *)
(* engines returns Ok and does nothing.                                    *)
(***************************************************************************)
EXTENDS Naturals

CONSTANTS
    Engines,      \* registered voice engines
    MaxLoads,     \* bound on model loads
    MaxChunks     \* bound on the chunks of a recording

ASSUME VoiceAssumption ==
    Engines # {} /\ MaxLoads \in Nat /\ MaxChunks \in Nat

VARIABLES
    state,            \* VoiceSession.state
    state_lock,       \* who holds its mutex across steps
    main,             \* where the main thread is
    engine,           \* VoiceSession.voice_engine
    active_voice,     \* the engine manager's active voice engine
    source,           \* audio_source is set
    capturing,        \* TypioPwCapture.capturing
    pw,               \* PipeWire's thread
    buffer,           \* chunks in audio_buffer
    recorded,         \* history: chunks accepted in this recording
    infer,            \* the inference thread
    audio,            \* chunks it took
    snapshot,         \* the backend it cloned out of the proxy
    event_fd,         \* the eventfd is readable
    backend,          \* each engine's proxy: the backend it holds
    loads,            \* backends created so far
    destroyed,        \* backends destroyed
    idle,             \* the idle thread
    idle_armed,
    reload_pending

sessionVars == <<state, state_lock>>
engineVars == <<engine, active_voice>>
captureVars == <<source, capturing, pw>>
audioVars == <<buffer, recorded>>
inferVars == <<infer, audio, snapshot, event_fd>>
backendVars == <<backend, loads, destroyed>>
idleVars == <<idle, idle_armed>>

vars == <<sessionVars, main, engineVars, captureVars, audioVars, inferVars,
          backendVars, idleVars, reload_pending>>

States == {"idle", "recording", "processing"}
MainSteps == {"loop", "start", "load", "relock", "claim", "open", "mark",
              "stopping", "close", "spawn", "join", "settle",
              "free_join", "free_idle", "freed"}
InferSteps == {"none", "take", "clone", "process", "signal", "done"}

(* A silent, detached session over engine e.                               *)
Init ==
    /\ state = "idle" /\ state_lock = "free" /\ main = "loop"
    /\ engine \in Engines /\ active_voice = engine
    /\ source \in BOOLEAN /\ capturing = FALSE /\ pw = "out"
    /\ buffer = 0 /\ recorded = 0
    /\ infer = "none" /\ audio = 0 /\ snapshot = 0 /\ event_fd = FALSE
    /\ backend = [e \in Engines |-> 0] /\ loads = 0 /\ destroyed = {}
    /\ idle = "wait" /\ idle_armed = FALSE
    /\ reload_pending = FALSE

-----------------------------------------------------------------------------
(* The proxy.  A backend is destroyed when the last of its holders, the    *)
(* proxies and the inference thread, lets it go.                           *)

Ready(e) == backend[e] # 0

(* Defect: the proxy frees its backend without counting its users.         *)
ReleaseUncounted(b, holders) ==
    destroyed' = IF b = 0 THEN destroyed ELSE destroyed \cup {b}

(* Arc's drop: b goes once nobody in `holders` has it.                     *)
Release(b, holders) ==
    destroyed' = IF b = 0 \/ b \in holders THEN destroyed
                 ELSE destroyed \cup {b}

(* set_impl and clear_impl of e's proxy.                                   *)
SetBackend(e, b) ==
    /\ backend' = [backend EXCEPT ![e] = b]
    /\ Release(backend[e], {snapshot})

(* focus_in of e: a model that may fail to load, in place of none.         *)
FocusIn(e) ==
    \/ Ready(e) /\ UNCHANGED backendVars
    \/ /\ ~Ready(e) /\ loads < MaxLoads
       /\ loads' = loads + 1
       /\ SetBackend(e, loads + 1)
    \/ /\ ~Ready(e)
       /\ SetBackend(e, 0)
       /\ UNCHANGED loads

(* deactivate of e.                                                        *)
DeactivateEngine(e) == SetBackend(e, 0) /\ UNCHANGED loads

-----------------------------------------------------------------------------
(* typio_voice_session_start, on a push-to-talk press.                     *)

StartPressed ==
    /\ main = "loop" /\ source
    /\ idle_armed' = FALSE
    /\ main' = "start"
    /\ UNCHANGED <<sessionVars, engineVars, captureVars, audioVars, inferVars,
                   backendVars, idle, reload_pending>>

StartCheck ==
    /\ main = "start" /\ state_lock = "free"
    /\ IF Ready(engine)
       THEN main' = "claim" /\ state_lock' = "main"
       ELSE main' = "load" /\ UNCHANGED state_lock
    /\ UNCHANGED <<state, engineVars, captureVars, audioVars, inferVars,
                   backendVars, idleVars, reload_pending>>

(* The lock is dropped while the model loads.                              *)
LoadModel ==
    /\ main = "load"
    /\ FocusIn(engine)
    /\ main' = "relock"
    /\ UNCHANGED <<sessionVars, engineVars, captureVars, audioVars, inferVars,
                   idleVars, reload_pending>>

Relock ==
    /\ main = "relock" /\ state_lock = "free"
    /\ state_lock' = "main" /\ main' = "claim"
    /\ UNCHANGED <<state, engineVars, captureVars, audioVars, inferVars,
                   backendVars, idleVars, reload_pending>>

(* Defect: only a recording refuses a start, an inference does not.        *)
MayRecordWhileProcessing == Ready(engine) /\ state # "recording" /\ source

MayRecord == Ready(engine) /\ state = "idle" /\ source

StartClaim ==
    /\ main = "claim"
    /\ state_lock' = "free"
    /\ IF MayRecord
       THEN /\ buffer' = 0 /\ recorded' = 0
            /\ main' = "open"
            /\ UNCHANGED idle_armed
       ELSE /\ idle_armed' = TRUE
            /\ main' = "loop"
            /\ UNCHANGED audioVars
    /\ UNCHANGED <<state, engineVars, captureVars, inferVars, backendVars,
                   idle, reload_pending>>

(* try_begin_recording: pw_cap_start fails if it is capturing already.     *)
OpenSource ==
    /\ main = "open" /\ pw = "out"
    /\ \/ /\ ~capturing
          /\ capturing' = TRUE /\ main' = "mark"
          /\ UNCHANGED idle_armed
       \/ /\ idle_armed' = TRUE /\ main' = "loop"
          /\ UNCHANGED capturing
    /\ UNCHANGED <<sessionVars, engineVars, source, pw, audioVars, inferVars,
                   backendVars, idle, reload_pending>>

MarkRecording ==
    /\ main = "mark" /\ state_lock = "free"
    /\ state' = "recording" /\ main' = "loop"
    /\ UNCHANGED <<state_lock, engineVars, captureVars, audioVars, inferVars,
                   backendVars, idleVars, reload_pending>>

-----------------------------------------------------------------------------
(* typio_voice_session_stop, on the key's release.                         *)

StopPressed ==
    /\ main = "loop" /\ state_lock = "free" /\ state = "recording"
    /\ state_lock' = "main" /\ main' = "stopping"
    /\ UNCHANGED <<state, engineVars, captureVars, audioVars, inferVars,
                   backendVars, idleVars, reload_pending>>

(* Defect: the state lock is kept until the source is closed.              *)
MarkProcessingKeepsLock ==
    /\ main = "stopping"
    /\ state' = "processing" /\ UNCHANGED state_lock
    /\ main' = "close"
    /\ UNCHANGED <<engineVars, captureVars, audioVars, inferVars, backendVars,
                   idleVars, reload_pending>>

MarkProcessing ==
    /\ main = "stopping"
    /\ state' = "processing" /\ state_lock' = "free"
    /\ main' = "close"
    /\ UNCHANGED <<engineVars, captureVars, audioVars, inferVars, backendVars,
                   idleVars, reload_pending>>

(* pw_cap_stop waits for PipeWire's loop lock, unless the stream already   *)
(* failed.                                                                 *)
CloseSource ==
    /\ main = "close" /\ (capturing => pw = "out")
    /\ capturing' = FALSE
    /\ main' = "spawn"
    /\ UNCHANGED <<sessionVars, engineVars, source, pw, audioVars, inferVars,
                   backendVars, idleVars, reload_pending>>

SpawnInference ==
    /\ main = "spawn"
    /\ infer' = "take" /\ main' = "loop"
    /\ UNCHANGED <<sessionVars, engineVars, captureVars, audioVars, audio,
                   snapshot, event_fd, backendVars, idleVars, reload_pending>>

-----------------------------------------------------------------------------
(* typio_voice_session_dispatch, when the eventfd is readable.             *)

Dispatch ==
    /\ main = "loop" /\ event_fd
    /\ event_fd' = FALSE
    /\ main' = "join"
    /\ UNCHANGED <<sessionVars, engineVars, captureVars, audioVars, infer,
                   audio, snapshot, backendVars, idleVars, reload_pending>>

Join ==
    /\ main = "join" /\ infer \in {"none", "done"}
    /\ infer' = "none" /\ audio' = 0
    /\ main' = "settle"
    /\ UNCHANGED <<sessionVars, engineVars, captureVars, audioVars, snapshot,
                   event_fd, backendVars, idleVars, reload_pending>>

(* Defect: the pending reload is read but not cleared.                     *)
SettleKeepsPending ==
    /\ main = "settle" /\ state_lock = "free"
    /\ state' = "idle"
    /\ idle_armed' = TRUE
    /\ main' = "loop"
    /\ UNCHANGED <<state_lock, engineVars, captureVars, audioVars, inferVars,
                   backendVars, idle, reload_pending>>

Settle ==
    /\ main = "settle" /\ state_lock = "free"
    /\ state' = "idle"
    /\ reload_pending' = FALSE
    /\ idle_armed' = TRUE
    /\ main' = "loop"
    /\ UNCHANGED <<state_lock, engineVars, captureVars, audioVars, inferVars,
                   backendVars, idle>>

-----------------------------------------------------------------------------
(* runtime_config_refresh: the voice engine that the new config            *)
(* names becomes active at once; the session's reload waits while it is    *)
(* busy.  The session keeps the engine it was created with.                *)
ReloadConfig(e) ==
    /\ main = "loop" /\ state_lock = "free"
    /\ active_voice' = e
    /\ IF e = active_voice THEN UNCHANGED backendVars
       ELSE DeactivateEngine(active_voice)
    /\ reload_pending' = (reload_pending \/ state # "idle")
    /\ UNCHANGED <<sessionVars, main, engine, captureVars, audioVars,
                   inferVars, idleVars>>

(* typio_wl_frontend_destroy detaches the source and frees the session,    *)
(* which joins the inference thread and then the idle thread.              *)
Detach ==
    /\ main = "loop"
    /\ source' = FALSE
    /\ main' = "free_join"
    /\ UNCHANGED <<sessionVars, engineVars, capturing, pw, audioVars,
                   inferVars, backendVars, idleVars, reload_pending>>

FreeJoin ==
    /\ main = "free_join" /\ infer \in {"none", "done"}
    /\ infer' = "none" /\ audio' = 0
    /\ main' = "free_idle"
    /\ UNCHANGED <<sessionVars, engineVars, captureVars, audioVars, snapshot,
                   event_fd, backendVars, idleVars, reload_pending>>

FreeIdle ==
    /\ main = "free_idle" /\ idle = "wait"
    /\ idle' = "gone" /\ main' = "freed"
    /\ UNCHANGED <<sessionVars, engineVars, captureVars, audioVars, inferVars,
                   backendVars, idle_armed, reload_pending>>

-----------------------------------------------------------------------------
(* PipeWire's thread: on_process runs under the loop lock and hands its    *)
(* samples to feed_audio, which needs the state lock.  What it does with a *)
(* freed session is undefined and not followed.                            *)

PwEnter ==
    /\ pw = "out" /\ capturing /\ main # "freed"
    /\ pw' = "in"
    /\ UNCHANGED <<sessionVars, main, engineVars, source, capturing, audioVars,
                   inferVars, backendVars, idleVars, reload_pending>>

FeedAudio ==
    /\ pw = "in" /\ state_lock = "free" /\ main # "freed"
    /\ IF state = "recording" /\ buffer < MaxChunks
       THEN buffer' = buffer + 1 /\ recorded' = recorded + 1
       ELSE UNCHANGED audioVars
    /\ pw' = "out"
    /\ UNCHANGED <<sessionVars, main, engineVars, source, capturing, inferVars,
                   backendVars, idleVars, reload_pending>>

(* on_state_changed with PW_STREAM_STATE_ERROR.                            *)
PwFail ==
    /\ pw = "out" /\ capturing
    /\ capturing' = FALSE
    /\ UNCHANGED <<sessionVars, main, engineVars, source, pw, audioVars,
                   inferVars, backendVars, idleVars, reload_pending>>

-----------------------------------------------------------------------------
(* The inference thread.                                                   *)

(* It takes the buffer; prepare_audio may find nothing usable in it.       *)
InferTake ==
    /\ infer = "take"
    /\ audio' = buffer /\ buffer' = 0
    /\ \E usable \in BOOLEAN :
          /\ usable => buffer > 0
          /\ infer' = IF usable THEN "clone" ELSE "signal"
    /\ UNCHANGED <<sessionVars, main, engineVars, captureVars, recorded,
                   snapshot, event_fd, backendVars, idleVars, reload_pending>>

(* The proxy's process clones its backend under the lock, if it has one.   *)
InferClone ==
    /\ infer = "clone"
    /\ snapshot' = backend[engine]
    /\ infer' = IF Ready(engine) THEN "process" ELSE "signal"
    /\ UNCHANGED <<sessionVars, main, engineVars, captureVars, audioVars,
                   audio, event_fd, backendVars, idleVars, reload_pending>>

InferProcess ==
    /\ infer = "process"
    /\ snapshot' = 0
    /\ Release(snapshot, {backend[e] : e \in Engines})
    /\ infer' = "signal"
    /\ UNCHANGED <<sessionVars, main, engineVars, captureVars, audioVars,
                   audio, event_fd, backend, loads, idleVars, reload_pending>>

(* Defect: a thread without audio returns before it signals.               *)
InferSignalsOnlyAudio ==
    /\ infer = "signal"
    /\ event_fd' = (audio > 0)
    /\ infer' = "done"
    /\ UNCHANGED <<sessionVars, main, engineVars, captureVars, audioVars,
                   audio, snapshot, backendVars, idleVars, reload_pending>>

InferSignal ==
    /\ infer = "signal"
    /\ event_fd' = TRUE
    /\ infer' = "done"
    /\ UNCHANGED <<sessionVars, main, engineVars, captureVars, audioVars,
                   audio, snapshot, backendVars, idleVars, reload_pending>>

-----------------------------------------------------------------------------
(* idle_thread_main: the check, the unload and the disarming are three     *)
(* steps, and no lock covers more than one of them.                        *)

IdleTimeout ==
    /\ idle = "wait" /\ idle_armed /\ state_lock = "free" /\ state = "idle"
    /\ idle' = "unload"
    /\ UNCHANGED <<sessionVars, main, engineVars, captureVars, audioVars,
                   inferVars, backendVars, idle_armed, reload_pending>>

IdleUnload ==
    /\ idle = "unload"
    /\ DeactivateEngine(engine)
    /\ idle' = "disarm"
    /\ UNCHANGED <<sessionVars, main, engineVars, captureVars, audioVars,
                   inferVars, idle_armed, reload_pending>>

IdleDisarm ==
    /\ idle = "disarm"
    /\ idle_armed' = FALSE
    /\ idle' = "wait"
    /\ UNCHANGED <<sessionVars, main, engineVars, captureVars, audioVars,
                   inferVars, backendVars, reload_pending>>

-----------------------------------------------------------------------------
Start == StartPressed \/ StartCheck \/ LoadModel \/ Relock \/ StartClaim
         \/ OpenSource \/ MarkRecording
StopAndInfer == MarkProcessing \/ CloseSource \/ SpawnInference
Complete == Dispatch \/ Join \/ Settle
Free == FreeJoin \/ FreeIdle
Capture == PwEnter \/ FeedAudio \/ PwFail
Infer == InferTake \/ InferClone \/ InferProcess \/ InferSignal
Idle == IdleTimeout \/ IdleUnload \/ IdleDisarm

Next ==
    \/ Start \/ StopPressed \/ StopAndInfer \/ Complete
    \/ \E e \in Engines : ReloadConfig(e)
    \/ Detach \/ Free
    \/ Capture \/ Infer \/ Idle

Spec == Init /\ [][Next]_vars

(* What the main thread does between two turns of its loop, once begun.    *)
MainContinues ==
    StartCheck \/ LoadModel \/ Relock \/ StartClaim \/ OpenSource
    \/ MarkRecording \/ StopAndInfer \/ Join \/ Settle \/ Free

(* Every thread goes on when it can, a lock that is free again and again   *)
(* is granted, and the loop polls the eventfd on each turn.  Nobody is     *)
(* obliged to press or release the key.                                    *)
FairSpec ==
    /\ Spec
    /\ WF_vars(MainContinues) /\ SF_vars(OpenSource) /\ SF_vars(CloseSource)
    /\ SF_vars(Dispatch) /\ SF_vars(FeedAudio) /\ WF_vars(Infer)
    /\ WF_vars(IdleUnload) /\ WF_vars(IdleDisarm)

-----------------------------------------------------------------------------
(* Properties.                                                             *)

(* The variables keep their types.                                         *)
TypeOK ==
    /\ state \in States /\ state_lock \in {"free", "main"}
    /\ main \in MainSteps
    /\ engine \in Engines /\ active_voice \in Engines
    /\ source \in BOOLEAN /\ capturing \in BOOLEAN /\ pw \in {"in", "out"}
    /\ buffer \in 0..MaxChunks /\ recorded \in 0..MaxChunks
    /\ infer \in InferSteps /\ audio \in 0..MaxChunks
    /\ snapshot \in 0..MaxLoads /\ event_fd \in BOOLEAN
    /\ backend \in [Engines -> 0..MaxLoads] /\ loads \in 0..MaxLoads
    /\ destroyed \subseteq 1..MaxLoads
    /\ idle \in {"wait", "unload", "disarm", "gone"}
    /\ idle_armed \in BOOLEAN /\ reload_pending \in BOOLEAN

(* A backend is destroyed when the last proxy or inference that holds it   *)
(* lets it go, neither before nor never: idle unload, engine switches and  *)
(* loads all drop backends while the inference thread may be using one.    *)
BackendLivesWhileHeld ==
    1..loads \ destroyed = ({backend[e] : e \in Engines} \cup {snapshot}) \ {0}

(* While an inference thread runs the session stays PROCESSING and the     *)
(* microphone stays closed, whatever keys are pressed meanwhile; and what  *)
(* it works on is exactly the audio accepted during its own recording: no  *)
(* chunk lost to the next start's clear, none left over.                   *)
InferenceOwnsSession ==
    /\ infer # "none" => state = "processing" /\ ~capturing
    /\ infer \in {"clone", "process"} => audio = recorded

(* A session at rest is at rest: between two turns of the loop the stream  *)
(* captures only in RECORDING, whatever start or stop failed, and a        *)
(* deferred reload is not forgotten past the job that deferred it.         *)
RestIsQuiet ==
    /\ main = "loop" /\ capturing => state = "recording"
    /\ reload_pending => state # "idle"

(* start, stop, dispatch and free return: the main thread, which holds the *)
(* state lock in places, and PipeWire's, which holds its loop lock while   *)
(* it waits for that, never wait for each other.                           *)
MainThreadReturns ==
    main \notin {"loop", "freed"} ~> main \in {"loop", "freed"}

(* PROCESSING ends for every outcome of the inference, or the session is   *)
(* freed: the thread always signals and the loop always settles.           *)
ProcessingEnds == state = "processing" ~> state = "idle" \/ main = "freed"

(* What the documents promise of a reload and of the idle unload, and the  *)
(* code does not keep: a recording's model stays until its inference took  *)
(* it.                                                                     *)
JobKeepsItsModel ==
    state = "recording" \/ infer \in {"take", "clone"} => Ready(engine)

=============================================================================
