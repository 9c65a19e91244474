------------------------- MODULE VoiceSessionProofs -------------------------
(***************************************************************************)
(* Proofs about the voice session, for every set of engines and every      *)
(* number of model loads and chunks.                                       *)
(***************************************************************************)
EXTENDS VoiceSession, TLAPS

(* Two halves of the type invariant, for provers that know Boolean values  *)
(* and provers that know numbers.                                          *)
BoolTypes ==
    /\ source \in BOOLEAN /\ capturing \in BOOLEAN /\ event_fd \in BOOLEAN
    /\ idle_armed \in BOOLEAN /\ reload_pending \in BOOLEAN

DataTypes ==
    /\ state \in States /\ state_lock \in {"free", "main"}
    /\ main \in MainSteps
    /\ engine \in Engines /\ active_voice \in Engines
    /\ pw \in {"in", "out"}
    /\ buffer \in 0..MaxChunks /\ recorded \in 0..MaxChunks
    /\ infer \in InferSteps /\ audio \in 0..MaxChunks
    /\ snapshot \in 0..MaxLoads
    /\ backend \in [Engines -> 0..MaxLoads] /\ loads \in 0..MaxLoads
    /\ destroyed \subseteq 1..MaxLoads
    /\ idle \in {"wait", "unload", "disarm", "gone"}

(* The state lock is the main thread's exactly where start and stop hold   *)
(* it across a call.                                                       *)
LockInv == state_lock = "main" <=> main \in {"claim", "stopping"}

(* What the main thread knows of the session and of the inference thread   *)
(* at each of its steps, between which the other threads run.              *)
SessionInv ==
    /\ infer # "none" => state = "processing"
    /\ main \in {"open", "mark"} => state = "idle"
    /\ main = "stopping" => state = "recording"
    /\ main \in {"close", "spawn"} => state = "processing" /\ infer = "none"
    /\ main = "join" => infer = "done"
    /\ main \in {"join", "settle"} => ~event_fd
    /\ main = "settle" => state = "processing" /\ infer = "none"
    /\ main \in {"free_idle", "freed"} => infer = "none"
    /\ event_fd => infer = "done" \/ main \in {"free_idle", "freed"}
    /\ reload_pending => state # "idle"

(* The microphone: outside a recording the stream captures only while      *)
(* start opened it and stop has not closed it yet.                         *)
CaptureInv ==
    /\ capturing /\ state = "idle" => main = "mark"
    /\ capturing /\ state = "processing" => main = "close"

(* From the start's clear to the inference's take the buffer is exactly    *)
(* what the recording accepted; from then on the thread's audio is.        *)
AudioInv ==
    /\ \/ main \in {"open", "mark", "close", "spawn"}
       \/ state = "recording" \/ infer = "take"
       => buffer = recorded
    /\ infer \in {"clone", "process"} => audio = recorded

(* No two proxies hold the same backend.                                   *)
Unshared ==
    \A e, f \in Engines : backend[e] = backend[f] /\ backend[e] # 0 => e = f

(* Every backend is accounted for, no two proxies share one, and besides   *)
(* them only a running inference has one.                                  *)
BackendInv ==
    /\ Unshared
    /\ snapshot # 0 => infer = "process"
    /\ destroyed \subseteq 1..loads
    /\ BackendLivesWhileHeld

(* The inductive invariant of the session.                                 *)
IInv == TypeOK /\ LockInv /\ SessionInv /\ CaptureInv /\ AudioInv /\ BackendInv

-----------------------------------------------------------------------------
(* A proxy that gets a backend, or none, lets go a backend that exists   *)
(* (set_impl and clear_impl).                                            *)
LEMMA SetBackendTypes ==
    ASSUME DataTypes, NEW e \in Engines, NEW b \in 0..MaxLoads,
           SetBackend(e, b)
    PROVE  /\ backend' \in [Engines -> 0..MaxLoads]
           /\ destroyed' \subseteq 1..MaxLoads
<1>1. backend[e] # 0 => backend[e] \in 1..MaxLoads
  BY VoiceAssumption DEF DataTypes
<1> QED
  BY <1>1 DEF DataTypes, SetBackend, Release

(* Every step keeps the variables' types.  That recorded stays within    *)
(* MaxChunks is the buffer's doing: the two are equal while it grows.    *)
LEMMA TypeStep ==
    DataTypes /\ AudioInv /\ [Next]_vars => DataTypes'
<1> SUFFICES ASSUME DataTypes, AudioInv, [Next]_vars
             PROVE  DataTypes'
  OBVIOUS
<1> USE VoiceAssumption DEF DataTypes, States, MainSteps, InferSteps,
   sessionVars, engineVars, captureVars, audioVars, inferVars, backendVars,
   idleVars
<1>1. CASE StartPressed
  BY <1>1 DEF StartPressed
<1>2. CASE StartCheck
  BY <1>2 DEF StartCheck, Ready
<1>3. CASE LoadModel
  <2>1. CASE Ready(engine) /\ UNCHANGED backendVars
    BY <1>3, <2>1 DEF LoadModel
  <2>2. CASE /\ ~Ready(engine) /\ loads < MaxLoads /\ loads' = loads + 1
             /\ SetBackend(engine, loads + 1)
    <3>1. loads + 1 \in 0..MaxLoads
      BY <2>2
    <3> QED
      BY <1>3, <2>2, <3>1, SetBackendTypes DEF LoadModel
  <2>3. CASE ~Ready(engine) /\ SetBackend(engine, 0) /\ UNCHANGED loads
    BY <1>3, <2>3, SetBackendTypes DEF LoadModel
  <2> QED
    BY <1>3, <2>1, <2>2, <2>3 DEF LoadModel, FocusIn
<1>4. CASE Relock
  BY <1>4 DEF Relock
<1>5. CASE StartClaim
  BY <1>5 DEF StartClaim, MayRecord, Ready
<1>6. CASE OpenSource
  BY <1>6 DEF OpenSource
<1>7. CASE MarkRecording
  BY <1>7 DEF MarkRecording
<1>8. CASE StopPressed
  BY <1>8 DEF StopPressed
<1>9. CASE MarkProcessing
  BY <1>9 DEF MarkProcessing
<1>10. CASE CloseSource
  BY <1>10 DEF CloseSource
<1>11. CASE SpawnInference
  BY <1>11 DEF SpawnInference
<1>12. CASE Dispatch
  BY <1>12 DEF Dispatch
<1>13. CASE Join
  BY <1>13 DEF Join
<1>14. CASE Settle
  BY <1>14 DEF Settle
<1>15. ASSUME NEW e \in Engines, ReloadConfig(e)
       PROVE  DataTypes'
  <2>1. CASE e = active_voice
    BY <1>15, <2>1 DEF ReloadConfig
  <2>2. CASE e # active_voice
    <3>1. SetBackend(active_voice, 0) /\ 0 \in 0..MaxLoads
      BY <1>15, <2>2 DEF ReloadConfig, DeactivateEngine
    <3> QED
      BY <1>15, <2>2, <3>1, SetBackendTypes DEF ReloadConfig, DeactivateEngine
  <2> QED
    BY <2>1, <2>2
<1>16. CASE Detach
  BY <1>16 DEF Detach
<1>17. CASE FreeJoin
  BY <1>17 DEF FreeJoin
<1>18. CASE FreeIdle
  BY <1>18 DEF FreeIdle
<1>19. CASE PwEnter
  BY <1>19 DEF PwEnter
<1>20. CASE FeedAudio
  BY <1>20 DEF FeedAudio, AudioInv
<1>21. CASE PwFail
  BY <1>21 DEF PwFail
<1>22. CASE InferTake
  BY <1>22 DEF InferTake
<1>23. CASE InferClone
  BY <1>23 DEF InferClone, Ready
<1>24. CASE InferProcess
  BY <1>24 DEF InferProcess, Release
<1>25. CASE InferSignal
  BY <1>25 DEF InferSignal
<1>26. CASE IdleTimeout
  BY <1>26 DEF IdleTimeout
<1>27. CASE IdleUnload
  BY <1>27, SetBackendTypes DEF IdleUnload, DeactivateEngine
<1>28. CASE IdleDisarm
  BY <1>28 DEF IdleDisarm
<1>29. CASE UNCHANGED vars
  BY <1>29 DEF vars
<1> QED
  BY <1>1, <1>2, <1>3, <1>4, <1>5, <1>6, <1>7, <1>8, <1>9, <1>10, <1>11,
     <1>12, <1>13, <1>14, <1>15, <1>16, <1>17, <1>18, <1>19, <1>20, <1>21,
     <1>22, <1>23, <1>24, <1>25, <1>26, <1>27, <1>28, <1>29 DEF Next, Start,
     StopAndInfer, Complete, Free, Capture, Infer, Idle

(* Every step keeps the Boolean variables Boolean.                       *)
LEMMA BoolStep ==
    BoolTypes /\ [Next]_vars => BoolTypes'
<1> SUFFICES ASSUME BoolTypes, [Next]_vars
             PROVE  BoolTypes'
  OBVIOUS
<1> USE DEF BoolTypes, sessionVars, engineVars, captureVars, audioVars,
   inferVars, backendVars, idleVars
<1>1. CASE StartPressed
  BY <1>1 DEF StartPressed
<1>2. CASE StartCheck
  BY <1>2 DEF StartCheck, Ready
<1>3. CASE LoadModel
  BY <1>3 DEF LoadModel, FocusIn, SetBackend, Release, Ready
<1>4. CASE Relock
  BY <1>4 DEF Relock
<1>5. CASE StartClaim
  BY <1>5 DEF StartClaim, MayRecord, Ready
<1>6. CASE OpenSource
  BY <1>6 DEF OpenSource
<1>7. CASE MarkRecording
  BY <1>7 DEF MarkRecording
<1>8. CASE StopPressed
  BY <1>8 DEF StopPressed
<1>9. CASE MarkProcessing
  BY <1>9 DEF MarkProcessing
<1>10. CASE CloseSource
  BY <1>10 DEF CloseSource
<1>11. CASE SpawnInference
  BY <1>11 DEF SpawnInference
<1>12. CASE Dispatch
  BY <1>12 DEF Dispatch
<1>13. CASE Join
  BY <1>13 DEF Join
<1>14. CASE Settle
  BY <1>14 DEF Settle
<1>15. ASSUME NEW e \in Engines, ReloadConfig(e)
       PROVE  BoolTypes'
  BY <1>15 DEF ReloadConfig, DeactivateEngine, SetBackend, Release
<1>16. CASE Detach
  BY <1>16 DEF Detach
<1>17. CASE FreeJoin
  BY <1>17 DEF FreeJoin
<1>18. CASE FreeIdle
  BY <1>18 DEF FreeIdle
<1>19. CASE PwEnter
  BY <1>19 DEF PwEnter
<1>20. CASE FeedAudio
  BY <1>20 DEF FeedAudio
<1>21. CASE PwFail
  BY <1>21 DEF PwFail
<1>22. CASE InferTake
  BY <1>22 DEF InferTake
<1>23. CASE InferClone
  BY <1>23 DEF InferClone, Ready
<1>24. CASE InferProcess
  BY <1>24 DEF InferProcess, Release
<1>25. CASE InferSignal
  BY <1>25 DEF InferSignal
<1>26. CASE IdleTimeout
  BY <1>26 DEF IdleTimeout
<1>27. CASE IdleUnload
  BY <1>27 DEF IdleUnload, DeactivateEngine, SetBackend, Release
<1>28. CASE IdleDisarm
  BY <1>28 DEF IdleDisarm
<1>29. CASE UNCHANGED vars
  BY <1>29 DEF vars
<1> QED
  BY <1>1, <1>2, <1>3, <1>4, <1>5, <1>6, <1>7, <1>8, <1>9, <1>10, <1>11,
     <1>12, <1>13, <1>14, <1>15, <1>16, <1>17, <1>18, <1>19, <1>20, <1>21,
     <1>22, <1>23, <1>24, <1>25, <1>26, <1>27, <1>28, <1>29 DEF Next, Start,
     StopAndInfer, Complete, Free, Capture, Infer, Idle

(* Only start and stop hold the state lock across a call, and every way  *)
(* out of them frees it.                                                 *)
LEMMA LockStep ==
    LockInv /\ [Next]_vars => LockInv'
<1> SUFFICES ASSUME LockInv, [Next]_vars
             PROVE  LockInv'
  OBVIOUS
<1> USE DEF LockInv, sessionVars, engineVars, captureVars, audioVars,
   inferVars, backendVars, idleVars
<1>1. CASE StartPressed
  BY <1>1 DEF StartPressed
<1>2. CASE StartCheck
  BY <1>2 DEF StartCheck, Ready
<1>3. CASE LoadModel
  BY <1>3 DEF LoadModel, FocusIn, SetBackend, Release, Ready
<1>4. CASE Relock
  BY <1>4 DEF Relock
<1>5. CASE StartClaim
  BY <1>5 DEF StartClaim, MayRecord, Ready
<1>6. CASE OpenSource
  BY <1>6 DEF OpenSource
<1>7. CASE MarkRecording
  BY <1>7 DEF MarkRecording
<1>8. CASE StopPressed
  BY <1>8 DEF StopPressed
<1>9. CASE MarkProcessing
  BY <1>9 DEF MarkProcessing
<1>10. CASE CloseSource
  BY <1>10 DEF CloseSource
<1>11. CASE SpawnInference
  BY <1>11 DEF SpawnInference
<1>12. CASE Dispatch
  BY <1>12 DEF Dispatch
<1>13. CASE Join
  BY <1>13 DEF Join
<1>14. CASE Settle
  BY <1>14 DEF Settle
<1>15. ASSUME NEW e \in Engines, ReloadConfig(e)
       PROVE  LockInv'
  BY <1>15 DEF ReloadConfig, DeactivateEngine, SetBackend, Release
<1>16. CASE Detach
  BY <1>16 DEF Detach
<1>17. CASE FreeJoin
  BY <1>17 DEF FreeJoin
<1>18. CASE FreeIdle
  BY <1>18 DEF FreeIdle
<1>19. CASE PwEnter
  BY <1>19 DEF PwEnter
<1>20. CASE FeedAudio
  BY <1>20 DEF FeedAudio
<1>21. CASE PwFail
  BY <1>21 DEF PwFail
<1>22. CASE InferTake
  BY <1>22 DEF InferTake
<1>23. CASE InferClone
  BY <1>23 DEF InferClone, Ready
<1>24. CASE InferProcess
  BY <1>24 DEF InferProcess, Release
<1>25. CASE InferSignal
  BY <1>25 DEF InferSignal
<1>26. CASE IdleTimeout
  BY <1>26 DEF IdleTimeout
<1>27. CASE IdleUnload
  BY <1>27 DEF IdleUnload, DeactivateEngine, SetBackend, Release
<1>28. CASE IdleDisarm
  BY <1>28 DEF IdleDisarm
<1>29. CASE UNCHANGED vars
  BY <1>29 DEF vars
<1> QED
  BY <1>1, <1>2, <1>3, <1>4, <1>5, <1>6, <1>7, <1>8, <1>9, <1>10, <1>11,
     <1>12, <1>13, <1>14, <1>15, <1>16, <1>17, <1>18, <1>19, <1>20, <1>21,
     <1>22, <1>23, <1>24, <1>25, <1>26, <1>27, <1>28, <1>29 DEF Next, Start,
     StopAndInfer, Complete, Free, Capture, Infer, Idle

(* No step of any thread takes from the main thread what it counts on:   *)
(* it alone assigns state, and a thread is joined before the next is     *)
(* spawned.                                                              *)
LEMMA SessionStep ==
    TypeOK /\ SessionInv /\ [Next]_vars => SessionInv'
<1> SUFFICES ASSUME TypeOK, SessionInv, [Next]_vars
             PROVE  SessionInv'
  OBVIOUS
<1> USE DEF TypeOK, SessionInv, sessionVars, engineVars, captureVars,
   audioVars, inferVars, backendVars, idleVars
<1>1. CASE StartPressed
  BY <1>1 DEF StartPressed
<1>2. CASE StartCheck
  BY <1>2 DEF StartCheck, Ready
<1>3. CASE LoadModel
  BY <1>3 DEF LoadModel, FocusIn, SetBackend, Release, Ready
<1>4. CASE Relock
  BY <1>4 DEF Relock
<1>5. CASE StartClaim
  BY <1>5 DEF StartClaim, MayRecord, Ready
<1>6. CASE OpenSource
  BY <1>6 DEF OpenSource
<1>7. CASE MarkRecording
  BY <1>7 DEF MarkRecording
<1>8. CASE StopPressed
  BY <1>8 DEF StopPressed
<1>9. CASE MarkProcessing
  BY <1>9 DEF MarkProcessing
<1>10. CASE CloseSource
  BY <1>10 DEF CloseSource
<1>11. CASE SpawnInference
  BY <1>11 DEF SpawnInference
<1>12. CASE Dispatch
  BY <1>12 DEF Dispatch
<1>13. CASE Join
  BY <1>13 DEF Join
<1>14. CASE Settle
  BY <1>14 DEF Settle
<1>15. ASSUME NEW e \in Engines, ReloadConfig(e)
       PROVE  SessionInv'
  BY <1>15 DEF ReloadConfig, DeactivateEngine, SetBackend, Release
<1>16. CASE Detach
  BY <1>16 DEF Detach
<1>17. CASE FreeJoin
  BY <1>17 DEF FreeJoin
<1>18. CASE FreeIdle
  BY <1>18 DEF FreeIdle
<1>19. CASE PwEnter
  BY <1>19 DEF PwEnter
<1>20. CASE FeedAudio
  BY <1>20 DEF FeedAudio
<1>21. CASE PwFail
  BY <1>21 DEF PwFail
<1>22. CASE InferTake
  BY <1>22 DEF InferTake
<1>23. CASE InferClone
  BY <1>23 DEF InferClone, Ready
<1>24. CASE InferProcess
  BY <1>24 DEF InferProcess, Release
<1>25. CASE InferSignal
  BY <1>25 DEF InferSignal
<1>26. CASE IdleTimeout
  BY <1>26 DEF IdleTimeout
<1>27. CASE IdleUnload
  BY <1>27 DEF IdleUnload, DeactivateEngine, SetBackend, Release
<1>28. CASE IdleDisarm
  BY <1>28 DEF IdleDisarm
<1>29. CASE UNCHANGED vars
  BY <1>29 DEF vars
<1> QED
  BY <1>1, <1>2, <1>3, <1>4, <1>5, <1>6, <1>7, <1>8, <1>9, <1>10, <1>11,
     <1>12, <1>13, <1>14, <1>15, <1>16, <1>17, <1>18, <1>19, <1>20, <1>21,
     <1>22, <1>23, <1>24, <1>25, <1>26, <1>27, <1>28, <1>29 DEF Next, Start,
     StopAndInfer, Complete, Free, Capture, Infer, Idle

(* The stream is opened from idle only, and closed before the inference  *)
(* starts.                                                               *)
LEMMA CaptureStep ==
    TypeOK /\ SessionInv /\ CaptureInv /\ [Next]_vars => CaptureInv'
<1> SUFFICES ASSUME TypeOK, SessionInv, CaptureInv, [Next]_vars
             PROVE  CaptureInv'
  OBVIOUS
<1> USE DEF TypeOK, SessionInv, CaptureInv, sessionVars, engineVars,
   captureVars, audioVars, inferVars, backendVars, idleVars
<1>1. CASE StartPressed
  BY <1>1 DEF StartPressed
<1>2. CASE StartCheck
  BY <1>2 DEF StartCheck, Ready
<1>3. CASE LoadModel
  BY <1>3 DEF LoadModel, FocusIn, SetBackend, Release, Ready
<1>4. CASE Relock
  BY <1>4 DEF Relock
<1>5. CASE StartClaim
  BY <1>5 DEF StartClaim, MayRecord, Ready
<1>6. CASE OpenSource
  BY <1>6 DEF OpenSource
<1>7. CASE MarkRecording
  BY <1>7 DEF MarkRecording
<1>8. CASE StopPressed
  BY <1>8 DEF StopPressed
<1>9. CASE MarkProcessing
  BY <1>9 DEF MarkProcessing
<1>10. CASE CloseSource
  BY <1>10 DEF CloseSource
<1>11. CASE SpawnInference
  BY <1>11 DEF SpawnInference
<1>12. CASE Dispatch
  BY <1>12 DEF Dispatch
<1>13. CASE Join
  BY <1>13 DEF Join
<1>14. CASE Settle
  BY <1>14 DEF Settle
<1>15. ASSUME NEW e \in Engines, ReloadConfig(e)
       PROVE  CaptureInv'
  BY <1>15 DEF ReloadConfig, DeactivateEngine, SetBackend, Release
<1>16. CASE Detach
  BY <1>16 DEF Detach
<1>17. CASE FreeJoin
  BY <1>17 DEF FreeJoin
<1>18. CASE FreeIdle
  BY <1>18 DEF FreeIdle
<1>19. CASE PwEnter
  BY <1>19 DEF PwEnter
<1>20. CASE FeedAudio
  BY <1>20 DEF FeedAudio
<1>21. CASE PwFail
  BY <1>21 DEF PwFail
<1>22. CASE InferTake
  BY <1>22 DEF InferTake
<1>23. CASE InferClone
  BY <1>23 DEF InferClone, Ready
<1>24. CASE InferProcess
  BY <1>24 DEF InferProcess, Release
<1>25. CASE InferSignal
  BY <1>25 DEF InferSignal
<1>26. CASE IdleTimeout
  BY <1>26 DEF IdleTimeout
<1>27. CASE IdleUnload
  BY <1>27 DEF IdleUnload, DeactivateEngine, SetBackend, Release
<1>28. CASE IdleDisarm
  BY <1>28 DEF IdleDisarm
<1>29. CASE UNCHANGED vars
  BY <1>29 DEF vars
<1> QED
  BY <1>1, <1>2, <1>3, <1>4, <1>5, <1>6, <1>7, <1>8, <1>9, <1>10, <1>11,
     <1>12, <1>13, <1>14, <1>15, <1>16, <1>17, <1>18, <1>19, <1>20, <1>21,
     <1>22, <1>23, <1>24, <1>25, <1>26, <1>27, <1>28, <1>29 DEF Next, Start,
     StopAndInfer, Complete, Free, Capture, Infer, Idle

(* No step loses a chunk of a recording or adds one to it.               *)
LEMMA AudioStep ==
    TypeOK /\ SessionInv /\ AudioInv /\ [Next]_vars => AudioInv'
<1> SUFFICES ASSUME TypeOK, SessionInv, AudioInv, [Next]_vars
             PROVE  AudioInv'
  OBVIOUS
<1> USE DEF TypeOK, SessionInv, AudioInv, sessionVars, engineVars,
   captureVars, audioVars, inferVars, backendVars, idleVars
<1>1. CASE StartPressed
  BY <1>1 DEF StartPressed
<1>2. CASE StartCheck
  BY <1>2 DEF StartCheck, Ready
<1>3. CASE LoadModel
  BY <1>3 DEF LoadModel, FocusIn, SetBackend, Release, Ready
<1>4. CASE Relock
  BY <1>4 DEF Relock
<1>5. CASE StartClaim
  BY <1>5 DEF StartClaim, MayRecord, Ready
<1>6. CASE OpenSource
  BY <1>6 DEF OpenSource
<1>7. CASE MarkRecording
  BY <1>7 DEF MarkRecording
<1>8. CASE StopPressed
  BY <1>8 DEF StopPressed
<1>9. CASE MarkProcessing
  BY <1>9 DEF MarkProcessing
<1>10. CASE CloseSource
  BY <1>10 DEF CloseSource
<1>11. CASE SpawnInference
  BY <1>11 DEF SpawnInference
<1>12. CASE Dispatch
  BY <1>12 DEF Dispatch
<1>13. CASE Join
  BY <1>13 DEF Join
<1>14. CASE Settle
  BY <1>14 DEF Settle
<1>15. ASSUME NEW e \in Engines, ReloadConfig(e)
       PROVE  AudioInv'
  BY <1>15 DEF ReloadConfig, DeactivateEngine, SetBackend, Release
<1>16. CASE Detach
  BY <1>16 DEF Detach
<1>17. CASE FreeJoin
  BY <1>17 DEF FreeJoin
<1>18. CASE FreeIdle
  BY <1>18 DEF FreeIdle
<1>19. CASE PwEnter
  BY <1>19 DEF PwEnter
<1>20. CASE FeedAudio
  BY <1>20 DEF FeedAudio
<1>21. CASE PwFail
  BY <1>21 DEF PwFail
<1>22. CASE InferTake
  BY <1>22 DEF InferTake
<1>23. CASE InferClone
  BY <1>23 DEF InferClone, Ready
<1>24. CASE InferProcess
  BY <1>24 DEF InferProcess, Release
<1>25. CASE InferSignal
  BY <1>25 DEF InferSignal
<1>26. CASE IdleTimeout
  BY <1>26 DEF IdleTimeout
<1>27. CASE IdleUnload
  BY <1>27 DEF IdleUnload, DeactivateEngine, SetBackend, Release
<1>28. CASE IdleDisarm
  BY <1>28 DEF IdleDisarm
<1>29. CASE UNCHANGED vars
  BY <1>29 DEF vars
<1> QED
  BY <1>1, <1>2, <1>3, <1>4, <1>5, <1>6, <1>7, <1>8, <1>9, <1>10, <1>11,
     <1>12, <1>13, <1>14, <1>15, <1>16, <1>17, <1>18, <1>19, <1>20, <1>21,
     <1>22, <1>23, <1>24, <1>25, <1>26, <1>27, <1>28, <1>29 DEF Next, Start,
     StopAndInfer, Complete, Free, Capture, Infer, Idle

(* Dropping e's backend keeps the account of backends: nobody else but the *)
(* inference thread can hold it.                                           *)
LEMMA DropBackend ==
    ASSUME TypeOK, BackendInv, NEW e \in Engines,
           DeactivateEngine(e), UNCHANGED <<snapshot, infer>>
    PROVE  BackendInv'
<1> DEFINE b == backend[e]
           Others == {backend[f] : f \in Engines \ {e}}
<1>1. /\ backend \in [Engines -> 0..MaxLoads] /\ snapshot \in 0..MaxLoads
      /\ loads \in 0..MaxLoads /\ Unshared
      /\ snapshot # 0 => infer = "process"
      /\ destroyed \subseteq 1..loads
      /\ 1..loads \ destroyed
           = ({backend[f] : f \in Engines} \cup {snapshot}) \ {0}
  BY DEF TypeOK, BackendInv, BackendLivesWhileHeld
<1>2. /\ backend' = [backend EXCEPT ![e] = 0]
      /\ destroyed' = IF b = 0 \/ b \in {snapshot} THEN destroyed
                      ELSE destroyed \cup {b}
      /\ loads' = loads /\ snapshot' = snapshot /\ infer' = infer
  BY DEF DeactivateEngine, SetBackend, Release
<1>3. {backend[f] : f \in Engines} = Others \cup {b}
  OBVIOUS
<1>4. {backend'[f] : f \in Engines} = Others \cup {0}
  BY <1>1, <1>2
<1>5. b # 0 => b \notin Others
  BY <1>1 DEF Unshared
<1>6. b # 0 => b \in 1..loads
  BY <1>1
<1>7. 1..loads' \ destroyed'
        = ({backend'[f] : f \in Engines} \cup {snapshot'}) \ {0}
  <2> HIDE DEF b, Others
  <2> QED
    BY <1>1, <1>2, <1>3, <1>4, <1>5, <1>6
<1>8. Unshared'
  BY <1>1, <1>2 DEF Unshared
<1>9. (snapshot # 0 => infer = "process")' /\ (destroyed \subseteq 1..loads)'
  <2> HIDE DEF b
  <2> QED
    BY <1>1, <1>2, <1>6
<1> QED
  BY <1>7, <1>8, <1>9 DEF BackendInv, BackendLivesWhileHeld

(* Loading a model keeps it too: what focus_in puts in e's proxy is new.   *)
LEMMA LoadBackend ==
    ASSUME TypeOK, BackendInv, NEW e \in Engines,
           FocusIn(e), UNCHANGED <<snapshot, infer>>
    PROVE  BackendInv'
<1>1. CASE Ready(e) /\ UNCHANGED backendVars
  BY <1>1 DEF BackendInv, Unshared, BackendLivesWhileHeld, backendVars
<1>2. CASE ~Ready(e) /\ SetBackend(e, 0) /\ UNCHANGED loads
  BY <1>2, DropBackend DEF DeactivateEngine
<1>3. CASE /\ ~Ready(e) /\ loads < MaxLoads /\ loads' = loads + 1
           /\ SetBackend(e, loads + 1)
  <2> DEFINE Others == {backend[f] : f \in Engines \ {e}}
  <2>1. /\ backend \in [Engines -> 0..MaxLoads] /\ snapshot \in 0..MaxLoads
        /\ loads \in Nat /\ Unshared
        /\ snapshot # 0 => infer = "process"
        /\ destroyed \subseteq 1..loads
        /\ 1..loads \ destroyed
             = ({backend[f] : f \in Engines} \cup {snapshot}) \ {0}
    BY VoiceAssumption DEF TypeOK, BackendInv, BackendLivesWhileHeld
  <2>2. /\ backend[e] = 0
        /\ backend' = [backend EXCEPT ![e] = loads + 1]
        /\ destroyed' = destroyed /\ loads' = loads + 1
        /\ snapshot' = snapshot /\ infer' = infer
    BY <1>3 DEF SetBackend, Release, Ready
  <2>3. {backend[f] : f \in Engines} = Others \cup {0}
    BY <2>2
  <2>4. {backend'[f] : f \in Engines} = Others \cup {loads + 1}
    BY <2>1, <2>2
  <2>5. \A f \in Engines : backend[f] # loads + 1
    <3> SUFFICES ASSUME NEW f \in Engines, backend[f] = loads + 1
                 PROVE  FALSE
      OBVIOUS
    <3>1. backend[f] \in 1..loads
      BY <2>1
    <3> QED
      BY <2>1, <3>1
  <2>6. 1..loads' = 1..loads \cup {loads + 1} /\ loads + 1 \notin 1..loads
    BY <2>1, <2>2
  <2>7. 1..loads' \ destroyed'
        = ({backend'[f] : f \in Engines} \cup {snapshot'}) \ {0}
    <3>1. loads + 1 # 0 /\ loads + 1 \notin destroyed
      BY <2>1, <2>6
    <3> HIDE DEF Others
    <3> QED
      BY <2>1, <2>2, <2>3, <2>4, <2>6, <3>1
  <2>8. Unshared'
    BY <2>1, <2>2, <2>5 DEF Unshared
  <2>9. (snapshot # 0 => infer = "process")' /\ (destroyed \subseteq 1..loads)'
    BY <2>1, <2>2, <2>6
  <2> QED
    BY <2>7, <2>8, <2>9 DEF BackendInv, BackendLivesWhileHeld
<1> QED
  BY <1>1, <1>2, <1>3 DEF FocusIn

(* A backend is destroyed by the last of the proxies and the inference   *)
(* thread that lets it go, and by nobody before.                         *)
LEMMA BackendStep ==
    TypeOK /\ SessionInv /\ BackendInv /\ [Next]_vars => BackendInv'
<1> SUFFICES ASSUME TypeOK, SessionInv, BackendInv, [Next]_vars
             PROVE  BackendInv'
  OBVIOUS
<1> USE VoiceAssumption DEF TypeOK, SessionInv, BackendInv, Unshared,
   BackendLivesWhileHeld, sessionVars, engineVars, captureVars, audioVars,
   inferVars, backendVars, idleVars
<1>1. CASE StartPressed
  BY <1>1 DEF StartPressed
<1>2. CASE StartCheck
  BY <1>2 DEF StartCheck, Ready
<1>3. CASE LoadModel
  BY <1>3, LoadBackend DEF LoadModel
<1>4. CASE Relock
  BY <1>4 DEF Relock
<1>5. CASE StartClaim
  BY <1>5 DEF StartClaim, MayRecord, Ready
<1>6. CASE OpenSource
  BY <1>6 DEF OpenSource
<1>7. CASE MarkRecording
  BY <1>7 DEF MarkRecording
<1>8. CASE StopPressed
  BY <1>8 DEF StopPressed
<1>9. CASE MarkProcessing
  BY <1>9 DEF MarkProcessing
<1>10. CASE CloseSource
  BY <1>10 DEF CloseSource
<1>11. CASE SpawnInference
  BY <1>11 DEF SpawnInference
<1>12. CASE Dispatch
  BY <1>12 DEF Dispatch
<1>13. CASE Join
  BY <1>13 DEF Join
<1>14. CASE Settle
  BY <1>14 DEF Settle
<1>15. ASSUME NEW e \in Engines, ReloadConfig(e)
       PROVE  BackendInv'
  <2>1. CASE e = active_voice
    BY <1>15, <2>1 DEF ReloadConfig
  <2>2. CASE e # active_voice
    BY <1>15, <2>2, DropBackend DEF ReloadConfig
  <2> QED
    BY <2>1, <2>2
<1>16. CASE Detach
  BY <1>16 DEF Detach
<1>17. CASE FreeJoin
  BY <1>17 DEF FreeJoin
<1>18. CASE FreeIdle
  BY <1>18 DEF FreeIdle
<1>19. CASE PwEnter
  BY <1>19 DEF PwEnter
<1>20. CASE FeedAudio
  BY <1>20 DEF FeedAudio
<1>21. CASE PwFail
  BY <1>21 DEF PwFail
<1>22. CASE InferTake
  BY <1>22 DEF InferTake
<1>23. CASE InferClone
  BY <1>23 DEF InferClone, Ready
<1>24. CASE InferProcess
  BY <1>24 DEF InferProcess, Release
<1>25. CASE InferSignal
  BY <1>25 DEF InferSignal
<1>26. CASE IdleTimeout
  BY <1>26 DEF IdleTimeout
<1>27. CASE IdleUnload
  BY <1>27, DropBackend DEF IdleUnload
<1>28. CASE IdleDisarm
  BY <1>28 DEF IdleDisarm
<1>29. CASE UNCHANGED vars
  BY <1>29 DEF vars
<1> QED
  BY <1>1, <1>2, <1>3, <1>4, <1>5, <1>6, <1>7, <1>8, <1>9, <1>10, <1>11,
     <1>12, <1>13, <1>14, <1>15, <1>16, <1>17, <1>18, <1>19, <1>20, <1>21,
     <1>22, <1>23, <1>24, <1>25, <1>26, <1>27, <1>28, <1>29 DEF Next, Start,
     StopAndInfer, Complete, Free, Capture, Infer, Idle

-----------------------------------------------------------------------------
(* A silent, detached session satisfies the invariant.                   *)
LEMMA IInvInit == Init => IInv
<1> SUFFICES ASSUME Init PROVE IInv
  OBVIOUS
<1> USE VoiceAssumption DEF Init
<1>1. DataTypes
  BY DEF DataTypes, States, MainSteps, InferSteps
<1>2. BoolTypes
  BY DEF BoolTypes
<1>3. TypeOK
  BY <1>1, <1>2 DEF TypeOK, DataTypes, BoolTypes
<1>4. BackendInv
  BY DEF BackendInv, Unshared, BackendLivesWhileHeld
<1> QED
  BY <1>3, <1>4 DEF IInv, LockInv, SessionInv, CaptureInv, AudioInv

(* Every step preserves it.                                              *)
LEMMA IInvStep == IInv /\ [Next]_vars => IInv'
<1> SUFFICES ASSUME IInv, [Next]_vars
             PROVE  IInv'
  OBVIOUS
<1>1. TypeOK'
  BY TypeStep, BoolStep DEF IInv, TypeOK, DataTypes, BoolTypes
<1>2. LockInv' /\ SessionInv' /\ CaptureInv' /\ AudioInv' /\ BackendInv'
  BY LockStep, SessionStep, CaptureStep, AudioStep, BackendStep DEF IInv
<1> QED
  BY <1>1, <1>2 DEF IInv

(* So it always holds.                                                   *)
LEMMA SpecIInv == Spec => []IInv
  BY IInvInit, IInvStep, PTL DEF Spec

(* The variables keep their types.                                       *)
THEOREM VoiceTypes == Spec => []TypeOK
  BY SpecIInv, PTL DEF IInv

(* A loaded model is destroyed when the last proxy or inference thread   *)
(* that holds it lets it go, and not before: the Arc of proxy.rs, under  *)
(* idle unloads, engine switches and loads (session.rs, proxy.rs).       *)
THEOREM BackendsAreCounted == Spec => []BackendLivesWhileHeld
<1>1. IInv => BackendLivesWhileHeld
  BY DEF IInv, BackendInv
<1> QED
  BY <1>1, SpecIInv, PTL

(* While an inference thread runs, the session is PROCESSING with the    *)
(* microphone closed, and the thread works on exactly the audio of its   *)
(* own recording (start, stop and dispatch of session.rs).               *)
THEOREM InferenceIsAlone == Spec => []InferenceOwnsSession
<1>1. IInv => InferenceOwnsSession
  BY DEF IInv, TypeOK, SessionInv, CaptureInv, AudioInv, InferenceOwnsSession
<1> QED
  BY <1>1, SpecIInv, PTL

(* Between two turns of the loop the stream captures only in RECORDING,  *)
(* and no deferred reload is forgotten (pw_capture.c, session.rs).       *)
THEOREM RestsQuietly == Spec => []RestIsQuiet
<1>1. IInv => RestIsQuiet
  BY DEF IInv, TypeOK, States, SessionInv, CaptureInv, RestIsQuiet
<1> QED
  BY <1>1, SpecIInv, PTL

=============================================================================
