--------------------- MODULE InputMethodLifecycleProofs ---------------------
(***************************************************************************)
(* Proofs about InputMethodLifecycle for every value of its constants.     *)
(* The operators on the keyboard boundary are dealt with first, by lemmas  *)
(* that say what each of them returns; the invariant's proof then has one  *)
(* step per action and never looks inside them.  The second half, about    *)
(* action properties and the refinement of GrabContract, adds what those   *)
(* operators do to the keymap, the owned keys and the carried modifiers.   *)
(***************************************************************************)
EXTENDS InputMethodLifecycle, TLAPS

(* The part of the invariant that speaks of the boundary alone.            *)
KbSafe(k) ==
    /\ k \in KbState
    /\ k.keyboard = "grabbed" /\ k.vk = "ready" => k.keymap_current
    /\ k.keyboard = "grabbed" /\ k.vk = "needs_keymap" /\ ~k.keymap_current
          => k.deadline

(* A grab needs a focused context, and a connection under it.              *)
IInv ==
    /\ TypeOK
    /\ GrabOnlyWhileFocused
    /\ KbSafe(kb)
    /\ ReactivationIsCurrent
    /\ ActiveOnlyWhileFocused
    /\ focused => session
    /\ stage # "run" => kb.keyboard = "none"

-----------------------------------------------------------------------------
(* The first reconnect attempt is within the bound.                        *)
LEMMA FirstAttempt == 0 \in 0..MaxAttempts
<1>1. MaxAttempts \in Nat
  BY ConstantsAssumption
<1> QED
  BY <1>1

(* The gate in front of the virtual keyboard keeps the boundary safe and   *)
(* never creates a grab object or drops one (typio_wl_vk_is_ready).        *)
LEMMA VkGateSafe ==
    ASSUME NEW k, KbSafe(k)
    PROVE  /\ KbSafe(VkGate(k))
           /\ VkGate(k).keyboard = "none" <=> k.keyboard = "none"
BY DEF KbSafe, KbState, VkStates, VkGate, FailSafe, Stop, ReleaseGrab

(* Sending a modifier mask changes no more than the gate and the mask.     *)
LEMMA ForwardModifiersSafe ==
    ASSUME NEW k, KbSafe(k), NEW m \in BOOLEAN
    PROVE  /\ KbSafe(ForwardModifiers(k, m))
           /\ ForwardModifiers(k, m).keyboard = "none" <=> k.keyboard = "none"
<1>1. KbSafe(VkGate(k)) /\ (VkGate(k).keyboard = "none" <=> k.keyboard = "none")
  BY VkGateSafe
<1> QED
  BY <1>1 DEF ForwardModifiers, KbSafe, KbState

(* Resetting the modifiers likewise (typio_wl_vk_reset_modifiers).         *)
LEMMA ResetModifiersSafe ==
    ASSUME NEW k, KbSafe(k)
    PROVE  /\ KbSafe(ResetModifiers(k))
           /\ ResetModifiers(k).keyboard = "none" <=> k.keyboard = "none"
<1>1. KbSafe(VkGate(k)) /\ (VkGate(k).keyboard = "none" <=> k.keyboard = "none")
  BY VkGateSafe
<1> QED
  BY <1>1 DEF ResetModifiers, KbSafe, KbState

(* Giving up the wait for a keymap needs the grab to be gone already       *)
(* (typio_wl_vk_cancel_keymap_wait).                                       *)
LEMMA CancelKeymapWaitSafe ==
    ASSUME NEW k, KbSafe(k), k.keyboard = "none"
    PROVE  KbSafe(CancelKeymapWait(k)) /\ CancelKeymapWait(k).keyboard = "none"
<1>1. CASE k.vk = "needs_keymap" /\ k.keymap_current
  <2>1. CancelKeymapWait(k) = [k EXCEPT !.vk = "ready", !.deadline = FALSE]
    BY <1>1 DEF CancelKeymapWait
  <2> QED
    BY <2>1 DEF KbSafe, KbState, VkStates
<1>2. CASE k.vk = "needs_keymap" /\ ~k.keymap_current
  <2>1. CancelKeymapWait(k) = [k EXCEPT !.vk = k.vk, !.deadline = FALSE]
    BY <1>2 DEF CancelKeymapWait
  <2> QED
    BY <2>1 DEF KbSafe, KbState, VkStates
<1>3. CASE k.vk # "needs_keymap"
  BY <1>3 DEF CancelKeymapWait
<1> QED
  BY <1>1, <1>2, <1>3 DEF KbSafe, KbState

(* A hard reset leaves no grab object (hard_reset_keyboard).               *)
LEMMA HardResetSafe ==
    ASSUME NEW k, KbSafe(k), NEW phase \in Phases
    PROVE  /\ KbSafe(HardReset(k, phase))
           /\ HardReset(k, phase).keyboard = "none"
<1> DEFINE fresh == IF k.carried /\ phase # "deactivating"
                    THEN ResetModifiers(k) ELSE k
           settled == SettleModifiers(fresh, phase)
           dropped == DestroyKeyboard(settled)
<1>1. KbSafe(fresh)
  BY ResetModifiersSafe
<1>2. KbSafe(settled)
  <2> HIDE DEF fresh
  <2>1. KbSafe([ForwardModifiers(fresh, TRUE) EXCEPT !.carried = TRUE])
    <3>1. KbSafe(ForwardModifiers(fresh, TRUE))
      BY <1>1, ForwardModifiersSafe
    <3> QED
      BY <3>1 DEF KbSafe, KbState
  <2>2. KbSafe(ResetModifiers(fresh))
    BY <1>1, ResetModifiersSafe
  <2> QED
    BY <1>1, <2>1, <2>2 DEF SettleModifiers
<1>3. KbSafe(dropped) /\ dropped.keyboard = "none"
  <2> HIDE DEF settled
  <2> QED
    BY <1>2 DEF DestroyKeyboard, KbSafe, KbState
<1>4. KbSafe(CancelKeymapWait(dropped)) /\ CancelKeymapWait(dropped).keyboard = "none"
  BY <1>3, CancelKeymapWaitSafe
<1>5. HardReset(k, phase) = [CancelKeymapWait(dropped) EXCEPT !.owned = FALSE]
  BY DEF HardReset
<1> HIDE DEF dropped
<1> QED
  BY <1>4, <1>5 DEF KbSafe, KbState

(* A rebuild returns a grab whose keymap is awaited under a deadline, or   *)
(* no grab at all (rebuild_keyboard_grab).                                 *)
LEMMA RebuildGrabSafe ==
    ASSUME NEW k, KbSafe(k), NEW phase \in Phases, NEW ok \in BOOLEAN
    PROVE  KbSafe(RebuildGrab(k, phase, ok))
<1> DEFINE reset == HardReset(k, phase)
<1>1. KbSafe(reset)
  BY HardResetSafe
<1> HIDE DEF reset
<1>2. RebuildGrab(k, phase, ok)
        = IF ok THEN ExpectKeymap(CreateKeyboard(reset, ok))
                ELSE CreateKeyboard(reset, ok)
  BY DEF RebuildGrab, reset
<1>3. CASE ok /\ VkExists(reset)
  <2>1. RebuildGrab(k, phase, ok)
          = [reset EXCEPT !.keyboard = "grabbed", !.owned = FALSE,
                          !.keymap_current = FALSE, !.vk = "needs_keymap",
                          !.deadline = TRUE]
    BY <1>1, <1>2, <1>3
    DEF CreateKeyboard, ExpectKeymap, VkExists, KbSafe, KbState
  <2> QED
    BY <1>1, <2>1 DEF KbSafe, KbState, VkStates
<1>4. CASE ok /\ ~VkExists(reset)
  <2>1. RebuildGrab(k, phase, ok)
          = [reset EXCEPT !.keyboard = "grabbed", !.owned = FALSE,
                          !.keymap_current = FALSE]
    BY <1>1, <1>2, <1>4
    DEF CreateKeyboard, ExpectKeymap, VkExists, KbSafe, KbState
  <2> QED
    BY <1>1, <1>4, <2>1 DEF VkExists, KbSafe, KbState, VkStates
<1>5. CASE ~ok
  <2>1. RebuildGrab(k, phase, ok)
          = [reset EXCEPT !.keyboard = "none", !.owned = FALSE,
                          !.keymap_current = FALSE]
    BY <1>2, <1>5 DEF CreateKeyboard
  <2> QED
    BY <1>1, <2>1 DEF KbSafe, KbState
<1> QED
  BY <1>3, <1>4, <1>5

(* The scrub of a resume or a repair leaves no grab object (on_resume).    *)
LEMMA ScrubSafe ==
    ASSUME NEW k, KbSafe(k), NEW phase \in Phases
    PROVE  KbSafe(Scrub(k, phase)) /\ Scrub(k, phase).keyboard = "none"
<1> DEFINE reset == ResetModifiers(HardReset(k, phase))
<1>1. KbSafe(HardReset(k, phase)) /\ HardReset(k, phase).keyboard = "none"
  BY HardResetSafe
<1>2. KbSafe(reset) /\ reset.keyboard = "none"
  BY <1>1, ResetModifiersSafe
<1>3. Scrub(k, phase) = [reset EXCEPT !.carried = FALSE, !.keymap_current = FALSE]
  BY DEF Scrub
<1> HIDE DEF reset
<1> QED
  BY <1>2, <1>3 DEF KbSafe, KbState

(* Dropping every Wayland object leaves no grab object (unbind).           *)
LEMMA UnbindSafe ==
    ASSUME NEW k, KbSafe(k)
    PROVE  KbSafe(Unbind(k)) /\ Unbind(k).keyboard = "none"
BY DEF Unbind, DestroyKeyboard, VkExists, KbSafe, KbState, VkStates

-----------------------------------------------------------------------------
(* A recovery step keeps the invariant (handle_resume).                    *)
LEMMA HandleResumeSafe ==
    ASSUME IInv, stage = "run", HandleResume,
           UNCHANGED <<focusVars, engine, im_serial, done_count, stage,
                       attempt, stop_requested>>,
           diverged' \in BOOLEAN
    PROVE  IInv'
<1> USE DEF IInv, TypeOK
<1> DEFINE scrubbed == Scrub(kb, lifecycle_phase)
<1>1. KbSafe(scrubbed) /\ scrubbed.keyboard = "none"
  BY ScrubSafe
<1>2. \A ok \in BOOLEAN : KbSafe(RebuildGrab(scrubbed, "activating", ok))
  BY <1>1, RebuildGrabSafe DEF Phases
<1>3. last_commit' \in [serial : Nat, dones : Nat]
  BY DEF HandleResume, Commit
<1>4. CASE focused /\ lifecycle_phase = "active" /\ engine
  <2>1. PICK ok \in BOOLEAN :
              /\ kb' = RebuildGrab(scrubbed, "activating", ok)
              /\ lifecycle_phase' = IF ok THEN "active" ELSE "inactive"
    BY <1>4 DEF HandleResume
  <2>2. KbSafe(kb')
    BY <1>2, <2>1
  <2> HIDE DEF scrubbed
  <2> QED
    BY <1>3, <1>4, <2>1, <2>2
    DEF HandleResume, focusVars, Phases, KbSafe, GrabOnlyWhileFocused,
        ReactivationIsCurrent, ActiveOnlyWhileFocused
<1>5. CASE ~(focused /\ lifecycle_phase = "active" /\ engine)
  <2>1. kb' = scrubbed /\ lifecycle_phase' = "inactive"
    BY <1>5 DEF HandleResume
  <2> HIDE DEF scrubbed
  <2> QED
    BY <1>1, <1>3, <2>1
    DEF HandleResume, focusVars, Phases, KbSafe, GrabOnlyWhileFocused,
        ReactivationIsCurrent, ActiveOnlyWhileFocused
<1> QED
  BY <1>4, <1>5

-----------------------------------------------------------------------------
(* The initial states satisfy the invariant.                               *)
LEMMA InitInv == Init => IInv
<1> SUFFICES ASSUME Init PROVE IInv
  OBVIOUS
<1>1. PICK vk \in {"absent", "null", "needs_keymap"} :
         kb = [running |-> TRUE, keyboard |-> "none", xkb |-> FALSE,
               mods |-> FALSE, owned |-> FALSE, carried |-> FALSE, vk |-> vk,
               keymap_current |-> FALSE, deadline |-> FALSE, mask |-> FALSE]
  BY DEF Init
<1>2. KbSafe(kb) /\ kb.keyboard = "none"
  BY <1>1 DEF KbSafe, KbState, VkStates
<1>3. last_commit \in [serial : Nat, dones : Nat]
  BY DEF Init
<1>4. kb \in KbState
  BY <1>2 DEF KbSafe
<1>5. TypeOK
  BY <1>3, <1>4, FirstAttempt
  DEF Init, TypeOK, Stages, Phases
<1> QED
  BY <1>2, <1>5
  DEF Init, IInv, GrabOnlyWhileFocused, ReactivationIsCurrent,
      ActiveOnlyWhileFocused

(* `done` keeps the invariant, whichever branch im_handle_done takes.      *)
LEMMA DoneInv == IInv /\ Done => IInv'
<1> SUFFICES ASSUME IInv, Done PROVE IInv'
  OBVIOUS
<1> USE DEF IInv, TypeOK
<1>1. /\ im_serial' \in Nat /\ done_count' \in Nat
      /\ UNCHANGED <<stage, attempt, stop_requested, session, pending_active,
                     diverged, last_commit>>
      /\ stage = "run"
  BY DEF Done, loopVars, Dispatching
<1>2. CASE session /\ FocusIn
  <2>1. KbSafe(kb') /\ lifecycle_phase' \in Phases /\ engine' \in BOOLEAN
    <3>1. \A ok \in BOOLEAN : KbSafe(RebuildGrab(kb, lifecycle_phase, ok))
      BY RebuildGrabSafe
    <3> QED
      BY <1>2, <3>1 DEF FocusIn, Phases
  <2>2. focused' = TRUE /\ pending_reactivation' = FALSE
    BY <1>2 DEF FocusIn
  <2> QED
    BY <1>1, <1>2, <2>1, <2>2
    DEF KbSafe, GrabOnlyWhileFocused, ReactivationIsCurrent,
        ActiveOnlyWhileFocused
<1>3. CASE session /\ Reactivate
  <2>1. KbSafe(kb') /\ lifecycle_phase' \in Phases
    <3>1. \A ok \in BOOLEAN : KbSafe(RebuildGrab(kb, lifecycle_phase, ok))
      BY RebuildGrabSafe
    <3> QED
      BY <1>3, <3>1 DEF Reactivate, Phases
  <2>2. /\ focused /\ focused' = focused /\ engine' = engine
        /\ pending_reactivation' = FALSE
    BY <1>3 DEF Reactivate
  <2> QED
    BY <1>1, <1>3, <2>1, <2>2
    DEF KbSafe, GrabOnlyWhileFocused, ReactivationIsCurrent,
        ActiveOnlyWhileFocused
<1>4. CASE session /\ FocusOut
  <2>1. KbSafe(kb') /\ kb'.keyboard = "none"
    BY <1>4, HardResetSafe DEF FocusOut
  <2> QED
    BY <1>1, <1>4, <2>1
    DEF FocusOut, Phases, KbSafe, GrabOnlyWhileFocused, ReactivationIsCurrent,
        ActiveOnlyWhileFocused
<1>5. CASE session /\ NoTransition
  <2>1. /\ KbSafe(kb') /\ (kb'.keyboard # "none" => kb.keyboard # "none")
        /\ lifecycle_phase' \in {lifecycle_phase, "inactive"}
    BY <1>5, HardResetSafe DEF NoTransition
  <2> QED
    BY <1>1, <1>5, <2>1
    DEF NoTransition, Phases, KbSafe, GrabOnlyWhileFocused,
        ReactivationIsCurrent, ActiveOnlyWhileFocused
<1>6. CASE ~session
  BY <1>1, <1>6
  DEF Done, phaseVars, GrabOnlyWhileFocused, ReactivationIsCurrent,
      ActiveOnlyWhileFocused
<1> QED
  BY <1>2, <1>3, <1>4, <1>5, <1>6 DEF Done

(* The keyboard boundary's own steps: they touch kb, and perhaps the last  *)
(* commit, and never bring a grab object into being.                       *)
LEMMA BoundaryStepInv ==
    ASSUME IInv, KbSafe(kb'),
           kb'.keyboard # "none" => kb.keyboard # "none",
           last_commit' \in [serial : Nat, dones : Nat],
           stop_requested' \in BOOLEAN,
           UNCHANGED <<stage, attempt>>, UNCHANGED focusVars,
           UNCHANGED phaseVars, UNCHANGED <<engine, diverged>>,
           UNCHANGED <<im_serial, done_count>>
    PROVE  IInv'
BY DEF IInv, TypeOK, KbSafe, focusVars, phaseVars, GrabOnlyWhileFocused,
       ReactivationIsCurrent, ActiveOnlyWhileFocused

(* Every step keeps the invariant.                                         *)
LEMMA NextInv == IInv /\ [Next]_vars => IInv'
<1> SUFFICES ASSUME IInv, [Next]_vars PROVE IInv'
  OBVIOUS
<1> USE DEF IInv
<1>1. CASE Activate
  BY <1>1
  DEF Activate, Dispatching, TypeOK, loopVars, serialVars, Phases, KbSafe,
      GrabOnlyWhileFocused, ReactivationIsCurrent, ActiveOnlyWhileFocused
<1>2. CASE Deactivate
  BY <1>2
  DEF Deactivate, TypeOK, loopVars, serialVars, Phases, KbSafe,
      GrabOnlyWhileFocused, ReactivationIsCurrent, ActiveOnlyWhileFocused
<1>3. CASE Done
  BY <1>3, DoneInv
<1>4. CASE Unavailable \/ KeyRejected \/ EmergencyExit \/ StopSignal
  <2>1. KbSafe(kb') /\ (kb'.keyboard # "none" => kb.keyboard # "none")
    BY <1>4
    DEF Unavailable, KeyRejected, EmergencyExit, StopSignal, Stop, ReleaseGrab,
        KbSafe, KbState
  <2> QED
    BY <1>4, <2>1, BoundaryStepInv
    DEF Unavailable, KeyRejected, EmergencyExit, StopSignal, TypeOK, loopVars,
        serialVars
<1>5. CASE OnKeymap
  <2>1. KbSafe(kb') /\ (kb'.keyboard # "none" => kb.keyboard # "none")
    BY <1>5 DEF OnKeymap, VkExists, KbSafe, KbState, VkStates
  <2> QED
    BY <1>5, <2>1, BoundaryStepInv DEF OnKeymap, TypeOK, loopVars, serialVars
<1>6. CASE OnModifiers
  <2>1. PICK m \in BOOLEAN :
          kb' = ForwardModifiers([kb EXCEPT !.mods = IF kb.xkb THEN m ELSE @], m)
    BY <1>6 DEF OnModifiers
  <2>2. KbSafe([kb EXCEPT !.mods = IF kb.xkb THEN m ELSE @])
    BY DEF KbSafe, KbState
  <2>3. KbSafe(kb') /\ (kb'.keyboard # "none" => kb.keyboard # "none")
    BY <1>6, <2>1, <2>2, ForwardModifiersSafe DEF OnModifiers, Grabbed
  <2> QED
    BY <1>6, <2>3, BoundaryStepInv DEF OnModifiers, TypeOK, loopVars, serialVars
<1>7. CASE KeyPress
  <2>1. KbSafe(VkGate(kb))
    BY VkGateSafe
  <2>2. KbSafe(kb') /\ (kb'.keyboard # "none" => kb.keyboard # "none")
    BY <1>7, <2>1 DEF KeyPress, Grabbed, KbSafe, KbState
  <2>3. last_commit' \in [serial : Nat, dones : Nat]
    BY <1>7 DEF KeyPress, Commit, TypeOK
  <2> QED
    BY <1>7, <2>2, <2>3, BoundaryStepInv DEF KeyPress, TypeOK, loopVars
<1>8. CASE HealthCheck
  <2>1. KbSafe(kb') /\ (kb'.keyboard # "none" => kb.keyboard # "none")
    BY <1>8
    DEF HealthCheck, FailSafe, Stop, ReleaseGrab, KbSafe, KbState
  <2> QED
    BY <1>8, <2>1, BoundaryStepInv DEF HealthCheck, TypeOK, loopVars, serialVars
<1>9. CASE CommitText
  <2>1. last_commit' \in [serial : Nat, dones : Nat]
    BY <1>9 DEF CommitText, Commit, TypeOK
  <2> QED
    BY <1>9, <2>1, BoundaryStepInv DEF CommitText, TypeOK, loopVars
<1>10. CASE EngineActivated \/ ReconcileOk \/ ReconcileArm
  <2>1. /\ UNCHANGED <<stage, attempt, stop_requested>>
        /\ UNCHANGED <<session, pending_active, focused>>
        /\ UNCHANGED <<lifecycle_phase, pending_reactivation, kb>>
        /\ UNCHANGED <<im_serial, done_count, last_commit>>
        /\ engine' \in BOOLEAN /\ diverged' \in BOOLEAN
    BY <1>10
    DEF EngineActivated, ReconcileOk, ReconcileArm, TypeOK, loopVars, focusVars,
        phaseVars, serialVars
  <2> QED
    BY <2>1
    DEF TypeOK, GrabOnlyWhileFocused, ReactivationIsCurrent,
        ActiveOnlyWhileFocused
<1>11. CASE ResumeTick \/ ReconcileRepair
  BY <1>11, HandleResumeSafe
  DEF ResumeTick, ReconcileRepair, Dispatching, loopVars, TypeOK
<1>12. CASE ConnectionLost
  <2>1. KbSafe(kb') /\ kb'.keyboard = "none"
    BY <1>12, UnbindSafe DEF ConnectionLost, KbSafe, KbState
  <2>2. kb' \in KbState
    BY <2>1 DEF KbSafe
  <2>3. /\ stage' = "backoff" /\ attempt' = 0 /\ diverged' = FALSE
        /\ lifecycle_phase' = "inactive" /\ pending_reactivation' = FALSE
        /\ UNCHANGED <<session, pending_active, focused, stop_requested>>
        /\ UNCHANGED <<engine, im_serial, done_count, last_commit>>
    BY <1>12 DEF ConnectionLost, focusVars, serialVars
  <2>4. TypeOK'
    BY <2>2, <2>3, FirstAttempt
    DEF TypeOK, Stages, Phases
  <2> QED
    BY <2>1, <2>3, <2>4
    DEF GrabOnlyWhileFocused, ReactivationIsCurrent, ActiveOnlyWhileFocused
<1>13. CASE BindSucceeds
  <2>1. KbSafe(kb') /\ kb'.keyboard = "none"
    BY <1>13 DEF BindSucceeds, KbSafe, KbState, VkStates
  <2> QED
    BY <1>13, <2>1
    DEF BindSucceeds, TypeOK, Stages, focusVars, phaseVars, KbSafe,
        GrabOnlyWhileFocused, ReactivationIsCurrent, ActiveOnlyWhileFocused
<1>14. CASE BindFails
  BY <1>14, ConstantsAssumption
  DEF BindFails, TypeOK, focusVars, phaseVars, serialVars, KbSafe,
      GrabOnlyWhileFocused, ReactivationIsCurrent, ActiveOnlyWhileFocused
<1>15. CASE Reconnected \/ ReconnectGivesUp
  <2>1. KbSafe(kb') /\ kb'.keyboard = "none"
    BY <1>15 DEF Reconnected, ReconnectGivesUp, Stop, KbSafe, KbState
  <2> QED
    BY <1>15, <2>1, ConstantsAssumption
    DEF Reconnected, ReconnectGivesUp, TypeOK, Stages, focusVars, phaseVars,
        serialVars, KbSafe, GrabOnlyWhileFocused, ReactivationIsCurrent,
        ActiveOnlyWhileFocused
<1>16. CASE LoopExits
  <2>1. KbSafe(kb') /\ kb'.keyboard = "none"
    BY <1>16, UnbindSafe DEF LoopExits
  <2> QED
    BY <1>16, <2>1
    DEF LoopExits, TypeOK, Stages, Phases, serialVars, KbSafe,
        GrabOnlyWhileFocused, ReactivationIsCurrent, ActiveOnlyWhileFocused
<1>17. CASE UNCHANGED vars
  BY <1>17
  DEF vars, TypeOK, KbSafe, GrabOnlyWhileFocused, ReactivationIsCurrent,
      ActiveOnlyWhileFocused
<1> QED
  BY <1>1, <1>2, <1>3, <1>4, <1>5, <1>6, <1>7, <1>8, <1>9, <1>10, <1>11,
     <1>12, <1>13, <1>14, <1>15, <1>16, <1>17
  DEF Next, CompositorEvent, LoopStep, ConnectionStep

(* The strengthened invariant holds of every behaviour.                    *)
LEMMA SpecInv == Spec => []IInv
<1>1. Init => IInv
  BY InitInv
<1>2. IInv /\ [Next]_vars => IInv'
  BY NextInv
<1> QED
  BY <1>1, <1>2, PTL DEF Spec

(* Every variable keeps its type (the whole of TypioWlFrontend's modelled  *)
(* state).                                                                 *)
THEOREM TypeCorrect == Spec => []TypeOK
<1>1. IInv => TypeOK
  BY DEF IInv
<1> QED
  BY <1>1, SpecInv, PTL

(* The keyboard is held exclusively only while a text field has focus,     *)
(* whatever the compositor sends, the engine does or the connection does.  *)
THEOREM GrabNeedsFocus == Spec => []GrabOnlyWhileFocused
<1>1. IInv => GrabOnlyWhileFocused
  BY DEF IInv
<1> QED
  BY <1>1, SpecInv, PTL

(* The virtual keyboard of a live grab is ready only with the keymap of    *)
(* that grab's own generation.                                             *)
THEOREM KeymapIsCurrent == Spec => []ReadyKeymapIsCurrent
<1>1. IInv => ReadyKeymapIsCurrent
  BY DEF IInv, KbSafe, ReadyKeymapIsCurrent
<1> QED
  BY <1>1, SpecInv, PTL

(* A grab still waiting for its keymap can always be released by the       *)
(* health check.                                                           *)
THEOREM WaitHasDeadline == Spec => []WaitingGrabHasDeadline
<1>1. IInv => WaitingGrabHasDeadline
  BY DEF IInv, KbSafe, WaitingGrabHasDeadline
<1> QED
  BY <1>1, SpecInv, PTL

(* A pending reactivation is never stale.                                  *)
THEOREM ReactivationCurrent == Spec => []ReactivationIsCurrent
<1>1. IInv => ReactivationIsCurrent
  BY DEF IInv
<1> QED
  BY <1>1, SpecInv, PTL

(* No key reaches the engine of an unfocused context: the ACTIVE phase     *)
(* implies focus.                                                          *)
THEOREM ActiveNeedsFocus == Spec => []ActiveOnlyWhileFocused
<1>1. IInv => ActiveOnlyWhileFocused
  BY DEF IInv
<1> QED
  BY <1>1, SpecInv, PTL

(* The grab, the ACTIVE phase and a pending reactivation are the focused   *)
(* field's, in every behaviour.                                            *)
THEOREM FocusOwnsEverything == Spec => []NothingOutlivesFocus
<1>1. GrabOnlyWhileFocused /\ ActiveOnlyWhileFocused /\ ReactivationIsCurrent
        => NothingOutlivesFocus
  BY DEF NothingOutlivesFocus
<1> QED
  BY <1>1, GrabNeedsFocus, ActiveNeedsFocus, ReactivationCurrent, PTL

(* The keymap gate is honest and bounded in every behaviour.               *)
THEOREM GateIsSound == Spec => []KeymapGate
<1>1. ReadyKeymapIsCurrent /\ WaitingGrabHasDeadline => KeymapGate
  BY DEF KeymapGate
<1> QED
  BY <1>1, KeymapIsCurrent, WaitHasDeadline, PTL

-----------------------------------------------------------------------------
(* Action properties, and the contract the lifecycle implements.           *)

(* The gate leaves everything of the boundary alone but the readiness of   *)
(* the virtual keyboard, which it may promote or, with the grab, give up.  *)
GateStep(k, l) ==
    /\ l.keymap_current = k.keymap_current
    /\ \/ l.keyboard = k.keyboard /\ l.vk = k.vk
       \/ l.keyboard = k.keyboard /\ k.keymap_current /\ l.vk = "ready"
       \/ l.keyboard # "grabbed"

(* What typio_wl_vk_is_ready may do to the rest of the boundary.           *)
LEMMA VkGateStep ==
    ASSUME NEW k, KbSafe(k)
    PROVE  /\ GateStep(k, VkGate(k))
           /\ VkGate(k).owned = k.owned /\ VkGate(k).carried = k.carried
BY DEF KbSafe, KbState, VkStates, VkGate, FailSafe, Stop, ReleaseGrab, GateStep

(* Forwarding a mask does no more to the boundary than the gate does.      *)
LEMMA ForwardModifiersStep ==
    ASSUME NEW k, KbSafe(k), NEW m \in BOOLEAN
    PROVE  /\ GateStep(k, ForwardModifiers(k, m))
           /\ ForwardModifiers(k, m).owned = k.owned
<1>1. GateStep(k, VkGate(k)) /\ VkGate(k).owned = k.owned /\ KbSafe(VkGate(k))
  BY VkGateStep, VkGateSafe
<1> QED
  BY <1>1 DEF ForwardModifiers, GateStep, KbSafe, KbState

(* Nor does a reset, which may also clear the carried modifiers.           *)
LEMMA ResetModifiersStep ==
    ASSUME NEW k, KbSafe(k)
    PROVE  /\ GateStep(k, ResetModifiers(k))
           /\ ResetModifiers(k).owned = k.owned
           /\ ResetModifiers(k).carried \in {k.carried, FALSE}
<1>1. /\ GateStep(k, VkGate(k)) /\ VkGate(k).owned = k.owned
      /\ VkGate(k).carried = k.carried /\ KbSafe(VkGate(k))
  BY VkGateStep, VkGateSafe
<1> QED
  BY <1>1 DEF ResetModifiers, GateStep, KbSafe, KbState

(* A hard reset disowns the keys, leaves the keymap's currency alone, and  *)
(* carries modifiers over in the middle of a deactivation only.            *)
LEMMA HardResetStep ==
    ASSUME NEW k, KbSafe(k), NEW phase \in Phases
    PROVE  /\ HardReset(k, phase).keymap_current = k.keymap_current
           /\ HardReset(k, phase).owned = FALSE
           /\ k.carried = FALSE /\ phase # "deactivating"
                => HardReset(k, phase).carried = FALSE
<1> DEFINE fresh == IF k.carried /\ phase # "deactivating"
                    THEN ResetModifiers(k) ELSE k
           settled == SettleModifiers(fresh, phase)
           dropped == DestroyKeyboard(settled)
           last == CancelKeymapWait(dropped)
<1>1. /\ KbSafe(fresh) /\ fresh.keymap_current = k.keymap_current
      /\ k.carried = FALSE => fresh.carried = FALSE
  BY ResetModifiersSafe, ResetModifiersStep DEF GateStep
<1>2. /\ KbSafe(settled) /\ settled.keymap_current = k.keymap_current
      /\ k.carried = FALSE /\ phase # "deactivating" => settled.carried = FALSE
  <2> HIDE DEF fresh
  <2>1. CASE ShouldCarry(fresh, phase)
    <3>1. /\ KbSafe(ForwardModifiers(fresh, TRUE))
          /\ GateStep(fresh, ForwardModifiers(fresh, TRUE))
      BY <1>1, ForwardModifiersSafe, ForwardModifiersStep
    <3>2. settled = [ForwardModifiers(fresh, TRUE) EXCEPT !.carried = TRUE]
      BY <2>1 DEF SettleModifiers
    <3>3. phase = "deactivating"
      BY <2>1 DEF ShouldCarry
    <3> HIDE DEF settled
    <3> QED
      BY <1>1, <3>1, <3>2, <3>3 DEF GateStep, KbSafe, KbState
  <2>2. CASE ~ShouldCarry(fresh, phase) /\ fresh.owned
    <3>1. /\ KbSafe(ResetModifiers(fresh))
          /\ GateStep(fresh, ResetModifiers(fresh))
          /\ ResetModifiers(fresh).carried \in {fresh.carried, FALSE}
      BY <1>1, ResetModifiersSafe, ResetModifiersStep
    <3>2. settled = ResetModifiers(fresh)
      BY <2>2 DEF SettleModifiers
    <3> HIDE DEF settled
    <3> QED
      BY <1>1, <3>1, <3>2 DEF GateStep
  <2>3. CASE ~ShouldCarry(fresh, phase) /\ ~fresh.owned
    <3>1. settled = fresh
      BY <2>3 DEF SettleModifiers
    <3> HIDE DEF settled
    <3> QED
      BY <1>1, <3>1
  <2> QED
    BY <2>1, <2>2, <2>3
<1>3. /\ dropped.keymap_current = settled.keymap_current
      /\ dropped.carried = settled.carried
      /\ KbSafe(dropped) /\ dropped.keyboard = "none"
  <2> HIDE DEF settled
  <2> QED
    BY <1>2 DEF DestroyKeyboard, KbSafe, KbState
<1>4. /\ last.keymap_current = dropped.keymap_current
      /\ last.carried = dropped.carried /\ KbSafe(last)
  <2> HIDE DEF dropped
  <2>1. last.keymap_current = dropped.keymap_current /\ last.carried = dropped.carried
    BY <1>3 DEF CancelKeymapWait, KbSafe, KbState
  <2> QED
    BY <1>3, <2>1, CancelKeymapWaitSafe
<1>5. HardReset(k, phase) = [last EXCEPT !.owned = FALSE]
  BY DEF HardReset
<1> HIDE DEF last
<1> QED
  BY <1>2, <1>3, <1>4, <1>5 DEF KbSafe, KbState

(* A rebuilt grab starts a generation of its own.                          *)
LEMMA RebuildGrabStep ==
    ASSUME NEW k, KbSafe(k), NEW phase \in Phases, NEW ok \in BOOLEAN
    PROVE  /\ RebuildGrab(k, phase, ok).keymap_current = FALSE
           /\ RebuildGrab(k, phase, ok).owned = FALSE
           /\ RebuildGrab(k, phase, ok).carried = HardReset(k, phase).carried
           /\ RebuildGrab(k, phase, ok).keyboard
                = IF ok THEN "grabbed" ELSE "none"
<1> DEFINE reset == HardReset(k, phase)
<1>1. KbSafe(reset)
  BY HardResetSafe
<1>2. RebuildGrab(k, phase, ok)
        = IF ok THEN ExpectKeymap(CreateKeyboard(reset, ok))
                ELSE CreateKeyboard(reset, ok)
  BY DEF RebuildGrab
<1> HIDE DEF reset
<1>3. /\ CreateKeyboard(reset, ok).keymap_current = FALSE
      /\ CreateKeyboard(reset, ok).owned = FALSE
      /\ CreateKeyboard(reset, ok).carried = reset.carried
      /\ CreateKeyboard(reset, ok).keyboard = IF ok THEN "grabbed" ELSE "none"
      /\ CreateKeyboard(reset, ok) \in KbState
  BY <1>1 DEF CreateKeyboard, KbSafe, KbState
<1>4. /\ ExpectKeymap(CreateKeyboard(reset, ok)).keymap_current = FALSE
      /\ ExpectKeymap(CreateKeyboard(reset, ok)).owned = FALSE
      /\ ExpectKeymap(CreateKeyboard(reset, ok)).carried = reset.carried
      /\ ExpectKeymap(CreateKeyboard(reset, ok)).keyboard
           = IF ok THEN "grabbed" ELSE "none"
  BY <1>3 DEF ExpectKeymap, KbState
<1> QED
  BY <1>2, <1>3, <1>4 DEF reset

(* The scrub forgets the keymap, the keys and the carried modifiers.       *)
LEMMA ScrubStep ==
    ASSUME NEW k, KbSafe(k), NEW phase \in Phases
    PROVE  /\ Scrub(k, phase).keymap_current = FALSE
           /\ Scrub(k, phase).owned = FALSE
           /\ Scrub(k, phase).carried = FALSE
<1> DEFINE reset == ResetModifiers(HardReset(k, phase))
<1>1. KbSafe(HardReset(k, phase)) /\ HardReset(k, phase).owned = FALSE
  BY HardResetSafe, HardResetStep
<1>2. KbSafe(reset) /\ reset.owned = FALSE
  BY <1>1, ResetModifiersSafe, ResetModifiersStep
<1>3. Scrub(k, phase) = [reset EXCEPT !.carried = FALSE, !.keymap_current = FALSE]
  BY DEF Scrub
<1> HIDE DEF reset
<1> QED
  BY <1>2, <1>3 DEF KbSafe, KbState

-----------------------------------------------------------------------------
(* The focus committed by `done` is the staged one, in every branch of     *)
(* im_handle_done, and no grab outlives it.                                *)
THEOREM DoneCommits == Spec => DoneCommitsFocus
<1> DEFINE Commits == Done /\ session => /\ focused' = pending_active
                                         /\ ~pending_active => kb'.keyboard = "none"
<1>1. IInv /\ [Next]_vars => [Commits]_vars
  <2> SUFFICES ASSUME IInv, Done, session
               PROVE  /\ focused' = pending_active
                      /\ ~pending_active => kb'.keyboard = "none"
    OBVIOUS
  <2> USE DEF IInv, TypeOK
  <2>1. CASE FocusIn \/ Reactivate
    BY <2>1 DEF FocusIn, Reactivate
  <2>2. CASE FocusOut
    BY <2>2, HardResetSafe DEF FocusOut
  <2>3. CASE NoTransition
    BY <2>3, HardResetSafe DEF NoTransition
  <2> QED
    BY <2>1, <2>2, <2>3 DEF Done
<1>2. DoneCommitsFocus <=> [][Commits]_vars
  BY DEF DoneCommitsFocus
<1> QED
  BY <1>1, <1>2, SpecInv, PTL DEF Spec

(* A resume or a repair starts from a clean boundary, whatever phase it    *)
(* interrupts (handle_resume).                                             *)
THEOREM RecoveryIsClean == Spec => RecoveryStartsClean
<1> DEFINE Clean == ResumeTick \/ ReconcileRepair =>
              /\ ~kb'.carried /\ ~kb'.owned /\ ~kb'.keymap_current
              /\ kb'.keyboard # "none" => focused /\ kb'.keyboard = "grabbed"
           scrubbed == Scrub(kb, lifecycle_phase)
<1>1. IInv /\ [Next]_vars => [Clean]_vars
  <2> SUFFICES ASSUME IInv, HandleResume
               PROVE  /\ ~kb'.carried /\ ~kb'.owned /\ ~kb'.keymap_current
                      /\ kb'.keyboard # "none" =>
                            focused /\ kb'.keyboard = "grabbed"
    BY DEF ResumeTick, ReconcileRepair
  <2> USE DEF IInv, TypeOK
  <2>1. /\ KbSafe(scrubbed) /\ scrubbed.keyboard = "none"
        /\ scrubbed.carried = FALSE /\ scrubbed.owned = FALSE
        /\ scrubbed.keymap_current = FALSE
    BY ScrubSafe, ScrubStep
  <2>2. CASE focused /\ lifecycle_phase = "active" /\ engine
    <3>1. PICK ok \in BOOLEAN : kb' = RebuildGrab(scrubbed, "activating", ok)
      BY <2>2 DEF HandleResume
    <3> HIDE DEF scrubbed
    <3>2. HardReset(scrubbed, "activating").carried = FALSE
      BY <2>1, HardResetStep DEF Phases
    <3>3. "activating" \in Phases
      BY DEF Phases
    <3> DEFINE rebuilt == RebuildGrab(scrubbed, "activating", ok)
    <3>4. /\ rebuilt.carried = FALSE /\ rebuilt.owned = FALSE
          /\ rebuilt.keymap_current = FALSE
          /\ rebuilt.keyboard = IF ok THEN "grabbed" ELSE "none"
      BY ONLY ok \in BOOLEAN, <2>1, <3>2, <3>3, RebuildGrabStep
    <3> HIDE DEF rebuilt
    <3> QED
      BY <2>2, <3>1, <3>4 DEF rebuilt
  <2>3. CASE ~(focused /\ lifecycle_phase = "active" /\ engine)
    <3>1. kb' = scrubbed
      BY <2>3 DEF HandleResume
    <3> QED
      BY <2>1, <3>1
  <2> QED
    BY <2>2, <2>3
<1>2. RecoveryStartsClean <=> [][Clean]_vars
  BY DEF RecoveryStartsClean
<1> QED
  BY <1>1, <1>2, SpecInv, PTL DEF Spec

-----------------------------------------------------------------------------
(* Refinement: a step of the contract in terms of the boundary.            *)

(* A step that keeps the focus and does to the boundary no more than the   *)
(* gate is a handshake, an end, or none.                                   *)
LEMMA GateIsContractStep ==
    ASSUME IInv, GateStep(kb, kb'), focused' = focused,
           kb'.keyboard = "grabbed" => kb.keyboard = "grabbed"
    PROVE  [Contract!Next]_(Contract!contractVars)
<1>1. kb \in KbState /\ focused \in BOOLEAN
  BY DEF IInv, TypeOK
<1>2. CASE kb'.keyboard # "grabbed"
  BY <1>1, <1>2
  DEF Contract!Next, Contract!End, GrabReadiness, GateStep
<1>3. CASE kb'.keyboard = "grabbed" /\ kb'.vk = kb.vk
  BY <1>1, <1>3
  DEF Contract!Next, Contract!contractVars, GrabReadiness, GateStep, KbState,
      VkStates
<1>4. CASE kb'.keyboard = "grabbed" /\ kb.keymap_current /\ kb'.vk = "ready"
  BY <1>1, <1>4
  DEF Contract!Next, Contract!Handshake, GrabReadiness, GateStep, KbState,
      VkStates
<1> QED
  BY <1>2, <1>3, <1>4 DEF GateStep

(* A step to no grab object is an end.                                     *)
LEMMA DropIsContractStep ==
    ASSUME kb'.keyboard # "grabbed", focused' \in BOOLEAN,
           kb'.keymap_current \in {kb.keymap_current, FALSE}
    PROVE  Contract!Next
BY DEF Contract!Next, Contract!End, GrabReadiness

(* A rebuilt grab of a focused field is a build, or an end if it failed.   *)
LEMMA RebuildIsContractStep ==
    ASSUME KbSafe(kb'), focused' = TRUE, kb'.keymap_current = FALSE,
           kb'.keyboard \in {"grabbed", "none"}
    PROVE  Contract!Next
<1>1. CASE kb'.keyboard = "grabbed"
  <2>1. kb'.vk # "ready"
    BY <1>1 DEF KbSafe
  <2> QED
    BY <1>1, <2>1 DEF Contract!Next, Contract!Build, GrabReadiness
<1>2. CASE kb'.keyboard = "none"
  BY <1>2, DropIsContractStep
<1> QED
  BY <1>1, <1>2

(* Every branch of `done` is a step of the contract.                       *)
LEMMA DoneIsContractStep ==
    ASSUME IInv, Done
    PROVE  [Contract!Next]_(Contract!contractVars)
<1> USE DEF IInv, TypeOK
<1>1. CASE kb' = kb /\ focused' = focused
  BY <1>1 DEF Contract!contractVars, GrabReadiness
<1>2. CASE session /\ FocusIn /\ kb' = kb
  BY <1>2, DropIsContractStep DEF FocusIn, GrabOnlyWhileFocused
<1>3. CASE session /\ (FocusIn \/ Reactivate) /\ engine'
                   /\ \E ok \in BOOLEAN : kb' = RebuildGrab(kb, lifecycle_phase, ok)
  <2>1. PICK ok \in BOOLEAN : kb' = RebuildGrab(kb, lifecycle_phase, ok)
    BY <1>3
  <2>2. /\ KbSafe(kb') /\ kb'.keymap_current = FALSE
        /\ kb'.keyboard = IF ok THEN "grabbed" ELSE "none"
    BY <2>1, RebuildGrabSafe, RebuildGrabStep
  <2>3. focused' = TRUE
    BY <1>3 DEF FocusIn, Reactivate
  <2> QED
    BY <2>2, <2>3, RebuildIsContractStep
<1>4. CASE session /\ (FocusOut \/ NoTransition)
           /\ kb' = HardReset(kb, lifecycle_phase) /\ focused' \in BOOLEAN
  <2>1. kb'.keyboard = "none" /\ kb'.keymap_current = kb.keymap_current
    BY <1>4, HardResetSafe, HardResetStep
  <2> QED
    BY <1>4, <2>1, DropIsContractStep
<1> QED
  BY <1>1, <1>2, <1>3, <1>4
  DEF Done, FocusIn, Reactivate, FocusOut, NoTransition

(* A resume or a repair is a step of the contract.                         *)
LEMMA RecoveryIsContractStep ==
    ASSUME IInv, HandleResume, focused' = focused
    PROVE  Contract!Next
<1> USE DEF IInv, TypeOK
<1> DEFINE scrubbed == Scrub(kb, lifecycle_phase)
<1>1. /\ KbSafe(scrubbed) /\ scrubbed.keyboard = "none"
      /\ scrubbed.keymap_current = FALSE
  BY ScrubSafe, ScrubStep
<1>2. CASE focused /\ lifecycle_phase = "active" /\ engine
  <2>1. PICK ok \in BOOLEAN : kb' = RebuildGrab(scrubbed, "activating", ok)
    BY <1>2 DEF HandleResume
  <2> HIDE DEF scrubbed
  <2>2. "activating" \in Phases
    BY DEF Phases
  <2> DEFINE rebuilt == RebuildGrab(scrubbed, "activating", ok)
  <2>3. /\ KbSafe(rebuilt) /\ rebuilt.keymap_current = FALSE
        /\ rebuilt.keyboard = IF ok THEN "grabbed" ELSE "none"
    BY ONLY ok \in BOOLEAN, <1>1, <2>2, RebuildGrabSafe, RebuildGrabStep
  <2> HIDE DEF rebuilt
  <2>4. kb' = rebuilt
    BY <2>1 DEF rebuilt
  <2> QED
    BY <1>2, <2>3, <2>4, RebuildIsContractStep
<1>3. CASE ~(focused /\ lifecycle_phase = "active" /\ engine)
  <2>1. kb' = scrubbed
    BY <1>3 DEF HandleResume
  <2> QED
    BY <1>1, <2>1, DropIsContractStep
<1> QED
  BY <1>2, <1>3

(* Every step of the frontend is a step of the contract, or none.          *)
LEMMA NextIsContractStep ==
    ASSUME IInv, [Next]_vars
    PROVE  [Contract!Next]_(Contract!contractVars)
<1> USE DEF IInv, TypeOK
<1>1. CASE kb' = kb /\ focused' = focused
  BY <1>1 DEF Contract!contractVars, GrabReadiness
<1>2. CASE Done
  BY <1>2, DoneIsContractStep
<1>3. CASE Unavailable \/ KeyRejected \/ EmergencyExit \/ StopSignal
             \/ HealthCheck \/ Reconnected \/ ReconnectGivesUp
  <2>1. GateStep(kb, kb') /\ (kb'.keyboard = "grabbed" => kb.keyboard = "grabbed")
    BY <1>3
    DEF Unavailable, KeyRejected, EmergencyExit, StopSignal, HealthCheck,
        Reconnected, ReconnectGivesUp, FailSafe, Stop, ReleaseGrab, GateStep,
        KbState
  <2>2. focused' = focused
    BY <1>3
    DEF Unavailable, KeyRejected, EmergencyExit, StopSignal, HealthCheck,
        Reconnected, ReconnectGivesUp, focusVars
  <2> QED
    BY <2>1, <2>2, GateIsContractStep
<1>4. CASE OnKeymap
  <2>1. PICK dup \in BOOLEAN, compiled \in BOOLEAN :
          kb' = [kb EXCEPT
                   !.xkb = @ \/ compiled,
                   !.vk = IF ~VkExists(kb) THEN @
                          ELSE IF dup THEN "ready" ELSE "broken",
                   !.keymap_current = @ \/ (VkExists(kb) /\ dup),
                   !.deadline = @ /\ ~VkExists(kb)]
    BY <1>4 DEF OnKeymap
  <2>2. focused' = focused /\ kb.keyboard = "grabbed" /\ kb'.keyboard = "grabbed"
    BY <1>4, <2>1 DEF OnKeymap, Grabbed, focusVars, KbState
  <2>3. CASE VkExists(kb) /\ dup
    <3>1. kb'.vk = "ready" /\ kb'.keymap_current = TRUE
      BY <2>1, <2>3 DEF KbState
    <3> QED
      BY <2>2, <3>1 DEF Contract!Next, Contract!Handshake, GrabReadiness
  <2>4. CASE VkExists(kb) /\ ~dup
    <3>1. kb'.vk = "broken" /\ kb'.keymap_current = kb.keymap_current
      BY <2>1, <2>4 DEF KbState
    <3> QED
      BY <2>2, <3>1 DEF Contract!Next, Contract!Handshake, GrabReadiness
  <2>5. CASE ~VkExists(kb)
    <3>1. kb'.vk = kb.vk /\ kb'.keymap_current = kb.keymap_current
      BY <2>1, <2>5 DEF KbState
    <3> QED
      BY <2>2, <3>1, GateIsContractStep DEF GateStep
  <2> QED
    BY <2>3, <2>4, <2>5
<1>5. CASE OnModifiers
  <2>1. PICK m \in BOOLEAN :
          kb' = ForwardModifiers([kb EXCEPT !.mods = IF kb.xkb THEN m ELSE @], m)
    BY <1>5 DEF OnModifiers
  <2> DEFINE seen == [kb EXCEPT !.mods = IF kb.xkb THEN m ELSE @]
  <2>2. /\ KbSafe(seen) /\ seen.keyboard = kb.keyboard /\ seen.vk = kb.vk
        /\ seen.keymap_current = kb.keymap_current
    BY DEF KbSafe, KbState
  <2> HIDE DEF seen
  <2>3. GateStep(seen, kb')
    BY <2>1, <2>2, ForwardModifiersStep DEF seen
  <2>4. GateStep(kb, kb')
    BY <2>2, <2>3 DEF GateStep
  <2> QED
    BY <1>5, <2>4, GateIsContractStep DEF OnModifiers, Grabbed, focusVars
<1>6. CASE KeyPress
  <2>1. /\ GateStep(kb, VkGate(kb)) /\ KbSafe(VkGate(kb))
    BY VkGateStep, VkGateSafe
  <2>2. GateStep(kb, kb')
    BY <1>6, <2>1 DEF KeyPress, GateStep, KbSafe, KbState
  <2> QED
    BY <1>6, <2>2, GateIsContractStep DEF KeyPress, Grabbed, focusVars
<1>7. CASE ResumeTick \/ ReconcileRepair
  BY <1>7, RecoveryIsContractStep DEF ResumeTick, ReconcileRepair, focusVars
<1>8. CASE ConnectionLost \/ LoopExits
  <2>1. /\ kb'.keyboard = "none"
        /\ kb'.keymap_current \in {kb.keymap_current, FALSE}
        /\ focused' \in BOOLEAN
    BY <1>8
    DEF ConnectionLost, LoopExits, Unbind, DestroyKeyboard, focusVars, KbState
  <2> QED
    BY <2>1, DropIsContractStep
<1>9. CASE BindSucceeds
  <2>1. kb'.keyboard = "none" /\ kb'.keymap_current = kb.keymap_current
    BY <1>9 DEF BindSucceeds, KbState
  <2> QED
    BY <1>9, <2>1, DropIsContractStep DEF BindSucceeds, focusVars
<1>10. CASE \/ Activate \/ Deactivate \/ CommitText \/ EngineActivated
            \/ ReconcileOk \/ ReconcileArm \/ BindFails \/ UNCHANGED vars
  BY <1>1, <1>10
  DEF Activate, Deactivate, CommitText, EngineActivated, ReconcileOk,
      ReconcileArm, BindFails, vars, focusVars
<1> QED
  BY <1>2, <1>3, <1>4, <1>5, <1>6, <1>7, <1>8, <1>9, <1>10
  DEF Next, CompositorEvent, LoopStep, ConnectionStep

(* The frontend implements the grab's contract: `ready` is always earned   *)
(* from the compositor in the epoch it is used in, and the grab ends with  *)
(* the focus.                                                              *)
THEOREM ImplementsContract == Spec => GrabContractHolds
<1>1. Init => Contract!Init
  BY DEF Init, Contract!Init, GrabReadiness
<1>2. IInv /\ [Next]_vars => [Contract!Next]_(Contract!contractVars)
  BY NextIsContractStep
<1> QED
  BY <1>1, <1>2, SpecInv, PTL DEF Spec, GrabContractHolds, Contract!Spec
=============================================================================
