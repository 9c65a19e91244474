---------------------------- MODULE GrabContract ----------------------------
(***************************************************************************)
(* What the frontend promises about the exclusive keyboard grab, with no   *)
(* handler in sight: the grab and its keymap handshake are one resource    *)
(* with one readiness (docs/explanation/timing-model.md, "Grab + keymap"). *)
(***************************************************************************)

VARIABLES
    focus,    \* a text field has the input method's focus
    grab,     \* the resource's readiness
    keymap    \* the keymap in force was delivered in this grab's epoch

contractVars == <<focus, grab, keymap>>

Readiness == {"absent", "needs_keymap", "ready", "broken"}

Init == focus = FALSE /\ grab = "absent" /\ keymap = FALSE

(* A grab is built for a focused field only, and has to earn `ready`; the  *)
(* same step may give focus, or replace an earlier grab.                   *)
Build ==
    /\ focus' = TRUE
    /\ grab' \in {"needs_keymap", "broken"}
    /\ keymap' = FALSE

(* The compositor's keymap makes a grab ready, or proves it unusable.      *)
Handshake ==
    /\ grab # "absent"
    /\ \/ grab' = "ready" /\ keymap' = TRUE
       \/ grab' = "broken" /\ keymap' = keymap
    /\ UNCHANGED focus

(* A grab may end at any time, and has ended when the focus has.           *)
End ==
    /\ focus' \in BOOLEAN
    /\ grab' = "absent"
    /\ keymap' \in {keymap, FALSE}

Next == Build \/ Handshake \/ End

Spec == Init /\ [][Next]_contractVars
=============================================================================
