---------------------------- MODULE MCControlPanel ----------------------------
(***************************************************************************)
(* Two keyboard engines, two voice backends, and two values of the other   *)
(* settings.  What the user edits and the bounds are given in the cfg.     *)
(***************************************************************************)
EXTENDS ControlPanel

MCKeyboards == <<"rime", "basic">>
MCBackends == {"whisper", "sherpa-onnx"}
MCFonts == {1, 2}
MCLarger == {2}
MCShortcuts == {"super"}

=============================================================================
