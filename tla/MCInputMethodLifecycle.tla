---------------------- MODULE MCInputMethodLifecycle ----------------------
(* Instances of InputMethodLifecycle for TLC; the bounds are in the cfgs.  *)
EXTENDS InputMethodLifecycle
=============================================================================
