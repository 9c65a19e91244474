------------------------------- MODULE MCTextUi -------------------------------
(***************************************************************************)
(* Two lists of one row each, in a cache of one row, so that each evicts   *)
(* what the other shows; one preedit, two styles.                          *)
(***************************************************************************)
EXTENDS TextUi

MCCompositions ==
    {Idle, [list |-> <<"a">>, preedit |-> "n"], [list |-> <<"b">>, preedit |-> "n"]}

=============================================================================
