------------------------------- MODULE MCTui -------------------------------
(* Features come, go and change their order; no personas, and one retro.   *)
EXTENDS Tui

MCListing ==
    [t \in 0..2 |-> CASE t = 0 -> {<<>>, <<1>>, <<2, 1>>}
                      [] t = 1 -> {<<>>}
                      [] t = 2 -> {<<1>>}]
=============================================================================
