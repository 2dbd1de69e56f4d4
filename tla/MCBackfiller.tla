---------------------------- MODULE MCBackfiller ----------------------------
(***************************************************************************)
(* Three calls, one of whose callers may give up and one of which is a dry *)
(* run of a source that is not there; two workers and a queue of one.      *)
(***************************************************************************)
EXTENDS Backfiller, TLC

CONSTANTS j1, j2, j3, a, b, w1, w2

Chain == [valid |-> TRUE, chain |-> TRUE, dry |-> FALSE]
MCRequest ==
    j1 :> Chain @@ j2 :> [Chain EXCEPT !.dry = TRUE] @@ j3 :> [Chain EXCEPT !.chain = FALSE]
MCOneRequest == j1 :> Chain
MCFetches == {<<>>, <<{a}, {b}>>}
=============================================================================
