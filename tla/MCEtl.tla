------------------------------- MODULE MCEtl -------------------------------
(***************************************************************************)
(* One offer created, deleted and created again, with an event in between  *)
(* that is refused; another deleted that never was; four liquidity events  *)
(* about the first, of which one is refused and one of an unknown type;    *)
(* channels of two events.                                                 *)
(***************************************************************************)
EXTENDS Etl, TLC

CONSTANTS x, y

MCMargin == <<[kind |-> "created", id |-> x, ok |-> TRUE],
              [kind |-> "deleted", id |-> x, ok |-> TRUE],
              [kind |-> "updated", id |-> x, ok |-> FALSE],
              [kind |-> "created", id |-> x, ok |-> TRUE],
              [kind |-> "deleted", id |-> y, ok |-> TRUE]>>
MCLiquidity == <<[id |-> x, known |-> TRUE, ok |-> TRUE],
                 [id |-> x, known |-> TRUE, ok |-> FALSE],
                 [id |-> x, known |-> FALSE, ok |-> TRUE],
                 [id |-> x, known |-> TRUE, ok |-> TRUE]>>
=============================================================================
