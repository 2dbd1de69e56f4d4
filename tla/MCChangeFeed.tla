---------------------------- MODULE MCChangeFeed ----------------------------
(* Two IDs, and a subscriber that leaves the updates out. *)
EXTENDS ChangeFeed, TLC

CONSTANTS i1, i2, s1

MCIds == {i1, i2}
MCSubs == {s1}
MCWanted == s1 :> {"created", "deleted", "overwritten"}
=============================================================================
