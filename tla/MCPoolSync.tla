---------------------------- MODULE MCPoolSync ----------------------------
(* Two pools at one node wallet and one at another, and one cut short.  Where an
   account is makes no difference: the addresses are symmetric. *)
EXTENDS PoolSync, TLC

CONSTANTS s1, p1, j1, a1, a2, i1, i2

MCCalls == {s1, p1, j1}
MCWithPositions == {p1}
MCJobs == {j1}
MCAddresses == {a1, a2}
MCIds == {i1, i2}
Pool(size, wallet, max, exposure) ==
    [kind |-> "pool", size |-> size, wallet |-> wallet, max |-> max, exposure |-> exposure]
MCAccounts ==
    {Pool(129, i1, 3, 1), Pool(130, i1, 1, 2), Pool(129, i2, 2, 0), Pool(105, i2, 2, 0)}
MCSymmetry == Permutations(MCAddresses)
=============================================================================
