-------------------------- MODULE ProgramAccounts --------------------------
(***************************************************************************)
(* The accounts of the leverage program (types/pool.go): pools, node       *)
(* wallets and positions.  An account is eight bytes that tell its kind    *)
(* and then the kind's fields, one after the other.                        *)
(***************************************************************************)
EXTENDS Naturals, Sequences, SequencesExt

Kinds == {"pool", "wallet", "position"}

Discriminator == 8

\* The widths of the fields, in bytes, in the order the decoders read them.
Widths == [pool     |-> <<1, 32, 8, 32, 8, 8, 32>>,
           wallet   |-> <<8, 8, 1, 2, 32, 32>>,
           position |-> <<32, 8, 8, 8, 8, 8, 32, 32, 8, 8, 1, 8>>]

\* Where field i of an account of kind k ends.
End(k, i) == FoldLeft(+, Discriminator, SubSeq(Widths[k], 1, i))

\* DeserializePool, DeserializeNodeWallet and DeserializePosition give a value
\* for an account of their kind none of whose fields ends beyond its data.
Decodes(k, account) ==
    /\ account.size >= Discriminator
    /\ account.kind = k
    /\ \A i \in DOMAIN Widths[k] : End(k, i) <= account.size

\* The dataSize each fetch asks the chain for.
RequestedSize == [pool |-> 105, wallet |-> 83, position |-> 137]
=============================================================================
