-------------------------------- MODULE Wire --------------------------------
(***************************************************************************)
(* What gRPC makes of an offer on its way into the store and back.         *)
(*                                                                         *)
(* GRPCClient turns offers and filters into messages and answers into      *)
(* offers, GRPCServer turns the messages into the store's types and back.  *)
(* A client that is not GRPCClient (the MarginFi sync, the examples)       *)
(* builds its messages itself.  The timestamps and the fields Offers keeps *)
(* are the ones that can be told apart afterwards; the amounts, the rates  *)
(* and the other optional fields are copied by all four conversions.       *)
(***************************************************************************)
EXTENDS Offers

CONSTANTS
    KnownTypes,   \* the offer types the server's conversions know
    Messages      \* the offers clients other than GRPCClient send

\* An interest model the server does not know is refused as an unknown type is;
\* the type stands for both.
ASSUME WireAssumption ==
    /\ KnownTypes \subseteq Types
    /\ Messages \subseteq Offer

\* convertToProtoMarginOffer.  Source is not set.
ToProto(o) == [o EXCEPT !.source = None]

\* convertToProtoOverwriteFilter.  Source is not set; nil stays nil.
ToProtoFilter(f) == IF f = None THEN None ELSE [f EXCEPT !.source = None]

\* A mutant of Convertible: the switch has a default that lets the name pass.
ConvertibleAlways(p) == TRUE

\* GRPCServer.protoToMarginOffer takes over every field, once the names are known.
Convertible(p) == p.type \in KnownTypes

\* GRPCServer.protoToOverwriteFilter knows the same names; it does take the source over.
ConvertibleFilter(f) == f # None => f.type \in KnownTypes \union {None}

\* marginOfferToProto keeps the source, convertFromProtoMarginOffer does not.
Returned(o) == [o EXCEPT !.source = None]
=============================================================================
