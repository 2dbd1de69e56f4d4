------------------------------ MODULE Listing ------------------------------
(***************************************************************************)
(* The queries of the store, local and through gRPC.                       *)
(*                                                                         *)
(* MemoryStore.List filters the offers, sorts them and cuts out a page, in *)
(* one read.  GRPCServer.ListMarginOffers calls it and then counts the     *)
(* store in a second read; GRPCClient answers every query of the           *)
(* MarginOfferStore interface with that one RPC, and a client of the RPC   *)
(* pages through the store by next_offset while has_more is set.  Writers  *)
(* change the store between any two of these reads.                        *)
(*                                                                         *)
(* All that filters and sorting do with a field is compare it, so every    *)
(* field is a number that stands for its place in its order.               *)
(***************************************************************************)
EXTENDS Naturals, Sequences, FiniteSets, SequencesExt

CONSTANTS
    Universe,     \* the offers writers may store, at most one per ID at a time
    Calls,        \* what the client may ask: see Call
    DefaultLimit, \* the page size of a request without one (100 in the code)
    MaxLimit,     \* the largest page the server gives (1000 in the code)
    MaxWrites,    \* bound: how often writers change the store
    None          \* a nil pointer, an empty string

KeyFields == {"type", "collateral", "borrow", "model", "liquidity", "lender"}
RangeFields == {"amount", "rate", "ltv", "created", "updated"}
SortFields == RangeFields \union {"liquidation", "type", "collateral", "borrow", "id"}

Fields == KeyFields \union RangeFields \union SortFields \union {"source"}
Offer == [values: [Fields -> Nat \union {None}], expired: BOOLEAN]

\* types.ListRequest: a field that is not asked for is None.
Request == [is: [KeyFields -> Nat \union {None}], source: Nat \union {None},
            min: [RangeFields -> Nat \union {None}], max: [RangeFields -> Nat \union {None}],
            includeExpired: BOOLEAN, activeOnly: BOOLEAN,
            sortBy: SortFields \union {"unknown", None}, sortOrder: {"asc", "desc", None},
            offset: Nat, limit: Nat]

\* A method of the store and its request.  Pages is not a method: it is a client of
\* ListMarginOffers that begins at the first offer and follows next_offset.
Methods == {"List", "ListBy", "Count", "CountByOfferType", "GetTotalLiquidity", "Pages"}
Call == [method: Methods, by: [KeyFields -> Nat \union {None}], request: Request]

ASSUME ListingAssumption ==
    /\ Universe \subseteq Offer
    /\ \A o \in Universe : \A f \in SortFields : o.values[f] # None
    /\ Calls \subseteq Call
    /\ \A c \in Calls : c.method = "Pages" => c.request.offset = 0
    /\ DefaultLimit \in Nat \ {0} /\ MaxLimit \in Nat \ {0} /\ DefaultLimit <= MaxLimit
    /\ MaxWrites \in Nat
    /\ None \notin Nat

-----------------------------------------------------------------------------
\* matchesFilters.  req.Source is not consulted.
MatchesFilters(o, q) ==
    /\ \A f \in KeyFields : q.is[f] \in {None, o.values[f]}
    /\ \A f \in RangeFields : /\ q.min[f] # None => o.values[f] >= q.min[f]
                              /\ q.max[f] # None => o.values[f] <= q.max[f]
    /\ q.includeExpired \/ ~o.expired
    /\ q.activeOnly => o.values["amount"] > 0 /\ ~o.expired

\* sortOffers: created_timestamp and descending by default; an unknown field is the ID.
SortField(q) == CASE q.sortBy = None -> "created"
                  [] q.sortBy \in SortFields -> q.sortBy
                  [] OTHER -> "id"
Ahead(o, p, q) == LET f == SortField(q)
                  IN  IF q.sortOrder = "asc" THEN o.values[f] < p.values[f]
                                             ELSE o.values[f] > p.values[f]
Tied(o, p, q) == o.values[SortField(q)] = p.values[SortField(q)]

\* The offers come out of a map and the sort is not stable: any arrangement
\* that puts no offer behind one it is ahead of.
Sorted(offers, q) ==
    {s \in SetToSeqs({o \in offers : MatchesFilters(o, q)}) :
        \A i, j \in DOMAIN s : i < j => ~Ahead(s[j], s[i], q)}

\* The part of the sorted offers a request asks for.
Paged(s, q) == SubSeq(s, q.offset + 1,
                      IF q.offset + q.limit > Len(s) THEN Len(s) ELSE q.offset + q.limit)

\* MemoryStore.List: the pages it may return.
List(offers, q) == {Paged(s, q) : s \in Sorted(offers, q)}

\* ListByLender, ListByToken and ListByOfferType: the key is added to the request.
ListBy(offers, by, q) ==
    List(offers, [q EXCEPT !.is = [f \in KeyFields |-> IF by[f] # None THEN by[f] ELSE @[f]]])

\* CountByOfferType reads the length of an index list, which MemoryStore's
\* IndexExact says is this.
CountByOfferType(offers, type) == Cardinality({o \in offers : o.values["type"] = type})

TotalAmount(offers) == MapThenSumSet(LAMBDA o : o.values["amount"], offers)
GetTotalLiquidity(offers, token) ==
    TotalAmount({o \in offers : o.values["borrow"] = token})

\* What MemoryStore may answer to a call.
LocalAnswers(offers, c) ==
    CASE c.method = "List" -> List(offers, c.request)
      [] c.method = "ListBy" -> ListBy(offers, c.by, c.request)
      [] c.method = "Count" -> {Cardinality(offers)}
      [] c.method = "CountByOfferType" -> {CountByOfferType(offers, c.by["type"])}
      [] c.method = "GetTotalLiquidity" -> {GetTotalLiquidity(offers, c.by["borrow"])}
      [] OTHER -> {}

-----------------------------------------------------------------------------
\* protoToListRequest: the limit is put between 1 and MaxLimit; the message has
\* no ranges of LTVs and of update times.
FromProto(q) ==
    [q EXCEPT !.limit = CASE @ = 0 -> DefaultLimit
                          [] @ > MaxLimit -> MaxLimit
                          [] OTHER -> @,
              !.min["ltv"] = None, !.max["ltv"] = None,
              !.min["updated"] = None, !.max["updated"] = None]

NoKey == [f \in KeyFields |-> None]
NoRange == [f \in RangeFields |-> None]
Everything(limit) ==
    [is |-> NoKey, source |-> None, min |-> NoRange, max |-> NoRange, includeExpired |-> FALSE,
     activeOnly |-> FALSE, sortBy |-> None, sortOrder |-> None, offset |-> 0, limit |-> limit]
Only(by, limit) == [Everything(limit) EXCEPT !.is = by]

\* GRPCClient.List keeps the page and the order and drops the filters.
SentList(q) == [Everything(q.limit) EXCEPT !.offset = q.offset, !.sortBy = q.sortBy,
                                           !.sortOrder = q.sortOrder]

\* A mutant of SentListBy: the key is dropped as List drops its filters.
SentWithoutKey(by, q) == SentList(q)
\* GRPCClient.ListByLender, ListByToken and ListByOfferType keep their own key.
SentListBy(by, q) == [SentList(q) EXCEPT !.is = by]

\* GRPCClient.Count reads the total of a page of one offer; CountByOfferType too.
SentCount == Everything(1)
SentCountByOfferType(by) == Only(by, 1)

\* GRPCClient.GetTotalLiquidity adds up the offers of one page: it asks for ten
\* times as many as the server gives.
SentGetTotalLiquidity(by) == Only(by, 10 * MaxLimit)

\* The request a call makes.
Sent(c) == CASE c.method = "List" -> SentList(c.request)
             [] c.method = "ListBy" -> SentListBy(c.by, c.request)
             [] c.method = "Count" -> SentCount
             [] c.method = "CountByOfferType" -> SentCountByOfferType(c.by)
             [] c.method = "GetTotalLiquidity" -> SentGetTotalLiquidity(c.by)
             [] c.method = "Pages" -> c.request

-----------------------------------------------------------------------------
VARIABLES
    offers,       \* the store's offers
    client,       \* the client's call: request in execution, response, what it got
    held,         \* history: the tables the store held, from the call to its answer
    writes        \* how often the store was changed

vars == <<offers, client, held, writes>>

\* What the store's map may hold.
Tables == {t \in SUBSET Universe :
              /\ IsFiniteSet(t)
              /\ \A o, p \in t : o.values["id"] = p.values["id"] => o = p}

\* at: "asked" (nothing read), "listed" (List returned page), "answered".
\* total, more: the rest of the response.  got: all pages so far.
Client == [call: Calls, request: Request, at: {"asked", "listed", "answered"},
           page: Seq(Universe), total: Nat, more: BOOLEAN, got: Seq(Universe)]

\* Types; the server always asks the store for a page of 1 to MaxLimit offers.
TypeOK ==
    /\ offers \in Tables
    /\ client \in Client
    /\ client.request.limit \in 1..MaxLimit
    /\ held \in Seq(Tables)
    /\ writes \in 0..MaxWrites

Fresh(c) == [call |-> c, request |-> FromProto(Sent(c)), at |-> "asked",
             page |-> <<>>, total |-> 0, more |-> FALSE, got |-> <<>>]

\* Whatever the store holds when the client makes its first call.
Init ==
    /\ offers \in Tables
    /\ \E c \in Calls : client = Fresh(c)
    /\ held = <<offers>>
    /\ writes = 0

Done == client.at = "answered" /\ (client.call.method = "Pages" => ~client.more)

\* Any call, single or bulk, that leaves the store with other offers.
Write ==
    /\ writes < MaxWrites /\ writes' = writes + 1
    /\ offers' \in Tables \ {offers}
    /\ held' = IF Done THEN held ELSE Append(held, offers')
    /\ UNCHANGED client

Ask(c) ==
    /\ Done
    /\ client' = Fresh(c)
    /\ held' = <<offers>>
    /\ UNCHANGED <<offers, writes>>

\* ListMarginOffers, the first read.
ServerList ==
    /\ client.at = "asked"
    /\ \E page \in List(offers, client.request) :
          client' = [client EXCEPT !.at = "listed", !.page = page, !.got = @ \o page]
    /\ UNCHANGED <<offers, held, writes>>

\* The second read and the response.
ServerCount ==
    /\ client.at = "listed"
    /\ LET end == client.request.offset + client.request.limit
           total == Cardinality(offers)
       IN  client' = [client EXCEPT !.at = "answered", !.total = total, !.more = end < total]
    /\ UNCHANGED <<offers, held, writes>>

\* Mutants of FollowNextOffset: next_offset repeats the last offer of the page; it
\* is the offset of the page itself.
FollowOverlapping ==
    /\ client.call.method = "Pages" /\ client.at = "answered" /\ client.more
    /\ client' = [client EXCEPT !.at = "asked", !.request.offset =
                     IF client.request.limit = 1 THEN @ + 1 ELSE @ + client.request.limit - 1]
    /\ UNCHANGED <<offers, held, writes>>
FollowInPlace ==
    /\ client.call.method = "Pages" /\ client.at = "answered" /\ client.more
    /\ client' = [client EXCEPT !.at = "asked", !.got = <<>>]
    /\ UNCHANGED <<offers, held, writes>>

\* next_offset = offset + limit.
FollowNextOffset ==
    /\ client.call.method = "Pages" /\ client.at = "answered" /\ client.more
    /\ client' = [client EXCEPT !.at = "asked",
                                !.request.offset = @ + client.request.limit]
    /\ UNCHANGED <<offers, held, writes>>

Next ==
    \/ \E c \in Calls : Ask(c)
    \/ ServerList \/ ServerCount \/ FollowNextOffset
    \/ Write

Spec == Init /\ [][Next]_vars

\* The server runs its handlers and the client follows the pages.
LiveSpec == Spec /\ WF_vars(ServerList) /\ WF_vars(ServerCount) /\ WF_vars(FollowNextOffset)

-----------------------------------------------------------------------------
\* What a caller of GRPCClient is given, once the call is done.
Answer == CASE client.call.method \in {"List", "ListBy"} -> client.page
            [] client.call.method \in {"Count", "CountByOfferType"} -> client.total
            [] client.call.method = "GetTotalLiquidity" -> TotalAmount(ToSet(client.page))

\* The store answers a method through gRPC as it would have answered it itself
\* at some moment between the call and its answer.
AsLocal(method) ==
    Done /\ client.call.method = method =>
        \E i \in DOMAIN held : Answer \in LocalAnswers(held[i], client.call)

\* A request with a page and an order and nothing else.
Bare(q) == q = [Everything(q.limit) EXCEPT !.offset = q.offset, !.sortBy = q.sortBy,
                                           !.sortOrder = q.sortOrder]

\* GRPCClient answers as the store does for Count, and for ListByLender,
\* ListByToken and ListByOfferType when their request filters by nothing else
\* and its limit is one the server keeps, though two reads make one answer.
BareQueriesAsLocal ==
    /\ AsLocal("Count")
    /\ (Done /\ client.call.method = "ListBy" /\ Bare(client.call.request)
          /\ client.call.request.limit \in 1..MaxLimit) => AsLocal("ListBy")

\* The state has its type, and two reads in one answer do not show where the
\* client's request is passed on whole.
ListingInv == TypeOK /\ BareQueriesAsLocal

\* GRPCClient.List "retrieves margin offers with filtering and pagination".
ListAsLocal == AsLocal("List")

\* GRPCClient.CountByOfferType "returns the number of margin offers by offer type".
TypeCountAsLocal == AsLocal("CountByOfferType")

\* GRPCClient.GetTotalLiquidity sums all offers of a borrow token, by a "Large
\* limit to get all offers".
LiquidityAsLocal == AsLocal("GetTotalLiquidity")

\* A client that pages through the store and the offers that were in it, as they
\* are, from its first request to its last response.
Paging == Done /\ client.call.method = "Pages"
Steady == {o \in held[1] : /\ \A i \in DOMAIN held : o \in held[i]
                           /\ MatchesFilters(o, client.request)}
Matched(S) == {o \in S : MatchesFilters(o, client.request)}
Left == Matched(UNION {held[i] \ held[i+1] : i \in 1..(Len(held) - 1)})
Came == Matched(UNION {held[i+1] \ held[i] : i \in 1..(Len(held) - 1)})
Ties(o) == \E p \in Matched(UNION ToSet(held)) \ {o} : Tied(o, p, client.request)
Times(o) == Cardinality({i \in DOMAIN client.got : client.got[i] = o})

\* Such an offer is missed only when an offer ahead of it left meanwhile, or when
\* the order has a tie at it: neither a writer behind it, nor the two reads of
\* the server, nor a total that counts what the filter drops can hide it.
MissedOnlyByDeparture ==
    Paging => \A o \in Steady : Times(o) = 0 =>
                 Ties(o) \/ \E d \in Left : Ahead(d, o, client.request)

\* It comes twice only when one ahead of it came, or at a tie.
RepeatedOnlyByArrival ==
    Paging => \A o \in Steady : Times(o) > 1 =>
                 Ties(o) \/ \E d \in Came : Ahead(d, o, client.request)

\* What a client that pages by offset can count on while others write.
PagesFair == MissedOnlyByDeparture /\ RepeatedOnlyByArrival

\* While nothing is written the pages are the offers that match, each once
\* ("with filtering, pagination, sorting").
StillPagesPartition ==
    Paging /\ Len(held) = 1 => \A o \in Steady : Times(o) = 1

\* A listing restricted to one source has no other source's offers ("List only
\* MarginFi offers").
ListedSource ==
    Paging /\ client.request.source # None =>
        \A o \in ToSet(client.got) : o.values["source"] = client.request.source

\* Following has_more comes to an end, whatever is written meanwhile.
PagesEnd == []<>Done
=============================================================================
