--------------------------- MODULE Listing_proofs ---------------------------
(***************************************************************************)
(* Theorems about Listing, for every set of offers and of calls, every     *)
(* page size, and whatever is written while a call is answered.            *)
(*                                                                         *)
(* What a client that pages by offset can count on rests on the place of   *)
(* an offer in the sorted table: one that ties with no other stands right  *)
(* behind those ahead of it, however the sort arranges the rest.  So while *)
(* none of these leaves the place does not go back behind a page already   *)
(* read, and while none comes it does not go forth to one still to read.   *)
(***************************************************************************)
EXTENDS Listing, FiniteSetTheorems, SequenceTheorems, TLAPS

\* The offers of a table that match a request, and those of them ahead of an offer.
MatchedIn(T, q) == {p \in T : MatchesFilters(p, q)}
AheadIn(T, o, q) == {p \in MatchedIn(T, q) : Ahead(p, o, q)}

\* The offset the client has read up to, or will have when this page is answered.
Turn == IF client.at = "asked" THEN client.request.offset
                               ELSE client.request.offset + client.request.limit

Got(o) == o \in ToSet(client.got)
GotOnce(o) == \A i, j \in DOMAIN client.got : client.got[i] = o /\ client.got[j] = o => i = j
Rank(o) == Cardinality(AheadIn(offers, o, client.request))

\* An offer that none ahead of it has left stands behind what was read, or was got.
NotPassed(o) ==
    (\A d \in Left : ~Ahead(d, o, client.request)) /\ ~Got(o) => Turn <= Rank(o)

\* An offer that none has come ahead of was got at most once, and then stands in what
\* was read.
NotPushed(o) ==
    (\A d \in Came : ~Ahead(d, o, client.request)) =>
        GotOnce(o) /\ (Got(o) => Rank(o) < Turn)

PagesRead ==
    client.call.method = "Pages" /\ ~Done =>
        \A o \in Steady : Ties(o) \/ (NotPassed(o) /\ NotPushed(o))

\* The tables held from the call on end with the store's, until the answer.
HeldNow == held # <<>> /\ (~Done => held[Len(held)] = offers)

\* What was read comes from a table held meanwhile.
ReadFromHeld ==
    /\ client.call.method = "Count" /\ client.at = "answered" =>
          \E i \in DOMAIN held : client.total = Cardinality(held[i])
    /\ client.call.method \in {"List", "ListBy"} =>
          /\ client.request = FromProto(Sent(client.call))
          /\ client.at # "asked" =>
                \E i \in DOMAIN held : client.page \in List(held[i], client.request)

\* The inductive invariant.
IInv == TypeOK /\ HeldNow /\ ReadFromHeld /\ PagesRead /\ PagesFair

-----------------------------------------------------------------------------
\* An arrangement of a finite set has each of its elements in one place.
LEMMA Arrangement ==
    ASSUME NEW S, IsFiniteSet(S), NEW s \in SetToSeqs(S)
    PROVE  /\ s \in Seq(S) /\ Len(s) = Cardinality(S) /\ DOMAIN s = 1..Cardinality(S)
           /\ \A i, j \in DOMAIN s : s[i] = s[j] => i = j
           /\ \A x \in S : \E i \in DOMAIN s : s[i] = x
<1> DEFINE n == Cardinality(S)
<1>1. n \in Nat BY FS_CardinalityType
<1>2. s \in [1..n -> S] /\ \A i, j \in 1..n : i # j => s[i] # s[j] BY DEF SetToSeqs
<1>3. s \in Seq(S) /\ Len(s) = n /\ DOMAIN s = 1..n BY <1>1, <1>2
<1>4. s \in Injection(1..n, S) BY <1>2 DEF Injection, IsInjective
<1>5. Cardinality(1..n) = n
  <2>1. Cardinality(1..n) = IF 1 > n THEN 0 ELSE n - 1 + 1 BY <1>1, FS_Interval
  <2>2. QED BY <1>1, <2>1
<1>6. s \in Surjection(1..n, S) BY <1>4, <1>5, FS_Injection
<1>7. \A x \in S : \E i \in 1..n : s[i] = x BY <1>6 DEF Surjection
<1>8. QED BY <1>2, <1>3, <1>7

\* Of two offers that do not tie one is ahead of the other, and none is of itself.
LEMMA OrderTotal ==
    ASSUME NEW o \in Universe, NEW p \in Universe, NEW q
    PROVE  /\ ~Ahead(o, o, q)
           /\ ~Tied(o, p, q) => Ahead(o, p, q) \/ Ahead(p, o, q)
<1>1. SortField(q) \in SortFields /\ SortField(q) \in Fields
  BY DEF SortField, SortFields, RangeFields, Fields
<1>2. \A x \in Universe : x.values[SortField(q)] \in Nat
  <2>1. ASSUME NEW x \in Universe PROVE x.values[SortField(q)] \in Nat
    <3>1. x.values \in [Fields -> Nat \union {None}] BY ListingAssumption DEF Offer
    <3>2. QED BY <1>1, <3>1, ListingAssumption
  <2>2. QED BY <2>1
<1>3. QED BY <1>2 DEF Ahead, Tied

\* A table's offers that match, and those ahead of one, are finitely many offers.
LEMMA MatchedFinite ==
    ASSUME NEW T \in Tables, NEW o, NEW q
    PROVE  /\ MatchedIn(T, q) \subseteq Universe /\ IsFiniteSet(MatchedIn(T, q))
           /\ AheadIn(T, o, q) \subseteq MatchedIn(T, q) /\ IsFiniteSet(AheadIn(T, o, q))
           /\ Cardinality(T) \in Nat /\ Cardinality(AheadIn(T, o, q)) \in Nat
<1>1. T \subseteq Universe /\ IsFiniteSet(T) BY DEF Tables
<1>2. MatchedIn(T, q) \in SUBSET T /\ AheadIn(T, o, q) \in SUBSET T
      /\ AheadIn(T, o, q) \subseteq MatchedIn(T, q)
  BY DEF MatchedIn, AheadIn
<1>3. IsFiniteSet(MatchedIn(T, q)) /\ IsFiniteSet(AheadIn(T, o, q)) BY <1>1, <1>2, FS_Subset
<1>4. QED BY <1>1, <1>2, <1>3, FS_CardinalityType

\* An offer that ties with no other stands right behind those ahead of it.
LEMMA PlaceInOrder ==
    ASSUME NEW T \in Tables, NEW q, NEW s \in Sorted(T, q), NEW o \in MatchedIn(T, q),
           \A p \in MatchedIn(T, q) \ {o} : ~Tied(o, p, q)
    PROVE  LET n == Cardinality(AheadIn(T, o, q))
           IN  /\ n \in Nat /\ n + 1 \in DOMAIN s
               /\ \A i \in DOMAIN s : s[i] = o <=> i = n + 1
<1> DEFINE S == MatchedIn(T, q)
           A == AheadIn(T, o, q)
<1>1. S \subseteq Universe /\ IsFiniteSet(S) /\ A \subseteq S BY MatchedFinite
<1>2. s \in SetToSeqs(S) /\ \A i, j \in DOMAIN s : i < j => ~Ahead(s[j], s[i], q)
  BY DEF Sorted, MatchedIn
<1> HIDE DEF S
<1>3. /\ s \in Seq(S) /\ DOMAIN s = 1..Cardinality(S) /\ Cardinality(S) \in Nat
      /\ \A i, j \in DOMAIN s : s[i] = s[j] => i = j
      /\ \A x \in S : \E i \in DOMAIN s : s[i] = x
  BY <1>1, <1>2, Arrangement, FS_CardinalityType
<1>4. PICK r \in DOMAIN s : s[r] = o BY <1>3 DEF S
<1>5. \A i \in DOMAIN s : s[i] \in S BY <1>3
<1>6. r \in Nat /\ 1 <= r /\ r <= Cardinality(S) BY <1>3, <1>4
<1>7. \A i \in DOMAIN s : Ahead(s[i], o, q) <=> i < r
  <2> SUFFICES ASSUME NEW i \in DOMAIN s PROVE Ahead(s[i], o, q) <=> i < r OBVIOUS
  <2>1. i \in Nat /\ s[i] \in Universe /\ o \in Universe BY <1>1, <1>3, <1>4, <1>5
  <2>2. CASE i = r BY <1>4, <1>6, <2>1, <2>2, OrderTotal
  <2>3. CASE i > r BY <1>2, <1>4, <1>6, <2>1, <2>3
  <2>4. CASE i < r
    <3>1. s[i] # o BY <1>3, <1>4, <1>6, <2>1, <2>4
    <3>2. ~Tied(o, s[i], q) BY <1>5, <3>1 DEF S
    <3>3. ~Ahead(o, s[i], q) BY <1>2, <1>4, <2>4
    <3>4. QED BY <2>1, <2>4, <3>2, <3>3, OrderTotal
  <2>5. QED BY <1>6, <2>1, <2>2, <2>3, <2>4
<1>8. Cardinality(A) = r - 1
  <2> DEFINE D == 1..(r - 1)
             f == [i \in D |-> s[i]]
  <2>1. D \subseteq DOMAIN s /\ \A i \in DOMAIN s : i \in D <=> i < r BY <1>3, <1>6
  <2>2. \A i \in D : s[i] \in A
    <3>1. \A i \in D : s[i] \in S /\ Ahead(s[i], o, q) BY <1>5, <1>7, <2>1
    <3>2. QED BY <3>1 DEF AheadIn, S
  <2>3. f \in Injection(D, A)
    <3>1. f \in [D -> A] BY <2>2
    <3>2. \A i, j \in D : f[i] = f[j] => i = j BY <1>3, <2>1
    <3>3. QED BY <3>1, <3>2 DEF Injection, IsInjective
  <2>4. f \in Surjection(D, A)
    <3>1. ASSUME NEW x \in A PROVE \E i \in D : f[i] = x
      <4>1. x \in S /\ Ahead(x, o, q) BY <3>1 DEF AheadIn, S
      <4>2. PICK i \in DOMAIN s : s[i] = x BY <1>3, <4>1
      <4>3. i \in D BY <1>7, <2>1, <4>1, <4>2
      <4>4. QED BY <4>2, <4>3
    <3>2. QED BY <2>2, <3>1 DEF Surjection
  <2>5. IsFiniteSet(D) /\ Cardinality(D) = r - 1
    <3>1. IsFiniteSet(D) /\ Cardinality(D) = IF 1 > r - 1 THEN 0 ELSE (r - 1) - 1 + 1
      BY <1>6, FS_Interval
    <3>2. QED BY <1>6, <3>1
  <2> HIDE DEF f, D, A
  <2>6. f \in Injection(D, A) <=> Cardinality(A) = Cardinality(D) BY <2>4, <2>5, FS_Surjection
  <2>7. QED BY <2>3, <2>5, <2>6
<1>9. \A i \in DOMAIN s : s[i] = o <=> i = r BY <1>3, <1>4
<1>10. QED BY <1>4, <1>6, <1>8, <1>9

\* A page has the places behind its offset, as far as its limit and the table go.
LEMMA PageOf ==
    ASSUME NEW s \in Seq(Universe), NEW q, q.offset \in Nat, q.limit \in Nat
    PROVE  LET page == Paged(s, q)
           IN  /\ page \in Seq(Universe)
               /\ \A k \in DOMAIN page : /\ q.offset + k \in DOMAIN s /\ k <= q.limit
                                         /\ page[k] = s[q.offset + k]
               /\ \A i \in DOMAIN s : q.offset < i /\ i <= q.offset + q.limit
                                      => i - q.offset \in DOMAIN page
<1> DEFINE m == q.offset + 1
           n == IF q.offset + q.limit > Len(s) THEN Len(s) ELSE q.offset + q.limit
           page == Paged(s, q)
<1>1. page = SubSeq(s, m, n) BY DEF Paged
<1>2. /\ Len(s) \in Nat /\ DOMAIN s = 1..Len(s) /\ m \in Int /\ n \in Int /\ m >= 1
      /\ n <= Len(s) /\ n <= q.offset + q.limit
  BY LenProperties
<1>3. \A i \in m..n : s[i] \in Universe BY <1>2, ElementOfSeq
<1>4. (n >= Len(s) \/ n >= q.offset + q.limit) /\ m = q.offset + 1 BY <1>2
<1> HIDE DEF m, n, page
<1>5. /\ page \in Seq(Universe) /\ Len(page) = IF m <= n THEN n - m + 1 ELSE 0
      /\ \A i \in 1..(n - m + 1) : page[i] = s[m + i - 1]
  BY <1>1, <1>2, <1>3, SubSeqProperties
<1>6. DOMAIN page = 1..(n - m + 1)
  <2>1. DOMAIN page = 1..Len(page) BY <1>5, LenProperties
  <2>2. QED BY <1>2, <1>5, <2>1
<1>7. ASSUME NEW k \in DOMAIN page
      PROVE  /\ q.offset + k \in DOMAIN s /\ k <= q.limit
             /\ page[k] = s[q.offset + k]
  <2>1. k \in Nat /\ 1 <= k /\ k <= n - m + 1 BY <1>2, <1>6
  <2>2. m + k - 1 = q.offset + k BY <1>4, <2>1
  <2>3. q.offset + k <= n BY <1>2, <1>4, <2>1
  <2>4. q.offset + k \in 1..Len(s) /\ k <= q.limit BY <1>2, <2>1, <2>3
  <2>5. QED BY <1>2, <1>5, <1>6, <2>2, <2>4
<1>8. ASSUME NEW i \in DOMAIN s, q.offset < i, i <= q.offset + q.limit
      PROVE  i - q.offset \in DOMAIN page
  BY <1>2, <1>4, <1>6, <1>8
<1>9. QED BY <1>5, <1>7, <1>8 DEF page

\* A page of the store has an offer that ties with no other if and only if its place,
\* behind those ahead of it, is in the page, and has it once.
LEMMA OnPage ==
    ASSUME NEW T \in Tables, NEW q \in Request, NEW page \in List(T, q),
           NEW o \in MatchedIn(T, q), \A p \in MatchedIn(T, q) \ {o} : ~Tied(o, p, q)
    PROVE  LET n == Cardinality(AheadIn(T, o, q))
           IN  /\ o \in ToSet(page) <=> q.offset <= n /\ n < q.offset + q.limit
               /\ \A i, j \in DOMAIN page : page[i] = o /\ page[j] = o => i = j
<1> DEFINE n == Cardinality(AheadIn(T, o, q))
<1>1. PICK s \in Sorted(T, q) : page = Paged(s, q) BY DEF List
<1>2. n \in Nat /\ n + 1 \in DOMAIN s /\ \A i \in DOMAIN s : s[i] = o <=> i = n + 1
  BY PlaceInOrder
<1>3. s \in Seq(Universe)
  <2>1. MatchedIn(T, q) \subseteq Universe /\ IsFiniteSet(MatchedIn(T, q)) BY MatchedFinite
  <2>2. s \in SetToSeqs(MatchedIn(T, q)) BY DEF Sorted, MatchedIn
  <2>3. s \in Seq(MatchedIn(T, q)) BY <2>1, <2>2, Arrangement
  <2>4. QED BY <2>1, <2>3
<1>4. q.offset \in Nat /\ q.limit \in Nat BY DEF Request
<1>5. /\ page \in Seq(Universe)
      /\ \A k \in DOMAIN page : /\ q.offset + k \in DOMAIN s /\ k <= q.limit
                                /\ page[k] = s[q.offset + k]
      /\ \A i \in DOMAIN s : q.offset < i /\ i <= q.offset + q.limit
                             => i - q.offset \in DOMAIN page
  BY <1>1, <1>3, <1>4, PageOf
<1> HIDE DEF n
<1>6. \A k \in DOMAIN page : k \in Nat /\ k >= 1 BY <1>5, LenProperties
<1>7. \A k \in DOMAIN page : page[k] = o <=> q.offset + k = n + 1 BY <1>2, <1>5
<1>8. o \in ToSet(page) => q.offset <= n /\ n < q.offset + q.limit
  <2> SUFFICES ASSUME NEW k \in DOMAIN page, page[k] = o
               PROVE  q.offset <= n /\ n < q.offset + q.limit
    BY DEF ToSet
  <2>1. q.offset + k = n + 1 /\ k <= q.limit /\ k \in Nat /\ k >= 1 BY <1>5, <1>6, <1>7
  <2>2. QED BY <1>2, <1>4, <2>1
<1>9. q.offset <= n /\ n < q.offset + q.limit => o \in ToSet(page)
  <2> SUFFICES ASSUME q.offset <= n, n < q.offset + q.limit PROVE o \in ToSet(page) OBVIOUS
  <2>1. n + 1 - q.offset \in DOMAIN page BY <1>2, <1>4, <1>5
  <2>2. q.offset + (n + 1 - q.offset) = n + 1 BY <1>2, <1>4
  <2>3. QED BY <1>7, <2>1, <2>2 DEF ToSet
<1>10. \A i, j \in DOMAIN page : page[i] = o /\ page[j] = o => i = j
  BY <1>2, <1>4, <1>6, <1>7
<1>11. QED BY <1>8, <1>9, <1>10 DEF n
-----------------------------------------------------------------------------
\* Filters and order of a request do not depend on the page it asks for.
LEMMA PageAside ==
    ASSUME NEW q \in Request, NEW n, NEW r, r = [q EXCEPT !.offset = n]
    PROVE  /\ \A o : MatchesFilters(o, r) <=> MatchesFilters(o, q)
           /\ \A o, p : /\ Ahead(o, p, r) <=> Ahead(o, p, q)
                        /\ Tied(o, p, r) <=> Tied(o, p, q)
<1>1. /\ r.is = q.is /\ r.min = q.min /\ r.max = q.max
      /\ r.includeExpired = q.includeExpired /\ r.activeOnly = q.activeOnly
      /\ r.sortBy = q.sortBy /\ r.sortOrder = q.sortOrder
  BY DEF Request
<1>2. SortField(r) = SortField(q) BY <1>1 DEF SortField
<1>3. QED BY <1>1, <1>2 DEF MatchesFilters, Ahead, Tied

\* A request without filters is one, and so is what the server makes of a request.
LEMMA RequestsTyped ==
    /\ \A n \in Nat : Everything(n) \in Request
    /\ \A q \in Request : /\ FromProto(q) \in Request /\ FromProto(q).limit \in 1..MaxLimit
                          /\ FromProto(q).offset = q.offset
<1>1. ASSUME NEW n \in Nat PROVE Everything(n) \in Request
  BY <1>1 DEF Everything, Request, NoKey, NoRange
<1>2. ASSUME NEW q \in Request
      PROVE  /\ FromProto(q) \in Request /\ FromProto(q).limit \in 1..MaxLimit
             /\ FromProto(q).offset = q.offset
  <2> DEFINE limit == CASE q.limit = 0 -> DefaultLimit
                        [] q.limit > MaxLimit -> MaxLimit
                        [] OTHER -> q.limit
             Clipped == {r \in Request : r.limit \in 1..MaxLimit /\ r.offset = q.offset}
             r1 == [q EXCEPT !.limit = limit]
             r2 == [r1 EXCEPT !.min["ltv"] = None]
             r3 == [r2 EXCEPT !.max["ltv"] = None]
             r4 == [r3 EXCEPT !.min["updated"] = None]
             r5 == [r4 EXCEPT !.max["updated"] = None]
  <2>1. q.limit \in Nat BY DEF Request
  <2>2. limit \in 1..MaxLimit /\ limit \in Nat
    BY <2>1, ListingAssumption
  <2>3. FromProto(q) = r5 BY DEF FromProto
  <2> HIDE DEF limit
  <2>4. r1 \in Clipped BY <2>2 DEF Request
  <2>5. ASSUME NEW r \in Clipped, NEW f \in RangeFields
        PROVE  [r EXCEPT !.min[f] = None] \in Clipped /\ [r EXCEPT !.max[f] = None] \in Clipped
    BY DEF Request
  <2>6. "ltv" \in RangeFields /\ "updated" \in RangeFields BY DEF RangeFields
  <2> HIDE DEF r1, Clipped
  <2>7. r5 \in Clipped
    <3>1. r2 \in Clipped BY <2>4, <2>5, <2>6
    <3> HIDE DEF r2
    <3>2. r3 \in Clipped BY <2>5, <2>6, <3>1
    <3> HIDE DEF r3
    <3>3. r4 \in Clipped BY <2>5, <2>6, <3>2
    <3> HIDE DEF r4
    <3>4. QED BY <2>5, <2>6, <3>3
  <2>8. QED BY <2>3, <2>7 DEF Clipped
<1>3. QED BY <1>1, <1>2

\* What a call asks of the server is a request.
LEMMA SentTyped ==
    ASSUME NEW c \in Calls
    PROVE  /\ Sent(c) \in Request
           /\ c.method = "Pages" => Sent(c) = c.request /\ Sent(c).offset = 0
<1>1. /\ c.method \in Methods /\ c.request \in Request
      /\ c.by \in [KeyFields -> Nat \union {None}]
      /\ c.method = "Pages" => c.request.offset = 0
  BY ListingAssumption DEF Call
<1>2. \A n \in Nat : Everything(n) \in Request /\ Only(c.by, n) \in Request
  BY <1>1, RequestsTyped DEF Only, Request
<1>3. c.request.limit \in Nat /\ 10 * MaxLimit \in Nat BY <1>1, ListingAssumption DEF Request
<1>4. SentList(c.request) \in Request BY <1>1, <1>2, <1>3 DEF SentList, Request
<1>5. SentListBy(c.by, c.request) \in Request BY <1>1, <1>4 DEF SentListBy, Request
<1>6. Sent(c) \in Request
  BY <1>1, <1>2, <1>3, <1>4, <1>5
  DEF Sent, Methods, SentCount, SentCountByOfferType, SentGetTotalLiquidity
<1>7. c.method = "Pages" => Sent(c) = c.request BY DEF Sent
<1>8. QED BY <1>1, <1>6, <1>7

\* A call begins with the request as the server takes it, and nothing read.
LEMMA FreshTyped ==
    ASSUME NEW c \in Calls
    PROVE  /\ Fresh(c) \in Client /\ Fresh(c).request.limit \in 1..MaxLimit
           /\ c.method = "Pages" => Fresh(c).request.offset = 0
<1> DEFINE r == FromProto(Sent(c))
<1>1. r \in Request /\ r.limit \in 1..MaxLimit /\ (c.method = "Pages" => r.offset = 0)
  BY SentTyped, RequestsTyped
<1>2. Fresh(c) = [call |-> c, request |-> r, at |-> "asked", page |-> <<>>, total |-> 0,
                  more |-> FALSE, got |-> <<>>]
  BY DEF Fresh
<1>3. <<>> \in Seq(Universe) OBVIOUS
<1> HIDE DEF r
<1>4. Fresh(c) \in Client BY <1>1, <1>2, <1>3 DEF Client
<1>5. QED BY <1>1, <1>2, <1>4

\* The state when a call has just been made.
Asked ==
    /\ offers \in Tables /\ writes \in 0..MaxWrites
    /\ \E c \in Calls : client = Fresh(c)
    /\ held = <<offers>>

\* The first moment of a call has the invariant: nothing was read.
LEMMA Begins == Asked => IInv
<1> SUFFICES ASSUME Asked PROVE IInv OBVIOUS
<1>1. PICK c \in Calls : client = Fresh(c) BY DEF Asked
<1>2. held \in Seq(Tables) /\ Len(held) = 1 /\ held[1] = offers /\ offers \in Tables
      /\ held # <<>>
  BY DEF Asked
<1>3. TypeOK BY <1>1, <1>2, FreshTyped DEF TypeOK, Asked
<1>4. client.at = "asked" /\ client.got = <<>> /\ client.call = c
      /\ client.request = FromProto(Sent(c))
  BY <1>1 DEF Fresh
<1>5. HeldNow BY <1>2 DEF HeldNow
<1>6. ReadFromHeld BY <1>4 DEF ReadFromHeld
<1>7. PagesRead
  <2> SUFFICES ASSUME c.method = "Pages", NEW o PROVE NotPassed(o) /\ NotPushed(o)
    BY <1>4 DEF PagesRead
  <2>1. Turn = 0 BY <1>1, <1>4, FreshTyped DEF Turn
  <2>2. Rank(o) \in Nat BY <1>2, MatchedFinite DEF Rank
  <2>3. ~Got(o) /\ GotOnce(o) BY <1>4 DEF Got, GotOnce, ToSet
  <2>4. QED BY <2>1, <2>2, <2>3 DEF NotPassed, NotPushed
<1>8. PagesFair
  BY <1>4 DEF PagesFair, MissedOnlyByDeparture, RepeatedOnlyByArrival, Paging, Done
<1>9. QED BY <1>3, <1>5, <1>6, <1>7, <1>8 DEF IInv

\* So has the first moment of a call made later.
LEMMA BeginsAgain == Asked' => IInv'
BY Begins, PTL

-----------------------------------------------------------------------------
\* The client's next request is this one, or this one for another page.
SameFilters == client'.request = client.request
               \/ \E n \in Nat : client'.request = [client.request EXCEPT !.offset = n]

\* While no table comes to those held, what they say of the offers stays.
LEMMA SameTables ==
    ASSUME client.request \in Request, SameFilters, UNCHANGED held
    PROVE  /\ Steady' = Steady /\ Left' = Left /\ Came' = Came
           /\ \A o : Ties(o)' <=> Ties(o)
           /\ \A o, p : Ahead(o, p, client'.request) <=> Ahead(o, p, client.request)
           /\ \A o : MatchesFilters(o, client'.request) <=> MatchesFilters(o, client.request)
<1> DEFINE q == client.request
           r == client'.request
<1>1. /\ \A o : MatchesFilters(o, r) <=> MatchesFilters(o, q)
      /\ \A o, p : /\ Ahead(o, p, r) <=> Ahead(o, p, q)
                   /\ Tied(o, p, r) <=> Tied(o, p, q)
  BY PageAside DEF SameFilters
<1> HIDE DEF q, r
<1>2. Steady' = Steady BY <1>1 DEF Steady, q, r
<1>3. Left' = Left /\ Came' = Came BY <1>1 DEF Left, Came, Matched, q, r
<1>4. \A o : Ties(o)' <=> Ties(o) BY <1>1 DEF Ties, Matched, q, r
<1>5. QED BY <1>1, <1>2, <1>3, <1>4 DEF q, r

\* What the pages said of an offer stands while neither they nor the tables change.
LEMMA SamePages ==
    ASSUME client.request \in Request, SameFilters, UNCHANGED <<offers, held>>,
           client'.got = client.got, Turn' = Turn,
           client'.call = client.call, PagesRead, ~Done
    PROVE  PagesRead'
<1>1. /\ Steady' = Steady /\ Left' = Left /\ Came' = Came
      /\ \A o : Ties(o)' <=> Ties(o)
      /\ \A o, p : Ahead(o, p, client'.request) <=> Ahead(o, p, client.request)
      /\ \A o : MatchesFilters(o, client'.request) <=> MatchesFilters(o, client.request)
  BY SameTables
<1>2. \A o : Rank(o)' = Rank(o) BY <1>1 DEF Rank, AheadIn, MatchedIn
<1>3. \A o : (Got(o)' <=> Got(o)) /\ (GotOnce(o)' <=> GotOnce(o)) BY DEF Got, GotOnce
<1>4. \A o : NotPassed(o) => NotPassed(o)' BY <1>1, <1>2, <1>3 DEF NotPassed
<1>5. \A o : NotPushed(o) => NotPushed(o)' BY <1>1, <1>2, <1>3 DEF NotPushed
<1>6. QED BY <1>1, <1>4, <1>5 DEF PagesRead

\* A steady offer that ties with no other is in the store, and does not tie there.
LEMMA SteadyStands ==
    ASSUME TypeOK, HeldNow, ~Done, NEW o \in Steady, ~Ties(o)
    PROVE  /\ o \in MatchedIn(offers, client.request)
           /\ \A p \in MatchedIn(offers, client.request) \ {o} : ~Tied(o, p, client.request)
<1>1. held \in Seq(Tables) /\ held # <<>> /\ held[Len(held)] = offers
  BY DEF TypeOK, HeldNow
<1>2. Len(held) \in DOMAIN held BY <1>1
<1>3. o \in offers /\ MatchesFilters(o, client.request) BY <1>1, <1>2 DEF Steady
<1>4. offers \in ToSet(held) BY <1>1, <1>2 DEF ToSet
<1>5. offers \subseteq UNION ToSet(held) BY <1>4
<1>6. QED BY <1>3, <1>5 DEF MatchedIn, Ties, Matched

-----------------------------------------------------------------------------
\* A write that comes while a call is answered is one table more that was held: an
\* offer ahead of which none left has no fewer ahead of it, and one ahead of which none
\* came no more.
LEMMA WritePages ==
    ASSUME TypeOK, HeldNow, PagesRead, ~Done, NEW T \in Tables,
           offers' = T, held' = Append(held, T), UNCHANGED client
    PROVE  PagesRead'
<1> DEFINE q == client.request
           n == Len(held)
<1>1. held \in Seq(Tables) /\ held # <<>> /\ held[n] = offers /\ offers \in Tables
  BY DEF TypeOK, HeldNow
<1>2. /\ n \in Nat /\ n >= 1 /\ DOMAIN held = 1..n /\ DOMAIN held' = 1..(n + 1)
      /\ Len(held') = n + 1
      /\ held'[n + 1] = T /\ \A i \in 1..n : held'[i] = held[i]
  BY <1>1
<1> HIDE DEF n
<1>3. client' = client /\ client'.request = q OBVIOUS
<1>4. Steady' \subseteq Steady
  <2>1. 1 \in 1..n BY <1>2
  <2>2. held'[1] = held[1] BY <1>2, <2>1
  <2>3. \A i \in DOMAIN held : i \in DOMAIN held' /\ held'[i] = held[i] BY <1>2
  <2>4. QED BY <1>3, <2>2, <2>3 DEF Steady
<1>5. \A o : Ties(o) => Ties(o)'
  <2>1. ToSet(held) \subseteq ToSet(held') BY <1>2 DEF ToSet
  <2>2. UNION ToSet(held) \subseteq UNION ToSet(held') BY <2>1
  <2>3. QED BY <1>3, <2>2 DEF Ties, Matched
<1>6. Left \subseteq Left' /\ Came \subseteq Came'
      /\ MatchedIn(offers \ T, q) \subseteq Left' /\ MatchedIn(T \ offers, q) \subseteq Came'
  <2>1. \A i \in 1..(n - 1) : /\ i \in 1..n /\ held'[i] = held[i]
                              /\ i + 1 \in 1..n /\ held'[i + 1] = held[i + 1]
    BY <1>2
  <2>2. n \in 1..n /\ held'[n] = offers /\ held'[n + 1] = T BY <1>1, <1>2
  <2>3. Len(held') - 1 = n /\ Len(held) = n BY <1>2 DEF n
  <2>4. 1..(n - 1) \subseteq 1..n BY <1>2
  <2>5. Left = Matched(UNION {held[i] \ held[i+1] : i \in 1..(n - 1)})
        /\ Came = Matched(UNION {held[i+1] \ held[i] : i \in 1..(n - 1)})
    BY <2>3 DEF Left, Came
  <2>6. Left' = MatchedIn(UNION {held'[i] \ held'[i+1] : i \in 1..n}, q)
        /\ Came' = MatchedIn(UNION {held'[i+1] \ held'[i] : i \in 1..n}, q)
    BY <1>3, <2>3 DEF Left, Came, Matched, MatchedIn
  <2>7. UNION {held[i] \ held[i+1] : i \in 1..(n - 1)}
           \subseteq UNION {held'[i] \ held'[i+1] : i \in 1..n}
        /\ UNION {held[i+1] \ held[i] : i \in 1..(n - 1)}
           \subseteq UNION {held'[i+1] \ held'[i] : i \in 1..n}
    BY <2>1
  <2>8. offers \ T \subseteq UNION {held'[i] \ held'[i+1] : i \in 1..n}
        /\ T \ offers \subseteq UNION {held'[i+1] \ held'[i] : i \in 1..n}
    BY <2>2
  <2>9. QED BY <2>5, <2>6, <2>7, <2>8 DEF Matched, MatchedIn
<1>7. ASSUME NEW o, NotPassed(o) PROVE NotPassed(o)'
  <2> SUFFICES ASSUME \A d \in Left' : ~Ahead(d, o, q), ~Got(o) PROVE Turn <= Rank(o)'
    BY <1>3 DEF NotPassed, Turn, Got
  <2>1. Turn <= Rank(o) BY <1>6, <1>7 DEF NotPassed
  <2>2. AheadIn(offers, o, q) \in SUBSET AheadIn(T, o, q)
    BY <1>6 DEF AheadIn, MatchedIn
  <2>3. Rank(o) <= Rank(o)'
    <3>1. IsFiniteSet(AheadIn(T, o, q)) BY MatchedFinite
    <3>2. QED BY <1>3, <2>2, <3>1, FS_Subset DEF Rank
  <2>4. Rank(o) \in Nat /\ Rank(o)' \in Nat BY <1>1, <1>3, MatchedFinite DEF Rank
  <2>5. Turn \in Nat BY DEF Turn, TypeOK, Client, Request
  <2>6. QED BY <2>1, <2>3, <2>4, <2>5
<1>8. ASSUME NEW o, NotPushed(o) PROVE NotPushed(o)'
  <2> SUFFICES ASSUME \A d \in Came' : ~Ahead(d, o, q)
               PROVE  GotOnce(o) /\ (Got(o) => Rank(o)' < Turn)
    BY <1>3 DEF NotPushed, Turn, Got, GotOnce
  <2>1. GotOnce(o) /\ (Got(o) => Rank(o) < Turn) BY <1>6, <1>8 DEF NotPushed
  <2>2. AheadIn(T, o, q) \in SUBSET AheadIn(offers, o, q)
    BY <1>6 DEF AheadIn, MatchedIn
  <2>3. Rank(o)' <= Rank(o)
    <3>1. IsFiniteSet(AheadIn(offers, o, q)) BY <1>1, MatchedFinite
    <3>2. QED BY <1>3, <2>2, <3>1, FS_Subset DEF Rank
  <2>4. Rank(o) \in Nat /\ Rank(o)' \in Nat BY <1>1, <1>3, MatchedFinite DEF Rank
  <2>5. Turn \in Nat BY DEF Turn, TypeOK, Client, Request
  <2>6. QED BY <2>1, <2>3, <2>4, <2>5
<1>9. QED BY <1>3, <1>4, <1>5, <1>7, <1>8 DEF PagesRead, Done

\* A write leaves the answer given, and what was read of the tables held.
LEMMA WriteKeeps == ASSUME IInv, Write PROVE IInv'
<1>1. TypeOK /\ HeldNow /\ ReadFromHeld /\ PagesRead /\ PagesFair BY DEF IInv
<1>2. PICK T \in Tables : offers' = T BY DEF Write
<1>3. UNCHANGED client /\ writes < MaxWrites /\ writes' = writes + 1 BY DEF Write
<1>4. held' = IF Done THEN held ELSE Append(held, T) BY <1>2 DEF Write
<1>5. held \in Seq(Tables) /\ writes \in 0..MaxWrites /\ MaxWrites \in Nat
  BY <1>1, ListingAssumption DEF TypeOK
<1>6. held' \in Seq(Tables) /\ writes' \in 0..MaxWrites BY <1>3, <1>4, <1>5
<1>7. TypeOK' BY <1>1, <1>2, <1>3, <1>6 DEF TypeOK
<1>8. Done' <=> Done BY <1>3 DEF Done
<1>9. CASE Done
  <2>1. held' = held BY <1>4, <1>9
  <2>2. HeldNow' BY <1>1, <1>8, <1>9, <2>1 DEF HeldNow
  <2>3. ReadFromHeld' BY <1>1, <1>3, <2>1 DEF ReadFromHeld
  <2>4. PagesRead' BY <1>8, <1>9 DEF PagesRead
  <2>5. Steady' = Steady /\ Left' = Left /\ Came' = Came /\ \A o : Ties(o)' <=> Ties(o)
    BY <1>3, <2>1 DEF Steady, Left, Came, Ties, Matched
  <2>6. PagesFair'
    BY <1>1, <1>3, <1>8, <2>5
    DEF PagesFair, MissedOnlyByDeparture, RepeatedOnlyByArrival, Paging, Times
  <2>7. QED BY <1>7, <2>2, <2>3, <2>4, <2>6 DEF IInv
<1>10. CASE ~Done
  <2>1. held' = Append(held, T) BY <1>4, <1>10
  <2>2. /\ held' # <<>> /\ held'[Len(held')] = T
        /\ \A i \in DOMAIN held : i \in DOMAIN held' /\ held'[i] = held[i]
    BY <1>5, <2>1
  <2>3. HeldNow' BY <1>2, <2>2 DEF HeldNow
  <2>4. ReadFromHeld' BY <1>1, <1>3, <2>2 DEF ReadFromHeld
  <2>5. PagesRead' BY <1>1, <1>2, <1>3, <1>10, <2>1, WritePages
  <2>6. PagesFair'
    BY <1>8, <1>10 DEF PagesFair, MissedOnlyByDeparture, RepeatedOnlyByArrival, Paging
  <2>7. QED BY <1>7, <2>3, <2>4, <2>5, <2>6 DEF IInv
<1>11. QED BY <1>9, <1>10

\* The next call begins as the first one did.
LEMMA AskKeeps == ASSUME IInv, NEW c \in Calls, Ask(c) PROVE IInv'
<1>1. Asked' BY DEF Ask, Asked, IInv, TypeOK
<1>2. QED BY <1>1, BeginsAgain

\* The server's first read: an offer is on the page if its place is, and the places of
\* the page are read then.
LEMMA ServerListKeeps == ASSUME IInv, ServerList PROVE IInv'
<1> DEFINE q == client.request
<1>1. TypeOK /\ HeldNow /\ ReadFromHeld /\ PagesRead BY DEF IInv
<1>2. PICK page \in List(offers, q) :
         client' = [client EXCEPT !.at = "listed", !.page = page, !.got = client.got \o page]
  BY DEF ServerList
<1>3. client.at = "asked" /\ UNCHANGED <<offers, held, writes>> BY DEF ServerList
<1>4. /\ offers \in Tables /\ client \in Client /\ q \in Request /\ q.offset \in Nat
      /\ q.limit \in Nat /\ client.got \in Seq(Universe) /\ held \in Seq(Tables)
  BY <1>1 DEF TypeOK, Client, Request
<1>5. page \in Seq(Universe)
  <2>1. PICK s \in Sorted(offers, q) : page = Paged(s, q) BY DEF List
  <2>2. MatchedIn(offers, q) \subseteq Universe /\ IsFiniteSet(MatchedIn(offers, q))
    BY <1>4, MatchedFinite
  <2>3. s \in SetToSeqs(MatchedIn(offers, q)) BY DEF Sorted, MatchedIn
  <2>4. s \in Seq(Universe) BY <2>2, <2>3, Arrangement
  <2>5. QED BY <1>4, <2>1, <2>4, PageOf
<1>6. client' \in Client /\ client'.request = q /\ client'.call = client.call
      /\ client'.at = "listed" /\ client'.page = page /\ client'.got = client.got \o page
  <2> DEFINE h == client.got \o page
  <2>1. h \in Seq(Universe) BY <1>4, <1>5
  <2> HIDE DEF h
  <2>2. client' = [client EXCEPT !.at = "listed", !.page = page, !.got = h] BY <1>2 DEF h
  <2>3. QED BY <1>4, <1>5, <2>1, <2>2 DEF Client, h
<1>7. TypeOK' BY <1>1, <1>3, <1>6 DEF TypeOK
<1>8. ~Done /\ ~Done' BY <1>3, <1>6 DEF Done
<1>9. HeldNow' BY <1>1, <1>3, <1>8 DEF HeldNow
<1>10. ReadFromHeld'
  <2>1. Len(held) \in DOMAIN held /\ held[Len(held)] = offers
    BY <1>1, <1>4, <1>8 DEF HeldNow
  <2>2. QED BY <1>1, <1>3, <1>6, <2>1 DEF ReadFromHeld
<1>11. /\ Steady' = Steady /\ Left' = Left /\ Came' = Came
       /\ \A o : Ties(o)' <=> Ties(o)
  BY <1>3, <1>4, <1>6, SameTables DEF SameFilters
<1>12. Turn = q.offset /\ Turn' = q.offset + q.limit BY <1>3, <1>6 DEF Turn
<1>13. ASSUME client.call.method = "Pages", NEW o \in Steady, ~Ties(o)
       PROVE  NotPassed(o)' /\ NotPushed(o)'
  <2> DEFINE n == Rank(o)
  <2>1. NotPassed(o) /\ NotPushed(o) BY <1>1, <1>8, <1>13 DEF PagesRead
  <2>2. /\ o \in MatchedIn(offers, q)
        /\ \A p \in MatchedIn(offers, q) \ {o} : ~Tied(o, p, q)
    BY <1>1, <1>8, <1>13, SteadyStands
  <2>3. n \in Nat BY <1>4, MatchedFinite DEF Rank
  <2>4. /\ o \in ToSet(page) <=> q.offset <= n /\ n < q.offset + q.limit
        /\ \A i, j \in DOMAIN page : page[i] = o /\ page[j] = o => i = j
    BY <1>4, <2>2, OnPage DEF Rank
  <2>5. Rank(o)' = n BY <1>3, <1>6 DEF Rank
  <2> DEFINE g == client.got
             h == client.got \o page
  <2>6. /\ g \in Seq(Universe) /\ Len(g) \in Nat /\ Len(page) \in Nat
        /\ DOMAIN g = 1..Len(g) /\ DOMAIN page = 1..Len(page)
        /\ DOMAIN h = 1..(Len(g) + Len(page))
        /\ \A i \in DOMAIN h : h[i] = IF i <= Len(g) THEN g[i] ELSE page[i - Len(g)]
    BY <1>4, <1>5
  <2>7. Got(o)' <=> Got(o) \/ o \in ToSet(page)
    <3>1. ASSUME NEW i \in DOMAIN g PROVE i \in DOMAIN h /\ h[i] = g[i] BY <2>6
    <3>2. ASSUME NEW i \in DOMAIN page
          PROVE  Len(g) + i \in DOMAIN h /\ h[Len(g) + i] = page[i]
      BY <2>6
    <3>3. ASSUME NEW i \in DOMAIN h
          PROVE  \/ i \in DOMAIN g /\ h[i] = g[i]
                 \/ i - Len(g) \in DOMAIN page /\ h[i] = page[i - Len(g)]
      BY <2>6
    <3> HIDE DEF h
    <3>4. Got(o)' <=> \E i \in DOMAIN h : h[i] = o BY <1>6 DEF Got, ToSet, h
    <3>5. QED BY <3>1, <3>2, <3>3, <3>4 DEF Got, ToSet
  <2>8. GotOnce(o) /\ ~(Got(o) /\ o \in ToSet(page)) => GotOnce(o)'
    <3> SUFFICES ASSUME GotOnce(o), ~(Got(o) /\ o \in ToSet(page)),
                        NEW i \in DOMAIN h, NEW j \in DOMAIN h, h[i] = o, h[j] = o
                 PROVE  i = j
      BY <1>6 DEF GotOnce
    <3>1. CASE i \in DOMAIN g /\ j \in DOMAIN g BY <2>6, <3>1 DEF GotOnce
    <3>2. CASE i \notin DOMAIN g /\ j \notin DOMAIN g
      <4>1. /\ i - Len(g) \in DOMAIN page /\ page[i - Len(g)] = o
            /\ j - Len(g) \in DOMAIN page /\ page[j - Len(g)] = o
        BY <2>6, <3>2
      <4>2. i - Len(g) = j - Len(g) BY <2>4, <4>1
      <4>3. QED BY <2>6, <4>2
    <3>3. ASSUME NEW a \in DOMAIN h, NEW b \in DOMAIN h, h[a] = o, h[b] = o,
                 a \in DOMAIN g, b \notin DOMAIN g
          PROVE  FALSE
      <4>1. g[a] = o BY <2>6, <3>3
      <4>2. b - Len(g) \in DOMAIN page /\ page[b - Len(g)] = o BY <2>6, <3>3
      <4>3. Got(o) /\ o \in ToSet(page) BY <3>3, <4>1, <4>2 DEF Got, ToSet
      <4>4. QED BY <4>3
    <3>4. QED BY <3>1, <3>2, <3>3
  <2> HIDE DEF n, g, h
  <2>9. NotPassed(o)'
    <3> SUFFICES ASSUME \A d \in Left : ~Ahead(d, o, q), ~Got(o)' PROVE Turn' <= n
      BY <1>6, <1>11, <2>5 DEF NotPassed
    <3>1. Turn <= n BY <2>1, <2>7 DEF NotPassed, n
    <3>2. QED BY <1>4, <1>12, <2>3, <2>4, <2>7, <3>1
  <2>10. NotPushed(o)'
    <3> SUFFICES ASSUME \A d \in Came : ~Ahead(d, o, q)
                 PROVE  GotOnce(o)' /\ (Got(o)' => n < Turn')
      BY <1>6, <1>11, <2>5 DEF NotPushed
    <3>1. GotOnce(o) /\ (Got(o) => n < Turn) BY <2>1 DEF NotPushed, n
    <3>2. ~(Got(o) /\ o \in ToSet(page)) BY <1>4, <1>12, <2>3, <2>4, <3>1
    <3>3. QED BY <1>4, <1>12, <2>3, <2>4, <2>7, <2>8, <3>1, <3>2
  <2>11. QED BY <2>9, <2>10
<1>14. PagesRead' BY <1>6, <1>11, <1>13 DEF PagesRead
<1>15. PagesFair'
  BY <1>8 DEF PagesFair, MissedOnlyByDeparture, RepeatedOnlyByArrival, Paging
<1>16. QED BY <1>7, <1>9, <1>10, <1>14, <1>15 DEF IInv

\* How often an offer came, by whether it did and whether in one place.
LEMMA TimesGot ==
    ASSUME client.got \in Seq(Universe), NEW o
    PROVE  /\ Times(o) \in Nat
           /\ Times(o) = 0 <=> ~Got(o)
           /\ GotOnce(o) => Times(o) \in {0, 1}
<1> DEFINE I == {i \in DOMAIN client.got : client.got[i] = o}
<1>1. I \in SUBSET (1..Len(client.got)) /\ Len(client.got) \in Nat BY LenProperties
<1>2. IsFiniteSet(I)
  <2>1. IsFiniteSet(1..Len(client.got)) BY <1>1, FS_Interval
  <2>2. QED BY <1>1, <2>1, FS_Subset
<1>3. Got(o) <=> I # {} BY DEF Got, ToSet
<1>4. GotOnce(o) <=> \A i, j \in I : i = j BY DEF GotOnce
<1> HIDE DEF I
<1>5. Times(o) = Cardinality(I) BY DEF Times, I
<1>6. Cardinality(I) \in Nat /\ (Cardinality(I) = 0 <=> I = {})
  BY <1>2, FS_EmptySet, FS_CardinalityType
<1>7. ASSUME GotOnce(o), I # {} PROVE Cardinality(I) = 1
  <2>1. PICK x \in I : TRUE BY <1>7
  <2>2. I = {x} BY <1>4, <1>7, <2>1
  <2>3. QED BY <2>2, FS_Singleton
<1>8. QED BY <1>3, <1>5, <1>6, <1>7

\* The second read, with which the answer is done or there is another page to ask for.
\* The total counts what the filter drops too, so it ends no client that has an offer
\* still to read.
LEMMA ServerCountKeeps == ASSUME IInv, ServerCount PROVE IInv'
<1> DEFINE q == client.request
           end == q.offset + q.limit
           total == Cardinality(offers)
<1>1. TypeOK /\ HeldNow /\ ReadFromHeld /\ PagesRead BY DEF IInv
<1>2. client' = [client EXCEPT !.at = "answered", !.total = total, !.more = end < total]
  BY DEF ServerCount
<1>3. client.at = "listed" /\ UNCHANGED <<offers, held, writes>> BY DEF ServerCount
<1>4. /\ offers \in Tables /\ client \in Client /\ q \in Request /\ held \in Seq(Tables)
      /\ q.offset \in Nat /\ q.limit \in Nat
      /\ client.got \in Seq(Universe)
  BY <1>1 DEF TypeOK, Client, Request
<1>5. total \in Nat BY <1>4, MatchedFinite
<1>6. client' \in Client /\ client'.request = q /\ client'.call = client.call
      /\ client'.at = "answered" /\ client'.page = client.page /\ client'.got = client.got
      /\ client'.total = total /\ client'.more = (end < total)
  <2> HIDE DEF total, end, q
  <2>1. (end < total) \in BOOLEAN OBVIOUS
  <2>2. QED BY <1>2, <1>4, <1>5, <2>1 DEF Client, q
<1>7. TypeOK' BY <1>1, <1>3, <1>6 DEF TypeOK
<1>8. ~Done BY <1>3 DEF Done
<1>9. HeldNow' BY <1>1, <1>3, <1>8 DEF HeldNow
<1>10. Len(held) \in DOMAIN held /\ held[Len(held)] = offers
  BY <1>1, <1>4, <1>8 DEF HeldNow
<1>11. ReadFromHeld' BY <1>1, <1>3, <1>6, <1>10 DEF ReadFromHeld
<1>12. Turn = end /\ Turn' = end BY <1>3, <1>6 DEF Turn
<1>13. PagesRead' BY <1>1, <1>3, <1>4, <1>6, <1>8, <1>12, SamePages DEF SameFilters
<1>14. /\ Steady' = Steady /\ Left' = Left /\ Came' = Came
       /\ \A o : (Ties(o)' <=> Ties(o)) /\ Times(o)' = Times(o)
  <2>1. \A o : Times(o)' = Times(o) BY <1>6 DEF Times
  <2>2. QED BY <1>3, <1>4, <1>6, <2>1, SameTables DEF SameFilters
<1>15. ASSUME client.call.method = "Pages", ~(end < total), NEW o \in Steady, ~Ties(o)
       PROVE  /\ Times(o) = 0 => \E d \in Left : Ahead(d, o, q)
              /\ Times(o) > 1 => \E d \in Came : Ahead(d, o, q)
  <2>1. NotPassed(o) /\ NotPushed(o) BY <1>1, <1>8, <1>15 DEF PagesRead
  <2>2. Rank(o) < total
    <3>1. o \in MatchedIn(offers, q) BY <1>1, <1>8, <1>15, SteadyStands
    <3>2. o \in offers /\ o \in Universe /\ IsFiniteSet(offers)
      BY <1>4, <3>1 DEF MatchedIn, Tables
    <3>3. o \notin AheadIn(offers, o, q) BY <3>2, OrderTotal DEF AheadIn
    <3>4. AheadIn(offers, o, q) \in SUBSET (offers \ {o})
      BY <3>3 DEF AheadIn, MatchedIn
    <3>5. IsFiniteSet(offers \ {o}) /\ Cardinality(offers \ {o}) = total - 1
      BY <3>2, FS_RemoveElement
    <3>6. Cardinality(AheadIn(offers, o, q)) <= total - 1 BY <3>4, <3>5, FS_Subset
    <3>7. Rank(o) \in Nat /\ Rank(o) <= total - 1 BY <1>4, <3>6, MatchedFinite DEF Rank
    <3>8. QED BY <1>5, <3>7
  <2>3. Rank(o) \in Nat BY <1>4, MatchedFinite DEF Rank
  <2>4. ~(Turn <= Rank(o)) BY <1>4, <1>5, <1>12, <1>15, <2>2, <2>3
  <2>5. Times(o) = 0 => \E d \in Left : Ahead(d, o, q)
    BY <1>4, <2>1, <2>4, TimesGot DEF NotPassed
  <2>6. Times(o) > 1 => \E d \in Came : Ahead(d, o, q)
    <3> SUFFICES ASSUME \A d \in Came : ~Ahead(d, o, q) PROVE ~(Times(o) > 1) OBVIOUS
    <3>1. GotOnce(o) BY <2>1 DEF NotPushed
    <3>2. QED BY <1>4, <3>1, TimesGot
  <2>7. QED BY <2>5, <2>6
<1> HIDE DEF end, total
<1>16. PagesFair'
  <2>1. Paging' => client.call.method = "Pages" /\ ~(end < total) BY <1>6 DEF Paging, Done
  <2>2. QED
    BY <1>6, <1>14, <1>15, <2>1
    DEF PagesFair, MissedOnlyByDeparture, RepeatedOnlyByArrival
<1>17. QED BY <1>7, <1>9, <1>11, <1>13, <1>16 DEF IInv

\* The client goes on where the page ended.
LEMMA FollowKeeps == ASSUME IInv, FollowNextOffset PROVE IInv'
<1> DEFINE q == client.request
           next == q.offset + q.limit
<1>1. TypeOK /\ HeldNow /\ PagesRead BY DEF IInv
<1>2. /\ client.call.method = "Pages" /\ client.at = "answered" /\ client.more
      /\ client' = [client EXCEPT !.at = "asked", !.request.offset = next]
      /\ UNCHANGED <<offers, held, writes>>
  BY DEF FollowNextOffset
<1>3. client \in Client /\ q \in Request /\ q.offset \in Nat /\ q.limit \in Nat
      /\ q.limit \in 1..MaxLimit
  BY <1>1 DEF TypeOK, Client, Request
<1>4. next \in Nat BY <1>3
<1> HIDE DEF next
<1>5. /\ client'.request = [q EXCEPT !.offset = next] /\ client'.call = client.call
      /\ client'.at = "asked" /\ client'.got = client.got /\ client' \in Client
      /\ client'.request.offset = next /\ client'.request.limit = q.limit
  BY <1>2, <1>3, <1>4 DEF Client, Request
<1>6. TypeOK' BY <1>1, <1>2, <1>3, <1>5 DEF TypeOK
<1>7. ~Done /\ ~Done' BY <1>2, <1>5 DEF Done
<1>8. HeldNow' BY <1>1, <1>2, <1>7 DEF HeldNow
<1>9. ReadFromHeld' BY <1>2, <1>5 DEF ReadFromHeld
<1>10. Turn' = Turn BY <1>2, <1>5 DEF Turn, next
<1>11. PagesRead' BY <1>1, <1>2, <1>3, <1>4, <1>5, <1>7, <1>10, SamePages DEF SameFilters
<1>12. PagesFair'
  BY <1>7 DEF PagesFair, MissedOnlyByDeparture, RepeatedOnlyByArrival, Paging
<1>13. QED BY <1>6, <1>8, <1>9, <1>11, <1>12 DEF IInv

\* What nothing changes keeps the invariant.
LEMMA StutterKeeps == ASSUME IInv, UNCHANGED vars PROVE IInv'
<1>1. TypeOK /\ HeldNow /\ ReadFromHeld /\ PagesRead /\ PagesFair BY DEF IInv
<1>2. UNCHANGED <<offers, client, held, writes>> BY DEF vars
<1>3. TypeOK' /\ HeldNow' /\ ReadFromHeld'
  BY <1>1, <1>2 DEF TypeOK, HeldNow, ReadFromHeld, Done
<1>4. PagesRead'
  BY <1>1, <1>2
  DEF PagesRead, Done, Steady, Ties, Left, Came, Matched, NotPassed, NotPushed, Turn, Got,
      GotOnce, Rank
<1>5. PagesFair'
  BY <1>1, <1>2
  DEF PagesFair, MissedOnlyByDeparture, RepeatedOnlyByArrival, Paging, Done, Steady, Ties,
      Left, Came, Matched, Times
<1>6. QED BY <1>3, <1>4, <1>5 DEF IInv

\* The inductive invariant holds in every state, whatever the store held at the start.
THEOREM Inductive == Spec => []IInv
<1>1. Init => Asked BY ListingAssumption DEF Init, Asked
<1>2. Init => IInv BY <1>1, Begins
<1>3. ASSUME IInv, [Next]_vars PROVE IInv'
  <2>1. CASE UNCHANGED vars BY <1>3, <2>1, StutterKeeps
  <2>2. CASE Next
    BY <1>3, <2>2, AskKeeps, ServerListKeeps, ServerCountKeeps, FollowKeeps, WriteKeeps
    DEF Next
  <2>3. QED BY <1>3, <2>1, <2>2
<1>4. QED BY <1>2, <1>3, PTL DEF Spec

-----------------------------------------------------------------------------
\* A request by a key alone, with a limit the server keeps, is the one the store itself
\* would have taken it for.
LEMMA BarePassedOn ==
    ASSUME NEW by \in [KeyFields -> Nat \union {None}], NEW q \in Request, Bare(q),
           q.limit \in 1..MaxLimit
    PROVE  FromProto(SentListBy(by, q)) =
               [q EXCEPT !.is = [f \in KeyFields |-> IF by[f] # None THEN by[f] ELSE @[f]]]
<1> DEFINE r == [q EXCEPT !.is = by]
<1>1. SentList(q) = q BY DEF Bare, SentList
<1>2. SentListBy(by, q) = r BY <1>1 DEF SentListBy
<1>3. q.limit \in Nat /\ MaxLimit \in Nat BY ListingAssumption DEF Request
<1>4. Everything(q.limit) \in Request BY <1>3, RequestsTyped
<1>5. q.is = NoKey /\ q.min = NoRange /\ q.max = NoRange
  <2> DEFINE e == Everything(q.limit)
  <2>1. e.is = NoKey /\ e.min = NoRange /\ e.max = NoRange BY DEF Everything
  <2> HIDE DEF e
  <2>2. q = [e EXCEPT !.offset = q.offset, !.sortBy = q.sortBy, !.sortOrder = q.sortOrder]
    BY DEF Bare, e
  <2>3. e \in Request BY <1>4 DEF e
  <2>4. /\ [e EXCEPT !.offset = q.offset, !.sortBy = q.sortBy,
                     !.sortOrder = q.sortOrder].is = e.is
        /\ [e EXCEPT !.offset = q.offset, !.sortBy = q.sortBy,
                     !.sortOrder = q.sortOrder].min = e.min
        /\ [e EXCEPT !.offset = q.offset, !.sortBy = q.sortBy,
                     !.sortOrder = q.sortOrder].max = e.max
    BY <2>3 DEF Request
  <2>5. QED BY <2>1, <2>2, <2>4
<1>6. [f \in KeyFields |-> IF by[f] # None THEN by[f] ELSE q.is[f]] = by
  <2>1. \A f \in KeyFields : (IF by[f] # None THEN by[f] ELSE q.is[f]) = by[f]
    BY <1>5 DEF NoKey
  <2>2. QED BY <2>1
<1>7. r \in Request /\ r.limit = q.limit /\ r.min = NoRange /\ r.max = NoRange
  BY <1>5 DEF Request
<1> HIDE DEF r
<1>8. FromProto(r) = r
  <2> DEFINE limit == CASE r.limit = 0 -> DefaultLimit
                        [] r.limit > MaxLimit -> MaxLimit
                        [] OTHER -> r.limit
             r1 == [r EXCEPT !.limit = limit]
             r2 == [r1 EXCEPT !.min["ltv"] = None]
             r3 == [r2 EXCEPT !.max["ltv"] = None]
             r4 == [r3 EXCEPT !.min["updated"] = None]
             r5 == [r4 EXCEPT !.max["updated"] = None]
  <2>1. limit = r.limit BY <1>3, <1>7
  <2>2. FromProto(r) = r5 BY DEF FromProto
  <2> HIDE DEF limit
  <2>3. r1 = r BY <1>7, <2>1 DEF Request
  <2>4. ASSUME NEW f \in RangeFields
        PROVE  [r EXCEPT !.min[f] = None] = r /\ [r EXCEPT !.max[f] = None] = r
    <3>1. [NoRange EXCEPT ![f] = None] = NoRange BY DEF NoRange
    <3>2. [r EXCEPT !.min = NoRange] = r /\ [r EXCEPT !.max = NoRange] = r
      BY <1>7 DEF Request
    <3>3. /\ [r EXCEPT !.min[f] = None] = [r EXCEPT !.min = [r.min EXCEPT ![f] = None]]
          /\ [r EXCEPT !.max[f] = None] = [r EXCEPT !.max = [r.max EXCEPT ![f] = None]]
      BY <1>7 DEF Request
    <3>4. QED BY <1>7, <3>1, <3>2, <3>3
  <2>5. "ltv" \in RangeFields /\ "updated" \in RangeFields BY DEF RangeFields
  <2> HIDE DEF r1
  <2>6. r5 = r BY <2>3, <2>4, <2>5
  <2>7. QED BY <2>2, <2>6
<1>9. QED BY <1>2, <1>6, <1>8 DEF r

\* So is one without a key.
LEMMA BareKept ==
    ASSUME NEW q \in Request, Bare(q), q.limit \in 1..MaxLimit
    PROVE  FromProto(SentList(q)) = q
<1>1. SentList(q) = q BY DEF Bare, SentList
<1>2. q.is = NoKey
  <2>1. q.limit \in Nat BY DEF Request
  <2>2. Everything(q.limit) \in Request /\ Everything(q.limit).is = NoKey
    BY <2>1, RequestsTyped DEF Everything
  <2> DEFINE e == Everything(q.limit)
  <2> HIDE DEF e
  <2>3. q = [e EXCEPT !.offset = q.offset, !.sortBy = q.sortBy, !.sortOrder = q.sortOrder]
    BY DEF Bare, e
  <2>4. e \in Request /\ e.is = NoKey BY <2>2 DEF e
  <2>5. [e EXCEPT !.offset = q.offset, !.sortBy = q.sortBy,
                  !.sortOrder = q.sortOrder].is = e.is
    BY <2>4 DEF Request
  <2>6. QED BY <2>3, <2>4, <2>5
<1>3. NoKey \in [KeyFields -> Nat \union {None}] BY DEF NoKey
<1>4. [q EXCEPT !.is = NoKey] = q BY <1>2 DEF Request
<1>5. SentListBy(NoKey, q) = q BY <1>1, <1>4 DEF SentListBy
<1>6. [f \in KeyFields |-> IF NoKey[f] # None THEN NoKey[f] ELSE q.is[f]] = NoKey
  BY <1>2 DEF NoKey
<1>7. QED BY <1>1, <1>3, <1>4, <1>5, <1>6, BarePassedOn

\* Whatever is written between the two reads of an answer: a count is that of a moment
\* of the call, and a query by a key alone has the page the store would have given.
THEOREM BareQueries == Spec => []ListingInv
<1>1. IInv => ListingInv
  <2> SUFFICES ASSUME IInv PROVE BareQueriesAsLocal BY DEF IInv, ListingInv
  <2> DEFINE c == client.call
             q == client.call.request
  <2>1. /\ client \in Client /\ held \in Seq(Tables) /\ c \in Calls
        /\ ReadFromHeld
    BY DEF IInv, TypeOK, Client
  <2>2. Done => client.at = "answered" BY DEF Done
  <2>3. AsLocal("Count")
    <3> SUFFICES ASSUME Done, c.method = "Count"
                 PROVE  \E i \in DOMAIN held : Answer \in LocalAnswers(held[i], c)
      BY DEF AsLocal
    <3>1. PICK i \in DOMAIN held : client.total = Cardinality(held[i])
      BY <2>1, <2>2 DEF ReadFromHeld
    <3>2. Answer = client.total BY DEF Answer
    <3>3. LocalAnswers(held[i], c) = {Cardinality(held[i])} BY DEF LocalAnswers
    <3>4. QED BY <3>1, <3>2, <3>3
  <2>4. ASSUME Done, c.method = "ListBy", Bare(q), q.limit \in 1..MaxLimit
        PROVE  AsLocal("ListBy")
    <3>1. PICK i \in DOMAIN held : client.page \in List(held[i], FromProto(Sent(c)))
      BY <2>1, <2>2, <2>4 DEF ReadFromHeld
    <3>2. q \in Request /\ c.by \in [KeyFields -> Nat \union {None}]
      BY <2>1, ListingAssumption DEF Call
    <3>3. Sent(c) = SentListBy(c.by, q) BY <2>4 DEF Sent
    <3>4. client.page \in ListBy(held[i], c.by, q)
      BY <2>4, <3>1, <3>2, <3>3, BarePassedOn DEF ListBy
    <3>5. Answer = client.page BY <2>4 DEF Answer
    <3>6. LocalAnswers(held[i], c) = ListBy(held[i], c.by, q) BY <2>4 DEF LocalAnswers
    <3>7. QED BY <3>1, <3>4, <3>5, <3>6 DEF AsLocal
  <2>5. QED BY <2>3, <2>4 DEF BareQueriesAsLocal
<1>2. QED BY <1>1, Inductive, PTL

\* GRPCClient.List, which drops the filters of its request, answers as the store does
\* where there are none and the limit is one the server keeps.
THEOREM BareLists ==
    ASSUME \A c \in Calls : c.method = "List" =>
              Bare(c.request) /\ c.request.limit \in 1..MaxLimit
    PROVE  Spec => []ListAsLocal
<1>1. IInv => ListAsLocal
  <2> DEFINE c == client.call
             q == client.call.request
  <2> SUFFICES ASSUME IInv, Done, c.method = "List"
               PROVE  \E i \in DOMAIN held : Answer \in LocalAnswers(held[i], c)
    BY DEF ListAsLocal, AsLocal
  <2>1. client.at = "answered" /\ c \in Calls /\ ReadFromHeld
    BY DEF IInv, TypeOK, Client, Done
  <2>2. PICK i \in DOMAIN held : client.page \in List(held[i], FromProto(Sent(c)))
    BY <2>1 DEF ReadFromHeld
  <2>3. q \in Request /\ Bare(q) /\ q.limit \in 1..MaxLimit
    BY <2>1, ListingAssumption DEF Call
  <2>4. Sent(c) = SentList(q) BY DEF Sent
  <2>5. FromProto(SentList(q)) = q BY <2>3, BareKept
  <2>6. Answer = client.page BY DEF Answer
  <2>7. LocalAnswers(held[i], c) = List(held[i], q) BY DEF LocalAnswers
  <2>8. QED BY <2>2, <2>4, <2>5, <2>6, <2>7
<1>2. QED BY <1>1, Inductive, PTL

\* A client that pages while others write misses an offer that stays as it is only if
\* one ahead of it left, and is given it twice only if one ahead of it came, or if the
\* order has a tie at it.
THEOREM FairPages == Spec => []PagesFair
<1>1. IInv => PagesFair BY DEF IInv
<1>2. QED BY <1>1, Inductive, PTL

\* The client asks for every page in the order it asked for the first one.
OrderKept ==
    client.call.method = "Pages" => SortField(client.request) = SortField(client.call.request)

\* While nothing is written, a client that pages in the order of the IDs is given the
\* offers that match, each once, as the list method is said to page.
THEOREM PagesById ==
    ASSUME \A c \in Calls : c.method = "Pages" => SortField(c.request) = "id"
    PROVE  Spec => []StillPagesPartition
<1>1. ASSUME NEW c \in Calls, c.method = "Pages"
      PROVE  SortField(Fresh(c).request) = SortField(c.request)
  <2>1. Fresh(c).request = FromProto(c.request) /\ c.request \in Request
    BY <1>1, SentTyped DEF Fresh
  <2>2. FromProto(c.request).sortBy = c.request.sortBy BY <2>1 DEF FromProto, Request
  <2>3. QED BY <2>1, <2>2 DEF SortField
<1>2. Init => OrderKept BY <1>1 DEF Init, OrderKept, Fresh
<1>3. ASSUME IInv, OrderKept, [Next]_vars PROVE OrderKept'
  <2>1. client \in Client /\ client.request \in Request BY <1>3 DEF IInv, TypeOK, Client
  <2>2. ASSUME NEW c \in Calls, Ask(c) PROVE OrderKept'
    <3>1. client' = Fresh(c) /\ client'.call = c BY <2>2 DEF Ask, Fresh
    <3>2. QED BY <1>1, <3>1 DEF OrderKept
  <2>3. ASSUME client'.call = client.call,
               client'.request.sortBy = client.request.sortBy
        PROVE  OrderKept'
    BY <1>3, <2>3 DEF OrderKept, SortField
  <2>4. CASE ServerList \/ ServerCount
    <3>1. client'.call = client.call /\ client'.request = client.request
      BY <2>1, <2>4 DEF ServerList, ServerCount, Client
    <3>2. QED BY <2>3, <3>1
  <2>5. CASE FollowNextOffset
    <3>1. client'.call = client.call /\ client'.request.sortBy = client.request.sortBy
      BY <2>1, <2>5 DEF FollowNextOffset, Client, Request
    <3>2. QED BY <2>3, <3>1
  <2>6. CASE Write \/ UNCHANGED vars BY <2>3, <2>6 DEF Write, vars
  <2>7. QED BY <1>3, <2>2, <2>4, <2>5, <2>6 DEF Next
<1>4. Spec => []OrderKept BY <1>2, <1>3, Inductive, PTL DEF Spec
<1>5. IInv /\ OrderKept => StillPagesPartition
  <2> SUFFICES ASSUME IInv, OrderKept, Paging, Len(held) = 1, NEW o \in Steady
               PROVE  Times(o) = 1
    BY DEF StillPagesPartition
  <2>1. /\ held \in Seq(Tables) /\ client.got \in Seq(Universe) /\ client.call \in Calls
        /\ PagesFair
    BY DEF IInv, TypeOK, Client
  <2>2. SortField(client.request) = "id" BY <2>1 DEF OrderKept, Paging
  <2>3. DOMAIN held = {1} /\ held[1] \in Tables
    <3>1. DOMAIN held = 1..1 BY <2>1, LenProperties
    <3>2. 1..1 = {1} OBVIOUS
    <3>3. QED BY <2>1, <3>1, <3>2, ElementOfSeq
  <2>4. Left = {} /\ Came = {}
    <3>1. 1..(Len(held) - 1) = {} OBVIOUS
    <3>2. QED BY <3>1 DEF Left, Came, Matched
  <2>5. ~Ties(o)
    <3>1. UNION ToSet(held) = held[1] BY <2>3 DEF ToSet
    <3>2. o \in held[1] BY DEF Steady
    <3>3. QED BY <2>2, <2>3, <3>1, <3>2 DEF Ties, Matched, Tied, Tables
  <2>6. Times(o) # 0 /\ ~(Times(o) > 1)
    BY <2>1, <2>4, <2>5 DEF PagesFair, MissedOnlyByDeparture, RepeatedOnlyByArrival
  <2>7. Times(o) \in Nat BY <2>1, TimesGot
  <2>8. QED BY <2>6, <2>7
<1>6. QED BY <1>4, <1>5, Inductive, PTL
=============================================================================
