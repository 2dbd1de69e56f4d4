----------------------------- MODULE Etl_proofs -----------------------------
(***************************************************************************)
(* Theorems about Etl, for every sequence of events, every capacity of the *)
(* channels and every number of retries.                                   *)
(*                                                                         *)
(* Where an event is, in which order events are applied and what the store *)
(* holds are three parts of one inductive invariant: an event that is sent *)
(* is new to every place, so it is later than all that are in them; and a  *)
(* liquidity event that no margin offer event overlapped writes back the   *)
(* data it read.                                                           *)
(*                                                                         *)
(* The second part is about EtlService, the processor's start, stop and    *)
(* health check, for any number of starts.                                 *)
(***************************************************************************)
EXTENDS Etl, EtlService, FiniteSetTheorems, SequenceTheorems, TLAPS

\* The events of a sequence of attempts; no event is in it twice.
EventsOf(q) == {q[i].n : i \in DOMAIN q}
Distinct(q) == \A i, j \in DOMAIN q : q[i].n = q[j].n => i = j

\* Where each event is: in its fate's place, once.
Placed ==
    /\ Distinct(marginQ) /\ Distinct(order)
    /\ \A d, e \in sleeping : d.n = e.n => d = e
    /\ \A n \in Numbers : /\ fate[n] = "queued" <=> n \in EventsOf(marginQ)
                          /\ fate[n] = "applied" <=> n \in EventsOf(order)
                          /\ fate[n] = "sleeping" <=> \E e \in sleeping : e.n = n
                          /\ n > sent["margin"] => fate[n] = "unsent"

\* An event comes after a later one only if it had failed before.
ComesAfter(S, e) == (\E n \in S : n > e.n) => e.tries > 0
Orderly(q) ==
    \A i, j \in DOMAIN q : i < j /\ q[i].n > q[j].n => q[j].tries > 0
OrderOK ==
    /\ Orderly(order) /\ Orderly(marginQ)
    /\ \A j \in DOMAIN marginQ : ComesAfter(EventsOf(order), marginQ[j])
    /\ \A e \in sleeping : e.tries > 0

\* The places of an ID's events in the order of application, and its last.
Mine(q, id) == {i \in DOMAIN q : Margin[q[i].n].id = id}
IsLast(q, id, i) == i \in Mine(q, id) /\ \A j \in Mine(q, id) : j <= i

\* A table has what the last event of an ID left.
Leaves(n, offer) == IF Margin[n].kind = "deleted" THEN offer = None
                    ELSE offer # None /\ offer.data = n
Follows(q, t, id) ==
    \/ Mine(q, id) = {} /\ t[id] = None
    \/ \E i \in Mine(q, id) : IsLast(q, id, i) /\ Leaves(q[i].n, t[id])

StoreOK ==
    /\ \A id \in Ids : Mine(order, id) # {} => \E i \in DOMAIN order : IsLast(order, id, i)
    /\ \A id \in Ids \ overtaken : Follows(order, table, id)
    /\ pending # None /\ ~overlap =>
          LET id == Liquidity[pending.n].id
          IN  table[id] # None /\ table[id].data = pending.seen.data

\* The inductive invariant.
IInv == TypeOK /\ Placed /\ OrderOK /\ StoreOK

-----------------------------------------------------------------------------
\* The event behind a number, and the ID behind a liquidity event's.
LEMMA EventFacts ==
    /\ Len(Margin) \in Nat /\ Len(Liquidity) \in Nat
    /\ \A n \in Numbers : Margin[n].id \in Ids /\ n \in Nat
    /\ \A n \in 1..Len(Liquidity) : Liquidity[n].id \in Ids
<1>1. Len(Margin) \in Nat /\ Len(Liquidity) \in Nat BY EtlAssumption, LenProperties
<1>2. \A n \in Numbers :
         Margin[n] \in [kind: {"created", "updated", "deleted"}, id: Ids, ok: BOOLEAN]
  BY EtlAssumption, ElementOfSeq DEF Numbers
<1>3. \A n \in 1..Len(Liquidity) : Liquidity[n] \in [id: Ids, known: BOOLEAN, ok: BOOLEAN]
  BY EtlAssumption, ElementOfSeq
<1>4. QED BY <1>1, <1>2, <1>3 DEF Numbers

\* The events of a sequence of attempts are events of the chain.
LEMMA EventsOfAttempts ==
    ASSUME NEW q \in Seq(Attempt), NEW m \in EventsOf(q)
    PROVE  m \in Numbers /\ m \in Nat
<1>1. PICK i \in DOMAIN q : m = q[i].n BY DEF EventsOf
<1>2. q[i] \in Attempt BY LenProperties, ElementOfSeq
<1>3. QED BY <1>1, <1>2, EventFacts DEF Attempt

\* A sequence of attempts with one more at its end.
IsAppended(q, e, r) ==
    /\ r \in Seq(Attempt) /\ Len(r) = Len(q) + 1 /\ Len(q) \in Nat
    /\ DOMAIN q = 1..Len(q) /\ DOMAIN r = 1..(Len(q) + 1)
    /\ \A i \in DOMAIN q : i \in DOMAIN r /\ r[i] = q[i] /\ q[i] \in Attempt
    /\ Len(q) + 1 \in DOMAIN r /\ r[Len(q) + 1] = e
    /\ \A i \in DOMAIN r : (i \in DOMAIN q /\ r[i] = q[i]) \/ r[i] = e
    /\ EventsOf(r) = EventsOf(q) \union {e.n}
    /\ Distinct(q) /\ e.n \notin EventsOf(q) => Distinct(r)
    /\ Orderly(q) /\ ComesAfter(EventsOf(q), e) => Orderly(r)

\* An attempt put last is in the sequence once if it was not in it, and in order if it
\* comes after no later event, or failed before.
LEMMA Appended ==
    ASSUME NEW q \in Seq(Attempt), NEW e \in Attempt
    PROVE  IsAppended(q, e, Append(q, e))
<1> DEFINE r == Append(q, e)
<1>1. /\ r \in Seq(Attempt) /\ Len(r) = Len(q) + 1 /\ Len(q) \in Nat
      /\ \A i \in 1..Len(q) : r[i] = q[i]
      /\ r[Len(q) + 1] = e
  BY AppendProperties, LenProperties
<1>2. DOMAIN q = 1..Len(q) /\ DOMAIN r = 1..(Len(q) + 1) BY <1>1, LenProperties
<1>3. \A i \in DOMAIN q : q[i] \in Attempt BY <1>2, ElementOfSeq
<1>4. DOMAIN r = DOMAIN q \union {Len(q) + 1} BY <1>1, <1>2
<1>5. EventsOf(r) = EventsOf(q) \union {e.n} BY <1>1, <1>2, <1>4 DEF EventsOf
<1>6. Distinct(q) /\ e.n \notin EventsOf(q) => Distinct(r)
  BY <1>1, <1>2, <1>4 DEF Distinct, EventsOf
<1>7. Orderly(q) /\ ComesAfter(EventsOf(q), e) => Orderly(r)
  <2>1. SUFFICES ASSUME Orderly(q), ComesAfter(EventsOf(q), e), NEW i \in DOMAIN r,
                        NEW j \in DOMAIN r, i < j, r[i].n > r[j].n
                 PROVE  r[j].tries > 0
    BY DEF Orderly
  <2>2. CASE j \in DOMAIN q
    <3>1. i \in DOMAIN q BY <1>1, <1>2, <2>1, <2>2
    <3>2. QED BY <1>1, <1>2, <2>1, <2>2, <3>1 DEF Orderly
  <2>3. CASE j = Len(q) + 1
    <3>1. i \in DOMAIN q BY <1>1, <1>2, <2>1, <2>3
    <3>2. q[i].n \in EventsOf(q) /\ q[i].n > e.n BY <1>1, <1>2, <2>1, <2>3, <3>1 DEF EventsOf
    <3>3. QED BY <1>1, <2>1, <2>3, <3>2 DEF ComesAfter
  <2>4. QED BY <1>4, <2>2, <2>3
<1> HIDE DEF r
<1>8. IsAppended(q, e, r) BY <1>1, <1>2, <1>3, <1>4, <1>5, <1>6, <1>7 DEF IsAppended
<1>9. QED BY <1>8 DEF r

\* A sequence of attempts without its first.
IsShortened(q, e, r) ==
    /\ r \in Seq(Attempt) /\ Len(r) = Len(q) - 1 /\ Len(q) \in Nat
    /\ e \in Attempt /\ 1 \in DOMAIN q /\ e = q[1]
    /\ \A i \in DOMAIN r : i + 1 \in DOMAIN q /\ r[i] = q[i + 1] /\ r[i] \in Attempt
    /\ EventsOf(q) = EventsOf(r) \union {e.n}
    /\ Distinct(q) => Distinct(r) /\ e.n \notin EventsOf(r)
    /\ Orderly(q) => Orderly(r) /\ \A j \in DOMAIN r : ComesAfter({e.n}, r[j])

\* What the loop takes is the first attempt; the rest is as it was.
LEMMA Shortened ==
    ASSUME NEW q \in Seq(Attempt), q # <<>>
    PROVE  IsShortened(q, Head(q), Tail(q))
<1> DEFINE r == Tail(q)
<1>1. /\ r \in Seq(Attempt) /\ Len(r) = Len(q) - 1 /\ Head(q) \in Attempt
      /\ \A i \in 1..Len(r) : r[i] = q[i + 1]
      /\ Len(q) \in Nat \ {0}
  BY HeadTailProperties, EmptySeq
<1>2. DOMAIN q = 1..Len(q) /\ DOMAIN r = 1..Len(r) BY <1>1, LenProperties
<1>3. Head(q) = q[1] OBVIOUS
<1>4. \A i \in DOMAIN r : i + 1 \in DOMAIN q /\ r[i] = q[i + 1] /\ r[i] \in Attempt
  BY <1>1, <1>2, ElementOfSeq
<1>5. 1 \in DOMAIN q /\ \A i \in DOMAIN q : i = 1 \/ (i - 1 \in DOMAIN r /\ r[i - 1] = q[i])
  BY <1>1, <1>2
<1>6. EventsOf(q) = EventsOf(r) \union {Head(q).n}
  <2>1. ASSUME NEW i \in DOMAIN q PROVE q[i].n \in EventsOf(r) \union {Head(q).n}
    BY <1>3, <1>5 DEF EventsOf
  <2>2. ASSUME NEW i \in DOMAIN r PROVE r[i].n \in EventsOf(q) BY <1>4 DEF EventsOf
  <2>3. QED BY <1>3, <1>5, <2>1, <2>2 DEF EventsOf
<1>7. ASSUME Distinct(q) PROVE Distinct(r) /\ Head(q).n \notin EventsOf(r)
  <2>1. \A i, j \in DOMAIN r : r[i].n = r[j].n => i + 1 = j + 1 BY <1>4, <1>7 DEF Distinct
  <2>2. Distinct(r) BY <1>1, <1>2, <2>1 DEF Distinct
  <2>3. ASSUME NEW i \in DOMAIN r PROVE r[i].n # Head(q).n
    <3>1. i + 1 # 1 BY <1>1, <1>2
    <3>2. QED BY <1>3, <1>4, <1>5, <1>7, <3>1 DEF Distinct
  <2>4. QED BY <2>2, <2>3 DEF EventsOf
<1>8. ASSUME Orderly(q)
      PROVE  Orderly(r) /\ \A j \in DOMAIN r : ComesAfter({Head(q).n}, r[j])
  <2>1. \A i, j \in DOMAIN r : i < j => i + 1 < j + 1 BY <1>1, <1>2
  <2>2. Orderly(r) BY <1>4, <1>8, <2>1 DEF Orderly
  <2>3. \A j \in DOMAIN r : 1 < j + 1 BY <1>1, <1>2
  <2>4. \A j \in DOMAIN r : ComesAfter({Head(q).n}, r[j])
    BY <1>3, <1>4, <1>5, <1>8, <2>3 DEF Orderly, ComesAfter
  <2>5. QED BY <2>2, <2>4
<1>9. QED BY <1>1, <1>3, <1>4, <1>5, <1>6, <1>7, <1>8 DEF IsShortened

\* An attempt appended to the order is its ID's last; the other IDs keep theirs.
LEMMA LastAppended ==
    ASSUME NEW q, NEW e, NEW r, IsAppended(q, e, r), NEW id
    PROVE  /\ Margin[e.n].id = id => IsLast(r, id, Len(q) + 1)
           /\ Margin[e.n].id # id => Mine(r, id) = Mine(q, id)
BY DEF IsAppended, Mine, IsLast

-----------------------------------------------------------------------------
\* At the start no event is sent and no offer is stored.
LEMMA InitIInv == Init => IInv
<1> SUFFICES ASSUME Init PROVE IInv OBVIOUS
<1> USE DEF Init
<1>1. /\ <<>> \in Seq(Attempt) /\ <<>> \in Seq(1..Len(Liquidity)) /\ Len(<<>>) = 0
      /\ DOMAIN <<>> = {}
  BY EmptySeq
<1>2. QueueCap \in Nat /\ Len(Margin) \in Nat BY EtlAssumption, EventFacts
<1>3. TypeOK
  <2>1. /\ marginQ \in Seq(Attempt) /\ Len(marginQ) <= QueueCap
        /\ liquidityQ \in Seq(1..Len(Liquidity)) /\ Len(liquidityQ) <= QueueCap
        /\ order \in Seq(Attempt)
    BY <1>1, <1>2
  <2>2. /\ table \in [Ids -> Stored \union {None}] /\ fate \in [Numbers -> Fates]
        /\ sent \in [{"margin", "liquidity"} -> Nat]
    BY DEF Fates
  <2>3. QED BY <2>1, <2>2 DEF TypeOK
<1>4. Placed BY <1>1 DEF Placed, Distinct, EventsOf
<1>5. OrderOK BY <1>1 DEF OrderOK, Orderly
<1>6. StoreOK BY <1>1 DEF StoreOK, Follows, Mine
<1>7. QED BY <1>3, <1>4, <1>5, <1>6 DEF IInv

\* An event of the chain is new, and later than all there are.
LEMMA HandleMarginKeeps ==
    ASSUME IInv, HandleMarginOfferEvent
    PROVE  IInv'
<1> DEFINE n == sent["margin"] + 1
           e == [n |-> n, tries |-> 0]
<1>1. /\ n \in Numbers /\ sent' = [sent EXCEPT !["margin"] = n]
      /\ UNCHANGED <<table, liquidityQ, sleeping, pending, status, exited, order,
                     overtaken, overlap>>
      /\ \/ /\ Len(marginQ) < QueueCap /\ marginQ' = Append(marginQ, e)
            /\ fate' = [fate EXCEPT ![n] = "queued"]
         \/ /\ fate' \in {[fate EXCEPT ![n] = "stopped"], [fate EXCEPT ![n] = "dropped"]}
            /\ marginQ' = marginQ
  BY DEF HandleMarginOfferEvent
<1>2. TypeOK /\ Placed /\ OrderOK /\ StoreOK BY DEF IInv
<1>3. sent["margin"] \in Nat /\ n \in Nat /\ sent'["margin"] = n /\ fate \in [Numbers -> Fates]
  BY <1>1, <1>2 DEF TypeOK
<1>4. e \in Attempt /\ e.n = n /\ e.tries = 0
  BY <1>1, EtlAssumption DEF Attempt
<1>5. fate[n] = "unsent" BY <1>1, <1>2, <1>3 DEF Placed
<1>6. n \notin EventsOf(marginQ) \union EventsOf(order) /\ \A d \in sleeping : d.n # n
  BY <1>1, <1>2, <1>5 DEF Placed
<1>7. \A m \in EventsOf(marginQ) \union EventsOf(order) : m \in Nat /\ m < n
  <2>1. SUFFICES ASSUME NEW m \in EventsOf(marginQ) \union EventsOf(order)
                 PROVE  m \in Nat /\ m < n
    OBVIOUS
  <2>2. m \in Numbers /\ m \in Nat BY <1>2, EventsOfAttempts DEF TypeOK
  <2>3. ~(m > sent["margin"]) BY <1>2, <2>2 DEF Placed
  <2>4. QED BY <1>3, <2>2, <2>3
<1> HIDE DEF n, e
<1>8. StoreOK' BY <1>1, <1>2 DEF StoreOK
<1>9. \A m \in Numbers : m # n => fate'[m] = fate[m] BY <1>1, <1>3
<1>10. \A m \in Numbers : m > n => m > sent["margin"] BY <1>3, EventFacts DEF n
<1>11. sent' \in [{"margin", "liquidity"} -> Nat] BY <1>1, <1>2, <1>3 DEF TypeOK
<1>12. CASE /\ Len(marginQ) < QueueCap /\ marginQ' = Append(marginQ, e)
            /\ fate' = [fate EXCEPT ![n] = "queued"]
  <2>1. marginQ \in Seq(Attempt) BY <1>2 DEF TypeOK
  <2>2. /\ marginQ' \in Seq(Attempt) /\ Len(marginQ') = Len(marginQ) + 1
        /\ Len(marginQ) \in Nat
        /\ EventsOf(marginQ') = EventsOf(marginQ) \union {n}
        /\ Distinct(marginQ')
        /\ \A j \in DOMAIN marginQ' : (j \in DOMAIN marginQ /\ marginQ'[j] = marginQ[j])
                                         \/ marginQ'[j] = e
    <3>1. IsAppended(marginQ, e, marginQ') BY <1>4, <1>12, <2>1, Appended
    <3>2. QED BY <1>2, <1>4, <1>6, <3>1 DEF Placed, IsAppended
  <2>3. Orderly(marginQ')
    <3>1. ComesAfter(EventsOf(marginQ), e)
      BY <1>3, <1>4, <1>7 DEF ComesAfter
    <3>2. IsAppended(marginQ, e, marginQ') BY <1>4, <1>12, <2>1, Appended
    <3>3. QED BY <1>2, <3>1, <3>2 DEF OrderOK, IsAppended
  <2>4. TypeOK'
    <3>1. Len(marginQ') <= QueueCap BY <1>12, <2>2, EtlAssumption
    <3>2. fate' \in [Numbers -> Fates] BY <1>3, <1>12 DEF Fates
    <3>3. QED BY <1>1, <1>2, <1>11, <2>2, <3>1, <3>2 DEF TypeOK
  <2>5. Placed'
    <3>1. fate'[n] = "queued" BY <1>1, <1>3, <1>12
    <3>2. \A m \in Numbers : m > n => fate'[m] = "unsent"
      BY <1>1, <1>2, <1>3, <1>9, <1>10, EventFacts DEF Placed
    <3>3. QED BY <1>1, <1>2, <1>3, <1>6, <1>9, <2>2, <3>1, <3>2 DEF Placed
  <2>6. OrderOK'
    <3>1. ComesAfter(EventsOf(order), e) BY <1>3, <1>4, <1>7 DEF ComesAfter
    <3>2. QED BY <1>1, <1>2, <2>2, <2>3, <3>1 DEF OrderOK
  <2>7. QED BY <1>8, <2>4, <2>5, <2>6 DEF IInv
<1>13. CASE /\ fate' \in {[fate EXCEPT ![n] = "stopped"], [fate EXCEPT ![n] = "dropped"]}
            /\ marginQ' = marginQ
  <2>1. fate'[n] \in {"stopped", "dropped"} BY <1>1, <1>3, <1>13
  <2>2. TypeOK'
    <3>1. fate' \in [Numbers -> Fates] BY <1>3, <1>13 DEF Fates
    <3>2. QED BY <1>1, <1>2, <1>11, <1>13, <3>1 DEF TypeOK
  <2>3. Placed'
    <3>1. \A m \in Numbers : m > n => fate'[m] = "unsent"
      BY <1>1, <1>2, <1>3, <1>9, <1>10, EventFacts DEF Placed
    <3>2. QED BY <1>1, <1>2, <1>3, <1>6, <1>9, <1>13, <2>1, <3>1 DEF Placed
  <2>4. OrderOK' BY <1>1, <1>2, <1>13 DEF OrderOK
  <2>5. QED BY <1>8, <2>2, <2>3, <2>4 DEF IInv
<1>14. QED BY <1>1, <1>12, <1>13

\* Liquidity events are only queued here.
LEMMA HandleLiquidityKeeps ==
    ASSUME IInv, HandleLiquidityEvent
    PROVE  IInv'
<1> DEFINE n == sent["liquidity"] + 1
<1>1. /\ n \in 1..Len(Liquidity) /\ sent' = [sent EXCEPT !["liquidity"] = n]
      /\ \/ Len(liquidityQ) < QueueCap /\ liquidityQ' = Append(liquidityQ, n)
         \/ liquidityQ' = liquidityQ
      /\ UNCHANGED <<table, marginQ, sleeping, pending, status, exited, fate, order,
                     overtaken, overlap>>
  BY DEF HandleLiquidityEvent
<1>2. TypeOK /\ Placed /\ OrderOK /\ StoreOK BY DEF IInv
<1>3. n \in Nat BY <1>2 DEF TypeOK
<1> HIDE DEF n
<1>4. liquidityQ' \in Seq(1..Len(Liquidity)) /\ Len(liquidityQ') <= QueueCap
  <2>1. liquidityQ \in Seq(1..Len(Liquidity)) /\ Len(liquidityQ) <= QueueCap BY <1>2 DEF TypeOK
  <2>2. Len(liquidityQ) \in Nat /\ QueueCap \in Nat BY <2>1, LenProperties, EtlAssumption
  <2>3. CASE Len(liquidityQ) < QueueCap /\ liquidityQ' = Append(liquidityQ, n)
    <3>1. liquidityQ' \in Seq(1..Len(Liquidity)) /\ Len(liquidityQ') = Len(liquidityQ) + 1
      BY <1>1, <2>1, <2>3, AppendProperties
    <3>2. QED BY <2>2, <2>3, <3>1
  <2>4. QED BY <1>1, <2>1, <2>3
<1>5. sent' \in [{"margin", "liquidity"} -> Nat] /\ sent'["margin"] = sent["margin"]
  BY <1>1, <1>2, <1>3 DEF TypeOK
<1>6. TypeOK' BY <1>1, <1>2, <1>4, <1>5 DEF TypeOK
<1>7. Placed' BY <1>1, <1>2, <1>5 DEF Placed
<1>8. OrderOK' BY <1>1, <1>2 DEF OrderOK
<1>9. StoreOK' BY <1>1, <1>2 DEF StoreOK
<1>10. QED BY <1>6, <1>7, <1>8, <1>9 DEF IInv

-----------------------------------------------------------------------------
\* An event that is applied goes from the head of the channel to the end of the
\* order, and is its ID's last.
LEMMA ApplyKeeps ==
    ASSUME IInv, marginQ # <<>>, marginQ' = Tail(marginQ), Succeeds(Head(marginQ).n),
           Apply(Head(marginQ)), UNCHANGED <<liquidityQ, sent, pending, status, exited>>
    PROVE  IInv'
<1> DEFINE e == Head(marginQ)
           n == e.n
           x == Margin[n].id
<1>1. TypeOK /\ Placed /\ OrderOK /\ StoreOK BY DEF IInv
<1>2. marginQ \in Seq(Attempt) /\ order \in Seq(Attempt) BY <1>1 DEF TypeOK
<1>3. IsShortened(marginQ, e, marginQ') BY <1>2, Shortened
<1>4. /\ table' = [table EXCEPT ![x] = IF Margin[n].kind = "deleted" THEN None
                                       ELSE [data |-> n, amount |-> 0]]
      /\ overtaken' = overtaken \ {x}
      /\ overlap' = (overlap \/ (pending # None /\ Liquidity[pending.n].id = x))
      /\ order' = Append(order, e) /\ fate' = [fate EXCEPT ![n] = "applied"]
      /\ sleeping' = sleeping
  BY DEF Apply
<1>5. n \in Numbers /\ x \in Ids /\ n \in Nat /\ e \in Attempt
  BY <1>3, EventFacts DEF Attempt, IsShortened
<1>6. fate[n] = "queued" BY <1>1, <1>3, <1>5 DEF Placed, IsShortened
<1>7. n \notin EventsOf(order) BY <1>1, <1>5, <1>6 DEF Placed
<1>8. IsAppended(order, e, order') BY <1>2, <1>4, <1>5, Appended
<1>9. \A id : /\ x = id => IsLast(order', id, Len(order) + 1)
              /\ x # id => Mine(order', id) = Mine(order, id)
  BY <1>8, LastAppended
<1>10. [data |-> n, amount |-> 0] \in Stored BY <1>5 DEF Stored
<1> HIDE DEF e, x
<1>11. TypeOK'
  <2>1. table' \in [Ids -> Stored \union {None}]
    BY <1>1, <1>4, <1>5, <1>10 DEF TypeOK
  <2>2. fate' \in [Numbers -> Fates] BY <1>1, <1>4 DEF TypeOK, Fates
  <2>3. Len(marginQ') <= QueueCap BY <1>1, <1>3, EtlAssumption DEF TypeOK, IsShortened
  <2>4. overlap' \in BOOLEAN BY <1>1, <1>4 DEF TypeOK
  <2>5. QED
    BY <1>1, <1>3, <1>4, <1>8, <2>1, <2>2, <2>3, <2>4 DEF TypeOK, IsShortened, IsAppended
<1>12. Placed'
  <2>1. fate'[n] = "applied" /\ \A m \in Numbers \ {n} : fate'[m] = fate[m]
    BY <1>1, <1>4, <1>5 DEF TypeOK
  <2>2. ~(n > sent["margin"]) BY <1>1, <1>5, <1>6 DEF Placed
  <2>3. ~\E d \in sleeping : d.n = n BY <1>1, <1>5, <1>6 DEF Placed
  <2>4. Distinct(marginQ') /\ Distinct(order') /\ n \notin EventsOf(marginQ')
    BY <1>1, <1>3, <1>7, <1>8 DEF Placed, IsShortened, IsAppended
  <2>5. QED 
    BY <1>1, <1>3, <1>4, <1>8, <2>1, <2>2, <2>3, <2>4 DEF Placed, IsShortened, IsAppended
<1>13. OrderOK'
  <2>1. ComesAfter(EventsOf(order), e) BY <1>1, <1>3 DEF OrderOK, IsShortened
  <2>2. \A j \in DOMAIN marginQ' :
           /\ ComesAfter(EventsOf(order), marginQ'[j]) /\ ComesAfter({n}, marginQ'[j])
    BY <1>1, <1>3 DEF OrderOK, IsShortened
  <2>3. \A j \in DOMAIN marginQ' : ComesAfter(EventsOf(order'), marginQ'[j])
    BY <1>8, <2>2 DEF ComesAfter, IsAppended
  <2>4. QED BY <1>1, <1>3, <1>4, <1>8, <2>1, <2>3 DEF OrderOK, IsShortened, IsAppended
<1>14. StoreOK'
  <2>1. \A id \in Ids \ {x} : table'[id] = table[id] BY <1>1, <1>4, <1>5 DEF TypeOK
  <2>2. Leaves(n, table'[x])
    <3>1. table'[x] = IF Margin[n].kind = "deleted" THEN None ELSE [data |-> n, amount |-> 0]
      BY <1>1, <1>4, <1>5 DEF TypeOK
    <3>2. [data |-> n, amount |-> 0] # None BY <1>10, EtlAssumption DEF Stored
    <3>3. QED BY <3>1, <3>2 DEF Leaves
  <2>3. ASSUME NEW id \in Ids, Mine(order', id) # {}
        PROVE  \E i \in DOMAIN order' : IsLast(order', id, i)
    <3>1. CASE id = x BY <1>8, <1>9, <3>1 DEF IsAppended
    <3>2. CASE id # x
      <4>1. PICK i \in DOMAIN order : IsLast(order, id, i)
        BY <1>1, <1>9, <2>3, <3>2 DEF StoreOK
      <4>2. IsLast(order', id, i) BY <1>9, <3>2, <4>1 DEF IsLast
      <4>3. QED BY <1>8, <4>1, <4>2 DEF IsAppended
    <3>3. QED BY <3>1, <3>2
  <2>4. ASSUME NEW id \in Ids \ overtaken' PROVE Follows(order', table', id)
    <3>1. CASE id = x
      <4>1. order'[Len(order) + 1].n = n BY <1>8 DEF IsAppended
      <4>2. QED BY <1>9, <2>2, <3>1, <4>1 DEF Follows, IsLast
    <3>2. CASE id # x
      <4>1. Follows(order, table, id) BY <1>1, <1>4, <2>4, <3>2 DEF StoreOK
      <4>2. Mine(order', id) = Mine(order, id) /\ table'[id] = table[id] BY <1>9, <2>1, <3>2
      <4>3. \A i \in Mine(order, id) : order'[i] = order[i] BY <1>8 DEF Mine, IsAppended
      <4>4. QED BY <4>1, <4>2, <4>3 DEF Follows, IsLast
    <3>3. QED BY <3>1, <3>2
  <2>5. ASSUME pending # None, ~overlap'
        PROVE  /\ table'[Liquidity[pending.n].id] # None
               /\ table'[Liquidity[pending.n].id].data = pending.seen.data
    <3>1. Liquidity[pending.n].id \in Ids BY <1>1, <2>5, EventFacts DEF TypeOK
    <3>2. ~overlap /\ Liquidity[pending.n].id # x BY <1>4, <2>5
    <3>3. QED BY <1>1, <2>1, <2>5, <3>1, <3>2 DEF StoreOK
  <2>6. QED BY <2>3, <2>4, <2>5 DEF StoreOK
<1>15. QED BY <1>11, <1>12, <1>13, <1>14 DEF IInv

\* An event that failed sleeps, with one try more, or is given up.
LEMMA FailKeeps ==
    ASSUME IInv, marginQ # <<>>, marginQ' = Tail(marginQ), Fail(Head(marginQ)),
           UNCHANGED <<liquidityQ, sent, pending, status, exited>>
    PROVE  IInv'
<1> DEFINE e == Head(marginQ)
           d == [e EXCEPT !.tries = @ + 1]
<1>1. TypeOK /\ Placed /\ OrderOK /\ StoreOK BY DEF IInv
<1>2. IsShortened(marginQ, e, marginQ') BY <1>1, Shortened DEF TypeOK
<1>3. e \in Attempt /\ e.n \in Numbers /\ e.tries \in 0..MaxRetries /\ MaxRetries \in Nat
  BY <1>2, EtlAssumption DEF Attempt, IsShortened
<1>4. fate[e.n] = "queued" BY <1>1, <1>2, <1>3 DEF Placed, IsShortened
<1>5. UNCHANGED <<table, order, overtaken, overlap>> BY DEF Fail
<1>6. StoreOK' BY <1>1, <1>5 DEF StoreOK
<1>7. /\ Orderly(marginQ')
      /\ \A j \in DOMAIN marginQ' : ComesAfter(EventsOf(order), marginQ'[j])
  BY <1>1, <1>2 DEF OrderOK, IsShortened
<1>8. Distinct(marginQ') /\ e.n \notin EventsOf(marginQ') /\ e.n \notin EventsOf(order)
  BY <1>1, <1>2, <1>3, <1>4 DEF Placed, IsShortened
<1>9. /\ ~(e.n > sent["margin"]) /\ \A c \in sleeping : c.n # e.n
  BY <1>1, <1>3, <1>4 DEF Placed
<1>10. Len(marginQ') <= QueueCap /\ marginQ' \in Seq(Attempt)
  BY <1>1, <1>2, EtlAssumption DEF TypeOK, IsShortened
<1>11. CASE /\ e.tries < MaxRetries /\ sleeping' = sleeping \union {d}
            /\ fate' = [fate EXCEPT ![e.n] = "sleeping"]
  <2>1. d \in Attempt /\ d.n = e.n /\ d.tries > 0
    BY <1>3, <1>11 DEF Attempt
  <2> HIDE DEF d, e
  <2>2. fate'[e.n] = "sleeping" /\ \A m \in Numbers \ {e.n} : fate'[m] = fate[m]
    BY <1>1, <1>3, <1>11 DEF TypeOK
  <2>3. fate' \in [Numbers -> Fates] BY <1>1, <1>11 DEF TypeOK, Fates
  <2>4. TypeOK' BY <1>1, <1>5, <1>10, <1>11, <2>1, <2>3 DEF TypeOK
  <2>5. Placed'
    <3>1. \A b, c \in sleeping' : b.n = c.n => b = c
      BY <1>1, <1>9, <1>11, <2>1 DEF Placed
    <3>2. \A m \in Numbers : (\E c \in sleeping' : c.n = m)
                               <=> m = e.n \/ \E c \in sleeping : c.n = m
      BY <1>11, <2>1
    <3>3. EventsOf(marginQ) = EventsOf(marginQ') \union {e.n} BY <1>2 DEF IsShortened
    <3>4. QED BY <1>1, <1>5, <1>8, <1>9, <2>2, <3>1, <3>2, <3>3 DEF Placed
  <2>6. OrderOK' BY <1>1, <1>5, <1>7, <1>11, <2>1 DEF OrderOK
  <2>7. QED BY <1>6, <2>4, <2>5, <2>6 DEF IInv
<1>12. CASE /\ fate' = [fate EXCEPT ![e.n] = "abandoned"] /\ sleeping' = sleeping
  <2> HIDE DEF e
  <2>1. fate'[e.n] = "abandoned" /\ \A m \in Numbers \ {e.n} : fate'[m] = fate[m]
    BY <1>1, <1>3, <1>12 DEF TypeOK
  <2>2. fate' \in [Numbers -> Fates] BY <1>1, <1>12 DEF TypeOK, Fates
  <2>3. TypeOK' BY <1>1, <1>5, <1>10, <1>12, <2>2 DEF TypeOK
  <2>4. Placed'
    <3>1. EventsOf(marginQ) = EventsOf(marginQ') \union {e.n} BY <1>2 DEF IsShortened
    <3>2. QED BY <1>1, <1>5, <1>8, <1>9, <1>12, <2>1, <3>1 DEF Placed
  <2>5. OrderOK' BY <1>1, <1>5, <1>7, <1>12 DEF OrderOK
  <2>6. QED BY <1>6, <2>3, <2>4, <2>5 DEF IInv
<1>13. QED BY <1>11, <1>12 DEF Fail

\* A retry comes back behind newer events, or is cut off.
LEMMA RequeueKeeps ==
    ASSUME IInv, NEW e \in sleeping, Requeue(e)
    PROVE  IInv'
<1>1. TypeOK /\ Placed /\ OrderOK /\ StoreOK BY DEF IInv
<1>2. /\ sleeping' = sleeping \ {e}
      /\ UNCHANGED <<table, liquidityQ, sent, pending, status, exited, order, overtaken,
                     overlap>>
  BY DEF Requeue
<1>3. e \in Attempt /\ e.n \in Numbers /\ e.tries > 0
  BY <1>1 DEF TypeOK, OrderOK, Attempt
<1>4. fate[e.n] = "sleeping" BY <1>1, <1>3 DEF Placed
<1>5. StoreOK' BY <1>1, <1>2 DEF StoreOK
<1>6. e.n \notin EventsOf(marginQ) \union EventsOf(order) /\ ~(e.n > sent["margin"])
  BY <1>1, <1>3, <1>4 DEF Placed
<1>7. \A m \in Numbers :
         (\E c \in sleeping' : c.n = m) <=> (m # e.n /\ \E c \in sleeping : c.n = m)
  BY <1>1, <1>2 DEF Placed
<1>8. CASE /\ Len(marginQ) < QueueCap /\ marginQ' = Append(marginQ, e)
           /\ fate' = [fate EXCEPT ![e.n] = "queued"]
  <2>1. IsAppended(marginQ, e, marginQ') BY <1>1, <1>3, <1>8, Appended DEF TypeOK
  <2>2. fate'[e.n] = "queued" /\ \A m \in Numbers \ {e.n} : fate'[m] = fate[m]
    BY <1>1, <1>3, <1>8 DEF TypeOK
  <2>3. fate' \in [Numbers -> Fates] BY <1>1, <1>8 DEF TypeOK, Fates
  <2>4. Len(marginQ') <= QueueCap /\ marginQ' \in Seq(Attempt)
    BY <1>8, <2>1, EtlAssumption DEF IsAppended
  <2>5. TypeOK' BY <1>1, <1>2, <2>3, <2>4 DEF TypeOK
  <2>6. Placed'
    <3>1. Distinct(marginQ') /\ EventsOf(marginQ') = EventsOf(marginQ) \union {e.n}
      BY <1>1, <1>6, <2>1 DEF Placed, IsAppended
    <3>2. QED BY <1>1, <1>2, <1>6, <1>7, <2>2, <3>1 DEF Placed
  <2>7. OrderOK'
    <3>1. \A S : ComesAfter(S, e) BY <1>3 DEF ComesAfter
    <3>2. QED BY <1>1, <1>2, <2>1, <3>1 DEF OrderOK, IsAppended
  <2>8. QED BY <1>5, <2>5, <2>6, <2>7 DEF IInv
<1>9. CASE fate' = [fate EXCEPT ![e.n] = "stopped"] /\ marginQ' = marginQ
  <2>1. fate'[e.n] = "stopped" /\ \A m \in Numbers \ {e.n} : fate'[m] = fate[m]
    BY <1>1, <1>3, <1>9 DEF TypeOK
  <2>2. fate' \in [Numbers -> Fates] BY <1>1, <1>9 DEF TypeOK, Fates
  <2>3. TypeOK' BY <1>1, <1>2, <1>9, <2>2 DEF TypeOK
  <2>4. Placed' BY <1>1, <1>2, <1>6, <1>7, <1>9, <2>1 DEF Placed
  <2>5. OrderOK' BY <1>1, <1>2, <1>9 DEF OrderOK
  <2>6. QED BY <1>5, <2>3, <2>4, <2>5 DEF IInv
<1>10. QED BY <1>8, <1>9 DEF Requeue

-----------------------------------------------------------------------------
\* A liquidity event reads the offer it will write back.
LEMMA ReadKeeps ==
    ASSUME IInv, ReadOffer
    PROVE  IInv'
<1> DEFINE n == Head(liquidityQ)
           id == Liquidity[n].id
<1>1. TypeOK /\ Placed /\ OrderOK /\ StoreOK BY DEF IInv
<1>2. /\ liquidityQ # <<>> /\ liquidityQ' = Tail(liquidityQ)
      /\ \/ pending' = None
         \/ table[id] # None /\ pending' = [n |-> n, seen |-> table[id]]
      /\ overlap' = FALSE
      /\ UNCHANGED <<table, marginQ, sent, sleeping, status, exited, fate, order, overtaken>>
  BY DEF ReadOffer
<1>3. /\ n \in 1..Len(Liquidity) /\ liquidityQ' \in Seq(1..Len(Liquidity))
      /\ Len(liquidityQ') <= QueueCap
  <2>1. liquidityQ \in Seq(1..Len(Liquidity)) /\ Len(liquidityQ) <= QueueCap
    BY <1>1 DEF TypeOK
  <2>2. Len(liquidityQ) \in Nat /\ QueueCap \in Nat BY <2>1, LenProperties, EtlAssumption
  <2>3. /\ n \in 1..Len(Liquidity) /\ liquidityQ' \in Seq(1..Len(Liquidity))
        /\ Len(liquidityQ') = Len(liquidityQ) - 1
    BY <1>2, <2>1, HeadTailProperties
  <2>4. QED BY <2>1, <2>2, <2>3
<1>4. id \in Ids BY <1>3, EventFacts
<1> HIDE DEF n
<1>5. table[id] # None => table[id] \in Stored BY <1>1, <1>4 DEF TypeOK
<1>6. pending' \in [n: 1..Len(Liquidity), seen: Stored] \union {None}
  BY <1>2, <1>3, <1>5
<1>7. TypeOK' BY <1>1, <1>2, <1>3, <1>6 DEF TypeOK
<1>8. Placed' /\ OrderOK' BY <1>1, <1>2 DEF Placed, OrderOK
<1>9. StoreOK'
  <2>1. pending' # None => /\ table[id] # None
                           /\ pending'.n = n /\ pending'.seen = table[id]
    BY <1>2
  <2>2. QED BY <1>1, <1>2, <2>1 DEF StoreOK
<1>10. QED BY <1>7, <1>8, <1>9 DEF IInv

\* And writes it back with the new amount: the data is that of the last margin
\* offer event, or the ID is overtaken.
LEMMA WriteKeeps ==
    ASSUME IInv, WriteOffer
    PROVE  IInv'
<1> DEFINE x == Liquidity[pending.n].id
           o == [pending.seen EXCEPT !.amount = pending.n]
<1>1. TypeOK /\ Placed /\ OrderOK /\ StoreOK BY DEF IInv
<1>2. /\ pending # None /\ pending' = None /\ overlap' = FALSE
      /\ UNCHANGED <<marginQ, liquidityQ, sent, sleeping, status, exited, fate, order>>
  BY DEF WriteOffer
<1>3. CASE UNCHANGED <<table, overtaken>>
  <2>1. TypeOK' BY <1>1, <1>2, <1>3 DEF TypeOK
  <2>2. Placed' /\ OrderOK' BY <1>1, <1>2 DEF Placed, OrderOK
  <2>3. StoreOK' BY <1>1, <1>2, <1>3 DEF StoreOK, Follows
  <2>4. QED BY <2>1, <2>2, <2>3 DEF IInv
<1>4. CASE ~UNCHANGED <<table, overtaken>>
  <2>1. /\ table' = [table EXCEPT ![x] = o]
        /\ overtaken' = IF overlap THEN overtaken \union {x} ELSE overtaken
    BY <1>4 DEF WriteOffer
  <2>2. pending.n \in 1..Len(Liquidity) /\ pending.seen \in Stored BY <1>1, <1>2, <2>1 DEF TypeOK
  <2>3. x \in Ids /\ pending.n \in Nat BY <2>2, EventFacts
  <2>4. o \in Stored /\ o.data = pending.seen.data BY <2>2, <2>3 DEF Stored
  <2>5. o # None BY <2>4, EtlAssumption DEF Stored
  <2> HIDE DEF x, o
  <2>6. table' \in [Ids -> Stored \union {None}] BY <1>1, <1>2, <2>1, <2>3, <2>4 DEF TypeOK
  <2>7. TypeOK' BY <1>1, <1>2, <2>1, <2>3, <2>6 DEF TypeOK
  <2>8. Placed' /\ OrderOK' BY <1>1, <1>2, <2>1 DEF Placed, OrderOK
  <2>9. table'[x] = o /\ \A id \in Ids \ {x} : table'[id] = table[id]
    BY <1>1, <1>2, <2>1, <2>3 DEF TypeOK
  <2>10. ASSUME NEW id \in Ids \ overtaken' PROVE Follows(order, table', id)
    <3>1. Follows(order, table, id) BY <1>1, <1>2, <2>1, <2>10 DEF StoreOK
    <3>2. CASE id # x BY <2>9, <3>1, <3>2 DEF Follows
    <3>3. CASE id = x
      <4>1. ~overlap BY <1>2, <2>1, <2>10, <3>3
      <4>2. table[x] # None /\ table[x].data = o.data
        BY <1>1, <1>2, <2>1, <2>4, <4>1 DEF StoreOK, x
      <4>3. PICK i \in Mine(order, x) : IsLast(order, x, i) /\ Leaves(order[i].n, table[x])
        BY <3>1, <3>3, <4>2 DEF Follows
      <4>4. Leaves(order[i].n, table'[x]) BY <2>5, <2>9, <4>2, <4>3 DEF Leaves
      <4>5. QED BY <3>3, <4>3, <4>4 DEF Follows
    <3>4. QED BY <3>2, <3>3
  <2>11. StoreOK' BY <1>1, <1>2, <2>1, <2>10 DEF StoreOK
  <2>12. QED BY <2>7, <2>8, <2>11 DEF IInv
<1>5. QED BY <1>3, <1>4

\* The rest of the service's steps touch none of it.
LEMMA OthersKeep ==
    ASSUME IInv,
           \/ Stop
           \/ \E loop \in {"margin", "liquidity"} : Exit(loop)
           \/ UNCHANGED vars
    PROVE  IInv'
<1>1. TypeOK /\ Placed /\ OrderOK /\ StoreOK BY DEF IInv
<1>2. UNCHANGED <<table, marginQ, liquidityQ, sent, sleeping, pending, fate, order,
                  overtaken, overlap>>
  BY DEF Stop, Exit, vars
<1>3. status' \in {"running", "stopped"} /\ exited' \subseteq {"margin", "liquidity"}
  BY <1>1 DEF TypeOK, Stop, Exit, vars
<1>4. TypeOK' BY <1>1, <1>2, <1>3 DEF TypeOK
<1>5. Placed' /\ OrderOK' /\ StoreOK' BY <1>1, <1>2 DEF Placed, OrderOK, StoreOK
<1>6. QED BY <1>4, <1>5 DEF IInv

\* Every step of the Processor keeps the inductive invariant.
LEMMA NextKeeps == IInv /\ [Next]_vars => IInv'
<1> SUFFICES ASSUME IInv, [Next]_vars PROVE IInv' OBVIOUS
<1>1. CASE HandleMarginOfferEvent BY <1>1, HandleMarginKeeps
<1>2. CASE HandleLiquidityEvent BY <1>2, HandleLiquidityKeeps
<1>3. CASE ProcessMarginOfferEvent
  BY <1>3, ApplyKeeps, FailKeeps DEF ProcessMarginOfferEvent
<1>4. CASE ReadOffer BY <1>4, ReadKeeps
<1>5. CASE WriteOffer BY <1>5, WriteKeeps
<1>6. CASE \E e \in sleeping : Requeue(e) BY <1>6, RequeueKeeps
<1>7. CASE Stop \/ (\E loop \in {"margin", "liquidity"} : Exit(loop)) \/ UNCHANGED vars
  BY <1>7, OthersKeep
<1>8. QED BY <1>1, <1>2, <1>3, <1>4, <1>5, <1>6, <1>7 DEF Next

\* IInv is an invariant of the Processor, its retries and its two loops.
THEOREM Inductive == Spec => []IInv
<1>1. QED BY InitIInv, NextKeeps, PTL DEF Spec

-----------------------------------------------------------------------------
\* A part of a finite set that is one element, or none.
LEMMA Count ==
    ASSUME NEW S, NEW p \in BOOLEAN, p <=> S # {}, \A x, y \in S : x = y
    PROVE  Cardinality(S) = IF p THEN 1 ELSE 0
<1>1. CASE S = {} BY <1>1, FS_EmptySet
<1>2. CASE S # {}
  <2>1. PICK x : x \in S BY <1>2
  <2>2. S = {x} BY <2>1
  <2>3. QED BY <1>2, <2>2, FS_Singleton
<1>3. QED BY <1>1, <1>2

\* The state has its type, and no event is lost or doubled between the channel
\* of processMarginOfferEvents, the goroutines of handleProcessingError and the
\* store.
THEOREM Accounted == Spec => []EtlInv
<1>1. IInv => EtlInv
  <2>1. SUFFICES ASSUME IInv, NEW n \in Numbers
        PROVE  /\ Cardinality({i \in DOMAIN marginQ : marginQ[i].n = n})
                    = IF fate[n] = "queued" THEN 1 ELSE 0
               /\ Cardinality({e \in sleeping : e.n = n})
                    = IF fate[n] = "sleeping" THEN 1 ELSE 0
               /\ Cardinality({i \in DOMAIN order : order[i].n = n})
                    = IF fate[n] = "applied" THEN 1 ELSE 0
    BY DEF IInv, EtlInv, EventsAccounted
  <2> DEFINE queued == {i \in DOMAIN marginQ : marginQ[i].n = n}
             asleep == {e \in sleeping : e.n = n}
             done == {i \in DOMAIN order : order[i].n = n}
  <2>2. fate[n] = "queued" <=> queued # {} BY <2>1 DEF IInv, Placed, EventsOf
  <2>3. fate[n] = "sleeping" <=> asleep # {} BY <2>1 DEF IInv, Placed
  <2>4. fate[n] = "applied" <=> done # {} BY <2>1 DEF IInv, Placed, EventsOf
  <2>5. /\ \A i, j \in queued : i = j
        /\ \A d, e \in asleep : d = e
        /\ \A i, j \in done : i = j
    BY <2>1 DEF IInv, Placed, Distinct
  <2> HIDE DEF queued, asleep, done
  <2>6. Cardinality(queued) = IF fate[n] = "queued" THEN 1 ELSE 0 BY <2>2, <2>5, Count
  <2>7. Cardinality(asleep) = IF fate[n] = "sleeping" THEN 1 ELSE 0 BY <2>3, <2>5, Count
  <2>8. Cardinality(done) = IF fate[n] = "applied" THEN 1 ELSE 0 BY <2>4, <2>5, Count
  <2>9. QED BY <2>6, <2>7, <2>8 DEF queued, asleep, done
<1>2. QED BY <1>1, Inductive, PTL

\* processMarginOfferEvents applies an event after one the chain sent later only
\* if handleProcessingError had queued it again.
THEOREM InOrder == Spec => []OutOfOrderOnlyByRetry
<1>1. IInv => OutOfOrderOnlyByRetry
  BY DEF IInv, OrderOK, Orderly, OutOfOrderOnlyByRetry
<1>2. QED BY <1>1, Inductive, PTL

\* The store holds what the last margin offer event left, unless a liquidity event
\* wrote back, after it, what processLiquidityEvents had read before it.
THEOREM Follow == Spec => []StoreFollowsEvents
<1>1. IInv => StoreFollowsEvents
  <2>1. SUFFICES ASSUME IInv, NEW id \in Ids \ overtaken
                 PROVE  LastOf(id) = IF table[id] = None THEN None ELSE table[id].data
    BY DEF StoreFollowsEvents
  <2>2. Follows(order, table, id) BY <2>1 DEF IInv, StoreOK
  <2> DEFINE mine == Mine(order, id)
             last == CHOOSE i \in mine : \A j \in mine : j <= i
  <2>3. LastOf(id) = IF mine = {} THEN None
                     ELSE IF Margin[order[last].n].kind = "deleted" THEN None
                     ELSE order[last].n
    BY DEF LastOf, Mine
  <2>4. CASE mine = {} /\ table[id] = None BY <2>3, <2>4
  <2>5. ASSUME NEW i \in mine, IsLast(order, id, i), Leaves(order[i].n, table[id])
        PROVE  LastOf(id) = IF table[id] = None THEN None ELSE table[id].data
    <3>1. last \in mine /\ \A j \in mine : j <= last BY <2>5 DEF IsLast
    <3>2. mine \subseteq Nat
      <4>1. order \in Seq(Attempt) BY <2>1 DEF IInv, TypeOK
      <4>2. QED BY <4>1, LenProperties DEF Mine
    <3> HIDE DEF last, mine
    <3>3. last = i BY <2>5, <3>1, <3>2 DEF IsLast, mine
    <3>4. QED BY <2>3, <2>5, <3>3 DEF Leaves
  <2>6. QED BY <2>2, <2>4, <2>5 DEF Follows
<1>2. QED BY <1>1, Inductive, PTL

-----------------------------------------------------------------------------
(***************************************************************************)
(* The life of the processor these loops belong to, for any number of      *)
(* starts: module EtlService.                                              *)
(***************************************************************************)

\* The goroutines of starts to come do not run; and while the processor runs since its
\* first start and is connected, its one health check is neither about to renew the
\* connection nor to report that it failed to.
GoroutinesOfStarts == \A k \in Nth : k > starts => monitor[k] = "off"
RunsSinceFirst == connected /\ isRunning /\ starting = "idle" /\ starts = 1
NoLateFailure == RunsSinceFirst => monitor[1] \notin {"lost", "reconnecting", "refused"}

\* A processor starts when it never ran, or was stopped.
StartsStopped == starting # "idle" => starts < MaxStarts /\ (starts = 0 \/ stopClosed)

ServiceIInv == ServiceInv /\ GoroutinesOfStarts /\ NoLateFailure /\ StartsStopped

Stations == {"off", "waiting", "lost", "reconnecting", "connected", "refused"}

\* The processor as it is made runs nothing and is not connected.
LEMMA ServiceBegins == ASSUME ServiceInit PROVE ServiceIInv
<1>1. starts \in 0..MaxStarts BY EtlServiceAssumption DEF ServiceInit, EtlServiceAssumption
<1>2. ServiceTypeOK
  <2>1. {isRunning, stopClosed, panicked, connected} \subseteq BOOLEAN BY DEF ServiceInit
  <2>2. subscriber \in [Nth -> Kinds \union {"off"}] /\ monitor \in [Nth -> Stations]
    BY DEF ServiceInit, Stations
  <2>3. QED BY <1>1, <2>1, <2>2 DEF ServiceInit, ServiceTypeOK, Stations, Answers
<1>3. QED
  BY <1>2 DEF ServiceInit, ServiceIInv, ServiceInv, ConnectedIsReported,
     GoroutinesOfStarts, NoLateFailure, RunsSinceFirst, StartsStopped

\* A Start that takes the lock, or connects, has not returned: nothing is claimed yet.
LEMMA ServiceStarts ==
    ASSUME ServiceIInv, Start \/ StartConnects PROVE ServiceIInv'
<1> USE DEF ServiceIInv, ServiceInv
<1>1. /\ UNCHANGED <<stopClosed, panicked, reported, subscribed, starts, subscriber,
                     monitor, loops>>
      /\ isRunning' = TRUE /\ starting' # "idle"
      /\ starting' \in {"connecting"} \union Answers
      /\ connected' = connected \/ connected' = TRUE
  BY DEF Start, StartConnects, Connects, Answers, goroutines, ServiceTypeOK
<1>2. ServiceTypeOK'
  <2>1. {isRunning', stopClosed', panicked', connected'} \subseteq BOOLEAN
    BY <1>1 DEF ServiceTypeOK
  <2>2. subscribed' # {} => connected' BY <1>1 DEF ServiceTypeOK
  <2>3. QED BY <1>1, <2>1, <2>2 DEF ServiceTypeOK
<1>3. StartsStopped'
  <2>1. CASE Start
    <3>1. ~isRunning /\ starts < MaxStarts BY <2>1 DEF Start
    <3>2. starts = 0 \/ stopClosed BY <3>1 DEF ServiceTypeOK
    <3>3. QED BY <1>1, <3>1, <3>2 DEF StartsStopped
  <2>2. CASE StartConnects BY <1>1, <2>2 DEF StartConnects, StartsStopped
  <2>3. QED BY <2>1, <2>2
<1>4. QED
  BY <1>1, <1>2, <1>3
  DEF ConnectedIsReported, GoroutinesOfStarts, NoLateFailure, RunsSinceFirst

\* It returns with the goroutines of one start more, or with an error that leaves a
\* processor that does not run.
LEMMA ServiceStarted ==
    ASSUME ServiceIInv, StartReturns PROVE ServiceIInv'
<1> USE EtlServiceAssumption DEF ServiceIInv, ServiceInv, EtlServiceAssumption
<1>1. /\ starting \in Answers /\ starting' = "idle"
      /\ UNCHANGED <<stopClosed, panicked, connected, subscribed>>
      /\ isRunning /\ starts \in Nat /\ MaxStarts \in Nat
      /\ starts < MaxStarts /\ (starts = 0 \/ stopClosed)
  BY DEF StartReturns, ServiceTypeOK, Answers, StartsStopped
<1>2. CASE starting = "refused"
  <2>1. /\ isRunning' = FALSE /\ reported' = "unhealthy"
        /\ UNCHANGED <<starts, subscriber, monitor, loops>>
    BY <1>2 DEF StartReturns, Reports, goroutines
  <2>2. {isRunning', stopClosed', panicked', connected'} \subseteq BOOLEAN
    BY <1>1, <2>1 DEF ServiceTypeOK
  <2>3. ServiceTypeOK' BY <1>1, <2>1, <2>2 DEF ServiceTypeOK
  <2>4. QED
    BY <1>1, <2>1, <2>3
    DEF ConnectedIsReported, GoroutinesOfStarts, NoLateFailure, RunsSinceFirst,
        StartsStopped
<1>3. CASE starting = "connected"
  <2>1. /\ reported' = "healthy" /\ isRunning' = isRunning /\ starts' = starts + 1
        /\ subscriber' = [subscriber EXCEPT ![starts'] = "margin"]
        /\ monitor' = [monitor EXCEPT ![starts'] = "waiting"]
        /\ loops' = loops \union {starts'}
    BY <1>3 DEF StartReturns, Reports
  <2>2. starts' \in Nth BY <1>1, <2>1 DEF Nth
  <2>3. ServiceTypeOK'
    <3>1. {isRunning', stopClosed', panicked', connected'} \subseteq BOOLEAN
      BY <1>1, <2>1 DEF ServiceTypeOK
    <3>2. /\ subscriber' \in [Nth -> Kinds \union {"off"}]
          /\ monitor' \in [Nth -> {"off", "waiting", "lost", "reconnecting"} \union Answers]
      BY <2>1, <2>2 DEF ServiceTypeOK, Kinds
    <3>3. loops' \subseteq 1..starts' /\ starts' \in loops'
      BY <1>1, <2>1 DEF ServiceTypeOK
    <3>4. /\ subscribed' \subseteq Kinds /\ starts' \in 0..MaxStarts
          /\ (subscribed' # {} => connected')
      BY <1>1, <2>1 DEF ServiceTypeOK
    <3>5. QED BY <1>1, <2>1, <3>1, <3>2, <3>3, <3>4 DEF ServiceTypeOK
  <2>4. monitor'[starts'] = "waiting" /\ \A k \in Nth : k # starts' => monitor'[k] = monitor[k]
    BY <2>1, <2>2 DEF ServiceTypeOK
  <2>5. GoroutinesOfStarts' /\ NoLateFailure'
    BY <1>1, <2>1, <2>4 DEF GoroutinesOfStarts, NoLateFailure, RunsSinceFirst, Nth
  <2>6. QED BY <1>1, <2>1, <2>3, <2>5 DEF ConnectedIsReported, StartsStopped
<1>4. QED BY <1>1, <1>2, <1>3 DEF Answers

\* A connection that is lost, or that Stop gives up, is not reported as anything.
LEMMA ServiceDisconnects ==
    ASSUME ServiceIInv, StopService \/ ConnectionLost PROVE ServiceIInv'
<1> USE DEF ServiceIInv, ServiceInv
<1>1. /\ UNCHANGED <<reported, starts, starting, subscriber, monitor, loops>>
      /\ connected' = FALSE /\ subscribed' = {}
  BY DEF StopService, ConnectionLost, goroutines
<1>2. {isRunning', stopClosed', panicked', connected'} \subseteq BOOLEAN
  BY DEF StopService, ConnectionLost, ServiceTypeOK
<1>3. /\ (starts' > 0 /\ ~stopClosed') => isRunning' /\ starts' \in loops'
      /\ starting' # "idle" => isRunning'
  BY <1>1 DEF StopService, ConnectionLost, ServiceTypeOK
<1>4. ServiceTypeOK' BY <1>1, <1>2, <1>3 DEF ServiceTypeOK
<1>5. StartsStopped' BY <1>1 DEF StopService, ConnectionLost, StartsStopped
<1>6. QED
  BY <1>1, <1>4, <1>5
  DEF ConnectedIsReported, GoroutinesOfStarts, NoLateFailure, RunsSinceFirst

\* The goroutine that subscribes, and those that end, leave the connection alone.
LEMMA ServiceGoroutines ==
    ASSUME ServiceIInv, NEW k \in Nth,
           SubscribeToEvents(k) \/ MonitorExits(k) \/ LoopsExit(k)
    PROVE  ServiceIInv'
<1> USE DEF ServiceIInv, ServiceInv
<1>1. UNCHANGED <<isRunning, stopClosed, panicked, connected, reported, starts, starting>>
  BY DEF SubscribeToEvents, MonitorExits, LoopsExit
<1>2. subscribed' \subseteq Kinds /\ (subscribed' # {} => connected)
  BY DEF SubscribeToEvents, MonitorExits, LoopsExit, ServiceTypeOK
<1>3. subscriber' \in [Nth -> Kinds \union {"off"}]
  BY DEF SubscribeToEvents, MonitorExits, LoopsExit, ServiceTypeOK, Kinds
<1>4. \/ monitor' = monitor
      \/ stopClosed /\ monitor[k] = "waiting" /\ monitor' = [monitor EXCEPT ![k] = "off"]
  BY DEF SubscribeToEvents, MonitorExits, LoopsExit
<1>5. monitor' \in [Nth -> {"off", "waiting", "lost", "reconnecting"} \union Answers]
  BY <1>4 DEF ServiceTypeOK
<1>6. loops' \subseteq loops /\ (loops' # loops => stopClosed)
  BY DEF SubscribeToEvents, MonitorExits, LoopsExit
<1>7. ServiceTypeOK' BY <1>1, <1>2, <1>3, <1>5, <1>6 DEF ServiceTypeOK
<1>8. \A j \in Nth : monitor'[j] = monitor[j] \/ (monitor[j] = "waiting" /\ monitor'[j] = "off")
  BY <1>4 DEF ServiceTypeOK
<1>9. starts = 1 => 1 \in Nth BY DEF ServiceTypeOK, Nth
<1>10. QED
  BY <1>1, <1>7, <1>8, <1>9
  DEF ConnectedIsReported, GoroutinesOfStarts, NoLateFailure, RunsSinceFirst, StartsStopped

\* A health check goes to renew the connection only when there is none, and what it
\* reports is then what came of it: after the first start there is no other.
LEMMA ServiceHealth ==
    ASSUME ServiceIInv, NEW k \in Nth,
           \/ PerformHealthCheck(k) \/ ReportLoss(k)
           \/ Reconnect(k) \/ ReportReconnection(k)
    PROVE  ServiceIInv'
<1> USE DEF ServiceIInv, ServiceInv
<1> DEFINE Steps == {"waiting", "lost", "reconnecting"} \union Answers
<1>1. UNCHANGED <<isRunning, stopClosed, panicked, subscribed, starts, starting,
                  subscriber, loops>>
  BY DEF PerformHealthCheck, ReportLoss, Reconnect, ReportReconnection, CheckOnly
<1>2. monitor[k] # "off" /\ k \in Nat /\ 1 <= k /\ starts \in Nat
  BY DEF PerformHealthCheck, ReportLoss, Reconnect, ReportReconnection, Nth,
         ServiceTypeOK, Answers
<1>3. k <= starts BY <1>2 DEF GoroutinesOfStarts
<1>4. starts = 1 => k = 1 BY <1>2, <1>3
<1>5. \E step \in Steps : monitor' = [monitor EXCEPT ![k] = step]
  BY DEF PerformHealthCheck, ReportLoss, Reconnect, ReportReconnection
<1>6. monitor' \in [Nth -> {"off", "waiting", "lost", "reconnecting"} \union Answers]
  BY <1>5 DEF ServiceTypeOK
<1>7. reported' \in {reported, "healthy", "unhealthy"}
  BY DEF PerformHealthCheck, ReportLoss, Reconnect, ReportReconnection, Connects,
         Reports, CheckOnly
<1>8. ServiceTypeOK'
  <2>1. connected' = connected \/ connected' = TRUE
    BY DEF PerformHealthCheck, ReportLoss, Reconnect, ReportReconnection, Connects, CheckOnly
  <2>2. /\ {isRunning', stopClosed', panicked', connected'} \subseteq BOOLEAN
        /\ (subscribed' # {} => connected')
    BY <1>1, <2>1 DEF ServiceTypeOK
  <2>3. QED BY <1>1, <1>6, <1>7, <2>2 DEF ServiceTypeOK
<1>9. \A j \in Nth : j # k => monitor'[j] = monitor[j] BY <1>5 DEF ServiceTypeOK
<1>10. GoroutinesOfStarts' /\ StartsStopped'
  BY <1>1, <1>2, <1>3, <1>9 DEF GoroutinesOfStarts, StartsStopped
<1>11. ASSUME RunsSinceFirst'
       PROVE  /\ reported' = "healthy" \/ monitor'[1] = "connected"
              /\ monitor'[1] \notin {"lost", "reconnecting", "refused"}
  <2>1. k = 1 /\ isRunning /\ starting = "idle" /\ starts = 1 /\ connected'
    BY <1>1, <1>4, <1>11 DEF RunsSinceFirst
  <2>2. monitor'[k] \in Steps /\ monitor' = [monitor EXCEPT ![k] = monitor'[k]]
    BY <1>5 DEF ServiceTypeOK
  <2>3. ~PerformHealthCheck(k) BY <2>1 DEF PerformHealthCheck
  <2>4. ~ReportLoss(k)
    BY <2>1 DEF ReportLoss, NoLateFailure, RunsSinceFirst
  <2>5. CASE Reconnect(k)
    <3>1. PICK answer \in Answers :
             Connects(answer) /\ monitor' = [monitor EXCEPT ![k] = answer]
      BY <2>5 DEF Reconnect
    <3>2. monitor[k] = "reconnecting" BY <2>5 DEF Reconnect
    <3>3. ~connected BY <2>1, <3>2 DEF NoLateFailure, RunsSinceFirst
    <3>4. answer = "connected" BY <2>1, <3>1, <3>3 DEF Connects
    <3>5. QED BY <2>1, <3>1, <3>4 DEF ServiceTypeOK
  <2>6. CASE ReportReconnection(k)
    <3>1. /\ monitor[k] \in Answers /\ Reports(monitor[k]) /\ connected' = connected
          /\ monitor' = [monitor EXCEPT ![k] = "waiting"]
      BY <2>6 DEF ReportReconnection
    <3>2. monitor[k] # "refused" BY <2>1, <3>1 DEF NoLateFailure, RunsSinceFirst
    <3>3. QED BY <2>1, <3>1, <3>2 DEF Reports, ServiceTypeOK
  <2>7. QED BY <2>3, <2>4, <2>5, <2>6
<1>12. QED
  BY <1>8, <1>10, <1>11 DEF ConnectedIsReported, NoLateFailure, RunsSinceFirst

\* However often the processor is started: it runs with the goroutines of its last
\* start, and until a second start one that is connected is reported healthy, or is
\* about to be.
THEOREM Healthy == ServiceSpec => []ServiceInv
<1>1. ServiceInit => ServiceIInv BY ServiceBegins
<1>2. ASSUME ServiceIInv, [ServiceNext]_(serviceVars) PROVE ServiceIInv'
  <2>1. CASE UNCHANGED serviceVars
    BY <1>2, <2>1 DEF serviceVars, goroutines, ServiceIInv, ServiceInv, ServiceTypeOK,
       ConnectedIsReported, GoroutinesOfStarts, NoLateFailure, RunsSinceFirst,
       StartsStopped
  <2>2. QED
    BY <1>2, <2>1, ServiceStarts, ServiceStarted, ServiceDisconnects, ServiceGoroutines,
       ServiceHealth
    DEF ServiceNext
<1>3. ServiceIInv => ServiceInv BY DEF ServiceIInv
<1>4. QED BY <1>1, <1>2, <1>3, PTL DEF ServiceSpec

\* A processor that is started once is stopped once: its channel is closed with the
\* process going on.  It takes a second start for Stop to close the channel again.
THEOREM OneStartIsGraceful == ASSUME MaxStarts = 1 PROVE ServiceSpec => []StopIsGraceful
<1> DEFINE ClosedOnce == /\ StopIsGraceful
                         /\ isRunning => starts > 0 \/ starting # "idle"
                         /\ stopClosed => starts > 0 /\ ~isRunning
                         /\ starting # "idle" => starts = 0
<1> USE DEF StopIsGraceful
<1>1. ServiceInit => ClosedOnce BY DEF ServiceInit
<1>2. ASSUME ServiceTypeOK, ClosedOnce, [ServiceNext]_serviceVars PROVE ClosedOnce'
  <2>1. starts \in 0..1 BY <1>2 DEF ServiceTypeOK
  <2>2. CASE Start
    <3>1. /\ starts = 0 /\ ~stopClosed /\ starting' # "idle"
          /\ UNCHANGED <<stopClosed, panicked, starts>>
      BY <1>2, <2>1, <2>2 DEF Start
    <3>2. QED BY <1>2, <3>1
  <2>3. CASE StartConnects
    <3>1. starting # "idle" /\ starting' # "idle"
          /\ UNCHANGED <<isRunning, stopClosed, panicked, starts>>
      BY <2>3 DEF StartConnects, Answers
    <3>2. QED BY <1>2, <3>1
  <2>4. CASE StartReturns
    <3>1. starting # "idle" /\ starting' = "idle" /\ UNCHANGED <<stopClosed, panicked>>
      BY <2>4 DEF StartReturns, Answers
    <3>2. ~isRunning' \/ starts' = starts + 1 BY <2>4 DEF StartReturns
    <3>3. QED BY <1>2, <2>1, <3>1, <3>2
  <2>5. CASE StopService BY <1>2, <2>5 DEF StopService
  <2>6. CASE ~Start /\ ~StartConnects /\ ~StartReturns /\ ~StopService
    <3>1. UNCHANGED <<isRunning, stopClosed, panicked, starts, starting>>
      BY <1>2, <2>6
      DEF ServiceNext, serviceVars, ConnectionLost, SubscribeToEvents, PerformHealthCheck,
          ReportLoss, Reconnect, ReportReconnection, CheckOnly, MonitorExits, LoopsExit
    <3>2. QED BY <1>2, <3>1
  <2>7. QED BY <2>2, <2>3, <2>4, <2>5, <2>6
<1>3. ServiceInv => ServiceTypeOK BY DEF ServiceInv
<1>4. QED BY <1>1, <1>2, <1>3, Healthy, PTL DEF ServiceSpec
=============================================================================
