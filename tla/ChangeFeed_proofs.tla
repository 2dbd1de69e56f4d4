-------------------------- MODULE ChangeFeed_proofs --------------------------
(***************************************************************************)
(* Theorems about ChangeFeed, for every set of IDs and subscriptions, and  *)
(* every capacity of the channels.                                         *)
(*                                                                         *)
(* That a copy is right when nothing is on its way follows from what is on *)
(* its way when something is: the last event of an ID, in the last of the  *)
(* channels that has one, is the store's offer.  Ordered says why an event *)
(* that equals the store's offer is the last: the events of an ID come in  *)
(* the order of the writes, of which one call may announce two.            *)
(***************************************************************************)
EXTENDS ChangeFeed, SequenceTheorems, TLAPS

\* The events of a queue; has it one of an ID, and which offer does the last tell?
In(q) == {q[k] : k \in DOMAIN q}
Has(q, i) == \E k \in DOMAIN q : q[k].id = i
Latest(q, i, o) ==
    \E k \in DOMAIN q : /\ q[k].id = i /\ q[k].offer = o
                        /\ \A m \in DOMAIN q : m > k => q[m].id # i
Rising(q) == \A k, m \in DOMAIN q : k < m /\ q[k].id = q[m].id => q[k].offer < q[m].offer

\* What is announced and on its way is in the order of the writes, none of it is
\* newer than the table, and the last a call announces of an ID is what it stored.
Ordered ==
    /\ Rising(announcing) /\ Rising(eventChan)
    /\ \A e \in In(announcing), f \in In(eventChan) : e.id = f.id => f.offer < e.offer
    /\ \A e \in In(announcing) : e.offer <= last /\ e.offer <= table[e.id]
    /\ \A i \in Ids : Has(announcing, i) => /\ Latest(announcing, i, table[i])
                                            /\ table[i] # None
    /\ \A f \in In(eventChan) : /\ f.offer <= last
                                /\ table[f.id] # None => f.offer <= table[f.id]
    /\ \A i \in Ids : table[i] # None => table[i] <= last

\* The last that is on its way to a client, or its copy if nothing is, is the store's.
Followed ==
    /\ \A s \in Subs \ open : copy[s] = None
    /\ process # "ended" =>
          \A s \in Subs, i \in Ids :
             \/ i \in silent \union unsent[s] \/ Has(announcing, i)
             \/ /\ Has(eventChan, i) /\ Latest(eventChan, i, table[i])
             \/ /\ ~Has(eventChan, i) /\ Has(chan[s], i) /\ Latest(chan[s], i, table[i])
             \/ /\ ~Has(eventChan, i) /\ ~Has(chan[s], i)
                /\ copy[s] # None => copy[s][i] = table[i]

\* The inductive invariant.
IInv == TypeOK /\ Ordered /\ Followed

-----------------------------------------------------------------------------
\* A queue with an event more, as the properties see it.
IsAppended(M, q, e, r) ==
    /\ r \in Seq(M) /\ Len(q) \in Nat /\ Len(r) = Len(q) + 1
    /\ In(r) = In(q) \union {e}
    /\ \A i : Has(r, i) <=> Has(q, i) \/ e.id = i
    /\ Latest(r, e.id, e.offer)
    /\ \A i, o : i # e.id /\ Latest(q, i, o) => Latest(r, i, o)
    /\ Rising(q) /\ (\A f \in In(q) : f.id = e.id => f.offer < e.offer) => Rising(r)

\* NotifyChange and the sender put an event last.
LEMMA Appended ==
    ASSUME NEW M, NEW q \in Seq(M), NEW e \in M
    PROVE  IsAppended(M, q, e, Append(q, e))
<1> DEFINE r == Append(q, e)
           n == Len(q) + 1
<1>1. /\ r \in Seq(M) /\ Len(r) = Len(q) + 1 /\ Len(q) \in Nat
      /\ \A k \in 1..Len(q) : r[k] = q[k]
      /\ r[Len(q) + 1] = e
  BY AppendProperties, LenProperties
<1>2. DOMAIN q = 1..Len(q) /\ DOMAIN r = 1..(Len(q) + 1) BY <1>1, LenProperties
<1>3. DOMAIN r = DOMAIN q \union {n} /\ r[n] = e /\ n \in DOMAIN r
      /\ \A k \in DOMAIN q : r[k] = q[k] /\ k < n /\ ~(k > n) /\ ~(n < k)
  BY <1>1, <1>2
<1> HIDE DEF r
<1>4. In(r) = In(q) \union {e} BY <1>3 DEF In
<1>5. \A i : Has(r, i) <=> Has(q, i) \/ e.id = i BY <1>3 DEF Has
<1>6. Latest(r, e.id, e.offer) BY <1>1, <1>2, <1>3 DEF Latest
<1>7. ASSUME NEW i, NEW o, i # e.id, Latest(q, i, o) PROVE Latest(r, i, o)
  <2>1. PICK k \in DOMAIN q : /\ q[k].id = i /\ q[k].offer = o
                              /\ \A m \in DOMAIN q : m > k => q[m].id # i
    BY <1>7 DEF Latest
  <2>2. k \in DOMAIN r /\ r[k].id = i /\ r[k].offer = o BY <1>3, <2>1
  <2>3. \A m \in DOMAIN r : m > k => r[m].id # i BY <1>3, <1>7, <2>1
  <2>4. QED BY <2>2, <2>3 DEF Latest
<1>8. ASSUME Rising(q), \A f \in In(q) : f.id = e.id => f.offer < e.offer PROVE Rising(r)
  <2> SUFFICES ASSUME NEW k \in DOMAIN r, NEW m \in DOMAIN r, k < m, r[k].id = r[m].id
               PROVE  r[k].offer < r[m].offer
    BY DEF Rising
  <2>1. k \in DOMAIN q BY <1>1, <1>2, <1>3
  <2>2. CASE m = n
    <3>1. q[k] \in In(q) /\ r[k] = q[k] BY <1>3, <2>1 DEF In
    <3>2. QED BY <1>3, <1>8, <2>2, <3>1
  <2>3. CASE m # n BY <1>3, <1>8, <2>1, <2>3 DEF Rising
  <2>4. QED BY <2>2, <2>3
<1>9. QED BY <1>1, <1>4, <1>5, <1>6, <1>7, <1>8 DEF r, IsAppended

\* A queue without its first event.
IsShortened(M, q, e, r) ==
    /\ r \in Seq(M) /\ e \in M /\ Len(q) \in Nat /\ Len(r) = Len(q) - 1
    /\ In(q) = In(r) \union {e}
    /\ \A i : Has(q, i) <=> Has(r, i) \/ e.id = i
    /\ \A i, o : Latest(q, i, o) => IF Has(r, i) THEN Latest(r, i, o) ELSE e.offer = o
    /\ Rising(q) => Rising(r) /\ \A f \in In(r) : f.id = e.id => e.offer < f.offer

\* NotifyChange, the sender and the stream take the first event.
LEMMA Shortened ==
    ASSUME NEW M, NEW q \in Seq(M), q # <<>>
    PROVE  IsShortened(M, q, Head(q), Tail(q))
<1> DEFINE r == Tail(q)
           e == Head(q)
<1>1. /\ r \in Seq(M) /\ Len(r) = Len(q) - 1 /\ e \in M
      /\ \A k \in 1..Len(r) : r[k] = q[k + 1]
      /\ Len(q) \in Nat \ {0}
  BY HeadTailProperties, EmptySeq
<1>2. DOMAIN q = 1..Len(q) /\ DOMAIN r = 1..Len(r) BY <1>1, LenProperties
<1>3. e = q[1] OBVIOUS
<1>4. \A k \in DOMAIN r : k + 1 \in DOMAIN q /\ r[k] = q[k + 1] /\ 1 < k + 1 BY <1>1, <1>2
<1>5. 1 \in DOMAIN q /\ \A k \in DOMAIN q : k = 1 \/ (k - 1 \in DOMAIN r /\ r[k - 1] = q[k])
  BY <1>1, <1>2
<1>6. \A k, m \in DOMAIN r : k \in Nat /\ m \in Nat BY <1>1, <1>2
<1>7. \A k \in DOMAIN q : k \in Nat BY <1>2
<1> HIDE DEF r, e
<1>8. In(q) = In(r) \union {e}
  <2>1. ASSUME NEW k \in DOMAIN q PROVE q[k] \in In(r) \union {e} BY <1>3, <1>5 DEF In
  <2>2. ASSUME NEW k \in DOMAIN r PROVE r[k] \in In(q) BY <1>4 DEF In
  <2>3. QED BY <1>3, <1>5, <2>1, <2>2 DEF In
<1>9. \A i : Has(q, i) <=> Has(r, i) \/ e.id = i
  <2>1. ASSUME NEW i, Has(q, i) PROVE Has(r, i) \/ e.id = i BY <1>3, <1>5, <2>1 DEF Has
  <2>2. ASSUME NEW i, Has(r, i) \/ e.id = i PROVE Has(q, i) BY <1>3, <1>4, <1>5, <2>2 DEF Has
  <2>3. QED BY <2>1, <2>2
<1>10. ASSUME NEW i, NEW o, Latest(q, i, o)
       PROVE  IF Has(r, i) THEN Latest(r, i, o) ELSE e.offer = o
  <2>1. PICK k \in DOMAIN q : /\ q[k].id = i /\ q[k].offer = o
                              /\ \A m \in DOMAIN q : m > k => q[m].id # i
    BY <1>10 DEF Latest
  <2>2. CASE k = 1
    <3>1. \A m \in DOMAIN r : r[m].id # i BY <1>4, <2>1, <2>2
    <3>2. QED BY <1>3, <2>1, <2>2, <3>1 DEF Has
  <2>3. CASE k # 1
    <3>1. k - 1 \in DOMAIN r /\ r[k - 1] = q[k] BY <1>5, <2>3
    <3>2. \A m \in DOMAIN r : m > k - 1 => m + 1 > k BY <1>6, <1>7
    <3>3. \A m \in DOMAIN r : m > k - 1 => r[m].id # i BY <1>4, <2>1, <3>2
    <3>4. QED BY <2>1, <3>1, <3>3 DEF Latest, Has
  <2>4. QED BY <2>2, <2>3
<1>11. ASSUME Rising(q) PROVE Rising(r) /\ \A f \in In(r) : f.id = e.id => e.offer < f.offer
  <2>1. \A k, m \in DOMAIN r : k < m => k + 1 < m + 1 BY <1>6
  <2>2. Rising(r) BY <1>4, <1>11, <2>1 DEF Rising
  <2>3. ASSUME NEW k \in DOMAIN r, r[k].id = e.id PROVE e.offer < r[k].offer
    BY <1>3, <1>4, <1>5, <1>11, <2>3 DEF Rising
  <2>4. QED BY <2>2, <2>3 DEF In
<1>12. QED BY <1>1, <1>8, <1>9, <1>10, <1>11 DEF r, e, IsShortened

\* The events of a queue are events.
LEMMA InEvents ==
    ASSUME NEW q \in Seq(Events)
    PROVE  \A e \in In(q) : e.type \in ChangeTypes /\ e.id \in Ids /\ e.offer \in Offers
<1>1. \A k \in DOMAIN q : q[k] \in Events BY LenProperties, ElementOfSeq
<1>2. QED BY <1>1 DEF In, Events

\* What a channel holds is a change or a heartbeat, which is about no ID.
LEMMA MessageKinds ==
    \A m \in Messages : \/ /\ m \in Events /\ m # Beat
                           /\ m.id \in Ids /\ m.offer \in Offers
                        \/ /\ m = Beat /\ m.id \notin Ids
<1>1. \A m \in Events : m.type # "heartbeat" BY DEF Events, ChangeTypes
<1>2. Beat.type = "heartbeat" /\ Beat.id = None BY DEF Beat
<1>3. \A m \in Events : m.id \in Ids /\ m.offer \in Offers BY DEF Events
<1>4. None \notin Ids BY ChangeFeedAssumption
<1>5. \A m \in Events : m # Beat BY <1>1, <1>2
<1> HIDE DEF Beat
<1>6. QED BY <1>2, <1>3, <1>4, <1>5 DEF Messages

\* At the start there is no offer and no event.
LEMMA InitIInv == Init => IInv
<1> SUFFICES ASSUME Init PROVE IInv OBVIOUS
<1> USE DEF Init
<1>1. /\ <<>> \in Seq(Events) /\ <<>> \in Seq(Messages) /\ Len(<<>>) = 0 /\ DOMAIN <<>> = {}
  BY EmptySeq
<1>2. EventCap \in Nat /\ ChanCap \in Nat /\ MaxOffers \in Nat /\ IdleRounds \in Nat
  BY ChangeFeedAssumption
<1>3. TypeOK BY <1>1, <1>2 DEF TypeOK, Tables
<1>4. Ordered BY <1>1 DEF Ordered, Rising, In, Has
<1>5. Followed BY <1>1 DEF Followed, Has
<1>6. QED BY <1>3, <1>4, <1>5 DEF IInv

-----------------------------------------------------------------------------
\* A call that writes: each offer it changed is announced or remembered as silent,
\* and the last it announces of an ID is what it stored.
LEMMA WriteKeeps ==
    ASSUME IInv, NEW new \in Tables, NEW n \in Nat, NEW events \in Seq(Events),
           NEW unannounced \in SUBSET Ids,
           Write(new, n, events, unannounced),
           Rising(events),
           \A e \in In(events) : /\ last < e.offer /\ e.offer <= last + n
                                 /\ new[e.id] # None /\ e.offer <= new[e.id],
           \A i \in Ids : Has(events, i) => Latest(events, i, new[i]),
           \A i \in Ids : \/ new[i] = table[i]
                          \/ /\ new[i] = None \/ (last < new[i] /\ new[i] <= last + n)
                             /\ i \in unannounced \/ Has(events, i)
    PROVE  IInv'
<1>1. /\ process # "ended" /\ announcing = <<>> /\ last + n <= MaxOffers
      /\ table' = new /\ last' = last + n /\ announcing' = events
      /\ silent' = (silent \union unannounced) \ {events[k].id : k \in DOMAIN events}
      /\ UNCHANGED <<eventChan, unsent, registered, missed, open, gone, chan, copy, process>>
  BY DEF Write, Served, New, feedVars, subVars, streamVars
<1>2. TypeOK /\ Ordered /\ Followed BY DEF IInv
<1>3. last \in Nat /\ last <= last + n /\ last + n \in 0..MaxOffers
  BY <1>1, <1>2, ChangeFeedAssumption DEF TypeOK
<1>4. \A i \in Ids : i \in silent /\ ~Has(events, i) => i \in silent'
  BY <1>1 DEF Has
<1>5. \A i \in Ids : i \in unannounced /\ ~Has(events, i) => i \in silent'
  BY <1>1 DEF Has
<1>6. TypeOK'
  <2>1. silent' \subseteq Ids BY <1>1, <1>2 DEF TypeOK
  <2>2. QED BY <1>1, <1>2, <1>3, <2>1 DEF TypeOK
<1>7. eventChan \in Seq(Events) BY <1>2 DEF TypeOK
<1>8. \A f \in In(eventChan) : f.id \in Ids /\ f.offer \in Nat /\ f.offer <= last
  <2>1. \A f \in In(eventChan) : f.id \in Ids /\ f.offer \in Offers BY <1>7, InEvents
  <2>2. QED BY <1>2, <2>1, ChangeFeedAssumption DEF Ordered, Offers
<1>9. \A e \in In(events) : e.id \in Ids /\ e.offer \in Nat
  BY InEvents, ChangeFeedAssumption DEF Offers
<1>10. \A i \in Ids : new[i] # None => new[i] \in Nat
  BY ChangeFeedAssumption DEF Tables, Offers
<1>11. \A i \in Ids : table[i] # None => table[i] \in Nat
  BY <1>2, ChangeFeedAssumption DEF TypeOK, Tables, Offers
<1>12. Ordered'
  <2>1. \A e \in In(events), f \in In(eventChan) : f.offer < e.offer BY <1>3, <1>8, <1>9
  <2>2. ASSUME NEW f \in In(eventChan)
        PROVE  f.offer <= last' /\ (new[f.id] # None => f.offer <= new[f.id])
    <3>1. f.offer <= last + n BY <1>3, <1>8
    <3>2. \/ new[f.id] = table[f.id] \/ new[f.id] = None \/ last < new[f.id] BY <1>8
    <3>3. table[f.id] # None => f.offer <= table[f.id] BY <1>2 DEF Ordered
    <3>4. new[f.id] # None => new[f.id] \in Nat BY <1>8, <1>10
    <3>5. QED BY <1>1, <1>3, <1>8, <3>1, <3>2, <3>3, <3>4
  <2>3. ASSUME NEW i \in Ids, new[i] # None PROVE new[i] <= last'
    <3>1. CASE new[i] = table[i]
      <4>1. table[i] <= last BY <1>2, <2>3, <3>1 DEF Ordered
      <4>2. QED BY <1>1, <1>3, <1>11, <2>3, <3>1, <4>1
    <3>2. CASE new[i] <= last + n BY <1>1, <3>2
    <3>3. QED BY <2>3, <3>1, <3>2
  <2>4. Rising(eventChan) BY <1>2 DEF Ordered
  <2>5. \A i \in Ids : Has(events, i) => new[i] # None BY DEF Has, In
  <2>6. QED BY <1>1, <2>1, <2>2, <2>3, <2>4, <2>5 DEF Ordered
<1>13. Followed'
  <2>1. \A i : ~Has(announcing, i) BY <1>1, EmptySeq DEF Has
  <2>2. ASSUME NEW s \in Subs, NEW i \in Ids
        PROVE \/ i \in silent' \union unsent[s] \/ Has(events, i)
              \/ /\ Has(eventChan, i) /\ Latest(eventChan, i, new[i])
              \/ /\ ~Has(eventChan, i) /\ Has(chan[s], i) /\ Latest(chan[s], i, new[i])
              \/ /\ ~Has(eventChan, i) /\ ~Has(chan[s], i)
                 /\ copy[s] # None => copy[s][i] = new[i]
    <3>1. CASE new[i] = table[i] BY <1>1, <1>2, <1>4, <2>1, <3>1 DEF Followed
    <3>2. CASE i \in unannounced \/ Has(events, i) BY <1>5, <3>2
    <3>3. QED BY <3>1, <3>2
  <2>3. QED BY <1>1, <1>2, <2>2 DEF Followed
<1>14. QED BY <1>6, <1>12, <1>13 DEF IInv

\* A batch is a sequence of IDs, and an ID that it has is in it for the last time
\* somewhere.
LEMMA BatchTyped ==
    ASSUME NEW batch \in Batches
    PROVE  /\ batch \in Seq(Ids)
           /\ \A i : (\E k \in DOMAIN batch : batch[k] = i) =>
                 /\ LastOf(batch, i) \in DOMAIN batch /\ batch[LastOf(batch, i)] = i
                 /\ \A m \in DOMAIN batch : m > LastOf(batch, i) => batch[m] # i
<1> DEFINE Ends(i, k) == batch[k] = i /\ \A m \in DOMAIN batch : m > k => batch[m] # i
<1>1. CASE batch = <<>>
  <2>1. DOMAIN batch = {} /\ batch \in Seq(Ids) BY <1>1, EmptySeq
  <2>2. QED BY <2>1
<1>2. ASSUME batch \in Seq(Ids),
             \A i : (\E k \in DOMAIN batch : batch[k] = i) => \E k \in DOMAIN batch : Ends(i, k)
      PROVE  \A i : (\E k \in DOMAIN batch : batch[k] = i) =>
                /\ LastOf(batch, i) \in DOMAIN batch /\ Ends(i, LastOf(batch, i))
  <2> SUFFICES ASSUME NEW i, \E k \in DOMAIN batch : batch[k] = i
               PROVE  LastOf(batch, i) \in DOMAIN batch /\ Ends(i, LastOf(batch, i))
    OBVIOUS
  <2>1. \E k \in DOMAIN batch : Ends(i, k) BY <1>2
  <2>2. LastOf(batch, i) = CHOOSE k \in DOMAIN batch : Ends(i, k) BY DEF LastOf
  <2> HIDE DEF Ends
  <2>3. QED BY <2>1, <2>2
<1>3. CASE \E i \in Ids : batch = <<i>>
  <2>1. PICK j \in Ids : batch = <<j>> BY <1>3
  <2>2. batch \in Seq(Ids) /\ DOMAIN batch = {1} BY <2>1
  <2>3. \A i, k \in DOMAIN batch : ~(i > k) BY <2>2
  <2>4. \A i : (\E k \in DOMAIN batch : batch[k] = i) => \E k \in DOMAIN batch : Ends(i, k)
    BY <2>3
  <2>5. QED BY <1>2, <2>2, <2>4
<1>4. CASE batch \in Ids \X Ids
  <2>1. PICK a \in Ids, b \in Ids : batch = <<a, b>> BY <1>4
  <2>2. batch \in Seq(Ids) /\ DOMAIN batch = 1..2 /\ batch[1] = a /\ batch[2] = b BY <2>1
  <2>3. 1 \in DOMAIN batch /\ 2 \in DOMAIN batch /\ \A k \in DOMAIN batch : k = 1 \/ k = 2
    BY <2>2
  <2>4. Ends(b, 2) BY <2>2, <2>3
  <2>5. a # b => Ends(a, 1) BY <2>2, <2>3
  <2>6. \A i : (\E k \in DOMAIN batch : batch[k] = i) => i \in {a, b} BY <2>2, <2>3
  <2> HIDE DEF Ends
  <2>7. \A i : (\E k \in DOMAIN batch : batch[k] = i) => \E k \in DOMAIN batch : Ends(i, k)
    BY <2>3, <2>4, <2>5, <2>6
  <2>8. QED BY <1>2, <2>2, <2>7 DEF Ends
<1>5. QED BY <1>1, <1>3, <1>4 DEF Batches

\* One event is a sequence of them.
LEMMA OneEvent ==
    ASSUME NEW e \in Events
    PROVE  /\ <<e>> \in Seq(Events) /\ Rising(<<e>>) /\ In(<<e>>) = {e}
           /\ \A i : Has(<<e>>, i) <=> e.id = i
           /\ Latest(<<e>>, e.id, e.offer)
<1>1. DOMAIN <<e>> = {1} /\ <<e>>[1] = e /\ \A k, m \in {1} : ~(k < m) /\ ~(k > m) OBVIOUS
<1>2. QED BY <1>1 DEF Rising, In, Has, Latest

\* Create and Update announce what they store.
LEMMA StoreKeeps ==
    ASSUME IInv, NEW i \in Ids, Create(i) \/ Update(i)
    PROVE  IInv'
<1> DEFINE new == [table EXCEPT ![i] = New(1)]
           o == New(1)
<1>1. PICK type \in ChangeTypes : Write(new, 1, <<Event(type, i, New(1))>>, {})
  BY DEF Create, Update, ChangeTypes
<1>2. o \in Offers /\ o # None /\ o = last + 1 /\ last \in Nat /\ o \in Nat
      /\ table \in Tables
  BY <1>1, ChangeFeedAssumption DEF IInv, TypeOK, Write, New, Offers
<1> DEFINE e == Event(type, i, o)
           events == <<e>>
<1>3. Write(new, 1, events, {}) BY <1>1
<1> HIDE DEF o
<1>4. new = [table EXCEPT ![i] = o] BY DEF o
<1>5. new \in Tables /\ new[i] = o /\ \A j \in Ids \ {i} : new[j] = table[j]
  BY <1>2, <1>4 DEF Tables
<1>6. e \in Events /\ e.id = i /\ e.offer = o BY <1>2 DEF Event, Events
<1> HIDE DEF e, new
<1>7. events \in Seq(Events) /\ Rising(events) /\ In(events) = {e}
      /\ (\A j : Has(events, j) <=> e.id = j) /\ Latest(events, e.id, e.offer)
  BY <1>6, OneEvent
<1> HIDE DEF events
<1>8. \A f \in In(events) : /\ last < f.offer /\ f.offer <= last + 1
                            /\ new[f.id] # None /\ f.offer <= new[f.id]
  BY <1>2, <1>5, <1>6, <1>7
<1>9. \A j \in Ids : \/ new[j] = table[j]
                     \/ /\ new[j] = None \/ (last < new[j] /\ new[j] <= last + 1)
                        /\ j \in {} \/ Has(events, j)
  <2>1. Has(events, i) BY <1>6, <1>7
  <2>2. last < new[i] /\ new[i] <= last + 1 BY <1>2, <1>5
  <2>3. QED BY <1>5, <2>1, <2>2
<1>10. \A j \in Ids : Has(events, j) => Latest(events, j, new[j]) BY <1>5, <1>6, <1>7
<1>11. 1 \in Nat /\ {} \in SUBSET Ids OBVIOUS
<1>12. QED BY <1>3, <1>5, <1>7, <1>8, <1>9, <1>10, <1>11, WriteKeeps

\* Delete and the bulk writes other than the overwrite announce nothing.
LEMMA SilentKeeps ==
    ASSUME IInv, NEW ids \in SUBSET Ids, Delete(ids) \/ BulkStore(ids)
    PROVE  IInv'
<1>1. PICK n \in {0, 1}, o \in {None, New(1)} :
          /\ o # None => n = 1 /\ o = New(1)
          /\ Write([i \in Ids |-> IF i \in ids THEN o ELSE table[i]], n, <<>>, ids)
  <2>1. CASE Delete(ids) BY <2>1 DEF Delete
  <2>2. CASE BulkStore(ids) BY <2>2 DEF BulkStore
  <2>3. QED BY <2>1, <2>2
<1> DEFINE new == [i \in Ids |-> IF i \in ids THEN o ELSE table[i]]
<1>2. /\ table \in Tables /\ last \in Nat
      /\ o # None => o \in Offers /\ last < o /\ o <= last + n
  BY <1>1, ChangeFeedAssumption DEF IInv, TypeOK, Write, New, Offers
<1>3. new \in Tables BY <1>2 DEF Tables
<1>4. \A i \in Ids : \/ new[i] = table[i]
                     \/ /\ new[i] = None \/ (last < new[i] /\ new[i] <= last + n)
                        /\ i \in ids
  <2>1. \A i \in Ids : new[i] = table[i] \/ (i \in ids /\ new[i] = o) OBVIOUS
  <2> HIDE DEF new
  <2>2. QED BY <1>2, <2>1
<1> HIDE DEF new
<1>5. <<>> \in Seq(Events) /\ Rising(<<>>) /\ In(<<>>) = {} /\ \A i : ~Has(<<>>, i)
  BY EmptySeq DEF Rising, In, Has
<1>6. Write(new, n, <<>>, ids) /\ n \in Nat BY <1>1 DEF new
<1>7. QED BY <1>3, <1>4, <1>5, <1>6, WriteKeeps

\* BulkOverwriteByFilter announces the offers of the batch, the last of an ID last.
LEMMA BulkOverwriteKeeps ==
    ASSUME IInv, NEW selected \in SUBSET Ids, NEW batch \in Batches,
           BulkOverwrite(selected, batch)
    PROVE  IInv'
<1> DEFINE ids == {batch[k] : k \in DOMAIN batch}
           new == [i \in Ids |-> IF \E k \in DOMAIN batch : batch[k] = i
                                 THEN New(LastOf(batch, i))
                                 ELSE IF i \in selected THEN None ELSE table[i]]
           events == [k \in DOMAIN batch |-> Event("overwritten", batch[k], New(k))]
           n == Len(batch)
<1>1. Write(new, n, events, selected) BY DEF BulkOverwrite
<1>2. /\ batch \in Seq(Ids) /\ DOMAIN batch = 1..n /\ n \in Nat
      /\ \A k \in DOMAIN batch : batch[k] \in Ids
  <2>1. batch \in Seq(Ids) BY BatchTyped
  <2>2. DOMAIN batch = 1..n /\ n \in Nat BY <2>1, LenProperties
  <2>3. \A k \in DOMAIN batch : batch[k] \in Ids BY <2>1, <2>2, ElementOfSeq
  <2>4. QED BY <2>1, <2>2, <2>3
<1>3. table \in Tables /\ last \in Nat /\ last + n <= MaxOffers /\ MaxOffers \in Nat
  BY <1>1, ChangeFeedAssumption DEF IInv, TypeOK, Write, New
<1>4. \A k \in DOMAIN batch : /\ k \in Nat /\ New(k) = last + k /\ New(k) \in Offers
                              /\ New(k) # None /\ last < New(k) /\ New(k) <= last + n
  BY <1>2, <1>3, ChangeFeedAssumption DEF New, Offers
<1>5. \A i \in ids : /\ LastOf(batch, i) \in DOMAIN batch /\ batch[LastOf(batch, i)] = i
                     /\ \A m \in DOMAIN batch : m > LastOf(batch, i) => batch[m] # i
  BY BatchTyped
<1>6. \A i \in Ids : new[i] = IF i \in ids THEN New(LastOf(batch, i))
                              ELSE IF i \in selected THEN None ELSE table[i]
  OBVIOUS
<1>7. new \in Tables
  <2>1. \A i \in Ids : new[i] \in Offers \union {None} BY <1>3, <1>4, <1>5, <1>6 DEF Tables
  <2>2. QED BY <2>1 DEF Tables
<1>8. \A k \in DOMAIN batch : /\ Event("overwritten", batch[k], New(k)) \in Events
                              /\ Event("overwritten", batch[k], New(k)).id = batch[k]
                              /\ Event("overwritten", batch[k], New(k)).offer = New(k)
  BY <1>2, <1>4 DEF Event, Events, ChangeTypes
<1>9. /\ DOMAIN events = DOMAIN batch
      /\ \A k \in DOMAIN batch : /\ events[k] \in Events /\ events[k].id = batch[k]
                                 /\ events[k].offer = New(k)
  BY <1>8
<1>10. events \in Seq(Events)
  <2>1. \A k \in 1..n : Event("overwritten", batch[k], New(k)) \in Events BY <1>2, <1>8
  <2>2. QED BY <1>2, <2>1, IsASeq
<1>11. ids \subseteq Ids /\ \A k \in DOMAIN batch : batch[k] \in ids BY <1>2
<1>12. \A i \in ids : \E k \in DOMAIN batch : batch[k] = i OBVIOUS
<1> HIDE DEF new, events, ids, n
<1>13. Rising(events) BY <1>4, <1>9, <1>3 DEF Rising
<1>14. \A i : Has(events, i) <=> i \in ids BY <1>9, <1>11, <1>12 DEF Has
<1>15. ASSUME NEW k \in DOMAIN batch
       PROVE  /\ last < New(k) /\ New(k) <= last + n
              /\ new[batch[k]] # None /\ New(k) <= new[batch[k]]
  <2> DEFINE l == LastOf(batch, batch[k])
  <2>1. l \in DOMAIN batch /\ ~(k > l) BY <1>5, <1>11
  <2>2. new[batch[k]] = New(l) BY <1>6, <1>11
  <2> HIDE DEF l
  <2>3. k \in Nat /\ l \in Nat /\ k <= l BY <1>4, <2>1
  <2>4. QED BY <1>3, <1>4, <2>1, <2>2, <2>3
<1>16. \A e \in In(events) : /\ last < e.offer /\ e.offer <= last + n
                             /\ new[e.id] # None /\ e.offer <= new[e.id]
  BY <1>9, <1>15 DEF In
<1>17. ASSUME NEW i \in Ids, Has(events, i) PROVE Latest(events, i, new[i])
  <2> DEFINE l == LastOf(batch, i)
  <2>1. i \in ids BY <1>14, <1>17
  <2>2. l \in DOMAIN batch /\ batch[l] = i /\ \A m \in DOMAIN batch : m > l => batch[m] # i
    BY <1>5, <2>1
  <2>3. new[i] = New(l) BY <1>6, <2>1
  <2> HIDE DEF l
  <2>4. QED BY <1>9, <2>2, <2>3 DEF Latest
<1>18. \A i \in Ids : \/ new[i] = table[i]
                      \/ /\ new[i] = None \/ (last < new[i] /\ new[i] <= last + n)
                         /\ i \in selected \/ Has(events, i)
  <2> SUFFICES ASSUME NEW i \in Ids, new[i] # table[i]
               PROVE  /\ new[i] = None \/ (last < new[i] /\ new[i] <= last + n)
                      /\ i \in selected \/ Has(events, i)
    OBVIOUS
  <2>1. CASE i \in ids
    <3> DEFINE l == LastOf(batch, i)
    <3>1. l \in DOMAIN batch /\ new[i] = New(l) BY <1>5, <1>6, <2>1
    <3> HIDE DEF l
    <3>2. QED BY <1>4, <1>14, <2>1, <3>1
  <2>2. CASE i \notin ids BY <1>6, <2>2
  <2>3. QED BY <2>1, <2>2
<1>19. QED BY <1>1, <1>2, <1>7, <1>10, <1>13, <1>16, <1>17, <1>18, WriteKeeps

-----------------------------------------------------------------------------
\* What is announced goes to the sender, or is missed by every subscription.
LEMMA NotifyKeeps ==
    ASSUME IInv, NotifyChange
    PROVE  IInv'
<1> DEFINE e == Head(announcing)
<1>1. /\ announcing # <<>> /\ announcing' = Tail(announcing)
      /\ \/ Len(eventChan) < EventCap /\ eventChan' = Append(eventChan, e) /\ UNCHANGED unsent
         \/ unsent' = [s \in Subs |-> unsent[s] \union {e.id}] /\ UNCHANGED eventChan
      /\ UNCHANGED <<table, last, silent, registered, missed, open, gone, chan, copy, process>>
  BY DEF NotifyChange, subVars, streamVars
<1>2. TypeOK /\ Ordered /\ Followed BY DEF IInv
<1>3. announcing \in Seq(Events) /\ Rising(announcing) /\ eventChan \in Seq(Events)
  BY <1>2 DEF TypeOK, Ordered
<1>4. IsShortened(Events, announcing, e, announcing') BY <1>1, <1>3, Shortened
<1> HIDE DEF e
<1>5. /\ e \in Events /\ announcing' \in Seq(Events) /\ Rising(announcing')
      /\ In(announcing) = In(announcing') \union {e}
      /\ \A i : Has(announcing, i) <=> Has(announcing', i) \/ e.id = i
      /\ \A i, o : Latest(announcing, i, o) =>
                      IF Has(announcing', i) THEN Latest(announcing', i, o) ELSE e.offer = o
      /\ \A f \in In(announcing') : f.id = e.id => e.offer < f.offer
  BY <1>3, <1>4 DEF IsShortened
<1>6. e.id \in Ids /\ e.offer \in Nat BY <1>5, ChangeFeedAssumption DEF Events, Offers
<1>7. /\ e.offer <= last /\ e.offer <= table[e.id] /\ table[e.id] # None
      /\ Has(announcing', e.id) \/ e.offer = table[e.id]
  BY <1>2, <1>5, <1>6 DEF Ordered
<1>8. \A f \in In(eventChan) : f.id = e.id => f.offer < e.offer BY <1>2, <1>5 DEF Ordered
<1>9. announcing = <<>> => announcing' = <<>> BY <1>1
<1>10. process # "ended" BY <1>1, <1>2 DEF TypeOK
<1>11. /\ \A f \in In(announcing') : f.offer <= last /\ f.offer <= table[f.id]
       /\ \A i \in Ids : Has(announcing', i) => /\ Latest(announcing', i, table[i])
                                                /\ table[i] # None
  BY <1>2, <1>5 DEF Ordered
<1>12. CASE Len(eventChan) < EventCap /\ eventChan' = Append(eventChan, e) /\ UNCHANGED unsent
  <2>1. IsAppended(Events, eventChan, e, eventChan') BY <1>3, <1>5, <1>12, Appended
  <2>2. /\ eventChan' \in Seq(Events) /\ Len(eventChan') = Len(eventChan) + 1
        /\ Len(eventChan) \in Nat
        /\ In(eventChan') = In(eventChan) \union {e}
        /\ \A i : Has(eventChan', i) <=> Has(eventChan, i) \/ e.id = i
        /\ Latest(eventChan', e.id, e.offer)
        /\ \A i, o : i # e.id /\ Latest(eventChan, i, o) => Latest(eventChan', i, o)
        /\ Rising(eventChan')
    <3>1. Rising(eventChan) BY <1>2 DEF Ordered
    <3>2. QED BY <1>8, <2>1, <3>1 DEF IsAppended
  <2>3. Len(eventChan') <= EventCap BY <1>12, <2>2, ChangeFeedAssumption
  <2>4. TypeOK' BY <1>1, <1>2, <1>5, <1>10, <1>12, <2>2, <2>3 DEF TypeOK
  <2>5. Ordered'
    <3>1. \A f \in In(announcing'), g \in In(eventChan') : f.id = g.id => g.offer < f.offer
      BY <1>2, <1>5, <2>2 DEF Ordered
    <3>2. \A g \in In(eventChan') :
             g.offer <= last /\ (table[g.id] # None => g.offer <= table[g.id])
      BY <1>2, <1>7, <2>2 DEF Ordered
    <3>3. QED BY <1>1, <1>2, <1>5, <1>11, <2>2, <3>1, <3>2 DEF Ordered
  <2>6. Followed'
    <3>1. ASSUME NEW s \in Subs, NEW i \in Ids
          PROVE \/ i \in silent \union unsent[s] \/ Has(announcing', i)
                \/ /\ Has(eventChan', i) /\ Latest(eventChan', i, table[i])
                \/ /\ ~Has(eventChan', i) /\ Has(chan[s], i) /\ Latest(chan[s], i, table[i])
                \/ /\ ~Has(eventChan', i) /\ ~Has(chan[s], i)
                   /\ copy[s] # None => copy[s][i] = table[i]
      <4>1. CASE i = e.id BY <1>7, <2>2, <4>1
      <4>2. CASE i # e.id BY <1>2, <1>5, <1>10, <2>2, <4>2 DEF Followed
      <4>3. QED BY <4>1, <4>2
    <3>2. QED BY <1>1, <1>2, <1>12, <3>1 DEF Followed
  <2>7. QED BY <2>4, <2>5, <2>6 DEF IInv
<1>13. CASE unsent' = [s \in Subs |-> unsent[s] \union {e.id}] /\ UNCHANGED eventChan
  <2>1. TypeOK' BY <1>1, <1>2, <1>5, <1>6, <1>10, <1>13 DEF TypeOK
  <2>2. Ordered' BY <1>1, <1>2, <1>5, <1>11, <1>13 DEF Ordered
  <2>3. Followed'
    <3>1. ASSUME NEW s \in Subs, NEW i \in Ids
          PROVE \/ i \in silent \union unsent'[s] \/ Has(announcing', i)
                \/ /\ Has(eventChan, i) /\ Latest(eventChan, i, table[i])
                \/ /\ ~Has(eventChan, i) /\ Has(chan[s], i) /\ Latest(chan[s], i, table[i])
                \/ /\ ~Has(eventChan, i) /\ ~Has(chan[s], i)
                   /\ copy[s] # None => copy[s][i] = table[i]
      <4>1. unsent'[s] = unsent[s] \union {e.id} BY <1>13
      <4>2. CASE i = e.id BY <4>1, <4>2
      <4>3. CASE i # e.id BY <1>2, <1>5, <1>10, <4>1, <4>3 DEF Followed
      <4>4. QED BY <4>2, <4>3
    <3>2. QED BY <1>1, <1>2, <1>13, <3>1 DEF Followed
  <2>4. QED BY <2>1, <2>2, <2>3 DEF IInv
<1>14. QED BY <1>1, <1>12, <1>13

\* The sender gives its event to the subscriptions that take it; the streams of the
\* others, those without a subscription among them, have missed it.  One that equals
\* the store's offer is the last of its ID.
LEMMA ProcessKeeps ==
    ASSUME IInv, process # "ended", ProcessChangeEvent
    PROVE  IInv'
<1> DEFINE e == Head(eventChan)
           takers == {s \in registered : Matches(e, s) /\ Len(chan[s]) < ChanCap}
<1>1. /\ eventChan # <<>> /\ eventChan' = Tail(eventChan)
      /\ chan' = [s \in Subs |-> IF s \in takers THEN Append(chan[s], e) ELSE chan[s]]
      /\ missed' = [s \in Subs |-> IF s \in takers THEN 0 ELSE missed[s]]
      /\ unsent' = [s \in Subs |-> IF s \notin takers THEN unsent[s] \union {e.id}
                                   ELSE IF e.offer = table[e.id] THEN unsent[s] \ {e.id}
                                   ELSE unsent[s]]
      /\ UNCHANGED <<table, last, announcing, silent, registered, open, gone, copy, process>>
  BY DEF ProcessChangeEvent, storeVars
<1>2. TypeOK /\ Ordered /\ Followed BY DEF IInv
<1>3. eventChan \in Seq(Events) /\ Rising(eventChan) BY <1>2 DEF TypeOK, Ordered
<1>4. IsShortened(Events, eventChan, e, eventChan') BY <1>1, <1>3, Shortened
<1>5. takers \subseteq Subs /\ \A s \in takers : Len(chan[s]) < ChanCap BY <1>2 DEF TypeOK
<1> HIDE DEF e, takers
<1>6. /\ e \in Events /\ eventChan' \in Seq(Events) /\ Len(eventChan') = Len(eventChan) - 1
      /\ Len(eventChan) \in Nat
      /\ In(eventChan) = In(eventChan') \union {e}
      /\ \A i : Has(eventChan, i) <=> Has(eventChan', i) \/ e.id = i
      /\ \A i, o : Latest(eventChan, i, o) =>
                      IF Has(eventChan', i) THEN Latest(eventChan', i, o) ELSE e.offer = o
      /\ Rising(eventChan') /\ \A f \in In(eventChan') : f.id = e.id => e.offer < f.offer
  BY <1>3, <1>4 DEF IsShortened
<1>7. e.id \in Ids /\ e.offer \in Nat /\ e.offer # None /\ e \in Messages
  BY <1>6, ChangeFeedAssumption DEF Events, Offers, Messages
<1>8. \A s \in Subs : chan[s] \in Seq(Messages) /\ Len(chan[s]) <= ChanCap BY <1>2 DEF TypeOK
<1>9. \A s \in takers : IsAppended(Messages, chan[s], e, chan'[s])
  BY <1>1, <1>5, <1>7, <1>8, Appended
<1>10. \A s \in Subs \ takers : chan'[s] = chan[s] BY <1>1
<1>11. \A s \in Subs : chan'[s] \in Seq(Messages) /\ Len(chan'[s]) <= ChanCap
  <2>1. ASSUME NEW s \in takers PROVE chan'[s] \in Seq(Messages) /\ Len(chan'[s]) <= ChanCap
    <3>1. chan'[s] \in Seq(Messages) /\ Len(chan[s]) \in Nat /\ Len(chan'[s]) = Len(chan[s]) + 1
      BY <1>9 DEF IsAppended
    <3>2. QED BY <1>5, <3>1, ChangeFeedAssumption
  <2>2. QED BY <1>8, <1>10, <2>1
<1>12. TypeOK'
  <2>1. Len(eventChan') <= EventCap BY <1>2, <1>6, ChangeFeedAssumption DEF TypeOK
  <2>2. unsent' \in [Subs -> SUBSET Ids] BY <1>1, <1>2, <1>7 DEF TypeOK
  <2>3. chan' \in [Subs -> Seq(Messages)] BY <1>1, <1>11
  <2>4. missed' \in [Subs -> 0..IdleRounds] BY <1>1, <1>2, ChangeFeedAssumption DEF TypeOK
  <2>5. QED BY <1>1, <1>2, <1>6, <1>11, <2>1, <2>2, <2>3, <2>4 DEF TypeOK
<1>13. Ordered' BY <1>1, <1>2, <1>6 DEF Ordered
<1>14. e.offer = table[e.id] => ~Has(eventChan', e.id)
  <2> SUFFICES ASSUME e.offer = table[e.id], Has(eventChan', e.id) PROVE FALSE OBVIOUS
  <2>1. PICK f \in In(eventChan') : f.id = e.id BY DEF Has, In
  <2>2. e.offer < f.offer /\ f \in In(eventChan) BY <1>6, <2>1
  <2>3. f.offer <= table[f.id] BY <1>2, <1>7, <2>1, <2>2 DEF Ordered
  <2>4. f.offer \in Nat BY <1>3, <2>2, InEvents, ChangeFeedAssumption DEF Offers
  <2>5. QED BY <1>7, <2>1, <2>2, <2>3, <2>4
<1>15. Followed'
  <2>1. ASSUME NEW s \in Subs, NEW i \in Ids
        PROVE \/ i \in silent \union unsent'[s] \/ Has(announcing, i)
              \/ /\ Has(eventChan', i) /\ Latest(eventChan', i, table[i])
              \/ /\ ~Has(eventChan', i) /\ Has(chan'[s], i) /\ Latest(chan'[s], i, table[i])
              \/ /\ ~Has(eventChan', i) /\ ~Has(chan'[s], i)
                 /\ copy[s] # None => copy[s][i] = table[i]
    <3>1. \/ i \in silent \union unsent[s] \/ Has(announcing, i)
          \/ /\ Has(eventChan, i) /\ Latest(eventChan, i, table[i])
          \/ /\ ~Has(eventChan, i) /\ Has(chan[s], i) /\ Latest(chan[s], i, table[i])
          \/ /\ ~Has(eventChan, i) /\ ~Has(chan[s], i)
             /\ copy[s] # None => copy[s][i] = table[i]
      BY <1>2 DEF Followed
    <3>2. CASE s \notin takers
      <4>1. unsent'[s] = unsent[s] \union {e.id} /\ chan'[s] = chan[s] BY <1>1, <3>2
      <4>2. CASE i = e.id BY <4>1, <4>2
      <4>3. CASE i # e.id BY <1>6, <3>1, <4>1, <4>3
      <4>4. QED BY <4>2, <4>3
    <3>3. CASE s \in takers
      <4>1. /\ \A j : Has(chan'[s], j) <=> Has(chan[s], j) \/ e.id = j
            /\ Latest(chan'[s], e.id, e.offer)
            /\ \A j, o : j # e.id /\ Latest(chan[s], j, o) => Latest(chan'[s], j, o)
        BY <1>9, <3>3 DEF IsAppended
      <4>2. CASE i # e.id
        <5>1. i \in unsent[s] => i \in unsent'[s] BY <1>1, <4>2
        <5>2. QED BY <1>6, <3>1, <4>1, <4>2, <5>1
      <4>3. CASE i = e.id /\ e.offer = table[e.id] BY <1>14, <4>1, <4>3
      <4>4. CASE i = e.id /\ e.offer # table[e.id]
        <5>1. unsent'[s] = unsent[s] BY <1>1, <3>3, <4>4
        <5>2. QED BY <1>6, <3>1, <4>4, <5>1
      <4>5. QED BY <4>2, <4>3, <4>4
    <3>4. QED BY <3>2, <3>3
  <2>2. QED BY <1>1, <1>2, <2>1 DEF Followed
<1>16. QED BY <1>12, <1>13, <1>15 DEF IInv

\* Heartbeats, and the cleanup, take no change from a channel and put none in one.
LEMMA HeartbeatKeeps ==
    ASSUME IInv, Heartbeat \/ CleanupInactive
    PROVE  IInv'
<1> USE DEF storeVars, feedVars, streamVars
<1>1. TypeOK /\ Ordered /\ Followed BY DEF IInv
<1>2. /\ UNCHANGED <<table, last, announcing, silent, eventChan, unsent, open, gone, copy,
                     process>>
      /\ registered' \subseteq registered
  BY DEF Heartbeat, CleanupInactive
<1>3. \A s \in Subs : /\ chan'[s] \in Seq(Messages) /\ Len(chan'[s]) <= ChanCap
                      /\ \A i \in Ids : Has(chan'[s], i) <=> Has(chan[s], i)
                      /\ \A i \in Ids : \A o : Latest(chan[s], i, o) => Latest(chan'[s], i, o)
  <2> SUFFICES ASSUME NEW s \in Subs
               PROVE  /\ chan'[s] \in Seq(Messages) /\ Len(chan'[s]) <= ChanCap
                      /\ \A i \in Ids : Has(chan'[s], i) <=> Has(chan[s], i)
                      /\ \A i \in Ids : \A o : Latest(chan[s], i, o) => Latest(chan'[s], i, o)
    OBVIOUS
  <2>1. chan[s] \in Seq(Messages) /\ Len(chan[s]) <= ChanCap BY <1>1 DEF TypeOK
  <2>2. CASE chan'[s] = chan[s] BY <2>1, <2>2
  <2>3. CASE chan'[s] = Append(chan[s], Beat) /\ Len(chan[s]) < ChanCap
    <3>1. Beat \in Messages /\ Beat.id \notin Ids
      BY ChangeFeedAssumption DEF Messages, Beat
    <3>2. IsAppended(Messages, chan[s], Beat, chan'[s]) BY <2>1, <2>3, <3>1, Appended
    <3>3. QED BY <2>3, <3>1, <3>2, ChangeFeedAssumption DEF IsAppended
  <2>4. chan'[s] = chan[s] \/ (chan'[s] = Append(chan[s], Beat) /\ Len(chan[s]) < ChanCap)
    BY DEF Heartbeat, CleanupInactive
  <2>5. QED BY <2>2, <2>3, <2>4
<1>4. chan' \in [Subs -> Seq(Messages)] /\ missed' \in [Subs -> 0..IdleRounds]
  <2>1. CASE Heartbeat
    <3>1. missed' \in [Subs -> 0..IdleRounds]
      BY <1>1, <2>1, ChangeFeedAssumption DEF Heartbeat, TypeOK
    <3>2. DOMAIN chan' = Subs /\ chan' = [s \in Subs |-> chan'[s]] BY <2>1 DEF Heartbeat
    <3>3. QED BY <1>3, <3>1, <3>2
  <2>2. CASE CleanupInactive BY <1>1, <2>2 DEF CleanupInactive, TypeOK
  <2>3. QED BY <2>1, <2>2
<1>5. TypeOK' BY <1>1, <1>2, <1>3, <1>4 DEF TypeOK
<1>6. Ordered' BY <1>1, <1>2 DEF Ordered
<1>7. Followed' BY <1>1, <1>2, <1>3 DEF Followed
<1>8. QED BY <1>5, <1>6, <1>7 DEF IInv

\* The stream takes its first message: if no event follows it the copy is as the store.
LEMMA SendKeeps ==
    ASSUME IInv, NEW s \in Subs, StreamSend(s)
    PROVE  IInv'
<1> DEFINE e == Head(chan[s])
<1>1. /\ s \in open /\ chan[s] # <<>> /\ chan' = [chan EXCEPT ![s] = Tail(@)]
      /\ copy' = [copy EXCEPT ![s] = Applied(@, e)]
      /\ UNCHANGED <<table, last, announcing, silent, eventChan, unsent, registered, missed,
                     open, gone, process>>
  BY DEF StreamSend, storeVars, feedVars, subVars
<1>2. TypeOK /\ Ordered /\ Followed BY DEF IInv
<1>3. chan \in [Subs -> Seq(Messages)] /\ chan[s] \in Seq(Messages) /\ Len(chan[s]) <= ChanCap
  BY <1>2 DEF TypeOK
<1>4. chan'[s] = Tail(chan[s]) /\ \A v \in Subs \ {s} : chan'[v] = chan[v] BY <1>1, <1>3
<1>5. IsShortened(Messages, chan[s], e, chan'[s]) BY <1>1, <1>3, <1>4, Shortened
<1> HIDE DEF e
<1>6. /\ e \in Messages /\ chan'[s] \in Seq(Messages) /\ Len(chan'[s]) = Len(chan[s]) - 1
      /\ Len(chan[s]) \in Nat
      /\ \A i : Has(chan[s], i) <=> Has(chan'[s], i) \/ e.id = i
      /\ \A i, o : Latest(chan[s], i, o) =>
                      IF Has(chan'[s], i) THEN Latest(chan'[s], i, o) ELSE e.offer = o
  BY <1>5 DEF IsShortened
<1>7. \/ /\ e \in Events /\ e # Beat /\ e.id \in Ids /\ e.offer \in Offers
      \/ /\ e = Beat /\ e.id \notin Ids
  BY <1>6, MessageKinds
<1>8. copy \in [Subs -> Tables \union {None}] BY <1>2 DEF TypeOK
<1>9. copy'[s] = Applied(copy[s], e) /\ \A v \in Subs \ {s} : copy'[v] = copy[v]
  BY <1>1, <1>8
<1>10. /\ copy'[s] \in Tables \union {None}
       /\ copy'[s] # None => /\ copy[s] # None
                             /\ \A i \in Ids : copy'[s][i] = IF i = e.id THEN e.offer
                                                             ELSE copy[s][i]
  <2>1. CASE copy[s] = None \/ e = Beat
    <3>1. copy'[s] = copy[s] BY <1>9, <2>1 DEF Applied
    <3>2. QED BY <1>7, <1>8, <2>1, <3>1
  <2>2. CASE copy[s] # None /\ e # Beat
    <3>1. copy[s] \in Tables /\ copy'[s] = [copy[s] EXCEPT ![e.id] = e.offer]
      BY <1>8, <1>9, <2>2 DEF Applied
    <3>2. QED BY <1>7, <2>2, <3>1 DEF Tables
  <2>3. QED BY <2>1, <2>2
<1>11. copy' \in [Subs -> Tables \union {None}] BY <1>1, <1>8, <1>9, <1>10
<1>12. TypeOK'
  <2>1. \A v \in Subs : Len(chan'[v]) <= ChanCap
    <3>1. Len(chan'[s]) <= ChanCap BY <1>3, <1>6, ChangeFeedAssumption
    <3>2. QED BY <1>2, <1>4, <3>1 DEF TypeOK
  <2>2. chan' \in [Subs -> Seq(Messages)] BY <1>1, <1>3, <1>4, <1>6
  <2>3. QED BY <1>1, <1>2, <1>11, <2>1, <2>2 DEF TypeOK
<1>13. Ordered' BY <1>1, <1>2 DEF Ordered
<1>14. Followed'
  <2>1. ASSUME NEW i \in Ids, process # "ended"
        PROVE \/ i \in silent \union unsent[s] \/ Has(announcing, i)
              \/ /\ Has(eventChan, i) /\ Latest(eventChan, i, table[i])
              \/ /\ ~Has(eventChan, i) /\ Has(chan'[s], i) /\ Latest(chan'[s], i, table[i])
              \/ /\ ~Has(eventChan, i) /\ ~Has(chan'[s], i)
                 /\ copy'[s] # None => copy'[s][i] = table[i]
    <3>1. \/ i \in silent \union unsent[s] \/ Has(announcing, i)
          \/ /\ Has(eventChan, i) /\ Latest(eventChan, i, table[i])
          \/ /\ ~Has(eventChan, i) /\ Has(chan[s], i) /\ Latest(chan[s], i, table[i])
          \/ /\ ~Has(eventChan, i) /\ ~Has(chan[s], i)
             /\ copy[s] # None => copy[s][i] = table[i]
      BY <1>2, <2>1 DEF Followed
    <3>2. CASE i = e.id BY <1>6, <1>10, <3>1, <3>2
    <3>3. CASE i # e.id BY <1>6, <1>10, <3>1, <3>3
    <3>4. QED BY <3>2, <3>3
  <2>2. \A v \in Subs \ open : v # s BY <1>1
  <2>3. QED BY <1>1, <1>2, <1>4, <1>9, <2>1, <2>2 DEF Followed
<1>15. QED BY <1>12, <1>13, <1>14 DEF IInv

\* A list is a copy of the table.
LEMMA ListKeeps ==
    ASSUME IInv, NEW s \in Subs, ListAll(s)
    PROVE  IInv'
<1>1. /\ s \in open /\ copy' = [copy EXCEPT ![s] = table]
      /\ UNCHANGED <<table, last, announcing, silent, eventChan, unsent, registered, missed,
                     open, gone, chan, process>>
  BY DEF ListAll, storeVars, feedVars, subVars
<1>2. TypeOK /\ Ordered /\ Followed BY DEF IInv
<1>3. copy'[s] = table /\ \A v \in Subs \ {s} : copy'[v] = copy[v] BY <1>1, <1>2 DEF TypeOK
<1>4. TypeOK' BY <1>1, <1>2 DEF TypeOK
<1>5. Ordered' BY <1>1, <1>2 DEF Ordered
<1>6. Followed' BY <1>1, <1>2, <1>3 DEF Followed
<1>7. QED BY <1>4, <1>5, <1>6 DEF IInv

\* A client that leaves takes its subscription, its channel and its copy with it.
LEMMA LeaveKeeps ==
    ASSUME IInv, NEW s \in Subs, Leave(s)
    PROVE  IInv'
<1>1. /\ s \in open /\ open' = open \ {s} /\ gone' = gone \union {s}
      /\ registered' = registered \ {s}
      /\ chan' = [chan EXCEPT ![s] = <<>>] /\ copy' = [copy EXCEPT ![s] = None]
      /\ UNCHANGED <<table, last, announcing, silent, eventChan, unsent, missed, process>>
  BY DEF Leave, storeVars, feedVars
<1>2. TypeOK /\ Ordered /\ Followed BY DEF IInv
<1>3. <<>> \in Seq(Messages) /\ Len(<<>>) = 0 /\ DOMAIN <<>> = {} BY EmptySeq
<1>4. /\ chan'[s] = <<>> /\ copy'[s] = None
      /\ \A v \in Subs \ {s} : chan'[v] = chan[v] /\ copy'[v] = copy[v]
  BY <1>1, <1>2 DEF TypeOK
<1>5. TypeOK'
  <2>1. \A v \in Subs : Len(chan'[v]) <= ChanCap
    <3>1. 0 <= ChanCap BY ChangeFeedAssumption
    <3>2. Len(chan'[s]) <= ChanCap BY <1>3, <1>4, <3>1
    <3>3. QED BY <1>2, <1>4, <3>2 DEF TypeOK
  <2>2. chan' \in [Subs -> Seq(Messages)] /\ copy' \in [Subs -> Tables \union {None}]
    BY <1>1, <1>2, <1>3 DEF TypeOK
  <2>3. QED BY <1>1, <1>2, <2>1, <2>2 DEF TypeOK
<1>6. Ordered' BY <1>1, <1>2 DEF Ordered
<1>7. Followed'
  <2>1. \A i : ~Has(chan'[s], i) BY <1>3, <1>4 DEF Has
  <2>2. ASSUME NEW i \in Ids, process # "ended"
        PROVE \/ i \in silent \union unsent[s] \/ Has(announcing, i)
              \/ /\ Has(eventChan, i) /\ Latest(eventChan, i, table[i])
              \/ ~Has(eventChan, i)
    BY <1>2, <2>2 DEF Followed
  <2>3. QED BY <1>1, <1>2, <1>4, <2>1, <2>2 DEF Followed
<1>8. QED BY <1>5, <1>6, <1>7 DEF IInv

\* A stream opens: its client has no copy yet.
LEMMA SubscribeKeeps ==
    ASSUME IInv, NEW s \in Subs, Subscribe(s)
    PROVE  IInv'
<1>1. /\ process # "ended" /\ s \notin open \union gone
      /\ open' = open \union {s} /\ registered' = registered \union {s}
      /\ UNCHANGED <<table, last, announcing, silent, eventChan, unsent, missed, gone, chan,
                     copy, process>>
  BY DEF Subscribe, storeVars, feedVars
<1>2. TypeOK /\ Ordered /\ Followed BY DEF IInv
<1>3. TypeOK' BY <1>1, <1>2 DEF TypeOK
<1>4. Ordered' BY <1>1, <1>2 DEF Ordered
<1>5. Followed' BY <1>1, <1>2 DEF Followed
<1>6. QED BY <1>3, <1>4, <1>5 DEF IInv

\* The process begins to stop, ends or does nothing.
LEMMA ProcessStateKeeps ==
    ASSUME IInv, Signal \/ Shutdown \/ UNCHANGED vars
    PROVE  IInv'
<1>1. UNCHANGED <<last, announcing, silent, eventChan, unsent, registered, missed, open, gone,
                  chan, copy>>
  BY DEF Signal, Shutdown, vars, storeVars, feedVars, subVars, streamVars
<1>2. TypeOK /\ Ordered /\ Followed BY DEF IInv
<1>3. CASE Shutdown
  <2>1. process' = "ended" /\ table' = [i \in Ids |-> None] /\ open = {} /\ announcing = <<>>
    BY <1>3 DEF Shutdown
  <2>2. TypeOK' BY <1>1, <1>2, <2>1 DEF TypeOK, Tables
  <2>3. (\A e \in In(announcing) : FALSE) /\ \A i : ~Has(announcing, i)
    BY <2>1, EmptySeq DEF In, Has
  <2>4. \A i \in Ids : table'[i] = None BY <2>1
  <2>5. \A f \in In(eventChan) : f.id \in Ids BY <1>2, InEvents DEF TypeOK
  <2>6. Ordered' BY <1>1, <1>2, <2>3, <2>4, <2>5 DEF Ordered
  <2>7. Followed' BY <1>1, <1>2, <2>1 DEF Followed
  <2>8. QED BY <2>2, <2>6, <2>7 DEF IInv
<1>4. CASE Signal \/ UNCHANGED vars
  <2>1. /\ UNCHANGED table
        /\ process' \in {"serving", "stopping", "ended"}
        /\ process' = "ended" <=> process = "ended"
    BY <1>2, <1>4 DEF Signal, vars, storeVars, TypeOK
  <2>2. TypeOK' BY <1>1, <1>2, <2>1 DEF TypeOK
  <2>3. Ordered' BY <1>1, <1>2, <2>1 DEF Ordered
  <2>4. Followed' BY <1>1, <1>2, <2>1 DEF Followed
  <2>5. QED BY <2>2, <2>3, <2>4 DEF IInv
<1>5. QED BY <1>3, <1>4

\* Every step keeps the inductive invariant.
LEMMA NextKeeps == IInv /\ [Next]_vars => IInv'
<1> SUFFICES ASSUME IInv, [Next]_vars PROVE IInv' OBVIOUS
<1>1. \A i \in Ids : Create(i) \/ Update(i) => IInv' BY StoreKeeps
<1>2. \A ids \in SUBSET Ids : Delete(ids) \/ BulkStore(ids) => IInv' BY SilentKeeps
<1>3. \A selected \in SUBSET Ids, batch \in Batches : BulkOverwrite(selected, batch) => IInv'
  BY BulkOverwriteKeeps
<1>4. QED
  BY <1>1, <1>2, <1>3, NotifyKeeps, ProcessKeeps, HeartbeatKeeps, SendKeeps, ListKeeps,
     LeaveKeeps, SubscribeKeeps, ProcessStateKeeps DEF Next

-----------------------------------------------------------------------------
\* The store, the notification service and the streams keep what is on its way in
\* the order of the writes, and the last of it is the store's.
THEOREM Inductive == Spec => []IInv
BY InitIInv, NextKeeps, PTL DEF Spec

\* A client that subscribed and listed has the store's offer, unless something is on
\* its way, was never announced, or was kept from it by a filter, a full channel or
\* the cleanup, which leaves the stream open.
THEOREM Follows == Spec => []FeedInv
<1>1. ASSUME IInv PROVE CopyFollowsStore
  <2> SUFFICES ASSUME process # "ended", NEW s \in open, copy[s] # None, NEW i \in Ids
               PROVE  copy[s][i] = table[i] \/ OnItsWay(s, i) \/ i \in silent \/ i \in unsent[s]
    BY DEF CopyFollowsStore
  <2>1. s \in Subs BY <1>1 DEF IInv, TypeOK
  <2>2. \/ i \in silent \union unsent[s] \/ Has(announcing, i) \/ Has(eventChan, i)
        \/ Has(chan[s], i) \/ copy[s][i] = table[i]
    BY <1>1, <2>1 DEF IInv, Followed
  <2>3. QED BY <2>2 DEF Has, OnItsWay
<1>2. IInv => FeedInv BY <1>1 DEF IInv, FeedInv
<1>3. QED BY <1>2, Inductive, PTL

\* The runs add fairness, which the invariant does not need.
THEOREM FollowsFairly == FairSpec => []FeedInv
BY Follows, PTL DEF FairSpec
=============================================================================
