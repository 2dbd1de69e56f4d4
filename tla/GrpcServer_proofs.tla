------------------------- MODULE GrpcServer_proofs -------------------------
(***************************************************************************)
(* Theorems about GrpcServer, for every set of handlers, offers, batches   *)
(* and filters, and every MaxClock.                                        *)
(*                                                                         *)
(* The three properties speak of one RPC and the table, so the inductive   *)
(* invariant does too: RpcOK says of an RPC in progress what makes its     *)
(* answer true later.  A step of another RPC keeps it by what Witness      *)
(* records of that step; its own steps by what AtomicStore promises.       *)
(***************************************************************************)
EXTENDS GrpcServer, FiniteSetTheorems, SequenceTheorems, WellFoundedInduction, TLAPS

\* The entries two tables differ in; the IDs a table has offers for.
Diff(t, u) == {id \in Ids : u[id] # t[id]}
Held(t) == {id \in Ids : t[id] # None}

\* A table of finitely many offers of known types.
TableOK(t) ==
    /\ t \in Table /\ IsFiniteSet(Held(t))
    /\ \A id \in Held(t) : t[id].type \in KnownTypes

\* The filter the store is asked to overwrite by.
Selecting(r) == IF r.direct THEN r.filter ELSE ToProtoFilter(r.filter)

\* What Receive let through.
Asked(r) ==
    /\ r.op \in Singles => r.offer \in Inputs \union Messages /\ Convertible(r.offer)
    /\ r.op = "Delete" => r.id \in Ids
    /\ r.op \notin Singles \union {"Delete", "BulkDelete"} =>
          \A i \in DOMAIN r.batch : Convertible(r.batch[i])

\* What the first store call saw is still so, unless another RPC interfered.
SeenOK(r, t) ==
    r.at = "checked" /\ ~r.raced =>
        /\ r.op = "CreateOrUpdate" => r.seen = IF t[r.offer.id] = None THEN 0 ELSE 1
        /\ r.op = "BulkOverwrite" => r.seen = Cardinality(OffersToDelete(t, Selecting(r)))

\* The answer of an RPC that is done is true.
AnswerOK(r, t) ==
    /\ IF Failed(r) THEN r.changed = {}
       ELSE \A id \in Ids \ r.overtaken : Left(r, id, t[id])
    /\ r.op = "CreateOrUpdate" /\ r.code \in {"AlreadyExists", "NotFound"} => r.raced
    /\ r.op = "BulkOverwrite" /\ r.code = "OK" /\ r.filter # None /\ ~r.raced
          => r.deleted = r.removed

RpcOK(r, t) ==
    /\ r.at \in {"open", "checked"} => Asked(r)
    /\ r.at # "done" => r.changed = {} /\ ~r.failures
    /\ SeenOK(r, t)
    /\ r.at = "done" => AnswerOK(r, t)

\* The inductive invariant.
IInv == TypeOK /\ TableOK(table) /\ \A h \in Handlers : RpcOK(rpc[h], table)

-----------------------------------------------------------------------------
\* A non-empty finite set of numbers has a largest and a smallest element.
LEMMA Extremes ==
    ASSUME NEW S \in SUBSET Nat, IsFiniteSet(S), S # {}
    PROVE  /\ \E m \in S : \A s \in S : s <= m
           /\ \E m \in S : \A s \in S : m <= s
<1> DEFINE R == StrictSubsetOrdering(S)
           Up(k) == {s \in S : k <= s}
           Down(k) == {s \in S : s <= k}
<1>1. IsWellFoundedOn(R, SUBSET S)
  BY FS_StrictSubsetOrderingWellFounded, FS_FiniteSubsetsOfFinite
<1>2. \E m \in S : \A s \in S : s <= m
  <2> DEFINE F == {Up(k) : k \in S}
  <2>1. F \subseteq SUBSET S /\ F # {} OBVIOUS
  <2>2. PICK U \in F : \A V \in F : <<V, U>> \notin R BY <1>1, <2>1, WFMin
  <2>3. PICK m \in S : U = Up(m) BY <2>2
  <2>4. ASSUME NEW s \in S, m < s PROVE FALSE
    <3>1. m \in Nat /\ s \in Nat /\ \A k \in S : k \in Nat OBVIOUS
    <3>3. Up(s) \in F OBVIOUS
    <3>4. Up(s) \subseteq Up(m)
      <4>1. ASSUME NEW x \in S, s <= x PROVE m <= x BY <2>4, <3>1, <4>1
      <4>2. QED BY <4>1
    <3>5. m \in Up(m) /\ m \notin Up(s) BY <2>4, <3>1
    <3>2. <<Up(s), Up(m)>> \in R BY <3>4, <3>5 DEF StrictSubsetOrdering
    <3>6. QED BY <2>2, <2>3, <3>2, <3>3
  <2>5. QED BY <2>4
<1>3. \E m \in S : \A s \in S : m <= s
  <2> DEFINE F == {Down(k) : k \in S}
  <2>1. F \subseteq SUBSET S /\ F # {} OBVIOUS
  <2>2. PICK U \in F : \A V \in F : <<V, U>> \notin R BY <1>1, <2>1, WFMin
  <2>3. PICK m \in S : U = Down(m) BY <2>2
  <2>4. ASSUME NEW s \in S, s < m PROVE FALSE
    <3>1. m \in Nat /\ s \in Nat /\ \A k \in S : k \in Nat OBVIOUS
    <3>3. Down(s) \in F OBVIOUS
    <3>4. Down(s) \subseteq Down(m)
      <4>1. ASSUME NEW x \in S, x <= s PROVE x <= m BY <2>4, <3>1, <4>1
      <4>2. QED BY <4>1
    <3>5. m \in Down(m) /\ m \notin Down(s) BY <2>4, <3>1
    <3>2. <<Down(s), Down(m)>> \in R BY <3>4, <3>5 DEF StrictSubsetOrdering
    <3>6. QED BY <2>2, <2>3, <3>2, <3>3
  <2>5. QED BY <2>4
<1>4. QED BY <1>2, <1>3

\* A batch names finitely many IDs.
LEMMA BatchIdsFinite ==
    ASSUME NEW b \in Seq(Offer)
    PROVE  BatchIds(b) \subseteq Ids /\ IsFiniteSet(BatchIds(b))
<1>1. DOMAIN b = 1..Len(b) /\ Len(b) \in Nat /\ \A i \in DOMAIN b : b[i] \in Offer
  BY LenProperties, ElementOfSeq
<1>2. BatchIds(b) \subseteq Ids BY <1>1 DEF BatchIds, Offer
<1>3. IsFiniteSet(DOMAIN b) BY <1>1, FS_Interval
<1>4. [i \in DOMAIN b |-> b[i].id] \in Surjection(DOMAIN b, BatchIds(b))
  BY DEF BatchIds, Surjection
<1>5. QED BY <1>2, <1>3, <1>4, FS_Surjection

\* Of the offers a batch has for an ID there is a first and a last one.
LEMMA FirstAndLast ==
    ASSUME NEW b \in Seq(Offer), NEW id \in BatchIds(b)
    PROVE  /\ \E i \in DOMAIN b : /\ b[i].id = id /\ Store!First(b, id) = b[i]
           /\ \E i \in DOMAIN b : /\ b[i].id = id /\ Store!Last(b, id) = b[i]
                                  /\ \A j \in DOMAIN b : b[j].id = id => j <= i
<1> DEFINE S == {i \in DOMAIN b : b[i].id = id}
<1>1. DOMAIN b = 1..Len(b) /\ Len(b) \in Nat BY LenProperties
<1>2. S # {} /\ S \in SUBSET Nat /\ S \in SUBSET (1..Len(b)) BY <1>1 DEF BatchIds
<1>3. IsFiniteSet(S)
  <2>1. IsFiniteSet(1..Len(b)) BY <1>1, FS_Interval
  <2>2. QED BY <1>2, <2>1, FS_Subset
<1>4. PICK f \in S : \A s \in S : f <= s BY <1>2, <1>3, Extremes
<1>5. PICK l \in S : \A s \in S : s <= l BY <1>2, <1>3, Extremes
<1>6. b[f].id = id /\ \A j \in 1..(f - 1) : b[j].id # id BY <1>1, <1>2, <1>4
<1>7. b[l].id = id /\ \A j \in (l + 1)..Len(b) : b[j].id # id BY <1>1, <1>2, <1>5
<1> DEFINE IsFirst(i) == b[i].id = id /\ \A j \in 1..(i - 1) : b[j].id # id
           IsLast(i) == b[i].id = id /\ \A j \in (i + 1)..Len(b) : b[j].id # id
           first == CHOOSE i \in DOMAIN b : IsFirst(i)
           last == CHOOSE i \in DOMAIN b : IsLast(i)
<1>8. first \in DOMAIN b /\ b[first].id = id BY <1>4, <1>6
<1>9. last \in DOMAIN b /\ IsLast(last) BY <1>5, <1>7
<1>10. \A j \in DOMAIN b : b[j].id = id => j <= last BY <1>1, <1>9
<1>11. Store!First(b, id) = b[first] /\ Store!Last(b, id) = b[last]
  BY DEF Store!First, Store!Last
<1> HIDE DEF first, last
<1>12. QED BY <1>8, <1>9, <1>10, <1>11

\* What is sent of a batch has the same offers in the same places.
LEMMA LastOfSent ==
    ASSUME NEW b \in Seq(Offer), NEW c \in Seq(Offer), DOMAIN b = DOMAIN c,
           \A i \in DOMAIN b : b[i].id = c[i].id, NEW id \in BatchIds(b)
    PROVE  \E i \in DOMAIN b : Store!Last(b, id) = b[i] /\ Store!Last(c, id) = c[i]
<1>1. PICK i \in DOMAIN b : /\ b[i].id = id /\ Store!Last(b, id) = b[i]
                            /\ \A j \in DOMAIN b : b[j].id = id => j <= i
  BY FirstAndLast
<1>2. id \in BatchIds(c) BY DEF BatchIds
<1>3. PICK k \in DOMAIN c : /\ c[k].id = id /\ Store!Last(c, id) = c[k]
                            /\ \A j \in DOMAIN c : c[j].id = id => j <= k
  BY <1>2, FirstAndLast
<1>4. DOMAIN b \subseteq Nat BY LenProperties
<1>5. i = k BY <1>1, <1>3, <1>4
<1>6. QED BY <1>1, <1>3, <1>5

-----------------------------------------------------------------------------
\* Stamping an offer changes its timestamps only.
LEMMA StampedFacts ==
    ASSUME NEW o \in Offer, NEW c \in Nat, NEW u \in Nat
    PROVE  /\ Stamped(o, c, u) \in Offer
           /\ Stamped(o, c, u).id = o.id /\ Stamped(o, c, u).type = o.type
           /\ Stamped(o, c, u).created = c /\ Stamped(o, c, u).updated = u
BY DEF Stamped, Offer

\* GRPCClient's message of an offer is the offer without its source.
LEMMA ToProtoFacts ==
    ASSUME NEW o \in Offer
    PROVE  /\ ToProto(o) \in Offer /\ ToProto(o).id = o.id /\ ToProto(o).type = o.type
           /\ ToProto(o).created = o.created
BY DEF ToProto, Offer

\* The offer a table holds under an ID has that ID.
LEMMA HeldOffer ==
    ASSUME NEW t \in Table, NEW id \in Held(t)
    PROVE  id \in Ids /\ t[id] # None /\ t[id] \in Offer /\ t[id].id = id
BY DEF Held, Table

\* A table with one more offer, or another in the place of one, is a table.
LEMMA PutKeepsTable ==
    ASSUME NEW t, TableOK(t), NEW o \in Offer, o.type \in KnownTypes,
           NEW c \in Nat, NEW u \in Nat
    PROVE  TableOK([t EXCEPT ![o.id] = Stamped(o, c, u)])
<1> DEFINE s == Stamped(o, c, u)
           v == [t EXCEPT ![o.id] = s]
<1>1. s \in Offer /\ s.id = o.id /\ s.type = o.type /\ o.id \in Ids /\ s # None
  <2>1. s \in Offer /\ s.id = o.id /\ s.type = o.type BY StampedFacts
  <2>2. o.id \in Ids BY DEF Offer
  <2> HIDE DEF s
  <2>3. QED BY <2>1, <2>2, NoneAssumption
<1>2. t \in [Ids -> Offer \union {None}] /\ \A id \in Ids : t[id] # None => t[id].id = id
  BY DEF TableOK, Table
<1> HIDE DEF s
<1>3. v \in Table BY <1>1, <1>2 DEF Table
<1>4. IsFiniteSet(Held(v))
  <2>1. Held(v) \subseteq Held(t) \union {o.id} BY <1>1, <1>2 DEF Held
  <2>2. IsFiniteSet(Held(t) \union {o.id}) BY FS_AddElement DEF TableOK
  <2>3. QED BY <2>1, <2>2, FS_Subset
<1>5. \A id \in Held(v) : v[id].type \in KnownTypes BY <1>1, <1>2 DEF Held, TableOK
<1>6. QED BY <1>3, <1>4, <1>5 DEF TableOK, s

\* So is one without some of its offers.
LEMMA WithoutKeepsTable ==
    ASSUME NEW t, TableOK(t), NEW ids
    PROVE  /\ TableOK(Store!Without(t, ids))
           /\ \A id \in Ids : Store!Without(t, ids)[id] = IF id \in ids THEN None ELSE t[id]
<1> DEFINE v == Store!Without(t, ids)
<1>1. \A id \in Ids : v[id] = IF id \in ids THEN None ELSE t[id] BY DEF Store!Without
<1>2. v \in Table BY DEF Store!Without, Table, TableOK
<1>3. Held(v) \subseteq Held(t) BY <1>1 DEF Held
<1>4. IsFiniteSet(Held(v)) BY <1>3, FS_Subset DEF TableOK
<1>5. \A id \in Held(v) : v[id].type \in KnownTypes BY <1>1, <1>3 DEF Held, TableOK
<1>6. QED BY <1>1, <1>2, <1>4, <1>5 DEF TableOK

\* What a bulk call leaves of a batch: the last offer for each of its IDs.
Overlay(t, b, v) ==
    \A id \in Ids : IF id \in BatchIds(b)
                    THEN \E c, u \in Nat : v[id] = Stamped(Store!Last(b, id), c, u)
                    ELSE v[id] = t[id]

\* A table overlaid with a batch is a table.
LEMMA OverlayKeepsTable ==
    ASSUME NEW t, TableOK(t), NEW b \in Seq(Offer),
           \A i \in DOMAIN b : b[i].type \in KnownTypes,
           NEW v, DOMAIN v = Ids, v = [id \in Ids |-> v[id]], Overlay(t, b, v)
    PROVE  TableOK(v)
<1>1. ASSUME NEW id \in BatchIds(b)
      PROVE  v[id] \in Offer /\ v[id].id = id /\ v[id].type \in KnownTypes /\ id \in Ids
  <2>1. id \in Ids BY BatchIdsFinite
  <2>2. PICK i \in DOMAIN b : b[i].id = id /\ Store!Last(b, id) = b[i] BY FirstAndLast
  <2>3. b[i] \in Offer BY LenProperties, ElementOfSeq
  <2>4. PICK c \in Nat, u \in Nat : v[id] = Stamped(b[i], c, u) BY <2>1, <2>2 DEF Overlay
  <2>5. /\ Stamped(b[i], c, u) \in Offer /\ Stamped(b[i], c, u).id = b[i].id
        /\ Stamped(b[i], c, u).type = b[i].type
    BY <2>3, StampedFacts
  <2>6. QED BY <2>1, <2>2, <2>4, <2>5
<1>2. t \in [Ids -> Offer \union {None}] /\ \A id \in Ids : t[id] # None => t[id].id = id
  BY DEF TableOK, Table
<1>3. \A id \in Ids \ BatchIds(b) : v[id] = t[id] BY DEF Overlay
<1>4. v \in Table
  <2>1. \A id \in Ids : v[id] \in Offer \union {None} BY <1>1, <1>2, <1>3
  <2>2. v \in [Ids -> Offer \union {None}] BY <2>1
  <2>3. \A id \in Ids : v[id] # None => v[id].id = id BY <1>1, <1>2, <1>3
  <2>4. QED BY <2>2, <2>3 DEF Table
<1>5. IsFiniteSet(Held(v))
  <2>1. Held(v) \subseteq Held(t) \union BatchIds(b) BY <1>3 DEF Held
  <2>2. IsFiniteSet(Held(t) \union BatchIds(b)) BY BatchIdsFinite, FS_Union DEF TableOK
  <2>3. QED BY <2>1, <2>2, FS_Subset
<1>6. \A id \in Held(v) : v[id].type \in KnownTypes BY <1>1, <1>3 DEF Held, TableOK
<1>7. QED BY <1>4, <1>5, <1>6 DEF TableOK

-----------------------------------------------------------------------------
\* What a store call leaves: a table, a time, an answer, and nothing new if the
\* answer is an error.
CallOK ==
    /\ TableOK(table') /\ clock' \in Nat
    /\ reply' \in {"ok", "invalid", "exists", "missing"}
    /\ reply' # "ok" => table' = table

Put(o) == \E c, u \in Nat : table' = [table EXCEPT ![o.id] = Stamped(o, c, u)]

\* A refused call.
LEMMA RefuseFacts ==
    ASSUME TypeOK, TableOK(table), NEW r \in {"ok", "invalid", "exists", "missing"},
           Store!Refuse(r)
    PROVE  CallOK /\ reply' = r /\ table' = table
BY DEF Store!Refuse, CallOK, TypeOK

\* Create stores the offer where there is none.
LEMMA CreateFacts ==
    ASSUME TypeOK, TableOK(table), NEW o \in Offer, o.type \in KnownTypes, Store!Create(o)
    PROVE  /\ CallOK /\ (reply' = "ok" => Put(o)) /\ reply' # "missing"
           /\ reply' = "exists" => table[o.id] # None
<1>1. CASE Store!Refuse("invalid") BY <1>1, RefuseFacts
<1>2. CASE Store!Present(o.id) /\ Store!Refuse("exists")
  BY <1>2, RefuseFacts DEF Store!Present
<1>3. CASE Store!Become([table EXCEPT ![o.id] = Stamped(o, clock, clock)])
  <2>1. clock \in Nat BY DEF TypeOK
  <2>2. /\ table' = [table EXCEPT ![o.id] = Stamped(o, clock, clock)]
        /\ reply' = "ok" /\ clock' \in Nat
    BY <1>3, <2>1 DEF Store!Become
  <2>3. TableOK(table') BY <2>1, <2>2, PutKeepsTable
  <2>4. Put(o) BY <2>1, <2>2 DEF Put
  <2>5. QED BY <2>2, <2>3, <2>4 DEF CallOK
<1>4. QED BY <1>1, <1>2, <1>3 DEF Store!Create, Store!Stamped, Stamped

\* Update stores it where there is one.
LEMMA UpdateFacts ==
    ASSUME TypeOK, TableOK(table), NEW o \in Offer, o.type \in KnownTypes, Store!Update(o)
    PROVE  /\ CallOK /\ (reply' = "ok" => Put(o)) /\ reply' # "exists"
           /\ reply' = "missing" => table[o.id] = None
<1>1. CASE Store!Refuse("invalid") BY <1>1, RefuseFacts
<1>2. CASE ~Store!Present(o.id) /\ Store!Refuse("missing")
  BY <1>2, RefuseFacts DEF Store!Present
<1>3. CASE Store!Become([table EXCEPT ![o.id] = Stamped(o, o.created, clock)])
  <2>1. clock \in Nat /\ o.created \in Nat BY DEF TypeOK, Offer
  <2>2. /\ table' = [table EXCEPT ![o.id] = Stamped(o, o.created, clock)]
        /\ reply' = "ok" /\ clock' \in Nat
    BY <1>3, <2>1 DEF Store!Become
  <2>3. TableOK(table') BY <2>1, <2>2, PutKeepsTable
  <2>4. Put(o) BY <2>1, <2>2 DEF Put
  <2>5. QED BY <2>2, <2>3, <2>4 DEF CallOK
<1>4. QED BY <1>1, <1>2, <1>3 DEF Store!Update, Store!Stamped, Stamped

\* Delete and BulkDelete take out what they were asked to.
LEMMA RemoveFacts ==
    ASSUME TypeOK, TableOK(table), NEW ids, Store!Remove(ids)
    PROVE  CallOK /\ reply' = "ok" /\ table' = Store!Without(table, ids)
<1>1. table' = Store!Without(table, ids) /\ reply' = "ok" /\ clock' \in Nat
  BY DEF Store!Remove, TypeOK
<1>2. TableOK(table') BY <1>1, WithoutKeepsTable
<1>3. QED BY <1>1, <1>2 DEF CallOK

\* A bulk call that stores: the table it leaves is overlaid with the batch.
LEMMA BecomeFacts ==
    ASSUME TypeOK, NEW t, TableOK(t), NEW b \in Seq(Offer),
           \A i \in DOMAIN b : b[i].type \in KnownTypes,
           NEW v, DOMAIN v = Ids, v = [id \in Ids |-> v[id]], Overlay(t, b, v),
           Store!Become(v)
    PROVE  CallOK /\ reply' = "ok" /\ Overlay(t, b, table')
<1>1. table' = v /\ reply' = "ok" /\ clock' \in Nat BY DEF Store!Become, TypeOK
<1>2. TableOK(v) BY OverlayKeepsTable
<1>3. QED BY <1>1, <1>2 DEF CallOK

\* BulkCreate, BulkUpdate and BulkCreateOrUpdate.
LEMMA BulkStoreFacts ==
    ASSUME TypeOK, TableOK(table), NEW b \in Seq(Offer),
           \A i \in DOMAIN b : b[i].type \in KnownTypes,
           Store!BulkCreate(b) \/ Store!BulkUpdate(b) \/ Store!BulkCreateOrUpdate(b)
    PROVE  CallOK /\ (reply' = "ok" => Overlay(table, b, table'))
<1>1. clock \in Nat /\ table \in Table BY DEF TypeOK, TableOK
<1>2. \A id \in BatchIds(b) : id \in Ids BY BatchIdsFinite
<1>3. CASE \E r \in {"invalid", "exists", "missing"} : Store!Refuse(r)
  BY <1>3, RefuseFacts
<1>4. CASE b = <<>> /\ Store!Refuse("ok")
  <2>1. BatchIds(b) = {} BY <1>4 DEF BatchIds
  <2>2. table' = table /\ CallOK BY <1>4, RefuseFacts
  <2>3. QED BY <2>1, <2>2 DEF Overlay
<1>5. CASE Store!Become(Store!Overlaid(table, b, LAMBDA id : clock))
  <2> DEFINE v == [id \in Ids |-> IF id \in BatchIds(b)
                                  THEN Stamped(Store!Last(b, id), clock, clock)
                                  ELSE table[id]]
  <2>1. Store!Become(v) BY <1>5 DEF Store!Overlaid, Store!BatchIds, BatchIds, Store!Stamped, Stamped
  <2>2. Overlay(table, b, v) BY <1>1 DEF Overlay
  <2>3. DOMAIN v = Ids /\ v = [id \in Ids |-> v[id]] OBVIOUS
  <2> HIDE DEF v
  <2>4. QED BY <2>1, <2>2, <2>3, BecomeFacts
<1>6. CASE /\ \A id \in BatchIds(b) : Store!Present(id)
           /\ Store!Become(Store!Overlaid(table, b, Store!OldCreated))
  <2> DEFINE v == [id \in Ids |-> IF id \in BatchIds(b)
                                  THEN Stamped(Store!Last(b, id), table[id].created, clock)
                                  ELSE table[id]]
  <2>1. Store!Become(v)
    BY <1>6
    DEF Store!Overlaid, Store!OldCreated, Store!BatchIds, BatchIds, Store!Stamped, Stamped
  <2>2. \A id \in BatchIds(b) : table[id].created \in Nat
    BY <1>1, <1>2, <1>6, HeldOffer DEF Store!Present, Held, Offer
  <2>3. Overlay(table, b, v) BY <1>1, <2>2 DEF Overlay
  <2>4. DOMAIN v = Ids /\ v = [id \in Ids |-> v[id]] OBVIOUS
  <2> HIDE DEF v
  <2>5. QED BY <2>1, <2>3, <2>4, BecomeFacts
<1>7. CASE Store!Become(Store!Overlaid(table, b, LAMBDA id : Store!UpsertCreated(b, id)))
  <2> DEFINE v == [id \in Ids |-> IF id \in BatchIds(b)
                     THEN Stamped(Store!Last(b, id), Store!UpsertCreated(b, id), clock)
                     ELSE table[id]]
  <2>1. Store!Become(v) BY <1>7 DEF Store!Overlaid, Store!BatchIds, BatchIds, Store!Stamped, Stamped
  <2>2. ASSUME NEW id \in BatchIds(b) PROVE Store!UpsertCreated(b, id) \in Nat
    <3>1. id \in Ids BY <1>2
    <3>2. CASE Store!Present(id)
      <4>1. id \in Held(table) BY <3>1, <3>2 DEF Store!Present, Held
      <4>2. table[id].created \in Nat BY <1>1, <4>1, HeldOffer DEF Offer
      <4>3. QED BY <3>2, <4>2 DEF Store!UpsertCreated, Store!OldCreated
    <3>3. CASE ~Store!Present(id)
      <4>1. PICK i \in DOMAIN b : Store!First(b, id) = b[i] BY FirstAndLast
      <4>2. b[i] \in Offer BY LenProperties, ElementOfSeq
      <4>3. b[i].created \in Nat BY <4>2 DEF Offer
      <4>4. QED BY <1>1, <3>3, <4>1, <4>3 DEF Store!UpsertCreated, Store!CreatedOr
    <3>4. QED BY <3>2, <3>3
  <2>3. Overlay(table, b, v) BY <1>1, <2>2 DEF Overlay
  <2>4. DOMAIN v = Ids /\ v = [id \in Ids |-> v[id]] OBVIOUS
  <2> HIDE DEF v
  <2>5. QED BY <2>1, <2>3, <2>4, BecomeFacts
<1>8. QED
  BY <1>3, <1>4, <1>5, <1>6, <1>7
     DEF Store!BulkCreate, Store!BulkUpdate, Store!BulkCreateOrUpdate, Store!BatchIds, BatchIds

\* BulkOverwrite: the batch over what the filter left.
LEMMA OverwriteFacts ==
    ASSUME TypeOK, TableOK(table), NEW b \in Seq(Offer), NEW f,
           \A i \in DOMAIN b : b[i].type \in KnownTypes, Store!BulkOverwrite(b, f)
    PROVE  /\ CallOK /\ reply' \in {"ok", "invalid"}
           /\ reply' = "ok" =>
                 Overlay(Store!Without(table, OffersToDelete(table, f)), b, table')
<1> DEFINE t == Store!Without(table, OffersToDelete(table, f))
<1>1. TableOK(t) BY WithoutKeepsTable
<1>2. CASE Store!Refuse("invalid") BY <1>2, RefuseFacts
<1>3. CASE Store!Become(Store!Overlaid(t, b, LAMBDA id : CreatedOr(Store!Last(b, id), clock)))
  <2> HIDE DEF t
  <2> DEFINE v == [id \in Ids |-> IF id \in BatchIds(b)
                     THEN Stamped(Store!Last(b, id), CreatedOr(Store!Last(b, id), clock), clock)
                     ELSE t[id]]
  <2>1. Store!Become(v)
    BY <1>3
    DEF Store!Overlaid, Store!BatchIds, BatchIds, Store!Stamped, Stamped, Store!CreatedOr,
        CreatedOr
  <2>2. ASSUME NEW id \in BatchIds(b) PROVE CreatedOr(Store!Last(b, id), clock) \in Nat
    <3>1. PICK i \in DOMAIN b : Store!Last(b, id) = b[i] BY FirstAndLast
    <3>2. b[i] \in Offer BY LenProperties, ElementOfSeq
    <3>3. b[i].created \in Nat /\ clock \in Nat BY <3>2 DEF Offer, TypeOK
    <3>4. QED BY <3>1, <3>3 DEF CreatedOr
  <2>3. Overlay(t, b, v) BY <2>2 DEF Overlay, TypeOK
  <2>4. DOMAIN v = Ids /\ v = [id \in Ids |-> v[id]] OBVIOUS
  <2> HIDE DEF v
  <2>5. CallOK /\ reply' = "ok" /\ Overlay(t, b, table') BY <1>1, <2>1, <2>3, <2>4, BecomeFacts
  <2>6. QED BY <2>5 DEF t
<1>4. QED
  BY <1>2, <1>3
     DEF Store!BulkOverwrite, Store!OffersToDelete, OffersToDelete,
         Store!MatchesOverwriteFilter, MatchesOverwriteFilter, Store!CreatedOr, CreatedOr

-----------------------------------------------------------------------------
\* What is sent for an offer, and for a batch.
Sending(r, o) == IF r.direct THEN o ELSE ToProto(o)
SendingBatch(r) == [i \in DOMAIN r.batch |-> Sending(r, r.batch[i])]

\* It is an offer with the same ID and type.
LEMMA SendingFacts ==
    ASSUME NEW r, NEW o \in Offer
    PROVE  Sending(r, o) \in Offer /\ Sending(r, o).id = o.id /\ Sending(r, o).type = o.type
BY ToProtoFacts DEF Sending

\* It is a batch with the same IDs in the same places.
LEMMA SendingBatchFacts ==
    ASSUME NEW r, r.batch \in Seq(Offer)
    PROVE  /\ SendingBatch(r) \in Seq(Offer) /\ DOMAIN SendingBatch(r) = DOMAIN r.batch
           /\ \A i \in DOMAIN r.batch :
                 /\ r.batch[i] \in Offer /\ SendingBatch(r)[i] = Sending(r, r.batch[i])
                 /\ SendingBatch(r)[i].id = r.batch[i].id
                 /\ SendingBatch(r)[i].type = r.batch[i].type
           /\ BatchIds(SendingBatch(r)) = BatchIds(r.batch)
<1>1. DOMAIN r.batch = 1..Len(r.batch) /\ Len(r.batch) \in Nat
      /\ \A i \in DOMAIN r.batch : r.batch[i] \in Offer
  BY LenProperties, ElementOfSeq
<1>2. \A i \in DOMAIN r.batch :
         /\ SendingBatch(r)[i] = Sending(r, r.batch[i])
         /\ SendingBatch(r)[i] \in Offer
         /\ SendingBatch(r)[i].id = r.batch[i].id
         /\ SendingBatch(r)[i].type = r.batch[i].type
  BY <1>1, SendingFacts DEF SendingBatch
<1>3. DOMAIN SendingBatch(r) = DOMAIN r.batch BY DEF SendingBatch
<1>4. SendingBatch(r) \in Seq(Offer)
  <2>1. SendingBatch(r) \in [1..Len(r.batch) -> Offer] BY <1>1, <1>2 DEF SendingBatch
  <2>2. QED BY <1>1, <2>1, SeqDef
<1>5. BatchIds(SendingBatch(r)) = BatchIds(r.batch) BY <1>2, <1>3 DEF BatchIds
<1>6. QED BY <1>1, <1>2, <1>3, <1>4, <1>5

\* A stored offer is the one its client gave, the timestamps and, for GRPCClient's
\* callers, the source aside.
LEMMA SameSent ==
    ASSUME NEW r, NEW o \in Offer, NEW c \in Nat, NEW u \in Nat
    PROVE  Same(r, Stamped(Sending(r, o), c, u), o)
<1> DEFINE s == Stamped(Sending(r, o), c, u)
<1>1. s \in Offer /\ s.created = c /\ s.updated = u /\ s # None
  <2>1. s \in Offer /\ s.created = c /\ s.updated = u BY SendingFacts, StampedFacts
  <2> HIDE DEF s
  <2>2. QED BY <2>1, NoneAssumption
<1>2. Kept(r, s) = Stamped(Kept(r, o), c, u)
  <2>1. CASE r.direct BY <2>1 DEF Kept, Sending
  <2>2. CASE ~r.direct
    <3>1. Returned(Stamped(ToProto(o), c, u)) = Stamped(Returned(o), c, u)
      BY DEF Returned, Stamped, ToProto, Offer
    <3>2. QED BY <2>2, <3>1 DEF Kept, Sending
  <2>3. QED BY <2>1, <2>2
<1> HIDE DEF s
<1>3. QED BY <1>1, <1>2 DEF Same, s

\* What a successful RPC on one offer leaves.
LEMMA LeftSingle ==
    ASSUME NEW r, r.op \in Singles, r.offer \in Offer, NEW t \in Table,
           NEW c \in Nat, NEW u \in Nat, NEW v,
           v = [t EXCEPT ![Sending(r, r.offer).id] = Stamped(Sending(r, r.offer), c, u)],
           r.changed = Diff(t, v)
    PROVE  \A id \in Ids : Left(r, id, v[id])
<1>1. r.offer.id \in Ids /\ Sending(r, r.offer).id = r.offer.id BY SendingFacts DEF Offer
<1>2. v[r.offer.id] = Stamped(Sending(r, r.offer), c, u)
      /\ \A id \in Ids \ {r.offer.id} : v[id] = t[id]
  BY <1>1 DEF Table
<1>3. Same(r, v[r.offer.id], r.offer) BY <1>2, SameSent
<1>4. \A id \in Ids \ {r.offer.id} : id \notin r.changed BY <1>2 DEF Diff
<1>5. QED BY <1>3, <1>4 DEF Left, Singles, Bulks

\* What a successful deletion leaves.
LEMMA LeftRemove ==
    ASSUME NEW r, NEW ids, NEW t \in Table,
           \/ r.op = "Delete" /\ ids = {r.id}
           \/ r.op = "BulkDelete" /\ ids = BatchIds(r.batch),
           r.changed = Diff(t, Store!Without(t, ids))
    PROVE  \A id \in Ids : Left(r, id, Store!Without(t, ids)[id])
<1> DEFINE v == Store!Without(t, ids)
<1>1. \A id \in Ids : v[id] = IF id \in ids THEN None ELSE t[id] BY DEF Store!Without
<1>2. \A id \in Ids \ ids : id \notin r.changed BY <1>1 DEF Diff
<1> HIDE DEF v
<1>3. QED BY <1>1, <1>2 DEF Left, Singles, Bulks, v

\* What a successful bulk call that stores leaves of the IDs its batch names.
LEMMA LeftOfBatch ==
    ASSUME NEW r, r.batch \in Seq(Offer), NEW t, NEW v, Overlay(t, SendingBatch(r), v),
           NEW id \in Ids, id \in BatchIds(r.batch)
    PROVE  Same(r, v[id], Store!Last(r.batch, id))
<1> DEFINE b == r.batch
           s == SendingBatch(r)
<1>1. /\ s \in Seq(Offer) /\ b \in Seq(Offer) /\ DOMAIN s = DOMAIN b
      /\ \A i \in DOMAIN b : b[i].id = s[i].id /\ b[i] \in Offer /\ s[i] = Sending(r, b[i])
      /\ id \in BatchIds(s)
  BY SendingBatchFacts
<1> HIDE DEF b, s
<1>2. PICK i \in DOMAIN b : Store!Last(b, id) = b[i] /\ Store!Last(s, id) = s[i]
  BY <1>1, LastOfSent DEF b
<1>3. PICK c \in Nat, u \in Nat : v[id] = Stamped(s[i], c, u) BY <1>1, <1>2 DEF Overlay, s
<1>4. Same(r, v[id], b[i]) BY <1>1, <1>3, SameSent
<1>5. QED BY <1>2, <1>4 DEF b

\* So it is for the bulk calls, and the others have what they had.
LEMMA LeftBulk ==
    ASSUME NEW r, r.op \in Bulks \ {"BulkDelete"}, r.batch \in Seq(Offer), NEW t, NEW v,
           Overlay(t, SendingBatch(r), v), r.changed = Diff(t, v)
    PROVE  \A id \in Ids : Left(r, id, v[id])
<1>1. \A id \in Ids : id \in BatchIds(r.batch) => Same(r, v[id], Store!Last(r.batch, id))
  BY LeftOfBatch
<1>2. \A id \in Ids : id \notin BatchIds(r.batch) => id \notin r.changed
  BY SendingBatchFacts DEF Overlay, Diff
<1>3. QED BY <1>1, <1>2 DEF Left, Singles, Bulks

\* The filter selects with its source what it selects without.
LEMMA SelectingFacts ==
    ASSUME NEW r, r.filter \in Filter \union {None}
    PROVE  /\ Selecting(r) = None <=> r.filter = None
           /\ r.filter # None =>
                 \A o : MatchesOverwriteFilter(o, Selecting(r))
                          <=> MatchesOverwriteFilter(o, r.filter)
<1>1. r.filter # None => [r.filter EXCEPT !.source = None] \in Filter BY DEF Filter
<1>2. Selecting(r) = None <=> r.filter = None
  BY <1>1, NoneAssumption DEF Selecting, ToProtoFilter
<1>3. ASSUME NEW o, r.filter # None
      PROVE  MatchesOverwriteFilter(o, Selecting(r)) <=> MatchesOverwriteFilter(o, r.filter)
  BY <1>3 DEF Selecting, ToProtoFilter, MatchesOverwriteFilter, Filter
<1>4. QED BY <1>2, <1>3

\* And for an overwrite, of which an offer that stays is one the filter spares.
LEMMA LeftOverwrite ==
    ASSUME NEW r, r.op = "BulkOverwrite", r.batch \in Seq(Offer),
           r.filter \in Filter \union {None}, NEW t \in Table, NEW v,
           Overlay(Store!Without(t, OffersToDelete(t, Selecting(r))), SendingBatch(r), v)
    PROVE  \A id \in Ids : Left(r, id, v[id])
<1> DEFINE w == Store!Without(t, OffersToDelete(t, Selecting(r)))
<1>1. \A id \in Ids : id \in BatchIds(r.batch) => Same(r, v[id], Store!Last(r.batch, id))
  BY LeftOfBatch
<1>2. ASSUME NEW id \in Ids, id \notin BatchIds(r.batch), v[id] # None
      PROVE  r.filter # None /\ ~MatchesOverwriteFilter(v[id], r.filter)
  <2>1. v[id] = w[id] BY <1>2, SendingBatchFacts DEF Overlay
  <2>2. v[id] = t[id] /\ id \notin OffersToDelete(t, Selecting(r))
    BY <1>2, <2>1 DEF Store!Without
  <2>3. Selecting(r) # None /\ ~MatchesOverwriteFilter(t[id], Selecting(r))
    BY <1>2, <2>2 DEF OffersToDelete
  <2>4. QED BY <2>2, <2>3, SelectingFacts
<1>3. QED BY <1>1, <1>2 DEF Left, Singles, Bulks

-----------------------------------------------------------------------------
\* What an RPC in progress sends is what its client asked for.
LEMMA AskedFacts ==
    ASSUME IInv, NEW h \in Handlers, rpc[h].at \in {"open", "checked"}
    PROVE  /\ rpc[h] \in Rpc /\ rpc[h].changed = {} /\ ~rpc[h].failures /\ Asked(rpc[h])
           /\ rpc[h].op \in Singles =>
                 /\ rpc[h].offer \in Offer
                 /\ Sent(h, rpc[h].offer) = Sending(rpc[h], rpc[h].offer)
                 /\ Sent(h, rpc[h].offer) \in Offer
                 /\ Sent(h, rpc[h].offer).id = rpc[h].offer.id
                 /\ Sent(h, rpc[h].offer).type \in KnownTypes
           /\ rpc[h].batch \in Seq(Offer)
           /\ SentBatch(h) = SendingBatch(rpc[h]) /\ SentBatch(h) \in Seq(Offer)
           /\ rpc[h].op \notin Singles \union {"Delete", "BulkDelete"} =>
                 \A i \in DOMAIN SentBatch(h) : SentBatch(h)[i].type \in KnownTypes
           /\ SentFilter(h) = Selecting(rpc[h])
           /\ rpc[h].filter \in Filter \union {None}
<1> DEFINE r == rpc[h]
<1>1. r \in Rpc /\ r.changed = {} /\ ~r.failures /\ Asked(r)
  BY DEF IInv, TypeOK, RpcOK
<1>2. r.batch \in Seq(Offer) /\ r.filter \in Filter \union {None}
  BY <1>1, CallAssumption, EmptySeq DEF Rpc
<1>3. /\ \A o : Sent(h, o) = Sending(r, o)
      /\ SentBatch(h) = SendingBatch(r) /\ SentFilter(h) = Selecting(r)
  BY DEF Sent, SentBatch, SentFilter, Sending, SendingBatch, Selecting
<1> HIDE DEF r
<1>4. ASSUME r.op \in Singles
      PROVE  /\ r.offer \in Offer /\ Sending(r, r.offer) \in Offer
             /\ Sending(r, r.offer).id = r.offer.id
             /\ Sending(r, r.offer).type \in KnownTypes
  <2>1. r.offer \in Offer /\ r.offer.type \in KnownTypes
    BY <1>1, <1>4, CallAssumption, WireAssumption DEF Asked, Convertible
  <2>2. QED BY <2>1, SendingFacts
<1>5. ASSUME r.op \notin Singles \union {"Delete", "BulkDelete"}
      PROVE  \A i \in DOMAIN SendingBatch(r) : SendingBatch(r)[i].type \in KnownTypes
  BY <1>1, <1>2, <1>5, SendingBatchFacts DEF Asked, Convertible
<1>6. QED BY <1>1, <1>2, <1>3, <1>4, <1>5, SendingBatchFacts DEF r

\* Another RPC's step keeps what is said of an RPC, by what Witness notes of it.
LEMMA WitnessKeeps ==
    ASSUME IInv, TableOK(table'), NEW g \in Handlers, rpc'[g] = Witness(rpc[g])
    PROVE  rpc'[g] \in Rpc /\ RpcOK(rpc'[g], table')
<1> DEFINE r == rpc[g]
           w == rpc'[g]
<1>1. r \in Rpc /\ RpcOK(r, table) BY DEF IInv, TypeOK
<1>2. Changed \subseteq Ids BY DEF Changed
<1>3. CASE r.at = "checked"
  <2>1. w = [r EXCEPT !.raced = @ \/ Changed \cap Cared(r) # {}] BY <1>3 DEF Witness
  <2>2. w \in Rpc BY <1>1, <2>1 DEF Rpc
  <2>3. /\ w.at = "checked" /\ w.op = r.op /\ w.offer = r.offer /\ w.id = r.id
        /\ w.batch = r.batch /\ w.filter = r.filter /\ w.direct = r.direct
        /\ w.seen = r.seen /\ w.changed = r.changed /\ w.failures = r.failures
        /\ w.raced <=> r.raced \/ Changed \cap Cared(r) # {}
    BY <1>1, <1>3, <2>1 DEF Rpc
  <2>4. Asked(w) /\ w.changed = {} /\ ~w.failures BY <1>1, <1>3, <2>3 DEF RpcOK, Asked
  <2>5. SeenOK(w, table')
    <3>1. SUFFICES ASSUME ~w.raced
                   PROVE  /\ w.op = "CreateOrUpdate" =>
                                w.seen = IF table'[w.offer.id] = None THEN 0 ELSE 1
                          /\ w.op = "BulkOverwrite" =>
                                w.seen = Cardinality(OffersToDelete(table', Selecting(w)))
      BY DEF SeenOK
    <3>2. ~r.raced /\ Changed \cap Cared(r) = {} BY <2>3, <3>1
    <3>3. CASE r.op = "CreateOrUpdate"
      <4>1. r.offer.id \in Ids BY <1>3, <3>3, AskedFacts DEF Singles, Offer
      <4>2. table'[r.offer.id] = table[r.offer.id]
        BY <3>2, <3>3, <4>1 DEF Changed, Cared
      <4>3. QED BY <1>1, <1>3, <2>3, <3>2, <3>3, <4>2 DEF RpcOK, SeenOK
    <3>4. CASE r.op = "BulkOverwrite"
      <4>1. \A id \in Ids : table'[id] = table[id]
        BY <3>2, <3>4 DEF Changed, Cared
      <4>2. table' = table BY <4>1 DEF IInv, TableOK, Table
      <4>3. Selecting(w) = Selecting(r) BY <2>3 DEF Selecting
      <4>4. QED BY <1>1, <1>3, <2>3, <3>2, <3>4, <4>2, <4>3 DEF RpcOK, SeenOK
    <3>5. CASE r.op \notin {"CreateOrUpdate", "BulkOverwrite"} BY <2>3, <3>5
    <3>6. QED BY <3>3, <3>4, <3>5
  <2>6. QED BY <2>2, <2>3, <2>4, <2>5 DEF RpcOK
<1>4. CASE r.at = "done"
  <2>1. w = [r EXCEPT !.overtaken = @ \union Changed] BY <1>4 DEF Witness
  <2>2. w \in Rpc BY <1>1, <1>2, <2>1 DEF Rpc
  <2>3. /\ w.at = "done" /\ w.op = r.op /\ w.offer = r.offer /\ w.id = r.id
        /\ w.batch = r.batch /\ w.filter = r.filter /\ w.direct = r.direct
        /\ w.changed = r.changed /\ w.raced = r.raced /\ w.code = r.code
        /\ w.failures = r.failures /\ w.deleted = r.deleted /\ w.removed = r.removed
        /\ w.overtaken = r.overtaken \union Changed
    BY <1>1, <1>4, <2>1 DEF Rpc
  <2>4. \A id, s : Left(w, id, s) <=> Left(r, id, s) BY <2>3 DEF Left, Same, Kept
  <2>5. \A id \in Ids \ w.overtaken : id \in Ids \ r.overtaken /\ table'[id] = table[id]
    BY <2>3 DEF Changed
  <2>6. AnswerOK(r, table) BY <1>1, <1>4 DEF RpcOK
  <2>7. Failed(w) <=> Failed(r) BY <2>3 DEF Failed
  <2>8. AnswerOK(w, table') BY <2>3, <2>4, <2>5, <2>6, <2>7 DEF AnswerOK
  <2>9. QED BY <2>2, <2>3, <2>8 DEF RpcOK, SeenOK
<1>5. CASE r.at \notin {"checked", "done"}
  <2>1. w = r BY <1>5 DEF Witness
  <2>2. QED BY <1>1, <1>5, <2>1 DEF RpcOK, SeenOK
<1>6. QED BY <1>3, <1>4, <1>5

\* So a step of an RPC keeps the invariant if it does so for that RPC.
LEMMA OwnStepKeeps ==
    ASSUME IInv, NEW h \in Handlers, NEW r, Step(h, r), TableOK(table'), clock' \in Nat,
           reply' \in {"none", "ok", "invalid", "exists", "missing"},
           NEW w, w = [r EXCEPT !.changed = @ \union Changed], w \in Rpc, RpcOK(w, table')
    PROVE  IInv'
<1>1. \A g \in Handlers : rpc'[g] = IF g = h THEN w ELSE Witness(rpc[g]) BY DEF Step
<1>2. ASSUME NEW g \in Handlers PROVE rpc'[g] \in Rpc /\ RpcOK(rpc'[g], table')
  <2>1. CASE g = h BY <1>1, <2>1
  <2>2. CASE g # h BY <1>1, <2>2, WitnessKeeps
  <2>3. QED BY <2>1, <2>2
<1>3. rpc' \in [Handlers -> Rpc] BY <1>2 DEF Step
<1>4. TypeOK' BY <1>3 DEF TypeOK, TableOK
<1>5. QED BY <1>2, <1>4 DEF IInv

-----------------------------------------------------------------------------
\* The same request.
Alike(q, r) ==
    /\ q.op = r.op /\ q.direct = r.direct /\ q.offer = r.offer
    /\ q.id = r.id /\ q.batch = r.batch /\ q.filter = r.filter

\* An RPC whose last store call was CallOK answers truly if its answer fits that
\* call's, and what the call left is what the RPC promised.
LEMMA AnswerKeeps ==
    ASSUME IInv, NEW h \in Handlers, rpc[h].at \in {"open", "checked"}, CallOK,
           NEW q \in Rpc, Step(h, q), Alike(q, rpc[h]), q.at = "done", q.changed = {},
           reply' # "ok" => Failed(q), reply' = "ok" => ~Failed(q),
           reply' = "ok" => \A w : Alike(w, rpc[h]) /\ w.changed = Diff(table, table')
                                     => \A id \in Ids : Left(w, id, table'[id]),
           q.op = "CreateOrUpdate" /\ q.code \in {"AlreadyExists", "NotFound"} => q.raced,
           q.op = "BulkOverwrite" /\ q.code = "OK" /\ q.filter # None /\ ~q.raced
              => q.deleted = q.removed
    PROVE  IInv'
<1> DEFINE w == [q EXCEPT !.changed = @ \union Changed]
<1>1. Changed = Diff(table, table') /\ Changed \subseteq Ids BY DEF Changed, Diff
<1>2. w \in Rpc BY <1>1 DEF Rpc
<1>3. /\ w.at = "done" /\ w.op = q.op /\ w.direct = q.direct /\ w.offer = q.offer
      /\ w.id = q.id /\ w.batch = q.batch /\ w.filter = q.filter
      /\ w.code = q.code /\ w.failures = q.failures /\ w.raced = q.raced
      /\ w.deleted = q.deleted /\ w.removed = q.removed
      /\ w.changed = Diff(table, table')
  BY <1>1 DEF Rpc
<1>4. w = [q EXCEPT !.changed = @ \union Changed] OBVIOUS
<1> HIDE DEF w
<1>5. Alike(w, rpc[h]) BY <1>3 DEF Alike
<1>6. Failed(w) <=> Failed(q) BY <1>3 DEF Failed
<1>7. AnswerOK(w, table')
  <2>1. CASE reply' = "ok" BY <1>3, <1>5, <1>6, <2>1 DEF AnswerOK
  <2>2. CASE reply' # "ok"
    <3>1. Diff(table, table') = {} BY <2>2 DEF CallOK, Diff
    <3>2. QED BY <1>3, <1>6, <2>2, <3>1 DEF AnswerOK
  <2>3. QED BY <2>1, <2>2
<1>8. RpcOK(w, table') BY <1>3, <1>7 DEF RpcOK, SeenOK
<1>9. QED BY <1>2, <1>4, <1>8, OwnStepKeeps DEF CallOK

\* The status of a store call's answer.
LEMMA CodeFacts ==
    ASSUME NEW r \in {"ok", "invalid", "exists", "missing"}
    PROVE  /\ Code(r) \in Codes /\ (Code(r) = "OK" <=> r = "ok")
           /\ Code(r) = "AlreadyExists" <=> r = "exists"
           /\ Code(r) = "NotFound" <=> r = "missing"
BY DEF Code, Codes

\* The case of a handler that makes one store call and passes on its answer.
LEMMA RespondKeeps ==
    ASSUME IInv, NEW h \in Handlers, rpc[h].at = "open", CallOK, Respond(h),
           rpc[h].op \notin {"CreateOrUpdate", "BulkOverwrite"},
           reply' = "ok" => \A w : Alike(w, rpc[h]) /\ w.changed = Diff(table, table')
                                     => \A id \in Ids : Left(w, id, table'[id])
    PROVE  IInv'
<1> DEFINE q == [rpc[h] EXCEPT !.at = "done", !.code = Code(reply')]
<1>1. rpc[h] \in Rpc /\ rpc[h].changed = {} /\ ~rpc[h].failures BY AskedFacts
<1>2. /\ Code(reply') \in Codes /\ (Code(reply') = "OK" <=> reply' = "ok")
  BY CodeFacts DEF CallOK
<1>3. q \in Rpc BY <1>1, <1>2 DEF Rpc
<1>4. /\ Alike(q, rpc[h]) /\ q.at = "done" /\ q.changed = {} /\ q.code = Code(reply')
      /\ ~q.failures /\ q.op = rpc[h].op
  BY <1>1 DEF Rpc, Alike
<1>5. Step(h, q) BY DEF Respond
<1> HIDE DEF q
<1>6. Failed(q) <=> reply' # "ok" BY <1>2, <1>4 DEF Failed
<1>7. QED BY <1>3, <1>4, <1>5, <1>6, AnswerKeeps

\* What Put leaves of an offer is what an RPC on that offer promised.
LEMMA PutIsLeft ==
    ASSUME IInv, NEW h \in Handlers, rpc[h].at \in {"open", "checked"},
           rpc[h].op \in Singles, Put(Sent(h, rpc[h].offer)),
           NEW w, Alike(w, rpc[h]), w.changed = Diff(table, table')
    PROVE  \A id \in Ids : Left(w, id, table'[id])
<1>1. /\ rpc[h].offer \in Offer /\ Sent(h, rpc[h].offer) = Sending(rpc[h], rpc[h].offer)
  BY AskedFacts
<1>2. Sent(h, rpc[h].offer) = Sending(w, w.offer) /\ w.offer \in Offer /\ w.op \in Singles
  BY <1>1 DEF Alike, Sending
<1>3. PICK c \in Nat, u \in Nat :
         table' = [table EXCEPT ![Sending(w, w.offer).id] = Stamped(Sending(w, w.offer), c, u)]
  BY <1>2 DEF Put
<1>4. table \in Table BY DEF IInv, TableOK
<1>5. QED BY <1>2, <1>3, <1>4, LeftSingle

-----------------------------------------------------------------------------
\* The empty table is a table of known types.
LEMMA EmptyTableOK == TableOK(EmptyTable)
<1>1. EmptyTable \in Table BY DEF EmptyTable, Table
<1>2. Held(EmptyTable) = {} BY DEF EmptyTable, Held
<1>3. QED BY <1>1, <1>2, FS_EmptySet DEF TableOK

\* At the start there is no offer and no RPC.
LEMMA InitIInv == Init => IInv
<1> SUFFICES ASSUME Init PROVE IInv OBVIOUS
<1>1. table = EmptyTable /\ reply = "none" /\ clock = 1 /\ rpc = [h \in Handlers |-> NoRpc]
  BY DEF Init, Store!Init, Store!EmptyTable, EmptyTable
<1>2. TableOK(table) BY <1>1, EmptyTableOK
<1>3. NoRpc \in Rpc BY DEF NoRpc, Rpc, Ops, Codes
<1>4. RpcOK(NoRpc, table) BY DEF NoRpc, RpcOK, SeenOK
<1>5. TypeOK BY <1>1, <1>2, <1>3 DEF TypeOK, TableOK
<1>6. QED BY <1>1, <1>2, <1>4, <1>5 DEF IInv

-----------------------------------------------------------------------------
\* A new request is what its client asked for, or is refused.
LEMMA ReceiveKeeps ==
    ASSUME IInv, NEW h \in Handlers, NEW r \in Rpc, Receive(h, r),
           r.op \in Singles => r.offer \in Inputs \union Messages,
           r.op = "Delete" => r.id \in Ids,
           r.changed = {}, ~r.failures
    PROVE  IInv'
<1> DEFINE refusal == [NoRpc EXCEPT !.op = r.op, !.at = "done", !.code = "InvalidArgument"]
           opened == [r EXCEPT !.at = "open"]
           offers == IF r.op \in Singles THEN {r.offer}
                     ELSE {r.batch[i] : i \in DOMAIN r.batch}
           refused == \/ r.op \in Bulks /\ r.batch = <<>>
                      \/ r.op = "BulkOverwrite" /\ r.batch = <<>> /\ r.filter = None
                      \/ r.op # "BulkDelete" /\ \E o \in offers : ~Convertible(o)
                      \/ r.op = "BulkOverwrite" /\ ~ConvertibleFilter(r.filter)
           q == IF refused THEN refusal ELSE opened
<1>1. table' = table /\ reply' = reply /\ clock' = clock /\ rpc' = [rpc EXCEPT ![h] = q]
  BY DEF Receive
<1>2. refusal \in Rpc /\ RpcOK(refusal, table)
  <2>1. NoRpc \in Rpc BY DEF NoRpc, Rpc, Ops, Codes
  <2>2. refusal \in Rpc BY <2>1 DEF Rpc, Codes
  <2>3. /\ refusal.op = r.op /\ refusal.at = "done" /\ refusal.code = "InvalidArgument"
        /\ refusal.changed = {}
    BY <2>1 DEF Rpc, NoRpc
  <2> HIDE DEF refusal
  <2>4. AnswerOK(refusal, table) BY <2>3 DEF AnswerOK, Failed
  <2>5. QED BY <2>2, <2>3, <2>4 DEF RpcOK, SeenOK
<1>3. ASSUME ~refused PROVE opened \in Rpc /\ RpcOK(opened, table)
  <2>1. opened \in Rpc BY DEF Rpc
  <2>2. /\ Alike(opened, r) /\ opened.at = "open" /\ opened.changed = {}
        /\ ~opened.failures
    BY DEF Rpc, Alike
  <2>3. Asked(r)
    <3>1. r.op \in Singles => Convertible(r.offer)
      BY <1>3 DEF Singles
    <3>2. r.op \notin Singles \union {"Delete", "BulkDelete"} =>
             \A i \in DOMAIN r.batch : Convertible(r.batch[i])
      BY <1>3
    <3>3. QED BY <3>1, <3>2 DEF Asked
  <2> HIDE DEF opened, refused
  <2>4. Asked(opened) BY <2>2, <2>3 DEF Asked, Alike
  <2>5. QED BY <2>1, <2>2, <2>4 DEF RpcOK, SeenOK
<1>4. q \in Rpc /\ RpcOK(q, table)
  <2> HIDE DEF refused, opened, refusal
  <2>1. CASE refused BY <1>2, <2>1
  <2>2. CASE ~refused BY <1>3, <2>2
  <2>3. QED BY <2>1, <2>2
<1> HIDE DEF q
<1>5. \A g \in Handlers : rpc'[g] = IF g = h THEN q ELSE rpc[g] BY <1>1 DEF IInv, TypeOK
<1>6. rpc' \in [Handlers -> Rpc] BY <1>1, <1>4 DEF IInv, TypeOK
<1>7. QED BY <1>1, <1>4, <1>5, <1>6 DEF IInv, TypeOK, TableOK

\* So it is for every kind of request, and whichever client sends it.
LEMMA RequestsKeep ==
    ASSUME IInv, NEW h \in Handlers, Requests(h)
    PROVE  IInv'
<1>1. NoRpc \in Rpc /\ NoRpc.changed = {} /\ ~NoRpc.failures
  BY DEF NoRpc, Rpc, Ops, Codes
<1>2. CASE \E op \in Singles, o \in Inputs : Receive(h, [NoRpc EXCEPT !.op = op, !.offer = o])
  <2>1. PICK op \in Singles, o \in Inputs : Receive(h, [NoRpc EXCEPT !.op = op, !.offer = o])
    BY <1>2
  <2> DEFINE r == [NoRpc EXCEPT !.op = op, !.offer = o]
  <2>2. /\ r \in Rpc /\ r.op = op /\ r.offer = o /\ r.changed = {} /\ ~r.failures
    BY <1>1 DEF Rpc, Ops
  <2>3. op # "Delete" BY DEF Singles
  <2> HIDE DEF r
  <2>4. QED BY <2>1, <2>2, <2>3, ReceiveKeeps DEF r
<1>3. CASE \E op \in Singles, p \in Messages :
              Receive(h, [NoRpc EXCEPT !.op = op, !.direct = TRUE, !.offer = p])
  <2>1. PICK op \in Singles, p \in Messages :
              Receive(h, [NoRpc EXCEPT !.op = op, !.direct = TRUE, !.offer = p])
    BY <1>3
  <2> DEFINE r == [NoRpc EXCEPT !.op = op, !.direct = TRUE, !.offer = p]
  <2>2. /\ r \in Rpc /\ r.op = op /\ r.offer = p /\ r.changed = {} /\ ~r.failures
    BY <1>1 DEF Rpc, Ops
  <2>3. op # "Delete" BY DEF Singles
  <2> HIDE DEF r
  <2>4. QED BY <2>1, <2>2, <2>3, ReceiveKeeps DEF r
<1>4. CASE \E op \in Bulks, b \in Batches : Receive(h, [NoRpc EXCEPT !.op = op, !.batch = b])
  <2>1. PICK op \in Bulks, b \in Batches : Receive(h, [NoRpc EXCEPT !.op = op, !.batch = b])
    BY <1>4
  <2> DEFINE r == [NoRpc EXCEPT !.op = op, !.batch = b]
  <2>2. /\ r \in Rpc /\ r.op = op /\ r.changed = {} /\ ~r.failures
    BY <1>1 DEF Rpc, Ops
  <2>3. op # "Delete" /\ op \notin Singles BY DEF Singles, Bulks
  <2> HIDE DEF r
  <2>4. QED BY <2>1, <2>2, <2>3, ReceiveKeeps DEF r
<1>5. CASE \E id \in Ids : Receive(h, [NoRpc EXCEPT !.op = "Delete", !.id = id])
  <2>1. PICK id \in Ids : Receive(h, [NoRpc EXCEPT !.op = "Delete", !.id = id])
    BY <1>5
  <2> DEFINE r == [NoRpc EXCEPT !.op = "Delete", !.id = id]
  <2>2. /\ r \in Rpc /\ r.op = "Delete" /\ r.id = id /\ r.changed = {} /\ ~r.failures
    BY <1>1 DEF Rpc, Ops
  <2>3. "Delete" \notin Singles BY DEF Singles
  <2> HIDE DEF r
  <2>4. QED BY <2>1, <2>2, <2>3, ReceiveKeeps DEF r
<1>6. CASE \E b \in Batches, f \in Filters :
              Receive(h, [NoRpc EXCEPT !.op = "BulkOverwrite", !.batch = b, !.filter = f])
  <2>1. PICK b \in Batches, f \in Filters :
              Receive(h, [NoRpc EXCEPT !.op = "BulkOverwrite", !.batch = b, !.filter = f])
    BY <1>6
  <2> DEFINE r == [NoRpc EXCEPT !.op = "BulkOverwrite", !.batch = b, !.filter = f]
  <2>2. /\ r \in Rpc /\ r.op = "BulkOverwrite" /\ r.changed = {} /\ ~r.failures
    BY <1>1 DEF Rpc, Ops
  <2>3. "BulkOverwrite" \notin Singles BY DEF Singles
  <2> HIDE DEF r
  <2>4. QED BY <2>1, <2>2, <2>3, ReceiveKeeps DEF r
<1>7. CASE \E b \in Batches :
              Receive(h, [NoRpc EXCEPT !.op = "BulkOverwrite", !.batch = b, !.direct = TRUE])
  <2>1. PICK b \in Batches :
              Receive(h, [NoRpc EXCEPT !.op = "BulkOverwrite", !.batch = b, !.direct = TRUE])
    BY <1>7
  <2> DEFINE r == [NoRpc EXCEPT !.op = "BulkOverwrite", !.batch = b, !.direct = TRUE]
  <2>2. /\ r \in Rpc /\ r.op = "BulkOverwrite" /\ r.changed = {} /\ ~r.failures
    BY <1>1 DEF Rpc, Ops
  <2>3. "BulkOverwrite" \notin Singles BY DEF Singles
  <2> HIDE DEF r
  <2>4. QED BY <2>1, <2>2, <2>3, ReceiveKeeps DEF r
<1>8. QED BY <1>2, <1>3, <1>4, <1>5, <1>6, <1>7 DEF Requests

-----------------------------------------------------------------------------
\* The handlers that make one store call: CreateMarginOffer passes on its answer.
LEMMA CreateKeeps ==
    ASSUME IInv, NEW h \in Handlers, CreateMarginOffer(h)
    PROVE  IInv'
<1> DEFINE o == Sent(h, rpc[h].offer)
<1>1. At(h, "Create", "open") /\ Store!Create(o) /\ Respond(h) BY DEF CreateMarginOffer
<1>2. rpc[h].op = "Create" /\ rpc[h].at = "open" BY <1>1 DEF At
<1>3. rpc[h].op \in Singles BY <1>2 DEF Singles
<1>4. o \in Offer /\ o.type \in KnownTypes BY <1>2, <1>3, AskedFacts
<1> HIDE DEF o
<1>5. CallOK /\ (reply' = "ok" => Put(o)) BY <1>1, <1>4, CreateFacts DEF IInv
<1>6. QED BY <1>1, <1>2, <1>3, <1>5, PutIsLeft, RespondKeeps DEF o

\* UpdateMarginOffer does so.
LEMMA UpdateKeeps ==
    ASSUME IInv, NEW h \in Handlers, UpdateMarginOffer(h)
    PROVE  IInv'
<1> DEFINE o == Sent(h, rpc[h].offer)
<1>1. At(h, "Update", "open") /\ Store!Update(o) /\ Respond(h) BY DEF UpdateMarginOffer
<1>2. rpc[h].op = "Update" /\ rpc[h].at = "open" BY <1>1 DEF At
<1>3. rpc[h].op \in Singles BY <1>2 DEF Singles
<1>4. o \in Offer /\ o.type \in KnownTypes BY <1>2, <1>3, AskedFacts
<1> HIDE DEF o
<1>5. CallOK /\ (reply' = "ok" => Put(o)) BY <1>1, <1>4, UpdateFacts DEF IInv
<1>6. QED BY <1>1, <1>2, <1>3, <1>5, PutIsLeft, RespondKeeps DEF o

\* DeleteMarginOffer does so.
LEMMA DeleteKeeps ==
    ASSUME IInv, NEW h \in Handlers, DeleteMarginOffer(h)
    PROVE  IInv'
<1> DEFINE id == rpc[h].id
<1>1. At(h, "Delete", "open") /\ Store!Delete(id) /\ Respond(h) BY DEF DeleteMarginOffer
<1>2. rpc[h].op = "Delete" /\ rpc[h].at = "open" BY <1>1 DEF At
<1>3. \/ Store!Refuse("missing") \/ Store!Remove({id}) BY <1>1 DEF Store!Delete
<1>4. CallOK /\ (reply' = "ok" => table' = Store!Without(table, {id}))
  BY <1>3, RefuseFacts, RemoveFacts DEF IInv
<1>5. ASSUME reply' = "ok", NEW w, Alike(w, rpc[h]), w.changed = Diff(table, table')
      PROVE  \A i \in Ids : Left(w, i, table'[i])
  <2>1. w.op = "Delete" /\ {id} = {w.id} BY <1>2, <1>5 DEF Alike
  <2>2. table \in Table BY DEF IInv, TableOK
  <2> HIDE DEF id
  <2>3. QED BY <1>4, <1>5, <2>1, <2>2, LeftRemove
<1>6. QED BY <1>1, <1>2, <1>4, <1>5, RespondKeeps

\* The bulk handlers, which answer with a count of failures.
LEMMA BulkKeeps ==
    ASSUME IInv, NEW h \in Handlers, BulkMarginOffers(h)
    PROVE  IInv'
<1> DEFINE b == SentBatch(h)
           q == [rpc[h] EXCEPT !.at = "done", !.code = "OK", !.failures = reply' # "ok"]
<1>1. /\ rpc[h].at = "open" /\ Step(h, q)
      /\ \/ rpc[h].op = "BulkDelete" /\ Store!BulkDelete(b)
         \/ /\ rpc[h].op \in {"BulkCreate", "BulkUpdate", "BulkCreateOrUpdate"}
            /\ Store!BulkCreate(b) \/ Store!BulkUpdate(b) \/ Store!BulkCreateOrUpdate(b)
  BY DEF BulkMarginOffers, BulkRespond
<1>2. /\ rpc[h] \in Rpc /\ rpc[h].changed = {} /\ b = SendingBatch(rpc[h])
      /\ b \in Seq(Offer) /\ rpc[h].batch \in Seq(Offer)
      /\ rpc[h].op \notin Singles \union {"Delete", "BulkDelete"} =>
            \A i \in DOMAIN b : b[i].type \in KnownTypes
  BY <1>1, AskedFacts
<1>3. q \in Rpc BY <1>2 DEF Rpc, Codes
<1>4. /\ Alike(q, rpc[h]) /\ q.at = "done" /\ q.changed = {} /\ q.code = "OK"
      /\ q.failures <=> reply' # "ok"
      /\ q.op = rpc[h].op
  BY <1>2 DEF Rpc, Alike
<1> HIDE DEF b, q
<1>5. TypeOK /\ TableOK(table) /\ table \in Table BY DEF IInv, TableOK
<1>6. CallOK /\ (reply' = "ok" => \A w : Alike(w, rpc[h]) /\ w.changed = Diff(table, table')
                                     => \A id \in Ids : Left(w, id, table'[id]))
  <2>1. CASE rpc[h].op = "BulkDelete" /\ Store!BulkDelete(b)
    <3>1. \/ Store!Refuse("missing") \/ Store!Remove(BatchIds(b))
      BY <2>1 DEF Store!BulkDelete, Store!BatchIds, BatchIds
    <3>2. CallOK /\ (reply' = "ok" => table' = Store!Without(table, BatchIds(b)))
      BY <1>5, <3>1, RefuseFacts, RemoveFacts
    <3>3. BatchIds(b) = BatchIds(rpc[h].batch) BY <1>2, SendingBatchFacts
    <3>4. ASSUME reply' = "ok", NEW w, Alike(w, rpc[h]), w.changed = Diff(table, table')
          PROVE  \A id \in Ids : Left(w, id, table'[id])
      <4>1. w.op = "BulkDelete" /\ BatchIds(b) = BatchIds(w.batch)
        BY <2>1, <3>3, <3>4 DEF Alike
      <4>2. QED BY <1>5, <3>2, <3>4, <4>1, LeftRemove
    <3>5. QED BY <3>2, <3>4
  <2>2. CASE /\ rpc[h].op \in {"BulkCreate", "BulkUpdate", "BulkCreateOrUpdate"}
             /\ Store!BulkCreate(b) \/ Store!BulkUpdate(b) \/ Store!BulkCreateOrUpdate(b)
    <3>1. rpc[h].op \in Bulks \ {"BulkDelete"}
          /\ rpc[h].op \notin Singles \union {"Delete", "BulkDelete"}
      BY <2>2 DEF Bulks, Singles
    <3>2. CallOK /\ (reply' = "ok" => Overlay(table, b, table'))
      BY <1>2, <1>5, <2>2, <3>1, BulkStoreFacts
    <3>3. ASSUME reply' = "ok", NEW w, Alike(w, rpc[h]), w.changed = Diff(table, table')
          PROVE  \A id \in Ids : Left(w, id, table'[id])
      <4>1. /\ w.op \in Bulks \ {"BulkDelete"} /\ w.batch \in Seq(Offer)
            /\ b = SendingBatch(w)
        BY <1>2, <3>1, <3>3 DEF Alike, SendingBatch, Sending
      <4>2. QED BY <3>2, <3>3, <4>1, LeftBulk
    <3>4. QED BY <3>2, <3>3
  <2>3. QED BY <1>1, <2>1, <2>2
<1>7. Failed(q) <=> reply' # "ok" BY <1>4 DEF Failed
<1>8. q.op \notin {"CreateOrUpdate", "BulkOverwrite"} BY <1>1, <1>4
<1>9. Step(h, q) BY <1>1
<1>10. QED BY <1>1, <1>3, <1>4, <1>6, <1>7, <1>8, <1>9, AnswerKeeps

-----------------------------------------------------------------------------
\* The first of two store calls, which reads.
LEMMA ReadKeeps ==
    ASSUME IInv, NEW h \in Handlers, rpc[h].at = "open", NEW seen \in Nat, Read(h, seen),
           rpc[h].op = "CreateOrUpdate" =>
              seen = IF table[rpc[h].offer.id] = None THEN 0 ELSE 1,
           rpc[h].op = "BulkOverwrite" =>
              seen = Cardinality(OffersToDelete(table, Selecting(rpc[h])))
    PROVE  IInv'
<1> DEFINE q == [rpc[h] EXCEPT !.at = "checked", !.seen = seen]
           w == [q EXCEPT !.changed = @ \union Changed]
<1>1. table' = table /\ reply' = reply /\ clock' = clock /\ Step(h, q) BY DEF Read
<1>2. rpc[h] \in Rpc /\ rpc[h].changed = {} /\ ~rpc[h].failures /\ Asked(rpc[h])
  BY AskedFacts
<1>3. Changed = {} BY <1>1 DEF Changed
<1>4. w \in Rpc BY <1>2, <1>3 DEF Rpc
<1>5. /\ w.at = "checked" /\ Alike(w, rpc[h]) /\ w.seen = seen /\ w.changed = {}
      /\ ~w.failures
  BY <1>2, <1>3 DEF Rpc, Alike
<1>6. w = [q EXCEPT !.changed = @ \union Changed] OBVIOUS
<1> HIDE DEF w, q
<1>7. Asked(w) BY <1>2, <1>5 DEF Asked, Alike
<1>8. SeenOK(w, table) BY <1>5 DEF SeenOK, Alike, Selecting
<1>9. RpcOK(w, table') BY <1>1, <1>5, <1>7, <1>8 DEF RpcOK
<1>10. QED BY <1>1, <1>4, <1>6, <1>9, OwnStepKeeps DEF IInv, TypeOK

\* CreateOrUpdateMarginOffer's GetByID notes whether the offer is there.
LEMMA LookupKeeps ==
    ASSUME IInv, NEW h \in Handlers, UpsertLookup(h)
    PROVE  IInv'
<1>1. rpc[h].op = "CreateOrUpdate" /\ rpc[h].at = "open" BY DEF UpsertLookup, At
<1>2. CASE Store!Present(rpc[h].offer.id) /\ Read(h, 1)
  BY <1>1, <1>2, ReadKeeps DEF Store!Present
<1>3. CASE ~Store!Present(rpc[h].offer.id) /\ Read(h, 0)
  BY <1>1, <1>3, ReadKeeps DEF Store!Present
<1>4. QED BY <1>2, <1>3 DEF UpsertLookup

\* What a filter selects of a table is a finite number.
LEMMA StatsCount ==
    ASSUME NEW t, TableOK(t), NEW f
    PROVE  Cardinality(OffersToDelete(t, f)) \in Nat
<1>1. OffersToDelete(t, f) \subseteq Held(t) BY DEF OffersToDelete, Held
<1>2. QED BY <1>1, FS_Subset, FS_CardinalityType DEF TableOK

\* BulkOverwriteMarginOffers' GetOverwriteStats notes how many offers are to go.
LEMMA StatsKeep ==
    ASSUME IInv, NEW h \in Handlers, OverwriteStats(h)
    PROVE  IInv'
<1> DEFINE n == Cardinality(OffersToDelete(table, SentFilter(h)))
<1>1. rpc[h].op = "BulkOverwrite" /\ rpc[h].at = "open" /\ Read(h, n)
  BY DEF OverwriteStats, At
<1>2. n \in Nat BY StatsCount DEF IInv
<1>3. SentFilter(h) = Selecting(rpc[h]) BY <1>1, AskedFacts
<1>4. n = Cardinality(OffersToDelete(table, Selecting(rpc[h]))) BY <1>3
<1> HIDE DEF n
<1>5. QED BY <1>1, <1>2, <1>4, ReadKeeps

\* The second store call of an upsert: refused for what the lookup did not see
\* only if another RPC came between.
LEMMA UpsertStoreKeeps ==
    ASSUME IInv, NEW h \in Handlers, UpsertStore(h)
    PROVE  IInv'
<1> DEFINE r == rpc[h]
           o == Sent(h, r.offer)
           q == [r EXCEPT !.at = "done", !.code = Code(reply'),
                          !.created = r.seen = 0 /\ reply' = "ok"]
<1>1. /\ r.op = "CreateOrUpdate" /\ r.at = "checked" /\ Step(h, q)
      /\ \/ r.seen = 0 /\ Store!Create(o)
         \/ r.seen = 1 /\ Store!Update(o)
  BY DEF UpsertStore, At
<1>2. r.op \in Singles BY <1>1 DEF Singles
<1>3. /\ r \in Rpc /\ r.changed = {} /\ ~r.failures /\ r.offer \in Offer
      /\ o \in Offer /\ o.id = r.offer.id /\ o.type \in KnownTypes
  BY <1>1, <1>2, AskedFacts
<1>4. SeenOK(r, table) BY DEF IInv, RpcOK
<1>5. /\ CallOK /\ (reply' = "ok" => Put(o))
      /\ reply' = "exists" => r.seen = 0 /\ table[r.offer.id] # None
      /\ reply' = "missing" => r.seen = 1 /\ table[r.offer.id] = None
  <2> HIDE DEF o
  <2>1. CASE r.seen = 0 /\ Store!Create(o) BY <1>3, <2>1, CreateFacts DEF IInv
  <2>2. CASE r.seen = 1 /\ Store!Update(o) BY <1>3, <2>2, UpdateFacts DEF IInv
  <2>3. QED BY <1>1, <2>1, <2>2
<1>6. reply' \in {"exists", "missing"} => r.raced
  BY <1>1, <1>4, <1>5 DEF SeenOK
<1>7. /\ Code(reply') \in Codes /\ (Code(reply') = "OK" <=> reply' = "ok")
      /\ Code(reply') \in {"AlreadyExists", "NotFound"} => reply' \in {"exists", "missing"}
  BY <1>5, CodeFacts DEF CallOK
<1>8. q \in Rpc BY <1>3, <1>7 DEF Rpc
<1>9. /\ Alike(q, r) /\ q.at = "done" /\ q.changed = {} /\ q.code = Code(reply')
      /\ ~q.failures /\ q.op = r.op /\ q.raced = r.raced
  BY <1>3 DEF Rpc, Alike
<1>10. ASSUME reply' = "ok", NEW w, Alike(w, rpc[h]), w.changed = Diff(table, table')
       PROVE  \A id \in Ids : Left(w, id, table'[id])
  BY <1>1, <1>2, <1>5, <1>10, PutIsLeft
<1> HIDE DEF q
<1>11. Failed(q) <=> reply' # "ok" BY <1>7, <1>9 DEF Failed
<1>12. q.op # "BulkOverwrite" BY <1>1, <1>9
<1>13. q.op = "CreateOrUpdate" /\ q.code \in {"AlreadyExists", "NotFound"} => q.raced
  BY <1>6, <1>7, <1>9
<1>14. QED BY <1>1, <1>5, <1>8, <1>9, <1>10, <1>11, <1>12, <1>13, AnswerKeeps

\* The store call of an overwrite, the second one if it has a filter.
LEMMA OverwriteKeeps ==
    ASSUME IInv, NEW h \in Handlers, Overwrite(h)
    PROVE  IInv'
<1> DEFINE r == rpc[h]
           b == SentBatch(h)
           f == SentFilter(h)
           n == Cardinality(OffersToDelete(table, f))
           q == [r EXCEPT !.at = "done", !.code = Code(reply'),
                          !.deleted = IF reply' = "ok" THEN r.seen ELSE 0,
                          !.removed = n]
<1>1. /\ r.op = "BulkOverwrite" /\ r.at = (IF r.filter = None THEN "open" ELSE "checked")
      /\ Store!BulkOverwrite(b, f) /\ Step(h, q)
  BY DEF Overwrite, At
<1>2. r.at \in {"open", "checked"} BY <1>1
<1>3. r.op \notin Singles \union {"Delete", "BulkDelete"} BY <1>1 DEF Singles
<1>4. /\ r \in Rpc /\ r.changed = {} /\ ~r.failures
      /\ r.batch \in Seq(Offer) /\ r.filter \in Filter \union {None}
      /\ b = SendingBatch(r) /\ b \in Seq(Offer) /\ f = Selecting(r)
      /\ \A i \in DOMAIN b : b[i].type \in KnownTypes
  BY <1>2, <1>3, AskedFacts
<1>5. SeenOK(r, table) BY DEF IInv, RpcOK
<1>6. n \in Nat BY StatsCount DEF IInv
<1>7. r.filter # None /\ ~r.raced => r.seen = n
  BY <1>1, <1>4, <1>5 DEF SeenOK
<1>8. /\ CallOK /\ reply' \in {"ok", "invalid"}
      /\ reply' = "ok" => Overlay(Store!Without(table, OffersToDelete(table, f)), b, table')
  <2> HIDE DEF b, f
  <2>1. QED BY <1>1, <1>4, OverwriteFacts DEF IInv
<1>9. /\ Code(reply') \in Codes /\ (Code(reply') = "OK" <=> reply' = "ok")
      /\ Code(reply') \notin {"AlreadyExists", "NotFound"}
  BY <1>8, CodeFacts
<1> HIDE DEF b, f, n
<1>10. q \in Rpc BY <1>4, <1>6, <1>9 DEF Rpc
<1>11. /\ Alike(q, r) /\ q.at = "done" /\ q.changed = {} /\ q.code = Code(reply')
       /\ ~q.failures /\ q.op = r.op /\ q.raced = r.raced /\ q.filter = r.filter
       /\ q.removed = n
       /\ reply' = "ok" => q.deleted = r.seen
  BY <1>4 DEF Rpc, Alike
<1>12. ASSUME reply' = "ok", NEW w, Alike(w, rpc[h]), w.changed = Diff(table, table')
       PROVE  \A id \in Ids : Left(w, id, table'[id])
  <2>1. /\ w.op = "BulkOverwrite" /\ w.batch \in Seq(Offer)
        /\ w.filter \in Filter \union {None}
        /\ b = SendingBatch(w) /\ f = Selecting(w)
    BY <1>1, <1>4, <1>12 DEF Alike, SendingBatch, Sending, Selecting
  <2>2. table \in Table BY DEF IInv, TableOK
  <2>3. QED BY <1>8, <1>12, <2>1, <2>2, LeftOverwrite
<1> HIDE DEF q
<1>13. Failed(q) <=> reply' # "ok" BY <1>9, <1>11 DEF Failed
<1>14. q.op # "CreateOrUpdate" BY <1>1, <1>11
<1>15. q.op = "BulkOverwrite" /\ q.code = "OK" /\ q.filter # None /\ ~q.raced
          => q.deleted = q.removed
  BY <1>7, <1>9, <1>11
<1>16. QED BY <1>1, <1>2, <1>8, <1>10, <1>11, <1>12, <1>13, <1>14, <1>15, AnswerKeeps

\* An RPC that a restart cuts off has failed and left nothing; those that were
\* done saw their entries change.
LEMMA RestartKeeps ==
    ASSUME IInv, Restart
    PROVE  IInv'
<1>1. table' = EmptyTable /\ reply' \in {"none", reply} /\ clock' = clock
  BY DEF Restart, Store!Lose, Store!EmptyTable, EmptyTable
<1>2. TableOK(table') BY <1>1, EmptyTableOK
<1>3. \A h \in Handlers : rpc'[h] = IF rpc[h].at \in {"open", "checked"}
         THEN [rpc[h] EXCEPT !.at = "done", !.code = "Unavailable"] ELSE Witness(rpc[h])
  BY DEF Restart
<1>4. ASSUME NEW h \in Handlers PROVE rpc'[h] \in Rpc /\ RpcOK(rpc'[h], table')
  <2>1. CASE rpc[h].at \in {"open", "checked"}
    <3> DEFINE q == [rpc[h] EXCEPT !.at = "done", !.code = "Unavailable"]
    <3>1. rpc[h] \in Rpc /\ rpc[h].changed = {} BY <2>1, AskedFacts
    <3>2. q \in Rpc BY <3>1 DEF Rpc, Codes
    <3>3. q.at = "done" /\ q.code = "Unavailable" /\ q.changed = {} BY <3>1 DEF Rpc
    <3>4. rpc'[h] = q BY <1>3, <2>1
    <3> HIDE DEF q
    <3>5. AnswerOK(q, table') BY <3>3 DEF AnswerOK, Failed
    <3>6. QED BY <3>2, <3>3, <3>4, <3>5 DEF RpcOK, SeenOK
  <2>2. CASE rpc[h].at \notin {"open", "checked"} BY <1>2, <1>3, <2>2, WitnessKeeps
  <2>3. QED BY <2>1, <2>2
<1>5. rpc' \in [Handlers -> Rpc] BY <1>4 DEF Restart
<1>6. TypeOK' BY <1>1, <1>2, <1>5 DEF IInv, TypeOK, TableOK
<1>7. QED BY <1>2, <1>4, <1>6 DEF IInv

-----------------------------------------------------------------------------
\* Every step keeps the inductive invariant.
LEMMA NextKeeps == IInv /\ [Next]_vars => IInv'
<1> SUFFICES ASSUME IInv, [Next]_vars PROVE IInv' OBVIOUS
<1>1. CASE UNCHANGED vars
  BY <1>1 DEF vars, IInv, TypeOK, TableOK
<1>2. ASSUME NEW h \in Handlers,
             \/ Requests(h)
             \/ CreateMarginOffer(h) \/ UpdateMarginOffer(h) \/ DeleteMarginOffer(h)
             \/ BulkMarginOffers(h) \/ UpsertLookup(h) \/ UpsertStore(h)
             \/ OverwriteStats(h) \/ Overwrite(h)
      PROVE  IInv'
  BY <1>2, RequestsKeep, CreateKeeps, UpdateKeeps, DeleteKeeps, BulkKeeps, LookupKeeps,
     UpsertStoreKeeps, StatsKeep, OverwriteKeeps
<1>3. CASE Restart BY <1>3, RestartKeeps
<1>4. QED BY <1>1, <1>2, <1>3 DEF Next

\* IInv is an invariant: GRPCServer's handlers, whatever calls of other RPCs come
\* between their own, keep RpcOK of every RPC.
THEOREM Inductive == Spec => []IInv
<1>1. QED BY InitIInv, NextKeeps, PTL DEF Spec

\* The state has its type, and no offer is stored whose type
\* GRPCServer.protoToMarginOffer does not know.
THEOREM Typed == Spec => []GrpcInv
<1>1. IInv => GrpcInv BY DEF IInv, GrpcInv, OnlyKnownStored, TableOK, Held
<1>2. QED BY <1>1, Inductive, PTL

\* An RPC that reports failure left nothing behind, and what a successful one
\* promised is in the table until another RPC changes that entry.
THEOREM Truthful == Spec => []OutcomeMatchesReport
<1>1. IInv => OutcomeMatchesReport
  BY DEF IInv, RpcOK, AnswerOK, OutcomeMatchesReport, Done
<1>2. QED BY <1>1, Inductive, PTL

\* CreateOrUpdateMarginOffer answers AlreadyExists or NotFound only when another
\* RPC changed its offer between GetByID and the store call.
THEOREM RaceOnly == Spec => []UpsertFailsOnlyInRace
<1>1. IInv => UpsertFailsOnlyInRace
  BY DEF IInv, RpcOK, AnswerOK, UpsertFailsOnlyInRace, Done
<1>2. QED BY <1>1, Inductive, PTL

\* The deletions BulkOverwriteMarginOffers reports are those it made, unless
\* another RPC changed the store after GetOverwriteStats.
THEOREM CountedRight == Spec => []DeletionsCounted
<1>1. IInv => DeletionsCounted
  BY DEF IInv, RpcOK, AnswerOK, DeletionsCounted, Done
<1>2. QED BY <1>1, Inductive, PTL
=============================================================================
