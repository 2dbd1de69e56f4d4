------------------------ MODULE Notification_proofs ------------------------
(***************************************************************************)
(* Theorems about Notification, for every set of subscriptions, requests   *)
(* and changes, and all capacities of the channels.                        *)
(*                                                                         *)
(* Order and loss are invariants of what a client received, what its       *)
(* handler holds and what its channel buffers, taken as one sequence, the  *)
(* pipeline.  They are inductive together with where the event loop is:    *)
(* no pipeline is ahead of the event it is at, and every event that waits  *)
(* is later.                                                               *)
(***************************************************************************)
EXTENDS Notification, FiniteSetTheorems, SequenceTheorems, TLAPS

\* The events of one sequence come before those of the other.
Before(q, r) == \A m \in EventsIn(q), n \in EventsIn(r) : m < n

-----------------------------------------------------------------------------
\* The events of a concatenation are those of its parts, and it is increasing if
\* the parts are and come in order.
LEMMA ConcatEvents ==
    ASSUME NEW q \in Seq(Nat), NEW r \in Seq(Nat)
    PROVE  /\ q \o r \in Seq(Nat)
           /\ EventsIn(q \o r) = EventsIn(q) \union EventsIn(r)
           /\ Increasing(q \o r) <=> Increasing(q) /\ Increasing(r) /\ Before(q, r)
<1> DEFINE qr == q \o r
           lq == Len(q)
           lr == Len(r)
<1>1. /\ lq \in Nat /\ DOMAIN q = 1..lq /\ lr \in Nat /\ DOMAIN r = 1..lr
      /\ \A i \in 1..lq : q[i] \in Nat
      /\ \A i \in 1..lr : r[i] \in Nat
  BY LenProperties, ElementOfSeq
<1>2. /\ qr \in Seq(Nat) /\ Len(qr) = lq + lr
      /\ \A i \in 1..(lq + lr) : qr[i] = IF i <= lq THEN q[i] ELSE r[i - lq]
  BY ConcatProperties
<1>3. DOMAIN qr = 1..(lq + lr) BY <1>2, LenProperties
<1>4. \A i \in 1..lq : i \in DOMAIN qr /\ qr[i] = q[i] BY <1>1, <1>2, <1>3
<1>5. \A i \in 1..lr : i + lq \in DOMAIN qr /\ qr[i + lq] = r[i] BY <1>1, <1>2, <1>3
<1>6. \A i \in DOMAIN qr : \/ i \in 1..lq /\ qr[i] = q[i]
                           \/ i - lq \in 1..lr /\ qr[i] = r[i - lq]
  BY <1>1, <1>2, <1>3
<1> HIDE DEF qr, lq, lr
<1>7. EventsIn(qr) = EventsIn(q) \union EventsIn(r)
  <2>1. ASSUME NEW i \in DOMAIN qr, qr[i] # Heartbeat
        PROVE  qr[i] \in EventsIn(q) \union EventsIn(r)
    BY <1>1, <1>6, <2>1 DEF EventsIn
  <2>2. ASSUME NEW i \in 1..lq, q[i] # Heartbeat PROVE q[i] \in EventsIn(qr)
    BY <1>4, <2>2 DEF EventsIn
  <2>3. ASSUME NEW i \in 1..lr, r[i] # Heartbeat PROVE r[i] \in EventsIn(qr)
    BY <1>5, <2>3 DEF EventsIn
  <2>4. QED BY <1>1, <2>1, <2>2, <2>3 DEF EventsIn
<1>8. ASSUME Increasing(qr) PROVE Increasing(q) /\ Increasing(r) /\ Before(q, r)
  <2>1. Increasing(q) BY <1>1, <1>4, <1>8 DEF Increasing
  <2>2. Increasing(r)
    <3>1. SUFFICES ASSUME NEW i \in 1..lr, NEW j \in 1..lr, i < j,
                          Heartbeat \notin {r[i], r[j]}
                   PROVE  r[i] < r[j]
      BY <1>1 DEF Increasing
    <3>2. i + lq < j + lq BY <1>1, <3>1
    <3>3. QED BY <1>5, <1>8, <3>1, <3>2 DEF Increasing
  <2>3. ASSUME NEW i \in 1..lq, NEW j \in 1..lr, Heartbeat \notin {q[i], r[j]}
        PROVE  q[i] < r[j]
    <3>1. i < j + lq BY <1>1
    <3>2. QED BY <1>4, <1>5, <1>8, <2>3, <3>1 DEF Increasing
  <2>4. Before(q, r) BY <1>1, <2>3 DEF Before, EventsIn
  <2>5. QED BY <2>1, <2>2, <2>4
<1>9. ASSUME Increasing(q), Increasing(r), Before(q, r) PROVE Increasing(qr)
  <2>1. SUFFICES ASSUME NEW i \in DOMAIN qr, NEW j \in DOMAIN qr, i < j,
                        Heartbeat \notin {qr[i], qr[j]}
                 PROVE  qr[i] < qr[j]
    BY DEF Increasing
  <2>2. i \in Nat /\ j \in Nat BY <1>1, <1>3
  <2>3. CASE i \in 1..lq /\ j \in 1..lq
    BY <1>1, <1>4, <1>9, <2>1, <2>3 DEF Increasing
  <2>4. CASE i \in 1..lq /\ j \notin 1..lq
    <3>1. j - lq \in 1..lr /\ qr[j] = r[j - lq] BY <1>6, <2>4
    <3>2. qr[i] = q[i] BY <1>4, <2>4
    <3>3. q[i] \in EventsIn(q) /\ r[j - lq] \in EventsIn(r)
      BY <1>1, <2>1, <2>4, <3>1, <3>2 DEF EventsIn
    <3>4. QED BY <1>9, <3>1, <3>2, <3>3 DEF Before
  <2>5. CASE i \notin 1..lq
    <3>1. i - lq \in 1..lr /\ qr[i] = r[i - lq] BY <1>6, <2>5
    <3>2. j \notin 1..lq BY <1>1, <2>1, <2>2, <2>5, <3>1
    <3>3. j - lq \in 1..lr /\ qr[j] = r[j - lq] BY <1>6, <3>2
    <3>4. i - lq < j - lq BY <1>1, <2>1, <2>2
    <3>5. QED BY <1>1, <1>9, <2>1, <3>1, <3>3, <3>4 DEF Increasing
  <2>6. QED BY <2>3, <2>4, <2>5
<1>10. QED BY <1>2, <1>7, <1>8, <1>9 DEF qr

\* The events of the sequences a channel is built from and taken apart into.
LEMMA SmallSequences ==
    /\ <<>> \in Seq(Nat) /\ EventsIn(<<>>) = {} /\ Increasing(<<>>)
    /\ \A n \in Nat : /\ <<n>> \in Seq(Nat) /\ EventsIn(<<n>>) = {n} \ {Heartbeat}
                      /\ Increasing(<<n>>)
<1>1. \A n \in Nat : DOMAIN <<n>> = {1} /\ <<n>>[1] = n OBVIOUS
<1>2. DOMAIN <<>> = {} OBVIOUS
<1>3. QED BY <1>1, <1>2 DEF EventsIn, Increasing

\* A queue is its first element and the rest.
LEMMA HeadAndTail ==
    ASSUME NEW q \in Seq(Nat), q # <<>>
    PROVE  /\ Head(q) \in Nat /\ <<Head(q)>> \in Seq(Nat) /\ Tail(q) \in Seq(Nat)
           /\ EventsIn(q) = EventsIn(<<Head(q)>>) \union EventsIn(Tail(q))
           /\ Increasing(q) <=> /\ Increasing(<<Head(q)>>) /\ Increasing(Tail(q))
                               /\ Before(<<Head(q)>>, Tail(q))
<1> DEFINE first == <<Head(q)>>
           rest == Tail(q)
<1>1. Head(q) \in Nat /\ rest \in Seq(Nat) BY HeadTailProperties
<1>2. q = first \o rest BY <1>1
<1>3. first \in Seq(Nat) BY <1>1, SmallSequences
<1> HIDE DEF first, rest
<1>4. /\ EventsIn(first \o rest) = EventsIn(first) \union EventsIn(rest)
      /\ Increasing(first \o rest) <=>
            Increasing(first) /\ Increasing(rest) /\ Before(first, rest)
  BY <1>1, <1>3, ConcatEvents
<1>5. QED BY <1>1, <1>2, <1>3, <1>4 DEF first, rest

-----------------------------------------------------------------------------
\* A stream that is registered, or was, has begun; a handler holds a response
\* only while it sends it.
StagesOK ==
    \A s \in Subs : /\ s \in registered \union closed \union dispatch.left \union beat
                          => pc[s] # "new"
                    /\ pc[s] = "new" => missed[s] = 0
                    /\ held[s] # None => pc[s] = "send"

\* The events the loop has yet to take are in order, and later than the one it is
\* at.
QueueOK ==
    /\ dispatch.event <= announced /\ (dispatch.left # {} => dispatch.event > 0)
    /\ Increasing(eventChan)
    /\ \A i \in DOMAIN eventChan : eventChan[i] \in (dispatch.event + 1)..announced

\* No stream is ahead of the event loop, and those the loop has yet to come to
\* have not had its event.
NoneAhead ==
    \A s \in Subs :
        /\ \A n \in EventsIn(Pipeline(s)) : n <= dispatch.event
        /\ s \in dispatch.left => dispatch.event \notin EventsIn(Pipeline(s))

\* What a subscription is due matches its request, and it is due the event the
\* loop will bring it.
DueOK ==
    \A s \in Subs :
        /\ \A n \in due[s] : Matches(Changes[n], Request[s])
        /\ (/\ s \in dispatch.left /\ pc[s] \notin {"leave", "done"}
            /\ Matches(Changes[dispatch.event], Request[s])) => dispatch.event \in due[s]

\* LastActivity counts no round that a response was sent after, unless its sender
\* has yet to set it.
MissedIsQuiet ==
    \A s \in registered : missed[s] <= quiet[s] \/ \E g \in Senders : stamp[g] = s

\* The inductive invariant.
IInv ==
    /\ TypeOK /\ RegisteredIsOpen /\ StagesOK /\ QueueOK /\ NoneAhead /\ DueOK
    /\ DeliveredInOrder /\ NoSilentLoss /\ MissedIsQuiet

-----------------------------------------------------------------------------
\* A pipeline's events are those of its three parts, and it is increasing if the
\* parts are and come in order.
PartsOf(s) ==
    /\ got[s] \in Seq(Nat) /\ InHand(s) \in Seq(Nat) /\ chan[s] \in Seq(Nat)
    /\ Pipeline(s) \in Seq(Nat)
    /\ EventsIn(Pipeline(s)) =
          EventsIn(got[s]) \union EventsIn(InHand(s)) \union EventsIn(chan[s])
    /\ Increasing(Pipeline(s)) <=>
          /\ Increasing(got[s]) /\ Increasing(InHand(s)) /\ Increasing(chan[s])
          /\ Before(got[s], InHand(s)) /\ Before(got[s], chan[s])
          /\ Before(InHand(s), chan[s])

\* So it is of each pipeline, in this state and the next.
LEMMA PipelineParts == TypeOK => \A s \in Subs : PartsOf(s)
<1> SUFFICES ASSUME TypeOK, NEW s \in Subs PROVE PartsOf(s) OBVIOUS
<1>1. Numbers \subseteq Nat BY DEF Numbers
<1>2. got[s] \in Seq(Nat) /\ chan[s] \in Seq(Nat) BY <1>1, SeqMonotonic DEF TypeOK
<1>3. InHand(s) \in Seq(Nat) BY <1>1, SmallSequences DEF TypeOK, InHand
<1>4. /\ got[s] \o InHand(s) \in Seq(Nat)
      /\ EventsIn(got[s] \o InHand(s)) = EventsIn(got[s]) \union EventsIn(InHand(s))
      /\ Increasing(got[s] \o InHand(s)) <=>
            Increasing(got[s]) /\ Increasing(InHand(s)) /\ Before(got[s], InHand(s))
  BY <1>2, <1>3, ConcatEvents
<1> DEFINE before == got[s] \o InHand(s)
<1> HIDE DEF before
<1>5. before \in Seq(Nat) BY <1>4 DEF before
<1>6. /\ before \o chan[s] \in Seq(Nat)
      /\ EventsIn(before \o chan[s]) = EventsIn(before) \union EventsIn(chan[s])
      /\ Increasing(before \o chan[s]) <=>
            Increasing(before) /\ Increasing(chan[s]) /\ Before(before, chan[s])
  BY <1>2, <1>5, ConcatEvents
<1>7. Before(before, chan[s]) <=> Before(got[s], chan[s]) /\ Before(InHand(s), chan[s])
  BY <1>4 DEF Before, before
<1>8. Pipeline(s) = before \o chan[s] BY DEF Pipeline, before
<1>9. QED BY <1>2, <1>3, <1>4, <1>6, <1>7, <1>8 DEF before, PartsOf

\* The same of the next state.
LEMMA PipelinePartsNext == ASSUME TypeOK' PROVE (\A s \in Subs : PartsOf(s))'
BY PipelineParts, PTL

\* A step that changes neither the loop nor what subscriptions are due, and keeps
\* the pipelines of the streams that go on, keeps what is said of events.
LEMMA FeedKept ==
    ASSUME IInv, UNCHANGED <<dispatch, due, lost>>,
           \A s \in Subs :
              /\ pc'[s] \notin {"leave", "done"} =>
                    /\ pc[s] \notin {"leave", "done"}
                    /\ EventsIn(Pipeline(s))' = EventsIn(Pipeline(s))
              /\ EventsIn(Pipeline(s))' \subseteq EventsIn(Pipeline(s))
              /\ Increasing(Pipeline(s))'
    PROVE  NoneAhead' /\ DueOK' /\ DeliveredInOrder' /\ NoSilentLoss'
<1>1. NoneAhead' BY DEF IInv, NoneAhead
<1>2. DueOK' BY DEF IInv, DueOK
<1>3. DeliveredInOrder' BY DEF DeliveredInOrder
<1>4. NoSilentLoss' BY DEF IInv, NoSilentLoss
<1>5. QED BY <1>1, <1>2, <1>3, <1>4

\* So does one that touches no pipeline at all.
LEMMA PipelinesUntouched ==
    ASSUME IInv, UNCHANGED <<dispatch, due, lost, got, held, chan>>,
           \A s \in Subs : pc'[s] \notin {"leave", "done"} => pc[s] \notin {"leave", "done"}
    PROVE  NoneAhead' /\ DueOK' /\ DeliveredInOrder' /\ NoSilentLoss'
<1>1. ASSUME NEW s \in Subs
      PROVE  /\ EventsIn(Pipeline(s))' = EventsIn(Pipeline(s))
             /\ Increasing(Pipeline(s))' = Increasing(Pipeline(s))
  BY DEF Pipeline, InHand, EventsIn, Increasing
<1>2. \A s \in Subs : Increasing(Pipeline(s)) BY DEF IInv, DeliveredInOrder
<1>3. QED BY <1>1, <1>2, FeedKept

\* The queue is as it was if neither it nor the loop moved.
LEMMA QueueKept ==
    ASSUME IInv, UNCHANGED <<announced, eventChan, dispatch>> PROVE QueueOK'
BY DEF IInv, QueueOK, Increasing

\* Fewer subscriptions do not exceed the maximum.
LEMMA FewerRegistered ==
    ASSUME TypeOK, NEW R \in SUBSET registered
    PROVE  Cardinality(R) <= MaxSubs
<1>1. IsFiniteSet(registered) /\ Cardinality(registered) <= MaxSubs
  BY FS_Subset, NotificationAssumption DEF TypeOK
<1>2. /\ IsFiniteSet(R) /\ Cardinality(R) <= Cardinality(registered)
      /\ Cardinality(R) \in Nat /\ Cardinality(registered) \in Nat
  BY <1>1, FS_Subset, FS_CardinalityType
<1>3. QED BY <1>1, <1>2, NotificationAssumption

-----------------------------------------------------------------------------
\* Nothing is on its way at first.
LEMMA InitIInv == Init => IInv
<1> SUFFICES ASSUME Init PROVE IInv OBVIOUS
<1> USE DEF Init
<1>1. TypeOK
  <2>1. 0 \in Numbers /\ 0 \in 0..IdleRounds BY NotificationAssumption DEF Numbers
  <2>2. Cardinality(registered) <= MaxSubs BY FS_EmptySet, NotificationAssumption
  <2>3. eventChan \in Seq(Numbers) /\ Len(eventChan) <= EventCap
    BY EmptySeq, NotificationAssumption
  <2>4. chan \in [Subs -> Seq(Numbers)] /\ got \in [Subs -> Seq(Numbers)]
        /\ \A s \in Subs : Len(chan[s]) <= ChanCap
    BY EmptySeq, NotificationAssumption
  <2>5. QED BY <2>1, <2>2, <2>3, <2>4 DEF TypeOK
<1>2. RegisteredIsOpen /\ StagesOK /\ MissedIsQuiet
  BY DEF RegisteredIsOpen, StagesOK, MissedIsQuiet
<1>3. \A s \in Subs : EventsIn(Pipeline(s)) = {} /\ Increasing(Pipeline(s))
  <2>1. SUFFICES ASSUME NEW s \in Subs
                 PROVE  EventsIn(Pipeline(s)) = {} /\ Increasing(Pipeline(s))
    OBVIOUS
  <2>2. got[s] = <<>> /\ InHand(s) = <<>> /\ chan[s] = <<>> BY DEF InHand
  <2>3. QED BY <1>1, <2>2, PipelineParts, SmallSequences DEF Before, PartsOf
<1>4. QueueOK BY SmallSequences DEF QueueOK
<1>5. NoneAhead /\ DueOK /\ DeliveredInOrder /\ NoSilentLoss
  BY <1>3 DEF NoneAhead, DueOK, DeliveredInOrder, NoSilentLoss
<1>6. QED BY <1>1, <1>2, <1>4, <1>5 DEF IInv

-----------------------------------------------------------------------------
\* An announcement puts an event behind those that wait, or drops it.
LEMMA NotifyChangeKeeps == ASSUME IInv, NotifyChange PROVE IInv'
<1>1. /\ announced \in Nat /\ announced + 1 \in Numbers /\ announced' = announced + 1
      /\ eventChan' = IF Len(eventChan) < EventCap
                      THEN Append(eventChan, announced + 1) ELSE eventChan
      /\ UNCHANGED <<registered, chan, closed, missed, quiet, dispatch, beat, stamp, pc, held,
                     connected, got, due, lost, panicked>>
  BY NotificationAssumption DEF NotifyChange, IInv, TypeOK, handlerVars, Numbers
<1>2. eventChan \in Seq(Numbers) /\ Len(eventChan) \in Nat /\ Len(eventChan) <= EventCap
  BY LenProperties DEF IInv, TypeOK
<1>3. eventChan' \in Seq(Numbers) /\ Len(eventChan') <= EventCap
  BY <1>1, <1>2, AppendProperties, NotificationAssumption
<1>4. TypeOK' BY <1>1, <1>3 DEF IInv, TypeOK
<1>5. QueueOK'
  <2>1. CASE eventChan' = eventChan BY <1>1, <2>1 DEF IInv, QueueOK, TypeOK, Numbers, Increasing
  <2>2. CASE eventChan' = Append(eventChan, announced + 1)
    <3>1. /\ DOMAIN eventChan' = 1..(Len(eventChan) + 1)
          /\ \A i \in 1..Len(eventChan) : eventChan'[i] = eventChan[i]
          /\ eventChan'[Len(eventChan) + 1] = announced + 1
      BY <1>1, <1>2, <2>2, AppendProperties, LenProperties
    <3>2. /\ \A i \in 1..Len(eventChan) : eventChan[i] \in (dispatch.event + 1)..announced
          /\ dispatch.event \in Nat /\ dispatch.event <= announced
          /\ dispatch.left # {} => dispatch.event > 0
          /\ DOMAIN eventChan = 1..Len(eventChan) /\ Increasing(eventChan)
      BY <1>2, LenProperties DEF IInv, QueueOK, TypeOK, Numbers
    <3>3. \A i \in DOMAIN eventChan' : eventChan'[i] \in (dispatch'.event + 1)..announced'
      BY <1>1, <1>2, <3>1, <3>2
    <3>4. Increasing(eventChan') BY <1>1, <1>2, <3>1, <3>2 DEF Increasing
    <3>5. QED BY <1>1, <3>2, <3>3, <3>4 DEF QueueOK
  <2>3. QED BY <1>1, <2>1, <2>2
<1>6. NoneAhead' /\ DueOK' /\ DeliveredInOrder' /\ NoSilentLoss'
  BY <1>1, PipelinesUntouched
<1>7. RegisteredIsOpen' /\ StagesOK' /\ MissedIsQuiet'
  BY <1>1 DEF IInv, RegisteredIsOpen, StagesOK, MissedIsQuiet
<1>8. QED BY <1>4, <1>5, <1>6, <1>7 DEF IInv

\* The loop takes the oldest event, which is later than any a stream has had, and
\* the subscriptions there are.
LEMMA ProcessChangeEventKeeps == ASSUME IInv, ProcessChangeEvent PROVE IInv'
<1> DEFINE n == Head(eventChan)
<1>1. /\ dispatch.left = {} /\ eventChan # <<>> /\ eventChan' = Tail(eventChan)
      /\ dispatch' = [event |-> n, left |-> registered]
      /\ due' = [s \in Subs |-> IF s \in registered /\ Matches(Changes[n], Request[s])
                              THEN due[s] \union {n} ELSE due[s]]
      /\ UNCHANGED <<announced, registered, chan, closed, missed, quiet, beat, stamp, pc, held,
                     connected, got, lost, panicked>>
  BY DEF ProcessChangeEvent, EventDone, handlerVars
<1>2. /\ eventChan \in Seq(Numbers) /\ Len(eventChan) \in Nat \ {0}
      /\ DOMAIN eventChan = 1..Len(eventChan) /\ Len(eventChan) <= EventCap
  BY <1>1, LenProperties, EmptySeq DEF IInv, TypeOK
<1>3. /\ n = eventChan[1] /\ n \in Numbers
      /\ eventChan' \in Seq(Numbers) /\ Len(eventChan') = Len(eventChan) - 1
      /\ \A i \in 1..Len(eventChan') : eventChan'[i] = eventChan[i + 1]
      /\ DOMAIN eventChan' = 1..Len(eventChan')
  BY <1>1, <1>2, HeadTailProperties, LenProperties
<1>4. /\ dispatch.event \in Nat /\ announced \in Nat /\ n \in Nat
      /\ dispatch.event < n /\ n <= announced
      /\ \A i \in 1..Len(eventChan) : eventChan[i] \in (dispatch.event + 1)..announced
  <2>1. dispatch.event \in Nat /\ announced \in Nat /\ n \in Nat
    BY <1>3, NotificationAssumption DEF IInv, TypeOK, Numbers
  <2>2. \A i \in 1..Len(eventChan) : eventChan[i] \in (dispatch.event + 1)..announced
    BY <1>2 DEF IInv, QueueOK
  <2>3. QED BY <1>2, <1>3, <2>1, <2>2
<1> HIDE DEF n
<1>5. TypeOK'
  <2>1. \A s \in Subs : due'[s] \subseteq Numbers BY <1>1, <1>3 DEF IInv, TypeOK
  <2>2. due' \in [Subs -> SUBSET Numbers] BY <1>1, <2>1
  <2>3. dispatch' \in [event: Numbers, left: SUBSET Subs] BY <1>1, <1>3 DEF IInv, TypeOK
  <2>4. Len(eventChan') <= EventCap BY <1>2, <1>3, NotificationAssumption
  <2>5. QED BY <1>1, <1>3, <2>2, <2>3, <2>4 DEF IInv, TypeOK
<1>6. QueueOK'
  <2>1. Increasing(eventChan) BY DEF IInv, QueueOK
  <2>2. ASSUME NEW i \in 1..Len(eventChan')
        PROVE  eventChan'[i] \in (n + 1)..announced
    <3>1. i + 1 \in DOMAIN eventChan /\ 1 \in DOMAIN eventChan /\ 1 < i + 1
      BY <1>2, <1>3, <2>2
    <3>2. eventChan[1] < eventChan[i + 1]
      BY <1>4, <2>1, <3>1, <1>2 DEF Increasing, Heartbeat
    <3>3. QED BY <1>2, <1>3, <1>4, <3>1, <3>2
  <2>3. Increasing(eventChan')
    <3>1. SUFFICES ASSUME NEW i \in 1..Len(eventChan'), NEW j \in 1..Len(eventChan'),
                          i < j, Heartbeat \notin {eventChan'[i], eventChan'[j]}
                   PROVE  eventChan'[i] < eventChan'[j]
      BY <1>3 DEF Increasing
    <3>2. i + 1 \in DOMAIN eventChan /\ j + 1 \in DOMAIN eventChan /\ i + 1 < j + 1
      BY <1>2, <1>3, <3>1
    <3>3. QED BY <1>3, <2>1, <3>1, <3>2 DEF Increasing
  <2>4. QED BY <1>1, <1>3, <1>4, <2>2, <2>3 DEF QueueOK
<1>7. \A s \in Subs : /\ Pipeline(s)' = Pipeline(s)
                     /\ EventsIn(Pipeline(s))' = EventsIn(Pipeline(s))
                     /\ Increasing(Pipeline(s))' = Increasing(Pipeline(s))
  BY <1>1 DEF Pipeline, InHand, EventsIn, Increasing
<1>8. NoneAhead'
  <2>1. ASSUME NEW s \in Subs, NEW m \in EventsIn(Pipeline(s)) PROVE m < n
    <3>1. Pipeline(s) \in Seq(Nat) BY PipelineParts DEF IInv, PartsOf
    <3>2. m \in Nat BY <3>1, ElementOfSeq, LenProperties DEF EventsIn
    <3>3. m <= dispatch.event BY DEF IInv, NoneAhead
    <3>4. QED BY <1>4, <3>2, <3>3
  <2>2. ASSUME NEW s \in Subs, NEW m \in EventsIn(Pipeline(s)) PROVE m <= n /\ m # n
    <3>1. Pipeline(s) \in Seq(Nat) BY PipelineParts DEF IInv, PartsOf
    <3>2. m \in Nat BY <3>1, ElementOfSeq, LenProperties DEF EventsIn
    <3>3. QED BY <1>4, <2>1, <3>2
  <2>3. QED BY <1>1, <1>7, <2>2 DEF NoneAhead
<1>9. DueOK' BY <1>1 DEF IInv, DueOK, TypeOK
<1>10. DeliveredInOrder' BY <1>7 DEF IInv, DeliveredInOrder
<1>11. NoSilentLoss' BY <1>1, <1>7 DEF IInv, NoSilentLoss
<1>12. RegisteredIsOpen' /\ StagesOK' /\ MissedIsQuiet'
  BY <1>1 DEF IInv, RegisteredIsOpen, StagesOK, MissedIsQuiet
<1>13. QED BY <1>5, <1>6, <1>8, <1>9, <1>10, <1>11, <1>12 DEF IInv

-----------------------------------------------------------------------------
\* The clock of a subscription that is still registered is reset, and only its.
LEMMA SetLastActivityKeeps ==
    ASSUME IInv, NEW g \in Senders, SetLastActivity(g) PROVE IInv'
<1>1. /\ missed' = [s \in Subs |->
                      IF s = stamp[g] /\ s \in registered THEN 0 ELSE missed[s]]
      /\ stamp' = [stamp EXCEPT ![g] = None]
      /\ UNCHANGED <<announced, eventChan, registered, chan, closed, quiet, dispatch, beat, pc,
                     held, connected, got, due, lost, panicked>>
  BY DEF SetLastActivity, handlerVars
<1>2. TypeOK'
  <2>1. 0 \in 0..IdleRounds BY NotificationAssumption
  <2>2. missed' \in [Subs -> 0..IdleRounds] BY <1>1, <2>1 DEF IInv, TypeOK
  <2>3. QED BY <1>1, <2>2 DEF IInv, TypeOK
<1>3. MissedIsQuiet'
  <2>1. SUFFICES ASSUME NEW s \in registered
                 PROVE  missed'[s] <= quiet[s] \/ \E f \in Senders : stamp'[f] = s
    BY <1>1 DEF MissedIsQuiet
  <2>2. s \in Subs BY DEF IInv, TypeOK
  <2>3. CASE s = stamp[g]
    <3>1. missed'[s] = 0 BY <1>1, <2>2, <2>3
    <3>2. quiet[s] \in 0..IdleRounds BY <2>2 DEF IInv, TypeOK
    <3>3. QED BY <3>1, <3>2
  <2>4. CASE s # stamp[g]
    <3>1. missed'[s] = missed[s] BY <1>1, <2>2, <2>4
    <3>2. \A f \in Senders : stamp[f] = s => stamp'[f] = s
      BY <1>1, <2>4 DEF IInv, TypeOK
    <3>3. QED BY <3>1, <3>2 DEF IInv, MissedIsQuiet
  <2>5. QED BY <2>3, <2>4
<1>4. RegisteredIsOpen' /\ StagesOK' BY <1>1 DEF IInv, RegisteredIsOpen, StagesOK
<1>5. QueueOK' BY <1>1, QueueKept
<1>6. NoneAhead' /\ DueOK' /\ DeliveredInOrder' /\ NoSilentLoss'
  BY <1>1, PipelinesUntouched
<1>7. QED BY <1>2, <1>3, <1>4, <1>5, <1>6 DEF IInv

\* A round of heartbeats starts.
LEMMA StartHeartbeatsKeeps == ASSUME IInv, StartHeartbeats PROVE IInv'
<1>1. /\ beat' = registered
      /\ UNCHANGED <<announced, eventChan, registered, chan, closed, missed, quiet, dispatch,
                     stamp, pc, held, connected, got, due, lost, panicked>>
  BY DEF StartHeartbeats, handlerVars
<1>2. TypeOK' BY <1>1 DEF IInv, TypeOK
<1>3. RegisteredIsOpen' /\ StagesOK' /\ MissedIsQuiet'
  BY <1>1 DEF IInv, RegisteredIsOpen, StagesOK, MissedIsQuiet
<1>4. QueueOK' BY <1>1, QueueKept
<1>5. NoneAhead' /\ DueOK' /\ DeliveredInOrder' /\ NoSilentLoss'
  BY <1>1, PipelinesUntouched
<1>6. QED BY <1>2, <1>3, <1>4, <1>5 DEF IInv

\* The cleanup closes channels that were open, of inactive subscriptions only.
LEMMA CleanupKeeps == ASSUME IInv, Cleanup PROVE IInv'
<1> DEFINE inactive == {s \in registered : missed[s] >= IdleRounds}
<1>1. /\ closed' = closed \union inactive /\ registered' = registered \ inactive
      /\ UNCHANGED <<announced, eventChan, chan, missed, quiet, dispatch, beat, stamp, pc,
                     held, connected, got, due, lost, panicked>>
  BY DEF Cleanup, handlerVars, notifierVars
<1>2. registered \subseteq Subs BY DEF IInv, TypeOK
<1>3. TypeOK'
  <2>1. Cardinality(registered') <= MaxSubs BY <1>1, FewerRegistered DEF IInv
  <2>2. QED BY <1>1, <1>2, <2>1 DEF IInv, TypeOK
<1>5. MissedIsQuiet' BY <1>1 DEF IInv, MissedIsQuiet
<1>6. RegisteredIsOpen' /\ StagesOK' BY <1>1 DEF IInv, RegisteredIsOpen, StagesOK
<1>7. QueueOK' BY <1>1, QueueKept
<1>8. NoneAhead' /\ DueOK' /\ DeliveredInOrder' /\ NoSilentLoss'
  BY <1>1, PipelinesUntouched
<1>9. QED BY <1>3, <1>5, <1>6, <1>7, <1>8 DEF IInv

\* A new stream joins if there is room, with nothing due to it yet.
LEMMA SubscribeKeeps == ASSUME IInv, NEW s \in Subs, Subscribe(s) PROVE IInv'
<1>1. /\ pc[s] = "new"
      /\ \/ pc' = [pc EXCEPT ![s] = "done"] /\ registered' = registered
         \/ /\ Cardinality(registered) < MaxSubs
            /\ registered' = registered \union {s}
            /\ pc' = [pc EXCEPT ![s] = "greet"]
      /\ UNCHANGED <<announced, eventChan, closed, chan, missed, quiet, dispatch, beat, stamp,
                     held, connected, got, due, lost, panicked>>
  BY DEF Subscribe, At, Goto, notifierVars
<1>2. s \notin registered /\ s \notin closed /\ held[s] = None /\ missed[s] = 0
      /\ s \notin dispatch.left \union beat
  <2>1. pc[s] = "new" BY <1>1
  <2>2. s \notin registered \union closed \union dispatch.left \union beat
    BY <2>1 DEF IInv, StagesOK
  <2>3. held[s] = None /\ missed[s] = 0 BY <2>1 DEF IInv, StagesOK
  <2>4. QED BY <2>2, <2>3
<1>3. TypeOK'
  <2>1. /\ IsFiniteSet(registered) /\ Cardinality(registered) \in Nat
        /\ Cardinality(registered) <= MaxSubs /\ MaxSubs \in Nat
    BY FS_Subset, FS_CardinalityType, NotificationAssumption DEF IInv, TypeOK
  <2>2. Cardinality(registered \union {s}) = Cardinality(registered) + 1
    BY <1>2, <2>1, FS_AddElement
  <2>3. Cardinality(registered') <= MaxSubs
    <3>1. CASE registered' = registered BY <2>1, <3>1
    <3>2. CASE Cardinality(registered) < MaxSubs /\ registered' = registered \union {s}
      BY <2>1, <2>2, <3>2
    <3>3. QED BY <1>1, <3>1, <3>2
  <2>4. registered' \subseteq Subs BY <1>1 DEF IInv, TypeOK
  <2>5. pc' \in [Subs -> {"new", "greet", "select", "send", "leave", "done"}]
    BY <1>1 DEF IInv, TypeOK
  <2>6. QED BY <1>1, <2>3, <2>4, <2>5 DEF IInv, TypeOK
<1>4. RegisteredIsOpen' BY <1>1, <1>2 DEF IInv, RegisteredIsOpen
<1>5. StagesOK' BY <1>1, <1>2 DEF IInv, StagesOK, TypeOK
<1>6. QueueOK' BY <1>1, QueueKept
<1>7. NoneAhead' /\ DueOK' /\ DeliveredInOrder' /\ NoSilentLoss'
  <2>1. \A r \in Subs : pc'[r] \notin {"leave", "done"} => pc[r] \notin {"leave", "done"}
    BY <1>1 DEF IInv, TypeOK
  <2>2. QED BY <1>1, <2>1, PipelinesUntouched
<1>8. MissedIsQuiet'
  <2>1. missed[s] <= quiet[s] BY <1>2 DEF IInv, TypeOK
  <2>2. QED BY <1>1, <2>1 DEF IInv, MissedIsQuiet
<1>9. QED BY <1>3, <1>4, <1>5, <1>6, <1>7, <1>8 DEF IInv

\* A handler that only moves on, or its client leaving, touches no response.
LEMMA HandlerMoves ==
    ASSUME IInv, NEW s \in Subs, pc[s] \in {"greet", "select"},
           pc' \in {[pc EXCEPT ![s] = "select"], [pc EXCEPT ![s] = "leave"]},
           UNCHANGED <<registered, chan, closed, missed, quiet, held, connected, got,
                       notifierVars>>
    PROVE  IInv'
<1>1. UNCHANGED <<announced, eventChan, dispatch, beat, stamp, due, lost, panicked>>
  BY DEF notifierVars
<1>2. held[s] = None BY DEF IInv, StagesOK
<1>3. TypeOK' BY <1>1 DEF IInv, TypeOK
<1>4. RegisteredIsOpen' /\ MissedIsQuiet'
  BY <1>1 DEF IInv, RegisteredIsOpen, MissedIsQuiet, TypeOK
<1>5. StagesOK' BY <1>1, <1>2 DEF IInv, StagesOK, TypeOK
<1>6. QueueOK' BY <1>1, QueueKept
<1>7. NoneAhead' /\ DueOK' /\ DeliveredInOrder' /\ NoSilentLoss'
  <2>1. \A r \in Subs : pc'[r] \notin {"leave", "done"} => pc[r] \notin {"leave", "done"}
    BY DEF IInv, TypeOK
  <2>2. QED BY <1>1, <2>1, PipelinesUntouched
<1>8. QED BY <1>3, <1>4, <1>5, <1>6, <1>7 DEF IInv

\* The confirmation.
LEMMA GreetKeeps == ASSUME IInv, NEW s \in Subs, Greet(s) PROVE IInv'
BY HandlerMoves DEF Greet, At, Goto

\* The handler sees that its client is gone.
LEMMA StreamDoneKeeps == ASSUME IInv, NEW s \in Subs, StreamDone(s) PROVE IInv'
BY HandlerMoves DEF StreamDone, At, Goto

\* The client goes away.
LEMMA DisconnectKeeps == ASSUME IInv, NEW s \in Subs, Disconnect(s) PROVE IInv'
<1>1. /\ connected' = connected \ {s}
      /\ UNCHANGED <<announced, eventChan, registered, chan, closed, missed, quiet, dispatch,
                     beat, stamp, pc, held, got, due, lost, panicked>>
  BY DEF Disconnect, notifierVars
<1>2. TypeOK' BY <1>1 DEF IInv, TypeOK
<1>3. RegisteredIsOpen' /\ StagesOK' /\ MissedIsQuiet'
  BY <1>1 DEF IInv, RegisteredIsOpen, StagesOK, MissedIsQuiet
<1>4. QueueOK' BY <1>1, QueueKept
<1>5. NoneAhead' /\ DueOK' /\ DeliveredInOrder' /\ NoSilentLoss'
  BY <1>1, PipelinesUntouched
<1>6. QED BY <1>2, <1>3, <1>4, <1>5 DEF IInv

-----------------------------------------------------------------------------
\* Where a stream's pipeline has the same three parts, it has the same events.
LEMMA SameParts ==
    ASSUME NEW s \in Subs, UNCHANGED <<got[s], held[s], chan[s]>>
    PROVE  /\ EventsIn(Pipeline(s))' = EventsIn(Pipeline(s))
           /\ Increasing(Pipeline(s))' = Increasing(Pipeline(s))
BY DEF Pipeline, InHand, EventsIn, Increasing

\* The handler takes the oldest response into its hand.
LEMMA ReceiveKeeps == ASSUME IInv, NEW s \in Subs, Receive(s) PROVE IInv'
<1>1. /\ pc[s] = "select" /\ pc' = [pc EXCEPT ![s] = "send"]
      /\ \/ /\ chan[s] # <<>>
            /\ held' = [held EXCEPT ![s] = Head(chan[s])]
            /\ chan' = [chan EXCEPT ![s] = Tail(@)]
         \/ /\ held' = [held EXCEPT ![s] = None] /\ chan' = chan
      /\ UNCHANGED <<announced, eventChan, registered, closed, missed, quiet, dispatch, beat,
                     stamp, connected, got, due, lost, panicked>>
  BY DEF Receive, At, Goto, notifierVars
<1>2. held[s] = None
  <2>1. pc[s] = "select" BY <1>1
  <2>2. QED BY <2>1 DEF IInv, StagesOK
<1>3. chan[s] \in Seq(Numbers) /\ Len(chan[s]) \in Nat /\ Len(chan[s]) <= ChanCap
  BY LenProperties DEF IInv, TypeOK
<1>4. chan[s] # <<>> => /\ Head(chan[s]) \in Numbers /\ Tail(chan[s]) \in Seq(Numbers)
                        /\ Len(Tail(chan[s])) <= ChanCap
  BY <1>3, HeadTailProperties, NotificationAssumption
<1>5. TypeOK'
  <2>1. held' \in [Subs -> Numbers \union {None}] BY <1>1, <1>4 DEF IInv, TypeOK
  <2>2. chan' \in [Subs -> Seq(Numbers)] BY <1>1, <1>4 DEF IInv, TypeOK
  <2>3. \A r \in Subs : Len(chan'[r]) <= ChanCap BY <1>1, <1>4 DEF IInv, TypeOK
  <2>4. pc' \in [Subs -> {"new", "greet", "select", "send", "leave", "done"}]
    BY <1>1 DEF IInv, TypeOK
  <2>5. QED BY <1>1, <2>1, <2>2, <2>3, <2>4 DEF IInv, TypeOK
<1>6. ASSUME NEW r \in Subs
      PROVE  /\ EventsIn(Pipeline(r))' = EventsIn(Pipeline(r))
             /\ Increasing(Pipeline(r))' <=> Increasing(Pipeline(r))
  <2>1. CASE r # s \/ chan' = chan
    <3>1. held'[r] = held[r] /\ chan'[r] = chan[r] /\ got'[r] = got[r]
      BY <1>1, <1>2, <2>1 DEF IInv, TypeOK
    <3>2. QED BY <3>1, SameParts
  <2>2. CASE r = s /\ chan[s] # <<>> /\ held' = [held EXCEPT ![s] = Head(chan[s])]
                   /\ chan' = [chan EXCEPT ![s] = Tail(@)]
    <3> DEFINE h == Head(chan[s])
               q == Tail(chan[s])
    <3>1. h \in Nat /\ q \in Seq(Nat)
      BY <2>2, PipelineParts, HeadAndTail DEF IInv, PartsOf
    <3>4. /\ <<h>> \in Seq(Nat)
          /\ EventsIn(chan[s]) = EventsIn(<<h>>) \union EventsIn(q)
          /\ Increasing(chan[s]) <=> Increasing(<<h>>) /\ Increasing(q) /\ Before(<<h>>, q)
      BY <2>2, PipelineParts, HeadAndTail DEF IInv, PartsOf
    <3>2. held'[s] = h /\ chan'[s] = q /\ got'[s] = got[s]
      BY <1>1, <2>2 DEF IInv, TypeOK
    <3> HIDE DEF h, q
    <3>3. InHand(s)' = <<h>> /\ InHand(s) = <<>>
      BY <1>2, <3>1, <3>2, NotificationAssumption DEF InHand
    <3>5. EventsIn(<<>>) = {} /\ Increasing(<<>>) BY SmallSequences
    <3>6. PartsOf(s) /\ PartsOf(s)' BY <1>5, PipelineParts, PipelinePartsNext DEF IInv
    <3>7. EventsIn(Pipeline(s)) = EventsIn(got[s]) \union EventsIn(chan[s])
          /\ EventsIn(Pipeline(s))' =
                EventsIn(got[s]) \union EventsIn(<<h>>) \union EventsIn(q)
      BY <3>2, <3>3, <3>5, <3>6 DEF PartsOf
    <3>8. Before(got[s], chan[s]) <=> Before(got[s], <<h>>) /\ Before(got[s], q)
      BY <3>4 DEF Before
    <3>9. Increasing(Pipeline(s)) <=>
            Increasing(got[s]) /\ Increasing(chan[s]) /\ Before(got[s], chan[s])
      BY <3>3, <3>5, <3>6 DEF PartsOf, Before
    <3>10. Increasing(Pipeline(s))' <=>
             /\ Increasing(got[s]) /\ Increasing(<<h>>) /\ Increasing(q)
             /\ Before(got[s], <<h>>) /\ Before(got[s], q) /\ Before(<<h>>, q)
      BY <3>2, <3>3, <3>6 DEF PartsOf
    <3>11. EventsIn(Pipeline(s))' = EventsIn(Pipeline(s)) BY <3>4, <3>7
    <3>12. Increasing(Pipeline(s))' <=> Increasing(Pipeline(s))
      BY <3>4, <3>8, <3>9, <3>10
    <3>13. QED BY <2>2, <3>11, <3>12
  <2>3. QED BY <1>1, <2>1, <2>2
<1>7. NoneAhead' /\ DueOK' /\ DeliveredInOrder' /\ NoSilentLoss'
  <2>1. \A r \in Subs : pc'[r] \notin {"leave", "done"} => pc[r] \notin {"leave", "done"}
    BY <1>1 DEF IInv, TypeOK
  <2>2. \A r \in Subs : Increasing(Pipeline(r)) BY DEF IInv, DeliveredInOrder
  <2>3. QED BY <1>1, <1>6, <2>1, <2>2, FeedKept
<1>8. QueueOK' BY <1>1, QueueKept
<1>9. RegisteredIsOpen' /\ MissedIsQuiet'
  BY <1>1 DEF IInv, RegisteredIsOpen, MissedIsQuiet, TypeOK
<1>10. StagesOK' BY <1>1, <1>2 DEF IInv, StagesOK, TypeOK
<1>11. QED BY <1>5, <1>7, <1>8, <1>9, <1>10 DEF IInv

\* The client takes what the handler holds; of a client that is gone it is lost.
LEMMA StreamSendKeeps == ASSUME IInv, NEW s \in Subs, StreamSend(s) PROVE IInv'
<1> DEFINE h == held[s]
<1>1. /\ pc[s] = "send" /\ held' = [held EXCEPT ![s] = None]
      /\ \/ /\ pc' = [pc EXCEPT ![s] = "select"]
            /\ got' = IF h \in {None, Heartbeat} THEN got
                      ELSE [got EXCEPT ![s] = Append(@, h)]
         \/ pc' = [pc EXCEPT ![s] = "leave"] /\ got' = got
      /\ UNCHANGED <<announced, eventChan, registered, chan, closed, missed, quiet, dispatch,
                     beat, stamp, connected, due, lost, panicked>>
  BY DEF StreamSend, At, Goto, notifierVars
<1>2. h \in Numbers \union {None} /\ held'[s] = None BY <1>1 DEF IInv, TypeOK
<1>3. got' = got \/ /\ h \in Numbers /\ h # Heartbeat
                    /\ got' = [got EXCEPT ![s] = Append(@, h)]
                    /\ pc' = [pc EXCEPT ![s] = "select"]
  BY <1>1, <1>2
<1>4. TypeOK'
  <2>1. got' \in [Subs -> Seq(Numbers)]
    <3>1. h \in Numbers => Append(got[s], h) \in Seq(Numbers)
      BY AppendProperties DEF IInv, TypeOK
    <3>2. QED BY <1>3, <3>1 DEF IInv, TypeOK
  <2>2. held' \in [Subs -> Numbers \union {None}] BY <1>1 DEF IInv, TypeOK
  <2>3. pc' \in [Subs -> {"new", "greet", "select", "send", "leave", "done"}]
    BY <1>1 DEF IInv, TypeOK
  <2>4. QED BY <1>1, <2>1, <2>2, <2>3 DEF IInv, TypeOK
<1>5. PartsOf(s) /\ PartsOf(s)' /\ InHand(s)' = <<>> /\ chan'[s] = chan[s]
  BY <1>1, <1>2, <1>4, PipelineParts, PipelinePartsNext DEF IInv, InHand
<1>6. EventsIn(<<>>) = {} /\ Increasing(<<>>) BY SmallSequences
<1>7. /\ EventsIn(Pipeline(s))' = EventsIn(got'[s]) \union EventsIn(chan[s])
      /\ Increasing(Pipeline(s))' <=>
            Increasing(got'[s]) /\ Increasing(chan[s]) /\ Before(got'[s], chan[s])
  BY <1>5, <1>6 DEF PartsOf, Before
<1>8. ASSUME got' = got
      PROVE  /\ EventsIn(Pipeline(s))' \subseteq EventsIn(Pipeline(s))
             /\ pc'[s] # "leave" => EventsIn(Pipeline(s))' = EventsIn(Pipeline(s))
             /\ Increasing(Pipeline(s)) => Increasing(Pipeline(s))'
  <2>1. /\ EventsIn(Pipeline(s))' \subseteq EventsIn(Pipeline(s))
        /\ Increasing(Pipeline(s)) => Increasing(Pipeline(s))'
    BY <1>5, <1>7, <1>8 DEF PartsOf
  <2>2. ASSUME pc'[s] # "leave"
        PROVE  EventsIn(Pipeline(s))' = EventsIn(Pipeline(s))
    <3>1. h \in {None, Heartbeat}
      <4>1. \/ got' = IF h \in {None, Heartbeat} THEN got
                      ELSE [got EXCEPT ![s] = Append(@, h)]
            \/ pc'[s] = "leave"
        BY <1>1 DEF IInv, TypeOK
      <4>2. got[s] \in Seq(Nat) BY <1>5 DEF PartsOf
      <4>3. h \in Nat => Len(Append(got[s], h)) # Len(got[s])
        BY <4>2, AppendProperties, LenProperties
      <4>4. h \in Nat \union {None} BY <1>2 DEF Numbers
      <4>5. got \in [Subs -> Seq(Numbers)] BY DEF IInv, TypeOK
      <4>6. h \in {None, Heartbeat} \/ got[s] = Append(got[s], h)
        BY <1>8, <2>2, <4>1, <4>5
      <4>7. QED BY <4>3, <4>4, <4>6
    <3>2. EventsIn(InHand(s)) = {}
      BY <3>1, SmallSequences DEF InHand, Heartbeat
    <3>3. QED BY <1>5, <1>7, <1>8, <3>2 DEF PartsOf
  <2>3. QED BY <2>1, <2>2
<1>9. ASSUME h \in Numbers, h # Heartbeat, got' = [got EXCEPT ![s] = Append(@, h)]
      PROVE  /\ EventsIn(Pipeline(s))' = EventsIn(Pipeline(s))
             /\ Increasing(Pipeline(s))' <=> Increasing(Pipeline(s))
  <2>1. h \in Nat /\ got[s] \in Seq(Nat) BY <1>5, <1>9 DEF Numbers, PartsOf
  <2>2. got'[s] = got[s] \o <<h>>
    <3>1. got'[s] = Append(got[s], h) BY <1>9 DEF IInv, TypeOK
    <3>2. QED BY <2>1, <3>1, AppendIsConcat
  <2>3. InHand(s) = <<h>> BY <2>1, NotificationAssumption DEF InHand
  <2>4. InHand(s) \in Seq(Nat) BY <1>5 DEF PartsOf
  <2> DEFINE q == got[s]
             r == InHand(s)
  <2> HIDE DEF q, r
  <2>5. /\ EventsIn(q \o r) = EventsIn(q) \union EventsIn(r)
        /\ Increasing(q \o r) <=> Increasing(q) /\ Increasing(r) /\ Before(q, r)
    BY <2>1, <2>4, ConcatEvents DEF q, r
  <2>6. /\ EventsIn(got'[s]) = EventsIn(got[s]) \union EventsIn(InHand(s))
        /\ Increasing(got'[s]) <=>
              Increasing(got[s]) /\ Increasing(InHand(s)) /\ Before(got[s], InHand(s))
    BY <2>2, <2>3, <2>5 DEF q, r
  <2>7. Before(got'[s], chan[s]) <=> Before(got[s], chan[s]) /\ Before(InHand(s), chan[s])
    BY <2>6 DEF Before
  <2>8. EventsIn(Pipeline(s))' = EventsIn(Pipeline(s)) BY <1>5, <1>7, <2>6 DEF PartsOf
  <2>9. Increasing(Pipeline(s))' <=> Increasing(Pipeline(s))
    BY <1>5, <1>7, <2>6, <2>7 DEF PartsOf
  <2>10. QED BY <2>8, <2>9
<1>10. /\ EventsIn(Pipeline(s))' \subseteq EventsIn(Pipeline(s))
       /\ pc'[s] # "leave" => EventsIn(Pipeline(s))' = EventsIn(Pipeline(s))
       /\ Increasing(Pipeline(s)) => Increasing(Pipeline(s))'
  BY <1>3, <1>8, <1>9
<1>11. NoneAhead' /\ DueOK' /\ DeliveredInOrder' /\ NoSilentLoss'
  <2>1. ASSUME NEW r \in Subs
        PROVE  /\ pc'[r] \notin {"leave", "done"} =>
                     /\ pc[r] \notin {"leave", "done"}
                     /\ EventsIn(Pipeline(r))' = EventsIn(Pipeline(r))
               /\ EventsIn(Pipeline(r))' \subseteq EventsIn(Pipeline(r))
               /\ Increasing(Pipeline(r))'
    <3>1. Increasing(Pipeline(r)) BY DEF IInv, DeliveredInOrder
    <3>2. CASE r = s BY <1>1, <1>10, <3>1, <3>2
    <3>3. CASE r # s
      <4>1. got'[r] = got[r] /\ held'[r] = held[r] /\ chan'[r] = chan[r] /\ pc'[r] = pc[r]
        BY <1>1, <1>3, <3>3 DEF IInv, TypeOK
      <4>2. QED BY <3>1, <4>1, SameParts
    <3>4. QED BY <3>2, <3>3
  <2>2. QED BY <1>1, <2>1, FeedKept
<1>12. QueueOK' BY <1>1, QueueKept
<1>13. RegisteredIsOpen' /\ MissedIsQuiet'
  BY <1>1 DEF IInv, RegisteredIsOpen, MissedIsQuiet, TypeOK
<1>14. StagesOK' BY <1>1, <1>2 DEF IInv, StagesOK, TypeOK
<1>15. QED BY <1>4, <1>11, <1>12, <1>13, <1>14 DEF IInv

-----------------------------------------------------------------------------
\* A response behind the others in a channel adds itself to the pipeline.
LEMMA ChannelGrows ==
    ASSUME TypeOK, TypeOK', NEW s \in Subs, NEW n \in Nat,
           UNCHANGED <<got[s], held[s]>>, chan'[s] = Append(chan[s], n)
    PROVE  /\ EventsIn(Pipeline(s))' = EventsIn(Pipeline(s)) \union ({n} \ {Heartbeat})
           /\ Increasing(Pipeline(s)) /\ (\A m \in EventsIn(Pipeline(s)) : n = Heartbeat \/ m < n)
                 => Increasing(Pipeline(s))'
<1> DEFINE q == chan[s]
           r == <<n>>
<1>1. PartsOf(s) /\ PartsOf(s)' BY PipelineParts, PipelinePartsNext
<1>2. q \in Seq(Nat) BY <1>1 DEF PartsOf
<1>3. r \in Seq(Nat) /\ EventsIn(r) = {n} \ {Heartbeat} /\ Increasing(r) BY SmallSequences
<1>4. chan'[s] = q \o r BY <1>2, AppendIsConcat
<1>5. InHand(s)' = InHand(s) BY DEF InHand
<1> HIDE DEF q, r
<1>6. /\ EventsIn(q \o r) = EventsIn(q) \union EventsIn(r)
      /\ Increasing(q \o r) <=> Increasing(q) /\ Increasing(r) /\ Before(q, r)
  BY <1>2, <1>3, ConcatEvents
<1>7. /\ EventsIn(chan'[s]) = EventsIn(chan[s]) \union ({n} \ {Heartbeat})
      /\ Increasing(chan[s]) /\ Before(q, r) => Increasing(chan'[s])
  BY <1>3, <1>4, <1>6 DEF q
<1>8. EventsIn(Pipeline(s))' = EventsIn(Pipeline(s)) \union ({n} \ {Heartbeat})
  BY <1>1, <1>5, <1>7 DEF PartsOf
<1>9. ASSUME Increasing(Pipeline(s)),
             \A m \in EventsIn(Pipeline(s)) : n = Heartbeat \/ m < n
      PROVE  Increasing(Pipeline(s))'
  <2>1. \A m \in EventsIn(Pipeline(s)) : \A k \in {n} \ {Heartbeat} : m < k BY <1>9
  <2>2. Before(q, r) BY <1>1, <1>3, <2>1 DEF Before, PartsOf, q
  <2>3. Before(got[s], chan'[s]) /\ Before(InHand(s), chan'[s])
    BY <1>1, <1>7, <1>9, <2>1 DEF Before, PartsOf
  <2>4. QED BY <1>1, <1>5, <1>7, <1>9, <2>2, <2>3 DEF PartsOf
<1>10. QED BY <1>8, <1>9

\* The three outcomes of a send leave a state of the right type.
LEMMA SendType ==
    ASSUME TypeOK, NEW g \in Senders, NEW s \in Subs, NEW n \in Numbers, Send(g, s, n),
           UNCHANGED <<announced, eventChan, registered, closed, pc, held, connected, got, due>>,
           dispatch' \in [event: Numbers, left: SUBSET Subs], beat' \subseteq Subs,
           lost' \in [Subs -> SUBSET Numbers]
    PROVE  TypeOK'
<1>1. Len(chan[s]) \in Nat /\ chan[s] \in Seq(Numbers) BY LenProperties DEF TypeOK
<1>2. Len(chan[s]) < ChanCap =>
         Append(chan[s], n) \in Seq(Numbers) /\ Len(Append(chan[s], n)) <= ChanCap
  BY <1>1, AppendProperties, NotificationAssumption
<1>3. chan' \in [Subs -> Seq(Numbers)] BY <1>2 DEF Send, TypeOK
<1>4. \A r \in Subs : Len(chan'[r]) <= ChanCap BY <1>2 DEF Send, TypeOK
<1>5. missed' \in [Subs -> 0..IdleRounds] /\ quiet' \in [Subs -> 0..IdleRounds]
  <2>1. \A k \in 0..IdleRounds : k < IdleRounds => k + 1 \in 0..IdleRounds
    BY NotificationAssumption
  <2>2. 0 \in 0..IdleRounds BY NotificationAssumption
  <2>3. \A rounds \in [Subs -> 0..IdleRounds] : OneMore(rounds, s) \in [Subs -> 0..IdleRounds]
    BY <2>1 DEF OneMore
  <2>4. /\ missed' = missed \/ missed' = OneMore(missed, s)
        /\ quiet' = quiet \/ quiet' = OneMore(quiet, s) \/ quiet' = [quiet EXCEPT ![s] = 0]
    BY DEF Send
  <2>5. missed' \in [Subs -> 0..IdleRounds] BY <2>3, <2>4 DEF TypeOK
  <2>6. [quiet EXCEPT ![s] = 0] \in [Subs -> 0..IdleRounds] BY <2>2 DEF TypeOK
  <2>7. quiet' \in [Subs -> 0..IdleRounds] BY <2>3, <2>4, <2>6 DEF TypeOK
  <2>8. QED BY <2>5, <2>7
<1>6. stamp' \in [Senders -> Subs \union {None}] BY DEF Send, TypeOK
<1>7. panicked' \in BOOLEAN BY DEF Send, TypeOK
<1>8. QED BY <1>3, <1>4, <1>5, <1>6, <1>7 DEF TypeOK

\* A send that succeeds is pending until LastActivity is set; one that does not adds
\* a round to both counts, or to none.
LEMMA SendCounts ==
    ASSUME TypeOK, MissedIsQuiet, NEW g \in Senders, NEW s \in Subs, NEW n, Send(g, s, n),
           stamp[g] = None, UNCHANGED registered
    PROVE  MissedIsQuiet'
<1>1. /\ missed \in [Subs -> 0..IdleRounds] /\ quiet \in [Subs -> 0..IdleRounds]
      /\ stamp \in [Senders -> Subs \union {None}] /\ registered \subseteq Subs
  BY DEF TypeOK
<1>2. CASE UNCHANGED <<missed, quiet, stamp>> BY <1>2 DEF MissedIsQuiet
<1>3. CASE stamp' = [stamp EXCEPT ![g] = s] /\ quiet' = [quiet EXCEPT ![s] = 0]
           /\ missed' = missed
  <2>1. ASSUME NEW r \in registered, r # s
        PROVE  missed'[r] <= quiet'[r] \/ \E f \in Senders : stamp'[f] = r
    <3>1. missed'[r] = missed[r] /\ quiet'[r] = quiet[r] BY <1>1, <1>3, <2>1
    <3>2. CASE missed[r] <= quiet[r] BY <3>1, <3>2
    <3>3. CASE missed[r] > quiet[r]
      <4>1. PICK f \in Senders : stamp[f] = r BY <1>1, <3>3 DEF MissedIsQuiet
      <4>2. CASE f = g
        <5>1. r = None BY <4>1, <4>2
        <5>2. r \in Subs BY <1>1, <2>1
        <5>3. QED BY <5>1, <5>2, NotificationAssumption
      <4>3. CASE f # g
        <5>1. stamp'[f] = r BY <1>1, <1>3, <4>1, <4>3
        <5>2. QED BY <5>1
      <4>4. QED BY <4>2, <4>3
    <3>4. QED BY <1>1, <3>2, <3>3
  <2>2. stamp'[g] = s BY <1>1, <1>3
  <2>3. QED BY <2>1, <2>2 DEF MissedIsQuiet
<1>4. CASE missed' = OneMore(missed, s) /\ quiet' = OneMore(quiet, s) /\ stamp' = stamp
  <2>1. \A m, q \in 0..IdleRounds :
           m <= q => (IF m < IdleRounds THEN m + 1 ELSE m) <= (IF q < IdleRounds THEN q + 1 ELSE q)
    BY NotificationAssumption
  <2>2. QED BY <1>1, <1>4, <2>1 DEF MissedIsQuiet, OneMore
<1>5. QED BY <1>2, <1>3, <1>4 DEF Send

\* The event goes to one more of the subscriptions the loop copied: passed over,
\* sent, or counted as lost.
LEMMA SendEventKeeps == ASSUME IInv, NEW s \in Subs, SendEvent(s) PROVE IInv'
<1> DEFINE e == dispatch.event
<1>1. /\ s \in dispatch.left /\ dispatch' = [dispatch EXCEPT !.left = @ \ {s}]
      /\ stamp["event"] = None
      /\ UNCHANGED <<announced, eventChan, registered, closed, beat, pc, held, connected,
                     got, due>>
  BY DEF SendEvent, handlerVars
<1>2. /\ dispatch'.event = e /\ dispatch'.left = dispatch.left \ {s}
      /\ dispatch' \in [event: Numbers, left: SUBSET Subs]
  BY <1>1 DEF IInv, TypeOK
<1>3. e \in Numbers /\ e \in Nat /\ e # Heartbeat
  <2>1. dispatch.left # {} BY <1>1
  <2>2. e \in Numbers /\ e > 0 BY <2>1 DEF IInv, TypeOK, QueueOK
  <2>3. QED BY <2>2 DEF Numbers, Heartbeat
<1>4. QueueOK'
  <2>1. dispatch'.left # {} => dispatch.left # {} BY <1>2
  <2>2. QED BY <1>1, <1>2, <2>1 DEF IInv, QueueOK, Increasing
<1>5. DueOK' BY <1>1, <1>2 DEF IInv, DueOK
<1>6. RegisteredIsOpen' BY <1>1 DEF IInv, RegisteredIsOpen
<1>10. StagesOK'
  <2>1. missed' = missed \/ \E n : Send("event", s, n) BY DEF SendEvent
  <2>2. \A r \in Subs \ {s} : missed'[r] = missed[r]
    BY <2>1 DEF Send, OneMore, IInv, TypeOK
  <2>3. pc[s] # "new" BY <1>1 DEF IInv, StagesOK
  <2>4. QED BY <1>1, <1>2, <2>2, <2>3 DEF IInv, StagesOK
<1> HIDE DEF e
<1>7. CASE /\ UNCHANGED <<chan, missed, quiet, stamp, lost, panicked>>
           /\ ~Matches(Changes[e], Request[s])
  <2>1. TypeOK' BY <1>1, <1>2, <1>7 DEF IInv, TypeOK
  <2>2. MissedIsQuiet' BY <1>1, <1>7 DEF IInv, MissedIsQuiet
  <2>3. \A r \in Subs : /\ EventsIn(Pipeline(r))' = EventsIn(Pipeline(r))
                       /\ Increasing(Pipeline(r))' = Increasing(Pipeline(r))
    BY <1>1, <1>7, SameParts
  <2>4. NoneAhead' BY <1>2, <2>3 DEF IInv, NoneAhead, e
  <2>5. DeliveredInOrder' BY <2>3 DEF IInv, DeliveredInOrder
  <2>6. e \notin due[s] BY <1>7 DEF IInv, DueOK
  <2>7. NoSilentLoss' BY <1>1, <1>2, <1>7, <2>3, <2>6 DEF IInv, NoSilentLoss, e
  <2>8. QED BY <1>4, <1>5, <1>6, <1>10, <2>1, <2>2, <2>4, <2>5, <2>7 DEF IInv
<1>8. CASE /\ Matches(Changes[e], Request[s]) /\ Send("event", s, e)
           /\ lost' = IF chan' = chan THEN [lost EXCEPT ![s] = @ \union {e}] ELSE lost
  <2>1. lost' \in [Subs -> SUBSET Numbers] BY <1>3, <1>8 DEF IInv, TypeOK
  <2>2. TypeOK' BY <1>1, <1>2, <1>3, <1>8, <2>1, SendType DEF IInv, Senders, TypeOK
  <2>3. MissedIsQuiet' BY <1>1, <1>8, SendCounts DEF IInv, Senders
  <2>4. pc[s] \notin {"leave", "done"} => e \in due[s] BY <1>1, <1>8 DEF IInv, DueOK, e
  <2>5. \A m \in EventsIn(Pipeline(s)) : m < e
    <3>1. ASSUME NEW m \in EventsIn(Pipeline(s)) PROVE m \in Nat /\ m <= e /\ m # e
      <4>1. Pipeline(s) \in Seq(Nat) BY PipelineParts DEF IInv, PartsOf
      <4>2. m \in Nat BY <4>1, ElementOfSeq, LenProperties DEF EventsIn
      <4>3. QED BY <1>1, <4>2 DEF IInv, NoneAhead, e
    <3>2. QED BY <1>3, <3>1
  <2>6. CASE chan' = chan
    <3>1. \A r \in Subs : /\ EventsIn(Pipeline(r))' = EventsIn(Pipeline(r))
                         /\ Increasing(Pipeline(r))' = Increasing(Pipeline(r))
      BY <1>1, <2>6, SameParts
    <3>2. NoneAhead' BY <1>2, <3>1 DEF IInv, NoneAhead, e
    <3>3. DeliveredInOrder' BY <3>1 DEF IInv, DeliveredInOrder
    <3>4. lost'[s] = lost[s] \union {e} /\ \A r \in Subs \ {s} : lost'[r] = lost[r]
      BY <1>8, <2>6 DEF IInv, TypeOK
    <3>5. NoSilentLoss' BY <1>1, <1>2, <2>4, <3>1, <3>4 DEF IInv, NoSilentLoss, e
    <3>6. QED BY <1>4, <1>5, <1>6, <1>10, <2>2, <2>3, <3>2, <3>3, <3>5 DEF IInv
  <2>7. CASE chan' # chan
    <3>1. chan' = [chan EXCEPT ![s] = Append(@, e)] /\ lost' = lost
      BY <1>8, <2>7 DEF Send
    <3>2. chan'[s] = Append(chan[s], e) /\ \A r \in Subs \ {s} : chan'[r] = chan[r]
      BY <3>1 DEF IInv, TypeOK
    <3>3. Increasing(Pipeline(s)) BY DEF IInv, DeliveredInOrder
    <3>4. /\ EventsIn(Pipeline(s))' = EventsIn(Pipeline(s)) \union {e}
          /\ Increasing(Pipeline(s))'
      BY <1>1, <1>3, <2>2, <2>5, <3>2, <3>3, ChannelGrows DEF IInv
    <3>5. \A r \in Subs \ {s} : /\ EventsIn(Pipeline(r))' = EventsIn(Pipeline(r))
                               /\ Increasing(Pipeline(r))' = Increasing(Pipeline(r))
      BY <1>1, <3>2, SameParts
    <3>6. NoneAhead' BY <1>2, <1>3, <3>4, <3>5 DEF IInv, NoneAhead, e
    <3>7. DeliveredInOrder' BY <3>4, <3>5 DEF IInv, DeliveredInOrder
    <3>8. NoSilentLoss' BY <1>1, <1>2, <2>4, <3>1, <3>4, <3>5 DEF IInv, NoSilentLoss, e
    <3>9. QED BY <1>4, <1>5, <1>6, <1>10, <2>2, <2>3, <3>6, <3>7, <3>8 DEF IInv
  <2>8. QED BY <2>6, <2>7
<1>9. QED BY <1>7, <1>8 DEF SendEvent, e

\* A heartbeat is no event: the pipelines have the events they had.
LEMMA SendHeartbeatKeeps == ASSUME IInv, NEW s \in Subs, SendHeartbeat(s) PROVE IInv'
<1>1. /\ Send("beat", s, Heartbeat) /\ s \in beat /\ beat' = beat \ {s}
      /\ stamp["beat"] = None
      /\ UNCHANGED <<announced, eventChan, registered, closed, dispatch, pc, held, connected,
                     got, due, lost>>
  BY DEF SendHeartbeat, handlerVars
<1>2. Heartbeat \in Numbers /\ Heartbeat \in Nat
  BY NotificationAssumption DEF Heartbeat, Numbers
<1>3. TypeOK' BY <1>1, <1>2, SendType DEF IInv, TypeOK, Senders
<1>4. MissedIsQuiet' BY <1>1, SendCounts DEF IInv, Senders
<1>5. ASSUME NEW r \in Subs
      PROVE  EventsIn(Pipeline(r))' = EventsIn(Pipeline(r)) /\ Increasing(Pipeline(r))'
  <2>1. Increasing(Pipeline(r)) BY DEF IInv, DeliveredInOrder
  <2>2. CASE chan'[r] = chan[r] BY <1>1, <2>1, <2>2, SameParts
  <2>3. CASE chan'[r] = Append(chan[r], Heartbeat)
    BY <1>1, <1>2, <1>3, <2>1, <2>3, ChannelGrows DEF IInv
  <2>4. QED BY <1>1, <2>2, <2>3 DEF Send, IInv, TypeOK
<1>6. NoneAhead' /\ DueOK' /\ DeliveredInOrder' /\ NoSilentLoss'
  BY <1>1, <1>5, FeedKept
<1>7. QueueOK' BY <1>1, QueueKept
<1>8. RegisteredIsOpen' BY <1>1 DEF IInv, RegisteredIsOpen
<1>9. StagesOK'
  <2>1. \A r \in Subs \ {s} : missed'[r] = missed[r]
    BY <1>1 DEF Send, OneMore, IInv, TypeOK
  <2>2. pc[s] # "new" BY <1>1 DEF IInv, StagesOK
  <2>3. QED BY <1>1, <2>1, <2>2 DEF IInv, StagesOK
<1>10. QED BY <1>3, <1>4, <1>6, <1>7, <1>8, <1>9 DEF IInv

\* A stream that ends takes its subscription and its channel with it.
LEMMA UnsubscribeKeeps == ASSUME IInv, NEW s \in Subs, Unsubscribe(s) PROVE IInv'
<1>1. /\ pc[s] = "leave" /\ pc' = [pc EXCEPT ![s] = "done"]
      /\ registered' = registered \ {s}
      /\ closed' = closed \union (registered \intersect {s})
      /\ chan' = [chan EXCEPT ![s] = <<>>] /\ got' = [got EXCEPT ![s] = <<>>]
      /\ due' = [due EXCEPT ![s] = {}] /\ lost' = [lost EXCEPT ![s] = {}]
      /\ missed' = [missed EXCEPT ![s] = 0] /\ quiet' = [quiet EXCEPT ![s] = 0]
      /\ UNCHANGED <<announced, eventChan, dispatch, beat, stamp, panicked, held, connected>>
  BY DEF Unsubscribe, At, Goto
<1>2. held[s] = None BY <1>1 DEF IInv, StagesOK
<1>3. TypeOK'
  <2>1. Cardinality(registered') <= MaxSubs BY <1>1, FewerRegistered DEF IInv
  <2>2. /\ <<>> \in Seq(Numbers) /\ Len(<<>>) <= ChanCap /\ 0 \in 0..IdleRounds
        /\ {} \in SUBSET Numbers
    BY EmptySeq, NotificationAssumption
  <2>3. chan' \in [Subs -> Seq(Numbers)] /\ got' \in [Subs -> Seq(Numbers)]
    BY <1>1, <2>2 DEF IInv, TypeOK
  <2>4. \A r \in Subs : Len(chan'[r]) <= ChanCap BY <1>1, <2>2 DEF IInv, TypeOK
  <2>5. /\ missed' \in [Subs -> 0..IdleRounds] /\ quiet' \in [Subs -> 0..IdleRounds]
        /\ due' \in [Subs -> SUBSET Numbers] /\ lost' \in [Subs -> SUBSET Numbers]
    BY <1>1, <2>2 DEF IInv, TypeOK
  <2>6. registered' \subseteq Subs /\ closed' \subseteq Subs BY <1>1 DEF IInv, TypeOK
  <2>7. pc' \in [Subs -> {"new", "greet", "select", "send", "leave", "done"}]
    BY <1>1 DEF IInv, TypeOK
  <2>8. QED BY <1>1, <2>1, <2>3, <2>4, <2>5, <2>6, <2>7 DEF IInv, TypeOK
<1>4. /\ pc'[s] = "done" /\ chan'[s] = <<>> /\ got'[s] = <<>> /\ held'[s] = None
      /\ due'[s] = {} /\ s \notin registered'
  BY <1>1, <1>2 DEF IInv, TypeOK
<1>5. \A r \in Subs \ {s} :
         /\ pc'[r] = pc[r] /\ chan'[r] = chan[r] /\ got'[r] = got[r] /\ held'[r] = held[r]
         /\ due'[r] = due[r] /\ lost'[r] = lost[r] /\ missed'[r] = missed[r]
         /\ quiet'[r] = quiet[r]
         /\ r \in registered' <=> r \in registered
         /\ r \in closed' <=> r \in closed
  BY <1>1 DEF IInv, TypeOK
<1>6. EventsIn(Pipeline(s))' = {} /\ Increasing(Pipeline(s))'
  <2>1. PartsOf(s)' BY <1>3, PipelinePartsNext
  <2>2. InHand(s)' = <<>> BY <1>4 DEF InHand
  <2>3. QED BY <1>4, <2>1, <2>2, SmallSequences DEF PartsOf, Before
<1>7. \A r \in Subs \ {s} : /\ EventsIn(Pipeline(r))' = EventsIn(Pipeline(r))
                           /\ Increasing(Pipeline(r))' = Increasing(Pipeline(r))
  BY <1>5, SameParts
<1>8. NoneAhead' BY <1>1, <1>6, <1>7 DEF IInv, NoneAhead
<1>9. DueOK' BY <1>1, <1>4, <1>5 DEF IInv, DueOK
<1>10. DeliveredInOrder' BY <1>6, <1>7 DEF IInv, DeliveredInOrder
<1>11. NoSilentLoss' BY <1>1, <1>4, <1>5, <1>7 DEF IInv, NoSilentLoss
<1>12. QueueOK' BY <1>1, QueueKept
<1>13. StagesOK'
  <2>1. \A r \in Subs \ {s} : /\ r \in registered' <=> r \in registered
                              /\ r \in closed' <=> r \in closed
    BY <1>5
  <2>2. dispatch' = dispatch /\ beat' = beat BY <1>1
  <2>3. ASSUME NEW r \in Subs \ {s}
        PROVE  /\ r \in registered' \union closed' \union dispatch'.left \union beat'
                     => pc'[r] # "new"
               /\ pc'[r] = "new" => missed'[r] = 0
               /\ held'[r] # None => pc'[r] = "send"
    BY <1>5, <2>1, <2>2 DEF IInv, StagesOK
  <2>4. QED BY <1>4, <2>3 DEF StagesOK
<1>14. MissedIsQuiet'
  <2>1. registered' \subseteq Subs BY <1>3 DEF TypeOK
  <2>2. QED BY <1>1, <1>4, <1>5, <2>1 DEF IInv, MissedIsQuiet
<1>15. RegisteredIsOpen' BY <1>1 DEF IInv, RegisteredIsOpen
<1>16. QED
  BY <1>3, <1>8, <1>9, <1>10, <1>11, <1>12, <1>13, <1>14, <1>15 DEF IInv

-----------------------------------------------------------------------------
\* Every step keeps the inductive invariant.
LEMMA StepKeeps == IInv /\ [Next]_vars => IInv'
<1> SUFFICES ASSUME IInv, [Next]_vars PROVE IInv' OBVIOUS
<1>1. CASE UNCHANGED vars
  <2>1. UNCHANGED <<announced, eventChan, registered, chan, closed, missed, quiet, dispatch,
                    beat, stamp, pc, held, connected, got, due, lost, panicked>>
    BY <1>1 DEF vars, handlerVars, notifierVars
  <2>2. TypeOK' BY <2>1 DEF IInv, TypeOK
  <2>3. RegisteredIsOpen' /\ StagesOK' /\ MissedIsQuiet'
    BY <2>1 DEF IInv, RegisteredIsOpen, StagesOK, MissedIsQuiet
  <2>4. QueueOK' BY <2>1, QueueKept
  <2>5. NoneAhead' /\ DueOK' /\ DeliveredInOrder' /\ NoSilentLoss'
    BY <2>1, PipelinesUntouched
  <2>6. QED BY <2>2, <2>3, <2>4, <2>5 DEF IInv
<1>2. CASE NotifyChange BY <1>2, NotifyChangeKeeps
<1>3. CASE ProcessChangeEvent BY <1>3, ProcessChangeEventKeeps
<1>4. CASE StartHeartbeats BY <1>4, StartHeartbeatsKeeps
<1>5. CASE Cleanup BY <1>5, CleanupKeeps
<1>6. ASSUME NEW g \in Senders, SetLastActivity(g) PROVE IInv' BY <1>6, SetLastActivityKeeps
<1>7. ASSUME NEW s \in Subs,
             SendEvent(s) \/ SendHeartbeat(s) \/ Subscribe(s) \/ Handler(s) \/ Disconnect(s)
      PROVE  IInv'
  <2>1. CASE SendEvent(s) BY <2>1, SendEventKeeps
  <2>2. CASE SendHeartbeat(s) BY <2>2, SendHeartbeatKeeps
  <2>3. CASE Subscribe(s) BY <2>3, SubscribeKeeps
  <2>4. CASE Handler(s)
    BY <2>4, GreetKeeps, ReceiveKeeps, StreamSendKeeps, StreamDoneKeeps, UnsubscribeKeeps
       DEF Handler
  <2>5. CASE Disconnect(s) BY <2>5, DisconnectKeeps
  <2>6. QED BY <1>7, <2>1, <2>2, <2>3, <2>4, <2>5
<1>8. QED BY <1>1, <1>2, <1>3, <1>4, <1>5, <1>6, <1>7 DEF Next

\* The inductive invariant holds of every reachable state.
THEOREM Inductive == Spec => []IInv
BY InitIInv, StepKeeps, PTL DEF Spec

\* The state has its type, and no channel of Subscribe is closed twice, whoever of
\* Unsubscribe and cleanupInactiveSubscriptions comes second.
THEOREM Typed == Spec => []NotificationInv
<1>1. IInv => NotificationInv BY DEF IInv, NotificationInv
<1>2. QED BY <1>1, Inductive, PTL

\* processChangeEvent brings each client the events in the order NotifyChange was
\* called, none twice, across its channel, its handler and what it received.
THEOREM InOrder == Spec => []DeliveredInOrder
<1>1. IInv => DeliveredInOrder BY DEF IInv
<1>2. QED BY <1>1, Inductive, PTL

\* Every matching event the loop dispatched to a subscription is delivered, on its
\* way, or was dropped at a full or closed channel; nothing else reaches it.
THEOREM NoneLostSilently == Spec => []NoSilentLoss
<1>1. IInv => NoSilentLoss BY DEF IInv
<1>2. QED BY <1>1, Inductive, PTL

\* Only the cleanup and Unsubscribe close a channel.
LEMMA ClosedBy ==
    ASSUME [Next]_vars, closed' # closed
    PROVE  Cleanup \/ \E s \in Subs : Unsubscribe(s)
<1>1. ~UNCHANGED vars BY DEF vars
<1>2. ~NotifyChange /\ ~ProcessChangeEvent /\ ~StartHeartbeats
  BY DEF NotifyChange, ProcessChangeEvent, StartHeartbeats
<1>3. \A g \in Senders : ~SetLastActivity(g) BY DEF SetLastActivity
<1>4. \A s \in Subs : /\ ~SendEvent(s) /\ ~SendHeartbeat(s) /\ ~Subscribe(s) /\ ~Greet(s)
                      /\ ~Receive(s) /\ ~StreamSend(s) /\ ~StreamDone(s) /\ ~Disconnect(s)
  BY DEF SendEvent, SendHeartbeat, Subscribe, Greet, Receive, StreamSend, StreamDone,
         Disconnect
<1>5. QED BY <1>1, <1>2, <1>3, <1>4 DEF Next, Handler

\* cleanupInactiveSubscriptions takes the channel of a stream that is served only when
\* nothing was sent on it for the hour, or while a sender that just served it has yet
\* to set LastActivity.
THEOREM OnlySilent == Spec => OnlySilentCutOff
<1>1. ASSUME IInv, [Next]_vars, NEW s \in closed' \ closed, pc[s] # "leave"
      PROVE  quiet[s] = IdleRounds \/ \E g \in Senders : stamp[g] = s
  <2>1. Cleanup \/ \E r \in Subs : Unsubscribe(r) BY <1>1, ClosedBy
  <2>2. CASE Cleanup
    <3>1. s \in registered /\ missed[s] >= IdleRounds BY <1>1, <2>2 DEF Cleanup
    <3>2. quiet[s] \in 0..IdleRounds /\ missed[s] \in 0..IdleRounds
      BY <1>1, <3>1 DEF IInv, TypeOK
    <3>3. missed[s] <= quiet[s] \/ \E g \in Senders : stamp[g] = s
      BY <1>1, <3>1 DEF IInv, MissedIsQuiet
    <3>4. QED BY <3>1, <3>2, <3>3, NotificationAssumption
  <2>3. ASSUME NEW r \in Subs, Unsubscribe(r) PROVE FALSE
    BY <1>1, <2>3 DEF Unsubscribe, At
  <2>4. QED BY <2>1, <2>2, <2>3
<1>2. IInv /\ [Next]_vars =>
         [\A s \in closed' \ closed :
             pc[s] # "leave" => quiet[s] = IdleRounds \/ \E g \in Senders : stamp[g] = s]_vars
  BY <1>1
<1>3. QED BY <1>2, Inductive, PTL DEF Spec, OnlySilentCutOff
=============================================================================
