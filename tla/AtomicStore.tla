---------------------------- MODULE AtomicStore ----------------------------
(***************************************************************************)
(* What MarginOfferStore (types/interfaces.go) promises its callers: a     *)
(* table of offers on which every call, single or bulk, takes effect at    *)
(* one moment.  A bulk call's effect is given in closed form: of the       *)
(* offers a batch gives for one ID the last one stays, and an ID the       *)
(* batch does not name keeps what it had.  A refused call has no effect.   *)
(***************************************************************************)
EXTENDS Offers

CONSTANTS
    MaxClock      \* bound: no call stores anything from this time on

VARIABLES
    table,        \* the offers a reader sees
    reply,        \* what the last call to return returned
    clock         \* the time

vars == <<table, reply, clock>>

Init == table = EmptyTable /\ reply = "none" /\ clock = 1

Present(id) == table[id] # None

First(b, id) == b[CHOOSE i \in DOMAIN b : b[i].id = id /\ \A j \in 1..(i-1) : b[j].id # id]
Last(b, id) == b[CHOOSE i \in DOMAIN b : b[i].id = id /\ \A j \in (i+1)..Len(b) : b[j].id # id]

\* The table after every ID of b got the last offer b has for it, with the
\* creation time Created says.
Overlaid(t, b, Created(_)) ==
    [id \in Ids |-> IF id \in BatchIds(b)
                    THEN Stamped(Last(b, id), Created(id), clock) ELSE t[id]]

OldCreated(id) == table[id].created
UpsertCreated(b, id) == IF Present(id) THEN OldCreated(id)
                                       ELSE CreatedOr(First(b, id), clock)
Without(t, ids) == [id \in Ids |-> IF id \in ids THEN None ELSE t[id]]

Become(t) == table' = t /\ reply' = "ok" /\ clock < MaxClock /\ clock' = clock + 1
Remove(ids) == table' = Without(table, ids) /\ reply' = "ok" /\ clock' = clock
Refuse(r) == reply' = r /\ UNCHANGED <<table, clock>>

-----------------------------------------------------------------------------
Create(o) ==
    \/ ~o.valid /\ Refuse("invalid")
    \/ o.valid /\ Present(o.id) /\ Refuse("exists")
    \/ /\ o.valid /\ ~Present(o.id)
       /\ Become([table EXCEPT ![o.id] = Stamped(o, clock, clock)])

Update(o) ==
    \/ ~o.valid /\ Refuse("invalid")
    \/ o.valid /\ ~Present(o.id) /\ Refuse("missing")
    \/ /\ o.valid /\ Present(o.id)
       /\ Become([table EXCEPT ![o.id] = Stamped(o, o.created, clock)])

CreateOrUpdate(o) ==
    \/ ~o.valid /\ Refuse("invalid")
    \/ /\ o.valid
       /\ Become([table EXCEPT ![o.id] =
                    Stamped(o, UpsertCreated(<<o>>, o.id), clock)])

Delete(id) ==
    \/ ~Present(id) /\ Refuse("missing")
    \/ Present(id) /\ Remove({id})

\* Of two reasons to refuse a batch, which one is named is left open.
BulkCreate(b) ==
    \/ ~AllValid(b) /\ Refuse("invalid")
    \/ /\ \/ Repeated(b) # {}
          \/ \E id \in BatchIds(b) : Present(id)
       /\ Refuse("exists")
    \/ b = <<>> /\ Refuse("ok")
    \/ /\ AllValid(b) /\ Repeated(b) = {}
       /\ \A id \in BatchIds(b) : ~Present(id)
       /\ Become(Overlaid(table, b, LAMBDA id : clock))

BulkUpdate(b) ==
    \/ ~AllValid(b) /\ Refuse("invalid")
    \/ (\E id \in BatchIds(b) : ~Present(id)) /\ Refuse("missing")
    \/ b = <<>> /\ Refuse("ok")
    \/ /\ AllValid(b)
       /\ \A id \in BatchIds(b) : Present(id)
       /\ Become(Overlaid(table, b, OldCreated))

BulkDelete(b) ==
    \/ (\E id \in BatchIds(b) : ~Present(id)) /\ Refuse("missing")
    \/ (\A id \in BatchIds(b) : Present(id)) /\ Remove(BatchIds(b))

BulkCreateOrUpdate(b) ==
    \/ ~AllValid(b) /\ Refuse("invalid")
    \/ b = <<>> /\ Refuse("ok")
    \/ /\ AllValid(b)
       /\ Become(Overlaid(table, b, LAMBDA id : UpsertCreated(b, id)))

BulkOverwrite(b, f) ==
    \/ ~AllValid(b) /\ Refuse("invalid")
    \/ /\ AllValid(b)
       /\ Become(Overlaid(Without(table, OffersToDelete(table, f)), b,
                          LAMBDA id : CreatedOr(Last(b, id), clock)))

\* The process ends, or closes the store: what it held is lost.
Lose == table' = EmptyTable /\ reply' \in {"none", reply} /\ clock' = clock

Next ==
    \/ \E o \in Inputs : Create(o) \/ Update(o) \/ CreateOrUpdate(o)
    \/ \E id \in Ids : Delete(id)
    \/ \E b \in Batches : \/ BulkCreate(b) \/ BulkUpdate(b) \/ BulkDelete(b)
                          \/ BulkCreateOrUpdate(b)
                          \/ \E f \in Filters : BulkOverwrite(b, f)
    \/ Lose

Spec == Init /\ [][Next]_vars
=============================================================================
