---------------------------- MODULE MarginfiSync ----------------------------
(***************************************************************************)
(* MarginFiSyncService (backfillers/marginfi): fetch the banks, overwrite  *)
(* the store with them, again at every interval.  JavaScript runs one      *)
(* piece of code at a time, so a method's effects up to its next await are *)
(* one step; between two awaits anything else may run: a tick of the       *)
(* timer, stop, another start, forceSync, another client of the store.     *)
(*                                                                         *)
(* A fetch is known by its number, the later the fresher.                  *)
(***************************************************************************)
EXTENDS Naturals, FiniteSets

CONSTANTS
    Starts,       \* calls of start(); a call sets at most one timer, named by it
    Forces,       \* calls of forceSync()
    Overlap,      \* bound: syncs one timer may have under way
    MaxFetches,   \* bound: fetches told apart; the later ones count as one
    NamesMatch,   \* do the request's field names mean something to the loader?
                  \* They are camelCase and keepCase is set, so they do not
    BanksParsed,  \* does parseBankAccount return banks?  It returns null
    Null

ASSUME MarginfiAssumption ==
    /\ Starts \cap Forces = {}
    /\ Overlap \in Nat \ {0} /\ MaxFetches \in Nat
    /\ NamesMatch \in BOOLEAN /\ BanksParsed \in BOOLEAN
    /\ Null \notin Starts

VARIABLES
    isRunning,
    syncInterval, \* the timer stop() would clear, or Null
    live,         \* the timers that have not been cleared
    start,        \* where each call of start is
    sync,         \* each sync: where it is, and the fetch it is to store
    fetches,      \* fetches so far
    banks,        \* the store: the fetch its MarginFi offers are from, or 0; are
                  \* there offers of other clients?
    raced         \* history: stop was called while a start awaited its first sync

syncVars == <<isRunning, syncInterval, live, start, sync, fetches, banks, raced>>
timers == <<isRunning, syncInterval, live>>

\* The first sync of a start, the syncs of its timer, the forced ones.
Runs == (Starts \X (0..Overlap)) \union (Forces \X {0})
Idle == [pc |-> "idle", from |-> 0, mock |-> FALSE]
Awaiting(s) == start[s] = "awaiting"

\* Types; the timer stop() would clear is one that fires, and a start that waits
\* for its first sync has one.
SyncTypeOK ==
    /\ isRunning \in BOOLEAN /\ raced \in BOOLEAN
    /\ live \subseteq Starts /\ syncInterval \in live \union {Null}
    /\ start \in [Starts -> {"new", "awaiting", "returned", "thrown"}]
    /\ sync \in [Runs -> [pc: {"idle", "fetching", "writing"}, from: 0..MaxFetches,
                          mock: BOOLEAN]]
    /\ fetches \in 0..MaxFetches
    /\ banks \in [from: 0..MaxFetches, others: BOOLEAN]
    /\ \A s \in Starts : Awaiting(s) <=> sync[<<s, 0>>].pc # "idle"

SyncInit ==
    /\ isRunning = FALSE /\ syncInterval = Null /\ live = {}
    /\ start = [s \in Starts |-> "new"]
    /\ sync = [r \in Runs |-> Idle]
    /\ fetches = 0 /\ banks = [from |-> 0, others |-> FALSE]
    /\ raced = FALSE

-----------------------------------------------------------------------------
\* syncBanks up to its first await.
SyncBanks(r) == sync[r].pc = "idle" /\ sync' = [sync EXCEPT ![r].pc = "fetching"]

\* A mutant of Start: no look at isRunning.
StartUnmarked(s) ==
    /\ start[s] = "new"
    /\ start' = [start EXCEPT ![s] = "awaiting"]
    /\ SyncBanks(<<s, 0>>)
    /\ isRunning' = TRUE
    /\ UNCHANGED <<syncInterval, live, fetches, banks, raced>>

Start(s) ==
    /\ start[s] = "new"
    /\ \/ /\ isRunning
          /\ start' = [start EXCEPT ![s] = "returned"]
          /\ UNCHANGED <<isRunning, sync>>
       \/ /\ ~isRunning
          /\ isRunning' = TRUE
          /\ start' = [start EXCEPT ![s] = "awaiting"]
          /\ SyncBanks(<<s, 0>>)
    /\ UNCHANGED <<syncInterval, live, fetches, banks, raced>>

\* fetchAllBanks: the banks of the accounts, or the mock banks if the accounts
\* cannot be had.
FetchAllBanks(r) ==
    /\ sync[r].pc = "fetching"
    /\ fetches' = IF fetches < MaxFetches THEN fetches + 1 ELSE fetches
    /\ \E mock \in BOOLEAN :
          sync' = [sync EXCEPT ![r] = [pc |-> "writing", from |-> fetches', mock |-> mock]]
    /\ UNCHANGED <<timers, start, banks, raced>>

\* The server refuses a message without offers and filter, and an offer whose type
\* it does not know: what it is to read under a name that is not sent is empty.
Accepted(r) == (sync[r].mock \/ BanksParsed) /\ NamesMatch

\* What awaits the sync goes on: start sets its timer or throws, a tick and
\* forceSync are done.
SyncEnds(r, ok) ==
    /\ sync' = [sync EXCEPT ![r] = Idle]
    /\ \/ /\ r[1] \in Starts /\ r[2] = 0 /\ ok
          /\ start' = [start EXCEPT ![r[1]] = "returned"]
          /\ syncInterval' = r[1] /\ live' = live \union {r[1]}
       \/ /\ r[1] \in Starts /\ r[2] = 0 /\ ~ok
          /\ start' = [start EXCEPT ![r[1]] = "thrown"]
          /\ UNCHANGED <<syncInterval, live>>
       \/ /\ r[1] \in Forces \/ r[2] > 0
          /\ UNCHANGED <<start, syncInterval, live>>

\* overwriteStore: BulkOverwriteMarginOffers without a filter.  The answer to one
\* the store did may be lost.
OverwriteStore(r) ==
    /\ sync[r].pc = "writing"
    /\ \/ /\ Accepted(r)
          /\ banks' = [from |-> sync[r].from, others |-> FALSE]
          /\ \E ok \in BOOLEAN : SyncEnds(r, ok)
       \/ ~Accepted(r) /\ SyncEnds(r, FALSE) /\ UNCHANGED banks
    /\ UNCHANGED <<isRunning, fetches, raced>>

StoreUnreachable(r) ==
    /\ sync[r].pc = "writing"
    /\ SyncEnds(r, FALSE)
    /\ UNCHANGED <<isRunning, fetches, banks, raced>>

\* An interval has passed.
Tick(s) ==
    /\ s \in live
    /\ \E n \in 1..Overlap : SyncBanks(<<s, n>>)
    /\ UNCHANGED <<timers, start, fetches, banks, raced>>

ForceSync(f) ==
    /\ SyncBanks(<<f, 0>>)
    /\ UNCHANGED <<timers, start, fetches, banks, raced>>

\* A mutant of Stop: the interval is forgotten, not cleared.
StopForgets ==
    /\ isRunning
    /\ isRunning' = FALSE
    /\ syncInterval' = Null
    /\ raced' = (raced \/ \E s \in Starts : Awaiting(s))
    /\ UNCHANGED <<live, start, sync, fetches, banks>>

Stop ==
    /\ isRunning
    /\ isRunning' = FALSE
    /\ syncInterval' = Null /\ live' = live \ {syncInterval}
    /\ raced' = (raced \/ \E s \in Starts : Awaiting(s))
    /\ UNCHANGED <<start, sync, fetches, banks>>

\* The Go backfiller, or anyone else, stores offers of its own.
OtherClient ==
    /\ banks' = [banks EXCEPT !.others = TRUE]
    /\ UNCHANGED <<timers, start, sync, fetches, raced>>

Answers(r) == FetchAllBanks(r) \/ OverwriteStore(r) \/ StoreUnreachable(r)

SyncNext ==
    \/ \E s \in Starts : Start(s) \/ Tick(s)
    \/ \E r \in Runs : Answers(r)
    \/ \E f \in Forces : ForceSync(f)
    \/ Stop \/ OtherClient

SyncSpec == SyncInit /\ [][SyncNext]_syncVars

\* The chain and the store answer, or the connection ends.
FairSpec == SyncSpec /\ \A r \in Runs : WF_syncVars(Answers(r))

-----------------------------------------------------------------------------
\* At most one timer fires, and only while the service runs, unless stop was called
\* during the first sync of a start (syncMarginFiBanks.ts:109-143).
OneTimerUnlessRaced ==
    raced \/ (Cardinality(live) <= 1 /\ live \subseteq {syncInterval}
              /\ (live # {} => isRunning))

\* No timer is set by a start whose first sync failed.
TimerAfterSuccess == \A s \in live : start[s] = "returned"

\* The state has its type, and the timers are those of the running service.
SyncInv == SyncTypeOK /\ OneTimerUnlessRaced /\ TimerAfterSuccess

\* Once stopped for good the service comes to rest, unless stop was called during
\* a first sync or syncs are forced: no tick goes on starting syncs.
ComesToRest ==
    <>[](~isRunning /\ ~raced) =>
        <>[](\A s \in Starts, n \in 0..Overlap : sync[<<s, n>>].pc = "idle")

\* A service that is not running has no timer: README.md:83 "Stop the service".
StoppedHasNoTimer ==
    (~isRunning /\ \A s \in Starts : ~Awaiting(s)) => live = {}

\* A running service has a timer once its first sync is over: README.md:133 "Store
\* Overwrite Failures: Logs error and retries on next cycle".
RunningHasTimer ==
    (isRunning /\ \A s \in Starts : ~Awaiting(s)) => live # {}

\* A sync leaves the offers of others: README.md:185 "Backfiller: Can be run
\* alongside the Go backfiller".
OthersSurvive == [][banks.others => banks'.others]_syncVars

\* What the store holds only gets fresher: README.md:114 "Completely replaces all
\* margin offers with fresh bank data".
OnlyFresher == [][banks'.from >= banks.from]_syncVars

\* A sync whose overwrite reaches the store replaces its offers: README.md:114, and
\* syncMarginFiBanks.ts:158 "Overwrite the store with new data".
ReachedIsReplaced ==
    [][\A r \in Runs : OverwriteStore(r) => banks'.from = sync[r].from]_syncVars
=============================================================================
