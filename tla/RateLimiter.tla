---------------------------- MODULE RateLimiter ----------------------------
(***************************************************************************)
(* The gateway's per-address rate limiter                                  *)
(* (gateway/internal/middleware/ratelimit.go): a map of token buckets that *)
(* request goroutines share with the goroutine that evicts idle entries.   *)
(*                                                                         *)
(* A goroutine's pc is where it may be preempted:                          *)
(*   idle     before its first request                                     *)
(*   found    holds RLock, has read time.Now(), is about to store it       *)
(*   missed   released RLock without an entry, has not called Lock         *)
(*   waiting  has called Lock                                              *)
(*   allow    has its limiter, is about to call Allow                      *)
(*   deciding Allow has read time.Now(), has not taken the limiter's mutex *)
(*   passed, limited   the verdict; the goroutine may serve a request again*)
(* What runs under Lock runs alone and is one step.  The data race on      *)
(* lastSeen is the order of the Stamp steps: on the monotonic clock, which *)
(* Before compares, a torn time.Time carries one of the two writers' times.*)
(***************************************************************************)
EXTENDS Integers

CONSTANTS
    Goroutine,    \* goroutines serving requests
    Address,      \* client addresses
    Limiter,      \* identities of ipLimiter entries
    NULL,         \* no entry
    Burst, Rate,  \* rate.NewLimiter's depth and tokens per unit of time
    IdleTimeout,  \* an entry unseen for longer is evicted
    MaxStall,     \* longest time from reading the clock to what is next done
                  \* with it, and to the next reading
    MaxClock      \* bound of the model

\* Load requires rps > 0 and burst > 0.  Ten minutes refill a bucket: only then
\* does forgetting an idle bucket give nothing away.  (Two stalls are what the
\* racing lastSeen may lag behind the last use of a bucket, three what it may lag
\* behind a decision.)  config.go does not check the timeout against the rate.
ASSUME LimiterAssumption ==
    /\ NULL \notin Limiter \cup Address \cup Int
    /\ Burst \in Nat \ {0} /\ Rate \in Nat \ {0}
    /\ MaxStall \in Nat /\ MaxClock \in Nat
    /\ IdleTimeout \in Nat
    /\ IdleTimeout >= 3 * MaxStall
    /\ Rate * (IdleTimeout + 1 - 2 * MaxStall) >= Burst

VARIABLES
    clock,
    limiters,  \* the map: the entry of each address
    entry,     \* the entries: lastSeen, and the limiter's tokens and last
    pc, addr,
    held,      \* the entry a goroutine found or created
    since,     \* its latest time.Now()
    cutoff     \* evictIdle's, while it waits for Lock
goVars == <<pc, addr, held, since>>
vars == <<clock, limiters, entry, goVars, cutoff>>

Verdicts == {"idle", "passed", "limited"}
ASSUME AddressAssumption == Address \cap Verdicts = {}
PC == Verdicts \cup {"found", "missed", "waiting", "allow", "deciding"}
Busy == {"found", "allow", "deciding"}

\* RLock is held from the lookup to the end of the fast path.
Readers == {g \in Goroutine : pc[g] = "found"}

\* A lock that prefers readers.
RLockableUnfair == TRUE
\* sync.RWMutex lets no new reader in once a writer has called Lock.
RLockable == cutoff = NULL /\ \A g \in Goroutine : pc[g] # "waiting"

\* A time before the last one brings nothing.
Elapsed(e, time) == IF time > e.last THEN time - e.last ELSE 0
Refilled(e, time) == e.tokens + Rate * Elapsed(e, time)
\* A bug that lets tokens pile up, as if burst were not passed on.
TokensUncapped(e, time) == Refilled(e, time)
\* rate.Limiter refills lazily, up to the time it is asked about.
Tokens(e, time) == IF Refilled(e, time) > Burst THEN Burst ELSE Refilled(e, time)
NewEntry == [tokens |-> Burst, last |-> clock, lastSeen |-> clock]

Blank == [tokens |-> 0, last |-> 0, lastSeen |-> 0]

Entries == {limiters[a] : a \in Address} \ {NULL}
Held == {held[g] : g \in {h \in Goroutine : pc[h] \in Busy}}
Unused == Limiter \ (Entries \cup Held)

-----------------------------------------------------------------------------
Init ==
    /\ clock = 0
    /\ limiters = [a \in Address |-> NULL]
    /\ entry = [l \in Limiter |-> Blank]
    /\ pc = [g \in Goroutine |-> "idle"]
    /\ addr = [g \in Goroutine |-> NULL]
    /\ held = [g \in Goroutine |-> NULL]
    /\ since = [g \in Goroutine |-> 0]
    /\ cutoff = NULL

\* getLimiter's fast path up to time.Now().
Find(g, a) ==
    /\ pc[g] \in Verdicts
    /\ RLockable
    /\ limiters[a] # NULL
    /\ pc' = [pc EXCEPT ![g] = "found"]
    /\ addr' = [addr EXCEPT ![g] = a]
    /\ held' = [held EXCEPT ![g] = limiters[a]]
    /\ since' = [since EXCEPT ![g] = clock]
    /\ UNCHANGED <<clock, limiters, entry, cutoff>>

Miss(g, a) ==
    /\ pc[g] \in Verdicts
    /\ RLockable
    /\ limiters[a] = NULL
    /\ pc' = [pc EXCEPT ![g] = "missed"]
    /\ addr' = [addr EXCEPT ![g] = a]
    /\ UNCHANGED <<clock, limiters, entry, held, since, cutoff>>

\* A bug that does not record the use of an entry.
StampNothing(g) ==
    /\ pc[g] = "found"
    /\ pc' = [pc EXCEPT ![g] = "allow"]
    /\ UNCHANGED <<clock, limiters, entry, addr, held, since, cutoff>>
\* Store the time under RLock, and release it.
Stamp(g) ==
    /\ pc[g] = "found"
    /\ entry' = [entry EXCEPT ![held[g]].lastSeen = since[g]]
    /\ pc' = [pc EXCEPT ![g] = "allow"]
    /\ UNCHANGED <<clock, limiters, addr, held, since, cutoff>>

CallLock(g) ==
    /\ pc[g] = "missed"
    /\ pc' = [pc EXCEPT ![g] = "waiting"]
    /\ UNCHANGED <<clock, limiters, entry, addr, held, since, cutoff>>

\* A bug that does not look again under Lock.
InsertBlindly(g) ==
    LET fresh == CHOOSE l \in Unused : TRUE IN
    /\ pc[g] = "waiting"
    /\ Readers = {}
    /\ Unused # {}
    /\ limiters' = [limiters EXCEPT ![addr[g]] = fresh]
    /\ held' = [held EXCEPT ![g] = fresh]
    /\ entry' = [entry EXCEPT ![fresh] = NewEntry]
    /\ pc' = [pc EXCEPT ![g] = "allow"]
    /\ since' = [since EXCEPT ![g] = clock]
    /\ UNCHANGED <<clock, addr, cutoff>>
\* The slow path under Lock: look again, then create the entry.
Insert(g) ==
    LET fresh == CHOOSE l \in Unused : TRUE
        known == limiters[addr[g]]
    IN
    /\ pc[g] = "waiting"
    /\ Readers = {}
    /\ \/ /\ known # NULL
          /\ held' = [held EXCEPT ![g] = known]
          /\ entry' = [entry EXCEPT ![known].lastSeen = clock]
          /\ UNCHANGED limiters
       \/ /\ known = NULL
          /\ Unused # {}
          /\ limiters' = [limiters EXCEPT ![addr[g]] = fresh]
          /\ held' = [held EXCEPT ![g] = fresh]
          /\ entry' = [entry EXCEPT ![fresh] = NewEntry]
    /\ pc' = [pc EXCEPT ![g] = "allow"]
    /\ since' = [since EXCEPT ![g] = clock]
    /\ UNCHANGED <<clock, addr, cutoff>>

\* Allow: read the clock ...
Allow(g) ==
    /\ pc[g] = "allow"
    /\ since' = [since EXCEPT ![g] = clock]
    /\ pc' = [pc EXCEPT ![g] = "deciding"]
    /\ UNCHANGED <<clock, limiters, entry, addr, held, cutoff>>

\* ... then AllowN under the limiter's mutex: take a token if that time has one,
\* and make it the limiter's, even if it is older than the limiter's own; a
\* refusal leaves the limiter alone.  The goroutine's locals are gone with its
\* request.
AllowN(g) ==
    LET tokens == Tokens(entry[held[g]], since[g]) IN
    /\ pc[g] = "deciding"
    /\ \/ /\ tokens > 0
          /\ entry' = [entry EXCEPT ![held[g]].tokens = tokens - 1,
                                    ![held[g]].last = since[g]]
          /\ pc' = [pc EXCEPT ![g] = "passed"]
       \/ /\ tokens = 0
          /\ pc' = [pc EXCEPT ![g] = "limited"]
          /\ UNCHANGED entry
    /\ addr' = [addr EXCEPT ![g] = NULL]
    /\ held' = [held EXCEPT ![g] = NULL]
    /\ since' = [since EXCEPT ![g] = 0]
    /\ UNCHANGED <<clock, limiters, cutoff>>

\* evictIdle reads the clock before it calls Lock.  The ticker may fire at any
\* time.
EvictCall ==
    /\ cutoff = NULL
    /\ cutoff' = clock - IdleTimeout
    /\ UNCHANGED <<clock, limiters, entry, goVars>>

Evict ==
    /\ cutoff # NULL
    /\ Readers = {}
    /\ limiters' = [a \in Address |->
                      IF limiters[a] # NULL /\ entry[limiters[a]].lastSeen < cutoff
                      THEN NULL ELSE limiters[a]]
    /\ cutoff' = NULL
    /\ UNCHANGED <<clock, entry, goVars>>

\* Time passes.  No goroutine is preempted for more than MaxStall after reading
\* the clock.
Tick ==
    /\ clock < MaxClock
    /\ \A g \in Goroutine : pc[g] \in Busy => clock - since[g] < MaxStall
    /\ clock' = clock + 1
    /\ UNCHANGED <<limiters, entry, goVars, cutoff>>

Progress(g) == Stamp(g) \/ CallLock(g) \/ Insert(g) \/ Allow(g) \/ AllowN(g)

Next ==
    \/ \E g \in Goroutine :
         \/ \E a \in Address : Find(g, a) \/ Miss(g, a)
         \/ Stamp(g) \/ CallLock(g) \/ Insert(g) \/ Allow(g) \/ AllowN(g)
    \/ EvictCall \/ Evict \/ Tick

Spec == Init /\ [][Next]_vars

\* Go schedules every runnable goroutine.  Nothing is assumed of clients, the
\* ticker or the clock.
Fairness == /\ \A g \in Goroutine : WF_vars(Progress(g))
            /\ WF_vars(Evict)
FairSpec == Spec /\ Fairness
-----------------------------------------------------------------------------
Entry == [tokens : 0..Burst, last : Nat, lastSeen : Nat]

\* The type invariant; no bucket ever holds more than a burst.
TypeOK ==
    /\ clock \in Nat
    /\ limiters \in [Address -> Limiter \cup {NULL}]
    /\ entry \in [Limiter -> Entry]
    /\ pc \in [Goroutine -> PC]
    /\ addr \in [Goroutine -> Address \cup {NULL}]
    /\ held \in [Goroutine -> Limiter \cup {NULL}]
    /\ since \in [Goroutine -> Nat]
    /\ cutoff \in Int \cup {NULL}

\* All requests of an address are decided by one limiter, the one in the map:
\* neither two goroutines that miss together nor an eviction can leave a
\* goroutine with a limiter of its own, whose tokens nobody else counts.
OneLimiterPerAddress ==
    \A g \in Goroutine : pc[g] \in Busy => held[g] = limiters[addr[g]]

\* The bucket of an address without an entry is full.
Level(a) ==
    IF limiters[a] = NULL THEN Burst ELSE Tokens(entry[limiters[a]], clock)
RequestOf(g) == IF pc[g] \in Verdicts THEN pc[g] ELSE addr[g]
ReadingOf(g) == IF pc[g] = "deciding" THEN since[g] ELSE NULL

\* Locks, map, lazy refill, racing times and eviction are invisible: every
\* verdict is one an immortal token bucket per address gives.  All that shows is
\* how late a goroutine decides after Allow's time.Now(): a late pass may put back
\* what its delay brought, a late refusal may overlook it.
Buckets ==
    INSTANCE TokenBucket WITH
        level <- [a \in Address |-> Level(a)],
        request <- [g \in Goroutine |-> RequestOf(g)],
        reading <- [g \in Goroutine |-> ReadingOf(g)]
RefinesBuckets == Buckets!Spec

\* No request waits for ever for the lock, whatever readers, writers and the
\* cleanup do.
RequestsDecided ==
    \A g \in Goroutine : pc[g] \notin Verdicts ~> pc[g] \in Verdicts

\* ratelimit.go:21, "safe for concurrent use", and lines 27-28, "reads (check)
\* use RLock, writes (add new IP) use Lock": no two goroutines write one
\* entry's lastSeen at a time.
SafeForConcurrentUse ==
    \A g, h \in Readers : held[g] = held[h] => g = h
=============================================================================
