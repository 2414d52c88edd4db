---------------------------- MODULE TokenBucket ----------------------------
(***************************************************************************)
(* What the gateway's rate limiter promises: one token bucket per client   *)
(* address, refilled for ever and never forgotten.  A request reads the    *)
(* clock and is then decided: it takes a token from the bucket of its      *)
(* address, or is turned away because that bucket is empty.  There are no  *)
(* locks, no map and no eviction here.                                     *)
(*                                                                         *)
(* What the bucket was given between the reading and the decision is in    *)
(* doubt: a pass may be given it a second time, and a request may be       *)
(* turned away although it is there.  A request decided at the time it     *)
(* read meets an exact token bucket.                                       *)
(***************************************************************************)
EXTENDS Integers

CONSTANTS
    Goroutine,  \* goroutines serving requests
    Address,    \* client addresses
    NULL,       \* no reading
    Burst,      \* bucket depth: limits.burst
    Rate        \* tokens per unit of time: limits.requests_per_second

VARIABLES
    clock,
    level,      \* [Address -> 0..Burst]
    request,    \* a goroutine's request: the address it came from, or its verdict
    reading     \* the time it is decided by, once it has read the clock
vars == <<clock, level, request, reading>>

Verdicts == {"idle", "passed", "limited"}
Filled(tokens) == IF tokens > Burst THEN Burst ELSE tokens

Init == /\ clock = 0
        /\ level = [a \in Address |-> Burst]
        /\ request = [g \in Goroutine |-> "idle"]
        /\ reading = [g \in Goroutine |-> NULL]

Ask(g, a) == /\ request[g] \in Verdicts
             /\ request' = [request EXCEPT ![g] = a]
             /\ UNCHANGED <<clock, level, reading>>

Read(g) == /\ request[g] \in Address /\ reading[g] = NULL
           /\ reading' = [reading EXCEPT ![g] = clock]
           /\ UNCHANGED <<clock, level, request>>

\* What the delay of a request brought every bucket.
Doubt(g) == Rate * (clock - reading[g])

Decide(g, verdict) ==
    /\ reading[g] # NULL
    /\ request' = [request EXCEPT ![g] = verdict]
    /\ reading' = [reading EXCEPT ![g] = NULL]
    /\ UNCHANGED clock

Pass(g, a) ==
    /\ request[g] = a
    /\ level[a] > 0
    /\ Decide(g, "passed")
    /\ \E left \in (level[a] - 1)..Filled(level[a] - 1 + Doubt(g)) :
         level' = [level EXCEPT ![a] = left]

TurnAway(g, a) ==
    /\ request[g] = a
    /\ Decide(g, "limited")
    /\ level[a] <= Doubt(g)
    /\ UNCHANGED level

\* One unit of time, and what it brings.
Refill == /\ clock' = clock + 1
          /\ level' = [a \in Address |-> Filled(level[a] + Rate)]
          /\ UNCHANGED <<request, reading>>

Next == \/ \E g \in Goroutine, a \in Address :
             Ask(g, a) \/ Pass(g, a) \/ TurnAway(g, a)
        \/ \E g \in Goroutine : Read(g)
        \/ Refill

Spec == Init /\ [][Next]_vars
=============================================================================
