------------------------------ MODULE AdminApi ------------------------------
(***************************************************************************)
(* The engine's read-only admin calls (engine/src/grpc/service.rs):        *)
(* get_session, list_sessions with the task and the channel that stream    *)
(* its answer, and health_check, on the Redis pool they share with the     *)
(* inference pipeline.                                                     *)
(*                                                                         *)
(* A record is the tier it holds, 0 for none.  The pipeline and            *)
(* DeleteSession are the environment: they borrow connections and change   *)
(* records.  Each value of a pc is an await:                               *)
(*   acquire  the pool        keys, get, ping       Redis                  *)
(*   send     the channel     redis_up, redis_down  PostgreSQL             *)
(***************************************************************************)
EXTENDS Integers, Sequences, FiniteSets, TLC

CONSTANTS
    Hash,           \* session id hashes
    Tiers,          \* 1..3 in the code
    PoolSize,       \* max_size of the bb8 pool
    ChannelCap,     \* capacity of the stream's channel, 64 in the code
    Filters, Limits, \* values of a ListSessionsRequest
    MaxChanges      \* bound of the model: records the environment changes

ASSUME AdminAssumption ==
    /\ IsFiniteSet(Hash) /\ Tiers \subseteq Nat \ {0}
    /\ PoolSize \in Nat \ {0} /\ ChannelCap \in Nat \ {0}
    /\ Filters \subseteq Int /\ Limits \subseteq Int
    /\ MaxChanges \in Nat

VARIABLES
    store,              \* Redis: the tier under each session key
    poolIdle, lent,     \* connections no one holds, and the pipeline's
    listPc, filter, limit,
    todo,               \* hashes of KEYS not looked at yet
    current,            \* the hash being read, or its snapshot being sent
    stream, taken,      \* what was sent, and how much of it the client read
    client,             \* the receiving end
    getPc,
    healthPc,           \* where health_check waits, or what it answered
    changes,
    \* History: the sessions that have not changed since KEYS answered and
    \* whose GET did not fail.
    steady
storeVars  == <<store, changes, steady>>
poolVars   == <<poolIdle, lent>>
listVars   == <<listPc, filter, limit, todo, current, stream, taken, client>>
callVars   == <<getPc, healthPc>>
vars       == <<storeVars, poolVars, listVars, callVars>>

Snapshot(h) == [hash |-> h, tier |-> store[h]]
Answered == {"idle", "healthy", "degraded", "unhealthy"}
Listing == {"acquire", "keys", "get", "send"}

Init ==
    /\ store \in [Hash -> {0} \cup Tiers]
    /\ poolIdle = PoolSize /\ lent = 0
    /\ listPc = "idle" /\ filter = 0 /\ limit = 0 /\ todo = {}
    /\ current = <<>> /\ stream = <<>> /\ taken = 0 /\ client = "reading"
    /\ getPc = "idle" /\ healthPc = "idle"
    /\ changes = 0 /\ steady = {}

TakeConnection == poolIdle > 0 /\ poolIdle' = poolIdle - 1 /\ UNCHANGED lent
GiveBack == poolIdle' = poolIdle + 1 /\ UNCHANGED lent

(***************************************************************************)
(* list_sessions                                                           *)
(***************************************************************************)
ListStart ==
    /\ listPc = "idle"
    /\ listPc' = "acquire"
    /\ filter' \in Filters /\ limit' \in Limits
    /\ UNCHANGED <<storeVars, poolVars, todo, current, stream, taken, client,
                   callVars>>

ListAcquire ==
    /\ listPc = "acquire"
    /\ TakeConnection
    /\ listPc' = "keys"
    /\ UNCHANGED <<storeVars, filter, limit, todo, current, stream, taken,
                   client, callVars>>

\* A bug that waits for the pool without a timeout.
ListFailsWithoutTimeout ==
    /\ listPc = "keys" /\ GiveBack
    /\ listPc' = "failed"
    /\ UNCHANGED <<storeVars, filter, limit, todo, current, stream, taken,
                   client, callVars>>
\* The pool timed out or its connections are broken, or KEYS failed: the error is
\* the stream's only item.
ListFails ==
    /\ \/ listPc = "acquire" /\ UNCHANGED poolVars
       \/ listPc = "keys" /\ GiveBack
    /\ listPc' = "failed"
    /\ UNCHANGED <<storeVars, filter, limit, todo, current, stream, taken,
                   client, callVars>>

\* A bug that looks at the limit one item late.
FullLate == limit > 0 /\ Len(stream') > limit
\* The head of the loop: the task ends at the limit or when no hash is left,
\* and drops its connection and the sender; otherwise it asks for a record.
Full == limit > 0 /\ Len(stream') >= limit
Advance(remaining) ==
    \/ /\ remaining = {} \/ Full
       /\ listPc' = "ended" /\ todo' = {} /\ current' = <<>>
       /\ GiveBack
    \/ /\ ~ Full
       /\ \E h \in remaining : current' = <<h>> /\ todo' = remaining \ {h}
       /\ listPc' = "get"
       /\ UNCHANGED poolVars

\* KEYS answered, in any order.
ListKeys ==
    /\ listPc = "keys"
    /\ UNCHANGED stream
    /\ Advance({h \in Hash : store[h] # 0})
    /\ steady' = {h \in Hash : store[h] # 0}
    /\ UNCHANGED <<store, changes, filter, limit, taken, client, callVars>>

Wanted(h) == store[h] # 0 /\ (filter = 0 \/ store[h] = filter)

\* A bug that ends the listing at the first record the filter rejects.
ListGetUntilRejected ==
    /\ listPc = "get"
    /\ IF Wanted(current[1])
       THEN /\ current' = <<Snapshot(current[1])>>
            /\ listPc' = "send"
            /\ UNCHANGED <<poolVars, todo, stream>>
       ELSE UNCHANGED stream /\ Advance({})
    /\ UNCHANGED <<storeVars, filter, limit, taken, client, callVars>>
\* GET answered: a record the filter accepts is sent, the others are skipped.
ListGet ==
    /\ listPc = "get"
    /\ IF Wanted(current[1])
       THEN /\ current' = <<Snapshot(current[1])>>
            /\ listPc' = "send"
            /\ UNCHANGED <<poolVars, todo, stream>>
       ELSE UNCHANGED stream /\ Advance(todo)
    /\ UNCHANGED <<storeVars, filter, limit, taken, client, callVars>>

\* GET failed: the session is skipped without a word.
ListGetFails ==
    /\ listPc = "get"
    /\ UNCHANGED stream /\ Advance(todo)
    /\ steady' = steady \ {current[1]}
    /\ UNCHANGED <<store, changes, filter, limit, taken, client, callVars>>

HasRoom == Len(stream) - taken < ChannelCap
ListSend ==
    /\ listPc = "send" /\ client = "reading" /\ HasRoom
    /\ stream' = Append(stream, current[1])
    /\ Advance(todo)
    /\ UNCHANGED <<storeVars, filter, limit, taken, client, callVars>>

\* A bug that returns without dropping the connection.
ListHangUpLeaky ==
    /\ listPc = "send" /\ client = "gone"
    /\ listPc' = "ended" /\ todo' = {} /\ current' = <<>>
    /\ UNCHANGED <<storeVars, poolVars, filter, limit, stream, taken, client,
                   callVars>>
\* The client disconnected: send fails at once, even while it waits.
ListHangUp ==
    /\ listPc = "send" /\ client = "gone"
    /\ listPc' = "ended" /\ todo' = {} /\ current' = <<>>
    /\ GiveBack
    /\ UNCHANGED <<storeVars, filter, limit, stream, taken, client, callVars>>

\* The client reads an item, or leaves.
Receive ==
    /\ client = "reading" /\ taken < Len(stream)
    /\ taken' = taken + 1
    /\ UNCHANGED <<storeVars, poolVars, listPc, filter, limit, todo, current,
                   stream, client, callVars>>
Leave ==
    /\ client = "reading" /\ listPc # "idle"
    /\ client' = "gone"
    /\ UNCHANGED <<storeVars, poolVars, listPc, filter, limit, todo, current,
                   stream, taken, callVars>>

(***************************************************************************)
(* get_session                                                             *)
(***************************************************************************)
GetStart ==
    /\ getPc = "idle" /\ getPc' = "acquire"
    /\ UNCHANGED <<storeVars, poolVars, listVars, healthPc>>
GetAcquire ==
    /\ getPc = "acquire" /\ TakeConnection /\ getPc' = "get"
    /\ UNCHANGED <<storeVars, listVars, healthPc>>
\* A bug that counts a connection for a call that never got one.
GetEndDoubleDrop ==
    /\ \/ getPc = "acquire"
       \/ getPc = "get"
    /\ GiveBack
    /\ getPc' = "idle"
    /\ UNCHANGED <<storeVars, listVars, healthPc>>
\* Redis answered or failed, the pool timed out, or the caller gave up: the
\* call ends and drops what it holds.
GetEnd ==
    /\ \/ getPc = "acquire" /\ UNCHANGED poolVars
       \/ getPc = "get" /\ GiveBack
    /\ getPc' = "idle"
    /\ UNCHANGED <<storeVars, listVars, healthPc>>

(***************************************************************************)
(* health_check                                                            *)
(***************************************************************************)
HealthStart ==
    /\ healthPc \in Answered /\ healthPc' = "acquire"
    /\ UNCHANGED <<storeVars, poolVars, listVars, getPc>>
HealthAcquire ==
    /\ healthPc = "acquire" /\ TakeConnection /\ healthPc' = "ping"
    /\ UNCHANGED <<storeVars, listVars, getPc>>
\* The connection is dropped before PostgreSQL is asked.  A pool that gives none,
\* exhausted or broken, counts as Redis being down.
HealthPing ==
    /\ \/ healthPc = "acquire" /\ UNCHANGED poolVars
          /\ healthPc' = "redis_down"
       \/ healthPc = "ping" /\ GiveBack
          /\ healthPc' \in {"redis_up", "redis_down"}
    /\ UNCHANGED <<storeVars, listVars, getPc>>
HealthStatus(redisOk, postgresOk, modelsLoaded) ==
    IF redisOk /\ postgresOk /\ modelsLoaded THEN "healthy"
    ELSE IF redisOk \/ postgresOk THEN "degraded" ELSE "unhealthy"
HealthEnd ==
    /\ healthPc \in {"redis_up", "redis_down"}
    /\ \E postgresOk, modelsLoaded \in BOOLEAN :
         healthPc' = HealthStatus(healthPc = "redis_up", postgresOk, modelsLoaded)
    /\ UNCHANGED <<storeVars, poolVars, listVars, getPc>>
\* The caller gave up: tonic drops the call wherever it waits.
HealthDropped ==
    /\ healthPc \notin Answered /\ healthPc' = "idle"
    /\ IF healthPc = "ping" THEN GiveBack ELSE UNCHANGED poolVars
    /\ UNCHANGED <<storeVars, listVars, getPc>>

(***************************************************************************)
(* The rest of the engine                                                  *)
(***************************************************************************)
Borrow == /\ poolIdle > 0 /\ poolIdle' = poolIdle - 1 /\ lent' = lent + 1
          /\ UNCHANGED <<storeVars, listVars, callVars>>
Return == /\ lent > 0 /\ poolIdle' = poolIdle + 1 /\ lent' = lent - 1
          /\ UNCHANGED <<storeVars, listVars, callVars>>
\* A request writes a record, an admin deletes one, or its TTL runs out.
Change(h) ==
    /\ changes < MaxChanges /\ changes' = changes + 1
    /\ \E t \in {0} \cup Tiers : t # store[h] /\ store' = [store EXCEPT ![h] = t]
    /\ steady' = steady \ {h}
    /\ UNCHANGED <<poolVars, listVars, callVars>>

ListStep == ListAcquire \/ ListFails \/ ListKeys \/ ListGet \/ ListGetFails
            \/ ListSend \/ ListHangUp
Next ==
    \/ ListStart \/ ListStep \/ Receive \/ Leave
    \/ GetStart \/ GetAcquire \/ GetEnd
    \/ HealthStart \/ HealthAcquire \/ HealthPing \/ HealthEnd \/ HealthDropped
    \/ Borrow \/ Return \/ \E h \in Hash : Change(h)

Spec == Init /\ [][Next]_vars

\* tokio polls the spawned task whenever it is ready, bb8 answers or times
\* out, and Redis answers or fails.  Nothing is assumed of callers, of the
\* client that reads the stream, or of the pipeline.
FairSpec == Spec /\ WF_vars(ListStep)
-----------------------------------------------------------------------------
TypeOK ==
    /\ store \in [Hash -> {0} \cup Tiers]
    /\ poolIdle \in 0..PoolSize /\ lent \in 0..PoolSize
    /\ listPc \in {"idle", "ended", "failed"} \cup Listing
    /\ filter \in Filters \cup {0} /\ limit \in Limits \cup {0}
    /\ todo \subseteq Hash /\ steady \subseteq Hash
    /\ stream \in Seq([hash : Hash, tier : Tiers]) /\ taken \in 0..Len(stream)
    /\ client \in {"reading", "gone"}
    /\ getPc \in {"idle", "acquire", "get"}
    /\ healthPc \in {"acquire", "ping", "redis_up", "redis_down"} \cup Answered
    /\ changes \in 0..MaxChanges

\* Whatever ends a call or the streaming task, the connection it holds goes
\* back, once; a stream whose client left holds none for ever.
Held(pc, holding) == IF pc \in holding THEN 1 ELSE 0
PoolConserved ==
    poolIdle + lent + Held(listPc, {"keys", "get", "send"})
        + Held(getPc, {"get"}) + Held(healthPc, {"ping"}) = PoolSize

\* The stream has no more items than the limit, no session twice and none the
\* filter rejects, even when records change, vanish or come back between KEYS
\* and the GET of each.
StreamExact ==
    /\ limit > 0 => Len(stream) <= limit
    /\ \A j, k \in DOMAIN stream : stream[j].hash = stream[k].hash => j = k
    /\ \A k \in DOMAIN stream : filter \in {0, stream[k].tier}

\* vyse.proto: the stream "closes when all sessions have been sent".  It does
\* for the sessions that did not change while it ran and whose GET succeeded:
\* a stream that closed under its limit, with its client still there, has all
\* of them that the filter accepts.
SteadySessionsListed ==
    /\ listPc = "ended" /\ client = "reading"
    /\ limit > 0 => Len(stream) < limit
    => \A h \in steady : Wanted(h) => \E k \in DOMAIN stream : stream[k] = Snapshot(h)

\* A list call comes to an end, and gives its connection back, unless its
\* client stays and stops reading: such a client holds one for ever.
Stalled == listPc = "send" /\ ~ HasRoom /\ client = "reading"
ListEnds == []<>(listPc \notin Listing \/ Stalled)
=============================================================================
