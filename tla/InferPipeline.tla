--------------------------- MODULE InferPipeline ---------------------------
(***************************************************************************)
(* The inference pipeline of the engine, VyseEngineService::handle_infer   *)
(* (engine/src/grpc/service.rs), with the Redis pool and the session store *)
(* it works on, the tasks it spawns, and the admin's DeleteSession.        *)
(*                                                                         *)
(* A handler is an async function: other handlers and tasks run whenever   *)
(* it awaits.  Each value of pc is an await, and each action runs from one *)
(* await to the next.                                                      *)
(*                                                                         *)
(*   idle     the request has not reached the engine                       *)
(*   acquire  waits for its first pool connection          (line 211)      *)
(*   load     waits for Redis GET                          (line 215)      *)
(*   score    waits for the embedding and intent models    (lines 233-240) *)
(*   llm      waits for the language model                 (line 279)      *)
(*   persist  waits for its second pool connection         (line 320)      *)
(*   done     answered         failed  ended without an answer             *)
(*                                                                         *)
(* The connection of line 211 is dropped when the function returns, so a   *)
(* handler holds it from load to persist.  The spawned write owns the      *)
(* connection of line 320 until Redis answers.                             *)
(***************************************************************************)
EXTENDS SessionRecord, TierPolicy, FiniteSets

CONSTANTS
    SessionId,          \* session id hashes
    SessionOf,          \* the session each request belongs to
    PoolSize,           \* max_size of the bb8 pool
    HybridScores,       \* the hybrid scores compute_scores may return
    TrackingThreshold,  \* cfg.scoring.tracking_threshold
    Ttl,                \* cfg.redis.session_ttl_secs
    RequestTimeout,     \* the gateway's deadline on one Infer call
    MaxClock, MaxCrashes, MaxDeletes  \* bounds of the model

ASSUME PipelineAssumption ==
    /\ IsFiniteSet(Request)
    /\ SessionOf \in [Request -> SessionId]
    /\ NULL \notin SessionId
    /\ PoolSize \in Nat \ {0}
    /\ HybridScores \subseteq HybridRange
    /\ TrackingThreshold \in Int
    /\ Ttl \in Nat \ {0}
    /\ RequestTimeout \in Nat
    /\ MaxClock \in Nat /\ MaxCrashes \in Nat /\ MaxDeletes \in Nat

\* The gateway gives up on a call after 25 s; Tier 3 takes over ten minutes.
ASSUME DeadlineAssumption == RequestTimeout <= Tier3MinDuration

VARIABLES
    clock,      \* the engine's Utc::now(), in minutes
    store,      \* Redis: the record under each session key
    expires,    \* when the TTL of each key runs out
    poolIdle,   \* connections no one holds
    pc,         \* where each handler awaits
    now,        \* the handler's `now`, read before anything else
    loaded,     \* the session as read (or created), before any change
    session,    \* the handler's local session
    write,      \* the spawned session write of each request
    log,        \* the spawned query log insert
    rekor,      \* the spawned Rekor submission
    admin,      \* the session a DeleteSession call is deleting
    crashes, deletes,
    \* History, which guards nothing: sessions an admin deleted, requests
    \* that reached the engine after that, and sessions whose client did not
    \* wait for its last write to land, or that lost a record or a write.
    banned, barred, disturbed

redisVars   == <<store, expires>>
handlerVars == <<pc, now, loaded, session>>
taskVars    == <<write, log, rekor>>
adminVars   == <<admin, deletes, banned>>
vars == <<clock, redisVars, poolIdle, handlerVars, taskVars, adminVars,
          crashes, barred, disturbed>>

Holding == {"load", "score", "llm", "persist"}
Active  == {"acquire"} \cup Holding
PC      == {"idle", "done", "failed"} \cup Active
\* The write ends stored or lost.  The two other tasks just end: the engine
\* discards their results, and nothing here reads PostgreSQL or Rekor.
WriteTask == {"none", "pending", "stored", "lost"}
SideTask  == {"none", "pending", "ended"}

Handlers == {r \in Request : pc[r] \in Holding}
Writers  == {r \in Request : write[r] = "pending"}

\* The record GET returns: Redis answers nothing once the TTL ran out.
Stored(s) == IF store[s] # NULL /\ clock < expires[s] THEN store[s] ELSE NULL

\* A request whose effects on its session are still to come.
Open(r) == pc[r] \in Active \/ write[r] = "pending"

-----------------------------------------------------------------------------
Init ==
    /\ clock = 0
    /\ store = [s \in SessionId |-> NULL]
    /\ expires = [s \in SessionId |-> 0]
    /\ poolIdle = PoolSize
    /\ pc = [r \in Request |-> "idle"]
    /\ now = [r \in Request |-> 0]
    /\ loaded = [r \in Request |-> NULL]
    /\ session = [r \in Request |-> NULL]
    /\ write = [r \in Request |-> "none"]
    /\ log = [r \in Request |-> "none"]
    /\ rekor = [r \in Request |-> "none"]
    /\ admin = NULL /\ crashes = 0 /\ deletes = 0
    /\ banned = {} /\ barred = {} /\ disturbed = {}

\* The handler starts: `now` is read, then the pool is asked for a connection.
Start(r) ==
    /\ pc[r] = "idle"
    /\ pc' = [pc EXCEPT ![r] = "acquire"]
    /\ now' = [now EXCEPT ![r] = clock]
    /\ barred' = IF SessionOf[r] \in banned THEN barred \cup {r} ELSE barred
    /\ disturbed' =
         IF \E q \in Request : SessionOf[q] = SessionOf[r] /\ Open(q)
         THEN disturbed \cup {SessionOf[r]} ELSE disturbed
    /\ UNCHANGED <<clock, redisVars, poolIdle, loaded, session, taskVars,
                   adminVars, crashes>>

AcquireRead(r) ==
    /\ pc[r] = "acquire"
    /\ poolIdle > 0
    /\ poolIdle' = poolIdle - 1
    /\ pc' = [pc EXCEPT ![r] = "load"]
    /\ UNCHANGED <<clock, redisVars, now, loaded, session, taskVars,
                   adminVars, crashes, barred, disturbed>>

\* A bug that returns a connection the handler never took.
EndHandlerDoubleDrop(r) ==
    /\ pc' = [pc EXCEPT ![r] = "failed"]
    /\ poolIdle' = poolIdle + 1
    /\ UNCHANGED <<clock, redisVars, now, loaded, session, taskVars,
                   adminVars, crashes, barred, disturbed>>
\* The handler ends without an answer, dropping the connection it holds.
EndHandler(r) ==
    /\ pc' = [pc EXCEPT ![r] = "failed"]
    /\ poolIdle' = IF pc[r] \in Holding THEN poolIdle + 1 ELSE poolIdle
    /\ UNCHANGED <<clock, redisVars, now, loaded, session, taskVars,
                   adminVars, crashes, barred, disturbed>>

\* A bug that waits for the second connection without a timeout.
PoolTimeoutFirstOnly(r) ==
    /\ pc[r] = "acquire"
    /\ poolIdle = 0
    /\ EndHandler(r)
\* bb8 gives up on a connection after its timeout (30 s by default).
PoolTimeout(r) ==
    /\ pc[r] \in {"acquire", "persist"}
    /\ poolIdle = 0
    /\ EndHandler(r)

\* An early exit at an await: Redis, a model, the language model or the
\* defence returned an error, or the gateway gave up and tonic drops the
\* future.  Nothing is stored; tasks already spawned go on.
Abort(r) ==
    /\ pc[r] \in Active
    /\ EndHandler(r)

\* Redis answered GET.  A missing record starts a new session.  History: a
\* record whose TTL ran out is lost to its session.
Load(r) ==
    LET s   == SessionOf[r]
        rec == IF Stored(s) = NULL THEN NewSession(clock) ELSE Stored(s)
    IN
    /\ pc[r] = "load"
    /\ IF rec.is_banned
       THEN EndHandler(r)
       ELSE /\ loaded' = [loaded EXCEPT ![r] = rec]
            /\ session' = [session EXCEPT ![r] = Touch(rec, r, now[r])]
            /\ pc' = [pc EXCEPT ![r] = "score"]
            /\ disturbed' = IF store[s] # NULL /\ Stored(s) = NULL
                            THEN disturbed \cup {s} ELSE disturbed
            /\ UNCHANGED <<clock, redisVars, poolIdle, now, taskVars,
                           adminVars, crashes, barred>>

\* The models answered: start tracking, classify, ask the language model.
ScoredAs(r, hybrid, intent) ==
    LET tracked == IF hybrid > TrackingThreshold
                   THEN StartTracking(session[r], now[r]) ELSE session[r]
    IN [tracked EXCEPT !.tier = ClassifyTier(hybrid,
                                     TrackingDuration(tracked, clock), intent)]

Score(r) ==
    /\ pc[r] = "score"
    /\ \E hybrid \in HybridScores, intent \in BOOLEAN :
         session' = [session EXCEPT ![r] = ScoredAs(r, hybrid, intent)]
    /\ pc' = [pc EXCEPT ![r] = "llm"]
    /\ UNCHANGED <<clock, redisVars, poolIdle, now, loaded, taskVars,
                   adminVars, crashes, barred, disturbed>>

\* The language model answered: perturb under the session's seed unless the
\* tier is clean, submit a Tier 3 event to Rekor in a task of its own, and ask
\* the pool for the connection of the write.
CompleteUnaudited(r) ==
    /\ pc[r] = "llm"
    /\ session' = IF session[r].tier = 1 THEN session
                  ELSE [session EXCEPT ![r] = WithSeed(@, now[r])]
    /\ pc' = [pc EXCEPT ![r] = "persist"]
    /\ UNCHANGED <<clock, redisVars, poolIdle, now, loaded, taskVars,
                   adminVars, crashes, barred, disturbed>>
Complete(r) ==
    /\ pc[r] = "llm"
    /\ session' = IF session[r].tier = 1 THEN session
                  ELSE [session EXCEPT ![r] = WithSeed(@, now[r])]
    /\ rekor' = IF session[r].tier = 3 THEN [rekor EXCEPT ![r] = "pending"]
                ELSE rekor
    /\ pc' = [pc EXCEPT ![r] = "persist"]
    /\ UNCHANGED <<clock, redisVars, poolIdle, now, loaded, write, log,
                   adminVars, crashes, barred, disturbed>>

\* The second connection arrived: spawn the session write, which keeps it, and
\* the log insert, and answer.  Returning drops the handler's own connection,
\* so as many connections are idle as before.
Persist(r) ==
    /\ pc[r] = "persist"
    /\ poolIdle > 0
    /\ pc' = [pc EXCEPT ![r] = "done"]
    /\ write' = [write EXCEPT ![r] = "pending"]
    /\ log' = [log EXCEPT ![r] = "pending"]
    /\ UNCHANGED <<clock, redisVars, poolIdle, now, loaded, session, rekor,
                   adminVars, crashes, barred, disturbed>>

-----------------------------------------------------------------------------
\* The spawned tasks.  Each ignores its result, so a failure leaves no trace.

\* SET with EX: the whole record is replaced and its TTL restarted.
LandWrite(r) ==
    LET s == SessionOf[r] IN
    /\ write[r] = "pending"
    /\ store' = [store EXCEPT ![s] = session[r]]
    /\ expires' = [expires EXCEPT ![s] = clock + Ttl]
    /\ write' = [write EXCEPT ![r] = "stored"]
    /\ poolIdle' = poolIdle + 1
    /\ UNCHANGED <<clock, handlerVars, log, rekor, adminVars, crashes,
                   barred, disturbed>>

\* A bug that keeps the connection of a write that failed.
LoseWriteLeaky(r) ==
    /\ write[r] = "pending"
    /\ write' = [write EXCEPT ![r] = "lost"]
    /\ disturbed' = disturbed \cup {SessionOf[r]}
    /\ UNCHANGED <<clock, redisVars, poolIdle, handlerVars, log, rekor,
                   adminVars, crashes, barred>>
LoseWrite(r) ==
    /\ write[r] = "pending"
    /\ write' = [write EXCEPT ![r] = "lost"]
    /\ poolIdle' = poolIdle + 1
    /\ disturbed' = disturbed \cup {SessionOf[r]}
    /\ UNCHANGED <<clock, redisVars, handlerVars, log, rekor, adminVars,
                   crashes, barred>>

FinishLog(r) ==
    /\ log[r] = "pending"
    /\ log' = [log EXCEPT ![r] = "ended"]
    /\ UNCHANGED <<clock, redisVars, poolIdle, handlerVars, write, rekor,
                   adminVars, crashes, barred, disturbed>>

FinishRekor(r) ==
    /\ rekor[r] = "pending"
    /\ rekor' = [rekor EXCEPT ![r] = "ended"]
    /\ UNCHANGED <<clock, redisVars, poolIdle, handlerVars, write, log,
                   adminVars, crashes, barred, disturbed>>

-----------------------------------------------------------------------------
\* delete_session: take a connection, then DEL the key.  One call at a time,
\* MaxDeletes in all.
DeleteStart(s) ==
    /\ admin = NULL
    /\ deletes < MaxDeletes
    /\ poolIdle > 0
    /\ poolIdle' = poolIdle - 1
    /\ admin' = s
    /\ deletes' = deletes + 1
    /\ UNCHANGED <<clock, redisVars, handlerVars, taskVars, banned, crashes,
                   barred, disturbed>>

\* The call reports success, a ban, iff the key existed.
DeleteRun ==
    /\ admin # NULL
    /\ store' = [store EXCEPT ![admin] = NULL]
    /\ banned' = IF Stored(admin) # NULL THEN banned \cup {admin} ELSE banned
    /\ disturbed' = disturbed \cup {admin}
    /\ admin' = NULL
    /\ poolIdle' = poolIdle + 1
    /\ UNCHANGED <<clock, expires, handlerVars, taskVars, deletes, crashes,
                   barred>>

\* Redis failed, or the admin cancelled the call: no ban is reported, whether or
\* not Redis still ran the DEL.
DeleteFails ==
    /\ admin # NULL
    /\ \/ UNCHANGED <<store, disturbed>>
       \/ /\ store' = [store EXCEPT ![admin] = NULL]
          /\ disturbed' = disturbed \cup {admin}
    /\ admin' = NULL
    /\ poolIdle' = poolIdle + 1
    /\ UNCHANGED <<clock, expires, handlerVars, taskVars, deletes, banned,
                   crashes, barred>>

\* The engine dies and restarts with a new pool; Redis survives.
Killed(task, how) ==
    [r \in Request |-> IF task[r] = "pending" THEN how ELSE task[r]]

\* A bug that counts connections the dead engine held as still held.
CrashKeepsPool ==
    /\ crashes < MaxCrashes
    /\ crashes' = crashes + 1
    /\ pc' = [r \in Request |-> IF pc[r] \in Active THEN "failed" ELSE pc[r]]
    /\ write' = Killed(write, "lost")
    /\ log' = Killed(log, "ended") /\ rekor' = Killed(rekor, "ended")
    /\ admin' = NULL
    /\ disturbed' = disturbed \cup {SessionOf[r] : r \in Writers}
    /\ UNCHANGED <<clock, redisVars, poolIdle, now, loaded, session, deletes,
                   banned, barred>>
Crash ==
    /\ crashes < MaxCrashes
    /\ crashes' = crashes + 1
    /\ pc' = [r \in Request |-> IF pc[r] \in Active THEN "failed" ELSE pc[r]]
    /\ write' = Killed(write, "lost")
    /\ log' = Killed(log, "ended") /\ rekor' = Killed(rekor, "ended")
    /\ poolIdle' = PoolSize
    /\ admin' = NULL
    /\ disturbed' = disturbed \cup {SessionOf[r] : r \in Writers}
    /\ UNCHANGED <<clock, redisVars, now, loaded, session, deletes, banned,
                   barred>>

\* Time passes, MaxClock at most.  A handler outlives its start by no more than
\* the gateway's deadline: then its call is cancelled.
TickUnbounded ==
    /\ clock < MaxClock
    /\ clock' = clock + 1
    /\ UNCHANGED <<redisVars, poolIdle, handlerVars, taskVars, adminVars,
                   crashes, barred, disturbed>>
Tick ==
    /\ clock < MaxClock
    /\ \A r \in Request : pc[r] \in Active => clock - now[r] < RequestTimeout
    /\ clock' = clock + 1
    /\ UNCHANGED <<redisVars, poolIdle, handlerVars, taskVars, adminVars,
                   crashes, barred, disturbed>>

-----------------------------------------------------------------------------
PoolStep(r) == AcquireRead(r) \/ Persist(r) \/ PoolTimeout(r)
WorkStep(r) == Load(r) \/ Score(r) \/ Complete(r)
WriteStep(r) == LandWrite(r) \/ LoseWrite(r)

Next ==
    \/ \E r \in Request :
         \/ Start(r) \/ AcquireRead(r) \/ PoolTimeout(r) \/ Abort(r)
         \/ Load(r) \/ Score(r) \/ Complete(r) \/ Persist(r)
         \/ LandWrite(r) \/ LoseWrite(r) \/ FinishLog(r) \/ FinishRekor(r)
    \/ \E s \in SessionId : DeleteStart(s)
    \/ DeleteRun \/ DeleteFails \/ Crash \/ Tick

Spec == Init /\ [][Next]_vars

\* tokio polls every ready task.  A pool wait ends with a connection or with
\* bb8's timeout; Redis, the models and the language model answer, fail, or
\* are cut off by the gateway's deadline; the spawned write and a delete end.
\* Nothing is assumed of clients, admins, crashes or the clock, and nothing needs
\* to be of the other two tasks, which hold no connection.
Fairness ==
    /\ \A r \in Request :
         /\ WF_vars(PoolStep(r))
         /\ WF_vars(WorkStep(r) \/ (pc[r] \in {"load", "score", "llm"} /\ Abort(r)))
         /\ WF_vars(WriteStep(r))
    /\ WF_vars(DeleteRun \/ DeleteFails)

FairSpec == Spec /\ Fairness
-----------------------------------------------------------------------------
(***************************************************************************)
(* Type and safety                                                         *)
(***************************************************************************)

\* The type invariant: every variable keeps the shape its code gives it.
TypeOK ==
    /\ clock \in Nat
    /\ store \in [SessionId -> Optional(Session)]
    /\ expires \in [SessionId -> Nat]
    /\ poolIdle \in 0..PoolSize
    /\ pc \in [Request -> PC]
    /\ now \in [Request -> Nat]
    /\ loaded \in [Request -> Optional(Session)]
    /\ session \in [Request -> Optional(Session)]
    /\ write \in [Request -> WriteTask]
    /\ log \in [Request -> SideTask]
    /\ rekor \in [Request -> SideTask]
    /\ admin \in Optional(SessionId)
    /\ crashes \in 0..MaxCrashes /\ deletes \in 0..MaxDeletes
    /\ banned \subseteq SessionId /\ barred \subseteq Request
    /\ disturbed \subseteq SessionId

\* No exit path of a handler, task, admin call or crash loses a Redis
\* connection or returns one twice: the idle connections and the holders
\* always add up to the pool (lines 211 and 320: RAII guards).
PoolConserved ==
    poolIdle + Cardinality(Handlers) + Cardinality(Writers)
        + (IF admin = NULL THEN 0 ELSE 1) = PoolSize

Records == ({store[s] : s \in SessionId} \cup {session[r] : r \in Request})
               \ {NULL}

Shaped(rec) ==
    /\ Len(rec.timestamps) = IF rec.request_count < MaxTimestamps
                             THEN rec.request_count ELSE MaxTimestamps
    /\ Len(rec.prompt_history) = IF rec.request_count < MaxHistory
                                 THEN rec.request_count ELSE MaxHistory
    /\ \A i, j \in DOMAIN rec.prompt_history :
          rec.prompt_history[i] = rec.prompt_history[j] => i = j
    /\ \A i \in DOMAIN rec.timestamps : rec.timestamps[i] <= clock
    /\ rec.tracking_started_at # NULL => rec.tracking_started_at <= clock

\* trim keeps the counter and the two histories in step: a record holds as
\* many timestamps and prompts as requests, up to the limits, each request at
\* most once, and nothing in it lies in the engine's future, whatever order
\* handlers and writes took (a duration is never negative).
RecordShape == \A rec \in Records : Shaped(rec)

\* A request that got far enough to be scored has a verdict.
Judged(r) == pc[r] \in {"llm", "persist", "done"}

\* README "Every Tier 3 event is submitted to a Rekor transparency log": no
\* Tier 3 response is returned without its submission under way, and every
\* submission carries the seed that perturbed the response.
AuditedTierThree ==
    \A r \in Request :
      /\ pc[r] = "done" /\ session[r].tier = 3 => rekor[r] # "none"
      /\ rekor[r] # "none" =>
            session[r].tier = 3 /\ session[r].noise_seed # NULL

\* Tier 3 takes two requests: a session is never classified malicious by the
\* request that starts its tracking, nor when its record says it is untracked,
\* because a handler cannot outlive the gateway's deadline.  The
\* repository's README (lines 201 and 220) promises the opposite of a prompt that
\* the intent classifier flags: Tier 3 at once, the first request included.  No
\* code grants it (see IntentGivesTierThree in MCEngine).
TierThreeNeedsHistory ==
    \A r \in Request :
      Judged(r) /\ session[r].tier = 3 => loaded[r].tracking_started_at # NULL

\* Once tracked for Tier 2's duration, a session is never served clean again,
\* whatever it scores: nothing resets tracking_started_at.
EscalationPersists ==
    \A r \in Request :
      /\ Judged(r)
      /\ loaded[r].tracking_started_at # NULL
      /\ now[r] - loaded[r].tracking_started_at >= Tier2MinDuration
      => session[r].tier >= 2

\* What the engine does promise a client that waits for each write to land
\* before its next request, while nothing is lost, banned or expired:
\* (1) no request is lost: the record counts exactly the stored writes;
CountOf(s) == IF store[s] = NULL THEN 0 ELSE store[s].request_count

SerialSessionsCount ==
    \A s \in SessionId \ disturbed :
      CountOf(s) = Cardinality({r \in Request :
                                  SessionOf[r] = s /\ write[r] = "stored"})

\* (2) every perturbed answer of the session was perturbed under one seed;
Perturbed(r) == pc[r] = "done" /\ session[r].tier > 1

SerialSessionsSticky ==
    \A q, r \in Request :
      /\ Perturbed(q) /\ Perturbed(r)
      /\ SessionOf[q] = SessionOf[r]
      /\ SessionOf[r] \notin disturbed
      => session[q].noise_seed = session[r].noise_seed

\* (3) its timestamps are in order, and last_active_at is the latest of them.
SerialSessionsOrdered ==
    \A s \in SessionId \ disturbed : store[s] # NULL =>
      LET times == store[s].timestamps IN
      /\ \A i, j \in DOMAIN times : i < j => times[i] <= times[j]
      /\ \A i \in DOMAIN times : times[i] <= store[s].last_active_at

\* What a writer read, until its write lands or it gives up.
Basis(r) == IF pc[r] \in {"score", "llm", "persist"} \/ write[r] = "pending"
            THEN loaded[r] ELSE NULL
Register ==
    INSTANCE SessionRegister WITH
        store <- [s \in SessionId |-> Stored(s)],
        basis <- [r \in Request |-> Basis(r)]

\* The pipeline implements the register: each record that appears in Redis is
\* one request's extension of a record that was current, or fresh, when that
\* request read it, and each request publishes at most once.
RefinesRegister == Register!Spec

-----------------------------------------------------------------------------
(***************************************************************************)
(* Liveness, under FairSpec                                                *)
(***************************************************************************)

\* Every request that reaches the engine is answered or ends in an error, even
\* when every handler holds a connection and waits for another.
RequestsEnd ==
    \A r \in Request : pc[r] = "acquire" ~> pc[r] \in {"done", "failed"}

\* Every connection comes home once the finitely many requests and deletes of
\* the model are through, even after a wedge: none is lost with a handler or a
\* task, whatever fails.
PoolRecovers == []<>(poolIdle = PoolSize)

-----------------------------------------------------------------------------
(***************************************************************************)
(* What the repository's documents say, and the code does not do           *)
(***************************************************************************)

\* CONTRIBUTING.md: no race on concurrent session writes.  A write that
\* replaces a live record counts one request more than that record.
NoLostUpdate ==
    [][\A s \in SessionId :
         Stored(s) # NULL /\ store'[s] # NULL /\ store'[s] # store[s]
           => store'[s].request_count = Stored(s).request_count + 1]_vars

\* README, "Sticky Noise": "The same seed is used for every perturbed
\* response in the session."
StickySeed ==
    \A q, r \in Request :
      Perturbed(q) /\ Perturbed(r) /\ SessionOf[q] = SessionOf[r]
        => session[q].noise_seed = session[r].noise_seed

\* vyse.proto, DeleteSession "bans a session": a request that reaches the
\* engine after the ban was confirmed is not answered.
BanHolds == \A r \in barred : pc[r] # "done"

\* service.rs, step 11, "async, non-blocking": the pool is never wedged, with
\* every connection held by a handler that waits there for another one.
PersistNonBlocking ==
    ~ (poolIdle = 0 /\ admin = NULL /\ Writers = {}
         /\ \A r \in Handlers : pc[r] = "persist")
=============================================================================
