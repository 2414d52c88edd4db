------------------------ MODULE InferPipelineProofs ------------------------
(***************************************************************************)
(* Type correctness and safety of InferPipeline for every number of        *)
(* requests, sessions and connections, and every choice of thresholds.     *)
(* First the operators on session records: each keeps a record a record,   *)
(* and what it keeps of it.                                                *)
(***************************************************************************)
EXTENDS InferPipeline, SequenceTheorems, FiniteSetTheorems, TLAPS

-----------------------------------------------------------------------------
(* Session records *)

\* Session::trim keeps at most max entries, and all of them if they fit.
LEMMA TrimProperties ==
    ASSUME NEW S, NEW seq \in Seq(S), NEW max \in Nat
    PROVE  /\ Trim(seq, max) \in Seq(S)
           /\ Len(Trim(seq, max)) = IF Len(seq) < max THEN Len(seq) ELSE max
<1>1. Len(seq) \in Nat
  BY LenProperties
<1>2. CASE Len(seq) <= max
  BY <1>1, <1>2 DEF Trim
<1>3. CASE Len(seq) > max
  <2> DEFINE m == Len(seq) - max + 1
  <2>1. m \in Int /\ 1 <= m /\ Len(seq) - m + 1 = max
    BY <1>1, <1>3
  <2>2. \A i \in m .. Len(seq) : seq[i] \in S
    BY <1>1, <2>1, ElementOfSeq
  <2>3. /\ SubSeq(seq, m, Len(seq)) \in Seq(S)
        /\ Len(SubSeq(seq, m, Len(seq)))
              = IF m <= Len(seq) THEN Len(seq) - m + 1 ELSE 0
    BY <1>1, <2>1, <2>2, SubSeqProperties
  <2>4. (IF m <= Len(seq) THEN Len(seq) - m + 1 ELSE 0) = max
    BY <1>1, <1>3
  <2>5. Trim(seq, max) = SubSeq(seq, m, Len(seq))
    BY <1>3 DEF Trim
  <2> HIDE DEF m
  <2> QED
    BY <1>1, <1>3, <2>3, <2>4, <2>5
<1> QED
  BY <1>1, <1>2, <1>3

LEMMA NewSessionType ==
    ASSUME NEW t \in Nat
    PROVE  NewSession(t) \in Session
  BY EmptySeq DEF NewSession, Session, Optional

\* Recording a request keeps the tracking start, the seed and the tier.
LEMMA TouchProperties ==
    ASSUME NEW rec \in Session, NEW r \in Request, NEW t \in Nat
    PROVE  /\ Touch(rec, r, t) \in Session
           /\ Touch(rec, r, t).tracking_started_at = rec.tracking_started_at
           /\ Touch(rec, r, t).noise_seed = rec.noise_seed
           /\ Touch(rec, r, t).tier = rec.tier
           /\ Touch(rec, r, t).first_seen_at = rec.first_seen_at
           /\ Touch(rec, r, t).is_banned = rec.is_banned
           /\ Touch(rec, r, t).last_active_at = t
           /\ Touch(rec, r, t).request_count = rec.request_count + 1
           /\ Touch(rec, r, t).timestamps
                 = Trim(Append(rec.timestamps, t), MaxTimestamps)
           /\ Touch(rec, r, t).prompt_history
                 = Trim(Append(rec.prompt_history, r), MaxHistory)
<1>1. /\ rec.timestamps \in Seq(Nat) /\ rec.prompt_history \in Seq(Request)
      /\ rec.request_count \in Nat
  BY DEF Session
<1>2. /\ Append(rec.timestamps, t) \in Seq(Nat)
      /\ Append(rec.prompt_history, r) \in Seq(Request)
  BY <1>1
<1>3. MaxTimestamps \in Nat /\ MaxHistory \in Nat
  BY RecordAssumption DEF RecordAssumption
<1>4. /\ Trim(Append(rec.timestamps, t), MaxTimestamps) \in Seq(Nat)
      /\ Trim(Append(rec.prompt_history, r), MaxHistory) \in Seq(Request)
  BY <1>2, <1>3, TrimProperties
<1>5. rec.request_count + 1 \in Nat
  BY <1>1
<1> HIDE DEF Trim
<1> QED
  BY <1>4, <1>5 DEF Touch, Session

\* Starting to track keeps everything but an absent tracking start.
LEMMA StartTrackingProperties ==
    ASSUME NEW rec \in Session, NEW t \in Nat
    PROVE  /\ StartTracking(rec, t) \in Session
           /\ StartTracking(rec, t).tracking_started_at
                 = IF rec.tracking_started_at = NULL
                   THEN t ELSE rec.tracking_started_at
           /\ StartTracking(rec, t).noise_seed = rec.noise_seed
  BY DEF StartTracking, Session, Optional

\* Seeding keeps the tier, the tracking start and a seed that is there, and
\* always leaves a seed.
LEMMA WithSeedProperties ==
    ASSUME NEW rec \in Session, NEW t \in Nat
    PROVE  /\ WithSeed(rec, t) \in Session
           /\ WithSeed(rec, t).tier = rec.tier
           /\ WithSeed(rec, t).tracking_started_at = rec.tracking_started_at
           /\ WithSeed(rec, t).noise_seed \in Nat
           /\ rec.noise_seed # NULL => WithSeed(rec, t).noise_seed = rec.noise_seed
<1>1. /\ rec.noise_seed \in Nat \cup {NULL}
      /\ rec.tracking_started_at \in Nat \cup {NULL}
  BY DEF Session, Optional
<1>2. DeriveSeed(rec, t) \in Nat
  BY <1>1 DEF DeriveSeed
<1> HIDE DEF DeriveSeed
<1> QED
  BY <1>1, <1>2 DEF WithSeed, Session, Optional

-----------------------------------------------------------------------------
(* Counting the holders of connections *)

LEMMA HolderSets ==
    /\ IsFiniteSet(Handlers) /\ IsFiniteSet(Writers)
    /\ Cardinality(Handlers) \in Nat /\ Cardinality(Writers) \in Nat
  BY PipelineAssumption, FS_Subset, FS_CardinalityType
     DEF PipelineAssumption, Handlers, Writers

LEMMA CountAdded ==
    ASSUME NEW S, NEW T, NEW x, IsFiniteSet(S), x \notin S, T = S \cup {x}
    PROVE  Cardinality(T) = Cardinality(S) + 1
  BY FS_AddElement

LEMMA CountRemoved ==
    ASSUME NEW S, NEW T, NEW x, IsFiniteSet(S), x \in S, T = S \ {x}
    PROVE  Cardinality(T) = Cardinality(S) - 1
  BY FS_RemoveElement

-----------------------------------------------------------------------------
(* The inductive invariant.  TypeOK alone is not inductive: its bound on    *)
(* poolIdle needs the count of holders, and the type of a stored record     *)
(* needs every handler past Redis to hold one.                              *)

HandlerShape ==
    \A r \in Request :
      /\ pc[r] \in {"score", "llm", "persist", "done"} =>
            loaded[r] \in Session /\ session[r] \in Session
      /\ write[r] # "none" => pc[r] = "done"

Inv == TypeOK /\ HandlerShape /\ PoolConserved

\* The typing facts an action with no effect on the pool's holders needs.
SameHolders == /\ Handlers' = Handlers /\ Writers' = Writers
               /\ admin' = admin /\ poolIdle' = poolIdle

LEMMA SameHoldersConserve ==
    ASSUME PoolConserved, SameHolders
    PROVE  PoolConserved'
  BY DEF PoolConserved, SameHolders

LEMMA InitInv == Init => Inv
<1> SUFFICES ASSUME Init PROVE Inv
  OBVIOUS
<1> USE PipelineAssumption DEF PipelineAssumption
<1>1. TypeOK
  BY DEF Init, TypeOK, Optional, PC, WriteTask, SideTask
<1>2. HandlerShape
  BY DEF Init, HandlerShape
<1>3. PoolConserved
  <2>1. Handlers = {} /\ Writers = {}
    BY DEF Init, Handlers, Writers, Holding
  <2> QED
    BY <2>1, FS_EmptySet DEF Init, PoolConserved
<1> QED
  BY <1>1, <1>2, <1>3 DEF Inv

\* Conservation bounds the idle connections by the size of the pool.
LEMMA IdleBounded ==
    ASSUME PoolConserved', poolIdle' \in Nat
    PROVE  poolIdle' \in 0..PoolSize
<1>1. /\ Cardinality(Handlers') \in Nat /\ Cardinality(Writers') \in Nat
  BY PipelineAssumption, FS_Subset, FS_CardinalityType
     DEF PipelineAssumption, Handlers, Writers
<1>2. PoolSize \in Nat
  BY PipelineAssumption DEF PipelineAssumption
<1> QED
  BY <1>1, <1>2 DEF PoolConserved

LEMMA StartInv == ASSUME Inv, NEW r \in Request, Start(r) PROVE Inv'
<1>1. TypeOK'
  BY PipelineAssumption
     DEF PipelineAssumption, Inv, TypeOK, Start, redisVars, taskVars,
         adminVars, PC, Active
<1>2. HandlerShape'
  BY DEF Inv, TypeOK, HandlerShape, Start, taskVars
<1>3. SameHolders
  BY DEF SameHolders, Handlers, Writers, Holding, Start, Inv, TypeOK,
         taskVars, adminVars
<1> QED
  BY <1>1, <1>2, <1>3, SameHoldersConserve DEF Inv

LEMMA AcquireReadInv ==
    ASSUME Inv, NEW r \in Request, AcquireRead(r) PROVE Inv'
<1>1. /\ Handlers' = Handlers \cup {r} /\ r \notin Handlers
      /\ Writers' = Writers /\ admin' = admin
  BY DEF Handlers, Writers, Holding, AcquireRead, Inv, TypeOK, taskVars,
         adminVars
<1>2. poolIdle \in Nat /\ poolIdle > 0 /\ poolIdle' = poolIdle - 1
  BY DEF AcquireRead, Inv, TypeOK
<1>3. PoolConserved'
  <2>1. Cardinality(Handlers') = Cardinality(Handlers) + 1
    BY <1>1, HolderSets, CountAdded
  <2>2. Cardinality(Writers') = Cardinality(Writers)
    BY <1>1
  <2> QED
    BY <1>1, <1>2, <2>1, <2>2, HolderSets DEF PoolConserved, Inv
<1>4. TypeOK'
  BY <1>2, PipelineAssumption
     DEF PipelineAssumption, Inv, TypeOK, AcquireRead, redisVars, taskVars, adminVars, PC,
         Active, Holding
<1>5. HandlerShape'
  BY DEF Inv, TypeOK, HandlerShape, AcquireRead, taskVars
<1> QED
  BY <1>3, <1>4, <1>5 DEF Inv

LEMMA EndHandlerInv ==
    ASSUME Inv, NEW r \in Request, pc[r] \in Active, EndHandler(r) PROVE Inv'
<1>1. /\ Handlers' = Handlers \ {r}
      /\ Writers' = Writers /\ admin' = admin
      /\ r \in Handlers <=> pc[r] \in Holding
  BY DEF Handlers, Writers, Holding, EndHandler, Inv, TypeOK, taskVars,
         adminVars
<1>2. Cardinality(Writers') = Cardinality(Writers)
  BY <1>1
<1>3. PoolConserved' /\ poolIdle' \in Nat
  <2>1. CASE pc[r] \in Holding
    <3>1. Cardinality(Handlers') = Cardinality(Handlers) - 1
      BY <1>1, <2>1, HolderSets, CountRemoved
    <3>2. poolIdle \in Nat /\ poolIdle' = poolIdle + 1
      BY <2>1 DEF EndHandler, Inv, TypeOK
    <3> QED
      BY <1>1, <1>2, <3>1, <3>2, HolderSets DEF PoolConserved, Inv
  <2>2. CASE pc[r] \notin Holding
    <3>1. Handlers' = Handlers
      BY <1>1, <2>2
    <3>2. poolIdle' = poolIdle /\ poolIdle \in Nat
      BY <2>2 DEF EndHandler, Inv, TypeOK
    <3> QED
      BY <1>1, <1>2, <3>1, <3>2 DEF PoolConserved, Inv
  <2> QED
    BY <2>1, <2>2
<1>4. poolIdle' \in 0..PoolSize
  BY <1>3, IdleBounded
<1>5. TypeOK'
  BY <1>4
     DEF Inv, TypeOK, EndHandler, redisVars, taskVars, adminVars, PC
<1>6. HandlerShape'
  BY DEF Inv, TypeOK, HandlerShape, EndHandler, taskVars, Active, Holding
<1> QED
  BY <1>3, <1>5, <1>6 DEF Inv

\* What GET answers, or the session it starts instead, is a record.
LEMMA LoadedIsRecord ==
    ASSUME Inv, NEW s \in SessionId
    PROVE  (IF Stored(s) = NULL THEN NewSession(clock) ELSE Stored(s))
              \in Session
<1>1. clock \in Nat /\ store[s] \in Optional(Session)
  BY DEF Inv, TypeOK
<1>2. Stored(s) # NULL => Stored(s) \in Session
  BY <1>1 DEF Stored, Optional
<1> QED
  BY <1>1, <1>2, NewSessionType

LEMMA LoadInv == ASSUME Inv, NEW r \in Request, Load(r) PROVE Inv'
<1> DEFINE s   == SessionOf[r]
           rec == IF Stored(s) = NULL THEN NewSession(clock) ELSE Stored(s)
<1>1. s \in SessionId
  BY PipelineAssumption DEF PipelineAssumption
<1>2. rec \in Session
  BY <1>1, LoadedIsRecord
<1>3. pc[r] = "load" /\ now[r] \in Nat
  BY DEF Load, Inv, TypeOK
<1>4. CASE rec.is_banned
  <2>1. EndHandler(r)
    BY <1>4 DEF Load
  <2> QED
    BY <1>3, <2>1, EndHandlerInv DEF Active, Holding
<1>5. CASE ~ rec.is_banned
  <2> HIDE DEF rec
  <2>1. /\ loaded' = [loaded EXCEPT ![r] = rec]
        /\ session' = [session EXCEPT ![r] = Touch(rec, r, now[r])]
        /\ pc' = [pc EXCEPT ![r] = "score"]
        /\ \/ disturbed' = disturbed \cup {s}
           \/ disturbed' = disturbed
        /\ UNCHANGED <<clock, redisVars, poolIdle, now, taskVars,
                       adminVars, crashes, barred>>
    BY <1>5 DEF Load, rec
  <2>2. Touch(rec, r, now[r]) \in Session
    BY <1>2, <1>3, TouchProperties
  <2> HIDE DEF s
  <2>3. TypeOK'
    BY <1>1, <1>2, <2>1, <2>2
       DEF Inv, TypeOK, redisVars, taskVars, adminVars, PC, Active, Holding,
           Optional
  <2>4. HandlerShape'
    BY <1>2, <1>3, <2>1, <2>2
       DEF Inv, TypeOK, HandlerShape, taskVars
  <2>5. SameHolders
    BY <1>3, <2>1
       DEF SameHolders, Handlers, Writers, Holding, Inv, TypeOK, taskVars,
           adminVars
  <2> QED
    BY <2>3, <2>4, <2>5, SameHoldersConserve DEF Inv
<1> QED
  BY <1>4, <1>5

\* Scoring changes the tier of a record and, at most, starts its tracking.
LEMMA ScoredProperties ==
    ASSUME Inv, NEW r \in Request, session[r] \in Session,
           NEW hybrid \in HybridScores, NEW intent \in BOOLEAN
    PROVE  LET started == StartTracking(session[r], now[r])
               tracked == IF hybrid > TrackingThreshold THEN started
                          ELSE session[r]
               scored  == ScoredAs(r, hybrid, intent)
           IN /\ tracked \in Session
              /\ TrackingDuration(tracked, clock) \in Int
              /\ scored \in Session
              /\ scored.tier = ClassifyTier(hybrid,
                                  TrackingDuration(tracked, clock), intent)
              /\ scored.tracking_started_at = tracked.tracking_started_at
              /\ scored.noise_seed = session[r].noise_seed
<1> DEFINE started == StartTracking(session[r], now[r])
           tracked == IF hybrid > TrackingThreshold THEN started ELSE session[r]
           duration == TrackingDuration(tracked, clock)
           tier == ClassifyTier(hybrid, duration, intent)
<1>1. now[r] \in Nat /\ clock \in Nat
  BY DEF Inv, TypeOK
<1>2. /\ started \in Session
      /\ started.noise_seed = session[r].noise_seed
  BY <1>1, StartTrackingProperties
<1>3. /\ tracked \in Session
      /\ tracked.noise_seed = session[r].noise_seed
  BY <1>2
<1> HIDE DEF started, tracked
<1>4. duration \in Int
  <2>1. tracked.tracking_started_at \in Nat \cup {NULL}
    BY <1>3 DEF Session, Optional
  <2> QED
    BY <1>1, <2>1 DEF TrackingDuration
<1> HIDE DEF duration
<1>5. tier \in 1..3
  BY DEF ClassifyTier
<1> HIDE DEF tier
<1>6. /\ [tracked EXCEPT !.tier = tier] \in Session
      /\ [tracked EXCEPT !.tier = tier].tier = tier
      /\ [tracked EXCEPT !.tier = tier].tracking_started_at
            = tracked.tracking_started_at
      /\ [tracked EXCEPT !.tier = tier].noise_seed = tracked.noise_seed
  BY <1>3, <1>5 DEF Session
<1>7. ScoredAs(r, hybrid, intent) = [tracked EXCEPT !.tier = tier]
  BY DEF ScoredAs, tier, duration, tracked, started
<1> QED
  BY <1>3, <1>4, <1>6, <1>7 DEF started, tracked, duration, tier

LEMMA ScoreInv == ASSUME Inv, NEW r \in Request, Score(r) PROVE Inv'
<1>1. pc[r] = "score" /\ session[r] \in Session
  BY DEF Score, Inv, HandlerShape
<1>2. PICK hybrid \in HybridScores, intent \in BOOLEAN :
        session' = [session EXCEPT ![r] = ScoredAs(r, hybrid, intent)]
  BY DEF Score
<1>3. ScoredAs(r, hybrid, intent) \in Session
  BY <1>1, ScoredProperties
<1>4. TypeOK'
  BY <1>2, <1>3
     DEF Inv, TypeOK, Score, redisVars, taskVars, adminVars, PC, Active,
         Holding, Optional
<1>5. HandlerShape'
  BY <1>1, <1>2, <1>3 DEF Inv, TypeOK, HandlerShape, Score, taskVars
<1>6. SameHolders
  BY DEF SameHolders, Handlers, Writers, Holding, Score, Inv, TypeOK,
         taskVars, adminVars
<1> QED
  BY <1>4, <1>5, <1>6, SameHoldersConserve DEF Inv

LEMMA CompleteInv == ASSUME Inv, NEW r \in Request, Complete(r) PROVE Inv'
<1>1. pc[r] = "llm" /\ session[r] \in Session /\ now[r] \in Nat
  BY DEF Complete, Inv, HandlerShape, TypeOK
<1>2. WithSeed(session[r], now[r]) \in Session
  BY <1>1, WithSeedProperties
<1>3. \/ session' = session
      \/ session' = [session EXCEPT ![r] = WithSeed(session[r], now[r])]
  BY DEF Complete
<1>4. TypeOK'
  BY <1>2, <1>3
     DEF Inv, TypeOK, Complete, redisVars, adminVars, PC, Active, Holding,
         Optional, SideTask
<1>5. HandlerShape'
  BY <1>1, <1>2, <1>3 DEF Inv, TypeOK, HandlerShape, Complete
<1>6. SameHolders
  BY DEF SameHolders, Handlers, Writers, Holding, Complete, Inv, TypeOK,
         adminVars
<1> QED
  BY <1>4, <1>5, <1>6, SameHoldersConserve DEF Inv

LEMMA PersistInv == ASSUME Inv, NEW r \in Request, Persist(r) PROVE Inv'
<1>1. pc[r] = "persist" /\ write[r] = "none"
  BY DEF Persist, Inv, HandlerShape, TypeOK
<1>2. /\ Handlers' = Handlers \ {r} /\ r \in Handlers
      /\ Writers' = Writers \cup {r} /\ r \notin Writers
      /\ admin' = admin /\ poolIdle' = poolIdle /\ poolIdle \in Nat
  BY <1>1
     DEF Handlers, Writers, Holding, Persist, Inv, TypeOK, adminVars
<1>3. PoolConserved'
  <2>1. Cardinality(Handlers') = Cardinality(Handlers) - 1
    BY <1>2, HolderSets, CountRemoved
  <2>2. Cardinality(Writers') = Cardinality(Writers) + 1
    BY <1>2, HolderSets, CountAdded
  <2> QED
    BY <1>2, <2>1, <2>2, HolderSets DEF PoolConserved, Inv
<1>4. TypeOK'
  BY DEF Inv, TypeOK, Persist, redisVars, adminVars, PC, WriteTask, SideTask
<1>5. HandlerShape'
  BY <1>1 DEF Inv, TypeOK, HandlerShape, Persist
<1> QED
  BY <1>3, <1>4, <1>5 DEF Inv

\* The write ends: both outcomes give its connection back.
LEMMA WriterLeaves ==
    ASSUME Inv, NEW r \in Request, write[r] = "pending",
           NEW outcome, outcome # "pending",
           write' = [write EXCEPT ![r] = outcome],
           poolIdle' = poolIdle + 1, pc' = pc, admin' = admin
    PROVE  PoolConserved' /\ poolIdle' \in 0..PoolSize
<1>1. /\ Handlers' = Handlers
      /\ Writers' = Writers \ {r} /\ r \in Writers
      /\ poolIdle \in Nat
  BY DEF Handlers, Writers, Holding, Inv, TypeOK
<1>2. Cardinality(Writers') = Cardinality(Writers) - 1
  BY <1>1, HolderSets, CountRemoved
<1>3. PoolConserved' /\ poolIdle' \in Nat
  BY <1>1, <1>2, HolderSets DEF PoolConserved, Inv
<1> QED
  BY <1>3, IdleBounded

LEMMA LandWriteInv == ASSUME Inv, NEW r \in Request, LandWrite(r) PROVE Inv'
<1>1. /\ pc[r] = "done" /\ session[r] \in Session
      /\ SessionOf[r] \in SessionId
      /\ clock + Ttl \in Nat
  <2>1. pc[r] = "done" /\ session[r] \in Session
    BY DEF LandWrite, Inv, HandlerShape
  <2>2. SessionOf[r] \in SessionId /\ Ttl \in Nat
    BY PipelineAssumption DEF PipelineAssumption
  <2>3. clock \in Nat
    BY DEF Inv, TypeOK
  <2> QED
    BY <2>1, <2>2, <2>3
<1>2. PoolConserved' /\ poolIdle' \in 0..PoolSize
  BY WriterLeaves DEF LandWrite, handlerVars, adminVars
<1>3. TypeOK'
  BY <1>1, <1>2
     DEF Inv, TypeOK, LandWrite, handlerVars, adminVars, Optional, WriteTask
<1>4. HandlerShape'
  BY <1>1 DEF Inv, TypeOK, HandlerShape, LandWrite, handlerVars
<1> QED
  BY <1>2, <1>3, <1>4 DEF Inv

LEMMA LoseWriteInv == ASSUME Inv, NEW r \in Request, LoseWrite(r) PROVE Inv'
<1>1. pc[r] = "done" /\ SessionOf[r] \in SessionId
  BY PipelineAssumption
     DEF PipelineAssumption, LoseWrite, Inv, HandlerShape, TypeOK
<1>2. PoolConserved' /\ poolIdle' \in 0..PoolSize
  BY WriterLeaves DEF LoseWrite, handlerVars, adminVars
<1>3. TypeOK'
  BY <1>1, <1>2
     DEF Inv, TypeOK, LoseWrite, redisVars, handlerVars, adminVars, WriteTask
<1>4. HandlerShape'
  BY <1>1 DEF Inv, TypeOK, HandlerShape, LoseWrite, handlerVars
<1> QED
  BY <1>2, <1>3, <1>4 DEF Inv

LEMMA FinishInv ==
    ASSUME Inv, NEW r \in Request, FinishLog(r) \/ FinishRekor(r)
    PROVE  Inv'
<1>1. TypeOK'
  BY DEF Inv, TypeOK, FinishLog, FinishRekor, redisVars, handlerVars,
         adminVars, SideTask
<1>2. HandlerShape'
  BY DEF Inv, HandlerShape, FinishLog, FinishRekor, handlerVars
<1>3. SameHolders
  BY DEF SameHolders, Handlers, Writers, FinishLog, FinishRekor, handlerVars,
         adminVars
<1> QED
  BY <1>1, <1>2, <1>3, SameHoldersConserve DEF Inv

LEMMA DeleteStartInv ==
    ASSUME Inv, NEW s \in SessionId, DeleteStart(s) PROVE Inv'
<1>1. /\ Handlers' = Handlers /\ Writers' = Writers
      /\ admin = NULL /\ admin' # NULL /\ admin' \in SessionId
      /\ poolIdle \in Nat /\ poolIdle > 0 /\ poolIdle' = poolIdle - 1
  BY PipelineAssumption
     DEF PipelineAssumption, Handlers, Writers, DeleteStart, handlerVars,
         taskVars, Inv, TypeOK
<1>2. PoolConserved' /\ poolIdle' \in Nat
  BY <1>1, HolderSets DEF PoolConserved, Inv
<1>3. deletes' \in 0..MaxDeletes
  BY PipelineAssumption DEF PipelineAssumption, DeleteStart, Inv, TypeOK
<1>4. TypeOK'
  BY <1>1, <1>2, <1>3, IdleBounded
     DEF Inv, TypeOK, DeleteStart, redisVars, handlerVars, taskVars, Optional
<1>5. HandlerShape'
  BY DEF Inv, HandlerShape, DeleteStart, handlerVars, taskVars
<1> QED
  BY <1>2, <1>4, <1>5 DEF Inv

LEMMA DeleteRunInv == ASSUME Inv, DeleteRun \/ DeleteFails PROVE Inv'
<1>1. /\ Handlers' = Handlers /\ Writers' = Writers
      /\ admin \in SessionId /\ admin # NULL /\ admin' = NULL
      /\ poolIdle \in Nat /\ poolIdle' = poolIdle + 1
  BY DEF Handlers, Writers, DeleteRun, DeleteFails, handlerVars, taskVars, Inv, TypeOK,
         Optional
<1>2. PoolConserved' /\ poolIdle' \in Nat
  BY <1>1, HolderSets DEF PoolConserved, Inv
<1>3. TypeOK'
  BY <1>1, <1>2, IdleBounded
     DEF Inv, TypeOK, DeleteRun, DeleteFails, handlerVars, taskVars, Optional
<1>4. HandlerShape'
  BY DEF Inv, HandlerShape, DeleteRun, DeleteFails, handlerVars, taskVars
<1> QED
  BY <1>2, <1>3, <1>4 DEF Inv

LEMMA CrashInv == ASSUME Inv, Crash PROVE Inv'
<1>1. Handlers' = {} /\ Writers' = {}
  <2>1. \A r \in Request : pc'[r] \notin Holding
    BY DEF Crash, Active, Holding
  <2>2. \A r \in Request : write'[r] # "pending"
    BY DEF Crash, Killed
  <2> QED
    BY <2>1, <2>2 DEF Handlers, Writers
<1>2. PoolConserved'
  BY <1>1, FS_EmptySet, PipelineAssumption
     DEF PipelineAssumption, Crash, PoolConserved
<1>3. TypeOK'
  <2>1. /\ pc' \in [Request -> PC]
        /\ write' \in [Request -> WriteTask]
        /\ log' \in [Request -> SideTask]
        /\ rekor' \in [Request -> SideTask]
    BY DEF Inv, TypeOK, Crash, Killed, PC, WriteTask, SideTask
  <2>2. disturbed' \subseteq SessionId
    BY PipelineAssumption
       DEF PipelineAssumption, Inv, TypeOK, Crash, Writers
  <2>3. crashes' \in 0..MaxCrashes /\ poolIdle' \in 0..PoolSize
    BY PipelineAssumption DEF PipelineAssumption, Inv, TypeOK, Crash
  <2> QED
    BY <2>1, <2>2, <2>3 DEF Inv, TypeOK, Crash, redisVars, Optional
<1>4. HandlerShape'
  BY DEF Inv, TypeOK, HandlerShape, Crash, Killed, Active, Holding
<1> QED
  BY <1>2, <1>3, <1>4 DEF Inv

LEMMA UnobservedInv == ASSUME Inv, Tick \/ UNCHANGED vars PROVE Inv'
<1>1. TypeOK'
  BY DEF Inv, TypeOK, Tick, vars, redisVars, handlerVars, taskVars, adminVars
<1>2. HandlerShape'
  BY DEF Inv, HandlerShape, Tick, vars, handlerVars, taskVars
<1>3. SameHolders
  BY DEF SameHolders, Handlers, Writers, Tick, vars, handlerVars, taskVars,
         adminVars
<1> QED
  BY <1>1, <1>2, <1>3, SameHoldersConserve DEF Inv

LEMMA StepInv == Inv /\ [Next]_vars => Inv'
<1> SUFFICES ASSUME Inv, [Next]_vars PROVE Inv'
  OBVIOUS
<1>1. ASSUME NEW r \in Request,
             PoolTimeout(r) \/ Abort(r)
      PROVE  Inv'
  BY <1>1, EndHandlerInv DEF PoolTimeout, Abort, Active, Holding
<1>2. ASSUME NEW r \in Request,
             \/ Start(r) \/ AcquireRead(r)
             \/ Load(r) \/ Score(r) \/ Complete(r) \/ Persist(r)
             \/ LandWrite(r) \/ LoseWrite(r)
             \/ FinishLog(r) \/ FinishRekor(r)
      PROVE  Inv'
  BY <1>2, StartInv, AcquireReadInv, LoadInv, ScoreInv, CompleteInv,
     PersistInv, LandWriteInv, LoseWriteInv, FinishInv
<1>3. ASSUME NEW s \in SessionId, DeleteStart(s) PROVE Inv'
  BY <1>3, DeleteStartInv
<1>4. ASSUME DeleteRun \/ DeleteFails \/ Crash \/ Tick \/ UNCHANGED vars PROVE Inv'
  BY <1>4, DeleteRunInv, CrashInv, UnobservedInv
<1> QED
  BY <1>1, <1>2, <1>3, <1>4 DEF Next

THEOREM InvInvariant == Spec => []Inv
<1>1. Init => Inv
  BY InitInv
<1>2. Inv /\ [Next]_vars => Inv'
  BY StepInv
<1> QED
  BY <1>1, <1>2, PTL DEF Spec

\* Every variable keeps its shape in every reachable state.
THEOREM TypeCorrect == Spec => []TypeOK
<1>1. Inv => TypeOK
  BY DEF Inv
<1> QED
  BY <1>1, InvInvariant, PTL

\* No exit path loses a Redis connection or returns one twice, however many
\* handlers share the pool.
THEOREM PoolIsConserved == Spec => []PoolConserved
<1>1. Inv => PoolConserved
  BY DEF Inv
<1> QED
  BY <1>1, InvInvariant, PTL

-----------------------------------------------------------------------------
(* Verdicts: what a handler decided, and what it knew when it decided.      *)

\* A handler in flight started in the past, within the gateway's deadline.
InTime(r) ==
    pc[r] \in Active => now[r] <= clock /\ clock - now[r] <= RequestTimeout

\* Until it is scored, a session is tracked since when its record says.
Unscored(r) ==
    pc[r] = "score" =>
      session[r].tracking_started_at = loaded[r].tracking_started_at

Verdict(r) ==
    Judged(r) =>
      /\ session[r].tier = 3 => loaded[r].tracking_started_at # NULL
      /\ /\ loaded[r].tracking_started_at # NULL
         /\ now[r] - loaded[r].tracking_started_at >= Tier2MinDuration
         => session[r].tier >= 2

Audit(r) ==
    /\ pc[r] \in {"persist", "done"} /\ session[r].tier = 3 =>
          rekor[r] # "none"
    /\ rekor[r] # "none" =>
          /\ session[r].tier = 3 /\ session[r].noise_seed # NULL
          /\ pc[r] \in {"persist", "done", "failed"}

Sound(r) == InTime(r) /\ Unscored(r) /\ Verdict(r) /\ Audit(r)
AllSound == \A r \in Request : Sound(r)

\* A step that one request does not take part in leaves it as it was.
SameView(q) ==
    /\ pc'[q] = pc[q] /\ now'[q] = now[q] /\ clock' = clock
    /\ loaded'[q] = loaded[q] /\ session'[q] = session[q]
    /\ rekor'[q] = rekor[q]

LEMMA SameViewSound ==
    ASSUME NEW q \in Request, Sound(q), SameView(q)
    PROVE  Sound(q)'
  BY DEF Sound, SameView, InTime, Unscored, Verdict, Audit, Judged

LEMMA StartSound ==
    ASSUME Inv, NEW r \in Request, Sound(r), Start(r) PROVE Sound(r)'
<1>1. /\ pc'[r] = "acquire" /\ now'[r] = clock /\ clock' = clock
      /\ rekor'[r] = rekor[r] /\ session'[r] = session[r]
      /\ pc[r] = "idle" /\ clock \in Nat
  BY DEF Start, Inv, TypeOK, taskVars
<1>2. rekor[r] = "none"
  BY <1>1 DEF Sound, Audit
<1> QED
  BY <1>1, <1>2, PipelineAssumption
     DEF PipelineAssumption, Sound, InTime, Unscored, Verdict, Audit, Judged,
         Active, Holding

LEMMA EndHandlerSound ==
    ASSUME Inv, NEW r \in Request, Sound(r), pc[r] \in Active, EndHandler(r)
    PROVE  Sound(r)'
<1>1. /\ pc'[r] = "failed" /\ rekor'[r] = rekor[r] /\ session'[r] = session[r]
  BY DEF EndHandler, Inv, TypeOK, taskVars
<1> QED
  BY <1>1
     DEF Sound, InTime, Unscored, Verdict, Audit, Judged, Active, Holding

LEMMA LoadSound ==
    ASSUME Inv, NEW r \in Request, Sound(r), Load(r) PROVE Sound(r)'
<1> DEFINE s   == SessionOf[r]
           rec == IF Stored(s) = NULL THEN NewSession(clock) ELSE Stored(s)
<1>1. s \in SessionId
  BY PipelineAssumption DEF PipelineAssumption
<1>2. rec \in Session
  BY <1>1, LoadedIsRecord
<1>3. pc[r] = "load" /\ now[r] \in Nat
  BY DEF Load, Inv, TypeOK
<1>4. CASE rec.is_banned
  <2>1. EndHandler(r)
    BY <1>4 DEF Load
  <2> QED
    BY <1>3, <2>1, EndHandlerSound DEF Active, Holding
<1>5. CASE ~ rec.is_banned
  <2> HIDE DEF rec
  <2>1. /\ loaded'[r] = rec /\ session'[r] = Touch(rec, r, now[r])
        /\ pc'[r] = "score" /\ now'[r] = now[r] /\ clock' = clock
        /\ rekor'[r] = rekor[r]
    BY <1>5 DEF Load, rec, Inv, TypeOK, taskVars
  <2>2. Touch(rec, r, now[r]).tracking_started_at = rec.tracking_started_at
    BY <1>2, <1>3, TouchProperties
  <2>3. rekor[r] = "none"
    BY <1>3 DEF Sound, Audit
  <2> QED
    BY <1>3, <2>1, <2>2, <2>3
       DEF Sound, InTime, Unscored, Verdict, Audit, Judged, Active, Holding
<1> QED
  BY <1>4, <1>5

\* The heart of the matter.  A record that was untracked has, when it is
\* scored, been tracked for no longer than the handler has run, which is not
\* long enough for Tier 3.  A record that was tracked keeps its start, so its
\* duration is at least the one at the handler's start.
LEMMA ScoreSound ==
    ASSUME Inv, NEW r \in Request, Sound(r), Score(r) PROVE Sound(r)'
<1>1. /\ pc[r] = "score" /\ session[r] \in Session /\ loaded[r] \in Session
      /\ now[r] \in Nat /\ clock \in Nat
  BY DEF Score, Inv, HandlerShape, TypeOK
<1>2. PICK hybrid \in HybridScores, intent \in BOOLEAN :
        session' = [session EXCEPT ![r] = ScoredAs(r, hybrid, intent)]
  BY DEF Score
<1> DEFINE started == StartTracking(session[r], now[r])
           tracked == IF hybrid > TrackingThreshold THEN started ELSE session[r]
           duration == TrackingDuration(tracked, clock)
           scored == ScoredAs(r, hybrid, intent)
           since == loaded[r].tracking_started_at
<1>3. /\ duration \in Int
      /\ scored.tier = ClassifyTier(hybrid, duration, intent)
      /\ tracked \in Session
  BY <1>1, ScoredProperties
<1>4. /\ session'[r] = scored /\ pc'[r] = "llm" /\ now'[r] = now[r]
      /\ loaded'[r] = loaded[r] /\ clock' = clock /\ rekor'[r] = rekor[r]
  BY <1>2 DEF Score, Inv, TypeOK, taskVars
<1>5. /\ now[r] <= clock /\ clock - now[r] <= RequestTimeout
      /\ session[r].tracking_started_at = since /\ rekor[r] = "none"
  BY <1>1 DEF Sound, InTime, Unscored, Audit, Active, Holding
<1>6. tracked.tracking_started_at
         \in IF since = NULL THEN {NULL, now[r]} ELSE {since}
  BY <1>1, <1>5, StartTrackingProperties
<1>7. since \in Nat \cup {NULL}
  BY <1>1 DEF Session, Optional
<1> HIDE DEF scored, tracked, since
<1>8. /\ RequestTimeout \in Nat /\ RequestTimeout <= Tier3MinDuration
      /\ Tier3MinDuration \in Int /\ Tier2MinDuration \in Int
  BY PipelineAssumption, DeadlineAssumption, PolicyAssumption
     DEF PipelineAssumption, DeadlineAssumption, PolicyAssumption
<1>9. since = NULL => duration <= RequestTimeout
  BY <1>1, <1>5, <1>6, <1>8 DEF TrackingDuration
<1>10. since # NULL => duration = clock - since
  BY <1>6 DEF TrackingDuration
<1> HIDE DEF duration
<1>11. scored.tier = 3 => since # NULL
  BY <1>3, <1>8, <1>9 DEF ClassifyTier, EarnsTier3
<1>12. since # NULL /\ now[r] - since >= Tier2MinDuration => scored.tier >= 2
  BY <1>1, <1>3, <1>5, <1>7, <1>8, <1>10 DEF ClassifyTier, EarnsTier2
<1> QED
  BY <1>4, <1>5, <1>11, <1>12
     DEF Sound, InTime, Unscored, Verdict, Audit, Judged, Active, Holding,
         since

LEMMA CompleteSound ==
    ASSUME Inv, NEW r \in Request, Sound(r), Complete(r) PROVE Sound(r)'
<1>1. /\ pc[r] = "llm" /\ session[r] \in Session /\ now[r] \in Nat
  BY DEF Complete, Inv, HandlerShape, TypeOK
<1>2. /\ pc'[r] = "persist" /\ now'[r] = now[r] /\ clock' = clock
      /\ loaded'[r] = loaded[r]
      /\ session[r].tier = 3 => rekor'[r] = "pending"
      /\ session[r].tier # 3 => rekor'[r] = rekor[r]
      /\ session[r].tier = 1 => session'[r] = session[r]
      /\ session[r].tier # 1 => session'[r] = WithSeed(session[r], now[r])
  BY DEF Complete, Inv, TypeOK
<1>3. rekor[r] = "none"
  BY <1>1 DEF Sound, Audit
<1>4. /\ WithSeed(session[r], now[r]).tier = session[r].tier
      /\ WithSeed(session[r], now[r]).noise_seed # NULL
  BY <1>1, WithSeedProperties, RecordAssumption DEF RecordAssumption
<1>5. /\ session'[r].tier = session[r].tier
      /\ session[r].tier = 3 => session'[r].noise_seed # NULL
  BY <1>2, <1>4
<1> QED
  BY <1>1, <1>2, <1>3, <1>5
     DEF Sound, InTime, Unscored, Verdict, Audit, Judged, Active, Holding

\* AcquireRead and Persist move a request on and decide nothing.
LEMMA AdvanceSound ==
    ASSUME Inv, NEW r \in Request, Sound(r), AcquireRead(r) \/ Persist(r)
    PROVE  Sound(r)'
<1>1. /\ now'[r] = now[r] /\ clock' = clock /\ loaded'[r] = loaded[r]
      /\ session'[r] = session[r] /\ rekor'[r] = rekor[r]
      /\ \/ pc[r] = "acquire" /\ pc'[r] = "load"
         \/ pc[r] = "persist" /\ pc'[r] = "done"
  BY DEF AcquireRead, Persist, Inv, TypeOK, taskVars
<1> QED
  BY <1>1
     DEF Sound, InTime, Unscored, Verdict, Audit, Judged, Active, Holding

LEMMA FinishRekorSound ==
    ASSUME Inv, NEW r \in Request, Sound(r), FinishRekor(r) PROVE Sound(r)'
<1>1. /\ pc' = pc /\ now' = now /\ clock' = clock /\ loaded' = loaded
      /\ session' = session /\ rekor[r] = "pending" /\ rekor'[r] = "ended"
  BY DEF FinishRekor, Inv, TypeOK, handlerVars
<1> QED
  BY <1>1 DEF Sound, InTime, Unscored, Verdict, Audit, Judged

LEMMA CrashSound ==
    ASSUME Inv, NEW q \in Request, Sound(q), Crash PROVE Sound(q)'
<1>1. /\ now' = now /\ clock' = clock /\ loaded' = loaded
      /\ session' = session
      /\ pc'[q] = IF pc[q] \in Active THEN "failed" ELSE pc[q]
      /\ rekor'[q] = IF rekor[q] = "pending" THEN "ended" ELSE rekor[q]
  BY DEF Crash, Killed
<1> QED
  BY <1>1
     DEF Sound, InTime, Unscored, Verdict, Audit, Judged, Active, Holding

LEMMA TickSound ==
    ASSUME Inv, NEW q \in Request, Sound(q), Tick PROVE Sound(q)'
<1>1. /\ pc' = pc /\ now' = now /\ loaded' = loaded /\ session' = session
      /\ rekor' = rekor /\ clock' = clock + 1
      /\ pc[q] \in Active => clock - now[q] < RequestTimeout
      /\ clock \in Nat /\ now[q] \in Nat /\ RequestTimeout \in Nat
  BY PipelineAssumption
     DEF PipelineAssumption, Tick, handlerVars, taskVars, Inv, TypeOK
<1>2. InTime(q)'
  BY <1>1 DEF Sound, InTime
<1> QED
  BY <1>1, <1>2 DEF Sound, Unscored, Verdict, Audit, Judged

\* The steps of one request, which no other request sees.
OwnStep(r) ==
    \/ Start(r) \/ AcquireRead(r) \/ PoolTimeout(r) \/ Abort(r)
    \/ Load(r) \/ Score(r) \/ Complete(r) \/ Persist(r)
    \/ LandWrite(r) \/ LoseWrite(r) \/ FinishLog(r) \/ FinishRekor(r)

LEMMA OwnStepSound ==
    ASSUME Inv, NEW r \in Request, Sound(r), OwnStep(r) PROVE Sound(r)'
<1>1. CASE PoolTimeout(r) \/ Abort(r)
  BY <1>1, EndHandlerSound DEF PoolTimeout, Abort, Active, Holding
<1>2. CASE LandWrite(r) \/ LoseWrite(r) \/ FinishLog(r)
  <2>1. SameView(r)
    BY <1>2
       DEF SameView, LandWrite, LoseWrite, FinishLog, handlerVars, redisVars
  <2> QED
    BY <2>1, SameViewSound
<1> QED
  BY <1>1, <1>2, StartSound, AdvanceSound, LoadSound, ScoreSound,
     CompleteSound, FinishRekorSound DEF OwnStep

LEMMA OthersUnchanged ==
    ASSUME Inv, NEW r \in Request, OwnStep(r), NEW q \in Request, q # r
    PROVE  SameView(q)
<1> USE DEF SameView, redisVars, handlerVars, taskVars
<1>1. CASE Start(r) \/ AcquireRead(r) \/ Persist(r)
  BY <1>1 DEF Start, AcquireRead, Persist, Inv, TypeOK
<1>2. CASE PoolTimeout(r) \/ Abort(r)
  BY <1>2 DEF PoolTimeout, Abort, EndHandler, Inv, TypeOK
<1>3. CASE Load(r)
  <2>1. CASE EndHandler(r)
    BY <2>1 DEF EndHandler, Inv, TypeOK
  <2>2. CASE ~ EndHandler(r)
    BY <1>3, <2>2 DEF Load, Inv, TypeOK
  <2> QED
    BY <2>1, <2>2
<1>4. CASE Score(r) \/ Complete(r)
  BY <1>4 DEF Score, Complete, Inv, TypeOK
<1>5. CASE LandWrite(r) \/ LoseWrite(r) \/ FinishLog(r) \/ FinishRekor(r)
  BY <1>5 DEF LandWrite, LoseWrite, FinishLog, FinishRekor, Inv, TypeOK
<1> QED
  BY <1>1, <1>2, <1>3, <1>4, <1>5 DEF OwnStep

LEMMA AllSoundStep == Inv /\ AllSound /\ [Next]_vars => AllSound'
<1> SUFFICES ASSUME Inv, AllSound, [Next]_vars, NEW q \in Request
             PROVE  Sound(q)'
  BY DEF AllSound
<1>1. Sound(q)
  BY DEF AllSound
<1>2. ASSUME NEW r \in Request, OwnStep(r) PROVE Sound(q)'
  <2>1. CASE q = r
    BY <1>1, <1>2, <2>1, OwnStepSound
  <2>2. CASE q # r
    BY <1>1, <1>2, <2>2, OthersUnchanged, SameViewSound
  <2> QED
    BY <2>1, <2>2
<1>3. ASSUME (\E s \in SessionId : DeleteStart(s)) \/ DeleteRun
               \/ DeleteFails \/ UNCHANGED vars
      PROVE  Sound(q)'
  <2>1. SameView(q)
    BY <1>3 DEF SameView, DeleteStart, DeleteRun, DeleteFails, vars, redisVars,
                handlerVars, taskVars
  <2> QED
    BY <1>1, <2>1, SameViewSound
<1>4. ASSUME Crash \/ Tick PROVE Sound(q)'
  BY <1>1, <1>4, CrashSound, TickSound
<1> QED
  BY <1>2, <1>3, <1>4 DEF Next, OwnStep

LEMMA AllSoundInit == Init => AllSound
  BY DEF Init, AllSound, Sound, InTime, Unscored, Verdict, Audit, Judged,
         Active, Holding

THEOREM AllSoundInvariant == Spec => []AllSound
<1>1. Init => AllSound
  BY AllSoundInit
<1>2. Inv /\ AllSound /\ [Next]_vars => AllSound'
  BY AllSoundStep
<1> QED
  BY <1>1, <1>2, InvInvariant, PTL DEF Spec

\* Tier 3 takes two requests, for every pool, load, fault and schedule, as
\* long as the gateway's deadline is below Tier 3's minimum duration; an intent
\* flag changes nothing of it, whatever README.md lines 201 and 220 say.
THEOREM TierThreeTakesHistory == Spec => []TierThreeNeedsHistory
<1>1. AllSound => TierThreeNeedsHistory
  BY DEF AllSound, Sound, Verdict, TierThreeNeedsHistory
<1> QED
  BY <1>1, AllSoundInvariant, PTL

\* Once a record has been tracked for Tier 2's duration, every later request
\* that reads it is at least Tier 2, whatever it scores.
THEOREM EscalationIsPermanent == Spec => []EscalationPersists
<1>1. AllSound => EscalationPersists
  BY DEF AllSound, Sound, Verdict, EscalationPersists
<1> QED
  BY <1>1, AllSoundInvariant, PTL

\* No Tier 3 answer goes out without its Rekor submission spawned, and every
\* submission is of a Tier 3 verdict with a seed.
THEOREM TierThreeIsAudited == Spec => []AuditedTierThree
<1>1. AllSound => AuditedTierThree
  BY DEF AllSound, Sound, Audit, AuditedTierThree
<1> QED
  BY <1>1, AllSoundInvariant, PTL
=============================================================================
