------------------------- MODULE InferRecordsProofs -------------------------
(***************************************************************************)
(* The records of InferPipeline for every number of requests and sessions: *)
(* each keeps its shape, whatever order handlers and writes took, the      *)
(* pipeline implements SessionRegister, and a client that waits for each   *)
(* write is promised more.                                                 *)
(***************************************************************************)
EXTENDS InferPipelineProofs

-----------------------------------------------------------------------------
(* What the operators on records keep of the two histories.                 *)

\* The entries of a trimmed sequence are the last ones of the sequence.
LEMMA TrimEntries ==
    ASSUME NEW S, NEW seq \in Seq(S), NEW max \in Nat
    PROVE  \E k \in Nat : \A i \in DOMAIN Trim(seq, max) :
              i + k \in DOMAIN seq /\ Trim(seq, max)[i] = seq[i + k]
<1>1. Len(seq) \in Nat /\ DOMAIN seq = 1..Len(seq)
  BY LenProperties
<1>2. CASE Len(seq) <= max
  <2>1. Trim(seq, max) = seq
    BY <1>1, <1>2 DEF Trim
  <2>2. \A i \in DOMAIN seq : i + 0 = i
    BY <1>1
  <2> QED
    BY <2>1, <2>2
<1>3. CASE Len(seq) > max
  <2> DEFINE k == Len(seq) - max
  <2>1. k \in Nat /\ k + 1 <= Len(seq) + 1
    BY <1>1, <1>3
  <2>2. Trim(seq, max) = [i \in 1..max |-> seq[i + k]]
    BY <1>1, <1>3, <2>1 DEF Trim
  <2>3. \A i \in 1..max : i + k \in 1..Len(seq)
    BY <1>1, <1>3, <2>1
  <2> QED
    BY <1>1, <2>1, <2>2, <2>3
<1> QED
  BY <1>1, <1>2, <1>3

\* Appending to a trimmed history and trimming it again counts one more, up to
\* the limit.
LEMMA TrimmedLength ==
    ASSUME NEW S, NEW seq \in Seq(S), NEW x \in S, NEW max \in Nat,
           NEW count \in Nat, Len(seq) = IF count < max THEN count ELSE max
    PROVE  Len(Trim(Append(seq, x), max))
              = IF count + 1 < max THEN count + 1 ELSE max
<1>1. Append(seq, x) \in Seq(S) /\ Len(Append(seq, x)) = Len(seq) + 1
  BY AppendProperties
<1>2. Len(Trim(Append(seq, x), max))
        = IF Len(seq) + 1 < max THEN Len(seq) + 1 ELSE max
  BY <1>1, TrimProperties
<1> QED
  BY <1>2

\* Every entry of the new history is the new one or one that was there; if the
\* new one was not, no entry is there twice.
LEMMA TrimmedEntries ==
    ASSUME NEW S, NEW seq \in Seq(S), NEW x \in S, NEW max \in Nat
    PROVE  LET new == Trim(Append(seq, x), max)
           IN  /\ \A i \in DOMAIN new : new[i] = x \/ \E j \in DOMAIN seq : new[i] = seq[j]
               /\ /\ \A i, j \in DOMAIN seq : seq[i] = seq[j] => i = j
                  /\ \A i \in DOMAIN seq : seq[i] # x
                  => \A i, j \in DOMAIN new : new[i] = new[j] => i = j
<1> DEFINE longer == Append(seq, x)
           new == Trim(longer, max)
<1>1. /\ Len(seq) \in Nat /\ DOMAIN seq = 1..Len(seq)
      /\ longer \in Seq(S) /\ DOMAIN longer = 1..(Len(seq) + 1)
      /\ longer[Len(seq) + 1] = x
      /\ \A i \in 1..Len(seq) : longer[i] = seq[i]
  BY AppendProperties, LenProperties
<1>2. new \in Seq(S)
  BY <1>1, TrimProperties
<1>3. PICK k \in Nat : \A i \in DOMAIN new :
                          i + k \in DOMAIN longer /\ new[i] = longer[i + k]
  BY <1>1, TrimEntries
<1>4. DOMAIN new \subseteq Nat
  BY <1>2, LenProperties
<1> HIDE DEF longer, new
<1>5. \A i \in DOMAIN new : new[i] = x \/ \E j \in DOMAIN seq : new[i] = seq[j]
  BY <1>1, <1>3
<1>6. ASSUME \A i, j \in DOMAIN seq : seq[i] = seq[j] => i = j,
             \A i \in DOMAIN seq : seq[i] # x,
             NEW i \in DOMAIN new, NEW j \in DOMAIN new, new[i] = new[j]
      PROVE  i = j
  <2>1. i + k \in 1..(Len(seq) + 1) /\ j + k \in 1..(Len(seq) + 1)
        /\ longer[i + k] = longer[j + k]
    BY <1>1, <1>3, <1>6
  <2>2. i + k = j + k
    BY <1>1, <1>6, <2>1
  <2> QED
    BY <1>3, <1>4, <2>2
<1> QED
  BY <1>5, <1>6 DEF new, longer

-----------------------------------------------------------------------------
(* RecordShape.  It is not inductive alone: a request is in a record at     *)
(* most once only because its handler has not read one before, and a record *)
(* lies in the past only because each handler's `now` does.                 *)

Early == {"idle", "acquire", "load"}
Known(rec) ==
    \A i \in DOMAIN rec.prompt_history : pc[rec.prompt_history[i]] \notin Early

ShapeInv ==
    /\ \A r \in Request : now[r] <= clock
    /\ \A rec \in Records : Shaped(rec) /\ Known(rec)

LEMMA RecordsAreSessions == ASSUME Inv PROVE Records \subseteq Session
  BY DEF Inv, TypeOK, Records, Optional

\* A record keeps its shape as time passes and handlers move on.
LEMMA RecordsAge ==
    ASSUME Inv, NEW rec \in Session, Shaped(rec), Known(rec),
           clock' \in Nat, clock <= clock',
           \A q \in Request : pc'[q] \in Early => pc[q] \in Early
    PROVE  Shaped(rec)' /\ Known(rec)'
<1>1. /\ rec.timestamps \in Seq(Nat) /\ rec.prompt_history \in Seq(Request)
      /\ rec.tracking_started_at \in Nat \cup {NULL}
  BY DEF Session, Optional
<1>2. /\ \A i \in DOMAIN rec.timestamps : rec.timestamps[i] \in Nat
      /\ \A i \in DOMAIN rec.prompt_history : rec.prompt_history[i] \in Request
  BY <1>1, ElementOfSeq, LenProperties
<1>3. clock \in Nat
  BY DEF Inv, TypeOK
<1>4. Known(rec)'
  BY <1>2 DEF Known
<1>5. Shaped(rec)'
  <2>1. \A i \in DOMAIN rec.timestamps : rec.timestamps[i] <= clock'
    BY <1>2, <1>3 DEF Shaped
  <2>2. rec.tracking_started_at # NULL => rec.tracking_started_at <= clock'
    BY <1>1, <1>3 DEF Shaped
  <2> QED
    BY <2>1, <2>2 DEF Shaped
<1> QED
  BY <1>4, <1>5

\* What a step has to show: that the records it makes have the shape.
LEMMA ShapeStep ==
    ASSUME Inv, ShapeInv, clock' \in Nat, clock <= clock',
           \A q \in Request : pc'[q] \in Early => pc[q] \in Early,
           \A q \in Request : now'[q] <= clock',
           \A rec \in Records' : rec \in Records \/ (Shaped(rec)' /\ Known(rec)')
    PROVE  ShapeInv'
<1>1. ASSUME NEW rec \in Records' PROVE Shaped(rec)' /\ Known(rec)'
  <2>1. CASE rec \in Records
    BY <2>1, RecordsAreSessions, RecordsAge DEF ShapeInv
  <2> QED
    BY <2>1
<1> QED
  BY <1>1 DEF ShapeInv

\* A step that changes at most one record, of handler r.
LEMMA OneNewRecord ==
    ASSUME Inv, ShapeInv, NEW r \in Request, NEW rec,
           clock' = clock, now' = now, store' = store,
           session' = [session EXCEPT ![r] = rec],
           \A q \in Request : pc'[q] \in Early => pc[q] \in Early,
           Shaped(rec)' /\ Known(rec)'
    PROVE  ShapeInv'
<1>1. \A x \in Records' : x \in Records \/ x = rec
  BY DEF Records, Inv, TypeOK
<1>2. clock' \in Nat /\ clock <= clock'
  BY DEF Inv, TypeOK
<1>3. \A q \in Request : now'[q] <= clock'
  BY DEF ShapeInv
<1>4. \A x \in Records' : x \in Records \/ (Shaped(x)' /\ Known(x)')
  BY <1>1
<1> QED
  BY <1>2, <1>3, <1>4, ShapeStep

\* A step that makes no record.
LEMMA NoNewRecord ==
    ASSUME Inv, ShapeInv, clock' \in Nat, clock <= clock',
           \A q \in Request : pc'[q] \in Early => pc[q] \in Early,
           \A q \in Request : now'[q] = now[q] \/ now'[q] = clock,
           \A s \in SessionId : store'[s] = store[s] \/ store'[s] = NULL
                                  \/ store'[s] \in Records,
           session' = session
    PROVE  ShapeInv'
<1>1. \A x \in Records' : x \in Records
  BY DEF Records
<1>2. \A q \in Request : now'[q] <= clock'
  BY DEF ShapeInv, Inv, TypeOK
<1> QED
  BY <1>1, <1>2, ShapeStep

LEMMA TouchedShape ==
    ASSUME NEW rec \in Session, NEW r \in Request, NEW t \in Nat,
           clock \in Nat, t <= clock, Shaped(rec), Known(rec), pc[r] \in Early
    PROVE  LET new == Touch(rec, r, t)
           IN  /\ Shaped(new)
               /\ \A i \in DOMAIN new.prompt_history :
                     \/ new.prompt_history[i] = r
                     \/ \E j \in DOMAIN rec.prompt_history :
                           new.prompt_history[i] = rec.prompt_history[j]
<1> DEFINE new == Touch(rec, r, t)
           times == Trim(Append(rec.timestamps, t), MaxTimestamps)
           prompts == Trim(Append(rec.prompt_history, r), MaxHistory)
<1>1. /\ rec.timestamps \in Seq(Nat) /\ rec.prompt_history \in Seq(Request)
      /\ rec.request_count \in Nat
      /\ MaxTimestamps \in Nat /\ MaxHistory \in Nat
  BY RecordAssumption DEF Session, RecordAssumption
<1>2. /\ new.timestamps = times /\ new.prompt_history = prompts
      /\ new.request_count = rec.request_count + 1
      /\ new.tracking_started_at = rec.tracking_started_at
  BY TouchProperties
<1> HIDE DEF new
<1>3. Len(times) = IF rec.request_count + 1 < MaxTimestamps
                   THEN rec.request_count + 1 ELSE MaxTimestamps
  <2>1. Len(rec.timestamps) = IF rec.request_count < MaxTimestamps
                              THEN rec.request_count ELSE MaxTimestamps
    BY DEF Shaped
  <2> QED
    BY <1>1, <2>1, TrimmedLength
<1>4. Len(prompts) = IF rec.request_count + 1 < MaxHistory
                     THEN rec.request_count + 1 ELSE MaxHistory
  BY <1>1, TrimmedLength DEF Shaped
<1>5. \A i \in DOMAIN times : times[i] = t
                                \/ \E j \in DOMAIN rec.timestamps : times[i] = rec.timestamps[j]
  BY <1>1, TrimmedEntries
<1>6. /\ \A i \in DOMAIN prompts : prompts[i] = r
            \/ \E j \in DOMAIN rec.prompt_history : prompts[i] = rec.prompt_history[j]
      /\ /\ \A i, j \in DOMAIN rec.prompt_history :
               rec.prompt_history[i] = rec.prompt_history[j] => i = j
         /\ \A i \in DOMAIN rec.prompt_history : rec.prompt_history[i] # r
         => \A i, j \in DOMAIN prompts : prompts[i] = prompts[j] => i = j
  BY <1>1, TrimmedEntries
<1>7. \A i \in DOMAIN rec.prompt_history : rec.prompt_history[i] # r
  BY DEF Known
<1> HIDE DEF times, prompts
<1>8. \A i \in DOMAIN times : times[i] <= clock
  BY <1>5 DEF Shaped
<1>9. \A i, j \in DOMAIN prompts : prompts[i] = prompts[j] => i = j
  BY <1>6, <1>7 DEF Shaped
<1>10. Shaped(new)
  BY <1>2, <1>3, <1>4, <1>8, <1>9 DEF Shaped
<1>11. \A i \in DOMAIN new.prompt_history :
         \/ new.prompt_history[i] = r
         \/ \E j \in DOMAIN rec.prompt_history :
               new.prompt_history[i] = rec.prompt_history[j]
  BY <1>2, <1>6
<1> QED
  BY <1>10, <1>11 DEF new

LEMMA LoadShape ==
    ASSUME Inv, ShapeInv, NEW r \in Request, Load(r) PROVE ShapeInv'
<1> DEFINE s   == SessionOf[r]
           rec == IF Stored(s) = NULL THEN NewSession(clock) ELSE Stored(s)
           new == Touch(rec, r, now[r])
<1>1. s \in SessionId
  BY PipelineAssumption DEF PipelineAssumption
<1>2. rec \in Session
  BY <1>1, LoadedIsRecord
<1>3. pc[r] = "load" /\ now[r] \in Nat /\ clock \in Nat /\ now[r] <= clock
  BY DEF Load, Inv, TypeOK, ShapeInv
<1>4. CASE rec.is_banned
  BY <1>3, <1>4, NoNewRecord
     DEF Load, EndHandler, Inv, TypeOK, redisVars, Early
<1>5. CASE ~ rec.is_banned
  <2>1. Shaped(rec) /\ Known(rec)
    <3>1. CASE Stored(s) = NULL
      <4>1. rec = NewSession(clock)
        BY <3>1
      <4>2. /\ rec.timestamps = <<>> /\ rec.prompt_history = <<>>
            /\ rec.request_count = 0 /\ rec.tracking_started_at = NULL
        BY <4>1 DEF NewSession
      <4> HIDE DEF rec
      <4> QED
        BY <4>2, RecordAssumption, EmptySeq DEF RecordAssumption, Shaped, Known
    <3>2. CASE Stored(s) # NULL
      <4>1. rec = store[s] /\ rec # NULL
        BY <3>2 DEF Stored
      <4>2. rec \in Records
        BY <1>1, <4>1 DEF Records
      <4> QED
        BY <4>2 DEF ShapeInv
    <3> QED
      BY <3>1, <3>2
  <2> HIDE DEF rec
  <2>2. /\ session' = [session EXCEPT ![r] = new]
        /\ pc' = [pc EXCEPT ![r] = "score"]
        /\ clock' = clock /\ now' = now /\ store' = store
    BY <1>5 DEF Load, rec, redisVars
  <2>3. /\ Shaped(new)
        /\ \A i \in DOMAIN new.prompt_history :
              \/ new.prompt_history[i] = r
              \/ \E j \in DOMAIN rec.prompt_history :
                    new.prompt_history[i] = rec.prompt_history[j]
    BY <1>2, <1>3, <2>1, TouchedShape DEF Early
  <2>4. /\ rec.prompt_history \in Seq(Request)
        /\ \A j \in DOMAIN rec.prompt_history : rec.prompt_history[j] \in Request
    BY <1>2, ElementOfSeq, LenProperties DEF Session
  <2>5. \A q \in Request : pc'[q] \in Early => pc[q] \in Early
    BY <2>2 DEF Inv, TypeOK, Early
  <2> HIDE DEF new
  <2>6. PICK touched : touched = new
    OBVIOUS
  <2>7. Known(touched)'
    <3>1. pc'[r] \notin Early
      BY <2>2 DEF Inv, TypeOK, Early
    <3> QED
      BY <2>6, <2>1, <2>3, <2>4, <2>5, <3>1 DEF Known
  <2>8. Shaped(touched)'
    BY <2>6, <2>2, <2>3 DEF Shaped
  <2> QED
    BY <2>6, <2>2, <2>5, <2>7, <2>8, OneNewRecord
<1> QED
  BY <1>4, <1>5

\* Two records that tell the same requests.
SameRequests(a, b) ==
    /\ a.request_count = b.request_count /\ a.timestamps = b.timestamps
    /\ a.prompt_history = b.prompt_history
    /\ a.first_seen_at = b.first_seen_at /\ a.is_banned = b.is_banned
    /\ a.last_active_at = b.last_active_at

LEMMA ScoredKeeps ==
    ASSUME Inv, NEW r \in Request, session[r] \in Session,
           NEW hybrid \in HybridScores, NEW intent \in BOOLEAN
    PROVE  LET scored == ScoredAs(r, hybrid, intent)
           IN  /\ SameRequests(scored, session[r])
               /\ scored.tracking_started_at
                     \in IF session[r].tracking_started_at = NULL
                         THEN {NULL, now[r]} ELSE {session[r].tracking_started_at}
               /\ scored.noise_seed = session[r].noise_seed
<1> DEFINE started == StartTracking(session[r], now[r])
           tracked == IF hybrid > TrackingThreshold THEN started ELSE session[r]
           tier == ClassifyTier(hybrid, TrackingDuration(tracked, clock), intent)
<1>1. /\ SameRequests(started, session[r])
      /\ started.noise_seed = session[r].noise_seed
      /\ started.tracking_started_at
            = IF session[r].tracking_started_at = NULL
              THEN now[r] ELSE session[r].tracking_started_at
      /\ started \in Session
  BY StartTrackingProperties DEF Inv, TypeOK, SameRequests, StartTracking, Session
<1> HIDE DEF started
<1>2. /\ SameRequests(tracked, session[r])
      /\ tracked.noise_seed = session[r].noise_seed
      /\ tracked.tracking_started_at
            \in IF session[r].tracking_started_at = NULL
                THEN {NULL, now[r]} ELSE {session[r].tracking_started_at}
      /\ tracked \in Session
  BY <1>1 DEF SameRequests
<1> HIDE DEF tracked, tier
<1>3. /\ SameRequests([tracked EXCEPT !.tier = tier], tracked)
      /\ [tracked EXCEPT !.tier = tier].noise_seed = tracked.noise_seed
      /\ [tracked EXCEPT !.tier = tier].tracking_started_at
            = tracked.tracking_started_at
  BY <1>2 DEF SameRequests, Session
<1>4. ScoredAs(r, hybrid, intent) = [tracked EXCEPT !.tier = tier]
  BY DEF ScoredAs, tier, tracked, started
<1> QED
  BY <1>2, <1>3, <1>4 DEF SameRequests

LEMMA SeededKeeps ==
    ASSUME NEW rec \in Session, NEW t \in Nat
    PROVE  SameRequests(WithSeed(rec, t), rec)
  BY DEF SameRequests, WithSeed, Session

\* A record with the same requests, tracked since no later than now, has the
\* shape too.
LEMMA SameRequestsShape ==
    ASSUME NEW a, NEW b, SameRequests(a, b), Shaped(b), Known(b),
           a.tracking_started_at # NULL => a.tracking_started_at <= clock
    PROVE  Shaped(a) /\ Known(a)
  BY DEF SameRequests, Shaped, Known

LEMMA ScoreShape ==
    ASSUME Inv, ShapeInv, NEW r \in Request, Score(r) PROVE ShapeInv'
<1>1. pc[r] = "score" /\ session[r] \in Session /\ now[r] <= clock
  BY DEF Score, Inv, HandlerShape, ShapeInv
<1>2. PICK hybrid \in HybridScores, intent \in BOOLEAN :
        session' = [session EXCEPT ![r] = ScoredAs(r, hybrid, intent)]
  BY DEF Score
<1> DEFINE scored == ScoredAs(r, hybrid, intent)
<1>3. /\ SameRequests(scored, session[r])
      /\ scored.tracking_started_at
            \in IF session[r].tracking_started_at = NULL
                THEN {NULL, now[r]} ELSE {session[r].tracking_started_at}
  BY <1>1, ScoredKeeps
<1>4. Shaped(session[r]) /\ Known(session[r])
  BY <1>1, NoneAssumption DEF ShapeInv, Records, NoneAssumption
<1> HIDE DEF scored
<1>5. Shaped(scored) /\ Known(scored)
  <2>1. scored.tracking_started_at # NULL => scored.tracking_started_at <= clock
    BY <1>1, <1>3, <1>4 DEF Shaped
  <2> QED
    BY <1>3, <1>4, <2>1, SameRequestsShape
<1>6. /\ clock' = clock /\ now' = now /\ store' = store
      /\ pc' = [pc EXCEPT ![r] = "llm"]
  BY DEF Score, redisVars
<1>7. \A q \in Request : pc'[q] \in Early => pc[q] \in Early
  BY <1>1, <1>6 DEF Inv, TypeOK, Early
<1>8. PICK rec : rec = scored
  OBVIOUS
<1>9. Shaped(rec)' /\ Known(rec)'
  BY <1>5, <1>6, <1>7, <1>8 DEF Shaped, Known
<1> QED
  BY <1>2, <1>6, <1>7, <1>8, <1>9, OneNewRecord DEF scored

LEMMA CompleteShape ==
    ASSUME Inv, ShapeInv, NEW r \in Request, Complete(r) PROVE ShapeInv'
<1>1. pc[r] = "llm" /\ session[r] \in Session /\ now[r] \in Nat
  BY DEF Complete, Inv, HandlerShape, TypeOK
<1> DEFINE new == IF session[r].tier = 1 THEN session[r]
                  ELSE WithSeed(session[r], now[r])
<1>2. /\ SameRequests(new, session[r])
      /\ new.tracking_started_at = session[r].tracking_started_at
  BY <1>1, SeededKeeps, WithSeedProperties DEF SameRequests
<1>3. Shaped(session[r]) /\ Known(session[r])
  BY <1>1, NoneAssumption DEF ShapeInv, Records, NoneAssumption
<1>4. session' = [session EXCEPT ![r] = new]
  BY DEF Complete, Inv, TypeOK
<1> HIDE DEF new
<1>5. Shaped(new) /\ Known(new)
  BY <1>2, <1>3, SameRequestsShape DEF Shaped
<1>6. /\ clock' = clock /\ now' = now /\ store' = store
      /\ pc' = [pc EXCEPT ![r] = "persist"]
  BY DEF Complete, redisVars
<1>7. \A q \in Request : pc'[q] \in Early => pc[q] \in Early
  BY <1>1, <1>6 DEF Inv, TypeOK, Early
<1>8. PICK rec : rec = new
  OBVIOUS
<1>9. Shaped(rec)' /\ Known(rec)'
  BY <1>5, <1>6, <1>7, <1>8 DEF Shaped, Known
<1> QED
  BY <1>4, <1>6, <1>7, <1>8, <1>9, OneNewRecord

\* Every other step makes no record: it moves a handler, drops a record, or
\* stores one that a handler has.
LEMMA OtherShape ==
    ASSUME Inv, ShapeInv,
           \/ \E r \in Request :
                \/ Start(r) \/ AcquireRead(r) \/ PoolTimeout(r) \/ Abort(r)
                \/ Persist(r) \/ LandWrite(r) \/ LoseWrite(r)
                \/ FinishLog(r) \/ FinishRekor(r)
           \/ \E s \in SessionId : DeleteStart(s)
           \/ DeleteRun \/ DeleteFails \/ Crash \/ Tick \/ UNCHANGED vars
    PROVE  ShapeInv'
<1> USE DEF redisVars, handlerVars, taskVars, adminVars
<1>1. clock' \in Nat /\ clock <= clock' /\ session' = session
  BY DEF Inv, TypeOK, Start, AcquireRead, PoolTimeout, Abort, EndHandler,
         Persist, LandWrite, LoseWrite, FinishLog, FinishRekor, DeleteStart,
         DeleteRun, DeleteFails, Crash, Tick, vars
<1>2. ASSUME NEW q \in Request
      PROVE  /\ pc'[q] \in Early => pc[q] \in Early
             /\ now'[q] = now[q] \/ now'[q] = clock
  <2>1. ASSUME NEW r \in Request, PoolTimeout(r) \/ Abort(r)
        PROVE  pc'[q] \in Early => pc[q] \in Early
    BY <2>1 DEF Inv, TypeOK, PoolTimeout, Abort, EndHandler, Early
  <2>2. ASSUME NEW r \in Request,
               Start(r) \/ AcquireRead(r) \/ Persist(r)
        PROVE  pc'[q] \in Early => pc[q] \in Early
    BY <2>2 DEF Inv, TypeOK, Start, AcquireRead, Persist, Early
  <2>3. CASE Crash
    BY <2>3 DEF Crash, Early
  <2>4. CASE \/ \E r \in Request : LandWrite(r) \/ LoseWrite(r)
                                    \/ FinishLog(r) \/ FinishRekor(r)
             \/ \E s \in SessionId : DeleteStart(s)
             \/ DeleteRun \/ DeleteFails \/ Tick \/ UNCHANGED vars
    BY <2>4 DEF LandWrite, LoseWrite, FinishLog, FinishRekor, DeleteStart,
                DeleteRun, DeleteFails, Tick, vars
  <2>5. now'[q] = now[q] \/ now'[q] = clock
    BY DEF Inv, TypeOK, Start, AcquireRead, PoolTimeout, Abort, EndHandler,
           Persist, LandWrite, LoseWrite, FinishLog, FinishRekor, DeleteStart,
           DeleteRun, DeleteFails, Crash, Tick, vars
  <2> QED
    BY <2>1, <2>2, <2>3, <2>4, <2>5
<1>3. ASSUME NEW s \in SessionId
      PROVE  store'[s] = store[s] \/ store'[s] = NULL \/ store'[s] \in Records
  <2>1. ASSUME NEW r \in Request, LandWrite(r)
        PROVE  store'[s] = store[s] \/ store'[s] = NULL \/ store'[s] \in Records
    <3>1. store'[s] = store[s] \/ store'[s] = session[r]
      BY <2>1 DEF LandWrite, Inv, TypeOK
    <3>2. session[r] = NULL \/ session[r] \in Records
      BY DEF Records
    <3> QED
      BY <3>1, <3>2
  <2>2. CASE DeleteRun \/ DeleteFails
    BY <2>2 DEF DeleteRun, DeleteFails, Inv, TypeOK
  <2> QED
    BY <2>1, <2>2
       DEF Start, AcquireRead, PoolTimeout, Abort, EndHandler, Persist,
           LoseWrite, FinishLog, FinishRekor, DeleteStart, Crash, Tick, vars
<1> QED
  BY <1>1, <1>2, <1>3, NoNewRecord

LEMMA InitShape == Init => ShapeInv
  BY DEF Init, ShapeInv, Records

LEMMA StepShape == Inv /\ ShapeInv /\ [Next]_vars => ShapeInv'
  BY LoadShape, ScoreShape, CompleteShape, OtherShape DEF Next

\* Overlapping handlers, late writes, deletes, crashes and expiries leave every
\* record in shape: trimmed to its limits, in step with its counter, with no
\* request twice and nothing in the future.
THEOREM RecordsKeepShape == Spec => []RecordShape
<1>1. Init => ShapeInv
  BY InitShape
<1>2. Inv /\ ShapeInv /\ [Next]_vars => ShapeInv'
  BY StepShape
<1>3. ShapeInv => RecordShape
  BY DEF ShapeInv, RecordShape
<1> QED
  BY <1>1, <1>2, <1>3, InvInvariant, PTL DEF Spec

-----------------------------------------------------------------------------
(* The refinement of SessionRegister.  Besides the types it needs that a    *)
(* handler's session is what its request makes of the record it read, from  *)
(* the GET until its write is over.                                         *)

Grows(r) ==
    pc[r] \in {"score", "llm", "persist", "done"} =>
      /\ SameRequests(session[r], Touch(loaded[r], r, now[r]))
      /\ session[r].tracking_started_at
            \in IF loaded[r].tracking_started_at = NULL
                THEN {NULL, now[r]} ELSE {loaded[r].tracking_started_at}
      /\ loaded[r].noise_seed # NULL
            => session[r].noise_seed = loaded[r].noise_seed
      /\ pc[r] \in {"persist", "done"} /\ session[r].tier > 1
            => session[r].noise_seed # NULL
AllGrow == \A r \in Request : Grows(r)

\* A handler that did not move.
SameHandler(q) ==
    /\ pc'[q] = pc[q] \/ pc'[q] \notin {"score", "llm", "persist", "done"}
    /\ now'[q] = now[q]
    /\ loaded'[q] = loaded[q] /\ session'[q] = session[q]

LEMMA SameHandlerGrows ==
    ASSUME NEW q \in Request, Grows(q), SameHandler(q) PROVE Grows(q)'
  BY DEF Grows, SameHandler

LEMMA LoadGrows ==
    ASSUME Inv, NEW r \in Request, Grows(r), Load(r) PROVE Grows(r)'
<1> DEFINE s   == SessionOf[r]
           rec == IF Stored(s) = NULL THEN NewSession(clock) ELSE Stored(s)
<1>1. rec \in Session /\ now[r] \in Nat
  BY LoadedIsRecord, PipelineAssumption DEF PipelineAssumption, Inv, TypeOK
<1>2. CASE rec.is_banned
  <2>1. SameHandler(r)
    BY <1>2 DEF Load, EndHandler, SameHandler, Inv, TypeOK
  <2> QED
    BY <2>1, SameHandlerGrows
<1>3. CASE ~ rec.is_banned
  <2>1. /\ loaded'[r] = rec /\ session'[r] = Touch(rec, r, now[r])
        /\ pc'[r] = "score" /\ now'[r] = now[r]
    BY <1>3 DEF Load, Inv, TypeOK
  <2> HIDE DEF rec
  <2>2. /\ Touch(rec, r, now[r]).tracking_started_at = rec.tracking_started_at
        /\ Touch(rec, r, now[r]).noise_seed = rec.noise_seed
    BY <1>1, TouchProperties
  <2>3. rec.tracking_started_at
          \in IF rec.tracking_started_at = NULL
              THEN {NULL, now[r]} ELSE {rec.tracking_started_at}
    OBVIOUS
  <2>4. SameRequests(session'[r], Touch(loaded'[r], r, now'[r]))
    BY <2>1 DEF SameRequests
  <2> QED
    BY <2>1, <2>2, <2>3, <2>4 DEF Grows
<1> QED
  BY <1>2, <1>3

LEMMA ScoreGrows ==
    ASSUME Inv, NEW r \in Request, Grows(r), Score(r) PROVE Grows(r)'
<1>1. pc[r] = "score" /\ session[r] \in Session
  BY DEF Score, Inv, HandlerShape
<1>2. PICK hybrid \in HybridScores, intent \in BOOLEAN :
        session' = [session EXCEPT ![r] = ScoredAs(r, hybrid, intent)]
  BY DEF Score
<1>3. PICK scored : scored = ScoredAs(r, hybrid, intent)
  OBVIOUS
<1>4. /\ SameRequests(scored, session[r])
      /\ scored.tracking_started_at
            \in IF session[r].tracking_started_at = NULL
                THEN {NULL, now[r]} ELSE {session[r].tracking_started_at}
      /\ scored.noise_seed = session[r].noise_seed
  BY <1>1, <1>3, ScoredKeeps
<1>5. /\ session'[r] = scored /\ pc'[r] = "llm"
      /\ now'[r] = now[r] /\ loaded'[r] = loaded[r]
  BY <1>2, <1>3 DEF Score, Inv, TypeOK
<1>6. SameRequests(scored, Touch(loaded[r], r, now[r]))
  BY <1>1, <1>4 DEF Grows, SameRequests
<1> QED
  BY <1>1, <1>4, <1>5, <1>6 DEF Grows

LEMMA CompleteGrows ==
    ASSUME Inv, NEW r \in Request, Grows(r), Complete(r) PROVE Grows(r)'
<1>1. pc[r] = "llm" /\ session[r] \in Session /\ now[r] \in Nat
  BY DEF Complete, Inv, HandlerShape, TypeOK
<1>2. PICK seeded : seeded = WithSeed(session[r], now[r])
  OBVIOUS
<1>3. /\ SameRequests(seeded, session[r])
      /\ seeded.tracking_started_at = session[r].tracking_started_at
      /\ seeded.noise_seed # NULL
      /\ session[r].noise_seed # NULL
            => seeded.noise_seed = session[r].noise_seed
  BY <1>1, <1>2, SeededKeeps, WithSeedProperties, RecordAssumption
     DEF RecordAssumption
<1>4. /\ pc'[r] = "persist" /\ now'[r] = now[r] /\ loaded'[r] = loaded[r]
      /\ session[r].tier = 1 => session'[r] = session[r]
      /\ session[r].tier # 1 => session'[r] = seeded
  BY <1>2 DEF Complete, Inv, TypeOK
<1>5. SameRequests(seeded, Touch(loaded[r], r, now[r]))
  BY <1>1, <1>3 DEF Grows, SameRequests
<1> QED
  BY <1>1, <1>3, <1>4, <1>5 DEF Grows

LEMMA PersistGrows ==
    ASSUME Inv, NEW r \in Request, Grows(r), Persist(r) PROVE Grows(r)'
<1>1. /\ pc[r] = "persist" /\ pc'[r] = "done" /\ now'[r] = now[r]
      /\ loaded'[r] = loaded[r] /\ session'[r] = session[r]
  BY DEF Persist, Inv, TypeOK
<1> QED
  BY <1>1 DEF Grows

LEMMA AllGrowStep == Inv /\ AllGrow /\ [Next]_vars => AllGrow'
<1> SUFFICES ASSUME Inv, AllGrow, [Next]_vars, NEW q \in Request
             PROVE  Grows(q)'
  BY DEF AllGrow
<1>1. Grows(q)
  BY DEF AllGrow
<1>2. CASE Load(q) \/ Score(q) \/ Complete(q) \/ Persist(q)
  BY <1>1, <1>2, LoadGrows, ScoreGrows, CompleteGrows, PersistGrows
<1>3. ASSUME NEW r \in Request, OwnStep(r), r # q PROVE Grows(q)'
  <2>1. SameHandler(q)
    BY <1>3, OthersUnchanged DEF SameView, SameHandler
  <2> QED
    BY <1>1, <2>1, SameHandlerGrows
<1>4. CASE Start(q)
  BY <1>1, <1>4 DEF Start, Grows, Inv, TypeOK
<1>5. CASE \/ AcquireRead(q) \/ PoolTimeout(q) \/ Abort(q) \/ LandWrite(q)
           \/ LoseWrite(q) \/ FinishLog(q) \/ FinishRekor(q)
  <2>1. SameHandler(q)
    BY <1>5
       DEF AcquireRead, PoolTimeout, Abort, EndHandler, LandWrite, LoseWrite,
           FinishLog, FinishRekor, handlerVars, SameHandler, Inv, TypeOK
  <2> QED
    BY <1>1, <2>1, SameHandlerGrows
<1>6. CASE (\E s \in SessionId : DeleteStart(s)) \/ DeleteRun \/ DeleteFails \/ Crash \/ Tick
           \/ UNCHANGED vars
  <2>1. SameHandler(q)
    BY <1>6 DEF DeleteStart, DeleteRun, DeleteFails, Crash, Tick, vars, handlerVars,
                SameHandler
  <2> QED
    BY <1>1, <2>1, SameHandlerGrows
<1> QED
  BY <1>2, <1>3, <1>4, <1>5, <1>6 DEF Next, OwnStep

LEMMA AllGrowInit == Init => AllGrow
  BY DEF Init, AllGrow, Grows

-----------------------------------------------------------------------------
(* Each step is one of the register's, or none.                             *)

\* A step that leaves the register and what its writers hold.
LEMMA Unseen ==
    ASSUME \A s \in SessionId : Stored(s)' = Stored(s),
           \A r \in Request : Basis(r)' = Basis(r)
    PROVE  UNCHANGED Register!vars
  BY DEF Register!vars

LEMMA GivenUp ==
    ASSUME \A s \in SessionId : Stored(s)' = Stored(s),
           \A r \in Request : Basis(r)' = Basis(r) \/ Basis(r)' = NULL
    PROVE  \E writers \in SUBSET Request : Register!Abandon(writers)
<1> DEFINE writers == {r \in Request : Basis(r)' = NULL}
<1>1. Register!Abandon(writers)
  BY DEF Register!Abandon
<1> QED
  BY <1>1

LEMMA Erased ==
    ASSUME \A s \in SessionId : Stored(s)' = Stored(s) \/ Stored(s)' = NULL,
           \A r \in Request : Basis(r)' = Basis(r)
    PROVE  \E sessions \in SUBSET SessionId : Register!Erase(sessions)
<1> DEFINE sessions == {s \in SessionId : Stored(s)' = NULL}
<1>1. Register!Erase(sessions)
  BY DEF Register!Erase
<1> QED
  BY <1>1

\* The GET is a Read, unless the record is banned ...
LEMMA LoadReads ==
    ASSUME Inv, NEW r \in Request, Load(r)
    PROVE  Register!Next \/ UNCHANGED Register!vars
<1> DEFINE s   == SessionOf[r]
           rec == IF Stored(s) = NULL THEN NewSession(clock) ELSE Stored(s)
<1>1. s \in SessionId /\ rec \in Session /\ pc[r] = "load" /\ write[r] = "none"
  BY LoadedIsRecord, PipelineAssumption
     DEF PipelineAssumption, Load, Inv, TypeOK, HandlerShape
<1>2. \A x \in SessionId : Stored(x)' = Stored(x)
  BY DEF Load, EndHandler, redisVars, Stored
<1>3. Basis(r) = NULL
  BY <1>1 DEF Basis
<1>4. CASE rec.is_banned
  <2>1. \A q \in Request : Basis(q)' = Basis(q)
    BY <1>1, <1>4
       DEF Load, EndHandler, taskVars, Basis, Inv, TypeOK
  <2> QED
    BY <1>2, <2>1, Unseen
<1>5. CASE ~ rec.is_banned
  <2>1. \A q \in Request : Basis(q)' = IF q = r THEN rec ELSE Basis(q)
    BY <1>1, <1>5 DEF Load, taskVars, Basis, Inv, TypeOK
  <2>2. rec # NULL
    BY <1>1, NoneAssumption DEF NoneAssumption
  <2>3. Stored(s) = NULL => rec = Register!NewSession(rec.first_seen_at)
    BY DEF NewSession, Register!NewSession
  <2>4. Stored(s) # NULL => rec = Stored(s)
    OBVIOUS
  <2> HIDE DEF rec
  <2>5. Register!Read(r)
    BY <1>1, <1>2, <1>3, <2>1, <2>2, <2>3, <2>4
       DEF Register!Read, Register!IsFresh
  <2> QED
    BY <2>5 DEF Register!Next
<1> QED
  BY <1>4, <1>5

\* ... and the SET is a Publish of what the request made of it.
LEMMA LandWritePublishes ==
    ASSUME Inv, AllGrow, NEW r \in Request, LandWrite(r)
    PROVE  Register!Next
<1> DEFINE s == SessionOf[r]
<1>1. /\ s \in SessionId /\ pc[r] = "done" /\ write[r] = "pending"
      /\ loaded[r] \in Session /\ session[r] \in Session
      /\ clock \in Nat /\ Ttl \in Nat \ {0} /\ now[r] \in Nat
  BY PipelineAssumption
     DEF PipelineAssumption, LandWrite, Inv, TypeOK, HandlerShape
<1>2. \A q \in Request : Basis(q)' = IF q = r THEN NULL ELSE Basis(q)
  BY <1>1 DEF LandWrite, handlerVars, Basis, Inv, TypeOK
<1>3. Basis(r) = loaded[r] /\ loaded[r] # NULL /\ session[r] # NULL
  BY <1>1, NoneAssumption DEF Basis, NoneAssumption
<1>4. \A x \in SessionId : Stored(x)' = IF x = s THEN session[r] ELSE Stored(x)
  BY <1>1, <1>3 DEF LandWrite, Stored, Inv, TypeOK
<1>5. Register!Extends(loaded[r], session[r], r)
  <2> DEFINE new == Touch(loaded[r], r, now[r])
  <2>1. /\ SameRequests(session[r], new)
        /\ session[r].tracking_started_at
              \in IF loaded[r].tracking_started_at = NULL
                  THEN {NULL, now[r]} ELSE {loaded[r].tracking_started_at}
        /\ loaded[r].noise_seed # NULL
              => session[r].noise_seed = loaded[r].noise_seed
        /\ session[r].tier > 1 => session[r].noise_seed # NULL
    BY <1>1 DEF AllGrow, Grows
  <2>2. /\ new.request_count = loaded[r].request_count + 1
        /\ new.first_seen_at = loaded[r].first_seen_at
        /\ new.is_banned = loaded[r].is_banned
        /\ new.last_active_at = now[r]
        /\ new.timestamps
              = Trim(Append(loaded[r].timestamps, now[r]), MaxTimestamps)
        /\ new.prompt_history
              = Trim(Append(loaded[r].prompt_history, r), MaxHistory)
    BY <1>1, TouchProperties
  <2>3. \A seq, max : Register!Trim(seq, max) = Trim(seq, max)
    BY DEF Trim, Register!Trim
  <2> HIDE DEF new
  <2> QED
    BY <2>1, <2>2, <2>3 DEF Register!Extends, SameRequests
<1>6. Register!Publish(r)
  BY <1>1, <1>2, <1>3, <1>4, <1>5 DEF Register!Publish
<1> QED
  BY <1>6 DEF Register!Next

LEMMA StepRegister ==
    Inv /\ AllGrow /\ [Next]_vars => [Register!Next]_Register!vars
<1> SUFFICES ASSUME Inv, AllGrow, [Next]_vars
             PROVE  Register!Next \/ UNCHANGED Register!vars
  OBVIOUS
<1>1. CASE \E r \in Request : Load(r)
  BY <1>1, LoadReads
<1>2. CASE \E r \in Request : LandWrite(r)
  BY <1>2, LandWritePublishes
<1>3. ASSUME NEW r \in Request,
             Start(r) \/ AcquireRead(r) \/ Score(r) \/ Complete(r) \/ Persist(r)
               \/ FinishLog(r) \/ FinishRekor(r)
      PROVE  UNCHANGED Register!vars
  <2>1. \A s \in SessionId : Stored(s)' = Stored(s)
    BY <1>3 DEF Start, AcquireRead, Score, Complete, Persist, FinishLog,
                FinishRekor, redisVars, Stored
  <2>2. \A q \in Request : Basis(q)' = Basis(q)
    BY <1>3 DEF Start, AcquireRead, Score, Complete, Persist, FinishLog,
                FinishRekor, taskVars, handlerVars, Basis, Inv, TypeOK,
                HandlerShape
  <2> QED
    BY <2>1, <2>2, Unseen
<1>4. ASSUME NEW r \in Request, PoolTimeout(r) \/ Abort(r) \/ LoseWrite(r)
      PROVE  Register!Next
  <2>1. \A s \in SessionId : Stored(s)' = Stored(s)
    BY <1>4 DEF PoolTimeout, Abort, EndHandler, LoseWrite, redisVars, Stored
  <2>2. \A q \in Request : Basis(q)' = Basis(q) \/ Basis(q)' = NULL
    BY <1>4 DEF PoolTimeout, Abort, EndHandler, LoseWrite, taskVars,
                handlerVars, Basis, Inv, TypeOK
  <2> QED
    BY <2>1, <2>2, GivenUp DEF Register!Next
<1>5. CASE Crash
  <2>1. \A s \in SessionId : Stored(s)' = Stored(s)
    BY <1>5 DEF Crash, redisVars, Stored
  <2>2. \A q \in Request : Basis(q)' = Basis(q) \/ Basis(q)' = NULL
    BY <1>5 DEF Crash, Killed, Basis, Active, Holding
  <2> QED
    BY <2>1, <2>2, GivenUp DEF Register!Next
<1>6. CASE DeleteRun \/ DeleteFails \/ Tick
  <2>1. \A s \in SessionId : Stored(s)' = Stored(s) \/ Stored(s)' = NULL
    BY <1>6 DEF DeleteRun, DeleteFails, Tick, redisVars, Stored, Inv, TypeOK
  <2>2. \A q \in Request : Basis(q)' = Basis(q)
    BY <1>6 DEF DeleteRun, DeleteFails, Tick, taskVars, handlerVars, Basis
  <2> QED
    BY <2>1, <2>2, Erased DEF Register!Next
<1>7. CASE (\E s \in SessionId : DeleteStart(s)) \/ UNCHANGED vars
  <2>1. /\ \A s \in SessionId : Stored(s)' = Stored(s)
        /\ \A q \in Request : Basis(q)' = Basis(q)
    BY <1>7 DEF DeleteStart, vars, redisVars, taskVars, handlerVars, Stored,
                Basis
  <2> QED
    BY <2>1, Unseen
<1> QED
  BY <1>1, <1>2, <1>3, <1>4, <1>5, <1>6, <1>7 DEF Next

LEMMA InitRegister == Init => Register!Init
  BY DEF Init, Register!Init, Stored, Basis

\* The pipeline, with its pool, awaits, spawned tasks, deletes, crashes and
\* expiries, is a last-writer-wins register of one-request extensions.
THEOREM RefinementOfRegister == Spec => RefinesRegister
<1>1. Init => AllGrow
  BY AllGrowInit
<1>2. Inv /\ AllGrow /\ [Next]_vars => AllGrow'
  BY AllGrowStep
<1> QED
  BY <1>1, <1>2, InitRegister, StepRegister, InvInvariant, PTL
     DEF Spec, RefinesRegister, Register!Spec
-----------------------------------------------------------------------------
(* What a client that waits for each write is promised.  In a session that  *)
(* nothing disturbed, at most one request is open, what it read is what is  *)
(* stored, and it arrived after whoever wrote that.                         *)

Of(s) == {r \in Request : SessionOf[r] = s}
StoredOf(s) == {r \in Request : SessionOf[r] = s /\ write[r] = "stored"}
\* A request that has read its record and may still store one.
Late(r) == pc[r] \in {"score", "llm", "persist"} \/ write[r] = "pending"

OneOpen(s) == \A q, r \in Of(s) : Open(q) /\ Open(r) => q = r
NoneLost(s) ==
    \A r \in Of(s) : pc[r] = "done" => write[r] \in {"pending", "stored"}
ReadsStored(s) ==
    \A r \in Of(s) : Late(r) =>
      IF store[s] = NULL
      THEN /\ loaded[r].request_count = 0 /\ loaded[r].timestamps = <<>>
           /\ loaded[r].noise_seed = NULL
      ELSE loaded[r] = store[s]
Counts(s) == CountOf(s) = Cardinality(StoredOf(s))
InOrder(times, last) ==
    /\ \A i, j \in DOMAIN times : i < j => times[i] <= times[j]
    /\ \A i \in DOMAIN times : times[i] <= last
TimesInOrder(s) ==
    store[s] # NULL =>
      /\ InOrder(store[s].timestamps, store[s].last_active_at)
      /\ store[s].last_active_at <= clock
      /\ \A r \in Of(s) : Open(r) => store[s].last_active_at <= now[r]
OneSeed(s) ==
    \A r \in Of(s) : write[r] = "stored" /\ session[r].tier > 1 =>
      /\ store[s] # NULL /\ store[s].noise_seed # NULL
      /\ session[r].noise_seed = store[s].noise_seed

Serial(s) == /\ OneOpen(s) /\ NoneLost(s) /\ ReadsStored(s)
             /\ Counts(s) /\ TimesInOrder(s) /\ OneSeed(s)
SerialInv == /\ \A r \in Request : now[r] <= clock
             /\ \A s \in SessionId \ disturbed : Serial(s)

LEMMA InitSerial == Init => SerialInv
<1> SUFFICES ASSUME Init, NEW s \in SessionId PROVE Serial(s)
  BY DEF Init, SerialInv
<1>1. StoredOf(s) = {} /\ CountOf(s) = 0
  BY DEF Init, StoredOf, CountOf
<1>2. Counts(s)
  BY <1>1, FS_EmptySet DEF Counts
<1>3. OneOpen(s) /\ NoneLost(s) /\ ReadsStored(s) /\ TimesInOrder(s) /\ OneSeed(s)
  BY DEF Init, OneOpen, NoneLost, ReadsStored, TimesInOrder, OneSeed, Of, Open,
         Late, Active, Holding
<1> QED
  BY <1>2, <1>3 DEF Serial

\* A later time keeps a trimmed history in order.
LEMMA TrimmedOrder ==
    ASSUME NEW seq \in Seq(Nat), NEW last \in Nat, NEW t \in Nat,
           NEW max \in Nat, InOrder(seq, last), last <= t
    PROVE  InOrder(Trim(Append(seq, t), max), t)
<1> DEFINE longer == Append(seq, t)
           new == Trim(longer, max)
<1>1. /\ Len(seq) \in Nat /\ DOMAIN seq = 1..Len(seq)
      /\ longer \in Seq(Nat) /\ DOMAIN longer = 1..(Len(seq) + 1)
      /\ longer[Len(seq) + 1] = t
      /\ \A i \in 1..Len(seq) : longer[i] = seq[i] /\ seq[i] \in Nat
  BY AppendProperties, LenProperties, ElementOfSeq
<1>2. new \in Seq(Nat)
  BY <1>1, TrimProperties
<1>3. PICK k \in Nat : \A i \in DOMAIN new :
                          i + k \in DOMAIN longer /\ new[i] = longer[i + k]
  BY <1>1, TrimEntries
<1>4. DOMAIN new \subseteq Nat
  BY <1>2, LenProperties
<1> HIDE DEF longer, new
<1>5. \A i \in DOMAIN longer : longer[i] <= t
  BY <1>1 DEF InOrder
<1>6. \A i, j \in DOMAIN longer : i < j => longer[i] <= longer[j]
  <2> SUFFICES ASSUME NEW i \in 1..(Len(seq) + 1), NEW j \in 1..(Len(seq) + 1), i < j
               PROVE  longer[i] <= longer[j]
    BY <1>1
  <2>1. CASE j = Len(seq) + 1
    BY <1>1, <1>5, <2>1
  <2>2. CASE j # Len(seq) + 1
    <3> DEFINE n == Len(seq)
    <3>0. n \in Nat /\ i \in 1..(n + 1) /\ j \in 1..(n + 1) /\ j # n + 1
      BY <1>1, <2>2
    <3> HIDE DEF n
    <3>1. i \in 1..n /\ j \in 1..n
      BY <3>0
    <3> USE DEF n
    <3> QED
      BY <1>1, <3>1 DEF InOrder
  <2> QED
    BY <2>1, <2>2
<1>7. ASSUME NEW i \in DOMAIN new, NEW j \in DOMAIN new, i < j
      PROVE  new[i] <= new[j]
  <2>1. i \in Nat /\ j \in Nat /\ i + k < j + k
    BY <1>3, <1>4, <1>7
  <2> QED
    BY <1>3, <1>6, <2>1
<1>8. \A i \in DOMAIN new : new[i] <= t
  BY <1>3, <1>5
<1> QED
  BY <1>7, <1>8 DEF InOrder, new, longer

\* A step that stores nothing in s, opens no request of s and reads for none.
Quiet(s) ==
    /\ store'[s] = store[s] /\ clock <= clock' /\ clock' \in Nat
    /\ \A r \in Of(s) :
         /\ Open(r)' => Open(r)
         /\ Late(r)' => Late(r)
         /\ now'[r] = now[r] /\ loaded'[r] = loaded[r]
         /\ write'[r] = "stored" <=> write[r] = "stored"
         /\ write[r] = "stored" => session'[r] = session[r]
         /\ pc'[r] = "done" => \/ pc[r] = "done" /\ write'[r] = write[r]
                               \/ write'[r] = "pending"

LEMMA QuietSerial ==
    ASSUME Inv, NEW s \in SessionId, Serial(s), Quiet(s) PROVE Serial(s)'
<1>1. Of(s)' = Of(s) /\ StoredOf(s)' = StoredOf(s)
  BY DEF Quiet, Of, StoredOf
<1>2. OneOpen(s)'
  BY <1>1 DEF Serial, OneOpen, Quiet
<1>3. NoneLost(s)'
  BY <1>1 DEF Serial, NoneLost, Quiet
<1>4. ReadsStored(s)'
  BY <1>1 DEF Serial, ReadsStored, Quiet
<1>5. Counts(s)'
  BY <1>1 DEF Serial, Counts, CountOf, Quiet
<1>6. TimesInOrder(s)'
  <2>1. store[s] # NULL => store[s].last_active_at \in Nat
    BY DEF Inv, TypeOK, Optional, Session
  <2>2. clock \in Nat
    BY DEF Inv, TypeOK
  <2> QED
    BY <1>1, <2>1, <2>2 DEF Serial, TimesInOrder, Quiet
<1>7. OneSeed(s)'
  BY <1>1 DEF Serial, OneSeed, Quiet
<1> QED
  BY <1>2, <1>3, <1>4, <1>5, <1>6, <1>7 DEF Serial

\* A step of a request of another session.
LEMMA ElsewhereQuiet ==
    ASSUME Inv, SerialInv, NEW s \in SessionId, NEW r \in Request,
           OwnStep(r), SessionOf[r] # s
    PROVE  Quiet(s)
<1>1. ASSUME NEW q \in Of(s)
      PROVE  /\ SameView(q) /\ write'[q] = write[q]
  <2>1. q \in Request /\ q # r
    BY DEF Of
  <2>2. write'[q] = write[q]
    BY <2>1 DEF OwnStep, Start, AcquireRead, PoolTimeout, Abort, EndHandler,
                Load, Score, Complete, Persist, LandWrite, LoseWrite,
                FinishLog, FinishRekor, taskVars, Inv, TypeOK
  <2> QED
    BY <2>1, <2>2, OthersUnchanged
<1>2. store'[s] = store[s]
  BY DEF OwnStep, Start, AcquireRead, PoolTimeout, Abort, EndHandler,
         Load, Score, Complete, Persist, LandWrite, LoseWrite,
         FinishLog, FinishRekor, redisVars, Inv, TypeOK
<1>3. clock' = clock /\ clock \in Nat
  BY DEF OwnStep, Start, AcquireRead, PoolTimeout, Abort, EndHandler,
         Load, Score, Complete, Persist, LandWrite, LoseWrite,
         FinishLog, FinishRekor, Inv, TypeOK
<1> QED
  BY <1>1, <1>2, <1>3 DEF Quiet, SameView, Open, Late

\* Steps of one of its own requests that neither open it, read nor store.
LEMMA OwnQuiet ==
    ASSUME Inv, NEW s \in SessionId, s \notin disturbed',
           NEW r \in Request, SessionOf[r] = s,
           \/ AcquireRead(r) \/ PoolTimeout(r) \/ Abort(r)
           \/ (EndHandler(r) /\ pc[r] \in Active)
           \/ Score(r) \/ Complete(r) \/ Persist(r)
           \/ LoseWrite(r) \/ FinishLog(r) \/ FinishRekor(r)
    PROVE  Quiet(s)
<1> USE DEF redisVars, handlerVars, taskVars
<1>1. store' = store /\ clock' = clock /\ clock \in Nat /\ now' = now /\ loaded' = loaded
  BY DEF AcquireRead, PoolTimeout, Abort, EndHandler, Score, Complete, Persist,
         LoseWrite, FinishLog, FinishRekor, Inv, TypeOK
<1>2. CASE LoseWrite(r)
  BY <1>2 DEF LoseWrite
<1>3. CASE FinishLog(r) \/ FinishRekor(r)
  BY <1>1, <1>3 DEF FinishLog, FinishRekor, Quiet, Open, Late
<1>4. CASE AcquireRead(r)
  BY <1>1, <1>4 DEF AcquireRead, Quiet, Of, Open, Late, Active, Holding, Inv, TypeOK
<1>5. CASE PoolTimeout(r) \/ Abort(r) \/ (EndHandler(r) /\ pc[r] \in Active)
  BY <1>1, <1>5 DEF PoolTimeout, Abort, EndHandler, Quiet, Of, Open, Late,
                    Active, Holding, Inv, TypeOK
<1>6. CASE Score(r) \/ Complete(r)
  BY <1>1, <1>6 DEF Score, Complete, Quiet, Of, Open, Late, Active, Holding,
                    Inv, TypeOK, HandlerShape
<1>7. CASE Persist(r)
  BY <1>1, <1>7 DEF Persist, Quiet, Of, Open, Late, Active, Holding,
                    Inv, TypeOK, HandlerShape
<1> QED
  BY <1>2, <1>3, <1>4, <1>5, <1>6, <1>7

\* A request that arrives finds no other open.
LEMMA StartSerial ==
    ASSUME Inv, SerialInv, NEW s \in SessionId, Serial(s), s \notin disturbed',
           NEW r \in Request, SessionOf[r] = s, Start(r)
    PROVE  Serial(s)'
<1>1. \A q \in Of(s) : ~ Open(q)
  BY DEF Start, Of
<1>2. /\ store' = store /\ clock' = clock /\ clock \in Nat /\ write' = write
      /\ loaded' = loaded /\ session' = session /\ now'[r] = clock
      /\ pc'[r] = "acquire"
      /\ \A q \in Request : q # r => pc'[q] = pc[q] /\ now'[q] = now[q]
  BY DEF Start, redisVars, taskVars, Inv, TypeOK
<1>3. \A q \in Of(s) : Open(q)' => q = r
  BY <1>1, <1>2 DEF Of, Open
<1>4. \A q \in Of(s) : ~ Late(q)'
  BY <1>1, <1>2 DEF Of, Open, Late, Active, Holding
<1>5. Of(s)' = Of(s) /\ StoredOf(s)' = StoredOf(s)
  BY <1>2 DEF Of, StoredOf
<1>6. OneOpen(s)' /\ ReadsStored(s)'
  BY <1>3, <1>4, <1>5 DEF OneOpen, ReadsStored
<1>7. NoneLost(s)'
  BY <1>2, <1>5 DEF Serial, NoneLost, Of
<1>8. Counts(s)' /\ OneSeed(s)'
  BY <1>2, <1>5 DEF Serial, Counts, CountOf, OneSeed
<1>9. TimesInOrder(s)'
  BY <1>2, <1>3, <1>5 DEF Serial, TimesInOrder
<1> QED
  BY <1>6, <1>7, <1>8, <1>9 DEF Serial

\* It reads what is stored, or a fresh record.
LEMMA LoadSerial ==
    ASSUME Inv, SerialInv, NEW s \in SessionId, Serial(s), s \notin disturbed',
           NEW r \in Request, SessionOf[r] = s, Load(r)
    PROVE  Serial(s)'
<1> DEFINE rec == IF Stored(s) = NULL THEN NewSession(clock) ELSE Stored(s)
<1>0. pc[r] = "load" /\ r \in Of(s) /\ Open(r)
  BY DEF Load, Of, Open, Active, Holding
<1>1. CASE rec.is_banned
  <2>1. EndHandler(r)
    BY <1>1 DEF Load
  <2> QED
    BY <1>0, <2>1, OwnQuiet, QuietSerial DEF Active, Holding
<1>2. CASE ~ rec.is_banned
  <2>1. /\ store' = store /\ clock' = clock /\ write' = write /\ now' = now
        /\ loaded'[r] = rec /\ pc'[r] = "score"
        /\ \A q \in Request : q # r =>
             /\ pc'[q] = pc[q] /\ loaded'[q] = loaded[q]
             /\ session'[q] = session[q]
        /\ store[s] # NULL => Stored(s) # NULL
    BY <1>2 DEF Load, redisVars, taskVars, Inv, TypeOK
  <2>2. write[r] = "none"
    BY <1>0 DEF Inv, TypeOK, HandlerShape
  <2>3. \A q \in Of(s) : Open(q)' => q = r
    BY <1>0, <2>1 DEF Serial, OneOpen, Of, Open
  <2>4. \A q \in Of(s) : Late(q)' => q = r
    BY <2>3 DEF Late, Open, Active, Holding
  <2>5. Of(s)' = Of(s) /\ StoredOf(s)' = StoredOf(s)
    BY <2>1 DEF Of, StoredOf
  <2>6. IF store[s] = NULL
        THEN /\ rec.request_count = 0 /\ rec.timestamps = <<>>
             /\ rec.noise_seed = NULL
        ELSE rec = store[s]
    BY <2>1 DEF Stored, NewSession
  <2> HIDE DEF rec
  <2>7. OneOpen(s)' /\ ReadsStored(s)'
    BY <2>1, <2>3, <2>4, <2>5, <2>6 DEF OneOpen, ReadsStored
  <2>8. NoneLost(s)'
    BY <2>1, <2>5 DEF Serial, NoneLost, Of
  <2>9. Counts(s)'
    BY <2>1, <2>5 DEF Serial, Counts, CountOf
  <2>10. OneSeed(s)'
    BY <2>1, <2>2, <2>5 DEF Serial, OneSeed, Of
  <2>11. TimesInOrder(s)'
    BY <1>0, <2>1, <2>3, <2>5 DEF Serial, TimesInOrder
  <2> QED
    BY <2>7, <2>8, <2>9, <2>10, <2>11 DEF Serial
<1> QED
  BY <1>1, <1>2

\* What lands counts one more than what was there, and is no older.
LEMMA LandSerial ==
    ASSUME Inv, AllGrow, SerialInv, NEW s \in SessionId, Serial(s),
           s \notin disturbed', NEW r \in Request, SessionOf[r] = s, LandWrite(r)
    PROVE  Serial(s)'
<1> DEFINE new == session[r]
           old == loaded[r]
<1>1. /\ pc[r] = "done" /\ write[r] = "pending" /\ r \in Of(s)
      /\ Open(r) /\ Late(r) /\ old \in Session /\ new \in Session
      /\ now[r] \in Nat /\ clock \in Nat /\ now[r] <= clock
  BY DEF LandWrite, Of, Open, Late, Inv, TypeOK, HandlerShape, SerialInv
<1>2. /\ store'[s] = new /\ write'[r] = "stored" /\ clock' = clock
      /\ pc' = pc /\ now' = now /\ loaded' = loaded /\ session' = session
      /\ \A q \in Request : q # r => write'[q] = write[q]
  BY DEF LandWrite, handlerVars, Inv, TypeOK
<1>3. \A q \in Of(s) : ~ Open(q)'
  BY <1>1, <1>2 DEF Serial, OneOpen, Open, Of, Active, Holding
<1>4. \A q \in Of(s) : ~ Late(q)'
  BY <1>3 DEF Late, Open, Active, Holding
<1>5. Of(s)' = Of(s) /\ StoredOf(s)' = StoredOf(s) \cup {r}
  BY <1>1, <1>2 DEF Of, StoredOf
<1>6. new # NULL
  BY <1>1, NoneAssumption DEF NoneAssumption
<1>7. /\ new.request_count = old.request_count + 1
      /\ new.last_active_at = now[r]
      /\ new.timestamps = Trim(Append(old.timestamps, now[r]), MaxTimestamps)
      /\ old.noise_seed # NULL => new.noise_seed = old.noise_seed
      /\ new.tier > 1 => new.noise_seed # NULL
  <2>1. Grows(r)
    BY DEF AllGrow
  <2>2. /\ SameRequests(new, Touch(old, r, now[r]))
        /\ old.noise_seed # NULL => new.noise_seed = old.noise_seed
        /\ new.tier > 1 => new.noise_seed # NULL
    BY <1>1, <2>1 DEF Grows
  <2> HIDE DEF new, old
  <2> QED
    BY <1>1, <2>2, TouchProperties DEF SameRequests
<1>8. /\ store[s] = NULL => /\ old.request_count = 0 /\ old.timestamps = <<>>
                            /\ old.noise_seed = NULL
      /\ store[s] # NULL => old = store[s]
  BY <1>1 DEF Serial, ReadsStored
<1> HIDE DEF new, old
<1>9. OneOpen(s)' /\ ReadsStored(s)'
  BY <1>3, <1>4, <1>5 DEF OneOpen, ReadsStored
<1>10. NoneLost(s)'
  BY <1>2, <1>5 DEF Serial, NoneLost, Of
<1>11. Counts(s)'
  <2>1. IsFiniteSet(StoredOf(s)) /\ Cardinality(StoredOf(s)) \in Nat
    BY PipelineAssumption, FS_Subset, FS_CardinalityType
       DEF PipelineAssumption, StoredOf
  <2>2. r \notin StoredOf(s)
    BY <1>1 DEF StoredOf
  <2>3. Cardinality(StoredOf(s) \cup {r}) = Cardinality(StoredOf(s)) + 1
    BY <2>1, <2>2, CountAdded
  <2>4. old.request_count = CountOf(s)
    BY <1>8 DEF CountOf
  <2>5. CountOf(s)' = new.request_count
    BY <1>2, <1>6 DEF CountOf
  <2> QED
    BY <1>5, <1>7, <2>3, <2>4, <2>5 DEF Serial, Counts
<1>12. TimesInOrder(s)'
  <2>1. old.timestamps \in Seq(Nat) /\ MaxTimestamps \in Nat
    BY <1>1, RecordAssumption DEF Session, RecordAssumption
  <2>2. InOrder(new.timestamps, now[r])
    <3>1. CASE store[s] = NULL
      <4>1. InOrder(old.timestamps, 0)
        BY <1>8, <3>1 DEF InOrder
      <4>2. 0 <= now[r]
        BY <1>1
      <4> QED
        BY <1>1, <1>7, <2>1, <4>1, <4>2, TrimmedOrder
    <3>2. CASE store[s] # NULL
      <4>1. /\ InOrder(old.timestamps, old.last_active_at)
            /\ old.last_active_at <= now[r] /\ old.last_active_at \in Nat
        BY <1>1, <1>8, <3>2 DEF Serial, TimesInOrder, Session
      <4> QED
        BY <1>1, <1>7, <2>1, <4>1, TrimmedOrder
    <3> QED
      BY <3>1, <3>2
  <2> QED
    BY <1>1, <1>2, <1>3, <1>5, <1>7, <2>2 DEF TimesInOrder
<1>13. OneSeed(s)'
  <2> SUFFICES ASSUME NEW q \in Of(s), write'[q] = "stored", session[q].tier > 1
               PROVE  /\ new.noise_seed # NULL
                      /\ session[q].noise_seed = new.noise_seed
    BY <1>2, <1>5, <1>6 DEF OneSeed
  <2>1. CASE q = r
    BY <1>7, <2>1 DEF new
  <2>2. CASE q # r
    <3>1. write[q] = "stored"
      BY <1>2, <2>2 DEF Of
    <3>2. /\ store[s] # NULL /\ store[s].noise_seed # NULL
          /\ session[q].noise_seed = store[s].noise_seed
      BY <3>1 DEF Serial, OneSeed
    <3> QED
      BY <1>7, <1>8, <3>2
  <2> QED
    BY <2>1, <2>2
<1> QED
  BY <1>9, <1>10, <1>11, <1>12, <1>13 DEF Serial

\* The steps of no request in particular.
LEMMA CommonQuiet ==
    ASSUME Inv, NEW s \in SessionId, s \notin disturbed',
           \/ \E x \in SessionId : DeleteStart(x)
           \/ DeleteRun \/ DeleteFails \/ Crash \/ Tick \/ UNCHANGED vars
    PROVE  Quiet(s)
<1> USE DEF redisVars, handlerVars, taskVars
<1>1. CASE (\E x \in SessionId : DeleteStart(x)) \/ Tick \/ UNCHANGED vars
  BY <1>1 DEF DeleteStart, Tick, vars, Quiet, Open, Late, Inv, TypeOK
<1>2. CASE DeleteRun \/ DeleteFails
  BY <1>2 DEF DeleteRun, DeleteFails, Quiet, Open, Late, Inv, TypeOK
<1>3. CASE Crash
  <2>1. \A q \in Of(s) : write[q] # "pending"
    BY <1>3 DEF Crash, Writers, Of
  <2> QED
    BY <1>3, <2>1 DEF Crash, Killed, Quiet, Of, Open, Late, Active, Holding,
                      Inv, TypeOK
<1> QED
  BY <1>1, <1>2, <1>3

LEMMA StepSerial == Inv /\ AllGrow /\ SerialInv /\ [Next]_vars => SerialInv'
<1> SUFFICES ASSUME Inv, AllGrow, SerialInv, [Next]_vars PROVE SerialInv'
  OBVIOUS
<1>1. \A r \in Request : now'[r] <= clock'
  <2>1. clock \in Nat /\ clock' \in Nat /\ clock <= clock'
    BY DEF Next, Start, AcquireRead, PoolTimeout, Abort, EndHandler, Load,
           Score, Complete, Persist, LandWrite, LoseWrite, FinishLog,
           FinishRekor, DeleteStart, DeleteRun, DeleteFails, Crash, Tick, vars, Inv, TypeOK
  <2>2. \A r \in Request : now'[r] = now[r] \/ now'[r] = clock
    BY DEF Next, Start, AcquireRead, PoolTimeout, Abort, EndHandler, Load,
           Score, Complete, Persist, LandWrite, LoseWrite, FinishLog,
           FinishRekor, DeleteStart, DeleteRun, DeleteFails, Crash, Tick, vars,
           handlerVars, Inv, TypeOK
  <2> QED
    BY <2>1, <2>2 DEF SerialInv, Inv, TypeOK
<1>2. ASSUME NEW s \in SessionId, s \notin disturbed' PROVE Serial(s)'
  <2>1. s \notin disturbed
    BY <1>2 DEF Next, Start, AcquireRead, PoolTimeout, Abort, EndHandler, Load,
                Score, Complete, Persist, LandWrite, LoseWrite, FinishLog,
                FinishRekor, DeleteStart, DeleteRun, DeleteFails, Crash, Tick, vars
  <2>2. Serial(s)
    BY <2>1 DEF SerialInv
  <2>3. ASSUME NEW r \in Request, OwnStep(r) PROVE Serial(s)'
    <3>1. CASE SessionOf[r] # s
      BY <2>2, <2>3, <3>1, ElsewhereQuiet, QuietSerial
    <3>2. CASE SessionOf[r] = s /\ (Start(r) \/ Load(r) \/ LandWrite(r))
      BY <1>2, <2>2, <3>2, StartSerial, LoadSerial, LandSerial
    <3>3. CASE SessionOf[r] = s /\ ~ (Start(r) \/ Load(r) \/ LandWrite(r))
      <4>1. \/ AcquireRead(r) \/ PoolTimeout(r) \/ Abort(r)
            \/ Score(r) \/ Complete(r) \/ Persist(r)
            \/ LoseWrite(r) \/ FinishLog(r) \/ FinishRekor(r)
        BY <2>3, <3>3 DEF OwnStep
      <4>2. Quiet(s)
        BY <1>2, <3>3, <4>1, OwnQuiet
      <4> QED
        BY <2>2, <4>2, QuietSerial
    <3> QED
      BY <3>1, <3>2, <3>3
  <2>4. CASE \/ \E x \in SessionId : DeleteStart(x)
             \/ DeleteRun \/ DeleteFails \/ Crash \/ Tick \/ UNCHANGED vars
    BY <1>2, <2>2, <2>4, CommonQuiet, QuietSerial
  <2> QED
    BY <2>3, <2>4 DEF Next, OwnStep
<1> QED
  BY <1>1, <1>2 DEF SerialInv

LEMMA SerialInvariant == Spec => [](Inv /\ AllGrow /\ SerialInv)
<1>1. Inv /\ AllGrow /\ SerialInv /\ [Next]_vars => SerialInv'
  BY StepSerial
<1>2. Inv /\ AllGrow /\ [Next]_vars => AllGrow'
  BY AllGrowStep
<1> QED
  BY <1>1, <1>2, InitSerial, AllGrowInit, InvInvariant, PTL DEF Spec

\* A client that waits for each write before its next request loses none: the
\* stored record counts exactly the writes that landed, as long as no delete, no
\* expiry, no lost write and no crash over one disturbs the session.
THEOREM SerialLosesNothing == Spec => []SerialSessionsCount
<1>1. SerialInv => SerialSessionsCount
  BY DEF SerialInv, Serial, Counts, StoredOf, SerialSessionsCount
<1> QED
  BY <1>1, SerialInvariant, PTL

\* The timestamps of such a session stay in the order of arrival, however the
\* handlers of others interleave, and last_active_at is the latest of them.
THEOREM SerialStaysInOrder == Spec => []SerialSessionsOrdered
<1>1. SerialInv => SerialSessionsOrdered
  BY DEF SerialInv, Serial, TimesInOrder, InOrder, SerialSessionsOrdered
<1> QED
  BY <1>1, SerialInvariant, PTL

\* All perturbed answers of such a session share one seed: what README.md says
\* of sticky noise holds for a client that waits.
THEOREM SerialKeepsSeed == Spec => []SerialSessionsSticky
<1>1. Inv /\ AllGrow /\ SerialInv => SerialSessionsSticky
  <2> SUFFICES ASSUME Inv, AllGrow, SerialInv, NEW q \in Request, NEW r \in Request,
                      Perturbed(q), Perturbed(r), SessionOf[q] = SessionOf[r],
                      SessionOf[r] \notin disturbed
               PROVE  session[q].noise_seed = session[r].noise_seed
    BY DEF SerialSessionsSticky
  <2> DEFINE s == SessionOf[r]
  <2>1. s \in SessionId /\ q \in Of(s) /\ r \in Of(s) /\ Serial(s)
    BY PipelineAssumption DEF PipelineAssumption, Of, SerialInv
  <2>2. ASSUME NEW x \in Of(s), NEW y \in Of(s), Perturbed(x), Perturbed(y),
               write[x] = "stored", write[y] = "pending"
        PROVE  session[x].noise_seed = session[y].noise_seed
    <3>1. store[s] # NULL /\ store[s].noise_seed # NULL
          /\ session[x].noise_seed = store[s].noise_seed
      BY <2>1, <2>2 DEF Serial, OneSeed, Perturbed
    <3>2. loaded[y] = store[s]
      BY <2>1, <2>2, <3>1 DEF Serial, ReadsStored, Late
    <3>3. session[y].noise_seed = loaded[y].noise_seed
      BY <2>2, <3>1, <3>2 DEF AllGrow, Grows, Of, Perturbed
    <3> QED
      BY <3>1, <3>2, <3>3
  <2>3. CASE write[q] = "stored" /\ write[r] = "stored"
    BY <2>1, <2>3 DEF Serial, OneSeed, Perturbed
  <2>4. CASE write[q] = "pending" /\ write[r] = "pending"
    BY <2>1, <2>4 DEF Serial, OneOpen, Open
  <2>5. \A x \in {q, r} : write[x] = "pending" \/ write[x] = "stored"
    BY <2>1 DEF Serial, NoneLost, Perturbed
  <2> QED
    BY <2>1, <2>2, <2>3, <2>4, <2>5
<1> QED
  BY <1>1, SerialInvariant, PTL
=============================================================================
