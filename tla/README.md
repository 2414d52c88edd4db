# A TLA+ model of Vyse

Vyse stands between clients and a language model.  A Go gateway authenticates
and limits requests; a Rust engine keeps a behavioural profile of every session
in Redis, scores each request, assigns the session a security tier and perturbs
the answers of suspicious sessions.  This directory models the parts whose
correctness depends on interleavings, failures and boundaries, checks them with
TLC on small instances, and proves the most important facts with TLAPS for
every value of the constants.

## The system

| Component | State it keeps | Operations | Module |
|---|---|---|---|
| Inference pipeline, `engine/src/grpc/service.rs` | a handler's local `session`, the connections it holds | `infer` / `handle_infer` | `InferPipeline` |
| Session store, `engine/src/store/session.rs`, `store/mod.rs` | one JSON record per session key in Redis, with a TTL; the bb8 pool | `Session::new`, `trim`, `tracking_duration_mins`, `get`, `set`, `delete`, `list_hashes` | `SessionRecord`, `InferPipeline`, `SessionRegister` |
| Score and tier policy, `engine/src/scoring/mod.rs` | none | `compute_hybrid`, `classify_tier` | `TierPolicy` |
| Signals, `engine/src/scoring/{velocity,entropy,anomaly}.rs` | the anomaly model: a global `RwLock` over running statistics | `weighted_rpm`, `inverse_bigram_entropy`, `score`, `update` | `Velocity`, `Entropy`, `Anomaly` |
| Divergence, `scoring/divergence.rs` | none | `compute` | not modelled |
| Defence, `engine/src/defence/{mod,synonym,numeric}.rs` | none | `run`, `substitute`, `perturb`, `reorder_sentences` | `Defence` |
| Delete RPC, `service.rs` | none | `delete_session` | `InferPipeline` |
| Read RPCs, `service.rs` | the streaming task of a listing and its channel | `get_session`, `list_sessions`, `health_check` | `AdminApi` |
| Query logs, `engine/src/store/logs.rs` | rows in PostgreSQL | `insert`, `list_recent` | `insert` as a task of `InferPipeline` |
| Engine configuration, `engine/src/config.rs` | none | `load`, `validate` | `EngineConfig` |
| Rate limiter, `gateway/internal/middleware/ratelimit.go` | a map from client address to token bucket and `lastSeen`, under a `sync.RWMutex` | `Middleware`, `getLimiter`, `evictIdle` | `RateLimiter`, `TokenBucket` |
| Gateway chain, `gateway/internal/middleware/{auth,session}.go`, `handlers/infer.go`, `server/server.go` | none | API key, session extraction, prompt checks, tokens | not modelled |
| Engine client, `gateway/internal/grpc/client.go` | one gRPC connection | `Infer` with a deadline | its deadline, in `InferPipeline` |

Interactions.  The gateway calls `Infer` once per HTTP request under a deadline
(`client.go:123`); when it expires, tonic drops the handler's future wherever it
awaits.  Handlers of the same session share nothing in memory: they meet in
Redis, through a GET at the start and a SET at the end, and at the connection
pool.  The read RPCs meet the pipeline there too: a listing keeps one connection
from KEYS until its last record is sent.  Each answered request leaves up to
three spawned tasks behind (session write, query log, Rekor submission), whose
results nobody reads.

The tree is in the middle of a refactoring: `service.rs` uses modules that are
not there (`ml`, `audit`, `error`, `proto`) and functions the present `scoring`
and `defence` do not export (`compute_scores`, `derive_seed`, `apply`).  They are
modelled from how `service.rs` uses them: `compute_scores` returns any hybrid
score of a given set, the models and the language model answer or fail, and
`classify_tier` is the one of `scoring/mod.rs`, applied to the hybrid score, the
duration and the intent flag.  In the defence:

* `numeric.rs` declares `perturb(text, fraction, seed)`, which returns a text, but
  `defence/mod.rs` passes its generator and expects a text and a flag.  The model
  takes the text, computed from the session's seed, and "changed" when it differs
  from the one before.  A number's position is that of its token.
* The number pattern uses look-behind, which the `regex` crate refuses.  A number
  is a token of the model, wherever a pattern would find it.
* The generator is seeded by an HMAC over the session.  The model lets it draw
  anything it could draw.

### What is hard in it

* A read-modify-write of the session spans the whole pipeline, with no lock and
  no transaction.
* Each request takes two connections from one pool, holding the first while it
  waits for the second.
* The answer is returned before its session write lands; the write may be lost.
* Time: the TTL, the handler's `now` against later clock readings, the
  gateway's deadline, bb8's timeout.
* A delete, an expiry or an engine crash may fall between any two of these steps.
* Boundaries: strict and non-strict thresholds, trimming to two limits.
* A listing reads the keys first and the records one by one, while they change,
  and a client that stops reading keeps its connection.
* The velocity is computed from timestamps that overlapping requests append out
  of order.
* The defence steps run one after another on the same text: what one inserts the
  next may change, and the sentences are taken apart and joined again.
* A configuration has three layers, and an environment variable's name is split at
  the same character that field names contain.
* The rate limiter's map: misses that race to insert, `lastSeen` written under a
  read lock, an eviction that judges entries other goroutines still hold.

`PROJECT.json` lists these hazards one by one, each at its line, with the
properties that cover it.

## The modules

**`TierPolicy`** `compute_hybrid` and `classify_tier` as operators in exact
arithmetic: a signal is `0..Scale`, a weight a percentage, a score
`0..100*Scale`.  `PolicyAssumption` is what `validate` guarantees (the weights
sum to 1.0 within 0.01) and no more.

**`SessionRecord`** the Redis record and the operators a request applies to it,
one per step of `handle_infer`, plus `Extends(old, new, r)`, what one request may
turn a record into.  `dynamic_mean_rpm`, `current_hybrid_score` and
`last_embedding` hold outputs of the scoring and ML code that no modelled step
reads, and are left out.

**`InferPipeline`** the state machine.  A value of `pc[r]` is an await of
`handle_infer`, and an action runs from one await to the next:

| `pc` | awaits | left by |
|---|---|---|
| `acquire` | first connection, line 211 | `AcquireRead`, `PoolTimeout`, `Abort` |
| `load` | Redis GET, line 215 | `Load` (steps 1 and 2, ban check), `Abort` |
| `score` | models, lines 233-240 | `Score` (steps 5 to 7), `Abort` |
| `llm` | language model, line 279 | `Complete` (steps 9 and 10), `Abort` |
| `persist` | second connection, line 320 | `Persist` (spawns, answers), `PoolTimeout`, `Abort` |

`Abort` is every `?` and early error return at an await, and the cancellation by the
gateway.  A panic of the handler has the same effect.  `LandWrite` and `LoseWrite` end
the session write, `FinishLog` and `FinishRekor` the other tasks.  `DeleteStart` and
`DeleteRun` are `delete_session` at its two awaits; `DeleteFails` is its error or
cancelled path, with the record gone or not, and no ban reported.  `Crash` kills the
process: handlers, tasks and the pool are gone, Redis stays.  `Tick` advances the clock.
`poolIdle` counts idle connections; who holds the others follows from `pc`, `write` and
`admin`, as it follows from Rust's ownership in the code.  `banned`, `barred` and
`disturbed` are history that guards nothing.

**`SessionRegister`** the abstract specification: a register per session whose
writers read, later publish a one-request extension of *what they read*, or give
up, and which may be erased.  It promises the last writer wins and says nothing
of pools, tasks or awaits.  `InferPipeline` implements it (`RefinesRegister`):
the register is the unexpired part of Redis, the basis of a writer is `loaded`
from the GET until the write lands, is lost, or the handler ends.

**`AdminApi`** the read calls.  `store[h]` is the tier of the record under a key,
0 for none; the pipeline is the environment that borrows connections
(`Borrow`, `Return`) and changes records (`Change`).  A value of `listPc` is an
await of the task `list_sessions` spawns:

| `listPc` | awaits | left by |
|---|---|---|
| `acquire` | a connection | `ListAcquire`, `ListFails` (the pool timed out, or Redis is broken) |
| `keys` | Redis KEYS | `ListKeys`, `ListFails` |
| `get` | Redis GET of `current` | `ListGet`, `ListGetFails` (skipped silently) |
| `send` | room in the channel | `ListSend`, `ListHangUp` (the client left) |
| `ended`, `failed` | nothing: stream closed | |

`Advance` is the head of the loop: the limit is looked at before each record.  Keys are
read in any order (`todo` is a set).  `Stalled` describes the one state in which the
task waits for somebody who owes it nothing: the channel is full and the client is there
but does not read.  `get_session` and `health_check` have one `pc` each; `health_check`
drops its connection before it asks PostgreSQL, and counts a pool that gives nothing,
exhausted or broken, as Redis being down.  `get_stats` returns a default value.

**`Velocity`** `weighted_rpm`.  Timestamps have `Second` units to the second; ages
are whole seconds (`Age`, the `num_seconds` of velocity.rs:43), while the window is
cut at the exact time.  `Weight` is a decreasing table for `exp(-age)`, a rate an
exact fraction.  `compute` divides the rate by `max_rpm` and clamps: the properties
compare the rate with `MaxRpm`.

**`Entropy`** `inverse_bigram_entropy`.  Entropies are compared without logarithms:
times the number of bigrams, the entropy is the logarithm of `Arrangements` over
`Repetitions`, and its maximum the logarithm of `Ceiling`.

**`Anomaly`** the five running statistics with their prior, Welford's update and the
z-score the answer is computed from, in exact fractions.  The comment at
anomaly.rs:38 says that the score is that of the largest z-score; the code, as its
comment at line 150 says, and the model use the fourth smallest of the five.

**`Fractions`** exact, reduced fractions for `Velocity`, `Anomaly` and `Defence`.

**`Defence`** `run` as a state machine: `Begin`, `Substitute`, `Perturb`, then
`KeepOrder` or `StartShuffle`, one `Swap` per iteration of the Fisher-Yates loop
and `Join`.  A text is a sequence of tokens that one space separates: a word, a
number or nothing (one more space), with the periods that follow; this is what
`split_whitespace`, `split(". ")`, `trim` and `join(". ")` can tell apart.  `Pieces`
is what the split leaves, `Sentences` those pieces that are not blank
(defence/mod.rs:102): a response that ends in `". "` loses that period when it is
reordered.  `Respaced` is what the substitution does to blanks, if it finds a word.
It picks `NReplace` places and a synonym for each, in every way; the numeric factor
is computed with the code's wrapping integers, of two halves of `Half` values (2^32
in the code) each, for every seed in `Seeds`.  A number keeps its decimals, but no
more than six (`MaxDen`, 10^6 in the code): `0.00000004` is served as `0.000000`.

**`EngineConfig`** `load` as a predicate on two layers over the defaults: the fields
config.toml sets and the environment variables that are set.  `EnvPath` is the path
the config crate makes of a variable's name with `separator("_")`, `FieldPath` the
path of the field it is meant for.  Six fields stand for all: the three secrets
(no default), the provider, one weight, one ratio.

**`MCEngine`** feeds the sequential modules: small machines that worsen an
observation, append timestamps, ask prompts, observe features, run the defence and
set configuration fields.  `area` names the one that moves in a behaviour, so that
their state spaces add up.

**`RateLimiter`** the gateway's limiter.  A value of `pc[g]` is where a request
goroutine may be preempted:

| `pc` | in the code | left by |
|---|---|---|
| `idle`, `passed`, `limited` | no request, or its verdict | `Find`, `Miss` (RLock, lookup) |
| `found` | line 85, `time.Now()` read, RLock held | `Stamp` (store it, RUnlock) |
| `missed` | line 91, no lock | `CallLock` |
| `waiting` | line 93, queued for Lock | `Insert` (look again, create) |
| `allow` | line 62, `Allow` called | `Allow` (its `time.Now()`) |
| `deciding` | inside `AllowN`, before the limiter's own mutex | `AllowN` (take a token or not) |

`EvictCall` and `Evict` are `evictIdle` before and after it gets Lock.  The
cleanup ticker may fire at any time, not only every five minutes.  Whatever runs
under Lock is one step, since it runs alone.  Two goroutines at `found` race on
`lastSeen`: the order of their `Stamp` steps decides which time stays.
`entry[l]` is an `ipLimiter` with its `rate.Limiter` (`tokens`, `last`: refilled
lazily, up to the time it is asked about).  That time was read before the mutex:
a goroutine preempted in between decides by an older one, and a pass sets `last` back
to it, so that the next request is given the interval again.  A goroutine blocked in
`RLock` is not a state of its own: it is one whose `Find` or `Miss` is not enabled
yet, and counts as idle.  `rate.Limiter` and `sync.RWMutex` are libraries, modelled
by what the code relies on: at most `Burst` tokens, `Rate` new ones per unit of
time, and no new reader once a writer waits.  Tokens and time are whole numbers.
The comment at ratelimit.go:25 calls the eviction age `cleanupInterval`; the code,
and the model, use `idleTimeout`.

**`TokenBucket`** what the limiter promises: one bucket per address, refilled for
ever, with no map, lock or eviction.  A request reads the clock and is decided
later; what the rate brings in between (`Doubt`) may be overlooked by a refusal and
put back by a pass.  A request decided at the time it read meets an exact bucket.
`RateLimiter` implements it (`RefinesBuckets`): the level of an address without an
entry is a full bucket.

## The runs

| Run | Instance | Shows |
|---|---|---|
| `engine_functions` | see "Bounds" | fourteen properties of the sequential parts, below |
| `infer_pipeline` | 3 requests, 1 session, pool of 2, clock 0..2, one crash, one delete, fairness | `TypeOK`, `PoolConserved`, `RecordShape`, `AuditedTierThree`, `TierThreeNeedsHistory`, `EscalationPersists`, the three `SerialSessions...`, `RefinesRegister`, `RequestsEnd`, `PoolRecovers` |
| `rate_limiter` | 3 goroutines, 1 address, burst 2, rate 1, idle timeout 3, clock 0..5, fairness | `TypeOK`, `OneLimiterPerAddress`, `RefinesBuckets`, `RequestsDecided` |
| `admin_api` | 3 sessions, 2 tiers, pool of 2, channel of 1, filters none and 1, limits none and 2, one change, fairness | `TypeOK`, `PoolConserved`, `StreamExact`, `SteadySessionsListed`, `ListEnds` |
| `doc_lost_update` | 2 requests | CONTRIBUTING.md:753 does not hold: a write erases a concurrent request |
| `doc_sticky_seed` | 2 requests | README.md:237 does not hold: two seeds in one session |
| `doc_ban` | 2 requests, one delete | vyse.proto:71 does not hold: a deleted session starts afresh |
| `doc_persist_wedge` | 2 requests, pool of 2 | service.rs:316 does not hold: persisting blocks, with every connection held by a waiting handler |
| `rate_race` | 2 goroutines, 1 address | ratelimit.go:21 does not hold: two goroutines write `lastSeen` at once |
| `doc_entropy` | 2 prompts | entropy.rs:6 does not hold: identical prompts score 0 when their bigrams differ from one another |
| `doc_intent` | one observation | README.md:201 and :220 do not hold: an intent flag gives Tier 2, not Tier 3 |
| `doc_secrets` | the three secrets | config.rs:191 and :234 do not hold: the variables are set and `load` fails |

What `engine_functions` shows, by part:

* Score and tier: the tiers as `scoring/mod.rs` states them (`TierTable`), the range
  of the score (`HybridScaled`; the default weights never need the clamp, that it
  corrects other weights is only proved); no worsening of an observation lowers
  score or tier (`NeverRewarded`).  The code contradicts the repository's README
  here: README.md:201 and :219-220 promise Tier 3 for every prompt that the intent
  classifier flags, the code makes the flag a floor of Tier 2 (`doc_intent`).  For the
  same reason `TierThreeNeedsHistory` holds of the pipeline: not even a flagged
  first request gets Tier 3.
* Velocity: timestamps out of order can only raise the rate
  (`OutOfOrderNeverHides`).  A client whose requests are apart by twice the
  ceiling's interval and a second stays under it (`PacedClientUnderCeiling`).  Both
  margins are needed: the span between n requests is n-1 intervals, so two requests
  a second apart already saturate the signal, and whole seconds can take almost a
  second off the span.  A client that waits one second is not rated higher while no
  request leaves the window (`WaitingNeverRaises`).  Waiting a fraction of a second
  can raise its rate: ages 5.1 and 0.7 are counted as 5 and 0, and 0.3 seconds later
  5.4 and 1.0 as 5 and 1; so can the oldest request's leaving.
* Entropy: never above its maximum (`EntropyNormalised`), independent of the order
  of the prompts (`EntropyUnordered`).
* Anomaly: the running statistics equal two passes over prior and observations
  (`WelfordMatchesTwoPass`); learning an observation never makes it more anomalous
  (`LearningNeverAlarms`).
* Defence: nothing but replaced words is lost, and one period for each blank piece
  that the reordering leaves out (`NothingLost`); numbers stay in place, within the
  configured fraction and half a unit of the last decimal that is kept
  (`NumbersStayClose`); what `steps_applied`
  omits did not happen (`LoggedSteps`; the converse is false, since
  defence/mod.rs:64 and :76 log the substitution and the reordering whether or not
  they changed anything); uniform draws give uniform orders (`EachOrderOnce`).
* Configuration: `doc_secrets`.  config.rs:7-8 demands the secrets in environment
  variables, :191 and :270-276 name them and :234 calls variables sufficient, but
  `VYSE_ENGINE_STORE_REDIS_URL` becomes `store.redis.url`, which is no field: `load`
  never succeeds without the three secrets in config.toml.  The key of the language
  model must be there even for Ollama, though possibly empty.

Bounds.  In `engine_functions`: signals in quarters and minutes 0..11, past every
threshold.  Times in half seconds, a velocity window of 4 seconds and a minute of 6,
four requests up to a second late, a clock of five seconds, so that requests leave
the window and fractions are cut.  Four prompts (a
repeated bigram, a shared one, shared words only, none), a window of 3 and
histories of 4.  Readings 0 and 6 far on both sides of the prior, a prior of 3
observations and two more.  Halves of 4 bits for the factor, of which the high one
takes both extremes with the chosen seeds; five texts of up to four sentences, with
a synonym that is itself in the table, a negative number, a number that ends a
sentence, blanks inside and at the end, a blank piece, and more decimals than are
kept (two stand for six).  Up to four settings: three secrets and one more.

In `admin_api` three sessions, a limit of two and a channel of one have a full
channel, a limit that cuts a listing short and one that does not; one change
suffices to make a record appear, vanish or cross the filter between KEYS and GET.

In the pipeline, one session suffices where requests of different sessions only
meet at the pool: `PoolConserved` and the liveness properties depend on the number of
requests, not on their keys.  Two requests are the fewest that race and exhaust a
pool of two; with three, one can wait outside while two wedge, and a third
overlapping writer appears.  Requests of one session are interchangeable, so
`Scenario` lets them arrive in order, which takes the place of a symmetry and leaves
liveness sound.  It also keeps the third one apart from the crash, the delete and,
unless it is the next request of a client that waited for the other two, from the
clock: faults and time are met by every interleaving of two requests, the crowd by
every interleaving of three.  It holds back only arrivals, crashes, deletes and the
clock, which no fairness speaks of, so it stops no request that is under way.

The scores are one below every threshold and one above all (`HighScores`).  The
minutes of Tier 2 and Tier 3 shrink from 2 and 10 to 1 and 1, and the TTL to 2, so
that within a clock of two a session is tracked, reaches Tier 3 and expires, each on
one side or the other of a request.  The histories hold 2 timestamps and 1 prompt, so
the third request trims both.  Deadlock is not checked for the pipeline: it stops
when every request ended, every task settled and the bounds of the clock, the
crashes and the deletes are reached.  `MaxClock`, `MaxCrashes` and `MaxDeletes`
are the only bounds of the model itself; the proofs hold for every value of them.

Fairness (`FairSpec`).  tokio polls a ready task again and again, so every step
that needs nobody else is weakly fair: a handler waiting for Redis or a model
goes on or is aborted (these services answer, fail, or the deadline strikes), a
spawned write and a delete end, and a pool wait ends with a connection or with bb8's
timeout.  That a waiting handler gets *a connection* is not assumed.  Nothing is
assumed of clients, admins, crashes or the clock, nor of the log insert and the Rekor
submission, which hold no connection.

Fairness of `AdminApi`.  Only `ListStep` is weakly fair: the runtime polls the
streaming task whenever what it waits for is there, Redis answers or fails, and
bb8 gives a connection or times out.  The client's `Receive` is not fair, and
`ListEnds` says what that costs: a client that stays and stops reading holds one
connection of the engine's pool for as long as it likes.

The rate limiter.  Addresses share only the lock, so one address with three
goroutines has every race: two that miss together, two that stamp together, and
one more that keeps the entry busy.  Four entries are enough for those in the map
and in use.  An idle timeout of 3 with preemptions of at most 1 (`MaxStall`) is
the tightest instance of `LimiterAssumption`: with 2 the refinement fails.  A stall
of 1 lets a decision come after the next reading and move `last` back.  The
clock runs long enough for an entry to be drained, to idle out and to be used
anew.  `MaxClock` is the only bound of the module itself.  Fairness: Go's
scheduler runs every runnable goroutine, and a goroutine that waits for Lock gets
it when the readers are gone, because `RWMutex` holds new readers back; without
that, readers starve a miss for ever.  No client, ticker or clock is assumed to
move.  `RequestsDecided` speaks of goroutines past their `RLock`; it depends on this
fairness, and so does the end of every `Evict`.

The four `doc_` violations about the pipeline are read with their positive
counterparts: what the engine does promise a client that waits for each write to
land, with no loss, delete or expiry, is `SerialSessionsCount`,
`SerialSessionsSticky` and `SerialSessionsOrdered`; what it promises everyone is
`RefinesRegister`; what rescues the wedge is `RequestsEnd` and `PoolRecovers`.

## What is proved

Every theorem holds for every value of the constants that the named assumptions of
the modules admit, and for runs of any length: clocks, histories and the numbers of
requests, sessions and observations are unbounded in the proofs.

The operators of the sequential parts sum over sets, flatten sequences and reduce
fractions.  The library's induction theorems take an operator as a parameter, which
the provers cannot instantiate; `ArithmeticProofs` does without them.  An induction
is there the argument that a *set* of counterexamples would have a least element
(`LeastNumber`, `SetInduction`; `SmallestSet` for finite sets), from the library's
well-founded minimum.  What a recursive function of the community modules computes
follows in two steps: some function satisfies its equation (built by induction), and
the equation determines it, so the one that CHOOSE takes is that one.  On this rest

* division, the greatest common divisor and reduced fractions (`GCDScaled`,
  `FracEqual`, `AtMostFrac`);
* sums over finite sets (`SumRemove`, `SumPlus`, `SumImage`, `SumUnion`,
  `SumOfSquares`), to which `SumOver` reduces the community modules' `SumFunction`;
* products and powers (`ProdUnion`, `RaisedTimes`) and the inequality of arithmetic
  and geometric means in whole numbers, n^n f1...fn <= (f1+...+fn)^n
  (`MeansOrdered`), by Bernoulli's inequality (`OneFactorDiffers`) one factor at a
  time.  It is strict if two factors differ (`MeansDiffer`: levelling those two
  keeps the sum and raises the product).  `EvenIsMost` is Gibbs' inequality without
  logarithms: give each place of a sequence the share of a common multiple that the
  count of its element leaves, and the inequality bounds n^n by k^n times the
  product of count^count, with equality just when the counts are;
* sequences of sequences: the weight of a flattened sequence is the sum of the
  weights of its parts (`FlattenWeighs`), so flattening the parts in another order
  gives the same bag of elements (`FlattenShuffled`).

`SignalProofs` applies them to the operators of `Anomaly`, `Velocity` and `Entropy`.

`EngineProofs`, about the machines of `MCEngine`:

* Score.  `HybridInRange`: the score stays in range for *any* weights.
  `HybridMonotone`: it is monotone when no weight is negative (`validate` does not
  demand that, and without it the statement is false).  `ClassifyTierMonotone`,
  `IntentFloor`: the tier is monotone in all three arguments whatever the
  thresholds, and the intent flag is a floor of Tier 2 that never grants Tier 3
  (what README.md:201 promises is refuted by `doc_intent`).
  From `ScoreTypeOK` follow `ScoreIsScaled` (`HybridScaled`), `TiersAreTheTable`
  (`TierTable`, if one of the two pairs of thresholds is in order; `validate` does
  not check either, and with both reversed the table is wrong) and
  `WorseIsNeverRewarded` (`NeverRewarded`, if no weight is negative).
* Anomaly.  `AnomalyTypeOK` says of every statistic that its mean and sum of squared
  deviations are fractions of a positive denominator, the latter not negative; it is
  preserved by Welford's update (`UpdateOK`).  `WelfordInv` is stronger: mean and
  sum are those that the count, the sum and the sum of squares of prior and
  observations determine.  `WelfordMatchesTwoPass` alone is not inductive, because
  it compares the update with a sum of squares around a mean that moves.  Theorems
  `WelfordIsExact` and `LearntNeverAlarms` (an algebraic fact, `LearntIsCloser`: the
  update multiplies a squared z-score by at most one).
* Velocity.  `VelocityTypeOK` says that no request bears a time later than the
  clock.  `LatenessNeverHides` (`SortedOK`: sorting leaves the requests inside the
  window and their weights alone, and the span between the first and the last only
  grows), `PacedIsUnderCeiling` (`GapsAddUp`: n requests at least an interval apart
  span n-1 intervals, of which whole seconds take less than one more), and
  `WaitingIsNeverPunished` (a whole second adds one to every age).
* Entropy.  `OrderNeverMatters`: the bigrams of the recent prompts, and with them
  their frequencies, are the same bag in every order, for every window and history
  (`EntropyTypeOK`; `ShuffledFrequencies`).  `NormalisedAtMostOne`
  (`EntropyNormalised`): the entropy never exceeds the maximum it is divided by,
  so the upper end of the `clamp` at entropy.rs:63 only corrects rounding (`EntropyIs`, from
  `EvenIsMost`).  `OnlyUnevennessScores` says when it stays below: just when some
  bigram is more frequent than another, or there is only one.  Hence
  `IdenticalNeverScores`: a prompt of three words or more that repeats no bigram
  scores nothing however often it is sent, which the `doc_entropy` run shows for one
  history.
* Configuration.  `SecretsOnlyFromFile`: what `doc_secrets` shows of one environment
  holds for every file and every environment, because every secret's name has more
  than one word and every variable is split into one-word components.
* `EngineRunsDefence`: beside its other parts the machine takes only the defence
  pipeline's own steps, so that the theorems about `DefenceSpec` hold of it.

`DefenceProofs`, for every text, seed, fraction, table of synonyms and size of the
factor's integers (`Half` > 1):

* `ShuffleKeepsSentences`: in every state of the loop `indices` is a permutation of
  all sentences of the text (`OrderInv` adds that the text is finite).
* `ShuffleIsFair` (`EachOrderOnce`), for every number of sentences.  `Run` is the
  sequence of orders the loop makes of given draws.  What an iteration has put in
  place the later ones leave there (`RunSettles`), so two sequences of draws differ
  in the result where they last differ (`DrawsDiffer`), and every order is made by
  drawing, at each place, wherever what belongs there is (`DrawsReach`).  The first
  entry of a sequence of draws is free, which is the factor of n (`FirstIsFree`).
* `NumbersAreClose` (`NumbersStayClose`): the factor's high half is at most its maximum
  although its product wraps (`HighHalfOK`), so the factor is within the fraction of 1,
  and rounding half away from zero adds at most half a unit of the last decimal that is
  kept (`RoundedIs`, `CloseBy`).  `NumbersInv` adds that up to the numeric step nothing
  happens to a number: the substitution never picks one, since `Number` is no word of
  the table.
* `ServedIsWhole` (`NothingLost`) and `LogIsComplete` (`LoggedSteps`).  `ServedInv`
  says of every stage what the text has kept of the clean one, blanks aside (`Kept`:
  the place and the periods of every token, and the word unless it has synonyms;
  `SameNumbers` as long as the log does not list the numeric step).  The last step is
  the hard one: a split text loses periods and blank pieces, and its join restores
  one period fewer than there are sentences.  `JoinedWeighs` says that whatever a
  weight counts of tokens and periods, and not of blanks, the joined text has as much
  of it as the one that was split, less a period for each blank piece, in whatever
  order of the sentences: the pieces cut the text without gap or overlap
  (`RunsAddUp`), each but the one that reaches its end loses one period (`PieceIs`),
  a blank piece weighs nothing more (`SentencesWeigh`), each sentence but the last in
  the new order gets a period, and a permutation leaves the sum alone.  Words, the
  count of each, periods and the bag of numbers are such weights (`RearrangedOK`).

`InferPipelineProofs`, for any number of requests, sessions and connections, on
lemmas about what `Trim`, `NewSession`, `Touch`, `StartTracking` and `WithSeed`
return and keep:

* `Inv == TypeOK /\ HandlerShape /\ PoolConserved` is inductive
  (`InvInvariant`).  `HandlerShape` ties a handler's local variables to its `pc`:
  without it the type of `session[r]` is not preserved by `Score`, and without
  the shape of `write` a late `LandWrite` could store nothing.  `TypeOK` needs
  `PoolConserved`: `poolIdle <= PoolSize` holds only because whoever returns a
  connection was counted as holding it.  Theorems `TypeCorrect` and
  `PoolIsConserved`.
* `AllSound` says of every request that its handler is within its deadline, that
  a record read but not scored keeps the tracking it was read with, and that a
  scored one has the verdict its duration requires and, past the audit step, the
  submission its tier requires.  It is preserved by every step given `Inv`, and
  gives `TierThreeTakesHistory`, `EscalationIsPermanent` and
  `TierThreeIsAudited`.  `TierThreeTakesHistory` rests on `DeadlineAssumption`:
  the gateway's `request_timeout` (25 s in `config.toml`, 30 s by default) is at
  most Tier 3's duration (10 minutes).  `tracking_started_at` is set to the
  handler's `now` and compared with a later clock, so a handler without deadline
  could carry the very request that starts tracking into Tier 3.  The repository's
  README says otherwise of a prompt that the intent classifier flags (:201, :220);
  the theorem is about the code, `doc_intent` about the README.

`RateLimiterProofs`, for any number of goroutines, addresses and entries:

* `IInv` is inductive (`IInvInvariant`): besides `TypeOK` it says that a
  goroutine between lookup and decision holds the entry of its address (`Fresh`),
  that no two addresses share an entry (`Distinct`), and how far `lastSeen` may
  lag behind the time of the last token taken: two preemptions (`Seen`), one of a
  racing goroutine that stores an old time and one of the goroutine that is about to
  read the clock; the decision may come a third one later.  Without that lag, an
  eviction could take an entry out of a goroutine's hands and
  `OneLimiterPerAddress` would not be inductive.  Theorems `LimiterTypeCorrect`
  and `OneLimiter`.
* `RefinementOfBuckets`: the limiter implements `TokenBucket`.  `Find` and `Miss`
  are `Ask`, `Allow` is `Read`, `AllowN` is `Pass` or `TurnAway` (`TokensTaken`: a
  pass by an older time leaves at most what the delay brings more than an exact
  bucket would hold), `Tick` is `Refill` (`TickLevel`: lazy refill commutes with the
  passing of time), everything else stutters; `Evict` does because what it evicts is
  full again (`EvictedIsFull`).
* `RateIsBounded`: in any span of time t at most `Burst + Rate * (t + late)`
  requests of an address pass, where `late` adds up how long after their reading of
  the clock those requests were decided.  The second part is no slack of the proof:
  x/time sets a limiter back to the older time and gives it that interval again.
  `MeteredSpec` adds three history variables to the limiter, the time a meter was
  last reset, the requests of each address that passed since and their delays; it may
  be reset at any time and never holds up the limiter.  The bound alone is not
  inductive: `MeterInv` adds what the bucket still holds to what it gave away.
* `RefusedOnlyWhenSpent`, its counterpart: a request is refused only if at least
  `Burst + Rate * t` requests of its address have passed, t being the time from when
  its bucket was last full to the request's reading of the clock.  `LedgerSpec` keeps
  that time and that count, `LedgerInv` says that the bucket holds at least what was
  earned and not spent.

All rest on `LimiterAssumption`: the idle timeout covers three preemptions between a
reading of the clock and what is done with it, and what two of them leave of it
refills a burst.  The defaults (10 requests per second, a burst of 20, ten minutes)
satisfy it a hundredfold; `validate` in `config.go` (lines 193-198) only demands that
both limits are positive, so a configuration with less than one token per 600/burst
seconds is outside these theorems: there an eviction would give tokens away.

`InferRecordsProofs`, on top of `Inv`:

* `RecordsKeepShape`: `ShapeInv` demands the shape of every record, stored or
  carried by a handler, and adds that no handler's `now` lies in the future and that
  no record knows a request whose handler has not read one yet.  `RecordShape` alone
  is not inductive: without the latter a request could enter a record twice.
* `RefinementOfRegister`: the pipeline implements `SessionRegister`.  `Load` is
  `Read`, `LandWrite` is `Publish`, what ends a writer (a timeout, an abort, a lost
  write, a crash) is `Abandon`, a delete and an expiry are `Erase`.  `AllGrow` says of
  every handler past its GET that the record it holds is what its request makes of
  the one it read, which is what `Publish` demands.
* `SerialLosesNothing`, `SerialStaysInOrder`, `SerialKeepsSeed`: the three
  `SerialSessions...` properties.  `Serial(s)` says of an undisturbed session that at
  most one of its requests is open, that what a request past its GET has read is what
  is stored (or a fresh record), that whoever is open arrived no earlier than the last
  writer, and that every stored answer's seed is the stored one.  Only `Start`, `Load`
  and `LandWrite` of the session itself touch it; every other step is `Quiet(s)`.

They use `NoneAssumption`, that "no record" is not a record.

`AdminApiProofs`, for any number of sessions, tiers, connections and any channel:
`AdminTypeCorrect`, `AdminPoolIsConserved`, `StreamsAreExact` and
`SteadyAreListed`.  The inductive invariant says that the hashes sent, the one in
hand and those to do are disjoint (`StreamInv`: so none is sent twice), and that a
steady session is to do, in hand, sent or unwanted, unless the client left or the
limit was reached (`SteadyInv`).

Only model-checked:

* Liveness (`RequestsEnd`, `PoolRecovers`, `RequestsDecided`,
  `ListEnds`): fairness and ENABLED are out of the prover's reach.
* What the `doc_` and `rate_race` runs refute.

## Not modelled

Floating point: f32 rounding, overflow of the exponential, NaN (a NaN feature would
panic the `unwrap` at anomaly.rs:153).  The divergence signal: a dot product of
embeddings of which only the clamp could be said.  The contents of prompts,
embeddings and answers, the HMAC and the distribution of random numbers (in the
pipeline a seed is the time it was derived from).  The absent modules named above.
PostgreSQL and Rekor beyond the fact that their tasks end; `list_recent`, a SELECT
nothing calls.  `get_stats`, a placeholder.  Several engines on one Redis: the
model has one clock and one pool; requests on two engines would meet in Redis as
two requests do here.  More than one DeleteSession, listing, lookup or health check
at a time.  The gateway's HTTP chain and configuration: checks of one request that
keep no state.  The generated protobuf code.  A handler that is not called through
the gateway has no deadline.

## Plan

Done: the pipeline and its register, the record, the policy, the rate limiter and
its buckets, the read calls, the signals, the defence, the configuration, and a
theorem for every safety property that the passing runs check.  Left: liveness,
which the provers cannot do; the gateway's chain (API key, session extraction,
prompt checks, the call under its deadline) as one request state machine in front of
`InferPipeline`.
