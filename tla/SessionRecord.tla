--------------------------- MODULE SessionRecord ---------------------------
(***************************************************************************)
(* The session profile kept in Redis, engine/src/store/session.rs, and     *)
(* what one inference request does to it.  A prompt is abstracted to the   *)
(* request that carried it, a noise seed to the time it was derived from   *)
(* (the other input, the session hash, is fixed by the key).  The fields   *)
(* dynamic_mean_rpm, current_hybrid_score and last_embedding hold outputs  *)
(* of the scoring and ML code and are left out.                            *)
(***************************************************************************)
EXTENDS Integers, Sequences

CONSTANTS
    Request,         \* identities of inference requests
    NULL,            \* None
    MaxTimestamps,   \* cfg.scoring.max_timestamps
    MaxHistory       \* cfg.scoring.entropy_window * 2

ASSUME RecordAssumption ==
    /\ MaxTimestamps \in Nat /\ MaxHistory \in Nat
    /\ NULL \notin Nat

Optional(S) == S \cup {NULL}

Session ==
    [tier                : 1..3,
     first_seen_at       : Nat,
     last_active_at      : Nat,
     tracking_started_at : Optional(Nat),
     request_count       : Nat,
     timestamps          : Seq(Nat),
     prompt_history      : Seq(Request),
     is_banned           : BOOLEAN,
     noise_seed          : Optional(Nat)]

ASSUME NoneAssumption == NULL \notin Session

\* Session::new, which reads the clock itself.
NewSession(t) ==
    [tier |-> 1, first_seen_at |-> t, last_active_at |-> t,
     tracking_started_at |-> NULL, request_count |-> 0,
     timestamps |-> <<>>, prompt_history |-> <<>>,
     is_banned |-> FALSE, noise_seed |-> NULL]

\* A bug that already trims a full vector.
TrimOffByOne(seq, max) ==
    IF Len(seq) >= max THEN SubSeq(seq, Len(seq) - max + 2, Len(seq)) ELSE seq
\* Session::trim on one vector: drop the oldest entries beyond max.
Trim(seq, max) ==
    IF Len(seq) > max THEN SubSeq(seq, Len(seq) - max + 1, Len(seq)) ELSE seq

\* A bug that forgets the counter, and one that records the newest time first.
TouchUncounted(rec, r, t) ==
    [rec EXCEPT !.timestamps = Trim(Append(@, t), MaxTimestamps),
                !.prompt_history = Trim(Append(@, r), MaxHistory),
                !.last_active_at = t]
TouchNewestFirst(rec, r, t) ==
    [rec EXCEPT !.timestamps = <<t>> \o @,
                !.prompt_history = Trim(Append(@, r), MaxHistory),
                !.request_count = @ + 1,
                !.last_active_at = t]
\* handle_infer, step 2: record request r, received at time t.
Touch(rec, r, t) ==
    [rec EXCEPT !.timestamps = Trim(Append(@, t), MaxTimestamps),
                !.prompt_history = Trim(Append(@, r), MaxHistory),
                !.request_count = @ + 1,
                !.last_active_at = t]

\* A bug that restarts tracking.
RestartTracking(rec, t) == [rec EXCEPT !.tracking_started_at = t]
\* handle_infer, step 6: tracking starts once.
StartTracking(rec, t) ==
    [rec EXCEPT !.tracking_started_at = IF @ = NULL THEN t ELSE @]

\* Session::tracking_duration_mins at time t.
TrackingDuration(rec, t) ==
    IF rec.tracking_started_at = NULL THEN 0 ELSE t - rec.tracking_started_at

\* handle_infer, step 9: the seed is the stored one, or is derived now from
\* tracking_started_at, or from the request's own time when tracking is off.
DeriveSeed(rec, t) ==
    IF rec.tracking_started_at = NULL THEN t ELSE rec.tracking_started_at
\* A bug that derives a seed for each answer.
RederiveSeed(rec, t) == [rec EXCEPT !.noise_seed = t]
WithSeed(rec, t) ==
    [rec EXCEPT !.noise_seed = IF @ = NULL THEN DeriveSeed(rec, t) ELSE @]

(***************************************************************************)
(* What one request may turn a record into: the promise every stored       *)
(* record keeps.                                                           *)
(***************************************************************************)
Extends(old, new, r) ==
    /\ new.request_count = old.request_count + 1
    /\ new.first_seen_at = old.first_seen_at
    /\ new.is_banned = old.is_banned
    /\ new.prompt_history = Trim(Append(old.prompt_history, r), MaxHistory)
    /\ new.timestamps
          = Trim(Append(old.timestamps, new.last_active_at), MaxTimestamps)
    /\ new.tracking_started_at
          \in IF old.tracking_started_at = NULL
              THEN {NULL, new.last_active_at} ELSE {old.tracking_started_at}
    /\ old.noise_seed # NULL => new.noise_seed = old.noise_seed
    /\ new.tier > 1 => new.noise_seed # NULL
=============================================================================
