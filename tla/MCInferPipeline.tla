-------------------------- MODULE MCInferPipeline --------------------------
(***************************************************************************)
(* Small instances of InferPipeline for TLC.  The weights and Scale only   *)
(* give HybridScores its range; Tier 2 starts at 55 and Tier 3 at 90 as in *)
(* the defaults, with a minute or two of tracking instead of 2 and 10, so  *)
(* that a clock of two reaches Tier 3.                                     *)
(***************************************************************************)
EXTENDS InferPipeline

CONSTANTS r1, r2, r3, s1

OneSession == [r \in Request |-> s1]

\* A score below every threshold, and one above them all.
HighScores == {10, 95}

Arrived(r) == pc[r] # "idle"

\* The first two requests are through, each waited for and stored.
Settled ==
    /\ disturbed = {}
    /\ \A r \in {r1, r2} : write[r] = "stored" /\ log[r] = "ended"
                              /\ rekor[r] # "pending"

\* The scenarios.  Requests of one session are interchangeable, so they arrive
\* in order.  The first two meet a crash, a delete and the clock.  The third
\* meets none of these: it crowds the other two in their first minute, or
\* follows them, a client's next request, in any minute.  Only arrivals,
\* crashes, deletes and the clock are held back, to none of which fairness is
\* given.
Scenario ==
    /\ Arrived(r2)' => Arrived(r1)
    /\ Arrived(r3)' =>
         /\ Arrived(r2)
         /\ crashes' = 0 /\ deletes' = 0
         /\ \/ clock' = 0
            \/ Settled
            \/ Arrived(r3) /\ clock' = clock
=============================================================================
