-------------------------- MODULE SessionRegister --------------------------
(***************************************************************************)
(* What the engine promises about the session profiles in Redis, without   *)
(* its pipeline, pool or tasks: a register per session key.  A writer      *)
(* takes the current record (or a fresh one) as its basis, and may later   *)
(* publish a one-request extension of that basis, whatever the register    *)
(* holds by then: the last publication wins.  A register can be erased (an *)
(* admin's delete, or its TTL) and a basis can be abandoned.               *)
(***************************************************************************)
EXTENDS SessionRecord

CONSTANTS SessionId,     \* session id hashes: the Redis keys
          SessionOf      \* the session of each request

VARIABLES
    store,   \* [SessionId -> Optional(Session)]
    basis    \* [Request -> Optional(Session)], what each open writer read
vars == <<store, basis>>

Init == /\ store = [s \in SessionId |-> NULL]
        /\ basis = [r \in Request |-> NULL]

\* A fresh record has seen no request and carries no tracking and no seed.
IsFresh(rec) == rec = NewSession(rec.first_seen_at)

Read(r) ==
    /\ basis[r] = NULL
    /\ basis'[r] # NULL
    /\ IF store[SessionOf[r]] = NULL
       THEN IsFresh(basis'[r])
       ELSE basis'[r] = store[SessionOf[r]]
    /\ basis' = [basis EXCEPT ![r] = basis'[r]]
    /\ UNCHANGED store

Publish(r) ==
    LET s == SessionOf[r] IN
    /\ basis[r] # NULL
    /\ store'[s] # NULL
    /\ Extends(basis[r], store'[s], r)
    /\ store' = [store EXCEPT ![s] = store'[s]]
    /\ basis' = [basis EXCEPT ![r] = NULL]

Abandon(writers) ==
    /\ basis' = [r \in Request |-> IF r \in writers THEN NULL ELSE basis[r]]
    /\ UNCHANGED store

Erase(sessions) ==
    /\ store' = [s \in SessionId |-> IF s \in sessions THEN NULL ELSE store[s]]
    /\ UNCHANGED basis

Next == \/ \E r \in Request : Read(r) \/ Publish(r)
        \/ \E writers \in SUBSET Request : Abandon(writers)
        \/ \E sessions \in SUBSET SessionId : Erase(sessions)

Spec == Init /\ [][Next]_vars
=============================================================================
