--------------------------- MODULE AdminApiProofs ---------------------------
(***************************************************************************)
(* Proofs about AdminApi: its types, the conservation of the pool and the  *)
(* contents of a stream.                                                   *)
(***************************************************************************)
EXTENDS AdminApi, TLAPS

Items == [hash : Hash, tier : Tiers]

Unsent(h) == \A k \in DOMAIN stream : stream[k].hash # h

\* What is left to look at has not been sent, and neither has the session in
\* hand, which was accepted; the loop goes on only below the limit.
StreamInv ==
    /\ StreamExact
    /\ listPc \in {"idle", "acquire", "keys"} => stream = <<>>
    /\ listPc = "get" => /\ current[1] \in Hash \ todo
                         /\ Unsent(current[1])
    /\ listPc = "send" => /\ current[1] \in Items
                          /\ current[1].hash \notin todo
                          /\ Unsent(current[1].hash)
                          /\ filter \in {0, current[1].tier}
    /\ listPc \in {"get", "send"} => /\ \A h \in todo : Unsent(h)
                                     /\ limit > 0 => Len(stream) < limit

IInv == TypeOK /\ PoolConserved /\ StreamInv
-----------------------------------------------------------------------------
LEMMA InitInv == Init => IInv
<1> SUFFICES ASSUME Init PROVE IInv
  OBVIOUS
<1>1. PoolSize \in Nat /\ {0} \cup Tiers \subseteq Nat
  BY AdminAssumption
<1>2. TypeOK
  BY <1>1, AdminAssumption DEF Init, TypeOK, Listing, Answered
<1>3. PoolConserved
  BY <1>1 DEF Init, PoolConserved, Held
<1>4. StreamInv
  BY DEF Init, StreamInv, StreamExact
<1> QED
  BY <1>2, <1>3, <1>4 DEF IInv

\* The head of the loop keeps the invariant of a stream that is exact.
LEMMA AdvanceKeepsStream ==
  ASSUME NEW remaining \in SUBSET Hash, Advance(remaining),
         limit \in Int, limit' = limit, stream' \in Seq(Items),
         StreamExact', \A h \in remaining : Unsent(h)'
  PROVE  StreamInv'
<1>1. CASE listPc' = "ended"
  BY <1>1 DEF StreamInv
<1>2. CASE listPc' # "ended"
  <2>1. PICK h \in remaining : current' = <<h>> /\ todo' = remaining \ {h}
    BY <1>2 DEF Advance
  <2>2. listPc' = "get" /\ ~ Full
    BY <1>2 DEF Advance
  <2>3. limit' > 0 => Len(stream') < limit'
    BY <2>2 DEF Full
  <2>4. current'[1] \in Hash \ todo' /\ Unsent(current[1])'
    BY <2>1 DEF Unsent
  <2> QED
    BY <2>1, <2>2, <2>3, <2>4 DEF StreamInv, Unsent
<1> QED
  BY <1>1, <1>2

\* It gives the connection back when the task ends, and keeps it otherwise.
LEMMA AdvanceKeepsPool ==
  ASSUME NEW remaining \in SUBSET Hash, Advance(remaining), TypeOK, PoolConserved,
         listPc \in {"keys", "get", "send"}, UNCHANGED callVars
  PROVE  /\ PoolConserved' /\ poolIdle' \in 0..PoolSize /\ lent' = lent
         /\ listPc' \in {"get", "ended"} /\ todo' \subseteq Hash
<1>1. CASE listPc' = "ended"
  BY <1>1, AdminAssumption DEF Advance, GiveBack, PoolConserved, Held, TypeOK,
     callVars
<1>2. CASE listPc' # "ended"
  BY <1>2, AdminAssumption DEF Advance, PoolConserved, Held, TypeOK, poolVars,
     callVars
<1> QED
  BY <1>1, <1>2

\* A step of another call leaves the stream as it is.
LEMMA StreamUntouched == StreamInv /\ UNCHANGED listVars => StreamInv'
  BY DEF StreamInv, StreamExact, Unsent, listVars

\* Every step keeps the invariant.
LEMMA StepInv == IInv /\ [Next]_vars => IInv'
<1> SUFFICES ASSUME IInv, [Next]_vars PROVE IInv'
  OBVIOUS
<1> USE AdminAssumption
<1>t. TypeOK /\ PoolConserved /\ StreamInv /\ StreamExact
  BY DEF IInv, StreamInv
<1>i. limit \in Int /\ stream \in Seq(Items)
  BY <1>t DEF TypeOK, Items
<1>1. CASE ListStart
  <2>t. TypeOK'
    BY <1>1, <1>t DEF ListStart, TypeOK, PoolConserved,
       Held, Listing, Answered,
       storeVars, poolVars, callVars
  <2>p. PoolConserved'
    BY <1>1, <1>t DEF ListStart, TypeOK, PoolConserved,
       Held, Listing, Answered,
       storeVars, poolVars, callVars
  <2>1. TypeOK' /\ PoolConserved'
    BY <2>t, <2>p
  <2>2. StreamInv'
    BY <1>1, <1>t DEF ListStart, StreamInv, StreamExact, Unsent
  <2> QED
    BY <2>1, <2>2 DEF IInv
<1>2. CASE ListAcquire
  <2>t. TypeOK'
    BY <1>2, <1>t DEF ListAcquire, TypeOK, PoolConserved,
       Held, Listing, Answered,
       TakeConnection, storeVars, callVars
  <2>p. PoolConserved'
    BY <1>2, <1>t DEF ListAcquire, TypeOK, PoolConserved,
       Held, Listing, Answered,
       TakeConnection, storeVars, callVars
  <2>1. TypeOK' /\ PoolConserved'
    BY <2>t, <2>p
  <2>2. StreamInv'
    BY <1>2, <1>t DEF ListAcquire, StreamInv, StreamExact, Unsent
  <2> QED
    BY <2>1, <2>2 DEF IInv
<1>3. CASE ListFails
  <2>1. TypeOK' /\ PoolConserved'
    <3>1. CASE listPc = "acquire"
      BY <1>3, <3>1, <1>t DEF ListFails, TypeOK, PoolConserved, Held, Listing,
         Answered, storeVars, poolVars, callVars
    <3>2. CASE listPc = "keys"
      BY <1>3, <3>2, <1>t DEF ListFails, TypeOK, PoolConserved, Held, Listing,
         Answered, GiveBack, storeVars, callVars
    <3> QED
      BY <1>3, <3>1, <3>2 DEF ListFails
  <2>2. StreamInv'
    BY <1>3, <1>t DEF ListFails, StreamInv, StreamExact, Unsent
  <2> QED
    BY <2>1, <2>2 DEF IInv
<1>4. CASE ListKeys
  <2> DEFINE remaining == {h \in Hash : store[h] # 0}
  <2>1. TypeOK' /\ PoolConserved'
    <3>1. /\ Advance(remaining) /\ listPc = "keys" /\ UNCHANGED callVars
          /\ UNCHANGED <<store, changes, filter, limit, stream, taken, client>>
          /\ steady' = remaining
      BY <1>4 DEF ListKeys
    <3>2. /\ PoolConserved' /\ poolIdle' \in 0..PoolSize /\ lent' = lent
          /\ listPc' \in {"get", "ended"} /\ todo' \subseteq Hash
      BY <3>1, <1>t, AdvanceKeepsPool
    <3> QED
      BY <3>1, <3>2, <1>t DEF TypeOK, Listing, callVars
  <2>2. Advance(remaining) /\ limit' = limit /\ stream' = stream /\ stream = <<>>
    BY <1>4, <1>t DEF ListKeys, StreamInv
  <2>3. StreamExact' /\ \A h \in remaining : Unsent(h)'
    BY <2>2, <1>i DEF StreamExact, Unsent
  <2>4. StreamInv'
    BY <2>2, <2>3, <1>i, AdvanceKeepsStream
  <2> QED
    BY <2>1, <2>4 DEF IInv
<1>5. CASE ListGet
  <2>1. TypeOK' /\ PoolConserved'
    <3>1. /\ listPc = "get" /\ UNCHANGED callVars
          /\ UNCHANGED <<storeVars, filter, limit, stream, taken, client>>
      BY <1>5 DEF ListGet
    <3>2. /\ PoolConserved' /\ poolIdle' \in 0..PoolSize /\ lent' = lent
          /\ listPc' \in {"get", "send", "ended"} /\ todo' \subseteq Hash
      <4>1. CASE Wanted(current[1])
        BY <1>5, <4>1, <1>t DEF ListGet, TypeOK, PoolConserved, Held, poolVars,
           callVars
      <4>2. CASE ~ Wanted(current[1])
        <5>1. Advance(todo) /\ todo \in SUBSET Hash
          BY <1>5, <4>2, <1>t DEF ListGet, TypeOK
        <5> QED
          BY <3>1, <5>1, <1>t, AdvanceKeepsPool
      <4> QED
        BY <4>1, <4>2
    <3> QED
      BY <3>1, <3>2, <1>t DEF TypeOK, Listing, callVars, storeVars
  <2>2. CASE Wanted(current[1])
    <3>1. /\ current' = <<Snapshot(current[1])>> /\ listPc' = "send"
          /\ UNCHANGED <<todo, stream, filter, limit>>
      BY <1>5, <2>2 DEF ListGet
    <3>2. /\ current[1] \in Hash \ todo /\ Unsent(current[1])
          /\ \A h \in todo : Unsent(h)
          /\ limit > 0 => Len(stream) < limit
      BY <1>5, <1>t DEF ListGet, StreamInv
    <3>3. Snapshot(current[1]) \in Items /\ filter \in {0, Snapshot(current[1]).tier}
      BY <2>2, <3>2, <1>t DEF Wanted, Snapshot, Items, TypeOK
    <3>4. current'[1] = Snapshot(current[1]) /\ current'[1].hash = current[1]
      BY <3>1 DEF Snapshot
    <3>5. StreamExact'
      BY <3>1, <1>t DEF StreamExact
    <3> QED
      BY <2>1, <3>1, <3>2, <3>3, <3>4, <3>5 DEF IInv, StreamInv, Unsent
  <2>3. CASE ~ Wanted(current[1])
    <3>1. Advance(todo) /\ UNCHANGED <<stream, filter, limit>>
      BY <1>5, <2>3 DEF ListGet
    <3>2. StreamExact' /\ todo \in SUBSET Hash /\ \A h \in todo : Unsent(h)'
      BY <1>5, <3>1, <1>t DEF ListGet, StreamInv, StreamExact, Unsent, TypeOK
    <3>3. StreamInv'
      BY <3>1, <3>2, <1>i, AdvanceKeepsStream
    <3> QED
      BY <2>1, <3>3 DEF IInv
  <2> QED
    BY <2>2, <2>3
<1>6. CASE ListGetFails
  <2>1. TypeOK' /\ PoolConserved'
    <3>1. /\ Advance(todo) /\ listPc = "get" /\ UNCHANGED callVars
          /\ UNCHANGED <<store, changes, filter, limit, stream, taken, client>>
          /\ steady' \subseteq steady
      BY <1>6 DEF ListGetFails
    <3>2. /\ PoolConserved' /\ poolIdle' \in 0..PoolSize /\ lent' = lent
          /\ listPc' \in {"get", "ended"} /\ todo' \subseteq Hash
      BY <3>1, <1>t, AdvanceKeepsPool DEF TypeOK
    <3> QED
      BY <3>1, <3>2, <1>t DEF TypeOK, Listing, callVars
  <2>2. Advance(todo) /\ UNCHANGED <<stream, filter, limit>>
    BY <1>6 DEF ListGetFails
  <2>3. StreamExact' /\ todo \in SUBSET Hash /\ \A h \in todo : Unsent(h)'
    BY <1>6, <2>2, <1>t DEF ListGetFails, StreamInv, StreamExact, Unsent, TypeOK
  <2>4. StreamInv'
    BY <2>2, <2>3, <1>i, AdvanceKeepsStream
  <2> QED
    BY <2>1, <2>4 DEF IInv
<1>7. CASE ListSend
  <2> DEFINE item == current[1]
  <2>1. /\ item \in Items /\ item.hash \notin todo /\ Unsent(item.hash)
        /\ filter \in {0, item.tier}
        /\ \A h \in todo : Unsent(h)
        /\ limit > 0 => Len(stream) < limit
    BY <1>7, <1>t DEF ListSend, StreamInv
  <2>2. stream' = Append(stream, item) /\ Advance(todo) /\ UNCHANGED <<filter, limit>>
    BY <1>7 DEF ListSend
  <2>3. /\ stream' \in Seq(Items) /\ Len(stream') = Len(stream) + 1
        /\ DOMAIN stream' = 1..(Len(stream) + 1) /\ DOMAIN stream = 1..Len(stream)
        /\ \A j \in DOMAIN stream : stream'[j] = stream[j]
        /\ stream'[Len(stream) + 1] = item
    BY <2>1, <2>2, <1>i
  <2>4. StreamExact'
    BY <2>1, <2>2, <2>3, <1>t, <1>i DEF StreamExact, Unsent
  <2>5. todo \in SUBSET Hash /\ \A h \in todo : Unsent(h)'
    BY <2>1, <2>3, <1>t, <1>i DEF Unsent, TypeOK
  <2>6. StreamInv'
    BY <2>2, <2>3, <2>4, <2>5, <1>i, AdvanceKeepsStream
  <2>7. TypeOK' /\ PoolConserved'
    <3>1. /\ listPc = "send" /\ UNCHANGED <<storeVars, callVars>>
          /\ UNCHANGED <<filter, limit, taken, client>>
      BY <1>7 DEF ListSend
    <3>2. /\ PoolConserved' /\ poolIdle' \in 0..PoolSize /\ lent' = lent
          /\ listPc' \in {"get", "ended"} /\ todo' \subseteq Hash
      BY <3>1, <2>2, <2>5, <1>t, AdvanceKeepsPool
    <3>3. taken' \in 0..Len(stream')
      BY <3>1, <2>3, <1>t, <1>i DEF TypeOK
    <3> QED
      BY <3>1, <3>2, <3>3, <2>2, <2>3, <1>t DEF TypeOK, Items, Listing, callVars,
         storeVars
  <2> QED
    BY <2>6, <2>7 DEF IInv
<1>8. CASE ListHangUp
  <2>t. TypeOK'
    BY <1>8, <1>t DEF ListHangUp, TypeOK, PoolConserved,
       Held, Listing, Answered,
       GiveBack, storeVars, callVars
  <2>p. PoolConserved'
    BY <1>8, <1>t DEF ListHangUp, TypeOK, PoolConserved,
       Held, Listing, Answered,
       GiveBack, storeVars, callVars
  <2>1. TypeOK' /\ PoolConserved'
    BY <2>t, <2>p
  <2>2. StreamInv'
    BY <1>8, <1>t DEF ListHangUp, StreamInv, StreamExact, Unsent
  <2> QED
    BY <2>1, <2>2 DEF IInv
<1>9. CASE Receive
  <2>t. TypeOK'
    BY <1>9, <1>t DEF Receive, TypeOK, PoolConserved,
       Held, Listing, Answered,
       storeVars, poolVars, callVars
  <2>p. PoolConserved'
    BY <1>9, <1>t DEF Receive, TypeOK, PoolConserved,
       Held, Listing, Answered,
       storeVars, poolVars, callVars
  <2>1. TypeOK' /\ PoolConserved'
    BY <2>t, <2>p
  <2>2. StreamInv'
    BY <1>9, <1>t DEF Receive, StreamInv, StreamExact, Unsent
  <2> QED
    BY <2>1, <2>2 DEF IInv
<1>10. CASE Leave
  <2>t. TypeOK'
    BY <1>10, <1>t DEF Leave, TypeOK, PoolConserved,
       Held, Listing, Answered,
       storeVars, poolVars, callVars
  <2>p. PoolConserved'
    BY <1>10, <1>t DEF Leave, TypeOK, PoolConserved,
       Held, Listing, Answered,
       storeVars, poolVars, callVars
  <2>1. TypeOK' /\ PoolConserved'
    BY <2>t, <2>p
  <2>2. StreamInv'
    BY <1>10, <1>t DEF Leave, StreamInv, StreamExact, Unsent
  <2> QED
    BY <2>1, <2>2 DEF IInv
<1>11. CASE GetStart
  <2>t. TypeOK'
    BY <1>11, <1>t DEF GetStart, TypeOK, PoolConserved,
       Held, Listing, Answered,
       storeVars, poolVars, listVars
  <2>p. PoolConserved'
    BY <1>11, <1>t DEF GetStart, TypeOK, PoolConserved,
       Held, Listing, Answered,
       storeVars, poolVars, listVars
  <2>1. TypeOK' /\ PoolConserved'
    BY <2>t, <2>p
  <2>2. UNCHANGED listVars
    BY <1>11 DEF GetStart, listVars
  <2> QED
    BY <2>1, <2>2, <1>t, StreamUntouched DEF IInv
<1>12. CASE GetAcquire
  <2>t. TypeOK'
    BY <1>12, <1>t DEF GetAcquire, TypeOK, PoolConserved,
       Held, Listing, Answered,
       TakeConnection, storeVars, listVars
  <2>p. PoolConserved'
    BY <1>12, <1>t DEF GetAcquire, TypeOK, PoolConserved,
       Held, Listing, Answered,
       TakeConnection, storeVars, listVars
  <2>1. TypeOK' /\ PoolConserved'
    BY <2>t, <2>p
  <2>2. UNCHANGED listVars
    BY <1>12 DEF GetAcquire, listVars
  <2> QED
    BY <2>1, <2>2, <1>t, StreamUntouched DEF IInv
<1>13. CASE GetEnd
  <2>t. TypeOK'
    BY <1>13, <1>t DEF GetEnd, TypeOK, PoolConserved,
       Held, Listing, Answered,
       GiveBack, storeVars, poolVars, listVars
  <2>p. PoolConserved'
    BY <1>13, <1>t DEF GetEnd, TypeOK, PoolConserved,
       Held, Listing, Answered,
       GiveBack, storeVars, poolVars, listVars
  <2>1. TypeOK' /\ PoolConserved'
    BY <2>t, <2>p
  <2>2. UNCHANGED listVars
    BY <1>13 DEF GetEnd, listVars
  <2> QED
    BY <2>1, <2>2, <1>t, StreamUntouched DEF IInv
<1>14. CASE HealthStart
  <2>t. TypeOK'
    BY <1>14, <1>t DEF HealthStart, TypeOK, PoolConserved,
       Held, Listing, Answered,
       storeVars, poolVars, listVars
  <2>p. PoolConserved'
    BY <1>14, <1>t DEF HealthStart, TypeOK, PoolConserved,
       Held, Listing, Answered,
       storeVars, poolVars, listVars
  <2>1. TypeOK' /\ PoolConserved'
    BY <2>t, <2>p
  <2>2. UNCHANGED listVars
    BY <1>14 DEF HealthStart, listVars
  <2> QED
    BY <2>1, <2>2, <1>t, StreamUntouched DEF IInv
<1>15. CASE HealthAcquire
  <2>t. TypeOK'
    BY <1>15, <1>t DEF HealthAcquire, TypeOK, PoolConserved,
       Held, Listing, Answered,
       TakeConnection, storeVars, listVars
  <2>p. PoolConserved'
    BY <1>15, <1>t DEF HealthAcquire, TypeOK, PoolConserved,
       Held, Listing, Answered,
       TakeConnection, storeVars, listVars
  <2>1. TypeOK' /\ PoolConserved'
    BY <2>t, <2>p
  <2>2. UNCHANGED listVars
    BY <1>15 DEF HealthAcquire, listVars
  <2> QED
    BY <2>1, <2>2, <1>t, StreamUntouched DEF IInv
<1>16. CASE HealthPing
  <2>1. TypeOK' /\ PoolConserved'
    <3>1. CASE healthPc = "acquire"
      BY <1>16, <3>1, <1>t DEF HealthPing, TypeOK, PoolConserved, Held, Listing,
         Answered, storeVars, poolVars, listVars
    <3>2. CASE healthPc = "ping"
      BY <1>16, <3>2, <1>t DEF HealthPing, TypeOK, PoolConserved, Held, Listing,
         Answered, GiveBack, storeVars, listVars
    <3> QED
      BY <1>16, <3>1, <3>2 DEF HealthPing
  <2>2. UNCHANGED listVars
    BY <1>16 DEF HealthPing, listVars
  <2> QED
    BY <2>1, <2>2, <1>t, StreamUntouched DEF IInv
<1>17. CASE HealthEnd
  <2>t. TypeOK'
    BY <1>17, <1>t DEF HealthEnd, TypeOK, PoolConserved,
       Held, Listing, Answered,
       HealthStatus, storeVars, poolVars, listVars
  <2>p. PoolConserved'
    BY <1>17, <1>t DEF HealthEnd, TypeOK, PoolConserved,
       Held, Listing, Answered,
       HealthStatus, storeVars, poolVars, listVars
  <2>1. TypeOK' /\ PoolConserved'
    BY <2>t, <2>p
  <2>2. UNCHANGED listVars
    BY <1>17 DEF HealthEnd, listVars
  <2> QED
    BY <2>1, <2>2, <1>t, StreamUntouched DEF IInv
<1>18. CASE HealthDropped
  <2>1. TypeOK' /\ PoolConserved'
    <3>1. CASE healthPc = "ping"
      BY <1>18, <3>1, <1>t DEF HealthDropped, GiveBack, TypeOK, PoolConserved,
         Held, Listing, Answered, storeVars, listVars
    <3>2. CASE healthPc # "ping"
      BY <1>18, <3>2, <1>t DEF HealthDropped, TypeOK, PoolConserved, Held,
         Listing, Answered, storeVars, poolVars, listVars
    <3> QED
      BY <3>1, <3>2
  <2>2. UNCHANGED listVars
    BY <1>18 DEF HealthDropped, listVars
  <2> QED
    BY <2>1, <2>2, <1>t, StreamUntouched DEF IInv
<1>19. CASE Borrow
  <2>t. TypeOK'
    BY <1>19, <1>t DEF Borrow, TypeOK, PoolConserved,
       Held, Listing, Answered,
       storeVars, listVars, callVars
  <2>p. PoolConserved'
    BY <1>19, <1>t DEF Borrow, TypeOK, PoolConserved,
       Held, Listing, Answered,
       storeVars, listVars, callVars
  <2>1. TypeOK' /\ PoolConserved'
    BY <2>t, <2>p
  <2>2. UNCHANGED listVars
    BY <1>19 DEF Borrow, listVars
  <2> QED
    BY <2>1, <2>2, <1>t, StreamUntouched DEF IInv
<1>20. CASE Return
  <2>t. TypeOK'
    BY <1>20, <1>t DEF Return, TypeOK, PoolConserved,
       Held, Listing, Answered,
       storeVars, listVars, callVars
  <2>p. PoolConserved'
    BY <1>20, <1>t DEF Return, TypeOK, PoolConserved,
       Held, Listing, Answered,
       storeVars, listVars, callVars
  <2>1. TypeOK' /\ PoolConserved'
    BY <2>t, <2>p
  <2>2. UNCHANGED listVars
    BY <1>20 DEF Return, listVars
  <2> QED
    BY <2>1, <2>2, <1>t, StreamUntouched DEF IInv
<1>21. ASSUME NEW h \in Hash, Change(h) PROVE IInv'
  <2>t. TypeOK'
    BY <1>21, <1>t DEF Change, TypeOK, PoolConserved,
       Held, Listing, Answered,
       poolVars, listVars, callVars
  <2>p. PoolConserved'
    BY <1>21, <1>t DEF Change, TypeOK, PoolConserved,
       Held, Listing, Answered,
       poolVars, listVars, callVars
  <2>1. TypeOK' /\ PoolConserved'
    BY <2>t, <2>p
  <2>2. UNCHANGED listVars
    BY <1>21 DEF Change
  <2> QED
    BY <2>1, <2>2, <1>t, StreamUntouched DEF IInv
<1>22. CASE UNCHANGED vars
  <2>t. TypeOK'
    BY <1>22, <1>t DEF vars, TypeOK, PoolConserved,
       Held, Listing, Answered,
       storeVars, poolVars, listVars, callVars
  <2>p. PoolConserved'
    BY <1>22, <1>t DEF vars, TypeOK, PoolConserved,
       Held, Listing, Answered,
       storeVars, poolVars, listVars, callVars
  <2>1. TypeOK' /\ PoolConserved'
    BY <2>t, <2>p
  <2>2. UNCHANGED listVars
    BY <1>22 DEF vars
  <2> QED
    BY <2>1, <2>2, <1>t, StreamUntouched DEF IInv
<1> QED
  BY <1>1, <1>2, <1>3, <1>4, <1>5, <1>6, <1>7, <1>8, <1>9, <1>10, <1>11, <1>12, <1>13, <1>14, <1>15, <1>16, <1>17, <1>18, <1>19, <1>20, <1>21, <1>22
  DEF Next, ListStep

LEMMA Invariant == Spec => []IInv
<1>1. Init => IInv
  BY InitInv
<1>2. IInv /\ [Next]_vars => IInv'
  BY StepInv
<1> QED
  BY <1>1, <1>2, PTL DEF Spec

\* Every variable of the admin calls keeps its type, for any number of
\* sessions and connections; no count of connections leaves the pool's range.
THEOREM AdminTypeCorrect == Spec => []TypeOK
<1>1. IInv => TypeOK
  BY DEF IInv
<1> QED
  BY <1>1, Invariant, PTL

\* Whatever ends a call or the streaming task of list_sessions, its connection
\* goes back exactly once.
THEOREM AdminPoolIsConserved == Spec => []PoolConserved
<1>1. IInv => PoolConserved
  BY DEF IInv
<1> QED
  BY <1>1, Invariant, PTL

\* A stream of list_sessions keeps to its limit and its filter and names no
\* session twice, whatever happens to the records while it runs.
THEOREM StreamsAreExact == Spec => []StreamExact
<1>1. IInv => StreamExact
  BY DEF IInv, StreamInv
<1> QED
  BY <1>1, Invariant, PTL
-----------------------------------------------------------------------------
\* A session that has been listed, or need not be.
Listed(h) == ~ Wanted(h) \/ \E k \in DOMAIN stream : stream[k] = Snapshot(h)

\* Where a steady session is: still to be looked at, in hand, or listed.
SteadyInv ==
    /\ listPc \in {"idle", "acquire", "keys", "failed"} => steady = {}
    /\ listPc = "get" =>
         \A h \in steady : h \in todo \/ h = current[1] \/ Listed(h)
    /\ listPc = "send" =>
         \A h \in steady : h \in todo \/ Snapshot(h) = current[1] \/ Listed(h)
    /\ listPc = "ended" =>
         \/ client = "gone"
         \/ limit > 0 /\ Len(stream) >= limit
         \/ \A h \in steady : Listed(h)

\* The head of the loop keeps it when what remains is all that is not listed.
LEMMA AdvanceKeepsSteady ==
  ASSUME NEW remaining \in SUBSET Hash, Advance(remaining), limit' = limit,
         \A h \in steady' : h \in remaining \/ Listed(h)'
  PROVE  SteadyInv'
<1>1. CASE listPc' = "ended"
  <2>1. remaining = {} \/ (limit' > 0 /\ Len(stream') >= limit')
    BY <1>1 DEF Advance, Full
  <2> QED
    BY <1>1, <2>1 DEF SteadyInv
<1>2. CASE listPc' # "ended"
  <2>1. PICK h \in remaining : current' = <<h>> /\ todo' = remaining \ {h}
    BY <1>2 DEF Advance
  <2>2. listPc' = "get" /\ current'[1] = h
    BY <1>2, <2>1 DEF Advance
  <2> QED
    BY <2>1, <2>2 DEF SteadyInv
<1> QED
  BY <1>1, <1>2

LEMMA SteadyUntouched ==
  SteadyInv /\ UNCHANGED <<store, steady, listVars>> => SteadyInv'
  BY DEF SteadyInv, Listed, Wanted, Snapshot, listVars

LEMMA SteadyStep == IInv /\ SteadyInv /\ [Next]_vars => SteadyInv'
<1> SUFFICES ASSUME IInv, SteadyInv, [Next]_vars PROVE SteadyInv'
  OBVIOUS
<1>t. TypeOK /\ StreamInv /\ stream \in Seq(Items)
  BY DEF IInv, TypeOK, Items
<1>1. CASE ListStart
  BY <1>1 DEF ListStart, SteadyInv, storeVars
<1>2. CASE ListAcquire
  BY <1>2 DEF ListAcquire, SteadyInv, storeVars
<1>3. CASE ListFails
  BY <1>3 DEF ListFails, SteadyInv, storeVars
<1>4. CASE ListKeys
  <2> DEFINE remaining == {h \in Hash : store[h] # 0}
  <2>1. Advance(remaining) /\ limit' = limit /\ steady' = remaining
    BY <1>4 DEF ListKeys
  <2> QED
    BY <2>1, AdvanceKeepsSteady
<1>5. CASE ListGet
  <2>1. /\ UNCHANGED <<store, steady, stream, filter, limit>> /\ listPc = "get"
        /\ \A h \in steady : h \in todo \/ h = current[1] \/ Listed(h)
    BY <1>5 DEF ListGet, SteadyInv, storeVars
  <2>2. \A h \in steady : Listed(h)' <=> Listed(h)
    BY <2>1 DEF Listed, Wanted, Snapshot
  <2>3. CASE Wanted(current[1])
    <3>1. /\ current' = <<Snapshot(current[1])>> /\ listPc' = "send" /\ todo' = todo
      BY <1>5, <2>3 DEF ListGet
    <3>2. \A h \in steady' : h \in todo' \/ Snapshot(h)' = current'[1] \/ Listed(h)'
      BY <2>1, <2>2, <3>1 DEF Snapshot
    <3> QED
      BY <3>1, <3>2 DEF SteadyInv
  <2>4. CASE ~ Wanted(current[1])
    <3>1. Advance(todo) /\ limit' = limit /\ todo \in SUBSET Hash
      BY <1>5, <2>4, <1>t DEF ListGet, TypeOK
    <3>2. \A h \in steady' : h \in todo \/ Listed(h)'
      BY <2>1, <2>2, <2>4 DEF Listed
    <3> QED
      BY <3>1, <3>2, AdvanceKeepsSteady
  <2> QED
    BY <2>3, <2>4
<1>6. CASE ListGetFails
  <2>1. /\ UNCHANGED <<store, stream, filter, limit>> /\ listPc = "get"
        /\ steady' = steady \ {current[1]} /\ Advance(todo)
        /\ \A h \in steady : h \in todo \/ h = current[1] \/ Listed(h)
    BY <1>6 DEF ListGetFails, SteadyInv
  <2>2. \A h \in steady' : h \in todo \/ Listed(h)'
    BY <2>1 DEF Listed, Wanted, Snapshot
  <2>3. todo \in SUBSET Hash
    BY <1>t DEF TypeOK
  <2> QED
    BY <2>1, <2>2, <2>3, AdvanceKeepsSteady
<1>7. CASE ListSend
  <2>1. /\ UNCHANGED <<store, steady, filter, limit>> /\ Advance(todo)
        /\ stream' = Append(stream, current[1])
        /\ \A h \in steady : h \in todo \/ Snapshot(h) = current[1] \/ Listed(h)
    BY <1>7 DEF ListSend, SteadyInv, storeVars
  <2>2. current[1] \in Items /\ todo \in SUBSET Hash
    BY <1>7, <1>t DEF ListSend, StreamInv, TypeOK
  <2>3. /\ DOMAIN stream \subseteq DOMAIN stream'
        /\ \A k \in DOMAIN stream : stream'[k] = stream[k]
        /\ Len(stream) + 1 \in DOMAIN stream'
        /\ stream'[Len(stream) + 1] = current[1]
    BY <2>1, <2>2, <1>t
  <2>4. \A h \in steady : Snapshot(h)' = Snapshot(h) /\ (Wanted(h)' <=> Wanted(h))
    BY <2>1 DEF Snapshot, Wanted
  <2>5. \A h \in steady' : h \in todo \/ Listed(h)'
    BY <2>1, <2>3, <2>4 DEF Listed
  <2> QED
    BY <2>1, <2>2, <2>5, AdvanceKeepsSteady
<1>8. CASE ListHangUp
  BY <1>8 DEF ListHangUp, SteadyInv, storeVars
<1>9. CASE Receive
  BY <1>9 DEF Receive, SteadyInv, Listed, Wanted, Snapshot, storeVars
<1>10. CASE Leave
  BY <1>10 DEF Leave, SteadyInv, Listed, Wanted, Snapshot, storeVars
<1>11. ASSUME NEW h \in Hash, Change(h) PROVE SteadyInv'
  <2>1. UNCHANGED listVars /\ steady' = steady \ {h} /\ store \in [Hash -> {0} \cup Tiers]
    BY <1>11, <1>t DEF Change, TypeOK
  <2>2. \A g \in steady' : /\ Snapshot(g)' = Snapshot(g)
                           /\ Wanted(g)' <=> Wanted(g)
    BY <1>11, <2>1, <1>t DEF Change, Snapshot, Wanted, listVars, TypeOK
  <2>3. \A g \in steady' : Listed(g)' <=> Listed(g)
    BY <2>1, <2>2 DEF Listed, listVars
  <2> QED
    BY <2>1, <2>2, <2>3 DEF SteadyInv, listVars
<1>12. CASE UNCHANGED <<store, steady, listVars>>
  BY <1>12, SteadyUntouched
<1>13. CASE GetStart \/ GetAcquire \/ GetEnd \/ HealthStart \/ HealthAcquire
            \/ HealthPing \/ HealthEnd \/ HealthDropped \/ Borrow \/ Return
            \/ UNCHANGED vars
  BY <1>12, <1>13 DEF GetStart, GetAcquire, GetEnd, HealthStart, HealthAcquire,
     HealthPing, HealthEnd, HealthDropped, Borrow, Return, vars, storeVars
<1> QED
  BY <1>1, <1>2, <1>3, <1>4, <1>5, <1>6, <1>7, <1>8, <1>9, <1>10, <1>11, <1>13
  DEF Next, ListStep

\* A stream that closed below its limit, with its client there, has every
\* session that the filter accepts, did not change while the task ran and could
\* be read: the loop drops none between KEYS and the close.
THEOREM SteadyAreListed == Spec => []SteadySessionsListed
<1>1. Init => SteadyInv
  BY DEF Init, SteadyInv
<1>2. IInv /\ SteadyInv => SteadySessionsListed
  <2> SUFFICES ASSUME IInv, SteadyInv, listPc = "ended", client = "reading",
                      limit > 0 => Len(stream) < limit,
                      NEW h \in steady, Wanted(h)
               PROVE  \E k \in DOMAIN stream : stream[k] = Snapshot(h)
    BY DEF SteadySessionsListed
  <2>1. limit \in Int /\ Len(stream) \in Nat
    BY AdminAssumption DEF IInv, TypeOK
  <2> QED
    BY <2>1 DEF SteadyInv, Listed
<1> QED
  BY <1>1, <1>2, SteadyStep, Invariant, PTL DEF Spec
=============================================================================
