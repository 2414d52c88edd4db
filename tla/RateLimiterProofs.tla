-------------------------- MODULE RateLimiterProofs --------------------------
(***************************************************************************)
(* For any number of goroutines, addresses and entries, the limiter keeps  *)
(* its types and one limiter per address, and implements TokenBucket: over *)
(* any span of time it passes at most a burst, what the rate brings, and   *)
(* what it brings once more during the delays of the requests it decided   *)
(* late; and it refuses nobody who had not used up what there was when the *)
(* request read the clock.                                                 *)
(*                                                                         *)
(* The heart of it is how far an entry's lastSeen can lag behind the time  *)
(* of the last token taken from it: by one stall of a racing goroutine     *)
(* that stores an old time, and one of the goroutine that is about to read *)
(* the clock; a decision comes yet another stall later.  The idle timeout  *)
(* covers all three, and what remains beyond two of them refills the       *)
(* bucket.                                                                 *)
(***************************************************************************)
EXTENDS RateLimiter, TLAPS

\* A goroutine in getLimiter or Allow works on the entry of its address.
Fresh(g) ==
    /\ pc[g] \notin Verdicts => addr[g] \in Address
    /\ pc[g] \in Busy =>
         /\ held[g] \in Limiter
         /\ held[g] = limiters[addr[g]]
         /\ since[g] <= clock
         /\ clock <= since[g] + MaxStall
    /\ pc[g] = "allow" => since[g] <= entry[held[g]].lastSeen + MaxStall
    /\ pc[g] = "deciding" => since[g] <= entry[held[g]].lastSeen + 2 * MaxStall

\* An entry lies in the past, and has been seen at most two stalls before its
\* last token's time.
Seen(l) ==
    /\ entry[l].last <= clock
    /\ entry[l].lastSeen <= clock
    /\ entry[l].last <= entry[l].lastSeen + 2 * MaxStall

Distinct ==
    \A a, b \in Address : limiters[a] = limiters[b] /\ limiters[a] # NULL => a = b

IInv ==
    /\ TypeOK
    /\ cutoff # NULL => cutoff + IdleTimeout <= clock
    /\ Distinct
    /\ \A g \in Goroutine : Fresh(g)
    /\ \A l \in Limiter : Seen(l)
-----------------------------------------------------------------------------
\* Time refills a bucket: products with Rate respect order and sums.
LEMMA RateMonotone ==
    ASSUME NEW x \in Int, NEW y \in Int, x <= y
    PROVE  Rate * x <= Rate * y /\ Rate * x \in Int /\ Rate * y \in Int
<1>1. Rate \in Nat
  BY LimiterAssumption DEF LimiterAssumption
<1> QED
  BY <1>1

LEMMA RateStep ==
    ASSUME NEW x \in Int
    PROVE  Rate * (x + 1) = Rate * x + Rate /\ Rate * x \in Int
<1>1. Rate \in Nat
  BY LimiterAssumption DEF LimiterAssumption
<1> QED
  BY <1>1

LEMMA RateSum ==
    ASSUME NEW x \in Int, NEW y \in Int
    PROVE  Rate * (x + y) = Rate * x + Rate * y
<1>1. Rate \in Nat
  BY LimiterAssumption DEF LimiterAssumption
<1> QED
  BY <1>1

\* What an entry holds at a time is a number of tokens.
LEMMA TokensType ==
    ASSUME NEW e \in Entry, NEW time \in Nat
    PROVE  Tokens(e, time) \in 0..Burst
<1>1. /\ e.tokens \in 0..Burst /\ e.last \in Nat
      /\ Rate \in Nat /\ Burst \in Nat
  BY LimiterAssumption DEF Entry, LimiterAssumption
<1>2. Elapsed(e, time) \in Nat
  BY <1>1 DEF Elapsed
<1>3. Rate * 0 <= Rate * Elapsed(e, time) /\ Rate * Elapsed(e, time) \in Int
  BY <1>2, RateMonotone
<1>4. Rate * 0 = 0
  BY <1>1
<1> QED
  BY <1>1, <1>3, <1>4 DEF Tokens, Refilled

\* It holds less at an earlier time, by at most what the time between brings.
LEMMA TokensLater ==
    ASSUME NEW e \in Entry, NEW now \in Nat, NEW time \in Nat,
           time <= now, e.last <= now
    PROVE  /\ Tokens(e, time) <= Tokens(e, now)
           /\ Tokens(e, time) = 0 => Tokens(e, now) <= Rate * (now - time)
<1>1. /\ e.tokens \in 0..Burst /\ e.last \in Nat
      /\ Rate \in Nat \ {0} /\ Burst \in Nat
  BY LimiterAssumption DEF Entry, LimiterAssumption
<1> DEFINE before == Elapsed(e, time)
           after == Elapsed(e, now)
           gap == now - time
<1>2. /\ before \in Nat /\ after \in Nat /\ gap \in Nat
      /\ before <= after /\ after <= before + gap
  BY <1>1 DEF Elapsed
<1> HIDE DEF before, after, gap
<1>3. /\ Rate * before <= Rate * after /\ Rate * after <= Rate * (before + gap)
      /\ Rate * 0 <= Rate * before /\ Rate * (before + gap) \in Int
      /\ Rate * before \in Int /\ Rate * after \in Int /\ Rate * gap \in Int
  BY <1>2, RateMonotone
<1>4. Rate * (before + gap) = Rate * before + Rate * gap /\ Rate * 0 = 0
  BY <1>1, <1>2, RateSum
<1>5. /\ Refilled(e, time) = e.tokens + Rate * before
      /\ Refilled(e, now) = e.tokens + Rate * after
  BY DEF Refilled, before, after
<1>6. Tokens(e, time) <= Tokens(e, now)
  BY <1>1, <1>3, <1>5 DEF Tokens
<1>7. Tokens(e, time) = 0 => Tokens(e, now) <= Rate * gap
  BY <1>1, <1>3, <1>4, <1>5 DEF Tokens
<1> QED
  BY <1>6, <1>7 DEF gap

\* After a token was taken at a time, at least one less is there now than would
\* have been, and at most what the time since then brings on top of that.
LEMMA TokensTaken ==
    ASSUME NEW e \in Entry, NEW f \in Entry, NEW now \in Nat, NEW time \in Nat,
           time <= now, e.last <= now, Tokens(e, time) > 0,
           f.tokens = Tokens(e, time) - 1, f.last = time
    PROVE  /\ Tokens(f, now) >= Tokens(e, now) - 1
           /\ Tokens(f, now) <= Buckets!Filled(Tokens(e, now) - 1 + Rate * (now - time))
<1>1. /\ e.tokens \in 0..Burst /\ e.last \in Nat
      /\ Rate \in Nat \ {0} /\ Burst \in Nat \ {0}
  BY LimiterAssumption DEF Entry, LimiterAssumption
<1> DEFINE before == Elapsed(e, time)
           after == Elapsed(e, now)
           gap == now - time
<1>2. /\ before \in Nat /\ after \in Nat /\ gap \in Nat
      /\ before <= after /\ after <= before + gap
  BY <1>1 DEF Elapsed
<1>3. Elapsed(f, now) = gap
  BY DEF Elapsed
<1> HIDE DEF before, after, gap
<1>4. /\ Rate * before <= Rate * after /\ Rate * after <= Rate * (before + gap)
      /\ Rate * 0 <= Rate * before /\ Rate * (before + gap) \in Int
      /\ Rate * before \in Int /\ Rate * after \in Int /\ Rate * gap \in Int
      /\ Rate * 0 <= Rate * gap
  BY <1>2, RateMonotone
<1>5. Rate * (before + gap) = Rate * before + Rate * gap /\ Rate * 0 = 0
  BY <1>1, <1>2, RateSum
<1>6. /\ Refilled(e, time) = e.tokens + Rate * before
      /\ Refilled(e, now) = e.tokens + Rate * after
      /\ Refilled(f, now) = Tokens(e, time) - 1 + Rate * gap
  BY <1>3 DEF Refilled, before, after
<1>7. Tokens(e, time) \in 0..Burst
  BY TokensType
<1>8. Tokens(f, now) >= Tokens(e, now) - 1
  BY <1>1, <1>4, <1>5, <1>6, <1>7 DEF Tokens
<1>9. Tokens(e, time) <= Tokens(e, now)
  BY TokensLater
<1>10. Tokens(e, now) \in 0..Burst
  BY TokensType
<1>11. Tokens(f, now) <= Buckets!Filled(Tokens(e, now) - 1 + Rate * gap)
  <2>1. Tokens(f, now) = IF Tokens(e, time) - 1 + Rate * gap > Burst THEN Burst
                         ELSE Tokens(e, time) - 1 + Rate * gap
    BY <1>6 DEF Tokens
  <2> QED
    BY <1>1, <1>4, <1>7, <1>9, <1>10, <2>1 DEF Buckets!Filled
<1> QED
  BY <1>8, <1>11 DEF gap

\* Taking a token leaves an entry whose lastSeen nobody touched.
LEMMA TakenType ==
    ASSUME NEW e \in Entry, NEW k \in 0..Burst, NEW t \in Nat
    PROVE  /\ [e EXCEPT !.tokens = k, !.last = t] \in Entry
           /\ [e EXCEPT !.tokens = k, !.last = t].lastSeen = e.lastSeen
<1>1. /\ [e EXCEPT !.tokens = k] \in Entry
      /\ [e EXCEPT !.tokens = k].tokens = k
      /\ [e EXCEPT !.tokens = k].lastSeen = e.lastSeen
  BY DEF Entry
<1> QED
  BY <1>1 DEF Entry

-----------------------------------------------------------------------------
(* The invariant is inductive: one lemma per action *)

LEMMA InitIInv == Init => IInv
<1> SUFFICES ASSUME Init PROVE IInv
  OBVIOUS
<1>1. TypeOK
  BY LimiterAssumption DEF LimiterAssumption, Init, TypeOK, Entry, Blank, PC, Verdicts
<1>2. \A l \in Limiter : Seen(l)
  BY LimiterAssumption DEF LimiterAssumption, Init, Seen, Blank
<1>3. (\A g \in Goroutine : Fresh(g)) /\ Distinct
  BY DEF Init, Fresh, Distinct, Busy, Verdicts
<1> QED
  BY <1>1, <1>2, <1>3 DEF IInv, Init

LEMMA FindIInv ==
    ASSUME IInv, NEW g \in Goroutine, NEW a \in Address, Find(g, a)
    PROVE  IInv'
<1> USE DEF IInv
<1>1. TypeOK'
  BY DEF Find, TypeOK, PC
<1>2. (\A l \in Limiter : Seen(l)') /\ Distinct'
  BY DEF Find, Seen, Distinct
<1>3. ASSUME NEW h \in Goroutine PROVE Fresh(h)'
  <2>1. CASE h = g
    BY <2>1, LimiterAssumption DEF LimiterAssumption, Find, Fresh, TypeOK, Busy
  <2>2. CASE h # g
    BY <2>2 DEF Find, Fresh, TypeOK
  <2> QED
    BY <2>1, <2>2
<1> QED
  BY <1>1, <1>2, <1>3 DEF Find

LEMMA MissIInv ==
    ASSUME IInv, NEW g \in Goroutine, NEW a \in Address, Miss(g, a)
    PROVE  IInv'
<1> USE DEF IInv
<1>1. TypeOK'
  BY DEF Miss, TypeOK, PC
<1>2. (\A l \in Limiter : Seen(l)') /\ Distinct'
  BY DEF Miss, Seen, Distinct
<1>3. ASSUME NEW h \in Goroutine PROVE Fresh(h)'
  BY DEF Miss, Fresh, TypeOK, Busy
<1> QED
  BY <1>1, <1>2, <1>3 DEF Miss

LEMMA CallLockIInv ==
    ASSUME IInv, NEW g \in Goroutine, CallLock(g) PROVE IInv'
<1> USE DEF IInv
<1>1. TypeOK'
  BY DEF CallLock, TypeOK, PC
<1>2. (\A l \in Limiter : Seen(l)') /\ Distinct'
  BY DEF CallLock, Seen, Distinct
<1>3. ASSUME NEW h \in Goroutine PROVE Fresh(h)'
  BY DEF CallLock, Fresh, TypeOK, Busy, Verdicts
<1> QED
  BY <1>1, <1>2, <1>3 DEF CallLock

\* Storing an old time: no older than one stall.
LEMMA StampIInv ==
    ASSUME IInv, NEW g \in Goroutine, Stamp(g) PROVE IInv'
<1> USE DEF IInv
<1>1. /\ held[g] \in Limiter /\ since[g] \in Nat /\ since[g] <= clock
      /\ clock <= since[g] + MaxStall /\ clock \in Nat /\ MaxStall \in Nat
  BY LimiterAssumption DEF LimiterAssumption, Stamp, Fresh, Busy, TypeOK
<1>2. entry' = [entry EXCEPT ![held[g]] = [@ EXCEPT !.lastSeen = since[g]]]
  BY DEF Stamp
<1>3. TypeOK'
  BY <1>1, <1>2 DEF Stamp, TypeOK, PC, Entry
<1>4. ASSUME NEW l \in Limiter PROVE Seen(l)'
  BY <1>1, <1>2 DEF Stamp, TypeOK, Seen, Entry
<1>5. ASSUME NEW h \in Goroutine PROVE Fresh(h)'
  <2>1. CASE h = g
    BY <1>1, <1>2, <2>1 DEF Stamp, Fresh, TypeOK, Busy, Verdicts, Entry
  <2>2. CASE h # g
    <3>1. pc[h] \in Busy => since[h] \in Nat /\ since[h] <= clock /\ held[h] \in Limiter
      BY DEF Fresh, TypeOK
    <3>2. /\ pc[h] = "allow" => since[h] <= entry'[held[h]].lastSeen + MaxStall
          /\ pc[h] = "deciding" => since[h] <= entry'[held[h]].lastSeen + 2 * MaxStall
      BY <1>1, <1>2, <3>1 DEF Fresh, TypeOK, Entry, Busy
    <3> QED
      BY <2>2, <3>2 DEF Stamp, Fresh, TypeOK
  <2> QED
    BY <2>1, <2>2
<1>6. Distinct'
  BY DEF Stamp, Distinct
<1> QED
  BY <1>3, <1>4, <1>5, <1>6 DEF Stamp

LEMMA InsertIInv ==
    ASSUME IInv, NEW g \in Goroutine, Insert(g) PROVE IInv'
<1> USE DEF IInv
<1> DEFINE fresh == CHOOSE l \in Unused : TRUE
           known == limiters[addr[g]]
<1>1. /\ clock \in Nat /\ MaxStall \in Nat /\ Burst \in Nat \ {0}
      /\ pc[g] = "waiting" /\ addr[g] \in Address /\ NULL \notin Limiter
  BY LimiterAssumption DEF LimiterAssumption, Insert, Fresh, TypeOK, Verdicts
<1>2. CASE known # NULL
  <2>1. /\ known \in Limiter /\ limiters' = limiters
        /\ held' = [held EXCEPT ![g] = known]
        /\ entry' = [entry EXCEPT ![known] = [@ EXCEPT !.lastSeen = clock]]
    BY <1>1, <1>2 DEF Insert, TypeOK
  <2>2. TypeOK'
    BY <1>1, <2>1 DEF Insert, TypeOK, PC, Entry
  <2>3. ASSUME NEW l \in Limiter PROVE Seen(l)'
    BY <1>1, <2>1 DEF Insert, TypeOK, Seen, Entry
  <2>4. ASSUME NEW h \in Goroutine PROVE Fresh(h)'
    <3>1. CASE h = g
      BY <1>1, <2>1, <3>1 DEF Insert, Fresh, TypeOK, Busy, Verdicts, Entry
    <3>2. CASE h # g
      <4>1. pc[h] \in Busy => since[h] \in Nat /\ since[h] <= clock /\ held[h] \in Limiter
        BY DEF Fresh, TypeOK
      <4>2. /\ pc[h] = "allow" => since[h] <= entry'[held[h]].lastSeen + MaxStall
            /\ pc[h] = "deciding" => since[h] <= entry'[held[h]].lastSeen + 2 * MaxStall
        BY <1>1, <2>1, <4>1 DEF Fresh, TypeOK, Entry, Busy
      <4> QED
        BY <2>1, <3>2, <4>2 DEF Insert, Fresh, TypeOK
    <3> QED
      BY <3>1, <3>2
  <2> QED
    BY <2>1, <2>2, <2>3, <2>4 DEF Insert, Distinct
<1>3. CASE known = NULL
  <2>1. /\ fresh \in Unused
        /\ limiters' = [limiters EXCEPT ![addr[g]] = fresh]
        /\ held' = [held EXCEPT ![g] = fresh]
        /\ entry' = [entry EXCEPT ![fresh] = NewEntry]
    BY <1>3 DEF Insert
  <2>2. /\ fresh \in Limiter
        /\ \A a \in Address : limiters[a] # fresh
        /\ \A h \in Goroutine : pc[h] \in Busy => held[h] # fresh
    BY <1>1, <2>1 DEF Unused, Entries, Held
  <2> HIDE DEF fresh
  <2>3. TypeOK'
    BY <1>1, <2>1, <2>2 DEF Insert, TypeOK, PC, Entry, NewEntry
  <2>4. ASSUME NEW l \in Limiter PROVE Seen(l)'
    BY <1>1, <2>1, <2>2 DEF Insert, TypeOK, Seen, NewEntry, Entry
  <2>5. Distinct'
    BY <1>1, <2>1, <2>2 DEF Distinct, TypeOK
  <2>6. ASSUME NEW h \in Goroutine PROVE Fresh(h)'
    <3>1. CASE h = g
      BY <1>1, <2>1, <2>2, <3>1 DEF Insert, Fresh, TypeOK, Busy, Verdicts, NewEntry
    <3>2. CASE h # g
      <4>1. pc[h] \in Busy => held[h] # fresh /\ held[h] \in Limiter /\ addr[h] # addr[g]
        BY <1>1, <1>3, <2>2 DEF Fresh
      <4> QED
        BY <2>1, <2>2, <3>2, <4>1 DEF Insert, Fresh, TypeOK, Busy
    <3> QED
      BY <3>1, <3>2
  <2> QED
    BY <2>3, <2>4, <2>5, <2>6 DEF Insert
<1> QED
  BY <1>2, <1>3

\* The clock is read again within a stall of lastSeen and the stall before.
LEMMA AllowIInv ==
    ASSUME IInv, NEW g \in Goroutine, Allow(g) PROVE IInv'
<1> USE DEF IInv
<1>1. /\ pc[g] = "allow" /\ held[g] \in Limiter /\ clock \in Nat /\ MaxStall \in Nat
      /\ since[g] \in Nat /\ clock <= since[g] + MaxStall
      /\ since[g] <= entry[held[g]].lastSeen + MaxStall
      /\ entry[held[g]].lastSeen \in Nat
  BY LimiterAssumption DEF LimiterAssumption, Allow, Fresh, Busy, TypeOK, Entry
<1>2. TypeOK'
  BY <1>1 DEF Allow, TypeOK, PC
<1>3. (\A l \in Limiter : Seen(l)') /\ Distinct'
  BY DEF Allow, Seen, Distinct
<1>4. ASSUME NEW h \in Goroutine PROVE Fresh(h)'
  <2>1. CASE h = g
    <3>1. /\ pc'[g] = "deciding" /\ since'[g] = clock
          /\ clock <= entry[held[g]].lastSeen + 2 * MaxStall
      BY <1>1 DEF Allow, TypeOK
    <3> QED
      BY <1>1, <2>1, <3>1 DEF Allow, Fresh, Busy, Verdicts
  <2>2. CASE h # g
    BY <2>2 DEF Allow, Fresh, TypeOK, Busy
  <2> QED
    BY <2>1, <2>2
<1> QED
  BY <1>2, <1>3, <1>4 DEF Allow

\* A token is taken for the time the goroutine read, which is within two stalls
\* of lastSeen.
LEMMA AllowNIInv ==
    ASSUME IInv, NEW g \in Goroutine, AllowN(g) PROVE IInv'
<1> USE DEF IInv
<1> DEFINE tokens == Tokens(entry[held[g]], since[g])
<1>1. /\ pc[g] = "deciding" /\ held[g] \in Limiter /\ clock \in Nat /\ MaxStall \in Nat
      /\ since[g] \in Nat /\ since[g] <= clock
      /\ since[g] <= entry[held[g]].lastSeen + 2 * MaxStall
      /\ entry[held[g]] \in Entry /\ Burst \in Nat
  BY LimiterAssumption DEF LimiterAssumption, AllowN, Fresh, Busy, TypeOK
<1>2. tokens \in 0..Burst
  BY <1>1, TokensType
<1>3. \/ /\ tokens > 0
         /\ entry' = [entry EXCEPT ![held[g]] = [@ EXCEPT !.tokens = tokens - 1,
                                                         !.last = since[g]]]
      \/ entry' = entry
  BY DEF AllowN
<1> HIDE DEF tokens
<1>4. entry' \in [Limiter -> Entry] /\ \A l \in Limiter : entry'[l].lastSeen = entry[l].lastSeen
  <2>1. entry \in [Limiter -> Entry]
    BY DEF TypeOK
  <2>2. CASE tokens > 0
    <3> DEFINE taken == [entry[held[g]] EXCEPT !.tokens = tokens - 1, !.last = since[g]]
    <3>1. tokens - 1 \in 0..Burst
      BY <1>1, <1>2, <2>2
    <3>2. taken \in Entry /\ taken.lastSeen = entry[held[g]].lastSeen
      BY <1>1, <3>1, TakenType
    <3>3. entry' = entry \/ entry' = [entry EXCEPT ![held[g]] = taken]
      BY <1>3
    <3> HIDE DEF taken
    <3> QED
      BY <1>1, <2>1, <3>2, <3>3
  <2>3. CASE entry' = entry
    BY <2>1, <2>3
  <2> QED
    BY <1>3, <2>2, <2>3
<1>5. TypeOK'
  BY <1>1, <1>4 DEF AllowN, TypeOK, PC, Verdicts
<1>6. ASSUME NEW l \in Limiter PROVE Seen(l)'
  BY <1>1, <1>2, <1>3 DEF AllowN, TypeOK, Seen, Entry
<1>7. ASSUME NEW h \in Goroutine PROVE Fresh(h)'
  <2>1. CASE h = g
    BY <1>1, <2>1 DEF AllowN, Fresh, TypeOK, Busy, Verdicts
  <2>2. CASE h # g
    BY <1>4, <2>2 DEF AllowN, Fresh, TypeOK, Busy
  <2> QED
    BY <2>1, <2>2
<1> QED
  BY <1>5, <1>6, <1>7 DEF AllowN, Distinct

\* An entry old enough to be evicted is in nobody's hands.
LEMMA EvictIInv == ASSUME IInv, Evict PROVE IInv'
<1> USE DEF IInv
<1>1. TypeOK'
  BY DEF Evict, goVars, TypeOK
<1>2. (\A l \in Limiter : Seen(l)') /\ Distinct'
  BY DEF Evict, Seen, Distinct, TypeOK
<1>3. ASSUME NEW h \in Goroutine PROVE Fresh(h)'
  <2>1. CASE pc[h] \in Busy
    <3>1. pc[h] \in {"allow", "deciding"}
      BY <2>1 DEF Evict, Readers, Busy
    <3>2. /\ held[h] \in Limiter /\ addr[h] \in Address /\ held[h] = limiters[addr[h]]
          /\ \/ since[h] <= entry[held[h]].lastSeen + MaxStall
             \/ since[h] <= entry[held[h]].lastSeen + 2 * MaxStall
          /\ clock <= since[h] + MaxStall
      BY <3>1 DEF Fresh, Busy, Verdicts
    <3>3. /\ since[h] \in Nat /\ clock \in Nat /\ MaxStall \in Nat
          /\ IdleTimeout \in Nat /\ IdleTimeout >= 3 * MaxStall
          /\ cutoff \in Int /\ cutoff + IdleTimeout <= clock
          /\ entry[held[h]].lastSeen \in Nat
      BY <3>2, LimiterAssumption DEF LimiterAssumption, TypeOK, Entry, Evict
    <3>4. ~ (entry[held[h]].lastSeen < cutoff)
      BY <3>2, <3>3
    <3>5. limiters'[addr[h]] = limiters[addr[h]]
      BY <3>2, <3>4 DEF Evict
    <3> QED
      BY <3>2, <3>5 DEF Evict, goVars, Fresh
  <2>2. CASE pc[h] \notin Busy
    BY <2>2 DEF Evict, goVars, Fresh, Busy
  <2> QED
    BY <2>1, <2>2
<1> QED
  BY <1>1, <1>2, <1>3 DEF Evict

LEMMA TimeIInv == ASSUME IInv, EvictCall \/ Tick \/ UNCHANGED vars PROVE IInv'
<1> USE DEF IInv
<1>1. CASE EvictCall
  <2>1. clock \in Nat /\ IdleTimeout \in Nat
    BY LimiterAssumption DEF LimiterAssumption, TypeOK
  <2> QED
    BY <1>1, <2>1 DEF EvictCall, goVars, TypeOK, Distinct, Seen, Fresh
<1>2. CASE Tick
  <2>1. TypeOK'
    BY <1>2 DEF Tick, goVars, TypeOK
  <2>2. (cutoff # NULL => cutoff + IdleTimeout <= clock)'
    BY <1>2, LimiterAssumption DEF LimiterAssumption, Tick, TypeOK
  <2>3. \A l \in Limiter : Seen(l)'
    BY <1>2 DEF Tick, Seen, TypeOK, Entry
  <2>4. \A g \in Goroutine : Fresh(g)'
    BY <1>2, LimiterAssumption DEF LimiterAssumption, Tick, goVars, Fresh, TypeOK
  <2> QED
    BY <1>2, <2>1, <2>2, <2>3, <2>4 DEF Tick, Distinct
<1>3. CASE UNCHANGED vars
  BY <1>3 DEF vars, goVars, TypeOK, Distinct, Seen, Fresh, Busy
<1> QED
  BY <1>1, <1>2, <1>3

LEMMA StepIInv == IInv /\ [Next]_vars => IInv'
  BY FindIInv, MissIInv, StampIInv, CallLockIInv, InsertIInv, AllowIInv,
     AllowNIInv, EvictIInv, TimeIInv DEF Next

\* The inductive invariant of the limiter.
THEOREM IInvInvariant == Spec => []IInv
  BY InitIInv, StepIInv, PTL DEF Spec

\* Types: no bucket ever holds more than a burst, and no clock reading, entry or
\* map slot leaves its range (ratelimit.go's RateLimiter and ipLimiter).
THEOREM LimiterTypeCorrect == Spec => []TypeOK
<1>1. IInv => TypeOK
  BY DEF IInv
<1> QED
  BY <1>1, IInvInvariant, PTL

\* getLimiter never hands out two limiters for one address, whatever misses,
\* evictions and racing stamps interleave.
THEOREM OneLimiter == Spec => []OneLimiterPerAddress
<1>1. IInv => OneLimiterPerAddress
  BY DEF IInv, Fresh, OneLimiterPerAddress
<1> QED
  BY <1>1, IInvInvariant, PTL

-----------------------------------------------------------------------------
(* The limiter implements one immortal bucket per address *)

\* An entry that is evicted has been refilled.
LEMMA EvictedIsFull ==
    ASSUME IInv, Evict, NEW l \in Limiter, entry[l].lastSeen < cutoff
    PROVE  Tokens(entry[l], clock) = Burst
<1> DEFINE e == entry[l]
           slack == IdleTimeout + 1 - 2 * MaxStall
<1>1. /\ e.tokens \in Nat /\ e.last \in Nat /\ e.lastSeen \in Nat
      /\ e.last <= e.lastSeen + 2 * MaxStall /\ e.last <= clock
      /\ clock \in Nat /\ cutoff \in Int /\ cutoff + IdleTimeout <= clock
  BY DEF IInv, TypeOK, Entry, Seen, Evict
<1>2. /\ IdleTimeout \in Nat /\ MaxStall \in Nat /\ Burst \in Nat
      /\ Rate * slack >= Burst
  BY LimiterAssumption DEF LimiterAssumption
<1>3. slack \in Int /\ Elapsed(e, clock) \in Int /\ slack <= Elapsed(e, clock)
  BY <1>1, <1>2 DEF Elapsed
<1> HIDE DEF slack
<1>4. /\ Rate * slack <= Rate * Elapsed(e, clock)
      /\ Rate * slack \in Int /\ Rate * Elapsed(e, clock) \in Int
  BY <1>3, RateMonotone
<1>5. Refilled(e, clock) >= Burst /\ Refilled(e, clock) \in Int
  BY <1>1, <1>2, <1>4 DEF Refilled
<1> QED
  BY <1>2, <1>5 DEF Tokens

\* A step that changes no entry's tokens leaves every level alone.
LEMMA SameLevel ==
    ASSUME TypeOK, clock' = clock, NEW a \in Address, limiters'[a] = limiters[a],
           limiters[a] # NULL => /\ entry'[limiters[a]].tokens = entry[limiters[a]].tokens
                                 /\ entry'[limiters[a]].last = entry[limiters[a]].last
    PROVE  Level(a)' = Level(a)
  BY DEF Level, Tokens, Refilled, Elapsed

LEMMA LevelType ==
    ASSUME IInv, NEW a \in Address PROVE Level(a) \in 0..Burst
<1>1. CASE limiters[a] = NULL
  BY <1>1, LimiterAssumption DEF LimiterAssumption, Level
<1>2. CASE limiters[a] # NULL
  <2>1. limiters[a] \in Limiter /\ entry[limiters[a]] \in Entry
        /\ clock \in Nat
    BY <1>2 DEF IInv, TypeOK
  <2> QED
    BY <1>2, <2>1, TokensType DEF Level
<1> QED
  BY <1>1, <1>2

\* One unit of time refills by Rate, whenever the bucket was last touched.
LEMMA TickLevel ==
    ASSUME IInv, Tick, NEW a \in Address
    PROVE  Level(a)' = Buckets!Filled(Level(a) + Rate)
<1>1. Rate \in Nat /\ Burst \in Nat /\ clock \in Nat
  BY LimiterAssumption DEF LimiterAssumption, IInv, TypeOK
<1>2. CASE limiters[a] = NULL
  BY <1>1, <1>2 DEF Tick, Level, Buckets!Filled
<1>3. CASE limiters[a] # NULL
  <2> DEFINE e == entry[limiters[a]]
  <2>1. e.tokens \in Nat /\ e.last \in Nat /\ e.last <= clock
    BY <1>3 DEF IInv, TypeOK, Entry, Seen
  <2>2. /\ Elapsed(e, clock) \in Int
        /\ Elapsed(e, clock + 1) = Elapsed(e, clock) + 1
    BY <1>1, <2>1 DEF Elapsed
  <2>3. /\ Rate * (Elapsed(e, clock) + 1) = Rate * Elapsed(e, clock) + Rate
        /\ Rate * Elapsed(e, clock) \in Int
    BY ONLY <2>2, RateStep
  <2>4. clock' = clock + 1 /\ limiters' = limiters /\ entry' = entry
    BY DEF Tick
  <2>5. Level(a) = Tokens(e, clock) /\ Refilled(e, clock) \in Int
    BY <1>3, <2>1, <2>3 DEF Level, Refilled
  <2>6. Level(a)' = Tokens(e, clock + 1)
    BY <1>3, <2>4 DEF Level, Tokens, Refilled, Elapsed
  <2>7. Refilled(e, clock + 1) = Refilled(e, clock) + Rate
    BY <2>1, <2>2, <2>3, <1>1 DEF Refilled
  <2> HIDE DEF e
  <2> QED
    BY <1>1, <2>5, <2>6, <2>7 DEF Tokens, Buckets!Filled
<1> QED
  BY <1>2, <1>3

\* A new entry is full, as a bucket nobody had was.
LEMMA InsertLevel ==
    ASSUME IInv, NEW g \in Goroutine, Insert(g), NEW a \in Address
    PROVE  Level(a)' = Level(a)
<1> DEFINE fresh == CHOOSE l \in Unused : TRUE
           known == limiters[addr[g]]
<1>1. /\ clock \in Nat /\ Burst \in Nat /\ Rate \in Nat
      /\ addr[g] \in Address /\ NULL \notin Limiter /\ clock' = clock
  BY LimiterAssumption DEF LimiterAssumption, Insert, IInv, Fresh, TypeOK, Verdicts
<1>2. CASE known # NULL
  <2>1. /\ known \in Limiter /\ limiters' = limiters
        /\ entry' = [entry EXCEPT ![known] = [@ EXCEPT !.lastSeen = clock]]
    BY <1>1, <1>2 DEF Insert, IInv, TypeOK
  <2>2. \A l \in Limiter : /\ entry'[l].tokens = entry[l].tokens
                           /\ entry'[l].last = entry[l].last
    BY <2>1 DEF IInv, TypeOK, Entry
  <2> QED
    BY <1>1, <2>1, <2>2, SameLevel DEF IInv, TypeOK
<1>3. CASE known = NULL
  <2>1. /\ fresh \in Unused
        /\ limiters' = [limiters EXCEPT ![addr[g]] = fresh]
        /\ entry' = [entry EXCEPT ![fresh] = NewEntry]
    BY <1>3 DEF Insert
  <2>2. fresh \in Limiter /\ \A b \in Address : limiters[b] # fresh
    BY <1>1, <2>1 DEF Unused, Entries
  <2> HIDE DEF fresh
  <2>3. CASE a = addr[g]
    <3>1. Level(a) = Burst
      BY <1>3, <2>3 DEF Level
    <3>2. /\ limiters'[a] = fresh /\ fresh # NULL
          /\ entry'[fresh].tokens = Burst /\ entry'[fresh].last = clock
      BY <1>1, <2>1, <2>2, <2>3 DEF IInv, TypeOK, NewEntry
    <3>3. Rate * Elapsed(entry'[fresh], clock) = 0
      BY <1>1, <3>2 DEF Elapsed
    <3> QED
      BY <1>1, <3>1, <3>2, <3>3 DEF Level, Tokens, Refilled, Elapsed
  <2>4. CASE a # addr[g]
    <3>1. limiters'[a] = limiters[a]
      BY <2>1, <2>4 DEF IInv, TypeOK
    <3>2. limiters[a] # NULL => entry'[limiters[a]] = entry[limiters[a]]
      BY <2>1, <2>2 DEF IInv, TypeOK
    <3> QED
      BY <1>1, <3>1, <3>2, SameLevel DEF IInv
  <2> QED
    BY <2>3, <2>4
<1> QED
  BY <1>2, <1>3

\* A request is asked when it reaches the map ...
LEMMA AskStep ==
    ASSUME IInv, NEW g \in Goroutine, NEW a \in Address, Find(g, a) \/ Miss(g, a)
    PROVE  Buckets!Ask(g, a)
<1>1. RequestOf(g) \in Buckets!Verdicts
  BY DEF Find, Miss, RequestOf, Verdicts, Buckets!Verdicts
<1>2. \A h \in Goroutine : RequestOf(h)' = IF h = g THEN a ELSE RequestOf(h)
  BY DEF Find, Miss, RequestOf, IInv, TypeOK, Verdicts
<1>3. \A b \in Address : Level(b)' = Level(b)
  BY SameLevel DEF Find, Miss, IInv
<1>4. clock' = clock
  BY DEF Find, Miss
<1>5. \A h \in Goroutine : ReadingOf(h)' = ReadingOf(h)
  BY DEF Find, Miss, ReadingOf, IInv, TypeOK, Verdicts
<1> QED
  BY <1>1, <1>2, <1>3, <1>4, <1>5 DEF Buckets!Ask

\* ... stays one while it works on locks, map and times, and while the cleanup
\* does ...
LEMMA HiddenStep ==
    ASSUME IInv,
           \/ \E g \in Goroutine : Stamp(g) \/ CallLock(g) \/ Insert(g)
           \/ EvictCall \/ Evict \/ UNCHANGED vars
    PROVE  UNCHANGED Buckets!vars
<1>1. clock' = clock
  BY DEF Stamp, CallLock, Insert, EvictCall, Evict, vars
<1>2. ASSUME NEW h \in Goroutine PROVE RequestOf(h)' = RequestOf(h)
  BY DEF Stamp, CallLock, Insert, EvictCall, Evict, vars, goVars,
         RequestOf, IInv, TypeOK, Verdicts
<1>3. ASSUME NEW h \in Goroutine PROVE ReadingOf(h)' = ReadingOf(h)
  BY DEF Stamp, CallLock, Insert, EvictCall, Evict, vars, goVars,
         ReadingOf, IInv, TypeOK
<1>4. ASSUME NEW a \in Address PROVE Level(a)' = Level(a)
  <2>1. ASSUME NEW g \in Goroutine, Stamp(g) PROVE Level(a)' = Level(a)
    <3>1. held[g] \in Limiter
      BY <2>1 DEF IInv, Fresh, Stamp, Busy
    <3>2. \A l \in Limiter : /\ entry'[l].tokens = entry[l].tokens
                             /\ entry'[l].last = entry[l].last
      BY <2>1, <3>1 DEF Stamp, IInv, TypeOK, Entry
    <3> QED
      BY <1>1, <2>1, <3>2, SameLevel DEF Stamp, IInv, TypeOK
  <2>2. ASSUME NEW g \in Goroutine, Insert(g) PROVE Level(a)' = Level(a)
    BY <2>2, InsertLevel
  <2>3. ASSUME Evict PROVE Level(a)' = Level(a)
    <3>1. CASE limiters'[a] = limiters[a]
      BY <1>1, <2>3, <3>1, SameLevel DEF Evict, IInv
    <3>2. CASE limiters'[a] # limiters[a]
      <4>1. /\ limiters[a] # NULL /\ limiters'[a] = NULL
            /\ entry[limiters[a]].lastSeen < cutoff
        BY <2>3, <3>2 DEF Evict
      <4>2. limiters[a] \in Limiter
        BY <4>1 DEF IInv, TypeOK
      <4> QED
        BY <2>3, <4>1, <4>2, EvictedIsFull DEF Level
    <3> QED
      BY <3>1, <3>2
  <2>4. ASSUME \/ \E g \in Goroutine : CallLock(g)
               \/ EvictCall \/ UNCHANGED vars
        PROVE Level(a)' = Level(a)
    BY <2>4, SameLevel DEF CallLock, EvictCall, vars, goVars, IInv
  <2> QED
    BY <2>1, <2>2, <2>3, <2>4
<1> QED
  BY <1>1, <1>2, <1>3, <1>4 DEF Buckets!vars

\* ... reads the clock in Allow ...
LEMMA ReadStep ==
    ASSUME IInv, NEW g \in Goroutine, Allow(g) PROVE Buckets!Read(g)
<1>1. RequestOf(g) \in Address /\ ReadingOf(g) = NULL
  BY DEF Allow, RequestOf, ReadingOf, IInv, Fresh, Verdicts
<1>2. \A h \in Goroutine : RequestOf(h)' = RequestOf(h)
  BY DEF Allow, RequestOf, IInv, TypeOK, Verdicts
<1>3. \A h \in Goroutine : ReadingOf(h)' = IF h = g THEN clock ELSE ReadingOf(h)
  BY DEF Allow, ReadingOf, IInv, TypeOK
<1>4. clock' = clock /\ \A a \in Address : Level(a)' = Level(a)
  BY SameLevel DEF Allow, IInv
<1> QED
  BY <1>1, <1>2, <1>3, <1>4 DEF Buckets!Read

\* ... and is decided by the level of its bucket, but for its delay.
LEMMA DecideStep ==
    ASSUME IInv, NEW g \in Goroutine, AllowN(g)
    PROVE  \E a \in Address : Buckets!Pass(g, a) \/ Buckets!TurnAway(g, a)
<1>1. PICK a \in Address, l \in Limiter :
        /\ a = addr[g] /\ l = held[g] /\ l = limiters[a]
        /\ l # NULL /\ pc[g] = "deciding" /\ entry[l] \in Entry
        /\ entry[l].last <= clock /\ clock \in Nat /\ Burst \in Nat
        /\ since[g] \in Nat /\ since[g] <= clock
  BY LimiterAssumption DEF LimiterAssumption, IInv, TypeOK, Fresh, Seen, AllowN, Busy, Verdicts
<1> DEFINE tokens == Tokens(entry[l], since[g])
<1>2. tokens \in 0..Burst
  BY <1>1, TokensType
<1>3. Level(a) = Tokens(entry[l], clock) /\ RequestOf(g) = a /\ ReadingOf(g) = since[g]
  BY <1>1 DEF Level, RequestOf, ReadingOf, Verdicts
<1>4. since[g] # NULL /\ clock' = clock /\ limiters' = limiters
  BY <1>1, LimiterAssumption DEF LimiterAssumption, AllowN
<1>5. ASSUME NEW verdict \in {"passed", "limited"}, pc' = [pc EXCEPT ![g] = verdict]
      PROVE  \A h \in Goroutine :
               /\ RequestOf(h)' = IF h = g THEN verdict ELSE RequestOf(h)
               /\ ReadingOf(h)' = IF h = g THEN NULL ELSE ReadingOf(h)
  BY <1>5 DEF AllowN, RequestOf, ReadingOf, IInv, TypeOK, Verdicts
<1>6. CASE /\ tokens > 0
           /\ entry' = [entry EXCEPT ![l].tokens = tokens - 1, ![l].last = since[g]]
           /\ pc' = [pc EXCEPT ![g] = "passed"]
  <2>1. \A h \in Goroutine :
          /\ RequestOf(h)' = IF h = g THEN "passed" ELSE RequestOf(h)
          /\ ReadingOf(h)' = IF h = g THEN NULL ELSE ReadingOf(h)
    BY <1>5, <1>6
  <2>2. /\ Level(a)' >= Level(a) - 1
        /\ Level(a)' <= Buckets!Filled(Level(a) - 1 + Rate * (clock - since[g]))
        /\ Level(a) > 0 /\ Level(a) \in 0..Burst /\ Level(a)' \in 0..Burst
    <3> DEFINE f == entry'[l]
    <3>1. f = [[entry[l] EXCEPT !.tokens = tokens - 1] EXCEPT !.last = since[g]]
      BY <1>1, <1>6 DEF IInv, TypeOK
    <3>2. f \in Entry /\ f.tokens = tokens - 1 /\ f.last = since[g]
      <4>1. tokens - 1 \in 0..Burst
        BY <1>1, <1>2, <1>6
      <4> HIDE DEF f, tokens
      <4> QED
        BY <1>1, <3>1, <4>1 DEF Entry
    <3>3. Level(a)' = Tokens(f, clock)
      BY <1>1, <1>4 DEF Level, Tokens, Refilled, Elapsed
    <3>4. /\ Tokens(f, clock) >= Tokens(entry[l], clock) - 1
          /\ Tokens(f, clock) <= Buckets!Filled(Tokens(entry[l], clock) - 1
                                                + Rate * (clock - since[g]))
      BY <1>1, <1>6, <3>2, TokensTaken
    <3>5. tokens <= Tokens(entry[l], clock)
      BY <1>1, TokensLater
    <3>6. Tokens(entry[l], clock) \in 0..Burst /\ Tokens(f, clock) \in 0..Burst
      BY <1>1, <3>2, TokensType
    <3> HIDE DEF f, tokens
    <3> QED
      BY <1>1, <1>2, <1>3, <1>6, <3>3, <3>4, <3>5, <3>6
  <2>3. ASSUME NEW b \in Address, b # a PROVE Level(b)' = Level(b)
    <3>1. limiters[b] # NULL => limiters[b] \in Limiter /\ limiters[b] # l
      BY <1>1, <2>3 DEF IInv, TypeOK, Distinct
    <3>2. limiters[b] # NULL => entry'[limiters[b]] = entry[limiters[b]]
      BY <1>1, <1>6, <3>1 DEF IInv, TypeOK
    <3> QED
      BY <1>4, <3>2, SameLevel DEF IInv
  <2>4. Buckets!Decide(g, "passed")
    BY <1>3, <1>4, <2>1 DEF Buckets!Decide
  <2>5. Level(a)' \in (Level(a) - 1)..Buckets!Filled(Level(a) - 1 + Rate * (clock - since[g]))
    <3>1. Rate * (clock - since[g]) \in Int
      BY <1>1, RateMonotone
    <3>2. Buckets!Filled(Level(a) - 1 + Rate * (clock - since[g])) \in Int
      BY <1>1, <2>2, <3>1 DEF Buckets!Filled
    <3> QED
      BY <1>1, <2>2, <3>2
  <2>6. Buckets!Doubt(g) = Rate * (clock - since[g])
    BY <1>3 DEF Buckets!Doubt
  <2>7. Buckets!Pass(g, a)
    BY <1>1, <1>3, <2>2, <2>3, <2>4, <2>5, <2>6 DEF Buckets!Pass
  <2> QED
    BY <1>1, <2>7
<1>7. CASE tokens = 0 /\ UNCHANGED entry /\ pc' = [pc EXCEPT ![g] = "limited"]
  <2>1. \A h \in Goroutine :
          /\ RequestOf(h)' = IF h = g THEN "limited" ELSE RequestOf(h)
          /\ ReadingOf(h)' = IF h = g THEN NULL ELSE ReadingOf(h)
    BY <1>5, <1>7
  <2>2. \A b \in Address : Level(b)' = Level(b)
    BY <1>4, <1>7, SameLevel DEF IInv
  <2>3. Level(a) <= Buckets!Doubt(g)
    BY <1>1, <1>3, <1>7, TokensLater DEF Buckets!Doubt
  <2>4. Buckets!Decide(g, "limited")
    BY <1>3, <1>4, <2>1 DEF Buckets!Decide
  <2>5. Buckets!TurnAway(g, a)
    BY <1>1, <1>3, <2>2, <2>3, <2>4 DEF Buckets!TurnAway
  <2> QED
    BY <1>1, <2>5
<1> QED
  BY <1>1, <1>2, <1>6, <1>7 DEF AllowN

LEMMA RefillStep == ASSUME IInv, Tick PROVE Buckets!Refill
<1>1. \A a \in Address : Level(a)' = Buckets!Filled(Level(a) + Rate)
  BY TickLevel
<1>2. \A g \in Goroutine : RequestOf(g)' = RequestOf(g) /\ ReadingOf(g)' = ReadingOf(g)
  BY DEF Tick, goVars, RequestOf, ReadingOf
<1>3. clock' = clock + 1
  BY DEF Tick
<1> QED
  BY <1>1, <1>2, <1>3 DEF Buckets!Refill

LEMMA InitBuckets == Init => Buckets!Init
  BY DEF Init, Buckets!Init, Level, RequestOf, ReadingOf, Verdicts

LEMMA StepBuckets == IInv /\ [Next]_vars => [Buckets!Next]_Buckets!vars
<1> SUFFICES ASSUME IInv, [Next]_vars PROVE Buckets!Next \/ UNCHANGED Buckets!vars
  OBVIOUS
<1>1. CASE \E g \in Goroutine, a \in Address : Find(g, a) \/ Miss(g, a)
  BY <1>1, AskStep DEF Buckets!Next
<1>2. CASE \E g \in Goroutine : Allow(g) \/ AllowN(g)
  BY <1>2, ReadStep, DecideStep DEF Buckets!Next
<1>3. CASE Tick
  BY <1>3, RefillStep DEF Buckets!Next
<1>4. CASE \/ \E g \in Goroutine : Stamp(g) \/ CallLock(g) \/ Insert(g)
           \/ EvictCall \/ Evict \/ UNCHANGED vars
  BY <1>4, HiddenStep
<1> QED
  BY <1>1, <1>2, <1>3, <1>4 DEF Next

\* The limiter with its locks, map, racing times and eviction decides every
\* request as one immortal token bucket per address may, in doubt only about what
\* the bucket was given between Allow's time.Now() and the decision: ten idle
\* minutes repay what an entry owed, so evictIdle forgets nothing that matters.
THEOREM RefinementOfBuckets == Spec => RefinesBuckets
  BY InitBuckets, StepBuckets, IInvInvariant, PTL DEF Spec, RefinesBuckets, Buckets!Spec
-----------------------------------------------------------------------------
(* What a client gets out of it: a ceiling over any span of time *)

\* A meter beside the limiter, which it never holds up: it may be reset at any
\* time, and from then on counts the requests of each address that pass, and adds
\* up how long each of them took from Allow's time.Now() to its decision.
VARIABLES
    from,      \* when the meter was last reset
    granted,   \* requests passed since then, of each address
    late       \* and the sum of their delays

PassedNow(g, a) == addr[g] = a /\ pc[g] = "deciding" /\ pc'[g] = "passed"
Passes(a) == \E g \in Goroutine : PassedNow(g, a)
Count ==
    /\ Next
    /\ UNCHANGED from
    /\ granted' = [a \in Address |-> IF Passes(a) THEN granted[a] + 1 ELSE granted[a]]
    /\ late' \in [Address -> Nat]
    /\ \A a \in Address :
         /\ ~ Passes(a) => late'[a] = late[a]
         /\ \A g \in Goroutine :
              PassedNow(g, a) => late'[a] = late[a] + (clock - since[g])
Reset == /\ from' = clock
         /\ granted' = [a \in Address |-> 0]
         /\ late' = [a \in Address |-> 0]
         /\ UNCHANGED vars

MeteredSpec ==
    /\ Init /\ from = 0
    /\ granted = [a \in Address |-> 0] /\ late = [a \in Address |-> 0]
    /\ [][Count \/ Reset]_<<vars, from, granted, late>>

\* In any span of time an address gets at most a burst, what the rate brings, and
\* what it brings in the delays of the requests that passed.
Ceiling(a) == Burst + Rate * (clock - from + late[a])
UnderCeiling == \A a \in Address : granted[a] <= Ceiling(a)

\* What a bucket holds and what it gave away is what it can have been given.
MeterInv ==
    /\ from \in Nat /\ from <= clock
    /\ granted \in [Address -> Nat] /\ late \in [Address -> Nat]
    /\ \A a \in Address : granted[a] + Level(a) <= Ceiling(a)

LEMMA CeilingType ==
    ASSUME clock \in Nat, from \in Nat, NEW a \in Address, late[a] \in Nat
    PROVE  /\ Ceiling(a) \in Int
           /\ from = clock /\ late[a] = 0 => Ceiling(a) = Burst
<1>1. Rate \in Nat /\ Burst \in Nat
  BY LimiterAssumption DEF LimiterAssumption
<1>2. clock - from + late[a] \in Int /\ (from = clock /\ late[a] = 0 => clock - from + late[a] = 0)
  OBVIOUS
<1>3. Rate * (clock - from + late[a]) \in Int /\ Rate * 0 = 0
  BY <1>1, <1>2
<1> QED
  BY <1>1, <1>2, <1>3 DEF Ceiling

\* A goroutine that decides a request changes its bucket alone.
LEMMA DecidedLevel ==
    ASSUME IInv, NEW g \in Goroutine, AllowN(g), NEW a \in Address
    PROVE  /\ PassedNow(g, a) =>
                /\ Level(a)' \in Nat /\ Level(a)' >= Level(a) - 1
                /\ Level(a)' <= Level(a) - 1 + Rate * (clock - since[g])
           /\ ~ PassedNow(g, a) => Level(a)' = Level(a)
           /\ pc'[g] = "limited" /\ a = addr[g] => Level(a) <= Rate * (clock - since[g])
<1>1. PICK b \in Address : Buckets!Pass(g, b) \/ Buckets!TurnAway(g, b)
  BY DecideStep
<1>2. /\ pc[g] = "deciding" /\ addr[g] \in Address /\ since[g] \in Nat /\ since[g] <= clock
      /\ clock \in Nat /\ pc'[g] \in {"passed", "limited"} /\ pc'[g] = RequestOf(g)'
      /\ RequestOf(g) = addr[g] /\ ReadingOf(g) = since[g]
  BY DEF AllowN, IInv, TypeOK, Fresh, Busy, RequestOf, ReadingOf, Verdicts
<1>3. b = addr[g] /\ Buckets!Doubt(g) = Rate * (clock - since[g])
  BY <1>1, <1>2 DEF Buckets!Pass, Buckets!TurnAway, Buckets!Doubt
<1>4. Level(a) \in 0..Burst /\ Burst \in Nat
  BY LevelType, LimiterAssumption DEF LimiterAssumption
<1>5. Rate * (clock - since[g]) \in Int
  BY <1>2, RateMonotone
<1>6. CASE Buckets!Pass(g, b)
  <2>1. pc'[g] = "passed"
    BY <1>2, <1>6 DEF Buckets!Pass, Buckets!Decide
  <2>2. PassedNow(g, a) <=> a = b
    BY <1>2, <1>3, <2>1 DEF PassedNow
  <2>3. CASE a = b
    <3>1. PICK left \in (Level(a) - 1)..Buckets!Filled(Level(a) - 1 + Buckets!Doubt(g)) :
            Level(a)' = left
      BY <1>6, <2>3 DEF Buckets!Pass
    <3>2. Level(a) > 0
      BY <1>6, <2>3 DEF Buckets!Pass
    <3>3. /\ Buckets!Filled(Level(a) - 1 + Buckets!Doubt(g)) <= Level(a) - 1 + Buckets!Doubt(g)
          /\ Buckets!Filled(Level(a) - 1 + Buckets!Doubt(g)) \in Int
          /\ Buckets!Doubt(g) \in Int
      BY <1>3, <1>4, <1>5 DEF Buckets!Filled
    <3>4. left \in Int /\ left >= Level(a) - 1 /\ left <= Level(a) - 1 + Buckets!Doubt(g)
      BY <1>4, <3>1, <3>3
    <3>5. left \in Nat
      BY <1>4, <3>2, <3>4
    <3> QED
      BY <1>3, <2>1, <2>2, <2>3, <3>1, <3>4, <3>5
  <2>4. CASE a # b
    BY <1>3, <1>6, <2>1, <2>2, <2>4 DEF Buckets!Pass
  <2> QED
    BY <2>3, <2>4
<1>7. CASE Buckets!TurnAway(g, b)
  <2>1. pc'[g] = "limited"
    BY <1>2, <1>7 DEF Buckets!TurnAway, Buckets!Decide
  <2>2. ~ PassedNow(g, a) /\ Level(a)' = Level(a)
    BY <1>7, <2>1 DEF Buckets!TurnAway, PassedNow
  <2>3. Level(b) <= Rate * (clock - since[g])
    BY <1>3, <1>7 DEF Buckets!TurnAway
  <2> QED
    BY <1>3, <2>2, <2>3
<1> QED
  BY <1>1, <1>6, <1>7

\* Whoever passes does so in AllowN, and alone; a step in which no request is
\* decided and no time passes leaves the buckets alone.
LEMMA WhoDecides ==
    ASSUME IInv, Next, clock' = clock, NEW a \in Address
    PROVE  \/ \E g \in Goroutine : /\ AllowN(g)
                                   /\ Passes(a) <=> PassedNow(g, a)
           \/ ~ Passes(a) /\ Level(a)' = Level(a)
<1>1. CASE \E g \in Goroutine : AllowN(g)
  <2>1. PICK g \in Goroutine : AllowN(g)
    BY <1>1
  <2>2. \A h \in Goroutine : h # g => pc'[h] = pc[h]
    BY <2>1 DEF AllowN, IInv, TypeOK
  <2>3. Passes(a) <=> PassedNow(g, a)
    BY <2>2 DEF Passes, PassedNow
  <2> QED
    BY <2>1, <2>3
<1>2. CASE ~ \E g \in Goroutine : AllowN(g)
  <2>1. ~ Passes(a)
    BY <1>2 DEF Next, Find, Miss, Stamp, CallLock, Insert, Allow, EvictCall, Evict, Tick,
                goVars, Passes, PassedNow, IInv, TypeOK
  <2>2. CASE \E g \in Goroutine, b \in Address : Find(g, b) \/ Miss(g, b)
    BY <2>1, <2>2, AskStep DEF Buckets!Ask
  <2>3. CASE \/ \E g \in Goroutine : Stamp(g) \/ CallLock(g) \/ Insert(g)
             \/ EvictCall \/ Evict
    BY <2>1, <2>3, HiddenStep DEF Buckets!vars
  <2>4. CASE \E g \in Goroutine : Allow(g)
    BY <2>1, <2>4, ReadStep DEF Buckets!Read
  <2>5. ~ Tick
    BY DEF Tick, IInv, TypeOK
  <2> QED
    BY <1>2, <2>2, <2>3, <2>4, <2>5 DEF Next
<1> QED
  BY <1>1, <1>2

\* Nothing is decided while time passes.
LEMMA WhenTimePasses ==
    ASSUME IInv, Next, clock' # clock, NEW a \in Address
    PROVE  /\ Tick /\ clock' = clock + 1 /\ ~ Passes(a)
           /\ Level(a)' = Buckets!Filled(Level(a) + Rate)
<1>1. Tick
  BY DEF Next, Find, Miss, Stamp, CallLock, Insert, Allow, AllowN, EvictCall, Evict
<1> QED
  BY <1>1, TickLevel DEF Tick, goVars, Passes, PassedNow

LEMMA CountMeter == ASSUME IInv, MeterInv, Count PROVE MeterInv'
<1>1. /\ clock \in Nat /\ Rate \in Nat /\ Burst \in Nat /\ from \in Nat
      /\ from <= clock /\ from' = from
  BY LimiterAssumption DEF LimiterAssumption, IInv, TypeOK, Count, MeterInv
<1>2. granted' \in [Address -> Nat] /\ late' \in [Address -> Nat]
  BY DEF MeterInv, Count
<1>3. clock' \in {clock, clock + 1}
  BY DEF Count, Next, Find, Miss, Stamp, CallLock, Insert, Allow, AllowN, EvictCall, Evict, Tick
<1>4. ASSUME NEW a \in Address PROVE (granted[a] + Level(a) <= Ceiling(a))'
  <2>1. /\ granted[a] \in Nat /\ Level(a) \in 0..Burst /\ late[a] \in Nat
        /\ granted[a] + Level(a) <= Ceiling(a)
        /\ granted'[a] = IF Passes(a) THEN granted[a] + 1 ELSE granted[a]
        /\ ~ Passes(a) => late'[a] = late[a]
    BY LevelType DEF MeterInv, Count
  <2>2. Ceiling(a) \in Int
    BY <1>1, <2>1, CeilingType
  <2>3. CASE clock' = clock /\ ~ Passes(a)
    <3>1. Level(a)' = Level(a)
      BY <2>3, WhoDecides, DecidedLevel DEF Count
    <3>2. Ceiling(a)' = Ceiling(a)
      BY <1>1, <2>1, <2>3 DEF Ceiling
    <3> QED
      BY <2>1, <2>3, <3>1, <3>2
  <2>4. CASE clock' = clock /\ Passes(a)
    <3>1. PICK g \in Goroutine : AllowN(g) /\ PassedNow(g, a)
      BY <2>4, WhoDecides DEF Count
    <3>2. since[g] \in Nat
      BY DEF IInv, TypeOK
    <3> DEFINE delay == clock - since[g]
    <3>3. late'[a] = late[a] + delay /\ granted'[a] = granted[a] + 1
      BY <2>1, <2>4, <3>1 DEF Count
    <3>4. Level(a)' \in Nat /\ Level(a)' <= Level(a) - 1 + Rate * delay
      BY <3>1, DecidedLevel
    <3>5. delay \in Int /\ Rate * delay \in Int
      BY <1>1, <3>2, RateMonotone
    <3> HIDE DEF delay
    <3>6. Ceiling(a)' = Ceiling(a) + Rate * delay
      <4>1. clock' - from' + late'[a] = (clock - from + late[a]) + delay
        BY <1>1, <2>1, <2>4, <3>3, <3>5
      <4>2. clock - from + late[a] \in Int
        BY <1>1, <2>1
      <4>3. /\ Rate * ((clock - from + late[a]) + delay)
                 = Rate * (clock - from + late[a]) + Rate * delay
            /\ Rate * (clock - from + late[a]) \in Int
        BY <3>5, <4>2, RateSum, RateMonotone
      <4> QED
        BY <1>1, <3>5, <4>1, <4>3 DEF Ceiling
    <3> QED
      BY <2>1, <2>2, <3>3, <3>4, <3>5, <3>6
  <2>5. CASE clock' # clock
    <3>1. /\ clock' = clock + 1 /\ ~ Passes(a)
          /\ Level(a)' = Buckets!Filled(Level(a) + Rate)
      BY <2>5, WhenTimePasses DEF Count
    <3>2. Level(a)' <= Level(a) + Rate /\ Level(a)' \in Int
      BY <1>1, <2>1, <3>1 DEF Buckets!Filled
    <3>3. Ceiling(a)' = Ceiling(a) + Rate
      <4>1. /\ clock - from + late[a] \in Int
            /\ clock' - from' + late'[a] = (clock - from + late[a]) + 1
        BY <1>1, <2>1, <3>1
      <4>2. /\ Rate * ((clock - from + late[a]) + 1) = Rate * (clock - from + late[a]) + Rate
            /\ Rate * (clock - from + late[a]) \in Int
        BY <4>1, RateStep
      <4> QED
        BY <1>1, <4>1, <4>2 DEF Ceiling
    <3> QED
      BY <1>1, <2>1, <2>2, <3>1, <3>2, <3>3
  <2> QED
    BY <2>3, <2>4, <2>5
<1> QED
  BY <1>1, <1>2, <1>3, <1>4 DEF MeterInv

\* A reset starts a span in which nothing has passed yet.
LEMMA ResetMeter == ASSUME IInv, Reset PROVE MeterInv'
<1>1. clock \in Nat /\ from' = clock /\ clock' = clock /\ Burst \in Nat
  BY LimiterAssumption DEF LimiterAssumption, IInv, TypeOK, Reset, vars
<1>2. IInv'
  BY TimeIInv DEF Reset
<1>3. ASSUME NEW a \in Address PROVE (granted[a] + Level(a) <= Ceiling(a))'
  <2>1. granted'[a] = 0 /\ late'[a] = 0
    BY DEF Reset
  <2>2. Level(a)' \in 0..Burst
    <3>1. Level(a)' = Level(a)
      BY HiddenStep DEF Reset, Buckets!vars
    <3> QED
      BY <3>1, LevelType
  <2>3. Ceiling(a)' = Burst
    <3>1. clock' - from' + late'[a] = 0
      BY <1>1, <2>1
    <3>2. Rate \in Nat /\ Rate * 0 = 0
      BY LimiterAssumption DEF LimiterAssumption
    <3> QED
      BY <1>1, <3>1, <3>2 DEF Ceiling
  <2> QED
    BY <1>1, <2>1, <2>2, <2>3
<1> QED
  BY <1>1, <1>3 DEF MeterInv, Reset

LEMMA MeteredInvariant == MeteredSpec => [](IInv /\ MeterInv)
<1> DEFINE Start == /\ Init /\ from = 0
                    /\ granted = [a \in Address |-> 0] /\ late = [a \in Address |-> 0]
           meterVars == <<vars, from, granted, late>>
<1>1. Start => IInv /\ MeterInv
  <2> SUFFICES ASSUME Start PROVE IInv /\ MeterInv
    OBVIOUS
  <2>1. IInv
    BY InitIInv
  <2>2. clock = 0 /\ Burst \in Nat
    BY LimiterAssumption DEF LimiterAssumption, Init
  <2>3. ASSUME NEW a \in Address PROVE Ceiling(a) = Burst
    BY <2>2, CeilingType
  <2>4. ASSUME NEW a \in Address PROVE Level(a) \in 0..Burst
    BY <2>1, LevelType
  <2> QED
    BY <2>1, <2>2, <2>3, <2>4 DEF MeterInv
<1>2. IInv /\ MeterInv /\ [Count \/ Reset]_meterVars => (IInv /\ MeterInv)'
  <2> SUFFICES ASSUME IInv, MeterInv, [Count \/ Reset]_meterVars
               PROVE  (IInv /\ MeterInv)'
    OBVIOUS
  <2>1. IInv'
    BY StepIInv DEF Count, Reset
  <2>2. CASE Count
    BY <2>1, <2>2, CountMeter
  <2>3. CASE Reset
    BY <2>1, <2>3, ResetMeter
  <2>4. CASE UNCHANGED meterVars
    <3>1. ASSUME NEW a \in Address PROVE Level(a)' = Level(a)
      BY <2>4, HiddenStep DEF Buckets!vars
    <3>2. clock' = clock /\ from' = from /\ granted' = granted /\ late' = late
      BY <2>4 DEF vars
    <3>3. ASSUME NEW a \in Address PROVE Ceiling(a)' = Ceiling(a)
      BY <3>2 DEF Ceiling
    <3> QED
      BY <2>1, <3>1, <3>2, <3>3 DEF MeterInv
  <2> QED
    BY <2>2, <2>3, <2>4
<1> QED
  BY <1>1, <1>2, PTL DEF MeteredSpec

\* In any span of time t, whatever its goroutines, locks and evictions do, at most
\* burst + rps * t requests of an address pass ("rps is the sustained
\* requests-per-second allowed per IP", ratelimit.go:38-39), and rps times the
\* delays between Allow's time.Now() and its decision, which a preempted goroutine
\* has refilled twice.  The idle timeout must refill a bucket (LimiterAssumption).
THEOREM RateIsBounded == MeteredSpec => []UnderCeiling
<1>1. IInv /\ MeterInv => UnderCeiling
  <2> SUFFICES ASSUME IInv, MeterInv, NEW a \in Address
               PROVE  granted[a] <= Ceiling(a)
    BY DEF UnderCeiling
  <2>1. /\ granted[a] \in Nat /\ Level(a) \in 0..Burst /\ Burst \in Nat
        /\ granted[a] + Level(a) <= Ceiling(a) /\ late[a] \in Nat
    BY LevelType, LimiterAssumption DEF LimiterAssumption, MeterInv
  <2>2. Ceiling(a) \in Int
    BY <2>1, CeilingType DEF MeterInv, IInv, TypeOK
  <2> QED
    BY <2>1, <2>2
<1> QED
  BY <1>1, MeteredInvariant, PTL

-----------------------------------------------------------------------------
(* And its counterpart: nobody is refused who has not used it up *)

\* A ledger of each address since its bucket was last full.
VARIABLES
    fullAt,  \* when that was
    spent    \* requests passed since

Spend ==
    /\ Next
    /\ fullAt' = [a \in Address |-> IF Level(a)' = Burst THEN clock' ELSE fullAt[a]]
    /\ spent' = [a \in Address |->
                   IF Level(a)' = Burst THEN 0
                   ELSE IF Passes(a) THEN spent[a] + 1 ELSE spent[a]]

LedgerSpec ==
    /\ Init
    /\ fullAt = [a \in Address |-> 0]
    /\ spent = [a \in Address |-> 0]
    /\ [][Spend]_<<vars, fullAt, spent>>

\* What a bucket was given up to a time.
Earned(a, time) == Burst + Rate * (time - fullAt[a])
RefusedWhenSpent ==
    \A g \in Goroutine, a \in Address :
        addr[g] = a /\ pc[g] = "deciding" /\ pc'[g] = "limited"
            => spent[a] >= Earned(a, since[g])

\* The bucket holds what was earned and not spent, or more.
LedgerInv ==
    /\ fullAt \in [Address -> Nat] /\ spent \in [Address -> Nat]
    /\ \A a \in Address :
         fullAt[a] <= clock /\ Level(a) >= Earned(a, clock) - spent[a]

LEMMA EarnedType ==
    ASSUME NEW time \in Nat, NEW a \in Address, fullAt[a] \in Nat
    PROVE  /\ Earned(a, time) \in Int
           /\ fullAt[a] = time => Earned(a, time) = Burst
<1>1. Rate \in Nat /\ Burst \in Nat
  BY LimiterAssumption DEF LimiterAssumption
<1>2. /\ Rate * (time - fullAt[a]) \in Int
      /\ fullAt[a] = time => Rate * (time - fullAt[a]) = 0
  BY <1>1
<1> QED
  BY <1>1, <1>2 DEF Earned

LEMMA SpendLedger == ASSUME IInv, LedgerInv, Spend PROVE LedgerInv'
<1>1. /\ clock \in Nat /\ clock' \in {clock, clock + 1}
      /\ Rate \in Nat /\ Burst \in Nat
  BY LimiterAssumption DEF LimiterAssumption, IInv, TypeOK, Spend, Next, Find, Miss, Stamp,
     CallLock, Insert, Allow, AllowN, EvictCall, Evict, Tick
<1>2. fullAt' \in [Address -> Nat] /\ spent' \in [Address -> Nat]
  <2>1. clock' \in Nat
    BY <1>1
  <2>2. \A a \in Address : /\ fullAt'[a] \in {clock', fullAt[a]}
                           /\ spent'[a] \in {0, spent[a], spent[a] + 1}
    BY DEF Spend
  <2> QED
    BY <2>1, <2>2 DEF Spend, LedgerInv
<1>3. ASSUME NEW a \in Address
      PROVE  (fullAt[a] <= clock /\ Level(a) >= Earned(a, clock) - spent[a])'
  <2>1. /\ Level(a) \in 0..Burst /\ Level(a) >= Earned(a, clock) - spent[a]
        /\ fullAt[a] \in Nat /\ fullAt[a] <= clock /\ spent[a] \in Nat
        /\ Earned(a, clock) \in Int
    <3>1. fullAt[a] \in Nat /\ fullAt[a] <= clock /\ spent[a] \in Nat
          /\ Level(a) >= Earned(a, clock) - spent[a]
      BY DEF LedgerInv
    <3> QED
      BY <1>1, <3>1, LevelType, EarnedType
  <2>2. CASE Level(a)' = Burst
    <3>1. fullAt'[a] = clock' /\ spent'[a] = 0
      BY <2>2 DEF Spend
    <3>2. clock' \in Nat /\ clock' - fullAt'[a] = 0
      <4>1. clock' \in Nat
        BY <1>1
      <4>2. \A x, y \in Nat : x = y => x - y = 0
        OBVIOUS
      <4> QED
        BY <3>1, <4>1, <4>2
    <3>3. Earned(a, clock)' = Burst
      <4>1. Rate * 0 = 0
        BY <1>1
      <4> QED
        BY <1>1, <3>2, <4>1 DEF Earned
    <3> QED
      BY <1>1, <2>2, <3>1, <3>2, <3>3
  <2>3. CASE Level(a)' # Burst
    <3>1. /\ fullAt'[a] = fullAt[a]
          /\ spent'[a] = IF Passes(a) THEN spent[a] + 1 ELSE spent[a]
      BY <2>3 DEF Spend
    <3>2. CASE clock' = clock
      <4>1. Earned(a, clock)' = Earned(a, clock)
        BY <3>1, <3>2 DEF Earned
      <4>2. CASE Passes(a)
        <5>1. PICK g \in Goroutine : AllowN(g) /\ PassedNow(g, a)
          BY <3>2, <4>2, WhoDecides DEF Spend
        <5>2. Level(a)' \in Nat /\ Level(a)' >= Level(a) - 1
          BY <5>1, DecidedLevel
        <5> QED
          BY <1>1, <2>1, <3>1, <3>2, <4>1, <4>2, <5>2
      <4>3. CASE ~ Passes(a)
        <5>1. Level(a)' = Level(a)
          BY <3>2, <4>3, WhoDecides, DecidedLevel DEF Spend
        <5> QED
          BY <1>1, <2>1, <3>1, <3>2, <4>1, <4>3, <5>1
      <4> QED
        BY <4>2, <4>3
    <3>3. CASE clock' # clock
      <4>1. /\ clock' = clock + 1 /\ ~ Passes(a)
            /\ Level(a)' = Buckets!Filled(Level(a) + Rate)
        BY <3>3, WhenTimePasses DEF Spend
      <4>2. Level(a)' = Level(a) + Rate
        BY <1>1, <2>1, <2>3, <4>1 DEF Buckets!Filled
      <4>3. spent'[a] = spent[a]
        BY <3>1, <4>1
      <4>4. Earned(a, clock)' = Earned(a, clock) + Rate
        <5>1. clock - fullAt[a] \in Int /\ clock' - fullAt'[a] = (clock - fullAt[a]) + 1
          BY <1>1, <2>1, <3>1, <4>1
        <5>2. /\ Rate * ((clock - fullAt[a]) + 1) = Rate * (clock - fullAt[a]) + Rate
              /\ Rate * (clock - fullAt[a]) \in Int
          BY <5>1, RateStep
        <5> QED
          BY <1>1, <5>1, <5>2 DEF Earned
      <4> QED
        BY <1>1, <2>1, <3>1, <4>1, <4>2, <4>3, <4>4
    <3> QED
      BY <3>2, <3>3
  <2> QED
    BY <2>2, <2>3
<1> QED
  BY <1>2, <1>3 DEF LedgerInv

LEMMA LedgerInvariant == LedgerSpec => [](IInv /\ LedgerInv)
<1>1. Init /\ fullAt = [a \in Address |-> 0] /\ spent = [a \in Address |-> 0]
        => IInv /\ LedgerInv
  <2> SUFFICES ASSUME Init, fullAt = [a \in Address |-> 0], spent = [a \in Address |-> 0]
               PROVE  IInv /\ LedgerInv
    OBVIOUS
  <2>1. clock = 0 /\ Burst \in Nat
    BY LimiterAssumption DEF LimiterAssumption, Init
  <2>2. ASSUME NEW a \in Address PROVE Earned(a, clock) = Burst /\ Level(a) = Burst
    <3>1. fullAt[a] \in Nat /\ fullAt[a] = clock
      BY <2>1
    <3> QED
      BY <2>1, <3>1, EarnedType DEF Init, Level
  <2> QED
    BY <2>1, <2>2, InitIInv DEF LedgerInv
<1>2. IInv /\ LedgerInv /\ [Spend]_<<vars, fullAt, spent>> => (IInv /\ LedgerInv)'
  <2> SUFFICES ASSUME IInv, LedgerInv, [Spend]_<<vars, fullAt, spent>>
               PROVE  (IInv /\ LedgerInv)'
    OBVIOUS
  <2>1. IInv'
    BY StepIInv DEF Spend
  <2>2. CASE UNCHANGED <<vars, fullAt, spent>>
    <3>1. ASSUME NEW a \in Address PROVE Level(a)' = Level(a)
      BY <2>2, HiddenStep DEF Buckets!vars
    <3>2. clock' = clock /\ fullAt' = fullAt /\ spent' = spent
      BY <2>2 DEF vars
    <3>3. ASSUME NEW a \in Address PROVE Earned(a, clock)' = Earned(a, clock)
      BY <3>2 DEF Earned
    <3> QED
      BY <2>1, <3>1, <3>2, <3>3 DEF LedgerInv
  <2> QED
    BY <2>1, <2>2, SpendLedger
<1> QED
  BY <1>1, <1>2, PTL DEF LedgerSpec

\* Allow refuses a request only if, since its address last had a full bucket, at
\* least a burst and what the rate had brought by the request's time.Now() have
\* passed: neither the races nor the evictions ever cost a client a token.
THEOREM RefusedOnlyWhenSpent == LedgerSpec => [][RefusedWhenSpent]_vars
<1>1. IInv /\ LedgerInv /\ [Spend]_<<vars, fullAt, spent>> => [RefusedWhenSpent]_vars
  <2> SUFFICES ASSUME IInv, LedgerInv, Spend, NEW g \in Goroutine, NEW a \in Address,
                      addr[g] = a, pc[g] = "deciding", pc'[g] = "limited"
               PROVE  spent[a] >= Earned(a, since[g])
    BY DEF RefusedWhenSpent
  <2>1. AllowN(g)
    BY DEF Spend, Next, Find, Miss, Stamp, CallLock, Insert, Allow, AllowN, EvictCall,
           Evict, Tick, goVars, IInv, TypeOK
  <2>2. Level(a) <= Rate * (clock - since[g])
    BY <2>1, DecidedLevel
  <2>3. /\ Level(a) >= Earned(a, clock) - spent[a] /\ spent[a] \in Nat
        /\ clock \in Nat /\ since[g] \in Nat /\ fullAt[a] \in Nat
        /\ Level(a) \in 0..Burst /\ Burst \in Nat
    BY LevelType, LimiterAssumption DEF LimiterAssumption, LedgerInv, IInv, TypeOK
  <2>4. Earned(a, clock) = Earned(a, since[g]) + Rate * (clock - since[g])
    <3> DEFINE read == since[g] - fullAt[a]
               delay == clock - since[g]
    <3>1. read \in Int /\ delay \in Int /\ clock - fullAt[a] = read + delay
      BY <2>3
    <3> HIDE DEF read, delay
    <3>2. /\ Rate * (read + delay) = Rate * read + Rate * delay
          /\ Rate * read \in Int /\ Rate * delay \in Int
      BY ONLY <3>1, RateSum, RateStep
    <3>3. /\ Earned(a, clock) = Burst + Rate * (read + delay)
          /\ Earned(a, since[g]) = Burst + Rate * read
      BY <3>1 DEF Earned, read
    <3>4. Earned(a, clock) = Earned(a, since[g]) + Rate * delay
      BY <2>3, <3>2, <3>3
    <3> QED
      BY <3>4 DEF delay
  <2>5. Earned(a, since[g]) \in Int /\ Rate * (clock - since[g]) \in Int
    BY <2>3, EarnedType, RateMonotone
  <2> QED
    BY <2>2, <2>3, <2>4, <2>5
<1> QED
  BY <1>1, LedgerInvariant, PTL DEF LedgerSpec
=============================================================================
