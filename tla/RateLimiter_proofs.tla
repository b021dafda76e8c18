------------------------ MODULE RateLimiter_proofs ------------------------
(***************************************************************************)
(* RateLimiter for any number of threads, keys and any limits: its types,  *)
(* that the Retry-After header is never too short, and that the window is  *)
(* counted exactly.                                                        *)
(***************************************************************************)
EXTENDS RateLimiter, SequenceTheorems, FiniteSetTheorems, TLAPS

\* A retry time that has been told lies beyond the expiry of the oldest entry.
PromiseOK(k) == promised[k] # 0 /\ hits[k] # <<>> => hits[k][1] + Window < promised[k]

IInv == TypeOK /\ \A k \in Key : PromiseOK(k)

\* The inductive invariant holds initially.
LEMMA InvInit == Init => IInv
  BY LimitAssumption, TimeAssumption, EmptySeq DEF Init, IInv, TypeOK, PromiseOK, NoCall

\* Eviction leaves a bucket alone or empties it.
LEMMA KeptOK ==
    ASSUME TypeOK, NEW now, NEW k \in Key
    PROVE  /\ Kept(now) \in [Key -> Seq(0 .. MaxTime)]
           /\ Kept(now)[k] \in {hits[k], <<>>}
           /\ Len(Kept(now)[k]) <= Limit[k]
<1>1. CASE Kept(now) = hits
  BY <1>1 DEF TypeOK
<1>2. CASE Kept(now) = [j \in Key |-> IF Idle(hits[j], now) THEN <<>> ELSE hits[j]]
  <2>1. \A j \in Key : Kept(now)[j] = IF Idle(hits[j], now) THEN <<>> ELSE hits[j]
    BY <1>2
  <2>2. <<>> \in Seq(0 .. MaxTime) /\ Len(<<>>) = 0
    BY EmptySeq
  <2>3. \A j \in Key : Kept(now)[j] \in {hits[j], <<>>} /\ Kept(now)[j] \in Seq(0 .. MaxTime)
    BY <2>1, <2>2 DEF TypeOK
  <2>4. Kept(now) \in [Key -> Seq(0 .. MaxTime)]
    BY <1>2, <2>3
  <2> QED
    BY <2>2, <2>3, <2>4, LimitAssumption DEF TypeOK
<1> QED
  BY <1>1, <1>2 DEF Kept

\* What popping n entries leaves.
LEMMA RestOK ==
    ASSUME NEW b \in Seq(0 .. MaxTime), NEW n \in 0 .. Len(b)
    PROVE  /\ SubSeq(b, n + 1, Len(b)) \in Seq(0 .. MaxTime)
           /\ Len(SubSeq(b, n + 1, Len(b))) = Len(b) - n
           /\ n < Len(b) => SubSeq(b, n + 1, Len(b))[1] = b[n + 1]
           /\ n < Len(b) => b[n + 1] \in 0 .. MaxTime
<1>1. Len(b) \in Nat /\ b \in [1 .. Len(b) -> 0 .. MaxTime]
  BY LenProperties
<1>2. \A i \in n + 1 .. Len(b) : b[i] \in 0 .. MaxTime
  BY <1>1
<1> DEFINE rest == SubSeq(b, n + 1, Len(b))
<1>3. /\ rest \in Seq(0 .. MaxTime)
      /\ Len(rest) = IF n + 1 <= Len(b) THEN Len(b) - (n + 1) + 1 ELSE 0
      /\ \A i \in 1 .. Len(b) - (n + 1) + 1 : rest[i] = b[(n + 1) + i - 1]
  BY <1>1, <1>2, SubSeqProperties
<1> HIDE DEF rest
<1> DEFINE len == Len(b)
<1>4. n \in Nat /\ len \in Nat /\ n <= len
  BY <1>1
<1>5. Len(rest) = IF n + 1 <= len THEN len - (n + 1) + 1 ELSE 0
  BY <1>3
<1>6. \A i \in 1 .. len - (n + 1) + 1 : rest[i] = b[(n + 1) + i - 1]
  BY <1>3
<1>7. \A i \in 1 .. len : b[i] \in 0 .. MaxTime
  BY <1>1
<1> HIDE DEF len
<1>8. Len(rest) = len - n
  BY <1>4, <1>5
<1>9. n < len => rest[1] = b[n + 1]
  <2> SUFFICES ASSUME n < len PROVE rest[1] = b[n + 1]
    OBVIOUS
  <2>1. 1 \in 1 .. len - (n + 1) + 1 /\ (n + 1) + 1 - 1 = n + 1
    BY <1>4
  <2> QED
    BY <1>6, <2>1
<1>10. n < len => b[n + 1] \in 0 .. MaxTime
  BY <1>4, <1>7
<1> QED
  BY <1>3, <1>8, <1>9, <1>10 DEF rest, len

\* A bucket without room has lost none of its entries.
LEMMA FullUntouched ==
    ASSUME NEW k \in Key, NEW b \in Seq(0 .. MaxTime), Len(b) <= Limit[k], NEW n \in 0 .. Len(b),
           ~Room(k, SubSeq(b, n + 1, Len(b)))
    PROVE  n = 0 /\ Len(b) > 0
<1>1. Len(b) \in Nat /\ Limit[k] \in Nat \ {0}
  BY LenProperties, LimitAssumption
<1>2. Len(SubSeq(b, n + 1, Len(b))) = Len(b) - n
  BY RestOK
<1> QED
  BY <1>1, <1>2 DEF Room

\* What a check does to the variables it treats alike whatever it decides.
LEMMA UnderLockOK ==
    ASSUME TypeOK, NEW t \in Thread, UnderLock(t)
    PROVE  /\ call[t].key \in Key /\ call[t].now \in 0 .. MaxTime
           /\ (clock \in 0 .. MaxTime)'
           /\ (call \in [Thread -> [key : Key, now : 0 .. MaxTime] \union {NoCall}])'
           /\ (latest \in 0 .. MaxTime)'
           /\ (overtaken \in SUBSET Key)'
<1>1. call[t] \in [key : Key, now : 0 .. MaxTime]
  BY DEF TypeOK, UnderLock
<1> QED
  BY <1>1 DEF UnderLock, TypeOK

\* A step that checks no key keeps the invariant.
LEMMA IdleStep ==
    ASSUME IInv, Tick \/ (\E t \in Thread : ReadClock(t)) \/ UNCHANGED vars
    PROVE  IInv'
<1>1. CASE Tick
  <2>1. (clock \in 0 .. MaxTime)'
    BY <1>1, TimeAssumption DEF Tick, IInv, TypeOK
  <2>2. UNCHANGED <<hits, call, admitted, latest, overtaken, promised>>
    BY <1>1 DEF Tick
  <2> QED
    BY <2>1, <2>2 DEF IInv, TypeOK, PromiseOK, NoCall
<1>2. ASSUME NEW t \in Thread, ReadClock(t) PROVE IInv'
  <2>1. PICK k \in Key : call' = [call EXCEPT ![t] = [key |-> k, now |-> clock]]
    BY <1>2 DEF ReadClock
  <2>2. [key |-> k, now |-> clock] \in [key : Key, now : 0 .. MaxTime]
    BY DEF IInv, TypeOK
  <2>3. (call \in [Thread -> [key : Key, now : 0 .. MaxTime] \union {NoCall}])'
    BY <2>1, <2>2 DEF IInv, TypeOK
  <2> QED
    BY <1>2, <2>3 DEF ReadClock, IInv, TypeOK, PromiseOK
<1>3. CASE UNCHANGED vars
  BY <1>3 DEF vars, IInv, TypeOK, PromiseOK, NoCall
<1> QED
  BY <1>1, <1>2, <1>3

\* A request is let through.
LEMMA AdmitStep ==
    ASSUME IInv, NEW t \in Thread, Admit(t)
    PROVE  IInv'
<1> DEFINE k == call[t].key
           now == call[t].now
           kept == Kept(now)
<1>0. TypeOK /\ UnderLock(t)
  BY DEF IInv, Admit
<1>1. k \in Key /\ now \in 0 .. MaxTime
  BY <1>0, UnderLockOK
<1> HIDE DEF k, now
<1>2. kept \in [Key -> Seq(0 .. MaxTime)] /\ \A j \in Key : kept[j] \in {hits[j], <<>>} /\ Len(kept[j]) <= Limit[j]
  BY <1>0, <1>1, KeptOK
<1> HIDE DEF kept
<1>3. PICK n \in 0 .. Len(kept[k]) :
          /\ Room(k, SubSeq(kept[k], n + 1, Len(kept[k])))
          /\ hits' = [kept EXCEPT ![k] = Append(SubSeq(kept[k], n + 1, Len(kept[k])), now)]
  BY DEF Admit, k, now, kept
<1> DEFINE rest == SubSeq(kept[k], n + 1, Len(kept[k]))
<1>4. rest \in Seq(0 .. MaxTime)
  BY <1>1, <1>2, RestOK
<1> HIDE DEF rest
<1>5. Append(rest, now) \in Seq(0 .. MaxTime) /\ Len(Append(rest, now)) = Len(rest) + 1 /\ Len(rest) \in Nat
  BY <1>1, <1>4, AppendProperties, LenProperties
<1>6. Len(Append(rest, now)) <= Limit[k]
  BY <1>1, <1>3, <1>5, LimitAssumption DEF Room, rest
<1>7. hits' \in [Key -> Seq(0 .. MaxTime)] /\ \A j \in Key : Len(hits'[j]) <= Limit[j]
  BY <1>1, <1>2, <1>3, <1>5, <1>6 DEF rest
<1>8. admitted' \in [Key -> Seq(0 .. MaxTime)]
  <2>1. admitted' = [admitted EXCEPT ![k] = Append(admitted[k], now)]
    BY DEF Admit, k, now
  <2>2. admitted[k] \in Seq(0 .. MaxTime)
    BY <1>0, <1>1 DEF TypeOK
  <2>3. Append(admitted[k], now) \in Seq(0 .. MaxTime)
    BY <1>1, <2>2, AppendProperties
  <2> QED
    BY <1>0, <2>1, <2>3 DEF TypeOK
<1>9. promised' = [promised EXCEPT ![k] = 0]
  BY DEF Admit, k
<1>10. TypeOK'
  BY <1>0, <1>7, <1>8, <1>9, UnderLockOK DEF TypeOK
<1>11. ASSUME NEW j \in Key PROVE PromiseOK(j)'
  <2>1. CASE j = k
    BY <1>0, <1>9, <2>1 DEF PromiseOK, TypeOK
  <2>2. CASE j # k
    <3>1. hits'[j] = kept[j] /\ promised'[j] = promised[j]
      BY <1>0, <1>2, <1>3, <1>9, <2>2 DEF TypeOK
    <3> QED
      BY <1>2, <3>1 DEF PromiseOK, IInv
  <2> QED
    BY <2>1, <2>2
<1> QED
  BY <1>10, <1>11 DEF IInv

\* A refusal in full: the bucket has lost nothing, and the time told lies
\* beyond the expiry of its oldest entry.
LEMMA RefuseIs ==
    ASSUME TypeOK, NEW t \in Thread, Refuse(t)
    PROVE  LET k == call[t].key
               now == call[t].now
               kept == Kept(now)
           IN  /\ hits' = [kept EXCEPT ![k] = SubSeq(kept[k], 1, Len(kept[k]))]
               /\ kept[k] = hits[k] /\ hits[k] # <<>> /\ Len(hits[k]) > 0
               /\ ~Expired(hits[k][1], now)
               /\ \E at \in Nat :
                     /\ at > hits[k][1] + Window
                     /\ promised' = [promised EXCEPT ![k] = IF @ = 0 \/ at < @ THEN at ELSE @]
<1> DEFINE k == call[t].key
           now == call[t].now
           kept == Kept(now)
<1>0. UnderLock(t)
  BY DEF Refuse
<1>1. k \in Key /\ now \in 0 .. MaxTime
  BY <1>0, UnderLockOK
<1> HIDE DEF k, now
<1>2. kept[k] \in Seq(0 .. MaxTime) /\ kept[k] \in {hits[k], <<>>} /\ Len(kept[k]) <= Limit[k]
  BY <1>1, KeptOK
<1> HIDE DEF kept
<1> DEFINE rest(n) == SubSeq(kept[k], n + 1, Len(kept[k]))
           wait(n) == RetryAfter(now, rest(n)[1])
<1>3. PICK n \in 0 .. Len(kept[k]) :
          /\ ExpiredHead(kept[k], n, now)
          /\ ~Room(k, rest(n))
          /\ hits' = [kept EXCEPT ![k] = rest(n)]
          /\ \E s \in 0 .. wait(n) :
                 /\ s * Second <= wait(n) /\ wait(n) < (s + 1) * Second
                 /\ promised' = [promised EXCEPT ![k] =
                        IF @ = 0 \/ now + Header(s) * Second < @ THEN now + Header(s) * Second ELSE @]
  BY DEF Refuse, k, now, kept
<1>4. n = 0 /\ Len(kept[k]) > 0
  BY <1>1, <1>2, <1>3, FullUntouched
<1>5. kept[k] = hits[k] /\ hits[k] # <<>>
  BY <1>2, <1>4, EmptySeq
<1>6. hits[k] \in Seq(0 .. MaxTime) /\ Len(hits[k]) > 0 /\ Len(hits[k]) \in Nat
  BY <1>2, <1>4, <1>5, LenProperties
<1>7. ~Expired(hits[k][1], now)
  BY <1>3, <1>4, <1>5, <1>6 DEF ExpiredHead
<1>8. rest(n)[1] = hits[k][1] /\ hits[k][1] \in 0 .. MaxTime
  BY <1>4, <1>5, <1>6, RestOK
<1> HIDE DEF rest
<1>9. wait(n) \in Nat /\ now + wait(n) >= hits[k][1] + Window
  BY <1>1, <1>8, TimeAssumption DEF RetryAfter
<1> HIDE DEF wait
<1>10. PICK s \in 0 .. wait(n) :
          /\ s * Second <= wait(n) /\ wait(n) < (s + 1) * Second
          /\ promised' = [promised EXCEPT ![k] =
                 IF @ = 0 \/ now + Header(s) * Second < @ THEN now + Header(s) * Second ELSE @]
  BY <1>3
<1> DEFINE told == (s + 1) * Second
<1>11. told \in Nat
  BY <1>9, <1>10, TimeAssumption
<1>12. wait(n) < told /\ promised' = [promised EXCEPT ![k] = IF @ = 0 \/ now + told < @ THEN now + told ELSE @]
  BY <1>10 DEF Header
<1> HIDE DEF told
<1>13. now + told \in Nat /\ now + told > hits[k][1] + Window
  BY <1>1, <1>8, <1>9, <1>11, <1>12, TimeAssumption
<1>14. hits' = [kept EXCEPT ![k] = SubSeq(kept[k], 1, Len(kept[k]))]
  BY <1>3, <1>4 DEF rest
<1> QED
  BY <1>5, <1>6, <1>7, <1>12, <1>13, <1>14 DEF k, now, kept

\* A request is refused.
LEMMA RefuseStep ==
    ASSUME IInv, NEW t \in Thread, Refuse(t)
    PROVE  IInv'
<1> DEFINE k == call[t].key
           now == call[t].now
           kept == Kept(now)
<1>0. TypeOK /\ UnderLock(t)
  BY DEF IInv, Refuse
<1>1. k \in Key /\ now \in 0 .. MaxTime
  BY <1>0, UnderLockOK
<1>2. /\ hits' = [kept EXCEPT ![k] = SubSeq(kept[k], 1, Len(kept[k]))]
      /\ kept[k] = hits[k] /\ hits[k] # <<>> /\ Len(hits[k]) > 0
      /\ \E at \in Nat :
            /\ at > hits[k][1] + Window
            /\ promised' = [promised EXCEPT ![k] = IF @ = 0 \/ at < @ THEN at ELSE @]
  BY <1>0, RefuseIs
<1> HIDE DEF k, now
<1>3. kept \in [Key -> Seq(0 .. MaxTime)] /\ \A j \in Key : kept[j] \in {hits[j], <<>>} /\ Len(kept[j]) <= Limit[j]
  BY <1>0, <1>1, KeptOK
<1> HIDE DEF kept
<1> DEFINE rest == SubSeq(kept[k], 0 + 1, Len(kept[k]))
<1>4. kept[k] \in Seq(0 .. MaxTime) /\ 0 \in 0 .. Len(kept[k])
  BY <1>1, <1>3, LenProperties
<1>5. rest \in Seq(0 .. MaxTime) /\ Len(rest) = Len(kept[k]) - 0 /\ (0 < Len(kept[k]) => rest[1] = kept[k][0 + 1])
  BY <1>4, RestOK
<1>6. hits' = [kept EXCEPT ![k] = rest]
  BY <1>2
<1> HIDE DEF rest
<1>7. Len(rest) = Len(kept[k]) /\ rest[1] = hits[k][1]
  BY <1>2, <1>4, <1>5, LenProperties
<1>8. hits' \in [Key -> Seq(0 .. MaxTime)] /\ \A j \in Key : Len(hits'[j]) <= Limit[j]
  BY <1>1, <1>3, <1>5, <1>6, <1>7
<1>9. PICK at \in Nat :
            /\ at > hits[k][1] + Window
            /\ promised' = [promised EXCEPT ![k] = IF @ = 0 \/ at < @ THEN at ELSE @]
  BY <1>2
<1>10. promised' \in [Key -> Nat]
  BY <1>0, <1>1, <1>9 DEF TypeOK
<1>11. UNCHANGED admitted
  BY DEF Refuse
<1>12. TypeOK'
  BY <1>0, <1>8, <1>10, <1>11, UnderLockOK DEF TypeOK
<1>13. ASSUME NEW j \in Key PROVE PromiseOK(j)'
  <2>1. CASE j = k
    <3>1. hits'[k][1] = hits[k][1]
      BY <1>1, <1>3, <1>6, <1>7
    <3>2. promised'[k] = IF promised[k] = 0 \/ at < promised[k] THEN at ELSE promised[k]
      BY <1>0, <1>1, <1>9 DEF TypeOK
    <3>3. promised[k] # 0 => hits[k][1] + Window < promised[k]
      BY <1>1, <1>2 DEF IInv, PromiseOK
    <3> QED
      BY <1>9, <2>1, <3>1, <3>2, <3>3 DEF PromiseOK
  <2>2. CASE j # k
    <3>1. hits'[j] = kept[j] /\ promised'[j] = promised[j]
      BY <1>0, <1>3, <1>6, <1>9, <2>2 DEF TypeOK
    <3> QED
      BY <1>3, <3>1 DEF PromiseOK, IInv
  <2> QED
    BY <2>1, <2>2
<1> QED
  BY <1>12, <1>13 DEF IInv

\* Every step keeps the inductive invariant.
LEMMA InvStep == IInv /\ [Next]_vars => IInv'
  BY IdleStep, AdmitStep, RefuseStep DEF Next

\* So it holds in every reachable state.
LEMMA Invariance == Spec => []IInv
  BY InvInit, InvStep, PTL DEF Spec

\* Every reachable state has its types, and no bucket outgrows its limit
\* (SlidingWindowLimiter.check).
THEOREM TypeCorrect == Spec => []TypeOK
<1>1. IInv => TypeOK
  BY DEF IInv
<1> QED
  BY <1>1, Invariance, PTL

\* A refusal answers a client that has not been told a time yet, or comes before it.
LEMMA RefusedEarly ==
    ASSUME IInv, NEW t \in Thread, Refuse(t), promised[call[t].key] # 0
    PROVE  call[t].now < promised[call[t].key]
<1> DEFINE k == call[t].key
           now == call[t].now
<1>1. k \in Key /\ now \in 0 .. MaxTime
  BY UnderLockOK DEF IInv, Refuse
<1>2. hits[k] # <<>> /\ Len(hits[k]) > 0 /\ ~Expired(hits[k][1], now)
  BY RefuseIs DEF IInv
<1> HIDE DEF k, now
<1>3. hits[k][1] + Window < promised[k]
  BY <1>1, <1>2 DEF IInv, PromiseOK, k
<1>4. hits[k][1] \in Nat /\ promised[k] \in Nat
  <2>1. hits[k] \in Seq(0 .. MaxTime)
    BY <1>1 DEF IInv, TypeOK
  <2>2. hits[k] \in [1 .. Len(hits[k]) -> 0 .. MaxTime] /\ Len(hits[k]) \in Nat
    BY <2>1, LenProperties
  <2>3. hits[k][1] \in Nat
    BY <1>2, <2>2
  <2> QED
    BY <1>1, <2>3 DEF IInv, TypeOK
<1>5. now < promised[k]
  BY <1>1, <1>2, <1>3, <1>4, TimeAssumption DEF Expired
<1> QED
  BY <1>5 DEF k, now

\* Which thread a step checks for, and what it decides.
LEMMA CheckIs ==
    ASSUME IInv, [Next]_vars, NEW t \in Thread, NEW k \in Key, Checked(t, k)
    PROVE  call[t].key = k /\ ((Admit(t) /\ LetThrough(k)) \/ (Refuse(t) /\ ~LetThrough(k)))
<1>1. call[t].key = k /\ k # NoKey /\ call'[t] = NoCall /\ call[t] # NoCall
  BY DEF Checked, NoCall
<1>2. call[t] \in [key : Key, now : 0 .. MaxTime]
  BY <1>1 DEF IInv, TypeOK
<1>3. ~Tick /\ ~UNCHANGED vars /\ \A u \in Thread : ~ReadClock(u)
  BY <1>1 DEF Tick, ReadClock, vars, IInv, TypeOK
<1>4. PICK u \in Thread : Admit(u) \/ Refuse(u)
  BY <1>3 DEF Next
<1>5. u = t
  BY <1>1, <1>4 DEF Admit, Refuse, UnderLock, IInv, TypeOK
<1>6. ASSUME Admit(t)
      PROVE  LetThrough(k)
  <2>1. admitted' = [admitted EXCEPT ![k] = Append(@, call[t].now)]
    BY <1>1, <1>6 DEF Admit
  <2>2. admitted[k] \in Seq(0 .. MaxTime) /\ admitted'[k] = Append(admitted[k], call[t].now)
    BY <2>1 DEF IInv, TypeOK
  <2>3. Len(admitted'[k]) = Len(admitted[k]) + 1 /\ Len(admitted[k]) \in Nat
    BY <1>2, <2>2, AppendProperties, LenProperties
  <2> QED
    BY <2>3 DEF LetThrough
<1>7. Refuse(t) => ~LetThrough(k)
  BY DEF Refuse, LetThrough
<1>8. Admit(t) \/ Refuse(t)
  BY <1>4, <1>5
<1> QED
  BY <1>1, <1>6, <1>7, <1>8

\* One step lets a client through that comes back when it was told to.
LEMMA ToldInTime ==
    ASSUME IInv, [Next]_vars, NEW t \in Thread, NEW k \in Key,
           Checked(t, k), promised[k] # 0, call[t].now >= promised[k]
    PROVE  LetThrough(k)
<1> SUFFICES ASSUME Refuse(t), call[t].key = k
             PROVE  FALSE
  BY CheckIs
<1>1. call[t].now < promised[k]
  BY RefusedEarly
<1>2. promised[k] \in Nat /\ call[t].now \in Nat
  BY UnderLockOK DEF IInv, TypeOK, Refuse
<1> QED
  BY <1>1, <1>2

\* For any limits, window and interleaving: whoever heeds Retry-After, and is
\* not beaten to it, is let through (src/server/app/deps.py:52-56).
THEOREM HeaderSuffices == Spec => RetryAfterSuffices
<1>1. IInv /\ [Next]_vars =>
          \A t \in Thread, k \in Key :
              Checked(t, k) /\ promised[k] # 0 /\ call[t].now >= promised[k] => LetThrough(k)
  BY ToldInTime
<1> QED
  BY <1>1, Invariance, PTL DEF Spec, RetryAfterSuffices

(***************************************************************************)
(* The window is exact.                                                    *)
(***************************************************************************)
\* Bucket b is the end of a, and all of a that it leaves out has expired.
Remembers(a, b, now) ==
    /\ Len(b) <= Len(a)
    /\ \A i \in 1 .. Len(b) : b[i] = a[Len(a) - Len(b) + i]
    /\ \A i \in 1 .. Len(a) - Len(b) : Expired(a[i], now)

Ordered(a, now) ==
    /\ \A i, j \in 1 .. Len(a) : i <= j => a[i] <= a[j]
    /\ \A i \in 1 .. Len(a) : a[i] <= now

\* While no check of a key has been overtaken, its bucket holds every request
\* let through that any check to come can still count.
WindowOK(k) ==
    k \notin overtaken => Ordered(admitted[k], latest) /\ Remembers(admitted[k], hits[k], latest)

Stamps == 0 .. MaxTime

LEMMA StampAt ==
    ASSUME NEW s \in Seq(Stamps)
    PROVE  Len(s) \in Nat /\ DOMAIN s = 1 .. Len(s) /\ \A i \in 1 .. Len(s) : s[i] \in Int /\ s[i] \in Stamps
  BY LenProperties, TimeAssumption DEF Stamps

LEMMA Later ==
    ASSUME NEW a \in Seq(Stamps), NEW b \in Seq(Stamps), NEW then \in Int, NEW now \in Int,
           then <= now, Ordered(a, then), Remembers(a, b, then)
    PROVE  Ordered(a, now) /\ Remembers(a, b, now)
<1>1. Len(a) \in Nat /\ Len(b) \in Nat /\ \A i \in 1 .. Len(a) : a[i] \in Int
  BY StampAt
<1>2. Ordered(a, now)
  BY <1>1 DEF Ordered
<1>3. \A i \in 1 .. Len(a) - Len(b) : Expired(a[i], now)
  BY <1>1, TimeAssumption DEF Remembers, Expired
<1> QED
  BY <1>2, <1>3 DEF Remembers

\* A bucket that is evicted had nothing left to count, by a clock not ahead.
LEMMA EvictedOK ==
    ASSUME NEW a \in Seq(Stamps), NEW b \in Seq(Stamps), NEW clk \in Int, NEW now \in Int,
           clk <= now, Ordered(a, now), Remembers(a, b, now), Idle(b, clk)
    PROVE  Remembers(a, <<>>, now)
<1>1. /\ Len(a) \in Nat /\ Len(b) \in Nat /\ \A i \in 1 .. Len(a) : a[i] \in Int
  BY StampAt
<1>2. CASE b = <<>>
  BY <1>2
<1>3. CASE b # <<>>
  <2>1. Len(b) > 0 /\ Len(b) <= Len(a) /\ b[Len(b)] = a[Len(a)]
    BY <1>1, <1>3, EmptySeq DEF Remembers
  <2>2. Expired(a[Len(a)], now)
    BY <1>1, <1>3, <2>1, TimeAssumption DEF Idle, Expired
  <2>3. \A i \in 1 .. Len(a) : a[i] <= a[Len(a)]
    BY <1>1, <2>1 DEF Ordered
  <2>4. \A i \in 1 .. Len(a) : Expired(a[i], now)
    BY <1>1, <2>1, <2>2, <2>3, TimeAssumption DEF Expired
  <2> QED
    BY <1>1, <2>4, EmptySeq DEF Remembers
<1> QED
  BY <1>2, <1>3

\* What popping leaves, element by element.
LEMMA RestAt ==
    ASSUME NEW b \in Seq(Stamps), NEW n \in 0 .. Len(b)
    PROVE  LET rest == SubSeq(b, n + 1, Len(b)) IN
           /\ rest \in Seq(Stamps) /\ Len(rest) = Len(b) - n
           /\ \A i \in 1 .. Len(b) - n : rest[i] = b[n + i]
<1> DEFINE len == Len(b)
           rest == SubSeq(b, n + 1, len)
<1>1. len \in Nat /\ n \in Nat /\ n <= len
  BY StampAt
<1>2. rest \in Seq(Stamps) /\ Len(rest) = len - n
  BY RestOK DEF Stamps
<1>3. \A i \in 1 .. len - (n + 1) + 1 : rest[i] = b[(n + 1) + i - 1]
  <2>1. \A i \in n + 1 .. len : b[i] \in Stamps
    BY <1>1, StampAt
  <2> QED
    BY <1>1, <2>1, SubSeqProperties
<1> HIDE DEF rest, len
<1>4. \A i \in 1 .. len - n : rest[i] = b[n + i]
  <2> SUFFICES ASSUME NEW i \in 1 .. len - n
               PROVE  rest[i] = b[n + i]
    OBVIOUS
  <2>1. i \in 1 .. len - (n + 1) + 1 /\ (n + 1) + i - 1 = n + i
    BY <1>1
  <2> QED
    BY <1>3, <2>1
<1> QED
  BY <1>2, <1>4 DEF rest, len

LEMMA PoppedOK ==
    ASSUME NEW a \in Seq(Stamps), NEW b \in Seq(Stamps), NEW now \in Int,
           Remembers(a, b, now), NEW n \in 0 .. Len(b), ExpiredHead(b, n, now)
    PROVE  Remembers(a, SubSeq(b, n + 1, Len(b)), now)
<1> DEFINE la == Len(a)
           lb == Len(b)
           rest == SubSeq(b, n + 1, lb)
<1>1. la \in Nat /\ lb \in Nat /\ n \in Nat /\ n <= lb
  BY StampAt
<1>2. Len(rest) = lb - n /\ \A i \in 1 .. lb - n : rest[i] = b[n + i]
  BY RestAt
<1>3. /\ lb <= la
      /\ \A i \in 1 .. lb : b[i] = a[la - lb + i]
      /\ \A i \in 1 .. la - lb : Expired(a[i], now)
  BY DEF Remembers
<1>4. \A i \in 1 .. n : Expired(b[i], now)
  BY DEF ExpiredHead
<1> HIDE DEF la, lb, rest
<1>5. \A i \in 1 .. lb - n : rest[i] = a[la - (lb - n) + i]
  <2> SUFFICES ASSUME NEW i \in 1 .. lb - n
               PROVE  rest[i] = a[la - (lb - n) + i]
    OBVIOUS
  <2>1. n + i \in 1 .. lb /\ la - lb + (n + i) = la - (lb - n) + i
    BY <1>1
  <2> QED
    BY <1>2, <1>3, <2>1
<1>6. \A i \in 1 .. la - (lb - n) : Expired(a[i], now)
  <2> SUFFICES ASSUME NEW i \in 1 .. la - (lb - n), ~(i \in 1 .. la - lb)
               PROVE  Expired(a[i], now)
    BY <1>3
  <2>1. i - (la - lb) \in 1 .. n /\ i - (la - lb) \in 1 .. lb /\ la - lb + (i - (la - lb)) = i
    BY <1>1, <1>3
  <2>2. b[i - (la - lb)] = a[i]
    BY <1>3, <2>1
  <2> QED
    BY <1>4, <2>1, <2>2
<1>7. lb - n <= la
  BY <1>1, <1>3
<1>8. Remembers(a, rest, now)
  BY <1>2, <1>5, <1>6, <1>7 DEF Remembers, la
<1> QED
  BY <1>8 DEF rest, lb

LEMMA AppendedOK ==
    ASSUME NEW a \in Seq(Stamps), NEW b \in Seq(Stamps), NEW now \in Stamps,
           Ordered(a, now), Remembers(a, b, now)
    PROVE  Ordered(Append(a, now), now) /\ Remembers(Append(a, now), Append(b, now), now)
<1> DEFINE la == Len(a)
           lb == Len(b)
           c == Append(a, now)
           d == Append(b, now)
<1>1. la \in Nat /\ lb \in Nat /\ now \in Int /\ \A i \in 1 .. la : a[i] \in Int
  BY StampAt, TimeAssumption DEF Stamps
<1>2. Len(c) = la + 1 /\ c[la + 1] = now /\ \A i \in 1 .. la : c[i] = a[i]
  BY AppendProperties
<1>3. Len(d) = lb + 1 /\ d[lb + 1] = now /\ \A i \in 1 .. lb : d[i] = b[i]
  BY AppendProperties
<1>4. /\ lb <= la
      /\ \A i \in 1 .. lb : b[i] = a[la - lb + i]
      /\ \A i \in 1 .. la - lb : Expired(a[i], now)
  BY DEF Remembers
<1>5. /\ \A i, j \in 1 .. la : i <= j => a[i] <= a[j]
      /\ \A i \in 1 .. la : a[i] <= now
  BY DEF Ordered
<1> HIDE DEF la, lb, c, d
<1>6. \A i \in 1 .. la + 1 : c[i] <= now
  BY <1>1, <1>2, <1>5
<1>7. \A i, j \in 1 .. la + 1 : i <= j => c[i] <= c[j]
  <2> SUFFICES ASSUME NEW i \in 1 .. la + 1, NEW j \in 1 .. la + 1, i <= j
               PROVE  c[i] <= c[j]
    OBVIOUS
  <2>1. CASE j = la + 1
    BY <1>2, <1>6, <2>1
  <2>2. CASE j # la + 1
    <3>1. i \in 1 .. la /\ j \in 1 .. la
      BY <1>1, <2>2
    <3> QED
      BY <1>2, <1>5, <3>1
  <2> QED
    BY <2>1, <2>2
<1>8. \A i \in 1 .. lb + 1 : d[i] = c[(la + 1) - (lb + 1) + i]
  <2> SUFFICES ASSUME NEW i \in 1 .. lb + 1
               PROVE  d[i] = c[(la + 1) - (lb + 1) + i]
    OBVIOUS
  <2>1. (la + 1) - (lb + 1) + i = la - lb + i
    BY <1>1
  <2>2. CASE i = lb + 1
    <3>1. la - lb + i = la + 1
      BY <1>1, <2>2
    <3> QED
      BY <1>2, <1>3, <2>1, <2>2, <3>1
  <2>3. CASE i # lb + 1
    <3>1. i \in 1 .. lb /\ la - lb + i \in 1 .. la
      BY <1>1, <1>4, <2>3
    <3> QED
      BY <1>2, <1>3, <1>4, <2>1, <3>1
  <2> QED
    BY <2>2, <2>3
<1>9. \A i \in 1 .. (la + 1) - (lb + 1) : Expired(c[i], now)
  <2> SUFFICES ASSUME NEW i \in 1 .. (la + 1) - (lb + 1)
               PROVE  Expired(c[i], now)
    OBVIOUS
  <2>1. i \in 1 .. la - lb /\ i \in 1 .. la
    BY <1>1
  <2> QED
    BY <1>2, <1>4, <2>1
<1>10. Ordered(c, now)
  BY <1>2, <1>6, <1>7 DEF Ordered
<1>11. Remembers(c, d, now)
  BY <1>1, <1>2, <1>3, <1>4, <1>8, <1>9 DEF Remembers
<1> QED
  BY <1>10, <1>11 DEF c, d

\* What a bucket holds once its head is popped is what the window holds.
LEMMA CountedOK ==
    ASSUME NEW k, NEW b \in Seq(Stamps), NEW now \in Stamps, admitted[k] \in Seq(Stamps),
           Ordered(admitted[k], now), Remembers(admitted[k], b, now),
           NEW n \in 0 .. Len(b), ExpiredHead(b, n, now)
    PROVE  Cardinality(InWindow(k, now)) = Len(SubSeq(b, n + 1, Len(b)))
<1> DEFINE a == admitted[k]
           la == Len(a)
           rest == SubSeq(b, n + 1, Len(b))
           lr == Len(rest)
           lb == Len(b)
<1>0. a \in Seq(Stamps) /\ Remembers(a, b, now) /\ now \in Int
  BY TimeAssumption DEF Stamps
<1> HIDE DEF a
<1>1. Remembers(a, rest, now)
  BY <1>0, PoppedOK
<1> USE DEF a
<1>2. la \in Nat /\ DOMAIN a = 1 .. la /\ now \in Int /\ \A i \in 1 .. la : a[i] \in Int /\ a[i] \in Stamps
  BY StampAt, TimeAssumption DEF Stamps
<1>3. rest \in Seq(Stamps) /\ lr = lb - n /\ lb \in Nat /\ \A i \in 1 .. lb - n : rest[i] = b[n + i]
  BY RestAt, StampAt
<1>4. n < lb => ~Expired(b[n + 1], now)
  BY DEF ExpiredHead
<1>5. /\ lr <= la
      /\ \A i \in 1 .. lr : rest[i] = a[la - lr + i]
      /\ \A i \in 1 .. la - lr : Expired(a[i], now)
  BY <1>1 DEF Remembers
<1>6. /\ \A i, j \in 1 .. la : i <= j => a[i] <= a[j]
      /\ \A i \in 1 .. la : a[i] <= now
  BY DEF Ordered
<1>7. InWindow(k, now) = {i \in 1 .. la : a[i] \in now - Window .. now}
  BY <1>2 DEF InWindow
<1> HIDE DEF a, la, rest, lr, lb
<1>8. lr \in Nat /\ n \in Nat
  BY <1>3, StampAt DEF lr
<1>9. \A i \in 1 .. la : a[i] \in now - Window .. now <=> ~Expired(a[i], now)
  BY <1>2, <1>6, TimeAssumption DEF Expired
<1>10. lr > 0 => ~Expired(a[la - lr + 1], now)
  <2> SUFFICES ASSUME lr > 0
               PROVE  ~Expired(a[la - lr + 1], now)
    OBVIOUS
  <2>1. 1 \in 1 .. lr /\ 1 \in 1 .. lb - n /\ n < lb
    BY <1>3, <1>8
  <2>2. rest[1] = a[la - lr + 1] /\ rest[1] = b[n + 1]
    BY <1>3, <1>5, <2>1
  <2> QED
    BY <1>4, <2>1, <2>2
<1>11. \A i \in la - lr + 1 .. la : ~Expired(a[i], now)
  <2> SUFFICES ASSUME NEW i \in la - lr + 1 .. la
               PROVE  ~Expired(a[i], now)
    OBVIOUS
  <2>1. lr > 0 /\ i \in 1 .. la /\ la - lr + 1 \in 1 .. la /\ la - lr + 1 <= i
    BY <1>2, <1>5, <1>8
  <2>2. a[la - lr + 1] <= a[i]
    BY <1>6, <2>1
  <2> QED
    BY <1>2, <1>10, <2>1, <2>2, TimeAssumption DEF Expired
<1>12. \A i \in 1 .. la : i \in 1 .. la - lr \/ i \in la - lr + 1 .. la
  BY <1>2, <1>8
<1>13. \A i \in la - lr + 1 .. la : i \in 1 .. la
  BY <1>2, <1>5, <1>8
<1>14. InWindow(k, now) = la - lr + 1 .. la
  BY <1>5, <1>7, <1>9, <1>11, <1>12, <1>13
<1>15. Cardinality(la - lr + 1 .. la) = lr
  <2>1. la - lr + 1 \in Int /\ la \in Int
    BY <1>2, <1>8
  <2>2. Cardinality(la - lr + 1 .. la) = IF la - lr + 1 > la THEN 0 ELSE la - (la - lr + 1) + 1
    BY <2>1, FS_Interval
  <2> QED
    BY <1>2, <1>8, <2>2
<1> QED
  BY <1>14, <1>15 DEF lr, rest

WInv == \A k \in Key : WindowOK(k)

\* Eviction by any check forgets nothing that later ones count.
LEMMA KeptRemembers ==
    ASSUME IInv, WInv, NEW now \in Stamps, NEW next \in Stamps, now <= next, latest <= next,
           NEW k \in Key, k \notin overtaken
    PROVE  /\ Kept(now)[k] \in Seq(Stamps) /\ admitted[k] \in Seq(Stamps)
           /\ Ordered(admitted[k], next) /\ Remembers(admitted[k], Kept(now)[k], next)
<1>1. /\ admitted[k] \in Seq(Stamps) /\ hits[k] \in Seq(Stamps)
      /\ now \in Int /\ next \in Int /\ latest \in Int
  BY TimeAssumption DEF IInv, TypeOK, Stamps
<1>2. Ordered(admitted[k], latest) /\ Remembers(admitted[k], hits[k], latest)
  BY DEF WInv, WindowOK
<1>3. Ordered(admitted[k], next) /\ Remembers(admitted[k], hits[k], next)
  BY <1>1, <1>2, Later
<1>4. Kept(now)[k] = hits[k] \/ (Kept(now)[k] = <<>> /\ Idle(hits[k], now))
  BY DEF Kept
<1>5. Idle(hits[k], now) => Remembers(admitted[k], <<>>, next)
  BY <1>1, <1>3, EvictedOK
<1>6. Kept(now)[k] \in Seq(Stamps)
  BY KeptOK DEF IInv, Stamps
<1> QED
  BY <1>1, <1>3, <1>4, <1>5, <1>6

\* A check that nothing has overtaken counts with the latest stamp so far.
LEMMA NotOvertaken ==
    ASSUME IInv, NEW t \in Thread, UnderLock(t)
    PROVE  /\ call[t].key \in Key /\ call[t].now \in Stamps
           /\ latest' \in Stamps /\ call[t].now <= latest' /\ latest <= latest'
           /\ overtaken \subseteq overtaken'
           /\ call[t].key \notin overtaken' => latest' = call[t].now
<1>1. call[t].key \in Key /\ call[t].now \in Stamps /\ latest \in Stamps
  BY UnderLockOK DEF IInv, TypeOK, Stamps
<1>2. call[t].now \in Int /\ latest \in Int
  BY <1>1, TimeAssumption DEF Stamps
<1> QED
  BY <1>1, <1>2 DEF UnderLock

\* A request let through.
LEMMA AdmitRemembers ==
    ASSUME IInv, WInv, NEW t \in Thread, Admit(t)
    PROVE  /\ WInv'
           /\ call[t].key \notin overtaken' =>
                  Cardinality(InWindow(call[t].key, call[t].now)) < Limit[call[t].key]
<1> DEFINE k == call[t].key
           now == call[t].now
           kept == Kept(now)
<1>1. UnderLock(t)
  BY DEF Admit
<1>2. /\ k \in Key /\ now \in Stamps /\ latest' \in Stamps /\ now <= latest' /\ latest <= latest'
      /\ overtaken \subseteq overtaken'
      /\ k \notin overtaken' => latest' = now
  BY <1>1, NotOvertaken
<1>3. hits' = [kept EXCEPT ![k] = hits'[k]] /\ admitted' = [admitted EXCEPT ![k] = Append(admitted[k], now)]
  <2>1. kept \in [Key -> Seq(Stamps)]
    BY <1>2, KeptOK DEF IInv, Stamps
  <2> QED
    BY <1>2, <2>1 DEF Admit
<1>4. PICK n \in 0 .. Len(kept[k]) :
          /\ ExpiredHead(kept[k], n, now)
          /\ Room(k, SubSeq(kept[k], n + 1, Len(kept[k])))
          /\ hits' = [kept EXCEPT ![k] = Append(SubSeq(kept[k], n + 1, Len(kept[k])), now)]
  BY DEF Admit
<1> HIDE DEF k, now
<1>5. kept \in [Key -> Seq(Stamps)] /\ admitted \in [Key -> Seq(Stamps)]
  BY <1>2, KeptOK DEF IInv, TypeOK, Stamps
<1>6. ASSUME NEW j \in Key, j \notin overtaken'
      PROVE  Ordered(admitted[j], latest') /\ Remembers(admitted[j], kept[j], latest')
  BY <1>2, <1>6, KeptRemembers
<1> HIDE DEF kept
<1> DEFINE rest == SubSeq(kept[k], n + 1, Len(kept[k]))
<1>7. kept[k] \in Seq(Stamps) /\ admitted[k] \in Seq(Stamps) /\ now \in Int
  BY <1>2, <1>5, TimeAssumption DEF Stamps
<1>8. rest \in Seq(Stamps)
  BY <1>7, RestAt
<1>9. ASSUME k \notin overtaken'
      PROVE  /\ Ordered(admitted'[k], latest') /\ Remembers(admitted'[k], hits'[k], latest')
             /\ Cardinality(InWindow(k, now)) = Len(rest)
  <2>1. latest' = now /\ Ordered(admitted[k], now) /\ Remembers(admitted[k], kept[k], now)
    BY <1>2, <1>6, <1>9
  <2>2. Remembers(admitted[k], rest, now)
    BY <1>4, <1>7, <2>1, PoppedOK
  <2>3. Cardinality(InWindow(k, now)) = Len(rest)
    BY <1>2, <1>4, <1>7, <2>1, CountedOK
  <2> HIDE DEF rest
  <2>4. Ordered(Append(admitted[k], now), now) /\ Remembers(Append(admitted[k], now), Append(rest, now), now)
    BY <1>2, <1>7, <1>8, <2>1, <2>2, AppendedOK
  <2>5. admitted'[k] = Append(admitted[k], now) /\ hits'[k] = Append(rest, now)
    BY <1>2, <1>3, <1>4, <1>5 DEF rest
  <2> QED
    BY <2>1, <2>3, <2>4, <2>5
<1>10. ASSUME NEW j \in Key, j # k, j \notin overtaken'
       PROVE  Ordered(admitted'[j], latest') /\ Remembers(admitted'[j], hits'[j], latest')
  <2>1. admitted'[j] = admitted[j] /\ hits'[j] = kept[j]
    BY <1>3, <1>5, <1>10
  <2> QED
    BY <1>6, <1>10, <2>1
<1>11. WInv'
  BY <1>9, <1>10 DEF WInv, WindowOK
<1>12. Len(rest) < Limit[k]
  BY <1>4 DEF Room
<1> QED
  BY <1>9, <1>11, <1>12 DEF k, now

\* A request refused.
LEMMA RefuseRemembers ==
    ASSUME IInv, WInv, NEW t \in Thread, Refuse(t)
    PROVE  /\ WInv'
           /\ call[t].key \notin overtaken' =>
                  ~(Cardinality(InWindow(call[t].key, call[t].now)) < Limit[call[t].key])
<1> DEFINE k == call[t].key
           now == call[t].now
           kept == Kept(now)
<1>1. UnderLock(t)
  BY DEF Refuse
<1>2. /\ k \in Key /\ now \in Stamps /\ latest' \in Stamps /\ now <= latest' /\ latest <= latest'
      /\ overtaken \subseteq overtaken'
      /\ k \notin overtaken' => latest' = now
  BY <1>1, NotOvertaken
<1>3. UNCHANGED admitted
  BY DEF Refuse
<1>4. PICK n \in 0 .. Len(kept[k]) :
          /\ ExpiredHead(kept[k], n, now)
          /\ ~Room(k, SubSeq(kept[k], n + 1, Len(kept[k])))
          /\ hits' = [kept EXCEPT ![k] = SubSeq(kept[k], n + 1, Len(kept[k]))]
  BY DEF Refuse
<1> HIDE DEF k, now
<1>5. kept \in [Key -> Seq(Stamps)] /\ admitted \in [Key -> Seq(Stamps)]
  BY <1>2, KeptOK DEF IInv, TypeOK, Stamps
<1>6. ASSUME NEW j \in Key, j \notin overtaken'
      PROVE  Ordered(admitted[j], latest') /\ Remembers(admitted[j], kept[j], latest')
  BY <1>2, <1>6, KeptRemembers
<1> HIDE DEF kept
<1> DEFINE rest == SubSeq(kept[k], n + 1, Len(kept[k]))
<1>7. kept[k] \in Seq(Stamps) /\ admitted[k] \in Seq(Stamps) /\ now \in Int
  BY <1>2, <1>5, TimeAssumption DEF Stamps
<1>8. ASSUME k \notin overtaken'
      PROVE  /\ Ordered(admitted[k], latest') /\ Remembers(admitted[k], rest, latest')
             /\ Cardinality(InWindow(k, now)) = Len(rest)
  <2>1. latest' = now /\ Ordered(admitted[k], now) /\ Remembers(admitted[k], kept[k], now)
    BY <1>2, <1>6, <1>8
  <2>2. Remembers(admitted[k], rest, now)
    BY <1>4, <1>7, <2>1, PoppedOK
  <2>3. Cardinality(InWindow(k, now)) = Len(rest)
    BY <1>2, <1>4, <1>7, <2>1, CountedOK
  <2> QED
    BY <2>1, <2>2, <2>3
<1>9. hits'[k] = rest /\ \A j \in Key \ {k} : hits'[j] = kept[j]
  BY <1>2, <1>4, <1>5
<1>10. WInv'
  BY <1>3, <1>6, <1>8, <1>9 DEF WInv, WindowOK
<1>11. ~(Len(rest) < Limit[k])
  BY <1>4 DEF Room
<1> QED
  BY <1>8, <1>10, <1>11 DEF k, now

LEMMA WindowStep == IInv /\ WInv /\ [Next]_vars => WInv'
<1> SUFFICES ASSUME IInv, WInv, [Next]_vars
             PROVE  WInv'
  OBVIOUS
<1>1. CASE UNCHANGED <<hits, admitted, latest, overtaken>>
  BY <1>1 DEF WInv, WindowOK
<1> QED
  BY <1>1, AdmitRemembers, RefuseRemembers DEF Next, Tick, ReadClock, vars

LEMMA WindowInvariance == Spec => [](IInv /\ WInv)
<1>1. Init => WInv
  <2> SUFFICES ASSUME Init, NEW k \in Key
               PROVE  WindowOK(k)
    BY DEF WInv
  <2>1. admitted[k] = <<>> /\ hits[k] = <<>> /\ Len(<<>>) = 0
    BY EmptySeq DEF Init
  <2> QED
    BY <2>1 DEF WindowOK, Ordered, Remembers
<1> QED
  BY <1>1, InvInit, InvStep, WindowStep, PTL DEF Spec

\* For any limits, window, number of keys and interleaving: a check that none
\* has overtaken counts exactly the requests let through in the window before it
\* (SlidingWindowLimiter.check and _evict, src/server/app/ratelimit.py).
THEOREM WindowIsExact == Spec => ExactWindow
<1>1. IInv /\ WInv /\ [Next]_vars =>
          \A t \in Thread, k \in Key :
              Checked(t, k) /\ k \notin overtaken' =>
                  (LetThrough(k) <=> Cardinality(InWindow(k, call[t].now)) < Limit[k])
  <2> SUFFICES ASSUME IInv, WInv, [Next]_vars, NEW t \in Thread, NEW k \in Key,
                      Checked(t, k), k \notin overtaken'
               PROVE  LetThrough(k) <=> Cardinality(InWindow(k, call[t].now)) < Limit[k]
    OBVIOUS
  <2>1. call[t].key = k
    BY CheckIs
  <2>2. CASE Admit(t) /\ LetThrough(k)
    BY <2>1, <2>2, AdmitRemembers
  <2>3. CASE Refuse(t) /\ ~LetThrough(k)
    BY <2>1, <2>3, RefuseRemembers
  <2> QED
    BY <2>2, <2>3, CheckIs
<1> QED
  BY <1>1, WindowInvariance, PTL DEF Spec, ExactWindow
=============================================================================
