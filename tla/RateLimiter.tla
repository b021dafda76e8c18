---------------------------- MODULE RateLimiter ----------------------------
(***************************************************************************)
(* The sliding-window limiter in front of the auth and sync routes         *)
(* (SlidingWindowLimiter in src/server/app/ratelimit.py, rate_limit in     *)
(* src/server/app/deps.py).  A request reads the clock, and only then      *)
(* takes the lock under which it evicts, prunes, decides and records.      *)
(*                                                                         *)
(* Time is counted in ticks, several to the second, because the stamps are *)
(* floats and the Retry-After header is whole seconds.                     *)
(***************************************************************************)
EXTENDS Integers, Sequences, FiniteSets

CONSTANTS Thread,      \* requests in flight at once
          Key,         \* "<route class>:<client ip>"
          NoKey,
          Limit,       \* per key: requests allowed per window
          Window,      \* in ticks
          Second,      \* ticks per second
          MaxEntries,  \* buckets above which idle ones are evicted
          MaxTime      \* bound: the clock stops here

ASSUME LimitAssumption == Limit \in [Key -> Nat \ {0}]
ASSUME TimeAssumption == Window \in Nat /\ Second \in Nat \ {0} /\ MaxTime \in Nat
ASSUME EntriesAssumption == MaxEntries \in Nat
ASSUME NoKeyAssumption == NoKey \notin Key

VARIABLES clock,      \* time.monotonic()
          hits,       \* _hits: per key its bucket of stamps, oldest entry first
          call,       \* per thread: the key it checks and the clock it has read
          admitted,   \* history: per key the stamps of all requests let through
          latest,     \* history: the largest stamp any check has run with
          overtaken,  \* history: keys checked with a stamp below latest
          promised    \* history: per key the earliest retry time told to a refused
                      \* client since a request was last let through, or 0

vars == <<clock, hits, call, admitted, latest, overtaken, promised>>

NoCall == [key |-> NoKey, now |-> 0]

Init ==
    /\ clock = 0
    /\ hits = [k \in Key |-> <<>>]
    /\ call = [t \in Thread |-> NoCall]
    /\ admitted = [k \in Key |-> <<>>]
    /\ latest = 0
    /\ overtaken = {}
    /\ promised = [k \in Key |-> 0]

\* Time passes.
Tick ==
    /\ clock < MaxTime
    /\ clock' = clock + 1
    /\ UNCHANGED <<hits, call, admitted, latest, overtaken, promised>>

\* check: the clock is read before the lock is taken.
ReadClock(t) ==
    /\ call[t] = NoCall
    /\ \E k \in Key : call' = [call EXCEPT ![t] = [key |-> k, now |-> clock]]
    /\ UNCHANGED <<clock, hits, admitted, latest, overtaken, promised>>

Expired(stamp, now) == now - stamp > Window

\* Mutant: a bucket goes when its oldest entry has expired.
IdleByHead(b, now) == b = <<>> \/ Expired(b[1], now)

\* _evict: a bucket whose last entry has expired.  An absent key and an empty
\* bucket are the same: no check leaves an empty bucket behind.
Idle(b, now) == b = <<>> \/ Expired(b[Len(b)], now)

\* The buckets once _evict has run, if it has to.
Kept(now) ==
    IF Cardinality({k \in Key : hits[k] # <<>>}) > MaxEntries
    THEN [k \in Key |-> IF Idle(hits[k], now) THEN <<>> ELSE hits[k]]
    ELSE hits

\* Mutant: an entry exactly one window old is pruned too.
ExpiredHeadEagerly(b, n, now) ==
    /\ \A i \in 1 .. n : now - b[i] >= Window
    /\ n < Len(b) => now - b[n + 1] < Window

\* The while loop of check pops the first n entries of b, and stops.
ExpiredHead(b, n, now) ==
    /\ \A i \in 1 .. n : Expired(b[i], now)
    /\ n < Len(b) => ~Expired(b[n + 1], now)

\* Mutant: one request more is let through.
RoomForOneMore(k, rest) == Len(rest) <= Limit[k]

Room(k, rest) == Len(rest) < Limit[k]

\* retry_after when the oldest entry left is this stamp.
RetryAfter(now, oldest) == IF now - oldest < Window THEN Window - (now - oldest) ELSE 0

\* Mutant: the header is the time rounded down.
HeaderRoundedDown(seconds) == seconds

\* The Retry-After header: int(retry_after) + 1, for a retry_after of this many whole seconds.
Header(seconds) == seconds + 1

\* What check does under the lock whatever it decides; a stamp older than one
\* already used has been overtaken on its way to the lock.
UnderLock(t) ==
    /\ call[t] # NoCall
    /\ call' = [call EXCEPT ![t] = NoCall]
    /\ latest' = IF call[t].now > latest THEN call[t].now ELSE latest
    /\ overtaken' = IF call[t].now < latest THEN overtaken \union {call[t].key} ELSE overtaken
    /\ UNCHANGED clock

\* check, when the bucket has room: the stamp is appended.
Admit(t) ==
    LET k == call[t].key
        now == call[t].now
    IN  /\ UnderLock(t)
        /\ LET kept == Kept(now)
           IN  \E n \in 0 .. Len(kept[k]) :
                   LET rest == SubSeq(kept[k], n + 1, Len(kept[k]))
                   IN  /\ ExpiredHead(kept[k], n, now)
                       /\ Room(k, rest)
                       /\ hits' = [kept EXCEPT ![k] = Append(rest, now)]
        /\ admitted' = [admitted EXCEPT ![k] = Append(@, now)]
        /\ promised' = [promised EXCEPT ![k] = 0]

\* check, when it has none, and the 429 of rate_limit.
Refuse(t) ==
    LET k == call[t].key
        now == call[t].now
    IN  /\ UnderLock(t)
        /\ LET kept == Kept(now)
           IN  \E n \in 0 .. Len(kept[k]) :
                   LET rest == SubSeq(kept[k], n + 1, Len(kept[k]))
                       wait == RetryAfter(now, rest[1])
                   IN  /\ ExpiredHead(kept[k], n, now)
                       /\ ~Room(k, rest)
                       /\ hits' = [kept EXCEPT ![k] = rest]
                       /\ \E s \in 0 .. wait :
                              LET at == now + Header(s) * Second
                              IN  /\ s * Second <= wait /\ wait < (s + 1) * Second
                                  /\ promised' = [promised EXCEPT ![k] =
                                         IF @ = 0 \/ at < @ THEN at ELSE @]
        /\ UNCHANGED admitted

Next == Tick \/ \E t \in Thread : ReadClock(t) \/ Admit(t) \/ Refuse(t)

Spec == Init /\ [][Next]_vars

(***************************************************************************)
(* Properties.                                                             *)
(***************************************************************************)
\* Types; a bucket never holds more than its limit.
TypeOK ==
    /\ clock \in 0 .. MaxTime
    /\ hits \in [Key -> Seq(0 .. MaxTime)]
    /\ \A k \in Key : Len(hits[k]) <= Limit[k]
    /\ call \in [Thread -> [key : Key, now : 0 .. MaxTime] \union {NoCall}]
    /\ admitted \in [Key -> Seq(0 .. MaxTime)]
    /\ latest \in 0 .. MaxTime
    /\ overtaken \in SUBSET Key
    /\ promised \in [Key -> Nat]

\* The requests let through during the window that ends at now.
InWindow(k, now) == {i \in DOMAIN admitted[k] : admitted[k][i] \in now - Window .. now}

Checked(t, k) == call[t].key = k /\ k # NoKey /\ call'[t] = NoCall

LetThrough(k) == admitted'[k] # admitted[k]

\* As long as no check of a key has been overtaken between reading the clock
\* and taking the lock, the limiter lets a request through exactly when fewer
\* than the limit were let through in the window before it: eviction and
\* pruning forget nothing that still counts and keep nothing that does not.
ExactWindow ==
    [][\A t \in Thread, k \in Key :
           Checked(t, k) /\ k \notin overtaken' =>
               (LetThrough(k) <=> Cardinality(InWindow(k, call[t].now)) < Limit[k])]_vars

\* Whatever overtakes what: a client that was refused, waits for as long as the
\* Retry-After header says and finds that nobody was let through in between, is
\* let through (src/server/app/deps.py:52-56).
RetryAfterSuffices ==
    [][\A t \in Thread, k \in Key :
           Checked(t, k) /\ promised[k] # 0 /\ call[t].now >= promised[k] => LetThrough(k)]_vars
=============================================================================
