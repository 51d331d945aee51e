-------------------------- MODULE ClientPoolProofs --------------------------
(***************************************************************************)
(* Theorems about the key pool for every list of keys and any number of    *)
(* threads.  The argument: the lock makes a request atomic (Atomic), so    *)
(* the cursor laps the ring, and a request that fails over has used the    *)
(* two clients the cursor then passes (Lap).                               *)
(***************************************************************************)
EXTENDS ClientPool, TLAPS

DistinctKeys == \A i, j \in 1 .. Len(keys) : keys[i] = keys[j] => i = j

\* Requests exist when the pool does, and the one that holds the lock has
\* been sent with the client of the cursor, then with the one after it.
AtomicFor(t) ==
    /\ pc[t] # "idle" => built
    /\ pc[t] \in {"primary", "failover"} => lock = t /\ primary[t] = cursor
    /\ pc[t] \in {"idle", "waiting"} => tried[t] = <<>>
    /\ pc[t] = "primary"  => Len(tried[t]) = 1
    /\ pc[t] = "failover" =>
         /\ HasOther /\ Len(tried[t]) = 2
         /\ tried[t][2] = Key(AdvanceIndex(cursor))
    /\ pc[t] \in {"primary", "failover"} => tried[t][1] = Key(cursor)
Atomic == \A t \in Callers : AtomicFor(t)

\* The clients the cursor has passed have one turn more than the others.
Lap == IF built
       THEN \E laps \in Nat : \A i \in Clients :
                turns[Key(i)] = IF i < cursor THEN laps + 1 ELSE laps
       ELSE cursor = 0 /\ last = Blank /\ turns = [k \in Keys |-> 0]

Complete == built => read = Len(saved)

PoolInv == TypeOK /\ DistinctKeys /\ Complete /\ Atomic /\ Lap

\* The ring closes: after the last client comes the first.
LEMMA Advance ==
    ASSUME NEW n \in Nat \ {0}, NEW i \in 0 .. n - 1
    PROVE  /\ (i + 1) % n = IF i + 1 = n THEN 0 ELSE i + 1
           /\ (((i + 1) % n) + 1) % n = (i + 2) % n
OBVIOUS

-----------------------------------------------------------------------------
\* The definitions every proof below expands.
USE DEF Clients, Key, AtomicFor

\* Before the first entry is read there is nothing to tell apart.
LEMMA InitInv == Init => PoolInv
<1> SUFFICES ASSUME Init
             PROVE  PoolInv
  OBVIOUS
<1>1. TypeOK
  <2>1. /\ saved \in Seq(Entries) /\ read \in 0 .. Len(saved)
        /\ keys \in Seq(Keys)
    BY PoolAssumption DEF Init
  <2>2. tried \in [Callers -> Seq(Keys)]
    BY DEF Init
  <2> QED
    BY <2>1, <2>2 DEF Init, TypeOK
<1>2. DistinctKeys /\ Complete
  BY DEF Init, DistinctKeys, Complete
<1>3. Atomic
  BY DEF Init, Atomic
<1>4. Lap
  BY DEF Init, Lap
<1> QED
  BY <1>1, <1>2, <1>3, <1>4 DEF PoolInv

\* A pool has a client, and the ring leads from each client to another.
LEMMA RingFacts ==
    ASSUME TypeOK, built
    PROVE  /\ Len(keys) \in Nat \ {0} /\ cursor \in 0 .. Len(keys) - 1
           /\ \A i \in 0 .. Len(keys) - 1 :
                /\ Key(i) \in Keys
                /\ AdvanceIndex(i) \in 0 .. Len(keys) - 1
                /\ AdvanceIndex(i) = (i + 1) % Len(keys)
                /\ HasOther => AdvanceIndex(i) # i
<1>1. Len(keys) \in Nat \ {0} /\ cursor \in 0 .. Len(keys) - 1
  BY DEF TypeOK
<1>2. ASSUME NEW i \in 0 .. Len(keys) - 1
      PROVE  /\ Key(i) \in Keys
             /\ AdvanceIndex(i) \in 0 .. Len(keys) - 1
             /\ AdvanceIndex(i) = (i + 1) % Len(keys)
             /\ HasOther => AdvanceIndex(i) # i
  <2>1. Key(i) \in Keys
    BY DEF TypeOK
  <2>2. AdvanceIndex(i) = IF i + 1 = Len(keys) THEN 0 ELSE i + 1
    BY <1>1, Advance DEF AdvanceIndex
  <2>3. AdvanceIndex(i) = (i + 1) % Len(keys)
    BY DEF AdvanceIndex
  <2>4. HasOther => AdvanceIndex(i) # i
    BY <1>1, <2>2 DEF HasOther
  <2> QED
    BY <1>1, <2>1, <2>2, <2>3, <2>4
<1> QED
  BY <1>1, <1>2

\* Clients have different keys.
LEMMA DistinctClients ==
    ASSUME TypeOK, DistinctKeys, NEW i \in Clients, NEW j \in Clients
    PROVE  Key(i) = Key(j) => i = j
<1>1. i + 1 \in 1 .. Len(keys) /\ j + 1 \in 1 .. Len(keys)
  BY DEF TypeOK
<1> QED
  BY <1>1 DEF DistinctKeys

\* Reading an entry appends a key that is not in the list yet.
LEMMA ReadEntryInv == PoolInv /\ ReadEntry => PoolInv'
<1> SUFFICES ASSUME PoolInv, ReadEntry
             PROVE  PoolInv'
  OBVIOUS
<1> USE DEF PoolInv, ReadEntry, trace
<1>1. saved[read + 1] \in Entries /\ read' \in 0 .. Len(saved) /\ ~built
  BY DEF TypeOK, Complete
<1>2. TypeOK' /\ DistinctKeys'
  <2>1. CASE Keep(saved[read + 1])
    <3>1. Strip(saved[read + 1]) \in Keys
      BY <1>1, <2>1 DEF Keep, Strip, Entries
    <3>2. \A n \in 1 .. Len(keys) : keys[n] # Strip(saved[read + 1])
      <4> TAKE n \in 1 .. Len(keys)
      <4>1. n - 1 \in Clients /\ Key(n - 1) = keys[n]
        BY DEF TypeOK
      <4> QED
        BY <2>1, <4>1 DEF Keep
    <3>3. keys' = Append(keys, Strip(saved[read + 1]))
      BY <2>1
    <3>4. TypeOK'
      BY <1>1, <3>1, <3>3 DEF TypeOK
    <3>6. keys \in Seq(Keys)
      BY DEF TypeOK
    <3>5. DistinctKeys'
      BY <3>1, <3>2, <3>3, <3>6 DEF DistinctKeys
    <3> QED
      BY <3>4, <3>5
  <2>2. CASE ~Keep(saved[read + 1])
    <3>1. keys' = keys
      BY <2>2
    <3> QED
      BY <1>1, <3>1 DEF TypeOK, DistinctKeys
  <2> QED
    BY <2>1, <2>2
<1>4. Complete' /\ Lap'
  BY <1>1 DEF Complete, Lap
<1>5. Atomic'
  BY <1>1 DEF Atomic, TypeOK
<1> QED
  BY <1>2, <1>4, <1>5

\* The new pool starts its first lap.
LEMMA BuildInv == PoolInv /\ Build => PoolInv'
<1> SUFFICES ASSUME PoolInv, Build
             PROVE  PoolInv'
  OBVIOUS
<1> USE DEF PoolInv, Build, trace
<1>1. TypeOK'
  BY DEF TypeOK, Lap
<1>2. Lap'
  <2>1. \A i \in Clients : turns[Key(i)] = 0
    BY DEF Lap, TypeOK
  <2>2. cursor = 0
    BY DEF Lap
  <2>3. \A i \in Clients' : turns'[Key(i)'] = IF i < cursor' THEN 0 + 1 ELSE 0
    BY <2>1, <2>2
  <2>4. built'
    OBVIOUS
  <2> QED
    BY <2>3, <2>4 DEF Lap
<1> QED
  BY <1>1, <1>2 DEF DistinctKeys, Complete, Atomic, TypeOK

\* A thread that waits for the lock has not been served with any key.
LEMMA RequestInv ==
    ASSUME PoolInv, NEW t \in Callers, Request(t)
    PROVE  PoolInv'
BY DEF PoolInv, Request, Goto, input, trace, TypeOK, DistinctKeys, Complete,
       Atomic, Lap, HasOther, AdvanceIndex

\* The thread that gets the lock reads the cursor, which nobody else moves.
LEMMA AcquireInv ==
    ASSUME PoolInv, NEW t \in Callers, Acquire(t)
    PROVE  PoolInv'
<1> USE DEF PoolInv, Acquire, Goto, Send, input
<1>1. Key(cursor) \in Keys /\ built /\ tried[t] = <<>>
  BY DEF TypeOK, Atomic
<1>2. TypeOK'
  <2>1. tried' \in [Callers -> Seq(Keys)]
    BY <1>1 DEF TypeOK
  <2> QED
    BY <1>1, <2>1 DEF TypeOK
<1>3. Atomic'
  <2> SUFFICES ASSUME NEW s \in Callers
               PROVE  AtomicFor(s)'
    BY DEF Atomic
  <2>1. CASE s = t
    BY <2>1, <1>1 DEF TypeOK, Atomic
  <2>2. CASE s # t
    BY <2>2, PoolAssumption DEF TypeOK, Atomic, Available, HasOther, AdvanceIndex
  <2> QED
    BY <2>1, <2>2
<1> QED
  BY <1>2, <1>3 DEF DistinctKeys, Complete, Lap
\* A request that comes back leaves its thread as it found it.
LEMMA ReleaseInv ==
    ASSUME TypeOK, Atomic, NEW t \in Callers, Release(t),
           pc[t] \in {"primary", "failover"}
    PROVE  /\ Atomic'
           /\ lock' = Nobody
           /\ pc' \in [Callers -> {"idle", "waiting", "primary", "failover"}]
           /\ tried' \in [Callers -> Seq(Keys)]
<1> USE DEF Release, Goto, input
<1>1. /\ pc' \in [Callers -> {"idle", "waiting", "primary", "failover"}]
      /\ tried' \in [Callers -> Seq(Keys)]
  BY DEF TypeOK
<1>2. Atomic'
  <2> SUFFICES ASSUME NEW s \in Callers
               PROVE  AtomicFor(s)'
    BY DEF Atomic
  <2>1. CASE s = t
    BY <2>1 DEF TypeOK, Atomic
  <2>2. CASE s # t
    <3>1. pc[s] \in {"idle", "waiting"}
      BY <2>2 DEF TypeOK, Atomic
    <3> QED
      BY <2>2, <3>1 DEF TypeOK, Atomic
  <2> QED
    BY <2>1, <2>2
<1> QED
  BY <1>1, <1>2

\* A request that raises has moved nothing.
LEMMA RaiseInv ==
    ASSUME PoolInv, NEW t \in Callers, PrimaryRaises(t) \/ RetryRaises(t)
    PROVE  PoolInv'
<1> USE DEF PoolInv, PrimaryRaises, RetryRaises, Raise
<1>1. pc[t] \in {"primary", "failover"} /\ Release(t)
  OBVIOUS
<1>2. /\ Atomic'
      /\ lock' = Nobody
      /\ pc' \in [Callers -> {"idle", "waiting", "primary", "failover"}]
      /\ tried' \in [Callers -> Seq(Keys)]
  BY <1>1, ReleaseInv
<1>3. UNCHANGED <<saved, read, keys, built, primary>>
  BY <1>1 DEF Release, input
<1>4. UNCHANGED <<cursor, turns, last>>
  OBVIOUS
<1>5. TypeOK'
  BY <1>2, <1>3, <1>4 DEF TypeOK
<1>6. DistinctKeys' /\ Complete' /\ Lap'
  BY <1>3, <1>4 DEF DistinctKeys, Complete, Lap
<1> QED
  BY <1>2, <1>5, <1>6

\* Failing over takes the client after the cursor, a different one.
LEMMA FailOverInv ==
    ASSUME PoolInv, NEW t \in Callers, FailOver(t)
    PROVE  PoolInv'
<1> USE DEF PoolInv, FailOver, Goto, Send, input
<1>1. /\ built /\ lock = t /\ primary[t] = cursor
      /\ Len(tried[t]) = 1 /\ tried[t][1] = Key(cursor)
      /\ AdvanceIndex(cursor) \in Clients
      /\ Key(AdvanceIndex(cursor)) \in Keys
  <2>1. /\ built /\ lock = t /\ primary[t] = cursor
        /\ Len(tried[t]) = 1 /\ tried[t][1] = Key(cursor)
    BY DEF Atomic
  <2>2. AdvanceIndex(cursor) \in Clients /\ Key(AdvanceIndex(cursor)) \in Keys
    BY <2>1, RingFacts
  <2> QED
    BY <2>1, <2>2
<1>2. /\ Len(tried'[t]) = 2
      /\ tried'[t][1] = Key(cursor) /\ tried'[t][2] = Key(AdvanceIndex(cursor))
  <2>1. tried' = [tried EXCEPT ![t] = Append(@, Key(AdvanceIndex(cursor)))]
    BY <1>1 DEF RetryIndex
  <2>2. tried'[t] = Append(tried[t], Key(AdvanceIndex(cursor)))
    BY <2>1 DEF TypeOK
  <2>3. tried[t] \in Seq(Keys)
    BY DEF TypeOK
  <2> QED
    BY <1>1, <2>2, <2>3
<1>3. TypeOK'
  <2>1. tried' \in [Callers -> Seq(Keys)]
    <3>1. Append(tried[t], Key(AdvanceIndex(cursor))) \in Seq(Keys)
      BY <1>1 DEF TypeOK
    <3> QED
      BY <1>1, <3>1 DEF TypeOK, RetryIndex
  <2> QED
    BY <1>1, <2>1 DEF TypeOK
<1>4. Atomic'
  <2> SUFFICES ASSUME NEW s \in Callers
               PROVE  AtomicFor(s)'
    BY DEF Atomic
  <2>1. CASE s = t
    BY <2>1, <1>1, <1>2 DEF TypeOK, Atomic, HasOther, AdvanceIndex
  <2>2. CASE s # t
    BY <2>2, <1>1 DEF TypeOK, Atomic, HasOther, AdvanceIndex
  <2> QED
    BY <2>1, <2>2
<1> QED
  BY <1>3, <1>4 DEF DistinctKeys, Complete, Lap

\* The n entries of f are a lap with the cursor at c.
OnLap(f, n, c) == \E laps \in Nat : \A i \in 0 .. n - 1 :
    f[i] = IF i < c THEN laps + 1 ELSE laps

\* Giving the cursor's client its turn keeps the lap.
LEMMA Turn ==
    ASSUME NEW n \in Nat \ {0}, NEW c \in 0 .. n - 1, NEW f, NEW g,
           OnLap(f, n, c),
           \A i \in 0 .. n - 1 : g[i] = IF i = c THEN f[i] + 1 ELSE f[i]
    PROVE  OnLap(g, n, (c + 1) % n)
<1> PICK laps \in Nat : \A i \in 0 .. n - 1 :
        f[i] = IF i < c THEN laps + 1 ELSE laps
  BY DEF OnLap
<1>1. CASE c + 1 = n
  <2>1. \A i \in 0 .. n - 1 : g[i] = IF i < 0 THEN (laps + 1) + 1 ELSE laps + 1
    BY <1>1
  <2>2. (c + 1) % n = 0
    BY <1>1, Advance
  <2> QED
    BY <2>1, <2>2 DEF OnLap
<1>2. CASE c + 1 # n
  <2>1. \A i \in 0 .. n - 1 : g[i] = IF i < c + 1 THEN laps + 1 ELSE laps
    BY <1>2
  <2>2. (c + 1) % n = c + 1
    BY <1>2, Advance
  <2> QED
    BY <2>1, <2>2 DEF OnLap
<1> QED
  BY <1>1, <1>2

Load == [i \in Clients |-> turns[Key(i)]]

\* Lap is a statement about the list of turns.
LEMMA LapIsOnLap == built => (Lap <=> OnLap(Load, Len(keys), cursor))
BY DEF Lap, OnLap, Load

\* What an answer does to the pool, given the clients that had their turn.
LEMMA AnsweredInv ==
    ASSUME PoolInv, NEW t \in Callers, NEW i \in Clients,
           Answered(t, i), pc[t] \in {"primary", "failover"}
    PROVE  /\ Atomic' /\ TypeOK' /\ DistinctKeys' /\ Complete'
           /\ UNCHANGED <<keys, built>> /\ built
           /\ cursor' = (i + 1) % Len(keys)
<1>1. TypeOK /\ Atomic /\ built /\ Release(t)
  BY DEF PoolInv, Atomic, Answered
<1>2. /\ Atomic'
      /\ lock' = Nobody
      /\ pc' \in [Callers -> {"idle", "waiting", "primary", "failover"}]
      /\ tried' \in [Callers -> Seq(Keys)]
  BY <1>1, ReleaseInv
<1>3. UNCHANGED <<saved, read, keys, built, primary>>
  BY <1>1 DEF Release, input
<1>4. /\ cursor' = (i + 1) % Len(keys)
      /\ cursor' \in 0 .. Len(keys) - 1
      /\ last' \in Keys
  BY <1>1, RingFacts DEF Answered
<1>5. turns' \in [Keys -> Nat]
  <2> DEFINE Had(k) == \E n \in 1 .. Len(tried[t]) : tried[t][n] = k
  <2>1. \A k \in Keys : turns[k] \in Nat /\ turns[k] + 1 \in Nat
    BY <1>1 DEF TypeOK
  <2>2. turns' = [k \in Keys |-> IF Had(k) THEN turns[k] + 1 ELSE turns[k]]
    BY DEF Answered
  <2> HIDE DEF Had
  <2> QED
    BY <2>1, <2>2
<1>6. TypeOK'
  <2>1. cursor' \in Nat /\ cursor' \in Clients'
    BY <1>1, <1>3, <1>4 DEF TypeOK
  <2> QED
    BY <1>1, <1>2, <1>3, <1>4, <1>5, <2>1 DEF TypeOK
<1>7. DistinctKeys' /\ Complete'
  BY <1>3 DEF PoolInv, DistinctKeys, Complete
<1> QED
  BY <1>1, <1>2, <1>3, <1>4, <1>6, <1>7

\* An answer of the cursor's client gives that client its turn.
LEMMA PrimaryAnswersInv ==
    ASSUME PoolInv, NEW t \in Callers, PrimaryAnswers(t)
    PROVE  PoolInv'
<1>1. /\ TypeOK /\ DistinctKeys /\ Lap /\ built
      /\ primary[t] = cursor /\ Len(tried[t]) = 1 /\ tried[t][1] = Key(cursor)
      /\ pc[t] = "primary" /\ Answered(t, cursor)
  BY DEF PoolInv, PrimaryAnswers, Atomic
<1>2. Len(keys) \in Nat \ {0} /\ cursor \in 0 .. Len(keys) - 1
  BY <1>1, RingFacts
<1>3. /\ Atomic' /\ TypeOK' /\ DistinctKeys' /\ Complete'
      /\ UNCHANGED <<keys, built>>
      /\ cursor' = (cursor + 1) % Len(keys)
  BY <1>1, <1>2, AnsweredInv
<1>4. \A k \in Keys : turns'[k] = IF k = Key(cursor) THEN turns[k] + 1
                                  ELSE turns[k]
  <2>1. \A k : (\E n \in 1 .. Len(tried[t]) : tried[t][n] = k)
               <=> k = Key(cursor)
    BY <1>1
  <2> QED
    BY <1>1, <2>1 DEF Answered
<1>5. Lap'
  <2>1. \A i \in 0 .. Len(keys) - 1 :
            Load'[i] = IF i = cursor THEN Load[i] + 1 ELSE Load[i]
    <3> TAKE i \in 0 .. Len(keys) - 1
    <3>1. Load[i] = turns[Key(i)] /\ Load'[i] = turns'[Key(i)]
      BY <1>3 DEF Load
    <3>2. Key(i) \in Keys
      BY <1>1, RingFacts
    <3>3. Key(i) = Key(cursor) <=> i = cursor
      BY <1>1, <1>2, DistinctClients
    <3> QED
      BY <1>4, <3>1, <3>2, <3>3
  <2>2. OnLap(Load, Len(keys), cursor)
    BY <1>1, LapIsOnLap
  <2>3. OnLap(Load', Len(keys), (cursor + 1) % Len(keys))
    BY <1>2, <2>1, <2>2, Turn
  <2> QED
    BY <1>1, <1>3, <2>3 DEF Lap, OnLap, Load
<1> QED
  BY <1>3, <1>5 DEF PoolInv

\* An answer after a failure gives two clients their turns.
LEMMA RetryAnswersInv ==
    ASSUME PoolInv, NEW t \in Callers, RetryAnswers(t)
    PROVE  PoolInv'
<1> DEFINE next == AdvanceIndex(cursor)
<1>1. /\ TypeOK /\ DistinctKeys /\ Lap /\ built
      /\ primary[t] = cursor /\ Len(tried[t]) = 2
      /\ tried[t][1] = Key(cursor) /\ tried[t][2] = Key(next)
      /\ pc[t] = "failover" /\ HasOther /\ Answered(t, next)
  BY DEF PoolInv, RetryAnswers, RetryIndex, Atomic
<1>2. /\ Len(keys) \in Nat \ {0} /\ cursor \in 0 .. Len(keys) - 1
      /\ next \in 0 .. Len(keys) - 1
      /\ next = (cursor + 1) % Len(keys) /\ next # cursor
  BY <1>1, RingFacts
<1> HIDE DEF next
<1>3. /\ Atomic' /\ TypeOK' /\ DistinctKeys' /\ Complete'
      /\ UNCHANGED <<keys, built>>
      /\ cursor' = (next + 1) % Len(keys)
  BY <1>1, <1>2, AnsweredInv
<1>4. \A k \in Keys : turns'[k] = IF k = Key(cursor) \/ k = Key(next)
                                  THEN turns[k] + 1 ELSE turns[k]
  <2>1. \A k : (\E n \in 1 .. Len(tried[t]) : tried[t][n] = k)
               <=> (k = Key(cursor) \/ k = Key(next))
    BY <1>1
  <2> QED
    BY <1>1, <2>1 DEF Answered
<1>5. Lap'
  <2> DEFINE half == [i \in Clients |-> IF i = cursor THEN Load[i] + 1
                                        ELSE Load[i]]
  <2>1. OnLap(Load, Len(keys), cursor)
    BY <1>1, LapIsOnLap
  <2>2. \A i \in 0 .. Len(keys) - 1 :
            half[i] = IF i = cursor THEN Load[i] + 1 ELSE Load[i]
    OBVIOUS
  <2>3. \A i \in 0 .. Len(keys) - 1 :
            Load'[i] = IF i = next THEN half[i] + 1 ELSE half[i]
    <3> TAKE i \in 0 .. Len(keys) - 1
    <3>1. Load[i] = turns[Key(i)] /\ Load'[i] = turns'[Key(i)]
      BY <1>3 DEF Load
    <3>2. Key(i) \in Keys
      BY <1>1, RingFacts
    <3>3. /\ Key(i) = Key(cursor) <=> i = cursor
          /\ Key(i) = Key(next) <=> i = next
      BY <1>1, <1>2, DistinctClients
    <3> QED
      BY <1>2, <1>4, <2>2, <3>1, <3>2, <3>3
  <2> HIDE DEF half
  <2>4. OnLap(half, Len(keys), next)
    BY <1>2, <2>1, <2>2, Turn
  <2>5. OnLap(Load', Len(keys), (next + 1) % Len(keys))
    BY <1>2, <2>3, <2>4, Turn
  <2> QED
    BY <1>1, <1>3, <2>5 DEF Lap, OnLap, Load
<1> QED
  BY <1>3, <1>5 DEF PoolInv

-----------------------------------------------------------------------------
\* No step of any thread, and no stutter, breaks the invariant.
LEMMA NextInv == PoolInv /\ [Next]_vars => PoolInv'
<1> SUFFICES ASSUME PoolInv, [Next]_vars
             PROVE  PoolInv'
  OBVIOUS
<1>1. CASE ReadEntry
  BY <1>1, ReadEntryInv
<1>2. CASE Build
  BY <1>2, BuildInv
<1>3. ASSUME NEW t \in Callers, Request(t) \/ Acquire(t) \/ Serve(t)
      PROVE  PoolInv'
  BY <1>3, RequestInv, AcquireInv, PrimaryAnswersInv, RetryAnswersInv,
     RaiseInv, FailOverInv DEF Serve
<1>4. CASE UNCHANGED vars
  BY <1>4 DEF vars, input, trace, PoolInv, TypeOK, DistinctKeys, Complete,
              Atomic, Lap, HasOther, AdvanceIndex
<1> QED
  BY <1>1, <1>2, <1>3, <1>4 DEF Next

\* The pool is what the argument above says it is, in every reachable state.
LEMMA PoolInvariant == Spec => []PoolInv
BY InitInv, NextInv, PTL DEF Spec

\* The pool's fields keep their types, and the cursor stays inside the ring.
THEOREM PoolTypeCorrect == Spec => []TypeOK
<1>1. PoolInv => TypeOK
  BY DEF PoolInv
<1> QED
  BY <1>1, PoolInvariant, PTL

\* For every list of keys and any number of threads, no key gets two turns
\* ahead of another: create_transcription spreads the requests evenly.
THEOREM TurnsAreEven == Spec => []EvenTurns
<1>1. PoolInv => EvenTurns
  <2> SUFFICES ASSUME PoolInv, NEW i \in Clients, NEW j \in Clients
               PROVE  turns[Key(i)] <= turns[Key(j)] + 1
    BY DEF EvenTurns
  <2>1. CASE built
    <3>1. PICK laps \in Nat : \A n \in Clients :
              turns[Key(n)] = IF n < cursor THEN laps + 1 ELSE laps
      BY <2>1 DEF PoolInv, Lap
    <3>2. /\ turns[Key(i)] \in {laps, laps + 1}
          /\ turns[Key(j)] \in {laps, laps + 1}
      BY <3>1
    <3> QED
      BY <3>2
  <2>2. CASE ~built
    <3>1. Key(i) \in Keys /\ Key(j) \in Keys
      BY DEF PoolInv, TypeOK
    <3> QED
      BY <2>2, <3>1 DEF PoolInv, Lap
  <2> QED
    BY <2>1, <2>2
<1> QED
  BY <1>1, PoolInvariant, PTL

\* For every list of keys, a request is never sent twice with one key, since
\* normalize_api_keys leaves no duplicate and a lone client is not retried.
THEOREM AttemptsAreDistinct == Spec => []DistinctAttempts
<1>1. PoolInv => DistinctAttempts
  <2> SUFFICES ASSUME PoolInv, NEW t \in Callers,
                      NEW m \in 1 .. Len(tried[t]),
                      NEW n \in 1 .. Len(tried[t]),
                      m # n
               PROVE  tried[t][m] # tried[t][n]
    BY DEF DistinctAttempts
  <2>1. AtomicFor(t) /\ TypeOK /\ DistinctKeys
    BY DEF PoolInv, Atomic
  <2>2. CASE pc[t] = "failover"
    <3>1. Key(cursor) # Key(AdvanceIndex(cursor))
      <4>1. built /\ HasOther
        BY <2>1, <2>2
      <4>2. /\ cursor \in Clients /\ AdvanceIndex(cursor) \in Clients
            /\ AdvanceIndex(cursor) # cursor
        BY <2>1, <4>1, RingFacts
      <4> QED
        BY <2>1, <4>2, DistinctClients
    <3> QED
      BY <2>1, <2>2, <3>1
  <2>3. CASE pc[t] # "failover"
    <3>1. Len(tried[t]) <= 1
      <4>1. pc[t] \in {"idle", "waiting", "primary"}
        BY <2>1, <2>3 DEF TypeOK
      <4>2. CASE pc[t] = "primary"
        <5>1. Len(tried[t]) = 1
          BY <2>1, <4>2
        <5> QED
          BY <5>1
      <4>3. CASE pc[t] \in {"idle", "waiting"}
        <5>1. tried[t] = <<>>
          BY <2>1, <4>3
        <5> QED
          BY <5>1
      <4> QED
        BY <4>1, <4>2, <4>3
    <3> QED
      BY <3>1
  <2> QED
    BY <2>2, <2>3
<1> QED
  BY <1>1, PoolInvariant, PTL

\* For every list of keys and any number of threads, the pool implements the
\* ring: answers come in cyclic order, and a failover skips one key.
THEOREM ImplementsRoundRobin == Spec => RefinesRoundRobin
<1> DEFINE ring == IF built THEN keys ELSE <<>>
<1>1. Init => Ring!Init
  BY DEF Init, Ring!Init
<1>2. PoolInv /\ PoolInv' /\ [Next]_vars => [Ring!Next]_(Ring!vars)
  <2> SUFFICES ASSUME PoolInv, PoolInv', [Next]_vars
               PROVE  Ring!Next \/ UNCHANGED Ring!vars
    OBVIOUS
  <2> USE DEF Ring!vars, PoolInv
  <2>1. CASE ReadEntry
    BY <2>1 DEF ReadEntry, Complete, trace, TypeOK
  <2>2. CASE Build
    <3>1. Ring!Supply
      BY <2>2 DEF Build, Ring!Supply, trace, TypeOK, DistinctKeys
    <3> QED
      BY <3>1 DEF Ring!Next
  <2>3. ASSUME NEW t \in Callers, Request(t) \/ Acquire(t) \/ FailOver(t)
        PROVE  UNCHANGED Ring!vars
    BY <2>3 DEF Request, Acquire, FailOver, input, trace
  <2>4. ASSUME NEW t \in Callers, PrimaryRaises(t) \/ RetryRaises(t)
        PROVE  UNCHANGED Ring!vars
    BY <2>4 DEF PrimaryRaises, RetryRaises, Raise, Release, input
  <2>5. ASSUME NEW t \in Callers, PrimaryAnswers(t)
        PROVE  Ring!Next
    <3>1. /\ built /\ primary[t] = cursor /\ cursor \in Clients
          /\ Len(keys) \in Nat
      BY <2>5 DEF PrimaryAnswers, Atomic, TypeOK
    <3>2. (cursor + 0) % Len(keys) = cursor
      BY <3>1
    <3>3. Ring!Answer(0)
      BY <2>5, <3>1, <3>2 DEF PrimaryAnswers, Answered, Release, input,
                              AdvanceIndex, Ring!Answer
    <3> QED
      BY <3>3 DEF Ring!Next
  <2>6. ASSUME NEW t \in Callers, RetryAnswers(t)
        PROVE  Ring!Next
    <3>1. /\ built /\ primary[t] = cursor /\ cursor \in Clients
          /\ Len(keys) \in Nat /\ HasOther
      BY <2>6 DEF RetryAnswers, Atomic, TypeOK
    <3>2. (((cursor + 1) % Len(keys)) + 1) % Len(keys)
            = (cursor + 2) % Len(keys)
      BY <3>1, Advance
    <3>3. Ring!Answer(1)
      BY <2>6, <3>1, <3>2 DEF RetryAnswers, Answered, Release, input, HasOther,
                              RetryIndex, AdvanceIndex, Ring!Answer
    <3> QED
      BY <3>3 DEF Ring!Next
  <2>7. CASE UNCHANGED vars
    BY <2>7 DEF vars, input, trace
  <2> QED
    BY <2>1, <2>2, <2>3, <2>4, <2>5, <2>6, <2>7 DEF Next, Serve
<1> QED
  BY <1>1, <1>2, PoolInvariant, PTL DEF Spec, RefinesRoundRobin, Ring!Spec

\* Reading an entry keeps the list of keys normal: a key it adds was not seen
\* before, every other one was.
LEMMA ReadEntryNormal == PoolInv /\ NormalKeys /\ ReadEntry => NormalKeys'
<1> SUFFICES ASSUME PoolInv, NormalKeys, ReadEntry
             PROVE  NormalKeys'
  OBVIOUS
<1> DEFINE x == Strip(saved[read + 1])
<1>1. /\ read \in Nat /\ read' = read + 1 /\ read + 1 \in 1 .. Len(saved)
      /\ saved' = saved /\ keys \in Seq(Keys)
  BY DEF ReadEntry, PoolInv, TypeOK
<1>2. x \in Keys \cup {Blank}
  <2>1. saved[read + 1] \in Entries
    BY <1>1 DEF PoolInv, TypeOK
  <2> QED
    BY <2>1 DEF Strip, Entries
<1>3. /\ \A k : Seen(k, read)' <=> Seen(k, read) \/ k = x
      /\ \A k, n : Seen(k, n)' <=> Seen(k, n)
  BY <1>1 DEF Seen, Strip
<1> HIDE DEF x
<1>4. CASE Keep(saved[read + 1])
  <2>1. keys' = Append(keys, x) /\ x \in Keys /\ \A i \in Clients : Key(i) # x
    BY <1>1, <1>2, <1>4 DEF ReadEntry, Keep, x
  <2>2. ~Seen(x, read)
    BY <2>1 DEF NormalKeys
  <2>3. /\ Clients' = Clients \cup {Len(keys)} /\ keys'[Len(keys) + 1] = x
        /\ \A i \in Clients : Key(i)' = Key(i) /\ i < Len(keys)
    <3>1. Len(keys') = Len(keys) + 1 /\ Len(keys) \in Nat
      BY <1>1, <2>1
    <3>2. keys'[Len(keys) + 1] = x
      BY <1>1, <2>1
    <3>3. \A i \in Clients : keys'[i + 1] = keys[i + 1] /\ i < Len(keys)
      BY <1>1, <2>1, <3>1
    <3>4. 0 .. Len(keys') - 1 = (0 .. Len(keys) - 1) \cup {Len(keys)}
      BY <3>1
    <3> QED
      BY <3>2, <3>3, <3>4
  <2>4. \A k \in Keys : (\E i \in Clients' : Key(i)' = k) <=> Seen(k, read)'
    <3> TAKE k \in Keys
    <3>1. (\E i \in Clients' : Key(i)' = k) <=> (\E i \in Clients : Key(i) = k) \/ k = x
      BY <2>3
    <3> QED
      BY <1>3, <3>1 DEF NormalKeys
  <2>5. ASSUME NEW i \in Clients', NEW j \in Clients', i < j
        PROVE  \E n \in 1 .. read' : Seen(Key(i), n)' /\ ~Seen(Key(j), n)'
    <3>1. i \in Clients /\ Key(i)' = Key(i) /\ Key(i) \in Keys
      <4>1. i \in Clients
        <5>1. Len(keys) \in Nat /\ Len(keys') = Len(keys) + 1
          BY <1>1, <2>1
        <5> QED
          BY <2>5, <5>1
      <4>2. keys[i + 1] \in Keys
        BY <1>1, <4>1
      <4> QED
        BY <2>3, <4>1, <4>2
    <3>2. CASE j \in Clients
      <4>1. PICK n \in 1 .. read : Seen(Key(i), n) /\ ~Seen(Key(j), n)
        BY <2>5, <3>1, <3>2 DEF NormalKeys
      <4>2. n \in 1 .. read' /\ Key(j)' = Key(j)
        BY <1>1, <2>3, <3>2
      <4> QED
        BY <1>3, <3>1, <4>1, <4>2
    <3>3. CASE j = Len(keys)
      <4>1. Seen(Key(i), read)
        BY <3>1 DEF NormalKeys
      <4>2. read \in 1 .. read'
        BY <1>1, <4>1 DEF Seen
      <4> QED
        BY <1>3, <2>2, <2>3, <3>1, <3>3, <4>1, <4>2
    <3> QED
      BY <2>3, <3>2, <3>3
  <2> QED
    BY <2>4, <2>5 DEF NormalKeys
<1>5. CASE ~Keep(saved[read + 1])
  <2>1. keys' = keys /\ (x = Blank \/ \E i \in Clients : Key(i) = x)
    BY <1>1, <1>5 DEF ReadEntry, Keep, x
  <2>2. \A k \in Keys : (\E i \in Clients' : Key(i)' = k) <=> Seen(k, read)'
    BY <1>3, <2>1, PoolAssumption DEF NormalKeys
  <2>3. ASSUME NEW i \in Clients', NEW j \in Clients', i < j
        PROVE  \E n \in 1 .. read' : Seen(Key(i), n)' /\ ~Seen(Key(j), n)'
    <3>1. PICK n \in 1 .. read : Seen(Key(i), n) /\ ~Seen(Key(j), n)
      BY <2>1, <2>3 DEF NormalKeys
    <3> QED
      BY <1>1, <1>3, <2>1, <3>1
  <2> QED
    BY <2>2, <2>3 DEF NormalKeys
<1> QED
  BY <1>4, <1>5

\* For every list a client may send, the keys are the distinct ones of the list,
\* in the order of their first occurrence.
THEOREM KeysAreNormal == Spec => []NormalKeys
<1>1. Init => NormalKeys
  BY DEF Init, NormalKeys, Seen
<1>2. PoolInv /\ NormalKeys /\ [Next]_vars => NormalKeys'
  <2> SUFFICES ASSUME PoolInv, NormalKeys, [Next]_vars
               PROVE  NormalKeys'
    OBVIOUS
  <2>1. CASE ReadEntry
    BY <2>1, ReadEntryNormal
  <2>2. CASE UNCHANGED <<saved, read, keys>>
    BY <2>2 DEF NormalKeys, Seen, Strip
  <2>3. Next /\ ~ReadEntry => UNCHANGED <<saved, read, keys>>
    BY DEF Next, Build, Request, Acquire, Serve, PrimaryAnswers, PrimaryRaises,
           FailOver, RetryAnswers, RetryRaises, Answered, Raise, Release, input
  <2> QED
    BY <2>1, <2>2, <2>3 DEF vars, input
<1> QED
  BY <1>1, <1>2, PoolInvariant, PTL DEF Spec
=============================================================================
