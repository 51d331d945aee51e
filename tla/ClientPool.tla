----------------------------- MODULE ClientPool -----------------------------
(***************************************************************************)
(* The API keys of a session and the pool of clients that share its        *)
(* requests (backend/src/groq_whisper_service/client_pool.py):             *)
(* normalize_api_keys reads the list of POST /start entry by entry, and    *)
(* RoundRobinTranscriptionClientPool serves the worker threads, holding    *)
(* its lock from the choice of a key to the answer.                        *)
(***************************************************************************)
EXTENDS Naturals, Sequences

CONSTANTS
    Keys,      \* the API keys
    Blank,     \* what is left of an entry of white space
    Saved,     \* the lists of entries a client may send
    Callers,   \* threads that transcribe: two when stops overlap starts
    Nobody,
    MaxTurns   \* bound: answered requests one key is used for

\* An entry is a key, or white space, with or without padding.
Entries == [text : Keys \cup {Blank}, padded : BOOLEAN]

ASSUME PoolAssumption ==
    /\ Blank \notin Keys
    /\ Saved \subseteq Seq(Entries)
    /\ Nobody \notin Callers
    /\ MaxTurns \in Nat

VARIABLES
    saved,    \* api_keys as sent
    read,     \* how many of them normalize_api_keys has read
    keys,     \* normalized_keys, then _api_keys
    built,    \* the pool exists
    cursor,   \* _next_index
    lock,     \* the thread that holds _lock
    pc,       \* per thread: where it is in create_transcription
    primary,  \* per thread: primary_index
    tried,    \* history: the keys a request has been sent with
    turns,    \* history: per key, the answered requests it was used for
    last      \* history: the key of the last answer

input == <<saved, read, keys, built>>
trace == <<tried, turns, last>>
vars  == <<input, cursor, lock, pc, primary, trace>>

Clients == 0 .. Len(keys) - 1
Key(i)  == keys[i + 1]

TypeOK ==
    /\ saved \in Seq(Entries) /\ read \in 0 .. Len(saved)
    /\ keys \in Seq(Keys) /\ built \in BOOLEAN /\ (built => Len(keys) > 0)
    /\ cursor \in Nat /\ (built => cursor \in Clients)
    /\ lock \in Callers \cup {Nobody}
    /\ pc \in [Callers -> {"idle", "waiting", "primary", "failover"}]
    /\ primary \in [Callers -> Nat]
    /\ tried \in [Callers -> Seq(Keys)]
    /\ turns \in [Keys -> Nat]
    /\ last \in Keys \cup {Blank}

Init ==
    /\ saved \in Saved /\ read = 0 /\ keys = <<>> /\ built = FALSE
    /\ cursor = 0 /\ lock = Nobody
    /\ pc = [t \in Callers |-> "idle"] /\ primary = [t \in Callers |-> 0]
    /\ tried = [t \in Callers |-> <<>>]
    /\ turns = [k \in Keys |-> 0] /\ last = Blank

(***************************************************************************)
(* normalize_api_keys                                                      *)
(***************************************************************************)
Strip(entry) == entry.text

Keep(entry) == /\ Strip(entry) # Blank
               /\ \A i \in Clients : Key(i) # Strip(entry)

ReadEntry ==
    /\ read < Len(saved)
    /\ read' = read + 1
    /\ keys' = IF Keep(saved[read']) THEN Append(keys, Strip(saved[read']))
               ELSE keys
    /\ UNCHANGED <<saved, built, cursor, lock, pc, primary, trace>>

\* A list without keys is refused, and no pool is built.
Build ==
    /\ read = Len(saved) /\ Len(keys) > 0 /\ ~built
    /\ built' = TRUE
    /\ UNCHANGED <<saved, read, keys, cursor, lock, pc, primary, trace>>

(***************************************************************************)
(* create_transcription                                                    *)
(***************************************************************************)
\* Faulty variant: the ring does not close.
AdvanceUnwrapped(i) == i + 1

AdvanceIndex(i) == (i + 1) % Len(keys)

Goto(t, step) == pc' = [pc EXCEPT ![t] = step]

Request(t) ==
    /\ built /\ pc[t] = "idle"
    /\ Goto(t, "waiting")
    /\ UNCHANGED <<input, cursor, lock, primary, trace>>

Send(t, i) == tried' = [tried EXCEPT ![t] = Append(@, Key(i))]

Available == lock = Nobody

Acquire(t) ==
    /\ pc[t] = "waiting" /\ Available
    /\ \A i \in Clients : turns[Key(i)] < MaxTurns  \* the bound
    /\ lock' = t
    /\ primary' = [primary EXCEPT ![t] = cursor]
    /\ Send(t, cursor)
    /\ Goto(t, "primary")
    /\ UNCHANGED <<input, cursor, turns, last>>

\* The with statement releases the lock on return and on raise.
Release(t) ==
    /\ lock' = Nobody
    /\ tried' = [tried EXCEPT ![t] = <<>>]
    /\ Goto(t, "idle")
    /\ UNCHANGED <<input, primary>>

Answered(t, i) ==
    /\ cursor' = AdvanceIndex(i)
    /\ last' = Key(i)
    /\ turns' = [k \in Keys |-> IF \E n \in 1 .. Len(tried[t]) : tried[t][n] = k
                                THEN turns[k] + 1 ELSE turns[k]]
    /\ Release(t)

PrimaryAnswers(t) == pc[t] = "primary" /\ Answered(t, primary[t])

Raise(t) == Release(t) /\ UNCHANGED <<cursor, turns, last>>

\* The error is one that is_retryable_transcription_error rejects, or there
\* is no other client.
PrimaryRaises(t) == pc[t] = "primary" /\ Raise(t)

HasOther == Len(keys) >= 2

RetryIndex(t) == AdvanceIndex(primary[t])

FailOver(t) ==
    /\ pc[t] = "primary" /\ HasOther
    /\ Send(t, RetryIndex(t))
    /\ Goto(t, "failover")
    /\ UNCHANGED <<input, cursor, lock, primary, turns, last>>

\* Faulty variant: the cursor stops behind the key that failed.
RetryAnswersBehind(t) ==
    /\ pc[t] = "failover"
    /\ cursor' = RetryIndex(t)
    /\ last' = Key(RetryIndex(t))
    /\ UNCHANGED turns
    /\ Release(t)

RetryAnswers(t) == pc[t] = "failover" /\ Answered(t, RetryIndex(t))

RetryRaises(t) == pc[t] = "failover" /\ Raise(t)

Serve(t) == PrimaryAnswers(t) \/ PrimaryRaises(t) \/ FailOver(t)
                \/ RetryAnswers(t) \/ RetryRaises(t)

Next == \/ ReadEntry \/ Build
        \/ \E t \in Callers : Request(t) \/ Acquire(t) \/ Serve(t)

\* The SDK bounds every network call by its timeout, so a request that is out
\* is answered or raises.  Nothing says that a waiting thread gets the lock.
Fairness == WF_vars(ReadEntry) /\ WF_vars(Build)
            /\ \A t \in Callers : WF_vars(Serve(t))

Spec == Init /\ [][Next]_vars /\ Fairness

(***************************************************************************)
(* Properties                                                              *)
(***************************************************************************)
\* The pool's keys are the distinct keys of the list read so far, in the
\* order of their first occurrence, whatever the padding and the repetitions.
Seen(k, n) == \E m \in 1 .. n : Strip(saved[m]) = k
NormalKeys ==
    /\ \A k \in Keys : (\E i \in Clients : Key(i) = k) <=> Seen(k, read)
    /\ \A i, j \in Clients : i < j =>
        \E n \in 1 .. read : Seen(Key(i), n) /\ ~Seen(Key(j), n)

\* A request is never sent twice with one key: failing over means another key,
\* also when the list repeats keys, and it happens once.
DistinctAttempts == \A t \in Callers : \A m, n \in 1 .. Len(tried[t]) :
    m # n => tried[t][m] # tried[t][n]

\* Requests are spread evenly, whatever threads use the pool and whichever
\* requests fail over or fail: no key gets two turns ahead of another.
EvenTurns == \A i, j \in Clients : turns[Key(i)] <= turns[Key(j)] + 1

Ring == INSTANCE RoundRobin WITH ring <- IF built THEN keys ELSE <<>>,
                                 turn <- cursor, NoKey <- Blank

\* The pool gives its answers in the order of the ring, one at a time, whatever
\* threads call create_transcription and whichever of its requests fail.
RefinesRoundRobin == Ring!Spec

=============================================================================
