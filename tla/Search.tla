------------------------------- MODULE Search -------------------------------
(***************************************************************************)
(* One shared search client with its cache and its throttle: Spotify's     *)
(* catalog, or Nominatim's places, which is the same with one attempt.     *)
(* Worker threads look up one query, or one after the other those a        *)
(* generated playlist needs.  Time passes in ticks and is kept relative to *)
(* the present; what a query is answered with does not matter.             *)
(***************************************************************************)
EXTENDS Naturals

CONSTANTS
    Thread,    \* worker threads
    Query,     \* cache keys
    None,
    Interval,  \* SEARCH_MIN_INTERVAL_SECONDS, in ticks
    Ttl,       \* SEARCH_CACHE_TTL_SECONDS, in ticks
    Attempts   \* MAX_ATTEMPTS

VARIABLES
    since,     \* ticks since _last_call_monotonic, counted to Interval, or None
    lock,      \* the thread that holds _throttle_lock, or None
    cache,     \* age of each answer in _search_cache, or None
    lookup     \* what each worker thread is doing

clients == <<since, lock, cache, lookup>>

-----------------------------------------------------------------------------

\* wanted are the queries yet to be looked up and query the one under way; wait
\* is what is left of a thread's sleep and tries counts the 429s.
Lookup == [ pc : {"idle", "look", "throttle", "sleep", "call"}, wanted : SUBSET Query,
            query : Query \cup {None}, wait : 0..Interval, tries : 0..Attempts ]
Resting == [pc |-> "idle", wanted |-> {}, query |-> None, wait |-> 0, tries |-> 0]

Init ==
    /\ since = None
    /\ lock = None
    /\ cache = [q \in Query |-> None]
    /\ lookup = [t \in Thread |-> Resting]

Doing(t, pc) == lookup[t].pc = pc

Turn(t, state) == lookup' = [lookup EXCEPT ![t] = state]

\* The query is answered, from the cache or not; on to the next, if any.
Answered(t, q) ==
    LET wanted == lookup[t].wanted \ {q} IN
    Turn(t, IF wanted = {} THEN Resting
            ELSE [Resting EXCEPT !.pc = "look", !.wanted = wanted])

\* A search wants one query, a generated playlist up to two per suggestion,
\* the looser one only when the stricter one has no hits.
Ask(t, wanted) ==
    /\ Doing(t, "idle")
    /\ wanted # {}
    /\ Turn(t, [Resting EXCEPT !.pc = "look", !.wanted = wanted])
    /\ UNCHANGED <<since, lock, cache>>

CacheHit(t) ==
    /\ Doing(t, "look")
    /\ \E q \in lookup[t].wanted :
          /\ cache[q] # None
          /\ Answered(t, q)
    /\ UNCHANGED <<since, lock, cache>>

CacheMiss(t) ==
    /\ Doing(t, "look")
    /\ \E q \in lookup[t].wanted :
          /\ cache[q] = None
          /\ Turn(t, [lookup[t] EXCEPT !.pc = "throttle", !.query = q])
    /\ UNCHANGED <<since, lock, cache>>

\* MUTANT of Acquire: the sleep is computed without waiting for the lock
AcquiresUnlocked(t) ==
    /\ Doing(t, "throttle")
    /\ lock' = t
    /\ Turn(t, [lookup[t] EXCEPT !.pc = "sleep",
                                 !.wait = IF since = None THEN 0 ELSE Interval - since])
    /\ UNCHANGED <<since, cache>>

\* _throttle: how long to sleep is computed, and slept, with the lock held.
Acquire(t) ==
    /\ Doing(t, "throttle")
    /\ lock = None
    /\ lock' = t
    /\ Turn(t, [lookup[t] EXCEPT !.pc = "sleep",
                                 !.wait = IF since = None THEN 0 ELSE Interval - since])
    /\ UNCHANGED <<since, cache>>

Release(t) ==
    /\ Doing(t, "sleep")
    /\ lookup[t].wait = 0
    /\ since' = 0
    /\ lock' = None
    /\ Turn(t, [lookup[t] EXCEPT !.pc = "call"])
    /\ UNCHANGED cache

\* The answer is cached; nothing else is.  Two threads that missed the same
\* query both call.
CallAnswered(t) ==
    /\ Doing(t, "call")
    /\ cache' = [cache EXCEPT ![lookup[t].query] = 0]
    /\ Answered(t, lookup[t].query)
    /\ UNCHANGED <<since, lock>>

\* What is reported as a 429 is replayed, past the throttle, until the attempts
\* are used up: a server error that spotipy stops replaying is, see Spotify.
CallReplayed(t) ==
    /\ Doing(t, "call")
    /\ lookup[t].tries + 1 < Attempts
    /\ Turn(t, [lookup[t] EXCEPT !.tries = @ + 1])
    /\ UNCHANGED <<since, lock, cache>>

\* The last 429, or any other error, ends the request: what a generated
\* playlist has found so far is dropped, the cache keeps it.
CallFails(t) ==
    /\ Doing(t, "call")
    /\ Turn(t, Resting)
    /\ UNCHANGED <<since, lock, cache>>

\* A sleep may last longer than asked for; an answer lasts Ttl ticks.
Tick ==
    /\ since' = IF since = None \/ since = Interval THEN since ELSE since + 1
    /\ cache' = [q \in Query |-> IF cache[q] = None \/ cache[q] + 1 = Ttl THEN None ELSE cache[q] + 1]
    /\ lookup' = [t \in Thread |->
                     IF lookup[t].wait > 0 THEN [lookup[t] EXCEPT !.wait = @ - 1] ELSE lookup[t]]
    /\ UNCHANGED lock

\* The cache is full: the answers to other queries push this one out.
Evict(q) ==
    /\ cache[q] # None
    /\ cache' = [cache EXCEPT ![q] = None]
    /\ UNCHANGED <<since, lock, lookup>>

Next ==
    \/ Tick
    \/ \E q \in Query : Evict(q)
    \/ \E t \in Thread :
          \/ CacheHit(t) \/ CacheMiss(t) \/ Acquire(t) \/ Release(t)
          \/ CallAnswered(t) \/ CallReplayed(t) \/ CallFails(t)
          \/ \E wanted \in SUBSET Query : Ask(t, wanted)

Spec == Init /\ [][Next]_clients

-----------------------------------------------------------------------------

\* Whatever threads search at once, and however late they wake, _throttle lets
\* two calls go at least Interval apart.  Replays do not count: they do not pass
\* through it.
Spaced ==
    [][\A t \in Thread :
          Doing(t, "sleep") /\ lookup'[t].pc = "call" => since \in {None, Interval}]_clients

-----------------------------------------------------------------------------
(* The inductive invariant: one thread sleeps at a time, and what is left  *)
(* of its sleep makes up for what is left of the interval.                 *)

TypeOK ==
    /\ since \in (0..Interval) \cup {None}
    /\ lookup \in [Thread -> Lookup]

\* A thread that sleeps has the lock, and when it wakes an interval will have
\* passed since the last call.
Sleeps ==
    \A t \in Thread : Doing(t, "sleep") =>
        /\ lock = t
        /\ since = None \/ since + lookup[t].wait >= Interval

Inv == TypeOK /\ Sleeps

=============================================================================
