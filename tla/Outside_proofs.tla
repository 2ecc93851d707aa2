---------------------------- MODULE Outside_proofs ----------------------------
(***************************************************************************)
(* Proofs about the two components that call other services, for any       *)
(* number of threads, requests and grants: calls are spaced, the newest    *)
(* refresh token is kept, a deleted account has no link, and no request    *)
(* makes two playlists.  Each is proved of the component alone, and then   *)
(* of Outside.                                                             *)
(***************************************************************************)
EXTENDS Outside, FiniteSetTheorems, TLAPS

-----------------------------------------------------------------------------
(* Search.                                                                 *)

LEMMA SearchFacts ==
    ASSUME Clients!TypeOK
    PROVE  /\ Interval \in Nat
           /\ \A t \in Thread : /\ lookup[t] \in Clients!Lookup
                                /\ lookup[t].wait \in 0..Interval
           /\ Clients!Resting \in Clients!Lookup
           /\ Clients!Resting.pc = "idle" /\ Clients!Resting.wait = 0
<1>1. Interval \in Nat /\ Attempts \in Nat
      BY OutsideAssumption
<1>2. Clients!Resting \in Clients!Lookup
      BY <1>1 DEF Clients!Resting, Clients!Lookup
<1>3. QED
      BY <1>1, <1>2 DEF Clients!TypeOK, Clients!Lookup, Clients!Resting

LEMMA SearchInit == Clients!Init => Clients!Inv
<1>1. SUFFICES ASSUME Clients!Init PROVE Clients!Inv
      OBVIOUS
<1>2. Clients!Resting \in Clients!Lookup /\ Clients!Resting.pc = "idle"
      BY OutsideAssumption DEF Clients!Resting, Clients!Lookup
<1>3. \A t \in Thread : lookup[t] = Clients!Resting
      BY <1>1 DEF Clients!Init
<1>4. lookup \in [Thread -> Clients!Lookup] /\ since = None
      BY <1>1, <1>2 DEF Clients!Init
<1>5. QED
      BY <1>2, <1>3, <1>4 DEF Clients!Inv, Clients!TypeOK, Clients!Sleeps, Clients!Doing

\* What a thread does that neither takes nor gives up the lock: it does not
\* sleep before or after.
LEMMA SearchAwake ==
    ASSUME Clients!Inv, NEW t \in Thread, NEW q \in Clients!Lookup,
           lookup' = [lookup EXCEPT ![t] = q], since' = since, lock' = lock,
           lookup[t].pc # "sleep", q.pc # "sleep"
    PROVE  /\ Clients!Inv'
           /\ \A u \in Thread : lookup[u].pc = "sleep" => lookup'[u].pc # "call"
<1>1. /\ lookup' \in [Thread -> Clients!Lookup]
      /\ lookup'[t] = q
      /\ \A u \in Thread : u # t => lookup'[u] = lookup[u]
      BY DEF Clients!Inv, Clients!TypeOK
<1>2. Clients!TypeOK'
      BY <1>1 DEF Clients!Inv, Clients!TypeOK
<1>3. Clients!Sleeps'
      BY <1>1 DEF Clients!Inv, Clients!Sleeps, Clients!Doing
<1>4. QED
      BY <1>1, <1>2, <1>3 DEF Clients!Inv

\* The steps of a thread that is awake.
LEMMA SearchAwakeSteps ==
    ASSUME Clients!Inv, NEW t \in Thread,
           \/ Clients!CacheHit(t) \/ Clients!CacheMiss(t) \/ Clients!CallAnswered(t)
           \/ Clients!CallReplayed(t) \/ Clients!CallFails(t)
           \/ \E wanted \in SUBSET Query : Clients!Ask(t, wanted)
    PROVE  /\ Clients!Inv'
           /\ \A u \in Thread : lookup[u].pc = "sleep" => lookup'[u].pc # "call"
<1>1. /\ lookup[t] \in Clients!Lookup /\ lookup[t].wanted \in SUBSET Query
      /\ lookup[t].tries \in 0..Attempts /\ lookup[t].wait \in 0..Interval
      /\ Attempts \in Nat /\ Interval \in Nat
      BY OutsideAssumption DEF Clients!Inv, Clients!TypeOK, Clients!Lookup
<1>2. /\ Clients!Resting \in Clients!Lookup /\ Clients!Resting.pc = "idle"
      BY OutsideAssumption DEF Clients!Resting, Clients!Lookup
<1>3. since' = since /\ lock' = lock /\ lookup[t].pc \in {"idle", "look", "call"}
      BY DEF Clients!CacheHit, Clients!CacheMiss, Clients!CallAnswered, Clients!CallReplayed,
             Clients!CallFails, Clients!Ask, Clients!Doing
<1>4. ASSUME NEW wanted \in SUBSET Query
      PROVE  \E q \in Clients!Lookup :
                q.pc = "look" /\ q = [Clients!Resting EXCEPT !.pc = "look", !.wanted = wanted]
      BY <1>2 DEF Clients!Lookup
<1>5. ASSUME NEW c, Clients!Answered(t, c)
      PROVE  \E q \in Clients!Lookup : q.pc # "sleep" /\ lookup' = [lookup EXCEPT ![t] = q]
  <2>1. PICK wanted \in SUBSET Query : wanted = lookup[t].wanted \ {c}
        BY <1>1
  <2>2. \/ lookup' = [lookup EXCEPT ![t] = Clients!Resting]
        \/ lookup' = [lookup EXCEPT ![t] = [Clients!Resting EXCEPT !.pc = "look",
                                                                  !.wanted = wanted]]
        BY <1>5, <2>1 DEF Clients!Answered, Clients!Turn
  <2>3. PICK q \in Clients!Lookup :
             q.pc = "look" /\ q = [Clients!Resting EXCEPT !.pc = "look", !.wanted = wanted]
        BY <1>4
  <2>4. QED
        BY <1>2, <2>2, <2>3
<1>6. \E q \in Clients!Lookup : q.pc # "sleep" /\ lookup' = [lookup EXCEPT ![t] = q]
  <2>1. CASE Clients!CacheHit(t)
        BY <1>5, <2>1 DEF Clients!CacheHit
  <2>2. CASE Clients!CallAnswered(t)
        BY <1>5, <2>2 DEF Clients!CallAnswered
  <2>3. CASE Clients!CallFails(t)
        BY <1>2, <2>3 DEF Clients!CallFails, Clients!Turn
  <2>4. CASE Clients!CacheMiss(t)
    <3>1. PICK c \in lookup[t].wanted :
               lookup' = [lookup EXCEPT ![t] = [lookup[t] EXCEPT !.pc = "throttle",
                                                                 !.query = c]]
          BY <2>4 DEF Clients!CacheMiss, Clients!Turn
    <3>2. PICK q : q = [lookup[t] EXCEPT !.pc = "throttle", !.query = c]
          OBVIOUS
    <3>3. q \in Clients!Lookup /\ q.pc = "throttle"
          BY <1>1, <3>1, <3>2 DEF Clients!Lookup
    <3>4. QED
          BY <3>1, <3>2, <3>3
  <2>5. CASE Clients!CallReplayed(t)
    <3>1. PICK q : q = [lookup[t] EXCEPT !.tries = @ + 1]
          OBVIOUS
    <3>2. lookup[t].tries + 1 \in 0..Attempts
          BY <1>1, <2>5 DEF Clients!CallReplayed
    <3>3. q \in Clients!Lookup /\ q.pc = lookup[t].pc
          BY <1>1, <3>1, <3>2 DEF Clients!Lookup
    <3>4. lookup' = [lookup EXCEPT ![t] = q]
          BY <2>5, <3>1 DEF Clients!CallReplayed, Clients!Turn
    <3>5. QED
          BY <1>3, <3>3, <3>4
  <2>6. ASSUME NEW wanted \in SUBSET Query, Clients!Ask(t, wanted)
        PROVE  \E q \in Clients!Lookup : q.pc # "sleep" /\ lookup' = [lookup EXCEPT ![t] = q]
    <3>1. PICK q \in Clients!Lookup :
               q.pc = "look" /\ q = [Clients!Resting EXCEPT !.pc = "look", !.wanted = wanted]
          BY <1>4
    <3>2. lookup' = [lookup EXCEPT ![t] = q]
          BY <2>6, <3>1 DEF Clients!Ask, Clients!Turn
    <3>3. QED
          BY <3>1, <3>2
  <2>7. QED
        BY <2>1, <2>2, <2>3, <2>4, <2>5, <2>6
<1>7. QED
      BY <1>3, <1>6, SearchAwake

\* A thread that gets the lock sleeps for what is left of the interval.
LEMMA SearchAcquire ==
    ASSUME Clients!Inv, NEW t \in Thread, Clients!Acquire(t)
    PROVE  /\ Clients!Inv'
           /\ \A u \in Thread : lookup[u].pc = "sleep" => lookup'[u].pc # "call"
<1>1. /\ lookup \in [Thread -> Clients!Lookup] /\ lookup[t] \in Clients!Lookup
      /\ since \in (0..Interval) \cup {None} /\ Interval \in Nat
      BY OutsideAssumption DEF Clients!Inv, Clients!TypeOK
<1>2. lookup[t].pc = "throttle" /\ lock = None /\ lock' = t /\ since' = since
      BY DEF Clients!Acquire, Clients!Doing
<1>3. PICK wait : wait = IF since = None THEN 0 ELSE Interval - since
      OBVIOUS
<1>4. wait \in 0..Interval /\ (since = None \/ since + wait >= Interval)
      BY <1>1, <1>3
<1>5. PICK q : q = [lookup[t] EXCEPT !.pc = "sleep", !.wait = wait]
      OBVIOUS
<1>6. q \in Clients!Lookup /\ q.pc = "sleep" /\ q.wait = wait
      BY <1>1, <1>4, <1>5 DEF Clients!Lookup
<1>7. lookup' = [lookup EXCEPT ![t] = q]
      BY <1>3, <1>5 DEF Clients!Acquire, Clients!Turn
<1>8. /\ lookup' \in [Thread -> Clients!Lookup]
      /\ lookup'[t] = q
      /\ \A u \in Thread : u # t => lookup'[u] = lookup[u]
      BY <1>1, <1>6, <1>7
<1>9. Clients!TypeOK'
      BY <1>1, <1>2, <1>8 DEF Clients!TypeOK
<1>10. ASSUME NEW u \in Thread, u # t PROVE lookup[u].pc # "sleep"
  <2>1. u # None
        BY OutsideAssumption
  <2>2. SUFFICES ASSUME lookup[u].pc = "sleep" PROVE FALSE
        OBVIOUS
  <2>3. lock = u
        BY <2>2 DEF Clients!Inv, Clients!Sleeps, Clients!Doing
  <2>4. QED
        BY <1>2, <2>1, <2>3
<1>11. Clients!Sleeps'
      BY <1>2, <1>4, <1>6, <1>8, <1>10 DEF Clients!Sleeps, Clients!Doing
<1>12. QED
      BY <1>2, <1>6, <1>8, <1>9, <1>10, <1>11 DEF Clients!Inv

\* It wakes when the interval is over, and nobody else sleeps.
LEMMA SearchRelease ==
    ASSUME Clients!Inv, NEW t \in Thread, Clients!Release(t)
    PROVE  /\ Clients!Inv'
           /\ since \in {None, Interval}
<1>1. /\ lookup \in [Thread -> Clients!Lookup] /\ lookup[t] \in Clients!Lookup
      /\ since \in (0..Interval) \cup {None} /\ Interval \in Nat
      BY OutsideAssumption DEF Clients!Inv, Clients!TypeOK
<1>2. lookup[t].pc = "sleep" /\ lookup[t].wait = 0 /\ since' = 0
      BY DEF Clients!Release, Clients!Doing
<1>3. since \in {None, Interval} /\ lock = t
      BY <1>1, <1>2 DEF Clients!Inv, Clients!Sleeps, Clients!Doing
<1>4. PICK q : q = [lookup[t] EXCEPT !.pc = "call"]
      OBVIOUS
<1>5. q \in Clients!Lookup /\ q.pc = "call"
      BY <1>1, <1>4 DEF Clients!Lookup
<1>6. lookup' = [lookup EXCEPT ![t] = q]
      BY <1>4 DEF Clients!Release, Clients!Turn
<1>7. /\ lookup' \in [Thread -> Clients!Lookup]
      /\ lookup'[t] = q
      /\ \A u \in Thread : u # t => lookup'[u] = lookup[u]
      BY <1>1, <1>5, <1>6
<1>8. \A u \in Thread : lookup'[u].pc # "sleep"
      BY <1>3, <1>5, <1>7 DEF Clients!Inv, Clients!Sleeps, Clients!Doing
<1>9. Clients!TypeOK'
      BY <1>1, <1>2, <1>7 DEF Clients!TypeOK
<1>10. QED
      BY <1>3, <1>8, <1>9 DEF Clients!Inv, Clients!Sleeps, Clients!Doing

\* A tick takes as much from the sleep as it adds to the time since the last
\* call.
LEMMA SearchTick ==
    ASSUME Clients!Inv, Clients!Tick
    PROVE  /\ Clients!Inv'
           /\ \A u \in Thread : lookup[u].pc = "sleep" => lookup'[u].pc # "call"
<1>1. /\ lookup \in [Thread -> Clients!Lookup] /\ Interval \in Nat
      /\ since \in (0..Interval) \cup {None}
      /\ \A u \in Thread : lookup[u] \in Clients!Lookup /\ lookup[u].wait \in 0..Interval
      BY OutsideAssumption DEF Clients!Inv, Clients!TypeOK, Clients!Lookup
<1>2. /\ since' = IF since = None \/ since = Interval THEN since ELSE since + 1
      /\ lock' = lock
      /\ lookup' = [u \in Thread |->
                      IF lookup[u].wait > 0 THEN [lookup[u] EXCEPT !.wait = @ - 1] ELSE lookup[u]]
      BY DEF Clients!Tick
<1>3. since' \in (0..Interval) \cup {None}
      BY <1>1, <1>2
<1>4. ASSUME NEW u \in Thread
      PROVE  /\ lookup'[u] \in Clients!Lookup
             /\ lookup'[u].pc = lookup[u].pc
             /\ lookup'[u].wait = IF lookup[u].wait > 0 THEN lookup[u].wait - 1 ELSE 0
  <2>1. CASE lookup[u].wait > 0
    <3>1. PICK q : q = [lookup[u] EXCEPT !.wait = @ - 1]
          OBVIOUS
    <3>2. lookup[u].wait - 1 \in 0..Interval
          BY <1>1, <2>1
    <3>3. q \in Clients!Lookup /\ q.pc = lookup[u].pc /\ q.wait = lookup[u].wait - 1
          BY <1>1, <3>1, <3>2 DEF Clients!Lookup
    <3>4. lookup'[u] = q
          BY <1>2, <2>1, <3>1
    <3>5. QED
          BY <2>1, <3>3, <3>4
  <2>2. CASE ~(lookup[u].wait > 0)
    <3>1. lookup'[u] = lookup[u] /\ lookup[u].wait = 0
          BY <1>1, <1>2, <2>2
    <3>2. QED
          BY <1>1, <2>2, <3>1
  <2>3. QED
        BY <2>1, <2>2
<1>5. lookup' \in [Thread -> Clients!Lookup]
  <2>1. lookup' = [u \in Thread |-> lookup'[u]]
        BY <1>2
  <2>2. QED
        BY <1>4, <2>1
<1>6. ASSUME NEW u \in Thread, lookup[u].pc = "sleep"
      PROVE  lock' = u /\ (since' = None \/ since' + lookup'[u].wait >= Interval)
  <2>1. lock = u /\ (since = None \/ since + lookup[u].wait >= Interval)
        BY <1>6 DEF Clients!Inv, Clients!Sleeps, Clients!Doing
  <2>2. CASE since = None \/ since = Interval
    <3>1. since' = since
          BY <1>2, <2>2
    <3>2. lookup'[u].wait \in Nat
          BY <1>1, <1>4
    <3>3. QED
          BY <1>1, <1>2, <2>1, <2>2, <3>1, <3>2
  <2>3. CASE since # None /\ since # Interval
    <3>1. since \in 0..Interval /\ since' = since + 1
          BY <1>1, <1>2, <2>3
    <3>2. QED
          BY <1>1, <1>2, <1>4, <2>1, <2>3, <3>1
  <2>4. QED
        BY <2>2, <2>3
<1>7. QED
      BY <1>3, <1>4, <1>5, <1>6
         DEF Clients!Inv, Clients!TypeOK, Clients!Sleeps, Clients!Doing

LEMMA SearchNext ==
    Clients!Inv /\ [Clients!Next]_clientVars
    => /\ Clients!Inv'
       /\ \/ UNCHANGED clientVars
          \/ \A t \in Thread : lookup[t].pc = "sleep" /\ lookup'[t].pc = "call"
                                  => since \in {None, Interval}
<1>1. SUFFICES ASSUME Clients!Inv, [Clients!Next]_clientVars
               PROVE  /\ Clients!Inv'
                      /\ \/ UNCHANGED clientVars
                         \/ \A t \in Thread : lookup[t].pc = "sleep" /\ lookup'[t].pc = "call"
                                                 => since \in {None, Interval}
      OBVIOUS
<1>2. CASE Clients!Tick
      BY <1>1, <1>2, SearchTick
<1>3. ASSUME NEW q \in Query, Clients!Evict(q)
      PROVE  /\ Clients!Inv'
             /\ \A t \in Thread : lookup'[t] = lookup[t]
  <2>1. since' = since /\ lock' = lock /\ lookup' = lookup
        BY <1>3 DEF Clients!Evict
  <2>2. QED
        BY <1>1, <2>1 DEF Clients!Inv, Clients!TypeOK, Clients!Sleeps, Clients!Doing
<1>4. ASSUME NEW t \in Thread,
             \/ Clients!CacheHit(t) \/ Clients!CacheMiss(t) \/ Clients!CallAnswered(t)
             \/ Clients!CallReplayed(t) \/ Clients!CallFails(t)
             \/ \E wanted \in SUBSET Query : Clients!Ask(t, wanted)
      PROVE  /\ Clients!Inv'
             /\ \A u \in Thread : lookup[u].pc = "sleep" => lookup'[u].pc # "call"
      BY <1>1, <1>4, SearchAwakeSteps
<1>5. ASSUME NEW t \in Thread, Clients!Acquire(t)
      PROVE  /\ Clients!Inv'
             /\ \A u \in Thread : lookup[u].pc = "sleep" => lookup'[u].pc # "call"
      BY <1>1, <1>5, SearchAcquire
<1>6. ASSUME NEW t \in Thread, Clients!Release(t)
      PROVE  /\ Clients!Inv'
             /\ since \in {None, Interval}
      BY <1>1, <1>6, SearchRelease
<1>7. CASE UNCHANGED clientVars
      BY <1>1, <1>7 DEF clientVars, Clients!Inv, Clients!TypeOK, Clients!Sleeps, Clients!Doing
<1>8. CASE \E q \in Query : Clients!Evict(q)
  <2>1. \A t \in Thread : lookup[t].pc = "sleep" => lookup'[t].pc # "call"
        BY <1>3, <1>8
  <2>2. QED
        BY <1>3, <1>8, <2>1
<1>9. QED
      BY <1>1, <1>2, <1>4, <1>5, <1>6, <1>7, <1>8 DEF Clients!Next

-----------------------------------------------------------------------------
(* Spotify: the row and the requests that use it.                          *)

\* What the invariant says of the row.
Linked ==
    /\ Accounts!RowsAgree
    /\ Accounts!GrantsAreNew
    /\ Accounts!RotatedOnce
    /\ Accounts!TokenKept
    /\ Accounts!DeletionKnows
    /\ Accounts!DeletedUnlinked

LEMMA SpotifyConstants ==
    /\ Accounts!NoLink \in Accounts!Link
    /\ Accounts!NoLink.of = None /\ Accounts!NoLink.id = None /\ Accounts!NoLink.fresh = FALSE
    /\ Accounts!Idle \in Accounts!Work
    /\ Accounts!Idle.pc = "idle" /\ Accounts!Idle.read = Accounts!NoLink
    /\ Accounts!Idle.filled = FALSE
<1>1. 0 \in 0..MaxTurn /\ 0 \in 0..Attempts
      BY OutsideAssumption
<1>2. /\ Accounts!NoLink \in Accounts!Link
      /\ Accounts!NoLink.of = None /\ Accounts!NoLink.id = None /\ Accounts!NoLink.fresh = FALSE
      BY <1>1 DEF Accounts!NoLink, Accounts!Link
<1>3. /\ Accounts!Idle \in Accounts!Work
      /\ Accounts!Idle.pc = "idle" /\ Accounts!Idle.read = Accounts!NoLink
      /\ Accounts!Idle.filled = FALSE
      BY <1>1, <1>2 DEF Accounts!Idle, Accounts!Work, Accounts!Pc
<1>4. QED
      BY <1>2, <1>3

LEMMA SpotifyTypes ==
    ASSUME Accounts!TypeOK
    PROVE  /\ MaxTurn \in Nat
           /\ link \in Accounts!Link /\ link.turn \in 0..MaxTurn
           /\ \A r \in Request : /\ request[r] \in Accounts!Work
                                 /\ request[r].read \in Accounts!Link
                                 /\ request[r].read.turn \in 0..MaxTurn
                                 /\ request[r].turn \in 0..MaxTurn
                                 /\ request[r].tries \in 0..Attempts
                                 /\ request[r].of \in Grant \cup {None}
           /\ \A g \in Grant : newest[g] \in 0..MaxTurn
           /\ \A l \in Accounts!Rows : l \in Accounts!Link /\ l.turn \in 0..MaxTurn
<1>1. MaxTurn \in Nat
      BY OutsideAssumption
<1>2. link \in Accounts!Link /\ \A l \in Accounts!Link : l.turn \in 0..MaxTurn
      BY DEF Accounts!TypeOK, Accounts!Link
<1>3. \A r \in Request : /\ request[r] \in Accounts!Work
                         /\ request[r].read \in Accounts!Link
                         /\ request[r].turn \in 0..MaxTurn
                         /\ request[r].tries \in 0..Attempts
                         /\ request[r].of \in Grant \cup {None}
      BY DEF Accounts!TypeOK, Accounts!Work
<1>4. \A g \in Grant : newest[g] \in 0..MaxTurn
      BY DEF Accounts!TypeOK
<1>5. \A l \in Accounts!Rows : l \in Accounts!Link
      BY <1>2, <1>3 DEF Accounts!Rows
<1>6. QED
      BY <1>1, <1>2, <1>3, <1>4, <1>5

\* Only the row that is not there has no grant.
LEMMA RowsFacts ==
    ASSUME Accounts!RowsAgree
    PROVE  /\ link \in Accounts!Rows
           /\ \A r \in Request : request[r].read \in Accounts!Rows
           /\ \A l \in Accounts!Rows :
                 /\ l # Accounts!NoLink => l.of \in Grant /\ l.id \in Grant
                 /\ l.of = None <=> l = Accounts!NoLink
                 /\ l.id = None <=> l = Accounts!NoLink
BY SpotifyConstants, OutsideAssumption DEF Accounts!RowsAgree, Accounts!Rows

\* A request that is about to store a token has read the row of its grant.
LEMMA StoreFacts ==
    ASSUME Linked, NEW r \in Request, request[r].pc \in {"refresh", "store"}
    PROVE  /\ request[r].read # Accounts!NoLink
           /\ request[r].read.of \in Grant /\ request[r].read.id \in Grant
           /\ request[r].read.turn \in 1..newest[request[r].read.of]
           /\ request[r].pc = "store" => request[r].of = request[r].read.of
<1>1. /\ request[r].read # Accounts!NoLink
      /\ request[r].pc = "store" => request[r].of = request[r].read.of
      BY DEF Linked, Accounts!RotatedOnce, Accounts!At
<1>2. request[r].read \in Accounts!Rows
      BY RowsFacts DEF Linked
<1>3. QED
      BY <1>1, <1>2 DEF Linked, Accounts!RowsAgree

LEMMA WorkFacts ==
    ASSUME Accounts!TypeOK, NEW r \in Request, NEW q \in Accounts!Work,
           request' = [request EXCEPT ![r] = q]
    PROVE  /\ request' \in [Request -> Accounts!Work]
           /\ request'[r] = q
           /\ \A o \in Request : o # r => request'[o] = request[o]
BY DEF Accounts!TypeOK

\* A step of a request that leaves the row and Spotify alone: it takes up
\* nothing but the row as it is, and a token it gives up is one that was lost,
\* or of another grant than the row's.
LEMMA SpotifyQuiet ==
    ASSUME Accounts!TypeOK, Linked, NEW r \in Request, NEW q \in Accounts!Work,
           request' = [request EXCEPT ![r] = q],
           UNCHANGED <<link, newest, account>>, lost \subseteq lost', late => late',
           q.read \in Accounts!Rows \cup {Accounts!NoLink},
           q.pc \notin {"link", "store"},
           q.pc = "refresh" => q.read # Accounts!NoLink,
           q.pc = "delete" => q.read = link,
           Accounts!Rotated(r) => request[r].of \in lost' \/ link.of # request[r].of
    PROVE  Accounts!TypeOK' /\ Linked'
<1>1. /\ request' \in [Request -> Accounts!Work]
      /\ request'[r] = q
      /\ \A o \in Request : o # r => request'[o] = request[o]
      BY WorkFacts
<1>2. Accounts!TypeOK'
      BY <1>1 DEF Accounts!TypeOK
<1>3. /\ link \in Accounts!Rows
      /\ \A o \in Request : request[o].read \in Accounts!Rows
      /\ \A l \in Accounts!Rows : l # Accounts!NoLink => l.of \in Grant /\ l.id \in Grant
      BY RowsFacts DEF Linked
<1>4. \A l \in Accounts!Rows' : l \in Accounts!Rows \/ l = Accounts!NoLink
      BY <1>1, <1>3 DEF Accounts!Rows
<1>5. /\ Accounts!NoLink.of = None /\ Accounts!NoLink.id = None /\ None \notin Grant
      BY SpotifyConstants, OutsideAssumption
<1>6. Accounts!RowsAgree'
      BY <1>3, <1>4, <1>5 DEF Linked, Accounts!RowsAgree
<1>7. ASSUME NEW o \in Request, Accounts!At(o, "link")'
      PROVE  o # r /\ request'[o] = request[o] /\ Accounts!At(o, "link")
      BY <1>1, <1>7 DEF Accounts!At
<1>8. Accounts!GrantsAreNew'
      BY <1>4, <1>5, <1>7 DEF Linked, Accounts!GrantsAreNew
<1>9. ASSUME NEW o \in Request, Accounts!At(o, "store")'
      PROVE  /\ o # r /\ request'[o] = request[o] /\ Accounts!At(o, "store")
             /\ request[o].of \in Grant
             /\ Accounts!Rotated(o)' <=> Accounts!Rotated(o)
  <2>1. o # r /\ request'[o] = request[o] /\ request[o].pc = "store"
        BY <1>1, <1>9 DEF Accounts!At
  <2>2. request[o].of \in Grant
        BY <2>1, StoreFacts
  <2>3. QED
        BY <2>1, <2>2 DEF Accounts!At, Accounts!Rotated
<1>10. ASSUME NEW o \in Request, Accounts!At(o, "refresh")'
       PROVE  request'[o].read # Accounts!NoLink
  <2>1. CASE o = r
        BY <1>1, <1>10, <2>1 DEF Accounts!At
  <2>2. CASE o # r
        BY <1>1, <1>10, <2>2 DEF Linked, Accounts!RotatedOnce, Accounts!At
  <2>3. QED
        BY <2>1, <2>2
<1>11. ASSUME NEW o \in Request, Accounts!At(o, "store")'
       PROVE  /\ request'[o].read # Accounts!NoLink
              /\ request'[o].of = request'[o].read.of
       BY <1>9, <1>11 DEF Linked, Accounts!RotatedOnce
<1>12. ASSUME NEW o \in Request, Accounts!Rotated(o)'
       PROVE  /\ request'[o].turn = newest'[request'[o].of]
              /\ \A l \in Accounts!Rows' : l.of = request'[o].of => l.turn < request'[o].turn
              /\ \A p \in Request \ {o} : Accounts!Rotated(p)' => request'[p].of # request'[o].of
  <2>1. /\ request'[o] = request[o] /\ Accounts!Rotated(o) /\ request[o].of \in Grant
        BY <1>9, <1>12 DEF Accounts!Rotated
  <2>2. \A p \in Request : Accounts!Rotated(p)' => request'[p] = request[p] /\ Accounts!Rotated(p)
        BY <1>9 DEF Accounts!Rotated
  <2>3. QED
        BY <1>4, <1>5, <2>1, <2>2 DEF Linked, Accounts!RotatedOnce
<1>13. Accounts!RotatedOnce'
       BY <1>10, <1>11, <1>12 DEF Accounts!RotatedOnce
<1>14. Accounts!TokenKept'
  <2>1. SUFFICES ASSUME link # Accounts!NoLink, link.turn # newest[link.of], link.of \notin lost'
                 PROVE  \E o \in Request : Accounts!Rotated(o)' /\ request'[o].of = link.of
        BY DEF Accounts!TokenKept
  <2>2. PICK o \in Request : Accounts!Rotated(o) /\ request[o].of = link.of
        BY <2>1 DEF Linked, Accounts!TokenKept
  <2>3. o # r
        BY <2>1, <2>2
  <2>4. QED
        BY <1>1, <2>2, <2>3 DEF Accounts!Rotated, Accounts!At
<1>15. Accounts!DeletionKnows'
  <2>1. ASSUME NEW o \in Request, request'[o].pc = "delete", ~late'
        PROVE  link' = Accounts!NoLink \/ link'.id = request'[o].read.id
    <3>1. CASE o = r
          BY <1>1, <2>1, <3>1
    <3>2. CASE o # r
          BY <1>1, <2>1, <3>2 DEF Linked, Accounts!DeletionKnows, Accounts!At
    <3>3. QED
          BY <3>1, <3>2
  <2>2. QED
        BY <2>1 DEF Accounts!DeletionKnows, Accounts!At
<1>16. Accounts!DeletedUnlinked'
       BY DEF Linked, Accounts!DeletedUnlinked
<1>17. QED
      BY <1>2, <1>6, <1>8, <1>13, <1>14, <1>15, <1>16 DEF Linked

\* A row that keeps its id, its grant and its token, whatever else of it and of
\* the requests changes.
LEMMA SpotifyRowSame ==
    ASSUME Accounts!TypeOK, Linked, request' \in [Request -> Accounts!Work],
           \A o \in Request :
              \/ request'[o] = request[o]
              \/ /\ request'[o].pc \notin {"link", "refresh", "store", "delete"}
                 /\ request'[o].read \in Accounts!Rows
                 /\ ~Accounts!Rotated(o),
           link # Accounts!NoLink, link' # Accounts!NoLink, link' \in Accounts!Link,
           link'.id = link.id, link'.of = link.of, link'.turn = link.turn,
           UNCHANGED <<newest, account, lost, late>>
    PROVE  Accounts!TypeOK' /\ Linked'
<1>1. Accounts!TypeOK'
      BY DEF Accounts!TypeOK
<1>2. /\ link \in Accounts!Rows
      /\ \A o \in Request : request[o].read \in Accounts!Rows
      BY RowsFacts DEF Linked
<1>3. ASSUME NEW l \in Accounts!Rows'
      PROVE  \E m \in Accounts!Rows : /\ l.id = m.id /\ l.of = m.of /\ l.turn = m.turn
                                      /\ l # Accounts!NoLink => m # Accounts!NoLink
  <2>1. l = link' \/ \E o \in Request : l = request'[o].read
        BY DEF Accounts!Rows
  <2>2. CASE l = link'
        BY <1>2, <2>2
  <2>3. ASSUME NEW o \in Request, l = request'[o].read
        PROVE  l \in Accounts!Rows
        BY <1>2, <2>3
  <2>4. QED
        BY <2>1, <2>2, <2>3
<1>4. Accounts!RowsAgree'
  <2>1. ASSUME NEW l \in Accounts!Rows', l # Accounts!NoLink
        PROVE  l.id \in Grant /\ l.of \in Grant /\ l.turn \in 1..newest'[l.of]
    <3>1. PICK m \in Accounts!Rows : /\ l.id = m.id /\ l.of = m.of /\ l.turn = m.turn
                                     /\ m # Accounts!NoLink
          BY <1>3, <2>1
    <3>2. QED
          BY <3>1 DEF Linked, Accounts!RowsAgree
  <2>2. ASSUME NEW l \in Accounts!Rows', NEW k \in Accounts!Rows', l.of = k.of
        PROVE  l.id = k.id
    <3>1. PICK m \in Accounts!Rows : l.id = m.id /\ l.of = m.of
          BY <1>3
    <3>2. PICK n \in Accounts!Rows : k.id = n.id /\ k.of = n.of
          BY <1>3
    <3>3. QED
          BY <2>2, <3>1, <3>2 DEF Linked, Accounts!RowsAgree
  <2>3. QED
        BY <2>1, <2>2 DEF Accounts!RowsAgree
<1>5. ASSUME NEW o \in Request, request'[o].pc \in {"link", "refresh", "store", "delete"}
      PROVE  request'[o] = request[o]
      BY <1>5
<1>6. Accounts!GrantsAreNew'
  <2>1. ASSUME NEW o \in Request, request'[o].pc = "link"
        PROVE  /\ request'[o].of \in Grant
               /\ request'[o].turn = 1
               /\ newest'[request'[o].of] = 1
               /\ \A l \in Accounts!Rows' : l.of # request'[o].of
               /\ \A p \in Request \ {o} : request'[p].pc = "link" => request'[p].of # request'[o].of
    <3>1. request'[o] = request[o]
          BY <1>5, <2>1
    <3>2. /\ request[o].of \in Grant
          /\ request[o].turn = 1
          /\ newest[request[o].of] = 1
          /\ \A l \in Accounts!Rows : l.of # request[o].of
          /\ \A p \in Request \ {o} : request[p].pc = "link" => request[p].of # request[o].of
          BY <2>1, <3>1 DEF Linked, Accounts!GrantsAreNew, Accounts!At
    <3>3. \A l \in Accounts!Rows' : l.of # request[o].of
          BY <1>3, <3>2
    <3>4. \A p \in Request \ {o} : request'[p].pc = "link" => request'[p].of # request[o].of
          BY <1>5, <3>2
    <3>5. QED
          BY <3>1, <3>2, <3>3, <3>4
  <2>2. QED
        BY <2>1 DEF Accounts!GrantsAreNew, Accounts!At
<1>7. \A o \in Request : Accounts!Rotated(o)' => request'[o] = request[o] /\ Accounts!Rotated(o)
      BY <1>5 DEF Accounts!Rotated, Accounts!At
<1>8. Accounts!RotatedOnce'
  <2>1. ASSUME NEW o \in Request, request'[o].pc \in {"refresh", "store"}
        PROVE  /\ request'[o].read # Accounts!NoLink
               /\ request'[o].pc = "store" => request'[o].of = request'[o].read.of
        BY <1>5, <2>1, StoreFacts
  <2>2. ASSUME NEW o \in Request, Accounts!Rotated(o)'
        PROVE  /\ request'[o].turn = newest'[request'[o].of]
               /\ \A l \in Accounts!Rows' : l.of = request'[o].of => l.turn < request'[o].turn
               /\ \A p \in Request \ {o} :
                     Accounts!Rotated(p)' => request'[p].of # request'[o].of
    <3>1. /\ request'[o] = request[o]
          /\ request[o].turn = newest[request[o].of]
          /\ \A l \in Accounts!Rows : l.of = request[o].of => l.turn < request[o].turn
          /\ \A p \in Request \ {o} : Accounts!Rotated(p) => request[p].of # request[o].of
          BY <1>7, <2>2 DEF Linked, Accounts!RotatedOnce
    <3>2. \A l \in Accounts!Rows' : l.of = request[o].of => l.turn < request[o].turn
          BY <1>3, <3>1
    <3>3. \A p \in Request \ {o} : Accounts!Rotated(p)' => request'[p].of # request[o].of
          BY <1>7, <3>1
    <3>4. QED
          BY <3>1, <3>2, <3>3
  <2>3. QED
        BY <2>1, <2>2 DEF Accounts!RotatedOnce, Accounts!At
<1>9. ASSUME NEW o \in Request, Accounts!Rotated(o)
      PROVE  Accounts!Rotated(o)' /\ request'[o] = request[o]
      BY <1>9 DEF Accounts!Rotated, Accounts!At
<1>10. Accounts!TokenKept'
       BY <1>9 DEF Linked, Accounts!TokenKept
<1>11. Accounts!DeletionKnows'
       BY <1>5 DEF Linked, Accounts!DeletionKnows, Accounts!At
<1>12. Accounts!DeletedUnlinked'
       BY DEF Linked, Accounts!DeletedUnlinked
<1>13. QED
      BY <1>1, <1>4, <1>6, <1>8, <1>10, <1>11, <1>12 DEF Linked

\* A request puts the newest token of a grant into the row: into the row the
\* grant has always been in, or it is a new grant.  Nobody else is about to.
LEMMA SpotifyRowReplaced ==
    ASSUME Accounts!TypeOK, Linked, NEW r \in Request, NEW q \in Accounts!Work, NEW g \in Grant,
           request' = [request EXCEPT ![r] = q],
           q.read \in Accounts!Rows \cup {Accounts!NoLink},
           q.pc \notin {"link", "refresh", "store", "delete"},
           link' \in Accounts!Link, link' # Accounts!NoLink,
           link'.of = g, link'.turn = newest[g], newest[g] >= 1, link'.id \in Grant,
           \A l \in Accounts!Rows : l.of = g => l.id = link'.id,
           \A o \in Request \ {r} : Accounts!Rotated(o) => request[o].of # g,
           \A o \in Request \ {r} : Accounts!At(o, "link") => request[o].of # g,
           UNCHANGED <<newest, account, lost>>, late => late',
           ~late' => \/ link # Accounts!NoLink /\ link'.id = link.id
                     \/ account # "deleted" /\ \A o \in Request : ~Accounts!At(o, "delete")
    PROVE  Accounts!TypeOK' /\ Linked'
<1>1. /\ request' \in [Request -> Accounts!Work]
      /\ request'[r] = q
      /\ \A o \in Request : o # r => request'[o] = request[o]
      BY WorkFacts
<1>2. Accounts!TypeOK'
      BY <1>1 DEF Accounts!TypeOK
<1>3. /\ \A o \in Request : request[o].read \in Accounts!Rows
      /\ \A l \in Accounts!Rows : l # Accounts!NoLink => l.of \in Grant /\ l.id \in Grant
      BY RowsFacts DEF Linked
<1>4. \A l \in Accounts!Rows' : l \in Accounts!Rows \/ l = Accounts!NoLink \/ l = link'
      BY <1>1, <1>3 DEF Accounts!Rows
<1>5. /\ Accounts!NoLink.of = None /\ Accounts!NoLink.id = None /\ None \notin Grant
      BY SpotifyConstants, OutsideAssumption
<1>6. newest[g] \in Nat /\ newest[g] \in 1..newest[g]
      BY SpotifyTypes
<1>7. Accounts!RowsAgree'
  <2>1. ASSUME NEW l \in Accounts!Rows', l # Accounts!NoLink
        PROVE  l.id \in Grant /\ l.of \in Grant /\ l.turn \in 1..newest'[l.of]
    <3>1. CASE l = link'
          BY <1>6, <3>1
    <3>2. CASE l \in Accounts!Rows
          BY <2>1, <3>2 DEF Linked, Accounts!RowsAgree
    <3>3. QED
          BY <1>4, <2>1, <3>1, <3>2
  <2>2. ASSUME NEW l \in Accounts!Rows, NEW k \in Accounts!Rows, l.of = k.of
        PROVE  l.id = k.id
        BY <2>2 DEF Linked, Accounts!RowsAgree
  <2>3. ASSUME NEW l \in Accounts!Rows, l.of = None
        PROVE  l.id = None
        BY <1>3, <1>5, <2>3
  <2>4. ASSUME NEW l \in Accounts!Rows', NEW k \in Accounts!Rows', l.of = k.of
        PROVE  l.id = k.id
        BY <1>4, <1>5, <2>2, <2>3, <2>4
  <2>5. QED
        BY <2>1, <2>4 DEF Accounts!RowsAgree
<1>8. Accounts!GrantsAreNew'
  <2>1. ASSUME NEW o \in Request, request'[o].pc = "link"
        PROVE  /\ request'[o].of \in Grant
               /\ request'[o].turn = 1
               /\ newest'[request'[o].of] = 1
               /\ \A l \in Accounts!Rows' : l.of # request'[o].of
               /\ \A p \in Request \ {o} : request'[p].pc = "link" => request'[p].of # request'[o].of
    <3>1. o # r /\ request'[o] = request[o] /\ Accounts!At(o, "link")
          BY <1>1, <2>1 DEF Accounts!At
    <3>2. /\ request[o].of \in Grant
          /\ request[o].turn = 1
          /\ newest[request[o].of] = 1
          /\ \A l \in Accounts!Rows : l.of # request[o].of
          /\ \A p \in Request \ {o} : request[p].pc = "link" => request[p].of # request[o].of
          BY <3>1 DEF Linked, Accounts!GrantsAreNew, Accounts!At
    <3>3. \A l \in Accounts!Rows' : l.of # request[o].of
          BY <1>4, <1>5, <3>1, <3>2
    <3>4. \A p \in Request \ {o} : request'[p].pc = "link" => request'[p].of # request[o].of
          BY <1>1, <3>2
    <3>5. QED
          BY <3>1, <3>2, <3>3, <3>4
  <2>2. QED
        BY <2>1 DEF Accounts!GrantsAreNew, Accounts!At
<1>9. \A o \in Request : request'[o].pc \in {"refresh", "store"} =>
           o # r /\ request'[o] = request[o]
      BY <1>1
<1>10. ASSUME NEW o \in Request, Accounts!Rotated(o)'
       PROVE  /\ o # r /\ request'[o] = request[o] /\ Accounts!Rotated(o)
              /\ request[o].of \in Grant
  <2>1. o # r /\ request'[o] = request[o] /\ request[o].pc = "store"
        BY <1>9, <1>10 DEF Accounts!Rotated, Accounts!At
  <2>2. request[o].of \in Grant
        BY <2>1, StoreFacts
  <2>3. QED
        BY <1>10, <2>1, <2>2 DEF Accounts!Rotated, Accounts!At
<1>11. Accounts!RotatedOnce'
  <2>1. ASSUME NEW o \in Request, request'[o].pc \in {"refresh", "store"}
        PROVE  /\ request'[o].read # Accounts!NoLink
               /\ request'[o].pc = "store" => request'[o].of = request'[o].read.of
        BY <1>9, <2>1, StoreFacts
  <2>2. ASSUME NEW o \in Request, Accounts!Rotated(o)'
        PROVE  /\ request'[o].turn = newest'[request'[o].of]
               /\ \A l \in Accounts!Rows' : l.of = request'[o].of => l.turn < request'[o].turn
               /\ \A p \in Request \ {o} :
                     Accounts!Rotated(p)' => request'[p].of # request'[o].of
    <3>1. /\ o # r /\ request'[o] = request[o] /\ Accounts!Rotated(o) /\ request[o].of \in Grant
          BY <1>10, <2>2
    <3>2. /\ request[o].turn = newest[request[o].of]
          /\ \A l \in Accounts!Rows : l.of = request[o].of => l.turn < request[o].turn
          /\ \A p \in Request \ {o} : Accounts!Rotated(p) => request[p].of # request[o].of
          BY <3>1 DEF Linked, Accounts!RotatedOnce
    <3>3. request[o].of # g
          BY <3>1
    <3>4. \A l \in Accounts!Rows' : l.of = request[o].of => l.turn < request[o].turn
          BY <1>4, <1>5, <3>1, <3>2, <3>3
    <3>5. \A p \in Request \ {o} : Accounts!Rotated(p)' => request'[p].of # request[o].of
          BY <1>10, <3>2
    <3>6. QED
          BY <3>1, <3>2, <3>4, <3>5
  <2>3. QED
        BY <2>1, <2>2 DEF Accounts!RotatedOnce, Accounts!At
<1>12. Accounts!TokenKept'
       BY DEF Accounts!TokenKept
<1>13. Accounts!DeletionKnows'
  <2>1. ASSUME NEW o \in Request, request'[o].pc = "delete", ~late'
        PROVE  link'.id = request'[o].read.id
    <3>1. o # r /\ request'[o] = request[o] /\ Accounts!At(o, "delete")
          BY <1>1, <2>1 DEF Accounts!At
    <3>2. link # Accounts!NoLink /\ link'.id = link.id /\ ~late
          BY <2>1, <3>1
    <3>3. QED
          BY <3>1, <3>2 DEF Linked, Accounts!DeletionKnows
  <2>2. QED
        BY <2>1 DEF Accounts!DeletionKnows, Accounts!At
<1>14. Accounts!DeletedUnlinked'
  <2>1. SUFFICES ASSUME account = "deleted", ~late' PROVE FALSE
        BY DEF Accounts!DeletedUnlinked
  <2>2. link # Accounts!NoLink /\ ~late
        BY <2>1
  <2>3. QED
        BY <2>1, <2>2 DEF Linked, Accounts!DeletedUnlinked
<1>15. QED
      BY <1>2, <1>7, <1>8, <1>11, <1>12, <1>13, <1>14 DEF Linked

LEMMA SpotifyInit == Accounts!Init => Accounts!TypeOK /\ Linked
<1>1. SUFFICES ASSUME Accounts!Init PROVE Accounts!TypeOK /\ Linked
      OBVIOUS
<1>2. /\ \A o \in Request : request[o] = Accounts!Idle
      /\ request \in [Request -> Accounts!Work]
      /\ account = "live"
      BY <1>1, SpotifyConstants DEF Accounts!Init
<1>3. PICK l : l = [id |-> LongAgo, of |-> LongAgo, turn |-> 1,
                    fresh |-> FALSE, write |-> FALSE]
      OBVIOUS
<1>4. /\ l.id = LongAgo /\ l.of = LongAgo /\ l.turn = 1 /\ LongAgo \in Grant
      /\ l \in Accounts!Link
  <2>1. LongAgo \in Grant /\ 1 \in 0..MaxTurn
        BY OutsideAssumption
  <2>2. QED
        BY <1>3, <2>1 DEF Accounts!Link
<1>5. /\ link \in {Accounts!NoLink, l}
      /\ newest \in [Grant -> 0..MaxTurn]
      /\ link = l => newest[LongAgo] = 1
  <2>1. CASE link = Accounts!NoLink /\ newest = [g \in Grant |-> 0]
    <3>1. l # Accounts!NoLink
          BY <1>4, SpotifyConstants, OutsideAssumption
    <3>2. QED
          BY <2>1, <3>1, OutsideAssumption
  <2>2. CASE link = l /\ newest = [g \in Grant |-> IF g = LongAgo THEN 1 ELSE 0]
        BY <2>2, OutsideAssumption
  <2>3. QED
        BY <1>1, <1>3, <2>1, <2>2 DEF Accounts!Init
<1>6. Accounts!TypeOK
      BY <1>2, <1>4, <1>5, SpotifyConstants DEF Accounts!TypeOK
<1>7. \A k \in Accounts!Rows : k = Accounts!NoLink \/ k = link
      BY <1>2, SpotifyConstants DEF Accounts!Rows
<1>8. Accounts!RowsAgree
  <2>1. ASSUME NEW k \in Accounts!Rows, k # Accounts!NoLink
        PROVE  k.id \in Grant /\ k.of \in Grant /\ k.turn \in 1..newest[k.of]
        BY <1>4, <1>5, <1>7, <2>1
  <2>2. ASSUME NEW k \in Accounts!Rows, NEW m \in Accounts!Rows, k.of = m.of
        PROVE  k.id = m.id
        BY <1>4, <1>5, <1>7, <2>2, SpotifyConstants, OutsideAssumption
  <2>3. QED
        BY <2>1, <2>2 DEF Accounts!RowsAgree
<1>9. \A o \in Request : request[o].pc = "idle"
      BY <1>2, SpotifyConstants
<1>10. /\ Accounts!GrantsAreNew
       /\ Accounts!RotatedOnce
       /\ Accounts!DeletionKnows
       /\ Accounts!DeletedUnlinked
       BY <1>2, <1>9
          DEF Accounts!GrantsAreNew, Accounts!RotatedOnce, Accounts!Rotated,
              Accounts!DeletionKnows, Accounts!DeletedUnlinked, Accounts!At
<1>11. Accounts!TokenKept
       BY <1>4, <1>5 DEF Accounts!TokenKept
<1>12. QED
       BY <1>6, <1>8, <1>10, <1>11 DEF Linked

\* Reading the row, using it and giving up are quiet.
LEMMA SpotifyQuietSteps ==
    ASSUME Accounts!TypeOK, Linked, NEW r \in Request,
           \/ Accounts!ListPlaylists(r) \/ Accounts!DeleteRead(r) \/ Accounts!Abort(r)
           \/ Accounts!Create(r) \/ Accounts!Add(r)
           \/ \E use \in {"list", "create"} : Accounts!BeginUse(r, use)
    PROVE  Accounts!TypeOK' /\ Linked'
<1>1. /\ request[r] \in Accounts!Work /\ request[r].read \in Accounts!Rows
      /\ link \in Accounts!Rows /\ link \in Accounts!Link
      /\ request[r].tries \in 0..Attempts /\ Attempts \in Nat /\ 0 \in 0..Attempts
      BY SpotifyTypes, RowsFacts, OutsideAssumption DEF Linked
<1>2. /\ Accounts!Idle \in Accounts!Work
      /\ Accounts!Idle.pc = "idle" /\ Accounts!Idle.read = Accounts!NoLink
      BY SpotifyConstants
<1>3. /\ link' = link /\ newest' = newest /\ account' = account /\ late' = late
      /\ lost \subseteq lost'
      BY DEF Accounts!ListPlaylists, Accounts!DeleteRead, Accounts!Abort, Accounts!Create,
             Accounts!Add, Accounts!BeginUse
<1>4. Accounts!Rotated(r) => request[r].of \in lost'
      BY DEF Accounts!ListPlaylists, Accounts!DeleteRead, Accounts!Abort, Accounts!Create,
             Accounts!Add, Accounts!BeginUse, Accounts!Rotated, Accounts!At
<1>5. ASSUME NEW q \in Accounts!Work, q = Accounts!Idle, request' = [request EXCEPT ![r] = q]
      PROVE  Accounts!TypeOK' /\ Linked'
      BY <1>2, <1>3, <1>4, <1>5, SpotifyQuiet
<1>6. ASSUME NEW q \in Accounts!Work, q.pc \in {"create", "add"}, q.read = request[r].read,
             request' = [request EXCEPT ![r] = q]
      PROVE  Accounts!TypeOK' /\ Linked'
      BY <1>1, <1>3, <1>4, <1>6, SpotifyQuiet
<1>7. CASE request' = [request EXCEPT ![r] = Accounts!Idle]
      BY <1>2, <1>5, <1>7
<1>8. ASSUME NEW try, Accounts!Retry(r, try), request[r].pc \in {"create", "add"}
      PROVE  Accounts!TypeOK' /\ Linked'
  <2>1. CASE /\ request[r].tries + 1 < Attempts
             /\ request' = [request EXCEPT ![r] =
                              [request[r] EXCEPT !.tries = @ + 1,
                                 !.filled = @ \/ (request[r].pc = "add" /\ Accounts!Works(try))]]
    <3>1. PICK filled : filled = (request[r].filled
                                  \/ (request[r].pc = "add" /\ Accounts!Works(try)))
          OBVIOUS
    <3>2. /\ request[r].tries + 1 \in 0..Attempts /\ filled \in BOOLEAN
          /\ request[r].filled \in BOOLEAN
          BY <1>1, <2>1, <3>1 DEF Accounts!Work, Accounts!Works
    <3>3. PICK q : q = [request[r] EXCEPT !.tries = @ + 1, !.filled = filled]
          OBVIOUS
    <3>4. q \in Accounts!Work /\ q.pc = request[r].pc /\ q.read = request[r].read
          BY <1>1, <3>2, <3>3 DEF Accounts!Work
    <3>5. request' = [request EXCEPT ![r] = q]
          BY <2>1, <3>1, <3>3
    <3>6. QED
          BY <1>6, <1>8, <3>4, <3>5
  <2>2. QED
        BY <1>7, <1>8, <2>1 DEF Accounts!Retry, Accounts!Become, Accounts!At
<1>9. CASE Accounts!ListPlaylists(r) \/ Accounts!Abort(r)
      BY <1>7, <1>9 DEF Accounts!ListPlaylists, Accounts!Abort, Accounts!Become
<1>10. CASE Accounts!DeleteRead(r)
  <2>1. PICK q : q = [Accounts!Idle EXCEPT !.pc = "delete", !.read = link]
        OBVIOUS
  <2>2. q \in Accounts!Work /\ q.pc = "delete" /\ q.read = link
        BY <1>1, <1>2, <2>1 DEF Accounts!Idle, Accounts!Work, Accounts!Pc
  <2>3. request' = [request EXCEPT ![r] = q]
        BY <1>10, <2>1 DEF Accounts!DeleteRead, Accounts!Become
  <2>4. QED
        BY <1>1, <1>3, <1>4, <2>2, <2>3, SpotifyQuiet
<1>11. CASE Accounts!Create(r)
  <2>1. PICK try : IF try = "done" THEN Accounts!Goto(r, "add") ELSE Accounts!Retry(r, try)
        BY <1>11 DEF Accounts!Create
  <2>2. CASE try = "done"
    <3>1. PICK q : q = [request[r] EXCEPT !.pc = "add", !.tries = 0]
          OBVIOUS
    <3>2. q \in Accounts!Work /\ q.pc = "add" /\ q.read = request[r].read
          BY <1>1, <3>1 DEF Accounts!Work, Accounts!Pc
    <3>3. request' = [request EXCEPT ![r] = q]
          BY <2>1, <2>2, <3>1 DEF Accounts!Goto, Accounts!Become
    <3>4. QED
          BY <1>6, <3>2, <3>3
  <2>3. QED
        BY <1>8, <1>11, <2>1, <2>2 DEF Accounts!Create, Accounts!At
<1>12. CASE Accounts!Add(r)
  <2>1. PICK try : IF try = "done" THEN Accounts!Become(r, Accounts!Idle)
                                   ELSE Accounts!Retry(r, try)
        BY <1>12 DEF Accounts!Add
  <2>2. QED
        BY <1>7, <1>8, <1>12, <2>1 DEF Accounts!Add, Accounts!At, Accounts!Become
<1>13. ASSUME NEW use \in {"list", "create"}, Accounts!BeginUse(r, use)
       PROVE  Accounts!TypeOK' /\ Linked'
  <2>1. PICK pc : pc = IF link.fresh THEN use ELSE "refresh"
        OBVIOUS
  <2>2. PICK q : q = [Accounts!Idle EXCEPT !.pc = pc, !.read = link, !.use = use]
        OBVIOUS
  <2>3. q \in Accounts!Work /\ q.pc = pc /\ q.read = link
        BY <1>1, <1>2, <2>1, <2>2 DEF Accounts!Idle, Accounts!Work, Accounts!Pc
  <2>4. request' = [request EXCEPT ![r] = q] /\ link # Accounts!NoLink
        BY <1>13, <2>1, <2>2 DEF Accounts!BeginUse, Accounts!Become
  <2>5. pc \notin {"link", "store", "delete"}
        BY <2>1
  <2>6. QED
        BY <1>1, <1>3, <1>4, <2>3, <2>4, <2>5, SpotifyQuiet
<1>14. QED
       BY <1>9, <1>10, <1>11, <1>12, <1>13

LEMMA SpotifyStill ==
    ASSUME Accounts!TypeOK, Linked,
           UNCHANGED <<link, newest, request, account, lost, late>>
    PROVE  Accounts!TypeOK' /\ Linked'
BY DEF Linked, Accounts!TypeOK, Accounts!Rows, Accounts!RowsAgree, Accounts!GrantsAreNew,
       Accounts!RotatedOnce, Accounts!Rotated, Accounts!TokenKept, Accounts!DeletionKnows,
       Accounts!DeletedUnlinked, Accounts!At

LEMMA SpotifyTokenExpires ==
    ASSUME Accounts!TypeOK, Linked, Accounts!TokenExpires
    PROVE  Accounts!TypeOK' /\ Linked'
<1>1. /\ link \in Accounts!Link /\ link.fresh /\ link # Accounts!NoLink
      /\ link' = [link EXCEPT !.fresh = FALSE]
      /\ UNCHANGED <<newest, request, account, lost, late>>
      BY SpotifyTypes, SpotifyConstants DEF Accounts!TokenExpires
<1>2. /\ link' \in Accounts!Link
      /\ link'.id = link.id /\ link'.of = link.of /\ link'.turn = link.turn
      BY <1>1 DEF Accounts!Link
<1>3. link' # Accounts!NoLink
  <2>1. link \in Accounts!Rows
        BY RowsFacts DEF Linked
  <2>2. link.id # None
        BY <1>1, <2>1, RowsFacts DEF Linked
  <2>3. QED
        BY <1>2, <2>2, SpotifyConstants
<1>4. request' \in [Request -> Accounts!Work]
      BY <1>1 DEF Accounts!TypeOK
<1>5. QED
      BY <1>1, <1>2, <1>3, <1>4, SpotifyRowSame

\* Spotify answers a refresh, and may draw a new token: the request has it, or
\* it is lost.  Nobody else has one of the grant, for the request has read the
\* newest token.
LEMMA SpotifyDrawn ==
    ASSUME Accounts!TypeOK, Linked, NEW r \in Request, NEW q \in Accounts!Work,
           NEW g \in Grant, NEW turn \in 0..MaxTurn,
           request[r].pc = "refresh", request[r].read.of = g,
           newest[g] = request[r].read.turn, turn \in {newest[g], newest[g] + 1},
           newest' = [newest EXCEPT ![g] = turn],
           request' = [request EXCEPT ![r] = q],
           UNCHANGED <<account, link, late>>, lost \subseteq lost',
           \/ q.pc = "idle" /\ q.read = Accounts!NoLink /\ (turn = newest[g] \/ g \in lost')
           \/ q.pc = "store" /\ q.read = request[r].read /\ q.of = g /\ q.turn = turn
    PROVE  Accounts!TypeOK' /\ Linked'
<1>1. /\ newest \in [Grant -> 0..MaxTurn] /\ newest[g] \in Nat /\ turn \in Nat
      /\ newest[g] <= turn /\ newest' \in [Grant -> 0..MaxTurn] /\ newest'[g] = turn
      BY SpotifyTypes DEF Accounts!TypeOK
<1>2. /\ \A h \in Grant : h # g => newest'[h] = newest[h]
      BY <1>1
<1>3. \A h \in Grant : newest[h] \in Nat /\ newest'[h] \in Nat /\ newest[h] <= newest'[h]
      BY <1>1, <1>2, SpotifyTypes
<1>4. /\ request' \in [Request -> Accounts!Work]
      /\ request'[r] = q
      /\ \A o \in Request : o # r => request'[o] = request[o]
      BY WorkFacts
<1>5. Accounts!TypeOK'
      BY <1>1, <1>4 DEF Accounts!TypeOK
<1>6. /\ request[r].read \in Accounts!Rows /\ request[r].read # Accounts!NoLink
      BY StoreFacts, RowsFacts DEF Linked
<1>7. \A l \in Accounts!Rows' : l \in Accounts!Rows \/ l = Accounts!NoLink
      BY <1>4, <1>6 DEF Accounts!Rows
<1>8. /\ Accounts!NoLink.of = None /\ Accounts!NoLink.id = None /\ None \notin Grant
      BY SpotifyConstants, OutsideAssumption
<1>9. ASSUME NEW l \in Accounts!Rows, l # Accounts!NoLink
      PROVE  /\ l.id \in Grant /\ l.of \in Grant /\ l.turn \in 1..newest[l.of]
             /\ l.turn \in 1..newest'[l.of]
  <2>1. l.id \in Grant /\ l.of \in Grant /\ l.turn \in 1..newest[l.of]
        BY <1>9 DEF Linked, Accounts!RowsAgree
  <2>2. newest[l.of] \in Nat /\ newest'[l.of] \in Nat /\ newest[l.of] <= newest'[l.of]
        BY <1>3, <2>1
  <2>3. QED
        BY <2>1, <2>2
<1>10. Accounts!RowsAgree'
  <2>1. ASSUME NEW l \in Accounts!Rows, l.of = None
        PROVE  l.id = None
        BY <1>8, <1>9, <2>1
  <2>2. ASSUME NEW l \in Accounts!Rows', NEW m \in Accounts!Rows', l.of = m.of
        PROVE  l.id = m.id
        BY <1>7, <1>8, <2>1, <2>2 DEF Linked, Accounts!RowsAgree
  <2>3. QED
        BY <1>7, <1>9, <2>2 DEF Accounts!RowsAgree
<1>11. ASSUME NEW o \in Request, request'[o].pc \in {"link", "delete"}
       PROVE  o # r /\ request'[o] = request[o]
       BY <1>4, <1>11
<1>12. Accounts!GrantsAreNew'
  <2>1. ASSUME NEW o \in Request, request'[o].pc = "link"
        PROVE  /\ request'[o].of \in Grant
               /\ request'[o].turn = 1
               /\ newest'[request'[o].of] = 1
               /\ \A l \in Accounts!Rows' : l.of # request'[o].of
               /\ \A p \in Request \ {o} : request'[p].pc = "link" => request'[p].of # request'[o].of
    <3>1. request'[o] = request[o]
          BY <1>11, <2>1
    <3>2. /\ request[o].of \in Grant
          /\ request[o].turn = 1
          /\ newest[request[o].of] = 1
          /\ \A l \in Accounts!Rows : l.of # request[o].of
          /\ \A p \in Request \ {o} : request[p].pc = "link" => request[p].of # request[o].of
          BY <2>1, <3>1 DEF Linked, Accounts!GrantsAreNew, Accounts!At
    <3>3. newest'[request[o].of] = 1
          BY <1>2, <1>6, <3>2
    <3>4. \A l \in Accounts!Rows' : l.of # request[o].of
          BY <1>7, <1>8, <3>2
    <3>5. \A p \in Request \ {o} : request'[p].pc = "link" => request'[p].of # request[o].of
          BY <1>11, <3>2
    <3>6. QED
          BY <3>1, <3>2, <3>3, <3>4, <3>5
  <2>2. QED
        BY <2>1 DEF Accounts!GrantsAreNew, Accounts!At
<1>13. ASSUME NEW o \in Request, Accounts!Rotated(o)
       PROVE  /\ o # r /\ request[o].of \in Grant /\ request[o].of # g
              /\ Accounts!Rotated(o)' /\ request'[o] = request[o]
  <2>1. request[o].pc = "store" /\ o # r
        BY <1>13 DEF Accounts!Rotated, Accounts!At
  <2>2. request[o].of \in Grant
        BY <2>1, StoreFacts
  <2>3. /\ request[o].turn = newest[request[o].of]
        /\ \A l \in Accounts!Rows : l.of = request[o].of => l.turn < request[o].turn
        BY <1>13 DEF Linked, Accounts!RotatedOnce
  <2>4. request[o].of # g
        BY <1>1, <1>6, <2>3
  <2>5. QED
        BY <1>4, <1>13, <2>1, <2>2, <2>4 DEF Accounts!Rotated, Accounts!At
<1>14. ASSUME NEW o \in Request, Accounts!Rotated(o)'
       PROVE  \/ Accounts!Rotated(o) /\ request'[o] = request[o]
              \/ o = r /\ q.of = g /\ q.turn = turn /\ turn = newest[g] + 1
  <2>1. CASE o = r
    <3>1. q.pc = "store" /\ q.turn # q.read.turn
          BY <1>4, <1>14, <2>1 DEF Accounts!Rotated, Accounts!At
    <3>2. QED
          BY <2>1, <3>1
  <2>2. CASE o # r
        BY <1>4, <1>14, <2>2 DEF Accounts!Rotated, Accounts!At
  <2>3. QED
        BY <2>1, <2>2
<1>15. Accounts!RotatedOnce'
  <2>1. ASSUME NEW o \in Request, request'[o].pc \in {"refresh", "store"}
        PROVE  /\ request'[o].read # Accounts!NoLink
               /\ request'[o].pc = "store" => request'[o].of = request'[o].read.of
    <3>1. CASE o = r
          BY <1>4, <1>6, <2>1, <3>1
    <3>2. CASE o # r
          BY <1>4, <2>1, <3>2, StoreFacts
    <3>3. QED
          BY <3>1, <3>2
  <2>2. ASSUME NEW o \in Request, o # r, Accounts!Rotated(o), request'[o] = request[o]
        PROVE  /\ request'[o].turn = newest'[request'[o].of]
               /\ \A l \in Accounts!Rows' : l.of = request'[o].of => l.turn < request'[o].turn
               /\ \A p \in Request \ {o} :
                     Accounts!Rotated(p)' => request'[p].of # request'[o].of
    <3>1. request[o].of \in Grant /\ request[o].of # g
          BY <1>13, <2>2
    <3>2. /\ request[o].turn = newest[request[o].of]
          /\ \A l \in Accounts!Rows : l.of = request[o].of => l.turn < request[o].turn
          /\ \A p \in Request \ {o} : Accounts!Rotated(p) => request[p].of # request[o].of
          BY <2>2 DEF Linked, Accounts!RotatedOnce
    <3>3. request[o].turn = newest'[request[o].of]
          BY <1>2, <3>1, <3>2
    <3>4. \A l \in Accounts!Rows' : l.of = request[o].of => l.turn < request[o].turn
          BY <1>7, <1>8, <3>1, <3>2
    <3>5. ASSUME NEW p \in Request, p # o, Accounts!Rotated(p)'
          PROVE  request'[p].of # request[o].of
          BY <1>4, <1>14, <3>1, <3>2, <3>5
    <3>6. QED
          BY <2>2, <3>3, <3>4, <3>5
  <2>3. ASSUME NEW o \in Request, o = r, Accounts!Rotated(o)'
        PROVE  /\ request'[o].turn = newest'[request'[o].of]
               /\ \A l \in Accounts!Rows' : l.of = request'[o].of => l.turn < request'[o].turn
               /\ \A p \in Request \ {o} :
                     Accounts!Rotated(p)' => request'[p].of # request'[o].of
    <3>1. request'[o] = q /\ q.of = g /\ q.turn = turn /\ turn = newest[g] + 1
          BY <1>4, <1>13, <1>14, <2>3
    <3>2. ASSUME NEW l \in Accounts!Rows', l.of = g
          PROVE  l.turn < turn
      <4>1. l \in Accounts!Rows /\ l # Accounts!NoLink
            BY <1>7, <1>8, <3>2
      <4>2. l.turn \in 1..newest[g]
            BY <1>9, <3>2, <4>1
      <4>3. QED
            BY <1>1, <3>1, <4>2
    <3>3. ASSUME NEW p \in Request, p # o, Accounts!Rotated(p)'
          PROVE  request'[p].of # g
          BY <1>13, <1>14, <2>3, <3>3
    <3>4. QED
          BY <1>1, <3>1, <3>2, <3>3
  <2>4. ASSUME NEW o \in Request, Accounts!Rotated(o)'
        PROVE  \/ o = r
               \/ Accounts!Rotated(o) /\ request'[o] = request[o]
        BY <1>14, <2>4
  <2>5. QED
        BY <2>1, <2>2, <2>3, <2>4 DEF Accounts!RotatedOnce, Accounts!At
<1>16. Accounts!TokenKept'
  <2>1. CASE link.of # g /\ link # Accounts!NoLink
    <3>1. newest'[link.of] = newest[link.of]
          BY <1>2, <2>1, RowsFacts DEF Linked
    <3>2. \/ link.turn = newest[link.of] \/ link.of \in lost
          \/ \E o \in Request : Accounts!Rotated(o) /\ request[o].of = link.of
          BY <2>1 DEF Linked, Accounts!TokenKept
    <3>3. QED
          BY <1>13, <3>1, <3>2 DEF Accounts!TokenKept
  <2>2. CASE link.of = g /\ turn = newest[g]
    <3>1. link # Accounts!NoLink
          BY <1>8, <2>2
    <3>2. ASSUME NEW o \in Request, Accounts!Rotated(o), request[o].of = link.of
          PROVE  FALSE
          BY <1>13, <2>2, <3>2
    <3>3. link.turn = newest[g] \/ g \in lost
          BY <2>2, <3>1, <3>2 DEF Linked, Accounts!TokenKept
    <3>4. QED
          BY <1>1, <2>2, <3>3 DEF Accounts!TokenKept
  <2>3. CASE link.of = g /\ turn = newest[g] + 1
    <3>1. CASE g \in lost'
          BY <2>3, <3>1 DEF Accounts!TokenKept
    <3>2. CASE /\ q.pc = "store" /\ q.read = request[r].read
               /\ q.of = g /\ q.turn = turn
      <4>1. Accounts!Rotated(r)' /\ request'[r].of = g
            BY <1>1, <1>4, <2>3, <3>2 DEF Accounts!Rotated, Accounts!At
      <4>2. QED
            BY <2>3, <4>1 DEF Accounts!TokenKept
    <3>3. QED
          BY <1>1, <2>3, <3>1, <3>2
  <2>4. QED
        BY <2>1, <2>2, <2>3 DEF Accounts!TokenKept
<1>17. Accounts!DeletionKnows'
       BY <1>11 DEF Linked, Accounts!DeletionKnows, Accounts!At
<1>18. Accounts!DeletedUnlinked'
       BY DEF Linked, Accounts!DeletedUnlinked
<1>19. QED
       BY <1>5, <1>10, <1>12, <1>15, <1>16, <1>17, <1>18 DEF Linked

LEMMA SpotifyRefreshes ==
    ASSUME Accounts!TypeOK, Linked, NEW r \in Request,
           Accounts!Refresh(r) \/ Accounts!RefreshFails(r)
    PROVE  Accounts!TypeOK' /\ Linked'
<1>1. /\ request[r].pc = "refresh" /\ request[r] \in Accounts!Work
      /\ UNCHANGED <<account, link, late>>
      BY SpotifyTypes DEF Accounts!Refresh, Accounts!RefreshFails, Accounts!At
<1>2. /\ Accounts!Idle \in Accounts!Work
      /\ Accounts!Idle.pc = "idle" /\ Accounts!Idle.read = Accounts!NoLink
      BY SpotifyConstants
<1>3. PICK g \in Grant : g = request[r].read.of
      BY <1>1, StoreFacts
<1>4. /\ request[r].read.turn \in 0..MaxTurn /\ MaxTurn \in Nat
      /\ newest[g] \in 0..MaxTurn
      BY SpotifyTypes
<1>5. CASE Accounts!Refresh(r)
  <2>1. PICK turn \in {request[r].read.turn, request[r].read.turn + 1} \cap 0..MaxTurn :
             /\ newest' = [newest EXCEPT ![g] = turn]
             /\ request' = [request EXCEPT ![r] =
                              [request[r] EXCEPT !.pc = "store", !.of = g, !.turn = turn]]
        BY <1>3, <1>5 DEF Accounts!Refresh, Accounts!Become
  <2>2. PICK q : q = [request[r] EXCEPT !.pc = "store", !.of = g, !.turn = turn]
        OBVIOUS
  <2>3. /\ q \in Accounts!Work /\ q.pc = "store" /\ q.read = request[r].read
        /\ q.of = g /\ q.turn = turn
        BY <1>1, <2>1, <2>2 DEF Accounts!Work, Accounts!Pc
  <2>4. request' = [request EXCEPT ![r] = q]
        BY <2>1, <2>2
  <2>5. newest[g] = request[r].read.turn /\ lost' = lost
        BY <1>3, <1>5 DEF Accounts!Refresh
  <2>6. turn \in 0..MaxTurn /\ turn \in {newest[g], newest[g] + 1}
        BY <2>1, <2>5
  <2>7. QED
        BY <1>1, <1>3, <2>1, <2>3, <2>4, <2>5, <2>6, SpotifyDrawn
<1>6. CASE Accounts!RefreshFails(r)
  <2>1. request' = [request EXCEPT ![r] = Accounts!Idle]
        BY <1>6 DEF Accounts!RefreshFails, Accounts!Become
  <2>2. CASE UNCHANGED <<newest, lost>>
    <3>1. ~Accounts!Rotated(r)
          BY <1>1 DEF Accounts!Rotated, Accounts!At
    <3>2. QED
          BY <1>1, <1>2, <2>1, <2>2, <3>1, SpotifyQuiet
  <2>3. CASE /\ newest[g] = request[r].read.turn
             /\ request[r].read.turn < MaxTurn
             /\ newest' = [newest EXCEPT ![g] = @ + 1]
             /\ lost' = lost \cup {g}
    <3>1. PICK turn \in 0..MaxTurn : turn = newest[g] + 1
          BY <1>4, <2>3
    <3>2. newest' = [newest EXCEPT ![g] = turn]
          BY <2>3, <3>1
    <3>3. QED
          BY <1>1, <1>2, <1>3, <2>1, <2>3, <3>1, <3>2, SpotifyDrawn
  <2>4. QED
        BY <1>3, <1>6, <2>2, <2>3 DEF Accounts!RefreshFails
<1>7. QED
      BY <1>5, <1>6

\* The commit of a refresh: the token it got goes into the row it read, or the
\* row is another one by now, of another grant.
LEMMA SpotifyStoreCommit ==
    ASSUME Accounts!TypeOK, Linked, NEW r \in Request, Accounts!StoreCommit(r),
           request[r].use \in {"list", "create"}
    PROVE  Accounts!TypeOK' /\ Linked'
<1>1. /\ request[r].pc = "store" /\ request[r] \in Accounts!Work
      /\ request[r].read \in Accounts!Rows /\ link \in Accounts!Rows
      /\ link \in Accounts!Link
      /\ UNCHANGED <<account, newest, lost, late>>
      BY SpotifyTypes, RowsFacts DEF Linked, Accounts!StoreCommit, Accounts!At
<1>2. /\ request[r].read # Accounts!NoLink
      /\ request[r].read.of \in Grant /\ request[r].read.id \in Grant
      /\ request[r].of = request[r].read.of
      BY <1>1, StoreFacts
<1>3. PICK g \in Grant : g = request[r].of
      BY <1>2
<1>4. CASE /\ link.id # request[r].read.id
           /\ UNCHANGED link
           /\ request' = [request EXCEPT ![r] = Accounts!Idle]
  <2>1. /\ Accounts!Idle \in Accounts!Work
        /\ Accounts!Idle.pc = "idle" /\ Accounts!Idle.read = Accounts!NoLink
        BY SpotifyConstants
  <2>2. link.of # request[r].of
        BY <1>1, <1>2, <1>4 DEF Linked, Accounts!RowsAgree
  <2>3. QED
        BY <1>1, <1>4, <2>1, <2>2, SpotifyQuiet
<1>5. CASE /\ link.id = request[r].read.id
           /\ link' = Accounts!Stored(request[r])
           /\ Accounts!Goto(r, request[r].use)
  <2>1. PICK q : q = [request[r] EXCEPT !.pc = request[r].use, !.tries = 0]
        OBVIOUS
  <2>2. /\ q \in Accounts!Work /\ q.pc \in {"list", "create"} /\ q.read = request[r].read
    <3>1. request[r].use \in Accounts!Pc /\ 0 \in 0..Attempts
          BY OutsideAssumption DEF Accounts!Pc
    <3>2. QED
          BY <1>1, <2>1, <3>1 DEF Accounts!Work
  <2>3. request' = [request EXCEPT ![r] = q]
        BY <1>5, <2>1 DEF Accounts!Goto, Accounts!Become
  <2>4. PICK w : w = IF request[r].read.write # Accounts!Writes(request[r].of)
                     THEN Accounts!Writes(request[r].of) ELSE link.write
        OBVIOUS
  <2>5. w \in BOOLEAN
        BY <1>1, <2>4 DEF Accounts!Link, Accounts!Writes
  <2>6. /\ request' \in [Request -> Accounts!Work]
        /\ request'[r] = q
        /\ \A o \in Request : o # r => request'[o] = request[o]
        BY <2>2, <2>3, WorkFacts
  <2>7. link # Accounts!NoLink
        BY <1>2, <1>5, SpotifyConstants, OutsideAssumption
  <2>8. CASE request[r].turn = request[r].read.turn
    <3>1. PICK l : l = [link EXCEPT !.fresh = TRUE, !.of = @, !.turn = @, !.write = w]
          OBVIOUS
    <3>2. link' = l
          BY <1>5, <2>4, <2>8, <3>1 DEF Accounts!Stored
    <3>3. l \in Accounts!Link /\ l.id = link.id /\ l.of = link.of /\ l.turn = link.turn
          BY <1>1, <2>5, <3>1 DEF Accounts!Link
    <3>4. l # Accounts!NoLink
          BY <1>2, <1>5, <3>3, SpotifyConstants, OutsideAssumption
    <3>5. ~Accounts!Rotated(r)
          BY <2>8 DEF Accounts!Rotated
    <3>6. ASSUME NEW o \in Request
          PROVE  \/ request'[o] = request[o]
                 \/ /\ request'[o].pc \notin {"link", "refresh", "store", "delete"}
                    /\ request'[o].read \in Accounts!Rows
                    /\ ~Accounts!Rotated(o)
          BY <1>1, <2>2, <2>6, <3>5
    <3>7. link' \in Accounts!Link /\ link' # Accounts!NoLink /\ link'.id = link.id
          BY <3>2, <3>3, <3>4
    <3>8. link'.of = link.of /\ link'.turn = link.turn
          BY <3>2, <3>3
    <3>9. QED
          BY <1>1, <2>6, <2>7, <3>6, <3>7, <3>8, SpotifyRowSame
  <2>9. CASE request[r].turn # request[r].read.turn
    <3>1. PICK l : l = [link EXCEPT !.fresh = TRUE, !.of = g, !.turn = request[r].turn,
                                    !.write = w]
          OBVIOUS
    <3>2. link' = l
          BY <1>3, <1>5, <2>4, <2>9, <3>1 DEF Accounts!Stored
    <3>3. request[r].turn \in 0..MaxTurn
          BY SpotifyTypes
    <3>4. l \in Accounts!Link /\ l.id = link.id /\ l.of = g /\ l.turn = request[r].turn
          BY <1>1, <2>5, <3>1, <3>3 DEF Accounts!Link
    <3>5. /\ Accounts!Rotated(r)
          /\ request[r].turn = newest[g]
          /\ \A o \in Request \ {r} : Accounts!Rotated(o) => request[o].of # g
          BY <1>1, <1>3, <2>9 DEF Linked, Accounts!RotatedOnce, Accounts!Rotated, Accounts!At
    <3>6. request[r].read.turn \in 1..newest[g] /\ newest[g] \in Nat
          BY <1>1, <1>2, <1>3, StoreFacts, SpotifyTypes
    <3>7. newest[g] >= 1
          BY <3>6
    <3>8. \A m \in Accounts!Rows : m.of = g => m.id = link'.id
          BY <1>1, <1>2, <1>3, <1>5, <3>2, <3>4 DEF Linked, Accounts!RowsAgree
    <3>9. \A o \in Request \ {r} : Accounts!At(o, "link") => request[o].of # g
          BY <1>1, <1>2, <1>3 DEF Linked, Accounts!GrantsAreNew
    <3>10. link' \in Accounts!Link /\ link'.of = g /\ link'.turn = newest[g] /\ link'.id = link.id
           BY <3>2, <3>4, <3>5
    <3>11. link'.id \in Grant /\ link' # Accounts!NoLink
           BY <1>2, <1>5, <3>10, SpotifyConstants, OutsideAssumption
    <3>12. q.pc \notin {"link", "refresh", "store", "delete"}
           BY <2>2
    <3>13. q.read \in Accounts!Rows \cup {Accounts!NoLink}
           BY <1>1, <2>2
    <3>14. QED
           BY <1>1, <2>2, <2>3, <2>7, <3>5, <3>7, <3>8, <3>9, <3>10, <3>11, <3>12, <3>13,
              SpotifyRowReplaced
  <2>10. QED
         BY <2>8, <2>9
<1>6. QED
      BY <1>4, <1>5 DEF Accounts!StoreCommit, Accounts!Become

\* The commit of a callback: a new row, or the row it read with a new grant, or
\* nothing.
LEMMA SpotifyLinkCommit ==
    ASSUME Accounts!TypeOK, Linked, NEW r \in Request, Accounts!LinkCommit(r)
    PROVE  Accounts!TypeOK' /\ Linked'
<1>1. /\ request[r].pc = "link" /\ request[r] \in Accounts!Work
      /\ request[r].read \in Accounts!Rows /\ link \in Accounts!Rows
      /\ link \in Accounts!Link
      /\ request' = [request EXCEPT ![r] = Accounts!Idle]
      /\ UNCHANGED <<account, newest, lost>>
      BY SpotifyTypes, RowsFacts DEF Linked, Accounts!LinkCommit, Accounts!At, Accounts!Become
<1>2. /\ Accounts!Idle \in Accounts!Work
      /\ Accounts!Idle.pc = "idle" /\ Accounts!Idle.read = Accounts!NoLink
      BY SpotifyConstants
<1>3. PICK g \in Grant : /\ g = request[r].of
                         /\ request[r].turn = 1 /\ newest[g] = 1
                         /\ \A l \in Accounts!Rows : l.of # g
                         /\ \A o \in Request \ {r} : Accounts!At(o, "link") => request[o].of # g
      BY <1>1 DEF Linked, Accounts!GrantsAreNew, Accounts!At
<1>4. 1 \in 0..MaxTurn
      BY OutsideAssumption
<1>5. ASSUME NEW o \in Request, Accounts!Rotated(o)
      PROVE  request[o].of # g
  <2>1. request[o].pc = "store" /\ request[o].read \in Accounts!Rows
        BY <1>5, RowsFacts DEF Linked, Accounts!Rotated, Accounts!At
  <2>2. QED
        BY <1>3, <2>1, StoreFacts
<1>6. ASSUME NEW id \in Grant, NEW l \in Accounts!Link, link' = l,
             l.id = id, l.of = g, l.turn = 1, late => late',
             ~late' => \/ link # Accounts!NoLink /\ id = link.id
                       \/ account # "deleted" /\ \A o \in Request : ~Accounts!At(o, "delete")
      PROVE  Accounts!TypeOK' /\ Linked'
  <2>1. link' \in Accounts!Link /\ link'.of = g /\ link'.turn = newest[g] /\ link'.id \in Grant
        BY <1>3, <1>6
  <2>2. link' # Accounts!NoLink
        BY <2>1, SpotifyConstants, OutsideAssumption
  <2>3. \A m \in Accounts!Rows : m.of = g => m.id = link'.id
        BY <1>3
  <2>4. newest[g] >= 1
        BY <1>3
  <2>5. \A o \in Request \ {r} : Accounts!Rotated(o) => request[o].of # g
        BY <1>5
  <2>6. ~late' => \/ link # Accounts!NoLink /\ link'.id = link.id
                  \/ account # "deleted" /\ \A o \in Request : ~Accounts!At(o, "delete")
        BY <1>6
  <2>7. /\ Accounts!Idle.pc \notin {"link", "refresh", "store", "delete"}
        /\ Accounts!Idle.read \in Accounts!Rows \cup {Accounts!NoLink}
        BY <1>2
  <2>8. QED
        BY <1>1, <1>2, <1>3, <1>6, <2>1, <2>2, <2>3, <2>4, <2>5, <2>6, <2>7, SpotifyRowReplaced
<1>7. CASE /\ link' = [id |-> request[r].of, of |-> request[r].of, turn |-> request[r].turn,
                       fresh |-> TRUE, write |-> Accounts!Writes(request[r].of)]
           /\ late' = (late \/ account = "deleted" \/ \E q \in Request : Accounts!At(q, "delete"))
  <2>1. PICK l : l = [id |-> g, of |-> g, turn |-> 1, fresh |-> TRUE,
                      write |-> Accounts!Writes(g)]
        OBVIOUS
  <2>2. l \in Accounts!Link /\ l.id = g /\ l.of = g /\ l.turn = 1
        BY <1>4, <2>1 DEF Accounts!Link, Accounts!Writes
  <2>3. link' = l
        BY <1>3, <1>7, <2>1
  <2>4. /\ late => late'
        /\ ~late' => account # "deleted" /\ \A o \in Request : ~Accounts!At(o, "delete")
        BY <1>7
  <2>5. QED
        BY <1>6, <2>2, <2>3, <2>4
<1>8. ASSUME NEW write, write = IF request[r].read.write = Accounts!Writes(request[r].of)
                                THEN link.write ELSE Accounts!Writes(request[r].of),
             request[r].read # Accounts!NoLink, link.id = request[r].read.id,
             link' = [link EXCEPT !.of = request[r].of, !.turn = request[r].turn,
                                  !.fresh = TRUE, !.write = write],
             late' = late
      PROVE  Accounts!TypeOK' /\ Linked'
  <2>1. PICK l : l = [link EXCEPT !.of = g, !.turn = 1, !.fresh = TRUE, !.write = write]
        OBVIOUS
  <2>2. write \in BOOLEAN
        BY <1>1, <1>8 DEF Accounts!Link, Accounts!Writes
  <2>3. l \in Accounts!Link /\ l.id = link.id /\ l.of = g /\ l.turn = 1
        BY <1>1, <1>4, <2>1, <2>2 DEF Accounts!Link
  <2>4. link' = l
        BY <1>3, <1>8, <2>1
  <2>5. link.id \in Grant /\ link # Accounts!NoLink
        BY <1>1, <1>8, RowsFacts, SpotifyConstants, OutsideAssumption DEF Linked
  <2>6. QED
        BY <1>6, <1>8, <2>3, <2>4, <2>5
<1>9. CASE UNCHANGED <<link, late>>
  <2>1. ~Accounts!Rotated(r)
        BY <1>1 DEF Accounts!Rotated, Accounts!At
  <2>2. QED
        BY <1>1, <1>2, <1>9, <2>1, SpotifyQuiet
<1>10. QED
       BY <1>7, <1>8, <1>9 DEF Accounts!LinkCommit

\* A callback starts: its grant is new to everybody.
LEMMA SpotifyCallback ==
    ASSUME Accounts!TypeOK, Linked, NEW r \in Request, NEW g \in Grant, Accounts!Callback(r, g)
    PROVE  Accounts!TypeOK' /\ Linked'
<1>1. /\ request[r].pc = "idle" /\ newest[g] = 0
      /\ newest' = [newest EXCEPT ![g] = 1]
      /\ UNCHANGED <<account, link, lost, late>>
      /\ link \in Accounts!Rows /\ link \in Accounts!Link
      /\ newest \in [Grant -> 0..MaxTurn] /\ 1 \in 0..MaxTurn
      BY SpotifyTypes, RowsFacts, OutsideAssumption
         DEF Linked, Accounts!Callback, Accounts!At, Accounts!TypeOK
<1>2. PICK q : q = [Accounts!Idle EXCEPT !.pc = "link", !.read = link, !.of = g, !.turn = 1]
      OBVIOUS
<1>3. Accounts!Idle \in Accounts!Work
      BY SpotifyConstants
<1>4. /\ q \in Accounts!Work /\ q.pc = "link" /\ q.read = link /\ q.of = g /\ q.turn = 1
      BY <1>1, <1>2, <1>3 DEF Accounts!Idle, Accounts!Work, Accounts!Pc
<1>5. request' = [request EXCEPT ![r] = q]
      BY <1>2 DEF Accounts!Callback, Accounts!Become
<1>6. /\ request' \in [Request -> Accounts!Work]
      /\ request'[r] = q
      /\ \A o \in Request : o # r => request'[o] = request[o]
      BY <1>4, <1>5, WorkFacts
<1>7. /\ newest' \in [Grant -> 0..MaxTurn] /\ newest'[g] = 1
      /\ \A h \in Grant : h # g => newest'[h] = newest[h]
      BY <1>1
<1>8. Accounts!TypeOK'
      BY <1>1, <1>6, <1>7 DEF Accounts!TypeOK
<1>9. /\ Accounts!NoLink.of = None /\ Accounts!NoLink.id = None /\ None \notin Grant
      BY SpotifyConstants, OutsideAssumption
<1>10. \A l \in Accounts!Rows' : l \in Accounts!Rows
       BY <1>1, <1>4, <1>6 DEF Accounts!Rows
<1>11. ASSUME NEW l \in Accounts!Rows
       PROVE  l.of # g
  <2>1. CASE l = Accounts!NoLink
        BY <1>9, <2>1
  <2>2. CASE l # Accounts!NoLink
    <3>1. l.turn \in 1..newest[l.of]
          BY <2>2 DEF Linked, Accounts!RowsAgree
    <3>2. QED
          BY <1>1, <3>1
  <2>3. QED
        BY <2>1, <2>2
<1>12. Accounts!RowsAgree'
  <2>1. ASSUME NEW l \in Accounts!Rows, l # Accounts!NoLink
        PROVE  l.id \in Grant /\ l.of \in Grant /\ l.turn \in 1..newest'[l.of]
        BY <1>7, <1>11, <2>1 DEF Linked, Accounts!RowsAgree
  <2>2. QED
        BY <1>10, <2>1 DEF Linked, Accounts!RowsAgree
<1>13. ASSUME NEW o \in Request, o # r, request'[o].pc = "link"
       PROVE  /\ request'[o] = request[o]
              /\ request[o].of \in Grant /\ request[o].of # g
              /\ request[o].turn = 1
              /\ newest[request[o].of] = 1
              /\ \A l \in Accounts!Rows : l.of # request[o].of
              /\ \A p \in Request \ {o} : request[p].pc = "link" => request[p].of # request[o].of
  <2>1. request'[o] = request[o]
        BY <1>6, <1>13
  <2>2. QED
        BY <1>1, <1>13, <2>1 DEF Linked, Accounts!GrantsAreNew, Accounts!At
<1>14. Accounts!GrantsAreNew'
  <2>1. ASSUME NEW o \in Request, o # r, request'[o].pc = "link"
        PROVE  /\ request'[o].of \in Grant
               /\ request'[o].turn = 1
               /\ newest'[request'[o].of] = 1
               /\ \A l \in Accounts!Rows' : l.of # request'[o].of
               /\ \A p \in Request \ {o} : request'[p].pc = "link" => request'[p].of # request'[o].of
    <3>1. newest'[request[o].of] = 1
          BY <1>7, <1>13, <2>1
    <3>2. ASSUME NEW p \in Request \ {o}, request'[p].pc = "link"
          PROVE  request'[p].of # request[o].of
      <4>1. CASE p = r
            BY <1>4, <1>6, <1>13, <2>1, <4>1
      <4>2. CASE p # r
            BY <1>6, <1>13, <2>1, <3>2, <4>2
      <4>3. QED
            BY <4>1, <4>2
    <3>3. QED
          BY <1>10, <1>13, <2>1, <3>1, <3>2
  <2>2. /\ request'[r].of \in Grant
        /\ request'[r].turn = 1
        /\ newest'[request'[r].of] = 1
        /\ \A l \in Accounts!Rows' : l.of # request'[r].of
        /\ \A p \in Request \ {r} : request'[p].pc = "link" => request'[p].of # request'[r].of
        BY <1>4, <1>6, <1>7, <1>10, <1>11, <1>13
  <2>3. QED
        BY <2>1, <2>2 DEF Accounts!GrantsAreNew, Accounts!At
<1>15. ASSUME NEW o \in Request, request'[o].pc \in {"refresh", "store", "delete"}
       PROVE  o # r /\ request'[o] = request[o]
       BY <1>4, <1>6, <1>15
<1>16. ASSUME NEW o \in Request, Accounts!Rotated(o)
       PROVE  request[o].of \in Grant /\ request[o].of # g
  <2>1. request[o].pc = "store" /\ request[o].read \in Accounts!Rows
        BY <1>16, RowsFacts DEF Linked, Accounts!Rotated, Accounts!At
  <2>2. QED
        BY <1>11, <2>1, StoreFacts
<1>17. \A o \in Request : Accounts!Rotated(o)' => Accounts!Rotated(o) /\ request'[o] = request[o]
       BY <1>15 DEF Accounts!Rotated, Accounts!At
<1>18. \A o \in Request : Accounts!Rotated(o) => Accounts!Rotated(o)' /\ request'[o] = request[o]
       BY <1>1, <1>6 DEF Accounts!Rotated, Accounts!At
<1>19. Accounts!RotatedOnce'
  <2>1. ASSUME NEW o \in Request, request'[o].pc \in {"refresh", "store"}
        PROVE  /\ request'[o].read # Accounts!NoLink
               /\ request'[o].pc = "store" => request'[o].of = request'[o].read.of
        BY <1>15, <2>1, StoreFacts
  <2>2. ASSUME NEW o \in Request, Accounts!Rotated(o)'
        PROVE  /\ request'[o].turn = newest'[request'[o].of]
               /\ \A l \in Accounts!Rows' : l.of = request'[o].of => l.turn < request'[o].turn
               /\ \A p \in Request \ {o} :
                     Accounts!Rotated(p)' => request'[p].of # request'[o].of
    <3>1. /\ Accounts!Rotated(o) /\ request'[o] = request[o]
          /\ request[o].of \in Grant /\ request[o].of # g
          BY <1>16, <1>17, <2>2
    <3>2. /\ request[o].turn = newest[request[o].of]
          /\ \A l \in Accounts!Rows : l.of = request[o].of => l.turn < request[o].turn
          /\ \A p \in Request \ {o} : Accounts!Rotated(p) => request[p].of # request[o].of
          BY <3>1 DEF Linked, Accounts!RotatedOnce
    <3>3. request[o].turn = newest'[request[o].of]
          BY <1>7, <3>1, <3>2
    <3>4. \A p \in Request \ {o} : Accounts!Rotated(p)' => request'[p].of # request[o].of
          BY <1>17, <3>2
    <3>5. QED
          BY <1>10, <3>1, <3>2, <3>3, <3>4
  <2>3. QED
        BY <2>1, <2>2 DEF Accounts!RotatedOnce, Accounts!At
<1>20. Accounts!TokenKept'
  <2>1. SUFFICES ASSUME link # Accounts!NoLink
                 PROVE  \/ link.turn = newest'[link.of]
                        \/ link.of \in lost
                        \/ \E o \in Request : Accounts!Rotated(o)' /\ request'[o].of = link.of
        BY <1>1 DEF Accounts!TokenKept
  <2>2. newest'[link.of] = newest[link.of]
        BY <1>1, <1>7, <1>11, <2>1, RowsFacts DEF Linked
  <2>3. \/ link.turn = newest[link.of] \/ link.of \in lost
        \/ \E o \in Request : Accounts!Rotated(o) /\ request[o].of = link.of
        BY <2>1 DEF Linked, Accounts!TokenKept
  <2>4. QED
        BY <1>18, <2>2, <2>3
<1>21. Accounts!DeletionKnows'
       BY <1>1, <1>15 DEF Linked, Accounts!DeletionKnows, Accounts!At
<1>22. Accounts!DeletedUnlinked'
       BY <1>1 DEF Linked, Accounts!DeletedUnlinked
<1>23. QED
       BY <1>8, <1>12, <1>14, <1>19, <1>20, <1>21, <1>22 DEF Linked

\* The deletion commits: the row it read is gone, and there was no other.
LEMMA SpotifyDeleteCommit ==
    ASSUME Accounts!TypeOK, Linked, NEW r \in Request, Accounts!DeleteCommit(r)
    PROVE  Accounts!TypeOK' /\ Linked'
<1>1. /\ request[r].pc = "delete"
      /\ account' = "deleted" /\ UNCHANGED <<newest, lost, late>>
      /\ link' = IF link.id = request[r].read.id THEN Accounts!NoLink ELSE link
      /\ request' = [request EXCEPT ![r] = Accounts!Idle]
      BY DEF Accounts!DeleteCommit, Accounts!At, Accounts!Become
<1>2. /\ Accounts!Idle \in Accounts!Work
      /\ Accounts!Idle.pc = "idle" /\ Accounts!Idle.read = Accounts!NoLink
      /\ Accounts!NoLink \in Accounts!Link
      /\ Accounts!NoLink.of = None /\ Accounts!NoLink.id = None /\ None \notin Grant
      BY SpotifyConstants, OutsideAssumption
<1>3. /\ request' \in [Request -> Accounts!Work]
      /\ request'[r] = Accounts!Idle
      /\ \A o \in Request : o # r => request'[o] = request[o]
      BY <1>1, <1>2, WorkFacts
<1>4. Accounts!TypeOK'
      BY <1>1, <1>2, <1>3 DEF Accounts!TypeOK
<1>5. \A l \in Accounts!Rows' : l \in Accounts!Rows \/ l = Accounts!NoLink
      BY <1>1, <1>2, <1>3 DEF Accounts!Rows
<1>6. \A l \in Accounts!Rows : l # Accounts!NoLink => l.of \in Grant /\ l.id \in Grant
      BY RowsFacts DEF Linked
<1>7. Accounts!RowsAgree'
      BY <1>1, <1>2, <1>5, <1>6 DEF Linked, Accounts!RowsAgree
<1>8. ASSUME NEW o \in Request, request'[o].pc # "idle"
      PROVE  o # r /\ request'[o] = request[o]
      BY <1>2, <1>3, <1>8
<1>9. Accounts!GrantsAreNew'
  <2>1. ASSUME NEW o \in Request, request'[o].pc = "link"
        PROVE  /\ request'[o].of \in Grant
               /\ request'[o].turn = 1
               /\ newest'[request'[o].of] = 1
               /\ \A l \in Accounts!Rows' : l.of # request'[o].of
               /\ \A p \in Request \ {o} : request'[p].pc = "link" => request'[p].of # request'[o].of
    <3>1. request'[o] = request[o]
          BY <1>8, <2>1
    <3>2. /\ request[o].of \in Grant
          /\ request[o].turn = 1
          /\ newest[request[o].of] = 1
          /\ \A l \in Accounts!Rows : l.of # request[o].of
          /\ \A p \in Request \ {o} : request[p].pc = "link" => request[p].of # request[o].of
          BY <2>1, <3>1 DEF Linked, Accounts!GrantsAreNew, Accounts!At
    <3>3. \A l \in Accounts!Rows' : l.of # request[o].of
          BY <1>2, <1>5, <3>2
    <3>4. \A p \in Request \ {o} : request'[p].pc = "link" => request'[p].of # request[o].of
          BY <1>8, <3>2
    <3>5. QED
          BY <1>1, <3>1, <3>2, <3>3, <3>4
  <2>2. QED
        BY <2>1 DEF Accounts!GrantsAreNew, Accounts!At
<1>10. \A o \in Request : Accounts!Rotated(o)' => Accounts!Rotated(o) /\ request'[o] = request[o]
       BY <1>8 DEF Accounts!Rotated, Accounts!At
<1>11. \A o \in Request : Accounts!Rotated(o) => Accounts!Rotated(o)' /\ request'[o] = request[o]
       BY <1>1, <1>3 DEF Accounts!Rotated, Accounts!At
<1>12. Accounts!RotatedOnce'
  <2>1. ASSUME NEW o \in Request, request'[o].pc \in {"refresh", "store"}
        PROVE  /\ request'[o].read # Accounts!NoLink
               /\ request'[o].pc = "store" => request'[o].of = request'[o].read.of
        BY <1>8, <2>1, StoreFacts
  <2>2. ASSUME NEW o \in Request, Accounts!Rotated(o)'
        PROVE  /\ request'[o].turn = newest'[request'[o].of]
               /\ \A l \in Accounts!Rows' : l.of = request'[o].of => l.turn < request'[o].turn
               /\ \A p \in Request \ {o} :
                     Accounts!Rotated(p)' => request'[p].of # request'[o].of
    <3>1. /\ Accounts!Rotated(o) /\ request'[o] = request[o] /\ request[o].pc = "store"
          BY <1>10, <2>2 DEF Accounts!Rotated, Accounts!At
    <3>2. /\ request[o].turn = newest[request[o].of]
          /\ \A l \in Accounts!Rows : l.of = request[o].of => l.turn < request[o].turn
          /\ \A p \in Request \ {o} : Accounts!Rotated(p) => request[p].of # request[o].of
          BY <3>1 DEF Linked, Accounts!RotatedOnce
    <3>3. request[o].of \in Grant
          BY <3>1, StoreFacts
    <3>4. \A l \in Accounts!Rows' : l.of = request[o].of => l.turn < request[o].turn
          BY <1>2, <1>5, <3>2, <3>3
    <3>5. \A p \in Request \ {o} : Accounts!Rotated(p)' => request'[p].of # request[o].of
          BY <1>10, <3>2
    <3>6. QED
          BY <1>1, <3>1, <3>2, <3>4, <3>5
  <2>3. QED
        BY <2>1, <2>2 DEF Accounts!RotatedOnce, Accounts!At
<1>13. link' = Accounts!NoLink \/ link' = link
       BY <1>1
<1>14. Accounts!TokenKept'
       BY <1>1, <1>11, <1>13 DEF Linked, Accounts!TokenKept
<1>15. Accounts!DeletionKnows'
       BY <1>1, <1>8, <1>13 DEF Linked, Accounts!DeletionKnows, Accounts!At
<1>16. Accounts!DeletedUnlinked'
       BY <1>1 DEF Linked, Accounts!DeletionKnows, Accounts!DeletedUnlinked, Accounts!At
<1>17. QED
       BY <1>4, <1>7, <1>9, <1>12, <1>14, <1>15, <1>16 DEF Linked

-----------------------------------------------------------------------------
(* Spotify: the playlists.                                                 *)

Counts == [asked : Nat, ok : Nat, full : Nat, empty : Nat, again : Nat]

\* A request counts once among those that have a playlist to make, to fill, or to
\* be told of.
Making(w)  == IF w.pc \in {"refresh", "store", "create"} /\ w.use = "create" THEN 1 ELSE 0
Filling(w) == IF w.pc = "add" /\ ~w.filled THEN 1 ELSE 0
Telling(w) == IF w.pc = "add" /\ w.filled THEN 1 ELSE 0

LEMMA CardinalityHere == \A S : Accounts!Cardinality(S) = Cardinality(S)
BY DEF Accounts!Cardinality, Cardinality

\* The number of members of a set of requests of which only r may come or go.
LEMMA OneCounted ==
    ASSUME NEW r \in Request, NEW S \in SUBSET Request, NEW T \in SUBSET Request,
           \A o \in Request : o # r => (o \in S <=> o \in T)
    PROVE  /\ Cardinality(S) \in Nat /\ Cardinality(T) \in Nat
           /\ Cardinality(T) + (IF r \in S THEN 1 ELSE 0)
              = Cardinality(S) + (IF r \in T THEN 1 ELSE 0)
<1>1. IsFiniteSet(S) /\ IsFiniteSet(T)
      BY OutsideAssumption, FS_Subset
<1>2. S \ {r} = T \ {r}
      OBVIOUS
<1>3. Cardinality(S) \in Nat /\ Cardinality(T) \in Nat
      BY <1>1, FS_CardinalityType
<1>4. /\ Cardinality(S \ {r}) = IF r \in S THEN Cardinality(S) - 1 ELSE Cardinality(S)
      /\ Cardinality(T \ {r}) = IF r \in T THEN Cardinality(T) - 1 ELSE Cardinality(T)
      BY <1>1, FS_RemoveElement
<1>5. QED
      BY <1>2, <1>3, <1>4

\* A request that counts is one of those counted.
LEMMA SpotifyAmong ==
    ASSUME NEW r \in Request
    PROVE  /\ Accounts!Cardinality(Accounts!ToMake) >= Making(request[r])
           /\ Accounts!Cardinality(Accounts!ToFill) >= Filling(request[r])
           /\ Accounts!Cardinality(Accounts!Filled) >= Telling(request[r])
<1>1. ASSUME NEW S \in SUBSET Request
      PROVE  Accounts!Cardinality(S) >= IF r \in S THEN 1 ELSE 0
  <2>1. PICK T : T = S \ {r}
        OBVIOUS
  <2>2. /\ T \in SUBSET Request /\ r \notin T
        /\ \A o \in Request : o # r => (o \in S <=> o \in T)
        BY <2>1
  <2>3. /\ Cardinality(S) \in Nat /\ Cardinality(T) \in Nat
        /\ Cardinality(T) + (IF r \in S THEN 1 ELSE 0)
           = Cardinality(S) + (IF r \in T THEN 1 ELSE 0)
        BY <2>2, OneCounted
  <2>4. Accounts!Cardinality(S) = Cardinality(S)
        BY CardinalityHere
  <2>5. QED
        BY <2>2, <2>3, <2>4
<1>2. Accounts!Cardinality(Accounts!ToMake) >= Making(request[r])
      BY <1>1 DEF Accounts!ToMake, Making
<1>3. Accounts!Cardinality(Accounts!ToFill) >= Filling(request[r])
      BY <1>1 DEF Accounts!ToFill, Filling, Accounts!At
<1>4. Accounts!Cardinality(Accounts!Filled) >= Telling(request[r])
      BY <1>1 DEF Accounts!Filled, Telling, Accounts!At
<1>5. QED
      BY <1>2, <1>3, <1>4

\* The requests to make, to fill and to be told of, as sets and as numbers.
LEMMA SpotifySets ==
    ASSUME Accounts!TypeOK, NEW r \in Request, NEW q \in Accounts!Work,
           request' = [request EXCEPT ![r] = q]
    PROVE  /\ Accounts!Cardinality(Accounts!ToMake) \in Nat
           /\ Accounts!Cardinality(Accounts!ToMake)' \in Nat
           /\ Accounts!Cardinality(Accounts!ToMake)' + Making(request[r])
              = Accounts!Cardinality(Accounts!ToMake) + Making(q)
           /\ Accounts!Cardinality(Accounts!ToFill) \in Nat
           /\ Accounts!Cardinality(Accounts!ToFill)' \in Nat
           /\ Accounts!Cardinality(Accounts!ToFill)' + Filling(request[r])
              = Accounts!Cardinality(Accounts!ToFill) + Filling(q)
           /\ Accounts!Cardinality(Accounts!Filled) \in Nat
           /\ Accounts!Cardinality(Accounts!Filled)' \in Nat
           /\ Accounts!Cardinality(Accounts!Filled)' + Telling(request[r])
              = Accounts!Cardinality(Accounts!Filled) + Telling(q)
<1>1. /\ request' \in [Request -> Accounts!Work]
      /\ request'[r] = q
      /\ \A o \in Request : o # r => request'[o] = request[o]
      BY WorkFacts
<1>2. /\ Accounts!Cardinality(Accounts!ToMake) \in Nat
      /\ Accounts!Cardinality(Accounts!ToMake)' \in Nat
      /\ Accounts!Cardinality(Accounts!ToMake)' + Making(request[r])
         = Accounts!Cardinality(Accounts!ToMake) + Making(q)
  <2>1. PICK S, T : S = Accounts!ToMake /\ T = Accounts!ToMake'
        OBVIOUS
  <2>2. /\ S \in SUBSET Request /\ T \in SUBSET Request
        /\ \A o \in Request : /\ o \in S <=> Making(request[o]) = 1
                              /\ o \in T <=> Making(request'[o]) = 1
        BY <2>1 DEF Accounts!ToMake, Making
  <2>3. \A o \in Request : o # r => (o \in S <=> o \in T)
        BY <1>1, <2>2
  <2>4. /\ Making(request[r]) = IF r \in S THEN 1 ELSE 0
        /\ Making(q) = IF r \in T THEN 1 ELSE 0
        BY <1>1, <2>2 DEF Making
  <2>5. /\ Cardinality(S) \in Nat /\ Cardinality(T) \in Nat
        /\ Cardinality(T) + (IF r \in S THEN 1 ELSE 0)
           = Cardinality(S) + (IF r \in T THEN 1 ELSE 0)
        BY <2>2, <2>3, OneCounted
  <2>6. /\ Accounts!Cardinality(Accounts!ToMake) = Cardinality(S)
        /\ Accounts!Cardinality(Accounts!ToMake)' = Cardinality(T)
    <3>1. Accounts!Cardinality(Accounts!ToMake)' = Accounts!Cardinality(T)
          BY <2>1
    <3>2. QED
          BY <2>1, <3>1, CardinalityHere
  <2>7. QED
        BY <2>4, <2>5, <2>6
<1>3. /\ Accounts!Cardinality(Accounts!ToFill) \in Nat
      /\ Accounts!Cardinality(Accounts!ToFill)' \in Nat
      /\ Accounts!Cardinality(Accounts!ToFill)' + Filling(request[r])
         = Accounts!Cardinality(Accounts!ToFill) + Filling(q)
  <2>1. PICK S, T : S = Accounts!ToFill /\ T = Accounts!ToFill'
        OBVIOUS
  <2>2. /\ S \in SUBSET Request /\ T \in SUBSET Request
        /\ \A o \in Request : /\ o \in S <=> Filling(request[o]) = 1
                              /\ o \in T <=> Filling(request'[o]) = 1
        BY <2>1 DEF Accounts!ToFill, Filling, Accounts!At
  <2>3. \A o \in Request : o # r => (o \in S <=> o \in T)
        BY <1>1, <2>2
  <2>4. /\ Filling(request[r]) = IF r \in S THEN 1 ELSE 0
        /\ Filling(q) = IF r \in T THEN 1 ELSE 0
        BY <1>1, <2>2 DEF Filling
  <2>5. /\ Cardinality(S) \in Nat /\ Cardinality(T) \in Nat
        /\ Cardinality(T) + (IF r \in S THEN 1 ELSE 0)
           = Cardinality(S) + (IF r \in T THEN 1 ELSE 0)
        BY <2>2, <2>3, OneCounted
  <2>6. /\ Accounts!Cardinality(Accounts!ToFill) = Cardinality(S)
        /\ Accounts!Cardinality(Accounts!ToFill)' = Cardinality(T)
    <3>1. Accounts!Cardinality(Accounts!ToFill)' = Accounts!Cardinality(T)
          BY <2>1
    <3>2. QED
          BY <2>1, <3>1, CardinalityHere
  <2>7. QED
        BY <2>4, <2>5, <2>6
<1>4. /\ Accounts!Cardinality(Accounts!Filled) \in Nat
      /\ Accounts!Cardinality(Accounts!Filled)' \in Nat
      /\ Accounts!Cardinality(Accounts!Filled)' + Telling(request[r])
         = Accounts!Cardinality(Accounts!Filled) + Telling(q)
  <2>1. PICK S, T : S = Accounts!Filled /\ T = Accounts!Filled'
        OBVIOUS
  <2>2. /\ S \in SUBSET Request /\ T \in SUBSET Request
        /\ \A o \in Request : /\ o \in S <=> Telling(request[o]) = 1
                              /\ o \in T <=> Telling(request'[o]) = 1
        BY <2>1 DEF Accounts!Filled, Telling, Accounts!At
  <2>3. \A o \in Request : o # r => (o \in S <=> o \in T)
        BY <1>1, <2>2
  <2>4. /\ Telling(request[r]) = IF r \in S THEN 1 ELSE 0
        /\ Telling(q) = IF r \in T THEN 1 ELSE 0
        BY <1>1, <2>2 DEF Telling
  <2>5. /\ Cardinality(S) \in Nat /\ Cardinality(T) \in Nat
        /\ Cardinality(T) + (IF r \in S THEN 1 ELSE 0)
           = Cardinality(S) + (IF r \in T THEN 1 ELSE 0)
        BY <2>2, <2>3, OneCounted
  <2>6. /\ Accounts!Cardinality(Accounts!Filled) = Cardinality(S)
        /\ Accounts!Cardinality(Accounts!Filled)' = Cardinality(T)
    <3>1. Accounts!Cardinality(Accounts!Filled)' = Accounts!Cardinality(T)
          BY <2>1
    <3>2. QED
          BY <2>1, <3>1, CardinalityHere
  <2>7. QED
        BY <2>4, <2>5, <2>6
<1>5. QED
      BY <1>2, <1>3, <1>4

\* What an honest account of the playlists owes to the requests under way.
Paid(p, make, fill, tell) ==
    /\ p.full + p.empty + make <= p.asked + p.again
    /\ p.full + make + fill <= p.asked
    /\ p.ok + tell <= p.full
    /\ fill <= p.empty

\* A request steps, and what it has still to make and to fill is paid for.
LEMMA SpotifyPaid ==
    ASSUME Accounts!TypeOK, Accounts!Counted, NEW r \in Request, NEW q \in Accounts!Work,
           request' = [request EXCEPT ![r] = q],
           q.pc \in {"refresh", "store"} => q.use \in {"list", "create"},
           q.pc = "create" => q.use = "create",
           q.filled => q.pc = "add",
           NEW p \in Counts, playlists' = p,
           \A make, fill, tell \in Nat :
              Paid(playlists, make + Making(request[r]), fill + Filling(request[r]),
                              tell + Telling(request[r]))
              => Paid(p, make + Making(q), fill + Filling(q), tell + Telling(q))
    PROVE  Accounts!Counted'
<1>1. /\ request' \in [Request -> Accounts!Work]
      /\ request'[r] = q
      /\ \A o \in Request : o # r => request'[o] = request[o]
      BY WorkFacts
<1>2. /\ Making(request[r]) \in {0, 1} /\ Making(q) \in {0, 1}
      /\ Filling(request[r]) \in {0, 1} /\ Filling(q) \in {0, 1}
      /\ Telling(request[r]) \in {0, 1} /\ Telling(q) \in {0, 1}
      BY DEF Making, Filling, Telling
<1>3. /\ Accounts!Cardinality(Accounts!ToMake) >= Making(request[r])
      /\ Accounts!Cardinality(Accounts!ToFill) >= Filling(request[r])
      /\ Accounts!Cardinality(Accounts!Filled) >= Telling(request[r])
      BY SpotifyAmong
<1>4. PICK m, n, f, g, t, u :
           /\ m = Accounts!Cardinality(Accounts!ToMake) /\ n = Accounts!Cardinality(Accounts!ToMake)'
           /\ f = Accounts!Cardinality(Accounts!ToFill) /\ g = Accounts!Cardinality(Accounts!ToFill)'
           /\ t = Accounts!Cardinality(Accounts!Filled) /\ u = Accounts!Cardinality(Accounts!Filled)'
      OBVIOUS
<1>5. PICK make \in Nat, fill \in Nat, tell \in Nat :
           /\ m = make + Making(request[r]) /\ n = make + Making(q)
           /\ f = fill + Filling(request[r]) /\ g = fill + Filling(q)
           /\ t = tell + Telling(request[r]) /\ u = tell + Telling(q)
  <2>1. /\ m \in Nat /\ n \in Nat /\ m >= Making(request[r])
        /\ n + Making(request[r]) = m + Making(q)
        BY <1>3, <1>4, SpotifySets
  <2>2. /\ f \in Nat /\ g \in Nat /\ f >= Filling(request[r])
        /\ g + Filling(request[r]) = f + Filling(q)
        BY <1>3, <1>4, SpotifySets
  <2>3. /\ t \in Nat /\ u \in Nat /\ t >= Telling(request[r])
        /\ u + Telling(request[r]) = t + Telling(q)
        BY <1>3, <1>4, SpotifySets
  <2>4. PICK make, fill, tell :
             /\ make = m - Making(request[r]) /\ fill = f - Filling(request[r])
             /\ tell = t - Telling(request[r])
        OBVIOUS
  <2>5. make \in Nat /\ m = make + Making(request[r]) /\ n = make + Making(q)
        BY <1>2, <2>1, <2>4
  <2>6. fill \in Nat /\ f = fill + Filling(request[r]) /\ g = fill + Filling(q)
        BY <1>2, <2>2, <2>4
  <2>7. tell \in Nat /\ t = tell + Telling(request[r]) /\ u = tell + Telling(q)
        BY <1>2, <2>3, <2>4
  <2>8. QED
        BY <2>5, <2>6, <2>7
<1>6. Paid(playlists, make + Making(request[r]), fill + Filling(request[r]),
                      tell + Telling(request[r]))
      BY <1>4, <1>5 DEF Paid, Accounts!Counted
<1>7. Paid(p, make + Making(q), fill + Filling(q), tell + Telling(q))
      BY <1>6
<1>8. ASSUME NEW o \in Request
      PROVE  /\ request'[o].pc \in {"refresh", "store"} => request'[o].use \in {"list", "create"}
             /\ request'[o].pc = "create" => request'[o].use = "create"
             /\ request'[o].filled => request'[o].pc = "add"
  <2>1. CASE o = r
        BY <1>1, <2>1
  <2>2. CASE o # r
        BY <1>1, <2>2 DEF Accounts!Counted, Accounts!At
  <2>3. QED
        BY <2>1, <2>2
<1>9. QED
      BY <1>4, <1>5, <1>7, <1>8 DEF Paid, Counts, Accounts!Counted, Accounts!At

LEMMA SpotifyCountedInit == Accounts!Init => Accounts!Counted
<1>1. SUFFICES ASSUME Accounts!Init PROVE Accounts!Counted
      OBVIOUS
<1>2. \A o \in Request : request[o].pc = "idle" /\ ~request[o].filled
      BY <1>1, SpotifyConstants DEF Accounts!Init, Accounts!Idle
<1>3. Accounts!ToMake = {} /\ Accounts!ToFill = {} /\ Accounts!Filled = {}
      BY <1>2 DEF Accounts!ToMake, Accounts!ToFill, Accounts!Filled, Accounts!At
<1>4. Accounts!Cardinality({}) = 0
      BY CardinalityHere, FS_EmptySet
<1>5. playlists = [asked |-> 0, ok |-> 0, full |-> 0, empty |-> 0, again |-> 0]
      BY <1>1 DEF Accounts!Init
<1>6. /\ playlists \in Counts
      /\ playlists.ok = 0 /\ playlists.full = 0 /\ playlists.empty = 0
      /\ playlists.asked = 0 /\ playlists.again = 0
      BY <1>5 DEF Counts
<1>7. Paid(playlists, 0, 0, 0)
      BY <1>6 DEF Paid
<1>8. QED
      BY <1>2, <1>3, <1>4, <1>6, <1>7 DEF Paid, Counts, Accounts!Counted, Accounts!At

LEMMA SpotifyCountedStill ==
    ASSUME Accounts!Counted, UNCHANGED <<request, playlists>>
    PROVE  Accounts!Counted'
BY DEF Accounts!Counted, Accounts!ToMake, Accounts!ToFill, Accounts!Filled, Accounts!At

\* What a thread may become while the playlists stay as they are: it gives up,
\* or goes on with as much to make and to fill.
LEMMA SpotifyCountedSame ==
    ASSUME Accounts!TypeOK, Accounts!Counted, NEW r \in Request, NEW q \in Accounts!Work,
           request' = [request EXCEPT ![r] = q], playlists' = playlists,
           q.pc \in {"refresh", "store"} => q.use \in {"list", "create"},
           q.pc = "create" => q.use = "create",
           q.filled => q.pc = "add",
           Making(q) = 0 \/ Making(q) = Making(request[r]),
           Filling(q) = 0 \/ Filling(q) = Filling(request[r]),
           Telling(q) = 0 \/ Telling(q) = Telling(request[r])
    PROVE  Accounts!Counted'
<1>1. playlists \in Counts
      BY DEF Accounts!Counted, Counts
<1>2. /\ Making(q) \in {0, 1} /\ Making(request[r]) \in {0, 1}
      /\ Filling(q) \in {0, 1} /\ Filling(request[r]) \in {0, 1}
      /\ Telling(q) \in {0, 1} /\ Telling(request[r]) \in {0, 1}
      BY DEF Making, Filling, Telling
<1>3. ASSUME NEW make \in Nat, NEW fill \in Nat, NEW tell \in Nat,
             Paid(playlists, make + Making(request[r]), fill + Filling(request[r]),
                             tell + Telling(request[r]))
      PROVE  Paid(playlists, make + Making(q), fill + Filling(q), tell + Telling(q))
  <2>1. /\ make + Making(q) <= make + Making(request[r])
        /\ fill + Filling(q) <= fill + Filling(request[r])
        /\ tell + Telling(q) <= tell + Telling(request[r])
        BY <1>2
  <2>2. QED
        BY <1>1, <1>2, <1>3, <2>1 DEF Paid, Counts
<1>4. QED
      BY <1>1, <1>3, SpotifyPaid

LEMMA SpotifyCountedSteps ==
    ASSUME Accounts!TypeOK, Accounts!Counted, NEW r \in Request,
           \/ Accounts!Connect(r) \/ Accounts!LinkCommit(r) \/ Accounts!Refresh(r)
           \/ Accounts!RefreshFails(r) \/ Accounts!StoreCommit(r)
           \/ Accounts!ListPlaylists(r) \/ Accounts!DeleteRead(r)
           \/ Accounts!DeleteCommit(r) \/ Accounts!Abort(r)
           \/ \E g \in Grant : Accounts!Callback(r, g)
    PROVE  Accounts!Counted'
<1>1. /\ request[r] \in Accounts!Work /\ link \in Accounts!Link
      /\ Accounts!Idle \in Accounts!Work /\ Accounts!Idle.pc = "idle"
      /\ ~Accounts!Idle.filled /\ (request[r].filled => request[r].pc = "add")
      /\ 0 \in 0..Attempts /\ 1 \in 0..MaxTurn
      BY SpotifyTypes, SpotifyConstants, OutsideAssumption DEF Accounts!Counted, Accounts!At
<1>2. playlists' = playlists
      BY DEF Accounts!Connect, Accounts!LinkCommit, Accounts!Refresh, Accounts!RefreshFails,
             Accounts!StoreCommit, Accounts!ListPlaylists, Accounts!DeleteRead,
             Accounts!DeleteCommit, Accounts!Abort, Accounts!Callback
<1>3. ASSUME NEW q \in Accounts!Work, request' = [request EXCEPT ![r] = q],
             q.pc \in {"idle", "link", "delete", "list"}, ~q.filled
      PROVE  Accounts!Counted'
  <2>1. Making(q) = 0 /\ Filling(q) = 0 /\ Telling(q) = 0
        BY <1>3 DEF Making, Filling, Telling
  <2>2. /\ q.pc \notin {"refresh", "store"} /\ q.pc # "create"
        BY <1>3
  <2>3. QED
        BY <1>2, <1>3, <2>1, <2>2, SpotifyCountedSame
<1>4. CASE request' = [request EXCEPT ![r] = Accounts!Idle]
      BY <1>1, <1>3, <1>4
<1>5. CASE Accounts!DeleteRead(r)
  <2>1. PICK q : q = [Accounts!Idle EXCEPT !.pc = "delete", !.read = link]
        OBVIOUS
  <2>2. q \in Accounts!Work /\ q.pc = "delete" /\ ~q.filled
        BY <1>1, <2>1 DEF Accounts!Idle, Accounts!Work, Accounts!Pc
  <2>3. request' = [request EXCEPT ![r] = q]
        BY <1>5, <2>1 DEF Accounts!DeleteRead, Accounts!Become
  <2>4. QED
        BY <1>3, <2>2, <2>3
<1>6. ASSUME NEW g \in Grant, Accounts!Callback(r, g)
      PROVE  Accounts!Counted'
  <2>1. PICK q : q = [Accounts!Idle EXCEPT !.pc = "link", !.read = link, !.of = g, !.turn = 1]
        OBVIOUS
  <2>2. q \in Accounts!Work /\ q.pc = "link" /\ ~q.filled
        BY <1>1, <2>1 DEF Accounts!Idle, Accounts!Work, Accounts!Pc
  <2>3. request' = [request EXCEPT ![r] = q]
        BY <1>6, <2>1 DEF Accounts!Callback, Accounts!Become
  <2>4. QED
        BY <1>3, <2>2, <2>3
<1>7. CASE Accounts!Refresh(r)
  <2>1. PICK q : q = request'[r]
        OBVIOUS
  <2>2. PICK turn \in 0..MaxTurn :
             request' = [request EXCEPT ![r] =
                           [request[r] EXCEPT !.pc = "store", !.of = request[r].read.of,
                                              !.turn = turn]]
        BY <1>7 DEF Accounts!Refresh, Accounts!Become
  <2>3. q = [request[r] EXCEPT !.pc = "store", !.of = request[r].read.of, !.turn = turn]
        BY <2>1, <2>2 DEF Accounts!TypeOK
  <2>4. request[r].read.of \in Grant \cup {None}
        BY SpotifyTypes DEF Accounts!Link
  <2>5. /\ q \in Accounts!Work /\ q.pc = "store" /\ q.use = request[r].use
        /\ q.filled = request[r].filled
        BY <1>1, <2>3, <2>4 DEF Accounts!Work, Accounts!Pc
  <2>6. request' = [request EXCEPT ![r] = q]
        BY <2>2, <2>3
  <2>7. request[r].pc = "refresh" /\ request[r].use \in {"list", "create"}
        BY <1>7 DEF Accounts!Refresh, Accounts!Counted, Accounts!At
  <2>8. Making(q) = Making(request[r]) /\ Filling(q) = 0 /\ Telling(q) = 0
        BY <2>5, <2>7 DEF Making, Filling, Telling
  <2>9. QED
        BY <1>1, <1>2, <2>5, <2>6, <2>7, <2>8, SpotifyCountedSame
<1>8. CASE Accounts!StoreCommit(r) /\ Accounts!Goto(r, request[r].use)
  <2>1. request[r].pc = "store" /\ request[r].use \in {"list", "create"}
        BY <1>8 DEF Accounts!StoreCommit, Accounts!Counted, Accounts!At
  <2>2. PICK q : q = [request[r] EXCEPT !.pc = request[r].use, !.tries = 0]
        OBVIOUS
  <2>3. /\ q \in Accounts!Work /\ q.pc = request[r].use /\ q.use = request[r].use
        /\ q.filled = request[r].filled
    <3>1. request[r].use \in Accounts!Pc
          BY <2>1 DEF Accounts!Pc
    <3>2. QED
          BY <1>1, <2>2, <3>1 DEF Accounts!Work
  <2>4. request' = [request EXCEPT ![r] = q]
        BY <1>8, <2>2 DEF Accounts!Goto, Accounts!Become
  <2>5. Making(q) = Making(request[r]) /\ Filling(q) = 0 /\ Telling(q) = 0
        BY <2>1, <2>3 DEF Making, Filling, Telling
  <2>6. QED
        BY <1>1, <1>2, <2>1, <2>3, <2>4, <2>5, SpotifyCountedSame
<1>9. CASE Accounts!Connect(r)
      BY <1>9, SpotifyCountedStill DEF Accounts!Connect
<1>10. QED
       BY <1>4, <1>5, <1>6, <1>7, <1>8, <1>9
          DEF Accounts!LinkCommit, Accounts!RefreshFails, Accounts!StoreCommit,
              Accounts!ListPlaylists, Accounts!DeleteCommit, Accounts!Abort, Accounts!Become

\* A request that sets out to make a playlist has been asked for one.
LEMMA SpotifyCountedBegin ==
    ASSUME Accounts!TypeOK, Accounts!Counted, NEW r \in Request,
           NEW use \in {"list", "create"}, Accounts!BeginUse(r, use)
    PROVE  Accounts!Counted'
<1>1. /\ Accounts!Idle \in Accounts!Work /\ link \in Accounts!Link
      /\ ~Accounts!Idle.filled
      BY SpotifyTypes, SpotifyConstants
<1>2. PICK pc : pc = IF link.fresh THEN use ELSE "refresh"
      OBVIOUS
<1>3. PICK q : q = [Accounts!Idle EXCEPT !.pc = pc, !.read = link, !.use = use]
      OBVIOUS
<1>4. q \in Accounts!Work /\ q.pc = pc /\ q.use = use /\ ~q.filled
      BY <1>1, <1>2, <1>3 DEF Accounts!Idle, Accounts!Work, Accounts!Pc
<1>5. request' = [request EXCEPT ![r] = q]
      BY <1>2, <1>3 DEF Accounts!BeginUse, Accounts!Become
<1>6. Making(q) = (IF use = "create" THEN 1 ELSE 0) /\ Filling(q) = 0 /\ Telling(q) = 0
      BY <1>2, <1>4 DEF Making, Filling, Telling
<1>7. pc = "create" => use = "create"
      BY <1>2
<1>8. CASE use = "list"
  <2>1. playlists' = playlists
        BY <1>8 DEF Accounts!BeginUse
  <2>2. QED
        BY <1>4, <1>5, <1>6, <1>7, <1>8, <2>1, SpotifyCountedSame
<1>9. CASE use = "create"
  <2>1. playlists \in Counts
        BY DEF Accounts!Counted, Counts
  <2>2. PICK p : p = [playlists EXCEPT !.asked = @ + 1]
        OBVIOUS
  <2>3. /\ p \in Counts /\ playlists' = p
        /\ p.asked = playlists.asked + 1 /\ p.ok = playlists.ok /\ p.again = playlists.again
        /\ p.full = playlists.full /\ p.empty = playlists.empty
        BY <1>9, <2>1, <2>2 DEF Accounts!BeginUse, Counts
  <2>4. request[r].pc = "idle"
        BY DEF Accounts!BeginUse, Accounts!At
  <2>5. Making(request[r]) = 0 /\ Filling(request[r]) = 0 /\ Telling(request[r]) = 0
        BY <2>4 DEF Making, Filling, Telling
  <2>6. ASSUME NEW make \in Nat, NEW fill \in Nat, NEW tell \in Nat,
               Paid(playlists, make, fill, tell)
        PROVE  Paid(p, make + 1, fill, tell)
        BY <2>1, <2>3, <2>6 DEF Paid, Counts
  <2>7. Making(q) = 1
        BY <1>6, <1>9
  <2>8. ASSUME NEW make \in Nat, NEW fill \in Nat, NEW tell \in Nat,
               Paid(playlists, make + Making(request[r]), fill + Filling(request[r]),
                               tell + Telling(request[r]))
        PROVE  Paid(p, make + Making(q), fill + Filling(q), tell + Telling(q))
    <3>1. /\ make + Making(request[r]) = make /\ fill + Filling(request[r]) = fill
          /\ tell + Telling(request[r]) = tell
          /\ fill + Filling(q) = fill /\ tell + Telling(q) = tell
          BY <1>6, <2>5
    <3>2. QED
          BY <2>6, <2>7, <2>8, <3>1
  <2>9. QED
        BY <1>4, <1>5, <1>7, <1>9, <2>3, <2>8, SpotifyPaid
<1>10. QED
       BY <1>8, <1>9

\* What Retry leaves of a request: nothing, or the same call once more.
LEMMA SpotifyRetry ==
    ASSUME Accounts!TypeOK, Accounts!Counted, NEW r \in Request, NEW try, Accounts!Retry(r, try)
    PROVE  \/ request' = [request EXCEPT ![r] = Accounts!Idle]
           \/ \E q \in Accounts!Work :
                 /\ request' = [request EXCEPT ![r] = q]
                 /\ q.pc = request[r].pc /\ q.use = request[r].use
                 /\ q.filled = (request[r].filled
                                 \/ (request[r].pc = "add" /\ Accounts!Works(try)))
                 /\ try \in {"429", "5xx", "5xx_done"}
<1>1. /\ request[r] \in Accounts!Work /\ request[r].tries \in 0..Attempts /\ Attempts \in Nat
      BY SpotifyTypes, OutsideAssumption
<1>2. PICK filled : filled = (request[r].filled
                              \/ (request[r].pc = "add" /\ Accounts!Works(try)))
      OBVIOUS
<1>3. CASE /\ try \in {"429", "5xx", "5xx_done"} /\ request[r].tries + 1 < Attempts
           /\ request' = [request EXCEPT ![r] = [request[r] EXCEPT !.tries = @ + 1,
                                                                   !.filled = filled]]
  <2>1. PICK q : q = [request[r] EXCEPT !.tries = @ + 1, !.filled = filled]
        OBVIOUS
  <2>2. request[r].tries + 1 \in 0..Attempts
        BY <1>1, <1>3
  <2>3. filled \in BOOLEAN
        BY <1>1, <1>2 DEF Accounts!Work, Accounts!Works
  <2>4. /\ q \in Accounts!Work /\ q.pc = request[r].pc /\ q.use = request[r].use
        /\ q.filled = filled
        BY <1>1, <2>1, <2>2, <2>3 DEF Accounts!Work
  <2>5. request' = [request EXCEPT ![r] = q]
        BY <1>3, <2>1
  <2>6. QED
        BY <1>2, <1>3, <2>4, <2>5
<1>4. CASE request' = [request EXCEPT ![r] = Accounts!Idle]
      BY <1>4
<1>5. QED
      BY <1>2, <1>3, <1>4 DEF Accounts!Retry, Accounts!Replayed, Accounts!Become, Accounts!At

\* POST /me/playlists: a playlist in excess is one that a server error hid.
LEMMA SpotifyCountedCreate ==
    ASSUME Accounts!TypeOK, Accounts!Counted, NEW r \in Request, Accounts!Create(r)
    PROVE  Accounts!Counted'
<1>1. /\ request[r] \in Accounts!Work
      /\ request[r].pc = "create" /\ request[r].use = "create" /\ ~request[r].filled
      /\ playlists \in Counts
      BY SpotifyTypes DEF Accounts!Create, Accounts!Counted, Accounts!At, Counts
<1>2. Making(request[r]) = 1 /\ Filling(request[r]) = 0 /\ Telling(request[r]) = 0
      BY <1>1 DEF Making, Filling, Telling
<1>3. PICK try \in Accounts!Try :
           /\ playlists' = IF Accounts!Works(try)
                           THEN [playlists EXCEPT !.empty = @ + 1,
                                                  !.again = IF try = "5xx_done" THEN @ + 1 ELSE @]
                           ELSE playlists
           /\ IF try = "done" THEN Accounts!Goto(r, "add") ELSE Accounts!Retry(r, try)
      BY DEF Accounts!Create
<1>4. PICK again : again = IF try = "5xx_done" THEN playlists.again + 1 ELSE playlists.again
      OBVIOUS
<1>5. PICK p : p = [playlists EXCEPT !.empty = @ + 1, !.again = again]
      OBVIOUS
<1>6. /\ again \in Nat /\ again >= playlists.again
      /\ try = "5xx_done" => again = playlists.again + 1
      BY <1>1, <1>4 DEF Counts
<1>7. /\ p \in Counts
      /\ p.asked = playlists.asked /\ p.ok = playlists.ok /\ p.again = again
      /\ p.full = playlists.full /\ p.empty = playlists.empty + 1
  <2>1. PICK empty \in Nat : empty = playlists.empty + 1
        BY <1>1 DEF Counts
  <2>2. p = [playlists EXCEPT !.empty = empty, !.again = again]
        BY <1>5, <2>1
  <2>3. QED
        BY <1>1, <1>6, <2>1, <2>2 DEF Counts
<1>8. Accounts!Works(try) => playlists' = p
      BY <1>3, <1>4, <1>5
\* The call is over, and the playlist made.
<1>9. ASSUME NEW q \in Accounts!Work, request' = [request EXCEPT ![r] = q],
             q.pc \in {"idle", "add"}, ~q.filled, playlists' = p
      PROVE  Accounts!Counted'
  <2>1. Making(q) = 0 /\ Filling(q) \in {0, 1} /\ Telling(q) = 0
        BY <1>9 DEF Making, Filling, Telling
  <2>2. ASSUME NEW make \in Nat, NEW fill \in Nat, NEW tell \in Nat, NEW n \in {0, 1},
               Paid(playlists, make + 1, fill, tell)
        PROVE  Paid(p, make, fill + n, tell)
        BY <1>1, <1>6, <1>7, <2>2 DEF Paid, Counts
  <2>3. ASSUME NEW make \in Nat, NEW fill \in Nat, NEW tell \in Nat,
               Paid(playlists, make + Making(request[r]), fill + Filling(request[r]),
                               tell + Telling(request[r]))
        PROVE  Paid(p, make + Making(q), fill + Filling(q), tell + Telling(q))
    <3>1. /\ make + Making(request[r]) = make + 1 /\ fill + Filling(request[r]) = fill
          /\ tell + Telling(request[r]) = tell
          /\ make + Making(q) = make /\ tell + Telling(q) = tell
          BY <1>2, <2>1
    <3>2. QED
          BY <2>1, <2>2, <2>3, <3>1
  <2>4. /\ q.pc \in {"refresh", "store"} => q.use \in {"list", "create"}
        /\ q.pc = "create" => q.use = "create"
        BY <1>9
  <2>5. QED
        BY <1>7, <1>9, <2>3, <2>4, SpotifyPaid
\* It is sent once more, with the playlist made or not.
<1>10. ASSUME NEW q \in Accounts!Work, request' = [request EXCEPT ![r] = q],
              q.pc = "create", q.use = "create", ~q.filled,
              playlists' = p /\ try = "5xx_done"
       PROVE  Accounts!Counted'
  <2>1. Making(q) = 1 /\ Filling(q) = 0 /\ Telling(q) = 0
        BY <1>10 DEF Making, Filling, Telling
  <2>2. ASSUME NEW make \in Nat, NEW fill \in Nat, NEW tell \in Nat,
               Paid(playlists, make, fill, tell)
        PROVE  Paid(p, make, fill, tell)
        BY <1>1, <1>6, <1>7, <1>10, <2>2 DEF Paid, Counts
  <2>3. ASSUME NEW make \in Nat, NEW fill \in Nat, NEW tell \in Nat,
               Paid(playlists, make + Making(request[r]), fill + Filling(request[r]),
                               tell + Telling(request[r]))
        PROVE  Paid(p, make + Making(q), fill + Filling(q), tell + Telling(q))
    <3>1. make + 1 \in Nat /\ fill + 0 = fill /\ tell + 0 = tell
          OBVIOUS
    <3>2. QED
          BY <1>2, <2>1, <2>2, <2>3, <3>1
  <2>4. QED
        BY <1>7, <1>10, <2>3, SpotifyPaid
<1>11. CASE try = "done"
  <2>1. PICK q : q = [request[r] EXCEPT !.pc = "add", !.tries = 0]
        OBVIOUS
  <2>2. q \in Accounts!Work /\ q.pc = "add" /\ ~q.filled
    <3>1. 0 \in 0..Attempts
          BY OutsideAssumption
    <3>2. QED
          BY <1>1, <2>1, <3>1 DEF Accounts!Work, Accounts!Pc
  <2>3. request' = [request EXCEPT ![r] = q] /\ playlists' = p
        BY <1>3, <1>8, <1>11, <2>1 DEF Accounts!Goto, Accounts!Become, Accounts!Works
  <2>4. QED
        BY <1>9, <2>2, <2>3
<1>12. CASE try # "done" /\ request' = [request EXCEPT ![r] = Accounts!Idle]
  <2>1. /\ Accounts!Idle \in Accounts!Work /\ Accounts!Idle.pc = "idle"
        /\ ~Accounts!Idle.filled
        BY SpotifyConstants
  <2>2. CASE Accounts!Works(try)
        BY <1>8, <1>9, <1>12, <2>1, <2>2
  <2>3. CASE ~Accounts!Works(try)
    <3>1. playlists' = playlists
          BY <1>3, <2>3
    <3>2. Making(Accounts!Idle) = 0 /\ Filling(Accounts!Idle) = 0 /\ Telling(Accounts!Idle) = 0
          BY <2>1 DEF Making, Filling, Telling
    <3>3. QED
          BY <1>12, <2>1, <3>1, <3>2, SpotifyCountedSame
  <2>4. QED
        BY <2>2, <2>3
<1>13. ASSUME NEW q \in Accounts!Work, request' = [request EXCEPT ![r] = q],
              q.pc = request[r].pc, q.use = request[r].use,
              q.filled = (request[r].filled \/ (request[r].pc = "add" /\ Accounts!Works(try))),
              try \in {"429", "5xx", "5xx_done"}
       PROVE  Accounts!Counted'
  <2>1. q.pc = "create" /\ q.use = "create" /\ ~q.filled
        BY <1>1, <1>13
  <2>2. CASE try = "5xx_done"
        BY <1>8, <1>10, <1>13, <2>1, <2>2 DEF Accounts!Works
  <2>3. CASE try # "5xx_done"
    <3>1. playlists' = playlists
          BY <1>3, <1>13, <2>3 DEF Accounts!Works
    <3>2. Making(q) = 1 /\ Filling(q) = 0 /\ Telling(q) = 0
          BY <2>1 DEF Making, Filling, Telling
    <3>3. QED
          BY <1>2, <1>13, <2>1, <3>1, <3>2, SpotifyCountedSame
  <2>4. QED
        BY <2>2, <2>3
<1>14. QED
       BY <1>3, <1>11, <1>12, <1>13, SpotifyRetry

\* POST its items: an empty playlist becomes a full one, whose request is told,
\* or left to try again.
LEMMA SpotifyCountedAdd ==
    ASSUME Accounts!TypeOK, Accounts!Counted, NEW r \in Request, Accounts!Add(r)
    PROVE  Accounts!Counted'
<1>1. /\ request[r] \in Accounts!Work /\ request[r].pc = "add"
      /\ request[r].filled \in BOOLEAN
      /\ playlists \in Counts
      BY SpotifyTypes DEF Accounts!Add, Accounts!Counted, Accounts!At, Counts, Accounts!Work
<1>2. /\ Making(request[r]) = 0
      /\ Filling(request[r]) = (IF request[r].filled THEN 0 ELSE 1)
      /\ Telling(request[r]) = (IF request[r].filled THEN 1 ELSE 0)
      BY <1>1 DEF Making, Filling, Telling
<1>3. PICK try \in Accounts!Try :
           /\ LET fills == IF Accounts!Works(try) /\ ~request[r].filled THEN 1 ELSE 0 IN
                 playlists' = [playlists EXCEPT !.empty = @ - fills, !.full = @ + fills,
                                                !.ok = IF try = "done" THEN @ + 1 ELSE @]
           /\ \/ try = "done" /\ request' = [request EXCEPT ![r] = Accounts!Idle]
              \/ try # "done" /\ Accounts!Retry(r, try)
      BY DEF Accounts!Add, Accounts!Become
<1>4. PICK fills \in {0, 1} :
           /\ fills = IF Accounts!Works(try) /\ ~request[r].filled THEN 1 ELSE 0
           /\ playlists' = [playlists EXCEPT !.empty = @ - fills, !.full = @ + fills,
                                             !.ok = IF try = "done" THEN @ + 1 ELSE @]
      BY <1>3
<1>5. fills <= playlists.empty
  <2>1. Accounts!Cardinality(Accounts!ToFill) >= Filling(request[r])
        BY SpotifyAmong
  <2>2. Accounts!Cardinality(Accounts!ToFill) \in Nat
    <3>1. PICK S : S = Accounts!ToFill
          OBVIOUS
    <3>2. S \in SUBSET Request
          BY <3>1 DEF Accounts!ToFill
    <3>3. Cardinality(S) \in Nat
          BY <3>2, OneCounted
    <3>4. QED
          BY <3>1, <3>3, CardinalityHere
  <2>3. Accounts!Cardinality(Accounts!ToFill) <= playlists.empty
        BY DEF Accounts!Counted
  <2>4. fills <= Filling(request[r])
        BY <1>1, <1>2, <1>4
  <2>5. playlists.empty \in Nat
        BY <1>1 DEF Counts
  <2>6. QED
        BY <1>2, <2>1, <2>2, <2>3, <2>4, <2>5
<1>6. PICK said \in {0, 1} : said = IF try = "done" THEN 1 ELSE 0
      OBVIOUS
<1>7. PICK p : p = [playlists EXCEPT !.empty = @ - fills, !.full = @ + fills, !.ok = @ + said]
      OBVIOUS
<1>8. /\ p \in Counts
      /\ p.asked = playlists.asked /\ p.ok = playlists.ok + said /\ p.again = playlists.again
      /\ p.full = playlists.full + fills /\ p.empty = playlists.empty - fills
  <2>1. PICK empty \in Nat, full \in Nat, ok \in Nat :
             /\ empty = playlists.empty - fills /\ full = playlists.full + fills
             /\ ok = playlists.ok + said
        BY <1>1, <1>5 DEF Counts
  <2>2. p = [playlists EXCEPT !.empty = empty, !.full = full, !.ok = ok]
        BY <1>7, <2>1
  <2>3. QED
        BY <1>1, <2>1, <2>2 DEF Counts
<1>9. playlists' = p
  <2>1. playlists.ok \in Nat
        BY <1>1 DEF Counts
  <2>2. (IF try = "done" THEN playlists.ok + 1 ELSE playlists.ok) = playlists.ok + said
        BY <1>6, <2>1
  <2>3. QED
        BY <1>4, <1>7, <2>2
\* What was empty for this request is full, and is answered for or left to tell.
<1>10. ASSUME NEW q \in Accounts!Work, request' = [request EXCEPT ![r] = q],
             q.pc \in {"idle", "add"}, q.filled => q.pc = "add",
             Filling(q) + fills <= Filling(request[r]),
             said + Telling(q) <= fills + Telling(request[r])
      PROVE  Accounts!Counted'
  <2>1. /\ Making(q) = 0 /\ Filling(q) \in {0, 1} /\ Telling(q) \in {0, 1}
        /\ Filling(request[r]) \in {0, 1} /\ Telling(request[r]) \in {0, 1}
        BY <1>10 DEF Making, Filling, Telling
  <2>2. ASSUME NEW make \in Nat, NEW fill \in Nat, NEW tell \in Nat,
               NEW f \in {0, 1}, NEW g \in {0, 1}, NEW t \in {0, 1}, NEW u \in {0, 1},
               g + fills <= f, said + u <= fills + t,
               Paid(playlists, make, fill + f, tell + t)
        PROVE  Paid(p, make, fill + g, tell + u)
        BY <1>1, <1>8, <2>2 DEF Paid, Counts
  <2>3. ASSUME NEW make \in Nat, NEW fill \in Nat, NEW tell \in Nat,
               Paid(playlists, make + Making(request[r]), fill + Filling(request[r]),
                               tell + Telling(request[r]))
        PROVE  Paid(p, make + Making(q), fill + Filling(q), tell + Telling(q))
    <3>1. make + Making(request[r]) = make /\ make + Making(q) = make
          BY <1>2, <2>1
    <3>2. QED
          BY <1>10, <2>1, <2>2, <2>3, <3>1
  <2>4. /\ q.pc \in {"refresh", "store"} => q.use \in {"list", "create"}
        /\ q.pc = "create" => q.use = "create"
        BY <1>10
  <2>5. QED
        BY <1>8, <1>9, <1>10, <2>3, <2>4, SpotifyPaid
<1>11. CASE request' = [request EXCEPT ![r] = Accounts!Idle]
  <2>1. /\ Accounts!Idle \in Accounts!Work /\ Accounts!Idle.pc = "idle"
        /\ ~Accounts!Idle.filled
        BY SpotifyConstants
  <2>2. Filling(Accounts!Idle) = 0 /\ Telling(Accounts!Idle) = 0
        BY <2>1 DEF Filling, Telling
  <2>3. /\ 0 + fills <= Filling(request[r])
        /\ said + 0 <= fills + Telling(request[r])
        BY <1>1, <1>2, <1>4, <1>6 DEF Accounts!Works
  <2>4. QED
        BY <1>10, <1>11, <2>1, <2>2, <2>3
<1>12. ASSUME NEW q \in Accounts!Work, request' = [request EXCEPT ![r] = q],
              q.pc = request[r].pc, try # "done",
              q.filled = (request[r].filled \/ (request[r].pc = "add" /\ Accounts!Works(try)))
       PROVE  Accounts!Counted'
  <2>1. /\ q.pc = "add" /\ said = 0
        /\ q.filled = (request[r].filled \/ Accounts!Works(try))
        BY <1>1, <1>6, <1>12
  <2>2. /\ Filling(q) + fills <= Filling(request[r])
        /\ 0 + Telling(q) <= fills + Telling(request[r])
    <3>1. CASE request[r].filled
      <4>1. fills = 0 /\ q.filled
            BY <1>4, <2>1, <3>1
      <4>2. /\ Filling(q) = 0 /\ Telling(q) = 1
            /\ Filling(request[r]) = 0 /\ Telling(request[r]) = 1
            BY <1>2, <2>1, <3>1, <4>1 DEF Filling, Telling
      <4>3. QED
            BY <4>1, <4>2
    <3>2. CASE ~request[r].filled /\ Accounts!Works(try)
      <4>1. fills = 1 /\ q.filled
            BY <1>4, <2>1, <3>2
      <4>2. /\ Filling(q) = 0 /\ Telling(q) = 1
            /\ Filling(request[r]) = 1 /\ Telling(request[r]) = 0
            BY <1>2, <2>1, <3>2, <4>1 DEF Filling, Telling
      <4>3. QED
            BY <4>1, <4>2
    <3>3. CASE ~request[r].filled /\ ~Accounts!Works(try)
      <4>1. fills = 0 /\ ~q.filled
            BY <1>4, <2>1, <3>3
      <4>2. /\ Filling(q) = 1 /\ Telling(q) = 0
            /\ Filling(request[r]) = 1 /\ Telling(request[r]) = 0
            BY <1>2, <2>1, <3>3, <4>1 DEF Filling, Telling
      <4>3. QED
            BY <4>1, <4>2
    <3>4. QED
          BY <1>1, <3>1, <3>2, <3>3
  <2>3. QED
        BY <1>10, <1>12, <2>1, <2>2
<1>13. QED
       BY <1>3, <1>11, <1>12, SpotifyRetry

-----------------------------------------------------------------------------
(* Spotify: the invariant.                                                 *)

LEMMA SpotifyParts ==
    Accounts!Inv <=> Accounts!TypeOK /\ Linked /\ Accounts!Counted
BY DEF Accounts!Inv, Linked

LEMMA SpotifyNext == Accounts!Inv /\ [Accounts!Next]_accountVars => Accounts!Inv'
<1>1. SUFFICES ASSUME Accounts!Inv, [Accounts!Next]_accountVars
               PROVE  Accounts!TypeOK' /\ Linked' /\ Accounts!Counted'
      BY DEF Accounts!Inv, Linked
<1>2. Accounts!TypeOK /\ Linked /\ Accounts!Counted
      BY <1>1, SpotifyParts
<1>3. CASE UNCHANGED accountVars \/ Accounts!StateExpires
      BY <1>2, <1>3, SpotifyStill, SpotifyCountedStill DEF accountVars, Accounts!StateExpires
<1>4. CASE Accounts!TokenExpires
      BY <1>2, <1>4, SpotifyTokenExpires, SpotifyCountedStill DEF Accounts!TokenExpires
<1>5. ASSUME NEW r \in Request,
             \/ Accounts!Connect(r) \/ Accounts!LinkCommit(r) \/ Accounts!Refresh(r)
             \/ Accounts!RefreshFails(r) \/ Accounts!StoreCommit(r)
             \/ Accounts!ListPlaylists(r) \/ Accounts!DeleteRead(r)
             \/ Accounts!DeleteCommit(r) \/ Accounts!Abort(r)
             \/ \E g \in Grant : Accounts!Callback(r, g)
      PROVE  Accounts!TypeOK' /\ Linked' /\ Accounts!Counted'
  <2>1. Accounts!Counted'
        BY <1>2, <1>5, SpotifyCountedSteps
  <2>2. CASE Accounts!Connect(r)
        BY <1>2, <2>1, <2>2, SpotifyStill DEF Accounts!Connect
  <2>3. CASE Accounts!LinkCommit(r)
        BY <1>2, <2>1, <2>3, SpotifyLinkCommit
  <2>4. CASE Accounts!Refresh(r) \/ Accounts!RefreshFails(r)
        BY <1>2, <2>1, <2>4, SpotifyRefreshes
  <2>5. CASE Accounts!StoreCommit(r)
    <3>1. request[r].use \in {"list", "create"}
          BY <1>2, <2>5 DEF Accounts!Counted, Accounts!StoreCommit
    <3>2. QED
          BY <1>2, <2>1, <2>5, <3>1, SpotifyStoreCommit
  <2>6. CASE Accounts!ListPlaylists(r) \/ Accounts!DeleteRead(r) \/ Accounts!Abort(r)
        BY <1>2, <2>1, <2>6, SpotifyQuietSteps
  <2>7. CASE Accounts!DeleteCommit(r)
        BY <1>2, <2>1, <2>7, SpotifyDeleteCommit
  <2>8. CASE \E g \in Grant : Accounts!Callback(r, g)
        BY <1>2, <2>1, <2>8, SpotifyCallback
  <2>9. QED
        BY <1>5, <2>2, <2>3, <2>4, <2>5, <2>6, <2>7, <2>8
<1>6. ASSUME NEW r \in Request,
             \/ Accounts!Create(r) \/ Accounts!Add(r)
             \/ \E use \in {"list", "create"} : Accounts!BeginUse(r, use)
      PROVE  Accounts!TypeOK' /\ Linked' /\ Accounts!Counted'
  <2>1. Accounts!TypeOK' /\ Linked'
        BY <1>2, <1>6, SpotifyQuietSteps
  <2>2. Accounts!Counted'
        BY <1>2, <1>6, SpotifyCountedCreate, SpotifyCountedAdd, SpotifyCountedBegin
  <2>3. QED
        BY <2>1, <2>2
<1>7. QED
      BY <1>1, <1>3, <1>4, <1>5, <1>6 DEF Accounts!Next

LEMMA SpotifySafe ==
    Accounts!Inv => RefreshTokenKept /\ DeletedUnlinked /\ PlaylistsAccounted
<1>1. SUFFICES ASSUME Accounts!Inv
               PROVE  /\ Accounts!RefreshTokenKept
                      /\ Accounts!DeletedUnlinked
                      /\ Accounts!PlaylistsAccounted
      BY DEF RefreshTokenKept, DeletedUnlinked, PlaylistsAccounted
<1>2. Accounts!TokenKept /\ Accounts!DeletedUnlinked /\ Accounts!Counted
      BY <1>1 DEF Accounts!Inv
<1>3. Accounts!RefreshTokenKept
      BY <1>2 DEF Accounts!TokenKept, Accounts!Rotated, Accounts!RefreshTokenKept
<1>4. Accounts!PlaylistsAccounted
  <2>1. /\ Accounts!Cardinality(Accounts!ToMake) \in Nat
        /\ Accounts!Cardinality(Accounts!ToFill) \in Nat
        /\ Accounts!Cardinality(Accounts!Filled) \in Nat
    <3>1. PICK S, T, U : S = Accounts!ToMake /\ T = Accounts!ToFill /\ U = Accounts!Filled
          OBVIOUS
    <3>2. S \in SUBSET Request /\ T \in SUBSET Request /\ U \in SUBSET Request
          BY <3>1 DEF Accounts!ToMake, Accounts!ToFill, Accounts!Filled
    <3>3. IsFiniteSet(S) /\ IsFiniteSet(T) /\ IsFiniteSet(U)
          BY <3>2, OutsideAssumption, FS_Subset
    <3>4. Cardinality(S) \in Nat /\ Cardinality(T) \in Nat /\ Cardinality(U) \in Nat
          BY <3>3, FS_CardinalityType
    <3>5. QED
          BY <3>1, <3>4, CardinalityHere
  <2>2. QED
        BY <1>2, <2>1 DEF Accounts!PlaylistsAccounted, Accounts!Counted
<1>5. QED
      BY <1>2, <1>3, <1>4

-----------------------------------------------------------------------------
(* The theorems.                                                           *)

LEMMA SpotifyInvHolds == Accounts!Spec => []Accounts!Inv
<1>1. Accounts!Init => Accounts!Inv
      BY SpotifyInit, SpotifyCountedInit, SpotifyParts
<1>2. Accounts!Inv /\ [Accounts!Next]_(Accounts!vars) => Accounts!Inv'
      BY SpotifyNext DEF Accounts!vars, accountVars
<1>3. QED
      BY <1>1, <1>2, PTL DEF Accounts!Spec

\* For any number of worker threads and of grants, whatever refreshes, new links
\* and deletions of one account overlap, and wherever a request fails or the
\* server stops: the row of spotify_tokens holds the newest refresh token of
\* its grant, unless a request that has it is about to store it or it was lost.
THEOREM TokensKept == Accounts!Spec => []RefreshTokenKept
BY SpotifyInvHolds, SpotifySafe, PTL

\* A deleted account has no link to Spotify, but for a callback that came too
\* late for the deletion to see.
THEOREM DeletedStayUnlinked == Accounts!Spec => []DeletedUnlinked
BY SpotifyInvHolds, SpotifySafe, PTL

\* Every 201 has a playlist with its tracks, no request fills two, and for each
\* one that is made in excess a server error has followed the making of another,
\* whatever Spotify answers to a try and however often call_with_retry replays it.
THEOREM PlaylistsPaidFor == Accounts!Spec => []PlaylistsAccounted
BY SpotifyInvHolds, SpotifySafe, PTL

\* Whatever number of threads search at once, _throttle lets two calls go at
\* least Interval apart.
THEOREM CallsAreSpaced == Clients!Spec => Spaced
<1>1. Clients!Init => Clients!Inv
      BY SearchInit
<1>2. /\ Clients!Inv /\ [Clients!Next]_(Clients!clients) => Clients!Inv'
      /\ Clients!Inv /\ [Clients!Next]_(Clients!clients)
            => [\A t \in Thread : Clients!Doing(t, "sleep") /\ lookup'[t].pc = "call"
                                     => since \in {None, Interval}]_(Clients!clients)
      BY SearchNext DEF Clients!clients, clientVars, Clients!Doing
<1>3. QED
      BY <1>1, <1>2, PTL DEF Clients!Spec, Spaced, Clients!Spaced

\* The two side by side do nothing that each could not do alone, so all of it
\* holds of Outside.
THEOREM OutsideHolds ==
    OutsideSpec => [](RefreshTokenKept /\ DeletedUnlinked /\ PlaylistsAccounted) /\ Spaced
<1>1. OutsideInit => Accounts!Init /\ Clients!Init
      BY DEF OutsideInit
<1>2. [OutsideNext]_outsideVars => [Accounts!Next]_(Accounts!vars) /\ [Clients!Next]_(Clients!clients)
      BY DEF OutsideNext, outsideVars, accountVars, clientVars, Accounts!vars, Clients!clients
<1>3. OutsideSpec => Accounts!Spec /\ Clients!Spec
      BY <1>1, <1>2, PTL DEF OutsideSpec, Accounts!Spec, Clients!Spec
<1>4. QED
      BY <1>3, TokensKept, DeletedStayUnlinked, PlaylistsPaidFor, CallsAreSpaced, PTL

=============================================================================
