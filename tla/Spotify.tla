------------------------------- MODULE Spotify ------------------------------
(***************************************************************************)
(* One account's link to Spotify: the row of spotify_tokens, the callback  *)
(* that stores it, the requests that refresh and use it, and the deletion  *)
(* of the account.  Accounts never touch each other's row.  Every SELECT,  *)
(* every call to Spotify and every commit is one action: the row is read   *)
(* unlocked, and Spotify answers before the row is written.                *)
(***************************************************************************)
EXTENDS Naturals, FiniteSets

CONSTANTS
    Grant,     \* authorizations the user can give; each has its refresh tokens
    Request,   \* worker threads
    LongAgo,   \* the grant of an account linked before playlists were created
    None,
    Attempts,  \* MAX_ATTEMPTS
    MaxTurn,   \* bound: refresh tokens Spotify draws for one grant
    MaxAsked   \* bound: playlists asked for

VARIABLES
    account,   \* the user's row: "live" or "deleted"
    link,      \* the user's row of spotify_tokens, or NoLink
    newest,    \* at Spotify: the newest refresh token of each grant, 0 before it is given
    invited,   \* a state of create_oauth_state has not expired
    request,   \* what each worker thread is doing
    lost,      \* no state of the program: grants whose newest token got lost
    late,      \* nor this: a callback stored a link the deletion had not read
    playlists  \* nor this: how many were asked for, answered, made, and made over

vars == <<account, link, newest, invited, request, lost, late, playlists>>

-----------------------------------------------------------------------------

\* id stands for the primary key: the grant the row was inserted with.  Only
\* the newest refresh token of a grant, its turn, is good.
Link   == [ id : Grant \cup {None}, of : Grant \cup {None}, turn : 0..MaxTurn,
            fresh : BOOLEAN, write : BOOLEAN ]
NoLink == [id |-> None, of |-> None, turn |-> 0, fresh |-> FALSE, write |-> FALSE]

Pc == {"idle", "link", "refresh", "store", "list", "create", "add", "delete"}

\* read is the row as selected; of and turn are the refresh token Spotify
\* answered with; tries counts the tries of the call under way that were
\* replayed.  filled is no state of the program: the playlist has its tracks.
Work == [ pc : Pc, read : Link, use : {None, "list", "create"},
          of : Grant \cup {None}, turn : 0..MaxTurn, tries : 0..Attempts,
          filled : BOOLEAN ]
Idle == [ pc |-> "idle", read |-> NoLink, use |-> None, of |-> None, turn |-> 0,
          tries |-> 0, filled |-> FALSE ]

Init ==
    /\ account = "live"
    /\ \/ /\ link = NoLink
          /\ newest = [g \in Grant |-> 0]
       \/ /\ link = [id |-> LongAgo, of |-> LongAgo, turn |-> 1, fresh |-> FALSE, write |-> FALSE]
          /\ newest = [g \in Grant |-> IF g = LongAgo THEN 1 ELSE 0]
    /\ invited = FALSE
    /\ request = [r \in Request |-> Idle]
    /\ lost = {}
    /\ late = FALSE
    /\ playlists = [asked |-> 0, ok |-> 0, full |-> 0, empty |-> 0, again |-> 0]

At(r, pc) == request[r].pc = pc

Become(r, thread) == request' = [request EXCEPT ![r] = thread]

Goto(r, pc) == Become(r, [request[r] EXCEPT !.pc = pc, !.tries = 0])

\* has_playlist_write_scope; grants given now carry it, LongAgo does not.
Writes(g) == g # LongAgo

-----------------------------------------------------------------------------
(* Linking.  The callback knows the user from the signed state alone, which  *)
(* lasts ten minutes, can be used again, and outlives the account.           *)

Connect(r) ==
    /\ At(r, "idle")
    /\ account = "live"
    /\ ~invited
    /\ invited' = TRUE
    /\ UNCHANGED <<account, link, newest, request, lost, late, playlists>>

StateExpires ==
    /\ invited
    /\ invited' = FALSE
    /\ UNCHANGED <<account, link, newest, request, lost, late, playlists>>

\* The code is exchanged, then the row is read.  An exchange that fails
\* changes nothing.
Callback(r, g) ==
    /\ At(r, "idle")
    /\ invited
    /\ g # LongAgo
    /\ newest[g] = 0
    /\ newest' = [newest EXCEPT ![g] = 1]
    /\ Become(r, [Idle EXCEPT !.pc = "link", !.read = link, !.of = g, !.turn = 1])
    /\ UNCHANGED <<account, link, invited, lost, late, playlists>>

\* An INSERT fails on the unique user_id, an UPDATE on a row that is gone.
\* An UPDATE writes the columns that differ from what was read.
LinkCommit(r) ==
    LET t == request[r]
        write == IF t.read.write = Writes(t.of) THEN link.write ELSE Writes(t.of) IN
    /\ At(r, "link")
    /\ \/ /\ t.read = NoLink
          /\ link = NoLink
          /\ link' = [id |-> t.of, of |-> t.of, turn |-> t.turn, fresh |-> TRUE, write |-> Writes(t.of)]
          /\ late' = (late \/ account = "deleted" \/ \E q \in Request : At(q, "delete"))
       \/ /\ t.read # NoLink
          /\ link.id = t.read.id
          /\ link' = [link EXCEPT !.of = t.of, !.turn = t.turn, !.fresh = TRUE, !.write = write]
          /\ UNCHANGED late
       \/ /\ t.read.id # link.id
          /\ UNCHANGED <<link, late>>
    /\ Become(r, Idle)
    /\ UNCHANGED <<account, newest, invited, lost, playlists>>

-----------------------------------------------------------------------------
(* Using the link: my_playlists and create_playlist read the row, refresh    *)
(* the access token if it has expired, commit, and then call Spotify.        *)

BeginUse(r, use) ==
    /\ At(r, "idle")
    /\ account = "live"
    /\ link # NoLink
    /\ use = "create" => link.write
    /\ use = "create" => playlists.asked < MaxAsked
    /\ playlists' = IF use = "create" THEN [playlists EXCEPT !.asked = @ + 1] ELSE playlists
    /\ Become(r, [Idle EXCEPT !.pc = IF link.fresh THEN use ELSE "refresh",
                              !.read = link, !.use = use])
    /\ UNCHANGED <<account, link, newest, invited, lost, late>>

\* ensure_fresh_access_token, answered: Spotify may rotate the refresh token.
Refresh(r) ==
    LET read == request[r].read IN
    /\ At(r, "refresh")
    /\ newest[read.of] = read.turn
    /\ \E turn \in {read.turn, read.turn + 1} \cap 0..MaxTurn :
          /\ newest' = [newest EXCEPT ![read.of] = turn]
          /\ Become(r, [request[r] EXCEPT !.pc = "store", !.of = read.of, !.turn = turn])
    /\ UNCHANGED <<account, link, invited, lost, late, playlists>>

\* Spotify refuses a token that is not the newest or was withdrawn, or stays busy
\* through every attempt; or the connection breaks, before Spotify rotates or after.
RefreshFails(r) ==
    LET read == request[r].read IN
    /\ At(r, "refresh")
    /\ \/ UNCHANGED <<newest, lost>>
       \/ /\ newest[read.of] = read.turn
          /\ read.turn < MaxTurn
          /\ newest' = [newest EXCEPT ![read.of] = @ + 1]
          /\ lost' = lost \cup {read.of}
    /\ Become(r, Idle)
    /\ UNCHANGED <<account, link, invited, late, playlists>>

\* MUTANT of Stored: the rotated refresh token is dropped
KeepsOldRefreshToken(t) == [link EXCEPT !.fresh = TRUE]

\* The scope and the refresh token are written if Spotify sent others than
\* were read; the UPDATE fails if the row is gone.
Stored(t) ==
    [link EXCEPT !.fresh = TRUE,
                 !.of    = IF t.turn # t.read.turn THEN t.of ELSE @,
                 !.turn  = IF t.turn # t.read.turn THEN t.turn ELSE @,
                 !.write = IF t.read.write # Writes(t.of) THEN Writes(t.of) ELSE @]

StoreCommit(r) ==
    /\ At(r, "store")
    /\ \/ /\ link.id = request[r].read.id
          /\ link' = Stored(request[r])
          /\ Goto(r, request[r].use)
       \/ /\ link.id # request[r].read.id
          /\ UNCHANGED link
          /\ Become(r, Idle)
    /\ UNCHANGED <<account, newest, invited, lost, late, playlists>>

ListPlaylists(r) ==
    /\ At(r, "list")
    /\ Become(r, Idle)
    /\ UNCHANGED <<account, link, newest, invited, lost, late, playlists>>

-----------------------------------------------------------------------------
(* create_user_playlist: POST /me/playlists, then POST its items.            *)

\* One try: Spotify's answer, a 429 or another server error of spotipy's
\* status_forcelist, or any other failure, a broken connection for one.  But
\* for the answer and the 429 nobody knows whether Spotify did the work.
Try == {"done", "429", "5xx", "5xx_done", "failed", "failed_done"}
Works(try) == try \in {"done", "5xx_done", "failed_done"}

\* MUTANT of Replayed: a broken connection is replayed as well
ReplaysEverything(try) == try # "done"

\* call_with_retry replays what spotipy reports as a 429.  status_retries=0
\* ends urllib3's own replays at once, for a 5xx as for a 429, and spotipy
\* reports the end of those replays, whatever the answer was, as a 429.
Replayed(try) == try \in {"429", "5xx", "5xx_done"}

\* After a try that is neither answered nor replayed the request fails.
Retry(r, try) ==
    IF Replayed(try) /\ request[r].tries + 1 < Attempts
    THEN Become(r, [request[r] EXCEPT !.tries = @ + 1,
                                      !.filled = @ \/ (At(r, "add") /\ Works(try))])
    ELSE Become(r, Idle)

\* A playlist that is made when the try is replayed stays where it is, empty.
Create(r) ==
    /\ At(r, "create")
    /\ \E try \in Try :
          /\ playlists' = IF Works(try)
                          THEN [playlists EXCEPT !.empty = @ + 1,
                                                 !.again = IF try = "5xx_done" THEN @ + 1 ELSE @]
                          ELSE playlists
          /\ IF try = "done" THEN Goto(r, "add") ELSE Retry(r, try)
    /\ UNCHANGED <<account, link, newest, invited, lost, late>>

\* The first try that works fills the playlist, a second one adds the tracks to
\* it once more.
Add(r) ==
    /\ At(r, "add")
    /\ \E try \in Try :
          /\ LET fills == IF Works(try) /\ ~request[r].filled THEN 1 ELSE 0 IN
                playlists' = [playlists EXCEPT !.empty = @ - fills, !.full = @ + fills,
                                               !.ok = IF try = "done" THEN @ + 1 ELSE @]
          /\ IF try = "done" THEN Become(r, Idle) ELSE Retry(r, try)
    /\ UNCHANGED <<account, link, newest, invited, lost, late>>

-----------------------------------------------------------------------------

\* MUTANT of DeleteRead: the row is not read, so it is not deleted
DeletesNoLink(r) ==
    /\ At(r, "idle")
    /\ account = "live"
    /\ Become(r, [Idle EXCEPT !.pc = "delete"])
    /\ UNCHANGED <<account, link, newest, invited, lost, late, playlists>>

\* delete_account deletes the row it read; the commit scrubs the user.
DeleteRead(r) ==
    /\ At(r, "idle")
    /\ account = "live"
    /\ Become(r, [Idle EXCEPT !.pc = "delete", !.read = link])
    /\ UNCHANGED <<account, link, newest, invited, lost, late, playlists>>

DeleteCommit(r) ==
    /\ At(r, "delete")
    /\ account' = "deleted"
    /\ link' = IF link.id = request[r].read.id THEN NoLink ELSE link
    /\ Become(r, Idle)
    /\ UNCHANGED <<newest, invited, lost, late, playlists>>

\* The hour of the access token passes.
TokenExpires ==
    /\ link.fresh
    /\ link' = [link EXCEPT !.fresh = FALSE]
    /\ UNCHANGED <<account, newest, invited, request, lost, late, playlists>>

\* The server stops: what Spotify answered and nobody stored is lost.
Abort(r) ==
    /\ ~At(r, "idle")
    /\ lost' = IF At(r, "store") /\ request[r].turn # request[r].read.turn
               THEN lost \cup {request[r].of} ELSE lost
    /\ Become(r, Idle)
    /\ UNCHANGED <<account, link, newest, invited, late, playlists>>

Next ==
    \/ StateExpires
    \/ TokenExpires
    \/ \E r \in Request :
          \/ Connect(r) \/ LinkCommit(r)
          \/ Refresh(r) \/ RefreshFails(r) \/ StoreCommit(r)
          \/ ListPlaylists(r) \/ Create(r) \/ Add(r)
          \/ DeleteRead(r) \/ DeleteCommit(r) \/ Abort(r)
          \/ \E g \in Grant : Callback(r, g)
          \/ \E use \in {"list", "create"} : BeginUse(r, use)

Spec == Init /\ [][Next]_vars

-----------------------------------------------------------------------------

\* A refresh token Spotify has replaced is useless for ever.  Whatever
\* refreshes, new links and deletions overlap, the row holds the newest token
\* of its grant, unless a request that has it is about to store it, or the
\* answer with it was lost on its way or in a crash.  ensure_fresh_access_token
\* changes an object read without a lock, and the commit comes a call later.
RefreshTokenKept ==
    link # NoLink =>
        \/ link.turn = newest[link.of]
        \/ link.of \in lost
        \/ \E r \in Request : At(r, "store") /\ request[r].of = link.of

\* A deleted account has no link left, and no refresh or create in flight
\* brings it back; only a callback can, whose INSERT the deletion did not see
\* or whose state outlived the account.
DeletedUnlinked == account = "deleted" /\ ~late => link = NoLink

\* Every 201 is backed by a playlist that has its tracks, and no request fills
\* two, however its calls are replayed.  It makes a second one only when a
\* server error follows the making of the first: a try whose connection broke
\* is never sent again.  A request that fails may leave one behind.
PlaylistsAccounted ==
    /\ playlists.ok <= playlists.full
    /\ playlists.full <= playlists.asked
    /\ playlists.full + playlists.empty <= playlists.asked + playlists.again

\* What create_user_playlist says of its replays: "blindly replaying it could
\* leave duplicate playlists on the user's account", so only a 429 is, and "a
\* 429 means nothing was done".  No request would make two.
MadeOnce == playlists.full + playlists.empty <= playlists.asked

-----------------------------------------------------------------------------
(* The inductive invariant.                                                *)

TypeOK ==
    /\ link \in Link
    /\ newest \in [Grant -> 0..MaxTurn]
    /\ request \in [Request -> Work]

\* The row as it is, and as requests have read it.
Rows == {link} \cup {request[r].read : r \in Request}

\* A row holds a token its grant has had, and a grant's tokens were ever in
\* one row only.
RowsAgree ==
    /\ \A l \in Rows : l # NoLink =>
          l.id \in Grant /\ l.of \in Grant /\ l.turn \in 1..newest[l.of]
    /\ \A l, m \in Rows : l.of = m.of => l.id = m.id

\* A callback brings a grant nobody else has heard of.
GrantsAreNew ==
    \A r \in Request : At(r, "link") =>
        /\ request[r].of \in Grant
        /\ request[r].turn = 1
        /\ newest[request[r].of] = 1
        /\ \A l \in Rows : l.of # request[r].of
        /\ \A q \in Request \ {r} : At(q, "link") => request[q].of # request[r].of

\* Only one request can have got a new refresh token for a grant's newest one:
\* the others are refused, for the row they read holds an older token.
Rotated(r) == At(r, "store") /\ request[r].turn # request[r].read.turn

RotatedOnce ==
    \A r \in Request :
        /\ At(r, "refresh") \/ At(r, "store") => request[r].read # NoLink
        /\ At(r, "store") => request[r].of = request[r].read.of
        /\ Rotated(r) =>
              /\ request[r].turn = newest[request[r].of]
              /\ \A l \in Rows : l.of = request[r].of => l.turn < request[r].turn
              /\ \A q \in Request \ {r} : Rotated(q) => request[q].of # request[r].of

\* The row has the newest token of its grant, or a request is about to store it.
TokenKept ==
    link # NoLink =>
        \/ link.turn = newest[link.of]
        \/ link.of \in lost
        \/ \E r \in Request : Rotated(r) /\ request[r].of = link.of

\* A deletion knows the row it is about to delete, unless a callback came late.
DeletionKnows ==
    \A r \in Request :
        At(r, "delete") /\ ~late => link = NoLink \/ link.id = request[r].read.id

\* Requests for a playlist that have yet to make it, to fill it, and to be told
\* that they have.
ToMake == {r \in Request : /\ request[r].pc \in {"refresh", "store", "create"}
                           /\ request[r].use = "create"}
ToFill == {r \in Request : At(r, "add") /\ ~request[r].filled}
Filled == {r \in Request : At(r, "add") /\ request[r].filled}

\* Who is still to make a playlist, or to fill it, has asked for one that is not
\* there yet, or not filled.
Counted ==
    /\ playlists \in [asked : Nat, ok : Nat, full : Nat, empty : Nat, again : Nat]
    /\ \A r \in Request :
          /\ At(r, "refresh") \/ At(r, "store") => request[r].use \in {"list", "create"}
          /\ At(r, "create") => request[r].use = "create"
          /\ request[r].filled => At(r, "add")
    /\ playlists.full + playlists.empty + Cardinality(ToMake) <= playlists.asked + playlists.again
    /\ playlists.full + Cardinality(ToMake) + Cardinality(ToFill) <= playlists.asked
    /\ playlists.ok + Cardinality(Filled) <= playlists.full
    /\ Cardinality(ToFill) <= playlists.empty

Inv ==
    /\ TypeOK
    /\ RowsAgree
    /\ GrantsAreNew
    /\ RotatedOnce
    /\ TokenKept
    /\ DeletionKnows
    /\ DeletedUnlinked
    /\ Counted

=============================================================================
