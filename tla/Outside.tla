------------------------------ MODULE Outside -------------------------------
(***************************************************************************)
(* The two components that call other services: a linked Spotify account,  *)
(* and a shared search client.  They share no state, so one moves while    *)
(* the other has yet to begin.                                             *)
(***************************************************************************)
EXTENDS Naturals, FiniteSets

CONSTANTS Grant, Request, LongAgo, Thread, Query, None,
          Attempts, MaxTurn, MaxAsked, Interval, Ttl

ASSUME OutsideAssumption ==
    /\ LongAgo \in Grant
    /\ None \notin Grant \cup Thread
    /\ IsFiniteSet(Request)
    /\ Attempts \in Nat
    /\ MaxTurn \in Nat \ {0}
    /\ Interval \in Nat

VARIABLES account, link, newest, invited, request, lost, late, playlists,
          since, lock, cache, lookup

Accounts == INSTANCE Spotify
Clients  == INSTANCE Search

accountVars == <<account, link, newest, invited, request, lost, late, playlists>>
clientVars  == <<since, lock, cache, lookup>>
outsideVars == <<accountVars, clientVars>>

OutsideInit == Accounts!Init /\ Clients!Init

OutsideNext ==
    \/ Clients!Init /\ Accounts!Next /\ UNCHANGED clientVars
    \/ Accounts!Init /\ Clients!Next /\ UNCHANGED accountVars

OutsideSpec == OutsideInit /\ [][OutsideNext]_outsideVars

\* See Spotify: no overlap of refreshes, new links and deletions loses the
\* newest refresh token.
RefreshTokenKept == Accounts!RefreshTokenKept

\* See Spotify: nothing but a callback links a deleted account.
DeletedUnlinked == Accounts!DeletedUnlinked

\* See Spotify: every 201 has its tracks, no request fills two playlists, and none
\* makes two but for a server error after the first.
PlaylistsAccounted == Accounts!PlaylistsAccounted

\* See Spotify: what create_user_playlist says, that no request makes two.
MadeOnce == Accounts!MadeOnce

\* See Search: _throttle lets calls go at least Interval apart.
Spaced == Clients!Spaced

=============================================================================
