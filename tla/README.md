# A TLA+ development of Musical Memories

Musical Memories is a shared journal: people write entries about songs, keep
them in workspaces, invite each other, attach photos, comment, and generate
playlists. The backend is a FastAPI application over PostgreSQL and an object
store; the frontend is a React application with an offline queue in IndexedDB.

This directory holds TLA+ models of the parts of it where what is hard is not a
single call but several at once: requests that overlap, transactions that lose
a race, two stores without a common transaction, a service that answers late, a
script that is stopped half-way, a browser tab that is closed. Each model is
checked by TLC on a small instance; the safety of all of them is also proved by
TLAPS, for any number of users, workspaces, entries, files, threads and requests.

    tlc -config Membership.cfg MCMembership.tla      # a few seconds to three minutes each
    tlapm Membership_proofs.tla                      # the proofs, a few minutes each

The other proofs are in `Invites_proofs`, `Photos_proofs`, `Account_proofs`,
`Journal_proofs`, `Drafts_proofs`, `Outside_proofs` (of `Spotify` and `Search`) and
`Jobs_proofs` (of `Backup`, `Reminders` and `Migration`).

`PROJECT.json` maps every definition to the lines it stands for, and lists the
runs, the mutants that show each property can fail, the hazards and the
findings. A mutant is a definition with a plausible bug. It stands right before
the definition it replaces, is called `Mutant...` or says `MUTANT of`, and no
specification uses it.

## 1. The system

### 1.1 How it executes

Handlers are plain `def` functions, so FastAPI runs each in a worker thread
with a database session of its own (`database.py`, `get_db`). The session has
`autoflush=False`; PostgreSQL runs at its default, READ COMMITTED. All models of
the backend rest on the following reading of a handler:

 * It is a sequence of SELECTs followed by one flush and commit. Each SELECT
   sees what was committed when it ran. Nothing is locked unless the code says
   `with_for_update()`, which it does once, in `transfer_ownership`.
 * `get_current_user` checks the token, `deleted_at` and `is_active` when the
   request arrives, not again.
 * The flush sends an UPDATE by primary key, and only for attributes whose value
   changed in the session. An UPDATE that matches no row raises
   `StaleDataError`, a DELETE that matches none only warns.
 * `db.delete(workspace)` loads the relationship collections and deletes what it
   loaded. Foreign keys have no ON DELETE (except `notifications`), so a row
   that was committed after the load makes the flush fail.
 * Any exception rolls the whole session back. What was done outside the
   database, in the object store or at Spotify, stays done.

So a model has one action per SELECT and one for the flush with its commit. Two
actions of one handler are merged only when the code between them reads and
writes nothing shared. Two commits that others make beside the requests stand
without the read before them, because it takes nothing away: `GrantAdmin` in
`Account` may reach any row there is, since a row that exists was live at some
time and the script may have read it then; `SetVisibility` in `Journal` writes
either value at any time, whatever the owner's request had read.

### 1.2 Components

| Component | State | Operations | What makes it hard | What makes it correct |
|---|---|---|---|---|
| Workspace membership (`routers/workspaces.py`, `invites.py`, `account.py`) | `workspaces`, `workspace_memberships`, `users.deleted_at` | create, join, transfer, change role, remove, delete workspace, delete account | unlocked check-then-act, cascades loaded before they are executed | one owner, no membership without consent, nothing of others deleted |
| Invites (`workspaces.py`, `invites.py`, `users.py`) | `workspace_invites` | create, revoke, accept, apply at registration, expire | three tests of validity and a late commit; two commits in `register` | used up only by joining; dead invites admit nobody |
| Photos (`entries.py`, `storage.py`) | `entry_images`, stored objects | upload with an entry, add, delete entry / workspace / account | two stores, no common transaction | no row without its object; leaks only after a failure |
| Offline drafts (`useOfflineDrafts.ts`, `offlineDrafts.ts`) | an IndexedDB store | add, sync pass, mark, delete | passes overlap, answers get lost, tabs close | never dropped; submitted in the end |
| Accounts and tokens (`account.py`, `users.py`, `sessions.py`, `auth.py`) | `users`, `email_verification_tokens`, `password_reset_tokens` | register, log in, request / confirm a reset, resend / confirm a verification, delete | `used_at` is read in one statement and set in another; a link is made while its account is deleted | a link works once, and only the last one; nothing leads back into a deleted account |
| Google sign-in (`google_auth.py`, `google_oauth.py`) | `users.google_sub` | start, callback: log in, link or create | found by one read, linked by a later write; two first sign-ins at once | one account per Google identity, none with an unproven address |
| Admin (`admin.py`, `scripts/grant_admin.py`) | `users.is_active`, `is_admin` | activate, deactivate, grant, list | a request in flight outlives its account's deactivation; admins act on each other | admins do not lock themselves out |
| Entries, visibility, links (`entries.py`, `sharing.py`, `workspaces.py`) | `journal_entries`, co-authors, `share_token` | create, edit, delete, list, show, share, unshare | one rule written twice; stale read-modify-write; a link made twice | both forms of the rule agree; a link lasts until withdrawn |
| Comments, notifications (`comments.py`, `notifications.py`) | `comments`, `notifications` | comment, reply, delete, list, mark read | a reply to what is being deleted; several inserts per comment | threads stay whole; a comment comes with its notifications |
| Tags, recap (`entries.py`, `workspaces.py`) | `tags`, `entry_tags`, `workspace_recaps` | find or create a tag or a recap, yearly counts | two requests create the same name | the loser takes the winner's row and loses nothing else |
| Spotify (`spotify.py`, `spotify_oauth.py`, `spotify_retry.py`, `spotify_client.py`, `playlist_generator.py`) | `spotify_tokens` (encrypted); a cache and a throttle in memory | connect, callback, refresh, search, list, create and generate playlists | Spotify changes before the row does; a signed state lasts ten minutes, whatever happens to the account | no refresh token lost to a race, a filled playlist behind every 201, calls spaced |
| Place search (`nominatim_client.py`, `places.py`) | a throttle and a cache in memory | search, reverse | threads meet at the throttle | at most one call a second |
| Backups (`scripts/backup_database.py`, `restore_database.py`) | backups in object storage or on disk, `backup_runs` | dump, save, sweep, record; restore the latest | runs overlap; each step can fail after the one before it succeeded | what is recorded can be restored until its retention is over |
| Reminders (`scripts/send_on_this_day_reminders.py`) | `notifications` dated today | per user: check, commit a notification, mail | restarts, two runs at once, midnight during a run | one reminder a day |
| Upload migration (`scripts/migrate_uploads_to_object_storage.py`) | local files, objects, a manifest file | copy what the manifest does not name | stopped and rerun while photos come and go | what the manifest names is in the bucket |
| HTTP edge (`main.py`, `rate_limit.py`, `email.py`, `crypto.py`) | rate counters | limit, send, encrypt | | library code, configuration |
| Web client views (`frontend/src`) | component state, tokens in the browser | render, call the API | an answer that arrives after the next question | the view belongs to the latest selection |
| Schemas, migrations | | | | declarative |

Components interact through the database almost everywhere. Membership is read
by every other component's permission check; deleting a workspace or an account
cascades into invites, entries, photos and comments; photos and Spotify also
reach outside; the offline queue calls `POST /workspaces/{id}/entries`, the same
endpoint that `Photos` models from the server's side. The scripts run beside the
application, on its tables and its storage.

## 2. What is modelled

### 2.1 Membership

`role[w][u]` is the `workspace_memberships` table, `live` the `workspaces` table,
`used` the ids that were ever given out, `deleted` the accounts with
`deleted_at`. `req[r]` is one worker thread: which statement of which handler it
is about to run (`pc`), the arguments, and what its session has read. Every
operation on membership in the code is there, from `create_workspace` to
`delete_account`, each as its sequence of reads and its commit:

| Handler | Actions |
|---|---|
| `create_workspace` | `CreateCommit` |
| `accept_invite`, the membership part | `JoinCheck`, `JoinCommit` |
| `transfer_ownership` | `TransferLock`, `TransferTarget`, `TransferCommit` |
| `update_member_role` | `RoleCheck`, `RoleRead`, `RoleCommit` |
| `remove_member` | `RemoveCheck`, `RemoveRead`, `RemoveCommit` |
| `delete_workspace` | `DropCheck`, `DropLoad`, `DropCommit` |
| `delete_account` | `LeaveOwned`, `LeaveCount`, `LeaveCascade`, `LeaveRest`, `LeaveCommit` |
| any | `Receive` (authentication), `Abort` (crash, refused statement) |

Three details carry the weight. `TransferCommit` waits for the lock only another
transfer can hold. `Forget` is what addressing a row by primary key comes to:
once a row is deleted, a session that loaded it can no longer touch whatever row
later takes its place for the same pair. And `CommitDeletes` fails as a whole if
the workspace has a member that the cascade did not load (`Dangling`).

The users are registered before the behaviour starts, and what joins is a valid
invite: its life is the next module.

### 2.2 Invites

One workspace, its invites and the people they are addressed to. A row is a
record of its addressee and of the three things that make it unusable;
`Usable` is `_get_valid_invite_or_error`. `create_invite` reads twice
(`CreateMember`, `CreatePending`) before its INSERT, `accept_invite` reads the
invite and the membership before it inserts one and stamps the other
(`AcceptRead`, `AcceptCheck`, `AcceptCommit`), and `register` commits the account
first and applies the invite in a second transaction (`RegisterCommit`,
`ApplyRead`, `ApplyCommit`). `RemoveMember`, `DropWorkspace` and `Expire` are
the commits of other handlers, and the clock, as this table sees them.
The people are those other than the workspace's creator, who needs no invite.
Deleting an account, which frees its address for another account, is left to
`Membership`; here accounts stay.

### 2.3 Photos and Album

`row` is the `entry_images` table and `files` the object store; `named` keeps the
generated names distinct. An upload stores each file before it looks at the next
(`SaveImage`, `RejectImage`) and commits the rows last; a deletion loads the
entries (`Load`), then the images of one entry at a time (`Collect`), commits,
and sweeps the store file by file (`SweepFile`, `SweepFails`). `create_entry`
flushes its entry before it stores anything, which keeps the workspace row from
being deleted meanwhile (`HoldsWorkspace`).

`Album` is the abstract specification: entries, and for each the photos that can
be loaded. It has no files, rows or requests. `Photos` implements it under
`entries <- Live`, `album[e] <- PhotosOf(e) \cap files`: the photos of a batch
become readable in one step, and no photo of a live entry ever goes missing,
although the bytes are written and deleted one by one by requests that overlap.

### 2.4 Drafts

`draft[d]` is the status of a draft in IndexedDB, `pass[p]` one run of `syncNow`,
`made[d]` how often the server made an entry of it. A pass lists the queue once
(`Begin`), then for each listed draft marks it, submits, and deletes it or marks
it failed. Between any two awaits another pass may run. `ClosePage` ends a pass
anywhere, and so does an IndexedDB error outside the `try`.

### 2.5 Account and Links

`user` is the `users` table, `verification` and `reset` are the two token tables,
`session` says for whom somebody holds an access token (they are checked against
the row at every request, so nothing more is needed of them), `expired` are the
links whose time is over. User name and e-mail address behave alike, both unique
and both scrubbed, and are one `Address`. `raced` and `uses` are history.

| Handler | Actions |
|---|---|
| `register`, and the mail it sends | `Register`, `SendRead`, `SendCommit` |
| `resend_verification_email`, `confirm_email_verification` | `Resend`, `SendCommit`; `VerifyRead`, `VerifyCommit` |
| `request_password_reset`, `confirm_password_reset` | `ResetRead`, `ResetCommit`; `ConfirmRead`, `ConfirmCommit` |
| `login`; Google's `callback` | `Login`; `GoogleReturning`, `GoogleUnknownSub`, `GoogleEmail`, `GoogleLink`, `GoogleCreate` |
| `delete_account` | `DeleteRead`, `DeleteCommit` |
| `deactivate_user`, `reactivate_user`, `grant_admin.py` | `Deactivate`, `Reactivate`, `SetActive`, `GrantAdmin` |
| any | `Abort`, `Expire` |

What carries the weight is what a commit does to rows that changed since they
were read: `SendCommit` inserts only if it read no row and updates only the row
it read; `VerifyCommit` and `DeleteCommit` delete by primary key; `SetActive`
writes nothing if the value it read is the value asked for; `GoogleLink` writes
to the row it found, whatever became of it.

`Links` is the abstract specification of a mailed link: handed out once, it
works until it is used, replaced, expired or withdrawn, and never again. It knows
nothing of users, tables or requests. `Account` implements it for both kinds of
link at once (`LinksSpec`), under `live <- LiveLinks \ expired`.

### 2.6 Journal

One workspace: `entry` with its co-authors and tags, `comment`, `inbox` (the
notifications comments cause), `named` (the rows of `tags` and the recap's),
`token` (the share links) and `given` (links an answer has handed out). `role`
and `public` change at any moment (`SetRole`, `SetVisibility`) as `Membership`
and `update_workspace_visibility` change them, and no request notices that was let
in before. An entry's text, date, place and revision log are left out, except
that an `EntryEditEvent` inserted during a deletion makes it fail (`late`).

The visibility rule is in it twice, as in the code: `CanView` is `_can_view`, one
entry at a time, `Listed` is `_apply_visibility`, the filter of the list.
`update_entry` writes the difference between the payload and what it read
(`Fits`, `Merged`). `_resolve_tags` inserts the names it did not find one by one,
each in a savepoint; an INSERT waits for another session's uncommitted row of
the same name (`hold`, `wait`), two that wait for each other lose one to the
database (`DeadlockVictim`), and a loser takes the winner's row. Deletions delete
what they loaded, and foreign keys refuse the rest (`DropCommit`,
`UncommentCommit`).

### 2.7 Spotify and Search

`Spotify` is one account: its row of `spotify_tokens` (`link`), the newest refresh
token Spotify has drawn for each grant (`newest`), and requests that link,
refresh, list, create and delete. Every call to Spotify is an action of its own,
before the commit that stores its outcome: Spotify may rotate the refresh token
(`Refresh`), and the answer may get lost (`RefreshFails`, `Abort`). A commit
updates the columns whose value differs from what was read (`Stored`,
`LinkCommit`). The callback trusts a signed state, which lasts ten minutes and
outlives the account.

`Create` and `Add` are the two calls behind a new playlist with what
`call_with_retry` does after each `Try`. What reaches it is up to spotipy, pinned
to 2.24.0 (`requirements.txt:3`) and not in the repository: its session hands
429, 500, 502, 503 and 504 to urllib3 to replay; with `status_retries=0`
(`spotify_oauth.py:219`) that ends at the first, requests raises a `RetryError`,
and spotipy turns it into a `SpotifyException` with `http_status=429`, "Max
Retries". So `Replayed` holds for a 429 and for each of those server errors,
after which Spotify may or may not have done the work (`5xx_done`). Any other
failure is raised as what it is and ends the request. A playlist made by a try
that is replayed stays on the account, empty; tracks added by one are added
again. `playlists` counts what was asked for, answered with a 201 (`ok`), made and
filled (`full`, `empty`), and made under a server error (`again`); `filled` tells a
replayed `Add` that it fills nothing more. Both are history, but that `MaxAsked`
bounds `asked`.

`Search` is a client shared by worker threads: `_throttle` computes and sleeps its
wait with the lock held (`Acquire`, `Release`), an answer is cached for `Ttl`
ticks or until it is pushed out, what is reported as a 429 is replayed past the
throttle.
`nominatim_client.py` is the same with one attempt. `generate_playlist` looks its
queries up one after the other (`wanted`).

### 2.8 Backup, Reminders, Migration

`Backup` runs `run()` step by step: dump, save (in object storage at once, on disk
in two steps: opened and emptied, then written), the list of what is too old,
its deletion one by one, the row of `backup_runs`. `Reminders` goes over the users:
`_already_notified_today`, the commit of a notification dated when it is made,
the mail. Notifications and mails are counted per date of the notification, so
that a run which crosses midnight is seen for what it is.

`Migration` copies what its manifest does not name (`LoadManifest`, `ListFiles`,
`Put`) and rewrites the manifest at the end (`SaveManifest`), while the application
stores and deletes photos on the local disk, or, after a restart with other
settings (`Switch`), in the bucket. `photo[f]` is the life of a name: it is drawn
and its file saved before the row is committed (`Save`, `RowCommit`), and the row's
deletion is committed before the file goes (`RowDeleted`, `Delete`); a script may
list or copy the file at any moment between, and a crash leaves it behind
(`LeftBehind`). Files are there or not. What is in them is not modelled, and one
thing that goes wrong is therefore not seen: `LocalDiskStorage.save` writes in
place (`storage.py:76-79`), so a run that reads a photo at that moment copies and
records a part of it.

In all three a process may stop at any step, and two may overlap: nothing in the
code keeps them apart.

## 3. What is checked

Every run asks a question of its own, at bounds where the interesting cases
occur; each property is also shown to fail on a mutated definition
(`PROJECT.json`, `mutants`).

| Run | Instance | States | Shows |
|---|---|---|---|
| `membership` | 3 users, 1 workspace, 2 requests | 300 k | at most one owner; ownership only by handover; a transfer is all or nothing; nobody joins except by a request of their own; a deleted workspace has no members |
| `membership_ownerless` | 2, 1, 2 | violated | a role change or removal that overlaps a transfer strands the workspace |
| `membership_shared_loss` | 2, 2, 2 | violated | deleting an account can delete a workspace somebody has just joined |
| `invites` | 2 people, 3 invites, 2 requests | 1.4 M | members have used up an invite; an invite is used up only by joining; dead invites admit nobody; pending invites per address are bounded by the overlap; every request can always be answered |
| `photos` | 2 entries, 3 files, 2 requests, batches of 2 | 86 k | every row has its file; leaks only after trouble; `Photos` implements `Album` |
| `drafts` | 2 drafts, 2 passes | small | never dropped; "syncing" is true while pages stay open; exactly once when undisturbed; in the end every draft is submitted |
| `drafts_twice` | 2 drafts, 2 passes | violated | overlapping passes submit a draft twice |
| `drafts_stuck` | 1 draft, 1 pass | violated | a closed tab leaves a draft "syncing" for ever |
| `account` | 2 users, 2 addresses, 2 links, 1 Google identity, 2 requests; `Effort` 4 | 350 k | one reset link at a time, used once; nothing leads back into a deleted account; Google enters only proven addresses; the last admin stays; `Account` implements `Links` |
| `journal` | 2 users, 2 entries, 2 comments, 2 tags, 2 links, 2 requests; `Effort` 4 | 290 k | both visibility rules agree; threads stay whole; a comment comes with its notifications; no new tag is lost; links last |
| `beside` | 3 grants, 2 requests, 2 attempts; 2 threads, 2 queries; 2 processes of each script, 3 ticks, 2 users and 2 days, 2 files | 1.4 M | no refresh token lost to a race; no link brought back; a playlist with its tracks behind every 201; calls spaced; what is recorded can be restored; one reminder a day; the manifest is true |
| `playlists_twice` | as `beside`, 3 attempts | violated | a replayed server error makes a second playlist |

Why the bounds are enough. What goes wrong in a check-then-act goes wrong
between two requests, and two are always in flight, of any two kinds; the
finished ones leave their effects, so the *history* has any length. Three users
are an owner, a target and a third party. One workspace is enough for the
properties of `membership`, because no handler but `delete_account` touches two;
that one is run with two in `membership_shared_loss`. Three invites are two
to one address and one for somebody else; three files are one batch of two and
a single photo. Two drafts make the order of a pass visible. Every property of a
passing run but the liveness of `Drafts` is also proved (section 4), and what is
proved does not depend on bounds.

The bounds of the other runs, each by its name in the `.cfg`:

 * `Effort` in `account` bounds how many links were issued, how many expired, how
   many users are admins, how many have a Google account and how many requests
   are in flight, all together. Four is two overlapping requests about two
   links, or about two admins, or about a link and a Google account.
 * `Effort` in `journal` bounds entries, comments, comments read, links, the
   recap's row, the rows of both tags and requests in flight, all together: two
   overlapping requests about an entry and its comment, two entries, an entry
   and its link, or an entry and the tags of both. Roles and visibility are free.
 * `MaxTurn`, refresh tokens of one grant: an old one, a new one. `Attempts` is two in
   `beside`, one try and one replay, and the code's three in `playlists_twice`.
   `MaxAsked`, playlists asked for, is one: requests that create
   playlists meet only at the refresh before, which listing shares. `Grant` has
   three: the one an old row was made with (`LongAgo`) and two more, of two
   callbacks.
 * `Interval` and `Ttl` are the throttle's and the cache's durations in ticks; an
   answer outlives an interval, as in the code.
 * `Retention`, `Longest` and `LastTick`: a backup is kept for two ticks, a run
   takes at most one, and there is time for one more run after the first expired.
 * `LastDay` is one midnight.

Spotify and search, and likewise the three scripts, share no variable, so the
compositions `Outside` and `Jobs` let one of them move while the others are in
their initial states, and `MCBeside` does the same with the two compositions: a
run visits all behaviours of each component, and no products of them. The proofs
are about each component by itself first (`Accounts!Spec => []RefreshTokenKept`),
where nothing is held back, and about the compositions after that.

Deadlock is checked for `invites`. In the other instances the system may really
stop: all accounts deleted, the workspace gone, the queue empty, all rows, links
or ticks of the instance used up.

### 3.1 Findings

 1. **A workspace can lose its owner** (`membership_ownerless`).
    `transfer_ownership` says the race "needs the same owner racing against
    themselves, so only this one endpoint needs" a lock. The same owner's
    `update_member_role` or `remove_member` is such a race too: it has read the
    member's row, the transfer makes that member the owner, and the UPDATE or
    DELETE by primary key then demotes or removes them. `AtMostOneOwner` still
    holds (and is proved): what fails is *at least* one.
 2. **Deleting an account can take a shared workspace with it**
    (`membership_shared_loss`). The count of other members and the load of the
    cascade are two statements; somebody who joins between them is in the
    cascade.
 3. **A draft can be submitted twice** (`drafts_twice`). The filter on
    "syncing" is evaluated on the list, when neither of two passes has marked
    anything beyond its first draft.
 4. **A draft can stay "syncing" for ever** (`drafts_stuck`). Nothing resets the
    mark after a reload, and every pass skips it.
 5. **One request can make two playlists** (`playlists_twice`). `create_user_playlist`
    sets `status_retries=0` because "a 5xx on the create call can still mean the
    playlist was made - blindly replaying it could leave duplicate playlists",
    and keeps `call_with_retry` because "a 429 means nothing was done"
    (`spotify_oauth.py:215-218`). But with that setting spotipy reports the 5xx as
    a 429, and `call_with_retry` replays it (`spotify_retry.py:99`). What still
    holds, and is proved (`PlaylistsAccounted`): a broken connection is not
    replayed, no request fills two playlists, and a 201 has its tracks.

Met while modelling, and not a run of their own: a 400 from `_save_images` on the
second file leaves the first in storage, although its docstring says files are
checked "before anything is saved" (`entries.py:240-244`; in `Photos` this is
`RejectImage`, and why `NoLeakWithoutTrouble` counts a rejected batch as
trouble). A revoked invite "stops working immediately" (`workspaces.py:433`)
except for an accept that has read it already (why `NoEntryOnDeadInvite` speaks
of invites that were dead when the request *arrived*). `create_invite`'s 409 for
an address with a pending invite is an unlocked check (why `PendingBounded`
bounds by the number of requests and not by one). And a registration whose
invite cannot be applied is logged, by its comment (`users.py:57-59`), but an
`IntegrityError` at its commit is not caught: the account exists and the answer
is a 500.

From the other models:

 * *Accounts.* Two reset requests for one account that overlap do not see each
   other's link and leave two that work, where `account.py:126` wants "only the
   most recently requested link" to (why `OneResetLink` excepts them). Two
   overlapping confirmations of one link both change the password. Two admins
   who deactivate each other at once both succeed, and nobody is left to
   reactivate anybody (why `LastAdminStays` excepts an admin who was
   deactivated since they were let in). The scrub leaves `google_sub`: the
   person's next sign-in with Google is refused, not given a new account.
 * *Journal.* Enabling a link "returns the existing token rather than rotating
   it" (`entries.py:625`), but two overlapping calls that both found none make two,
   and the first answer's link may be dead on arrival (the exception in
   `HandedOutLinkLasts`). With `autoflush=False` the notification e-mails of a
   comment go out before its INSERT: a comment that is then refused by a foreign
   key was announced. Tags are inserted in the order of a set, so two entries
   can deadlock on each other's; the `OperationalError` is not caught and the
   loser is answered with a 500. A recap is "an aggregate over content the
   caller can already read" (`workspaces.py:777`), yet its counts include
   private entries. And `disable_workspace_recap_sharing` logs
   `workspace.deleted` (`workspaces.py:842`).
 * *Spotify.* A callback that arrives after the deletion of its account stores
   tokens for it (`spotify.py:132`; the exception in `DeletedUnlinked`). A refresh
   token that was revoked, or replaced meanwhile, raises a `SpotifyOauthError`
   nobody catches. A 429, or a server error reported as one, is replayed past the
   throttle. A playlist whose
   creation is answered and whose tracks are refused stays behind empty.
 * *Scripts.* A retention of 0 sweeps the backup that was just made, and records
   a success; a retention that is no number ends the run without a row in
   `backup_runs`. A manifest torn by a crash makes every later migration fail on
   its JSON until somebody removes it. A reminder run that crosses midnight
   dates its notifications to the new day, so that day's own run passes these
   users over. Two runs at once notify twice, against "never a duplicate
   notification" (`run_on_this_day_reminders_daily.sh:9`).

### 3.2 Fairness

Only `Drafts` has liveness. `Fairness` assumes, for each pass, weak fairness of
its steps: the browser runs every continuation, and a queue that is not empty
gets another pass, because the `online` event or the button comes again.
Strong fairness of `Submit` and `Delete` says that a network that keeps coming
back lets some submission and its answer through; a draft the server refuses
for good (a 4xx) is outside that assumption. Nothing makes a user write a draft
or close a page. `EveryDraftSynced` needs the pages to stay open in the middle of
a pass, and `drafts_stuck` shows why.

The models of the backend and its scripts state no fairness: a handler or a run
may die anywhere, and what happens then is a matter of safety.

## 4. What is proved

Every invariant and action property that a passing run checks, and both
refinements, for every value of the constants. The assumptions on these are
named in the modules that declare them, and all a deployment has:

 * `None` and `Nobody` stand for an absent value and are not one of the values;
   `Recap` is neither an entry nor a tag; `Owner` is a user and `LongAgo` a grant;
   a form has the fields of a form.
 * What counts or measures is a natural number (`MaxBatch`, `Attempts`, `MaxDraft`,
   `Retention`, `Interval`), as are the bounds for TLC (`MaxTurn`, `LastTick`,
   `LastDay`; each may be as large as one likes). A queue has a first draft and a
   grant a first token, so `MaxDraft` and `MaxTurn` are not zero.
 * Where something is counted there is an end to it: `Request` in `Invites` and
   `Outside` and `Sender` in `Jobs` are finite sets, as worker threads and
   processes are. Users, invites, links, entries and files need not be.

| Module | Theorem | Statement |
|---|---|---|
| `Membership_proofs` | `TypeCorrect`, `InvHolds` | `Spec => []TypeOK`, `Spec => []Inv` |
| | `NeverTwoOwners` | `Spec => []AtMostOneOwner` |
| | `NoMembersLeftBehind` | `Spec => []MembersOnlyInLiveWorkspaces` |
| | `HandoverOnly` | `Spec => OwnershipMovesByHandover` |
| | `ConsentOnly` | `Spec => JoiningIsConsensual` |
| | `TransferIsAtomic` | `Spec => TransferNeverStrands` |
| `Invites_proofs` | `TypeCorrect`, `InvHolds` | `Spec => []TypeOK`, `Spec => []Inv` |
| | `OnlyTheInvited` | `Spec => []MembersAccepted` |
| | `UsedUpByJoining` | `Spec => UsedUpOnlyByJoining` |
| | `DeadInvitesAdmitNobody` | `Spec => NoEntryOnDeadInvite` |
| | `FewPending` | `Spec => []PendingBounded` |
| `Photos_proofs` | `TypeCorrect`, `InvHolds` | `Spec => []TypeOK`, `Spec => []Inv` |
| | `NoPhotoIsMissing` | `Spec => []EveryRowHasItsFile` |
| | `NothingLeaks` | `Spec => []NoLeakWithoutTrouble` |
| | `ImplementsAlbum` | `Spec => AlbumSpec` |
| `Account_proofs` | `TypeCorrect`, `InvHolds` | `Spec => []TypeOK`, `Spec => []Inv` |
| | `OneLink` | `Spec => []OneResetLink` |
| | `UsedOnce` | `Spec => []ResetLinkUsedOnce` |
| | `Deleted` | `Spec => []DeletedIsDeleted` |
| | `GoogleVerified` | `Spec => []GoogleOnlyVerified` |
| | `LastAdminLeaves` | `Spec => LastAdminStays` |
| | `ImplementsLinks` | `Spec => LinksSpec` |
| `Journal_proofs` | `TypeCorrect`, `InvHolds` | `Spec => []TypeOK`, `Spec => []Inv` |
| | `ListAgrees` | `Spec => []ListAgreesWithView` |
| | `ThreadsStayWhole` | `Spec => []ThreadsWhole` |
| | `EveryoneTold` | `Spec => []NobodyMissed` |
| | `TagsExist` | `Spec => []TagsComplete` |
| | `LinksLast` | `Spec => HandedOutLinkLasts` |
| `Drafts_proofs` | `TypeCorrect`, `InvHolds` | `Spec => []TypeOK`, `Spec => []Inv` |
| | `NothingDropped` | `Spec => []NeverDropped` |
| | `SkippedIsInHand` | `Spec => []SyncingIsBeingSynced` |
| | `OneEntryEach` | `Spec => []OnceWhenUndisturbed` |
| `Outside_proofs` | `TokensKept` | `Accounts!Spec => []RefreshTokenKept` |
| | `DeletedStayUnlinked` | `Accounts!Spec => []DeletedUnlinked` |
| | `PlaylistsPaidFor` | `Accounts!Spec => []PlaylistsAccounted` |
| | `CallsAreSpaced` | `Clients!Spec => Spaced` |
| | `OutsideHolds` | `OutsideSpec =>` all four |
| `Jobs_proofs` | `BackupsRestorable` | `Backups!Spec => []Restorable` |
| | `RemindedOnce` | `Memories!Spec => []OncePerDay` |
| | `ManifestsAreTrue` | `Uploads!Spec => []ManifestTrue` |
| | `JobsHold` | `JobsSpec =>` all three |

In each module `Inv` is an inductive strengthening, the lemmas preserve it
action by action, and the action properties follow from it. Each `Inv` was an
invariant of a run before it was proved.

**Membership.** `AtMostOneOwner` is not inductive. A transfer promotes its target
long after it checked that its caller is the owner, so one needs that the caller
*still* is: `LockedRowIsOwner`. That is stable because every commit that could
demote or delete the caller's row waits for the lock, and because two transfers
never hold the same one: `LocksExclusive`. A role change does not wait if it has
nothing to write; and it writes only a granted role, never "owner". Last,
`SeenRowExists`: a commit that believes its row is there is right, which is what
`Forget` does for primary keys; without it a stale role change would bring back
a removed member. `MembersOnlyInLiveWorkspaces` rests on the foreign key
(`Dangling`), and on ids not being reused (`live \subseteq used`).

**Invites.** What a request that is about to admit somebody knows is old: it has
read a usable invite some steps ago. `Justified` says what of it is still true.
The addressee of an invite never changes while the workspace is there, so the
invite is still theirs; a dead invite stays dead, so one that was dead on arrival
cannot have been read as usable; accounts stay. `Grows` is the one fact about
the tables that all this needs, and every commit has it. `PendingBounded` is a
count: a creation starts only when an address has no pending invite, and then
each creation in flight adds one at most. So pending invites and creations in
flight together are never more than the requests (`CreationsCounted`).

**Photos.** A sweep deletes objects long after it listed them. That none of them
is in a row takes three facts: an upload in flight has objects of its own that no
row names yet (`UploadsAreStored`, `UploadsAreApart`), a deletion's list has none
of these (`ListsAreOld`), and once the deletion has committed no row names what
is on its list (`SweptAreUnreferenced`). For the refinement a deletion must
take whole entries: its list holds photos of the entries it deletes only
(`ListsAreOfDoomed`), and the foreign key sees to it that it holds all of them
(`LeftBehind`). `HoldersKeepOpen` keeps a workspace from going under an entry
that is being created. Every step but two is invisible to an Album's readers;
`UploadCommit` is `CreateEntry` or `AddPhotos`, `DeleteCommit` is
`DeleteEntries`.

`NoLeakWithoutTrouble` speaks of moments at which nothing is in flight; its proof
needs `LooseAreOwed`, which accounts for every object without a row at any
moment.

**Account.** All of it is about what a request still knows when it commits
(`Knows`). The account that `GoogleLink` writes to was verified when it was read,
and no handler takes that back. A reset has seen every unused link of its
user, a deletion every row there is to delete, a confirmation a link that was
not used: each *unless* another request overlapped it in the way `raced`
records. `OneUnusedReset` then counts links that have expired, too, because
expiry must not be what saves the property, and `UsedIsMarked` ties `used_at` to
the changes a link has made. For `Links`, links that work are those the tables
name and time has not overtaken; every commit hands out a new one, withdraws
some, or does not concern them, and a link that is dead stays so because links
are drawn only once (`LinksAreDrawn`).

**Journal.** `ListAgreesWithView` is a matter of one state: where every entry has
an author (`RowsInOrder`), the SQL filter and the Python function come to the
same condition.
`ThreadsWhole` rests on the foreign key of a reply whose parent is being deleted
and on `RowsInOrder`; that the cascade takes a whole thread is an argument about
a closure. `Thread` is therefore the *least* set that has the comment and the
replies to what it has, so that the lemmas about it need no induction.
`TagsComplete` needs to know, of a request that waits for another session's
insert, which names it has and which it still needs (`Knows`, where `Aim` looks
through the waiting to what the request is going to do). A notification can be
missed only if the author of an entry changes, which no handler does.

**Drafts.** `Undisturbed` is what makes one pass at a time safe: a draft with an
entry leaves the queue before its pass looks at the next, and no pass that lists
the queue later can find it. `SyncingIsBeingSynced` and `NeverDropped` are
inductive with `PassesMakeSense`, for passes that overlap, fail and die.

**Spotify and Search.** `RowsAgree` and `GrantsAreNew` say that a grant's tokens
are in one row only, `RotatedOnce` that of the requests that refresh one row a
single one can have been given a newer token. From there `TokenKept` is
inductive: either the row has the newest token, or someone is about to store it,
or the answer was lost. `Counted` counts: who is still to make a playlist
(`ToMake`) has asked for one that is not there yet, who is still to fill one
(`ToFill`) has an empty one, and who has filled one by a try that was replayed
(`Filled`) has yet to answer for it. What is made beyond that is in `again`.
`Sleeps` relates the wait of the thread that holds the lock to the time since the
last call; that nobody else can call meanwhile is the lock.

**Backup, Reminders, Migration.** A sweep deletes names that were old when it
listed them, and they stay so; the backup being made is not among them as long
as no other run shares its name, and `SharedNames` knows which do. In object
storage even that is harmless, because a name is written whole. `Unnotified` says
what a reminder run has learnt from its check when it commits, `Mailing` counts
the mails still to be sent against the notifications they are about. For the
migration names are drawn once (`NamesDrawn`), and what a manifest names is in the
bucket as long as its photo is shown *or saved* (`KeptCopied`): a script may copy and
record a photo before its row is committed. The copy is there before the name
is recorded, and leaves the bucket only after the row is gone.

Only model-checked: `EveryDraftSynced`, which is liveness under fairness, and the
absence of deadlock in `Invites`, which is about ENABLED: both are out of the
prover's reach. The five properties that are violated have counterexamples, not
proofs.

## 5. What is not modelled, and the plan

Not modelled for good:

 * HTTP parsing, Pydantic schemas and Alembic migrations (declarative); JWT,
   bcrypt, Fernet, SMTP, slowapi (libraries); the full-text search triggers (SQL);
   `pg_dump` and `psql`. Deadlocks inside PostgreSQL are the database's to break,
   and appear as `Abort`, or as `DeadlockVictim` where the code provokes them.
 * What is a query and nothing else: searching and paging of entries, the
   recap's statistics, the admin's lists and figures.
 * What touches no state another step reads: `update_comment`'s text, invite
   notifications and e-mails, `--dry-run`, the prompt to the language model and
   the parsing of its answer.
 * What comes before the first read of a table: the state, nonce and PKCE checks
   of the redirects from Google and Spotify. The models begin with what they let
   through.
 * The web client but for its draft queue: it renders, and keeps nothing the
   server relies on.

What could come next:

 1. Abstract specifications for the components that have none: a workspace's
    ownership as `Membership` promises it (a register that is handed over), a
    queue that hands every draft on at least once, a mailbox of comments. Each
    would replace a list of properties by one refinement.
 2. `Membership` and `Invites` composed, so that a join is the acceptance of an
    invite by construction and not by the argument of section 2.1.
 3. A proof that the history variables (`raced`, `uses`, `mishap`, `lost`, `late`,
    `shared`, `twice`, `filled`) constrain nothing: today this is seen by reading, since no
    guard has one of them.
