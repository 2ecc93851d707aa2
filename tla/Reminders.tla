------------------------------ MODULE Reminders -----------------------------
(***************************************************************************)
(* Runs of send_on_this_day_reminders.py.  The sidecar's loop starts one a *)
(* day and one when it restarts, and nothing keeps another away.  A user   *)
(* is one who was not deleted when a run listed the users; what a user has *)
(* added on this day of earlier years is any set of users.                 *)
(***************************************************************************)
EXTENDS Naturals, FiniteSets

CONSTANTS
    Sender,    \* processes that send reminders
    Reader,    \* users
    Nobody,
    LastDay    \* bound on the date

VARIABLES
    day,       \* the UTC date
    notes,     \* how many on_this_day notifications of a date each user has
    mails,     \* how many of those each user was sent a mail about
    sender,    \* what each process is doing
    shared     \* no state of the program: dates two runs at work made one at

reminders == <<day, notes, mails, sender, shared>>

-----------------------------------------------------------------------------

Day == 0..LastDay

\* today is the date at the start of the run, dated that of the row a mail is
\* about to be sent for.
SenderState == [ pc : {"idle", "list", "commit", "mail"}, today : Day,
                 todo : SUBSET Reader, user : Reader \cup {Nobody}, dated : Day ]
NotSending  == [pc |-> "idle", today |-> 0, todo |-> {}, user |-> Nobody, dated |-> 0]

Init ==
    /\ day = 0
    /\ notes = [u \in Reader |-> [d \in Day |-> 0]]
    /\ mails = [u \in Reader |-> [d \in Day |-> 0]]
    /\ sender = [i \in Sender |-> NotSending]
    /\ shared = {}

Sending(i, pc) == sender[i].pc = pc

Send(i, state) == sender' = [sender EXCEPT ![i] = state]

Begin(i) ==
    /\ Sending(i, "idle")
    /\ Send(i, [NotSending EXCEPT !.pc = "list", !.today = day, !.todo = Reader])
    /\ UNCHANGED <<day, notes, mails, shared>>

\* MUTANT of AlreadyNotified: a run does not see what an earlier one did
NeverNotified(u, today) == FALSE

\* _already_notified_today
AlreadyNotified(u, today) == notes[u][today] > 0

\* A user who was notified, or has no memory of this day, is passed over.
Check(i) ==
    /\ Sending(i, "list")
    /\ \E u \in sender[i].todo :
          \/ Send(i, [sender[i] EXCEPT !.todo = @ \ {u}])
          \/ /\ ~AlreadyNotified(u, sender[i].today)
             /\ Send(i, [sender[i] EXCEPT !.pc = "commit", !.user = u, !.todo = @ \ {u}])
    /\ UNCHANGED <<day, notes, mails, shared>>

\* The row is dated when it is made, which may be after midnight.
NotifyCommit(i) ==
    /\ Sending(i, "commit")
    /\ notes' = [notes EXCEPT ![sender[i].user][day] = @ + 1]
    /\ shared' = IF \E j \in Sender \ {i} : ~Sending(j, "idle") THEN shared \cup {day} ELSE shared
    /\ Send(i, [sender[i] EXCEPT !.pc = "mail", !.dated = day])
    /\ UNCHANGED <<day, mails>>

\* send_email; a mail that cannot be sent is passed over.
Mail(i) ==
    /\ Sending(i, "mail")
    /\ \/ mails' = [mails EXCEPT ![sender[i].user][sender[i].dated] = @ + 1]
       \/ UNCHANGED mails
    /\ Send(i, [sender[i] EXCEPT !.pc = "list", !.user = Nobody, !.dated = 0])
    /\ UNCHANGED <<day, notes, shared>>

End(i) ==
    /\ Sending(i, "list")
    /\ sender[i].todo = {}
    /\ Send(i, NotSending)
    /\ UNCHANGED <<day, notes, mails, shared>>

\* The process stops, or the memory was deleted before it could be referenced.
Stop(i) ==
    /\ ~Sending(i, "idle")
    /\ Send(i, NotSending)
    /\ UNCHANGED <<day, notes, mails, shared>>

Midnight ==
    /\ day < LastDay
    /\ day' = day + 1
    /\ UNCHANGED <<notes, mails, sender, shared>>

Next ==
    \/ Midnight
    \/ \E i \in Sender :
          \/ Begin(i) \/ Check(i) \/ NotifyCommit(i) \/ Mail(i) \/ End(i) \/ Stop(i)

Spec == Init /\ [][Next]_reminders

-----------------------------------------------------------------------------

\* One reminder a day, restart the run as often as you like, before midnight or
\* across it, unless two runs are at work at once: the check and the commit are
\* apart.  And nobody is mailed a reminder that is not among the notifications,
\* nor twice for one.
OncePerDay ==
    \A u \in Reader :
        /\ \A d \in Day \ shared : notes[u][d] <= 1
        /\ \A d \in Day : mails[u][d] <= notes[u][d]

-----------------------------------------------------------------------------
(* The inductive invariant.                                                *)

TypeOK ==
    /\ day \in Day
    /\ notes \in [Reader -> [Day -> Nat]]
    /\ mails \in [Reader -> [Day -> Nat]]
    /\ sender \in [Sender -> SenderState]
    /\ shared \subseteq Day
    /\ \A i \in Sender : sender[i].pc \in {"commit", "mail"} => sender[i].user \in Reader

\* The users a run has yet to notify.
Awaits(i, u) == u \in sender[i].todo \/ (Sending(i, "commit") /\ u = sender[i].user)

\* While a run is at work nobody else dates a notification after the day it
\* began, without that day being known as shared; nor one of the very day, once
\* the run has seen that there is none.
Unnotified ==
    \A i \in Sender : ~Sending(i, "idle") =>
        /\ sender[i].today <= day
        /\ Sending(i, "commit") => sender[i].user \notin sender[i].todo
        /\ \A u \in Reader, d \in Day \ shared :
              /\ Awaits(i, u) /\ d > sender[i].today => notes[u][d] = 0
              /\ Sending(i, "commit") /\ u = sender[i].user /\ d = sender[i].today
                    => notes[u][d] = 0

\* The runs about to mail a user about a notification of a date.
Mailing(u, d) == {i \in Sender : /\ Sending(i, "mail")
                                 /\ sender[i].user = u
                                 /\ sender[i].dated = d}

Inv ==
    /\ TypeOK
    /\ Unnotified
    /\ \A u \in Reader, d \in Day :
          /\ d > day => notes[u][d] = 0
          /\ d \notin shared => notes[u][d] <= 1
          /\ mails[u][d] + Cardinality(Mailing(u, d)) <= notes[u][d]

=============================================================================
