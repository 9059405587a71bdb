------------------------------ MODULE Notifications ------------------------------
(***************************************************************************)
(* The notifications table between the webhooks that schedule notices and  *)
(* the senders that claim them.                                            *)
(*                                                                         *)
(* A sender claims a batch of due notices and marks it sent in one         *)
(* transaction; after the commit it has the batch in hand, and returns it. *)
(* A sender that stops in between loses what it has in hand.               *)
(***************************************************************************)
EXTENDS Integers, FiniteSets

CONSTANTS
    NULL,
    Users,
    Senders,       \* concurrent notification workers
    Times,         \* times a notice may be scheduled for
    OneDay,        \* time units in a UTC day
    BatchLimit,    \* notificationBatchSize
    StartClock,
    LastFailure,   \* bound on the time of failures
    MaxClock       \* bound on the clock

Notice == [user : Users, at : Times]

ASSUME NoticeAssumption ==
    /\ Times \subseteq Nat /\ StartClock \in Nat
    /\ OneDay \in Nat \ {0} /\ BatchLimit \in Nat \ {0}
    /\ NULL \notin Nat

VARIABLES
    clock,       \* wall-clock time
    scheduled,   \* notifications: the rows
    sentAt,      \* their sent_at, or NULL
    send,        \* sender -> the batch it is processing
    returned     \* notice -> how many times a sender has returned it

vars == <<clock, scheduled, sentAt, send, returned>>

Sending == [pc : {"idle", "drain", "begun", "locked", "claimed"},
            now : Nat, batch : SUBSET Notice]

IdleSend == [pc |-> "idle", now |-> 0, batch |-> {}]

Init == /\ clock     = StartClock
        /\ scheduled = {}
        /\ sentAt    = [n \in Notice |-> NULL]
        /\ send      = [s \in Senders |-> IdleSend]
        /\ returned  = [n \in Notice |-> 0]

At(s, pc) == send[s].pc = pc

-------------------------------------------------------------------------------
(* Scheduling *)

\* Variant of a unique index on the time itself.
SameTime(m, n) == m = n

\* The unique index on user, type and UTC day; there is one type.
Conflicts(m, n) ==
    m.user = n.user /\ m.at \div OneDay = n.at \div OneDay

\* Variant that takes the day before a second time.
ScheduleDayBefore(notice) ==
    /\ scheduled' = scheduled \cup {[notice EXCEPT !.at = @ - OneDay]}
    /\ UNCHANGED <<clock, sentAt, send, returned>>

\* INSERT .. ON CONFLICT DO NOTHING, when the webhook's transaction commits.
ScheduleNotification(notice) ==
    /\ scheduled' = IF \E n \in scheduled : Conflicts(n, notice)
                    THEN scheduled
                    ELSE scheduled \cup {notice}
    /\ UNCHANGED <<clock, sentAt, send, returned>>

-------------------------------------------------------------------------------
(* Sending *)

\* Variant of a claim that does not lock the rows it selects.
Unlocked(notice) == FALSE

RowLocked(notice) ==
    \E s \in Senders : At(s, "locked") /\ notice \in send[s].batch

\* The ticker fires, or the worker process has just started.
Wake(s) ==
    /\ At(s, "idle")
    /\ send' = [send EXCEPT ![s].pc = "drain"]
    /\ UNCHANGED <<clock, scheduled, sentAt, returned>>

\* BEGIN: NOW() is this instant.
SendBegin(s) ==
    /\ At(s, "drain")
    /\ send' = [send EXCEPT ![s].pc = "begun", ![s].now = clock]
    /\ UNCHANGED <<clock, scheduled, sentAt, returned>>

\* Variant that takes notices strictly after their time.
DueAfter(notice, now) ==
    notice \in scheduled /\ notice.at < now /\ sentAt[notice] = NULL

Due(notice, now) ==
    notice \in scheduled /\ notice.at <= now /\ sentAt[notice] = NULL

\* SELECT .. ORDER BY scheduled_for LIMIT n FOR UPDATE SKIP LOCKED.
SendClaim(s) ==
    LET due == {n \in Notice : Due(n, send[s].now) /\ ~RowLocked(n)}
    IN  /\ At(s, "begun")
        /\ \E batch \in SUBSET due :
              /\ Cardinality(batch) <= BatchLimit
              /\ batch # due => Cardinality(batch) = BatchLimit
              /\ \A m \in batch, n \in due \ batch : m.at <= n.at
              /\ send' = [send EXCEPT ![s].pc = "locked", ![s].batch = batch]
        /\ UNCHANGED <<clock, scheduled, sentAt, returned>>

\* UPDATE .. SET sent_at = NOW() and COMMIT.
SendCommit(s) ==
    /\ At(s, "locked")
    /\ sentAt' = [n \in Notice |-> IF n \in send[s].batch THEN send[s].now
                                   ELSE sentAt[n]]
    /\ send' = [send EXCEPT ![s].pc = "claimed"]
    /\ UNCHANGED <<clock, scheduled, returned>>

\* The batch is returned; a full one is followed by another claim.
SendReturn(s) ==
    /\ At(s, "claimed")
    /\ returned' = [n \in Notice |-> IF n \in send[s].batch THEN returned[n] + 1
                                     ELSE returned[n]]
    /\ send' = [send EXCEPT ![s] =
                  IF Cardinality(send[s].batch) = BatchLimit
                  THEN [IdleSend EXCEPT !.pc = "drain"]
                  ELSE IdleSend]
    /\ UNCHANGED <<clock, scheduled, sentAt>>

\* A failed claim ends the cycle, cancellation and a crash the worker.  What is
\* not committed is rolled back, what is committed stays.
Stop(s) ==
    /\ ~At(s, "idle")
    /\ clock <= LastFailure
    /\ send' = [send EXCEPT ![s] = IdleSend]
    /\ UNCHANGED <<clock, scheduled, sentAt, returned>>

-------------------------------------------------------------------------------

Tick == /\ clock < MaxClock
        /\ clock' = clock + 1
        /\ UNCHANGED <<scheduled, sentAt, send, returned>>

SendStep(s) == Wake(s) \/ SendBegin(s) \/ SendClaim(s) \/ SendCommit(s) \/ SendReturn(s)

Next == \/ Tick
        \/ \E notice \in Notice : ScheduleNotification(notice)
        \/ \E s \in Senders : SendStep(s) \/ Stop(s)

Spec == Init /\ [][Next]_vars

-------------------------------------------------------------------------------
(* Properties *)

\* Types of the table and of the senders' records.  (client.go.)
TypeOK ==
    /\ clock \in Nat
    /\ scheduled \subseteq Notice
    /\ sentAt \in [Notice -> Nat \cup {NULL}]
    /\ send \in [Senders -> Sending]
    /\ returned \in [Notice -> Nat]

\* No notice is dispatched twice, and none that is not marked sent.  ("Claiming
\* marks notifications as sent before returning".)
DispatchedAtMostOnce ==
    \A n \in Notice : /\ returned[n] <= 1
                      /\ returned[n] > 0 => sentAt[n] # NULL

-------------------------------------------------------------------------------
(* The outbox this implements *)

Outbox == INSTANCE NotificationOutbox
          WITH waiting <- {n \in scheduled : sentAt[n] = NULL},
               taken   <- {n \in Notice : sentAt[n] # NULL /\ returned[n] = 0},
               handed  <- {n \in Notice : sentAt[n] # NULL /\ returned[n] = 1}

\* Senders that lock, skip, stop and claim again take each notice from the table
\* in one instant, not before its time, and hand it over at most once; however
\* many webhooks announce it, a user has one notice per UTC day.
\* (ClaimDueNotifications; the unique index uq_notifications_user_type_day.)
ImplementsOutbox == Outbox!Spec

-------------------------------------------------------------------------------
(* Liveness *)

\* A notice that is due gets dispatched, though senders skip each other's rows and
\* stop; only one claimed while senders could still stop may be lost.
\* (SendDueNotifications in a loop.)
DueIsDispatched ==
    \A n \in Notice :
        n \in scheduled /\ n.at <= clock
        ~> \/ returned[n] = 1
           \/ sentAt[n] # NULL /\ sentAt[n] <= LastFailure

\* Senders run and their tickers fire, and the clock goes on.
FairSpec == /\ Spec
            /\ WF_vars(Tick)
            /\ \A s \in Senders : WF_vars(SendStep(s))
===============================================================================
