---------------------------- MODULE StoreReconciler ----------------------------
(***************************************************************************)
(* The store side of the reconciler at the granularity of SQL statements.  *)
(*                                                                         *)
(* API handlers process store webhooks, each in one READ COMMITTED         *)
(* transaction; expiration sweepers close expired rows, a batch per        *)
(* transaction.  A transaction's writes stay in its own record until it    *)
(* commits, and Commit installs them at once.  Its locks are read off its  *)
(* program counter:                                                        *)
(*   - the unique key of store_events, from the insert on: a second insert *)
(*     of the same event_id waits for the first to end;                    *)
(*   - the per-user advisory lock, from the read of the entitlement on;    *)
(*   - the row lock, from the upsert on.  INSERT .. ON CONFLICT DO UPDATE  *)
(*     locks the row even where its WHERE clause then rejects the update.  *)
(* The sweep takes row locks and no advisory lock.                         *)
(*                                                                         *)
(* Any transaction may fail at any point before it commits, and the answer *)
(* to a delivery may be lost after it; the provider sends again until it   *)
(* has seen a 202, and may send again after that.                          *)
(***************************************************************************)
EXTENDS Entitlements, FiniteSets

CONSTANTS
    Payloads,     \* the webhook payloads the provider may send
    Handlers,     \* concurrent API request handlers
    Sweepers,     \* concurrent expiration workers
    BatchLimit,   \* rows an expiration batch may claim
    Skew,         \* how far ahead of the server an event's time may be; the
                  \* code does not check it, the store's clock bounds it
    StartClock,   \* the time at which the database is empty
    MaxClock      \* bound on the clock

ASSUME PayloadAssumption ==
    /\ Payloads \subseteq [id : Nat, user : Users, type : STRING, time : Times]
    /\ \A p, q \in Payloads : p.id = q.id => p = q
    /\ NULL \notin Payloads
    /\ StartClock \in Nat
    /\ Skew \in Nat

VARIABLES
    clock,          \* wall-clock time
    rows,           \* user_entitlements: user -> STORE row, or NULL
    storeEvents,    \* store_events
    processed,      \* ids in processed_events for source STORE
    audit,          \* audit_logs: user -> rows in the order of their commit
    notifications,  \* notifications
    tx,             \* handler -> the webhook it is processing
    sweep,          \* sweeper -> the batch it is processing
    acked           \* payloads the provider has seen a 202 for

tables == <<rows, storeEvents, processed, audit, notifications>>
vars   == <<clock, rows, storeEvents, processed, audit, notifications,
            tx, sweep, acked>>

-------------------------------------------------------------------------------
(* Records *)

IdleTx    == [pc |-> "idle", event |-> NULL, active |-> FALSE,
              now |-> 0, prev |-> NULL]
IdleSweep == [pc |-> "idle", now |-> 0, batch |-> {}]

\* One audit_logs row: the transition, its trigger (NULL for the sweep) and
\* created_at, which is NOW(), the start of the writing transaction.
AuditEntry(from, to, trigger, now) ==
    [from |-> StateOf(from), to |-> StateOf(to), trigger |-> trigger, at |-> now]

Init == /\ clock         = StartClock
        /\ rows          = [u \in Users |-> NULL]
        /\ storeEvents   = {}
        /\ processed     = {}
        /\ audit         = [u \in Users |-> <<>>]
        /\ notifications = {}
        /\ tx            = [h \in Handlers |-> IdleTx]
        /\ sweep         = [s \in Sweepers |-> IdleSweep]
        /\ acked         = {}

-------------------------------------------------------------------------------
(* Locks *)

HoldsKey == {"inserted", "read", "skipped", "rejected", "written"}
HoldsUser == {"read", "skipped", "rejected", "written"}
HoldsRow == {"rejected", "written"}

Recorded(event) == \E r \in storeEvents : r.id = event.id

KeyLocked(event) ==
    \E h \in Handlers : tx[h].pc \in HoldsKey /\ tx[h].event.id = event.id

\* Variant without the advisory lock.
NeverLocked(user) == FALSE

UserLocked(user) ==
    \E h \in Handlers : tx[h].pc \in HoldsUser /\ tx[h].event.user = user

\* Variant in which an upsert leaves its row unlocked until the commit.
SweptOnly(user) == \E s \in Sweepers : user \in sweep[s].batch

RowLocked(user) ==
    \/ \E h \in Handlers : tx[h].pc \in HoldsRow /\ tx[h].event.user = user
    \/ \E s \in Sweepers : user \in sweep[s].batch

-------------------------------------------------------------------------------
(* The store webhook *)

At(h, pc) == tx[h].pc = pc

\* Validation and computeStateTransition: whether the event grants access is
\* decided against the wall clock on receipt, before the transaction begins.
ReceiveWebhook(h, event) ==
    /\ At(h, "idle")
    /\ event.time <= clock + Skew
    /\ Valid(event)
    /\ tx' = [tx EXCEPT ![h] = [pc |-> "received", event |-> event,
                                active |-> GrantsAccess(event, clock),
                                now |-> clock, prev |-> NULL]]
    /\ UNCHANGED <<clock, tables, sweep, acked>>

\* BEGIN, which may come later: it may first have to connect.  NOW() is
\* this instant for every statement of the transaction.
BeginTx(h) ==
    /\ At(h, "received")
    /\ tx' = [tx EXCEPT ![h].pc = "begun", ![h].now = clock]
    /\ UNCHANGED <<clock, tables, sweep, acked>>

\* Variant that records the event in a transaction of its own.
InsertOutsideTx(h) ==
    /\ At(h, "begun")
    /\ ~KeyLocked(tx[h].event)
    /\ ~Recorded(tx[h].event)
    /\ storeEvents' = storeEvents \cup {tx[h].event}
    /\ tx' = [tx EXCEPT ![h].pc = "inserted"]
    /\ UNCHANGED <<clock, rows, processed, audit, notifications, sweep, acked>>

InsertStoreEvent(h) ==
    /\ At(h, "begun")
    /\ ~KeyLocked(tx[h].event)
    /\ ~Recorded(tx[h].event)
    /\ tx' = [tx EXCEPT ![h].pc = "inserted"]
    /\ UNCHANGED <<clock, tables, sweep, acked>>

\* Variant that answers a duplicate with an error.
RefuseDuplicate(h) ==
    /\ At(h, "begun")
    /\ Recorded(tx[h].event)
    /\ tx' = [tx EXCEPT ![h] = IdleTx]
    /\ UNCHANGED <<clock, tables, sweep, acked>>

\* The insert found the event: nothing is written and the answer is 202.
AnswerDuplicate(h) ==
    /\ At(h, "begun")
    /\ Recorded(tx[h].event)
    /\ tx' = [tx EXCEPT ![h] = IdleTx]
    /\ acked' \in {acked, acked \cup {tx[h].event}}
    /\ UNCHANGED <<clock, tables, sweep>>

\* The advisory lock, the plain SELECT under it and the early return for an
\* event that is not newer than the row it read.
LockAndRead(h) ==
    LET event == tx[h].event
        row   == rows[event.user]
    IN  /\ At(h, "inserted")
        /\ ~UserLocked(event.user)
        /\ tx' = [tx EXCEPT ![h].prev = row,
                            ![h].pc = IF Newer(row, event.time) THEN "read"
                                                                ELSE "skipped"]
        /\ UNCHANGED <<clock, tables, sweep, acked>>

\* Variant without the WHERE clause, relying on the early return alone.
UpsertUnconditionally(h) ==
    /\ At(h, "read")
    /\ ~RowLocked(tx[h].event.user)
    /\ tx' = [tx EXCEPT ![h].pc = "written"]
    /\ UNCHANGED <<clock, tables, sweep, acked>>

\* INSERT .. ON CONFLICT DO UPDATE .. WHERE: waits for the row lock, then
\* evaluates WHERE on the row as it is by then, which a sweep may have changed
\* since the SELECT.
Upsert(h) ==
    LET event == tx[h].event
    IN  /\ At(h, "read")
        /\ ~RowLocked(event.user)
        /\ tx' = [tx EXCEPT ![h].pc = IF Newer(rows[event.user], event.time)
                                      THEN "written" ELSE "rejected"]
        /\ UNCHANGED <<clock, tables, sweep, acked>>

\* The row that transaction t writes.
Target(t) == RowOf(t.event, t.active)

\* Variant that compares active alone.
ActiveChanges(t) == /\ t.pc = "written"
                    /\ t.prev = NULL \/ t.prev.active # t.active

\* stateChanged compares with the state that was read, which need not be the
\* state that is overwritten.  It gates the audit row and the notification.
Changes(t) == t.pc = "written" /\ StateChanged(t.prev, Target(t))

RowsAfter(t) ==
    IF t.pc = "written" THEN [rows EXCEPT ![t.event.user] = Target(t)] ELSE rows

AuditAfter(t) ==
    IF Changes(t)
    THEN [audit EXCEPT ![t.event.user] =
              Append(@, AuditEntry(t.prev, Target(t), t.event, t.now))]
    ELSE audit

Notice(t) == [user |-> t.event.user, at |-> NoticeTime(Target(t).expires)]

\* Variant that takes a renewal of an active grant for no new grant.
SchedulesFirstGrant(t) ==
    /\ Changes(t)
    /\ t.active
    /\ t.prev = NULL \/ ~t.prev.active

\* Variant that drops a notice whose time has passed by the transaction.
SchedulesAhead(t) == Changes(t) /\ t.active /\ t.now <= Notice(t).at

\* ScheduleNotification: ON CONFLICT DO NOTHING on (user, type, UTC day).
Schedules(t) ==
    /\ Changes(t)
    /\ t.active
    /\ \A n \in notifications : ~ /\ n.user = t.event.user
                                  /\ DayOf(n.at) = DayOf(Notice(t).at)

NotificationsAfter(t) ==
    IF Schedules(t) THEN notifications \cup {Notice(t)} ELSE notifications

\* The writes that follow the upsert, and COMMIT.  The answer may be lost.
Commit(h) ==
    LET t == tx[h]
    IN  /\ t.pc \in {"skipped", "rejected", "written"}
        /\ storeEvents'   = storeEvents \cup {t.event}
        /\ processed'     = processed \cup {t.event.id}
        /\ rows'          = RowsAfter(t)
        /\ audit'         = AuditAfter(t)
        /\ notifications' = NotificationsAfter(t)
        /\ acked'         \in {acked, acked \cup {t.event}}
        /\ tx'            = [tx EXCEPT ![h] = IdleTx]
        /\ UNCHANGED <<clock, sweep>>

\* Any statement failing, the request being cancelled or the process dying:
\* nothing of the transaction remains and the provider is not answered 202.
Rollback(h) ==
    /\ ~At(h, "idle")
    /\ tx' = [tx EXCEPT ![h] = IdleTx]
    /\ UNCHANGED <<clock, tables, sweep, acked>>

-------------------------------------------------------------------------------
(* The expiration sweep *)

\* Variant in which the worker takes the time once, when it starts.
SweepBeginAtStart(s) ==
    /\ sweep[s].pc = "idle"
    /\ sweep' = [sweep EXCEPT ![s].pc = "begun", ![s].now = StartClock]
    /\ UNCHANGED <<clock, tables, tx, acked>>

\* BEGIN: NOW() is this instant for the claim and for every update.
SweepBegin(s) ==
    /\ sweep[s].pc = "idle"
    /\ sweep' = [sweep EXCEPT ![s].pc = "begun", ![s].now = clock]
    /\ UNCHANGED <<clock, tables, tx, acked>>

\* SELECT .. ORDER BY expires_at LIMIT n FOR UPDATE SKIP LOCKED.
SweepClaim(s) ==
    LET due == {u \in Users : Expirable(rows[u], sweep[s].now) /\ ~RowLocked(u)}
    IN  /\ sweep[s].pc = "begun"
        /\ \E batch \in SUBSET due :
              /\ Cardinality(batch) <= BatchLimit
              /\ batch # due => Cardinality(batch) = BatchLimit
              /\ \A u \in batch, v \in due \ batch :
                    rows[u].expires <= rows[v].expires
              /\ sweep' = [sweep EXCEPT ![s].pc = "claimed", ![s].batch = batch]
        /\ UNCHANGED <<clock, tables, tx, acked>>

\* ExpireEntitlement and its audit row for each claimed row that still matches
\* the UPDATE's own WHERE clause, and COMMIT.
SweepCommit(s) ==
    LET done == {u \in sweep[s].batch : Expirable(rows[u], sweep[s].now)}
    IN  /\ sweep[s].pc = "claimed"
        /\ rows' = [u \in Users |->
                      IF u \in done THEN Expired(rows[u]) ELSE rows[u]]
        /\ audit' = [u \in Users |->
                      IF u \in done
                      THEN Append(audit[u], AuditEntry(rows[u], Expired(rows[u]),
                                                       NULL, sweep[s].now))
                      ELSE audit[u]]
        /\ sweep' = [sweep EXCEPT ![s] = IdleSweep]
        /\ UNCHANGED <<clock, storeEvents, processed, notifications, tx, acked>>

\* A batch that claimed nothing ends the same way whether it commits or not.
SweepRollback(s) ==
    /\ sweep[s].pc = "begun" \/ sweep[s].batch # {}
    /\ sweep' = [sweep EXCEPT ![s] = IdleSweep]
    /\ UNCHANGED <<clock, tables, tx, acked>>

-------------------------------------------------------------------------------

Tick == /\ clock < MaxClock
        /\ clock' = clock + 1
        /\ UNCHANGED <<tables, tx, sweep, acked>>

HandlerStep(h) ==
    \/ BeginTx(h)
    \/ InsertStoreEvent(h)
    \/ AnswerDuplicate(h)
    \/ LockAndRead(h)
    \/ Upsert(h)
    \/ Commit(h)

SweepStep(s) == SweepBegin(s) \/ SweepClaim(s) \/ SweepCommit(s)

Next == \/ Tick
        \/ \E h \in Handlers, event \in Payloads : ReceiveWebhook(h, event)
        \/ \E h \in Handlers : HandlerStep(h) \/ Rollback(h)
        \/ \E s \in Sweepers : SweepStep(s) \/ SweepRollback(s)

Spec == Init /\ [][Next]_vars

-------------------------------------------------------------------------------
(* Types *)

Audited == [from    : RowState \cup {NULL},
            to      : RowState \cup {NULL},
            trigger : Payloads \cup {NULL},
            at      : Nat]

Transaction == [pc     : HoldsKey \cup {"idle", "received", "begun"},
                event  : Payloads \cup {NULL},
                active : BOOLEAN,
                now    : Nat,
                prev   : EntitlementRow \cup {NULL}]

Batch == [pc : {"idle", "begun", "claimed"}, now : Nat, batch : SUBSET Users]

\* Every table holds rows of its schema and every transaction is at a point of
\* the code that exists.
TypeOK ==
    /\ clock         \in Nat
    /\ rows          \in [Users -> EntitlementRow \cup {NULL}]
    /\ storeEvents   \in SUBSET Payloads
    /\ processed     \in SUBSET Nat
    /\ audit         \in [Users -> Seq(Audited)]
    /\ notifications \in SUBSET [user : Users, at : Int]
    /\ tx            \in [Handlers -> Transaction]
    /\ sweep         \in [Sweepers -> Batch]
    /\ acked         \in SUBSET Payloads

-------------------------------------------------------------------------------
(* Safety *)

EventsOf(user) == {e \in storeEvents : e.user = user}
NewestOf(user) == {e \in EventsOf(user) :
                      \A f \in EventsOf(user) : f.time <= e.time}

\* An event the provider has been told is accepted is stored, marked processed
\* and taken into account: the user's row is at least as new as the event.
\* (ProcessStoreWebhook writes all of it in one transaction, so that a retry
\* that finds the event stored may be answered 202.)
NoAcceptedEventLost ==
    \A e \in acked :
        /\ e \in storeEvents
        /\ e.id \in processed
        /\ rows[e.user] # NULL
        /\ e.time <= rows[e.user].lastEvent

\* A row that grants access now is the work of an accepted grant of that user
\* which no accepted event is newer than, and ends when that grant ends.
\* (Ordering by event_time_ms, in the early return and in the upsert's WHERE.)
AccessIsEarned ==
    \A u \in Users :
        IsActive(rows[u], clock) =>
            \E e \in NewestOf(u) : /\ e.type \in GrantTypes
                                   /\ rows[u] = RowOf(e, TRUE)

\* A user with a row and no access now is without it for a cause: no accepted
\* event is newer than the row, and the row is the work of an event that takes
\* or withholds access, or of a grant that has ended, be it on its arrival.  (Once the sweep has
\* closed a grant, an event is refused unless it is later than the grant's end.)
AccessIsLostForCause ==
    \A u \in Users :
        rows[u] # NULL /\ ~IsActive(rows[u], clock) =>
            /\ \A f \in EventsOf(u) : f.time <= rows[u].lastEvent
            /\ \E e \in EventsOf(u) :
                  \/ /\ e.type \notin GrantTypes
                     /\ rows[u] = RowOf(e, FALSE)
                  \/ /\ e.type \in GrantTypes
                     /\ MonthLater[e.time] <= clock
                     /\ rows[u] \in {RowOf(e, TRUE), RowOf(e, FALSE),
                                     Expired(RowOf(e, TRUE))}

\* The newest accepted event decides whether the user has access now, whatever
\* order the events arrived in.  Of events with equal times any may decide.
\* (migrations/SCHEMA.md: "Arrival time is explicitly ignored. event_time_ms
\* drives state.")
EventTimeDrivesState ==
    \A u \in Users :
        EventsOf(u) # {} =>
            \E e \in NewestOf(u) :
                IsActive(rows[u], clock) <=> GrantsAccess(e, clock)

\* The last audit row of a user records the state the projection is in, and a
\* user without audit rows has no entitlement row.  (InsertAuditLog, written by
\* whoever changes active or expires_at.)
AuditTipMatchesProjection ==
    \A u \in Users :
        IF audit[u] = <<>>
        THEN rows[u] = NULL
        ELSE audit[u][Len(audit[u])].to = StateOf(rows[u])

\* Each audit row of a user starts from the state the one before it ended in,
\* and changes it.  (README.md: audit rows are written only when active status
\* or expiration changes.)
AuditChain ==
    \A u \in Users : \A i \in DOMAIN audit[u] :
        /\ audit[u][i].from = IF i = 1 THEN NULL ELSE audit[u][i - 1].to
        /\ audit[u][i].from # audit[u][i].to

\* An audit row of the sweep closes the grant that the row before it left, and
\* not before that grant has ended.  (FOR UPDATE SKIP LOCKED, and the WHERE of
\* ExpireEntitlement: no expiration is recorded twice or over a renewal.)
ExpirationExtendsHistory ==
    \A u \in Users : \A i \in DOMAIN audit[u] :
        audit[u][i].trigger = NULL =>
            /\ i > 1
            /\ audit[u][i].from = audit[u][i - 1].to
            /\ audit[u][i].from.active
            /\ audit[u][i].from.expires <= audit[u][i].at

\* Each audit row of a user changes the state, and starts from the one that the
\* row before it ended in, unless that row is an expiration: then it may start
\* from the grant that was expired, and its event is later than that grant's
\* end.  So the log is a chain once expirations that are followed by such a row
\* are dropped.  (upsertEntitlement audits against the row it read, and the sweep
\* may close that row before the upsert.)
HistoryForksAtExpirations ==
    \A u \in Users : \A i \in DOMAIN audit[u] :
        LET this == audit[u][i]
            last == audit[u][i - 1]
        IN  /\ this.from # this.to
            /\ i = 1 => this.from = NULL
            /\ i > 1 => \/ this.from = last.to
                        \/ /\ last.trigger = NULL
                           /\ this.from = last.from
                           /\ this.trigger # NULL
                           /\ last.from.expires < this.trigger.time

\* A user with access that will end has a notice on the UTC day on which the
\* instant 24 hours before the end falls; it may be that of another grant, which
\* ends on the same day, at another hour.  (ScheduleNotification, only reached
\* when the upsert changes the state; ON CONFLICT on user, type and UTC day.)
CurrentGrantHasNotice ==
    \A u \in Users :
        IsActive(rows[u], clock) =>
            \E n \in notifications :
                /\ n.user = u
                /\ DayOf(n.at) = DayOf(NoticeTime(rows[u].expires))

\* created_at orders a user's audit rows as the transitions happened.
\* (sql/queries/README.md: GetAuditLogsByUser generates chronologically
\* reversed user timelines, by ORDER BY created_at.)
TimelineIsChronological ==
    \A u \in Users : \A i, j \in DOMAIN audit[u] :
        i < j => audit[u][i].at <= audit[u][j].at

\* A write to a user's row never makes it older, whoever wrote it before: the
\* sweep, which takes no advisory lock, included.  (WHERE last_event_time <
\* EXCLUDED.last_event_time, evaluated under the row lock.)
LastEventTimeAdvances ==
    [][\A u \in Users :
          rows'[u] # rows[u] =>
              /\ rows'[u] # NULL
              /\ Newer(rows[u], rows'[u].lastEvent)]_vars

-------------------------------------------------------------------------------
(* The ledger this implements *)

Ledger == INSTANCE EntitlementLedger WITH recorded <- storeEvents

\* Seen through the tables alone, transactions with stale reads, retries and
\* sweeps behave as if each event and each batch took effect at one instant.
ImplementsLedger == Ledger!Spec

-------------------------------------------------------------------------------
(* Liveness *)

\* An attempt of e ends with a 202 that arrives.
Answered(e) == \E h \in Handlers : /\ tx[h].event = e
                                   /\ HandlerStep(h)
                                   /\ e \notin acked /\ e \in acked'

\* Handlers and sweepers run, row and advisory locks are granted in order, the
\* provider sends an event again until it is acknowledged, the handlers do not
\* prefer other requests forever, and not every 202 of an event is lost.
Fairness ==
    /\ \A h \in Handlers : WF_vars(HandlerStep(h))
    /\ \A s \in Sweepers : WF_vars(SweepStep(s))
    /\ \A e \in {p \in Payloads : Valid(p)} :
          /\ SF_vars(\E h \in Handlers : e \notin acked /\ ReceiveWebhook(h, e))
          /\ SF_vars(Answered(e))

\* At some time the database stops failing transactions.  The answer to an event
\* it has recorded may still fail any number of times.
FailuresCease ==
    <>[][/\ \A h \in Handlers :
               Rollback(h) => At(h, "begun") /\ Recorded(tx[h].event)
         /\ \A s \in Sweepers : ~SweepRollback(s)]_vars

FairSpec == Spec /\ Fairness /\ FailuresCease

\* Every valid event that has happened is acknowledged in the end; by
\* NoAcceptedEventLost it has been applied by then.  (At-least-once delivery
\* meets the rollback of a failed attempt and the 202 for a duplicate.)
EveryEventAcknowledged ==
    \A e \in Payloads : Valid(e) /\ e.time <= clock ~> e \in acked

\* An expired grant does not stay open: batches, oldest first, get to every
\* row in spite of the rows they skip.  (StartExpirationReconciliation.)
ExpiredIsSwept ==
    \A u \in Users : Expirable(rows[u], clock) ~> ~Expirable(rows[u], clock)
===============================================================================
