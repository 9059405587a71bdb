------------------------- MODULE StoreReconcilerProofs -------------------------
(***************************************************************************)
(* Theorems about StoreReconciler, for every value of its constants.       *)
(*                                                                         *)
(* None of the properties is inductive.  IInv adds what each transaction   *)
(* knows at each point: which locks exclude which others, and what a       *)
(* decision taken earlier (newer, not newer, expirable) still says of the  *)
(* row by the time it commits.                                             *)
(***************************************************************************)
EXTENDS StoreReconciler, TLAPS

\* A busy handler works on a valid payload, which it received at some time.
TxSound ==
    \A h \in Handlers : tx[h].pc # "idle" =>
        /\ tx[h].event \in Payloads
        /\ Valid(tx[h].event)
        /\ \E received \in 0..clock :
              tx[h].active = GrantsAccess(tx[h].event, received)

\* Two handlers past the insert hold different events; past the advisory lock,
\* different users.
HandlersExclusive ==
    \A g, h \in Handlers : g # h =>
        /\ tx[g].pc \in HoldsKey /\ tx[h].pc \in HoldsKey =>
              tx[g].event.id # tx[h].event.id
        /\ tx[g].pc \in HoldsUser /\ tx[h].pc \in HoldsUser =>
              tx[g].event.user # tx[h].event.user

\* A row that an upsert has locked is in no batch, and no row is in two.
RowsExclusive ==
    /\ \A h \in Handlers, s \in Sweepers :
          tx[h].pc \in HoldsRow => tx[h].event.user \notin sweep[s].batch
    /\ \A s, z \in Sweepers : s # z => sweep[s].batch \cap sweep[z].batch = {}

\* The event of an open transaction is not recorded yet, and the judgement the
\* transaction passed on it still holds.
JudgementStands ==
    \A h \in Handlers :
        LET t == tx[h]
            newer == Newer(rows[t.event.user], t.event.time)
        IN  /\ t.pc \in HoldsKey => ~Recorded(t.event)
            /\ t.pc = "written" => newer
            /\ t.pc \in {"skipped", "rejected"} => ~newer

\* The rows of a claimed batch are still expired.
ClaimStands ==
    \A s \in Sweepers :
        /\ sweep[s].now <= clock
        /\ sweep[s].pc # "claimed" => sweep[s].batch = {}
        /\ \A u \in sweep[s].batch : Expirable(rows[u], sweep[s].now)

\* A grant ends after the event it stems from.
ExpiryFollowsEvent ==
    \A u \in Users :
        rows[u] # NULL /\ rows[u].expires # NULL =>
            rows[u].lastEvent < rows[u].expires

\* What is recorded is processed and accounted for, what is acknowledged is
\* recorded, and an active row is the work of the newest recorded event.
EventsAccounted ==
    /\ acked \subseteq storeEvents
    /\ \A e \in storeEvents : /\ e.id \in processed
                              /\ rows[e.user] # NULL
                              /\ e.time <= rows[e.user].lastEvent

ActiveIsEarned ==
    \A u \in Users :
        rows[u] # NULL /\ rows[u].active =>
            \E e \in EventsOf(u) : /\ e.type \in GrantTypes
                                   /\ rows[u] = RowOf(e, TRUE)

IInv == /\ TypeOK
        /\ TxSound
        /\ HandlersExclusive
        /\ RowsExclusive
        /\ JudgementStands
        /\ ClaimStands
        /\ ExpiryFollowsEvent
        /\ EventsAccounted
        /\ ActiveIsEarned

-------------------------------------------------------------------------------
(* The rules *)

\* The row written for a payload is a row, and it expires after the event.
LEMMA RowOfPayload ==
    ASSUME NEW e \in Payloads, NEW a \in BOOLEAN
    PROVE  /\ e.user \in Users
           /\ e.time \in Nat
           /\ e.id \in Nat
           /\ RowOf(e, a) \in EntitlementRow
           /\ RowOf(e, a) # NULL
           /\ RowOf(e, a).lastEvent = e.time
           /\ RowOf(e, a).active = a
           /\ RowOf(e, a).expires = ExpiryOf(e)
           /\ ExpiryOf(e) # NULL => e.type \in GrantTypes /\ e.time < ExpiryOf(e)
           /\ e.type \in GrantTypes => ExpiryOf(e) \in Nat
  <1>1. /\ e.user \in Users
        /\ e.id \in Nat
        /\ e.time \in Times
    BY PayloadAssumption
  <1>2. e.time \in Nat /\ MonthLater[e.time] \in Nat /\ e.time < MonthLater[e.time]
    BY <1>1, CalendarAssumption
  <1>3. RowOf(e, a) \in EntitlementRow
    BY <1>2 DEF RowOf, EntitlementRow, ExpiryOf
  <1>. QED
    BY <1>1, <1>2, <1>3, NullAssumption DEF RowOf, ExpiryOf

\* What the sweep makes of a row is a row that is strictly newer.
LEMMA ExpiredRow ==
    ASSUME NEW row \in EntitlementRow \cup {NULL}, NEW now \in Nat,
           Expirable(row, now)
    PROVE  /\ row \in EntitlementRow
           /\ row # NULL
           /\ row.expires \in Nat
           /\ Expired(row) \in EntitlementRow
           /\ Expired(row) # NULL
           /\ Expired(row).lastEvent = row.expires
           /\ Expired(row).active = FALSE
           /\ Expired(row).expires = NULL
  <1>1. row \in EntitlementRow /\ row # NULL
    BY DEF Expirable
  <1>2. row.expires \in Nat
    BY <1>1 DEF Expirable, EntitlementRow
  <1>3. Expired(row) \in EntitlementRow
    BY <1>2 DEF Expired, EntitlementRow
  <1>. QED
    BY <1>1, <1>2, <1>3, NullAssumption DEF Expired

\* Whether an event grants access is a Boolean, and TRUE only for grants.
LEMMA GrantsAccessBoolean ==
    ASSUME NEW e, NEW now
    PROVE  /\ GrantsAccess(e, now) \in BOOLEAN
           /\ GrantsAccess(e, now) => e.type \in GrantTypes
  BY DEF GrantsAccess

-------------------------------------------------------------------------------
(* The invariant holds initially and each action preserves it *)

LEMMA InitIInv == Init => IInv
  <1>. SUFFICES ASSUME Init PROVE IInv
    OBVIOUS
  <1>. USE DEF Init, IdleTx, IdleSweep
  <1>1. TypeOK
    <2>1. audit \in [Users -> Seq(Audited)]
      OBVIOUS
    <2>2. tx \in [Handlers -> Transaction]
      BY DEF Transaction
    <2>3. sweep \in [Sweepers -> Batch]
      BY DEF Batch
    <2>. QED
      BY <2>1, <2>2, <2>3, PayloadAssumption DEF TypeOK
  <1>2. TxSound /\ HandlersExclusive /\ JudgementStands
    BY DEF TxSound, HandlersExclusive, JudgementStands, HoldsKey, HoldsUser
  <1>3. RowsExclusive /\ ClaimStands
    BY PayloadAssumption DEF RowsExclusive, ClaimStands, HoldsRow
  <1>4. ExpiryFollowsEvent /\ EventsAccounted /\ ActiveIsEarned
    BY DEF ExpiryFollowsEvent, EventsAccounted, ActiveIsEarned
  <1>. QED
    BY <1>1, <1>2, <1>3, <1>4 DEF IInv

LEMMA TickIInv == IInv /\ Tick => IInv'
  <1>. SUFFICES ASSUME IInv, Tick PROVE IInv'
    OBVIOUS
  <1>. USE DEF Tick, tables
  <1>1. TypeOK'
    BY PayloadAssumption DEF IInv, TypeOK
  <1>2. TxSound'
    BY DEF IInv, TypeOK, TxSound
  <1>3. ClaimStands'
    BY DEF IInv, TypeOK, ClaimStands, Batch
  <1>4. /\ HandlersExclusive' /\ RowsExclusive' /\ JudgementStands'
        /\ ExpiryFollowsEvent' /\ EventsAccounted' /\ ActiveIsEarned'
    BY DEF IInv, HandlersExclusive, RowsExclusive, JudgementStands, Recorded,
           ExpiryFollowsEvent, EventsAccounted, ActiveIsEarned, EventsOf
  <1>. QED
    BY <1>1, <1>2, <1>3, <1>4 DEF IInv

\* What every step of a handler that leaves the tables alone has to show: the
\* record t it leaves behind is sound and conflicts with no lock.
LEMMA HandlerIInv ==
    ASSUME IInv, NEW h \in Handlers, NEW t \in Transaction,
           tx' = [tx EXCEPT ![h] = t],
           UNCHANGED <<clock, tables, sweep>>,
           acked' \subseteq storeEvents,
           t.pc # "idle" =>
               /\ t.event \in Payloads
               /\ Valid(t.event)
               /\ \E received \in 0..clock :
                     t.active = GrantsAccess(t.event, received),
           \A g \in Handlers \ {h} :
               /\ t.pc \in HoldsKey /\ tx[g].pc \in HoldsKey =>
                     tx[g].event.id # t.event.id
               /\ t.pc \in HoldsUser /\ tx[g].pc \in HoldsUser =>
                     tx[g].event.user # t.event.user,
           \A s \in Sweepers :
               t.pc \in HoldsRow => t.event.user \notin sweep[s].batch,
           t.pc \in HoldsKey => ~Recorded(t.event),
           t.pc = "written" => Newer(rows[t.event.user], t.event.time),
           t.pc \in {"skipped", "rejected"} =>
               ~Newer(rows[t.event.user], t.event.time)
    PROVE  IInv'
  <1>. USE DEF tables
  <1>1. TypeOK /\ tx \in [Handlers -> Transaction]
    BY DEF IInv, TypeOK
  <1>2. \A g \in Handlers : tx'[g] = IF g = h THEN t ELSE tx[g]
    BY <1>1
  <1>3. TypeOK'
    BY <1>1 DEF TypeOK
  <1>4. TxSound'
    BY <1>2 DEF IInv, TxSound
  <1>5. HandlersExclusive'
    BY <1>2 DEF IInv, HandlersExclusive
  <1>6. RowsExclusive'
    BY <1>2 DEF IInv, RowsExclusive
  <1>7. JudgementStands'
    BY <1>2 DEF IInv, JudgementStands, Recorded
  <1>8. /\ ClaimStands' /\ ExpiryFollowsEvent' /\ EventsAccounted'
        /\ ActiveIsEarned'
    BY DEF IInv, ClaimStands, ExpiryFollowsEvent, EventsAccounted,
           ActiveIsEarned, EventsOf
  <1>. QED
    BY <1>3, <1>4, <1>5, <1>6, <1>7, <1>8 DEF IInv

LEMMA ReceiveIInv ==
    ASSUME IInv, NEW h \in Handlers, NEW e \in Payloads, ReceiveWebhook(h, e)
    PROVE  IInv'
  <1>. DEFINE t == [pc |-> "received", event |-> e,
                    active |-> GrantsAccess(e, clock),
                    now |-> clock, prev |-> NULL]
  <1>1. clock \in Nat /\ acked \subseteq storeEvents
    BY DEF IInv, TypeOK, EventsAccounted
  <1>2. GrantsAccess(e, clock) \in BOOLEAN
    BY GrantsAccessBoolean
  <1>3. t \in Transaction
    BY <1>1, <1>2 DEF Transaction
  <1>4. /\ tx' = [tx EXCEPT ![h] = t]
        /\ UNCHANGED <<clock, tables, sweep, acked>>
        /\ Valid(e)
    BY DEF ReceiveWebhook
  <1>5. \E received \in 0..clock : t.active = GrantsAccess(t.event, received)
    BY <1>1
  <1>6. t.pc = "received" /\ t.event = e
    OBVIOUS
  <1>. HIDE DEF t
  <1>. QED
    BY <1>1, <1>3, <1>4, <1>5, <1>6, HandlerIInv DEF HoldsKey, HoldsUser, HoldsRow

\* The facts about a busy handler that its next step starts from.
LEMMA BusyHandler ==
    ASSUME IInv, NEW h \in Handlers, tx[h].pc # "idle"
    PROVE  /\ tx[h] \in Transaction
           /\ tx[h].event \in Payloads
           /\ Valid(tx[h].event)
           /\ \E received \in 0..clock :
                 tx[h].active = GrantsAccess(tx[h].event, received)
           /\ clock \in Nat
           /\ tx \in [Handlers -> Transaction]
           /\ acked \subseteq storeEvents
  BY DEF IInv, TypeOK, TxSound, EventsAccounted

LEMMA BeginIInv ==
    ASSUME IInv, NEW h \in Handlers, BeginTx(h)
    PROVE  IInv'
  <1>. DEFINE t == [tx[h] EXCEPT !.pc = "begun", !.now = clock]
  <1>1. tx[h].pc # "idle"
    BY DEF BeginTx, At
  <1>2. /\ t \in Transaction
        /\ t.pc = "begun" /\ t.event = tx[h].event /\ t.active = tx[h].active
    BY <1>1, BusyHandler DEF Transaction
  <1>3. tx' = [tx EXCEPT ![h] = t] /\ UNCHANGED <<clock, tables, sweep, acked>>
    BY <1>1, BusyHandler DEF BeginTx
  <1>. HIDE DEF t
  <1>. QED
    BY <1>1, <1>2, <1>3, BusyHandler, HandlerIInv
       DEF HoldsKey, HoldsUser, HoldsRow

LEMMA InsertIInv ==
    ASSUME IInv, NEW h \in Handlers, InsertStoreEvent(h)
    PROVE  IInv'
  <1>. DEFINE t == [tx[h] EXCEPT !.pc = "inserted"]
  <1>1. tx[h].pc # "idle"
    BY DEF InsertStoreEvent, At
  <1>2. /\ t \in Transaction
        /\ t.pc = "inserted" /\ t.event = tx[h].event /\ t.active = tx[h].active
    BY <1>1, BusyHandler DEF Transaction, HoldsKey
  <1>3. tx' = [tx EXCEPT ![h] = t] /\ UNCHANGED <<clock, tables, sweep, acked>>
    BY <1>1, BusyHandler DEF InsertStoreEvent
  <1>4. /\ ~Recorded(t.event)
        /\ \A g \in Handlers : tx[g].pc \in HoldsKey =>
              tx[g].event.id # t.event.id
    BY <1>2 DEF InsertStoreEvent, KeyLocked
  <1>. HIDE DEF t
  <1>. QED
    BY <1>1, <1>2, <1>3, <1>4, BusyHandler, HandlerIInv
       DEF HoldsKey, HoldsUser, HoldsRow

LEMMA IdleTxType == IdleTx \in Transaction /\ IdleTx.pc = "idle"
  BY DEF IdleTx, Transaction

LEMMA DuplicateIInv ==
    ASSUME IInv, NEW h \in Handlers, AnswerDuplicate(h)
    PROVE  IInv'
  <1>1. tx[h].pc # "idle"
    BY DEF AnswerDuplicate, At
  <1>2. tx[h].event \in storeEvents
    <2>1. PICK r \in storeEvents : r.id = tx[h].event.id
      BY DEF AnswerDuplicate, Recorded
    <2>2. r \in Payloads /\ tx[h].event \in Payloads
      BY <1>1, BusyHandler DEF IInv, TypeOK
    <2>. QED
      BY <2>1, <2>2, PayloadAssumption
  <1>3. acked' \subseteq storeEvents
    BY <1>1, <1>2, BusyHandler DEF AnswerDuplicate
  <1>4. tx' = [tx EXCEPT ![h] = IdleTx] /\ UNCHANGED <<clock, tables, sweep>>
    BY DEF AnswerDuplicate
  <1>. QED
    BY <1>3, <1>4, IdleTxType, HandlerIInv DEF HoldsKey, HoldsUser, HoldsRow

LEMMA RollbackIInv ==
    ASSUME IInv, NEW h \in Handlers, Rollback(h)
    PROVE  IInv'
  <1>1. /\ tx' = [tx EXCEPT ![h] = IdleTx]
        /\ UNCHANGED <<clock, tables, sweep, acked>>
    BY DEF Rollback
  <1>2. acked' \subseteq storeEvents
    BY <1>1 DEF IInv, EventsAccounted
  <1>. QED
    BY <1>1, <1>2, IdleTxType, HandlerIInv DEF HoldsKey, HoldsUser, HoldsRow

LEMMA LockAndReadIInv ==
    ASSUME IInv, NEW h \in Handlers, LockAndRead(h)
    PROVE  IInv'
  <1>. DEFINE e == tx[h].event
              row == rows[e.user]
              t == [tx[h] EXCEPT !.prev = row,
                                 !.pc = IF Newer(row, e.time) THEN "read"
                                                              ELSE "skipped"]
  <1>1. tx[h].pc = "inserted"
    BY DEF LockAndRead, At
  <1>2. row \in EntitlementRow \cup {NULL}
    BY <1>1, BusyHandler, PayloadAssumption DEF IInv, TypeOK
  <1>3. /\ t \in Transaction
        /\ t.event = e /\ t.active = tx[h].active
        /\ t.pc = IF Newer(row, e.time) THEN "read" ELSE "skipped"
    BY <1>1, <1>2, BusyHandler DEF Transaction, HoldsKey
  <1>4. tx' = [tx EXCEPT ![h] = t] /\ UNCHANGED <<clock, tables, sweep, acked>>
    BY <1>1, BusyHandler DEF LockAndRead
  <1>5. \A g \in Handlers : tx[g].pc \in HoldsUser => tx[g].event.user # e.user
    BY DEF LockAndRead, UserLocked
  <1>6. /\ ~Recorded(e)
        /\ \A g \in Handlers \ {h} : tx[g].pc \in HoldsKey =>
              tx[g].event.id # e.id
    BY <1>1 DEF IInv, JudgementStands, HandlersExclusive, HoldsKey
  <1>7. /\ tx[h].event \in Payloads /\ Valid(tx[h].event)
        /\ \E received \in 0..clock :
              tx[h].active = GrantsAccess(tx[h].event, received)
        /\ acked \subseteq storeEvents
    BY <1>1, BusyHandler
  <1>8. /\ t.pc \in {"read", "skipped"}
        /\ t.pc = "skipped" => ~Newer(rows[t.event.user], t.event.time)
    BY <1>3
  <1>. HIDE DEF t
  <1>9. \A g \in Handlers \ {h} :
           /\ tx[g].pc \in HoldsKey => tx[g].event.id # t.event.id
           /\ tx[g].pc \in HoldsUser => tx[g].event.user # t.event.user
    BY <1>3, <1>5, <1>6
  <1>10. /\ t.event \in Payloads /\ Valid(t.event) /\ ~Recorded(t.event)
         /\ \E received \in 0..clock :
              t.active = GrantsAccess(t.event, received)
    BY <1>3, <1>6, <1>7
  <1>. QED
    BY <1>3, <1>4, <1>7, <1>8, <1>9, <1>10, HandlerIInv DEF HoldsRow

LEMMA UpsertIInv ==
    ASSUME IInv, NEW h \in Handlers, Upsert(h)
    PROVE  IInv'
  <1>. DEFINE e == tx[h].event
              newer == Newer(rows[e.user], e.time)
              t == [tx[h] EXCEPT !.pc = IF newer THEN "written" ELSE "rejected"]
  <1>1. tx[h].pc = "read"
    BY DEF Upsert, At
  <1>2. /\ t \in Transaction
        /\ t.event = e /\ t.active = tx[h].active
        /\ t.pc = IF newer THEN "written" ELSE "rejected"
    BY <1>1, BusyHandler DEF Transaction, HoldsKey
  <1>3. tx' = [tx EXCEPT ![h] = t] /\ UNCHANGED <<clock, tables, sweep, acked>>
    BY <1>1, BusyHandler DEF Upsert
  <1>4. \A s \in Sweepers : e.user \notin sweep[s].batch
    BY DEF Upsert, RowLocked
  <1>5. /\ ~Recorded(e)
        /\ \A g \in Handlers \ {h} :
              /\ tx[g].pc \in HoldsKey => tx[g].event.id # e.id
              /\ tx[g].pc \in HoldsUser => tx[g].event.user # e.user
    BY <1>1 DEF IInv, JudgementStands, HandlersExclusive, HoldsKey, HoldsUser
  <1>6. /\ tx[h].event \in Payloads /\ Valid(tx[h].event)
        /\ \E received \in 0..clock :
              tx[h].active = GrantsAccess(tx[h].event, received)
        /\ acked \subseteq storeEvents
    BY <1>1, BusyHandler
  <1>7. /\ t.pc = "written" => Newer(rows[t.event.user], t.event.time)
        /\ t.pc \in {"skipped", "rejected"} =>
              ~Newer(rows[t.event.user], t.event.time)
    BY <1>2
  <1>. HIDE DEF t
  <1>8. /\ \A g \in Handlers \ {h} :
              /\ tx[g].pc \in HoldsKey => tx[g].event.id # t.event.id
              /\ tx[g].pc \in HoldsUser => tx[g].event.user # t.event.user
        /\ \A s \in Sweepers : t.event.user \notin sweep[s].batch
    BY <1>2, <1>4, <1>5
  <1>9. /\ t.event \in Payloads /\ Valid(t.event) /\ ~Recorded(t.event)
        /\ \E received \in 0..clock :
              t.active = GrantsAccess(t.event, received)
    BY <1>2, <1>5, <1>6
  <1>. QED
    BY <1>2, <1>3, <1>6, <1>7, <1>8, <1>9, HandlerIInv

\* The same for a sweeper: the batch it leaves behind is expired and unlocked.
LEMMA SweeperIInv ==
    ASSUME IInv, NEW s \in Sweepers, NEW b \in Batch,
           sweep' = [sweep EXCEPT ![s] = b],
           UNCHANGED <<clock, tables, tx, acked>>,
           b.now <= clock,
           b.pc # "claimed" => b.batch = {},
           \A u \in b.batch :
               /\ Expirable(rows[u], b.now)
               /\ \A h \in Handlers : tx[h].pc \in HoldsRow =>
                     tx[h].event.user # u
               /\ \A z \in Sweepers \ {s} : u \notin sweep[z].batch
    PROVE  IInv'
  <1>. USE DEF tables
  <1>1. TypeOK /\ sweep \in [Sweepers -> Batch]
    BY DEF IInv, TypeOK
  <1>2. \A z \in Sweepers : sweep'[z] = IF z = s THEN b ELSE sweep[z]
    BY <1>1
  <1>3. TypeOK'
    BY <1>1 DEF TypeOK
  <1>4. RowsExclusive'
    BY <1>2 DEF IInv, RowsExclusive
  <1>5. ClaimStands'
    BY <1>2 DEF IInv, ClaimStands
  <1>6. TxSound' /\ HandlersExclusive' /\ JudgementStands'
    BY DEF IInv, TxSound, HandlersExclusive, JudgementStands, Recorded
  <1>7. ExpiryFollowsEvent' /\ EventsAccounted' /\ ActiveIsEarned'
    BY DEF IInv, ExpiryFollowsEvent, EventsAccounted, ActiveIsEarned, EventsOf
  <1>. QED
    BY <1>3, <1>4, <1>5, <1>6, <1>7 DEF IInv

LEMMA SweepBeginIInv ==
    ASSUME IInv, NEW s \in Sweepers, SweepBegin(s)
    PROVE  IInv'
  <1>. DEFINE b == [sweep[s] EXCEPT !.pc = "begun", !.now = clock]
  <1>1. /\ clock \in Nat
        /\ sweep \in [Sweepers -> Batch]
        /\ sweep[s].batch = {}
    BY DEF IInv, TypeOK, ClaimStands, SweepBegin
  <1>2. /\ b \in Batch
        /\ b.pc = "begun" /\ b.now = clock /\ b.batch = {}
    BY <1>1 DEF Batch
  <1>3. sweep' = [sweep EXCEPT ![s] = b] /\ UNCHANGED <<clock, tables, tx, acked>>
    BY <1>1 DEF SweepBegin
  <1>. HIDE DEF b
  <1>4. b.now <= clock
    BY <1>1, <1>2
  <1>. QED
    BY <1>2, <1>3, <1>4, SweeperIInv

LEMMA SweepClaimIInv ==
    ASSUME IInv, NEW s \in Sweepers, SweepClaim(s)
    PROVE  IInv'
  <1>1. PICK batch \in SUBSET Users :
           /\ \A u \in batch : Expirable(rows[u], sweep[s].now) /\ ~RowLocked(u)
           /\ sweep' = [sweep EXCEPT ![s].pc = "claimed", ![s].batch = batch]
    BY DEF SweepClaim
  <1>. DEFINE b == [sweep[s] EXCEPT !.pc = "claimed", !.batch = batch]
  <1>2. /\ sweep \in [Sweepers -> Batch]
        /\ sweep[s].now <= clock
    BY DEF IInv, TypeOK, ClaimStands
  <1>3. /\ b \in Batch
        /\ b.pc = "claimed" /\ b.now = sweep[s].now /\ b.batch = batch
    BY <1>2 DEF Batch
  <1>4. sweep' = [sweep EXCEPT ![s] = b] /\ UNCHANGED <<clock, tables, tx, acked>>
    BY <1>1, <1>2 DEF SweepClaim
  <1>. HIDE DEF b
  <1>5. \A u \in b.batch :
           /\ Expirable(rows[u], b.now)
           /\ \A h \in Handlers : tx[h].pc \in HoldsRow => tx[h].event.user # u
           /\ \A z \in Sweepers : u \notin sweep[z].batch
    BY <1>1, <1>3 DEF RowLocked
  <1>6. b.now <= clock
    BY <1>2, <1>3
  <1>. QED
    BY <1>3, <1>4, <1>5, <1>6, SweeperIInv

LEMMA IdleSweepType ==
    /\ IdleSweep \in Batch
    /\ IdleSweep.batch = {} /\ IdleSweep.now = 0
  BY DEF IdleSweep, Batch

LEMMA SweepRollbackIInv ==
    ASSUME IInv, NEW s \in Sweepers, SweepRollback(s)
    PROVE  IInv'
  <1>1. /\ sweep' = [sweep EXCEPT ![s] = IdleSweep]
        /\ UNCHANGED <<clock, tables, tx, acked>>
    BY DEF SweepRollback
  <1>2. 0 <= clock
    BY DEF IInv, TypeOK
  <1>. QED
    BY <1>1, <1>2, IdleSweepType, SweeperIInv

\* An audit row about two rows of the table is an audit row.
LEMMA AuditEntryType ==
    ASSUME NEW from \in EntitlementRow \cup {NULL},
           NEW to \in EntitlementRow \cup {NULL},
           NEW trigger \in Payloads \cup {NULL}, NEW now \in Nat
    PROVE  AuditEntry(from, to, trigger, now) \in Audited
  <1>1. ASSUME NEW row \in EntitlementRow \cup {NULL}
        PROVE  StateOf(row) \in RowState \cup {NULL}
    BY DEF StateOf, RowState, EntitlementRow
  <1>. QED
    BY <1>1 DEF AuditEntry, Audited

\* What a commit does to the table of entitlements.
LEMMA CommitRows ==
    ASSUME IInv, NEW h \in Handlers, Commit(h)
    PROVE  LET t == tx[h]
               u == tx[h].event.user
           IN  /\ t.event \in Payloads /\ u \in Users
               /\ t.pc \in HoldsKey /\ t.pc \in HoldsUser
               /\ Target(t) \in EntitlementRow
               /\ Target(t).lastEvent = t.event.time
               /\ \A v \in Users : rows'[v] = IF t.pc = "written" /\ v = u
                                              THEN Target(t) ELSE rows[v]
               /\ rows' \in [Users -> EntitlementRow \cup {NULL}]
               /\ t.pc = "written" => Newer(rows[u], t.event.time)
               /\ rows'[u] # NULL
               /\ t.event.time <= rows'[u].lastEvent
  <1>. DEFINE t == tx[h]
              u == t.event.user
  <1>1. t.pc \in {"skipped", "rejected", "written"}
    BY DEF Commit
  <1>2. t.event \in Payloads /\ t.active \in BOOLEAN
    BY <1>1, BusyHandler DEF Transaction
  <1>3. /\ u \in Users /\ t.event.time \in Nat
        /\ Target(t) \in EntitlementRow
        /\ Target(t) # NULL
        /\ Target(t).lastEvent = t.event.time
    BY <1>2, RowOfPayload DEF Target
  <1>4. rows \in [Users -> EntitlementRow \cup {NULL}]
    BY DEF IInv, TypeOK
  <1>5. rows' = IF t.pc = "written" THEN [rows EXCEPT ![u] = Target(t)] ELSE rows
    BY DEF Commit, RowsAfter
  <1>6. /\ \A v \in Users : rows'[v] = IF t.pc = "written" /\ v = u
                                       THEN Target(t) ELSE rows[v]
        /\ rows' \in [Users -> EntitlementRow \cup {NULL}]
    BY <1>3, <1>4, <1>5
  <1>7. /\ t.pc = "written" => Newer(rows[u], t.event.time)
        /\ t.pc # "written" => ~Newer(rows[u], t.event.time)
    BY <1>1 DEF IInv, JudgementStands
  <1>8. rows'[u] # NULL /\ t.event.time <= rows'[u].lastEvent
    <2>1. CASE t.pc = "written"
      BY <2>1, <1>3, <1>6
    <2>2. CASE t.pc # "written"
      <3>1. rows'[u] = rows[u] /\ rows[u] \in EntitlementRow \cup {NULL}
        BY <2>2, <1>3, <1>4, <1>6
      <3>2. rows[u] # NULL /\ ~(rows[u].lastEvent < t.event.time)
        BY <2>2, <1>7 DEF Newer
      <3>3. rows[u].lastEvent \in Nat
        BY <3>1, <3>2 DEF EntitlementRow
      <3>. QED
        BY <3>1, <3>2, <3>3, <1>3
    <2>. QED
      BY <2>1, <2>2
  <1>. QED
    BY <1>1, <1>2, <1>3, <1>6, <1>7, <1>8 DEF HoldsKey, HoldsUser

LEMMA CommitTypeOK ==
    ASSUME IInv, NEW h \in Handlers, Commit(h)
    PROVE  TypeOK'
  <1>. DEFINE t == tx[h]
  <1>1. t.pc \in {"skipped", "rejected", "written"}
    BY DEF Commit
  <1>2. /\ t \in Transaction /\ t.event \in Payloads /\ t.active \in BOOLEAN
        /\ t.active => t.event.type \in GrantTypes
        /\ tx \in [Handlers -> Transaction]
    BY <1>1, BusyHandler, GrantsAccessBoolean DEF Transaction
  <1>3. /\ t.event.user \in Users /\ t.event.id \in Nat
        /\ Target(t) \in EntitlementRow
        /\ t.active => Target(t).expires \in Nat
    BY <1>2, RowOfPayload DEF Target
  <1>4. rows' \in [Users -> EntitlementRow \cup {NULL}]
    BY CommitRows
  <1>5. audit' \in [Users -> Seq(Audited)]
    <2>1. AuditEntry(t.prev, Target(t), t.event, t.now) \in Audited
      BY <1>2, <1>3, AuditEntryType DEF Transaction
    <2>2. audit \in [Users -> Seq(Audited)]
      BY DEF IInv, TypeOK
    <2>3. audit' = AuditAfter(t)
      BY DEF Commit
    <2>4. Append(audit[t.event.user],
                 AuditEntry(t.prev, Target(t), t.event, t.now)) \in Seq(Audited)
      BY <2>1, <2>2, <1>3
    <2>. QED
      BY <2>2, <2>3, <2>4 DEF AuditAfter
  <1>6. notifications' \in SUBSET [user : Users, at : Int]
    <2>1. notifications \in SUBSET [user : Users, at : Int]
      BY DEF IInv, TypeOK
    <2>2. notifications' = NotificationsAfter(t)
      BY DEF Commit
    <2>3. CASE Schedules(t)
      <3>1. Target(t).expires - OneDay \in Int
        BY <2>3, <1>3, CalendarAssumption DEF Schedules
      <3>2. Notice(t) \in [user : Users, at : Int]
        BY <3>1, <1>3 DEF Notice, NoticeTime
      <3>. QED
        BY <3>2, <2>1, <2>2 DEF NotificationsAfter
    <2>4. CASE ~Schedules(t)
      BY <2>1, <2>2, <2>4 DEF NotificationsAfter
    <2>. QED
      BY <2>3, <2>4
  <1>7. tx' \in [Handlers -> Transaction]
    BY <1>2, IdleTxType DEF Commit
  <1>8. /\ clock' \in Nat
        /\ storeEvents' \in SUBSET Payloads
        /\ processed' \in SUBSET Nat
        /\ sweep' \in [Sweepers -> Batch]
        /\ acked' \in SUBSET Payloads
    BY <1>2, <1>3 DEF IInv, TypeOK, Commit
  <1>. QED
    BY <1>4, <1>5, <1>6, <1>7, <1>8 DEF TypeOK

LEMMA CommitIInv ==
    ASSUME IInv, NEW h \in Handlers, Commit(h)
    PROVE  IInv'
  <1>. DEFINE t == tx[h]
              u == t.event.user
  <1>1. /\ t.event \in Payloads /\ u \in Users /\ t.event.time \in Nat
        /\ t.pc \in HoldsKey /\ t.pc \in HoldsUser
        /\ t.active \in BOOLEAN
        /\ t.active => t.event.type \in GrantTypes
        /\ Target(t) \in EntitlementRow
        /\ Target(t).lastEvent = t.event.time
        /\ t.pc = "written" => Newer(rows[u], t.event.time)
        /\ rows'[u] # NULL
        /\ t.event.time <= rows'[u].lastEvent
    BY CommitRows, BusyHandler, GrantsAccessBoolean, RowOfPayload
       DEF HoldsKey, Transaction
  <1>2. \A v \in Users : rows'[v] = IF t.pc = "written" /\ v = u
                                    THEN Target(t) ELSE rows[v]
    BY CommitRows
  <1>3. /\ storeEvents' = storeEvents \cup {t.event}
        /\ processed' = processed \cup {t.event.id}
        /\ acked' \in {acked, acked \cup {t.event}}
        /\ UNCHANGED <<clock, sweep>>
    BY DEF Commit
  <1>4. \A g \in Handlers : tx'[g] = IF g = h THEN IdleTx ELSE tx[g]
    BY DEF Commit, IInv, TypeOK
  <1>5. TypeOK'
    BY CommitTypeOK
  <1>6. TxSound' /\ HandlersExclusive' /\ RowsExclusive'
    BY <1>3, <1>4, IdleTxType
       DEF IInv, TxSound, HandlersExclusive, RowsExclusive,
           HoldsKey, HoldsUser, HoldsRow
  <1>7. JudgementStands'
    <2>. SUFFICES ASSUME NEW g \in Handlers, g # h, tx[g].pc \in HoldsKey
                  PROVE  LET s == tx[g]
                             newer == Newer(rows'[s.event.user], s.event.time)
                         IN /\ ~ \E r \in storeEvents' : r.id = s.event.id
                            /\ s.pc = "written" => newer
                            /\ s.pc \in {"skipped", "rejected"} => ~newer
      BY <1>4, IdleTxType DEF JudgementStands, Recorded, HoldsKey
    <2>1. /\ ~Recorded(tx[g].event)
          /\ tx[g].event.id # t.event.id
          /\ tx[g].pc \in HoldsUser => tx[g].event.user # u
      BY <1>1 DEF IInv, JudgementStands, HandlersExclusive
    <2>2. tx[g].event.user \in Users
      BY BusyHandler, RowOfPayload DEF HoldsKey
    <2>3. tx[g].pc \in HoldsUser =>
             rows'[tx[g].event.user] = rows[tx[g].event.user]
      BY <2>1, <2>2, <1>2
    <2>. QED
      BY <2>1, <2>3, <1>3 DEF IInv, JudgementStands, Recorded, HoldsUser
  <1>8. ClaimStands'
    <2>1. \A s \in Sweepers : \A v \in sweep[s].batch :
             v \in Users /\ rows'[v] = rows[v]
      BY <1>2 DEF IInv, TypeOK, Batch, RowsExclusive, HoldsRow
    <2>. QED
      BY <2>1, <1>3 DEF IInv, ClaimStands
  <1>9. ExpiryFollowsEvent'
    <2>1. Target(t).expires # NULL => Target(t).lastEvent < Target(t).expires
      BY <1>1, RowOfPayload DEF Target
    <2>. QED
      BY <2>1, <1>2 DEF IInv, ExpiryFollowsEvent
  <1>10. EventsAccounted'
    <2>1. acked' \subseteq storeEvents'
      BY <1>3 DEF IInv, EventsAccounted
    <2>2. ASSUME NEW e \in storeEvents
          PROVE  /\ e.id \in processed'
                 /\ rows'[e.user] # NULL
                 /\ e.time <= rows'[e.user].lastEvent
      <3>1. /\ e.id \in processed /\ rows[e.user] # NULL
            /\ e.time <= rows[e.user].lastEvent
            /\ e.user \in Users /\ e.time \in Nat
            /\ rows[e.user] \in EntitlementRow \cup {NULL}
        BY RowOfPayload DEF IInv, TypeOK, EventsAccounted
      <3>2. rows[e.user].lastEvent \in Nat
        BY <3>1 DEF EntitlementRow
      <3>3. CASE t.pc = "written" /\ e.user = u
        BY <3>1, <3>2, <3>3, <1>1, <1>2, <1>3, NullAssumption DEF Newer
      <3>4. CASE ~(t.pc = "written" /\ e.user = u)
        BY <3>1, <3>4, <1>2, <1>3
      <3>. QED
        BY <3>3, <3>4
    <2>. QED
      BY <2>1, <2>2, <1>1, <1>3 DEF EventsAccounted
  <1>11. ActiveIsEarned'
    <2>. SUFFICES ASSUME NEW v \in Users, rows'[v] # NULL, rows'[v].active
                  PROVE  \E e \in storeEvents' : /\ e.user = v
                                                 /\ e.type \in GrantTypes
                                                 /\ rows'[v] = RowOf(e, TRUE)
      BY DEF ActiveIsEarned, EventsOf
    <2>1. CASE t.pc = "written" /\ v = u
      <3>1. Target(t).active = t.active
        BY <1>1, RowOfPayload DEF Target
      <3>2. t.active = TRUE
        BY <3>1, <2>1, <1>1, <1>2
      <3>3. rows'[v] = RowOf(t.event, TRUE)
        BY <3>2, <2>1, <1>2 DEF Target
      <3>. QED
        BY <3>2, <3>3, <2>1, <1>1, <1>3
    <2>2. CASE ~(t.pc = "written" /\ v = u)
      <3>1. rows'[v] = rows[v]
        BY <2>2, <1>2
      <3>2. \E e \in storeEvents : /\ e.user = v
                                   /\ e.type \in GrantTypes
                                   /\ rows[v] = RowOf(e, TRUE)
        BY <3>1 DEF IInv, ActiveIsEarned, EventsOf
      <3>. QED
        BY <3>1, <3>2, <1>3
    <2>. QED
      BY <2>1, <2>2
  <1>. QED
    BY <1>5, <1>6, <1>7, <1>8, <1>9, <1>10, <1>11 DEF IInv

\* What the commit of a batch does to the table of entitlements.
LEMMA SweepRows ==
    ASSUME IInv, NEW s \in Sweepers, SweepCommit(s)
    PROVE  /\ sweep[s].batch \subseteq Users
           /\ sweep[s].now \in Nat /\ sweep[s].now <= clock
           /\ \A v \in sweep[s].batch :
                 /\ Expirable(rows[v], sweep[s].now)
                 /\ rows[v] \in EntitlementRow
                 /\ rows[v].expires \in Nat
                 /\ rows[v].lastEvent < rows[v].expires
           /\ rows \in [Users -> EntitlementRow \cup {NULL}]
           /\ rows' = [v \in Users |-> IF v \in sweep[s].batch
                                       THEN Expired(rows[v]) ELSE rows[v]]
           /\ rows' \in [Users -> EntitlementRow \cup {NULL}]
  <1>1. /\ sweep[s].batch \subseteq Users
        /\ sweep[s].now \in Nat /\ sweep[s].now <= clock
        /\ \A v \in sweep[s].batch : Expirable(rows[v], sweep[s].now)
        /\ rows \in [Users -> EntitlementRow \cup {NULL}]
    BY DEF IInv, TypeOK, ClaimStands, Batch
  <1>2. \A v \in sweep[s].batch :
           /\ rows[v] \in EntitlementRow /\ rows[v] # NULL
           /\ rows[v].expires \in Nat
           /\ Expired(rows[v]) \in EntitlementRow
    BY <1>1, ExpiredRow
  <1>3. \A v \in sweep[s].batch : rows[v].lastEvent < rows[v].expires
    BY <1>1, <1>2, NullAssumption DEF IInv, ExpiryFollowsEvent
  <1>4. rows' = [v \in Users |-> IF v \in sweep[s].batch
                                 THEN Expired(rows[v]) ELSE rows[v]]
    BY <1>1 DEF SweepCommit
  <1>5. rows' \in [Users -> EntitlementRow \cup {NULL}]
    BY <1>1, <1>2, <1>4
  <1>. QED
    BY <1>1, <1>2, <1>3, <1>4, <1>5

LEMMA SweepCommitIInv ==
    ASSUME IInv, NEW s \in Sweepers, SweepCommit(s)
    PROVE  IInv'
  <1>. DEFINE batch == sweep[s].batch
  <1>1. /\ batch \subseteq Users
        /\ sweep[s].now \in Nat
        /\ \A v \in batch :
              /\ Expirable(rows[v], sweep[s].now)
              /\ rows[v] \in EntitlementRow
              /\ rows[v].expires \in Nat
              /\ rows[v].lastEvent < rows[v].expires
              /\ Expired(rows[v]).lastEvent = rows[v].expires
              /\ Expired(rows[v]).active = FALSE
              /\ Expired(rows[v]).expires = NULL
              /\ Expired(rows[v]) \in EntitlementRow
              /\ Expired(rows[v]) # NULL
    BY SweepRows, ExpiredRow
  <1>2. \A v \in Users : rows'[v] = IF v \in batch THEN Expired(rows[v])
                                                   ELSE rows[v]
    BY SweepRows
  <1>3. /\ UNCHANGED <<clock, storeEvents, processed, notifications, tx, acked>>
        /\ \A z \in Sweepers : sweep'[z] = IF z = s THEN IdleSweep ELSE sweep[z]
    BY DEF SweepCommit, IInv, TypeOK
  <1>4. TypeOK'
    <2>1. ASSUME NEW v \in batch
          PROVE  Append(audit[v], AuditEntry(rows[v], Expired(rows[v]), NULL,
                                             sweep[s].now)) \in Seq(Audited)
      <3>1. AuditEntry(rows[v], Expired(rows[v]), NULL, sweep[s].now) \in Audited
        BY <1>1, AuditEntryType
      <3>. QED
        BY <3>1, <1>1 DEF IInv, TypeOK
    <2>2. audit' = [v \in Users |->
                      IF v \in batch
                      THEN Append(audit[v], AuditEntry(rows[v], Expired(rows[v]),
                                                       NULL, sweep[s].now))
                      ELSE audit[v]]
      BY <1>1 DEF SweepCommit
    <2>3. audit' \in [Users -> Seq(Audited)]
      BY <2>1, <2>2 DEF IInv, TypeOK
    <2>4. sweep' \in [Sweepers -> Batch]
      BY IdleSweepType DEF IInv, TypeOK, SweepCommit
    <2>. QED
      BY <2>3, <2>4, <1>3, SweepRows DEF IInv, TypeOK
  <1>5. TxSound' /\ HandlersExclusive' /\ RowsExclusive'
    BY <1>3, IdleSweepType DEF IInv, TxSound, HandlersExclusive, RowsExclusive
  <1>6. JudgementStands'
    <2>. SUFFICES ASSUME NEW h \in Handlers, tx[h].pc \in HoldsKey
                  PROVE  LET t == tx[h]
                             newer == Newer(rows'[t.event.user], t.event.time)
                         IN /\ ~Recorded(t.event)
                            /\ t.pc = "written" => newer
                            /\ t.pc \in {"skipped", "rejected"} => ~newer
      BY <1>3 DEF JudgementStands, Recorded, HoldsKey
    <2>. DEFINE e == tx[h].event
    <2>1. e.user \in Users /\ e.time \in Nat
      BY BusyHandler, RowOfPayload DEF HoldsKey
    <2>2. ~Recorded(e)
      BY DEF IInv, JudgementStands
    <2>3. CASE e.user \notin batch
      BY <2>1, <2>2, <2>3, <1>2 DEF IInv, JudgementStands
    <2>4. CASE e.user \in batch
      <3>1. tx[h].pc \notin HoldsRow
        BY <2>4 DEF IInv, RowsExclusive
      <3>2. tx[h].pc = "skipped" => ~Newer(rows[e.user], e.time)
        BY DEF IInv, JudgementStands
      <3>3. /\ rows'[e.user] # NULL
            /\ rows[e.user].lastEvent < rows'[e.user].lastEvent
            /\ rows[e.user].lastEvent \in Nat
            /\ rows'[e.user].lastEvent \in Nat
        BY <2>1, <2>4, <1>1, <1>2 DEF EntitlementRow
      <3>4. tx[h].pc = "skipped" => ~Newer(rows'[e.user], e.time)
        BY <2>1, <3>2, <3>3 DEF Newer
      <3>. QED
        BY <2>2, <3>1, <3>4 DEF HoldsRow
    <2>. QED
      BY <2>3, <2>4
  <1>7. ClaimStands'
    <2>1. ASSUME NEW z \in Sweepers, z # s, NEW v \in sweep[z].batch
          PROVE  Expirable(rows'[v], sweep[z].now)
      <3>1. v \in Users /\ v \notin batch
        BY <2>1 DEF IInv, TypeOK, Batch, RowsExclusive
      <3>. QED
        BY <3>1, <2>1, <1>2 DEF IInv, ClaimStands
    <2>2. 0 <= clock
      BY DEF IInv, TypeOK
    <2>. QED
      BY <2>1, <2>2, <1>3, IdleSweepType DEF IInv, ClaimStands
  <1>8. ExpiryFollowsEvent'
    BY <1>1, <1>2 DEF IInv, ExpiryFollowsEvent
  <1>9. EventsAccounted'
    <2>1. ASSUME NEW e \in storeEvents
          PROVE  /\ rows'[e.user] # NULL
                 /\ e.time <= rows'[e.user].lastEvent
      <3>1. /\ rows[e.user] # NULL
            /\ e.time <= rows[e.user].lastEvent
            /\ e.user \in Users /\ e.time \in Nat
        BY RowOfPayload DEF IInv, TypeOK, EventsAccounted
      <3>2. CASE e.user \in batch
        <4>1. rows[e.user].lastEvent \in Nat
          BY <3>2, <1>1 DEF EntitlementRow
        <4>. QED
          BY <3>1, <3>2, <4>1, <1>1, <1>2
      <3>3. CASE e.user \notin batch
        BY <3>1, <3>3, <1>2
      <3>. QED
        BY <3>2, <3>3
    <2>. QED
      BY <2>1, <1>3 DEF IInv, EventsAccounted
  <1>10. ActiveIsEarned'
    <2>1. ASSUME NEW u \in Users, rows'[u] # NULL /\ rows'[u].active
          PROVE  \E e \in EventsOf(u)' : /\ e.type \in GrantTypes
                                        /\ rows'[u] = RowOf(e, TRUE)
      <3>1. rows'[u] = rows[u]
        BY <2>1, <1>1, <1>2
      <3>2. PICK e \in EventsOf(u) : /\ e.type \in GrantTypes
                                     /\ rows[u] = RowOf(e, TRUE)
        BY <2>1, <3>1 DEF IInv, ActiveIsEarned
      <3>3. e \in EventsOf(u)'
        BY <3>2, <1>3 DEF EventsOf
      <3>. QED
        BY <3>1, <3>2, <3>3
    <2>. QED
      BY <2>1 DEF ActiveIsEarned
  <1>. QED
    BY <1>4, <1>5, <1>6, <1>7, <1>8, <1>9, <1>10 DEF IInv

-------------------------------------------------------------------------------
(* Theorems *)

LEMMA NextIInv == IInv /\ [Next]_vars => IInv'
  <1>. SUFFICES ASSUME IInv, [Next]_vars PROVE IInv'
    OBVIOUS
  <1>1. CASE Tick
    BY <1>1, TickIInv
  <1>2. ASSUME NEW h \in Handlers, NEW e \in Payloads, ReceiveWebhook(h, e)
        PROVE  IInv'
    BY <1>2, ReceiveIInv
  <1>3. ASSUME NEW h \in Handlers, HandlerStep(h) \/ Rollback(h)
        PROVE  IInv'
    BY <1>3, BeginIInv, InsertIInv, DuplicateIInv, LockAndReadIInv, UpsertIInv,
       CommitIInv, RollbackIInv DEF HandlerStep
  <1>4. ASSUME NEW s \in Sweepers, SweepStep(s) \/ SweepRollback(s)
        PROVE  IInv'
    BY <1>4, SweepBeginIInv, SweepClaimIInv, SweepCommitIInv, SweepRollbackIInv
       DEF SweepStep
  <1>5. CASE UNCHANGED vars
    <2>. USE <1>5 DEF vars
    <2>1. TypeOK'
      BY DEF IInv, TypeOK
    <2>2. TxSound' /\ HandlersExclusive' /\ RowsExclusive'
      BY DEF IInv, TxSound, HandlersExclusive, RowsExclusive
    <2>3. JudgementStands' /\ ClaimStands'
      BY DEF IInv, JudgementStands, Recorded, ClaimStands
    <2>4. ExpiryFollowsEvent' /\ EventsAccounted' /\ ActiveIsEarned'
      BY DEF IInv, ExpiryFollowsEvent, EventsAccounted, ActiveIsEarned, EventsOf
    <2>. QED
      BY <2>1, <2>2, <2>3, <2>4 DEF IInv
  <1>. QED
    BY <1>1, <1>2, <1>3, <1>4, <1>5 DEF Next

\* The inductive invariant holds in every reachable state.
THEOREM Invariance == Spec => []IInv
  BY InitIInv, NextIInv, PTL DEF Spec

\* Every table and transaction keeps its type, whatever is interleaved.
THEOREM TypeCorrectness == Spec => []TypeOK
  <1>1. IInv => TypeOK
    BY DEF IInv
  <1>. QED
    BY <1>1, Invariance, PTL

\* An event answered 202 is stored, processed and accounted for in the row, in
\* spite of rollbacks, lost answers and concurrent deliveries and sweeps.
THEOREM AcceptedEventsAreKept == Spec => []NoAcceptedEventLost
  <1>1. IInv => NoAcceptedEventLost
    BY DEF IInv, EventsAccounted, NoAcceptedEventLost
  <1>. QED
    BY <1>1, Invariance, PTL

\* Access is only ever granted by the newest accepted event of the user.
THEOREM AccessIsAlwaysEarned == Spec => []AccessIsEarned
  <1>1. IInv => AccessIsEarned
    <2>. SUFFICES ASSUME IInv, NEW u \in Users, IsActive(rows[u], clock)
                  PROVE  \E e \in NewestOf(u) : /\ e.type \in GrantTypes
                                                /\ rows[u] = RowOf(e, TRUE)
      BY DEF AccessIsEarned
    <2>1. PICK e \in EventsOf(u) : /\ e.type \in GrantTypes
                                   /\ rows[u] = RowOf(e, TRUE)
      BY DEF IInv, ActiveIsEarned, IsActive
    <2>2. rows[u].lastEvent = e.time
      BY <2>1 DEF RowOf
    <2>3. \A f \in EventsOf(u) : f.time <= e.time
      BY <2>2 DEF IInv, EventsAccounted, EventsOf
    <2>. QED
      BY <2>1, <2>3 DEF NewestOf
  <1>. QED
    BY <1>1, Invariance, PTL

\* No write makes a row older: not a webhook over a sweep it did not see, not a
\* sweep over a webhook.
THEOREM RowsOnlyAdvance == Spec => LastEventTimeAdvances
  <1>. DEFINE Advance == \A u \in Users :
                            rows'[u] # rows[u] =>
                                /\ rows'[u] # NULL
                                /\ Newer(rows[u], rows'[u].lastEvent)
  <1>1. IInv /\ [Next]_vars => [Advance]_vars
    <2>. SUFFICES ASSUME IInv, Next, NEW u \in Users, rows'[u] # rows[u]
                  PROVE  rows'[u] # NULL /\ Newer(rows[u], rows'[u].lastEvent)
      OBVIOUS
    <2>1. ASSUME NEW h \in Handlers, Commit(h)
          PROVE  rows'[u] # NULL /\ Newer(rows[u], rows'[u].lastEvent)
      <3>1. /\ tx[h].pc = "written" /\ u = tx[h].event.user
            /\ rows'[u] = Target(tx[h])
        BY <2>1, CommitRows
      <3>. QED
        BY <2>1, <3>1, CommitRows
    <2>2. ASSUME NEW s \in Sweepers, SweepCommit(s)
          PROVE  rows'[u] # NULL /\ Newer(rows[u], rows'[u].lastEvent)
      <3>1. u \in sweep[s].batch /\ rows'[u] = Expired(rows[u])
        BY <2>2, SweepRows
      <3>. QED
        BY <2>2, <3>1, SweepRows, ExpiredRow DEF Newer
    <2>3. \A h \in Handlers, e \in Payloads : ~ReceiveWebhook(h, e)
      BY DEF ReceiveWebhook, tables
    <2>4. ~Tick
      BY DEF Tick, tables
    <2>5. \A h \in Handlers :
             ~BeginTx(h) /\ ~InsertStoreEvent(h) /\ ~AnswerDuplicate(h) /\
             ~LockAndRead(h) /\ ~Upsert(h) /\ ~Rollback(h)
      BY DEF BeginTx, InsertStoreEvent, AnswerDuplicate, LockAndRead, Upsert,
             Rollback, tables
    <2>6. \A s \in Sweepers : ~SweepBegin(s) /\ ~SweepClaim(s) /\ ~SweepRollback(s)
      BY DEF SweepBegin, SweepClaim, SweepRollback, tables
    <2>. QED
      BY <2>1, <2>2, <2>3, <2>4, <2>5, <2>6 DEF Next, HandlerStep, SweepStep
  <1>. QED
    BY <1>1, Invariance, PTL DEF Spec, LastEventTimeAdvances

\* A commit is the acceptance of its event by the ledger.
LEMMA CommitAccepts ==
    ASSUME IInv, NEW h \in Handlers, Commit(h)
    PROVE  \E e \in Payloads, received \in 0..clock : Ledger!Accept(e, received)
  <1>. DEFINE t == tx[h]
              e == t.event
  <1>1. t.pc \in {"skipped", "rejected", "written"}
    BY DEF Commit
  <1>2. e \in Payloads /\ Valid(e)
    BY <1>1, BusyHandler
  <1>3. PICK received \in 0..clock : t.active = GrantsAccess(e, received)
    BY <1>1, BusyHandler
  <1>4. t.pc = "written" <=> Newer(rows[e.user], e.time)
    BY <1>1 DEF IInv, JudgementStands
  <1>5. rows' = IF Newer(rows[e.user], e.time)
                THEN [rows EXCEPT ![e.user] =
                         RowOf(e, GrantsAccess(e, received))]
                ELSE rows
    BY <1>3, <1>4 DEF Commit, RowsAfter, Target
  <1>6. \A r \in storeEvents : r.id # e.id
    BY <1>1 DEF IInv, JudgementStands, Recorded, HoldsKey
  <1>7. storeEvents' = storeEvents \cup {e} /\ UNCHANGED clock
    BY DEF Commit
  <1>8. Ledger!Accept(e, received)
    BY <1>2, <1>5, <1>6, <1>7
       DEF Ledger!Accept, Ledger!Valid, Ledger!EventTypes, Ledger!GrantTypes,
           Ledger!Newer, Ledger!RowOf, Ledger!ExpiryOf, Ledger!GrantsAccess,
           Valid, EventTypes, GrantTypes, Newer, RowOf, ExpiryOf, GrantsAccess
  <1>. QED
    BY <1>2, <1>8

\* The commit of a batch closes its rows in the ledger.
LEMMA SweepExpires ==
    ASSUME IInv, NEW s \in Sweepers, SweepCommit(s)
    PROVE  \E due \in SUBSET Users : Ledger!Expire(due)
  <1>1. \A u \in sweep[s].batch : Expirable(rows[u], clock)
    <2>1. ASSUME NEW u \in sweep[s].batch
          PROVE  Expirable(rows[u], clock)
      BY SweepRows DEF Expirable, IInv, TypeOK
    <2>. QED
      BY <2>1
  <1>2. UNCHANGED <<clock, storeEvents>>
    BY DEF SweepCommit
  <1>3. Ledger!Expire(sweep[s].batch)
    BY <1>1, <1>2, SweepRows
       DEF Ledger!Expire, Ledger!Expirable, Ledger!Expired, Expirable, Expired
  <1>. QED
    BY <1>3, SweepRows

\* The reconciler implements the ledger: seen through the entitlement and event
\* tables, every event and every batch takes effect at one instant.
THEOREM Refinement == Spec => ImplementsLedger
  <1>1. Init => Ledger!Init
    BY DEF Init, Ledger!Init
  <1>2. IInv /\ [Next]_vars => [Ledger!Next]_(Ledger!vars)
    <2>. SUFFICES ASSUME IInv, [Next]_vars
                  PROVE  Ledger!Next \/ UNCHANGED <<clock, rows, storeEvents>>
      BY DEF Ledger!vars
    <2>1. CASE Tick
      BY <2>1 DEF Tick, tables, Ledger!Next, Ledger!Tick
    <2>2. ASSUME NEW h \in Handlers, Commit(h)
          PROVE  Ledger!Next
      BY <2>2, CommitAccepts DEF Ledger!Next
    <2>3. ASSUME NEW s \in Sweepers, SweepCommit(s)
          PROVE  Ledger!Next
      BY <2>3, SweepExpires DEF Ledger!Next
    <2>4. ASSUME NEW h \in Handlers, NEW e \in Payloads, ReceiveWebhook(h, e)
          PROVE  UNCHANGED <<clock, rows, storeEvents>>
      BY <2>4 DEF ReceiveWebhook, tables
    <2>5. ASSUME NEW h \in Handlers,
                 \/ BeginTx(h) \/ InsertStoreEvent(h) \/ AnswerDuplicate(h)
                 \/ LockAndRead(h) \/ Upsert(h) \/ Rollback(h)
          PROVE  UNCHANGED <<clock, rows, storeEvents>>
      BY <2>5 DEF BeginTx, InsertStoreEvent, AnswerDuplicate, LockAndRead,
         Upsert, Rollback, tables
    <2>6. ASSUME NEW s \in Sweepers,
                 SweepBegin(s) \/ SweepClaim(s) \/ SweepRollback(s)
          PROVE  UNCHANGED <<clock, rows, storeEvents>>
      BY <2>6 DEF SweepBegin, SweepClaim, SweepRollback, tables
    <2>7. CASE UNCHANGED vars
      BY <2>7 DEF vars
    <2>. QED
      BY <2>1, <2>2, <2>3, <2>4, <2>5, <2>6, <2>7
         DEF Next, HandlerStep, SweepStep
  <1>. QED
    BY <1>1, <1>2, Invariance, PTL DEF Spec, ImplementsLedger, Ledger!Spec
===============================================================================
