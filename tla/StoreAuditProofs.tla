--------------------------- MODULE StoreAuditProofs ---------------------------
(***************************************************************************)
(* What holds of the audit log and the notifications of StoreReconciler,   *)
(* and what the advisory lock guarantees where no sweep runs.              *)
(*                                                                         *)
(* All of it depends on what a handler read under the advisory lock: that  *)
(* decides whether it audits and notifies, and by the time it commits the  *)
(* row may be another.                                                     *)
(***************************************************************************)
EXTENDS StoreReconcilerProofs

-------------------------------------------------------------------------------
(* The inductive invariant *)

LastOf(u) == audit[u][Len(audit[u])]

\* The sweep has closed a grant, and nothing was audited since.
ExpiredSince(u, prev) ==
    /\ Sweepers # {}
    /\ prev \in EntitlementRow
    /\ prev.active
    /\ prev.expires \in Nat
    /\ rows[u] = Expired(prev)
    /\ audit[u] # <<>>
    /\ LastOf(u).trigger = NULL
    /\ LastOf(u).from = StateOf(prev)

\* The row is still as a handler read it under the advisory lock, or the sweep
\* has closed the grant it read.
PrevStands ==
    \A h \in Handlers : tx[h].pc \in HoldsUser =>
        LET u == tx[h].event.user
        IN  rows[u] = tx[h].prev \/ ExpiredSince(u, tx[h].prev)

OnlyWebhooks == \A u \in Users : \A i \in DOMAIN audit[u] : audit[u][i].trigger # NULL

History == /\ AuditTipMatchesProjection
           /\ ExpirationExtendsHistory
           /\ HistoryForksAtExpirations
           /\ Sweepers = {} => OnlyWebhooks

Noticed(u) == \E n \in notifications :
                 /\ n.user = u
                 /\ DayOf(n.at) = DayOf(NoticeTime(rows[u].expires))

GrantsNoticed == \A u \in Users : rows[u] # NULL /\ rows[u].active => Noticed(u)

\* A row is the work of the event that it names, or the remains of a grant.
FromEvent(u) == \E e \in EventsOf(u), received \in 0..clock :
                   rows[u] = RowOf(e, GrantsAccess(e, received))

FromGrant(u) == \E e \in EventsOf(u) : /\ Sweepers # {}
                                       /\ e.type \in GrantTypes
                                       /\ MonthLater[e.time] <= clock
                                       /\ rows[u] = Expired(RowOf(e, TRUE))

RowsAreOfEvents == \A u \in Users : rows[u] # NULL => FromEvent(u) \/ FromGrant(u)

HInv == /\ PrevStands
        /\ History
        /\ GrantsNoticed
        /\ RowsAreOfEvents

-------------------------------------------------------------------------------
(* Steps, as the history of one user sees them *)

Keeps(u) == /\ audit'[u] = audit[u]
            /\ StateOf(rows'[u]) = StateOf(rows[u])
            /\ rows'[u] = NULL <=> rows[u] = NULL

Extends(u) ==
    \E entry \in Audited :
        /\ audit'[u] = Append(audit[u], entry)
        /\ rows'[u] # NULL
        /\ entry.to = StateOf(rows'[u])
        /\ entry.trigger = NULL => /\ rows[u] # NULL
                                   /\ entry.from = StateOf(rows[u])
                                   /\ entry.from.active
                                   /\ entry.from.expires <= entry.at
        /\ entry.from # entry.to
        /\ Sweepers = {} => entry.trigger # NULL
        /\ \/ entry.from = StateOf(rows[u])
           \/ /\ audit[u] # <<>>
              /\ LastOf(u).trigger = NULL
              /\ entry.from = LastOf(u).from
              /\ entry.trigger # NULL
              /\ LastOf(u).from.expires < entry.trigger.time

LEMMA Appended ==
    ASSUME NEW S, NEW s \in Seq(S), NEW e \in S
    PROVE  /\ Append(s, e) # <<>>
           /\ DOMAIN Append(s, e) = DOMAIN s \cup {Len(s) + 1}
           /\ DOMAIN s = 1..Len(s) /\ Len(s) \in Nat
           /\ Len(Append(s, e)) = Len(s) + 1
           /\ Append(s, e)[Len(s) + 1] = e
           /\ \A i \in DOMAIN s : Append(s, e)[i] = s[i]
           /\ s = <<>> <=> Len(s) = 0
  OBVIOUS

\* What History says of one row of an audit log.
Sound(log, i) ==
    /\ log[i].trigger = NULL => /\ i > 1
                                /\ log[i].from = log[i - 1].to
                                /\ log[i].from.active
                                /\ log[i].from.expires <= log[i].at
    /\ log[i].from # log[i].to
    /\ i = 1 => log[i].from = NULL
    /\ i > 1 => \/ log[i].from = log[i - 1].to
                \/ /\ log[i - 1].trigger = NULL
                   /\ log[i].from = log[i - 1].from
                   /\ log[i].trigger # NULL
                   /\ log[i - 1].from.expires < log[i].trigger.time
    /\ Sweepers = {} => log[i].trigger # NULL

LEMMA HistoryIsSound ==
    History <=> /\ AuditTipMatchesProjection
                /\ \A u \in Users : \A i \in DOMAIN audit[u] : Sound(audit[u], i)
  BY DEF History, ExpirationExtendsHistory, HistoryForksAtExpirations,
         OnlyWebhooks, Sound

LEMMA HistoryStep ==
    ASSUME TypeOK, History, \A u \in Users : Keeps(u) \/ Extends(u)
    PROVE  History'
  <1>. DEFINE Tip(log, row) == IF log = <<>> THEN row = NULL
                               ELSE log[Len(log)].to = StateOf(row)
  <1>1. \A u \in Users : /\ Tip(audit[u], rows[u])
                         /\ \A i \in DOMAIN audit[u] : Sound(audit[u], i)
    BY HistoryIsSound DEF AuditTipMatchesProjection
  <1>2. ASSUME NEW u \in Users, Keeps(u)
        PROVE  /\ Tip(audit'[u], rows'[u])
               /\ \A i \in DOMAIN audit'[u] : Sound(audit'[u], i)
    BY <1>1, <1>2 DEF Keeps
  <1>3. ASSUME NEW u \in Users, Extends(u)
        PROVE  /\ Tip(audit'[u], rows'[u])
               /\ \A i \in DOMAIN audit'[u] : Sound(audit'[u], i)
    <2>. DEFINE old == audit[u]
                now == audit'[u]
                n == Len(audit[u])
    <2>1. PICK entry \in Audited :
            /\ now = Append(old, entry)
            /\ rows'[u] # NULL
            /\ entry.to = StateOf(rows'[u])
            /\ entry.trigger = NULL => /\ rows[u] # NULL
                                       /\ entry.from = StateOf(rows[u])
                                       /\ entry.from.active
                                       /\ entry.from.expires <= entry.at
            /\ entry.from # entry.to
            /\ Sweepers = {} => entry.trigger # NULL
            /\ \/ entry.from = StateOf(rows[u])
               \/ /\ old # <<>>
                  /\ old[n].trigger = NULL
                  /\ entry.from = old[n].from
                  /\ entry.trigger # NULL
                  /\ old[n].from.expires < entry.trigger.time
      BY <1>3 DEF Extends, LastOf
    <2>2. old \in Seq(Audited)
      BY DEF TypeOK
    <2>3. /\ now # <<>>
          /\ DOMAIN now = DOMAIN old \cup {n + 1}
          /\ DOMAIN old = 1..n /\ n \in Nat
          /\ Len(now) = n + 1
          /\ now[n + 1] = entry
          /\ \A i \in DOMAIN old : now[i] = old[i]
          /\ old = <<>> <=> n = 0
      BY <2>1, <2>2, Appended
    <2>4. /\ n = 0 => rows[u] = NULL
          /\ n # 0 => old[n].to = StateOf(rows[u]) /\ now[n] = old[n]
      BY <1>1, <2>3
    <2>5. \A i \in DOMAIN old : Sound(old, i)
      BY <1>1
    <2>6. StateOf(NULL) = NULL
      BY DEF StateOf
    <2>. HIDE DEF old, now, n
    <2>7. \A i \in DOMAIN old : i # 1 => now[i - 1] = old[i - 1]
      BY <2>3
    <2>8. ASSUME NEW i \in DOMAIN now
          PROVE  Sound(now, i)
      <3>1. CASE i \in DOMAIN old
        BY <3>1, <2>3, <2>5, <2>7 DEF Sound
      <3>2. CASE i = n + 1
        <4>1. now[i] = entry /\ (i = 1 <=> n = 0) /\ (i > 1 <=> n # 0) /\ i - 1 = n
          BY <3>2, <2>3
        <4>2. entry.trigger = NULL => n # 0
          BY <2>1, <2>4
        <4>3. n = 0 => entry.from = NULL
          BY <2>1, <2>3, <2>4, <2>6
        <4>4. n # 0 => \/ entry.from = old[n].to
                       \/ /\ old[n].trigger = NULL
                          /\ entry.from = old[n].from
                          /\ entry.trigger # NULL
                          /\ old[n].from.expires < entry.trigger.time
          BY <2>1, <2>4
        <4>5. entry.trigger = NULL => /\ entry.from = old[n].to
                                      /\ entry.from.active
                                      /\ entry.from.expires <= entry.at
          BY <2>1, <2>4, <4>2
        <4>. QED
          BY <4>1, <4>2, <4>3, <4>4, <4>5, <2>1, <2>4 DEF Sound
      <3>. QED
        BY <3>1, <3>2, <2>3
    <2>9. Tip(now, rows'[u])
      BY <2>1, <2>3
    <2>. QED
      BY <2>8, <2>9 DEF now
  <1>4. AuditTipMatchesProjection'
    BY <1>2, <1>3 DEF AuditTipMatchesProjection
  <1>5. \A u \in Users : \A i \in DOMAIN audit'[u] : Sound(audit'[u], i)
    BY <1>2, <1>3
  <1>. HIDE DEF Tip
  <1>. QED
    BY <1>4, <1>5 DEF History, ExpirationExtendsHistory,
                      HistoryForksAtExpirations, OnlyWebhooks, Sound

-------------------------------------------------------------------------------
(* Steps that leave the tables alone *)

LEMMA QuietHInv ==
    ASSUME IInv, HInv, UNCHANGED tables,
           clock' \in Nat, clock <= clock', PrevStands'
    PROVE  HInv'
  <1>. USE DEF tables
  <1>1. History'
    <2>1. \A u \in Users : Keeps(u)
      BY DEF Keeps
    <2>. QED
      BY <2>1, HistoryStep DEF IInv, HInv
  <1>2. GrantsNoticed'
    BY DEF HInv, GrantsNoticed, Noticed
  <1>3. RowsAreOfEvents'
    <2>1. 0..clock \subseteq 0..clock'
      BY DEF IInv, TypeOK
    <2>2. \A u \in Users : FromEvent(u) => FromEvent(u)'
      BY <2>1 DEF FromEvent, EventsOf
    <2>3. \A u \in Users : FromGrant(u) => FromGrant(u)'
      <3>. SUFFICES ASSUME NEW u \in Users, NEW e \in EventsOf(u),
                           e.type \in GrantTypes, MonthLater[e.time] <= clock
                    PROVE  MonthLater[e.time] <= clock'
        BY DEF FromGrant, EventsOf
      <3>1. MonthLater[e.time] \in Nat /\ clock \in Nat
        BY RowOfPayload DEF IInv, TypeOK, EventsOf, ExpiryOf
      <3>. QED
        BY <3>1
    <2>. QED
      BY <2>2, <2>3 DEF HInv, RowsAreOfEvents
  <1>. QED
    BY <1>1, <1>2, <1>3 DEF HInv

\* A handler that starts, ends, or has not read anything yet.
LEMMA UnlockedHInv ==
    ASSUME IInv, HInv, UNCHANGED <<clock, tables>>, NEW h \in Handlers,
           tx'[h].pc \notin HoldsUser,
           \A g \in Handlers \ {h} : tx'[g] = tx[g]
    PROVE  HInv'
  <1>1. PrevStands'
    BY DEF HInv, PrevStands, ExpiredSince, LastOf, tables
  <1>2. clock' \in Nat /\ clock <= clock'
    BY DEF IInv, TypeOK
  <1>. QED
    BY <1>1, <1>2, QuietHInv

LEMMA LockAndReadHInv ==
    ASSUME IInv, HInv, NEW h \in Handlers, LockAndRead(h)
    PROVE  HInv'
  <1>1. /\ tx \in [Handlers -> Transaction]
        /\ clock' \in Nat /\ clock <= clock' /\ UNCHANGED tables
    BY DEF IInv, TypeOK, LockAndRead
  <1>2. /\ tx'[h].event = tx[h].event
        /\ tx'[h].prev = rows[tx[h].event.user]
        /\ \A g \in Handlers \ {h} : tx'[g] = tx[g]
    BY <1>1 DEF LockAndRead, Transaction
  <1>3. PrevStands'
    BY <1>1, <1>2 DEF HInv, PrevStands, ExpiredSince, LastOf, tables
  <1>. QED
    BY <1>1, <1>3, QuietHInv

LEMMA UpsertHInv ==
    ASSUME IInv, HInv, NEW h \in Handlers, Upsert(h)
    PROVE  HInv'
  <1>1. /\ tx \in [Handlers -> Transaction]
        /\ clock' \in Nat /\ clock <= clock' /\ UNCHANGED tables
    BY DEF IInv, TypeOK, Upsert
  <1>2. /\ tx'[h].event = tx[h].event
        /\ tx'[h].prev = tx[h].prev
        /\ \A g \in Handlers \ {h} : tx'[g] = tx[g]
    BY <1>1 DEF Upsert, Transaction
  <1>3. tx[h].pc \in HoldsUser
    BY DEF Upsert, At, HoldsUser
  <1>4. PrevStands'
    BY <1>1, <1>2, <1>3 DEF HInv, PrevStands, ExpiredSince, LastOf, tables
  <1>. QED
    BY <1>1, <1>4, QuietHInv

LEMMA QuietStepHInv ==
    ASSUME IInv, HInv,
           \/ Tick
           \/ \E s \in Sweepers : \/ SweepBegin(s)
                                  \/ SweepClaim(s)
                                  \/ SweepRollback(s)
           \/ UNCHANGED vars
    PROVE  HInv'
  <1>1. UNCHANGED tables /\ tx' = tx
    BY DEF Tick, SweepBegin, SweepClaim, SweepRollback, vars, tables
  <1>2. clock' \in Nat /\ clock <= clock'
    <2>1. clock \in Nat /\ (clock' = clock \/ clock' = clock + 1)
      BY DEF IInv, TypeOK, Tick, SweepBegin, SweepClaim, SweepRollback, vars
    <2>. QED
      BY <2>1
  <1>3. PrevStands'
    BY <1>1 DEF HInv, PrevStands, ExpiredSince, LastOf, tables
  <1>. QED
    BY <1>1, <1>2, <1>3, QuietHInv

LEMMA HandlerQuietHInv ==
    ASSUME IInv, HInv, NEW h \in Handlers,
           \/ \E e \in Payloads : ReceiveWebhook(h, e)
           \/ BeginTx(h)
           \/ InsertStoreEvent(h)
           \/ AnswerDuplicate(h)
           \/ Rollback(h)
    PROVE  HInv'
  <1>0. tx \in [Handlers -> Transaction]
    BY DEF IInv, TypeOK
  <1>1. UNCHANGED <<clock, tables>>
    BY DEF ReceiveWebhook, BeginTx, InsertStoreEvent, AnswerDuplicate, Rollback
  <1>2. \A g \in Handlers \ {h} : tx'[g] = tx[g]
    BY <1>0 DEF ReceiveWebhook, BeginTx, InsertStoreEvent, AnswerDuplicate,
                Rollback
  <1>3. tx'[h].pc \in {"received", "begun", "inserted", "idle"}
    <2>1. tx[h] \in Transaction
      BY <1>0
    <2>2. CASE \E e \in Payloads : ReceiveWebhook(h, e)
      <3>1. PICK e \in Payloads : ReceiveWebhook(h, e)
        BY <2>2
      <3>. QED
        BY <1>0, <3>1 DEF ReceiveWebhook
    <2>3. CASE BeginTx(h)
      BY <1>0, <2>1, <2>3 DEF BeginTx, Transaction
    <2>4. CASE InsertStoreEvent(h)
      BY <1>0, <2>1, <2>4 DEF InsertStoreEvent, Transaction
    <2>5. CASE AnswerDuplicate(h) \/ Rollback(h)
      BY <1>0, <2>5 DEF AnswerDuplicate, Rollback, IdleTx
    <2>. QED
      BY <2>2, <2>3, <2>4, <2>5
  <1>4. tx'[h].pc \notin HoldsUser
    BY <1>3 DEF HoldsUser
  <1>. QED
    BY <1>1, <1>2, <1>4, UnlockedHInv

-------------------------------------------------------------------------------
(* The commit of a webhook *)

\* What a handler overwrites differs from what it read only if the sweep closed
\* the grant that it read; its own row, which ends later, is then a change.
LEMMA WriteOverRead ==
    ASSUME IInv, HInv, NEW h \in Handlers, Commit(h), tx[h].pc = "written"
    PROVE  LET t == tx[h]
               u == tx[h].event.user
           IN  /\ ~Changes(t) => /\ rows[u] # NULL
                                 /\ StateOf(rows[u]) = StateOf(Target(t))
               /\ \/ StateOf(t.prev) = StateOf(rows[u])
                  \/ /\ audit[u] # <<>>
                     /\ LastOf(u).trigger = NULL
                     /\ StateOf(t.prev) = LastOf(u).from
                     /\ LastOf(u).from.expires < t.event.time
               /\ Changes(t) <=> StateOf(t.prev) # StateOf(Target(t))
  <1>. DEFINE t == tx[h]
              u == t.event.user
  <1>1. /\ t.event \in Payloads /\ t.active \in BOOLEAN
        /\ t.prev \in EntitlementRow \cup {NULL}
        /\ Newer(rows[u], t.event.time)
        /\ Target(t) \in EntitlementRow
    BY CommitRows, BusyHandler DEF Transaction
  <1>2. /\ t.event.time \in Nat
        /\ Target(t) # NULL
        /\ Target(t).expires = ExpiryOf(t.event)
        /\ ExpiryOf(t.event) # NULL => t.event.time < ExpiryOf(t.event)
        /\ ExpiryOf(t.event) \in Nat \cup {NULL}
    BY <1>1, RowOfPayload DEF Target, EntitlementRow
  <1>3. Changes(t) <=> StateOf(t.prev) # StateOf(Target(t))
    BY DEF Changes, StateChanged
  <1>4. StateOf(Target(t)) = [active |-> Target(t).active,
                              expires |-> Target(t).expires]
    BY <1>2 DEF StateOf
  <1>5. rows[u] = t.prev \/ ExpiredSince(u, t.prev)
    BY DEF HInv, PrevStands, HoldsUser
  <1>6. CASE rows[u] = t.prev
    <2>0. StateOf(Target(t)) # NULL
      <3>1. StateOf(Target(t)) \in RowState
        BY <1>1, <1>4 DEF EntitlementRow, RowState
      <3>. QED
        BY <3>1, NullAssumption
    <2>1. ~Changes(t) => t.prev # NULL
      BY <1>3, <2>0 DEF StateOf
    <2>. QED
      BY <1>3, <1>6, <2>1
  <1>7. CASE ExpiredSince(u, t.prev)
    <2>0. t.prev \in EntitlementRow /\ t.prev.expires \in Nat
          /\ rows[u] = Expired(t.prev)
      BY <1>7 DEF ExpiredSince
    <2>1. rows[u] # NULL
      <3>1. Expired(t.prev) \in EntitlementRow
        BY <2>0 DEF Expired, EntitlementRow
      <3>. QED
        BY <3>1, <2>0, NullAssumption
    <2>2. rows[u].lastEvent = t.prev.expires
      BY <2>0 DEF Expired
    <2>3. t.prev.expires < t.event.time
      BY <1>1, <2>1, <2>2 DEF Newer
    <2>4. t.prev.expires # Target(t).expires
      BY <1>2, <2>0, <2>3, NullAssumption
    <2>5. t.prev # NULL
      BY <2>0, NullAssumption
    <2>6. StateOf(t.prev).expires = t.prev.expires
      BY <2>5 DEF StateOf
    <2>7. StateOf(t.prev) # StateOf(Target(t))
      BY <1>4, <2>4, <2>6
    <2>8. /\ audit[u] # <<>>
          /\ LastOf(u).trigger = NULL
          /\ LastOf(u).from = StateOf(t.prev)
      BY <1>7 DEF ExpiredSince
    <2>. QED
      BY <1>3, <2>3, <2>6, <2>7, <2>8
  <1>. QED
    BY <1>3, <1>5, <1>6, <1>7

LEMMA CommitHInv ==
    ASSUME IInv, HInv, NEW h \in Handlers, Commit(h)
    PROVE  HInv'
  <1>. DEFINE t == tx[h]
              u == t.event.user
              entry == AuditEntry(t.prev, Target(t), t.event, t.now)
  <1>1. /\ t \in Transaction /\ t.event \in Payloads /\ u \in Users
        /\ t.pc \in HoldsUser
        /\ Target(t) \in EntitlementRow /\ Target(t) # NULL
        /\ Target(t).active = t.active
        /\ tx \in [Handlers -> Transaction]
    <2>1. t.pc # "idle"
      BY CommitRows DEF HoldsKey
    <2>2. t.event \in Payloads /\ t.active \in BOOLEAN
      BY <2>1, BusyHandler DEF Transaction
    <2>. QED
      BY <2>1, <2>2, BusyHandler, CommitRows, RowOfPayload DEF Target
  <1>2. \A v \in Users : rows'[v] = IF t.pc = "written" /\ v = u
                                    THEN Target(t) ELSE rows[v]
    BY CommitRows
  <1>3. /\ audit' = IF Changes(t) THEN [audit EXCEPT ![u] = Append(@, entry)]
                                 ELSE audit
        /\ notifications' = IF Schedules(t) THEN notifications \cup {Notice(t)}
                                            ELSE notifications
        /\ storeEvents' = storeEvents \cup {t.event}
        /\ clock' = clock
        /\ audit \in [Users -> Seq(Audited)]
    BY DEF Commit, AuditAfter, NotificationsAfter, IInv, TypeOK
  <1>4. Changes(t) => t.pc = "written"
    BY DEF Changes
  <1>5. t.pc = "written" =>
           /\ ~Changes(t) => /\ rows[u] # NULL
                             /\ StateOf(rows[u]) = StateOf(Target(t))
           /\ \/ StateOf(t.prev) = StateOf(rows[u])
              \/ /\ audit[u] # <<>>
                 /\ LastOf(u).trigger = NULL
                 /\ StateOf(t.prev) = LastOf(u).from
                 /\ LastOf(u).from.expires < t.event.time
           /\ Changes(t) <=> StateOf(t.prev) # StateOf(Target(t))
    BY WriteOverRead
  <1>6. History'
    <2>1. ASSUME NEW v \in Users, ~(t.pc = "written" /\ v = u)
          PROVE  Keeps(v)
      <3>1. rows'[v] = rows[v]
        BY <1>2, <2>1
      <3>2. audit'[v] = audit[v]
        BY <1>1, <1>3, <1>4, <2>1
      <3>. QED
        BY <3>1, <3>2 DEF Keeps
    <2>2. CASE t.pc = "written" /\ ~Changes(t)
      <3>1. rows'[u] = Target(t) /\ audit'[u] = audit[u]
        BY <2>2, <1>1, <1>2, <1>3
      <3>2. Keeps(u)
        BY <3>1, <2>2, <1>1, <1>5 DEF Keeps
      <3>. QED
        BY <2>1, <3>2, HistoryStep DEF IInv, HInv
    <2>3. CASE t.pc = "written" /\ Changes(t)
      <3>1. rows'[u] = Target(t) /\ audit'[u] = Append(audit[u], entry)
        BY <2>3, <1>1, <1>2, <1>3
      <3>2. entry \in Audited
        BY <1>1, AuditEntryType DEF Transaction
      <3>3. /\ entry.from = StateOf(t.prev)
            /\ entry.to = StateOf(Target(t))
            /\ entry.trigger # NULL
            /\ entry.trigger = t.event
        BY <1>1, PayloadAssumption DEF AuditEntry
      <3>. HIDE DEF entry
      <3>4. Extends(u)
        BY <3>1, <3>2, <3>3, <2>3, <1>1, <1>5 DEF Extends
      <3>. QED
        BY <2>1, <3>4, HistoryStep DEF IInv, HInv
    <2>4. CASE t.pc # "written"
      BY <2>1, <2>4, HistoryStep DEF IInv, HInv
    <2>. QED
      BY <2>2, <2>3, <2>4
  <1>7. PrevStands'
    <2>. SUFFICES ASSUME NEW g \in Handlers, tx'[g].pc \in HoldsUser,
                         NEW v, v = tx'[g].event.user,
                         NEW prev, prev = tx'[g].prev
                  PROVE  rows'[v] = prev \/ ExpiredSince(v, prev)'
      BY DEF PrevStands
    <2>1. g # h /\ tx'[g] = tx[g]
      BY <1>1 DEF Commit, IdleTx, HoldsUser
    <2>2. v = tx[g].event.user /\ prev = tx[g].prev /\ v # u /\ v \in Users
      BY <1>1, <2>1, BusyHandler, RowOfPayload
         DEF IInv, HandlersExclusive, HoldsUser
    <2>3. rows'[v] = rows[v] /\ audit'[v] = audit[v]
      BY <1>2, <1>3, <2>2
    <2>. QED
      BY <2>1, <2>2, <2>3 DEF HInv, PrevStands, ExpiredSince, LastOf
  <1>8. GrantsNoticed'
    <2>. SUFFICES ASSUME NEW v \in Users, rows'[v] # NULL, rows'[v].active
                  PROVE  Noticed(v)'
      BY DEF GrantsNoticed
    <2>1. notifications \subseteq notifications'
      BY <1>3
    <2>2. CASE rows[v] # NULL /\ StateOf(rows'[v]) = StateOf(rows[v])
      <3>1. /\ rows[v].active = rows'[v].active
            /\ rows[v].expires = rows'[v].expires
        BY <2>2 DEF StateOf
      <3>2. Noticed(v)
        BY <2>2, <3>1 DEF HInv, GrantsNoticed
      <3>. QED
        BY <2>1, <3>1, <3>2 DEF Noticed
    <2>3. CASE t.pc = "written" /\ v = u /\ Changes(t)
      <3>1. rows'[v] = Target(t) /\ t.active
        BY <2>3, <1>1, <1>2
      <3>2. /\ Notice(t).user = v
            /\ Notice(t).at = NoticeTime(rows'[v].expires)
        BY <3>1, <2>3 DEF Notice
      <3>3. CASE Schedules(t)
        BY <3>2, <3>3, <1>3 DEF Noticed
      <3>4. CASE ~Schedules(t)
        <4>1. PICK n \in notifications : /\ n.user = u
                                         /\ DayOf(n.at) = DayOf(Notice(t).at)
          BY <2>3, <3>1, <3>4 DEF Schedules
        <4>. QED
          BY <2>1, <2>3, <3>2, <4>1 DEF Noticed
      <3>. QED
        BY <3>3, <3>4
    <2>4. CASE ~(t.pc = "written" /\ v = u)
      BY <2>2, <2>4, <1>2
    <2>5. CASE t.pc = "written" /\ v = u /\ ~Changes(t)
      BY <2>2, <2>5, <1>2, <1>5
    <2>. QED
      BY <2>3, <2>4, <2>5
  <1>9. RowsAreOfEvents'
    <2>. SUFFICES ASSUME NEW v \in Users, rows'[v] # NULL
                  PROVE  FromEvent(v)' \/ FromGrant(v)'
      BY DEF RowsAreOfEvents
    <2>1. CASE t.pc = "written" /\ v = u
      <3>1. PICK received \in 0..clock : t.active = GrantsAccess(t.event, received)
        BY <2>1, BusyHandler
      <3>2. rows'[v] = RowOf(t.event, GrantsAccess(t.event, received))
        BY <2>1, <3>1, <1>2 DEF Target
      <3>3. t.event \in EventsOf(v)'
        BY <2>1, <1>3 DEF EventsOf
      <3>. QED
        BY <3>2, <3>3, <1>3 DEF FromEvent
    <2>2. CASE ~(t.pc = "written" /\ v = u)
      <3>1. rows'[v] = rows[v]
        BY <2>2, <1>2
      <3>2. FromEvent(v) \/ FromGrant(v)
        BY <3>1 DEF HInv, RowsAreOfEvents
      <3>3. EventsOf(v) \subseteq EventsOf(v)'
        BY <1>3 DEF EventsOf
      <3>. QED
        BY <3>1, <3>2, <3>3, <1>3 DEF FromEvent, FromGrant
    <2>. QED
      BY <2>1, <2>2
  <1>. QED
    BY <1>6, <1>7, <1>8, <1>9 DEF HInv

-------------------------------------------------------------------------------
(* The commit of a batch *)

LEMMA SweepCommitHInv ==
    ASSUME IInv, HInv, NEW s \in Sweepers, SweepCommit(s)
    PROVE  HInv'
  <1>. DEFINE batch == sweep[s].batch
  <1>1. /\ batch \subseteq Users
        /\ sweep[s].now \in Nat
        /\ \A v \in batch : /\ Expirable(rows[v], sweep[s].now)
                            /\ rows[v] \in EntitlementRow /\ rows[v] # NULL
                            /\ rows[v].expires \in Nat
                            /\ Expired(rows[v]) \in EntitlementRow
                            /\ Expired(rows[v]) # NULL
                            /\ Expired(rows[v]).active = FALSE
    BY SweepRows, ExpiredRow
  <1>2. \A v \in Users : rows'[v] = IF v \in batch THEN Expired(rows[v])
                                                   ELSE rows[v]
    BY SweepRows
  <1>3. /\ UNCHANGED <<clock, notifications, tx>>
        /\ \A v \in Users :
              audit'[v] = IF v \in batch
                          THEN Append(audit[v],
                                      AuditEntry(rows[v], Expired(rows[v]), NULL,
                                                 sweep[s].now))
                          ELSE audit[v]
    BY <1>1 DEF SweepCommit
  <1>4. History'
    <2>1. ASSUME NEW v \in batch
          PROVE  Extends(v)
      <3>. DEFINE entry == AuditEntry(rows[v], Expired(rows[v]), NULL, sweep[s].now)
      <3>1. entry \in Audited
        BY <1>1, AuditEntryType
      <3>2. /\ audit'[v] = Append(audit[v], entry)
            /\ rows'[v] = Expired(rows[v])
        BY <1>1, <1>2, <1>3
      <3>3. /\ entry.from = StateOf(rows[v])
            /\ entry.to = StateOf(Expired(rows[v]))
            /\ entry.at = sweep[s].now
        BY DEF AuditEntry
      <3>4. entry.from.active /\ entry.from.expires <= entry.at
        BY <1>1, <3>3 DEF StateOf, Expirable
      <3>5. entry.from # entry.to
        <4>1. /\ StateOf(rows[v]).active
              /\ ~StateOf(Expired(rows[v])).active
          BY <1>1 DEF StateOf, Expirable
        <4>. QED
          BY <3>3, <4>1
      <3>. HIDE DEF entry
      <3>. QED
        BY <1>1, <3>1, <3>2, <3>3, <3>4, <3>5 DEF Extends
    <2>2. ASSUME NEW v \in Users, v \notin batch
          PROVE  Keeps(v)
      BY <2>2, <1>2, <1>3 DEF Keeps
    <2>. QED
      BY <2>1, <2>2, HistoryStep DEF IInv, HInv
  <1>5. PrevStands'
    <2>. SUFFICES ASSUME NEW h \in Handlers, tx[h].pc \in HoldsUser,
                         NEW u, u = tx[h].event.user,
                         NEW prev, prev = tx[h].prev
                  PROVE  rows'[u] = prev \/ ExpiredSince(u, prev)'
      BY <1>3 DEF PrevStands
    <2>1. u \in Users
      BY BusyHandler, RowOfPayload DEF HoldsUser
    <2>2. rows[u] = prev \/ ExpiredSince(u, prev)
      BY DEF HInv, PrevStands
    <2>3. CASE u \in batch
      <3>. DEFINE entry == AuditEntry(rows[u], Expired(rows[u]), NULL, sweep[s].now)
      <3>1. rows[u].active
        BY <1>1, <2>3 DEF Expirable
      <3>2. rows[u] # Expired(prev)
        BY <3>1 DEF Expired
      <3>3. rows[u] = prev
        BY <2>2, <3>2 DEF ExpiredSince
      <3>4. rows'[u] = Expired(prev) /\ audit'[u] = Append(audit[u], entry)
        BY <1>2, <1>3, <2>1, <2>3, <3>3
      <3>5. entry \in Audited /\ entry.trigger = NULL /\ entry.from = StateOf(prev)
        BY <1>1, <2>3, <3>3, AuditEntryType DEF AuditEntry
      <3>6. audit[u] \in Seq(Audited)
        BY <2>1 DEF IInv, TypeOK
      <3>. HIDE DEF entry
      <3>7. audit'[u] # <<>> /\ LastOf(u)' = entry
        <4>1. PICK log \in Seq(Audited) : log = audit[u]
          BY <3>6
        <4>2. PICK e \in Audited : e = entry
          BY <3>5
        <4>3. /\ Append(log, e) # <<>>
              /\ Append(log, e)[Len(Append(log, e))] = e
          BY Appended
        <4>. QED
          BY <3>4, <4>1, <4>2, <4>3 DEF LastOf
      <3>8. /\ Sweepers # {} /\ prev \in EntitlementRow
            /\ prev.active /\ prev.expires \in Nat
        BY <1>1, <2>3, <3>1, <3>3
      <3>9. audit'[u] # <<>> /\ LastOf(u)'.trigger = NULL /\ LastOf(u)'.from = StateOf(prev)
        BY <3>5, <3>7
      <3>. QED
        BY <3>4, <3>8, <3>9 DEF ExpiredSince
    <2>4. CASE u \notin batch
      BY <1>2, <1>3, <2>1, <2>2, <2>4 DEF ExpiredSince, LastOf
    <2>. QED
      BY <2>3, <2>4
  <1>6. GrantsNoticed'
    <2>. SUFFICES ASSUME NEW v \in Users, rows'[v] # NULL, rows'[v].active
                  PROVE  Noticed(v)'
      BY DEF GrantsNoticed
    <2>1. rows'[v] = rows[v]
      BY <1>1, <1>2
    <2>. QED
      BY <1>3, <2>1 DEF HInv, GrantsNoticed, Noticed
  <1>7. RowsAreOfEvents'
    <2>. SUFFICES ASSUME NEW v \in Users, rows'[v] # NULL
                  PROVE  FromEvent(v)' \/ FromGrant(v)'
      BY DEF RowsAreOfEvents
    <2>1. EventsOf(v)' = EventsOf(v)
      BY DEF SweepCommit, EventsOf
    <2>2. CASE v \notin batch
      BY <1>2, <1>3, <2>1, <2>2 DEF HInv, RowsAreOfEvents, FromEvent, FromGrant
    <2>3. CASE v \in batch
      <3>1. rows[v].active /\ rows[v] # NULL
        BY <1>1, <2>3 DEF Expirable
      <3>2. PICK e \in EventsOf(v) : /\ e.type \in GrantTypes
                                     /\ rows[v] = RowOf(e, TRUE)
        BY <3>1 DEF IInv, ActiveIsEarned
      <3>3. rows[v].expires = MonthLater[e.time]
        BY <3>2 DEF RowOf, ExpiryOf
      <3>4. sweep[s].now <= clock /\ clock \in Nat
        BY SweepRows DEF IInv, TypeOK
      <3>5. MonthLater[e.time] <= clock
        BY <1>1, <2>3, <3>3, <3>4 DEF Expirable
      <3>. QED
        BY <1>2, <1>3, <2>1, <2>3, <3>2, <3>5 DEF FromGrant
    <2>. QED
      BY <2>2, <2>3
  <1>. QED
    BY <1>4, <1>5, <1>6, <1>7 DEF HInv

-------------------------------------------------------------------------------
(* Theorems *)

LEMMA InitHInv == Init => HInv
  <1>. SUFFICES ASSUME Init PROVE HInv
    OBVIOUS
  <1>1. PrevStands
    BY DEF Init, IdleTx, PrevStands, HoldsUser
  <1>2. History
    BY DEF Init, History, AuditTipMatchesProjection, ExpirationExtendsHistory,
           HistoryForksAtExpirations, OnlyWebhooks
  <1>3. GrantsNoticed /\ RowsAreOfEvents
    BY DEF Init, GrantsNoticed, RowsAreOfEvents
  <1>. QED
    BY <1>1, <1>2, <1>3 DEF HInv

LEMMA NextHInv == IInv /\ HInv /\ [Next]_vars => HInv'
  <1>. SUFFICES ASSUME IInv, HInv, [Next]_vars PROVE HInv'
    OBVIOUS
  <1>1. CASE Tick \/ UNCHANGED vars
    BY <1>1, QuietStepHInv
  <1>2. ASSUME NEW h \in Handlers, NEW e \in Payloads, ReceiveWebhook(h, e)
        PROVE  HInv'
    BY <1>2, HandlerQuietHInv
  <1>3. ASSUME NEW h \in Handlers, HandlerStep(h) \/ Rollback(h)
        PROVE  HInv'
    BY <1>3, HandlerQuietHInv, LockAndReadHInv, UpsertHInv, CommitHInv
       DEF HandlerStep
  <1>4. ASSUME NEW s \in Sweepers, SweepStep(s) \/ SweepRollback(s)
        PROVE  HInv'
    BY <1>4, QuietStepHInv, SweepCommitHInv DEF SweepStep
  <1>. QED
    BY <1>1, <1>2, <1>3, <1>4 DEF Next

\* What handlers have read stays true or was expired since, and the audit log
\* follows the rows.
THEOREM HistoryInvariance == Spec => []HInv
  BY InitHInv, NextHInv, Invariance, PTL DEF Spec

\* The last audit row of a user is the state of the user's row, although a
\* handler audits against what it read and the sweep may have written since.
THEOREM AuditTipIsCurrent == Spec => []AuditTipMatchesProjection
  <1>1. HInv => AuditTipMatchesProjection
    BY DEF HInv, History
  <1>. QED
    BY <1>1, HistoryInvariance, PTL

\* An audit row of the sweep closes the grant the row before it left, when that
\* has ended: no expiration is recorded twice or over a renewal.
THEOREM ExpirationsExtendHistory == Spec => []ExpirationExtendsHistory
  <1>1. HInv => ExpirationExtendsHistory
    BY DEF HInv, History
  <1>. QED
    BY <1>1, HistoryInvariance, PTL

\* The log is a chain up to expirations that were overtaken: a row either starts
\* where the one before it ended, or from the grant which that one expired.
THEOREM HistoryForksOnlyAtExpirations == Spec => []HistoryForksAtExpirations
  <1>1. HInv => HistoryForksAtExpirations
    BY DEF HInv, History
  <1>. QED
    BY <1>1, HistoryInvariance, PTL

\* Whoever was granted access and has none lost it by an event that takes access
\* away or by the end of a grant, and no accepted event is newer than that.
THEOREM AccessIsOnlyLostForCause == Spec => []AccessIsLostForCause
  <1>1. IInv /\ HInv => AccessIsLostForCause
    <2>. SUFFICES ASSUME IInv, HInv, NEW u \in Users, rows[u] # NULL,
                         ~IsActive(rows[u], clock)
                  PROVE  /\ \A f \in EventsOf(u) : f.time <= rows[u].lastEvent
                         /\ \E e \in EventsOf(u) :
                               \/ /\ e.type \notin GrantTypes
                                  /\ rows[u] = RowOf(e, FALSE)
                               \/ /\ e.type \in GrantTypes
                                  /\ MonthLater[e.time] <= clock
                                  /\ rows[u] \in {RowOf(e, TRUE), RowOf(e, FALSE),
                                                  Expired(RowOf(e, TRUE))}
      BY DEF AccessIsLostForCause
    <2>1. \A f \in EventsOf(u) : f.time <= rows[u].lastEvent
      BY DEF IInv, EventsAccounted, EventsOf
    <2>2. CASE FromGrant(u)
      BY <2>1, <2>2 DEF FromGrant
    <2>3. CASE FromEvent(u)
      <3>1. PICK e \in EventsOf(u), received \in 0..clock :
                rows[u] = RowOf(e, GrantsAccess(e, received))
        BY <2>3 DEF FromEvent
      <3>2. CASE e.type \notin GrantTypes
        BY <2>1, <3>1, <3>2 DEF GrantsAccess
      <3>3. CASE e.type \in GrantTypes
        <4>1. e \in Payloads /\ clock \in Nat
          BY DEF IInv, TypeOK, EventsOf
        <4>2. MonthLater[e.time] \in Nat
          BY <3>3, <4>1, RowOfPayload DEF ExpiryOf
        <4>3. rows[u] \in {RowOf(e, TRUE), RowOf(e, FALSE)}
          BY <3>1, GrantsAccessBoolean
        <4>4. MonthLater[e.time] <= clock
          <5>1. CASE ~GrantsAccess(e, received)
            BY <3>3, <4>1, <4>2, <5>1 DEF GrantsAccess
          <5>2. CASE GrantsAccess(e, received)
            <6>1. rows[u].active /\ rows[u].expires = MonthLater[e.time]
              BY <3>1, <3>3, <5>2 DEF RowOf, ExpiryOf
            <6>. QED
              BY <4>1, <4>2, <6>1 DEF IsActive
          <5>. QED
            BY <5>1, <5>2
        <4>. QED
          BY <2>1, <3>3, <4>3, <4>4
      <3>. QED
        BY <3>2, <3>3
    <2>. QED
      BY <2>2, <2>3 DEF HInv, RowsAreOfEvents
  <1>. QED
    BY <1>1, Invariance, HistoryInvariance, PTL

\* Whoever has access has a notice for the day before it ends, in spite of
\* races that suppress it as a duplicate or as no change.
THEOREM CurrentGrantsAreNoticed == Spec => []CurrentGrantHasNotice
  <1>1. HInv => CurrentGrantHasNotice
    BY DEF HInv, GrantsNoticed, Noticed, CurrentGrantHasNotice, IsActive
  <1>. QED
    BY <1>1, HistoryInvariance, PTL

\* Among writers that take the advisory lock, each audit row starts from the
\* state that the one before it ended in.
THEOREM WebhooksChain == Sweepers = {} => (Spec => []AuditChain)
  <1>. SUFFICES ASSUME Sweepers = {} PROVE Spec => []AuditChain
    OBVIOUS
  <1>1. IInv /\ HInv => AuditChain
    <2>. SUFFICES ASSUME IInv, HInv, NEW u \in Users, NEW i \in DOMAIN audit[u]
                  PROVE  /\ audit[u][i].from = IF i = 1 THEN NULL
                                                ELSE audit[u][i - 1].to
                         /\ audit[u][i].from # audit[u][i].to
      BY DEF AuditChain
    <2>1. i \in 1..Len(audit[u]) /\ Len(audit[u]) \in Nat
      <3>1. audit[u] \in Seq(Audited)
        BY DEF IInv, TypeOK
      <3>. QED
        BY <3>1, Appended
    <2>2. Sound(audit[u], i) /\ (i # 1 => Sound(audit[u], i - 1))
      <3>1. i # 1 => i - 1 \in DOMAIN audit[u]
        <4>1. audit[u] \in Seq(Audited)
          BY DEF IInv, TypeOK
        <4>. QED
          BY <2>1, <4>1
      <3>. QED
        BY <3>1, HistoryIsSound DEF HInv
    <2>. QED
      BY <2>1, <2>2 DEF Sound
  <1>. QED
    BY <1>1, Invariance, HistoryInvariance, PTL

\* Among writers that take the advisory lock, event time alone decides who has
\* access, whatever the order of arrival.
THEOREM WebhooksOrderByEventTime == Sweepers = {} => (Spec => []EventTimeDrivesState)
  <1>. SUFFICES ASSUME Sweepers = {} PROVE Spec => []EventTimeDrivesState
    OBVIOUS
  <1>1. IInv /\ HInv => EventTimeDrivesState
    <2>. SUFFICES ASSUME IInv, HInv, NEW u \in Users, EventsOf(u) # {}
                  PROVE  \E e \in NewestOf(u) :
                            IsActive(rows[u], clock) <=> GrantsAccess(e, clock)
      BY DEF EventTimeDrivesState
    <2>1. rows[u] # NULL
      BY DEF IInv, EventsAccounted, EventsOf
    <2>2. PICK e \in EventsOf(u), received \in 0..clock :
              rows[u] = RowOf(e, GrantsAccess(e, received))
      BY <2>1 DEF HInv, RowsAreOfEvents, FromEvent, FromGrant
    <2>3. /\ rows[u].active = GrantsAccess(e, received)
          /\ rows[u].expires = ExpiryOf(e)
          /\ rows[u].lastEvent = e.time
      BY <2>2 DEF RowOf
    <2>4. e \in NewestOf(u)
      BY <2>3 DEF IInv, EventsAccounted, EventsOf, NewestOf
    <2>5. e \in Payloads /\ clock \in Nat
      BY DEF IInv, TypeOK, EventsOf
    <2>6. e.type \in GrantTypes => MonthLater[e.time] \in Nat
      BY <2>5, RowOfPayload DEF ExpiryOf
    <2>7. CASE e.type \notin GrantTypes
      BY <2>3, <2>4, <2>7 DEF GrantsAccess, IsActive
    <2>8. CASE e.type \in GrantTypes
      <3>1. rows[u].expires = MonthLater[e.time]
            /\ MonthLater[e.time] \in Nat /\ MonthLater[e.time] # NULL
        BY <2>3, <2>6, <2>8, NullAssumption DEF ExpiryOf
      <3>2. rows[u].active <=> received < MonthLater[e.time]
        BY <2>3, <2>8 DEF GrantsAccess
      <3>3. clock < MonthLater[e.time] => received < MonthLater[e.time]
        BY <2>5, <3>1
      <3>. QED
        BY <2>1, <2>4, <2>8, <3>1, <3>2, <3>3 DEF GrantsAccess, IsActive
    <2>. QED
      BY <2>7, <2>8
  <1>. QED
    BY <1>1, Invariance, HistoryInvariance, PTL
===============================================================================
