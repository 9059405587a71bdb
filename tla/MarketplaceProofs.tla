--------------------------- MODULE MarketplaceProofs ---------------------------
(***************************************************************************)
(* What holds of bulk revocations for every number of users, handlers and  *)
(* requests: a recorded revocation has been applied, a 202 means that all  *)
(* users of the request are on record, and the audit log names each        *)
(* revocation at most once.                                                *)
(***************************************************************************)
EXTENDS Marketplace, TLAPS

-------------------------------------------------------------------------------
(* The inductive invariant *)

CurrentOf(r) == r.users[r.next]
ReqKey(r) == Key(CurrentOf(r), r.at)

\* Where a transaction has its user's advisory lock, and where the row's too.
HoldsUser == InTx \ {"inserted"}
HoldsRow == {"rejected", "written"}

\* A request has the locks that its open transaction has taken so far, all of
\* the user it is at, and none between transactions.
LocksHeld(r) ==
    r.locks = (IF r.pc \in InTx THEN {KeyLock(ReqKey(r))} ELSE {})
              \cup (IF r.pc \in HoldsUser THEN {UserLock(CurrentOf(r))} ELSE {})
              \cup (IF r.pc \in HoldsRow THEN {RowLock(CurrentOf(r))} ELSE {})

\* The key of an open transaction is not on record.
KeyIsFresh(r) == r.pc \in InTx => ~Recorded(ReqKey(r))

\* What a transaction found about its row is still so.
JudgementStands(r) ==
    /\ r.pc = "written" => Newer(rows[CurrentOf(r)], r.at)
    /\ r.pc \in {"skipped", "rejected"} => ~Newer(rows[CurrentOf(r)], r.at)

\* The users a request has passed are on record.
PassedAreRecorded(r) ==
    \A i \in DOMAIN r.users : i < r.next => Recorded(Key(r.users[i], r.at))

RequestsSound ==
    \A h \in Handlers : /\ LocksHeld(req[h])
                        /\ KeyIsFresh(req[h])
                        /\ JudgementStands(req[h])
                        /\ PassedAreRecorded(req[h])

HandlersExclusive ==
    \A h, g \in Handlers : h # g =>
        /\ req[h].pc \in InTx /\ req[g].pc \in InTx => KeyOf(h) # KeyOf(g)
        /\ req[h].pc \in HoldsUser /\ req[g].pc \in HoldsUser =>
              Current(h) # Current(g)

\* A grant ends after its own time, so that closing it makes the row newer.
ExpiryFollowsEvent ==
    \A u \in Users :
        rows[u] # NULL /\ rows[u].active /\ rows[u].expires # NULL =>
            rows[u].lastEvent < rows[u].expires

IInv == /\ TypeOK
        /\ RequestsSound
        /\ HandlersExclusive
        /\ ExpiryFollowsEvent
        /\ RecordedIsApplied
        /\ AnsweredIsRecorded
        /\ AuditNamesItsRevocation

-------------------------------------------------------------------------------
(* Records *)

LEMMA IdleReqType == IdleReq \in Request
  BY DEF IdleReq, Request, InTx

\* Each lock is of its kind and of what it locks.
LEMMA LockFacts ==
    ASSUME NEW x, NEW y
    PROVE  /\ KeyLock(x) = KeyLock(y) => x = y
           /\ UserLock(x) = UserLock(y) => x = y
           /\ RowLock(x) = RowLock(y) => x = y
           /\ KeyLock(x) # UserLock(y) /\ KeyLock(x) # RowLock(y)
           /\ UserLock(x) # RowLock(y)
           /\ x \in Keys => KeyLock(x) \in Locks
           /\ x \in Users => UserLock(x) \in Locks /\ RowLock(x) \in Locks
  BY DEF KeyLock, UserLock, RowLock, Locks

\* What the locks of a request say of the point it is at.
LEMMA HeldLocks ==
    ASSUME NEW r, LocksHeld(r), NEW x
    PROVE  /\ KeyLock(x) \in r.locks <=> r.pc \in InTx /\ x = ReqKey(r)
           /\ UserLock(x) \in r.locks <=> r.pc \in HoldsUser /\ x = CurrentOf(r)
           /\ RowLock(x) \in r.locks <=> r.pc \in HoldsRow /\ x = CurrentOf(r)
  <1>. DEFINE k == ReqKey(r)
              u == CurrentOf(r)
  <1>1. /\ KeyLock(x) = KeyLock(k) <=> x = k
        /\ UserLock(x) = UserLock(u) <=> x = u
        /\ RowLock(x) = RowLock(u) <=> x = u
        /\ KeyLock(x) # UserLock(u) /\ KeyLock(x) # RowLock(u)
        /\ UserLock(x) # KeyLock(k) /\ UserLock(x) # RowLock(u)
        /\ RowLock(x) # KeyLock(k) /\ RowLock(x) # UserLock(u)
    <2>1. \A a, b : /\ KeyLock(a) = KeyLock(b) <=> a = b
                    /\ UserLock(a) = UserLock(b) <=> a = b
                    /\ RowLock(a) = RowLock(b) <=> a = b
                    /\ KeyLock(a) # UserLock(b) /\ KeyLock(a) # RowLock(b)
                    /\ UserLock(a) # RowLock(b)
      BY LockFacts
    <2>. QED
      BY <2>1
  <1>. HIDE DEF k, u
  <1>2. r.locks = (IF r.pc \in InTx THEN {KeyLock(k)} ELSE {})
                  \cup (IF r.pc \in HoldsUser THEN {UserLock(u)} ELSE {})
                  \cup (IF r.pc \in HoldsRow THEN {RowLock(u)} ELSE {})
    BY DEF LocksHeld, k, u
  <1>. QED
    BY <1>1, <1>2 DEF k, u

LEMMA KeyType ==
    ASSUME NEW u \in Users, NEW t \in Nat
    PROVE  Key(u, t) \in Keys /\ Key(u, t).user = u
  <1>1. MonthOf(t) \in Nat
    BY RequestAssumption DEF MonthOf
  <1>. QED
    BY <1>1 DEF Key, Keys

LEMMA RevokedType ==
    ASSUME NEW t \in Nat
    PROVE  /\ Revoked(t) \in EntitlementRow /\ Revoked(t) # NULL
           /\ Revoked(t).lastEvent = t /\ Revoked(t).active = FALSE
  <1>1. Revoked(t) \in EntitlementRow
    BY DEF Revoked, EntitlementRow
  <1>. QED
    BY <1>1, NullAssumption DEF Revoked

LEMMA EntryType ==
    ASSUME NEW a \in EntitlementRow \cup {NULL}, NEW b \in EntitlementRow \cup {NULL},
           NEW k \in Keys \cup {NULL}
    PROVE  AuditEntry(a, b, k) \in [from : RowState \cup {NULL},
                                    to : RowState \cup {NULL},
                                    trigger : Keys \cup {NULL}]
  BY DEF AuditEntry, StateOf, RowState, EntitlementRow

LEMMA RowTypes ==
    ASSUME IInv, NEW u \in Users, rows[u] # NULL
    PROVE  /\ rows[u] \in EntitlementRow
           /\ rows[u].lastEvent \in Nat
           /\ rows[u].active \in BOOLEAN
           /\ rows[u].expires \in Nat \cup {NULL}
  BY DEF IInv, TypeOK, EntitlementRow

\* Where an open transaction is.
LEMMA InTxTypes ==
    ASSUME IInv, NEW h \in Handlers, req[h].pc \in InTx
    PROVE  /\ req[h] \in Request
           /\ req[h].next \in DOMAIN req[h].users
           /\ Current(h) \in Users
           /\ Current(h) = CurrentOf(req[h])
           /\ req[h].at \in Nat
           /\ KeyOf(h) = ReqKey(req[h])
           /\ KeyOf(h) \in Keys
  <1>1. /\ req[h] \in Request
        /\ req[h].next \in DOMAIN req[h].users
    BY DEF IInv, TypeOK
  <1>2. req[h].users \in Seq(Users) /\ req[h].at \in Nat
    BY <1>1 DEF Request
  <1>3. Current(h) \in Users
    BY <1>1, <1>2 DEF Current
  <1>. QED
    BY <1>1, <1>2, <1>3, KeyType DEF CurrentOf, Current, ReqKey, KeyOf

-------------------------------------------------------------------------------
(* Steps that change the record of one request *)

\* The part of the invariant that is about one request alone.
Sound(r) == /\ r \in Request
            /\ r.pc \in InTx => r.next \in DOMAIN r.users
            /\ LocksHeld(r)
            /\ KeyIsFresh(r)
            /\ JudgementStands(r)
            /\ PassedAreRecorded(r)

\* Request r of handler h holds no lock that another handler holds.
Alone(h, r) ==
    \A g \in Handlers \ {h} :
        /\ r.pc \in InTx /\ req[g].pc \in InTx => ReqKey(r) # KeyOf(g)
        /\ r.pc \in HoldsUser /\ req[g].pc \in HoldsUser =>
              CurrentOf(r) # Current(g)

LEMMA RequestIsSound ==
    ASSUME IInv, NEW h \in Handlers
    PROVE  Sound(req[h]) /\ Alone(h, req[h])
  BY DEF IInv, TypeOK, RequestsSound, HandlersExclusive, Sound, Alone, ReqKey,
         KeyOf, CurrentOf, Current

\* What the locks of the requests say of the points they are at.
LEMMA LocksTell ==
    ASSUME IInv, NEW h \in Handlers
    PROVE  \A x : /\ KeyLock(x) \in req[h].locks <=>
                        req[h].pc \in InTx /\ x = KeyOf(h)
                  /\ UserLock(x) \in req[h].locks <=>
                        req[h].pc \in HoldsUser /\ x = Current(h)
                  /\ RowLock(x) \in req[h].locks <=>
                        req[h].pc \in HoldsRow /\ x = Current(h)
  BY RequestIsSound, HeldLocks DEF Sound, ReqKey, KeyOf, CurrentOf, Current

LEMMA HandlerIInv ==
    ASSUME IInv, NEW h \in Handlers, NEW r,
           UNCHANGED <<clock, tables>>,
           req' = [req EXCEPT ![h] = r],
           Sound(r), Alone(h, r),
           reported' \in Nat,
           answered' \in SUBSET [users : Seq(Users), at : Nat],
           \A a \in answered' : a \in answered \/
               \A i \in DOMAIN a.users : Recorded(Key(a.users[i], a.at))
    PROVE  IInv'
  <1>. USE DEF tables
  <1>1. \A g \in Handlers : req'[g] = IF g = h THEN r ELSE req[g]
    BY DEF IInv, TypeOK
  <1>2. \A k : Recorded(k)' = Recorded(k)
    BY DEF Recorded
  <1>3. req' \in [Handlers -> Request]
    BY DEF IInv, TypeOK, Sound
  <1>4. TypeOK'
    BY <1>1, <1>3 DEF IInv, TypeOK, Sound
  <1>5. RequestsSound'
    <2>. SUFFICES ASSUME NEW g \in Handlers
                  PROVE  /\ LocksHeld(req[g])'
                         /\ KeyIsFresh(req[g])'
                         /\ JudgementStands(req[g])'
                         /\ PassedAreRecorded(req[g])'
      BY DEF RequestsSound
    <2>. DEFINE q == IF g = h THEN r ELSE req[g]
    <2>1. /\ LocksHeld(q) /\ KeyIsFresh(q)
          /\ JudgementStands(q) /\ PassedAreRecorded(q)
      BY DEF Sound, IInv, RequestsSound
    <2>2. req'[g] = q
      BY <1>1
    <2>. HIDE DEF q
    <2>3. KeyIsFresh(req[g])'
      BY <2>1, <2>2, <1>2 DEF KeyIsFresh, ReqKey, CurrentOf
    <2>4. JudgementStands(req[g])'
      BY <2>1, <2>2 DEF JudgementStands, CurrentOf
    <2>5. PassedAreRecorded(req[g])'
      BY <2>1, <2>2, <1>2 DEF PassedAreRecorded
    <2>6. LocksHeld(req[g])'
      BY <2>1, <2>2 DEF LocksHeld, ReqKey, CurrentOf
    <2>. QED
      BY <2>3, <2>4, <2>5, <2>6
  <1>6. HandlersExclusive'
    <2>. SUFFICES ASSUME NEW f \in Handlers, NEW g \in Handlers, f # g
                  PROVE  /\ req'[f].pc \in InTx /\ req'[g].pc \in InTx =>
                               KeyOf(f)' # KeyOf(g)'
                         /\ req'[f].pc \in HoldsUser /\ req'[g].pc \in HoldsUser =>
                               Current(f)' # Current(g)'
      BY DEF HandlersExclusive
    <2>1. \A g1 \in Handlers : /\ KeyOf(g1)' = ReqKey(req'[g1])
                               /\ Current(g1)' = CurrentOf(req'[g1])
                               /\ KeyOf(g1) = ReqKey(req[g1])
                               /\ Current(g1) = CurrentOf(req[g1])
      BY DEF KeyOf, Current, ReqKey, CurrentOf
    <2>2. CASE f = h
      BY <2>1, <2>2, <1>1 DEF Alone
    <2>3. CASE g = h
      BY <2>1, <2>3, <1>1 DEF Alone
    <2>4. CASE f # h /\ g # h
      BY <2>1, <2>4, <1>1 DEF IInv, HandlersExclusive
    <2>. QED
      BY <2>2, <2>3, <2>4
  <1>7. AnsweredIsRecorded'
    BY <1>2 DEF IInv, AnsweredIsRecorded
  <1>8. ExpiryFollowsEvent' /\ RecordedIsApplied'
    BY DEF IInv, ExpiryFollowsEvent, RecordedIsApplied
  <1>9. AuditNamesItsRevocation'
    BY <1>2 DEF IInv, AuditNamesItsRevocation
  <1>. QED
    BY <1>4, <1>5, <1>6, <1>7, <1>8, <1>9 DEF IInv

-------------------------------------------------------------------------------
(* The steps of a request *)

LEMMA IdleIsSound ==
    ASSUME IInv, NEW h \in Handlers
    PROVE  Sound(IdleReq) /\ Alone(h, IdleReq)
  BY IdleReqType DEF IdleReq, Sound, Alone, LocksHeld, KeyIsFresh,
     JudgementStands, PassedAreRecorded, InTx, HoldsUser, HoldsRow

LEMMA ReceiveIInv ==
    ASSUME IInv, NEW h \in Handlers, NEW users \in Requests, Receive(h, users)
    PROVE  IInv'
  <1>. DEFINE r == [pc |-> "next", users |-> users, next |-> 1, at |-> clock,
                    count |-> 0, prev |-> NULL, locks |-> {}]
  <1>2. users \in Seq(Users) /\ clock \in Nat
    BY RequestAssumption DEF IInv, TypeOK
  <1>3. /\ r \in Request /\ r.pc = "next" /\ r.users = users /\ r.next = 1
        /\ r.locks = {}
    BY <1>2 DEF Request, InTx
  <1>4. \A i \in DOMAIN users : ~(i < 1)
    BY <1>2
  <1>. HIDE DEF r
  <1>5. Sound(r) /\ Alone(h, r)
    BY <1>3, <1>4 DEF Sound, Alone, LocksHeld, KeyIsFresh, JudgementStands,
       PassedAreRecorded, InTx, HoldsUser, HoldsRow
  <1>6. /\ UNCHANGED <<clock, tables, reported, answered>>
        /\ req' = [req EXCEPT ![h] = r]
    BY DEF Receive, r
  <1>. QED
    BY <1>5, <1>6, HandlerIInv DEF IInv, TypeOK

LEMMA AtUserTypes ==
    ASSUME IInv, NEW h \in Handlers, AtUser(h)
    PROVE  /\ req[h] \in Request
           /\ req[h].users \in Seq(Users)
           /\ req[h].next \in DOMAIN req[h].users
  <1>1. req[h] \in Request
    BY DEF IInv, TypeOK
  <1>2. req[h].users \in Seq(Users) /\ req[h].next \in Nat \ {0}
    BY <1>1 DEF Request
  <1>. QED
    BY <1>1, <1>2 DEF AtUser

LEMMA InsertIInv ==
    ASSUME IInv, NEW h \in Handlers, InsertRevocation(h)
    PROVE  IInv'
  <1>. DEFINE locks == req[h].locks \cup {KeyLock(KeyOf(h))}
              r == [req[h] EXCEPT !.pc = "inserted", !.locks = locks]
  <1>1. AtUser(h)
    BY DEF InsertRevocation
  <1>2. req[h] \in Request /\ req[h].next \in DOMAIN req[h].users
    BY <1>1, AtUserTypes
  <1>3. locks \in SUBSET Locks
    <2>1. /\ req[h].users \in Seq(Users) /\ req[h].at \in Nat
          /\ req[h].locks \in SUBSET Locks
      BY <1>2 DEF Request
    <2>2. Current(h) \in Users
      BY <1>2, <2>1 DEF Current
    <2>3. KeyOf(h) \in Keys
      BY <2>1, <2>2, KeyType DEF KeyOf
    <2>. QED
      BY <2>1, <2>3, LockFacts
  <1>4. /\ r \in Request /\ r.pc = "inserted" /\ r.next = req[h].next
        /\ r.users = req[h].users /\ r.at = req[h].at /\ r.locks = locks
    BY <1>2, <1>3 DEF Request, InTx
  <1>5. req' = [req EXCEPT ![h] = r]
    BY DEF InsertRevocation, IInv, TypeOK
  <1>6. req[h].pc = "next" /\ LocksHeld(req[h])
    BY <1>1, RequestIsSound DEF AtUser, Sound
  <1>. HIDE DEF r
  <1>7. ReqKey(r) = KeyOf(h)
    BY <1>4 DEF ReqKey, KeyOf, CurrentOf, Current
  <1>8. Sound(r)
    <2>1. LocksHeld(r)
      BY <1>4, <1>7, <1>6 DEF LocksHeld, InTx, HoldsUser, HoldsRow
    <2>. QED
      BY <1>2, <1>4, <1>7, <2>1 DEF InsertRevocation, IInv, RequestsSound, Sound,
         KeyIsFresh, JudgementStands, PassedAreRecorded
  <1>9. Alone(h, r)
    <2>1. \A g \in Handlers : req[g].pc \in InTx => KeyOf(g) # KeyOf(h)
      BY LocksTell DEF InsertRevocation, KeyLocked
    <2>. QED
      BY <1>4, <1>7, <2>1 DEF Alone, HoldsUser
  <1>. QED
    BY <1>5, <1>8, <1>9, HandlerIInv DEF InsertRevocation, IInv, TypeOK

\* The record of a request that goes on to its next user.
LEMMA NextUserType ==
    ASSUME NEW r \in Request, NEW n \in Nat
    PROVE  /\ NextUser(r, n) \in Request
           /\ NextUser(r, n).pc = "next"
           /\ NextUser(r, n).users = r.users
           /\ NextUser(r, n).at = r.at
           /\ NextUser(r, n).next = r.next + 1
           /\ NextUser(r, n).locks = {}
  <1>1. /\ r.next \in Nat \ {0} /\ r.count \in Nat
        /\ r.users \in Seq(Users) /\ r.at \in Nat
    BY DEF Request
  <1>. QED
    BY <1>1 DEF NextUser, Request

LEMMA SkipIInv ==
    ASSUME IInv, NEW h \in Handlers, SkipRecorded(h)
    PROVE  IInv'
  <1>. DEFINE r == NextUser(req[h], 0)
  <1>1. AtUser(h)
    BY DEF SkipRecorded
  <1>2. /\ req[h] \in Request /\ req[h].next \in DOMAIN req[h].users
        /\ req[h].users \in Seq(Users)
    BY <1>1, AtUserTypes
  <1>3. /\ r \in Request /\ r.pc = "next" /\ r.users = req[h].users
        /\ r.at = req[h].at /\ r.next = req[h].next + 1 /\ r.locks = {}
    BY <1>2, NextUserType
  <1>4. req' = [req EXCEPT ![h] = r]
    BY DEF SkipRecorded
  <1>. HIDE DEF r
  <1>5. PassedAreRecorded(r)
    <2>. SUFFICES ASSUME NEW i \in DOMAIN req[h].users, i < req[h].next + 1
                  PROVE  Recorded(Key(req[h].users[i], req[h].at))
      BY <1>3 DEF PassedAreRecorded
    <2>1. CASE i < req[h].next
      BY <2>1 DEF IInv, RequestsSound, PassedAreRecorded
    <2>2. CASE i = req[h].next
      BY <2>2 DEF SkipRecorded, KeyOf, Current
    <2>. QED
      BY <1>2, <2>1, <2>2
  <1>6. Sound(r) /\ Alone(h, r)
    BY <1>3, <1>5 DEF Sound, Alone, LocksHeld, KeyIsFresh, JudgementStands,
       InTx, HoldsUser, HoldsRow
  <1>. QED
    BY <1>4, <1>6, HandlerIInv DEF SkipRecorded, IInv, TypeOK

LEMMA LockAndReadIInv ==
    ASSUME IInv, NEW h \in Handlers, LockAndRead(h)
    PROVE  IInv'
  <1>. DEFINE newer == Newer(rows[Current(h)], req[h].at)
              pc == IF newer THEN "read" ELSE "skipped"
              locks == req[h].locks \cup {UserLock(Current(h))}
              r == [req[h] EXCEPT !.prev = rows[Current(h)], !.pc = pc,
                                  !.locks = locks]
  <1>1. req[h].pc = "inserted" /\ req[h].pc \in InTx
    BY DEF LockAndRead, InTx
  <1>2. /\ req[h] \in Request /\ req[h].next \in DOMAIN req[h].users
        /\ Current(h) \in Users
    BY <1>1, InTxTypes
  <1>3. rows[Current(h)] \in EntitlementRow \cup {NULL}
    BY <1>2 DEF IInv, TypeOK
  <1>4. locks \in SUBSET Locks
    BY <1>2, LockFacts DEF Request
  <1>5. /\ r \in Request /\ r.pc = pc /\ r.next = req[h].next
        /\ r.users = req[h].users /\ r.at = req[h].at /\ r.locks = locks
    BY <1>2, <1>3, <1>4 DEF Request, InTx
  <1>6. req' = [req EXCEPT ![h] = r]
    BY DEF LockAndRead, IInv, TypeOK
  <1>. HIDE DEF r
  <1>7. ReqKey(r) = ReqKey(req[h]) /\ CurrentOf(r) = Current(h)
    BY <1>5 DEF ReqKey, CurrentOf, Current
  <1>8. Sound(r)
    <2>1. JudgementStands(r)
      BY <1>5, <1>7 DEF JudgementStands
    <2>2. KeyIsFresh(r) /\ PassedAreRecorded(r)
      BY <1>1, <1>5, <1>7, RequestIsSound DEF Sound, KeyIsFresh, PassedAreRecorded
    <2>3. LocksHeld(r)
      <3>1. LocksHeld(req[h]) /\ CurrentOf(req[h]) = Current(h)
        BY RequestIsSound DEF Sound, CurrentOf, Current
      <3>. QED
        BY <1>1, <1>5, <1>7, <3>1 DEF LocksHeld, InTx, HoldsUser, HoldsRow
    <2>. QED
      BY <1>2, <1>5, <2>1, <2>2, <2>3 DEF Sound
  <1>9. Alone(h, r)
    <2>1. \A g \in Handlers : req[g].pc \in HoldsUser => Current(g) # Current(h)
      BY LocksTell DEF LockAndRead, UserLocked
    <2>. QED
      BY <1>1, <1>7, <2>1, RequestIsSound DEF Alone
  <1>. QED
    BY <1>6, <1>8, <1>9, HandlerIInv DEF LockAndRead, IInv, TypeOK

LEMMA UpsertIInv ==
    ASSUME IInv, NEW h \in Handlers, Upsert(h)
    PROVE  IInv'
  <1>. DEFINE newer == Newer(rows[Current(h)], req[h].at)
              pc == IF newer THEN "written" ELSE "rejected"
              locks == req[h].locks \cup {RowLock(Current(h))}
              r == [req[h] EXCEPT !.pc = pc, !.locks = locks]
  <1>1. req[h].pc = "read" /\ req[h].pc \in InTx /\ req[h].pc \in HoldsUser
    BY DEF Upsert, InTx, HoldsUser
  <1>2. /\ req[h] \in Request /\ req[h].next \in DOMAIN req[h].users
    BY <1>1, InTxTypes
  <1>3. locks \in SUBSET Locks
    BY <1>1, <1>2, InTxTypes, LockFacts DEF Request
  <1>4. /\ r \in Request /\ r.pc = pc /\ r.next = req[h].next
        /\ r.users = req[h].users /\ r.at = req[h].at /\ r.locks = locks
    BY <1>2, <1>3 DEF Request, InTx
  <1>5. req' = [req EXCEPT ![h] = r]
    BY DEF Upsert, IInv, TypeOK
  <1>. HIDE DEF r
  <1>6. ReqKey(r) = ReqKey(req[h]) /\ CurrentOf(r) = Current(h)
        /\ CurrentOf(req[h]) = Current(h)
    BY <1>4 DEF ReqKey, CurrentOf, Current
  <1>7. Sound(r)
    <2>1. JudgementStands(r)
      BY <1>4, <1>6 DEF JudgementStands
    <2>2. KeyIsFresh(r) /\ PassedAreRecorded(r)
      BY <1>1, <1>4, <1>6, RequestIsSound DEF Sound, KeyIsFresh, PassedAreRecorded
    <2>3. LocksHeld(r)
      <3>1. LocksHeld(req[h])
        BY RequestIsSound DEF Sound
      <3>. QED
        BY <1>1, <1>4, <1>6, <3>1 DEF LocksHeld, InTx, HoldsUser, HoldsRow
    <2>. QED
      BY <1>2, <1>4, <2>1, <2>2, <2>3 DEF Sound
  <1>8. Alone(h, r)
    BY <1>1, <1>6, RequestIsSound DEF Alone
  <1>. QED
    BY <1>5, <1>7, <1>8, HandlerIInv DEF Upsert, IInv, TypeOK

LEMMA RespondIInv ==
    ASSUME IInv, NEW h \in Handlers, Respond(h)
    PROVE  IInv'
  <1>. DEFINE a == [users |-> req[h].users, at |-> req[h].at]
  <1>1. req[h] \in Request /\ req[h].pc = "next"
        /\ req[h].next > Len(req[h].users)
    BY DEF Respond, IInv, TypeOK
  <1>2. /\ req[h].users \in Seq(Users) /\ req[h].at \in Nat
        /\ req[h].count \in Nat /\ req[h].next \in Nat
    BY <1>1 DEF Request
  <1>3. \A i \in DOMAIN a.users : Recorded(Key(a.users[i], a.at))
    <2>. SUFFICES ASSUME NEW i \in DOMAIN req[h].users
                  PROVE  Recorded(Key(req[h].users[i], req[h].at))
      OBVIOUS
    <2>1. i < req[h].next
      BY <1>1, <1>2
    <2>. QED
      BY <2>1 DEF IInv, RequestsSound, PassedAreRecorded
  <1>4. a \in [users : Seq(Users), at : Nat]
    BY <1>2
  <1>5. answered' \in {answered, answered \cup {a}}
    BY DEF Respond
  <1>. HIDE DEF a
  <1>6. answered' \in SUBSET [users : Seq(Users), at : Nat]
    BY <1>4, <1>5 DEF IInv, TypeOK
  <1>7. \A b \in answered' : b \in answered \/
            \A i \in DOMAIN b.users : Recorded(Key(b.users[i], b.at))
    BY <1>3, <1>5
  <1>8. reported' \in Nat
    BY <1>2 DEF Respond, IInv, TypeOK
  <1>9. req' = [req EXCEPT ![h] = IdleReq] /\ UNCHANGED <<clock, tables>>
    BY DEF Respond
  <1>. QED
    BY <1>6, <1>7, <1>8, <1>9, IdleIsSound, HandlerIInv

LEMMA AbortIInv ==
    ASSUME IInv, NEW h \in Handlers, Abort(h)
    PROVE  IInv'
  BY IdleIsSound, HandlerIInv DEF Abort, IInv, TypeOK

-------------------------------------------------------------------------------
(* The audit log *)

AuditRow == [from    : RowState \cup {NULL},
             to      : RowState \cup {NULL},
             trigger : Keys \cup {NULL}]

OnRecord == {Key(r.user, r.at) : r \in revocations}

\* AuditNamesItsRevocation for the log s of user u, the keys K being on record.
Names(s, u, K) ==
    \A i \in DOMAIN s :
        s[i].trigger # NULL =>
            /\ s[i].trigger.user = u
            /\ s[i].trigger \in K
            /\ \A j \in DOMAIN s \ {i} : s[j].trigger # s[i].trigger

LEMMA NamesIsProperty ==
    AuditNamesItsRevocation <=> \A u \in Users : Names(audit[u], u, OnRecord)
  <1>1. \A k : Recorded(k) <=> k \in OnRecord
    BY DEF Recorded, OnRecord
  <1>. QED
    BY <1>1 DEF AuditNamesItsRevocation, Names

\* A row may be appended if it has no trigger, or one that is new in the log.
LEMMA AppendNames ==
    ASSUME NEW s \in Seq(AuditRow), NEW u, NEW K, NEW L, NEW e \in AuditRow,
           Names(s, u, K), K \subseteq L,
           e.trigger # NULL => /\ e.trigger.user = u
                               /\ e.trigger \in L
                               /\ e.trigger \notin K
    PROVE  Names(Append(s, e), u, L)
  <1>. DEFINE t == Append(s, e)
  <1>1. /\ Len(t) = Len(s) + 1 /\ DOMAIN t = 1..Len(t) /\ DOMAIN s = 1..Len(s)
        /\ \A i \in 1..Len(s) : t[i] = s[i]
        /\ t[Len(s) + 1] = e
        /\ Len(s) \in Nat
    OBVIOUS
  <1>. HIDE DEF t
  <1>2. ASSUME NEW i \in DOMAIN t, t[i].trigger # NULL
        PROVE  /\ t[i].trigger.user = u
               /\ t[i].trigger \in L
               /\ \A j \in DOMAIN t \ {i} : t[j].trigger # t[i].trigger
    <2>1. CASE i \in 1..Len(s)
      <3>1. /\ s[i].trigger.user = u /\ s[i].trigger \in K
            /\ \A j \in DOMAIN s \ {i} : s[j].trigger # s[i].trigger
        BY <1>1, <1>2, <2>1 DEF Names
      <3>2. e.trigger # s[i].trigger
        BY <3>1, <1>1, <1>2, <2>1
      <3>. QED
        BY <1>1, <2>1, <3>1, <3>2
    <2>2. CASE i = Len(s) + 1
      <3>1. \A j \in 1..Len(s) : s[j].trigger # e.trigger
        BY <1>1, <1>2, <2>2 DEF Names
      <3>. QED
        BY <1>1, <1>2, <2>2, <3>1
    <2>. QED
      BY <1>1, <2>1, <2>2
  <1>. QED
    BY <1>2 DEF Names, t

-------------------------------------------------------------------------------
(* The other writers *)

\* Somebody else writes the row of a user whom no transaction has written.
LEMMA OtherWriterIInv ==
    ASSUME IInv, NEW u \in Users, NEW row \in EntitlementRow,
           UNCHANGED <<clock, revocations, processed, req, reported, answered>>,
           rows' = [rows EXCEPT ![u] = row],
           NEW e \in AuditRow, e.trigger = NULL,
           audit' \in {audit, [audit EXCEPT ![u] = Append(@, e)]},
           row.active /\ row.expires # NULL => row.lastEvent < row.expires,
           rows[u] # NULL => rows[u].lastEvent <= row.lastEvent,
           \A h \in Handlers : req[h].pc \in HoldsRow => Current(h) # u
    PROVE  IInv'
  <1>1. /\ rows' \in [Users -> EntitlementRow \cup {NULL}]
        /\ \A v \in Users : rows'[v] = IF v = u THEN row ELSE rows[v]
    BY DEF IInv, TypeOK
  <1>2. audit \in [Users -> Seq(AuditRow)]
    BY DEF IInv, TypeOK, AuditRow
  <1>3. audit' \in [Users -> Seq(AuditRow)]
    <2>1. Append(audit[u], e) \in Seq(AuditRow)
      BY <1>2
    <2>. QED
      BY <1>2, <2>1
  <1>4. TypeOK'
    BY <1>1, <1>3 DEF IInv, TypeOK, AuditRow
  <1>5. \A k : Recorded(k)' = Recorded(k)
    BY DEF Recorded
  <1>6. RequestsSound'
    <2>. SUFFICES ASSUME NEW h \in Handlers PROVE JudgementStands(req[h])'
      BY <1>5 DEF IInv, RequestsSound, LocksHeld, KeyIsFresh, ReqKey, CurrentOf,
         PassedAreRecorded
    <2>1. CASE CurrentOf(req[h]) = u
      <3>1. req[h].pc \notin HoldsRow
        BY <2>1 DEF Current, CurrentOf
      <3>2. CASE req[h].pc = "skipped"
        <4>1. /\ req[h].at \in Nat /\ ~Newer(rows[u], req[h].at)
          BY <2>1, <3>2, InTxTypes DEF InTx, IInv, RequestsSound, JudgementStands
        <4>2. rows[u] # NULL /\ ~(rows[u].lastEvent < req[h].at)
          BY <4>1 DEF Newer
        <4>3. rows[u].lastEvent \in Nat /\ row.lastEvent \in Nat /\ row # NULL
          BY <4>2, RowTypes, NullAssumption DEF EntitlementRow
        <4>4. ~Newer(row, req[h].at)
          BY <4>1, <4>2, <4>3 DEF Newer
        <4>. QED
          BY <4>4, <2>1, <3>1, <1>1 DEF JudgementStands, CurrentOf, HoldsRow
      <3>. QED
        BY <3>1, <3>2 DEF JudgementStands, HoldsRow
    <2>2. CASE CurrentOf(req[h]) # u
      <3>1. req[h].pc \in {"written", "skipped", "rejected"} =>
               CurrentOf(req[h]) \in Users
        BY InTxTypes DEF InTx
      <3>. QED
        BY <2>2, <3>1, <1>1 DEF IInv, RequestsSound, JudgementStands, CurrentOf
    <2>. QED
      BY <2>1, <2>2
  <1>7. HandlersExclusive' /\ AnsweredIsRecorded'
    BY <1>5 DEF IInv, HandlersExclusive, KeyOf, Current, AnsweredIsRecorded
  <1>8. ExpiryFollowsEvent'
    BY <1>1 DEF IInv, ExpiryFollowsEvent
  <1>9. RecordedIsApplied'
    <2>. SUFFICES ASSUME NEW r \in revocations
                  PROVE  /\ Key(r.user, r.at) \in processed
                         /\ rows'[r.user] # NULL
                         /\ r.at <= rows'[r.user].lastEvent
      BY DEF RecordedIsApplied
    <2>1. /\ r.user \in Users /\ r.at \in Nat
          /\ Key(r.user, r.at) \in processed
          /\ rows[r.user] # NULL
          /\ r.at <= rows[r.user].lastEvent
      BY DEF IInv, TypeOK, RecordedIsApplied
    <2>2. rows[r.user].lastEvent \in Nat /\ row.lastEvent \in Nat /\ row # NULL
      BY <2>1, RowTypes, NullAssumption DEF EntitlementRow
    <2>. QED
      BY <2>1, <2>2, <1>1
  <1>10. AuditNamesItsRevocation'
    <2>1. OnRecord' = OnRecord
      BY DEF OnRecord
    <2>2. \A v \in Users : Names(audit[v], v, OnRecord)
      BY NamesIsProperty DEF IInv
    <2>3. Names(Append(audit[u], e), u, OnRecord)
      BY <1>2, <2>2, AppendNames
    <2>4. \A v \in Users : Names(audit'[v], v, OnRecord)
      BY <1>2, <2>2, <2>3
    <2>5. \A k : Recorded(k)' <=> k \in OnRecord'
      BY DEF Recorded, OnRecord
    <2>. QED
      BY <2>1, <2>4, <2>5 DEF AuditNamesItsRevocation, Names
  <1>. QED
    BY <1>4, <1>6, <1>7, <1>8, <1>9, <1>10 DEF IInv

LEMMA GrantIInv ==
    ASSUME IInv, NEW g \in Grants, Grant(g)
    PROVE  IInv'
  <1>. DEFINE u == g.user
              old == rows[u]
              new == [active |-> TRUE, expires |-> g.expires, lastEvent |-> g.time]
              row == IF Newer(old, g.time) THEN new ELSE old
              e == AuditEntry(old, row, NULL)
  <1>1. /\ g \in [user : Users, time : Nat, expires : Nat \cup {NULL}]
        /\ g.expires # NULL => g.time < g.expires
    BY RequestAssumption
  <1>2. u \in Users /\ g.time \in Nat /\ g.expires \in Nat \cup {NULL}
    BY <1>1
  <1>3. new \in EntitlementRow
    BY <1>2 DEF EntitlementRow
  <1>4. old \in EntitlementRow \cup {NULL}
    BY <1>2 DEF IInv, TypeOK
  <1>5. row \in EntitlementRow
    BY <1>3, <1>4 DEF Newer
  <1>6. e \in AuditRow /\ e.trigger = NULL
    BY <1>4, <1>5, EntryType DEF AuditRow, AuditEntry
  <1>7. row.active /\ row.expires # NULL => row.lastEvent < row.expires
    BY <1>1, <1>2, <1>4 DEF IInv, ExpiryFollowsEvent, Newer
  <1>8. rows[u] # NULL => rows[u].lastEvent <= row.lastEvent
    BY <1>2, <1>4 DEF Newer, EntitlementRow
  <1>9. /\ UNCHANGED <<clock, revocations, processed, req, reported, answered>>
        /\ rows' = [rows EXCEPT ![u] = row]
        /\ audit' \in {audit, [audit EXCEPT ![u] = Append(@, e)]}
    BY DEF Grant
  <1>10. \A h \in Handlers : req[h].pc \in HoldsRow => Current(h) # u
    BY LocksTell DEF Grant, RowLocked
  <1>. HIDE DEF u, row, e
  <1>. QED
    BY <1>2, <1>5, <1>6, <1>7, <1>8, <1>9, <1>10, OtherWriterIInv DEF u

LEMMA SweepIInv ==
    ASSUME IInv, NEW u \in Users, Sweep(u)
    PROVE  IInv'
  <1>. DEFINE row == Expired(rows[u])
              e == AuditEntry(rows[u], row, NULL)
  <1>1. /\ rows[u] # NULL /\ rows[u].active /\ rows[u].expires # NULL
    BY DEF Sweep, Expirable
  <1>2. /\ rows[u] \in EntitlementRow /\ rows[u].expires \in Nat
        /\ rows[u].lastEvent \in Nat
        /\ rows[u].lastEvent < rows[u].expires
    BY <1>1, RowTypes DEF IInv, ExpiryFollowsEvent
  <1>3. /\ row \in EntitlementRow /\ row.active = FALSE
        /\ row.lastEvent = rows[u].expires
    BY <1>2 DEF Expired, EntitlementRow
  <1>4. e \in AuditRow /\ e.trigger = NULL
    BY <1>2, <1>3, EntryType DEF AuditRow, AuditEntry
  <1>5. /\ UNCHANGED <<clock, revocations, processed, req, reported, answered>>
        /\ rows' = [rows EXCEPT ![u] = row]
        /\ audit' \in {audit, [audit EXCEPT ![u] = Append(@, e)]}
    BY DEF Sweep
  <1>6. \A h \in Handlers : req[h].pc \in HoldsRow => Current(h) # u
    BY LocksTell DEF Sweep, RowLocked
  <1>. HIDE DEF row, e
  <1>7. /\ row.active /\ row.expires # NULL => row.lastEvent < row.expires
        /\ rows[u] # NULL => rows[u].lastEvent <= row.lastEvent
    BY <1>2, <1>3
  <1>. QED
    BY <1>3, <1>4, <1>5, <1>6, <1>7, OtherWriterIInv

-------------------------------------------------------------------------------
(* The commit *)

\* What Install does to the tables.
LEMMA InstallSteps ==
    ASSUME IInv, NEW h \in Handlers, Install(h)
    PROVE  LET u == Current(h)
               t == req[h].at
           IN  /\ u \in Users /\ t \in Nat
               /\ req[h].pc \in InTx /\ req[h].pc \in HoldsUser
               /\ KeyOf(h) = Key(u, t) /\ Key(u, t) \in Keys
               /\ revocations' = revocations \cup {[user |-> u, at |-> t]}
               /\ processed' = processed \cup {Key(u, t)}
               /\ rows' \in [Users -> EntitlementRow \cup {NULL}]
               /\ \A v \in Users : rows'[v] = IF v = u /\ req[h].pc = "written"
                                              THEN Revoked(t) ELSE rows[v]
               /\ rows'[u] # NULL /\ rows'[u].lastEvent \in Nat
               /\ t <= rows'[u].lastEvent
               /\ rows[u] # NULL => rows[u].lastEvent <= rows'[u].lastEvent
  <1>. DEFINE u == Current(h)
              t == req[h].at
  <1>1. req[h].pc \in {"skipped", "rejected", "written"}
    BY DEF Install
  <1>2. req[h].pc \in InTx /\ req[h].pc \in HoldsUser
    BY <1>1 DEF InTx, HoldsUser
  <1>3. /\ u \in Users /\ t \in Nat
        /\ KeyOf(h) = Key(u, t) /\ Key(u, t) \in Keys
        /\ CurrentOf(req[h]) = u
    BY <1>2, InTxTypes DEF KeyOf
  <1>4. Revoked(t) \in EntitlementRow /\ Revoked(t) # NULL
        /\ Revoked(t).lastEvent = t
    BY <1>3, RevokedType
  <1>5. rows \in [Users -> EntitlementRow \cup {NULL}]
    BY DEF IInv, TypeOK
  <1>6. rows' = IF req[h].pc = "written" THEN [rows EXCEPT ![u] = Revoked(t)]
                                         ELSE rows
    BY DEF Install
  <1>7. /\ rows' \in [Users -> EntitlementRow \cup {NULL}]
        /\ \A v \in Users : rows'[v] = IF v = u /\ req[h].pc = "written"
                                       THEN Revoked(t) ELSE rows[v]
    BY <1>3, <1>4, <1>5, <1>6
  <1>8. /\ revocations' = revocations \cup {[user |-> u, at |-> t]}
        /\ processed' = processed \cup {Key(u, t)}
    BY <1>3 DEF Install
  <1>9. JudgementStands(req[h])
    BY DEF IInv, RequestsSound
  <1>. HIDE DEF u, t
  <1>10. CASE req[h].pc = "written"
    <2>1. rows'[u] = Revoked(t)
      BY <1>3, <1>7, <1>10
    <2>2. Newer(rows[u], t)
      BY <1>3, <1>9, <1>10 DEF JudgementStands, t
    <2>3. rows[u] # NULL => rows[u].lastEvent \in Nat
      BY <1>3, RowTypes
    <2>. QED
      BY <1>2, <1>3, <1>4, <1>7, <1>8, <2>1, <2>2, <2>3 DEF Newer, u, t
  <1>11. CASE req[h].pc # "written"
    <2>1. rows'[u] = rows[u]
      BY <1>3, <1>7, <1>11
    <2>2. ~Newer(rows[u], t)
      BY <1>1, <1>3, <1>9, <1>11 DEF JudgementStands, t
    <2>3. rows[u] # NULL /\ rows[u].lastEvent \in Nat /\ t <= rows[u].lastEvent
      BY <1>3, <2>2, RowTypes DEF Newer
    <2>. QED
      BY <1>2, <1>3, <1>7, <1>8, <2>1, <2>3 DEF u, t
  <1>. QED
    BY <1>10, <1>11

\* A commit, whether its handler goes on with request r or gives up.
LEMMA InstallIInv ==
    ASSUME IInv, NEW h \in Handlers, Install(h), NEW r \in Request,
           req' = [req EXCEPT ![h] = r],
           UNCHANGED <<clock, reported, answered>>,
           r.pc \in {"idle", "next"}, r.locks = {},
           \A i \in DOMAIN r.users : i < r.next =>
               \/ Recorded(Key(r.users[i], r.at))
               \/ Key(r.users[i], r.at) = KeyOf(h)
    PROVE  IInv'
  <1>. DEFINE u == Current(h)
              t == req[h].at
              k == Key(u, t)
  <1>1. /\ u \in Users /\ t \in Nat
        /\ req[h].pc \in InTx /\ req[h].pc \in HoldsUser
        /\ KeyOf(h) = k /\ k \in Keys
        /\ revocations' = revocations \cup {[user |-> u, at |-> t]}
        /\ processed' = processed \cup {k}
        /\ rows' \in [Users -> EntitlementRow \cup {NULL}]
        /\ \A v \in Users : rows'[v] = IF v = u /\ req[h].pc = "written"
                                       THEN Revoked(t) ELSE rows[v]
        /\ rows'[u] # NULL /\ rows'[u].lastEvent \in Nat
        /\ t <= rows'[u].lastEvent
        /\ rows[u] # NULL => rows[u].lastEvent <= rows'[u].lastEvent
    BY InstallSteps
  <1>2. /\ \A g \in Handlers : req'[g] = IF g = h THEN r ELSE req[g]
        /\ req' \in [Handlers -> Request]
    BY DEF IInv, TypeOK
  <1>3. r.pc \notin InTx /\ r.pc \notin HoldsUser
    BY DEF InTx, HoldsUser
  <1>4. \A x : Recorded(x)' <=> Recorded(x) \/ x = k
    <2>. DEFINE w == [user |-> u, at |-> t]
    <2>1. Key(w.user, w.at) = k /\ revocations' = revocations \cup {w}
      BY <1>1
    <2>. HIDE DEF w, k
    <2>. QED
      BY <2>1 DEF Recorded
  <1>5. ~Recorded(k)
    BY <1>1, RequestIsSound DEF Sound, KeyIsFresh, ReqKey, KeyOf, Current, CurrentOf
  <1>. HIDE DEF k
  <1>6. audit \in [Users -> Seq(AuditRow)]
    BY DEF IInv, TypeOK, AuditRow
  <1>7. /\ audit' \in [Users -> Seq(AuditRow)]
        /\ AuditNamesItsRevocation'
    <2>. DEFINE e == AuditEntry(req[h].prev, Revoked(t), k)
    <2>1. e \in AuditRow /\ e.trigger = k
      <3>1. req[h].prev \in EntitlementRow \cup {NULL}
        BY DEF IInv, TypeOK, Request
      <3>2. Revoked(t) \in EntitlementRow \cup {NULL}
        BY <1>1, RevokedType
      <3>3. e \in AuditRow
        BY <1>1, <3>1, <3>2, EntryType DEF AuditRow
      <3>. QED
        BY <3>3 DEF AuditEntry
    <2>2. audit' \in {audit, [audit EXCEPT ![u] = Append(@, e)]}
      BY <1>1 DEF Install, k
    <2>. HIDE DEF e
    <2>3. /\ \A v \in Users : Names(audit[v], v, OnRecord)
          /\ OnRecord \subseteq OnRecord'
          /\ k \in OnRecord' /\ k \notin OnRecord
      BY <1>4, <1>5, NamesIsProperty DEF IInv, OnRecord, Recorded
    <2>4. k.user = u
      BY <1>1 DEF k, Key
    <2>5. Names(Append(audit[u], e), u, OnRecord')
      BY <1>1, <1>6, <2>1, <2>3, <2>4, AppendNames
    <2>6. \A v \in Users : Names(audit[v], v, OnRecord')
      BY <2>3 DEF Names
    <2>7. \A v \in Users : Names(audit'[v], v, OnRecord')
      BY <1>6, <2>2, <2>5, <2>6
    <2>8. \A x : Recorded(x)' <=> x \in OnRecord'
      BY DEF Recorded, OnRecord
    <2>9. audit' \in [Users -> Seq(AuditRow)]
      <3>1. Append(audit[u], e) \in Seq(AuditRow)
        BY <1>1, <1>6, <2>1
      <3>. QED
        BY <1>6, <2>2, <3>1
    <2>10. AuditNamesItsRevocation'
      BY <2>7, <2>8 DEF AuditNamesItsRevocation, Names
    <2>. QED
      BY <2>9, <2>10
  <1>8. TypeOK'
    <2>1. /\ revocations' \in SUBSET [user : Users, at : Nat]
          /\ processed' \in SUBSET Keys
      BY <1>1 DEF IInv, TypeOK
    <2>2. \A g \in Handlers :
             req'[g].pc \in InTx => req'[g].next \in DOMAIN req'[g].users
      BY <1>2, <1>3 DEF IInv, TypeOK
    <2>. QED
      BY <1>1, <1>2, <1>7, <2>1, <2>2 DEF IInv, TypeOK, AuditRow
  <1>9. \A g \in Handlers \ {h} :
           /\ req[g].pc \in InTx => KeyOf(g) # k
           /\ req[g].pc \in HoldsUser => Current(g) # u
    BY <1>1 DEF IInv, HandlersExclusive
  <1>10. RequestsSound'
    <2>1. /\ KeyIsFresh(r)' /\ JudgementStands(r)' /\ PassedAreRecorded(r)'
          /\ LocksHeld(r)'
      BY <1>1, <1>3, <1>4 DEF LocksHeld, KeyIsFresh, JudgementStands,
         PassedAreRecorded, InTx, HoldsRow
    <2>2. ASSUME NEW g \in Handlers \ {h}
          PROVE  /\ LocksHeld(req[g])'
                 /\ KeyIsFresh(req[g])'
                 /\ JudgementStands(req[g])'
                 /\ PassedAreRecorded(req[g])'
      <3>1. /\ KeyIsFresh(req[g]) /\ JudgementStands(req[g])
            /\ PassedAreRecorded(req[g]) /\ LocksHeld(req[g])
            /\ req'[g] = req[g]
        BY <1>2 DEF IInv, RequestsSound
      <3>2. KeyIsFresh(req[g])'
        BY <3>1, <1>4, <1>9 DEF KeyIsFresh, ReqKey, CurrentOf, KeyOf, Current
      <3>3. JudgementStands(req[g])'
        <4>1. req[g].pc \in {"written", "skipped", "rejected"} =>
                 /\ CurrentOf(req[g]) \in Users
                 /\ CurrentOf(req[g]) # u
          BY <1>9, InTxTypes DEF InTx, HoldsUser, Current, CurrentOf
        <4>. QED
          BY <3>1, <4>1, <1>1 DEF JudgementStands, CurrentOf
      <3>4. PassedAreRecorded(req[g])'
        BY <3>1, <1>4 DEF PassedAreRecorded
      <3>5. LocksHeld(req[g])'
        BY <3>1 DEF LocksHeld, ReqKey, CurrentOf
      <3>. QED
        BY <3>2, <3>3, <3>4, <3>5
    <2>. QED
      BY <1>2, <2>1, <2>2 DEF RequestsSound, LocksHeld, KeyIsFresh,
         JudgementStands, PassedAreRecorded, ReqKey, CurrentOf
  <1>11. HandlersExclusive'
    BY <1>2, <1>3 DEF IInv, HandlersExclusive, KeyOf, Current
  <1>12. ExpiryFollowsEvent'
    BY <1>1 DEF IInv, ExpiryFollowsEvent, Revoked
  <1>13. RecordedIsApplied'
    <2>. SUFFICES ASSUME NEW x \in revocations'
                  PROVE  /\ Key(x.user, x.at) \in processed'
                         /\ rows'[x.user] # NULL
                         /\ x.at <= rows'[x.user].lastEvent
      BY DEF RecordedIsApplied
    <2>1. CASE x = [user |-> u, at |-> t]
      BY <2>1, <1>1 DEF k
    <2>2. CASE x \in revocations
      <3>1. /\ x.user \in Users /\ x.at \in Nat
            /\ Key(x.user, x.at) \in processed
            /\ rows[x.user] # NULL
            /\ x.at <= rows[x.user].lastEvent
        BY <2>2 DEF IInv, TypeOK, RecordedIsApplied
      <3>2. rows[x.user].lastEvent \in Nat
        BY <3>1, RowTypes
      <3>. QED
        BY <3>1, <3>2, <1>1
    <2>. QED
      BY <1>1, <2>1, <2>2
  <1>14. AnsweredIsRecorded'
    BY <1>4 DEF IInv, AnsweredIsRecorded
  <1>. QED
    BY <1>7, <1>8, <1>10, <1>11, <1>12, <1>13, <1>14 DEF IInv

LEMMA CommitIInv ==
    ASSUME IInv, NEW h \in Handlers, Commit(h)
    PROVE  IInv'
  <1>. DEFINE r == NextUser(req[h], 1)
  <1>1. Install(h) /\ req[h].pc \in InTx
    BY DEF Commit, Install, InTx
  <1>2. /\ req[h] \in Request /\ req[h].next \in DOMAIN req[h].users
        /\ req[h].users \in Seq(Users) /\ req[h].next \in Nat
    BY <1>1, InTxTypes DEF Request
  <1>3. /\ r \in Request /\ r.pc = "next" /\ r.users = req[h].users
        /\ r.at = req[h].at /\ r.next = req[h].next + 1 /\ r.locks = {}
    BY <1>2, NextUserType
  <1>4. /\ req' = [req EXCEPT ![h] = r]
        /\ UNCHANGED <<clock, reported, answered>>
    BY DEF Commit
  <1>. HIDE DEF r
  <1>5. ASSUME NEW i \in DOMAIN r.users, i < r.next
        PROVE  \/ Recorded(Key(r.users[i], r.at))
               \/ Key(r.users[i], r.at) = KeyOf(h)
    <2>1. CASE i < req[h].next
      BY <1>3, <1>5, <2>1, RequestIsSound DEF Sound, PassedAreRecorded
    <2>2. CASE i = req[h].next
      BY <1>3, <2>2 DEF KeyOf, Current
    <2>. QED
      BY <1>2, <1>3, <1>5, <2>1, <2>2
  <1>. QED
    BY <1>1, <1>3, <1>4, <1>5, InstallIInv

LEMMA CommitUnseenIInv ==
    ASSUME IInv, NEW h \in Handlers, CommitUnseen(h)
    PROVE  IInv'
  <1>1. /\ IdleReq.pc = "idle" /\ IdleReq.next = 1 /\ DOMAIN IdleReq.users = {}
        /\ IdleReq.locks = {}
    BY DEF IdleReq
  <1>. QED
    BY <1>1, IdleReqType, InstallIInv DEF CommitUnseen

-------------------------------------------------------------------------------
(* Theorems *)

LEMMA InitIInv == Init => IInv
  <1>. SUFFICES ASSUME Init PROVE IInv
    OBVIOUS
  <1>1. TypeOK
    BY IdleReqType, RequestAssumption DEF Init, TypeOK, IdleReq, InTx
  <1>2. RequestsSound /\ HandlersExclusive
    BY DEF Init, RequestsSound, HandlersExclusive, LocksHeld, KeyIsFresh,
       JudgementStands, PassedAreRecorded, IdleReq, InTx, HoldsUser, HoldsRow
  <1>3. /\ ExpiryFollowsEvent /\ RecordedIsApplied /\ AnsweredIsRecorded
        /\ AuditNamesItsRevocation
    BY DEF Init, ExpiryFollowsEvent, RecordedIsApplied, AnsweredIsRecorded,
       AuditNamesItsRevocation
  <1>. QED
    BY <1>1, <1>2, <1>3 DEF IInv

LEMMA NextIInv == IInv /\ [Next]_vars => IInv'
  <1>. SUFFICES ASSUME IInv, [Next]_vars PROVE IInv'
    OBVIOUS
  <1>1. ASSUME NEW h \in Handlers, NEW users \in Requests, Receive(h, users)
        PROVE  IInv'
    BY <1>1, ReceiveIInv
  <1>2. ASSUME NEW h \in Handlers, RequestStep(h) PROVE IInv'
    BY <1>2, InsertIInv, SkipIInv, LockAndReadIInv, UpsertIInv, CommitIInv,
       RespondIInv DEF RequestStep
  <1>3. ASSUME NEW h \in Handlers, CommitUnseen(h) \/ Abort(h) PROVE IInv'
    BY <1>3, CommitUnseenIInv, AbortIInv
  <1>4. CASE \E g \in Grants : Grant(g)
    BY <1>4, GrantIInv
  <1>5. CASE \E u \in Users : Sweep(u)
    BY <1>5, SweepIInv
  <1>6. CASE Tick \/ UNCHANGED vars
    <2>1. /\ clock' \in Nat
          /\ UNCHANGED <<rows, revocations, processed, audit, req, reported, answered>>
      BY <1>6 DEF Tick, tables, vars, IInv, TypeOK
    <2>2. TypeOK' /\ ExpiryFollowsEvent' /\ RecordedIsApplied'
      BY <2>1 DEF IInv, TypeOK, ExpiryFollowsEvent, RecordedIsApplied
    <2>3. RequestsSound'
      BY <2>1 DEF IInv, RequestsSound, LocksHeld, KeyIsFresh, JudgementStands,
         PassedAreRecorded, Recorded, ReqKey, CurrentOf
    <2>4. HandlersExclusive' /\ AnsweredIsRecorded' /\ AuditNamesItsRevocation'
      BY <2>1 DEF IInv, HandlersExclusive, KeyOf, Current, AnsweredIsRecorded,
         AuditNamesItsRevocation, Recorded
    <2>. QED
      BY <2>2, <2>3, <2>4 DEF IInv
  <1>. QED
    BY <1>1, <1>2, <1>3, <1>4, <1>5, <1>6 DEF Next

\* IInv is an inductive invariant of the specification.
THEOREM Invariance == Spec => []IInv
  BY InitIInv, NextIInv, PTL DEF Spec

\* Tables and requests keep their types.
THEOREM TypeCorrectness == Spec => []TypeOK
  BY Invariance, PTL DEF IInv

\* A revocation on record has been applied to its user's row, so that the
\* monthly key never hides work that was not done.
THEOREM RecordedRevocationsAreApplied == Spec => []RecordedIsApplied
  BY Invariance, PTL DEF IInv

\* A 202 means that every user of the request has a revocation on record.
THEOREM AnsweredRequestsAreRecorded == Spec => []AnsweredIsRecorded
  BY Invariance, PTL DEF IInv

\* Each audit row of a revocation names one on record, and no two the same.
THEOREM AuditNamesRevocationsOnce == Spec => []AuditNamesItsRevocation
  BY Invariance, PTL DEF IInv

\* As long as a request has the locks of one transaction, taken in the order key,
\* user, row, who waits is less far than whom it waits for, so that in a circle
\* nobody could be at a row, then nobody at a user, then nobody at a key.
LEMMA WaitsAreOrdered == IInv => NoCircularWait
  <1>. SUFFICES ASSUME IInv, NEW S \in SUBSET Handlers,
                       \A h \in S : \E g \in S : WaitsFor(h, g)
                PROVE  S = {}
    BY DEF NoCircularWait
  <1>1. \A h \in S : req[h].pc \in {"next", "inserted", "read"}
    BY DEF WaitsFor, AtUser
  <1>2. ASSUME NEW h \in S, NEW g \in S, WaitsFor(h, g)
        PROVE  \/ req[h].pc = "next" /\ req[g].pc \in InTx
               \/ req[h].pc = "inserted" /\ req[g].pc \in HoldsUser
               \/ req[h].pc = "read" /\ req[g].pc \in HoldsRow
    BY <1>2, LocksTell DEF WaitsFor, AtUser
  <1>3. \A h \in S : req[h].pc # "read"
    BY <1>1, <1>2 DEF HoldsRow
  <1>4. \A h \in S : req[h].pc # "inserted"
    BY <1>1, <1>2, <1>3 DEF HoldsUser, InTx
  <1>5. \A h \in S : FALSE
    BY <1>1, <1>2, <1>3, <1>4 DEF InTx
  <1>. QED
    BY <1>5

\* Requests never deadlock on users' keys, advisory locks or rows, whatever users
\* they name and in what order.
THEOREM RequestsNeverDeadlock == Spec => []NoCircularWait
  BY WaitsAreOrdered, Invariance, PTL
===============================================================================
