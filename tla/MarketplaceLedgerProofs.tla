------------------------ MODULE MarketplaceLedgerProofs ------------------------
(***************************************************************************)
(* What bulk revocation promises the marketplace.  Each revocation that an *)
(* answer counts is on record and is counted once, whatever is skipped,    *)
(* retried or lost; and seen through its tables and answers the service is *)
(* RevocationLedger.                                                       *)
(***************************************************************************)
EXTENDS MarketplaceProofs, FiniteSetTheorems

-------------------------------------------------------------------------------
(* Counts *)

\* The revocations in paid are those that the answers have counted, those in
\* credit[h] those that request h has.
Covers(paid, credit) ==
    /\ paid \subseteq revocations /\ Cardinality(paid) = reported
    /\ credit \in [Handlers -> SUBSET revocations]
    /\ \A h \in Handlers :
          /\ credit[h] \subseteq PassedOf(h)
          /\ Cardinality(credit[h]) = req[h].count
          /\ credit[h] \cap paid = {}
    /\ \A h, g \in Handlers : h # g => credit[h] \cap credit[g] = {}

Covered == \E paid, credit : Covers(paid, credit)

CountInv == IsFiniteSet(revocations) /\ CountsAreRevocations

LEMMA CountsAreCovers ==
    CountsAreRevocations <=> Covered
  <1>. USE DEF Covered
  <1>1. ASSUME NEW paid, NEW credit, Covers(paid, credit)
        PROVE  CountsAreRevocations
    <2>1. paid \in kSubset(reported, revocations)
      BY <1>1 DEF Covers, kSubset
    <2>2. credit \in [Handlers -> SUBSET (revocations \ paid)]
      BY <1>1 DEF Covers
    <2>3. \A h \in Handlers : credit[h] \in kSubset(req[h].count, PassedOf(h))
      BY <1>1 DEF Covers, kSubset
    <2>4. \A h, g \in Handlers : h # g => credit[h] \cap credit[g] = {}
      BY <1>1 DEF Covers
    <2>. QED
      BY <2>1, <2>2, <2>3, <2>4 DEF CountsAreRevocations
  <1>2. ASSUME CountsAreRevocations
        PROVE  \E paid, credit : Covers(paid, credit)
    <2>1. PICK paid \in kSubset(reported, revocations) :
             \E credit \in [Handlers -> SUBSET (revocations \ paid)] :
                /\ \A h \in Handlers :
                      credit[h] \in kSubset(req[h].count, PassedOf(h))
                /\ \A h, g \in Handlers : h # g => credit[h] \cap credit[g] = {}
      BY <1>2 DEF CountsAreRevocations
    <2>2. PICK credit \in [Handlers -> SUBSET (revocations \ paid)] :
             /\ \A h \in Handlers :
                   credit[h] \in kSubset(req[h].count, PassedOf(h))
             /\ \A h, g \in Handlers : h # g => credit[h] \cap credit[g] = {}
      BY <2>1
    <2>3. paid \subseteq revocations /\ Cardinality(paid) = reported
      BY DEF kSubset
    <2>4. \A h \in Handlers : /\ credit[h] \subseteq PassedOf(h)
                              /\ Cardinality(credit[h]) = req[h].count
      BY <2>2 DEF kSubset
    <2>5. \A h \in Handlers : credit[h] \cap paid = {}
      OBVIOUS
    <2>6. credit \in [Handlers -> SUBSET revocations]
      OBVIOUS
    <2>7. Covers(paid, credit)
      BY <2>2, <2>3, <2>4, <2>5, <2>6 DEF Covers
    <2>. QED
      BY <2>7
  <1>. QED
    BY <1>1, <1>2

\* A step of request h: revocations are only added, the other requests stay,
\* and what h and the answers have counted is now mine and settled.
LEMMA Recount ==
    ASSUME NEW paid, NEW credit, Covers(paid, credit), NEW h \in Handlers,
           revocations \subseteq revocations',
           \A g \in Handlers \ {h} : req'[g] = req[g],
           NEW settled \in SUBSET revocations', Cardinality(settled) = reported',
           NEW mine \in SUBSET PassedOf(h)', Cardinality(mine) = req'[h].count,
           mine \cap settled = {},
           \A g \in Handlers \ {h} : credit[g] \cap (settled \cup mine) = {}
    PROVE  CountsAreRevocations'
  <1>. DEFINE new == [g \in Handlers |-> IF g = h THEN mine ELSE credit[g]]
  <1>1. PassedOf(h)' \subseteq revocations'
    BY DEF PassedOf
  <1>2. \A g \in Handlers \ {h} : PassedOf(g) \subseteq PassedOf(g)'
    BY DEF PassedOf
  <1>3. new \in [Handlers -> SUBSET revocations']
    BY <1>1 DEF Covers
  <1>4. \A g \in Handlers : new[g] = IF g = h THEN mine ELSE credit[g]
    OBVIOUS
  <1>. HIDE DEF new
  <1>5. ASSUME NEW g \in Handlers
        PROVE  /\ new[g] \subseteq PassedOf(g)'
               /\ Cardinality(new[g]) = req'[g].count
               /\ new[g] \cap settled = {}
    <2>1. CASE g = h
      BY <2>1, <1>4
    <2>2. CASE g # h
      <3>1. /\ new[g] = credit[g] /\ req'[g] = req[g]
            /\ credit[g] \subseteq PassedOf(g)
            /\ Cardinality(credit[g]) = req[g].count
        BY <2>2, <1>4 DEF Covers
      <3>. QED
        BY <2>2, <3>1, <1>2
    <2>. QED
      BY <2>1, <2>2
  <1>6. \A f, g \in Handlers : f # g => new[f] \cap new[g] = {}
    BY <1>4 DEF Covers
  <1>7. Covers(settled, new)'
    BY <1>3, <1>5, <1>6 DEF Covers
  <1>8. Covered'
    BY <1>7 DEF Covered
  <1>. QED
    BY <1>8, CountsAreCovers, PTL

\* A step of a request that passes no user on its own account.
LEMMA CountStays ==
    ASSUME IInv, CountInv, NEW h \in Handlers,
           UNCHANGED <<revocations, reported>>,
           NEW r, req' = [req EXCEPT ![h] = r], r.count = req[h].count,
           PassedOf(h) \subseteq PassedOf(h)'
    PROVE  CountInv'
  <1>1. PICK paid, credit : Covers(paid, credit)
    BY CountsAreCovers DEF CountInv, Covered
  <1>2. req'[h] = r /\ \A g \in Handlers \ {h} : req'[g] = req[g]
    BY DEF IInv, TypeOK
  <1>3. /\ paid \in SUBSET revocations' /\ Cardinality(paid) = reported'
        /\ credit[h] \in SUBSET PassedOf(h)'
        /\ Cardinality(credit[h]) = req'[h].count
        /\ credit[h] \cap paid = {}
        /\ \A g \in Handlers \ {h} : credit[g] \cap (paid \cup credit[h]) = {}
    BY <1>1, <1>2 DEF Covers
  <1>4. CountsAreRevocations'
    BY <1>1, <1>2, <1>3, Recount
  <1>. QED
    BY <1>4 DEF CountInv

\* A request that starts, or ends without an answer, has counted nothing; what
\* it had counted stays on record, in nobody's count.
LEMMA CountIsDropped ==
    ASSUME IInv, CountInv, NEW h \in Handlers,
           revocations \subseteq revocations', IsFiniteSet(revocations'),
           UNCHANGED reported,
           NEW r, req' = [req EXCEPT ![h] = r], r.count = 0
    PROVE  CountInv'
  <1>1. PICK paid, credit : Covers(paid, credit)
    BY CountsAreCovers DEF CountInv, Covered
  <1>2. req'[h] = r /\ \A g \in Handlers \ {h} : req'[g] = req[g]
    BY DEF IInv, TypeOK
  <1>. DEFINE mine == {}
  <1>3. mine \in SUBSET PassedOf(h)' /\ Cardinality(mine) = req'[h].count
    BY <1>2, FS_EmptySet
  <1>4. /\ paid \in SUBSET revocations' /\ Cardinality(paid) = reported'
        /\ mine \cap paid = {}
        /\ \A g \in Handlers \ {h} : credit[g] \cap (paid \cup mine) = {}
    BY <1>1 DEF Covers
  <1>. HIDE DEF mine
  <1>5. CountsAreRevocations'
    BY <1>1, <1>2, <1>3, <1>4, Recount
  <1>. QED
    BY <1>5 DEF CountInv

\* The revocation that a commit records was not on record before.
LEMMA InstallIsNew ==
    ASSUME IInv, NEW h \in Handlers, Install(h)
    PROVE  LET new == [user |-> Current(h), at |-> req[h].at]
           IN  new \notin revocations /\ revocations' = revocations \cup {new}
  <1>. DEFINE new == [user |-> Current(h), at |-> req[h].at]
  <1>1. req[h].pc \in InTx
    BY DEF Install, InTx
  <1>2. ~Recorded(Key(new.user, new.at))
    BY <1>1, RequestIsSound DEF Sound, KeyIsFresh, ReqKey, CurrentOf, Current
  <1>3. revocations' = revocations \cup {new}
    BY DEF Install
  <1>. HIDE DEF new
  <1>4. new \notin revocations
    BY <1>2 DEF Recorded
  <1>. QED
    BY <1>3, <1>4 DEF new

LEMMA CommitCounts ==
    ASSUME IInv, CountInv, NEW h \in Handlers, Commit(h)
    PROVE  CountInv'
  <1>. DEFINE new == [user |-> Current(h), at |-> req[h].at]
  <1>1. new \notin revocations /\ revocations' = revocations \cup {new}
    BY InstallIsNew DEF Commit
  <1>2. PICK paid, credit : Covers(paid, credit)
    BY CountsAreCovers DEF CountInv, Covered
  <1>. DEFINE r == NextUser(req[h], 1)
  <1>3. req[h].pc \in InTx
    BY DEF Commit, Install, InTx
  <1>4. /\ req[h] \in Request /\ req[h].next \in DOMAIN req[h].users
        /\ req[h].users \in Seq(Users) /\ req[h].count \in Nat
        /\ req[h].next \in Nat \ {0}
    BY <1>3, InTxTypes DEF Request
  <1>5. /\ r.users = req[h].users /\ r.at = req[h].at
        /\ r.next = req[h].next + 1 /\ r.count = req[h].count + 1
    BY DEF NextUser
  <1>6. /\ req'[h] = r /\ \A g \in Handlers \ {h} : req'[g] = req[g]
        /\ reported' = reported
    BY DEF Commit, IInv, TypeOK
  <1>7. new.user = req[h].users[req[h].next] /\ new.at = req[h].at
    BY DEF Current
  <1>. HIDE DEF new, r
  <1>. DEFINE mine == credit[h] \cup {new}
  <1>8. /\ credit[h] \subseteq revocations
        /\ credit[h] \subseteq PassedOf(h)
        /\ Cardinality(credit[h]) = req[h].count
    BY <1>2 DEF Covers
  <1>9. Cardinality(mine) = req'[h].count
    <2>1. IsFiniteSet(credit[h])
      BY <1>8, FS_Subset DEF CountInv
    <2>2. Cardinality(mine) = Cardinality(credit[h]) + 1
      BY <1>1, <1>8, <2>1, FS_AddElement
    <2>. QED
      BY <1>5, <1>6, <1>8, <2>2
  <1>10. mine \in SUBSET PassedOf(h)'
    <2>1. \A x \in PassedOf(h) : x \in PassedOf(h)'
      BY <1>1, <1>4, <1>5, <1>6 DEF PassedOf
    <2>2. /\ req'[h].users = req[h].users /\ req'[h].at = req[h].at
          /\ req[h].next \in 1..(req'[h].next - 1)
      BY <1>4, <1>5, <1>6
    <2>3. new \in revocations' /\ new.at = req'[h].at
          /\ new.user = req'[h].users[req[h].next]
      BY <1>1, <1>7, <2>2
    <2>4. new \in PassedOf(h)'
      BY <2>2, <2>3 DEF PassedOf
    <2>. QED
      BY <1>8, <2>1, <2>4
  <1>11. /\ paid \in SUBSET revocations' /\ Cardinality(paid) = reported'
         /\ mine \cap paid = {}
         /\ \A g \in Handlers \ {h} : credit[g] \cap (paid \cup mine) = {}
    BY <1>1, <1>2, <1>6 DEF Covers
  <1>. HIDE DEF mine
  <1>12. CountsAreRevocations'
    BY <1>1, <1>2, <1>6, <1>9, <1>10, <1>11, Recount
  <1>13. IsFiniteSet(revocations')
    BY <1>1, FS_AddElement DEF CountInv
  <1>. QED
    BY <1>12, <1>13 DEF CountInv

LEMMA RespondCounts ==
    ASSUME IInv, CountInv, NEW h \in Handlers, Respond(h)
    PROVE  CountInv'
  <1>1. PICK paid, credit : Covers(paid, credit)
    BY CountsAreCovers DEF CountInv, Covered
  <1>2. /\ req'[h] = IdleReq /\ \A g \in Handlers \ {h} : req'[g] = req[g]
        /\ reported' = reported + req[h].count
        /\ revocations' = revocations
    BY DEF Respond, tables, IInv, TypeOK
  <1>. DEFINE settled == paid \cup credit[h]
              mine == {}
  <1>3. /\ paid \subseteq revocations /\ credit[h] \subseteq revocations
        /\ Cardinality(paid) = reported /\ Cardinality(credit[h]) = req[h].count
        /\ paid \cap credit[h] = {}
    BY <1>1 DEF Covers
  <1>4. Cardinality(settled) = reported'
    <2>1. IsFiniteSet(paid) /\ IsFiniteSet(credit[h])
      BY <1>3, FS_Subset DEF CountInv
    <2>2. Cardinality(settled) = Cardinality(paid) + Cardinality(credit[h])
                                 - Cardinality(paid \cap credit[h])
      BY <2>1, FS_Union
    <2>3. Cardinality(paid \cap credit[h]) = 0
      BY <1>3, FS_EmptySet
    <2>4. Cardinality(paid) \in Nat /\ Cardinality(credit[h]) \in Nat
      BY <2>1, FS_CardinalityType
    <2>. QED
      BY <1>2, <1>3, <2>2, <2>3, <2>4
  <1>5. mine \in SUBSET PassedOf(h)' /\ Cardinality(mine) = req'[h].count
    BY <1>2, FS_EmptySet DEF IdleReq
  <1>6. /\ settled \in SUBSET revocations'
        /\ mine \cap settled = {}
        /\ \A g \in Handlers \ {h} : credit[g] \cap (settled \cup mine) = {}
    BY <1>1, <1>2 DEF Covers
  <1>. HIDE DEF settled, mine
  <1>7. CountsAreRevocations'
    BY <1>1, <1>2, <1>4, <1>5, <1>6, Recount
  <1>. QED
    BY <1>2, <1>7 DEF CountInv

LEMMA InitCountInv == Init => CountInv
  <1>. SUFFICES ASSUME Init PROVE CountInv
    OBVIOUS
  <1>. DEFINE none == [h \in Handlers |-> {}]
  <1>1. \A h \in Handlers : none[h] = {} /\ req[h].count = 0
    BY DEF Init, IdleReq
  <1>2. none \in [Handlers -> SUBSET revocations]
    OBVIOUS
  <1>. HIDE DEF none
  <1>3. Covers({}, none)
    BY <1>1, <1>2, FS_EmptySet DEF Covers, Init
  <1>. QED
    BY <1>3, FS_EmptySet, CountsAreCovers DEF CountInv, Covered, Init

LEMMA NextCountInv == IInv /\ CountInv /\ [Next]_vars => CountInv'
  <1>. SUFFICES ASSUME IInv, CountInv, [Next]_vars PROVE CountInv'
    OBVIOUS
  <1>. USE DEF tables
  <1>1. ASSUME NEW h \in Handlers, NEW users \in Requests, Receive(h, users)
        PROVE  CountInv'
    <2>1. PICK r : r.count = 0 /\ req' = [req EXCEPT ![h] = r]
      BY <1>1 DEF Receive
    <2>2. UNCHANGED <<revocations, reported>>
      BY <1>1 DEF Receive
    <2>. QED
      BY <2>1, <2>2, CountIsDropped DEF CountInv
  <1>2. ASSUME NEW h \in Handlers, Abort(h) \/ CommitUnseen(h)
        PROVE  CountInv'
    <2>1. IdleReq.count = 0 /\ req' = [req EXCEPT ![h] = IdleReq]
      BY <1>2 DEF Abort, CommitUnseen, IdleReq
    <2>2. /\ reported' = reported
          /\ \/ revocations' = revocations
             \/ revocations' = revocations \cup
                                  {[user |-> Current(h), at |-> req[h].at]}
      BY <1>2 DEF Abort, CommitUnseen, Install
    <2>3. IsFiniteSet(revocations')
      BY <2>2, FS_AddElement DEF CountInv
    <2>. QED
      BY <2>1, <2>2, <2>3, CountIsDropped
  <1>3. ASSUME NEW h \in Handlers,
               InsertRevocation(h) \/ LockAndRead(h) \/ Upsert(h)
        PROVE  CountInv'
    <2>. DEFINE r == req'[h]
    <2>1. /\ req' = [req EXCEPT ![h] = r]
          /\ r.count = req[h].count /\ r.at = req[h].at
          /\ r.next = req[h].next /\ r.users = req[h].users
      BY <1>3 DEF InsertRevocation, LockAndRead, Upsert, IInv, TypeOK, Request
    <2>2. UNCHANGED <<revocations, reported>>
      BY <1>3 DEF InsertRevocation, LockAndRead, Upsert
    <2>3. PassedOf(h) \subseteq PassedOf(h)'
      BY <2>1, <2>2 DEF PassedOf
    <2>. QED
      BY <2>1, <2>2, <2>3, CountStays
  <1>4. ASSUME NEW h \in Handlers, SkipRecorded(h) PROVE CountInv'
    <2>. DEFINE r == NextUser(req[h], 0)
    <2>1. /\ req' = [req EXCEPT ![h] = r]
          /\ UNCHANGED <<revocations, reported>>
      BY <1>4 DEF SkipRecorded
    <2>2. /\ req[h].count \in Nat /\ req[h].next \in Nat
          /\ req'[h] = r
      BY <1>4, <2>1 DEF IInv, TypeOK, Request
    <2>3. /\ r.count = req[h].count /\ r.at = req[h].at
          /\ r.next = req[h].next + 1 /\ r.users = req[h].users
      BY <2>2 DEF NextUser
    <2>. HIDE DEF r
    <2>4. PassedOf(h) \subseteq PassedOf(h)'
      BY <2>1, <2>2, <2>3 DEF PassedOf
    <2>. QED
      BY <2>1, <2>3, <2>4, CountStays
  <1>5. CASE \/ Tick \/ UNCHANGED vars
             \/ \E g \in Grants : Grant(g)
             \/ \E u \in Users : Sweep(u)
    <2>1. UNCHANGED <<revocations, reported, req>>
      BY <1>5 DEF Tick, vars, Grant, Sweep
    <2>. QED
      <3>1. PICK paid, credit : Covers(paid, credit)
        BY CountsAreCovers DEF CountInv, Covered
      <3>2. \A h \in Handlers : PassedOf(h)' = PassedOf(h)
        BY <2>1 DEF PassedOf
      <3>3. Covers(paid, credit)'
        BY <2>1, <3>1, <3>2 DEF Covers
      <3>4. Covered'
        BY <3>3 DEF Covered
      <3>5. CountsAreRevocations'
        BY <3>4, CountsAreCovers, PTL
      <3>. QED
        BY <2>1, <3>5 DEF CountInv
  <1>. QED
    BY <1>1, <1>2, <1>3, <1>4, <1>5, CommitCounts, RespondCounts
       DEF Next, RequestStep

\* Each revocation that a 202 counts is on record, and is counted once.
THEOREM CountsAreOfRevocations == Spec => []CountsAreRevocations
  <1>1. IInv /\ CountInv /\ [Next]_vars => (IInv /\ CountInv)'
    BY NextIInv, NextCountInv
  <1>2. CountInv => CountsAreRevocations
    BY DEF CountInv
  <1>. QED
    BY <1>1, <1>2, InitIInv, InitCountInv, PTL DEF Spec

-------------------------------------------------------------------------------
(* The ledger *)

LEMMA SameCardinality == \A S : Ledger!Cardinality(S) = Cardinality(S)
  BY DEF Ledger!Cardinality, Cardinality

\* A request under way is one that was received, and has counted no more users
\* than it has passed.
UnderWay(r) ==
    r.pc # "idle" => /\ r.users \in Requests
                     /\ r.at \in 0..clock
                     /\ r.count < r.next
                     /\ r.next <= Len(r.users) + 1

RequestsUnderWay == \A h \in Handlers : UnderWay(req[h])

LEMMA InitUnderWay == Init => RequestsUnderWay
  BY DEF Init, RequestsUnderWay, UnderWay, IdleReq

LEMMA NextUnderWay ==
    ASSUME IInv, RequestsUnderWay, [Next]_vars
    PROVE  RequestsUnderWay'
  <1>1. clock \in Nat /\ clock' \in Nat /\ clock <= clock'
    <2>1. Tick \/ clock' = clock
      BY DEF Next, vars, Receive, RequestStep, InsertRevocation, SkipRecorded,
         LockAndRead, Upsert, Commit, CommitUnseen, Respond, Abort, Grant, Sweep
    <2>. QED
      BY <2>1 DEF Tick, IInv, TypeOK
  <1>. SUFFICES ASSUME NEW g \in Handlers PROVE UnderWay(req[g])'
    BY DEF RequestsUnderWay
  <1>2. /\ UnderWay(req[g]) /\ req[g] \in Request
        /\ req[g].users \in Seq(Users) /\ req[g].next \in Nat \ {0}
        /\ req[g].count \in Nat /\ req[g].at \in Nat
        /\ Len(req[g].users) \in Nat
        /\ req[g].pc \in InTx => req[g].next <= Len(req[g].users)
    <2>1. /\ UnderWay(req[g]) /\ req[g] \in Request
          /\ req[g].pc \in InTx => req[g].next \in DOMAIN req[g].users
      BY DEF RequestsUnderWay, IInv, TypeOK
    <2>2. /\ req[g].users \in Seq(Users) /\ req[g].next \in Nat \ {0}
          /\ req[g].count \in Nat /\ req[g].at \in Nat
      BY <2>1 DEF Request
    <2>. QED
      BY <2>1, <2>2
  <1>3. CASE req'[g] = req[g]
    BY <1>1, <1>2, <1>3 DEF UnderWay
  <1>4. CASE req'[g].pc = "idle"
    BY <1>4 DEF UnderWay
  <1>5. ASSUME NEW users \in Requests, Receive(g, users)
        PROVE  UnderWay(req[g])'
    <2>1. /\ req'[g].users = users /\ req'[g].at = clock
          /\ req'[g].count = 0 /\ req'[g].next = 1
      BY <1>5 DEF Receive, IInv, TypeOK
    <2>2. Len(users) \in Nat
      BY RequestAssumption
    <2>. QED
      BY <1>1, <2>1, <2>2 DEF UnderWay
  <1>6. ASSUME InsertRevocation(g) \/ LockAndRead(g) \/ Upsert(g)
        PROVE  UnderWay(req[g])'
    <2>1. /\ req'[g].users = req[g].users /\ req'[g].at = req[g].at
          /\ req'[g].count = req[g].count /\ req'[g].next = req[g].next
          /\ req[g].pc # "idle"
      BY <1>6 DEF InsertRevocation, LockAndRead, Upsert, AtUser, IInv, TypeOK,
         Request
    <2>. QED
      BY <1>1, <1>2, <2>1 DEF UnderWay
  <1>7. ASSUME SkipRecorded(g) \/ Commit(g)
        PROVE  UnderWay(req[g])'
    <2>1. PICK n \in {0, 1} :
          /\ req'[g] = NextUser(req[g], n)
          /\ req[g].pc \in InTx \/ AtUser(g)
          /\ req[g].pc # "idle"
      BY <1>7 DEF SkipRecorded, Commit, Install, InTx, AtUser, IInv, TypeOK
    <2>2. /\ req'[g].users = req[g].users /\ req'[g].at = req[g].at
          /\ req'[g].count = req[g].count + n
          /\ req'[g].next = req[g].next + 1
      BY <1>2, <2>1 DEF NextUser
    <2>3. req[g].next <= Len(req[g].users)
      BY <1>2, <2>1 DEF AtUser
    <2>4. req'[g].count < req'[g].next /\ req'[g].next <= Len(req[g].users) + 1
      BY <1>2, <2>1, <2>2, <2>3 DEF UnderWay
    <2>5. req[g].users \in Requests /\ req[g].at \in 0..clock'
      BY <1>1, <1>2, <2>1 DEF UnderWay
    <2>. QED
      BY <2>2, <2>4, <2>5 DEF UnderWay
  <1>8. ASSUME CommitUnseen(g) \/ Respond(g) \/ Abort(g)
        PROVE  UnderWay(req[g])'
    <2>1. req'[g].pc = "idle"
      BY <1>8 DEF CommitUnseen, Respond, Abort, IdleReq, IInv, TypeOK
    <2>. QED
      BY <2>1, <1>4
  <1>9. ASSUME NEW h \in Handlers, h # g,
               \/ \E users \in Requests : Receive(h, users)
               \/ RequestStep(h) \/ CommitUnseen(h) \/ Abort(h)
        PROVE  UnderWay(req[g])'
    <2>1. req'[g] = req[g]
      BY <1>9 DEF Receive, RequestStep, InsertRevocation, SkipRecorded,
         LockAndRead, Upsert, Commit, CommitUnseen, Respond, Abort, IInv, TypeOK
    <2>. QED
      BY <2>1, <1>3
  <1>10. CASE \/ Tick \/ UNCHANGED vars
              \/ \E x \in Grants : Grant(x)
              \/ \E u \in Users : Sweep(u)
    <2>1. req' = req
      BY <1>10 DEF Tick, vars, Grant, Sweep
    <2>. QED
      BY <2>1, <1>3
  <1>. QED
    BY <1>5, <1>6, <1>7, <1>8, <1>9, <1>10 DEF Next, RequestStep

LEMMA RevokedIsRecorded ==
    ASSUME NEW user, NEW time
    PROVE  Ledger!Revoked(user, time) <=> Recorded(Key(user, time))
  BY DEF Ledger!Revoked, Recorded, Key, MonthOf

\* A commit, seen or not, is a revocation: what the transaction found about
\* key and row is still so.
LEMMA InstallRevokes ==
    ASSUME IInv, RequestsUnderWay, NEW h \in Handlers, Install(h),
           UNCHANGED <<clock, reported, answered>>
    PROVE  \E u \in Users, time \in 0..clock : Ledger!Revoke(u, time)
  <1>. DEFINE u == Current(h)
              time == req[h].at
              row == [active |-> FALSE, expires |-> NULL, lastEvent |-> time]
  <1>1. /\ req[h].pc \in InTx /\ req[h].pc # "idle"
        /\ req[h].pc \in {"skipped", "rejected", "written"}
    BY DEF Install, InTx
  <1>2. u \in Users /\ time \in 0..clock
    BY <1>1, InTxTypes DEF RequestsUnderWay, UnderWay
  <1>3. /\ CurrentOf(req[h]) = u /\ JudgementStands(req[h])
        /\ ~Recorded(Key(u, time))
    BY <1>1, RequestIsSound DEF Sound, KeyIsFresh, ReqKey, CurrentOf, Current
  <1>4. req[h].pc = "written" <=> Newer(rows[u], time)
    BY <1>1, <1>3 DEF JudgementStands
  <1>5. /\ revocations' = revocations \cup {[user |-> u, at |-> time]}
        /\ rows' = IF req[h].pc = "written" THEN [rows EXCEPT ![u] = row]
                                            ELSE rows
    BY DEF Install, Revoked
  <1>6. row.lastEvent = time
    OBVIOUS
  <1>. HIDE DEF u, time
  <1>7. Ledger!Write(u, row)
    BY <1>4, <1>5, <1>6 DEF Ledger!Write, Ledger!Newer, Newer
  <1>. QED
    BY <1>2, <1>3, <1>5, <1>7, RevokedIsRecorded DEF Ledger!Revoke

LEMMA RespondAnswers ==
    ASSUME IInv, RequestsUnderWay, CountInv, CountInv',
           NEW h \in Handlers, Respond(h)
    PROVE  \E users \in Requests, time \in 0..clock :
              \E n \in 0..Len(users) : Ledger!Answer(users, time, n)
  <1>. DEFINE r == req[h]
  <1>1. r \in Request /\ r.pc = "next" /\ r.next > Len(r.users)
    BY DEF Respond, IInv, TypeOK
  <1>2. /\ r.users \in Requests /\ r.at \in 0..clock
        /\ r.count < r.next /\ r.next <= Len(r.users) + 1
    BY <1>1 DEF RequestsUnderWay, UnderWay
  <1>3. /\ r.users \in Seq(Users) /\ r.count \in Nat /\ r.next \in Nat
        /\ Len(r.users) \in Nat
    BY <1>1 DEF Request
  <1>4. r.count \in 0..Len(r.users)
    BY <1>2, <1>3
  <1>5. \A i \in DOMAIN r.users : Ledger!Revoked(r.users[i], r.at)
    <2>1. PassedAreRecorded(r)
      BY RequestIsSound DEF Sound
    <2>2. \A i \in DOMAIN r.users : i < r.next
      BY <1>1, <1>3
    <2>. QED
      BY <2>1, <2>2, RevokedIsRecorded DEF PassedAreRecorded
  <1>6. reported' <= Ledger!Cardinality(revocations)
    <2>1. revocations' = revocations
      BY DEF Respond, tables
    <2>2. Covered'
      BY CountsAreCovers, PTL DEF CountInv
    <2>3. PICK paid : paid \subseteq revocations' /\ Cardinality(paid) = reported'
      BY <2>2 DEF Covered, Covers
    <2>4. reported' <= Cardinality(revocations)
      BY <2>1, <2>3, FS_Subset DEF CountInv
    <2>. QED
      BY <2>4, SameCardinality
  <1>7. /\ reported' = reported + r.count
        /\ answered' \in {answered, answered \cup {[users |-> r.users, at |-> r.at]}}
        /\ UNCHANGED <<clock, rows, revocations>>
    BY DEF Respond, tables
  <1>. HIDE DEF r
  <1>8. Ledger!Answer(r.users, r.at, r.count)
    BY <1>5, <1>6, <1>7 DEF Ledger!Answer
  <1>. QED
    BY <1>2, <1>4, <1>8

\* Bulk revocation implements its ledger: each revocation takes effect at one
\* instant, and an answer is given when all users of its request are revoked.
THEOREM Refinement == Spec => ImplementsLedger
  <1>1. Init => Ledger!Init
    BY DEF Init, Ledger!Init
  <1>2. /\ IInv /\ CountInv /\ RequestsUnderWay
        /\ IInv' /\ CountInv' /\ RequestsUnderWay'
        /\ [Next]_vars
        => [Ledger!Next]_(Ledger!vars)
    <2>. SUFFICES ASSUME IInv, CountInv, RequestsUnderWay, CountInv', [Next]_vars
                  PROVE  \/ Ledger!Next
                         \/ UNCHANGED <<clock, rows, revocations, reported, answered>>
      BY DEF Ledger!vars
    <2>1. CASE Tick
      BY <2>1 DEF Tick, tables, Ledger!Next, Ledger!Tick
    <2>2. ASSUME NEW h \in Handlers, Commit(h) \/ CommitUnseen(h)
          PROVE  Ledger!Next
      BY <2>2, InstallRevokes DEF Commit, CommitUnseen, Ledger!Next
    <2>3. ASSUME NEW h \in Handlers, Respond(h)
          PROVE  Ledger!Next
      BY <2>3, RespondAnswers DEF Ledger!Next
    <2>4. ASSUME NEW g \in Grants, Grant(g)
          PROVE  Ledger!Next
      <3>1. g.time <= clock /\ (g.expires # NULL => clock < g.expires)
        BY <2>4, RequestAssumption DEF Grant, IInv, TypeOK
      <3>2. Ledger!Write(g.user, [active |-> TRUE, expires |-> g.expires,
                                  lastEvent |-> g.time])
        BY <2>4 DEF Grant, Ledger!Write, Ledger!Newer, Newer, IInv, TypeOK
      <3>3. Ledger!Give(g)
        BY <2>4, <3>1, <3>2 DEF Grant, Ledger!Give
      <3>. QED
        BY <3>3 DEF Ledger!Next
    <2>5. ASSUME NEW u \in Users, Sweep(u)
          PROVE  Ledger!Next
      BY <2>5 DEF Sweep, Ledger!Next, Ledger!Expire, Ledger!Expirable,
         Ledger!Expired, Expirable, Expired
    <2>6. ASSUME NEW h \in Handlers,
                 \/ \E users \in Requests : Receive(h, users)
                 \/ InsertRevocation(h) \/ SkipRecorded(h) \/ LockAndRead(h)
                 \/ Upsert(h) \/ Abort(h)
          PROVE  UNCHANGED <<clock, rows, revocations, reported, answered>>
      BY <2>6 DEF Receive, InsertRevocation, SkipRecorded, LockAndRead, Upsert,
         Abort, tables
    <2>7. CASE UNCHANGED vars
      BY <2>7 DEF vars
    <2>. QED
      BY <2>1, <2>2, <2>3, <2>4, <2>5, <2>6, <2>7 DEF Next, RequestStep
  <1>3. IInv /\ CountInv /\ RequestsUnderWay /\ [Next]_vars
        => (IInv /\ CountInv /\ RequestsUnderWay)'
    BY NextIInv, NextCountInv, NextUnderWay
  <1>. QED
    BY <1>1, <1>2, <1>3, InitIInv, InitCountInv, InitUnderWay, PTL
       DEF Spec, ImplementsLedger, Ledger!Spec
===============================================================================
