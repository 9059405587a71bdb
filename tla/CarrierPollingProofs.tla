-------------------------- MODULE CarrierPollingProofs --------------------------
(***************************************************************************)
(* Theorems about CarrierPolling, for every value of its constants.        *)
(***************************************************************************)
EXTENDS CarrierPolling, TLAPS

\* Past a call's start there is a user, past its answer an answer.
WorkSound ==
    \A w \in Workers :
        /\ work[w].pc \in {"calling", "replied", "writing"} => work[w].user \in Users
        /\ work[w].pc \in {"replied", "writing"} => work[w].reply \in BOOLEAN

\* The rows a claim has locked are still due at its time.
ClaimsDue ==
    \A w \in Workers : work[w].pc = "locked" =>
        \A u \in work[w].batch :
            \/ rows[u].polledAt = NULL
            \/ rows[u].polledAt \in Nat /\ rows[u].polledAt <= work[w].now - Staleness

\* No row is locked by two claims.
LocksExclusive ==
    \A v, w \in Workers :
        v # w /\ work[v].pc = "locked" /\ work[w].pc = "locked" =>
            work[v].batch \cap work[w].batch = {}

IInv == /\ TypeOK
        /\ WorkSound
        /\ ClaimsDue
        /\ LocksExclusive
        /\ AuditRecordsTransitions

-------------------------------------------------------------------------------
(* The inductive invariant *)

LEMMA InitIInv == Init => IInv
  <1>. SUFFICES ASSUME Init PROVE IInv
    OBVIOUS
  <1>1. IdleWork \in Work
    BY PollingAssumption DEF IdleWork, Work
  <1>2. TypeOK
    BY <1>1, PollingAssumption DEF Init, TypeOK, Row
  <1>. QED
    BY <1>2 DEF Init, IInv, WorkSound, ClaimsDue, LocksExclusive,
                AuditRecordsTransitions, IdleWork

\* A step that gives one worker another record, sound and without locks, keeps
\* the invariant.
LEMMA WorkerIInv ==
    ASSUME IInv, NEW w \in Workers, NEW r \in Work,
           r.pc # "locked",
           r.pc \in {"calling", "replied", "writing"} => r.user \in Users,
           r.pc \in {"replied", "writing"} => r.reply \in BOOLEAN,
           work' = [work EXCEPT ![w] = r],
           UNCHANGED <<clock, plan, endedAt, rows, audit>>
    PROVE  IInv'
  <1>1. work' \in [Workers -> Work]
    BY DEF IInv, TypeOK
  <1>2. TypeOK'
    BY <1>1 DEF IInv, TypeOK
  <1>3. \A v \in Workers : work'[v] = IF v = w THEN r ELSE work[v]
    BY DEF IInv, TypeOK
  <1>4. WorkSound'
    BY <1>3 DEF IInv, WorkSound
  <1>5. ClaimsDue'
    BY <1>3 DEF IInv, ClaimsDue
  <1>6. LocksExclusive'
    BY <1>3 DEF IInv, LocksExclusive
  <1>7. AuditRecordsTransitions'
    BY DEF IInv, AuditRecordsTransitions
  <1>. QED
    BY <1>2, <1>4, <1>5, <1>6, <1>7 DEF IInv

LEMMA NextUserIsWork ==
    ASSUME IInv, NEW w \in Workers
    PROVE  \E r \in Work : r.pc = "polling" /\ NextUser(w) = [work EXCEPT ![w] = r]
  <1>. DEFINE r == [work[w] EXCEPT !.pc = "polling", !.processed = @ + 1,
                                   !.user = NULL, !.reply = NULL,
                                   !.deadline = 0, !.at = 0]
  <1>1. work[w] \in Work
    BY DEF IInv, TypeOK
  <1>2. r \in Work /\ r.pc = "polling"
    <2>. DEFINE n == work[w].processed + 1
    <2>1. n \in Nat
      BY <1>1 DEF Work
    <2>2. r = [work[w] EXCEPT !.pc = "polling", !.processed = n, !.user = NULL,
                              !.reply = NULL, !.deadline = 0, !.at = 0]
      OBVIOUS
    <2>. HIDE DEF n, r
    <2>. QED
      BY <1>1, <2>1, <2>2 DEF Work
  <1>3. NextUser(w) = [work EXCEPT ![w] = r]
    BY <1>1 DEF NextUser, Work, IInv, TypeOK
  <1>. QED
    BY <1>2, <1>3

\* The steps that only move the worker on: one record, no table.
LEMMA MoveIInv ==
    ASSUME IInv, NEW w \in Workers,
           Wake(w) \/ ClaimBegin(w) \/ Call(w) \/ Reply(w) \/ CallFails(w)
             \/ Judge(w) \/ EndBatch(w) \/ Stop(w)
    PROVE  IInv'
  <1>0. work[w] \in Work /\ clock \in Nat /\ plan \in [Users -> BOOLEAN]
    BY DEF IInv, TypeOK
  <1>. DEFINE draining == [IdleWork EXCEPT !.pc = "drain"]
  <1>1. /\ IdleWork \in Work /\ IdleWork.pc = "idle"
        /\ draining \in Work /\ draining.pc = "drain"
    BY PollingAssumption DEF IdleWork, Work
  <1>. HIDE DEF draining
  <1>2. CASE Wake(w)
    <2>. DEFINE r == [work[w] EXCEPT !.pc = "drain"]
    <2>1. r \in Work /\ r.pc = "drain" /\ work' = [work EXCEPT ![w] = r]
      BY <1>0, <1>2 DEF Wake, Work
    <2>2. UNCHANGED <<clock, plan, endedAt, rows, audit>>
      BY <1>2 DEF Wake
    <2>. HIDE DEF r
    <2>. QED
      BY <2>1, <2>2, WorkerIInv
  <1>3. CASE ClaimBegin(w)
    <2>. DEFINE r == [work[w] EXCEPT !.pc = "claiming", !.now = clock]
    <2>1. r \in Work /\ r.pc = "claiming" /\ work' = [work EXCEPT ![w] = r]
      BY <1>0, <1>3 DEF ClaimBegin, Work
    <2>2. UNCHANGED <<clock, plan, endedAt, rows, audit>>
      BY <1>3 DEF ClaimBegin
    <2>. HIDE DEF r
    <2>. QED
      BY <2>1, <2>2, WorkerIInv
  <1>4. CASE Call(w)
    <2>1. PICK u \in work[w].batch :
            work' = [work EXCEPT ![w].pc = "calling", ![w].user = u,
                                 ![w].batch = @ \ {u},
                                 ![w].deadline = clock + CallTimeout]
      BY <1>4 DEF Call
    <2>. DEFINE r == [work[w] EXCEPT !.pc = "calling", !.user = u,
                        !.batch = @ \ {u}, !.deadline = clock + CallTimeout]
    <2>2. u \in Users /\ clock + CallTimeout \in Nat
      BY <1>0, PollingAssumption DEF Work
    <2>3. r \in Work /\ r.pc = "calling" /\ r.user \in Users
      BY <1>0, <2>2 DEF Work
    <2>4. work' = [work EXCEPT ![w] = r]
      BY <2>1, <1>0 DEF Work
    <2>5. UNCHANGED <<clock, plan, endedAt, rows, audit>>
      BY <1>4 DEF Call
    <2>. HIDE DEF r
    <2>. QED
      BY <2>3, <2>4, <2>5, WorkerIInv
  <1>5. CASE Reply(w)
    <2>. DEFINE r == [work[w] EXCEPT !.pc = "replied", !.reply = plan[work[w].user]]
    <2>1. work[w].user \in Users
      BY <1>5 DEF Reply, At, IInv, WorkSound
    <2>2. /\ r \in Work
          /\ r.pc = "replied" /\ r.user \in Users /\ r.reply \in BOOLEAN
          /\ work' = [work EXCEPT ![w] = r]
      BY <1>0, <1>5, <2>1 DEF Reply, Work
    <2>3. UNCHANGED <<clock, plan, endedAt, rows, audit>>
      BY <1>5 DEF Reply
    <2>. HIDE DEF r
    <2>. QED
      BY <2>2, <2>3, WorkerIInv
  <1>6. CASE CallFails(w)
    <2>1. PICK r \in Work : r.pc = "polling" /\ NextUser(w) = [work EXCEPT ![w] = r]
      BY NextUserIsWork
    <2>2. work' = [work EXCEPT ![w] = r] /\ UNCHANGED <<clock, plan, endedAt, rows, audit>>
      BY <2>1, <1>6 DEF CallFails
    <2>. QED
      BY <2>1, <2>2, WorkerIInv
  <1>7. CASE Judge(w)
    <2>0. /\ work[w].user \in Users /\ work[w].reply \in BOOLEAN
          /\ UNCHANGED <<clock, plan, endedAt, rows, audit>>
      BY <1>7 DEF Judge, At, IInv, WorkSound
    <2>1. CASE work[w].reply = TRUE
      <3>1. PICK r \in Work : r.pc = "polling" /\ NextUser(w) = [work EXCEPT ![w] = r]
        BY NextUserIsWork
      <3>2. work' = [work EXCEPT ![w] = r]
        BY <3>1, <2>1, <1>7 DEF Judge
      <3>. QED
        BY <3>1, <3>2, <2>0, WorkerIInv
    <2>2. CASE work[w].reply # TRUE
      <3>. DEFINE r == [work[w] EXCEPT !.pc = "writing", !.at = clock]
      <3>1. /\ r \in Work
            /\ r.pc = "writing" /\ r.user \in Users /\ r.reply \in BOOLEAN
            /\ work' = [work EXCEPT ![w] = r]
        BY <1>0, <1>7, <2>0, <2>2 DEF Judge, Work
      <3>. HIDE DEF r
      <3>. QED
        BY <3>1, <2>0, WorkerIInv
    <2>. QED
      BY <2>1, <2>2
  <1>8. CASE EndBatch(w)
    <2>1. PICK r \in {IdleWork, draining} : work' = [work EXCEPT ![w] = r]
      BY <1>8 DEF EndBatch, draining
    <2>2. r \in Work /\ r.pc \in {"idle", "drain"}
      BY <1>1, <2>1
    <2>3. UNCHANGED <<clock, plan, endedAt, rows, audit>>
      BY <1>8 DEF EndBatch
    <2>. QED
      BY <2>1, <2>2, <2>3, WorkerIInv
  <1>9. CASE Stop(w)
    BY <1>1, <1>9, WorkerIInv DEF Stop
  <1>. QED
    BY <1>2, <1>3, <1>4, <1>5, <1>6, <1>7, <1>8, <1>9

\* The claim locks due rows that nobody has locked.
LEMMA SelectIInv ==
    ASSUME IInv, NEW w \in Workers, ClaimSelect(w)
    PROVE  IInv'
  <1>. DEFINE due == {u \in Users : Due(u, work[w].now) /\ ~RowLocked(u)}
  <1>0. work[w] \in Work /\ rows \in [Users -> Row]
    BY DEF IInv, TypeOK
  <1>1. PICK batch \in SUBSET due :
          work' = [work EXCEPT ![w].pc = "locked", ![w].batch = batch]
    BY DEF ClaimSelect
  <1>2. /\ UNCHANGED <<clock, plan, endedAt, rows, audit>>
        /\ \A v \in Workers \ {w} : work'[v] = work[v]
        /\ work'[w].pc = "locked" /\ work'[w].batch = batch
        /\ work'[w].now = work[w].now
        /\ work' \in [Workers -> Work]
    BY <1>0, <1>1 DEF ClaimSelect, Work, IInv, TypeOK
  <1>3. TypeOK'
    BY <1>2 DEF IInv, TypeOK
  <1>4. WorkSound'
    BY <1>2 DEF IInv, WorkSound
  <1>5. ClaimsDue'
    <2>1. \A u \in batch : \/ rows[u].polledAt = NULL
                           \/ /\ rows[u].polledAt \in Nat
                              /\ rows[u].polledAt <= work[w].now - Staleness
      BY <1>0 DEF Due, Row
    <2>. QED
      BY <1>2, <2>1 DEF IInv, ClaimsDue
  <1>6. LocksExclusive'
    <2>1. \A v \in Workers \ {w} :
             work[v].pc = "locked" => work[v].batch \cap batch = {}
      BY DEF RowLocked, At
    <2>. QED
      BY <1>2, <2>1 DEF IInv, LocksExclusive
  <1>7. AuditRecordsTransitions'
    BY <1>2 DEF IInv, AuditRecordsTransitions
  <1>. QED
    BY <1>3, <1>4, <1>5, <1>6, <1>7 DEF IInv

\* The commit of a claim advances the claimed rows and unlocks them.
LEMMA CommitIInv ==
    ASSUME IInv, NEW w \in Workers, ClaimCommit(w)
    PROVE  IInv'
  <1>0. /\ work[w] \in Work /\ rows \in [Users -> Row] /\ audit' = audit
        /\ At(w, "locked")
    BY DEF IInv, TypeOK, ClaimCommit
  <1>1. /\ UNCHANGED <<clock, plan, endedAt>>
        /\ \A v \in Workers \ {w} : work'[v] = work[v]
        /\ work'[w].pc = "polling"
        /\ work' \in [Workers -> Work]
    BY <1>0 DEF ClaimCommit, Work, IInv, TypeOK
  <1>2. /\ rows' \in [Users -> Row]
        /\ \A u \in Users : rows'[u].active = rows[u].active
        /\ \A u \in Users \ work[w].batch : rows'[u] = rows[u]
    BY <1>0 DEF ClaimCommit, Row, Work
  <1>3. TypeOK'
    BY <1>0, <1>1, <1>2 DEF IInv, TypeOK
  <1>4. WorkSound'
    BY <1>1 DEF IInv, WorkSound
  <1>5. ClaimsDue'
    <2>. SUFFICES ASSUME NEW v \in Workers, work'[v].pc = "locked",
                         NEW u \in work'[v].batch
                  PROVE  \/ rows'[u].polledAt = NULL
                         \/ /\ rows'[u].polledAt \in Nat
                            /\ rows'[u].polledAt <= work'[v].now - Staleness
      BY DEF ClaimsDue
    <2>1. v # w /\ work[v].pc = "locked" /\ u \in work[v].batch /\ work'[v] = work[v]
      BY <1>1
    <2>2. u \notin work[w].batch
      BY <1>0, <2>1 DEF IInv, LocksExclusive, At
    <2>3. u \in Users
      BY <2>1 DEF IInv, TypeOK, Work
    <2>. QED
      BY <1>2, <2>1, <2>2, <2>3 DEF IInv, ClaimsDue
  <1>6. LocksExclusive'
    BY <1>1 DEF IInv, LocksExclusive
  <1>7. AuditRecordsTransitions'
    BY <1>0, <1>2 DEF IInv, AuditRecordsTransitions
  <1>. QED
    BY <1>3, <1>4, <1>5, <1>6, <1>7 DEF IInv

\* Appending the transition from the row as it is to the row as it becomes.
LEMMA AuditAppends ==
    ASSUME NEW s \in Seq([from : BOOLEAN, to : BOOLEAN]),
           NEW a \in BOOLEAN, NEW b \in BOOLEAN, a # b,
           \A i \in DOMAIN s : s[i].from # s[i].to,
           \A i \in DOMAIN s \ {1} : s[i].from = s[i - 1].to,
           s # <<>> => s[Len(s)].to = a,
           NEW t, t = Append(s, [from |-> a, to |-> b])
    PROVE  /\ t \in Seq([from : BOOLEAN, to : BOOLEAN])
           /\ \A i \in DOMAIN t : t[i].from # t[i].to
           /\ \A i \in DOMAIN t \ {1} : t[i].from = t[i - 1].to
           /\ t # <<>> => t[Len(t)].to = b
  <1>. DEFINE e == [from |-> a, to |-> b]
  <1>1. e \in [from : BOOLEAN, to : BOOLEAN] /\ e.from = a /\ e.to = b
    OBVIOUS
  <1>. HIDE DEF e
  <1>2. /\ t = Append(s, e)
        /\ t \in Seq([from : BOOLEAN, to : BOOLEAN])
        /\ Len(t) = Len(s) + 1
        /\ DOMAIN t = 1..(Len(s) + 1) /\ DOMAIN s = 1..Len(s)
        /\ \A i \in 1..Len(s) : t[i] = s[i]
        /\ t[Len(s) + 1] = e
        /\ Len(s) \in Nat
    BY <1>1 DEF e
  <1>3. \A i \in DOMAIN t : t[i].from # t[i].to
    BY <1>1, <1>2
  <1>4. ASSUME NEW i \in DOMAIN t \ {1} PROVE t[i].from = t[i - 1].to
    <2>1. CASE i \in 1..Len(s)
      BY <1>2, <2>1
    <2>2. CASE i = Len(s) + 1
      <3>1. Len(s) \in 1..Len(s) /\ i - 1 = Len(s) /\ s # <<>>
        BY <1>2, <2>2
      <3>. QED
        BY <1>1, <1>2, <2>2, <3>1
    <2>. QED
      BY <1>2, <2>1, <2>2
  <1>. QED
    BY <1>1, <1>2, <1>3, <1>4

\* The upsert writes one row and, if the row changes, one audit entry.
LEMMA UpsertIInv ==
    ASSUME IInv, NEW w \in Workers, Upsert(w)
    PROVE  IInv'
  <1>. DEFINE u == work[w].user
              active == work[w].reply
              newer == rows[u].lastEvent < work[w].at
              entry == [from |-> rows[u].active, to |-> active]
  <1>0. /\ work[w] \in Work /\ rows \in [Users -> Row]
        /\ u \in Users /\ active \in BOOLEAN
        /\ rows[u].active \in BOOLEAN
        /\ audit \in [Users -> Seq([from : BOOLEAN, to : BOOLEAN])]
    BY DEF IInv, TypeOK, WorkSound, Upsert, At, Row
  <1>1. PICK r \in Work : r.pc = "polling" /\ work' = [work EXCEPT ![w] = r]
    BY NextUserIsWork DEF Upsert
  <1>2. /\ UNCHANGED <<clock, plan, endedAt>>
        /\ \A v \in Workers \ {w} : work'[v] = work[v]
        /\ work'[w].pc = "polling"
        /\ work' \in [Workers -> Work]
    BY <1>1 DEF Upsert, IInv, TypeOK
  <1>3. /\ rows' \in [Users -> Row]
        /\ \A v \in Users : rows'[v].polledAt = rows[v].polledAt
        /\ \A v \in Users \ {u} : rows'[v] = rows[v]
        /\ rows'[u].active = IF newer THEN active ELSE rows[u].active
    <2>1. work[w].at \in Nat
      BY <1>0 DEF Work
    <2>2. rows' = IF newer THEN [rows EXCEPT ![u].active = active,
                                            ![u].lastEvent = work[w].at]
                           ELSE rows
      BY DEF Upsert
    <2>3. CASE newer
      BY <2>1, <2>2, <2>3, <1>0 DEF Row
    <2>4. CASE ~newer
      BY <2>2, <2>4, <1>0
    <2>. QED
      BY <2>3, <2>4
  <1>4. /\ audit' = IF newer /\ active # rows[u].active
                    THEN [audit EXCEPT ![u] = Append(audit[u], entry)]
                    ELSE audit
    BY <1>0 DEF Upsert, Changes
  <1>. HIDE DEF u, active, newer
  <1>5. /\ audit' \in [Users -> Seq([from : BOOLEAN, to : BOOLEAN])]
        /\ AuditRecordsTransitions'
    <2>0. \A v \in Users :
             /\ \A i \in DOMAIN audit[v] : audit[v][i].from # audit[v][i].to
             /\ \A i \in DOMAIN audit[v] \ {1} : audit[v][i].from = audit[v][i - 1].to
             /\ audit[v] # <<>> => audit[v][Len(audit[v])].to = rows[v].active
      BY DEF IInv, AuditRecordsTransitions
    <2>1. CASE newer /\ active # rows[u].active
      <3>1. /\ audit'[u] = Append(audit[u], entry)
            /\ \A v \in Users \ {u} : audit'[v] = audit[v]
            /\ DOMAIN audit' = Users /\ audit' = [v \in Users |-> audit'[v]]
        BY <1>0, <1>4, <2>1
      <3>2. /\ audit'[u] \in Seq([from : BOOLEAN, to : BOOLEAN])
            /\ \A i \in DOMAIN audit'[u] : audit'[u][i].from # audit'[u][i].to
            /\ \A i \in DOMAIN audit'[u] \ {1} :
                  audit'[u][i].from = audit'[u][i - 1].to
            /\ audit'[u] # <<>> => audit'[u][Len(audit'[u])].to = active
        <4>. DEFINE s == audit[u]
                    a == rows[u].active
        <4>1. /\ s \in Seq([from : BOOLEAN, to : BOOLEAN])
              /\ a \in BOOLEAN /\ active \in BOOLEAN /\ a # active
              /\ audit'[u] = Append(s, [from |-> a, to |-> active])
          BY <1>0, <2>1, <3>1
        <4>2. /\ \A i \in DOMAIN s : s[i].from # s[i].to
              /\ \A i \in DOMAIN s \ {1} : s[i].from = s[i - 1].to
              /\ s # <<>> => s[Len(s)].to = a
          BY <1>0, <2>0
        <4>. HIDE DEF s, a
        <4>. QED
          BY <4>1, <4>2, AuditAppends
      <3>3. audit' \in [Users -> Seq([from : BOOLEAN, to : BOOLEAN])]
        BY <1>0, <3>1, <3>2
      <3>4. ASSUME NEW v \in Users
            PROVE  /\ \A i \in DOMAIN audit'[v] : audit'[v][i].from # audit'[v][i].to
                   /\ \A i \in DOMAIN audit'[v] \ {1} :
                         audit'[v][i].from = audit'[v][i - 1].to
                   /\ audit'[v] # <<>> =>
                         audit'[v][Len(audit'[v])].to = rows'[v].active
        <4>1. CASE v = u
          <5>1. rows'[u].active = active
            BY <1>3, <2>1
          <5>. QED
            BY <3>2, <4>1, <5>1
        <4>2. CASE v # u
          <5>1. audit'[v] = audit[v] /\ rows'[v] = rows[v]
            BY <1>3, <3>1, <4>2
          <5>. QED
            BY <2>0, <5>1
        <4>. QED
          BY <4>1, <4>2
      <3>. QED
        BY <3>3, <3>4 DEF AuditRecordsTransitions
    <2>2. CASE ~(newer /\ active # rows[u].active)
      <3>1. audit' = audit /\ \A v \in Users : rows'[v].active = rows[v].active
        BY <1>0, <1>3, <1>4, <2>2
      <3>. QED
        BY <1>0, <2>0, <3>1 DEF AuditRecordsTransitions
    <2>. QED
      BY <2>1, <2>2
  <1>6. TypeOK'
    BY <1>2, <1>3, <1>5 DEF IInv, TypeOK
  <1>7. WorkSound'
    BY <1>2 DEF IInv, WorkSound
  <1>8. ClaimsDue'
    <2>1. \A v \in Workers : work'[v].pc = "locked" =>
             v # w /\ work'[v] = work[v] /\ work[v].batch \subseteq Users
      BY <1>2 DEF IInv, TypeOK, Work
    <2>. QED
      BY <1>3, <2>1 DEF IInv, ClaimsDue
  <1>9. LocksExclusive'
    BY <1>2 DEF IInv, LocksExclusive
  <1>. QED
    BY <1>5, <1>6, <1>7, <1>8, <1>9 DEF IInv

LEMMA StepIInv == IInv /\ [Next]_vars => IInv'
  <1>. SUFFICES ASSUME IInv, [Next]_vars PROVE IInv'
    OBVIOUS
  <1>1. CASE Tick
    <2>1. clock' \in Nat /\ endedAt' \in [Users -> Nat]
      BY <1>1 DEF Tick, IInv, TypeOK
    <2>. QED
      BY <1>1, <2>1 DEF Tick, IInv, TypeOK, WorkSound, ClaimsDue, LocksExclusive,
                        AuditRecordsTransitions
  <1>2. ASSUME NEW u \in Users, PlanChanges(u) PROVE IInv'
    <2>1. plan' \in [Users -> BOOLEAN] /\ endedAt' \in [Users -> Nat]
      BY <1>2 DEF PlanChanges, IInv, TypeOK
    <2>. QED
      BY <1>2, <2>1 DEF PlanChanges, IInv, TypeOK, WorkSound, ClaimsDue,
                        LocksExclusive, AuditRecordsTransitions
  <1>3. ASSUME NEW w \in Workers, WorkerStep(w) \/ CallFails(w) \/ Stop(w)
        PROVE  IInv'
    BY <1>3, MoveIInv, SelectIInv, CommitIInv, UpsertIInv DEF WorkerStep
  <1>4. CASE UNCHANGED vars
    BY <1>4 DEF vars, IInv, TypeOK, WorkSound, ClaimsDue, LocksExclusive,
                AuditRecordsTransitions
  <1>. QED
    BY <1>1, <1>2, <1>3, <1>4 DEF Next

THEOREM Invariance == Spec => []IInv
  BY InitIInv, StepIInv, PTL DEF Spec

\* Records and tables keep their types.  (carrier_polling.go.)
THEOREM TypeCorrectness == Spec => []TypeOK
  <1>1. IInv => TypeOK
    BY DEF IInv
  <1>. QED
    BY <1>1, Invariance, PTL

\* However many workers poll a user and however late they write, the audit log
\* of the row is a chain of changes that ends at the row.  (upsertEntitlement.)
THEOREM AuditIsChained == Spec => []AuditRecordsTransitions
  <1>1. IInv => AuditRecordsTransitions
    BY DEF IInv
  <1>. QED
    BY <1>1, Invariance, PTL

\* Two claims of a user are a staleness window apart.  (FOR UPDATE SKIP LOCKED
\* and carrier_polled_at = NOW() in one statement.)
THEOREM ClaimsKeepTheirDistance == Spec => ClaimsAreSpaced
  <1>. DEFINE Spaced ==
         \A u \in Users :
            rows'[u].polledAt # rows[u].polledAt /\ rows[u].polledAt # NULL
            => rows'[u].polledAt >= rows[u].polledAt + Staleness
  <1>1. ASSUME IInv, [Next]_vars PROVE [Spaced]_vars
    <2>0. rows \in [Users -> Row]
      BY <1>1 DEF IInv, TypeOK
    <2>1. ASSUME NEW w \in Workers, ClaimCommit(w) PROVE Spaced
      <3>. SUFFICES ASSUME NEW u \in Users, rows'[u].polledAt # rows[u].polledAt,
                           rows[u].polledAt # NULL
                    PROVE  rows'[u].polledAt >= rows[u].polledAt + Staleness
        OBVIOUS
      <3>1. u \in work[w].batch /\ rows'[u].polledAt = work[w].now /\ At(w, "locked")
        BY <2>0, <2>1 DEF ClaimCommit, Row
      <3>2. rows[u].polledAt \in Nat /\ rows[u].polledAt <= work[w].now - Staleness
        BY <1>1, <3>1 DEF IInv, ClaimsDue, At
      <3>3. work[w].now \in Nat
        BY <1>1 DEF IInv, TypeOK, Work
      <3>. QED
        BY <3>1, <3>2, <3>3, PollingAssumption
    <2>2. ASSUME NEW w \in Workers, Upsert(w) PROVE Spaced
      BY <2>0, <2>2 DEF Upsert, Row
    <2>3. CASE UNCHANGED rows
      BY <2>3
    <2>. QED
      BY <1>1, <2>1, <2>2, <2>3
         DEF Next, WorkerStep, vars, Tick, PlanChanges, Wake, ClaimBegin, ClaimSelect,
             Call, Reply, CallFails, Judge, EndBatch, Stop
  <1>. QED
    BY <1>1, Invariance, PTL DEF Spec, ClaimsAreSpaced

-------------------------------------------------------------------------------
(* A user is polled twice at once only after as many calls as fill a window *)

Busy == {"polling", "calling", "replied", "writing"}
InCall == {"calling", "replied", "writing"}

\* The latest time at which the calls made so far may have ended.
Budget(w) == work[w].now + Calls(w) * CallTimeout

\* Outside a call and the write after it there is no user, and no claim is of
\* the future.
ClaimIsPast(w) ==
    /\ work[w].pc \notin InCall => work[w].user = NULL
    /\ work[w].now <= clock

\* A user in hand was claimed by the batch or after it.
HeldIsFresh(w) ==
    \A u \in Holds(w) : /\ rows[u].polledAt \in Nat
                        /\ work[w].now <= rows[u].polledAt

\* Whoever has a user in hand claimed it a window before or after anybody else.
ClaimsApart ==
    \A v, w \in Workers :
        v # w /\ Holds(v) \cap Holds(w) # {} =>
            \/ work[v].now + Staleness <= work[w].now
            \/ work[w].now + Staleness <= work[v].now

\* A prompt worker is within its budget, and its claim takes no time.
OnTime(w) ==
    /\ work[w].pc \in {"claiming", "locked"} => work[w].now = clock
    /\ work[w].pc \in {"polling", "writing"} => clock <= Budget(w)
    /\ work[w].pc \in {"calling", "replied"} =>
          clock <= work[w].deadline /\ work[w].deadline <= Budget(w)

CInv == /\ \A w \in Workers : ClaimIsPast(w) /\ HeldIsFresh(w)
        /\ ClaimsApart
        /\ Prompt => \A w \in Workers : OnTime(w)

\* One call more costs one timeout more.
LEMMA CallsAdd ==
    ASSUME NEW n \in Nat
    PROVE  /\ n * CallTimeout \in Nat
           /\ (n + 1) * CallTimeout = n * CallTimeout + CallTimeout
  <1>1. CallTimeout \in Nat
    BY PollingAssumption
  <1>2. \A m, t \in Nat : m * t \in Nat /\ (m + 1) * t = m * t + t
    OBVIOUS
  <1>. QED
    BY <1>1, <1>2

\* What the steps below use of a worker's record.
LEMMA WorkFacts ==
    ASSUME IInv, NEW w \in Workers
    PROVE  /\ work[w] \in Work /\ work \in [Workers -> Work] /\ clock \in Nat
           /\ work[w].now \in Nat /\ work[w].deadline \in Nat
           /\ work[w].batch \subseteq Users
           /\ Calls(w) \in Nat
           /\ Calls(w) * CallTimeout \in Nat
           /\ Budget(w) \in Nat /\ work[w].now <= Budget(w)
  <1>1. /\ work[w] \in Work /\ work \in [Workers -> Work] /\ clock \in Nat
    BY DEF IInv, TypeOK
  <1>2. /\ work[w].now \in Nat /\ work[w].deadline \in Nat
        /\ work[w].batch \subseteq Users /\ work[w].processed \in Nat
    BY <1>1 DEF Work
  <1>3. Calls(w) \in Nat
    BY <1>2 DEF Calls
  <1>4. Calls(w) * CallTimeout \in Nat
    BY <1>3, CallsAdd
  <1>. DEFINE c == Calls(w) * CallTimeout
  <1>5. Budget(w) = work[w].now + c /\ c \in Nat
    BY <1>4 DEF Budget
  <1>. HIDE DEF c
  <1>6. Budget(w) \in Nat /\ work[w].now <= Budget(w)
    BY <1>2, <1>5
  <1>. QED
    BY <1>1, <1>2, <1>3, <1>4, <1>6

LEMMA HeldAreUsers ==
    ASSUME IInv, NEW w \in Workers
    PROVE  /\ Holds(w) \subseteq Users
           /\ Holds(w) # {} => work[w].pc \in Busy
  BY WorkFacts DEF Holds, At, Work, Busy

LEMMA CInvSuffices ==
    ASSUME IInv, CInv
    PROVE  CollisionsComeLate
  <1>. SUFFICES ASSUME NEW v \in Workers, NEW w \in Workers,
                       v # w, Holds(v) \cap Holds(w) # {},
                       work[v].now <= work[w].now
                PROVE  /\ work[v].now + Staleness <= work[w].now
                       /\ Prompt => Staleness <= Calls(v) * CallTimeout
    BY DEF CollisionsComeLate
  <1>1. /\ work[v].now \in Nat /\ work[w].now \in Nat
        /\ work[v].deadline \in Nat /\ clock \in Nat
    BY WorkFacts
  <1>2. Staleness \in Nat
    BY PollingAssumption
  <1>3. work[v].now + Staleness <= work[w].now
    BY <1>1, <1>2 DEF CInv, ClaimsApart
  <1>4. ASSUME Prompt PROVE Staleness <= Calls(v) * CallTimeout
    <2>. DEFINE c == Calls(v) * CallTimeout
    <2>1. c \in Nat /\ Budget(v) = work[v].now + c
      BY WorkFacts DEF Budget
    <2>2. work[v].pc \in Busy /\ OnTime(v)
      BY <1>4, HeldAreUsers DEF CInv
    <2>3. work[w].now <= clock
      BY DEF CInv, ClaimIsPast
    <2>. HIDE DEF c
    <2>4. clock <= work[v].now + c
      BY <1>1, <2>1, <2>2 DEF OnTime, Busy
    <2>5. Staleness <= c
      BY <1>1, <1>2, <1>3, <2>1, <2>3, <2>4
    <2>. QED
      BY <2>5 DEF c
  <1>. QED
    BY <1>3, <1>4

LEMMA InitCInv == Init => CInv
  <1>. SUFFICES ASSUME Init PROVE CInv
    OBVIOUS
  <1>1. \A w \in Workers : /\ work[w].pc = "idle" /\ work[w].user = NULL
                           /\ work[w].now = 0
    BY DEF Init, IdleWork
  <1>2. clock \in Nat
    BY PollingAssumption DEF Init
  <1>3. \A w \in Workers : Holds(w) = {}
    BY <1>1 DEF Holds, At
  <1>. QED
    BY <1>1, <1>2, <1>3 DEF CInv, ClaimIsPast, HeldIsFresh, ClaimsApart, OnTime

\* A step of one worker that is on time, takes no user in hand that it did not
\* have and stamps nothing keeps the invariant.
LEMMA WorkerCInv ==
    ASSUME IInv, CInv, NEW w \in Workers,
           \A v \in Workers \ {w} : work'[v] = work[v],
           \A u \in Users : rows'[u].polledAt = rows[u].polledAt,
           clock' = clock, ClaimIsPast(w)', Prompt => OnTime(w)',
           Holds(w)' \subseteq Holds(w),
           Holds(w)' # {} => work'[w].now = work[w].now
    PROVE  CInv'
  <1>1. \A v \in Workers \ {w} : Holds(v)' = Holds(v)
    BY DEF Holds, At
  <1>2. ASSUME NEW v \in Workers PROVE ClaimIsPast(v)'
    BY DEF CInv, ClaimIsPast
  <1>3. ASSUME NEW v \in Workers PROVE HeldIsFresh(v)'
    <2>1. Holds(v)' \subseteq Holds(v) /\ Holds(v) \subseteq Users
      BY <1>1, HeldAreUsers
    <2>2. Holds(v)' # {} => work'[v].now = work[v].now
      OBVIOUS
    <2>. QED
      BY <2>1, <2>2 DEF CInv, HeldIsFresh
  <1>4. ClaimsApart'
    <2>. SUFFICES ASSUME NEW f \in Workers, NEW g \in Workers, f # g,
                         Holds(f)' \cap Holds(g)' # {}
                  PROVE  \/ work'[f].now + Staleness <= work'[g].now
                         \/ work'[g].now + Staleness <= work'[f].now
      BY DEF ClaimsApart
    <2>1. Holds(f) \cap Holds(g) # {}
      BY <1>1
    <2>2. work'[f].now = work[f].now /\ work'[g].now = work[g].now
      OBVIOUS
    <2>. QED
      BY <2>1, <2>2 DEF CInv, ClaimsApart
  <1>5. Prompt => \A v \in Workers : OnTime(v)'
    BY DEF CInv, OnTime, Budget, Calls
  <1>. QED
    BY <1>2, <1>3, <1>4, <1>5 DEF CInv

\* The steps between the ticker and the stamp, and the ends of a cycle.
LEMMA CycleCInv ==
    ASSUME IInv, CInv, NEW w \in Workers,
           Wake(w) \/ ClaimBegin(w) \/ ClaimSelect(w) \/ EndBatch(w) \/ Stop(w)
    PROVE  CInv'
  <1>1. /\ work[w] \in Work /\ work \in [Workers -> Work] /\ clock \in Nat
        /\ ClaimIsPast(w) /\ clock' = clock /\ rows' = rows
    BY WorkFacts DEF CInv, Wake, ClaimBegin, ClaimSelect, EndBatch, Stop
  <1>2. CASE Wake(w) \/ ClaimBegin(w) \/ EndBatch(w) \/ Stop(w)
    <2>1. /\ \A v \in Workers \ {w} : work'[v] = work[v]
          /\ work'[w].pc \in {"idle", "drain", "claiming"}
          /\ work'[w].pc = "claiming" => work'[w].now = clock
          /\ work'[w].user = NULL
          /\ work'[w].now \in {0, clock, work[w].now}
      BY <1>1, <1>2 DEF Wake, ClaimBegin, EndBatch, Stop, IdleWork, Work,
         ClaimIsPast, InCall, At
    <2>2. ClaimIsPast(w)' /\ OnTime(w)'
      BY <1>1, <2>1 DEF ClaimIsPast, OnTime
    <2>3. Holds(w)' = {}
      BY <2>1 DEF Holds, At
    <2>. QED
      BY <1>1, <2>1, <2>2, <2>3, WorkerCInv
  <1>3. CASE ClaimSelect(w)
    <2>1. PICK batch :
            work' = [work EXCEPT ![w].pc = "locked", ![w].batch = batch]
      BY <1>3 DEF ClaimSelect
    <2>2. /\ \A v \in Workers \ {w} : work'[v] = work[v]
          /\ work[w].pc = "claiming" /\ work'[w].pc = "locked"
          /\ work'[w].now = work[w].now /\ work'[w].user = work[w].user
      BY <1>1, <1>3, <2>1 DEF ClaimSelect, At, Work
    <2>3. ClaimIsPast(w)'
      BY <1>1, <2>2 DEF ClaimIsPast, InCall
    <2>4. Prompt => OnTime(w)'
      BY <1>1, <2>2 DEF CInv, OnTime
    <2>5. Holds(w)' = {}
      BY <2>2 DEF Holds, At
    <2>. QED
      BY <1>1, <2>2, <2>3, <2>4, <2>5, WorkerCInv
  <1>. QED
    BY <1>2, <1>3

\* A call takes the user out of the batch and adds its timeout to the budget.
LEMMA CallCInv ==
    ASSUME IInv, CInv, NEW w \in Workers, Call(w)
    PROVE  CInv'
  <1>1. PICK u \in work[w].batch :
          work' = [work EXCEPT ![w].pc = "calling", ![w].user = u,
                               ![w].batch = @ \ {u},
                               ![w].deadline = clock + CallTimeout]
    BY DEF Call
  <1>2. /\ work[w].pc = "polling" /\ clock' = clock /\ rows' = rows
        /\ work[w].now \in Nat /\ work[w].batch \subseteq Users
        /\ work[w].user = NULL /\ work[w].now <= clock
    BY WorkFacts DEF Call, At, CInv, ClaimIsPast, InCall
  <1>3. /\ \A v \in Workers \ {w} : work'[v] = work[v]
        /\ work'[w].pc = "calling" /\ work'[w].user = u
        /\ work'[w].batch = work[w].batch \ {u}
        /\ work'[w].now = work[w].now
        /\ work'[w].processed = work[w].processed
        /\ work'[w].deadline = clock + CallTimeout
    BY <1>1, WorkFacts DEF Work
  <1>4. ClaimIsPast(w)'
    BY <1>2, <1>3 DEF ClaimIsPast, InCall
  <1>5. ASSUME Prompt PROVE OnTime(w)'
    <2>. DEFINE n == Calls(w)
                b == Budget(w)
    <2>1. u # NULL
      BY <1>2, PollingAssumption
    <2>2. n = work[w].processed /\ n \in Nat /\ Calls(w)' = n + 1
      <3>1. work[w].processed \in Nat
        BY WorkFacts DEF Work
      <3>. QED
        BY <1>2, <1>3, <2>1, <3>1 DEF Calls
    <2>3. Budget(w)' = b + CallTimeout
      <3>1. Budget(w)' = work[w].now + (n + 1) * CallTimeout
        BY <1>3, <2>2 DEF Budget
      <3>2. b = work[w].now + n * CallTimeout
        BY DEF Budget
      <3>. HIDE DEF n, b
      <3>3. /\ n * CallTimeout \in Nat
            /\ (n + 1) * CallTimeout = n * CallTimeout + CallTimeout
        BY <2>2, CallsAdd
      <3>. QED
        BY <1>2, <3>1, <3>2, <3>3, PollingAssumption
    <2>4. clock <= b /\ clock \in Nat /\ b \in Nat
      BY <1>2, <1>5, WorkFacts DEF CInv, OnTime
    <2>. HIDE DEF n, b
    <2>5. clock <= clock + CallTimeout /\ clock + CallTimeout <= Budget(w)'
      BY <2>3, <2>4, PollingAssumption
    <2>. QED
      BY <1>2, <1>3, <2>5 DEF OnTime
  <1>6. Holds(w)' \subseteq Holds(w)
    BY <1>2, <1>3 DEF Holds, At
  <1>. QED
    BY <1>2, <1>3, <1>4, <1>5, <1>6, WorkerCInv

\* The steps of a call's end and of the write after it: a call that was begun
\* becomes one that is done.
LEMMA AnswerCInv ==
    ASSUME IInv, CInv, NEW w \in Workers,
           Reply(w) \/ CallFails(w) \/ Judge(w) \/ Upsert(w)
    PROVE  CInv'
  <1>1. /\ work[w] \in Work /\ work \in [Workers -> Work] /\ ClaimIsPast(w)
        /\ clock \in Nat /\ Budget(w) \in Nat /\ work[w].deadline \in Nat
        /\ work[w].processed \in Nat
    BY WorkFacts DEF CInv, Work
  <1>2. /\ clock' = clock
        /\ \A u \in Users : rows'[u].polledAt = rows[u].polledAt
    <2>1. rows \in [Users -> Row]
      BY DEF IInv, TypeOK
    <2>. QED
      BY <2>1 DEF Reply, CallFails, Judge, Upsert, Row
  <1>3. /\ \A v \in Workers \ {w} : work'[v] = work[v]
        /\ work[w].pc \in InCall
        /\ work'[w].batch = work[w].batch /\ work'[w].now = work[w].now
        /\ \/ /\ work'[w].pc = "polling" /\ work'[w].user = NULL
              /\ work'[w].processed = work[w].processed + 1
           \/ /\ work'[w].pc \in {"replied", "writing"}
              /\ work'[w].user = work[w].user
              /\ work'[w].processed = work[w].processed
        /\ work'[w].pc = "replied" => work[w].pc = "calling"
                                      /\ work'[w].deadline = work[w].deadline
    BY <1>1 DEF Reply, CallFails, Judge, Upsert, NextUser, At, Work, InCall
  <1>4. work[w].user \in Users /\ work[w].user # NULL
    BY <1>3, PollingAssumption DEF IInv, WorkSound, InCall
  <1>5. Budget(w)' = Budget(w)
    <2>1. Calls(w)' = Calls(w)
      BY <1>1, <1>3, <1>4 DEF Calls
    <2>. QED
      BY <1>3, <2>1 DEF Budget
  <1>6. ClaimIsPast(w)'
    BY <1>1, <1>2, <1>3 DEF ClaimIsPast, InCall
  <1>7. ASSUME Prompt PROVE OnTime(w)'
    <2>1. OnTime(w)
      BY <1>7 DEF CInv
    <2>2. clock <= Budget(w)
      BY <1>1, <1>3, <2>1 DEF OnTime, InCall
    <2>. QED
      BY <1>1, <1>2, <1>3, <1>5, <2>1, <2>2 DEF OnTime
  <1>8. Holds(w)' \subseteq Holds(w)
    BY <1>3 DEF Holds, At, InCall
  <1>. QED
    BY <1>2, <1>3, <1>6, <1>7, <1>8, WorkerCInv

\* The stamp: the claimed rows were due, so that whoever still has one of them
\* in hand claimed it a window ago.
LEMMA CommitCInv ==
    ASSUME IInv, CInv, NEW w \in Workers, ClaimCommit(w)
    PROVE  CInv'
  <1>1. /\ work[w].pc = "locked" /\ work[w].user = NULL
        /\ work[w].now \in Nat /\ clock \in Nat /\ work[w].now <= clock
        /\ work[w].batch \subseteq Users /\ Staleness \in Nat
        /\ clock' = clock /\ work \in [Workers -> Work] /\ rows \in [Users -> Row]
    BY WorkFacts, PollingAssumption
       DEF ClaimCommit, At, CInv, ClaimIsPast, InCall, IInv, TypeOK
  <1>2. /\ \A v \in Workers \ {w} : work'[v] = work[v]
        /\ work'[w].pc = "polling" /\ work'[w].batch = work[w].batch
        /\ work'[w].now = work[w].now /\ work'[w].user = NULL
        /\ work'[w].processed = work[w].processed
    BY <1>1 DEF ClaimCommit, Work
  <1>3. /\ \A u \in work[w].batch : rows'[u].polledAt = work[w].now
        /\ \A u \in Users \ work[w].batch : rows'[u] = rows[u]
    BY <1>1 DEF ClaimCommit, Row
  <1>4. /\ \A v \in Workers \ {w} : Holds(v)' = Holds(v)
        /\ Holds(w)' = work[w].batch
    BY <1>1, <1>2, PollingAssumption DEF Holds, At
  <1>5. ASSUME NEW v \in Workers \ {w}, NEW u \in Holds(v) \cap work[w].batch
        PROVE  work[v].now + Staleness <= work[w].now
    <2>1. rows[u].polledAt \in Nat /\ work[v].now <= rows[u].polledAt
      BY DEF CInv, HeldIsFresh
    <2>2. rows[u].polledAt # NULL
      BY <2>1, PollingAssumption
    <2>3. rows[u].polledAt <= work[w].now - Staleness
      BY <1>1, <2>2 DEF IInv, ClaimsDue
    <2>4. work[v].now \in Nat
      BY WorkFacts
    <2>. QED
      BY <1>1, <2>1, <2>3, <2>4
  <1>6. \A v \in Workers : ClaimIsPast(v)'
    BY <1>1, <1>2 DEF CInv, ClaimIsPast
  <1>7. ASSUME NEW v \in Workers PROVE HeldIsFresh(v)'
    <2>1. CASE v = w
      BY <1>1, <1>2, <1>3, <1>4, <2>1 DEF HeldIsFresh
    <2>2. CASE v # w
      <3>1. Holds(v) \subseteq Users /\ work[v].now \in Nat
        BY HeldAreUsers, WorkFacts
      <3>2. ASSUME NEW u \in Holds(v)
            PROVE  rows'[u].polledAt \in Nat /\ work[v].now <= rows'[u].polledAt
        <4>1. CASE u \in work[w].batch
          BY <1>1, <1>3, <1>5, <2>2, <3>1, <4>1
        <4>2. CASE u \notin work[w].batch
          BY <1>3, <3>1, <4>2 DEF CInv, HeldIsFresh
        <4>. QED
          BY <4>1, <4>2
      <3>. QED
        BY <1>2, <1>4, <2>2, <3>2 DEF HeldIsFresh
    <2>. QED
      BY <2>1, <2>2
  <1>8. ClaimsApart'
    <2>. SUFFICES ASSUME NEW f \in Workers, NEW g \in Workers, f # g,
                         Holds(f)' \cap Holds(g)' # {}
                  PROVE  \/ work'[f].now + Staleness <= work'[g].now
                         \/ work'[g].now + Staleness <= work'[f].now
      BY DEF ClaimsApart
    <2>1. \A v \in Workers : work'[v].now = work[v].now
      BY <1>2
    <2>2. CASE f = w
      BY <1>4, <1>5, <2>1, <2>2
    <2>3. CASE g = w
      BY <1>4, <1>5, <2>1, <2>3
    <2>4. CASE f # w /\ g # w
      BY <1>4, <2>1, <2>4 DEF CInv, ClaimsApart
    <2>. QED
      BY <2>2, <2>3, <2>4
  <1>9. ASSUME Prompt, NEW v \in Workers PROVE OnTime(v)'
    <2>1. Budget(w)' = Budget(w)
      BY <1>1, <1>2 DEF Budget, Calls
    <2>2. CASE v = w
      <3>1. clock = work[w].now /\ work[w].now <= Budget(w)
        BY <1>1, <1>9, WorkFacts DEF CInv, OnTime
      <3>. QED
        BY <1>1, <1>2, <2>1, <2>2, <3>1 DEF OnTime
    <2>3. CASE v # w
      BY <1>1, <1>2, <1>9, <2>3 DEF CInv, OnTime, Budget, Calls
    <2>. QED
      BY <2>2, <2>3
  <1>. QED
    BY <1>6, <1>7, <1>8, <1>9 DEF CInv

\* Time passes for prompt workers only where every one of them has time.
LEMMA TickCInv ==
    ASSUME IInv, CInv, Tick
    PROVE  CInv'
  <1>1. work' = work /\ rows' = rows /\ clock' = clock + 1 /\ clock \in Nat
    BY DEF Tick, IInv, TypeOK
  <1>2. ASSUME Prompt, NEW w \in Workers PROVE OnTime(w)'
    <2>1. MayWait(w) /\ OnTime(w) /\ work[w].deadline \in Nat
      BY <1>2, WorkFacts DEF Tick, CInv
    <2>2. Budget(w)' = Budget(w)
      BY <1>1 DEF Budget, Calls
    <2>. QED
      BY <1>1, <2>1, <2>2 DEF OnTime, MayWait, At
  <1>3. \A w \in Workers : Holds(w)' = Holds(w)
    BY <1>1 DEF Holds, At
  <1>4. \A w \in Workers : ClaimIsPast(w)'
    <2>1. \A w \in Workers : work[w].now \in Nat
      BY WorkFacts
    <2>. QED
      BY <1>1, <2>1 DEF CInv, ClaimIsPast
  <1>5. (\A w \in Workers : HeldIsFresh(w)') /\ ClaimsApart'
    BY <1>1, <1>3 DEF CInv, HeldIsFresh, ClaimsApart
  <1>. QED
    BY <1>2, <1>4, <1>5 DEF CInv

LEMMA IdleCInv ==
    ASSUME CInv, UNCHANGED <<clock, rows, work>>
    PROVE  CInv'
  BY DEF CInv, ClaimIsPast, HeldIsFresh, ClaimsApart, OnTime, Holds, Budget,
     Calls, At

\* Two workers have one user in hand only when the earlier claim is a staleness
\* window old, and, if only calls take time, when its worker has made as many of
\* them as fill a window.  No condition on the constants: in the code's, a window
\* of 300 seconds is full after 60 calls of 5, and a batch may have 100.
THEOREM CollisionsAreLate == Spec => []CollisionsComeLate
  <1>1. ASSUME IInv, CInv, [Next]_vars PROVE CInv'
    <2>1. ASSUME NEW u \in Users, PlanChanges(u) PROVE CInv'
      BY <1>1, <2>1, IdleCInv DEF PlanChanges
    <2>2. CASE UNCHANGED vars
      BY <1>1, <2>2, IdleCInv DEF vars
    <2>. QED
      BY <1>1, <2>1, <2>2, TickCInv, CycleCInv, CallCInv, AnswerCInv, CommitCInv
         DEF Next, WorkerStep
  <1>. QED
    BY <1>1, InitCInv, CInvSuffices, Invariance, PTL DEF Spec

-------------------------------------------------------------------------------
(* Revocations *)

\* An answer is written while its call may still run, so that the carrier had no
\* plan at most a timeout before.
AnswerFresh(w) ==
    /\ work[w].pc \in {"calling", "replied"} => clock <= work[w].deadline
    /\ work[w].pc = "calling" => work[w].deadline <= clock + CallTimeout
    /\ work[w].pc = "replied" /\ work[w].reply = FALSE =>
          work[w].deadline <= endedAt[work[w].user] + CallTimeout
    /\ work[w].pc = "writing" =>
          work[w].at <= endedAt[work[w].user] + CallTimeout

EndsKnown == \A u \in Users : /\ endedAt[u] <= clock
                              /\ ~plan[u] => endedAt[u] = clock

AInv == /\ EndsKnown
        /\ \A w \in Workers : AnswerFresh(w)
        /\ RevokedOnlyWithoutPlan

\* A step that moves one worker on and writes no row.
LEMMA WorkerAInv ==
    ASSUME IInv, AInv, NEW w \in Workers,
           \A v \in Workers \ {w} : work'[v] = work[v],
           AnswerFresh(w)',
           UNCHANGED <<clock, plan, endedAt, audit>>,
           \A u \in Users : /\ rows'[u].active = rows[u].active
                            /\ rows'[u].lastEvent = rows[u].lastEvent
    PROVE  AInv'
  <1>1. EndsKnown'
    BY DEF AInv, EndsKnown
  <1>2. \A v \in Workers : AnswerFresh(v)'
    BY DEF AInv, AnswerFresh
  <1>3. RevokedOnlyWithoutPlan'
    BY DEF AInv, RevokedOnlyWithoutPlan
  <1>. QED
    BY <1>1, <1>2, <1>3 DEF AInv

LEMMA MoveAInv ==
    ASSUME IInv, AInv, NEW w \in Workers,
           \/ Wake(w) \/ ClaimBegin(w) \/ ClaimSelect(w) \/ ClaimCommit(w)
           \/ CallFails(w) \/ EndBatch(w) \/ Stop(w)
    PROVE  AInv'
  <1>0. /\ work[w] \in Work /\ work \in [Workers -> Work] /\ rows \in [Users -> Row]
    BY DEF IInv, TypeOK
  <1>1. UNCHANGED <<clock, plan, endedAt, audit>>
    BY DEF Wake, ClaimBegin, ClaimSelect, ClaimCommit, CallFails, EndBatch, Stop
  <1>2. \A u \in Users : /\ rows'[u].active = rows[u].active
                         /\ rows'[u].lastEvent = rows[u].lastEvent
    <2>1. CASE ClaimCommit(w)
      BY <1>0, <2>1 DEF ClaimCommit, Row
    <2>2. CASE ~ClaimCommit(w)
      BY <2>2 DEF Wake, ClaimBegin, ClaimSelect, CallFails, EndBatch, Stop
    <2>. QED
      BY <2>1, <2>2
  <1>3. \A v \in Workers \ {w} : work'[v] = work[v]
    <2>1. CASE Wake(w) \/ ClaimBegin(w) \/ ClaimCommit(w) \/ CallFails(w)
      BY <1>0, <2>1 DEF Wake, ClaimBegin, ClaimCommit, CallFails, NextUser
    <2>2. CASE ClaimSelect(w)
      BY <1>0, <2>2 DEF ClaimSelect
    <2>3. CASE EndBatch(w) \/ Stop(w)
      BY <1>0, <2>3 DEF EndBatch, Stop
    <2>. QED
      BY <2>1, <2>2, <2>3
  <1>4. work'[w].pc \in {"idle", "drain", "claiming", "locked", "polling"}
    <2>1. CASE Wake(w) \/ ClaimBegin(w)
      BY <1>0, <2>1 DEF Wake, ClaimBegin, Work
    <2>2. CASE ClaimSelect(w)
      <3>1. PICK batch :
                work' = [work EXCEPT ![w].pc = "locked", ![w].batch = batch]
        BY <2>2 DEF ClaimSelect
      <3>. QED
        BY <1>0, <3>1 DEF Work
    <2>3. CASE ClaimCommit(w) \/ CallFails(w)
      BY <1>0, <2>3 DEF ClaimCommit, CallFails, NextUser, Work
    <2>4. CASE EndBatch(w) \/ Stop(w)
      BY <1>0, <2>4 DEF EndBatch, Stop, IdleWork
    <2>. QED
      BY <2>1, <2>2, <2>3, <2>4
  <1>5. AnswerFresh(w)'
    BY <1>4 DEF AnswerFresh
  <1>. QED
    BY <1>1, <1>2, <1>3, <1>5, WorkerAInv

LEMMA CallAInv ==
    ASSUME IInv, AInv, NEW w \in Workers, Call(w) \/ Reply(w) \/ Judge(w)
    PROVE  AInv'
  <1>0. /\ work[w] \in Work /\ work \in [Workers -> Work] /\ clock \in Nat
        /\ plan \in [Users -> BOOLEAN]
        /\ endedAt \in [Users -> Nat] /\ CallTimeout \in Nat
        /\ work[w].deadline \in Nat
    BY PollingAssumption DEF IInv, TypeOK, Work
  <1>1. UNCHANGED <<clock, plan, endedAt, audit, rows>>
    BY DEF Call, Reply, Judge
  <1>2. \A v \in Workers \ {w} : work'[v] = work[v]
    BY <1>0 DEF Call, Reply, Judge, NextUser
  <1>3. CASE Call(w)
    <2>1. work'[w].pc = "calling" /\ work'[w].deadline = clock + CallTimeout
      <3>1. PICK u \in work[w].batch :
                work' = [work EXCEPT ![w].pc = "calling", ![w].user = u,
                                     ![w].batch = work[w].batch \ {u},
                                     ![w].deadline = clock + CallTimeout]
        BY <1>0, <1>3 DEF Call
      <3>. QED
        BY <1>0, <3>1 DEF Work
    <2>2. AnswerFresh(w)'
      BY <1>0, <1>1, <2>1 DEF AnswerFresh
    <2>. QED
      BY <1>1, <1>2, <2>2, WorkerAInv
  <1>4. CASE Reply(w)
    <2>1. /\ work[w].pc = "calling" /\ work[w].user \in Users
      BY <1>4 DEF Reply, At, IInv, WorkSound
    <2>2. /\ work'[w].pc = "replied" /\ work'[w].user = work[w].user
          /\ work'[w].deadline = work[w].deadline
          /\ work'[w].reply = plan[work[w].user]
      BY <1>0, <1>4 DEF Reply, Work
    <2>3. /\ clock <= work[w].deadline
          /\ work[w].deadline <= clock + CallTimeout
      BY <2>1 DEF AInv, AnswerFresh
    <2>4. work'[w].reply = FALSE => endedAt[work[w].user] = clock
      BY <2>1, <2>2 DEF AInv, EndsKnown
    <2>5. AnswerFresh(w)'
      BY <1>1, <2>2, <2>3, <2>4 DEF AnswerFresh
    <2>. QED
      BY <1>1, <1>2, <2>5, WorkerAInv
  <1>5. CASE Judge(w)
    <2>1. /\ work[w].pc = "replied" /\ work[w].user \in Users
          /\ work[w].reply \in BOOLEAN
      BY <1>5 DEF Judge, At, IInv, WorkSound
    <2>2. \/ work'[w].pc = "polling"
          \/ /\ work[w].reply = FALSE
             /\ work'[w].pc = "writing" /\ work'[w].user = work[w].user
             /\ work'[w].at = clock
      BY <1>0, <1>5, <2>1 DEF Judge, NextUser, Work
    <2>3. clock <= work[w].deadline
      BY <2>1 DEF AInv, AnswerFresh
    <2>4. work[w].reply = FALSE =>
             work[w].deadline <= endedAt[work[w].user] + CallTimeout
      BY <2>1 DEF AInv, AnswerFresh
    <2>5. endedAt[work[w].user] \in Nat
      BY <1>0, <2>1
    <2>6. work[w].reply = FALSE => clock <= endedAt[work[w].user] + CallTimeout
      BY <1>0, <2>3, <2>4, <2>5
    <2>7. AnswerFresh(w)'
      BY <1>1, <2>2, <2>6 DEF AnswerFresh
    <2>. QED
      BY <1>1, <1>2, <2>7, WorkerAInv
  <1>. QED
    BY <1>3, <1>4, <1>5

LEMMA UpsertAInv ==
    ASSUME IInv, AInv, NEW w \in Workers, Upsert(w)
    PROVE  AInv'
  <1>. DEFINE u == work[w].user
              newer == rows[u].lastEvent < work[w].at
  <1>0. /\ work[w] \in Work /\ work \in [Workers -> Work]
        /\ rows \in [Users -> Row] /\ u \in Users
        /\ work[w].pc = "writing"
        /\ audit \in [Users -> Seq([from : BOOLEAN, to : BOOLEAN])]
    BY DEF IInv, TypeOK, WorkSound, Upsert, At
  <1>1. UNCHANGED <<clock, plan, endedAt>>
    BY DEF Upsert
  <1>2. /\ \A v \in Workers \ {w} : work'[v] = work[v]
        /\ work'[w].pc = "polling"
    BY <1>0 DEF Upsert, NextUser, Work
  <1>3. /\ \A v \in Users \ {u} : rows'[v] = rows[v] /\ audit'[v] = audit[v]
        /\ newer => rows'[u].lastEvent = work[w].at
        /\ ~newer => rows' = rows /\ audit' = audit
    <2>1. CASE newer
      <3>1. rows' = [rows EXCEPT ![u].active = work[w].reply,
                                 ![u].lastEvent = work[w].at]
        BY <2>1 DEF Upsert
      <3>2. \A v \in Users \ {u} : rows'[v] = rows[v]
        BY <1>0, <3>1
      <3>3. rows'[u].lastEvent = work[w].at
        BY <1>0, <3>1 DEF Row
      <3>4. \A v \in Users \ {u} : audit'[v] = audit[v]
        BY <1>0 DEF Upsert
      <3>. QED
        BY <2>1, <3>2, <3>3, <3>4
    <2>2. CASE ~newer
      BY <2>2 DEF Upsert
    <2>. QED
      BY <2>1, <2>2
  <1>4. work[w].at <= endedAt[u] + CallTimeout
    BY <1>0 DEF AInv, AnswerFresh
  <1>5. RevokedOnlyWithoutPlan'
    BY <1>1, <1>3, <1>4 DEF AInv, RevokedOnlyWithoutPlan
  <1>6. EndsKnown' /\ \A v \in Workers : AnswerFresh(v)'
    BY <1>1, <1>2 DEF AInv, EndsKnown, AnswerFresh
  <1>. QED
    BY <1>5, <1>6 DEF AInv

\* The last time without a plan only advances, up to the clock.
LEMMA EnvironmentAInv ==
    ASSUME IInv, AInv, Prompt, Tick \/ \E u \in Users : PlanChanges(u)
    PROVE  AInv'
  <1>0. /\ clock \in Nat /\ plan \in [Users -> BOOLEAN]
        /\ endedAt \in [Users -> Nat] /\ CallTimeout \in Nat
        /\ work \in [Workers -> Work] /\ rows \in [Users -> Row]
    BY PollingAssumption DEF IInv, TypeOK
  <1>1. UNCHANGED <<rows, audit, work>>
    BY DEF Tick, PlanChanges
  <1>2. /\ endedAt' \in [Users -> Nat] /\ clock' \in Nat
        /\ \/ clock' = clock
           \/ clock' = clock + 1 /\ \A w \in Workers : MayWait(w)
        /\ \A u \in Users : endedAt[u] <= endedAt'[u]
        /\ EndsKnown'
    <2>1. CASE Tick
      <3>1. /\ clock' = clock + 1 /\ plan' = plan
            /\ endedAt' = [u \in Users |-> IF plan[u] THEN endedAt[u] ELSE clock + 1]
            /\ \A w \in Workers : MayWait(w)
        BY <2>1 DEF Tick
      <3>2. \A u \in Users : /\ endedAt'[u] = IF plan[u] THEN endedAt[u] ELSE clock + 1
                             /\ endedAt[u] \in Nat /\ endedAt[u] <= clock
        BY <1>0, <3>1 DEF AInv, EndsKnown
      <3>3. EndsKnown'
        BY <1>0, <3>1, <3>2 DEF EndsKnown
      <3>4. endedAt' \in [Users -> Nat] /\ clock' \in Nat
        BY <1>0, <3>1
      <3>5. \A u \in Users : endedAt[u] <= endedAt'[u]
        BY <1>0, <3>2
      <3>. QED
        BY <3>1, <3>3, <3>4, <3>5
    <2>2. ASSUME NEW u \in Users, PlanChanges(u)
          PROVE  /\ endedAt' \in [Users -> Nat] /\ clock' = clock
                 /\ \A v \in Users : endedAt[v] <= endedAt'[v]
                 /\ EndsKnown'
      BY <1>0, <2>2 DEF PlanChanges, AInv, EndsKnown
    <2>3. CASE \E u \in Users : PlanChanges(u)
      BY <1>0, <2>2, <2>3
    <2>. QED
      BY <2>1, <2>3
  <1>3. ASSUME NEW w \in Workers
        PROVE  AnswerFresh(w)'
    <2>1. /\ work[w].deadline \in Nat /\ work[w].at \in Nat
          /\ work[w].pc \in {"replied", "writing"} => work[w].user \in Users
      BY <1>0 DEF Work, IInv, WorkSound
    <2>2. work[w].pc \in {"calling", "replied"} => clock' <= work[w].deadline
      BY <1>0, <1>2, <2>1 DEF AInv, AnswerFresh, MayWait, At
    <2>3. work[w].pc = "calling" => work[w].deadline <= clock' + CallTimeout
      BY <1>0, <1>2, <2>1 DEF AInv, AnswerFresh
    <2>4. work[w].pc \in {"replied", "writing"} =>
             endedAt[work[w].user] + CallTimeout
               <= endedAt'[work[w].user] + CallTimeout
      BY <1>0, <1>2, <2>1
    <2>5. /\ work[w].pc \in {"replied", "writing"} =>
                /\ endedAt[work[w].user] + CallTimeout \in Nat
                /\ endedAt'[work[w].user] + CallTimeout \in Nat
          /\ work[w].pc = "replied" /\ work[w].reply = FALSE =>
                work[w].deadline <= endedAt[work[w].user] + CallTimeout
          /\ work[w].pc = "writing" =>
                work[w].at <= endedAt[work[w].user] + CallTimeout
      BY <1>0, <1>2, <2>1 DEF AInv, AnswerFresh
    <2>6. /\ work[w].pc = "replied" /\ work[w].reply = FALSE =>
                work[w].deadline <= endedAt'[work[w].user] + CallTimeout
          /\ work[w].pc = "writing" =>
                work[w].at <= endedAt'[work[w].user] + CallTimeout
      BY <2>1, <2>4, <2>5
    <2>. QED
      BY <1>1, <2>2, <2>3, <2>6 DEF AnswerFresh
  <1>4. RevokedOnlyWithoutPlan'
    <2>1. ASSUME NEW u \in Users, ~rows[u].active, audit[u] # <<>>
          PROVE  rows[u].lastEvent <= endedAt'[u] + CallTimeout
      <3>1. rows[u].lastEvent <= endedAt[u] + CallTimeout
        BY <2>1 DEF AInv, RevokedOnlyWithoutPlan
      <3>2. rows[u].lastEvent \in Nat
        BY <1>0 DEF Row
      <3>. QED
        BY <3>1, <3>2, <1>0, <1>2
    <2>. QED
      BY <1>1, <2>1 DEF RevokedOnlyWithoutPlan
  <1>. QED
    BY <1>2, <1>3, <1>4 DEF AInv

LEMMA InitAInv == Init => AInv
  <1>. SUFFICES ASSUME Init PROVE AInv
    OBVIOUS
  <1>1. EndsKnown
    BY PollingAssumption DEF Init, EndsKnown
  <1>. QED
    BY <1>1 DEF Init, AInv, AnswerFresh, RevokedOnlyWithoutPlan, IdleWork

LEMMA NextAInv ==
    ASSUME Prompt, IInv, AInv, [Next]_vars
    PROVE  AInv'
  <1>1. CASE UNCHANGED vars
    BY <1>1 DEF vars, AInv, EndsKnown, AnswerFresh, RevokedOnlyWithoutPlan
  <1>. QED
    BY <1>1, EnvironmentAInv, MoveAInv, CallAInv, UpsertAInv DEF Next, WorkerStep

\* If workers take time only in calls, a row that polling closed carries a time
\* at which, or at most a timeout before which, the carrier had no plan.
THEOREM RevocationsAreJustified ==
    ASSUME Prompt
    PROVE  Spec => []RevokedOnlyWithoutPlan
  <1>1. AInv => RevokedOnlyWithoutPlan
    BY DEF AInv
  <1>. QED
    BY <1>1, InitAInv, NextAInv, Invariance, PTL DEF Spec
===============================================================================
