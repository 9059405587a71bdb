-------------------------- MODULE CarrierLedgerProofs --------------------------
(***************************************************************************)
(* Carrier polling implements PollingLedger, for every value of the        *)
(* constants, with prompt workers and with workers that pause.             *)
(***************************************************************************)
EXTENDS CarrierPollingProofs

-------------------------------------------------------------------------------
(* The inductive invariant *)

\* A worker's claims are of active rows and not of the future, the users it has
\* in hand were claimed, and a negative answer was true when it was given.
Grounded(w) ==
    /\ work[w].pc \in {"claiming", "locked"} => work[w].now \in StartClock..clock
    /\ work[w].pc = "locked" => \A u \in work[w].batch : rows[u].active
    /\ work[w].pc \in Busy =>
          \A u \in work[w].batch : rows[u].polledAt # NULL
    /\ work[w].pc \in {"calling", "replied", "writing"} =>
          rows[work[w].user].polledAt # NULL
    /\ work[w].pc \in {"replied", "writing"} /\ work[w].reply = FALSE =>
          StartClock <= endedAt[work[w].user]
    /\ work[w].pc = "writing" =>
          work[w].reply = FALSE /\ work[w].at \in StartClock..clock

LInv == /\ StartClock <= clock
        /\ EndsKnown
        /\ \A w \in Workers : Grounded(w)
        /\ Prompt => AInv

\* A step of one worker that takes no other's row from under its locks.
LEMMA WorkerGrounded ==
    ASSUME IInv, LInv, [Next]_vars, NEW w \in Workers,
           \A v \in Workers \ {w} : work'[v] = work[v],
           Grounded(w)',
           UNCHANGED <<clock, plan, endedAt>>,
           \A u \in Users : rows[u].polledAt # NULL => rows'[u].polledAt # NULL,
           \A v \in Workers \ {w} : work[v].pc = "locked" =>
              \A u \in work[v].batch : rows'[u].active = rows[u].active
    PROVE  LInv'
  <1>1. ASSUME NEW v \in Workers \ {w} PROVE Grounded(v)'
    <2>1. /\ Grounded(v) /\ work'[v] = work[v]
          /\ work[v].batch \subseteq Users
          /\ work[v].pc \in {"calling", "replied", "writing"} =>
                work[v].user \in Users
      BY DEF LInv, IInv, TypeOK, WorkSound, Work
    <2>. QED
      BY <2>1 DEF Grounded
  <1>2. StartClock <= clock' /\ EndsKnown'
    BY DEF LInv, EndsKnown
  <1>3. Prompt => AInv'
    BY NextAInv DEF LInv
  <1>. QED
    BY <1>1, <1>2, <1>3 DEF LInv

\* The steps around a claim, none of which changes who has a plan or a row's
\* activity, and those that let go of the user in hand.
LEMMA CycleGrounded ==
    ASSUME IInv, LInv, NEW w \in Workers,
           Wake(w) \/ ClaimBegin(w) \/ ClaimSelect(w) \/ EndBatch(w)
             \/ CallFails(w) \/ Stop(w),
           [Next]_vars
    PROVE  LInv'
  <1>0. /\ work[w] \in Work /\ work \in [Workers -> Work]
        /\ clock \in Nat /\ Grounded(w) /\ StartClock \in Nat /\ StartClock <= clock
    BY PollingAssumption DEF IInv, TypeOK, LInv
  <1>1. UNCHANGED <<clock, plan, endedAt, rows>>
    BY DEF Wake, ClaimBegin, ClaimSelect, EndBatch, CallFails, Stop
  <1>2. CASE Wake(w) \/ EndBatch(w) \/ Stop(w)
    <2>1. /\ \A v \in Workers \ {w} : work'[v] = work[v]
          /\ work'[w].pc \in {"idle", "drain"}
      BY <1>0, <1>2 DEF Wake, EndBatch, Stop, IdleWork, Work
    <2>2. Grounded(w)'
      BY <2>1 DEF Grounded, Busy
    <2>. QED
      BY <1>1, <2>1, <2>2, WorkerGrounded
  <1>3. CASE ClaimBegin(w)
    <2>1. /\ \A v \in Workers \ {w} : work'[v] = work[v]
          /\ work'[w].pc = "claiming" /\ work'[w].now = clock
      BY <1>0, <1>3 DEF ClaimBegin, Work
    <2>2. Grounded(w)'
      BY <1>0, <1>1, <2>1 DEF Grounded, Busy
    <2>. QED
      BY <1>1, <2>1, <2>2, WorkerGrounded
  <1>4. CASE ClaimSelect(w)
    <2>1. PICK batch \in SUBSET {u \in Users : Due(u, work[w].now) /\ ~RowLocked(u)} :
              work' = [work EXCEPT ![w].pc = "locked", ![w].batch = batch]
      BY <1>4 DEF ClaimSelect
    <2>2. /\ \A v \in Workers \ {w} : work'[v] = work[v]
          /\ work[w].pc = "claiming"
          /\ work'[w].pc = "locked" /\ work'[w].now = work[w].now
          /\ work'[w].batch = batch
      BY <1>0, <1>4, <2>1 DEF ClaimSelect, At, Work
    <2>3. \A u \in batch : rows[u].active
      BY DEF Due
    <2>4. Grounded(w)'
      BY <1>0, <1>1, <2>2, <2>3 DEF Grounded, Busy
    <2>. QED
      BY <1>1, <2>2, <2>4, WorkerGrounded
  <1>5. CASE CallFails(w)
    <2>1. /\ \A v \in Workers \ {w} : work'[v] = work[v]
          /\ work[w].pc \in Busy
          /\ work'[w].pc = "polling" /\ work'[w].batch = work[w].batch
      BY <1>0, <1>5 DEF CallFails, NextUser, At, Work, Busy
    <2>2. Grounded(w)'
      BY <1>0, <1>1, <2>1 DEF Grounded
    <2>. QED
      BY <1>1, <2>1, <2>2, WorkerGrounded
  <1>. QED
    BY <1>2, <1>3, <1>4, <1>5

LEMMA CommitGrounded ==
    ASSUME IInv, LInv, NEW w \in Workers, ClaimCommit(w), [Next]_vars
    PROVE  LInv'
  <1>1. /\ work[w] \in Work /\ work \in [Workers -> Work] /\ Grounded(w)
        /\ rows \in [Users -> Row] /\ work[w].pc = "locked"
        /\ work[w].batch \subseteq Users /\ work[w].now \in Nat
        /\ work[w].now # NULL
    BY PollingAssumption DEF IInv, TypeOK, LInv, ClaimCommit, At, Work
  <1>2. UNCHANGED <<clock, plan, endedAt>>
    BY DEF ClaimCommit
  <1>3. /\ \A v \in Workers \ {w} : work'[v] = work[v]
        /\ work'[w].pc = "polling" /\ work'[w].batch = work[w].batch
    BY <1>1 DEF ClaimCommit, Work
  <1>4. \A u \in Users : /\ rows'[u].active = rows[u].active
                         /\ rows'[u].polledAt = IF u \in work[w].batch
                                                THEN work[w].now
                                                ELSE rows[u].polledAt
    BY <1>1 DEF ClaimCommit, Row
  <1>5. Grounded(w)'
    BY <1>1, <1>3, <1>4 DEF Grounded
  <1>6. \A v \in Workers : work[v].batch \subseteq Users
    BY DEF IInv, TypeOK, Work
  <1>. QED
    BY <1>1, <1>2, <1>3, <1>4, <1>5, <1>6, WorkerGrounded

LEMMA CallGrounded ==
    ASSUME IInv, LInv, NEW w \in Workers, Call(w) \/ Reply(w) \/ Judge(w),
           [Next]_vars
    PROVE  LInv'
  <1>0. /\ work[w] \in Work /\ work \in [Workers -> Work] /\ clock \in Nat
        /\ plan \in [Users -> BOOLEAN]
        /\ Grounded(w) /\ StartClock \in Nat /\ StartClock <= clock /\ EndsKnown
    BY PollingAssumption DEF IInv, TypeOK, LInv
  <1>1. UNCHANGED <<clock, plan, endedAt, rows>>
    BY DEF Call, Reply, Judge
  <1>2. \A v \in Workers \ {w} : work'[v] = work[v]
    BY <1>0 DEF Call, Reply, Judge, NextUser
  <1>3. CASE Call(w)
    <2>1. PICK u \in work[w].batch :
              work' = [work EXCEPT ![w].pc = "calling", ![w].user = u,
                                   ![w].batch = work[w].batch \ {u},
                                   ![w].deadline = clock + CallTimeout]
      BY <1>0, <1>3 DEF Call
    <2>2. /\ work[w].pc = "polling" /\ work'[w].pc = "calling"
          /\ work'[w].user = u /\ work'[w].batch = work[w].batch \ {u}
      BY <1>0, <1>3, <2>1 DEF Call, At, Work
    <2>3. Grounded(w)'
      BY <1>0, <1>1, <2>2 DEF Grounded, Busy
    <2>. QED
      BY <1>1, <1>2, <2>3, WorkerGrounded
  <1>4. CASE Reply(w)
    <2>1. /\ work[w].pc = "calling" /\ work[w].user \in Users
      BY <1>4 DEF Reply, At, IInv, WorkSound
    <2>2. /\ work'[w].pc = "replied" /\ work'[w].user = work[w].user
          /\ work'[w].batch = work[w].batch
          /\ work'[w].reply = plan[work[w].user]
      BY <1>0, <1>4 DEF Reply, Work
    <2>3. work'[w].reply = FALSE => endedAt[work[w].user] = clock
      BY <2>1, <2>2, <1>0 DEF EndsKnown
    <2>4. Grounded(w)'
      BY <1>0, <1>1, <2>1, <2>2, <2>3 DEF Grounded, Busy
    <2>. QED
      BY <1>1, <1>2, <2>4, WorkerGrounded
  <1>5. CASE Judge(w)
    <2>1. /\ work[w].pc = "replied" /\ work[w].reply \in BOOLEAN
      BY <1>5 DEF Judge, At, IInv, WorkSound
    <2>2. /\ work'[w].batch = work[w].batch
          /\ \/ work'[w].pc = "polling"
             \/ /\ work[w].reply = FALSE /\ work'[w].reply = FALSE
                /\ work'[w].pc = "writing" /\ work'[w].user = work[w].user
                /\ work'[w].at = clock
      BY <1>0, <1>5, <2>1 DEF Judge, NextUser, Work
    <2>3. Grounded(w)'
      BY <1>0, <1>1, <2>1, <2>2 DEF Grounded, Busy
    <2>. QED
      BY <1>1, <1>2, <2>3, WorkerGrounded
  <1>. QED
    BY <1>3, <1>4, <1>5

\* What an upsert does: the answer is negative, and nobody has the row locked.
LEMMA UpsertSteps ==
    ASSUME IInv, LInv, NEW w \in Workers, Upsert(w)
    PROVE  LET u == work[w].user
               at == work[w].at
           IN  /\ u \in Users /\ at \in Nat /\ rows[u].lastEvent \in Nat
               /\ rows' = IF rows[u].lastEvent < at
                          THEN [rows EXCEPT ![u].active = FALSE,
                                            ![u].lastEvent = at]
                          ELSE rows
               /\ audit' = IF rows[u].lastEvent < at /\ rows[u].active
                           THEN [audit EXCEPT ![u] =
                                   Append(@, [from |-> TRUE, to |-> FALSE])]
                           ELSE audit
               /\ ~RowLocked(u)
               /\ UNCHANGED <<clock, plan, endedAt>>
  <1>1. /\ work[w].pc = "writing" /\ work[w].user \in Users
        /\ work[w].reply = FALSE /\ work[w].at \in Nat
    BY DEF Upsert, At, IInv, WorkSound, LInv, Grounded, TypeOK, Work
  <1>2. rows[work[w].user].lastEvent \in Nat /\ rows[work[w].user].active \in BOOLEAN
    BY <1>1 DEF IInv, TypeOK, Row
  <1>. QED
    BY <1>1, <1>2 DEF Upsert, Changes

LEMMA UpsertGrounded ==
    ASSUME IInv, LInv, NEW w \in Workers, Upsert(w), [Next]_vars
    PROVE  LInv'
  <1>. DEFINE u == work[w].user
  <1>1. /\ work[w] \in Work /\ work \in [Workers -> Work] /\ Grounded(w)
        /\ rows \in [Users -> Row] /\ work[w].pc = "writing"
        /\ work[w].batch \subseteq Users
    BY DEF IInv, TypeOK, LInv, Upsert, At, Work
  <1>2. /\ u \in Users /\ ~RowLocked(u) /\ UNCHANGED <<clock, plan, endedAt>>
    BY UpsertSteps
  <1>3. /\ \A v \in Users : rows'[v].polledAt = rows[v].polledAt
        /\ \A v \in Users \ {u} : rows'[v] = rows[v]
    <2>. DEFINE at == work[w].at
    <2>1. CASE rows[u].lastEvent < at
      <3>1. rows' = [rows EXCEPT ![u].active = FALSE, ![u].lastEvent = at]
        BY <2>1, UpsertSteps
      <3>. QED
        BY <1>1, <1>2, <3>1 DEF Row
    <2>2. CASE ~(rows[u].lastEvent < at)
      BY <2>2, UpsertSteps
    <2>. QED
      BY <2>1, <2>2
  <1>4. /\ \A v \in Workers \ {w} : work'[v] = work[v]
        /\ work'[w].pc = "polling" /\ work'[w].batch = work[w].batch
    BY <1>1 DEF Upsert, NextUser, Work
  <1>5. Grounded(w)'
    BY <1>1, <1>3, <1>4 DEF Grounded, Busy
  <1>6. \A v \in Workers : work[v].batch \subseteq Users
    BY DEF IInv, TypeOK, Work
  <1>7. \A v \in Workers \ {w} : work[v].pc = "locked" =>
           \A x \in work[v].batch : rows'[x].active = rows[x].active
    BY <1>2, <1>3, <1>6 DEF RowLocked, At
  <1>. HIDE DEF u
  <1>. QED
    BY <1>2, <1>3, <1>4, <1>5, <1>7, WorkerGrounded

\* The clock and the plans only move the last time without a plan forward.
LEMMA EnvironmentGrounded ==
    ASSUME IInv, LInv, Tick \/ \E u \in Users : PlanChanges(u), [Next]_vars
    PROVE  LInv'
  <1>0. /\ clock \in Nat /\ plan \in [Users -> BOOLEAN]
        /\ endedAt \in [Users -> Nat] /\ StartClock \in Nat
        /\ StartClock <= clock /\ EndsKnown
    BY PollingAssumption DEF IInv, TypeOK, LInv
  <1>1. UNCHANGED <<rows, work>>
    BY DEF Tick, PlanChanges
  <1>2. /\ clock' \in Nat /\ clock <= clock'
        /\ \A u \in Users : endedAt'[u] \in Nat /\ endedAt[u] <= endedAt'[u]
        /\ EndsKnown'
    <2>1. CASE Tick
      <3>1. /\ clock' = clock + 1 /\ plan' = plan
            /\ endedAt' = [u \in Users |-> IF plan[u] THEN endedAt[u] ELSE clock + 1]
        BY <2>1 DEF Tick
      <3>2. \A u \in Users : /\ endedAt'[u] = IF plan[u] THEN endedAt[u] ELSE clock + 1
                             /\ endedAt[u] \in Nat /\ endedAt[u] <= clock
        BY <1>0, <3>1 DEF EndsKnown
      <3>. QED
        BY <1>0, <3>1, <3>2 DEF EndsKnown
    <2>2. ASSUME NEW u \in Users, PlanChanges(u)
          PROVE  /\ clock' = clock
                 /\ \A v \in Users : endedAt'[v] \in Nat /\ endedAt[v] <= endedAt'[v]
                 /\ EndsKnown'
      BY <1>0, <2>2 DEF PlanChanges, EndsKnown
    <2>3. CASE \E u \in Users : PlanChanges(u)
      BY <1>0, <2>2, <2>3
    <2>. QED
      BY <2>1, <2>3
  <1>3. ASSUME NEW w \in Workers PROVE Grounded(w)'
    <2>1. /\ Grounded(w) /\ work[w].now \in Nat /\ work[w].at \in Nat
          /\ work[w].pc \in {"replied", "writing"} => work[w].user \in Users
      BY DEF LInv, IInv, TypeOK, WorkSound, Work
    <2>2. /\ work[w].pc \in {"claiming", "locked"} =>
                work[w].now \in StartClock..clock'
          /\ work[w].pc = "writing" => work[w].at \in StartClock..clock'
      BY <1>0, <1>2, <2>1 DEF Grounded
    <2>3. work[w].pc \in {"replied", "writing"} /\ work[w].reply = FALSE =>
             StartClock <= endedAt'[work[w].user]
      <3>1. work[w].pc \in {"replied", "writing"} /\ work[w].reply = FALSE =>
               StartClock <= endedAt[work[w].user]
        BY <2>1 DEF Grounded
      <3>2. work[w].pc \in {"replied", "writing"} =>
               /\ endedAt[work[w].user] \in Nat /\ endedAt'[work[w].user] \in Nat
               /\ endedAt[work[w].user] <= endedAt'[work[w].user]
        BY <1>0, <1>2, <2>1
      <3>. QED
        BY <1>0, <3>1, <3>2
    <2>. QED
      BY <1>1, <2>1, <2>2, <2>3 DEF Grounded
  <1>4. StartClock <= clock'
    BY <1>0, <1>2
  <1>5. Prompt => AInv'
    BY NextAInv DEF LInv
  <1>. QED
    BY <1>2, <1>3, <1>4, <1>5 DEF LInv

LEMMA InitLInv == Init => LInv
  <1>. SUFFICES ASSUME Init PROVE LInv
    OBVIOUS
  <1>1. EndsKnown /\ StartClock <= clock
    BY PollingAssumption DEF Init, EndsKnown
  <1>2. \A w \in Workers : Grounded(w)
    BY DEF Init, Grounded, IdleWork, Busy
  <1>. QED
    BY <1>1, <1>2, InitAInv DEF LInv

LEMMA NextLInv == IInv /\ LInv /\ [Next]_vars => LInv'
  <1>. SUFFICES ASSUME IInv, LInv, [Next]_vars PROVE LInv'
    OBVIOUS
  <1>1. CASE UNCHANGED vars
    <2>1. Prompt => AInv'
      BY NextAInv DEF LInv
    <2>. QED
      BY <1>1, <2>1 DEF vars, LInv, EndsKnown, Grounded
  <1>2. ASSUME NEW w \in Workers, WorkerStep(w) \/ CallFails(w) \/ Stop(w)
        PROVE  LInv'
    BY <1>2, CycleGrounded, CommitGrounded, CallGrounded, UpsertGrounded
       DEF WorkerStep
  <1>. QED
    BY <1>1, <1>2, EnvironmentGrounded DEF Next

-------------------------------------------------------------------------------
(* The steps of the ledger *)

\* The commit of a claim is the claim, as of the time it began.
LEMMA CommitClaims ==
    ASSUME IInv, LInv, NEW w \in Workers, ClaimCommit(w)
    PROVE  Ledger!Next
  <1>1. /\ work[w] \in Work /\ Grounded(w) /\ work[w].pc = "locked"
        /\ rows \in [Users -> Row] /\ Staleness \in Nat
    BY PollingAssumption DEF IInv, TypeOK, LInv, ClaimCommit, At
  <1>2. PICK batch \in SUBSET Users : batch = work[w].batch
    BY <1>1 DEF Work
  <1>3. PICK now \in StartClock..clock : now = work[w].now
    BY <1>1 DEF Grounded
  <1>4. now \in Nat
    BY <1>1, <1>3 DEF Work
  <1>5. ASSUME NEW u \in batch
        PROVE  /\ rows[u].active
               /\ rows[u].polledAt # NULL => rows[u].polledAt + Staleness <= now
    <2>1. rows[u].active
      BY <1>1, <1>2 DEF Grounded
    <2>2. \/ rows[u].polledAt = NULL
          \/ rows[u].polledAt \in Nat /\ rows[u].polledAt <= now - Staleness
      BY <1>1, <1>2, <1>3 DEF IInv, ClaimsDue
    <2>. QED
      BY <1>1, <1>4, <2>1, <2>2
  <1>6. /\ rows' = [u \in Users |-> IF u \in batch
                                    THEN [rows[u] EXCEPT !.polledAt = now]
                                    ELSE rows[u]]
        /\ UNCHANGED <<clock, plan, endedAt, audit>>
    BY <1>2, <1>3 DEF ClaimCommit
  <1>7. Ledger!Claim(batch, now)
    BY <1>5, <1>6 DEF Ledger!Claim
  <1>. QED
    BY <1>7 DEF Ledger!Next

\* An upsert that is not older than the row is the revocation, on an answer
\* given at the last time without a plan or, if that came later, at the write.
LEMMA UpsertRevokes ==
    ASSUME IInv, LInv, NEW w \in Workers, Upsert(w)
    PROVE  Ledger!Next \/ UNCHANGED Ledger!vars
  <1>1. PICK u \in Users : u = work[w].user
    BY UpsertSteps
  <1>2. /\ work[w].pc = "writing" /\ Grounded(w)
        /\ work[w].reply = FALSE
        /\ clock \in Nat /\ StartClock \in Nat /\ CallTimeout \in Nat
        /\ endedAt[u] \in Nat /\ endedAt[u] <= clock
    BY PollingAssumption DEF IInv, TypeOK, LInv, EndsKnown, Grounded, Upsert, At
  <1>3. PICK at \in StartClock..clock : at = work[w].at
    BY <1>2 DEF Grounded
  <1>4. StartClock <= endedAt[u] /\ rows[u].polledAt # NULL
    BY <1>1, <1>2 DEF Grounded
  <1>5. Prompt => at <= endedAt[u] + CallTimeout
    BY <1>1, <1>2, <1>3 DEF LInv, AInv, AnswerFresh
  <1>6. PICK seen \in StartClock..clock :
            /\ seen <= endedAt[u] /\ seen <= at
            /\ Prompt => at <= seen + CallTimeout
    <2>1. CASE at <= endedAt[u]
      <3>. WITNESS at \in StartClock..clock
      <3>. QED
        BY <1>2, <2>1
    <2>2. CASE endedAt[u] < at
      <3>1. endedAt[u] \in StartClock..clock
        BY <1>2, <1>4
      <3>. WITNESS endedAt[u] \in StartClock..clock
      <3>. QED
        BY <1>2, <1>5, <2>2
    <2>. QED
      BY <1>2, <2>1, <2>2
  <1>7. CASE rows[u].lastEvent < at
    <2>1. /\ rows' = [rows EXCEPT ![u].active = FALSE, ![u].lastEvent = at]
          /\ audit' = IF rows[u].active
                      THEN [audit EXCEPT ![u] =
                              Append(@, [from |-> TRUE, to |-> FALSE])]
                      ELSE audit
          /\ UNCHANGED <<clock, plan, endedAt>>
      BY <1>1, <1>3, <1>7, UpsertSteps
    <2>2. Ledger!Revoke(u, seen, at)
      BY <1>4, <1>6, <1>7, <2>1 DEF Ledger!Revoke
    <2>. QED
      BY <2>2 DEF Ledger!Next
  <1>8. CASE ~(rows[u].lastEvent < at)
    BY <1>1, <1>3, <1>8, UpsertSteps DEF Ledger!vars
  <1>. QED
    BY <1>7, <1>8

\* Workers that claim, call, pause, stop and write late implement the ledger.
\* (PollOnce; ClaimDueCarrierEntitlements; upsertEntitlement.)
THEOREM Refinement == Spec => ImplementsLedger
  <1>1. Init => Ledger!Init
    BY DEF Init, Ledger!Init
  <1>2. IInv /\ LInv /\ [Next]_vars => [Ledger!Next]_(Ledger!vars)
    <2>. SUFFICES ASSUME IInv, LInv, [Next]_vars
                  PROVE  Ledger!Next \/ UNCHANGED Ledger!vars
      OBVIOUS
    <2>1. CASE UNCHANGED vars
      BY <2>1 DEF vars, Ledger!vars
    <2>2. CASE Tick
      BY <2>2 DEF Tick, Ledger!Tick, Ledger!Next
    <2>3. CASE \E u \in Users : PlanChanges(u)
      BY <2>3 DEF PlanChanges, Ledger!PlanChanges, Ledger!Next
    <2>4. ASSUME NEW w \in Workers, WorkerStep(w) \/ CallFails(w) \/ Stop(w)
          PROVE  Ledger!Next \/ UNCHANGED Ledger!vars
      <3>1. CASE ClaimCommit(w)
        BY <3>1, CommitClaims
      <3>2. CASE Upsert(w)
        BY <3>2, UpsertRevokes
      <3>3. CASE Wake(w) \/ ClaimBegin(w) \/ ClaimSelect(w) \/ Call(w) \/ Reply(w)
                   \/ Judge(w) \/ EndBatch(w) \/ CallFails(w) \/ Stop(w)
        BY <3>3 DEF Wake, ClaimBegin, ClaimSelect, Call, Reply, Judge, EndBatch,
                    CallFails, Stop, Ledger!vars
      <3>. QED
        BY <2>4, <3>1, <3>2, <3>3 DEF WorkerStep
    <2>. QED
      BY <2>1, <2>2, <2>3, <2>4 DEF Next
  <1>. QED
    BY <1>1, <1>2, Invariance, InitLInv, NextLInv, PTL
       DEF Spec, ImplementsLedger, Ledger!Spec
===============================================================================
