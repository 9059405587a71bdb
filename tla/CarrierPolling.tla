----------------------------- MODULE CarrierPolling -----------------------------
(***************************************************************************)
(* Carrier polling workers over the CARRIER rows of user_entitlements.     *)
(*                                                                         *)
(* A worker claims a batch of due rows in a transaction that advances      *)
(* carrier_polled_at, and only then, holding no lock, asks the carrier     *)
(* about one user after another and writes the rows that change.  Between  *)
(* the claim and the write another worker may claim the row again, the     *)
(* plan may change, the call may fail and the worker may stop.             *)
(*                                                                         *)
(* Every write of a CARRIER row by these workers is one transaction under  *)
(* the user's advisory lock; it is one step here.  StoreReconciler has the *)
(* same upsert statement by statement.                                     *)
(***************************************************************************)
EXTENDS Integers, Sequences, FiniteSets

CONSTANTS
    NULL,
    Users,         \* users with a CARRIER row
    Workers,       \* concurrent polling workers
    BatchLimit,    \* carrierPollingBatchSize
    Staleness,     \* carrierPollingStaleness
    CallTimeout,   \* Timeout of the carrier's http.Client
    Prompt,        \* TRUE: workers take time only in the carrier's calls;
                   \* FALSE: they may also pause anywhere
    StartClock,    \* the time of the first poll
    LastFailure,   \* bound on the time of failures
    MaxClock       \* bound on the clock

ASSUME PollingAssumption ==
    /\ StartClock \in Nat /\ Staleness \in Nat /\ CallTimeout \in Nat
    /\ StartClock > CallTimeout
    /\ BatchLimit \in Nat \ {0}
    /\ Prompt \in BOOLEAN
    /\ NULL \notin Users /\ NULL \notin Nat

VARIABLES
    clock,       \* wall-clock time, of the workers and the database
    plan,        \* user -> whether the carrier has a plan for the user now
    endedAt,     \* user -> last time at which it had none; 0 for never
    rows,        \* user_entitlements: user -> CARRIER row
    audit,       \* audit_logs: user -> transitions in the order of commit
    work         \* worker -> the batch it is processing

vars == <<clock, plan, endedAt, rows, audit, work>>

-------------------------------------------------------------------------------
(* Records *)

Row == [active : BOOLEAN, lastEvent : Nat, polledAt : Nat \cup {NULL}]

Work == [pc : {"idle", "drain", "claiming", "locked", "polling", "calling",
               "replied", "writing"},
         now : Nat, batch : SUBSET Users, processed : Nat,
         user : Users \cup {NULL}, reply : BOOLEAN \cup {NULL},
         deadline : Nat, at : Nat]

IdleWork == [pc |-> "idle", now |-> 0, batch |-> {}, processed |-> 0,
             user |-> NULL, reply |-> NULL, deadline |-> 0, at |-> 0]

\* Rows may have been deactivated before the workers start; none was polled.
Init == /\ clock   = StartClock
        /\ plan    \in [Users -> BOOLEAN]
        /\ endedAt = [u \in Users |-> IF plan[u] THEN 0 ELSE StartClock]
        /\ rows    \in [Users -> [active : BOOLEAN, lastEvent : {0},
                                  polledAt : {NULL}]]
        /\ audit   = [u \in Users |-> <<>>]
        /\ work    = [w \in Workers |-> IdleWork]

At(w, pc) == work[w].pc = pc

-------------------------------------------------------------------------------
(* The claim *)

\* Variant in which a row that was never polled does not compare as due.
DueWhenPolled(u, now) ==
    rows[u].active /\ rows[u].polledAt # NULL /\ rows[u].polledAt <= now - Staleness

Due(u, now) ==
    /\ rows[u].active
    /\ rows[u].polledAt = NULL \/ rows[u].polledAt <= now - Staleness

\* Variant of a claim that does not lock the rows it selects.
Unlocked(u) == FALSE

RowLocked(u) == \E w \in Workers : At(w, "locked") /\ u \in work[w].batch

\* The ticker fires, or the worker process has just started.
Wake(w) ==
    /\ At(w, "idle")
    /\ work' = [work EXCEPT ![w].pc = "drain"]
    /\ UNCHANGED <<clock, plan, endedAt, rows, audit>>

\* time.Now() for due_before, and BEGIN: NOW() is this instant too.
ClaimBegin(w) ==
    /\ At(w, "drain")
    /\ work' = [work EXCEPT ![w].pc = "claiming", ![w].now = clock]
    /\ UNCHANGED <<clock, plan, endedAt, rows, audit>>

\* ORDER BY carrier_polled_at ASC NULLS FIRST.
PolledNoLater(u, v) ==
    \/ rows[u].polledAt = NULL
    \/ /\ NULL \notin {rows[u].polledAt, rows[v].polledAt}
       /\ rows[u].polledAt <= rows[v].polledAt

\* SELECT .. LIMIT n FOR UPDATE SKIP LOCKED.
ClaimSelect(w) ==
    LET due == {u \in Users : Due(u, work[w].now) /\ ~RowLocked(u)}
    IN  /\ At(w, "claiming")
        /\ \E batch \in SUBSET due :
              /\ Cardinality(batch) <= BatchLimit
              /\ batch # due => Cardinality(batch) = BatchLimit
              /\ \A u \in batch, v \in due \ batch : PolledNoLater(u, v)
              /\ work' = [work EXCEPT ![w].pc = "locked", ![w].batch = batch]
        /\ UNCHANGED <<clock, plan, endedAt, rows, audit>>

\* Variant that leaves carrier_polled_at to be written after the call.
ClaimWithoutStamp(w) ==
    /\ At(w, "locked")
    /\ work' = [work EXCEPT ![w].pc = "polling"]
    /\ UNCHANGED <<clock, plan, endedAt, rows, audit>>

\* UPDATE .. SET carrier_polled_at = NOW() and COMMIT, before any call.
ClaimCommit(w) ==
    /\ At(w, "locked")
    /\ rows' = [u \in Users |-> IF u \in work[w].batch
                                THEN [rows[u] EXCEPT !.polledAt = work[w].now]
                                ELSE rows[u]]
    /\ work' = [work EXCEPT ![w].pc = "polling"]
    /\ UNCHANGED <<clock, plan, endedAt, audit>>

-------------------------------------------------------------------------------
(* The calls; RETURNING gives the claimed rows in no particular order *)

\* Variant of a client without a timeout.
CallWithoutTimeout(w) ==
    /\ At(w, "polling")
    /\ \E u \in work[w].batch :
          work' = [work EXCEPT ![w].pc = "calling", ![w].user = u,
                               ![w].batch = @ \ {u},
                               ![w].deadline = MaxClock]
    /\ UNCHANGED <<clock, plan, endedAt, rows, audit>>

\* GetPlanStatus for the next user of the batch, with the client's timeout.
Call(w) ==
    /\ At(w, "polling")
    /\ \E u \in work[w].batch :
          work' = [work EXCEPT ![w].pc = "calling", ![w].user = u,
                               ![w].batch = @ \ {u},
                               ![w].deadline = clock + CallTimeout]
    /\ UNCHANGED <<clock, plan, endedAt, rows, audit>>

\* The carrier looks the plan up; its answer is on the way.
Reply(w) ==
    /\ At(w, "calling")
    /\ work' = [work EXCEPT ![w].pc = "replied", ![w].reply = plan[work[w].user]]
    /\ UNCHANGED <<clock, plan, endedAt, rows, audit>>

\* processed++, whatever came of the call.
NextUser(w) ==
    [work EXCEPT ![w].pc = "polling", ![w].processed = @ + 1, ![w].user = NULL,
                 ![w].reply = NULL, ![w].deadline = 0, ![w].at = 0]

\* Variant that takes a failed call for an inactive plan.
FailsClosed(w) ==
    /\ At(w, "calling") \/ At(w, "replied")
    /\ clock <= LastFailure
    /\ work' = [work EXCEPT ![w].pc = "writing", ![w].reply = FALSE,
                            ![w].at = clock]
    /\ UNCHANGED <<clock, plan, endedAt, rows, audit>>

\* Variant that writes the zero answer of a failed call.
WritesNoAnswer(w) ==
    /\ At(w, "calling") \/ At(w, "replied")
    /\ clock <= LastFailure
    /\ work' = [work EXCEPT ![w].pc = "writing", ![w].reply = NULL,
                            ![w].at = clock]
    /\ UNCHANGED <<clock, plan, endedAt, rows, audit>>

\* Timeout, network failure, a status other than 200, a body that is not
\* understood: the user counts as processed and the row is left alone.
CallFails(w) ==
    /\ At(w, "calling") \/ At(w, "replied")
    /\ clock <= LastFailure
    /\ work' = NextUser(w)
    /\ UNCHANGED <<clock, plan, endedAt, rows, audit>>

\* The answer is compared with the claimed row, which is active, and time.Now()
\* becomes the event time of a change.
Judge(w) ==
    /\ At(w, "replied")
    /\ work' = IF work[w].reply = TRUE
               THEN NextUser(w)
               ELSE [work EXCEPT ![w].pc = "writing", ![w].at = clock]
    /\ UNCHANGED <<clock, plan, endedAt, rows, audit>>

\* Variant that audits against the claimed row instead of the one it re-read.
ChangesClaimed(u, active) == active # TRUE

Changes(u, active) == active # rows[u].active

\* UpsertEntitlement, in a transaction of its own.
Upsert(w) ==
    LET u      == work[w].user
        active == work[w].reply
        newer  == rows[u].lastEvent < work[w].at
    IN  /\ At(w, "writing")
        /\ ~RowLocked(u)
        /\ rows' = IF newer
                   THEN [rows EXCEPT ![u].active = active,
                                     ![u].lastEvent = work[w].at]
                   ELSE rows
        /\ audit' = IF newer /\ Changes(u, active)
                    THEN [audit EXCEPT ![u] =
                            Append(@, [from |-> rows[u].active, to |-> active])]
                    ELSE audit
        /\ work' = NextUser(w)
        /\ UNCHANGED <<clock, plan, endedAt>>

\* A full batch is followed by another claim, a short one ends the cycle.
EndBatch(w) ==
    /\ At(w, "polling")
    /\ work[w].batch = {}
    /\ work' = [work EXCEPT ![w] = IF work[w].processed < BatchLimit
                                   THEN IdleWork
                                   ELSE [IdleWork EXCEPT !.pc = "drain"]]
    /\ UNCHANGED <<clock, plan, endedAt, rows, audit>>

\* A failed claim or write ends the cycle, cancellation and a crash the worker:
\* what it had claimed and not written is dropped.
Stop(w) ==
    /\ ~At(w, "idle")
    /\ clock <= LastFailure
    /\ work' = [work EXCEPT ![w] = IdleWork]
    /\ UNCHANGED <<clock, plan, endedAt, rows, audit>>

-------------------------------------------------------------------------------
(* The environment *)

PlanChanges(u) ==
    /\ plan' = [plan EXCEPT ![u] = ~@]
    /\ endedAt' = [endedAt EXCEPT ![u] = clock]
    /\ UNCHANGED <<clock, rows, audit, work>>

\* Time passes for a prompt worker only between cycles and within a call.
MayWait(w) == \/ At(w, "idle")
              \/ /\ At(w, "calling") \/ At(w, "replied")
                 /\ clock < work[w].deadline

Tick == /\ clock < MaxClock
        /\ Prompt => \A w \in Workers : MayWait(w)
        /\ clock' = clock + 1
        /\ endedAt' = [u \in Users |-> IF plan[u] THEN endedAt[u] ELSE clock + 1]
        /\ UNCHANGED <<plan, rows, audit, work>>

WorkerStep(w) ==
    \/ Wake(w) \/ ClaimBegin(w) \/ ClaimSelect(w) \/ ClaimCommit(w)
    \/ Call(w) \/ Reply(w) \/ Judge(w) \/ Upsert(w) \/ EndBatch(w)

Next == \/ Tick
        \/ \E u \in Users : PlanChanges(u)
        \/ \E w \in Workers : WorkerStep(w) \/ CallFails(w) \/ Stop(w)

Spec == Init /\ [][Next]_vars

-------------------------------------------------------------------------------
(* Safety *)

\* Types of the tables and of the workers' records.  (carrier_polling.go.)
TypeOK ==
    /\ clock \in Nat
    /\ plan \in [Users -> BOOLEAN]
    /\ endedAt \in [Users -> Nat]
    /\ rows \in [Users -> Row]
    /\ audit \in [Users -> Seq([from : BOOLEAN, to : BOOLEAN])]
    /\ work \in [Workers -> Work]

\* Users a worker has claimed and has not finished with.
Holds(w) ==
    (IF At(w, "polling") \/ At(w, "calling") \/ At(w, "replied") \/ At(w, "writing")
     THEN work[w].batch \cup {work[w].user} ELSE {}) \ {NULL}

\* The calls a worker has begun since its claim.
Calls(w) == work[w].processed + (IF work[w].user = NULL THEN 0 ELSE 1)

\* Two workers have the same user in hand only if the later of them claimed it a
\* staleness window after the earlier, and, when workers lose no time between
\* calls, only if the earlier has made as many calls by then as fill a window if
\* all of them time out: the sixtieth at 5 seconds each and 5 minutes.
\* (Stamps are committed before the calls; carrier_polling.go and client.go.)
CollisionsComeLate ==
    \A v, w \in Workers :
        /\ v # w /\ Holds(v) \cap Holds(w) # {}
        /\ work[v].now <= work[w].now
        => /\ work[v].now + Staleness <= work[w].now
           /\ Prompt => Staleness <= Calls(v) * CallTimeout

\* No two workers have the same user in hand: a batch is done before its claims
\* go stale.  ("Zero-Collision Polling", the claim before the calls.)
NoUserPolledTwice ==
    \A v, w \in Workers : v # w => Holds(v) \cap Holds(w) = {}

\* Two claims of one user are a staleness window apart, whatever the workers
\* do in between and however long they take.  (ClaimDueCarrierEntitlements.)
ClaimsAreSpaced ==
    [][\A u \in Users :
          rows'[u].polledAt # rows[u].polledAt /\ rows[u].polledAt # NULL
          => rows'[u].polledAt >= rows[u].polledAt + Staleness]_vars

\* A row that polling has closed carries the time of a call during which the
\* carrier had no plan: errors do not revoke, and an old answer has a limit.
RevokedOnlyWithoutPlan ==
    \A u \in Users :
        ~rows[u].active /\ audit[u] # <<>> =>
            rows[u].lastEvent <= endedAt[u] + CallTimeout

\* The audit of a row starts where it was and ends where it is, and every entry
\* is a change that continues the one before, however many workers polled the
\* user.  (The row is read again under the advisory lock.)
AuditRecordsTransitions ==
    \A u \in Users :
        /\ \A i \in DOMAIN audit[u] : audit[u][i].from # audit[u][i].to
        /\ \A i \in DOMAIN audit[u] \ {1} : audit[u][i].from = audit[u][i - 1].to
        /\ audit[u] # <<>> => audit[u][Len(audit[u])].to = rows[u].active

-------------------------------------------------------------------------------
(* The ledger this implements *)

Ledger == INSTANCE PollingLedger

\* Workers that claim, call, pause, stop and write late behave as if each claim
\* and each revocation took effect at one instant; there is no revocation
\* without a claim and an answer, however old, that there was no plan, and only
\* the first one of a row is a transition.  (PollOnce; upsertEntitlement.)
ImplementsLedger == Ledger!Spec

-------------------------------------------------------------------------------
(* Liveness *)

\* Workers run, tickers fire, calls end, the clock goes on.
FairSpec == /\ Spec
            /\ WF_vars(Tick)
            /\ \A w \in Workers : WF_vars(WorkerStep(w))

\* A user not polled of late whose plan has ended loses the row's access unless the plan comes
\* back, though claims and answers get lost.  (Failed calls become due again.)
EndedPlanIsRevoked ==
    \A u \in Users :
        /\ rows[u].polledAt \notin (clock - Staleness + 1) .. clock
        /\ ~plan[u]
        ~> ~rows[u].active \/ plan[u]
===============================================================================
