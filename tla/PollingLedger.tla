----------------------------- MODULE PollingLedger -----------------------------
(***************************************************************************)
(* What carrier polling promises, without workers, batches, locks or calls *)
(* in progress: one CARRIER row per user, which is claimed for polling at  *)
(* most once in a staleness window, and closed only on evidence that the   *)
(* carrier had no plan for the user.  CarrierPolling implements this.      *)
(***************************************************************************)
EXTENDS Integers, Sequences

CONSTANTS NULL, Users, Staleness, CallTimeout, Prompt, StartClock

VARIABLES
    clock,       \* wall-clock time
    plan,        \* user -> whether the carrier has a plan for the user now
    endedAt,     \* user -> last time at which it had none; 0 for never
    rows,        \* user -> CARRIER row
    audit        \* user -> transitions of the row

vars == <<clock, plan, endedAt, rows, audit>>

Init == /\ clock = StartClock
        /\ plan \in [Users -> BOOLEAN]
        /\ endedAt = [u \in Users |-> IF plan[u] THEN 0 ELSE StartClock]
        /\ rows \in [Users -> [active : BOOLEAN, lastEvent : {0}, polledAt : {NULL}]]
        /\ audit = [u \in Users |-> <<>>]

Tick == /\ clock' = clock + 1
        /\ endedAt' = [u \in Users |-> IF plan[u] THEN endedAt[u] ELSE clock + 1]
        /\ UNCHANGED <<plan, rows, audit>>

PlanChanges(u) ==
    /\ plan' = [plan EXCEPT ![u] = ~@]
    /\ endedAt' = [endedAt EXCEPT ![u] = clock]
    /\ UNCHANGED <<clock, rows, audit>>

\* Claim active rows as of a time, all of which were due by then.
Claim(batch, now) ==
    /\ \A u \in batch :
          /\ rows[u].active
          /\ rows[u].polledAt # NULL => rows[u].polledAt + Staleness <= now
    /\ rows' = [u \in Users |-> IF u \in batch
                                THEN [rows[u] EXCEPT !.polledAt = now]
                                ELSE rows[u]]
    /\ UNCHANGED <<clock, plan, endedAt, audit>>

\* Close the row of a user who was claimed, as of a time, on a negative answer
\* seen by then, and by a prompt worker at most a call's timeout before: at that
\* time or later the carrier had no plan.  A closed row only moves its time.
Revoke(u, seen, at) ==
    /\ rows[u].polledAt # NULL
    /\ seen <= endedAt[u]
    /\ seen <= at
    /\ Prompt => at <= seen + CallTimeout
    /\ rows[u].lastEvent < at
    /\ rows' = [rows EXCEPT ![u].active = FALSE, ![u].lastEvent = at]
    /\ audit' = IF rows[u].active
                THEN [audit EXCEPT ![u] = Append(@, [from |-> TRUE, to |-> FALSE])]
                ELSE audit
    /\ UNCHANGED <<clock, plan, endedAt>>

Next == \/ Tick
        \/ \E u \in Users : PlanChanges(u)
        \/ \E batch \in SUBSET Users, now \in StartClock..clock : Claim(batch, now)
        \/ \E u \in Users, seen, at \in StartClock..clock : Revoke(u, seen, at)

Spec == Init /\ [][Next]_vars
===============================================================================
