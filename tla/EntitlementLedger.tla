--------------------------- MODULE EntitlementLedger ---------------------------
(***************************************************************************)
(* What the store side of the reconciler promises, without transactions,   *)
(* locks or retries: a ledger of accepted store events and one entitlement *)
(* row per user.  An event is accepted once and takes effect at one        *)
(* instant, in which it is judged against the row as it then is; expired   *)
(* rows are closed at one instant.  StoreReconciler implements this.       *)
(***************************************************************************)
EXTENDS Entitlements

CONSTANTS Payloads, StartClock

VARIABLES
    clock,       \* wall-clock time
    rows,        \* user -> STORE entitlement row, NULL before the first event
    recorded     \* the accepted events

vars == <<clock, rows, recorded>>

Init == /\ clock = StartClock
        /\ rows = [u \in Users |-> NULL]
        /\ recorded = {}

Tick == /\ clock' = clock + 1
        /\ UNCHANGED <<rows, recorded>>

\* Accept an event that was received now or earlier.  Whether it grants access
\* was decided on receipt; whether it is newer is decided now.
Accept(event, received) ==
    /\ Valid(event)
    /\ \A r \in recorded : r.id # event.id
    /\ recorded' = recorded \cup {event}
    /\ rows' = IF Newer(rows[event.user], event.time)
               THEN [rows EXCEPT ![event.user] =
                        RowOf(event, GrantsAccess(event, received))]
               ELSE rows
    /\ UNCHANGED clock

\* Close the rows of some users, every one of which has expired.
Expire(due) ==
    /\ \A u \in due : Expirable(rows[u], clock)
    /\ rows' = [u \in Users |-> IF u \in due THEN Expired(rows[u]) ELSE rows[u]]
    /\ UNCHANGED <<clock, recorded>>

Next == \/ Tick
        \/ \E event \in Payloads, received \in 0..clock : Accept(event, received)
        \/ \E due \in SUBSET Users : Expire(due)

Spec == Init /\ [][Next]_vars
===============================================================================
