----------------------------- MODULE Entitlements -----------------------------
(***************************************************************************)
(* The rules of the reconciler that are pure functions of their inputs:    *)
(* what a store event does to a user's entitlement row, when a row grants  *)
(* access, when it is due for expiration, when a write counts as a change. *)
(* The behaviour modules build their actions from these operators.         *)
(*                                                                         *)
(* Time is a natural number.  A calendar month is not a fixed number of    *)
(* instants: Go's AddDate(0,1,0) normalises, so that Jan 31 and Feb 3 both *)
(* give Mar 3 while Feb 1 gives Mar 1.  MonthLater is therefore a constant *)
(* function of which only "later than its argument" is assumed.            *)
(***************************************************************************)
EXTENDS Integers, Sequences

CONSTANTS
    NULL,         \* SQL NULL, and "no row"
    Users,        \* user ids
    Times,        \* the eventTimeMs values the store may send
    MonthLater,   \* time.AddDate(0, 1, 0) on Times
    OneDay        \* 24 hours, also the length of a UTC day

EntitlementRow == [active    : BOOLEAN,
                   expires   : Nat \cup {NULL},
                   lastEvent : Nat]

\* The part of a row that the audit log records.
RowState == [active : BOOLEAN, expires : Nat \cup {NULL}]

ASSUME CalendarAssumption ==
    /\ Times \subseteq Nat
    /\ MonthLater \in [Times -> Nat]
    /\ \A t \in Times : t < MonthLater[t]
    /\ OneDay \in Nat \ {0}

ASSUME NullAssumption ==
    /\ NULL \notin Nat
    /\ NULL \notin EntitlementRow
    /\ NULL \notin RowState

GrantTypes == {"INITIAL_PURCHASE", "RENEWAL", "UN_CANCELLATION"}
EventTypes == GrantTypes \cup {"CANCELLATION", "BILLING_ISSUE", "EXPIRATION"}

\* What the webhook checks of a payload before it opens a transaction.
Valid(event) == /\ event.type \in EventTypes
                /\ event.time > 0

\* The expiry a store event carries: one month from its own time for a grant,
\* none for the types that take access away.
ExpiryOf(event) == IF event.type \in GrantTypes THEN MonthLater[event.time]
                                                ELSE NULL

\* Does the event grant access when it is received at time `now`?  A grant
\* that has elapsed by then keeps its expiry and grants nothing.
GrantsAccess(event, now) == /\ event.type \in GrantTypes
                            /\ now < MonthLater[event.time]

\* The row the upsert writes for an event.
RowOf(event, active) == [active    |-> active,
                         expires   |-> ExpiryOf(event),
                         lastEvent |-> event.time]

\* Variants of Newer: the last arrival wins; an inactive row yields to any event.
LastArrivalWins(row, time) == TRUE
InactiveYields(row, time) == row = NULL \/ ~row.active \/ row.lastEvent < time

\* Event time, not arrival, decides who owns the projection; a tie is not newer.
Newer(row, time) == row = NULL \/ row.lastEvent < time

StateOf(row) == IF row = NULL THEN NULL
                ELSE [active |-> row.active, expires |-> row.expires]

StateChanged(prev, next) == StateOf(prev) # StateOf(next)

\* Access ends at the expiry itself.
IsActive(row, now) == /\ row # NULL
                      /\ row.active
                      /\ row.expires = NULL \/ now < row.expires

\* Variant of Expirable that forgets active = TRUE.
ExpirableEvenInactive(row, now) == /\ row # NULL
                                   /\ row.expires # NULL
                                   /\ row.expires <= now

\* Variant of Expired that clears last_event_time with the expiry.
ExpiredWithoutTime(row) == [active |-> FALSE, expires |-> NULL, lastEvent |-> NULL]

\* The rows the expiration sweep looks for, and what it makes of one.
Expirable(row, now) == /\ row # NULL
                       /\ row.active
                       /\ row.expires # NULL
                       /\ row.expires <= now

Expired(row) == [active |-> FALSE, expires |-> NULL, lastEvent |-> row.expires]

\* notifications is unique per user, type and UTC day of scheduled_for; the
\* only type is PREMIUM_EXPIRES_SOON.
NoticeTime(expires) == expires - OneDay
DayOf(time) == time \div OneDay
===============================================================================
