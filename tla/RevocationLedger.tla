--------------------------- MODULE RevocationLedger ----------------------------
(***************************************************************************)
(* What bulk revocation promises, without transactions, locks or attempts: *)
(* a ledger of revocations, at most one per user and month, and one        *)
(* MARKETPLACE row per user.  A revocation takes effect at one instant,    *)
(* as of the time its request was received, and is judged against the row  *)
(* as it then is.  An answer is given when all users of the request are in *)
(* the ledger, and the counts of all answers together never exceed the     *)
(* ledger.  Marketplace implements this.                                   *)
(***************************************************************************)
EXTENDS Entitlements, FiniteSets, Sequences

CONSTANTS Requests, Grants, MonthLength, StartClock

VARIABLES
    clock,         \* wall-clock time
    rows,          \* user -> MARKETPLACE row, NULL before the first write
    revocations,   \* the ledger
    reported,      \* sum of the counts in the answers
    answered       \* the requests whose answer the marketplace has seen

vars == <<clock, rows, revocations, reported, answered>>

Init == /\ clock = StartClock
        /\ rows = [u \in Users |-> NULL]
        /\ revocations = {}
        /\ reported = 0
        /\ answered = {}

Tick == /\ clock' = clock + 1
        /\ UNCHANGED <<rows, revocations, reported, answered>>

Revoked(user, time) ==
    \E r \in revocations : /\ r.user = user
                           /\ r.at \div MonthLength = time \div MonthLength

\* Write a row that takes effect at its own event time if it is newer.
Write(user, row) ==
    rows' = IF Newer(rows[user], row.lastEvent)
            THEN [rows EXCEPT ![user] = row] ELSE rows

\* Revoke a user as of a time that is not in the future.
Revoke(user, time) ==
    /\ ~Revoked(user, time)
    /\ revocations' = revocations \cup {[user |-> user, at |-> time]}
    /\ Write(user, [active |-> FALSE, expires |-> NULL, lastEvent |-> time])
    /\ UNCHANGED <<clock, reported, answered>>

\* Give access until a time to come.
Give(g) ==
    /\ g.time <= clock
    /\ g.expires # NULL => clock < g.expires
    /\ Write(g.user, [active |-> TRUE, expires |-> g.expires, lastEvent |-> g.time])
    /\ UNCHANGED <<clock, revocations, reported, answered>>

Expire(user) ==
    /\ Expirable(rows[user], clock)
    /\ rows' = [rows EXCEPT ![user] = Expired(@)]
    /\ UNCHANGED <<clock, revocations, reported, answered>>

\* Report n new revocations for a request received at a time; the answer may
\* not arrive.
Answer(users, time, n) ==
    /\ \A i \in DOMAIN users : Revoked(users[i], time)
    /\ reported' = reported + n
    /\ reported' <= Cardinality(revocations)
    /\ answered' \in {answered, answered \cup {[users |-> users, at |-> time]}}
    /\ UNCHANGED <<clock, rows, revocations>>

Next == \/ Tick
        \/ \E u \in Users, time \in 0..clock : Revoke(u, time)
        \/ \E g \in Grants : Give(g)
        \/ \E u \in Users : Expire(u)
        \/ \E users \in Requests, time \in 0..clock :
              \E n \in 0..Len(users) : Answer(users, time, n)

Spec == Init /\ [][Next]_vars
===============================================================================
