--------------------------- MODULE MCStoreReconciler ---------------------------
(***************************************************************************)
(* Small instances of StoreReconciler for TLC.  The calendar is the one of *)
(* a month boundary in small: it is neither monotone nor injective.        *)
(***************************************************************************)
EXTENDS StoreReconciler, TLC

CONSTANTS u1, u2, h1, h2, s1, s2

MCTimes == 1..5
MCMonthLater == <<5, 4, 6, 5, 7>>

Event(id, user, type, time) ==
    [id |-> id, user |-> user, type |-> type, time |-> time]

\* A purchase, a renewal and a later cancellation, in any order.
OneUserPayloads == {Event(1, u1, "INITIAL_PURCHASE", 2),
                    Event(2, u1, "RENEWAL", 3),
                    Event(3, u1, "CANCELLATION", 5)}

\* A tie, a later grant with an earlier end, two ends on one UTC day, and a
\* payload that fails validation and is never taken.
WebhookPayloads == {Event(1, u1, "INITIAL_PURCHASE", 1),
                    Event(2, u1, "BILLING_ISSUE", 2),
                    Event(3, u1, "RENEWAL", 2),
                    Event(4, u1, "REFUND", 3)}

SweepPayloads == {Event(1, u1, "INITIAL_PURCHASE", 1),
                  Event(2, u2, "RENEWAL", 2)}

\* Handlers, and sweepers, are interchangeable.
Interchangeable == Permutations(Handlers) \cup Permutations(Sweepers)
===============================================================================
