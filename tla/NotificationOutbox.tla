--------------------------- MODULE NotificationOutbox ---------------------------
(***************************************************************************)
(* What the notifications table promises, without senders, locks or        *)
(* batches in progress: a user has one notice per UTC day, which waits     *)
(* until it is due, is taken from the table once, and is handed over at    *)
(* most once.  A notice that is taken and never handed over is lost.       *)
(* Notifications implements this.                                          *)
(***************************************************************************)
EXTENDS Integers

CONSTANTS Users, Times, OneDay, StartClock

VARIABLES
    clock,       \* wall-clock time
    waiting,     \* notices nobody has taken
    taken,       \* notices on their way
    handed       \* notices handed over

vars == <<clock, waiting, taken, handed>>

Notice == [user : Users, at : Times]

Init == clock = StartClock /\ waiting = {} /\ taken = {} /\ handed = {}

Tick == clock' = clock + 1 /\ UNCHANGED <<waiting, taken, handed>>

\* A notice for a user and a day that had none.
Announce(n) ==
    /\ \A m \in waiting \cup taken \cup handed :
          m.user = n.user => m.at \div OneDay # n.at \div OneDay
    /\ waiting' = waiting \cup {n}
    /\ UNCHANGED <<clock, taken, handed>>

\* Notices that are due leave the table, whether or not they arrive.
Take(batch) ==
    /\ \A n \in batch : n.at <= clock
    /\ waiting' = waiting \ batch
    /\ taken' = taken \cup batch
    /\ UNCHANGED <<clock, handed>>

HandOver(batch) ==
    /\ taken' = taken \ batch
    /\ handed' = handed \cup batch
    /\ UNCHANGED <<clock, waiting>>

Next == \/ Tick
        \/ \E n \in Notice : Announce(n)
        \/ \E batch \in SUBSET waiting : Take(batch)
        \/ \E batch \in SUBSET taken : HandOver(batch)

Spec == Init /\ [][Next]_vars
===============================================================================
