------------------------------- MODULE MCQueries -------------------------------
(***************************************************************************)
(* A small instance of Queries for TLC: a store purchase and a marketplace *)
(* grant that end at once, a carrier plan that ends, pages of one and two. *)
(***************************************************************************)
EXTENDS Queries, TLC

CONSTANTS user

MCTimes == 1..2
MCMonthLater == <<3, 4>>

Granted(time, end) == [active |-> TRUE, expires |-> end, lastEvent |-> time]
Closed(time) == [active |-> FALSE, expires |-> NULL, lastEvent |-> time]

MCWrites == {[source |-> "STORE",       row |-> Granted(1, 3)],
             [source |-> "STORE",       row |-> Granted(2, 4)],
             [source |-> "MARKETPLACE", row |-> Granted(1, 3)],
             [source |-> "CARRIER",     row |-> Granted(1, NULL)],
             [source |-> "CARRIER",     row |-> Closed(2)]}

MCLimits == {-1, 0, 1, 2, 3}
MCOffsets == {-1, 0, 3}
===============================================================================
