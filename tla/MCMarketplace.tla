----------------------------- MODULE MCMarketplace -----------------------------
(***************************************************************************)
(* A small instance of Marketplace for TLC: two users, in either order in  *)
(* a request and one of them twice, an empty request and one that is too   *)
(* long, and the end of a month.                                           *)
(***************************************************************************)
EXTENDS Marketplace, TLC

CONSTANTS u1, u2

MCTimes == 1..4
MCMonthLater == <<5, 6, 7, 8>>

MCRequests == {<<u1, u2>>, <<u2, u2, u1>>, <<>>, <<u1, u2, u1, u2>>}

\* Granted before a request and in the instant of one, and expired in that of
\* another: a sweep may overtake a request that has read the grant.
MCGrants == {[user |-> u1, time |-> t, expires |-> 3] : t \in 1..2}
===============================================================================
