---------------------------- MODULE MCCarrierPolling ----------------------------
(***************************************************************************)
(* Small instances of CarrierPolling for TLC.                              *)
(***************************************************************************)
EXTENDS CarrierPolling, TLC

\* Users tie on carrier_polled_at in either order, and workers are alike.
Interchangeable == Permutations(Users) \cup Permutations(Workers)
===============================================================================
