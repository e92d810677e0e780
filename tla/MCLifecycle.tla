---------------------------- MODULE MCLifecycle ----------------------------
(***************************************************************************)
(* Two processes on one database, empty or in use, and two requests that   *)
(* meet on one wallet, or are one request and its resend.                  *)
(***************************************************************************)
EXTENDS MCTransactions, ServerLifecycle

CONSTANTS p1, p2

LifecycleRequests == {Deposit(a, 2, <<k1, 0>>), Withdraw(a, 1, <<k3, 0>>)}
=============================================================================
