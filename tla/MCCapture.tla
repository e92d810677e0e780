------------------------------ MODULE MCCapture ------------------------------
(***************************************************************************)
(* Two requests whose events travel to the wallets of both phones: they    *)
(* may both be posted to one wallet, or not both fit it.                   *)
(***************************************************************************)
EXTENDS MCTransactions, ChangeCapture

CaptureSeeds == {Opening([p \in Phone |-> IF p = a THEN 2 ELSE 0])}
CaptureRequests == {Transfer(a, b, 1, <<k1, 0>>), Deposit(b, 1, <<k2, 0>>),
                    Deposit(b, 2, <<k3, 0>>)}
=============================================================================
