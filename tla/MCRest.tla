------------------------------- MODULE MCRest -------------------------------
(***************************************************************************)
(* Small instances of the HTTP side: a phone in two spellings, a text that *)
(* is no phone, and one message for each way to be turned away.            *)
(***************************************************************************)
EXTENDS MCTransactions, RestHandlers

CONSTANTS paddedA, noPhone

\* a can pay or is full, b is new, or full.
RestSeeds == {Opening([p \in Phone |-> IF p = a THEN f[1] ELSE IF p = b THEN f[2] ELSE 0]) :
                f \in {<<1, 2>>, <<2, 0>>}}

TrimText == [p \in Phone |-> IF p = paddedA THEN a ELSE p]

Post(r) ==
  [method |-> "POST", op |-> r.op, ref |-> r.ref, decodes |-> TRUE,
   phone |-> r.phone, receiver |-> r.receiver, amount |-> r.amount]

\* What the admitted ones among the messages below ask for.
RestRequests == {Transfer(a, b, 1, <<k1, 0>>), Transfer(a, a, 1, <<k2, 0>>),
                 Deposit(a, 1, <<k1, 0>>), Deposit(b, 1, <<k1, 1>>),
                 Withdraw(a, 1, <<k3, 0>>)}

RestMessages ==
  {Post(Transfer(paddedA, b, 1, <<k1, 0>>)), Post(Transfer(a, paddedA, 1, <<k2, 0>>)),
   Post(Deposit(paddedA, 1, <<k1, 0>>)), Post(Deposit(b, 1, <<k1, 1>>)),
   Post(Withdraw(a, 1, <<k3, 0>>)), Post(Withdraw(a, -1, <<k3, 0>>)),
   Post(Withdraw(noPhone, 1, <<k3, 0>>)), Post(Transfer(a, noPhone, 1, <<k2, 0>>)),
   Post(Deposit(a, 1, None)),
   [Post(Deposit(a, 1, <<k3, 0>>)) EXCEPT !.decodes = FALSE],
   [Post(Deposit(a, 1, <<k3, 0>>)) EXCEPT !.method = "GET"]}
=============================================================================
