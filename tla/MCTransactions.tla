--------------------------- MODULE MCTransactions ---------------------------
(***************************************************************************)
(* Small instances of the service for TLC: two phones, wallets of capacity *)
(* two or three, and mixes of requests that meet on a phone, on a key, or  *)
(* on both.                                                                *)
(***************************************************************************)
EXTENDS ServiceProperties, TLC

CONSTANTS h1, h2, h3, a, b, k1, k2, k3, w1, w2

Handlers == {h1, h2, h3}
TwoHandlers == {h1, h2}

Symmetry == Permutations(Handler)

Deposit(p, n, ref) ==
  [op |-> TypeDeposit, phone |-> p, receiver |-> None, amount |-> n, ref |-> ref]
Withdraw(p, n, ref) ==
  [op |-> TypeWithdrawal, phone |-> p, receiver |-> None, amount |-> n, ref |-> ref]
Transfer(p, q, n, ref) ==
  [op |-> TypeTransfer, phone |-> p, receiver |-> q, amount |-> n, ref |-> ref]

\* A ledger on which each phone p has received one deposit of funds[p], if any,
\* made under a key of its own.
OpeningKey(p) == <<p, 0>>
WalletOf(p) == IF p = a THEN w1 ELSE w2
Opening(funds) ==
  {Entry({}, Deposit(p, funds[p], OpeningKey(p)), p, OpeningKey(p), StatusCompleted,
         WalletOf(p), funds[p]) : p \in {q \in Phone : funds[q] > 0}}

Keys == {k1, k2, k3} \cup {a, b}

OneWallet == [p \in Phone |-> {WalletOf(p)}]
\* b's wallet is deleted and created again.
RecreatedWallet == [p \in Phone |-> {WalletOf(p)} \cup IF p = b THEN {w1} ELSE {}]
MaybeNoWallet == [p \in Phone |-> {WalletOf(p), None}]

\* One wallet, from nothing or from a balance of one: deposits and withdrawals
\* that do not all fit, and resends under the same key.
WalletSeeds == {Opening([p \in Phone |-> IF p = a THEN n ELSE 0]) : n \in {0, 1}}
WalletRequests == {Deposit(a, 1, <<k1, 0>>), Deposit(a, 2, <<k2, 0>>),
                   Withdraw(a, 1, <<k3, 0>>)}

\* Transfers that cross, both of them possible at once or one covered or accepted
\* only after the other, and a deposit that races them to the capacity.
TransferSeeds == {Opening([p \in Phone |-> IF p = a THEN f[1] ELSE f[2]]) :
                    f \in {<<1, 0>>, <<1, 2>>, <<1, 3>>, <<2, 2>>}}
TransferRequests == {Transfer(a, b, 1, <<k1, 0>>), Transfer(b, a, 2, <<k2, 0>>),
                     Deposit(b, 1, <<k3, 0>>)}

\* All operations, the withdrawal under the key of the deposit.
AllRequests == TransferRequests \cup {Withdraw(a, 1, <<k3, 0>>)}

\* A deposit under the key of a receiver's leg, a transfer to oneself, and a key
\* used for two operations.
SuffixRequests == {Transfer(a, b, 1, <<k1, 0>>), Deposit(b, 1, <<k1, 1>>),
                   Transfer(a, a, 1, <<k2, 0>>), Withdraw(b, 1, <<k2, 0>>)}
=============================================================================
