------------------------- MODULE BalanceArithmetic -------------------------
(***************************************************************************)
(* The capacity and funds tests as the machine computes them: amounts and  *)
(* balances are signed integers of a fixed width, and a client may send    *)
(* any positive amount that fits.  Ledger has the same tests over          *)
(* unbounded integers; this module says that the width never shows.        *)
(***************************************************************************)
EXTENDS Integers

CONSTANTS
  MaxInt,       \* the largest amount: 2^63 - 1 in the code
  WalletMax     \* the capacity of a wallet

ASSUME WidthAssumption ==
  /\ MaxInt \in Nat /\ WalletMax \in Nat
  /\ WalletMax <= MaxInt

VARIABLE balance

Amounts == 1 .. MaxInt
Limits == 0 .. WalletMax

\* A sum or difference of two such integers, as the machine leaves it.
Wrap(x) == ((x + MaxInt + 1) % (2 * (MaxInt + 1))) - (MaxInt + 1)

-----------------------------------------------------------------------------
\* Mutants: the sum is compared with the capacity; an overdraft of one passes.
ExceedsMaxBySum(b, amount) == Wrap(b + amount) > WalletMax
OverdraftByOne(b, amount) == b < Wrap(amount - 1)

ExceedsMaxBalance(b, amount) == b > Wrap(WalletMax - amount)

InsufficientBalance(b, amount) == Wrap(b - amount) < 0

Init == balance = 0

Deposit(amount) ==
  /\ ~ExceedsMaxBalance(balance, amount)
  /\ balance' = Wrap(balance + amount)

Withdraw(amount) ==
  /\ ~InsufficientBalance(balance, amount)
  /\ balance' = Wrap(balance - amount)

Next == \E amount \in Amounts : Deposit(amount) \/ Withdraw(amount)

Spec == Init /\ [][Next]_balance

-----------------------------------------------------------------------------
\* No sequence of deposits and withdrawals of any amounts a message can carry
\* leaves the limits, by overflow or otherwise (service.go 107, 286, 511, 555).
WithinLimits == balance \in Limits

\* The tests refuse exactly what does not fit or is not covered, so an amount
\* near the end of the integers is neither let through nor refused by wrapping.
TestsAreExact ==
  \A amount \in Amounts :
    /\ ExceedsMaxBalance(balance, amount) <=> balance + amount > WalletMax
    /\ InsufficientBalance(balance, amount) <=> amount > balance

=============================================================================
