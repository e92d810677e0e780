------------------------- MODULE ArithmeticTheorems -------------------------
(***************************************************************************)
(* The capacity and funds tests are exact, whatever the width and the      *)
(* capacity.                                                               *)
(***************************************************************************)
EXTENDS BalanceArithmetic, TLAPS

\* What fits the machine is not changed by it.
LEMMA WrapIsIdentity ==
  ASSUME NEW x \in Int, -(MaxInt + 1) <= x, x <= MaxInt
  PROVE  Wrap(x) = x
<1>1. \A y, m \in Nat : y < m => y % m = y
  BY SMT
<1>. QED  BY <1>1, WidthAssumption, SMT DEF Wrap

\* None of the four expressions of the code overflows on a balance within the
\* limits: the operands have opposite signs, or the test has bounded their sum.
LEMMA NoExpressionWraps ==
  ASSUME NEW b \in Limits, NEW amount \in Amounts
  PROVE  /\ ExceedsMaxBalance(b, amount) <=> b + amount > WalletMax
         /\ InsufficientBalance(b, amount) <=> amount > b
         /\ b + amount <= WalletMax => Wrap(b + amount) = b + amount
         /\ amount <= b => Wrap(b - amount) = b - amount
<1>1. /\ b \in Nat /\ b <= WalletMax
      /\ amount \in Nat /\ 1 <= amount /\ amount <= MaxInt
      /\ WalletMax \in Nat /\ MaxInt \in Nat /\ WalletMax <= MaxInt
  BY WidthAssumption DEF Limits, Amounts
<1>2. Wrap(WalletMax - amount) = WalletMax - amount
  BY <1>1, WrapIsIdentity
<1>3. Wrap(b - amount) = b - amount
  BY <1>1, WrapIsIdentity
<1>4. b + amount <= WalletMax => Wrap(b + amount) = b + amount
  BY <1>1, WrapIsIdentity
<1>. QED  BY <1>1, <1>2, <1>3, <1>4 DEF ExceedsMaxBalance, InsufficientBalance

\* For every width that holds the capacity, balances stay within the limits.
THEOREM BalanceBounded == Spec => []WithinLimits
<1>1. Init => WithinLimits
  BY WidthAssumption DEF Init, WithinLimits, Limits
<1>2. WithinLimits /\ [Next]_balance => WithinLimits'
  <2>. SUFFICES ASSUME WithinLimits, [Next]_balance
                PROVE  WithinLimits'
    OBVIOUS
  <2>1. ASSUME NEW amount \in Amounts, Deposit(amount)
        PROVE  WithinLimits'
    <3>1. balance + amount <= WalletMax /\ balance' = balance + amount
      BY <2>1, NoExpressionWraps, WidthAssumption DEF Deposit, WithinLimits, Limits, Amounts
    <3>. QED  BY <3>1, WidthAssumption DEF WithinLimits, Limits, Amounts
  <2>2. ASSUME NEW amount \in Amounts, Withdraw(amount)
        PROVE  WithinLimits'
    <3>1. amount <= balance /\ balance' = balance - amount
      BY <2>2, NoExpressionWraps, WidthAssumption DEF Withdraw, WithinLimits, Limits, Amounts
    <3>. QED  BY <3>1, WidthAssumption DEF WithinLimits, Limits, Amounts
  <2>3. CASE UNCHANGED balance
    BY <2>3 DEF WithinLimits
  <2>. QED  BY <2>1, <2>2, <2>3 DEF Next
<1>. QED  BY <1>1, <1>2, PTL DEF Spec

\* For every width that holds the capacity, the tests decide what they would
\* decide over unbounded integers, which is how Ledger states them.
THEOREM TestsExact == Spec => []TestsAreExact
<1>1. WithinLimits => TestsAreExact
  BY NoExpressionWraps DEF WithinLimits, TestsAreExact
<1>. QED  BY <1>1, BalanceBounded, PTL
=============================================================================
