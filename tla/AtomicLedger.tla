---------------------------- MODULE AtomicLedger ----------------------------
(***************************************************************************)
(* What the ledger promises, without documents, sessions or retries: a     *)
(* balance per phone and the set of reference ids spent.  Each request     *)
(* happens at once or not at all, spends its reference ids, which must be  *)
(* fresh, and keeps every balance between zero and the capacity.           *)
(***************************************************************************)
EXTENDS Integers

CONSTANTS Phone, Key, WalletMax, Request

VARIABLES balance, used

abstractVars == <<balance, used>>

AbstractInit ==
  /\ balance \in [Phone -> 0 .. WalletMax]
  /\ used \subseteq Key \X Nat

\* Spend the reference ids R, none of them spent before.
Spend(R) == R \cap used = {} /\ used' = used \cup R

Allowed(b) == b \in 0 .. WalletMax

AtomicDeposit(r) ==
  /\ r.op = "DEPOSIT"
  /\ Spend({r.ref})
  /\ Allowed(balance[r.phone] + r.amount)
  /\ balance' = [balance EXCEPT ![r.phone] = @ + r.amount]

AtomicWithdrawal(r) ==
  /\ r.op = "WITHDRAWAL"
  /\ Spend({r.ref})
  /\ Allowed(balance[r.phone] - r.amount)
  /\ balance' = [balance EXCEPT ![r.phone] = @ - r.amount]

AtomicTransfer(r) ==
  /\ r.op = "TRANSFER" /\ r.phone # r.receiver
  /\ Spend({r.ref, <<r.ref[1], r.ref[2] + 1>>})
  /\ Allowed(balance[r.phone] - r.amount) /\ Allowed(balance[r.receiver] + r.amount)
  /\ balance' = [balance EXCEPT ![r.phone] = @ - r.amount, ![r.receiver] = @ + r.amount]

\* A transfer on record as failed spends its reference id and moves nothing.
FailedTransfer(r) ==
  /\ r.op = "TRANSFER" /\ r.phone # r.receiver
  /\ Spend({r.ref}) /\ UNCHANGED balance

AbstractNext ==
  \E r \in Request :
    AtomicDeposit(r) \/ AtomicWithdrawal(r) \/ AtomicTransfer(r) \/ FailedTransfer(r)

AbstractSpec == AbstractInit /\ [][AbstractNext]_abstractVars
=============================================================================
