------------------------------- MODULE Ledger -------------------------------
(***************************************************************************)
(* The transactions collection as data: what a ledger record and a         *)
(* request are, what the service reads off the collection, and what it     *)
(* means for the collection to be a correct ledger.                        *)
(*                                                                         *)
(* A reference id is a pair <<k, n>>: the text k followed by n copies of   *)
(* the suffix "_deposit".  A client may send <<k, 1>> itself.              *)
(***************************************************************************)
EXTENDS Integers, FiniteSets

CONSTANTS
  Phone,        \* texts taken for phone numbers
  WalletID,     \* wallet ids handed out by the Wallet service
  Key,          \* texts of idempotency keys without their "_deposit" suffixes
  WalletMax,    \* capacity of a wallet
  None          \* Go's nil, "" or an omitted field

ASSUME LedgerAssumption ==
  /\ WalletMax \in Nat
  /\ None \notin Phone
  /\ None \notin WalletID

TypeDeposit == "DEPOSIT"
TypeWithdrawal == "WITHDRAWAL"
TypeTransfer == "TRANSFER"
TransactionType == {TypeDeposit, TypeWithdrawal, TypeTransfer}

StatusCompleted == "POSTED"
StatusFailed == "FAILED"

ReferenceID == Key \X Nat

\* The reference id of the receiver's leg: refID + "_deposit".
ReceiverRef(ref) == <<ref[1], ref[2] + 1>>

Transaction ==
  [ReferenceID : ReferenceID, PhoneNumber : Phone,
   SenderPhone : Phone \cup {None}, ReceiverPhone : Phone \cup {None},
   Type : TransactionType, Status : {StatusCompleted, StatusFailed},
   Amount : Nat \ {0}, WalletID : WalletID,
   BalanceBefore : Int, BalanceAfter : Int, SeqNumber : Nat \ {0}]

\* The three request DTOs as one shape: phone is the sender of a transfer,
\* receiver is None in a deposit or a withdrawal.
RequestType ==
  [op : TransactionType, phone : Phone, receiver : Phone \cup {None},
   amount : Nat \ {0}, ref : ReferenceID]

-----------------------------------------------------------------------------
(* What the service reads off a state S of the collection. *)

History(S, p) == {t \in S : t.PhoneNumber = p}

Latest(S, p) ==
  CHOOSE t \in History(S, p) : \A u \in History(S, p) : u.SeqNumber <= t.SeqNumber

NextSeq(S, p) ==
  IF History(S, p) = {} THEN 1 ELSE Latest(S, p).SeqNumber + 1

BalanceOf(S, p) ==
  IF History(S, p) = {} THEN 0 ELSE Latest(S, p).BalanceAfter

ByReference(S, ref) == {t \in S : t.ReferenceID = ref}

\* Mutant: the capacity test admits one unit too many.
ExceedsMaxOffByOne(S, p, amount) == BalanceOf(S, p) > WalletMax - amount + 1

ExceedsMaxBalance(S, p, amount) == BalanceOf(S, p) > WalletMax - amount

\* Mutant: an overdraft of one unit passes.
OverdraftByOne(S, p, amount) == BalanceOf(S, p) - amount < -1

InsufficientBalance(S, p, amount) == BalanceOf(S, p) - amount < 0

\* The record the service drafts for phone p from what it read in S.
Entry(S, r, p, ref, status, wallet, delta) ==
  [ReferenceID   |-> ref,
   PhoneNumber   |-> p,
   SenderPhone   |-> IF r.op = TypeTransfer THEN r.phone ELSE None,
   ReceiverPhone |-> IF r.op = TypeTransfer THEN r.receiver ELSE None,
   Type          |-> r.op,
   Status        |-> status,
   Amount        |-> r.amount,
   WalletID      |-> wallet,
   BalanceBefore |-> BalanceOf(S, p),
   BalanceAfter  |-> BalanceOf(S, p) + delta,
   SeqNumber     |-> NextSeq(S, p)]

-----------------------------------------------------------------------------
(* What a correct ledger is. *)

IsReceiverLeg(t) == t.Type = TypeTransfer /\ t.PhoneNumber = t.ReceiverPhone

\* The phones a record names.
PhonesOf(t) == {t.PhoneNumber, t.SenderPhone, t.ReceiverPhone} \ {None}

Credits(t) == t.Type = TypeDeposit \/ IsReceiverLeg(t)

\* What the record adds to the balance of its phone.
Effect(t) ==
  IF t.Status = StatusFailed THEN 0
  ELSE IF Credits(t) THEN t.Amount ELSE -t.Amount

SameSequence(t, u) == t.PhoneNumber = u.PhoneNumber /\ t.SeqNumber = u.SeqNumber

SameIndexKey(t, u) == t.ReferenceID = u.ReferenceID \/ SameSequence(t, u)

UniqueIndexes(S) == \A t, u \in S : SameIndexKey(t, u) => t = u

Seqs(S, p) == {t.SeqNumber : t \in History(S, p)}

Contiguous(S) ==
  \A p \in Phone : /\ NextSeq(S, p) \in Nat \ {0}
                   /\ Seqs(S, p) = 1 .. (NextSeq(S, p) - 1)

Chained(S) ==
  \A u \in S :
    /\ u.SeqNumber = 1 => u.BalanceBefore = 0
    /\ \A t \in History(S, u.PhoneNumber) :
         u.SeqNumber = t.SeqNumber + 1 => u.BalanceBefore = t.BalanceAfter

SoundEntry(t) ==
  /\ t.BalanceAfter = t.BalanceBefore + Effect(t)
  /\ t.BalanceAfter \in 0 .. WalletMax

\* Every phone's records are numbered 1, 2, 3, ... without gap or repetition,
\* each starts from the balance the one before it left, changes it by its own
\* amount, and keeps it between zero and the capacity.
WellFormed(S) ==
  /\ UniqueIndexes(S)
  /\ Contiguous(S)
  /\ Chained(S)
  /\ \A t \in S : SoundEntry(t)

\* Documents D follow on from S: each takes the next sequence number of its
\* phone and the balance S has there, no two the same phone or reference.
Drafted(S, D) ==
  /\ \A d \in D :
       /\ d \in Transaction
       /\ d.SeqNumber = NextSeq(S, d.PhoneNumber)
       /\ d.BalanceBefore = BalanceOf(S, d.PhoneNumber)
       /\ SoundEntry(d)
  /\ \A d, e \in D :
       d.PhoneNumber = e.PhoneNumber \/ d.ReferenceID = e.ReferenceID => d = e

\* The two records of a posted transfer.
Legs(t, u) ==
  /\ u.ReferenceID = ReceiverRef(t.ReferenceID)
  /\ ~IsReceiverLeg(t) /\ IsReceiverLeg(u)
  /\ t.PhoneNumber = u.SenderPhone /\ t.ReceiverPhone = u.PhoneNumber
  /\ t.Amount = u.Amount

\* Every posted leg of a transfer has its other leg.
TransfersPaired(S) ==
  \A t \in S :
    t.Type = TypeTransfer /\ t.Status = StatusCompleted =>
      \E u \in S : u.Status = StatusCompleted /\ (Legs(t, u) \/ Legs(u, t))
=============================================================================
