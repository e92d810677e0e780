-------------------------- MODULE ServiceTheorems --------------------------
(***************************************************************************)
(* Safety of the transactions service for every set of handlers, requests, *)
(* initial ledgers, Wallet answers and retry bounds.  ServiceInv is shown  *)
(* inductive: a step of handler h leaves the other handlers alone          *)
(* (OtherHandlers), and re-establishes what is said of h, action by        *)
(* action; the ledger changes only when a transaction commits              *)
(* (CommitsWellFormed).                                                    *)
(***************************************************************************)
EXTENDS ServiceInvariant, LedgerTheorems

StepOf(h) == Receive(h) \/ Step(h) \/ Failure(h)

\* The ledger only grows, so what one handler knows survives any step of another.
LEMMA OtherHandlers ==
  ASSUME NEW g \in Handler, HandlerInv(g), Untouched(g), ledger \subseteq ledger'
  PROVE  HandlerInv(g)'
PROOF
<1>1. Known(g)'
  BY DEF HandlerInv, Known, Untouched, Resolved, IsTransfer, History
<1>2. Session(g)'
  BY DEF HandlerInv, Session, Open, OpenTransaction, OwnDocs, Untouched
<1>3. Answered(g)'
  BY DEF HandlerInv, Answered, ShowsRecord, ByReference, Untouched
<1> QED
  BY <1>1, <1>2, <1>3 DEF HandlerInv

\* A step of h changes nothing of another handler, and removes nothing from the
\* ledger.
LEMMA StepIsLocal ==
  ASSUME TypeOK, NEW h \in Handler, StepOf(h)
  PROVE  ledger \subseteq ledger' /\ \A g \in Handler \ {h} : Untouched(g)
PROOF
<1> USE DEF TypeOK, StoreTypeOK, Untouched, Respond, Goto, Refuse, RespondRecorded, storeVars,
            AbortTransaction, CommitTransaction
<1>1. CASE Receive(h)
  BY <1>1 DEF Receive
<1>2. CASE RefuseSelfTransfer(h) \/ Replay(h) \/ FirstTransaction(h)
  BY <1>2 DEF RefuseSelfTransfer, Replay, FirstTransaction
<1>3. CASE KnownPhone(h) \/ LookupReceiver(h)
  BY <1>3 DEF KnownPhone, LookupReceiver
<1>4. CASE WalletNotFound(h) \/ WalletFound(h)
  BY <1>4 DEF WalletNotFound, WalletFound
<1>5. CASE DepositAttempt(h) \/ WithdrawalAttempt(h)
  BY <1>5 DEF DepositAttempt, WithdrawalAttempt, Draft, BeginTransaction
<1>6. CASE TransferAttempt(h) \/ FailureAttempt(h)
  BY <1>6 DEF TransferAttempt, FailureAttempt, Draft, BeginTransaction
<1>7. CASE Exhausted(h) \/ Lookup(h)
  BY <1>7 DEF Exhausted, Lookup
<1>8. CASE Insert(h)
  BY <1>8 DEF Insert, InsertDocument
<1>9. CASE DuplicateReference(h) \/ DuplicateSequence(h)
  BY <1>9 DEF DuplicateReference, DuplicateSequence, ErrDuplicateReferenceID,
              ErrDuplicateSequence
<1>10. CASE Commit(h) \/ OrphanCommits(h)
  BY <1>10 DEF Commit, OrphanCommits
<1>11. CASE Committed(h)
  BY <1>11 DEF Committed, RespondCommitted
<1>12. CASE TransientError(h) \/ Break(h) \/ OrphanAborts(h)
  BY <1>12 DEF TransientError, Break, OrphanAborts
<1> QED
  BY <1>1, <1>2, <1>3, <1>4, <1>5, <1>6, <1>7, <1>8, <1>9, <1>10, <1>11, <1>12
     DEF StepOf, Step, Failure

\* A request that arrived is well typed, and names a receiver iff it is a transfer.
LEMMA RequestTyped ==
  ASSUME NEW h \in Handler, req[h] \in Request
  PROVE  /\ req[h] \in RequestType
         /\ req[h].phone \in Phone /\ req[h].ref \in ReferenceID
         /\ req[h].op \in TransactionType /\ req[h].amount \in Nat \ {0}
         /\ (req[h].receiver = None) <=> (req[h].op # TypeTransfer)
         /\ IsTransfer(h) => req[h].receiver \in Phone
PROOF
<1>1. /\ req[h] \in RequestType
      /\ (req[h].receiver = None) <=> (req[h].op # TypeTransfer)
  BY ServiceAssumption
<1> QED
  BY <1>1 DEF RequestType, IsTransfer

-----------------------------------------------------------------------------
(* The attempts: what the callbacks draft from the current ledger. *)

\* A deposit within the capacity follows on from the ledger.
LEMMA DepositDrafts ==
  ASSUME TypeOK, LedgerWellFormed, NEW h \in Handler, req[h] \in Request,
         req[h].op = TypeDeposit, local[h].walletID \in WalletID,
         ~ExceedsMaxBalance(ledger, req[h].phone, req[h].amount),
         NEW d, d = Entry(ledger, req[h], req[h].phone, req[h].ref, StatusCompleted,
                          local[h].walletID, req[h].amount)
  PROVE  Drafted(ledger, {d}) /\ TransfersPaired({d})
PROOF
<1> DEFINE r == req[h]
<1>1. ledger \subseteq Transaction /\ WellFormed(ledger)
  BY DEF TypeOK, StoreTypeOK, LedgerWellFormed
<1>2. r \in RequestType /\ ((r.receiver = None) <=> (r.op # TypeTransfer))
      /\ r.phone \in Phone /\ r.ref \in ReferenceID /\ r.amount \in Nat \ {0}
  BY RequestTyped
<1>3. d \in Transaction
  BY <1>1, <1>2, EntryTyped
<1>4. BalanceOf(ledger, r.phone) \in 0 .. WalletMax
  BY <1>1, <1>2, BalanceWithinLimits
<1>5. BalanceOf(ledger, r.phone) + r.amount \in 0 .. WalletMax
  BY <1>2, <1>4, LedgerAssumption DEF ExceedsMaxBalance
<1>6. SoundEntry(d)
  BY <1>5 DEF SoundEntry, Effect, Credits, Entry, StatusCompleted, StatusFailed
<1>7. Drafted(ledger, {d})
  BY <1>3, <1>6 DEF Drafted, Entry
<1>8. TransfersPaired({d})
  BY DEF TransfersPaired, Entry, TypeDeposit, TypeTransfer
<1> QED
  BY <1>7, <1>8

\* A withdrawal covered by the balance follows on from the ledger.
LEMMA WithdrawalDrafts ==
  ASSUME TypeOK, LedgerWellFormed, NEW h \in Handler, req[h] \in Request,
         req[h].op = TypeWithdrawal, local[h].walletID \in WalletID,
         ~InsufficientBalance(ledger, req[h].phone, req[h].amount),
         NEW d, d = Entry(ledger, req[h], req[h].phone, req[h].ref, StatusCompleted,
                          local[h].walletID, -req[h].amount)
  PROVE  Drafted(ledger, {d}) /\ TransfersPaired({d})
PROOF
<1> DEFINE r == req[h]
<1>1. ledger \subseteq Transaction /\ WellFormed(ledger)
  BY DEF TypeOK, StoreTypeOK, LedgerWellFormed
<1>2. r \in RequestType /\ ((r.receiver = None) <=> (r.op # TypeTransfer))
      /\ r.phone \in Phone /\ r.ref \in ReferenceID /\ r.amount \in Nat \ {0}
  BY RequestTyped
<1>3. d \in Transaction
  BY <1>1, <1>2, EntryTyped
<1>4. BalanceOf(ledger, r.phone) \in 0 .. WalletMax
  BY <1>1, <1>2, BalanceWithinLimits
<1>5. BalanceOf(ledger, r.phone) + (-r.amount) \in 0 .. WalletMax
  BY <1>2, <1>4, LedgerAssumption DEF InsufficientBalance
<1>6. SoundEntry(d)
  BY <1>5 DEF SoundEntry, Effect, Credits, IsReceiverLeg, Entry, StatusCompleted, StatusFailed,
              TypeDeposit, TypeWithdrawal, TypeTransfer
<1>7. Drafted(ledger, {d})
  BY <1>3, <1>6 DEF Drafted, Entry
<1>8. TransfersPaired({d})
  BY DEF TransfersPaired, Entry, TypeWithdrawal, TypeTransfer
<1> QED
  BY <1>7, <1>8

\* The two legs of a transfer within both limits follow on from the ledger, and
\* are each other's leg.
LEMMA TransferDrafts ==
  ASSUME TypeOK, LedgerWellFormed, NEW h \in Handler, req[h] \in Request,
         IsTransfer(h), req[h].phone # req[h].receiver,
         local[h].walletID \in WalletID, local[h].receiverWalletID \in WalletID,
         ~InsufficientBalance(ledger, req[h].phone, req[h].amount),
         ~ExceedsMaxBalance(ledger, req[h].receiver, req[h].amount),
         NEW d, d = Entry(ledger, req[h], req[h].receiver, ReceiverRef(req[h].ref),
                          StatusCompleted, local[h].receiverWalletID, req[h].amount),
         NEW w, w = Entry(ledger, req[h], req[h].phone, req[h].ref,
                          StatusCompleted, local[h].walletID, -req[h].amount)
  PROVE  Drafted(ledger, {d, w}) /\ TransfersPaired({d, w})
PROOF
<1> DEFINE r == req[h]
<1>1. ledger \subseteq Transaction /\ WellFormed(ledger)
  BY DEF TypeOK, StoreTypeOK, LedgerWellFormed
<1>2. r \in RequestType /\ ((r.receiver = None) <=> (r.op # TypeTransfer))
      /\ r.phone \in Phone /\ r.ref \in ReferenceID /\ r.amount \in Nat \ {0}
      /\ r.receiver \in Phone /\ r.op = TypeTransfer
  BY RequestTyped DEF IsTransfer
<1>3. ReceiverRef(r.ref) \in ReferenceID /\ ReceiverRef(r.ref) # r.ref
  BY <1>2, ReceiverRefTyped
<1>4. d \in Transaction
  BY <1>1, <1>2, <1>3, EntryTyped
<1>5. w \in Transaction
  BY <1>1, <1>2, EntryTyped
<1>6. /\ BalanceOf(ledger, r.receiver) \in 0 .. WalletMax
      /\ BalanceOf(ledger, r.phone) \in 0 .. WalletMax
  BY <1>1, <1>2, BalanceWithinLimits
<1>7. BalanceOf(ledger, r.receiver) + r.amount \in 0 .. WalletMax
  BY <1>2, <1>6, LedgerAssumption DEF ExceedsMaxBalance
<1>8. BalanceOf(ledger, r.phone) + (-r.amount) \in 0 .. WalletMax
  BY <1>2, <1>6, LedgerAssumption DEF InsufficientBalance
<1>9. SoundEntry(d) /\ IsReceiverLeg(d)
  BY <1>2, <1>7 DEF SoundEntry, Effect, Credits, IsReceiverLeg, Entry,
                    StatusCompleted, StatusFailed, TypeDeposit, TypeTransfer
<1>10. SoundEntry(w) /\ ~IsReceiverLeg(w)
  BY <1>2, <1>8 DEF SoundEntry, Effect, Credits, IsReceiverLeg, Entry,
                    StatusCompleted, StatusFailed, TypeDeposit, TypeTransfer
<1>11. /\ d.PhoneNumber # w.PhoneNumber /\ d.ReferenceID # w.ReferenceID
       /\ d.SeqNumber = NextSeq(ledger, d.PhoneNumber)
       /\ w.SeqNumber = NextSeq(ledger, w.PhoneNumber)
       /\ d.BalanceBefore = BalanceOf(ledger, d.PhoneNumber)
       /\ w.BalanceBefore = BalanceOf(ledger, w.PhoneNumber)
  BY <1>3 DEF Entry
<1>12. Drafted(ledger, {d, w})
  BY <1>4, <1>5, <1>9, <1>10, <1>11 DEF Drafted
<1>13. Legs(w, d)
  BY <1>2, <1>9, <1>10 DEF Legs, Entry
<1>14. TransfersPaired({d, w})
  BY <1>13 DEF TransfersPaired, Entry
<1> QED
  BY <1>12, <1>14

\* A failure record follows on from the ledger and moves nothing.
LEMMA FailureDrafts ==
  ASSUME TypeOK, LedgerWellFormed, NEW h \in Handler, req[h] \in Request,
         History(ledger, req[h].phone) # {},
         NEW d, d = Entry(ledger, req[h], req[h].phone, req[h].ref, StatusFailed,
                          Latest(ledger, req[h].phone).WalletID, 0)
  PROVE  Drafted(ledger, {d}) /\ TransfersPaired({d})
PROOF
<1> DEFINE r == req[h]
<1>1. ledger \subseteq Transaction /\ WellFormed(ledger)
  BY DEF TypeOK, StoreTypeOK, LedgerWellFormed
<1>2. r \in RequestType /\ ((r.receiver = None) <=> (r.op # TypeTransfer))
      /\ r.phone \in Phone /\ r.ref \in ReferenceID
  BY RequestTyped
<1>3. Latest(ledger, r.phone).WalletID \in WalletID
  <2>1. Latest(ledger, r.phone) \in History(ledger, r.phone)
    BY <1>1, <1>2, LatestIsTip DEF WellFormed
  <2> QED
    BY <1>1, <2>1 DEF History, Transaction
<1>4. d \in Transaction
  BY <1>1, <1>2, <1>3, EntryTyped
<1>5. BalanceOf(ledger, r.phone) \in 0 .. WalletMax
  BY <1>1, <1>2, BalanceWithinLimits
<1>6. SoundEntry(d)
  BY <1>5, LedgerAssumption DEF SoundEntry, Effect, Entry
<1>7. Drafted(ledger, {d})
  BY <1>4, <1>6 DEF Drafted, Entry
<1>8. TransfersPaired({d})
  BY DEF TransfersPaired, Entry, StatusCompleted, StatusFailed
<1> QED
  BY <1>7, <1>8

\* From the facts known before an attempt, whichever attempt it is, the document
\* set handed to the repository follows on from the ledger.
LEMMA DraftIsSound ==
  ASSUME TypeOK, LedgerWellFormed, NEW h \in Handler, Known(h), NEW D, Draft(h, D),
         DepositAttempt(h) \/ WithdrawalAttempt(h) \/ TransferAttempt(h) \/ FailureAttempt(h)
  PROVE  /\ Drafted(ledger, docs'[h]) /\ TransfersPaired(docs'[h])
         /\ \A d \in docs'[h] :
              /\ d.PhoneNumber = req[h].phone => d.ReferenceID = req[h].ref
              /\ local[h].errReason => d.PhoneNumber = req[h].phone
PROOF
<1> DEFINE r == req[h]
<1>1. docs'[h] = D
  BY DEF Draft, BeginTransaction, TypeOK, StoreTypeOK
<1>2. /\ pc[h] = "attempt" /\ r \in Request
      /\ local[h].walletID \in WalletID
      /\ IsTransfer(h) => /\ r.phone # r.receiver /\ History(ledger, r.phone) # {}
                          /\ local[h].receiverWalletID \in WalletID
      /\ local[h].errReason => IsTransfer(h)
  <2>1. pc[h] = "attempt"
    BY DEF DepositAttempt, WithdrawalAttempt, TransferAttempt, FailureAttempt, Attempting
  <2> QED
    BY <2>1 DEF Known, Resolved, TypeOK, Local
<1>3. pc'[h] = "insert"
  BY DEF Draft, Goto, TypeOK
<1>4. CASE DepositAttempt(h)
  <2> DEFINE d == Entry(ledger, r, r.phone, r.ref, StatusCompleted, local[h].walletID, r.amount)
  <2>1. ~ExceedsMaxBalance(ledger, r.phone, r.amount) /\ docs'[h] = {d}
    BY <1>3, <1>4 DEF DepositAttempt, Refuse, Respond, Goto, Draft, BeginTransaction, TypeOK,
                      StoreTypeOK
  <2>2. r.op = TypeDeposit /\ ~local[h].errReason
    BY <1>2, <1>4 DEF DepositAttempt, IsTransfer, TypeDeposit, TypeTransfer
  <2>3. Drafted(ledger, {d}) /\ TransfersPaired({d})
    BY <1>2, <2>1, <2>2, DepositDrafts
  <2>4. d.ReferenceID = r.ref
    BY DEF Entry
  <2> QED
    BY <2>1, <2>2, <2>3, <2>4
<1>5. CASE WithdrawalAttempt(h)
  <2> DEFINE d == Entry(ledger, r, r.phone, r.ref, StatusCompleted, local[h].walletID, -r.amount)
  <2>1. ~InsufficientBalance(ledger, r.phone, r.amount) /\ docs'[h] = {d}
    BY <1>3, <1>5 DEF WithdrawalAttempt, Refuse, Respond, Goto, Draft, BeginTransaction, TypeOK,
                      StoreTypeOK
  <2>2. r.op = TypeWithdrawal /\ ~local[h].errReason
    BY <1>2, <1>5 DEF WithdrawalAttempt, IsTransfer, TypeWithdrawal, TypeTransfer
  <2>3. Drafted(ledger, {d}) /\ TransfersPaired({d})
    BY <1>2, <2>1, <2>2, WithdrawalDrafts
  <2>4. d.ReferenceID = r.ref
    BY DEF Entry
  <2> QED
    BY <2>1, <2>2, <2>3, <2>4
<1>6. CASE TransferAttempt(h)
  <2> DEFINE d == Entry(ledger, r, r.receiver, ReceiverRef(r.ref), StatusCompleted,
                        local[h].receiverWalletID, r.amount)
             w == Entry(ledger, r, r.phone, r.ref, StatusCompleted, local[h].walletID, -r.amount)
  <2>1. /\ ~InsufficientBalance(ledger, r.phone, r.amount)
        /\ ~ExceedsMaxBalance(ledger, r.receiver, r.amount)
        /\ docs'[h] = {d, w}
    BY <1>2, <1>3, <1>6 DEF TransferAttempt, Refuse, Respond, Goto, Draft, BeginTransaction,
                            TypeOK, StoreTypeOK
  <2>2. IsTransfer(h) /\ ~local[h].errReason
    BY <1>6 DEF TransferAttempt
  <2>3. Drafted(ledger, {d, w}) /\ TransfersPaired({d, w})
    BY <1>2, <2>1, <2>2, TransferDrafts
  <2>4. w.ReferenceID = r.ref /\ d.PhoneNumber = r.receiver
    BY DEF Entry
  <2> QED
    BY <1>2, <2>1, <2>2, <2>3, <2>4
<1>7. CASE FailureAttempt(h)
  <2> DEFINE d == Entry(ledger, r, r.phone, r.ref, StatusFailed,
                        Latest(ledger, r.phone).WalletID, 0)
  <2>1. docs'[h] = {d}
    BY <1>7 DEF FailureAttempt, Draft, BeginTransaction, TypeOK, StoreTypeOK
  <2>2. History(ledger, r.phone) # {}
    BY <1>2, <1>7 DEF FailureAttempt
  <2>3. Drafted(ledger, {d}) /\ TransfersPaired({d})
    BY <1>2, <2>2, FailureDrafts
  <2>4. d.ReferenceID = r.ref /\ d.PhoneNumber = r.phone
    BY DEF Entry
  <2> QED
    BY <2>1, <2>3, <2>4
<1> QED
  BY <1>4, <1>5, <1>6, <1>7

-----------------------------------------------------------------------------
(* The ledger under a commit. *)

\* The documents a transaction has written were drafted from the current state
\* of their phones, however old its snapshot is.
LEMMA WritesAreCurrent ==
  ASSUME ServiceInv, NEW h \in Handler, Open(h)
  PROVE  /\ Drafted(ledger, writes[h])
         /\ \A d \in writes[h], t \in ledger : d.ReferenceID # t.ReferenceID
PROOF
<1>1. /\ ledger \subseteq Transaction /\ WellFormed(ledger)
      /\ snapshot[h] \subseteq ledger /\ WellFormed(snapshot[h])
      /\ Drafted(snapshot[h], docs[h]) /\ writes[h] \subseteq docs[h]
  BY DEF ServiceInv, TypeOK, StoreTypeOK, LedgerWellFormed, HandlerInv, Session, OpenTransaction
<1>2. \A d \in writes[h], t \in ledger : ~SameIndexKey(t, d)
  BY DEF ServiceInv, IndexEntriesHeld
<1>3. ASSUME NEW d \in writes[h]
      PROVE  /\ d.SeqNumber = NextSeq(ledger, d.PhoneNumber)
             /\ d.BalanceBefore = BalanceOf(ledger, d.PhoneNumber)
  <2> DEFINE p == d.PhoneNumber
  <2>1. /\ p \in Phone
        /\ d.SeqNumber = NextSeq(snapshot[h], p)
        /\ d.BalanceBefore = BalanceOf(snapshot[h], p)
    BY <1>1 DEF Drafted, Transaction
  <2>2. \A t \in History(ledger, p) : t.SeqNumber # NextSeq(snapshot[h], p)
    BY <1>2, <2>1 DEF History, SameIndexKey, SameSequence
  <2>3. /\ NextSeq(ledger, p) = NextSeq(snapshot[h], p)
        /\ BalanceOf(ledger, p) = BalanceOf(snapshot[h], p)
    BY <1>1, <2>1, <2>2, FreeNumberMeansCurrent
  <2> QED
    BY <2>1, <2>3
<1> QED
  BY <1>1, <1>2, <1>3 DEF Drafted, SameIndexKey

\* What a commit makes visible keeps the ledger a correct ledger.
LEMMA CommitsWellFormed ==
  ASSUME ServiceInv, NEW h \in Handler, Open(h), CommitTransaction(h), writes[h] = docs[h]
  PROVE  LedgerWellFormed' /\ TransfersAtomic'
PROOF
<1>1. ledger' = ledger \cup writes[h]
  BY DEF CommitTransaction
<1>2. ledger \subseteq Transaction /\ WellFormed(ledger) /\ TransfersPaired(ledger)
  BY DEF ServiceInv, TypeOK, StoreTypeOK, LedgerWellFormed, TransfersAtomic
<1>3. WellFormed(ledger \cup writes[h])
  BY <1>2, WritesAreCurrent, ExtendWellFormed
<1>4. TransfersPaired(writes[h])
  BY DEF ServiceInv, HandlerInv, Session, OpenTransaction
<1>5. TransfersPaired(ledger \cup writes[h])
  BY <1>2, <1>4, ExtendPaired
<1> QED
  BY <1>1, <1>3, <1>5 DEF LedgerWellFormed, TransfersAtomic

-----------------------------------------------------------------------------
(* Type correctness. *)

\* The wallet id of a latest record is a wallet id.
LEMMA LatestWalletTyped ==
  ASSUME TypeOK, LedgerWellFormed, NEW p \in Phone, History(ledger, p) # {}
  PROVE  Latest(ledger, p).WalletID \in WalletID
PROOF
<1>1. ledger \subseteq Transaction /\ Contiguous(ledger)
  BY DEF TypeOK, StoreTypeOK, LedgerWellFormed, WellFormed
<1>2. Latest(ledger, p) \in History(ledger, p)
  BY <1>1, LatestIsTip
<1> QED
  BY <1>1, <1>2 DEF History, Transaction

\* The store's variables keep their types: whatever is drafted is a record, and
\* the rest only moves documents around.
LEMMA StoreTyped ==
  ASSUME TypeOK, LedgerWellFormed, NEW h \in Handler, HandlerInv(h), StepOf(h)
  PROVE  StoreTypeOK'
PROOF
<1> USE DEF TypeOK, StoreTypeOK
<1>1. CASE UNCHANGED storeVars
  BY <1>1 DEF storeVars
<1>2. CASE \E D : Draft(h, D) /\ D \subseteq Transaction
  BY <1>2 DEF Draft, BeginTransaction
<1>3. CASE Insert(h)
  BY <1>3 DEF Insert, InsertDocument, NextDoc, Remaining
<1>4. CASE AbortTransaction(h)
  BY <1>4 DEF AbortTransaction
<1>5. CASE CommitTransaction(h)
  BY <1>5 DEF CommitTransaction
<1>6. CASE Committed(h)
  BY <1>6 DEF Committed
<1>7. CASE \/ DepositAttempt(h) \/ WithdrawalAttempt(h) \/ TransferAttempt(h) \/ FailureAttempt(h)
  <2>1. CASE \E D : Draft(h, D)
    <3>1. PICK D : Draft(h, D)
      BY <2>1
    <3>2. docs'[h] \subseteq Transaction
      BY <1>7, <3>1, DraftIsSound DEF Drafted, HandlerInv
    <3> QED
      BY <1>2, <3>1, <3>2 DEF Draft, BeginTransaction
  <2>2. CASE ~\E D : Draft(h, D)
    BY <1>1, <1>7, <2>2 DEF DepositAttempt, WithdrawalAttempt, TransferAttempt, FailureAttempt,
                            Refuse, storeVars
  <2> QED
    BY <2>1, <2>2
<1> HIDE DEF TypeOK, StoreTypeOK
<1>8. CASE Receive(h) \/ Break(h) \/ Exhausted(h) \/ Lookup(h)
  BY <1>1, <1>8 DEF Receive, Break, Exhausted, Lookup, Refuse, RespondRecorded
<1>9. CASE \/ RefuseSelfTransfer(h) \/ Replay(h) \/ FirstTransaction(h) \/ KnownPhone(h)
           \/ LookupReceiver(h) \/ WalletNotFound(h) \/ WalletFound(h)
  BY <1>1, <1>9 DEF RefuseSelfTransfer, Replay, FirstTransaction, KnownPhone, LookupReceiver,
                    WalletNotFound, WalletFound, Refuse, RespondRecorded, storeVars
<1> QED
  BY <1>3, <1>4, <1>5, <1>6, <1>7, <1>8, <1>9
     DEF StepOf, Step, Failure, DuplicateReference, DuplicateSequence, ErrDuplicateReferenceID,
         ErrDuplicateSequence, TransientError, OrphanAborts, OrphanCommits, Commit

\* A step leaves the stepping handler's program counter at one of its labels.
LEMMA ControlTyped ==
  ASSUME TypeOK, NEW h \in Handler, StepOf(h)
  PROVE  pc' \in [Handler -> Control]
PROOF
<1>1. pc \in [Handler -> Control]
  BY DEF TypeOK
<1>2. ASSUME NEW label \in Control, Goto(h, label)
      PROVE  pc' \in [Handler -> Control]
  BY <1>1, <1>2 DEF Goto
<1>3. ASSUME NEW result, NEW tx, Respond(h, result, tx)
      PROVE  pc' \in [Handler -> Control]
  BY <1>2, <1>3 DEF Respond, Control
<1>4. ASSUME NEW t, RespondRecorded(h, t)
      PROVE  pc' \in [Handler -> Control]
  BY <1>3, <1>4 DEF RespondRecorded
<1>5. ASSUME NEW error, Refuse(h, error)
      PROVE  pc' \in [Handler -> Control]
  BY <1>3, <1>5 DEF Refuse
<1>6. ASSUME NEW D, Draft(h, D)
      PROVE  pc' \in [Handler -> Control]
  BY <1>2, <1>6 DEF Draft, Control
<1>7. CASE Receive(h)
  BY <1>2, <1>7 DEF Receive, Control
<1>8. CASE RefuseSelfTransfer(h) \/ Exhausted(h) \/ WalletNotFound(h)
  BY <1>5, <1>8 DEF RefuseSelfTransfer, Exhausted, WalletNotFound
<1>9. CASE Replay(h) \/ Lookup(h)
  BY <1>4, <1>5, <1>9 DEF Replay, Lookup
<1>10. CASE FirstTransaction(h) \/ KnownPhone(h) \/ LookupReceiver(h) \/ WalletFound(h)
  BY <1>2, <1>5, <1>10 DEF FirstTransaction, KnownPhone, LookupReceiver, WalletFound, Control
<1>11. CASE DepositAttempt(h) \/ WithdrawalAttempt(h) \/ FailureAttempt(h)
  BY <1>5, <1>6, <1>11 DEF DepositAttempt, WithdrawalAttempt, FailureAttempt
<1>12. CASE TransferAttempt(h)
  BY <1>1, <1>5, <1>6, <1>12 DEF TransferAttempt
<1>13. CASE Insert(h)
  BY <1>2, <1>13 DEF Insert, AfterInsert, Control
<1>14. CASE DuplicateReference(h) \/ DuplicateSequence(h)
  BY <1>2, <1>3, <1>14 DEF DuplicateReference, DuplicateSequence, Control
<1>15. CASE Commit(h) \/ TransientError(h) \/ OrphanAborts(h) \/ OrphanCommits(h)
  BY <1>2, <1>15 DEF Commit, TransientError, OrphanAborts, OrphanCommits, Control
<1>16. CASE Break(h)
  BY <1>2, <1>16 DEF Break, Control
<1>17. CASE Committed(h)
  BY <1>3, <1>17 DEF Committed, RespondCommitted
<1> QED
  BY <1>7, <1>8, <1>9, <1>10, <1>11, <1>12, <1>13, <1>14, <1>15, <1>16, <1>17
     DEF StepOf, Step, Failure

\* What a step answers is one of the service's results, with a record or nothing.
LEMMA AnswerTyped ==
  ASSUME TypeOK, NEW h \in Handler, StepOf(h)
  PROVE  answer' \in [Handler -> [result : Result, tx : Transaction \cup {None}]]
PROOF
<1> DEFINE A == [Handler -> [result : Result, tx : Transaction \cup {None}]]
<1>1. answer \in A /\ ledger \subseteq Transaction /\ docs[h] \subseteq Transaction
  BY DEF TypeOK, StoreTypeOK
<1>2. ASSUME NEW result \in Result, NEW tx \in Transaction \cup {None}, Respond(h, result, tx)
      PROVE  answer' \in A
  BY <1>1, <1>2 DEF Respond
<1>3. ASSUME NEW t \in ledger, RespondRecorded(h, t)
      PROVE  answer' \in A
  BY <1>1, <1>2, <1>3 DEF RespondRecorded, Result
<1>4. ASSUME NEW error \in Refusal \cup {"ErrTransactionNotFound"}, Refuse(h, error)
      PROVE  answer' \in A
  BY <1>2, <1>4 DEF Refuse, Result
<1>5. CASE UNCHANGED answer
  BY <1>1, <1>5
<1>6. CASE RefuseSelfTransfer(h) \/ Exhausted(h) \/ WalletNotFound(h)
  BY <1>4, <1>6 DEF RefuseSelfTransfer, Exhausted, ExhaustedError, WalletNotFound, Refusal
<1>7. CASE Replay(h) \/ Lookup(h)
  BY <1>3, <1>4, <1>7 DEF Replay, Replays, Lookup, ByReference
<1>8. CASE FirstTransaction(h) \/ WalletFound(h)
  BY <1>4, <1>5, <1>8 DEF FirstTransaction, WalletFound, Refusal
<1>9. CASE DepositAttempt(h) \/ WithdrawalAttempt(h) \/ TransferAttempt(h) \/ FailureAttempt(h)
  BY <1>4, <1>5, <1>9 DEF DepositAttempt, WithdrawalAttempt, TransferAttempt, FailureAttempt,
                          Draft, Refusal
<1>10. CASE DuplicateReference(h)
  BY <1>2, <1>5, <1>10 DEF DuplicateReference, Result
<1>11. CASE Committed(h)
  BY <1>1, <1>2, <1>11 DEF Committed, RespondCommitted, Result
<1>12. CASE Break(h)
  BY <1>1, <1>12 DEF Break, Result
<1> QED
  BY <1>5, <1>6, <1>7, <1>8, <1>9, <1>10, <1>11, <1>12
     DEF StepOf, Step, Failure, Receive, KnownPhone, LookupReceiver, Insert, DuplicateSequence,
         Commit, TransientError, OrphanAborts, OrphanCommits

\* Attempts and reruns stay within their bounds and wallet ids are wallet ids.
LEMMA LocalTyped ==
  ASSUME TypeOK, LedgerWellFormed, NEW h \in Handler, HandlerInv(h), StepOf(h)
  PROVE  local' \in [Handler -> Local]
PROOF
<1>1. /\ Known(h) /\ local \in [Handler -> Local] /\ MaxRetries \in Nat /\ MaxReruns \in Nat
  BY ServiceAssumption DEF TypeOK, HandlerInv
<1>2. pc[h] # "idle" => /\ req[h].phone \in Phone
                        /\ IsTransfer(h) => req[h].receiver \in Phone
  BY <1>1, RequestTyped DEF Known
<1>3. CASE UNCHANGED local
  BY <1>1, <1>3
<1>4. ASSUME NEW w \in WalletID,
             \/ local' = [local EXCEPT ![h].walletID = w]
             \/ local' = [local EXCEPT ![h].receiverWalletID = w]
      PROVE  local' \in [Handler -> Local]
  BY <1>1, <1>4 DEF Local
<1>5. CASE KnownPhone(h)
  <2>1. Latest(ledger, req[h].phone).WalletID \in WalletID
    BY <1>2, <1>5, LatestWalletTyped DEF KnownPhone
  <2> QED
    BY <1>4, <1>5, <2>1 DEF KnownPhone, LatestTX
<1>6. CASE LookupReceiver(h)
  <2>1. req[h].receiver \in Phone
    BY <1>1, <1>2, <1>6 DEF LookupReceiver, Known, IsTransfer
  <2>2. CASE History(ledger, req[h].receiver) # {}
    BY <1>4, <1>6, <2>1, <2>2, LatestWalletTyped DEF LookupReceiver
  <2> QED
    BY <1>3, <1>6, <2>2 DEF LookupReceiver
<1>7. CASE WalletFound(h)
  <2>1. WalletPhone(h) \in Phone
    BY <1>2, <1>7 DEF WalletFound, WalletPhone, IsTransfer
  <2>2. Wallets[WalletPhone(h)] \subseteq WalletID \cup {None}
    BY <2>1, ServiceAssumption
  <2> QED
    BY <1>3, <1>4, <1>7, <2>2 DEF WalletFound, Refuse
<1>8. ASSUME NEW l \in Local, local' = [local EXCEPT ![h] = l]
      PROVE  local' \in [Handler -> Local]
  BY <1>1, <1>8
<1>9. CASE TransferAttempt(h)
  <2> DEFINE l == [local[h] EXCEPT !.errReason = TRUE, !.attempt = 0, !.reruns = 0]
  <2>1. l \in Local
    <3>1. local[h] \in Local /\ 0 \in 0 .. MaxRetries /\ 0 \in 0 .. MaxReruns
      BY <1>1
    <3> QED
      BY <3>1 DEF Local
  <2>2. UNCHANGED local \/ local' = [local EXCEPT ![h] = l]
    BY <1>1, <1>9 DEF TransferAttempt, Refuse, Draft
  <2> QED
    BY <1>3, <1>8, <2>1, <2>2
<1>10. CASE DuplicateSequence(h)
  <2> DEFINE l == [local[h] EXCEPT !.attempt = local[h].attempt + 1, !.reruns = 0]
  <2>1. local[h].attempt + 1 \in 0 .. MaxRetries
    BY <1>1, <1>10 DEF DuplicateSequence, Known, Local
  <2>2. l \in Local
    <3>1. local[h] \in Local /\ 0 \in 0 .. MaxReruns
      BY <1>1
    <3> QED
      BY <2>1, <3>1 DEF Local
  <2>3. local' = [local EXCEPT ![h] = l]
    BY <1>1, <1>10 DEF DuplicateSequence, NextAttempt
  <2> QED
    BY <1>8, <2>2, <2>3
<1>11. CASE TransientError(h)
  BY <1>1, <1>11 DEF TransientError, Local
<1> QED
  BY <1>3, <1>5, <1>6, <1>7, <1>9, <1>10, <1>11
     DEF StepOf, Step, Failure, Receive, RefuseSelfTransfer, Replay, FirstTransaction,
         WalletNotFound, DepositAttempt, WithdrawalAttempt, FailureAttempt, Exhausted, Insert,
         DuplicateReference, Lookup, Commit, Committed, Break, OrphanAborts, OrphanCommits,
         Refuse, RespondRecorded, Draft

\* A step of one handler keeps the types of all variables.
LEMMA StepTyped ==
  ASSUME TypeOK, LedgerWellFormed, NEW h \in Handler, HandlerInv(h), StepOf(h)
  PROVE  TypeOK'
PROOF
<1>1. req' \in [Handler -> Request \cup {None}]
  <2>1. CASE Receive(h)
    BY <2>1 DEF Receive, TypeOK
  <2>2. CASE UNCHANGED req
    BY <2>2 DEF TypeOK
  <2> QED
    BY <2>1, <2>2
       DEF StepOf, Step, Failure, RefuseSelfTransfer, Replay, FirstTransaction, KnownPhone,
           LookupReceiver, WalletNotFound, WalletFound, DepositAttempt, WithdrawalAttempt,
           TransferAttempt, FailureAttempt, Exhausted, Insert, DuplicateReference,
           DuplicateSequence, Lookup, Commit, Committed, TransientError, Break, OrphanAborts,
           OrphanCommits, Refuse, RespondRecorded, Draft
<1> QED
  BY <1>1, StoreTyped, ControlTyped, AnswerTyped, LocalTyped DEF TypeOK

-----------------------------------------------------------------------------
(* What a step of h re-establishes about h. *)

\* Answering with an error from outside a transaction.
LEMMA RefuseInv ==
  ASSUME TypeOK, NEW h \in Handler, HandlerInv(h), pc[h] # "idle", ~Open(h),
         NEW error, error \notin {"OK", "ErrHalfTransferFail"}, Refuse(h, error)
  PROVE  HandlerInv(h)'
PROOF
<1>1. /\ pc'[h] = "done" /\ answer'[h].result = error
      /\ UNCHANGED <<ledger, snapshot, docs, writes, req, local>>
  BY DEF Refuse, Respond, Goto, storeVars, TypeOK
<1>2. Known(h)'
  BY <1>1 DEF HandlerInv, Known, Resolved, IsTransfer
<1>3. Session(h)'
  BY <1>1 DEF HandlerInv, Session, Open
<1>4. Answered(h)'
  BY <1>1 DEF Answered
<1> QED
  BY <1>2, <1>3, <1>4 DEF HandlerInv

\* Answering from a record found under the request's key.
LEMMA RespondRecordedInv ==
  ASSUME TypeOK, NEW h \in Handler, HandlerInv(h), pc[h] # "idle", ~Open(h),
         NEW t \in ByReference(ledger, req[h].ref), RespondRecorded(h, t)
  PROVE  HandlerInv(h)'
PROOF
<1>1. /\ pc'[h] = "done"
      /\ \/ answer'[h].result = "OK" /\ answer'[h].tx = t
         \/ answer'[h].result = "ErrHalfTransferFail"
      /\ UNCHANGED <<ledger, snapshot, docs, writes, req, local>>
  BY DEF RespondRecorded, Respond, Goto, storeVars, TypeOK
<1>2. Known(h)'
  BY <1>1 DEF HandlerInv, Known, Resolved, IsTransfer
<1>3. Session(h)'
  BY <1>1 DEF HandlerInv, Session, Open
<1>4. Answered(h)'
  BY <1>1 DEF Answered, ShowsRecord, ByReference
<1> QED
  BY <1>2, <1>3, <1>4 DEF HandlerInv

\* Starting a transaction and drafting.
LEMMA DraftInv ==
  ASSUME TypeOK, LedgerWellFormed, NEW h \in Handler, HandlerInv(h), NEW D, Draft(h, D),
         DepositAttempt(h) \/ WithdrawalAttempt(h) \/ TransferAttempt(h) \/ FailureAttempt(h)
  PROVE  HandlerInv(h)'
PROOF
<1>1. /\ pc[h] = "attempt" /\ local[h].attempt < MaxRetries
  BY DEF DepositAttempt, WithdrawalAttempt, TransferAttempt, FailureAttempt, Attempting
<1>2. /\ pc'[h] = "insert" /\ snapshot'[h] = ledger /\ writes'[h] = {}
      /\ UNCHANGED <<ledger, req, local, answer>>
  BY <1>1 DEF Draft, BeginTransaction, Goto, TypeOK, StoreTypeOK, HandlerInv, Session, Open
<1>3. /\ Drafted(ledger, docs'[h]) /\ TransfersPaired(docs'[h])
      /\ \A d \in docs'[h] :
           /\ d.PhoneNumber = req[h].phone => d.ReferenceID = req[h].ref
           /\ local[h].errReason => d.PhoneNumber = req[h].phone
  BY DraftIsSound DEF HandlerInv
<1>4. Known(h)'
  BY <1>1, <1>2 DEF HandlerInv, Known, Resolved, IsTransfer
<1>5. OpenTransaction(h)'
  BY <1>2, <1>3 DEF OpenTransaction, OwnDocs, LedgerWellFormed
<1>6. Session(h)'
  BY <1>2, <1>5 DEF Session, Open
<1>7. Answered(h)'
  BY <1>2 DEF HandlerInv, Answered, ShowsRecord
<1> QED
  BY <1>4, <1>6, <1>7 DEF HandlerInv

\* A transaction that aborts takes everything it wrote with it.
LEMMA AbortInv ==
  ASSUME TypeOK, NEW h \in Handler, HandlerInv(h), Open(h), AbortTransaction(h),
         UNCHANGED <<req, answer>>,
         \/ pc'[h] \in {"lookup", "done"} /\ UNCHANGED local
         \/ /\ pc[h] \in {"insert", "commit"} /\ pc'[h] = "attempt"
            /\ local'[h].walletID = local[h].walletID
            /\ local'[h].receiverWalletID = local[h].receiverWalletID
            /\ local'[h].errReason = local[h].errReason
  PROVE  HandlerInv(h)'
PROOF
<1>1. writes'[h] = {} /\ UNCHANGED <<ledger, req, answer>>
  BY DEF AbortTransaction, TypeOK, StoreTypeOK
<1>2. Known(h)'
  BY <1>1 DEF HandlerInv, Known, Resolved, Open, IsTransfer
<1>3. Session(h)'
  BY <1>1 DEF Session, Open
<1>4. Answered(h)'
  BY <1>1 DEF HandlerInv, Answered, ShowsRecord
<1> QED
  BY <1>2, <1>3, <1>4 DEF HandlerInv

\* Inserting: the last document makes the transaction ready to commit.
LEMMA InsertInv ==
  ASSUME TypeOK, NEW h \in Handler, HandlerInv(h), Insert(h)
  PROVE  HandlerInv(h)'
PROOF
<1>1. PICK d \in Remaining(h) : InsertDocument(h, d) /\ Goto(h, AfterInsert(h, d))
  BY DEF Insert
<1>2. /\ pc[h] = "insert" /\ pc'[h] = AfterInsert(h, d)
      /\ writes'[h] = writes[h] \cup {d} /\ d \in docs[h]
      /\ UNCHANGED <<ledger, snapshot, docs, req, local, answer>>
  BY <1>1 DEF Insert, InsertDocument, Goto, Remaining, TypeOK, StoreTypeOK
<1>3. pc'[h] \in {"insert", "commit"} /\ (pc'[h] = "commit" => writes'[h] = docs'[h])
  BY <1>2 DEF AfterInsert, Remaining, HandlerInv, Session, Open, OpenTransaction
<1>4. Known(h)'
  BY <1>2, <1>3 DEF HandlerInv, Known, Resolved, IsTransfer
<1>5. OpenTransaction(h)'
  BY <1>2, <1>3 DEF HandlerInv, Session, Open, OpenTransaction, OwnDocs
<1>6. Session(h)'
  BY <1>3, <1>5 DEF Session, Open
<1>7. Answered(h)'
  BY <1>2 DEF HandlerInv, Answered, ShowsRecord
<1> QED
  BY <1>4, <1>6, <1>7 DEF HandlerInv

\* Committing: the drafted documents are on the ledger.
LEMMA CommitInv ==
  ASSUME TypeOK, NEW h \in Handler, HandlerInv(h), Commit(h) \/ OrphanCommits(h)
  PROVE  /\ HandlerInv(h)'
         /\ Open(h) /\ CommitTransaction(h) /\ writes[h] = docs[h]
PROOF
<1>1. /\ pc[h] \in {"commit", "orphan"} /\ pc'[h] \in {"committed", "done"}
      /\ CommitTransaction(h) /\ UNCHANGED <<req, local, answer>>
  BY DEF Commit, OrphanCommits, Goto, TypeOK
<1>2. Open(h) /\ writes[h] = docs[h]
  BY <1>1 DEF Open, HandlerInv, Session, OpenTransaction, Commit, OrphanCommits, Remaining
<1>3. ledger' = ledger \cup docs[h] /\ writes'[h] = {} /\ docs' = docs
  BY <1>1, <1>2 DEF CommitTransaction, TypeOK, StoreTypeOK
<1>4. Known(h)'
  BY <1>1, <1>3 DEF HandlerInv, Known, Resolved, Open, IsTransfer
<1>5. Session(h)'
  BY <1>1, <1>2, <1>3 DEF HandlerInv, Session, Open, OpenTransaction, OwnDocs
<1>6. Answered(h)'
  BY <1>1, <1>3 DEF HandlerInv, Answered, ShowsRecord, ByReference
<1> QED
  BY <1>1, <1>2, <1>4, <1>5, <1>6 DEF HandlerInv

\* Answering after the commit: the document shown is on the ledger.
LEMMA CommittedInv ==
  ASSUME TypeOK, NEW h \in Handler, HandlerInv(h), Committed(h)
  PROVE  HandlerInv(h)'
PROOF
<1>1. PICK d \in docs[h] : d.PhoneNumber = req[h].phone /\ RespondCommitted(h, d)
  BY DEF Committed
<1>2. /\ pc[h] = "committed" /\ pc'[h] = "done"
      /\ \/ answer'[h].result = "OK" /\ answer'[h].tx = d
         \/ answer'[h].result = "ErrHalfTransferFail"
      /\ UNCHANGED <<ledger, writes, req, local>>
  BY <1>1 DEF Committed, RespondCommitted, Respond, Goto, TypeOK
<1>3. d \in ledger /\ d.ReferenceID = req[h].ref
  BY <1>1, <1>2 DEF HandlerInv, Session, OwnDocs
<1>4. Known(h)'
  BY <1>2 DEF HandlerInv, Known, Resolved, IsTransfer
<1>5. Session(h)'
  BY <1>2 DEF HandlerInv, Session, Open
<1>6. Answered(h)'
  BY <1>2, <1>3 DEF Answered, ShowsRecord, ByReference
<1> QED
  BY <1>4, <1>5, <1>6 DEF HandlerInv

\* A duplicate reference: in the failure loop the key is on the ledger already.
LEMMA DuplicateReferenceInv ==
  ASSUME TypeOK, NEW h \in Handler, HandlerInv(h), DuplicateReference(h)
  PROVE  HandlerInv(h)'
PROOF
<1>1. PICK d \in Remaining(h) : ErrDuplicateReferenceID(h, d)
  BY DEF DuplicateReference
<1>2. pc[h] = "insert" /\ Open(h) /\ AbortTransaction(h) /\ UNCHANGED <<req, local>>
  BY <1>1 DEF DuplicateReference, Open, ErrDuplicateReferenceID
<1>3. CASE ~local[h].errReason
  <2>1. pc'[h] = "lookup" /\ UNCHANGED answer
    BY <1>3 DEF DuplicateReference, Goto, TypeOK
  <2> QED
    BY <1>2, <2>1, AbortInv
<1>4. CASE local[h].errReason
  <2>1. pc'[h] = "done" /\ answer'[h].result = "ErrHalfTransferFail"
    BY <1>4 DEF DuplicateReference, Respond, Goto, TypeOK
  <2>2. writes'[h] = {} /\ UNCHANGED ledger
    BY <1>2 DEF AbortTransaction, TypeOK, StoreTypeOK
  <2>3. /\ d \in docs[h] /\ d \notin writes[h] /\ writes[h] \subseteq docs[h]
        /\ Drafted(snapshot[h], docs[h]) /\ d.ReferenceID = req[h].ref
    BY <1>1, <1>2, <1>4 DEF Remaining, HandlerInv, Session, OpenTransaction, OwnDocs
  <2>4. PICK t \in ledger \cup writes[h] : t.ReferenceID = d.ReferenceID
    BY <1>1 DEF ErrDuplicateReferenceID, SameReference, ByReference
  <2>5. t \in ledger
    BY <2>3, <2>4 DEF Drafted
  <2>6. ByReference(ledger, req[h].ref)' # {}
    BY <1>2, <2>2, <2>3, <2>4, <2>5 DEF ByReference
  <2>7. Known(h)'
    BY <1>2, <2>1, <2>2 DEF HandlerInv, Known, Resolved, IsTransfer
  <2>8. Session(h)'
    BY <2>1, <2>2 DEF Session, Open
  <2>9. Answered(h)'
    BY <2>1, <2>6 DEF Answered
  <2> QED
    BY <2>7, <2>8, <2>9 DEF HandlerInv
<1> QED
  BY <1>3, <1>4

\* The steps before the transaction, which only move the handler along.
LEMMA BeforeTransactionInv ==
  ASSUME TypeOK, LedgerWellFormed, NEW h \in Handler, HandlerInv(h),
         \/ Receive(h) \/ RefuseSelfTransfer(h) \/ Replay(h) \/ FirstTransaction(h)
         \/ KnownPhone(h) \/ LookupReceiver(h) \/ WalletNotFound(h) \/ WalletFound(h)
  PROVE  HandlerInv(h)'
PROOF
<1>1. Known(h) /\ Session(h) /\ Answered(h)
  BY DEF HandlerInv
<1>2. pc[h] # "idle" => /\ req[h] \in Request /\ req[h].phone \in Phone
                        /\ IsTransfer(h) => req[h].receiver \in Phone
  BY <1>1, RequestTyped DEF Known
\* Whatever changes in the handler's locals, its session and answer do not.
<1>3. ASSUME pc[h] \in {"idle", "check", "receiver", "wallet"},
             pc'[h] \in {"check", "receiver", "wallet", "attempt"},
             UNCHANGED <<storeVars, answer>>,
             UNCHANGED req \/ answer[h].result = "Pending"
      PROVE  Session(h)' /\ Answered(h)'
  BY <1>1, <1>3 DEF Session, Answered, ShowsRecord, ByReference, Open, storeVars
<1>4. CASE Receive(h)
  <2>1. /\ pc[h] = "idle" /\ pc'[h] = "check" /\ req'[h] \in Request
        /\ UNCHANGED <<storeVars, local, answer>> /\ answer[h].result = "Pending"
    BY <1>1, <1>4 DEF Receive, Goto, TypeOK, Known
  <2>2. Known(h)'
    BY <1>1, <2>1 DEF Known, Resolved
  <2> QED
    BY <1>3, <2>1, <2>2 DEF HandlerInv
<1>5. CASE RefuseSelfTransfer(h) \/ WalletNotFound(h)
  BY <1>5, RefuseInv DEF RefuseSelfTransfer, WalletNotFound, Open
<1>6. CASE Replay(h)
  BY <1>6, RespondRecordedInv DEF Replay, Replays, Open
<1>7. CASE FirstTransaction(h)
  <2>1. CASE IsTransfer(h)
    BY <1>7, <2>1, RefuseInv DEF FirstTransaction, Open
  <2>2. CASE ~IsTransfer(h)
    <3>1. /\ pc[h] = "check" /\ pc'[h] = "wallet"
          /\ UNCHANGED <<storeVars, req, local, answer>>
      BY <1>7, <2>2 DEF FirstTransaction, Goto, TypeOK
    <3>2. Known(h)'
      BY <1>1, <2>2, <3>1 DEF Known, Resolved, IsTransfer
    <3> QED
      BY <1>3, <3>1, <3>2 DEF HandlerInv
  <2> QED
    BY <2>1, <2>2
<1>8. CASE KnownPhone(h)
  <2>1. /\ pc[h] = "check" /\ pc'[h] = (IF IsTransfer(h) THEN "receiver" ELSE "attempt")
        /\ History(ledger, req[h].phone) # {}
        /\ IsTransfer(h) => req[h].phone # req[h].receiver
        /\ local'[h].walletID = Latest(ledger, req[h].phone).WalletID
        /\ local'[h].errReason = local[h].errReason
        /\ UNCHANGED <<storeVars, req, answer>>
    BY <1>8 DEF KnownPhone, LatestTX, SelfTransfer, Goto, TypeOK, Local
  <2>2. local'[h].walletID # None
    BY <1>2, <2>1, LatestWalletTyped, LedgerAssumption
  <2>3. Known(h)'
    BY <1>1, <2>1, <2>2 DEF Known, Resolved, IsTransfer, History, storeVars
  <2> QED
    BY <1>3, <2>1, <2>3 DEF HandlerInv
<1>9. CASE LookupReceiver(h)
  <2>1. /\ pc[h] = "receiver" /\ UNCHANGED <<storeVars, req, answer>>
        /\ local'[h].walletID = local[h].walletID /\ local'[h].errReason = local[h].errReason
        /\ \/ pc'[h] = "wallet"
           \/ /\ pc'[h] = "attempt" /\ History(ledger, req[h].receiver) # {}
              /\ local'[h].receiverWalletID = Latest(ledger, req[h].receiver).WalletID
    BY <1>9 DEF LookupReceiver, Goto, TypeOK, Local
  <2>2. req[h].receiver \in Phone
    BY <1>1, <1>2, <2>1 DEF Known, IsTransfer
  <2>3. pc'[h] = "attempt" => local'[h].receiverWalletID # None
    BY <2>1, <2>2, LatestWalletTyped, LedgerAssumption
  <2>4. Known(h)'
    BY <1>1, <2>1, <2>3 DEF Known, Resolved, IsTransfer, History, storeVars
  <2> QED
    BY <1>3, <2>1, <2>4 DEF HandlerInv
<1>10. CASE WalletFound(h)
  <2>1. CASE req[h].op = TypeWithdrawal
    <3>1. Refuse(h, "ErrInsufficientBalance") /\ pc[h] = "wallet"
      BY <1>10, <2>1 DEF WalletFound
    <3> QED
      BY <3>1, RefuseInv DEF Open
  <2>2. CASE req[h].op # TypeWithdrawal
    <3>1. PICK w \in Wallets[WalletPhone(h)] \ {None} :
            /\ local' = IF IsTransfer(h)
                          THEN [local EXCEPT ![h].receiverWalletID = w]
                          ELSE [local EXCEPT ![h].walletID = w]
            /\ Goto(h, "attempt")
            /\ UNCHANGED <<storeVars, req, answer>>
      BY <1>10, <2>2 DEF WalletFound
    <3>2. /\ pc[h] = "wallet" /\ pc'[h] = "attempt" /\ w # None
          /\ UNCHANGED <<storeVars, req, answer>>
          /\ local'[h].errReason = local[h].errReason
          /\ IsTransfer(h) => /\ local'[h].receiverWalletID = w
                              /\ local'[h].walletID = local[h].walletID
          /\ ~IsTransfer(h) => local'[h].walletID = w
      BY <1>10, <3>1 DEF WalletFound, Goto, TypeOK, Local
    <3>3. Known(h)'
      BY <1>1, <3>2 DEF Known, Resolved, IsTransfer, History, storeVars
    <3> QED
      BY <1>3, <3>2, <3>3 DEF HandlerInv
  <2> QED
    BY <2>1, <2>2
<1> QED
  BY <1>4, <1>5, <1>6, <1>7, <1>8, <1>9, <1>10

\* The attempts and the end of the loop.
LEMMA AttemptInv ==
  ASSUME TypeOK, LedgerWellFormed, NEW h \in Handler, HandlerInv(h),
         \/ DepositAttempt(h) \/ WithdrawalAttempt(h) \/ TransferAttempt(h)
         \/ FailureAttempt(h) \/ Exhausted(h)
  PROVE  HandlerInv(h)'
PROOF
<1>1. pc[h] = "attempt" /\ ~Open(h)
  BY DEF DepositAttempt, WithdrawalAttempt, TransferAttempt, FailureAttempt, Exhausted,
         Attempting, Open
<1>2. ASSUME NEW error \in Refusal, Refuse(h, error)
      PROVE  HandlerInv(h)'
  BY <1>1, <1>2, RefuseInv DEF Refusal
<1>3. CASE Exhausted(h)
  BY <1>2, <1>3 DEF Exhausted, ExhaustedError, Refusal
<1>4. CASE DepositAttempt(h) \/ WithdrawalAttempt(h) \/ FailureAttempt(h)
  BY <1>2, <1>4, DraftInv DEF DepositAttempt, WithdrawalAttempt, FailureAttempt, Refusal
<1>5. CASE TransferAttempt(h)
  <2>1. CASE \E D : Draft(h, D)
    BY <1>5, <2>1, DraftInv
  <2>2. CASE \E error \in Refusal : Refuse(h, error)
    BY <1>2, <2>2
  <2>3. CASE /\ local' = [local EXCEPT ![h] =
                            [@ EXCEPT !.errReason = TRUE, !.attempt = 0, !.reruns = 0]]
             /\ UNCHANGED <<storeVars, pc, req, answer>>
    <3>1. /\ local'[h].walletID = local[h].walletID
          /\ local'[h].receiverWalletID = local[h].receiverWalletID
      BY <2>3 DEF TypeOK, Local
    <3>2. IsTransfer(h)
      BY <1>5 DEF TransferAttempt
    <3>3. Known(h)'
      BY <1>1, <2>3, <3>1, <3>2 DEF HandlerInv, Known, Resolved, IsTransfer, History, storeVars
    <3>4. Session(h)'
      BY <1>1, <2>3 DEF HandlerInv, Session, Open, storeVars
    <3>5. Answered(h)'
      BY <2>3 DEF HandlerInv, Answered, ShowsRecord, ByReference, storeVars
    <3> QED
      BY <3>3, <3>4, <3>5 DEF HandlerInv
  <2> QED
    BY <1>5, <2>1, <2>2, <2>3 DEF TransferAttempt, Refusal
<1> QED
  BY <1>3, <1>4, <1>5

\* Every step of h keeps what is said of h.
LEMMA StepInv ==
  ASSUME TypeOK, LedgerWellFormed, NEW h \in Handler, HandlerInv(h), StepOf(h)
  PROVE  HandlerInv(h)'
PROOF
<1>1. CASE DuplicateSequence(h) \/ TransientError(h) \/ OrphanAborts(h)
  <2>1. Open(h) /\ AbortTransaction(h) /\ UNCHANGED <<req, answer>>
    BY <1>1 DEF DuplicateSequence, ErrDuplicateSequence, TransientError, OrphanAborts, Open
  <2>2. CASE OrphanAborts(h)
    <3>1. pc'[h] = "done" /\ UNCHANGED local
      BY <2>2 DEF OrphanAborts, Goto, TypeOK
    <3> QED
      BY <2>1, <3>1, AbortInv
  <2>3. CASE DuplicateSequence(h) \/ TransientError(h)
    <3>1. local[h] \in Local /\ DOMAIN local = Handler /\ DOMAIN pc = Handler
      BY DEF TypeOK
    <3>2. pc[h] \in {"insert", "commit"} /\ pc'[h] = "attempt"
      BY <2>3, <3>1 DEF DuplicateSequence, TransientError, Goto
    <3>3. CASE DuplicateSequence(h)
      <4>1. local'[h] = [local[h] EXCEPT !.attempt = NextAttempt(h), !.reruns = 0]
        BY <3>1, <3>3 DEF DuplicateSequence
      <4> QED
        BY <2>1, <3>1, <3>2, <4>1, AbortInv DEF Local
    <3>4. CASE TransientError(h)
      <4>1. local'[h] = [local[h] EXCEPT !.reruns = @ + 1]
        BY <3>1, <3>4 DEF TransientError
      <4> QED
        BY <2>1, <3>1, <3>2, <4>1, AbortInv DEF Local
    <3> QED
      BY <2>3, <3>3, <3>4
  <2> QED
    BY <1>1, <2>2, <2>3
<1>2. CASE Lookup(h)
  <2>1. pc[h] = "lookup" /\ ~Open(h)
    BY <1>2 DEF Lookup, Open
  <2> QED
    BY <1>2, <2>1, RespondRecordedInv, RefuseInv DEF Lookup
<1>3. CASE Break(h)
  <2>1. /\ pc[h] \notin {"idle", "orphan", "done"} /\ UNCHANGED <<storeVars, req, local>>
        /\ pc'[h] = (IF pc[h] \in {"insert", "commit"} THEN "orphan" ELSE "done")
        /\ answer'[h].result \in {"InternalError", "NoReply"}
    BY <1>3 DEF Break, Goto, TypeOK
  <2>2. Known(h)'
    BY <2>1 DEF HandlerInv, Known, Resolved, IsTransfer, History, storeVars
  <2>3. Session(h)'
    BY <2>1 DEF HandlerInv, Session, Open, OpenTransaction, OwnDocs, storeVars
  <2>4. Answered(h)'
    BY <2>1 DEF Answered
  <2> QED
    BY <2>2, <2>3, <2>4 DEF HandlerInv
<1> QED
  BY <1>1, <1>2, <1>3, BeforeTransactionInv, AttemptInv, InsertInv, DuplicateReferenceInv,
     CommitInv, CommittedInv DEF StepOf, Step, Failure

-----------------------------------------------------------------------------
(* The whole invariant. *)

\* The index entries of uncommitted documents stay theirs: an insert takes only
\* free ones, and a commit turns one session's into the ledger's.
LEMMA StepHoldsEntries ==
  ASSUME ServiceInv, NEW h \in Handler, StepOf(h)
  PROVE  IndexEntriesHeld'
PROOF
<1>1. \A g \in Handler \ {h} : writes'[g] = writes[g]
  BY StepIsLocal DEF ServiceInv, Untouched
<1>2. IndexEntriesHeld /\ TypeOK /\ HandlerInv(h)
  BY DEF ServiceInv
<1>3. CASE UNCHANGED ledger /\ writes'[h] \subseteq writes[h]
  BY <1>1, <1>2, <1>3 DEF IndexEntriesHeld
<1>4. CASE Insert(h)
  <2>1. PICK d \in Remaining(h) : InsertDocument(h, d)
    BY <1>4 DEF Insert
  <2>2. writes'[h] = writes[h] \cup {d} /\ UNCHANGED ledger
    BY <1>2, <2>1 DEF InsertDocument, TypeOK, StoreTypeOK
  <2>3. \A t \in ledger : ~SameIndexKey(t, d)
    BY <2>1 DEF InsertDocument, SameReference, Conflicts, ByReference, SameIndexKey
  <2>4. \A g \in Handler \ {h} : \A t \in writes[g] : ~SameIndexKey(t, d) /\ ~SameIndexKey(d, t)
    BY <2>1 DEF InsertDocument, Conflicts, Uncommitted, SameIndexKey, SameSequence
  <2> QED
    BY <1>1, <1>2, <2>2, <2>3, <2>4 DEF IndexEntriesHeld
<1>5. CASE Commit(h) \/ OrphanCommits(h)
  <2>1. ledger' = ledger \cup writes[h] /\ writes'[h] = {}
    BY <1>2, <1>5 DEF Commit, OrphanCommits, CommitTransaction, TypeOK, StoreTypeOK
  <2> QED
    BY <1>1, <1>2, <2>1 DEF IndexEntriesHeld
<1>6. CASE AbortTransaction(h)
  BY <1>2, <1>3, <1>6 DEF AbortTransaction, TypeOK, StoreTypeOK
<1>7. CASE UNCHANGED <<ledger, writes>>
  BY <1>3, <1>7
<1>8. CASE \/ DepositAttempt(h) \/ WithdrawalAttempt(h) \/ TransferAttempt(h)
           \/ FailureAttempt(h) \/ Committed(h)
  BY <1>7, <1>8 DEF DepositAttempt, WithdrawalAttempt, TransferAttempt, FailureAttempt, Committed,
                    Draft, BeginTransaction, Refuse, storeVars
<1>9. CASE \/ RefuseSelfTransfer(h) \/ Replay(h) \/ FirstTransaction(h) \/ KnownPhone(h)
           \/ LookupReceiver(h) \/ WalletNotFound(h) \/ WalletFound(h)
  BY <1>7, <1>9 DEF RefuseSelfTransfer, Replay, FirstTransaction, KnownPhone, LookupReceiver,
                    WalletNotFound, WalletFound, Refuse, RespondRecorded, storeVars
<1>10. CASE Receive(h) \/ Exhausted(h) \/ Lookup(h) \/ Break(h)
  BY <1>7, <1>10 DEF Receive, Exhausted, Lookup, Break, Refuse, RespondRecorded, storeVars
<1> QED
  BY <1>4, <1>5, <1>6, <1>8, <1>9, <1>10
     DEF StepOf, Step, Failure, DuplicateReference, DuplicateSequence, ErrDuplicateReferenceID,
         ErrDuplicateSequence, TransientError, OrphanAborts

\* Only a commit changes the ledger.
LEMMA StepKeepsLedger ==
  ASSUME ServiceInv, NEW h \in Handler, StepOf(h)
  PROVE  LedgerWellFormed' /\ TransfersAtomic'
PROOF
<1>1. CASE Commit(h) \/ OrphanCommits(h)
  <2>1. TypeOK /\ HandlerInv(h)
    BY DEF ServiceInv
  <2>2. Open(h) /\ CommitTransaction(h) /\ writes[h] = docs[h]
    BY <1>1, <2>1, CommitInv
  <2> QED
    BY <2>2, CommitsWellFormed
<1>2. CASE UNCHANGED ledger
  BY <1>2 DEF ServiceInv, LedgerWellFormed, TransfersAtomic
<1>3. CASE ~(Commit(h) \/ OrphanCommits(h))
  <2>1. UNCHANGED ledger
    BY <1>3 DEF StepOf, Step, Failure, Receive, RefuseSelfTransfer, Replay, FirstTransaction,
                KnownPhone, LookupReceiver, WalletNotFound, WalletFound, DepositAttempt,
                WithdrawalAttempt, TransferAttempt, FailureAttempt, Exhausted, Insert,
                InsertDocument, DuplicateReference, DuplicateSequence, ErrDuplicateReferenceID,
                ErrDuplicateSequence, AbortTransaction, Lookup, Committed, TransientError, Break,
                OrphanAborts, Refuse, RespondRecorded, Draft, BeginTransaction, storeVars
  <2> QED
    BY <1>2, <2>1
<1> QED
  BY <1>1, <1>3

\* The seeds the service may be started on, with every handler idle, satisfy the
\* invariant.
LEMMA InitEstablishes == Init => ServiceInv
PROOF
<1> SUFFICES ASSUME Init
             PROVE  ServiceInv
  OBVIOUS
<1>1. ledger \subseteq Transaction /\ WellFormed(ledger) /\ TransfersPaired(ledger)
  BY ServiceAssumption DEF Init
<1>2. TypeOK
  BY <1>1, ServiceAssumption
     DEF Init, TypeOK, StoreTypeOK, NoTransactions, Control, Local, Result
<1>3. \A h \in Handler : HandlerInv(h)
  BY DEF Init, NoTransactions, HandlerInv, Known, Session, Answered, Resolved, Open
<1>4. IndexEntriesHeld
  BY DEF Init, NoTransactions, IndexEntriesHeld
<1> QED
  BY <1>1, <1>2, <1>3, <1>4 DEF ServiceInv, LedgerWellFormed, TransfersAtomic

\* The invariant is inductive: the stepping handler keeps what is said of it, the
\* others lose nothing, and only a commit changes the ledger.
LEMMA NextKeeps == ServiceInv /\ [Next]_vars => ServiceInv'
PROOF
<1> SUFFICES ASSUME ServiceInv, [Next]_vars
             PROVE  ServiceInv'
  OBVIOUS
<1>1. CASE UNCHANGED vars
  BY <1>1 DEF vars, storeVars, serviceVars, ServiceInv, TypeOK, StoreTypeOK, LedgerWellFormed,
              TransfersAtomic, HandlerInv, Known, Session, Answered, Resolved, Open,
              OpenTransaction, OwnDocs, ShowsRecord, IsTransfer, IndexEntriesHeld
<1>2. ASSUME NEW h \in Handler, StepOf(h)
      PROVE  ServiceInv'
  <2>1. TypeOK /\ LedgerWellFormed /\ \A g \in Handler : HandlerInv(g)
    BY DEF ServiceInv
  <2>2. TypeOK'
    BY <1>2, <2>1, StepTyped
  <2>3. LedgerWellFormed' /\ TransfersAtomic'
    BY <1>2, StepKeepsLedger
  <2>4. ASSUME NEW g \in Handler
        PROVE  HandlerInv(g)'
    <3>1. CASE g = h
      BY <1>2, <2>1, <3>1, StepInv
    <3>2. CASE g # h
      BY <1>2, <2>1, <3>2, StepIsLocal, OtherHandlers
    <3> QED
      BY <3>1, <3>2
  <2>5. IndexEntriesHeld'
    BY <1>2, StepHoldsEntries
  <2> QED
    BY <2>2, <2>3, <2>4, <2>5 DEF ServiceInv
<1> QED
  BY <1>1, <1>2 DEF Next, StepOf

\* ServiceInv holds in every state the service reaches.
THEOREM Invariance == Spec => []ServiceInv
PROOF
  BY InitEstablishes, NextKeeps, PTL DEF Spec

\* Every variable keeps its type.
THEOREM TypeCorrect == Spec => []TypeOK
PROOF
<1>1. ServiceInv => TypeOK
  BY DEF ServiceInv
<1> QED
  BY <1>1, Invariance, PTL

\* Each phone's records stay one gapless chain of balances within the limits,
\* for any number of racing, retrying, crashing handlers.
THEOREM LedgerCorrect == Spec => []LedgerWellFormed
PROOF
<1>1. ServiceInv => LedgerWellFormed
  BY DEF ServiceInv
<1> QED
  BY <1>1, Invariance, PTL

\* No committed state shows one leg of a posted transfer without the other.
THEOREM TransferAtomicity == Spec => []TransfersAtomic
PROOF
<1>1. ServiceInv => TransfersAtomic
  BY DEF ServiceInv
<1> QED
  BY <1>1, Invariance, PTL

\* A success response shows a committed record of the request's key.
THEOREM SuccessCorrect == Spec => []SuccessIsRecorded
PROOF
<1>1. ServiceInv => SuccessIsRecorded
  BY DEF ServiceInv, HandlerInv, Answered, SuccessIsRecorded
<1> QED
  BY <1>1, Invariance, PTL

\* "Receiver could not accept the transfer" is only answered under a key that is
\* on record.
THEOREM HalfTransferCorrect == Spec => []HalfTransferIsRecorded
PROOF
<1>1. ServiceInv => HalfTransferIsRecorded
  BY DEF ServiceInv, HandlerInv, Answered, HalfTransferIsRecorded
<1> QED
  BY <1>1, Invariance, PTL
=============================================================================
