--------------------------- MODULE OriginTheorems ---------------------------
(***************************************************************************)
(* Where records and wallet ids come from.  OriginInv says that a record   *)
(* was made for some request that was not refused; it is inductive on top  *)
(* of ServiceInv, and a refused request therefore left nothing behind.     *)
(* WalletInv(W) says that every wallet id is the one W gives its phone.    *)
(* Without assuming anything of Wallet, a phone's wallet id settles.       *)
(***************************************************************************)
EXTENDS ServiceTheorems

\* The record drafted for either phone of a request is made for that request.
LEMMA EntryMadeFor ==
  ASSUME NEW r, r.phone \in Phone,
         r.op = TypeTransfer => r.receiver \in Phone /\ r.phone # r.receiver,
         NEW S, NEW status, NEW wallet, NEW delta, NEW p, NEW ref,
         status = StatusFailed => r.op = TypeTransfer,
         \/ p = r.phone /\ ref = r.ref
         \/ /\ r.op = TypeTransfer /\ status = StatusCompleted
            /\ p = r.receiver /\ ref = ReceiverRef(r.ref)
  PROVE  MadeFor(r, Entry(S, r, p, ref, status, wallet, delta))
PROOF
  BY LedgerAssumption DEF MadeFor, Entry, PhonesOf, StatusCompleted, StatusFailed

\* An attempt drafts documents for its own request.
LEMMA DraftsMadeFor ==
  ASSUME TypeOK, NEW h \in Handler, HandlerInv(h), NEW D, Draft(h, D),
         DepositAttempt(h) \/ WithdrawalAttempt(h) \/ TransferAttempt(h) \/ FailureAttempt(h)
  PROVE  \A d \in docs'[h] : MadeFor(req[h], d)
PROOF
<1> DEFINE r == req[h]
<1>1. docs'[h] = D /\ pc'[h] = "insert" /\ pc[h] = "attempt"
  BY DEF Draft, BeginTransaction, Goto, TypeOK, StoreTypeOK, DepositAttempt, WithdrawalAttempt,
         TransferAttempt, FailureAttempt, Attempting
<1>2. r.phone \in Phone /\ (r.op = TypeTransfer => r.receiver \in Phone /\ r.phone # r.receiver)
  <2>1. req[h] \in Request /\ (IsTransfer(h) => r.phone # r.receiver)
    BY <1>1 DEF HandlerInv, Known, Resolved
  <2> QED
    BY <2>1, RequestTyped DEF IsTransfer
<1>3. ~ \E error : Refuse(h, error)
  BY <1>1 DEF Refuse, Respond, Goto, TypeOK
<1>4. pc' # pc
  BY <1>1
<1>5. \A E : Draft(h, E) => D = E
  BY <1>1 DEF Draft, BeginTransaction, TypeOK, StoreTypeOK
<1>6. CASE DepositAttempt(h)
  <2>1. D = {Entry(ledger, r, r.phone, r.ref, StatusCompleted, local[h].walletID, r.amount)}
    BY <1>3, <1>5, <1>6 DEF DepositAttempt
  <2> QED
    BY <1>1, <1>2, <2>1, EntryMadeFor DEF StatusCompleted, StatusFailed
<1>7. CASE WithdrawalAttempt(h)
  <2>1. D = {Entry(ledger, r, r.phone, r.ref, StatusCompleted, local[h].walletID, -r.amount)}
    BY <1>3, <1>5, <1>7 DEF WithdrawalAttempt
  <2> QED
    BY <1>1, <1>2, <2>1, EntryMadeFor DEF StatusCompleted, StatusFailed
<1>8. CASE TransferAttempt(h)
  <2>1. D = {Entry(ledger, r, r.receiver, ReceiverRef(r.ref), StatusCompleted,
                   local[h].receiverWalletID, r.amount),
             Entry(ledger, r, r.phone, r.ref, StatusCompleted, local[h].walletID, -r.amount)}
    BY <1>3, <1>4, <1>5, <1>8 DEF TransferAttempt
  <2>2. r.op = TypeTransfer
    BY <1>8 DEF TransferAttempt, IsTransfer
  <2>3. /\ MadeFor(r, Entry(ledger, r, r.receiver, ReceiverRef(r.ref), StatusCompleted,
                            local[h].receiverWalletID, r.amount))
        /\ MadeFor(r, Entry(ledger, r, r.phone, r.ref, StatusCompleted, local[h].walletID,
                            -r.amount))
    BY <1>2, <2>2, EntryMadeFor
  <2> QED
    BY <1>1, <2>1, <2>3
<1>9. CASE FailureAttempt(h)
  <2>1. D = {Entry(ledger, r, r.phone, r.ref, StatusFailed, Latest(ledger, r.phone).WalletID, 0)}
    BY <1>5, <1>9 DEF FailureAttempt
  <2>2. r.op = TypeTransfer
    BY <1>9 DEF FailureAttempt, HandlerInv, Known, IsTransfer
  <2> QED
    BY <1>1, <1>2, <2>1, <2>2, EntryMadeFor
<1> QED
  BY <1>6, <1>7, <1>8, <1>9

\* What a step of h may do to the facts about h: its request stays once it is
\* read, and a transaction that may have been committed stays one.
LEMMA StepOrigin ==
  ASSUME TypeOK, NEW h \in Handler, HandlerInv(h), AnswerInv(h), DocsMadeFor(h), StepOf(h)
  PROVE  /\ AnswerInv(h)' /\ DocsMadeFor(h)'
         /\ MayHaveCommitted(h) => MayHaveCommitted(h)' /\ req'[h] = req[h]
PROOF
<1> DEFINE Goal == /\ AnswerInv(h)' /\ DocsMadeFor(h)'
                   /\ MayHaveCommitted(h) => MayHaveCommitted(h)' /\ req'[h] = req[h]
<1> USE DEF TypeOK, StoreTypeOK, Goto
<1>1. ASSUME pc[h] \notin {"committed", "orphan", "done"}, pc'[h] = "done"
      PROVE  Goal
  BY <1>1 DEF AnswerInv, DocsMadeFor, MayHaveCommitted, Open
<1>2. ASSUME NEW error, Refuse(h, error), pc[h] \notin {"committed", "orphan", "done"}
      PROVE  Goal
  BY <1>1, <1>2 DEF Refuse, Respond
<1>3. ASSUME pc[h] \notin {"committed", "orphan", "done"}, UNCHANGED answer,
             pc'[h] \in {"check", "receiver", "wallet", "attempt", "lookup"}
      PROVE  Goal
  BY <1>3 DEF AnswerInv, DocsMadeFor, MayHaveCommitted, Open
<1>4. CASE Receive(h) \/ KnownPhone(h) \/ LookupReceiver(h)
  BY <1>3, <1>4 DEF Receive, KnownPhone, LookupReceiver
<1>5. CASE RefuseSelfTransfer(h) \/ WalletNotFound(h) \/ Exhausted(h)
  BY <1>2, <1>5 DEF RefuseSelfTransfer, WalletNotFound, Exhausted
<1>6. CASE Replay(h) \/ Lookup(h)
  BY <1>1, <1>2, <1>6 DEF Replay, Lookup, RespondRecorded, Respond
<1>7. CASE FirstTransaction(h) \/ WalletFound(h)
  BY <1>2, <1>3, <1>7 DEF FirstTransaction, WalletFound
<1>8. CASE DepositAttempt(h) \/ WithdrawalAttempt(h) \/ TransferAttempt(h) \/ FailureAttempt(h)
  <2>1. pc[h] = "attempt"
    BY <1>8 DEF DepositAttempt, WithdrawalAttempt, TransferAttempt, FailureAttempt, Attempting
  <2>2. CASE \E error : Refuse(h, error)
    BY <1>2, <2>1, <2>2
  <2>3. CASE UNCHANGED <<pc, answer>>
    BY <1>3, <2>1, <2>3
  <2>4. ASSUME NEW D, Draft(h, D)
        PROVE  Goal
    <3>1. \A d \in docs'[h] : MadeFor(req[h], d)
      BY <1>8, <2>4, DraftsMadeFor
    <3>2. pc'[h] = "insert" /\ UNCHANGED <<req, answer>>
      BY <2>4 DEF Draft
    <3> QED
      BY <2>1, <3>1, <3>2 DEF AnswerInv, DocsMadeFor, MayHaveCommitted
  <2> QED
    BY <1>8, <2>2, <2>3, <2>4
       DEF DepositAttempt, WithdrawalAttempt, TransferAttempt, FailureAttempt
<1>9. CASE Insert(h)
  <2>1. /\ pc[h] = "insert" /\ pc'[h] \in {"insert", "commit"} /\ UNCHANGED <<docs, req, answer>>
    BY <1>9 DEF Insert, InsertDocument, AfterInsert
  <2> QED
    BY <2>1 DEF AnswerInv, DocsMadeFor, MayHaveCommitted, Open
<1>10. CASE DuplicateReference(h)
  BY <1>1, <1>3, <1>10 DEF DuplicateReference, Respond
<1>11. CASE DuplicateSequence(h) \/ TransientError(h)
  BY <1>3, <1>11 DEF DuplicateSequence, TransientError
<1>12. CASE Commit(h) \/ OrphanCommits(h)
  <2>1. /\ \/ pc[h] = "commit" /\ pc'[h] = "committed"
           \/ pc[h] = "orphan" /\ pc'[h] = "done"
        /\ UNCHANGED <<docs, req, answer>>
    BY <1>12 DEF Commit, OrphanCommits, CommitTransaction
  <2> QED
    BY <2>1 DEF AnswerInv, DocsMadeFor, MayHaveCommitted, Open
<1>13. CASE Committed(h)
  <2>1. /\ pc[h] = "committed" /\ pc'[h] = "done" /\ UNCHANGED req
        /\ answer'[h].result \in {"OK", "ErrHalfTransferFail"}
    BY <1>13 DEF Committed, RespondCommitted, Respond
  <2> QED
    BY <2>1 DEF AnswerInv, DocsMadeFor, MayHaveCommitted, Open
<1>14. CASE Break(h)
  <2>1. /\ pc[h] \notin {"idle", "orphan", "done"} /\ UNCHANGED <<docs, req>>
        /\ pc'[h] = (IF pc[h] \in {"insert", "commit"} THEN "orphan" ELSE "done")
        /\ answer'[h].result \in {"InternalError", "NoReply"}
    BY <1>14 DEF Break, storeVars
  <2> QED
    BY <2>1 DEF AnswerInv, DocsMadeFor, MayHaveCommitted, Open
<1>15. CASE OrphanAborts(h)
  <2>1. pc[h] = "orphan" /\ pc'[h] = "done" /\ UNCHANGED <<req, answer>>
    BY <1>15 DEF OrphanAborts
  <2> QED
    BY <2>1 DEF AnswerInv, DocsMadeFor, MayHaveCommitted, Open
<1> QED
  BY <1>4, <1>5, <1>6, <1>7, <1>8, <1>9, <1>10, <1>11, <1>12, <1>13, <1>14, <1>15
     DEF StepOf, Step, Failure

\* What a step adds to the ledger are the documents of the committing session.
LEMMA StepAdds ==
  ASSUME TypeOK, NEW h \in Handler, HandlerInv(h), StepOf(h), NEW t \in ledger' \ ledger
  PROVE  t \in docs[h] /\ Open(h) /\ (Commit(h) \/ OrphanCommits(h))
PROOF
<1>1. Commit(h) \/ OrphanCommits(h)
  BY DEF StepOf, Step, Failure, Receive, RefuseSelfTransfer, Replay, FirstTransaction,
         KnownPhone, LookupReceiver, WalletNotFound, WalletFound, DepositAttempt,
         WithdrawalAttempt, TransferAttempt, FailureAttempt, Exhausted, Insert,
         InsertDocument, DuplicateReference, DuplicateSequence, ErrDuplicateReferenceID,
         ErrDuplicateSequence, AbortTransaction, Lookup, Committed, TransientError, Break,
         OrphanAborts, Refuse, RespondRecorded, Draft, BeginTransaction, storeVars
<1>2. Open(h) /\ CommitTransaction(h) /\ writes[h] = docs[h]
  BY <1>1, CommitInv
<1> QED
  BY <1>1, <1>2 DEF CommitTransaction

\* Every committed record has its origin, in every reachable state.
LEMMA OriginKept ==
  ASSUME ServiceInv, OriginInv, NEW h \in Handler, StepOf(h)
  PROVE  OriginInv'
PROOF
<1>1. /\ TypeOK /\ HandlerInv(h) /\ AnswerInv(h) /\ DocsMadeFor(h)
      /\ \A t \in ledger : Origin(t)
  BY DEF ServiceInv, OriginInv
<1>2. /\ AnswerInv(h)' /\ DocsMadeFor(h)'
      /\ MayHaveCommitted(h) => MayHaveCommitted(h)' /\ req'[h] = req[h]
  BY <1>1, StepOrigin
<1>3. \A g \in Handler \ {h} : Untouched(g)
  BY <1>1, StepIsLocal
<1>4. \A g \in Handler : AnswerInv(g)' /\ DocsMadeFor(g)'
  <2>1. ASSUME NEW g \in Handler \ {h}
        PROVE  AnswerInv(g)' /\ DocsMadeFor(g)'
    BY <1>3, <2>1 DEF OriginInv, AnswerInv, DocsMadeFor, Open, Untouched
  <2> QED
    BY <1>2, <2>1
<1>5. ASSUME NEW t \in ledger
      PROVE  Origin(t)'
  <2>1. CASE \E S \in Seeds : t \in S
    BY <2>1 DEF Origin
  <2>2. ASSUME NEW g \in Handler, req[g] \in Request, MadeFor(req[g], t), MayHaveCommitted(g)
        PROVE  Origin(t)'
    <3>1. req'[g] = req[g] /\ MayHaveCommitted(g)'
      BY <1>2, <1>3, <2>2 DEF Untouched, MayHaveCommitted
    <3> QED
      BY <2>2, <3>1 DEF Origin
  <2> QED
    BY <1>1, <1>5, <2>1, <2>2 DEF Origin
<1>6. ASSUME NEW t \in ledger' \ ledger
      PROVE  Origin(t)'
  <2>1. t \in docs[h] /\ Open(h) /\ (Commit(h) \/ OrphanCommits(h))
    BY <1>1, <1>6, StepAdds
  <2>2. MadeFor(req[h], t) /\ req[h] \in Request
    BY <1>1, <2>1 DEF DocsMadeFor, Open, HandlerInv, Known
  <2>3. UNCHANGED <<req, answer>> /\ (pc'[h] = "committed" \/ (pc[h] = "orphan" /\ pc'[h] = "done"))
    BY <1>1, <2>1 DEF Commit, OrphanCommits, Goto, TypeOK
  <2>4. MayHaveCommitted(h)'
    BY <1>1, <2>3 DEF MayHaveCommitted, AnswerInv
  <2> QED
    BY <2>2, <2>3, <2>4 DEF Origin
<1> QED
  BY <1>4, <1>5, <1>6 DEF OriginInv

\* OriginInv holds in every state the service reaches.
THEOREM Origins == Spec => []OriginInv
PROOF
<1>1. Init => OriginInv
  BY DEF Init, NoTransactions, OriginInv, AnswerInv, DocsMadeFor, Open, Origin
<1>2. ServiceInv /\ OriginInv /\ [Next]_vars => OriginInv'
  <2> SUFFICES ASSUME ServiceInv, OriginInv, [Next]_vars
               PROVE  OriginInv'
    OBVIOUS
  <2>1. CASE UNCHANGED vars
    BY <2>1 DEF vars, storeVars, serviceVars, OriginInv, AnswerInv, DocsMadeFor, Open, Origin,
                MayHaveCommitted
  <2>2. CASE Next
    BY <2>2, OriginKept DEF Next, StepOf
  <2> QED
    BY <2>1, <2>2
<1> QED
  BY <1>1, <1>2, Invariance, PTL DEF Spec

\* A refused request has left nothing under a key that is only its own, so the
\* client may send it again: for any handlers, requests, races and crashes.
THEOREM RefusalCorrect == Spec => []RefusalLeavesNoTrace
PROOF
<1>1. ServiceInv /\ OriginInv => RefusalLeavesNoTrace
  <2> SUFFICES ASSUME ServiceInv, OriginInv, NEW h \in Handler,
                      answer[h].result \in Refusal, KeyIsOnlyOf(h),
                      NEW t \in ledger \cup UNION {writes[g] : g \in Handler},
                      t.ReferenceID = req[h].ref
               PROVE  FALSE
    BY DEF RefusalLeavesNoTrace, ByReference
  <2>1. \A g \in Handler : HandlerInv(g) /\ AnswerInv(g) /\ DocsMadeFor(g)
    BY DEF ServiceInv, OriginInv
  <2>2. pc[h] = "done" /\ ~MayHaveCommitted(h)
    BY <2>1 DEF AnswerInv, Refusal, MayHaveCommitted
  <2>3. ASSUME NEW g \in Handler \ {h}, req[g] \in Request
        PROVE  ~MadeFor(req[g], t)
    BY <2>3 DEF KeyIsOnlyOf, MadeFor, IsTransfer
  <2>4. CASE t \in ledger
    <3>1. Origin(t)
      BY <2>4 DEF OriginInv
    <3>2. ~ \E S \in Seeds : t \in S
      BY DEF KeyIsOnlyOf, ByReference
    <3> QED
      BY <2>2, <2>3, <3>1, <3>2 DEF Origin
  <2>5. ASSUME NEW g \in Handler, t \in writes[g]
        PROVE  FALSE
    <3>1. Open(g) /\ t \in docs[g]
      BY <2>1, <2>5 DEF HandlerInv, Session, OpenTransaction
    <3>2. MadeFor(req[g], t) /\ req[g] \in Request
      BY <2>1, <3>1 DEF DocsMadeFor, HandlerInv, Known, Open
    <3>3. g # h
      BY <2>2, <3>1 DEF Open
    <3> QED
      BY <2>3, <3>2, <3>3
  <2> QED
    BY <2>4, <2>5
<1> QED
  BY <1>1, Invariance, Origins, PTL

-----------------------------------------------------------------------------
(* Wallet ids. *)

\* Wallet answers W's id for a phone or "not found", then and ever, and the
\* initial ledger agrees: no wallet is recreated under another id.
WalletsStable(W) ==
  /\ \A p \in Phone : Wallets[p] \subseteq {W[p], None}
  /\ \A S \in Seeds : \A t \in S : t.WalletID = W[t.PhoneNumber]

\* The wallet id read off a phone's latest record is W's.
LEMMA LatestWalletIsOf ==
  ASSUME TypeOK, LedgerWellFormed, NEW W, \A t \in ledger : t.WalletID = W[t.PhoneNumber],
         NEW p \in Phone, History(ledger, p) # {}
  PROVE  Latest(ledger, p).WalletID = W[p]
PROOF
<1>1. Latest(ledger, p) \in History(ledger, p)
  BY LatestIsTip DEF TypeOK, StoreTypeOK, LedgerWellFormed, WellFormed
<1> QED
  BY <1>1 DEF History

\* What an attempt drafts carries the wallet ids the handler has learnt.
LEMMA DraftsWalletOf ==
  ASSUME TypeOK, LedgerWellFormed, NEW h \in Handler, HandlerInv(h), NEW W,
         \A t \in ledger : t.WalletID = W[t.PhoneNumber], HoldsWalletOf(h, W),
         NEW D, Draft(h, D),
         DepositAttempt(h) \/ WithdrawalAttempt(h) \/ TransferAttempt(h) \/ FailureAttempt(h)
  PROVE  \A d \in docs'[h] : d.WalletID = W[d.PhoneNumber]
PROOF
<1> DEFINE r == req[h]
<1>1. docs'[h] = D /\ pc'[h] = "insert" /\ pc[h] = "attempt"
  BY DEF Draft, BeginTransaction, Goto, TypeOK, StoreTypeOK, DepositAttempt, WithdrawalAttempt,
         TransferAttempt, FailureAttempt, Attempting
<1>2. (~ \E error : Refuse(h, error)) /\ pc' # pc
  BY <1>1 DEF Refuse, Respond, Goto, TypeOK
<1>3. \A E : Draft(h, E) => D = E
  BY <1>1 DEF Draft, BeginTransaction, TypeOK, StoreTypeOK
<1>4. r \in Request /\ local[h].walletID = W[r.phone]
      /\ (IsTransfer(h) => local[h].receiverWalletID = W[r.receiver])
  BY <1>1 DEF HandlerInv, Known, Resolved, HoldsWalletOf
<1>5. CASE DepositAttempt(h)
  <2>1. D = {Entry(ledger, r, r.phone, r.ref, StatusCompleted, local[h].walletID, r.amount)}
    BY <1>2, <1>3, <1>5 DEF DepositAttempt
  <2> QED
    BY <1>1, <1>4, <2>1 DEF Entry
<1>6. CASE WithdrawalAttempt(h)
  <2>1. D = {Entry(ledger, r, r.phone, r.ref, StatusCompleted, local[h].walletID, -r.amount)}
    BY <1>2, <1>3, <1>6 DEF WithdrawalAttempt
  <2> QED
    BY <1>1, <1>4, <2>1 DEF Entry
<1>7. CASE TransferAttempt(h)
  <2>1. D = {Entry(ledger, r, r.receiver, ReceiverRef(r.ref), StatusCompleted,
                   local[h].receiverWalletID, r.amount),
             Entry(ledger, r, r.phone, r.ref, StatusCompleted, local[h].walletID, -r.amount)}
    BY <1>2, <1>3, <1>7 DEF TransferAttempt
  <2>2. IsTransfer(h)
    BY <1>7 DEF TransferAttempt
  <2> QED
    BY <1>1, <1>4, <2>1, <2>2 DEF Entry
<1>8. CASE FailureAttempt(h)
  <2>1. D = {Entry(ledger, r, r.phone, r.ref, StatusFailed, Latest(ledger, r.phone).WalletID, 0)}
    BY <1>3, <1>8 DEF FailureAttempt
  <2>2. r.phone \in Phone /\ History(ledger, r.phone) # {}
    BY <1>1, <1>4, <1>8, RequestTyped
       DEF FailureAttempt, Attempting, HandlerInv, Known, Resolved, IsTransfer
  <2>3. Latest(ledger, r.phone).WalletID = W[r.phone]
    BY <2>2, LatestWalletIsOf
  <2> QED
    BY <1>1, <2>1, <2>3 DEF Entry
<1> QED
  BY <1>5, <1>6, <1>7, <1>8

\* A step of h learns wallet ids only from Wallet and from the ledger.
LEMMA StepWalletOf ==
  ASSUME TypeOK, LedgerWellFormed, NEW h \in Handler, HandlerInv(h), NEW W, WalletsStable(W),
         \A t \in ledger : t.WalletID = W[t.PhoneNumber], HoldsWalletOf(h, W), StepOf(h)
  PROVE  HoldsWalletOf(h, W)'
PROOF
<1> USE DEF TypeOK, StoreTypeOK, Goto
<1>1. ASSUME pc[h] # "idle", UNCHANGED req, docs'[h] = docs[h] \/ docs'[h] = {},
             local'[h].walletID = local[h].walletID,
             local'[h].receiverWalletID = local[h].receiverWalletID,
             pc'[h] # "idle"
      PROVE  HoldsWalletOf(h, W)'
  BY <1>1 DEF HoldsWalletOf
<1>2. ASSUME NEW error, Refuse(h, error), pc[h] # "idle"
      PROVE  HoldsWalletOf(h, W)'
  BY <1>1, <1>2 DEF Refuse, Respond, storeVars
<1>3. CASE Receive(h)
  BY <1>3 DEF Receive, HoldsWalletOf, storeVars
<1>4. CASE RefuseSelfTransfer(h) \/ WalletNotFound(h) \/ Exhausted(h)
  BY <1>2, <1>4 DEF RefuseSelfTransfer, WalletNotFound, Exhausted
<1>5. CASE Replay(h) \/ Lookup(h) \/ FirstTransaction(h) \/ Break(h)
  BY <1>1, <1>5 DEF Replay, Lookup, RespondRecorded, Respond, FirstTransaction, Refuse, Break,
                    storeVars
<1>6. CASE KnownPhone(h)
  <2>1. /\ pc[h] = "check" /\ pc'[h] \in {"receiver", "attempt"} /\ UNCHANGED <<req, docs>>
        /\ History(ledger, req[h].phone) # {}
        /\ local'[h].walletID = Latest(ledger, req[h].phone).WalletID
        /\ local'[h].receiverWalletID = local[h].receiverWalletID
    BY <1>6 DEF KnownPhone, LatestTX, Local, storeVars
  <2>2. req[h].phone \in Phone
    BY <2>1, RequestTyped DEF HandlerInv, Known
  <2> QED
    BY <2>1, <2>2, LatestWalletIsOf DEF HoldsWalletOf
<1>7. CASE LookupReceiver(h)
  <2>1. /\ pc[h] = "receiver" /\ pc'[h] \in {"wallet", "attempt"} /\ UNCHANGED <<req, docs>>
        /\ local'[h].walletID = local[h].walletID
        /\ \/ local'[h].receiverWalletID = local[h].receiverWalletID
           \/ /\ History(ledger, req[h].receiver) # {}
              /\ local'[h].receiverWalletID = Latest(ledger, req[h].receiver).WalletID
    BY <1>7 DEF LookupReceiver, Local, storeVars
  <2>2. req[h].receiver \in Phone
    BY <2>1, RequestTyped DEF HandlerInv, Known
  <2> QED
    BY <2>1, <2>2, LatestWalletIsOf DEF HoldsWalletOf
<1>8. CASE WalletFound(h)
  <2>1. CASE req[h].op = TypeWithdrawal
    BY <1>2, <1>8, <2>1 DEF WalletFound
  <2>2. CASE req[h].op # TypeWithdrawal
    <3>1. PICK w \in Wallets[WalletPhone(h)] \ {None} :
            /\ local' = IF IsTransfer(h)
                          THEN [local EXCEPT ![h].receiverWalletID = w]
                          ELSE [local EXCEPT ![h].walletID = w]
            /\ Goto(h, "attempt")
            /\ UNCHANGED <<storeVars, req, answer>>
      BY <1>8, <2>2 DEF WalletFound
    <3>2. pc[h] = "wallet" /\ req[h] \in Request
      BY <1>8 DEF WalletFound, HandlerInv, Known
    <3>3. WalletPhone(h) \in Phone
      BY <3>2, RequestTyped DEF WalletPhone
    <3>4. w = W[WalletPhone(h)]
      BY <3>1, <3>3 DEF WalletsStable
    <3>5. /\ UNCHANGED <<req, docs>> /\ pc'[h] = "attempt"
          /\ IsTransfer(h) => /\ local'[h].receiverWalletID = w
                              /\ local'[h].walletID = local[h].walletID
          /\ ~IsTransfer(h) => /\ local'[h].walletID = w
                               /\ local'[h].receiverWalletID = local[h].receiverWalletID
      BY <3>1 DEF Local, storeVars
    <3> QED
      BY <3>4, <3>5 DEF HoldsWalletOf, WalletPhone
  <2> QED
    BY <2>1, <2>2
<1>9. CASE DepositAttempt(h) \/ WithdrawalAttempt(h) \/ TransferAttempt(h) \/ FailureAttempt(h)
  <2>1. pc[h] = "attempt"
    BY <1>9 DEF DepositAttempt, WithdrawalAttempt, TransferAttempt, FailureAttempt, Attempting
  <2>2. CASE \E error : Refuse(h, error)
    BY <1>2, <2>1, <2>2
  <2>3. CASE /\ local' = [local EXCEPT ![h] =
                            [@ EXCEPT !.errReason = TRUE, !.attempt = 0, !.reruns = 0]]
             /\ UNCHANGED <<storeVars, pc, req, answer>>
    <3>1. /\ local'[h].walletID = local[h].walletID
          /\ local'[h].receiverWalletID = local[h].receiverWalletID
      BY <2>3 DEF Local
    <3> QED
      BY <1>1, <2>1, <2>3, <3>1 DEF storeVars
  <2>4. ASSUME NEW D, Draft(h, D)
        PROVE  HoldsWalletOf(h, W)'
    <3>1. \A d \in docs'[h] : d.WalletID = W[d.PhoneNumber]
      BY <1>9, <2>4, DraftsWalletOf
    <3>2. pc'[h] = "insert" /\ UNCHANGED <<req, local>>
      BY <2>4 DEF Draft
    <3> QED
      BY <3>1, <3>2 DEF HoldsWalletOf
  <2> QED
    BY <1>9, <2>2, <2>3, <2>4
       DEF DepositAttempt, WithdrawalAttempt, TransferAttempt, FailureAttempt
<1>10. CASE DuplicateReference(h) \/ DuplicateSequence(h) \/ TransientError(h) \/ OrphanAborts(h)
  <2>1. pc[h] # "idle" /\ AbortTransaction(h) /\ UNCHANGED req
    BY <1>10 DEF DuplicateReference, DuplicateSequence, ErrDuplicateReferenceID,
                 ErrDuplicateSequence, TransientError, OrphanAborts
  <2>2. pc'[h] # "idle"
    BY <1>10 DEF DuplicateReference, DuplicateSequence, TransientError, OrphanAborts, Respond
  <2>3. /\ local'[h].walletID = local[h].walletID
        /\ local'[h].receiverWalletID = local[h].receiverWalletID
    <3>1. local[h] \in Local
      OBVIOUS
    <3>2. CASE DuplicateSequence(h)
      BY <3>1, <3>2 DEF DuplicateSequence, Local
    <3>3. CASE TransientError(h)
      BY <3>1, <3>3 DEF TransientError, Local
    <3> QED
      BY <1>10, <3>2, <3>3 DEF DuplicateReference, OrphanAborts
  <2> QED
    BY <1>1, <2>1, <2>2, <2>3 DEF AbortTransaction
<1>11. CASE Insert(h) \/ Commit(h) \/ OrphanCommits(h) \/ Committed(h)
  <2>1. /\ pc[h] # "idle" /\ pc'[h] # "idle" /\ UNCHANGED <<req, local>>
        /\ docs'[h] = docs[h] \/ docs'[h] = {}
    BY <1>11 DEF Insert, InsertDocument, AfterInsert, Commit, OrphanCommits, CommitTransaction,
                 Committed, RespondCommitted, Respond
  <2> QED
    BY <1>1, <2>1
<1> QED
  BY <1>3, <1>4, <1>5, <1>6, <1>7, <1>8, <1>9, <1>10, <1>11 DEF StepOf, Step, Failure

\* Every wallet id in the service's hands stays the one Wallet gives its phone.
THEOREM WalletsKept ==
  ASSUME NEW W, WalletsStable(W)
  PROVE  Spec => []WalletInv(W)
PROOF
<1>1. Init => WalletInv(W)
  BY DEF Init, NoTransactions, WalletInv, HoldsWalletOf, WalletsStable
<1>2. ServiceInv /\ WalletInv(W) /\ [Next]_vars => WalletInv(W)'
  <2> SUFFICES ASSUME ServiceInv, WalletInv(W), [Next]_vars
               PROVE  WalletInv(W)'
    OBVIOUS
  <2>1. CASE UNCHANGED vars
    BY <2>1 DEF vars, storeVars, serviceVars, WalletInv, HoldsWalletOf
  <2>2. ASSUME NEW h \in Handler, StepOf(h)
        PROVE  WalletInv(W)'
    <3>1. /\ TypeOK /\ LedgerWellFormed /\ HandlerInv(h) /\ HoldsWalletOf(h, W)
          /\ \A t \in ledger : t.WalletID = W[t.PhoneNumber]
      BY DEF ServiceInv, WalletInv
    <3>2. HoldsWalletOf(h, W)'
      BY <2>2, <3>1, StepWalletOf
    <3>3. \A g \in Handler \ {h} : HoldsWalletOf(g, W)'
      BY <2>2, <3>1, StepIsLocal DEF WalletInv, HoldsWalletOf, Untouched
    <3>4. \A t \in ledger' : t.WalletID = W[t.PhoneNumber]
      BY <2>2, <3>1, StepAdds DEF HoldsWalletOf
    <3> QED
      BY <3>2, <3>3, <3>4 DEF WalletInv
  <2> QED
    BY <2>1, <2>2 DEF Next, StepOf
<1> QED
  BY <1>1, <1>2, Invariance, PTL DEF Spec

\* Where Wallet keeps a phone's id, all records of a phone carry it, whichever of
\* concurrent first operations wrote first.
THEOREM WalletIDsAgree ==
  ASSUME NEW W, WalletsStable(W)
  PROVE  Spec => []OneWalletPerPhone
PROOF
<1>1. WalletInv(W) => OneWalletPerPhone
  BY DEF WalletInv, OneWalletPerPhone
<1>2. Spec => []WalletInv(W)
  BY WalletsKept
<1> QED
  BY <1>1, <1>2, PTL

-----------------------------------------------------------------------------
(* Wallet ids when wallets are recreated. *)

\* What an attempt drafts for phone p carries the id that h holds for p.
LEMMA DraftsRecordOnly ==
  ASSUME TypeOK, NEW h \in Handler, HandlerInv(h), NEW p \in Phone, NEW w,
         RecordsOnly(h, p, w), Latest(ledger, p).WalletID = w, NEW D, Draft(h, D),
         DepositAttempt(h) \/ WithdrawalAttempt(h) \/ TransferAttempt(h) \/ FailureAttempt(h)
  PROVE  \A d \in docs'[h] : d.PhoneNumber = p => d.WalletID = w
PROOF
<1> DEFINE r == req[h]
<1>1. docs'[h] = D /\ pc'[h] = "insert" /\ pc[h] = "attempt"
  BY DEF Draft, BeginTransaction, Goto, TypeOK, StoreTypeOK, DepositAttempt, WithdrawalAttempt,
         TransferAttempt, FailureAttempt, Attempting
<1>2. (~ \E error : Refuse(h, error)) /\ pc' # pc
  BY <1>1 DEF Refuse, Respond, Goto, TypeOK
<1>3. \A E : Draft(h, E) => D = E
  BY <1>1 DEF Draft, BeginTransaction, TypeOK, StoreTypeOK
<1>4. /\ r.phone = p => local[h].walletID = w
      /\ r.receiver = p => local[h].receiverWalletID = w
  BY <1>1 DEF RecordsOnly
<1>5. CASE DepositAttempt(h)
  <2>1. D = {Entry(ledger, r, r.phone, r.ref, StatusCompleted, local[h].walletID, r.amount)}
    BY <1>2, <1>3, <1>5 DEF DepositAttempt
  <2> QED
    BY <1>1, <1>4, <2>1 DEF Entry
<1>6. CASE WithdrawalAttempt(h)
  <2>1. D = {Entry(ledger, r, r.phone, r.ref, StatusCompleted, local[h].walletID, -r.amount)}
    BY <1>2, <1>3, <1>6 DEF WithdrawalAttempt
  <2> QED
    BY <1>1, <1>4, <2>1 DEF Entry
<1>7. CASE TransferAttempt(h)
  <2>1. D = {Entry(ledger, r, r.receiver, ReceiverRef(r.ref), StatusCompleted,
                   local[h].receiverWalletID, r.amount),
             Entry(ledger, r, r.phone, r.ref, StatusCompleted, local[h].walletID, -r.amount)}
    BY <1>2, <1>3, <1>7 DEF TransferAttempt
  <2> QED
    BY <1>1, <1>4, <2>1 DEF Entry
<1>8. CASE FailureAttempt(h)
  <2>1. D = {Entry(ledger, r, r.phone, r.ref, StatusFailed, Latest(ledger, r.phone).WalletID, 0)}
    BY <1>3, <1>8 DEF FailureAttempt
  <2> QED
    BY <1>1, <2>1 DEF Entry
<1> QED
  BY <1>5, <1>6, <1>7, <1>8

\* Once p's history is open, h learns no id of p but the one on its latest record.
LEMMA StepRecordsOnly ==
  ASSUME TypeOK, NEW h \in Handler, HandlerInv(h), NEW p \in Phone, NEW w,
         RecordsOnly(h, p, w), Latest(ledger, p).WalletID = w, History(ledger, p) # {},
         StepOf(h)
  PROVE  RecordsOnly(h, p, w)'
PROOF
<1> USE DEF TypeOK, StoreTypeOK, Goto
<1>1. ASSUME pc'[h] \notin {"receiver", "wallet", "attempt", "insert", "commit", "orphan"}
      PROVE  RecordsOnly(h, p, w)'
  BY <1>1 DEF RecordsOnly
<1>2. ASSUME NEW error, Refuse(h, error)
      PROVE  RecordsOnly(h, p, w)'
  BY <1>1, <1>2 DEF Refuse, Respond
<1>3. local[h] \in Local
  OBVIOUS
<1>4. CASE Receive(h) \/ Committed(h) \/ Commit(h) \/ OrphanCommits(h) \/ OrphanAborts(h)
  BY <1>1, <1>4 DEF Receive, Committed, RespondCommitted, Respond, Commit, OrphanCommits,
                    OrphanAborts
<1>5. CASE RefuseSelfTransfer(h) \/ WalletNotFound(h) \/ Exhausted(h)
  BY <1>2, <1>5 DEF RefuseSelfTransfer, WalletNotFound, Exhausted
<1>6. CASE Replay(h) \/ Lookup(h) \/ DuplicateReference(h)
  BY <1>1, <1>2, <1>6 DEF Replay, Lookup, DuplicateReference, RespondRecorded, Respond
<1>7. CASE FirstTransaction(h)
  <2>1. CASE IsTransfer(h)
    BY <1>2, <1>7, <2>1 DEF FirstTransaction
  <2>2. CASE ~IsTransfer(h)
    <3>1. pc'[h] = "wallet" /\ UNCHANGED <<req, local>> /\ req[h].phone # p
      BY <1>7, <2>2 DEF FirstTransaction
    <3> QED
      BY <2>2, <3>1 DEF RecordsOnly, WalletPhone, IsTransfer
  <2> QED
    BY <2>1, <2>2
<1>8. CASE KnownPhone(h)
  <2>1. /\ pc[h] = "check" /\ pc'[h] \in {"receiver", "attempt"} /\ UNCHANGED req
        /\ pc'[h] = "attempt" => ~IsTransfer(h)
        /\ local'[h].walletID = Latest(ledger, req[h].phone).WalletID
    BY <1>3, <1>8 DEF KnownPhone, LatestTX, Local
  <2>2. pc'[h] = "attempt" => req[h].receiver # p
    BY <2>1, RequestTyped, LedgerAssumption DEF HandlerInv, Known, IsTransfer
  <2> QED
    BY <2>1, <2>2 DEF RecordsOnly
<1>9. CASE LookupReceiver(h)
  <2>1. /\ pc[h] = "receiver" /\ pc'[h] \in {"wallet", "attempt"} /\ UNCHANGED req
        /\ local'[h].walletID = local[h].walletID
        /\ pc'[h] = "wallet" => req[h].receiver # p
        /\ pc'[h] = "attempt" =>
             local'[h].receiverWalletID = Latest(ledger, req[h].receiver).WalletID
    BY <1>3, <1>9 DEF LookupReceiver, Local
  <2>2. IsTransfer(h)
    BY <2>1 DEF HandlerInv, Known
  <2> QED
    BY <2>1, <2>2 DEF RecordsOnly, WalletPhone, IsTransfer
<1>10. CASE WalletFound(h)
  <2>1. CASE req[h].op = TypeWithdrawal
    BY <1>2, <1>10, <2>1 DEF WalletFound
  <2>2. CASE req[h].op # TypeWithdrawal
    <3>1. /\ pc[h] = "wallet" /\ pc'[h] = "attempt" /\ UNCHANGED req /\ req[h] \in Request
          /\ IsTransfer(h) => local'[h].walletID = local[h].walletID
      BY <1>3, <1>10, <2>2 DEF WalletFound, Local, HandlerInv, Known
    <3>2. IsTransfer(h) => req[h].receiver # p
      BY <3>1 DEF RecordsOnly, WalletPhone
    <3>3. ~IsTransfer(h) => req[h].phone # p /\ req[h].receiver # p
      BY <3>1, RequestTyped, LedgerAssumption DEF RecordsOnly, WalletPhone, IsTransfer
    <3> QED
      BY <3>1, <3>2, <3>3 DEF RecordsOnly
  <2> QED
    BY <2>1, <2>2
<1>11. ASSUME pc[h] \in {"attempt", "insert", "commit"}, pc'[h] = "attempt", UNCHANGED req,
              local'[h].walletID = local[h].walletID,
              local'[h].receiverWalletID = local[h].receiverWalletID
       PROVE  RecordsOnly(h, p, w)'
  BY <1>11 DEF RecordsOnly
<1>12. CASE DepositAttempt(h) \/ WithdrawalAttempt(h) \/ TransferAttempt(h) \/ FailureAttempt(h)
  <2>1. pc[h] = "attempt"
    BY <1>12 DEF DepositAttempt, WithdrawalAttempt, TransferAttempt, FailureAttempt, Attempting
  <2>2. CASE \E error : Refuse(h, error)
    BY <1>2, <2>2
  <2>3. CASE /\ local' = [local EXCEPT ![h] =
                            [@ EXCEPT !.errReason = TRUE, !.attempt = 0, !.reruns = 0]]
             /\ UNCHANGED <<storeVars, pc, req, answer>>
    BY <1>3, <1>11, <2>1, <2>3 DEF Local
  <2>4. ASSUME NEW D, Draft(h, D)
        PROVE  RecordsOnly(h, p, w)'
    <3>1. \A d \in docs'[h] : d.PhoneNumber = p => d.WalletID = w
      BY <1>12, <2>4, DraftsRecordOnly
    <3>2. pc'[h] = "insert" /\ UNCHANGED <<req, local>>
      BY <2>4 DEF Draft
    <3> QED
      BY <2>1, <3>1, <3>2 DEF RecordsOnly
  <2> QED
    BY <1>12, <2>2, <2>3, <2>4
       DEF DepositAttempt, WithdrawalAttempt, TransferAttempt, FailureAttempt
<1>13. CASE DuplicateSequence(h) \/ TransientError(h)
  <2>1. CASE DuplicateSequence(h)
    BY <1>3, <1>11, <2>1 DEF DuplicateSequence, Local
  <2>2. CASE TransientError(h)
    BY <1>3, <1>11, <2>2 DEF TransientError, Local
  <2> QED
    BY <1>13, <2>1, <2>2
<1>14. CASE Insert(h)
  <2>1. pc[h] = "insert" /\ pc'[h] \in {"insert", "commit"} /\ UNCHANGED <<req, local, docs>>
    BY <1>14 DEF Insert, InsertDocument, AfterInsert
  <2> QED
    BY <2>1 DEF RecordsOnly
<1>15. CASE Break(h)
  <2>1. /\ pc'[h] = (IF pc[h] \in {"insert", "commit"} THEN "orphan" ELSE "done")
        /\ UNCHANGED docs
    BY <1>15 DEF Break, storeVars
  <2> QED
    BY <2>1 DEF RecordsOnly
<1> QED
  BY <1>4, <1>5, <1>6, <1>7, <1>8, <1>9, <1>10, <1>12, <1>13, <1>14, <1>15
     DEF StepOf, Step, Failure

\* What h commits for p carries the id on p's latest record, and so does the latest
\* record afterwards.
LEMMA LatestWalletStays ==
  ASSUME ServiceInv, ServiceInv', NEW h \in Handler, NEW p \in Phone, NEW w,
         RecordsOnly(h, p, w), Latest(ledger, p).WalletID = w, History(ledger, p) # {},
         StepOf(h)
  PROVE  History(ledger', p) # {} /\ Latest(ledger', p).WalletID = w
PROOF
<1>1. /\ TypeOK /\ HandlerInv(h)
      /\ ledger \subseteq Transaction /\ WellFormed(ledger)
      /\ ledger' \subseteq Transaction /\ WellFormed(ledger')
  BY DEF ServiceInv, TypeOK, StoreTypeOK, LedgerWellFormed
<1>2. ledger \subseteq ledger'
  BY <1>1, StepIsLocal
<1>3. History(ledger, p) \subseteq History(ledger', p)
  BY <1>2 DEF History
<1> DEFINE t == Latest(ledger', p)
<1>4. t \in History(ledger', p) /\ \A u \in History(ledger', p) : u.SeqNumber <= t.SeqNumber
  BY <1>1, <1>3, LatestIsTip DEF WellFormed
<1>5. CASE t \in ledger
  <2>1. t \in History(ledger, p) /\ \A u \in History(ledger, p) : u.SeqNumber <= t.SeqNumber
    BY <1>3, <1>4, <1>5 DEF History
  <2>2. Latest(ledger, p) = t
    BY <1>1, <2>1, TipDetermines DEF WellFormed
  <2> QED
    BY <1>3, <2>2
<1>6. CASE t \notin ledger
  <2>1. t \in ledger' \ ledger /\ t.PhoneNumber = p
    BY <1>4, <1>6 DEF History
  <2>2. t \in docs[h] /\ Open(h)
    BY <1>1, <2>1, StepAdds
  <2> QED
    BY <1>3, <2>1, <2>2 DEF RecordsOnly, Open
<1> QED
  BY <1>5, <1>6

\* Whatever Wallet answers, and however first records raced: once no other id of a
\* phone is left in variables, calls and open transactions, the phone keeps the id
\* on its latest record.
THEOREM WalletIDsSettle == Spec => WalletIDSettles
PROOF
<1>1. ServiceInv /\ ServiceInv' /\ [Next]_vars =>
        \A p \in Phone : WalletSettled(p) =>
          /\ WalletSettled(p)'
          /\ Latest(ledger', p).WalletID = Latest(ledger, p).WalletID
  <2> SUFFICES ASSUME ServiceInv, ServiceInv', [Next]_vars, NEW p \in Phone, WalletSettled(p)
               PROVE  /\ WalletSettled(p)'
                      /\ Latest(ledger', p).WalletID = Latest(ledger, p).WalletID
    OBVIOUS
  <2>1. CASE UNCHANGED vars
    BY <2>1 DEF vars, storeVars, serviceVars, WalletSettled, RecordsOnly, WalletPhone, IsTransfer
  <2>2. ASSUME NEW h \in Handler, StepOf(h)
        PROVE  /\ WalletSettled(p)'
               /\ Latest(ledger', p).WalletID = Latest(ledger, p).WalletID
    <3>1. /\ TypeOK /\ LedgerWellFormed /\ HandlerInv(h)
          /\ History(ledger, p) # {}
      BY DEF ServiceInv, WalletSettled
    <3>2. PICK w \in WalletID : w = Latest(ledger, p).WalletID
      BY <3>1, LatestWalletTyped
    <3>3. \A g \in Handler : RecordsOnly(g, p, w)
      BY <3>2 DEF WalletSettled
    <3>4. History(ledger', p) # {} /\ Latest(ledger', p).WalletID = w
      BY <2>2, <3>1, <3>2, <3>3, LatestWalletStays
    <3>5. RecordsOnly(h, p, w)'
      BY <2>2, <3>1, <3>2, <3>3, StepRecordsOnly
    <3>6. \A g \in Handler \ {h} : RecordsOnly(g, p, w)'
      BY <2>2, <3>1, <3>3, StepIsLocal DEF RecordsOnly, Untouched, WalletPhone, IsTransfer
    <3> QED
      BY <3>2, <3>4, <3>5, <3>6 DEF WalletSettled
  <2> QED
    BY <2>1, <2>2 DEF Next, StepOf
<1> QED
  BY <1>1, Invariance, PTL DEF Spec, WalletIDSettles
=============================================================================
