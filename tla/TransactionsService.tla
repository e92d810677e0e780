------------------------ MODULE TransactionsService ------------------------
(***************************************************************************)
(* The business service: CreateDepositTransaction,                         *)
(* CreateWithdrawalTransaction and CreateTransferTransaction, each run by  *)
(* one goroutine per request against the shared ledger store.              *)
(*                                                                         *)
(* A step is what a goroutine does between two points where another one    *)
(* can interfere: one database or Wallet call and the code up to the next. *)
(* A client's retry is another handler with the same request.              *)
(***************************************************************************)
EXTENDS LedgerStore

CONSTANTS
  Request,      \* the validated requests clients send
  Seeds,        \* the ledgers the service may be started on
  Wallets,      \* Wallets[p]: what GetWalletInfo may answer for p; None is not found
  MaxRetries,   \* attempts of each retry loop (100 in the code)
  MaxReruns     \* bound on the driver's own reruns of a callback

ASSUME ServiceAssumption ==
  /\ Request \subseteq RequestType
  /\ \A r \in Request : (r.receiver = None) <=> (r.op # TypeTransfer)
  /\ \A S \in Seeds : S \subseteq Transaction /\ WellFormed(S) /\ TransfersPaired(S)
  /\ Wallets \in [Phone -> SUBSET (WalletID \cup {None})]
  /\ MaxRetries \in Nat \ {0} /\ MaxReruns \in Nat

VARIABLES
  pc,       \* pc[h]: the call h makes next
  req,      \* req[h]: its request, None before it arrives
  local,    \* local[h]: the variables of its function
  answer    \* answer[h]: what it returned, and the record the response shows

serviceVars == <<pc, req, local, answer>>
vars == <<storeVars, serviceVars>>

\* "orphan": the handler is gone and its transaction is left in the database.
Control == {"idle", "check", "wallet", "receiver", "attempt", "insert",
            "commit", "committed", "lookup", "orphan", "done"}

Local == [attempt : 0 .. MaxRetries, reruns : 0 .. MaxReruns, errReason : BOOLEAN,
          walletID : WalletID \cup {None}, receiverWalletID : WalletID \cup {None}]

\* Refusals leave nothing behind.  InternalError is every unmapped error;
\* NoReply is a handler that died before answering.
Refusal == {"ErrInvalidTransactionStatus", "ErrWalletNotFound", "ErrInsufficientBalance",
            "ErrExceedsMaxBalance", "ErrHighFrequencyTransaction"}
Result == Refusal \cup {"OK", "ErrHalfTransferFail", "ErrTransactionNotFound",
                        "InternalError", "NoReply", "Pending"}

TypeOK ==
  /\ StoreTypeOK
  /\ pc \in [Handler -> Control]
  /\ req \in [Handler -> Request \cup {None}]
  /\ local \in [Handler -> Local]
  /\ answer \in [Handler -> [result : Result, tx : Transaction \cup {None}]]

NoTransactions == [h \in Handler |-> {}]

Init ==
  /\ ledger \in Seeds
  /\ snapshot = NoTransactions /\ docs = NoTransactions /\ writes = NoTransactions
  /\ pc = [h \in Handler |-> "idle"]
  /\ req = [h \in Handler |-> None]
  /\ local = [h \in Handler |-> [attempt |-> 0, reruns |-> 0, errReason |-> FALSE,
                                 walletID |-> None, receiverWalletID |-> None]]
  /\ answer = [h \in Handler |-> [result |-> "Pending", tx |-> None]]

IsTransfer(h) == req[h].op = TypeTransfer

-----------------------------------------------------------------------------
Goto(h, label) == pc' = [pc EXCEPT ![h] = label]

Respond(h, result, tx) ==
  /\ answer' = [answer EXCEPT ![h] = [result |-> result, tx |-> tx]]
  /\ Goto(h, "done")

\* Return an error without having touched the database.
Refuse(h, error) ==
  Respond(h, error, None) /\ UNCHANGED <<storeVars, req, local>>

\* Answer from a record the key was found under; a transfer that was recorded
\* as failed is an error again.
RespondRecorded(h, t) ==
  /\ IF IsTransfer(h) /\ t.Status # StatusCompleted
       THEN Respond(h, "ErrHalfTransferFail", None)
       ELSE Respond(h, "OK", t)
  /\ UNCHANGED <<storeVars, req, local>>

Receive(h) ==
  /\ pc[h] = "idle"
  /\ \E r \in Request : req' = [req EXCEPT ![h] = r]
  /\ Goto(h, "check")
  /\ UNCHANGED <<storeVars, local, answer>>

-----------------------------------------------------------------------------
(* Before the transaction: replay check and wallet ids. *)

SelfTransfer(h) == IsTransfer(h) /\ req[h].phone = req[h].receiver

RefuseSelfTransfer(h) ==
  /\ pc[h] = "check" /\ SelfTransfer(h)
  /\ Refuse(h, "ErrInvalidTransactionStatus")

\* EarlyCheck's byRef facet: the key together with the requesting phone.
Replays(h) == {t \in ByReference(ledger, req[h].ref) : t.PhoneNumber = req[h].phone}

Replay(h) ==
  /\ pc[h] = "check" /\ ~SelfTransfer(h)
  /\ \E t \in Replays(h) : RespondRecorded(h, t)

\* ErrFirstTransaction: ask Wallet, except that a transfer needs funds.
FirstTransaction(h) ==
  /\ pc[h] = "check" /\ ~SelfTransfer(h)
  /\ Replays(h) = {} /\ History(ledger, req[h].phone) = {}
  /\ IF IsTransfer(h)
       THEN Refuse(h, "ErrInsufficientBalance")
       ELSE Goto(h, "wallet") /\ UNCHANGED <<storeVars, req, local, answer>>

\* Mutant: the facet sorts by ascending sequence number.
EarliestTX(h) == CHOOSE t \in History(ledger, req[h].phone) : t.SeqNumber = 1

\* EarlyCheck's other facet.
LatestTX(h) == Latest(ledger, req[h].phone)

KnownPhone(h) ==
  /\ pc[h] = "check" /\ ~SelfTransfer(h)
  /\ Replays(h) = {} /\ History(ledger, req[h].phone) # {}
  /\ local' = [local EXCEPT ![h].walletID = LatestTX(h).WalletID]
  /\ Goto(h, IF IsTransfer(h) THEN "receiver" ELSE "attempt")
  /\ UNCHANGED <<storeVars, req, answer>>

\* The receiver's latest record, read outside any transaction.
LookupReceiver(h) ==
  /\ pc[h] = "receiver"
  /\ IF History(ledger, req[h].receiver) = {}
       THEN Goto(h, "wallet") /\ UNCHANGED local
       ELSE /\ local' = [local EXCEPT ![h].receiverWalletID =
                                        Latest(ledger, req[h].receiver).WalletID]
            /\ Goto(h, "attempt")
  /\ UNCHANGED <<storeVars, req, answer>>

\* Mutant: the wallet of the sender is asked for.
WalletPhoneOfSender(h) == req[h].phone

WalletPhone(h) == IF IsTransfer(h) THEN req[h].receiver ELSE req[h].phone

WalletNotFound(h) ==
  /\ pc[h] = "wallet" /\ None \in Wallets[WalletPhone(h)]
  /\ Refuse(h, "ErrWalletNotFound")

\* A withdrawal only asks whether the wallet exists: its balance is zero.
WalletFound(h) ==
  /\ pc[h] = "wallet"
  /\ \E w \in Wallets[WalletPhone(h)] \ {None} :
       IF req[h].op = TypeWithdrawal
         THEN Refuse(h, "ErrInsufficientBalance")
         ELSE /\ local' = IF IsTransfer(h)
                            THEN [local EXCEPT ![h].receiverWalletID = w]
                            ELSE [local EXCEPT ![h].walletID = w]
              /\ Goto(h, "attempt")
              /\ UNCHANGED <<storeVars, req, answer>>

-----------------------------------------------------------------------------
(* One attempt: the callback reads the latest records in its snapshot,     *)
(* checks the limits and drafts the documents.  The sender of a transfer   *)
(* or a withdrawal that gets here has a history: records are never removed.*)

\* Mutant: the loop condition lets one attempt too many through.
AttemptingOnceMore(h) == pc[h] = "attempt" /\ local[h].attempt <= MaxRetries

Attempting(h) == pc[h] = "attempt" /\ local[h].attempt < MaxRetries

Draft(h, D) ==
  /\ BeginTransaction(h, D)
  /\ Goto(h, "insert")
  /\ UNCHANGED <<req, local, answer>>

DepositAttempt(h) ==
  /\ Attempting(h) /\ req[h].op = TypeDeposit
  /\ LET r == req[h]
     IN  IF ExceedsMaxBalance(ledger, r.phone, r.amount)
           THEN Refuse(h, "ErrExceedsMaxBalance")
           ELSE Draft(h, {Entry(ledger, r, r.phone, r.ref, StatusCompleted,
                                local[h].walletID, r.amount)})

WithdrawalAttempt(h) ==
  /\ Attempting(h) /\ req[h].op = TypeWithdrawal
  /\ LET r == req[h]
     IN  IF InsufficientBalance(ledger, r.phone, r.amount)
           THEN Refuse(h, "ErrInsufficientBalance")
           ELSE Draft(h, {Entry(ledger, r, r.phone, r.ref, StatusCompleted,
                                local[h].walletID, -r.amount)})

\* A receiver over capacity ends this loop; the failure is recorded by a loop
\* of its own, counting its attempts from zero.
TransferAttempt(h) ==
  /\ Attempting(h) /\ IsTransfer(h) /\ ~local[h].errReason
  /\ LET r == req[h]
     IN  IF InsufficientBalance(ledger, r.phone, r.amount)
           THEN Refuse(h, "ErrInsufficientBalance")
         ELSE IF ExceedsMaxBalance(ledger, r.receiver, r.amount)
           THEN /\ local' = [local EXCEPT ![h] =
                               [@ EXCEPT !.errReason = TRUE, !.attempt = 0, !.reruns = 0]]
                /\ UNCHANGED <<storeVars, pc, req, answer>>
         ELSE Draft(h, {Entry(ledger, r, r.receiver, ReceiverRef(r.ref), StatusCompleted,
                              local[h].receiverWalletID, r.amount),
                        Entry(ledger, r, r.phone, r.ref, StatusCompleted,
                              local[h].walletID, -r.amount)})

FailureAttempt(h) ==
  /\ Attempting(h) /\ local[h].errReason
  /\ LET r == req[h]
     IN  Draft(h, {Entry(ledger, r, r.phone, r.ref, StatusFailed,
                         Latest(ledger, r.phone).WalletID, 0)})

\* Mutant: errReason is tested before sent.
ExhaustedAfterErrReason(h) ==
  IF local[h].errReason THEN "ErrHalfTransferFail" ELSE "ErrHighFrequencyTransaction"

ExhaustedError(h) == "ErrHighFrequencyTransaction"

Exhausted(h) ==
  /\ pc[h] = "attempt" /\ local[h].attempt >= MaxRetries
  /\ Refuse(h, ExhaustedError(h))

-----------------------------------------------------------------------------
(* The rest of WithTransaction, and what the loop does with its error. *)

\* Mutants: the second leg is forgotten; the service answers inside the
\* callback, before the commit.
CommitsFirstLeg(h, d) == "commit"
AnswersBeforeCommit(h, d) == IF Remaining(h) = {d} THEN "committed" ELSE "insert"

AfterInsert(h, d) == IF Remaining(h) = {d} THEN "commit" ELSE "insert"

Insert(h) ==
  /\ pc[h] = "insert"
  /\ \E d \in Remaining(h) : InsertDocument(h, d) /\ Goto(h, AfterInsert(h, d))
  /\ UNCHANGED <<req, local, answer>>

\* The failure loop takes a duplicate reference for its own earlier record.
DuplicateReference(h) ==
  /\ pc[h] = "insert"
  /\ \E d \in Remaining(h) : ErrDuplicateReferenceID(h, d)
  /\ IF local[h].errReason
       THEN Respond(h, "ErrHalfTransferFail", None)
       ELSE Goto(h, "lookup") /\ UNCHANGED answer
  /\ UNCHANGED <<req, local>>

\* Mutant: the loop variable never advances.
SameAttempt(h) == local[h].attempt

NextAttempt(h) == local[h].attempt + 1

DuplicateSequence(h) ==
  /\ pc[h] = "insert"
  /\ \E d \in Remaining(h) : ErrDuplicateSequence(h, d)
  /\ local' = [local EXCEPT ![h] = [@ EXCEPT !.attempt = NextAttempt(h), !.reruns = 0]]
  /\ Goto(h, "attempt")
  /\ UNCHANGED <<req, answer>>

\* GetTransactionByReferenceID(ctx, refID, nil): the key alone, of any phone.
Lookup(h) ==
  /\ pc[h] = "lookup"
  /\ \/ \E t \in ByReference(ledger, req[h].ref) : RespondRecorded(h, t)
     \/ /\ ByReference(ledger, req[h].ref) = {}
        /\ Refuse(h, "ErrTransactionNotFound")

Commit(h) ==
  /\ pc[h] = "commit"
  /\ CommitTransaction(h)
  /\ Goto(h, "committed")
  /\ UNCHANGED <<req, local, answer>>

\* Mutants: the failure loop does not set sent; the loop counter is tested in
\* the place of sent.
UnsentFailure(h, d) ==
  IF local[h].errReason THEN Respond(h, "ErrHighFrequencyTransaction", None)
                        ELSE Respond(h, "OK", d)
LastAttemptUnsent(h, d) ==
  IF NextAttempt(h) = MaxRetries THEN Respond(h, "ErrHighFrequencyTransaction", None)
                                 ELSE Respond(h, "OK", d)

RespondCommitted(h, d) ==
  IF local[h].errReason THEN Respond(h, "ErrHalfTransferFail", None)
                        ELSE Respond(h, "OK", d)

\* The commit's reply reaches the handler, which answers with the record it
\* built for the requesting phone.
Committed(h) ==
  /\ pc[h] = "committed"
  /\ \E d \in docs[h] : d.PhoneNumber = req[h].phone /\ RespondCommitted(h, d)
  /\ docs' = [docs EXCEPT ![h] = {}]
  /\ UNCHANGED <<ledger, snapshot, writes, req, local>>

-----------------------------------------------------------------------------
(* Failures. *)

\* A TransientTransactionError: the driver aborts and runs the callback again.
\* At a read inside the callback nothing is written yet, and rerunning it is
\* taking the same attempt later.
TransientError(h) ==
  /\ pc[h] \in {"insert", "commit"} /\ local[h].reruns < MaxReruns
  /\ AbortTransaction(h)
  /\ local' = [local EXCEPT ![h].reruns = @ + 1]
  /\ Goto(h, "attempt")
  /\ UNCHANGED <<req, answer>>

\* A call fails for good and the handler answers 500, or the process dies and
\* nobody answers.  An open transaction stays behind in the database.
Break(h) ==
  /\ pc[h] \notin {"idle", "orphan", "done"}
  /\ \E result \in {"InternalError", "NoReply"} :
       answer' = [answer EXCEPT ![h] = [result |-> result, tx |-> None]]
  /\ Goto(h, IF pc[h] \in {"insert", "commit"} THEN "orphan" ELSE "done")
  /\ UNCHANGED <<storeVars, req, local>>

\* The server gives up an abandoned transaction, or applies the commit that
\* was already on its way.
OrphanAborts(h) ==
  /\ pc[h] = "orphan"
  /\ AbortTransaction(h)
  /\ Goto(h, "done")
  /\ UNCHANGED <<req, local, answer>>

OrphanCommits(h) ==
  /\ pc[h] = "orphan" /\ Remaining(h) = {}
  /\ CommitTransaction(h)
  /\ Goto(h, "done")
  /\ UNCHANGED <<req, local, answer>>

-----------------------------------------------------------------------------
\* What h's goroutine and the database do when nothing fails.
Step(h) ==
  \/ RefuseSelfTransfer(h) \/ Replay(h) \/ FirstTransaction(h) \/ KnownPhone(h)
  \/ LookupReceiver(h) \/ WalletNotFound(h) \/ WalletFound(h)
  \/ DepositAttempt(h) \/ WithdrawalAttempt(h) \/ TransferAttempt(h)
  \/ FailureAttempt(h) \/ Exhausted(h)
  \/ Insert(h) \/ DuplicateReference(h) \/ DuplicateSequence(h)
  \/ Lookup(h) \/ Commit(h) \/ Committed(h)
  \/ OrphanAborts(h)

Failure(h) == TransientError(h) \/ Break(h) \/ OrphanCommits(h)

Next == \E h \in Handler : Receive(h) \/ Step(h) \/ Failure(h)

Spec == Init /\ [][Next]_vars

FairSpec == Spec /\ \A h \in Handler : WF_vars(Step(h))
=============================================================================
