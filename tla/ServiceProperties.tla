------------------------- MODULE ServiceProperties -------------------------
(***************************************************************************)
(* What the transactions service promises, stated over the whole service.  *)
(***************************************************************************)
EXTENDS TransactionsService

\* However deposits, withdrawals, transfers and failure records race, retry,
\* crash and commit late, each phone's committed records stay one gapless chain
\* of balances within the limits (the sequence index together with the reads in
\* the callbacks, service.go 90-129, 269-308, 500-582, 629-660).
LedgerWellFormed == WellFormed(ledger)

\* A posted transfer is on the ledger with both its legs or not at all, in every
\* state another session can read (CreateCoupledTransaction in WithTransaction).
TransfersAtomic == TransfersPaired(ledger)

\* The record shown is committed under the key of the request.
ShowsRecord(h) ==
  answer[h].tx \in ledger /\ answer[h].tx.ReferenceID = req[h].ref

\* Every success response shows a committed record of its own key; hence all
\* successes under one key show the same transaction, whether they executed it,
\* replayed it or lost a race for it.
SuccessIsRecorded ==
  \A h \in Handler : answer[h].result = "OK" => ShowsRecord(h)

KeyIsOnlyOf(h) ==
  /\ \A S \in Seeds : ByReference(S, req[h].ref) = {}
  /\ \A g \in Handler \ {h} :
       req[g] \in Request =>
         /\ req[g].ref # req[h].ref
         /\ IsTransfer(g) => ReceiverRef(req[g].ref) # req[h].ref

\* A request refused with a domain error or with 429 leaves no record of its
\* key, now or later, unless another request or the initial ledger put it there:
\* the client may send it again under the same key without being charged twice.
RefusalLeavesNoTrace ==
  \A h \in Handler :
    answer[h].result \in Refusal /\ KeyIsOnlyOf(h) =>
      ByReference(ledger \cup UNION {writes[g] : g \in Handler}, req[h].ref) = {}

\* "Receiver could not accept the transfer" is only told of a transfer that is
\* on record, so that a replay of its key is answered from the record.
HalfTransferIsRecorded ==
  \A h \in Handler : answer[h].result = "ErrHalfTransferFail" =>
    ByReference(ledger, req[h].ref) # {}

\* All records of a phone carry one wallet id, whichever of concurrent first
\* operations asked Wallet and whichever read it off the history (it is the key
\* of the change events).  Needs wallets that are not recreated.
OneWalletPerPhone ==
  \A t, u \in ledger : t.PhoneNumber = u.PhoneNumber => t.WalletID = u.WalletID

\* Any wallet id that h may yet put in a record of p is w: it is not asking
\* Wallet for p, its variables hold no other id of p, and neither does a document
\* of its open transaction, which may still be committed.
RecordsOnly(h, p, w) ==
  /\ pc[h] = "wallet" => WalletPhone(h) # p
  /\ pc[h] \in {"receiver", "wallet", "attempt", "insert", "commit"} /\ req[h].phone = p =>
       local[h].walletID = w
  /\ pc[h] \in {"attempt", "insert", "commit"} /\ req[h].receiver = p =>
       local[h].receiverWalletID = w
  /\ pc[h] \in {"insert", "commit", "orphan"} =>
       \A d \in docs[h] : d.PhoneNumber = p => d.WalletID = w

\* The wallet id on p's latest record is the only one left in the service.
WalletSettled(p) ==
  /\ History(ledger, p) # {}
  /\ \A h \in Handler : RecordsOnly(h, p, Latest(ledger, p).WalletID)

\* Wallet ids are read before the transaction and recorded after others may have
\* opened the same history.  If the wallet is recreated in between, first records
\* that race may carry two ids, but only they: once the ids read before are used
\* up, the phone has one id for good, whatever Wallet answers and whoever comes
\* (service.go 65, 245, 463; it is the key that orders the phone's change events).
WalletIDSettles ==
  [][\A p \in Phone : WalletSettled(p) =>
       /\ WalletSettled(p)'
       /\ Latest(ledger', p).WalletID = Latest(ledger, p).WalletID]_vars

\* Every request that arrives is answered, whatever it conflicts with: retries
\* are bounded, and of two transfers in opposite directions, which insert their
\* receivers' legs first and so meet crosswise, neither waits for the other.
EveryRequestAnswered ==
  \A h \in Handler : pc[h] = "check" ~> answer[h].result # "Pending"

\* The points of the function in the order they are passed, within one attempt.
Stage ==
  [idle |-> 0, check |-> 1, receiver |-> 2, wallet |-> 3, attempt |-> 4, insert |-> 5,
   commit |-> 6, lookup |-> 7, committed |-> 7, orphan |-> 8, done |-> 9]

\* h enters the failure loop, which it never leaves for the first one; or begins
\* a later attempt, or a later rerun of one; or goes on within it.
Advances(h) ==
  \/ ~local[h].errReason /\ local'[h].errReason
  \/ /\ local'[h].errReason = local[h].errReason
     /\ \/ local'[h].attempt > local[h].attempt
        \/ /\ local'[h].attempt = local[h].attempt
           /\ \/ local'[h].reruns > local[h].reruns
              \/ /\ local'[h].reruns = local[h].reruns
                 /\ \/ Stage[pc'[h]] > Stage[pc[h]]
                    \/ /\ pc[h] = "insert" /\ pc'[h] = "insert"
                       /\ Remaining(h)' \subseteq Remaining(h)
                       /\ Remaining(h)' # Remaining(h)

\* Nothing of handler h changes.
Untouched(h) ==
  /\ pc'[h] = pc[h] /\ req'[h] = req[h] /\ local'[h] = local[h] /\ answer'[h] = answer[h]
  /\ snapshot'[h] = snapshot[h] /\ docs'[h] = docs[h] /\ writes'[h] = writes[h]

\* Whatever a handler meets, conflicts, transient errors and crashes included,
\* each step of its own brings it nearer to the end of bounded loops (service.go
\* 88, 268, 499, 628), and no step of another handler sets it back.
EveryStepAdvances ==
  [][\A h \in Handler : Untouched(h) \/ Advances(h)]_vars

\* A balance moves only by the amount of a record committed in that step under a
\* key that nothing was on record for: however often a key is delivered, retried
\* or committed late, it moves the balance of a phone once (service.go 40, 137).
MovesOncePerKey ==
  [][\A p \in Phone :
       BalanceOf(ledger', p) # BalanceOf(ledger, p) =>
         \E t \in History(ledger', p) :
           /\ ByReference(ledger, t.ReferenceID) = {}
           /\ BalanceOf(ledger', p) = BalanceOf(ledger, p) + Effect(t)]_vars

\* The balances and spent reference ids of the ledger, as one atomic ledger.
Atomic == INSTANCE AtomicLedger WITH
  balance <- [p \in Phone |-> BalanceOf(ledger, p)],
  used <- {t.ReferenceID : t \in ledger}

\* The documents, sessions and retry loops implement the atomic ledger: every
\* commit performs one request, with its phones, its amount and its keys.
ImplementsAtomicLedger == Atomic!AbstractSpec

-----------------------------------------------------------------------------
(* Statements of the documentation that the code does not meet. *)

\* README, error responses: 422 is a "Receiver-capacity failure recorded as a
\* failed transfer, or replay of that failed transfer"; so a transfer answered
\* with it is not posted.
HalfTransferIsNotPosted ==
  \A h \in Handler : answer[h].result = "ErrHalfTransferFail" =>
    \A t \in ByReference(ledger, req[h].ref) : t.Status = StatusFailed

\* README, responsibilities: "reuse recorded transaction results on replay", and
\* service.go:155: a conflict "can be caused by refID so i put a check in the
\* start of the iteration"; so no request whose transaction is already posted is
\* refused for its funds or its capacity.
PostedIsNotRefused ==
  [][\A h \in Handler :
       /\ answer[h].result = "Pending"
       /\ answer'[h].result \in {"ErrInsufficientBalance", "ErrExceedsMaxBalance"}
       => \A t \in ByReference(ledger, req[h].ref) :
            t.PhoneNumber # req[h].phone]_vars
=============================================================================
