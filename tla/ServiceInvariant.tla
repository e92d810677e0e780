-------------------------- MODULE ServiceInvariant --------------------------
(***************************************************************************)
(* The inductive invariant behind the safety properties: what a handler    *)
(* knows at each point of its function, what an open transaction has       *)
(* drafted and written, and what an answer stands for.                     *)
(***************************************************************************)
EXTENDS ServiceProperties

\* A transaction of h's is open in the database.
Open(h) == pc[h] \in {"insert", "commit", "orphan"}

\* Points of the function at which the wallet ids have been resolved.
Resolved(h) == pc[h] \in {"attempt", "insert", "commit"}

\* What the handler has learnt by the time it makes its next call.
Known(h) ==
  /\ pc[h] = "idle" => answer[h].result = "Pending"
  /\ pc[h] # "idle" => req[h] \in Request
  /\ pc[h] = "receiver" => IsTransfer(h)
  /\ local[h].errReason => IsTransfer(h) /\ pc[h] \notin {"idle", "check", "receiver", "wallet"}
  /\ Resolved(h) => local[h].walletID # None
  /\ pc[h] \in {"insert", "commit"} => local[h].attempt < MaxRetries
  /\ (Resolved(h) \/ pc[h] \in {"receiver", "wallet"}) /\ IsTransfer(h) =>
       /\ req[h].phone # req[h].receiver
       /\ History(ledger, req[h].phone) # {}
       /\ local[h].walletID # None
  /\ Resolved(h) /\ IsTransfer(h) => local[h].receiverWalletID # None

\* The document made for the requesting phone carries the request's key, and the
\* failure loop makes no other.
OwnDocs(h) ==
  \A d \in docs[h] :
    /\ d.PhoneNumber = req[h].phone => d.ReferenceID = req[h].ref
    /\ local[h].errReason => d.PhoneNumber = req[h].phone

OpenTransaction(h) ==
  /\ snapshot[h] \subseteq ledger
  /\ WellFormed(snapshot[h])
  /\ Drafted(snapshot[h], docs[h])
  /\ TransfersPaired(docs[h])
  /\ OwnDocs(h)
  /\ writes[h] \subseteq docs[h]
  /\ pc[h] = "commit" => writes[h] = docs[h]

Session(h) ==
  /\ Open(h) => OpenTransaction(h)
  /\ ~Open(h) => writes[h] = {}
  /\ pc[h] = "committed" => docs[h] \subseteq ledger /\ OwnDocs(h)

\* What an answer stands for.
Answered(h) ==
  /\ answer[h].result = "OK" => ShowsRecord(h)
  /\ answer[h].result = "ErrHalfTransferFail" => ByReference(ledger, req[h].ref) # {}

HandlerInv(h) == Known(h) /\ Session(h) /\ Answered(h)

\* An uncommitted document holds its index entries: no committed document and no
\* document of another session has one of them.
IndexEntriesHeld ==
  \A h \in Handler : \A d \in writes[h] :
    /\ \A t \in ledger : ~SameIndexKey(t, d)
    /\ \A g \in Handler \ {h} : \A t \in writes[g] : ~SameIndexKey(t, d)

ServiceInv ==
  /\ TypeOK
  /\ LedgerWellFormed
  /\ TransfersAtomic
  /\ \A h \in Handler : HandlerInv(h)
  /\ IndexEntriesHeld

-----------------------------------------------------------------------------
(* Where records come from. *)

\* Record t is one that serving request r may write.
MadeFor(r, t) ==
  /\ \/ t.PhoneNumber = r.phone /\ t.ReferenceID = r.ref
     \/ /\ r.op = TypeTransfer
        /\ t.PhoneNumber = r.receiver /\ t.ReferenceID = ReceiverRef(r.ref)
  /\ PhonesOf(t) \subseteq {r.phone, r.receiver}
  /\ t.Type = r.op /\ t.Amount = r.amount
  /\ t.Status = StatusFailed => r.op = TypeTransfer /\ t.PhoneNumber = r.phone
  /\ r.op = TypeTransfer =>
       t.SenderPhone = r.phone /\ t.ReceiverPhone = r.receiver /\ r.phone # r.receiver

\* The points at which a transaction of h's may have been committed.
MayHaveCommitted(h) ==
  \/ pc[h] = "committed"
  \/ /\ pc[h] \in {"orphan", "done"}
     /\ answer[h].result \in {"OK", "ErrHalfTransferFail", "InternalError", "NoReply"}

\* A committed record was there from the start or was made for a request that
\* was not refused.
Origin(t) ==
  \/ \E S \in Seeds : t \in S
  \/ \E h \in Handler : req[h] \in Request /\ MadeFor(req[h], t) /\ MayHaveCommitted(h)

AnswerInv(h) ==
  /\ pc[h] \notin {"orphan", "done"} => answer[h].result = "Pending"
  /\ pc[h] = "orphan" => answer[h].result \in {"InternalError", "NoReply"}

DocsMadeFor(h) ==
  Open(h) \/ pc[h] = "committed" => \A d \in docs[h] : MadeFor(req[h], d)

OriginInv ==
  /\ \A h \in Handler : AnswerInv(h) /\ DocsMadeFor(h)
  /\ \A t \in ledger : Origin(t)

-----------------------------------------------------------------------------
(* Whose wallet ids they are. *)

HoldsWalletOf(h, W) ==
  /\ pc[h] = "idle" => local[h].walletID = None /\ local[h].receiverWalletID = None
  /\ local[h].walletID # None => local[h].walletID = W[req[h].phone]
  /\ local[h].receiverWalletID # None => local[h].receiverWalletID = W[req[h].receiver]
  /\ \A d \in docs[h] : d.WalletID = W[d.PhoneNumber]

\* Every wallet id in the service's hands is the one W gives its phone.
WalletInv(W) ==
  /\ \A t \in ledger : t.WalletID = W[t.PhoneNumber]
  /\ \A h \in Handler : HoldsWalletOf(h, W)
=============================================================================
