------------------------- MODULE RefinementTheorems -------------------------
(***************************************************************************)
(* The service implements the atomic ledger.  Only a commit changes the    *)
(* ledger; what it adds are the one record or the two legs that perform a  *)
(* request, drafted from the balances the phones have at that moment, so   *)
(* it is one step of AtomicLedger, and every other step is a stutter.      *)
(* Then what the answering of every request rests on: every step brings    *)
(* its handler nearer to its end.                                          *)
(***************************************************************************)
EXTENDS OriginTheorems

\* The documents of one operation that performs request r: one record of the
\* requesting phone that is no posted transfer, or the two legs of a posted one.
OneOperation(r, D) ==
  \/ \E d \in D :
       /\ D = {d} /\ MadeFor(r, d) /\ d.PhoneNumber = r.phone
       /\ d.Status = StatusFailed \/ r.op # TypeTransfer
  \/ \E w, d \in D :
       /\ D = {w, d} /\ MadeFor(r, w) /\ MadeFor(r, d)
       /\ Legs(w, d) /\ w.PhoneNumber # d.PhoneNumber
       /\ r.op = TypeTransfer
       /\ w.Status = StatusCompleted /\ d.Status = StatusCompleted

\* Documents made for one request, of distinct phones and keys, with the legs of
\* posted transfers paired, are those of one operation.
LEMMA DocsAreOneOperation ==
  ASSUME NEW S, NEW r, NEW D, D # {}, Drafted(S, D), TransfersPaired(D),
         \A d \in D : MadeFor(r, d)
  PROVE  OneOperation(r, D)
PROOF
<1>1. D \subseteq Transaction
  BY DEF Drafted
<1>2. \A d, e \in D : d.PhoneNumber = e.PhoneNumber \/ d.ReferenceID = e.ReferenceID => d = e
  BY DEF Drafted
<1>3. \A d \in D : d.PhoneNumber \in {r.phone, r.receiver} /\ d.Type = r.op
  BY <1>1, LedgerAssumption DEF MadeFor, PhonesOf, Transaction
<1>4. CASE r.op # TypeTransfer
  <2>1. \A d \in D : d.PhoneNumber = r.phone
    BY <1>4 DEF MadeFor
  <2>2. PICK d \in D : D = {d}
    BY <1>2, <2>1
  <2> QED
    BY <1>4, <2>1, <2>2 DEF OneOperation
<1>5. CASE r.op = TypeTransfer /\ \E d \in D : d.Status = StatusCompleted
  <2>1. PICK w, d \in D : /\ Legs(w, d) /\ w.Status = StatusCompleted
                          /\ d.Status = StatusCompleted
    BY <1>3, <1>5 DEF TransfersPaired
  <2>2. w.PhoneNumber # d.PhoneNumber
    BY <1>2, <2>1 DEF Legs
  <2>3. \A e \in D : e \in {w, d}
    BY <1>2, <1>3, <2>2
  <2> QED
    BY <1>5, <2>1, <2>2, <2>3 DEF OneOperation
<1>6. CASE r.op = TypeTransfer /\ \A d \in D : d.Status # StatusCompleted
  <2>1. \A d \in D : d.Status = StatusFailed /\ d.PhoneNumber = r.phone
    BY <1>1, <1>6 DEF Transaction, MadeFor
  <2>2. PICK d \in D : D = {d}
    BY <1>2, <2>1
  <2> QED
    BY <2>1, <2>2 DEF OneOperation
<1> QED
  BY <1>4, <1>5, <1>6

\* A commit leaves each phone the balance its new record states, and every other
\* phone the one it had.
LEMMA BalancesAfter ==
  ASSUME NEW S, S \subseteq Transaction, WellFormed(S), NEW D, Drafted(S, D),
         WellFormed(S \cup D), NEW p \in Phone
  PROVE  /\ \A d \in D : d.PhoneNumber = p =>
              BalanceOf(S \cup D, p) = BalanceOf(S, p) + Effect(d)
         /\ (\A d \in D : d.PhoneNumber # p) => BalanceOf(S \cup D, p) = BalanceOf(S, p)
PROOF
<1> DEFINE T == S \cup D
<1>1. T \subseteq Transaction /\ UniqueIndexes(T)
  BY DEF Drafted, WellFormed
<1>2. ASSUME NEW d \in D, d.PhoneNumber = p
      PROVE  BalanceOf(T, p) = BalanceOf(S, p) + Effect(d)
  <2>1. d.SeqNumber = NextSeq(S, p) /\ d.BalanceAfter = BalanceOf(S, p) + Effect(d)
    BY <1>2 DEF Drafted, SoundEntry
  <2>2. NextSeq(S, p) \in Nat /\ Seqs(S, p) = 1 .. (NextSeq(S, p) - 1)
    BY DEF WellFormed, Contiguous
  <2>3. \A u \in History(S, p) : u.SeqNumber <= d.SeqNumber
    BY <2>1, <2>2 DEF Seqs
  <2>4. \A u \in D : u.PhoneNumber = p => u = d
    BY <1>2 DEF Drafted
  <2>5. \A u \in History(T, p) : u.SeqNumber <= d.SeqNumber
    BY <2>1, <2>2, <2>3, <2>4 DEF History
  <2>6. d \in History(T, p)
    BY <1>2 DEF History
  <2> QED
    BY <1>1, <2>1, <2>5, <2>6, TipDetermines
<1>3. ASSUME \A d \in D : d.PhoneNumber # p
      PROVE  BalanceOf(T, p) = BalanceOf(S, p)
  <2>1. History(T, p) = History(S, p)
    BY <1>3 DEF History
  <2>2. CASE History(S, p) = {}
    BY <2>1, <2>2 DEF BalanceOf
  <2>3. CASE History(S, p) # {}
    <3>1. /\ Latest(S, p) \in History(S, p)
          /\ \A u \in History(S, p) : u.SeqNumber <= Latest(S, p).SeqNumber
      BY <2>3, LatestIsTip DEF WellFormed
    <3>2. BalanceOf(T, p) = Latest(S, p).BalanceAfter
      BY <1>1, <2>1, <3>1, TipDetermines
    <3> QED
      BY <2>3, <3>2 DEF BalanceOf
  <2> QED
    BY <2>2, <2>3
<1> QED
  BY <1>2, <1>3

-----------------------------------------------------------------------------
\* A commit of what performs request r is one step of the atomic ledger, for r.
LEMMA CommitIsAtomic ==
  ASSUME NEW r \in Request, NEW D, OneOperation(r, D), Drafted(ledger, D),
         ledger \subseteq Transaction, WellFormed(ledger),
         \A d \in D, t \in ledger : d.ReferenceID # t.ReferenceID,
         ledger' = ledger \cup D
  PROVE  Atomic!AbstractNext
PROOF
<1> DEFINE balance == [p \in Phone |-> BalanceOf(ledger, p)]
           balanceNext == [p \in Phone |-> BalanceOf(ledger', p)]
           used == {t.ReferenceID : t \in ledger}
           usedNext == {t.ReferenceID : t \in ledger'}
<1>1. WellFormed(ledger')
  BY ExtendWellFormed
<1>2. \A p \in Phone : BalanceOf(ledger, p) \in 0 .. WalletMax
  BY BalanceWithinLimits
<1>3. \A p \in Phone :
        /\ \A d \in D : d.PhoneNumber = p =>
             BalanceOf(ledger', p) = BalanceOf(ledger, p) + Effect(d)
        /\ (\A d \in D : d.PhoneNumber # p) => BalanceOf(ledger', p) = BalanceOf(ledger, p)
  BY <1>1, BalancesAfter
<1>4. \A d \in D : /\ d \in Transaction /\ d.PhoneNumber \in Phone
                   /\ d.Amount \in Nat \ {0} /\ d.ReferenceID \notin used
                   /\ BalanceOf(ledger, d.PhoneNumber) + Effect(d) \in 0 .. WalletMax
  BY DEF Drafted, Transaction, SoundEntry
<1>5. usedNext = used \cup {d.ReferenceID : d \in D}
  OBVIOUS
<1>6. r.op \in TransactionType
  BY ServiceAssumption DEF RequestType
<1>7. ASSUME NEW d \in D, D = {d}, MadeFor(r, d), d.PhoneNumber = r.phone,
             d.Status = StatusFailed \/ r.op # TypeTransfer
      PROVE  Atomic!AbstractNext
  <2>1. d.ReferenceID = r.ref /\ d.Amount = r.amount /\ d.Type = r.op
    BY <1>7 DEF MadeFor
  <2>2. Atomic!Spend({r.ref})
    BY <1>4, <1>5, <1>7, <2>1 DEF Atomic!Spend
  <2>3. /\ \A q \in Phone \ {r.phone} : BalanceOf(ledger', q) = BalanceOf(ledger, q)
        /\ BalanceOf(ledger', r.phone) = BalanceOf(ledger, r.phone) + Effect(d)
    BY <1>3, <1>4, <1>7
  <2>4. CASE d.Status = StatusFailed
    <3>1. Effect(d) = 0 /\ r.phone \in Phone
      BY <1>4, <1>7, <2>4 DEF Effect
    <3>2. \A p \in Phone : BalanceOf(ledger', p) = BalanceOf(ledger, p)
      BY <1>2, <2>3, <3>1
    <3>3. balanceNext = balance
      BY <3>2
    <3>4. r.op = TypeTransfer /\ r.phone # r.receiver
      BY <1>7, <2>4 DEF MadeFor
    <3>5. Atomic!FailedTransfer(r)
      BY <2>2, <3>3, <3>4 DEF Atomic!FailedTransfer, TypeTransfer
    <3> QED
      BY <3>5 DEF Atomic!AbstractNext
  <2>5. CASE d.Status # StatusFailed /\ r.op = TypeDeposit
    <3>1. Effect(d) = r.amount
      BY <2>1, <2>5 DEF Effect, Credits
    <3>2. balanceNext = [balance EXCEPT ![r.phone] = @ + r.amount]
      BY <1>4, <1>7, <2>3, <3>1
    <3>3. Atomic!AtomicDeposit(r)
      BY <1>4, <1>7, <2>2, <2>5, <3>1, <3>2
         DEF Atomic!AtomicDeposit, Atomic!Allowed, TypeDeposit
    <3> QED
      BY <3>3 DEF Atomic!AbstractNext
  <2>6. CASE d.Status # StatusFailed /\ r.op = TypeWithdrawal
    <3>1. Effect(d) = -r.amount /\ r.amount \in Nat
      BY <1>4, <2>1, <2>6 DEF Effect, Credits, IsReceiverLeg, TypeDeposit, TypeWithdrawal,
                              TypeTransfer
    <3>2. balanceNext = [balance EXCEPT ![r.phone] = @ - r.amount]
      BY <1>2, <1>4, <1>7, <2>3, <3>1
    <3>3. Atomic!AtomicWithdrawal(r)
      BY <1>2, <1>4, <1>7, <2>2, <2>6, <3>1, <3>2
         DEF Atomic!AtomicWithdrawal, Atomic!Allowed, TypeWithdrawal
    <3> QED
      BY <3>3 DEF Atomic!AbstractNext
  <2> QED
    BY <1>6, <1>7, <2>4, <2>5, <2>6 DEF TransactionType
<1>8. ASSUME NEW w \in D, NEW d \in D, D = {w, d}, MadeFor(r, w), MadeFor(r, d), Legs(w, d),
             w.PhoneNumber # d.PhoneNumber, r.op = TypeTransfer,
             w.Status = StatusCompleted, d.Status = StatusCompleted
      PROVE  Atomic!AbstractNext
  <2>1. /\ w.PhoneNumber = r.phone /\ d.PhoneNumber = r.receiver /\ r.phone # r.receiver
        /\ w.Amount = r.amount /\ d.Amount = r.amount
        /\ w.ReferenceID = r.ref /\ d.ReferenceID = ReceiverRef(r.ref)
    BY <1>8 DEF MadeFor, Legs
  <2>2. Effect(w) = -r.amount /\ Effect(d) = r.amount
    BY <1>8, <2>1 DEF MadeFor, Legs, Effect, Credits, StatusCompleted, StatusFailed,
                      TypeTransfer, TypeDeposit
  <2>3. Atomic!Spend({r.ref, <<r.ref[1], r.ref[2] + 1>>})
    BY <1>4, <1>5, <1>8, <2>1 DEF Atomic!Spend, ReceiverRef
  <2>4. /\ \A o \in Phone \ {r.phone, r.receiver} : BalanceOf(ledger', o) = BalanceOf(ledger, o)
        /\ BalanceOf(ledger', r.phone) = BalanceOf(ledger, r.phone) - r.amount
        /\ BalanceOf(ledger', r.receiver) = BalanceOf(ledger, r.receiver) + r.amount
    <3>1. \A o \in Phone \ {r.phone, r.receiver} : BalanceOf(ledger', o) = BalanceOf(ledger, o)
      BY <1>3, <1>8, <2>1
    <3>2. /\ BalanceOf(ledger', r.phone) = BalanceOf(ledger, r.phone) + Effect(w)
          /\ BalanceOf(ledger', r.receiver) = BalanceOf(ledger, r.receiver) + Effect(d)
      BY <1>3, <1>4, <1>8, <2>1
    <3>3. r.phone \in Phone /\ r.amount \in Nat
      BY <1>4, <1>8, <2>1
    <3> QED
      BY <1>2, <2>2, <3>1, <3>2, <3>3
  <2>5. balanceNext = [balance EXCEPT ![r.phone] = @ - r.amount, ![r.receiver] = @ + r.amount]
    BY <1>4, <1>8, <2>1, <2>4
  <2>6. /\ Atomic!Allowed(balance[r.phone] - r.amount)
        /\ Atomic!Allowed(balance[r.receiver] + r.amount)
    BY <1>2, <1>4, <1>8, <2>1, <2>2 DEF Atomic!Allowed
  <2>7. Atomic!AtomicTransfer(r)
    BY <1>8, <2>1, <2>3, <2>5, <2>6 DEF Atomic!AtomicTransfer, TypeTransfer
  <2> QED
    BY <2>7 DEF Atomic!AbstractNext
<1> QED
  BY <1>7, <1>8 DEF OneOperation

\* Every step of the service is a step of the atomic ledger or leaves it alone.
LEMMA StepIsAtomic ==
  ASSUME ServiceInv, OriginInv, [Next]_vars
  PROVE  [Atomic!AbstractNext]_(Atomic!abstractVars)
PROOF
<1>1. CASE UNCHANGED ledger
  BY <1>1 DEF Atomic!abstractVars
<1>2. ASSUME NEW h \in Handler, Commit(h) \/ OrphanCommits(h)
      PROVE  [Atomic!AbstractNext]_(Atomic!abstractVars)
  <2>1. TypeOK /\ HandlerInv(h) /\ DocsMadeFor(h)
    BY DEF ServiceInv, OriginInv
  <2>2. Open(h) /\ CommitTransaction(h) /\ writes[h] = docs[h]
    BY <1>2, <2>1, CommitInv
  <2>3. /\ Drafted(ledger, docs[h]) /\ ledger' = ledger \cup docs[h]
        /\ \A d \in docs[h], t \in ledger : d.ReferenceID # t.ReferenceID
    BY <2>2, WritesAreCurrent DEF CommitTransaction
  <2>4. ledger \subseteq Transaction /\ WellFormed(ledger)
    BY DEF ServiceInv, TypeOK, StoreTypeOK, LedgerWellFormed
  <2>5. CASE docs[h] = {}
    BY <1>1, <2>3, <2>5
  <2>6. CASE docs[h] # {}
    <3>1. /\ req[h] \in Request
          /\ TransfersPaired(docs[h]) /\ \A d \in docs[h] : MadeFor(req[h], d)
      BY <2>1, <2>2 DEF HandlerInv, Known, Session, Open, OpenTransaction, DocsMadeFor
    <3>2. OneOperation(req[h], docs[h])
      BY <2>3, <2>6, <3>1, DocsAreOneOperation
    <3> QED
      BY <2>3, <2>4, <3>1, <3>2, CommitIsAtomic
  <2> QED
    BY <2>5, <2>6
<1>3. CASE Next
  <2>1. PICK h \in Handler : StepOf(h)
    BY <1>3 DEF Next, StepOf
  <2>2. TypeOK /\ HandlerInv(h)
    BY DEF ServiceInv
  <2>3. ledger' = ledger \/ \E t \in ledger' \ ledger : TRUE
    BY <2>1, <2>2, StepIsLocal
  <2> QED
    BY <1>1, <1>2, <2>1, <2>2, <2>3, StepAdds
<1>4. CASE UNCHANGED vars
  BY <1>1, <1>4 DEF vars, storeVars
<1> QED
  BY <1>3, <1>4

\* However the documents, sessions and retries interleave, clients see a ledger
\* on which each request happens at once, spends its reference ids once, moves its
\* own amount between its own phones, and keeps the balances within the limits.
THEOREM Refinement == Spec => ImplementsAtomicLedger
PROOF
<1>1. Init /\ ServiceInv => Atomic!AbstractInit
  <2> SUFFICES ASSUME ServiceInv
               PROVE  Atomic!AbstractInit
    OBVIOUS
  <2>1. ledger \subseteq Transaction /\ WellFormed(ledger)
    BY DEF ServiceInv, TypeOK, StoreTypeOK, LedgerWellFormed
  <2>2. \A p \in Phone : BalanceOf(ledger, p) \in 0 .. WalletMax
    BY <2>1, BalanceWithinLimits
  <2>3. \A t \in ledger : t.ReferenceID \in Key \X Nat
    BY <2>1 DEF Transaction, ReferenceID
  <2> QED
    BY <2>2, <2>3 DEF Atomic!AbstractInit
<1>2. ServiceInv /\ OriginInv /\ [Next]_vars => [Atomic!AbstractNext]_(Atomic!abstractVars)
  BY StepIsAtomic
<1> QED
  BY <1>1, <1>2, Invariance, Origins, PTL
     DEF Spec, ImplementsAtomicLedger, Atomic!AbstractSpec

\* Balances move only by recorded amounts, and a key moves them once.
THEOREM KeysMoveMoneyOnce == Spec => MovesOncePerKey
PROOF
<1> DEFINE Moved(p) ==
             BalanceOf(ledger', p) # BalanceOf(ledger, p) =>
               \E t \in History(ledger', p) :
                 /\ ByReference(ledger, t.ReferenceID) = {}
                 /\ BalanceOf(ledger', p) = BalanceOf(ledger, p) + Effect(t)
<1>1. ServiceInv /\ ServiceInv' /\ [Next]_vars => \A p \in Phone : Moved(p)
  <2> SUFFICES ASSUME ServiceInv, ServiceInv', [Next]_vars, NEW p \in Phone
               PROVE  Moved(p)
    OBVIOUS
  <2>1. CASE ledger' = ledger
    BY <2>1
  <2>2. ASSUME NEW h \in Handler, Commit(h) \/ OrphanCommits(h)
        PROVE  Moved(p)
    <3>1. /\ ledger \subseteq Transaction /\ WellFormed(ledger) /\ WellFormed(ledger')
          /\ TypeOK /\ HandlerInv(h)
      BY DEF ServiceInv, TypeOK, StoreTypeOK, LedgerWellFormed
    <3>2. Open(h) /\ CommitTransaction(h) /\ writes[h] = docs[h]
      BY <2>2, <3>1, CommitInv
    <3>3. /\ Drafted(ledger, docs[h]) /\ ledger' = ledger \cup docs[h]
          /\ \A d \in docs[h], t \in ledger : d.ReferenceID # t.ReferenceID
      BY <3>2, WritesAreCurrent DEF CommitTransaction
    <3>4. /\ \A d \in docs[h] : d.PhoneNumber = p =>
               BalanceOf(ledger', p) = BalanceOf(ledger, p) + Effect(d)
          /\ (\A d \in docs[h] : d.PhoneNumber # p) =>
               BalanceOf(ledger', p) = BalanceOf(ledger, p)
      BY <3>1, <3>3, BalancesAfter
    <3>5. \A d \in docs[h] : d.PhoneNumber = p =>
            d \in History(ledger', p) /\ ByReference(ledger, d.ReferenceID) = {}
      BY <3>3 DEF History, ByReference
    <3> QED
      BY <3>4, <3>5
  <2>3. ASSUME NEW h \in Handler, StepOf(h)
        PROVE  Moved(p)
    <3>1. TypeOK /\ HandlerInv(h)
      BY DEF ServiceInv
    <3>2. ledger' = ledger \/ \E t \in ledger' \ ledger : TRUE
      BY <2>3, <3>1, StepIsLocal
    <3> QED
      BY <2>1, <2>2, <2>3, <3>1, <3>2, StepAdds
  <2> QED
    BY <2>1, <2>3 DEF Next, StepOf, vars, storeVars
<1> QED
  BY <1>1, Invariance, PTL DEF Spec, MovesOncePerKey

\* All successes under one key tell of the same record, whether they executed it,
\* replayed it or lost a race for it, at whatever times they are given.
THEOREM OneRecordPerKey ==
  Spec => [](\A g, h \in Handler :
               /\ answer[g].result = "OK" /\ answer[h].result = "OK"
               /\ req[g].ref = req[h].ref
               => answer[g].tx = answer[h].tx)
PROOF
<1>1. ServiceInv => \A g, h \in Handler :
                      /\ answer[g].result = "OK" /\ answer[h].result = "OK"
                      /\ req[g].ref = req[h].ref
                      => answer[g].tx = answer[h].tx
  <2> SUFFICES ASSUME ServiceInv, NEW g \in Handler, NEW h \in Handler,
                      answer[g].result = "OK", answer[h].result = "OK",
                      req[g].ref = req[h].ref
               PROVE  answer[g].tx = answer[h].tx
    OBVIOUS
  <2>1. ShowsRecord(g) /\ ShowsRecord(h)
    BY DEF ServiceInv, HandlerInv, Answered
  <2> QED
    BY <2>1 DEF ShowsRecord, ServiceInv, LedgerWellFormed, WellFormed, UniqueIndexes, SameIndexKey
<1> QED
  BY <1>1, Invariance, PTL

-----------------------------------------------------------------------------
(* What every request being answered rests on. *)

\* Going on to a later point of the function, or to a later attempt, advances.
LEMMA LaterAdvances ==
  ASSUME NEW h \in Handler,
         local'[h].errReason = local[h].errReason,
         \/ local'[h].attempt > local[h].attempt
         \/ local'[h].attempt = local[h].attempt /\ local'[h].reruns > local[h].reruns
         \/ /\ local'[h].attempt = local[h].attempt /\ local'[h].reruns = local[h].reruns
            /\ Stage[pc'[h]] > Stage[pc[h]]
  PROVE  Advances(h)
PROOF
  BY DEF Advances

\* Each step of h advances h.
LEMMA StepAdvances ==
  ASSUME TypeOK, NEW h \in Handler, StepOf(h)
  PROVE  Advances(h)
PROOF
<1> USE DEF TypeOK, Goto
<1>1. /\ local[h] \in Local /\ pc[h] \in Control /\ MaxRetries \in Nat /\ MaxReruns \in Nat
      /\ local[h].attempt \in Nat /\ local[h].reruns \in Nat
  BY ServiceAssumption DEF Local
<1> DEFINE Kept == /\ local'[h].errReason = local[h].errReason
                   /\ local'[h].attempt = local[h].attempt
                   /\ local'[h].reruns = local[h].reruns
<1>2. ASSUME NEW l \in Control, pc'[h] = l, Kept, Stage[l] > Stage[pc[h]]
      PROVE  Advances(h)
  BY <1>2, LaterAdvances
<1>3. /\ Stage["idle"] = 0 /\ Stage["check"] = 1 /\ Stage["receiver"] = 2
      /\ Stage["wallet"] = 3 /\ Stage["attempt"] = 4 /\ Stage["insert"] = 5
      /\ Stage["commit"] = 6 /\ Stage["lookup"] = 7 /\ Stage["committed"] = 7
      /\ Stage["orphan"] = 8 /\ Stage["done"] = 9
  BY DEF Stage
<1>4. CASE Receive(h)
  BY <1>2, <1>3, <1>4 DEF Receive, Control
<1>5. ASSUME NEW error, Refuse(h, error), pc[h] \in {"check", "wallet", "attempt", "lookup"}
      PROVE  Advances(h)
  BY <1>2, <1>3, <1>5 DEF Refuse, Respond, Control
<1>6. CASE RefuseSelfTransfer(h) \/ WalletNotFound(h) \/ Exhausted(h)
  BY <1>5, <1>6 DEF RefuseSelfTransfer, WalletNotFound, Exhausted
<1>7. CASE Replay(h) \/ Lookup(h) \/ FirstTransaction(h)
  BY <1>2, <1>3, <1>7 DEF Replay, Lookup, FirstTransaction, RespondRecorded, Respond, Refuse,
                          Control
<1>8. CASE KnownPhone(h) \/ LookupReceiver(h)
  BY <1>1, <1>2, <1>3, <1>8 DEF KnownPhone, LookupReceiver, Local, Control
<1>9. CASE WalletFound(h)
  <2>1. CASE req[h].op = TypeWithdrawal
    BY <1>5, <1>9, <2>1 DEF WalletFound
  <2>2. CASE req[h].op # TypeWithdrawal
    BY <1>1, <1>2, <1>3, <1>9, <2>2 DEF WalletFound, Local, Control
  <2> QED
    BY <2>1, <2>2
<1>10. CASE DepositAttempt(h) \/ WithdrawalAttempt(h) \/ TransferAttempt(h) \/ FailureAttempt(h)
  <2>1. pc[h] = "attempt"
    BY <1>10 DEF DepositAttempt, WithdrawalAttempt, TransferAttempt, FailureAttempt, Attempting
  <2>2. ASSUME NEW D, Draft(h, D)
        PROVE  Advances(h)
    BY <1>2, <1>3, <2>1, <2>2 DEF Draft, Control
  <2>3. ASSUME ~local[h].errReason,
               local' = [local EXCEPT ![h] =
                           [@ EXCEPT !.errReason = TRUE, !.attempt = 0, !.reruns = 0]]
        PROVE  Advances(h)
    BY <1>1, <2>3 DEF Advances, Local
  <2> QED
    BY <1>5, <1>10, <2>1, <2>2, <2>3
       DEF DepositAttempt, WithdrawalAttempt, TransferAttempt, FailureAttempt
<1>11. CASE Insert(h)
  <2>1. PICK d \in Remaining(h) : InsertDocument(h, d) /\ Goto(h, AfterInsert(h, d))
    BY <1>11 DEF Insert
  <2>2. pc[h] = "insert" /\ UNCHANGED local
    BY <1>11 DEF Insert
  <2>3. CASE pc'[h] = "commit"
    BY <1>2, <1>3, <2>2, <2>3 DEF Control
  <2>4. CASE pc'[h] # "commit"
    <3>1. pc'[h] = "insert"
      BY <2>1, <2>4 DEF AfterInsert
    <3>2. Remaining(h)' = Remaining(h) \ {d}
      BY <2>1 DEF InsertDocument, Remaining, StoreTypeOK
    <3>3. Remaining(h)' \subseteq Remaining(h) /\ Remaining(h)' # Remaining(h)
      BY <2>1, <3>2
    <3> QED
      BY <2>2, <3>1, <3>3 DEF Advances
  <2> QED
    BY <2>3, <2>4
<1>12. CASE DuplicateReference(h)
  BY <1>2, <1>3, <1>12 DEF DuplicateReference, Respond, Control
<1>13. CASE DuplicateSequence(h)
  <2>1. /\ local'[h].errReason = local[h].errReason
        /\ local'[h].attempt = local[h].attempt + 1
    BY <1>1, <1>13 DEF DuplicateSequence, NextAttempt, Local
  <2> QED
    BY <1>1, <2>1, LaterAdvances
<1>14. CASE TransientError(h)
  <2>1. /\ local'[h].errReason = local[h].errReason
        /\ local'[h].attempt = local[h].attempt
        /\ local'[h].reruns = local[h].reruns + 1
    BY <1>1, <1>14 DEF TransientError, Local
  <2> QED
    BY <1>1, <2>1, LaterAdvances
<1>15. CASE Commit(h) \/ OrphanCommits(h) \/ OrphanAborts(h)
  BY <1>2, <1>3, <1>15 DEF Commit, OrphanCommits, OrphanAborts, Control
<1>16. CASE Committed(h)
  BY <1>2, <1>3, <1>16 DEF Committed, RespondCommitted, Respond, Control
<1>17. CASE Break(h)
  <2>1. pc'[h] \in {"orphan", "done"} /\ UNCHANGED local /\ pc[h] \notin {"idle", "orphan", "done"}
    BY <1>17 DEF Break
  <2> QED
    BY <1>1, <1>2, <1>3, <2>1 DEF Control
<1> QED
  BY <1>4, <1>6, <1>7, <1>8, <1>9, <1>10, <1>11, <1>12, <1>13, <1>14, <1>15, <1>16, <1>17
     DEF StepOf, Step, Failure

\* No request loops: each step of a handler brings it nearer to its end, and none
\* of another sets it back, whatever conflicts, fails or is rerun.
THEOREM LoopsAreBounded == Spec => EveryStepAdvances
PROOF
<1>1. TypeOK /\ [Next]_vars => \A h \in Handler : Untouched(h) \/ Advances(h)
  <2> SUFFICES ASSUME TypeOK, [Next]_vars, NEW h \in Handler
               PROVE  Untouched(h) \/ Advances(h)
    OBVIOUS
  <2>1. CASE UNCHANGED vars
    BY <2>1 DEF vars, storeVars, serviceVars, Untouched
  <2>2. ASSUME NEW g \in Handler, StepOf(g)
        PROVE  Untouched(h) \/ Advances(h)
    BY <2>2, StepIsLocal, StepAdvances
  <2> QED
    BY <2>1, <2>2 DEF Next, StepOf
<1> QED
  BY <1>1, TypeCorrect, PTL DEF Spec, EveryStepAdvances
=============================================================================
