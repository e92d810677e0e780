-------------------------- MODULE CaptureTheorems --------------------------
(***************************************************************************)
(* The events show the ledger.  Failed records change no balance, so the   *)
(* balance of a phone is the one its last POSTED record leaves; CaptureInv *)
(* says that repeated and overtaking events end with that record.          *)
(***************************************************************************)
EXTENDS ChangeCapture, RefinementTheorems, FiniteSetTheorems, SequenceTheorems,
        WellFoundedInduction

\* A set of numbers that is not empty has a least one.
LEMMA LeastNumber ==
  ASSUME NEW T, T \subseteq Nat, T # {}
  PROVE  \E n \in T : \A k \in T : n <= k
PROOF
<1>1. PICK n \in T : \A k \in T : <<k, n>> \notin OpToRel(<, Nat)
  BY NatLessThanWellFounded, WFMin, Zenon
<1>2. \A k \in T : ~(k < n)
  BY <1>1, Zenon DEF OpToRel
<1> QED
  BY <1>2

-----------------------------------------------------------------------------
(* Failed records change no balance. *)

\* After the record numbered m, or from the start if m is 0, all records of p are
\* failed: each of them leaves the balance there was then.
LEMMA FailedRecordsKeepBalance ==
  ASSUME NEW S, S \subseteq Transaction, WellFormed(S), NEW p \in Phone,
         NEW m \in Nat, NEW balance,
         \A t \in History(S, p) : t.SeqNumber > m => t.Status = StatusFailed,
         \/ m = 0 /\ balance = 0
         \/ \E u \in History(S, p) : u.SeqNumber = m /\ u.BalanceAfter = balance
  PROVE  \A t \in History(S, p) : t.SeqNumber >= m => t.BalanceAfter = balance
PROOF
<1> DEFINE Wrong(t) == t.SeqNumber >= m /\ t.BalanceAfter # balance
           T == {t.SeqNumber : t \in {v \in History(S, p) : Wrong(v)}}
<1>1. \A t \in History(S, p) :
        /\ t \in S /\ t \in Transaction /\ t.PhoneNumber = p
        /\ t.SeqNumber \in Nat \ {0} /\ t.BalanceBefore \in Int
  BY DEF History, Transaction
<1>2. SUFFICES ASSUME T # {}
               PROVE  FALSE
  OBVIOUS
<1>3. PICK n \in T : \A k \in T : n <= k
  <2>1. T \subseteq Nat
    BY <1>1
  <2> QED
    BY <1>2, <2>1, LeastNumber
<1>4. PICK t \in History(S, p) : Wrong(t) /\ t.SeqNumber = n
  BY <1>3
<1>5. n > m
  <2>1. CASE m = 0
    BY <1>1, <1>4, <2>1
  <2>2. ASSUME NEW u \in History(S, p), u.SeqNumber = m, u.BalanceAfter = balance
        PROVE  n > m
    <3>1. CASE n = m
      <4>1. t = u
        BY <1>1, <1>4, <2>2, <3>1 DEF WellFormed, UniqueIndexes, SameIndexKey, SameSequence
      <4> QED
        BY <1>4, <2>2, <4>1
    <3> QED
      BY <1>1, <1>4, <3>1
  <2> QED
    BY <2>1, <2>2
\* t is failed, so it leaves what the record before it left.
<1>6. t.BalanceAfter = t.BalanceBefore
  <2>1. t.Status = StatusFailed
    BY <1>4, <1>5
  <2> QED
    BY <1>1, <2>1 DEF WellFormed, SoundEntry, Effect
<1>7. CASE n = 1
  <2>1. m = 0 /\ balance = 0
    BY <1>1, <1>5, <1>7
  <2>2. t.BalanceBefore = 0
    BY <1>1, <1>4, <1>7 DEF WellFormed, Chained
  <2> QED
    BY <1>4, <1>6, <2>1, <2>2
<1>8. CASE n # 1
  <2>1. n \in Nat \ {0} /\ n - 1 \in Nat \ {0}
    BY <1>1, <1>4, <1>8
  <2>2. PICK v \in History(S, p) : v.SeqNumber = n - 1
    <3>1. NextSeq(S, p) \in Nat \ {0} /\ Seqs(S, p) = 1 .. (NextSeq(S, p) - 1)
      BY DEF WellFormed, Contiguous
    <3>2. n \in Seqs(S, p)
      BY <1>4 DEF Seqs
    <3>3. n - 1 \in Seqs(S, p)
      BY <2>1, <3>1, <3>2
    <3> QED
      BY <3>3 DEF Seqs
  <2>3. v.BalanceAfter = t.BalanceBefore
    <3>1. t.SeqNumber = v.SeqNumber + 1
      BY <1>4, <2>1, <2>2
    <3> QED
      BY <1>1, <2>2, <3>1 DEF WellFormed, Chained
  <2>4. Wrong(v)
    BY <1>4, <1>5, <1>6, <2>1, <2>2, <2>3
  <2>5. n - 1 \in T
    BY <2>2, <2>4
  <2> QED
    BY <1>3, <2>1, <2>5
<1> QED
  BY <1>7, <1>8

\* The balance of a phone is the one its last POSTED record leaves, and zero if it
\* has none: what the failed records after it add is nothing.
LEMMA LastPostedIsBalance ==
  ASSUME NEW S, S \subseteq Transaction, WellFormed(S), NEW p \in Phone
  PROVE  /\ \A u \in Posted(S) :
              /\ u.PhoneNumber = p
              /\ \A t \in Posted(S) : t.PhoneNumber = p => t.SeqNumber <= u.SeqNumber
              => BalanceOf(S, p) = u.BalanceAfter
         /\ (\A t \in Posted(S) : t.PhoneNumber # p) => BalanceOf(S, p) = 0
PROOF
<1>1. \A t \in History(S, p) : /\ t \in S /\ t.PhoneNumber = p /\ t.SeqNumber \in Nat
                               /\ t.Status \in {StatusCompleted, StatusFailed}
  BY DEF History, Transaction
<1>2. History(S, p) # {} =>
        /\ Latest(S, p) \in History(S, p) /\ BalanceOf(S, p) = Latest(S, p).BalanceAfter
        /\ \A u \in History(S, p) : u.SeqNumber <= Latest(S, p).SeqNumber
  BY LatestIsTip DEF WellFormed, BalanceOf
<1>3. ASSUME NEW u \in Posted(S), u.PhoneNumber = p,
             \A t \in Posted(S) : t.PhoneNumber = p => t.SeqNumber <= u.SeqNumber
      PROVE  BalanceOf(S, p) = u.BalanceAfter
  <2>1. u \in History(S, p)
    BY <1>3 DEF Posted, History
  <2>2. \A t \in History(S, p) : t.SeqNumber > u.SeqNumber => t.Status = StatusFailed
    BY <1>1, <1>3, <2>1 DEF Posted
  <2>3. \A t \in History(S, p) : t.SeqNumber >= u.SeqNumber => t.BalanceAfter = u.BalanceAfter
    BY <1>1, <2>1, <2>2, FailedRecordsKeepBalance
  <2> QED
    BY <1>1, <1>2, <2>1, <2>3
<1>4. ASSUME \A t \in Posted(S) : t.PhoneNumber # p
      PROVE  BalanceOf(S, p) = 0
  <2>1. CASE History(S, p) = {}
    BY <2>1 DEF BalanceOf
  <2>2. CASE History(S, p) # {}
    <3>1. \A t \in History(S, p) : t.Status = StatusFailed
      BY <1>1, <1>4 DEF Posted
    <3>2. \A t \in History(S, p) : t.SeqNumber >= 0 => t.BalanceAfter = 0
      BY <3>1, FailedRecordsKeepBalance
    <3> QED
      BY <1>1, <1>2, <2>2, <3>2
  <2> QED
    BY <2>1, <2>2
<1> QED
  BY <1>3, <1>4

-----------------------------------------------------------------------------
(* The stream is the ledger's. *)

\* An ordering of a finite set lists each of its elements once.
LEMMA OrderingListsAll ==
  ASSUME NEW S, IsFiniteSet(S), NEW s \in SetToSeqs(S)
  PROVE  /\ s \in Seq(S) /\ Range(s) = S
         /\ \A i, j \in DOMAIN s : s[i] = s[j] => i = j
PROOF
<1> DEFINE D == 1 .. Cardinality(S)
<1>1. s \in [D -> S] /\ \A i, j \in D : i # j => s[i] # s[j]
  BY DEF SetToSeqs
<1>2. Cardinality(S) \in Nat
  BY FS_CardinalityType
<1>3. s \in Injection(D, S)
  BY <1>1 DEF Injection, IsInjective
<1>4. Cardinality(D) = Cardinality(S)
  BY <1>2, FS_Interval
<1>5. s \in Surjection(D, S)
  BY <1>3, <1>4, FS_Injection, Zenon
<1> QED
  BY <1>1, <1>2, <1>5, SeqDef DEF Surjection, Range

\* What a step of the service commits are at most two records, of different
\* phones, each numbered after the records its phone has.
LEMMA RecordsAdded ==
  ASSUME ServiceInv, OriginInv, NEW h \in Handler, StepOf(h)
  PROVE  /\ ledger \subseteq ledger' /\ IsFiniteSet(ledger' \ ledger)
         /\ \A d \in ledger' \ ledger, t \in ledger :
              t.PhoneNumber = d.PhoneNumber => t.SeqNumber < d.SeqNumber
         /\ \A d, e \in ledger' \ ledger : d.PhoneNumber = e.PhoneNumber => d = e
PROOF
<1>1. TypeOK /\ HandlerInv(h) /\ DocsMadeFor(h) /\ ledger \subseteq Transaction
  BY DEF ServiceInv, OriginInv, TypeOK, StoreTypeOK
<1>2. ledger \subseteq ledger'
  BY <1>1, StepIsLocal
<1>3. CASE ledger' \ ledger = {}
  BY <1>2, <1>3, FS_EmptySet
<1>4. ASSUME Commit(h) \/ OrphanCommits(h)
      PROVE  /\ IsFiniteSet(ledger' \ ledger)
             /\ \A d \in ledger' \ ledger, t \in ledger :
                  t.PhoneNumber = d.PhoneNumber => t.SeqNumber < d.SeqNumber
             /\ \A d, e \in ledger' \ ledger : d.PhoneNumber = e.PhoneNumber => d = e
  <2>1. /\ Open(h) /\ CommitTransaction(h) /\ writes[h] = docs[h]
        /\ Drafted(ledger, docs[h]) /\ ledger' = ledger \cup docs[h]
    BY <1>1, <1>4, CommitInv, WritesAreCurrent DEF CommitTransaction
  <2>2. IsFiniteSet(docs[h])
    <3>1. CASE docs[h] = {}
      BY <3>1, FS_EmptySet
    <3>2. CASE docs[h] # {}
      <4>1. TransfersPaired(docs[h]) /\ \A d \in docs[h] : MadeFor(req[h], d)
        BY <1>1, <2>1 DEF HandlerInv, Session, OpenTransaction, DocsMadeFor
      <4>2. OneOperation(req[h], docs[h])
        BY <2>1, <3>2, <4>1, DocsAreOneOperation
      <4>3. PICK w, d \in docs[h] : docs[h] = {w} \cup {d}
        BY <4>2 DEF OneOperation
      <4>4. IsFiniteSet({w})
        BY FS_Singleton
      <4>5. IsFiniteSet({w} \cup {d})
        BY <4>4, FS_AddElement, Zenon
      <4> QED
        BY <4>3, <4>5, Zenon
    <3> QED
      BY <3>1, <3>2
  <2>3. IsFiniteSet(ledger' \ ledger)
    BY <2>1, <2>2, FS_Subset
  <2>4. ASSUME NEW d \in docs[h], NEW t \in ledger, t.PhoneNumber = d.PhoneNumber
        PROVE  t.SeqNumber < d.SeqNumber
    <3>1. d.PhoneNumber \in Phone /\ d.SeqNumber = NextSeq(ledger, d.PhoneNumber)
      BY <2>1 DEF Drafted, Transaction
    <3>2. /\ NextSeq(ledger, d.PhoneNumber) \in Nat \ {0}
          /\ Seqs(ledger, d.PhoneNumber) = 1 .. (NextSeq(ledger, d.PhoneNumber) - 1)
      BY <3>1 DEF ServiceInv, LedgerWellFormed, WellFormed, Contiguous
    <3>3. t.SeqNumber \in Seqs(ledger, d.PhoneNumber)
      BY <2>4 DEF Seqs, History
    <3> QED
      BY <3>1, <3>2, <3>3
  <2> QED
    BY <2>1, <2>3, <2>4 DEF Drafted
<1> QED
  BY <1>1, <1>2, <1>3, <1>4, StepAdds

\* The change stream grows by what a step commits, and stays in chain order.
LEMMA ServeKeepsStream ==
  ASSUME ServiceInv, OriginInv, CaptureTypeOK, StreamIsLedger, NEW h \in Handler, Serve(h)
  PROVE  /\ StreamIsLedger' /\ stream' \in Seq(Transaction)
         /\ Len(stream) <= Len(stream')
         /\ \A k \in DOMAIN stream : k \in DOMAIN stream' /\ stream'[k] = stream[k]
PROOF
<1> DEFINE New == Posted(ledger' \ ledger)
<1>1. StepOf(h)
  BY DEF Serve, StepOf
<1>2. PICK s \in SetToSeqs(New) : stream' = stream \o s
  BY DEF Serve
<1>3. /\ ledger \subseteq ledger' /\ IsFiniteSet(New) /\ New \subseteq ledger' \ ledger
      /\ \A d \in New, t \in ledger :
           t.PhoneNumber = d.PhoneNumber => t.SeqNumber < d.SeqNumber
      /\ \A d, e \in New : d.PhoneNumber = e.PhoneNumber => d = e
  <2>1. New \subseteq ledger' \ ledger
    BY DEF Posted
  <2> QED
    BY <1>1, <2>1, RecordsAdded, FS_Subset
<1>4. New \subseteq Transaction
  <2>1. ledger' \subseteq Transaction
    BY <1>1, StepTyped DEF ServiceInv, TypeOK, StoreTypeOK
  <2> QED
    BY <1>3, <2>1
<1>5. /\ s \in Seq(New) /\ Range(s) = New
      /\ \A i, j \in DOMAIN s : s[i] = s[j] => i = j
  BY <1>2, <1>3, OrderingListsAll
<1> HIDE DEF New
<1>6. s \in Seq(Transaction) /\ stream \in Seq(Transaction)
  BY <1>4, <1>5, SeqMonotonic DEF CaptureTypeOK
<1>7. /\ stream' \in Seq(Transaction) /\ Len(stream') = Len(stream) + Len(s)
      /\ Len(stream) \in Nat /\ Len(s) \in Nat
      /\ DOMAIN stream = 1 .. Len(stream) /\ DOMAIN s = 1 .. Len(s)
      /\ DOMAIN stream' = 1 .. Len(stream')
  BY <1>2, <1>6, ConcatProperties, LenProperties
<1>8. \A k \in 1 .. Len(stream') : stream'[k] = IF k <= Len(stream) THEN stream[k]
                                                                   ELSE s[k - Len(stream)]
  BY <1>2, <1>6, <1>7, ConcatProperties
<1>9. \A k \in DOMAIN stream : k \in DOMAIN stream' /\ stream'[k] = stream[k]
  BY <1>7, <1>8
<1>10. \A k \in DOMAIN stream' \ DOMAIN stream :
         k - Len(stream) \in DOMAIN s /\ stream'[k] = s[k - Len(stream)]
  BY <1>7, <1>8
<1>11. Range(stream') = Posted(ledger')
  <2>1. Range(stream') = Range(stream) \cup Range(s)
    <3>1. \A i \in DOMAIN s : /\ i + Len(stream) \in DOMAIN stream'
                              /\ stream'[i + Len(stream)] = s[i]
      BY <1>7, <1>8
    <3> QED
      BY <1>9, <1>10, <3>1 DEF Range
  <2>2. Posted(ledger') = Posted(ledger) \cup New
    BY <1>3 DEF Posted, New
  <2> QED
    BY <1>5, <2>1, <2>2 DEF StreamIsLedger
<1>12. InChainOrder(stream')
  <2> SUFFICES ASSUME NEW i \in DOMAIN stream', NEW j \in DOMAIN stream', i < j,
                      stream'[i].PhoneNumber = stream'[j].PhoneNumber
               PROVE  stream'[i].SeqNumber < stream'[j].SeqNumber
    BY DEF InChainOrder
  <2>1. CASE j \in DOMAIN stream
    <3>1. i \in DOMAIN stream
      BY <1>7, <2>1
    <3> QED
      BY <1>9, <2>1, <3>1 DEF StreamIsLedger, InChainOrder
  <2>2. CASE j \notin DOMAIN stream
    <3>1. j - Len(stream) \in DOMAIN s /\ stream'[j] = s[j - Len(stream)] /\ stream'[j] \in New
      BY <1>5, <1>10, <2>2 DEF Range
    <3>2. CASE i \in DOMAIN stream
      <4>1. stream'[i] \in ledger
        BY <1>9, <3>2 DEF StreamIsLedger, Range, Posted
      <4> QED
        BY <1>3, <3>1, <4>1
    <3>3. CASE i \notin DOMAIN stream
      <4>1. i - Len(stream) \in DOMAIN s /\ stream'[i] = s[i - Len(stream)] /\ stream'[i] \in New
        BY <1>5, <1>10, <3>3 DEF Range
      <4>2. i - Len(stream) = j - Len(stream)
        BY <1>3, <1>5, <3>1, <4>1
      <4> QED
        BY <1>7, <4>2
    <3> QED
      BY <3>2, <3>3
  <2> QED
    BY <2>1, <2>2
<1> QED
  BY <1>7, <1>9, <1>11, <1>12 DEF StreamIsLedger

-----------------------------------------------------------------------------
(* The events are the stream's. *)

\* What the types say of the two sequences.
LEMMA SequencesTyped ==
  ASSUME CaptureTypeOK
  PROVE  /\ Len(stream) \in Nat /\ DOMAIN stream = 1 .. Len(stream)
         /\ Len(topic) \in Nat /\ DOMAIN topic = 1 .. Len(topic)
         /\ published \in Nat /\ published <= Len(stream)
         /\ pending \subseteq DOMAIN topic
         /\ \A k \in DOMAIN stream : stream[k] \in Transaction
         /\ \A i \in DOMAIN topic : topic[i] \in Event
PROOF
<1>1. stream \in Seq(Transaction) /\ topic \in Seq(Event)
  BY DEF CaptureTypeOK
<1> QED
  BY <1>1, LenProperties, ElementOfSeq DEF CaptureTypeOK

\* The service commits; the topic stays as it is.
LEMMA ServeKeepsEvents ==
  ASSUME CaptureTypeOK, CaptureInv, UNCHANGED <<published, topic, pending, projection>>,
         \A k \in DOMAIN stream : k \in DOMAIN stream' /\ stream'[k] = stream[k]
  PROVE  /\ EventsAreOfStream' /\ LastEventIsLatest'
         /\ ConsumedInOrder' /\ ShowsLastApplied'
PROOF
<1>1. \A k \in 1 .. published : k \in DOMAIN stream
  BY SequencesTyped
<1>2. EventsAreOfStream'
  BY DEF CaptureInv, EventsAreOfStream
<1>3. LastEventIsLatest'
  <2> SUFFICES ASSUME NEW w \in WalletID, \E k \in 1 .. published : stream[k].WalletID = w
               PROVE  \E i \in DOMAIN topic, m \in DOMAIN stream' :
                        /\ LastEvent(w, i) /\ topic[i] = EventOf(stream'[m])
                        /\ \A k \in 1 .. published : stream[k].WalletID = w => k <= m
    BY <1>1 DEF LastEventIsLatest, LastEvent
  <2>1. PICK i \in DOMAIN topic, m \in DOMAIN stream :
          /\ LastEvent(w, i) /\ topic[i] = EventOf(stream[m])
          /\ \A k \in 1 .. published : stream[k].WalletID = w => k <= m
    BY DEF CaptureInv, LastEventIsLatest
  <2> QED
    BY <2>1
<1>4. ConsumedInOrder' /\ ShowsLastApplied'
  BY DEF CaptureInv, ConsumedInOrder, ShowsLastApplied, SamePartition, LastEvent
<1> QED
  BY <1>2, <1>3, <1>4

\* The event published is the last of its wallet, and as late as it should be.
LEMMA PublishKeepsEvents ==
  ASSUME CaptureTypeOK, CaptureInv, Publish
  PROVE  CaptureTypeOK' /\ CaptureInv'
PROOF
<1> DEFINE n == published + 1
           e == EventOf(stream[n])
<1> PICK l \in Nat : l = Len(topic) + 1
  BY SequencesTyped
<1>1. /\ n \in DOMAIN stream /\ published' = n /\ topic' = Append(topic, e)
      /\ UNCHANGED <<vars, stream, projection, rewinds>>
  BY SequencesTyped DEF Publish
<1>2. e \in Event
  BY <1>1, SequencesTyped DEF EventOf, Event, Transaction
<1>3. /\ topic' \in Seq(Event) /\ Len(topic') = l /\ DOMAIN topic' = DOMAIN topic \cup {l}
      /\ l \notin DOMAIN topic /\ topic'[l] = e
      /\ \A i \in DOMAIN topic : i < l /\ topic'[i] = topic[i]
  <2>1. topic \in Seq(Event)
    BY DEF CaptureTypeOK
  <2>2. /\ topic' \in Seq(Event) /\ Len(topic') = Len(topic) + 1 /\ topic'[l] = e
        /\ \A i \in 1 .. Len(topic) : topic'[i] = topic[i]
    BY <1>1, <1>2, <2>1, AppendProperties
  <2> QED
    BY <2>2, SequencesTyped, LenProperties
<1>4. pending' = pending \cup {l}
  BY <1>3 DEF Publish
<1>5. CaptureTypeOK'
  <2>1. TypeOK'
    BY <1>1 DEF CaptureTypeOK, vars, storeVars, serviceVars, TypeOK, StoreTypeOK
  <2>2. n \in 0 .. Len(stream) /\ pending' \subseteq 1 .. l
    BY <1>1, <1>4, SequencesTyped
  <2> QED
    BY <1>1, <1>3, <2>1, <2>2 DEF CaptureTypeOK
<1>6. StreamIsLedger'
  BY <1>1 DEF CaptureInv, StreamIsLedger, vars, storeVars, Posted, InChainOrder, Range
<1>7. EventsAreOfStream'
  BY <1>1, <1>3 DEF CaptureInv, EventsAreOfStream
<1>8. LastEventIsLatest'
  <2> SUFFICES ASSUME NEW w \in WalletID, \E k \in 1 .. n : stream[k].WalletID = w
               PROVE  \E i \in DOMAIN topic', m \in DOMAIN stream :
                        /\ LastEvent(w, i)' /\ topic'[i] = EventOf(stream[m])
                        /\ \A k \in 1 .. n : stream[k].WalletID = w => k <= m
    BY <1>1 DEF LastEventIsLatest
  <2>1. CASE stream[n].WalletID = w
    <3>1. LastEvent(w, l)'
      BY <1>3, <2>1, SequencesTyped DEF LastEvent, EventOf
    <3> QED
      BY <1>1, <1>3, <3>1, SequencesTyped
  <2>2. CASE stream[n].WalletID # w
    <3>1. \A k \in 1 .. n : stream[k].WalletID = w => k \in 1 .. published
      BY <2>2, SequencesTyped
    <3>2. PICK i \in DOMAIN topic, m \in DOMAIN stream :
            /\ LastEvent(w, i) /\ topic[i] = EventOf(stream[m])
            /\ \A k \in 1 .. published : stream[k].WalletID = w => k <= m
      BY <3>1 DEF CaptureInv, LastEventIsLatest
    <3>3. LastEvent(w, i)'
      BY <1>3, <2>2, <3>2 DEF LastEvent, EventOf
    <3> QED
      BY <1>3, <3>1, <3>2, <3>3
  <2> QED
    BY <2>1, <2>2
<1>9. ConsumedInOrder'
  <2> SUFFICES ASSUME NEW i \in pending', NEW j \in DOMAIN topic', i < j, SamePartition(i, j)'
               PROVE  j \in pending'
    BY DEF ConsumedInOrder
  <2>1. CASE j = l
    BY <1>4, <2>1
  <2>2. CASE j # l
    <3>1. i \in pending /\ j \in DOMAIN topic
      BY <1>3, <1>4, <2>2, SequencesTyped
    <3>2. SamePartition(i, j)
      BY <1>3, <3>1, SequencesTyped DEF SamePartition
    <3> QED
      BY <1>4, <3>1, <3>2 DEF CaptureInv, ConsumedInOrder
  <2> QED
    BY <2>1, <2>2
<1>10. ShowsLastApplied'
  <2> SUFFICES ASSUME NEW w \in WalletID, \A j \in pending' : topic'[j].wallet # w
               PROVE  \/ projection[w] = 0 /\ \A j \in DOMAIN topic' : topic'[j].wallet # w
                      \/ \E i \in DOMAIN topic' : /\ LastEvent(w, i)'
                                                  /\ projection[w] = topic'[i].balance
    BY <1>1 DEF ShowsLastApplied
  <2>1. topic'[l].wallet # w /\ \A j \in pending : topic[j].wallet # w
    BY <1>3, <1>4, SequencesTyped
  <2>2. \/ projection[w] = 0 /\ \A j \in DOMAIN topic : topic[j].wallet # w
        \/ \E i \in DOMAIN topic : LastEvent(w, i) /\ projection[w] = topic[i].balance
    BY <2>1 DEF CaptureInv, ShowsLastApplied
  <2> QED
    BY <1>3, <2>1, <2>2 DEF LastEvent
<1> QED
  BY <1>5, <1>6, <1>7, <1>8, <1>9, <1>10 DEF CaptureInv

\* Publishing again from an earlier record loses nothing of what was published.
LEMMA RewindKeepsEvents ==
  ASSUME CaptureTypeOK, CaptureInv, Rewind
  PROVE  CaptureTypeOK' /\ CaptureInv'
PROOF
<1>1. /\ published' \in Nat /\ published' < published /\ rewinds' \in 0 .. MaxRewinds
      /\ UNCHANGED <<vars, stream, topic, pending, projection>>
  <2>1. rewinds \in 0 .. MaxRewinds /\ rewinds < MaxRewinds /\ MaxRewinds \in Nat
    BY CaptureAssumption DEF CaptureTypeOK, Rewind
  <2> QED
    BY <2>1, SequencesTyped DEF Rewind
<1>2. CaptureTypeOK'
  <2>1. TypeOK'
    BY <1>1 DEF CaptureTypeOK, vars, storeVars, serviceVars, TypeOK, StoreTypeOK
  <2> QED
    BY <1>1, <2>1, SequencesTyped DEF CaptureTypeOK
<1>3. StreamIsLedger'
  BY <1>1 DEF CaptureInv, StreamIsLedger, vars, storeVars, Posted, InChainOrder, Range
<1>4. EventsAreOfStream' /\ ConsumedInOrder' /\ ShowsLastApplied'
  BY <1>1 DEF CaptureInv, EventsAreOfStream, ConsumedInOrder, ShowsLastApplied, SamePartition,
              LastEvent
<1>5. LastEventIsLatest'
  <2>1. 1 .. published' \subseteq 1 .. published
    BY <1>1, SequencesTyped
  <2> QED
    BY <1>1, <2>1 DEF CaptureInv, LastEventIsLatest, LastEvent
<1> QED
  BY <1>2, <1>3, <1>4, <1>5 DEF CaptureInv

\* A wallet takes its oldest pending event, and shows its last one when it has
\* taken them all.
LEMMA ApplyKeepsEvents ==
  ASSUME CaptureTypeOK, CaptureInv, Apply
  PROVE  CaptureTypeOK' /\ CaptureInv'
PROOF
<1>1. PICK i \in pending :
        /\ \A j \in pending : j < i => ~SamePartition(i, j)
        /\ projection' = [projection EXCEPT ![topic[i].wallet] = topic[i].balance]
        /\ pending' = pending \ {i}
  BY DEF Apply
<1>2. UNCHANGED <<vars, stream, published, topic, rewinds>>
  BY DEF Apply
<1>3. i \in DOMAIN topic /\ topic[i].wallet \in WalletID /\ topic[i].balance \in Int
  BY SequencesTyped DEF Event
<1>4. CaptureTypeOK'
  <2>1. TypeOK'
    BY <1>2 DEF CaptureTypeOK, vars, storeVars, serviceVars, TypeOK, StoreTypeOK
  <2> QED
    BY <1>1, <1>2, <1>3, <2>1 DEF CaptureTypeOK
<1>5. StreamIsLedger' /\ EventsAreOfStream' /\ LastEventIsLatest'
  BY <1>2 DEF CaptureInv, StreamIsLedger, EventsAreOfStream, LastEventIsLatest, LastEvent, vars,
              storeVars, Posted, InChainOrder, Range
<1>6. ConsumedInOrder'
  <2> SUFFICES ASSUME NEW j \in pending', NEW k \in DOMAIN topic, j < k, SamePartition(j, k)
               PROVE  k \in pending'
    BY <1>2 DEF ConsumedInOrder, SamePartition
  <2>1. j \in pending /\ k \in pending
    BY <1>1 DEF CaptureInv, ConsumedInOrder
  <2>2. k # i
    BY <1>1, <2>1 DEF SamePartition
  <2> QED
    BY <1>1, <2>1, <2>2
<1>7. ShowsLastApplied'
  <2> SUFFICES ASSUME NEW w \in WalletID, \A j \in pending' : topic[j].wallet # w
               PROVE  \/ projection'[w] = 0 /\ \A j \in DOMAIN topic : topic[j].wallet # w
                      \/ \E j \in DOMAIN topic : /\ LastEvent(w, j)
                                                 /\ projection'[w] = topic[j].balance
    BY <1>2 DEF ShowsLastApplied, LastEvent
  <2>1. CASE topic[i].wallet = w
    <3>1. LastEvent(w, i)
      <4> SUFFICES ASSUME NEW j \in DOMAIN topic, topic[j].wallet = w, i < j
                   PROVE  FALSE
        BY <1>3, <2>1, SequencesTyped DEF LastEvent
      <4>1. SamePartition(i, j)
        BY <2>1 DEF SamePartition, PartitionKey
      <4>2. j \in pending
        BY <4>1 DEF CaptureInv, ConsumedInOrder
      <4> QED
        BY <1>1, <1>3, <4>2, SequencesTyped
    <3>2. projection'[w] = topic[i].balance
      BY <1>1, <2>1 DEF CaptureTypeOK
    <3> QED
      BY <1>3, <3>1, <3>2
  <2>2. CASE topic[i].wallet # w
    <3>1. \A j \in pending : topic[j].wallet # w
      BY <1>1, <2>2
    <3>2. projection'[w] = projection[w]
      BY <1>1, <2>2 DEF CaptureTypeOK
    <3> QED
      BY <3>1, <3>2 DEF CaptureInv, ShowsLastApplied
  <2> QED
    BY <2>1, <2>2
<1> QED
  BY <1>4, <1>5, <1>6, <1>7 DEF CaptureInv

\* A wallet takes all its events again from an older one on.
LEMMA RedeliverKeepsEvents ==
  ASSUME CaptureTypeOK, CaptureInv, Redeliver
  PROVE  CaptureTypeOK' /\ CaptureInv'
PROOF
<1>1. PICK i \in DOMAIN topic \ pending :
        pending' = pending \cup {j \in DOMAIN topic : j >= i /\ SamePartition(i, j)}
  BY DEF Redeliver
<1>2. UNCHANGED <<vars, stream, published, topic, projection>>
  BY DEF Redeliver
<1>3. CaptureTypeOK'
  <2>1. TypeOK'
    BY <1>2 DEF CaptureTypeOK, vars, storeVars, serviceVars, TypeOK, StoreTypeOK
  <2>2. rewinds' \in 0 .. MaxRewinds
    BY CaptureAssumption DEF CaptureTypeOK, Redeliver
  <2> QED
    BY <1>1, <1>2, <2>1, <2>2, SequencesTyped DEF CaptureTypeOK
<1>4. StreamIsLedger' /\ EventsAreOfStream' /\ LastEventIsLatest'
  BY <1>2 DEF CaptureInv, StreamIsLedger, EventsAreOfStream, LastEventIsLatest, LastEvent, vars,
              storeVars, Posted, InChainOrder, Range
<1>5. ConsumedInOrder'
  <2> SUFFICES ASSUME NEW j \in pending', NEW k \in DOMAIN topic, j < k, SamePartition(j, k)
               PROVE  k \in pending'
    BY <1>2 DEF ConsumedInOrder, SamePartition
  <2>1. CASE j \in pending
    BY <1>1, <2>1 DEF CaptureInv, ConsumedInOrder
  <2>2. CASE j \notin pending
    BY <1>1, <2>2, SequencesTyped DEF SamePartition
  <2> QED
    BY <2>1, <2>2
<1>6. ShowsLastApplied'
  <2> SUFFICES ASSUME NEW w \in WalletID, \A j \in pending' : topic[j].wallet # w
               PROVE  \/ projection[w] = 0 /\ \A j \in DOMAIN topic : topic[j].wallet # w
                      \/ \E j \in DOMAIN topic : /\ LastEvent(w, j)
                                                 /\ projection[w] = topic[j].balance
    BY <1>2 DEF ShowsLastApplied, LastEvent
  <2>1. \A j \in pending : topic[j].wallet # w
    BY <1>1
  <2> QED
    BY <2>1 DEF CaptureInv, ShowsLastApplied
<1> QED
  BY <1>3, <1>4, <1>5, <1>6 DEF CaptureInv

-----------------------------------------------------------------------------
\* Connector, topic and consumer read the ledger and never touch the service: its
\* steps are those of Spec, so whatever holds of the service holds with them.
THEOREM CaptureImplementsService == CaptureSpec => Spec
PROOF
<1>1. CaptureInit => Init
  BY DEF CaptureInit
<1>2. [CaptureNext]_allVars => [Next]_vars
  BY DEF CaptureNext, allVars, Serve, Next, Publish, Rewind, Apply, Redeliver
<1> QED
  BY <1>1, <1>2, PTL DEF CaptureSpec, Spec

\* The pipeline keeps its types and CaptureInv, on any correct initial ledger.
THEOREM CaptureInvariance == CaptureSpec => [](CaptureTypeOK /\ CaptureInv)
PROOF
<1>1. CaptureInit /\ ServiceInv => CaptureTypeOK /\ CaptureInv
  <2> SUFFICES ASSUME CaptureInit, ServiceInv
               PROVE  CaptureTypeOK /\ CaptureInv
    OBVIOUS
  <2>1. stream \in SetToSeqs(Posted(ledger)) /\ InChainOrder(stream)
    BY DEF CaptureInit
  <2>2. IsFiniteSet(Posted(ledger)) /\ Posted(ledger) \subseteq Transaction
    <3>1. ledger \in Seeds
      BY DEF CaptureInit, Init
    <3>2. Posted(ledger) \subseteq ledger
      BY DEF Posted
    <3> QED
      BY <3>1, <3>2, CaptureAssumption, ServiceAssumption, FS_Subset
  <2>3. stream \in Seq(Transaction) /\ Range(stream) = Posted(ledger)
    BY <2>1, <2>2, OrderingListsAll, SeqMonotonic
  <2>4. topic \in Seq(Event) /\ Len(topic) = 0 /\ DOMAIN topic = {}
    BY EmptySeq DEF CaptureInit
  <2>5. Len(stream) \in Nat /\ 0 \in 0 .. MaxRewinds
    BY <2>3, LenProperties, CaptureAssumption
  <2>6. CaptureTypeOK
    BY <2>3, <2>4, <2>5 DEF CaptureInit, CaptureTypeOK, ServiceInv
  <2>7. EventsAreOfStream /\ ConsumedInOrder /\ ShowsLastApplied
    BY <2>4 DEF CaptureInit, EventsAreOfStream, ConsumedInOrder, ShowsLastApplied
  <2>8. LastEventIsLatest
    BY DEF CaptureInit, LastEventIsLatest
  <2> QED
    BY <2>1, <2>3, <2>6, <2>7, <2>8 DEF CaptureInv, StreamIsLedger
<1>2. /\ ServiceInv /\ OriginInv /\ CaptureTypeOK /\ CaptureInv /\ [CaptureNext]_allVars
      => (CaptureTypeOK /\ CaptureInv)'
  <2> SUFFICES ASSUME ServiceInv, OriginInv, CaptureTypeOK, CaptureInv, [CaptureNext]_allVars
               PROVE  CaptureTypeOK' /\ CaptureInv'
    OBVIOUS
  <2>1. ASSUME NEW h \in Handler, Serve(h)
        PROVE  CaptureTypeOK' /\ CaptureInv'
    <3>1. /\ StreamIsLedger' /\ stream' \in Seq(Transaction) /\ Len(stream) <= Len(stream')
          /\ \A k \in DOMAIN stream : k \in DOMAIN stream' /\ stream'[k] = stream[k]
      BY <2>1, ServeKeepsStream DEF CaptureInv
    <3>2. UNCHANGED <<published, topic, pending, projection, rewinds>>
      BY <2>1 DEF Serve
    <3>3. TypeOK'
      BY <2>1, StepTyped DEF Serve, StepOf, ServiceInv
    <3>4. CaptureTypeOK'
      <4>1. published \in 0 .. Len(stream')
        BY <3>1, SequencesTyped, LenProperties
      <4> QED
        BY <3>1, <3>2, <3>3, <4>1 DEF CaptureTypeOK
    <3>5. EventsAreOfStream' /\ LastEventIsLatest' /\ ConsumedInOrder' /\ ShowsLastApplied'
      BY <3>1, <3>2, ServeKeepsEvents
    <3> QED
      BY <3>1, <3>4, <3>5 DEF CaptureInv
  <2>2. CASE UNCHANGED allVars
    BY <2>2 DEF allVars, captureVars, vars, storeVars, serviceVars, CaptureTypeOK, TypeOK,
                StoreTypeOK, CaptureInv, StreamIsLedger, EventsAreOfStream, LastEventIsLatest,
                LastEvent, ConsumedInOrder, ShowsLastApplied, Posted, InChainOrder, Range,
                SamePartition
  <2> QED
    BY <2>1, <2>2, PublishKeepsEvents, RewindKeepsEvents, ApplyKeepsEvents, RedeliverKeepsEvents
       DEF CaptureNext
<1> QED
  BY <1>1, <1>2, CaptureImplementsService, Invariance, Origins, PTL DEF CaptureSpec

\* Every variable of the pipeline keeps its type.
THEOREM CaptureTypeCorrect == CaptureSpec => []CaptureTypeOK
PROOF
  BY CaptureInvariance, PTL

\* Where Wallet gives each phone one id, and no two phones the same, a pipeline
\* that has caught up shows the balances of the ledger: for any number of
\* requests, commits in any order, and restarts of connector and consumer.
THEOREM CaughtUp ==
  ASSUME NEW W, WalletsStable(W),
         \A p, q \in Phone : W[p] = W[q] => p = q
  PROVE  CaptureSpec => []CaughtUpShowsLedger
PROOF
<1>1. ServiceInv /\ WalletInv(W) /\ CaptureTypeOK /\ CaptureInv => CaughtUpShowsLedger
  <2> SUFFICES ASSUME ServiceInv, WalletInv(W), CaptureTypeOK, CaptureInv,
                      published = Len(stream), pending = {},
                      NEW p \in Phone, NEW t \in History(ledger, p)
               PROVE  projection[t.WalletID] = BalanceOf(ledger, p)
    BY DEF CaughtUpShowsLedger, Shown
  <2> DEFINE w == W[p]
  <2>1. /\ ledger \subseteq Transaction /\ WellFormed(ledger)
        /\ \A u \in ledger : u.WalletID = W[u.PhoneNumber]
    BY DEF ServiceInv, TypeOK, StoreTypeOK, LedgerWellFormed, WalletInv
  <2>2. t.WalletID = w /\ w \in WalletID
    BY <2>1 DEF History, Transaction
  <2>3. \A k \in DOMAIN stream : stream[k] \in Posted(ledger) /\ stream[k] \in Transaction
    BY SequencesTyped DEF CaptureInv, StreamIsLedger, Range
  <2>4. \A k \in DOMAIN stream : stream[k].WalletID = w <=> stream[k].PhoneNumber = p
    BY <2>1, <2>3 DEF Posted, Transaction
  <2>5. CASE \A u \in Posted(ledger) : u.PhoneNumber # p
    <3>1. \A j \in DOMAIN topic : topic[j].wallet # w
      BY <2>3, <2>4, <2>5 DEF CaptureInv, EventsAreOfStream, EventOf
    <3>2. projection[w] = 0
      BY <2>2, <3>1 DEF CaptureInv, ShowsLastApplied, LastEvent
    <3>3. BalanceOf(ledger, p) = 0
      BY <2>1, <2>5, LastPostedIsBalance
    <3> QED
      BY <2>2, <3>2, <3>3
  <2>6. ASSUME NEW u \in Posted(ledger), u.PhoneNumber = p
        PROVE  projection[w] = BalanceOf(ledger, p)
    <3>1. PICK k \in DOMAIN stream : stream[k] = u
      BY DEF CaptureInv, StreamIsLedger, Range
    <3>2. PICK i \in DOMAIN topic, m \in DOMAIN stream :
            /\ LastEvent(w, i) /\ topic[i] = EventOf(stream[m])
            /\ \A n \in 1 .. published : stream[n].WalletID = w => n <= m
      <4>1. k \in 1 .. published /\ stream[k].WalletID = w
        BY <2>4, <2>6, <3>1, SequencesTyped
      <4> QED
        BY <2>2, <4>1 DEF CaptureInv, LastEventIsLatest
    <3>3. stream[m].PhoneNumber = p
      BY <2>4, <3>2 DEF LastEvent, EventOf
    \* The record behind the wallet's last event is the last posted of its phone.
    <3>4. ASSUME NEW v \in Posted(ledger), v.PhoneNumber = p
          PROVE  v.SeqNumber <= stream[m].SeqNumber
      <4>1. PICK n \in DOMAIN stream : stream[n] = v
        BY DEF CaptureInv, StreamIsLedger, Range
      <4>2. n <= m
        BY <2>4, <3>2, <3>4, <4>1, SequencesTyped
      <4>3. CASE n = m
        BY <2>3, <4>1, <4>3 DEF Transaction
      <4>4. CASE n < m
        BY <2>3, <3>3, <3>4, <4>1, <4>4 DEF CaptureInv, StreamIsLedger, InChainOrder, Transaction
      <4> QED
        BY <4>2, <4>3, <4>4, SequencesTyped
    <3>5. BalanceOf(ledger, p) = stream[m].BalanceAfter
      BY <2>1, <2>3, <3>3, <3>4, LastPostedIsBalance
    \* All is applied, so the wallet shows its last event.
    <3>6. projection[w] = topic[i].balance
      <4>1. PICK j \in DOMAIN topic : LastEvent(w, j) /\ projection[w] = topic[j].balance
        BY <2>2, <3>2 DEF CaptureInv, ShowsLastApplied, LastEvent
      <4>2. i = j
        BY <3>2, <4>1, SequencesTyped DEF LastEvent
      <4> QED
        BY <4>1, <4>2
    <3> QED
      BY <3>2, <3>5, <3>6 DEF EventOf
  <2> QED
    BY <2>2, <2>5, <2>6
<1>2. Spec => []WalletInv(W)
  BY WalletsKept
<1> QED
  BY <1>1, <1>2, CaptureImplementsService, Invariance, CaptureInvariance, PTL
=============================================================================
