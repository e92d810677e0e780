--------------------------- MODULE ChangeCapture ---------------------------
(***************************************************************************)
(* What becomes of the ledger outside this repository: Kafka Connect       *)
(* streams the POSTED records keyed by wallet id, at least once, and the   *)
(* Wallet consumer sets its balance to the balance_after of the event.     *)
(* Sequence numbers are stripped, so the consumer cannot reorder.          *)
(*                                                                         *)
(* External: modelled from what the README and the live-stack tests use.   *)
(***************************************************************************)
EXTENDS ServiceProperties, Sequences, SequencesExt

CONSTANT MaxRewinds     \* bound on restarts of the connector and the consumer

ASSUME CaptureAssumption ==
  /\ MaxRewinds \in Nat
  /\ \A S \in Seeds : IsFiniteSet(S)

VARIABLES
  stream,       \* the POSTED records in the order of their commits
  published,    \* how many of them the connector has published
  topic,        \* the events published
  pending,      \* the positions in topic that the consumer has to apply
  projection,   \* projection[w]: the balance the Wallet service shows
  rewinds

captureVars == <<stream, published, topic, pending, projection, rewinds>>
allVars == <<vars, captureVars>>

\* Of a record only these fields matter to the consumer; its reference id, its
\* sequence number and its balance before are removed.
Event == [wallet : WalletID, type : TransactionType, balance : Int]

CaptureTypeOK ==
  /\ TypeOK
  /\ stream \in Seq(Transaction) /\ topic \in Seq(Event)
  /\ published \in 0 .. Len(stream)
  /\ pending \subseteq 1 .. Len(topic)
  /\ projection \in [WalletID -> Int]
  /\ rewinds \in 0 .. MaxRewinds

Posted(S) == {t \in S : t.Status = StatusCompleted}

\* Mutant: the event is keyed by the phone.
EventOfPhone(t) == [wallet |-> t.PhoneNumber, type |-> t.Type, balance |-> t.BalanceAfter]

EventOf(t) == [wallet |-> t.WalletID, type |-> t.Type, balance |-> t.BalanceAfter]

\* Records of different phones may come in any order.
InChainOrder(s) ==
  \A i, j \in DOMAIN s :
    i < j /\ s[i].PhoneNumber = s[j].PhoneNumber => s[i].SeqNumber < s[j].SeqNumber

\* The connector's initial snapshot selects the records already there, as they
\* were inserted.
CaptureInit ==
  /\ Init
  /\ stream \in {s \in SetToSeqs(Posted(ledger)) : InChainOrder(s)}
  /\ published = 0 /\ topic = <<>> /\ pending = {} /\ rewinds = 0
  /\ projection = [w \in WalletID |-> 0]

-----------------------------------------------------------------------------
\* A step of the service, whose commit the change stream sees: the two legs of
\* a transfer in either order.
Serve(h) ==
  /\ Receive(h) \/ Step(h) \/ Failure(h)
  /\ \E s \in SetToSeqs(Posted(ledger' \ ledger)) : stream' = stream \o s
  /\ UNCHANGED <<published, topic, pending, projection, rewinds>>

Publish ==
  /\ published < Len(stream)
  /\ published' = published + 1
  /\ topic' = Append(topic, EventOf(stream[published']))
  /\ pending' = pending \cup {Len(topic')}
  /\ UNCHANGED <<vars, stream, projection, rewinds>>

\* The connector restarts from an older resume token and publishes again.
Rewind ==
  /\ rewinds < MaxRewinds
  /\ \E n \in 0 .. published - 1 : published' = n
  /\ rewinds' = rewinds + 1
  /\ UNCHANGED <<vars, stream, topic, pending, projection>>

\* Mutant: events are keyed by the type of the transaction.
KeyedByType(e) == e.type

\* Events with the same key are in one partition and consumed in order.
PartitionKey(e) == e.wallet

SamePartition(i, j) == PartitionKey(topic[i]) = PartitionKey(topic[j])

Apply ==
  /\ \E i \in pending :
       /\ \A j \in pending : j < i => ~SamePartition(i, j)
       /\ projection' = [projection EXCEPT ![topic[i].wallet] = topic[i].balance]
       /\ pending' = pending \ {i}
  /\ UNCHANGED <<vars, stream, published, topic, rewinds>>

\* The consumer restarts from an older offset and applies again.
Redeliver ==
  /\ rewinds < MaxRewinds
  /\ \E i \in DOMAIN topic \ pending :
       pending' = pending \cup {j \in DOMAIN topic : j >= i /\ SamePartition(i, j)}
  /\ rewinds' = rewinds + 1
  /\ UNCHANGED <<vars, stream, published, topic, projection>>

CaptureNext == (\E h \in Handler : Serve(h)) \/ Publish \/ Rewind \/ Apply \/ Redeliver

CaptureSpec == CaptureInit /\ [][CaptureNext]_allVars

\* Connector and consumer go on when they can; restarts need not happen.
CaptureFairSpec == CaptureSpec /\ WF_allVars(Publish) /\ WF_allVars(Apply)

-----------------------------------------------------------------------------
\* The wallets of p's records show p's balance.
Shown(p) ==
  \A t \in History(ledger, p) : projection[t.WalletID] = BalanceOf(ledger, p)

\* A pipeline that has caught up shows the balances of the ledger, although
\* events were repeated, wallets overtook each other, and failed transfers took
\* sequence numbers without an event: the order of the commits of a phone is the
\* order of its chain.
CaughtUpShowsLedger ==
  published = Len(stream) /\ pending = {} => \A p \in Phone : Shown(p)

\* Every wallet converges to the ledger and stays there (the waitForBalance
\* contract, acid_test_docs.md 107): requests end, so the ledger does.
WalletsConverge == \A p \in Phone : <>[]Shown(p)

-----------------------------------------------------------------------------
(* The inductive invariant behind CaughtUpShowsLedger. *)

StreamIsLedger == Range(stream) = Posted(ledger) /\ InChainOrder(stream)

EventsAreOfStream ==
  \A i \in DOMAIN topic : \E k \in DOMAIN stream : topic[i] = EventOf(stream[k])

LastEvent(w, i) ==
  /\ i \in DOMAIN topic /\ topic[i].wallet = w
  /\ \A j \in DOMAIN topic : topic[j].wallet = w => j <= i

\* Whatever was repeated, the last event of a wallet is as late in the stream as
\* any record of the wallet that counts as published.
LastEventIsLatest ==
  \A w \in WalletID :
    (\E k \in 1 .. published : stream[k].WalletID = w) =>
      \E i \in DOMAIN topic, m \in DOMAIN stream :
        /\ LastEvent(w, i) /\ topic[i] = EventOf(stream[m])
        /\ \A k \in 1 .. published : stream[k].WalletID = w => k <= m

\* Of a wallet's events a last part is pending.
ConsumedInOrder ==
  \A i \in pending, j \in DOMAIN topic : i < j /\ SamePartition(i, j) => j \in pending

\* A wallet without events shows zero, one with pending events any earlier balance,
\* and every other its last event.
ShowsLastApplied ==
  \A w \in WalletID :
    \/ projection[w] = 0 /\ \A j \in DOMAIN topic : topic[j].wallet # w
    \/ \E j \in pending : topic[j].wallet = w
    \/ \E i \in DOMAIN topic : LastEvent(w, i) /\ projection[w] = topic[i].balance

CaptureInv ==
  /\ StreamIsLedger
  /\ EventsAreOfStream
  /\ LastEventIsLatest
  /\ ConsumedInOrder
  /\ ShowsLastApplied
=============================================================================
