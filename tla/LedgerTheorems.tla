--------------------------- MODULE LedgerTheorems ---------------------------
(***************************************************************************)
(* Facts about the ledger as data: what Latest, NextSeq and BalanceOf      *)
(* return on a correct ledger, and when it may be extended.                *)
(***************************************************************************)
EXTENDS Ledger, TLAPS

\* On a phone with history, FindOne sorted by descending sequence number returns
\* a record of that phone, and NextSeq is one more than its number.
LEMMA LatestIsTip ==
  ASSUME NEW S, S \subseteq Transaction, Contiguous(S),
         NEW p \in Phone, History(S, p) # {}
  PROVE  /\ Latest(S, p) \in History(S, p)
         /\ \A u \in History(S, p) : u.SeqNumber <= Latest(S, p).SeqNumber
         /\ NextSeq(S, p) = Latest(S, p).SeqNumber + 1
PROOF
<1> DEFINE N == NextSeq(S, p)
           IsTip(t) == \A u \in History(S, p) : u.SeqNumber <= t.SeqNumber
<1>1. N \in Nat \ {0} /\ Seqs(S, p) = 1 .. (N - 1)
  BY DEF Contiguous
<1>2. \A u \in History(S, p) : u.SeqNumber \in 1 .. (N - 1)
  BY <1>1 DEF Seqs
<1>3. PICK m \in History(S, p) : m.SeqNumber = N - 1
  <2>1. PICK t \in History(S, p) : TRUE
    OBVIOUS
  <2>2. N - 1 \in 1 .. (N - 1)
    BY <1>1, <1>2, <2>1
  <2> QED
    BY <1>1, <2>2 DEF Seqs
<1>4. IsTip(m)
  BY <1>1, <1>2, <1>3
<1>5. Latest(S, p) \in History(S, p) /\ IsTip(Latest(S, p))
  BY <1>3, <1>4 DEF Latest
<1> QED
  BY <1>5 DEF NextSeq

\* The record with the highest number of its phone is the one that counts.
LEMMA TipDetermines ==
  ASSUME NEW S, S \subseteq Transaction, UniqueIndexes(S),
         NEW p \in Phone, NEW m \in History(S, p),
         \A u \in History(S, p) : u.SeqNumber <= m.SeqNumber
  PROVE  /\ Latest(S, p) = m
         /\ NextSeq(S, p) = m.SeqNumber + 1
         /\ BalanceOf(S, p) = m.BalanceAfter
PROOF
<1>1. /\ Latest(S, p) \in History(S, p)
      /\ \A u \in History(S, p) : u.SeqNumber <= Latest(S, p).SeqNumber
  BY DEF Latest
<1>2. Latest(S, p).SeqNumber = m.SeqNumber
  <2>1. m.SeqNumber \in Nat /\ Latest(S, p).SeqNumber \in Nat
    BY <1>1 DEF History, Transaction
  <2> QED
    BY <1>1, <2>1
<1>3. Latest(S, p) = m
  BY <1>1, <1>2 DEF UniqueIndexes, SameIndexKey, SameSequence, History
<1> QED
  BY <1>3 DEF NextSeq, BalanceOf

\* The balance of a correct ledger is within the limits.
LEMMA BalanceWithinLimits ==
  ASSUME NEW S, S \subseteq Transaction, WellFormed(S), NEW p \in Phone
  PROVE  BalanceOf(S, p) \in 0 .. WalletMax
PROOF
<1>1. CASE History(S, p) = {}
  BY <1>1, LedgerAssumption DEF BalanceOf
<1>2. CASE History(S, p) # {}
  <2>1. Latest(S, p) \in S
    BY <1>2, LatestIsTip DEF WellFormed, History
  <2> QED
    BY <1>2, <2>1 DEF BalanceOf, WellFormed, SoundEntry
<1> QED
  BY <1>1, <1>2

\* If the next number that a snapshot S gives phone p is still free in the
\* current ledger L, then S was not stale for p: L gives the same number and the
\* same balance.
LEMMA FreeNumberMeansCurrent ==
  ASSUME NEW L, L \subseteq Transaction, WellFormed(L),
         NEW S, S \subseteq L, WellFormed(S), NEW p \in Phone,
         \A t \in History(L, p) : t.SeqNumber # NextSeq(S, p)
  PROVE  NextSeq(L, p) = NextSeq(S, p) /\ BalanceOf(L, p) = BalanceOf(S, p)
PROOF
<1> DEFINE M == NextSeq(S, p)
           N == NextSeq(L, p)
<1> S \subseteq Transaction
  OBVIOUS
<1>1. M \in Nat \ {0} /\ N \in Nat \ {0}
  BY DEF WellFormed, Contiguous
<1>2. Seqs(S, p) = 1 .. (M - 1) /\ Seqs(L, p) = 1 .. (N - 1)
  BY DEF WellFormed, Contiguous
<1>3. Seqs(S, p) \subseteq Seqs(L, p)
  BY DEF Seqs, History
<1>4. M \notin 1 .. (N - 1)
  BY <1>2 DEF Seqs
<1>5. M = N
  <2>1. M >= N
    BY <1>1, <1>4
  <2>2. CASE M = 1
    BY <1>1, <2>1, <2>2
  <2>3. CASE M # 1
    <3>1. M - 1 \in 1 .. (M - 1)
      BY <1>1, <2>3
    <3>2. M - 1 \in 1 .. (N - 1)
      BY <1>2, <1>3, <3>1
    <3> QED
      BY <1>1, <2>1, <3>2
  <2> QED
    BY <2>2, <2>3
<1>6. CASE History(S, p) = {}
  <2>1. M = 1
    BY <1>6 DEF NextSeq
  <2>2. History(L, p) = {}
    <3>1. Seqs(L, p) = {}
      BY <1>1, <1>2, <1>5, <2>1
    <3> QED
      BY <3>1 DEF Seqs
  <2> QED
    BY <1>5, <1>6, <2>2 DEF BalanceOf
<1>7. CASE History(S, p) # {}
  <2> DEFINE m == Latest(S, p)
  <2>1. m \in History(S, p) /\ M = m.SeqNumber + 1
    BY <1>7, LatestIsTip DEF WellFormed
  <2>2. m \in History(L, p) /\ m.SeqNumber = N - 1
    <3>1. m \in History(L, p)
      BY <2>1 DEF History
    <3>2. m.SeqNumber \in Nat
      BY <2>1 DEF History, Transaction
    <3> QED
      BY <1>5, <2>1, <3>1, <3>2
  <2>3. \A u \in History(L, p) : u.SeqNumber <= m.SeqNumber
    <3> SUFFICES ASSUME NEW u \in History(L, p)
                 PROVE  u.SeqNumber <= m.SeqNumber
      OBVIOUS
    <3>1. u.SeqNumber \in 1 .. (N - 1)
      BY <1>2 DEF Seqs
    <3> QED
      BY <1>1, <2>2, <3>1
  <2>4. BalanceOf(L, p) = m.BalanceAfter
    BY <2>2, <2>3, TipDetermines DEF WellFormed
  <2> QED
    BY <1>5, <1>7, <2>4 DEF BalanceOf
<1> QED
  BY <1>6, <1>7

\* Committing documents drafted from the current ledger, under fresh reference
\* ids, leaves a correct ledger.
LEMMA ExtendWellFormed ==
  ASSUME NEW S, S \subseteq Transaction, WellFormed(S),
         NEW D, Drafted(S, D),
         \A d \in D, t \in S : d.ReferenceID # t.ReferenceID
  PROVE  WellFormed(S \cup D)
PROOF
<1> DEFINE T == S \cup D
<1>1. D \subseteq Transaction /\ T \subseteq Transaction
  BY DEF Drafted
<1>2. \A d \in D : d.PhoneNumber \in Phone /\ d.SeqNumber = NextSeq(S, d.PhoneNumber)
  BY <1>1 DEF Drafted, Transaction
<1>3. \A p \in Phone : NextSeq(S, p) \in Nat \ {0} /\ Seqs(S, p) = 1 .. (NextSeq(S, p) - 1)
  BY DEF WellFormed, Contiguous
<1>4. \A t \in S : t.PhoneNumber \in Phone /\ t.SeqNumber \in 1 .. (NextSeq(S, t.PhoneNumber) - 1)
  <2> SUFFICES ASSUME NEW t \in S
               PROVE  t.PhoneNumber \in Phone /\ t.SeqNumber \in 1 .. (NextSeq(S, t.PhoneNumber) - 1)
    OBVIOUS
  <2>1. t.PhoneNumber \in Phone
    BY DEF Transaction
  <2>2. t.SeqNumber \in Seqs(S, t.PhoneNumber)
    BY DEF Seqs, History
  <2> QED
    BY <1>3, <2>1, <2>2
\* A new document is numbered beyond every old one of its phone.
<1>5. \A d \in D, t \in S : d.PhoneNumber = t.PhoneNumber => t.SeqNumber < d.SeqNumber
  <2> SUFFICES ASSUME NEW d \in D, NEW t \in S, d.PhoneNumber = t.PhoneNumber
               PROVE  t.SeqNumber < d.SeqNumber
    OBVIOUS
  <2>1. d.SeqNumber = NextSeq(S, t.PhoneNumber) /\ NextSeq(S, t.PhoneNumber) \in Nat
    BY <1>2, <1>3
  <2>2. t.SeqNumber \in 1 .. (NextSeq(S, t.PhoneNumber) - 1)
    BY <1>4
  <2> QED
    BY <2>1, <2>2
<1>6. \A t \in T : t.SeqNumber \in Nat \ {0}
  BY <1>1 DEF Transaction
<1>7. UniqueIndexes(T)
  <2> SUFFICES ASSUME NEW t \in T, NEW u \in T, SameIndexKey(t, u)
               PROVE  t = u
    BY DEF UniqueIndexes
  <2>1. CASE t \in S /\ u \in S
    BY <2>1 DEF WellFormed, UniqueIndexes
  <2>2. CASE t \in D /\ u \in D
    BY <2>2 DEF Drafted, SameIndexKey, SameSequence
  <2>3. CASE t \in S /\ u \in D
    <3>1. t.ReferenceID # u.ReferenceID
      BY <2>3
    <3>2. t.PhoneNumber = u.PhoneNumber /\ t.SeqNumber = u.SeqNumber
      BY <3>1 DEF SameIndexKey, SameSequence
    <3> QED
      BY <1>5, <1>6, <2>3, <3>2
  <2>4. CASE t \in D /\ u \in S
    <3>1. t.ReferenceID # u.ReferenceID
      BY <2>4
    <3>2. t.PhoneNumber = u.PhoneNumber /\ t.SeqNumber = u.SeqNumber
      BY <3>1 DEF SameIndexKey, SameSequence
    <3> QED
      BY <1>5, <1>6, <2>4, <3>2
  <2> QED
    BY <2>1, <2>2, <2>3, <2>4
<1>8. Contiguous(T)
  <2> SUFFICES ASSUME NEW p \in Phone
               PROVE  /\ NextSeq(T, p) \in Nat \ {0}
                      /\ Seqs(T, p) = 1 .. (NextSeq(T, p) - 1)
    BY DEF Contiguous
  <2>1. CASE \A d \in D : d.PhoneNumber # p
    <3>1. History(T, p) = History(S, p)
      BY <2>1 DEF History
    <3>2. Latest(T, p) = Latest(S, p)
      BY <3>1, Zenon DEF Latest
    <3>3. NextSeq(T, p) = NextSeq(S, p) /\ Seqs(T, p) = Seqs(S, p)
      BY <3>1, <3>2, Zenon DEF NextSeq, Seqs
    <3> QED
      BY <1>3, <3>3, Zenon
  <2>2. CASE \E d \in D : d.PhoneNumber = p
    <3>1. PICK d \in D : d.PhoneNumber = p
      BY <2>2
    <3>2. History(T, p) = History(S, p) \cup {d}
      BY <3>1 DEF History, Drafted
    <3>3. \A u \in History(T, p) : u.SeqNumber <= d.SeqNumber
      BY <1>5, <1>6, <3>1, <3>2 DEF History
    <3>4. d.SeqNumber = NextSeq(S, p)
      BY <1>2, <3>1
    <3>5. NextSeq(T, p) = NextSeq(S, p) + 1
      <4>1. d \in History(T, p)
        BY <3>2
      <4>2. NextSeq(T, p) = d.SeqNumber + 1
        BY <1>1, <1>7, <3>3, <4>1, TipDetermines, Zenon
      <4> QED
        BY <3>4, <4>2, Zenon
    <3>6. Seqs(T, p) = Seqs(S, p) \cup {d.SeqNumber}
      BY <3>2 DEF Seqs
    <3> HIDE DEF T
    <3>7. NextSeq(S, p) \in Nat \ {0} /\ Seqs(S, p) = 1 .. (NextSeq(S, p) - 1)
      BY <1>3
    <3>8. Seqs(T, p) = 1 .. NextSeq(S, p)
      BY <3>4, <3>6, <3>7
    <3> QED
      BY <3>5, <3>7, <3>8
  <2> QED
    BY <2>1, <2>2
<1>9. Chained(T)
  <2> SUFFICES ASSUME NEW u \in T
               PROVE  /\ u.SeqNumber = 1 => u.BalanceBefore = 0
                      /\ \A t \in History(T, u.PhoneNumber) :
                           u.SeqNumber = t.SeqNumber + 1 => u.BalanceBefore = t.BalanceAfter
    BY DEF Chained
  <2>1. CASE u \in S
    <3>1. u.SeqNumber = 1 => u.BalanceBefore = 0
      BY <2>1 DEF WellFormed, Chained
    <3>2. ASSUME NEW t \in History(T, u.PhoneNumber), u.SeqNumber = t.SeqNumber + 1
          PROVE  u.BalanceBefore = t.BalanceAfter
      <4>1. CASE t \in S
        BY <2>1, <3>2, <4>1 DEF WellFormed, Chained, History
      <4>2. CASE t \in D
        <5>1. u.SeqNumber < t.SeqNumber
          BY <1>5, <2>1, <4>2 DEF History
        <5>2. u.SeqNumber \in Nat /\ t.SeqNumber \in Nat
          BY <1>6, <2>1, <4>2
        <5> QED
          BY <3>2, <5>1, <5>2
      <4> QED
        BY <4>1, <4>2 DEF History
    <3> QED
      BY <3>1, <3>2
  <2>2. CASE u \in D
    <3> DEFINE p == u.PhoneNumber
    <3>1. /\ p \in Phone /\ u.SeqNumber = NextSeq(S, p)
          /\ u.BalanceBefore = BalanceOf(S, p)
      BY <1>2, <2>2 DEF Drafted
    <3>2. ASSUME u.SeqNumber = 1
          PROVE  u.BalanceBefore = 0
      <4> HIDE DEF p
      <4>1. Seqs(S, p) = {}
        <5>1. NextSeq(S, p) = 1
          BY <3>1, <3>2
        <5>2. Seqs(S, p) = 1 .. (1 - 1)
          BY <1>3, <3>1, <5>1
        <5> QED
          BY <5>2
      <4>2. History(S, p) = {}
        BY <4>1 DEF Seqs
      <4> QED
        BY <3>1, <4>2 DEF BalanceOf
    <3>3. ASSUME NEW t \in History(T, p), u.SeqNumber = t.SeqNumber + 1
          PROVE  u.BalanceBefore = t.BalanceAfter
      <4>1. t \in S
        <5>1. CASE t \in D
          <6>1. t = u
            BY <2>2, <5>1 DEF Drafted, History
          <6> QED
            BY <1>6, <2>2, <3>3, <6>1
        <5> QED
          BY <5>1 DEF History
      <4>2. t \in History(S, p)
        BY <4>1 DEF History
      <4>3. \A v \in History(S, p) : v.SeqNumber <= t.SeqNumber
        <5> SUFFICES ASSUME NEW v \in History(S, p)
                     PROVE  v.SeqNumber <= t.SeqNumber
          OBVIOUS
        <5>1. v.SeqNumber < u.SeqNumber
          BY <1>5, <2>2 DEF History
        <5>2. v.SeqNumber \in Nat /\ t.SeqNumber \in Nat
          BY <1>6, <4>1 DEF History
        <5> QED
          BY <3>3, <5>1, <5>2
      <4>4. BalanceOf(S, p) = t.BalanceAfter
        BY <3>1, <4>2, <4>3, TipDetermines DEF WellFormed
      <4> QED
        BY <3>1, <4>4
    <3> QED
      BY <3>2, <3>3
  <2> QED
    BY <2>1, <2>2
<1>10. \A t \in T : SoundEntry(t)
  BY DEF WellFormed, Drafted
<1> QED
  BY <1>7, <1>8, <1>9, <1>10 DEF WellFormed

\* Committing whole transfers next to whole transfers leaves whole transfers.
LEMMA ExtendPaired ==
  ASSUME NEW S, NEW D, TransfersPaired(S), TransfersPaired(D)
  PROVE  TransfersPaired(S \cup D)
PROOF
  BY DEF TransfersPaired

\* What the service drafts is a record of the collection.
LEMMA EntryTyped ==
  ASSUME NEW S, S \subseteq Transaction, WellFormed(S),
         NEW r \in RequestType, (r.receiver = None) <=> (r.op # TypeTransfer),
         NEW p \in Phone, NEW ref \in ReferenceID,
         NEW status \in {StatusCompleted, StatusFailed}, NEW wallet \in WalletID,
         NEW delta \in Int
  PROVE  Entry(S, r, p, ref, status, wallet, delta) \in Transaction
PROOF
<1>1. NextSeq(S, p) \in Nat \ {0}
  BY DEF WellFormed, Contiguous
<1>2. BalanceOf(S, p) \in Int
  BY BalanceWithinLimits, LedgerAssumption
<1>3. r.op \in TransactionType /\ r.amount \in Nat \ {0} /\ r.phone \in Phone
      /\ r.receiver \in Phone \cup {None}
  BY DEF RequestType
<1> QED
  BY <1>1, <1>2, <1>3 DEF Entry, Transaction

\* The receiver's key is a key, and not the sender's.
LEMMA ReceiverRefTyped ==
  ASSUME NEW ref \in ReferenceID
  PROVE  ReceiverRef(ref) \in ReferenceID /\ ReceiverRef(ref) # ref
PROOF
<1>1. PICK k \in Key, n \in Nat : ref = <<k, n>>
  BY DEF ReferenceID
<1>2. ReceiverRef(ref) = <<k, n + 1>>
  BY <1>1 DEF ReceiverRef
<1>3. <<k, n + 1>> \in ReferenceID
  BY DEF ReferenceID
<1>4. <<k, n + 1>> # <<k, n>>
  OBVIOUS
<1> QED
  BY <1>1, <1>2, <1>3, <1>4, Zenon
=============================================================================
