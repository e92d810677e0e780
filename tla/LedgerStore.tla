---------------------------- MODULE LedgerStore ----------------------------
(***************************************************************************)
(* The repository and the transaction manager over MongoDB: one session    *)
(* transaction per request at a time, reading a snapshot of the committed  *)
(* collection, inserting documents one by one, and committing or aborting  *)
(* them together.  An insert meets the two unique indexes and the          *)
(* uncommitted inserts of other sessions.                                  *)
(***************************************************************************)
EXTENDS Ledger

CONSTANT Handler    \* the requests being served, one goroutine each

VARIABLES
  ledger,     \* the committed documents
  snapshot,   \* snapshot[h]: the collection as h's open transaction reads it
  docs,       \* docs[h]: the documents h's callback hands to the repository
  writes      \* writes[h]: those of them inserted and not yet committed

storeVars == <<ledger, snapshot, docs, writes>>

StoreTypeOK ==
  /\ ledger \subseteq Transaction
  /\ snapshot \in [Handler -> SUBSET Transaction]
  /\ docs \in [Handler -> SUBSET Transaction]
  /\ writes \in [Handler -> SUBSET Transaction]

Uncommitted(h) == UNION {writes[g] : g \in Handler \ {h}}

\* The documents of a callback still to be inserted, and the one the driver
\* sends next: CreateCoupledTransaction passes the deposit first.
Remaining(h) == docs[h] \ writes[h]

NextDoc(h, d) ==
  /\ d \in Remaining(h)
  /\ (\E o \in Remaining(h) : IsReceiverLeg(o)) => IsReceiverLeg(d)

\* Mutant: the collection was created without its unique reference index.
NoReferenceIndex(h, d) == {}

\* What the unique_reference index reports against an insert.
SameReference(h, d) == ByReference(ledger \cup writes[h], d.ReferenceID)

\* Mutant: only uncommitted writes conflict, and what was committed after the
\* snapshot was taken does not.
ConflictsIgnoreSnapshot(h, d) == {t \in Uncommitted(h) : SameIndexKey(t, d)}

\* What makes an insert fail with a write conflict or with the
\* unique_wallet_sequence index, both told to the service as
\* ErrDuplicateSequence: an index entry another session wrote and has not
\* committed, or committed after this snapshot was taken, or a sequence number
\* already taken.
Conflicts(h, d) ==
  {t \in (ledger \ snapshot[h]) \cup Uncommitted(h) : SameIndexKey(t, d)}
    \cup {t \in ledger : SameSequence(t, d)}

\* The session starts, its reads see the committed documents, and the
\* callback gets as far as handing D to the repository.
BeginTransaction(h, D) ==
  /\ snapshot' = [snapshot EXCEPT ![h] = ledger]
  /\ docs' = [docs EXCEPT ![h] = D]
  /\ UNCHANGED <<ledger, writes>>

InsertDocument(h, d) ==
  /\ NextDoc(h, d)
  /\ SameReference(h, d) = {} /\ Conflicts(h, d) = {}
  /\ writes' = [writes EXCEPT ![h] = @ \cup {d}]
  /\ UNCHANGED <<ledger, snapshot, docs>>

\* Nothing of the transaction stays; also what a failing insert does to it.
AbortTransaction(h) ==
  /\ snapshot' = [snapshot EXCEPT ![h] = {}]
  /\ docs' = [docs EXCEPT ![h] = {}]
  /\ writes' = [writes EXCEPT ![h] = {}]
  /\ UNCHANGED ledger

ErrDuplicateReferenceID(h, d) ==
  /\ NextDoc(h, d)
  /\ SameReference(h, d) # {}
  /\ AbortTransaction(h)

\* Mutant: the insert is not given the session's context.  Outside a transaction
\* it waits for what another session has not committed.
WaitsForUncommitted(h, d) ==
  /\ NextDoc(h, d)
  /\ Conflicts(h, d) # {} /\ Conflicts(h, d) \cap Uncommitted(h) = {}
  /\ AbortTransaction(h)

ErrDuplicateSequence(h, d) ==
  /\ NextDoc(h, d)
  /\ Conflicts(h, d) # {}
  /\ AbortTransaction(h)

\* Every document becomes visible at once.  docs[h] stays: the handler answers
\* from the document it built.
CommitTransaction(h) ==
  /\ ledger' = ledger \cup writes[h]
  /\ snapshot' = [snapshot EXCEPT ![h] = {}]
  /\ writes' = [writes EXCEPT ![h] = {}]
  /\ UNCHANGED docs
=============================================================================
