# A verification development for the Transactions Service

TLA+ models of the ledger service in `src/svc-transactions`, the TLC runs that
check them on small instances, and TLAPS proofs for every instance. Paths below
are relative to `src/svc-transactions` unless they start with `src/`.

## 1. The system

### Components, their state and operations

| Component | State it keeps | Operations | Modelled by |
|---|---|---|---|
| Transactions service, `internal/transactions/service.go` | none between calls; per call: wallet ids, the drafted records, the loop counter, `sent`, `errReason` | `CreateDepositTransaction`, `CreateWithdrawalTransaction`, `CreateTransferTransaction` | `TransactionsService` |
| Ledger data, `model.go`, `dto.go` | the shape of a record and of a request, `WalletMax`, the domain errors | | `Ledger`, `BalanceArithmetic` |
| Repository, `external/mongodb/repo.go` | the `transactions` collection, two unique indexes: (phone, sequence) and reference id | `EarlyCheck`, `GetLatestTransaction`, `GetTransactionByReferenceID`, `CreateTransaction`, `CreateCoupledTransaction` | `LedgerStore`, `Ledger` |
| Transaction manager, `external/mongodb/tx_manager.go` | one MongoDB session per attempt | `WithTransaction` | `LedgerStore`, `TransactionsService` |
| Wallet client, `client/wallet` | none | `GetWalletInfo` (used), `WalletModifyBalance` (every call is commented out) | `Wallets` in `TransactionsService` |
| REST handlers, `api/rest`, `util/common` | none | method, header, JSON, amount and phone checks; the call; error to status code | `RestHandlers` |
| Startup and shutdown, `cmd/main.go`, `connection.go`, the index creation of `repo.go` | the phase of a process, its two connections, the indexes in the database | connect, create the indexes, listen, drain for ten seconds, close, exit | `ServerLifecycle`; the tracer and the environment are left out |
| Change data capture | outside the repository (Kafka Connect, Kafka, the Wallet consumer) | publishes POSTED records, applies them to the wallets | `ChangeCapture` (external) |
| Middleware, logger, metrics, tracer | counters and log lines | | no: output only |
| Notifications client, Kafka producer | never constructed | | no: dead code |
| Swagger files, live-stack tests | | | read for the claims they make |

### How they interact

An HTTP request becomes one goroutine that runs one `Create...Transaction`. It
looks the key up (`EarlyCheck`, outside any transaction), resolves wallet ids
from the history or from the Wallet service (a gRPC call), and then tries, up to
100 times, a session transaction: read the latest record of each phone, check
the limits, draft the records, insert them, commit. A transfer whose receiver is
full leaves that loop and enters a second one that commits a FAILED record.
Goroutines, and processes, share nothing but the database. What one of them can
see of another is the committed collection, plus one thing more: an insert fails
when another open transaction holds the same index entry.

A process is `main`: it connects to MongoDB, creates both unique indexes, opens
the Wallet connection, listens, and on a signal lets `http.Server.Shutdown` wait
for its goroutines, for ten seconds at most, before its deferred calls close the
connections. Around each goroutine a REST handler judges the message and tells
the result as a status. Outside, the change stream of the collection feeds
Kafka Connect, which publishes POSTED records keyed by wallet id, and the Wallet
consumer sets its balances from them.

### What is hard

- **Interleaving.** Balance and sequence number are read, then written; nothing
  but the sequence index and snapshot isolation keeps a stale draft out.
- **Stale checks.** The replay check and the wallet ids are read before the
  transaction and used after it.
- **Two legs, two keys.** A transfer inserts two records; the receiver's key,
  `<key>_deposit`, is in the same name space as the clients' keys.
- **Failure.** A process may die with a transaction open, a commit may be applied
  although its caller saw an error, the driver may run a callback again, and the
  client may send again what it believes lost.
- **Bounded retries.** Two loops, each counting from zero, with exits for conflict,
  duplicate, capacity and exhaustion.
- **Shutdown.** A handler may retry for longer than the ten seconds `main` waits;
  another process may be starting on the same database at the same time.
- **Statuses.** The status is all a client has to decide whether to send its key
  again, and the three handlers map their errors one by one.
- **Events.** Published at least once, without their sequence numbers, and in order
  only within one wallet.

`PROJECT.json` lists each of these hazards with its line and the properties that
would catch it.

### What makes each component correct

- Ledger: the records of a phone are numbered 1, 2, 3, ... and form a chain of
  balances between zero and the capacity; a posted transfer has both legs.
- Store: an uncommitted record holds its index entries until it commits or aborts.
- Service: a success shows a committed record of its own key; a refusal leaves
  nothing; a failed transfer is on record; a key moves money once; every request is
  answered; together the operations are those of an atomic ledger.
- REST handlers: a success or a 422 is only told of a key on record, a rejection
  only of a key that left nothing; a phone has one spelling on the ledger.
- Startup and shutdown: no request before both indexes exist; no connection closed
  under a running handler; a signalled process exits; exit code 0 means that
  everybody was answered.
- Arithmetic: no amount a message can carry wraps a test or a balance.
- Change data capture: a pipeline that has caught up shows the ledger's balances,
  whatever was repeated.

## 2. Modules

| Module | Content |
|---|---|
| `Ledger` | The collection as data: records, requests, `History`, `Latest`, `NextSeq`, `BalanceOf`, the capacity and funds tests, the drafted `Entry`, and `WellFormed` and `TransfersPaired`: what a correct ledger is. |
| `LedgerStore` | The repository over MongoDB sessions: `BeginTransaction`, `InsertDocument`, the two duplicate errors, `AbortTransaction`, `CommitTransaction`. |
| `TransactionsService` | The three operations as a program counter per handler over `LedgerStore`; failures; `Spec` and `FairSpec`. |
| `AtomicLedger` | The abstract specification: a balance per phone and the set of spent keys, moved by one request at a time with its phones, amount and keys. |
| `ServiceProperties` | What the service promises, the refinement mapping to `AtomicLedger`, and two documented statements the code does not meet. |
| `RestHandlers` | Messages, the checks of the three handlers, `Decoded`, the status tables, and the service behind them; the properties of what clients are told. |
| `ServerLifecycle` | `main` of several processes over the service; the fairness of `main`; the properties of startup and shutdown. |
| `ChangeCapture` | External: the change stream, the connector, the topic and the consumer over the service. |
| `BalanceArithmetic` | The capacity and funds tests over integers of a fixed width, and one balance that deposits and withdrawals move. |
| `MCTransactions`, `MCRest`, `MCLifecycle`, `MCCapture` | Small instances: seeds, request and message mixes, Wallet answers, symmetry. |
| `ServiceInvariant` | The inductive invariants `ServiceInv`, `OriginInv` and `WalletInv`. |
| `LedgerTheorems` | Lemmas about the ledger as data. |
| `ServiceTheorems` | The invariance of `ServiceInv` and what follows from it. |
| `OriginTheorems` | Where records and wallet ids come from: what refusals leave, and which wallet id a phone keeps. |
| `RefinementTheorems` | The refinement of `AtomicLedger`; a key moves money once; every step advances. |
| `RestTheorems` | The service behind the handlers, and what statuses say. |
| `LifecycleTheorems` | The service across processes, and what startup and shutdown guarantee. |
| `CaptureTheorems` | A pipeline that has caught up shows the ledger. |
| `ArithmeticTheorems` | The tests are exact for every width. |

`LedgerStore` extends `Ledger`, `TransactionsService` extends `LedgerStore`,
`ServiceProperties` extends `TransactionsService`. `RestHandlers`,
`ServerLifecycle` and `ChangeCapture` each extend `ServiceProperties` and run its
actions as they are: they compose with the service and do not model it again.
`BalanceArithmetic` stands alone. `ServiceTheorems` extends `LedgerTheorems` and
`ServiceInvariant`; `OriginTheorems` extends `ServiceTheorems`,
`RefinementTheorems` and `RestTheorems` extend `OriginTheorems`,
`LifecycleTheorems` extends `ServiceTheorems`, and `CaptureTheorems` extends
`ChangeCapture` and `RefinementTheorems`.

### State

| Variable | In the code |
|---|---|
| `ledger` | the committed documents of `transactions` |
| `snapshot[h]` | what the reads of h's session transaction see |
| `docs[h]` | `NewTransaction`, or `newDepositTransaction` and `newWithdrawalTransaction` |
| `writes[h]` | those of them inserted and uncommitted |
| `pc[h]` | the database or Wallet call h makes next |
| `req[h]` | the decoded request and its `Idempotency-Key` |
| `local[h]` | the loop counter, `errReason`, the wallet ids, and the driver's reruns |
| `answer[h]` | the returned error, or success and the record the response is built from |
| `wire[h]`, `response[h]` | the HTTP request h serves and the status and body it sent |
| `phase[p]`, `open[p]`, `exit[p]` | where `main` of process p is, the connections it holds, how it ended |
| `indexes` | the unique indexes of the collection |
| `home[h]` | the process whose goroutine h is |
| `stream`, `published`, `topic`, `pending`, `projection` | the POSTED records in commit order, the connector's position, the events, those not consumed, the Wallet service's balances |

A handler is one delivery of one request. Two handlers with the same request are
a client's retry. A handler that has answered stays `done`, so the number of
handlers bounds the number of deliveries in a run.

### Actions and the code they stand for

One action is what a goroutine does from one point of interference to the next.

| Action | Code |
|---|---|
| `RefuseSelfTransfer`, `Replay`, `FirstTransaction`, `KnownPhone` | `EarlyCheck` and what each operation does with its result |
| `LookupReceiver`, `WalletFound`, `WalletNotFound` | the wallet ids |
| `DepositAttempt`, `WithdrawalAttempt`, `TransferAttempt`, `FailureAttempt` | the callbacks up to the insert: reads, limits, drafts |
| `Insert`, `DuplicateReference`, `DuplicateSequence` | `CreateTransaction`, `CreateCoupledTransaction`, and the loop's reaction to their errors |
| `Lookup` | `GetTransactionByReferenceID(ctx, refID, nil)` |
| `Commit`, `Committed` | the commit in the database, and its reply reaching the handler |
| `Exhausted` | `!sent` after the loops |
| `TransientError` | the driver aborts and reruns the callback |
| `Break`, `OrphanAborts`, `OrphanCommits` | an error for good or a dead process, and what becomes of its open transaction |
| `MethodNotAllowed` | the ServeMux: the routes are bound to POST |
| `BadRequest`, `CallService` | the checks of the three REST handlers, and the call with the phones trimmed |
| `Reply` | the error tables and `respondWithError`, or 201 |
| `ConnectMongoDB`, `CreateSequenceIndex`, `CreateReferenceIndex`, `Listen`, `StartupFails` | `main` up to `ListenAndServe` |
| `Signal`, `ShutdownReturns`, `ShutdownTimesOut`, `CloseWallet`, `Disconnect`, `Return` | `main` from the signal on, its deferred calls last one first |
| `Kill`, `Die` | a process that ends unasked, and what it leaves of its goroutines |
| `Arrive`, `Work`, `Fail` | the service's `Receive`, `Step` and failures, in a process |
| `Publish`, `Rewind`, `Apply`, `Redeliver` | the connector, its restart from an older token, the consumer, its restart from an older offset |

Choices worth knowing when reading the model against the code:

- The reads of a callback are one step, because they see one snapshot. The limits
  and the drafts depend on nothing else.
- `Conflicts` lets an insert fail for an index entry that another session holds
  uncommitted or that was committed after the snapshot was taken (a write
  conflict), and for a sequence number that is taken; the repository calls all
  of these `ErrDuplicateSequence`. `SameReference` lets it fail for a key that is
  taken. Where both apply, either may be reported, as in the database.
- `Lookup` is a step of its own: what it finds may differ from what the insert met.
- `Commit` and `Committed` are two steps: between them others already read the
  records, and the process may die.
- `InsertMany` is one step per document, the receiver's leg first, so that a
  transaction may break with one leg written.
- The sleep between attempts is the freedom of other handlers to move first.
- Reference ids are pairs of a text and a number of `_deposit` suffixes.
- Amounts and balances are integers without a width in `Ledger`; `BalanceArithmetic`
  has the same tests over integers that wrap, and says that this never shows.
- A message is judged in one step: the checks read nothing that others can change.
  Texts are abstracted to what the checks tell apart: `Trim` and `Mobile` are
  constants, an empty key is `None`.
- The index entries the store relies on are there because of
  `IndexesBeforeRequests`; `LedgerStore` alone takes them as given.
- The ten seconds are a choice: `DeadlinePassed` may come true at any moment at
  which somebody is still being served.
- A process that ends leaves its goroutines to `Die`, one at a time: nothing else
  can be seen of the order in which they end.

## 3. Runs

All instances of the service have two phones, wallets of capacity 2 (3 in the runs of
`MCTransactions` with transfers), two attempts per loop (100 in the code) and amounts
of 1 and 2. Handlers are interchangeable, so the three runs of 3 handlers use symmetry,
which invariants and step properties allow; those with liveness properties do not.
`CHECK_DEADLOCK` is off because a handler serves one request: when all have
answered, the system stops.

| Run | Instance | Shows |
|---|---|---|
| `wallet` | 3 handlers; deposits of 1 and 2 and a withdrawal of 1 on one wallet; one rerun | the chain survives every race, crash and late commit; successes are on record; refused requests leave nothing, the last attempt included |
| `transfers` | 3 handlers; transfers of 1 and of 2 that cross and a deposit; balances 1 and 0, 1 and 2, 1 and 3, 2 and 2; capacity 3; b's wallet may be deleted and created again at any time | both legs or none; failed transfers on record; a phone's wallet id, once settled, stays |
| `suffix` | 3 handlers; a deposit whose key is a receiver leg's key, one key for two operations, a transfer to oneself | colliding keys cannot split a transfer or invent a success |
| `liveness` | 2 handlers; the requests of `transfers` and a withdrawal under the deposit's key; `FairSpec`, one rerun | every request is answered, crossing transfers included; every step brings its handler nearer to its end; a key moves a balance once; one wallet id per phone while wallets are not recreated; `AtomicLedger` is implemented |
| `rest` | 2 handlers; 11 messages: five that are admitted, with a phone in two spellings and colliding keys, and one for each way to be turned away; one rerun | statuses tell the truth about the key; nothing unvalidated reaches the ledger |
| `lifecycle` | 2 processes on an empty or used database, with any of the indexes; 2 handlers; a deposit and a withdrawal on one wallet, or one of them twice; `StopSpec` | both indexes before any request; connections outlive handlers; a clean exit answers everybody; a signalled process exits |
| `arithmetic` | integers from -128 to 127, capacity 100 | the tests are exact and the balance stays within its limits, for every amount |
| `capture` | 2 handlers; a transfer and two deposits into the same wallet, not all of which fit; one restart, of the connector or of the consumer; `CaptureFairSpec` | a pipeline that has caught up shows the ledger; wallets come to show it and keep showing it |
| `rest_500`, `rest_201` | as `rest` | violations, section 5 |
| `half_transfer` | 2 handlers, the requests of `transfers`, one rerun | violation, section 5 |
| `refused_replay` | as `half_transfer`, under `FairSpec`; two deliveries of the deposit to a wallet with room for one | violation, section 5 |

Why the bounds are enough to be interesting: three handlers are two deliveries
of one request and a third party that moves the balance between them; a capacity
of 2 puts "fits", "fits only alone" and "does not fit" within the requests, and one
of 3 besides lets a transfer of 1 and one of 2 in the other direction both be
possible at once, so that they meet crosswise with one leg written each; two
attempts are the least with a retry that can succeed and an exhaustion. Reruns
cost most: a rerun is a fresh attempt, so `transfers` and `suffix` leave them out,
and so do the runs of processes and events, which are not about them. Two
processes are a restart, or a rolling deployment; `Process` members are never
reused, so a third start is a third process. One restart repeats every event
published or applied before it, of all wallets or of one. With eight bits and a
capacity of 100 the sum of a balance and an amount wraps long before the end of the
amounts; the code has 64 bits and a capacity of nine quadrillion.
The proofs depend on none of these bounds.

Every property of a passing run has a mutant in `PROJECT.json`: the definition
the named bug would change, and TLC finds the property violated under it.

To repeat a run: `tlc -config Wallet.cfg MCTransactions`, and so on for `Transfers`,
`Suffix`, `Liveness`, `HalfTransfer` and `Refused`; `MCRest` with `Rest`, `Rest500`
and `Rest201`; `MCLifecycle` with `Lifecycle`; `MCCapture` with `Capture`;
`BalanceArithmetic` with `Arithmetic`. To repeat the proofs: `tlapm M.tla` for each
of the eight modules whose names end in `Theorems`.

## 4. Fairness and liveness

`FairSpec` adds weak fairness of `Step(h)` for each handler: its goroutine is
scheduled, its calls return (a call that fails for good is `Break`, which answers),
and the server eventually gives up an abandoned transaction (MongoDB's
transaction lifetime limit). `Receive` is not fair: nobody has to send a request.
Nothing that fails is fair: `TransientError`, `Break`, `OrphanCommits`.
`EveryRequestAnswered` says that a handler that has a request comes to an answer,
or is known to be dead (`NoReply`). It rests on two things. A conflict never blocks:
inside a session an insert that meets another session's entry fails at once. Its
mutant, an insert outside the session, which waits instead, leaves two transfers in
opposite directions waiting for each other for ever, since each inserts its
receiver's leg first. And a conflict uses up an attempt of a bounded loop, which is
stated without fairness and proved: `EveryStepAdvances`
(each step of a handler, failures included, moves it on in the order: failure loop,
attempt, rerun, point of the function, documents left; and no other handler's step
moves it at all). The bound on reruns stands for the driver's
limit of 120 seconds for one `WithTransaction`.

`StopSpec` assumes only that `main` goes on when it can after a signal: nothing is
assumed of the handlers, which may sleep or wait for the database for ever, so
`SignalledProcessesExit` rests on the ten seconds alone. The fairness is of `Stop`,
whose steps follow one another without a choice except the one between a drained
server and an expired deadline; signals, kills, startups and arrivals stay unfair.

`CaptureFairSpec` assumes that the connector publishes what is there and the consumer
applies what was published. `Rewind` and `Redeliver` are not fair and are bounded: a
connector or consumer that restarted for ever would repeat old events for ever. The service's own steps need
no fairness in `WalletsConverge`: whatever it has committed is shown in the end.

## 5. Where code and documentation disagree

- **A posted transfer answered with 422** (run `half_transfer`). Two deliveries of
  one transfer pass the replay check. One is posted and fills the receiver's
  wallet. The other now finds the receiver full, enters the failure loop, meets
  the duplicate reference, and answers `ErrHalfTransferFail`
  (`service.go:667`) without reading the record it collided with. `src/README.md:300`
  reserves 422 for a transfer recorded as failed.
- **A posted request refused** (run `refused_replay`). The comment at
  `service.go:155` says a check at the start of the iteration handles a conflict
  caused by the same key. There is none: the second delivery re-reads the balance
  its own first delivery changed and may be refused for funds or, as in the trace, for
  capacity, whether or not it conflicted, where
  `src/README.md:53` promises the recorded result.
- **500 without a failure** (run `rest_500`). The derived key of a transfer's receiver
  leg is already another client's key, one of the uses `src/README.md:354` asks
  clients to avoid. The insert meets the duplicate reference, the lookup of the
  transfer's own key finds nothing, and `ErrTransactionNotFound` has no branch in any
  handler: the client is told 500, which `src/README.md:302` reserves for "Unexpected
  database/client failures", and the same key will give 500 again.
- **201 for a failed transfer** (run `rest_201`). A deposit or withdrawal under the
  key of a transfer on record as failed replays that record: 201, with status
  `FAILED`, where the annotation of `DepositHandler` says "Deposit transaction
  successful & created". Only the transfer looks at the status of what it replays.

In all these cases the ledger stays correct; the client is told the wrong thing.

Two smaller ones are read off the code and need no run. `src/README.md:293` gives
errors, 405 among them, the shape `{"error":"message"}`: the routes are bound to
POST, so the ServeMux answers other methods itself, in plain text, and the test of
the method in each handler is never reached (`MethodNotAllowed`). The legend of the
live-stack tests (`tests/acid_test_docs.md:64`) reads 422 as "business reject
(insufficient balance / max capacity)"; the handlers answer 400 to those and keep 422 for the recorded failure of a transfer, as the README says.

## 6. Proofs

For every set of handlers, phones, keys, requests and messages, every correct
initial ledger, every Wallet answer, and any bounds:

| Theorem | Establishes | In |
|---|---|---|
| `Invariance` | `ServiceInv`, from which the next five follow | `ServiceTheorems` |
| `TypeCorrect` | `TypeOK` | |
| `LedgerCorrect` | `LedgerWellFormed` | |
| `TransferAtomicity` | `TransfersAtomic` | |
| `SuccessCorrect` | `SuccessIsRecorded` | |
| `HalfTransferCorrect` | `HalfTransferIsRecorded` | |
| `Origins` | `OriginInv` | `OriginTheorems` |
| `RefusalCorrect` | `RefusalLeavesNoTrace` | |
| `WalletsKept` | `WalletInv(W)`, given `WalletsStable(W)` | |
| `WalletIDsSettle` | `WalletIDSettles` | |
| `WalletIDsAgree` | `OneWalletPerPhone`, given `WalletsStable(W)` | |
| `Refinement` | `ImplementsAtomicLedger` | `RefinementTheorems` |
| `KeysMoveMoneyOnce` | `MovesOncePerKey` | |
| `OneRecordPerKey` | two successes under one key show the same record | |
| `LoopsAreBounded` | `EveryStepAdvances` | |
| `LifecycleImplementsService` | `LifecycleSpec => Spec`, so all of the above holds across processes | `LifecycleTheorems` |
| `LedgerSurvivesRestarts` | `LedgerWellFormed` of `LifecycleSpec` | |
| `LifecycleTypeCorrect` | `LifecycleTypeOK` | |
| `IndexesFirst` | `IndexesBeforeRequests` | |
| `ConnectionsLast` | `ConnectionsOutliveHandlers` | |
| `CleanExit` | `CleanExitAnswersEveryone` | |
| `RestImplementsService` | `RestSpec => Spec`, given `RequestsSuffice` | `RestTheorems` |
| `RestTypeCorrect` | `RestTypeOK` | |
| `AcceptanceCorrect` | `AcceptedIsRecorded` | |
| `RejectionCorrect` | `RejectedLeavesNoTrace` | |
| `SpellingCorrect` | `OneSpellingPerPhone`, given an initial ledger so spelled | |
| `CaptureImplementsService` | `CaptureSpec => Spec` | `CaptureTheorems` |
| `CaptureInvariance` | `CaptureInv` | |
| `CaptureTypeCorrect` | `CaptureTypeOK` | |
| `CaughtUp` | `CaughtUpShowsLedger`, given `WalletsStable(W)` and that `W` gives no two phones one wallet | |
| `BalanceBounded` | `WithinLimits` | `ArithmeticTheorems` |
| `TestsExact` | `TestsAreExact` | |

Assumptions on the constants: `LedgerAssumption` (the capacity is a natural number;
None is no phone and no wallet id), `ServiceAssumption` (requests are well typed,
only transfers name a receiver, the service starts on a correct ledger, there is
at least one attempt), `ProcessAssumption`, `RestAssumption` (messages are well
typed, but for the amount, whose sign nothing is assumed of), `CaptureAssumption`
(restarts are bounded; the initial ledger is finite, so that it can be streamed) and
`WidthAssumption` (the capacity fits the width). TLC evaluates each of them.
Assumptions of single theorems: `WalletsStable(W)`, that Wallet never gives a phone
another id than `W`'s and the initial ledger agrees; `RequestsSuffice`, that
`Request` holds what admitted messages ask for *if it is well typed*: that it is
well typed is proved (`AdmittedIsTyped`), and is what the handlers' checks are for.
`CaughtUp` needs wallets of one phone each besides: two phones with one wallet would
overwrite each other's balance in it. That the connector's first snapshot lists the
records of a phone in the order they were inserted is part of the external model
(`CaptureInit`).

**The invariant.** `WellFormed(ledger)` is not inductive: a commit adds records
that were drafted from a snapshot, and nothing in the property says the snapshot is
still current. `ServiceInv` adds, for each open transaction, that the snapshot is
a correct part of the ledger, that the records are drafted from it and legs come
in pairs (`OpenTransaction`), that a transaction about to commit has written all
its records, and that a written record holds its index entries against the ledger
and against every other session (`IndexEntriesHeld`). `Known` adds what the
control flow guarantees, for instance that a transfer that reaches its transaction
has a sender with history and two different phones.

**The argument.** `FreeNumberMeansCurrent` is the heart: if a snapshot, itself a
correct ledger and part of the current one, gives p the number n, and the current
ledger has no record of p numbered n, then the current ledger gives the same
number and the same balance. So the index entry a written record holds proves its
snapshot current for its phone (`WritesAreCurrent`), however old it is. Then
`ExtendWellFormed` and `ExtendPaired` say that the commit leaves a correct ledger
(`CommitsWellFormed`). `OtherHandlers` and `StepIsLocal` dispose of every handler
but the one that steps, since the ledger only grows; the rest is one lemma per
group of actions.

**Refusals.** `RefusalLeavesNoTrace` says what is not there, and `ServiceInv` does not
say where records come from. `OriginInv` does: every committed record was there at
the start, or was made for the request of a handler at a point where it may have
committed, and a drafted record was made for its handler's request. A refused
handler is at no such point, and its key is nobody else's; so there is no record.

**Wallet ids.** `WalletInv(W)` says of every wallet id in the service's hands, in a
record, a draft or a local variable, that it is the one `W` gives the phone. It is
inductive on top of `ServiceInv` because an id comes from Wallet or from a record.
`WalletIDsSettle` assumes nothing of Wallet. Records that race to be a phone's first
may carry two ids if its wallet is recreated between the calls that read them; but
as soon as no handler holds, has drafted, or is asking for another id than that of
the phone's latest record (`WalletSettled`), every later record takes that id: one
drafted now copies it (`DraftsRecordOnly`), a handler that arrives finds a history
and reads it there (`StepRecordsOnly`), and a commit of one that holds it leaves it
on the latest record (`LatestWalletStays`).

**Refinement.** Only `Commit` and `OrphanCommits` change the ledger. What they add is
one record or the two legs of one transfer, with the phones, amount and keys of one
request (`DocsAreOneOperation`, which needs `OriginInv`), drafted from balances that are the current ones, by
`WritesAreCurrent`; `BalancesAfter` gives the balances of every phone after it, and
`CommitIsAtomic` matches them with a step of `AtomicLedger`.
`KeysMoveMoneyOnce` takes the step apart once more: a phone whose balance changed is
that of a record just committed, whose key the index kept off the ledger until then
(`IndexEntriesHeld`). That the client is told of that one record, and of no other, is
`OneRecordPerKey`.

**Progress.** `StepAdvances` goes through the actions with `Advances`, a lexicographic
order. Its last place is the set of documents left to insert: `Insert` stays at its
point of the function and takes one out. From there to `EveryRequestAnswered` what is
missing is fairness, the finiteness of the bounds, and that a handler that has not
answered always has a step; TLC adds all three.

**Processes.** `LifecycleInv` says what `main` has done by each phase, and ties a
request to its process: one that is past its startup, and in flight only while
`main` has not begun to close the connections. That `main` never gets there with a
handler in flight is `Drained`; that it does not after a timeout either is `Fatal`.

**Statuses.** `RestInv` ties what the service was asked and what it answered to the
message and the response. The rest is the status tables: a status that accepts
comes only from `OK` or `ErrHalfTransferFail`, one that rejects only from a refusal
(`ErrorStatusMeans`), and of those `Invariance` and `Origins` speak.

**Events.** A phone's events carry no sequence number, so all that orders them is the
stream. `CaptureInv` says that the stream lists the posted records in the order of
each phone's chain (a commit takes the next numbers of its phones, `RecordsAdded`,
so appending it keeps the order, `ServeKeepsStream`); that a wallet's last event is
as late in the stream as any of its records that count as published, of which a
rewind leaves fewer and publishing again makes more, with the event; and that the
events a consumer has still to apply are the last ones of their partition, which
survives a redelivery because that takes a whole tail. So what has been applied last is the last posted record,
and `LastPostedIsBalance` finds the phone's balance in it, although failed transfers
may follow on the ledger and send no event: `FailedRecordsKeepBalance` takes the first
of them that would leave another balance (`LeastNumber` stands in for induction) and
looks at the one before it.

**Arithmetic.** `NoExpressionWraps`: with the balance within its limits, each
difference the tests form, and each new balance they allow, fits the width; on such
values `Wrap` is the identity.

**Model-checked only.** `EveryRequestAnswered`, `SignalledProcessesExit` and
`WalletsConverge`: liveness under fairness is out of
the prover's reach. Every other property of a passing run is proved. The
violations are TLC's. No module uses a recursive definition, so no theorem had to
be given up for one.

## 7. Not modelled, and why

- Wording, logging, metrics, tracing and timestamps: nothing depends on them. The
  middleware hands every request on unchanged and reports, after the handler has
  returned, what it saw; the tracer and the environment only add ways for a startup
  to fail.
- The Wallet service beyond its answer, MongoDB beyond sessions and indexes: not in
  the repository. Kafka Connect and the consumer are modelled from what the
  repository says of them; an event that is lost for good, or whose wallet does not
  exist yet, breaks `WalletsConverge` and is the reason the live-stack tests wait
  for convergence.
- Code that is never called: the notifications client, the producer,
  `WalletModifyBalance`, the gateways commented out in the service.
- That a phone keeps the wallet id of its history when its wallet is deleted and
  created again is a limitation `src/README.md:353` states. What the service does with
  such wallets is modelled (`Wallets[p]` with several ids, run `transfers`);
  `OneWalletPerPhone` and `CaughtUp` assume that there are none (`WalletsStable`).
- Failures of `json.Marshal` on the service's own responses: their types always
  encode.

## 8. Plan

`RestHandlers` inside `ServerLifecycle`: statuses across processes that end. Each
implements `TransactionsService`, so what is proved of the ledger holds of both.
