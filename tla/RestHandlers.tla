---------------------------- MODULE RestHandlers ----------------------------
(***************************************************************************)
(* The HTTP side: the routes, DepositHandler, WithdrawHandler and          *)
(* TransferHandler around the service.  A message is judged in one step,   *)
(* since nothing shared is read; what is admitted runs as a handler of     *)
(* TransactionsService, and its result is told to the client as a status.  *)
(***************************************************************************)
EXTENDS ServiceProperties

CONSTANTS
  Message,    \* the HTTP requests clients send to the three routes
  Trim,       \* Trim[p]: the text p without the white space around it
  Mobile      \* the texts of eleven digits with one of the four prefixes

\* A body that decodes is one without unknown fields and of the right types.
HTTPRequest ==
  [method : {"POST", "GET"}, op : TransactionType, ref : ReferenceID \cup {None},
   decodes : BOOLEAN, phone : Phone, receiver : Phone \cup {None}, amount : Int]

ASSUME RestAssumption ==
  /\ Message \subseteq HTTPRequest /\ None \notin Message
  /\ \A m \in Message : (m.receiver = None) <=> (m.op # TypeTransfer)
  /\ Trim \in [Phone -> Phone]
  /\ Mobile \subseteq Phone

VARIABLES
  wire,       \* wire[h]: the message h serves, None before it arrives
  response    \* response[h]: the status and body sent, None before

restVars == <<vars, wire, response>>

RestTypeOK ==
  /\ TypeOK
  /\ wire \in [Handler -> Message \cup {None}]
  /\ response \in [Handler -> {None} \cup
       [status : {201, 400, 404, 405, 422, 429, 500}, body : {"record", "error", "text"}]]

RestInit ==
  /\ Init
  /\ wire = [h \in Handler |-> None]
  /\ response = [h \in Handler |-> None]

-----------------------------------------------------------------------------
(* What is checked before the service is called. *)

\* RegisterRoutes binds the three paths to POST.
Routed(m) == m.method = "POST"

\* Mutant: the sign of the amount is not checked.
AnyAmount(m) == TRUE

PositiveAmount(m) == m.amount > 0

ValidatePhoneNumber(p) == Trim[p] \in Mobile

\* The checks of DepositHandler and WithdrawHandler, and those of
\* TransferHandler, which looks at a second phone.
Acceptable(m) ==
  m.ref # None /\ m.decodes /\ PositiveAmount(m) /\ ValidatePhoneNumber(m.phone)

AcceptableTransfer(m) == Acceptable(m) /\ ValidatePhoneNumber(m.receiver)

Admitted(m) ==
  Routed(m) /\ IF m.op = TypeTransfer THEN AcceptableTransfer(m) ELSE Acceptable(m)

\* Mutant: the phone is trimmed for the check and used as it was sent.
AsSent(p) == p

\* What ValidatePhoneNumber leaves in the request it was given a pointer into.
Trimmed(p) == IF p = None THEN None ELSE Trim[p]

Decoded(m) ==
  [op |-> m.op, phone |-> Trimmed(m.phone), receiver |-> Trimmed(m.receiver),
   amount |-> m.amount, ref |-> m.ref]

-----------------------------------------------------------------------------
(* How a result is told. *)

DepositErrors ==
  [ErrWalletNotFound |-> 404, ErrExceedsMaxBalance |-> 400, ErrHighFrequencyTransaction |-> 429]

WithdrawErrors ==
  [ErrWalletNotFound |-> 404, ErrInsufficientBalance |-> 400, ErrHighFrequencyTransaction |-> 429]

\* Mutant: business refusals of a transfer are told as 422.
BusinessErrorsAs422 ==
  [ErrInvalidTransactionStatus |-> 400, ErrWalletNotFound |-> 404,
   ErrInsufficientBalance |-> 422, ErrExceedsMaxBalance |-> 422,
   ErrHighFrequencyTransaction |-> 429, ErrHalfTransferFail |-> 422]

TransferErrors ==
  [ErrInvalidTransactionStatus |-> 400, ErrWalletNotFound |-> 404,
   ErrInsufficientBalance |-> 400, ErrExceedsMaxBalance |-> 400,
   ErrHighFrequencyTransaction |-> 429, ErrHalfTransferFail |-> 422]

ErrorStatuses(op) ==
  IF op = TypeDeposit THEN DepositErrors
  ELSE IF op = TypeWithdrawal THEN WithdrawErrors ELSE TransferErrors

\* Mutant: an error without a branch is taken for the client's.
UnknownIsBadRequest(errors, result) ==
  IF result \in DOMAIN errors THEN errors[result] ELSE 400

ErrorStatus(errors, result) ==
  IF result \in DOMAIN errors THEN errors[result] ELSE 500

RespondWithError(status) == [status |-> status, body |-> "error"]

ResponseTo(op, result) ==
  IF result = "OK" THEN [status |-> 201, body |-> "record"]
  ELSE RespondWithError(ErrorStatus(ErrorStatuses(op), result))

-----------------------------------------------------------------------------
Arrives(h, m) ==
  /\ pc[h] = "idle" /\ wire[h] = None
  /\ wire' = [wire EXCEPT ![h] = m]

\* The ServeMux answers another method itself, in plain text: the handlers'
\* own test of the method is never reached.
MethodNotAllowed(h) ==
  /\ \E m \in Message : ~Routed(m) /\ Arrives(h, m)
  /\ response' = [response EXCEPT ![h] = [status |-> 405, body |-> "text"]]
  /\ UNCHANGED vars

BadRequest(h) ==
  /\ \E m \in Message : Routed(m) /\ ~Admitted(m) /\ Arrives(h, m)
  /\ response' = [response EXCEPT ![h] = RespondWithError(400)]
  /\ UNCHANGED vars

CallService(h) ==
  /\ \E m \in Message :
       Admitted(m) /\ Arrives(h, m) /\ req' = [req EXCEPT ![h] = Decoded(m)]
  /\ Goto(h, "check")
  /\ UNCHANGED <<storeVars, local, answer, response>>

Serve(h) == (Step(h) \/ Failure(h)) /\ UNCHANGED <<wire, response>>

Reply(h) ==
  /\ answer[h].result \notin {"Pending", "NoReply"} /\ response[h] = None
  /\ response' = [response EXCEPT ![h] = ResponseTo(wire[h].op, answer[h].result)]
  /\ UNCHANGED <<vars, wire>>

RestNext ==
  \E h \in Handler :
    MethodNotAllowed(h) \/ BadRequest(h) \/ CallService(h) \/ Serve(h) \/ Reply(h)

RestSpec == RestInit /\ [][RestNext]_restVars

-----------------------------------------------------------------------------
(* Properties. *)

Told(h, statuses) == response[h] # None /\ response[h].status \in statuses

\* 201 and 422 speak of a record: one with the key of the message is on the
\* ledger, however the request fared among its races and replays.
AcceptedIsRecorded ==
  \A h \in Handler : Told(h, {201, 422}) => ByReference(ledger, wire[h].ref) # {}

SentKeyIsOnlyOf(h) ==
  /\ \A S \in Seeds : ByReference(S, wire[h].ref) = {}
  /\ \A g \in Handler \ {h} :
       wire[g] # None /\ wire[g].ref # None =>
         wire[h].ref \notin {wire[g].ref, ReceiverRef(wire[g].ref)}

\* A client told 400, 404, 405 or 429 may send its key again: nothing under it
\* is on the ledger or in an open transaction, unless another message or the
\* initial ledger used it.  Only 500, and no answer at all, leave it in doubt.
RejectedLeavesNoTrace ==
  \A h \in Handler :
    Told(h, {400, 404, 405, 429}) /\ SentKeyIsOnlyOf(h) =>
      ByReference(ledger \cup UNION {writes[g] : g \in Handler}, wire[h].ref) = {}

\* However a phone is spelled in a message, the ledger knows it by one validated
\* spelling; so it has one history, and no transfer leads from it to itself.
OneSpellingPerPhone ==
  \A t \in ledger :
    PhonesOf(t) \subseteq Mobile /\ (t.Type = TypeTransfer => t.SenderPhone # t.ReceiverPhone)

-----------------------------------------------------------------------------
(* Statements of the documentation that the code does not meet. *)

\* README, error responses: 500 is told of "Unexpected database/client
\* failures"; so a request none of whose calls failed is not told 500.
InternalErrorIsUnexpected ==
  \A h \in Handler : Told(h, {500}) => answer[h].result = "InternalError"

\* Swagger annotation of DepositHandler: 201 is "Deposit transaction successful
\* & created"; so the record a 201 shows is posted.
CreatedIsPosted ==
  \A h \in Handler : Told(h, {201}) => answer[h].tx.Status = StatusCompleted
=============================================================================
