---------------------------- MODULE RestTheorems ----------------------------
(***************************************************************************)
(* The handlers around the service: what they let through is well typed,   *)
(* so the service behaves as specified behind them, and the status a       *)
(* client is told says truly whether its key is on record.                 *)
(***************************************************************************)
EXTENDS RestHandlers, OriginTheorems

\* Request holds what admitted messages ask for, as far as it is well typed.
RequestsSuffice ==
  \A m \in Message :
    LET r == Decoded(m)
    IN  Admitted(m) /\ r \in RequestType /\ ((r.receiver = None) <=> (r.op # TypeTransfer))
          => r \in Request

\* Only well-typed requests get past the handlers' checks, with validated phones.
LEMMA AdmittedIsTyped ==
  ASSUME NEW m \in Message, Admitted(m)
  PROVE  /\ Decoded(m) \in RequestType
         /\ (Decoded(m).receiver = None) <=> (Decoded(m).op # TypeTransfer)
         /\ {Decoded(m).phone, Decoded(m).receiver} \ {None} \subseteq Mobile
PROOF
<1>1. /\ m \in HTTPRequest /\ Trim \in [Phone -> Phone]
      /\ (m.receiver = None) <=> (m.op # TypeTransfer)
  BY RestAssumption
<1>2. /\ m.ref # None /\ m.amount > 0 /\ Trim[m.phone] \in Mobile
      /\ m.op = TypeTransfer => Trim[m.receiver] \in Mobile
  BY DEF Admitted, Acceptable, AcceptableTransfer, PositiveAmount, ValidatePhoneNumber
<1>3. /\ m.phone \in Phone /\ m.ref \in ReferenceID /\ m.amount \in Nat \ {0}
      /\ m.op \in TransactionType /\ m.receiver \in Phone \cup {None}
  BY <1>1, <1>2 DEF HTTPRequest
<1>4. Trimmed(m.phone) = Trim[m.phone] /\ Trim[m.phone] \in Phone
  BY <1>1, <1>3, LedgerAssumption DEF Trimmed
<1>5. /\ Trimmed(m.receiver) \in Phone \cup {None}
      /\ (Trimmed(m.receiver) = None) <=> (m.receiver = None)
      /\ m.receiver # None => Trimmed(m.receiver) \in Mobile
  BY <1>1, <1>2, <1>3, LedgerAssumption DEF Trimmed
<1> QED
  BY <1>1, <1>2, <1>3, <1>4, <1>5 DEF Decoded, RequestType

LEMMA RestStepSimulates ==
  ASSUME RequestsSuffice, [RestNext]_restVars
  PROVE  [Next]_vars
PROOF
<1>1. CASE UNCHANGED restVars
  BY <1>1 DEF restVars
<1>2. ASSUME NEW h \in Handler, MethodNotAllowed(h) \/ BadRequest(h) \/ Reply(h)
      PROVE  UNCHANGED vars
  BY <1>2 DEF MethodNotAllowed, BadRequest, Reply
<1>3. ASSUME NEW h \in Handler, CallService(h)
      PROVE  Receive(h)
  <2>1. PICK m \in Message :
          Admitted(m) /\ Arrives(h, m) /\ req' = [req EXCEPT ![h] = Decoded(m)]
    BY <1>3 DEF CallService
  <2>2. Decoded(m) \in Request
    BY <2>1, AdmittedIsTyped DEF RequestsSuffice
  <2> QED
    BY <1>3, <2>1, <2>2 DEF CallService, Receive, Arrives
<1>4. ASSUME NEW h \in Handler, Serve(h)
      PROVE  Step(h) \/ Failure(h)
  BY <1>4 DEF Serve
<1> QED
  BY <1>1, <1>2, <1>3, <1>4 DEF RestNext, Next

\* Behind the handlers every behaviour is one of the service: none of its
\* assumptions on requests is left to the client.
THEOREM RestImplementsService ==
  ASSUME RequestsSuffice
  PROVE  RestSpec => Spec
PROOF
<1>1. RestInit => Init
  BY DEF RestInit
<1>2. [RestNext]_restVars => [Next]_vars
  BY RestStepSimulates
<1> QED
  BY <1>1, <1>2, PTL DEF RestSpec, Spec

-----------------------------------------------------------------------------
(* What a response stands for. *)

\* A handler serves the message it decoded, and tells the result it got; a
\* message that was turned away never reached the service.
MessageInv(h) ==
  /\ pc[h] # "idle" => wire[h] \in Message /\ Admitted(wire[h]) /\ req[h] = Decoded(wire[h])
  /\ wire[h] = None => response[h] = None
  /\ response[h] # None =>
       \/ pc[h] = "idle" /\ response[h].status \in {400, 405}
       \/ /\ pc[h] # "idle" /\ answer[h].result # "Pending"
          /\ response[h] = ResponseTo(wire[h].op, answer[h].result)

RestInv == RestTypeOK /\ \A h \in Handler : MessageInv(h)

\* Once given, an answer stays.
LEMMA AnswerStays ==
  ASSUME TypeOK, NEW h \in Handler, AnswerInv(h), answer[h].result # "Pending", StepOf(h)
  PROVE  answer'[h] = answer[h]
PROOF
<1>1. pc[h] \in {"orphan", "done"}
  BY DEF AnswerInv
<1>2. OrphanAborts(h) \/ OrphanCommits(h)
  BY <1>1 DEF StepOf, Step, Failure, Receive, RefuseSelfTransfer, Replay, FirstTransaction,
              KnownPhone, LookupReceiver, WalletNotFound, WalletFound, DepositAttempt,
              WithdrawalAttempt, TransferAttempt, FailureAttempt, Attempting, Exhausted, Insert,
              DuplicateReference, DuplicateSequence, Lookup, Commit, Committed, TransientError,
              Break
<1> QED
  BY <1>2 DEF OrphanAborts, OrphanCommits

\* A step of the service never returns to idle and never changes the request.
LEMMA StepKeepsRequest ==
  ASSUME TypeOK, NEW h \in Handler, Step(h) \/ Failure(h)
  PROVE  pc[h] # "idle" /\ pc'[h] # "idle" /\ req' = req
PROOF
<1> USE DEF TypeOK, Goto, Respond, Refuse, RespondRecorded
<1>1. CASE RefuseSelfTransfer(h) \/ Replay(h) \/ FirstTransaction(h) \/ KnownPhone(h)
  BY <1>1 DEF RefuseSelfTransfer, Replay, FirstTransaction, KnownPhone
<1>2. CASE LookupReceiver(h) \/ WalletNotFound(h) \/ WalletFound(h)
  BY <1>2 DEF LookupReceiver, WalletNotFound, WalletFound
<1>3. CASE DepositAttempt(h) \/ WithdrawalAttempt(h) \/ TransferAttempt(h) \/ FailureAttempt(h)
  BY <1>3 DEF DepositAttempt, WithdrawalAttempt, TransferAttempt, FailureAttempt, Attempting, Draft
<1>4. CASE Exhausted(h) \/ Insert(h) \/ DuplicateReference(h) \/ DuplicateSequence(h) \/ Lookup(h)
  BY <1>4 DEF Exhausted, Insert, AfterInsert, DuplicateReference, DuplicateSequence, Lookup
<1>5. CASE Commit(h) \/ Committed(h) \/ TransientError(h) \/ Break(h)
  BY <1>5 DEF Commit, Committed, RespondCommitted, TransientError, Break
<1>6. CASE OrphanAborts(h) \/ OrphanCommits(h)
  BY <1>6 DEF OrphanAborts, OrphanCommits
<1> QED
  BY <1>1, <1>2, <1>3, <1>4, <1>5, <1>6 DEF Step, Failure

\* The status told of an error is one of seven, and 201 is told of none.
LEMMA ErrorStatusTyped ==
  ASSUME NEW op, NEW result
  PROVE  ErrorStatus(ErrorStatuses(op), result) \in {400, 404, 422, 429, 500}
PROOF
  BY DEF ErrorStatus, ErrorStatuses, DepositErrors, WithdrawErrors, TransferErrors

\* 422 is told of a failed receiver only, and the other client errors of refusals.
LEMMA ErrorStatusMeans ==
  ASSUME NEW op, NEW result, NEW status, status = ErrorStatus(ErrorStatuses(op), result)
  PROVE  /\ status = 422 => result = "ErrHalfTransferFail"
         /\ status \in {400, 404, 429} => result \in Refusal
PROOF
<1>1. CASE ErrorStatuses(op) = DepositErrors
  BY <1>1 DEF ErrorStatus, DepositErrors, Refusal
<1>2. CASE ErrorStatuses(op) = WithdrawErrors
  BY <1>2 DEF ErrorStatus, WithdrawErrors, Refusal
<1>3. CASE ErrorStatuses(op) = TransferErrors
  BY <1>3 DEF ErrorStatus, TransferErrors, Refusal
<1> QED
  BY <1>1, <1>2, <1>3 DEF ErrorStatuses

LEMMA ResponseTyped ==
  ASSUME NEW op, NEW result
  PROVE  ResponseTo(op, result) \in [status : {201, 400, 404, 405, 422, 429, 500},
                                     body : {"record", "error", "text"}]
PROOF
  BY ErrorStatusTyped DEF ResponseTo, RespondWithError

LEMMA RestInvKept ==
  ASSUME ServiceInv, ServiceInv', OriginInv, RestInv, NEW h \in Handler,
         MethodNotAllowed(h) \/ BadRequest(h) \/ CallService(h) \/ Serve(h) \/ Reply(h)
  PROVE  RestInv'
PROOF
<1>1. /\ TypeOK /\ TypeOK' /\ AnswerInv(h) /\ RestTypeOK
      /\ \A g \in Handler : MessageInv(g)
  BY DEF ServiceInv, OriginInv, RestInv
<1>2. ASSUME NEW g \in Handler, pc'[g] = pc[g], req'[g] = req[g], answer'[g] = answer[g],
             wire'[g] = wire[g], response'[g] = response[g]
      PROVE  MessageInv(g)'
  BY <1>1, <1>2 DEF MessageInv
<1>3. CASE MethodNotAllowed(h) \/ BadRequest(h)
  <2>1. PICK m \in Message : Arrives(h, m)
    BY <1>3 DEF MethodNotAllowed, BadRequest
  <2>2. PICK status \in {400, 405}, body \in {"error", "text"} :
          response' = [response EXCEPT ![h] = [status |-> status, body |-> body]]
    BY <1>3 DEF MethodNotAllowed, BadRequest, RespondWithError
  <2>3. UNCHANGED vars /\ pc[h] = "idle" /\ wire' = [wire EXCEPT ![h] = m]
    BY <1>3, <2>1 DEF MethodNotAllowed, BadRequest, Arrives
  <2>4. RestTypeOK'
    BY <1>1, <2>2, <2>3 DEF RestTypeOK
  <2>5. MessageInv(h)'
    <3>1. response'[h].status \in {400, 405} /\ pc'[h] = "idle"
      BY <1>1, <2>2, <2>3 DEF RestTypeOK, vars, serviceVars
    <3> QED
      BY <3>1, <1>1, <2>3, RestAssumption DEF MessageInv, RestTypeOK
  <2> QED
    BY <1>1, <1>2, <2>2, <2>3, <2>4, <2>5 DEF RestInv, RestTypeOK, vars, serviceVars
<1>4. CASE CallService(h)
  <2>1. PICK m \in Message :
          Admitted(m) /\ Arrives(h, m) /\ req' = [req EXCEPT ![h] = Decoded(m)]
    BY <1>4 DEF CallService
  <2>2. /\ wire[h] = None /\ wire' = [wire EXCEPT ![h] = m]
        /\ pc' = [pc EXCEPT ![h] = "check"] /\ UNCHANGED <<answer, response>>
    BY <1>4, <2>1 DEF CallService, Arrives, Goto
  <2>3. RestTypeOK'
    BY <1>1, <2>2 DEF RestTypeOK
  <2>4. MessageInv(h)'
    BY <1>1, <2>1, <2>2 DEF MessageInv, RestTypeOK, TypeOK
  <2> QED
    BY <1>1, <1>2, <2>1, <2>2, <2>3, <2>4 DEF RestInv, RestTypeOK, TypeOK
<1>5. CASE Serve(h)
  <2>1. (Step(h) \/ Failure(h)) /\ StepOf(h) /\ UNCHANGED <<wire, response>>
    BY <1>5 DEF Serve, StepOf
  <2>2. pc[h] # "idle" /\ pc'[h] # "idle" /\ req' = req
    BY <1>1, <2>1, StepKeepsRequest
  <2>3. answer[h].result # "Pending" => answer'[h] = answer[h]
    BY <1>1, <2>1, AnswerStays
  <2>4. RestTypeOK'
    BY <1>1, <2>1 DEF RestTypeOK
  <2>5. MessageInv(h)'
    BY <1>1, <2>1, <2>2, <2>3 DEF MessageInv
  <2>6. \A g \in Handler \ {h} : Untouched(g)
    BY <1>1, <2>1, StepIsLocal
  <2> QED
    BY <1>2, <2>1, <2>4, <2>5, <2>6 DEF RestInv, Untouched
<1>6. CASE Reply(h)
  <2>1. /\ answer[h].result # "Pending" /\ response[h] = None /\ UNCHANGED <<vars, wire>>
        /\ response' = [response EXCEPT ![h] = ResponseTo(wire[h].op, answer[h].result)]
    BY <1>6 DEF Reply
  <2>2. RestTypeOK'
    BY <1>1, <2>1, ResponseTyped DEF RestTypeOK
  <2>3. pc[h] # "idle"
    BY <1>1, <2>1 DEF AnswerInv
  <2>4. MessageInv(h)'
    BY <1>1, <2>1, <2>3, RestAssumption DEF MessageInv, RestTypeOK, vars, serviceVars
  <2> QED
    BY <1>1, <1>2, <2>1, <2>2, <2>4 DEF RestInv, RestTypeOK, vars, serviceVars
<1> QED
  BY <1>3, <1>4, <1>5, <1>6

THEOREM RestInvariance ==
  ASSUME RequestsSuffice
  PROVE  RestSpec => []RestInv
PROOF
<1>1. RestInit /\ ServiceInv => RestInv
  BY DEF RestInit, Init, RestInv, RestTypeOK, MessageInv, ServiceInv
<1>2. ServiceInv /\ ServiceInv' /\ OriginInv /\ RestInv /\ [RestNext]_restVars => RestInv'
  <2> SUFFICES ASSUME ServiceInv, ServiceInv', OriginInv, RestInv, [RestNext]_restVars
               PROVE  RestInv'
    OBVIOUS
  <2>1. CASE UNCHANGED restVars
    BY <2>1 DEF restVars, RestInv, RestTypeOK, MessageInv, ServiceInv, vars, serviceVars
  <2>2. CASE RestNext
    BY <2>2, RestInvKept DEF RestNext
  <2> QED
    BY <2>1, <2>2
<1> QED
  BY <1>1, <1>2, RestImplementsService, Invariance, Origins, PTL DEF RestSpec

\* Only the documented statuses are told, and behind them the service keeps its
\* types whatever the messages hold.
THEOREM RestTypeCorrect ==
  ASSUME RequestsSuffice
  PROVE  RestSpec => []RestTypeOK
PROOF
<1>1. ServiceInv /\ RestInv => RestTypeOK
  BY DEF RestInv, ServiceInv
<1> QED
  BY <1>1, RestImplementsService, Invariance, RestInvariance, PTL

\* A client told 201 or 422 has a record under its key.
THEOREM AcceptanceCorrect ==
  ASSUME RequestsSuffice
  PROVE  RestSpec => []AcceptedIsRecorded
PROOF
<1>1. ServiceInv /\ RestInv => AcceptedIsRecorded
  <2> SUFFICES ASSUME ServiceInv, RestInv, NEW h \in Handler, Told(h, {201, 422})
               PROVE  ByReference(ledger, wire[h].ref) # {}
    BY DEF AcceptedIsRecorded
  <2>1. HandlerInv(h) /\ MessageInv(h)
    BY DEF ServiceInv, RestInv
  <2>2. /\ pc[h] # "idle" /\ response[h] = ResponseTo(wire[h].op, answer[h].result)
    BY <2>1 DEF MessageInv, Told
  <2>3. req[h].ref = wire[h].ref
    BY <2>1, <2>2 DEF MessageInv, Decoded
  <2>4. answer[h].result \in {"OK", "ErrHalfTransferFail"}
    BY <2>2, ErrorStatusTyped, ErrorStatusMeans DEF Told, ResponseTo, RespondWithError
  <2> QED
    BY <2>1, <2>3, <2>4 DEF HandlerInv, Answered, ShowsRecord, ByReference
<1> QED
  BY <1>1, RestImplementsService, Invariance, RestInvariance, PTL

\* A client told 400, 404, 405 or 429 has left nothing under a key only its own.
THEOREM RejectionCorrect ==
  ASSUME RequestsSuffice
  PROVE  RestSpec => []RejectedLeavesNoTrace
PROOF
<1>1. ServiceInv /\ OriginInv /\ RestInv => RejectedLeavesNoTrace
  <2> SUFFICES ASSUME ServiceInv, OriginInv, RestInv, NEW h \in Handler,
                      Told(h, {400, 404, 405, 429}), SentKeyIsOnlyOf(h),
                      NEW t \in ledger \cup UNION {writes[g] : g \in Handler},
                      t.ReferenceID = wire[h].ref
               PROVE  FALSE
    BY DEF RejectedLeavesNoTrace, ByReference
  <2>1. \A g \in Handler : HandlerInv(g) /\ AnswerInv(g) /\ DocsMadeFor(g) /\ MessageInv(g)
    BY DEF ServiceInv, OriginInv, RestInv
  <2>2. ~MayHaveCommitted(h) /\ ~Open(h)
    <3>1. CASE pc[h] = "idle"
      BY <3>1 DEF MayHaveCommitted, Open
    <3>2. CASE pc[h] # "idle"
      <4>1. response[h] = ResponseTo(wire[h].op, answer[h].result)
        BY <2>1, <3>2 DEF MessageInv, Told
      <4>2. answer[h].result \in Refusal
        BY <4>1, ErrorStatusTyped, ErrorStatusMeans DEF Told, ResponseTo, RespondWithError
      <4> QED
        BY <2>1, <4>2 DEF AnswerInv, Refusal, MayHaveCommitted, Open
    <3> QED
      BY <3>1, <3>2
  <2>3. ASSUME NEW g \in Handler \ {h}, pc[g] # "idle"
        PROVE  ~MadeFor(req[g], t)
    <3>1. wire[g] \in Message /\ Admitted(wire[g]) /\ req[g] = Decoded(wire[g])
      BY <2>1, <2>3 DEF MessageInv
    <3>2. req[g].ref = wire[g].ref
      BY <3>1 DEF Decoded
    <3>3. wire[g].ref # None /\ wire[g] # None
      BY <3>1, RestAssumption DEF Admitted, Acceptable, AcceptableTransfer
    <3>4. wire[h].ref \notin {wire[g].ref, ReceiverRef(wire[g].ref)}
      BY <3>3 DEF SentKeyIsOnlyOf
    <3> QED
      BY <3>2, <3>4 DEF MadeFor
  <2>4. CASE t \in ledger
    <3>1. Origin(t)
      BY <2>4 DEF OriginInv
    <3>2. ~ \E S \in Seeds : t \in S
      BY DEF SentKeyIsOnlyOf, ByReference
    <3>3. PICK g \in Handler : MadeFor(req[g], t) /\ MayHaveCommitted(g)
      BY <3>1, <3>2 DEF Origin
    <3> QED
      BY <2>2, <2>3, <3>3 DEF MayHaveCommitted
  <2>5. ASSUME NEW g \in Handler, t \in writes[g]
        PROVE  FALSE
    <3>1. Open(g) /\ t \in docs[g]
      BY <2>1, <2>5 DEF HandlerInv, Session, OpenTransaction
    <3>2. MadeFor(req[g], t)
      BY <2>1, <3>1 DEF DocsMadeFor
    <3> QED
      BY <2>2, <2>3, <3>1, <3>2 DEF Open
  <2> QED
    BY <2>4, <2>5
<1> QED
  BY <1>1, RestImplementsService, Invariance, Origins, RestInvariance, PTL

\* Where the initial ledgers spell every phone one way, so does every later one.
THEOREM SpellingCorrect ==
  ASSUME RequestsSuffice,
         \A S \in Seeds : \A t \in S :
           /\ PhonesOf(t) \subseteq Mobile
           /\ t.Type = TypeTransfer => t.SenderPhone # t.ReceiverPhone
  PROVE  RestSpec => []OneSpellingPerPhone
PROOF
<1>1. OriginInv /\ RestInv => OneSpellingPerPhone
  <2> SUFFICES ASSUME OriginInv, RestInv, NEW t \in ledger
               PROVE  /\ PhonesOf(t) \subseteq Mobile
                      /\ t.Type = TypeTransfer => t.SenderPhone # t.ReceiverPhone
    BY DEF OneSpellingPerPhone
  <2>1. CASE \E S \in Seeds : t \in S
    BY <2>1
  <2>2. ASSUME NEW g \in Handler, MadeFor(req[g], t), MayHaveCommitted(g)
        PROVE  /\ PhonesOf(t) \subseteq Mobile
               /\ t.Type = TypeTransfer => t.SenderPhone # t.ReceiverPhone
    <3>1. wire[g] \in Message /\ Admitted(wire[g]) /\ req[g] = Decoded(wire[g])
      BY <2>2 DEF RestInv, MessageInv, MayHaveCommitted
    <3>2. {req[g].phone, req[g].receiver} \ {None} \subseteq Mobile
      BY <3>1, AdmittedIsTyped
    <3> QED
      BY <2>2, <3>2 DEF MadeFor, PhonesOf
  <2> QED
    BY <2>1, <2>2 DEF OriginInv, Origin
<1> QED
  BY <1>1, RestImplementsService, Origins, RestInvariance, PTL
=============================================================================
