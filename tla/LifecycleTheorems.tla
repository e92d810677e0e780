------------------------- MODULE LifecycleTheorems -------------------------
(***************************************************************************)
(* Processes that start, stop and die around the service: they take no     *)
(* step the service would not, so all that is proved of it holds across    *)
(* restarts; and what main's order of startup and shutdown guarantees to   *)
(* the requests, for every number of processes and handlers.               *)
(***************************************************************************)
EXTENDS ServerLifecycle, ServiceTheorems

\* What main has done by the time it is at its phase.
ProcessInv(p) ==
  /\ phase[p] \in {"serve", "drain", "close wallet"} => open[p] = Connection
  /\ phase[p] = "wire" => open[p] = {"mongo"}
  /\ phase[p] \in {"sequence index", "reference index"} => open[p] = {"mongo"}
  /\ phase[p] = "connect" => open[p] = {}
  /\ phase[p] = "reference index" => "unique_wallet_sequence" \in indexes
  /\ phase[p] \notin {"connect", "sequence index", "reference index"} => indexes = Index
  /\ exit[p] = "clean" => phase[p] = "return"

\* What a request has of its process: one that is past its startup, and in
\* flight only as long as main has not begun to close the connections.
RequestInv(h) ==
  /\ (home[h] = None) <=> (pc[h] = "idle")
  /\ home[h] # None => phase[home[h]] \notin Startup
  /\ home[h] # None /\ phase[home[h]] \in Closing => pc[h] \in {"orphan", "done"}
  /\ pc[h] \in {"orphan", "done"} => answer[h].result # "Pending"
  /\ answer[h].result = "NoReply" =>
       home[h] # None /\ exit[home[h]] \in {"fatal", "killed"}

LifecycleInv ==
  /\ ProcessTypeOK
  /\ \A p \in Process : ProcessInv(p)
  /\ \A h \in Handler : RequestInv(h)

-----------------------------------------------------------------------------
LEMMA StepSimulates == [LifecycleNext]_lifecycleVars => [Next]_vars
PROOF
<1>. SUFFICES ASSUME [LifecycleNext]_lifecycleVars
              PROVE  [Next]_vars
  OBVIOUS
<1>1. CASE UNCHANGED lifecycleVars
  BY <1>1 DEF lifecycleVars
<1>2. ASSUME NEW p \in Process, Main(p)
      PROVE  UNCHANGED vars
  BY <1>2 DEF Main
<1>3. ASSUME NEW h \in Handler, Work(h) \/ Fail(h) \/ Die(h) \/ \E p \in Process : Arrive(h, p)
      PROVE  Next
  BY <1>3 DEF Work, Fail, Die, Arrive, Next, Failure
<1> QED
  BY <1>1, <1>2, <1>3 DEF LifecycleNext

\* Whatever main does, with any number of processes starting, stopping and
\* dying, every behaviour is one of the service.
THEOREM LifecycleImplementsService == LifecycleSpec => Spec
PROOF
<1>1. LifecycleInit => Init
  BY DEF LifecycleInit
<1> QED
  BY <1>1, StepSimulates, PTL DEF LifecycleSpec, Spec

\* The ledger stays correct across restarts, overlapping deployments and forced
\* exits with transactions open.
THEOREM LedgerSurvivesRestarts == LifecycleSpec => []LedgerWellFormed
PROOF
  BY LifecycleImplementsService, LedgerCorrect, PTL

-----------------------------------------------------------------------------
\* A step of a goroutine either leaves its answer open and goes on, or ends with
\* an answer that was given; one that has ended stays so.
Outcome(h) ==
  /\ pc'[h] # "idle"
  /\ pc[h] \in {"orphan", "done"} => pc'[h] \in {"orphan", "done"}
  /\ \/ /\ answer'[h] = answer[h]
        /\ pc'[h] \in {"orphan", "done"} => pc[h] \in {"orphan", "done"}
     \/ answer'[h].result \notin {"Pending", "NoReply"}

LEMMA StepOutcome ==
  ASSUME TypeOK, NEW h \in Handler,
         \/ Step(h) \/ TransientError(h) \/ OrphanCommits(h)
         \/ Break(h) /\ answer'[h].result = "InternalError"
  PROVE  Outcome(h)
PROOF
<1> USE DEF TypeOK, Outcome, Respond, Goto, Refuse, RespondRecorded
<1>1. CASE RefuseSelfTransfer(h) \/ Replay(h) \/ FirstTransaction(h)
  BY <1>1 DEF RefuseSelfTransfer, Replay, FirstTransaction
<1>2. CASE KnownPhone(h) \/ LookupReceiver(h)
  BY <1>2 DEF KnownPhone, LookupReceiver
<1>3. CASE WalletNotFound(h) \/ WalletFound(h)
  BY <1>3 DEF WalletNotFound, WalletFound
<1>4. CASE DepositAttempt(h) \/ WithdrawalAttempt(h)
  BY <1>4 DEF DepositAttempt, WithdrawalAttempt, Draft, Attempting
<1>5. CASE TransferAttempt(h) \/ FailureAttempt(h)
  BY <1>5 DEF TransferAttempt, FailureAttempt, Draft, Attempting
<1>6. CASE Exhausted(h) \/ Lookup(h)
  BY <1>6 DEF Exhausted, Lookup, ExhaustedError
<1>7. CASE Insert(h)
  BY <1>7 DEF Insert, AfterInsert
<1>8. CASE DuplicateReference(h) \/ DuplicateSequence(h)
  BY <1>8 DEF DuplicateReference, DuplicateSequence
<1>9. CASE Commit(h) \/ OrphanCommits(h) \/ OrphanAborts(h)
  BY <1>9 DEF Commit, OrphanCommits, OrphanAborts
<1>10. CASE Committed(h)
  BY <1>10 DEF Committed, RespondCommitted
<1>11. CASE TransientError(h)
  BY <1>11 DEF TransientError
<1>12. CASE Break(h) /\ answer'[h].result = "InternalError"
  BY <1>12 DEF Break
<1> QED
  BY <1>1, <1>2, <1>3, <1>4, <1>5, <1>6, <1>7, <1>8, <1>9, <1>10, <1>11, <1>12 DEF Step

LEMMA LifecycleInitially == LifecycleInit => LifecycleInv
PROOF
  BY ProcessAssumption DEF LifecycleInit, LifecycleInv, Init, ProcessTypeOK, ProcessInv,
     RequestInv, Startup, Closing, Connection, Index

\* A step of main's concerns its own process, its connections and the indexes.
LEMMA MainKeeps ==
  ASSUME LifecycleInv, NEW p \in Process, Main(p)
  PROVE  LifecycleInv'
PROOF
<1> USE DEF LifecycleInv, ProcessTypeOK, At, Running, Enter, Startup, Closing
<1>1. UNCHANGED <<pc, answer, home>>
  BY DEF Main, vars, serviceVars
<1>2. ProcessTypeOK' /\ ProcessInv(p)'
  <2> USE <1>1 DEF ProcessInv
  <2>1. CASE ConnectMongoDB(p)
    BY <2>1 DEF ConnectMongoDB, Opened, Connection
  <2>2. CASE CreateSequenceIndex(p)
    BY <2>2 DEF CreateSequenceIndex, Index
  <2>3. CASE CreateReferenceIndex(p)
    BY <2>3 DEF CreateReferenceIndex, Index
  <2>4. CASE StartupFails(p) \/ ShutdownTimesOut(p)
    BY <2>4 DEF StartupFails, OnStartupError, ShutdownTimesOut, OnTimeout, Fatal, Ends
  <2>5. CASE Listen(p)
    BY <2>5 DEF Listen, Opened, Connection
  <2>6. CASE Signal(p) \/ ShutdownReturns(p)
    BY <2>6 DEF Signal, ShutdownReturns
  <2>7. CASE CloseWallet(p) \/ Disconnect(p)
    <3>1. ASSUME NEW c, Closed(p, c) PROVE open' \in [Process -> SUBSET Connection]
      <4>1. open \in [Process -> SUBSET Connection] /\ open[p] \ {c} \in SUBSET Connection
        OBVIOUS
      <4> HIDE DEF LifecycleInv, ProcessTypeOK, ProcessInv
      <4> QED
        BY <3>1, <4>1, Zenon DEF Closed
    <3>2. CASE CloseWallet(p)
      BY <3>1, <3>2 DEF CloseWallet
    <3>3. CASE Disconnect(p)
      BY <3>1, <3>3 DEF Disconnect
    <3> QED
      BY <2>7, <3>2, <3>3
  <2>8. CASE Return(p) \/ Kill(p)
    BY <2>8 DEF Return, Kill, Ends
  <2> QED
    BY <2>1, <2>2, <2>3, <2>4, <2>5, <2>6, <2>7, <2>8 DEF Main, Start, Stop
<1>3. /\ indexes \subseteq indexes' /\ indexes' \subseteq Index
      /\ \A q \in Process \ {p} :
           phase'[q] = phase[q] /\ open'[q] = open[q] /\ exit'[q] = exit[q]
  <2>1. CASE Start(p)
    BY <2>1 DEF Start, ConnectMongoDB, CreateSequenceIndex, CreateReferenceIndex,
       StartupFails, OnStartupError, Fatal, Listen, Opened, Ends, Index
  <2>2. CASE Signal(p) \/ Kill(p)
    BY <2>2 DEF Signal, Kill, Ends
  <2>3. CASE Stop(p)
    BY <2>3 DEF Stop, ShutdownReturns, ShutdownTimesOut, OnTimeout, Fatal, CloseWallet,
       Disconnect, Return, Closed, Ends
  <2> QED
    BY <2>1, <2>2, <2>3 DEF Main
<1>4. ASSUME NEW q \in Process PROVE ProcessInv(q)'
  <2>1. CASE q = p
    BY <2>1, <1>2
  <2>2. CASE q # p
    BY <2>2, <1>3 DEF ProcessInv, Index
  <2> QED
    BY <2>1, <2>2
\* main leaves its startup for good, and begins to close once nobody is in flight.
<1>5. /\ phase[p] \notin Startup => phase'[p] \notin Startup
      /\ phase'[p] \in Closing => phase[p] \in Closing \/ InFlight(p) = {}
      /\ exit[p] \in {"fatal", "killed"} => exit'[p] = exit[p]
  <2>1. CASE Start(p)
    BY <2>1 DEF Start, ConnectMongoDB, CreateSequenceIndex, CreateReferenceIndex,
       StartupFails, OnStartupError, Fatal, Listen, Opened, Ends
  <2>2. CASE Signal(p) \/ Kill(p)
    BY <2>2 DEF Signal, Kill, Ends
  <2>3. CASE Stop(p)
    BY <2>3 DEF Stop, ShutdownReturns, Drained, ShutdownTimesOut, OnTimeout, Fatal, CloseWallet,
       Disconnect, Return, Closed, Ends
  <2> QED
    BY <2>1, <2>2, <2>3 DEF Main
<1>6. ASSUME NEW h \in Handler PROVE RequestInv(h)'
  <2>1. CASE home[h] = p
    <3>1. p # None /\ (InFlight(p) = {} => pc[h] \in {"idle", "orphan", "done"})
      BY <2>1, ProcessAssumption DEF InFlight
    <3> QED
      BY <2>1, <3>1, <1>1, <1>5 DEF RequestInv
  <2>2. CASE home[h] # p
    <3>1. home[h] # None => home[h] \in Process \ {p}
      BY <2>2
    <3> QED
      BY <3>1, <1>1, <1>3 DEF RequestInv
  <2> QED
    BY <2>1, <2>2
<1> QED
  BY <1>2, <1>4, <1>6

\* A step of a goroutine, or its end, concerns its own request.
LEMMA GoroutineKeeps ==
  ASSUME TypeOK, LifecycleInv, NEW h \in Handler,
         Work(h) \/ Fail(h) \/ Die(h) \/ \E p \in Process : Arrive(h, p)
  PROVE  LifecycleInv'
PROOF
<1> USE DEF LifecycleInv
<1>1. UNCHANGED processVars
  BY DEF Work, Fail, Die, Arrive
<1>2. \A p \in Process : ProcessInv(p)'
  BY <1>1 DEF ProcessInv, processVars
<1>3. ProcessTypeOK'
  BY <1>1 DEF ProcessTypeOK, processVars, Work, Fail, Die, Arrive
<1>4. /\ \A g \in Handler \ {h} : pc'[g] = pc[g] /\ answer'[g] = answer[g]
  <2>1. StepOf(h)
    BY DEF Work, Fail, Die, Arrive, StepOf, Failure
  <2> QED
    BY <2>1, StepIsLocal DEF Untouched
<1>5. \A g \in Handler \ {h} : home'[g] = home[g]
  BY DEF ProcessTypeOK, Work, Fail, Die, Arrive
<1>6. ASSUME NEW g \in Handler \ {h} PROVE RequestInv(g)'
  BY <1>1, <1>4, <1>5 DEF RequestInv, processVars
<1>7. RequestInv(h)'
  <2>1. CASE Work(h) \/ Fail(h)
    <3>1. Outcome(h)
      BY <2>1, StepOutcome DEF Work, Fail
    <3>2. home[h] # None /\ UNCHANGED <<home, phase, exit>>
      BY <2>1, ProcessAssumption DEF Work, Fail, processVars
    <3> QED
      BY <3>1, <3>2 DEF RequestInv, Outcome
  <2>2. CASE Die(h)
    <3>1. /\ home[h] \in Process /\ home[h] # None /\ UNCHANGED <<home, phase, exit>>
          /\ exit[home[h]] # "running"
          /\ pc[h] \notin {"idle", "orphan", "done"}
          /\ pc'[h] \in {"orphan", "done"} /\ answer'[h].result = "NoReply"
      BY <2>2, ProcessAssumption DEF Die, Break, Goto, processVars, Running, TypeOK
    <3>2. exit[home[h]] \in {"fatal", "killed"}
      BY <3>1 DEF RequestInv, ProcessInv, ProcessTypeOK, Closing
    <3> QED
      BY <3>1, <3>2 DEF RequestInv
  <2>3. ASSUME NEW p \in Process, Arrive(h, p) PROVE RequestInv(h)'
    <3>1. /\ pc[h] = "idle" /\ pc'[h] = "check" /\ answer'[h] = answer[h]
          /\ home'[h] = p /\ p # None /\ UNCHANGED <<phase, exit>>
          /\ phase[p] \in {"serve", "drain"}
      BY <2>3, ProcessAssumption
         DEF Arrive, Receive, Goto, At, processVars, TypeOK, ProcessTypeOK
    <3> QED
      BY <3>1 DEF RequestInv, Startup, Closing
  <2> QED
    BY <2>1, <2>2, <2>3
<1> QED
  BY <1>2, <1>3, <1>6, <1>7

THEOREM LifecycleInvariance == LifecycleSpec => []LifecycleInv
PROOF
<1>1. TypeOK /\ LifecycleInv /\ [LifecycleNext]_lifecycleVars => LifecycleInv'
  <2>. SUFFICES ASSUME TypeOK, LifecycleInv, [LifecycleNext]_lifecycleVars
                PROVE  LifecycleInv'
    OBVIOUS
  <2>1. CASE UNCHANGED lifecycleVars
    BY <2>1 DEF lifecycleVars, processVars, vars, serviceVars, LifecycleInv, ProcessTypeOK,
       ProcessInv, RequestInv
  <2>2. CASE LifecycleNext
    BY <2>2, MainKeeps, GoroutineKeeps DEF LifecycleNext
  <2> QED
    BY <2>1, <2>2
<1> QED
  BY <1>1, LifecycleInitially, LifecycleImplementsService, TypeCorrect, PTL DEF LifecycleSpec

\* Processes and service keep their types.
THEOREM LifecycleTypeCorrect == LifecycleSpec => []LifecycleTypeOK
PROOF
<1>1. TypeOK /\ LifecycleInv => LifecycleTypeOK
  BY DEF LifecycleInv, LifecycleTypeOK
<1> QED
  BY <1>1, LifecycleInvariance, LifecycleImplementsService, TypeCorrect, PTL

\* A request is served only where the keys and the chains are guarded by both
\* indexes, whichever process built them.
THEOREM IndexesFirst == LifecycleSpec => []IndexesBeforeRequests
PROOF
<1>1. LifecycleInv => IndexesBeforeRequests
  BY DEF LifecycleInv, ProcessTypeOK, ProcessInv, RequestInv, Startup, IndexesBeforeRequests
<1> QED
  BY <1>1, LifecycleInvariance, PTL

\* main never closes a connection under a goroutine that is still running.
THEOREM ConnectionsLast == LifecycleSpec => []ConnectionsOutliveHandlers
PROOF
<1>1. LifecycleInv => ConnectionsOutliveHandlers
  <2>. SUFFICES ASSUME LifecycleInv, NEW p \in Process, NEW h \in InFlight(p)
                PROVE  open[p] = Connection
    BY DEF ConnectionsOutliveHandlers
  <2>1. h \in Handler /\ home[h] = p /\ p # None /\ pc[h] \notin {"orphan", "done"}
    BY ProcessAssumption DEF InFlight
  <2>2. phase[p] \in {"serve", "drain"}
    BY <2>1 DEF LifecycleInv, ProcessTypeOK, RequestInv
  <2> QED
    BY <2>2 DEF LifecycleInv, ProcessInv
<1> QED
  BY <1>1, LifecycleInvariance, PTL

\* Exit code 0 means that every accepted request was answered.
THEOREM CleanExit == LifecycleSpec => []CleanExitAnswersEveryone
PROOF
<1>1. LifecycleInv => CleanExitAnswersEveryone
  <2>. SUFFICES ASSUME LifecycleInv, NEW p \in Process, exit[p] = "clean",
                       NEW h \in Handler, home[h] = p
                PROVE  answer[h].result \notin {"Pending", "NoReply"}
    BY DEF CleanExitAnswersEveryone
  <2>1. p # None /\ phase[p] \in Closing
    BY ProcessAssumption DEF LifecycleInv, ProcessInv, Closing
  <2>2. pc[h] \in {"orphan", "done"}
    BY <2>1 DEF LifecycleInv, RequestInv
  <2> QED
    BY <2>2 DEF LifecycleInv, RequestInv
<1> QED
  BY <1>1, LifecycleInvariance, PTL
=============================================================================
