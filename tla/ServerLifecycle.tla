-------------------------- MODULE ServerLifecycle --------------------------
(***************************************************************************)
(* main: processes of the service that start, serve, are asked to stop and *)
(* exit, or die, while others run on the same database.  A restart or a    *)
(* rolling deployment is another process.  The goroutines a process serves *)
(* are the handlers of TransactionsService; they end with it.              *)
(***************************************************************************)
EXTENDS ServiceProperties

CONSTANT Process

ASSUME ProcessAssumption == None \notin Process

VARIABLES
  phase,      \* phase[p]: where main of p is
  open,       \* open[p]: the connections p holds
  exit,       \* exit[p]: how p ended
  indexes,    \* the indexes of the collection, in the database
  home        \* home[h]: the process that serves h, None before it arrives

processVars == <<phase, open, exit, indexes>>
lifecycleVars == <<vars, processVars, home>>

Index == {"unique_wallet_sequence", "unique_reference"}
Connection == {"mongo", "wallet"}

Startup == {"connect", "sequence index", "reference index", "wire"}
Closing == {"close wallet", "disconnect", "return"}

ProcessTypeOK ==
  /\ phase \in [Process -> Startup \cup {"serve", "drain"} \cup Closing]
  /\ open \in [Process -> SUBSET Connection]
  /\ exit \in [Process -> {"running", "clean", "fatal", "killed"}]
  /\ indexes \subseteq Index
  /\ home \in [Handler -> Process \cup {None}]

LifecycleTypeOK == TypeOK /\ ProcessTypeOK

\* Records are only ever written with both indexes in place.
LifecycleInit ==
  /\ Init
  /\ phase = [p \in Process |-> "connect"]
  /\ open = [p \in Process |-> {}]
  /\ exit = [p \in Process |-> "running"]
  /\ indexes \in SUBSET Index /\ (ledger # {} => indexes = Index)
  /\ home = [h \in Handler |-> None]

-----------------------------------------------------------------------------
Running(p) == exit[p] = "running"

At(p, label) == Running(p) /\ phase[p] = label

Enter(p, label) == phase' = [phase EXCEPT ![p] = label]

Opened(p, c) == open' = [open EXCEPT ![p] = @ \cup {c}]
Closed(p, c) == open' = [open EXCEPT ![p] = @ \ {c}]

Ends(p, how) == exit' = [exit EXCEPT ![p] = how]

\* zerolog's Fatal is os.Exit(1): no deferred call runs.
Fatal(p) == Ends(p, "fatal") /\ UNCHANGED <<phase, open>>

ConnectMongoDB(p) ==
  /\ At(p, "connect")
  /\ Opened(p, "mongo") /\ Enter(p, "sequence index")
  /\ UNCHANGED <<exit, indexes>>

CreateSequenceIndex(p) ==
  /\ At(p, "sequence index")
  /\ indexes' = indexes \cup {"unique_wallet_sequence"}
  /\ Enter(p, "reference index")
  /\ UNCHANGED <<open, exit>>

\* Mutant: the index is created under another name than its errors are told by.
CreateMisnamedIndex(p) ==
  /\ At(p, "reference index")
  /\ indexes' = indexes \cup {"reference_id_1"}
  /\ Enter(p, "wire")
  /\ UNCHANGED <<open, exit>>

CreateReferenceIndex(p) ==
  /\ At(p, "reference index")
  /\ indexes' = indexes \cup {"unique_reference"}
  /\ Enter(p, "wire")
  /\ UNCHANGED <<open, exit>>

\* Mutant: the error of an index is logged and startup goes on.
IndexErrorIgnored(p) ==
  IF phase[p] = "reference index" THEN Enter(p, "wire") /\ UNCHANGED <<open, exit>>
                                  ELSE Fatal(p)

OnStartupError(p) == Fatal(p)

StartupFails(p) ==
  /\ Running(p) /\ phase[p] \in Startup
  /\ OnStartupError(p)
  /\ UNCHANGED indexes

Listen(p) ==
  /\ At(p, "wire")
  /\ Opened(p, "wallet") /\ Enter(p, "serve")
  /\ UNCHANGED <<exit, indexes>>

-----------------------------------------------------------------------------
(* Shutdown. *)

\* The goroutines of p that have not returned.
InFlight(p) == {h \in Handler : home[h] = p /\ pc[h] \notin {"idle", "orphan", "done"}}

\* Interrupt or SIGTERM; from here on no connection is accepted, but one that
\* was accepted before may still send its request.
Signal(p) ==
  /\ At(p, "serve")
  /\ Enter(p, "drain")
  /\ UNCHANGED <<open, exit, indexes>>

\* Mutant: main does not wait for Shutdown to return.
NotAwaited(p) == TRUE

Drained(p) == InFlight(p) = {}

ShutdownReturns(p) ==
  /\ At(p, "drain") /\ Drained(p)
  /\ Enter(p, "close wallet")
  /\ UNCHANGED <<open, exit, indexes>>

\* Mutants: Shutdown has no deadline; its error is logged, and main returns.
NoDeadline(p) == FALSE
TimeoutLogged(p) == Enter(p, "close wallet") /\ UNCHANGED <<open, exit>>

\* Ten seconds have passed and somebody is still being served.
DeadlinePassed(p) == InFlight(p) # {}

OnTimeout(p) == Fatal(p)

ShutdownTimesOut(p) ==
  /\ At(p, "drain") /\ DeadlinePassed(p)
  /\ OnTimeout(p)
  /\ UNCHANGED indexes

\* The deferred calls, last one first; the tracer's has no part here.
CloseWallet(p) ==
  /\ At(p, "close wallet")
  /\ Closed(p, "wallet") /\ Enter(p, "disconnect")
  /\ UNCHANGED <<exit, indexes>>

Disconnect(p) ==
  /\ At(p, "disconnect")
  /\ Closed(p, "mongo") /\ Enter(p, "return")
  /\ UNCHANGED <<exit, indexes>>

Return(p) ==
  /\ At(p, "return")
  /\ Ends(p, "clean")
  /\ UNCHANGED <<phase, open, indexes>>

Stop(p) ==
  ShutdownReturns(p) \/ ShutdownTimesOut(p) \/ CloseWallet(p) \/ Disconnect(p) \/ Return(p)

\* SIGKILL, a panic, the machine, a signal before Notify, or ListenAndServe
\* that fails.
Kill(p) ==
  /\ Running(p)
  /\ Ends(p, "killed")
  /\ UNCHANGED <<phase, open, indexes>>

-----------------------------------------------------------------------------
(* Requests. *)

Arrive(h, p) ==
  /\ At(p, "serve") \/ At(p, "drain")
  /\ Receive(h)
  /\ home' = [home EXCEPT ![h] = p]
  /\ UNCHANGED processVars

\* A goroutine runs until its process ends, also while main closes the
\* connections; an abandoned transaction is the database's.
Work(h) ==
  /\ home[h] \in Process /\ (Running(home[h]) \/ pc[h] = "orphan")
  /\ Step(h)
  /\ UNCHANGED <<processVars, home>>

Fail(h) ==
  /\ home[h] \in Process /\ (Running(home[h]) \/ pc[h] = "orphan")
  /\ TransientError(h) \/ OrphanCommits(h) \/ (Break(h) /\ answer'[h].result = "InternalError")
  /\ UNCHANGED <<processVars, home>>

\* What a process that ended leaves of the goroutines it was serving.
Die(h) ==
  /\ home[h] \in Process /\ ~Running(home[h])
  /\ Break(h) /\ answer'[h].result = "NoReply"
  /\ UNCHANGED <<processVars, home>>

-----------------------------------------------------------------------------
Start(p) ==
  ConnectMongoDB(p) \/ CreateSequenceIndex(p) \/ CreateReferenceIndex(p)
    \/ StartupFails(p) \/ Listen(p)

Main(p) == (Start(p) \/ Signal(p) \/ Stop(p) \/ Kill(p)) /\ UNCHANGED <<vars, home>>

LifecycleNext ==
  \/ \E p \in Process : Main(p)
  \/ \E h \in Handler : Work(h) \/ Fail(h) \/ Die(h) \/ \E p \in Process : Arrive(h, p)

LifecycleSpec == LifecycleInit /\ [][LifecycleNext]_lifecycleVars

\* main goes on when it can; nothing is assumed of the handlers.
StopSpec ==
  LifecycleSpec /\ \A p \in Process : WF_lifecycleVars(Stop(p) /\ UNCHANGED <<vars, home>>)

-----------------------------------------------------------------------------
(* Properties. *)

\* No request is served before both unique indexes exist, whichever process
\* built them and whichever failed to: what the chain of balances and the
\* idempotency keys rest on is there when the first of them is used.
IndexesBeforeRequests == \A h \in Handler : home[h] # None => indexes = Index

\* As long as a goroutine can still make a call, the connections it makes it on
\* are open, also while its process shuts down.
ConnectionsOutliveHandlers ==
  \A p \in Process : Running(p) /\ InFlight(p) # {} => open[p] = Connection

\* A process that exits with code 0 has answered everybody it accepted.
CleanExitAnswersEveryone ==
  \A p \in Process : exit[p] = "clean" =>
    \A h \in Handler : home[h] = p => answer[h].result \notin {"Pending", "NoReply"}

\* A process asked to stop exits, however long its handlers sleep and retry:
\* they need not take another step.
SignalledProcessesExit == \A p \in Process : phase[p] = "drain" ~> ~Running(p)
=============================================================================
