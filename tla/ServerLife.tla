----------------------------- MODULE ServerLife -----------------------------
(***************************************************************************)
(* The life of the API process: startServer of src/server.ts, from when it *)
(* listens to when its database pool has ended.  Requests and the passes   *)
(* of the timers work on the pool; SIGINT and SIGTERM shut the server down *)
(* while they are at it.                                                   *)
(*                                                                         *)
(* Node and pg are external: server.close() calls back when no connection  *)
(* is left; a handler whose connection was cut runs on; pool.end() refuses *)
(* new clients at once and is over when the last one is back; a signal     *)
(* nobody listens for ends the process.                                    *)
(***************************************************************************)
EXTENDS Naturals, FiniteSets

CONSTANTS
    Requests,     \* connections, with a request at a time on each
    Reconcilers,  \* passes of reconcilePending
    Sweepers      \* passes of the hold and of the expiry sweep

ASSUME WorkersAssumption ==
    /\ Requests \cap Reconcilers = {} /\ Requests \cap Sweepers = {}
    /\ Reconcilers \cap Sweepers = {}

Passes == Reconcilers \cup Sweepers
Workers == Requests \cup Passes
Signals == {"SIGINT", "SIGTERM"}

VARIABLES
    phase,        \* of shutdown()
    connection,
    worker,       \* what a handler or pass is at
    reconciling,
    ticking,      \* the intervals that are set
    force,        \* forceTimer
    once          \* the signals process.once still listens for

serverVars == <<phase, connection, worker, reconciling, ticking, force, once>>

ServerTypeOK ==
    /\ phase \in {"up", "closing", "ending", "ended", "killed"}
    /\ connection \in [Requests -> {"none", "busy", "idle", "cut"}]
    /\ worker \in [Workers -> {"none", "working", "querying", "refused"}]
    /\ reconciling \in BOOLEAN /\ ticking \in SUBSET {"reconcile", "sweep"}
    /\ force \in {"off", "set", "fired"} /\ once \in SUBSET Signals
    /\ phase \in {"ended", "killed"} => \A w \in Workers : worker[w] # "querying"

\* The sweeps begin at once, the reconciler with its first tick.
ServerInit ==
    /\ phase = "up" /\ connection = [r \in Requests |-> "none"]
    /\ worker = [w \in Workers |-> IF w \in Sweepers THEN "working" ELSE "none"]
    /\ reconciling = FALSE /\ ticking = {"reconcile", "sweep"} /\ force = "off" /\ once = Signals

Alive == phase # "killed"
PoolOpen == phase \in {"up", "closing"}
Turns(w, s) == worker' = [worker EXCEPT ![w] = s]

(***************************************************************************)
(* Requests, and what any worker does with the pool.                       *)
(***************************************************************************)

\* On a new connection while the server listens, or on one kept alive.
Receive(r) ==
    /\ connection[r] = "idle" \/ (connection[r] = "none" /\ phase = "up")
    /\ Alive /\ worker[r] = "none"
    /\ connection' = [connection EXCEPT ![r] = "busy"] /\ Turns(r, "working")
    /\ UNCHANGED <<phase, reconciling, ticking, force, once>>

Respond(r) ==
    /\ Alive /\ worker[r] = "working" /\ Turns(r, "none")
    /\ connection' = [connection EXCEPT ![r] = IF @ = "busy" THEN "idle" ELSE @]
    /\ UNCHANGED <<phase, reconciling, ticking, force, once>>

\* Either side closes a connection that is not in use.
CloseIdle(r) ==
    /\ connection[r] = "idle" /\ connection' = [connection EXCEPT ![r] = "none"]
    /\ UNCHANGED <<phase, worker, reconciling, ticking, force, once>>

\* A query or transaction takes a client for as long as it lasts; an ending
\* pool gives none, which the handler or pass ends with.
Query(w) ==
    /\ Alive /\ worker[w] = "working"
    /\ Turns(w, IF PoolOpen THEN "querying" ELSE "refused")
    /\ UNCHANGED <<phase, connection, reconciling, ticking, force, once>>

QueryDone(w) ==
    /\ worker[w] = "querying" /\ Turns(w, "working")
    /\ UNCHANGED <<phase, connection, reconciling, ticking, force, once>>

(***************************************************************************)
(* The timers.                                                             *)
(***************************************************************************)

\* Mutant: the flag is looked at and not set.
ReconcileUnmarked(w) ==
    /\ Alive /\ "reconcile" \in ticking /\ ~reconciling /\ worker[w] = "none"
    /\ Turns(w, "working")
    /\ UNCHANGED <<phase, connection, reconciling, ticking, force, once>>

\* A tick while a pass is under way does nothing.
Reconcile(w) ==
    /\ Alive /\ "reconcile" \in ticking /\ ~reconciling /\ worker[w] = "none"
    /\ reconciling' = TRUE /\ Turns(w, "working")
    /\ UNCHANGED <<phase, connection, ticking, force, once>>

\* Mutant: only a pass that succeeds takes the flag down.
ReconciledThen(w) ==
    /\ Alive /\ worker[w] \in {"working", "refused"} /\ Turns(w, "none")
    /\ reconciling' \in {reconciling, FALSE}
    /\ UNCHANGED <<phase, connection, ticking, force, once>>

\* The pass is over or has thrown.
Reconciled(w) ==
    /\ Alive /\ worker[w] \in {"working", "refused"} /\ Turns(w, "none")
    /\ reconciling' = FALSE
    /\ UNCHANGED <<phase, connection, ticking, force, once>>

\* Sweeps of one kind may overlap.
Sweep(w) ==
    /\ Alive /\ "sweep" \in ticking /\ worker[w] = "none" /\ Turns(w, "working")
    /\ UNCHANGED <<phase, connection, reconciling, ticking, force, once>>

Swept(w) ==
    /\ Alive /\ worker[w] \in {"working", "refused"} /\ Turns(w, "none")
    /\ UNCHANGED <<phase, connection, reconciling, ticking, force, once>>

(***************************************************************************)
(* Shutdown.                                                               *)
(***************************************************************************)

\* The first signal begins it; the other one finds it begun.  The same one
\* again has no listener any more, and the process ends on the spot.
Signal(s) ==
    /\ Alive /\ phase # "ended"
    /\ once' = once \ {s}
    /\ IF s \notin once
       THEN /\ phase' = "killed" /\ worker' = [w \in Workers |-> "none"]
            /\ connection' = [r \in Requests |-> "none"] /\ UNCHANGED <<ticking, force>>
       ELSE IF phase = "up"
       THEN /\ phase' = "closing" /\ force' = "set" /\ ticking' = ticking \ {"reconcile"}
            /\ connection' = [r \in Requests |-> IF connection[r] = "idle" THEN "none" ELSE connection[r]]
            /\ UNCHANGED worker
       ELSE UNCHANGED <<phase, connection, worker, ticking, force>>
    /\ UNCHANGED reconciling

\* Mutant: the sweeps' intervals are left set.
FinishTicking == phase' = "ending" /\ UNCHANGED ticking

\* Mutant: pool.end is not awaited.
FinishUnawaited == phase' = "ended" /\ ticking' = {}

\* finish(), and with no pause the end of the sweeps and of the pool.
Finish == phase' = "ending" /\ ticking' = {}

\* Mutant: nobody waits for the connections.
ClosedAtOnce ==
    /\ phase = "closing"
    /\ Finish /\ force' = "off" /\ UNCHANGED <<connection, worker, reconciling, once>>

\* server.close calls back.
Closed ==
    /\ phase = "closing" /\ \A r \in Requests : connection[r] \in {"none", "cut"}
    /\ Finish /\ force' = "off" /\ UNCHANGED <<connection, worker, reconciling, once>>

\* Mutant: the timer waits for the handlers too.
CutConnectionsIdle ==
    /\ phase = "closing" /\ force = "set" /\ \A r \in Requests : worker[r] = "none"
    /\ connection' = [r \in Requests |-> IF connection[r] = "busy" THEN "cut" ELSE "none"]
    /\ Finish /\ force' = "fired" /\ UNCHANGED <<worker, reconciling, once>>

\* After ten seconds every connection is closed.
CutConnections ==
    /\ phase = "closing" /\ force = "set"
    /\ connection' = [r \in Requests |-> IF connection[r] = "busy" THEN "cut" ELSE "none"]
    /\ Finish /\ force' = "fired" /\ UNCHANGED <<worker, reconciling, once>>

PoolEnded ==
    /\ phase = "ending" /\ \A w \in Workers : worker[w] # "querying"
    /\ phase' = "ended"
    /\ UNCHANGED <<connection, worker, reconciling, ticking, force, once>>

PassStep(w) == Query(w) \/ QueryDone(w) \/ (w \in Reconcilers /\ Reconciled(w))
                        \/ (w \in Sweepers /\ Swept(w))

ServerNext ==
    \/ \E r \in Requests : Receive(r) \/ Respond(r) \/ CloseIdle(r) \/ Query(r) \/ QueryDone(r)
    \/ \E w \in Passes : PassStep(w) \/ (w \in Reconcilers /\ Reconcile(w)) \/ (w \in Sweepers /\ Sweep(w))
    \/ \E s \in Signals : Signal(s)
    \/ Closed \/ CutConnections \/ PoolEnded

ServerSpec == ServerInit /\ [][ServerNext]_serverVars

\* Queries end, a pass ends (its list is limited and its calls time out), the
\* ten seconds pass, and what is called back is called back.  Of requests
\* nothing is assumed: a handler may wait for the model for ever.
ServerFairness ==
    /\ \A w \in Workers : WF_serverVars(QueryDone(w))
    /\ \A w \in Reconcilers : SF_serverVars(Reconciled(w))
    /\ WF_serverVars(Closed) /\ WF_serverVars(CutConnections) /\ WF_serverVars(PoolEnded)

FairServerSpec == ServerSpec /\ ServerFairness

(***************************************************************************)
(* Properties.                                                             *)
(***************************************************************************)

\* A request that still has its connection, so that somebody waits for the
\* answer, is never refused by a pool that shutdown has ended.
AnsweredWhileConnected ==
    \A r \in Requests : connection[r] = "busy" => worker[r] # "refused" /\ PoolOpen

\* Two passes over the pending payments never overlap, however long one
\* takes and whichever of its steps fails.
OneReconciler ==
    Cardinality({w \in Reconcilers : worker[w] # "none"}) <= (IF reconciling THEN 1 ELSE 0)

\* Once shutdown is past the connections no pass of any timer begins; of the
\* reconciler none since the signal.
NoPassWhenEnding ==
    [][\A w \in Passes : worker[w] = "none" /\ worker'[w] # "none" =>
         phase = "up" \/ (phase = "closing" /\ w \in Sweepers)]_serverVars

\* A signal ends the process's work, though a handler may never return.
ShutdownEnds == phase = "closing" ~> phase \in {"ended", "killed"}

\* The reconciler comes back after every pass, one that threw included.
ReconcilerComesBack == reconciling ~> ~reconciling \/ phase = "killed"

\* However the signal, the timers and the requests meet, nobody who waits is
\* refused, passes take turns and none begins behind the shutdown (server.ts).
ShutdownIsSafe ==
    [](ServerTypeOK /\ AnsweredWhileConnected /\ OneReconciler) /\ NoPassWhenEnding

\* Whatever goes wrong in them, the reconciler comes back and the shutdown ends.
ServerGoesOn == ReconcilerComesBack /\ ShutdownEnds
=============================================================================
