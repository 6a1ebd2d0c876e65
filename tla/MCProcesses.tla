---------------------------- MODULE MCProcesses -----------------------------
(***************************************************************************)
(* The parts of the Edge and Control Plane processes around their servers, *)
(* for TLC.  A behaviour explores one of four parts that share no state:   *)
(* the supervision of a process's tasks, an operations endpoint, the log,  *)
(* or the flags an Edge is started with.  The others keep an initial       *)
(* state.                                                                  *)
(***************************************************************************)
EXTENDS Supervision

CONSTANTS Conns, Limit, Tunnels, Threads, MaxEvents, MaxEdits

VARIABLES part
VARIABLES role, loop, error, asked, conn, looked, answer, refused, withdrawn, up, active,
          accepted, completed, rejected, capacity_rejections, task_count, aborted
VARIABLES env, log, capacity, emitter, emitted, queue, accepting, worker, handled, guard, owed,
          accepted_events, dropped_events
VARIABLES line, edits, step, auth, code

Ops == INSTANCE OperationsServer WITH told <- asked, draining <- withdrawn
Log == INSTANCE ProcessLog
Flags == INSTANCE EdgeConfig

opsVars == <<role, loop, error, asked, conn, looked, answer, refused, withdrawn, up, active,
             accepted, completed, rejected, capacity_rejections, task_count, aborted>>
logVars == <<env, log, capacity, emitter, emitted, queue, accepting, worker, handled, guard, owed,
             accepted_events, dropped_events>>
flagVars == <<line, edits, step, auth, code>>

MCInit ==
  /\ part \in {"supervision", "operations", "log", "flags"}
  /\ IF part = "supervision" THEN Init ELSE Init /\ kind = "static_raw" /\ config = {}
  /\ IF part = "operations" THEN Ops!Init ELSE Ops!Init /\ role = "agent" /\ up = {}
  /\ IF part = "log" THEN Log!Init
     ELSE Log!Init /\ env = CHOOSE e \in Log!Environments : TRUE
  /\ IF part = "flags" THEN Flags!EdgeConfigInit
     ELSE Flags!EdgeConfigInit /\ line = CHOOSE l \in Flags!Deployments : TRUE

MCNext ==
  \/ part = "supervision" /\ Next /\ UNCHANGED <<part, opsVars, logVars, flagVars>>
  \/ part = "operations" /\ Ops!Next /\ UNCHANGED <<part, vars, logVars, flagVars>>
  \/ part = "log" /\ Log!Next /\ UNCHANGED <<part, vars, opsVars, flagVars>>
  \/ part = "flags" /\ Flags!EdgeConfigNext /\ UNCHANGED <<part, vars, opsVars, logVars>>

(* The fairness of Supervision, for the behaviours that explore it; the    *)
(* fair steps of an endpoint and of the log wait for a shutdown.           *)
Supervising == part = "supervision"
MCFairness ==
  /\ WF_vars(Supervising /\ Boot)
  /\ WF_vars(Supervising /\ EdgeBindIngress)
  /\ WF_vars(Supervising /\ EdgeBindOperations)
  /\ WF_vars(Supervising /\ EdgeSpawn)
  /\ \A s \in Supervisors : WF_vars(Supervising /\ (Observe(s) \/ Step(s) \/ Return(s)))
  /\ \A n \in Leaves : WF_vars(Supervising /\ TaskStops(n))
  /\ WF_vars(Supervising /\ ReloadersStop)
  /\ Ops!Fairness /\ Log!Fairness

MCSpec == MCInit /\ [][MCNext]_<<part, vars, opsVars, logVars, flagVars>> /\ MCFairness

-----------------------------------------------------------------------------
(* A process stops its tasks in order with readiness withdrawn first, and  *)
(* exits 0 only when it was asked to and every task ended well             *)
(* (runtime.rs and snapshot_runtime.rs, the binaries' exit codes).         *)
StopSound == OrderlyStop /\ SuccessIsClean

(* A shutdown ends: the process exits after a signal or the failure of any *)
(* task, its operations endpoint returns although connections hang, and    *)
(* the log's guard returns although stderr is blocked.                     *)
ProcessEnds == ProcessExits /\ Ops!OperationsReturn /\ Log!LogShutdownReturns

(* The operations endpoint keeps its limit, its counters add up through    *)
(* refusals, failures and an aborted drain, and a readiness request that   *)
(* arrives after readiness was withdrawn is not answered "ready"           *)
(* (operations.rs of each process, run_until_shutdown, ingress_ready).     *)
OperationsSound == Ops!OperationsAccount /\ Ops!ReadyHonest

(* A log shutdown that reports a complete drain has lost nothing           *)
(* (process_logging.rs, ProcessLoggingGuard::shutdown).                    *)
DrainKeepsEvents == Log!DrainKeepsEvents

(* Public listeners of a serving Edge have the policies that must be       *)
(* behind them, and the options it was given belong to parts that it runs, *)
(* but for the three flags OptionsServe names (tunnelproxy-edge.rs,        *)
(* parse_args and load_transport_configuration).                           *)
EdgeFlagsSound == Flags!ExposureSafe /\ Flags!OptionsServe
=============================================================================
