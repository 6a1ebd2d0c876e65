---------------------------- MODULE Supervision ----------------------------
(***************************************************************************)
(* The supervisors of the Edge and the Control Plane processes: main, the  *)
(* select loops that own the long-running tasks, and the order in which    *)
(* each of their branches withdraws readiness, triggers the tasks and      *)
(* waits for them (edge runtime.rs and snapshot_runtime.rs, control-plane  *)
(* runtime.rs, and run_static_edge, run_snapshot_edge and run_server of    *)
(* the two binaries).                                                      *)
(*                                                                         *)
(* A branch of a select is a script: a sequence of steps, taken one at a   *)
(* time while every task goes on running.  A task is a leaf here; that a   *)
(* leaf told to stop does stop is what the modules of the ingresses and of *)
(* the transport show.                                                     *)
(***************************************************************************)
EXTENDS Naturals, Sequences

CONSTANT
    MaxFaults   \* tasks and binds that may fail in one behaviour

Supervisors == {"bin", "aware", "edge", "cp"}
Leaves == {"ingress", "operations", "transport", "snapshot", "routes", "reload",
           "server", "route", "enrollment", "hostname"}
Nodes == Supervisors \cup Leaves
Kinds == {"static_raw", "static_https", "snapshot_raw", "snapshot_https", "control_plane"}

VARIABLES
    kind,       \* which process this is
    config,     \* the optional tasks it is configured with
    status,     \* "absent", "bound", "running", or how the task ended
    told,       \* the tasks whose shutdown signal has been triggered
    branch,     \* the select branch each supervisor is in
    pc,         \* and the next step of its script
    draining,   \* the operations endpoint reports that the process drains
    os,         \* what the operating system's signal listener delivered
    faults

vars == <<kind, config, status, told, branch, pc, draining, os, faults>>

Raw == kind \in {"static_raw", "snapshot_raw"}
Ended(n) == status[n] \in {"ok", "forced", "failed"}

\* The runtime main awaits beside the reloaders.
Runtime ==
    CASE kind = "control_plane" -> "cp"
      [] kind \in {"static_raw", "static_https"} -> "edge"
      [] OTHER -> "aware"

Children(s) ==
    CASE s = "bin" -> {Runtime, "reload"}
      [] s = "aware" -> {"edge", "snapshot", "routes"}
      [] s = "edge" -> {"ingress", "operations", "transport"}
      [] s = "cp" -> {"server", "route", "enrollment", "hostname", "operations"}

-----------------------------------------------------------------------------
(* Steps of a script. *)

Drain == [op |-> "drain"]
Trigger(ns) == [op |-> "trigger", of |-> ns]
Await(n) == [op |-> "await", of |-> n]
\* An await whose error returns from the branch at once (Rust's ?).
AwaitOk(n) == [op |-> "await_ok", of |-> n]

\* manager.shutdown, shutdown_operations: trigger one task and wait for it.
Shut(n) == <<Trigger({n}), Await(n)>>

\* EdgeRuntime::run_until_shutdown, raw mode.
RawSignal == <<Drain>> \o Shut("ingress") \o Shut("operations") \o Shut("transport")
RawTransportEnded == <<Drain>> \o Shut("ingress") \o Shut("operations")
RawOperationsEnded == Shut("ingress") \o Shut("transport")
RawRollback == Shut("ingress")

\* EdgeRuntime::run_https_until_shutdown.
HttpsSignal == <<Drain>> \o Shut("ingress") \o Shut("operations") \o Shut("transport")
HttpsTransportEnded == <<Drain>> \o Shut("ingress") \o Shut("operations")
\* A task that fails takes the process down without first withdrawing readiness.
MutHttpsIngressEnded == Shut("transport") \o <<Drain>> \o Shut("operations")
HttpsIngressEnded == <<Drain>> \o Shut("operations") \o Shut("transport")
HttpsOperationsEnded == Shut("ingress") \o Shut("transport")

EdgeScript(b) ==
    CASE b = "signal" -> IF Raw THEN RawSignal ELSE HttpsSignal
      [] b = "transport" -> IF Raw THEN RawTransportEnded ELSE HttpsTransportEnded
      [] b = "operations" -> IF Raw THEN RawOperationsEnded ELSE HttpsOperationsEnded
      [] b = "ingress" -> HttpsIngressEnded
      [] b = "rollback" -> RawRollback

\* SnapshotAwareEdgeRuntime::run_until_shutdown: one trigger reaches all three tasks.
AwareAll == Trigger({"edge", "snapshot", "routes"})
AwareSignal == <<AwareAll, AwaitOk("edge"), AwaitOk("snapshot"), AwaitOk("routes")>>
AwareEdgeEnded == <<AwareAll, Await("snapshot"), Await("routes")>>
AwareSnapshotEnded == <<AwareAll, Await("edge")>>
AwareRoutesEnded == <<AwareAll, Await("edge"), Await("snapshot")>>

AwareScript(b) ==
    CASE b = "signal" -> AwareSignal
      [] b = "edge" -> AwareEdgeEnded
      [] b = "snapshot" -> AwareSnapshotEnded
      [] b = "routes" -> AwareRoutesEnded

\* ControlPlaneRuntime::run_until_shutdown.
CpSignal ==
    <<Drain, Trigger({"server", "route", "enrollment", "hostname"}), Await("server"),
      Await("route"), Await("enrollment"), Await("hostname")>> \o Shut("operations")
CpServerEnded ==
    <<Drain, Trigger({"enrollment", "route", "hostname"}), Await("route"),
      Await("enrollment"), Await("hostname")>> \o Shut("operations")
CpRouteEnded ==
    <<Drain, Trigger({"server", "enrollment", "hostname"}), Await("server"),
      Await("enrollment"), Await("hostname")>> \o Shut("operations")
CpEnrollmentEnded ==
    <<Drain, Trigger({"server", "route", "hostname"}), Await("route"),
      Await("server"), Await("hostname")>> \o Shut("operations")
CpHostnameEnded ==
    <<Drain, Trigger({"server", "route", "enrollment"}), Await("route"),
      Await("enrollment"), Await("server")>> \o Shut("operations")
\* The enrollment server is never triggered, so waiting for it never ends.
MutCpOperationsEnded ==
    <<Drain, Trigger({"server", "route", "hostname"}), Await("route"),
      Await("server"), Await("enrollment"), Await("hostname")>>
CpOperationsEnded ==
    <<Drain, Trigger({"server", "route", "hostname"}), Await("route"), Trigger({"enrollment"}),
      Await("server"), Await("enrollment"), Await("hostname")>>
CpRefreshFailed ==
    <<Drain, Trigger({"server", "enrollment", "route", "hostname"}), Await("server"),
      Await("enrollment"), Await("route"), Await("hostname")>> \o Shut("operations")
CpRouteRefreshFailed ==
    <<Drain, Trigger({"server", "route", "enrollment", "hostname"}), Await("server"),
      Await("route"), Await("enrollment"), Await("hostname")>> \o Shut("operations")

CpScript(b) ==
    CASE b = "signal" -> CpSignal
      [] b = "server" -> CpServerEnded
      [] b = "route" -> CpRouteEnded
      [] b = "enrollment" -> CpEnrollmentEnded
      [] b = "hostname" -> CpHostnameEnded
      [] b = "operations" -> CpOperationsEnded
      [] b = "refresh" -> CpRefreshFailed
      [] b = "route_refresh" -> CpRouteRefreshFailed

\* main awaits the runtime and the reloaders in one select; one trigger stops both.
BinAll == Trigger({Runtime, "reload"})
RunStaticEdge(b) ==
    CASE b = "runtime" -> <<BinAll, Await("reload")>>
      [] b = "reload" -> <<BinAll, Await("edge")>>
      [] b = "signal" -> <<BinAll, Await("edge"), Await("reload")>>
      [] b = "listener" -> <<BinAll, Await("edge")>>
RunSnapshotEdge(b) ==
    CASE b = "runtime" -> <<BinAll, Await("reload")>>
      [] b = "reload" -> <<BinAll, Await("aware")>>
      [] b = "signal" -> <<BinAll, Await("aware"), Await("reload")>>
      [] b = "listener" -> <<BinAll, Await("aware")>>
RunServer(b) ==
    CASE b = "runtime" -> <<BinAll, Await("reload")>>
      [] b = "reload" -> <<BinAll, Await("cp")>>
      [] b = "signal" -> <<BinAll, AwaitOk("cp"), Await("reload")>>
      [] b = "listener" -> <<>>

BinScript(b) ==
    CASE Runtime = "edge" -> RunStaticEdge(b)
      [] Runtime = "aware" -> RunSnapshotEdge(b)
      [] Runtime = "cp" -> RunServer(b)

Script(s) ==
    CASE s = "bin" -> BinScript(branch[s])
      [] s = "aware" -> AwareScript(branch[s])
      [] s = "edge" -> EdgeScript(branch[s])
      [] s = "cp" -> CpScript(branch[s])

\* The branches of each select, in the order a biased select polls them.
Branches(s) ==
    CASE s = "bin" -> <<"runtime", "reload", "signal", "listener">>
      [] s = "aware" -> <<"signal", "edge", "snapshot", "routes">>
      [] s = "edge" -> IF Raw THEN <<"signal", "transport", "operations">>
                       ELSE <<"signal", "transport", "ingress", "operations">>
      [] s = "cp" -> <<"signal", "server", "route", "enrollment", "hostname", "operations",
                       "refresh", "route_refresh">>

Ready(s, b) ==
    CASE b = "signal" -> IF s = "bin" THEN os = "signal" ELSE s \in told
      [] b = "listener" -> os = "error"
      [] b = "runtime" -> Ended(Runtime)
      [] b = "refresh" -> faults < MaxFaults
      [] b = "route_refresh" -> faults < MaxFaults /\ "route" \in config
      [] OTHER -> Ended(b)

Polled(s, i) == s = "bin" \/ \A j \in 1 .. i - 1 : ~Ready(s, Branches(s)[j])

Worst(ns) ==
    CASE \E n \in ns : status[n] = "failed" -> "failed"
      [] OTHER -> IF \E n \in ns : status[n] = "forced" THEN "forced" ELSE "ok"

\* edge_exit_code and snapshot_edge_exit_code fail a forced drain, run_server does not.
ExitCode(b) ==
    CASE b = "listener" -> "failed"
      [] b = "reload" -> status["reload"]
      [] b \in {"runtime", "signal"} ->
            IF status[Runtime] = "failed" \/ (Runtime # "cp" /\ status[Runtime] = "forced")
            THEN "failed" ELSE "ok"

EdgeOutcome(b) == IF b = "signal" THEN Worst(Children("edge")) ELSE "failed"
AwareOutcome(b) ==
    CASE b = "signal" -> Worst(Children("aware"))
      [] b = "edge" -> status["edge"]
      [] OTHER -> "failed"
CpOutcome(b) == IF b = "signal" /\ Worst(Children("cp")) # "failed" THEN "ok" ELSE "failed"

Result(s) ==
    CASE s = "bin" -> ExitCode(branch[s])
      [] s = "aware" -> AwareOutcome(branch[s])
      [] s = "edge" -> EdgeOutcome(branch[s])
      [] s = "cp" -> CpOutcome(branch[s])

-----------------------------------------------------------------------------
Options(k) ==
    CASE k = "control_plane" -> {"route", "enrollment", "hostname", "operations"}
      [] k = "snapshot_https" -> {"operations", "routes"}
      [] OTHER -> {"operations"}

Init ==
    /\ kind \in Kinds
    /\ config \in SUBSET Options(kind)
    /\ status = [n \in Nodes |-> IF n = "bin" THEN "running" ELSE "absent"]
    /\ told = {}
    /\ branch = [s \in Supervisors |-> IF s = "bin" THEN "boot" ELSE "select"]
    /\ pc = [s \in Supervisors |-> 1]
    /\ draining = FALSE
    /\ os = "none"
    /\ faults = 0

Alive == status["bin"] = "running"
Fault == faults < MaxFaults /\ faults' = faults + 1

\* spawn_operations: the endpoint is a task when it is configured.
SpawnOperations == {"operations"} \cap config

\* Spawning a supervisor spawns the tasks its function spawns before its select.
Spawned(n) ==
    CASE n = "aware" -> {"aware", "edge", "snapshot"} \cup ({"routes"} \cap config)
      [] n = "cp" -> {"cp", "server"} \cup ({"route", "enrollment", "hostname"} \cap config)
                              \cup SpawnOperations
      [] OTHER -> {n}

\* main: bind the runtime, then run it beside the reloaders.
Boot ==
    /\ Alive /\ branch["bin"] = "boot"
    /\ \/ /\ Fault
          /\ status' = [status EXCEPT !["bin"] = "failed"]
          /\ UNCHANGED branch
       \/ /\ status' = [n \in Nodes |-> IF n \in Spawned(Runtime) \cup {"reload"}
                                        THEN "running" ELSE status[n]]
          /\ branch' = [branch EXCEPT !["bin"] = "select", !["edge"] = "starting"]
          /\ UNCHANGED faults
    /\ UNCHANGED <<kind, config, told, pc, draining, os>>

\* The listener of the raw route is accepting as soon as it is bound; the HTTPS one is not.
EdgeBindIngress ==
    /\ Alive /\ status["edge"] = "running" /\ branch["edge"] = "starting"
    /\ status["ingress"] = "absent"
    /\ \/ Fault /\ status' = [status EXCEPT !["edge"] = "failed"]
       \/ /\ status' = [status EXCEPT !["ingress"] = IF Raw THEN "running" ELSE "bound"]
          /\ UNCHANGED faults
    /\ UNCHANGED <<kind, config, told, branch, pc, draining, os>>

EdgeBindOperations ==
    /\ Alive /\ status["edge"] = "running" /\ branch["edge"] = "starting"
    /\ status["ingress"] # "absent"
    /\ "operations" \in config /\ status["operations"] = "absent"
    /\ \/ /\ status' = [status EXCEPT !["operations"] = "bound"]
          /\ UNCHANGED <<branch, faults>>
       \/ /\ Fault /\ Raw
          /\ branch' = [branch EXCEPT !["edge"] = "rollback"]
          /\ UNCHANGED status
       \/ /\ Fault /\ ~Raw
          /\ status' = [status EXCEPT !["edge"] = "failed", !["ingress"] = "absent"]
          /\ UNCHANGED branch
    /\ UNCHANGED <<kind, config, told, pc, draining, os>>

EdgeSpawn ==
    /\ Alive /\ status["edge"] = "running" /\ branch["edge"] = "starting"
    /\ status["ingress"] # "absent"
    /\ "operations" \in config => status["operations"] = "bound"
    /\ status' = [n \in Nodes |-> IF n \in {"ingress", "transport"} \cup SpawnOperations
                                  THEN "running" ELSE status[n]]
    /\ branch' = [branch EXCEPT !["edge"] = "select"]
    /\ UNCHANGED <<kind, config, told, pc, draining, os, faults>>

\* A select takes a branch that is ready.
Observe(s) ==
    /\ Alive /\ status[s] = "running" /\ branch[s] = "select"
    /\ \E i \in 1 .. Len(Branches(s)) :
          LET b == Branches(s)[i] IN
          /\ Ready(s, b) /\ Polled(s, i)
          /\ branch' = [branch EXCEPT ![s] = b]
          /\ IF b \in {"refresh", "route_refresh"} THEN Fault ELSE UNCHANGED faults
    /\ UNCHANGED <<kind, config, status, told, pc, draining, os>>

InScript(s) == Alive /\ status[s] = "running" /\ branch[s] \notin {"boot", "starting", "select"}

Advance(s) == pc' = [pc EXCEPT ![s] = pc[s] + 1]
Waited(n) == Ended(n) \/ status[n] = "absent"

\* One step of the branch's script.
Step(s) ==
    /\ InScript(s) /\ pc[s] <= Len(Script(s))
    /\ LET step == Script(s)[pc[s]] IN
       \/ /\ step.op = "drain" /\ draining' = TRUE
          /\ Advance(s) /\ UNCHANGED <<status, told>>
       \/ /\ step.op = "trigger" /\ told' = told \cup step.of
          /\ Advance(s) /\ UNCHANGED <<status, draining>>
       \/ /\ step.op \in {"await", "await_ok"} /\ Waited(step.of)
          /\ step.op = "await_ok" => status[step.of] # "failed"
          /\ Advance(s) /\ UNCHANGED <<status, told, draining>>
       \/ /\ step.op = "await_ok" /\ status[step.of] = "failed"
          /\ status' = [status EXCEPT ![s] = "failed"]
          /\ UNCHANGED <<told, pc, draining>>
    /\ UNCHANGED <<kind, config, branch, os, faults>>

Return(s) ==
    /\ InScript(s) /\ pc[s] > Len(Script(s))
    /\ status' = [status EXCEPT ![s] = Result(s)]
    /\ UNCHANGED <<kind, config, told, branch, pc, draining, os, faults>>

\* External to this module: a task that was told to stop stops, perhaps forced, perhaps failing.
TaskStops(n) ==
    /\ Alive /\ n # "reload" /\ status[n] = "running" /\ n \in told
    /\ \/ status' = [status EXCEPT ![n] = "ok"] /\ UNCHANGED faults
       \/ /\ n \in Children("edge")
          /\ status' = [status EXCEPT ![n] = "forced"] /\ UNCHANGED faults
       \/ Fault /\ status' = [status EXCEPT ![n] = "failed"]
    /\ UNCHANGED <<kind, config, told, branch, pc, draining, os>>

\* A task ends by itself.  The raw route manager is not a task the select polls.
TaskFails(n) ==
    /\ Alive /\ n # "reload" /\ status[n] = "running" /\ n \notin told
    /\ ~(n = "ingress" /\ Raw)
    /\ Fault
    /\ \E r \in {"ok", "failed"} : status' = [status EXCEPT ![n] = r]
    /\ UNCHANGED <<kind, config, told, branch, pc, draining, os>>

\* LoadedTlsReloaders::run_until_shutdown and run_tls_reloaders: the signal aborts every
\* reloader; without it the first reloader that fails ends them all.
ReloadersStop ==
    /\ Alive /\ status["reload"] = "running" /\ "reload" \in told
    /\ status' = [status EXCEPT !["reload"] = "ok"]
    /\ UNCHANGED <<kind, config, told, branch, pc, draining, os, faults>>

ReloaderFails ==
    /\ Alive /\ status["reload"] = "running" /\ "reload" \notin told
    /\ Fault
    /\ status' = [status EXCEPT !["reload"] = "failed"]
    /\ UNCHANGED <<kind, config, told, branch, pc, draining, os>>

OsSignal ==
    /\ Alive /\ os = "none"
    /\ \/ os' = "signal" /\ UNCHANGED faults
       \/ os' = "error" /\ Fault
    /\ UNCHANGED <<kind, config, status, told, branch, pc, draining>>

Next ==
    \/ Boot \/ EdgeBindIngress \/ EdgeBindOperations \/ EdgeSpawn \/ OsSignal
    \/ ReloadersStop \/ ReloaderFails
    \/ \E s \in Supervisors : Observe(s) \/ Step(s) \/ Return(s)
    \/ \E n \in Leaves : TaskStops(n) \/ TaskFails(n)

Fairness ==
    /\ WF_vars(Boot) /\ WF_vars(EdgeBindIngress) /\ WF_vars(EdgeBindOperations) /\ WF_vars(EdgeSpawn)
    /\ \A s \in Supervisors : WF_vars(Observe(s) \/ Step(s) \/ Return(s))
    /\ \A n \in Leaves : WF_vars(TaskStops(n))
    /\ WF_vars(ReloadersStop)

Spec == Init /\ [][Next]_vars /\ Fairness

-----------------------------------------------------------------------------
TypeOK ==
    /\ kind \in Kinds /\ config \subseteq Options(kind)
    /\ status \in [Nodes -> {"absent", "bound", "running", "ok", "forced", "failed"}]
    /\ told \subseteq Nodes
    /\ draining \in BOOLEAN /\ os \in {"none", "signal", "error"} /\ faults \in 0 .. MaxFaults

Serving == {"ingress", "transport", "server", "route", "enrollment", "hostname"}

\* Readiness is withdrawn before any component that serves traffic is told to stop, and
\* the components stop in the order that lets work in flight finish: an ingress before the
\* Agent sessions it relays over, every Control Plane server before the operations
\* endpoint that reports on them (edge runtime.rs shutdown_components and the branches of
\* both selects, control-plane runtime.rs run_until_shutdown).
OrderlyStop ==
    /\ status["operations"] = "running" /\ told \cap Serving # {} => draining
    /\ "transport" \in told => ~\E n \in {"ingress", "operations"} : status[n] = "running"
    /\ kind = "control_plane" /\ "operations" \in told
          => ~\E n \in {"server", "route", "enrollment", "hostname"} : status[n] = "running"

\* A process exits with success only after a shutdown signal, with every task it started
\* ended and none of the serving ones failed, and a supervisor that returns early never
\* leaves behind a task nobody has told to stop (exit codes of both binaries).
SuccessIsClean ==
    /\ status["bin"] = "ok" =>
          /\ os = "signal"
          /\ \A n \in Nodes : status[n] \notin {"bound", "running"}
          /\ \A n \in Nodes \ {"reload"} : status[n] # "failed"
    /\ \A s \in Supervisors \ {"bin"} : Ended(s) =>
          \A c \in Children(s) : status[c] = "running" => c \in told

\* A signal, or the failure of any task the selects poll, ends the process: no branch of
\* the four supervisors waits for a task that nothing has told to stop.
ProcessExits ==
    (os # "none" \/ \E n \in Leaves : Ended(n)) ~> ~Alive
=============================================================================
