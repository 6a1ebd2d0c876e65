---------------------------- MODULE AgentProcess ----------------------------
(***************************************************************************)
(* The runnable Agent process: its startup, the reconnecting runtime of    *)
(* each tunnel with its status word, the public reachability tasks, the    *)
(* multi-tunnel supervisor, and the select! in which main waits for the    *)
(* first component to end before it awaits the others one by one.          *)
(*                                                                         *)
(* A Rust future moves only while somebody polls it.  In the select! main  *)
(* polls its branches; afterwards it polls only the future it is awaiting. *)
(* What multi-tunnel mode spawns (one task per tunnel, one per readiness   *)
(* check) moves by itself.  Polled and TunnelPolled say which is which.    *)
(***************************************************************************)
EXTENDS Naturals, Sequences

CONSTANTS
  Tunnels,           \* the tunnels of a config-v2 profile
  Configs,           \* the process configurations: multi, probe, tunnels
  MaxAttempts,       \* reconnect.max_attempts, 0 when there is no limit
  FailureThreshold   \* monitor failures in a row that make a tunnel unhealthy

Probes == {"raw", "off", "once", "monitored"}

ASSUME ConfigsAssumption ==
  /\ Configs \subseteq [multi: BOOLEAN, probe: Probes, tunnels: SUBSET Tunnels]
  /\ \A c \in Configs : IF c.multi THEN c.probe # "raw" /\ c.tunnels # {}
                                   ELSE \E t \in Tunnels : c.tunnels = {t}
ASSUME LimitsAssumption == MaxAttempts \in Nat /\ FailureThreshold \in Nat \ {0}

VARIABLES
  cfg,       \* what this process was started as
  main,      \* where main stands
  step,      \* the startup step it is at
  alloc,     \* hostnames made durable at the Control Plane
  code,      \* the exit code
  branch,    \* the select! branch that ended the run
  awaiting,  \* the futures main still awaits, in order
  osOk,      \* the OS asked for the shutdown
  signal, opsSignal,  \* the two shutdown channels
  comp,      \* the futures of main
  state, store,       \* a tunnel's connection state; the one being stored
  reach, streak,      \* its reachability state; monitor failures in a row
  run, fails,         \* its runtime loop; consecutive connection failures
  rd                  \* its readiness task

procVars == <<main, step, alloc, code, branch, awaiting, osOk, signal, opsSignal>>
tunVars == <<state, store, reach, streak, run, fails>>
vars == <<cfg, procVars, comp, tunVars, rd>>

Components == {"readiness", "runtime", "reload", "tunnelReload", "enrollment", "operations", "os"}
SelectBranches == Components \ {"tunnelReload"}
Ended == {"ok", "err", "forced"}

Alive == main \in {"select", "await"}
Polled(c) == \/ main = "select" /\ c \in SelectBranches
             \/ main = "await" /\ awaiting # <<>> /\ Head(awaiting) = c

Ready(t) == state[t] = "connected" /\ reach[t] \notin {"pending", "unhealthy"}

-----------------------------------------------------------------------------
(* The runtime loop of one tunnel. *)

TunnelPolled(t) == t \in cfg.tunnels /\ (IF cfg.multi THEN Alive ELSE Polled("runtime"))
\* The supervisor triggers the children's signal when its select! ends.
MutStop == IF cfg.multi THEN comp["runtime"] = "joining" ELSE signal
Stop == IF cfg.multi THEN comp["runtime"] # "run" ELSE signal
Sticky == {"draining", "stopped"}

MutCommit(old, new) == new
Commit(old, new) == IF old \in Sticky THEN old ELSE new

\* set_runtime_state: a monitored tunnel that is not Connected goes back to
\* Pending first and the state word follows by compare-and-swap.  Between the
\* two only another task can move: with several tunnels the swap is a step of
\* its own (CommitState); a single-tunnel process polls everything in one task.
SetRuntimeState(t, s) ==
  /\ reach' = [reach EXCEPT ![t] = IF cfg.probe = "monitored" THEN "pending" ELSE @]
  /\ IF cfg.multi
     THEN store' = [store EXCEPT ![t] = s] /\ UNCHANGED state
     ELSE state' = [state EXCEPT ![t] = Commit(@, s)] /\ UNCHANGED store
  /\ UNCHANGED streak

CommitState(t) ==
  /\ TunnelPolled(t) /\ store[t] # "none"
  /\ state' = [state EXCEPT ![t] = Commit(@, store[t])]
  /\ store' = [store EXCEPT ![t] = "none"]
  /\ UNCHANGED <<cfg, procVars, comp, reach, streak, run, fails, rd>>

\* Returning drops the status guard, which stores Stopped.
Finish(t, result) ==
  /\ run' = [run EXCEPT ![t] = result]
  /\ state' = [state EXCEPT ![t] = "stopped"]
  /\ comp' = IF cfg.multi THEN comp ELSE [comp EXCEPT !["runtime"] = result]
  /\ UNCHANGED <<store, reach, streak>>

Attempt(t) ==
  /\ TunnelPolled(t) /\ run[t] = "top" /\ ~Stop
  /\ run' = [run EXCEPT ![t] = "connecting"]
  /\ SetRuntimeState(t, "connecting")
  /\ UNCHANGED <<cfg, procVars, comp, fails, rd>>

Established(t) ==
  /\ TunnelPolled(t) /\ run[t] = "connecting" /\ store[t] = "none" /\ ~Stop
  /\ run' = [run EXCEPT ![t] = "session"]
  /\ state' = [state EXCEPT ![t] = Commit(@, "connected")]
  /\ UNCHANGED <<cfg, procVars, comp, store, reach, streak, fails, rd>>

\* The biased select! looks at the signal before a connection result; the
\* session reports its own loss even while it drains.
CanLose(t) == /\ TunnelPolled(t) /\ store[t] = "none"
              /\ run[t] = "session" \/ (run[t] = "connecting" /\ ~Stop)

retry_exhausted(n) == MaxAttempts # 0 /\ n >= MaxAttempts
NextFailures(t, stable) ==
  IF MaxAttempts = 0 THEN 0 ELSE IF stable /\ run[t] = "session" THEN 1 ELSE fails[t] + 1

Lost(t, stable) ==
  /\ CanLose(t)
  /\ fails' = [fails EXCEPT ![t] = NextFailures(t, stable)]
  /\ IF retry_exhausted(fails'[t])
     THEN Finish(t, "err")
     ELSE /\ run' = [run EXCEPT ![t] = "backoff"]
          /\ SetRuntimeState(t, "backoff")
          /\ UNCHANGED comp
  /\ UNCHANGED <<cfg, procVars, rd>>

Terminal(t) ==
  /\ CanLose(t) /\ Finish(t, "err")
  /\ UNCHANGED <<cfg, procVars, fails, rd>>

wait_for_retry(t) ==
  /\ TunnelPolled(t) /\ run[t] = "backoff" /\ store[t] = "none" /\ ~Stop
  /\ run' = [run EXCEPT ![t] = "top"]
  /\ UNCHANGED <<cfg, procVars, comp, state, store, reach, streak, fails, rd>>

ObserveStop(t) ==
  /\ TunnelPolled(t) /\ run[t] \notin Ended /\ store[t] = "none" /\ Stop
  /\ Finish(t, "ok")
  /\ UNCHANGED <<cfg, procVars, fails, rd>>

TunnelStep(t) ==
  \/ CommitState(t) \/ Attempt(t) \/ Established(t) \/ Terminal(t)
  \/ \E stable \in BOOLEAN : Lost(t, stable)
  \/ wait_for_retry(t) \/ ObserveStop(t)

-----------------------------------------------------------------------------
(* The readiness task of one tunnel: wait for the transport, verify the    *)
(* public URL, and keep monitoring it when the profile says so.            *)

ReadinessPolled(t) ==
  /\ t \in cfg.tunnels /\ comp["readiness"] = "run"
  /\ IF cfg.multi THEN Alive ELSE Polled("readiness")

ReadinessMoves(t, at) ==
  /\ rd' = [rd EXCEPT ![t] = at]
  /\ comp' = IF ~cfg.multi /\ at \in Ended THEN [comp EXCEPT !["readiness"] = at] ELSE comp

TransportSeen(t) ==
  /\ ReadinessPolled(t) /\ rd[t] = "poll" /\ ~signal /\ state[t] = "connected"
  /\ ReadinessMoves(t, IF cfg.probe = "off" THEN "wait" ELSE "verify")
  /\ UNCHANGED <<cfg, procVars, tunVars>>

RecordSuccess(t) == /\ reach' = [reach EXCEPT ![t] = "healthy"]
                    /\ streak' = [streak EXCEPT ![t] = 0]

Verified(t) ==
  /\ ReadinessPolled(t) /\ rd[t] = "verify" /\ ~signal
  /\ RecordSuccess(t)
  /\ ReadinessMoves(t, IF cfg.probe = "monitored" THEN "sleep" ELSE "wait")
  /\ UNCHANGED <<cfg, procVars, state, store, run, fails>>

VerifyTimeout(t) ==
  /\ ReadinessPolled(t) /\ rd[t] = "verify" /\ ~signal
  /\ ReadinessMoves(t, "err")
  /\ UNCHANGED <<cfg, procVars, tunVars>>

ProbeStart(t) ==
  /\ ReadinessPolled(t) /\ rd[t] = "sleep" /\ ~signal
  /\ ReadinessMoves(t, "probe")
  /\ UNCHANGED <<cfg, procVars, tunVars>>

ProbeSucceeds(t) ==
  /\ ReadinessPolled(t) /\ rd[t] = "probe" /\ ~signal
  /\ RecordSuccess(t)
  /\ ReadinessMoves(t, "sleep")
  /\ UNCHANGED <<cfg, procVars, state, store, run, fails>>

MutMonitorState(n) == IF n > FailureThreshold THEN "unhealthy" ELSE "degraded"
MonitorState(n) == IF n >= FailureThreshold THEN "unhealthy" ELSE "degraded"

\* The failure counter saturates at the threshold: only >= is ever asked.
ProbeFails(t) ==
  LET n == streak[t] + 1 IN
  /\ ReadinessPolled(t) /\ rd[t] = "probe" /\ ~signal
  /\ streak' = [streak EXCEPT ![t] = IF n > FailureThreshold THEN @ ELSE n]
  /\ reach' = [reach EXCEPT ![t] = MonitorState(n)]
  /\ ReadinessMoves(t, "sleep")
  /\ UNCHANGED <<cfg, procVars, state, store, run, fails>>

ReadinessStop(t) ==
  /\ ReadinessPolled(t) /\ rd[t] \notin Ended /\ signal
  /\ ReadinessMoves(t, IF rd[t] \in {"poll", "verify"} THEN "err" ELSE "ok")
  /\ UNCHANGED <<cfg, procVars, tunVars>>

ReadinessStep(t) ==
  \/ TransportSeen(t) \/ Verified(t) \/ VerifyTimeout(t) \/ ProbeStart(t)
  \/ ProbeSucceeds(t) \/ ProbeFails(t) \/ ReadinessStop(t)

\* run_multi_managed_http_readiness: before the shutdown the first task to
\* end decides; afterwards every task is joined and its result ignored.
ReadinessJoined ==
  /\ cfg.multi /\ Polled("readiness") /\ comp["readiness"] = "run"
  /\ IF signal
     THEN /\ \A t \in cfg.tunnels : rd[t] \in Ended
          /\ comp' = [comp EXCEPT !["readiness"] = "ok"]
     ELSE \E t \in cfg.tunnels : /\ rd[t] \in Ended
                                 /\ comp' = [comp EXCEPT !["readiness"] = rd[t]]
  /\ UNCHANGED <<cfg, procVars, tunVars, rd>>

-----------------------------------------------------------------------------
(* MultiAgentRuntime::run_until_shutdown, and the other futures of main. *)

SupervisorStops ==
  /\ cfg.multi /\ Polled("runtime") /\ comp["runtime"] = "run"
  /\ \/ signal /\ comp' = [comp EXCEPT !["runtime"] = "joining"]
     \/ /\ ~signal /\ \E t \in cfg.tunnels : run[t] \in Ended
        /\ comp' = [comp EXCEPT !["runtime"] = "joiningErr"]
  /\ UNCHANGED <<cfg, procVars, tunVars, rd>>

SupervisorJoined ==
  /\ Polled("runtime") /\ comp["runtime"] \in {"joining", "joiningErr"}
  /\ \A t \in cfg.tunnels : run[t] \in Ended
  /\ comp' = [comp EXCEPT !["runtime"] = IF @ = "joining" THEN "ok" ELSE "err"]
  /\ UNCHANGED <<cfg, procVars, tunVars, rd>>

\* A TLS reload, renewal or operations failure; they end well when told to.
ComponentFails(c) ==
  /\ c \in {"reload", "enrollment", "operations"} /\ Polled(c) /\ comp[c] = "run"
  /\ comp' = [comp EXCEPT ![c] = "err"]
  /\ UNCHANGED <<cfg, procVars, tunVars, rd>>

ComponentStops(c) ==
  /\ Polled(c) /\ comp[c] = "run"
  /\ \/ /\ c \in {"reload", "enrollment", "tunnelReload"} /\ signal
        /\ comp' = [comp EXCEPT ![c] = "ok"]
     \/ /\ c = "operations" /\ opsSignal
        /\ \E r \in {"ok", "forced"} : comp' = [comp EXCEPT ![c] = r]
  /\ UNCHANGED <<cfg, procVars, tunVars, rd>>

OsSignal(r) ==
  /\ main = "select" /\ comp["os"] = "run"
  /\ comp' = [comp EXCEPT !["os"] = r]
  /\ osOk' = (r = "ok")
  /\ UNCHANGED <<cfg, main, step, alloc, code, branch, awaiting, signal, opsSignal, tunVars, rd>>

-----------------------------------------------------------------------------
(* main: startup, the select!, and the awaits that follow it. *)

SingleStartup == <<"arguments", "profile", "enrollment", "tls", "renewal", "runtime",
                   "operations", "reachability", "hostnameClient", "allocate">>
MultiStartup == <<"arguments", "profile", "enrollment", "tls", "renewal", "reachability",
                  "hostnameClient", "runtime", "operations", "allocate">>
RawStartup == <<"arguments", "profile", "enrollment", "tls", "renewal", "runtime",
                "operations", "reachability">>
Startup == IF cfg.multi THEN MultiStartup
           ELSE IF cfg.probe = "raw" THEN RawStartup ELSE SingleStartup
RequireStep == IF cfg.multi THEN "runtime" ELSE "reachability"

StepExit(s) == CASE s = "hostnameClient" -> {1, 2} [] s = "allocate" -> {1} [] OTHER -> {2}

StartupFails ==
  /\ main = "startup" /\ \E c \in StepExit(Startup[step]) : code' = c
  /\ main' = "exited"
  /\ UNCHANGED <<cfg, step, alloc, branch, awaiting, osOk, signal, opsSignal, comp, tunVars, rd>>

Advance == /\ step' = step + 1
           /\ main' = IF step = Len(Startup) THEN "select" ELSE "startup"

\* require_public_reachability: the tunnel is Pending until its first proof.
StartupStep ==
  /\ main = "startup" /\ Startup[step] # "allocate"
  /\ Advance
  /\ reach' = IF Startup[step] = RequireStep /\ cfg.probe \in {"once", "monitored"}
              THEN [t \in Tunnels |-> "pending"] ELSE reach
  /\ UNCHANGED <<cfg, alloc, code, branch, awaiting, osOk, signal, opsSignal, comp,
                 state, store, streak, run, fails, rd>>

AllocateHostname ==
  /\ main = "startup" /\ Startup[step] = "allocate"
  /\ \E t \in cfg.tunnels \ alloc : alloc' = alloc \cup {t}
  /\ IF alloc' = cfg.tunnels THEN Advance ELSE UNCHANGED <<step, main>>
  /\ UNCHANGED <<cfg, code, branch, awaiting, osOk, signal, opsSignal, comp, tunVars, rd>>

\* What main awaits after branch b, in order: all but the branch itself, which
\* has ended, with operations last.
Futures == {"readiness", "runtime", "reload", "enrollment"}
           \cup (IF cfg.multi THEN {"tunnelReload"} ELSE {})
Unless(b, c) == IF b = c THEN <<>> ELSE <<c>>
Awaits(b) ==
  Unless(b, "readiness") \o Unless(b, "runtime") \o Unless(b, "reload")
    \o (IF cfg.multi THEN <<"tunnelReload">> ELSE <<>>)
    \o Unless(b, "enrollment") \o Unless(b, "operations")
MutDrains(b) == b \notin {"runtime", "reload"}
Drains(b) == b # "runtime"

\* A branch fires: begin_draining, trigger.shutdown, then the awaits.
Select(b) ==
  /\ main = "select" /\ b \in SelectBranches /\ comp[b] \in Ended
  /\ main' = "await" /\ branch' = b /\ awaiting' = Awaits(b)
  /\ signal' = TRUE
  /\ opsSignal' = (awaiting' # <<>> /\ Head(awaiting') = "operations")
  /\ state' = IF Drains(b) THEN [t \in Tunnels |-> IF t \in cfg.tunnels THEN "draining" ELSE state[t]]
              ELSE state
  /\ UNCHANGED <<cfg, step, alloc, code, osOk, comp, store, reach, streak, run, fails, rd>>

\* The future main awaits is done: on to the next one, operations last.
AwaitNext ==
  /\ main = "await" /\ awaiting # <<>> /\ comp[Head(awaiting)] \in Ended
  /\ awaiting' = Tail(awaiting)
  /\ opsSignal' = (opsSignal \/ (awaiting' # <<>> /\ Head(awaiting') = "operations"))
  /\ UNCHANGED <<cfg, main, step, alloc, code, branch, osOk, signal, comp, tunVars, rd>>

MutBaseExit == IF branch = "runtime" \/ branch = "os"
               THEN IF comp["runtime"] = "ok" THEN 0 ELSE 1
               ELSE IF comp["reload"] = "ok" THEN 0 ELSE 1
BaseExit ==
  CASE branch = "runtime" -> IF comp["runtime"] = "ok" THEN 0 ELSE 1
    [] branch = "os" -> IF osOk /\ comp["runtime"] = "ok" THEN 0 ELSE 1
    [] branch = "operations" -> 1
    [] OTHER -> IF comp[branch] = "ok" THEN 0 ELSE 1

Exit ==
  /\ main = "await" /\ awaiting = <<>>
  /\ main' = "exited"
  /\ code' = IF comp["operations"] = "ok" THEN BaseExit ELSE 1
  /\ UNCHANGED <<cfg, step, alloc, branch, awaiting, osOk, signal, opsSignal, comp, tunVars, rd>>

Exited == main = "exited" /\ UNCHANGED vars

Init ==
  /\ cfg \in Configs
  /\ main = "startup" /\ step = 1 /\ alloc = {} /\ code = 0
  /\ branch = "none" /\ awaiting = <<>> /\ osOk = FALSE /\ signal = FALSE /\ opsSignal = FALSE
  /\ comp = [c \in Components |-> "run"]
  /\ state = [t \in Tunnels |-> "offline"] /\ store = [t \in Tunnels |-> "none"]
  /\ reach = [t \in Tunnels |-> "disabled"] /\ streak = [t \in Tunnels |-> 0]
  /\ run = [t \in Tunnels |-> "top"] /\ fails = [t \in Tunnels |-> 0]
  /\ rd = [t \in Tunnels |-> IF cfg.probe = "raw" THEN "wait" ELSE "poll"]

MainStep == StartupFails \/ StartupStep \/ AllocateHostname \/ AwaitNext \/ Exit
            \/ \E b \in SelectBranches : Select(b)
Next ==
  \/ \E t \in Tunnels : TunnelStep(t) \/ ReadinessStep(t)
  \/ ReadinessJoined \/ SupervisorStops \/ SupervisorJoined
  \/ \E c \in Components : ComponentFails(c) \/ ComponentStops(c)
  \/ \E r \in {"ok", "err"} : OsSignal(r)
  \/ MainStep \/ Exited

\* Every future that is polled moves: the connect, drain, probe and request
\* timeouts bound each wait, so what has been told to stop does stop.
Fairness ==
  /\ WF_vars(AwaitNext) /\ WF_vars(Exit) /\ WF_vars(\E b \in SelectBranches : Select(b))
  /\ WF_vars(ReadinessJoined) /\ WF_vars(SupervisorStops) /\ WF_vars(SupervisorJoined)
  /\ \A c \in Components : WF_vars(ComponentStops(c))
  /\ \A t \in Tunnels : WF_vars(CommitState(t)) /\ WF_vars(ObserveStop(t)) /\ WF_vars(ReadinessStop(t))

Spec == Init /\ [][Next]_vars /\ Fairness

-----------------------------------------------------------------------------
\* Once the shutdown has begun /readyz is false: no branch of the select!
\* reaches its awaits with every tunnel still ready (cli.rs run).
NotReadyInShutdown == main = "await" => ~\A t \in cfg.tunnels : Ready(t)

\* Draining and Stopped are final: a reconnect that was under way when
\* begin_draining ran cannot make the tunnel look alive again
\* (set_runtime_state).
DrainSticks == [][\A t \in Tunnels : state[t] \in Sticky => state'[t] \in Sticky]_vars

\* A verified tunnel's reachability follows the failures in a row: healthy
\* after a proof, degraded below the threshold, unhealthy from it on, whatever
\* reconnects put it back to pending in between.
ReachabilityMatchesStreak ==
  \A t \in Tunnels :
    /\ reach[t] = "healthy" => streak[t] = 0
    /\ reach[t] = "degraded" => streak[t] > 0 /\ streak[t] < FailureThreshold
    /\ reach[t] = "unhealthy" => streak[t] = FailureThreshold

\* Operations is told to stop only when every other future of main has ended.
OperationsStopLast ==
  opsSignal => \A c \in Futures : comp[c] \in Ended

\* The shutdown is orderly: readiness is withdrawn before main awaits, and the
\* operations endpoint is the last future told to stop (cli.rs, run_agent and
\* run_multi_agent).
OrderlyShutdown == NotReadyInShutdown /\ OperationsStopLast

\* The process reports success only for a shutdown the OS asked for, with the
\* single tunnel's runtime ended well and the operations listener drained.
SuccessOnlyOnRequest ==
  main = "exited" /\ code = 0 =>
    /\ osOk /\ comp["operations"] = "ok"
    /\ ~cfg.multi => \A t \in cfg.tunnels : run[t] = "ok"

\* An invalid configuration (exit code 2) leaves no hostname behind and has
\* contacted no Edge: everything is validated before the first mutation.
ConfigErrorMutatesNothing ==
  main = "exited" /\ code = 2 => alloc = {} /\ \A t \in Tunnels : run[t] = "top"

\* The exit code is honest: 0 only for a shutdown the OS asked for that ended
\* well, 2 only when nothing was changed anywhere (cli.rs, run).
ExitHonest == SuccessOnlyOnRequest /\ ConfigErrorMutatesNothing

\* Whatever ends first (a tunnel, a readiness task, a reload or renewal
\* failure, the OS), the process exits: no await waits for a future that only
\* another, unpolled, future could release.
SomethingEnded == \/ main = "await"
                  \/ \E c \in SelectBranches : comp[c] \in Ended
                  \/ \E t \in cfg.tunnels : run[t] \in Ended \/ rd[t] \in Ended
ShutdownExits == (main = "select" /\ SomethingEnded) ~> (main = "exited")
=============================================================================
