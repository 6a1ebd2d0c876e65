--------------------------- MODULE MCControlPlane ---------------------------
(***************************************************************************)
(* The Control Plane for TLC.  A behaviour explores one of three parts     *)
(* that share no state: the distribution of snapshots and routes to an     *)
(* Edge, the enrollment and rotation of an Agent's credential, or a        *)
(* command of the binary.  The others keep their initial state.            *)
(***************************************************************************)
EXTENDS Distribution, Enrollment

CONSTANTS MaxEdits, MaxAttempts

VARIABLES part
VARIABLES command, line, edits, at, attempt, disk, temporary, rows, before, bound, code

Cli == INSTANCE ControlPlaneCommands

commandVars == <<command, line, edits, at, attempt, disk, temporary, rows, before, bound, code>>

MCInit == /\ part \in {"distribution", "enrollment", "command"}
          /\ IF part = "distribution" THEN Init ELSE Init /\ kind = "route"
          /\ EnrollmentInit
          /\ IF part = "command" THEN Cli!CommandsInit
             ELSE Cli!CommandsInit /\ command = "import" /\ rows = {}

MCNext ==
  /\ UNCHANGED part
  /\ \/ part = "distribution" /\ Next /\ UNCHANGED <<enrollmentVars, commandVars>>
     \/ part = "enrollment" /\ EnrollmentNext /\ UNCHANGED <<vars, commandVars>>
     \/ part = "command" /\ Cli!CommandsNext /\ UNCHANGED <<vars, enrollmentVars>>

MCVars == <<part, vars, enrollmentVars, commandVars>>

(* The fairness of Distribution and of Enrollment, for the part explored.  *)
Distributing == part = "distribution"
Enrolling == part = "enrollment"
MCFairness ==
  /\ WF_vars(Distributing /\ StartControlPlane) /\ SF_vars(Distributing /\ RefreshLoad)
  /\ WF_vars(Distributing /\ FinishLoad) /\ WF_vars(Distributing /\ HostnameLoad)
  /\ WF_vars(Distributing /\ Respond) /\ WF_vars(Distributing /\ Push)
  /\ WF_vars(Distributing /\ Edge)
  /\ WF_enrollmentVars(Enrolling /\ ServerStep)
  /\ SF_enrollmentVars(Enrolling /\ Reconcile)
  /\ WF_enrollmentVars(Enrolling /\ AgentStep /\ journal # Nothing)
  /\ WF_enrollmentVars(Enrolling /\ ExchangeFails)
  /\ WF_enrollmentVars(Enrolling /\ ActivationTimeout)
  /\ SF_enrollmentVars(Enrolling /\ TlsReload /\ pc = "reload")

MCSpec == MCInit /\ [][MCNext]_MCVars /\ MCFairness

-----------------------------------------------------------------------------
(* Once commits and faults end the Edge is up, Live and current, from      *)
(* whatever mixture of crashes, half-written caches and torn loads.        *)
EdgeConverges == Distributing => Converges

(* A serving Control Plane runs exactly the services its flags belong to;  *)
(* a command that exits 2 changed nothing, and the files of one that fails *)
(* or is killed are replaced in an order in which none is ahead of what it *)
(* refers to, and are repaired by the next run that succeeds               *)
(* (parse_serve_args and the command functions).                           *)
CommandsSound == Cli!ServesAsTold /\ Cli!CommandsLeaveSound
=============================================================================
