--------------------------- MODULE MCEdgeSession ----------------------------
(***************************************************************************)
(* EdgeSession for TLC.  In a behaviour either heartbeats run beside one   *)
(* stream, or two streams follow each other through one slot of the stream *)
(* table, the second possibly while the task of the first still runs, and  *)
(* no heartbeat falls due.  Until that task is done the Agent does not     *)
(* half-close the second stream, though it may reset it.                   *)
(***************************************************************************)
EXTENDS EdgeSession

VARIABLE beats \* heartbeats fall due in this behaviour

MCInit == Init /\ beats \in BOOLEAN

MCNext == /\ Next
          /\ IF beats THEN task'[LastId] = "none"
             ELSE sending' # "ping" /\ (task'[1] # "done" => inbound'[LastId] # <<"end">>)
          /\ UNCHANGED beats

MCSpec == MCInit /\ [][MCNext]_<<vars, beats>> /\ Fairness
=============================================================================
