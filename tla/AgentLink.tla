----------------------------- MODULE AgentLink ------------------------------
(***************************************************************************)
(* An Agent that keeps itself registered at an Edge for one tunnel: its    *)
(* reconnect loop (crates/agent/src/runtime.rs), the HELLO, REGISTER,      *)
(* REGISTERED exchange of both sides (crates/agent/src/agent_transport.rs, *)
(* crates/edge/src/agent_transport.rs), and the life of a connection on    *)
(* the Edge (run_accepted_session in crates/edge/src/multiplex.rs).        *)
(*                                                                         *)
(* A connection carries frames both ways until it is cut; the two ends     *)
(* learn of that at different times, the Edge perhaps only by a missing    *)
(* PONG.  A frame sent to an end that has closed is lost.  What the        *)
(* session itself does is in AgentSession and EdgeSession, what the        *)
(* registry does under snapshots and shutdown in EdgeRegistry.             *)
(***************************************************************************)
EXTENDS Naturals, Sequences, FiniteSets

CONSTANTS Links,     \* connections that may exist at a time
          MaxLinks,  \* max_agent_sessions
          Mishaps    \* bound on cuts, refusals and premature timeouts

VARIABLES
  agent,    \* where the Agent's reconnect loop stands
  held,     \* the connection it holds, NoConn without one
  told,     \* the session id it was told
  up,       \* up[c]: frames on their way to the Edge
  down,     \* down[c]: frames on their way to the Agent
  ends,     \* ends[c]: which ends of the connection are open
  cut,      \* connections that deliver nothing any more
  edge,     \* where the Edge's task for the connection stands
  sid,      \* the session id the task allocated, 0 without one
  claim,    \* the connection that holds the tunnel's claim, NoConn without one
  nextSid,  \* the allocator of session ids
  granted,  \* the Agent is authorized for the tunnel
  mishaps

linkVars == <<agent, held, told, up, down, ends, cut, edge, sid, claim, nextSid, granted, mishaps>>
agentVars == <<agent, held, told>>
wireVars == <<up, down, ends, cut>>
edgeVars == <<edge, sid, claim, nextSid>>

NoConn == "none"
Working == {c \in Links : edge[c] \notin {"none", "backlog"}}
Mishap == mishaps < Mishaps /\ mishaps' = mishaps + 1

LinkInit ==
  /\ agent = "backoff" /\ held = NoConn /\ told = 0
  /\ up = [c \in Links |-> <<>>] /\ down = [c \in Links |-> <<>>]
  /\ ends = [c \in Links |-> {}] /\ cut = {}
  /\ edge = [c \in Links |-> "none"] /\ sid = [c \in Links |-> 0] /\ claim = NoConn
  /\ nextSid = 1 /\ granted \in BOOLEAN /\ mishaps = 0

-----------------------------------------------------------------------------
(* The wire.                                                               *)

SendUp(c, f) == up' = IF "edge" \in ends[c] /\ c \notin cut THEN [up EXCEPT ![c] = Append(@, f)] ELSE up
SendDown(c, f) ==
  down' = IF "agent" \in ends[c] /\ c \notin cut THEN [down EXCEPT ![c] = Append(@, f)] ELSE down

\* The other end closed, and all it sent has been read.
EofAtEdge(c) == up[c] = <<>> /\ "agent" \notin ends[c] /\ c \notin cut
EofAtAgent(c) == down[c] = <<>> /\ "edge" \notin ends[c] /\ c \notin cut

\* Everything in flight is lost, and neither end is told.
Cut(c) ==
  /\ ends[c] # {} /\ c \notin cut /\ Mishap
  /\ cut' = cut \cup {c}
  /\ up' = [up EXCEPT ![c] = <<>>] /\ down' = [down EXCEPT ![c] = <<>>]
  /\ UNCHANGED <<agentVars, ends, edgeVars, granted>>

-----------------------------------------------------------------------------
(* The Agent: connect_registered_with_security and run_until_shutdown.     *)

\* is_retryable, for the errors a connection can end with here.
Retryable(e) == e \notin {"unauthorized", "unexpected"}

\* The socket is dropped; the loop backs off and tries again, or gives up.
\* Without max_attempts it never runs out of attempts.
Drop(c, e) ==
  /\ agent' = IF Retryable(e) THEN "backoff" ELSE "exited"
  /\ held' = NoConn /\ told' = 0
  /\ ends' = [ends EXCEPT ![c] = @ \ {"agent"}] /\ down' = [down EXCEPT ![c] = <<>>]

\* TcpStream::connect and the TLS handshake.
Connect(c) ==
  /\ agent = "backoff" /\ ends[c] = {} /\ edge[c] = "none"
  /\ agent' = "hello" /\ held' = c
  /\ ends' = [ends EXCEPT ![c] = {"agent", "edge"}] /\ cut' = cut \ {c}
  /\ up' = [up EXCEPT ![c] = <<>>] /\ down' = [down EXCEPT ![c] = <<>>]
  /\ edge' = [edge EXCEPT ![c] = "backlog"]
  /\ UNCHANGED <<told, sid, claim, nextSid, granted, mishaps>>

SendHello(c) ==
  /\ agent = "hello" /\ held = c /\ agent' = "register" /\ SendUp(c, "HELLO")
  /\ UNCHANGED <<held, told, down, ends, cut, edgeVars, granted, mishaps>>

SendRegister(c) ==
  /\ agent = "register" /\ held = c /\ agent' = "await" /\ SendUp(c, "REGISTER")
  /\ UNCHANGED <<held, told, down, ends, cut, edgeVars, granted, mishaps>>

\* REGISTERED with a session id, ERROR with a code, or another frame.
AwaitRegistered(c) ==
  /\ agent = "await" /\ held = c /\ down[c] # <<>>
  /\ LET f == Head(down[c]) IN
     IF f.kind = "REGISTERED"
     THEN /\ agent' = "session" /\ told' = f.sid
          /\ down' = [down EXCEPT ![c] = Tail(@)] /\ UNCHANGED <<held, ends>>
     ELSE Drop(c, IF f.kind = "ERROR" THEN f.code ELSE "unexpected")
  /\ UNCHANGED <<up, cut, edgeVars, granted, mishaps>>

\* EOF or a failed write in the handshake, and EOF in the session.
AgentClosed(c) ==
  /\ held = c /\ agent # "exited" /\ EofAtAgent(c) /\ Drop(c, "closed")
  /\ UNCHANGED <<up, cut, edgeVars, granted, mishaps>>

\* The session's reader fails on a cut connection.  The Agent sends only what
\* it is asked for and has no timer of its own, so that this is up to TCP.
AgentNoticesCut(c) ==
  /\ held = c /\ agent = "session" /\ c \in cut /\ Drop(c, "io")
  /\ UNCHANGED <<up, cut, edgeVars, granted, mishaps>>

\* handshake_timeout: due when no answer can come, a mishap otherwise.
AgentTimesOut(c) ==
  /\ held = c /\ agent \in {"hello", "register", "await"}
  /\ IF c \in cut THEN UNCHANGED mishaps ELSE Mishap
  /\ Drop(c, "timeout")
  /\ UNCHANGED <<up, cut, edgeVars, granted>>

-----------------------------------------------------------------------------
(* The Edge: spawn_accepted_session, run_accepted_session.                 *)

\* The task ends: socket, claim, id and permit go.
Finish(c) ==
  /\ edge' = [edge EXCEPT ![c] = "none"] /\ sid' = [sid EXCEPT ![c] = 0]
  /\ claim' = IF claim = c THEN NoConn ELSE claim
  /\ ends' = [ends EXCEPT ![c] = @ \ {"edge"}] /\ up' = [up EXCEPT ![c] = <<>>]
  /\ UNCHANGED nextSid

\* run_edge_session returns and drops the socket; the claim and the permit are
\* held until the session has left the registry.
EndSession(c) ==
  /\ edge[c] = "session" /\ edge' = [edge EXCEPT ![c] = "closing"]
  /\ ends' = [ends EXCEPT ![c] = @ \ {"edge"}] /\ up' = [up EXCEPT ![c] = <<>>]
  /\ UNCHANGED <<agentVars, down, cut, sid, claim, nextSid, granted, mishaps>>

Unregister(c) ==
  /\ edge[c] = "closing" /\ Finish(c)
  /\ UNCHANGED <<agentVars, down, cut, granted, mishaps>>

\* try_acquire_owned, or the socket is dropped.
AcceptLink(c) ==
  /\ edge[c] = "backlog"
  /\ IF Cardinality(Working) < MaxLinks
     THEN edge' = [edge EXCEPT ![c] = "hello"] /\ UNCHANGED <<sid, claim, nextSid, ends, up>>
     ELSE Finish(c)
  /\ UNCHANGED <<agentVars, down, cut, granted, mishaps>>

AwaitHello(c) ==
  /\ edge[c] = "hello" /\ up[c] # <<>> /\ Head(up[c]) = "HELLO"
  /\ edge' = [edge EXCEPT ![c] = "register"] /\ up' = [up EXCEPT ![c] = Tail(@)]
  /\ UNCHANGED <<agentVars, down, ends, cut, sid, claim, nextSid, granted, mishaps>>

\* send_error_and_close.
Reject(c, code) ==
  /\ SendDown(c, [kind |-> "ERROR", code |-> code])
  /\ Finish(c)

\* A claim that overrides the one in place.
MutAwaitRegister(c) ==
  /\ edge[c] = "register" /\ up[c] # <<>>
  /\ IF ~granted THEN Reject(c, "unauthorized")
     ELSE /\ claim' = c /\ sid' = [sid EXCEPT ![c] = nextSid] /\ nextSid' = nextSid + 1
          /\ edge' = [edge EXCEPT ![c] = "reply"] /\ up' = [up EXCEPT ![c] = Tail(@)]
          /\ UNCHANGED <<down, ends>>
  /\ UNCHANGED <<agentVars, cut, granted, mishaps>>

\* REGISTER is authorized, then claims the tunnel, then gets a session id.
AwaitRegister(c) ==
  /\ edge[c] = "register" /\ up[c] # <<>>
  /\ IF ~granted THEN Reject(c, "unauthorized")
     ELSE IF claim # NoConn THEN Reject(c, "already")
     ELSE /\ claim' = c /\ sid' = [sid EXCEPT ![c] = nextSid] /\ nextSid' = nextSid + 1
          /\ edge' = [edge EXCEPT ![c] = "reply"] /\ up' = [up EXCEPT ![c] = Tail(@)]
          /\ UNCHANGED <<down, ends>>
  /\ UNCHANGED <<agentVars, cut, granted, mishaps>>

AnswerRegistered(c) ==
  /\ edge[c] = "reply" /\ edge' = [edge EXCEPT ![c] = "publish"]
  /\ SendDown(c, [kind |-> "REGISTERED", sid |-> sid[c]])
  /\ UNCHANGED <<agentVars, up, ends, cut, sid, claim, nextSid, granted, mishaps>>

\* Under the gate: reauthorize, then the session is published.
PublishLink(c) ==
  /\ edge[c] = "publish"
  /\ IF granted
     THEN edge' = [edge EXCEPT ![c] = "session"] /\ UNCHANGED <<sid, claim, nextSid, ends, up>>
     ELSE Finish(c)
  /\ UNCHANGED <<agentVars, down, cut, granted, mishaps>>

\* EOF or a failed write before the session, EOF in it.
EdgeClosed(c) ==
  /\ EofAtEdge(c)
  /\ \/ /\ edge[c] \in {"hello", "register", "reply"} /\ Finish(c)
        /\ UNCHANGED <<agentVars, down, cut, granted, mishaps>>
     \/ EndSession(c)

\* handshake_timeout.
EdgeTimesOut(c) ==
  /\ edge[c] \in {"hello", "register", "reply"}
  /\ IF c \in cut THEN UNCHANGED mishaps ELSE Mishap
  /\ Finish(c)
  /\ UNCHANGED <<agentVars, down, cut, granted>>

\* A session that waits for its PONG for ever.
MutPongTimeout(c) == FALSE /\ UNCHANGED linkVars

\* pong_timeout: a PING stays unanswered.
PongTimeout(c) == c \in cut /\ EndSession(c)

\* The grant is withdrawn, and reconciliation closes the session.
Revoke ==
  /\ granted /\ granted' = FALSE
  /\ UNCHANGED <<agentVars, wireVars, edgeVars, mishaps>>

RevokeSession(c) == ~granted /\ EndSession(c)

-----------------------------------------------------------------------------
AgentStep(c) == \/ SendHello(c) \/ SendRegister(c) \/ AwaitRegistered(c)
                \/ AgentClosed(c) \/ AgentNoticesCut(c) \/ (c \in cut /\ AgentTimesOut(c))
EdgeStep(c) == \/ AcceptLink(c) \/ AwaitHello(c) \/ AwaitRegister(c) \/ AnswerRegistered(c)
               \/ PublishLink(c) \/ EdgeClosed(c) \/ (c \in cut /\ EdgeTimesOut(c))
               \/ PongTimeout(c) \/ RevokeSession(c) \/ Unregister(c)

LinkNext == \/ Revoke
            \/ \E c \in Links : \/ Cut(c) \/ Connect(c) \/ AgentTimesOut(c) \/ EdgeTimesOut(c)
                                \/ AgentStep(c) \/ EdgeStep(c)

\* Both processes run, timers fire, backoff ends, and TCP reports a cut.
LinkFairness ==
  /\ WF_linkVars(\E c \in Links : Connect(c))
  /\ \A c \in Links : WF_linkVars(AgentStep(c)) /\ WF_linkVars(EdgeStep(c))

LinkSpec == LinkInit /\ [][LinkNext]_linkVars /\ LinkFairness

-----------------------------------------------------------------------------
\* The two ends agree: an Agent in a session was told the id that the Edge
\* allocated for this very connection, unless the Edge's side has ended;
\* one connection at a time holds the tunnel; and an Agent that gave up was
\* not authorized (perform_handshake, perform_authorized_handshake).
LinkAgrees ==
  /\ agent = "session" /\ "edge" \in ends[held] => sid[held] = told /\ claim = held
  /\ \A c \in Links : edge[c] \in {"reply", "publish", "session", "closing"} => claim = c
  /\ agent = "exited" => ~granted

Linked == \E c \in Links : agent = "session" /\ held = c /\ edge[c] = "session" /\ c \notin cut

\* From every cut, refusal and timeout, at whatever point of whichever side,
\* an authorized Agent comes back: its old session leaves the claim, and it
\* keeps trying until then (is_retryable, run_accepted_session).
LinkRecovers == granted ~> (Linked \/ ~granted)
=============================================================================
