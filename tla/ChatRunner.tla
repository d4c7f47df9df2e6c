----------------------------- MODULE ChatRunner -----------------------------
(***************************************************************************)
(* The runner process without the translation of tool calls: discovery and *)
(* its report (Runner), and one chat request (Passthrough).  They share no *)
(* state but the sessions, which come and go at any time in each of them,  *)
(* so a request has variables of its own.                                  *)
(***************************************************************************)
EXTENDS Runner, Sequences

CONSTANTS Models, NumSessions, Requests

VARIABLES hpc, req, body, sess, model, ready, staffed, offered, sent, answer

P == INSTANCE Passthrough WITH pc <- hpc

chatVars == <<hpc, req, body, sess, model, ready, staffed, offered, sent, answer>>

\* A request comes with what its body says.
ASSUME RequestAssumption == \A r \in Requests : r.body \in P!Body

\* The query handleChatCompletions sends names a model that had a worker and is the
\* client's unless it was left open, and goes to the proxy whose models were
\* asked.  As far as the struct and the map a body is decoded into read the same
\* of it, the body names that model and is plain: not streamed, and without the
\* fields that translated tools replace.
SentAsResolved == P!SentAsResolved
=============================================================================
