---------------------------- MODULE QueryService ----------------------------
(***************************************************************************)
(* What the query layer of pkg/cocoon promises a caller of awaitQuery or   *)
(* WorkerTypes: a call that was accepted is resolved once, with an answer  *)
(* or with a failure, and the caller comes back with an answer only if its *)
(* own call was answered.  How calls are multiplexed over one connection   *)
(* is the business of module Correlator, which implements this one.        *)
(***************************************************************************)
CONSTANT Calls          \* the invocations of SendQuery

VARIABLES
  svc,                  \* per call: "idle", "open", "answered" or "failed"
  ret                   \* what the caller got: "none", "answer" or "error"

vars == <<svc, ret>>

Init ==
  /\ svc = [c \in Calls |-> "idle"]
  /\ ret = [c \in Calls |-> "none"]

Open(c) ==
  /\ svc[c] = "idle" /\ ret[c] = "none"
  /\ svc' = [svc EXCEPT ![c] = "open"]
  /\ UNCHANGED ret

\* A call may be turned away before it is accepted.
Refuse(c) ==
  /\ svc[c] = "idle" /\ ret[c] = "none"
  /\ ret' = [ret EXCEPT ![c] = "error"]
  /\ UNCHANGED svc

Answer(c) ==
  /\ svc[c] = "open"
  /\ svc' = [svc EXCEPT ![c] = "answered"]
  /\ UNCHANGED ret

\* Several calls may fail together, when they expire in the same sweep.
Fail(S) ==
  /\ \A c \in S : svc[c] = "open"
  /\ svc' = [c \in Calls |-> IF c \in S THEN "failed" ELSE svc[c]]
  /\ UNCHANGED ret

ReturnAnswer(c) ==
  /\ svc[c] = "answered" /\ ret[c] = "none"
  /\ ret' = [ret EXCEPT ![c] = "answer"]
  /\ UNCHANGED svc

\* A caller may also give up: its context ends, its timer fires, the
\* connection is gone.
ReturnError(c) ==
  /\ svc[c] # "idle" /\ ret[c] = "none"
  /\ ret' = [ret EXCEPT ![c] = "error"]
  /\ UNCHANGED svc

Next ==
  \/ \E c \in Calls : Open(c) \/ Refuse(c) \/ Answer(c)
                        \/ ReturnAnswer(c) \/ ReturnError(c)
  \/ \E S \in SUBSET Calls : Fail(S)

SafetySpec == Init /\ [][Next]_vars

\* No accepted call stays open for ever.
Resolved(c) == svc[c] = "open" ~> svc[c] \in {"answered", "failed"}

Spec == SafetySpec /\ \A c \in Calls : Resolved(c)
=============================================================================
