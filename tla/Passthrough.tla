---------------------------- MODULE Passthrough -----------------------------
(***************************************************************************)
(* The way of one chat request through the runner, up to RunQuery          *)
(* (handleChatCompletions in cmd/gocoon-runner/openai_passthrough.go).     *)
(* The session is picked first and used until the end, while sessions come *)
(* and go and the proxy's workers change.  What becomes of the messages is *)
(* in ToolCalls, what becomes of the stream in Streams.                    *)
(***************************************************************************)
EXTENDS Integers, Sequences, Functions, FiniteSetsExt

CONSTANTS
  Models,     \* the models, in the order WorkerTypes lists them
  NumSessions, \* sessions of the client, in no order
  Requests    \* [method, body]: see Body

VARIABLES
  pc,         \* where the handler is
  req,        \* the request
  body,       \* the body as rewritten
  sess,       \* the session picked
  model,      \* the model resolved
  ready,      \* sessions that are Ready
  staffed,    \* models with a worker
  offered,    \* staffed, when the model was resolved
  sent,       \* the queries sent
  answer      \* the statuses written

vars == <<pc, req, body, sess, model, ready, staffed, offered, sent, answer>>
local == <<pc, req, body, sess, model, offered, sent, answer>>

\* The occurrences of a key in an object, in order: exact when it is spelled as
\* in the code, else with capitals, all alike.
Occurrences(values) == Seq([exact : BOOLEAN, value : values])

NoString == "a value that is no string"
Absent == "absent"

\* What a body says.  kind: an object, null or not an object.  tools: an array
\* with entries, an empty one or null, or no array.  stream is the value of that
\* very key, rejected the unsupportedFields it has besides tools.
Body == [kind : {"object", "null", "other"},
         model : Occurrences({"", "default", "unknown", NoString} \cup Range(Models)),
         tools : Occurrences({"some", "empty", "bad"}),
         stream : BOOLEAN, rejected : SUBSET {"tool_choice", "store"}]

Init ==
  /\ pc = "start"
  /\ req \in Requests
  /\ body = req.body
  /\ sess = 0 /\ model = ""
  /\ ready \in SUBSET (1 .. NumSessions)
  /\ staffed \in SUBSET (1 .. Len(Models))
  /\ offered = {}
  /\ sent = <<>> /\ answer = <<>>

----------------------------------------------------------------------------
writeJSONError(status) == pc' = "done" /\ answer' = Append(answer, status)

checkMethod ==
  /\ pc = "start"
  /\ CASE req.method = "OPTIONS" -> writeJSONError(200)
       [] req.method \notin {"OPTIONS", "POST"} -> writeJSONError(405)
       [] OTHER -> pc' = "pick" /\ UNCHANGED answer
  /\ UNCHANGED <<req, body, sess, model, ready, staffed, offered, sent>>

pickSession ==
  /\ pc = "pick"
  /\ IF ready = {} THEN writeJSONError(503) /\ UNCHANGED sess
     ELSE sess' \in ready /\ pc' = "read" /\ UNCHANGED answer
  /\ UNCHANGED <<req, body, model, ready, staffed, offered, sent>>

\* The body is read whole, or it is cut short or longer than 8 MiB.
readBody ==
  /\ pc = "read"
  /\ \/ writeJSONError(400)
     \/ pc' = "resolve" /\ UNCHANGED answer
  /\ UNCHANGED <<req, body, sess, model, ready, staffed, offered, sent>>

\* Unmarshal into a struct takes a key in any letter case and skips what does not
\* decode: the last string counts, and nothing in a body that is no object.
Requested(b) ==
  LET at == {i \in DOMAIN b.model : b.model[i].value # NoString} IN
  IF b.kind = "object" /\ at # {} THEN b.model[Max(at)].value ELSE ""

\* Unmarshal into a map keeps the last occurrence of each spelling.
InMap(key, exact) ==
  LET at == {i \in DOMAIN key : key[i].exact = exact} IN
  IF at = {} THEN <<>> ELSE <<key[Max(at)]>>

Value(key) == IF InMap(key, TRUE) = <<>> THEN Absent ELSE InMap(key, TRUE)[1].value

\* Marshal writes a map in the order of its keys, capitals first.
Marshal(key) == InMap(key, FALSE) \o InMap(key, TRUE)

Marshalled(b) == [b EXCEPT !.model = Marshal(@), !.tools = Marshal(@)]

\* The model to use: the one asked for, if it has a worker, or the first with a
\* name that has one if none was asked for; none otherwise.
Resolved ==
  LET named == {i \in staffed : Models[i] # ""} IN
  IF Requested(body) \notin {"", "default"} THEN {Requested(body)} \cap {Models[i] : i \in named}
  ELSE {Models[i] : i \in {j \in named : \A k \in named : j <= k}}

\* WorkerTypes asks the proxy; the session may be gone.
resolveModel ==
  /\ pc = "resolve"
  /\ \/ writeJSONError(502) /\ UNCHANGED <<model, offered>>
     \/ /\ sess \in ready /\ Resolved # {}
        /\ model' \in Resolved
        /\ offered' = {Models[i] : i \in staffed}
        /\ pc' = "rewrite"
        /\ UNCHANGED answer
  /\ UNCHANGED <<req, body, sess, ready, staffed, sent>>

\* Only if the resolved model is another than the probe's.  A null body unmarshals to a
\* nil map, whose assignment panics; the server drops the connection.
rewriteJSONModel ==
  /\ pc = "rewrite"
  /\ CASE model = Requested(body) -> pc' = "tools" /\ UNCHANGED <<body, answer>>
       [] model # Requested(body) /\ body.kind = "other" -> writeJSONError(400) /\ UNCHANGED body
       [] model # Requested(body) /\ body.kind = "null" -> pc' = "done" /\ UNCHANGED <<body, answer>>
       [] OTHER -> /\ body' = [Marshalled(body) EXCEPT
                                 !.model = InMap(body.model, FALSE) \o <<[exact |-> TRUE, value |-> model]>>]
                   /\ pc' = "tools" /\ UNCHANGED answer
  /\ UNCHANGED <<req, sess, model, ready, staffed, offered, sent>>

\* A struct again: the last array counts, and no error may occur.
requestHasTools ==
  LET last == Len(body.tools) IN
  last > 0 /\ body.tools[last].value = "some" /\ \A i \in 1 .. last : body.tools[i].value # "bad"

\* A map again: the key as it is spelled.
translateRequestBody ==
  LET rest == [Marshalled(body) EXCEPT !.tools = InMap(body.tools, FALSE)] IN
  CASE Value(body.tools) = Absent -> body
    [] Value(body.tools) = "some" -> [rest EXCEPT !.stream = FALSE, !.rejected = {}]
    [] OTHER -> [rest EXCEPT !.rejected = @ \ {"tool_choice"}]

forceNonStream == [Marshalled(body) EXCEPT !.stream = FALSE]

prepareBody ==
  /\ pc = "tools"
  /\ body' = IF requestHasTools THEN translateRequestBody ELSE forceNonStream
  /\ pc' = "run"
  /\ UNCHANGED <<req, sess, model, ready, staffed, offered, sent, answer>>

\* Mutant: the session is picked again.
RunQuery_Any ==
  /\ pc = "run"
  /\ sent' = Append(sent, [sess |-> NumSessions, model |-> model, body |-> body])
  /\ pc' = "collect" /\ UNCHANGED answer
  /\ UNCHANGED <<req, body, sess, model, ready, staffed, offered>>

\* RunQuery on the session picked; a session that is not Ready, or a failing
\* write, is 502.
RunQuery ==
  /\ pc = "run"
  /\ \/ writeJSONError(502) /\ UNCHANGED sent
     \/ /\ sess \in ready
        /\ sent' = Append(sent, [sess |-> sess, model |-> model, body |-> body])
        /\ pc' = "collect" /\ UNCHANGED answer
  /\ UNCHANGED <<req, body, sess, model, ready, staffed, offered>>

\* collectAndRespond or collectTranslateRespond: one answer, see Streams.
Collect ==
  /\ pc = "collect"
  /\ \E status \in {200, 502} : writeJSONError(status)
  /\ UNCHANGED <<req, body, sess, model, ready, staffed, offered, sent>>

\* External: sessions come and go, the proxy's workers too.
Environment ==
  /\ pc # "done"
  /\ \/ ready' \in SUBSET (1 .. NumSessions) /\ UNCHANGED staffed
     \/ staffed' \in SUBSET (1 .. Len(Models)) /\ UNCHANGED ready
  /\ UNCHANGED local

Handler ==
  \/ checkMethod \/ pickSession \/ readBody \/ resolveModel \/ rewriteJSONModel
  \/ prepareBody \/ RunQuery \/ Collect

Next == Handler \/ Environment

Spec == Init /\ [][Next]_vars

----------------------------------------------------------------------------
(* Properties.                                                             *)

\* The body b of a query names the model m under "model", unless the client of
\* the request r asked for m with capitals or a second time, where the probe and
\* the map read different values; then b is left as it was.
NamesModel(b, m, r) ==
  Value(b.model) = m \/ (Requested(r) = m /\ Value(r.model) # m)

\* No key is spelled with capitals.
AllExact(key) == \A i \in DOMAIN key : key[i].exact

\* The body b of a query does not stream, and carries neither the tools nor the
\* fields the proxy rejects beside them once the tools of r are translated.
IsPlain(b, r) ==
  AllExact(r.tools) =>
    /\ ~b.stream
    /\ Value(r.tools) = "some" /\ (\A i \in DOMAIN r.tools : r.tools[i].value # "bad")
         => Value(b.tools) = Absent /\ b.rejected = {}

\* What is sent to the proxy is what the request comes down to.  The model of
\* the query had a worker when it was resolved, and it is the client's unless the
\* client left it open.  The models were asked of the proxy the query goes to: a
\* session that is lost in between is not replaced by another one.  The body
\* names the same model and is plain, as far as probe and map agree.
SentAsResolved ==
  \A i \in DOMAIN sent :
    /\ sent[i].model \in offered /\ Requested(req.body) \in {"", "default", sent[i].model}
    /\ sent[i].sess = sess
    /\ NamesModel(sent[i].body, sent[i].model, req.body)
    /\ IsPlain(sent[i].body, req.body)
=============================================================================
