------------------------------ MODULE MCRunner ------------------------------
(***************************************************************************)
(* The runner process: discovery and one chat request (ChatRunner), and    *)
(* the translation of tool calls that the request goes through             *)
(* (ToolCalls).  They are run one at a time: job says which, and the       *)
(* others stay as they begin.                                              *)
(***************************************************************************)
EXTENDS ChatRunner

CONSTANTS Calls, Messages, Pieces, Precision, MaxMessages, MaxPieces

VARIABLES job, msgs, written

T == INSTANCE ToolCalls WITH answer <- written

textVars == <<msgs, written>>

----------------------------------------------------------------------------
(* The vocabulary of the two modules, apart from the constants the next    *)
(* definitions give values to.                                             *)

Chat == INSTANCE Passthrough WITH pc <- hpc, Requests <- {}
Token == INSTANCE ToolCalls WITH answer <- written, Calls <- {}, Messages <- {}, Pieces <- {}

(* Two models and two sessions, so that the first of either can be the one *)
(* that is not usable, and bodies in which "model" or "tools" occurs twice, *)
(* in the same spelling or with capitals, and the other key at most once.  *)

MCModels == <<"m1", "m2">>
Nothing(kind) == [kind |-> kind, model |-> <<>>, tools |-> <<>>, stream |-> FALSE, rejected |-> {}]
Once(values) == {<<>>} \cup {<<o>> : o \in [exact : BOOLEAN, value : values]}
Twice(values) ==
  LET o == [exact : BOOLEAN, value : values] IN {<<x, y>> : x \in o, y \in o}
MCBodies ==
  [kind : {"object"}, stream : {TRUE}, rejected : {{}}, tools : {<<>>},
   model : Once({"", "default", "unknown", "m1", Chat!NoString}) \cup Twice({"m1", "m2", Chat!NoString})]
  \cup
  [kind : {"object"}, stream : {TRUE}, rejected : {{"tool_choice", "store"}},
   model : {<<[exact |-> TRUE, value |-> v]>> : v \in {"", "m1"}},
   tools : Once({"some", "empty", "bad"}) \cup Twice({"some", "empty", "bad"})]
  \cup {Nothing("null"), Nothing("other")}
MCRequests ==
  [method : {"POST"}, body : MCBodies] \cup [method : {"OPTIONS", "GET"}, body : {Nothing("object")}]

(* Arguments of every kind, with every token the scanner looks for and the *)
(* integers around the precision of a float64, calls without a name,       *)
(* results with pieces of CDATA, and conversations and answers of a few    *)
(* messages and pieces.                                                    *)

Call(n, k, b) == [name |-> n, kind |-> k, body |-> b, number |-> 0]
Number(x) == [Call("f", "number", <<>>) EXCEPT !.number = x]

Bodies == {<<>>, <<Token!Quote>>, <<"}">>, <<Token!Backslash>>, <<Token!Backslash, Token!Quote, "{">>, <<"</tool_call>">>}

MCCalls ==
  {Call("f", k, b) : k \in {"object", "string"}, b \in Bodies}
  \cup {Number(x) : x \in 0 .. 2 ^ (Precision + 1)}
  \cup {Call("", "object", <<>>), Call("g", "object", <<"<think>">>)}

\* What a client may send besides.
OddCalls ==
  {Call("f", "invalid", b) : b \in Bodies}
  \cup {Call("f", "null", <<>>), Call("f", "malformed", <<>>)}

Message(r, t, cs) == [role |-> r, content |-> Token!Text(t), calls |-> cs]

Results == UNION {[1 .. n -> {"]", ">", Token!CDataOpen}] : n \in 1 .. 4}

MCMessages ==
  {Message("system", <<"word">>, <<>>), Message("user", <<"word">>, <<>>),
   [role |-> "tool", calls |-> <<>>,
    content |-> Token!Text(<<>>) \o <<[type |-> "image", text |-> <<"word">>]>> \o Token!Text(<<"]">>) \o Token!Text(<<"]", ">">>)]}
  \cup {Message("tool", t, <<>>) : t \in {<<"]", "]", ">">>, <<"]", "]", "]", ">", ">">>}}
  \cup {Message("assistant", <<"word">>, cs) :
          cs \in {<<>>} \cup {<<c, Call("f", "object", <<"}">>)>> : c \in MCCalls \cup OddCalls}}
  \cup {Message("assistant", <<"<think>">>, <<Call("f", "object", <<>>)>>)}

LongMessages == {Message("tool", t, <<>>) : t \in Results} \cup MCMessages

MCPieces ==
  {<<"<think>">>, <<"</think>">>, <<"<tool_call>">>, <<"</tool_call>">>,
   <<"word">>, <<"{", "word">>,
   Token!Marshal(Call("f", "object", <<Token!Backslash, Token!Quote, "{">>), TRUE),
   Token!Marshal(Call("f", "string", <<"</tool_call>">>), FALSE),
   <<"<tool_call>", "{", "f", "}", "</tool_call>">>, Token!Marshal(Call("", "object", <<>>), TRUE)}

----------------------------------------------------------------------------
MCInit ==
  /\ job \in {"discovery", "chat", "translation"}
  /\ Init /\ P!Init /\ T!Init
  /\ job # "discovery" => chain = [active |-> FALSE, balance |-> CHOOSE b \in Balances : TRUE]
  /\ job # "chat" => req = (CHOOSE r \in Requests : TRUE) /\ ready = {} /\ staffed = {}

MCNext ==
  \/ job = "discovery" /\ Next /\ UNCHANGED <<job, chatVars, textVars>>
  \/ job = "chat" /\ P!Next /\ UNCHANGED <<job, vars, textVars>>
  \/ job = "translation" /\ T!Next /\ UNCHANGED <<job, vars, chatVars>>

\* The fairness of Runner, for the case that discovery runs.
MCSpec ==
  /\ MCInit /\ [][MCNext]_<<job, vars, chatVars, textVars>>
  /\ WF_vars(job = "discovery" /\ Discovery)
  /\ WF_vars(job = "discovery" /\ handleJSONStats)

----------------------------------------------------------------------------
(* The properties of the translation; those of discovery are in Runner,    *)
(* that of the chat request in ChatRunner.                                 *)

\* translateResponseBody shows what stands outside the spans, and nothing of the
\* think spans, and recovers the call of every closed block, in order.  The text
\* of tool_call blocks it removes only once it has recovered a call; this takes
\* no side on the blocks of an answer without one.
AnswerSplit == T!AnswerSplit

\* What translateRequestBody sends can be read back: the tools' results as they
\* were, the assistant's calls up to what decoding their arguments changes (an
\* integer beyond a float64, a text that is no JSON, null), and the tools once.
HistoryKept == T!HistoryKept
=============================================================================
