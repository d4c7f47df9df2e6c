----------------------------- MODULE ToolCalls ------------------------------
(***************************************************************************)
(* The translation of OpenAI tool calls to and from tagged prompt text     *)
(* (cmd/gocoon-runner/tools_translate.go), over the texts of ToolText.     *)
(***************************************************************************)
EXTENDS ToolText, SequencesExt, FiniteSetsExt

CONSTANTS
  Calls,       \* tool calls a text may hold, see Marshal
  Messages,    \* messages a client may send, [role, content, calls]
  Pieces,      \* texts the model writes
  Precision,   \* bits of a float64's integers, 53 in Go
  MaxMessages, \* bound: messages of a conversation
  MaxPieces    \* bound: pieces of an answer

VARIABLES
  msgs,        \* the messages of a request with tools
  answer       \* the content of the upstream's answer, as pieces

vars == <<msgs, answer>>

ToolPrompt == <<"<tools>">>

----------------------------------------------------------------------------
\* A call is [name, kind, body, number].  Its arguments are, by kind: an object with
\* a text (the body) or one with an integer (the number), a string, null, or a text
\* that is no JSON, which is empty if a request has none or another value there.
\* An entry of a request that has no function is malformed.
Marshal(c, tagsToo) ==
  CASE c.kind = "object" -> CallJSON(c, tagsToo)
    [] c.kind = "number" -> <<"{", c.name, "{", ToString(c.number), "}", "}">>
    [] c.kind = "string" -> <<"{", c.name>> \o JSONString(c.body, tagsToo) \o <<"}">>
    [] c.kind = "null" -> <<"{", c.name, "null", "}">>

\* The JSON objects that unmarshal to the call, whose arguments stay as they are
\* written; without arguments, or with null, it gets {}.
JSONTexts(c) ==
  {Marshal(c, TRUE), Marshal(c, FALSE)} \cup
  IF c.kind = "object" /\ c.body = <<>> THEN {<<"{", c.name, "}">>, <<"{", c.name, "null", "}">>} ELSE {}

Unmarshal(raw) == {c \in Calls : raw \in JSONTexts(c)}

----------------------------------------------------------------------------
(* The answer.                                                             *)

stripThinkBlocks(text) == Strip(text, "<think>", "</think>")

stripThinkAndToolCalls(text) ==
  Strip(stripThinkBlocks(text), "<tool_call>", "</tool_call>")

\* The call in the block between two tags; none if it is malformed.
CallInBlock(s, open, close) ==
  LET brace == IndexFrom(SubSeq(s, 1, close - 1), "{", open + 1)
  IN  IF brace = 0 THEN {}
      ELSE {c \in Unmarshal(extractJSONObject(s, brace)) : c.name # ""}

parseToolCallsFromText(text) ==
  LET s == stripThinkBlocks(text)
      calls[from \in 1 .. Len(s) + 1] ==
        LET open == IndexFrom(s, "<tool_call>", from)
            close == IndexFrom(s, "</tool_call>", open + 1)
        IN  IF open = 0 \/ close = 0 THEN <<>>
            ELSE SetToSeq(CallInBlock(s, open, close)) \o calls[close + 1]
  IN  calls[1]

\* Of choices[0].message.
translateResponseBody(content) ==
  LET calls == parseToolCallsFromText(content) IN
  [tool_calls |-> calls,
   content |-> IF calls = <<>> THEN stripThinkBlocks(content)
                               ELSE stripThinkAndToolCalls(content)]

----------------------------------------------------------------------------
(* The request.  A content is a list of parts; the string form is one text *)
(* part.                                                                   *)

messageContentAsString(content) ==
  LET texts == SelectSeq(content, LAMBDA p : p.type = "text" /\ p.text # <<>>)
  IN  FlattenSeq([i \in DOMAIN texts |->
        IF i = 1 THEN texts[i].text ELSE <<"newline">> \o texts[i].text])

Text(t) == <<[type |-> "text", text |-> t]>>

\* An integer as a float64 keeps it, up to 2^(Precision + 1): those above
\* 2^Precision are even, a tie goes to the multiple of four.
Float64(n) ==
  CASE n <= 2 ^ Precision \/ n % 2 = 0 -> n
    [] n > 2 ^ Precision /\ n % 4 = 1 -> n - 1
    [] n > 2 ^ Precision /\ n % 4 = 3 -> n + 1

\* Arguments that are JSON are decoded into any value, others become a string.
Decoded(c) ==
  CASE c.kind = "number" -> [c EXCEPT !.number = Float64(@)]
    [] c.kind = "invalid" -> [c EXCEPT !.kind = "string"]
    [] OTHER -> c

rewriteAssistantToolCalls(m) ==
  LET calls == SelectSeq(m.calls, LAMBDA c : c.kind # "malformed") IN
  [role |-> "assistant", calls |-> <<>>,
   content |-> Text(messageContentAsString(m.content) \o
     FlattenSeq([i \in DOMAIN calls |->
       <<"<tool_call>">> \o Marshal(Decoded(calls[i]), TRUE) \o <<"</tool_call>">>]))]

rewriteToolMessage(m) ==
  [role |-> "user", calls |-> <<>>,
   content |-> Text(<<"<tool_response>", CDataOpen>>
                    \o EscapeCData(messageContentAsString(m.content))
                    \o CDataEnd \o <<"</tool_response>">>)]

rewriteHistoryMessages(ms) ==
  [i \in DOMAIN ms |->
     CASE ms[i].role = "system" /\ \A j \in 1 .. i - 1 : ms[j].role # "system" ->
            [ms[i] EXCEPT !.content = Text(messageContentAsString(@) \o ToolPrompt)]
       [] ms[i].role = "assistant" /\ ms[i].calls # <<>> -> rewriteAssistantToolCalls(ms[i])
       [] ms[i].role = "tool" -> rewriteToolMessage(ms[i])
       [] OTHER -> ms[i]]

\* The messages of a body with tools.
translateRequestBody(ms) ==
  (IF \E i \in DOMAIN ms : ms[i].role = "system" THEN <<>>
   ELSE <<[role |-> "system", calls |-> <<>>, content |-> Text(ToolPrompt)]>>)
  \o rewriteHistoryMessages(ms)

----------------------------------------------------------------------------
Init == msgs = <<>> /\ answer = <<>>

\* External: the client's conversation, and the model's answer.
ClientSays ==
  /\ answer = <<>> /\ Len(msgs) < MaxMessages
  /\ \E m \in Messages : msgs' = Append(msgs, m)
  /\ UNCHANGED answer

ModelWrites ==
  /\ msgs = <<>> /\ Len(answer) < MaxPieces
  /\ \E p \in Pieces : answer' = Append(answer, p)
  /\ UNCHANGED msgs

Next == ClientSays \/ ModelWrites

Spec == Init /\ [][Next]_vars

----------------------------------------------------------------------------
(* Properties.                                                             *)

Written == FlattenSeq(answer)

\* The content translateResponseBody shows holds all the model wrote outside its
\* think spans and its tool_call spans, in order, and of the think spans nothing,
\* whatever the nesting of the tags.  Once a call was recovered it holds no more;
\* without one, whether the malformed blocks stay is left open: they do.
VisibleIsOutside ==
  LET thoughtless == Outside(Written, "<think>", "</think>")
      visible == Outside(thoughtless, "<tool_call>", "</tool_call>")
      out == translateResponseBody(Written)
  IN  /\ Outside(out.content, "<tool_call>", "</tool_call>") = visible
      /\ out.tool_calls # <<>> => out.content = visible
      /\ \A i \in DOMAIN out.content : out.content[i] # "<think>"

\* parseToolCallsFromText recovers, in order, the call of every closed block
\* outside think spans whose first object is one, whatever stands before and
\* in between.
EveryCallRecovered ==
  LET s == Outside(Written, "<think>", "</think>")
      opens == {o \in DOMAIN s :
                  /\ s[o] = "<tool_call>"
                  /\ \A i \in 1 .. o - 1 :
                       s[i] = "<tool_call>" => \E j \in i .. o - 1 : s[j] = "</tool_call>"
                  /\ \E c \in o .. Len(s) : s[c] = "</tool_call>"}
      first(o) == IndexFrom(s, "{", o)
      calls(o) == IF first(o) = 0 \/ first(o) > IndexFrom(s, "</tool_call>", o) THEN {}
                  ELSE {c \in Calls : c.name # "" /\
                          \E t \in JSONTexts(c) : IsPrefix(t, From(s, first(o)))}
      order == SetToSortSeq(opens, <)
  IN  parseToolCallsFromText(Written)
        = FlattenSeq([k \in DOMAIN order |-> SetToSeq(calls(order[k]))])

\* An answer is split right: into what is shown and what is called.
AnswerSplit == VisibleIsOutside /\ EveryCallRecovered

Translated == translateRequestBody(msgs)
Original(i) == msgs[i - (Len(Translated) - Len(msgs))]
Shown(i) == messageContentAsString(Translated[i].content)

\* What can be read back of a call: its name, and its arguments but for an
\* integer that a float64 does not hold, which is off by one, a text that is
\* no JSON, which is a string, and null, which is an empty object.
ReadsBack(c, got) ==
  /\ got.name = c.name
  /\ c.kind \in {"object", "string"} => got = c
  /\ c.kind = "invalid" => got.kind = "string" /\ got.body = c.body
  /\ c.kind = "null" => got.kind = "object" /\ got.body = <<>>
  /\ c.kind = "number" => /\ got.kind = "number" /\ got.number - c.number \in {-1, 0, 1}
                          /\ c.number <= 2 ^ Precision => got.number = c.number

\* Of the messages of the request, in order, the text sent says the same: the
\* calls of the assistant that are well-formed and have a name can be read back
\* from it, if the text beside them holds no tags.
CallsKept ==
  msgs # <<>> =>
    \A i \in Len(Translated) - Len(msgs) + 1 .. Len(Translated) :
      LET beside == messageContentAsString(Original(i).content)
          calls == SelectSeq(Original(i).calls, LAMBDA c : c.kind # "malformed" /\ c.name # "")
          got == parseToolCallsFromText(Shown(i))
      IN  Original(i).role = "assistant" /\ (\A j \in DOMAIN beside : beside[j] \notin Tags) =>
            Len(got) = Len(calls) /\ \A k \in DOMAIN calls : ReadsBack(calls[k], got[k])

\* The result of a tool, wrapped in CDATA, reads back as it was, even when it
\* holds the end of a CDATA section, and no message has the role tool.
ResultsKept ==
  msgs # <<>> =>
    \A i \in Len(Translated) - Len(msgs) + 1 .. Len(Translated) :
      /\ Translated[i].role # "tool" /\ Translated[i].calls = <<>>
      /\ Original(i).role = "tool" =>
           ReadCData(SubSeq(Shown(i), 2, Len(Shown(i)) - 1)) =
             [open |-> FALSE, run |-> 0, text |-> messageContentAsString(Original(i).content)]

\* One message, the first of the system messages, defines the tools.
InjectedOnce ==
  msgs # <<>> =>
    LET with == {i \in DOMAIN Translated : \E j \in DOMAIN Shown(i) : Shown(i)[j] = "<tools>"}
    IN  /\ Cardinality(with) = 1
        /\ \A i \in with : /\ Translated[i].role = "system"
                           /\ \A j \in 1 .. i - 1 : Translated[j].role # "system"

\* The request that is sent says what the client's did: its calls, as far as
\* decoding keeps them, its results and, once, its tools.
HistoryKept == CallsKept /\ ResultsKept /\ InjectedOnce
=============================================================================
