------------------------------ MODULE ToolText ------------------------------
(***************************************************************************)
(* The text of tool calls (cmd/gocoon-runner/tools_translate.go): JSON     *)
(* strings and the scanner that finds the end of an object, spans between  *)
(* tags, and CDATA sections.                                               *)
(*                                                                         *)
(* A text is a sequence of tokens: the tags and the punctuation the code   *)
(* looks for, and words.  White space and wording are left out.            *)
(***************************************************************************)
EXTENDS Integers, Sequences

Tags == {"<think>", "</think>", "<tool_call>", "</tool_call>"}
Quote == "quote"
Backslash == "backslash"
CDataOpen == "<![CDATA["
CDataEnd == <<"]", "]", ">">>

From(s, i) == SubSeq(s, i, Len(s))

\* Of the first such token; 0 if there is none.
IndexFrom(s, token, from) ==
  IF \E i \in from .. Len(s) : s[i] = token
  THEN CHOOSE i \in from .. Len(s) : s[i] = token /\ \A j \in from .. i - 1 : s[j] # token
  ELSE 0

----------------------------------------------------------------------------
(* JSON: json.Marshal escapes quotes, backslashes and the angle brackets   *)
(* of the tags; other writers leave the tags as they are.                  *)

Bracketless(tag) ==
  CASE tag = "<think>" -> "u003cthink>"
    [] tag = "</think>" -> "u003c/think>"
    [] tag = "<tool_call>" -> "u003ctool_call>"
    [] tag = "</tool_call>" -> "u003c/tool_call>"

JSONToken(t, tagsToo) ==
  CASE t \in {Quote, Backslash} -> <<Backslash, t>>
    [] t \in Tags /\ tagsToo -> <<Bracketless(t)>>
    [] OTHER -> <<t>>

JSONString(s, tagsToo) ==
  LET upTo[i \in 0 .. Len(s)] ==
        IF i = 0 THEN <<>> ELSE upTo[i - 1] \o JSONToken(s[i], tagsToo)
  IN  <<Quote>> \o upTo[Len(s)] \o <<Quote>>

\* A call is a name and the value of its one argument, a text.
Arguments(c, tagsToo) ==
  <<"{">> \o (IF c.body = <<>> THEN <<>> ELSE JSONString(c.body, tagsToo)) \o <<"}">>

CallJSON(c, tagsToo) == <<"{", c.name>> \o Arguments(c, tagsToo) \o <<"}">>

\* Outside of strings.
Brace(st, ch) ==
  CASE ch = Quote -> [st EXCEPT !.inString = TRUE]
    [] ch = "{" -> [st EXCEPT !.depth = @ + 1]
    [] ch = "}" -> [st EXCEPT !.depth = @ - 1]
    [] OTHER -> st

\* Mutant: a backslash means nothing.
Scan_NoEscape(st, ch) ==
  IF st.inString THEN [st EXCEPT !.inString = ch # Quote] ELSE Brace(st, ch)

Scan(st, ch) ==
  IF st.escaped THEN [st EXCEPT !.escaped = FALSE]
  ELSE IF st.inString THEN [st EXCEPT !.escaped = ch = Backslash, !.inString = ch # Quote]
  ELSE Brace(st, ch)

\* The balanced object at start; empty if there is none, or if it does not end.
extractJSONObject(s, start) ==
  LET st[i \in start - 1 .. Len(s)] ==
        IF i < start THEN [depth |-> 0, inString |-> FALSE, escaped |-> FALSE]
                     ELSE Scan(st[i - 1], s[i])
      ends == {i \in start .. Len(s) : st[i].depth = 0}
  IN  IF ends = {} \/ s[start] # "{" THEN <<>>
      ELSE SubSeq(s, start, CHOOSE i \in ends : \A j \in ends : i <= j)

----------------------------------------------------------------------------
(* Spans.                                                                  *)

\* Mutant: a span ends at the last closing tag.
Strip_Greedy(s, open, close) ==
  LET o == IndexFrom(s, open, 1)
      ends == {i \in o .. Len(s) : s[i] = close}
  IN  IF o = 0 THEN s
      ELSE SubSeq(s, 1, o - 1) \o
           IF ends = {} THEN <<>> ELSE From(s, (CHOOSE i \in ends : \A j \in ends : j <= i) + 1)

\* Without the spans from an opening tag to the next closing one; a span that
\* is not closed goes on to the end.
Strip(s, open, close) ==
  LET rest[cursor \in 1 .. Len(s) + 1] ==
        LET o == IndexFrom(s, open, cursor)
            e == IndexFrom(s, close, o)
        IN  IF o = 0 THEN From(s, cursor)
            ELSE SubSeq(s, cursor, o - 1) \o IF e = 0 THEN <<>> ELSE rest[e + 1]
  IN  rest[1]

\* What Strip is to leave.  A token is in a span when no closing tag stands
\* between it and an opening tag before it.
InSpan(s, i, open, close) ==
  \E o \in 1 .. i : s[o] = open /\ \A j \in o .. i - 1 : s[j] # close

Outside(s, open, close) ==
  LET upTo[i \in 0 .. Len(s)] ==
        IF i = 0 THEN <<>>
        ELSE IF InSpan(s, i, open, close) THEN upTo[i - 1] ELSE Append(upTo[i - 1], s[i])
  IN  upTo[Len(s)]

----------------------------------------------------------------------------
(* CDATA sections.                                                         *)

\* strings.ReplaceAll(content, "]]>", "]]]]><![CDATA[>").  Two occurrences do not
\* overlap, so this is to put "]]><![CDATA[" before every ">" that ends one.
EscapeCData(s) ==
  LET upTo[i \in 0 .. Len(s)] ==
        IF i = 0 THEN <<>>
        ELSE IF s[i] = ">" /\ i > 2 /\ s[i - 1] = "]" /\ s[i - 2] = "]"
        THEN upTo[i - 1] \o CDataEnd \o <<CDataOpen, s[i]>>
        ELSE Append(upTo[i - 1], s[i])
  IN  upTo[Len(s)]

\* External: an XML reader.  run counts the brackets at the end of the section so
\* far; a section ends at the first "]]>" in it.
ReadToken(st, t) ==
  CASE ~st.open /\ t = CDataOpen -> [st EXCEPT !.open = TRUE, !.run = 0]
    [] st.open /\ t = ">" /\ st.run >= 2 ->
         [open |-> FALSE, run |-> 0, text |-> SubSeq(st.text, 1, Len(st.text) - 2)]
    [] OTHER -> [st EXCEPT !.run = IF t = "]" THEN @ + 1 ELSE 0, !.text = Append(@, t)]

\* The text of a document, as [open, run, text] after its last token.
ReadCData(s) ==
  LET upTo[i \in 0 .. Len(s)] ==
        IF i = 0 THEN [open |-> FALSE, run |-> 0, text |-> <<>>]
                 ELSE ReadToken(upTo[i - 1], s[i])
  IN  upTo[Len(s)]
=============================================================================
