----------------------------- MODULE TextProofs -----------------------------
(***************************************************************************)
(* What the translation of tool calls does to a text of any length (module *)
(* ToolText): results read back, calls are extracted, spans are stripped.  *)
(* It rests on induction over numbers, for a set in the place of a         *)
(* predicate.                                                              *)
(***************************************************************************)
EXTENDS ToolText, WellFoundedInduction, TLAPS

----------------------------------------------------------------------------
(* Recursive definitions: induction, and what they compute.                *)

\* A set of numbers that is not empty has a least element.
LEMMA Least ==
  ASSUME NEW T, T \subseteq Nat, T # {}
  PROVE  \E x \in T : \A y \in T : ~(y < x)
<1>1. IsWellFoundedOn(OpToRel(<, Nat), Nat)
  BY ZenonT(60), NatLessThanWellFounded
<1>2. PICK x \in T : \A y \in T : ~(<<y, x>> \in OpToRel(<, Nat))
  BY ZenonT(60), <1>1, WFMin
<1>3. \A y \in T : ~(y < x)
  BY ZenonT(60), <1>2 DEF OpToRel
<1> QED BY <1>3

\* Induction on an interval, for a set in the place of a predicate.
LEMMA Induction ==
  ASSUME NEW a \in Int, NEW n \in Int, NEW T, a \in T,
         \A i \in a + 1 .. n : i - 1 \in T => i \in T
  PROVE  \A i \in a .. n : i \in T
<1> DEFINE U == {k \in Nat : a + k <= n /\ a + k \notin T}
<1>1. U = {}
  <2> SUFFICES ASSUME U # {} PROVE FALSE
    OBVIOUS
  <2>1. PICK x \in U : \A y \in U : ~(y < x)
    <3> HIDE DEF U
    <3>1. U \subseteq Nat
      BY DEF U
    <3> QED BY ZenonT(60), <3>1, Least
  <2>2. x \in Nat /\ a + x <= n /\ a + x \notin T
    BY <2>1
  <2>3. x # 0
    BY <2>2
  <2>4. x - 1 \in Nat /\ x - 1 < x /\ a + (x - 1) <= n
    BY <2>2, <2>3
  <2>5. a + (x - 1) \in T
    BY <2>1, <2>4
  <2>6. a + x \in a + 1 .. n /\ (a + x) - 1 = a + (x - 1)
    BY <2>2, <2>3
  <2> QED BY <2>2, <2>5, <2>6
<1>2. ASSUME NEW i \in a .. n PROVE i \in T
  <2>1. PICK k \in Nat : a + k = i /\ i <= n
    <3>1. i - a \in Nat /\ a + (i - a) = i /\ i <= n
      OBVIOUS
    <3> QED BY <3>1
  <2>2. k \notin U
    BY ZenonT(60), <1>1
  <2> QED BY <2>1, <2>2
<1> QED BY <1>2

\* h is computed from f0 by D, one index after the other.
Follows(h, a, n, S, f0, D) ==
  /\ h \in [a .. n -> S]
  /\ h[a] = f0
  /\ \A i \in a + 1 .. n : h[i] = D[<<h[i - 1], i>>]

\* What is computed up to m - 1 can be computed up to m.
LEMMA Extended ==
  ASSUME NEW S, NEW f0 \in S, NEW D \in [S \X Int -> S], NEW a \in Int,
         NEW m \in Int, m > a, NEW h, Follows(h, a, m - 1, S, f0, D)
  PROVE  \E g : Follows(g, a, m, S, f0, D)
<1> DEFINE g == [i \in a .. m |-> IF i = m THEN D[<<h[m - 1], m>>] ELSE h[i]]
<1>2. h[m - 1] \in S /\ h \in [a .. m - 1 -> S] /\ h[a] = f0
  BY DEF Follows
<1>3. D[<<h[m - 1], m>>] \in S
  BY <1>2
<1>4. g \in [a .. m -> S] /\ g[a] = f0
  BY <1>2, <1>3
<1>5. ASSUME NEW i \in a + 1 .. m
      PROVE  g[i] = D[<<g[i - 1], i>>]
  <2>1. CASE i = m
    <3>1. g[i] = D[<<h[m - 1], m>>] /\ g[m - 1] = h[m - 1]
      BY <2>1
    <3> HIDE DEF g
    <3> QED BY <2>1, <3>1
  <2>2. CASE i # m
    <3>1. i \in a + 1 .. m - 1 /\ i - 1 \in a .. m /\ i - 1 # m
      BY <2>2
    <3>2. g[i] = h[i] /\ g[i - 1] = h[i - 1]
      BY <2>2, <3>1
    <3>3. h[i] = D[<<h[i - 1], i>>]
      BY <3>1 DEF Follows
    <3> HIDE DEF g
    <3> QED BY <3>2, <3>3
  <2> QED BY <2>1, <2>2
<1> HIDE DEF g
<1>6. Follows(g, a, m, S, f0, D)
  BY <1>4, <1>5 DEF Follows
<1> QED BY <1>6

\* A recursive definition on an interval defines something.
LEMMA Recursion ==
  ASSUME NEW S, NEW f0 \in S, NEW D \in [S \X Int -> S],
         NEW a \in Int, NEW n \in Int, a <= n
  PROVE  \E h : Follows(h, a, n, S, f0, D)
<1> DEFINE T == {m \in Int : \E h : Follows(h, a, m, S, f0, D)}
<1>1. a \in T
  <2> DEFINE h == [i \in a .. a |-> f0]
  <2>1. Follows(h, a, a, S, f0, D)
    BY DEF Follows
  <2> HIDE DEF h
  <2> QED BY <2>1
<1>2. ASSUME NEW m \in a + 1 .. n, m - 1 \in T
      PROVE  m \in T
  <2>1. PICK h : Follows(h, a, m - 1, S, f0, D)
    BY <1>2
  <2>2. m \in Int /\ m > a
    OBVIOUS
  <2>3. \E g : Follows(g, a, m, S, f0, D)
    BY ZenonT(60), <2>1, <2>2, Extended
  <2> QED BY <2>2, <2>3
<1> HIDE DEF T
<1>3. n \in T
  <2>1. \A i \in a .. n : i \in T
    BY <1>1, <1>2, Induction
  <2> QED BY <2>1
<1> QED BY <1>3 DEF T

\* What a recursive definition defines is computed step by step.
LEMMA Computed ==
  ASSUME NEW S, NEW f0 \in S, NEW D \in [S \X Int -> S], NEW a \in Int, NEW n \in Int, a <= n,
         NEW f, f = [i \in a .. n |-> f[i]], f[a] = f0,
         \A i \in a + 1 .. n : f[i - 1] \in S => f[i] = D[<<f[i - 1], i>>]
  PROVE  Follows(f, a, n, S, f0, D)
<1> DEFINE T == {i \in a .. n : f[i] \in S}
<1>1. a \in T
  OBVIOUS
<1>2. ASSUME NEW i \in a + 1 .. n, i - 1 \in T
      PROVE  i \in T
  <2>1. f[i - 1] \in S
    BY <1>2
  <2>2. f[i] = D[<<f[i - 1], i>>]
    BY ZenonT(60), <2>1
  <2>3. D[<<f[i - 1], i>>] \in S
    BY <2>1
  <2> QED BY <2>2, <2>3
<1>3. \A i \in a .. n : i \in T
  <2> HIDE DEF T
  <2> QED BY <1>1, <1>2, Induction
<1>4. \A i \in a .. n : f[i] \in S
  BY <1>3
<1>5. f \in [a .. n -> S]
  BY <1>4
<1>6. ASSUME NEW i \in a + 1 .. n PROVE f[i] = D[<<f[i - 1], i>>]
  <2>1. i - 1 \in a .. n
    OBVIOUS
  <2> QED BY ZenonT(60), <1>4, <2>1
<1> QED BY ZenonT(60), <1>5, <1>6 DEF Follows

\* A recursive definition whose calls go forward, to nx[c] or nowhere, defines something.
Chained(h, n, Tok, pre, nx) ==
  /\ h \in [1 .. n -> Seq(Tok)]
  /\ \A c \in 1 .. n : h[c] = pre[c] \o IF nx[c] = 0 THEN <<>> ELSE h[nx[c]]

\* There is such a function.
LEMMA Chain ==
  ASSUME NEW Tok, NEW n \in Nat, NEW pre \in [1 .. n -> Seq(Tok)], NEW nx \in [1 .. n -> 0 .. n],
         \A c \in 1 .. n : nx[c] = 0 \/ nx[c] > c
  PROVE  \E h : Chained(h, n, Tok, pre, nx)
<1> DEFINE step(h, c) == pre[c] \o IF nx[c] = 0 THEN <<>> ELSE h[nx[c]]
           Good(h, k) == h \in [1 .. n -> Seq(Tok)] /\ \A c \in (n + 1) - k .. n : h[c] = step(h, c)
           T == {k \in 0 .. n : \E h : Good(h, k)}
<1>1. n \in Int /\ 0 \in Int /\ 0 \in 0 .. n /\ n \in 0 .. n
  OBVIOUS
<1>2. ASSUME NEW h \in [1 .. n -> Seq(Tok)], NEW c \in 1 .. n PROVE step(h, c) \in Seq(Tok)
  <2>1. pre[c] \in Seq(Tok)
    OBVIOUS
  <2>2. CASE nx[c] = 0
    BY <2>1, <2>2
  <2>3. CASE nx[c] # 0
    <3>1. h[nx[c]] \in Seq(Tok)
      BY SMTT(60), <2>3
    <3> QED BY <2>1, <2>3, <3>1
  <2> QED BY <2>2, <2>3
<1>3. 0 \in T
  <2> DEFINE h == [c \in 1 .. n |-> <<>>]
  <2>1. h \in [1 .. n -> Seq(Tok)]
    OBVIOUS
  <2>2. \A c \in (n + 1) - 0 .. n : h[c] = step(h, c)
    OBVIOUS
  <2> HIDE DEF h, step
  <2> QED BY ZenonT(60), <1>1, <2>1, <2>2
<1>4. ASSUME NEW k \in 0 + 1 .. n, k - 1 \in T PROVE k \in T
  <2>1. PICK h : Good(h, k - 1)
    BY ZenonT(60), <1>4
  <2>2. PICK m \in 1 .. n : m = (n + 1) - k /\ k \in 0 .. n
    <3>1. (n + 1) - k \in 1 .. n /\ k \in 0 .. n
      OBVIOUS
    <3> QED BY <3>1
  <2>3. \A c \in m .. n : c = m \/ c \in (n + 1) - (k - 1) .. n
    BY <2>2
  <2>4. ASSUME NEW c \in m .. n PROVE c \in 1 .. n /\ nx[c] # m /\ (nx[c] # 0 => nx[c] \in 1 .. n)
    <3>1. c \in 1 .. n
      OBVIOUS
    <3>2. PICK y \in 0 .. n : y = nx[c] /\ (y = 0 \/ y > c)
      BY <3>1
    <3>3. y # m /\ (y # 0 => y \in 1 .. n)
      BY SMTT(60), <3>2
    <3> QED BY <3>1, <3>2, <3>3
  <2> DEFINE g == [h EXCEPT ![m] = step(h, m)]
  <2> HIDE DEF step
  <2>5. h \in [1 .. n -> Seq(Tok)] /\ step(h, m) \in Seq(Tok)
    BY ZenonT(60), <1>2, <2>1
  <2>6. g \in [1 .. n -> Seq(Tok)] /\ g[m] = step(h, m) /\ \A c \in 1 .. n : c # m => g[c] = h[c]
    BY <2>5
  <2> HIDE DEF g
  <2>7. \A c \in m .. n : step(g, c) = step(h, c)
    <3>1. \A c \in m .. n : nx[c] # 0 => g[nx[c]] = h[nx[c]]
      BY ZenonT(60), <2>4, <2>6
    <3> QED BY ZenonT(60), <3>1 DEF step
  <2>8. \A c \in m .. n : g[c] = step(g, c)
    <3>1. \A c \in (n + 1) - (k - 1) .. n : h[c] = step(h, c)
      BY ZenonT(60), <2>1
    <3>2. ASSUME NEW c \in m .. n PROVE g[c] = step(g, c)
      <4>1. CASE c = m
        BY ZenonT(60), <2>6, <2>7, <4>1
      <4>2. CASE c # m
        BY ZenonT(60), <2>3, <2>4, <2>6, <2>7, <3>1, <4>2
      <4> QED BY <4>1, <4>2
    <3> QED BY <3>2
  <2>9. Good(g, k)
    BY ZenonT(60), <2>2, <2>6, <2>8
  <2> HIDE DEF Good
  <2> QED BY ZenonT(60), <2>2, <2>9
<1> HIDE DEF T
<1>5. \A k \in 0 .. n : k \in T
  BY ZenonT(60), <1>1, <1>3, <1>4, Induction
<1>6. PICK h : Good(h, n)
  BY ZenonT(60), <1>1, <1>5 DEF T
<1>7. \A c \in 1 .. n : c \in (n + 1) - n .. n
  OBVIOUS
<1>8. Chained(h, n, Tok, pre, nx)
  BY ZenonT(60), <1>6, <1>7 DEF Chained
<1> QED BY <1>8

----------------------------------------------------------------------------
(* Sequences.                                                              *)

Joined(v, u, p) ==
  /\ v = u \o p /\ Len(v) = Len(u) + Len(p)
  /\ \A k \in 1 .. Len(u) : v[k] = u[k]
  /\ \A k \in 1 .. Len(p) : v[Len(u) + k] = p[k]

\* Two sequences in one.
LEMMA Join ==
  ASSUME NEW Tok, NEW u \in Seq(Tok), NEW p \in Seq(Tok)
  PROVE  u \o p \in Seq(Tok) /\ Joined(u \o p, u, p)
BY DEF Joined

Moves(u, v, t) == Append(u \o v, t) = u \o Append(v, t)

\* Appending and joining may change places.
LEMMA AppendJoin ==
  ASSUME NEW Tok, NEW u \in Seq(Tok), NEW v \in Seq(Tok), NEW t \in Tok
  PROVE  Moves(u, v, t)
BY SMTT(60) DEF Moves

\* Joining is associative.
LEMMA JoinJoin ==
  ASSUME NEW Tok, NEW u \in Seq(Tok), NEW v \in Seq(Tok), NEW w \in Seq(Tok)
  PROVE  (u \o v) \o w = u \o (v \o w)
BY SMTT(60)

\* Nothing is added by the empty sequence.
LEMMA JoinEmpty ==
  ASSUME NEW Tok, NEW u \in Seq(Tok)
  PROVE  <<>> \o u = u /\ u \o <<>> = u
OBVIOUS

\* u is the beginning of v.
Begins(u, v) == Len(u) <= Len(v) /\ \A k \in 1 .. Len(u) : v[k] = u[k]

\* What is written only grows.
LEMMA Prefixes ==
  ASSUME NEW Tok, NEW n \in Nat, NEW e \in [0 .. n -> Seq(Tok)],
         \A i \in 1 .. n : Begins(e[i - 1], e[i])
  PROVE  \A i \in 0 .. n : Begins(e[i], e[n])
<1> DEFINE T == {j \in 0 .. n : Begins(e[n - j], e[n])}
<1>1. \A i \in 0 .. n : Len(e[i]) \in Nat
  OBVIOUS
<1>2. n \in Int /\ 0 \in Int /\ n - 0 = n /\ 0 \in 0 .. n /\ n \in 0 .. n
  OBVIOUS
<1>3. 0 \in T
  BY <1>1, <1>2 DEF Begins
<1>4. ASSUME NEW j \in 0 + 1 .. n, j - 1 \in T PROVE j \in T
  <2>1. PICK i \in 1 .. n : i = n - (j - 1) /\ i - 1 = n - j /\ j \in 0 .. n
    <3>1. n - (j - 1) \in 1 .. n /\ (n - (j - 1)) - 1 = n - j /\ j \in 0 .. n
      OBVIOUS
    <3> QED BY <3>1
  <2>2. Begins(e[i], e[n]) /\ Begins(e[i - 1], e[i])
    BY <1>4, <2>1
  <2>3. Len(e[i - 1]) \in Nat /\ Len(e[i]) \in Nat /\ Len(e[n]) \in Nat
    BY <1>1, <1>2
  <2>4. Begins(e[i - 1], e[n])
    BY <2>2, <2>3 DEF Begins
  <2> QED BY <2>1, <2>4
<1>5. \A j \in 0 .. n : j \in T
  <2> HIDE DEF T
  <2> QED BY ZenonT(60), <1>2, <1>3, <1>4, Induction
<1>6. ASSUME NEW i \in 0 .. n PROVE Begins(e[i], e[n])
  <2>1. n - i \in 0 .. n /\ n - (n - i) = i
    OBVIOUS
  <2>2. Begins(e[n - (n - i)], e[n])
    BY ZenonT(60), <1>5, <2>1
  <2> QED BY <2>1, <2>2
<1> QED BY <1>6

----------------------------------------------------------------------------
(* CDATA sections: the escape of rewriteToolMessage.                       *)

Ends(s, i) == s[i] = ">" /\ i > 2 /\ s[i - 1] = "]" /\ s[i - 2] = "]"

\* The parts of an escaped text: e[i] stands for the first i tokens.
Escaping(e, s, Tok) ==
  /\ e \in [0 .. Len(s) -> Seq(Tok)]
  /\ e[0] = <<>>
  /\ \A i \in 1 .. Len(s) :
       e[i] = IF Ends(s, i) THEN e[i - 1] \o CDataEnd \o <<CDataOpen, s[i]>> ELSE Append(e[i - 1], s[i])

\* EscapeCData is computed token by token.
LEMMA EscapeSteps ==
  ASSUME NEW Tok, {"]", ">", CDataOpen} \subseteq Tok, NEW s \in Seq(Tok)
  PROVE  \E e : Escaping(e, s, Tok) /\ e[Len(s)] = EscapeCData(s)
<1> DEFINE n == Len(s)
           S == Seq(Tok)
           step(x, i) == IF Ends(s, i) THEN x \o CDataEnd \o <<CDataOpen, s[i]>> ELSE Append(x, s[i])
           D == [p \in S \X Int |-> IF p[2] \in 1 .. n THEN step(p[1], p[2]) ELSE p[1]]
           upTo[i \in 0 .. n] ==
             IF i = 0 THEN <<>>
             ELSE IF s[i] = ">" /\ i > 2 /\ s[i - 1] = "]" /\ s[i - 2] = "]"
             THEN upTo[i - 1] \o CDataEnd \o <<CDataOpen, s[i]>>
             ELSE Append(upTo[i - 1], s[i])
<1> HIDE DEF upTo
<1>1. n \in Int /\ 0 <= n /\ 0 \in Int /\ 0 + 1 = 1 /\ <<>> \in S
  OBVIOUS
<1>2. ASSUME NEW x \in S, NEW i \in 1 .. n PROVE step(x, i) \in S
  <2>1. s[i] \in Tok
    OBVIOUS
  <2>2. CDataEnd \in S /\ <<CDataOpen, s[i]>> \in S
    BY <2>1 DEF CDataEnd
  <2> HIDE DEF n, D
  <2>3. x \o CDataEnd \in S /\ Append(x, s[i]) \in S
    BY <2>1, <2>2
  <2>4. (x \o CDataEnd) \o <<CDataOpen, s[i]>> \in S
    BY <2>2, <2>3
  <2> QED BY <2>3, <2>4
<1> HIDE DEF step, S
<1>3. D \in [S \X Int -> S]
  BY <1>2
<1>4. \A x \in S, i \in 1 .. n : D[<<x, i>>] = step(x, i)
  BY SMTT(60)
<1> HIDE DEF D, n
<1>5. upTo = [i \in 0 .. n |-> IF i = 0 THEN <<>> ELSE step(upTo[i - 1], i)]
  <2>1. PICK h : Follows(h, 0, n, S, <<>>, D)
    BY ZenonT(60), <1>1, <1>3, Recursion
  <2>2. h \in [0 .. n -> S] /\ h[0] = <<>> /\ \A i \in 1 .. n : h[i] = D[<<h[i - 1], i>>]
    BY ZenonT(60), <1>1, <2>1 DEF Follows
  <2>3. \A i \in 1 .. n : h[i - 1] \in S
    BY <1>1, <2>2
  <2>4. \A i \in 1 .. n : h[i] = step(h[i - 1], i)
    BY ZenonT(60), <1>4, <2>2, <2>3
  <2>5. \A i \in 0 .. n : i # 0 => i \in 1 .. n
    BY <1>1
  <2>6. h = [i \in 0 .. n |-> IF i = 0 THEN <<>> ELSE step(h[i - 1], i)]
    BY ZenonT(60), <2>2, <2>4, <2>5
  <2> QED BY ZenonT(60), <2>6 DEF step, Ends, upTo
<1>6. Follows(upTo, 0, n, S, <<>>, D)
  <2>1. upTo = [i \in 0 .. n |-> upTo[i]] /\ upTo[0] = <<>>
    BY <1>1, <1>5
  <2>2. ASSUME NEW i \in 0 + 1 .. n, upTo[i - 1] \in S PROVE upTo[i] = D[<<upTo[i - 1], i>>]
    <3>1. i \in 1 .. n /\ i \in 0 .. n /\ i # 0
      BY <1>1
    <3>2. upTo[i] = step(upTo[i - 1], i)
      BY ZenonT(60), <1>5, <3>1
    <3> QED BY ZenonT(60), <1>4, <2>2, <3>1, <3>2
  <2> QED BY ZenonT(60), <1>1, <1>3, <2>1, <2>2, Computed
<1>7. upTo \in [0 .. n -> S] /\ upTo[0] = <<>>
  BY ZenonT(60), <1>6 DEF Follows
<1>8. ASSUME NEW i \in 1 .. n PROVE upTo[i] = step(upTo[i - 1], i)
  <2>1. i \in 0 .. n /\ i # 0
    BY <1>1
  <2> QED BY ZenonT(60), <1>5, <2>1
<1>9. EscapeCData(s) = upTo[Len(s)]
  BY DEF EscapeCData, upTo, n
<1>10. Escaping(upTo, s, Tok)
  BY ZenonT(60), <1>7, <1>8 DEF Escaping, step, n, S
<1> QED BY ZenonT(60), <1>9, <1>10

\* The states of the reader.
ReaderState(Tok) == [open : BOOLEAN, run : Nat, text : Seq(Tok)]

\* The reader's states have their types.
LEMMA ReadTokenType ==
  ASSUME NEW Tok, NEW st \in ReaderState(Tok), NEW t \in Tok
  PROVE  ReadToken(st, t) \in ReaderState(Tok)
<1>1. st.open \in BOOLEAN /\ st.run \in Nat /\ st.text \in Seq(Tok)
  BY DEF ReaderState
<1>2. SubSeq(st.text, 1, Len(st.text) - 2) \in Seq(Tok) /\ Append(st.text, t) \in Seq(Tok)
  BY <1>1
<1>3. [st EXCEPT !.open = TRUE, !.run = 0] \in ReaderState(Tok)
  BY ZenonT(60), <1>1 DEF ReaderState
<1>4. [open |-> FALSE, run |-> 0, text |-> SubSeq(st.text, 1, Len(st.text) - 2)] \in ReaderState(Tok)
  BY <1>2 DEF ReaderState
<1>5. [st EXCEPT !.run = IF t = "]" THEN @ + 1 ELSE 0, !.text = Append(@, t)] \in ReaderState(Tok)
  <2>1. PICK v \in Nat : v = IF t = "]" THEN st.run + 1 ELSE 0
    BY <1>1
  <2>2. PICK w \in Seq(Tok) : w = Append(st.text, t)
    BY ZenonT(60), <1>2
  <2>3. [st EXCEPT !.run = v, !.text = w] \in ReaderState(Tok)
    BY ZenonT(60), <1>1 DEF ReaderState
  <2> QED BY ZenonT(60), <2>1, <2>2, <2>3
<1>6. \/ ReadToken(st, t) = [st EXCEPT !.open = TRUE, !.run = 0]
      \/ ReadToken(st, t) = [open |-> FALSE, run |-> 0, text |-> SubSeq(st.text, 1, Len(st.text) - 2)]
      \/ ReadToken(st, t) = [st EXCEPT !.run = IF t = "]" THEN @ + 1 ELSE 0, !.text = Append(@, t)]
  BY DEF ReadToken
<1> QED BY ZenonT(60), <1>3, <1>4, <1>5, <1>6

Reading(r, s, Tok) ==
  /\ r \in [0 .. Len(s) -> ReaderState(Tok)]
  /\ r[0] = [open |-> FALSE, run |-> 0, text |-> <<>>]
  /\ \A i \in 1 .. Len(s) : r[i] = ReadToken(r[i - 1], s[i])

\* ReadCData is computed token by token.
LEMMA ReadSteps ==
  ASSUME NEW Tok, NEW s \in Seq(Tok)
  PROVE  \E r : Reading(r, s, Tok) /\ r[Len(s)] = ReadCData(s)
<1> DEFINE n == Len(s)
           S == ReaderState(Tok)
           f0 == [open |-> FALSE, run |-> 0, text |-> <<>>]
           D == [p \in S \X Int |-> IF p[2] \in 1 .. n THEN ReadToken(p[1], s[p[2]]) ELSE p[1]]
           upTo[i \in 0 .. n] ==
             IF i = 0 THEN [open |-> FALSE, run |-> 0, text |-> <<>>]
                      ELSE ReadToken(upTo[i - 1], s[i])
<1> HIDE DEF upTo
<1>1. n \in Int /\ 0 <= n /\ 0 \in Int /\ 0 + 1 = 1
  OBVIOUS
<1>2. f0 \in S
  BY DEF ReaderState
<1>3. \A i \in 1 .. n : s[i] \in Tok
  OBVIOUS
<1> HIDE DEF n, S, f0
<1>4. D \in [S \X Int -> S]
  BY <1>3, ReadTokenType DEF S
<1>5. \A x \in S, i \in 1 .. n : D[<<x, i>>] = ReadToken(x, s[i])
  BY <1>1
<1> HIDE DEF D
<1>6. upTo = [i \in 0 .. n |-> IF i = 0 THEN f0 ELSE ReadToken(upTo[i - 1], s[i])]
  <2>1. PICK h : Follows(h, 0, n, S, f0, D)
    BY ZenonT(60), <1>1, <1>2, <1>4, Recursion
  <2>2. h \in [0 .. n -> S] /\ h[0] = f0 /\ \A i \in 1 .. n : h[i] = D[<<h[i - 1], i>>]
    BY ZenonT(60), <1>1, <2>1 DEF Follows
  <2>3. \A i \in 1 .. n : h[i - 1] \in S
    BY <1>1, <2>2
  <2>4. \A i \in 1 .. n : h[i] = ReadToken(h[i - 1], s[i])
    BY ZenonT(60), <1>5, <2>2, <2>3
  <2>5. \A i \in 0 .. n : i # 0 => i \in 1 .. n
    BY <1>1
  <2>6. h = [i \in 0 .. n |-> IF i = 0 THEN f0 ELSE ReadToken(h[i - 1], s[i])]
    BY ZenonT(60), <2>2, <2>4, <2>5
  <2> QED BY ZenonT(60), <2>6 DEF f0, upTo
<1>7. ASSUME NEW i \in 1 .. n PROVE upTo[i] = ReadToken(upTo[i - 1], s[i])
  <2>1. i \in 0 .. n /\ i # 0
    BY <1>1
  <2> QED BY ZenonT(60), <1>6, <2>1
<1>8. Follows(upTo, 0, n, S, f0, D)
  <2>1. upTo = [i \in 0 .. n |-> upTo[i]] /\ upTo[0] = f0
    BY <1>1, <1>6
  <2>2. ASSUME NEW i \in 0 + 1 .. n, upTo[i - 1] \in S PROVE upTo[i] = D[<<upTo[i - 1], i>>]
    BY ZenonT(60), <1>1, <1>5, <1>7, <2>2
  <2> QED BY ZenonT(60), <1>1, <1>2, <1>4, <2>1, <2>2, Computed
<1>9. upTo \in [0 .. n -> S] /\ upTo[0] = f0
  BY ZenonT(60), <1>8 DEF Follows
<1>10. ReadCData(s) = upTo[n]
  BY DEF ReadCData, upTo, n
<1>11. Reading(upTo, s, Tok)
  BY ZenonT(60), <1>7, <1>9 DEF Reading, n, S, f0
<1> QED BY ZenonT(60), <1>10, <1>11 DEF n

\* Outside of a section its opening token opens one.
LEMMA ReadOpen ==
  ASSUME NEW x
  PROVE  ReadToken([open |-> FALSE, run |-> 0, text |-> x], CDataOpen) =
           [open |-> TRUE, run |-> 0, text |-> x]
BY ZenonT(60) DEF ReadToken

\* Inside a section a token is part of the text, unless it ends the section.
LEMMA ReadPlain ==
  ASSUME NEW Tok, NEW st \in ReaderState(Tok), NEW t \in Tok, st.open, ~(t = ">" /\ st.run >= 2)
  PROVE  ReadToken(st, t) =
           [open |-> TRUE, run |-> IF t = "]" THEN st.run + 1 ELSE 0, text |-> Append(st.text, t)]
<1>1. st = [open |-> TRUE, run |-> st.run, text |-> st.text]
  BY DEF ReaderState
<1>2. ReadToken(st, t) = [st EXCEPT !.run = IF t = "]" THEN @ + 1 ELSE 0, !.text = Append(@, t)]
  BY DEF ReadToken
<1> QED BY ZenonT(60), <1>1, <1>2 DEF ReaderState

\* "]]>" ends a section, and is not part of the text.
LEMMA ReadEnd ==
  ASSUME NEW Tok, {"]", ">", CDataOpen} \subseteq Tok, NEW st \in ReaderState(Tok), st.open
  PROVE  ReadToken(ReadToken(ReadToken(st, "]"), "]"), ">") = [open |-> FALSE, run |-> 0, text |-> st.text]
<1>1. st.run \in Nat /\ st.text \in Seq(Tok) /\ "]" \in Tok /\ ">" \in Tok
  BY DEF ReaderState
<1>2. "]" # ">"
  OBVIOUS
<1>3. PICK a \in ReaderState(Tok) : a = ReadToken(st, "]")
  BY <1>1, ReadTokenType
<1>4. a.open /\ a.run = st.run + 1 /\ a.text = Append(st.text, "]")
  <2>1. a = [open |-> TRUE, run |-> IF "]" = "]" THEN st.run + 1 ELSE 0, text |-> Append(st.text, "]")]
    BY ZenonT(60), <1>1, <1>2, <1>3, ReadPlain
  <2> QED BY <2>1
<1>5. PICK b \in ReaderState(Tok) : b = ReadToken(a, "]")
  BY <1>1, ReadTokenType
<1>6. b.open /\ b.run = a.run + 1 /\ b.text = Append(a.text, "]")
  <2>1. b = [open |-> TRUE, run |-> IF "]" = "]" THEN a.run + 1 ELSE 0, text |-> Append(a.text, "]")]
    BY ZenonT(60), <1>1, <1>2, <1>4, <1>5, ReadPlain
  <2> QED BY <2>1
<1>7. b.run >= 2
  BY <1>1, <1>4, <1>6
<1>8. ReadToken(b, ">") = [open |-> FALSE, run |-> 0, text |-> SubSeq(b.text, 1, Len(b.text) - 2)]
  BY SMTT(60), <1>6, <1>7 DEF ReadToken
<1>9. SubSeq(b.text, 1, Len(b.text) - 2) = st.text
  <2>1. PICK u \in Seq(Tok) : u = st.text
    BY <1>1
  <2>2. b.text = Append(Append(u, "]"), "]")
    BY <1>4, <1>6, <2>1
  <2>3. Len(Append(Append(u, "]"), "]")) = Len(u) + 2
    BY <1>1
  <2>4. SubSeq(Append(Append(u, "]"), "]"), 1, Len(u)) = u
    BY <1>1
  <2> QED BY <2>1, <2>2, <2>3, <2>4
<1> QED BY ZenonT(60), <1>3, <1>5, <1>8, <1>9

\* What ReplaceAll puts in the place of ">" reads as ">".
LEMMA ReadEscape ==
  ASSUME NEW Tok, {"]", ">", CDataOpen} \subseteq Tok, NEW st \in ReaderState(Tok), st.open
  PROVE  ReadToken(ReadToken(ReadToken(ReadToken(ReadToken(st, "]"), "]"), ">"), CDataOpen), ">") =
           [open |-> TRUE, run |-> 0, text |-> Append(st.text, ">")]
<1>1. st.text \in Seq(Tok) /\ CDataOpen \in Tok /\ ">" \in Tok
  BY DEF ReaderState
<1>2. PICK c \in ReaderState(Tok) : c = [open |-> FALSE, run |-> 0, text |-> st.text]
  BY ZenonT(60), <1>1 DEF ReaderState
<1>3. ReadToken(ReadToken(ReadToken(st, "]"), "]"), ">") = c
  BY <1>2, ReadEnd
<1>4. PICK d \in ReaderState(Tok) : d = [open |-> TRUE, run |-> 0, text |-> st.text]
  <2>1. [open |-> TRUE, run |-> 0, text |-> st.text] \in ReaderState(Tok)
    BY <1>1 DEF ReaderState
  <2> QED BY ZenonT(60), <2>1
<1>5. ReadToken(c, CDataOpen) = d
  BY ZenonT(60), <1>2, <1>4, ReadOpen
<1>6. d.open /\ d.run = 0 /\ d.text = st.text
  BY <1>4
<1>7. ReadToken(d, ">") = [open |-> TRUE, run |-> 0, text |-> Append(st.text, ">")]
  BY SMTT(60), <1>1, <1>6, ReadPlain
<1> QED BY <1>3, <1>5, <1>7

\* v is u with one token more, or with what is put in the place of an end.
Grown(v, u, t, ends, Tok) ==
  /\ u \in Seq(Tok) /\ v \in Seq(Tok) /\ Len(u) \in Nat /\ Len(v) \in Nat
  /\ Begins(u, v)
  /\ ~ends => Len(v) = Len(u) + 1 /\ v[Len(u) + 1] = t
  /\ ends => /\ Len(v) = Len(u) + 5
             /\ v[Len(u) + 1] = "]" /\ v[Len(u) + 2] = "]" /\ v[Len(u) + 3] = ">"
             /\ v[Len(u) + 4] = CDataOpen /\ v[Len(u) + 5] = t

\* Each step keeps what was written.
LEMMA EscapeGrows ==
  ASSUME NEW Tok, {"]", ">", CDataOpen} \subseteq Tok, NEW s \in Seq(Tok), NEW e,
         Escaping(e, s, Tok), NEW i \in 1 .. Len(s)
  PROVE  Grown(e[i], e[i - 1], s[i], Ends(s, i), Tok)
<1>1. PICK u \in Seq(Tok) : u = e[i - 1]
  BY DEF Escaping
<1>2. e[i] \in Seq(Tok) /\ s[i] \in Tok
  BY SMTT(60) DEF Escaping
<1>3. PICK t \in Tok : t = s[i]
  BY <1>2
<1>4. e[i] = IF Ends(s, i) THEN u \o CDataEnd \o <<CDataOpen, t>> ELSE Append(u, t)
  BY ZenonT(60), <1>1, <1>3 DEF Escaping
<1>5. CASE ~Ends(s, i)
  <2>1. e[i] = Append(u, t)
    BY <1>4, <1>5
  <2>2. Grown(Append(u, t), u, t, FALSE, Tok)
    BY DEF Grown, Begins
  <2> QED BY ZenonT(60), <1>1, <1>3, <1>5, <2>1, <2>2 DEF Grown
<1>6. CASE Ends(s, i)
  <2>1. /\ <<"]", "]", ">">> \in Seq(Tok) /\ <<CDataOpen, t>> \in Seq(Tok)
        /\ Len(<<"]", "]", ">">>) = 3 /\ Len(<<CDataOpen, t>>) = 2
        /\ 1 \in 1 .. 2 /\ 2 \in 1 .. 2 /\ 1 \in 1 .. 3 /\ 2 \in 1 .. 3 /\ 3 \in 1 .. 3
    OBVIOUS
  <2>2. PICK p \in Seq(Tok) : p = <<"]", "]", ">">>
    BY ZenonT(60), <2>1
  <2>3. PICK q \in Seq(Tok) : q = <<CDataOpen, t>>
    BY ZenonT(60), <2>1
  <2>4. /\ Len(p) = 3 /\ p[1] = "]" /\ p[2] = "]" /\ p[3] = ">"
        /\ Len(q) = 2 /\ q[1] = CDataOpen /\ q[2] = t
    BY <2>2, <2>3
  <2>5. PICK v \in Seq(Tok) : Joined(v, u, p)
    BY ZenonT(60), Join
  <2>6. PICK w \in Seq(Tok) : Joined(w, v, q)
    BY ZenonT(60), Join
  <2>7. PICK l \in Nat : l = Len(u)
    OBVIOUS
  <2>8. v[l + 1] = "]" /\ v[l + 2] = "]" /\ v[l + 3] = ">"
    BY ZenonT(60), <2>1, <2>4, <2>5, <2>7 DEF Joined
  <2>9. w[Len(v) + 1] = CDataOpen /\ w[Len(v) + 2] = t
    BY ZenonT(60), <2>1, <2>4, <2>6 DEF Joined
  <2>10. /\ Len(v) = l + 3 /\ Len(w) = l + 5 /\ Len(v) + 1 = l + 4 /\ Len(v) + 2 = l + 5
         /\ l + 1 \in 1 .. Len(v) /\ l + 2 \in 1 .. Len(v) /\ l + 3 \in 1 .. Len(v)
         /\ \A k \in 1 .. l : k \in 1 .. Len(v)
    BY SMTT(60), <2>4, <2>5, <2>6, <2>7 DEF Joined
  <2>11. /\ w[l + 1] = "]" /\ w[l + 2] = "]" /\ w[l + 3] = ">"
         /\ w[l + 4] = CDataOpen /\ w[l + 5] = t
         /\ \A k \in 1 .. l : w[k] = u[k]
    BY ZenonT(60), <2>5, <2>6, <2>7, <2>8, <2>9, <2>10 DEF Joined
  <2>12. Len(w) \in Nat /\ l <= Len(w)
    BY <2>10
  <2>13. Grown(w, u, t, TRUE, Tok)
    BY ZenonT(60), <2>7, <2>10, <2>11, <2>12 DEF Grown, Begins
  <2>14. e[i] = w
    BY ZenonT(60), <1>4, <1>6, <2>2, <2>3, <2>5, <2>6 DEF CDataEnd, Joined
  <2> QED BY ZenonT(60), <1>1, <1>3, <1>6, <2>13, <2>14 DEF Grown
<1> QED BY <1>5, <1>6

\* The reader has the first i tokens of s, and has counted the brackets at their end.
Mirrors(st, s, i) ==
  /\ st.open
  /\ st.text = SubSeq(s, 1, i)
  /\ st.run >= 1 <=> i >= 1 /\ s[i] = "]"
  /\ st.run >= 2 <=> i >= 2 /\ s[i] = "]" /\ s[i - 1] = "]"

\* One token more of s.
LEMMA OneMore ==
  ASSUME NEW Tok, NEW s \in Seq(Tok), NEW i \in 1 .. Len(s)
  PROVE  Append(SubSeq(s, 1, i - 1), s[i]) = SubSeq(s, 1, i)
OBVIOUS

\* A token that is left as it is keeps the reader in step.
LEMMA MirrorsPlain ==
  ASSUME NEW Tok, NEW s \in Seq(Tok), NEW i \in 1 .. Len(s), ~Ends(s, i),
         NEW st \in ReaderState(Tok), Mirrors(st, s, i - 1)
  PROVE  Mirrors(ReadToken(st, s[i]), s, i)
<1>1. s[i] \in Tok /\ st.run \in Nat
  BY DEF ReaderState
<1>2. ~(s[i] = ">" /\ st.run >= 2)
  BY DEF Ends, Mirrors
<1>3. st.open /\ st.text = SubSeq(s, 1, i - 1)
  BY DEF Mirrors
<1>4. PICK u : u = ReadToken(st, s[i])
  OBVIOUS
<1>5. u = [open |-> TRUE, run |-> IF s[i] = "]" THEN st.run + 1 ELSE 0, text |-> Append(st.text, s[i])]
  BY ZenonT(60), <1>1, <1>2, <1>3, <1>4, ReadPlain
<1>6. u.open /\ u.text = SubSeq(s, 1, i) /\ u.run = IF s[i] = "]" THEN st.run + 1 ELSE 0
  BY <1>3, <1>5, OneMore
<1>7. /\ u.run >= 1 <=> s[i] = "]"
      /\ u.run >= 2 <=> s[i] = "]" /\ st.run >= 1
  BY <1>1, <1>6
<1>8. st.run >= 1 <=> i >= 2 /\ s[i - 1] = "]"
  BY DEF Mirrors
<1> QED BY <1>4, <1>6, <1>7, <1>8 DEF Mirrors

\* So does the end of a section with what is put before it.
LEMMA MirrorsEscape ==
  ASSUME NEW Tok, {"]", ">", CDataOpen} \subseteq Tok, NEW s \in Seq(Tok), NEW i \in 1 .. Len(s),
         Ends(s, i), NEW st \in ReaderState(Tok), Mirrors(st, s, i - 1)
  PROVE  Mirrors(ReadToken(ReadToken(ReadToken(ReadToken(ReadToken(st, "]"), "]"), ">"), CDataOpen), s[i]), s, i)
<1>1. st.open /\ st.text = SubSeq(s, 1, i - 1) /\ s[i] = ">"
  BY DEF Mirrors, Ends
<1>2. PICK u : u = ReadToken(ReadToken(ReadToken(ReadToken(ReadToken(st, "]"), "]"), ">"), CDataOpen), s[i])
  OBVIOUS
<1>3. u = [open |-> TRUE, run |-> 0, text |-> Append(st.text, ">")]
  BY ZenonT(60), <1>1, <1>2, ReadEscape
<1>4. u.open /\ u.text = SubSeq(s, 1, i) /\ u.run = 0
  BY <1>1, <1>3, OneMore
<1>5. Mirrors(u, s, i)
  BY <1>1, <1>4 DEF Mirrors
<1> QED BY <1>2, <1>5

\* A document: what stands in it.
LEMMA Document ==
  ASSUME NEW Tok, {"]", ">", CDataOpen} \subseteq Tok, NEW E \in Seq(Tok)
  PROVE  \E x \in Seq(Tok) : /\ x = <<CDataOpen>> \o E \o CDataEnd
                             /\ Len(x) = Len(E) + 4
                             /\ x[1] = CDataOpen /\ \A k \in 1 .. Len(E) : x[1 + k] = E[k]
                             /\ x[Len(E) + 2] = "]" /\ x[Len(E) + 3] = "]" /\ x[Len(E) + 4] = ">"
<1>1. /\ <<CDataOpen>> \in Seq(Tok) /\ <<"]", "]", ">">> \in Seq(Tok)
      /\ Len(<<CDataOpen>>) = 1 /\ Len(<<"]", "]", ">">>) = 3
      /\ 1 \in 1 .. 1 /\ 1 \in 1 .. 3 /\ 2 \in 1 .. 3 /\ 3 \in 1 .. 3
  OBVIOUS
<1>2. PICK p \in Seq(Tok) : p = <<CDataOpen>>
  BY ZenonT(60), <1>1
<1>3. PICK q \in Seq(Tok) : q = <<"]", "]", ">">>
  BY ZenonT(60), <1>1
<1>4. Len(p) = 1 /\ p[1] = CDataOpen /\ Len(q) = 3 /\ q[1] = "]" /\ q[2] = "]" /\ q[3] = ">"
  BY <1>2, <1>3
<1>5. PICK v \in Seq(Tok) : Joined(v, p, E)
  BY ZenonT(60), Join
<1>6. PICK x \in Seq(Tok) : Joined(x, v, q)
  BY ZenonT(60), Join
<1>7. PICK l \in Nat : l = Len(E)
  OBVIOUS
<1>8. /\ Len(v) = l + 1 /\ Len(x) = l + 4 /\ 1 \in 1 .. Len(v)
      /\ Len(v) + 1 = l + 2 /\ Len(v) + 2 = l + 3 /\ Len(v) + 3 = l + 4
      /\ \A k \in 1 .. l : 1 + k \in 1 .. Len(v)
  BY SMTT(60), <1>4, <1>5, <1>6, <1>7 DEF Joined
<1>9. v[1] = CDataOpen /\ \A k \in 1 .. l : v[1 + k] = E[k]
  BY ZenonT(60), <1>1, <1>4, <1>5, <1>7 DEF Joined
<1>10. x[1] = CDataOpen /\ \A k \in 1 .. l : x[1 + k] = E[k]
  BY ZenonT(60), <1>6, <1>8, <1>9 DEF Joined
<1>11. x[Len(v) + 1] = "]" /\ x[Len(v) + 2] = "]" /\ x[Len(v) + 3] = ">"
  BY ZenonT(60), <1>1, <1>4, <1>6 DEF Joined
<1>12. x = <<CDataOpen>> \o E \o CDataEnd
  BY ZenonT(60), <1>2, <1>3, <1>5, <1>6 DEF Joined, CDataEnd
<1> QED BY ZenonT(60), <1>7, <1>8, <1>10, <1>11, <1>12

\* rewriteToolMessage: a tool's result comes back as it was, whatever brackets and
\* sections are in it.  The escape of the history's tool results loses nothing and
\* adds nothing that a reader sees.
THEOREM ResultReadsBack ==
  ASSUME NEW Tok, {"]", ">", CDataOpen} \subseteq Tok, NEW s \in Seq(Tok)
  PROVE  ReadCData(<<CDataOpen>> \o EscapeCData(s) \o CDataEnd) = [open |-> FALSE, run |-> 0, text |-> s]
<1>1. PICK e : Escaping(e, s, Tok) /\ e[Len(s)] = EscapeCData(s)
  BY ZenonT(60), EscapeSteps
<1>2. PICK n \in Nat : n = Len(s)
  OBVIOUS
<1>3. PICK E \in Seq(Tok) : E = e[n] /\ E = EscapeCData(s)
  <2>1. e[n] \in Seq(Tok)
    BY <1>1, <1>2 DEF Escaping
  <2> QED BY ZenonT(60), <1>1, <1>2, <2>1
<1>4. PICK L \in Nat : L = Len(E)
  OBVIOUS
<1>5. PICK x \in Seq(Tok) :
        /\ x = <<CDataOpen>> \o E \o CDataEnd
        /\ Len(x) = L + 4
        /\ x[1] = CDataOpen /\ \A k \in 1 .. L : x[1 + k] = E[k]
        /\ x[L + 2] = "]" /\ x[L + 3] = "]" /\ x[L + 4] = ">"
  BY ZenonT(60), <1>4, Document
<1>6. PICK r : Reading(r, x, Tok) /\ r[Len(x)] = ReadCData(x)
  BY ZenonT(60), ReadSteps
<1>7. /\ r \in [0 .. L + 4 -> ReaderState(Tok)]
      /\ r[0] = [open |-> FALSE, run |-> 0, text |-> <<>>] /\ r[L + 4] = ReadCData(x)
      /\ \A i \in 1 .. L + 4 : r[i] = ReadToken(r[i - 1], x[i])
  BY ZenonT(60), <1>5, <1>6 DEF Reading
<1> DEFINE At(i) == Len(e[i])
           T == {i \in 0 .. n : Mirrors(r[1 + At(i)], s, i)}
<1>8. ASSUME NEW i \in 0 .. n
      PROVE  /\ At(i) \in Nat /\ At(i) <= L /\ \A k \in 1 .. At(i) : E[k] = e[i][k]
  <2>1. e[i] \in Seq(Tok)
    BY ZenonT(60), <1>1, <1>2 DEF Escaping
  <2>2. At(i) <= L /\ \A k \in 1 .. At(i) : E[k] = e[i][k]
    <3>1. e \in [0 .. n -> Seq(Tok)]
      BY ZenonT(60), <1>1, <1>2 DEF Escaping
    <3>2. \A j \in 1 .. n : Grown(e[j], e[j - 1], s[j], Ends(s, j), Tok)
      BY ZenonT(60), <1>1, <1>2, EscapeGrows
    <3>3. \A j \in 1 .. n : Begins(e[j - 1], e[j])
      BY ZenonT(60), <3>2 DEF Grown
    <3>4. Begins(e[i], e[n])
      BY ZenonT(60), <3>1, <3>3, Prefixes
    <3> QED BY ZenonT(60), <1>3, <1>4, <3>4 DEF Begins
  <2> QED BY <2>1, <2>2
<1>9. 0 \in T
  <2>1. At(0) = 0 /\ 0 \in 0 .. n
    BY <1>1 DEF Escaping
  <2>2. r[1] = ReadToken(r[0], x[1])
    BY <1>7
  <2>3. r[1] = [open |-> TRUE, run |-> 0, text |-> <<>>]
    BY ZenonT(60), <1>5, <1>7, <2>2, ReadOpen
  <2>4. SubSeq(s, 1, 0) = <<>>
    OBVIOUS
  <2>5. Mirrors(r[1], s, 0)
    BY <2>3, <2>4 DEF Mirrors
  <2> QED BY <2>1, <2>5
<1>10. ASSUME NEW i \in 0 + 1 .. n, i - 1 \in T PROVE i \in T
  <2>1. i \in 1 .. Len(s) /\ i \in 0 .. n /\ i - 1 \in 0 .. n
    BY <1>2
  <2>2. Grown(e[i], e[i - 1], s[i], Ends(s, i), Tok)
    BY ZenonT(60), <1>1, <2>1, EscapeGrows
  <2>3. PICK l \in Nat : l = At(i - 1)
    BY <1>8, <2>1
  <2>4. PICK m \in Nat : m = At(i) /\ m <= L /\ \A k \in 1 .. m : E[k] = e[i][k]
    BY SMTT(60), <1>8, <2>1
  <2>5. ASSUME NEW k \in 1 .. m
        PROVE  r[1 + k] = ReadToken(r[k], e[i][k])
    <3>1. 1 + k \in 1 .. L + 4 /\ (1 + k) - 1 = k /\ k \in 1 .. L
      <4>1. m <= L
        BY ZenonT(60), <2>4
      <4> QED BY <4>1
    <3>2. x[1 + k] = e[i][k]
      BY ZenonT(60), <1>5, <2>4, <3>1
    <3>3. r[1 + k] = ReadToken(r[(1 + k) - 1], x[1 + k])
      BY <1>7, <3>1
    <3> QED BY <3>1, <3>2, <3>3
  <2>6. PICK st \in ReaderState(Tok) : st = r[1 + l]
    <3>1. 1 + l \in 0 .. L + 4
      BY SMTT(60), <1>8, <2>1, <2>3
    <3> QED BY <1>7, <3>1
  <2>7. Mirrors(st, s, i - 1)
    BY <1>10, <2>3, <2>6
  <2>8. CASE ~Ends(s, i)
    <3>1. m = l + 1 /\ e[i][l + 1] = s[i] /\ l + 1 \in 1 .. m /\ l + 1 = 1 + l
      <4>1. m = l + 1 /\ e[i][l + 1] = s[i]
        BY ZenonT(60), <2>2, <2>3, <2>4, <2>8 DEF Grown
      <4>2. m = l + 1
        BY ZenonT(60), <4>1
      <4>3. l + 1 \in 1 .. m /\ l + 1 = 1 + l
        BY <4>2
      <4> QED BY ZenonT(60), <4>1, <4>3
    <3>2. r[1 + m] = ReadToken(st, s[i])
      BY <2>5, <2>6, <3>1
    <3>3. Mirrors(r[1 + m], s, i)
      BY ZenonT(60), <2>1, <2>7, <2>8, <3>2, MirrorsPlain
    <3> QED BY SMTT(60), <2>1, <2>4, <3>3
  <2>9. CASE Ends(s, i)
    <3>1. /\ m = l + 5
          /\ e[i][l + 1] = "]" /\ e[i][l + 2] = "]" /\ e[i][l + 3] = ">"
          /\ e[i][l + 4] = CDataOpen /\ e[i][l + 5] = s[i]
      BY ZenonT(60), <2>2, <2>3, <2>4, <2>9 DEF Grown
    <3>2. /\ l + 1 \in 1 .. m /\ l + 2 \in 1 .. m /\ l + 3 \in 1 .. m /\ l + 4 \in 1 .. m /\ l + 5 \in 1 .. m
          /\ 1 + l = l + 1 /\ 1 + (l + 1) = l + 2 /\ 1 + (l + 2) = l + 3 /\ 1 + (l + 3) = l + 4
          /\ 1 + (l + 4) = l + 5 /\ 1 + (l + 5) = l + 6 /\ 1 + m = l + 6
      <4>1. m = l + 5
        BY ZenonT(60), <3>1
      <4> QED BY <4>1
    <3>3. /\ r[l + 2] = ReadToken(st, "]") /\ r[l + 3] = ReadToken(r[l + 2], "]")
          /\ r[l + 4] = ReadToken(r[l + 3], ">") /\ r[l + 5] = ReadToken(r[l + 4], CDataOpen)
          /\ r[l + 6] = ReadToken(r[l + 5], s[i])
      BY ZenonT(60), <2>5, <2>6, <3>1, <3>2
    <3>4. Mirrors(r[1 + m], s, i)
      BY ZenonT(60), <2>1, <2>7, <2>9, <3>2, <3>3, MirrorsEscape
    <3> QED BY <2>1, <2>4, <3>4
  <2> QED BY <2>8, <2>9
<1>11. n \in T
  <2> HIDE DEF T
  <2>1. n \in Int /\ 0 \in Int /\ n \in 0 .. n
    OBVIOUS
  <2>2. \A i \in 0 .. n : i \in T
    BY ZenonT(60), <1>9, <1>10, <2>1, Induction
  <2> QED BY <2>1, <2>2
<1>12. Mirrors(r[1 + L], s, n)
  BY ZenonT(60), <1>3, <1>4, <1>11
<1>13. PICK st \in ReaderState(Tok) : st = r[1 + L]
  <2>1. 1 + L \in 0 .. L + 4
    OBVIOUS
  <2> QED BY <1>7, <2>1
<1>14. st.open /\ st.text = s
  <2>1. SubSeq(s, 1, n) = s
    BY <1>2
  <2> QED BY SMTT(60), <1>12, <1>13, <2>1 DEF Mirrors
<1>15. /\ L + 2 \in 1 .. L + 4 /\ L + 3 \in 1 .. L + 4 /\ L + 4 \in 1 .. L + 4
       /\ (L + 2) - 1 = 1 + L /\ (L + 3) - 1 = L + 2 /\ (L + 4) - 1 = L + 3
  OBVIOUS
<1>16. r[L + 2] = ReadToken(st, "]") /\ r[L + 3] = ReadToken(r[L + 2], "]") /\ r[L + 4] = ReadToken(r[L + 3], ">")
  BY ZenonT(60), <1>5, <1>7, <1>13, <1>15
<1>17. r[L + 4] = [open |-> FALSE, run |-> 0, text |-> s]
  BY ZenonT(60), <1>14, <1>16, ReadEnd
<1> QED BY ZenonT(60), <1>3, <1>5, <1>7, <1>17

----------------------------------------------------------------------------
(* The JSON of a call: extractJSONObject.                                  *)

ScanState == [depth : Int, inString : BOOLEAN, escaped : BOOLEAN]
ScanStart == [depth |-> 0, inString |-> FALSE, escaped |-> FALSE]

\* The scanner's states have their types.
LEMMA ScanType ==
  ASSUME NEW st \in ScanState, NEW ch
  PROVE  Scan(st, ch) \in ScanState
<1>1. st.depth \in Int /\ st.inString \in BOOLEAN /\ st.escaped \in BOOLEAN
  BY DEF ScanState
<1>2. [st EXCEPT !.escaped = FALSE] \in ScanState
  BY ZenonT(60), <1>1 DEF ScanState
<1>3. [st EXCEPT !.escaped = ch = Backslash, !.inString = ch # Quote] \in ScanState
  <2>1. PICK v \in BOOLEAN, w \in BOOLEAN : v = (ch = Backslash) /\ w = (ch # Quote)
    BY Zenon
  <2> QED BY <2>1, Zenon DEF ScanState
<1>4. [st EXCEPT !.inString = TRUE] \in ScanState
  BY ZenonT(60), <1>1 DEF ScanState
<1>5. [st EXCEPT !.depth = @ + 1] \in ScanState /\ [st EXCEPT !.depth = @ - 1] \in ScanState
  BY <1>1 DEF ScanState
<1> QED BY ZenonT(60), <1>2, <1>3, <1>4, <1>5 DEF Scan, Brace

\* The states of the scanner: q[i] is the one after token i.
Scanning(q, x, a) ==
  /\ q[a - 1] = ScanStart
  /\ \A i \in a .. Len(x) : q[i] \in ScanState /\ q[i] = Scan(q[i - 1], x[i])

\* The object those states find.
Extracted(q, x, a) ==
  LET ends == {i \in a .. Len(x) : q[i].depth = 0}
  IN  IF ends = {} \/ x[a] # "{" THEN <<>>
      ELSE SubSeq(x, a, CHOOSE i \in ends : \A j \in ends : i <= j)

\* extractJSONObject goes through the scanner's states.
LEMMA ScanSteps ==
  ASSUME NEW Tok, NEW x \in Seq(Tok), NEW a \in 1 .. Len(x)
  PROVE  \E q : /\ Scanning(q, x, a)
                /\ extractJSONObject(x, a) = Extracted(q, x, a)
<1> DEFINE n == Len(x)
           z == a - 1
           S == ScanState
           D == [p \in S \X Int |-> Scan(p[1], x[p[2]])]
           st[i \in a - 1 .. n] ==
             IF i < a THEN [depth |-> 0, inString |-> FALSE, escaped |-> FALSE]
                      ELSE Scan(st[i - 1], x[i])
<1> HIDE DEF st
<1>1. n \in Int /\ z \in Int /\ z <= n /\ z + 1 = a /\ ScanStart \in S
  BY DEF ScanState, ScanStart
<1>2. \A i \in z .. n : (i < a <=> i = z) /\ (i # z <=> i \in a .. n)
  OBVIOUS
<1>3. D \in [S \X Int -> S]
  BY ScanType
<1>4. \A y \in S, i \in a .. n : D[<<y, i>>] = Scan(y, x[i])
  OBVIOUS
<1>5. \A i \in a .. n : i - 1 \in z .. n
  OBVIOUS
<1>6. z \in z .. n /\ \A i \in a .. n : i \in z .. n
  BY SMTT(60)
<1> HIDE DEF n, S, D, z
<1>7. st = [i \in z .. n |-> IF i < a THEN ScanStart ELSE Scan(st[i - 1], x[i])]
  <2>1. PICK h : Follows(h, z, n, S, ScanStart, D)
    BY ZenonT(60), <1>1, <1>3, Recursion
  <2>2. h \in [z .. n -> S] /\ h[z] = ScanStart /\ \A i \in a .. n : h[i] = D[<<h[i - 1], i>>]
    BY ZenonT(60), <1>1, <2>1 DEF Follows
  <2>3. \A i \in a .. n : h[i - 1] \in S
    BY ZenonT(60), <1>5, <2>2
  <2>4. \A i \in a .. n : h[i] = Scan(h[i - 1], x[i])
    BY ZenonT(60), <1>4, <2>2, <2>3
  <2>5. h = [i \in z .. n |-> IF i < a THEN ScanStart ELSE Scan(h[i - 1], x[i])]
    BY ZenonT(60), <1>2, <2>2, <2>4
  <2> QED BY ZenonT(60), <2>5 DEF ScanStart, st, z
<1>8. st[z] = ScanStart /\ \A i \in a .. n : st[i] = Scan(st[i - 1], x[i])
  BY ZenonT(60), <1>2, <1>6, <1>7
<1>9. Follows(st, z, n, S, ScanStart, D)
  <2>1. st = [i \in z .. n |-> st[i]]
    BY ZenonT(60), <1>7
  <2>2. ASSUME NEW i \in z + 1 .. n, st[i - 1] \in S PROVE st[i] = D[<<st[i - 1], i>>]
    BY ZenonT(60), <1>1, <1>4, <1>8, <2>2
  <2> QED BY ZenonT(60), <1>1, <1>3, <1>8, <2>1, <2>2, Computed
<1>10. Scanning(st, x, a)
  BY ZenonT(60), <1>6, <1>8, <1>9 DEF Follows, Scanning, n, S, z
<1>11. extractJSONObject(x, a) = Extracted(st, x, a)
  BY DEF extractJSONObject, Extracted, st, n
<1> QED BY ZenonT(60), <1>10, <1>11

\* The object ends where the depth is first 0 again.
LEMMA ObjectEnd ==
  ASSUME NEW Tok, NEW x \in Seq(Tok), NEW a \in 1 .. Len(x), NEW m \in a .. Len(x), NEW q,
         q[m].depth = 0, \A i \in a .. m - 1 : q[i].depth # 0
  PROVE  x[a] = "{" => Extracted(q, x, a) = SubSeq(x, a, m)
<1> DEFINE ends == {i \in a .. Len(x) : q[i].depth = 0}
<1>1. m \in ends /\ \A j \in ends : m <= j
  OBVIOUS
<1>2. \A i \in ends : (\A j \in ends : i <= j) => i = m
  BY <1>1
<1>3. ends # {} /\ (CHOOSE i \in ends : \A j \in ends : i <= j) = m
  <2> HIDE DEF ends
  <2> QED BY ZenonT(60), <1>1, <1>2
<1> QED BY ZenonT(60), <1>3 DEF Extracted

Is(st, depth, inString, escaped) ==
  st.depth = depth /\ (st.inString <=> inString) /\ (st.escaped <=> escaped)

\* After a backslash a token means nothing, and in a string only quotes and backslashes
\* mean anything.
LEMMA ScanInString ==
  ASSUME NEW st \in ScanState, NEW t
  PROVE  /\ Is(st, 2, TRUE, TRUE) => Is(Scan(st, t), 2, TRUE, FALSE)
         /\ Is(st, 2, TRUE, FALSE) /\ t \notin {Quote, Backslash} => Is(Scan(st, t), 2, TRUE, FALSE)
         /\ Is(st, 2, TRUE, FALSE) /\ t = Backslash => Is(Scan(st, t), 2, TRUE, TRUE)
         /\ Is(st, 2, TRUE, FALSE) /\ t = Quote => Is(Scan(st, t), 2, FALSE, FALSE)
<1>1. CASE st.escaped
  <2>1. Scan(st, t) = [st EXCEPT !.escaped = FALSE]
    BY <1>1 DEF Scan, Brace
  <2>2. [st EXCEPT !.escaped = FALSE].depth = st.depth
    BY DEF ScanState
  <2>3. [st EXCEPT !.escaped = FALSE].inString = st.inString /\ ~[st EXCEPT !.escaped = FALSE].escaped
    BY DEF ScanState
  <2> QED BY ZenonT(60), <1>1, <2>1, <2>2, <2>3 DEF Is
<1>2. CASE ~st.escaped /\ st.inString
  <2>1. PICK v \in BOOLEAN, w \in BOOLEAN : v = (t = Backslash) /\ w = (t # Quote)
    BY Zenon
  <2>2. Scan(st, t) = [st EXCEPT !.escaped = v, !.inString = w]
    BY ZenonT(60), <1>2, <2>1 DEF Scan, Brace
  <2>3. [st EXCEPT !.escaped = v, !.inString = w].depth = st.depth
    BY DEF ScanState
  <2>4. [st EXCEPT !.escaped = v, !.inString = w].escaped = v
    BY DEF ScanState
  <2>5. [st EXCEPT !.escaped = v, !.inString = w].inString = w
    BY DEF ScanState
  <2>6. Quote # Backslash
    BY DEF Quote, Backslash
  <2> QED BY ZenonT(60), <1>2, <2>1, <2>2, <2>3, <2>4, <2>5, <2>6 DEF Is
<1>3. CASE ~st.escaped /\ ~st.inString
  BY ZenonT(60), <1>3 DEF Is
<1> QED BY ZenonT(60), <1>1, <1>2, <1>3

\* Outside of strings a quote opens one, and braces count.
LEMMA ScanOutside ==
  ASSUME NEW st \in ScanState, NEW d \in Int, Is(st, d, FALSE, FALSE), NEW t
  PROVE  /\ t = Quote => Is(Scan(st, t), d, TRUE, FALSE)
         /\ t = "{" => Is(Scan(st, t), d + 1, FALSE, FALSE)
         /\ t = "}" => Is(Scan(st, t), d - 1, FALSE, FALSE)
         /\ t \notin {Quote, "{", "}"} => Is(Scan(st, t), d, FALSE, FALSE)
<1>1. st.depth = d /\ ~st.inString /\ ~st.escaped
  BY ZenonT(60) DEF Is
<1>2. /\ [st EXCEPT !.inString = TRUE].depth = st.depth
      /\ [st EXCEPT !.depth = @ + 1].depth = st.depth + 1
      /\ [st EXCEPT !.depth = @ - 1].depth = st.depth - 1
  BY DEF ScanState
<1>3. /\ [st EXCEPT !.inString = TRUE].inString
      /\ [st EXCEPT !.inString = TRUE].escaped = st.escaped
  BY DEF ScanState
<1>4. /\ [st EXCEPT !.depth = @ + 1].inString = st.inString
      /\ [st EXCEPT !.depth = @ + 1].escaped = st.escaped
      /\ [st EXCEPT !.depth = @ - 1].inString = st.inString
      /\ [st EXCEPT !.depth = @ - 1].escaped = st.escaped
  BY DEF ScanState
<1>5. "{" # Quote /\ "}" # Quote /\ "{" # "}"
  BY DEF Quote
<1>6. t = Quote => Scan(st, t) = [st EXCEPT !.inString = TRUE]
  BY ZenonT(60), <1>1, <1>5 DEF Scan, Brace
<1>7. t = "{" => Scan(st, t) = [st EXCEPT !.depth = @ + 1]
  BY ZenonT(60), <1>1, <1>5 DEF Scan, Brace
<1>8. t = "}" => Scan(st, t) = [st EXCEPT !.depth = @ - 1]
  BY ZenonT(60), <1>1, <1>5 DEF Scan, Brace
<1>9. t \notin {Quote, "{", "}"} => Scan(st, t) = st
  BY ZenonT(60), <1>1 DEF Scan, Brace
<1> QED BY ZenonT(60), <1>1, <1>2, <1>3, <1>4, <1>6, <1>7, <1>8, <1>9 DEF Is

\* Tokens that a JSON text is made of.
JSONTokens == {"{", "}", Quote, Backslash} \cup {Bracketless(t) : t \in Tags}

\* A token is written with a backslash before it, or as one that is neither a quote nor
\* a backslash.
TokenForm(t, b, Tok) ==
  \/ JSONToken(t, b) = <<Backslash, t>>
  \/ \E w \in Tok \ {Quote, Backslash} : JSONToken(t, b) = <<w>>

\* Every token has one of the two forms.
LEMMA JSONTokenForms ==
  ASSUME NEW Tok, JSONTokens \subseteq Tok, NEW t \in Tok, NEW b \in BOOLEAN
  PROVE  TokenForm(t, b, Tok)
<1>1. CASE t \in {Quote, Backslash}
  <2>1. JSONToken(t, b) = <<Backslash, t>>
    BY <1>1 DEF JSONToken, Tags, Quote, Backslash
  <2> QED BY ZenonT(60), <2>1 DEF TokenForm
<1>2. CASE t \notin {Quote, Backslash} /\ t \in Tags /\ b
  <2>1. Bracketless(t) \in Tok
    BY ZenonT(60), <1>2 DEF JSONTokens
  <2>2. Bracketless(t) \notin {Quote, Backslash}
    BY <1>2 DEF Bracketless, Tags, Quote, Backslash
  <2>3. JSONToken(t, b) = <<Bracketless(t)>>
    BY <1>2 DEF JSONToken
  <2> QED BY ZenonT(60), <2>1, <2>2, <2>3 DEF TokenForm
<1>3. CASE t \notin {Quote, Backslash} /\ ~(t \in Tags /\ b)
  <2>1. JSONToken(t, b) = <<t>>
    BY <1>3 DEF JSONToken
  <2> QED BY ZenonT(60), <1>3, <2>1 DEF TokenForm
<1> QED BY <1>1, <1>2, <1>3

\* e[i] is what is written for the first i tokens of s.
Quoting(e, s, b, Tok) ==
  /\ e \in [0 .. Len(s) -> Seq(Tok)]
  /\ e[0] = <<>>
  /\ \A i \in 1 .. Len(s) : e[i] = e[i - 1] \o JSONToken(s[i], b)

\* JSONString is computed token by token.
LEMMA QuoteSteps ==
  ASSUME NEW Tok, JSONTokens \subseteq Tok, NEW s \in Seq(Tok), NEW b \in BOOLEAN
  PROVE  \E e : Quoting(e, s, b, Tok) /\ JSONString(s, b) = <<Quote>> \o e[Len(s)] \o <<Quote>>
<1> DEFINE n == Len(s)
           S == Seq(Tok)
           step(x, i) == x \o JSONToken(s[i], b)
           D == [p \in S \X Int |-> IF p[2] \in 1 .. n THEN step(p[1], p[2]) ELSE p[1]]
           upTo[i \in 0 .. n] == IF i = 0 THEN <<>> ELSE upTo[i - 1] \o JSONToken(s[i], b)
<1> HIDE DEF upTo
<1>1. n \in Int /\ 0 <= n /\ 0 \in Int /\ 0 + 1 = 1 /\ <<>> \in S
  OBVIOUS
<1>2. ASSUME NEW x \in S, NEW i \in 1 .. n PROVE step(x, i) \in S
  <2> HIDE DEF D
  <2>1. s[i] \in Tok
    OBVIOUS
  <2>2. Backslash \in Tok
    BY ZenonT(60) DEF JSONTokens
  <2>3. \/ JSONToken(s[i], b) = <<Backslash, s[i]>>
        \/ \E w \in Tok : JSONToken(s[i], b) = <<w>>
    <3>1. TokenForm(s[i], b, Tok)
      BY ZenonT(60), <2>1, JSONTokenForms
    <3> QED BY ZenonT(60), <3>1 DEF TokenForm
  <2>4. CASE JSONToken(s[i], b) = <<Backslash, s[i]>>
    BY <2>1, <2>2, <2>4
  <2>5. CASE \E w \in Tok : JSONToken(s[i], b) = <<w>>
    BY <2>5
  <2> QED BY ZenonT(60), <2>3, <2>4, <2>5
<1> HIDE DEF step, S
<1>3. D \in [S \X Int -> S]
  BY <1>2
<1>4. \A x \in S, i \in 1 .. n : D[<<x, i>>] = step(x, i)
  OBVIOUS
<1> HIDE DEF D, n
<1>5. upTo = [i \in 0 .. n |-> IF i = 0 THEN <<>> ELSE step(upTo[i - 1], i)]
  <2>1. PICK h : Follows(h, 0, n, S, <<>>, D)
    BY ZenonT(60), <1>1, <1>3, Recursion
  <2>2. h \in [0 .. n -> S] /\ h[0] = <<>> /\ \A i \in 1 .. n : h[i] = D[<<h[i - 1], i>>]
    BY ZenonT(60), <1>1, <2>1 DEF Follows
  <2>3. \A i \in 1 .. n : h[i - 1] \in S
    BY <1>1, <2>2
  <2>4. \A i \in 1 .. n : h[i] = step(h[i - 1], i)
    BY ZenonT(60), <1>4, <2>2, <2>3
  <2>5. \A i \in 0 .. n : i # 0 => i \in 1 .. n
    BY <1>1
  <2>6. h = [i \in 0 .. n |-> IF i = 0 THEN <<>> ELSE step(h[i - 1], i)]
    BY ZenonT(60), <2>2, <2>4, <2>5
  <2> QED BY ZenonT(60), <2>6 DEF step, upTo
<1>6. upTo[0] = <<>> /\ \A i \in 1 .. n : upTo[i] = step(upTo[i - 1], i)
  <2>1. 0 \in 0 .. n /\ \A i \in 1 .. n : i \in 0 .. n /\ i # 0
    BY <1>1
  <2> QED BY ZenonT(60), <1>5, <2>1
<1>7. Follows(upTo, 0, n, S, <<>>, D)
  <2>1. upTo = [i \in 0 .. n |-> upTo[i]]
    BY ZenonT(60), <1>5
  <2>2. ASSUME NEW i \in 0 + 1 .. n, upTo[i - 1] \in S PROVE upTo[i] = D[<<upTo[i - 1], i>>]
    BY ZenonT(60), <1>1, <1>4, <1>6, <2>2
  <2> QED BY ZenonT(60), <1>1, <1>3, <1>6, <2>1, <2>2, Computed
<1>8. Quoting(upTo, s, b, Tok)
  BY ZenonT(60), <1>6, <1>7 DEF Follows, Quoting, step, n, S
<1>9. JSONString(s, b) = <<Quote>> \o upTo[Len(s)] \o <<Quote>>
  BY DEF JSONString, upTo, n
<1> QED BY ZenonT(60), <1>8, <1>9

\* v is u with a token that is no quote and no backslash, or with a backslash and a token.
Quoted(v, u) ==
  /\ Begins(u, v) /\ Len(u) \in Nat
  /\ \/ Len(v) = Len(u) + 1 /\ v[Len(u) + 1] \notin {Quote, Backslash}
     \/ Len(v) = Len(u) + 2 /\ v[Len(u) + 1] = Backslash

\* Each token adds one of the two forms.
LEMMA QuoteGrows ==
  ASSUME NEW Tok, JSONTokens \subseteq Tok, NEW s \in Seq(Tok), NEW b \in BOOLEAN, NEW e,
         Quoting(e, s, b, Tok), NEW i \in 1 .. Len(s)
  PROVE  Quoted(e[i], e[i - 1])
<1>1. PICK u \in Seq(Tok) : u = e[i - 1]
  BY DEF Quoting
<1>2. s[i] \in Tok
  OBVIOUS
<1>3. PICK t \in Tok : t = s[i]
  BY <1>2
<1>4. e[i] = u \o JSONToken(t, b)
  BY ZenonT(60), <1>1, <1>3 DEF Quoting
<1>5. Backslash \in Tok
  BY ZenonT(60) DEF JSONTokens
<1>6. CASE JSONToken(t, b) = <<Backslash, t>>
  <2>1. PICK y : y = u \o <<Backslash, t>>
    BY ZenonT(60)
  <2>2. Len(y) = Len(u) + 2 /\ y[Len(u) + 1] = Backslash /\ \A k \in 1 .. Len(u) : y[k] = u[k]
    BY <1>5, <2>1
  <2>3. Len(u) \in Nat /\ Len(u) <= Len(y)
    BY <2>2
  <2>4. e[i] = y
    BY ZenonT(60), <1>4, <1>6, <2>1
  <2> QED BY ZenonT(60), <1>1, <2>2, <2>3, <2>4 DEF Quoted, Begins
<1>7. CASE \E w \in Tok \ {Quote, Backslash} : JSONToken(t, b) = <<w>>
  <2>1. PICK w \in Tok \ {Quote, Backslash} : JSONToken(t, b) = <<w>>
    BY <1>7
  <2>2. PICK y : y = u \o <<w>>
    BY ZenonT(60)
  <2>3. Len(y) = Len(u) + 1 /\ y[Len(u) + 1] = w /\ \A k \in 1 .. Len(u) : y[k] = u[k]
    BY <2>2
  <2>4. Len(u) \in Nat /\ Len(u) <= Len(y)
    <3>1. Len(y) = Len(u) + 1
      BY ZenonT(60), <2>3
    <3>2. Len(u) \in Nat
      OBVIOUS
    <3> QED BY <3>1, <3>2
  <2>5. e[i] = y
    BY ZenonT(60), <1>4, <2>1, <2>2
  <2> QED BY ZenonT(60), <1>1, <2>1, <2>3, <2>4, <2>5 DEF Quoted, Begins
<1>8. TokenForm(t, b, Tok)
  BY ZenonT(60), JSONTokenForms
<1> QED BY ZenonT(60), <1>6, <1>7, <1>8 DEF TokenForm

\* The scanner is in a string, at position c of x, and E follows.
Entering(q, x, a, c, E) ==
  /\ a \in 1 .. Len(x) /\ Scanning(q, x, a)
  /\ c \in a .. Len(x) /\ Is(q[c], 2, TRUE, FALSE)
  /\ c + Len(E) <= Len(x) /\ \A k \in 1 .. Len(E) : x[c + k] = E[k]

\* It stays in the string while it reads E.
Inside(q, c, E) ==
  Is(q[c + Len(E)], 2, TRUE, FALSE) /\ \A p \in c .. c + Len(E) : q[p].depth = 2

\* It does when E is what JSONString wrote for s.
LEMMA ScanString ==
  ASSUME NEW Tok, JSONTokens \subseteq Tok, NEW s \in Seq(Tok), NEW b \in BOOLEAN, NEW e,
         Quoting(e, s, b, Tok), NEW x \in Seq(Tok), NEW q, NEW a, NEW c,
         NEW E \in Seq(Tok), E = e[Len(s)], Entering(q, x, a, c, E)
  PROVE  Inside(q, c, E)
<1>1. PICK L \in Nat : L = Len(E)
  OBVIOUS
<1>2. /\ a \in 1 .. Len(x) /\ c \in a .. Len(x) /\ Is(q[c], 2, TRUE, FALSE) /\ c + L <= Len(x)
      /\ \A k \in 1 .. L : x[c + k] = E[k]
      /\ \A j \in a .. Len(x) : q[j] \in ScanState /\ q[j] = Scan(q[j - 1], x[j])
  BY ZenonT(60), <1>1 DEF Entering, Scanning
<1>3. a \in Nat /\ c \in Nat /\ a <= c /\ c + L <= Len(x)
  <2>1. a \in 1 .. Len(x) /\ c \in a .. Len(x) /\ c + L <= Len(x)
    BY ZenonT(60), <1>2
  <2> QED BY <2>1
<1>4. PICK n \in Nat : n = Len(s)
  OBVIOUS
<1>5. E = e[n]
  BY ZenonT(60), <1>4
<1> DEFINE Done(i) == /\ Is(q[c + Len(e[i])], 2, TRUE, FALSE)
                      /\ \A p \in c .. c + Len(e[i]) : q[p].depth = 2
           T == {i \in 0 .. n : Done(i)}
<1>6. ASSUME NEW i \in 0 .. n PROVE Len(e[i]) \in Nat /\ Len(e[i]) <= L /\ Begins(e[i], E)
  <2>1. e \in [0 .. n -> Seq(Tok)]
    BY ZenonT(60), <1>4 DEF Quoting
  <2>2. \A j \in 1 .. n : Begins(e[j - 1], e[j])
    BY ZenonT(60), <1>4, QuoteGrows DEF Quoted
  <2>3. Begins(e[i], E)
    BY ZenonT(60), <1>5, <2>1, <2>2, Prefixes
  <2>4. Len(e[i]) \in Nat
    BY <2>1
  <2> QED BY <1>1, <2>3, <2>4 DEF Begins
<1>7. 0 \in T
  <2>1. Len(e[0]) = 0
    BY DEF Quoting
  <2>2. c + 0 = c /\ 0 \in 0 .. n /\ \A p \in c .. c : p = c
    BY <1>3
  <2>3. Done(0)
    BY ZenonT(60), <1>2, <2>1, <2>2 DEF Is
  <2> QED BY ZenonT(60), <2>2, <2>3
<1>8. ASSUME NEW i \in 0 + 1 .. n, i - 1 \in T PROVE i \in T
  <2>1. i \in 1 .. Len(s) /\ i \in 0 .. n /\ i - 1 \in 0 .. n
    BY <1>4
  <2>2. Quoted(e[i], e[i - 1])
    BY ZenonT(60), <2>1, QuoteGrows
  <2>3. PICK l \in Nat : l = Len(e[i - 1])
    BY SMTT(60), <1>6, <2>1
  <2>4. PICK m \in Nat : m = Len(e[i]) /\ m <= L /\ \A k \in 1 .. m : E[k] = e[i][k]
    BY SMTT(60), <1>6, <2>1 DEF Begins
  <2>5. Is(q[c + l], 2, TRUE, FALSE) /\ \A p \in c .. c + l : q[p].depth = 2
    BY ZenonT(60), <1>8, <2>3
  <2>6. ASSUME NEW k \in 1 .. m
        PROVE  /\ q[c + k] = Scan(q[c + (k - 1)], e[i][k]) /\ q[c + k] \in ScanState
    <3>1. c + k \in a .. Len(x) /\ (c + k) - 1 = c + (k - 1) /\ k \in 1 .. L
      <4>1. m <= L
        BY ZenonT(60), <2>4
      <4>2. PICK lx \in Nat : lx = Len(x)
        OBVIOUS
      <4> QED BY <1>3, <4>1, <4>2
    <3>2. x[c + k] = e[i][k]
      BY ZenonT(60), <1>2, <2>4, <3>1
    <3> QED BY ZenonT(60), <1>2, <3>1, <3>2
  <2>7. q[c + l] \in ScanState
    <3>1. c + l \in a .. Len(x)
      <4>1. l <= L
        BY ZenonT(60), <1>6, <2>1, <2>3
      <4>2. PICK lx \in Nat : lx = Len(x)
        OBVIOUS
      <4> QED BY <1>3, <4>1, <4>2
    <3> QED BY ZenonT(60), <1>2, <3>1
  <2>8. CASE m = l + 1 /\ e[i][l + 1] \notin {Quote, Backslash}
    <3>1. l + 1 \in 1 .. m /\ (l + 1) - 1 = l /\ \A p \in c .. c + m : p \in c .. c + l \/ p = c + m
      BY <1>3, <2>8
    <3>2. q[c + m] = Scan(q[c + l], e[i][l + 1])
      BY ZenonT(60), <2>6, <2>8, <3>1
    <3>3. Is(q[c + m], 2, TRUE, FALSE)
      BY ZenonT(60), <2>5, <2>7, <2>8, <3>2, ScanInString
    <3>4. \A p \in c .. c + m : q[p].depth = 2
      BY ZenonT(60), <2>5, <3>1, <3>3 DEF Is
    <3> QED BY ZenonT(60), <2>1, <2>4, <3>3, <3>4
  <2>9. CASE m = l + 2 /\ e[i][l + 1] = Backslash
    <3>1. /\ l + 1 \in 1 .. m /\ (l + 1) - 1 = l /\ l + 2 \in 1 .. m /\ (l + 2) - 1 = l + 1
          /\ \A p \in c .. c + m : p \in c .. c + l \/ p = c + (l + 1) \/ p = c + m
      BY <1>3, <2>9
    <3>2. /\ q[c + (l + 1)] = Scan(q[c + l], Backslash) /\ q[c + (l + 1)] \in ScanState
          /\ q[c + m] = Scan(q[c + (l + 1)], e[i][l + 2])
      BY ZenonT(60), <2>6, <2>9, <3>1
    <3>3. Is(q[c + (l + 1)], 2, TRUE, TRUE)
      BY ZenonT(60), <2>5, <2>7, <3>2, ScanInString
    <3>4. Is(q[c + m], 2, TRUE, FALSE)
      BY ZenonT(60), <3>2, <3>3, ScanInString
    <3>5. \A p \in c .. c + m : q[p].depth = 2
      BY ZenonT(60), <2>5, <3>1, <3>3, <3>4 DEF Is
    <3> QED BY ZenonT(60), <2>1, <2>4, <3>4, <3>5
  <2> QED BY ZenonT(60), <2>2, <2>3, <2>4, <2>8, <2>9 DEF Quoted
<1>9. n \in T
  <2> HIDE DEF T
  <2>1. n \in Int /\ 0 \in Int /\ n \in 0 .. n
    OBVIOUS
  <2>2. \A i \in 0 .. n : i \in T
    BY ZenonT(60), <1>7, <1>8, <2>1, Induction
  <2> QED BY SMTT(60), <2>1, <2>2
<1> QED BY ZenonT(60), <1>5, <1>9 DEF Inside

\* An opening brace outside of strings.
LEMMA ScanOpen ==
  ASSUME NEW st \in ScanState, NEW d \in Int, Is(st, d, FALSE, FALSE), NEW f, f = d + 1
  PROVE  Is(Scan(st, "{"), f, FALSE, FALSE)
BY ZenonT(60), ScanOutside

\* A closing brace.
LEMMA ScanClose ==
  ASSUME NEW st \in ScanState, NEW d \in Int, Is(st, d, FALSE, FALSE), NEW f, f = d - 1
  PROVE  Is(Scan(st, "}"), f, FALSE, FALSE)
BY ZenonT(60), ScanOutside

\* A quote.
LEMMA ScanQuote ==
  ASSUME NEW st \in ScanState, NEW d \in Int, Is(st, d, FALSE, FALSE)
  PROVE  Is(Scan(st, Quote), d, TRUE, FALSE)
BY ZenonT(60), ScanOutside

\* Any other token.
LEMMA ScanWord ==
  ASSUME NEW st \in ScanState, NEW d \in Int, Is(st, d, FALSE, FALSE),
         NEW t, t \notin {Quote, "{", "}"}
  PROVE  Is(Scan(st, t), d, FALSE, FALSE)
BY ZenonT(60), ScanOutside

\* X is a call with name nm and J between the braces ob and cb of its arguments.
Laid(X, ob, cb, nm, J) ==
  /\ Len(X) = Len(J) + 5
  /\ X[1] = ob /\ X[2] = nm /\ X[3] = ob
  /\ \A k \in 1 .. Len(J) : X[3 + k] = J[k]
  /\ X[Len(J) + 4] = cb /\ X[Len(J) + 5] = cb

\* CallJSON is laid out so.
LEMMA CallLaid ==
  ASSUME NEW Tok, NEW ob \in Tok, NEW cb \in Tok, NEW nm \in Tok, NEW J \in Seq(Tok)
  PROVE  \E X \in Seq(Tok) : /\ X = <<ob, nm>> \o (<<ob>> \o J \o <<cb>>) \o <<cb>>
                             /\ Laid(X, ob, cb, nm, J)
<1>1. /\ <<ob, nm>> \in Seq(Tok) /\ <<ob>> \in Seq(Tok) /\ <<cb>> \in Seq(Tok)
      /\ 1 \in 1 .. 1 /\ 1 \in 1 .. 2 /\ 2 \in 1 .. 2
  OBVIOUS
<1>2. PICK h \in Seq(Tok) : h = <<ob, nm>>
  BY ZenonT(60), <1>1
<1>3. PICK o \in Seq(Tok) : o = <<ob>>
  BY ZenonT(60), <1>1
<1>4. PICK c \in Seq(Tok) : c = <<cb>>
  BY ZenonT(60), <1>1
<1>5. /\ Len(h) = 2 /\ h[1] = ob /\ h[2] = nm /\ Len(o) = 1 /\ o[1] = ob
      /\ Len(c) = 1 /\ c[1] = cb
  BY SMTT(60), <1>2, <1>3, <1>4
<1>6. PICK u \in Seq(Tok) : Joined(u, o, J)
  BY ZenonT(60), Join
<1>7. PICK v \in Seq(Tok) : Joined(v, u, c)
  BY ZenonT(60), Join
<1>8. PICK w \in Seq(Tok) : Joined(w, h, v)
  BY ZenonT(60), Join
<1>9. PICK X \in Seq(Tok) : Joined(X, w, c)
  BY ZenonT(60), Join
<1>10. PICK l \in Nat : l = Len(J)
  BY SMTT(60)
<1>11. Len(u) = l + 1 /\ Len(v) = l + 2 /\ Len(w) = l + 4 /\ Len(X) = l + 5
  <2>1. /\ Len(u) = Len(o) + Len(J) /\ Len(v) = Len(u) + Len(c)
        /\ Len(w) = Len(h) + Len(v) /\ Len(X) = Len(w) + Len(c)
    BY ZenonT(60), <1>6, <1>7, <1>8, <1>9 DEF Joined
  <2>2. Len(h) = 2 /\ Len(o) = 1 /\ Len(c) = 1
    BY ZenonT(60), <1>5
  <2> QED BY <1>10, <2>1, <2>2
<1>12. /\ 1 \in 1 .. l + 1 /\ 1 \in 1 .. l + 2 /\ l + 2 \in 1 .. l + 2 /\ 1 \in 1 .. l + 4
       /\ 2 \in 1 .. l + 4 /\ 3 \in 1 .. l + 4 /\ l + 4 \in 1 .. l + 4
       /\ 2 + 1 = 3 /\ 2 + (l + 2) = l + 4 /\ (l + 1) + 1 = l + 2 /\ (l + 4) + 1 = l + 5
       /\ \A k \in 1 .. l : /\ 1 + k \in 1 .. l + 1 /\ 1 + k \in 1 .. l + 2 /\ 3 + k \in 1 .. l + 4
                            /\ 2 + (1 + k) = 3 + k
  OBVIOUS
<1>13. u[1] = ob /\ \A k \in 1 .. l : u[1 + k] = J[k]
  BY ZenonT(60), <1>1, <1>5, <1>6, <1>10 DEF Joined
<1>14. v[1] = ob /\ v[l + 2] = cb /\ \A k \in 1 .. l : v[1 + k] = J[k]
  <2>1. \A k \in 1 .. l + 1 : v[k] = u[k]
    BY ZenonT(60), <1>7, <1>11 DEF Joined
  <2>2. v[l + 2] = cb
    BY ZenonT(60), <1>1, <1>5, <1>7, <1>11, <1>12 DEF Joined
  <2> QED BY ZenonT(60), <1>12, <1>13, <2>1, <2>2
<1>15. w[1] = ob /\ w[2] = nm /\ w[3] = ob /\ w[l + 4] = cb /\ \A k \in 1 .. l : w[3 + k] = J[k]
  <2>1. w[1] = ob /\ w[2] = nm
    BY ZenonT(60), <1>1, <1>5, <1>8 DEF Joined
  <2>2. \A k \in 1 .. l + 2 : w[2 + k] = v[k]
    BY ZenonT(60), <1>5, <1>8, <1>11 DEF Joined
  <2>3. w[3] = ob /\ w[l + 4] = cb
    BY ZenonT(60), <1>12, <1>14, <2>2
  <2>4. \A k \in 1 .. l : w[3 + k] = J[k]
    BY ZenonT(60), <1>12, <1>14, <2>2
  <2> QED BY ZenonT(60), <2>1, <2>3, <2>4
<1>16. /\ X[1] = ob /\ X[2] = nm /\ X[3] = ob /\ X[l + 4] = cb /\ X[l + 5] = cb
       /\ \A k \in 1 .. l : X[3 + k] = J[k]
  <2>1. \A k \in 1 .. l + 4 : X[k] = w[k]
    BY ZenonT(60), <1>9, <1>11 DEF Joined
  <2>2. X[l + 5] = cb
    BY ZenonT(60), <1>1, <1>5, <1>9, <1>11, <1>12 DEF Joined
  <2> QED BY ZenonT(60), <1>12, <1>15, <2>1, <2>2
<1>17. Laid(X, ob, cb, nm, J)
  BY ZenonT(60), <1>10, <1>11, <1>16 DEF Laid
<1>18. X = <<ob, nm>> \o (<<ob>> \o J \o <<cb>>) \o <<cb>>
  BY ZenonT(60), <1>2, <1>3, <1>4, <1>6, <1>7, <1>8, <1>9 DEF Joined
<1> QED BY ZenonT(60), <1>17, <1>18

\* The same for a string.
Framed(J, t, E) ==
  /\ J = <<t>> \o E \o <<t>> /\ Len(J) = Len(E) + 2
  /\ J[1] = t /\ J[Len(E) + 2] = t
  /\ \A k \in 1 .. Len(E) : J[1 + k] = E[k]

\* JSONString is framed so.
LEMMA StringFramed ==
  ASSUME NEW Tok, NEW t \in Tok, NEW E \in Seq(Tok)
  PROVE  \E J \in Seq(Tok) : Framed(J, t, E)
<1>1. PICK J : J = <<t>> \o E \o <<t>>
  BY ZenonT(60)
<1>2. J \in Seq(Tok) /\ Len(J) = Len(E) + 2
  BY <1>1
<1>3. J[1] = t /\ J[Len(E) + 2] = t
  BY <1>1
<1>4. \A k \in 1 .. Len(E) : J[1 + k] = E[k]
  BY <1>1
<1> QED BY ZenonT(60), <1>1, <1>2, <1>3, <1>4 DEF Framed

\* And for a text that has X in it.
Around(x, u, X, v) ==
  /\ x = u \o X \o v /\ Len(x) = Len(u) + Len(X) + Len(v)
  /\ \A k \in 1 .. Len(X) : x[Len(u) + k] = X[k]
  /\ SubSeq(x, Len(u) + 1, Len(u) + Len(X)) = X

\* A text with X in it is laid out so.
LEMMA TextAround ==
  ASSUME NEW Tok, NEW u \in Seq(Tok), NEW X \in Seq(Tok), NEW v \in Seq(Tok)
  PROVE  \E x \in Seq(Tok) : Around(x, u, X, v)
<1>1. PICK x : x = u \o X \o v
  BY ZenonT(60)
<1>2. x \in Seq(Tok) /\ Len(x) = Len(u) + Len(X) + Len(v)
  BY <1>1
<1>3. \A k \in 1 .. Len(X) : x[Len(u) + k] = X[k]
  BY <1>1
<1>4. SubSeq(x, Len(u) + 1, Len(u) + Len(X)) = X
  BY SMTT(60), <1>2, <1>3
<1> QED BY ZenonT(60), <1>1, <1>2, <1>3, <1>4 DEF Around

\* A call: its name is one token, and no punctuation; its argument is any text.
IsCall(c, Tok) == c.name \in Tok \ {Quote, "{", "}"} /\ c.body \in Seq(Tok)

\* extractJSONObject finds the end of a call, wherever it stands and whatever braces,
\* quotes, backslashes and tags are in its argument.
THEOREM CallExtracted ==
  ASSUME NEW Tok, JSONTokens \subseteq Tok, NEW c, IsCall(c, Tok), NEW tagsToo \in BOOLEAN,
         NEW before \in Seq(Tok), NEW after \in Seq(Tok)
  PROVE  extractJSONObject(before \o CallJSON(c, tagsToo) \o after, Len(before) + 1) =
           CallJSON(c, tagsToo)
<1>1. PICK ob \in Tok, cb \in Tok, qu \in Tok : ob = "{" /\ cb = "}" /\ qu = Quote
  BY ZenonT(60) DEF JSONTokens
<1>2. PICK nm \in Tok : nm = c.name /\ nm \notin {Quote, "{", "}"}
  BY ZenonT(60) DEF IsCall
<1>3. PICK s \in Seq(Tok) : s = c.body
  BY ZenonT(60) DEF IsCall
<1>4. PICK e : Quoting(e, s, tagsToo, Tok) /\ JSONString(s, tagsToo) = <<Quote>> \o e[Len(s)] \o <<Quote>>
  BY ZenonT(60), QuoteSteps
<1>5. PICK E \in Seq(Tok) : E = e[Len(s)]
  <2>1. Len(s) \in 0 .. Len(s)
    OBVIOUS
  <2>2. e[Len(s)] \in Seq(Tok)
    BY ZenonT(60), <1>4, <2>1 DEF Quoting
  <2> QED BY ZenonT(60), <2>2
<1>6. PICK K \in Seq(Tok) : Framed(K, qu, E)
  BY ZenonT(60), StringFramed
<1>7. PICK J \in Seq(Tok) : J = IF s = <<>> THEN <<>> ELSE K
  BY SMTT(60)
<1>8. PICK X \in Seq(Tok) : /\ X = <<ob, nm>> \o (<<ob>> \o J \o <<cb>>) \o <<cb>>
                            /\ Laid(X, ob, cb, nm, J)
  BY ZenonT(60), CallLaid
<1>9. X = CallJSON(c, tagsToo)
  BY ZenonT(60), <1>1, <1>2, <1>3, <1>4, <1>5, <1>6, <1>7, <1>8 DEF CallJSON, Arguments, Framed
<1>10. PICK x \in Seq(Tok) : Around(x, before, X, after)
  BY ZenonT(60), TextAround
<1>11. PICK o \in Nat, l \in Nat, r \in Nat, N \in Nat :
         o = Len(before) /\ l = Len(J) /\ r = Len(after) /\ N = Len(x)
  BY SMTT(60)
<1>12. Len(X) = l + 5 /\ N = o + (l + 5) + r
  BY ZenonT(60), <1>8, <1>10, <1>11 DEF Laid, Around
<1>13. N = o + (l + 5) + r
  BY ZenonT(60), <1>12
<1>14. PICK a \in 1 .. N : a = o + 1
  <2>1. o + 1 \in 1 .. N
    BY <1>13
  <2> QED BY SMTT(60), <2>1
<1>15. /\ x[o + 1] = ob /\ x[o + 2] = nm /\ x[o + 3] = ob
       /\ \A k \in 1 .. l : x[o + (3 + k)] = J[k]
       /\ x[o + (l + 4)] = cb /\ x[o + (l + 5)] = cb
  <2>1. /\ 1 \in 1 .. l + 5 /\ 2 \in 1 .. l + 5 /\ 3 \in 1 .. l + 5 /\ l + 4 \in 1 .. l + 5
        /\ l + 5 \in 1 .. l + 5 /\ \A k \in 1 .. l : 3 + k \in 1 .. l + 5
    OBVIOUS
  <2>2. \A k \in 1 .. l + 5 : x[o + k] = X[k]
    BY ZenonT(60), <1>10, <1>11, <1>12 DEF Around
  <2> QED BY ZenonT(60), <1>8, <1>11, <2>1, <2>2 DEF Laid
<1>16. PICK q : Scanning(q, x, a) /\ extractJSONObject(x, a) = Extracted(q, x, a)
  BY ZenonT(60), <1>11, ScanSteps
<1>17. /\ a - 1 = o /\ o + 1 = a
       /\ o + 1 \in a .. N /\ o + 2 \in a .. N /\ o + 3 \in a .. N
       /\ (o + 1) - 1 = o /\ (o + 2) - 1 = o + 1 /\ (o + 3) - 1 = o + 2
       /\ 0 \in Int /\ 1 \in Int /\ 2 \in Int /\ 1 = 0 + 1 /\ 2 = 1 + 1
  BY SMTT(60), <1>13, <1>14
<1>18. q[o] \in ScanState /\ Is(q[o], 0, FALSE, FALSE)
  <2>1. ScanStart \in ScanState
    BY DEF ScanStart, ScanState
  <2>2. Is(ScanStart, 0, FALSE, FALSE)
    BY DEF Is, ScanStart
  <2> QED BY ZenonT(60), <1>16, <1>17, <2>1, <2>2 DEF Scanning
<1>19. \A j \in a .. N : q[j] \in ScanState /\ q[j] = Scan(q[j - 1], x[j])
  BY ZenonT(60), <1>11, <1>16 DEF Scanning
<1>20. /\ q[o + 1] \in ScanState /\ q[o + 1] = Scan(q[o], "{")
      /\ q[o + 2] \in ScanState /\ q[o + 2] = Scan(q[o + 1], nm)
      /\ q[o + 3] \in ScanState /\ q[o + 3] = Scan(q[o + 2], "{")
  BY ZenonT(60), <1>1, <1>15, <1>17, <1>19
<1>21. Is(q[o + 1], 1, FALSE, FALSE)
  BY ZenonT(60), <1>17, <1>18, <1>20, ScanOpen
<1>22. Is(q[o + 2], 1, FALSE, FALSE)
  BY ZenonT(60), <1>2, <1>17, <1>21, <1>20, ScanWord
<1>23. Is(q[o + 3], 2, FALSE, FALSE)
  BY ZenonT(60), <1>17, <1>22, <1>20, ScanOpen
<1>24. /\ Is(q[o + (l + 3)], 2, FALSE, FALSE)
       /\ \A p \in o + 3 .. o + (l + 3) : q[p].depth = 2
  <2>1. CASE s = <<>>
    <3>1. l = 0
      BY <1>7, <1>11, <2>1
    <3>2. o + (l + 3) = o + 3 /\ \A p \in o + 3 .. o + (l + 3) : p = o + 3
      BY SMTT(60), <3>1
    <3> QED BY ZenonT(60), <1>23, <3>2 DEF Is
  <2>2. CASE s # <<>>
    <3>1. PICK L \in Nat : L = Len(E)
      BY SMTT(60)
    <3>2. J = K
      BY SMTT(60), <1>7, <2>2
    <3>3. l = L + 2 /\ J[1] = qu /\ J[L + 2] = qu /\ \A k \in 1 .. L : J[1 + k] = E[k]
      BY ZenonT(60), <1>6, <1>11, <3>1, <3>2 DEF Framed
    <3>4. PICK d \in Nat : d = o + 4
      OBVIOUS
    <3>5. l = L + 2
      BY ZenonT(60), <3>3
    <3>6. /\ 1 \in 1 .. l /\ L + 2 \in 1 .. l /\ o + (3 + 1) = d /\ o + (3 + (L + 2)) = d + L + 1
          /\ \A k \in 1 .. L : 1 + k \in 1 .. l /\ o + (3 + (1 + k)) = d + k
      BY SMTT(60), <3>4, <3>5
    <3>7. /\ d \in a .. N /\ d - 1 = o + 3 /\ d + L <= N /\ d + L + 1 \in a .. N
          /\ (d + L + 1) - 1 = d + L /\ o + (l + 3) = d + L + 1
      BY SMTT(60), <1>13, <1>14, <3>4, <3>5
    <3>8. \A p \in o + 3 .. o + (l + 3) : p = o + 3 \/ p \in d .. d + L \/ p = d + L + 1
      BY SMTT(60), <3>4, <3>5
    <3>9. x[d] = Quote /\ x[d + L + 1] = Quote /\ \A k \in 1 .. L : x[d + k] = E[k]
      BY ZenonT(60), <1>1, <1>15, <3>3, <3>6
    <3>10. Is(q[d], 2, TRUE, FALSE)
      <4>1. q[d] = Scan(q[o + 3], Quote)
        BY ZenonT(60), <1>19, <3>7, <3>9
      <4> QED BY ZenonT(60), <1>17, <1>23, <1>20, <4>1, ScanQuote
    <3>11. Is(q[d + L], 2, TRUE, FALSE) /\ \A p \in d .. d + L : q[p].depth = 2
      <4>1. Entering(q, x, a, d, E)
        BY ZenonT(60), <1>11, <1>16, <3>1, <3>7, <3>9, <3>10 DEF Entering
      <4>2. Quoting(e, s, tagsToo, Tok)
        BY ZenonT(60), <1>4
      <4>3. Inside(q, d, E)
        BY ZenonT(60), <1>5, <4>1, <4>2, ScanString
      <4> QED BY ZenonT(60), <3>1, <4>3 DEF Inside
    <3>12. q[d + L] \in ScanState /\ q[d + L + 1] = Scan(q[d + L], Quote)
      <4>1. d + L \in a .. N
        BY <3>7
      <4> QED BY ZenonT(60), <1>19, <3>7, <3>9, <4>1
    <3>13. Is(q[d + L + 1], 2, FALSE, FALSE)
      BY ZenonT(60), <3>11, <3>12, ScanInString
    <3> QED BY ZenonT(60), <1>23, <3>7, <3>8, <3>11, <3>13 DEF Is
  <2> QED BY ZenonT(60), <2>1, <2>2
<1>25. /\ o + (l + 4) \in a .. N /\ (o + (l + 4)) - 1 = o + (l + 3)
       /\ o + (l + 5) \in a .. N /\ (o + (l + 5)) - 1 = o + (l + 4)
       /\ 1 = 2 - 1 /\ 0 = 1 - 1
  BY <1>13, <1>14
<1>26. /\ q[o + (l + 3)] \in ScanState
      /\ q[o + (l + 4)] \in ScanState /\ q[o + (l + 4)] = Scan(q[o + (l + 3)], "}")
      /\ q[o + (l + 5)] = Scan(q[o + (l + 4)], "}")
  <2>1. o + (l + 3) \in a .. N
    BY <1>13, <1>14
  <2> QED BY ZenonT(60), <1>1, <1>15, <1>25, <1>19, <2>1
<1>27. Is(q[o + (l + 4)], 1, FALSE, FALSE)
  BY ZenonT(60), <1>17, <1>24, <1>25, <1>26, ScanClose
<1>28. Is(q[o + (l + 5)], 0, FALSE, FALSE)
  BY ZenonT(60), <1>17, <1>25, <1>27, <1>26, ScanClose
<1>29. \A i \in a .. (o + (l + 5)) - 1 : q[i].depth # 0
  <2>1. \A i \in a .. (o + (l + 5)) - 1 :
          i = o + 1 \/ i = o + 2 \/ i \in o + 3 .. o + (l + 3) \/ i = o + (l + 4)
    BY <1>14
  <2>2. 1 # 0 /\ 2 # 0
    OBVIOUS
  <2> QED BY ZenonT(60), <1>21, <1>22, <1>24, <1>27, <2>1, <2>2 DEF Is
<1>30. x[a] = "{"
  BY ZenonT(60), <1>1, <1>15, <1>17
<1>31. Extracted(q, x, a) = SubSeq(x, a, o + (l + 5))
  <2>1. q[o + (l + 5)].depth = 0
    BY ZenonT(60), <1>28 DEF Is
  <2> QED BY ZenonT(60), <1>11, <1>25, <1>29, <1>30, <2>1, ObjectEnd
<1> QED BY ZenonT(60), <1>9, <1>10, <1>11, <1>12, <1>16, <1>17, <1>31 DEF Around

----------------------------------------------------------------------------
(* Spans: the loop of stripThinkBlocks and stripThinkAndToolCalls.         *)

\* IndexFrom finds the first such token.
First(s, t, from, r) ==
  \/ r = 0 /\ \A i \in from .. Len(s) : s[i] # t
  \/ r \in from .. Len(s) /\ s[r] = t /\ \A i \in from .. r - 1 : s[i] # t

\* IndexFrom is the first such token from there on, or 0.
LEMMA FirstFound ==
  ASSUME NEW Tok, NEW s \in Seq(Tok), NEW t, NEW from \in 1 .. Len(s) + 1
  PROVE  First(s, t, from, IndexFrom(s, t, from))
<1> DEFINE A == {i \in from .. Len(s) : s[i] = t}
           OK(i) == s[i] = t /\ \A j \in from .. i - 1 : s[j] # t
<1>1. CASE A = {}
  <2>1. \A i \in from .. Len(s) : s[i] # t
    BY <1>1
  <2>2. IndexFrom(s, t, from) = 0
    BY <2>1 DEF IndexFrom
  <2> QED BY SMTT(60), <2>1, <2>2 DEF First
<1>2. CASE A # {}
  <2>1. A \subseteq Nat
    OBVIOUS
  <2>2. PICK x \in A : \A y \in A : ~(y < x)
    <3> HIDE DEF A
    <3> QED BY ZenonT(60), <1>2, <2>1, Least
  <2>3. x \in from .. Len(s) /\ OK(x)
    BY <2>2
  <2>4. IndexFrom(s, t, from) = CHOOSE i \in from .. Len(s) : OK(i)
    BY ZenonT(60), <2>3 DEF IndexFrom
  <2> HIDE DEF OK
  <2>5. IndexFrom(s, t, from) \in from .. Len(s) /\ OK(IndexFrom(s, t, from))
    BY ZenonT(60), <2>3, <2>4
  <2> QED BY SMTT(60), <2>5 DEF First, OK
<1> QED BY SMTT(60), <1>1, <1>2

\* What Outside leaves of the first i tokens.
Leaving(f, s, open, close, Tok) ==
  /\ f \in [0 .. Len(s) -> Seq(Tok)]
  /\ f[0] = <<>>
  /\ \A i \in 1 .. Len(s) :
       f[i] = IF InSpan(s, i, open, close) THEN f[i - 1] ELSE Append(f[i - 1], s[i])

\* Outside's result is the last value of such a function.
OutsideFrom(s, open, close, Tok) ==
  \E f : Leaving(f, s, open, close, Tok) /\ Outside(s, open, close) = f[Len(s)]

\* Outside is computed token by token.
LEMMA OutsideSteps ==
  ASSUME NEW Tok, NEW s \in Seq(Tok), NEW open, NEW close
  PROVE  OutsideFrom(s, open, close, Tok)
<1> DEFINE n == Len(s)
           S == Seq(Tok)
           step(x, i) == IF InSpan(s, i, open, close) THEN x ELSE Append(x, s[i])
           D == [p \in S \X Int |-> IF p[2] \in 1 .. n THEN step(p[1], p[2]) ELSE p[1]]
           upTo[i \in 0 .. n] ==
             IF i = 0 THEN <<>>
             ELSE IF InSpan(s, i, open, close) THEN upTo[i - 1] ELSE Append(upTo[i - 1], s[i])
<1> HIDE DEF upTo
<1>1. n \in Int /\ 0 <= n /\ 0 \in Int /\ 0 + 1 = 1 /\ <<>> \in S
  OBVIOUS
<1>2. ASSUME NEW x \in S, NEW i \in 1 .. n PROVE step(x, i) \in S
  <2> HIDE DEF D
  <2>1. s[i] \in Tok
    OBVIOUS
  <2>2. Append(x, s[i]) \in S
    BY <2>1
  <2> QED BY ZenonT(60), <2>2
<1> HIDE DEF step, S
<1>3. D \in [S \X Int -> S]
  BY SMTT(60), <1>2
<1>4. \A x \in S, i \in 1 .. n : D[<<x, i>>] = step(x, i)
  BY SMTT(60)
<1> HIDE DEF D, n
<1>5. upTo = [i \in 0 .. n |-> IF i = 0 THEN <<>> ELSE step(upTo[i - 1], i)]
  <2>1. PICK h : Follows(h, 0, n, S, <<>>, D)
    BY ZenonT(60), <1>1, <1>3, Recursion
  <2>2. h \in [0 .. n -> S] /\ h[0] = <<>> /\ \A i \in 1 .. n : h[i] = D[<<h[i - 1], i>>]
    BY ZenonT(60), <1>1, <2>1 DEF Follows
  <2>3. \A i \in 1 .. n : h[i - 1] \in S
    BY <1>1, <2>2
  <2>4. \A i \in 1 .. n : h[i] = step(h[i - 1], i)
    BY ZenonT(60), <1>4, <2>2, <2>3
  <2>5. \A i \in 0 .. n : i # 0 => i \in 1 .. n
    BY <1>1
  <2>6. h = [i \in 0 .. n |-> IF i = 0 THEN <<>> ELSE step(h[i - 1], i)]
    BY ZenonT(60), <2>2, <2>4, <2>5
  <2> QED BY ZenonT(60), <2>6 DEF step, upTo
<1>6. upTo[0] = <<>> /\ \A i \in 1 .. n : upTo[i] = step(upTo[i - 1], i)
  <2>1. 0 \in 0 .. n /\ \A i \in 1 .. n : i \in 0 .. n /\ i # 0
    BY <1>1
  <2> QED BY ZenonT(60), <1>5, <2>1
<1>7. Follows(upTo, 0, n, S, <<>>, D)
  <2>1. upTo = [i \in 0 .. n |-> upTo[i]]
    BY ZenonT(60), <1>5
  <2>2. ASSUME NEW i \in 0 + 1 .. n, upTo[i - 1] \in S PROVE upTo[i] = D[<<upTo[i - 1], i>>]
    BY ZenonT(60), <1>1, <1>4, <1>6, <2>2
  <2> QED BY ZenonT(60), <1>1, <1>3, <1>6, <2>1, <2>2, Computed
<1>8. Leaving(upTo, s, open, close, Tok)
  BY ZenonT(60), <1>6, <1>7 DEF Follows, Leaving, step, n, S
<1>9. Outside(s, open, close) = upTo[Len(s)]
  BY DEF Outside, upTo, n
<1> QED BY ZenonT(60), <1>8, <1>9 DEF OutsideFrom

\* No token of c .. m is in a span, and all of them are.
Free(s, c, m, open, close) == \A i \in c .. m : ~InSpan(s, i, open, close)

Covered(s, c, m, open, close) == \A i \in c .. m : InSpan(s, i, open, close)

\* The tokens c .. m are a part of s, f gives what is left of s, and Free or Covered holds.
Part(s, c, m, Tok) == s \in Seq(Tok) /\ c \in 1 .. Len(s) + 1 /\ m \in c - 1 .. Len(s)

KeptPart(f, s, c, m, open, close, Tok) ==
  Leaving(f, s, open, close, Tok) /\ Part(s, c, m, Tok) /\ Free(s, c, m, open, close)

DroppedPart(f, s, c, m, open, close, Tok) ==
  Leaving(f, s, open, close, Tok) /\ Part(s, c, m, Tok) /\ Covered(s, c, m, open, close)

\* The tokens c .. m are left as they are.
Keeps(f, s, c, m) == f[m] = f[c - 1] \o SubSeq(s, c, m)

\* A part without spans is kept.
LEMMA Kept ==
  ASSUME NEW f, NEW s, NEW c, NEW m, NEW open, NEW close, NEW Tok,
         KeptPart(f, s, c, m, open, close, Tok)
  PROVE  Keeps(f, s, c, m)
<1> /\ s \in Seq(Tok) /\ c \in 1 .. Len(s) + 1 /\ m \in c - 1 .. Len(s)
    /\ Leaving(f, s, open, close, Tok) /\ Free(s, c, m, open, close)
  BY ZenonT(60) DEF KeptPart, Part
<1> DEFINE T == {i \in c - 1 .. m : f[i] = f[c - 1] \o SubSeq(s, c, i)}
<1>1. c - 1 \in Int /\ m \in Int /\ m \in c - 1 .. m /\ c - 1 \in c - 1 .. m /\ c - 1 \in 0 .. Len(s)
  OBVIOUS
<1>2. PICK u \in Seq(Tok) : u = f[c - 1]
  <2>1. f[c - 1] \in Seq(Tok)
    BY ZenonT(60), <1>1 DEF Leaving
  <2> QED BY <2>1
<1>3. c - 1 \in T
  <2>1. SubSeq(s, c, c - 1) = <<>> /\ u \o <<>> = u
    OBVIOUS
  <2> QED BY ZenonT(60), <1>1, <1>2, <2>1
<1>4. ASSUME NEW i \in (c - 1) + 1 .. m, i - 1 \in T PROVE i \in T
  <2>1. i \in c .. m /\ i \in 1 .. Len(s) /\ i \in c - 1 .. m /\ i - 1 \in 0 .. Len(s)
    OBVIOUS
  <2>2. f[i] = Append(f[i - 1], s[i])
    BY ZenonT(60), <2>1 DEF Leaving, Free
  <2>3. f[i - 1] = u \o SubSeq(s, c, i - 1)
    BY ZenonT(60), <1>2, <1>4
  <2>4. SubSeq(s, c, i - 1) \in Seq(Tok) /\ s[i] \in Tok
    BY <2>1
  <2>5. Append(SubSeq(s, c, i - 1), s[i]) = SubSeq(s, c, i)
    BY <2>1
  <2>6. PICK v \in Seq(Tok), t \in Tok : v = SubSeq(s, c, i - 1) /\ t = s[i]
    BY ZenonT(60), <2>4
  <2>7. Append(u \o v, t) = u \o Append(v, t)
    <3>1. Moves(u, v, t)
      BY ZenonT(60), AppendJoin
    <3> QED BY ZenonT(60), <3>1 DEF Moves
  <2>8. f[i] = u \o SubSeq(s, c, i)
    BY ZenonT(60), <2>2, <2>3, <2>5, <2>6, <2>7
  <2> QED BY ZenonT(60), <1>2, <2>1, <2>8
<1> HIDE DEF T
<1>5. m \in T
  <2>1. \A i \in c - 1 .. m : i \in T
    BY ZenonT(60), <1>1, <1>3, <1>4, Induction
  <2> QED BY ZenonT(60), <1>1, <2>1
<1> QED BY ZenonT(60), <1>5 DEF T, Keeps

\* A part inside of spans is dropped.
LEMMA Dropped ==
  ASSUME NEW f, NEW s, NEW c, NEW m, NEW open, NEW close, NEW Tok,
         DroppedPart(f, s, c, m, open, close, Tok)
  PROVE  f[m] = f[c - 1]
<1> /\ s \in Seq(Tok) /\ c \in 1 .. Len(s) + 1 /\ m \in c - 1 .. Len(s)
    /\ Leaving(f, s, open, close, Tok) /\ Covered(s, c, m, open, close)
  BY ZenonT(60) DEF DroppedPart, Part
<1> DEFINE T == {i \in c - 1 .. m : f[i] = f[c - 1]}
<1>1. c - 1 \in Int /\ m \in Int /\ m \in c - 1 .. m /\ c - 1 \in c - 1 .. m
  OBVIOUS
<1>2. c - 1 \in T
  BY ZenonT(60), <1>1
<1>3. ASSUME NEW i \in (c - 1) + 1 .. m, i - 1 \in T PROVE i \in T
  <2>1. i \in c .. m /\ i \in 1 .. Len(s) /\ i \in c - 1 .. m
    OBVIOUS
  <2>2. f[i] = f[i - 1]
    BY ZenonT(60), <2>1 DEF Leaving, Covered
  <2> QED BY ZenonT(60), <1>3, <2>1, <2>2
<1> HIDE DEF T
<1>4. \A i \in c - 1 .. m : i \in T
  BY ZenonT(60), <1>1, <1>2, <1>3, Induction
<1> QED BY ZenonT(60), <1>1, <1>4 DEF T

\* No span is open before token c.
Clear(s, c, open, close) ==
  \A o \in 1 .. c - 1 : s[o] = open => \E j \in o .. c - 1 : s[j] = close

\* What Strip leaves from token c on.
Stripping(g, s, open, close, Tok) ==
  /\ g \in [1 .. Len(s) + 1 -> Seq(Tok)]
  /\ \A c \in 1 .. Len(s) + 1 :
       LET o == IndexFrom(s, open, c)
           e == IndexFrom(s, close, o)
       IN  g[c] = IF o = 0 THEN From(s, c)
                  ELSE SubSeq(s, c, o - 1) \o IF e = 0 THEN <<>> ELSE g[e + 1]

\* Strip's result is the first value of such a function.
StripsFrom(s, open, close, Tok) ==
  \E g : Stripping(g, s, open, close, Tok) /\ Strip(s, open, close) = g[1]

\* Strip is computed span by span.
LEMMA StripSteps ==
  ASSUME NEW Tok, NEW s \in Seq(Tok), NEW open, NEW close
  PROVE  StripsFrom(s, open, close, Tok)
<1> DEFINE n == Len(s) + 1
           O(c) == IndexFrom(s, open, c)
           E(c) == IndexFrom(s, close, O(c))
           pre == [c \in 1 .. n |-> IF O(c) = 0 THEN From(s, c) ELSE SubSeq(s, c, O(c) - 1)]
           nx == [c \in 1 .. n |-> IF O(c) = 0 THEN 0 ELSE IF E(c) = 0 THEN 0 ELSE E(c) + 1]
           left[cursor \in 1 .. Len(s) + 1] ==
             LET o == IndexFrom(s, open, cursor)
                 e == IndexFrom(s, close, o)
             IN  IF o = 0 THEN From(s, cursor)
                 ELSE SubSeq(s, cursor, o - 1) \o IF e = 0 THEN <<>> ELSE left[e + 1]
<1> HIDE DEF left
<1>1. n \in Nat /\ 1 \in 1 .. n
  BY SMTT(60)
<1>2. ASSUME NEW c \in 1 .. n
      PROVE  /\ O(c) = 0 \/ O(c) \in c .. Len(s)
             /\ O(c) # 0 => E(c) = 0 \/ E(c) \in O(c) .. Len(s)
  <2>1. First(s, open, c, O(c))
    BY SMTT(60), FirstFound
  <2>2. O(c) = 0 \/ O(c) \in c .. Len(s)
    BY ZenonT(60), <2>1 DEF First
  <2>3. ASSUME O(c) # 0 PROVE E(c) = 0 \/ E(c) \in O(c) .. Len(s)
    <3>1. PICK o \in 1 .. Len(s) + 1 : o = O(c)
      BY SMTT(60), <2>2, <2>3
    <3>2. First(s, close, o, IndexFrom(s, close, o))
      BY FirstFound
    <3> QED BY <3>1, <3>2 DEF First
  <2> QED BY SMTT(60), <2>2, <2>3
<1>3. pre \in [1 .. n -> Seq(Tok)]
  <2>1. ASSUME NEW c \in 1 .. n PROVE From(s, c) \in Seq(Tok)
    BY DEF From
  <2>2. ASSUME NEW c \in 1 .. n, O(c) # 0 PROVE SubSeq(s, c, O(c) - 1) \in Seq(Tok)
    <3>1. PICK o \in 1 .. Len(s) : o = O(c)
      BY SMTT(60), <1>2, <2>2
    <3>2. SubSeq(s, c, o - 1) \in Seq(Tok)
      OBVIOUS
    <3> QED BY ZenonT(60), <3>1, <3>2
  <2> HIDE DEF O
  <2> QED BY ZenonT(60), <2>1, <2>2
<1>4. nx \in [1 .. n -> 0 .. n] /\ \A c \in 1 .. n : nx[c] = 0 \/ nx[c] > c
  <2> DEFINE N(c) == IF O(c) = 0 THEN 0 ELSE IF E(c) = 0 THEN 0 ELSE E(c) + 1
  <2>1. ASSUME NEW c \in 1 .. n PROVE N(c) \in 0 .. n /\ (N(c) = 0 \/ N(c) > c)
    <3>1. CASE O(c) = 0 \/ E(c) = 0
      BY <3>1
    <3>2. CASE O(c) # 0 /\ E(c) # 0
      <4>1. N(c) = E(c) + 1 /\ E(c) \in O(c) .. Len(s) /\ O(c) \in c .. Len(s)
        BY ZenonT(60), <1>2, <3>2
      <4> HIDE DEF N, O, E
      <4> QED BY <4>1
    <3> QED BY SMTT(60), <3>1, <3>2
  <2>2. nx = [c \in 1 .. n |-> N(c)]
    OBVIOUS
  <2> HIDE DEF N, nx
  <2>3. \A c \in 1 .. n : nx[c] = N(c)
    BY ZenonT(60), <2>2
  <2> QED BY ZenonT(60), <2>1, <2>2, <2>3
<1>5. PICK h : Chained(h, n, Tok, pre, nx)
  <2> HIDE DEF pre, nx, n
  <2> QED BY ZenonT(60), <1>1, <1>3, <1>4, Chain
<1> DEFINE piece(g, c) == IF O(c) = 0 THEN From(s, c)
                         ELSE SubSeq(s, c, O(c) - 1) \o IF E(c) = 0 THEN <<>> ELSE g[E(c) + 1]
<1>6. \A c \in 1 .. n : h[c] = piece(h, c)
  <2>1. ASSUME NEW c \in 1 .. n PROVE h[c] = piece(h, c)
    <3>1. h[c] = pre[c] \o IF nx[c] = 0 THEN <<>> ELSE h[nx[c]]
      <4> HIDE DEF pre, nx, n
      <4> QED BY ZenonT(60), <1>5 DEF Chained
    <3>2. CASE O(c) = 0
      <4>1. nx[c] = 0 /\ pre[c] = From(s, c)
        BY <3>2
      <4>2. From(s, c) \in Seq(Tok)
        BY DEF From
      <4>3. From(s, c) \o <<>> = From(s, c)
        BY ZenonT(60), <4>2, JoinEmpty
      <4> HIDE DEF pre, nx, n, O, E
      <4> QED BY ZenonT(60), <3>1, <3>2, <4>1, <4>3
    <3>3. CASE O(c) # 0 /\ E(c) = 0
      <4>1. nx[c] = 0 /\ pre[c] = SubSeq(s, c, O(c) - 1)
        BY ZenonT(60), <3>3
      <4> HIDE DEF pre, nx, n, O, E
      <4> QED BY ZenonT(60), <3>1, <3>3, <4>1
    <3>4. CASE O(c) # 0 /\ E(c) # 0
      <4>1. nx[c] = E(c) + 1 /\ pre[c] = SubSeq(s, c, O(c) - 1)
        BY ZenonT(60), <3>4
      <4>2. E(c) + 1 # 0
        <5>1. E(c) \in O(c) .. Len(s) /\ O(c) \in c .. Len(s)
          BY ZenonT(60), <1>2, <3>4
        <5> HIDE DEF O, E
        <5> QED BY <5>1
      <4> HIDE DEF pre, nx, n, O, E
      <4> QED BY ZenonT(60), <3>1, <3>4, <4>1, <4>2
    <3> QED BY SMTT(60), <3>2, <3>3, <3>4
  <2> QED BY SMTT(60), <2>1
<1>7. h = [c \in 1 .. n |-> piece(h, c)]
  <2> HIDE DEF piece, pre, nx, n
  <2> QED BY ZenonT(60), <1>5, <1>6 DEF Chained
<1>8. left = [c \in 1 .. n |-> piece(left, c)]
  BY ZenonT(60), <1>7 DEF left
<1>9. \A c \in 1 .. n : left[c] = piece(left, c)
  <2> HIDE DEF piece, n
  <2> QED BY ZenonT(60), <1>8
<1>10. \A c \in 1 .. n : left[c] \in Seq(Tok)
  <2> DEFINE T == {k \in 0 .. n : \A c \in (n + 1) - k .. n : left[c] \in Seq(Tok)}
  <2>1. n \in Int /\ 0 \in Int /\ n \in 0 .. n /\ \A c \in 1 .. n : c \in (n + 1) - n .. n
    BY <1>1
  <2>2. 0 \in T
    <3> HIDE DEF n
    <3>1. 0 \in 0 .. n /\ \A c \in (n + 1) - 0 .. n : FALSE
      BY SMTT(60), <1>1
    <3> QED BY ZenonT(60), <3>1
  <2>3. ASSUME NEW k \in 0 + 1 .. n, k - 1 \in T PROVE k \in T
    <3>1. PICK c \in 1 .. n : c = (n + 1) - k
      <4> HIDE DEF n
      <4>1. (n + 1) - k \in 1 .. n
        BY <1>1
      <4> QED BY SMTT(60), <4>1
    <3>2. k \in 0 .. n /\ \A d \in c .. n : d = c \/ d \in (n + 1) - (k - 1) .. n
      <4> HIDE DEF n
      <4> QED BY SMTT(60), <1>1, <3>1
    <3>3. \A d \in (n + 1) - (k - 1) .. n : left[d] \in Seq(Tok)
      BY ZenonT(60), <2>3
    <3>4. CASE O(c) = 0 \/ E(c) = 0
      <4>1. pre[c] \in Seq(Tok)
        <5> HIDE DEF n, pre
        <5> QED BY ZenonT(60), <1>3
      <4>2. left[c] = pre[c] \/ left[c] = pre[c] \o <<>>
        <5> HIDE DEF n, O, E
        <5> QED BY ZenonT(60), <1>9, <3>4
      <4>3. pre[c] \o <<>> = pre[c]
        <5> HIDE DEF n, pre
        <5> QED BY ZenonT(60), <4>1, JoinEmpty
      <4>4. left[c] \in Seq(Tok)
        <5> HIDE DEF n, pre
        <5> QED BY ZenonT(60), <4>1, <4>2, <4>3
      <4> HIDE DEF n
      <4> QED BY ZenonT(60), <3>1, <3>2, <3>3, <4>4
    <3>5. CASE O(c) # 0 /\ E(c) # 0
      <4>1. E(c) \in O(c) .. Len(s) /\ O(c) \in c .. Len(s)
        <5> HIDE DEF n, O, E
        <5> QED BY ZenonT(60), <1>2, <3>5
      <4>2. PICK o \in Nat, e \in Nat : o = O(c) /\ e = E(c) /\ c <= o /\ o <= e /\ e <= Len(s)
        <5> HIDE DEF O, E
        <5> QED BY SMTT(60), <4>1
      <4>3. e + 1 \in (n + 1) - (k - 1) .. n
        BY SMTT(60), <3>1, <4>2
      <4>4. left[e + 1] \in Seq(Tok)
        <5> HIDE DEF n
        <5> QED BY ZenonT(60), <3>3, <4>3
      <4>5. SubSeq(s, c, o - 1) \in Seq(Tok)
        BY SMTT(60), <4>2
      <4>6. SubSeq(s, c, o - 1) \o left[e + 1] \in Seq(Tok)
        BY SMTT(60), <4>4, <4>5
      <4>7. left[c] = SubSeq(s, c, o - 1) \o left[e + 1]
        <5> HIDE DEF n, O, E
        <5> QED BY ZenonT(60), <1>9, <3>5, <4>2
      <4> HIDE DEF n
      <4> QED BY ZenonT(60), <3>1, <3>2, <3>3, <4>6, <4>7
    <3> QED BY SMTT(60), <3>4, <3>5
  <2> HIDE DEF T, n
  <2>4. \A k \in 0 .. n : k \in T
    BY ZenonT(60), <2>1, <2>2, <2>3, Induction
  <2>5. n \in T
    BY ZenonT(60), <2>1, <2>4
  <2> QED BY ZenonT(60), <2>1, <2>5 DEF T
<1>11. left \in [1 .. n -> Seq(Tok)]
  <2> HIDE DEF piece, n
  <2> QED BY ZenonT(60), <1>8, <1>9, <1>10
<1>12. Stripping(left, s, open, close, Tok)
  BY ZenonT(60), <1>9, <1>11 DEF Stripping
<1>13. Strip(s, open, close) = left[1]
  BY DEF Strip, left
<1> QED BY ZenonT(60), <1>12, <1>13 DEF StripsFrom

\* Outside of a span, up to the next opening tag, nothing is in a span.
LEMMA UntilOpen ==
  ASSUME NEW Tok, NEW s \in Seq(Tok), NEW open, NEW close, NEW c \in 1 .. Len(s) + 1,
         Clear(s, c, open, close), NEW m \in c - 1 .. Len(s), \A i \in c .. m : s[i] # open
  PROVE  Free(s, c, m, open, close)
<1> SUFFICES ASSUME NEW i \in c .. m, NEW o \in 1 .. i, s[o] = open,
                    \A j \in o .. i - 1 : s[j] # close
             PROVE  FALSE
  BY DEF InSpan, Free
<1>1. o \in 1 .. c - 1
  BY SMTT(60)
<1>2. PICK j \in o .. c - 1 : s[j] = close
  BY SMTT(60), <1>1 DEF Clear
<1>3. j \in o .. i - 1
  BY <1>1
<1> QED BY SMTT(60), <1>2, <1>3

\* From an opening tag up to the next closing one everything is.
LEMMA UntilClose ==
  ASSUME NEW Tok, NEW s \in Seq(Tok), NEW open, NEW close, NEW o \in 1 .. Len(s), s[o] = open,
         NEW m \in o .. Len(s), \A i \in o .. m - 1 : s[i] # close
  PROVE  Covered(s, o, m, open, close)
<1> USE DEF Covered
<1> TAKE i \in o .. m
<1>1. o \in 1 .. i /\ \A j \in o .. i - 1 : s[j] # close
  OBVIOUS
<1> QED BY SMTT(60), <1>1 DEF InSpan

\* After a closing tag no span is open.
LEMMA AfterClose ==
  ASSUME NEW Tok, NEW s \in Seq(Tok), NEW open, NEW close, NEW e \in 1 .. Len(s), s[e] = close
  PROVE  Clear(s, e + 1, open, close)
<1> SUFFICES ASSUME NEW o \in 1 .. (e + 1) - 1 PROVE \E j \in o .. (e + 1) - 1 : s[j] = close
  BY DEF Clear
<1>1. e \in o .. (e + 1) - 1
  OBVIOUS
<1> QED BY <1>1

\* The loop of stripThinkBlocks and stripThinkAndToolCalls leaves exactly the tokens
\* that stand in no span, for any text: nested, repeated, unopened and unclosed tags
\* included.
THEOREM StripIsOutside ==
  ASSUME NEW Tok, NEW s \in Seq(Tok), NEW open, NEW close
  PROVE  Strip(s, open, close) = Outside(s, open, close)
<1>1. PICK f : Leaving(f, s, open, close, Tok) /\ Outside(s, open, close) = f[Len(s)]
  <2>1. OutsideFrom(s, open, close, Tok)
    BY ZenonT(60), OutsideSteps
  <2> QED BY ZenonT(60), <2>1 DEF OutsideFrom
<1>2. PICK g : Stripping(g, s, open, close, Tok) /\ Strip(s, open, close) = g[1]
  <2>1. StripsFrom(s, open, close, Tok)
    BY ZenonT(60), StripSteps
  <2> QED BY ZenonT(60), <2>1 DEF StripsFrom
<1>3. PICK n \in Nat : n = Len(s)
  OBVIOUS
<1> DEFINE Splits(c) == Clear(s, c, open, close) => f[n] = f[c - 1] \o g[c]
           T == {k \in 0 .. n + 1 : \A c \in (n + 2) - k .. n + 1 : Splits(c)}
<1>4. ASSUME NEW i \in 0 .. n PROVE f[i] \in Seq(Tok)
  BY ZenonT(60), <1>1, <1>3 DEF Leaving
<1>5. ASSUME NEW c \in 1 .. n + 1, Clear(s, c, open, close), \A d \in c + 1 .. n + 1 : Splits(d)
      PROVE  f[n] = f[c - 1] \o g[c]
  <2>1. PICK o : o = IndexFrom(s, open, c) /\ First(s, open, c, o)
    BY ZenonT(60), <1>3, FirstFound
  <2>2. PICK e : e = IndexFrom(s, close, o)
    OBVIOUS
  <2>3. g[c] = IF o = 0 THEN From(s, c)
               ELSE SubSeq(s, c, o - 1) \o IF e = 0 THEN <<>> ELSE g[e + 1]
    BY ZenonT(60), <1>2, <1>3, <2>1, <2>2 DEF Stripping
  <2>4. PICK u \in Seq(Tok) : u = f[c - 1]
    <3>1. c - 1 \in 0 .. n
      OBVIOUS
    <3>2. f[c - 1] \in Seq(Tok)
      BY ZenonT(60), <1>4, <3>1
    <3> QED BY ZenonT(60), <3>2
  <2>5. CASE o = 0
    <3>1. c \in 1 .. Len(s) + 1 /\ n \in c - 1 .. Len(s)
      BY <1>3
    <3>2. 0 \notin c .. Len(s)
      BY <3>1
    <3>3. \A i \in c .. n : s[i] # open
      BY ZenonT(60), <1>3, <2>1, <2>5, <3>2 DEF First
    <3>4. Free(s, c, n, open, close)
      BY ZenonT(60), <1>5, <3>1, <3>3, UntilOpen
    <3>5. f[n] = f[c - 1] \o SubSeq(s, c, n)
      <4>1. KeptPart(f, s, c, n, open, close, Tok)
        BY ZenonT(60), <1>1, <3>1, <3>4 DEF KeptPart, Part
      <4>2. Keeps(f, s, c, n)
        BY ZenonT(60), <4>1, Kept
      <4> QED BY ZenonT(60), <4>2 DEF Keeps
    <3> QED BY ZenonT(60), <1>3, <2>3, <2>5, <3>5 DEF From
  <2>6. CASE o # 0
    <3>1. o \in c .. Len(s) /\ s[o] = open /\ \A i \in c .. o - 1 : s[i] # open
      BY ZenonT(60), <2>1, <2>6 DEF First
    <3>2. o \in c .. Len(s)
      BY ZenonT(60), <3>1
    <3>3. /\ c \in 1 .. Len(s) + 1 /\ o - 1 \in c - 1 .. Len(s) /\ o \in 1 .. Len(s)
          /\ o \in 1 .. Len(s) + 1 /\ o - 1 \in 0 .. n /\ n \in o .. Len(s) /\ n \in o - 1 .. Len(s)
      BY SMTT(60), <1>3, <3>2
    <3>4. Free(s, c, o - 1, open, close)
      BY ZenonT(60), <1>5, <3>1, <3>3, UntilOpen
    <3>5. f[o - 1] = u \o SubSeq(s, c, o - 1)
      <4>1. KeptPart(f, s, c, o - 1, open, close, Tok)
        BY ZenonT(60), <1>1, <3>3, <3>4 DEF KeptPart, Part
      <4>2. Keeps(f, s, c, o - 1)
        BY ZenonT(60), <4>1, Kept
      <4> QED BY ZenonT(60), <2>4, <4>2 DEF Keeps
    <3>6. First(s, close, o, e)
      BY ZenonT(60), <2>2, <3>3, FirstFound
    <3>7. CASE e = 0
      <4>1. 0 \notin o .. Len(s)
        BY <3>3
      <4>2. \A i \in o .. n - 1 : s[i] # close
        <5>1. \A i \in o .. Len(s) : s[i] # close
          BY ZenonT(60), <3>6, <3>7, <4>1 DEF First
        <5>2. \A i \in o .. n - 1 : i \in o .. Len(s)
          BY <1>3, <3>3
        <5> QED BY ZenonT(60), <5>1, <5>2
      <4>3. Covered(s, o, n, open, close)
        BY ZenonT(60), <3>1, <3>3, <4>2, UntilClose
      <4>4. f[n] = f[o - 1]
        <5>1. DroppedPart(f, s, o, n, open, close, Tok)
          BY ZenonT(60), <1>1, <3>3, <4>3 DEF DroppedPart, Part
        <5> QED BY ZenonT(60), <5>1, Dropped
      <4>5. SubSeq(s, c, o - 1) \in Seq(Tok)
        BY <3>3
      <4>6. SubSeq(s, c, o - 1) \o <<>> = SubSeq(s, c, o - 1)
        BY ZenonT(60), <4>5, JoinEmpty
      <4> QED BY ZenonT(60), <2>3, <2>4, <2>6, <3>5, <3>7, <4>4, <4>6
    <3>8. CASE e # 0
      <4>1. e \in o .. Len(s) /\ s[e] = close /\ \A i \in o .. e - 1 : s[i] # close
        BY ZenonT(60), <3>6, <3>8 DEF First
      <4>2. e \in o .. Len(s)
        BY ZenonT(60), <4>1
      <4>3. /\ e \in 1 .. Len(s) /\ e \in o - 1 .. Len(s) /\ e + 1 \in c + 1 .. n + 1
            /\ (e + 1) - 1 = e /\ e + 1 \in 1 .. Len(s) + 1
        BY <1>3, <3>2, <4>2
      <4>4. Covered(s, o, e, open, close)
        BY ZenonT(60), <3>1, <3>3, <4>1, UntilClose
      <4>5. f[e] = f[o - 1]
        <5>1. DroppedPart(f, s, o, e, open, close, Tok)
          BY ZenonT(60), <1>1, <3>3, <4>3, <4>4 DEF DroppedPart, Part
        <5> QED BY ZenonT(60), <5>1, Dropped
      <4>6. Clear(s, e + 1, open, close)
        BY ZenonT(60), <4>1, <4>3, AfterClose
      <4>7. f[n] = f[e] \o g[e + 1]
        BY ZenonT(60), <1>5, <4>3, <4>6
      <4>8. PICK v \in Seq(Tok), w \in Seq(Tok) : v = SubSeq(s, c, o - 1) /\ w = g[e + 1]
        <5>1. SubSeq(s, c, o - 1) \in Seq(Tok)
          BY <3>3
        <5>2. g[e + 1] \in Seq(Tok)
          BY ZenonT(60), <1>2, <4>3 DEF Stripping
        <5> QED BY ZenonT(60), <5>1, <5>2
      <4>9. (u \o v) \o w = u \o (v \o w)
        OBVIOUS
      <4> QED BY ZenonT(60), <2>3, <2>4, <2>6, <3>5, <3>8, <4>5, <4>7, <4>8, <4>9
    <3> QED BY ZenonT(60), <3>7, <3>8
  <2> QED BY ZenonT(60), <2>5, <2>6
<1>6. 0 \in T
  <2>1. 0 \in 0 .. n + 1 /\ \A c \in (n + 2) - 0 .. n + 1 : FALSE
    OBVIOUS
  <2> QED BY ZenonT(60), <2>1
<1>7. ASSUME NEW k \in 0 + 1 .. n + 1, k - 1 \in T PROVE k \in T
  <2>1. PICK c \in 1 .. n + 1 : c = (n + 2) - k
    <3>1. (n + 2) - k \in 1 .. n + 1
      OBVIOUS
    <3> QED BY <3>1
  <2>2. k \in 0 .. n + 1 /\ c + 1 = (n + 2) - (k - 1) /\ \A d \in c .. n + 1 : d = c \/ d \in c + 1 .. n + 1
    BY <2>1
  <2>3. \A d \in c + 1 .. n + 1 : Splits(d)
    BY ZenonT(60), <1>7, <2>2
  <2>4. Splits(c)
    BY ZenonT(60), <1>5, <2>3
  <2> HIDE DEF Splits
  <2> QED BY ZenonT(60), <2>1, <2>2, <2>3, <2>4
<1>8. Splits(1)
  <2>1. n + 1 \in Int /\ 0 \in Int /\ n + 1 \in 0 .. n + 1 /\ 1 \in (n + 2) - (n + 1) .. n + 1
    OBVIOUS
  <2>2. n + 1 \in T
    <3> HIDE DEF T
    <3>1. \A k \in 0 .. n + 1 : k \in T
      BY ZenonT(60), <1>6, <1>7, <2>1, Induction
    <3> QED BY ZenonT(60), <2>1, <3>1
  <2> HIDE DEF Splits
  <2> QED BY ZenonT(60), <2>1, <2>2
<1>9. Clear(s, 1, open, close)
  BY DEF Clear
<1>10. g[1] \in Seq(Tok) /\ f[1 - 1] = <<>>
  <2>1. 1 \in 1 .. Len(s) + 1 /\ 1 - 1 = 0
    OBVIOUS
  <2> QED BY ZenonT(60), <1>1, <1>2, <2>1 DEF Stripping, Leaving
<1>11. <<>> \o g[1] = g[1]
  BY ZenonT(60), <1>10, JoinEmpty
<1> QED BY ZenonT(60), <1>1, <1>2, <1>3, <1>8, <1>9, <1>10, <1>11
=============================================================================
