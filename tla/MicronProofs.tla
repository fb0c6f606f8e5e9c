---------------------------- MODULE MicronProofs ----------------------------
(***************************************************************************)
(* What parse_page makes of any page, however long and of any lines.  A    *)
(* line is read by parse_inline, a fold over its tokens (its steps are     *)
(* unrolled first), and by ReadLine, whose cases LineRead sums up; the     *)
(* invariant says that modes, section, alignment and style are those of    *)
(* the place the parser has reached and that blocks and rows hold the      *)
(* lines that belong there, in order.                                      *)
(***************************************************************************)
EXTENDS Micron, FiniteSetTheorems, WellFoundedInduction, TLAPS

LEMMA LeastNumber ==
    ASSUME NEW T, T \subseteq Nat, T # {}
    PROVE  \E x \in T : \A y \in T : x <= y
<1> DEFINE R == OpToRel(<, Nat)
<1>1. IsWellFoundedOn(R, Nat)
  BY NatLessThanWellFounded
<1>2. ASSUME NEW x \in Nat, NEW y \in Nat, <<x, y>> \notin R PROVE y <= x
  BY <1>2 DEF OpToRel
<1> HIDE DEF R
<1>3. PICK x \in T : \A y \in T : <<y, x>> \notin R
  BY <1>1, WFMin
<1> QED
  BY <1>2, <1>3

-----------------------------------------------------------------------------
(* The fold over the tokens of a line                                      *)

\* What FoldLeft computes by recursion on sets of positions.
Folded(g, b, t, m) ==
    g = [s \in SUBSET (1..m) |->
            IF s = {} THEN b ELSE InlineToken(g[s \ {Max(s)}], t[Max(s)])]

LEMMA MaxIsLast ==
    ASSUME NEW m \in Nat, NEW s \in SUBSET (1..m), m \in s
    PROVE  Max(s) = m
<1>1. \A y \in s : m >= y
  OBVIOUS
<1>2. ASSUME NEW x \in s, \A y \in s : x >= y PROVE x = m
  <2>1. x \in 1..m /\ x >= m
    BY <1>2
  <2> QED BY <2>1
<1> QED
  BY <1>1, <1>2 DEF Max

LEMMA FoldedExists ==
    ASSUME NEW b, NEW t, NEW n \in Nat
    PROVE  \E g : Folded(g, b, t, n)
<1> DEFINE Bad == {m \in Nat : ~\E g : Folded(g, b, t, m)}
<1> SUFFICES Bad = {}
  OBVIOUS
<1> SUFFICES ASSUME Bad # {} PROVE FALSE
  OBVIOUS
<1>1. PICK m \in Bad : \A y \in Bad : m <= y
  BY LeastNumber
<1>2. m # 0
  <2> SUFFICES ASSUME m = 0 PROVE FALSE
    OBVIOUS
  <2> DEFINE g == [s \in SUBSET (1..0) |-> b]
  <2>1. \A s \in SUBSET (1..0) : s = {}
    OBVIOUS
  <2>2. Folded(g, b, t, 0)
    BY <2>1 DEF Folded
  <2> QED BY <2>2
<1>3. m - 1 \in Nat /\ m - 1 \notin Bad
  BY <1>1, <1>2
<1>4. PICK g : Folded(g, b, t, m - 1)
  BY <1>3
<1> DEFINE h == [s \in SUBSET (1..m) |->
                    IF m \in s THEN InlineToken(g[s \ {m}], t[m]) ELSE g[s]]
<1>5. ASSUME NEW s \in SUBSET (1..m)
      PROVE  h[s] = IF s = {} THEN b ELSE InlineToken(h[s \ {Max(s)}], t[Max(s)])
  <2>1. CASE m \in s
    <3>1. Max(s) = m
      BY <2>1, MaxIsLast
    <3>2. s \ {m} \in SUBSET (1..m) /\ m \notin s \ {m}
      OBVIOUS
    <3>3. h[s \ {m}] = g[s \ {m}]
      BY <3>2
    <3> QED BY <2>1, <3>1, <3>3
  <2>2. CASE m \notin s
    <3>1. s \in SUBSET (1..m - 1)
      BY <1>3, <2>2
    <3>2. g[s] = IF s = {} THEN b ELSE InlineToken(g[s \ {Max(s)}], t[Max(s)])
      BY <1>4, <3>1, Zenon DEF Folded
    <3>3. s \ {Max(s)} \in SUBSET (1..m) /\ m \notin s \ {Max(s)}
      BY <2>2
    <3>4. h[s \ {Max(s)}] = g[s \ {Max(s)}]
      BY <3>3
    <3>5. h[s] = g[s]
      BY <2>2
    <3> HIDE DEF h
    <3> QED BY <3>2, <3>4, <3>5
  <2> QED BY <2>1, <2>2
<1>6. Folded(h, b, t, m)
  <2>1. h = [s \in SUBSET (1..m) |-> h[s]]
    OBVIOUS
  <2> HIDE DEF h
  <2> QED BY <1>5, <2>1, Zenon DEF Folded
<1> QED
  BY <1>6

\* The states of parse_inline after each token.
LEMMA FoldSteps ==
    ASSUME NEW b, NEW S, NEW t \in Seq(S)
    PROVE  \E h : /\ h[0] = b
                  /\ \A j \in 1..Len(t) : h[j] = InlineToken(h[j - 1], t[j])
                  /\ h[Len(t)] = FoldLeft(InlineToken, b, t)
<1> DEFINE n == Len(t)
           iter == CHOOSE g : Folded(g, b, t, n)
           h == [j \in 0..n |-> iter[1..j]]
<1>1. n \in Nat /\ DOMAIN t = 1..n
  OBVIOUS
<1>2. FoldLeft(InlineToken, b, t) = iter[1..n]
  BY <1>1 DEF FoldLeft, MapThenFoldSet, Folded
<1>3. Folded(iter, b, t, n)
  BY <1>1, FoldedExists
<1> HIDE DEF iter
<1>4. \A s \in SUBSET (1..n) :
        iter[s] = IF s = {} THEN b ELSE InlineToken(iter[s \ {Max(s)}], t[Max(s)])
  BY <1>3, Zenon DEF Folded
<1>5. iter[1..0] = b
  <2>1. 1..0 = {}
    OBVIOUS
  <2> QED BY <1>4, <2>1
<1>6. ASSUME NEW j \in 1..n PROVE iter[1..j] = InlineToken(iter[1..j - 1], t[j])
  <2>0. j \in Nat /\ j \in 1..j /\ \A i \in 1..j : i \in 1..n
    BY <1>1
  <2>1. 1..j \in SUBSET (1..n) /\ 1..j # {}
    BY <2>0
  <2>2. Max(1..j) = j
    BY <2>0, MaxIsLast
  <2>3. (1..j) \ {j} = 1..j - 1
    BY <2>0
  <2> QED BY <1>4, <2>1, <2>2, <2>3
<1>7. /\ h[0] = b
      /\ \A j \in 1..n : h[j] = InlineToken(h[j - 1], t[j])
      /\ h[n] = iter[1..n]
  BY <1>1, <1>5, <1>6
<1> QED
  BY <1>2, <1>7

-----------------------------------------------------------------------------
(* The text of a line                                                      *)

Forms == {"seconds", "literal", "partial", "comment", "dashes", "table", "heading", "plain", "ruled"}

LEMMA LineFacts ==
    ASSUME NEW line \in Lines
    PROVE  /\ line.is \in Forms
           /\ line.is = "seconds" => line.value \in Nat
           /\ line.is = "table" => line.align \in Alignments \cup {"inherit"}
           /\ line.is = "heading" => line.depth \in 1..255
           /\ line.is \in {"heading", "plain", "ruled"} => line.text \in Seq(Tokens)
           /\ line.is \in {"plain", "ruled"} =>
                line.reset \in BOOLEAN /\ line.align \in Alignments \cup {"inherit"}
           /\ TextOf(line) \in Seq(Tokens)
<1>1. line \in LineForms
  BY MicronAssumption
<1>2. \/ line \in [is : {"seconds"}, value : Nat]
      \/ line \in [is : {"literal", "partial", "comment", "dashes"}]
      \/ line \in [is : {"table"}, align : Alignments \cup {"inherit"}]
      \/ line \in [is : {"heading"}, depth : 1..255, text : Seq(Tokens)]
      \/ line \in [is : {"plain", "ruled"}, reset : BOOLEAN,
                   align : Alignments \cup {"inherit"}, text : Seq(Tokens)]
  BY <1>1, Zenon DEF LineForms
<1>3. /\ line.is \in Forms
      /\ line.is = "seconds" => line.value \in Nat
      /\ line.is = "table" => line.align \in Alignments \cup {"inherit"}
      /\ line.is = "heading" => line.depth \in 1..255
      /\ line.is \in {"heading", "plain", "ruled"} => line.text \in Seq(Tokens)
  BY <1>2 DEF Forms
<1>4. line.is \in {"plain", "ruled"} =>
        line.reset \in BOOLEAN /\ line.align \in Alignments \cup {"inherit"}
  BY <1>2
<1>5. <<"text">> \in Seq(Tokens)
  BY DEF Tokens
<1> QED
  BY <1>3, <1>4, <1>5 DEF TextOf

TextParts == [at : Nat, is : {"text", "link"}, bold : BOOLEAN]

InlineStates == [parts : Seq(TextParts), from : Nat, at : Nat, bold : BOOLEAN]

\* What one token does to the state of parse_inline.
Pushed(s) ==
    IF s.from = 0 THEN s.parts
    ELSE Append(s.parts, [at |-> s.from, is |-> "text", bold |-> s.bold])

LEMMA TokenCases ==
    ASSUME NEW s \in InlineStates, NEW token
    PROVE  /\ token = "text" =>
                InlineToken(s, token) =
                    [parts |-> s.parts, from |-> IF s.from = 0 THEN s.at + 1 ELSE s.from,
                     at |-> s.at + 1, bold |-> s.bold]
           /\ token = "bold" =>
                InlineToken(s, token) =
                    [parts |-> Pushed(s), from |-> 0, at |-> s.at + 1, bold |-> ~s.bold]
           /\ token = "reset" =>
                InlineToken(s, token) =
                    [parts |-> Pushed(s), from |-> 0, at |-> s.at + 1, bold |-> FALSE]
           /\ token = "link" =>
                InlineToken(s, token) =
                    [parts |-> Append(Pushed(s), [at |-> s.at + 1, is |-> "link", bold |-> s.bold]),
                     from |-> 0, at |-> s.at + 1, bold |-> s.bold]
<1> DEFINE t == [s EXCEPT !.at = @ + 1]
           p == PushText(t)
<1>1. t = [parts |-> s.parts, from |-> s.from, at |-> s.at + 1, bold |-> s.bold]
  BY DEF InlineStates
<1>2. p = [parts |-> Pushed(s), from |-> 0, at |-> s.at + 1, bold |-> s.bold]
  BY <1>1 DEF PushText, InlineStates, Pushed
<1>3. /\ token = "text" => InlineToken(s, token) = [t EXCEPT !.from = IF @ = 0 THEN t.at ELSE @]
      /\ token = "bold" => InlineToken(s, token) = [p EXCEPT !.bold = ~@]
      /\ token = "reset" => InlineToken(s, token) = [p EXCEPT !.bold = FALSE]
      /\ token = "link" =>
            InlineToken(s, token) = [p EXCEPT !.parts = Append(@, [at |-> t.at, is |-> "link", bold |-> t.bold])]
  BY Zenon DEF InlineToken
<1> HIDE DEF p, t
<1>4. [t EXCEPT !.from = IF @ = 0 THEN t.at ELSE @]
        = [parts |-> s.parts, from |-> IF s.from = 0 THEN s.at + 1 ELSE s.from,
           at |-> s.at + 1, bold |-> s.bold]
  BY <1>1
<1>0. \A x : [p EXCEPT !.bold = x] = [parts |-> Pushed(s), from |-> 0, at |-> s.at + 1, bold |-> x]
  BY <1>2
<1>5. [p EXCEPT !.bold = ~@] = [parts |-> Pushed(s), from |-> 0, at |-> s.at + 1, bold |-> ~s.bold]
  <2>1. [p EXCEPT !.bold = ~@] = [p EXCEPT !.bold = ~s.bold]
    <3>1. p.bold = s.bold
      BY <1>2
    <3> QED BY <3>1, Zenon
  <2> QED BY <1>0, <2>1, Zenon
<1>6. [p EXCEPT !.bold = FALSE] = [parts |-> Pushed(s), from |-> 0, at |-> s.at + 1, bold |-> FALSE]
  BY <1>0, Zenon
<1>7. [p EXCEPT !.parts = Append(@, [at |-> t.at, is |-> "link", bold |-> t.bold])] =
            [parts |-> Append(Pushed(s), [at |-> s.at + 1, is |-> "link", bold |-> s.bold]),
             from |-> 0, at |-> s.at + 1, bold |-> s.bold]
  <2>1. t.at = s.at + 1 /\ t.bold = s.bold
    BY <1>1
  <2> QED BY <1>2, <2>1
<1> QED
  BY <1>3, <1>4, <1>5, <1>6, <1>7, Zenon

\* B holds the places of a line that are bold; a token changes the style of
\* the places behind it.
Styles(text, B) ==
    \A j \in 1..Len(text) :
        /\ text[j] = "bold" => (j + 1 \in B <=> j \notin B)
        /\ text[j] = "reset" => j + 1 \notin B
        /\ text[j] \notin {"bold", "reset"} => (j + 1 \in B <=> j \in B)

Agrees(parts, B, n) ==
    \A i \in 1..Len(parts) : parts[i].at \in 1..n /\ (parts[i].bold <=> parts[i].at \in B)

InlineOK(s, B, j) ==
    /\ s \in InlineStates
    /\ s.at = j /\ s.from \in 0..j
    /\ s.bold <=> j + 1 \in B
    /\ s.from # 0 => (s.bold <=> s.from \in B)
    /\ Agrees(s.parts, B, j)

LEMMA AgreesAppend ==
    ASSUME NEW B, NEW n \in Nat, NEW parts \in Seq(TextParts), Agrees(parts, B, n),
           NEW k \in Nat, k >= n, NEW part \in TextParts,
           part.at \in 1..k, part.bold <=> part.at \in B
    PROVE  Append(parts, part) \in Seq(TextParts) /\ Agrees(Append(parts, part), B, k)
<1> DEFINE q == Append(parts, part)
<1>1. q \in Seq(TextParts) /\ Len(q) = Len(parts) + 1 /\ Len(parts) \in Nat
  OBVIOUS
<1>2. \A i \in 1..Len(parts) : q[i] = parts[i]
  OBVIOUS
<1>3. q[Len(parts) + 1] = part
  OBVIOUS
<1> HIDE DEF q
<1>4. ASSUME NEW i \in 1..Len(q) PROVE q[i].at \in 1..k /\ (q[i].bold <=> q[i].at \in B)
  <2>1. CASE i \in 1..Len(parts)
    <3>1. parts[i].at \in 1..n /\ (parts[i].bold <=> parts[i].at \in B)
      BY <2>1 DEF Agrees
    <3>2. parts[i].at \in 1..k
      BY <3>1
    <3> QED BY <1>2, <2>1, <3>1, <3>2
  <2>2. CASE i = Len(parts) + 1
    BY <1>3, <2>2
  <2> QED BY <1>1, <2>1, <2>2
<1> QED
  BY <1>1, <1>4 DEF Agrees, q

LEMMA PushedAgrees ==
    ASSUME NEW s, NEW B, NEW j \in Nat, InlineOK(s, B, j)
    PROVE  Pushed(s) \in Seq(TextParts) /\ Agrees(Pushed(s), B, j)
<1>1. /\ s.parts \in Seq(TextParts) /\ Agrees(s.parts, B, j)
      /\ s.from \in 0..j
      /\ s.from # 0 => (s.bold <=> s.from \in B)
      /\ s.bold \in BOOLEAN
  BY DEF InlineOK, InlineStates
<1>2. CASE s.from = 0
  BY <1>1, <1>2 DEF Pushed
<1>3. CASE s.from # 0
  <2> DEFINE part == [at |-> s.from, is |-> "text", bold |-> s.bold]
  <2>1. part \in TextParts /\ part.at \in 1..j /\ part.at = s.from
    BY <1>1, <1>3 DEF TextParts
  <2>2. part.bold = s.bold
    OBVIOUS
  <2>3. part.bold <=> part.at \in B
    BY <1>1, <1>3, <2>1, <2>2, Zenon
  <2> HIDE DEF part
  <2>4. Append(s.parts, part) \in Seq(TextParts) /\ Agrees(Append(s.parts, part), B, j)
    BY <1>1, <2>1, <2>3, AgreesAppend
  <2>5. Pushed(s) = Append(s.parts, part)
    BY <1>3 DEF Pushed, part
  <2> QED BY <2>4, <2>5
<1> QED
  BY <1>2, <1>3

LEMMA AgreesLater ==
    ASSUME NEW B, NEW j \in Nat, NEW parts, Agrees(parts, B, j)
    PROVE  Agrees(parts, B, j + 1)
BY DEF Agrees

LEMMA InlineStep ==
    ASSUME NEW s, NEW B, NEW j \in Nat, InlineOK(s, B, j), NEW token \in Tokens,
           token = "bold" => (j + 2 \in B <=> j + 1 \notin B),
           token = "reset" => j + 2 \notin B,
           token \notin {"bold", "reset"} => (j + 2 \in B <=> j + 1 \in B)
    PROVE  InlineOK(InlineToken(s, token), B, j + 1)
<1> DEFINE r == InlineToken(s, token)
<1>1. /\ s \in InlineStates /\ s.parts \in Seq(TextParts) /\ s.bold \in BOOLEAN
      /\ s.at = j /\ s.from \in 0..j
      /\ s.bold <=> j + 1 \in B
      /\ s.from # 0 => (s.bold <=> s.from \in B)
      /\ Agrees(s.parts, B, j)
  BY DEF InlineOK, InlineStates
<1>2. Pushed(s) \in Seq(TextParts) /\ Agrees(Pushed(s), B, j)
  BY PushedAgrees
<1>3. Agrees(Pushed(s), B, j + 1) /\ Agrees(s.parts, B, j + 1)
  BY <1>1, <1>2, AgreesLater
<1>8. (j + 1) + 1 = j + 2 /\ 0 \in 0..j + 1
  OBVIOUS
<1>4. CASE token = "text"
  <2>1. r = [parts |-> s.parts, from |-> IF s.from = 0 THEN s.at + 1 ELSE s.from,
             at |-> s.at + 1, bold |-> s.bold]
    BY <1>1, <1>4, TokenCases
  <2> HIDE DEF r
  <2>2. r.parts = s.parts /\ r.at = j + 1 /\ r.from = (IF s.from = 0 THEN j + 1 ELSE s.from)
    BY <1>1, <2>1
  <2>3. r.bold = s.bold
    BY <2>1
  <2>4. r \in InlineStates
    BY <1>1, <2>1 DEF InlineStates
  <2>5. s.bold <=> j + 2 \in B
    BY <1>1, <1>4
  <2>6. r.from \in 0..j + 1 /\ (r.from # 0 => (s.bold <=> r.from \in B))
    BY <1>1, <2>2
  <2>7. r.bold <=> (j + 1) + 1 \in B
    BY <1>8, <2>3, <2>5
  <2>8. r.from # 0 => (r.bold <=> r.from \in B)
    BY <2>3, <2>6
  <2> QED
    BY <1>3, <2>2, <2>4, <2>6, <2>7, <2>8, Zenon DEF InlineOK, r
<1>5. CASE token = "bold"
  <2>1. r = [parts |-> Pushed(s), from |-> 0, at |-> s.at + 1, bold |-> ~s.bold]
    BY <1>1, <1>5, TokenCases
  <2> HIDE DEF r
  <2>2. r.parts = Pushed(s) /\ r.at = j + 1 /\ r.from = 0
    BY <1>1, <2>1
  <2>3. r.bold <=> ~s.bold
    BY <2>1
  <2>4. r \in InlineStates
    BY <1>1, <1>2, <2>1 DEF InlineStates
  <2>5. ~s.bold <=> j + 2 \in B
    BY <1>1, <1>5
  <2>6. r.bold <=> (j + 1) + 1 \in B
    BY <1>8, <2>3, <2>5
  <2> QED
    BY <1>3, <1>8, <2>2, <2>4, <2>6, Zenon DEF InlineOK, r
<1>6. CASE token = "reset"
  <2>1. r = [parts |-> Pushed(s), from |-> 0, at |-> s.at + 1, bold |-> FALSE]
    BY <1>1, <1>6, TokenCases
  <2> HIDE DEF r
  <2>2. r.parts = Pushed(s) /\ r.at = j + 1 /\ r.from = 0 /\ ~r.bold
    BY <1>1, <2>1
  <2>3. r \in InlineStates
    BY <1>1, <1>2, <2>1 DEF InlineStates
  <2>4. r.bold <=> (j + 1) + 1 \in B
    BY <1>6, <1>8, <2>2
  <2> QED
    BY <1>3, <1>8, <2>2, <2>3, <2>4, Zenon DEF InlineOK, r
<1>7. CASE token = "link"
  <2> DEFINE part == [at |-> j + 1, is |-> "link", bold |-> s.bold]
  <2>1. r = [parts |-> Append(Pushed(s), part), from |-> 0, at |-> j + 1, bold |-> s.bold]
    BY <1>1, <1>7, TokenCases
  <2>2. part \in TextParts /\ part.at = j + 1
    BY <1>1 DEF TextParts
  <2>3. part.bold = s.bold
    OBVIOUS
  <2>4. part.bold <=> part.at \in B
    BY <1>1, <2>2, <2>3, Zenon
  <2> HIDE DEF part, r
  <2>5. Append(Pushed(s), part) \in Seq(TextParts) /\ Agrees(Append(Pushed(s), part), B, j + 1)
    BY <1>2, <2>2, <2>4, AgreesAppend
  <2>6. r.parts = Append(Pushed(s), part) /\ r.at = j + 1 /\ r.from = 0
    BY <2>1
  <2>7. r.bold = s.bold
    BY <2>1
  <2>8. r \in InlineStates
    BY <1>1, <2>1, <2>5 DEF InlineStates
  <2>9. s.bold <=> j + 2 \in B
    BY <1>1, <1>7
  <2>10. r.bold <=> (j + 1) + 1 \in B
    BY <1>8, <2>7, <2>9
  <2> QED
    BY <1>8, <2>5, <2>6, <2>8, <2>10, Zenon DEF InlineOK, r
<1> QED
  BY <1>4, <1>5, <1>6, <1>7 DEF Tokens

\* parse_inline gives every part of a line the style of its place, and leaves
\* the style of the place behind the line.
LEMMA InlineAgrees ==
    ASSUME NEW text \in Seq(Tokens), NEW bold \in BOOLEAN, NEW B,
           bold <=> 1 \in B, Styles(text, B)
    PROVE  LET r == ParseInline(text, bold) IN
           /\ r.parts \in Seq(TextParts)
           /\ r.bold \in BOOLEAN
           /\ r.bold <=> Len(text) + 1 \in B
           /\ Agrees(r.parts, B, Len(text))
<1> DEFINE s0 == [parts |-> <<>>, from |-> 0, at |-> 0, bold |-> bold]
           n == Len(text)
<1>1. PICK h : /\ h[0] = s0
               /\ \A j \in 1..n : h[j] = InlineToken(h[j - 1], text[j])
               /\ h[n] = FoldLeft(InlineToken, s0, text)
  BY FoldSteps
<1>2. n \in Nat /\ \A j \in 1..n : text[j] \in Tokens
  OBVIOUS
<1>3. InlineOK(s0, B, 0)
  <2>1. <<>> \in Seq(TextParts) /\ Len(<<>>) = 0
    OBVIOUS
  <2>2. s0 \in InlineStates /\ s0.parts = <<>> /\ s0.from = 0 /\ s0.at = 0
    BY <2>1 DEF InlineStates
  <2>3. s0.bold = bold
    OBVIOUS
  <2>4. Agrees(<<>>, B, 0)
    BY <2>1 DEF Agrees
  <2> HIDE DEF s0
  <2> QED BY <2>2, <2>3, <2>4 DEF InlineOK
<1> HIDE DEF s0
<1>4. \A j \in 0..n : InlineOK(h[j], B, j)
  <2> DEFINE Bad == {j \in 0..n : ~InlineOK(h[j], B, j)}
  <2> SUFFICES ASSUME Bad # {} PROVE FALSE
    OBVIOUS
  <2>1. PICK k \in Bad : \A y \in Bad : k <= y
    <3>1. Bad \subseteq Nat
      OBVIOUS
    <3> QED BY <3>1, LeastNumber
  <2>2. k \in 1..n /\ k - 1 \in 0..n /\ k - 1 \in Nat
    BY <1>1, <1>2, <1>3, <2>1
  <2>3. InlineOK(h[k - 1], B, k - 1)
    BY <2>1, <2>2
  <2>4. /\ text[k] = "bold" => (k + 1 \in B <=> k \notin B)
        /\ text[k] = "reset" => k + 1 \notin B
        /\ text[k] \notin {"bold", "reset"} => (k + 1 \in B <=> k \in B)
    BY <2>2 DEF Styles
  <2>5. (k - 1) + 1 = k /\ (k - 1) + 2 = k + 1 /\ text[k] \in Tokens
    BY <1>2, <2>2
  <2>6. InlineOK(InlineToken(h[k - 1], text[k]), B, (k - 1) + 1)
    BY <2>2, <2>3, <2>4, <2>5, InlineStep
  <2>7. InlineOK(h[k], B, k)
    BY <1>1, <2>2, <2>5, <2>6
  <2> QED BY <2>1, <2>7
<1>5. InlineOK(h[n], B, n)
  BY <1>2, <1>4
<1>6. ParseInline(text, bold) = PushText(h[n])
  BY <1>1 DEF ParseInline, s0
<1> DEFINE r == PushText(h[n])
<1>7. h[n] \in InlineStates /\ (h[n].bold <=> n + 1 \in B)
  BY <1>5 DEF InlineOK
<1>8. r.parts = Pushed(h[n]) /\ r.bold = h[n].bold
  BY <1>7 DEF PushText, Pushed, InlineStates
<1>9. r.bold \in BOOLEAN
  BY <1>7, <1>8 DEF InlineStates
<1>10. Pushed(h[n]) \in Seq(TextParts) /\ Agrees(Pushed(h[n]), B, n)
  BY <1>2, <1>5, PushedAgrees
<1> HIDE DEF r
<1> QED
  BY <1>6, <1>7, <1>8, <1>9, <1>10 DEF r

-----------------------------------------------------------------------------
(* Places of commands                                                      *)

\* The bold commands B before a place, since the last of the resets R.
Since(B, R, place) ==
    {x \in B : Precedes(x, place) /\ \A y \in R : Precedes(y, place) => Precedes(y, x)}

LEMMA NextPlace ==
    ASSUME NEW n \in Nat, NEW j \in Nat, NEW x \in Nat \X Nat
    PROVE  /\ Precedes(x, <<n, j + 1>>) <=> Precedes(x, <<n, j>>) \/ x = <<n, j>>
           /\ Precedes(x, <<n, j>>) => ~Precedes(<<n, j>>, x)
           /\ ~Precedes(<<n, j>>, <<n, j>>)
<1>1. PICK a \in Nat, b \in Nat : x = <<a, b>>
  OBVIOUS
<1>2. x[1] = a /\ x[2] = b
  BY <1>1
<1>3. x = <<n, j>> <=> a = n /\ b = j
  BY <1>1
<1> QED
  BY <1>2, <1>3 DEF Precedes

\* How a command at place p changes what counts for the place q behind it.
Turns(B, R, p, q) ==
    /\ p \in B => p \notin Since(B, R, p) /\ Since(B, R, q) = Since(B, R, p) \cup {p}
    /\ p \in R => Since(B, R, q) = {}
    /\ p \notin B \cup R => Since(B, R, q) = Since(B, R, p)

LEMMA SinceNext ==
    ASSUME NEW B, B \subseteq Nat \X Nat, NEW R, R \subseteq Nat \X Nat,
           NEW n \in Nat, NEW j \in Nat, <<n, j>> \notin B \cap R
    PROVE  Turns(B, R, <<n, j>>, <<n, j + 1>>)
<1> DEFINE p == <<n, j>>
           q == <<n, j + 1>>
<1>1. \A x \in Nat \X Nat : Precedes(x, q) <=> Precedes(x, p) \/ x = p
  BY NextPlace
<1>2. \A x \in Nat \X Nat : Precedes(x, p) => ~Precedes(p, x)
  BY NextPlace
<1>0. p \in Nat \X Nat
  OBVIOUS
<1>3. ~Precedes(p, p) /\ p \in Nat \X Nat
  BY <1>0, NextPlace
<1> HIDE DEF p, q
<1>4. ASSUME p \in B
      PROVE  p \notin Since(B, R, p) /\ Since(B, R, q) = Since(B, R, p) \cup {p}
  <2>1. p \notin R
    BY <1>4 DEF p
  <2>2. p \notin Since(B, R, p)
    BY <1>3 DEF Since
  <2>3. ASSUME NEW x \in Since(B, R, q) PROVE x \in Since(B, R, p) \cup {p}
    BY <1>1, <2>1 DEF Since
  <2>4. ASSUME NEW x \in Since(B, R, p) PROVE x \in Since(B, R, q)
    <3>1. x \in B /\ Precedes(x, q)
      BY <1>1 DEF Since
    <3>2. ASSUME NEW y \in R, Precedes(y, q) PROVE Precedes(y, x)
      BY <1>1, <2>1, <3>2 DEF Since
    <3> QED BY <3>1, <3>2 DEF Since
  <2>5. p \in Since(B, R, q)
    BY <1>1, <1>3, <1>4, <2>1 DEF Since
  <2> QED BY <2>2, <2>3, <2>4, <2>5
<1>5. ASSUME p \in R PROVE Since(B, R, q) = {}
  <2>1. p \notin B
    BY <1>5 DEF p
  <2>2. ASSUME NEW x \in Since(B, R, q) PROVE FALSE
    <3>1. x \in B /\ x # p /\ Precedes(x, q) /\ Precedes(p, x)
      BY <1>1, <1>3, <1>5, <2>1 DEF Since
    <3> QED BY <1>1, <1>2, <3>1
  <2> QED BY <2>2
<1>6. ASSUME p \notin B \cup R PROVE Since(B, R, q) = Since(B, R, p)
  <2>1. \A x \in B \cup R : Precedes(x, q) <=> Precedes(x, p)
    BY <1>1, <1>6
  <2> QED BY <2>1 DEF Since
<1> QED
  BY <1>4, <1>5, <1>6 DEF Turns, p, q

\* What is the same before two places counts for both.
LEMMA SinceSame ==
    ASSUME NEW B1, NEW R1, NEW p1, NEW B2, NEW R2, NEW p2,
           \A x : x \in B1 /\ Precedes(x, p1) <=> x \in B2 /\ Precedes(x, p2),
           \A x : x \in R1 /\ Precedes(x, p1) <=> x \in R2 /\ Precedes(x, p2)
    PROVE  Since(B1, R1, p1) = Since(B2, R2, p2)
BY DEF Since

LEMMA OneMore ==
    ASSUME NEW S, IsFiniteSet(S), NEW x, x \notin S
    PROVE  Cardinality(S \cup {x}) % 2 = 1 <=> ~(Cardinality(S) % 2 = 1)
<1>1. Cardinality(S) \in Nat /\ Cardinality(S \cup {x}) = Cardinality(S) + 1
  BY FS_AddElement, FS_CardinalityType
<1> QED
  BY <1>1

-----------------------------------------------------------------------------
(* A line more                                                             *)

LEMMA Appended ==
    ASSUME page \in Seq(Lines), NEW line \in Lines, page' = Append(page, line)
    PROVE  /\ Len(page) \in Nat /\ page' \in Seq(Lines) /\ Len(page') = Len(page) + 1
           /\ DOMAIN page = 1..Len(page) /\ DOMAIN page' = 1..Len(page) + 1
           /\ page'[Len(page) + 1] = line
           /\ \A m \in 1..Len(page) : page'[m] = page[m]
OBVIOUS

LinesBefore(form, n) == {m \in 1..(n - 1) : page[m].is = form}

LEMMA FiniteBefore ==
    ASSUME NEW n \in Nat, NEW form, page \in Seq(Lines)
    PROVE  IsFiniteSet(LinesBefore(form, n)) /\ n \notin LinesBefore(form, n)
<1>1. IsFiniteSet(1..(n - 1))
  BY FS_Interval
<1>2. LinesBefore(form, n) \subseteq 1..(n - 1) /\ n \notin 1..(n - 1)
  BY DEF LinesBefore
<1> QED
  BY <1>1, <1>2, FS_Subset

\* The modes of the lines read so far stay; the mode of the next line turns.
LEMMA ModesGoOn ==
    ASSUME page \in Seq(Lines), NEW line \in Lines, page' = Append(page, line), NEW form
    PROVE  /\ \A n \in 1..Len(page) + 1 : Inside(form, n)' <=> Inside(form, n)
           /\ Inside(form, Len(page) + 1)' <=>
                IF line.is = form THEN ~Inside(form, Len(page) + 1) ELSE Inside(form, Len(page) + 1)
<1> DEFINE N == Len(page)
<1>1. /\ N \in Nat /\ page'[N + 1] = line
      /\ \A m \in 1..N : page'[m] = page[m]
  BY Appended
<1>2. ASSUME NEW n \in 1..N + 1 PROVE Inside(form, n)' <=> Inside(form, n)
  <2>1. \A m \in 1..(n - 1) : page'[m] = page[m]
    BY <1>1
  <2>2. {m \in 1..(n - 1) : page'[m].is = form} = {m \in 1..(n - 1) : page[m].is = form}
    BY <2>1
  <2> QED BY <2>2 DEF Inside
<1>3. {m \in 1..((N + 2) - 1) : page'[m].is = form} =
        LinesBefore(form, N + 1) \cup (IF line.is = form THEN {N + 1} ELSE {})
  <2>1. (N + 2) - 1 = N + 1 /\ (N + 1) - 1 = N /\ 1..N + 1 = (1..N) \cup {N + 1}
    BY <1>1
  <2> QED BY <1>1, <2>1 DEF LinesBefore
<1>4. IsFiniteSet(LinesBefore(form, N + 1)) /\ N + 1 \notin LinesBefore(form, N + 1)
  BY <1>1, FiniteBefore
<1>5. Inside(form, N + 1) <=> Cardinality(LinesBefore(form, N + 1)) % 2 = 1
  BY DEF Inside, LinesBefore
<1>6. Inside(form, Len(page) + 1)' <=>
        Cardinality(LinesBefore(form, N + 1) \cup (IF line.is = form THEN {N + 1} ELSE {})) % 2 = 1
  <2>1. Len(page') + 1 = N + 2
    BY Appended
  <2> QED BY <1>3, <2>1 DEF Inside
<1>7. CASE line.is = form
  <2>1. (IF line.is = form THEN {N + 1} ELSE {}) = {N + 1}
    BY <1>7
  <2>2. Inside(form, Len(page) + 1)' <=> Cardinality(LinesBefore(form, N + 1) \cup {N + 1}) % 2 = 1
    BY <1>6, <2>1
  <2>3. Cardinality(LinesBefore(form, N + 1) \cup {N + 1}) % 2 = 1
            <=> ~(Cardinality(LinesBefore(form, N + 1)) % 2 = 1)
    BY <1>4, OneMore
  <2> QED BY <1>2, <1>5, <1>7, <2>2, <2>3
<1>8. CASE line.is # form
  <2>1. LinesBefore(form, N + 1) \cup (IF line.is = form THEN {N + 1} ELSE {})
            = LinesBefore(form, N + 1)
    BY <1>8
  <2> QED BY <1>2, <1>5, <1>6, <1>8, <2>1
<1> QED
  BY <1>7, <1>8

-----------------------------------------------------------------------------
(* What a line is                                                          *)

PartialsBefore(n) == {m \in 1..(n - 1) : IsPartial(m)}

\* The cases of Home, which exclude each other.
HomeAs(n) ==
    /\ IsPartial(n) =>
        Home(n) = IF Cardinality(PartialsBefore(n)) < PartialLimit THEN "partial" ELSE "none"
    /\ IsMarkup(n) /\ ~IsPartial(n) => Home(n) = "none"
    /\ ~IsMarkup(n) /\ InTable(n) =>
        Home(n) = IF page[n].is \in {"dashes", "ruled"} THEN "none" ELSE "table"
    /\ ~IsMarkup(n) /\ ~InTable(n) /\ InLiteral(n) => Home(n) = "preformatted"
    /\ IsText(n) /\ page[n].is = "comment" => Home(n) = "none"
    /\ IsText(n) /\ page[n].is = "dashes" => Home(n) = "divider"
    /\ IsText(n) /\ page[n].is = "heading" =>
        Home(n) = IF page[n].text = <<>> THEN "none" ELSE "heading"
    /\ IsText(n) /\ page[n].is \notin {"comment", "dashes", "heading"} =>
        Home(n) = IF page[n].text = <<>> THEN "none" ELSE "paragraph"

LEMMA HomeCases == \A n : HomeAs(n)
<1> SUFFICES ASSUME NEW n PROVE HomeAs(n)
  OBVIOUS
<1>1. IsPartial(n) => IsMarkup(n) /\ ~IsText(n)
  BY DEF IsMarkup, IsText
<1>2. IsText(n) => ~IsMarkup(n) /\ ~InTable(n) /\ ~InLiteral(n)
  BY DEF IsText
<1>3. IsPartial(n) =>
        Home(n) = IF Cardinality(PartialsBefore(n)) < PartialLimit THEN "partial" ELSE "none"
  BY <1>1, Zenon DEF Home, PartialsBefore
<1>4. IsMarkup(n) /\ ~IsPartial(n) => Home(n) = "none"
  BY <1>1, <1>2, Zenon DEF Home
<1>5. ~IsMarkup(n) /\ InTable(n) =>
        Home(n) = IF page[n].is \in {"dashes", "ruled"} THEN "none" ELSE "table"
  BY <1>1, <1>2, Zenon DEF Home
<1>6. ~IsMarkup(n) /\ ~InTable(n) /\ InLiteral(n) => Home(n) = "preformatted"
  BY <1>1, <1>2, Zenon DEF Home
<1>7. IsText(n) =>
        Home(n) = CASE page[n].is = "comment" -> "none"
                    [] page[n].is = "dashes"  -> "divider"
                    [] page[n].is = "heading" -> IF page[n].text = <<>> THEN "none" ELSE "heading"
                    [] OTHER                  -> IF page[n].text = <<>> THEN "none" ELSE "paragraph"
  BY <1>1, <1>2, Zenon DEF Home
<1>8. /\ IsText(n) /\ page[n].is = "comment" => Home(n) = "none"
      /\ IsText(n) /\ page[n].is = "dashes" => Home(n) = "divider"
      /\ IsText(n) /\ page[n].is = "heading" =>
            Home(n) = IF page[n].text = <<>> THEN "none" ELSE "heading"
      /\ IsText(n) /\ page[n].is \notin {"comment", "dashes", "heading"} =>
            Home(n) = IF page[n].text = <<>> THEN "none" ELSE "paragraph"
  BY <1>7
<1> QED
  BY <1>3, <1>4, <1>5, <1>6, <1>8, Zenon DEF HomeAs

LEMMA HomeCasesNext == (\A n : HomeAs(n))'
BY HomeCases, PTL

\* A line stays what it is when more lines are read.
LEMMA KindsStay ==
    ASSUME page \in Seq(Lines), NEW line \in Lines, page' = Append(page, line),
           NEW n \in 1..Len(page)
    PROVE  /\ IsPartial(n)' <=> IsPartial(n)
           /\ IsMarkup(n)' <=> IsMarkup(n)
           /\ IsText(n)' <=> IsText(n)
           /\ IsParsed(n)' <=> IsParsed(n)
           /\ PartialsBefore(n)' = PartialsBefore(n)
           /\ Home(n)' = Home(n)
<1>1. \A m \in 1..n : m \in 1..Len(page) /\ m \in 1..Len(page) + 1 /\ page'[m] = page[m]
  BY Appended
<1>2. \A m \in 1..n : (InLiteral(m)' <=> InLiteral(m)) /\ (InTable(m)' <=> InTable(m))
  <2>1. \A m \in 1..Len(page) + 1 : Inside("literal", m)' <=> Inside("literal", m)
    BY ModesGoOn
  <2>2. \A m \in 1..Len(page) + 1 : Inside("table", m)' <=> Inside("table", m)
    BY ModesGoOn
  <2> QED BY <1>1, <2>1, <2>2 DEF InLiteral, InTable
<1>3. n \in 1..n /\ \A m \in 1..(n - 1) : m \in 1..n
  OBVIOUS
<1>4. \A m \in 1..n : IsPartial(m)' <=> IsPartial(m)
  BY <1>1, <1>2 DEF IsPartial
<1>5. IsMarkup(n)' <=> IsMarkup(n)
  BY <1>1, <1>3, <1>4 DEF IsMarkup
<1>6. IsText(n)' <=> IsText(n)
  BY <1>2, <1>3, <1>5 DEF IsText
<1>7. IsParsed(n)' <=> IsParsed(n)
  BY <1>1, <1>2, <1>3, <1>5, <1>6 DEF IsParsed
<1>8. PartialsBefore(n)' = PartialsBefore(n)
  BY <1>3, <1>4 DEF PartialsBefore
<1>9. page'[n] = page[n] /\ (InTable(n)' <=> InTable(n)) /\ (InLiteral(n)' <=> InLiteral(n))
      /\ (IsPartial(n)' <=> IsPartial(n))
  BY <1>1, <1>2, <1>3, <1>4
<1>10. Home(n)' = Home(n)
  <2>1. HomeAs(n) /\ HomeAs(n)'
    BY HomeCases, HomeCasesNext
  <2>2. IsPartial(n) \/ (IsMarkup(n) /\ ~IsPartial(n)) \/ (~IsMarkup(n) /\ InTable(n))
            \/ (~IsMarkup(n) /\ ~InTable(n) /\ InLiteral(n)) \/ IsText(n)
    BY DEF IsText
  <2> QED BY <1>5, <1>6, <1>8, <1>9, <2>1, <2>2 DEF HomeAs
<1> QED
  BY <1>5, <1>6, <1>7, <1>8, <1>9, <1>10

\* What the parser keeps says which mode the next line is read in.
Modes ==
    LET count == Cardinality(PartialsBefore(Len(page) + 1)) IN
    /\ parser.literal <=> InLiteral(Len(page) + 1)
    /\ parser.open <=> InTable(Len(page) + 1)
    /\ parser.partials = IF count < PartialLimit THEN count ELSE PartialLimit

\* What ReadLine takes a line for, by the state before it.
MarkupHere(s, line) ==
    line.is \in {"seconds", "literal", "table"} \/ (line.is = "partial" /\ ~s.literal)
TextHere(s, line) == ~MarkupHere(s, line) /\ ~s.open /\ ~s.literal
ParsedHere(s, line) ==
    TextHere(s, line) \/ (~MarkupHere(s, line) /\ s.open /\ line.is # "ruled")
HomeHere(s, line) ==
    IF line.is = "partial" /\ ~s.literal THEN IF s.partials < PartialLimit THEN "partial" ELSE "none"
    ELSE IF MarkupHere(s, line) THEN "none"
    ELSE IF s.open THEN IF line.is \in {"dashes", "ruled"} THEN "none" ELSE "table"
    ELSE IF s.literal THEN "preformatted"
    ELSE IF line.is = "comment" THEN "none"
    ELSE IF line.is = "dashes" THEN "divider"
    ELSE IF line.text = <<>> THEN "none"
    ELSE IF line.is = "heading" THEN "heading" ELSE "paragraph"

LEMMA NewLine ==
    ASSUME page \in Seq(Lines), NEW line \in Lines, page' = Append(page, line),
           NEW n, n = Len(page) + 1, Modes
    PROVE  /\ IsPartial(n)' <=> line.is = "partial" /\ ~parser.literal
           /\ IsText(n)' <=> TextHere(parser, line)
           /\ IsParsed(n)' <=> ParsedHere(parser, line)
           /\ Home(n)' = HomeHere(parser, line)
           /\ PartialsBefore(n)' = PartialsBefore(n)
<1>1. /\ n \in Nat /\ n \in 1..Len(page) + 1 /\ page'[n] = line
      /\ \A m \in 1..(n - 1) : m \in 1..Len(page)
  BY Appended
<1>2. (InLiteral(n)' <=> parser.literal) /\ (InTable(n)' <=> parser.open)
  <2>1. Inside("literal", n)' <=> Inside("literal", n)
    BY <1>1, ModesGoOn
  <2>2. Inside("table", n)' <=> Inside("table", n)
    BY <1>1, ModesGoOn
  <2> QED BY <2>1, <2>2 DEF Modes, InLiteral, InTable
<1>3. IsPartial(n)' <=> line.is = "partial" /\ ~parser.literal
  BY <1>1, <1>2 DEF IsPartial
<1>4. IsMarkup(n)' <=> MarkupHere(parser, line)
  BY <1>1, <1>3 DEF IsMarkup, MarkupHere
<1>5. IsText(n)' <=> TextHere(parser, line)
  BY <1>2, <1>4 DEF IsText, TextHere
<1>6. IsParsed(n)' <=> ParsedHere(parser, line)
  BY <1>1, <1>2, <1>4, <1>5 DEF IsParsed, ParsedHere
<1>7. PartialsBefore(n)' = PartialsBefore(n)
  <2>1. \A m \in 1..(n - 1) : IsPartial(m)' <=> IsPartial(m)
    BY <1>1, KindsStay
  <2> QED BY <2>1 DEF PartialsBefore
<1>8. Cardinality(PartialsBefore(n)) < PartialLimit <=> parser.partials < PartialLimit
  <2>1. IsFiniteSet(PartialsBefore(n))
    <3>1. IsFiniteSet(1..(n - 1)) /\ PartialsBefore(n) \subseteq 1..(n - 1)
      BY <1>1, FS_Interval DEF PartialsBefore
    <3> QED BY <3>1, FS_Subset
  <2>2. Cardinality(PartialsBefore(n)) \in Nat
    BY <2>1, FS_CardinalityType
  <2> QED BY <2>2, MicronAssumption DEF Modes
<1>9. HomeAs(n)'
  BY HomeCasesNext
<1>10. line.is \in Forms
  BY LineFacts
<1>11. Home(n)' = HomeHere(parser, line)
  BY <1>1, <1>2, <1>3, <1>4, <1>5, <1>7, <1>8, <1>9, <1>10
     DEF HomeAs, HomeHere, MarkupHere, TextHere, Forms
<1> QED
  BY <1>3, <1>5, <1>6, <1>7, <1>11

LEMMA ModesStep ==
    ASSUME page \in Seq(Lines), NEW line \in Lines, page' = Append(page, line), Modes,
           parser'.literal <=> IF line.is = "literal" THEN ~parser.literal ELSE parser.literal,
           parser'.open <=> IF line.is = "table" THEN ~parser.open ELSE parser.open,
           parser'.partials =
                IF line.is = "partial" /\ ~parser.literal /\ parser.partials < PartialLimit
                THEN parser.partials + 1 ELSE parser.partials
    PROVE  Modes'
<1>1. PICK n \in Nat : n = Len(page) + 1
  BY Appended
<1>2. /\ Inside("literal", Len(page) + 1)' <=>
            IF line.is = "literal" THEN ~Inside("literal", Len(page) + 1)
            ELSE Inside("literal", Len(page) + 1)
      /\ Inside("table", Len(page) + 1)' <=>
            IF line.is = "table" THEN ~Inside("table", Len(page) + 1)
            ELSE Inside("table", Len(page) + 1)
  BY ModesGoOn
<1>3. (parser.literal <=> InLiteral(Len(page) + 1)) /\ (parser.open <=> InTable(Len(page) + 1))
  BY DEF Modes
<1>4. (parser.literal <=> InLiteral(Len(page) + 1))'
  BY <1>2, <1>3 DEF InLiteral
<1>5. (parser.open <=> InTable(Len(page) + 1))'
  BY <1>2, <1>3 DEF InTable
<1>6. /\ IsPartial(n)' <=> line.is = "partial" /\ ~parser.literal
      /\ PartialsBefore(n)' = PartialsBefore(n)
  BY <1>1, NewLine
<1>7. IsFiniteSet(PartialsBefore(n)) /\ n \notin PartialsBefore(n)
  <2>1. IsFiniteSet(1..(n - 1))
    BY <1>1, FS_Interval
  <2>2. PartialsBefore(n) \subseteq 1..(n - 1) /\ n \notin 1..(n - 1)
    BY <1>1 DEF PartialsBefore
  <2> QED BY <2>1, <2>2, FS_Subset
<1> DEFINE count == Cardinality(PartialsBefore(n))
<1>8. count \in Nat
  BY <1>7, FS_CardinalityType
<1>9. PartialsBefore(Len(page) + 1)' =
        PartialsBefore(n) \cup (IF line.is = "partial" /\ ~parser.literal THEN {n} ELSE {})
  <2>1. Len(page') + 1 = n + 1 /\ (n + 1) - 1 = n /\ 1..n = (1..(n - 1)) \cup {n}
    BY <1>1, Appended
  <2>2. {m \in 1..n : IsPartial(m)'} =
          {m \in 1..(n - 1) : IsPartial(m)'} \cup (IF IsPartial(n)' THEN {n} ELSE {})
    BY <2>1
  <2> QED BY <1>6, <2>1, <2>2 DEF PartialsBefore
<1>10. Cardinality(PartialsBefore(Len(page) + 1))' =
        IF line.is = "partial" /\ ~parser.literal THEN count + 1 ELSE count
  <2>1. Cardinality(PartialsBefore(n) \cup {n}) = count + 1
    BY <1>7, FS_AddElement
  <2>2. PartialsBefore(n) \cup {} = PartialsBefore(n)
    OBVIOUS
  <2> QED BY <1>9, <2>1, <2>2
<1>11. parser.partials = IF count < PartialLimit THEN count ELSE PartialLimit
  BY <1>1 DEF Modes
<1> HIDE DEF count
<1>12. (parser.partials = IF Cardinality(PartialsBefore(Len(page) + 1)) < PartialLimit
                          THEN Cardinality(PartialsBefore(Len(page) + 1)) ELSE PartialLimit)'
  BY <1>8, <1>10, <1>11, MicronAssumption
<1> QED
  BY <1>4, <1>5, <1>12 DEF Modes

-----------------------------------------------------------------------------
(* What ReadLine does to the state                                         *)

BlockKinds == {"partial", "table", "preformatted", "divider", "heading", "paragraph"}
Contents == [line : Nat, parts : Seq(TextParts)]
Blocks == [is : BlockKinds, contents : Seq(Contents), depth : 0..255, align : Alignments]
Parsers ==
    [seconds : Nat, literal : BOOLEAN, open : BOOLEAN, rows : Seq(Contents),
     tableAlign : Alignments, align : Alignments, depth : 0..255, bold : BOOLEAN,
     partials : Nat, blocks : Seq(Blocks)]

\* The content of a block of one line has the styles B of that line.
Styled(c, n, B, text) ==
    /\ c \in Contents /\ c.line = n
    /\ Agrees(c.parts, B, Len(text))

\* The result r of reading a line in state s: its fields ...
FieldsRead(s, line, B, r) ==
    /\ r \in Parsers
    /\ r.literal <=> IF line.is = "literal" THEN ~s.literal ELSE s.literal
    /\ r.open <=> IF line.is = "table" THEN ~s.open ELSE s.open
    /\ r.partials = IF line.is = "partial" /\ ~s.literal /\ s.partials < PartialLimit
                    THEN s.partials + 1 ELSE s.partials
    /\ r.seconds = IF line.is = "seconds" THEN Smaller(line.value, SecondsLimit) ELSE s.seconds
    /\ r.depth = IF TextHere(s, line) /\ line.is = "heading" THEN line.depth
                 ELSE IF TextHere(s, line) /\ line.is \in {"plain", "ruled"} /\ line.reset THEN 0
                 ELSE s.depth
    /\ r.align = IF TextHere(s, line) /\ line.is \in {"plain", "ruled"} /\ line.align # "inherit"
                 THEN line.align ELSE s.align
    /\ r.bold <=> IF ParsedHere(s, line) THEN Len(TextOf(line)) + 1 \in B ELSE s.bold

\* ... and where the line is shown.
TableOf(s) ==
    [is |-> "table", contents |-> s.rows, depth |-> s.depth, align |-> s.tableAlign]
Closed(s) == IF s.rows = <<>> THEN s.blocks ELSE Append(s.blocks, TableOf(s))

JoinsLast(s, n, r) ==
    /\ s.blocks # <<>> /\ Last(s.blocks).is = "preformatted"
    /\ r.blocks = [s.blocks EXCEPT ![Len(s.blocks)].contents = Append(@, Content(n, <<>>))]

NewBlock(s, n, line, B, r) ==
    \E b \in Blocks, c \in Contents :
        /\ r.blocks = Append(s.blocks, b)
        /\ b.is = HomeHere(s, line) /\ b.contents = <<c>> /\ Styled(c, n, B, TextOf(line))
        /\ b.depth = r.depth /\ b.align = r.align

LinePlaced(s, n, line, B, r) ==
    IF line.is = "table" THEN r.rows = <<>> /\ r.blocks = Closed(s)
    ELSE IF HomeHere(s, line) = "none" THEN r.rows = s.rows /\ r.blocks = s.blocks
    ELSE IF HomeHere(s, line) = "table"
    THEN r.blocks = s.blocks /\ \E c \in Contents : r.rows = Append(s.rows, c) /\ Styled(c, n, B, TextOf(line))
    ELSE r.rows = s.rows /\ (NewBlock(s, n, line, B, r) \/ (HomeHere(s, line) = "preformatted" /\ JoinsLast(s, n, r)))

LEMMA ReadSeconds ==
    ASSUME NEW s, NEW n, NEW line, line.is = "seconds"
    PROVE  ReadLine(s, n, line) = [s EXCEPT !.seconds = Smaller(line.value, SecondsLimit)]
BY Zenon DEF ReadLine

LEMMA ReadLiteralMark ==
    ASSUME NEW s, NEW n, NEW line, line.is = "literal"
    PROVE  ReadLine(s, n, line) = [s EXCEPT !.literal = ~@]
BY Zenon DEF ReadLine

LEMMA ReadLineCases ==
    ASSUME NEW s, NEW n, NEW line, line.is \in Forms
    PROVE  /\ line.is = "partial" /\ ~s.literal => ReadLine(s, n, line) = ReadPartial(s, n)
           /\ line.is = "table" => ReadLine(s, n, line) = ReadMarker(s, line)
           /\ ~MarkupHere(s, line) /\ s.open => ReadLine(s, n, line) = ReadRow(s, n, line)
           /\ ~MarkupHere(s, line) /\ ~s.open /\ s.literal => ReadLine(s, n, line) = ReadLiteral(s, n)
           /\ TextHere(s, line) /\ line.is = "comment" => ReadLine(s, n, line) = s
           /\ TextHere(s, line) /\ line.is = "dashes" =>
                ReadLine(s, n, line) = PushBlock(s, Block("divider", <<Content(n, <<>>)>>, s))
           /\ TextHere(s, line) /\ line.is \in {"heading", "plain", "ruled"} =>
                ReadLine(s, n, line) = ReadText(s, n, line)
<1> DEFINE r == ReadLine(s, n, line)
<1>1. line.is = "partial" /\ ~s.literal => r = ReadPartial(s, n)
  BY Zenon DEF ReadLine
<1>2. line.is = "table" => r = ReadMarker(s, line)
  BY Zenon DEF ReadLine
<1>3. ~MarkupHere(s, line) /\ s.open => r = ReadRow(s, n, line)
  BY Zenon DEF ReadLine, MarkupHere
<1>4. ~MarkupHere(s, line) /\ ~s.open /\ s.literal => r = ReadLiteral(s, n)
  BY Zenon DEF ReadLine, MarkupHere
<1>5. TextHere(s, line) =>
        r = CASE line.is = "comment" -> s
              [] line.is = "dashes"  -> PushBlock(s, Block("divider", <<Content(n, <<>>)>>, s))
              [] OTHER               -> ReadText(s, n, line)
  BY Zenon DEF ReadLine, MarkupHere, TextHere
<1> HIDE DEF r
<1>6. /\ TextHere(s, line) /\ line.is = "comment" => r = s
      /\ TextHere(s, line) /\ line.is = "dashes" =>
            r = PushBlock(s, Block("divider", <<Content(n, <<>>)>>, s))
      /\ TextHere(s, line) /\ line.is \in {"heading", "plain", "ruled"} => r = ReadText(s, n, line)
  BY <1>5
<1> QED
  BY <1>1, <1>2, <1>3, <1>4, <1>6, Zenon DEF r

LEMMA NewContent ==
    ASSUME NEW n \in Nat, NEW parts \in Seq(TextParts)
    PROVE  Content(n, parts) \in Contents /\ Content(n, parts).line = n /\ Content(n, parts).parts = parts
BY DEF Content, Contents

LEMMA EmptyContent ==
    ASSUME NEW n \in Nat, NEW B, NEW text \in Seq(Tokens)
    PROVE  Content(n, <<>>) \in Contents /\ Styled(Content(n, <<>>), n, B, text)
<1>1. <<>> \in Seq(TextParts) /\ Len(<<>>) = 0
  OBVIOUS
<1>2. Agrees(<<>>, B, Len(text))
  BY <1>1 DEF Agrees
<1>3. Content(n, <<>>) \in Contents /\ Content(n, <<>>).line = n /\ Content(n, <<>>).parts = <<>>
  BY <1>1, NewContent
<1> QED
  BY <1>2, <1>3 DEF Styled

LEMMA BlockFacts ==
    ASSUME NEW kind \in BlockKinds, NEW c \in Contents, NEW s, s.depth \in 0..255, s.align \in Alignments
    PROVE  LET b == Block(kind, <<c>>, s) IN
           b \in Blocks /\ b.is = kind /\ b.contents = <<c>> /\ b.depth = s.depth /\ b.align = s.align
<1>1. <<c>> \in Seq(Contents)
  OBVIOUS
<1> QED
  BY <1>1 DEF Block, Blocks

LEMMA PushFacts ==
    ASSUME NEW s \in Parsers, NEW b \in Blocks
    PROVE  LET r == PushBlock(s, b) IN
           /\ r \in Parsers /\ r.blocks = Append(s.blocks, b) /\ r.rows = s.rows
           /\ r.literal = s.literal /\ r.open = s.open /\ r.partials = s.partials
           /\ r.seconds = s.seconds /\ r.depth = s.depth /\ r.align = s.align /\ r.bold = s.bold
<1>1. Append(s.blocks, b) \in Seq(Blocks)
  BY DEF Parsers
<1> QED
  BY <1>1 DEF PushBlock, Parsers

\* A line without text that could set the style leaves it.
LEMMA StyleStays ==
    ASSUME NEW line, line.is \notin {"heading", "plain", "ruled"}, NEW B, Styles(TextOf(line), B)
    PROVE  Len(TextOf(line)) + 1 \in B <=> 1 \in B
<1>1. TextOf(line) = <<"text">>
  BY DEF TextOf
<1>2. Len(<<"text">>) = 1 /\ <<"text">>[1] = "text"
  OBVIOUS
<1>3. 1 + 1 \in B <=> 1 \in B
  BY <1>1, <1>2 DEF Styles
<1> QED
  BY <1>1, <1>2, <1>3

LEMMA SecondsRead ==
    ASSUME NEW s \in Parsers, NEW n \in Nat, NEW line \in Lines, NEW B, line.is = "seconds"
    PROVE  LET r == ReadLine(s, n, line) IN FieldsRead(s, line, B, r) /\ LinePlaced(s, n, line, B, r)
<1> DEFINE r == ReadLine(s, n, line)
<1>1. line.value \in Nat /\ line.is \in Forms
  BY LineFacts
<1>2. r = [s EXCEPT !.seconds = Smaller(line.value, SecondsLimit)]
  BY ReadSeconds, Zenon
<1>3. Smaller(line.value, SecondsLimit) \in Nat
  BY <1>1, MicronAssumption DEF Smaller
<1>4. MarkupHere(s, line) /\ ~TextHere(s, line) /\ ~ParsedHere(s, line) /\ HomeHere(s, line) = "none"
  BY DEF MarkupHere, TextHere, ParsedHere, HomeHere
<1> HIDE DEF r
<1>5. r \in Parsers
  BY <1>2, <1>3 DEF Parsers
<1>6. /\ r.literal = s.literal /\ r.open = s.open /\ r.partials = s.partials
      /\ r.seconds = Smaller(line.value, SecondsLimit) /\ r.depth = s.depth /\ r.align = s.align
      /\ r.bold = s.bold /\ r.rows = s.rows /\ r.blocks = s.blocks
  BY <1>2 DEF Parsers
<1>7. FieldsRead(s, line, B, r)
  BY <1>4, <1>5, <1>6 DEF FieldsRead
<1>8. LinePlaced(s, n, line, B, r)
  BY <1>4, <1>6 DEF LinePlaced
<1> QED
  BY <1>7, <1>8 DEF r

LEMMA LiteralMarkRead ==
    ASSUME NEW s \in Parsers, NEW n \in Nat, NEW line \in Lines, NEW B, line.is = "literal"
    PROVE  LET r == ReadLine(s, n, line) IN FieldsRead(s, line, B, r) /\ LinePlaced(s, n, line, B, r)
<1> DEFINE r == ReadLine(s, n, line)
<1>1. r = [s EXCEPT !.literal = ~@]
  BY ReadLiteralMark, Zenon
<1>2. MarkupHere(s, line) /\ ~TextHere(s, line) /\ ~ParsedHere(s, line) /\ HomeHere(s, line) = "none"
  BY DEF MarkupHere, TextHere, ParsedHere, HomeHere
<1> HIDE DEF r
<1>3. (~s.literal) \in BOOLEAN
  OBVIOUS
<1>4. r \in Parsers
  BY <1>1, <1>3 DEF Parsers
<1>5. /\ r.open = s.open /\ r.partials = s.partials
      /\ r.seconds = s.seconds /\ r.depth = s.depth /\ r.align = s.align
      /\ r.bold = s.bold /\ r.rows = s.rows /\ r.blocks = s.blocks
  BY <1>1 DEF Parsers
<1>6. r.literal <=> ~s.literal
  BY <1>1 DEF Parsers
<1>7. FieldsRead(s, line, B, r)
  BY <1>2, <1>4, <1>5, <1>6 DEF FieldsRead
<1>8. LinePlaced(s, n, line, B, r)
  BY <1>2, <1>5 DEF LinePlaced
<1> QED
  BY <1>7, <1>8 DEF r

LEMMA PartialRead ==
    ASSUME NEW s \in Parsers, NEW n \in Nat, NEW line \in Lines, NEW B,
           line.is = "partial", ~s.literal
    PROVE  LET r == ReadLine(s, n, line) IN FieldsRead(s, line, B, r) /\ LinePlaced(s, n, line, B, r)
<1> DEFINE r == ReadLine(s, n, line)
           t == [s EXCEPT !.partials = @ + 1]
           b == Block("partial", <<Content(n, <<>>)>>, s)
<1>1. r = IF s.partials < PartialLimit THEN PushBlock(t, b) ELSE s
  BY ReadLineCases DEF Forms, ReadPartial
<1>2. /\ MarkupHere(s, line) /\ ~TextHere(s, line) /\ ~ParsedHere(s, line)
      /\ HomeHere(s, line) = IF s.partials < PartialLimit THEN "partial" ELSE "none"
  BY DEF MarkupHere, TextHere, ParsedHere, HomeHere
<1>3. t \in Parsers
  <2>1. s.partials + 1 \in Nat
    BY DEF Parsers
  <2> QED BY <2>1 DEF Parsers
<1>4. /\ t.literal = s.literal /\ t.open = s.open /\ t.partials = s.partials + 1
      /\ t.seconds = s.seconds /\ t.depth = s.depth /\ t.align = s.align
      /\ t.bold = s.bold /\ t.rows = s.rows /\ t.blocks = s.blocks
  BY DEF Parsers
<1>5. Content(n, <<>>) \in Contents /\ Styled(Content(n, <<>>), n, B, TextOf(line))
  BY EmptyContent, LineFacts
<1>6. /\ b \in Blocks /\ b.is = "partial" /\ b.contents = <<Content(n, <<>>)>>
      /\ b.depth = s.depth /\ b.align = s.align
  <2>1. s.depth \in 0..255 /\ s.align \in Alignments /\ "partial" \in BlockKinds
    BY DEF Parsers, BlockKinds
  <2> QED BY <1>5, <2>1, BlockFacts
<1> HIDE DEF r, t, b
<1>7. CASE s.partials < PartialLimit
  <2>1. r = PushBlock(t, b)
    BY <1>1, <1>7
  <2>2. /\ r \in Parsers /\ r.blocks = Append(s.blocks, b) /\ r.rows = s.rows
        /\ r.literal = s.literal /\ r.open = s.open /\ r.partials = s.partials + 1
        /\ r.seconds = s.seconds /\ r.depth = s.depth /\ r.align = s.align /\ r.bold = s.bold
    BY <1>3, <1>4, <1>6, <2>1, PushFacts
  <2>3. FieldsRead(s, line, B, r)
    BY <1>2, <1>7, <2>2 DEF FieldsRead
  <2>4. NewBlock(s, n, line, B, r)
    BY <1>2, <1>5, <1>6, <1>7, <2>2 DEF NewBlock
  <2>5. LinePlaced(s, n, line, B, r)
    BY <1>2, <1>7, <2>2, <2>4 DEF LinePlaced
  <2> QED BY <2>3, <2>5 DEF r
<1>8. CASE ~(s.partials < PartialLimit)
  <2>1. r = s
    BY <1>1, <1>8
  <2>2. FieldsRead(s, line, B, r)
    BY <1>2, <1>8, <2>1 DEF FieldsRead
  <2>3. LinePlaced(s, n, line, B, r)
    BY <1>2, <1>8, <2>1 DEF LinePlaced
  <2> QED BY <2>2, <2>3 DEF r
<1> QED
  BY <1>7, <1>8

\* Closing a table adds its block if it has rows.
LEMMA CloseFacts ==
    ASSUME NEW s \in Parsers, ~s.open => s.rows = <<>>
    PROVE  LET c == CloseTable(s) IN
           /\ c \in Parsers /\ ~c.open /\ c.rows = <<>> /\ c.blocks = Closed(s)
           /\ c.literal = s.literal /\ c.partials = s.partials
           /\ c.seconds = s.seconds /\ c.depth = s.depth /\ c.align = s.align /\ c.bold = s.bold
<1> DEFINE t == [s EXCEPT !.open = FALSE, !.rows = <<>>]
           b == [Block("table", s.rows, s) EXCEPT !.align = s.tableAlign]
           c == CloseTable(s)
<1>0. <<>> \in Seq(Contents)
  OBVIOUS
<1>1. t \in Parsers
  BY <1>0 DEF Parsers
<1>2. /\ ~t.open /\ t.rows = <<>> /\ t.blocks = s.blocks
      /\ t.literal = s.literal /\ t.partials = s.partials
      /\ t.seconds = s.seconds /\ t.depth = s.depth /\ t.align = s.align /\ t.bold = s.bold
  BY DEF Parsers
<1>3. b = TableOf(s)
  BY DEF Block, TableOf
<1>4. TableOf(s) \in Blocks
  BY DEF TableOf, Parsers, Blocks, BlockKinds
<1>5. c = IF s.open /\ s.rows # <<>> THEN PushBlock(t, b) ELSE t
  BY DEF CloseTable
<1> HIDE DEF t, b, c
<1>6. CASE s.rows # <<>>
  <2>1. c = PushBlock(t, TableOf(s))
    BY <1>3, <1>5, <1>6
  <2> QED BY <1>1, <1>2, <1>4, <1>6, <2>1, PushFacts DEF Closed, c
<1>7. CASE s.rows = <<>>
  <2>1. c = t
    BY <1>5, <1>7
  <2> QED BY <1>1, <1>2, <1>7, <2>1 DEF Closed, c
<1> QED
  BY <1>6, <1>7

LEMMA MarkerRead ==
    ASSUME NEW s \in Parsers, ~s.open => s.rows = <<>>, NEW n \in Nat, NEW line \in Lines, NEW B,
           line.is = "table"
    PROVE  LET r == ReadLine(s, n, line) IN FieldsRead(s, line, B, r) /\ LinePlaced(s, n, line, B, r)
<1> DEFINE r == ReadLine(s, n, line)
           align == IF line.align = "inherit" THEN s.align ELSE line.align
           t == [s EXCEPT !.open = TRUE, !.tableAlign = align]
<1>0. line.is \in Forms
  BY LineFacts
<1>1. r = ReadMarker(s, line)
  BY <1>0, ReadLineCases
<1>2. r = IF s.open THEN CloseTable(s) ELSE t
  BY <1>1, Zenon DEF ReadMarker
<1>3. MarkupHere(s, line) /\ ~TextHere(s, line) /\ ~ParsedHere(s, line)
  BY DEF MarkupHere, TextHere, ParsedHere
<1>4. align \in Alignments
  BY LineFacts DEF Parsers
<1> HIDE DEF r, align
<1>5. CASE s.open
  <2>1. r = CloseTable(s)
    BY <1>2, <1>5
  <2>2. /\ r \in Parsers /\ ~r.open /\ r.rows = <<>> /\ r.blocks = Closed(s)
        /\ r.literal = s.literal /\ r.partials = s.partials
        /\ r.seconds = s.seconds /\ r.depth = s.depth /\ r.align = s.align /\ r.bold = s.bold
    BY <2>1, CloseFacts
  <2>3. FieldsRead(s, line, B, r)
    BY <1>3, <1>5, <2>2 DEF FieldsRead
  <2>4. LinePlaced(s, n, line, B, r)
    BY <2>2 DEF LinePlaced
  <2> QED BY <2>3, <2>4 DEF r
<1>6. CASE ~s.open
  <2>1. r = t
    BY <1>2, <1>6
  <2>2. /\ r \in Parsers /\ r.open /\ r.rows = <<>> /\ r.blocks = s.blocks
        /\ r.literal = s.literal /\ r.partials = s.partials
        /\ r.seconds = s.seconds /\ r.depth = s.depth /\ r.align = s.align /\ r.bold = s.bold
    BY <1>4, <1>6, <2>1 DEF Parsers
  <2>3. FieldsRead(s, line, B, r)
    BY <1>3, <1>6, <2>2 DEF FieldsRead
  <2>4. LinePlaced(s, n, line, B, r)
    BY <1>6, <2>2 DEF LinePlaced, Closed
  <2> QED BY <2>3, <2>4 DEF r
<1> QED
  BY <1>5, <1>6

LEMMA RowRead ==
    ASSUME NEW s \in Parsers, NEW n \in Nat, NEW line \in Lines, NEW B,
           s.bold <=> 1 \in B, line.is # "ruled" => Styles(TextOf(line), B),
           ~MarkupHere(s, line), s.open
    PROVE  LET r == ReadLine(s, n, line) IN FieldsRead(s, line, B, r) /\ LinePlaced(s, n, line, B, r)
<1> DEFINE r == ReadLine(s, n, line)
           inline == ParseInline(TextOf(line), s.bold)
           c == Content(n, inline.parts)
           t == [s EXCEPT !.rows = Append(@, c), !.bold = inline.bold]
<1>0. line.is \in Forms /\ TextOf(line) \in Seq(Tokens)
  BY LineFacts
<1>1. r = IF line.is \in {"dashes", "ruled"} THEN s ELSE t
  <2>1. r = ReadRow(s, n, line)
    BY <1>0, ReadLineCases
  <2> QED BY <2>1, Zenon DEF ReadRow
<1>2. /\ ~TextHere(s, line) /\ line.is # "table" /\ line.is # "literal" /\ line.is # "seconds"
      /\ ~(line.is = "partial" /\ ~s.literal)
      /\ ParsedHere(s, line) <=> line.is # "ruled"
      /\ HomeHere(s, line) = IF line.is \in {"dashes", "ruled"} THEN "none" ELSE "table"
  BY DEF MarkupHere, TextHere, ParsedHere, HomeHere
<1> HIDE DEF r
<1>3. CASE line.is \in {"dashes", "ruled"}
  <2>1. r = s
    BY <1>1, <1>3
  <2>2. r.bold <=> IF ParsedHere(s, line) THEN Len(TextOf(line)) + 1 \in B ELSE s.bold
    <3>1. CASE line.is = "ruled"
      BY <1>2, <2>1, <3>1
    <3>2. CASE line.is = "dashes"
      <4>1. Len(TextOf(line)) + 1 \in B <=> 1 \in B
        BY <3>2, StyleStays
      <4> QED BY <1>2, <2>1, <3>2, <4>1
    <3> QED BY <1>3, <3>1, <3>2
  <2>3. FieldsRead(s, line, B, r)
    BY <1>2, <2>1, <2>2 DEF FieldsRead
  <2>4. LinePlaced(s, n, line, B, r)
    BY <1>2, <1>3, <2>1 DEF LinePlaced
  <2> QED BY <2>3, <2>4 DEF r
<1>4. CASE line.is \notin {"dashes", "ruled"}
  <2>1. r = t
    BY <1>1, <1>4
  <2>2. /\ inline.parts \in Seq(TextParts) /\ inline.bold \in BOOLEAN
        /\ inline.bold <=> Len(TextOf(line)) + 1 \in B
        /\ Agrees(inline.parts, B, Len(TextOf(line)))
    <3>1. s.bold \in BOOLEAN /\ Styles(TextOf(line), B)
      BY <1>4 DEF Parsers
    <3> QED BY <1>0, <3>1, InlineAgrees
  <2> HIDE DEF inline
  <2>3. c \in Contents /\ c.line = n /\ c.parts = inline.parts
    BY <2>2, NewContent
  <2>4. Styled(c, n, B, TextOf(line))
    BY <2>2, <2>3 DEF Styled
  <2> HIDE DEF c
  <2>5. Append(s.rows, c) \in Seq(Contents)
    BY <2>3 DEF Parsers
  <2>6. r \in Parsers
    BY <2>1, <2>2, <2>5 DEF Parsers
  <2>7. /\ r.open = s.open /\ r.rows = Append(s.rows, c) /\ r.blocks = s.blocks
        /\ r.literal = s.literal /\ r.partials = s.partials
        /\ r.seconds = s.seconds /\ r.depth = s.depth /\ r.align = s.align /\ r.bold = inline.bold
    BY <2>1 DEF Parsers
  <2>8. FieldsRead(s, line, B, r)
    BY <1>2, <1>4, <2>2, <2>6, <2>7 DEF FieldsRead
  <2>9. LinePlaced(s, n, line, B, r)
    BY <1>2, <1>4, <2>3, <2>4, <2>7 DEF LinePlaced
  <2> QED BY <2>8, <2>9 DEF r
<1> QED
  BY <1>3, <1>4

LEMMA LiteralRead ==
    ASSUME NEW s \in Parsers, NEW n \in Nat, NEW line \in Lines, NEW B,
           ~MarkupHere(s, line), ~s.open, s.literal
    PROVE  LET r == ReadLine(s, n, line) IN FieldsRead(s, line, B, r) /\ LinePlaced(s, n, line, B, r)
<1> DEFINE r == ReadLine(s, n, line)
           c == Content(n, <<>>)
           b == Block("preformatted", <<c>>, s)
           last == Len(s.blocks)
           joined == [s.blocks EXCEPT ![last].contents = Append(@, c)]
<1>0. line.is \in Forms
  BY LineFacts
<1>1. r = IF s.blocks # <<>> /\ Last(s.blocks).is = "preformatted"
          THEN [s EXCEPT !.blocks = joined] ELSE PushBlock(s, b)
  <2>1. r = ReadLiteral(s, n)
    BY <1>0, ReadLineCases
  <2>2. [s EXCEPT !.blocks[last].contents = Append(@, c)] = [s EXCEPT !.blocks = joined]
    OBVIOUS
  <2> QED BY <2>1, <2>2, Zenon DEF ReadLiteral
<1>2. /\ ~TextHere(s, line) /\ line.is # "table" /\ line.is # "literal" /\ line.is # "seconds"
      /\ ~(line.is = "partial" /\ ~s.literal) /\ ~ParsedHere(s, line)
      /\ HomeHere(s, line) = "preformatted"
  BY DEF MarkupHere, TextHere, ParsedHere, HomeHere
<1>3. c \in Contents /\ Styled(c, n, B, TextOf(line))
  BY EmptyContent, LineFacts
<1>4. b \in Blocks /\ b.is = "preformatted" /\ b.contents = <<c>> /\ b.depth = s.depth /\ b.align = s.align
  <2>1. s.depth \in 0..255 /\ s.align \in Alignments /\ "preformatted" \in BlockKinds
    BY DEF Parsers, BlockKinds
  <2> QED BY <1>3, <2>1, BlockFacts
<1> HIDE DEF r, b
<1>5. CASE s.blocks # <<>> /\ Last(s.blocks).is = "preformatted"
  <2>1. r = [s EXCEPT !.blocks = joined]
    BY <1>1, <1>5
  <2>2. joined \in Seq(Blocks)
    <3>1. s.blocks \in Seq(Blocks) /\ last \in 1..Len(s.blocks)
      BY <1>5 DEF Parsers
    <3>2. s.blocks[last] \in Blocks
      BY <3>1
    <3>3. Append(s.blocks[last].contents, c) \in Seq(Contents)
      BY <1>3, <3>2 DEF Blocks
    <3>4. [s.blocks[last] EXCEPT !.contents = Append(@, c)] \in Blocks
      BY <3>2, <3>3 DEF Blocks
    <3>5. joined = [s.blocks EXCEPT ![last] = [s.blocks[last] EXCEPT !.contents = Append(@, c)]]
      OBVIOUS
    <3> HIDE DEF joined
    <3> QED BY <3>1, <3>4, <3>5
  <2>3. JoinsLast(s, n, r)
    BY <1>5, <2>1 DEF JoinsLast, Parsers
  <2> HIDE DEF joined
  <2>4. r \in Parsers
    BY <2>1, <2>2 DEF Parsers
  <2>5. /\ r.open = s.open /\ r.rows = s.rows
        /\ r.literal = s.literal /\ r.partials = s.partials
        /\ r.seconds = s.seconds /\ r.depth = s.depth /\ r.align = s.align /\ r.bold = s.bold
    BY <2>1 DEF Parsers
  <2>6. FieldsRead(s, line, B, r)
    BY <1>2, <2>4, <2>5 DEF FieldsRead
  <2>7. LinePlaced(s, n, line, B, r)
    BY <1>2, <2>3, <2>5 DEF LinePlaced
  <2> QED BY <2>6, <2>7 DEF r
<1>6. CASE ~(s.blocks # <<>> /\ Last(s.blocks).is = "preformatted")
  <2>1. r = PushBlock(s, b)
    BY <1>1, <1>6
  <2>2. /\ r \in Parsers /\ r.blocks = Append(s.blocks, b) /\ r.rows = s.rows
        /\ r.literal = s.literal /\ r.open = s.open /\ r.partials = s.partials
        /\ r.seconds = s.seconds /\ r.depth = s.depth /\ r.align = s.align /\ r.bold = s.bold
    BY <1>4, <2>1, PushFacts
  <2>3. FieldsRead(s, line, B, r)
    BY <1>2, <2>2 DEF FieldsRead
  <2>4. NewBlock(s, n, line, B, r)
    BY <1>2, <1>3, <1>4, <2>2 DEF NewBlock
  <2>5. LinePlaced(s, n, line, B, r)
    BY <1>2, <2>2, <2>4 DEF LinePlaced
  <2> QED BY <2>3, <2>5 DEF r
<1> QED
  BY <1>5, <1>6

LEMMA RuleRead ==
    ASSUME NEW s \in Parsers, NEW n \in Nat, NEW line \in Lines, NEW B,
           s.bold <=> 1 \in B, Styles(TextOf(line), B),
           TextHere(s, line), line.is \in {"comment", "dashes"}
    PROVE  LET r == ReadLine(s, n, line) IN FieldsRead(s, line, B, r) /\ LinePlaced(s, n, line, B, r)
<1> DEFINE r == ReadLine(s, n, line)
           c == Content(n, <<>>)
           b == Block("divider", <<c>>, s)
<1>0. line.is \in Forms
  BY LineFacts
<1>1. r = IF line.is = "comment" THEN s ELSE PushBlock(s, b)
  BY <1>0, ReadLineCases
<1>2. /\ ParsedHere(s, line) /\ ~MarkupHere(s, line)
      /\ HomeHere(s, line) = IF line.is = "comment" THEN "none" ELSE "divider"
  BY DEF MarkupHere, TextHere, ParsedHere, HomeHere
<1>3. c \in Contents /\ Styled(c, n, B, TextOf(line))
  BY EmptyContent, LineFacts
<1>4. b \in Blocks /\ b.is = "divider" /\ b.contents = <<c>> /\ b.depth = s.depth /\ b.align = s.align
  <2>1. s.depth \in 0..255 /\ s.align \in Alignments /\ "divider" \in BlockKinds
    BY DEF Parsers, BlockKinds
  <2> QED BY <1>3, <2>1, BlockFacts
<1>5. Len(TextOf(line)) + 1 \in B <=> s.bold
  BY StyleStays
<1> HIDE DEF r, b, c
<1>6. CASE line.is = "comment"
  <2>1. r = s
    BY <1>1, <1>6
  <2>2. FieldsRead(s, line, B, r)
    BY <1>2, <1>5, <1>6, <2>1 DEF FieldsRead
  <2>3. LinePlaced(s, n, line, B, r)
    BY <1>2, <1>6, <2>1 DEF LinePlaced
  <2> QED BY <2>2, <2>3 DEF r
<1>7. CASE line.is = "dashes"
  <2>1. r = PushBlock(s, b)
    BY <1>1, <1>7
  <2>2. /\ r \in Parsers /\ r.blocks = Append(s.blocks, b) /\ r.rows = s.rows
        /\ r.literal = s.literal /\ r.open = s.open /\ r.partials = s.partials
        /\ r.seconds = s.seconds /\ r.depth = s.depth /\ r.align = s.align /\ r.bold = s.bold
    BY <1>4, <2>1, PushFacts
  <2>3. FieldsRead(s, line, B, r)
    BY <1>2, <1>5, <1>7, <2>2 DEF FieldsRead
  <2>4. NewBlock(s, n, line, B, r)
    BY <1>2, <1>3, <1>4, <1>7, <2>2 DEF NewBlock
  <2>5. LinePlaced(s, n, line, B, r)
    BY <1>2, <1>7, <2>2, <2>4 DEF LinePlaced
  <2> QED BY <2>3, <2>5 DEF r
<1> QED
  BY <1>6, <1>7

LEMMA TextRead ==
    ASSUME NEW s \in Parsers, NEW n \in Nat, NEW line \in Lines, NEW B,
           s.bold <=> 1 \in B, Styles(TextOf(line), B),
           TextHere(s, line), line.is \in {"heading", "plain", "ruled"}
    PROVE  LET r == ReadLine(s, n, line) IN FieldsRead(s, line, B, r) /\ LinePlaced(s, n, line, B, r)
<1> DEFINE r == ReadLine(s, n, line)
           depth  == IF line.is = "heading" THEN line.depth ELSE IF line.reset THEN 0 ELSE s.depth
           align  == IF line.is = "heading" \/ line.align = "inherit" THEN s.align ELSE line.align
           inline == ParseInline(line.text, s.bold)
           after  == [s EXCEPT !.depth = depth, !.align = align]
           styled == [after EXCEPT !.bold = inline.bold]
           kind   == IF line.is = "heading" THEN "heading" ELSE "paragraph"
           c      == Content(n, inline.parts)
           b      == Block(kind, <<c>>, after)
<1>0. line.is \in Forms /\ TextOf(line) \in Seq(Tokens) /\ TextOf(line) = line.text
  BY LineFacts DEF TextOf
<1>1. r = IF line.text = <<>> THEN after ELSE PushBlock(styled, b)
  <2>1. r = ReadText(s, n, line)
    BY <1>0, ReadLineCases
  <2> QED BY <2>1, Zenon DEF ReadText
<1>2. /\ ParsedHere(s, line) /\ ~MarkupHere(s, line)
      /\ line.is # "table" /\ line.is # "literal" /\ line.is # "seconds" /\ line.is # "partial"
      /\ HomeHere(s, line) = IF line.text = <<>> THEN "none" ELSE kind
  BY DEF MarkupHere, TextHere, ParsedHere, HomeHere
<1>3. depth \in 0..255 /\ align \in Alignments
  <2>1. s.depth \in 0..255 /\ s.align \in Alignments
    BY DEF Parsers
  <2>2. line.is = "heading" => line.depth \in 1..255
    BY LineFacts
  <2>3. line.is # "heading" => line.align \in Alignments \cup {"inherit"}
    BY LineFacts
  <2> QED BY <2>1, <2>2, <2>3
<1>4. depth = IF line.is = "heading" THEN line.depth
              ELSE IF line.is \in {"plain", "ruled"} /\ line.reset THEN 0 ELSE s.depth
  OBVIOUS
<1>5. align = IF line.is \in {"plain", "ruled"} /\ line.align # "inherit" THEN line.align ELSE s.align
  OBVIOUS
<1> HIDE DEF r, depth, align
<1>6. after \in Parsers
  BY <1>3 DEF Parsers
<1>7. /\ after.open = s.open /\ after.rows = s.rows /\ after.blocks = s.blocks
      /\ after.literal = s.literal /\ after.partials = s.partials
      /\ after.seconds = s.seconds /\ after.depth = depth /\ after.align = align /\ after.bold = s.bold
  BY DEF Parsers
<1>8. CASE line.text = <<>>
  <2>1. r = after
    BY <1>1, <1>8
  <2>2. Len(TextOf(line)) + 1 = 1
    BY <1>0, <1>8
  <2> HIDE DEF after
  <2>3. FieldsRead(s, line, B, r)
    BY <1>2, <1>4, <1>5, <1>6, <1>7, <2>1, <2>2 DEF FieldsRead
  <2>4. LinePlaced(s, n, line, B, r)
    BY <1>2, <1>7, <1>8, <2>1 DEF LinePlaced
  <2> QED BY <2>3, <2>4 DEF r
<1>9. CASE line.text # <<>>
  <2>1. r = PushBlock(styled, b)
    BY <1>1, <1>9
  <2>2. /\ inline.parts \in Seq(TextParts) /\ inline.bold \in BOOLEAN
        /\ inline.bold <=> Len(TextOf(line)) + 1 \in B
        /\ Agrees(inline.parts, B, Len(TextOf(line)))
    <3>1. s.bold \in BOOLEAN
      BY DEF Parsers
    <3> QED BY <1>0, <3>1, InlineAgrees
  <2> HIDE DEF inline
  <2>3. c \in Contents /\ c.line = n /\ c.parts = inline.parts
    BY <2>2, NewContent
  <2>4. Styled(c, n, B, TextOf(line))
    BY <2>2, <2>3 DEF Styled
  <2> HIDE DEF c, after
  <2>5. styled \in Parsers
    BY <1>6, <2>2 DEF Parsers
  <2>6. /\ styled.open = s.open /\ styled.rows = s.rows /\ styled.blocks = s.blocks
        /\ styled.literal = s.literal /\ styled.partials = s.partials
        /\ styled.seconds = s.seconds /\ styled.depth = depth /\ styled.align = align
        /\ styled.bold = inline.bold
    BY <1>6, <1>7 DEF Parsers
  <2>7. b \in Blocks /\ b.is = kind /\ b.contents = <<c>> /\ b.depth = depth /\ b.align = align
    <3>1. after.depth \in 0..255 /\ after.align \in Alignments /\ kind \in BlockKinds
      BY <1>3, <1>7 DEF BlockKinds
    <3> HIDE DEF kind
    <3> QED BY <1>7, <2>3, <3>1, BlockFacts
  <2> HIDE DEF styled, b
  <2>8. /\ r \in Parsers /\ r.blocks = Append(s.blocks, b) /\ r.rows = s.rows
        /\ r.literal = s.literal /\ r.open = s.open /\ r.partials = s.partials
        /\ r.seconds = s.seconds /\ r.depth = depth /\ r.align = align /\ r.bold = inline.bold
    BY <2>1, <2>5, <2>6, <2>7, PushFacts
  <2>9. FieldsRead(s, line, B, r)
    BY <1>2, <1>4, <1>5, <2>2, <2>8 DEF FieldsRead
  <2>10. NewBlock(s, n, line, B, r)
    BY <1>2, <1>9, <2>3, <2>4, <2>7, <2>8 DEF NewBlock
  <2>11. LinePlaced(s, n, line, B, r)
    BY <1>2, <1>9, <2>8, <2>10 DEF LinePlaced
  <2> QED BY <2>9, <2>11 DEF r
<1> QED
  BY <1>8, <1>9

\* What reading a line does, whatever the line and the mode.
LEMMA LineRead ==
    ASSUME NEW s \in Parsers, ~s.open => s.rows = <<>>, NEW n \in Nat, NEW line \in Lines, NEW B,
           s.bold <=> 1 \in B, ParsedHere(s, line) => Styles(TextOf(line), B)
    PROVE  LET r == ReadLine(s, n, line) IN FieldsRead(s, line, B, r) /\ LinePlaced(s, n, line, B, r)
<1>1. \/ line.is \in {"seconds", "literal", "table"} \/ (line.is = "partial" /\ ~s.literal)
      \/ ~MarkupHere(s, line) /\ s.open
      \/ ~MarkupHere(s, line) /\ ~s.open /\ s.literal
      \/ TextHere(s, line)
  BY DEF MarkupHere, TextHere
<1>2. TextHere(s, line) => line.is \in {"comment", "dashes", "heading", "plain", "ruled"}
  BY LineFacts DEF TextHere, MarkupHere, Forms
<1>3. TextHere(s, line) => Styles(TextOf(line), B)
  BY DEF ParsedHere
<1>4. ~MarkupHere(s, line) /\ s.open /\ line.is # "ruled" => Styles(TextOf(line), B)
  BY DEF ParsedHere
<1> QED
  BY <1>1, <1>2, <1>3, <1>4, SecondsRead, LiteralMarkRead, PartialRead, MarkerRead, RowRead, LiteralRead,
     RuleRead, TextRead

-----------------------------------------------------------------------------
(* The styles of a line                                                    *)

\* The places of a text that hold a token.
PlacesOf(text, token) == {a \in 1..Len(text) : text[a] = token}

\* Styles before a line n keep, styles in it follow its text.
GoesOn(N, n, text, CB, CR, NB, NR) ==
    /\ IsFiniteSet(NB)
    /\ Styles(text, {j \in 1..Len(text) + 1 : Cardinality(Since(NB, NR, <<n, j>>)) % 2 = 1})
    /\ \A m \in 1..N : \A j \in Nat : Since(NB, NR, <<m, j>>) = Since(CB, CR, <<m, j>>)
    /\ Since(NB, NR, <<n, 1>>) = Since(CB, CR, <<n, 1>>)
    /\ Since(NB, NR, <<n + 1, 1>>) = Since(NB, NR, <<n, Len(text) + 1>>)

\* Reading a text as line N + 1 adds its commands to those before it.
LEMMA StylesOfText ==
    ASSUME NEW N \in Nat, NEW CB, CB \subseteq (1..N) \X Nat, NEW CR, CR \subseteq (1..N) \X Nat,
           IsFiniteSet(CB), NEW n, n = N + 1, NEW text \in Seq(Tokens),
           NEW NB, NB = CB \cup ({n} \X PlacesOf(text, "bold")),
           NEW NR, NR = CR \cup ({n} \X PlacesOf(text, "reset"))
    PROVE  GoesOn(N, n, text, CB, CR, NB, NR)
<1> DEFINE B == {j \in 1..Len(text) + 1 : Cardinality(Since(NB, NR, <<n, j>>)) % 2 = 1}
<1>0. n \in Nat /\ Len(text) \in Nat /\ \A a \in 1..Len(text) : text[a] \in Tokens
  OBVIOUS
<1>1. /\ NB \in SUBSET (Nat \X Nat) /\ NR \in SUBSET (Nat \X Nat)
      /\ \A a \in Nat : <<n, a>> \in NB <=> a \in PlacesOf(text, "bold")
      /\ \A a \in Nat : <<n, a>> \in NR <=> a \in PlacesOf(text, "reset")
  BY <1>0 DEF PlacesOf
<1>2. IsFiniteSet(NB)
  <2>1. IsFiniteSet(PlacesOf(text, "bold"))
    <3>1. IsFiniteSet(1..Len(text)) /\ PlacesOf(text, "bold") \subseteq 1..Len(text)
      BY <1>0, FS_Interval DEF PlacesOf
    <3> QED BY <3>1, FS_Subset
  <2>2. IsFiniteSet({n})
    BY FS_Singleton
  <2>3. IsFiniteSet({n} \X PlacesOf(text, "bold"))
    BY <2>1, <2>2, FS_Product
  <2> QED BY <2>3, FS_Union
<1>3. \A p : IsFiniteSet(Since(NB, NR, p))
  <2>1. \A p : Since(NB, NR, p) \subseteq NB
    BY DEF Since
  <2> QED BY <1>2, <2>1, FS_Subset
<1>4. Styles(text, B)
  <2> SUFFICES ASSUME NEW j \in 1..Len(text)
               PROVE  /\ text[j] = "bold" => (j + 1 \in B <=> j \notin B)
                      /\ text[j] = "reset" => j + 1 \notin B
                      /\ text[j] \notin {"bold", "reset"} => (j + 1 \in B <=> j \in B)
    BY DEF Styles
  <2> DEFINE S == Since(NB, NR, <<n, j>>)
             T == Since(NB, NR, <<n, j + 1>>)
  <2>1. /\ j \in Nat /\ j \in 1..Len(text) + 1 /\ j + 1 \in 1..Len(text) + 1
        /\ <<n, j>> \in NB <=> text[j] = "bold"
        /\ <<n, j>> \in NR <=> text[j] = "reset"
    BY <1>0, <1>1 DEF PlacesOf
  <2>2. j \in B <=> Cardinality(S) % 2 = 1
    BY <2>1
  <2>3. j + 1 \in B <=> Cardinality(T) % 2 = 1
    BY <2>1
  <2>4. /\ <<n, j>> \in NB => <<n, j>> \notin S /\ T = S \cup {<<n, j>>}
        /\ <<n, j>> \in NR => T = {}
        /\ <<n, j>> \notin NB \cup NR => T = S
    <3>1. <<n, j>> \notin NB \cap NR
      BY <2>1
    <3>2. NB \subseteq Nat \X Nat /\ NR \subseteq Nat \X Nat /\ n \in Nat /\ j \in Nat
      BY <1>0, <1>1, <2>1
    <3> HIDE DEF B
    <3>3. Turns(NB, NR, <<n, j>>, <<n, j + 1>>)
      BY <3>1, <3>2, SinceNext
    <3> QED BY <3>3 DEF Turns
  <2>5. IsFiniteSet(S)
    BY <1>3
  <2> HIDE DEF B, S, T
  <2>6. ASSUME text[j] = "bold" PROVE j + 1 \in B <=> j \notin B
    <3>1. <<n, j>> \notin S /\ T = S \cup {<<n, j>>}
      BY <2>1, <2>4, <2>6
    <3>2. Cardinality(S \cup {<<n, j>>}) % 2 = 1 <=> ~(Cardinality(S) % 2 = 1)
      BY <2>5, <3>1, OneMore
    <3> QED BY <2>2, <2>3, <3>1, <3>2
  <2>7. ASSUME text[j] = "reset" PROVE j + 1 \notin B
    <3>1. T = {} /\ Cardinality(T) = 0
      BY <2>1, <2>4, <2>7, FS_EmptySet
    <3> QED BY <2>3, <3>1
  <2>8. ASSUME text[j] \notin {"bold", "reset"} PROVE j + 1 \in B <=> j \in B
    BY <2>1, <2>2, <2>3, <2>4, <2>8
  <2> QED BY <2>6, <2>7, <2>8
<1> HIDE DEF B
<1>5. ASSUME NEW m \in 1..N, NEW j \in Nat PROVE Since(NB, NR, <<m, j>>) = Since(CB, CR, <<m, j>>)
  <2>1. ASSUME NEW x, x[1] = n PROVE ~Precedes(x, <<m, j>>)
    BY <2>1 DEF Precedes
  <2>2. \A x : x \in NB /\ Precedes(x, <<m, j>>) <=> x \in CB /\ Precedes(x, <<m, j>>)
    BY <2>1
  <2>3. \A x : x \in NR /\ Precedes(x, <<m, j>>) <=> x \in CR /\ Precedes(x, <<m, j>>)
    BY <2>1
  <2> QED BY <2>2, <2>3, SinceSame
<1>6. Since(NB, NR, <<n, 1>>) = Since(CB, CR, <<n, 1>>)
  <2>1. ASSUME NEW token, NEW x, x \in {n} \X PlacesOf(text, token) PROVE ~Precedes(x, <<n, 1>>)
    BY <1>0, <2>1 DEF Precedes, PlacesOf
  <2>2. \A x : x \in NB /\ Precedes(x, <<n, 1>>) <=> x \in CB /\ Precedes(x, <<n, 1>>)
    BY <2>1
  <2>3. \A x : x \in NR /\ Precedes(x, <<n, 1>>) <=> x \in CR /\ Precedes(x, <<n, 1>>)
    BY <2>1
  <2> QED BY <2>2, <2>3, SinceSame
<1>7. Since(NB, NR, <<n + 1, 1>>) = Since(NB, NR, <<n, Len(text) + 1>>)
  <2>1. ASSUME NEW x \in NB \cup NR
        PROVE  Precedes(x, <<n + 1, 1>>) /\ Precedes(x, <<n, Len(text) + 1>>)
    <3>1. CASE x \in (1..N) \X Nat
      BY <1>0, <3>1 DEF Precedes
    <3>2. CASE x \in {n} \X (1..Len(text))
      BY <1>0, <3>2 DEF Precedes
    <3> QED BY <2>1, <3>1, <3>2 DEF PlacesOf
  <2>2. \A x : x \in NB /\ Precedes(x, <<n + 1, 1>>) <=> x \in NB /\ Precedes(x, <<n, Len(text) + 1>>)
    BY <2>1
  <2>3. \A x : x \in NR /\ Precedes(x, <<n + 1, 1>>) <=> x \in NR /\ Precedes(x, <<n, Len(text) + 1>>)
    BY <2>1
  <2> QED BY <2>2, <2>3, SinceSame
<1> QED
  BY <1>2, <1>4, <1>5, <1>6, <1>7 DEF GoesOn, B

-----------------------------------------------------------------------------
(* The styles of the page                                                  *)

IsBold(p) == Cardinality(BoldSince(p)) % 2 = 1

LEMMA CommandsAre ==
    \A token, x : x \in Commands(token) <=>
        \E m \in DOMAIN page : \E a \in DOMAIN TextOf(page[m]) :
            x = <<m, a>> /\ IsParsed(m) /\ TextOf(page[m])[a] = token
<1> SUFFICES ASSUME NEW token, NEW x
             PROVE  x \in Commands(token) <=>
                        \E m \in DOMAIN page : \E a \in DOMAIN TextOf(page[m]) :
                            x = <<m, a>> /\ IsParsed(m) /\ TextOf(page[m])[a] = token
  OBVIOUS
<1> DEFINE All == UNION {{m} \X DOMAIN TextOf(page[m]) : m \in DOMAIN page}
<1>1. x \in All <=> \E m \in DOMAIN page : \E a \in DOMAIN TextOf(page[m]) : x = <<m, a>>
  OBVIOUS
<1>2. x \in Commands(token) <=> x \in All /\ IsParsed(x[1]) /\ TextOf(page[x[1]])[x[2]] = token
  BY DEF Commands
<1> HIDE DEF All
<1>3. ASSUME NEW m, NEW a, x = <<m, a>> PROVE x[1] = m /\ x[2] = a
  BY <1>3
<1> QED
  BY <1>1, <1>2, <1>3

LEMMA CommandsAreNext ==
    (\A token, x : x \in Commands(token) <=>
        \E m \in DOMAIN page : \E a \in DOMAIN TextOf(page[m]) :
            x = <<m, a>> /\ IsParsed(m) /\ TextOf(page[m])[a] = token)'
BY CommandsAre, PTL

LEMMA TextDomain ==
    ASSUME NEW line \in Lines
    PROVE  DOMAIN TextOf(line) = 1..Len(TextOf(line))
BY LineFacts

LEMMA CommandsStep ==
    ASSUME page \in Seq(Lines), NEW line \in Lines, page' = Append(page, line),
           NEW n, n = Len(page) + 1, Modes, NEW token
    PROVE  /\ Commands(token) \subseteq (1..Len(page)) \X Nat
           /\ Commands(token)' = Commands(token) \cup
                (IF ParsedHere(parser, line) THEN {n} \X PlacesOf(TextOf(line), token) ELSE {})
<1>1. /\ DOMAIN page = 1..Len(page) /\ DOMAIN page' = (1..Len(page)) \cup {n}
      /\ page'[n] = line /\ n \notin 1..Len(page)
      /\ \A m \in 1..Len(page) : page'[m] = page[m] /\ page[m] \in Lines
  BY Appended
<1>2. \A m \in 1..Len(page) : IsParsed(m)' <=> IsParsed(m)
  BY KindsStay
<1>3. IsParsed(n)' <=> ParsedHere(parser, line)
  BY NewLine
<1>4. Commands(token) \subseteq (1..Len(page)) \X Nat
  <2> SUFFICES ASSUME NEW x \in Commands(token) PROVE x \in (1..Len(page)) \X Nat
    OBVIOUS
  <2>1. PICK m \in DOMAIN page : \E a \in DOMAIN TextOf(page[m]) : x = <<m, a>>
    BY CommandsAre
  <2>2. DOMAIN TextOf(page[m]) = 1..Len(TextOf(page[m])) /\ Len(TextOf(page[m])) \in Nat
    BY <1>1, TextDomain, LineFacts
  <2> QED BY <1>1, <2>1, <2>2
<1>5. ASSUME NEW x
      PROVE  x \in Commands(token)' <=>
                x \in Commands(token) \/ (ParsedHere(parser, line) /\ x \in {n} \X PlacesOf(TextOf(line), token))
  <2>1. x \in Commands(token)' <=>
            \E m \in (1..Len(page)) \cup {n} : \E a \in DOMAIN TextOf(page'[m]) :
                x = <<m, a>> /\ IsParsed(m)' /\ TextOf(page'[m])[a] = token
    BY <1>1, CommandsAreNext
  <2>2. x \in Commands(token) <=>
            \E m \in 1..Len(page) : \E a \in DOMAIN TextOf(page[m]) :
                x = <<m, a>> /\ IsParsed(m) /\ TextOf(page[m])[a] = token
    BY <1>1, CommandsAre
  <2>3. x \in {n} \X PlacesOf(TextOf(line), token) <=>
            \E a \in DOMAIN TextOf(line) : x = <<n, a>> /\ TextOf(line)[a] = token
    BY TextDomain DEF PlacesOf
  <2>4. (\E m \in 1..Len(page) : \E a \in DOMAIN TextOf(page'[m]) :
                x = <<m, a>> /\ IsParsed(m)' /\ TextOf(page'[m])[a] = token)
        <=> x \in Commands(token)
    BY <1>1, <1>2, <2>2
  <2>5. (\E a \in DOMAIN TextOf(page'[n]) : x = <<n, a>> /\ IsParsed(n)' /\ TextOf(page'[n])[a] = token)
        <=> ParsedHere(parser, line) /\ x \in {n} \X PlacesOf(TextOf(line), token)
    BY <1>1, <1>3, <2>3
  <2> QED BY <2>1, <2>4, <2>5
<1> QED
  BY <1>4, <1>5

\* What a line more does to the styles of the page.
LEMMA BoldStep ==
    ASSUME page \in Seq(Lines), NEW line \in Lines, page' = Append(page, line),
           NEW n, n = Len(page) + 1, Modes, IsFiniteSet(Commands("bold"))
    PROVE  /\ IsFiniteSet(Commands("bold")')
           /\ \A m \in 1..Len(page) : \A j \in Nat : IsBold(<<m, j>>)' <=> IsBold(<<m, j>>)
           /\ \E B : /\ 1 \in B <=> IsBold(<<n, 1>>)
                     /\ ParsedHere(parser, line) => Styles(TextOf(line), B)
                     /\ \A j \in 1..Len(TextOf(line)) : j \in B <=> IsBold(<<n, j>>)'
                     /\ IsBold(<<n + 1, 1>>)' <=> IF ParsedHere(parser, line) THEN Len(TextOf(line)) + 1 \in B
                                                  ELSE IsBold(<<n, 1>>)
<1> DEFINE CB == Commands("bold")
           CR == Commands("reset")
           NB == Commands("bold")'
           NR == Commands("reset")'
           text == TextOf(line)
           B == {j \in 1..Len(text) + 1 : Cardinality(Since(NB, NR, <<n, j>>)) % 2 = 1}
<1>1. /\ CB \subseteq (1..Len(page)) \X Nat /\ CR \subseteq (1..Len(page)) \X Nat
      /\ NB = CB \cup (IF ParsedHere(parser, line) THEN {n} \X PlacesOf(text, "bold") ELSE {})
      /\ NR = CR \cup (IF ParsedHere(parser, line) THEN {n} \X PlacesOf(text, "reset") ELSE {})
  BY CommandsStep
<1>2. Len(page) \in Nat /\ text \in Seq(Tokens) /\ Len(text) \in Nat
  BY LineFacts
<1>3. \A p : (IsBold(p) <=> Cardinality(Since(CB, CR, p)) % 2 = 1)
             /\ (IsBold(p)' <=> Cardinality(Since(NB, NR, p)) % 2 = 1)
  BY DEF IsBold, BoldSince, Since
<1>4. IsFiniteSet(CB)
  OBVIOUS
<1> HIDE DEF CB, CR, NB, NR, text
<1>5. \A j \in 1..Len(text) : j \in B <=> IsBold(<<n, j>>)'
  BY <1>2, <1>3
<1>6. CASE ParsedHere(parser, line)
  <2>1. NB = CB \cup ({n} \X PlacesOf(text, "bold")) /\ NR = CR \cup ({n} \X PlacesOf(text, "reset"))
    BY <1>1, <1>6
  <2>2. /\ IsFiniteSet(NB)
        /\ Styles(text, B)
        /\ \A m \in 1..Len(page) : \A j \in Nat : Since(NB, NR, <<m, j>>) = Since(CB, CR, <<m, j>>)
        /\ Since(NB, NR, <<n, 1>>) = Since(CB, CR, <<n, 1>>)
        /\ Since(NB, NR, <<n + 1, 1>>) = Since(NB, NR, <<n, Len(text) + 1>>)
    <3>1. GoesOn(Len(page), n, text, CB, CR, NB, NR)
      BY <1>1, <1>2, <1>4, <2>1, StylesOfText
    <3> QED BY <3>1 DEF GoesOn
  <2>3. 1 \in B <=> IsBold(<<n, 1>>)
    BY <1>2, <1>3, <2>2
  <2>4. IsBold(<<n + 1, 1>>)' <=> Len(text) + 1 \in B
    BY <1>2, <1>3, <2>2
  <2>5. \A m \in 1..Len(page) : \A j \in Nat : IsBold(<<m, j>>)' <=> IsBold(<<m, j>>)
    BY <1>3, <2>2
  <2> HIDE DEF B
  <2> QED BY <1>5, <1>6, <2>2, <2>3, <2>4, <2>5 DEF NB, text
<1>7. CASE ~ParsedHere(parser, line)
  <2>1. NB = CB /\ NR = CR
    BY <1>1, <1>7
  <2>2. \A p : IsBold(p)' <=> IsBold(p)
    BY <1>3, <2>1
  <2>3. 1 \in B <=> IsBold(<<n, 1>>)
    BY <1>2, <1>3, <2>1
  <2>4. Since(CB, CR, <<n + 1, 1>>) = Since(CB, CR, <<n, 1>>)
    <3>1. \A x \in CB \cup CR : Precedes(x, <<n + 1, 1>>) /\ Precedes(x, <<n, 1>>)
      BY <1>1, <1>2 DEF Precedes
    <3> QED BY <3>1 DEF Since
  <2>5. IsBold(<<n + 1, 1>>)' <=> IsBold(<<n, 1>>)
    BY <1>3, <2>2, <2>4
  <2> HIDE DEF B
  <2> QED BY <1>4, <1>5, <1>7, <2>1, <2>2, <2>3, <2>5 DEF NB, text
<1> QED
  BY <1>6, <1>7

-----------------------------------------------------------------------------
(* Section, alignment and lifetime                                         *)

LEMMA MaxIsMember ==
    ASSUME NEW m \in Nat, NEW s \in SUBSET (1..m), s # {}
    PROVE  Max(s) \in s
<1> DEFINE T == {m - x : x \in s}
<1>0. \A x \in s : x \in Nat /\ m - x \in Nat
  OBVIOUS
<1>1. T \subseteq Nat /\ T # {}
  BY <1>0
<1>2. PICK t \in T : \A y \in T : t <= y
  BY <1>1, LeastNumber
<1>3. PICK x \in s : t = m - x
  BY <1>2
<1>4. \A y \in s : x >= y
  <2> TAKE y \in s
  <2>1. m - y \in T
    OBVIOUS
  <2> HIDE DEF T
  <2>2. m - x <= m - y
    BY <1>2, <1>3, <2>1
  <2>3. x \in Nat /\ y \in Nat
    BY <1>0
  <2> QED BY <2>2, <2>3
<1> HIDE DEF T
<1> QED
  BY <1>4 DEF Max

TurnsSection(m) ==
    IsText(m) /\ (page[m].is = "heading" \/ (page[m].is \in {"plain", "ruled"} /\ page[m].reset))
TurnsAlignment(m) ==
    IsText(m) /\ page[m].is \in {"plain", "ruled"} /\ page[m].align # "inherit"

LEMMA TurnsStay ==
    ASSUME page \in Seq(Lines), NEW line \in Lines, page' = Append(page, line),
           NEW n \in 0..Len(page)
    PROVE  /\ {m \in 1..n : TurnsSection(m)'} = {m \in 1..n : TurnsSection(m)}
           /\ {m \in 1..n : TurnsAlignment(m)'} = {m \in 1..n : TurnsAlignment(m)}
<1> SUFFICES ASSUME NEW m \in 1..n
             PROVE  (TurnsSection(m)' <=> TurnsSection(m)) /\ (TurnsAlignment(m)' <=> TurnsAlignment(m))
  OBVIOUS
<1>1. m \in 1..Len(page)
  BY Appended
<1>2. page'[m] = page[m] /\ (IsText(m)' <=> IsText(m))
  BY <1>1, Appended, KindsStay
<1> QED
  BY <1>2 DEF TurnsSection, TurnsAlignment

\* The section and the alignment that the last of the turning lines gives.
SectionOf(turns, lines) ==
    IF turns = {} THEN 0
    ELSE IF lines[Max(turns)].is = "heading" THEN lines[Max(turns)].depth ELSE 0
AlignmentOf(turns, lines) == IF turns = {} THEN "left" ELSE lines[Max(turns)].align

LEMMA TurnedAt ==
    ASSUME NEW n
    PROVE  /\ SectionAt(n) = SectionOf({m \in 1..n : TurnsSection(m)}, page)
           /\ AlignmentAt(n) = AlignmentOf({m \in 1..n : TurnsAlignment(m)}, page)
           /\ SectionAt(n)' = SectionOf({m \in 1..n : TurnsSection(m)'}, page')
           /\ AlignmentAt(n)' = AlignmentOf({m \in 1..n : TurnsAlignment(m)'}, page')
BY Zenon DEF SectionAt, AlignmentAt, SectionOf, AlignmentOf, TurnsSection, TurnsAlignment

LEMMA SectionsStay ==
    ASSUME page \in Seq(Lines), NEW line \in Lines, page' = Append(page, line),
           NEW n \in 0..Len(page)
    PROVE  SectionAt(n)' = SectionAt(n) /\ AlignmentAt(n)' = AlignmentAt(n)
<1>0. n \in Nat
  BY Appended
<1>1. ASSUME NEW turns \in SUBSET (1..n)
      PROVE  /\ SectionOf(turns, page') = SectionOf(turns, page)
             /\ AlignmentOf(turns, page') = AlignmentOf(turns, page)
  <2>1. CASE turns = {}
    BY <2>1 DEF SectionOf, AlignmentOf
  <2>2. CASE turns # {}
    <3>1. Max(turns) \in 1..n
      BY <1>0, <2>2, MaxIsMember
    <3>2. page'[Max(turns)] = page[Max(turns)]
      BY <3>1, Appended
    <3> QED BY <3>2 DEF SectionOf, AlignmentOf
  <2> QED BY <2>1, <2>2
<1> QED
  BY <1>1, TurnsStay, TurnedAt

\* The section and the alignment after a line more.
LEMMA SectionStep ==
    ASSUME page \in Seq(Lines), NEW line \in Lines, page' = Append(page, line),
           NEW n, n = Len(page) + 1, NEW k, k = Len(page), Modes
    PROVE  /\ SectionAt(n)' =
                IF TextHere(parser, line) /\ line.is = "heading" THEN line.depth
                ELSE IF TextHere(parser, line) /\ line.is \in {"plain", "ruled"} /\ line.reset THEN 0
                ELSE SectionAt(k)
           /\ AlignmentAt(n)' =
                IF TextHere(parser, line) /\ line.is \in {"plain", "ruled"} /\ line.align # "inherit"
                THEN line.align ELSE AlignmentAt(k)
<1>1. /\ n \in Nat /\ k \in Nat /\ k \in 0..Len(page) /\ 1..n = (1..k) \cup {n}
      /\ page'[n] = line /\ n \notin 1..k
  BY Appended
<1>2. IsText(n)' <=> TextHere(parser, line)
  BY NewLine
<1>3. /\ TurnsSection(n)' <=> TextHere(parser, line) /\
            (line.is = "heading" \/ (line.is \in {"plain", "ruled"} /\ line.reset))
      /\ TurnsAlignment(n)' <=> TextHere(parser, line) /\ line.is \in {"plain", "ruled"} /\ line.align # "inherit"
  BY <1>1, <1>2 DEF TurnsSection, TurnsAlignment
<1> DEFINE S == {m \in 1..n : TurnsSection(m)'}
           A == {m \in 1..n : TurnsAlignment(m)'}
<1>4. /\ SectionAt(n)' = SectionOf(S, page') /\ AlignmentAt(n)' = AlignmentOf(A, page')
      /\ SectionAt(k)' = SectionOf({m \in 1..k : TurnsSection(m)'}, page')
      /\ AlignmentAt(k)' = AlignmentOf({m \in 1..k : TurnsAlignment(m)'}, page')
  BY TurnedAt
<1>5. SectionAt(k)' = SectionAt(k) /\ AlignmentAt(k)' = AlignmentAt(k)
  BY <1>1, SectionsStay
<1>6. TurnsSection(n)' => n \in S /\ S \in SUBSET (1..n) /\ S # {}
  BY <1>1
<1>7. ~TurnsSection(n)' => S = {m \in 1..k : TurnsSection(m)'}
  BY <1>1
<1>8. TurnsAlignment(n)' => n \in A /\ A \in SUBSET (1..n) /\ A # {}
  BY <1>1
<1>9. ~TurnsAlignment(n)' => A = {m \in 1..k : TurnsAlignment(m)'}
  BY <1>1
<1> HIDE DEF S, A
<1>10. SectionAt(n)' =
            IF TurnsSection(n)' THEN IF line.is = "heading" THEN line.depth ELSE 0 ELSE SectionAt(k)
  <2>1. CASE TurnsSection(n)'
    <3>1. Max(S) = n /\ S # {}
      BY <1>1, <1>6, <2>1, MaxIsLast
    <3> QED BY <1>1, <1>4, <2>1, <3>1 DEF SectionOf
  <2>2. CASE ~TurnsSection(n)'
    BY <1>4, <1>5, <1>7, <2>2
  <2> QED BY <2>1, <2>2
<1>11. AlignmentAt(n)' = IF TurnsAlignment(n)' THEN line.align ELSE AlignmentAt(k)
  <2>1. CASE TurnsAlignment(n)'
    <3>1. Max(A) = n /\ A # {}
      BY <1>1, <1>8, <2>1, MaxIsLast
    <3> QED BY <1>1, <1>4, <2>1, <3>1 DEF AlignmentOf
  <2>2. CASE ~TurnsAlignment(n)'
    BY <1>4, <1>5, <1>9, <2>2
  <2> QED BY <2>1, <2>2
<1> QED
  BY <1>3, <1>10, <1>11

LEMMA LifetimeStep ==
    ASSUME page \in Seq(Lines), NEW line \in Lines, page' = Append(page, line), LifetimeHolds,
           parser'.seconds = IF line.is = "seconds" THEN Smaller(line.value, SecondsLimit) ELSE parser.seconds
    PROVE  LifetimeHolds'
<1> DEFINE n == Len(page) + 1
           S == {m \in DOMAIN page : page[m].is = "seconds"}
           T == {m \in DOMAIN page' : page'[m].is = "seconds"}
<1>1. /\ n \in Nat /\ DOMAIN page = 1..Len(page) /\ DOMAIN page' = (1..Len(page)) \cup {n}
      /\ DOMAIN page' = 1..n /\ page'[n] = line
      /\ \A m \in 1..Len(page) : page'[m] = page[m]
  BY Appended
<1>2. parser.seconds = IF S = {} THEN DefaultSeconds ELSE Smaller(page[Max(S)].value, SecondsLimit)
  BY DEF LifetimeHolds
<1>3. S \in SUBSET (1..Len(page)) /\ Len(page) \in Nat
  BY <1>1
<1>4. CASE line.is = "seconds"
  <2>1. n \in T /\ T \in SUBSET (1..n) /\ T # {}
    BY <1>1, <1>4
  <2> HIDE DEF T, n
  <2>2. Max(T) = n
    BY <1>1, <2>1, MaxIsLast
  <2>3. parser'.seconds = IF T = {} THEN DefaultSeconds ELSE Smaller(page'[Max(T)].value, SecondsLimit)
    BY <1>1, <1>4, <2>1, <2>2
  <2> QED BY <2>3 DEF LifetimeHolds, T
<1>5. CASE line.is # "seconds"
  <2>1. T = S
    BY <1>1, <1>5
  <2> HIDE DEF T, S, n
  <2>2. S # {} => page'[Max(S)] = page[Max(S)]
    BY <1>1, <1>3, MaxIsMember
  <2>3. parser'.seconds = IF T = {} THEN DefaultSeconds ELSE Smaller(page'[Max(T)].value, SecondsLimit)
    BY <1>2, <1>5, <2>1, <2>2
  <2> QED BY <2>3 DEF LifetimeHolds, T
<1> QED
  BY <1>4, <1>5

-----------------------------------------------------------------------------
(* The order of blocks and rows                                            *)

Increasing(contents) ==
    \A x, y \in 1..Len(contents) : x < y => contents[x].line < contents[y].line
AllBefore(contents, others) ==
    \A x \in 1..Len(contents), y \in 1..Len(others) : contents[x].line < others[y].line

\* The lines of the blocks and of the rows of the open table follow each other,
\* only partials may come out before the table they are written in.
Ordered(blocks, rows) ==
    /\ \A i \in 1..Len(blocks) : Increasing(blocks[i].contents)
    /\ \A i, j \in 1..Len(blocks) : i < j =>
            (blocks[i].is = "partial" /\ blocks[j].is = "table")
                \/ AllBefore(blocks[i].contents, blocks[j].contents)
    /\ Increasing(rows)
    /\ \A i \in 1..Len(blocks) : blocks[i].is = "partial" \/ AllBefore(blocks[i].contents, rows)

\* All lines are below n.
Below(blocks, rows, n) ==
    /\ \A i \in 1..Len(blocks) : \A x \in 1..Len(blocks[i].contents) : blocks[i].contents[x].line < n
    /\ \A y \in 1..Len(rows) : rows[y].line < n

LEMMA OneLine ==
    ASSUME NEW c
    PROVE  Increasing(<<c>>) /\ Len(<<c>>) = 1 /\ <<c>>[1] = c /\ <<c>> # <<>>
BY DEF Increasing

LEMMA NoLines ==
    /\ Len(<<>>) = 0 /\ Increasing(<<>>)
    /\ \A contents : AllBefore(contents, <<>>)
BY DEF Increasing, AllBefore

LEMMA AppendedContent ==
    ASSUME NEW contents \in Seq(Contents), NEW c \in Contents,
           Increasing(contents), \A x \in 1..Len(contents) : contents[x].line < c.line
    PROVE  Increasing(Append(contents, c))
<1> DEFINE q == Append(contents, c)
<1>1. /\ Len(q) = Len(contents) + 1 /\ Len(contents) \in Nat
      /\ q[Len(contents) + 1] = c
      /\ \A x \in 1..Len(contents) : q[x] = contents[x]
  OBVIOUS
<1> HIDE DEF q
<1>2. ASSUME NEW x \in 1..Len(q), NEW y \in 1..Len(q), x < y PROVE q[x].line < q[y].line
  <2>1. x \in 1..Len(contents)
    BY <1>1, <1>2
  <2>2. y \in 1..Len(contents) \/ y = Len(contents) + 1
    BY <1>1
  <2> QED BY <1>1, <1>2, <2>1, <2>2 DEF Increasing
<1> QED
  BY <1>2 DEF Increasing, q

LEMMA ClosedIsOrdered ==
    ASSUME NEW s \in Parsers, Ordered(s.blocks, s.rows)
    PROVE  Ordered(Closed(s), <<>>)
<1> DEFINE N == Len(s.blocks)
<1>1. s.blocks \in Seq(Blocks) /\ N \in Nat
  BY DEF Parsers
<1>2. CASE s.rows = <<>>
  BY <1>2 DEF Closed
<1>3. CASE s.rows # <<>>
  <2> DEFINE t == TableOf(s)
             q == Append(s.blocks, t)
  <2>1. t.is = "table" /\ t.contents = s.rows
    BY DEF TableOf
  <2>2. /\ Len(q) = N + 1 /\ q[N + 1] = t
        /\ \A i \in 1..N : q[i] = s.blocks[i]
    BY <1>1
  <2>3. Closed(s) = q
    BY <1>3 DEF Closed
  <2> HIDE DEF q, t, N
  <2>4. \A i \in 1..Len(q) : Increasing(q[i].contents)
    BY <1>1, <2>1, <2>2 DEF Ordered, N
  <2>5. ASSUME NEW i \in 1..Len(q), NEW j \in 1..Len(q), i < j
        PROVE  (q[i].is = "partial" /\ q[j].is = "table") \/ AllBefore(q[i].contents, q[j].contents)
    <3>1. i \in 1..N /\ (j \in 1..N \/ j = N + 1)
      BY <1>1, <2>2, <2>5
    <3> QED BY <2>1, <2>2, <2>5, <3>1 DEF Ordered, N
  <2> QED BY <2>3, <2>4, <2>5, NoLines DEF Ordered
<1> QED
  BY <1>2, <1>3

LEMMA RowIsOrdered ==
    ASSUME NEW blocks \in Seq(Blocks), NEW rows \in Seq(Contents), Ordered(blocks, rows),
           NEW c \in Contents, Below(blocks, rows, c.line)
    PROVE  Ordered(blocks, Append(rows, c))
<1> DEFINE q == Append(rows, c)
<1>1. Increasing(q)
  BY AppendedContent DEF Ordered, Below
<1>2. Len(q) = Len(rows) + 1 /\ Len(rows) \in Nat /\ q[Len(rows) + 1] = c
      /\ \A y \in 1..Len(rows) : q[y] = rows[y]
  OBVIOUS
<1> HIDE DEF q
<1>3. ASSUME NEW i \in 1..Len(blocks), blocks[i].is # "partial"
      PROVE  AllBefore(blocks[i].contents, q)
  <2> SUFFICES ASSUME NEW x \in 1..Len(blocks[i].contents), NEW y \in 1..Len(q)
               PROVE  blocks[i].contents[x].line < q[y].line
    BY DEF AllBefore
  <2>1. y \in 1..Len(rows) \/ y = Len(rows) + 1
    BY <1>2
  <2>2. AllBefore(blocks[i].contents, rows)
    BY <1>3 DEF Ordered
  <2> QED BY <1>2, <2>1, <2>2 DEF AllBefore, Below
<1> QED
  BY <1>1, <1>3 DEF Ordered, q

LEMMA BlockIsOrdered ==
    ASSUME NEW blocks \in Seq(Blocks), NEW rows, Ordered(blocks, rows),
           NEW c \in Contents, Below(blocks, rows, c.line),
           NEW b \in Blocks, b.contents = <<c>>, b.is = "partial" \/ rows = <<>>
    PROVE  Ordered(Append(blocks, b), rows)
<1> DEFINE q == Append(blocks, b)
           N == Len(blocks)
<1>1. N \in Nat /\ Len(q) = N + 1 /\ q[N + 1] = b /\ \A i \in 1..N : q[i] = blocks[i]
  OBVIOUS
<1>2. Increasing(b.contents) /\ Len(b.contents) = 1 /\ b.contents[1] = c
  BY OneLine
<1>3. b.is = "partial" \/ AllBefore(b.contents, rows)
  BY NoLines
<1>4. \A i \in 1..N : AllBefore(blocks[i].contents, b.contents)
  BY <1>2 DEF AllBefore, Below
<1> HIDE DEF q, N
<1>5. \A i \in 1..Len(q) : Increasing(q[i].contents) /\ (q[i].is = "partial" \/ AllBefore(q[i].contents, rows))
  BY <1>1, <1>2, <1>3 DEF Ordered, N
<1>6. ASSUME NEW i \in 1..Len(q), NEW j \in 1..Len(q), i < j
      PROVE  (q[i].is = "partial" /\ q[j].is = "table") \/ AllBefore(q[i].contents, q[j].contents)
  <2>1. i \in 1..N /\ (j \in 1..N \/ j = N + 1)
    BY <1>1, <1>6
  <2> QED BY <1>1, <1>4, <1>6, <2>1 DEF Ordered, N
<1> QED
  BY <1>5, <1>6 DEF Ordered, q

LEMMA JoinedIsOrdered ==
    ASSUME NEW blocks \in Seq(Blocks), blocks # <<>>, Ordered(blocks, <<>>),
           NEW c \in Contents, Below(blocks, <<>>, c.line)
    PROVE  Ordered([blocks EXCEPT ![Len(blocks)].contents = Append(@, c)], <<>>)
<1> DEFINE N == Len(blocks)
           q == [blocks EXCEPT ![N].contents = Append(@, c)]
           old == blocks[N].contents
<1>1. N \in Nat /\ N \in 1..N /\ DOMAIN blocks = 1..N /\ blocks[N] \in Blocks
  OBVIOUS
<1>2. old \in Seq(Contents) /\ Increasing(old) /\ \A x \in 1..Len(old) : old[x].line < c.line
  BY <1>1 DEF Blocks, Ordered, Below
<1>3. Increasing(Append(old, c))
  BY <1>2, AppendedContent
<1>4. /\ Len(q) = N /\ q[N].contents = Append(old, c)
      /\ \A i \in 1..N : i # N => q[i] = blocks[i]
  BY <1>1 DEF Blocks
<1>5. \A y \in 1..Len(Append(old, c)) : Append(old, c)[y] = c \/ \E x \in 1..Len(old) : x = y /\ Append(old, c)[y] = old[x]
  BY <1>2
<1> HIDE DEF q
<1>6. \A i \in 1..Len(q) : Increasing(q[i].contents)
  BY <1>3, <1>4 DEF Ordered
<1>7. ASSUME NEW i \in 1..Len(q), NEW j \in 1..Len(q), i < j
      PROVE  (q[i].is = "partial" /\ q[j].is = "table") \/ AllBefore(q[i].contents, q[j].contents)
  <2>1. i \in 1..N /\ j \in 1..N /\ i # N /\ q[i] = blocks[i]
    <3> HIDE DEF N
    <3>1. i \in 1..N /\ j \in 1..N
      BY <1>4
    <3>2. i # N
      BY <1>1, <1>7, <3>1
    <3> QED BY <1>4, <3>1, <3>2
  <2>2. CASE j # N
    BY <1>4, <1>7, <2>1, <2>2 DEF Ordered
  <2>3. CASE j = N
    <3>1. blocks[N].is = q[N].is
      BY <1>1, <1>4 DEF q, Blocks
    <3>2. (blocks[i].is = "partial" /\ blocks[N].is = "table") \/ AllBefore(blocks[i].contents, old)
      BY <1>7, <2>1, <2>3 DEF Ordered
    <3>3. ASSUME AllBefore(blocks[i].contents, old)
          PROVE  AllBefore(blocks[i].contents, Append(old, c))
      <4> SUFFICES ASSUME NEW x \in 1..Len(blocks[i].contents), NEW y \in 1..Len(Append(old, c))
                   PROVE  blocks[i].contents[x].line < Append(old, c)[y].line
        BY DEF AllBefore
      <4> HIDE DEF old
      <4>1. CASE Append(old, c)[y] = c
        BY <2>1, <4>1 DEF Below
      <4>2. CASE \E z \in 1..Len(old) : z = y /\ Append(old, c)[y] = old[z]
        BY <3>3, <4>2 DEF AllBefore
      <4> QED BY <1>5, <4>1, <4>2
    <3> QED BY <1>4, <2>1, <2>3, <3>1, <3>2, <3>3
  <2> QED BY <2>2, <2>3
<1> QED
  BY <1>6, <1>7, NoLines DEF Ordered, q

-----------------------------------------------------------------------------
(* Where a line comes to be shown                                          *)

Shown(blocks, rows, m) ==
    \/ \E b \in Range(blocks) : \E c \in Range(b.contents) : c.line = m
    \/ \E c \in Range(rows) : c.line = m

\* A block of a line of its own, and one that literal lines already have.
NewOf(s, n, line, B, r, b) ==
    \E c \in Contents :
        /\ b \in Blocks /\ b.contents = <<c>> /\ b.is = HomeHere(s, line)
        /\ Styled(c, n, B, TextOf(line)) /\ b.depth = r.depth /\ b.align = r.align
JoinOf(s, n, line, b) ==
    /\ HomeHere(s, line) = "preformatted"
    /\ \E old \in Range(s.blocks) :
        old.is = "preformatted" /\ b = [old EXCEPT !.contents = Append(@, Content(n, <<>>))]

PlacedWell(s, n, line, B, r) ==
    /\ \A b \in Range(r.blocks) :
        \/ b \in Range(s.blocks)
        \/ b = TableOf(s) /\ s.rows # <<>>
        \/ NewOf(s, n, line, B, r, b)
        \/ JoinOf(s, n, line, b)
    /\ \A c \in Range(r.rows) :
        c \in Range(s.rows) \/ (HomeHere(s, line) = "table" /\ Styled(c, n, B, TextOf(line)))
    /\ \A m : Shown(s.blocks, s.rows, m) => Shown(r.blocks, r.rows, m)
    /\ HomeHere(s, line) # "none" => Shown(r.blocks, r.rows, n)
    /\ Ordered(r.blocks, r.rows)

LEMMA AppendedRange ==
    ASSUME NEW S, NEW q \in Seq(S), NEW x
    PROVE  Range(Append(q, x)) = Range(q) \cup {x}
<1>1. /\ DOMAIN q = 1..Len(q) /\ Len(q) \in Nat /\ DOMAIN Append(q, x) = (1..Len(q)) \cup {Len(q) + 1}
      /\ Append(q, x)[Len(q) + 1] = x
      /\ \A i \in 1..Len(q) : Append(q, x)[i] = q[i]
  OBVIOUS
<1> QED
  BY <1>1 DEF Range

LEMMA ClosedRange ==
    ASSUME NEW s \in Parsers
    PROVE  /\ \A b \in Range(Closed(s)) : b \in Range(s.blocks) \/ (b = TableOf(s) /\ s.rows # <<>>)
           /\ \A m : Shown(s.blocks, s.rows, m) => Shown(Closed(s), <<>>, m)
<1>1. s.blocks \in Seq(Blocks)
  BY DEF Parsers
<1>2. CASE s.rows = <<>>
  BY <1>2 DEF Closed
<1>3. CASE s.rows # <<>>
  <2>1. Closed(s) = Append(s.blocks, TableOf(s))
    BY <1>3 DEF Closed
  <2>2. Range(Closed(s)) = Range(s.blocks) \cup {TableOf(s)}
    BY <1>1, <2>1, AppendedRange
  <2>3. TableOf(s).contents = s.rows
    BY DEF TableOf
  <2> QED BY <1>3, <2>2, <2>3 DEF Shown
<1> QED
  BY <1>2, <1>3

LEMMA JoinedRange ==
    ASSUME NEW blocks \in Seq(Blocks), blocks # <<>>, NEW c \in Contents
    PROVE  LET q == [blocks EXCEPT ![Len(blocks)].contents = Append(@, c)]
               last == blocks[Len(blocks)]
               new == [last EXCEPT !.contents = Append(@, c)] IN
           /\ last \in Range(blocks) /\ new \in Range(q)
           /\ Range(new.contents) = Range(last.contents) \cup {c}
           /\ \A b \in Range(q) : b \in Range(blocks) \/ b = new
           /\ \A b \in Range(blocks) : b \in Range(q) \/ b = last
<1> DEFINE q == [blocks EXCEPT ![Len(blocks)].contents = Append(@, c)]
           last == blocks[Len(blocks)]
           new == [last EXCEPT !.contents = Append(@, c)]
<1>1. Len(blocks) \in 1..Len(blocks) /\ DOMAIN blocks = 1..Len(blocks) /\ last \in Blocks
  OBVIOUS
<1>2. last.contents \in Seq(Contents) /\ new.contents = Append(last.contents, c)
  BY <1>1 DEF Blocks
<1>3. Range(new.contents) = Range(last.contents) \cup {c}
  BY <1>2, AppendedRange
<1>4. DOMAIN q = 1..Len(blocks) /\ q[Len(blocks)] = new
      /\ \A i \in 1..Len(blocks) : i # Len(blocks) => q[i] = blocks[i]
  BY <1>1
<1> HIDE DEF q, new
<1>5. last \in Range(blocks) /\ new \in Range(q)
  BY <1>1, <1>4 DEF Range
<1>6. \A b \in Range(q) : b \in Range(blocks) \/ b = new
  BY <1>1, <1>4 DEF Range
<1>7. \A b \in Range(blocks) : b \in Range(q) \/ b = last
  BY <1>1, <1>4 DEF Range
<1> QED
  BY <1>3, <1>5, <1>6, <1>7 DEF q, new

LEMMA OneRange == \A c : Range(<<c>>) = {c}
BY DEF Range

LEMMA Placed ==
    ASSUME NEW s \in Parsers, ~s.open => s.rows = <<>>, NEW n \in Nat, NEW line \in Lines, NEW B,
           NEW r \in Parsers, LinePlaced(s, n, line, B, r),
           Ordered(s.blocks, s.rows), Below(s.blocks, s.rows, n)
    PROVE  PlacedWell(s, n, line, B, r)
<1>0. s.blocks \in Seq(Blocks) /\ s.rows \in Seq(Contents)
  BY DEF Parsers
<1>1. CASE line.is = "table"
  <2>1. HomeHere(s, line) = "none" /\ r.rows = <<>> /\ r.blocks = Closed(s)
    BY <1>1 DEF HomeHere, MarkupHere, LinePlaced
  <2>2. Range(r.rows) = {}
    BY <2>1 DEF Range
  <2> QED BY <2>1, <2>2, ClosedRange, ClosedIsOrdered DEF PlacedWell
<1>2. CASE line.is # "table" /\ HomeHere(s, line) = "none"
  <2>1. r.rows = s.rows /\ r.blocks = s.blocks
    BY <1>2 DEF LinePlaced
  <2> QED BY <1>2, <2>1 DEF PlacedWell
<1>3. CASE line.is # "table" /\ HomeHere(s, line) = "table"
  <2>1. PICK c \in Contents :
            r.blocks = s.blocks /\ r.rows = Append(s.rows, c) /\ Styled(c, n, B, TextOf(line))
    BY <1>3 DEF LinePlaced
  <2>2. Range(r.rows) = Range(s.rows) \cup {c} /\ c.line = n
    BY <1>0, <2>1, AppendedRange DEF Styled
  <2>3. Ordered(r.blocks, r.rows)
    BY <1>0, <2>1, <2>2, RowIsOrdered
  <2>4. Shown(r.blocks, r.rows, n)
    BY <2>2 DEF Shown
  <2>5. \A m : Shown(s.blocks, s.rows, m) => Shown(r.blocks, r.rows, m)
    BY <2>1, <2>2 DEF Shown
  <2> QED BY <1>3, <2>1, <2>2, <2>3, <2>4, <2>5 DEF PlacedWell
<1>4. CASE line.is # "table" /\ HomeHere(s, line) \notin {"none", "table"}
  <2>1. r.rows = s.rows
    BY <1>4 DEF LinePlaced
  <2>2. HomeHere(s, line) # "partial" => s.rows = <<>>
    BY <1>4 DEF HomeHere
  <2>3. CASE NewBlock(s, n, line, B, r)
    <3>1. PICK b \in Blocks, c \in Contents :
            /\ r.blocks = Append(s.blocks, b)
            /\ b.is = HomeHere(s, line) /\ b.contents = <<c>> /\ Styled(c, n, B, TextOf(line))
            /\ b.depth = r.depth /\ b.align = r.align
      BY <2>3 DEF NewBlock
    <3>2. Range(r.blocks) = Range(s.blocks) \cup {b} /\ Range(b.contents) = {c} /\ c.line = n
      BY <1>0, <3>1, AppendedRange, OneRange DEF Styled
    <3>3. Ordered(r.blocks, r.rows)
      BY <1>0, <2>1, <2>2, <3>1, <3>2, BlockIsOrdered
    <3>4. NewOf(s, n, line, B, r, b)
      BY <3>1 DEF NewOf
    <3>5. Shown(r.blocks, r.rows, n)
      BY <3>2 DEF Shown
    <3>6. \A m : Shown(s.blocks, s.rows, m) => Shown(r.blocks, r.rows, m)
      BY <2>1, <3>2 DEF Shown
    <3> QED BY <2>1, <3>2, <3>3, <3>4, <3>5, <3>6 DEF PlacedWell
  <2>4. CASE HomeHere(s, line) = "preformatted" /\ JoinsLast(s, n, r)
    <3> DEFINE c == Content(n, <<>>)
               last == s.blocks[Len(s.blocks)]
               new == [last EXCEPT !.contents = Append(@, c)]
    <3>1. s.blocks # <<>> /\ last.is = "preformatted" /\ s.rows = <<>>
          /\ r.blocks = [s.blocks EXCEPT ![Len(s.blocks)].contents = Append(@, c)]
      BY <2>2, <2>4 DEF JoinsLast, Last
    <3>2. c \in Contents /\ c.line = n
      <4>1. <<>> \in Seq(TextParts)
        OBVIOUS
      <4> QED BY <4>1, NewContent
    <3> HIDE DEF c
    <3>3. /\ last \in Range(s.blocks) /\ new \in Range(r.blocks)
          /\ Range(new.contents) = Range(last.contents) \cup {c}
          /\ \A b \in Range(r.blocks) : b \in Range(s.blocks) \/ b = new
          /\ \A b \in Range(s.blocks) : b \in Range(r.blocks) \/ b = last
      BY <1>0, <3>1, <3>2, JoinedRange
    <3>4. JoinOf(s, n, line, new)
      BY <2>4, <3>1, <3>3 DEF JoinOf, c
    <3> HIDE DEF new, last
    <3>5. Ordered(r.blocks, r.rows)
      BY <1>0, <2>1, <3>1, <3>2, JoinedIsOrdered
    <3>6. Shown(r.blocks, r.rows, n)
      BY <3>2, <3>3 DEF Shown
    <3>7. \A m : Shown(s.blocks, s.rows, m) => Shown(r.blocks, r.rows, m)
      BY <2>1, <3>3 DEF Shown
    <3> QED BY <2>1, <3>3, <3>4, <3>5, <3>6, <3>7 DEF PlacedWell
  <2> QED BY <1>4, <2>3, <2>4 DEF LinePlaced
<1> QED
  BY <1>1, <1>2, <1>3, <1>4

-----------------------------------------------------------------------------
(* The invariant of the parser                                             *)

\* The parts of a line of a block have their styles.
ContentTrue(c) ==
    /\ c.line \in 1..Len(page)
    /\ \A i \in 1..Len(c.parts) : c.parts[i].bold <=> IsBold(<<c.line, c.parts[i].at>>)

\* A block consists of lines that belong in it, in their section and alignment.
BlockTrue(b) ==
    /\ b.contents # <<>>
    /\ \A c \in Range(b.contents) : ContentTrue(c) /\ Home(c.line) = b.is
    /\ b.is \in {"heading", "paragraph", "divider"} => b.depth = SectionAt(b.contents[1].line)
    /\ b.is \in {"heading", "paragraph"} => b.align = AlignmentAt(b.contents[1].line)

Typed ==
    /\ page \in Seq(Lines) /\ parser \in Parsers
    /\ ~parser.open => parser.rows = <<>>

\* Section, alignment and style are those of the place the parser has reached.
Follows ==
    /\ IsFiniteSet(Commands("bold"))
    /\ \A n : n = Len(page) + 1 => (parser.bold <=> IsBold(<<n, 1>>))
    /\ \A n : n = Len(page) => parser.depth = SectionAt(n) /\ parser.align = AlignmentAt(n)

\* Blocks and rows hold the lines that belong there, in order.
LaidOut ==
    /\ \A b \in Range(parser.blocks) : BlockTrue(b)
    /\ \A c \in Range(parser.rows) : ContentTrue(c) /\ Home(c.line) = "table"
    /\ Ordered(parser.blocks, parser.rows)
    /\ \A n \in 1..Len(page) : Home(n) # "none" => Shown(parser.blocks, parser.rows, n)

ParserInvariant == Typed /\ Modes /\ LifetimeHolds /\ Follows /\ LaidOut

LEMMA RangeElement ==
    ASSUME NEW S, NEW q \in Seq(S)
    PROVE  /\ \A x \in Range(q) : x \in S
           /\ \A i \in 1..Len(q) : q[i] \in Range(q) /\ q[i] \in S
           /\ \A x \in Range(q) : \E i \in 1..Len(q) : x = q[i]
BY DEF Range

LEMMA ContentStays ==
    ASSUME page \in Seq(Lines), NEW line \in Lines, page' = Append(page, line), Modes,
           IsFiniteSet(Commands("bold")), NEW c \in Contents, ContentTrue(c)
    PROVE  ContentTrue(c)' /\ Home(c.line)' = Home(c.line)
<1>1. c.line \in 1..Len(page) /\ c.line \in 1..Len(page')
  BY Appended DEF ContentTrue
<1>2. Home(c.line)' = Home(c.line)
  BY <1>1, KindsStay
<1>3. \A m \in 1..Len(page) : \A j \in Nat : IsBold(<<m, j>>)' <=> IsBold(<<m, j>>)
  <2>1. PICK n : n = Len(page) + 1
    OBVIOUS
  <2> QED BY <2>1, BoldStep
<1>4. \A i \in 1..Len(c.parts) : c.parts[i].at \in Nat
  <2>1. c.parts \in Seq(TextParts)
    BY DEF Contents
  <2>2. \A i \in 1..Len(c.parts) : c.parts[i] \in TextParts
    BY <2>1
  <2> QED BY <2>2 DEF TextParts
<1> QED
  BY <1>1, <1>2, <1>3, <1>4 DEF ContentTrue

LEMMA BlockStays ==
    ASSUME page \in Seq(Lines), NEW line \in Lines, page' = Append(page, line), Modes,
           IsFiniteSet(Commands("bold")), NEW b \in Blocks, BlockTrue(b)
    PROVE  BlockTrue(b)'
<1>1. b.contents \in Seq(Contents) /\ b.contents # <<>>
  BY DEF Blocks, BlockTrue
<1>2. \A c \in Range(b.contents) : c \in Contents /\ ContentTrue(c) /\ Home(c.line) = b.is
  BY <1>1, RangeElement DEF BlockTrue
<1>3. \A c \in Range(b.contents) : ContentTrue(c)' /\ Home(c.line)' = b.is
  BY <1>2, ContentStays
<1>4. b.contents[1] \in Range(b.contents) /\ b.contents[1].line \in 0..Len(page)
  <2>1. 1 \in 1..Len(b.contents) /\ Len(page) \in Nat
    BY <1>1
  <2>2. b.contents[1] \in Range(b.contents)
    BY <1>1, <2>1, RangeElement
  <2> QED BY <1>2, <2>1, <2>2 DEF ContentTrue
<1>5. /\ SectionAt(b.contents[1].line)' = SectionAt(b.contents[1].line)
      /\ AlignmentAt(b.contents[1].line)' = AlignmentAt(b.contents[1].line)
  BY <1>4, SectionsStay
<1> QED
  BY <1>1, <1>3, <1>5 DEF BlockTrue

LEMMA StyledIsTrue ==
    ASSUME page \in Seq(Lines), NEW line \in Lines, page' = Append(page, line),
           NEW n, n = Len(page) + 1, NEW B,
           \A j \in 1..Len(TextOf(line)) : j \in B <=> IsBold(<<n, j>>)',
           NEW c, Styled(c, n, B, TextOf(line))
    PROVE  ContentTrue(c)' /\ c.line = n
<1>1. n \in 1..Len(page')
  BY Appended
<1>2. c.line = n /\ \A i \in 1..Len(c.parts) :
        c.parts[i].at \in 1..Len(TextOf(line)) /\ (c.parts[i].bold <=> c.parts[i].at \in B)
  BY DEF Styled, Agrees
<1> QED
  BY <1>1, <1>2 DEF ContentTrue

LEMMA ParserStarts == PageInit => ParserInvariant
<1> SUFFICES ASSUME PageInit PROVE ParserInvariant
  OBVIOUS
<1>1. page = <<>> /\ parser = StartPage /\ Len(page) = 0 /\ DOMAIN page = {}
  BY DEF PageInit
<1>2. Typed
  <2>1. <<>> \in Seq(Contents) /\ <<>> \in Seq(Blocks)
    OBVIOUS
  <2>2. StartPage \in Parsers
    BY <2>1, MicronAssumption DEF StartPage, Parsers, Alignments
  <2>3. StartPage.rows = <<>>
    BY DEF StartPage
  <2> QED BY <1>1, <2>2, <2>3 DEF Typed
<1>3. Modes
  <2>1. PartialsBefore(Len(page) + 1) = {}
    BY <1>1 DEF PartialsBefore
  <2>2. \A form : ~Inside(form, Len(page) + 1)
    <3>1. \A form : {m \in 1..((Len(page) + 1) - 1) : page[m].is = form} = {}
      BY <1>1
    <3> QED BY <3>1, FS_EmptySet DEF Inside
  <2>3. Cardinality({}) = 0
    BY FS_EmptySet
  <2>4. ~StartPage.literal /\ ~StartPage.open /\ StartPage.partials = 0
    BY DEF StartPage
  <2>5. ~InLiteral(Len(page) + 1) /\ ~InTable(Len(page) + 1)
    BY <2>2 DEF InLiteral, InTable
  <2> DEFINE count == Cardinality(PartialsBefore(Len(page) + 1))
  <2>6. count = 0
    BY <2>1, <2>3
  <2>7. 0 = IF count < PartialLimit THEN count ELSE PartialLimit
    BY <2>6, MicronAssumption
  <2> HIDE DEF count
  <2> QED BY <1>1, <2>4, <2>5, <2>7 DEF Modes, count
<1>4. LifetimeHolds
  <2>1. {m \in DOMAIN page : page[m].is = "seconds"} = {}
    BY <1>1
  <2> QED BY <1>1, <2>1 DEF LifetimeHolds, StartPage
<1>5. Follows
  <2>1. \A token : Commands(token) = {}
    BY <1>1, CommandsAre
  <2>2. \A p : ~IsBold(p)
    <3>1. \A p : BoldSince(p) = {}
      BY <2>1 DEF BoldSince
    <3> QED BY <3>1, FS_EmptySet DEF IsBold
  <2>3. SectionAt(0) = 0 /\ AlignmentAt(0) = "left"
    <3>1. 1..0 = {}
      OBVIOUS
    <3> QED BY <3>1, TurnedAt DEF SectionOf, AlignmentOf
  <2> QED BY <1>1, <2>1, <2>2, <2>3, FS_EmptySet DEF Follows, StartPage
<1>6. LaidOut
  <2>1. parser.blocks = <<>> /\ parser.rows = <<>> /\ Range(<<>>) = {}
    BY <1>1 DEF StartPage, Range
  <2>2. Ordered(<<>>, <<>>)
    BY NoLines DEF Ordered
  <2> QED BY <1>1, <2>1, <2>2 DEF LaidOut
<1> QED
  BY <1>2, <1>3, <1>4, <1>5, <1>6 DEF ParserInvariant

\* A block of the result of reading a line is one from before, or that line's.
LEMMA PlacedIsTrue ==
    ASSUME Typed, Modes, Follows, LaidOut, NEW line \in Lines, page' = Append(page, line),
           NEW n, n = Len(page) + 1, NEW B,
           \A j \in 1..Len(TextOf(line)) : j \in B <=> IsBold(<<n, j>>)',
           NEW r \in Parsers, PlacedWell(parser, n, line, B, r),
           r.depth = SectionAt(n)', r.align = AlignmentAt(n)'
    PROVE  /\ \A b \in Range(r.blocks) : BlockTrue(b)'
           /\ \A c \in Range(r.rows) : ContentTrue(c)' /\ Home(c.line)' = "table"
<1>1. /\ page \in Seq(Lines) /\ IsFiniteSet(Commands("bold")) /\ n \in Nat
      /\ parser.blocks \in Seq(Blocks) /\ parser.rows \in Seq(Contents)
  BY Appended DEF Typed, Follows, Parsers
<1>2. Home(n)' = HomeHere(parser, line)
  BY <1>1, NewLine
<1>3. ASSUME NEW c, Styled(c, n, B, TextOf(line))
      PROVE  ContentTrue(c)' /\ c.line = n /\ Home(c.line)' = HomeHere(parser, line)
  <2>1. ContentTrue(c)' /\ c.line = n
    BY <1>1, <1>3, StyledIsTrue
  <2> QED BY <1>2, <2>1
<1>4. ASSUME NEW c \in Range(parser.rows) PROVE ContentTrue(c)' /\ Home(c.line)' = "table"
  <2>1. c \in Contents /\ ContentTrue(c) /\ Home(c.line) = "table"
    BY <1>1, RangeElement DEF LaidOut
  <2> QED BY <1>1, <2>1, ContentStays
<1>5. ASSUME NEW b \in Range(r.blocks) PROVE BlockTrue(b)'
  <2>1. CASE b \in Range(parser.blocks)
    <3>1. b \in Blocks /\ BlockTrue(b)
      BY <1>1, <2>1, RangeElement DEF LaidOut
    <3> QED BY <1>1, <3>1, BlockStays
  <2>2. CASE b = TableOf(parser) /\ parser.rows # <<>>
    <3>1. b.is = "table" /\ b.contents = parser.rows
      BY <2>2 DEF TableOf
    <3> QED BY <1>4, <2>2, <3>1 DEF BlockTrue
  <2>3. CASE NewOf(parser, n, line, B, r, b)
    <3>1. PICK c \in Contents :
            /\ b \in Blocks /\ b.contents = <<c>> /\ b.is = HomeHere(parser, line)
            /\ Styled(c, n, B, TextOf(line)) /\ b.depth = r.depth /\ b.align = r.align
      BY <2>3 DEF NewOf
    <3>2. ContentTrue(c)' /\ c.line = n /\ Home(c.line)' = b.is
      BY <1>3, <3>1
    <3>3. Range(b.contents) = {c} /\ b.contents[1] = c /\ b.contents # <<>>
      BY <3>1, OneRange, OneLine
    <3>4. b.depth = SectionAt(b.contents[1].line)' /\ b.align = AlignmentAt(b.contents[1].line)'
      BY <3>1, <3>2, <3>3
    <3> QED BY <3>2, <3>3, <3>4 DEF BlockTrue
  <2>4. CASE JoinOf(parser, n, line, b)
    <3> DEFINE c == Content(n, <<>>)
    <3>1. PICK old \in Range(parser.blocks) :
            old.is = "preformatted" /\ b = [old EXCEPT !.contents = Append(@, c)]
      BY <2>4 DEF JoinOf
    <3>2. HomeHere(parser, line) = "preformatted"
      BY <2>4 DEF JoinOf
    <3>3. old \in Blocks /\ BlockTrue(old)
      BY <1>1, RangeElement DEF LaidOut
    <3>4. b.is = "preformatted" /\ b.contents = Append(old.contents, c) /\ old.contents \in Seq(Contents)
      BY <3>1, <3>3 DEF Blocks
    <3>5. Range(b.contents) = Range(old.contents) \cup {c} /\ b.contents # <<>>
      BY <3>4, AppendedRange
    <3>6. Styled(c, n, B, TextOf(line))
      BY <1>1, EmptyContent, LineFacts
    <3> HIDE DEF c
    <3>7. ContentTrue(c)' /\ Home(c.line)' = "preformatted"
      BY <1>3, <3>2, <3>6
    <3>8. BlockTrue(old)'
      BY <1>1, <3>3, BlockStays
    <3> QED BY <3>1, <3>4, <3>5, <3>7, <3>8 DEF BlockTrue
  <2> QED BY <2>1, <2>2, <2>3, <2>4 DEF PlacedWell
<1>6. ASSUME NEW c \in Range(r.rows) PROVE ContentTrue(c)' /\ Home(c.line)' = "table"
  <2>1. c \in Range(parser.rows) \/ (HomeHere(parser, line) = "table" /\ Styled(c, n, B, TextOf(line)))
    BY DEF PlacedWell
  <2> QED BY <1>3, <1>4, <2>1
<1> QED
  BY <1>5, <1>6

LEMMA ParserGoesOn ==
    ASSUME ParserInvariant, NEW line \in Lines, Read(line)
    PROVE  ParserInvariant'
<1> DEFINE s == parser
           r == parser'
           n == Len(page) + 1
<1>1. /\ Typed /\ Modes /\ LifetimeHolds /\ Follows /\ LaidOut
      /\ page \in Seq(Lines) /\ s \in Parsers /\ (~s.open => s.rows = <<>>)
      /\ IsFiniteSet(Commands("bold"))
  BY DEF ParserInvariant, Typed, Follows
<1>2. page' = Append(page, line) /\ r = ReadLine(s, Len(page'), line)
  BY DEF Read
<1>3. /\ Len(page') = n /\ n \in Nat /\ page' \in Seq(Lines) /\ Len(page) \in Nat
      /\ 1..n = (1..Len(page)) \cup {n}
  BY <1>1, <1>2, Appended
<1>4. PICK k : k = n
  OBVIOUS
<1>5. /\ IsFiniteSet(Commands("bold")')
      /\ \E B : /\ 1 \in B <=> IsBold(<<k, 1>>)
                /\ ParsedHere(parser, line) => Styles(TextOf(line), B)
                /\ \A j \in 1..Len(TextOf(line)) : j \in B <=> IsBold(<<k, j>>)'
                /\ IsBold(<<k + 1, 1>>)' <=> IF ParsedHere(parser, line) THEN Len(TextOf(line)) + 1 \in B
                                             ELSE IsBold(<<k, 1>>)
  BY <1>1, <1>2, <1>4, BoldStep
<1>6. PICK B : /\ 1 \in B <=> IsBold(<<k, 1>>)
               /\ ParsedHere(parser, line) => Styles(TextOf(line), B)
               /\ \A j \in 1..Len(TextOf(line)) : j \in B <=> IsBold(<<k, j>>)'
               /\ IsBold(<<k + 1, 1>>)' <=> IF ParsedHere(parser, line) THEN Len(TextOf(line)) + 1 \in B
                                            ELSE IsBold(<<k, 1>>)
  BY <1>5
<1>7. s.bold <=> IsBold(<<k, 1>>)
  BY <1>1, <1>4 DEF Follows
<1>8. FieldsRead(s, line, B, r) /\ LinePlaced(s, n, line, B, r)
  <2>1. s.bold <=> 1 \in B
    BY <1>6, <1>7
  <2> QED BY <1>1, <1>2, <1>3, <1>6, <2>1, LineRead
<1>9. r \in Parsers
  BY <1>8 DEF FieldsRead
<1> HIDE DEF n
<1>10. Typed'
  <2>1. ~r.open => r.rows = <<>>
    <3>1. HomeHere(s, line) = "table" => s.open /\ line.is # "table"
      BY DEF HomeHere, MarkupHere
    <3>2. r.open <=> IF line.is = "table" THEN ~s.open ELSE s.open
      BY <1>8 DEF FieldsRead
    <3>3. ASSUME ~r.open PROVE r.rows = <<>>
      <4>1. line.is = "table" \/ (HomeHere(s, line) # "table" /\ ~s.open)
        BY <3>1, <3>2, <3>3
      <4> QED BY <1>1, <1>8, <4>1 DEF LinePlaced
    <3> QED BY <3>3
  <2> QED BY <1>3, <1>9, <2>1 DEF Typed
<1>11. Modes'
  BY <1>1, <1>2, <1>8, ModesStep DEF FieldsRead
<1>12. LifetimeHolds'
  BY <1>1, <1>2, <1>8, LifetimeStep DEF FieldsRead
<1>13. r.depth = SectionAt(k)' /\ r.align = AlignmentAt(k)'
  <2>1. PICK l : l = Len(page)
    OBVIOUS
  <2>2. s.depth = SectionAt(l) /\ s.align = AlignmentAt(l)
    BY <1>1, <2>1 DEF Follows
  <2>3. /\ SectionAt(k)' =
                IF TextHere(parser, line) /\ line.is = "heading" THEN line.depth
                ELSE IF TextHere(parser, line) /\ line.is \in {"plain", "ruled"} /\ line.reset THEN 0
                ELSE SectionAt(l)
        /\ AlignmentAt(k)' =
                IF TextHere(parser, line) /\ line.is \in {"plain", "ruled"} /\ line.align # "inherit"
                THEN line.align ELSE AlignmentAt(l)
    BY <1>1, <1>2, <1>4, <2>1, SectionStep DEF n
  <2> QED BY <1>8, <2>2, <2>3 DEF FieldsRead
<1>14. Follows'
  <2>1. r.bold <=> IsBold(<<k + 1, 1>>)'
    BY <1>6, <1>7, <1>8 DEF FieldsRead
  <2>2. ASSUME NEW m, m = Len(page') + 1 PROVE r.bold <=> IsBold(<<m, 1>>)'
    <3>1. m = k + 1
      BY <1>3, <1>4, <2>2
    <3> QED BY <2>1, <3>1
  <2>3. ASSUME NEW m, m = Len(page') PROVE r.depth = SectionAt(m)' /\ r.align = AlignmentAt(m)'
    <3>1. m = k
      BY <1>3, <1>4, <2>3
    <3> QED BY <1>13, <3>1
  <2> QED BY <1>5, <2>2, <2>3 DEF Follows
<1>15. LaidOut'
  <2>1. Below(s.blocks, s.rows, n)
    <3>1. s.blocks \in Seq(Blocks) /\ s.rows \in Seq(Contents)
      BY <1>1 DEF Parsers
    <3>2. ASSUME NEW i \in 1..Len(s.blocks), NEW x \in 1..Len(s.blocks[i].contents)
          PROVE  s.blocks[i].contents[x].line < n
      <4>1. s.blocks[i] \in Range(s.blocks) /\ s.blocks[i] \in Blocks
        BY <3>1, RangeElement
      <4>2. s.blocks[i].contents \in Seq(Contents)
        BY <4>1 DEF Blocks
      <4>3. s.blocks[i].contents[x] \in Range(s.blocks[i].contents)
        BY <4>2, RangeElement
      <4>4. s.blocks[i].contents[x].line \in 1..Len(page)
        BY <1>1, <4>1, <4>3 DEF LaidOut, BlockTrue, ContentTrue
      <4> QED BY <1>3, <4>4 DEF n
    <3>3. ASSUME NEW y \in 1..Len(s.rows) PROVE s.rows[y].line < n
      <4>1. s.rows[y] \in Range(s.rows)
        BY <3>1, RangeElement
      <4>2. s.rows[y].line \in 1..Len(page)
        BY <1>1, <4>1 DEF LaidOut, ContentTrue
      <4> QED BY <1>3, <4>2 DEF n
    <3> QED BY <3>2, <3>3 DEF Below
  <2>2. PlacedWell(s, k, line, B, r)
    <3>1. Ordered(s.blocks, s.rows)
      BY <1>1 DEF LaidOut
    <3> QED BY <1>1, <1>3, <1>4, <1>8, <1>9, <2>1, <3>1, Placed
  <2>3. /\ \A b \in Range(r.blocks) : BlockTrue(b)'
        /\ \A c \in Range(r.rows) : ContentTrue(c)' /\ Home(c.line)' = "table"
    BY <1>1, <1>2, <1>4, <1>6, <1>9, <1>13, <2>2, PlacedIsTrue DEF n
  <2>4. ASSUME NEW m \in 1..Len(page'), Home(m)' # "none" PROVE Shown(r.blocks, r.rows, m)
    <3>1. CASE m \in 1..Len(page)
      <4>1. Home(m)' = Home(m)
        BY <1>1, <1>2, <3>1, KindsStay
      <4>2. Shown(s.blocks, s.rows, m)
        BY <1>1, <2>4, <3>1, <4>1 DEF LaidOut
      <4> QED BY <2>2, <4>2 DEF PlacedWell
    <3>2. CASE m = k
      <4>1. Home(m)' = HomeHere(s, line)
        BY <1>1, <1>2, <1>4, <3>2, NewLine DEF n
      <4> QED BY <2>2, <2>4, <3>2, <4>1 DEF PlacedWell
    <3> QED BY <1>3, <1>4, <3>1, <3>2
  <2>5. Ordered(r.blocks, r.rows)
    BY <2>2 DEF PlacedWell
  <2> QED BY <2>3, <2>4, <2>5 DEF LaidOut
<1> QED
  BY <1>10, <1>11, <1>12, <1>14, <1>15 DEF ParserInvariant

-----------------------------------------------------------------------------
(* The page                                                                *)

LEMMA PlacesAre ==
    ASSUME NEW blocks, NEW n, NEW p
    PROVE  p \in Places(blocks, n) <=>
                \E i \in DOMAIN blocks : \E x \in DOMAIN blocks[i].contents :
                    p = <<i, x>> /\ blocks[i].contents[x].line = n
<1> DEFINE All == UNION {{i} \X DOMAIN blocks[i].contents : i \in DOMAIN blocks}
<1>1. p \in All <=> \E i \in DOMAIN blocks : \E x \in DOMAIN blocks[i].contents : p = <<i, x>>
  OBVIOUS
<1>2. p \in Places(blocks, n) <=> p \in All /\ blocks[p[1]].contents[p[2]].line = n
  BY DEF Places
<1> HIDE DEF All
<1>3. ASSUME NEW i, NEW x, p = <<i, x>> PROVE p[1] = i /\ p[2] = x
  BY <1>3
<1> QED
  BY <1>1, <1>2, <1>3

LineAt(blocks, i, x, n) ==
    i \in 1..Len(blocks) /\ x \in 1..Len(blocks[i].contents) /\ blocks[i].contents[x].line = n

\* Where the lines m and n of two places stand to each other.
InOrder(blocks, i, x, m, j, y, n) ==
    /\ i < j => m < n \/ (blocks[i].is = "partial" /\ blocks[j].is = "table")
    /\ (i = j /\ x < y) => m < n

LEMMA PlacesInOrder ==
    ASSUME NEW blocks, Ordered(blocks, <<>>), NEW m, NEW n, NEW i, NEW x, NEW j, NEW y,
           LineAt(blocks, i, x, m), LineAt(blocks, j, y, n)
    PROVE  InOrder(blocks, i, x, m, j, y, n)
<1>0. /\ i \in 1..Len(blocks) /\ x \in 1..Len(blocks[i].contents) /\ blocks[i].contents[x].line = m
      /\ j \in 1..Len(blocks) /\ y \in 1..Len(blocks[j].contents) /\ blocks[j].contents[y].line = n
  BY DEF LineAt
<1>1. ASSUME i < j PROVE m < n \/ (blocks[i].is = "partial" /\ blocks[j].is = "table")
  <2>1. (blocks[i].is = "partial" /\ blocks[j].is = "table") \/ AllBefore(blocks[i].contents, blocks[j].contents)
    BY <1>0, <1>1 DEF Ordered
  <2> QED BY <1>0, <2>1 DEF AllBefore
<1>2. ASSUME i = j, x < y PROVE m < n
  <2>1. Increasing(blocks[i].contents)
    BY <1>0 DEF Ordered
  <2> QED BY <1>0, <1>2, <2>1 DEF Increasing
<1> QED
  BY <1>1, <1>2 DEF InOrder

LEMMA ResultFacts ==
    ASSUME ParserInvariant
    PROVE  /\ ParsedBlocks \in Seq(Blocks)
           /\ \A b \in Range(ParsedBlocks) : BlockTrue(b)
           /\ Ordered(ParsedBlocks, <<>>)
           /\ \A n \in DOMAIN page : Home(n) # "none" => Shown(ParsedBlocks, <<>>, n)
           /\ DOMAIN page = 1..Len(page) /\ Len(page) \in Nat
<1>1. /\ page \in Seq(Lines) /\ parser \in Parsers /\ (~parser.open => parser.rows = <<>>)
      /\ LaidOut
  BY DEF ParserInvariant, Typed
<1>2. DOMAIN page = 1..Len(page) /\ Len(page) \in Nat
  BY <1>1
<1>3. ParsedBlocks = Closed(parser) /\ ParsedBlocks \in Seq(Blocks)
  BY <1>1, CloseFacts DEF ParsedBlocks, Parsers
<1>4. ASSUME NEW b \in Range(ParsedBlocks) PROVE BlockTrue(b)
  <2>1. b \in Range(parser.blocks) \/ (b = TableOf(parser) /\ parser.rows # <<>>)
    BY <1>1, <1>3, ClosedRange
  <2>2. CASE b \in Range(parser.blocks)
    BY <1>1, <2>2 DEF LaidOut
  <2>3. CASE b = TableOf(parser) /\ parser.rows # <<>>
    <3>1. b.is = "table" /\ b.contents = parser.rows
      BY <2>3 DEF TableOf
    <3> QED BY <1>1, <2>3, <3>1 DEF LaidOut, BlockTrue
  <2> QED BY <2>1, <2>2, <2>3
<1>5. Ordered(ParsedBlocks, <<>>)
  BY <1>1, <1>3, ClosedIsOrdered DEF LaidOut
<1>6. \A n \in DOMAIN page : Home(n) # "none" => Shown(ParsedBlocks, <<>>, n)
  BY <1>1, <1>2, <1>3, ClosedRange DEF LaidOut
<1> QED
  BY <1>2, <1>3, <1>4, <1>5, <1>6

LEMMA WholePages ==
    ASSUME ParserInvariant
    PROVE  PagesAreWhole
<1> DEFINE blocks == ParsedBlocks
<1>1. /\ blocks \in Seq(Blocks) /\ DOMAIN blocks = 1..Len(blocks)
      /\ \A b \in Range(blocks) : BlockTrue(b)
      /\ Ordered(blocks, <<>>)
      /\ \A n \in DOMAIN page : Home(n) # "none" => Shown(blocks, <<>>, n)
      /\ DOMAIN page = 1..Len(page) /\ Len(page) \in Nat
  BY ResultFacts
<1> HIDE DEF blocks
<1>2. ASSUME NEW i \in 1..Len(blocks)
      PROVE  /\ blocks[i] \in Blocks /\ BlockTrue(blocks[i]) /\ blocks[i].contents \in Seq(Contents)
             /\ DOMAIN blocks[i].contents = 1..Len(blocks[i].contents)
             /\ \A x \in 1..Len(blocks[i].contents) :
                    /\ blocks[i].contents[x] \in Contents /\ ContentTrue(blocks[i].contents[x])
                    /\ Home(blocks[i].contents[x].line) = blocks[i].is
  <2>1. blocks[i] \in Range(blocks) /\ blocks[i] \in Blocks /\ BlockTrue(blocks[i])
    BY <1>1, RangeElement
  <2>2. blocks[i].contents \in Seq(Contents)
    BY <2>1 DEF Blocks
  <2>3. \A x \in 1..Len(blocks[i].contents) :
            blocks[i].contents[x] \in Range(blocks[i].contents) /\ blocks[i].contents[x] \in Contents
    BY <2>2, RangeElement
  <2> QED BY <2>1, <2>2, <2>3 DEF BlockTrue
<1>3. ASSUME NEW n, NEW p
      PROVE  p \in Places(blocks, n) <=>
                \E i \in 1..Len(blocks) : \E x \in 1..Len(blocks[i].contents) :
                    p = <<i, x>> /\ blocks[i].contents[x].line = n
  BY <1>1, <1>2, PlacesAre
<1>4. LinesAreShownOnce(blocks)
  <2> SUFFICES ASSUME NEW n \in DOMAIN page
               PROVE  IF Home(n) = "none" THEN Places(blocks, n) = {}
                      ELSE /\ Cardinality(Places(blocks, n)) = 1
                           /\ \A p \in Places(blocks, n) : blocks[p[1]].is = Home(n)
    BY DEF LinesAreShownOnce
  <2>0. n \in Nat
    BY <1>1
  <2>1. ASSUME NEW p \in Places(blocks, n)
        PROVE  blocks[p[1]].is = Home(n) /\ Home(n) # "none"
    <3>1. PICK i \in 1..Len(blocks) : \E x \in 1..Len(blocks[i].contents) :
                p = <<i, x>> /\ blocks[i].contents[x].line = n
      BY <1>3
    <3>2. p[1] = i /\ blocks[i].is = Home(n) /\ blocks[i].is \in BlockKinds
      BY <1>2, <3>1 DEF Blocks
    <3> QED BY <3>2 DEF BlockKinds
  <2>2. CASE Home(n) = "none"
    BY <2>1, <2>2
  <2>3. CASE Home(n) # "none"
    <3>1. Shown(blocks, <<>>, n)
      BY <1>1, <2>3
    <3>2. PICK b \in Range(blocks) : \E c \in Range(b.contents) : c.line = n
      <4>1. Range(<<>>) = {}
        BY DEF Range
      <4> QED BY <3>1, <4>1 DEF Shown
    <3>3. PICK i \in 1..Len(blocks) : b = blocks[i]
      BY <1>1, RangeElement
    <3>4. PICK x \in 1..Len(blocks[i].contents) : blocks[i].contents[x].line = n
      BY <1>2, <3>2, <3>3, RangeElement
    <3>5. <<i, x>> \in Places(blocks, n)
      BY <1>3, <3>4
    <3>6. ASSUME NEW q \in Places(blocks, n) PROVE q = <<i, x>>
      <4>0. PICK j \in 1..Len(blocks) : \E y \in 1..Len(blocks[j].contents) :
                q = <<j, y>> /\ blocks[j].contents[y].line = n
        BY <1>3
      <4>1. PICK y \in 1..Len(blocks[j].contents) : q = <<j, y>> /\ blocks[j].contents[y].line = n
        BY <4>0
      <4>2. blocks[i].is = blocks[j].is
        BY <1>2, <3>4, <4>1
      <4>6. LineAt(blocks, i, x, n) /\ LineAt(blocks, j, y, n)
        BY <3>4, <4>1 DEF LineAt
      <4>7. InOrder(blocks, i, x, n, j, y, n) /\ InOrder(blocks, j, y, n, i, x, n)
        BY <1>1, <4>6, PlacesInOrder
      <4>3. ~(i < j) /\ ~(i = j /\ x < y)
        BY <2>0, <4>2, <4>7 DEF InOrder
      <4>4. ~(j < i) /\ ~(j = i /\ y < x)
        BY <2>0, <4>2, <4>7 DEF InOrder
      <4>5. i \in Nat /\ j \in Nat /\ x \in Nat /\ y \in Nat
        OBVIOUS
      <4> QED BY <4>1, <4>3, <4>4, <4>5
    <3>7. Places(blocks, n) = {<<i, x>>}
      BY <3>5, <3>6
    <3>8. Cardinality(Places(blocks, n)) = 1
      BY <3>7, FS_Singleton
    <3> QED BY <2>1, <2>3, <3>8
  <2> QED BY <2>2, <2>3
<1>5. LinesStayInOrder(blocks)
  <2> SUFFICES ASSUME NEW n \in DOMAIN page, NEW m \in 1..(n - 1),
                      NEW p \in Places(blocks, m), NEW q \in Places(blocks, n)
               PROVE  \/ p[1] < q[1]
                      \/ p[1] = q[1] /\ p[2] < q[2]
                      \/ blocks[p[1]].is = "table" /\ blocks[q[1]].is = "partial"
    BY DEF LinesStayInOrder
  <2>0. n \in Nat /\ m \in Nat /\ m < n
    BY <1>1
  <2>a. PICK i \in 1..Len(blocks) : \E x \in 1..Len(blocks[i].contents) :
            p = <<i, x>> /\ blocks[i].contents[x].line = m
    BY <1>3
  <2>b. PICK j \in 1..Len(blocks) : \E y \in 1..Len(blocks[j].contents) :
            q = <<j, y>> /\ blocks[j].contents[y].line = n
    BY <1>3
  <2>1. PICK x \in 1..Len(blocks[i].contents) : p = <<i, x>> /\ blocks[i].contents[x].line = m
    BY <2>a
  <2>2. PICK y \in 1..Len(blocks[j].contents) : q = <<j, y>> /\ blocks[j].contents[y].line = n
    BY <2>b
  <2>3. p[1] = i /\ p[2] = x /\ q[1] = j /\ q[2] = y
    BY <2>1, <2>2
  <2>4. /\ j < i => n < m \/ (blocks[j].is = "partial" /\ blocks[i].is = "table")
        /\ (j = i /\ y < x) => n < m
    <3>1. LineAt(blocks, i, x, m) /\ LineAt(blocks, j, y, n)
      BY <2>1, <2>2 DEF LineAt
    <3>2. InOrder(blocks, j, y, n, i, x, m)
      BY <1>1, <3>1, PlacesInOrder
    <3> QED BY <3>2 DEF InOrder
  <2>5. ~(i = j /\ x = y)
    BY <2>0, <2>1, <2>2
  <2>6. i \in Nat /\ j \in Nat /\ x \in Nat /\ y \in Nat
    OBVIOUS
  <2> QED BY <2>0, <2>3, <2>4, <2>5, <2>6
<1>6. SectionsHold(blocks) /\ AlignmentsHold(blocks)
  BY <1>1, <1>2 DEF SectionsHold, AlignmentsHold, BlockTrue
<1>7. StylesCarryOver(blocks)
  <2> SUFFICES ASSUME NEW i \in DOMAIN blocks, NEW x \in DOMAIN blocks[i].contents,
                      NEW part \in Range(blocks[i].contents[x].parts)
               PROVE  part.bold <=>
                        Cardinality(BoldSince(<<blocks[i].contents[x].line, part.at>>)) % 2 = 1
    BY Zenon DEF StylesCarryOver
  <2> DEFINE c == blocks[i].contents[x]
  <2>1. c \in Contents /\ ContentTrue(c)
    BY <1>1, <1>2
  <2>2. c.parts \in Seq(TextParts)
    BY <2>1 DEF Contents
  <2>3. PICK k \in 1..Len(c.parts) : part = c.parts[k]
    BY <2>2, RangeElement
  <2> HIDE DEF c
  <2>4. part.bold <=> IsBold(<<c.line, part.at>>)
    BY <2>1, <2>3 DEF ContentTrue
  <2> QED BY <2>4 DEF IsBold, c
<1>8. LifetimeHolds
  BY DEF ParserInvariant
<1> QED
  BY <1>4, <1>5, <1>6, <1>7, <1>8 DEF PagesAreWhole, blocks

LEMMA PagesStutter ==
    ASSUME ParserInvariant, page' = page, parser' = parser
    PROVE  ParserInvariant'
<1>1. \A form, n : Inside(form, n)' <=> Inside(form, n)
  BY DEF Inside
<1>2. \A n : (IsPartial(n)' <=> IsPartial(n)) /\ (InTable(n)' <=> InTable(n)) /\ (InLiteral(n)' <=> InLiteral(n))
  BY <1>1 DEF IsPartial, InTable, InLiteral
<1>3. \A n : IsMarkup(n)' <=> IsMarkup(n)
  BY <1>2 DEF IsMarkup
<1>4. \A n : (IsText(n)' <=> IsText(n)) /\ PartialsBefore(n)' = PartialsBefore(n)
  BY <1>2, <1>3 DEF IsText, PartialsBefore
<1>5. \A n : IsParsed(n)' <=> IsParsed(n)
  BY <1>2, <1>3, <1>4 DEF IsParsed
<1>6. ASSUME NEW n PROVE Home(n)' = Home(n)
  <2>1. HomeAs(n) /\ HomeAs(n)'
    BY HomeCases, HomeCasesNext
  <2>2. IsPartial(n) \/ (IsMarkup(n) /\ ~IsPartial(n)) \/ (~IsMarkup(n) /\ InTable(n))
            \/ (~IsMarkup(n) /\ ~InTable(n) /\ InLiteral(n)) \/ IsText(n)
    BY DEF IsText
  <2> QED BY <1>2, <1>3, <1>4, <2>1, <2>2 DEF HomeAs
<1>7. \A token : Commands(token)' = Commands(token)
  BY <1>5 DEF Commands
<1>8. \A p : IsBold(p)' <=> IsBold(p)
  <2>1. \A p : BoldSince(p)' = BoldSince(p)
    BY <1>7 DEF BoldSince
  <2> QED BY <2>1 DEF IsBold
<1>9. \A n : SectionAt(n)' = SectionAt(n) /\ AlignmentAt(n)' = AlignmentAt(n)
  <2>1. \A m : (TurnsSection(m)' <=> TurnsSection(m)) /\ (TurnsAlignment(m)' <=> TurnsAlignment(m))
    BY <1>4 DEF TurnsSection, TurnsAlignment
  <2> QED BY <2>1, TurnedAt
<1>10. \A b : BlockTrue(b)' <=> BlockTrue(b)
  BY <1>6, <1>8, <1>9 DEF BlockTrue, ContentTrue
<1>11. \A c : (ContentTrue(c)' <=> ContentTrue(c)) /\ Home(c.line)' = Home(c.line)
  BY <1>6, <1>8 DEF ContentTrue
<1>12. Typed' /\ LifetimeHolds'
  BY DEF ParserInvariant, Typed, LifetimeHolds
<1>13. Modes'
  BY <1>2, <1>4 DEF ParserInvariant, Modes
<1>14. Follows'
  BY <1>7, <1>8, <1>9 DEF ParserInvariant, Follows
<1>15. LaidOut'
  BY <1>6, <1>10, <1>11 DEF ParserInvariant, LaidOut
<1> QED
  BY <1>12, <1>13, <1>14, <1>15 DEF ParserInvariant

\* What parse_page makes of a page loses no line, shows none twice, keeps their
\* order and gives each its section, alignment and style, and the page its
\* lifetime: of every page, however long, of any lines the parser tells apart
\* (browser.rs:235).
THEOREM AllPagesAreWhole == PageSpec => []PagesAreWhole
<1>1. ParserInvariant /\ [PageNext]_pageVars => ParserInvariant'
  <2> SUFFICES ASSUME ParserInvariant, [PageNext]_pageVars PROVE ParserInvariant'
    OBVIOUS
  <2>1. CASE PageNext
    BY <2>1, ParserGoesOn DEF PageNext
  <2>2. CASE UNCHANGED pageVars
    BY <2>2, PagesStutter DEF pageVars
  <2> QED BY <2>1, <2>2
<1>2. PageSpec => []ParserInvariant
  BY <1>1, ParserStarts, PTL DEF PageSpec
<1> QED
  BY <1>2, WholePages, PTL
=============================================================================
