-------------------------------- MODULE Micron --------------------------------
(***************************************************************************)
(* parse_page of src/src/browser.rs: from the lines of a Micron page to    *)
(* the blocks the web client renders.  What a line is depends on the       *)
(* literal mode, on an open table and on the order in which the parser     *)
(* asks; section, alignment and style carry over from line to line.        *)
(*                                                                         *)
(* A line is a record of what the parser tells apart and is named by its   *)
(* number; of the inline markup, texts, the bold style, its reset and      *)
(* links are kept.  Colours, form fields and anchors are treated like one  *)
(* of these and are left out.                                              *)
(***************************************************************************)
EXTENDS Integers, Sequences, SequencesExt

CONSTANTS
    Lines,          \* the lines that pages are made of
    MaxLines,       \* bound: lines of a page
    PartialLimit,   \* partials of a page (64)
    DefaultSeconds, \* cache_seconds of a page that does not say (12 h)
    SecondsLimit    \* most seconds of a page (30 days)

Alignments == {"left", "center", "right"}
Tokens == {"text", "bold", "reset", "link"}

\* "dashes" are a separator inside a table and a divider outside, a "ruled"
\* line, "|--|", a separator inside and text outside; a "plain" line begins
\* with "<" if it resets the section, then with a command if it aligns.
LineForms ==
    [is : {"seconds"}, value : Nat]
        \cup [is : {"literal", "partial", "comment", "dashes"}]
        \cup [is : {"table"}, align : Alignments \cup {"inherit"}]
        \cup [is : {"heading"}, depth : 1..255, text : Seq(Tokens)]
        \cup [is : {"plain", "ruled"}, reset : BOOLEAN, align : Alignments \cup {"inherit"}, text : Seq(Tokens)]

VARIABLES
    page,   \* the lines read so far
    parser  \* the variables of parse_page, a record

pageVars == <<page, parser>>

ASSUME MicronAssumption ==
    /\ Lines \subseteq LineForms
    /\ MaxLines \in Nat /\ PartialLimit \in Nat /\ DefaultSeconds \in Nat /\ SecondsLimit \in Nat
-----------------------------------------------------------------------------
(* parse_inline                                                            *)

\* push_text: the text read so far becomes a part in the current style.
PushText(s) ==
    IF s.from = 0 THEN s
    ELSE [s EXCEPT !.parts = Append(@, [at |-> s.from, is |-> "text", bold |-> s.bold]), !.from = 0]

InlineToken(s, token) ==
    LET t == [s EXCEPT !.at = @ + 1]
        p == PushText(t) IN
    CASE token = "text"  -> [t EXCEPT !.from = IF @ = 0 THEN t.at ELSE @]
      [] token = "bold"  -> [p EXCEPT !.bold = ~@]
      [] token = "reset" -> [p EXCEPT !.bold = FALSE]
      [] token = "link"  -> [p EXCEPT !.parts = Append(@, [at |-> t.at, is |-> "link", bold |-> t.bold])]

\* The parts of a line and the style after it.
ParseInline(text, bold) ==
    PushText(FoldLeft(InlineToken, [parts |-> <<>>, from |-> 0, at |-> 0, bold |-> bold], text))

\* What a line without markup of its own has as text.
TextOf(line) == IF line.is \in {"heading", "plain", "ruled"} THEN line.text ELSE <<"text">>
-----------------------------------------------------------------------------
(* parse_page                                                              *)

StartPage ==
    [seconds |-> DefaultSeconds, literal |-> FALSE, open |-> FALSE, rows |-> <<>>, tableAlign |-> "left",
     align |-> "left", depth |-> 0, bold |-> FALSE, partials |-> 0, blocks |-> <<>>]

\* One line of a block: its number and its parts.
Content(n, parts) == [line |-> n, parts |-> parts]

Block(is, contents, s) == [is |-> is, contents |-> contents, depth |-> s.depth, align |-> s.align]

PushBlock(s, block) == [s EXCEPT !.blocks = Append(@, block)]

\* A table without rows leaves no block.
CloseTable(s) ==
    LET closed == [s EXCEPT !.open = FALSE, !.rows = <<>>] IN
    IF s.open /\ s.rows # <<>>
    THEN PushBlock(closed, [Block("table", s.rows, s) EXCEPT !.align = s.tableAlign])
    ELSE closed

ReadPartial(s, n) ==
    IF s.partials < PartialLimit
    THEN PushBlock([s EXCEPT !.partials = @ + 1], Block("partial", <<Content(n, <<>>)>>, s))
    ELSE s

ReadMarker(s, line) ==
    IF s.open THEN CloseTable(s)
    ELSE [s EXCEPT !.open = TRUE, !.tableAlign = IF line.align = "inherit" THEN s.align ELSE line.align]

ReadRow(s, n, line) ==
    IF line.is \in {"dashes", "ruled"} THEN s
    ELSE LET inline == ParseInline(TextOf(line), s.bold) IN
         [s EXCEPT !.rows = Append(@, Content(n, inline.parts)), !.bold = inline.bold]

\* Literal lines join the block before them if that is one.
ReadLiteral(s, n) ==
    IF s.blocks # <<>> /\ Last(s.blocks).is = "preformatted"
    THEN [s EXCEPT !.blocks[Len(s.blocks)].contents = Append(@, Content(n, <<>>))]
    ELSE PushBlock(s, Block("preformatted", <<Content(n, <<>>)>>, s))

\* A heading or a paragraph, unless nothing is left of the line.
ReadText(s, n, line) ==
    LET depth  == IF line.is = "heading" THEN line.depth ELSE IF line.reset THEN 0 ELSE s.depth
        align  == IF line.is = "heading" \/ line.align = "inherit" THEN s.align ELSE line.align
        inline == ParseInline(line.text, s.bold)
        after  == [s EXCEPT !.depth = depth, !.align = align] IN
    IF line.text = <<>> THEN after
    ELSE PushBlock([after EXCEPT !.bold = inline.bold],
                   Block(IF line.is = "heading" THEN "heading" ELSE "paragraph",
                         <<Content(n, inline.parts)>>, after))

Smaller(a, b) == IF a < b THEN a ELSE b

\* Mutant: literal mode is asked for before the open table.
ReadLiteralFirst(s, n, line) ==
    CASE line.is = "seconds" -> [s EXCEPT !.seconds = Smaller(line.value, SecondsLimit)]
      [] line.is = "literal" -> [s EXCEPT !.literal = ~@]
      [] line.is = "partial" /\ ~s.literal -> ReadPartial(s, n)
      [] line.is = "table" -> ReadMarker(s, line)
      [] line.is \notin {"seconds", "literal", "table"} /\ s.literal -> ReadLiteral(s, n)
      [] line.is \notin {"seconds", "literal", "table", "partial"} /\ ~s.literal /\ s.open -> ReadRow(s, n, line)
      [] line.is = "comment" /\ ~s.literal /\ ~s.open -> s
      [] line.is = "dashes" /\ ~s.literal /\ ~s.open -> PushBlock(s, Block("divider", <<Content(n, <<>>)>>, s))
      [] line.is \in {"heading", "plain", "ruled"} /\ ~s.literal /\ ~s.open -> ReadText(s, n, line)

ReadLine(s, n, line) ==
    LET partial == line.is = "partial" /\ ~s.literal
        markup  == line.is \in {"seconds", "literal", "table"} \/ partial IN
    CASE line.is = "seconds"              -> [s EXCEPT !.seconds = Smaller(line.value, SecondsLimit)]
      [] line.is = "literal"              -> [s EXCEPT !.literal = ~@]
      [] partial                          -> ReadPartial(s, n)
      [] line.is = "table"                -> ReadMarker(s, line)
      [] ~markup /\ s.open                -> ReadRow(s, n, line)
      [] ~markup /\ ~s.open /\ s.literal  -> ReadLiteral(s, n)
      [] ~markup /\ ~s.open /\ ~s.literal ->
            CASE line.is = "comment" -> s
              [] line.is = "dashes"  -> PushBlock(s, Block("divider", <<Content(n, <<>>)>>, s))
              [] OTHER               -> ReadText(s, n, line)

\* A table that is still open at the end is closed.
ParsedBlocks == CloseTable(parser).blocks
-----------------------------------------------------------------------------
PageInit ==
    /\ page = <<>>
    /\ parser = StartPage

\* One turn of the loop over the lines, for any next line.
Read(line) ==
    /\ Len(page) < MaxLines
    /\ page' = Append(page, line)
    /\ parser' = ReadLine(parser, Len(page'), line)

PageNext == \E line \in Lines : Read(line)

PageSpec == PageInit /\ [][PageNext]_pageVars
-----------------------------------------------------------------------------
(* Properties                                                              *)

\* Lines before n with an odd number of lines of a form leave its mode on.
Inside(form, n) == Cardinality({m \in 1..(n - 1) : page[m].is = form}) % 2 = 1
InLiteral(n) == Inside("literal", n)
InTable(n) == Inside("table", n)

IsPartial(n) == page[n].is = "partial" /\ ~InLiteral(n)
IsMarkup(n) == page[n].is \in {"seconds", "literal", "table"} \/ IsPartial(n)
IsText(n) == ~IsMarkup(n) /\ ~InTable(n) /\ ~InLiteral(n)

\* The block that a line must be found in, "none" for a line that is not shown.
Home(n) ==
    CASE IsPartial(n) ->
            IF Cardinality({m \in 1..(n - 1) : IsPartial(m)}) < PartialLimit THEN "partial" ELSE "none"
      [] IsMarkup(n) /\ ~IsPartial(n) -> "none"
      [] ~IsMarkup(n) /\ InTable(n) ->
            IF page[n].is \in {"dashes", "ruled"} THEN "none" ELSE "table"
      [] ~IsMarkup(n) /\ ~InTable(n) /\ InLiteral(n) -> "preformatted"
      [] IsText(n) ->
            CASE page[n].is = "comment" -> "none"
              [] page[n].is = "dashes"  -> "divider"
              [] page[n].is = "heading" -> IF page[n].text = <<>> THEN "none" ELSE "heading"
              [] OTHER                  -> IF page[n].text = <<>> THEN "none" ELSE "paragraph"

\* The places in the result where line n is shown.
Places(blocks, n) ==
    {p \in UNION {{i} \X DOMAIN blocks[i].contents : i \in DOMAIN blocks} :
        blocks[p[1]].contents[p[2]].line = n}

\* Every line is shown once, in a block of its kind, or not at all.
LinesAreShownOnce(blocks) ==
    \A n \in DOMAIN page :
        IF Home(n) = "none" THEN Places(blocks, n) = {}
        ELSE /\ Cardinality(Places(blocks, n)) = 1
             /\ \A p \in Places(blocks, n) : blocks[p[1]].is = Home(n)

\* Blocks follow each other like their lines; only a partial that is written
\* inside a table comes before it.
LinesStayInOrder(blocks) ==
    \A n \in DOMAIN page : \A m \in 1..(n - 1) :
        \A p \in Places(blocks, m), q \in Places(blocks, n) :
            \/ p[1] < q[1]
            \/ p[1] = q[1] /\ p[2] < q[2]
            \/ blocks[p[1]].is = "table" /\ blocks[q[1]].is = "partial"

\* The section of a line is that of the last heading or reset among the lines
\* that are text.
SectionAt(n) ==
    LET turns == {m \in 1..n : IsText(m) /\ (page[m].is = "heading" \/
                      (page[m].is \in {"plain", "ruled"} /\ page[m].reset))} IN
    IF turns = {} THEN 0
    ELSE IF page[Max(turns)].is = "heading" THEN page[Max(turns)].depth ELSE 0

SectionsHold(blocks) ==
    \A i \in DOMAIN blocks : blocks[i].is \in {"heading", "paragraph", "divider"} =>
        blocks[i].depth = SectionAt(blocks[i].contents[1].line)

\* The alignment of a line is the last that a line read as text asked for.
AlignmentAt(n) ==
    LET turns == {m \in 1..n : IsText(m) /\ page[m].is \in {"plain", "ruled"} /\ page[m].align # "inherit"} IN
    IF turns = {} THEN "left" ELSE page[Max(turns)].align

AlignmentsHold(blocks) ==
    \A i \in DOMAIN blocks : blocks[i].is \in {"heading", "paragraph"} =>
        blocks[i].align = AlignmentAt(blocks[i].contents[1].line)

\* The last line that sets it decides how long the page may be cached.
LifetimeHolds ==
    LET turns == {m \in DOMAIN page : page[m].is = "seconds"} IN
    parser.seconds = IF turns = {} THEN DefaultSeconds ELSE Smaller(page[Max(turns)].value, SecondsLimit)

\* The lines whose text is parsed: those read as text and the rows of tables.
IsParsed(n) == IsText(n) \/ (~IsMarkup(n) /\ InTable(n) /\ page[n].is # "ruled")

\* Where a style is set, by line and place.
Commands(token) ==
    {x \in UNION {{n} \X DOMAIN TextOf(page[n]) : n \in DOMAIN page} :
        IsParsed(x[1]) /\ TextOf(page[x[1]])[x[2]] = token}

Precedes(x, y) == x[1] < y[1] \/ (x[1] = y[1] /\ x[2] < y[2])

\* The commands for bold before a place, since the last reset before it.
BoldSince(place) ==
    {x \in Commands("bold") :
        /\ Precedes(x, place)
        /\ \A y \in Commands("reset") : Precedes(y, place) => Precedes(y, x)}

\* A part is bold if an odd number of commands for it came before since the
\* last reset, in this line or in any earlier one that was parsed.
StylesCarryOver(blocks) ==
    \A i \in DOMAIN blocks : \A c \in DOMAIN blocks[i].contents :
        \A part \in Range(blocks[i].contents[c].parts) :
            part.bold <=> Cardinality(BoldSince(<<blocks[i].contents[c].line, part.at>>)) % 2 = 1

\* What parse_page makes of a page, whatever modes are nested, left open or
\* closed in the wrong order: it loses no line, shows none twice, keeps their
\* order, and gives each its section, its alignment and its style; the page
\* is cached as long as its last line about that says (browser.rs:235).
PagesAreWhole ==
    LET blocks == ParsedBlocks IN
    /\ LinesAreShownOnce(blocks)
    /\ LinesStayInOrder(blocks)
    /\ SectionsHold(blocks)
    /\ AlignmentsHold(blocks)
    /\ LifetimeHolds
    /\ StylesCarryOver(blocks)
=============================================================================
