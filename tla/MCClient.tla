------------------------------- MODULE MCClient -------------------------------
(* A small instance of Client for TLC.                                     *)
EXTENDS Client

CONSTANTS p1, p2

Symmetry == Permutations({p1, p2})

Heading(depth, text) == [is |-> "heading", depth |-> depth, text |-> text]
Plain(reset, align, text) == [is |-> "plain", reset |-> reset, align |-> align, text |-> text]

\* The lines of the pages: every form, with and without text and style.
MCLines ==
    {[is |-> "seconds", value |-> 7], [is |-> "seconds", value |-> 0],
     [is |-> "literal"], [is |-> "partial"], [is |-> "comment"], [is |-> "dashes"],
     [is |-> "table", align |-> "inherit"], [is |-> "table", align |-> "right"],
     [is |-> "ruled", reset |-> FALSE, align |-> "inherit", text |-> <<"text">>],
     Heading(1, <<"text">>), Heading(2, <<>>), Heading(3, <<"bold", "text">>),
     Plain(TRUE, "inherit", <<"bold", "text", "reset", "link">>),
     Plain(FALSE, "center", <<"text", "bold", "text">>),
     Plain(FALSE, "inherit", <<>>)}
=============================================================================
