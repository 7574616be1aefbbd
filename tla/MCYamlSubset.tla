---------------------------- MODULE MCYamlSubset ----------------------------
(* Every text of a few lines: of two or three lines of every form, of more  *)
(* lines of fewer forms.                                                    *)
EXTENDS YamlSubset

L(indent, dash, key, scalar) ==
    [indent |-> indent, tab |-> FALSE, dash |-> dash, key |-> key, scalar |-> scalar]

AllScalars == {"word", "quotedStar", "starred"}
BlankLine == L(0, FALSE, FALSE, None)
TabLine == [L(1, FALSE, TRUE, "word") EXCEPT !.tab = TRUE]

Forms(indents, scalars) ==
    {L(n, dash, key, s) : n \in indents, dash \in BOOLEAN, key \in BOOLEAN,
                          s \in scalars \cup {None}}

(* All forms, up to three lines. *)
Wide == UNION {[1 .. n -> Forms(0 .. 2, AllScalars) \cup {TabLine}] : n \in 1 .. 2}
        \cup [1 .. 3 -> Forms(0 .. 2, {"word"}) \cup {TabLine}]

(* From the left margin on: keys and items with a key or a value below, four *)
(* lines; five lines, all of them with a key.                               *)
Margin(texts) == {t \in texts : t[1].indent = 0}
Keyed(indents, scalars) == {f \in Forms(indents, scalars) : f.key}
Deep == Margin([1 .. 4 -> Keyed(0 .. 2, {"word"}) \cup {L(n, TRUE, FALSE, None) : n \in 0 .. 2}])
Deeper == Margin([1 .. 5 -> {f \in Keyed(0 .. 2, {"word"}) :
                                f.indent < 2 \/ f.scalar # None} \ Keyed({0}, {"word"})])

AllTexts == Wide \cup Deep \cup Deeper
=============================================================================
