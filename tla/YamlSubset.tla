----------------------------- MODULE YamlSubset -----------------------------
(***************************************************************************)
(* parsePolicyYaml: which line of a text becomes an entry of which other.  *)
(* A line is what is left of it without its comment.  The parser's         *)
(* recursion is the stack; a document is given by the owner of every line, *)
(* the line whose value it is an entry of (0 for the document itself), and *)
(* by the kind of its scalar.                                              *)
(***************************************************************************)
EXTENDS Integers, SequencesExt

CONSTANTS
    None,
    Scalars,   \* raw scalars
    Texts      \* the texts under study

(* Fault: anchors are looked for before quotes. *)
ParseScalarStarFirst(raw) ==
    IF raw \in {"quotedStar", "starred", "block"} THEN "refused"
    ELSE CASE raw = "number" -> "number" [] raw = "flow" -> "list" [] OTHER -> "text"

(* Fault: quotes stay on. *)
ParseScalarRaw(raw) ==
    CASE raw \in {"quoted", "quotedStar"} -> raw
      [] raw \in {"starred", "block"} -> "refused"
      [] raw = "number" -> "number"
      [] raw = "flow" -> "list"
      [] OTHER -> "text"

(* What a raw scalar is read as, "refused" if the parser throws.  A quoted  *)
(* one may contain what an unquoted one may not.                            *)
ParseScalar(raw) ==
    CASE raw \in {"quoted", "quotedStar"} -> "text"
      [] raw \in {"starred", "block"} -> "refused"
      [] raw = "number" -> "number"
      [] raw = "flow" -> "list"
      [] OTHER -> "text"

(* "- key: scalar" with any of the three left out; all of them in a blank   *)
(* line.                                                                    *)
Line == [indent : Nat, tab : BOOLEAN, dash : BOOLEAN, key : BOOLEAN, scalar : Scalars \cup {None}]

Blank(line) == ~line.dash /\ ~line.key /\ line.scalar = None

(* Its value is on the lines below. *)
IsOpen(line) == ~Blank(line) /\ line.scalar = None

ASSUME YamlAssumption ==
    /\ None \notin Scalars \cup Nat
    /\ Texts \subseteq Seq(Line)

VARIABLES
    lines,    \* the text
    i,        \* the line the parser is at
    stack,    \* calls of parseNode, innermost last
    owner,    \* of the lines read so far
    value,    \* of the scalars read so far
    outcome   \* "reading", "read" or "refused"

vars == <<lines, i, stack, owner, value, outcome>>

(* A call: the indent it was given, the line it reads the value of, and     *)
(* what it turned out to read.                                              *)
Frame(indent, of) == [indent |-> indent, of |-> of, shape |-> "node"]

Init ==
    /\ lines \in Texts
    /\ i = 1 /\ stack = <<Frame(0, 0)>>
    /\ owner = [l \in DOMAIN lines |-> None]
    /\ value = [l \in DOMAIN lines |-> None]
    /\ outcome = "reading"

Top == stack[Len(stack)]

(* nextNonEmptyLine *)
NextNonEmptyLine(start) ==
    LET full == {l \in DOMAIN lines : l >= start /\ ~Blank(lines[l])}
    IN  IF full = {} THEN Len(lines) + 1 ELSE CHOOSE l \in full : \A m \in full : l <= m

(* The line the loop of a call looks at. *)
At == NextNonEmptyLine(i)
AtEnd == At > Len(lines)

(* childIndent *)
ChildIndent(start, parentIndent) ==
    LET l == NextNonEmptyLine(start)
    IN  IF l \in DOMAIN lines THEN lines[l].indent ELSE parentIndent + 2

Shape(line) == IF line.dash THEN "list" ELSE "map"

-----------------------------------------------------------------------------
Reading == outcome = "reading"

Refuse ==
    /\ outcome' = "refused"
    /\ UNCHANGED <<lines, i, stack, owner, value>>

(* A call begins: a list, if the line has a dash, or a mapping. *)
Begin ==
    /\ Reading /\ Top.shape = "node" /\ ~AtEnd
    /\ ~lines[At].tab /\ lines[At].indent >= Top.indent
    /\ stack' = [stack EXCEPT ![Len(stack)].shape = Shape(lines[At])]
    /\ i' = At
    /\ UNCHANGED <<lines, owner, value, outcome>>

(* Fault: deeper lines are taken, too. *)
TakesDeeper ==
    /\ Reading /\ Top.shape # "node" /\ ~AtEnd
    /\ ~lines[At].tab /\ lines[At].indent >= Top.indent /\ Shape(lines[At]) = Top.shape

(* A line that the loop of the innermost call takes. *)
Takes ==
    /\ Reading /\ Top.shape # "node" /\ ~AtEnd
    /\ ~lines[At].tab /\ lines[At].indent = Top.indent /\ Shape(lines[At]) = Top.shape

(* A line further left ends a call, and one of the other shape. *)
Foreign(line) ==
    /\ ~line.tab
    /\ \/ line.indent < Top.indent
       \/ line.indent = Top.indent /\ Top.shape # "node" /\ Shape(line) # Top.shape

(* Fault: a blank line ends a call, too. *)
EndsAtBlank == AtEnd \/ (~AtEnd /\ (Foreign(lines[At]) \/ (At > i /\ Top.shape # "node")))

Ends == AtEnd \/ (~AtEnd /\ Foreign(lines[At]))

(* Fault: the line that ends a value is skipped. *)
ReturnPast ==
    /\ Reading /\ Ends
    /\ stack' = Front(stack)
    /\ outcome' = IF Len(stack) = 1 THEN "read" ELSE "reading"
    /\ i' = IF AtEnd THEN At ELSE At + 1
    /\ UNCHANGED <<lines, owner, value>>

(* The call returns.  Whatever is behind the outermost value is not looked  *)
(* at.                                                                      *)
Return ==
    /\ Reading /\ Ends
    /\ stack' = Front(stack)
    /\ outcome' = IF Len(stack) = 1 THEN "read" ELSE "reading"
    /\ i' = At
    /\ UNCHANGED <<lines, owner, value>>

(* Tabs, indents that nothing asked for, a mapping's line without a colon. *)
Malformed ==
    /\ Reading /\ ~AtEnd
    /\ \/ lines[At].tab
       \/ Top.shape # "node" /\ lines[At].indent > Top.indent
       \/ Takes /\ ~lines[At].dash /\ ~lines[At].key
    /\ Refuse

(* An item or a key with its scalar. *)
TakeScalar ==
    /\ Takes /\ (lines[At].dash \/ lines[At].key) /\ lines[At].scalar # None
    /\ LET read == ParseScalar(lines[At].scalar)
       IN  IF read = "refused" THEN Refuse
           ELSE /\ owner' = [owner EXCEPT ![At] = Top.of]
                /\ value' = [value EXCEPT ![At] = read]
                /\ i' = At + 1
                /\ UNCHANGED <<lines, stack, outcome>>

(* Fault: the call for the value starts at the same line. *)
TakeOpenStuck ==
    /\ Takes /\ IsOpen(lines[At])
    /\ LET next == NextNonEmptyLine(At + 1)
       IN  IF next \in DOMAIN lines /\ lines[next].tab THEN Refuse
           ELSE /\ owner' = [owner EXCEPT ![At] = Top.of]
                /\ UNCHANGED <<lines, i, stack, value, outcome>>

(* An item or a key with a value below: a call for the lines that follow,   *)
(* with the indent of the next one, wherever that is.                       *)
TakeOpen ==
    /\ Takes /\ IsOpen(lines[At])
    /\ LET next == NextNonEmptyLine(At + 1)
       IN  IF next \in DOMAIN lines /\ lines[next].tab THEN Refuse
           ELSE /\ owner' = [owner EXCEPT ![At] = Top.of]
                /\ stack' = Append(stack, Frame(ChildIndent(At + 1, Top.indent), At))
                /\ i' = At + 1
                /\ UNCHANGED <<lines, value, outcome>>

Next == Begin \/ Return \/ Malformed \/ TakeScalar \/ TakeOpen

Spec == Init /\ [][Next]_vars /\ WF_vars(Next)

-----------------------------------------------------------------------------
TypeOK ==
    /\ lines \in Texts
    /\ i \in 1 .. Len(lines) + 1
    /\ stack \in Seq([indent : Nat, of : 0 .. Len(lines), shape : {"node", "list", "map"}])
    /\ owner \in [DOMAIN lines -> 0 .. Len(lines) \cup {None}]
    /\ value \in [DOMAIN lines -> {"text", "number", "list", None}]
    /\ outcome \in {"reading", "read", "refused"}

(* Every line up to the current one has been read, each into a line above   *)
(* it that waits for a value, and the open calls are the owners of one      *)
(* another: the loops skip blank lines only.                                *)
Outline ==
    /\ \A l \in DOMAIN lines : owner[l] # None <=> l < i /\ ~Blank(lines[l])
    /\ \A l \in DOMAIN lines :
            owner[l] \notin {None, 0} => owner[l] < l /\ IsOpen(lines[owner[l]])
    /\ \A n \in 1 .. Len(stack) - 1 : owner[stack[n + 1].of] = stack[n].of

(* The only lines a finished parse leaves out stand behind a line at the    *)
(* left margin that is an item in a mapping or a key in a list; every       *)
(* other line is read or the text is refused.                               *)
Leftover ==
    outcome = "read" /\ i <= Len(lines) =>
        /\ lines[i].indent = 0 /\ owner[i] = None
        /\ Shape(lines[i]) # Shape(lines[NextNonEmptyLine(1)])

(* The line a reader takes for the owner of line l: the last one further    *)
(* left, or the key, at the same indent, of a list.                         *)
OwnerByIndent(l) ==
    LET Above(m) ==
            /\ m < l /\ ~Blank(lines[m])
            /\ \/ lines[m].indent < lines[l].indent
               \/ lines[m].indent = lines[l].indent /\ lines[l].dash /\ ~lines[m].dash
    IN  IF \E m \in DOMAIN lines : Above(m)
        THEN CHOOSE m \in DOMAIN lines : Above(m) /\ \A k \in DOMAIN lines : Above(k) => k <= m
        ELSE 0

(* Every key and item without a value on its line has one below it. *)
Filled ==
    \A l \in DOMAIN lines :
        IsOpen(lines[l]) =>
            LET next == NextNonEmptyLine(l + 1)
            IN  next > Len(lines) \/ OwnerByIndent(next) = l

(* A text that is read, and leaves no value empty, is read as it is         *)
(* indented, with the scalars it has.  Without Filled it need not be: a key *)
(* without a value takes the lines that follow at any indent.               *)
AsIndented ==
    outcome = "read" /\ Filled =>
        \A l \in DOMAIN lines :
            l < i /\ ~Blank(lines[l]) =>
                /\ owner[l] = OwnerByIndent(l)
                /\ value[l] = IF lines[l].scalar = None THEN None
                              ELSE IF lines[l].scalar = "number" THEN "number"
                              ELSE IF lines[l].scalar = "flow" THEN "list" ELSE "text"

(* A text that a reader of its indentation understands is not refused: no   *)
(* tabs, no anchors or blocks, every line owned by an open one of the shape *)
(* its siblings have.                                                       *)
Sound ==
    /\ Filled
    /\ \A l \in DOMAIN lines :
        ~Blank(lines[l]) =>
            /\ ~lines[l].tab /\ (lines[l].dash \/ lines[l].key)
            /\ lines[l].scalar \notin {"starred", "block"}
            /\ OwnerByIndent(l) # 0 => IsOpen(lines[OwnerByIndent(l)])
            /\ OwnerByIndent(l) = 0 => lines[l].indent = 0
            /\ \A m \in 1 .. l :
                    ~Blank(lines[m]) /\ OwnerByIndent(m) = OwnerByIndent(l) =>
                        lines[m].indent = lines[l].indent /\ lines[m].dash = lines[l].dash

Accepted == Sound => outcome # "refused"

(* Parsing ends. *)
ParseEnds == <>(outcome # "reading")
=============================================================================
