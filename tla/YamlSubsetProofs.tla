--------------------------- MODULE YamlSubsetProofs ---------------------------
(***************************************************************************)
(* What parsePolicyYaml does with the lines of a text, for any texts.      *)
(***************************************************************************)
EXTENDS YamlSubset, SequenceTheorems, WellFoundedInduction, TLAPS

Frames == [indent : Nat, of : 0 .. Len(lines), shape : {"node", "list", "map"}]

(* The open calls: the outermost has the left margin and has begun as soon  *)
(* as something has been read, the others are for open lines already read.  *)
Calls ==
    /\ outcome = "reading" => stack # <<>>
    /\ stack # <<>> =>
        /\ stack[1].of = 0 /\ stack[1].indent = 0
        /\ IF stack[1].shape = "node" THEN i = 1
           ELSE /\ NextNonEmptyLine(1) \in DOMAIN lines
                /\ stack[1].shape = Shape(lines[NextNonEmptyLine(1)])
    /\ \A n \in 2 .. Len(stack) : stack[n].of \in 1 .. i - 1 /\ IsOpen(lines[stack[n].of])

Parsing == TypeOK /\ Calls /\ Outline /\ Leftover

-----------------------------------------------------------------------------
(* A non-empty set of naturals has a smallest member. *)
LEMMA Smallest ==
    ASSUME NEW S \in SUBSET Nat, S # {}
    PROVE  \E x \in S : \A y \in S : x <= y
<1>1. PICK x \in S : \A y \in S : <<y, x>> \notin OpToRel(<, Nat)
  BY NatLessThanWellFounded, WFMin
<1>2. ASSUME NEW y \in S, y < x PROVE FALSE
  BY <1>1, <1>2 DEF OpToRel
<1>3. QED
  BY <1>2

(* nextNonEmptyLine skips blank lines only. *)
LEMMA NextLine ==
    ASSUME lines \in Seq(Line), NEW s \in 1 .. Len(lines) + 1
    PROVE  /\ NextNonEmptyLine(s) \in s .. Len(lines) + 1
           /\ \A l \in DOMAIN lines : l >= s /\ l < NextNonEmptyLine(s) => Blank(lines[l])
           /\ NextNonEmptyLine(s) <= Len(lines) =>
                /\ NextNonEmptyLine(s) \in DOMAIN lines
                /\ ~Blank(lines[NextNonEmptyLine(s)])
<1> DEFINE full == {l \in DOMAIN lines : l >= s /\ ~Blank(lines[l])}
<1>1. Len(lines) \in Nat /\ DOMAIN lines = 1 .. Len(lines)
  OBVIOUS
<1>2. CASE full = {}
  BY <1>1, <1>2 DEF NextNonEmptyLine
<1>3. CASE full # {}
  <2>1. \E l \in full : \A m \in full : l <= m
    <3>1. full \in SUBSET Nat
      BY <1>1
    <3> HIDE DEF full
    <3>2. QED
      BY <1>3, <3>1, Smallest
  <2>2. NextNonEmptyLine(s) \in full /\ \A m \in full : NextNonEmptyLine(s) <= m
    BY <1>3, <2>1 DEF NextNonEmptyLine
  <2>3. QED
    BY <1>1, <2>2
<1>4. QED
  BY <1>2, <1>3

LEMMA LinesTyped ==
    ASSUME TypeOK
    PROVE  /\ lines \in Seq(Line) /\ Len(lines) \in Nat /\ DOMAIN lines = 1 .. Len(lines)
           /\ \A l \in DOMAIN lines : lines[l] \in Line /\ Shape(lines[l]) \in {"list", "map"}
<1>1. lines \in Seq(Line)
  BY YamlAssumption DEF TypeOK
<1>2. QED
  BY <1>1 DEF Shape

(* The line the loop looks at is the next one that is not blank. *)
LEMMA AtTyped ==
    ASSUME TypeOK
    PROVE  /\ At \in i .. Len(lines) + 1
           /\ \A l \in DOMAIN lines : l >= i /\ l < At => Blank(lines[l])
           /\ ~AtEnd => At \in DOMAIN lines /\ ~Blank(lines[At])
  BY LinesTyped, NextLine DEF TypeOK, At, AtEnd

LEMMA TopTyped ==
    ASSUME TypeOK, stack # <<>>
    PROVE  /\ stack \in Seq(Frames) /\ Len(stack) \in Nat \ {0} /\ DOMAIN stack = 1 .. Len(stack)
           /\ Top \in Frames /\ Front(stack) \in Seq(Frames) /\ Len(Front(stack)) = Len(stack) - 1
           /\ \A n \in 1 .. Len(stack) - 1 : Front(stack)[n] = stack[n]
<1>1. stack \in Seq(Frames)
  BY DEF TypeOK, Frames
<1>2. Len(stack) \in Nat \ {0} /\ DOMAIN stack = 1 .. Len(stack) /\ Top \in Frames
  BY <1>1, EmptySeq DEF Top
<1>3. /\ Front(stack) \in Seq(Frames) /\ Len(Front(stack)) = Len(stack) - 1
      /\ \A n \in 1 .. Len(stack) - 1 : Front(stack)[n] = stack[n]
  <2>1. \A n \in 1 .. Len(stack) - 1 : stack[n] \in Frames
    BY <1>1, <1>2
  <2>2. QED
    BY <1>2, <2>1, SubSeqProperties DEF Front
<1>4. QED
  BY <1>1, <1>2, <1>3

-----------------------------------------------------------------------------
LEMMA ParsingInit == ASSUME Init PROVE Parsing
<1>1. lines \in Seq(Line) /\ Len(lines) \in Nat /\ DOMAIN lines = 1 .. Len(lines)
  BY YamlAssumption DEF Init
<1>2. stack = <<Frame(0, 0)>> /\ Frame(0, 0) \in Frames
  BY <1>1 DEF Init, Frame, Frames
<1>3. stack \in Seq(Frames) /\ Len(stack) = 1 /\ stack[1] = Frame(0, 0)
  BY <1>2
<1>4. TypeOK
  BY <1>1, <1>3 DEF Init, TypeOK, Frames
<1>5. Calls
  BY <1>3 DEF Init, Calls, Frame
<1>6. Outline
  BY <1>1, <1>3 DEF Init, Outline
<1>7. QED
  BY <1>4, <1>5, <1>6 DEF Parsing, Leftover, Init

LEMMA ParsingRefuse == ASSUME Parsing, Refuse, stack # <<>> PROVE Parsing'
  BY DEF Parsing, Refuse, TypeOK, Calls, Outline, Leftover, NextNonEmptyLine

LEMMA ParsingBegin == ASSUME Parsing, Begin PROVE Parsing'
<1>1. /\ TypeOK /\ Calls /\ Outline /\ stack # <<>> /\ ~AtEnd /\ Top.shape = "node"
      /\ stack' = [stack EXCEPT ![Len(stack)].shape = Shape(lines[At])]
      /\ i' = At /\ lines' = lines /\ owner' = owner /\ value' = value
      /\ outcome' = outcome /\ outcome = "reading"
  BY DEF Parsing, Begin, Reading, Calls
<1>2. At \in DOMAIN lines /\ At \in i .. Len(lines) + 1 /\ i \in Nat /\ Len(lines) \in Nat
      /\ DOMAIN lines = 1 .. Len(lines)
  BY <1>1, AtTyped, LinesTyped DEF TypeOK
<1>3. /\ stack' \in Seq(Frames) /\ Len(stack') = Len(stack)
      /\ \A n \in 1 .. Len(stack) :
            /\ stack'[n].of = stack[n].of /\ stack'[n].indent = stack[n].indent
            /\ stack'[n].shape = IF n = Len(stack) THEN Shape(lines[At]) ELSE stack[n].shape
  <2> DEFINE top == [Top EXCEPT !.shape = Shape(lines[At])]
  <2>1. top \in Frames
    BY <1>1, <1>2, TopTyped, LinesTyped DEF Frames
  <2>2. stack' = [stack EXCEPT ![Len(stack)] = top]
    BY <1>1 DEF Top
  <2>3. /\ stack' \in Seq(Frames) /\ Len(stack') = Len(stack)
        /\ \A n \in 1 .. Len(stack) : stack'[n] = IF n = Len(stack) THEN top ELSE stack[n]
    BY <1>1, <2>1, <2>2, TopTyped, ExceptSeq
  <2>4. /\ top.of = Top.of /\ top.indent = Top.indent /\ top.shape = Shape(lines[At])
        /\ Top = stack[Len(stack)]
    BY <1>1, TopTyped DEF Frames, Top
  <2>5. QED
    BY <2>3, <2>4
<1>4. TypeOK'
  BY <1>1, <1>2, <1>3 DEF TypeOK, Frames
<1>5. Calls'
  <2>1. Len(stack) \in Nat \ {0} /\ stack' # <<>>
    BY <1>1, <1>3, TopTyped
  <2>2. stack'[1].of = 0 /\ stack'[1].indent = 0
    BY <1>1, <1>3, <2>1 DEF Calls
  <2>3. stack'[1].shape # "node"
    <3>1. CASE Len(stack) = 1
      BY <1>2, <1>3, <3>1 DEF Shape
    <3>2. CASE Len(stack) # 1
      <4>1. stack[2].of \in 1 .. i - 1
        BY SMTT(30), <1>1, <2>1, <3>2 DEF Calls
      <4>2. i # 1
        BY <1>2, <4>1
      <4>3. QED
        BY <1>1, <1>3, <2>1, <3>2, <4>2 DEF Calls
    <3>3. QED
      BY <3>1, <3>2
  <2>4. NextNonEmptyLine(1) \in DOMAIN lines /\ stack'[1].shape = Shape(lines[NextNonEmptyLine(1)])
    <3>1. CASE Len(stack) = 1
      <4>1. i = 1
        BY <1>1, <3>1 DEF Calls, Top
      <4>2. QED
        BY <1>2, <1>3, <3>1, <4>1 DEF At
    <3>2. CASE Len(stack) # 1
      <4>1. stack'[1].shape = stack[1].shape
        BY <1>3, <2>1, <3>2
      <4>2. QED
        BY <1>1, <2>3, <4>1 DEF Calls
    <3>3. QED
      BY <3>1, <3>2
  <2>5. \A n \in 2 .. Len(stack') : stack'[n].of \in 1 .. i' - 1 /\ IsOpen(lines[stack'[n].of])
    BY <1>1, <1>2, <1>3, <2>1 DEF Calls
  <2>6. QED
    BY <1>1, <2>1, <2>2, <2>3, <2>4, <2>5 DEF Calls, NextNonEmptyLine
<1>6. Outline'
  <2>1. \A l \in DOMAIN lines : owner[l] # None <=> l < i' /\ ~Blank(lines[l])
    BY <1>1, <1>2, AtTyped DEF Outline
  <2>2. \A n \in 1 .. Len(stack') - 1 : owner[stack'[n + 1].of] = stack'[n].of
    BY <1>1, <1>3, TopTyped DEF Outline
  <2>3. QED
    BY <1>1, <2>1, <2>2 DEF Outline
<1>7. Leftover'
  BY <1>1 DEF Leftover
<1>8. QED
  BY <1>4, <1>5, <1>6, <1>7 DEF Parsing

LEMMA ParsingReturn == ASSUME Parsing, Return PROVE Parsing'
<1>1. /\ TypeOK /\ Calls /\ Outline /\ stack # <<>> /\ outcome = "reading"
      /\ stack' = Front(stack) /\ i' = At
      /\ outcome' = IF Len(stack) = 1 THEN "read" ELSE "reading"
      /\ lines' = lines /\ owner' = owner /\ value' = value
  BY DEF Parsing, Return, Reading, Calls
<1>2. /\ At \in i .. Len(lines) + 1 /\ i \in 1 .. Len(lines) + 1 /\ Len(lines) \in Nat
      /\ DOMAIN lines = 1 .. Len(lines)
  BY <1>1, AtTyped, LinesTyped DEF TypeOK
<1>3. /\ Len(stack) \in Nat \ {0} /\ stack' \in Seq(Frames) /\ Len(stack') = Len(stack) - 1
      /\ \A n \in 1 .. Len(stack') : stack'[n] = stack[n]
  BY <1>1, TopTyped
<1>4. stack' # <<>> <=> Len(stack) # 1
  BY <1>3, EmptySeq
<1>5. TypeOK'
  BY <1>1, <1>2, <1>3 DEF TypeOK, Frames
<1>6. Calls'
  <2>1. stack' # <<>> =>
          /\ stack[1].shape # "node"
          /\ stack'[1] = stack[1]
    <3> SUFFICES ASSUME stack' # <<>> PROVE stack[1].shape # "node" /\ stack'[1] = stack[1]
      OBVIOUS
    <3>1. Len(stack) >= 2
      BY <1>3, <1>4
    <3>2. stack[2].of \in 1 .. i - 1
      BY <1>1, <1>3, <3>1 DEF Calls
    <3>3. i # 1
      BY <1>2, <3>2
    <3>4. QED
      BY <1>1, <1>3, <3>1, <3>3 DEF Calls
  <2>2. \A n \in 2 .. Len(stack') : stack'[n].of \in 1 .. i' - 1 /\ IsOpen(lines[stack'[n].of])
    <3>1. \A n \in 2 .. Len(stack) : stack[n].of \in 1 .. i - 1 /\ IsOpen(lines[stack[n].of])
      BY <1>1 DEF Calls
    <3>2. i <= i'
      BY <1>1, <1>2
    <3>3. SUFFICES ASSUME NEW n \in 2 .. Len(stack')
                   PROVE  stack'[n].of \in 1 .. i' - 1 /\ IsOpen(lines[stack'[n].of])
      OBVIOUS
    <3>4. n \in 2 .. Len(stack) /\ stack'[n] = stack[n]
      BY <1>3
    <3>5. stack[n].of \in 1 .. i - 1 /\ IsOpen(lines[stack[n].of])
      BY <3>1, <3>4
    <3>6. 1 .. i - 1 \subseteq 1 .. i' - 1
      BY <1>1, <1>2, <3>2
    <3>7. QED
      BY <3>4, <3>5, <3>6
  <2>3. QED
    BY <1>1, <1>4, <2>1, <2>2 DEF Calls, NextNonEmptyLine
<1>7. Outline'
  <2>1. \A l \in DOMAIN lines : owner[l] # None <=> l < i' /\ ~Blank(lines[l])
    BY <1>1, <1>2, AtTyped DEF Outline
  <2>2. \A n \in 1 .. Len(stack') - 1 : owner[stack'[n + 1].of] = stack'[n].of
    BY <1>1, <1>3 DEF Outline
  <2>3. QED
    BY <1>1, <2>1, <2>2 DEF Outline
<1>8. Leftover'
  <2> SUFFICES ASSUME Len(stack) = 1, At <= Len(lines)
               PROVE  /\ lines[At].indent = 0 /\ owner[At] = None
                      /\ Shape(lines[At]) # Shape(lines[NextNonEmptyLine(1)])
    BY <1>1 DEF Leftover, NextNonEmptyLine
  <2>1. Foreign(lines[At]) /\ At \in DOMAIN lines
    BY <1>1, <1>2 DEF Return, Ends, AtEnd
  <2>2. lines[At].indent \in Nat
    BY <1>1, <2>1, LinesTyped DEF Line
  <2>3. Top = stack[1] /\ stack[1].indent = 0
    BY <1>1 DEF Top, Calls
  <2>4. /\ lines[At].indent = 0 /\ stack[1].shape # "node"
        /\ Shape(lines[At]) # stack[1].shape
    BY <2>1, <2>2, <2>3 DEF Foreign
  <2>5. owner[At] = None
    BY <1>1, <1>2, <2>1 DEF Outline
  <2>6. QED
    BY <1>1, <2>4, <2>5 DEF Calls
<1>9. QED
  BY <1>5, <1>6, <1>7, <1>8 DEF Parsing

(* A line becomes an entry of the line the innermost call is for. *)
LEMMA Owned ==
    ASSUME Parsing, Takes, owner' = [owner EXCEPT ![At] = Top.of], lines' = lines, i' = At + 1
    PROVE  /\ stack # <<>> /\ outcome = "reading" /\ At \in DOMAIN lines /\ i <= At
           /\ i' \in 1 .. Len(lines) + 1
           /\ owner' \in [DOMAIN lines -> 0 .. Len(lines) \cup {None}]
           /\ owner'[At] = Top.of /\ \A l \in 1 .. i - 1 : owner'[l] = owner[l]
           /\ \A l \in DOMAIN lines : owner'[l] # None <=> l < i' /\ ~Blank(lines[l])
           /\ \A l \in DOMAIN lines :
                owner'[l] \notin {None, 0} => owner'[l] < l /\ IsOpen(lines[owner'[l]])
<1>1. /\ TypeOK /\ Calls /\ Outline /\ stack # <<>> /\ outcome = "reading" /\ ~AtEnd
  BY DEF Parsing, Takes, Reading, Calls
<1>2. /\ At \in DOMAIN lines /\ At \in i .. Len(lines) + 1 /\ i \in 1 .. Len(lines) + 1
      /\ Len(lines) \in Nat /\ DOMAIN lines = 1 .. Len(lines) /\ ~Blank(lines[At])
  BY <1>1, AtTyped, LinesTyped DEF TypeOK
<1>3. Top.of \in 0 .. Len(lines) /\ Top = stack[Len(stack)] /\ Len(stack) \in Nat \ {0}
  BY <1>1, TopTyped DEF Frames, Top
<1>4. Top.of # None
  BY <1>2, <1>3, YamlAssumption
<1>5. owner \in [DOMAIN lines -> 0 .. Len(lines) \cup {None}]
  BY <1>1 DEF TypeOK
<1>6. /\ owner' \in [DOMAIN lines -> 0 .. Len(lines) \cup {None}]
      /\ \A l \in DOMAIN lines : owner'[l] = IF l = At THEN Top.of ELSE owner[l]
  BY <1>2, <1>3, <1>5
<1>7. Top.of # 0 => Top.of \in 1 .. i - 1 /\ IsOpen(lines[Top.of])
  BY <1>1, <1>3 DEF Calls
<1>8. \A l \in DOMAIN lines : owner'[l] # None <=> l < i' /\ ~Blank(lines[l])
  BY <1>1, <1>2, <1>4, <1>6, AtTyped DEF Outline
<1>9. \A l \in DOMAIN lines :
        owner'[l] \notin {None, 0} => owner'[l] < l /\ IsOpen(lines[owner'[l]])
  BY <1>1, <1>2, <1>6, <1>7 DEF Outline
<1>10. QED
  BY <1>1, <1>2, <1>6, <1>8, <1>9

LEMMA Begun == ASSUME Parsing, Takes PROVE stack[1].shape # "node"
<1>1. /\ TypeOK /\ Calls /\ stack # <<>> /\ i \in Nat
  BY DEF Parsing, Takes, Reading, Calls, TypeOK
<1>2. Len(stack) \in Nat \ {0}
  BY <1>1, TopTyped
<1>3. CASE Len(stack) = 1
  BY <1>3 DEF Takes, Top
<1>4. CASE Len(stack) # 1
  <2> DEFINE n == Len(stack)
  <2>1. 2 \in 2 .. n
    <3>1. n \in Nat \ {0} /\ n # 1
      BY <1>2, <1>4
    <3> HIDE DEF n
    <3>2. QED
      BY <3>1
  <2>2. stack[2].of \in 1 .. i - 1
    BY <1>1, <2>1 DEF Calls
  <2>3. QED
    BY <1>1, <2>2 DEF Calls
<1>5. QED
  BY <1>3, <1>4

LEMMA ParsingTakeScalar == ASSUME Parsing, TakeScalar PROVE Parsing'
<1>1. CASE ParseScalar(lines[At].scalar) = "refused"
  BY <1>1, ParsingRefuse DEF TakeScalar, Takes, Reading, Parsing, Calls
<1>2. CASE ParseScalar(lines[At].scalar) # "refused"
  <2>1. /\ TypeOK /\ Calls /\ Outline /\ Takes
        /\ owner' = [owner EXCEPT ![At] = Top.of] /\ i' = At + 1
        /\ value' = [value EXCEPT ![At] = ParseScalar(lines[At].scalar)]
        /\ lines' = lines /\ stack' = stack /\ outcome' = outcome
    BY <1>2 DEF Parsing, TakeScalar
  <2>2. i \in 1 .. Len(lines) + 1 /\ DOMAIN lines = 1 .. Len(lines) /\ Len(lines) \in Nat
    BY <2>1, LinesTyped DEF TypeOK
  <2>3. At \in DOMAIN lines /\ i <= At /\ stack # <<>> /\ i' \in 1 .. Len(lines) + 1
    BY <2>1, Owned
  <2>4. TypeOK'
    <3>1. ParseScalar(lines[At].scalar) \in {"text", "number", "list"}
      BY <1>2 DEF ParseScalar
    <3>2. owner' \in [DOMAIN lines -> 0 .. Len(lines) \cup {None}]
      BY <2>1, Owned
    <3>3. value' \in [DOMAIN lines -> {"text", "number", "list", None}]
      BY <2>1, <3>1 DEF TypeOK
    <3>4. QED
      BY <2>1, <2>3, <3>2, <3>3 DEF TypeOK
  <2>5. Calls'
    <3>1. Len(stack) \in Nat \ {0}
      BY <2>1, <2>3, TopTyped
    <3>2. stack[1].shape # "node"
      BY <2>1, Begun
    <3>3. QED
      BY <2>1, <2>2, <2>3, <3>1, <3>2 DEF Calls, NextNonEmptyLine
  <2>6. Outline'
    <3>1. \A n \in 1 .. Len(stack) - 1 : owner'[stack[n + 1].of] = stack[n].of
      <4> SUFFICES ASSUME NEW n \in 1 .. Len(stack) - 1
                   PROVE  owner'[stack[n + 1].of] = stack[n].of
        OBVIOUS
      <4>1. Len(stack) \in Nat
        BY <2>1, <2>3, TopTyped
      <4>2. stack[n + 1].of \in 1 .. i - 1
        BY <2>1, <4>1 DEF Calls
      <4>3. QED
        BY <2>1, <4>2, Owned DEF Outline
    <3>2. QED
      BY <2>1, <3>1, Owned DEF Outline
  <2>7. Leftover'
    BY <2>1 DEF Leftover, Takes, Reading
  <2>8. QED
    BY <2>4, <2>5, <2>6, <2>7 DEF Parsing
<1>3. QED
  BY <1>1, <1>2

LEMMA ParsingTakeOpen == ASSUME Parsing, TakeOpen PROVE Parsing'
<1> DEFINE next == NextNonEmptyLine(At + 1)
           frame == Frame(ChildIndent(At + 1, Top.indent), At)
<1>1. CASE next \in DOMAIN lines /\ lines[next].tab
  BY <1>1, ParsingRefuse DEF TakeOpen, Takes, Reading, Parsing, Calls
<1>2. CASE ~(next \in DOMAIN lines /\ lines[next].tab)
  <2>1. /\ TypeOK /\ Calls /\ Outline /\ Takes /\ IsOpen(lines[At])
        /\ owner' = [owner EXCEPT ![At] = Top.of] /\ i' = At + 1
        /\ stack' = Append(stack, frame)
        /\ lines' = lines /\ value' = value /\ outcome' = outcome
    BY <1>2 DEF Parsing, TakeOpen
  <2>2. i \in 1 .. Len(lines) + 1 /\ DOMAIN lines = 1 .. Len(lines) /\ Len(lines) \in Nat
    BY <2>1, LinesTyped DEF TypeOK
  <2>3. At \in DOMAIN lines /\ i <= At /\ stack # <<>> /\ i' \in 1 .. Len(lines) + 1
    BY <2>1, Owned
  <2>4. frame \in Frames /\ frame.of = At
    <3>1. Top.indent \in Nat
      BY <2>1, <2>3, TopTyped DEF Frames
    <3>2. \A l \in DOMAIN lines : lines[l].indent \in Nat
      BY <2>1, LinesTyped DEF Line
    <3>3. ChildIndent(At + 1, Top.indent) \in Nat
      BY <3>1, <3>2 DEF ChildIndent
    <3>4. QED
      BY <2>2, <2>3, <3>3 DEF Frame, Frames
  <2>5. /\ stack' \in Seq(Frames) /\ Len(stack') = Len(stack) + 1 /\ Len(stack) \in Nat \ {0}
        /\ stack' # <<>>
        /\ \A n \in 1 .. Len(stack') : stack'[n] = IF n <= Len(stack) THEN stack[n] ELSE frame
    <3> HIDE DEF frame
    <3>1. QED
      BY <2>1, <2>3, <2>4, TopTyped, AppendProperties
  <2>6. TypeOK'
    <3>1. owner' \in [DOMAIN lines -> 0 .. Len(lines) \cup {None}]
      BY <2>1, Owned
    <3>2. QED
      BY <2>1, <2>3, <2>5, <3>1 DEF TypeOK, Frames
  <2>7. Calls'
    <3>1. stack'[1] = stack[1] /\ stack[1].shape # "node"
      BY <2>1, <2>5, Begun
    <3>2. \A n \in 2 .. Len(stack) : stack[n].of \in 1 .. i - 1 /\ IsOpen(lines[stack[n].of])
      BY <2>1 DEF Calls
    <3>3. \A n \in 2 .. Len(stack') : stack'[n].of \in 1 .. i' - 1 /\ IsOpen(lines[stack'[n].of])
      BY <2>1, <2>2, <2>3, <2>4, <2>5, <3>2
    <3>4. QED
      BY <2>1, <2>3, <2>5, <3>1, <3>3 DEF Calls, NextNonEmptyLine
  <2>8. Outline'
    <3>1. \A n \in 1 .. Len(stack') - 1 : owner'[stack'[n + 1].of] = stack'[n].of
      <4> SUFFICES ASSUME NEW n \in 1 .. Len(stack)
                   PROVE  owner'[stack'[n + 1].of] = stack'[n].of
        BY <2>5
      <4>1. CASE n = Len(stack)
        BY <2>1, <2>4, <2>5, <4>1, Owned DEF Top
      <4>2. CASE n # Len(stack)
        <5>1. stack[n + 1].of \in 1 .. i - 1 /\ owner[stack[n + 1].of] = stack[n].of
          BY <2>1, <2>5, <4>2 DEF Calls, Outline
        <5>2. QED
          BY <2>1, <2>5, <4>2, <5>1, Owned
      <4>3. QED
        BY <4>1, <4>2
    <3>2. QED
      BY <2>1, <3>1, Owned DEF Outline
  <2>9. Leftover'
    BY <2>1 DEF Leftover, Takes, Reading
  <2>10. QED
    BY <2>6, <2>7, <2>8, <2>9 DEF Parsing
<1>3. QED
  BY <1>1, <1>2

LEMMA ParsingStep == ASSUME Parsing, [Next]_vars PROVE Parsing'
<1>1. CASE Malformed
  BY <1>1, ParsingRefuse DEF Malformed, Reading, Parsing, Calls
<1>2. CASE UNCHANGED vars
  BY <1>2 DEF vars, Parsing, TypeOK, Calls, Outline, Leftover, NextNonEmptyLine
<1>3. QED
  BY <1>1, <1>2, ParsingBegin, ParsingReturn, ParsingTakeScalar, ParsingTakeOpen DEF Next

LEMMA Invariance == Spec => []Parsing
  BY ParsingInit, ParsingStep, PTL DEF Spec

-----------------------------------------------------------------------------
(* The parser's stack holds calls for lines of the text, at any depth.      *)
THEOREM TypeCorrect == Spec => []TypeOK
  BY Invariance, PTL DEF Parsing

(* Whatever the text: parseList and parseMapping skip blank lines only, and *)
(* put every other line they pass into the innermost open line above it.    *)
THEOREM OutlineCorrect == Spec => []Outline
  BY Invariance, PTL DEF Parsing

(* parsePolicyYaml, which does not look behind the outermost value, leaves  *)
(* out nothing but what follows an item in a mapping or a key in a list at  *)
(* the left margin.                                                         *)
THEOREM LeftoverCorrect == Spec => []Leftover
  BY Invariance, PTL DEF Parsing

-----------------------------------------------------------------------------
(* The outline and the indentation. *)

(* A line further left than l, or the key, at the same indent, of an item.  *)
Above(m, l) ==
    /\ m < l /\ ~Blank(lines[m])
    /\ \/ lines[m].indent < lines[l].indent
       \/ lines[m].indent = lines[l].indent /\ lines[l].dash /\ ~lines[m].dash

FirstBelow(line) == NextNonEmptyLine(line + 1)

(* An inner call: the line it is for was taken by the call around it, and   *)
(* the indent is that of the first line below.                              *)
Nests(n) ==
    LET of == stack[n].of
    IN  /\ lines[of].indent = stack[n - 1].indent /\ Shape(lines[of]) = stack[n - 1].shape
        /\ FirstBelow(of) \in DOMAIN lines =>
              /\ stack[n].indent = lines[FirstBelow(of)].indent
              /\ stack[n].shape \in {"node", Shape(lines[FirstBelow(of)])}
        /\ stack[n].shape = "node" => \A k \in DOMAIN lines : of < k /\ k < i => Blank(lines[k])

(* The calls are indented from the outermost to the innermost, only a list  *)
(* may stand below its key.                                                 *)
Deepens ==
    \A n, m \in DOMAIN stack :
        n < m => /\ stack[n].of < stack[m].of /\ stack[n].indent <= stack[m].indent
                 /\ stack[n].shape = "list" => stack[n].indent < stack[m].indent
                 /\ stack[m].shape = "map" => stack[n].indent < stack[m].indent

(* What has been read since a call began is not further left than it.       *)
Within ==
    \A n \in DOMAIN stack, k \in DOMAIN lines :
        stack[n].of < k /\ k < i /\ ~Blank(lines[k]) =>
            /\ lines[k].indent >= stack[n].indent
            /\ lines[k].indent = stack[n].indent /\ stack[n].shape = "list" => lines[k].dash

Kind(line) == IF line.scalar = None THEN None ELSE ParseScalar(line.scalar)

Valued ==
    \A l \in DOMAIN lines :
        /\ l < i /\ ~Blank(lines[l]) =>
              value[l] = Kind(lines[l]) /\ (lines[l].scalar # None => value[l] # "refused")
        /\ l >= i => value[l] = None

Placed ==
    /\ \A n \in 2 .. Len(stack) : Nests(n)
    /\ Filled => /\ Deepens /\ Within
                 /\ \A l \in DOMAIN lines : l < i /\ ~Blank(lines[l]) => owner[l] = OwnerByIndent(l)

(* Whatever is still to be read belongs to a line still to be read, or to   *)
(* one of the open calls.                                                   *)
Pending ==
    \A l \in DOMAIN lines :
        l >= i /\ ~Blank(lines[l]) =>
            OwnerByIndent(l) >= i \/ \E n \in DOMAIN stack : stack[n].of = OwnerByIndent(l)

Accepting == Sound => outcome # "refused" /\ Pending

(* A bounded set of naturals has a largest member. *)
LEMMA Largest ==
    ASSUME NEW n \in Nat, NEW S \in SUBSET (1 .. n), S # {}
    PROVE  \E x \in S : \A y \in S : y <= x
<1> DEFINE T == {n - x : x \in S}
<1>1. T \in SUBSET Nat /\ T # {}
  <2>1. \A x \in S : n - x \in Nat
    OBVIOUS
  <2>2. PICK x \in S : TRUE
    OBVIOUS
  <2>3. n - x \in T
    OBVIOUS
  <2>4. QED
    BY <2>1, <2>3
<1>2. PICK t \in T : \A u \in T : t <= u
  <2> HIDE DEF T
  <2>1. QED
    BY <1>1, Smallest
<1>3. PICK x \in S : t = n - x
  OBVIOUS
<1>4. \A y \in S : n - x <= n - y
  BY <1>2, <1>3
<1>5. \A y \in S : y <= x
  <2> SUFFICES ASSUME NEW y \in S PROVE y <= x
    OBVIOUS
  <2>1. x \in 1 .. n /\ y \in 1 .. n
    BY <1>3
  <2>2. n - x <= n - y
    BY <1>4
  <2>3. QED
    BY <2>1, <2>2
<1>6. QED
  BY <1>5

(* The next line that is not blank, given as such. *)
LEMMA NextIs ==
    ASSUME lines \in Seq(Line), NEW s \in 1 .. Len(lines) + 1, NEW l \in DOMAIN lines,
           s <= l, ~Blank(lines[l]), \A k \in DOMAIN lines : s <= k /\ k < l => Blank(lines[k])
    PROVE  NextNonEmptyLine(s) = l
<1> DEFINE n == NextNonEmptyLine(s)
<1>1. /\ n \in s .. Len(lines) + 1
      /\ \A k \in DOMAIN lines : k >= s /\ k < n => Blank(lines[k])
      /\ n <= Len(lines) => n \in DOMAIN lines /\ ~Blank(lines[n])
  BY NextLine
<1> HIDE DEF n
<1>2. DOMAIN lines = 1 .. Len(lines) /\ Len(lines) \in Nat
  OBVIOUS
<1>3. ~(l < n)
  BY <1>1, <1>2
<1>4. ~(n < l)
  BY <1>1, <1>2
<1>5. n = l
  BY <1>1, <1>2, <1>3, <1>4
<1>6. QED
  BY <1>5 DEF n

LEMMA OwnerIs ==
    ASSUME lines \in Seq(Line), NEW l \in DOMAIN lines
    PROVE  /\ (\E m \in DOMAIN lines : Above(m, l)) =>
                /\ OwnerByIndent(l) \in DOMAIN lines /\ Above(OwnerByIndent(l), l)
                /\ \A k \in DOMAIN lines : Above(k, l) => k <= OwnerByIndent(l)
           /\ ~(\E m \in DOMAIN lines : Above(m, l)) => OwnerByIndent(l) = 0
<1>1. OwnerByIndent(l) =
        IF \E m \in DOMAIN lines : Above(m, l)
          THEN CHOOSE m \in DOMAIN lines : Above(m, l) /\ \A k \in DOMAIN lines : Above(k, l) => k <= m
          ELSE 0
  BY DEF OwnerByIndent, Above
<1>2. ASSUME \E m \in DOMAIN lines : Above(m, l)
      PROVE  \E m \in DOMAIN lines : Above(m, l) /\ \A k \in DOMAIN lines : Above(k, l) => k <= m
  <2> DEFINE S == {m \in DOMAIN lines : Above(m, l)}
  <2>1. S \in SUBSET (1 .. Len(lines)) /\ S # {} /\ Len(lines) \in Nat
    BY <1>2
  <2>2. \E x \in S : \A y \in S : y <= x
    <3> HIDE DEF S
    <3>1. QED
      BY <2>1, Largest
  <2>3. QED
    BY <2>2
<1>3. QED
  BY <1>1, <1>2

LEMMA OwnerOf ==
    ASSUME lines \in Seq(Line), NEW l \in DOMAIN lines, NEW o \in DOMAIN lines, Above(o, l),
           \A k \in DOMAIN lines : Above(k, l) => k <= o
    PROVE  OwnerByIndent(l) = o
<1>1. /\ OwnerByIndent(l) \in DOMAIN lines /\ Above(OwnerByIndent(l), l)
      /\ o <= OwnerByIndent(l)
  BY OwnerIs
<1>2. OwnerByIndent(l) <= o
  BY <1>1
<1>3. DOMAIN lines \subseteq Nat
  OBVIOUS
<1>4. QED
  BY <1>1, <1>2, <1>3

(* A value that is not left empty is below its line and indented. *)
LEMMA FilledBelow ==
    ASSUME lines \in Seq(Line), Filled, NEW o \in DOMAIN lines, IsOpen(lines[o]),
           FirstBelow(o) \in DOMAIN lines
    PROVE  OwnerByIndent(FirstBelow(o)) = o /\ Above(o, FirstBelow(o))
<1>1. o \in 1 .. Len(lines) /\ Len(lines) \in Nat
  OBVIOUS
<1>2. OwnerByIndent(FirstBelow(o)) = o
  BY <1>1 DEF Filled, FirstBelow
<1>3. o # 0
  BY <1>1
<1>4. QED
  BY <1>2, <1>3, OwnerIs

LEMMA SameLines ==
    ASSUME lines' = lines
    PROVE  /\ \A s : NextNonEmptyLine(s)' = NextNonEmptyLine(s) /\ FirstBelow(s)' = FirstBelow(s)
           /\ \A l : OwnerByIndent(l)' = OwnerByIndent(l)
           /\ (Filled' <=> Filled) /\ (Sound' <=> Sound)
<1>1. \A s : NextNonEmptyLine(s)' = NextNonEmptyLine(s) /\ FirstBelow(s)' = FirstBelow(s)
  BY DEF NextNonEmptyLine, FirstBelow
<1>2. \A l : OwnerByIndent(l)' = OwnerByIndent(l)
  BY DEF OwnerByIndent
<1>3. Filled' <=> Filled
  BY <1>1, <1>2 DEF Filled
<1>4. Sound' <=> Sound
  BY <1>2, <1>3 DEF Sound
<1>5. QED
  BY <1>1, <1>2, <1>3, <1>4

LEMMA StackTyped ==
    ASSUME TypeOK, stack # <<>>
    PROVE  /\ stack \in Seq(Frames) /\ Len(stack) \in Nat \ {0} /\ DOMAIN stack = 1 .. Len(stack)
           /\ Len(stack) \in DOMAIN stack /\ Top = stack[Len(stack)]
           /\ Top.indent \in Nat /\ Top.of \in 0 .. Len(lines) /\ Len(lines) \in Nat
           /\ \A n \in DOMAIN stack :
                stack[n].indent \in Nat /\ stack[n].of \in 0 .. Len(lines)
                /\ stack[n].shape \in {"node", "list", "map"}
<1>1. stack \in Seq(Frames) /\ Len(stack) \in Nat \ {0} /\ DOMAIN stack = 1 .. Len(stack)
  BY TopTyped
<1>2. Len(stack) \in DOMAIN stack
  BY <1>1
<1>3. \A n \in DOMAIN stack : stack[n] \in Frames
  BY <1>1
<1>4. \A n \in DOMAIN stack :
        stack[n].indent \in Nat /\ stack[n].of \in 0 .. Len(lines)
        /\ stack[n].shape \in {"node", "list", "map"}
  BY <1>3 DEF Frames
<1>5. Top = stack[Len(stack)]
  BY DEF Top
<1>6. Len(lines) \in Nat
  BY LinesTyped
<1>7. QED
  BY <1>1, <1>2, <1>4, <1>5, <1>6

(* Only the innermost call may not have begun. *)
LEMMA OuterBegun ==
    ASSUME Parsing, \A n \in 2 .. Len(stack) : Nests(n), stack # <<>>
    PROVE  \A n \in 1 .. Len(stack) - 1 : stack[n].shape \in {"list", "map"}
<1> SUFFICES ASSUME NEW n \in 1 .. Len(stack) - 1 PROVE stack[n].shape \in {"list", "map"}
  OBVIOUS
<1>1. TypeOK /\ Calls /\ Len(stack) \in Nat
  BY TopTyped DEF Parsing
<1>2. n + 1 \in 2 .. Len(stack) /\ n + 1 - 1 = n
  BY <1>1
<1>3. Shape(lines[stack[n + 1].of]) = stack[n].shape
  BY <1>2 DEF Nests
<1>4. QED
  BY <1>3 DEF Shape

(* What is further in than the innermost call has nothing to do with the    *)
(* line it takes.                                                           *)
LEMMA TakenApart ==
    ASSUME Parsing, Within, Takes, NEW k \in DOMAIN lines, Top.of < k
    PROVE  ~Above(k, At)
<1>1. /\ TypeOK /\ stack # <<>> /\ ~AtEnd
  BY DEF Parsing, Takes, Reading, Calls
<1>2. /\ At \in DOMAIN lines /\ At \in i .. Len(lines) + 1 /\ i \in 1 .. Len(lines) + 1
      /\ Len(lines) \in Nat /\ DOMAIN lines = 1 .. Len(lines)
      /\ \A l \in DOMAIN lines : l >= i /\ l < At => Blank(lines[l])
  BY <1>1, AtTyped, LinesTyped DEF TypeOK
<1>3. Len(stack) \in DOMAIN stack /\ Top = stack[Len(stack)]
  BY <1>1, TopTyped DEF Top
<1>4. lines[At].indent = Top.indent /\ Shape(lines[At]) = Top.shape
  BY DEF Takes
<1>5. lines[k].indent \in Nat /\ lines[At].indent \in Nat
  BY <1>1, <1>2, LinesTyped DEF Line
<1>6. SUFFICES ASSUME k < At, ~Blank(lines[k])
               PROVE  ~\/ lines[k].indent < lines[At].indent
                       \/ lines[k].indent = lines[At].indent /\ lines[At].dash /\ ~lines[k].dash
  BY DEF Above
<1>7. k < i
  BY <1>2, <1>6
<1>8. /\ lines[k].indent >= Top.indent
      /\ lines[k].indent = Top.indent /\ Top.shape = "list" => lines[k].dash
  BY <1>3, <1>6, <1>7 DEF Within
<1>9. lines[At].dash => Top.shape = "list"
  BY <1>4 DEF Shape
<1>10. QED
  BY <1>4, <1>5, <1>8, <1>9

(* A line is taken by the call for the line it is below. *)
LEMMA TakenOwner ==
    ASSUME Parsing, Placed, Takes, Filled
    PROVE  OwnerByIndent(At) = Top.of
<1>1. /\ TypeOK /\ Calls /\ stack # <<>> /\ ~AtEnd /\ Deepens /\ Within
  BY DEF Parsing, Takes, Reading, Calls, Placed
<1>2. /\ At \in DOMAIN lines /\ At \in i .. Len(lines) + 1 /\ i \in 1 .. Len(lines) + 1
      /\ Len(lines) \in Nat /\ DOMAIN lines = 1 .. Len(lines) /\ lines \in Seq(Line)
  BY <1>1, AtTyped, LinesTyped DEF TypeOK
<1>3. /\ Len(stack) \in Nat \ {0} /\ DOMAIN stack = 1 .. Len(stack) /\ Top = stack[Len(stack)]
      /\ Top.of \in 0 .. Len(lines) /\ Top.indent \in Nat
  BY <1>1, TopTyped DEF Top, Frames
<1>4. \A k \in DOMAIN lines : Above(k, At) => k <= Top.of
  BY <1>1, <1>2, <1>3, TakenApart
<1>5. CASE Len(stack) = 1
  <2>1. Top.of = 0
    BY <1>1, <1>3, <1>5 DEF Calls
  <2>2. ~\E k \in DOMAIN lines : Above(k, At)
    BY <1>2, <1>4, <2>1
  <2>3. QED
    BY <1>2, <2>1, <2>2, OwnerIs
<1>6. CASE Len(stack) # 1
  <2>1. Len(stack) \in 2 .. Len(stack) /\ Len(stack) - 1 \in DOMAIN stack /\ Len(stack) \in DOMAIN stack
        /\ Len(stack) - 1 < Len(stack)
    BY <1>3, <1>6
  <2>2. Top.of \in 1 .. i - 1 /\ IsOpen(lines[Top.of])
    BY <1>1, <1>3, <2>1 DEF Calls
  <2>3. Nests(Len(stack))
    BY <2>1 DEF Placed
  <2>4. /\ lines[Top.of].indent = stack[Len(stack) - 1].indent
        /\ Shape(lines[Top.of]) = stack[Len(stack) - 1].shape
    BY <1>3, <2>3 DEF Nests
  <2>5. /\ stack[Len(stack) - 1].indent <= Top.indent
        /\ stack[Len(stack) - 1].shape = "list" => stack[Len(stack) - 1].indent < Top.indent
        /\ Top.shape = "map" => stack[Len(stack) - 1].indent < Top.indent
    BY <1>1, <1>3, <2>1 DEF Deepens
  <2>6. lines[At].indent = Top.indent /\ Shape(lines[At]) = Top.shape
    BY DEF Takes
  <2>7. Top.of \in DOMAIN lines /\ Top.of < At /\ ~Blank(lines[Top.of])
    BY <1>2, <2>2 DEF IsOpen
  <2>8. lines[Top.of].indent \in Nat /\ lines[At].indent \in Nat
    BY <1>1, <1>2, <2>7, LinesTyped DEF Line
  <2>9. Above(Top.of, At)
    <3>1. CASE lines[Top.of].indent < lines[At].indent
      BY <2>7, <3>1 DEF Above
    <3>2. CASE lines[Top.of].indent = lines[At].indent
      <4>1. ~lines[Top.of].dash /\ lines[At].dash
        BY <2>4, <2>5, <2>6, <2>8, <3>2 DEF Shape
      <4>2. QED
        BY <2>7, <3>2, <4>1 DEF Above
    <3>3. QED
      BY <2>4, <2>5, <2>6, <2>8, <3>1, <3>2
  <2>10. QED
    BY <1>2, <1>4, <2>7, <2>9, OwnerOf
<1>7. QED
  BY <1>5, <1>6

(* And it is not further left than any open call. *)
LEMMA TakenWithin ==
    ASSUME Parsing, Deepens, Takes, NEW n \in DOMAIN stack
    PROVE  /\ lines[At].indent >= stack[n].indent
           /\ lines[At].indent = stack[n].indent /\ stack[n].shape = "list" => lines[At].dash
<1>1. TypeOK /\ stack # <<>>
  BY DEF Parsing, Takes, Reading, Calls
<1>2. /\ Len(stack) \in Nat \ {0} /\ DOMAIN stack = 1 .. Len(stack) /\ Top = stack[Len(stack)]
      /\ \A m \in DOMAIN stack : stack[m].indent \in Nat
  BY <1>1, StackTyped
<1>3. lines[At].indent = Top.indent /\ Shape(lines[At]) = Top.shape
  BY DEF Takes
<1>4. CASE n = Len(stack)
  BY <1>2, <1>3, <1>4 DEF Shape
<1>5. CASE n # Len(stack)
  <2>1. n < Len(stack) /\ Len(stack) \in DOMAIN stack
    BY <1>2, <1>5
  <2>2. /\ stack[n].indent <= Top.indent
        /\ stack[n].shape = "list" => stack[n].indent < Top.indent
    BY <1>2, <2>1 DEF Deepens
  <2>3. QED
    BY <1>2, <1>3, <2>2
<1>6. QED
  BY <1>4, <1>5

(* A line has been taken; nothing else of the calls has changed. *)
LEMMA TakenPlaced ==
    ASSUME Parsing, Placed, Filled, Takes, owner' = [owner EXCEPT ![At] = Top.of],
           lines' = lines, i' = At + 1
    PROVE  /\ \A n \in DOMAIN stack, k \in DOMAIN lines :
                stack[n].of < k /\ k < i' /\ ~Blank(lines[k]) =>
                    /\ lines[k].indent >= stack[n].indent
                    /\ lines[k].indent = stack[n].indent /\ stack[n].shape = "list" => lines[k].dash
           /\ \A l \in DOMAIN lines : l < i' /\ ~Blank(lines[l]) => owner'[l] = OwnerByIndent(l)
<1>1. /\ TypeOK /\ Deepens /\ Within
      /\ \A l \in DOMAIN lines : l < i /\ ~Blank(lines[l]) => owner[l] = OwnerByIndent(l)
  BY DEF Parsing, Placed
<1>2. /\ At \in DOMAIN lines /\ i <= At /\ i \in 1 .. Len(lines) + 1
      /\ Len(lines) \in Nat /\ DOMAIN lines = 1 .. Len(lines)
      /\ owner'[At] = Top.of /\ \A l \in 1 .. i - 1 : owner'[l] = owner[l]
  BY <1>1, LinesTyped, Owned DEF TypeOK
<1>3. \A k \in DOMAIN lines : k < i' /\ ~Blank(lines[k]) => k < i \/ k = At
  BY <1>1, <1>2, AtTyped
<1>4. OwnerByIndent(At) = Top.of
  BY TakenOwner
<1>5. \A n \in DOMAIN stack : /\ lines[At].indent >= stack[n].indent
                              /\ lines[At].indent = stack[n].indent /\ stack[n].shape = "list" => lines[At].dash
  BY <1>1, TakenWithin
<1>6. \A l \in DOMAIN lines : l < i' /\ ~Blank(lines[l]) => owner'[l] = OwnerByIndent(l)
  BY <1>1, <1>2, <1>3, <1>4
<1>7. QED
  BY <1>1, <1>3, <1>5, <1>6 DEF Within

LEMMA PlacedInit == ASSUME Init PROVE Placed
<1>1. /\ stack = <<Frame(0, 0)>> /\ i = 1 /\ Len(stack) = 1 /\ DOMAIN stack = {1}
      /\ stack[1] = Frame(0, 0) /\ lines \in Seq(Line)
  BY YamlAssumption DEF Init
<1>2. \A l \in DOMAIN lines : ~(l < i)
  BY <1>1
<1>3. Deepens
  BY <1>1 DEF Deepens
<1>4. Within
  BY <1>2 DEF Within
<1>5. QED
  BY <1>1, <1>2, <1>3, <1>4 DEF Placed

LEMMA PlacedSame ==
    ASSUME Placed, UNCHANGED <<lines, i, stack, owner>>
    PROVE  Placed'
<1>1. /\ \A s : FirstBelow(s)' = FirstBelow(s)
      /\ \A l : OwnerByIndent(l)' = OwnerByIndent(l)
      /\ (Filled' <=> Filled)
  BY SameLines
<1>2. \A n : Nests(n)' <=> Nests(n)
  BY <1>1 DEF Nests
<1>3. (Deepens' <=> Deepens) /\ (Within' <=> Within)
  BY DEF Deepens, Within
<1>4. QED
  BY <1>1, <1>2, <1>3 DEF Placed

LEMMA PlacedReturn == ASSUME Parsing, Placed, Return PROVE Placed'
<1>1. /\ TypeOK /\ stack # <<>> /\ stack' = Front(stack) /\ i' = At /\ lines' = lines /\ owner' = owner
  BY DEF Parsing, Return, Reading, Calls
<1>2. /\ Len(stack) \in Nat \ {0} /\ DOMAIN stack = 1 .. Len(stack)
      /\ Len(stack') = Len(stack) - 1 /\ DOMAIN stack' = 1 .. Len(stack) - 1
      /\ \A n \in 1 .. Len(stack) - 1 : stack'[n] = stack[n]
  <2>1. /\ Len(stack) \in Nat \ {0} /\ DOMAIN stack = 1 .. Len(stack)
        /\ stack' \in Seq(Frames) /\ Len(stack') = Len(stack) - 1
        /\ \A n \in 1 .. Len(stack) - 1 : stack'[n] = stack[n]
    BY <1>1, TopTyped
  <2>2. DOMAIN stack' = 1 .. Len(stack')
    BY <2>1
  <2>3. QED
    BY <2>1, <2>2
<1>3. /\ i \in 1 .. Len(lines) + 1 /\ At \in i .. Len(lines) + 1 /\ Len(lines) \in Nat
      /\ DOMAIN lines = 1 .. Len(lines)
      /\ \A k \in DOMAIN lines : k < At /\ ~Blank(lines[k]) => k < i
  BY <1>1, AtTyped, LinesTyped DEF TypeOK
<1>4. /\ \A s : FirstBelow(s)' = FirstBelow(s)
      /\ \A l : OwnerByIndent(l)' = OwnerByIndent(l)
      /\ (Filled' <=> Filled)
  BY <1>1, SameLines
<1>5. \A n \in 2 .. Len(stack') : Nests(n)'
  <2> SUFFICES ASSUME NEW n \in 2 .. Len(stack') PROVE Nests(n)'
    OBVIOUS
  <2>1. n \in 2 .. Len(stack) /\ n \in 1 .. Len(stack) - 1 /\ n - 1 \in 1 .. Len(stack) - 1
    BY <1>2
  <2>2. Nests(n) /\ stack[n].shape # "node"
    BY <1>1, <2>1, OuterBegun DEF Placed
  <2>3. stack'[n] = stack[n] /\ stack'[n - 1] = stack[n - 1]
    BY <1>2, <2>1
  <2>4. QED
    BY <1>1, <1>4, <2>2, <2>3 DEF Nests
<1>6. Filled => Deepens' /\ Within'
  <2> SUFFICES ASSUME Deepens, Within PROVE Deepens' /\ Within'
    BY DEF Placed
  <2>1. DOMAIN stack' \subseteq DOMAIN stack
    BY <1>2
  <2>2. Deepens'
    BY <1>2, <2>1 DEF Deepens
  <2>3. Within'
    <3> SUFFICES ASSUME NEW n \in DOMAIN stack', NEW k \in DOMAIN lines,
                        stack'[n].of < k, k < At, ~Blank(lines[k])
                 PROVE  /\ lines[k].indent >= stack'[n].indent
                        /\ lines[k].indent = stack'[n].indent /\ stack'[n].shape = "list" => lines[k].dash
      BY <1>1 DEF Within
    <3>1. stack'[n] = stack[n] /\ n \in DOMAIN stack
      BY <1>2, <2>1
    <3>2. k < i
      BY <1>3
    <3>3. QED
      BY <3>1, <3>2 DEF Within
  <2>4. QED
    BY <2>2, <2>3
<1>7. Filled => \A l \in DOMAIN lines : l < i' /\ ~Blank(lines[l]) => owner[l] = OwnerByIndent(l)
  BY <1>1, <1>3 DEF Placed
<1>8. QED
  BY <1>1, <1>4, <1>5, <1>6, <1>7 DEF Placed

LEMMA PlacedTakeScalar == ASSUME Parsing, Placed, TakeScalar PROVE Placed'
<1>1. CASE ParseScalar(lines[At].scalar) = "refused"
  BY <1>1, PlacedSame DEF TakeScalar, Refuse
<1>2. CASE ParseScalar(lines[At].scalar) # "refused"
  <2>1. /\ TypeOK /\ Takes /\ stack # <<>> /\ owner' = [owner EXCEPT ![At] = Top.of] /\ i' = At + 1
        /\ lines' = lines /\ stack' = stack
    BY <1>2 DEF TakeScalar, Takes, Parsing, Reading, Calls
  <2>2. /\ \A s : FirstBelow(s)' = FirstBelow(s)
        /\ \A l : OwnerByIndent(l)' = OwnerByIndent(l)
        /\ (Filled' <=> Filled)
    BY <2>1, SameLines
  <2>3. \A n \in 2 .. Len(stack) : Nests(n)'
    <3> SUFFICES ASSUME NEW n \in 2 .. Len(stack) PROVE Nests(n)'
      OBVIOUS
    <3>1. stack[n].shape # "node"
      <4>1. Len(stack) \in Nat
        BY <2>1, TopTyped
      <4>2. n = Len(stack) \/ n \in 1 .. Len(stack) - 1
        BY <4>1
      <4>3. QED
        BY <2>1, <4>2, OuterBegun DEF Placed, Takes, Top
    <3>2. Nests(n)
      BY DEF Placed
    <3>3. QED
      BY <2>1, <2>2, <3>1, <3>2 DEF Nests
  <2>4. Filled => Deepens'
    BY <2>1 DEF Placed, Deepens
  <2>5. Filled => Within' /\ \A l \in DOMAIN lines : l < i' /\ ~Blank(lines[l]) => owner'[l] = OwnerByIndent(l)
    <3> SUFFICES ASSUME Filled
                 PROVE  Within' /\ \A l \in DOMAIN lines : l < i' /\ ~Blank(lines[l]) => owner'[l] = OwnerByIndent(l)
      OBVIOUS
    <3>1. /\ \A n \in DOMAIN stack, k \in DOMAIN lines :
                stack[n].of < k /\ k < i' /\ ~Blank(lines[k]) =>
                    /\ lines[k].indent >= stack[n].indent
                    /\ lines[k].indent = stack[n].indent /\ stack[n].shape = "list" => lines[k].dash
          /\ \A l \in DOMAIN lines : l < i' /\ ~Blank(lines[l]) => owner'[l] = OwnerByIndent(l)
      BY <2>1, TakenPlaced
    <3>2. QED
      BY <2>1, <3>1 DEF Within
  <2>6. QED
    BY <2>1, <2>2, <2>3, <2>4, <2>5 DEF Placed
<1>3. QED
  BY <1>1, <1>2

LEMMA PlacedTakeOpen == ASSUME Parsing, Placed, TakeOpen PROVE Placed'
<1> DEFINE next == NextNonEmptyLine(At + 1)
           frame == Frame(ChildIndent(At + 1, Top.indent), At)
<1>1. CASE next \in DOMAIN lines /\ lines[next].tab
  BY <1>1, PlacedSame DEF TakeOpen, Refuse
<1>2. CASE ~(next \in DOMAIN lines /\ lines[next].tab)
  <2>1. /\ TypeOK /\ Calls /\ Takes /\ stack # <<>> /\ IsOpen(lines[At])
        /\ owner' = [owner EXCEPT ![At] = Top.of] /\ i' = At + 1
        /\ stack' = Append(stack, frame) /\ lines' = lines
    BY <1>2 DEF TakeOpen, Takes, Parsing, Reading, Calls
  <2>2. /\ \A s : FirstBelow(s)' = FirstBelow(s)
        /\ \A l : OwnerByIndent(l)' = OwnerByIndent(l)
        /\ (Filled' <=> Filled)
    BY <2>1, SameLines
  <2>3. /\ At \in DOMAIN lines /\ i <= At /\ i \in 1 .. Len(lines) + 1
        /\ Len(lines) \in Nat /\ DOMAIN lines = 1 .. Len(lines) /\ lines \in Seq(Line)
    BY <2>1, Owned, LinesTyped DEF TypeOK
  <2>4. /\ Len(stack) \in Nat \ {0} /\ stack \in Seq(Frames) /\ DOMAIN stack = 1 .. Len(stack)
        /\ Top = stack[Len(stack)] /\ Top.indent \in Nat
        /\ \A n \in DOMAIN stack : stack[n].indent \in Nat /\ stack[n].of \in Nat
    BY <2>1, StackTyped
  <2>5. /\ frame.of = At /\ frame.shape = "node" /\ frame.indent = ChildIndent(At + 1, Top.indent)
        /\ FirstBelow(At) = next
    BY DEF Frame, FirstBelow
  <2>6. /\ next \in DOMAIN lines => frame.indent = lines[next].indent
        /\ next \notin DOMAIN lines => frame.indent = Top.indent + 2
    BY <2>5 DEF ChildIndent
  <2>7. frame \in Frames
    <3>1. \A l \in DOMAIN lines : lines[l].indent \in Nat
      BY <2>1, LinesTyped DEF Line
    <3>2. frame.indent \in Nat
      BY <2>4, <2>6, <3>1
    <3>3. ChildIndent(At + 1, Top.indent) \in Nat
      BY <2>5, <3>2
    <3>4. QED
      BY <2>3, <3>3 DEF Frame, Frames
  <2> HIDE DEF frame, next
  <2>8. /\ Len(stack') = Len(stack) + 1 /\ DOMAIN stack' = 1 .. Len(stack) + 1
        /\ \A n \in 1 .. Len(stack) : stack'[n] = stack[n]
        /\ stack'[Len(stack) + 1] = frame
    BY <2>1, <2>4, <2>7
  <2>9. lines[At].indent = Top.indent /\ Shape(lines[At]) = Top.shape
    BY <2>1 DEF Takes
  <2>10. \A n \in 1 .. Len(stack) : stack[n].shape # "node"
    <3> SUFFICES ASSUME NEW n \in 1 .. Len(stack) PROVE stack[n].shape # "node"
      OBVIOUS
    <3>1. n = Len(stack) \/ n \in 1 .. Len(stack) - 1
      BY <2>4
    <3>2. QED
      BY <2>1, <2>4, <3>1, OuterBegun DEF Placed, Takes
  <2>11. \A n \in 2 .. Len(stack') : Nests(n)'
    <3> SUFFICES ASSUME NEW n \in 2 .. Len(stack') PROVE Nests(n)'
      OBVIOUS
    <3>1. CASE n \in 2 .. Len(stack)
      <4>1. Nests(n)
        BY <3>1 DEF Placed
      <4>2. n \in 1 .. Len(stack) /\ n - 1 \in 1 .. Len(stack)
        BY <2>4, <3>1
      <4>3. stack'[n] = stack[n] /\ stack'[n - 1] = stack[n - 1] /\ stack[n].shape # "node"
        BY <2>8, <2>10, <4>2
      <4>4. QED
        BY <2>1, <2>2, <4>1, <4>3 DEF Nests
    <3>2. CASE n = Len(stack) + 1
      <4>1. n - 1 = Len(stack) /\ stack'[n] = frame /\ stack'[n - 1] = Top
        BY <2>4, <2>8, <3>2
      <4>2. \A k \in DOMAIN lines : ~(At < k /\ k < At + 1)
        BY <2>3
      <4>3. QED
        BY <2>1, <2>2, <2>5, <2>6, <2>9, <4>1, <4>2 DEF Nests
    <3>3. QED
      BY <2>4, <2>8, <3>1, <3>2
  <2>12. ASSUME Filled PROVE Deepens'
    <3>1. /\ lines[At].indent <= frame.indent
          /\ lines[At].dash => lines[At].indent < frame.indent
      <4>1. CASE next \in DOMAIN lines
        <5>1. Above(At, next)
          BY <2>1, <2>3, <2>5, <2>12, <4>1, FilledBelow
        <5>2. lines[At].indent \in Nat /\ lines[next].indent \in Nat
          BY <2>1, <2>3, <4>1, LinesTyped DEF Line
        <5>3. QED
          BY <2>6, <4>1, <5>1, <5>2 DEF Above
      <4>2. CASE next \notin DOMAIN lines
        BY <2>4, <2>6, <2>9, <4>2
      <4>3. QED
        BY <4>1, <4>2
    <3>2. frame.indent \in Nat
      BY <2>7 DEF Frames
    <3>3. ASSUME NEW n \in 1 .. Len(stack)
          PROVE  /\ stack[n].of < At /\ stack[n].indent <= frame.indent
                 /\ stack[n].shape = "list" => stack[n].indent < frame.indent
      <4>1. stack[n].of < At
        <5>1. CASE n = 1
          BY <2>1, <2>3, <5>1 DEF Calls
        <5>2. CASE n # 1
          <6>1. n \in 2 .. Len(stack)
            BY <2>4, <5>2
          <6>2. stack[n].of \in 1 .. i - 1
            BY <2>1, <6>1 DEF Calls
          <6>3. QED
            BY <2>3, <6>2
        <5>3. QED
          BY <5>1, <5>2
      <4>2. CASE n = Len(stack)
        BY <2>4, <2>9, <3>1, <3>2, <4>1, <4>2 DEF Shape
      <4>3. CASE n # Len(stack)
        <5> DEFINE L == Len(stack)
        <5>1. n \in 1 .. L /\ n # L /\ L \in Nat \ {0} /\ DOMAIN stack = 1 .. L
          BY <2>4, <3>3, <4>3
        <5> HIDE DEF L
        <5>1a. n < L /\ L \in DOMAIN stack /\ n \in DOMAIN stack
          BY <5>1
        <5> USE DEF L
        <5>2. /\ stack[n].indent <= Top.indent
              /\ stack[n].shape = "list" => stack[n].indent < Top.indent
          BY <2>4, <2>12, <5>1a DEF Placed, Deepens
        <5>3. QED
          BY <2>4, <2>9, <3>1, <3>2, <4>1, <5>1a, <5>2
      <4>4. QED
        BY <4>2, <4>3
    <3>4. \A n, m \in 1 .. Len(stack) : n < m =>
             /\ stack[n].of < stack[m].of /\ stack[n].indent <= stack[m].indent
             /\ stack[n].shape = "list" => stack[n].indent < stack[m].indent
             /\ stack[m].shape = "map" => stack[n].indent < stack[m].indent
      BY <2>4, <2>12 DEF Placed, Deepens
    <3>5. \A n, m \in 1 .. Len(stack) + 1 : n < m =>
             n \in 1 .. Len(stack) /\ (m \in 1 .. Len(stack) \/ m = Len(stack) + 1)
      <4>1. ASSUME NEW L \in Nat
            PROVE  \A n, m \in 1 .. L + 1 : n < m => n \in 1 .. L /\ (m \in 1 .. L \/ m = L + 1)
        OBVIOUS
      <4>2. QED
        BY <2>4, <4>1
    <3>6. QED
      BY <2>5, <2>8, <3>3, <3>4, <3>5 DEF Deepens
  <2>13. ASSUME Filled
         PROVE  Within' /\ \A l \in DOMAIN lines : l < i' /\ ~Blank(lines[l]) => owner'[l] = OwnerByIndent(l)
    <3>1. /\ \A n \in DOMAIN stack, k \in DOMAIN lines :
                stack[n].of < k /\ k < i' /\ ~Blank(lines[k]) =>
                    /\ lines[k].indent >= stack[n].indent
                    /\ lines[k].indent = stack[n].indent /\ stack[n].shape = "list" => lines[k].dash
          /\ \A l \in DOMAIN lines : l < i' /\ ~Blank(lines[l]) => owner'[l] = OwnerByIndent(l)
      BY <2>1, <2>13, TakenPlaced
    <3>2. \A k \in DOMAIN lines : ~(frame.of < k /\ k < i')
      BY <2>1, <2>3, <2>5
    <3>3. \A n \in DOMAIN stack' : n \in DOMAIN stack \/ n = Len(stack) + 1
      BY <2>4, <2>8
    <3>4. Within'
      BY <2>1, <2>4, <2>8, <3>1, <3>2, <3>3 DEF Within
    <3>5. QED
      BY <3>1, <3>4
  <2>14. QED
    BY <2>1, <2>2, <2>11, <2>12, <2>13 DEF Placed
<1>3. QED
  BY <1>1, <1>2

(* A call that begins looks at the first line below the one it is for. *)
LEMMA BeginsBelow ==
    ASSUME Parsing, Placed, Begin, Len(stack) # 1
    PROVE  /\ Len(stack) \in 2 .. Len(stack) /\ Top.of \in DOMAIN lines /\ IsOpen(lines[Top.of])
           /\ FirstBelow(Top.of) = At /\ lines[At].indent = Top.indent
           /\ lines[Top.of].indent = stack[Len(stack) - 1].indent
<1>1. TypeOK /\ Calls /\ stack # <<>> /\ ~AtEnd /\ Top.shape = "node"
  BY DEF Parsing, Begin, Reading, Calls
<1>2. /\ At \in DOMAIN lines /\ At \in i .. Len(lines) + 1 /\ i \in 1 .. Len(lines) + 1
      /\ Len(lines) \in Nat /\ DOMAIN lines = 1 .. Len(lines) /\ lines \in Seq(Line)
      /\ ~Blank(lines[At]) /\ \A l \in DOMAIN lines : l >= i /\ l < At => Blank(lines[l])
  BY <1>1, AtTyped, LinesTyped DEF TypeOK
<1>3. Len(stack) \in Nat \ {0} /\ Top = stack[Len(stack)]
  BY <1>1, StackTyped
<1>4. Len(stack) \in 2 .. Len(stack)
  <2>1. \A L \in Nat \ {0} : L # 1 => L \in 2 .. L
    OBVIOUS
  <2>2. QED
    BY <1>3, <2>1
<1>5. Top.of \in 1 .. i - 1 /\ IsOpen(lines[Top.of])
  BY <1>1, <1>3, <1>4 DEF Calls
<1>6. Nests(Len(stack))
  BY <1>4 DEF Placed
<1>7. \A k \in DOMAIN lines : Top.of < k /\ k < i => Blank(lines[k])
  BY <1>1, <1>3, <1>6 DEF Nests
<1>8. \A k \in DOMAIN lines : Top.of + 1 <= k /\ k < At => Blank(lines[k])
  <2> SUFFICES ASSUME NEW k \in DOMAIN lines, Top.of + 1 <= k, k < At PROVE Blank(lines[k])
    OBVIOUS
  <2>1. Top.of < k
    BY <1>2, <1>5
  <2>2. k < i \/ k >= i
    BY <1>2
  <2>3. QED
    BY <1>2, <1>7, <2>1, <2>2
<1>9. Top.of + 1 \in 1 .. Len(lines) + 1 /\ Top.of + 1 <= At /\ Top.of \in DOMAIN lines
  BY <1>2, <1>5
<1>10. FirstBelow(Top.of) = At
  BY <1>2, <1>8, <1>9, NextIs DEF FirstBelow
<1>11. lines[At].indent = Top.indent /\ lines[Top.of].indent = stack[Len(stack) - 1].indent
  BY <1>2, <1>3, <1>6, <1>10 DEF Nests
<1>12. QED
  BY <1>4, <1>5, <1>9, <1>10, <1>11

LEMMA PlacedBegin == ASSUME Parsing, Placed, Begin PROVE Placed'
<1>1. /\ TypeOK /\ Calls /\ stack # <<>> /\ ~AtEnd /\ Top.shape = "node"
      /\ stack' = [stack EXCEPT ![Len(stack)].shape = Shape(lines[At])]
      /\ i' = At /\ lines' = lines /\ owner' = owner
  BY DEF Parsing, Begin, Reading, Calls
<1>2. /\ At \in DOMAIN lines /\ At \in i .. Len(lines) + 1 /\ i \in 1 .. Len(lines) + 1
      /\ Len(lines) \in Nat /\ DOMAIN lines = 1 .. Len(lines) /\ lines \in Seq(Line)
      /\ \A l \in DOMAIN lines : l >= i /\ l < At => Blank(lines[l])
      /\ Shape(lines[At]) \in {"list", "map"}
  BY <1>1, AtTyped, LinesTyped DEF TypeOK
<1>3. /\ stack \in Seq(Frames) /\ Len(stack) \in Nat \ {0} /\ DOMAIN stack = 1 .. Len(stack)
      /\ Len(stack) \in DOMAIN stack /\ Top = stack[Len(stack)]
      /\ \A n \in DOMAIN stack : stack[n].indent \in Nat
  BY <1>1, StackTyped
<1>4. /\ DOMAIN stack' = DOMAIN stack /\ Len(stack') = Len(stack)
      /\ \A n \in DOMAIN stack :
            /\ stack'[n].of = stack[n].of /\ stack'[n].indent = stack[n].indent
            /\ stack'[n].shape = IF n = Len(stack) THEN Shape(lines[At]) ELSE stack[n].shape
  <2> DEFINE top == [Top EXCEPT !.shape = Shape(lines[At])]
  <2>1. Top \in Frames
    BY <1>1, TopTyped
  <2>2. top \in Frames
    BY <1>2, <2>1 DEF Frames
  <2>3. stack' = [stack EXCEPT ![Len(stack)] = top]
    BY <1>1, <1>3
  <2>4. top.of = Top.of /\ top.indent = Top.indent /\ top.shape = Shape(lines[At])
    BY <2>1 DEF Frames
  <2> HIDE DEF top
  <2>5. /\ stack' \in Seq(Frames) /\ Len(stack') = Len(stack)
        /\ \A n \in 1 .. Len(stack) : stack'[n] = IF n = Len(stack) THEN top ELSE stack[n]
    BY <1>3, <2>2, <2>3, ExceptSeq
  <2>6. DOMAIN stack' = 1 .. Len(stack')
    BY <2>5
  <2>7. QED
    BY <1>3, <2>4, <2>5, <2>6
<1>5. /\ \A s : FirstBelow(s)' = FirstBelow(s)
      /\ \A l : OwnerByIndent(l)' = OwnerByIndent(l)
      /\ (Filled' <=> Filled)
  BY <1>1, SameLines
<1>6. \A k \in DOMAIN lines : k < At /\ ~Blank(lines[k]) => k < i
  BY <1>2
<1>7. \A n \in 2 .. Len(stack') : Nests(n)'
  <2> SUFFICES ASSUME NEW n \in 2 .. Len(stack) PROVE Nests(n)'
    BY <1>4
  <2>1. Nests(n) /\ n \in DOMAIN stack /\ n - 1 \in DOMAIN stack /\ n - 1 # Len(stack)
    BY <1>3 DEF Placed
  <2>2. /\ stack'[n].of = stack[n].of /\ stack'[n].indent = stack[n].indent
        /\ stack'[n - 1].indent = stack[n - 1].indent /\ stack'[n - 1].shape = stack[n - 1].shape
    BY <1>4, <2>1
  <2>3. CASE n = Len(stack)
    <3>1. stack'[n].shape = Shape(lines[At])
      BY <1>4, <2>1, <2>3
    <3>2. FirstBelow(stack[n].of) = At
      BY <1>3, <2>3, BeginsBelow
    <3>3. QED
      BY <1>1, <1>2, <1>5, <2>1, <2>2, <3>1, <3>2 DEF Nests
  <2>4. CASE n # Len(stack)
    <3>1. stack'[n].shape = stack[n].shape
      BY <1>4, <2>1, <2>4
    <3>2. n \in 1 .. Len(stack) - 1
      <4>1. \A L \in Nat : n \in 2 .. L /\ n # L => n \in 1 .. L - 1
        OBVIOUS
      <4>2. QED
        BY <1>3, <2>4, <4>1
    <3>3. stack[n].shape # "node"
      BY <1>1, <3>2, OuterBegun DEF Placed
    <3>4. QED
      BY <1>1, <1>5, <2>1, <2>2, <3>1, <3>3 DEF Nests
  <2>5. QED
    BY <2>3, <2>4
<1>8. ASSUME Filled PROVE Deepens'
  <2>1. Deepens
    BY <1>8 DEF Placed
  <2>2. ASSUME NEW n \in DOMAIN stack, n < Len(stack), ~lines[At].dash
        PROVE  stack[n].indent < Top.indent
    <3>1. Len(stack) # 1
      BY <1>3, <2>2
    <3>2. /\ Top.of \in DOMAIN lines /\ IsOpen(lines[Top.of])
          /\ FirstBelow(Top.of) = At /\ lines[At].indent = Top.indent
          /\ lines[Top.of].indent = stack[Len(stack) - 1].indent
      BY <3>1, BeginsBelow
    <3>3. Above(Top.of, At)
      BY <1>2, <1>8, <3>2, FilledBelow
    <3>4. lines[Top.of].indent < lines[At].indent
      BY <2>2, <3>3 DEF Above
    <3>5. n = Len(stack) - 1 \/ (n < Len(stack) - 1 /\ Len(stack) - 1 \in DOMAIN stack)
      BY <1>3, <2>2
    <3>6. CASE n = Len(stack) - 1
      BY <3>2, <3>4, <3>6
    <3>7. CASE n < Len(stack) - 1 /\ Len(stack) - 1 \in DOMAIN stack
      <4>1. stack[n].indent <= stack[Len(stack) - 1].indent
        BY <2>1, <2>2, <3>7 DEF Deepens
      <4>2. stack[n].indent \in Nat /\ stack[Len(stack) - 1].indent \in Nat /\ Top.indent \in Nat
        BY <1>3, <2>2, <3>7
      <4>3. QED
        BY <3>2, <3>4, <4>1, <4>2
    <3>8. QED
      BY <3>5, <3>6, <3>7
  <2>3. SUFFICES ASSUME NEW n \in DOMAIN stack, NEW m \in DOMAIN stack, n < m
                 PROVE  /\ stack'[n].of < stack'[m].of /\ stack'[n].indent <= stack'[m].indent
                        /\ stack'[n].shape = "list" => stack'[n].indent < stack'[m].indent
                        /\ stack'[m].shape = "map" => stack'[n].indent < stack'[m].indent
    BY <1>4 DEF Deepens
  <2>4. n # Len(stack) /\ (m # Len(stack) \/ (m = Len(stack) /\ n < Len(stack)))
    BY <1>3, <2>3
  <2>5. stack'[n].shape = stack[n].shape
    BY <1>4, <2>3, <2>4
  <2>6. /\ stack[n].of < stack[m].of /\ stack[n].indent <= stack[m].indent
        /\ stack[n].shape = "list" => stack[n].indent < stack[m].indent
        /\ stack[m].shape = "map" => stack[n].indent < stack[m].indent
    BY <2>1, <2>3 DEF Deepens
  <2>7. stack'[m].shape = "map" => stack[n].indent < stack[m].indent
    <3>1. CASE m # Len(stack)
      BY <1>4, <2>3, <2>6, <3>1
    <3>2. CASE m = Len(stack)
      <4>1. stack'[m].shape = "map" => ~lines[At].dash
        BY <1>4, <2>3, <3>2 DEF Shape
      <4>2. n < Len(stack)
        BY <2>3, <3>2
      <4>3. QED
        BY <1>3, <2>2, <2>3, <3>2, <4>1, <4>2
    <3>3. QED
      BY <3>1, <3>2
  <2>8. QED
    BY <1>4, <2>3, <2>5, <2>6, <2>7
<1>9. ASSUME Filled PROVE Within'
  <2>1. Within
    BY <1>9 DEF Placed
  <2>2. SUFFICES ASSUME NEW n \in DOMAIN stack, NEW k \in DOMAIN lines,
                        stack[n].of < k, k < At, ~Blank(lines[k])
                 PROVE  /\ lines[k].indent >= stack[n].indent
                        /\ lines[k].indent = stack[n].indent /\ stack'[n].shape = "list" => lines[k].dash
    BY <1>1, <1>4 DEF Within
  <2>3. k < i
    BY <1>6, <2>2
  <2>4. n # Len(stack)
    <3> SUFFICES ASSUME n = Len(stack) PROVE FALSE
      OBVIOUS
    <3>1. CASE n = 1
      <4>1. i = 1
        BY <1>1, <1>3, <3>1 DEF Calls
      <4>2. QED
        BY <1>2, <2>3, <4>1
    <3>2. CASE n # 1
      <4>1. Nests(Len(stack))
        BY <1>3, <3>2, BeginsBelow DEF Placed
      <4>2. QED
        BY <1>1, <1>3, <2>2, <2>3, <4>1 DEF Nests
    <3>3. QED
      BY <3>1, <3>2
  <2>5. stack'[n].shape = stack[n].shape
    BY <1>4, <2>2, <2>4
  <2>6. QED
    BY <2>1, <2>2, <2>3, <2>5 DEF Within
<1>10. Filled => \A l \in DOMAIN lines : l < i' /\ ~Blank(lines[l]) => owner[l] = OwnerByIndent(l)
  BY <1>1, <1>6 DEF Placed
<1>11. QED
  BY <1>1, <1>5, <1>7, <1>8, <1>9, <1>10 DEF Placed

LEMMA PlacedStep == ASSUME Parsing, Placed, [Next]_vars PROVE Placed'
<1>1. CASE Malformed
  BY <1>1, PlacedSame DEF Malformed, Refuse
<1>2. CASE UNCHANGED vars
  BY <1>2, PlacedSame DEF vars
<1>3. QED
  BY <1>1, <1>2, PlacedBegin, PlacedReturn, PlacedTakeScalar, PlacedTakeOpen DEF Next

LEMMA ValuedInit == ASSUME Init PROVE Valued
<1>1. i = 1 /\ lines \in Seq(Line) /\ value = [l \in DOMAIN lines |-> None]
  BY YamlAssumption DEF Init
<1>2. \A l \in DOMAIN lines : ~(l < i) /\ value[l] = None
  BY <1>1
<1>3. QED
  BY <1>2 DEF Valued

(* Reading on over blank lines. *)
LEMMA ValuedOn ==
    ASSUME TypeOK, Valued, lines' = lines, value' = value, i' = At
    PROVE  Valued'
<1>1. /\ At \in i .. Len(lines) + 1 /\ i \in 1 .. Len(lines) + 1
      /\ Len(lines) \in Nat /\ DOMAIN lines = 1 .. Len(lines)
      /\ \A l \in DOMAIN lines : l >= i /\ l < At => Blank(lines[l])
  BY AtTyped, LinesTyped DEF TypeOK
<1>2. \A l \in DOMAIN lines : (l < At /\ ~Blank(lines[l]) => l < i) /\ (l >= At => l >= i)
  BY <1>1
<1>3. QED
  BY <1>2 DEF Valued

LEMMA ValuedTaken ==
    ASSUME Parsing, Valued, Takes, lines' = lines, i' = At + 1,
           lines[At].scalar # None => Kind(lines[At]) # "refused",
           \A l \in DOMAIN lines : value'[l] = IF l = At THEN Kind(lines[At]) ELSE value[l]
    PROVE  Valued'
<1>1. TypeOK /\ ~AtEnd
  BY DEF Parsing, Takes
<1>2. /\ At \in i .. Len(lines) + 1 /\ i \in 1 .. Len(lines) + 1 /\ At \in DOMAIN lines
      /\ Len(lines) \in Nat /\ DOMAIN lines = 1 .. Len(lines)
      /\ \A l \in DOMAIN lines : l >= i /\ l < At => Blank(lines[l])
  BY <1>1, AtTyped, LinesTyped DEF TypeOK
<1>3. \A l \in DOMAIN lines :
        /\ l < i' /\ ~Blank(lines[l]) => l < i \/ l = At
        /\ l >= i' => l >= i /\ l # At
        /\ l < i => l # At
  BY <1>2
<1>4. \A l \in DOMAIN lines : l < i' /\ ~Blank(lines[l]) =>
        value'[l] = Kind(lines[l]) /\ (lines[l].scalar # None => value'[l] # "refused")
  BY <1>3 DEF Valued
<1>5. \A l \in DOMAIN lines : l >= i' => value'[l] = None
  BY <1>3 DEF Valued
<1>6. QED
  BY <1>4, <1>5 DEF Valued

LEMMA ValuedStep == ASSUME Parsing, Valued, [Next]_vars PROVE Valued'
<1>1. TypeOK
  BY DEF Parsing
<1>2. CASE Begin \/ Return
  BY <1>1, <1>2, ValuedOn DEF Begin, Return
<1>3. CASE UNCHANGED <<lines, i, value>>
  BY <1>3 DEF Valued
<1>4. CASE Malformed
  BY <1>3, <1>4 DEF Malformed, Refuse
<1>5. ASSUME Takes PROVE At \in DOMAIN lines
  BY <1>1, <1>5, AtTyped DEF Takes
<1>6. CASE TakeScalar
  <2>1. CASE ParseScalar(lines[At].scalar) = "refused"
    BY <1>3, <1>6, <2>1 DEF TakeScalar, Refuse
  <2>2. CASE ParseScalar(lines[At].scalar) # "refused"
    <3>1. /\ Takes /\ lines' = lines /\ i' = At + 1 /\ lines[At].scalar # None
          /\ value' = [value EXCEPT ![At] = ParseScalar(lines[At].scalar)]
      BY <1>6, <2>2 DEF TakeScalar
    <3>2. Kind(lines[At]) = ParseScalar(lines[At].scalar)
      BY <3>1 DEF Kind
    <3>3. \A l \in DOMAIN lines : value'[l] = IF l = At THEN Kind(lines[At]) ELSE value[l]
      BY <1>1, <3>1, <3>2 DEF TypeOK
    <3>4. QED
      BY <2>2, <3>1, <3>2, <3>3, ValuedTaken
  <2>3. QED
    BY <2>1, <2>2
<1>7. CASE TakeOpen
  <2> DEFINE next == NextNonEmptyLine(At + 1)
  <2>1. CASE next \in DOMAIN lines /\ lines[next].tab
    BY <1>3, <1>7, <2>1 DEF TakeOpen, Refuse
  <2>2. CASE ~(next \in DOMAIN lines /\ lines[next].tab)
    <3>1. Takes /\ lines' = lines /\ i' = At + 1 /\ lines[At].scalar = None /\ value' = value
      BY <1>7, <2>2 DEF TakeOpen, IsOpen
    <3>2. Kind(lines[At]) = None
      BY <3>1 DEF Kind
    <3>3. value[At] = None
      <4>1. At >= i /\ At \in DOMAIN lines
        BY <1>1, <1>5, <3>1, AtTyped DEF TypeOK
      <4>2. QED
        BY <4>1 DEF Valued
    <3>4. \A l \in DOMAIN lines : value'[l] = IF l = At THEN Kind(lines[At]) ELSE value[l]
      BY <3>1, <3>2, <3>3
    <3>5. QED
      BY <3>1, <3>2, <3>4, ValuedTaken
  <2>3. QED
    BY <2>1, <2>2
<1>8. CASE UNCHANGED vars
  BY <1>3, <1>8 DEF vars
<1>9. QED
  BY <1>2, <1>4, <1>6, <1>7, <1>8 DEF Next

LEMMA PlacedInvariance == Spec => [](Parsing /\ Placed /\ Valued)
<1>1. Init => Parsing /\ Placed /\ Valued
  BY ParsingInit, PlacedInit, ValuedInit
<1>2. Parsing /\ Placed /\ Valued /\ [Next]_vars => (Parsing /\ Placed /\ Valued)'
  BY ParsingStep, PlacedStep, ValuedStep
<1>3. QED
  BY <1>1, <1>2, PTL DEF Spec

(* What parsePolicyYaml reads, it reads as it is indented, with the values  *)
(* its scalars have, if the text leaves no value empty.                     *)
THEOREM IndentedCorrect == Spec => []AsIndented
<1>1. Parsing /\ Placed /\ Valued => AsIndented
  <2> SUFFICES ASSUME Parsing, Placed, Valued, Filled, NEW l \in DOMAIN lines, l < i, ~Blank(lines[l])
               PROVE  /\ owner[l] = OwnerByIndent(l)
                      /\ value[l] = IF lines[l].scalar = None THEN None
                                    ELSE IF lines[l].scalar = "number" THEN "number"
                                    ELSE IF lines[l].scalar = "flow" THEN "list" ELSE "text"
    BY DEF AsIndented
  <2>1. owner[l] = OwnerByIndent(l)
    BY DEF Placed
  <2>2. value[l] = Kind(lines[l]) /\ (lines[l].scalar # None => value[l] # "refused")
    BY DEF Valued
  <2>3. QED
    BY <2>1, <2>2 DEF Kind, ParseScalar
<1>2. QED
  BY <1>1, PlacedInvariance, PTL

(* Of the lines an open call still has to read, the first one below the     *)
(* line it is for is a sibling: it has their indent, which is the call's,   *)
(* and their shape.                                                         *)
LEMMA FirstChild ==
    ASSUME Parsing, Placed, Sound, NEW n \in DOMAIN stack, NEW l \in DOMAIN lines, l >= i,
           ~Blank(lines[l]), OwnerByIndent(l) = stack[n].of, NEW c, c = FirstBelow(stack[n].of)
    PROVE  /\ At \in DOMAIN lines /\ At <= l /\ ~Blank(lines[At])
           /\ c \in DOMAIN lines /\ ~Blank(lines[c]) /\ stack[n].of < c /\ c <= At
           /\ lines[c].indent = stack[n].indent /\ stack[n].shape \in {"node", Shape(lines[c])}
           /\ lines[c].indent = lines[l].indent /\ lines[c].dash = lines[l].dash
<1> DEFINE o == stack[n].of
<1>1. TypeOK /\ Calls /\ Filled /\ stack # <<>>
  BY DEF Parsing, Sound
<1>2. /\ At \in i .. Len(lines) + 1 /\ i \in 1 .. Len(lines) + 1
      /\ Len(lines) \in Nat /\ DOMAIN lines = 1 .. Len(lines) /\ lines \in Seq(Line)
      /\ \A k \in DOMAIN lines : k >= i /\ k < At => Blank(lines[k])
      /\ ~AtEnd => At \in DOMAIN lines /\ ~Blank(lines[At])
  BY <1>1, AtTyped, LinesTyped DEF TypeOK
<1>3. At <= l
  BY <1>2
<1>4. At \in DOMAIN lines /\ ~Blank(lines[At])
  BY <1>2, <1>3 DEF AtEnd
<1>5. Len(stack) \in Nat \ {0} /\ DOMAIN stack = 1 .. Len(stack)
  BY <1>1, StackTyped
<1>6. o \in 0 .. i - 1 /\ (n = 1 => o = 0) /\ (n # 1 => n \in 2 .. Len(stack) /\ o # 0)
  <2>1. CASE n = 1
    <3>1. o = 0
      BY <1>1, <2>1 DEF Calls
    <3>2. QED
      BY <1>2, <2>1, <3>1
  <2>2. CASE n # 1
    <3>1. n \in 2 .. Len(stack)
      BY <1>5, <2>2
    <3>2. o \in 1 .. i - 1
      BY <1>1, <3>1 DEF Calls
    <3>3. QED
      BY <1>2, <2>2, <3>1, <3>2
  <2>3. QED
    BY <2>1, <2>2
<1>7. o + 1 \in 1 .. Len(lines) + 1 /\ c = NextNonEmptyLine(o + 1) /\ o + 1 <= At
  BY <1>2, <1>6 DEF FirstBelow
<1>8. /\ c \in o + 1 .. Len(lines) + 1
      /\ \A k \in DOMAIN lines : k >= o + 1 /\ k < c => Blank(lines[k])
      /\ c <= Len(lines) => c \in DOMAIN lines /\ ~Blank(lines[c])
  BY <1>2, <1>7, NextLine
<1>9. c <= At
  BY <1>2, <1>4, <1>7, <1>8
<1>10. c \in DOMAIN lines /\ ~Blank(lines[c]) /\ o < c
  BY <1>2, <1>4, <1>6, <1>8, <1>9
<1>11. OwnerByIndent(c) = o
  <2>1. CASE n = 1
    <3>1. \A k \in DOMAIN lines : ~Above(k, c)
      BY <1>2, <1>6, <1>8, <2>1 DEF Above
    <3>2. QED
      BY <1>2, <1>6, <1>10, <2>1, <3>1, OwnerIs
  <2>2. CASE n # 1
    <3>1. o \in DOMAIN lines
      BY <1>2, <1>6, <2>2
    <3>2. IsOpen(lines[o])
      BY <1>1, <1>6, <2>2 DEF Calls
    <3>3. QED
      BY <1>1, <1>2, <1>10, <3>1, <3>2, FilledBelow
  <2>3. QED
    BY <2>1, <2>2
<1>12. lines[c].indent = lines[l].indent /\ lines[c].dash = lines[l].dash
  <2>1. c \in 1 .. l
    BY <1>2, <1>3, <1>9, <1>10
  <2>2. QED
    BY <1>10, <1>11, <2>1 DEF Sound
<1>13. lines[c].indent = stack[n].indent /\ stack[n].shape \in {"node", Shape(lines[c])}
  <2>1. CASE n = 1
    <3>1. lines[c].indent = 0
      BY <1>6, <1>10, <1>11, <2>1 DEF Sound
    <3>2. c = NextNonEmptyLine(1)
      BY <1>6, <1>7, <2>1
    <3>3. QED
      BY <1>1, <2>1, <3>1, <3>2 DEF Calls
  <2>2. CASE n # 1
    <3>1. Nests(n)
      BY <1>6, <2>2 DEF Placed
    <3>2. QED
      BY <1>10, <3>1 DEF Nests
  <2>3. QED
    BY <2>1, <2>2
<1>14. QED
  BY <1>3, <1>4, <1>9, <1>10, <1>12, <1>13

(* The owner of the line the loop looks at is an open call's. *)
LEMMA AtPending ==
    ASSUME Parsing, Pending, At \in DOMAIN lines, ~Blank(lines[At])
    PROVE  \E n \in DOMAIN stack : stack[n].of = OwnerByIndent(At)
<1>1. /\ At \in i .. Len(lines) + 1 /\ i \in 1 .. Len(lines) + 1
      /\ Len(lines) \in Nat /\ DOMAIN lines = 1 .. Len(lines) /\ lines \in Seq(Line)
      /\ \A k \in DOMAIN lines : k >= i /\ k < At => Blank(lines[k])
  BY AtTyped, LinesTyped DEF TypeOK, Parsing
<1>2. At >= i
  BY <1>1
<1>3. ~(OwnerByIndent(At) >= i)
  <2> SUFFICES ASSUME OwnerByIndent(At) >= i PROVE FALSE
    OBVIOUS
  <2>1. OwnerByIndent(At) # 0
    BY <1>1
  <2>2. OwnerByIndent(At) \in DOMAIN lines /\ Above(OwnerByIndent(At), At)
    BY <1>1, <2>1, OwnerIs
  <2>3. QED
    BY <1>1, <2>2 DEF Above
<1>4. QED
  BY <1>2, <1>3 DEF Pending

(* The owner of a line still to be read that is still to be read, too, is   *)
(* not above the line the loop looks at.                                    *)
LEMMA OwnerAhead ==
    ASSUME Parsing, NEW l \in DOMAIN lines, OwnerByIndent(l) >= i
    PROVE  OwnerByIndent(l) >= At /\ OwnerByIndent(l) \in DOMAIN lines
<1>1. /\ At \in i .. Len(lines) + 1 /\ i \in 1 .. Len(lines) + 1
      /\ Len(lines) \in Nat /\ DOMAIN lines = 1 .. Len(lines) /\ lines \in Seq(Line)
      /\ \A k \in DOMAIN lines : k >= i /\ k < At => Blank(lines[k])
  BY AtTyped, LinesTyped DEF TypeOK, Parsing
<1>2. OwnerByIndent(l) # 0
  BY <1>1
<1>3. OwnerByIndent(l) \in DOMAIN lines /\ Above(OwnerByIndent(l), l)
  BY <1>1, <1>2, OwnerIs
<1>4. QED
  BY <1>1, <1>3 DEF Above

(* A call that returns has nothing left to read. *)
LEMMA ReturnsEmpty ==
    ASSUME Parsing, Placed, Sound, Pending, Return,
           NEW l \in DOMAIN lines, l >= i, ~Blank(lines[l])
    PROVE  OwnerByIndent(l) # Top.of
<1> SUFFICES ASSUME OwnerByIndent(l) = Top.of PROVE FALSE
  OBVIOUS
<1>1. /\ TypeOK /\ stack # <<>> /\ Deepens /\ Ends
  BY DEF Parsing, Return, Reading, Calls, Placed, Sound
<1>2. /\ Len(stack) \in Nat \ {0} /\ DOMAIN stack = 1 .. Len(stack) /\ Len(stack) \in DOMAIN stack
      /\ Top = stack[Len(stack)] /\ Top.of \in Nat
      /\ \A n \in DOMAIN stack : stack[n].of \in Nat
  BY <1>1, StackTyped
<1>3. /\ DOMAIN lines \subseteq Nat /\ lines \in Seq(Line)
      /\ \A k \in DOMAIN lines : lines[k].indent \in Nat /\ lines[k].dash \in BOOLEAN
  BY <1>1, LinesTyped DEF Line
<1> DEFINE c == FirstBelow(Top.of)
<1>4. /\ At \in DOMAIN lines /\ At <= l /\ ~Blank(lines[At])
      /\ c \in DOMAIN lines /\ ~Blank(lines[c]) /\ Top.of < c /\ c <= At
      /\ lines[c].indent = Top.indent /\ Top.shape \in {"node", Shape(lines[c])}
      /\ lines[c].indent = lines[l].indent /\ lines[c].dash = lines[l].dash
  BY <1>2, FirstChild
<1> HIDE DEF c
<1>5. Foreign(lines[At])
  <2>1. DOMAIN lines = 1 .. Len(lines) /\ Len(lines) \in Nat
    BY <1>1, LinesTyped
  <2>2. ~AtEnd
    BY <1>4, <2>1 DEF AtEnd
  <2>3. QED
    BY <1>1, <2>2 DEF Ends
<1>6. /\ lines[At].indent <= Top.indent
      /\ lines[At].indent = Top.indent => Top.shape # "node" /\ Shape(lines[At]) # Top.shape
  BY <1>3, <1>4, <1>5 DEF Foreign
<1>7. c # At /\ l # At
  BY <1>4, <1>6 DEF Shape
<1>8. c < At /\ At < l
  BY <1>3, <1>4, <1>7
<1>9. \A k \in DOMAIN lines : Above(k, l) => k <= Top.of
  <2>1. SUFFICES ASSUME NEW k \in DOMAIN lines, Above(k, l) PROVE k <= Top.of
    OBVIOUS
  <2>2. QED
    BY <1>3, <2>1, OwnerIs
<1>10. ~Above(At, l)
  BY <1>2, <1>3, <1>4, <1>9
<1>11. lines[At].indent = Top.indent
  BY <1>3, <1>4, <1>6, <1>8, <1>10 DEF Above
<1>12. lines[At].dash /\ ~lines[c].dash
  <2>1. Shape(lines[At]) # Shape(lines[c])
    BY <1>4, <1>6, <1>11
  <2>2. lines[At].dash # lines[c].dash
    BY <2>1 DEF Shape
  <2>3. ~(lines[l].dash /\ ~lines[At].dash)
    BY <1>4, <1>8, <1>10, <1>11 DEF Above
  <2>4. QED
    BY <1>3, <1>4, <2>2, <2>3
<1>13. Above(c, At)
  BY <1>4, <1>8, <1>11, <1>12 DEF Above
<1>14. OwnerByIndent(At) \in DOMAIN lines /\ c <= OwnerByIndent(At)
  BY <1>3, <1>4, <1>13, OwnerIs
<1>15. PICK n \in DOMAIN stack : stack[n].of = OwnerByIndent(At)
  BY <1>4, AtPending
<1>16. stack[n].of <= Top.of
  <2>1. n = Len(stack) \/ n < Len(stack)
    BY <1>2
  <2>2. QED
    BY <1>1, <1>2, <2>1 DEF Deepens
<1>17. QED
  BY <1>2, <1>3, <1>4, <1>14, <1>15, <1>16

LEMMA PendingReturn ==
    ASSUME Parsing, Placed, Sound, Pending, Return
    PROVE  Pending'
<1>1. /\ TypeOK /\ stack # <<>> /\ stack' = Front(stack) /\ i' = At /\ lines' = lines
  BY DEF Parsing, Return, Reading, Calls
<1>2. /\ Len(stack) \in Nat \ {0} /\ DOMAIN stack = 1 .. Len(stack)
      /\ stack' \in Seq(Frames) /\ Len(stack') = Len(stack) - 1
      /\ \A n \in 1 .. Len(stack) - 1 : stack'[n] = stack[n]
  BY <1>1, TopTyped
<1>3. DOMAIN stack' = 1 .. Len(stack')
  BY <1>2
<1>4. /\ At \in i .. Len(lines) + 1 /\ i \in 1 .. Len(lines) + 1
      /\ Len(lines) \in Nat /\ DOMAIN lines = 1 .. Len(lines)
  BY <1>1, AtTyped, LinesTyped DEF TypeOK
<1>5. \A l : OwnerByIndent(l)' = OwnerByIndent(l)
  BY <1>1, SameLines
<1>6. SUFFICES ASSUME NEW l \in DOMAIN lines, l >= At, ~Blank(lines[l])
               PROVE  OwnerByIndent(l) >= At \/ \E n \in DOMAIN stack' : stack'[n].of = OwnerByIndent(l)
  BY <1>1, <1>5 DEF Pending
<1>7. l >= i
  BY <1>4, <1>6
<1>8. CASE OwnerByIndent(l) >= i
  BY <1>8, OwnerAhead
<1>9. CASE \E n \in DOMAIN stack : stack[n].of = OwnerByIndent(l)
  <2>1. PICK n \in DOMAIN stack : stack[n].of = OwnerByIndent(l)
    BY <1>9
  <2>2. n # Len(stack)
    BY <1>6, <1>7, <2>1, ReturnsEmpty DEF Top
  <2>3. n \in 1 .. Len(stack) - 1
    BY <1>2, <2>1, <2>2
  <2>4. n \in DOMAIN stack' /\ stack'[n] = stack[n]
    BY <1>2, <1>3, <2>3
  <2>5. QED
    BY <2>1, <2>4
<1>10. QED
  BY <1>6, <1>7, <1>8, <1>9 DEF Pending

LEMMA PendingBegin ==
    ASSUME Parsing, Pending, Begin
    PROVE  Pending'
<1>1. /\ TypeOK /\ stack # <<>> /\ i' = At /\ lines' = lines
      /\ stack' = [stack EXCEPT ![Len(stack)].shape = Shape(lines[At])]
  BY DEF Parsing, Begin, Reading, Calls
<1>2. /\ At \in i .. Len(lines) + 1 /\ i \in 1 .. Len(lines) + 1
      /\ Len(lines) \in Nat /\ DOMAIN lines = 1 .. Len(lines)
  BY <1>1, AtTyped, LinesTyped DEF TypeOK
<1>3. \A l : OwnerByIndent(l)' = OwnerByIndent(l)
  BY <1>1, SameLines
<1>4. \A n \in DOMAIN stack : n \in DOMAIN stack' /\ stack'[n].of = stack[n].of
  <2>1. \A n \in DOMAIN stack : stack[n] \in Frames
    BY <1>1, TopTyped
  <2>2. QED
    BY <1>1, <2>1 DEF Frames
<1>5. SUFFICES ASSUME NEW l \in DOMAIN lines, l >= At, ~Blank(lines[l])
               PROVE  OwnerByIndent(l) >= At \/ \E n \in DOMAIN stack' : stack'[n].of = OwnerByIndent(l)
  BY <1>1, <1>3 DEF Pending
<1>6. l >= i
  BY <1>2, <1>5
<1>7. QED
  BY <1>4, <1>5, <1>6, OwnerAhead DEF Pending

LEMMA Grows ==
    ASSUME NEW S, NEW s \in Seq(S), NEW e
    PROVE  /\ Len(s) + 1 \in DOMAIN Append(s, e) /\ Append(s, e)[Len(s) + 1] = e
           /\ \A n \in DOMAIN s : n \in DOMAIN Append(s, e) /\ Append(s, e)[n] = s[n]
<1> DEFINE T == S \cup {e}
<1>1. s \in Seq(T) /\ e \in T
  OBVIOUS
<1> HIDE DEF T
<1>2. Len(s) \in Nat /\ DOMAIN s = 1 .. Len(s)
  BY <1>1
<1>3. Append(s, e) \in Seq(T) /\ Len(Append(s, e)) = Len(s) + 1
  BY <1>1
<1>4. DOMAIN Append(s, e) = 1 .. Len(s) + 1
  BY <1>3
<1>5. Append(s, e)[Len(s) + 1] = e /\ \A n \in 1 .. Len(s) : Append(s, e)[n] = s[n]
  BY <1>1
<1>6. QED
  BY <1>2, <1>4, <1>5

(* The line that is taken is no owner any more, or its call has been made.  *)
LEMMA PendingTaken ==
    ASSUME Parsing, Sound, Pending, Takes, lines' = lines, i' = At + 1,
           \/ stack' = stack /\ ~IsOpen(lines[At])
           \/ stack' = Append(stack, Frame(ChildIndent(At + 1, Top.indent), At))
    PROVE  Pending'
<1>1. /\ TypeOK /\ stack # <<>> /\ ~AtEnd
  BY DEF Parsing, Takes, Reading, Calls
<1>2. /\ At \in i .. Len(lines) + 1 /\ i \in 1 .. Len(lines) + 1
      /\ Len(lines) \in Nat /\ DOMAIN lines = 1 .. Len(lines) /\ At \in DOMAIN lines
  BY <1>1, AtTyped, LinesTyped DEF TypeOK
<1>3. \A l : OwnerByIndent(l)' = OwnerByIndent(l)
  BY <1>1, SameLines
<1>4. \A n \in DOMAIN stack : n \in DOMAIN stack' /\ stack'[n] = stack[n]
  <2>1. stack \in Seq(Frames) /\ Len(stack) \in Nat /\ DOMAIN stack = 1 .. Len(stack)
    BY <1>1, TopTyped
  <2>2. CASE stack' = Append(stack, Frame(ChildIndent(At + 1, Top.indent), At))
    BY <2>1, <2>2, Grows
  <2>3. QED
    BY <2>2
<1>5. SUFFICES ASSUME NEW l \in DOMAIN lines, l >= At + 1, ~Blank(lines[l])
               PROVE  OwnerByIndent(l) >= At + 1 \/ \E n \in DOMAIN stack' : stack'[n].of = OwnerByIndent(l)
  BY <1>1, <1>3 DEF Pending
<1>6. l >= i
  BY <1>2, <1>5
<1>7. CASE \E n \in DOMAIN stack : stack[n].of = OwnerByIndent(l)
  BY <1>4, <1>7
<1>8. CASE OwnerByIndent(l) >= i
  <2>1. OwnerByIndent(l) >= At /\ OwnerByIndent(l) \in DOMAIN lines
    BY <1>8, OwnerAhead
  <2>2. CASE OwnerByIndent(l) = At
    <3>1. IsOpen(lines[At])
      BY <1>2, <1>5, <2>2 DEF Sound
    <3>2. stack' = Append(stack, Frame(ChildIndent(At + 1, Top.indent), At))
      BY <3>1
    <3>3. Len(stack) + 1 \in DOMAIN stack' /\ stack'[Len(stack) + 1].of = At
      <4>1. stack \in Seq(Frames) /\ Len(stack) \in Nat
        BY <1>1, TopTyped
      <4>2. Frame(ChildIndent(At + 1, Top.indent), At).of = At
        BY DEF Frame
      <4>3. QED
        BY <3>2, <4>1, <4>2, Grows
    <3>4. QED
      BY <2>2, <3>3
  <2>3. CASE OwnerByIndent(l) # At
    BY <1>2, <2>1, <2>3
  <2>4. QED
    BY <2>2, <2>3
<1>9. QED
  BY <1>5, <1>6, <1>7, <1>8 DEF Pending

(* A sound text has no malformed line. *)
LEMMA NotMalformed ==
    ASSUME Parsing, Placed, Sound, Pending
    PROVE  ~Malformed
<1> SUFFICES ASSUME Malformed PROVE FALSE
  OBVIOUS
<1>1. /\ TypeOK /\ stack # <<>> /\ Deepens /\ ~AtEnd
  BY DEF Parsing, Malformed, Reading, Calls, Placed, Sound
<1>2. At \in DOMAIN lines /\ ~Blank(lines[At]) /\ At >= i
  BY <1>1, AtTyped DEF TypeOK
<1>3. ~lines[At].tab /\ (lines[At].dash \/ lines[At].key)
  BY <1>2 DEF Sound
<1>4. lines[At].indent > Top.indent
  BY <1>3 DEF Malformed
<1>5. PICK n \in DOMAIN stack : stack[n].of = OwnerByIndent(At)
  BY <1>2, AtPending
<1>6. lines[At].indent = stack[n].indent
  BY <1>2, <1>5, FirstChild
<1>7. /\ Len(stack) \in Nat \ {0} /\ DOMAIN stack = 1 .. Len(stack) /\ Len(stack) \in DOMAIN stack
      /\ Top = stack[Len(stack)] /\ Top.indent \in Nat
      /\ \A m \in DOMAIN stack : stack[m].indent \in Nat
  BY <1>1, StackTyped
<1>8. stack[n].indent <= Top.indent
  <2>1. n = Len(stack) \/ n < Len(stack)
    BY <1>7
  <2>2. QED
    BY <1>1, <1>7, <2>1 DEF Deepens
<1>9. QED
  BY <1>4, <1>6, <1>7, <1>8

LEMMA AcceptingInit == ASSUME Init PROVE Accepting
<1>1. i = 1 /\ stack = <<Frame(0, 0)>> /\ outcome = "reading" /\ lines \in Seq(Line)
  BY YamlAssumption DEF Init
<1>2. 1 \in DOMAIN stack /\ stack[1].of = 0
  BY <1>1 DEF Frame
<1>3. ASSUME NEW l \in DOMAIN lines PROVE OwnerByIndent(l) >= 1 \/ OwnerByIndent(l) = 0
  <2>1. OwnerByIndent(l) \in DOMAIN lines \/ OwnerByIndent(l) = 0
    BY <1>1, OwnerIs
  <2>2. QED
    BY <1>1, <2>1
<1>4. QED
  BY <1>1, <1>2, <1>3 DEF Accepting, Pending

LEMMA AcceptingStep ==
    ASSUME Parsing, Placed, Accepting, [Next]_vars
    PROVE  Accepting'
<1>1. CASE UNCHANGED vars
  <2>1. /\ lines' = lines /\ i' = i /\ stack' = stack /\ outcome' = outcome
    BY <1>1 DEF vars
  <2>2. (Sound' <=> Sound) /\ \A l : OwnerByIndent(l)' = OwnerByIndent(l)
    BY <2>1, SameLines
  <2>3. Pending' <=> Pending
    BY <2>1, <2>2 DEF Pending
  <2>4. QED
    BY <2>1, <2>2, <2>3 DEF Accepting
<1>2. CASE Next
  <2>1. lines' = lines
    BY <1>2 DEF Next, Begin, Return, Malformed, TakeScalar, TakeOpen, Refuse
  <2>2. SUFFICES ASSUME Sound PROVE outcome' # "refused" /\ Pending'
    BY <2>1, SameLines DEF Accepting
  <2>3. Pending /\ outcome # "refused"
    BY <2>2 DEF Accepting
  <2>4. CASE Begin
    BY <2>3, <2>4, PendingBegin DEF Begin
  <2>5. CASE Return
    BY <2>2, <2>3, <2>5, PendingReturn DEF Return
  <2>6. CASE Malformed
    BY <2>2, <2>3, <2>6, NotMalformed
  <2>7. ASSUME Takes PROVE At \in DOMAIN lines /\ ~Blank(lines[At])
    BY <2>7, AtTyped DEF Takes, Parsing
  <2>8. CASE TakeScalar
    <3>1. ParseScalar(lines[At].scalar) # "refused"
      BY <2>2, <2>7, <2>8 DEF TakeScalar, Sound, ParseScalar
    <3>2. /\ Takes /\ i' = At + 1 /\ stack' = stack /\ outcome' = outcome /\ lines[At].scalar # None
      BY <2>8, <3>1 DEF TakeScalar
    <3>3. QED
      BY <2>1, <2>2, <2>3, <3>2, PendingTaken DEF IsOpen
  <2>9. CASE TakeOpen
    <3> DEFINE next == NextNonEmptyLine(At + 1)
    <3>1. ~(next \in DOMAIN lines /\ lines[next].tab)
      <4>1. At + 1 \in 1 .. Len(lines) + 1 /\ lines \in Seq(Line) /\ Len(lines) \in Nat
            /\ DOMAIN lines = 1 .. Len(lines)
        BY <2>7, <2>9, LinesTyped DEF TakeOpen, Parsing
      <4>2. next \in DOMAIN lines => ~Blank(lines[next])
        BY <4>1, NextLine
      <4>3. QED
        BY <2>2, <4>2 DEF Sound
    <3>2. /\ Takes /\ i' = At + 1 /\ outcome' = outcome
          /\ stack' = Append(stack, Frame(ChildIndent(At + 1, Top.indent), At))
      BY <2>9, <3>1 DEF TakeOpen
    <3>3. QED
      BY <2>1, <2>2, <2>3, <3>2, PendingTaken
  <2>10. QED
    BY <1>2, <2>4, <2>5, <2>6, <2>8, <2>9 DEF Next
<1>3. QED
  BY <1>1, <1>2

(* A text that a reader of its indentation understands is never refused.    *)
THEOREM AcceptedCorrect == Spec => []Accepted
<1>1. Init => Parsing /\ Placed /\ Valued /\ Accepting
  BY ParsingInit, PlacedInit, ValuedInit, AcceptingInit
<1>2. Parsing /\ Placed /\ Valued /\ Accepting /\ [Next]_vars
        => (Parsing /\ Placed /\ Valued /\ Accepting)'
  BY ParsingStep, PlacedStep, ValuedStep, AcceptingStep
<1>3. Accepting => Accepted
  BY DEF Accepting, Accepted
<1>4. QED
  BY <1>1, <1>2, <1>3, PTL DEF Spec
=============================================================================
