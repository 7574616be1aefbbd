----------------------------- MODULE SecretScan -----------------------------
(***************************************************************************)
(* The scanner behind byte-mode redaction and sanitising: which byte runs  *)
(* of a text are secrets, which are provider error messages, and where a   *)
(* rolling buffer may be cut.                                              *)
(*                                                                         *)
(* Text is a sequence of symbols from the set Byte.  A replacement is a    *)
(* mask of the same length, so that a byte keeps its position from input   *)
(* to output: the code's placeholder is a fixed 10-byte word, and no       *)
(* decision of the guard depends on the length of a placeholder already    *)
(* written.  The pattern table is the one of rules/patterns.ts at a small  *)
(* scale: the `sk-' family (body held back while incomplete), the Bearer   *)
(* family (gap of blanks, then a token) and one family of fixed-prefix     *)
(* tokens standing for ghp_, github_pat_, eyJ and AKIA (prefix held back,  *)
(* body not).                                                              *)
(***************************************************************************)
EXTENDS Integers, Sequences, FiniteSetsExt

CONSTANTS
    Byte,            \* the symbols of a stream
    Mask,            \* the symbol a replaced byte becomes
    Blank,           \* the symbols \s matches
    Digit,           \* the symbols \d matches
    SecretBody,      \* the class [A-Za-z0-9_-]
    SkLiteral, BearerLiteral, TokenLiteral,
    SecretPrefixes,  \* SECRET_PREFIXES
    SkMin,           \* least length of the body of an sk- key (8)
    TokenMin,        \* least length of the body of a fixed-prefix token (20)
    MessageKey,      \* stands for the text "message":" that opens a message
    Quote            \* the quote that closes it

ASSUME ScanAssumption ==
    /\ Mask \in Byte /\ Mask \notin SecretBody \cup Blank \cup {MessageKey, Quote}
    /\ SkMin \in Nat /\ TokenMin \in Nat
    /\ MessageKey # Quote

(* What SECRET_PREFIXES and the patterns of rules/redact-scan.ts have in    *)
(* common: an sk- key is written in body symbols, its literal is one of the *)
(* prefixes and no other one starts inside it, Bearer starts like one, and  *)
(* the longest prefix, github_pat_, has the length of sk- and eight more.   *)
ASSUME LiteralAssumption ==
    /\ SkLiteral \in Seq(SecretBody) \ {<<>>} /\ BearerLiteral \in Seq(Byte) \ {<<>>}
    /\ TokenLiteral \in Seq(Byte)
    /\ SecretPrefixes \subseteq Seq(Byte) \ {<<>>}
    /\ SkLiteral \in SecretPrefixes
    /\ \A lit \in SecretPrefixes :
          /\ Len(lit) <= Len(SkLiteral) + SkMin
          /\ \A k \in 2..Len(SkLiteral) : SkLiteral[k] # lit[1]
    /\ \E lit \in SecretPrefixes : BearerLiteral[1] = lit[1]

-----------------------------------------------------------------------------
(* Patterns: a literal, a run of gap symbols (none when gap is empty), and  *)
(* the longest run of body symbols, which has at least min of them and one  *)
(* that is in need.                                                         *)

SkPattern ==
    [literal |-> SkLiteral, gap |-> {}, body |-> SecretBody, min |-> SkMin, need |-> Digit]

BearerPattern ==
    [literal |-> BearerLiteral, gap |-> Blank, body |-> Byte \ Blank, min |-> 1,
     need |-> Byte \ Blank]

TokenPattern ==
    [literal |-> TokenLiteral, gap |-> {}, body |-> SecretBody, min |-> TokenMin,
     need |-> SecretBody]

AllIn(t, i, j, S) == \A k \in i..j : t[k] \in S

LiteralAt(lit, t, i) ==
    /\ i + Len(lit) - 1 <= Len(t)
    /\ \A k \in 1..Len(lit) : t[i + k - 1] = lit[k]

(* The body of a match starts at b when the literal is at i. *)
BodyStart(p, t, i, b) ==
    LET g == i + Len(p.literal)
    IN  IF p.gap = {} THEN b = g
                      ELSE b > g /\ AllIn(t, g, b - 1, p.gap)

(* The text at i..j is a match of p. *)
MatchAt(p, t, i, j) ==
    /\ LiteralAt(p.literal, t, i)
    /\ \E b \in (i + Len(p.literal))..j :
          /\ BodyStart(p, t, i, b)
          /\ AllIn(t, b, j, p.body)
          /\ j - b + 1 >= p.min
          /\ \E k \in b..j : t[k] \in p.need
    /\ j < Len(t) => t[j + 1] \notin p.body

(* A global replace goes from left to right and a match starts only after   *)
(* the end of the match before it.                                          *)
Ends(p, t, i) == {j \in i..Len(t) : MatchAt(p, t, i, j)}

Replaced(p, t, k) ==
    LET taken[i \in 1..Len(t)] ==
            /\ Ends(p, t, i) # {}
            /\ \A h \in 1..(i - 1) : (\E j \in Ends(p, t, h) : j >= i) => ~taken[h]
    IN  \E i \in 1..k : (\E j \in Ends(p, t, i) : j >= k) /\ taken[i]

(* Fault: no default for the placeholder. *)
MaskedUndefined(p, t) == [k \in 1..Len(t) |-> IF Replaced(p, t, k) THEN "undefined" ELSE t[k]]

(* SubSeq changes nothing; it makes TLC compute the sequence only once. *)
Masked(p, t) ==
    SubSeq([k \in 1..Len(t) |-> IF Replaced(p, t, k) THEN Mask ELSE t[k]], 1, Len(t))

(* scanAndReplace: the patterns are applied one after the other. *)
Redact(t) == Masked(TokenPattern, Masked(BearerPattern, Masked(SkPattern, t)))

-----------------------------------------------------------------------------
(* Where the text ends with something that may become a secret. *)

Suffix(t, n) == SubSeq(t, Len(t) - n + 1, Len(t))

(* A proper prefix of one of SECRET_PREFIXES ends the text. *)
PartialPrefixes(t) ==
    {n \in 1..Len(t) : \E lit \in SecretPrefixes :
                          n < Len(lit) /\ Suffix(t, n) = SubSeq(lit, 1, n)}

Leftmost(S) == {i \in S : \A h \in S : i <= h}

(* The leftmost sk- run that reaches the end has fewer than SkMin symbols. *)
PartialSk(t) ==
    LET n == Len(t)
        runs == {i \in 1..n : /\ LiteralAt(SkLiteral, t, i)
                              /\ AllIn(t, i + Len(SkLiteral), n, SecretBody)}
    IN  {n - i + 1 : i \in {h \in Leftmost(runs) : n - h + 1 - Len(SkLiteral) < SkMin}}

(* Fault: a Bearer run is held whether or not a token has started. *)
PartialBearerAnyRun(t) ==
    LET n == Len(t)
    IN  {n - i + 1 : i \in {h \in 1..n : LiteralAt(BearerLiteral, t, h)}}

(* The leftmost Bearer that reaches the end has no token yet. *)
PartialBearer(t) ==
    LET n == Len(t)
        after(i) == i + Len(BearerLiteral)
        toEnd(i) == \/ after(i) = n + 1
                    \/ \E b \in after(i)..n : /\ AllIn(t, after(i), b, Blank)
                                              /\ AllIn(t, b + 1, n, Byte \ Blank)
        runs == {i \in 1..n : LiteralAt(BearerLiteral, t, i) /\ toEnd(i)}
    IN  {n - i + 1 : i \in {h \in Leftmost(runs) : AllIn(t, after(h), n, Blank)}}

(* Fault: only SECRET_PREFIXES are held. *)
HoldPrefixesOnly(t) == Max({0} \cup PartialPrefixes(t))

(* secretPrefixHoldLength *)
HoldLength(t) == Max({0} \cup PartialPrefixes(t) \cup PartialSk(t) \cup PartialBearer(t))

-----------------------------------------------------------------------------
(* Provider error messages. *)

FieldAt(t, i, j) ==
    /\ i < j /\ t[i] = MessageKey /\ t[j] = Quote
    /\ \A k \in (i + 1)..(j - 1) : t[k] \notin {MessageKey, Quote}

InField(t, k) == \E i \in 1..k, j \in k..Len(t) : FieldAt(t, i, j)

(* sanitizeText *)
Sanitize(t) == [k \in 1..Len(t) |-> IF InField(t, k) THEN Mask ELSE t[k]]

-----------------------------------------------------------------------------
(* What the properties say of texts.                                        *)

(* u is s, byte for byte and in order, except that some bytes are masked. *)
MaskOf(u, s) ==
    /\ Len(u) = Len(s)
    /\ \A i \in 1..Len(s) : u[i] \in {s[i], Mask}

(* A free-standing sk- key at i..j with a plain body: its first SkMin       *)
(* symbols confirm it and none of its symbols can open another secret.      *)
FreeKey(t, i, j) ==
    LET b == i + Len(SkLiteral)
    IN  /\ MatchAt(SkPattern, t, i, j)
        /\ i > 1 => t[i - 1] \notin SecretBody
        /\ \E k \in b..(b + SkMin - 1) : t[k] \in Digit
        /\ \A k \in b..j, lit \in SecretPrefixes : t[k] # lit[1]

(* A secret, or a provider message, is somewhere in the text. *)
HasSecret(t) ==
    \E p \in {SkPattern, BearerPattern, TokenPattern}, i, j \in DOMAIN t : MatchAt(p, t, i, j)
HasMessage(t) == \E i, j \in DOMAIN t : FieldAt(t, i, j)
=============================================================================
