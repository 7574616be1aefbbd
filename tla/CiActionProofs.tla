---------------------------- MODULE CiActionProofs ----------------------------
(***************************************************************************)
(* The walk over the manifests, the static audit, the diff, the scan of    *)
(* recorded streams and the gate of the CI action, for any checkout and    *)
(* any arguments; first what the scan of a file read as bytes must record  *)
(* and what it may record, for every text, pattern table and window.       *)
(***************************************************************************)
EXTENDS CiAction, PolicyDocumentProofs, SecretScanProofs, SequenceTheorems, FiniteSetTheorems

-----------------------------------------------------------------------------
(* Texts of bytes. *)

Patterns == {SkPattern, BearerPattern, TokenPattern}

LEMMA PatternLength == \A p \in Patterns : Len(p.literal) \in Nat /\ p.min \in Nat
<1>1. TokenLiteral \in Seq(Byte) /\ SkMin \in Nat /\ TokenMin \in Nat
  BY LiteralAssumption, ScanAssumption DEF LiteralAssumption, ScanAssumption
<1>2. /\ SkPattern.literal = SkLiteral /\ SkPattern.min = SkMin
      /\ BearerPattern.literal = BearerLiteral /\ BearerPattern.min = 1
      /\ TokenPattern.literal = TokenLiteral /\ TokenPattern.min = TokenMin
  BY DEF SkPattern, BearerPattern, TokenPattern
<1>3. QED
  BY <1>1, <1>2, Literals DEF Patterns

(* s is the text t from behind its first c bytes on, up to anywhere. *)
PartOf(s, t, c) == c + Len(s) <= Len(t) /\ \A k \in 1..Len(s) : s[k] = t[c + k]

LEMMA CutParts ==
    ASSUME NEW t \in Seq(Byte), NEW n \in 0..Len(t)
    PROVE  PartOf(Before(t, n), t, 0) /\ PartOf(After(t, n), t, n)
<1>1. Len(Before(t, n)) = n /\ Len(After(t, n)) = Len(t) - n /\ Len(t) \in Nat
  BY CutText
<1>2. \A k \in 1..n : Before(t, n)[k] = t[k]
  BY CutAt
<1>3. \A k \in 1..(Len(t) - n) : After(t, n)[k] = t[n + k]
  BY CutAt
<1>4. QED
  BY <1>1, <1>2, <1>3 DEF PartOf

LEMMA GapStart ==
    ASSUME NEW p, NEW t, NEW i, NEW b, p.gap # {},
           AllIn(t, i + Len(p.literal), b - 1, p.gap), b > i + Len(p.literal)
    PROVE  BodyStart(p, t, i, b)
  BY DEF BodyStart

-----------------------------------------------------------------------------
(* A match in a part of a text begins one in the text: its body is the      *)
(* longest run there.                                                       *)
LEMMA MatchMoved ==
    ASSUME NEW t \in Seq(Byte), NEW s \in Seq(Byte), NEW c \in Nat, PartOf(s, t, c),
           NEW p \in Patterns, NEW i \in 1..Len(s), NEW j \in i..Len(s), MatchAt(p, s, i, j)
    PROVE  \E n \in DOMAIN t : c + i \in DOMAIN t /\ MatchAt(p, t, c + i, n)
<1> DEFINE L == Len(p.literal)
<1>1. /\ L \in Nat /\ p.min \in Nat /\ Len(t) \in Nat /\ Len(s) \in Nat
      /\ c + Len(s) <= Len(t) /\ DOMAIN t = 1..Len(t)
  BY PatternLength DEF PartOf
<1>0. L = Len(p.literal)
  OBVIOUS
<1> HIDE DEF L
<1>2. ASSUME NEW k \in 1..Len(s) PROVE s[k] = t[c + k]
  BY DEF PartOf
<1>3. LiteralAt(p.literal, s, i)
  BY DEF MatchAt
<1>4. PICK b \in (i + L)..j : /\ BodyStart(p, s, i, b) /\ AllIn(s, b, j, p.body)
                              /\ j - b + 1 >= p.min /\ \E k \in b..j : s[k] \in p.need
  BY <1>0 DEF MatchAt
<1>5. b \in 1..Len(s) /\ b \in Nat
  BY <1>1, <1>4
<1>6. ASSUME NEW x \in Nat, NEW y \in Nat, x >= 1, y <= Len(s), NEW S, AllIn(s, x, y, S)
      PROVE  AllIn(t, c + x, c + y, S)
  <2>1. ASSUME NEW k \in (c + x)..(c + y) PROVE t[k] \in S
    <3>1. k - c \in x..y /\ k - c \in 1..Len(s) /\ c + (k - c) = k
      BY <1>1, <1>6
    <3>2. s[k - c] = t[k]
      BY <1>2, <3>1
    <3>3. QED
      BY <1>6, <3>1, <3>2 DEF AllIn
  <2>2. QED
    BY <2>1 DEF AllIn
<1> DEFINE T == {n \in (c + j)..Len(t) : AllIn(t, c + b, n, p.body)}
<1>7. PICK n \in T : \A m \in T : m <= n
  <2>1. AllIn(t, c + b, c + j, p.body)
    BY <1>1, <1>4, <1>5, <1>6, SMTT(30)
  <2>2. c + j \in (c + j)..Len(t)
    BY <1>1
  <2>3. T \in SUBSET (0..Len(t)) /\ T # {}
    BY <1>1, <2>1, <2>2
  <2>4. Max(T) \in T /\ \A m \in T : m <= Max(T)
    BY <1>1, <2>3, MaxNatural
  <2>5. QED
    BY <2>4
<1>8. n \in (c + j)..Len(t) /\ AllIn(t, c + b, n, p.body)
  OBVIOUS
<1>9. n < Len(t) => t[n + 1] \notin p.body
  <2>1. SUFFICES ASSUME n < Len(t), t[n + 1] \in p.body PROVE FALSE
    OBVIOUS
  <2>2. \A k \in (c + b)..(n + 1) : k \in (c + b)..n \/ k = n + 1
    BY <1>1, <1>5, <1>8
  <2>3. AllIn(t, c + b, n + 1, p.body)
    BY <1>8, <2>1, <2>2 DEF AllIn
  <2>4. n + 1 \in T
    BY <1>1, <1>8, <2>1, <2>3
  <2>5. QED
    BY <1>1, <1>7, <1>8, <2>4
<1> HIDE DEF T
<1>10. LiteralAt(p.literal, t, c + i)
  <2>1. i + L - 1 <= Len(s) /\ \A k \in 1..L : s[i + k - 1] = p.literal[k]
    BY <1>0, <1>3 DEF LiteralAt
  <2>2. ASSUME NEW k \in 1..L PROVE t[c + i + k - 1] = p.literal[k]
    <3>1. i + k - 1 \in 1..Len(s) /\ c + (i + k - 1) = c + i + k - 1
      BY <1>1, <2>1, SMTT(30)
    <3>2. QED
      BY <1>2, <2>1, <3>1
  <2>3. c + i + L - 1 <= Len(t)
    BY <1>1, <2>1
  <2>4. QED
    BY <1>0, <2>2, <2>3 DEF LiteralAt
<1>11. BodyStart(p, t, c + i, c + b)
  <2>1. CASE p.gap = {}
    <3>1. b = i + L
      BY <1>0, <1>4, <2>1 DEF BodyStart
    <3>2. c + b = c + i + L
      BY <1>1, <3>1
    <3>3. QED
      BY <1>0, <2>1, <3>2 DEF BodyStart
  <2>2. CASE p.gap # {}
    <3>1. b > i + L /\ AllIn(s, i + L, b - 1, p.gap)
      BY <1>0, <1>4, <2>2 DEF BodyStart
    <3>2. AllIn(t, c + (i + L), c + (b - 1), p.gap)
      <4>1. i + L \in Nat /\ i + L >= 1 /\ b - 1 \in Nat /\ b - 1 <= Len(s)
        BY <1>1, <1>5
      <4>2. QED
        BY <1>6, <3>1, <4>1
    <3>3. c + (i + L) = c + i + L /\ c + (b - 1) = (c + b) - 1 /\ c + b > c + i + L
      BY <1>1, <1>5, <3>1
    <3>4. AllIn(t, c + i + Len(p.literal), (c + b) - 1, p.gap) /\ c + b > c + i + Len(p.literal)
      BY <1>0, <3>2, <3>3, Zenon
    <3>5. QED
      BY <2>2, <3>4, GapStart
  <2>3. QED
    BY <2>1, <2>2
<1>12. \E k \in (c + b)..n : t[k] \in p.need
  <2>1. PICK k \in b..j : s[k] \in p.need
    BY <1>4
  <2>2. k \in 1..Len(s) /\ c + k \in (c + b)..n
    BY <1>1, <1>5, <1>8
  <2>3. QED
    BY <1>2, <2>1, <2>2
<1>13. c + b \in (c + i + L)..n /\ n - (c + b) + 1 >= p.min
  BY <1>1, <1>4, <1>5, <1>8, SMTT(30)
<1>14. MatchAt(p, t, c + i, n)
  <2>2. \E d \in (c + i + Len(p.literal))..n :
            /\ BodyStart(p, t, c + i, d) /\ AllIn(t, d, n, p.body)
            /\ n - d + 1 >= p.min /\ \E k \in d..n : t[k] \in p.need
    BY <1>0, <1>8, <1>11, <1>12, <1>13, Zenon
  <2>3. QED
    BY <1>9, <1>10, <2>2 DEF MatchAt
<1>15. n \in DOMAIN t /\ c + i \in DOMAIN t
  BY <1>1, <1>8
<1>16. QED
  BY <1>14, <1>15
-----------------------------------------------------------------------------
(* What redaction changes has a secret in it, and a secret in a text        *)
(* without masks is masked.                                                 *)
LEMMA MaskedAt ==
    ASSUME NEW p, NEW t \in Seq(Byte)
    PROVE  /\ Len(Masked(p, t)) = Len(t) /\ Masked(p, t) \in Seq(Byte)
           /\ \A k \in 1..Len(t) : Masked(p, t)[k] = IF Replaced(p, t, k) THEN Mask ELSE t[k]
<1> DEFINE M == [n \in 1..Len(t) |-> IF Replaced(p, t, n) THEN Mask ELSE t[n]]
<1>1. Masked(p, t) = SubSeq(M, 1, Len(t))
  BY DEF Masked
<1>2. \A k \in 1..Len(t) : M[k] = IF Replaced(p, t, k) THEN Mask ELSE t[k]
  OBVIOUS
<1> HIDE DEF M
<1>3. \A k \in 1..Len(t) : SubSeq(M, 1, Len(t))[k] = M[k]
  OBVIOUS
<1>4. Len(Masked(p, t)) = Len(t) /\ Masked(p, t) \in Seq(Byte)
  BY MaskedMasks DEF MaskOf
<1>5. QED
  BY <1>1, <1>2, <1>3, <1>4

Matched(p, t) == \E i, j \in DOMAIN t : MatchAt(p, t, i, j)

LEMMA MatchEnds ==
    ASSUME NEW p \in Patterns, NEW t \in Seq(Byte)
    PROVE  Matched(p, t) <=> \E i \in 1..Len(t) : Ends(p, t, i) # {}
<1>1. Len(p.literal) \in Nat /\ DOMAIN t = 1..Len(t) /\ Len(t) \in Nat
  BY PatternLength
<1>2. ASSUME NEW i \in 1..Len(t), NEW j \in 1..Len(t), MatchAt(p, t, i, j)
      PROVE  j \in Ends(p, t, i)
  <2>1. \E b \in (i + Len(p.literal))..j : TRUE
    BY <1>2 DEF MatchAt
  <2>2. j \in i..Len(t)
    BY <1>1, <2>1
  <2>3. QED
    BY <1>2, <2>2 DEF Ends
<1>3. ASSUME NEW i \in 1..Len(t), NEW j \in Ends(p, t, i)
      PROVE  j \in DOMAIN t /\ MatchAt(p, t, i, j)
  BY <1>1 DEF Ends
<1>4. QED
  BY <1>1, <1>2, <1>3, Zenon DEF Matched

LEMMA UnmatchedSame ==
    ASSUME NEW p \in Patterns, NEW t \in Seq(Byte), ~Matched(p, t)
    PROVE  Masked(p, t) = t
<1>1. \A i \in 1..Len(t) : Ends(p, t, i) = {}
  BY MatchEnds
<1>2. \A k \in 1..Len(t) : ~Replaced(p, t, k)
  <2>1. ASSUME NEW k \in 1..Len(t), Replaced(p, t, k) PROVE FALSE
    <3>1. PICK i \in 1..k : \E j \in Ends(p, t, i) : j >= k
      BY <2>1 DEF Replaced
    <3>2. i \in 1..Len(t)
      OBVIOUS
    <3>3. QED
      BY <1>1, <3>1, <3>2
  <2>2. QED
    BY <2>1
<1>3. \A k \in 1..Len(t) : Masked(p, t)[k] = t[k]
  BY <1>2, MaskedAt
<1>4. Masked(p, t) \in Seq(Byte) /\ Len(Masked(p, t)) = Len(t)
  BY MaskedAt
<1>5. QED
  BY <1>3, <1>4, SeqEqual

LEMMA MatchedMarks ==
    ASSUME NEW p \in Patterns, NEW t \in Seq(Byte), Matched(p, t)
    PROVE  Marked(Masked(p, t))
<1> DEFINE S == {i \in 1..Len(t) : Ends(p, t, i) # {}}
<1>1. S \subseteq Nat /\ S # {}
  BY MatchEnds
<1>2. PICK i \in S : \A h \in S : i <= h
  BY <1>1, LeastNatural
<1>3. i \in 1..Len(t) /\ Ends(p, t, i) # {} /\ \A h \in 1..(i - 1) : Ends(p, t, h) = {}
  <2>1. ASSUME NEW h \in 1..(i - 1), Ends(p, t, h) # {} PROVE FALSE
    <3>1. h \in S /\ h < i
      BY <2>1
    <3>2. i <= h
      BY <1>2, <3>1
    <3>3. QED
      BY <3>1, <3>2
  <2>2. QED
    BY <2>1
<1> HIDE DEF S
<1>4. PICK j \in Ends(p, t, i) : TRUE
  BY <1>3
<1>5. i \in i..j /\ Len(t) \in Nat
  BY <1>3 DEF Ends
<1>6. Replaced(p, t, i)
  BY <1>3, <1>4, <1>5, FreeReplaced
<1>7. Masked(p, t)[i] = Mask /\ i \in DOMAIN Masked(p, t)
  BY <1>3, <1>6, MaskedAt
<1>8. QED
  BY <1>7 DEF Marked

LEMMA HasSecretIs ==
    ASSUME NEW t PROVE HasSecret(t) <=> \E p \in Patterns : Matched(p, t)
  BY DEF HasSecret, Patterns, Matched

LEMMA RedactSecret ==
    ASSUME NEW t \in Seq(Byte)
    PROVE  /\ Redact(t) # t => HasSecret(t)
           /\ HasSecret(t) => Marked(Redact(t))
<1> DEFINE a == Masked(SkPattern, t)
           b == Masked(BearerPattern, a)
           c == Masked(TokenPattern, b)
<1>0. SkPattern \in Patterns /\ BearerPattern \in Patterns /\ TokenPattern \in Patterns
  BY DEF Patterns
<1>1. a \in Seq(Byte) /\ b \in Seq(Byte) /\ c \in Seq(Byte) /\ Redact(t) = c
  <2>1. a \in Seq(Byte)
    BY MaskedMasks
  <2>2. b \in Seq(Byte)
    BY <2>1, MaskedMasks
  <2>3. c \in Seq(Byte)
    BY <2>2, MaskedMasks
  <2>4. QED
    BY <2>1, <2>2, <2>3 DEF Redact
<1>2. Marked(a) => Marked(b)
  BY <1>1, MaskedMasks, MarkedMask
<1>3. Marked(b) => Marked(c)
  BY <1>1, MaskedMasks, MarkedMask
<1>4. IF Matched(SkPattern, t) THEN Marked(a) ELSE a = t
  BY <1>0, MatchedMarks, UnmatchedSame
<1>5. IF Matched(BearerPattern, a) THEN Marked(b) ELSE b = a
  BY <1>0, <1>1, MatchedMarks, UnmatchedSame
<1>6. IF Matched(TokenPattern, b) THEN Marked(c) ELSE c = b
  BY <1>0, <1>1, MatchedMarks, UnmatchedSame
<1> HIDE DEF a, b, c
<1>7. HasSecret(t) <=> Matched(SkPattern, t) \/ Matched(BearerPattern, t) \/ Matched(TokenPattern, t)
  BY HasSecretIs DEF Patterns
<1>8. CASE Matched(SkPattern, t)
  BY <1>1, <1>2, <1>3, <1>4, <1>7, <1>8
<1>9. CASE ~Matched(SkPattern, t) /\ Matched(BearerPattern, t)
  BY <1>1, <1>3, <1>4, <1>5, <1>7, <1>9
<1>10. CASE ~Matched(SkPattern, t) /\ ~Matched(BearerPattern, t)
  BY <1>1, <1>4, <1>5, <1>6, <1>7, <1>10
<1>11. QED
  BY <1>8, <1>9, <1>10

(* A secret in a part of a text is one in the text. *)
LEMMA SecretMoved ==
    ASSUME NEW t \in Seq(Byte), NEW s \in Seq(Byte), NEW c \in Nat, PartOf(s, t, c), HasSecret(s)
    PROVE  HasSecret(t)
<1>1. PICK p \in Patterns : Matched(p, s)
  BY HasSecretIs
<1>2. PICK i \in 1..Len(s) : Ends(p, s, i) # {}
  BY <1>1, MatchEnds
<1>3. PICK j \in i..Len(s) : MatchAt(p, s, i, j)
  BY <1>2 DEF Ends
<1>4. PICK n \in DOMAIN t : c + i \in DOMAIN t /\ MatchAt(p, t, c + i, n)
  BY <1>3, MatchMoved
<1>5. Matched(p, t)
  BY <1>4 DEF Matched
<1>6. QED
  BY <1>5, HasSecretIs

-----------------------------------------------------------------------------
(* Between a message key and a quote behind it there is a message.          *)
LEMMA FieldFound ==
    ASSUME NEW t \in Seq(Byte), NEW i \in DOMAIN t, NEW j \in DOMAIN t, i < j,
           t[i] = MessageKey, t[j] = Quote
    PROVE  HasMessage(t)
<1>1. DOMAIN t = 1..Len(t) /\ Len(t) \in Nat
  OBVIOUS
<1> DEFINE Q == {q \in (i + 1)..j : t[q] = Quote}
<1>2. PICK y \in Q : \A q \in Q : y <= q
  <2>1. Q \subseteq Nat /\ j \in Q
    BY <1>1
  <2>2. QED
    BY <2>1, LeastNatural
<1>3. y \in (i + 1)..j /\ t[y] = Quote /\ \A q \in (i + 1)..(y - 1) : t[q] # Quote
  <2>1. ASSUME NEW q \in (i + 1)..(y - 1), t[q] = Quote PROVE FALSE
    <3>1. q \in Q /\ q < y
      BY <1>1, <2>1
    <3>2. QED
      BY <1>1, <1>2, <3>1
  <2>2. QED
    BY <2>1
<1> DEFINE K == {q \in i..(y - 1) : t[q] = MessageKey}
<1>4. PICK x \in K : \A q \in K : q <= x
  <2>1. K \in SUBSET (0..Len(t)) /\ i \in K
    BY <1>1, <1>3
  <2>2. Max(K) \in K /\ \A q \in K : q <= Max(K)
    BY <1>1, <2>1, MaxNatural
  <2>3. QED
    BY <2>2
<1>5. x \in i..(y - 1) /\ t[x] = MessageKey /\ \A q \in (x + 1)..(y - 1) : t[q] # MessageKey
  <2>1. ASSUME NEW q \in (x + 1)..(y - 1), t[q] = MessageKey PROVE FALSE
    <3>1. q \in K /\ x < q
      BY <1>1, <1>4, <2>1
    <3>2. QED
      BY <1>1, <1>4, <3>1
  <2>2. QED
    BY <2>1
<1> HIDE DEF Q, K
<1>6. \A q \in (x + 1)..(y - 1) : q \in (i + 1)..(y - 1)
  BY <1>1, <1>3, <1>5
<1>7. x \in DOMAIN t /\ y \in DOMAIN t /\ x < y
  BY <1>1, <1>3, <1>5
<1>8. FieldAt(t, x, y)
  BY <1>3, <1>5, <1>6, <1>7 DEF FieldAt
<1>9. QED
  BY <1>7, <1>8 DEF HasMessage

(* What sanitising changes has a message in it; a message in a text without *)
(* masks is masked.                                                         *)
LEMMA SanitizeField ==
    ASSUME NEW t \in Seq(Byte)
    PROVE  /\ Sanitize(t) # t => \E i, j \in DOMAIN t : FieldAt(t, i, j)
           /\ \A i, j \in DOMAIN t : FieldAt(t, i, j) => Sanitize(t) # t
<1>1. DOMAIN t = 1..Len(t) /\ Len(t) \in Nat /\ MessageKey # Mask
  BY ScanAssumption DEF ScanAssumption
<1>2. ASSUME Sanitize(t) # t PROVE \E i, j \in DOMAIN t : FieldAt(t, i, j)
  <2>1. PICK k \in 1..Len(t) : Sanitize(t)[k] # t[k]
    <3>1. Sanitize(t) \in Seq(Byte) /\ Len(Sanitize(t)) = Len(t)
      BY SanitizeMasks DEF MaskOf
    <3>2. QED
      BY <1>2, <3>1, SeqEqual
  <2>2. InField(t, k)
    BY <2>1 DEF Sanitize
  <2>3. PICK i \in 1..k, j \in k..Len(t) : FieldAt(t, i, j)
    BY <2>2 DEF InField
  <2>4. i \in DOMAIN t /\ j \in DOMAIN t
    BY <1>1
  <2>5. QED
    BY <2>3, <2>4
<1>3. ASSUME NEW i \in DOMAIN t, NEW j \in DOMAIN t, FieldAt(t, i, j) PROVE Sanitize(t) # t
  <2>1. i \in 1..i /\ j \in i..Len(t) /\ t[i] = MessageKey
    BY <1>1, <1>3 DEF FieldAt
  <2>2. InField(t, i)
    BY <1>3, <2>1 DEF InField
  <2>3. Sanitize(t)[i] = Mask
    BY <1>1, <2>2 DEF Sanitize
  <2>4. QED
    BY <1>1, <2>1, <2>3
<1>4. QED
  BY <1>2, <1>3

(* A message left in a masked part of a text was one of the text.           *)
LEMMA MessageMoved ==
    ASSUME NEW t \in Seq(Byte), NEW s \in Seq(Byte), NEW c \in Nat,
           c + Len(s) <= Len(t), \A k \in 1..Len(s) : s[k] \in {t[c + k], Mask},
           Sanitize(s) # s
    PROVE  HasMessage(t)
<1>1. PICK i \in DOMAIN s, j \in DOMAIN s : FieldAt(s, i, j)
  BY SanitizeField
<1>2. i \in 1..Len(s) /\ j \in 1..Len(s) /\ i < j /\ s[i] = MessageKey /\ s[j] = Quote
  BY <1>1 DEF FieldAt
<1>3. Mask # MessageKey /\ Mask # Quote
  BY ScanAssumption DEF ScanAssumption
<1>4. t[c + i] = MessageKey /\ t[c + j] = Quote
  BY <1>2, <1>3
<1>5. c + i \in DOMAIN t /\ c + j \in DOMAIN t /\ c + i < c + j
  BY <1>2
<1>6. QED
  BY <1>4, <1>5, FieldFound

-----------------------------------------------------------------------------
(* ByteRules, stage by stage. *)
Raw(text, flags) ==
    Before(text, IF "redactSecrets" \in flags THEN RedactEnd(text) ELSE Len(text))
RawTail(text, flags) ==
    After(text, IF "redactSecrets" \in flags THEN RedactEnd(text) ELSE Len(text))
Mid(text, flags) ==
    IF "redactSecrets" \in flags THEN Redact(Raw(text, flags)) ELSE Raw(text, flags)
MidEnd(text, flags) ==
    IF "sanitizeErrors" \in flags THEN SanitizeEnd(Mid(text, flags)) ELSE Len(Mid(text, flags))
Ready(text, flags) == Before(Mid(text, flags), MidEnd(text, flags))
Held(text, flags) == After(Mid(text, flags), MidEnd(text, flags))

LEMMA FourJoined ==
    ASSUME NEW S, NEW A \in Seq(S), NEW B \in Seq(S), NEW C \in Seq(S), NEW D \in Seq(S)
    PROVE  A \o B \o C \o D # <<>> <=> A # <<>> \/ B # <<>> \/ C # <<>> \/ D # <<>>
<1>1. A \o B \in Seq(S) /\ Len(A \o B) = Len(A) + Len(B)
  OBVIOUS
<1>2. A \o B \o C \in Seq(S) /\ Len(A \o B \o C) = Len(A \o B) + Len(C)
  BY <1>1
<1>3. A \o B \o C \o D \in Seq(S) /\ Len(A \o B \o C \o D) = Len(A \o B \o C) + Len(D)
  BY <1>2
<1>4. \A s \in Seq(S) : s # <<>> <=> Len(s) # 0
  OBVIOUS
<1>5. A \o B \o C \o D # <<>> <=> Len(A) + Len(B) + Len(C) + Len(D) # 0
  BY <1>1, <1>2, <1>3, <1>4
<1>6. Len(A) \in Nat /\ Len(B) \in Nat /\ Len(C) \in Nat /\ Len(D) \in Nat
  OBVIOUS
<1>7. QED
  BY <1>4, <1>5, <1>6

LEMMA RecordedIf ==
    ASSUME NEW S, NEW x \in S
    PROVE  /\ RecordIf(TRUE, x) \in Seq(S) /\ RecordIf(TRUE, x) # <<>>
           /\ RecordIf(FALSE, x) = <<>> /\ RecordIf(FALSE, x) \in Seq(S)
  BY DEF RecordIf

LEMMA FourRecords ==
    ASSUME NEW a \in BOOLEAN, NEW b \in BOOLEAN, NEW c \in BOOLEAN, NEW d \in BOOLEAN,
           NEW S, NEW x \in S, NEW y \in S, NEW z \in S, NEW w \in S
    PROVE  RecordIf(a, x) \o RecordIf(b, y) \o RecordIf(c, z) \o RecordIf(d, w) # <<>>
           <=> a \/ b \/ c \/ d
<1>1. ASSUME NEW e \in BOOLEAN, NEW v \in S
      PROVE  RecordIf(e, v) \in Seq(S) /\ (RecordIf(e, v) # <<>> <=> e)
  <2>1. CASE e
    BY <2>1, RecordedIf
  <2>2. CASE ~e
    BY <2>2, RecordedIf
  <2>3. QED
    BY <2>1, <2>2
<1>2. /\ RecordIf(a, x) \in Seq(S) /\ (RecordIf(a, x) # <<>> <=> a)
      /\ RecordIf(b, y) \in Seq(S) /\ (RecordIf(b, y) # <<>> <=> b)
      /\ RecordIf(c, z) \in Seq(S) /\ (RecordIf(c, z) # <<>> <=> c)
      /\ RecordIf(d, w) \in Seq(S) /\ (RecordIf(d, w) # <<>> <=> d)
  BY <1>1, Zenon
<1>3. RecordIf(a, x) \o RecordIf(b, y) \o RecordIf(c, z) \o RecordIf(d, w) # <<>>
      <=> RecordIf(a, x) # <<>> \/ RecordIf(b, y) # <<>> \/ RecordIf(c, z) # <<>>
          \/ RecordIf(d, w) # <<>>
  <2> DEFINE A == RecordIf(a, x)
             B == RecordIf(b, y)
             C == RecordIf(c, z)
             D == RecordIf(d, w)
  <2>1. A \in Seq(S) /\ B \in Seq(S) /\ C \in Seq(S) /\ D \in Seq(S)
    BY <1>2, Zenon
  <2> HIDE DEF A, B, C, D
  <2>2. A \o B \o C \o D # <<>> <=> A # <<>> \/ B # <<>> \/ C # <<>> \/ D # <<>>
    BY <2>1, FourJoined
  <2>3. QED
    BY <2>2, Zenon DEF A, B, C, D
<1>4. QED
  BY <1>2, <1>3, Zenon

(* Byte mode records nothing but its two rules.                             *)
LEMMA ByteKeys ==
    ASSUME NEW text, NEW flags
    PROVE  ByteRules(text, flags) \in Seq(ByteFlags)
<1> DEFINE R(t) == IF "redactSecrets" \in flags THEN Redact(t) ELSE t
           S(t) == IF "sanitizeErrors" \in flags THEN Sanitize(t) ELSE t
           A == RecordIf(R(Raw(text, flags)) # Raw(text, flags), "redactSecrets")
           B == RecordIf(S(Ready(text, flags)) # Ready(text, flags), "sanitizeErrors")
           C == RecordIf(R(RawTail(text, flags)) # RawTail(text, flags), "redactSecrets")
           D == RecordIf(S(Held(text, flags)) # Held(text, flags), "sanitizeErrors")
<1>1. ByteRules(text, flags) = A \o B \o C \o D
  BY DEF ByteRules, Raw, RawTail, Ready, Held, Mid, MidEnd
<1>2. "redactSecrets" \in ByteFlags /\ "sanitizeErrors" \in ByteFlags
  BY DEF ByteFlags
<1>3. A \in Seq(ByteFlags) /\ B \in Seq(ByteFlags) /\ C \in Seq(ByteFlags) /\ D \in Seq(ByteFlags)
  <2> HIDE DEF R, S
  <2>1. QED
    BY <1>2 DEF RecordIf
<1> HIDE DEF A, B, C, D
<1>4. QED
  BY <1>1, <1>3

LEMMA ByteRulesIs ==
    ASSUME NEW text, NEW flags
    PROVE  ByteRules(text, flags) # <<>> <=>
              \/ /\ "redactSecrets" \in flags
                 /\ \/ Redact(Raw(text, flags)) # Raw(text, flags)
                    \/ Redact(RawTail(text, flags)) # RawTail(text, flags)
              \/ /\ "sanitizeErrors" \in flags
                 /\ \/ Sanitize(Ready(text, flags)) # Ready(text, flags)
                    \/ Sanitize(Held(text, flags)) # Held(text, flags)
<1> DEFINE R(t) == IF "redactSecrets" \in flags THEN Redact(t) ELSE t
           S(t) == IF "sanitizeErrors" \in flags THEN Sanitize(t) ELSE t
           raw == Raw(text, flags)
           tail == RawTail(text, flags)
           ready == Ready(text, flags)
           held == Held(text, flags)
<1>1. ByteRules(text, flags) =
            RecordIf(R(raw) # raw, "redactSecrets") \o RecordIf(S(ready) # ready, "sanitizeErrors")
            \o RecordIf(R(tail) # tail, "redactSecrets") \o RecordIf(S(held) # held, "sanitizeErrors")
  BY DEF ByteRules, Raw, RawTail, Ready, Held, Mid, MidEnd
<1> HIDE DEF raw, tail, ready, held
<1>2. ByteRules(text, flags) # <<>> <=>
            R(raw) # raw \/ S(ready) # ready \/ R(tail) # tail \/ S(held) # held
  <2> DEFINE a == R(raw) # raw
             b == S(ready) # ready
             c == R(tail) # tail
             d == S(held) # held
  <2>1. a \in BOOLEAN /\ b \in BOOLEAN /\ c \in BOOLEAN /\ d \in BOOLEAN
    OBVIOUS
  <2>2. ByteRules(text, flags) =
            RecordIf(a, "redactSecrets") \o RecordIf(b, "sanitizeErrors")
            \o RecordIf(c, "redactSecrets") \o RecordIf(d, "sanitizeErrors")
    BY <1>1, Zenon
  <2> HIDE DEF a, b, c, d
  <2>3. ByteRules(text, flags) # <<>> <=> a \/ b \/ c \/ d
    <3> DEFINE F == {"redactSecrets", "sanitizeErrors"}
    <3>1. "redactSecrets" \in F /\ "sanitizeErrors" \in F
      OBVIOUS
    <3> HIDE DEF F
    <3>2. RecordIf(a, "redactSecrets") \o RecordIf(b, "sanitizeErrors")
          \o RecordIf(c, "redactSecrets") \o RecordIf(d, "sanitizeErrors") # <<>>
          <=> a \/ b \/ c \/ d
      BY <2>1, <3>1, FourRecords
    <3>3. QED
      BY <2>2, <3>2, Zenon
  <2>4. QED
    BY <2>3, Zenon DEF a, b, c, d
<1>3. QED
  BY <1>2 DEF raw, tail, ready, held

(* The stages' texts: two parts of the text, two of what redaction makes.   *)
LEMMA StageTexts ==
    ASSUME NEW text \in Seq(Byte), NEW flags
    PROVE  \E cut \in 0..Len(text), mid \in Seq(Byte), end \in Nat :
              /\ end <= cut
              /\ cut = IF "redactSecrets" \in flags THEN RedactEnd(text) ELSE Len(text)
              /\ Raw(text, flags) = Before(text, cut) /\ RawTail(text, flags) = After(text, cut)
              /\ mid = IF "redactSecrets" \in flags THEN Redact(Before(text, cut))
                                                   ELSE Before(text, cut)
              /\ Len(mid) = cut /\ \A k \in 1..cut : mid[k] \in {text[k], Mask}
              /\ end = IF "sanitizeErrors" \in flags THEN SanitizeEnd(mid) ELSE cut
              /\ Ready(text, flags) = Before(mid, end) /\ Held(text, flags) = After(mid, end)
<1> DEFINE cut == IF "redactSecrets" \in flags THEN RedactEnd(text) ELSE Len(text)
           raw == Before(text, cut)
           mid == IF "redactSecrets" \in flags THEN Redact(raw) ELSE raw
           end == IF "sanitizeErrors" \in flags THEN SanitizeEnd(mid) ELSE Len(mid)
<1>1. cut \in 0..Len(text)
  BY RedactEndBound
<1>2. /\ Raw(text, flags) = raw /\ RawTail(text, flags) = After(text, cut)
      /\ Mid(text, flags) = mid /\ MidEnd(text, flags) = end
      /\ Ready(text, flags) = Before(mid, end) /\ Held(text, flags) = After(mid, end)
  BY DEF Raw, RawTail, Mid, MidEnd, Ready, Held
<1>3. cut = IF "redactSecrets" \in flags THEN RedactEnd(text) ELSE Len(text)
  OBVIOUS
<1> HIDE DEF cut
<1>4. raw \in Seq(Byte) /\ Len(raw) = cut /\ \A k \in 1..cut : raw[k] = text[k]
  BY <1>1, CutText, CutAt
<1>5. mid = IF "redactSecrets" \in flags THEN Redact(Before(text, cut)) ELSE Before(text, cut)
  OBVIOUS
<1> HIDE DEF raw
<1>6. mid \in Seq(Byte) /\ Len(mid) = cut /\ \A k \in 1..cut : mid[k] \in {text[k], Mask}
  <2>1. CASE "redactSecrets" \in flags
    BY <1>4, <2>1, RedactMasks DEF MaskOf
  <2>2. CASE "redactSecrets" \notin flags
    BY <1>4, <2>2
  <2>3. QED
    BY <2>1, <2>2
<1> HIDE DEF mid
<1>7. end \in 0..cut /\ end = IF "sanitizeErrors" \in flags THEN SanitizeEnd(mid) ELSE cut
  BY <1>1, <1>6, SanitizeEndBound
<1> HIDE DEF end
<1>8. QED
  BY <1>1, <1>2, <1>3, <1>5, <1>6, <1>7 DEF raw

(* A record of a scanned text stands for something that is in the text.     *)
LEMMA BytesSuspect ==
    ASSUME NEW text \in Seq(Byte), NEW flags, ByteRules(text, flags) # <<>>
    PROVE  \/ "redactSecrets" \in flags /\ HasSecret(text)
           \/ "sanitizeErrors" \in flags /\ HasMessage(text)
<1>1. PICK cut \in 0..Len(text), mid \in Seq(Byte), end \in Nat :
              /\ end <= cut
              /\ Raw(text, flags) = Before(text, cut) /\ RawTail(text, flags) = After(text, cut)
              /\ Len(mid) = cut /\ \A k \in 1..cut : mid[k] \in {text[k], Mask}
              /\ Ready(text, flags) = Before(mid, end) /\ Held(text, flags) = After(mid, end)
  BY StageTexts
<1>2. /\ Before(text, cut) \in Seq(Byte) /\ After(text, cut) \in Seq(Byte)
      /\ PartOf(Before(text, cut), text, 0) /\ PartOf(After(text, cut), text, cut)
  BY CutText, CutParts
<1>3. CASE "redactSecrets" \in flags /\ Redact(Raw(text, flags)) # Raw(text, flags)
  <2>1. HasSecret(Before(text, cut))
    BY <1>1, <1>2, <1>3, RedactSecret
  <2>2. HasSecret(text)
    BY <1>2, <2>1, SecretMoved
  <2>3. QED
    BY <1>3, <2>2
<1>4. CASE "redactSecrets" \in flags /\ Redact(RawTail(text, flags)) # RawTail(text, flags)
  <2>1. HasSecret(After(text, cut))
    BY <1>1, <1>2, <1>4, RedactSecret
  <2>2. HasSecret(text)
    BY <1>2, <2>1, SecretMoved
  <2>3. QED
    BY <1>4, <2>2
<1>5. end \in 0..Len(mid) /\ cut \in Nat /\ end \in Nat /\ Len(text) \in Nat
  BY <1>1
<1>6. CASE "sanitizeErrors" \in flags /\ Sanitize(Ready(text, flags)) # Ready(text, flags)
  <2>1. Before(mid, end) \in Seq(Byte) /\ Len(Before(mid, end)) = end
    BY <1>5, CutText
  <2>2. \A k \in 1..end : Before(mid, end)[k] = mid[k]
    BY <1>5, CutAt
  <2>3. \A k \in 1..Len(Before(mid, end)) : Before(mid, end)[k] \in {text[0 + k], Mask}
    BY <1>1, <1>5, <2>1, <2>2
  <2>5. 0 \in Nat /\ 0 + Len(Before(mid, end)) <= Len(text)
    BY <1>1, <1>5, <2>1
  <2>4. HasMessage(text)
    BY <1>1, <1>6, <2>1, <2>3, <2>5, MessageMoved
  <2>6. QED
    BY <1>6, <2>4
<1>7. CASE "sanitizeErrors" \in flags /\ Sanitize(Held(text, flags)) # Held(text, flags)
  <2>1. After(mid, end) \in Seq(Byte) /\ Len(After(mid, end)) = cut - end
    BY <1>1, <1>5, CutText
  <2>2. \A k \in 1..(cut - end) : After(mid, end)[k] = mid[end + k]
    BY <1>1, <1>5, CutAt
  <2>3. \A k \in 1..(cut - end) : After(mid, end)[k] \in {text[end + k], Mask}
    <3>1. \A k \in 1..(cut - end) : end + k \in 1..cut
      BY <1>5
    <3>2. QED
      BY <1>1, <2>2, <3>1
  <2>4. end + Len(After(mid, end)) <= Len(text)
    BY <1>5, <2>1
  <2>5. HasMessage(text)
    BY <1>1, <1>5, <1>7, <2>1, <2>3, <2>4, MessageMoved
  <2>6. QED
    BY <1>7, <2>5
<1>8. QED
  BY <1>3, <1>4, <1>6, <1>7, ByteRulesIs

-----------------------------------------------------------------------------
(* What cannot pass. *)
LEMMA Unmasked ==
    ASSUME NEW t \in Seq(Byte \ {Mask})
    PROVE  t \in Seq(Byte) /\ ~Marked(t) /\ \A k \in DOMAIN t : t[k] # Mask
  BY DEF Marked

(* A plain key: its head is on one side of the cut. *)
LEMMA KeyRecorded ==
    ASSUME NEW text \in Seq(Byte \ {Mask}), NEW flags, "redactSecrets" \in flags,
           NEW i \in DOMAIN text, NEW j \in DOMAIN text, FreeKey(text, i, j)
    PROVE  ByteRules(text, flags) # <<>>
<1>1. text \in Seq(Byte) /\ (\A k \in DOMAIN text : text[k] # Mask) /\ Lookback \in Nat
  BY Unmasked, StagesAssumption DEF StagesAssumption
<1>2. KeyHead(text, i)
  BY <1>1, FreeHead
<1>3. i \in 1..Len(text) /\ HeadEnd(i) \in i..Len(text) /\ Len(text) \in Nat /\ i \in Nat
  <2>1. i \in 1..Len(text) /\ Len(text) \in Nat
    BY <1>1
  <2>2. QED
    BY <1>1, <1>2, <2>1, HeadSymbols
<1> DEFINE cut == RedactEnd(text)
           safe == Len(text) - Lookback
<1>4. cut \in 0..Len(text) /\ cut \in Nat
  BY <1>1, RedactEndBound
<1>5. i > cut \/ HeadEnd(i) <= cut
  <2>1. CASE safe <= 0
    BY <1>1, <1>3, <2>1 DEF RedactEnd
  <2>2. CASE safe > 0
    <3>1. safe \in 0..Len(text)
      BY <1>1, <1>3, <2>2
    <3>2. cut = safe - HoldLength(Before(text, safe))
      BY <1>1, <1>3, <2>2 DEF RedactEnd
    <3> HIDE DEF safe, cut
    <3>3. Before(text, safe) \in Seq(Byte) /\ Len(Before(text, safe)) = safe
      BY <1>1, <3>1, CutText
    <3>4. \A k \in 1..safe : Before(text, safe)[k] = text[k]
      BY <1>1, <3>1, CutAt
    <3>5. QED
      BY <1>1, <1>2, <1>3, <3>1, <3>2, <3>3, <3>4, CutClear
  <2>3. QED
    BY <1>1, <1>3, <2>1, <2>2
<1>6. Raw(text, flags) = Before(text, cut) /\ RawTail(text, flags) = After(text, cut)
  BY DEF Raw, RawTail
<1> HIDE DEF cut, safe
<1>7. CASE HeadEnd(i) <= cut
  <2>1. Before(text, cut) \in Seq(Byte) /\ Len(Before(text, cut)) = cut
    BY <1>1, <1>4, CutText
  <2>2. \A k \in 1..cut : Before(text, cut)[k] = text[k]
    BY <1>1, <1>4, CutAt
  <2>3. KeyHead(Before(text, cut), i)
    <3>1. 0 \in 0..(i - 1) /\ HeadEnd(i) - 0 <= cut /\ i - 0 = i
      BY <1>3, <1>7
    <3>2. \A k \in 1..Len(Before(text, cut)) :
              0 + k \in 1..Len(text) => Before(text, cut)[k] = text[0 + k]
      BY <1>4, <2>1, <2>2
    <3>3. KeyHead(Before(text, cut), i - 0)
      BY <1>1, <1>2, <1>3, <2>1, <3>1, <3>2, HeadMoved
    <3>4. QED
      BY <3>1, <3>3
  <2>4. Redact(Before(text, cut))[i] = Mask
    <3>1. i \in i..HeadEnd(i)
      BY <1>3
    <3>2. QED
      BY <1>3, <2>1, <2>3, <3>1, HeadRedacted
  <2>5. Before(text, cut)[i] # Mask
    BY <1>1, <1>3, <1>4, <1>7, <2>2
  <2>6. QED
    BY <1>6, <2>4, <2>5, ByteRulesIs
<1>8. CASE i > cut
  <2>1. After(text, cut) \in Seq(Byte) /\ Len(After(text, cut)) = Len(text) - cut
    BY <1>1, <1>4, CutText
  <2>2. \A k \in 1..(Len(text) - cut) : After(text, cut)[k] = text[cut + k]
    BY <1>1, <1>4, CutAt
  <2>3. /\ KeyHead(After(text, cut), i - cut) /\ i - cut \in Nat
        /\ HeadEnd(i - cut) = HeadEnd(i) - cut
    <3>1. cut \in 0..(i - 1) /\ HeadEnd(i) - cut <= Len(After(text, cut))
      BY <1>3, <1>4, <1>8, <2>1
    <3>2. \A k \in 1..Len(After(text, cut)) : cut + k \in 1..Len(text) => After(text, cut)[k] = text[cut + k]
      BY <2>1, <2>2
    <3>3. QED
      BY <1>1, <1>2, <1>3, <2>1, <3>1, <3>2, HeadMoved
  <2>4. Redact(After(text, cut))[i - cut] = Mask
    <3>1. i - cut \in (i - cut)..HeadEnd(i - cut)
      BY <1>3, <1>4, <2>3
    <3>2. QED
      BY <2>1, <2>3, <3>1, HeadRedacted
  <2>5. After(text, cut)[i - cut] # Mask
    <3>1. i - cut \in 1..(Len(text) - cut) /\ cut + (i - cut) = i
      BY <1>3, <1>4, <1>8
    <3>2. QED
      BY <1>1, <2>2, <3>1
  <2>6. QED
    BY <1>6, <2>4, <2>5, ByteRulesIs
<1>9. QED
  BY <1>5, <1>7, <1>8

(* A secret in a text that is held whole until the end. *)
LEMMA ShortRecorded ==
    ASSUME NEW text \in Seq(Byte \ {Mask}), NEW flags, "redactSecrets" \in flags,
           HasSecret(text), Len(text) <= Lookback
    PROVE  ByteRules(text, flags) # <<>>
<1>1. text \in Seq(Byte) /\ ~Marked(text) /\ Lookback \in Nat /\ Len(text) \in Nat
  BY Unmasked, StagesAssumption DEF StagesAssumption
<1>2. RedactEnd(text) = 0
  BY <1>1 DEF RedactEnd
<1>3. RawTail(text, flags) = text
  BY <1>1, <1>2, AfterNothing DEF RawTail
<1>4. Redact(text) # text
  BY <1>1, RedactSecret
<1>5. QED
  BY <1>3, <1>4, ByteRulesIs

(* A message that is not divided, when nothing is redacted.                 *)
LEMMA MessageRecorded ==
    ASSUME NEW text \in Seq(Byte \ {Mask}), NEW flags,
           "sanitizeErrors" \in flags, "redactSecrets" \notin flags,
           NEW i \in DOMAIN text, NEW j \in DOMAIN text, FieldAt(text, i, j),
           Undivided(text, i, j)
    PROVE  ByteRules(text, flags) # <<>>
<1>1. text \in Seq(Byte) /\ Lookback \in Nat /\ MessageWindow \in Nat /\ Len(text) \in Nat
  BY Unmasked, StagesAssumption DEF StagesAssumption
<1>2. i \in 1..Len(text) /\ j \in 1..Len(text) /\ i < j
  BY <1>1 DEF FieldAt
<1> DEFINE safe == Len(text) - Lookback
           keys == {p \in 1..Len(text) : p > safe - MessageWindow /\ text[p] = MessageKey}
           end == SanitizeEnd(text)
<1>3. end \in 0..Len(text) /\ end \in Nat
  BY <1>1, SanitizeEndBound
<1>4. end < i \/ j <= end
  <2>1. CASE safe <= 0
    BY <1>1, <1>2, <2>1 DEF SanitizeEnd
  <2>2. CASE safe > 0 /\ end = safe
    <3>1. CASE safe \notin i..(j - 1)
      BY <1>1, <1>2, <2>2, <3>1
    <3>2. CASE /\ safe \in i..(j - 1) /\ i > 1 /\ i > safe - MessageWindow
               /\ \A k \in (i + 1)..Len(text) : text[k] # MessageKey
      <4>1. i \in keys /\ \A k \in keys : k <= i
        BY <1>1, <1>2, <3>2 DEF FieldAt
      <4>2. Max(keys) \in keys
        <5>1. keys \in SUBSET (0..Len(text))
          BY <1>1
        <5>2. QED
          BY <1>1, <4>1, <5>1, MaxNatural
      <4>3. Max(keys) = i
        <5>1. Max(keys) <= i /\ i <= Max(keys) /\ Max(keys) \in Nat
          <6>1. keys \in SUBSET (0..Len(text)) /\ keys # {}
            BY <1>1, <4>1
          <6> HIDE DEF keys
          <6>2. \A k \in keys : k <= Max(keys)
            BY <1>1, <6>1, MaxNatural
          <6>3. Max(keys) \in 0..Len(text)
            BY <4>2, <6>1
          <6>4. QED
            BY <1>1, <1>2, <4>1, <4>2, <6>2, <6>3
        <5>2. QED
          BY <1>2, <5>1
      <4>4. keys # {} /\ ~(Max(keys) = 1) /\ ~(Max(keys) > safe)
        BY <1>1, <1>2, <3>2, <4>1, <4>3
      <4>5. end = Max(keys) - 1
        BY <2>2, <4>4 DEF SanitizeEnd
      <4>6. QED
        BY <1>1, <1>2, <2>2, <3>2, <4>3, <4>5
    <3>3. QED
      BY <3>1, <3>2 DEF Undivided
  <2>3. CASE safe > 0 /\ end # safe
    <3>1. keys # {} /\ end = Max(keys) - 1
      BY <1>1, <2>3 DEF SanitizeEnd
    <3>2. Max(keys) \in keys
      <4>1. keys \in SUBSET (0..Len(text))
        BY <1>1
      <4>2. QED
        BY <1>1, <3>1, <4>1, MaxNatural
    <3>3. text[end + 1] = MessageKey /\ end + 1 \in 1..Len(text)
      BY <1>1, <3>1, <3>2
    <3>4. end + 1 # j /\ end + 1 \notin (i + 1)..(j - 1)
      BY <3>3, ScanAssumption DEF FieldAt, ScanAssumption
    <3> HIDE DEF end, keys
    <3>5. QED
      BY <1>2, <1>3, <3>4
  <2>4. QED
    BY <1>1, <2>1, <2>2, <2>3
<1>5. /\ Raw(text, flags) = text /\ Mid(text, flags) = text
      /\ Ready(text, flags) = Before(text, end) /\ Held(text, flags) = After(text, end)
  <2>1. Before(text, Len(text)) = text
    BY <1>1, SubSeqFull DEF Before
  <2>2. QED
    BY <2>1 DEF Raw, Mid, MidEnd, Ready, Held
<1> HIDE DEF end, safe, keys
<1>6. CASE j <= end
  <2>1. Before(text, end) \in Seq(Byte) /\ Len(Before(text, end)) = end
    BY <1>1, <1>3, CutText
  <2>2. \A k \in 1..end : Before(text, end)[k] = text[k]
    BY <1>1, <1>3, CutAt
  <2>3. i \in 1..end /\ j \in 1..end /\ \A k \in (i + 1)..(j - 1) : k \in 1..end
    BY <1>2, <1>3, <1>6
  <2>4. FieldAt(Before(text, end), i, j)
    BY <2>2, <2>3 DEF FieldAt
  <2>5. i \in DOMAIN Before(text, end) /\ j \in DOMAIN Before(text, end)
    BY <2>1, <2>3
  <2>6. QED
    BY <1>5, <2>1, <2>4, <2>5, SanitizeField, ByteRulesIs
<1>7. CASE end < i
  <2>1. After(text, end) \in Seq(Byte) /\ Len(After(text, end)) = Len(text) - end
    BY <1>1, <1>3, CutText
  <2>2. \A k \in 1..(Len(text) - end) : After(text, end)[k] = text[end + k]
    BY <1>1, <1>3, CutAt
  <2>3. /\ i - end \in 1..(Len(text) - end) /\ j - end \in 1..(Len(text) - end)
        /\ i - end < j - end /\ end + (i - end) = i /\ end + (j - end) = j
    BY <1>1, <1>2, <1>3, <1>7
  <2>4. ASSUME NEW k \in (i - end + 1)..(j - end - 1)
        PROVE  k \in 1..(Len(text) - end) /\ end + k \in (i + 1)..(j - 1)
    BY <1>1, <1>2, <1>3, <1>7
  <2>5. ASSUME NEW k \in (i - end + 1)..(j - end - 1)
        PROVE  After(text, end)[k] \notin {MessageKey, Quote}
    <3>1. After(text, end)[k] = text[end + k]
      BY <2>2, <2>4
    <3>2. QED
      BY <2>4, <3>1 DEF FieldAt
  <2>6. After(text, end)[i - end] = MessageKey /\ After(text, end)[j - end] = Quote
    <3>1. After(text, end)[i - end] = text[i] /\ After(text, end)[j - end] = text[j]
      BY <2>2, <2>3
    <3>2. QED
      BY <3>1 DEF FieldAt
  <2>7. FieldAt(After(text, end), i - end, j - end)
    BY <2>3, <2>5, <2>6 DEF FieldAt
  <2>8. i - end \in DOMAIN After(text, end) /\ j - end \in DOMAIN After(text, end)
    BY <2>1, <2>3
  <2>9. QED
    BY <1>5, <2>1, <2>7, <2>8, SanitizeField, ByteRulesIs
<1>8. QED
  BY <1>4, <1>6, <1>7

(* So what is evident in a text is recorded.                                *)
LEMMA BytesCertain ==
    ASSUME NEW text \in Seq(Byte \ {Mask}), NEW flags, Evident(text, flags)
    PROVE  ByteRules(text, flags) # <<>>
<1>1. CASE "redactSecrets" \in flags /\ HasSecret(text) /\ Len(text) <= Lookback
  BY <1>1, ShortRecorded
<1>2. CASE "redactSecrets" \in flags /\ \E i, j \in DOMAIN text : FreeKey(text, i, j)
  BY <1>2, KeyRecorded
<1>3. CASE /\ "sanitizeErrors" \in flags /\ "redactSecrets" \notin flags
           /\ \E i, j \in DOMAIN text : FieldAt(text, i, j) /\ Undivided(text, i, j)
  BY <1>3, MessageRecorded
<1>4. QED
  BY <1>1, <1>2, <1>3 DEF Evident

-----------------------------------------------------------------------------
(* Paths. *)

LEMMA EmptyPath == <<>> \in Path /\ Len(<<>>) = 0
  BY EmptySeq DEF Path

LEMMA SamePath ==
    ASSUME NEW s \in Path, NEW t \in Path, Len(s) = Len(t), \A k \in 1..Len(s) : s[k] = t[k]
    PROVE  s = t
  BY SeqEqual DEF Path

(* The first n names of a path. *)
LEMMA Cut ==
    ASSUME NEW f \in Path, NEW n \in 0..Len(f)
    PROVE  /\ SubSeq(f, 1, n) \in Path /\ Len(SubSeq(f, 1, n)) = n
           /\ \A k \in 1..n : SubSeq(f, 1, n)[k] = f[k]
<1>1. Len(f) \in Nat /\ \A k \in 1..Len(f) : f[k] \in PathNames
  BY ElementOfSeq DEF Path
<1>2. /\ SubSeq(f, 1, n) \in Seq(PathNames)
      /\ Len(SubSeq(f, 1, n)) = IF 1 <= n THEN n - 1 + 1 ELSE 0
      /\ \A k \in 1 .. n - 1 + 1 : SubSeq(f, 1, n)[k] = f[1 + k - 1]
  <2>1. 1 \in Int /\ n \in Int /\ \A k \in 1..n : f[k] \in PathNames
    BY <1>1
  <2>2. QED
    BY <2>1, SubSeqProperties
<1>3. QED
  BY <1>1, <1>2 DEF Path

LEMMA PrefixIff ==
    ASSUME NEW s \in Path, NEW t \in Path
    PROVE  IsPrefix(s, t) <=> Len(s) <= Len(t) /\ \A k \in 1..Len(s) : s[k] = t[k]
<1>1. Len(s) \in Nat /\ Len(t) \in Nat
  BY DEF Path
<1>2. CASE Len(s) <= Len(t)
  <2>1. Len(s) \in 0..Len(s) /\ Len(s) \in 0..Len(t)
    BY <1>1, <1>2
  <2>2. /\ SubSeq(s, 1, Len(s)) \in Path /\ Len(SubSeq(s, 1, Len(s))) = Len(s)
        /\ \A k \in 1..Len(s) : SubSeq(s, 1, Len(s))[k] = s[k]
    BY <2>1, Cut
  <2>3. /\ SubSeq(t, 1, Len(s)) \in Path /\ Len(SubSeq(t, 1, Len(s))) = Len(s)
        /\ \A k \in 1..Len(s) : SubSeq(t, 1, Len(s))[k] = t[k]
    BY <2>1, Cut
  <2>4. SubSeq(s, 1, Len(s)) = SubSeq(t, 1, Len(s)) <=> \A k \in 1..Len(s) : s[k] = t[k]
    BY <2>2, <2>3, SamePath
  <2>5. QED
    BY <1>2, <2>4 DEF IsPrefix
<1>3. QED
  BY <1>2 DEF IsPrefix

(* A path that is not the root: its directory and its name. *)
LEMMA Parts ==
    ASSUME NEW p \in Path, p # <<>>
    PROVE  /\ Len(p) \in Nat \ {0} /\ Last(p) = p[Len(p)]
           /\ Front(p) \in Path /\ Len(Front(p)) = Len(p) - 1
           /\ \A k \in 1 .. Len(p) - 1 : Front(p)[k] = p[k]
<1>1. Len(p) \in Nat \ {0}
  BY EmptySeq DEF Path
<1>2. Len(p) - 1 \in 0..Len(p)
  BY <1>1
<1>3. QED
  BY <1>1, <1>2, Cut DEF Front, Last

(* Prefixes of one path are prefixes of one another. *)
LEMMA PrefixTransitive ==
    ASSUME NEW r \in Path, NEW s \in Path, NEW t \in Path, IsPrefix(r, s), IsPrefix(s, t)
    PROVE  IsPrefix(r, t)
<1>1. Len(r) \in Nat /\ Len(s) \in Nat /\ Len(t) \in Nat
  BY DEF Path
<1>2. QED
  BY <1>1, PrefixIff

LEMMA PrefixesCompare ==
    ASSUME NEW r \in Path, NEW s \in Path, NEW t \in Path, IsPrefix(r, t), IsPrefix(s, t)
    PROVE  IsPrefix(r, s) \/ IsPrefix(s, r)
<1>1. Len(r) \in Nat /\ Len(s) \in Nat /\ Len(t) \in Nat
  BY DEF Path
<1>2. QED
  BY <1>1, PrefixIff

LEMMA CutPrefix ==
    ASSUME NEW f \in Path, NEW n \in 0..Len(f)
    PROVE  IsPrefix(SubSeq(f, 1, n), f)
<1> DEFINE g == SubSeq(f, 1, n)
<1>1. Len(f) \in Nat
  BY DEF Path
<1>2. g \in Path /\ Len(g) = n /\ \A k \in 1..n : g[k] = f[k]
  BY Cut
<1> HIDE DEF g
<1>3. IsPrefix(g, f)
  BY <1>1, <1>2, PrefixIff
<1>4. QED
  BY <1>3 DEF g

LEMMA CutFull == ASSUME NEW f \in Path PROVE SubSeq(f, 1, Len(f)) = f
  BY SubSeqFull DEF Path

LEMMA CutCut ==
    ASSUME NEW f \in Path, NEW n \in 0..Len(f), NEW m \in 0..n
    PROVE  SubSeq(SubSeq(f, 1, n), 1, m) = SubSeq(f, 1, m)
<1> DEFINE g == SubSeq(f, 1, n)
<1>1. Len(f) \in Nat /\ m \in 0..Len(f)
  BY DEF Path
<1>2. g \in Path /\ Len(g) = n /\ \A k \in 1..n : g[k] = f[k]
  BY Cut
<1> HIDE DEF g
<1>3. /\ SubSeq(g, 1, m) \in Path /\ Len(SubSeq(g, 1, m)) = m
      /\ \A k \in 1..m : SubSeq(g, 1, m)[k] = g[k]
  BY <1>2, Cut
<1>4. /\ SubSeq(f, 1, m) \in Path /\ Len(SubSeq(f, 1, m)) = m
      /\ \A k \in 1..m : SubSeq(f, 1, m)[k] = f[k]
  BY <1>1, Cut
<1>5. \A k \in 1..m : SubSeq(g, 1, m)[k] = SubSeq(f, 1, m)[k]
  BY <1>2, <1>3, <1>4
<1>6. QED
  BY <1>3, <1>4, <1>5, SamePath DEF g

-----------------------------------------------------------------------------
(* The walk. *)

(* A directory that the walk may read or find unreadable. *)
Reachable(d) ==
    /\ d \in Directories
    /\ \A n \in 1..Len(d) : d[n] \notin SkipDirs
    /\ \A n \in 0 .. Len(d) - 1 : SubSeq(d, 1, n) \notin job.unreadable

(* Every wanted file has been found, or is below a directory still to be    *)
(* read.                                                                    *)
Walked ==
    /\ job \in Jobs
    /\ at = "walking" =>
        /\ \A d \in todo : Reachable(d)
        /\ SoundInclude => found \subseteq Wanted
        /\ \A f \in Wanted : f \in found \/ \E n \in 0 .. Len(f) - 1 : SubSeq(f, 1, n) \in todo

LEMMA Tree ==
    ASSUME job \in Jobs
    PROVE  /\ DOMAIN job.files \subseteq Path \ {<<>>}
           /\ \A file, other \in DOMAIN job.files : IsPrefix(file, other) => file = other
           /\ job.include \subseteq Path /\ Exclude \subseteq Path
           /\ Directories \subseteq Path
           /\ \A d \in Directories : d = <<>> \/ \E f \in DOMAIN job.files :
                                                    \E n \in 1 .. Len(f) - 1 : d = SubSeq(f, 1, n)
<1>1. IsJob(job)
  BY WorkspaceAssumption
<1>2. DOMAIN job.files \subseteq Path \ {<<>>} /\ job.include \subseteq Path /\ job.exclude \subseteq Path
  BY <1>1 DEF IsJob
<1>3. <<"test", "fixtures", "policies", "invalid">> \in Path
  <2>1. /\ "test" \in PathNames /\ "fixtures" \in PathNames
        /\ "policies" \in PathNames /\ "invalid" \in PathNames
    BY FileWalkAssumption
  <2>2. QED
    BY <2>1 DEF Path
<1>4. \A d \in Directories : d = <<>> \/ \E f \in DOMAIN job.files :
                                            \E n \in 1 .. Len(f) - 1 : d = SubSeq(f, 1, n)
  BY DEF Directories
<1>5. \A f \in DOMAIN job.files : \A n \in 1 .. Len(f) - 1 : SubSeq(f, 1, n) \in Path
  <2> SUFFICES ASSUME NEW f \in DOMAIN job.files, NEW n \in 1 .. Len(f) - 1
               PROVE  SubSeq(f, 1, n) \in Path
    OBVIOUS
  <2>1. f \in Path /\ Len(f) \in Nat
    BY <1>2 DEF Path
  <2>2. QED
    BY <2>1, Cut
<1>6. Directories \subseteq Path
  BY ZenonT(30), <1>4, <1>5, EmptyPath
<1>7. Exclude \subseteq Path
  BY <1>2, <1>3 DEF Exclude
<1>8. \A file, other \in DOMAIN job.files : IsPrefix(file, other) => file = other
  BY <1>1 DEF IsJob
<1>9. QED
  BY <1>2, <1>4, <1>6, <1>7, <1>8

(* What is read in a directory is one name longer. *)
LEMMA EntryParts ==
    ASSUME job \in Jobs, NEW d, NEW p \in Entries(d)
    PROVE  /\ p \in Path /\ p # <<>> /\ Front(p) = d /\ d \notin job.unreadable
           /\ p \in Directories \cup DOMAIN job.files
           /\ Len(p) \in Nat \ {0} /\ Last(p) = p[Len(p)] /\ Len(d) = Len(p) - 1
           /\ \A k \in 1 .. Len(p) - 1 : d[k] = p[k]
           /\ \A n \in 0 .. Len(p) - 1 : SubSeq(p, 1, n) = SubSeq(d, 1, n)
<1>1. /\ d \notin job.unreadable /\ Front(p) = d
      /\ p \in (Directories \ {<<>>}) \cup DOMAIN job.files
  BY DEF Entries
<1>2. p \in Path /\ p # <<>>
  BY <1>1, Tree
<1>3. /\ Len(p) \in Nat \ {0} /\ Last(p) = p[Len(p)] /\ Len(d) = Len(p) - 1 /\ d \in Path
      /\ \A k \in 1 .. Len(p) - 1 : d[k] = p[k]
  BY <1>1, <1>2, Parts
<1>4. \A n \in 0 .. Len(p) - 1 : SubSeq(p, 1, n) = SubSeq(d, 1, n)
  <2> SUFFICES ASSUME NEW n \in 0 .. Len(p) - 1 PROVE SubSeq(p, 1, n) = SubSeq(d, 1, n)
    OBVIOUS
  <2>1. d = SubSeq(p, 1, Len(p) - 1) /\ Len(p) - 1 \in 0..Len(p) /\ n \in 0 .. Len(p) - 1
    BY <1>1, <1>3 DEF Front
  <2>2. QED
    BY <1>2, <2>1, CutCut
<1>5. QED
  BY <1>1, <1>2, <1>3, <1>4

(* Every directory above an entry has been read. *)
LEMMA ReadableAbove ==
    ASSUME job \in Jobs, NEW d, Reachable(d), NEW p \in Entries(d)
    PROVE  \A n \in 0 .. Len(p) - 1 : SubSeq(p, 1, n) \notin job.unreadable
<1>1. Len(p) \in Nat \ {0} /\ Len(d) = Len(p) - 1
  BY EntryParts
<1> SUFFICES ASSUME NEW n \in 0 .. Len(p) - 1 PROVE SubSeq(p, 1, n) \notin job.unreadable
  OBVIOUS
<1>2. SubSeq(p, 1, n) = SubSeq(d, 1, n)
  BY EntryParts
<1>3. CASE n = Len(d)
  <2>1. d \in Path
    BY Tree DEF Reachable
  <2>2. QED
    BY <1>2, <1>3, <2>1, CutFull, EntryParts
<1>4. CASE n # Len(d)
  <2>1. n \in 0 .. Len(d) - 1
    BY <1>1, <1>4
  <2>2. QED
    BY <1>2, <2>1 DEF Reachable
<1>5. QED
  BY <1>3, <1>4

(* What is allowed and no file leads on to directories that may be read. *)
LEMMA VisitReachable ==
    ASSUME job \in Jobs, NEW d, Reachable(d), NEW p \in Entries(d),
           p \notin DOMAIN job.files, Last(p) \notin SkipDirs
    PROVE  Reachable(p)
<1>1. p \in Directories /\ Len(p) \in Nat \ {0} /\ Len(d) = Len(p) - 1
  BY EntryParts
<1>2. \A n \in 1..Len(p) : p[n] \notin SkipDirs
  BY <1>1, EntryParts DEF Reachable
<1>3. \A n \in 0 .. Len(p) - 1 : SubSeq(p, 1, n) \notin job.unreadable
  BY ReadableAbove
<1>4. QED
  BY <1>1, <1>2, <1>3 DEF Reachable

(* A file that is taken is wanted. *)
LEMMA VisitWanted ==
    ASSUME job \in Jobs, SoundInclude, NEW d, Reachable(d), NEW p \in Entries(d),
           p \in DOMAIN job.files, Allowed(p), IsManifestPath(p)
    PROVE  p \in Wanted
<1>1. p \in Path /\ Len(p) \in Nat \ {0} /\ Len(d) = Len(p) - 1
  BY EntryParts
<1>2. \A n \in 1 .. Len(p) - 1 : p[n] \notin SkipDirs
  BY <1>1, EntryParts DEF Reachable
<1>3. \A n \in 0 .. Len(p) - 1 : SubSeq(p, 1, n) \notin job.unreadable
  BY ReadableAbove
<1>4. ~MatchesPrefix(p, Exclude)
  BY DEF Allowed
<1>5. job.include # {} => MatchesPrefix(p, job.include)
  <2>1. ASSUME NEW q \in job.include, IsPrefix(p, q) PROVE MatchesPrefix(p, job.include)
    <3>1. p = q
      BY <2>1 DEF SoundInclude
    <3>2. q # <<>>
      BY <1>1, <3>1
    <3>3. QED
      BY <2>1, <3>1, <3>2 DEF MatchesPrefix
  <2>2. QED
    BY <2>1 DEF Allowed
<1>6. QED
  BY <1>2, <1>3, <1>4, <1>5 DEF Wanted

(* The directories above a wanted file are allowed, and are no files. *)
LEMMA AboveWanted ==
    ASSUME job \in Jobs, NEW f \in Wanted, NEW n \in 1 .. Len(f) - 1
    PROVE  /\ SubSeq(f, 1, n) \in Entries(SubSeq(f, 1, n - 1)) /\ Allowed(SubSeq(f, 1, n))
           /\ SubSeq(f, 1, n) \notin DOMAIN job.files /\ Last(SubSeq(f, 1, n)) \notin SkipDirs
<1> DEFINE p == SubSeq(f, 1, n)
<1>1. f \in DOMAIN job.files /\ f \in Path /\ Len(f) \in Nat
  BY Tree DEF Wanted, Path
<1>2. n \in 0..Len(f) /\ n - 1 \in 0 .. Len(f) - 1 /\ n - 1 \in 0..n /\ n \in 1..Len(f) /\ n \in Nat
  BY <1>1
<1>3. /\ p \in Path /\ Len(p) = n /\ (\A k \in 1..n : p[k] = f[k]) /\ IsPrefix(p, f)
      /\ SubSeq(p, 1, n - 1) = SubSeq(f, 1, n - 1) /\ p \in Directories
  <2>1. p \in Directories
    BY <1>1 DEF Directories
  <2>2. QED
    BY <1>1, <1>2, <2>1, Cut, CutPrefix, CutCut
<1> HIDE DEF p
<1>4. p # <<>> /\ p # f
  BY <1>1, <1>2, <1>3, EmptyPath
<1>5. p \notin DOMAIN job.files
  BY <1>1, <1>3, <1>4, Tree
<1>6. p \in Entries(SubSeq(f, 1, n - 1))
  <2>1. SubSeq(f, 1, n - 1) \notin job.unreadable
    BY <1>2 DEF Wanted
  <2>2. Front(p) = SubSeq(f, 1, n - 1)
    BY <1>3 DEF Front
  <2>3. QED
    BY <1>3, <1>4, <2>1, <2>2 DEF Entries
<1>7. Last(p) \notin SkipDirs
  BY <1>2, <1>3 DEF Wanted, Last
<1>8. Allowed(p)
  <2>1. ~MatchesPrefix(p, Exclude)
    <3>1. ASSUME NEW e \in Exclude \ {<<>>}, IsPrefix(e, p) PROVE FALSE
      <4>1. IsPrefix(e, f)
        BY <1>1, <1>3, <3>1, Tree, PrefixTransitive
      <4>2. QED
        BY <4>1 DEF Wanted, MatchesPrefix
    <3>2. QED
      BY <3>1 DEF MatchesPrefix
  <2>2. ASSUME job.include # {}
        PROVE  MatchesPrefix(p, job.include) \/ \E q \in job.include : IsPrefix(p, q)
    <3>1. PICK q \in job.include \ {<<>>} : IsPrefix(q, f)
      BY <2>2 DEF Wanted, MatchesPrefix
    <3>2. IsPrefix(q, p) \/ IsPrefix(p, q)
      BY <1>1, <1>3, <3>1, Tree, PrefixesCompare
    <3>3. QED
      BY <3>2 DEF MatchesPrefix
  <2>3. QED
    BY <2>1, <2>2 DEF Allowed
<1>9. QED
  BY <1>5, <1>6, <1>7, <1>8 DEF p

(* So is a wanted file itself. *)
LEMMA WantedEntry ==
    ASSUME job \in Jobs, NEW f \in Wanted
    PROVE  f \in Entries(SubSeq(f, 1, Len(f) - 1)) /\ Allowed(f) /\ IsManifestPath(f)
<1>1. f \in DOMAIN job.files /\ f \in Path /\ f # <<>>
  BY Tree DEF Wanted
<1>2. Len(f) \in Nat \ {0} /\ Front(f) = SubSeq(f, 1, Len(f) - 1)
  BY <1>1, Parts DEF Front
<1>3. SubSeq(f, 1, Len(f) - 1) \notin job.unreadable
  BY <1>2 DEF Wanted
<1>4. QED
  BY <1>1, <1>2, <1>3 DEF Wanted, Entries, Allowed

LEMMA WalkedVisit ==
    ASSUME Walked, NEW dir, Visit(dir)
    PROVE  Walked'
<1> DEFINE allowed == {p \in Entries(dir) : Allowed(p)}
<1>1. /\ job \in Jobs /\ Reachable(dir) /\ dir \in todo /\ at = "walking"
      /\ \A d \in todo : Reachable(d)
      /\ SoundInclude => found \subseteq Wanted
      /\ \A f \in Wanted : f \in found \/ \E n \in 0 .. Len(f) - 1 : SubSeq(f, 1, n) \in todo
  BY DEF Walked, Visit
<1>2. /\ job' = job /\ at' = at
      /\ todo' = (todo \ {dir}) \cup
                    {p \in allowed : p \notin DOMAIN job.files /\ Last(p) \notin SkipDirs}
      /\ found' = found \cup {p \in allowed : p \in DOMAIN job.files /\ IsManifestPath(p)}
  BY DEF Visit, process
<1>3. \A d \in todo' : Reachable(d)
  BY <1>1, <1>2, VisitReachable
<1>4. SoundInclude => found' \subseteq Wanted
  BY <1>1, <1>2, VisitWanted
<1>5. \A f \in Wanted : f \in found' \/ \E n \in 0 .. Len(f) - 1 : SubSeq(f, 1, n) \in todo'
  <2> SUFFICES ASSUME NEW f \in Wanted, f \notin found
               PROVE  f \in found' \/ \E n \in 0 .. Len(f) - 1 : SubSeq(f, 1, n) \in todo'
    BY <1>2
  <2>1. PICK n \in 0 .. Len(f) - 1 : SubSeq(f, 1, n) \in todo
    BY <1>1
  <2>2. f \in DOMAIN job.files /\ Len(f) \in Nat
    BY <1>1, Tree DEF Wanted, Path
  <2>3. CASE SubSeq(f, 1, n) # dir
    BY <1>2, <2>1, <2>3
  <2>4. CASE SubSeq(f, 1, n) = dir /\ n = Len(f) - 1
    BY <1>1, <1>2, <2>2, <2>4, WantedEntry
  <2>5. CASE SubSeq(f, 1, n) = dir /\ n # Len(f) - 1
    <3>1. n + 1 \in 1 .. Len(f) - 1 /\ n + 1 - 1 = n
      BY <2>1, <2>2, <2>5
    <3>2. /\ SubSeq(f, 1, n + 1) \in Entries(SubSeq(f, 1, n + 1 - 1)) /\ Allowed(SubSeq(f, 1, n + 1))
          /\ SubSeq(f, 1, n + 1) \notin DOMAIN job.files /\ Last(SubSeq(f, 1, n + 1)) \notin SkipDirs
      BY <1>1, <3>1, AboveWanted
    <3>3. SubSeq(f, 1, n + 1) \in todo'
      BY <1>2, <2>5, <3>1, <3>2
    <3>4. n + 1 \in 0 .. Len(f) - 1
      BY <2>2, <3>1
    <3>5. QED
      BY <3>3, <3>4
  <2>6. QED
    BY <2>3, <2>4, <2>5
<1>6. QED
  BY <1>1, <1>2, <1>3, <1>4, <1>5 DEF Walked, Reachable, Directories, SoundInclude, Wanted, Exclude

(* A walk begins at the root. *)
LEMMA WalkedBegin ==
    ASSUME job \in Jobs, StartWalk, UNCHANGED job
    PROVE  Walked'
<1>1. todo' = {<<>>} /\ found' = {}
  BY DEF StartWalk
<1>2. Reachable(<<>>)
  BY EmptyPath DEF Reachable, Directories
<1>3. \A f \in Wanted : 0 \in 0 .. Len(f) - 1 /\ SubSeq(f, 1, 0) = <<>>
  <2> SUFFICES ASSUME NEW f \in Wanted PROVE 0 \in 0 .. Len(f) - 1 /\ SubSeq(f, 1, 0) = <<>>
    OBVIOUS
  <2>1. f \in Path /\ f # <<>>
    BY Tree DEF Wanted
  <2>2. Len(f) \in Nat \ {0}
    BY <2>1, Parts
  <2>3. QED
    BY <2>2, SubSeqEmpty
<1>4. QED
  BY <1>1, <1>2, <1>3 DEF Walked, Reachable, Directories, SoundInclude, Wanted, Exclude

-----------------------------------------------------------------------------
(* Findings. *)

IsFinding(f) == f = Finding(f.code, f.severity, f.file, f.about, f.policy)

Same(f, g) == f.code = g.code /\ f.file = g.file /\ f.about = g.about /\ f.policy = g.policy

HardCodes == DriftCodes \cup {"BLOCK_ARGS_STATIC", "MANIFEST_PARSE_ERROR"}

LEMMA FindingFields ==
    ASSUME NEW c, NEW s, NEW i, NEW a, NEW p, NEW f, f = Finding(c, s, i, a, p)
    PROVE  /\ f.code = c /\ f.severity = s /\ f.file = i /\ f.about = a /\ f.policy = p
           /\ IsFinding(f)
           /\ [f EXCEPT !.severity = "error"] = Finding(c, "error", i, a, p)
  BY DEF Finding, IsFinding

(* The findings of a manifest are about it, and the codes of errors are not *)
(* those of warnings about texts.                                           *)
LEMMA FindingsTyped ==
    ASSUME NEW file, NEW f \in FindingsOf(file)
    PROVE  /\ IsFinding(f) /\ f.file = file
           /\ f.code \in SarifCatalog \cup {"MANIFEST_PARSE_ERROR"}
           /\ f.severity = "error" => f.code \in HardCodes
           /\ f.code \in {"MANIFEST_PARSE_ERROR", "BLOCK_ARGS_STATIC"} => f.severity = "error"
<1>1. CASE job.files[file] = Unreadable
  <2>1. f = Finding("MANIFEST_PARSE_ERROR", "error", file, None, None)
    BY <1>1 DEF FindingsOf, ParseError
  <2>2. QED
    BY <2>1, FindingFields DEF HardCodes
<1>2. CASE job.files[file] # Unreadable
  <2> DEFINE parsed == ParseManifest(job.files[file])
  <2>1. f \in AuditOf(file, job.files[file], Policies)
    BY <1>2 DEF FindingsOf
  <2>2. \/ f \in DangerousStrings(file, parsed.texts)
        \/ \E n \in DOMAIN Policies :
             \/ f \in ComputeDrift(file, parsed.tools, PolicyToolSets(Policies[n].rules), n)
             \/ f \in BlockToolArgsStatic(file, parsed.texts, PolicyToolSets(Policies[n].rules), n)
    BY <2>1, Zenon DEF AuditOf
  <2> HIDE DEF parsed
  <2>3. CASE f \in DangerousStrings(file, parsed.texts)
    <3>1. PICK t : t[3] \in DangerIds /\ f = Finding(t[3], "warning", file, t, None)
      BY <2>3, Zenon DEF DangerousStrings
    <3>2. t[3] \notin HardCodes
      BY <3>1, ToolAuditAssumption DEF HardCodes
    <3>3. QED
      BY <3>1, <3>2, FindingFields DEF HardCodes, SarifCatalog
  <2>4. ASSUME NEW n,
               f \in ComputeDrift(file, parsed.tools, PolicyToolSets(Policies[n].rules), n)
        PROVE  \E c \in DriftCodes, s \in {"error", "warning"} : \E a : f = Finding(c, s, file, a, n)
    BY <2>4 DEF ComputeDrift, DriftCodes
  <2>5. ASSUME NEW n,
               f \in BlockToolArgsStatic(file, parsed.texts, PolicyToolSets(Policies[n].rules), n)
        PROVE  \E a : f = Finding("BLOCK_ARGS_STATIC", "error", file, a, n)
    BY <2>5 DEF BlockToolArgsStatic
  <2>6. CASE \E n : \E c \in DriftCodes, s \in {"error", "warning"} : \E a : f = Finding(c, s, file, a, n)
    BY <2>6, FindingFields DEF HardCodes, SarifCatalog, DriftCodes
  <2>7. CASE \E n, a : f = Finding("BLOCK_ARGS_STATIC", "error", file, a, n)
    BY <2>7, FindingFields DEF HardCodes, SarifCatalog
  <2>8. QED
    BY <2>2, <2>3, <2>4, <2>5, <2>6, <2>7
<1>3. QED
  BY <1>1, <1>2

(* --strict turns warnings into errors and nothing else. *)
LEMMA StrictReport ==
    ASSUME NEW fs, \A f \in fs : IsFinding(f), NEW strict
    PROVE  /\ \A f \in fs : \E g \in ApplyStrict(fs, strict) :
                Same(f, g) /\ (f.severity = "error" => g.severity = "error")
           /\ \A g \in ApplyStrict(fs, strict) : \E f \in fs :
                /\ Same(f, g)
                /\ g.severity = f.severity \/ (strict /\ g.severity = "error" /\ f.code \in DriftCodes)
<1> DEFINE hard(f) == IF strict /\ f.code = "DRIFT_POLICY_ONLY"
                        THEN [f EXCEPT !.severity = "error"] ELSE f
<1>1. ApplyStrict(fs, strict) = {hard(f) : f \in fs}
  BY DEF ApplyStrict
<1>2. ASSUME NEW f \in fs
      PROVE  /\ Same(f, hard(f)) /\ (f.severity = "error" => hard(f).severity = "error")
             /\ \/ hard(f).severity = f.severity
                \/ strict /\ hard(f).severity = "error" /\ f.code \in DriftCodes
  <2>1. CASE strict /\ f.code = "DRIFT_POLICY_ONLY"
    <3> DEFINE g == [f EXCEPT !.severity = "error"]
    <3>1. hard(f) = Finding(f.code, "error", f.file, f.about, f.policy)
      <4>1. f = Finding(f.code, f.severity, f.file, f.about, f.policy)
        BY <1>2 DEF IsFinding
      <4>2. g = Finding(f.code, "error", f.file, f.about, f.policy)
        BY <4>1, FindingFields
      <4> HIDE DEF g
      <4>3. hard(f) = g
        BY <2>1 DEF g
      <4>4. QED
        BY <4>2, <4>3
    <3>2. QED
      BY <2>1, <3>1, FindingFields DEF Same, DriftCodes
  <2>2. CASE ~(strict /\ f.code = "DRIFT_POLICY_ONLY")
    BY <2>2 DEF Same
  <2>3. QED
    BY <2>1, <2>2
<1> HIDE DEF hard
<1>3. QED
  BY <1>1, <1>2

-----------------------------------------------------------------------------
(* The audit. *)

(* Places before the audit of the manifests. *)
Early == {"diff", "diff ended", "scan", "scanning", "scan ended", "static", "walking"}

(* Up to the report the findings are those of the manifests already taken   *)
(* from the list.                                                           *)
Collected ==
    /\ at \in Early \cup {"idle", "auditing", "static ended"}
    /\ at \in Early => findings = {}
    /\ at = "auditing" =>
        left \subseteq found /\ findings = UNION {FindingsOf(f) : f \in found \ left}
    /\ at \in Early \cup {"auditing"} => "static" \notin DOMAIN children
    /\ AuditWhole

LEMMA SameFindings ==
    ASSUME job' = job
    PROVE  \A file : FindingsOf(file)' = FindingsOf(file)
<1>1. \A doc : Loaded(doc)' = Loaded(doc)
  BY DEF Loaded
<1>2. PolicyFiles' = PolicyFiles
  BY DEF PolicyFiles
<1>3. Policies' = Policies
  BY <1>1, <1>2 DEF Policies
<1>4. QED
  BY <1>3 DEF FindingsOf

(* A step inside the action that has nothing to do with the audit. *)
LEMMA CollectedKeep ==
    ASSUME Collected, at # "auditing", UNCHANGED <<job, children, walk, audit>>,
           at' = "idle" \/ (at' \in Early /\ at \in Early)
    PROVE  Collected'
<1>1. /\ job' = job /\ children' = children /\ found' = found /\ left' = left
      /\ findings' = findings /\ sarif' = sarif
  BY DEF walk, audit
<1>2. AuditWhole'
  <2> SUFFICES ASSUME Audited' PROVE AuditWhole'
    BY DEF AuditWhole
  <2>1. Truthful(children["static"].report, children["static"].status, sarif, found)
    BY <1>1 DEF Collected, AuditWhole, Audited
  <2>2. Truthful(children["static"].report, children["static"].status, sarif, found)'
    BY <1>1, <2>1, SameFindings DEF Truthful, Agree
  <2>3. QED
    BY <2>2 DEF AuditWhole
<1>3. at' # "auditing"
  BY DEF Early
<1>4. at' \in Early => findings' = {} /\ "static" \notin DOMAIN children'
  BY <1>1 DEF Collected, Early
<1>5. QED
  BY <1>2, <1>3, <1>4 DEF Collected

(* Another command, or an audit without a report, returns. *)
LEMMA CollectedEnds ==
    ASSUME Collected, NEW command \in {"diff", "scan", "static"}, NEW status, NEW report,
           CommandEnds(command, status, report), findings' = findings,
           IF command = "static" THEN report = None ELSE at \in Early
    PROVE  Collected'
<1>1. /\ DOMAIN children' = DOMAIN children \cup {command}
      /\ children'[command].report = report
  BY DEF CommandEnds
<1>2. at' = "idle" \/ at' = AfterChild[command]
  BY DEF CommandEnds
<1>3. CASE command = "static"
  <2>1. ~Audited'
    BY <1>1, <1>3 DEF Audited, Given
  <2>2. at' \in {"idle", "static ended"}
    BY <1>2, <1>3 DEF AfterChild
  <2>3. QED
    BY <2>1, <2>2 DEF Collected, AuditWhole, Early
<1>4. CASE command # "static"
  <2>1. "static" \notin DOMAIN children'
    BY <1>1, <1>4 DEF Collected
  <2>2. at' \in {"idle", "diff ended", "scan ended"}
    <3>1. AfterChild["diff"] = "diff ended" /\ AfterChild["scan"] = "scan ended"
      BY DEF AfterChild
    <3>2. command = "diff" \/ command = "scan"
      BY <1>4
    <3>3. QED
      BY <1>2, <3>1, <3>2
  <2>3. findings' = {} /\ ~Audited'
    BY <1>4, <2>1 DEF Collected, Audited
  <2>4. QED
    BY <2>1, <2>2, <2>3 DEF Collected, AuditWhole, Early
<1>5. QED
  BY <1>3, <1>4

LEMMA CollectedReport ==
    ASSUME Collected, AuditReport
    PROVE  Collected'
<1> DEFINE report == ApplyStrict(findings, Strict)
           status == IF StaticErrors(report, Strict) # {} THEN 1 ELSE 0
           code == IF job.sarif = "fails" THEN 3 ELSE status
<1>1. /\ findings = UNION {FindingsOf(f) : f \in found}
      /\ sarif' = (IF job.sarif = "written" THEN StaticScanToSarif(report) ELSE None)
      /\ CommandEnds("static", code, report) /\ found' = found /\ job' = job
  BY DEF AuditReport, Collected, CommandEnds, walk
<1>2. /\ "static" \in DOMAIN children' /\ children'["static"].report = report
      /\ children'["static"].status = code
      /\ at' \in {"idle", "static ended"}
  BY <1>1 DEF CommandEnds, AfterChild
<1>3. \A f \in findings :
        /\ IsFinding(f) /\ f.file \in found /\ f.code \in SarifCatalog \cup {"MANIFEST_PARSE_ERROR"}
        /\ f.severity = "error" => f.code \in HardCodes
        /\ f.code \in {"MANIFEST_PARSE_ERROR", "BLOCK_ARGS_STATIC"} => f.severity = "error"
  BY <1>1, FindingsTyped
<1>4. /\ \A f \in findings : \E g \in report :
            Same(f, g) /\ (f.severity = "error" => g.severity = "error")
      /\ \A g \in report : \E f \in findings :
            /\ Same(f, g)
            /\ g.severity = f.severity \/ (Strict /\ g.severity = "error" /\ f.code \in DriftCodes)
  BY <1>3, StrictReport
<1> HIDE DEF report
<1>5. \A f \in report :
        /\ f.file \in found /\ f.code \in SarifCatalog \cup {"MANIFEST_PARSE_ERROR"}
        /\ f.severity = "error" => f.code \in HardCodes
        /\ f.code \in {"MANIFEST_PARSE_ERROR", "BLOCK_ARGS_STATIC"} => f.severity = "error"
  <2> SUFFICES ASSUME NEW g \in report
               PROVE  /\ g.file \in found /\ g.code \in SarifCatalog \cup {"MANIFEST_PARSE_ERROR"}
                      /\ g.severity = "error" => g.code \in HardCodes
                      /\ g.code \in {"MANIFEST_PARSE_ERROR", "BLOCK_ARGS_STATIC"} => g.severity = "error"
    OBVIOUS
  <2>1. PICK f \in findings :
            /\ Same(f, g)
            /\ g.severity = f.severity \/ (Strict /\ g.severity = "error" /\ f.code \in DriftCodes)
    BY <1>4
  <2>2. QED
    BY <1>3, <2>1 DEF Same, HardCodes
<1>6. /\ (\E f \in report : f.severity = "error") => status = 1
      /\ status = 1 => (\E f \in report : f.severity = "error") \/ job.strict
  BY <1>5 DEF StaticErrors, HardCodes, Strict
<1>7. \A file \in found :
        {<<f.code, f.about, f.policy>> : f \in {g \in report : g.file = file}}
        = {<<f.code, f.about, f.policy>> : f \in {g \in FindingsOf(file) : g.file = file}}
  <2> SUFFICES ASSUME NEW file \in found
               PROVE  {<<f.code, f.about, f.policy>> : f \in {g \in report : g.file = file}}
                      = {<<f.code, f.about, f.policy>> : f \in {g \in FindingsOf(file) : g.file = file}}
    OBVIOUS
  <2>1. \A f \in findings : f.file = file <=> f \in FindingsOf(file)
    BY <1>1, FindingsTyped
  <2>2. \A f \in FindingsOf(file) : f \in findings /\ f.file = file
    BY <1>1, FindingsTyped
  <2>3. \A f \in FindingsOf(file) : \E g \in report : g.file = file /\ Same(f, g)
    BY <1>4, <2>2 DEF Same
  <2>4. \A g \in report : g.file = file => \E f \in FindingsOf(file) : f.file = file /\ Same(f, g)
    BY <1>4, <2>1 DEF Same
  <2>5. QED
    BY <2>2, <2>3, <2>4 DEF Same
<1>8. AuditWhole'
  <2> DEFINE levels == {f.severity : f \in report}
  <2>1. status # 3 /\ (code # 3 => code = status) /\ (job.sarif = "written" => code = status)
    OBVIOUS
  <2>2. Agree(levels, status)
    BY <1>6 DEF Agree
  <2>3. \A file \in found : Said(report, file) = Said(FindingsOf(file), file)
    BY <1>7 DEF Said
  <2>4. {f.file : f \in report} \subseteq found
    BY <1>5
  <2>5. ASSUME Given(sarif')
        PROVE  /\ {r.level : r \in sarif'.results} = levels
               /\ {r.ruleId : r \in sarif'.results} \subseteq sarif'.rules \cup {"MANIFEST_PARSE_ERROR"}
               /\ code = status
    <3>1. job.sarif = "written" /\ sarif' = StaticScanToSarif(report)
      BY <1>1, <2>5 DEF Given
    <3>2. /\ sarif'.results = {[ruleId |-> f.code, level |-> f.severity, uri |-> f.file] : f \in report}
          /\ sarif'.rules = SarifCatalog \cap {f.code : f \in report}
      BY <3>1 DEF StaticScanToSarif
    <3> HIDE DEF status, code
    <3> DEFINE result(f) == [ruleId |-> f.code, level |-> f.severity, uri |-> f.file]
               results == sarif'.results
    <3>3. \A f : result(f).level = f.severity /\ result(f).ruleId = f.code
      OBVIOUS
    <3>4. results = {result(f) : f \in report}
      BY <3>2
    <3> HIDE DEF result, results
    <3>5. {r.level : r \in results} = levels
      BY <3>3, <3>4
    <3>6. \A r \in results : \E f \in report : r.ruleId = f.code
      BY <3>3, <3>4
    <3>7. {r.ruleId : r \in sarif'.results} \subseteq sarif'.rules \cup {"MANIFEST_PARSE_ERROR"}
      BY <1>5, <3>2, <3>6 DEF results
    <3>8. QED
      BY <2>1, <3>1, <3>5, <3>7 DEF results
  <2> HIDE DEF levels, status, code
  <2>6. Truthful(report, code, sarif', found)
    BY <2>1, <2>2, <2>3, <2>4, <2>5 DEF Truthful, levels
  <2>7. Truthful(children["static"].report, children["static"].status, sarif, found)'
    BY <1>1, <1>2, <2>6, SameFindings DEF Truthful, Agree
  <2>8. QED
    BY <2>7 DEF AuditWhole
<1>9. QED
  BY <1>2, <1>8 DEF Collected, Early

-----------------------------------------------------------------------------
LEMMA WalkedElse ==
    ASSUME Walked, job' = job, at' # "walking" \/ (at' = at /\ UNCHANGED walk)
    PROVE  Walked'
<1>1. CASE at' # "walking"
  BY <1>1 DEF Walked
<1>2. CASE at' = at /\ UNCHANGED walk
  BY <1>2 DEF Walked, walk, Reachable, Directories, SoundInclude, Wanted, Exclude
<1>3. QED
  BY <1>1, <1>2

Tracked == Walked /\ Collected

LEMMA TrackedInit == ASSUME Init PROVE Tracked
<1>1. Walked
  BY DEF Init, Walked
<1>2. ~Audited
  BY DEF Init, Audited
<1>3. QED
  BY <1>1, <1>2 DEF Init, Tracked, Collected, AuditWhole, Early

LEMMA EndsPlace ==
    ASSUME NEW command \in {"diff", "scan", "static"}, NEW status, NEW report,
           CommandEnds(command, status, report)
    PROVE  at' # "walking" /\ job' = job
<1>1. /\ AfterChild["diff"] = "diff ended" /\ AfterChild["scan"] = "scan ended"
      /\ AfterChild["static"] = "static ended"
  BY DEF AfterChild
<1>2. at' = "idle" \/ at' = AfterChild[command]
  BY DEF CommandEnds
<1>3. QED
  BY <1>1, <1>2 DEF CommandEnds

LEMMA TrackedEnds ==
    ASSUME Tracked, NEW command \in {"diff", "scan", "static"}, NEW status, NEW report,
           CommandEnds(command, status, report), findings' = findings,
           IF command = "static" THEN report = None ELSE at \in Early
    PROVE  Tracked'
  BY EndsPlace, WalkedElse, CollectedEnds DEF Tracked

(* The steps that do not touch walk and audit, and end no command. *)
LEMMA TrackedKeep ==
    ASSUME Tracked, at # "auditing", UNCHANGED <<job, children, walk, audit>>,
           at' = "idle" \/ (at' \in Early \ {"walking"} /\ at \in Early)
    PROVE  Tracked'
<1>1. at' # "walking"
  OBVIOUS
<1>2. QED
  BY <1>1, WalkedElse, CollectedKeep DEF Tracked

LEMMA TrackedStart == ASSUME Tracked, Start PROVE Tracked'
<1>1. /\ at' \in {"diff", "scan", "static"} /\ job' = job /\ findings' = {}
      /\ children' = [c \in {} |-> None]
  BY DEF Start, StartAudit
<1>2. "static" \notin DOMAIN children'
  BY <1>1
<1>3. ~Audited'
  BY <1>2 DEF Audited
<1>4. QED
  BY <1>1, <1>2, <1>3, WalkedElse DEF Tracked, Collected, AuditWhole, Early

LEMMA TrackedStatic == ASSUME Tracked, StaticStep PROVE Tracked'
<1>1. CASE AuditRefused
  <2>1. \E status : CommandEnds("static", status, None)
    BY <1>1 DEF AuditRefused
  <2>2. QED
    BY <1>1, <2>1, TrackedEnds DEF AuditRefused, audit
<1>2. CASE ResolveManifests
  <2>1. /\ at = "static" /\ job' = job /\ findings' = findings /\ findings = {}
        /\ children' = children /\ "static" \notin DOMAIN children
        /\ IF at' = "walking" THEN StartWalk ELSE at' = "auditing" /\ left' = found'
    BY <1>2 DEF ResolveManifests, Tracked, Collected, Early
  <2>2. Walked'
    BY <2>1, WalkedBegin, WalkedElse DEF Tracked, Walked
  <2>3. ~Audited'
    BY <2>1 DEF Audited
  <2>4. at' = "auditing" => left' \subseteq found'
                            /\ findings' = UNION {FindingsOf(f)' : f \in found' \ left'}
    BY <2>1
  <2>5. QED
    BY <2>1, <2>2, <2>3, <2>4 DEF Tracked, Collected, AuditWhole, Early
<1>3. CASE AuditReport
  <2>1. \E status, report : CommandEnds("static", status, report)
    BY <1>3 DEF AuditReport
  <2>2. QED
    BY <1>3, <2>1, EndsPlace, WalkedElse, CollectedReport DEF Tracked
<1>4. CASE (\E dir \in todo : Visit(dir)) /\ UNCHANGED audit
  <2>1. Walked'
    BY <1>4, WalkedVisit DEF Tracked
  <2>2. at = "walking" /\ at' = at /\ children' = children /\ findings' = findings
    BY <1>4 DEF Visit, process, audit
  <2>3. ~Audited'
    BY <2>2 DEF Tracked, Collected, Audited, Early
  <2>4. QED
    BY <2>1, <2>2, <2>3 DEF Tracked, Collected, AuditWhole, Early
<1>5. CASE EndWalk
  <2>1. /\ at = "walking" /\ at' = "auditing" /\ children' = children /\ findings' = findings
        /\ job' = job /\ left' = found' /\ findings = {} /\ "static" \notin DOMAIN children
    BY <1>5 DEF EndWalk, walk, Tracked, Collected, Early
  <2>2. ~Audited'
    BY <2>1 DEF Audited
  <2>3. QED
    BY <2>1, <2>2, WalkedElse DEF Tracked, Collected, AuditWhole, Early
<1>6. CASE \E file \in left : AuditManifest(file)
  <2>1. PICK file \in left : AuditManifest(file)
    BY <1>6
  <2>2. /\ at = "auditing" /\ at' = at /\ job' = job /\ children' = children /\ found' = found
        /\ left' = left \ {file} /\ findings' = findings \cup FindingsOf(file)
        /\ left \subseteq found /\ findings = UNION {FindingsOf(f) : f \in found \ left}
    BY <2>1 DEF AuditManifest, process, walk, Tracked, Collected
  <2>3. findings' = UNION {FindingsOf(f) : f \in found \ left'}
    BY <2>2
  <2>4. ~Audited'
    BY <2>2 DEF Tracked, Collected, Audited
  <2>5. findings' = UNION {FindingsOf(f)' : f \in found' \ left'}
    BY <2>2, <2>3, SameFindings
  <2>6. QED
    BY <2>2, <2>4, <2>5, WalkedElse DEF Tracked, Collected, AuditWhole, Early
<1>7. QED
  BY <1>1, <1>2, <1>3, <1>4, <1>5, <1>6 DEF StaticStep

LEMMA TrackedStep == ASSUME Tracked, [Next]_vars PROVE Tracked'
<1>1. CASE Start
  BY <1>1, TrackedStart
<1>2. CASE Command
  <2>1. at # "auditing" /\ at' = "idle" /\ UNCHANGED <<job, children, walk, audit>>
    BY <1>2 DEF Command, Running
  <2>2. QED
    BY <2>1, TrackedKeep
<1>3. CASE NoDiff
  BY <1>3, TrackedKeep DEF NoDiff, GoOn, Early
<1>4. CASE ReadDiff
  BY <1>4, TrackedKeep DEF ReadDiff, GoOn, Early
<1>5. CASE NoScan
  BY <1>5, TrackedKeep DEF NoScan, GoOn, Early
<1>6. CASE ReadScan
  <2>1. /\ at = "scan ended" /\ at' \in {"idle", "static"}
        /\ UNCHANGED <<job, children, walk, audit>>
    BY <1>6 DEF ReadScan, GoOn, Exit
  <2>2. QED
    BY <2>1, TrackedKeep DEF Early
<1>7. CASE ReadStatic
  <2>1. /\ at = "static ended" /\ at' = "idle"
        /\ UNCHANGED <<job, children, walk, audit>>
    BY <1>7 DEF ReadStatic, Exit
  <2>2. QED
    BY <2>1, TrackedKeep
<1>8. CASE DiffFails \/ ScanFails \/ StaticFails
  <2>1. /\ findings' = findings
        /\ \E command \in {"diff", "scan", "static"} : \E status, report :
              /\ CommandEnds(command, status, report)
              /\ IF command = "static" THEN report = None ELSE at \in Early
    <3>1. CASE DiffFails \/ StaticFails
      BY <3>1 DEF DiffFails, StaticFails, ChildFails, audit, Early
    <3>2. CASE ScanFails
      BY <3>2 DEF ScanFails, ChildFails, audit, Early
    <3>3. QED
      BY <1>8, <3>1, <3>2
  <2>2. QED
    BY <2>1, TrackedEnds
<1>9. CASE DiffStep /\ UNCHANGED <<walk, audit, scan, gate>>
  <2>1. /\ at \in Early /\ findings' = findings
        /\ \E status, report : CommandEnds("diff", status, report)
    BY <1>9 DEF DiffStep, Early, audit
  <2>2. QED
    BY <2>1, TrackedEnds
<1>10. CASE ScanStep /\ UNCHANGED <<walk, audit, gate>>
  <2>1. at \in {"scan", "scanning"} /\ findings' = findings
    BY <1>10 DEF ScanStep, ScanRefused, ScanBegins, ScanFile, ScanReport, audit
  <2>2. CASE \E status, report : CommandEnds("scan", status, report)
    BY <2>1, <2>2, TrackedEnds DEF Early
  <2>3. CASE ScanBegins \/ UNCHANGED process
    BY <1>10, <2>1, <2>3, TrackedKeep DEF ScanBegins, process, Early
  <2>4. ScanRefused \/ ScanReport => \E status, report : CommandEnds("scan", status, report)
    BY DEF ScanRefused, ScanReport
  <2>5. ScanFile => UNCHANGED process \/ \E status, report : CommandEnds("scan", status, report)
    BY DEF ScanFile
  <2>6. QED
    BY <1>10, <2>2, <2>3, <2>4, <2>5 DEF ScanStep
<1>11. CASE StaticStep /\ UNCHANGED <<scan, gate>>
  BY <1>11, TrackedStatic
<1>12. CASE UNCHANGED vars
  <2>1. /\ UNCHANGED <<job, at, children, walk, audit>>
    BY <1>12 DEF vars, process
  <2>2. Walked'
    BY <2>1, WalkedElse DEF Tracked
  <2>3. CASE at # "auditing" /\ at' \in Early \cup {"idle"}
    BY <2>1, <2>2, <2>3, CollectedKeep DEF Tracked, Collected
  <2>4. CASE at = "auditing"
    <3>1. ~Audited'
      BY <2>1, <2>4 DEF Tracked, Collected, Audited
    <3>2. findings' = UNION {FindingsOf(f)' : f \in found' \ left'}
      BY <2>1, <2>4, SameFindings DEF Tracked, Collected, walk, audit
    <3>3. QED
      BY <2>1, <2>2, <2>4, <3>1, <3>2 DEF Tracked, Collected, AuditWhole, Early, walk, audit
  <2>5. CASE at = "static ended"
    <3>1. AuditWhole'
      BY <2>1, SameFindings DEF Tracked, Collected, AuditWhole, Audited, Truthful, Agree, walk, audit
    <3>2. QED
      BY <2>1, <2>2, <2>5, <3>1 DEF Tracked, Collected, Early
  <2>6. QED
    BY <2>1, <2>3, <2>4, <2>5 DEF Tracked, Collected
<1>13. QED
  BY <1>1, <1>2, <1>3, <1>4, <1>5, <1>6, <1>7, <1>8, <1>9, <1>10, <1>11, <1>12 DEF Next

LEMMA Tracking == Spec => []Tracked
  BY TrackedInit, TrackedStep, PTL DEF Spec

-----------------------------------------------------------------------------
(* Whatever the tree, the filters and the order of the directories:         *)
(* walkManifestFiles finds the manifests the filters ask for and no others. *)
THEOREM WalkCorrect == Spec => []WalkExact
<1>1. Walked => WalkExact
  BY DEF Walked, WalkExact
<1>2. QED
  BY <1>1, Tracking, PTL DEF Tracked

(* Whatever the manifests and policies, and in whatever order the loop of   *)
(* runStaticScan takes them: the report has the findings of every manifest, *)
(* and exit status, report and SARIF file agree.                            *)
THEOREM AuditCorrect == Spec => []AuditWhole
  BY Tracking, PTL DEF Tracked, Collected

-----------------------------------------------------------------------------
(* Drift. *)

(* The names that drift is an error for. *)
Errs(sets, tool) == tool \in sets.deny \/ (sets.hasAllowRule /\ tool \notin sets.allow)

DriftErrorCodes == {"DRIFT_ALLOW", "DRIFT_DENY"}

LEMMA DriftFinding ==
    ASSUME NEW file, NEW tools, NEW sets, NEW policy, NEW tool
    PROVE  (\E f \in ComputeDrift(file, tools, sets, policy) :
                f.code \in DriftErrorCodes /\ f.about = tool)
           <=> tool \in tools /\ Errs(sets, tool)
<1>1. ASSUME NEW f \in ComputeDrift(file, tools, sets, policy), f.code \in DriftErrorCodes
      PROVE  f.about \in tools /\ Errs(sets, f.about)
  <2>1. \/ /\ sets.hasAllowRule
           /\ \E t \in tools \ (sets.allow \cup sets.deny) :
                f = Finding("DRIFT_ALLOW", "error", file, t, policy)
        \/ \E t : f = Finding("DRIFT_POLICY_ONLY", "warning", file, t, policy)
        \/ \E t \in tools \cap sets.deny : f = Finding("DRIFT_DENY", "error", file, t, policy)
    BY DEF ComputeDrift
  <2>2. QED
    BY <1>1, <2>1, FindingFields DEF Errs, DriftErrorCodes
<1>2. ASSUME tool \in tools, Errs(sets, tool)
      PROVE  \E f \in ComputeDrift(file, tools, sets, policy) :
                f.code \in DriftErrorCodes /\ f.about = tool
  <2>1. CASE tool \in sets.deny
    <3>1. Finding("DRIFT_DENY", "error", file, tool, policy) \in ComputeDrift(file, tools, sets, policy)
      BY <1>2, <2>1 DEF ComputeDrift
    <3>2. QED
      BY <3>1, FindingFields DEF DriftErrorCodes
  <2>2. CASE tool \notin sets.deny
    <3>1. Finding("DRIFT_ALLOW", "error", file, tool, policy) \in ComputeDrift(file, tools, sets, policy)
      BY <1>2, <2>2 DEF ComputeDrift, Errs
    <3>2. QED
      BY <3>1, FindingFields DEF DriftErrorCodes
  <2>3. QED
    BY <2>1, <2>2
<1>3. QED
  BY <1>1, <1>2

LEMMA ErrsFlagged ==
    ASSUME NEW rules, NEW tool
    PROVE  Errs(PolicyToolSets(rules), tool) <=> Flagged(rules, tool)
<1> DEFINE sets == PolicyToolSets(rules)
<1>1. /\ sets.allow = NamesIn(rules, "allowTools") /\ sets.deny = NamesIn(rules, "denyTools")
      /\ sets.hasAllowRule = HasRule(rules, "allowTools")
  BY DEF PolicyToolSets
<1>2. \A key : tool \in NamesIn(rules, key) <=>
                  \E i \in DOMAIN rules : rules[i].key = key /\ tool \in rules[i].names
  BY DEF NamesIn
<1> HIDE DEF sets
<1>3. Errs(sets, tool) <=>
        \/ \E i \in DOMAIN rules : rules[i].key = "denyTools" /\ tool \in rules[i].names
        \/ /\ HasRule(rules, "allowTools")
           /\ ~\E i \in DOMAIN rules : rules[i].key = "allowTools" /\ tool \in rules[i].names
  BY <1>1, <1>2 DEF Errs
<1>4. QED
  BY <1>3 DEF Flagged, AllowedBy, sets

(* What is flagged is blocked, and with one allow list nothing else is.     *)
LEMMA FlaggedBlocked ==
    ASSUME NEW rules, NEW tool
    PROVE  /\ Flagged(rules, tool) => Blocked(rules, tool)
           /\ OneAllowRule(rules) /\ Blocked(rules, tool) => Flagged(rules, tool)
  BY DEF Flagged, AllowedBy, HasRule, Blocked, Blocks, OneAllowRule

(* What the audit of a manifest says of a tool. *)
LEMMA DriftOfManifest ==
    ASSUME NEW file, NEW n \in DOMAIN Policies, NEW tool
    PROVE  (\E f \in FindingsOf(file) :
                f.code \in DriftErrorCodes /\ f.policy = n /\ f.about = tool)
           <=> Declares(file, tool) /\ Errs(PolicyToolSets(Policies[n].rules), tool)
<1> DEFINE parsed == ParseManifest(job.files[file])
           drift(m) == ComputeDrift(file, parsed.tools, PolicyToolSets(Policies[m].rules), m)
<1>1. CASE job.files[file] = Unreadable
  <2>1. \A f \in FindingsOf(file) : f.code = "MANIFEST_PARSE_ERROR"
    BY <1>1, FindingFields DEF FindingsOf, ParseError
  <2>2. QED
    BY <1>1, <2>1 DEF DriftErrorCodes, Declares
<1>2. CASE job.files[file] # Unreadable
  <2>1. ASSUME NEW f \in FindingsOf(file), f.code \in DriftErrorCodes, f.policy = n
        PROVE  f \in drift(n)
    <3>1. f \in AuditOf(file, job.files[file], Policies)
      BY <1>2 DEF FindingsOf
    <3>2. \/ f \in DangerousStrings(file, parsed.texts)
          \/ \E m \in DOMAIN Policies :
               \/ f \in drift(m)
               \/ f \in BlockToolArgsStatic(file, parsed.texts, PolicyToolSets(Policies[m].rules), m)
      BY <3>1, Zenon DEF AuditOf
    <3> HIDE DEF parsed
    <3>3. f \notin DangerousStrings(file, parsed.texts)
      <4>1. ASSUME f \in DangerousStrings(file, parsed.texts) PROVE f.code \in DangerIds
        <5>1. PICK t : t[3] \in DangerIds /\ f = Finding(t[3], "warning", file, t, None)
          BY <4>1, Zenon DEF DangerousStrings
        <5>2. QED
          BY <5>1, FindingFields
      <4>2. QED
        BY <2>1, <4>1, ToolAuditAssumption DEF DriftErrorCodes, DriftCodes
    <3>4. \A m : f \notin BlockToolArgsStatic(file, parsed.texts, PolicyToolSets(Policies[m].rules), m)
      BY <2>1, FindingFields DEF BlockToolArgsStatic, DriftErrorCodes
    <3>5. ASSUME NEW m, f \in drift(m) PROVE f.policy = m
      BY <3>5, FindingFields DEF ComputeDrift
    <3>6. QED
      BY <2>1, <3>2, <3>3, <3>4, <3>5
  <2>2. \A f \in drift(n) : f \in FindingsOf(file)
    <3> DEFINE blocked(m) ==
                 BlockToolArgsStatic(file, parsed.texts, PolicyToolSets(Policies[m].rules), m)
    <3>1. FindingsOf(file) = DangerousStrings(file, parsed.texts)
                             \cup UNION {drift(m) \cup blocked(m) : m \in DOMAIN Policies}
      BY <1>2 DEF FindingsOf, AuditOf
    <3> HIDE DEF drift, blocked, parsed
    <3>2. QED
      BY <3>1
  <2>3. \A f \in drift(n) : f.policy = n
    BY FindingFields DEF ComputeDrift
  <2>4. (\E f \in drift(n) : f.code \in DriftErrorCodes /\ f.about = tool)
          <=> tool \in parsed.tools /\ Errs(PolicyToolSets(Policies[n].rules), tool)
    BY DriftFinding
  <2>5. QED
    BY <1>2, <2>1, <2>2, <2>3, <2>4 DEF Declares
<1>3. QED
  BY <1>1, <1>2

(* A report that tells of every manifest tells of its drift. *)
LEMMA DriftBlocks == ASSUME AuditWhole PROVE DriftIsBlocked
<1> SUFFICES ASSUME Audited,
                    NEW file \in found, NEW n \in DOMAIN Policies, NEW tool \in Names
             PROVE  DriftOf(file, n, tool) # {} <=>
                        Declares(file, tool) /\ Flagged(Policies[n].rules, tool)
  BY FlaggedBlocked, Zenon DEF DriftIsBlocked
<1> DEFINE report == children["static"].report
<1>1. Said(report, file) = Said(FindingsOf(file), file)
  BY DEF AuditWhole, Truthful
<1>2. \A fs, c : <<c, tool, n>> \in Said(fs, file) <=>
          \E f \in fs : f.file = file /\ f.code = c /\ f.about = tool /\ f.policy = n
  BY DEF Said
<1>3. \A f \in FindingsOf(file) : f.file = file
  BY FindingsTyped
<1>4. DriftOf(file, n, tool) # {} <=>
          \E c \in DriftErrorCodes : <<c, tool, n>> \in Said(report, file)
  BY <1>2 DEF DriftOf, DriftErrorCodes
<1>5. DriftOf(file, n, tool) # {} <=>
          Declares(file, tool) /\ Errs(PolicyToolSets(Policies[n].rules), tool)
  <2> HIDE DEF report
  <2>1. DriftOf(file, n, tool) # {} <=>
          \E c \in DriftErrorCodes : <<c, tool, n>> \in Said(FindingsOf(file), file)
    BY <1>1, <1>4
  <2>2. DriftOf(file, n, tool) # {} <=>
          \E f \in FindingsOf(file) : f.code \in DriftErrorCodes /\ f.policy = n /\ f.about = tool
    <3> DEFINE fs == FindingsOf(file)
    <3>1. \A c : <<c, tool, n>> \in Said(fs, file) <=>
              \E f \in fs : f.file = file /\ f.code = c /\ f.about = tool /\ f.policy = n
      BY <1>2
    <3> HIDE DEF fs
    <3>2. \A f \in fs : f.file = file
      BY <1>3 DEF fs
    <3>3. (\E c \in DriftErrorCodes : <<c, tool, n>> \in Said(fs, file)) <=>
            \E f \in fs : f.code \in DriftErrorCodes /\ f.policy = n /\ f.about = tool
      <4>1. ASSUME NEW c \in DriftErrorCodes, <<c, tool, n>> \in Said(fs, file)
            PROVE  \E f \in fs : f.code \in DriftErrorCodes /\ f.policy = n /\ f.about = tool
        BY <3>1, <4>1
      <4>2. ASSUME NEW f \in fs, f.code \in DriftErrorCodes, f.policy = n, f.about = tool
            PROVE  <<f.code, tool, n>> \in Said(fs, file)
        BY <3>1, <3>2, <4>2
      <4>3. QED
        BY <4>1, <4>2
    <3>4. QED
      BY <2>1, <3>3, Zenon DEF fs
  <2>3. QED
    BY <2>2, DriftOfManifest
<1>6. QED
  BY <1>5, ErrsFlagged

(* Whatever manifests and policies: audit static reports drift as an error  *)
(* for exactly the declared tools that a deny list or all allow lists are   *)
(* against; the guard blocks these, and with a single allow list no others. *)
THEOREM DriftCorrect == Spec => []DriftIsBlocked
  BY DriftBlocks, Tracking, PTL DEF Tracked, Collected

-----------------------------------------------------------------------------
(* The diff. *)

(* What a command returns stays what it was. *)
LEMMA EndsReports ==
    ASSUME NEW command, NEW status, NEW report, CommandEnds(command, status, report)
    PROVE  /\ job' = job /\ DOMAIN children' = DOMAIN children \cup {command}
           /\ \A c \in DOMAIN children' :
                c # command => c \in DOMAIN children /\ children'[c] = children[c]
           /\ children'[command].report = report /\ children'[command].status = status
  BY DEF CommandEnds

Compared ==
    /\ job \in Jobs
    /\ "diff" \in DOMAIN children /\ children["diff"].report # None =>
            Comparable /\ children["diff"].report = Comparison

LEMMA ComparedStep == ASSUME Compared, [Next]_vars PROVE Compared'
<1>1. job' = job =>
        (Comparable' <=> Comparable) /\ Comparison' = Comparison /\ job' \in Jobs
  BY DEF Comparable, Comparison, Compared
<1>2. ASSUME UNCHANGED <<job, children>> PROVE Compared'
  BY <1>1, <1>2 DEF Compared
<1>3. ASSUME NEW command, NEW status, NEW report, CommandEnds(command, status, report),
             command = "diff" => report = None \/ (Comparable /\ report = Comparison)
      PROVE  Compared'
  <2>1. CASE command = "diff"
    BY <1>1, <1>3, <2>1, EndsReports DEF Compared
  <2>2. CASE command # "diff"
    BY ZenonT(30), <1>1, <1>3, <2>2, EndsReports DEF Compared
  <2>3. QED
    BY <2>1, <2>2
<1>4. CASE Start
  <2>1. "diff" \notin DOMAIN children' /\ job' = job
    BY <1>4 DEF Start
  <2>2. QED
    BY <1>1, <2>1 DEF Compared
<1>5. CASE Command \/ NoDiff \/ ReadDiff \/ NoScan \/ UNCHANGED vars
  BY <1>2, <1>5 DEF Command, NoDiff, ReadDiff, NoScan, GoOn, vars, process
<1>6. CASE ReadScan \/ ReadStatic
  <2>1. UNCHANGED <<job, children>>
    BY <1>6 DEF ReadScan, ReadStatic, GoOn, Exit
  <2>2. QED
    BY <1>2, <2>1
<1>7. CASE DiffFails \/ ScanFails \/ StaticFails
  <2>1. \E command, status, report :
            CommandEnds(command, status, report) /\ (command = "diff" => report = None)
    <3>1. CASE DiffFails \/ StaticFails
      BY <3>1 DEF DiffFails, StaticFails, ChildFails
    <3>2. CASE ScanFails
      BY <3>2 DEF ScanFails, ChildFails
    <3>3. QED
      BY <1>7, <3>1, <3>2
  <2>2. QED
    BY <1>3, <2>1
<1>8. CASE DiffStep
  <2>1. \E status : CommandEnds("diff", status, IF Comparable THEN Comparison ELSE None)
    BY <1>8 DEF DiffStep
  <2>2. QED
    BY <1>3, <2>1
<1>9. CASE ScanStep
  <2>1. UNCHANGED <<job, children>> \/ \E status, report : CommandEnds("scan", status, report)
    BY <1>9 DEF ScanStep, ScanRefused, ScanBegins, ScanFile, ScanReport, process
  <2>2. QED
    BY <1>2, <1>3, <2>1
<1>10. CASE StaticStep
  <2>1. UNCHANGED <<job, children>> \/ \E status, report : CommandEnds("static", status, report)
    <3>1. AuditRefused => \E status, report : CommandEnds("static", status, report)
      BY DEF AuditRefused
    <3>2. AuditReport => \E status, report : CommandEnds("static", status, report)
      BY DEF AuditReport
    <3>3. ResolveManifests \/ EndWalk \/ (\E dir \in todo : Visit(dir))
            \/ (\E file \in left : AuditManifest(file)) => UNCHANGED <<job, children>>
      BY DEF ResolveManifests, EndWalk, Visit, AuditManifest, process
    <3>4. QED
      BY <1>10, <3>1, <3>2, <3>3 DEF StaticStep
  <2>2. QED
    BY <1>2, <1>3, <2>1
<1>11. QED
  BY <1>4, <1>5, <1>6, <1>7, <1>8, <1>9, <1>10 DEF Next

(* The last rule of a key. *)
LastOf(rules, key) == rules[SelectLastInSeq(rules, LAMBDA r : r.key = key)]

Lasting(rules, i) == \A k \in (i + 1)..Len(rules) : rules[k].key # rules[i].key

LEMMA LastRule ==
    ASSUME NEW rules \in Seq(RuleEntry), NEW key, Keyed(rules, key)
    PROVE  \E i \in DOMAIN rules :
              rules[i].key = key /\ Lasting(rules, i) /\ LastOf(rules, key) = rules[i]
<1> DEFINE I == {k \in 1..Len(rules) : rules[k].key = key}
           i == Max(I)
<1>1. DOMAIN rules = 1..Len(rules) /\ Len(rules) \in Nat
  OBVIOUS
<1>2. I # {} /\ I \in SUBSET (0..Len(rules))
  BY <1>1 DEF Keyed
<1>3. SelectLastInSeq(rules, LAMBDA r : r.key = key) = IF I # {} THEN i ELSE 0
  BY DEF SelectLastInSeq
<1>4. LastOf(rules, key) = rules[i]
  BY <1>2, <1>3 DEF LastOf
<1>5. i \in I /\ \A k \in I : k <= i
  <2> HIDE DEF I
  <2>1. QED
    BY <1>1, <1>2, MaxNatural
<1> HIDE DEF i
<1>6. i \in 1..Len(rules) /\ rules[i].key = key
  BY <1>5
<1>7. ASSUME NEW k \in (i + 1)..Len(rules) PROVE rules[k].key # key
  <2>1. k \in 1..Len(rules) /\ ~(k <= i)
    BY <1>1, <1>6
  <2>2. QED
    BY <1>5, <2>1
<1>8. QED
  BY <1>1, <1>4, <1>6, <1>7 DEF Lasting

(* The map has the rules that are last of their key.                        *)
LEMMA RulesMapLast ==
    ASSUME NEW doc, doc.rules \in Seq(RuleEntry)
    PROVE  /\ \A key \in DOMAIN RulesMap(doc) :
                RulesMap(doc)[key] \in LastRules(doc) /\ RulesMap(doc)[key].key = key
           /\ \A r \in LastRules(doc) :
                r.key \in DOMAIN RulesMap(doc) /\ RulesMap(doc)[r.key] = r
<1> DEFINE rules == doc.rules
<1>1. /\ DOMAIN RulesMap(doc) = {rules[i].key : i \in DOMAIN rules}
      /\ \A key \in DOMAIN RulesMap(doc) : RulesMap(doc)[key] = LastOf(rules, key)
  BY DEF RulesMap, LastOf
<1>2. \A r : r \in LastRules(doc) <=> \E i \in DOMAIN rules : Lasting(rules, i) /\ r = rules[i]
  BY DEF LastRules, Lasting
<1>3. rules \in Seq(RuleEntry) /\ DOMAIN rules = 1..Len(rules) /\ Len(rules) \in Nat
  OBVIOUS
<1> HIDE DEF rules
<1>4. ASSUME NEW key \in DOMAIN RulesMap(doc)
      PROVE  RulesMap(doc)[key] \in LastRules(doc) /\ RulesMap(doc)[key].key = key
  <2>1. Keyed(rules, key)
    BY <1>1 DEF Keyed
  <2>2. QED
    BY <1>1, <1>2, <1>3, <2>1, LastRule
<1>5. ASSUME NEW r \in LastRules(doc)
      PROVE  r.key \in DOMAIN RulesMap(doc) /\ RulesMap(doc)[r.key] = r
  <2>1. PICK i \in DOMAIN rules : Lasting(rules, i) /\ r = rules[i]
    BY <1>2
  <2>2. Keyed(rules, r.key) /\ r.key \in DOMAIN RulesMap(doc)
    BY <1>1, <2>1 DEF Keyed
  <2>3. PICK k \in DOMAIN rules :
            rules[k].key = r.key /\ Lasting(rules, k) /\ LastOf(rules, r.key) = rules[k]
    BY <1>3, <2>2, LastRule
  <2>4. ~(i < k) /\ ~(k < i)
    BY <1>3, <2>1, <2>3 DEF Lasting
  <2>5. i = k
    BY <1>3, <2>4
  <2>6. QED
    BY <1>1, <2>1, <2>2, <2>3, <2>5
<1>6. QED
  BY <1>4, <1>5

(* With one rule per key each is the last.                                  *)
LEMMA AllLast ==
    ASSUME NEW doc, doc.rules \in Seq(RuleEntry), Distinct(doc.rules)
    PROVE  LastRules(doc) = ToSet(doc.rules)
<1> DEFINE rules == doc.rules
<1>1. rules \in Seq(RuleEntry) /\ DOMAIN rules = 1..Len(rules) /\ Len(rules) \in Nat
  OBVIOUS
<1>2. \A r : r \in LastRules(doc) <=> \E i \in DOMAIN rules : Lasting(rules, i) /\ r = rules[i]
  BY DEF LastRules, Lasting
<1>3. \A r : r \in ToSet(rules) <=> \E i \in DOMAIN rules : r = rules[i]
  BY DEF ToSet
<1>4. ASSUME NEW i \in DOMAIN rules PROVE Lasting(rules, i)
  <2>1. ASSUME NEW k \in (i + 1)..Len(rules) PROVE rules[k].key # rules[i].key
    <3>1. k \in DOMAIN rules /\ k # i
      BY <1>1
    <3>2. QED
      BY <3>1 DEF Distinct
  <2>2. QED
    BY <2>1 DEF Lasting
<1>5. QED
  BY <1>2, <1>3, <1>4

LEMMA DiffEmpty ==
    ASSUME NEW a, NEW b, a.rules \in Seq(RuleEntry), b.rules \in Seq(RuleEntry)
    PROVE  DiffPolicies(a, b) = {} <=>
              /\ a.mode = b.mode /\ a.byte = b.byte /\ a.extends = b.extends
              /\ LastRules(a) = LastRules(b)
<1> DEFINE A == RulesMap(a)
           B == RulesMap(b)
           Within(f, g) == \A key \in DOMAIN f : key \in DOMAIN g /\ f[key] = g[key]
<1>1. /\ Within(A, B) <=> LastRules(a) \subseteq LastRules(b)
      /\ Within(B, A) <=> LastRules(b) \subseteq LastRules(a)
  <2>1. /\ \A key \in DOMAIN A : A[key] \in LastRules(a) /\ A[key].key = key
        /\ \A r \in LastRules(a) : r.key \in DOMAIN A /\ A[r.key] = r
    BY RulesMapLast
  <2>2. /\ \A key \in DOMAIN B : B[key] \in LastRules(b) /\ B[key].key = key
        /\ \A r \in LastRules(b) : r.key \in DOMAIN B /\ B[r.key] = r
    BY RulesMapLast
  <2> HIDE DEF A, B
  <2>3. QED
    BY <2>1, <2>2
<1>2. DiffPolicies(a, b) =
          {Reported("changed", field) : field \in {f \in {"mode", "extends", "byte"} : a[f] # b[f]}}
          \cup {Reported("removed", key) : key \in DOMAIN A \ DOMAIN B}
          \cup {Reported("changed", key) : key \in {k \in DOMAIN A \cap DOMAIN B : A[k] # B[k]}}
          \cup {Reported("added", key) : key \in DOMAIN B \ DOMAIN A}
  BY DEF DiffPolicies
<1> HIDE DEF A, B
<1>3. DiffPolicies(a, b) = {} <=>
          /\ a["mode"] = b["mode"] /\ a["extends"] = b["extends"] /\ a["byte"] = b["byte"]
          /\ DOMAIN A = DOMAIN B /\ \A k \in DOMAIN A : A[k] = B[k]
  BY <1>2
<1>4. (DOMAIN A = DOMAIN B /\ \A k \in DOMAIN A : A[k] = B[k]) <=> Within(A, B) /\ Within(B, A)
  OBVIOUS
<1> HIDE DEF Within
<1>5. QED
  BY <1>1, <1>3, <1>4

(* A policy that resolves is a document, and is one after validation. *)
LEMMA ResolvedRules ==
    ASSUME job \in Jobs, NEW file \in {job.policy, job.baseline}, Resolves(file)
    PROVE  Validated(file).rules \in Seq(RuleEntry)
<1>1. file \in PolicyDocuments
  BY WorkspaceAssumption DEF IsJob, Resolves, PolicyFile
<1>2. Validated(file).rules = file.rules
  BY <1>1 DEF Validated, PolicyDocuments
<1>3. QED
  BY <1>1, <1>2 DEF PolicyDocuments

(* Whatever the policies: diffPolicies reports nothing exactly when they    *)
(* have the same mode, flags and last rules of each key, that is, with one  *)
(* rule per key, the same rules.                                            *)
THEOREM DiffCorrect == Spec => []DiffExact
<1>1. Init => Compared
  BY DEF Init, Compared
<1>2. Compared => DiffExact
  <2> DEFINE a == Validated(job.baseline)
             b == Validated(job.policy)
             Alike == a.mode = b.mode /\ a.byte = b.byte /\ a.extends = b.extends
             report == children["diff"].report
  <2> SUFFICES ASSUME Compared, "diff" \in DOMAIN children, report # None
               PROVE  /\ report = {} <=> Alike /\ LastRules(a) = LastRules(b)
                      /\ Distinct(a.rules) /\ Distinct(b.rules) =>
                            (report = {} <=> Alike /\ ToSet(a.rules) = ToSet(b.rules))
    BY DEF DiffExact
  <2>1. /\ report = DiffPolicies(a, b)
        /\ Resolves(job.baseline) /\ Resolves(job.policy) /\ job \in Jobs
    BY DEF Compared, Comparable, Comparison
  <2>2. a.rules \in Seq(RuleEntry) /\ b.rules \in Seq(RuleEntry)
    BY <2>1, ResolvedRules
  <2> HIDE DEF a, b, report
  <2>3. report = {} <=> Alike /\ LastRules(a) = LastRules(b)
    BY <2>1, <2>2, DiffEmpty
  <2>4. Distinct(a.rules) /\ Distinct(b.rules) =>
            LastRules(a) = ToSet(a.rules) /\ LastRules(b) = ToSet(b.rules)
    BY <2>2, AllLast
  <2> HIDE DEF Alike
  <2>5. QED
    BY <2>3, <2>4
<1>3. QED
  BY <1>1, <1>2, ComparedStep, PTL DEF Spec

(* The last rule of a key stays, unless what is laid over mentions the key. *)
LEMMA LastKept ==
    ASSUME NEW a \in Seq(RuleEntry), NEW o \in Seq(RuleEntry), NEW x, Laid(a, o, Len(o), x),
           NEW key, Keyed(a, key), ~Keyed(o, key)
    PROVE  LastOf(x, key) = LastOf(a, key)
<1> DEFINE A == {i \in 1..Len(a) : a[i].key = key}
           X == {i \in 1..Len(x) : x[i].key = key}
<1>1. /\ x \in Seq(RuleEntry) /\ Len(a) \in Nat /\ Len(x) \in Nat /\ Len(a) <= Len(x)
      /\ DOMAIN a = 1..Len(a) /\ DOMAIN o = 1..Len(o)
  BY DEF Laid, Kept
<1>2. \A i \in 1..Len(a) : i \in 1..Len(x) /\ x[i].key = a[i].key
  BY <1>1 DEF Laid, Kept
<1>3. ASSUME NEW i \in 1..Len(x), x[i].key = key PROVE i \in 1..Len(a) /\ x[i] = a[i]
  <2>1. \A j \in 1..Len(o) : x[i] # o[j]
    BY <1>1, <1>3 DEF Keyed
  <2>2. i <= Len(a) /\ x[i] = a[i]
    BY <2>1 DEF Laid, FromBoth
  <2>3. QED
    BY <1>1, <2>2
<1>4. X = A
  BY <1>2, <1>3
<1>5. Max(A) \in A
  <2>1. A # {} /\ A \in SUBSET (0..Len(a))
    BY <1>1 DEF Keyed
  <2> HIDE DEF A
  <2>2. QED
    BY <1>1, <2>1, MaxNatural
<1>6. SelectLastInSeq(a, LAMBDA r : r.key = key) = Max(A)
  BY <1>5 DEF SelectLastInSeq
<1>7. SelectLastInSeq(x, LAMBDA r : r.key = key) = Max(X)
  BY <1>4, <1>5 DEF SelectLastInSeq
<1>8. x[Max(A)] = a[Max(A)]
  BY <1>3, <1>4, <1>5
<1>9. QED
  BY <1>4, <1>6, <1>7, <1>8 DEF LastOf

(* What diffPolicies can report of a policy and the one laid over it. *)
LEMMA MergeReports ==
    ASSUME NEW a \in PolicyDocuments, NEW b \in PolicyDocuments, a.extends = None,
           NEW entry \in DiffPolicies(a, MergePolicyDocuments(a, b))
    PROVE  /\ entry.kind # "removed" /\ entry.path # "extends"
           /\ entry.path \notin {"mode", "byte"} => Keyed(b.rules, entry.path)
           /\ entry.path = "byte" => \E flag \in ByteFlags : b.byte[flag] # None
<1> DEFINE m == MergePolicyDocuments(a, b)
           A == RulesMap(a)
           B == RulesMap(m)
<1>1. /\ a.rules \in Seq(RuleEntry) /\ b.rules \in Seq(RuleEntry)
      /\ a.byte \in [ByteFlags -> {"true", "false", "invalid", None}]
  BY DEF PolicyDocuments
<1>2. m["extends"] = None /\ m["byte"] = MergeByte(a, b) /\ m.rules = FoldLeft(ReplaceRule, a.rules, b.rules)
  BY DEF MergePolicyDocuments
<1>3. Laid(a.rules, b.rules, Len(b.rules), m.rules)
  BY <1>1, <1>2, LaidOver
<1>4. \A key : /\ key \in DOMAIN A <=> Keyed(a.rules, key)
               /\ key \in DOMAIN B <=> Keyed(m.rules, key)
  BY DEF RulesMap, Keyed
<1>5. m.rules \in Seq(RuleEntry) /\ DOMAIN m.rules = 1..Len(m.rules)
      /\ DOMAIN a.rules = 1..Len(a.rules) /\ DOMAIN b.rules = 1..Len(b.rules)
  BY <1>1, <1>3 DEF Laid
<1>6. ASSUME NEW key, Keyed(a.rules, key) PROVE Keyed(m.rules, key)
  <2>1. PICK i \in 1..Len(a.rules) : a.rules[i].key = key
    BY <1>5, <1>6 DEF Keyed
  <2>2. i \in 1..Len(m.rules) /\ m.rules[i].key = key
    BY <1>1, <1>3, <1>5, <2>1 DEF Laid, Kept
  <2>3. QED
    BY <1>5, <2>2 DEF Keyed
<1>7. ASSUME NEW key, Keyed(m.rules, key), ~Keyed(a.rules, key) PROVE Keyed(b.rules, key)
  <2>1. PICK i \in 1..Len(m.rules) : m.rules[i].key = key
    BY <1>5, <1>7 DEF Keyed
  <2>2. (\E j \in 1..Len(b.rules) : m.rules[i] = b.rules[j])
        \/ (i <= Len(a.rules) /\ m.rules[i] = a.rules[i])
    BY <1>3, <2>1 DEF Laid, FromBoth
  <2>3. ~(i <= Len(a.rules) /\ m.rules[i] = a.rules[i])
    BY <1>1, <1>5, <1>7, <2>1 DEF Keyed
  <2>4. QED
    BY <1>5, <2>1, <2>2, <2>3 DEF Keyed
<1>8. ASSUME NEW key, Keyed(a.rules, key), A[key] # B[key] PROVE Keyed(b.rules, key)
  <2>1. A[key] = LastOf(a.rules, key)
    BY <1>4, <1>8 DEF RulesMap, LastOf
  <2>2. B[key] = LastOf(m.rules, key)
    BY <1>4, <1>6, <1>8 DEF RulesMap, LastOf
  <2> HIDE DEF m, A, B
  <2>3. QED
    BY <1>1, <1>3, <1>8, <2>1, <2>2, LastKept
<1>9. ASSUME \A flag \in ByteFlags : b.byte[flag] = None PROVE m["byte"] = a["byte"]
  <2>1. \A flag \in ByteFlags : MergeByte(a, b)[flag] = a.byte[flag]
    BY <1>9 DEF MergeByte, Or
  <2>2. MergeByte(a, b) = [flag \in ByteFlags |-> MergeByte(a, b)[flag]]
    BY DEF MergeByte
  <2>3. a.byte = [flag \in ByteFlags |-> a.byte[flag]]
    BY <1>1
  <2>4. QED
    BY <1>2, <2>1, <2>2, <2>3
<1>10. DiffPolicies(a, m) =
          {Reported("changed", field) : field \in {f \in {"mode", "extends", "byte"} : a[f] # m[f]}}
          \cup {Reported("removed", key) : key \in DOMAIN A \ DOMAIN B}
          \cup {Reported("changed", key) : key \in {k \in DOMAIN A \cap DOMAIN B : A[k] # B[k]}}
          \cup {Reported("added", key) : key \in DOMAIN B \ DOMAIN A}
  BY DEF DiffPolicies
<1>11. a["extends"] = None
  OBVIOUS
<1>12. ~Keyed(a.rules, "extends") /\ ~Keyed(m.rules, "extends")
       /\ ~Keyed(a.rules, "mode") /\ ~Keyed(m.rules, "mode")
       /\ ~Keyed(a.rules, "byte") /\ ~Keyed(m.rules, "byte")
  <2>1. ASSUME NEW rules \in Seq(RuleEntry), NEW key \in {"extends", "mode", "byte"}
        PROVE  ~Keyed(rules, key)
    <3>0. \A j \in DOMAIN rules : rules[j] \in RuleEntry
      OBVIOUS
    <3>1. \A j \in DOMAIN rules : rules[j].key \in RuleKeys \cup {"unknown"}
      BY <3>0 DEF RuleEntry
    <3>2. QED
      BY <3>1 DEF Keyed, RuleKeys
  <2>2. QED
    BY <1>1, <1>5, <2>1
<1> HIDE DEF m, A, B
<1>13. \/ \E f \in {"mode", "extends", "byte"} : a[f] # m[f] /\ entry = Reported("changed", f)
       \/ \E key \in DOMAIN A \cap DOMAIN B : A[key] # B[key] /\ entry = Reported("changed", key)
       \/ \E key \in DOMAIN B \ DOMAIN A : entry = Reported("added", key)
       \/ \E key \in DOMAIN A \ DOMAIN B : entry = Reported("removed", key)
  BY <1>10 DEF m
<1>14. CASE \E f \in {"mode", "extends", "byte"} : a[f] # m[f] /\ entry = Reported("changed", f)
  BY <1>2, <1>9, <1>11, <1>14 DEF Reported
<1>15. CASE \E key \in DOMAIN A \cap DOMAIN B : A[key] # B[key] /\ entry = Reported("changed", key)
  BY <1>4, <1>8, <1>12, <1>15 DEF Reported
<1>16. CASE \E key \in DOMAIN B \ DOMAIN A : entry = Reported("added", key)
  BY <1>4, <1>7, <1>12, <1>16 DEF Reported
<1>17. CASE \E key \in DOMAIN A \ DOMAIN B : entry = Reported("removed", key)
  BY <1>4, <1>6, <1>17
<1>18. QED
  BY <1>13, <1>14, <1>15, <1>16, <1>17

(* A policy laid over another changes only what it mentions, in the report  *)
(* of diffPolicies, and removes nothing: for all policies, also with        *)
(* several rules of one key.                                                *)
THEOREM MergeCorrect == Spec => []MergeLocal
<1>1. Init => Compared
  BY DEF Init, Compared
<1>2. Compared => MergeLocal
  <2> DEFINE a == Validated(job.baseline)
             b == Validated(job.policy)
  <2> SUFFICES ASSUME Compared, "diff" \in DOMAIN children, Comparable,
                      NEW entry \in DiffPolicies(a, MergePolicyDocuments(a, b))
               PROVE  /\ entry.kind # "removed"
                      /\ CASE entry.path = "mode" -> TRUE
                           [] entry.path = "byte" -> \E flag \in ByteFlags : b.byte[flag] # None
                           [] entry.path = "extends" -> FALSE
                           [] OTHER -> \E i \in DOMAIN b.rules : b.rules[i].key = entry.path
    BY DEF MergeLocal
  <2>1. job \in Jobs /\ Resolves(job.baseline) /\ Resolves(job.policy)
    BY DEF Compared, Comparable
  <2>2. /\ job.baseline \in PolicyDocuments /\ job.policy \in PolicyDocuments
        /\ job.baseline.extends = None
    BY <2>1, WorkspaceAssumption DEF IsJob, Resolves, PolicyFile
  <2>3. a \in PolicyDocuments /\ b \in PolicyDocuments
    BY <2>1, <2>2, AcceptedTyped DEF Resolves
  <2>4. a.extends = None
    BY <2>2 DEF Validated, PolicyDocuments
  <2> HIDE DEF a, b
  <2>5. /\ entry.kind # "removed" /\ entry.path # "extends"
        /\ entry.path \notin {"mode", "byte"} => Keyed(b.rules, entry.path)
        /\ entry.path = "byte" => \E flag \in ByteFlags : b.byte[flag] # None
    BY <2>3, <2>4, MergeReports
  <2>6. QED
    BY <2>5 DEF Keyed
<1>3. QED
  BY <1>1, <1>2, ComparedStep, PTL DEF Spec

-----------------------------------------------------------------------------
(* Exit codes. *)

CleanManifest ==
    /\ PoliciesLoad
    /\ Given(job.manifest) /\ job.manifest \in DOMAIN job.files =>
          \A f \in FindingsOf(job.manifest) : f.severity # "error"

(* What the code of a program tells of the checkout. *)
CodeTrue(program, code) ==
    /\ program = "scan" => code = 2 \/ (code \in {0, 1} /\ Loads(job.policy))
    /\ program = "static" => code = 3 \/ PoliciesLoad
    /\ program = "static" /\ code = 3 => ~PoliciesLoad \/ job.sarif = "fails"
    /\ program = "static" /\ code = 0 => CleanManifest
    /\ program \notin {"action", "scan", "static"} => code \in Exits(program)

CodesTrue ==
    /\ codes \in Seq(0..3)
    /\ \A k \in DOMAIN codes : CodeTrue(job.programs[k], codes[k])

(* And which program is at a place, with what it has checked on its way.    *)
Coded ==
    /\ job \in Jobs /\ CodesTrue
    /\ at \in {"scan", "scanning"} => Program \in {"action", "scan"}
    /\ at \in {"static", "walking", "auditing"} => Program \in {"action", "static"}
    /\ at \in {"diff", "diff ended", "scan ended", "static ended"} => Program = "action"
    /\ at = "scanning" => Loads(job.policy)
    /\ at \in {"walking", "auditing"} => PoliciesLoad
    /\ at = "walking" => ~(Given(job.manifest) /\ job.manifest \notin Directories)
    /\ at = "auditing" /\ Given(job.manifest) /\ job.manifest \in DOMAIN job.files =>
          found = {job.manifest}

LEMMA SameCode ==
    ASSUME job' = job
    PROVE  \A program, code : CodeTrue(program, code)' <=> CodeTrue(program, code)
<1>1. \A doc : Loaded(doc)' = Loaded(doc)
  BY DEF Loaded
<1>2. PolicyFiles' = PolicyFiles
  BY DEF PolicyFiles
<1>3. (PoliciesLoad' <=> PoliciesLoad) /\ (CleanManifest' <=> CleanManifest)
  BY <1>2, SameFindings DEF PoliciesLoad, CleanManifest
<1>4. \A program : Exits(program)' = Exits(program)
  <2>1. \A file : ManifestReads(file)' <=> ManifestReads(file)
    BY DEF ManifestReads
  <2>2. \A policy, file : DriftExit(policy, file)' = DriftExit(policy, file)
    BY <1>1, <2>1 DEF DriftExit
  <2>3. \A file : ValidateManifestExit(file)' = ValidateManifestExit(file)
    BY <2>1 DEF ValidateManifestExit
  <2>4. \A sound : DoctorExit(sound)' = DoctorExit(sound)
    BY <2>3 DEF DoctorExit
  <2>5. \A format : ScanStdin(format)' = ScanStdin(format)
    BY <1>1 DEF ScanStdin
  <2>6. \A check : DiffExit(check)' = DiffExit(check)
    BY DEF DiffExit, Comparable, Comparison
  <2>7. QED
    BY <2>2, <2>3, <2>4, <2>5, <2>6 DEF Exits
<1>5. QED
  BY <1>3, <1>4 DEF CodeTrue

LEMMA ExitsTyped ==
    ASSUME NEW program \in Programs \ {"action", "scan", "static"}
    PROVE  Exits(program) \subseteq 0..3
<1>1. /\ \A p : ValidateExit(p) \in 0..3 /\ ResolveExit(p) \in 0..3
      /\ \A p, m : DriftExit(p, m) \in 0..3
      /\ \A m : ValidateManifestExit(m) \in 0..3
      /\ \A x : DoctorExit(x) \in 0..3 /\ DiffExit(x) \in 0..3
      /\ \A x : ScanStdin(x) \in 0..3
  BY DEF ValidateExit, ResolveExit, DriftExit, ValidateManifestExit, DoctorExit, DiffExit, ScanStdin
<1>2. program \in {"scan -", "drift", "validate-manifest", "validate", "resolve", "diff", "doctor"}
  BY DEF Programs
<1>3. CASE program \in {"validate", "resolve"}
  BY <1>1, <1>3 DEF Exits
<1>4. CASE program = "diff"
  <2>1. Exits(program) = {DiffExit(FALSE)} \/ Exits(program) = {2}
    BY <1>4 DEF Exits
  <2>2. DiffExit(FALSE) \in 0..3
    BY <1>1
  <2>3. 2 \in 0..3
    OBVIOUS
  <2>4. QED
    BY <2>1, <2>2, <2>3
<1>5. CASE program = "drift"
  BY <1>1, <1>5 DEF Exits
<1>6. CASE program = "validate-manifest"
  BY <1>1, <1>6 DEF Exits
<1>7. CASE program = "doctor"
  BY <1>1, <1>7 DEF Exits
<1>8. CASE program = "scan -"
  BY <1>1, <1>8 DEF Exits
<1>9. QED
  BY <1>2, <1>3, <1>4, <1>5, <1>6, <1>7, <1>8

LEMMA CodesKept ==
    ASSUME CodesTrue, UNCHANGED <<job, codes>>
    PROVE  CodesTrue'
<1>1. codes' = codes /\ job' = job
  OBVIOUS
<1>2. \A k \in DOMAIN codes : CodeTrue(job.programs[k], codes[k])
  BY Zenon DEF CodesTrue
<1>3. \A k \in DOMAIN codes : CodeTrue(job.programs[k], codes[k])'
  BY <1>1, <1>2, SameCode DEF CodeTrue
<1>4. QED
  BY <1>1, <1>3, Zenon DEF CodesTrue

(* A code more. *)
LEMMA CodedAppend ==
    ASSUME Coded, job' = job, NEW code \in 0..3, codes' = Append(codes, code),
           CodeTrue(Program, code), at' = "idle"
    PROVE  Coded'
<1>1. /\ codes \in Seq(0..3) /\ Len(codes) \in Nat /\ DOMAIN codes = 1..Len(codes)
      /\ \A k \in DOMAIN codes : CodeTrue(job.programs[k], codes[k])
  <2>1. codes \in Seq(0..3) /\ \A k \in DOMAIN codes : CodeTrue(job.programs[k], codes[k])
    BY Zenon DEF Coded, CodesTrue
  <2>2. QED
    BY <2>1
<1>2. /\ codes' \in Seq(0..3) /\ DOMAIN codes' = 1 .. Len(codes) + 1
      /\ \A k \in 1 .. Len(codes) : codes'[k] = codes[k]
      /\ codes'[Len(codes) + 1] = code
  BY <1>1, AppendProperties
<1>3. \A k \in DOMAIN codes' : CodeTrue(job.programs[k], codes'[k])
  BY <1>1, <1>2 DEF Program
<1>4. ASSUME NEW k \in DOMAIN codes' PROVE CodeTrue(job.programs[k], codes[k])'
  <2>1. PICK program, said : program = job'.programs[k] /\ said = codes'[k]
    OBVIOUS
  <2>2. CodeTrue(program, said)
    BY <1>3, <2>1
  <2>3. CodeTrue(program, said)'
    BY <2>2, SameCode
  <2>4. QED
    BY <2>1, <2>3, Zenon DEF CodeTrue
<1>5. CodesTrue'
  BY <1>2, <1>4 DEF CodesTrue
<1>6. QED
  BY <1>5 DEF Coded

(* A command returns. *)
LEMMA CodedEnds ==
    ASSUME Coded, NEW command \in {"diff", "scan", "static"}, NEW status, NEW report,
           CommandEnds(command, status, report), at # "idle",
           Program \in {"action", command},
           Program # "action" => status \in 0..3 /\ CodeTrue(command, status)
    PROVE  Coded'
<1>1. /\ AfterChild["diff"] = "diff ended" /\ AfterChild["scan"] = "scan ended"
      /\ AfterChild["static"] = "static ended"
  BY DEF AfterChild
<1>2. job' = job
  BY DEF CommandEnds
<1>3. CASE Program = "action"
  <2>1. codes' = codes /\ at' \in {"diff ended", "scan ended", "static ended"}
    BY <1>1, <1>3 DEF CommandEnds
  <2>2. CodesTrue'
    BY <1>2, <2>1, CodesKept DEF Coded
  <2>3. Program' = "action"
    BY <1>2, <1>3, <2>1 DEF Program
  <2>4. QED
    BY <1>2, <2>1, <2>2, <2>3 DEF Coded
<1>4. CASE Program # "action"
  <2>1. codes' = Append(codes, status) /\ at' = "idle"
    BY <1>4 DEF CommandEnds
  <2>2. QED
    BY <1>2, <1>4, <2>1, CodedAppend
<1>5. QED
  BY <1>3, <1>4

(* The action goes on, or a command does. *)
LEMMA CodedGoOn ==
    ASSUME Coded, UNCHANGED <<job, codes>>,
           \/ at' \in {"scan", "static"} /\ Program = "action"
           \/ at' = "scanning" /\ Program \in {"action", "scan"} /\ Loads(job.policy)
    PROVE  Coded'
<1>1. CodesTrue'
  BY CodesKept DEF Coded
<1>2. Program' = Program /\ (Loads(job.policy))' = Loads(job.policy)
  BY DEF Program
<1>3. QED
  BY <1>1, <1>2 DEF Coded

(* The audit goes on. *)
LEMMA CodedAudit ==
    ASSUME Coded, UNCHANGED <<job, codes>>, at' \in {"walking", "auditing"},
           Program \in {"action", "static"}, PoliciesLoad,
           at' = "walking" => ~(Given(job.manifest) /\ job.manifest \notin Directories),
           at' = "auditing" /\ Given(job.manifest) /\ job.manifest \in DOMAIN job.files =>
                found' = {job.manifest}
    PROVE  Coded'
<1>1. CodesTrue'
  BY CodesKept DEF Coded
<1>2. Program' = Program /\ PoliciesLoad' = PoliciesLoad /\ Directories' = Directories
  BY DEF Program, PoliciesLoad, PolicyFiles, Directories
<1>3. QED
  BY <1>1, <1>2 DEF Coded

(* No file is a directory. *)
LEMMA NoFileInside ==
    ASSUME job \in Jobs
    PROVE  DOMAIN job.files \cap Directories = {}
<1> SUFFICES ASSUME NEW d \in DOMAIN job.files, d \in Directories PROVE FALSE
  OBVIOUS
<1>1. /\ DOMAIN job.files \subseteq Path \ {<<>>}
      /\ \A file, other \in DOMAIN job.files : IsPrefix(file, other) => file = other
      /\ d = <<>> \/ \E f \in DOMAIN job.files : \E n \in 1 .. Len(f) - 1 : d = SubSeq(f, 1, n)
  BY Tree
<1>2. PICK f \in DOMAIN job.files : \E n \in 1 .. Len(f) - 1 : d = SubSeq(f, 1, n)
  BY <1>1
<1>3. PICK n \in 1 .. Len(f) - 1 : d = SubSeq(f, 1, n)
  BY <1>2
<1>4. f \in Path /\ d \in Path /\ Len(f) \in Nat /\ n \in 0..Len(f)
  BY <1>1, <1>3 DEF Path
<1>5. Len(d) = n /\ \A k \in 1..n : d[k] = f[k]
  BY <1>3, <1>4, Cut
<1>6. IsPrefix(d, f)
  BY <1>4, <1>5, PrefixIff
<1>7. d = f
  BY <1>1, <1>6
<1>8. QED
  BY <1>3, <1>4, <1>5, <1>7

(* Status 0 of the audit: no manifest it was given has an error.            *)
LEMMA ReportClean ==
    ASSUME Tracked, Coded, AuditReport,
           NEW report, report = ApplyStrict(findings, Strict), StaticErrors(report, Strict) = {}
    PROVE  CleanManifest
<1>1. /\ at = "auditing" /\ left = {} /\ PoliciesLoad
      /\ findings = UNION {FindingsOf(f) : f \in found}
  BY DEF AuditReport, Coded, Tracked, Collected
<1>2. SUFFICES ASSUME Given(job.manifest), job.manifest \in DOMAIN job.files,
                      NEW f \in FindingsOf(job.manifest), f.severity = "error"
               PROVE  FALSE
  BY <1>1 DEF CleanManifest
<1>3. found = {job.manifest}
  BY <1>1, <1>2 DEF Coded
<1>4. f \in findings
  BY <1>1, <1>3
<1>5. \A x \in findings : IsFinding(x)
  <2>1. \A file : \A x \in FindingsOf(file) : IsFinding(x)
    BY FindingsTyped
  <2>2. QED
    BY <1>1, <2>1
<1>6. \A x \in findings : \E g \in ApplyStrict(findings, Strict) :
          Same(x, g) /\ (x.severity = "error" => g.severity = "error")
  BY <1>5, StrictReport
<1>7. PICK g \in report : Same(f, g) /\ g.severity = "error"
  BY <1>2, <1>4, <1>6
<1>8. g.code = f.code /\ f.code \in HardCodes
  BY <1>2, <1>7, FindingsTyped DEF Same
<1>9. g \in StaticErrors(report, Strict)
  BY <1>7, <1>8 DEF StaticErrors, HardCodes
<1>10. QED
  BY <1>9

LEMMA CodedInit == ASSUME Init PROVE Coded
  BY EmptySeq DEF Init, Coded, CodesTrue

(* A program of the job: the one that is running. *)
LEMMA Listed ==
    ASSUME job \in Jobs, codes \in Seq(0..3), Running
    PROVE  Program \in Programs
<1>1. IsJob(job)
  BY WorkspaceAssumption
<1>2. job.programs \in Seq(Programs)
  BY <1>1 DEF IsJob
<1>3. Len(codes) \in Nat /\ Len(codes) < Len(job.programs)
  BY DEF Running
<1>4. Len(codes) + 1 \in 1..Len(job.programs)
  BY <1>2, <1>3
<1>5. QED
  BY <1>2, <1>4 DEF Program

LEMMA CodedStart == ASSUME Coded, Start PROVE Coded'
<1>1. job' = job /\ codes' = codes /\ Program' = Program
  BY DEF Start, Program
<1>2. CodesTrue'
  BY <1>1, CodesKept DEF Coded
<1>3. \/ Program = "action" /\ at' = "diff"
      \/ Program \in {"scan", "static"} /\ at' = Program
  BY DEF Start
<1>4. QED
  BY <1>1, <1>2, <1>3 DEF Coded

LEMMA CodedCommand == ASSUME Coded, Command PROVE Coded'
<1>1. job \in Jobs /\ codes \in Seq(0..3)
  BY Zenon DEF Coded, CodesTrue
<1>2. Program \in Programs \ {"action", "scan", "static"}
  BY <1>1, Listed DEF Command
<1>3. PICK code \in Exits(Program) : codes' = Append(codes, code)
  BY DEF Command
<1>4. code \in 0..3
  BY <1>2, <1>3, ExitsTyped
<1>5. CodeTrue(Program, code)
  BY <1>2, <1>3 DEF CodeTrue
<1>6. job' = job /\ at' = "idle"
  BY DEF Command, Running
<1>7. QED
  BY <1>3, <1>4, <1>5, <1>6, CodedAppend

(* The action itself tells nothing. *)
LEMMA CodedExit ==
    ASSUME Coded, Program = "action", NEW code \in 0..3, Exit(code)
    PROVE  Coded'
<1>1. CodeTrue(Program, code)
  BY DEF CodeTrue
<1>2. QED
  BY <1>1, CodedAppend DEF Exit

LEMMA CodedScan == ASSUME Coded, ScanStep PROVE Coded'
<1>1. CASE ScanRefused
  <2>1. CommandEnds("scan", 2, None) /\ at = "scan"
    BY <1>1 DEF ScanRefused
  <2>2. 2 \in 0..3 /\ CodeTrue("scan", 2)
    BY DEF CodeTrue
  <2>3. QED
    BY <2>1, <2>2, CodedEnds DEF Coded
<1>2. CASE ScanBegins
  BY <1>2, CodedGoOn DEF ScanBegins, Coded
<1>3. CASE ScanFile
  <2>1. CASE UNCHANGED process
    <3>1. CodesTrue'
      BY <2>1, CodesKept DEF Coded, process
    <3>2. at = "scanning" /\ at' = at /\ job' = job /\ codes' = codes /\ Program' = Program
      BY <1>3, <2>1 DEF ScanFile, process, Program
    <3>3. (Loads(job.policy))' = Loads(job.policy)
      BY <3>2
    <3>4. QED
      BY <3>1, <3>2, <3>3 DEF Coded
  <2>2. CASE CommandEnds("scan", 2, None)
    <3>1. at = "scanning"
      BY <1>3 DEF ScanFile
    <3>2. 2 \in 0..3 /\ CodeTrue("scan", 2)
      BY DEF CodeTrue
    <3>3. QED
      BY <2>2, <3>1, <3>2, CodedEnds DEF Coded
  <2>3. QED
    BY <1>3, <2>1, <2>2 DEF ScanFile
<1>4. CASE ScanReport
  <2>1. at = "scanning" /\ \E status \in {0, 1} : \E report : CommandEnds("scan", status, report)
    BY <1>4 DEF ScanReport
  <2>2. PICK status \in {0, 1} : \E report : CommandEnds("scan", status, report)
    BY <2>1
  <2>3. status \in 0..3 /\ CodeTrue("scan", status)
    BY <2>1, <2>2 DEF CodeTrue, Coded
  <2>4. QED
    BY <2>1, <2>2, <2>3, CodedEnds DEF Coded
<1>5. QED
  BY <1>1, <1>2, <1>3, <1>4 DEF ScanStep

LEMMA CodedStatic == ASSUME Tracked, Coded, StaticStep PROVE Coded'
<1>1. CASE AuditRefused
  <2>1. /\ at = "static"
        /\ CommandEnds("static", IF PoliciesLoad THEN 2 ELSE 3, None)
    BY <1>1 DEF AuditRefused
  <2>2. PICK status : status = IF PoliciesLoad THEN 2 ELSE 3
    OBVIOUS
  <2>3. status \in 0..3 /\ CodeTrue("static", status)
    BY <2>2 DEF CodeTrue
  <2>4. QED
    BY <2>1, <2>2, <2>3, CodedEnds DEF Coded
<1>2. CASE ResolveManifests
  <2>1. /\ at = "static" /\ PoliciesLoad /\ UNCHANGED <<job, codes>>
        /\ at' \in {"walking", "auditing"}
        /\ IF Given(job.manifest) /\ job.manifest \notin Directories
              THEN at' = "auditing" /\ found' = {job.manifest} \cap DOMAIN job.files
              ELSE at' = "walking"
    BY <1>2 DEF ResolveManifests
  <2>2. Program \in {"action", "static"}
    BY <2>1 DEF Coded
  <2>3. at' = "auditing" /\ Given(job.manifest) /\ job.manifest \in DOMAIN job.files =>
            found' = {job.manifest}
    BY <2>1
  <2>4. at' = "walking" => ~(Given(job.manifest) /\ job.manifest \notin Directories)
    BY <2>1
  <2>5. QED
    BY <2>1, <2>2, <2>3, <2>4, CodedAudit
<1>3. CASE AuditReport
  <2> DEFINE report == ApplyStrict(findings, Strict)
             status == IF job.sarif = "fails" THEN 3
                       ELSE IF StaticErrors(report, Strict) # {} THEN 1 ELSE 0
  <2>1. at = "auditing" /\ CommandEnds("static", status, report)
    BY <1>3 DEF AuditReport
  <2>2. status \in 0..3
    OBVIOUS
  <2>3. StaticErrors(report, Strict) = {} => CleanManifest
    BY <1>3, ReportClean
  <2>4. CodeTrue("static", status)
    BY <2>1, <2>3 DEF CodeTrue, Coded
  <2> HIDE DEF report, status
  <2>5. QED
    BY <2>1, <2>2, <2>4, CodedEnds DEF Coded
<1>4. CASE (\E dir \in todo : Visit(dir)) /\ UNCHANGED audit
  <2>1. at = "walking" /\ UNCHANGED process
    BY <1>4 DEF Visit
  <2>2. UNCHANGED <<job, codes>> /\ at' = "walking"
    BY <2>1 DEF process
  <2>3. QED
    BY <2>1, <2>2, CodedAudit DEF Coded
<1>5. CASE EndWalk
  <2>1. at = "walking" /\ UNCHANGED <<job, codes>> /\ at' = "auditing" /\ job \in Jobs
    BY <1>5 DEF EndWalk, Coded
  <2>2. ~(Given(job.manifest) /\ job.manifest \in DOMAIN job.files)
    BY <2>1, NoFileInside DEF Coded
  <2>3. QED
    BY <2>1, <2>2, CodedAudit DEF Coded
<1>6. CASE \E file \in left : AuditManifest(file)
  <2>1. at = "auditing" /\ UNCHANGED process /\ UNCHANGED walk
    BY <1>6 DEF AuditManifest
  <2>2. UNCHANGED <<job, codes>> /\ at' = "auditing" /\ found' = found
    BY <2>1 DEF process, walk
  <2>3. QED
    BY <2>1, <2>2, CodedAudit DEF Coded
<1>7. QED
  BY <1>1, <1>2, <1>3, <1>4, <1>5, <1>6 DEF StaticStep

LEMMA CodedStep == ASSUME Tracked, Coded, [Next]_vars PROVE Coded'
<1>1. CASE Start
  BY <1>1, CodedStart
<1>2. CASE Command
  BY <1>2, CodedCommand
<1>3. CASE NoDiff
  BY <1>3, CodedGoOn DEF NoDiff, GoOn, Coded
<1>4. CASE ReadDiff
  BY <1>4, CodedGoOn DEF ReadDiff, GoOn, Coded
<1>5. CASE NoScan
  BY <1>5, CodedGoOn DEF NoScan, GoOn, Coded
<1>6. CASE ReadScan
  <2>1. Program = "action" /\ (Exit(3) \/ GoOn("static"))
    BY <1>6 DEF ReadScan, Coded
  <2>2. 3 \in 0..3
    OBVIOUS
  <2>3. QED
    BY <2>1, <2>2, CodedExit, CodedGoOn DEF GoOn
<1>7. CASE ReadStatic
  <2>1. Program = "action" /\ (Exit(3) \/ Exit(1) \/ Exit(0))
    BY <1>7 DEF ReadStatic, Coded
  <2>2. 3 \in 0..3 /\ 1 \in 0..3 /\ 0 \in 0..3
    OBVIOUS
  <2>3. QED
    BY <2>1, <2>2, CodedExit
<1>8. CASE DiffFails \/ ScanFails \/ StaticFails
  <2>1. PICK command \in {"diff", "scan", "static"} :
            (\E printed : ChildFails(command, printed)) /\ at # "idle"
    BY <1>8 DEF DiffFails, ScanFails, StaticFails
  <2>2. Program = "action" /\ \E status, report : CommandEnds(command, status, report)
    BY <2>1 DEF ChildFails
  <2>3. QED
    BY <2>1, <2>2, CodedEnds
<1>9. CASE DiffStep
  <2>1. at = "diff" /\ \E status, report : CommandEnds("diff", status, report)
    BY <1>9 DEF DiffStep
  <2>2. QED
    BY <2>1, CodedEnds DEF Coded
<1>10. CASE ScanStep
  BY <1>10, CodedScan
<1>11. CASE StaticStep
  BY <1>11, CodedStatic
<1>12. CASE UNCHANGED vars
  <2>1. UNCHANGED <<job, codes, at, found>>
    BY <1>12 DEF vars, process, walk
  <2>2. CodesTrue'
    BY <2>1, CodesKept DEF Coded
  <2>3. /\ Program' = Program /\ (Loads(job.policy))' = Loads(job.policy)
        /\ PoliciesLoad' = PoliciesLoad /\ Directories' = Directories
    BY <2>1 DEF Program, PoliciesLoad, PolicyFiles, Directories
  <2>4. QED
    BY <2>1, <2>2, <2>3 DEF Coded
<1>13. QED
  BY <1>1, <1>2, <1>3, <1>4, <1>5, <1>6, <1>7, <1>8, <1>9, <1>10, <1>11, <1>12 DEF Next

LEMMA Coding == Spec => [](Tracked /\ Coded)
<1>1. Init => Tracked /\ Coded
  BY TrackedInit, CodedInit
<1>2. Tracked /\ Coded /\ [Next]_vars => (Tracked /\ Coded)'
  BY TrackedStep, CodedStep
<1>3. QED
  BY <1>1, <1>2, PTL DEF Spec

(* The policy of the argument is the first of those that are audited.       *)
LEMMA FirstPolicy ==
    ASSUME job \in Jobs, Given(job.policy)
    PROVE  /\ 1 \in DOMAIN PolicyFiles /\ PolicyFiles[1] = job.policy
           /\ job.policyDir = None => DOMAIN PolicyFiles = {1}
<1> DEFINE dir == IF job.policyDir \in {None, Unreadable} THEN <<>> ELSE job.policyDir
<1>1. IsJob(job)
  BY WorkspaceAssumption
<1>2. /\ job.policyDir \in {None, Unreadable} \/ job.policyDir \in Seq(PolicyFile)
      /\ job.policy \in PolicyFile
  BY <1>1 DEF IsJob, Given
<1>3. dir \in Seq(PolicyFile) /\ (job.policyDir = None => dir = <<>>)
  BY <1>2, EmptySeq
<1>4. PolicyFiles = <<job.policy>> \o dir
  BY DEF PolicyFiles
<1> HIDE DEF dir
<1>5. <<job.policy>> \in Seq(PolicyFile) /\ Len(<<job.policy>>) = 1 /\ <<job.policy>>[1] = job.policy
  BY <1>2
<1>6. /\ PolicyFiles \in Seq(PolicyFile) /\ Len(PolicyFiles) = 1 + Len(dir)
      /\ PolicyFiles[1] = job.policy
  BY <1>3, <1>4, <1>5, ConcatProperties
<1>7. Len(dir) \in Nat /\ (job.policyDir = None => Len(dir) = 0)
  BY <1>3
<1>8. DOMAIN PolicyFiles = 1 .. 1 + Len(dir)
  BY <1>6
<1>9. 1 \in DOMAIN PolicyFiles
  BY <1>7, <1>8
<1>10. job.policyDir = None => DOMAIN PolicyFiles = {1}
  BY <1>7, <1>8
<1>11. QED
  BY <1>6, <1>9, <1>10

(* What drift calls an error is one for the static audit.                   *)
LEMMA DriftInAudit ==
    ASSUME job \in Jobs, CleanManifest, Given(job.policy), Given(job.manifest),
           job.manifest \in DOMAIN job.files
    PROVE  Loads(job.policy) /\ DriftExit(job.policy, job.manifest) = 0
<1> DEFINE file == job.manifest
           tools == ParseManifest(job.files[file]).tools
           sets == PolicyToolSets(Loaded(job.policy).rules)
<1>1. 1 \in DOMAIN PolicyFiles /\ PolicyFiles[1] = job.policy /\ PoliciesLoad
  BY FirstPolicy DEF CleanManifest
<1>2. Loads(job.policy)
  BY <1>1 DEF PoliciesLoad
<1>3. 1 \in DOMAIN Policies /\ Policies[1] = Loaded(job.policy)
  BY <1>1 DEF Policies
<1>4. \A f \in FindingsOf(file) : f.severity # "error"
  BY DEF CleanManifest
<1>5. job.files[file] # Unreadable
  <2> SUFFICES ASSUME job.files[file] = Unreadable PROVE FALSE
    OBVIOUS
  <2>1. Finding("MANIFEST_PARSE_ERROR", "error", file, None, None) \in FindingsOf(file)
    BY DEF FindingsOf, ParseError
  <2>2. QED
    BY <1>4, <2>1, FindingFields
<1>6. ComputeDrift(file, tools, sets, 1) \subseteq FindingsOf(file)
  <2>1. FindingsOf(file) = AuditOf(file, job.files[file], Policies)
    BY <1>5 DEF FindingsOf
  <2> HIDE DEF file
  <2>2. ComputeDrift(file, tools, sets, 1) \subseteq AuditOf(file, job.files[file], Policies)
    BY <1>3 DEF AuditOf
  <2>3. QED
    BY <2>1, <2>2
<1> HIDE DEF tools, sets
<1>7. ASSUME NEW f \in ComputeDrift(file, tools, sets, None), f.severity = "error"
      PROVE  FALSE
  <2>1. \/ \E t \in tools \cap sets.deny : f = Finding("DRIFT_DENY", "error", file, t, None)
        \/ sets.hasAllowRule /\ \E t \in tools \ (sets.allow \cup sets.deny) :
              f = Finding("DRIFT_ALLOW", "error", file, t, None)
        \/ \E t : f = Finding("DRIFT_POLICY_ONLY", "warning", file, t, None)
    BY <1>7 DEF ComputeDrift
  <2>2. CASE \E t \in tools \cap sets.deny : TRUE
    <3>1. PICK t \in tools \cap sets.deny : TRUE
      BY <2>2
    <3>2. Finding("DRIFT_DENY", "error", file, t, 1) \in ComputeDrift(file, tools, sets, 1)
      BY <3>1 DEF ComputeDrift
    <3>3. QED
      BY <1>4, <1>6, <3>2, FindingFields
  <2>3. CASE sets.hasAllowRule /\ \E t \in tools \ (sets.allow \cup sets.deny) : TRUE
    <3>1. PICK t \in tools \ (sets.allow \cup sets.deny) : TRUE
      BY <2>3
    <3>2. Finding("DRIFT_ALLOW", "error", file, t, 1) \in ComputeDrift(file, tools, sets, 1)
      BY <2>3, <3>1 DEF ComputeDrift
    <3>3. QED
      BY <1>4, <1>6, <3>2, FindingFields
  <2>4. CASE \E t : f = Finding("DRIFT_POLICY_ONLY", "warning", file, t, None)
    BY <1>7, <2>4, FindingFields
  <2>5. QED
    BY <2>1, <2>2, <2>3, <2>4
<1>8. ManifestReads(file)
  BY <1>5 DEF ManifestReads
<1>9. DriftExit(job.policy, file) =
        IF \E f \in ComputeDrift(file, tools, sets, None) : f.severity = "error" THEN 1 ELSE 0
  BY <1>2, <1>8 DEF DriftExit, tools, sets
<1>10. QED
  BY <1>2, <1>7, <1>9

(* The exit code that the commands have given, if each has given one.       *)
LEMMA CodeGiven ==
    ASSUME Coded, NEW program, NEW set, CodesOf(program) # {}, CodesOf(program) \subseteq set
    PROVE  \E code \in set : CodeTrue(program, code)
<1>1. PICK k \in DOMAIN codes : job.programs[k] = program /\ codes[k] \in set
  BY DEF CodesOf
<1>2. CodeTrue(job.programs[k], codes[k])
  BY <1>1, Zenon DEF Coded, CodesTrue
<1>3. QED
  BY <1>1, <1>2

LEMMA CodesTold ==
    ASSUME Coded, NEW program, NEW code \in CodesOf(program)
    PROVE  CodeTrue(program, code) /\ code \in 0..3
<1>1. PICK k \in DOMAIN codes : job.programs[k] = program /\ code = codes[k]
  BY DEF CodesOf
<1>2. CodeTrue(job.programs[k], codes[k]) /\ codes \in Seq(0..3)
  BY <1>1, Zenon DEF Coded, CodesTrue
<1>3. codes[k] \in 0..3
  BY <1>2
<1>4. QED
  BY <1>1, <1>2, <1>3

(* What the commands that end at once make of a policy and a manifest.      *)
LEMMA PlainCodes ==
    /\ \A code : CodeTrue("validate", code) => code = ValidateExit(job.policy)
    /\ \A code : CodeTrue("drift", code) => code = DriftExit(job.policy, job.manifest)
    /\ \A code : CodeTrue("validate-manifest", code) =>
         code = ValidateManifestExit(job.manifest)
    /\ \A code : CodeTrue("doctor", code) => \E sound \in BOOLEAN : code = DoctorExit(sound)
<1>1. /\ Exits("validate") = {ValidateExit(job.policy)}
      /\ Exits("drift") = {DriftExit(job.policy, job.manifest)}
      /\ Exits("validate-manifest") = {ValidateManifestExit(job.manifest)}
      /\ Exits("doctor") = {DoctorExit(sound) : sound \in BOOLEAN}
  BY DEF Exits
<1>2. QED
  BY <1>1 DEF CodeTrue

(* Commands on one checkout do not contradict each other: validate, scan,   *)
(* drift, audit static and doctor, in any order.                            *)
THEOREM CommandsCorrect == Spec => []CommandsAgree
<1>1. ASSUME Coded PROVE CommandsAgree
  <2> DEFINE Are(program, set) == CodesOf(program) # {} /\ CodesOf(program) \subseteq set
             valid == Are("validate", {0})
             invalid == Are("validate", {1})
  <2>1. \A program, code : Are(program, {code}) => CodeTrue(program, code)
    BY <1>1, CodeGiven
  <2>2. Are("scan", {0, 1}) => CodeTrue("scan", 0) \/ CodeTrue("scan", 1)
    BY <1>1, CodeGiven
  <2> HIDE DEF Are
  <2>3. /\ valid => 0 = ValidateExit(job.policy)
        /\ invalid => 1 = ValidateExit(job.policy)
        /\ Are("drift", {1}) => 1 = DriftExit(job.policy, job.manifest)
        /\ Are("drift", {3}) => 3 = DriftExit(job.policy, job.manifest)
        /\ Are("validate-manifest", {0}) => 0 = ValidateManifestExit(job.manifest)
    BY <2>1, PlainCodes
  <2>4. Are("scan", {0, 1}) => Resolves(job.policy)
    BY <2>2 DEF CodeTrue, Loads
  <2>5. Are("static", {3}) => ~PoliciesLoad \/ job.sarif = "fails"
    BY <2>1 DEF CodeTrue
  <2>6. Are("static", {0}) => CleanManifest
    BY <2>1 DEF CodeTrue
  <2>7. /\ valid => Given(job.policy) /\ Resolves(job.policy)
        /\ invalid => Given(job.policy) /\ ~Resolves(job.policy)
    BY <2>3 DEF ValidateExit
  <2>8. /\ Are("drift", {1}) => Given(job.policy) /\ Given(job.manifest) /\ ManifestReads(job.manifest)
        /\ Are("drift", {3}) => /\ Given(job.policy) /\ Given(job.manifest)
                                /\ ~Loads(job.policy) \/ ~ManifestReads(job.manifest)
        /\ Are("validate-manifest", {0}) => ManifestReads(job.manifest)
    BY <2>3 DEF DriftExit, ValidateManifestExit
  <2>9. Are("doctor", {0}) => ~invalid
    <3>1. Are("doctor", {0}) => \E sound \in BOOLEAN : 0 = DoctorExit(sound)
      BY <2>1, PlainCodes
    <3>2. Are("doctor", {0}) => (Given(job.policy) => ValidateExit(job.policy) = 0)
      BY <3>1 DEF DoctorExit
    <3>3. QED
      BY <2>3, <2>7, <3>2
  <2>10. valid /\ Compiles(job.policy) => Loads(job.policy)
    BY <2>7 DEF Loads
  <2> HIDE DEF valid, invalid
  <2>11. job.policyDir # Unreadable /\ Loads(job.policy) /\ job.policyDir = None /\ Given(job.policy)
            => PoliciesLoad
    BY <1>1, FirstPolicy DEF Coded, PoliciesLoad
  <2>12. valid /\ Compiles(job.policy) /\ ~Given(job.policyDir) /\ Are("static", {3}) =>
            job.sarif = "fails"
    BY <2>5, <2>7, <2>10, <2>11, WorkspaceAssumption DEF Given
  <2>13. Are("drift", {1}) => ~Are("static", {0})
    <3>1. Are("drift", {1}) => job.manifest \in DOMAIN job.files
      BY <2>8 DEF ManifestReads
    <3>2. SUFFICES ASSUME Are("drift", {1}), Are("static", {0}) PROVE FALSE
      OBVIOUS
    <3>3. DriftExit(job.policy, job.manifest) = 0
      BY <1>1, <2>6, <2>8, <3>1, <3>2, DriftInAudit DEF Coded
    <3>4. QED
      BY <2>3, <3>2, <3>3
  <2>14. Are("drift", {3}) /\ job.manifest \in DOMAIN job.files => ~Are("static", {0})
    <3>1. SUFFICES ASSUME Are("drift", {3}), job.manifest \in DOMAIN job.files, Are("static", {0})
                   PROVE  FALSE
      OBVIOUS
    <3>2. DriftExit(job.policy, job.manifest) = 0
      BY <1>1, <2>6, <2>8, <3>1, DriftInAudit DEF Coded
    <3>3. QED
      BY <2>3, <3>1, <3>2
  <2>15. Are("validate-manifest", {0}) /\ valid /\ Compiles(job.policy) => ~Are("drift", {3})
    BY <2>8, <2>10
  <2>16. ASSUME valid, ~Compiles(job.policy)
         PROVE  /\ CodesOf("scan") \subseteq {2} /\ CodesOf("static") \subseteq {3}
                /\ CodesOf("drift") \subseteq {2, 3}
    <3>1. ~Loads(job.policy) /\ Given(job.policy)
      BY <2>7, <2>16 DEF Loads
    <3>2. ~PoliciesLoad
      BY <1>1, <3>1, FirstPolicy DEF Coded, PoliciesLoad
    <3>3. \A program : \A code \in CodesOf(program) : CodeTrue(program, code)
      BY <1>1, CodesTold
    <3>4. DriftExit(job.policy, job.manifest) \in {2, 3}
      BY <3>1 DEF DriftExit
    <3>5. CodesOf("drift") \subseteq {2, 3}
      BY <3>3, <3>4, PlainCodes
    <3>6. CodesOf("scan") \subseteq {2} /\ CodesOf("static") \subseteq {3}
      BY <3>1, <3>2, <3>3 DEF CodeTrue
    <3>7. QED
      BY <3>5, <3>6
  <2>17. QED
    BY <2>4, <2>7, <2>9, <2>12, <2>13, <2>14, <2>15, <2>16, Zenon
       DEF CommandsAgree, Are, valid, invalid
<1>2. QED
  BY <1>1, Coding, PTL

-----------------------------------------------------------------------------
(* One event through the guards of a policy. *)

(* One guard. *)
Applied(mode, seen, r) ==
    IF Hits(r, seen.event)
      THEN [event |-> Rewritten(r, seen.event, mode), rules |-> Append(seen.rules, r.key)]
      ELSE seen

Through(g, policy, event) ==
    [t \in SUBSET DOMAIN policy.rules |->
        IF t = {} THEN [event |-> event, rules |-> <<>>]
                  ELSE Applied(policy.mode, g[t \ {Max(t)}], policy.rules[Max(t)])]

LEMMA GuardedIs ==
    ASSUME NEW policy, NEW event, NEW h, h = Through(h, policy, event)
    PROVE  \E g : /\ g = Through(g, policy, event)
                  /\ Guarded(policy, event) = g[DOMAIN policy.rules].rules
<1> DEFINE g == CHOOSE f : f = Through(f, policy, event)
<1>1. g = Through(g, policy, event)
  BY Zenon
<1>2. Guarded(policy, event) = g[DOMAIN policy.rules].rules
  BY DEF Guarded, FoldLeft, MapThenFoldSet, Through, Applied
<1>3. QED
  BY <1>1, <1>2, Zenon

SeenStates == [event : StreamEvent, rules : Seq(RuleKeys)]

(* Behind the first k rules: what is left of the event e, and which of them *)
(* had something to say.  Only a call is still a call.                      *)
Seen(e, rs, k, x) ==
    /\ x \in SeenStates
    /\ x.rules = <<>> => x.event = e /\ \A i \in 1..k : ~Hits(rs[i], e)
    /\ x.rules # <<>> => \E i \in 1..k : Hits(rs[i], e)
    /\ x.event.type = "tool_call" => e.type = "tool_call" /\ x.event.name = e.name
    /\ \A j \in DOMAIN x.rules : x.rules[j] \in {"allowTools", "denyTools"} =>
          \E i \in 1..k : rs[i].key = x.rules[j] /\ Hits(rs[i], e)

LEMMA AppliedTyped ==
    ASSUME NEW mode, NEW x \in SeenStates, NEW r \in RuleEntry, r.key \in RuleKeys
    PROVE  /\ Applied(mode, x, r) \in SeenStates
           /\ Rewritten(r, x.event, mode) \in StreamEvent
           /\ Rewritten(r, x.event, mode).type = "tool_call" =>
                x.event.type = "tool_call" /\ Rewritten(r, x.event, mode).name = x.event.name
<1> DEFINE e == x.event
<1>1. e \in StreamEvent /\ x.rules \in Seq(RuleKeys)
  BY DEF SeenStates
<1>2. /\ e.type \in {"text", "tool_call", "error", "null"} /\ e.name \in Names \cup {None}
      /\ e.marks \in SUBSET {"secret", "danger"}
      /\ e = [type |-> e.type, name |-> e.name, marks |-> e.marks]
  BY <1>1 DEF StreamEvent
<1> HIDE DEF e
<1>3. Rewritten(r, e, mode) \in StreamEvent
      /\ (Rewritten(r, e, mode).type = "tool_call" =>
            e.type = "tool_call" /\ Rewritten(r, e, mode).name = e.name)
  <2>1. CASE r.key = "redactSecrets"
    <3>1. Rewritten(r, e, mode) = [e EXCEPT !.marks = e.marks \ {"secret"}]
      BY <2>1 DEF Rewritten
    <3>2. Rewritten(r, e, mode) = [type |-> e.type, name |-> e.name, marks |-> e.marks \ {"secret"}]
      BY <1>2, <3>1
    <3>3. QED
      BY <1>2, <3>2 DEF StreamEvent
  <2>2. CASE r.key # "redactSecrets" /\ e.type = "tool_call" /\ mode # "audit"
    <3>1. Rewritten(r, e, mode) = [type |-> "error", name |-> None, marks |-> {}]
      BY <2>2 DEF Rewritten
    <3>2. QED
      BY <3>1 DEF StreamEvent
  <2>3. CASE r.key # "redactSecrets" /\ ~(e.type = "tool_call" /\ mode # "audit")
    <3>1. Rewritten(r, e, mode) = e
      BY <2>3 DEF Rewritten
    <3>2. QED
      BY <1>1, <3>1 DEF e
  <2>4. QED
    BY <2>1, <2>2, <2>3
<1>4. Append(x.rules, r.key) \in Seq(RuleKeys)
  BY <1>1
<1>5. Applied(mode, x, r) \in SeenStates
  BY <1>3, <1>4 DEF Applied, SeenStates, e
<1>6. QED
  BY <1>3, <1>5 DEF e

LEMMA SeenOne ==
    ASSUME NEW mode, NEW e \in StreamEvent, NEW rs \in Seq(RuleEntry),
           \A i \in 1..Len(rs) : rs[i].key \in RuleKeys,
           NEW k \in Nat, k + 1 <= Len(rs), NEW x, Seen(e, rs, k, x)
    PROVE  Seen(e, rs, k + 1, Applied(mode, x, rs[k + 1]))
<1> DEFINE r == rs[k + 1]
           y == Applied(mode, x, r)
<1>1. k + 1 \in 1..Len(rs) /\ 1..k \subseteq 1..(k + 1) /\ k + 1 \in 1..(k + 1)
      /\ \A i \in 1..(k + 1) : i \in 1..k \/ i = k + 1
  OBVIOUS
<1>2. r \in RuleEntry /\ r.key \in RuleKeys
  BY <1>1
<1>3. x \in SeenStates /\ x.event \in StreamEvent /\ x.rules \in Seq(RuleKeys)
  BY DEF Seen, SeenStates
<1>4. rs[k + 1] = r
  OBVIOUS
<1> HIDE DEF r
<1>5. y \in SeenStates
      /\ (Rewritten(r, x.event, mode).type = "tool_call" =>
            x.event.type = "tool_call" /\ Rewritten(r, x.event, mode).name = x.event.name)
  BY <1>2, <1>3, AppliedTyped
<1>6. CASE ~Hits(r, x.event)
  <2>1. y = x
    BY <1>6 DEF Applied
  <2>2. x.rules = <<>> => x.event = e /\ \A i \in 1..(k + 1) : ~Hits(rs[i], e)
    BY <1>1, <1>4, <1>6 DEF Seen
  <2>3. x.rules # <<>> => \E i \in 1..(k + 1) : Hits(rs[i], e)
    BY <1>1 DEF Seen
  <2>4. \A j \in DOMAIN x.rules : x.rules[j] \in {"allowTools", "denyTools"} =>
            \E i \in 1..(k + 1) : rs[i].key = x.rules[j] /\ Hits(rs[i], e)
    BY <1>1 DEF Seen
  <2>5. x.event.type = "tool_call" => e.type = "tool_call" /\ x.event.name = e.name
    BY DEF Seen
  <2> HIDE DEF y
  <2>6. QED
    BY <1>3, <1>4, <2>1, <2>2, <2>3, <2>4, <2>5 DEF Seen, y
<1>7. CASE Hits(r, x.event)
  <2>1. y.event = Rewritten(r, x.event, mode) /\ y.rules = Append(x.rules, r.key)
    BY <1>7 DEF Applied
  <2> HIDE DEF y
  <2>0. /\ Len(x.rules) \in Nat /\ DOMAIN x.rules = 1..Len(x.rules)
        /\ y.rules \in Seq(RuleKeys) /\ Len(y.rules) = Len(x.rules) + 1
        /\ DOMAIN y.rules = 1..(Len(x.rules) + 1)
        /\ \A j \in 1..Len(x.rules) : y.rules[j] = x.rules[j]
        /\ y.rules[Len(x.rules) + 1] = r.key
    BY <1>2, <1>3, <2>1, AppendProperties
  <2>2. /\ y.rules # <<>>
        /\ \A j \in DOMAIN y.rules : (j \in DOMAIN x.rules /\ y.rules[j] = x.rules[j])
                                      \/ y.rules[j] = r.key
    <3>1. y.rules # <<>>
      BY <2>0
    <3>2. \A j \in DOMAIN y.rules : j \in 1..Len(x.rules) \/ j = Len(x.rules) + 1
      BY <2>0
    <3>3. QED
      BY <2>0, <3>1, <3>2, Zenon
  <2>3. \E i \in 1..(k + 1) : Hits(rs[i], e)
    <3>1. CASE x.rules = <<>>
      BY <1>1, <1>4, <1>7, <3>1 DEF Seen
    <3>2. CASE x.rules # <<>>
      BY <1>1, <3>2 DEF Seen
    <3>3. QED
      BY <3>1, <3>2
  <2>4. y.event.type = "tool_call" => e.type = "tool_call" /\ y.event.name = e.name
    BY <1>5, <2>1 DEF Seen
  <2>5. ASSUME r.key \in {"allowTools", "denyTools"} PROVE Hits(r, e)
    <3>1. x.event.type = "tool_call"
      BY <1>7, <2>5 DEF Hits, NotAllowed, Denied
    <3>2. e.type = "tool_call" /\ x.event.name = e.name
      BY <3>1 DEF Seen
    <3>3. QED
      BY <1>7, <2>5, <3>1, <3>2 DEF Hits, NotAllowed, Denied
  <2>6. ASSUME NEW j \in DOMAIN y.rules, y.rules[j] \in {"allowTools", "denyTools"}
        PROVE  \E i \in 1..(k + 1) : rs[i].key = y.rules[j] /\ Hits(rs[i], e)
    <3>1. CASE j \in DOMAIN x.rules /\ y.rules[j] = x.rules[j]
      <4>1. PICK i \in 1..k : rs[i].key = x.rules[j] /\ Hits(rs[i], e)
        BY <2>6, <3>1 DEF Seen
      <4>2. QED
        BY <1>1, <3>1, <4>1
    <3>2. CASE y.rules[j] = r.key
      BY <1>1, <1>4, <2>5, <2>6, <3>2
    <3>3. QED
      BY <2>2, <3>1, <3>2
  <2>7. Seen(e, rs, k + 1, y)
    BY <1>5, <2>2, <2>3, <2>4, <2>6 DEF Seen
  <2>8. QED
    BY <1>4, <2>7 DEF y
<1>8. QED
  BY <1>6, <1>7

(* What comes of a policy: documents of known rules and flags in a mode     *)
(* that is one.                                                             *)
PolicyOf(policy) ==
    /\ policy.mode \in Modes /\ policy.rules \in Seq(RuleEntry)
    /\ policy.byteOptions \subseteq ByteFlags
    /\ \A i \in 1..Len(policy.rules) : policy.rules[i].key \in RuleKeys

(* The rules that speak up are none exactly when no rule, looked at alone,  *)
(* has something to say; and an allow or a deny list that speaks up has     *)
(* something to say of the event as it came.                                *)
LEMMA GuardedExact ==
    ASSUME NEW policy, PolicyOf(policy), NEW e \in StreamEvent
    PROVE  /\ Guarded(policy, e) \in Seq(RuleKeys)
           /\ Guarded(policy, e) # <<>> <=> \E i \in DOMAIN policy.rules : Hits(policy.rules[i], e)
           /\ \A j \in DOMAIN Guarded(policy, e) :
                Guarded(policy, e)[j] \in {"allowTools", "denyTools"} =>
                    \E i \in DOMAIN policy.rules :
                        policy.rules[i].key = Guarded(policy, e)[j] /\ Hits(policy.rules[i], e)
<1> DEFINE rs == policy.rules
           n == Len(rs)
           base == [event |-> e, rules |-> <<>>]
           G == [p \in SeenStates \X (1..n) |-> Applied(policy.mode, p[1], rs[p[2]])]
<1>1. /\ rs \in Seq(RuleEntry) /\ n \in Nat /\ DOMAIN rs = 1..n
      /\ \A i \in 1..n : rs[i] \in RuleEntry /\ rs[i].key \in RuleKeys
  BY DEF PolicyOf
<1>2. base \in SeenStates /\ base.event = e /\ base.rules = <<>>
  BY DEF SeenStates
<1>3. G \in [SeenStates \X (1..n) -> SeenStates]
  <2>1. \A x \in SeenStates, k \in 1..n : Applied(policy.mode, x, rs[k]) \in SeenStates
    BY <1>1, AppliedTyped
  <2>2. QED
    BY <2>1
<1>4. \A x \in SeenStates, k \in 1..n : G[<<x, k>>] = Applied(policy.mode, x, rs[k])
  OBVIOUS
<1> HIDE DEF G, base
<1>5. PICK h \in [SUBSET (1..n) -> SeenStates] : Folded(h, G, base, n)
  BY <1>1, <1>2, <1>3, FoldsExist
<1>6. \A t \in SUBSET (1..n) : t # {} => t \ {Max(t)} \in SUBSET (1..n) /\ Max(t) \in 1..n
  <2> SUFFICES ASSUME NEW t \in SUBSET (1..n), t # {}
               PROVE  t \ {Max(t)} \in SUBSET (1..n) /\ Max(t) \in 1..n
    OBVIOUS
  <2>1. t \in SUBSET (0..n)
    OBVIOUS
  <2>2. QED
    BY <1>1, <2>1, MaxNatural
<1> HIDE DEF n, rs
<1>7. h = Through(h, policy, e)
  <2>1. \A t \in SUBSET (1..n) : h[t] = IF t = {} THEN base
                                       ELSE Applied(policy.mode, h[t \ {Max(t)}], rs[Max(t)])
    BY <1>4, <1>5, <1>6 DEF Folded, FoldStep
  <2>2. QED
    BY <1>1, <1>5, <2>1 DEF Through, base, rs
<1>8. PICK g : g = Through(g, policy, e) /\ Guarded(policy, e) = g[DOMAIN policy.rules].rules
  BY <1>7, GuardedIs
<1>9. PICK r \in [0..n -> SeenStates] : Runs(r, g, G, base, n)
  <2>1. \A t \in SUBSET (1..n) : g[t] = IF t = {} THEN base
                                       ELSE Applied(policy.mode, g[t \ {Max(t)}], rs[Max(t)])
    BY <1>1, <1>8 DEF Through, base, rs
  <2>2. FoldedIn(SeenStates, g, G, base, n)
    BY <1>4, <1>6, <2>1 DEF FoldedIn, FoldStep
  <2>3. QED
    BY <1>1, <1>2, <1>3, <2>2, FoldRuns
<1>10. Guarded(policy, e) = r[n].rules
  BY <1>1, <1>8, <1>9 DEF rs, Runs
<1> DEFINE T == {k \in Nat : k <= n => Seen(e, rs, k, r[k])}
<1>11. 0 \in T
  BY <1>1, <1>2, <1>9 DEF Seen, Runs
<1>12. \A k \in Nat : k \in T => k + 1 \in T
  <2> SUFFICES ASSUME NEW k \in Nat, k <= n => Seen(e, rs, k, r[k]), k + 1 <= n
               PROVE  Seen(e, rs, k + 1, r[k + 1])
    OBVIOUS
  <2>1. k + 1 \in 1..n /\ (k + 1) - 1 = k /\ Seen(e, rs, k, r[k]) /\ r[k] \in SeenStates
    BY <1>1
  <2>2. r[k + 1] = Applied(policy.mode, r[k], rs[k + 1])
    BY <1>4, <1>9, <2>1 DEF Runs
  <2>3. QED
    BY <1>1, <2>1, <2>2, SeenOne DEF n
<1>13. Seen(e, rs, n, r[n])
  <2>1. Nat \subseteq T
    BY <1>11, <1>12, Induction
  <2>2. QED
    BY <1>1, <2>1
<1> HIDE DEF T
<1>14. QED
  BY <1>1, <1>10, <1>13 DEF Seen, SeenStates, rs

-----------------------------------------------------------------------------
(* Sequences of sequences, flattened. *)
Among(x, s) == \E j \in DOMAIN s : s[j] = x

LEMMA AmongBoth ==
    ASSUME NEW S, NEW s \in Seq(S), NEW t \in Seq(S), NEW x
    PROVE  s \o t \in Seq(S) /\ (Among(x, s \o t) <=> Among(x, s) \/ Among(x, t))
<1>1. /\ s \o t \in Seq(S) /\ Len(s \o t) = Len(s) + Len(t)
      /\ \A j \in 1..Len(s \o t) : (s \o t)[j] = IF j <= Len(s) THEN s[j] ELSE t[j - Len(s)]
  BY ConcatProperties
<1>2. /\ Len(s) \in Nat /\ Len(t) \in Nat /\ DOMAIN s = 1..Len(s) /\ DOMAIN t = 1..Len(t)
      /\ DOMAIN (s \o t) = 1..(Len(s) + Len(t))
  BY <1>1
<1> DEFINE u == s \o t
<1>3. u \in Seq(S) /\ DOMAIN u = 1..(Len(s) + Len(t))
      /\ \A j \in DOMAIN u : u[j] = IF j <= Len(s) THEN s[j] ELSE t[j - Len(s)]
  BY <1>1, <1>2
<1> HIDE DEF u
<1>4. ASSUME NEW j \in DOMAIN u PROVE (\E i \in DOMAIN s : s[i] = u[j]) \/ \E i \in DOMAIN t : t[i] = u[j]
  <2>1. CASE j <= Len(s)
    <3>1. j \in DOMAIN s /\ u[j] = s[j]
      BY <1>2, <1>3, <2>1
    <3>2. QED
      BY <3>1
  <2>2. CASE ~(j <= Len(s))
    <3>1. j - Len(s) \in DOMAIN t /\ u[j] = t[j - Len(s)]
      BY <1>2, <1>3, <2>2
    <3>2. QED
      BY <3>1
  <2>3. QED
    BY <2>1, <2>2
<1>5. ASSUME NEW i \in DOMAIN s PROVE i \in DOMAIN u /\ u[i] = s[i]
  <2>1. i \in DOMAIN u /\ i <= Len(s)
    BY <1>2, <1>3
  <2>2. QED
    BY <1>3, <2>1
<1>6. ASSUME NEW i \in DOMAIN t PROVE i + Len(s) \in DOMAIN u /\ u[i + Len(s)] = t[i]
  <2>1. i + Len(s) \in DOMAIN u /\ ~(i + Len(s) <= Len(s)) /\ (i + Len(s)) - Len(s) = i
    BY <1>2, <1>3
  <2>2. QED
    BY <1>3, <2>1
<1>7. Among(x, u) <=> Among(x, s) \/ Among(x, t)
  BY <1>4, <1>5, <1>6 DEF Among
<1>8. QED
  BY <1>3, <1>7 DEF u

Flattening(f, ss) ==
    [i \in 1..Len(ss) |-> IF i = 1 THEN ss[i] ELSE f[i - 1] \o ss[i]]

LEMMA FlattenIs ==
    ASSUME NEW ss, Len(ss) # 0, NEW h, h = Flattening(h, ss)
    PROVE  \E f : f = Flattening(f, ss) /\ FlattenSeq(ss) = f[Len(ss)]
<1> DEFINE f == CHOOSE g : g = Flattening(g, ss)
<1>1. f = Flattening(f, ss)
  BY Zenon
<1>2. FlattenSeq(ss) = f[Len(ss)]
  BY DEF FlattenSeq, Flattening
<1>3. QED
  BY <1>1, <1>2, Zenon

(* What is in one of them is in the whole, and nothing else. *)
LEMMA FlattenHas ==
    ASSUME NEW S, NEW ss \in Seq(Seq(S))
    PROVE  /\ FlattenSeq(ss) \in Seq(S)
           /\ \A x : Among(x, FlattenSeq(ss)) <=> \E m \in DOMAIN ss : Among(x, ss[m])
<1> DEFINE n == Len(ss)
           A == Seq(S)
           G == [p \in A \X (1..n) |-> p[1] \o ss[p[2]]]
<1>1. n \in Nat /\ DOMAIN ss = 1..n /\ \A k \in 1..n : ss[k] \in Seq(S)
  OBVIOUS
<1>2. CASE n = 0
  <2>1. FlattenSeq(ss) = <<>> /\ DOMAIN ss = {}
    BY <1>1, <1>2 DEF FlattenSeq
  <2>2. QED
    BY <2>1 DEF Among
<1>3. CASE n # 0
  <2>1. <<>> \in A
    OBVIOUS
  <2>2. \A x \in A, k \in 1..n : x \o ss[k] \in A
    BY <1>1, AmongBoth
  <2>3. G \in [A \X (1..n) -> A]
    BY <2>2
  <2>4. \A x \in A, k \in 1..n : G[<<x, k>>] = x \o ss[k]
    OBVIOUS
  <2> HIDE DEF G, A
  <2>5. PICK g \in [SUBSET (1..n) -> A] : Folded(g, G, <<>>, n)
    BY <1>1, <2>1, <2>3, FoldsExist
  <2>6. PICK r \in [0..n -> A] : Runs(r, g, G, <<>>, n)
    <3>1. FoldedIn(A, g, G, <<>>, n)
      BY <2>5 DEF Folded, FoldedIn
    <3>2. QED
      BY <1>1, <2>1, <2>3, <3>1, FoldRuns
  <2>7. r[0] = <<>> /\ \A k \in 1..n : k - 1 \in 0..n /\ r[k] = r[k - 1] \o ss[k]
    <3>1. \A k \in 1..n : k - 1 \in 0..n
      BY <1>1
    <3>2. QED
      BY <2>4, <2>6, <3>1 DEF Runs
  <2> DEFINE h == [i \in 1..n |-> r[i]]
  <2>8. h = Flattening(h, ss)
    <3>1. ASSUME NEW i \in 1..n PROVE h[i] = IF i = 1 THEN ss[i] ELSE h[i - 1] \o ss[i]
      <4>1. CASE i = 1
        <5>0. i - 1 = 0
          BY <4>1
        <5>1. i - 1 = 0 /\ h[i] = r[i - 1] \o ss[i]
          BY <2>7, <5>0, Zenon
        <5>2. h[i] = <<>> \o ss[i] /\ ss[i] \in Seq(S)
          BY <1>1, <2>7, <5>1
        <5>3. QED
          BY <4>1, <5>2
      <4>2. CASE i # 1
        <5>1. i - 1 \in 1..n
          BY <1>1, <4>2
        <5>2. QED
          BY <2>7, <4>2, <5>1
      <4>3. QED
        BY <4>1, <4>2
    <3>2. h = [i \in 1..n |-> h[i]]
      OBVIOUS
    <3> HIDE DEF h
    <3>3. QED
      BY <3>1, <3>2 DEF Flattening
  <2> HIDE DEF h
  <2>9. PICK f : f = Flattening(f, ss) /\ FlattenSeq(ss) = f[n]
    BY <1>3, <2>8, FlattenIs
  <2>10. \A i \in 1..n : f[i] = IF i = 1 THEN ss[i] ELSE f[i - 1] \o ss[i]
    BY <2>9 DEF Flattening
  <2> HIDE DEF n
  <2> DEFINE Good(k) == /\ f[k] \in Seq(S)
                        /\ \A x : Among(x, f[k]) <=> \E m \in 1..k : Among(x, ss[m])
             T == {k \in Nat : k # 0 /\ k <= n => Good(k)}
  <2>11. 0 \in T
    OBVIOUS
  <2>12. \A k \in Nat : k \in T => k + 1 \in T
    <3> HIDE DEF Good
    <3> SUFFICES ASSUME NEW k \in Nat, k # 0 /\ k <= n => Good(k), k + 1 <= n PROVE Good(k + 1)
      OBVIOUS
    <3> USE DEF Good
    <3>1. k + 1 \in 1..n /\ ss[k + 1] \in Seq(S) /\ (k + 1) - 1 = k
          /\ \A m : m \in 1..(k + 1) <=> m \in 1..k \/ m = k + 1
      BY <1>1
    <3>2. CASE k = 0
      <4>1. f[k + 1] = ss[k + 1]
        BY <2>10, <3>1, <3>2
      <4>2. \A m \in 1..(k + 1) : m = k + 1
        BY <3>1, <3>2
      <4>3. QED
        BY <3>1, <4>1, <4>2
    <3>3. CASE k # 0
      <4>1. Good(k) /\ f[k + 1] = f[k] \o ss[k + 1]
        <5> HIDE DEF Good
        <5>1. k <= n /\ k + 1 # 1
          BY <1>1, <3>1, <3>3
        <5>2. QED
          BY <2>10, <3>1, <3>3, <5>1
      <4>2. f[k + 1] \in Seq(S) /\ \A x : Among(x, f[k + 1]) <=> Among(x, f[k]) \/ Among(x, ss[k + 1])
        BY <3>1, <4>1, AmongBoth
      <4>3. QED
        BY <3>1, <4>1, <4>2
    <3>4. QED
      BY <3>2, <3>3
  <2>13. Good(n)
    <3>1. Nat \subseteq T
      BY <2>11, <2>12, Induction
    <3> HIDE DEF Good
    <3>2. n \in T
      BY <1>1, <3>1
    <3>3. QED
      BY <1>1, <1>3, <3>2
  <2>14. QED
    BY <1>1, <2>9, <2>13
<1>4. QED
  BY <1>2, <1>3

-----------------------------------------------------------------------------
(* The scan. *)

(* A policy that loads is one. *)
LEMMA LoadedPolicy ==
    ASSUME NEW file \in PolicyFile \cup {None}, Loads(file)
    PROVE  /\ PolicyOf(Loaded(file))
           /\ \A i \in DOMAIN Loaded(file).rules :
                Loaded(file).rules[i].key \in {"allowTools", "denyTools"} =>
                    Loaded(file).rules[i].names \subseteq Names
<1> DEFINE env == IF job.mode \in Modes THEN job.mode ELSE None
           d == Validated(file)
<1>1. file \in PolicyDocuments /\ ValidatePolicy(file) = {}
  BY DEF Loads, Resolves, PolicyFile
<1>2. /\ d \in PolicyDocuments /\ d.mode \in Modes /\ d.rules = file.rules
      /\ \A i \in 1..Len(file.rules) : file.rules[i].key \in RuleKeys
  BY <1>1, AcceptedTyped
<1>3. file.rules \in Seq(RuleEntry)
  BY <1>1 DEF PolicyDocuments
<1> HIDE DEF d
<1>4. ApplyModeOverride(d.mode, env, None) \in Modes
  BY <1>2 DEF ApplyModeOverride, Or
<1>5. /\ Loaded(file).mode = ApplyModeOverride(d.mode, env, None) /\ Loaded(file).rules = d.rules
      /\ Loaded(file).byteOptions \subseteq ByteFlags
  BY DEF Loaded, CompilePolicy, d
<1>6. ASSUME NEW i \in DOMAIN file.rules, file.rules[i].key \in {"allowTools", "denyTools"}
      PROVE  file.rules[i].names \subseteq Names
  <2>1. EntryErrors(file.rules[i]) = {}
    BY <1>1, Zenon DEF ValidatePolicy, StructureErrors
  <2>2. file.rules[i].names \notin {None, {}}
    BY <1>6, <2>1 DEF EntryErrors, When
  <2>3. file.rules[i] \in RuleEntry
    BY <1>3
  <2>4. QED
    BY <2>2, <2>3 DEF RuleEntry
<1>7. QED
  BY <1>2, <1>3, <1>4, <1>5, <1>6 DEF PolicyOf

(* The rules that scanFile records, and what they are about. *)
SaysOf(policy, stream, key) ==
    \E n \in DOMAIN stream.events, i \in DOMAIN policy.rules :
        policy.rules[i].key = key /\ Hits(policy.rules[i], stream.events[n])

(* The table is ByteRules, and has the texts of the streams that are read.  *)
LEMMA TableRules ==
    ASSUME NEW text \in ScanTexts, NEW flags \in SUBSET ByteFlags
    PROVE  TextRules(text, flags) = ByteRules(text, flags)
<1> DEFINE of == <<text, flags>>
           row == [of |-> of, rules |-> ByteRules(text, flags)]
<1>1. of \in ScanTexts \X SUBSET ByteFlags /\ of[1] = text /\ of[2] = flags
  OBVIOUS
<1>2. row.of = of /\ row.rules = ByteRules(text, flags)
  OBVIOUS
<1>3. row \in ByteTable
  BY <1>1 DEF ByteTable
<1>4. ASSUME NEW r \in ByteTable, r.of = of PROVE r.rules = ByteRules(text, flags)
  <2>1. PICK p \in ScanTexts \X SUBSET ByteFlags : r = [of |-> p, rules |-> ByteRules(p[1], p[2])]
    BY DEF ByteTable
  <2>2. p = of
    BY <1>4, <2>1
  <2>3. QED
    BY <1>1, <2>1, <2>2
<1> HIDE DEF row
<1>5. QED
  BY <1>2, <1>3, <1>4 DEF TextRules

LEMMA TextsOf ==
    ASSUME job \in Jobs, Given(job.streams),
           NEW stream \in ToSet(job.streams), stream # Unreadable
    PROVE  stream.text \in ScanTexts
  BY DEF ScanTexts

LEMMA ScanExact ==
    ASSUME NEW policy, PolicyOf(policy), NEW stream \in Stream, stream # Unreadable,
           stream.text \in ScanTexts,
           NEW rules, rules = ScanContent(stream, policy, None)
    PROVE  /\ rules \in Seq(RuleKeys)
           /\ rules # <<>> => Suspect(stream, policy)
           /\ Certain(stream, policy) => rules # <<>>
           /\ \A key \in {"allowTools", "denyTools"} :
                Among(key, rules) => SaysOf(policy, stream, key)
<1>0. /\ stream.events \in Seq(StreamEvent) /\ stream.binary \in BOOLEAN
      /\ stream.text \in Seq(Byte \ {Mask})
  BY DEF Stream
<1>1. CASE stream.binary
  <2>1. rules = <<>>
    BY <1>1 DEF ScanContent
  <2>2. QED
    BY <1>1, <2>1 DEF Certain, Among
<1>2. CASE ~stream.binary /\ AsEvents(DetectFormat(stream, None))
  <2> DEFINE ss == [n \in DOMAIN stream.events |-> Guarded(policy, stream.events[n])]
  <2>1. \A n \in DOMAIN stream.events : stream.events[n] \in StreamEvent
    BY <1>0
  <2>2. rules = FlattenSeq(ss)
    BY <1>2 DEF ScanContent
  <2>3. DOMAIN stream.events = 1..Len(stream.events) /\ Len(stream.events) \in Nat
    BY <1>0
  <2>4. \A n \in DOMAIN stream.events : ss[n] = Guarded(policy, stream.events[n])
    OBVIOUS
  <2>5. \A n \in DOMAIN stream.events : ss[n] \in Seq(RuleKeys)
    BY <2>1, <2>4, GuardedExact
  <2>6. ss \in Seq(Seq(RuleKeys)) /\ DOMAIN ss = DOMAIN stream.events
    <3> DEFINE n == Len(stream.events)
               one(k) == Guarded(policy, stream.events[k])
    <3>1. n \in Nat /\ \A k \in 1..n : one(k) \in Seq(RuleKeys)
      BY <2>3, <2>4, <2>5
    <3>2. ss = [k \in 1..n |-> one(k)]
      BY <2>3
    <3> HIDE DEF one, n
    <3>3. [k \in 1..n |-> one(k)] \in Seq(Seq(RuleKeys))
      BY <3>1
    <3>4. QED
      BY <3>2, <3>3
  <2> HIDE DEF ss
  <2>7. /\ rules \in Seq(RuleKeys)
        /\ \A x : Among(x, rules) <=> \E n \in DOMAIN stream.events : Among(x, ss[n])
    BY <2>2, <2>6, FlattenHas
  <2>8. \A s \in Seq(RuleKeys) : s # <<>> <=> \E x : Among(x, s)
    <3> SUFFICES ASSUME NEW s \in Seq(RuleKeys) PROVE s # <<>> <=> \E x : Among(x, s)
      OBVIOUS
    <3>1. s # <<>> => 1 \in DOMAIN s
      OBVIOUS
    <3>2. s = <<>> => DOMAIN s = {}
      OBVIOUS
    <3>3. QED
      BY <3>1, <3>2 DEF Among
  <2>9. rules # <<>> <=> \E n \in DOMAIN stream.events : ss[n] # <<>>
    BY <2>5, <2>7, <2>8
  <2>10. \A n \in DOMAIN stream.events :
            ss[n] # <<>> <=> \E i \in DOMAIN policy.rules : Hits(policy.rules[i], stream.events[n])
    BY <2>1, <2>4, GuardedExact
  <2>11. rules # <<>> <=> RuleHits(stream, policy)
    BY <2>9, <2>10 DEF RuleHits
  <2>12. ASSUME NEW key \in {"allowTools", "denyTools"}, Among(key, rules)
         PROVE  SaysOf(policy, stream, key)
    <3>1. PICK n \in DOMAIN stream.events : Among(key, ss[n])
      BY <2>7, <2>12
    <3>2. PICK j \in DOMAIN Guarded(policy, stream.events[n]) : Guarded(policy, stream.events[n])[j] = key
      BY <2>4, <3>1 DEF Among
    <3>3. \E i \in DOMAIN policy.rules : policy.rules[i].key = key /\ Hits(policy.rules[i], stream.events[n])
      BY <2>1, <3>2, GuardedExact
    <3>4. QED
      BY <3>3 DEF SaysOf
  <2>13. QED
    BY <1>2, <2>7, <2>11, <2>12 DEF Suspect, Certain
<1>3. CASE ~stream.binary /\ ~AsEvents(DetectFormat(stream, None))
  <2> DEFINE text == stream.text
             flags == policy.byteOptions
  <2>1. flags \in SUBSET ByteFlags
    BY DEF PolicyOf
  <2>2. rules = ByteRules(text, flags)
    BY <1>3, <2>1, TableRules DEF ScanContent
  <2>3. rules \in Seq(ByteFlags)
    BY <2>2, ByteKeys
  <2>4. rules \in Seq(RuleKeys) /\ \A key \in {"allowTools", "denyTools"} : ~Among(key, rules)
    <3>1. \A j \in 1..Len(rules) : rules[j] \in ByteFlags
      BY <2>3
    <3>2. ByteFlags \subseteq RuleKeys /\ "allowTools" \notin ByteFlags /\ "denyTools" \notin ByteFlags
      BY DEF ByteFlags, RuleKeys
    <3>3. rules = [j \in 1..Len(rules) |-> rules[j]] /\ Len(rules) \in Nat /\ DOMAIN rules = 1..Len(rules)
      BY <2>3
    <3>4. QED
      BY <3>1, <3>2, <3>3 DEF Among
  <2>5. text \in Seq(Byte) /\ text \in Seq(Byte \ {Mask})
    BY <1>0
  <2> HIDE DEF text, flags
  <2>6. rules # <<>> => \/ "redactSecrets" \in flags /\ HasSecret(text)
                        \/ "sanitizeErrors" \in flags /\ HasMessage(text)
    BY <2>2, <2>5, BytesSuspect
  <2>7. Evident(text, flags) => rules # <<>>
    BY <2>2, <2>5, BytesCertain
  <2>8. QED
    BY <1>3, <2>4, <2>6, <2>7 DEF Suspect, Certain, text, flags
<1>4. QED
  BY <1>0, <1>1, <1>2, <1>3

(* Of the first k streams hs names only suspect ones, and all that cannot   *)
(* pass, and an allow or a deny list is not named without reason.           *)
ToldOf(m, hs) == \E h : Among(h, hs) /\ h[1] = m

Told(streams, policy, hs, k) ==
    /\ k \in Nat /\ hs \in Seq((1..k) \X RuleKeys)
    /\ \A m \in 1..k :
          /\ ~Throws(streams[m], policy, None)
          /\ ToldOf(m, hs) => Suspect(streams[m], policy)
          /\ Certain(streams[m], policy) => ToldOf(m, hs)
    /\ \A h : Among(h, hs) /\ h[2] \in {"allowTools", "denyTools"} =>
          SaysOf(policy, streams[h[1]], h[2])

LEMMA ToldNone == ASSUME NEW streams, NEW policy PROVE Told(streams, policy, <<>>, 0)
<1>1. \A h : ~Among(h, <<>>)
  BY DEF Among
<1>2. QED
  BY <1>1 DEF Told

LEMMA ToldMore ==
    ASSUME NEW streams, NEW policy, PolicyOf(policy), NEW k \in Nat, NEW hs,
           Told(streams, policy, hs, k), streams[k + 1] \in Stream \cup {Unreadable},
           ~Throws(streams[k + 1], policy, None), streams[k + 1].text \in ScanTexts,
           NEW rules, rules = ScanContent(streams[k + 1], policy, None)
    PROVE  Told(streams, policy, hs \o [n \in DOMAIN rules |-> <<k + 1, rules[n]>>], k + 1)
<1> DEFINE stream == streams[k + 1]
           new == [n \in DOMAIN rules |-> <<k + 1, rules[n]>>]
           S == (1..(k + 1)) \X RuleKeys
<1>1. stream \in Stream /\ stream # Unreadable
  BY DEF Throws
<1>2. /\ rules \in Seq(RuleKeys)
      /\ rules # <<>> => Suspect(stream, policy)
      /\ Certain(stream, policy) => rules # <<>>
      /\ \A key \in {"allowTools", "denyTools"} :
            Among(key, rules) => SaysOf(policy, stream, key)
  BY <1>1, ScanExact
<1>3. DOMAIN rules = 1..Len(rules) /\ Len(rules) \in Nat /\ \A n \in DOMAIN rules : rules[n] \in RuleKeys
  BY <1>2
<1>4. new \in Seq(S)
  <2>1. \A n \in 1..Len(rules) : <<k + 1, rules[n]>> \in S
    BY <1>3
  <2> DEFINE m == Len(rules)
             pair(n) == <<k + 1, rules[n]>>
  <2>2. m \in Nat /\ (\A n \in 1..m : pair(n) \in S) /\ new = [n \in 1..m |-> pair(n)]
    BY <1>3, <2>1
  <2> HIDE DEF m, pair, S, new
  <2>3. QED
    BY <2>2
<1>5. \A h : Among(h, new) <=> \E n \in DOMAIN rules : h = <<k + 1, rules[n]>>
  BY DEF Among
<1>6. hs \in Seq(S)
  <2>1. (1..k) \X RuleKeys \subseteq S /\ hs \in Seq((1..k) \X RuleKeys)
    BY DEF Told
  <2> HIDE DEF S
  <2>2. Len(hs) \in Nat /\ DOMAIN hs = 1..Len(hs) /\ \A n \in 1..Len(hs) : hs[n] \in S
    BY <2>1
  <2>3. hs = [n \in 1..Len(hs) |-> hs[n]]
    BY <2>1, <2>2
  <2>4. QED
    BY <2>2, <2>3
<1> HIDE DEF new, S
<1>7. hs \o new \in Seq(S) /\ \A h : Among(h, hs \o new) <=> Among(h, hs) \/ Among(h, new)
  BY <1>4, <1>6, AmongBoth
<1>8. \A h : Among(h, hs) => h[1] \in 1..k
  <2>1. hs \in Seq((1..k) \X RuleKeys)
    BY DEF Told
  <2>2. \A j \in DOMAIN hs : hs[j] \in (1..k) \X RuleKeys
    BY <2>1
  <2>3. QED
    BY <2>2 DEF Among
<1>9. \A h : Among(h, new) => h[1] = k + 1 /\ Among(h[2], rules)
  BY <1>5 DEF Among
<1>10. ASSUME NEW m \in 1..(k + 1)
       PROVE  /\ ~Throws(streams[m], policy, None)
              /\ ToldOf(m, hs \o new) => Suspect(streams[m], policy)
              /\ Certain(streams[m], policy) => ToldOf(m, hs \o new)
  <2>1. CASE m \in 1..k
    <3>1. m # k + 1
      BY <2>1
    <3>2. QED
      <4>1. ToldOf(m, hs \o new) <=> ToldOf(m, hs)
        BY <1>7, <1>9, <3>1 DEF ToldOf
      <4>2. QED
        BY <2>1, <4>1 DEF Told
  <2>2. CASE m = k + 1
    <3>1. ~\E h : Among(h, hs) /\ h[1] = k + 1
      BY <1>8
    <3>2. (\E h : Among(h, new)) <=> rules # <<>>
      <4>1. rules # <<>> <=> \E n \in DOMAIN rules : TRUE
        <5>1. rules # <<>> => 1 \in DOMAIN rules
          BY <1>2
        <5>2. rules = <<>> => DOMAIN rules = {}
          OBVIOUS
        <5>3. QED
          BY <5>1, <5>2
      <4>2. QED
        BY <1>5, <4>1
    <3>3. (\E h : Among(h, hs \o new) /\ h[1] = k + 1) <=> \E h : Among(h, new)
      BY <1>7, <1>9, <3>1
    <3>4. QED
      BY <1>2, <2>2, <3>2, <3>3 DEF ToldOf
  <2>3. QED
    BY <2>1, <2>2
<1>11. ASSUME NEW h, Among(h, hs \o new), h[2] \in {"allowTools", "denyTools"}
       PROVE  SaysOf(policy, streams[h[1]], h[2])
  <2>1. CASE Among(h, hs)
    BY <1>11, <2>1 DEF Told
  <2>2. CASE Among(h, new)
    BY <1>2, <1>9, <1>11, <2>2
  <2>3. QED
    BY <1>7, <1>11, <2>1, <2>2
<1>12. k + 1 \in Nat
  OBVIOUS
<1>13. QED
  BY <1>7, <1>10, <1>11, <1>12 DEF Told, S, new

-----------------------------------------------------------------------------

(* The streams read so far have been told of, and a report is about all.    *)
Scanned ==
    /\ Told(job.streams, Loaded(job.policy), hits, read)
    /\ read # 0 \/ at = "scanning" =>
          Loads(job.policy) /\ Given(job.streams) /\ read <= Len(job.streams)
    /\ at \in {"diff", "diff ended", "scan"} => read = 0 /\ hits = <<>>
    /\ at \in {"diff", "diff ended", "scan", "scanning"} => "scan" \notin DOMAIN children
    /\ "scan" \in DOMAIN children /\ children["scan"].report \notin {None, Unreadable} =>
          /\ Loads(job.policy) /\ Given(job.streams) /\ read = Len(job.streams)
          /\ children["scan"].report.violations = hits
          /\ children["scan"].status = IF hits = <<>> THEN 0 ELSE 1

LEMMA ScannedInit == ASSUME Init PROVE Scanned
<1>1. read = 0 /\ hits = <<>> /\ at = "idle" /\ "scan" \notin DOMAIN children
  BY DEF Init
<1>2. QED
  BY <1>1, ToldNone DEF Scanned

(* What is read stays told of; a step elsewhere. *)
LEMMA ScannedKeep ==
    ASSUME Scanned, UNCHANGED <<job, scan, children>>,
           at' \in {"diff", "diff ended", "scan", "scanning"} => at' = at \/ (at = "diff" /\ at' = "scan")
                                                       \/ (at = "diff ended" /\ at' = "scan")
    PROVE  Scanned'
<1>1. /\ job' = job /\ read' = read /\ hits' = hits /\ children' = children
  BY DEF scan
<1>2. Loaded(job.policy)' = Loaded(job.policy) /\ (Loads(job.policy)' <=> Loads(job.policy))
  BY <1>1 DEF Loaded
<1>3. Told(job.streams, Loaded(job.policy), hits, read)'
  BY <1>1, <1>2 DEF Scanned
<1>4. QED
  BY <1>1, <1>2, <1>3 DEF Scanned

(* A command ends that is not the scan, or one that is, without a report.   *)
LEMMA ScannedEnds ==
    ASSUME Scanned, NEW command \in {"diff", "scan", "static"}, NEW status, NEW report,
           CommandEnds(command, status, report), UNCHANGED scan,
           command = "scan" => report \in {None, Unreadable},
           command = "diff" => at = "diff"
    PROVE  Scanned'
<1>1. /\ job' = job /\ read' = read /\ hits' = hits
      /\ DOMAIN children' = DOMAIN children \cup {command}
      /\ children'[command].report = report
      /\ \A c \in DOMAIN children : c # command => children'[c] = children[c]
      /\ at' = "idle" \/ at' = AfterChild[command]
  BY DEF CommandEnds, scan
<1>2. Loaded(job.policy)' = Loaded(job.policy) /\ (Loads(job.policy)' <=> Loads(job.policy))
  BY <1>1 DEF Loaded
<1>3. Told(job.streams, Loaded(job.policy), hits, read)'
  BY <1>1, <1>2 DEF Scanned
<1>4. at' \in {"idle", "diff ended", "scan ended", "static ended"}
      /\ (at' = "diff ended" => command = "diff")
  <2>1. /\ AfterChild["diff"] = "diff ended" /\ AfterChild["scan"] = "scan ended"
        /\ AfterChild["static"] = "static ended"
    BY DEF AfterChild
  <2>2. QED
    BY <1>1, <2>1
<1>5. "scan" \in DOMAIN children' /\ children'["scan"].report \notin {None, Unreadable} =>
        /\ "scan" \in DOMAIN children /\ children["scan"].report \notin {None, Unreadable}
        /\ children'["scan"] = children["scan"]
  BY <1>1
<1>6. at' = "diff ended" => read' = 0 /\ hits' = <<>> /\ "scan" \notin DOMAIN children'
  BY <1>1, <1>4 DEF Scanned
<1>7. QED
  BY <1>1, <1>2, <1>3, <1>4, <1>5, <1>6 DEF Scanned

LEMMA ScannedScan == ASSUME Scanned, job \in Jobs, ScanStep PROVE Scanned'
<1>1. job' = job /\ Loaded(job.policy)' = Loaded(job.policy) /\ (Loads(job.policy)' <=> Loads(job.policy))
  <2>1. job' = job
    BY DEF ScanStep, ScanRefused, ScanBegins, ScanFile, ScanReport, CommandEnds, process
  <2>2. QED
    BY <2>1 DEF Loaded
<1>2. CASE ScanRefused
  BY <1>2, ScannedEnds DEF ScanRefused
<1>3. CASE ScanBegins
  <2>1. /\ at = "scan" /\ at' = "scanning" /\ children' = children /\ read' = read /\ hits' = hits
        /\ Given(job.streams) /\ Loads(job.policy)
    BY <1>3 DEF ScanBegins, scan
  <2>2. Told(job.streams, Loaded(job.policy), hits, read)'
    BY <1>1, <2>1 DEF Scanned
  <2>3. read' <= Len(job.streams)
    <3>1. job.streams \in Seq(Stream \cup {Unreadable})
      BY <2>1, WorkspaceAssumption DEF IsJob, Given
    <3>2. Len(job.streams) \in Nat /\ read' = 0
      BY <2>1, <3>1 DEF Scanned
    <3>3. QED
      BY <3>2
  <2>4. QED
    BY <1>1, <2>1, <2>2, <2>3 DEF Scanned
<1>4. CASE ScanFile /\ CommandEnds("scan", 2, None)
  <2>1. at = "scanning"
    BY <1>4 DEF ScanFile
  <2>2. at' # at
    BY <1>4, <2>1 DEF CommandEnds, AfterChild
  <2>3. UNCHANGED scan
    BY <1>4, <2>1, <2>2 DEF ScanFile, process
  <2>4. QED
    BY <1>4, <2>3, ScannedEnds
<1>5. CASE ScanFile /\ ~CommandEnds("scan", 2, None)
  <2> DEFINE stream == job.streams[read + 1]
             policy == Loaded(job.policy)
             rules == ScanContent(stream, policy, None)
             new == [n \in DOMAIN rules |-> <<read + 1, rules[n]>>]
  <2>1. /\ at = "scanning" /\ read < Len(job.streams) /\ ~Throws(stream, policy, None)
        /\ read' = read + 1 /\ hits' = hits \o new /\ at' = at /\ children' = children
    BY <1>5 DEF ScanFile, process
  <2>2. Loads(job.policy) /\ Given(job.streams) /\ Told(job.streams, policy, hits, read) /\ read \in Nat
    BY <2>1 DEF Scanned, Told
  <2>3. job.streams \in Seq(Stream \cup {Unreadable}) /\ job.policy \in PolicyFile \cup {None}
    BY <2>2, WorkspaceAssumption DEF IsJob, Given
  <2>4. read + 1 \in 1..Len(job.streams)
    BY <2>1, <2>2, <2>3
  <2>5. stream \in Stream \cup {Unreadable} /\ stream \in ToSet(job.streams)
    BY <2>3, <2>4 DEF ToSet
  <2>6. PolicyOf(policy)
    BY <2>2, <2>3, LoadedPolicy
  <2>11. stream.text \in ScanTexts
    <3>1. stream # Unreadable
      BY <2>1 DEF Throws
    <3> HIDE DEF stream
    <3>2. QED
      BY <2>2, <2>5, <3>1, TextsOf
  <2> HIDE DEF policy
  <2>7. Told(job.streams, policy, hits \o new, read + 1)
    BY <2>1, <2>2, <2>5, <2>6, <2>11, ToldMore
  <2>8. Told(job.streams, Loaded(job.policy), hits, read)'
    BY <1>1, <2>1, <2>7 DEF policy
  <2>9. read' <= Len(job.streams)
    BY <2>4, <2>1
  <2> HIDE DEF stream, rules, new
  <2>10. QED
    BY <1>1, <2>1, <2>2, <2>8, <2>9 DEF Scanned
<1>6. CASE ScanReport
  <2> DEFINE status == IF hits = <<>> THEN 0 ELSE 1
             report == [files |-> Len(SelectSeq(job.streams, LAMBDA s : ~s.binary)), violations |-> hits,
                        redactions |-> Redactions([n \in DOMAIN hits |-> hits[n][2]])]
  <2>1. at = "scanning" /\ read = Len(job.streams) /\ CommandEnds("scan", status, report) /\ UNCHANGED scan
    BY <1>6 DEF ScanReport
  <2>2. report.violations = hits
    OBVIOUS
  <2> HIDE DEF report, status
  <2>3. /\ read' = read /\ hits' = hits /\ "scan" \in DOMAIN children'
        /\ children'["scan"].report = report /\ children'["scan"].status = status
        /\ at' \in {"idle", "scan ended"}
    BY <2>1 DEF CommandEnds, AfterChild, scan
  <2>4. Told(job.streams, Loaded(job.policy), hits, read)'
    BY <1>1, <2>3 DEF Scanned
  <2>5. QED
    BY <1>1, <2>1, <2>2, <2>3, <2>4 DEF Scanned, status
<1>7. QED
  BY <1>2, <1>3, <1>4, <1>5, <1>6 DEF ScanStep

LEMMA ScannedStep == ASSUME Scanned, Coded, [Next]_vars PROVE Scanned'
<1>1. CASE Start
  <2>1. /\ job' = job /\ read' = 0 /\ hits' = <<>> /\ children' = [c \in {} |-> None]
        /\ at' \in {"diff", "scan", "static"}
    BY <1>1 DEF Start, StartScan
  <2>2. "scan" \notin DOMAIN children'
    BY <2>1
  <2>3. Told(job.streams, Loaded(job.policy), hits, read)'
    BY <2>1, ToldNone
  <2>4. QED
    BY <2>1, <2>2, <2>3 DEF Scanned
<1>2. CASE Command \/ NoDiff \/ ReadDiff \/ NoScan
  BY <1>2, ScannedKeep DEF Command, Running, NoDiff, ReadDiff, NoScan, GoOn
<1>3. CASE ReadScan \/ ReadStatic
  <2>1. UNCHANGED <<job, scan, children>> /\ at' \in {"idle", "static"}
    BY <1>3 DEF ReadScan, ReadStatic, GoOn, Exit
  <2>2. QED
    BY <2>1, ScannedKeep
<1>4. CASE DiffFails \/ ScanFails \/ StaticFails
  <2>1. \E command \in {"diff", "scan", "static"} : \E status, report :
          /\ CommandEnds(command, status, report) /\ UNCHANGED scan /\ (command = "diff" => at = "diff")
          /\ (command = "scan" => report \in {None, Unreadable})
    BY <1>4 DEF DiffFails, ScanFails, StaticFails, ChildFails
  <2>2. QED
    BY <2>1, ScannedEnds
<1>5. CASE DiffStep /\ UNCHANGED <<walk, audit, scan, gate>>
  <2>1. at = "diff" /\ \E status, report : CommandEnds("diff", status, report)
    BY <1>5 DEF DiffStep
  <2>2. QED
    BY <1>5, <2>1, ScannedEnds
<1>6. CASE ScanStep
  BY <1>6, ScannedScan DEF Coded
<1>7. CASE StaticStep /\ UNCHANGED <<scan, gate>>
  <2>1. CASE \E status, report : CommandEnds("static", status, report)
    BY <1>7, <2>1, ScannedEnds
  <2>2. CASE UNCHANGED <<job, children>> /\ at' \in {"walking", "auditing"}
    BY <1>7, <2>2, ScannedKeep
  <2>3. AuditRefused \/ AuditReport => \E status, report : CommandEnds("static", status, report)
    BY DEF AuditRefused, AuditReport
  <2>4. ResolveManifests \/ EndWalk \/ (\E dir \in todo : Visit(dir))
          \/ (\E file \in left : AuditManifest(file)) =>
            UNCHANGED <<job, children>> /\ at' \in {"walking", "auditing"}
    BY DEF ResolveManifests, EndWalk, Visit, AuditManifest, process
  <2>5. QED
    BY <1>7, <2>1, <2>2, <2>3, <2>4 DEF StaticStep
<1>8. CASE UNCHANGED vars
  BY <1>8, ScannedKeep DEF vars, process
<1>9. QED
  BY <1>1, <1>2, <1>3, <1>4, <1>5, <1>6, <1>7, <1>8 DEF Next

LEMMA Scanning == Spec => [](Tracked /\ Coded /\ Scanned)
<1>1. Init => Scanned
  BY ScannedInit
<1>2. Coded /\ Scanned /\ [Next]_vars => Scanned'
  BY ScannedStep
<1>3. QED
  BY <1>1, <1>2, Coding, PTL DEF Spec

(* Whatever the streams and the policy: a report is about all streams,      *)
(* names only such as have something against the policy, and all in which   *)
(* that cannot pass the guards, byte mode with its cuts and its flush       *)
(* included.                                                                *)
THEOREM ScanCorrect == Spec => []ScanWhole
<1>1. Scanned /\ Coded => ScanWhole
  <2> DEFINE policy == Loaded(job.policy)
             reported == children["scan"].report.violations
  <2> SUFFICES ASSUME Scanned, job \in Jobs, "scan" \in DOMAIN children,
                      children["scan"].report \notin {None, Unreadable}
               PROVE  /\ \A k \in DOMAIN job.streams :
                            LET named == \E n \in DOMAIN reported : reported[n][1] = k
                            IN  /\ ~Throws(job.streams[k], policy, None)
                                /\ named => Suspect(job.streams[k], policy)
                                /\ Certain(job.streams[k], policy) => named
                      /\ children["scan"].status = 0 <=> reported = <<>>
    BY DEF ScanWhole, Coded
  <2>1. /\ Given(job.streams) /\ read = Len(job.streams)
        /\ reported = hits
        /\ children["scan"].status = IF hits = <<>> THEN 0 ELSE 1
        /\ Told(job.streams, policy, hits, read)
    BY DEF Scanned
  <2>2. job.streams \in Seq(Stream \cup {Unreadable})
    BY <2>1, WorkspaceAssumption DEF IsJob, Given
  <2>3. DOMAIN job.streams = 1..read
    BY <2>1, <2>2
  <2> HIDE DEF policy, reported
  <2>4. \A k : ToldOf(k, hits) <=> \E n \in DOMAIN hits : hits[n][1] = k
    BY DEF Among, ToldOf
  <2>5. \A k \in 1..read :
            /\ ~Throws(job.streams[k], policy, None)
            /\ ToldOf(k, hits) => Suspect(job.streams[k], policy)
            /\ Certain(job.streams[k], policy) => ToldOf(k, hits)
    BY <2>1 DEF Told
  <2>6. QED
    BY <2>1, <2>3, <2>4, <2>5
<1>2. QED
  BY <1>1, Scanning, PTL

(* A list that a loaded policy blocks a call by, and the name of the call,  *)
(* which the audit flags, unless another allow list has it.                 *)
LEMMA SaidTool ==
    ASSUME NEW file \in PolicyFile \cup {None}, Loads(file), NEW stream \in Stream,
           NEW key \in {"allowTools", "denyTools"}, SaysOf(Loaded(file), stream, key)
    PROVE  \E i \in DOMAIN stream.events :
              /\ stream.events[i].name \in Names /\ stream.events[i].name # None
              /\ \/ Flagged(Loaded(file).rules, stream.events[i].name)
                 \/ key = "allowTools" /\ AllowedBy(Loaded(file).rules, stream.events[i].name)
<1> DEFINE rules == Loaded(file).rules
<1>1. PICK n \in DOMAIN stream.events, i \in DOMAIN rules :
          rules[i].key = key /\ Hits(rules[i], stream.events[n])
  BY DEF SaysOf
<1> DEFINE event == stream.events[n]
<1>2. event \in StreamEvent
  <2>1. stream.events \in Seq(StreamEvent)
    BY DEF Stream
  <2>2. QED
    BY <2>1
<1>3. event.name \in Names \cup {None} /\ None \notin Names
  BY <1>2, WorkspaceAssumption DEF StreamEvent
<1>4. rules[i].names \subseteq Names
  BY <1>1, LoadedPolicy
<1> HIDE DEF rules, event
<1>5. CASE key = "allowTools"
  <2>1. event.name \notin rules[i].names \cup {None}
    BY <1>1, <1>5 DEF Hits, NotAllowed, event
  <2>2. QED
    BY <1>1, <1>3, <1>5, <2>1 DEF Flagged, HasRule, rules, event
<1>6. CASE key = "denyTools"
  <2>1. event.name \in rules[i].names
    BY <1>1, <1>6 DEF Hits, Denied, event
  <2>2. QED
    BY <1>1, <1>3, <1>4, <1>6, <2>1 DEF Flagged, rules, event
<1>7. QED
  BY <1>5, <1>6

(* Whatever the streams, the manifests and the policies: a call that the    *)
(* scan reports for an allow or a deny list is of a tool that the static    *)
(* audit has an error for, wherever a manifest declares it, but for one     *)
(* that an allow list names and another leaves out.                         *)
THEOREM ForesightCorrect == Spec => []AuditForesees
<1>1. Tracked /\ Coded /\ Scanned => AuditForesees
  <2> SUFFICES ASSUME Tracked, Coded, Scanned PROVE AuditForesees
    OBVIOUS
  <2>1. DriftIsBlocked
    BY DriftBlocks DEF Tracked, Collected
  <2>2. ASSUME Audited, NEW n \in DOMAIN hits, hits[n][2] \in {"allowTools", "denyTools"}
        PROVE  \E i \in DOMAIN job.streams[hits[n][1]].events :
                  LET tool == job.streams[hits[n][1]].events[i].name
                  IN  /\ tool # None
                      /\ \A file \in found : Declares(file, tool) =>
                            \/ DriftOf(file, 1, tool) # {}
                            \/ /\ hits[n][2] = "allowTools"
                               /\ AllowedBy(Loaded(job.policy).rules, tool)
    <3> DEFINE k == hits[n][1]
               stream == job.streams[k]
               policy == Loaded(job.policy)
    <3>1. Told(job.streams, policy, hits, read) /\ job \in Jobs
      BY DEF Scanned, Coded
    <3>2. hits[n] \in (1..read) \X RuleKeys /\ read \in Nat
      <4>1. hits \in Seq((1..read) \X RuleKeys) /\ read \in Nat
        BY <3>1 DEF Told
      <4>2. QED
        BY <4>1
    <3>3. k \in 1..read /\ read # 0
      BY <3>2
    <3>4. Loads(job.policy) /\ Given(job.streams)
      BY <3>3 DEF Scanned
    <3>5. /\ job.streams \in Seq(Stream \cup {Unreadable})
          /\ job.policy \in PolicyFile \cup {None} /\ Given(job.policy)
      BY <3>1, <3>4, WorkspaceAssumption DEF IsJob, Given, Loads, Resolves
    <3>6. stream \in Stream
      <4>1. ~Throws(stream, policy, None)
        BY <3>1, <3>3 DEF Told
      <4>2. read <= Len(job.streams)
        BY <3>3 DEF Scanned
      <4>3. k \in 1..Len(job.streams)
        BY <3>2, <3>3, <3>5, <4>2
      <4>4. stream \in Stream \cup {Unreadable}
        BY <3>5, <4>3
      <4>5. QED
        BY <4>1, <4>4 DEF Throws
    <3>7. SaysOf(policy, stream, hits[n][2])
      BY <2>2, <3>1 DEF Told, Among
    <3>8. PICK i \in DOMAIN stream.events :
              /\ stream.events[i].name \in Names /\ stream.events[i].name # None
              /\ \/ Flagged(policy.rules, stream.events[i].name)
                 \/ hits[n][2] = "allowTools" /\ AllowedBy(policy.rules, stream.events[i].name)
      BY <2>2, <3>4, <3>5, <3>6, <3>7, SaidTool
    <3>9. 1 \in DOMAIN Policies /\ Policies[1] = policy
      BY <3>1, <3>5, FirstPolicy DEF Policies
    <3>10. \A file \in found :
              Declares(file, stream.events[i].name) =>
                \/ DriftOf(file, 1, stream.events[i].name) # {}
                \/ hits[n][2] = "allowTools" /\ AllowedBy(policy.rules, stream.events[i].name)
      BY <2>1, <2>2, <3>8, <3>9 DEF DriftIsBlocked
    <3>11. QED
      BY <3>8, <3>10
  <2>3. QED
    BY <2>1, <2>2 DEF AuditForesees
<1>2. QED
  BY <1>1, Scanning, PTL

-----------------------------------------------------------------------------
(* Finite reports. *)

Image(f, S) == {f[x] : x \in S}

LEMMA ImageFinite ==
    ASSUME NEW S, IsFiniteSet(S), NEW f, NEW T, T \subseteq Image(f, S)
    PROVE  IsFiniteSet(T)
<1> DEFINE R == Image(f, S)
           g == [x \in S |-> f[x]]
<1>1. g \in Surjection(S, R)
  BY DEF Surjection, Image
<1>2. T \in SUBSET R
  OBVIOUS
<1> HIDE DEF g, R
<1>3. IsFiniteSet(R)
  BY <1>1, FS_Surjection
<1>4. QED
  BY <1>2, <1>3, FS_Subset

LEMMA TwoFinite == ASSUME NEW a, NEW b PROVE IsFiniteSet({a, b})
<1>1. IsFiniteSet({a})
  BY FS_Singleton
<1>2. IsFiniteSet({a} \cup {b})
  BY <1>1, FS_AddElement
<1>3. {a, b} = {a} \cup {b}
  OBVIOUS
<1>4. QED
  BY <1>2, <1>3

TextKinds == DangerIds \cup {"blocked"}

LEMMA TextsFinite ==
    ASSUME NEW section, NEW entries \in Seq(ToolEntry \cup {None})
    PROVE  IsFiniteSet(Texts(section, entries))
<1> DEFINE D == 1..Len(entries)
           S == D \X TextKinds
           f == [p \in S |-> <<section, p[1], p[2]>>]
<1>1. IsFiniteSet(S)
  <2>1. IsFiniteSet(TextKinds)
    BY WorkspaceAssumption, FS_Singleton, FS_Union DEF TextKinds
  <2>2. Len(entries) \in Int /\ 1 \in Int
    OBVIOUS
  <2>3. IsFiniteSet(D)
    BY <2>2, FS_Interval
  <2>4. QED
    BY <2>1, <2>3, FS_Product
<1>2. ASSUME NEW i \in Objects(entries), NEW text \in entries[i].texts
      PROVE  <<i, text>> \in S /\ f[<<i, text>>] = <<section, i, text>>
  <2>1. i \in D /\ entries[i] \in ToolEntry
    BY DEF Objects
  <2>2. text \in TextKinds
    BY <2>1 DEF ToolEntry, TextKinds
  <2>3. QED
    BY <2>1, <2>2
<1> HIDE DEF S, f
<1>3. Texts(section, entries) \subseteq Image(f, S)
  <2> SUFFICES ASSUME NEW t \in Texts(section, entries) PROVE t \in Image(f, S)
    OBVIOUS
  <2>1. PICK i \in Objects(entries) : \E text \in entries[i].texts : t = <<section, i, text>>
    BY DEF Texts
  <2>2. PICK text \in entries[i].texts : t = <<section, i, text>>
    BY <2>1
  <2>3. QED
    BY <1>2, <2>2 DEF Image
<1>4. QED
  BY <1>1, <1>3, ImageFinite

(* The names of a manifest are among the names, its texts are finitely many. *)
LEMMA ParsedTyped ==
    ASSUME NEW m \in Manifest
    PROVE  ParseManifest(m).tools \subseteq Names /\ IsFiniteSet(ParseManifest(m).texts)
<1>1. m.tools \in Seq(ToolEntry \cup {None}) /\ m.xTools \in Seq(ToolEntry \cup {None})
  BY DEF Manifest
<1>2. IsFiniteSet(Texts("tools", m.tools)) /\ IsFiniteSet(Texts("x-tools", m.xTools))
  BY <1>1, TextsFinite
<1>3. IsFiniteSet(Texts("tools", m.tools) \cup Texts("x-tools", m.xTools))
  BY <1>2, FS_Union
<1>4. QED
  BY <1>2, <1>3 DEF ParseManifest, ToolNames, XToolNames

LEMMA ManifestOf ==
    ASSUME job \in Jobs, NEW file \in DOMAIN job.files, job.files[file] # Unreadable
    PROVE  job.files[file] \in Manifest
  BY WorkspaceAssumption DEF IsJob

(* The policies of an audit: numbered, and each one that loads.             *)
LEMMA AuditedPolicies ==
    ASSUME job \in Jobs, PoliciesLoad
    PROVE  /\ IsFiniteSet(DOMAIN Policies)
           /\ \A n \in DOMAIN Policies : \A i \in DOMAIN Policies[n].rules :
                Policies[n].rules[i].key \in {"allowTools", "denyTools"} =>
                    Policies[n].rules[i].names \subseteq Names
<1> DEFINE first == IF Given(job.policy) THEN <<job.policy>> ELSE <<>>
           dir == IF job.policyDir \in {None, Unreadable} THEN <<>> ELSE job.policyDir
<1>1. /\ job.policyDir \in {None, Unreadable} \/ job.policyDir \in Seq(PolicyFile)
      /\ job.policy \in PolicyFile \cup {None}
  BY WorkspaceAssumption DEF IsJob
<1>2. first \in Seq(PolicyFile) /\ dir \in Seq(PolicyFile)
  BY <1>1 DEF Given
<1>3. PolicyFiles = first \o dir
  BY DEF PolicyFiles
<1> HIDE DEF first, dir
<1>4. PolicyFiles \in Seq(PolicyFile)
  BY <1>2, <1>3
<1>5. DOMAIN PolicyFiles = 1..Len(PolicyFiles) /\ 1 \in Int /\ Len(PolicyFiles) \in Int
  BY <1>4
<1>6. IsFiniteSet(DOMAIN PolicyFiles)
  BY <1>5, FS_Interval
<1>7. \A n \in DOMAIN PolicyFiles : PolicyFiles[n] \in PolicyFile /\ Loads(PolicyFiles[n])
  BY <1>4, <1>5 DEF PoliciesLoad
<1>8. DOMAIN Policies = DOMAIN PolicyFiles
      /\ \A n \in DOMAIN Policies : Policies[n] = Loaded(PolicyFiles[n])
  BY DEF Policies
<1>9. QED
  BY <1>6, <1>7, <1>8, LoadedPolicy

LEMMA FindingsFinite ==
    ASSUME job \in Jobs, PoliciesLoad, NEW file \in DOMAIN job.files
    PROVE  IsFiniteSet(FindingsOf(file))
<1> DEFINE parsed == ParseManifest(job.files[file])
           Codes == HardCodes \cup DangerIds
           A == Names \cup parsed.texts \cup {None}
           P == DOMAIN Policies \cup {None}
           S == (Codes \X {"error", "warning"}) \X (A \X P)
           f == [p \in S |-> Finding(p[1][1], p[1][2], file, p[2][1], p[2][2])]
<1>1. CASE job.files[file] = Unreadable
  <2>1. FindingsOf(file) = {ParseError(file)}
    BY <1>1 DEF FindingsOf
  <2>2. QED
    BY <2>1, FS_Singleton
<1>2. CASE job.files[file] # Unreadable
  <2>1. parsed.tools \subseteq Names /\ IsFiniteSet(parsed.texts)
    BY <1>2, ManifestOf, ParsedTyped
  <2>2. IsFiniteSet(S)
    <3>1. IsFiniteSet(Codes)
      <4>1. HardCodes = {"DRIFT_ALLOW"} \cup {"DRIFT_DENY"} \cup {"DRIFT_POLICY_ONLY"}
                        \cup {"BLOCK_ARGS_STATIC"} \cup {"MANIFEST_PARSE_ERROR"}
        BY DEF HardCodes, DriftCodes
      <4>2. QED
        BY <4>1, WorkspaceAssumption, FS_Singleton, FS_Union
    <3>2. IsFiniteSet({"error", "warning"})
      BY TwoFinite
    <3>3. IsFiniteSet(A)
      BY <2>1, WorkspaceAssumption, FS_Singleton, FS_Union
    <3>4. IsFiniteSet(P)
      BY AuditedPolicies, FS_Singleton, FS_Union
    <3> HIDE DEF Codes, A, P
    <3>5. IsFiniteSet(Codes \X {"error", "warning"}) /\ IsFiniteSet(A \X P)
      BY <3>1, <3>2, <3>3, <3>4, FS_Product
    <3>6. QED
      BY <3>5, FS_Product
  <2>3. ASSUME NEW c \in Codes, NEW s \in {"error", "warning"}, NEW a \in A, NEW p \in P
        PROVE  Finding(c, s, file, a, p) \in Image(f, S)
    <3>1. <<<<c, s>>, <<a, p>>>> \in S
      BY <2>3
    <3>2. f[<<<<c, s>>, <<a, p>>>>] = Finding(c, s, file, a, p)
      BY <3>1
    <3>3. QED
      BY <3>1, <3>2 DEF Image
  <2>4. \A n \in DOMAIN Policies : PolicyToolSets(Policies[n].rules).allow \subseteq Names
    BY AuditedPolicies DEF PolicyToolSets, NamesIn
  <2> HIDE DEF S, f
  <2>5. DangerousStrings(file, parsed.texts) \subseteq Image(f, S)
    <3> SUFFICES ASSUME NEW x \in DangerousStrings(file, parsed.texts) PROVE x \in Image(f, S)
      OBVIOUS
    <3>1. PICK t \in parsed.texts : t[3] \in DangerIds /\ x = Finding(t[3], "warning", file, t, None)
      BY Zenon DEF DangerousStrings
    <3>2. t[3] \in Codes /\ t \in A /\ None \in P
      BY <3>1
    <3> HIDE DEF Codes, A, P
    <3>3. QED
      BY <2>3, <3>1, <3>2
  <2>6. \A n \in DOMAIN Policies :
            ComputeDrift(file, parsed.tools, PolicyToolSets(Policies[n].rules), n) \subseteq Image(f, S)
    <3> SUFFICES ASSUME NEW n \in DOMAIN Policies,
                        NEW x \in ComputeDrift(file, parsed.tools, PolicyToolSets(Policies[n].rules), n)
                 PROVE  x \in Image(f, S)
      OBVIOUS
    <3>1. \E c \in DriftCodes, s \in {"error", "warning"}, a \in Names : x = Finding(c, s, file, a, n)
      BY <2>1, <2>4 DEF ComputeDrift, DriftCodes
    <3>2. DriftCodes \subseteq Codes /\ Names \subseteq A /\ n \in P
      BY DEF HardCodes
    <3> HIDE DEF Codes, A, P
    <3>3. QED
      BY <2>3, <3>1, <3>2
  <2>7. \A n \in DOMAIN Policies :
            BlockToolArgsStatic(file, parsed.texts, PolicyToolSets(Policies[n].rules), n) \subseteq Image(f, S)
    <3> SUFFICES ASSUME NEW n \in DOMAIN Policies,
                        NEW x \in BlockToolArgsStatic(file, parsed.texts, PolicyToolSets(Policies[n].rules), n)
                 PROVE  x \in Image(f, S)
      OBVIOUS
    <3>1. \E a \in parsed.texts : x = Finding("BLOCK_ARGS_STATIC", "error", file, a, n)
      BY DEF BlockToolArgsStatic
    <3>2. "BLOCK_ARGS_STATIC" \in Codes /\ parsed.texts \subseteq A /\ n \in P
      BY DEF HardCodes
    <3> HIDE DEF Codes, A, P
    <3>3. QED
      BY <2>3, <3>1, <3>2
  <2>8. FindingsOf(file) \subseteq Image(f, S)
    <3>1. FindingsOf(file) = AuditOf(file, job.files[file], Policies)
      BY <1>2 DEF FindingsOf
    <3>2. \A x \in FindingsOf(file) :
            \/ x \in DangerousStrings(file, parsed.texts)
            \/ \E n \in DOMAIN Policies :
                 \/ x \in ComputeDrift(file, parsed.tools, PolicyToolSets(Policies[n].rules), n)
                 \/ x \in BlockToolArgsStatic(file, parsed.texts, PolicyToolSets(Policies[n].rules), n)
      BY <3>1, Zenon DEF AuditOf
    <3> HIDE DEF parsed
    <3>3. QED
      BY <2>5, <2>6, <2>7, <3>2
  <2>9. QED
    BY <2>2, <2>8, ImageFinite
<1>3. QED
  BY <1>1, <1>2

-----------------------------------------------------------------------------
(* Types. *)

(* Places in the order of the files: nothing is left before the audit.      *)
Typed ==
    /\ at # "idle" => Len(codes) < Len(job.programs)
    /\ Len(codes) <= Len(job.programs)
    /\ DOMAIN children \subseteq {"diff", "scan", "static"}
    /\ \A c \in DOMAIN children : children[c].status \in Statuses
    /\ \A c \in {"diff", "scan", "static"} : at = AfterChild[c] => c \in DOMAIN children
    /\ todo \subseteq Directories /\ found \subseteq DOMAIN job.files /\ left \subseteq found
    /\ at \in Early => left = {}
    /\ IsFiniteSet(findings) /\ \A f \in findings : f.file \in found
    /\ Audited => IsFiniteSet(children["static"].report)
    /\ policyChanged \in BOOLEAN /\ failed \in BOOLEAN /\ violations \in Nat
    /\ outputs \in Outputs \cup {None}

GateTyped ==
    /\ policyChanged \in BOOLEAN /\ failed \in BOOLEAN /\ violations \in Nat
    /\ outputs \in Outputs \cup {None}

LEMMA AfterPlaces ==
    /\ AfterChild["diff"] = "diff ended" /\ AfterChild["scan"] = "scan ended"
    /\ AfterChild["static"] = "static ended"
  BY DEF AfterChild

LEMMA TypedInit == ASSUME Init PROVE Typed
<1>1. Len(codes) = 0 /\ job.programs \in Seq(Programs)
  BY WorkspaceAssumption DEF Init, IsJob
<1>2. Len(codes) <= Len(job.programs)
  BY <1>1
<1>3. DOMAIN children = {}
  BY DEF Init
<1>4. \A c \in {"diff", "scan", "static"} : AfterChild[c] # "idle"
  BY AfterPlaces
<1>5. QED
  BY <1>2, <1>3, <1>4, FS_EmptySet DEF Init, Typed, Audited

(* A program that goes on or ends. *)
LEMMA TypedCodes ==
    ASSUME Typed, Coded, job' = job,
           \/ codes' = codes /\ (at # "idle" \/ Running)
           \/ \E code : codes' = Append(codes, code) /\ at' = "idle" /\ (at # "idle" \/ Running)
    PROVE  /\ at' # "idle" => Len(codes') < Len(job.programs)
           /\ Len(codes') <= Len(job.programs)
<1>1. codes \in Seq(0..3) /\ Len(codes) \in Nat /\ Len(codes) < Len(job.programs)
  <2>1. codes \in Seq(0..3)
    BY Zenon DEF Coded, CodesTrue
  <2>2. QED
    BY <2>1 DEF Typed, Running
<1>2. Len(job.programs) \in Nat
  <2>1. job.programs \in Seq(Programs)
    BY WorkspaceAssumption DEF IsJob, Coded
  <2>2. QED
    BY <2>1
<1>3. \A code : Len(Append(codes, code)) = Len(codes) + 1
  BY <1>1
<1>4. QED
  BY <1>1, <1>2, <1>3

(* A command returns. *)
LEMMA TypedEnds ==
    ASSUME Typed, Coded, at # "idle", NEW command \in {"diff", "scan", "static"},
           NEW status \in Statuses, NEW report, CommandEnds(command, status, report),
           command = "static" => report = None \/ IsFiniteSet(report),
           command # "static" => at \in Early,
           UNCHANGED <<walk, left, findings, gate>>
    PROVE  Typed'
<1>1. /\ job' = job /\ DOMAIN children' = DOMAIN children \cup {command}
      /\ \A c \in DOMAIN children' :
            c # command => c \in DOMAIN children /\ children'[c] = children[c]
      /\ children'[command].report = report /\ children'[command].status = status
  BY EndsReports
<1>2. /\ AfterChild["diff"] = "diff ended" /\ AfterChild["scan"] = "scan ended"
      /\ AfterChild["static"] = "static ended"
  BY AfterPlaces
<1>3. \/ codes' = codes /\ at' = AfterChild[command]
      \/ codes' = Append(codes, status) /\ at' = "idle"
  BY DEF CommandEnds
<1>4. /\ at' # "idle" => Len(codes') < Len(job.programs)
      /\ Len(codes') <= Len(job.programs)
  BY <1>1, <1>3, TypedCodes
<1>5. /\ todo' = todo /\ found' = found /\ left' = left /\ findings' = findings
      /\ UNCHANGED gate /\ Directories' = Directories
  BY <1>1 DEF walk, Directories
<1>6. Audited' => IsFiniteSet(children'["static"].report)
  BY <1>1 DEF Audited, Typed, Given
<1>7. at' \in Early => left' = {}
  BY <1>2, <1>3, <1>5 DEF Early, Typed
<1>8. \A c \in {"diff", "scan", "static"} : at' = AfterChild[c] => c \in DOMAIN children'
  BY <1>1, <1>2, <1>3
<1>9. GateTyped'
  BY <1>5 DEF Typed, gate, GateTyped
<1>10. QED
  BY <1>1, <1>4, <1>5, <1>6, <1>7, <1>8, <1>9 DEF Typed, GateTyped

(* A step of the program that leaves what the commands have found alone.    *)
LEMMA TypedKeep ==
    ASSUME Typed, Coded, UNCHANGED <<job, children, walk, left, findings>>, GateTyped',
           \/ codes' = codes /\ (at # "idle" \/ Running)
           \/ \E code : codes' = Append(codes, code) /\ at' = "idle" /\ (at # "idle" \/ Running),
           at' = at \/ at' \in {"idle", "scan", "scanning", "static"},
           at' \in Early => at \in Early
    PROVE  Typed'
<1>1. \A c \in {"diff", "scan", "static"} :
         AfterChild[c] \notin {"idle", "scan", "scanning", "static"}
  BY AfterPlaces
<1>2. \A c \in {"diff", "scan", "static"} : at' = AfterChild[c] => c \in DOMAIN children'
  BY <1>1 DEF Typed
<1>3. /\ at' # "idle" => Len(codes') < Len(job.programs)
      /\ Len(codes') <= Len(job.programs)
  BY TypedCodes
<1>4. /\ todo' = todo /\ found' = found /\ left' = left /\ findings' = findings
      /\ children' = children /\ job' = job /\ Directories' = Directories /\ Audited' = Audited
  BY DEF walk, Directories, Audited
<1>5. at' \in Early => left' = {}
  BY <1>4 DEF Typed
<1>6. QED
  BY <1>2, <1>3, <1>4, <1>5 DEF Typed, GateTyped

LEMMA TypedStart == ASSUME Typed, Coded, Start PROVE Typed'
<1>1. /\ job' = job /\ codes' = codes /\ Running /\ at' \in {"diff", "scan", "static"}
      /\ todo' = {} /\ found' = {} /\ left' = {} /\ findings' = {}
      /\ policyChanged' = FALSE /\ failed' = FALSE /\ violations' = 0 /\ outputs' = None
      /\ children' = [c \in {} |-> None]
  BY DEF Start, StartAudit
<1>2. DOMAIN children' = {}
  BY <1>1
<1>3. /\ at' # "idle" => Len(codes') < Len(job.programs)
      /\ Len(codes') <= Len(job.programs)
  BY <1>1, TypedCodes
<1>4. \A c \in {"diff", "scan", "static"} : AfterChild[c] \notin {"diff", "scan", "static"}
  BY AfterPlaces
<1>5. ~Audited'
  BY <1>2 DEF Audited
<1>6. QED
  BY <1>1, <1>2, <1>3, <1>4, <1>5, FS_EmptySet DEF Typed

LEMMA StrictFinite ==
    ASSUME NEW fs, IsFiniteSet(fs), NEW strict
    PROVE  IsFiniteSet(ApplyStrict(fs, strict))
<1> DEFINE hard(f) == IF strict /\ f.code = "DRIFT_POLICY_ONLY" THEN [f EXCEPT !.severity = "error"] ELSE f
           g == [f \in fs |-> hard(f)]
<1>1. ApplyStrict(fs, strict) = {hard(f) : f \in fs}
  BY DEF ApplyStrict
<1> HIDE DEF hard
<1>2. {hard(f) : f \in fs} \subseteq Image(g, fs)
  BY DEF Image
<1> HIDE DEF g
<1>3. QED
  BY <1>1, <1>2, ImageFinite

LEMMA TypedStatic ==
    ASSUME Tracked, Coded, Typed, StaticStep, UNCHANGED gate
    PROVE  Typed'
<1>1. CASE AuditRefused
  <2>1. PICK status : status = IF PoliciesLoad THEN 2 ELSE 3
    OBVIOUS
  <2>2. at = "static" /\ CommandEnds("static", status, None) /\ UNCHANGED <<walk, left, findings>>
    BY <1>1, <2>1 DEF AuditRefused, audit
  <2>3. status \in Statuses
    BY <2>1 DEF Statuses
  <2>4. QED
    BY <2>2, <2>3, TypedEnds
<1>2. CASE AuditReport
  <2> DEFINE report == ApplyStrict(findings, Strict)
             status == IF job.sarif = "fails" THEN 3
                       ELSE IF StaticErrors(report, Strict) # {} THEN 1 ELSE 0
  <2>1. at = "auditing" /\ CommandEnds("static", status, report) /\ UNCHANGED <<walk, left, findings>>
    BY <1>2 DEF AuditReport
  <2>2. status \in Statuses
    BY DEF Statuses
  <2>3. IsFiniteSet(report)
    BY StrictFinite DEF Typed
  <2> HIDE DEF report, status
  <2>4. QED
    BY <2>1, <2>2, <2>3, TypedEnds
<1>3. GateTyped'
  BY DEF Typed, GateTyped, gate
<1>4. \A c \in {"diff", "scan", "static"} : AfterChild[c] \notin {"walking", "auditing"}
  BY AfterPlaces
<1>5. CASE ResolveManifests
  <2>1. /\ at = "static" /\ UNCHANGED <<job, codes, children, findings>> /\ findings = {} /\ left = {}
        /\ \/ at' = "auditing" /\ found' \subseteq DOMAIN job.files /\ todo' = {} /\ left' = found'
           \/ at' = "walking" /\ todo' = {<<>>} /\ found' = {} /\ left' = left
    BY <1>5 DEF ResolveManifests, StartWalk, Tracked, Collected, Typed, Early
  <2>2. /\ at' # "idle" => Len(codes') < Len(job.programs)
        /\ Len(codes') <= Len(job.programs)
    BY <2>1, TypedCodes
  <2>3. Directories' = Directories /\ <<>> \in Directories /\ Audited' = Audited
    BY <2>1 DEF Directories, Audited
  <2>4. QED
    BY <1>3, <1>4, <2>1, <2>2, <2>3, FS_EmptySet DEF Typed, GateTyped, Early
<1>6. CASE EndWalk
  <2>1. /\ at = "walking" /\ at' = "auditing" /\ UNCHANGED <<job, codes, children, walk, findings>>
        /\ left' = found
    BY <1>6 DEF EndWalk
  <2>2. /\ at' # "idle" => Len(codes') < Len(job.programs)
        /\ Len(codes') <= Len(job.programs)
    BY <2>1, TypedCodes
  <2>3. Directories' = Directories /\ Audited' = Audited /\ todo' = todo /\ found' = found
    BY <2>1 DEF Directories, Audited, walk
  <2>4. QED
    BY <1>3, <1>4, <2>1, <2>2, <2>3 DEF Typed, GateTyped, Early
<1>7. CASE (\E dir \in todo : Visit(dir)) /\ UNCHANGED audit
  <2>1. PICK dir \in todo : Visit(dir)
    BY <1>7
  <2>2. /\ at = "walking" /\ at' = at /\ UNCHANGED <<job, codes, children, left, findings>>
        /\ todo' \subseteq todo \cup Directories /\ found' \subseteq found \cup DOMAIN job.files
        /\ found \subseteq found'
    BY <1>7, <2>1 DEF Visit, process, audit, Entries
  <2>3. /\ at' # "idle" => Len(codes') < Len(job.programs)
        /\ Len(codes') <= Len(job.programs)
    BY <2>2, TypedCodes
  <2>4. Directories' = Directories /\ Audited' = Audited
    BY <2>2 DEF Directories, Audited
  <2>5. QED
    BY <1>3, <1>4, <2>2, <2>3, <2>4 DEF Typed, GateTyped
<1>8. CASE \E file \in left : AuditManifest(file)
  <2>1. PICK file \in left : AuditManifest(file)
    BY <1>8
  <2>2. /\ at = "auditing" /\ at' = at /\ UNCHANGED <<job, codes, children, walk>>
        /\ left' = left \ {file} /\ findings' = findings \cup FindingsOf(file)
    BY <2>1 DEF AuditManifest, process
  <2>3. /\ at' # "idle" => Len(codes') < Len(job.programs)
        /\ Len(codes') <= Len(job.programs)
    BY <2>2, TypedCodes
  <2>4. Directories' = Directories /\ Audited' = Audited /\ todo' = todo /\ found' = found
    BY <2>2 DEF Directories, Audited, walk
  <2>5. file \in found /\ file \in DOMAIN job.files /\ job \in Jobs /\ PoliciesLoad
    BY <2>2 DEF Typed, Coded
  <2>6. IsFiniteSet(FindingsOf(file)) /\ \A f \in FindingsOf(file) : f.file = file
    BY <2>5, FindingsFinite, FindingsTyped
  <2>7. IsFiniteSet(findings')
    BY <2>2, <2>6, FS_Union DEF Typed
  <2>8. QED
    BY <1>3, <1>4, <2>2, <2>3, <2>4, <2>5, <2>6, <2>7 DEF Typed, GateTyped, Early
<1>9. QED
  BY <1>1, <1>2, <1>5, <1>6, <1>7, <1>8 DEF StaticStep

LEMMA ViolationsCounted ==
    ASSUME Scanned, "scan" \in DOMAIN children
    PROVE  ScanCount(children["scan"]) \in Nat
<1> DEFINE child == children["scan"]
<1>1. child.report \notin {None, Unreadable} => Len(child.report.violations) \in Nat
  <2>1. ASSUME child.report \notin {None, Unreadable}
        PROVE  hits \in Seq((1..read) \X RuleKeys) /\ child.report.violations = hits
    BY <2>1 DEF Scanned, Told
  <2>2. QED
    BY <2>1
<1>2. Unreadable # None
  BY WorkspaceAssumption
<1> HIDE DEF child
<1>3. ScanCount(child) \in Nat
  BY <1>1, <1>2 DEF ScanCount
<1>4. QED
  BY <1>3 DEF child

(* What is set for a static audit are numbers, drift is a part of the rest. *)
LEMMA CountsTyped ==
    ASSUME NEW child, Given(child.report) => IsFiniteSet(child.report)
    PROVE  /\ StaticCounts(child).drift \in Nat /\ StaticCounts(child).findings \in Nat
           /\ StaticCounts(child).drift <= StaticCounts(child).findings
           /\ Given(child.report) /\ child.report # {} => StaticCounts(child).findings > 0
           /\ ~Given(child.report) /\ child.status = 1 => StaticCounts(child).findings > 0
<1>1. CASE Given(child.report)
  <2> DEFINE drift == {f \in child.report : f.code \in DriftCodes}
  <2>1. drift \in SUBSET child.report /\ IsFiniteSet(child.report)
    BY <1>1
  <2>2. StaticCounts(child) = [drift |-> Cardinality(drift), findings |-> Cardinality(child.report)]
    BY <1>1 DEF StaticCounts
  <2> HIDE DEF drift
  <2>3. /\ IsFiniteSet(drift) /\ Cardinality(drift) <= Cardinality(child.report)
        /\ Cardinality(drift) \in Nat /\ Cardinality(child.report) \in Nat
        /\ child.report # {} => Cardinality(child.report) # 0
    BY <2>1, FS_Subset, FS_CardinalityType, FS_EmptySet
  <2>4. QED
    BY <1>1, <2>2, <2>3
<1>2. CASE ~Given(child.report)
  BY <1>2 DEF StaticCounts
<1>3. QED
  BY <1>1, <1>2

LEMMA TypedStep ==
    ASSUME Tracked, Coded, Scanned, Typed, [Next]_vars
    PROVE  Typed'
<1>1. CASE Start
  BY <1>1, TypedStart
<1>2. CASE Command
  BY <1>2, TypedKeep DEF Command, Running, Typed, GateTyped, gate, walk, audit, Early
<1>3. CASE NoDiff \/ NoScan \/ ReadDiff
  <2>1. /\ at \in Early /\ at' \in {"scan", "static"} /\ UNCHANGED <<job, codes, children, walk, left, findings>>
    BY <1>3 DEF NoDiff, NoScan, ReadDiff, GoOn, audit, Early
  <2>2. GateTyped'
    BY <1>3 DEF NoDiff, NoScan, ReadDiff, GateTyped, Typed, gate
  <2>3. QED
    BY <2>1, <2>2, TypedKeep DEF Early
<1>4. CASE ReadScan
  <2>1. /\ at = "scan ended" /\ UNCHANGED <<job, children, walk, left, findings>>
        /\ \/ at' = "static" /\ codes' = codes
           \/ at' = "idle" /\ codes' = Append(codes, 3)
    BY <1>4 DEF ReadScan, GoOn, Exit, audit
  <2>2. "scan" \in DOMAIN children
    BY <2>1, AfterPlaces DEF Typed
  <2>3. violations' \in Nat
    BY <1>4, <2>2, ViolationsCounted DEF ReadScan
  <2>4. GateTyped'
    BY <1>4, <2>3 DEF ReadScan, GateTyped, Typed
  <2>5. QED
    BY <2>1, <2>4, TypedKeep DEF Early
<1>5. CASE ReadStatic
  <2> DEFINE counts == StaticCounts(children["static"])
  <2>1. /\ at = "static ended" /\ at' = "idle" /\ UNCHANGED <<job, children, walk, left, findings>>
        /\ \E code : codes' = Append(codes, code)
    BY <1>5 DEF ReadStatic, Exit, audit
  <2>2. "static" \in DOMAIN children
    BY <2>1, AfterPlaces DEF Typed
  <2>3. counts.drift \in Nat /\ counts.findings \in Nat
    BY <2>2, CountsTyped DEF Typed, Audited
  <2> HIDE DEF counts
  <2>4. \/ outputs' = outputs
        \/ outputs' = [violations |-> violations, driftCount |-> counts.drift,
                       staticFindings |-> counts.findings, policyChanged |-> policyChanged]
    BY <1>5 DEF ReadStatic, counts
  <2>5. outputs' \in Outputs \cup {None}
    BY <2>3, <2>4 DEF Outputs, Typed
  <2>6. failed' \in BOOLEAN /\ policyChanged' = policyChanged /\ violations' = violations
    BY <1>5 DEF ReadStatic, Typed
  <2>7. GateTyped'
    BY <2>5, <2>6 DEF GateTyped, Typed
  <2>8. QED
    BY <2>1, <2>7, TypedKeep DEF Early
<1>6. CASE DiffFails \/ ScanFails \/ StaticFails
  <2>1. PICK command \in {"diff", "scan", "static"} :
            /\ \E printed : ChildFails(command, printed) /\ (command = "static" => printed = {None})
            /\ at # "idle" /\ (command # "static" => at \in Early)
    BY <1>6 DEF DiffFails, ScanFails, StaticFails, Early
  <2>2. PICK status \in {1, None} :
            \E report : CommandEnds(command, status, report) /\ (command = "static" => report = None)
    BY <2>1 DEF ChildFails
  <2>3. PICK report : CommandEnds(command, status, report) /\ (command = "static" => report = None)
    BY <2>2
  <2>4. status \in Statuses /\ UNCHANGED <<walk, left, findings, gate>>
    BY <2>1 DEF Statuses, ChildFails, audit
  <2>5. QED
    BY <2>1, <2>3, <2>4, TypedEnds
<1>7. CASE DiffStep /\ UNCHANGED <<walk, audit, scan, gate>>
  <2>1. at = "diff" /\ \E report : CommandEnds("diff", DiffExit(TRUE), report)
    BY <1>7 DEF DiffStep
  <2>2. DiffExit(TRUE) \in Statuses
    BY DEF DiffExit, Statuses
  <2>3. UNCHANGED <<walk, left, findings, gate>>
    BY <1>7 DEF audit
  <2>4. QED
    BY <2>1, <2>2, <2>3, TypedEnds DEF Early
<1>8. CASE ScanStep /\ UNCHANGED <<walk, audit, gate>>
  <2>1. UNCHANGED <<walk, left, findings, gate>> /\ GateTyped'
    BY <1>8 DEF audit, gate, GateTyped, Typed
  <2>2. CASE \E status \in {0, 1, 2} : \E report : CommandEnds("scan", status, report)
    <3>1. at \in {"scan", "scanning"}
      BY <1>8 DEF ScanStep, ScanRefused, ScanBegins, ScanFile, ScanReport
    <3>2. QED
      BY <2>1, <2>2, <3>1, TypedEnds DEF Statuses, Early
  <2>3. CASE ScanBegins
    BY <2>1, <2>3, TypedKeep DEF ScanBegins, Early
  <2>4. CASE ScanFile /\ UNCHANGED process
    BY <2>1, <2>4, TypedKeep DEF ScanFile, process
  <2>5. ScanRefused \/ ScanReport \/ (ScanFile /\ ~UNCHANGED process) =>
            \E status \in {0, 1, 2} : \E report : CommandEnds("scan", status, report)
    <3>1. ScanRefused => CommandEnds("scan", 2, None)
      BY DEF ScanRefused
    <3>2. ScanFile /\ ~UNCHANGED process => CommandEnds("scan", 2, None)
      BY DEF ScanFile
    <3>3. ScanReport => \E status \in {0, 1} : \E report : CommandEnds("scan", status, report)
      BY DEF ScanReport
    <3>4. QED
      BY <3>1, <3>2, <3>3
  <2>6. QED
    BY <1>8, <2>2, <2>3, <2>4, <2>5 DEF ScanStep
<1>9. CASE StaticStep /\ UNCHANGED <<scan, gate>>
  BY <1>9, TypedStatic
<1>10. CASE UNCHANGED vars
  <2>1. UNCHANGED <<job, codes, at, children, walk, left, findings, gate>>
    BY <1>10 DEF vars, process, audit
  <2>2. Directories' = Directories /\ Audited' = Audited /\ walk' = walk
    BY <2>1 DEF Directories, Audited
  <2>3. QED
    BY <2>1, <2>2 DEF Typed, walk, gate
<1>11. QED
  BY <1>1, <1>2, <1>3, <1>4, <1>5, <1>6, <1>7, <1>8, <1>9, <1>10 DEF Next

LEMMA Typing == Spec => [](Tracked /\ Coded /\ Scanned /\ Typed)
<1>1. Init => Typed
  BY TypedInit
<1>2. Tracked /\ Coded /\ Scanned /\ Typed /\ [Next]_vars => Typed'
  BY TypedStep
<1>3. QED
  BY <1>1, <1>2, Scanning, PTL DEF Spec

(* Whatever the checkout, the arguments and the order of the steps: every   *)
(* variable of the workflow has its type, in particular no program exits    *)
(* with another code than 0 to 3 and no count is without a number.          *)
THEOREM TypeCorrect == Spec => []TypeOK
<1>1. Tracked /\ Coded /\ Scanned /\ Typed => TypeOK
  <2> SUFFICES ASSUME Tracked, Coded, Scanned, Typed PROVE TypeOK
    OBVIOUS
  <2>1. codes \in Seq(0..3)
    BY Zenon DEF Coded, CodesTrue
  <2>2. at \in {"idle", "diff", "diff ended", "scan", "scanning", "scan ended",
                "static", "walking", "auditing", "static ended"}
    BY DEF Tracked, Collected, Early
  <2>3. read \in Nat /\ \A n \in DOMAIN hits : hits[n] \in (1..read) \X RuleKeys
    <3>1. hits \in Seq((1..read) \X RuleKeys) /\ read \in Nat
      BY DEF Scanned, Told
    <3>2. QED
      BY <3>1
  <2>4. QED
    BY <2>1, <2>2, <2>3 DEF TypeOK, Typed
<1>2. QED
  BY <1>1, Typing, PTL

-----------------------------------------------------------------------------
(* The gate. *)

NoScanVerdict ==
    ~Loads(job.policy) \/ \E k \in DOMAIN job.streams : Throws(job.streams[k], Loaded(job.policy), None)

NoStaticVerdict == (~Given(job.policy) /\ ~Given(job.policyDir)) \/ ~PoliciesLoad

(* What a child may have returned: no report when it broke, else the truth. *)
Lost(child) ==
    child.status = None \/ (child.status = 1 /\ child.report \in {None, Unreadable})

DiffSays(child) == Lost(child) \/ child.status = DiffExit(TRUE)

ScanSays(child) ==
    \/ Lost(child)
    \/ child.status = 2 /\ NoScanVerdict
    \/ /\ ~NoScanVerdict /\ child.status \in {0, 1}
       /\ child.status = 1 => StreamsSuspect
       /\ StreamsCertain => child.status = 1
       /\ child.report \notin {None, Unreadable} =>
             (Len(child.report.violations) > 0 <=> child.status = 1)

StaticSays(child) ==
    \/ Lost(child)
    \/ child.status \in {2, 3} /\ NoStaticVerdict
    \/ /\ ~NoStaticVerdict
       /\ child.status = IF job.sarif = "fails" THEN 3 ELSE IF ManifestsFail THEN 1 ELSE 0
       /\ Given(child.report) /\ ManifestsFail => child.report # {}

ToCompare == Given(job.baseline) /\ Given(job.policy)

Heard ==
    /\ "diff" \in DOMAIN children => ToCompare /\ DiffSays(children["diff"])
    /\ "scan" \in DOMAIN children => ToScan /\ ScanSays(children["scan"])
    /\ "static" \in DOMAIN children => StaticSays(children["static"])

Verdict(command) == command \in DOMAIN children /\ children[command].status \in {0, 1}

ScanPassed == IF ToScan THEN Verdict("scan") ELSE "scan" \notin DOMAIN children

(* Which children the action has asked, stage by stage. *)
Asked ==
    /\ at \in {"diff", "diff ended", "scan", "scanning"} => "scan" \notin DOMAIN children
    /\ at = "diff" => "diff" \notin DOMAIN children
    /\ at # "diff" => ("diff" \in DOMAIN children <=> ToCompare)
    /\ at = "scanning" => ToScan
    /\ at \in {"static", "walking", "auditing", "static ended"} => ScanPassed
    /\ at \in {"walking", "auditing"} => Given(job.policy) \/ Given(job.policyDir)

Counted == IF "scan" \in DOMAIN children THEN ScanCount(children["scan"]) ELSE 0

Drifted == "diff" \in DOMAIN children /\ children["diff"].status # 0
DriftFails == Drifted /\ FailsOn({"drift"})
CountFails == Counted > 0 /\ FailsOn({"violations"})
StaticFailed == children["static"].status = 1 /\ FailsOn({"static", "drift"})

(* What it has made of their answers so far. *)
SoFar ==
    /\ outputs = None
    /\ at \in {"diff", "diff ended"} => ~policyChanged /\ ~failed
    /\ at \notin {"diff", "diff ended"} => (policyChanged <=> Drifted)
    /\ at \in {"scan", "scanning", "scan ended"} => (failed <=> DriftFails)
    /\ at \in {"diff", "diff ended", "scan", "scanning", "scan ended"} => violations = 0
    /\ at \in {"static", "walking", "auditing", "static ended"} =>
          violations = Counted /\ (failed <=> DriftFails \/ CountFails)

(* And in the end. *)
Concluded ==
    \/ /\ codes[Len(codes)] = 3 /\ outputs = None
       /\ \/ "scan" \in DOMAIN children /\ ~Verdict("scan")
          \/ "static" \in DOMAIN children /\ ~Verdict("static")
    \/ /\ Verdict("static") /\ ScanPassed
       /\ codes[Len(codes)] = IF job.failOn # "none" /\ (DriftFails \/ CountFails \/ StaticFailed)
                                THEN 1 ELSE 0
       /\ outputs = [violations |-> Counted, driftCount |-> StaticCounts(children["static"]).drift,
                     staticFindings |-> StaticCounts(children["static"]).findings,
                     policyChanged |-> outputs.policyChanged]
       /\ outputs.policyChanged <=> Drifted
       /\ outputs \in Outputs

Acting == at # "idle" /\ Program = "action"

Gated ==
    /\ Acting => Heard /\ Asked /\ SoFar
    /\ ActionEnded => Heard /\ Concluded /\ ("diff" \in DOMAIN children <=> ToCompare)

(* What is known of the checkout stays so. *)
LEMMA SameJob ==
    ASSUME job' = job
    PROVE  /\ NoScanVerdict' <=> NoScanVerdict
           /\ NoStaticVerdict' <=> NoStaticVerdict
           /\ DiffExit(TRUE)' = DiffExit(TRUE)
           /\ StreamsSuspect' <=> StreamsSuspect
           /\ StreamsCertain' <=> StreamsCertain
           /\ ToScan' <=> ToScan
           /\ ToCompare' <=> ToCompare
           /\ found' = found => (ManifestsFail' <=> ManifestsFail)
<1>1. \A doc : Loaded(doc)' = Loaded(doc)
  BY DEF Loaded
<1>2. PolicyFiles' = PolicyFiles
  BY DEF PolicyFiles
<1>3. (PoliciesLoad' <=> PoliciesLoad) /\ Policies' = Policies
  BY <1>1, <1>2 DEF PoliciesLoad, Policies
<1>4. NoScanVerdict' <=> NoScanVerdict
  BY <1>1 DEF NoScanVerdict
<1>5. (StreamsSuspect' <=> StreamsSuspect) /\ (StreamsCertain' <=> StreamsCertain)
  BY <1>1 DEF StreamsSuspect, StreamsCertain, ToScan
<1>6. DiffExit(TRUE)' = DiffExit(TRUE)
  BY DEF DiffExit, Comparable, Comparison
<1>7. \A file, rules : BlockedText(file, rules)' <=> BlockedText(file, rules)
  BY DEF BlockedText
<1>8. \A file, tool : Declares(file, tool)' <=> Declares(file, tool)
  BY DEF Declares
<1>9. found' = found => (ManifestsFail' <=> ManifestsFail)
  BY <1>3, <1>7, <1>8 DEF ManifestsFail, ManifestsDrift
<1>10. QED
  BY <1>3, <1>4, <1>5, <1>6, <1>9 DEF NoStaticVerdict, ToScan, ToCompare

LEMMA HeardKept ==
    ASSUME Heard, UNCHANGED <<job, children>>, found' = found \/ "static" \notin DOMAIN children
    PROVE  Heard'
  BY SameJob DEF Heard, DiffSays, ScanSays, StaticSays, Lost, Given

LEMMA HeardMore ==
    ASSUME Heard, NEW command \in {"diff", "scan", "static"}, NEW status, NEW report,
           CommandEnds(command, status, report), found' = found,
           NEW child, child = [status |-> status, report |-> report],
           command = "diff" => ToCompare /\ DiffSays(child),
           command = "scan" => ToScan /\ ScanSays(child),
           command = "static" => StaticSays(child)
    PROVE  Heard'
<1>1. /\ job' = job /\ DOMAIN children' = DOMAIN children \cup {command}
      /\ \A c \in DOMAIN children' :
            c # command => c \in DOMAIN children /\ children'[c] = children[c]
      /\ children'[command].report = report /\ children'[command].status = status
  BY EndsReports
<1>2. child.report = report /\ child.status = status
  OBVIOUS
<1>3. "diff" \in DOMAIN children' => (ToCompare /\ DiffSays(children["diff"]))'
  <2>1. CASE command = "diff"
    BY <1>1, <1>2, <2>1, SameJob DEF DiffSays, Lost
  <2>2. CASE command # "diff"
    BY <1>1, <2>2, SameJob DEF DiffSays, Lost, Heard
  <2>3. QED
    BY <2>1, <2>2
<1>4. "scan" \in DOMAIN children' => (ToScan /\ ScanSays(children["scan"]))'
  <2>1. CASE command = "scan"
    BY <1>1, <1>2, <2>1, SameJob DEF ScanSays, Lost, Given
  <2>2. CASE command # "scan"
    BY <1>1, <2>2, SameJob DEF ScanSays, Lost, Given, Heard
  <2>3. QED
    BY <2>1, <2>2
<1>5. "static" \in DOMAIN children' => StaticSays(children["static"])'
  <2>1. CASE command = "static"
    BY <1>1, <1>2, <2>1, SameJob DEF StaticSays, Lost, Given
  <2>2. CASE command # "static"
    BY <1>1, <2>2, SameJob DEF StaticSays, Lost, Given, Heard
  <2>3. QED
    BY <2>1, <2>2
<1>6. QED
  BY <1>3, <1>4, <1>5 DEF Heard

(* What the action counts with. *)
LEMMA SameCounts ==
    ASSUME UNCHANGED <<job, children>>
    PROVE  /\ (Drifted' <=> Drifted) /\ (DriftFails' <=> DriftFails)
           /\ Counted' = Counted
           /\ (CountFails' <=> CountFails) /\ (StaticFailed' <=> StaticFailed)
           /\ (ScanPassed' <=> ScanPassed) /\ (Verdict("scan")' <=> Verdict("scan"))
           /\ (Verdict("static")' <=> Verdict("static"))
<1>1. (Drifted' <=> Drifted) /\ (Verdict("scan")' <=> Verdict("scan")) /\ (Verdict("static")' <=> Verdict("static"))
  BY DEF Drifted, Verdict
<1>2. Counted' = Counted
  BY DEF Counted, ScanCount
<1>3. \A kinds : FailsOn(kinds)' <=> FailsOn(kinds)
  BY DEF FailsOn
<1>4. QED
  BY <1>1, <1>2, <1>3, SameJob DEF DriftFails, CountFails, StaticFailed, ScanPassed

LEMMA EndsCounts ==
    ASSUME NEW command \in {"diff", "scan", "static"}, NEW status, NEW report,
           CommandEnds(command, status, report)
    PROVE  /\ command # "diff" => (Drifted' <=> Drifted) /\ (DriftFails' <=> DriftFails)
           /\ command = "static" => /\ Counted' = Counted /\ (CountFails' <=> CountFails)
                                    /\ (ScanPassed' <=> ScanPassed)
<1>1. /\ job' = job /\ DOMAIN children' = DOMAIN children \cup {command}
      /\ \A c \in DOMAIN children' :
            c # command => c \in DOMAIN children /\ children'[c] = children[c]
  BY EndsReports
<1>2. \A kinds : FailsOn(kinds)' <=> FailsOn(kinds)
  BY <1>1 DEF FailsOn
<1>3. command # "diff" => (Drifted' <=> Drifted)
  BY <1>1 DEF Drifted
<1>4. command = "static" => Counted' = Counted
  BY <1>1 DEF Counted, ScanCount
<1>5. command = "static" => (Verdict("scan")' <=> Verdict("scan"))
                            /\ ("scan" \in DOMAIN children' <=> "scan" \in DOMAIN children)
  BY <1>1 DEF Verdict
<1>6. QED
  BY <1>1, <1>2, <1>3, <1>4, <1>5, SameJob DEF DriftFails, CountFails, ScanPassed

(* A step of another program, or its end. *)
LEMMA NotActing ==
    ASSUME Coded, job' = job, Program # "action",
           \/ codes' = codes /\ at' # "idle"
           \/ \E code : codes' = Append(codes, code) /\ at' = "idle"
    PROVE  Gated'
<1>1. codes \in Seq(0..3)
  BY Zenon DEF Coded, CodesTrue
<1>2. CASE codes' = codes /\ at' # "idle"
  BY <1>2 DEF Gated, Acting, ActionEnded, Program
<1>3. ASSUME NEW code, codes' = Append(codes, code), at' = "idle" PROVE Gated'
  <2>1. Len(codes') = Len(codes) + 1
    BY <1>1, <1>3
  <2>2. job'.programs[Len(codes')] # "action"
    BY <2>1 DEF Program
  <2>3. QED
    BY <1>3, <2>2 DEF Gated, Acting, ActionEnded
<1>4. QED
  BY <1>2, <1>3

(* The action goes on. *)
LEMMA GatedGoing ==
    ASSUME job' = job, codes' = codes, at' # "idle", (Heard /\ Asked /\ SoFar)'
    PROVE  Gated'
  BY DEF Gated, ActionEnded

(* The action exits. *)
LEMMA GatedExit ==
    ASSUME Coded, Program = "action", NEW code, Exit(code), codes'[Len(codes')] = code => Concluded',
           Heard', "diff" \in DOMAIN children <=> ToCompare
    PROVE  Gated'
<1>1. codes \in Seq(0..3) /\ codes' = Append(codes, code) /\ at' = "idle" /\ UNCHANGED <<job, children>>
  BY Zenon DEF Coded, CodesTrue, Exit
<1>2. codes'[Len(codes')] = code
  BY <1>1
<1>3. ToCompare' <=> ToCompare
  BY <1>1, SameJob
<1>4. QED
  BY <1>1, <1>2, <1>3 DEF Gated, Acting

LEMMA GatedInit == ASSUME Init PROVE Gated
  BY DEF Init, Gated, Acting, ActionEnded

(* The program goes on with nothing new for the action. *)
LEMMA GatedSame ==
    ASSUME Gated, Program = "action", at # "idle", UNCHANGED <<job, codes, children, gate>>,
           found' = found \/ "static" \notin DOMAIN children,
           \/ at' = at
           \/ at = "scan" /\ at' = "scanning" /\ ToScan
           \/ at = "static" /\ at' \in {"walking", "auditing"} /\ (Given(job.policy) \/ Given(job.policyDir))
           \/ at = "walking" /\ at' = "auditing"
    PROVE  Gated'
<1>1. Heard /\ Asked /\ SoFar
  BY DEF Gated, Acting
<1>2. Heard'
  BY <1>1, HeardKept
<1>3. /\ (Drifted' <=> Drifted) /\ (DriftFails' <=> DriftFails) /\ Counted' = Counted
      /\ (CountFails' <=> CountFails) /\ (ScanPassed' <=> ScanPassed)
      /\ (ToCompare' <=> ToCompare) /\ (ToScan' <=> ToScan)
  BY SameCounts, SameJob
<1>4. /\ policyChanged' = policyChanged /\ violations' = violations /\ failed' = failed
      /\ outputs' = outputs /\ children' = children /\ job' = job /\ at' # "idle"
  BY DEF gate
<1>5. Asked'
  BY <1>1, <1>3, <1>4 DEF Asked
<1>6. SoFar'
  BY <1>1, <1>3, <1>4 DEF SoFar
<1>7. QED
  BY <1>2, <1>4, <1>5, <1>6, GatedGoing

(* A child returns to the action. *)
LEMMA GatedAnswer ==
    ASSUME Gated, Program = "action", at # "idle",
           NEW command \in {"diff", "scan", "static"}, NEW status, NEW report,
           CommandEnds(command, status, report), UNCHANGED gate, found' = found,
           NEW child, child = [status |-> status, report |-> report],
           command = "diff" => at = "diff" /\ ToCompare /\ DiffSays(child),
           command = "scan" => at \in {"scan", "scanning"} /\ ToScan /\ ScanSays(child),
           command = "static" => at \in {"static", "walking", "auditing"} /\ StaticSays(child)
    PROVE  Gated'
<1>1. Heard /\ Asked /\ SoFar
  BY DEF Gated, Acting
<1>2. Heard'
  BY <1>1, HeardMore
<1>3. /\ job' = job /\ DOMAIN children' = DOMAIN children \cup {command}
      /\ codes' = codes /\ at' = AfterChild[command]
  BY EndsReports DEF CommandEnds
<1>4. /\ policyChanged' = policyChanged /\ violations' = violations /\ failed' = failed
      /\ outputs' = outputs
  BY DEF gate
<1>5. /\ command = "diff" => at' = "diff ended"
      /\ command = "scan" => at' = "scan ended"
      /\ command = "static" => at' = "static ended"
  BY <1>3, AfterPlaces
<1>6. /\ command # "diff" => (Drifted' <=> Drifted) /\ (DriftFails' <=> DriftFails)
      /\ command = "static" => /\ Counted' = Counted /\ (CountFails' <=> CountFails)
                               /\ (ScanPassed' <=> ScanPassed)
  BY EndsCounts
<1>7. ToCompare' <=> ToCompare
  BY <1>3, SameJob
<1>8. Asked'
  BY <1>1, <1>3, <1>5, <1>6, <1>7 DEF Asked
<1>9. SoFar'
  BY <1>1, <1>4, <1>5, <1>6 DEF SoFar
<1>10. at' # "idle"
  BY <1>5
<1>11. QED
  BY <1>2, <1>3, <1>8, <1>9, <1>10, GatedGoing

-----------------------------------------------------------------------------
(* What the commands answer. *)

LEMMA DiffAnswers ==
    ASSUME Gated, Program = "action", NEW status, NEW report,
           at = "diff", Given(job.baseline) /\ Given(job.policy),
           CommandEnds("diff", status, report), UNCHANGED <<walk, gate>>,
           \/ status \in {1, None} /\ report = None
           \/ status = DiffExit(TRUE)
    PROVE  Gated'
<1> DEFINE child == [status |-> status, report |-> report]
<1>1. child.status = status /\ child.report = report
  OBVIOUS
<1> HIDE DEF child
<1>2. DiffSays(child)
  BY <1>1 DEF DiffSays, Lost
<1>3. ToCompare /\ found' = found
  BY DEF ToCompare, walk
<1> USE DEF child
<1>4. child = [status |-> status, report |-> report]
  OBVIOUS
<1> HIDE DEF child
<1>5. QED
  BY <1>2, <1>3, <1>4, GatedAnswer

(* All streams have been read. *)
LEMMA ReportSays ==
    ASSUME Coded, Scanned, at = "scanning", read = Len(job.streams), ToScan
    PROVE  /\ ~NoScanVerdict /\ (hits # <<>> <=> Len(hits) > 0)
           /\ hits # <<>> => StreamsSuspect
           /\ StreamsCertain => hits # <<>>
<1>1. /\ Told(job.streams, Loaded(job.policy), hits, read) /\ Loads(job.policy) /\ Given(job.streams)
  BY DEF Scanned
<1>2. job.streams \in Seq(Stream \cup {Unreadable})
  BY <1>1, WorkspaceAssumption DEF IsJob, Given, Coded
<1>3. DOMAIN job.streams = 1..read
  BY <1>2
<1>4. /\ hits \in Seq((1..read) \X RuleKeys)
      /\ \A m \in 1..read :
            /\ ~Throws(job.streams[m], Loaded(job.policy), None)
            /\ ToldOf(m, hits) => Suspect(job.streams[m], Loaded(job.policy))
            /\ Certain(job.streams[m], Loaded(job.policy)) => ToldOf(m, hits)
  BY <1>1 DEF Told
<1>5. ~NoScanVerdict
  BY <1>1, <1>3, <1>4 DEF NoScanVerdict
<1>6. hits # <<>> <=> Len(hits) > 0
  BY <1>4
<1>7. ASSUME hits # <<>> PROVE StreamsSuspect
  <2>1. 1 \in DOMAIN hits /\ hits[1] \in (1..read) \X RuleKeys
    BY <1>4, <1>7
  <2>2. ToldOf(hits[1][1], hits) /\ hits[1][1] \in 1..read
    BY <2>1 DEF Among, ToldOf
  <2>3. Suspect(job.streams[hits[1][1]], Loaded(job.policy))
    BY <1>4, <2>2
  <2>4. QED
    BY <1>3, <2>2, <2>3 DEF StreamsSuspect
<1>8. ASSUME StreamsCertain PROVE hits # <<>>
  <2>1. PICK m \in 1..read : Certain(job.streams[m], Loaded(job.policy))
    BY <1>3, <1>8 DEF StreamsCertain
  <2>2. \E h : Among(h, hits)
    BY <1>4, <2>1 DEF ToldOf
  <2>3. QED
    BY <2>2 DEF Among
<1>9. QED
  BY <1>5, <1>6, <1>7, <1>8

LEMMA ScanAnswers ==
    ASSUME Coded, Scanned, Gated, Program = "action", ScanStep, UNCHANGED <<walk, audit, gate>>
    PROVE  Gated'
<1>1. at # "idle" /\ Heard /\ Asked /\ SoFar /\ found' = found /\ job \in Jobs
  BY DEF ScanStep, ScanRefused, ScanBegins, ScanFile, ScanReport, Gated, Acting, walk, Coded
<1>2. CASE ScanRefused
  <2> DEFINE child == [status |-> 2, report |-> None]
  <2>1. at = "scan" /\ ToScan /\ ~Loads(job.policy) /\ CommandEnds("scan", 2, None)
    BY <1>2 DEF ScanRefused, ToScan
  <2>2. child.status = 2 /\ NoScanVerdict
    BY <2>1 DEF NoScanVerdict
  <2>3. child = [status |-> 2, report |-> None]
    OBVIOUS
  <2> HIDE DEF child
  <2>4. ScanSays(child)
    BY <2>2 DEF ScanSays
  <2>5. QED
    BY <1>1, <2>1, <2>3, <2>4, GatedAnswer
<1>3. CASE ScanBegins
  <2>1. ToScan
    BY <1>3 DEF ScanBegins, ToScan, Loads, Resolves, Given
  <2>2. QED
    BY <1>1, <1>3, <2>1, GatedSame DEF ScanBegins
<1>4. CASE ScanFile /\ UNCHANGED process
  BY <1>1, <1>4, GatedSame DEF process
<1>5. CASE ScanFile /\ ~UNCHANGED process
  <2> DEFINE child == [status |-> 2, report |-> None]
  <2>1. /\ at = "scanning" /\ read < Len(job.streams) /\ CommandEnds("scan", 2, None)
        /\ Throws(job.streams[read + 1], Loaded(job.policy), None)
    BY <1>5 DEF ScanFile
  <2>2. ToScan
    BY <1>1, <2>1 DEF Asked
  <2>3. read \in Nat
    BY DEF Scanned, Told
  <2>4. job.streams \in Seq(Stream \cup {Unreadable})
    BY <1>1, <2>2, WorkspaceAssumption DEF IsJob, Given, ToScan
  <2>5. read + 1 \in DOMAIN job.streams
    BY <2>1, <2>3, <2>4
  <2>6. child.status = 2 /\ NoScanVerdict
    BY <2>1, <2>5 DEF NoScanVerdict
  <2>7. child = [status |-> 2, report |-> None]
    OBVIOUS
  <2> HIDE DEF child
  <2>8. ScanSays(child)
    BY <2>6 DEF ScanSays
  <2>9. QED
    BY <1>1, <2>1, <2>2, <2>7, <2>8, GatedAnswer
<1>6. CASE ScanReport
  <2> DEFINE report == [files |-> Len(SelectSeq(job.streams, LAMBDA s : ~s.binary)), violations |-> hits,
                        redactions |-> Redactions([n \in DOMAIN hits |-> hits[n][2]])]
             status == IF hits = <<>> THEN 0 ELSE 1
  <2>1. at = "scanning" /\ read = Len(job.streams) /\ CommandEnds("scan", status, report)
    BY <1>6 DEF ScanReport
  <2>2. ToScan
    BY <1>1, <2>1 DEF Asked
  <2>3. report.violations = hits
    OBVIOUS
  <2> HIDE DEF report
  <2> DEFINE child == [status |-> status, report |-> report]
  <2>4. child.status = status /\ child.report = report /\ child = [status |-> status, report |-> report]
    OBVIOUS
  <2>5. /\ ~NoScanVerdict /\ (hits # <<>> <=> Len(hits) > 0)
        /\ hits # <<>> => StreamsSuspect
        /\ StreamsCertain => hits # <<>>
    BY <2>1, <2>2, ReportSays
  <2>6. status \in {0, 1} /\ (status = 1 <=> hits # <<>>)
    OBVIOUS
  <2> HIDE DEF child, status
  <2>7. ScanSays(child)
    BY <2>3, <2>4, <2>5, <2>6 DEF ScanSays
  <2>8. QED
    BY <1>1, <2>1, <2>2, <2>4, <2>7, GatedAnswer
<1>7. QED
  BY <1>2, <1>3, <1>4, <1>5, <1>6 DEF ScanStep

(* A finding of a manifest that is an error comes from a file that does not *)
(* parse, a tool that drifts or a text that is blocked.                     *)
LEMMA FindingCauses ==
    ASSUME NEW file, job.files[file] # Unreadable, NEW f \in FindingsOf(file)
    PROVE  /\ f.code # "MANIFEST_PARSE_ERROR"
           /\ f.severity = "error" =>
                \/ \E n \in DOMAIN Policies : BlockedText(file, Policies[n].rules)
                \/ f.code \in DriftErrorCodes /\ f.policy \in DOMAIN Policies
           /\ f.code \in DriftErrorCodes => f.severity = "error"
<1> DEFINE parsed == ParseManifest(job.files[file])
<1>1. f \in AuditOf(file, job.files[file], Policies)
  BY DEF FindingsOf
<1>2. \/ f \in DangerousStrings(file, parsed.texts)
      \/ \E n \in DOMAIN Policies :
           \/ f \in ComputeDrift(file, parsed.tools, PolicyToolSets(Policies[n].rules), n)
           \/ f \in BlockToolArgsStatic(file, parsed.texts, PolicyToolSets(Policies[n].rules), n)
  BY <1>1, Zenon DEF AuditOf
<1>3. CASE f \in DangerousStrings(file, parsed.texts)
  <2> HIDE DEF parsed
  <2>1. PICK t : t[3] \in DangerIds /\ f = Finding(t[3], "warning", file, t, None)
    BY <1>3, Zenon DEF DangerousStrings
  <2>2. f.code \in DangerIds /\ f.severity = "warning"
    BY <2>1, FindingFields
  <2>3. QED
    BY <2>2, ToolAuditAssumption DEF DriftErrorCodes, DriftCodes
<1>4. ASSUME NEW n \in DOMAIN Policies,
             f \in ComputeDrift(file, parsed.tools, PolicyToolSets(Policies[n].rules), n)
      PROVE  /\ f.code \in DriftCodes /\ f.policy = n
             /\ f.severity = "error" <=> f.code \in DriftErrorCodes
  <2> HIDE DEF parsed
  <2>1. \/ \E c \in DriftErrorCodes : \E t : f = Finding(c, "error", file, t, n)
        \/ \E t : f = Finding("DRIFT_POLICY_ONLY", "warning", file, t, n)
    BY <1>4 DEF ComputeDrift, DriftErrorCodes
  <2>2. QED
    BY <2>1, FindingFields DEF DriftErrorCodes, DriftCodes
<1>5. ASSUME NEW n \in DOMAIN Policies,
             f \in BlockToolArgsStatic(file, parsed.texts, PolicyToolSets(Policies[n].rules), n)
      PROVE  f.code = "BLOCK_ARGS_STATIC" /\ BlockedText(file, Policies[n].rules)
  <2>1. PolicyToolSets(Policies[n].rules).blockToolArgs = HasRule(Policies[n].rules, "blockToolArgs")
    BY DEF PolicyToolSets
  <2>2. /\ HasRule(Policies[n].rules, "blockToolArgs")
        /\ \E t \in parsed.texts : t[3] = "blocked" /\ f = Finding("BLOCK_ARGS_STATIC", "error", file, t, n)
    <3> HIDE DEF parsed
    <3>1. QED
      BY <1>5, <2>1 DEF BlockToolArgsStatic
  <2>3. QED
    BY <2>2, FindingFields DEF BlockedText
<1> HIDE DEF parsed
<1>6. QED
  BY <1>2, <1>3, <1>4, <1>5 DEF DriftErrorCodes, DriftCodes

LEMMA BlockedFinding ==
    ASSUME NEW file, job.files[file] # Unreadable, NEW n \in DOMAIN Policies,
           BlockedText(file, Policies[n].rules)
    PROVE  \E f \in FindingsOf(file) : f.code = "BLOCK_ARGS_STATIC" /\ f.severity = "error"
<1> DEFINE parsed == ParseManifest(job.files[file])
           sets(m) == PolicyToolSets(Policies[m].rules)
           blocked(m) == BlockToolArgsStatic(file, parsed.texts, sets(m), m)
<1>1. PICK t \in parsed.texts : t[3] = "blocked"
  BY DEF BlockedText
<1>2. sets(n).blockToolArgs
  BY DEF PolicyToolSets, BlockedText
<1>3. FindingsOf(file) = DangerousStrings(file, parsed.texts)
                         \cup UNION {ComputeDrift(file, parsed.tools, sets(m), m) \cup blocked(m) : m \in DOMAIN Policies}
  BY DEF FindingsOf, AuditOf
<1> HIDE DEF parsed, sets
<1>4. Finding("BLOCK_ARGS_STATIC", "error", file, t, n) \in blocked(n)
  BY <1>1, <1>2 DEF BlockToolArgsStatic
<1> HIDE DEF blocked
<1>5. Finding("BLOCK_ARGS_STATIC", "error", file, t, n) \in FindingsOf(file)
  BY <1>3, <1>4
<1>6. QED
  BY <1>5, FindingFields

(* The errors of the report without --strict. *)
LEMMA ErrorsSay ==
    ASSUME job \in Jobs, found \subseteq DOMAIN job.files,
           NEW fs, fs = UNION {FindingsOf(file) : file \in found}
    PROVE  /\ ApplyStrict(fs, FALSE) = fs
           /\ StaticErrors(fs, FALSE) # {} <=> ManifestsFail
<1>1. ApplyStrict(fs, FALSE) = fs
  BY DEF ApplyStrict
<1>2. ASSUME NEW f \in StaticErrors(fs, FALSE) PROVE ManifestsFail
  <2>1. PICK file \in found : f \in FindingsOf(file)
    BY <1>2 DEF StaticErrors
  <2>2. CASE job.files[file] = Unreadable
    BY <2>2 DEF ManifestsFail
  <2>3. CASE job.files[file] # Unreadable
    <3>1. f.severity = "error"
      BY <1>2, <2>1, <2>3, FindingCauses DEF StaticErrors
    <3>2. \/ \E n \in DOMAIN Policies : BlockedText(file, Policies[n].rules)
          \/ f.code \in DriftErrorCodes /\ f.policy \in DOMAIN Policies
      BY <2>1, <2>3, <3>1, FindingCauses
    <3>3. CASE f.code \in DriftErrorCodes /\ f.policy \in DOMAIN Policies
      <4>1. Declares(file, f.about) /\ Errs(PolicyToolSets(Policies[f.policy].rules), f.about)
        BY <2>1, <3>3, DriftOfManifest
      <4>2. Flagged(Policies[f.policy].rules, f.about)
        BY <4>1, ErrsFlagged
      <4>3. job.files[file] \in Manifest
        BY <2>3, ManifestOf
      <4>4. f.about \in Names
        BY <4>1, <4>3, ParsedTyped DEF Declares
      <4>5. QED
        BY <3>3, <4>1, <4>2, <4>4 DEF ManifestsFail, ManifestsDrift
    <3>4. QED
      BY <3>2, <3>3 DEF ManifestsFail
  <2>4. QED
    BY <2>2, <2>3
<1>3. ASSUME ManifestsFail PROVE \E f : f \in StaticErrors(fs, FALSE)
  <2>1. PICK file \in found :
            \/ job.files[file] = Unreadable
            \/ \E n \in DOMAIN Policies :
                  \/ \E tool \in Names : Declares(file, tool) /\ Flagged(Policies[n].rules, tool)
                  \/ BlockedText(file, Policies[n].rules)
    BY <1>3 DEF ManifestsFail, ManifestsDrift
  <2>2. CASE job.files[file] = Unreadable
    <3>1. ParseError(file) \in fs
      BY <2>2 DEF FindingsOf
    <3>2. ParseError(file).code = "MANIFEST_PARSE_ERROR"
      BY FindingFields DEF ParseError
    <3>3. QED
      BY <3>1, <3>2 DEF StaticErrors
  <2>3. ASSUME NEW n \in DOMAIN Policies, NEW tool \in Names,
               Declares(file, tool), Flagged(Policies[n].rules, tool)
        PROVE  \E f : f \in StaticErrors(fs, FALSE)
    <3>1. Errs(PolicyToolSets(Policies[n].rules), tool)
      BY <2>3, ErrsFlagged
    <3>2. PICK f \in FindingsOf(file) : f.code \in DriftErrorCodes
      BY <2>3, <3>1, DriftOfManifest
    <3>3. f.severity = "error"
      BY <2>3, <3>2, FindingCauses DEF Declares
    <3>4. f \in fs /\ f.code \in DriftCodes
      BY <3>2 DEF DriftErrorCodes, DriftCodes
    <3>5. QED
      BY <3>3, <3>4 DEF StaticErrors
  <2>4. ASSUME NEW n \in DOMAIN Policies, BlockedText(file, Policies[n].rules),
               job.files[file] # Unreadable
        PROVE  \E f : f \in StaticErrors(fs, FALSE)
    <3>1. PICK f \in FindingsOf(file) : f.code = "BLOCK_ARGS_STATIC" /\ f.severity = "error"
      BY <2>4, BlockedFinding
    <3>2. f \in fs
      BY <3>1
    <3>3. QED
      BY <3>1, <3>2 DEF StaticErrors
  <2>5. QED
    BY <2>1, <2>2, <2>3, <2>4
<1>4. StaticErrors(fs, FALSE) # {} <=> ManifestsFail
  BY <1>2, <1>3
<1>5. QED
  BY <1>1, <1>4

LEMMA StaticAnswers ==
    ASSUME Coded, Tracked, Typed, Gated, Program = "action", StaticStep, UNCHANGED gate
    PROVE  Gated'
<1>1. /\ at # "idle" /\ Heard /\ Asked /\ SoFar /\ job \in Jobs
      /\ at \in {"static", "walking", "auditing"}
  BY DEF StaticStep, AuditRefused, ResolveManifests, AuditReport, Visit, EndWalk, AuditManifest,
         Gated, Acting, Coded
<1>2. "static" \notin DOMAIN children
  BY <1>1 DEF Tracked, Collected, Early
<1>3. CASE AuditRefused
  <2> DEFINE status == IF PoliciesLoad THEN 2 ELSE 3
             child == [status |-> status, report |-> None]
  <2>1. at = "static" /\ NoStaticVerdict /\ CommandEnds("static", status, None) /\ found' = found
    BY <1>3 DEF AuditRefused, NoStaticVerdict, walk
  <2>2. child.status \in {2, 3} /\ child = [status |-> status, report |-> None]
    OBVIOUS
  <2> HIDE DEF child, status
  <2>3. StaticSays(child)
    BY <2>1, <2>2 DEF StaticSays
  <2>4. QED
    BY <1>1, <2>1, <2>2, <2>3, GatedAnswer
<1>4. CASE ResolveManifests
  <2>1. /\ at = "static" /\ at' \in {"walking", "auditing"} /\ (Given(job.policy) \/ Given(job.policyDir))
        /\ UNCHANGED <<job, codes, children>>
    BY <1>4 DEF ResolveManifests
  <2>2. QED
    BY <1>1, <1>2, <2>1, GatedSame
<1>5. CASE EndWalk
  BY <1>1, <1>2, <1>5, GatedSame DEF EndWalk
<1>6. CASE (\E dir \in todo : Visit(dir)) \/ (\E file \in left : AuditManifest(file))
  <2>1. UNCHANGED <<job, codes, children>> /\ at' = at
    BY <1>6 DEF Visit, AuditManifest, process
  <2>2. QED
    BY <1>1, <1>2, <2>1, GatedSame
<1>7. CASE AuditReport
  <2> DEFINE report == ApplyStrict(findings, Strict)
             status == IF job.sarif = "fails" THEN 3
                       ELSE IF StaticErrors(report, Strict) # {} THEN 1 ELSE 0
             child == [status |-> status, report |-> report]
  <2>1. at = "auditing" /\ left = {} /\ CommandEnds("static", status, report) /\ found' = found
    BY <1>7 DEF AuditReport, walk
  <2>2. ~NoStaticVerdict
    BY <1>1, <2>1 DEF NoStaticVerdict, Coded, Asked
  <2>3. ~Strict /\ Strict = FALSE
    BY DEF Strict
  <2>4. findings = UNION {FindingsOf(file) : file \in found}
    <3>1. found \ left = found
      BY <2>1
    <3>2. findings = UNION {FindingsOf(file) : file \in found \ left}
      BY <2>1 DEF Tracked, Collected
    <3>3. QED
      BY <3>1, <3>2
  <2>5. found \subseteq DOMAIN job.files
    BY DEF Typed
  <2>6. report = findings /\ (StaticErrors(findings, FALSE) # {} <=> ManifestsFail)
    BY <1>1, <2>3, <2>4, <2>5, ErrorsSay
  <2>7. status = IF job.sarif = "fails" THEN 3 ELSE IF ManifestsFail THEN 1 ELSE 0
    BY <2>3, <2>6
  <2>8. Given(report) /\ ManifestsFail => report # {}
    BY <2>6 DEF StaticErrors
  <2>9. child.status = status /\ child.report = report /\ child = [status |-> status, report |-> report]
    OBVIOUS
  <2> HIDE DEF child, status, report
  <2>10. StaticSays(child)
    BY <2>2, <2>7, <2>8, <2>9 DEF StaticSays
  <2>11. QED
    BY <1>1, <2>1, <2>9, <2>10, GatedAnswer
<1>8. QED
  BY <1>3, <1>4, <1>5, <1>6, <1>7 DEF StaticStep

-----------------------------------------------------------------------------
(* The action draws its conclusions. *)

LEMMA NoDiffGated == ASSUME Coded, Gated, NoDiff PROVE Gated'
<1>1. /\ at = "diff" /\ ~ToCompare /\ at' = "scan" /\ UNCHANGED <<job, codes, children, gate>>
      /\ found' = found /\ Program = "action"
  BY DEF NoDiff, ToCompare, GoOn, walk, Coded
<1>2. Heard /\ Asked /\ SoFar
  BY <1>1 DEF Gated, Acting
<1>3. Heard'
  BY <1>1, <1>2, HeardKept
<1>4. "diff" \notin DOMAIN children' /\ "scan" \notin DOMAIN children' /\ (ToCompare' <=> ToCompare)
  BY <1>1, <1>2, SameJob DEF Asked
<1>5. Asked'
  BY <1>1, <1>4 DEF Asked
<1>6. ~policyChanged' /\ ~failed' /\ violations' = 0 /\ outputs' = None
  BY <1>1, <1>2 DEF SoFar, gate
<1>7. ~Drifted' /\ ~DriftFails'
  BY <1>4 DEF Drifted, DriftFails
<1>8. SoFar'
  BY <1>1, <1>6, <1>7 DEF SoFar
<1>9. QED
  BY <1>1, <1>3, <1>5, <1>8, GatedGoing

LEMMA ReadDiffGated == ASSUME Coded, Typed, Gated, ReadDiff PROVE Gated'
<1> DEFINE changed == children["diff"].status # 0
<1>1. /\ at = "diff ended" /\ at' = "scan" /\ UNCHANGED <<job, codes, children, violations, outputs>>
      /\ found' = found /\ Program = "action"
      /\ policyChanged' = changed /\ failed' = (changed /\ FailsOn({"drift"}))
  BY DEF ReadDiff, GoOn, walk, Coded
<1>2. Heard /\ Asked /\ SoFar
  BY <1>1 DEF Gated, Acting
<1>3. Heard'
  BY <1>1, <1>2, HeardKept
<1>4. "diff" \in DOMAIN children
  BY <1>1, AfterPlaces DEF Typed
<1>5. (Drifted <=> changed) /\ (DriftFails <=> changed /\ FailsOn({"drift"}))
  BY <1>4 DEF Drifted, DriftFails
<1> HIDE DEF changed
<1>6. (Drifted' <=> Drifted) /\ (DriftFails' <=> DriftFails) /\ (ToCompare' <=> ToCompare)
  BY <1>1, SameCounts, SameJob
<1>7. Asked'
  BY <1>1, <1>2, <1>6 DEF Asked
<1>8. (policyChanged' <=> changed) /\ (failed' <=> changed /\ FailsOn({"drift"}))
  BY <1>1
<1>9. SoFar'
  BY <1>1, <1>2, <1>5, <1>6, <1>8 DEF SoFar
<1>10. QED
  BY <1>1, <1>3, <1>7, <1>9, GatedGoing

LEMMA NoScanGated == ASSUME Coded, Gated, NoScan PROVE Gated'
<1>1. /\ at = "scan" /\ Program = "action" /\ ~ToScan /\ at' = "static"
      /\ UNCHANGED <<job, codes, children, gate>> /\ found' = found
  BY DEF NoScan, ToScan, GoOn, walk
<1>2. Heard /\ Asked /\ SoFar
  BY <1>1 DEF Gated, Acting
<1>3. Heard'
  BY <1>1, <1>2, HeardKept
<1>4. "scan" \notin DOMAIN children
  BY <1>1, <1>2 DEF Asked
<1>5. ScanPassed /\ Counted = 0 /\ ~CountFails
  <2>1. Counted = 0
    BY <1>4 DEF Counted
  <2>2. QED
    BY <1>1, <1>4, <2>1 DEF ScanPassed, CountFails
<1>6. /\ (Drifted' <=> Drifted) /\ (DriftFails' <=> DriftFails) /\ Counted' = Counted
      /\ (CountFails' <=> CountFails) /\ (ScanPassed' <=> ScanPassed) /\ (ToCompare' <=> ToCompare)
  BY <1>1, SameCounts, SameJob
<1>7. Asked'
  BY <1>1, <1>2, <1>5, <1>6 DEF Asked
<1>8. policyChanged' = policyChanged /\ violations' = violations /\ failed' = failed /\ outputs' = outputs
  BY <1>1 DEF gate
<1>9. SoFar'
  BY <1>1, <1>2, <1>5, <1>6, <1>8 DEF SoFar
<1>10. QED
  BY <1>1, <1>3, <1>7, <1>9, GatedGoing

LEMMA ReadScanGated == ASSUME Coded, Typed, Gated, ReadScan PROVE Gated'
<1> DEFINE child == children["scan"]
           count == ScanCount(child)
<1>1. /\ at = "scan ended" /\ found' = found /\ Program = "action"
      /\ policyChanged' = policyChanged /\ outputs' = outputs /\ violations' = count
      /\ IF child.status \notin {0, 1}
           THEN Exit(3) /\ UNCHANGED failed
           ELSE /\ failed' = (failed \/ (count > 0 /\ FailsOn({"violations"})))
                /\ GoOn("static")
  BY DEF ReadScan, walk, Coded
<1>2. Heard /\ Asked /\ SoFar
  BY <1>1 DEF Gated, Acting
<1>3. "scan" \in DOMAIN children /\ ToScan
  <2>1. "scan" \in DOMAIN children
    BY <1>1, AfterPlaces DEF Typed
  <2>2. QED
    BY <1>2, <2>1 DEF Heard
<1>4. Counted = count /\ (Verdict("scan") <=> child.status \in {0, 1})
      /\ (CountFails <=> count > 0 /\ FailsOn({"violations"}))
  <2>1. Counted = count
    BY <1>3 DEF Counted
  <2>2. QED
    BY <1>3, <2>1 DEF Verdict, CountFails
<1> HIDE DEF count, child
<1>5. UNCHANGED <<job, children>>
  BY <1>1 DEF Exit, GoOn
<1>6. Heard'
  BY <1>1, <1>2, <1>5, HeardKept
<1>7. /\ (Drifted' <=> Drifted) /\ (DriftFails' <=> DriftFails) /\ Counted' = Counted
      /\ (CountFails' <=> CountFails) /\ (ScanPassed' <=> ScanPassed) /\ (ToCompare' <=> ToCompare)
      /\ (Verdict("scan")' <=> Verdict("scan"))
  BY <1>5, SameCounts, SameJob
<1>8. CASE ~Verdict("scan")
  <2>1. Exit(3)
    BY <1>1, <1>4, <1>8
  <2>2. "diff" \in DOMAIN children <=> ToCompare
    BY <1>1, <1>2 DEF Asked
  <2>3. outputs' = None
    BY <1>1, <1>2 DEF SoFar
  <2>4. codes'[Len(codes')] = 3 => Concluded'
    BY <1>3, <1>5, <1>7, <1>8, <2>3 DEF Concluded
  <2>5. QED
    BY <1>1, <1>6, <2>1, <2>2, <2>4, GatedExit
<1>9. CASE Verdict("scan")
  <2>1. /\ at' = "static" /\ codes' = codes
        /\ failed' = (failed \/ (count > 0 /\ FailsOn({"violations"})))
    BY <1>1, <1>4, <1>9 DEF GoOn
  <2>2. ScanPassed
    BY <1>3, <1>9 DEF ScanPassed
  <2>3. Asked'
    BY <1>1, <1>2, <1>5, <1>7, <2>1, <2>2 DEF Asked
  <2>4. failed' <=> DriftFails \/ CountFails
    <3>1. failed <=> DriftFails
      BY <1>1, <1>2 DEF SoFar
    <3>2. QED
      BY <1>4, <2>1, <3>1
  <2>5. SoFar'
    BY <1>1, <1>2, <1>4, <1>7, <2>1, <2>4 DEF SoFar
  <2>6. QED
    BY <1>5, <1>6, <2>1, <2>3, <2>5, GatedGoing
<1>10. QED
  BY <1>8, <1>9

LEMMA ReadStaticGated == ASSUME Coded, Typed, Gated, ReadStatic PROVE Gated'
<1> DEFINE child == children["static"]
           counts == StaticCounts(child)
           fails == failed \/ (child.status = 1 /\ FailsOn({"static", "drift"}))
           code == IF job.failOn # "none" /\ fails THEN 1 ELSE 0
           told == [violations |-> violations, driftCount |-> counts.drift,
                    staticFindings |-> counts.findings, policyChanged |-> policyChanged]
<1>1. /\ at = "static ended" /\ found' = found /\ Program = "action" /\ failed' = fails
      /\ IF child.status \notin {0, 1} THEN Exit(3) /\ UNCHANGED outputs
                                       ELSE outputs' = told /\ Exit(code)
  BY DEF ReadStatic, walk, Coded
<1>2. Heard /\ Asked /\ SoFar
  BY <1>1 DEF Gated, Acting
<1>3. "static" \in DOMAIN children
  BY <1>1, AfterPlaces DEF Typed
<1>4. Verdict("static") <=> child.status \in {0, 1}
  BY <1>3 DEF Verdict
<1>5. /\ outputs = None /\ violations = Counted /\ (failed <=> DriftFails \/ CountFails)
      /\ (policyChanged <=> Drifted) /\ ScanPassed /\ ("diff" \in DOMAIN children <=> ToCompare)
  BY <1>1, <1>2 DEF SoFar, Asked
<1>6. fails <=> DriftFails \/ CountFails \/ StaticFailed
  BY <1>5 DEF StaticFailed
<1>7. UNCHANGED <<job, children>>
  <2> HIDE DEF child, told, code
  <2>1. QED
    BY <1>1 DEF Exit
<1>8. Heard'
  BY <1>1, <1>2, <1>7, HeardKept
<1>9. /\ (Drifted' <=> Drifted) /\ (DriftFails' <=> DriftFails) /\ Counted' = Counted
      /\ (CountFails' <=> CountFails) /\ (ScanPassed' <=> ScanPassed) /\ (StaticFailed' <=> StaticFailed)
      /\ (Verdict("static")' <=> Verdict("static"))
  BY <1>7, SameCounts
<1>10. CASE ~Verdict("static")
  <2>1. Exit(3) /\ outputs' = None
    BY <1>1, <1>4, <1>5, <1>10
  <2>2. codes'[Len(codes')] = 3 => Concluded'
    BY <1>3, <1>7, <1>9, <1>10, <2>1 DEF Concluded
  <2>3. QED
    BY <1>1, <1>5, <1>8, <2>1, <2>2, GatedExit
<1>11. CASE Verdict("static")
  <2>1. Exit(code) /\ outputs' = told
    BY <1>1, <1>4, <1>11
  <2>2. children["static"]' = child
    BY <1>7
  <2>3. StaticCounts(children["static"])' = counts
    BY <2>2
  <2>4. /\ outputs'.policyChanged = policyChanged
        /\ outputs' = [violations |-> Counted, driftCount |-> counts.drift,
                       staticFindings |-> counts.findings, policyChanged |-> outputs'.policyChanged]
    <3> HIDE DEF counts
    <3>1. QED
      BY <1>5, <2>1
  <2>5. code = IF job.failOn # "none" /\ (DriftFails \/ CountFails \/ StaticFailed) THEN 1 ELSE 0
    <3> HIDE DEF fails
    <3>1. QED
      BY <1>6
  <2>0. outputs' \in Outputs
    <3>1. counts.drift \in Nat /\ counts.findings \in Nat
      BY <1>3, CountsTyped DEF Typed, Audited
    <3> HIDE DEF counts
    <3>2. QED
      BY <2>1, <3>1 DEF Outputs, Typed
  <2> HIDE DEF code, counts, told, child, fails
  <2>6. ASSUME codes'[Len(codes')] = code PROVE Concluded'
    <3>1. codes'[Len(codes')] = IF job'.failOn # "none" /\ (DriftFails' \/ CountFails' \/ StaticFailed')
                                  THEN 1 ELSE 0
      BY <1>7, <1>9, <2>5, <2>6
    <3>2. outputs' = [violations |-> Counted', driftCount |-> StaticCounts(children["static"])'.drift,
                      staticFindings |-> StaticCounts(children["static"])'.findings,
                      policyChanged |-> outputs'.policyChanged]
      BY <1>9, <2>3, <2>4
    <3>3. outputs'.policyChanged <=> Drifted'
      BY <1>5, <1>9, <2>4
    <3>4. QED
      BY <1>5, <1>9, <1>11, <2>0, <3>1, <3>2, <3>3 DEF Concluded
  <2>7. QED
    BY <1>1, <1>5, <1>8, <2>1, <2>6, GatedExit
<1>12. QED
  BY <1>10, <1>11

LEMMA FailsGated == ASSUME Coded, Typed, Gated, DiffFails \/ ScanFails \/ StaticFails PROVE Gated'
<1>1. CASE DiffFails
  <2>1. PICK status \in {1, None} : CommandEnds("diff", status, None)
    BY <1>1 DEF DiffFails, ChildFails
  <2>2. QED
    BY <1>1, <2>1, DiffAnswers DEF DiffFails, ChildFails
<1>2. ASSUME NEW command \in {"scan", "static"}, ChildFails(command, {None, Unreadable}),
             command = "scan" => at \in {"scan", "scanning"} /\ ToScan,
             command = "static" => at \in {"static", "walking", "auditing"}
      PROVE  Gated'
  <2>1. PICK status \in {1, None}, report \in {None, Unreadable} : CommandEnds(command, status, report)
    BY <1>2 DEF ChildFails
  <2> DEFINE child == [status |-> status, report |-> report]
  <2>2. /\ child.status \in {1, None} /\ child.report \in {None, Unreadable}
        /\ child = [status |-> status, report |-> report]
    OBVIOUS
  <2> HIDE DEF child
  <2>3. Lost(child)
    BY <2>2 DEF Lost
  <2>4. Program = "action" /\ UNCHANGED gate /\ found' = found /\ at # "idle"
    BY <1>2 DEF ChildFails, walk
  <2>5. QED
    BY <1>2, <2>1, <2>2, <2>3, <2>4, GatedAnswer DEF ScanSays, StaticSays
<1>3. ChildFails("static", {None}) => ChildFails("static", {None, Unreadable})
  BY DEF ChildFails
<1>4. QED
  BY <1>1, <1>2, <1>3 DEF ScanFails, StaticFails, ToScan

LEMMA StartGated == ASSUME Coded, Start PROVE Gated'
<1>1. /\ job' = job /\ codes' = codes /\ at' # "idle" /\ Program' = Program
  BY DEF Start, Program
<1>2. CASE Program # "action"
  BY <1>1, <1>2, NotActing
<1>3. CASE Program = "action"
  <2>1. /\ at' = "diff" /\ children' = [c \in {} |-> None]
        /\ ~policyChanged' /\ violations' = 0 /\ ~failed' /\ outputs' = None
    BY <1>3 DEF Start
  <2>2. DOMAIN children' = {}
    BY <2>1
  <2>3. (Heard /\ Asked /\ SoFar)'
    BY <2>1, <2>2 DEF Heard, Asked, SoFar
  <2>4. QED
    BY <1>1, <2>3, GatedGoing
<1>4. QED
  BY <1>2, <1>3

LEMMA StillGated == ASSUME Coded, Gated, UNCHANGED vars PROVE Gated'
<1>1. UNCHANGED <<job, codes, at, children, gate>> /\ found' = found /\ outputs' = outputs
  BY DEF vars, process, walk, gate
<1>2. CASE at # "idle" /\ Program = "action"
  BY <1>1, <1>2, GatedSame
<1>3. CASE at # "idle" /\ Program # "action"
  BY <1>1, <1>3, NotActing
<1>4. CASE at = "idle"
  <2>1. ~Acting' /\ (ActionEnded' <=> ActionEnded)
    BY <1>1, <1>4 DEF Acting, ActionEnded
  <2>2. CASE ActionEnded
    <3>1. Heard /\ Concluded /\ ("diff" \in DOMAIN children <=> ToCompare)
      BY <2>2 DEF Gated
    <3>2. Heard'
      BY <1>1, <3>1, HeardKept
    <3>3. ToCompare' <=> ToCompare
      BY <1>1, SameJob
    <3>4. /\ (Drifted' <=> Drifted) /\ (DriftFails' <=> DriftFails) /\ Counted' = Counted
          /\ (CountFails' <=> CountFails) /\ (ScanPassed' <=> ScanPassed) /\ (StaticFailed' <=> StaticFailed)
          /\ (Verdict("static")' <=> Verdict("static")) /\ (Verdict("scan")' <=> Verdict("scan"))
      BY <1>1, SameCounts
    <3>5. children["static"]' = children["static"]
      BY <1>1
    <3>6. StaticCounts(children["static"])' = StaticCounts(children["static"])
      BY <3>5
    <3>7. Concluded'
      BY <1>1, <3>1, <3>4, <3>6 DEF Concluded
    <3>8. QED
      BY <1>1, <2>1, <3>1, <3>2, <3>3, <3>7 DEF Gated
  <2>3. CASE ~ActionEnded
    BY <2>1, <2>3 DEF Gated
  <2>4. QED
    BY <2>2, <2>3
<1>5. QED
  BY <1>2, <1>3, <1>4

LEMMA GatedStep ==
    ASSUME Tracked, Coded, Scanned, Typed, Gated, [Next]_vars
    PROVE  Gated'
<1>1. CASE Start
  BY <1>1, StartGated
<1>2. CASE Command
  <2>1. job' = job /\ at' = "idle" /\ Program # "action" /\ \E code : codes' = Append(codes, code)
    BY <1>2 DEF Command, Running
  <2>2. QED
    BY <2>1, NotActing
<1>3. CASE NoDiff \/ ReadDiff \/ NoScan \/ ReadScan \/ ReadStatic
  BY <1>3, NoDiffGated, ReadDiffGated, NoScanGated, ReadScanGated, ReadStaticGated
<1>4. CASE DiffFails \/ ScanFails \/ StaticFails
  BY <1>4, FailsGated
<1>5. CASE DiffStep /\ UNCHANGED <<walk, audit, scan, gate>>
  <2>1. /\ at = "diff" /\ Given(job.baseline) /\ Given(job.policy)
        /\ CommandEnds("diff", DiffExit(TRUE), IF Comparable THEN Comparison ELSE None)
    BY <1>5 DEF DiffStep
  <2>2. Program = "action"
    BY <2>1 DEF Coded
  <2>3. QED
    BY <1>5, <2>1, <2>2, DiffAnswers
<1>6. CASE ScanStep /\ UNCHANGED <<walk, audit, gate>>
  <2>1. CASE Program = "action"
    BY <1>6, <2>1, ScanAnswers
  <2>2. CASE Program # "action"
    <3>1. \A status, report : CommandEnds("scan", status, report) =>
             job' = job /\ at' = "idle" /\ codes' = Append(codes, status)
      BY <2>2 DEF CommandEnds
    <3>2. at # "idle"
      BY <1>6 DEF ScanStep, ScanRefused, ScanBegins, ScanFile, ScanReport
    <3>3. \/ job' = job /\ codes' = codes /\ at' # "idle"
          \/ \E status, report : CommandEnds("scan", status, report)
      <4>1. ScanRefused \/ ScanReport => \E status, report : CommandEnds("scan", status, report)
        BY DEF ScanRefused, ScanReport
      <4>2. ScanFile => \/ job' = job /\ codes' = codes /\ at' = at
                        \/ \E status, report : CommandEnds("scan", status, report)
        BY DEF ScanFile, process
      <4>3. ScanBegins => job' = job /\ codes' = codes /\ at' # "idle"
        BY DEF ScanBegins
      <4>4. QED
        BY <1>6, <3>2, <4>1, <4>2, <4>3 DEF ScanStep
    <3>4. QED
      BY <2>2, <3>1, <3>3, NotActing
  <2>3. QED
    BY <2>1, <2>2
<1>7. CASE StaticStep /\ UNCHANGED <<scan, gate>>
  <2>1. CASE Program = "action"
    BY <1>7, <2>1, StaticAnswers
  <2>2. CASE Program # "action"
    <3>1. \A status, report : CommandEnds("static", status, report) =>
             job' = job /\ at' = "idle" /\ codes' = Append(codes, status)
      BY <2>2 DEF CommandEnds
    <3>2. \/ job' = job /\ codes' = codes /\ at' # "idle"
          \/ \E status, report : CommandEnds("static", status, report)
      <4>1. AuditRefused \/ AuditReport => \E status, report : CommandEnds("static", status, report)
        BY DEF AuditRefused, AuditReport
      <4>2. ResolveManifests \/ EndWalk \/ (\E dir \in todo : Visit(dir))
              \/ (\E file \in left : AuditManifest(file)) => job' = job /\ codes' = codes /\ at' # "idle"
        BY DEF ResolveManifests, EndWalk, Visit, AuditManifest, process
      <4>3. QED
        BY <1>7, <4>1, <4>2 DEF StaticStep
    <3>3. QED
      BY <2>2, <3>1, <3>2, NotActing
  <2>3. QED
    BY <2>1, <2>2
<1>8. CASE UNCHANGED vars
  BY <1>8, StillGated
<1>9. QED
  BY <1>1, <1>2, <1>3, <1>4, <1>5, <1>6, <1>7, <1>8 DEF Next

LEMMA Gating == Spec => [](Coded /\ Typed /\ Gated)
<1>1. Init => Gated
  BY GatedInit
<1>2. Tracked /\ Coded /\ Scanned /\ Typed /\ Gated /\ [Next]_vars => Gated'
  BY GatedStep
<1>3. QED
  BY <1>1, <1>2, Typing, PTL DEF Spec

-----------------------------------------------------------------------------
(* What the end of the action tells. *)

LEMMA EndOf ==
    ASSUME Coded, ActionEnded
    PROVE  Last(codes) = codes[Len(codes)]
  BY DEF Last

LEMMA NothingLost ==
    ASSUME ~AnyBroken, NEW command \in DOMAIN children
    PROVE  ~Lost(children[command])
  BY DEF AnyBroken, Broken, Lost

(* A diff that has run tells whether there is a difference; one that has    *)
(* broken is taken for one.                                                 *)
LEMMA DriftedExact ==
    ASSUME Heard, "diff" \in DOMAIN children <=> ToCompare
    PROVE  /\ PoliciesDiffer => Drifted
           /\ ~AnyBroken => (Drifted <=> PoliciesDiffer)
<1>1. None # 0
  BY WorkspaceAssumption
<1>2. PoliciesDiffer <=> ToCompare /\ DiffExit(TRUE) # 0
  BY DEF PoliciesDiffer, ToCompare, DiffExit
<1>3. "diff" \in DOMAIN children => DiffSays(children["diff"])
  BY DEF Heard
<1>4. PoliciesDiffer => Drifted
  <2>1. SUFFICES ASSUME PoliciesDiffer PROVE Drifted
    OBVIOUS
  <2>2. "diff" \in DOMAIN children /\ DiffExit(TRUE) # 0
    BY <1>2, <2>1
  <2>3. children["diff"].status \in {1, None} \/ children["diff"].status = DiffExit(TRUE)
    BY <1>3, <2>2 DEF DiffSays, Lost
  <2>4. \A s, d : d # 0 /\ (s \in {1, None} \/ s = d) => s # 0
    BY <1>1
  <2>5. children["diff"].status # 0
    BY <2>2, <2>3, <2>4, Zenon
  <2>6. QED
    BY <2>2, <2>5 DEF Drifted
<1>5. ASSUME ~AnyBroken, Drifted PROVE PoliciesDiffer
  <2>1. "diff" \in DOMAIN children /\ children["diff"].status # 0
    BY <1>5 DEF Drifted
  <2>2. children["diff"].status = DiffExit(TRUE)
    BY <1>3, <1>5, <2>1, NothingLost DEF DiffSays
  <2>3. QED
    BY <1>2, <2>1, <2>2
<1>6. QED
  BY <1>4, <1>5

(* So do the scan and the audit. *)
LEMMA ScanVerdict ==
    ASSUME Heard, ~AnyBroken, ScanPassed
    PROVE  /\ Counted > 0 => StreamsSuspect
           /\ StreamsCertain => Counted > 0
           /\ ToScan => ~NoScanVerdict
<1>1. CASE ~ToScan
  BY <1>1 DEF ScanPassed, Counted, StreamsCertain
<1>2. CASE ToScan
  <2> DEFINE child == children["scan"]
  <2>1. "scan" \in DOMAIN children /\ child.status \in {0, 1}
    BY <1>2 DEF ScanPassed, Verdict
  <2>2. ScanSays(child) /\ ~Lost(child)
    BY <2>1, NothingLost DEF Heard
  <2>3. Counted = ScanCount(child)
    BY <2>1 DEF Counted
  <2> HIDE DEF child
  <2>4. /\ ~NoScanVerdict
        /\ child.status = 1 => StreamsSuspect
        /\ StreamsCertain => child.status = 1
        /\ child.report \notin {None, Unreadable} =>
              (Len(child.report.violations) > 0 <=> child.status = 1)
    BY <2>1, <2>2 DEF ScanSays
  <2>5. ScanCount(child) > 0 <=> child.status = 1
    <3>1. child.status = 1 => child.report \notin {None, Unreadable}
      BY <2>2 DEF Lost
    <3>2. Unreadable # None
      BY WorkspaceAssumption
    <3>3. CASE child.report = None
      BY <2>1, <3>1, <3>2, <3>3 DEF ScanCount
    <3>4. CASE child.report = Unreadable
      BY <2>1, <3>1, <3>2, <3>4 DEF ScanCount
    <3>5. CASE child.report \notin {None, Unreadable}
      BY <2>4, <3>5 DEF ScanCount
    <3>6. QED
      BY <3>3, <3>4, <3>5
  <2>6. QED
    BY <2>3, <2>4, <2>5
<1>3. QED
  BY <1>1, <1>2

LEMMA StaticVerdict ==
    ASSUME Heard, ~AnyBroken, Verdict("static")
    PROVE  /\ ~NoStaticVerdict /\ job.sarif # "fails"
           /\ children["static"].status = IF ManifestsFail THEN 1 ELSE 0
           /\ ManifestsFail => Given(children["static"].report) /\ children["static"].report # {}
<1> DEFINE child == children["static"]
<1>1. "static" \in DOMAIN children /\ child.status \in {0, 1}
  BY DEF Verdict
<1>2. StaticSays(child) /\ ~Lost(child) /\ (child.status = 1 => Given(child.report))
  BY <1>1, NothingLost DEF Heard, Lost, Given
<1> HIDE DEF child
<1>3. /\ ~NoStaticVerdict /\ job.sarif # "fails"
      /\ child.status = IF ManifestsFail THEN 1 ELSE 0
      /\ Given(child.report) /\ ManifestsFail => child.report # {}
  BY <1>1, <1>2 DEF StaticSays
<1>4. QED
  BY <1>2, <1>3 DEF child

(* Whatever the checkout and the arguments, and unless a child breaks: the  *)
(* action exits with 3 without a verdict, with 1 if a thing is there that   *)
(* fail-on names, and with 0 if nothing is; what it makes of a stream is    *)
(* bounded by what is in it and what cannot pass the guards.                *)
THEOREM GateCorrect == Spec => []GateExact
<1>1. Coded /\ Gated => GateExact
  <2> DEFINE Due == \/ PoliciesDiffer /\ FailsOn({"drift"})
                    \/ StreamsCertain /\ FailsOn({"violations"})
                    \/ ManifestsDrift /\ FailsOn({"drift"})
                    \/ ManifestsFail /\ FailsOn({"static"})
             Founded == \/ PoliciesDiffer /\ FailsOn({"drift"})
                        \/ StreamsSuspect /\ FailsOn({"violations"})
                        \/ ManifestsFail /\ FailsOn({"static", "drift"})
  <2> SUFFICES ASSUME Coded, Gated, ActionEnded, ~AnyBroken
               PROVE  IF NoVerdict THEN Last(codes) = 3
                      ELSE /\ Last(codes) \in {0, 1}
                           /\ Due => Last(codes) = 1
                           /\ Last(codes) = 1 => Founded
    BY DEF GateExact
  <2>1. Heard /\ Concluded /\ ("diff" \in DOMAIN children <=> ToCompare)
    BY DEF Gated
  <2>2. Last(codes) = codes[Len(codes)]
    BY EndOf
  <2>3. CASE codes[Len(codes)] = 3 /\ "scan" \in DOMAIN children /\ ~Verdict("scan")
    <3>1. ToScan /\ ScanSays(children["scan"]) /\ ~Lost(children["scan"])
      BY <2>1, <2>3, NothingLost DEF Heard
    <3>2. NoScanVerdict
      BY <2>3, <3>1 DEF ScanSays, Verdict
    <3>3. NoVerdict
      BY <3>1, <3>2 DEF NoVerdict, NoScanVerdict
    <3>4. QED
      BY <2>2, <2>3, <3>3
  <2>4. CASE codes[Len(codes)] = 3 /\ "static" \in DOMAIN children /\ ~Verdict("static")
    <3>1. StaticSays(children["static"]) /\ ~Lost(children["static"])
      BY <2>1, <2>4, NothingLost DEF Heard
    <3>2. NoStaticVerdict \/ job.sarif = "fails"
      BY <2>4, <3>1 DEF StaticSays, Verdict
    <3>3. NoVerdict
      BY <3>2 DEF NoVerdict, NoStaticVerdict
    <3>4. QED
      BY <2>2, <2>4, <3>3
  <2>5. CASE /\ Verdict("static") /\ ScanPassed
             /\ codes[Len(codes)] = IF job.failOn # "none" /\ (DriftFails \/ CountFails \/ StaticFailed)
                                      THEN 1 ELSE 0
    <3>1. /\ Drifted <=> PoliciesDiffer
          /\ Counted > 0 => StreamsSuspect
          /\ StreamsCertain => Counted > 0
          /\ ToScan => ~NoScanVerdict
      BY <2>1, <2>5, DriftedExact, ScanVerdict
    <3>2. /\ ~NoStaticVerdict /\ job.sarif # "fails"
          /\ children["static"].status = 1 <=> ManifestsFail
      BY <2>1, <2>5, StaticVerdict
    <3>3. ~NoVerdict
      BY <3>1, <3>2 DEF NoVerdict, NoScanVerdict, NoStaticVerdict
    <3>4. /\ \A kinds \in {{"drift"}, {"violations"}, {"static", "drift"}} :
                FailsOn(kinds) => job.failOn # "none"
          /\ FailsOn({"drift"}) \/ FailsOn({"static"}) => FailsOn({"static", "drift"})
      BY DEF FailsOn
    <3>5. ManifestsDrift => ManifestsFail
      BY DEF ManifestsFail
    <3>6. Due => job.failOn # "none" /\ (DriftFails \/ CountFails \/ StaticFailed)
      BY <3>1, <3>2, <3>4, <3>5 DEF DriftFails, CountFails, StaticFailed
    <3>7. DriftFails \/ CountFails \/ StaticFailed => Founded
      BY <3>1, <3>2 DEF DriftFails, CountFails, StaticFailed
    <3> HIDE DEF Due, Founded
    <3>8. QED
      BY <2>2, <2>5, <3>3, <3>6, <3>7
  <2>6. QED
    BY <2>1, <2>3, <2>4, <2>5 DEF Concluded
<1>2. QED
  BY <1>1, Gating, PTL

(* Whatever the checkout and the arguments: the outputs are there unless    *)
(* the exit code is 3 and agree with what is the case; a diff or an audit   *)
(* that breaks does not pass for a clean one, nor does a scan that has      *)
(* printed something.                                                       *)
THEOREM OutputsCorrect == Spec => []OutputsTrue
<1>1. Coded /\ Typed /\ Gated => OutputsTrue
  <2> SUFFICES ASSUME Coded, Typed, Gated, ActionEnded
               PROVE  /\ outputs = None <=> Last(codes) = 3
                      /\ outputs # None =>
                            /\ PoliciesDiffer => outputs.policyChanged
                            /\ outputs.driftCount <= outputs.staticFindings
                            /\ ~AnyBroken =>
                                  /\ outputs.policyChanged <=> PoliciesDiffer
                                  /\ outputs.violations > 0 => StreamsSuspect
                                  /\ StreamsCertain => outputs.violations > 0
                                  /\ ManifestsFail => outputs.staticFindings > 0
                            /\ \/ Broken("diff") \/ Broken("static")
                               \/ Broken("scan") /\ children["scan"].report = Unreadable
                               => (job.failOn = "any" => Last(codes) = 1)
    BY DEF OutputsTrue
  <2>1. Heard /\ Concluded /\ ("diff" \in DOMAIN children <=> ToCompare)
    BY DEF Gated
  <2>2. Last(codes) = codes[Len(codes)]
    BY EndOf
  <2>3. CASE codes[Len(codes)] = 3 /\ outputs = None
    BY <2>2, <2>3
  <2>4. CASE /\ Verdict("static") /\ ScanPassed
             /\ codes[Len(codes)] = IF job.failOn # "none" /\ (DriftFails \/ CountFails \/ StaticFailed)
                                      THEN 1 ELSE 0
             /\ outputs = [violations |-> Counted, driftCount |-> StaticCounts(children["static"]).drift,
                           staticFindings |-> StaticCounts(children["static"]).findings,
                           policyChanged |-> outputs.policyChanged]
             /\ outputs.policyChanged <=> Drifted
             /\ outputs \in Outputs
    <3> DEFINE child == children["static"]
               counts == StaticCounts(child)
    <3>1. outputs # None /\ Last(codes) \in {0, 1}
      BY <2>2, <2>4, OutputsAssumption
    <3>2. "static" \in DOMAIN children /\ child.status \in {0, 1}
      BY <2>4 DEF Verdict
    <3>3. Given(child.report) => IsFiniteSet(child.report)
      BY <3>2 DEF Typed, Audited
    <3>4. /\ counts.drift <= counts.findings
          /\ Given(child.report) /\ child.report # {} => counts.findings > 0
      BY <3>3, CountsTyped
    <3>5. outputs.violations = Counted /\ outputs.driftCount = counts.drift
          /\ outputs.staticFindings = counts.findings
      <4> HIDE DEF counts
      <4>1. QED
        BY <2>4 DEF counts
    <3> HIDE DEF counts
    <3>6. PoliciesDiffer => outputs.policyChanged
      BY <2>1, <2>4, DriftedExact
    <3>7. ASSUME ~AnyBroken
          PROVE  /\ outputs.policyChanged <=> PoliciesDiffer
                 /\ outputs.violations > 0 => StreamsSuspect
                 /\ StreamsCertain => outputs.violations > 0
                 /\ ManifestsFail => outputs.staticFindings > 0
      BY <2>1, <2>4, <3>4, <3>5, <3>7, DriftedExact, ScanVerdict, StaticVerdict
    <3>8. ASSUME \/ Broken("diff") \/ Broken("static")
                 \/ Broken("scan") /\ children["scan"].report = Unreadable,
                 job.failOn = "any"
          PROVE  Last(codes) = 1
      <4>1. None \notin {0, 1}
        BY WorkspaceAssumption
      <4>2. \A kinds : FailsOn(kinds)
        BY <3>8 DEF FailsOn
      <4>3. Broken("diff") => DriftFails
        BY <4>1, <4>2 DEF Broken, DriftFails, Drifted
      <4>4. Broken("static") => StaticFailed
        BY <3>2, <4>1, <4>2 DEF Broken, StaticFailed
      <4>5. ASSUME Broken("scan"), children["scan"].report = Unreadable PROVE CountFails
        <5>1. "scan" \in DOMAIN children /\ children["scan"].status = 1
          BY <2>4, <4>1, <4>5 DEF Broken, ScanPassed, Verdict
        <5>2. Unreadable # None
          BY WorkspaceAssumption
        <5>3. ScanCount(children["scan"]) = 1
          BY <4>5, <5>1, <5>2 DEF ScanCount
        <5>4. QED
          BY <4>2, <5>1, <5>3 DEF CountFails, Counted
      <4>6. QED
        BY <2>2, <2>4, <3>8, <4>3, <4>4, <4>5
    <3>9. QED
      BY <3>1, <3>4, <3>5, <3>6, <3>7, <3>8
  <2>5. QED
    BY <2>1, <2>3, <2>4 DEF Concluded
<1>2. QED
  BY <1>1, Gating, PTL
=============================================================================
