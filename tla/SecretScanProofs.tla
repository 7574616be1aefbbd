-------------------------- MODULE SecretScanProofs --------------------------
(***************************************************************************)
(* Texts and the scanner for every pattern table and window: what cutting  *)
(* and masking do to a text, how much is held back, and which matches are  *)
(* found wherever a text is cut.                                           *)
(***************************************************************************)
EXTENDS ByteStages, SequenceCounts

(* Holdback never exceeds the text it looks at. *)
LEMMA HoldLengthBound ==
    ASSUME NEW t \in Seq(Byte)
    PROVE  HoldLength(t) \in 0..Len(t)
<1> DEFINE H == {0} \cup PartialPrefixes(t) \cup PartialSk(t) \cup PartialBearer(t)
<1>1. PartialPrefixes(t) \subseteq 1..Len(t)
  BY DEF PartialPrefixes
<1>2. PartialSk(t) \subseteq 0..Len(t)
  BY DEF PartialSk, Leftmost
<1>3. PartialBearer(t) \subseteq 0..Len(t)
  BY DEF PartialBearer, Leftmost
<1>4. H \subseteq 0..Len(t) /\ H # {} /\ Len(t) \in Nat
  BY <1>1, <1>2, <1>3
<1>5. Max(H) \in H
  BY <1>4, MaxNatural
<1>6. QED
  BY <1>4, <1>5 DEF HoldLength
-----------------------------------------------------------------------------
(* Cutting a text and masking it. *)

LEMMA CutText ==
    ASSUME NEW t \in Seq(Byte), NEW n \in 0..Len(t)
    PROVE  /\ Before(t, n) \in Seq(Byte) /\ Len(Before(t, n)) = n
           /\ After(t, n) \in Seq(Byte) /\ Len(After(t, n)) = Len(t) - n
           /\ Before(t, n) \o After(t, n) = t
<1>1. \A i \in 1..Len(t) : t[i] \in Byte
  OBVIOUS
<1>2. /\ Before(t, n) \in Seq(Byte) /\ Len(Before(t, n)) = n
      /\ \A i \in 1..n : Before(t, n)[i] = t[i]
  BY <1>1, SubSeqProperties DEF Before
<1>3. /\ After(t, n) \in Seq(Byte) /\ Len(After(t, n)) = Len(t) - n
      /\ \A i \in 1..(Len(t) - n) : After(t, n)[i] = t[i + n]
  <2>1. /\ SubSeq(t, n + 1, Len(t)) \in Seq(Byte)
        /\ Len(SubSeq(t, n + 1, Len(t))) = IF n + 1 <= Len(t) THEN Len(t) - n ELSE 0
        /\ \A i \in 1..(Len(t) - n) : SubSeq(t, n + 1, Len(t))[i] = t[i + n]
    OBVIOUS
  <2>2. QED
    BY <2>1 DEF After
<1>4. Before(t, n) \o After(t, n) = t
  <2>1. 1 \in 1..Len(t) + 1 /\ n \in (1 - 1)..Len(t) /\ Len(t) \in n..Len(t)
    OBVIOUS
  <2>2. SubSeq(t, 1, n) \o SubSeq(t, n + 1, Len(t)) = SubSeq(t, 1, Len(t))
    BY <2>1, ConcatAdjacentSubSeq, Zenon
  <2>3. SubSeq(t, 1, Len(t)) = t
    BY SubSeqFull, Zenon
  <2>4. QED
    BY <2>2, <2>3 DEF Before, After
<1>5. QED
  BY <1>2, <1>3, <1>4

LEMMA MaskRefl ==
    ASSUME NEW t \in Seq(Byte) PROVE MaskOf(t, t)
BY DEF MaskOf

LEMMA MaskTrans ==
    ASSUME NEW t \in Seq(Byte), NEW u \in Seq(Byte), NEW v \in Seq(Byte),
           MaskOf(v, u), MaskOf(u, t)
    PROVE  MaskOf(v, t)
BY DEF MaskOf

LEMMA MaskConcat ==
    ASSUME NEW t1 \in Seq(Byte), NEW t2 \in Seq(Byte),
           NEW u1 \in Seq(Byte), NEW u2 \in Seq(Byte),
           MaskOf(u1, t1), MaskOf(u2, t2)
    PROVE  MaskOf(u1 \o u2, t1 \o t2)
<1>1. Len(u1) = Len(t1) /\ Len(u2) = Len(t2) /\ Len(u1) \in Nat /\ Len(u2) \in Nat
  BY DEF MaskOf
<1>2. Len(u1 \o u2) = Len(t1 \o t2) /\ Len(t1 \o t2) = Len(t1) + Len(t2)
  BY <1>1
<1>3. ASSUME NEW i \in 1..Len(t1 \o t2)
      PROVE  (u1 \o u2)[i] \in {(t1 \o t2)[i], Mask}
  <2>1. CASE i <= Len(t1)
    <3>1. (u1 \o u2)[i] = u1[i] /\ (t1 \o t2)[i] = t1[i] /\ i \in 1..Len(t1)
      BY <1>1, <1>2, <2>1
    <3>2. QED
      BY <3>1 DEF MaskOf
  <2>2. CASE i > Len(t1)
    <3>1. /\ (u1 \o u2)[i] = u2[i - Len(t1)] /\ (t1 \o t2)[i] = t2[i - Len(t1)]
          /\ i - Len(t1) \in 1..Len(t2)
      BY <1>1, <1>2, <2>2
    <3>2. QED
      BY <3>1 DEF MaskOf
  <2>3. QED
    BY <1>1, <1>2, <2>1, <2>2
<1>4. QED
  BY <1>2, <1>3 DEF MaskOf

LEMMA MaskedMasks ==
    ASSUME NEW t \in Seq(Byte), NEW p
    PROVE  Masked(p, t) \in Seq(Byte) /\ MaskOf(Masked(p, t), t)
<1>1. Mask \in Byte /\ Len(t) \in Nat /\ \A k \in 1..Len(t) : t[k] \in Byte
  BY ScanAssumption DEF ScanAssumption
<1> DEFINE M == [k \in 1..Len(t) |-> IF Replaced(p, t, k) THEN Mask ELSE t[k]]
<1>2. M \in [1..Len(t) -> Byte] /\ \A k \in 1..Len(t) : M[k] \in {t[k], Mask}
  BY <1>1
<1>3. Masked(p, t) = SubSeq(M, 1, Len(t))
  BY DEF Masked
<1> HIDE DEF M
<1>4. M \in Seq(Byte) /\ Len(M) = Len(t)
  BY <1>1, <1>2
<1>5. SubSeq(M, 1, Len(M)) = M
  BY <1>4
<1>6. QED
  BY <1>2, <1>3, <1>4, <1>5 DEF MaskOf

(* Redaction and sanitising replace bytes and move none. *)
LEMMA RedactMasks ==
    ASSUME NEW t \in Seq(Byte)
    PROVE  Redact(t) \in Seq(Byte) /\ MaskOf(Redact(t), t)
<1> DEFINE a == Masked(SkPattern, t)
           b == Masked(BearerPattern, a)
<1>1. a \in Seq(Byte) /\ MaskOf(a, t)
  BY MaskedMasks
<1>2. b \in Seq(Byte) /\ MaskOf(b, a)
  BY <1>1, MaskedMasks
<1>3. Redact(t) \in Seq(Byte) /\ MaskOf(Redact(t), b)
  BY <1>2, MaskedMasks DEF Redact
<1> HIDE DEF a, b
<1>4. MaskOf(b, t)
  BY <1>1, <1>2, MaskTrans
<1>5. QED
  BY <1>2, <1>3, <1>4, MaskTrans

LEMMA SanitizeMasks ==
    ASSUME NEW t \in Seq(Byte)
    PROVE  Sanitize(t) \in Seq(Byte) /\ MaskOf(Sanitize(t), t)
<1>1. Mask \in Byte /\ Len(t) \in Nat /\ \A k \in 1..Len(t) : t[k] \in Byte
  BY ScanAssumption DEF ScanAssumption
<1> DEFINE M == Sanitize(t)
<1>2. M \in [1..Len(t) -> Byte] /\ \A k \in 1..Len(t) : M[k] \in {t[k], Mask}
  BY <1>1 DEF Sanitize
<1>3. M \in Seq(Byte) /\ Len(M) = Len(t)
  BY <1>1, <1>2
<1>4. QED
  BY <1>2, <1>3 DEF MaskOf

-----------------------------------------------------------------------------
(* Where the stages cut: inside the text, and not within a window of its end. *)

LEMMA RedactEndBound ==
    ASSUME NEW t \in Seq(Byte)
    PROVE  /\ RedactEnd(t) \in 0..Len(t)
           /\ RedactEnd(t) = 0 \/ RedactEnd(t) + Lookback <= Len(t)
<1> DEFINE safe == Len(t) - Lookback
<1>1. Len(t) \in Nat /\ Lookback \in Nat
  BY StagesAssumption DEF StagesAssumption
<1>2. CASE safe <= 0
  BY <1>1, <1>2 DEF RedactEnd
<1>3. CASE safe > 0
  <2>1. safe \in 0..Len(t)
    BY <1>1, <1>3
  <2>2. Before(t, safe) \in Seq(Byte) /\ Len(Before(t, safe)) = safe
    BY <2>1, CutText
  <2>3. HoldLength(Before(t, safe)) \in 0..safe
    BY <2>2, HoldLengthBound
  <2>4. RedactEnd(t) = safe - HoldLength(Before(t, safe))
    BY <1>1, <1>3 DEF RedactEnd
  <2>5. QED
    BY <1>1, <1>3, <2>3, <2>4
<1>4. QED
  BY <1>1, <1>2, <1>3

LEMMA SanitizeEndBound ==
    ASSUME NEW t \in Seq(Byte)
    PROVE  /\ SanitizeEnd(t) \in 0..Len(t)
           /\ SanitizeEnd(t) = 0 \/ SanitizeEnd(t) + Lookback <= Len(t)
<1> DEFINE safe == Len(t) - Lookback
           keys == {p \in 1..Len(t) : p > safe - MessageWindow /\ t[p] = MessageKey}
<1>1. Len(t) \in Nat /\ Lookback \in Nat
  BY StagesAssumption DEF StagesAssumption
<1>2. CASE safe <= 0
  BY <1>1, <1>2 DEF SanitizeEnd
<1>3. CASE safe > 0 /\ (keys = {} \/ Max(keys) = 1 \/ Max(keys) > safe)
  <2>1. SanitizeEnd(t) = safe
    BY <1>1, <1>3 DEF SanitizeEnd
  <2>2. QED
    BY <1>1, <1>3, <2>1
<1>4. CASE safe > 0 /\ ~(keys = {} \/ Max(keys) = 1 \/ Max(keys) > safe)
  <2>1. keys \in SUBSET (0..Len(t)) /\ keys # {}
    BY <1>1, <1>4
  <2>2. Max(keys) \in keys
    BY <1>1, <2>1, MaxNatural
  <2>3. Max(keys) \in 1..Len(t)
    BY <2>2
  <2>4. SanitizeEnd(t) = Max(keys) - 1
    BY <1>1, <1>4 DEF SanitizeEnd
  <2> HIDE DEF keys
  <2>5. QED
    BY <1>1, <1>4, <2>3, <2>4
<1>5. QED
  BY <1>1, <1>2, <1>3, <1>4

LEMMA AfterNothing == \A t \in Seq(Byte) : After(t, 0) = t
BY SubSeqFull DEF After
-----------------------------------------------------------------------------
(* Masks in a text. *)
Marked(t) == \E i \in DOMAIN t : t[i] = Mask

LEMMA MarkedConcat ==
    \A t, u \in Seq(Byte) : Marked(t \o u) <=> Marked(t) \/ Marked(u)
<1>1. ASSUME NEW t \in Seq(Byte), NEW u \in Seq(Byte)
      PROVE  Marked(t \o u) <=> Marked(t) \/ Marked(u)
  <2> DEFINE all == t \o u
  <2>1. /\ \A i \in DOMAIN t : i \in DOMAIN all /\ all[i] = t[i]
        /\ \A i \in DOMAIN u : Len(t) + i \in DOMAIN all /\ all[Len(t) + i] = u[i]
        /\ \A i \in DOMAIN all : (i \in DOMAIN t /\ all[i] = t[i])
                                 \/ (i - Len(t) \in DOMAIN u /\ all[i] = u[i - Len(t)])
    OBVIOUS
  <2> HIDE DEF all
  <2>2. QED
    BY <2>1 DEF Marked, all
<1>2. QED
  BY <1>1

(* Masking takes no mask away, and shows where it changed something. *)
LEMMA MarkedMask ==
    \A t, u \in Seq(Byte) : MaskOf(u, t) => /\ Marked(t) => Marked(u)
                                            /\ u # t => Marked(u)
<1>1. ASSUME NEW t \in Seq(Byte), NEW u \in Seq(Byte), MaskOf(u, t)
      PROVE  (Marked(t) => Marked(u)) /\ (u # t => Marked(u))
  <2>1. /\ DOMAIN t = 1..Len(t) /\ DOMAIN u = 1..Len(t) /\ Len(u) = Len(t)
        /\ \A i \in 1..Len(t) : u[i] = t[i] \/ u[i] = Mask
    BY <1>1 DEF MaskOf
  <2>2. u # t => \E i \in 1..Len(t) : u[i] # t[i]
    BY <2>1
  <2>3. QED
    BY <2>1, <2>2 DEF Marked
<1>2. QED
  BY <1>1
-----------------------------------------------------------------------------
(* How much is held back. *)
LEMMA Literals ==
    /\ SkLiteral \in Seq(SecretBody) /\ Len(SkLiteral) \in Nat \ {0} /\ SkMin \in Nat
    /\ BearerLiteral \in Seq(Byte) /\ Len(BearerLiteral) \in Nat \ {0}
    /\ \A lit \in SecretPrefixes :
          /\ lit \in Seq(Byte) /\ Len(lit) \in Nat \ {0} /\ Len(lit) <= Len(SkLiteral) + SkMin
<1>1. /\ SkLiteral \in Seq(SecretBody) \ {<<>>} /\ BearerLiteral \in Seq(Byte) \ {<<>>}
      /\ SecretPrefixes \subseteq Seq(Byte) \ {<<>>} /\ SkMin \in Nat
  BY LiteralAssumption, ScanAssumption DEF LiteralAssumption, ScanAssumption
<1>2. \A lit \in SecretPrefixes : Len(lit) <= Len(SkLiteral) + SkMin
  BY LiteralAssumption DEF LiteralAssumption
<1>3. QED
  BY <1>1, <1>2

LEMMA HoldLengthIs ==
    ASSUME NEW t \in Seq(Byte)
    PROVE  LET h == HoldLength(t)
           IN  /\ h \in 0..Len(t)
               /\ \/ h = 0 \/ h \in PartialPrefixes(t) \/ h \in PartialSk(t)
                  \/ h \in PartialBearer(t)
               /\ \A n \in PartialPrefixes(t) \cup PartialSk(t) : n <= h
<1> DEFINE H == {0} \cup PartialPrefixes(t) \cup PartialSk(t) \cup PartialBearer(t)
<1>1. PartialPrefixes(t) \subseteq 1..Len(t)
  BY DEF PartialPrefixes
<1>2. PartialSk(t) \subseteq 0..Len(t)
  BY DEF PartialSk, Leftmost
<1>3. PartialBearer(t) \subseteq 0..Len(t)
  BY DEF PartialBearer, Leftmost
<1>4. H \subseteq 0..Len(t) /\ H # {} /\ Len(t) \in Nat
  BY <1>1, <1>2, <1>3
<1>5. Max(H) \in H /\ \A n \in H : n <= Max(H)
  BY <1>4, MaxNatural
<1>6. HoldLength(t) = Max(H)
  BY DEF HoldLength
<1> HIDE DEF H
<1>7. HoldLength(t) \in H /\ \A n \in H : n <= HoldLength(t)
  BY <1>5, <1>6
<1>8. QED
  BY <1>4, <1>7 DEF H

(* A held suffix is short, or it is Bearer and blanks. *)
LEMMA HoldShort ==
    ASSUME NEW t \in Seq(Byte), NEW h, h = HoldLength(t)
    PROVE  \/ h < Len(SkLiteral) + SkMin
           \/ LET i == Len(t) - h + 1
              IN  LiteralAt(BearerLiteral, t, i)
                  /\ AllIn(t, i + Len(BearerLiteral), Len(t), Blank)
<1>1. h \in 0..Len(t) /\ Len(t) \in Nat
  BY HoldLengthIs
<1>2. CASE h = 0
  BY <1>2, Literals
<1>3. CASE h \in PartialPrefixes(t)
  BY <1>3, Literals DEF PartialPrefixes
<1>4. CASE h \in PartialSk(t)
  <2>1. PICK i \in 1..Len(t) : h = Len(t) - i + 1 /\ Len(t) - i + 1 - Len(SkLiteral) < SkMin
    BY <1>4 DEF PartialSk, Leftmost
  <2>2. QED
    BY <1>1, <2>1, Literals
<1>5. CASE h \in PartialBearer(t)
  <2>1. PICK i \in 1..Len(t) : /\ h = Len(t) - i + 1 /\ LiteralAt(BearerLiteral, t, i)
                               /\ AllIn(t, i + Len(BearerLiteral), Len(t), Blank)
    BY <1>5 DEF PartialBearer, Leftmost
  <2>2. Len(t) - h + 1 = i
    BY <1>1, <2>1
  <2>3. QED
    BY <2>1, <2>2
<1>6. QED
  BY <1>2, <1>3, <1>4, <1>5, HoldLengthIs

(* A cut text, symbol by symbol. *)
LEMMA CutAt ==
    ASSUME NEW t \in Seq(Byte), NEW n \in 0..Len(t)
    PROVE  /\ \A k \in 1..n : Before(t, n)[k] = t[k]
           /\ \A k \in 1..(Len(t) - n) : After(t, n)[k] = t[n + k]
<1>1. \A k \in 1..n : Before(t, n)[k] = t[k]
  BY DEF Before
<1>2. ASSUME NEW k \in 1..(Len(t) - n) PROVE After(t, n)[k] = t[n + k]
  <2>1. Len(t) - (n + 1) + 1 = Len(t) - n
    OBVIOUS
  <2>2. After(t, n)[k] = t[n + 1 + k - 1]
    BY <2>1 DEF After
  <2>3. QED
    BY <2>2
<1>3. QED
  BY <1>1, <1>2
-----------------------------------------------------------------------------
(* The left-to-right choice of matches is well defined. *)
Body(p, t, f, i) ==
    /\ Ends(p, t, i) # {}
    /\ \A h \in 1..(i - 1) : (\E j \in Ends(p, t, h) : j >= i) => ~f[h]

LEMMA TakenExists ==
    ASSUME NEW p, NEW t, Len(t) \in Nat
    PROVE  \E f : f = [i \in 1..Len(t) |-> Body(p, t, f, i)]
<1> DEFINE D == 1..Len(t)
           T == {n \in Nat : \E f \in [D -> BOOLEAN] :
                                \A i \in D : i <= n => (f[i] <=> Body(p, t, f, i))}
<1>1. 0 \in T
  <2>1. \A i \in D : ~(i <= 0)
    OBVIOUS
  <2>2. [i \in D |-> TRUE] \in [D -> BOOLEAN]
    OBVIOUS
  <2>3. QED
    BY <2>1, <2>2
<1>2. ASSUME NEW n \in Nat, n \in T PROVE n + 1 \in T
  <2>1. PICK f \in [D -> BOOLEAN] : \A i \in D : i <= n => (f[i] <=> Body(p, t, f, i))
    BY <1>2
  <2> DEFINE g == [i \in D |-> Body(p, t, f, i)]
  <2>2. g \in [D -> BOOLEAN] /\ \A i \in D : g[i] <=> Body(p, t, f, i)
    BY DEF Body
  <2> HIDE DEF g
  <2>3. ASSUME NEW i \in D, i <= n + 1 PROVE Body(p, t, f, i) <=> Body(p, t, g, i)
    <3>1. \A h \in 1..(i - 1) : h \in D /\ h <= n
      BY <2>3
    <3>2. \A h \in 1..(i - 1) : f[h] <=> g[h]
      BY <2>1, <2>2, <3>1
    <3>3. QED
      BY <3>2 DEF Body
  <2>4. \A i \in D : i <= n + 1 => (g[i] <=> Body(p, t, g, i))
    BY <2>2, <2>3
  <2>5. QED
    BY <2>2, <2>4
<1>3. Len(t) \in T
  <2> HIDE DEF T
  <2>1. Nat \subseteq T
    BY <1>1, <1>2, Induction
  <2>2. QED
    BY <2>1
<1>4. PICK f \in [D -> BOOLEAN] : \A i \in D : i <= Len(t) => (f[i] <=> Body(p, t, f, i))
  BY <1>3
<1>5. \A i \in D : i <= Len(t)
  OBVIOUS
<1>6. \A i \in D : f[i] = Body(p, t, f, i)
  BY <1>4, <1>5 DEF Body
<1>7. f = [i \in D |-> Body(p, t, f, i)]
  BY <1>6, Zenon
<1>8. QED
  BY <1>7

(* A match that no earlier one reaches is replaced, up to its end. *)
LEMMA FreeReplaced ==
    ASSUME NEW p, NEW t, Len(t) \in Nat, NEW i \in 1..Len(t), NEW j \in Ends(p, t, i),
           \A h \in 1..(i - 1) : ~\E e \in Ends(p, t, h) : e >= i,
           NEW k \in i..j
    PROVE  Replaced(p, t, k)
<1> DEFINE F(f) == [h \in 1..Len(t) |-> /\ Ends(p, t, h) # {}
                       /\ \A g \in 1..(h - 1) : (\E e \in Ends(p, t, g) : e >= h) => ~f[g]]
           taken == CHOOSE f : f = F(f)
<1>1. taken = F(taken)
  <2>1. PICK f : f = [h \in 1..Len(t) |-> Body(p, t, f, h)]
    BY TakenExists
  <2>2. f = F(f)
    BY <2>1 DEF Body
  <2>3. QED
    BY <2>2, Zenon
<1> HIDE DEF taken
<1>2. taken[i]
  BY <1>1
<1>3. i \in 1..k /\ j >= k
  BY DEF Ends
<1>4. QED
  BY <1>2, <1>3 DEF Replaced, taken
-----------------------------------------------------------------------------
(* The head of a key: the literal and the first SkMin symbols of its body,  *)
(* with nothing of a body in front and nothing in it that opens a secret.   *)
Opens(x) == \E lit \in SecretPrefixes : x = lit[1]
HeadEnd(i) == i + Len(SkLiteral) + SkMin - 1

KeyHead(t, i) ==
    /\ i \in 1..Len(t) /\ HeadEnd(i) <= Len(t)
    /\ LiteralAt(SkLiteral, t, i)
    /\ AllIn(t, i + Len(SkLiteral), HeadEnd(i), SecretBody)
    /\ \E k \in (i + Len(SkLiteral))..HeadEnd(i) : t[k] \in Digit
    /\ \A k \in (i + Len(SkLiteral))..HeadEnd(i) : ~Opens(t[k])
    /\ i > 1 => t[i - 1] \notin SecretBody

LEMMA HeadSymbols ==
    ASSUME NEW t \in Seq(Byte), NEW i \in Nat, KeyHead(t, i)
    PROVE  /\ \A k \in i..HeadEnd(i) : t[k] \in SecretBody
           /\ \A k \in (i + 1)..HeadEnd(i) : ~Opens(t[k])
           /\ HeadEnd(i) \in i..Len(t)
<1>1. /\ Len(SkLiteral) \in Nat \ {0} /\ SkMin \in Nat /\ SkLiteral \in Seq(SecretBody)
      /\ HeadEnd(i) \in i..Len(t)
  BY Literals DEF KeyHead, HeadEnd
<1>2. ASSUME NEW k \in i..HeadEnd(i), k < i + Len(SkLiteral)
      PROVE  /\ t[k] = SkLiteral[k - i + 1] /\ k - i + 1 \in 1..Len(SkLiteral)
  <2>1. k - i + 1 \in 1..Len(SkLiteral) /\ i + (k - i + 1) - 1 = k
    BY <1>1, <1>2
  <2>2. t[i + (k - i + 1) - 1] = SkLiteral[k - i + 1]
    BY <2>1 DEF KeyHead, LiteralAt
  <2>3. QED
    BY <2>1, <2>2
<1>3. ASSUME NEW k \in i..HeadEnd(i) PROVE t[k] \in SecretBody
  <2>1. CASE k < i + Len(SkLiteral)
    BY <1>1, <1>2, <2>1
  <2>2. CASE ~(k < i + Len(SkLiteral))
    <3>1. k \in (i + Len(SkLiteral))..HeadEnd(i)
      BY <1>1, <2>2
    <3>2. QED
      BY <3>1 DEF KeyHead, AllIn
  <2>3. QED
    BY <2>1, <2>2
<1>4. ASSUME NEW k \in (i + 1)..HeadEnd(i) PROVE ~Opens(t[k])
  <2>1. k \in i..HeadEnd(i)
    BY <1>1
  <2>2. CASE k < i + Len(SkLiteral)
    <3>1. t[k] = SkLiteral[k - i + 1] /\ k - i + 1 \in 2..Len(SkLiteral)
      BY <1>1, <1>2, <2>1, <2>2
    <3>2. \A lit \in SecretPrefixes : SkLiteral[k - i + 1] # lit[1]
      BY <3>1, LiteralAssumption DEF LiteralAssumption
    <3>3. QED
      BY <3>1, <3>2 DEF Opens
  <2>3. CASE ~(k < i + Len(SkLiteral))
    <3>1. k \in (i + Len(SkLiteral))..HeadEnd(i)
      BY <1>1, <2>3
    <3>2. QED
      BY <3>1 DEF KeyHead
  <2>4. QED
    BY <2>2, <2>3
<1>5. QED
  BY <1>1, <1>3, <1>4

(* What is held back when the text ends inside a head. *)
LEMMA HeadHeld ==
    ASSUME NEW w \in Seq(Byte), NEW i \in Nat, KeyHead(w, i),
           NEW p \in i..(HeadEnd(i) - 1), NEW t \in Seq(Byte), Len(t) = p,
           \A k \in 1..p : t[k] = w[k]
    PROVE  p - i + 1 \in PartialPrefixes(t) \cup PartialSk(t)
<1>1. /\ Len(SkLiteral) \in Nat \ {0} /\ SkMin \in Nat /\ SkLiteral \in Seq(SecretBody)
      /\ i \in 1..Len(w) /\ HeadEnd(i) \in i..Len(w) /\ p \in 1..Len(w)
      /\ SkLiteral \in SecretPrefixes
  <2>1. HeadEnd(i) \in i..Len(w)
    BY HeadSymbols
  <2>2. i \in 1..Len(w)
    BY DEF KeyHead
  <2>3. p \in 1..Len(w)
    BY <2>1, <2>2
  <2>4. SkLiteral \in SecretPrefixes
    BY LiteralAssumption DEF LiteralAssumption
  <2>5. QED
    BY <2>1, <2>2, <2>3, <2>4, Literals
<1>2. \A k \in 1..Len(SkLiteral) : w[i + k - 1] = SkLiteral[k]
  BY DEF KeyHead, LiteralAt
<1>3. CASE p < i + Len(SkLiteral) - 1
  <2> DEFINE n == p - i + 1
  <2>1. n \in 1..p /\ n < Len(SkLiteral) /\ p - n + 1 = i
    BY <1>1, <1>3
  <2>2. Suffix(t, n) = SubSeq(SkLiteral, 1, n)
    <3>1. Suffix(t, n) = SubSeq(t, i, p)
      BY <2>1 DEF Suffix
    <3>2. SubSeq(t, i, p) = [k \in 1..n |-> t[i + k - 1]]
      BY <1>1, <2>1
    <3>3. SubSeq(SkLiteral, 1, n) = [k \in 1..n |-> SkLiteral[k]]
      BY <1>1, <2>1
    <3>4. ASSUME NEW k \in 1..n PROVE t[i + k - 1] = SkLiteral[k]
      <4>1. i + k - 1 \in 1..p /\ k \in 1..Len(SkLiteral)
        BY <1>1, <2>1
      <4>2. QED
        BY <1>2, <4>1
    <3>5. QED
      BY <3>1, <3>2, <3>3, <3>4
  <2>3. QED
    BY <1>1, <2>1, <2>2 DEF PartialPrefixes
<1>4. CASE ~(p < i + Len(SkLiteral) - 1)
  <2> DEFINE runs == {h \in 1..p : /\ LiteralAt(SkLiteral, t, h)
                                   /\ AllIn(t, h + Len(SkLiteral), p, SecretBody)}
  <2>1. i \in runs
    <3>1. i \in 1..p /\ i + Len(SkLiteral) - 1 <= p
      BY <1>1, <1>4
    <3>2. \A k \in 1..Len(SkLiteral) : i + k - 1 \in 1..p
      BY <1>1, <3>1
    <3>3. LiteralAt(SkLiteral, t, i)
      BY <1>2, <3>1, <3>2 DEF LiteralAt
    <3>4. \A k \in (i + Len(SkLiteral))..p :
              k \in 1..p /\ k \in (i + Len(SkLiteral))..HeadEnd(i)
      BY <1>1, <3>1
    <3>5. AllIn(t, i + Len(SkLiteral), p, SecretBody)
      BY <3>4 DEF KeyHead, AllIn
    <3>6. QED
      BY <3>1, <3>3, <3>5
  <2>2. ASSUME NEW h \in runs PROVE i <= h
    <3>1. SUFFICES ASSUME h < i PROVE FALSE
      BY <1>1
    <3>2. i - 1 \in 1..p /\ i > 1 /\ h <= i - 1
      BY <1>1, <3>1
    <3>3. t[i - 1] \in SecretBody
      <4>1. CASE i - 1 < h + Len(SkLiteral)
        <5>1. i - 1 - h + 1 \in 1..Len(SkLiteral) /\ h + (i - 1 - h + 1) - 1 = i - 1
          BY <1>1, <3>2, <4>1
        <5>2. t[h + (i - 1 - h + 1) - 1] = SkLiteral[i - 1 - h + 1]
          BY <5>1 DEF LiteralAt
        <5>3. SkLiteral[i - 1 - h + 1] \in SecretBody
          BY <1>1, <5>1
        <5>4. QED
          BY <5>1, <5>2, <5>3
      <4>2. CASE ~(i - 1 < h + Len(SkLiteral))
        <5>1. i - 1 \in (h + Len(SkLiteral))..p
          BY <1>1, <3>2, <4>2
        <5>2. QED
          BY <5>1 DEF AllIn
      <4>3. QED
        BY <4>1, <4>2
    <3>4. QED
      BY <3>2, <3>3 DEF KeyHead
  <2>3. p - i + 1 - Len(SkLiteral) < SkMin
    BY <1>1, <1>4 DEF HeadEnd
  <2>4. i \in Leftmost(runs)
    BY <2>1, <2>2 DEF Leftmost
  <2> HIDE DEF runs
  <2>5. p - i + 1 \in {p - h + 1 : h \in {g \in Leftmost(runs) : p - g + 1 - Len(SkLiteral) < SkMin}}
    BY <2>3, <2>4
  <2>6. QED
    BY <2>5 DEF PartialSk, runs
<1>5. QED
  BY <1>3, <1>4

(* What is held back starts with a symbol that opens a secret. *)
LEMMA HeldOpens ==
    ASSUME NEW t \in Seq(Byte), NEW h, h = HoldLength(t), h # 0
    PROVE  Opens(t[Len(t) - h + 1])
<1>1. h \in 1..Len(t) /\ Len(t) \in Nat
  BY HoldLengthIs
<1>2. ASSUME NEW lit, lit \in Seq(Byte), Len(lit) \in Nat \ {0},
             NEW q \in 1..Len(t), LiteralAt(lit, t, q)
      PROVE  t[q] = lit[1]
  <2>1. 1 \in 1..Len(lit) /\ q + 1 - 1 = q
    BY <1>2
  <2>2. QED
    BY <1>2, <2>1 DEF LiteralAt
<1>3. CASE h \in PartialPrefixes(t)
  <2>1. PICK lit \in SecretPrefixes : h < Len(lit) /\ Suffix(t, h) = SubSeq(lit, 1, h)
    BY <1>3 DEF PartialPrefixes
  <2>2. lit \in Seq(Byte)
    BY Literals
  <2>3. Suffix(t, h)[1] = t[Len(t) - h + 1]
    <3>1. Len(t) - h + 1 \in 1..Len(t) /\ 1 \in 1..(Len(t) - (Len(t) - h + 1) + 1)
      BY <1>1
    <3>2. QED
      BY <1>1, <3>1 DEF Suffix
  <2>4. SubSeq(lit, 1, h)[1] = lit[1]
    BY <1>1, <2>1, <2>2
  <2>5. QED
    BY <2>1, <2>3, <2>4 DEF Opens
<1>4. CASE h \in PartialSk(t)
  <2>1. PICK q \in 1..Len(t) : h = Len(t) - q + 1 /\ LiteralAt(SkLiteral, t, q)
    BY <1>4 DEF PartialSk, Leftmost
  <2>2. SkLiteral \in SecretPrefixes
    BY LiteralAssumption DEF LiteralAssumption
  <2>3. t[q] = SkLiteral[1] /\ Len(t) - h + 1 = q
    BY <1>1, <1>2, <2>1, <2>2, Literals
  <2>4. QED
    BY <2>2, <2>3 DEF Opens
<1>5. CASE h \in PartialBearer(t)
  <2>1. PICK q \in 1..Len(t) : h = Len(t) - q + 1 /\ LiteralAt(BearerLiteral, t, q)
    BY <1>5 DEF PartialBearer, Leftmost
  <2>2. t[q] = BearerLiteral[1] /\ Len(t) - h + 1 = q
    BY <1>1, <1>2, <2>1, Literals
  <2>3. QED
    BY <2>2, LiteralAssumption DEF Opens, LiteralAssumption
<1>6. QED
  BY <1>3, <1>4, <1>5, HoldLengthIs

(* A cut never goes through a head. *)
LEMMA CutClear ==
    ASSUME NEW w \in Seq(Byte), NEW i \in Nat, KeyHead(w, i),
           NEW p \in 0..Len(w), NEW t \in Seq(Byte), Len(t) = p, \A k \in 1..p : t[k] = w[k],
           NEW e, e = p - HoldLength(t)
    PROVE  i > e \/ HeadEnd(i) <= e
<1>1. /\ HoldLength(t) \in 0..p /\ i \in 1..Len(w) /\ HeadEnd(i) \in i..Len(w) /\ e \in 0..p
  <2>1. HoldLength(t) \in 0..p
    BY HoldLengthIs
  <2>2. HeadEnd(i) \in i..Len(w)
    BY HeadSymbols
  <2>3. i \in 1..Len(w)
    BY DEF KeyHead
  <2>4. e \in 0..p
    BY <2>1
  <2>5. QED
    BY <2>1, <2>2, <2>3, <2>4
<1>2. CASE p < i
  BY <1>1, <1>2
<1>3. CASE p \in i..(HeadEnd(i) - 1)
  <2>1. p - i + 1 \in PartialPrefixes(t) \cup PartialSk(t)
    BY <1>3, HeadHeld
  <2>2. p - i + 1 <= HoldLength(t)
    BY <2>1, HoldLengthIs
  <2>3. QED
    BY <1>1, <1>3, <2>2
<1>4. CASE p >= HeadEnd(i)
  <2>1. CASE HoldLength(t) = 0
    BY <1>1, <1>4, <2>1
  <2>2. CASE HoldLength(t) # 0
    <3>1. Opens(t[e + 1]) /\ e + 1 \in 1..p
      <4>1. Len(t) - HoldLength(t) + 1 = e + 1 /\ e + 1 \in 1..p
        BY <1>1, <2>2
      <4>2. QED
        BY <2>2, <4>1, HeldOpens
    <3>2. Opens(w[e + 1])
      BY <3>1
    <3>3. e + 1 \notin (i + 1)..HeadEnd(i)
      BY <3>2, HeadSymbols
    <3>4. QED
      BY <1>1, <3>3
  <2>3. QED
    BY <2>1, <2>2
<1>5. QED
  BY <1>1, <1>2, <1>3, <1>4

(* A head in the processed part is the head of a match, and is masked. *)
LEMMA HeadMatched ==
    ASSUME NEW s \in Seq(Byte), NEW i \in Nat, KeyHead(s, i)
    PROVE  \E j \in HeadEnd(i)..Len(s) : j \in Ends(SkPattern, s, i)
<1> DEFINE b == i + Len(SkLiteral)
           S == {j \in HeadEnd(i)..Len(s) : AllIn(s, b, j, SecretBody)}
<1>1. /\ Len(SkLiteral) \in Nat \ {0} /\ SkMin \in Nat /\ Len(s) \in Nat
      /\ i \in 1..Len(s) /\ HeadEnd(i) \in i..Len(s) /\ b \in Nat
  <2>1. HeadEnd(i) \in i..Len(s)
    BY HeadSymbols
  <2>2. i \in 1..Len(s)
    BY DEF KeyHead
  <2>3. QED
    BY <2>1, <2>2, Literals
<1>2. HeadEnd(i) \in S
  BY <1>1 DEF KeyHead
<1>3. PICK j \in S : \A n \in S : n <= j
  <2>1. S \in SUBSET (0..Len(s)) /\ S # {}
    BY <1>1, <1>2
  <2>2. Max(S) \in S /\ \A n \in S : n <= Max(S)
    BY <1>1, <2>1, MaxNatural
  <2>3. QED
    BY <2>2
<1>4. j \in HeadEnd(i)..Len(s) /\ AllIn(s, b, j, SecretBody)
  OBVIOUS
<1>5. j < Len(s) => s[j + 1] \notin SecretBody
  <2>1. SUFFICES ASSUME j < Len(s), s[j + 1] \in SecretBody PROVE FALSE
    OBVIOUS
  <2>2. \A k \in b..(j + 1) : k \in b..j \/ k = j + 1
    BY <1>1, <1>4
  <2>3. AllIn(s, b, j + 1, SecretBody)
    BY <1>4, <2>1, <2>2 DEF AllIn
  <2>4. j + 1 \in S
    BY <1>1, <1>4, <2>1, <2>3
  <2>5. QED
    BY <1>1, <1>3, <1>4, <2>4
<1>6. PICK k \in b..HeadEnd(i) : s[k] \in Digit
  BY DEF KeyHead
<1>7. b \in (i + Len(SkLiteral))..j /\ k \in b..j /\ j - b + 1 >= SkMin
  BY <1>1, <1>4 DEF HeadEnd
<1>8. LiteralAt(SkLiteral, s, i)
  BY DEF KeyHead
<1>9. BodyStart(SkPattern, s, i, b)
  BY DEF BodyStart, SkPattern
<1> HIDE DEF b, S
<1>10. MatchAt(SkPattern, s, i, j)
  BY <1>4, <1>5, <1>6, <1>7, <1>8, <1>9 DEF MatchAt, SkPattern
<1>11. j \in i..Len(s)
  BY <1>1, <1>4
<1>12. QED
  BY <1>4, <1>10, <1>11 DEF Ends

LEMMA HeadRedacted ==
    ASSUME NEW s \in Seq(Byte), NEW i \in Nat, KeyHead(s, i), NEW k \in i..HeadEnd(i)
    PROVE  Redact(s)[k] = Mask
<1>1. /\ Len(SkLiteral) \in Nat \ {0} /\ Len(s) \in Nat /\ SkLiteral \in Seq(SecretBody)
      /\ i \in 1..Len(s) /\ HeadEnd(i) \in i..Len(s) /\ k \in 1..Len(s)
  <2>1. HeadEnd(i) \in i..Len(s)
    BY HeadSymbols
  <2>2. i \in 1..Len(s)
    BY DEF KeyHead
  <2>3. k \in 1..Len(s)
    BY <2>1, <2>2
  <2>4. QED
    BY <2>1, <2>2, <2>3, Literals
<1>2. PICK j \in HeadEnd(i)..Len(s) : j \in Ends(SkPattern, s, i)
  BY HeadMatched
<1>3. ASSUME NEW h \in 1..(i - 1), NEW e \in Ends(SkPattern, s, h), e >= i PROVE FALSE
  <2>1. LiteralAt(SkLiteral, s, h) /\ AllIn(s, h + Len(SkLiteral), e, SecretBody)
    BY DEF Ends, MatchAt, BodyStart, SkPattern
  <2>2. i > 1 /\ i - 1 \in h..e
    BY <1>1, <1>3 DEF Ends
  <2>3. CASE i - 1 < h + Len(SkLiteral)
    <3>1. i - 1 - h + 1 \in 1..Len(SkLiteral) /\ h + (i - 1 - h + 1) - 1 = i - 1
      BY <1>1, <2>2, <2>3
    <3>2. s[h + (i - 1 - h + 1) - 1] = SkLiteral[i - 1 - h + 1]
      BY <2>1, <3>1 DEF LiteralAt
    <3>3. SkLiteral[i - 1 - h + 1] \in SecretBody
      BY <1>1, <3>1
    <3>4. QED
      BY <2>2, <3>1, <3>2, <3>3 DEF KeyHead
  <2>4. CASE ~(i - 1 < h + Len(SkLiteral))
    <3>1. i - 1 \in (h + Len(SkLiteral))..e
      BY <1>1, <2>2, <2>4
    <3>2. QED
      BY <2>1, <2>2, <3>1 DEF KeyHead, AllIn
  <2>5. QED
    BY <2>3, <2>4
<1>4. k \in i..j
  BY <1>1, <1>2
<1>5. \A h \in 1..(i - 1) : ~\E e \in Ends(SkPattern, s, h) : e >= i
  BY <1>3
<1>6. Replaced(SkPattern, s, k)
  BY <1>1, <1>2, <1>4, <1>5, FreeReplaced
<1> DEFINE a == Masked(SkPattern, s)
           c == Masked(BearerPattern, a)
<1>7. a[k] = Mask
  <2> DEFINE M == [n \in 1..Len(s) |-> IF Replaced(SkPattern, s, n) THEN Mask ELSE s[n]]
  <2>1. M[k] = Mask
    BY <1>1, <1>6
  <2>2. a = SubSeq(M, 1, Len(s))
    BY DEF Masked
  <2> HIDE DEF M
  <2>3. SubSeq(M, 1, Len(s))[k] = M[k]
    BY <1>1
  <2>4. QED
    BY <2>1, <2>2, <2>3
<1>8. a \in Seq(Byte) /\ Len(a) = Len(s)
  BY MaskedMasks DEF MaskOf
<1> HIDE DEF a
<1>9. c \in Seq(Byte) /\ Len(c) = Len(s) /\ c[k] = Mask
  BY <1>1, <1>7, <1>8, MaskedMasks DEF MaskOf
<1> HIDE DEF c
<1>10. Masked(TokenPattern, c)[k] = Mask
  BY <1>1, <1>9, MaskedMasks DEF MaskOf
<1>11. QED
  BY <1>10 DEF Redact, a, c

(* A free-standing key with a plain body has a head. *)
LEMMA FreeHead ==
    ASSUME NEW t \in Seq(Byte), NEW i \in DOMAIN t, NEW j \in DOMAIN t, FreeKey(t, i, j)
    PROVE  KeyHead(t, i)
<1> DEFINE b == i + Len(SkLiteral)
<1>1. /\ Len(SkLiteral) \in Nat \ {0} /\ SkMin \in Nat /\ i \in 1..Len(t) /\ j \in 1..Len(t)
  BY Literals
<1>2. /\ LiteralAt(SkLiteral, t, i) /\ AllIn(t, b, j, SecretBody)
      /\ j - b + 1 >= SkMin
  BY DEF FreeKey, MatchAt, BodyStart, SkPattern
<1>3. HeadEnd(i) = b + SkMin - 1 /\ HeadEnd(i) <= j
  BY <1>1, <1>2 DEF HeadEnd
<1>4. \A k \in b..HeadEnd(i) : k \in b..j
  BY <1>1, <1>3
<1>5. AllIn(t, b, HeadEnd(i), SecretBody)
  BY <1>2, <1>4 DEF AllIn
<1>6. \E k \in b..HeadEnd(i) : t[k] \in Digit
  BY <1>3 DEF FreeKey
<1>7. \A k \in b..HeadEnd(i) : ~Opens(t[k])
  BY <1>4 DEF FreeKey, Opens
<1>8. HeadEnd(i) <= Len(t) /\ (i > 1 => t[i - 1] \notin SecretBody)
  BY <1>1, <1>3 DEF FreeKey
<1>9. QED
  BY <1>1, <1>2, <1>5, <1>6, <1>7, <1>8 DEF KeyHead

(* A head is still one after c bytes in front of it went, with what follows *)
(* it cut off anywhere.                                                     *)
LEMMA HeadMoved ==
    ASSUME NEW t \in Seq(Byte), NEW i \in Nat, KeyHead(t, i),
           NEW c \in 0..(i - 1), NEW s \in Seq(Byte), HeadEnd(i) - c <= Len(s),
           \A k \in 1..Len(s) : c + k \in 1..Len(t) => s[k] = t[c + k]
    PROVE  /\ i - c \in Nat /\ HeadEnd(i - c) = HeadEnd(i) - c
           /\ KeyHead(s, i - c)
<1> DEFINE L == Len(SkLiteral)
           n == i - c
<1>1. /\ L \in Nat \ {0} /\ SkMin \in Nat /\ i \in 1..Len(t) /\ Len(t) \in Nat
      /\ HeadEnd(i) \in i..Len(t) /\ Len(s) \in Nat
  <2>1. HeadEnd(i) \in i..Len(t)
    BY HeadSymbols
  <2>2. i \in 1..Len(t)
    BY DEF KeyHead
  <2>3. QED
    BY <2>1, <2>2, Literals
<1>2. n \in Nat /\ HeadEnd(n) = HeadEnd(i) - c /\ n \in 1..Len(s) /\ HeadEnd(n) \in n..Len(s)
  BY <1>1 DEF HeadEnd
<1>3. ASSUME NEW k \in 1..HeadEnd(n) PROVE s[k] = t[c + k]
  <2>1. k \in 1..Len(s) /\ c + k \in 1..Len(t)
    BY <1>1, <1>2
  <2>2. QED
    BY <2>1
<1> HIDE DEF n
<1>4. n + c = i
  BY <1>1 DEF n
<1>5. LiteralAt(SkLiteral, s, n)
  <2>1. n + L - 1 <= Len(s)
    BY <1>1, <1>2 DEF HeadEnd
  <2>2. ASSUME NEW k \in 1..L PROVE s[n + k - 1] = SkLiteral[k]
    <3>1. n + k - 1 \in 1..HeadEnd(n) /\ c + (n + k - 1) = i + k - 1
      BY <1>1, <1>2, <1>4 DEF HeadEnd
    <3>2. t[i + k - 1] = SkLiteral[k]
      BY DEF KeyHead, LiteralAt
    <3>3. s[n + k - 1] = t[c + (n + k - 1)]
      BY <1>3, <3>1
    <3>4. QED
      BY <3>1, <3>2, <3>3
  <2>3. QED
    BY <2>1, <2>2 DEF LiteralAt
<1>6. ASSUME NEW k \in (n + L)..HeadEnd(n)
      PROVE  c + k \in (i + L)..HeadEnd(i) /\ s[k] = t[c + k]
  <2>1. k \in 1..HeadEnd(n) /\ c + k \in (i + L)..HeadEnd(i)
    BY <1>1, <1>2, <1>4
  <2>2. QED
    BY <1>3, <2>1
<1>7. AllIn(s, n + L, HeadEnd(n), SecretBody)
  BY <1>6 DEF KeyHead, AllIn
<1>8. \A k \in (n + L)..HeadEnd(n) : ~Opens(s[k])
  BY <1>6 DEF KeyHead
<1>9. \E k \in (n + L)..HeadEnd(n) : s[k] \in Digit
  <2>1. PICK k \in (i + L)..HeadEnd(i) : t[k] \in Digit
    BY DEF KeyHead
  <2>2. k - c \in (n + L)..HeadEnd(n) /\ c + (k - c) = k
    BY SMTT(30), <1>1, <1>2, <1>4
  <2>3. s[k - c] = t[c + (k - c)]
    BY <1>6, <2>2
  <2>4. QED
    BY <2>1, <2>2, <2>3
<1>10. n > 1 => s[n - 1] \notin SecretBody
  <2>1. SUFFICES ASSUME n > 1 PROVE s[n - 1] \notin SecretBody
    OBVIOUS
  <2>2. n - 1 \in 1..HeadEnd(n) /\ c + (n - 1) = i - 1 /\ i > 1
    <3>1. n \in Nat /\ c \in Nat /\ i \in Nat /\ HeadEnd(n) \in Int /\ n <= HeadEnd(n)
      BY <1>1, <1>2
    <3>2. QED
      BY <1>4, <2>1, <3>1
  <2>3. s[n - 1] = t[c + (n - 1)]
    BY <1>3, <2>2
  <2>4. QED
    BY <2>2, <2>3 DEF KeyHead
<1>11. KeyHead(s, n)
  BY <1>2, <1>5, <1>7, <1>8, <1>9, <1>10 DEF KeyHead
<1>12. QED
  BY <1>2, <1>11 DEF n
=============================================================================
