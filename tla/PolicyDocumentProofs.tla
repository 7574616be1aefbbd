------------------------ MODULE PolicyDocumentProofs ------------------------
(***************************************************************************)
(* What becomes of two lists of rules when one is laid over the other, and *)
(* of the documents they are in.                                           *)
(***************************************************************************)
EXTENDS PolicyDocument, SequenceCounts

-----------------------------------------------------------------------------
(* Rules laid over rules, one after the other. *)

(* One rule: the first of its key is replaced, else it comes last. *)
InPlace(rules, entry, out, f) ==
    /\ f \in 1..Len(rules) /\ rules[f].key = entry.key /\ Len(out) = Len(rules)
    /\ \A i \in 1..Len(rules) : out[i] = IF i = f THEN entry ELSE rules[i]
Behind(rules, entry, out) ==
    /\ \A i \in 1..Len(rules) : rules[i].key # entry.key /\ out[i] = rules[i]
    /\ Len(out) = Len(rules) + 1 /\ out[Len(rules) + 1] = entry

LEMMA Replaces ==
    ASSUME NEW rules \in Seq(RuleEntry), NEW entry \in RuleEntry,
           NEW out, out = ReplaceRule(rules, entry)
    PROVE  /\ out \in Seq(RuleEntry)
           /\ (\E f : InPlace(rules, entry, out, f)) \/ Behind(rules, entry, out)
<1> DEFINE I == {i \in 1..Len(rules) : rules[i].key = entry.key}
<1>1. out = IF (IF I # {} THEN Min(I) ELSE 0) = 0 THEN Append(rules, entry)
            ELSE [rules EXCEPT ![IF I # {} THEN Min(I) ELSE 0] = entry]
  BY Zenon DEF ReplaceRule, SelectInSeq
<1>2. CASE I = {}
  <2>1. out = Append(rules, entry)
    BY <1>1, <1>2
  <2>2. QED
    BY <1>2, <2>1 DEF Behind
<1>3. CASE I # {}
  <2>1. Min(I) \in I
    <3>1. I \subseteq Nat
      OBVIOUS
    <3> HIDE DEF I
    <3>2. QED
      BY <1>3, <3>1, MinNatural
  <2>2. out = [rules EXCEPT ![Min(I)] = entry] /\ Min(I) \in 1..Len(rules)
    BY <1>1, <1>3, <2>1
  <2>3. out \in Seq(RuleEntry) /\ Len(out) = Len(rules)
    BY <2>2
  <2>4. \A i \in 1..Len(rules) : out[i] = IF i = Min(I) THEN entry ELSE rules[i]
    BY <2>2
  <2>5. QED
    BY <2>1, <2>2, <2>3, <2>4 DEF InPlace
<1>4. QED
  BY <1>2, <1>3

FoldOver(g, base, s) ==
    [t \in SUBSET DOMAIN s |-> IF t = {} THEN base
                               ELSE ReplaceRule(g[t \ {Max(t)}], s[Max(t)])]

LEMMA FoldIs ==
    ASSUME NEW base, NEW s, NEW h, h = FoldOver(h, base, s)
    PROVE  \E g : g = FoldOver(g, base, s) /\ FoldLeft(ReplaceRule, base, s) = g[DOMAIN s]
<1> DEFINE g == CHOOSE f : f = FoldOver(f, base, s)
<1>1. g = FoldOver(g, base, s)
  BY Zenon
<1>2. FoldLeft(ReplaceRule, base, s) = g[DOMAIN s]
  BY DEF FoldLeft, MapThenFoldSet, FoldOver
<1>3. QED
  BY <1>1, <1>2, Zenon

(* The rules after each of those laid over them. *)
Laying(r, base, s) ==
    /\ r \in [0..Len(s) -> Seq(RuleEntry)] /\ r[0] = base
    /\ \A k \in 1..Len(s) : r[k] = ReplaceRule(r[k - 1], s[k])

LEMMA LayingIs ==
    ASSUME NEW base \in Seq(RuleEntry), NEW s \in Seq(RuleEntry)
    PROVE  \E r : Laying(r, base, s) /\ r[Len(s)] = FoldLeft(ReplaceRule, base, s)
<1> DEFINE A == Seq(RuleEntry)
           n == Len(s)
           G == [p \in A \X (1..n) |-> ReplaceRule(p[1], s[p[2]])]
<1>1. n \in Nat /\ DOMAIN s = 1..n /\ \A i \in 1..n : s[i] \in RuleEntry
  OBVIOUS
<1>2. \A x \in A, k \in 1..n : ReplaceRule(x, s[k]) \in A
  BY <1>1, Replaces
<1>3. G \in [A \X (1..n) -> A]
  BY <1>2
<1>4. \A x \in A, k \in 1..n : G[<<x, k>>] = ReplaceRule(x, s[k])
  OBVIOUS
<1> HIDE DEF G
<1>5. PICK h \in [SUBSET (1..n) -> A] : Folded(h, G, base, n)
  BY <1>1, <1>3, FoldsExist
<1>6. \A t \in SUBSET (1..n) : t # {} => t \ {Max(t)} \in SUBSET (1..n) /\ Max(t) \in 1..n
  <2> SUFFICES ASSUME NEW t \in SUBSET (1..n), t # {}
               PROVE  t \ {Max(t)} \in SUBSET (1..n) /\ Max(t) \in 1..n
    OBVIOUS
  <2>1. t \in SUBSET (0..n)
    OBVIOUS
  <2>2. QED
    BY <1>1, <2>1, MaxNatural
<1> HIDE DEF n, A
<1>7. \A t \in SUBSET (1..n) : h[t] = IF t = {} THEN base
                                     ELSE ReplaceRule(h[t \ {Max(t)}], s[Max(t)])
  BY <1>4, <1>5, <1>6 DEF Folded, FoldStep
<1>8. h = FoldOver(h, base, s)
  BY <1>1, <1>5, <1>7 DEF FoldOver
<1>9. PICK g : g = FoldOver(g, base, s) /\ FoldLeft(ReplaceRule, base, s) = g[DOMAIN s]
  BY <1>8, FoldIs
<1>10. \A t \in SUBSET (1..n) : g[t] = IF t = {} THEN base
                                      ELSE ReplaceRule(g[t \ {Max(t)}], s[Max(t)])
  BY <1>1, <1>9 DEF FoldOver
<1>11. PICK r \in [0..n -> A] : Runs(r, g, G, base, n)
  <2>1. base \in A
    BY DEF A
  <2>2. FoldedIn(A, g, G, base, n)
    BY <1>4, <1>6, <1>10 DEF FoldedIn, FoldStep
  <2>3. QED
    BY <1>1, <1>3, <2>1, <2>2, FoldRuns
<1>12. Laying(r, base, s)
  <2>1. r[0] = base /\ \A k \in 1..n : r[k] = ReplaceRule(r[k - 1], s[k])
    <3>1. \A k \in 1..n : k - 1 \in 0..n
      BY <1>1
    <3>2. QED
      BY <1>4, <1>11, <3>1 DEF Runs
  <2>2. QED
    BY <1>11, <2>1 DEF Laying, A, n
<1>13. QED
  BY <1>1, <1>9, <1>11, <1>12 DEF Runs, n

-----------------------------------------------------------------------------
(* What b is when the first k of o are laid over it.  No rule of b goes;    *)
(* what o names is replaced or added; the rest stays where it is.           *)
Keyed(rules, key) == \E j \in DOMAIN rules : rules[j].key = key

Kept(b, x) == Len(b) <= Len(x) /\ \A p \in 1..Len(b) : x[p].key = b[p].key
Named(o, k, x) == \A j \in 1..k : Keyed(x, o[j].key)
FromBoth(b, o, k, x) ==
    \A p \in 1..Len(x) : \/ \E j \in 1..k : x[p] = o[j]
                         \/ p <= Len(b) /\ x[p] = b[p]
Laid(b, o, k, x) == x \in Seq(RuleEntry) /\ Kept(b, x) /\ Named(o, k, x) /\ FromBoth(b, o, k, x)

(* When neither has two rules of one key. *)
Newest(o, k, x) == \A p \in 1..Len(x), j \in 1..k : o[j].key = x[p].key => x[p] = o[j]
Added(b, o, k, x) ==
    \A p, q \in (Len(b) + 1)..Len(x) : p < q =>
        \E i, j \in 1..k : i < j /\ x[p] = o[i] /\ x[q] = o[j]
LaidApart(b, o, k, x) == Distinct(x) /\ Newest(o, k, x) /\ Added(b, o, k, x)

LEMMA LaidNone ==
    ASSUME NEW b \in Seq(RuleEntry), NEW o
    PROVE  Laid(b, o, 0, b) /\ (Distinct(b) => LaidApart(b, o, 0, b))
  BY DEF Laid, Kept, Named, FromBoth, LaidApart, Newest, Added

LEMMA LaidOne ==
    ASSUME NEW b \in Seq(RuleEntry), NEW o \in Seq(RuleEntry), NEW k \in Nat, k + 1 <= Len(o),
           NEW x, Laid(b, o, k, x), NEW y, y = ReplaceRule(x, o[k + 1])
    PROVE  Laid(b, o, k + 1, y)
<1> DEFINE e == o[k + 1]
<1>1. e \in RuleEntry /\ x \in Seq(RuleEntry) /\ Len(b) \in Nat /\ Len(x) \in Nat
  BY DEF Laid
<1>7. y = ReplaceRule(x, e) /\ o[k + 1] = e
  OBVIOUS
<1> HIDE DEF e
<1>2. y \in Seq(RuleEntry) /\ ((\E f : InPlace(x, e, y, f)) \/ Behind(x, e, y))
  BY <1>1, <1>7, Replaces
<1>3. DOMAIN x = 1..Len(x) /\ DOMAIN y = 1..Len(y)
  BY <1>1, <1>2
<1>4. Len(x) <= Len(y) /\ Keyed(y, e.key) /\ \A i \in 1..Len(x) : y[i].key = x[i].key
  <2>1. ASSUME NEW f, InPlace(x, e, y, f)
        PROVE  Len(x) <= Len(y) /\ Keyed(y, e.key) /\ \A i \in 1..Len(x) : y[i].key = x[i].key
    <3>1. f \in DOMAIN y /\ y[f] = e /\ Len(x) <= Len(y)
      BY <1>1, <1>3, <2>1 DEF InPlace
    <3>2. \A i \in 1..Len(x) : y[i].key = x[i].key
      BY <2>1 DEF InPlace
    <3>3. QED
      BY <3>1, <3>2 DEF Keyed
  <2>2. CASE Behind(x, e, y)
    <3>1. Len(x) + 1 \in DOMAIN y /\ y[Len(x) + 1] = e /\ Len(x) <= Len(y)
      BY <1>1, <1>2, <1>3, <2>2 DEF Behind
    <3>2. \A i \in 1..Len(x) : y[i].key = x[i].key
      BY <2>2 DEF Behind
    <3>3. QED
      BY <3>1, <3>2 DEF Keyed
  <2>3. QED
    BY <1>2, <2>1, <2>2
<1>5. Kept(b, y)
  BY <1>1, <1>2, <1>4 DEF Laid, Kept
<1>6. Named(o, k + 1, y)
  <2> SUFFICES ASSUME NEW j \in 1..(k + 1) PROVE Keyed(y, o[j].key)
    BY DEF Named
  <2>1. CASE j = k + 1
    BY <1>4, <1>7, <2>1
  <2>2. CASE j # k + 1
    <3>1. PICK i \in 1..Len(x) : x[i].key = o[j].key
      BY <1>3, <2>2 DEF Laid, Named, Keyed
    <3>2. i \in 1..Len(y)
      BY <1>1, <1>2, <1>4, <3>1
    <3>3. QED
      BY <1>3, <1>4, <3>1, <3>2 DEF Keyed
  <2>3. QED
    BY <2>1, <2>2
<1>8. FromBoth(b, o, k + 1, y)
  <2> SUFFICES ASSUME NEW p \in 1..Len(y)
               PROVE  \/ \E j \in 1..(k + 1) : y[p] = o[j]
                      \/ p <= Len(b) /\ y[p] = b[p]
    BY DEF FromBoth
  <2>1. y[p] = e \/ (p \in 1..Len(x) /\ y[p] = x[p])
    BY <1>1, <1>2 DEF InPlace, Behind
  <2>2. CASE y[p] = e
    BY <1>7, <2>2
  <2>3. CASE p \in 1..Len(x) /\ y[p] = x[p]
    <3>1. (\E j \in 1..k : x[p] = o[j]) \/ (p <= Len(b) /\ x[p] = b[p])
      BY <2>3 DEF Laid, FromBoth
    <3>2. QED
      BY <2>3, <3>1
  <2>4. QED
    BY <2>1, <2>2, <2>3
<1>9. QED
  BY <1>2, <1>5, <1>6, <1>8 DEF Laid

LEMMA LaidOneApart ==
    ASSUME NEW b \in Seq(RuleEntry), NEW o \in Seq(RuleEntry), Distinct(o),
           NEW k \in Nat, k + 1 <= Len(o),
           NEW x, Laid(b, o, k, x), LaidApart(b, o, k, x), NEW y, y = ReplaceRule(x, o[k + 1])
    PROVE  LaidApart(b, o, k + 1, y)
<1> DEFINE e == o[k + 1]
<1>1. e \in RuleEntry /\ x \in Seq(RuleEntry) /\ Len(b) \in Nat /\ Len(x) \in Nat
      /\ Len(b) <= Len(x)
  BY DEF Laid, Kept
<1>7. y = ReplaceRule(x, e) /\ o[k + 1] = e
  OBVIOUS
<1> HIDE DEF e
<1>2. y \in Seq(RuleEntry) /\ ((\E f : InPlace(x, e, y, f)) \/ Behind(x, e, y))
  BY <1>1, <1>7, Replaces
<1>3. DOMAIN x = 1..Len(x) /\ DOMAIN y = 1..Len(y) /\ DOMAIN o = 1..Len(o)
  BY <1>1, <1>2
<1>4. \A j \in 1..(k + 1) : o[j].key = e.key => j = k + 1
  BY <1>3, <1>7 DEF Distinct
<1>5. \A p, q \in 1..Len(x) : x[p].key = x[q].key => p = q
  BY <1>3 DEF LaidApart, Distinct
<1>6. \A p \in 1..Len(x), j \in 1..k : o[j].key = x[p].key => x[p] = o[j]
  BY DEF LaidApart, Newest
<1>8. ASSUME NEW f, InPlace(x, e, y, f) PROVE LaidApart(b, o, k + 1, y)
  <2>1. /\ f \in 1..Len(x) /\ x[f].key = e.key /\ Len(y) = Len(x)
        /\ \A i \in 1..Len(x) : y[i] = IF i = f THEN e ELSE x[i]
    BY <1>8 DEF InPlace
  <2>2. \A i \in 1..Len(x) : y[i].key = x[i].key
    BY <2>1
  <2>3. Distinct(y)
    BY <1>3, <1>5, <2>1, <2>2 DEF Distinct
  <2>4. Newest(o, k + 1, y)
    <3> SUFFICES ASSUME NEW p \in 1..Len(x), NEW j \in 1..(k + 1), o[j].key = y[p].key
                 PROVE  y[p] = o[j]
      BY <2>1 DEF Newest
    <3>1. CASE p = f
      BY <1>4, <1>7, <2>1, <3>1
    <3>2. CASE p # f
      <4>1. y[p] = x[p] /\ x[p].key # e.key
        BY <1>5, <2>1, <3>2
      <4>2. j \in 1..k
        BY <1>7, <4>1
      <4>3. QED
        BY <1>6, <4>1, <4>2
    <3>3. QED
      BY <3>1, <3>2
  <2>5. f <= Len(b)
    <3> SUFFICES ASSUME ~(f <= Len(b)) PROVE FALSE
      OBVIOUS
    <3>1. PICK j \in 1..k : x[f] = o[j]
      BY <2>1 DEF Laid, FromBoth
    <3>2. j = k + 1
      BY <1>4, <2>1, <3>1
    <3>3. QED
      BY <3>1, <3>2
  <2>6. Added(b, o, k + 1, y)
    <3> SUFFICES ASSUME NEW p \in (Len(b) + 1)..Len(x), NEW q \in (Len(b) + 1)..Len(x), p < q
                 PROVE  \E i, j \in 1..(k + 1) : i < j /\ y[p] = o[i] /\ y[q] = o[j]
      BY <2>1 DEF Added
    <3>1. y[p] = x[p] /\ y[q] = x[q]
      BY <1>1, <2>1, <2>5
    <3>2. PICK i, j \in 1..k : i < j /\ x[p] = o[i] /\ x[q] = o[j]
      BY DEF LaidApart, Added
    <3>3. i \in 1..(k + 1) /\ j \in 1..(k + 1)
      OBVIOUS
    <3>4. QED
      BY <3>1, <3>2, <3>3
  <2>7. QED
    BY <2>3, <2>4, <2>6 DEF LaidApart
<1>9. CASE Behind(x, e, y)
  <2>0. /\ \A i \in 1..Len(x) : x[i].key # e.key /\ y[i] = x[i]
        /\ Len(y) = Len(x) + 1 /\ y[Len(x) + 1] = e
    BY <1>9 DEF Behind
  <2>1. \A p \in 1..Len(y) : p \in 1..Len(x) \/ p = Len(x) + 1
    BY <1>1, <2>0
  <2>2. Distinct(y)
    BY SMTT(30), <1>3, <1>5, <2>0, <2>1 DEF Distinct
  <2>3. Newest(o, k + 1, y)
    <3> SUFFICES ASSUME NEW p \in 1..Len(y), NEW j \in 1..(k + 1), o[j].key = y[p].key
                 PROVE  y[p] = o[j]
      BY DEF Newest
    <3>1. CASE p = Len(x) + 1
      BY <1>4, <1>7, <2>0, <3>1
    <3>2. CASE p \in 1..Len(x)
      <4>1. y[p] = x[p] /\ x[p].key # e.key
        BY <2>0, <3>2
      <4>2. j \in 1..k
        BY <1>7, <4>1
      <4>3. QED
        BY <1>6, <3>2, <4>1, <4>2
    <3>3. QED
      BY <2>1, <3>1, <3>2
  <2>4. Added(b, o, k + 1, y)
    <3> SUFFICES ASSUME NEW p \in (Len(b) + 1)..Len(y), NEW q \in (Len(b) + 1)..Len(y), p < q
                 PROVE  \E i, j \in 1..(k + 1) : i < j /\ y[p] = o[i] /\ y[q] = o[j]
      BY DEF Added
    <3>0. Len(y) = Len(x) + 1 /\ Len(y) \in Nat
      BY <1>1, <2>0
    <3>1. p \in (Len(b) + 1)..Len(x) /\ p \in 1..Len(x) /\ y[p] = x[p]
      <4>1. p \in (Len(b) + 1)..Len(x) /\ p \in 1..Len(x)
        BY <1>1, <3>0
      <4>2. QED
        BY <2>0, <4>1
    <3>2. CASE q = Len(x) + 1
      <4>0. p \in 1..Len(x) /\ ~(p <= Len(b))
        BY <1>1, <3>1
      <4>1. PICK i \in 1..k : x[p] = o[i]
        BY <4>0 DEF Laid, FromBoth
      <4>2. i \in 1..(k + 1) /\ k + 1 \in 1..(k + 1) /\ i < k + 1
        OBVIOUS
      <4>3. QED
        BY <1>7, <2>0, <3>1, <3>2, <4>1, <4>2
    <3>3. CASE q # Len(x) + 1
      <4>1. q \in (Len(b) + 1)..Len(x) /\ y[q] = x[q]
        <5>1. q \in (Len(b) + 1)..Len(x) /\ q \in 1..Len(x)
          BY SMTT(30), <1>1, <3>0, <3>3
        <5>2. QED
          BY <2>0, <5>1
      <4>2. PICK i, j \in 1..k : i < j /\ x[p] = o[i] /\ x[q] = o[j]
        BY <3>1, <4>1 DEF LaidApart, Added
      <4>3. i \in 1..(k + 1) /\ j \in 1..(k + 1)
        OBVIOUS
      <4>4. QED
        BY <3>1, <4>1, <4>2, <4>3
    <3>4. QED
      BY <3>2, <3>3
  <2>5. QED
    BY <2>2, <2>3, <2>4 DEF LaidApart
<1>10. QED
  BY <1>2, <1>8, <1>9

LEMMA LaidOver ==
    ASSUME NEW b \in Seq(RuleEntry), NEW o \in Seq(RuleEntry),
           NEW x, x = FoldLeft(ReplaceRule, b, o)
    PROVE  /\ Laid(b, o, Len(o), x)
           /\ Distinct(b) /\ Distinct(o) => LaidApart(b, o, Len(o), x)
<1>1. PICK r : Laying(r, b, o) /\ r[Len(o)] = x
  BY LayingIs
<1>2. Len(o) \in Nat /\ r[0] = b
      /\ \A k \in Nat : k + 1 <= Len(o) => r[k + 1] = ReplaceRule(r[k], o[k + 1])
  <2>1. Len(o) \in Nat
    OBVIOUS
  <2>2. ASSUME NEW k \in Nat, k + 1 <= Len(o) PROVE r[k + 1] = ReplaceRule(r[k], o[k + 1])
    <3>1. k + 1 \in 1..Len(o) /\ (k + 1) - 1 = k
      BY <2>1, <2>2
    <3>2. r[k + 1] = ReplaceRule(r[(k + 1) - 1], o[k + 1])
      BY <1>1, <3>1 DEF Laying
    <3>3. QED
      BY <3>1, <3>2
  <2>3. QED
    BY <1>1, <2>1, <2>2 DEF Laying
<1> DEFINE Good(k) == /\ Laid(b, o, k, r[k])
                      /\ Distinct(b) /\ Distinct(o) => LaidApart(b, o, k, r[k])
           T == {k \in Nat : k <= Len(o) => Good(k)}
<1>3. 0 \in T
  BY <1>2, LaidNone
<1>4. \A k \in Nat : k \in T => k + 1 \in T
  <2> SUFFICES ASSUME NEW k \in Nat, k <= Len(o) => Good(k), k + 1 <= Len(o) PROVE Good(k + 1)
    OBVIOUS
  <2>1. Good(k) /\ r[k + 1] = ReplaceRule(r[k], o[k + 1])
    BY <1>2
  <2>2. Laid(b, o, k + 1, r[k + 1])
    BY <2>1, LaidOne
  <2>3. ASSUME Distinct(b), Distinct(o) PROVE LaidApart(b, o, k + 1, r[k + 1])
    BY <2>1, <2>3, LaidOneApart
  <2>4. QED
    BY <2>2, <2>3
<1>5. Len(o) \in T
  <2>1. Nat \subseteq T
    BY <1>3, <1>4, Induction
  <2>2. QED
    BY <1>2, <2>1
<1>6. QED
  BY <1>1, <1>2, <1>5

-----------------------------------------------------------------------------
(* Documents. *)

LEMMA MergeTyped ==
    ASSUME NEW d \in PolicyDocuments, NEW o \in PolicyDocuments
    PROVE  MergePolicyDocuments(d, o) \in PolicyDocuments
<1> DEFINE rules == FoldLeft(ReplaceRule, d.rules, o.rules)
           version == Or(o.version, Or(d.version, "1"))
           mode == Or(o.mode, d.mode)
<1>1. d.rules \in Seq(RuleEntry) /\ o.rules \in Seq(RuleEntry)
  BY DEF PolicyDocuments
<1>2. rules \in Seq(RuleEntry)
  BY <1>1, LaidOver DEF Laid
<1>3. version \in {"1", "other", None} /\ mode \in Modes \cup {"invalid", None}
  BY DEF PolicyDocuments, Or
<1>4. MergeByte(d, o) \in [ByteFlags -> {"true", "false", "invalid", None}]
  BY DEF PolicyDocuments, Or, MergeByte
<1>5. MergePolicyDocuments(d, o)
        = [version |-> version, extends |-> None, mode |-> mode, byte |-> MergeByte(d, o),
           rules |-> rules]
  BY DEF MergePolicyDocuments
<1> HIDE DEF rules, version, mode
<1>6. QED
  BY <1>2, <1>3, <1>4, <1>5 DEF PolicyDocuments

(* A document that validation accepts has a mode that is one, or none, and  *)
(* no unknown keys. *)
LEMMA AcceptedTyped ==
    ASSUME NEW d \in PolicyDocuments, ValidatePolicy(d) = {}
    PROVE  /\ Validated(d) \in PolicyDocuments /\ Validated(d).mode \in Modes
           /\ Validated(d).mode = Or(d.mode, "block")
           /\ Validated(d).byte = d.byte /\ Validated(d).rules = d.rules
           /\ \A i \in 1..Len(d.rules) : d.rules[i].key \in RuleKeys
<1>1. StructureErrors(d) = {}
  BY DEF ValidatePolicy
<1>2. d.mode # "invalid"
  BY <1>1 DEF StructureErrors, When
<1>3. d.rules \in Seq(RuleEntry) /\ DOMAIN d.rules = 1..Len(d.rules) /\ d.mode \in Modes \cup {"invalid", None}
      /\ d.version \in {"1", "other", None}
  BY DEF PolicyDocuments
<1>4. ASSUME NEW i \in 1..Len(d.rules) PROVE d.rules[i].key \in RuleKeys
  <2>1. EntryErrors(d.rules[i]) = {}
    BY <1>1, <1>3 DEF StructureErrors
  <2>2. d.rules[i].key # "unknown"
    BY <2>1 DEF EntryErrors
  <2>3. d.rules[i] \in RuleEntry
    BY <1>3
  <2>4. QED
    BY <2>2, <2>3 DEF RuleEntry
<1>5. /\ Or(d.mode, "block") \in Modes
      /\ Or(d.version, "1") \in {"1", "other", None}
  BY <1>2, <1>3 DEF Or, Modes
<1>6. Validated(d) = [version |-> Or(d.version, "1"), extends |-> d.extends,
                      mode |-> Or(d.mode, "block"), byte |-> d.byte, rules |-> d.rules]
  <2>1. d = [version |-> d.version, extends |-> d.extends, mode |-> d.mode,
             byte |-> d.byte, rules |-> d.rules]
    BY DEF PolicyDocuments
  <2>2. Validated(d) = [[d EXCEPT !.version = Or(d.version, "1")] EXCEPT !.mode = Or(d.mode, "block")]
    BY <2>1 DEF Validated
  <2>3. QED
    BY <2>1, <2>2
<1>7. Validated(d) \in PolicyDocuments
  BY <1>3, <1>5, <1>6 DEF PolicyDocuments
<1>8. QED
  BY <1>4, <1>5, <1>6, <1>7
=============================================================================
