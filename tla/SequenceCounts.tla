--------------------------- MODULE SequenceCounts ---------------------------
(***************************************************************************)
(* Induction over the naturals in a form that needs no operator parameter, *)
(* and what it is used for: that folds along a sequence and sums over a    *)
(* set are what their recursion says, and how many elements of a sequence  *)
(* are in a set.  Policies are laid over one another by a fold; the        *)
(* records of both guards are sequences that grow at their end, and the    *)
(* summaries count in them.                                                *)
(***************************************************************************)
EXTENDS Integers, Sequences, FiniteSetsExt, FiniteSetTheorems, FunctionTheorems, SequenceTheorems,
        WellFoundedInduction, TLAPS

-----------------------------------------------------------------------------
(* A set of naturals that is not empty has a least element. *)
LEMMA LeastNatural ==
    ASSUME NEW T, T \subseteq Nat, T # {}
    PROVE  \E x \in T : \A y \in T : x <= y
<1>1. PICK x \in T : \A y \in T : <<y, x>> \notin OpToRel(<, Nat)
  BY NatLessThanWellFounded, WFMin
<1>2. ASSUME NEW y \in T PROVE x <= y
  <2>1. x \in Nat /\ y \in Nat
    OBVIOUS
  <2>2. ~(y < x)
    BY <1>1, <2>1 DEF OpToRel
  <2>3. QED
    BY <2>1, <2>2
<1>3. QED
  BY <1>2

(* Induction: a set with 0 and with the successor of each natural in it. *)
LEMMA Induction ==
    ASSUME NEW T, 0 \in T, \A n \in Nat : n \in T => n + 1 \in T
    PROVE  Nat \subseteq T
<1> SUFFICES ASSUME Nat \ T # {} PROVE FALSE
  OBVIOUS
<1>1. PICK x \in Nat \ T : \A y \in Nat \ T : x <= y
  BY LeastNatural
<1>2. x - 1 \in Nat /\ x - 1 \notin Nat \ T
  BY <1>1
<1>3. QED
  BY <1>1, <1>2

(* The least of some naturals, and the greatest of some of a bounded set. *)
LEMMA MinNatural ==
    ASSUME NEW T, T \subseteq Nat, T # {}
    PROVE  Min(T) \in T /\ \A y \in T : Min(T) <= y
<1>1. \E x \in T : \A y \in T : x <= y
  BY LeastNatural
<1>2. QED
  BY <1>1 DEF Min

LEMMA MaxNatural ==
    ASSUME NEW n \in Nat, NEW S \in SUBSET (0..n), S # {}
    PROVE  Max(S) \in S /\ \A y \in S : y <= Max(S)
<1> DEFINE T == {n - y : y \in S}
<1>0. \A y \in S : y \in Nat /\ n - y \in Nat
  OBVIOUS
<1>1. T \subseteq Nat /\ T # {}
  BY <1>0, Zenon
<1>2. PICK x \in T : \A y \in T : x <= y
  BY <1>1, LeastNatural
<1>3. PICK m \in S : x = n - m
  OBVIOUS
<1>4. \A y \in S : n - y \in T
  OBVIOUS
<1>5. \A y \in S : m >= y
  BY <1>0, <1>2, <1>3, <1>4
<1>6. QED
  BY <1>5 DEF Max

-----------------------------------------------------------------------------
(* Folds along a sequence of n elements, as the community modules define    *)
(* them: over the set of its places, the greatest one last.  G applies an   *)
(* element to a value.                                                      *)
FoldStep(g, G, base, t) == IF t = {} THEN base ELSE G[<<g[t \ {Max(t)}], Max(t)>>]
Folded(g, G, base, n) == \A t \in SUBSET (1..n) : g[t] = FoldStep(g, G, base, t)

LEMMA FoldsExist ==
    ASSUME NEW A, NEW base \in A, NEW n \in Nat, NEW G \in [A \X (1..n) -> A]
    PROVE  \E g \in [SUBSET (1..n) -> A] : Folded(g, G, base, n)
<1> DEFINE Good(g, m) == \A t \in SUBSET (1..n) : t \subseteq 1..m => g[t] = FoldStep(g, G, base, t)
           T == {m \in Nat : \E g \in [SUBSET (1..n) -> A] : Good(g, m)}
<1>1. \A t \in SUBSET (1..n) : t # {} =>
          /\ Max(t) \in t /\ Max(t) \in 1..n /\ t \ {Max(t)} \in SUBSET (1..n)
          /\ \A m \in Nat : t \subseteq 1..(m + 1) => t \ {Max(t)} \subseteq 1..m
  <2> SUFFICES ASSUME NEW t \in SUBSET (1..n), t # {}
               PROVE  /\ Max(t) \in t /\ Max(t) \in 1..n
                      /\ \A m \in Nat : t \subseteq 1..(m + 1) => t \ {Max(t)} \subseteq 1..m
    OBVIOUS
  <2>1. t \in SUBSET (0..n)
    OBVIOUS
  <2>2. Max(t) \in t /\ \A y \in t : y <= Max(t)
    BY <2>1, MaxNatural
  <2>3. ASSUME NEW m \in Nat, t \subseteq 1..(m + 1) PROVE t \ {Max(t)} \subseteq 1..m
    <3> SUFFICES ASSUME NEW y \in t, y # Max(t) PROVE y \in 1..m
      OBVIOUS
    <3>1. y \in 1..(m + 1) /\ Max(t) \in 1..(m + 1) /\ y <= Max(t)
      BY <2>2, <2>3
    <3>2. QED
      BY <3>1
  <2>4. QED
    BY <2>2, <2>3
<1>2. \A g \in [SUBSET (1..n) -> A] : \A t \in SUBSET (1..n) : FoldStep(g, G, base, t) \in A
  <2> SUFFICES ASSUME NEW g \in [SUBSET (1..n) -> A], NEW t \in SUBSET (1..n)
               PROVE  FoldStep(g, G, base, t) \in A
    OBVIOUS
  <2>1. t # {} => <<g[t \ {Max(t)}], Max(t)>> \in A \X (1..n)
    BY <1>1
  <2>2. QED
    BY <2>1 DEF FoldStep
<1>3. 0 \in T
  <2> DEFINE g == [t \in SUBSET (1..n) |-> base]
  <2>1. g \in [SUBSET (1..n) -> A]
    OBVIOUS
  <2>2. \A t : t \subseteq 1..0 => t = {}
    OBVIOUS
  <2>3. \A t \in SUBSET (1..n) : t \subseteq 1..0 => g[t] = FoldStep(g, G, base, t)
    BY <2>2 DEF FoldStep
  <2>4. QED
    BY <2>1, <2>3
<1>4. \A m \in Nat : m \in T => m + 1 \in T
  <2> SUFFICES ASSUME NEW m \in Nat, NEW g \in [SUBSET (1..n) -> A], Good(g, m)
               PROVE  m + 1 \in T
    OBVIOUS
  <2> DEFINE h == [t \in SUBSET (1..n) |-> FoldStep(g, G, base, t)]
  <2>1. h \in [SUBSET (1..n) -> A]
    BY <1>2
  <2>2. ASSUME NEW t \in SUBSET (1..n), t \subseteq 1..(m + 1)
        PROVE  h[t] = FoldStep(h, G, base, t)
    <3>1. h[t] = FoldStep(g, G, base, t)
      OBVIOUS
    <3>2. ASSUME t # {} PROVE h[t \ {Max(t)}] = g[t \ {Max(t)}]
      BY <1>1, <2>2, <3>2
    <3> HIDE DEF h
    <3>3. QED
      BY <3>1, <3>2 DEF FoldStep
  <2> HIDE DEF h
  <2>3. Good(h, m + 1)
    BY <2>2
  <2>4. m + 1 \in Nat
    OBVIOUS
  <2>5. QED
    BY <2>1, <2>3, <2>4, Zenon
<1>5. n \in T
  BY <1>3, <1>4, Induction
<1>6. PICK g \in [SUBSET (1..n) -> A] : Good(g, n)
  BY <1>5
<1>7. Folded(g, G, base, n)
  BY <1>6 DEF Folded
<1>8. QED
  BY <1>7

LEMMA UpTo ==
    ASSUME NEW n \in Nat, NEW k \in 1..n
    PROVE  /\ 1..k \in SUBSET (1..n) /\ 1..k # {} /\ Max(1..k) = k
           /\ (1..k) \ {k} = 1..(k - 1) /\ k - 1 \in 0..n /\ k \in 0..n
<1>0. k \in 1..k /\ k - 1 \in 0..n /\ k \in 0..n
  OBVIOUS
<1>1. 1..k \in SUBSET (1..n) /\ 1..k \in SUBSET (0..n) /\ 1..k # {}
  BY <1>0
<1>2. (1..k) \ {k} = 1..(k - 1)
  <2>1. \A x : x \in (1..k) \ {k} <=> x \in 1..(k - 1)
    OBVIOUS
  <2>2. QED
    BY <2>1, Zenon
<1>3. Max(1..k) \in 1..k /\ \A y \in 1..k : y <= Max(1..k)
  BY <1>1, MaxNatural
<1>4. Max(1..k) = k
  BY <1>0, <1>3
<1>5. QED
  BY <1>0, <1>1, <1>2, <1>4

(* What comes of the first k elements, for each k; of all in the end.       *)
Runs(r, g, G, base, n) ==
    r[0] = base /\ r[n] = g[1..n] /\ \A k \in 1..n : r[k] = G[<<r[k - 1], k>>]

FoldedIn(A, g, G, base, n) ==
    \A t \in SUBSET (1..n) :
        t = {} \/ g[t \ {Max(t)}] \in A => g[t] = FoldStep(g, G, base, t)

LEMMA FoldRuns ==
    ASSUME NEW A, NEW base \in A, NEW n \in Nat, NEW G \in [A \X (1..n) -> A],
           NEW g, FoldedIn(A, g, G, base, n)
    PROVE  \E r \in [0..n -> A] : Runs(r, g, G, base, n)
<1> DEFINE r == [k \in 0..n |-> g[1..k]]
<1>1. r[0] = base
  <2>1. r[0] = g[1..0] /\ 1..0 = {} /\ {} \in SUBSET (1..n)
    OBVIOUS
  <2>2. QED
    BY <2>1 DEF FoldedIn, FoldStep
<1>2. ASSUME NEW k \in 1..n, r[k - 1] \in A PROVE r[k] = G[<<r[k - 1], k>>]
  <2>1. /\ 1..k \in SUBSET (1..n) /\ 1..k # {} /\ Max(1..k) = k
        /\ (1..k) \ {k} = 1..(k - 1) /\ k - 1 \in 0..n /\ k \in 0..n
    BY UpTo
  <2>2. r[k] = g[1..k] /\ r[k - 1] = g[1..(k - 1)]
    BY <2>1
  <2> HIDE DEF r
  <2>3. g[1..k] = FoldStep(g, G, base, 1..k)
    BY <1>2, <2>1, <2>2 DEF FoldedIn
  <2>4. g[1..k] = G[<<g[1..(k - 1)], k>>]
    BY <2>1, <2>3 DEF FoldStep
  <2>5. QED
    BY <2>2, <2>4
<1>3. r[n] = g[1..n]
  OBVIOUS
<1>4. DOMAIN r = 0..n /\ r = [k \in 0..n |-> r[k]]
  OBVIOUS
<1> HIDE DEF r
<1> DEFINE T == {k \in Nat : k <= n => r[k] \in A}
<1>5. 0 \in T
  BY <1>1
<1>6. \A k \in Nat : k \in T => k + 1 \in T
  <2> SUFFICES ASSUME NEW k \in Nat, k <= n => r[k] \in A, k + 1 <= n PROVE r[k + 1] \in A
    OBVIOUS
  <2>1. k + 1 \in 1..n /\ (k + 1) - 1 = k /\ r[k] \in A
    OBVIOUS
  <2>2. r[k + 1] = G[<<r[k], k + 1>>]
    BY <1>2, <2>1
  <2>3. QED
    BY <2>1, <2>2
<1>7. \A k \in 0..n : r[k] \in A
  <2>1. Nat \subseteq T
    BY <1>5, <1>6, Induction
  <2>2. QED
    BY <2>1
<1>8. r \in [0..n -> A]
  BY <1>4, <1>7
<1>9. \A k \in 1..n : r[k] = G[<<r[k - 1], k>>]
  BY <1>2, <1>7
<1>10. QED
  BY <1>1, <1>3, <1>8, <1>9 DEF Runs

-----------------------------------------------------------------------------
(* Where seq has an element of S, and how often. *)
Where(seq, S) == {i \in DOMAIN seq : seq[i] \in S}
HowMany(seq, S) == Cardinality(Where(seq, S))

LEMMA WhereFinite ==
    ASSUME NEW A, NEW seq \in Seq(A), NEW S
    PROVE  IsFiniteSet(Where(seq, S)) /\ HowMany(seq, S) \in Nat
<1>1. Where(seq, S) \in SUBSET (1 .. Len(seq)) /\ 1 \in Int /\ Len(seq) \in Int
  BY DEF Where
<1>2. IsFiniteSet(1 .. Len(seq))
  BY <1>1, FS_Interval
<1>3. IsFiniteSet(Where(seq, S))
  BY <1>1, <1>2, FS_Subset
<1>4. QED
  BY <1>3, FS_CardinalityType DEF HowMany

LEMMA CountNone ==
    ASSUME NEW A, NEW seq \in Seq(A), NEW S
    PROVE  HowMany(seq, S) = 0 <=> \A i \in DOMAIN seq : seq[i] \notin S
<1>1. HowMany(seq, S) = 0 <=> Where(seq, S) = {}
  BY WhereFinite, FS_EmptySet DEF HowMany
<1>2. QED
  BY <1>1 DEF Where

LEMMA CountEmpty == ASSUME NEW S PROVE HowMany(<<>>, S) = 0
<1>1. Where(<<>>, S) = {}
  BY DEF Where
<1>2. QED
  BY <1>1, FS_EmptySet DEF HowMany

LEMMA CountOne ==
    ASSUME NEW x, NEW S
    PROVE  HowMany(<<x>>, S) = IF x \in S THEN 1 ELSE 0
<1>1. Where(<<x>>, S) = IF x \in S THEN {1} ELSE {}
  BY DEF Where
<1>2. QED
  BY <1>1, FS_EmptySet, FS_Singleton DEF HowMany

(* The count of a concatenation is the sum of the counts. *)
LEMMA CountConcat ==
    ASSUME NEW A, NEW q \in Seq(A), NEW t \in Seq(A), NEW S
    PROVE  HowMany(q \o t, S) = HowMany(q, S) + HowMany(t, S)
<1> DEFINE moved == {i \in DOMAIN (q \o t) : i > Len(q) /\ (q \o t)[i] \in S}
           move == [i \in Where(t, S) |-> i + Len(q)]
<1>1. /\ q \o t \in Seq(A) /\ Len(q) \in Nat /\ Len(t) \in Nat
      /\ DOMAIN (q \o t) = 1 .. Len(q) + Len(t)
      /\ DOMAIN q = 1 .. Len(q) /\ DOMAIN t = 1 .. Len(t)
      /\ \A i \in 1 .. Len(q) : (q \o t)[i] = q[i]
      /\ \A i \in 1 .. Len(t) : (q \o t)[i + Len(q)] = t[i]
  OBVIOUS
<1>2. Where(q \o t, S) = Where(q, S) \cup moved /\ Where(q, S) \cap moved = {}
  BY <1>1 DEF Where
<1>3. ExistsBijection(Where(t, S), moved)
  <2>1. move \in [Where(t, S) -> moved]
    BY <1>1 DEF Where
  <2>2. \A i, j \in Where(t, S) : move[i] = move[j] => i = j
    BY <1>1 DEF Where
  <2>3. \A k \in moved : \E i \in Where(t, S) : move[i] = k
    <3> SUFFICES ASSUME NEW k \in moved PROVE k - Len(q) \in Where(t, S) /\ move[k - Len(q)] = k
      OBVIOUS
    <3>1. k \in 1 .. Len(q) + Len(t) /\ k > Len(q) /\ (q \o t)[k] \in S
      BY <1>1
    <3>2. k - Len(q) \in 1 .. Len(t) /\ (k - Len(q)) + Len(q) = k
      BY <1>1, <3>1
    <3>3. t[k - Len(q)] \in S
      BY <1>1, <3>1, <3>2
    <3>4. QED
      BY <1>1, <3>2, <3>3 DEF Where
  <2>4. QED
    BY <2>1, <2>2, <2>3, Fun_IsBij, Fun_ExistsBij
<1>4. /\ IsFiniteSet(Where(q, S)) /\ IsFiniteSet(Where(t, S))
      /\ HowMany(q, S) \in Nat /\ HowMany(t, S) \in Nat
  BY WhereFinite
<1>5. IsFiniteSet(moved) /\ Cardinality(moved) = HowMany(t, S)
  BY <1>3, <1>4, FS_Bijection DEF HowMany
<1> HIDE DEF moved
<1>6. /\ Cardinality(Where(q, S) \cup moved)
           = Cardinality(Where(q, S)) + Cardinality(moved) - Cardinality(Where(q, S) \cap moved)
      /\ Cardinality(Where(q, S) \cap moved) = 0
  BY <1>2, <1>4, <1>5, FS_Union, FS_EmptySet
<1>7. QED
  BY <1>2, <1>4, <1>5, <1>6 DEF HowMany

LEMMA CountAppend ==
    ASSUME NEW A, NEW q \in Seq(A), NEW x \in A, NEW S
    PROVE  HowMany(Append(q, x), S) = HowMany(q, S) + (IF x \in S THEN 1 ELSE 0)
<1>1. Append(q, x) = q \o <<x>> /\ <<x>> \in Seq(A)
  OBVIOUS
<1>2. HowMany(q \o <<x>>, S) = HowMany(q, S) + HowMany(<<x>>, S)
  BY <1>1, CountConcat
<1>3. QED
  BY <1>1, <1>2, CountOne
-----------------------------------------------------------------------------
(* Sums over finite sets, as the folds of the community modules define      *)
(* them: an element at a time, each chosen by AnyOf.  g has the sum of f    *)
(* over each subset of J.                                                   *)
AnyOf(s) == CHOOSE x \in s : TRUE
SumStep(g, f, s) == IF s = {} THEN 0 ELSE f[AnyOf(s)] + g[s \ {AnyOf(s)}]
Sums(g, f, J) == \A s \in SUBSET J : g[s] = SumStep(g, f, s)

LEMMA SumsExist ==
    ASSUME NEW J, IsFiniteSet(J), NEW f \in [J -> Nat]
    PROVE  \E g \in [SUBSET J -> Nat] : Sums(g, f, J)
<1> DEFINE T == {n \in Nat : \E g \in [SUBSET J -> Nat] :
                     \A s \in SUBSET J : Cardinality(s) <= n => g[s] = SumStep(g, f, s)}
<1>1. \A s \in SUBSET J : /\ IsFiniteSet(s) /\ Cardinality(s) \in Nat
                          /\ Cardinality(s) <= Cardinality(J)
                          /\ (Cardinality(s) = 0 <=> s = {})
                          /\ s # {} => /\ AnyOf(s) \in s /\ s \ {AnyOf(s)} \in SUBSET J
                                       /\ Cardinality(s \ {AnyOf(s)}) = Cardinality(s) - 1
  <2> SUFFICES ASSUME NEW s \in SUBSET J
               PROVE  /\ IsFiniteSet(s) /\ Cardinality(s) \in Nat
                      /\ Cardinality(s) <= Cardinality(J)
                      /\ (Cardinality(s) = 0 <=> s = {})
                      /\ s # {} => /\ AnyOf(s) \in s /\ s \ {AnyOf(s)} \in SUBSET J
                                   /\ Cardinality(s \ {AnyOf(s)}) = Cardinality(s) - 1
    OBVIOUS
  <2>1. IsFiniteSet(s) /\ Cardinality(s) <= Cardinality(J)
    BY FS_Subset
  <2>2. Cardinality(s) \in Nat
    BY <2>1, FS_CardinalityType
  <2>3. Cardinality(s) = 0 <=> s = {}
    BY <2>1, FS_EmptySet
  <2>4. s # {} => AnyOf(s) \in s
    BY DEF AnyOf
  <2>5. s # {} => Cardinality(s \ {AnyOf(s)}) = Cardinality(s) - 1
    BY <2>1, <2>4, FS_RemoveElement
  <2>6. QED
    BY <2>1, <2>2, <2>3, <2>4, <2>5
<1>2. 0 \in T
  <2> DEFINE g == [s \in SUBSET J |-> 0]
  <2>1. g \in [SUBSET J -> Nat]
    OBVIOUS
  <2>2. ASSUME NEW s \in SUBSET J, Cardinality(s) <= 0 PROVE g[s] = SumStep(g, f, s)
    <3>1. s = {}
      <4>1. Cardinality(s) \in Nat /\ (Cardinality(s) = 0 <=> s = {})
        BY <1>1
      <4>2. QED
        BY <2>2, <4>1
    <3>2. QED
      BY <3>1 DEF SumStep
  <2>3. QED
    BY <2>1, <2>2
<1>3. \A n \in Nat : n \in T => n + 1 \in T
  <2> SUFFICES ASSUME NEW n \in Nat, NEW g \in [SUBSET J -> Nat],
                      \A s \in SUBSET J : Cardinality(s) <= n => g[s] = SumStep(g, f, s)
               PROVE  n + 1 \in T
    OBVIOUS
  <2> DEFINE h == [s \in SUBSET J |-> SumStep(g, f, s)]
  <2>1. h \in [SUBSET J -> Nat]
    <3> SUFFICES ASSUME NEW s \in SUBSET J PROVE SumStep(g, f, s) \in Nat
      OBVIOUS
    <3>1. s # {} => f[AnyOf(s)] \in Nat /\ g[s \ {AnyOf(s)}] \in Nat
      BY <1>1
    <3>2. QED
      BY <3>1 DEF SumStep
  <2>2. ASSUME NEW s \in SUBSET J, Cardinality(s) <= n + 1 PROVE h[s] = SumStep(h, f, s)
    <3>1. CASE s = {}
      BY <3>1 DEF SumStep
    <3>2. CASE s # {}
      <4>1. /\ s \ {AnyOf(s)} \in SUBSET J
            /\ Cardinality(s \ {AnyOf(s)}) <= n
        BY <1>1, <2>2, <3>2
      <4>2. h[s \ {AnyOf(s)}] = g[s \ {AnyOf(s)}]
        BY <4>1
      <4>3. h[s] = f[AnyOf(s)] + g[s \ {AnyOf(s)}]
        BY <3>2 DEF SumStep
      <4>4. QED
        BY <3>2, <4>2, <4>3 DEF SumStep
    <3>3. QED
      BY <3>1, <3>2
  <2> HIDE DEF h
  <2>3. QED
    BY <2>1, <2>2
<1>4. Cardinality(J) \in T
  <2>1. Nat \subseteq T
    BY <1>2, <1>3, Induction
  <2>2. Cardinality(J) \in Nat
    BY FS_CardinalityType
  <2>3. QED
    BY <2>1, <2>2
<1>5. PICK g \in [SUBSET J -> Nat] :
          \A s \in SUBSET J : Cardinality(s) <= Cardinality(J) => g[s] = SumStep(g, f, s)
  BY <1>4
<1>6. \A s \in SUBSET J : g[s] = SumStep(g, f, s)
  BY <1>1, <1>5
<1>7. QED
  BY <1>6 DEF Sums

(* A sum depends on nothing but what f is there. *)
LEMMA SumsAgree ==
    ASSUME NEW J, IsFiniteSet(J), NEW f, NEW g, Sums(g, f, J),
           NEW K, IsFiniteSet(K), NEW e, NEW h, Sums(h, e, K),
           NEW s, s \subseteq J, s \subseteq K, \A x \in s : f[x] = e[x]
    PROVE  g[s] = h[s]
<1> DEFINE T == {n \in Nat : \A u \in SUBSET s : Cardinality(u) = n => g[u] = h[u]}
<1>1. \A u \in SUBSET s : IsFiniteSet(u) /\ Cardinality(u) \in Nat
  BY FS_Subset, FS_CardinalityType
<1>2. \A u \in SUBSET s : g[u] = SumStep(g, f, u) /\ h[u] = SumStep(h, e, u)
  BY DEF Sums
<1>3. 0 \in T
  <2>1. \A u \in SUBSET s : Cardinality(u) = 0 => u = {}
    BY <1>1, FS_EmptySet
  <2>2. QED
    BY <1>2, <2>1 DEF SumStep
<1>4. \A n \in Nat : n \in T => n + 1 \in T
  <2> SUFFICES ASSUME NEW n \in Nat, n \in T, NEW u \in SUBSET s, Cardinality(u) = n + 1
               PROVE  g[u] = h[u]
    OBVIOUS
  <2>1. u # {}
    BY <1>1, FS_EmptySet
  <2>2. AnyOf(u) \in u
    BY <2>1 DEF AnyOf
  <2>3. Cardinality(u \ {AnyOf(u)}) = n
    BY <1>1, <2>2, FS_RemoveElement
  <2>4. g[u \ {AnyOf(u)}] = h[u \ {AnyOf(u)}]
    BY <2>3
  <2>5. QED
    BY <1>2, <2>1, <2>2, <2>4 DEF SumStep
<1>5. Nat \subseteq T
  BY <1>3, <1>4, Induction
<1>6. Cardinality(s) \in T
  BY <1>1, <1>5
<1>7. QED
  BY <1>6

LEMMA SumsTyped ==
    ASSUME NEW J, IsFiniteSet(J), NEW f \in [J -> Nat], NEW g, Sums(g, f, J), NEW s \in SUBSET J
    PROVE  g[s] \in Nat
<1>1. PICK h \in [SUBSET J -> Nat] : Sums(h, f, J)
  BY SumsExist
<1>2. g[s] = h[s]
  BY <1>1, SumsAgree
<1>3. QED
  BY <1>1, <1>2

(* The sum does not depend on the order in which elements are chosen. *)
LEMMA SumsSplit ==
    ASSUME NEW J, IsFiniteSet(J), NEW f \in [J -> Nat], NEW g, Sums(g, f, J),
           NEW s \in SUBSET J, NEW x \in s
    PROVE  g[s] = f[x] + g[s \ {x}]
<1> DEFINE T == {n \in Nat : \A u \in SUBSET J : Cardinality(u) = n =>
                     \A y \in u : g[u] = f[y] + g[u \ {y}]}
<1>1. \A u \in SUBSET J : /\ IsFiniteSet(u) /\ Cardinality(u) \in Nat
                          /\ g[u] \in Nat /\ g[u] = SumStep(g, f, u)
                          /\ \A y \in u : /\ u \ {y} \in SUBSET J /\ f[y] \in Nat
                                          /\ Cardinality(u \ {y}) = Cardinality(u) - 1
  <2> SUFFICES ASSUME NEW u \in SUBSET J
               PROVE  /\ IsFiniteSet(u) /\ Cardinality(u) \in Nat
                      /\ \A y \in u : Cardinality(u \ {y}) = Cardinality(u) - 1
    BY SumsTyped DEF Sums
  <2>1. IsFiniteSet(u)
    BY FS_Subset
  <2>2. QED
    BY <2>1, FS_CardinalityType, FS_RemoveElement
<1>2. 0 \in T
  <2>1. \A u \in SUBSET J : Cardinality(u) = 0 => u = {}
    BY <1>1, FS_EmptySet
  <2>2. QED
    BY <2>1
<1>3. \A n \in Nat : n \in T => n + 1 \in T
  <2> SUFFICES ASSUME NEW n \in Nat, n \in T PROVE n + 1 \in T
    OBVIOUS
  <2>1. ASSUME NEW u \in SUBSET J, Cardinality(u) = n + 1, NEW y \in u
        PROVE  g[u] = f[y] + g[u \ {y}]
    <3> DEFINE z == AnyOf(u)
    <3>1. z \in u /\ g[u] = f[z] + g[u \ {z}]
      BY <1>1, <2>1 DEF SumStep, AnyOf
    <3> HIDE DEF z
    <3>2. CASE z = y
      BY <3>1, <3>2
    <3>3. CASE z # y
      <4>1. /\ u \ {z} \in SUBSET J /\ u \ {y} \in SUBSET J
            /\ Cardinality(u \ {z}) = n /\ Cardinality(u \ {y}) = n
            /\ y \in u \ {z} /\ z \in u \ {y}
        BY SMTT(30), <1>1, <2>1, <3>1, <3>3
      <4>2. /\ g[u \ {z}] = f[y] + g[(u \ {z}) \ {y}]
            /\ g[u \ {y}] = f[z] + g[(u \ {y}) \ {z}]
        BY <4>1
      <4>3. (u \ {z}) \ {y} = (u \ {y}) \ {z}
        OBVIOUS
      <4>4. g[(u \ {y}) \ {z}] \in Nat /\ f[y] \in Nat /\ f[z] \in Nat
        BY <1>1, <2>1, <3>1, <4>1
      <4> HIDE DEF T
      <4>5. g[u] = f[z] + (f[y] + g[(u \ {y}) \ {z}])
        BY <3>1, <4>2, <4>3
      <4>6. QED
        BY <4>2, <4>4, <4>5
    <3>4. QED
      BY <3>2, <3>3
  <2>2. QED
    BY <2>1
<1>4. Cardinality(s) \in T
  <2>1. Nat \subseteq T
    BY <1>2, <1>3, Induction
  <2>2. QED
    BY <1>1, <2>1
<1>5. QED
  BY <1>4
=============================================================================
