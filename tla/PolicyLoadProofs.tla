--------------------------- MODULE PolicyLoadProofs ---------------------------
(***************************************************************************)
(* How far extends are followed, and what the documents on the way come to *)
(* when they are laid over one another, for any number of files, any       *)
(* contents and any limit.                                                 *)
(***************************************************************************)
EXTENDS PolicyLoad, PolicyDocumentProofs

(* While extends are followed, each call that waits has added one of them   *)
(* to the chain and one document to the layers.                             *)
Counted ==
    /\ files \in FileSystems /\ options \in Options
    /\ doc \in PolicyDocuments \/ phase \notin {"open", "resolve"}
    /\ dir \in Dirs
    /\ layers \in Seq(PolicyDocuments) /\ chain \in Seq(Refs) /\ depth \in Nat
    /\ phase = "open" => layers = <<>> /\ chain = <<>> /\ depth = 0
    /\ phase # "open" => Len(layers) = Len(chain) + 1
    /\ phase = "resolve" => depth = Len(chain) /\ depth <= MAX_EXTENDS_DEPTH + 1
    /\ phase \notin {"open", "resolve", "failed"} => Len(chain) <= MAX_EXTENDS_DEPTH
    /\ errors = {"E006"} => phase = "failed" /\ Len(chain) = MAX_EXTENDS_DEPTH + 1

LEMMA CountedInit == ASSUME Init PROVE Counted
<1>1. /\ files \in FileSystems /\ FileSystems \subseteq [Files -> PolicyDocuments]
      /\ Root \in Files /\ DirOf \in [Files -> Dirs] /\ MAX_EXTENDS_DEPTH \in Nat
  BY PolicyAssumption DEF Init, PolicyAssumption
<1>2. doc \in PolicyDocuments /\ dir \in Dirs
  BY <1>1 DEF Init
<1>3. QED
  BY <1>1, <1>2 DEF Init, Counted

(* What is read is a policy document. *)
LEMMA ReadTyped ==
    ASSUME Counted
    PROVE  /\ \A file \in Files : files[file] \in PolicyDocuments /\ DirOf[file] \in Dirs
           /\ \A p \in DOMAIN Profiles : Profiles[p] \in PolicyDocuments
           /\ \A ref \in Refs : Target[<<dir, ref>>] \in Files \cup {None}
           /\ MAX_EXTENDS_DEPTH \in Nat
  BY PolicyAssumption DEF Counted, PolicyAssumption

LEMMA CountedFail ==
    ASSUME Counted, NEW codes, Fail(codes),
           phase # "open",
           codes = {"E006"} => Len(chain) = MAX_EXTENDS_DEPTH + 1
    PROVE  Counted'
  BY DEF Counted, Fail, inputs

(* Validation has codes of its own. *)
LEMMA ValidationCodes ==
    ASSUME NEW code \in {"E005", "E006"}, NEW d
    PROVE  code \notin ValidatePolicy(d)
<1>1. \A entry : code \notin EntryErrors(entry)
  BY DEF EntryErrors, When
<1>2. code \notin StructureErrors(d)
  BY <1>1 DEF StructureErrors, When
<1>3. code \notin ConflictErrors(d)
  BY DEF ConflictErrors, When
<1>4. QED
  BY <1>2, <1>3 DEF ValidatePolicy

LEMMA CountedFollow ==
    ASSUME Counted, Follow
    PROVE  Counted'
<1>1. /\ phase = "resolve" /\ depth <= MAX_EXTENDS_DEPTH /\ doc \in PolicyDocuments
      /\ Len(layers) = Len(chain) + 1 /\ depth = Len(chain)
      /\ layers \in Seq(PolicyDocuments) /\ chain \in Seq(Refs)
  BY DEF Counted, Follow, Resolving
<1>2. doc.extends \in Refs
  BY <1>1 DEF Follow, PolicyDocuments
<1>3. doc' \in PolicyDocuments /\ dir' \in Dirs
  <2>1. CASE doc.extends \in DOMAIN Profiles
    BY <2>1, ReadTyped DEF Follow, Counted
  <2>2. CASE doc.extends \notin DOMAIN Profiles
    <3>1. Target[<<dir, doc.extends>>] \in Files
      BY <1>2, <2>2, ReadTyped DEF Follow, Found
    <3>2. QED
      BY <2>2, <3>1, ReadTyped DEF Follow
  <2>3. QED
    BY <2>1, <2>2
<1>4. /\ layers' = Append(layers, doc') /\ chain' = Append(chain, doc.extends)
      /\ depth' = depth + 1 /\ phase' = phase /\ errors' = errors
      /\ files' = files /\ options' = options
  BY DEF Follow, inputs
<1>5. /\ layers' \in Seq(PolicyDocuments) /\ chain' \in Seq(Refs)
      /\ Len(layers') = Len(chain') + 1 /\ Len(chain') = Len(chain) + 1
  BY <1>1, <1>2, <1>3, <1>4
<1>6. depth' = Len(chain') /\ depth' <= MAX_EXTENDS_DEPTH + 1 /\ depth' \in Nat
  BY <1>1, <1>4, <1>5, ReadTyped DEF Counted
<1>7. QED
  BY <1>1, <1>3, <1>4, <1>5, <1>6 DEF Counted

LEMMA CountedStep == ASSUME Counted, [Next]_vars PROVE Counted'
<1>1. CASE Open
  <2>1. /\ layers' = <<doc>> /\ chain' = <<>> /\ doc \in PolicyDocuments /\ depth' = 0
        /\ errors' = errors /\ MAX_EXTENDS_DEPTH \in Nat
    BY <1>1, ReadTyped DEF Open, Counted
  <2>2. layers' \in Seq(PolicyDocuments) /\ Len(layers') = Len(chain') + 1 /\ Len(chain') = 0
    BY <2>1
  <2>3. QED
    BY <1>1, <2>1, <2>2 DEF Open, Counted, inputs
<1>2. CASE TooDeep
  <2>1. Len(chain) = MAX_EXTENDS_DEPTH + 1
    BY <1>2, ReadTyped DEF TooDeep, Counted
  <2>2. QED
    BY <1>2, <2>1, CountedFail DEF TooDeep
<1>3. CASE Base
  BY <1>3 DEF Base, Resolving, Counted, inputs
<1>4. CASE Cycle
  BY <1>4, CountedFail DEF Cycle, Resolving
<1>5. CASE Missing
  BY <1>5, CountedFail DEF Missing, Resolving
<1>6. CASE Follow
  BY <1>6, CountedFollow
<1>7. CASE Merge
  BY <1>7 DEF Merge, Counted, inputs
<1>8. CASE Resolved
  BY <1>8 DEF Resolved, Counted, inputs
<1>9. CASE Reject
  <2>1. ValidatePolicy(doc) # {"E006"}
    BY ValidationCodes
  <2>2. QED
    BY <1>9, <2>1, CountedFail DEF Reject
<1>10. CASE Accept
  BY <1>10 DEF Accept, Counted, inputs
<1>11. CASE Compile
  BY <1>11 DEF Compile, Counted, inputs
<1>12. CASE NoMatcher
  BY <1>12, CountedFail DEF NoMatcher
<1>13. CASE UNCHANGED vars
  BY <1>13 DEF vars, Counted, inputs
<1>14. QED
  BY <1>1, <1>2, <1>3, <1>4, <1>5, <1>6, <1>7, <1>8, <1>9, <1>10, <1>11, <1>12, <1>13
     DEF Next, ResolveExtends

-----------------------------------------------------------------------------
(* Where loading is on a walk that runs into a circle. *)
On(k, w) ==
    \/ phase = "open" /\ doc = files[w[0]] /\ dir = DirOf[w[0]]
    \/ /\ phase = "resolve" /\ depth <= k
       /\ doc = files[w[depth]] /\ dir = DirOf[w[depth]]
       /\ \A i \in 1..depth : chain[i] = files[w[i - 1]].extends
    \/ phase = "failed" /\ errors = {"E005"}

Circular(k, w) == w \in Walks(k) /\ \E m \in 0..(k - 1) : w[m] = w[k]

OnCircles ==
    ~options.noExtends =>
        \A k \in 1..MAX_EXTENDS_DEPTH : \A w : Circular(k, w) => On(k, w)

(* The walk of a circle never stops, and ends in what was followed before. *)
LEMMA WalkGoesOn ==
    ASSUME Counted, NEW k \in 1..MAX_EXTENDS_DEPTH, NEW w, Circular(k, w),
           phase = "resolve", On(k, w)
    PROVE  /\ doc.extends # None
           /\ depth = k => Followed(doc.extends)
           /\ depth < k => /\ doc.extends \notin DOMAIN Profiles
                          /\ Target[<<dir, doc.extends>>] = w[depth + 1]
                          /\ w[depth + 1] \in Files
<1>1. /\ depth \in 0..k /\ doc = files[w[depth]] /\ dir = DirOf[w[depth]]
      /\ \A i \in 1..depth : chain[i] = files[w[i - 1]].extends
      /\ depth = Len(chain) /\ chain \in Seq(Refs) /\ k \in Nat
  BY ReadTyped DEF On, Counted
<1>2. w \in [0..k -> Files]
  BY DEF Circular, Walks
<1>3. \A j \in 0..(k - 1) :
          /\ files[w[j]].extends # None /\ files[w[j]].extends \notin DOMAIN Profiles
          /\ Target[<<DirOf[w[j]], files[w[j]].extends>>] = w[j + 1]
  <2> SUFFICES ASSUME NEW j \in 0..(k - 1)
               PROVE  /\ files[w[j]].extends # None
                      /\ files[w[j]].extends \notin DOMAIN Profiles
                      /\ Target[<<DirOf[w[j]], files[w[j]].extends>>] = w[j + 1]
    OBVIOUS
  <2>1. j + 1 \in 1..k /\ (j + 1) - 1 = j
    BY <1>1
  <2>2. \A i \in 1..k : LET ref == files[w[i - 1]].extends
                       IN  /\ ref # None /\ ref \notin DOMAIN Profiles
                           /\ Target[<<DirOf[w[i - 1]], ref>>] = w[i]
    BY DEF Circular, Walks
  <2>3. QED
    BY <2>1, <2>2
<1>4. PICK m \in 0..(k - 1) : w[m] = w[k]
  BY DEF Circular
<1>5. CASE depth = k
  <2>1. doc.extends = files[w[m]].extends /\ m + 1 \in 1..depth /\ (m + 1) - 1 = m
    BY <1>1, <1>4, <1>5
  <2>2. chain[m + 1] = doc.extends /\ m + 1 \in DOMAIN chain
    BY <1>1, <2>1
  <2>3. doc.extends # None
    BY <1>3, <2>1
  <2>4. Followed(doc.extends)
    BY <2>2 DEF Followed
  <2>5. QED
    BY <1>5, <2>3, <2>4
<1>6. CASE depth < k
  <2>1. depth \in 0..(k - 1) /\ depth + 1 \in 0..k
    BY <1>1, <1>6
  <2>2. QED
    BY <1>1, <1>2, <1>3, <1>6, <2>1
<1>7. QED
  BY <1>1, <1>5, <1>6

LEMMA OnCirclesInit == ASSUME Init PROVE OnCircles
  BY DEF Init, OnCircles, Circular, Walks, On

LEMMA OnCirclesStep == ASSUME Counted, OnCircles, [Next]_vars PROVE OnCircles'
<1>1. files' = files /\ options' = options
  BY DEF Next, ResolveExtends, Open, TooDeep, Base, Cycle, Missing, Follow, Merge, Resolved,
         Reject, Accept, Compile, NoMatcher, Fail, vars, inputs
<1> SUFFICES ASSUME ~options.noExtends, NEW k \in 1..MAX_EXTENDS_DEPTH, NEW w, Circular(k, w)
             PROVE  On(k, w)'
  <2>1. \A k, w : Circular(k, w)' <=> Circular(k, w)
    BY <1>1 DEF Circular, Walks
  <2>2. QED
    BY <1>1, <2>1 DEF OnCircles
<1>2. On(k, w) /\ MAX_EXTENDS_DEPTH \in Nat /\ k \in Nat /\ k >= 1
  BY ReadTyped DEF OnCircles
<1>3. CASE phase = "open"
  <2>1. CASE Open
    <3>1. doc = files[w[0]] /\ dir = DirOf[w[0]] /\ depth = 0
      BY <1>2, <1>3 DEF On, Counted
    <3>2. doc.extends # None
      <4>1. 1 \in 1..k /\ 1 - 1 = 0
        BY <1>2
      <4>2. files[w[1 - 1]].extends # None
        BY <4>1 DEF Circular, Walks
      <4>3. QED
        BY <3>1, <4>1, <4>2
    <3>3. /\ phase' = "resolve" /\ doc' = doc /\ dir' = dir /\ depth' = depth
      BY <2>1, <3>2 DEF Open
    <3>4. QED
      BY <1>1, <1>2, <3>1, <3>3 DEF On
  <2>2. CASE UNCHANGED vars
    BY <1>1, <1>2, <2>2 DEF On, vars
  <2>3. QED
    BY <1>3, <2>1, <2>2
       DEF Next, ResolveExtends, TooDeep, Base, Cycle, Missing, Follow, Merge, Resolved,
           Reject, Accept, Compile, NoMatcher, Resolving
<1>4. CASE phase = "resolve"
  <2>1. /\ doc.extends # None
        /\ depth = k => Followed(doc.extends)
        /\ depth < k => /\ doc.extends \notin DOMAIN Profiles
                       /\ Target[<<dir, doc.extends>>] = w[depth + 1]
                       /\ w[depth + 1] \in Files
    BY <1>2, <1>4, WalkGoesOn
  <2>2. /\ depth \in Nat /\ depth <= k /\ depth = Len(chain) /\ chain \in Seq(Refs)
        /\ \A i \in 1..depth : chain[i] = files[w[i - 1]].extends
        /\ doc = files[w[depth]] /\ doc \in PolicyDocuments
    BY <1>2, <1>4 DEF On, Counted
  <2>3. ~TooDeep /\ ~Base
    BY <1>2, <2>1, <2>2 DEF TooDeep, Base
  <2>4. CASE Cycle
    BY <2>4 DEF Cycle, Fail, On
  <2>5. ~Missing
    <3>1. \A file \in Files : file # None
      BY PolicyAssumption DEF PolicyAssumption
    <3>2. CASE depth = k
      BY <2>1, <3>2 DEF Missing
    <3>3. CASE depth < k
      BY <2>1, <3>1, <3>3 DEF Missing, Found
    <3>4. QED
      BY <1>2, <2>2, <3>2, <3>3
  <2>6. CASE Follow
    <3>1. depth < k
      BY <2>1, <2>2, <2>6 DEF Follow
    <3>2. /\ doc' = files[w[depth + 1]] /\ dir' = DirOf[w[depth + 1]]
          /\ depth' = depth + 1 /\ phase' = "resolve" /\ chain' = Append(chain, doc.extends)
      BY <1>4, <2>1, <2>6, <3>1 DEF Follow
    <3>3. doc.extends \in Refs
      BY <2>1, <2>2 DEF PolicyDocuments
    <3>4. \A i \in 1..(depth + 1) : chain'[i] = files[w[i - 1]].extends
      <4> SUFFICES ASSUME NEW i \in 1..(depth + 1) PROVE chain'[i] = files[w[i - 1]].extends
        OBVIOUS
      <4>1. CASE i \in 1..depth
        BY <2>2, <3>2, <3>3, <4>1
      <4>2. CASE i = depth + 1
        <5>1. chain'[i] = doc.extends /\ i - 1 = depth
          BY <2>2, <3>2, <3>3, <4>2
        <5>2. QED
          BY <2>2, <5>1
      <4>3. QED
        BY <2>2, <4>1, <4>2
    <3>5. depth' <= k
      BY <1>2, <2>2, <3>1, <3>2
    <3>6. QED
      BY <1>1, <3>2, <3>4, <3>5 DEF On
  <2>7. CASE UNCHANGED vars
    BY <1>1, <1>2, <2>7 DEF On, vars
  <2>8. QED
    BY <1>4, <2>3, <2>4, <2>5, <2>6, <2>7
       DEF Next, ResolveExtends, Open, Merge, Resolved, Reject, Accept, Compile, NoMatcher
<1>5. CASE phase = "failed" /\ errors = {"E005"}
  <2>1. UNCHANGED vars
    BY <1>5
       DEF Next, ResolveExtends, Open, TooDeep, Base, Cycle, Missing, Follow, Merge, Resolved,
           Reject, Accept, Compile, NoMatcher, Resolving
  <2>2. QED
    BY <1>5, <2>1 DEF On, vars
<1>6. QED
  BY <1>2, <1>3, <1>4, <1>5 DEF On

-----------------------------------------------------------------------------
(* The invariant of both results. *)
THEOREM Invariance == Spec => [](Counted /\ OnCircles)
<1>1. Init => Counted /\ OnCircles
  BY CountedInit, OnCirclesInit
<1>2. Counted /\ OnCircles /\ [Next]_vars => (Counted /\ OnCircles)'
  BY CountedStep, OnCirclesStep
<1>3. QED
  BY <1>1, <1>2, PTL DEF Spec

(* resolveExtends follows as many extends as MAX_EXTENDS_DEPTH says, and    *)
(* refuses a chain as too deep only when it has one more.                   *)
THEOREM DepthCorrect == Spec => []DepthExact
<1>1. Counted => DepthExact
  BY ReadTyped DEF Counted, DepthExact
<1>2. QED
  BY <1>1, Invariance, PTL

(* Whatever the directories and however many files: a circle of extends     *)
(* that closes within MAX_EXTENDS_DEPTH ends loadPolicy with E005.          *)
THEOREM CycleCorrect == Spec => []CycleCaught
<1>1. Counted /\ OnCircles => CycleCaught
  <2> SUFFICES ASSUME Counted, OnCircles, Ended, ~options.noExtends,
                      Circle(MAX_EXTENDS_DEPTH)
               PROVE  errors = {"E005"}
    BY DEF CycleCaught
  <2>1. PICK k \in 1..MAX_EXTENDS_DEPTH : \E w : Circular(k, w)
    BY DEF Circle, Circular
  <2>2. PICK w : Circular(k, w)
    BY <2>1
  <2>3. On(k, w)
    BY <2>2 DEF OnCircles
  <2>4. QED
    BY <2>3 DEF On, Ended
<1>2. QED
  BY <1>1, Invariance, PTL

-----------------------------------------------------------------------------
(* What the documents ls[n + 1], ..., the last one laid down first, have    *)
(* come to.                                                                 *)

(* A value: that of the nearest document that has one. *)
NearestValue(v, fs, n, len) ==
    \/ v = None /\ \A i \in (n + 1)..len : fs[i] = None
    \/ v # None /\ \E i \in (n + 1)..len : fs[i] = v /\ \A h \in (n + 1)..(i - 1) : fs[h] = None

LEMMA NearestFirst ==
    ASSUME NEW len \in Nat \ {0}, NEW fs
    PROVE  NearestValue(fs[len], fs, len - 1, len)
<1>1. \A i \in ((len - 1) + 1)..len : i = len
  OBVIOUS
<1>2. len \in ((len - 1) + 1)..len /\ ((len - 1) + 1)..(len - 1) = {}
  OBVIOUS
<1>3. QED
  BY <1>1, <1>2 DEF NearestValue

LEMMA NearestOver ==
    ASSUME NEW len \in Nat, NEW n \in 1..len, NEW fs, NEW v, NearestValue(v, fs, n, len)
    PROVE  NearestValue(Or(fs[n], v), fs, n - 1, len)
<1>1. (n - 1) + 1 = n /\ n \in n..len /\ n..(n - 1) = {}
  OBVIOUS
<1>2. CASE fs[n] # None
  BY <1>1, <1>2 DEF NearestValue, Or
<1>3. CASE fs[n] = None
  <2>1. Or(fs[n], v) = v
    BY <1>3 DEF Or
  <2>2. CASE v = None
    <3>1. \A i \in n..len : fs[i] = None
      BY <1>3, <2>2 DEF NearestValue
    <3>2. QED
      BY <1>1, <2>1, <2>2, <3>1 DEF NearestValue
  <2>3. CASE v # None
    <3>1. PICK i \in (n + 1)..len : fs[i] = v /\ \A h \in (n + 1)..(i - 1) : fs[h] = None
      BY <2>3 DEF NearestValue
    <3>2. i \in n..len /\ \A h \in n..(i - 1) : fs[h] = None
      BY <1>3, <3>1
    <3>3. QED
      BY <1>1, <2>1, <2>3, <3>1, <3>2 DEF NearestValue
  <2>4. QED
    BY <2>2, <2>3
<1>4. QED
  BY <1>2, <1>3

(* The first place of a key, seen from the document laid down first. *)
RootPlace(ls, key, i, j) ==
    /\ i \in 1..Len(ls) /\ j \in 1..Len(ls[i].rules) /\ ls[i].rules[j].key = key
    /\ \A h \in (i + 1)..Len(ls) : ~HasRule(ls[h], key)

AllApart(ls) == \A i \in 1..Len(ls) : Distinct(ls[i].rules)

LEMMA RootPlaceOne ==
    ASSUME NEW ls \in Seq(PolicyDocuments), AllApart(ls), NEW key,
           NEW i, NEW j, RootPlace(ls, key, i, j), NEW g, NEW h, RootPlace(ls, key, g, h)
    PROVE  g = i /\ h = j
<1>1. /\ Len(ls) \in Nat /\ i \in 1..Len(ls) /\ g \in 1..Len(ls)
      /\ ls[i] \in PolicyDocuments /\ ls[g] \in PolicyDocuments
  BY DEF RootPlace
<1>2. j \in DOMAIN ls[i].rules /\ h \in DOMAIN ls[g].rules
  BY <1>1 DEF RootPlace, PolicyDocuments
<1>3. HasRule(ls[i], key) /\ HasRule(ls[g], key)
  BY <1>2 DEF RootPlace, HasRule
<1>4. i = g
  BY <1>1, <1>3 DEF RootPlace
<1>5. QED
  BY <1>1, <1>2, <1>4 DEF RootPlace, AllApart, Distinct

(* The rules: all of the documents', each from the nearest one, in the      *)
(* order of their first places.                                             *)
Everything(rules, ls, n) ==
    \A i \in (n + 1)..Len(ls) : \A j \in 1..Len(ls[i].rules) :
        Keyed(rules, ls[i].rules[j].key)
FromNearest(rules, ls, n) ==
    \A p \in 1..Len(rules) : \E i \in (n + 1)..Len(ls) : \E j \in 1..Len(ls[i].rules) :
        /\ rules[p] = ls[i].rules[j]
        /\ \A h \in (n + 1)..(i - 1) : ~HasRule(ls[h], rules[p].key)
Placed(rules, ls, n) ==
    \A p \in 1..Len(rules) : \E i, j : i > n /\ RootPlace(ls, rules[p].key, i, j)
InOrder(rules, ls) ==
    \A p, q \in 1..Len(rules) : p < q =>
        \A i, j, g, h : RootPlace(ls, rules[p].key, i, j) /\ RootPlace(ls, rules[q].key, g, h) =>
            i > g \/ (i = g /\ j < h)
Overlaid(rules, ls, n) ==
    /\ Distinct(rules) /\ Everything(rules, ls, n) /\ FromNearest(rules, ls, n)
    /\ Placed(rules, ls, n) /\ InOrder(rules, ls)

LEMMA OverlaidFirst ==
    ASSUME NEW ls \in Seq(PolicyDocuments), Len(ls) # 0, AllApart(ls)
    PROVE  Overlaid(ls[Len(ls)].rules, ls, Len(ls) - 1)
<1> DEFINE n == Len(ls)
           rules == ls[n].rules
<1>1. n \in Nat /\ n \in 1..n /\ ls[n] \in PolicyDocuments /\ n = Len(ls)
  OBVIOUS
<1>2. rules \in Seq(RuleEntry) /\ Distinct(rules) /\ DOMAIN rules = 1..Len(rules)
  BY <1>1 DEF PolicyDocuments, AllApart
<1>3. /\ \A i \in ((n - 1) + 1)..n : i = n
      /\ n \in ((n - 1) + 1)..n /\ ((n - 1) + 1)..(n - 1) = {} /\ (n + 1)..n = {}
      /\ n > n - 1
  BY <1>1
<1>4. ls[n].rules = rules
  OBVIOUS
<1> HIDE DEF n, rules
<1>5. Everything(rules, ls, n - 1)
  BY <1>1, <1>2, <1>3, <1>4 DEF Everything, Keyed
<1>6. FromNearest(rules, ls, n - 1)
  BY <1>1, <1>3, <1>4 DEF FromNearest
<1>7. \A p \in 1..Len(rules) : RootPlace(ls, rules[p].key, n, p)
  BY <1>1, <1>3, <1>4 DEF RootPlace
<1>8. Placed(rules, ls, n - 1)
  BY <1>3, <1>7 DEF Placed
<1>9. InOrder(rules, ls)
  <2> SUFFICES ASSUME NEW p \in 1..Len(rules), NEW q \in 1..Len(rules), p < q, NEW i, NEW j, NEW g, NEW h,
                      RootPlace(ls, rules[p].key, i, j), RootPlace(ls, rules[q].key, g, h)
               PROVE  i > g \/ (i = g /\ j < h)
    BY DEF InOrder
  <2>1. i = n /\ j = p /\ g = n /\ h = q
    BY <1>7, RootPlaceOne
  <2>2. QED
    BY <2>1
<1>10. QED
  BY <1>2, <1>5, <1>6, <1>8, <1>9 DEF Overlaid, n, rules

LEMMA OverlaidOver ==
    ASSUME NEW ls \in Seq(PolicyDocuments), AllApart(ls), NEW n \in 1..Len(ls),
           NEW b \in Seq(RuleEntry), Overlaid(b, ls, n),
           NEW x, x = FoldLeft(ReplaceRule, b, ls[n].rules)
    PROVE  Overlaid(x, ls, n - 1)
<1> DEFINE o == ls[n].rules
           k == Len(o)
<1>1. Len(ls) \in Nat /\ ls[n] \in PolicyDocuments /\ n \in Nat
  OBVIOUS
<1>2. o \in Seq(RuleEntry) /\ Distinct(o) /\ DOMAIN o = 1..k /\ k \in Nat
  BY <1>1 DEF PolicyDocuments, AllApart
<1>3. ls[n].rules = o /\ k = Len(o)
  OBVIOUS
<1> HIDE DEF o, k
<1>4. Laid(b, o, k, x) /\ LaidApart(b, o, k, x)
  BY <1>2, <1>3, LaidOver DEF Overlaid
<1>5. /\ x \in Seq(RuleEntry) /\ DOMAIN x = 1..Len(x) /\ DOMAIN b = 1..Len(b)
      /\ Len(b) \in Nat /\ Len(x) \in Nat /\ Len(b) <= Len(x)
      /\ \A p \in 1..Len(b) : p \in 1..Len(x) /\ x[p].key = b[p].key
  BY <1>4 DEF Laid, Kept
<1>6. \A key : HasRule(ls[n], key) <=> \E j \in 1..k : o[j].key = key
  BY <1>2, <1>3 DEF HasRule
<1>7. (n - 1) + 1 = n /\ n \in n..Len(ls) /\ n..(n - 1) = {}
      /\ \A i \in n..Len(ls) : i = n \/ i \in (n + 1)..Len(ls)
  BY <1>1
<1>8. ASSUME NEW i \in (n + 1)..Len(ls), NEW key, HasRule(ls[i], key)
      PROVE  \E p \in 1..Len(b) : b[p].key = key
  <2>1. ls[i] \in PolicyDocuments
    BY <1>1
  <2>2. PICK j \in 1..Len(ls[i].rules) : ls[i].rules[j].key = key
    BY <1>8, <2>1 DEF HasRule, PolicyDocuments
  <2>3. Keyed(b, key)
    BY <2>2 DEF Overlaid, Everything
  <2>4. QED
    BY <1>5, <2>3 DEF Keyed
<1>9. Everything(x, ls, n - 1)
  <2> SUFFICES ASSUME NEW i \in n..Len(ls), NEW j \in 1..Len(ls[i].rules)
               PROVE  Keyed(x, ls[i].rules[j].key)
    BY <1>7 DEF Everything
  <2>1. CASE i = n
    BY <1>3, <1>4, <2>1 DEF Laid, Named
  <2>2. CASE i # n
    <3>1. i \in (n + 1)..Len(ls)
      BY <1>7, <2>2
    <3>2. Keyed(b, ls[i].rules[j].key)
      BY <3>1 DEF Overlaid, Everything
    <3>3. QED
      BY <1>5, <3>2 DEF Keyed
  <2>3. QED
    BY <2>1, <2>2
<1>10. FromNearest(x, ls, n - 1)
  <2> SUFFICES ASSUME NEW p \in 1..Len(x)
               PROVE  \E i \in n..Len(ls) : \E j \in 1..Len(ls[i].rules) :
                          /\ x[p] = ls[i].rules[j]
                          /\ \A h \in n..(i - 1) : ~HasRule(ls[h], x[p].key)
    BY <1>7 DEF FromNearest
  <2>1. CASE \E j \in 1..k : x[p] = o[j]
    BY <1>3, <1>7, <2>1
  <2>2. CASE ~\E j \in 1..k : x[p] = o[j]
    <3>1. p \in 1..Len(b) /\ x[p] = b[p]
      BY <1>4, <1>5, <2>2 DEF Laid, FromBoth
    <3>2. ~HasRule(ls[n], x[p].key)
      BY <1>4, <1>6, <2>2 DEF LaidApart, Newest
    <3>3. PICK i \in (n + 1)..Len(ls) : \E j \in 1..Len(ls[i].rules) :
              /\ b[p] = ls[i].rules[j]
              /\ \A h \in (n + 1)..(i - 1) : ~HasRule(ls[h], b[p].key)
      BY <3>1 DEF Overlaid, FromNearest
    <3>4. i \in n..Len(ls) /\ \A h \in n..(i - 1) : h = n \/ h \in (n + 1)..(i - 1)
      BY <1>1
    <3>5. QED
      BY <3>1, <3>2, <3>3, <3>4
  <2>3. QED
    BY <2>1, <2>2
<1>11. ASSUME NEW p \in 1..Len(b) PROVE \E i, j : i > n /\ RootPlace(ls, x[p].key, i, j)
  BY <1>5 DEF Overlaid, Placed
<1>12. ASSUME NEW p \in (Len(b) + 1)..Len(x), NEW j \in 1..k, x[p] = o[j]
       PROVE  RootPlace(ls, x[p].key, n, j)
  <2>1. \A q \in 1..Len(b) : b[q].key # x[p].key
    <3> SUFFICES ASSUME NEW q \in 1..Len(b), b[q].key = x[p].key PROVE FALSE
      OBVIOUS
    <3>1. q \in 1..Len(x) /\ p \in 1..Len(x) /\ q # p /\ x[q].key = x[p].key
      BY <1>5
    <3>2. QED
      BY <1>4, <1>5, <3>1 DEF LaidApart, Distinct
  <2>2. \A h \in (n + 1)..Len(ls) : ~HasRule(ls[h], x[p].key)
    BY <1>8, <2>1
  <2>3. QED
    BY <1>1, <1>3, <1>12, <2>2 DEF RootPlace
<1>13. ASSUME NEW p \in (Len(b) + 1)..Len(x) PROVE \E j \in 1..k : x[p] = o[j]
  <2>1. p \in 1..Len(x) /\ ~(p <= Len(b))
    BY <1>5
  <2>2. QED
    BY <1>4, <2>1 DEF Laid, FromBoth
<1>14. \A p \in 1..Len(x) : p \in 1..Len(b) \/ p \in (Len(b) + 1)..Len(x)
  BY <1>5
<1>15. Placed(x, ls, n - 1)
  <2> SUFFICES ASSUME NEW p \in 1..Len(x)
               PROVE  \E i, j : i > n - 1 /\ RootPlace(ls, x[p].key, i, j)
    BY DEF Placed
  <2>1. CASE p \in 1..Len(b)
    <3>1. PICK i, j : i > n /\ RootPlace(ls, x[p].key, i, j)
      BY <1>11, <2>1
    <3>2. i > n - 1
      BY <1>1, <3>1 DEF RootPlace
    <3>3. QED
      BY <3>1, <3>2
  <2>2. CASE p \in (Len(b) + 1)..Len(x)
    <3>1. PICK j \in 1..k : RootPlace(ls, x[p].key, n, j)
      BY <1>12, <1>13, <2>2
    <3>2. n > n - 1
      BY <1>1
    <3>3. QED
      BY <3>1, <3>2
  <2>3. QED
    BY <1>14, <2>1, <2>2
<1>16. InOrder(x, ls)
  <2> SUFFICES ASSUME NEW p \in 1..Len(x), NEW q \in 1..Len(x), p < q, NEW i, NEW j, NEW g, NEW h,
                      RootPlace(ls, x[p].key, i, j), RootPlace(ls, x[q].key, g, h)
               PROVE  i > g \/ (i = g /\ j < h)
    BY DEF InOrder
  <2>1. CASE q \in 1..Len(b)
    <3>1. p \in 1..Len(b)
      BY <1>5, <2>1
    <3>2. x[p].key = b[p].key /\ x[q].key = b[q].key
      BY <1>5, <2>1, <3>1
    <3>3. QED
      BY <2>1, <3>1, <3>2 DEF Overlaid, InOrder
  <2>2. CASE q \in (Len(b) + 1)..Len(x)
    <3>1. CASE p \in 1..Len(b)
      <4>1. PICK y, z : y > n /\ RootPlace(ls, x[p].key, y, z)
        BY <1>11, <3>1
      <4>2. PICK u \in 1..k : RootPlace(ls, x[q].key, n, u)
        BY <1>12, <1>13, <2>2
      <4>3. i = y /\ g = n
        BY <4>1, <4>2, RootPlaceOne
      <4>4. QED
        BY <4>1, <4>3
    <3>2. CASE p \in (Len(b) + 1)..Len(x)
      <4>1. PICK u, v \in 1..k : u < v /\ x[p] = o[u] /\ x[q] = o[v]
        BY <1>4, <2>2, <3>2 DEF LaidApart, Added
      <4>2. RootPlace(ls, x[p].key, n, u) /\ RootPlace(ls, x[q].key, n, v)
        BY <1>12, <2>2, <3>2, <4>1
      <4>3. i = n /\ j = u /\ g = n /\ h = v
        BY <4>2, RootPlaceOne
      <4>4. QED
        BY <4>1, <4>3
    <3>3. QED
      BY <1>14, <3>1, <3>2
  <2>3. QED
    BY <1>14, <2>1, <2>2
<1>17. QED
  BY <1>4, <1>9, <1>10, <1>15, <1>16 DEF Overlaid, LaidApart

-----------------------------------------------------------------------------
(* A document as a whole. *)
ModesOf(ls) == [i \in 1..Len(ls) |-> ls[i].mode]
FlagsOf(ls, flag) == [i \in 1..Len(ls) |-> ls[i].byte[flag]]

Overlay(d, ls, n) ==
    /\ NearestValue(d.mode, ModesOf(ls), n, Len(ls))
    /\ \A flag \in ByteFlags : NearestValue(d.byte[flag], FlagsOf(ls, flag), n, Len(ls))
    /\ AllApart(ls) => Overlaid(d.rules, ls, n)

LEMMA OverlayFirst ==
    ASSUME NEW ls \in Seq(PolicyDocuments), Len(ls) # 0,
           NEW d, d.mode = ls[Len(ls)].mode, d.byte = ls[Len(ls)].byte, d.rules = ls[Len(ls)].rules
    PROVE  Overlay(d, ls, Len(ls) - 1)
<1>1. Len(ls) \in Nat \ {0} /\ Len(ls) \in 1..Len(ls)
  OBVIOUS
<1>2. NearestValue(d.mode, ModesOf(ls), Len(ls) - 1, Len(ls))
  <2>1. ModesOf(ls)[Len(ls)] = d.mode
    BY <1>1 DEF ModesOf
  <2>2. NearestValue(ModesOf(ls)[Len(ls)], ModesOf(ls), Len(ls) - 1, Len(ls))
    BY <1>1, NearestFirst
  <2>3. QED
    BY <2>1, <2>2
<1>3. ASSUME NEW flag \in ByteFlags
      PROVE  NearestValue(d.byte[flag], FlagsOf(ls, flag), Len(ls) - 1, Len(ls))
  <2>1. FlagsOf(ls, flag)[Len(ls)] = d.byte[flag]
    BY <1>1 DEF FlagsOf
  <2>2. NearestValue(FlagsOf(ls, flag)[Len(ls)], FlagsOf(ls, flag), Len(ls) - 1, Len(ls))
    BY <1>1, NearestFirst
  <2>3. QED
    BY <2>1, <2>2
<1>4. AllApart(ls) => Overlaid(d.rules, ls, Len(ls) - 1)
  BY OverlaidFirst
<1>5. QED
  BY <1>2, <1>3, <1>4 DEF Overlay

LEMMA OverlayOver ==
    ASSUME NEW ls \in Seq(PolicyDocuments), NEW n \in 1..Len(ls), NEW d \in PolicyDocuments,
           Overlay(d, ls, n), NEW e, e = MergePolicyDocuments(d, ls[n])
    PROVE  Overlay(e, ls, n - 1)
<1>1. Len(ls) \in Nat /\ d.rules \in Seq(RuleEntry)
  BY DEF PolicyDocuments
<1>2. /\ e.mode = Or(ls[n].mode, d.mode)
      /\ \A flag \in ByteFlags : e.byte[flag] = Or(ls[n].byte[flag], d.byte[flag])
      /\ e.rules = FoldLeft(ReplaceRule, d.rules, ls[n].rules)
  BY DEF MergePolicyDocuments, MergeByte
<1>3. NearestValue(e.mode, ModesOf(ls), n - 1, Len(ls))
  <2>1. ModesOf(ls)[n] = ls[n].mode
    BY DEF ModesOf
  <2>2. NearestValue(Or(ModesOf(ls)[n], d.mode), ModesOf(ls), n - 1, Len(ls))
    BY <1>1, NearestOver DEF Overlay
  <2>3. QED
    BY <1>2, <2>1, <2>2
<1>4. ASSUME NEW flag \in ByteFlags
      PROVE  NearestValue(e.byte[flag], FlagsOf(ls, flag), n - 1, Len(ls))
  <2>1. FlagsOf(ls, flag)[n] = ls[n].byte[flag]
    BY DEF FlagsOf
  <2>2. NearestValue(Or(FlagsOf(ls, flag)[n], d.byte[flag]), FlagsOf(ls, flag), n - 1, Len(ls))
    BY <1>1, NearestOver DEF Overlay
  <2>3. QED
    BY <1>2, <2>1, <2>2
<1>5. ASSUME AllApart(ls) PROVE Overlaid(e.rules, ls, n - 1)
  <2>1. Overlaid(d.rules, ls, n)
    BY <1>5 DEF Overlay
  <2>2. QED
    BY <1>1, <1>2, <1>5, <2>1, OverlaidOver
<1>6. QED
  BY <1>3, <1>4, <1>5 DEF Overlay

-----------------------------------------------------------------------------
(* What has been loaded, by phase. *)
Sound(d, ls) ==
    \E e \in PolicyDocuments : Overlay(e, ls, 0) /\ ValidatePolicy(e) = {} /\ d = Validated(e)

Layered ==
    /\ doc \in PolicyDocuments /\ depth \in 0..(MAX_EXTENDS_DEPTH + 1)
    /\ phase \in {"open", "resolve", "merge", "validate", "compile", "loaded", "failed"}
    /\ phase = "resolve" => doc = layers[Len(layers)]
    /\ phase = "merge" => depth <= Len(chain) /\ Overlay(doc, layers, depth)
    /\ phase = "validate" => Overlay(doc, layers, 0)
    /\ phase \in {"compile", "loaded"} => Sound(doc, layers)
    /\ phase = "loaded" =>
          policy = CompilePolicy(doc, ApplyModeOverride(doc.mode, options.env, options.mode))

LEMMA LayeredInit == ASSUME Init, Counted PROVE Layered
<1>1. MAX_EXTENDS_DEPTH \in Nat
  BY PolicyAssumption DEF PolicyAssumption
<1>2. QED
  BY <1>1 DEF Init, Counted, Layered

LEMMA LayeredFail == ASSUME Layered, NEW codes, Fail(codes) PROVE Layered'
  BY DEF Layered, Fail

LEMMA LayeredStep == ASSUME Counted, Counted', Layered, [Next]_vars PROVE Layered'
<1>0. MAX_EXTENDS_DEPTH \in Nat
  BY PolicyAssumption DEF PolicyAssumption
<1>1. CASE Open
  <2>1. doc' = doc /\ depth' = depth /\ layers' = <<doc>> /\ doc \in PolicyDocuments
    BY <1>1 DEF Open, Layered
  <2>2. layers' \in Seq(PolicyDocuments) /\ Len(layers') = 1 /\ layers'[1] = doc
    BY <2>1
  <2>3. Overlay(doc, layers', 0)
    <3>1. /\ Len(layers') # 0 /\ doc.mode = layers'[Len(layers')].mode
          /\ doc.byte = layers'[Len(layers')].byte /\ doc.rules = layers'[Len(layers')].rules
      BY <2>2
    <3>2. Overlay(doc, layers', Len(layers') - 1)
      BY <2>2, <3>1, OverlayFirst
    <3>3. QED
      BY <2>2, <3>2
  <2>4. phase' \in {"validate", "resolve"}
    BY <1>1 DEF Open
  <2>5. QED
    BY <2>1, <2>2, <2>3, <2>4 DEF Layered
<1>2. CASE TooDeep
  BY <1>2, LayeredFail DEF TooDeep
<1>3. CASE Base
  <2>1. /\ doc' = [doc EXCEPT !.version = Or(@, "1")] /\ phase' = "merge"
        /\ layers' = layers /\ chain' = chain /\ depth' = depth /\ phase = "resolve"
    BY <1>3 DEF Base, Resolving
  <2>2. /\ layers \in Seq(PolicyDocuments) /\ Len(layers) = Len(chain) + 1 /\ depth = Len(chain)
        /\ chain \in Seq(Refs) /\ doc = layers[Len(layers)] /\ doc \in PolicyDocuments
    BY <2>1 DEF Counted, Layered
  <2>3. doc' \in PolicyDocuments /\ doc'.mode = doc.mode /\ doc'.byte = doc.byte
        /\ doc'.rules = doc.rules
    BY <2>1, <2>2 DEF PolicyDocuments, Or
  <2>4. Overlay(doc', layers, Len(layers) - 1)
    BY <2>2, <2>3, OverlayFirst
  <2>5. Len(layers) - 1 = depth /\ depth <= Len(chain)
    BY <2>2
  <2>6. QED
    BY <2>1, <2>3, <2>4, <2>5 DEF Layered
<1>4. CASE Cycle
  BY <1>4, LayeredFail DEF Cycle
<1>5. CASE Missing
  BY <1>5, LayeredFail DEF Missing
<1>6. CASE Follow
  <2>1. layers' = Append(layers, doc') /\ phase' = "resolve" /\ phase = "resolve"
    BY <1>6 DEF Follow, Resolving
  <2>2. doc' \in PolicyDocuments /\ layers \in Seq(PolicyDocuments)
        /\ depth' \in Nat /\ depth' <= MAX_EXTENDS_DEPTH + 1
    BY <2>1 DEF Counted
  <2>3. doc' = layers'[Len(layers')]
    BY <2>1, <2>2
  <2>4. QED
    BY <1>0, <2>1, <2>2, <2>3 DEF Layered
<1>7. CASE Merge
  <2>1. /\ doc' = MergePolicyDocuments(doc, layers[depth]) /\ depth' = depth - 1
        /\ layers' = layers /\ chain' = chain /\ phase = "merge" /\ phase' = "merge" /\ depth > 0
    BY <1>7 DEF Merge
  <2>2. /\ layers \in Seq(PolicyDocuments) /\ Len(layers) = Len(chain) + 1 /\ depth \in Nat
        /\ chain \in Seq(Refs) /\ doc \in PolicyDocuments /\ depth <= Len(chain)
        /\ Overlay(doc, layers, depth) /\ depth \in 0..(MAX_EXTENDS_DEPTH + 1)
    BY <2>1 DEF Counted, Layered
  <2>3. depth \in 1..Len(layers) /\ layers[depth] \in PolicyDocuments
    BY <2>1, <2>2
  <2>4. doc' \in PolicyDocuments
    BY <2>1, <2>2, <2>3, MergeTyped
  <2>5. Overlay(doc', layers, depth - 1)
    BY <2>1, <2>2, <2>3, OverlayOver
  <2>6. depth - 1 \in 0..(MAX_EXTENDS_DEPTH + 1) /\ depth - 1 <= Len(chain)
    BY <1>0, <2>1, <2>2
  <2>7. QED
    BY <2>1, <2>4, <2>5, <2>6 DEF Layered
<1>8. CASE Resolved
  BY <1>8 DEF Resolved, Layered
<1>9. CASE Reject
  BY <1>9, LayeredFail DEF Reject
<1>10. CASE Accept
  <2>1. /\ doc' = Validated(doc) /\ phase' = "compile" /\ phase = "validate"
        /\ depth' = depth /\ layers' = layers /\ ValidatePolicy(doc) = {}
    BY <1>10 DEF Accept
  <2>2. doc \in PolicyDocuments /\ Overlay(doc, layers, 0)
    BY <2>1 DEF Layered
  <2>3. doc' \in PolicyDocuments
    BY <2>1, <2>2, AcceptedTyped
  <2>4. Sound(doc', layers')
    BY <2>1, <2>2 DEF Sound
  <2>5. QED
    BY <2>1, <2>3, <2>4 DEF Layered
<1>11. CASE Compile
  BY <1>11 DEF Compile, Layered, inputs
<1>12. CASE NoMatcher
  BY <1>12, LayeredFail DEF NoMatcher
<1>13. CASE UNCHANGED vars
  BY <1>13 DEF vars, inputs, Layered
<1>14. QED
  BY <1>1, <1>2, <1>3, <1>4, <1>5, <1>6, <1>7, <1>8, <1>9, <1>10, <1>11, <1>12, <1>13
     DEF Next, ResolveExtends

(* Once resolveExtends has followed a chain, the rules, the mode and the    *)
(* flags are those of its documents laid over each other, from the root to  *)
(* the file that was asked for.                                             *)
THEOREM LayersLaid == Spec => [](Counted /\ Layered)
<1>1. Init => Counted /\ Layered
  BY CountedInit, LayeredInit
<1>2. Counted /\ Layered /\ [Next]_vars => (Counted /\ Layered)'
  BY CountedStep, LayeredStep
<1>3. QED
  BY <1>1, <1>2, PTL DEF Spec

LEMMA OptionsTyped ==
    ASSUME Counted
    PROVE  options.mode \in Modes \cup {None} /\ options.env \in Modes \cup {None}
  BY PolicyAssumption DEF Counted, PolicyAssumption

LEMMA LayeredTyped == ASSUME Counted, Layered PROVE TypeOK
<1>1. files \in [Files -> PolicyDocuments] /\ options \in Options /\ MAX_EXTENDS_DEPTH \in Nat
  BY PolicyAssumption DEF Counted, PolicyAssumption
<1>2. /\ phase \in {"resolve", "merge"} => depth <= Len(chain) /\ Len(layers) = Len(chain) + 1
      /\ phase = "resolve" => depth = Len(chain)
  <2>1. Len(chain) \in Nat
    BY DEF Counted
  <2>2. QED
    BY <2>1 DEF Counted, Layered
<1>3. ASSUME phase = "loaded"
      PROVE  /\ policy.mode \in Modes
             /\ \A i \in DOMAIN policy.rules : policy.rules[i].key \in RuleKeys
  <2>1. PICK e \in PolicyDocuments : ValidatePolicy(e) = {} /\ doc = Validated(e)
    BY <1>3 DEF Layered, Sound
  <2>2. doc.mode \in Modes /\ doc.rules = e.rules
        /\ \A i \in 1..Len(e.rules) : e.rules[i].key \in RuleKeys
    BY <2>1, AcceptedTyped
  <2>3. /\ policy.mode = ApplyModeOverride(doc.mode, options.env, options.mode)
        /\ policy.rules = doc.rules
    BY <1>3 DEF Layered, CompilePolicy
  <2>4. policy.mode \in Modes
    BY <2>2, <2>3, OptionsTyped DEF ApplyModeOverride, Or
  <2>5. DOMAIN e.rules = 1..Len(e.rules)
    BY <2>1 DEF PolicyDocuments
  <2>6. QED
    BY <2>2, <2>3, <2>4, <2>5
<1>4. QED
  BY <1>1, <1>2, <1>3 DEF TypeOK, Counted, Layered

(* Types: of every file system, of any number of files, only documents are  *)
(* read, and only rules of known keys are compiled, in a mode that is one.  *)
THEOREM TypeCorrect == Spec => []TypeOK
<1>1. Counted /\ Layered => TypeOK
  BY LayeredTyped
<1>2. QED
  BY <1>1, LayersLaid, PTL

-----------------------------------------------------------------------------
(* The mode and the flags. *)

LEMMA NearestMode ==
    ASSUME NEW i \in DOMAIN layers, layers[i].mode # None, layers \in Seq(PolicyDocuments),
           \A h \in 1..(i - 1) : layers[h].mode = None
    PROVE  Nearest(LAMBDA layer : layer.mode # None) = i
<1>1. Nearest(LAMBDA layer : layer.mode # None) = CHOOSE c \in DOMAIN layers :
          layers[c].mode # None /\ \A h \in 1..(c - 1) : ~(layers[h].mode # None)
  BY DEF Nearest
<1>2. \A c \in DOMAIN layers :
          layers[c].mode # None /\ (\A h \in 1..(c - 1) : ~(layers[h].mode # None)) => c = i
  OBVIOUS
<1>3. QED
  BY <1>1, <1>2

LEMMA NearestFlag ==
    ASSUME NEW flag, NEW i \in DOMAIN layers, layers[i].byte[flag] # None,
           layers \in Seq(PolicyDocuments), \A h \in 1..(i - 1) : layers[h].byte[flag] = None
    PROVE  Nearest(LAMBDA layer : layer.byte[flag] # None) = i
<1>1. Nearest(LAMBDA layer : layer.byte[flag] # None) = CHOOSE c \in DOMAIN layers :
          layers[c].byte[flag] # None /\ \A h \in 1..(c - 1) : ~(layers[h].byte[flag] # None)
  BY DEF Nearest
<1>2. \A c \in DOMAIN layers :
          layers[c].byte[flag] # None
          /\ (\A h \in 1..(c - 1) : ~(layers[h].byte[flag] # None)) => c = i
  OBVIOUS
<1>3. QED
  BY <1>1, <1>2

(* The mode of the files, and whether they turn a flag on. *)
FromFiles ==
    IF \E i \in DOMAIN layers : layers[i].mode # None
      THEN layers[Nearest(LAMBDA layer : layer.mode # None)].mode ELSE "block"
TurnedOn(flag) ==
    /\ \E i \in DOMAIN layers : layers[i].byte[flag] # None
    /\ layers[Nearest(LAMBDA layer : layer.byte[flag] # None)].byte[flag] = "true"

LEMMA FilesMode ==
    ASSUME layers \in Seq(PolicyDocuments), NEW v,
           NearestValue(v, ModesOf(layers), 0, Len(layers))
    PROVE  FromFiles = Or(v, "block")
<1>1. /\ Len(layers) \in Nat /\ DOMAIN layers = 1..Len(layers)
      /\ \A i \in 1..Len(layers) : ModesOf(layers)[i] = layers[i].mode
  BY DEF ModesOf
<1>2. CASE v = None
  <2>1. \A i \in DOMAIN layers : layers[i].mode = None
    BY <1>1, <1>2 DEF NearestValue
  <2>2. QED
    BY <1>2, <2>1 DEF FromFiles, Or
<1>3. CASE v # None
  <2>1. PICK i \in 1..Len(layers) : layers[i].mode = v /\ \A h \in 1..(i - 1) : ModesOf(layers)[h] = None
    BY <1>1, <1>3 DEF NearestValue
  <2>2. \A h \in 1..(i - 1) : layers[h].mode = None
    BY <1>1, <2>1
  <2>3. Nearest(LAMBDA layer : layer.mode # None) = i
    BY <1>1, <1>3, <2>1, <2>2, NearestMode
  <2>4. QED
    BY <1>1, <1>3, <2>1, <2>3 DEF FromFiles, Or
<1>4. QED
  BY <1>2, <1>3

LEMMA FilesFlag ==
    ASSUME layers \in Seq(PolicyDocuments), NEW flag, NEW v,
           NearestValue(v, FlagsOf(layers, flag), 0, Len(layers)), None # "true"
    PROVE  TurnedOn(flag) <=> v = "true"
<1>1. /\ Len(layers) \in Nat /\ DOMAIN layers = 1..Len(layers)
      /\ \A i \in 1..Len(layers) : FlagsOf(layers, flag)[i] = layers[i].byte[flag]
  BY DEF FlagsOf
<1>2. CASE v = None
  <2>1. \A i \in DOMAIN layers : layers[i].byte[flag] = None
    BY <1>1, <1>2 DEF NearestValue
  <2>2. QED
    BY <1>2, <2>1 DEF TurnedOn
<1>3. CASE v # None
  <2>1. PICK i \in 1..Len(layers) :
            layers[i].byte[flag] = v /\ \A h \in 1..(i - 1) : FlagsOf(layers, flag)[h] = None
    BY <1>1, <1>3 DEF NearestValue
  <2>2. \A h \in 1..(i - 1) : layers[h].byte[flag] = None
    BY <1>1, <2>1
  <2>3. Nearest(LAMBDA layer : layer.byte[flag] # None) = i
    BY <1>1, <1>3, <2>1, <2>2, NearestFlag
  <2>4. QED
    BY <1>1, <1>3, <2>1, <2>3 DEF TurnedOn
<1>4. QED
  BY <1>2, <1>3

LEMMA NoneApart == None # "true"
  BY PolicyAssumption DEF PolicyAssumption

LEMMA LayeredPrecedence == ASSUME Counted, Layered PROVE Precedence
<1> SUFFICES ASSUME phase = "loaded"
             PROVE  /\ policy.mode = IF options.env # None THEN options.env
                                     ELSE IF options.mode # None THEN options.mode ELSE FromFiles
                    /\ policy.byteOptions = {flag \in ByteFlags : TurnedOn(flag)}
  BY DEF Precedence, FromFiles, TurnedOn
<1>1. layers \in Seq(PolicyDocuments)
  BY DEF Counted
<1>2. PICK e \in PolicyDocuments : /\ Overlay(e, layers, 0) /\ ValidatePolicy(e) = {}
                                  /\ doc = Validated(e)
  BY DEF Layered, Sound
<1>3. doc.mode = Or(e.mode, "block") /\ doc.byte = e.byte
  BY <1>2, AcceptedTyped
<1>4. /\ policy.mode = Or(options.env, Or(options.mode, doc.mode))
      /\ policy.byteOptions = {flag \in ByteFlags : doc.byte[flag] = "true"}
  BY DEF Layered, CompilePolicy, ApplyModeOverride
<1>5. FromFiles = doc.mode
  BY <1>1, <1>2, <1>3, FilesMode DEF Overlay
<1>6. \A flag \in ByteFlags : TurnedOn(flag) <=> doc.byte[flag] = "true"
  BY <1>1, <1>2, <1>3, FilesFlag, NoneApart DEF Overlay
<1>7. QED
  BY <1>4, <1>5, <1>6 DEF Or

(* The mode is that of the environment, else of the option, else of the     *)
(* nearest document that has one, and the flags are those that the nearest  *)
(* document which has them turns on: however many documents there are.      *)
THEOREM PrecedenceCorrect == Spec => []Precedence
<1>1. Counted /\ Layered => Precedence
  BY LayeredPrecedence
<1>2. QED
  BY <1>1, LayersLaid, PTL

-----------------------------------------------------------------------------
(* The rules. *)

LEMMA NearestRule ==
    ASSUME NEW key, NEW i \in DOMAIN layers, HasRule(layers[i], key),
           layers \in Seq(PolicyDocuments), \A h \in 1..(i - 1) : ~HasRule(layers[h], key)
    PROVE  Nearest(LAMBDA layer : HasRule(layer, key)) = i
<1>1. Nearest(LAMBDA layer : HasRule(layer, key)) = CHOOSE c \in DOMAIN layers :
          HasRule(layers[c], key) /\ \A h \in 1..(c - 1) : ~HasRule(layers[h], key)
  BY DEF Nearest
<1>2. \A c \in DOMAIN layers :
          HasRule(layers[c], key) /\ (\A h \in 1..(c - 1) : ~HasRule(layers[h], key)) => c = i
  OBVIOUS
<1>3. QED
  BY <1>1, <1>2

LEMMA FurthestRule ==
    ASSUME NEW key, NEW i, NEW j, RootPlace(layers, key, i, j),
           layers \in Seq(PolicyDocuments)
    PROVE  Furthest(LAMBDA layer : HasRule(layer, key)) = i
<1>1. Furthest(LAMBDA layer : HasRule(layer, key)) = CHOOSE c \in DOMAIN layers :
          HasRule(layers[c], key) /\ \A h \in (c + 1)..Len(layers) : ~HasRule(layers[h], key)
  BY DEF Furthest
<1>2. /\ i \in DOMAIN layers /\ layers[i] \in PolicyDocuments /\ j \in 1..Len(layers[i].rules)
      /\ layers[i].rules[j].key = key
      /\ \A h \in (i + 1)..Len(layers) : ~HasRule(layers[h], key)
  BY DEF RootPlace
<1>3. HasRule(layers[i], key)
  BY <1>2 DEF HasRule, PolicyDocuments
<1>4. \A c \in DOMAIN layers :
          HasRule(layers[c], key) /\ (\A h \in (c + 1)..Len(layers) : ~HasRule(layers[h], key))
              => c = i
  BY <1>2, <1>3
<1>5. QED
  BY <1>1, <1>2, <1>3, <1>4

LEMMA PlaceOfRule ==
    ASSUME NEW d \in PolicyDocuments, Distinct(d.rules), NEW j \in 1..Len(d.rules)
    PROVE  PlaceIn(d, d.rules[j].key) = j
<1>1. DOMAIN d.rules = 1..Len(d.rules)
  BY DEF PolicyDocuments
<1>2. QED
  BY <1>1 DEF PlaceIn, Distinct

PlaceOf(key) ==
    LET i == Furthest(LAMBDA layer : HasRule(layer, key))
    IN  <<Len(layers) - i, PlaceIn(layers[i], key)>>
Version(key) ==
    LET layer == layers[Nearest(LAMBDA l : HasRule(l, key))]
    IN  layer.rules[PlaceIn(layer, key)]

LEMMA PlaceOfKey ==
    ASSUME NEW key, NEW i, NEW j, RootPlace(layers, key, i, j),
           layers \in Seq(PolicyDocuments), AllApart(layers)
    PROVE  PlaceOf(key) = <<Len(layers) - i, j>>
<1>1. Furthest(LAMBDA layer : HasRule(layer, key)) = i
  BY FurthestRule
<1>2. /\ layers[i] \in PolicyDocuments /\ Distinct(layers[i].rules)
      /\ j \in 1..Len(layers[i].rules) /\ layers[i].rules[j].key = key
  BY DEF RootPlace, AllApart
<1>3. PlaceIn(layers[i], key) = j
  BY <1>2, PlaceOfRule
<1>4. QED
  BY <1>1, <1>3, Zenon DEF PlaceOf

LEMMA LayeredInherited == ASSUME Counted, Layered PROVE Inherited
<1> SUFFICES ASSUME phase = "loaded", \A i \in DOMAIN layers : Distinct(layers[i].rules)
             PROVE  /\ \A i \in DOMAIN layers : \A j \in DOMAIN layers[i].rules :
                           HasRule(policy, layers[i].rules[j].key)
                    /\ \A n \in DOMAIN policy.rules :
                           policy.rules[n] = Version(policy.rules[n].key)
                    /\ \A m, n \in DOMAIN policy.rules : m < n =>
                           LET p == PlaceOf(policy.rules[m].key)
                               q == PlaceOf(policy.rules[n].key)
                           IN  p[1] < q[1] \/ (p[1] = q[1] /\ p[2] < q[2])
  BY Zenon DEF Inherited, PlaceOf, Version
<1>1. layers \in Seq(PolicyDocuments) /\ AllApart(layers)
  BY DEF Counted, AllApart
<1>2. PICK e \in PolicyDocuments : /\ Overlay(e, layers, 0) /\ ValidatePolicy(e) = {}
                                   /\ doc = Validated(e)
  BY DEF Layered, Sound
<1>3. policy.rules = e.rules
  BY <1>2, AcceptedTyped DEF Layered, CompilePolicy
<1> DEFINE rules == e.rules
<1>4. Overlaid(rules, layers, 0) /\ DOMAIN rules = 1..Len(rules) /\ Len(layers) \in Nat
      /\ \A i \in 1..Len(layers) : /\ layers[i] \in PolicyDocuments
                                   /\ DOMAIN layers[i].rules = 1..Len(layers[i].rules)
                                   /\ Distinct(layers[i].rules)
  <2>1. Overlaid(rules, layers, 0) /\ e.rules \in Seq(RuleEntry) /\ Len(layers) \in Nat
    BY <1>1, <1>2 DEF Overlay, PolicyDocuments
  <2>2. ASSUME NEW i \in 1..Len(layers)
        PROVE  /\ layers[i] \in PolicyDocuments
               /\ DOMAIN layers[i].rules = 1..Len(layers[i].rules)
               /\ Distinct(layers[i].rules)
    <3>1. layers[i] \in PolicyDocuments
      BY <1>1
    <3>2. layers[i].rules \in Seq(RuleEntry)
      BY <3>1 DEF PolicyDocuments
    <3>3. QED
      BY <1>1, <3>1, <3>2 DEF AllApart
  <2>3. QED
    BY <2>1, <2>2
<1>5. policy.rules = rules
  BY <1>3
<1> HIDE DEF rules
<1>6. ASSUME NEW i \in DOMAIN layers, NEW j \in DOMAIN layers[i].rules
      PROVE  HasRule(policy, layers[i].rules[j].key)
  <2>1. i \in (0 + 1)..Len(layers) /\ j \in 1..Len(layers[i].rules)
    BY <1>1, <1>4
  <2>2. Keyed(rules, layers[i].rules[j].key)
    BY <1>4, <2>1 DEF Overlaid, Everything
  <2>3. QED
    BY <1>5, <2>2 DEF Keyed, HasRule
<1>7. ASSUME NEW n \in DOMAIN rules PROVE rules[n] = Version(rules[n].key)
  <2> DEFINE key == rules[n].key
  <2>0. PICK i \in (0 + 1)..Len(layers) : \E j \in 1..Len(layers[i].rules) :
            /\ rules[n] = layers[i].rules[j]
            /\ \A h \in (0 + 1)..(i - 1) : ~HasRule(layers[h], rules[n].key)
    BY <1>4 DEF Overlaid, FromNearest
  <2>1. PICK j \in 1..Len(layers[i].rules) :
            /\ rules[n] = layers[i].rules[j]
            /\ \A h \in (0 + 1)..(i - 1) : ~HasRule(layers[h], rules[n].key)
    BY <2>0
  <2>2. i \in DOMAIN layers /\ i \in 1..Len(layers) /\ 0 + 1 = 1
    BY <1>1
  <2>3. HasRule(layers[i], key)
    BY <1>4, <2>1, <2>2 DEF HasRule
  <2>4. \A h \in 1..(i - 1) : ~HasRule(layers[h], key)
    BY <2>1, <2>2
  <2>5. Nearest(LAMBDA l : HasRule(l, key)) = i
    BY <1>1, <2>2, <2>3, <2>4, NearestRule
  <2>6. PlaceIn(layers[i], key) = j
    BY <1>4, <2>1, <2>2, PlaceOfRule
  <2>7. Version(key) = layers[i].rules[j]
    BY <2>5, <2>6, Zenon DEF Version
  <2>8. QED
    BY <2>1, <2>7
<1>8. ASSUME NEW m \in DOMAIN rules, NEW n \in DOMAIN rules, m < n
      PROVE  LET p == PlaceOf(rules[m].key)
                 q == PlaceOf(rules[n].key)
             IN  p[1] < q[1] \/ (p[1] = q[1] /\ p[2] < q[2])
  <2>1. PICK i, j : RootPlace(layers, rules[m].key, i, j)
    BY <1>4 DEF Overlaid, Placed
  <2>2. PICK g, h : RootPlace(layers, rules[n].key, g, h)
    BY <1>4 DEF Overlaid, Placed
  <2>3. i > g \/ (i = g /\ j < h)
    BY <1>4, <1>8, <2>1, <2>2 DEF Overlaid, InOrder
  <2>4. PlaceOf(rules[m].key) = <<Len(layers) - i, j>>
    BY <1>1, <2>1, PlaceOfKey
  <2>5. PlaceOf(rules[n].key) = <<Len(layers) - g, h>>
    BY <1>1, <2>2, PlaceOfKey
  <2>6. i \in 1..Len(layers) /\ g \in 1..Len(layers)
    BY <2>1, <2>2 DEF RootPlace
  <2>7. Len(layers) - i < Len(layers) - g \/ (Len(layers) - i = Len(layers) - g /\ j < h)
    <3>1. Len(layers) \in Nat /\ i \in Int /\ g \in Int
      BY <1>4, <2>6
    <3>2. QED
      BY <2>3, <3>1
  <2>8. /\ PlaceOf(rules[m].key)[1] = Len(layers) - i /\ PlaceOf(rules[m].key)[2] = j
        /\ PlaceOf(rules[n].key)[1] = Len(layers) - g /\ PlaceOf(rules[n].key)[2] = h
    BY <2>4, <2>5
  <2>9. QED
    BY <2>7, <2>8, Zenon
<1>9. QED
  BY <1>5, <1>6, <1>7, <1>8

(* A policy has every rule that one of its documents has, in the version of *)
(* the nearest, ordered by where its key first came up: for any number of   *)
(* documents and rules.                                                     *)
THEOREM InheritedCorrect == Spec => []Inherited
<1>1. Counted /\ Layered => Inherited
  BY LayeredInherited
<1>2. QED
  BY <1>1, LayersLaid, PTL
=============================================================================
