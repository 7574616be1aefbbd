----------------------------- MODULE PolicyLoad -----------------------------
(***************************************************************************)
(* loadPolicy: a policy file is read, its extends are followed from file   *)
(* to file, the documents are laid over one another from the last one back *)
(* to the first, the result is validated, its mode decided, and compiled.  *)
(* A step is one call of resolveExtends up to the next, or one merge on    *)
(* the way back.                                                           *)
(***************************************************************************)
EXTENDS PolicyDocument

CONSTANTS
    Files, Dirs,
    Root,              \* the file to load
    DirOf,             \* dirname of a file
    Target,            \* join(dir, ref), or None when no such file exists
    Profiles,          \* the builtin profiles, by the name that extends uses
    FileSystems,       \* the contents of the files under study
    Options,           \* noExtends, mode and GUARD_MODE under study
    MAX_EXTENDS_DEPTH

ASSUME PolicyAssumption ==
    /\ None \notin Files \cup Dirs \cup Refs \cup Names \cup Modes \cup {"true", "false"}
    /\ Root \in Files
    /\ DirOf \in [Files -> Dirs]
    /\ Target \in [Dirs \X Refs -> Files \cup {None}]
    /\ DOMAIN Profiles \subseteq Refs
    /\ \A p \in DOMAIN Profiles : Profiles[p] \in PolicyDocuments /\ Profiles[p].extends = None
    /\ FileSystems \subseteq [Files -> PolicyDocuments]
    /\ Options \subseteq [noExtends : BOOLEAN, mode : Modes \cup {None}, env : Modes \cup {None}]
    /\ MAX_EXTENDS_DEPTH \in Nat

VARIABLES
    files, options,  \* the inputs
    phase,
    doc,             \* the document at hand
    dir,             \* baseDir
    layers,          \* the documents read, the first one first
    chain,           \* the extends followed
    depth,           \* calls of resolveExtends that wait for their base
    errors,          \* the codes of the error thrown, or its kind
    policy           \* the compiled policy

inputs == <<files, options>>
vars == <<inputs, phase, doc, dir, layers, chain, depth, errors, policy>>

Ended == phase \in {"loaded", "failed"}

Init ==
    /\ files \in FileSystems /\ options \in Options
    /\ phase = "open" /\ doc = files[Root] /\ dir = DirOf[Root]
    /\ layers = <<>> /\ chain = <<>> /\ depth = 0 /\ errors = {} /\ policy = None

Fail(codes) ==
    /\ phase' = "failed" /\ errors' = codes
    /\ UNCHANGED <<inputs, doc, dir, layers, chain, depth, policy>>

(* readPolicyDocument; extends are followed unless there are none, or       *)
(* noExtends is set.                                                        *)
Open ==
    /\ phase = "open"
    /\ layers' = <<doc>>
    /\ phase' = IF options.noExtends \/ doc.extends = None THEN "validate" ELSE "resolve"
    /\ UNCHANGED <<inputs, doc, dir, chain, depth, errors, policy>>

-----------------------------------------------------------------------------
(* resolveExtends *)

Resolving == phase = "resolve" /\ depth <= MAX_EXTENDS_DEPTH

(* Fault: only the last of the extends is looked at. *)
FollowedLast(ref) == chain # <<>> /\ chain[Len(chain)] = ref

Followed(ref) == \E i \in DOMAIN chain : chain[i] = ref
Found(ref) == ref \in DOMAIN Profiles \/ Target[<<dir, ref>>] # None

(* Fault: one extends less is followed. *)
TooDeepEarly == phase = "resolve" /\ depth >= MAX_EXTENDS_DEPTH /\ Fail({"E006"})

TooDeep == phase = "resolve" /\ depth > MAX_EXTENDS_DEPTH /\ Fail({"E006"})

(* A document that extends nothing is what it is. *)
Base ==
    /\ Resolving /\ doc.extends = None
    /\ doc' = [doc EXCEPT !.version = Or(@, "1")]
    /\ phase' = "merge"
    /\ UNCHANGED <<inputs, dir, layers, chain, depth, errors, policy>>

Cycle == Resolving /\ doc.extends # None /\ Followed(doc.extends) /\ Fail({"E005"})

Missing ==
    /\ Resolving /\ doc.extends # None
    /\ ~Followed(doc.extends) /\ ~Found(doc.extends)
    /\ Fail({"not found"})

(* Faults: the chain does not grow; a loop instead of calls, with no chain. *)
FollowForgetting ==
    /\ Resolving /\ doc.extends # None
    /\ ~Followed(doc.extends) /\ Found(doc.extends)
    /\ IF doc.extends \in DOMAIN Profiles
         THEN doc' = Profiles[doc.extends] /\ dir' = dir
         ELSE LET file == Target[<<dir, doc.extends>>]
              IN  doc' = files[file] /\ dir' = DirOf[file]
    /\ layers' = Append(layers, doc')
    /\ depth' = depth + 1
    /\ UNCHANGED <<inputs, phase, chain, errors, policy>>

FollowLooping ==
    /\ Resolving /\ doc.extends # None
    /\ ~Followed(doc.extends) /\ Found(doc.extends)
    /\ IF doc.extends \in DOMAIN Profiles
         THEN doc' = Profiles[doc.extends] /\ dir' = dir
         ELSE LET file == Target[<<dir, doc.extends>>]
              IN  doc' = files[file] /\ dir' = DirOf[file]
    /\ UNCHANGED <<inputs, phase, layers, chain, depth, errors, policy>>

(* The base is read and resolved by a call of its own: a profile in the     *)
(* same directory, a file in its own.                                       *)
Follow ==
    /\ Resolving /\ doc.extends # None
    /\ ~Followed(doc.extends) /\ Found(doc.extends)
    /\ IF doc.extends \in DOMAIN Profiles
         THEN doc' = Profiles[doc.extends] /\ dir' = dir
         ELSE LET file == Target[<<dir, doc.extends>>]
              IN  doc' = files[file] /\ dir' = DirOf[file]
    /\ layers' = Append(layers, doc')
    /\ chain' = Append(chain, doc.extends)
    /\ depth' = depth + 1
    /\ UNCHANGED <<inputs, phase, errors, policy>>

(* A call returns: the document of its caller is laid over its result. *)
Merge ==
    /\ phase = "merge" /\ depth > 0
    /\ doc' = MergePolicyDocuments(doc, layers[depth])
    /\ depth' = depth - 1
    /\ UNCHANGED <<inputs, phase, dir, layers, chain, errors, policy>>

Resolved ==
    /\ phase = "merge" /\ depth = 0
    /\ phase' = "validate"
    /\ UNCHANGED <<inputs, doc, dir, layers, chain, depth, errors, policy>>

ResolveExtends == TooDeep \/ Base \/ Cycle \/ Missing \/ Follow \/ Merge \/ Resolved

-----------------------------------------------------------------------------
Reject == phase = "validate" /\ ValidatePolicy(doc) # {} /\ Fail(ValidatePolicy(doc))

Accept ==
    /\ phase = "validate" /\ ValidatePolicy(doc) = {}
    /\ doc' = Validated(doc)
    /\ phase' = "compile"
    /\ UNCHANGED <<inputs, dir, layers, chain, depth, errors, policy>>

(* applyModeOverride and compilePolicy *)
Compile ==
    /\ phase = "compile" /\ Compiles(doc)
    /\ policy' = CompilePolicy(doc, ApplyModeOverride(doc.mode, options.env, options.mode))
    /\ phase' = "loaded"
    /\ UNCHANGED <<inputs, doc, dir, layers, chain, depth, errors>>

NoMatcher == phase = "compile" /\ ~Compiles(doc) /\ Fail({"requires pattern or contains"})

Next == Open \/ ResolveExtends \/ Reject \/ Accept \/ Compile \/ NoMatcher

(* loadPolicy is synchronous: it runs until it returns or throws. *)
Spec == Init /\ [][Next]_vars /\ WF_vars(Next)

-----------------------------------------------------------------------------
(* Every document on the way is a policy document, the calls that wait are  *)
(* those of the documents read before the last, and what is compiled has    *)
(* only rules of known keys.                                                *)
TypeOK ==
    /\ files \in [Files -> PolicyDocuments] /\ options \in Options
    /\ phase \in {"open", "resolve", "merge", "validate", "compile", "loaded", "failed"}
    /\ doc \in PolicyDocuments /\ dir \in Dirs
    /\ layers \in Seq(PolicyDocuments) /\ chain \in Seq(Refs)
    /\ depth \in 0..(MAX_EXTENDS_DEPTH + 1)
    /\ phase \in {"resolve", "merge"} => depth <= Len(chain) /\ Len(layers) = Len(chain) + 1
    /\ phase = "resolve" => depth = Len(chain)
    /\ phase = "loaded" =>
          /\ policy.mode \in Modes
          /\ \A i \in DOMAIN policy.rules : policy.rules[i].key \in RuleKeys

HasRule(layer, key) == \E j \in DOMAIN layer.rules : layer.rules[j].key = key
Nearest(Has(_)) == CHOOSE i \in DOMAIN layers :
                       Has(layers[i]) /\ \A h \in 1..(i - 1) : ~Has(layers[h])
Furthest(Has(_)) == CHOOSE i \in DOMAIN layers :
                        Has(layers[i]) /\ \A h \in (i + 1)..Len(layers) : ~Has(layers[h])
PlaceIn(layer, key) == CHOOSE j \in DOMAIN layer.rules : layer.rules[j].key = key

(* A policy that extends others has every rule that one of them has, each   *)
(* in the version of the document nearest to the file loaded, and in the    *)
(* order in which the keys first come up, the last base first - when no     *)
(* document has two rules of one key.                                       *)
Inherited ==
    phase = "loaded" /\ (\A i \in DOMAIN layers : Distinct(layers[i].rules)) =>
        LET rules == policy.rules
            Place(key) == LET i == Furthest(LAMBDA layer : HasRule(layer, key))
                          IN  <<Len(layers) - i, PlaceIn(layers[i], key)>>
        IN  /\ \A i \in DOMAIN layers : \A j \in DOMAIN layers[i].rules :
                  HasRule(policy, layers[i].rules[j].key)
            /\ \A n \in DOMAIN rules :
                  LET layer == layers[Nearest(LAMBDA l : HasRule(l, rules[n].key))]
                  IN  rules[n] = layer.rules[PlaceIn(layer, rules[n].key)]
            /\ \A m, n \in DOMAIN rules : m < n =>
                  LET p == Place(rules[m].key)
                      q == Place(rules[n].key)
                  IN  p[1] < q[1] \/ (p[1] = q[1] /\ p[2] < q[2])

(* The mode is that of the environment, else of the option, else of the     *)
(* nearest document that has one, else block; a byte flag is on when the    *)
(* nearest document that has it turns it on.                                *)
Precedence ==
    phase = "loaded" =>
        LET HasMode(layer) == layer.mode # None
            fromFiles == IF \E i \in DOMAIN layers : HasMode(layers[i])
                           THEN layers[Nearest(HasMode)].mode ELSE "block"
            On(flag) == LET HasFlag(layer) == layer.byte[flag] # None
                        IN  /\ \E i \in DOMAIN layers : HasFlag(layers[i])
                            /\ layers[Nearest(HasFlag)].byte[flag] = "true"
        IN  /\ policy.mode = IF options.env # None THEN options.env
                             ELSE IF options.mode # None THEN options.mode ELSE fromFiles
            /\ policy.byteOptions = {flag \in ByteFlags : On(flag)}

(* The files that k extends lead to, from Root on. *)
Walks(k) ==
    {w \in [0..k -> Files] :
        /\ w[0] = Root
        /\ \A i \in 1..k :
              LET ref == files[w[i - 1]].extends
              IN  /\ ref # None /\ ref \notin DOMAIN Profiles
                  /\ Target[<<DirOf[w[i - 1]], ref>>] = w[i]}

Circle(limit) == \E k \in 1..limit : \E w \in Walks(k) : \E m \in 0..(k - 1) : w[m] = w[k]

(* Files that extend one another in a circle are reported as a cycle,       *)
(* whatever directories they are in, as long as the circle closes within    *)
(* the depth that is followed.                                              *)
CycleCaught ==
    Ended /\ ~options.noExtends /\ Circle(MAX_EXTENDS_DEPTH) => errors = {"E005"}

(* As many extends as the limit says are followed, one more is refused. *)
DepthExact ==
    /\ errors = {"E006"} => Len(chain) = MAX_EXTENDS_DEPTH + 1
    /\ phase = "loaded" => Len(layers) <= MAX_EXTENDS_DEPTH + 1

(* Loading ends, whatever extends what. *)
LoadEnds == <>Ended

-----------------------------------------------------------------------------
(* What is reported as a cycle is one.  The code does not keep this: it     *)
(* compares the texts of references, which mean another file in another     *)
(* directory.                                                               *)
CycleIsReal == errors = {"E005"} => Circle(MAX_EXTENDS_DEPTH + 1)
=============================================================================
