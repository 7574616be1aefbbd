------------------------- MODULE GuardEventsProofs -------------------------
(***************************************************************************)
(* What a policy forbids is never yielded, and what the guard reports of a *)
(* stream is true: for every rule list, every source, every mode and any   *)
(* number of streams.  The first part follows an event through the         *)
(* pipeline: what a transform lets through satisfies its rule, and no      *)
(* later transform brings back what an earlier one took away.  The second  *)
(* rests on one description of a transform call (Shape): what it hands on  *)
(* for its event and what it puts on record for that.                      *)
(***************************************************************************)
EXTENDS GuardEvents, SequenceCounts

(* What the guard writes itself passes every rule. *)
LEMMA OwnEventsPass ==
    ASSUME NEW m, NEW r \in Rule
    PROVE  Passed(m, r, PolicyError) /\ Passed(m, r, PolicyFinish) /\ Passed(m, r, Blank("error"))
<1>1. PolicyError = Blank("error")
  BY DEF PolicyError
<1>2. /\ Blank("error").type = "error" /\ Blank("error").text = {}
      /\ PolicyFinish.type = "finish"
  BY DEF Blank, PolicyFinish
<1>3. ~Danger(Blank("error")) /\ ~Danger(PolicyFinish)
  BY <1>2 DEF Danger, Done
<1>4. Passed(m, r, Blank("error"))
  BY <1>2, <1>3 DEF Passed, Rule, Kinds
<1>5. Passed(m, r, PolicyFinish)
  BY <1>2, <1>3 DEF Passed, Rule, Kinds
<1>6. QED
  BY <1>1, <1>4, <1>5

LEMMA OwnEvents ==
    PolicyError \in Event /\ PolicyFinish \in Event /\ Blank("error") \in Event
  BY DEF PolicyError, PolicyFinish, Blank, Event, Marks

(* A redaction takes marks away, and adds at most that the text is no JSON. *)
Redaction(e, f) ==
    /\ f.type = e.type /\ f.phase = e.phase /\ f.id = e.id /\ f.name = e.name
    /\ f.size = e.size
    /\ f.text \subseteq e.text \cup {"broken"} /\ ("broken" \in e.text => "broken" \in f.text)
    /\ (f.args = None) <=> (e.args = None)
    /\ Args(f) \subseteq Args(e)

LEMMA RedactionPasses ==
    ASSUME NEW m, NEW r \in Rule, NEW e \in Event, NEW f \in Event,
           Redaction(e, f), Passed(m, r, e)
    PROVE  Passed(m, r, f)
<1>1. Danger(f) => Danger(e)
  BY DEF Redaction, Danger, Done, Resolved, Args
<1>2. Done(f) <=> Done(e)
  BY DEF Redaction, Done
<1>3. f.text \cap Secrets \subseteq e.text \cap Secrets /\ f.text \cap PII \subseteq e.text \cap PII
      /\ Args(f) \cap Secrets \subseteq Args(e) \cap Secrets
      /\ ("upstream" \in f.text => "upstream" \in e.text)
  BY DEF Redaction, Secrets, PII
<1>4. f.type = e.type /\ f.name = e.name
  BY DEF Redaction
<1>5. QED
  BY <1>1, <1>2, <1>3, <1>4 DEF Passed, Rule, Kinds

-----------------------------------------------------------------------------
(* The pipeline keeps what its rules have checked. *)

(* Only a RegExp with flag g remembers where it matched. *)
Remembers == \A k \in DOMAIN rules : lastIndex[k] => rules[k].global

Inv == TypeOK /\ Enforced /\ EnforcedSoFar /\ Remembers

PassesTo(n, e) == \A k \in DOMAIN rules : k <= n => Passed(mode, rules[k], e)
AllPass(n, es) == \A i \in DOMAIN es : PassesTo(n, es[i])

PipelineTyped ==
    /\ active \in Streams \cup {None}
    /\ current \in Seq(Event) /\ next \in Seq(Event)
    /\ IF Idle THEN stage = 0 /\ current = <<>> /\ next = <<>>
               ELSE stage \in 1..Len(rules) /\ current # <<>> /\ eventIndex[active] \in Nat
    /\ pending \in [Streams -> Seq(Event)]

LEMMA RulesTyped == TypeOK => rules \in Seq(Rule)
  BY GuardAssumption DEF TypeOK, GuardAssumption

LEMMA TailOf ==
    \A q \in Seq(Event) : q # <<>> =>
        /\ Head(q) \in Event /\ Head(q) = q[1] /\ 1 \in DOMAIN q
        /\ Tail(q) \in Seq(Event)
        /\ \A i \in DOMAIN Tail(q) : i + 1 \in DOMAIN q /\ Tail(q)[i] = q[i + 1]
  BY HeadTailProperties

LEMMA ConcatOf ==
    \A q, t \in Seq(Event) :
        /\ q \o t \in Seq(Event)
        /\ t # <<>> => q \o t # <<>>
        /\ \A i \in DOMAIN (q \o t) :
              (i \in DOMAIN q /\ (q \o t)[i] = q[i])
              \/ \E j \in DOMAIN t : (q \o t)[i] = t[j]
<1> SUFFICES ASSUME NEW q \in Seq(Event), NEW t \in Seq(Event)
             PROVE  /\ q \o t \in Seq(Event)
                    /\ t # <<>> => q \o t # <<>>
                    /\ \A i \in DOMAIN (q \o t) :
                          (i \in DOMAIN q /\ (q \o t)[i] = q[i])
                          \/ \E j \in DOMAIN t : (q \o t)[i] = t[j]
  OBVIOUS
<1>1. q \o t \in Seq(Event) /\ Len(q \o t) = Len(q) + Len(t)
  OBVIOUS
<1>2. t # <<>> => q \o t # <<>>
  OBVIOUS
<1>3. ASSUME NEW i \in DOMAIN (q \o t)
      PROVE  (i \in DOMAIN q /\ (q \o t)[i] = q[i])
             \/ \E j \in DOMAIN t : (q \o t)[i] = t[j]
  <2>1. i \in 1..(Len(q) + Len(t))
    BY <1>1
  <2>2. CASE i <= Len(q)
    BY <2>1, <2>2
  <2>3. CASE i > Len(q)
    <3>1. (q \o t)[i] = t[i - Len(q)] /\ i - Len(q) \in DOMAIN t
      BY <2>1, <2>3
    <3>2. QED
      BY <3>1
  <2>4. QED
    BY <2>1, <2>2, <2>3
<1>4. QED
  BY <1>1, <1>2, <1>3

LEMMA EmitKeeps ==
    ASSUME Inv, active # None, NEW es \in Seq(Event), es # <<>>, AllPass(stage, es),
           Emit(es), UNCHANGED <<rules, mode, delivered, eventIndex>>
    PROVE  PipelineTyped' /\ Enforced' /\ EnforcedSoFar'
<1> DEFINE grown == next \o es
           rest == Tail(current)
<1>1. /\ rules \in Seq(Rule) /\ stage \in 1..Len(rules) /\ active \in Streams
      /\ current \in Seq(Event) /\ current # <<>> /\ next \in Seq(Event)
      /\ pending \in [Streams -> Seq(Event)] /\ eventIndex[active] \in Nat
      /\ Len(rules) \in Nat /\ DOMAIN rules = 1..Len(rules)
  BY SMTT(30), RulesTyped DEF Inv, TypeOK, Idle
<1>2. grown \in Seq(Event) /\ grown # <<>>
  BY <1>1, ConcatOf
<1>3. AllPass(stage, grown)
  <2> SUFFICES ASSUME NEW i \in DOMAIN grown PROVE PassesTo(stage, grown[i])
    BY DEF AllPass
  <2>1. (i \in DOMAIN next /\ grown[i] = next[i]) \/ \E j \in DOMAIN es : grown[i] = es[j]
    BY <1>1, ConcatOf
  <2>2. CASE i \in DOMAIN next /\ grown[i] = next[i]
    BY <2>2 DEF Inv, EnforcedSoFar, PassesTo
  <2>3. CASE \E j \in DOMAIN es : grown[i] = es[j]
    BY <2>3 DEF AllPass
  <2>4. QED
    BY <2>1, <2>2, <2>3
<1>4. rest \in Seq(Event) /\ AllPass(stage - 1, rest)
  <2>1. rest \in Seq(Event) /\ \A i \in DOMAIN rest : i + 1 \in DOMAIN current /\ rest[i] = current[i + 1]
    BY <1>1, TailOf
  <2>2. \A i \in DOMAIN current, k \in DOMAIN rules :
            k < stage => Passed(mode, rules[k], current[i])
    BY DEF Inv, EnforcedSoFar
  <2>3. \A k \in DOMAIN rules : k <= stage - 1 => k < stage
    BY <1>1
  <2>4. QED
    BY <2>1, <2>2, <2>3 DEF AllPass, PassesTo
<1>5. /\ \/ /\ rest # <<>> /\ current' = rest /\ next' = grown
            /\ UNCHANGED <<active, stage, pending>>
         \/ /\ stage < Len(rules) /\ current' = grown /\ next' = <<>> /\ stage' = stage + 1
            /\ UNCHANGED <<active, pending>>
         \/ /\ ~(stage < Len(rules))
            /\ active' = None /\ stage' = 0 /\ current' = <<>> /\ next' = <<>>
            /\ pending' = [pending EXCEPT ![active] = grown]
      /\ rules' = rules /\ mode' = mode /\ delivered' = delivered /\ eventIndex' = eventIndex
  BY DEF Emit
<1>6. AllPass(stage - 1, rest) /\ AllPass(stage, grown) /\ (\A k \in DOMAIN rules : k <= Len(rules))
  BY <1>1, <1>3, <1>4
<1> HIDE DEF grown, rest
<1>7. CASE rest # <<>> /\ current' = rest /\ next' = grown /\ UNCHANGED <<active, stage, pending>>
  <2>1. PipelineTyped'
    BY <1>1, <1>2, <1>4, <1>5, <1>7 DEF PipelineTyped, Idle
  <2>2. Enforced'
    BY <1>5, <1>7 DEF Inv, Enforced
  <2>3. EnforcedSoFar'
    BY <1>1, <1>5, <1>6, <1>7 DEF EnforcedSoFar, AllPass, PassesTo
  <2>4. QED
    BY <2>1, <2>2, <2>3
<1>8. CASE /\ stage < Len(rules) /\ current' = grown /\ next' = <<>> /\ stage' = stage + 1
           /\ UNCHANGED <<active, pending>>
  <2>1. PipelineTyped'
    BY <1>1, <1>2, <1>5, <1>8 DEF PipelineTyped, Idle
  <2>2. Enforced'
    BY <1>5, <1>8 DEF Inv, Enforced
  <2>3. EnforcedSoFar'
    BY <1>1, <1>5, <1>6, <1>8 DEF EnforcedSoFar, AllPass, PassesTo
  <2>4. QED
    BY <2>1, <2>2, <2>3
<1>9. CASE /\ ~(stage < Len(rules))
           /\ active' = None /\ stage' = 0 /\ current' = <<>> /\ next' = <<>>
           /\ pending' = [pending EXCEPT ![active] = grown]
  <2>1. PipelineTyped'
    BY <1>1, <1>2, <1>5, <1>9 DEF PipelineTyped, Idle
  <2>2. \A i \in DOMAIN grown, k \in DOMAIN rules : Passed(mode, rules[k], grown[i])
    BY <1>1, <1>6, <1>9 DEF AllPass, PassesTo
  <2>3. Enforced'
    BY <1>1, <1>5, <1>9, <2>2 DEF Inv, Enforced
  <2>4. EnforcedSoFar'
    BY <1>1, <1>5, <1>9 DEF EnforcedSoFar
  <2>5. QED
    BY <2>1, <2>3, <2>4
<1>10. QED
  BY <1>5, <1>7, <1>8, <1>9

LEMMA ThrowKeeps ==
    ASSUME Inv, active # None, Throw, UNCHANGED <<rules, mode, delivered>>
    PROVE  PipelineTyped' /\ Enforced' /\ EnforcedSoFar'
<1>1. /\ active' = None /\ stage' = 0 /\ current' = <<>> /\ next' = <<>>
      /\ pending' = pending /\ rules' = rules /\ mode' = mode /\ delivered' = delivered
  BY DEF Throw
<1>2. pending \in [Streams -> Seq(Event)] /\ DOMAIN rules \subseteq Nat
  BY RulesTyped DEF Inv, TypeOK
<1>3. PipelineTyped'
  BY <1>1, <1>2 DEF PipelineTyped, Idle
<1>4. Enforced'
  BY <1>1 DEF Inv, Enforced
<1>5. EnforcedSoFar'
  BY <1>1, <1>2 DEF EnforcedSoFar
<1>6. QED
  BY <1>3, <1>4, <1>5

LEMMA StatusTyped ==
    ASSUME Inv, active # None, Throw \/ UNCHANGED status
    PROVE  status' \in [Streams -> {"open", "finished", "failed", "returned"}]
  BY DEF Inv, TypeOK, Throw

LEMMA ItemTyped ==
    ASSUME Inv, active # None
    PROVE  /\ item \in Event /\ rule \in Rule /\ stage \in DOMAIN rules
           /\ PassesTo(stage - 1, item) /\ stage \in Nat /\ mode \in Modes
           /\ active \in Streams /\ eventIndex[active] \in Nat
<1>1. /\ rules \in Seq(Rule) /\ stage \in 1..Len(rules) /\ active \in Streams
      /\ current \in Seq(Event) /\ current # <<>> /\ DOMAIN rules = 1..Len(rules)
      /\ mode \in Modes /\ eventIndex[active] \in Nat
  BY RulesTyped DEF Inv, TypeOK, Idle
<1>2. item \in Event /\ item = current[1] /\ 1 \in DOMAIN current
  BY <1>1, TailOf DEF item
<1>3. PassesTo(stage - 1, item)
  <2>1. \A k \in DOMAIN rules : k <= stage - 1 => k < stage
    BY <1>1
  <2>2. QED
    BY <1>2, <2>1 DEF Inv, EnforcedSoFar, PassesTo
<1>4. rule \in Rule
  BY <1>1 DEF rule
<1>5. QED
  BY <1>1, <1>2, <1>3, <1>4

(* An output that passes what item passed, and the rule itself. *)
LEMMA OneMore ==
    ASSUME Inv, active # None, NEW e, Passed(mode, rule, e), PassesTo(stage - 1, e)
    PROVE  PassesTo(stage, e)
<1>1. stage \in Nat /\ stage \in DOMAIN rules /\ DOMAIN rules \subseteq Nat
  BY SMTT(30), ItemTyped, RulesTyped DEF Inv, TypeOK
<1>2. \A k \in DOMAIN rules : k <= stage => k <= stage - 1 \/ k = stage
  BY <1>1
<1>3. QED
  BY <1>2 DEF PassesTo, rule

LEMMA RedactionPassesTo ==
    ASSUME Inv, active # None, NEW f \in Event, Redaction(item, f)
    PROVE  PassesTo(stage - 1, f)
<1>1. item \in Event /\ PassesTo(stage - 1, item) /\ rules \in Seq(Rule)
  BY ItemTyped, RulesTyped DEF Inv
<1>2. \A k \in DOMAIN rules : rules[k] \in Rule
  BY <1>1
<1>3. QED
  BY <1>1, <1>2, RedactionPasses DEF PassesTo

LEMMA OwnPassesTo ==
    ASSUME Inv, active # None, NEW n
    PROVE  /\ PassesTo(n, PolicyError) /\ PassesTo(n, PolicyFinish)
           /\ PassesTo(n, Blank("error"))
<1>1. \A k \in DOMAIN rules : rules[k] \in Rule
  BY RulesTyped DEF Inv
<1>2. QED
  BY <1>1, OwnEventsPass DEF PassesTo

(* What a transform may hand on. *)
LEMMA KeepPasses ==
    ASSUME Inv, active # None, Passed(mode, rule, item)
    PROVE  <<item>> \in Seq(Event) /\ <<item>> # <<>> /\ AllPass(stage, <<item>>)
<1>1. item \in Event /\ PassesTo(stage, item)
  BY ItemTyped, OneMore
<1>2. QED
  BY <1>1 DEF AllPass

LEMMA ReplacementPasses ==
    ASSUME Inv, active # None, rule.kind \in ToolRules
    PROVE  /\ Replacement \in Seq(Event) /\ Replacement # <<>>
           /\ AllPass(stage, Replacement)
<1>1. CASE mode = "audit"
  <2>1. Passed(mode, rule, item)
    BY <1>1, ItemTyped DEF Passed, ToolRules
  <2>2. QED
    BY <1>1, <2>1, KeepPasses DEF Replacement
<1>2. CASE mode # "audit"
  <2>1. Replacement = <<PolicyError, PolicyFinish>>
    BY <1>2 DEF Replacement
  <2>2. PassesTo(stage, PolicyError) /\ PassesTo(stage, PolicyFinish)
    BY OwnPassesTo
  <2>3. QED
    BY <2>1, <2>2, OwnEvents DEF AllPass
<1>3. QED
  BY <1>1, <1>2

(* recordViolation keeps the types of the records. *)
LEMMA ViolationTyped ==
    ASSUME Inv, active # None, NEW kind \in Kinds
    PROVE  Violation(kind) \in Entry
<1>1. item \in Event /\ mode \in Modes /\ eventIndex[active] \in Nat
  BY ItemTyped
<1>2. (IF item.type = "tool_call" THEN item.name ELSE None) \in Names \cup {None}
  BY <1>1 DEF Event
<1>3. QED
  BY <1>1, <1>2 DEF Violation, Entry

LEMMA RecordTyped ==
    ASSUME Inv, active # None, NEW kind \in Kinds, Record(kind) \/ UNCHANGED records
    PROVE  violations' \in [Streams -> Seq(Entry)] /\ redactions' \in [Streams -> Nat]
<1>1. violations \in [Streams -> Seq(Entry)] /\ redactions \in [Streams -> Nat]
  BY DEF Inv, TypeOK
<1>2. Violation(kind) \in Entry /\ active \in Streams
  BY ViolationTyped, ItemTyped
<1>3. CASE Record(kind)
  <2>1. Append(violations[active], Violation(kind)) \in Seq(Entry)
    BY <1>1, <1>2
  <2>2. violations' \in [Streams -> Seq(Entry)]
    BY <1>1, <1>3, <2>1 DEF Record
  <2>3. redactions' \in [Streams -> Nat]
    BY <1>1, <1>2, <1>3 DEF Record
  <2>4. QED
    BY <2>2, <2>3
<1>4. CASE UNCHANGED records
  BY <1>1, <1>4 DEF records
<1>5. QED
  BY <1>3, <1>4

(* A transform call that records a violation of kind, or none, and returns  *)
(* es or throws; the closures keep their types.                             *)
LEMMA TransformKeeps ==
    ASSUME Inv, active # None,
           NEW es \in Seq(Event), es # <<>>, AllPass(stage, es),
           Emit(es) \/ Throw, OthersKept,
           violations' \in [Streams -> Seq(Entry)], redactions' \in [Streams -> Nat],
           synthetic' \in [DOMAIN rules -> Seq(Names \cup {None})],
           lastIndex' \in [DOMAIN rules -> BOOLEAN], Remembers',
           argsBytes' = [s \in Streams |-> argsBytes'[s]],
           \A s \in Streams : \A k \in DOMAIN argsBytes'[s] : argsBytes'[s][k] \in Nat
    PROVE  Inv'
<1>1. /\ rules' = rules /\ mode' = mode /\ pulled' = pulled /\ eventIndex' = eventIndex
      /\ delivered' = delivered /\ summary' = summary
  BY DEF OthersKept, policy
<1>2. PipelineTyped' /\ Enforced' /\ EnforcedSoFar'
  BY <1>1, EmitKeeps, ThrowKeeps
<1>3. status' \in [Streams -> {"open", "finished", "failed", "returned"}]
  BY StatusTyped DEF Emit
<1>4. TypeOK'
  BY <1>1, <1>2, <1>3 DEF Inv, TypeOK, PipelineTyped, Idle
<1>5. QED
  BY <1>2, <1>4 DEF Inv

-----------------------------------------------------------------------------
(* Each transform. *)

LEMMA ClosuresTyped ==
    ASSUME Inv, UNCHANGED <<closures, argsBytes>>, rules' = rules
    PROVE  /\ synthetic' \in [DOMAIN rules -> Seq(Names \cup {None})]
           /\ lastIndex' \in [DOMAIN rules -> BOOLEAN] /\ Remembers'
           /\ argsBytes' = [s \in Streams |-> argsBytes'[s]]
           /\ \A s \in Streams : \A k \in DOMAIN argsBytes'[s] : argsBytes'[s][k] \in Nat
  BY DEF Inv, TypeOK, closures, Remembers

(* Transforms without a closure of their own. *)
LEMMA StatelessKeeps ==
    ASSUME Inv, active # None, NEW kind \in Kinds,
           NEW es \in Seq(Event), es # <<>>, AllPass(stage, es),
           Violate(kind, es) \/ (Emit(es) /\ UNCHANGED records),
           OthersKept, UNCHANGED <<closures, argsBytes>>
    PROVE  Inv'
<1>1. Record(kind) \/ UNCHANGED records
  BY DEF Violate
<1>2. Emit(es) \/ Throw
  BY DEF Violate
<1>3. violations' \in [Streams -> Seq(Entry)] /\ redactions' \in [Streams -> Nat]
  BY <1>1, RecordTyped
<1>4. rules' = rules
  BY DEF OthersKept, policy
<1>5. QED
  BY <1>2, <1>3, <1>4, ClosuresTyped, TransformKeeps

LEMMA AllowToolsInv == ASSUME Inv, AllowTools PROVE Inv'
<1>1. /\ active # None /\ rule.kind = "allow_tools" /\ OthersKept
      /\ UNCHANGED <<closures, argsBytes>>
  BY DEF AllowTools, Running
<1>2. "allow_tools" \in Kinds /\ rule.kind \in ToolRules
  BY <1>1 DEF Kinds, ToolRules
<1>3. CASE Named /\ item.name \notin rule.names
  <2>1. Violate("allow_tools", Replacement)
    BY <1>3 DEF AllowTools
  <2>2. QED
    BY <1>1, <1>2, <2>1, ReplacementPasses, StatelessKeeps
<1>4. CASE ~(Named /\ item.name \notin rule.names)
  <2>1. Emit(<<item>>) /\ UNCHANGED records
    BY <1>4 DEF AllowTools, Keep
  <2>2. Passed(mode, rule, item)
    BY <1>1, <1>4 DEF Passed, Named
  <2>3. QED
    BY <1>1, <1>2, <2>1, <2>2, KeepPasses, StatelessKeeps
<1>5. QED
  BY <1>3, <1>4

LEMMA DenyToolsInv == ASSUME Inv, DenyTools PROVE Inv'
<1>1. /\ active # None /\ rule.kind = "deny_tools" /\ OthersKept
      /\ UNCHANGED <<closures, argsBytes>>
  BY DEF DenyTools, Running
<1>2. "deny_tools" \in Kinds /\ rule.kind \in ToolRules
  BY <1>1 DEF Kinds, ToolRules
<1>3. CASE Named /\ item.name \in rule.names
  <2>1. Violate("deny_tools", Replacement)
    BY <1>3 DEF DenyTools
  <2>2. QED
    BY <1>1, <1>2, <2>1, ReplacementPasses, StatelessKeeps
<1>4. CASE ~(Named /\ item.name \in rule.names)
  <2>1. Emit(<<item>>) /\ UNCHANGED records
    BY <1>4 DEF DenyTools, Keep
  <2>2. Passed(mode, rule, item)
    BY <1>1, <1>4 DEF Passed, Named
  <2>3. QED
    BY <1>1, <1>2, <2>1, <2>2, KeepPasses, StatelessKeeps
<1>5. QED
  BY <1>3, <1>4

LEMMA SanitizeErrorsInv == ASSUME Inv, SanitizeErrors PROVE Inv'
<1>1. /\ active # None /\ rule.kind = "sanitize_errors" /\ OthersKept
      /\ UNCHANGED <<closures, argsBytes>>
  BY DEF SanitizeErrors, Running
<1>2. "sanitize_errors" \in Kinds
  BY DEF Kinds
<1>3. CASE item.type = "error"
  <2>1. Violate("sanitize_errors", <<Blank("error")>>)
    BY <1>3 DEF SanitizeErrors
  <2>2. /\ <<Blank("error")>> \in Seq(Event) /\ <<Blank("error")>> # <<>>
        /\ AllPass(stage, <<Blank("error")>>)
    BY <1>1, OwnPassesTo, OwnEvents DEF AllPass
  <2>3. QED
    BY <1>1, <1>2, <2>1, <2>2, StatelessKeeps
<1>4. CASE item.type # "error"
  <2>1. Emit(<<item>>) /\ UNCHANGED records
    BY <1>4 DEF SanitizeErrors, Keep
  <2>2. Passed(mode, rule, item)
    BY <1>1, <1>4 DEF Passed
  <2>3. QED
    BY <1>1, <1>2, <2>1, <2>2, KeepPasses, StatelessKeeps
<1>5. QED
  BY <1>3, <1>4

LEMMA RedactedIs ==
    ASSUME NEW marks \in SUBSET Marks, NEW found \in SUBSET Marks, NEW breaking,
           "broken" \notin found
    PROVE  LET clean == Redacted(marks, found, breaking)
           IN  /\ clean \in SUBSET Marks /\ clean \cap found = {}
               /\ clean \subseteq marks \cup {"broken"}
               /\ ("broken" \in marks => "broken" \in clean)
  BY DEF Redacted, Marks

LEMMA RedactSecretsInv == ASSUME Inv, RedactSecrets PROVE Inv'
<1> DEFINE args == IF Done(item) THEN Args(item) ELSE {}
           clean == [item EXCEPT
                       !.text = IF @ \cap Secrets = {} THEN @ ELSE Redacted(@, Secrets, "bearer"),
                       !.args = IF args \cap Secrets = {} THEN @ ELSE @ \ Secrets]
           hit == item.type \in {"text", "tool_call"} /\ (item.text \cup args) \cap Secrets # {}
<1>1. /\ active # None /\ rule.kind = "redact_secrets" /\ OthersKept
      /\ UNCHANGED <<closures, argsBytes>>
      /\ IF hit THEN Violate("redact_secrets", <<clean>>) ELSE Keep
  BY DEF RedactSecrets, Running
<1>2. "redact_secrets" \in Kinds /\ item \in Event
  BY <1>1, ItemTyped DEF Kinds
<1>3. CASE hit
  <2>1. Violate("redact_secrets", <<clean>>)
    BY <1>1, <1>3
  <2> DEFINE text == IF item.text \cap Secrets = {} THEN item.text
                     ELSE Redacted(item.text, Secrets, "bearer")
             left == IF args \cap Secrets = {} THEN item.args ELSE item.args \ Secrets
  <2>2. clean = [item EXCEPT !.text = text, !.args = left]
    OBVIOUS
  <2>3. /\ text \in SUBSET Marks /\ text \cap Secrets = {}
        /\ text \subseteq item.text \cup {"broken"}
        /\ ("broken" \in item.text => "broken" \in text)
    <3>1. item.text \in SUBSET Marks /\ Secrets \in SUBSET Marks /\ "broken" \notin Secrets
      BY <1>2 DEF Event, Secrets, Marks
    <3>2. QED
      BY <3>1, RedactedIs
  <2>4. /\ left \in {None} \cup SUBSET Marks /\ ((left = None) <=> (item.args = None))
        /\ (left # None => left \subseteq item.args)
        /\ (Done(item) /\ left # None => left \cap Secrets = {})
    <3>1. item.args \in {None} \cup SUBSET Marks /\ \A marks \in SUBSET Marks : marks # None
      BY <1>2, GuardAssumption DEF Event, GuardAssumption
    <3>2. CASE args \cap Secrets = {}
      BY <3>1, <3>2 DEF Args
    <3>3. CASE args \cap Secrets # {}
      <4>1. item.args # None /\ left = item.args \ Secrets
        BY <3>3 DEF Args
      <4>2. QED
        BY <3>1, <4>1
    <3>4. QED
      BY <3>2, <3>3
  <2> HIDE DEF text, left, clean
  <2>5. /\ clean \in Event /\ clean.type = item.type /\ clean.phase = item.phase
        /\ clean.id = item.id /\ clean.name = item.name /\ clean.size = item.size
        /\ clean.text = text /\ clean.args = left
    BY <1>2, <2>2, <2>3, <2>4 DEF Event
  <2>6. Redaction(item, clean)
    BY <2>3, <2>4, <2>5 DEF Redaction, Args
  <2>7. Passed(mode, rule, clean)
    <3>1. rule.kind = "redact_secrets"
      BY <1>1
    <3>2. clean.text \cap Secrets = {}
      BY <2>3, <2>5
    <3>3. Done(clean) => Args(clean) \cap Secrets = {}
      BY <2>4, <2>5 DEF Args, Done
    <3>4. QED
      BY <3>1, <3>2, <3>3 DEF Passed
  <2>8. PassesTo(stage, clean)
    BY <1>1, <2>5, <2>6, <2>7, RedactionPassesTo, OneMore
  <2>9. <<clean>> \in Seq(Event) /\ <<clean>> # <<>> /\ AllPass(stage, <<clean>>)
    BY <2>5, <2>8 DEF AllPass
  <2>10. QED
    BY <1>1, <1>2, <2>1, <2>9, StatelessKeeps
<1>4. CASE ~hit
  <2>1. Emit(<<item>>) /\ UNCHANGED records
    BY <1>1, <1>4 DEF Keep
  <2>2. Passed(mode, rule, item)
    BY <1>1, <1>4 DEF Passed
  <2>3. QED
    BY <1>1, <1>2, <2>1, <2>2, KeepPasses, StatelessKeeps
<1>5. QED
  BY <1>3, <1>4

LEMMA RedactPIIInv == ASSUME Inv, RedactPII PROVE Inv'
<1> DEFINE inText == item.type \in {"text", "tool_call"} /\ item.text \cap PII # {}
           inArgs == Done(item) /\ Args(item) \cap PII # {}
           textDone == IF inText
                         THEN [item EXCEPT !.text = Redacted(@, PII, "bare")] ELSE item
           argsDone == [textDone EXCEPT !.args = @ \ PII]
           twice == IF inText THEN <<Violation("redact_pii"), Violation("redact_pii")>>
                              ELSE <<Violation("redact_pii")>>
<1>1. /\ active # None /\ rule.kind = "redact_pii" /\ OthersKept
      /\ UNCHANGED <<closures, argsBytes>>
  BY DEF RedactPII, Running
<1>2. /\ "redact_pii" \in Kinds /\ item \in Event /\ PassesTo(stage - 1, item)
      /\ item.text \in SUBSET Marks
  BY <1>1, ItemTyped DEF Kinds, Event
<1>3. \/ ~inText /\ ~inArgs /\ Keep
      \/ inText /\ ~inArgs /\ Violate("redact_pii", <<textDone>>)
      \/ inText /\ inArgs /\ Record("redact_pii") /\ Throw
      \/ /\ inArgs
         /\ violations' = [violations EXCEPT ![active] = @ \o twice]
         /\ redactions' = [redactions EXCEPT ![active] = @ + IF inText THEN 2 ELSE 1]
         /\ Emit(<<argsDone>>) \/ Emit(<<textDone>>)
  BY DEF RedactPII
<1>4. /\ textDone \in Event /\ textDone.type = item.type /\ textDone.phase = item.phase
      /\ textDone.id = item.id /\ textDone.name = item.name /\ textDone.size = item.size
      /\ textDone.args = item.args
      /\ textDone.text = IF inText THEN Redacted(item.text, PII, "bare") ELSE item.text
  <2>1. CASE inText
    <3>1. Redacted(item.text, PII, "bare") \in SUBSET Marks
      BY <1>2 DEF Redacted, Marks
    <3>2. textDone = [item EXCEPT !.text = Redacted(item.text, PII, "bare")]
      BY <2>1
    <3>3. QED
      BY <1>2, <2>1, <3>1, <3>2 DEF Event
  <2>2. CASE ~inText
    BY <1>2, <2>2
  <2>3. QED
    BY <2>1, <2>2
<1>5. /\ textDone.text \subseteq item.text \cup {"broken"}
      /\ ("broken" \in item.text => "broken" \in textDone.text)
      /\ (item.type \in {"text", "tool_call"} => textDone.text \cap PII = {})
  <2>1. PII \in SUBSET Marks /\ "broken" \notin PII
    BY DEF PII, Marks
  <2>2. CASE inText
    BY <1>2, <1>4, <2>1, <2>2, RedactedIs
  <2>3. CASE ~inText
    BY <1>4, <2>3
  <2>4. QED
    BY <2>2, <2>3
<1> HIDE DEF textDone
<1>6. AllPass(stage, <<textDone>>) /\ <<textDone>> \in Seq(Event) /\ <<textDone>> # <<>>
  <2>1. Redaction(item, textDone)
    BY <1>4, <1>5 DEF Redaction, Args
  <2>2. Passed(mode, rule, textDone)
    BY <1>1, <1>4, <1>5 DEF Passed
  <2>3. PassesTo(stage, textDone)
    BY <1>1, <1>4, <2>1, <2>2, RedactionPassesTo, OneMore
  <2>4. QED
    BY <1>4, <2>3 DEF AllPass
<1>7. ASSUME inArgs
      PROVE  AllPass(stage, <<argsDone>>) /\ <<argsDone>> \in Seq(Event) /\ <<argsDone>> # <<>>
  <2>1. item.args # None /\ item.args \in SUBSET Marks
    BY <1>2, <1>7 DEF Args, Event
  <2>2. item.args \ PII \in SUBSET Marks /\ item.args \ PII # None
    BY <2>1, GuardAssumption DEF GuardAssumption
  <2>3. /\ argsDone \in Event /\ argsDone.type = item.type /\ argsDone.phase = item.phase
        /\ argsDone.id = item.id /\ argsDone.name = item.name /\ argsDone.size = item.size
        /\ argsDone.text = textDone.text /\ argsDone.args = item.args \ PII
    BY <1>4, <2>2 DEF Event
  <2> HIDE DEF argsDone
  <2>4. Redaction(item, argsDone)
    BY <1>5, <2>1, <2>2, <2>3 DEF Redaction, Args
  <2>5. Passed(mode, rule, argsDone)
    BY <1>1, <1>5, <2>3 DEF Passed
  <2>6. PassesTo(stage, argsDone)
    BY <1>1, <2>3, <2>4, <2>5, RedactionPassesTo, OneMore
  <2>7. QED
    BY <2>3, <2>6 DEF AllPass
<1> HIDE DEF argsDone
<1>8. CASE ~inText /\ ~inArgs /\ Keep
  <2>1. Emit(<<item>>) /\ UNCHANGED records
    BY <1>8 DEF Keep
  <2>2. Passed(mode, rule, item)
    BY <1>1, <1>8 DEF Passed
  <2>3. QED
    BY <1>1, <1>2, <2>1, <2>2, KeepPasses, StatelessKeeps
<1>9. CASE Violate("redact_pii", <<textDone>>)
  BY <1>1, <1>2, <1>6, <1>9, StatelessKeeps
<1>10. CASE Record("redact_pii") /\ Throw
  <2>1. violations' \in [Streams -> Seq(Entry)] /\ redactions' \in [Streams -> Nat]
    BY <1>1, <1>2, <1>10, RecordTyped
  <2>2. rules' = rules
    BY <1>1 DEF OthersKept, policy
  <2>3. QED
    BY <1>1, <1>6, <1>10, <2>1, <2>2, ClosuresTyped, TransformKeeps
<1>11. CASE /\ inArgs
            /\ violations' = [violations EXCEPT ![active] = @ \o twice]
            /\ redactions' = [redactions EXCEPT ![active] = @ + IF inText THEN 2 ELSE 1]
            /\ Emit(<<argsDone>>) \/ Emit(<<textDone>>)
  <2>1. /\ violations \in [Streams -> Seq(Entry)] /\ redactions \in [Streams -> Nat]
        /\ active \in Streams /\ Violation("redact_pii") \in Entry
    BY <1>1, <1>2, ViolationTyped, ItemTyped DEF Inv, TypeOK
  <2>2. violations[active] \o twice \in Seq(Entry)
    BY <2>1
  <2> HIDE DEF twice
  <2>3. violations' \in [Streams -> Seq(Entry)]
    BY <1>11, <2>1, <2>2
  <2>4. redactions' \in [Streams -> Nat]
    BY <1>11, <2>1
  <2>5. rules' = rules
    BY <1>1 DEF OthersKept, policy
  <2>6. CASE Emit(<<argsDone>>)
    BY <1>1, <1>7, <1>11, <2>3, <2>4, <2>5, <2>6, ClosuresTyped, TransformKeeps
  <2>7. CASE Emit(<<textDone>>)
    BY <1>1, <1>6, <2>3, <2>4, <2>5, <2>7, ClosuresTyped, TransformKeeps
  <2>8. QED
    BY <1>11, <2>6, <2>7
<1>12. QED
  BY <1>3, <1>8, <1>9, <1>10, <1>11

LEMMA BlockToolArgsInv == ASSUME Inv, BlockToolArgs PROVE Inv'
<1>1. /\ active # None /\ rule.kind = "block_tool_args" /\ OthersKept
      /\ UNCHANGED <<synthetic, argsBytes>>
      /\ \/ /\ Violate("block_tool_args", Replacement)
            /\ lastIndex' = [lastIndex EXCEPT ![stage] = rule.global]
         \/ /\ ~Danger(item) \/ lastIndex[stage]
            /\ Keep
            /\ lastIndex' = [lastIndex EXCEPT ![stage] = @ /\ ~(Done(item) /\ Resolved(item))]
  BY DEF BlockToolArgs, Running
<1>2. /\ "block_tool_args" \in Kinds /\ rule.kind \in ToolRules
      /\ rule \in Rule /\ rule = rules[stage] /\ stage \in DOMAIN rules
      /\ lastIndex \in [DOMAIN rules -> BOOLEAN] /\ rules' = rules /\ mode \in Modes
  BY <1>1, ItemTyped DEF Kinds, ToolRules, rule, Inv, TypeOK, OthersKept, policy
<1>3. PICK es \in {Replacement, <<item>>} :
          /\ es \in Seq(Event) /\ es # <<>> /\ AllPass(stage, es)
          /\ Emit(es) \/ Throw
          /\ Record("block_tool_args") \/ UNCHANGED records
          /\ lastIndex' \in [DOMAIN rules -> BOOLEAN] /\ Remembers'
  <2>1. CASE /\ Violate("block_tool_args", Replacement)
             /\ lastIndex' = [lastIndex EXCEPT ![stage] = rule.global]
    <3>1. lastIndex' \in [DOMAIN rules -> BOOLEAN]
      BY <1>2, <2>1 DEF Rule
    <3>2. Remembers'
      BY <1>2, <2>1 DEF Inv, Remembers
    <3>3. (Emit(Replacement) \/ Throw) /\ Record("block_tool_args")
      BY <2>1 DEF Violate
    <3>4. QED
      BY <1>1, <1>2, <3>1, <3>2, <3>3, ReplacementPasses
  <2>2. CASE /\ ~Danger(item) \/ lastIndex[stage]
             /\ Keep
             /\ lastIndex' = [lastIndex EXCEPT ![stage] = @ /\ ~(Done(item) /\ Resolved(item))]
    <3>1. lastIndex' \in [DOMAIN rules -> BOOLEAN]
      BY <1>2, <2>2
    <3>2. Remembers'
      BY <1>2, <2>2 DEF Inv, Remembers
    <3>3. Emit(<<item>>) /\ UNCHANGED records
      BY <2>2 DEF Keep
    <3>4. Passed(mode, rule, item)
      <4>1. ~rule.global => ~Danger(item)
        BY <1>2, <2>2 DEF Inv, Remembers
      <4>2. QED
        BY <1>1, <4>1 DEF Passed
    <3>5. QED
      BY <1>1, <3>1, <3>2, <3>3, <3>4, KeepPasses
  <2>3. QED
    BY <1>1, <2>1, <2>2
<1>4. violations' \in [Streams -> Seq(Entry)] /\ redactions' \in [Streams -> Nat]
  BY <1>1, <1>2, <1>3, RecordTyped
<1>5. /\ synthetic' \in [DOMAIN rules -> Seq(Names \cup {None})]
      /\ argsBytes' = [s \in Streams |-> argsBytes'[s]]
      /\ \A s \in Streams : \A k \in DOMAIN argsBytes'[s] : argsBytes'[s][k] \in Nat
  BY <1>1 DEF Inv, TypeOK
<1>6. QED
  BY <1>1, <1>3, <1>4, <1>5, TransformKeeps

(* The totals of a stream: what Put and Drop make of them. *)
LEMMA TotalsTyped ==
    ASSUME NEW f, \A k \in DOMAIN f : f[k] \in Nat, NEW key, NEW n \in Nat
    PROVE  /\ \A k \in DOMAIN Put(f, key, n) : Put(f, key, n)[k] \in Nat
           /\ \A k \in DOMAIN Drop(f, key) : Drop(f, key)[k] \in Nat
  BY DEF Put, Drop

(* Replacing the totals of one stream. *)
LEMMA TotalsReplaced ==
    ASSUME Inv, active \in Streams, NEW f, \A k \in DOMAIN f : f[k] \in Nat,
           argsBytes' = [argsBytes EXCEPT ![active] = f]
    PROVE  /\ argsBytes' = [s \in Streams |-> argsBytes'[s]]
           /\ \A s \in Streams : \A k \in DOMAIN argsBytes'[s] : argsBytes'[s][k] \in Nat
<1>1. /\ argsBytes = [s \in Streams |-> argsBytes[s]]
      /\ \A s \in Streams : \A k \in DOMAIN argsBytes[s] : argsBytes[s][k] \in Nat
  BY DEF Inv, TypeOK
<1>2. argsBytes' = [s \in Streams |-> IF s = active THEN f ELSE argsBytes[s]]
  BY <1>1
<1>3. QED
  BY <1>1, <1>2

LEMMA MaxToolArgsBytesInv == ASSUME Inv, MaxToolArgsBytes PROVE Inv'
<1> DEFINE key == ToolKey(item)
           total == Total(active, key)
<1>1. /\ active # None /\ rule.kind = "max_tool_args_bytes" /\ OthersKept
      /\ lastIndex' = lastIndex
      /\ \/ Keep /\ UNCHANGED <<synthetic, argsBytes>>
         \/ /\ synthetic' = [synthetic EXCEPT ![stage] = KeyNames(item)]
            /\ argsBytes' = [argsBytes EXCEPT ![active] = Put(@, key, total + item.size)]
            /\ Keep
         \/ /\ synthetic' = [synthetic EXCEPT ![stage] = KeyNames(item)]
            /\ argsBytes' = [argsBytes EXCEPT ![active] = Drop(@, key)]
            /\ Keep \/ Violate("max_tool_args_bytes", Replacement)
  <2>1. item \in Event /\ active # None
    BY ItemTyped DEF MaxToolArgsBytes, Running
  <2>2. item.type # "tool_call" \/ (item.type = "tool_call" /\ item.phase = "delta") \/ Done(item)
    BY <2>1 DEF Event, Done
  <2>3. QED
    BY <2>2 DEF MaxToolArgsBytes, Running
<1>2. /\ "max_tool_args_bytes" \in Kinds /\ rule.kind \in ToolRules /\ item \in Event
      /\ stage \in DOMAIN rules /\ active \in Streams /\ rules' = rules
  BY <1>1, ItemTyped DEF Kinds, ToolRules, OthersKept, policy
<1>3. /\ synthetic \in [DOMAIN rules -> Seq(Names \cup {None})]
      /\ argsBytes = [s \in Streams |-> argsBytes[s]]
      /\ \A s \in Streams : \A k \in DOMAIN argsBytes[s] : argsBytes[s][k] \in Nat
      /\ lastIndex' \in [DOMAIN rules -> BOOLEAN] /\ Remembers'
  BY <1>1, <1>2 DEF Inv, TypeOK, Remembers
<1>4. PICK es \in {Replacement, <<item>>} :
          /\ es \in Seq(Event) /\ es # <<>> /\ AllPass(stage, es)
          /\ Emit(es) \/ Throw
          /\ Record("max_tool_args_bytes") \/ UNCHANGED records
  <2>1. CASE Keep
    <3>1. Passed(mode, rule, item)
      BY <1>1 DEF Passed
    <3>2. QED
      BY <1>1, <2>1, <3>1, KeepPasses DEF Keep
  <2>2. CASE Violate("max_tool_args_bytes", Replacement)
    BY <1>1, <1>2, <2>2, ReplacementPasses DEF Violate
  <2>3. QED
    BY <1>1, <2>1, <2>2
<1>5. synthetic' \in [DOMAIN rules -> Seq(Names \cup {None})]
  <2>1. KeyNames(item) \in Seq(Names \cup {None})
    <3>1. synthetic[stage] \in Seq(Names \cup {None}) /\ item.name \in Names \cup {None}
      BY <1>2, <1>3 DEF Event
    <3>2. Append(synthetic[stage], item.name) \in Seq(Names \cup {None})
      BY <3>1
    <3>3. QED
      BY <3>1, <3>2 DEF KeyNames
  <2>2. QED
    BY <1>1, <1>3, <2>1
<1>6. /\ argsBytes' = [s \in Streams |-> argsBytes'[s]]
      /\ \A s \in Streams : \A k \in DOMAIN argsBytes'[s] : argsBytes'[s][k] \in Nat
  <2>1. \A k \in DOMAIN argsBytes[active] : argsBytes[active][k] \in Nat
    BY <1>2, <1>3
  <2>2. total \in Nat /\ item.size \in Nat
    BY <1>2, <2>1 DEF Total, Event
  <2>3. total + item.size \in Nat
    BY <2>2
  <2> HIDE DEF total, key
  <2>4. CASE argsBytes' = [argsBytes EXCEPT ![active] = Put(@, key, total + item.size)]
    BY <1>2, <2>1, <2>3, <2>4, TotalsTyped, TotalsReplaced
  <2>5. CASE argsBytes' = [argsBytes EXCEPT ![active] = Drop(@, key)]
    BY <1>2, <2>1, <2>5, TotalsTyped, TotalsReplaced
  <2>6. CASE argsBytes' = argsBytes
    BY <1>3, <2>6
  <2>7. QED
    BY <1>1, <2>4, <2>5, <2>6
<1>7. violations' \in [Streams -> Seq(Entry)] /\ redactions' \in [Streams -> Nat]
  BY <1>1, <1>2, <1>4, RecordTyped
<1>8. QED
  BY <1>1, <1>3, <1>4, <1>5, <1>6, <1>7, TransformKeeps

-----------------------------------------------------------------------------
(* The steps of the generator. *)

LEMMA InitInv == ASSUME Init PROVE Inv
<1>1. /\ rules \in Pipelines /\ rules \in Seq(Rule) /\ mode \in Modes
      /\ DOMAIN rules \subseteq Nat \ {0}
  BY GuardAssumption DEF Init, GuardAssumption
<1>2. TypeOK
  BY <1>1 DEF Init, TypeOK, Idle
<1>3. Enforced
  BY DEF Init, Enforced
<1>4. EnforcedSoFar /\ Remembers
  BY DEF Init, EnforcedSoFar, Remembers
<1>5. QED
  BY <1>2, <1>3, <1>4 DEF Inv

LEMMA PullInv ==
    ASSUME Inv, NEW s \in Streams, NEW e \in Inputs, Pull(s, e)
    PROVE  Inv'
<1>1. /\ e \in Event /\ rules \in Seq(Rule) /\ s # None
      /\ <<e>> \in Seq(Event) /\ <<e>> # <<>>
  BY GuardAssumption, RulesTyped DEF GuardAssumption, Inv
<1>2. /\ UNCHANGED <<policy, closures, delivered, records, argsBytes, status, summary>>
      /\ pulled' = [pulled EXCEPT ![s] = Append(@, e)]
      /\ eventIndex' = [eventIndex EXCEPT ![s] = Len(pulled[s])]
      /\ Idle
      /\ \/ /\ rules = <<>> /\ pending' = [pending EXCEPT ![s] = <<e>>] /\ UNCHANGED pipeline
         \/ /\ rules # <<>>
            /\ active' = s /\ stage' = 1 /\ current' = <<e>> /\ next' = <<>>
            /\ UNCHANGED pending
  BY DEF Pull, Suspended
<1>3. pulled' \in [Streams -> Seq(Inputs)]
  BY <1>2 DEF Inv, TypeOK
<1>4. eventIndex' \in [Streams -> Nat \cup {None}] /\ eventIndex'[s] \in Nat
  BY <1>2 DEF Inv, TypeOK
<1>5. CASE /\ rules = <<>> /\ pending' = [pending EXCEPT ![s] = <<e>>] /\ UNCHANGED pipeline
  <2>1. TypeOK'
    BY <1>1, <1>2, <1>3, <1>4, <1>5
       DEF Inv, TypeOK, Idle, policy, closures, records, pipeline
  <2>2. Enforced' /\ EnforcedSoFar' /\ Remembers'
    BY <1>2, <1>5 DEF Enforced, EnforcedSoFar, Remembers, policy
  <2>3. QED
    BY <2>1, <2>2 DEF Inv
<1>6. CASE /\ rules # <<>>
           /\ active' = s /\ stage' = 1 /\ current' = <<e>> /\ next' = <<>>
           /\ UNCHANGED pending
  <2>1. stage' \in 1..Len(rules)
    BY <1>1, <1>6
  <2>2. TypeOK'
    BY <1>1, <1>2, <1>3, <1>4, <1>6, <2>1
       DEF Inv, TypeOK, Idle, policy, closures, records
  <2>3. Enforced' /\ Remembers'
    BY <1>2, <1>6 DEF Inv, Enforced, Remembers, policy, closures
  <2>4. EnforcedSoFar'
    <3>1. \A k \in DOMAIN rules : ~(k < 1)
      BY <1>1
    <3>2. QED
      BY <1>2, <1>6, <3>1 DEF EnforcedSoFar, policy
  <2>5. QED
    BY <2>2, <2>3, <2>4 DEF Inv
<1>7. QED
  BY <1>2, <1>5, <1>6

LEMMA YieldInv ==
    ASSUME Inv, NEW s \in Streams, Yield(s)
    PROVE  Inv'
<1>1. /\ pending[s] \in Seq(Event) /\ pending[s] # <<>> /\ delivered[s] \in Seq(Event)
      /\ pending \in [Streams -> Seq(Event)] /\ delivered \in [Streams -> Seq(Event)]
      /\ delivered' = [delivered EXCEPT ![s] = Append(@, Head(pending[s]))]
      /\ pending' = [pending EXCEPT ![s] = Tail(@)]
      /\ UNCHANGED <<policy, closures, pipeline, pulled, eventIndex, records, argsBytes,
                     status, summary>>
  BY DEF Yield, Inv, TypeOK
<1>2. /\ Head(pending[s]) \in Event /\ Head(pending[s]) = pending[s][1]
      /\ 1 \in DOMAIN pending[s] /\ Tail(pending[s]) \in Seq(Event)
      /\ \A i \in DOMAIN Tail(pending[s]) :
            i + 1 \in DOMAIN pending[s] /\ Tail(pending[s])[i] = pending[s][i + 1]
  BY <1>1, TailOf
<1>3. /\ Append(delivered[s], Head(pending[s])) \in Seq(Event)
      /\ \A i \in DOMAIN Append(delivered[s], Head(pending[s])) :
            \/ i \in DOMAIN delivered[s]
               /\ Append(delivered[s], Head(pending[s]))[i] = delivered[s][i]
            \/ Append(delivered[s], Head(pending[s]))[i] = pending[s][1]
  BY <1>1, <1>2
<1>4. TypeOK'
  BY <1>1, <1>2, <1>3 DEF Inv, TypeOK, Idle, policy, closures, records, pipeline
<1>5. Enforced'
  <2> SUFFICES ASSUME NEW t \in Streams, NEW k \in DOMAIN rules
               PROVE  /\ \A i \in DOMAIN delivered'[t] : Passed(mode, rules[k], delivered'[t][i])
                      /\ \A i \in DOMAIN pending'[t] : Passed(mode, rules[k], pending'[t][i])
    BY <1>1 DEF Enforced, policy
  <2>1. /\ \A i \in DOMAIN delivered[t] : Passed(mode, rules[k], delivered[t][i])
        /\ \A i \in DOMAIN pending[t] : Passed(mode, rules[k], pending[t][i])
    BY DEF Inv, Enforced
  <2>2. CASE t = s
    BY <1>1, <1>2, <1>3, <2>1, <2>2
  <2>3. CASE t # s
    BY <1>1, <2>1, <2>3
  <2>4. QED
    BY <2>2, <2>3
<1>6. EnforcedSoFar' /\ Remembers'
  BY <1>1 DEF Inv, EnforcedSoFar, Remembers, policy, closures, pipeline
<1>7. QED
  BY <1>4, <1>5, <1>6 DEF Inv

(* The ends of a stream: its status changes, what is pending may be dropped. *)
LEMMA EndInv ==
    ASSUME Inv, NEW s \in Streams, NEW end \in {"finished", "failed", "returned"},
           status' = [status EXCEPT ![s] = end],
           pending' = pending \/ pending' = [pending EXCEPT ![s] = <<>>],
           UNCHANGED <<policy, closures, pipeline, pulled, eventIndex, delivered, records,
                       argsBytes>>
    PROVE  Inv'
<1>1. /\ pending' \in [Streams -> Seq(Event)]
      /\ \A t \in Streams : pending'[t] = pending[t] \/ pending'[t] = <<>>
  <2>1. pending \in [Streams -> Seq(Event)] /\ <<>> \in Seq(Event)
    BY DEF Inv, TypeOK
  <2>2. QED
    BY <2>1
<1>2. status' \in [Streams -> {"open", "finished", "failed", "returned"}]
  BY DEF Inv, TypeOK
<1>3. TypeOK'
  BY <1>1, <1>2 DEF Inv, TypeOK, Idle, policy, closures, records, pipeline
<1>4. Enforced'
  BY <1>1 DEF Inv, Enforced, policy
<1>5. EnforcedSoFar' /\ Remembers'
  BY DEF Inv, EnforcedSoFar, Remembers, policy, closures, pipeline
<1>6. QED
  BY <1>3, <1>4, <1>5 DEF Inv

LEMMA StepInv == ASSUME Inv, [Next]_vars PROVE Inv'
<1>1. CASE Transform
  BY <1>1, RedactSecretsInv, RedactPIIInv, AllowToolsInv, DenyToolsInv, BlockToolArgsInv,
     MaxToolArgsBytesInv, SanitizeErrorsInv DEF Transform
<1>2. ASSUME NEW s \in Streams, Step(s) PROVE Inv'
  <2>1. CASE Yield(s)
    BY <2>1, YieldInv
  <2>2. CASE Finish(s)
    BY <2>2, EndInv DEF Finish
  <2>3. CASE SourceFails(s)
    BY <2>3, EndInv DEF SourceFails
  <2>4. CASE Return(s)
    BY <2>4, EndInv DEF Return
  <2>5. ASSUME NEW e \in Inputs, Pull(s, e) PROVE Inv'
    BY <2>5, PullInv
  <2>6. QED
    BY <1>2, <2>1, <2>2, <2>3, <2>4, <2>5 DEF Step
<1>3. CASE UNCHANGED vars
  <2>1. UNCHANGED <<policy, closures, pipeline, pulled, eventIndex, pending, delivered,
                    records, argsBytes, status>>
    BY <1>3 DEF vars
  <2>2. TypeOK'
    BY <2>1 DEF Inv, TypeOK, Idle, policy, closures, records, pipeline
  <2>3. Enforced' /\ EnforcedSoFar' /\ Remembers'
    BY <2>1 DEF Inv, Enforced, EnforcedSoFar, Remembers, policy, closures, pipeline
  <2>4. QED
    BY <2>2, <2>3 DEF Inv
<1>4. QED
  BY <1>1, <1>2, <1>3 DEF Next

-----------------------------------------------------------------------------
(* The invariant that the two results rest on. *)
THEOREM Invariance == Spec => []Inv
  BY InitInv, StepInv, PTL DEF Spec

(* Events stay GuardEvents and records stay typed along guardEvents and     *)
(* every transform of the rules directory.                                  *)
THEOREM TypeCorrect == Spec => []TypeOK
<1>1. Inv => TypeOK
  BY DEF Inv
<1>2. QED
  BY <1>1, Invariance, PTL

(* Whatever the policy, the sources and the number of concurrent streams:   *)
(* no event is yielded by guardEvents that one of its rules forbids.        *)
THEOREM EnforcedCorrect == Spec => []Enforced
<1>1. Inv => Enforced
  BY DEF Inv
<1>2. QED
  BY <1>1, Invariance, PTL
-----------------------------------------------------------------------------
(* What a transform call may return for item together with the violations   *)
(* it records: the event as it is and none, the event redacted, a           *)
(* replacement for a call that a tool rule objects to, a sanitised error.   *)
Kept(es, new) ==
    /\ new = <<>> /\ es = <<item>>
    /\ rule.kind = "block_tool_args" /\ ~rule.global => ~Danger(item)

Sought == IF rule.kind = "redact_secrets" THEN Secrets ELSE PII

Cleaned(es, new) ==
    /\ rule.kind \in RedactionRules
    /\ item.type \in {"text", "tool_call"}
    /\ (item.text \cup Args(item)) \cap Sought # {}
    /\ new = <<Violation(rule.kind)>> \/ new = <<Violation(rule.kind), Violation(rule.kind)>>
    /\ \E f \in Event : Redaction(item, f) /\ es = <<f>>

Objected(es, new) ==
    /\ rule.kind \in ToolRules /\ item.type = "tool_call"
    /\ new = <<Violation(rule.kind)>> /\ es = Replacement

Hidden(es, new) ==
    /\ rule.kind = "sanitize_errors" /\ item.type = "error"
    /\ new = <<Violation("sanitize_errors")>> /\ es = <<Blank("error")>>

Outcome(es, new) ==
    Kept(es, new) \/ Cleaned(es, new) \/ Objected(es, new) \/ Hidden(es, new)

Call(es, new) ==
    /\ active # None
    /\ Outcome(es, new)
    /\ Emit(es) \/ (Throw /\ new # <<>>)
    /\ violations' = [violations EXCEPT ![active] = @ \o new]
    /\ redactions' = [redactions EXCEPT ![active] =
                         @ + IF rule.kind \in RedactionRules THEN Len(new) ELSE 0]
    /\ OthersKept

Shape == \E es \in Seq(Event), new \in Seq(Entry) : Call(es, new)

(* What a transform that keeps its event, or objects to it, has in common. *)
LEMMA KeepIs ==
    ASSUME Inv, active # None, Keep, OthersKept,
           rule.kind = "block_tool_args" /\ ~rule.global => ~Danger(item)
    PROVE  Shape
<1>1. Emit(<<item>>) /\ violations' = violations /\ redactions' = redactions
  BY DEF Keep, records
<1>2. /\ item \in Event /\ active \in Streams
      /\ violations \in [Streams -> Seq(Entry)] /\ redactions \in [Streams -> Nat]
  BY ItemTyped DEF Inv, TypeOK
<1>3. violations' = [violations EXCEPT ![active] = @ \o <<>>]
  <2>1. violations[active] \o <<>> = violations[active]
    BY <1>2
  <2>2. QED
    BY <1>1, <1>2, <2>1
<1>4. redactions' = [redactions EXCEPT ![active] =
                         @ + IF rule.kind \in RedactionRules THEN Len(<<>>) ELSE 0]
  BY <1>1, <1>2
<1>5. <<item>> \in Seq(Event) /\ <<>> \in Seq(Entry)
  BY <1>2
<1>6. Kept(<<item>>, <<>>)
  BY DEF Kept
<1>7. Call(<<item>>, <<>>)
  BY <1>1, <1>3, <1>4, <1>6 DEF Call, Outcome
<1>8. QED
  BY <1>5, <1>7 DEF Shape

LEMMA ViolateIs ==
    ASSUME Inv, active # None, rule.kind \in Kinds, NEW es \in Seq(Event),
           Violate(rule.kind, es), OthersKept, Outcome(es, <<Violation(rule.kind)>>)
    PROVE  Shape
<1> DEFINE new == <<Violation(rule.kind)>>
<1>1. /\ Violation(rule.kind) \in Entry /\ active \in Streams
      /\ violations \in [Streams -> Seq(Entry)] /\ redactions \in [Streams -> Nat]
  BY ViolationTyped, ItemTyped DEF Inv, TypeOK
<1>2. Record(rule.kind) /\ (Emit(es) \/ Throw)
  BY DEF Violate
<1>3. new \in Seq(Entry) /\ Len(new) = 1 /\ new # <<>>
      /\ Append(violations[active], Violation(rule.kind)) = violations[active] \o new
  BY <1>1
<1>4. violations' = [violations EXCEPT ![active] = @ \o new]
  BY <1>2, <1>3 DEF Record
<1>5. redactions' = [redactions EXCEPT ![active] =
                        @ + IF rule.kind \in RedactionRules THEN Len(new) ELSE 0]
  <2>1. CASE rule.kind \in RedactionRules
    BY <1>1, <1>2, <1>3, <2>1 DEF Record
  <2>2. CASE rule.kind \notin RedactionRules
    <3>1. redactions' = redactions
      BY <1>2, <2>2 DEF Record
    <3>2. QED
      BY <1>1, <2>2, <3>1
  <2>3. QED
    BY <2>1, <2>2
<1>6. Call(es, new)
  BY <1>2, <1>3, <1>4, <1>5 DEF Call
<1>7. QED
  BY <1>3, <1>6 DEF Shape

LEMMA ReplaceIs ==
    ASSUME Inv, active # None, rule.kind \in ToolRules, item.type = "tool_call",
           Violate(rule.kind, Replacement), OthersKept
    PROVE  Shape
<1>1. rule.kind \in Kinds /\ Replacement \in Seq(Event)
  BY ReplacementPasses DEF ToolRules, Kinds
<1>2. Outcome(Replacement, <<Violation(rule.kind)>>)
  BY DEF Outcome, Objected
<1>3. QED
  BY <1>1, <1>2, ViolateIs

LEMMA AllowToolsIs == ASSUME Inv, AllowTools PROVE Shape
<1>1. active # None /\ rule.kind = "allow_tools" /\ OthersKept /\ rule.kind \in ToolRules
  BY DEF AllowTools, Running, ToolRules
<1>2. Keep \/ (Named /\ Violate(rule.kind, Replacement))
  BY <1>1 DEF AllowTools
<1>3. QED
  BY <1>1, <1>2, KeepIs, ReplaceIs DEF Named

LEMMA DenyToolsIs == ASSUME Inv, DenyTools PROVE Shape
<1>1. active # None /\ rule.kind = "deny_tools" /\ OthersKept /\ rule.kind \in ToolRules
  BY DEF DenyTools, Running, ToolRules
<1>2. Keep \/ (Named /\ Violate(rule.kind, Replacement))
  BY <1>1 DEF DenyTools
<1>3. QED
  BY <1>1, <1>2, KeepIs, ReplaceIs DEF Named

(* A RegExp without flag g remembers nothing, so what it lets through is    *)
(* not dangerous.                                                           *)
LEMMA BlockToolArgsIs == ASSUME Inv, BlockToolArgs PROVE Shape
<1>1. /\ active # None /\ rule.kind = "block_tool_args" /\ OthersKept /\ rule.kind \in ToolRules
      /\ rule = rules[stage] /\ stage \in DOMAIN rules
  BY ItemTyped DEF BlockToolArgs, Running, ToolRules, rule
<1>2. \/ Danger(item) /\ Violate(rule.kind, Replacement)
      \/ (~Danger(item) \/ lastIndex[stage]) /\ Keep
  BY <1>1 DEF BlockToolArgs
<1>3. lastIndex[stage] => rule.global
  BY <1>1 DEF Inv, Remembers
<1>4. Danger(item) => item.type = "tool_call"
  BY DEF Danger, Done
<1>5. QED
  BY <1>1, <1>2, <1>3, <1>4, KeepIs, ReplaceIs

LEMMA MaxToolArgsBytesIs == ASSUME Inv, MaxToolArgsBytes PROVE Shape
<1>1. /\ active # None /\ rule.kind = "max_tool_args_bytes" /\ OthersKept
      /\ rule.kind \in ToolRules /\ item \in Event
  BY ItemTyped DEF MaxToolArgsBytes, Running, ToolRules
<1>2. item.type # "tool_call" \/ (item.type = "tool_call" /\ item.phase = "delta") \/ Done(item)
  BY <1>1 DEF Event, Done
<1>3. Keep \/ (item.type = "tool_call" /\ Violate(rule.kind, Replacement))
  BY <1>1, <1>2 DEF MaxToolArgsBytes, Done
<1>4. QED
  BY <1>1, <1>3, KeepIs, ReplaceIs

LEMMA SanitizeErrorsIs == ASSUME Inv, SanitizeErrors PROVE Shape
<1>1. /\ active # None /\ rule.kind = "sanitize_errors" /\ OthersKept /\ rule.kind \in Kinds
      /\ <<Blank("error")>> \in Seq(Event)
  BY OwnEvents DEF SanitizeErrors, Running, Kinds
<1>2. Keep \/ (item.type = "error" /\ Violate(rule.kind, <<Blank("error")>>))
  BY <1>1 DEF SanitizeErrors
<1>3. item.type = "error" => Outcome(<<Blank("error")>>, <<Violation(rule.kind)>>)
  BY <1>1 DEF Outcome, Hidden
<1>4. QED
  BY <1>1, <1>2, <1>3, KeepIs, ViolateIs
(* Both redactions change nothing but text and arguments. *)
LEMMA SecretsRedaction ==
    ASSUME NEW e \in Event, NEW args \in {{}, Args(e)}
    PROVE  LET clean == [e EXCEPT
                   !.text = IF @ \cap Secrets = {} THEN @ ELSE Redacted(@, Secrets, "bearer"),
                   !.args = IF args \cap Secrets = {} THEN @ ELSE @ \ Secrets]
           IN  clean \in Event /\ Redaction(e, clean)
<1> DEFINE text == IF e.text \cap Secrets = {} THEN e.text
                   ELSE Redacted(e.text, Secrets, "bearer")
           left == IF args \cap Secrets = {} THEN e.args ELSE e.args \ Secrets
           clean == [e EXCEPT !.text = text, !.args = left]
<1>1. /\ text \in SUBSET Marks /\ text \subseteq e.text \cup {"broken"}
      /\ ("broken" \in e.text => "broken" \in text)
  <2>1. e.text \in SUBSET Marks /\ Secrets \in SUBSET Marks /\ "broken" \notin Secrets
    BY DEF Event, Secrets, Marks
  <2>2. QED
    BY <2>1, RedactedIs
<1>2. /\ left \in {None} \cup SUBSET Marks /\ ((left = None) <=> (e.args = None))
      /\ (left # None => left \subseteq e.args)
  <2>1. e.args \in {None} \cup SUBSET Marks /\ \A marks \in SUBSET Marks : marks # None
    BY GuardAssumption DEF Event, GuardAssumption
  <2>2. CASE args \cap Secrets = {}
    BY <2>1, <2>2
  <2>3. CASE args \cap Secrets # {}
    <3>1. e.args # None /\ left = e.args \ Secrets
      BY <2>3 DEF Args
    <3>2. QED
      BY <2>1, <3>1
  <2>4. QED
    BY <2>2, <2>3
<1> HIDE DEF text, left
<1>3. /\ clean \in Event /\ clean.type = e.type /\ clean.phase = e.phase
      /\ clean.id = e.id /\ clean.name = e.name /\ clean.size = e.size
      /\ clean.text = text /\ clean.args = left
  BY <1>1, <1>2 DEF Event
<1>4. Redaction(e, clean)
  BY <1>1, <1>2, <1>3 DEF Redaction, Args
<1>5. QED
  BY <1>3, <1>4 DEF text, left

LEMMA PIIRedaction ==
    ASSUME NEW e \in Event, NEW inText \in BOOLEAN, NEW inArgs \in BOOLEAN,
           inArgs => e.args # None
    PROVE  LET textDone == IF inText THEN [e EXCEPT !.text = Redacted(@, PII, "bare")] ELSE e
               argsDone == [textDone EXCEPT !.args = @ \ PII]
           IN  /\ textDone \in Event /\ Redaction(e, textDone)
               /\ inArgs => argsDone \in Event /\ Redaction(e, argsDone)
<1> DEFINE text == IF inText THEN Redacted(e.text, PII, "bare") ELSE e.text
           textDone == IF inText THEN [e EXCEPT !.text = Redacted(@, PII, "bare")] ELSE e
           argsDone == [textDone EXCEPT !.args = @ \ PII]
<1>1. /\ text \in SUBSET Marks /\ text \subseteq e.text \cup {"broken"}
      /\ ("broken" \in e.text => "broken" \in text)
  <2>1. e.text \in SUBSET Marks /\ PII \in SUBSET Marks /\ "broken" \notin PII
    BY DEF Event, PII, Marks
  <2>2. QED
    BY <2>1, RedactedIs
<1> HIDE DEF text
<1>2. /\ textDone \in Event /\ textDone.type = e.type /\ textDone.phase = e.phase
      /\ textDone.id = e.id /\ textDone.name = e.name /\ textDone.size = e.size
      /\ textDone.text = text /\ textDone.args = e.args
  BY <1>1 DEF Event, text
<1> HIDE DEF textDone
<1>3. Redaction(e, textDone)
  BY <1>1, <1>2 DEF Redaction, Args
<1>4. ASSUME inArgs PROVE argsDone \in Event /\ Redaction(e, argsDone)
  <2>1. e.args \in SUBSET Marks /\ e.args # None
    BY <1>4 DEF Event
  <2>2. e.args \ PII \in SUBSET Marks /\ e.args \ PII # None
    BY <2>1, GuardAssumption DEF GuardAssumption
  <2>3. /\ argsDone \in Event /\ argsDone.type = e.type /\ argsDone.phase = e.phase
        /\ argsDone.id = e.id /\ argsDone.name = e.name /\ argsDone.size = e.size
        /\ argsDone.text = text /\ argsDone.args = e.args \ PII
    BY <1>2, <2>2 DEF Event
  <2> HIDE DEF argsDone
  <2>4. QED
    BY <1>1, <2>1, <2>2, <2>3 DEF Redaction, Args
<1>5. QED
  BY <1>2, <1>3, <1>4 DEF textDone

LEMMA RedactSecretsIs == ASSUME Inv, RedactSecrets PROVE Shape
<1> DEFINE args == IF Done(item) THEN Args(item) ELSE {}
           clean == [item EXCEPT
                       !.text = IF @ \cap Secrets = {} THEN @ ELSE Redacted(@, Secrets, "bearer"),
                       !.args = IF args \cap Secrets = {} THEN @ ELSE @ \ Secrets]
           hit == item.type \in {"text", "tool_call"} /\ (item.text \cup args) \cap Secrets # {}
<1>1. /\ active # None /\ rule.kind = "redact_secrets" /\ OthersKept
      /\ IF hit THEN Violate(rule.kind, <<clean>>) ELSE Keep
  BY DEF RedactSecrets, Running
<1>2. rule.kind \in Kinds /\ rule.kind \in RedactionRules /\ item \in Event
  BY SMTT(30), <1>1, ItemTyped DEF Kinds, RedactionRules
<1>3. clean \in Event /\ Redaction(item, clean)
  BY <1>2, SecretsRedaction
<1> HIDE DEF clean
<1>4. CASE hit
  <2>1. (item.text \cup Args(item)) \cap Sought # {} /\ item.type \in {"text", "tool_call"}
    BY <1>1, <1>4 DEF Sought
  <2>2. Outcome(<<clean>>, <<Violation(rule.kind)>>)
    BY <1>2, <1>3, <2>1 DEF Outcome, Cleaned
  <2>3. <<clean>> \in Seq(Event) /\ Violate(rule.kind, <<clean>>)
    BY <1>1, <1>3, <1>4
  <2>4. QED
    BY <1>1, <1>2, <2>2, <2>3, ViolateIs
<1>5. CASE ~hit
  BY <1>1, <1>5, KeepIs
<1>6. QED
  BY <1>4, <1>5

LEMMA RedactPIIIs == ASSUME Inv, RedactPII PROVE Shape
<1> DEFINE inText == item.type \in {"text", "tool_call"} /\ item.text \cap PII # {}
           inArgs == Done(item) /\ Args(item) \cap PII # {}
           textDone == IF inText
                         THEN [item EXCEPT !.text = Redacted(@, PII, "bare")] ELSE item
           argsDone == [textDone EXCEPT !.args = @ \ PII]
           one == <<Violation("redact_pii")>>
           two == <<Violation("redact_pii"), Violation("redact_pii")>>
           new == IF inText THEN two ELSE one
<1>1. /\ active # None /\ rule.kind = "redact_pii" /\ OthersKept
      /\ \/ ~inText /\ ~inArgs /\ Keep
         \/ inText /\ ~inArgs /\ Violate(rule.kind, <<textDone>>)
         \/ inText /\ inArgs /\ Record(rule.kind) /\ Throw
         \/ /\ inArgs
            /\ violations' = [violations EXCEPT ![active] = @ \o new]
            /\ redactions' = [redactions EXCEPT ![active] = @ + IF inText THEN 2 ELSE 1]
            /\ Emit(<<argsDone>>) \/ Emit(<<textDone>>)
  BY DEF RedactPII, Running
<1>2. /\ rule.kind \in Kinds /\ rule.kind \in RedactionRules /\ item \in Event
      /\ active \in Streams /\ Violation(rule.kind) \in Entry
      /\ violations \in [Streams -> Seq(Entry)] /\ redactions \in [Streams -> Nat]
  BY <1>1, ItemTyped, ViolationTyped DEF Kinds, RedactionRules, Inv, TypeOK
<1>3. /\ textDone \in Event /\ Redaction(item, textDone)
      /\ inArgs => argsDone \in Event /\ Redaction(item, argsDone)
  <2>1. inArgs => item.args # None
    BY DEF Args
  <2>2. inText \in BOOLEAN /\ inArgs \in BOOLEAN
    OBVIOUS
  <2> HIDE DEF inText, inArgs
  <2>3. QED
    BY <1>2, <2>1, <2>2, PIIRedaction
<1>4. inText \/ inArgs =>
          item.type \in {"text", "tool_call"} /\ (item.text \cup Args(item)) \cap Sought # {}
  BY <1>1 DEF Sought, Done
<1>5. ASSUME inText \/ inArgs, NEW f \in Event, Redaction(item, f), NEW vs \in {one, two}
      PROVE  Outcome(<<f>>, vs)
  BY <1>1, <1>2, <1>4, <1>5 DEF Outcome, Cleaned
<1> HIDE DEF inText, inArgs, textDone, argsDone
<1>6. CASE ~inText /\ ~inArgs /\ Keep
  BY <1>1, <1>6, KeepIs
<1>7. CASE inText /\ ~inArgs /\ Violate(rule.kind, <<textDone>>)
  <2>1. one = <<Violation(rule.kind)>> /\ <<textDone>> \in Seq(Event)
    BY <1>1, <1>3
  <2>2. Outcome(<<textDone>>, <<Violation(rule.kind)>>)
    BY <1>3, <1>5, <1>7, <2>1
  <2>3. QED
    BY <1>1, <1>2, <1>7, <2>1, <2>2, ViolateIs
<1>8. CASE inText /\ inArgs /\ Record(rule.kind) /\ Throw
  <2>1. Outcome(<<textDone>>, one) /\ one \in Seq(Entry) /\ one # <<>> /\ Len(one) = 1
        /\ <<textDone>> \in Seq(Event)
    BY <1>1, <1>2, <1>3, <1>5, <1>8
  <2>2. /\ violations' = [violations EXCEPT ![active] = @ \o one]
        /\ redactions' = [redactions EXCEPT ![active] = @ + 1]
    <3>1. Append(violations[active], Violation(rule.kind)) = violations[active] \o one
      BY <1>1, <1>2
    <3>2. /\ violations' = [violations EXCEPT ![active] = Append(@, Violation(rule.kind))]
          /\ redactions' = [redactions EXCEPT ![active] = @ + 1]
      BY <1>2, <1>8 DEF Record
    <3>3. QED
      BY <3>1, <3>2
  <2> HIDE DEF one
  <2>3. Call(<<textDone>>, one)
    BY <1>1, <1>2, <1>8, <2>1, <2>2 DEF Call
  <2>4. QED
    BY <2>1, <2>3 DEF Shape
<1>9. ASSUME inArgs, NEW f \in {argsDone, textDone}, Emit(<<f>>),
             violations' = [violations EXCEPT ![active] = @ \o new],
             redactions' = [redactions EXCEPT ![active] = @ + IF inText THEN 2 ELSE 1]
      PROVE  Shape
  <2>1. f \in Event /\ Redaction(item, f) /\ <<f>> \in Seq(Event)
    BY <1>3, <1>9
  <2>2. new \in Seq(Entry) /\ new \in {one, two} /\ Len(new) = IF inText THEN 2 ELSE 1
    BY <1>1, <1>2
  <2>3. Outcome(<<f>>, new)
    BY <1>5, <1>9, <2>1, <2>2
  <2> HIDE DEF new
  <2>4. Call(<<f>>, new)
    BY <1>1, <1>2, <1>9, <2>2, <2>3 DEF Call
  <2>5. QED
    BY <2>1, <2>2, <2>4 DEF Shape
<1>10. QED
  BY <1>1, <1>6, <1>7, <1>8, <1>9

LEMMA TransformIs == ASSUME Inv, Transform PROVE Shape
  BY AllowToolsIs, DenyToolsIs, BlockToolArgsIs, MaxToolArgsBytesIs, SanitizeErrorsIs,
     RedactSecretsIs, RedactPIIIs DEF Transform
-----------------------------------------------------------------------------
(* The event in the pipeline is the last one pulled, of a stream that is    *)
(* open and waits for nothing else.                                         *)
InFlight ==
    active # None =>
        /\ status[active] = "open" /\ pending[active] = <<>>
        /\ pulled[active] # <<>> /\ eventIndex[active] = Len(pulled[active]) - 1

LEMMA InFlightInit == ASSUME Init PROVE InFlight
  BY DEF Init, InFlight

LEMMA NothingAdded == \A q \in Seq(Event) : <<>> \o q = q /\ q \o <<>> = q
  OBVIOUS

(* Where an emitted event goes, without the case distinction of the loops.  *)
LEMMA EmitIs ==
    ASSUME Inv, active # None, NEW es \in Seq(Event), es # <<>>, Emit(es)
    PROVE  /\ status' = status
           /\ \/ /\ active' = active /\ pending' = pending
                 /\ next' \o current' = (next \o es) \o Tail(current)
                 /\ current' # <<>> /\ current' \in Seq(Event) /\ next' \in Seq(Event)
              \/ /\ active' = None /\ Tail(current) = <<>>
                 /\ current' = <<>> /\ next' = <<>>
                 /\ pending' = [pending EXCEPT ![active] = next \o es]
<1>1. /\ current \in Seq(Event) /\ current # <<>> /\ next \in Seq(Event)
      /\ Tail(current) \in Seq(Event)
  BY TailOf DEF Inv, TypeOK, Idle
<1>2. next \o es \in Seq(Event) /\ next \o es # <<>>
  BY <1>1, ConcatOf
<1>3. CASE Tail(current) # <<>> /\ current' = Tail(current) /\ next' = next \o es
  BY <1>1, <1>2, <1>3 DEF Emit
<1>4. CASE Tail(current) = <<>> /\ stage < Len(rules)
  <2>1. current' = next \o es /\ next' = <<>> /\ active' = active /\ pending' = pending
    BY <1>4 DEF Emit
  <2>2. <<>> \o (next \o es) = (next \o es) \o <<>>
    BY <1>2, NothingAdded
  <2>3. next' \o current' = (next \o es) \o Tail(current)
    BY <1>4, <2>1, <2>2
  <2>4. status' = status
    BY DEF Emit
  <2>5. current' # <<>> /\ current' \in Seq(Event) /\ next' \in Seq(Event)
    BY <1>2, <2>1
  <2>6. QED
    BY <2>1, <2>3, <2>4, <2>5
<1>5. CASE Tail(current) = <<>> /\ ~(stage < Len(rules))
  BY <1>5 DEF Emit
<1>6. QED
  BY <1>3, <1>4, <1>5 DEF Emit

LEMMA OutcomeSome ==
    ASSUME Inv, active # None, NEW es, NEW new, Outcome(es, new)
    PROVE  es # <<>>
<1>1. rule.kind \in ToolRules => Replacement # <<>>
  BY ReplacementPasses
<1>2. QED
  BY <1>1 DEF Outcome, Kept, Cleaned, Objected, Hidden

(* After a call the pipeline is still at the same event, or empty. *)
LEMMA CallFlight ==
    ASSUME Inv, InFlight, NEW es \in Seq(Event), NEW new, Call(es, new)
    PROVE  /\ active' \in {active, None} /\ InFlight'
           /\ pulled' = pulled /\ eventIndex' = eventIndex /\ delivered' = delivered
           /\ summary' = summary /\ rules' = rules /\ mode' = mode
<1>1. /\ pulled' = pulled /\ eventIndex' = eventIndex /\ delivered' = delivered
      /\ summary' = summary /\ rules' = rules /\ mode' = mode
  BY DEF Call, OthersKept, policy
<1>2. active # None /\ es # <<>> /\ (Emit(es) \/ Throw)
  BY OutcomeSome DEF Call
<1>3. CASE Emit(es)
  BY <1>1, <1>2, <1>3, EmitIs DEF InFlight
<1>4. CASE Throw
  BY <1>1, <1>4 DEF Throw, InFlight
<1>5. QED
  BY <1>1, <1>2, <1>3, <1>4

(* A step of the generator that is not a transform call. *)
LEMMA InFlightStep ==
    ASSUME Inv, InFlight, NEW s \in Streams, Step(s)
    PROVE  InFlight'
<1>1. CASE \E e \in Inputs : Pull(s, e)
  <2>1. PICK e \in Inputs : Pull(s, e)
    BY <1>1
  <2>2. /\ Idle /\ status[s] = "open" /\ pending[s] = <<>> /\ s # None
        /\ pulled' = [pulled EXCEPT ![s] = Append(@, e)]
        /\ eventIndex' = [eventIndex EXCEPT ![s] = Len(pulled[s])]
        /\ status' = status
        /\ (active' = active \/ (active' = s /\ pending' = pending))
    BY <2>1, GuardAssumption DEF Pull, Suspended, pipeline, GuardAssumption
  <2>3. /\ pulled \in [Streams -> Seq(Inputs)] /\ eventIndex \in [Streams -> Nat \cup {None}]
    BY DEF Inv, TypeOK
  <2>4. pulled'[s] # <<>> /\ Len(pulled'[s]) = Len(pulled[s]) + 1 /\ Len(pulled[s]) \in Nat
    BY SMTT(30), <2>2, <2>3
  <2>5. QED
    BY <2>2, <2>3, <2>4 DEF InFlight, Idle
<1>2. CASE Yield(s) \/ Finish(s) \/ SourceFails(s) \/ Return(s)
  <2>1. Idle /\ active' = active
    BY <1>2 DEF Yield, Finish, SourceFails, Return, Suspended, pipeline
  <2>2. QED
    BY <2>1 DEF InFlight, Idle
<1>3. QED
  BY <1>1, <1>2 DEF Step

-----------------------------------------------------------------------------
(* A violation names the event that caused it. *)

(* The event a transform is at comes from the last one pulled: it is that   *)
(* event, redacted or not, or a message or a finish that stands for a call  *)
(* some tool rule objected to.                                              *)
Source == pulled[active][Len(pulled[active])]

Blocked ==
    \E n \in DOMAIN violations[active] :
        /\ violations[active][n].index = eventIndex[active]
        /\ violations[active][n].rule \in ToolRules

TracedTo(e) ==
    /\ e.type \in {"text", "tool_call"} => Redaction(Source, e)
    /\ e.type = "error" => Source.type = "error" \/ Blocked

Traced ==
    active # None =>
        /\ \A i \in DOMAIN current : TracedTo(current[i])
        /\ \A i \in DOMAIN next : TracedTo(next[i])

(* What IndexTrue says of the i-th violation of a stream. *)
Justified(vs, ps, i) ==
    LET v == vs[i]
        e == ps[v.index + 1]
    IN  /\ v.index < Len(ps)
        /\ \A j \in 1..(i - 1) : vs[j].index <= v.index
        /\ v.rule \in ToolRules => e.type = "tool_call" /\ e.name = v.tool
        /\ v.rule = "redact_secrets" => (e.text \cup Args(e)) \cap Secrets # {}
        /\ v.rule = "redact_pii" => (e.text \cup Args(e)) \cap PII # {}
        /\ v.rule = "sanitize_errors" =>
              \/ e.type = "error"
              \/ \E j \in 1..(i - 1) : vs[j].index = v.index /\ vs[j].rule \in ToolRules

LEMMA IndexTrueIs ==
    IndexTrue <=> \A s \in Streams : \A i \in DOMAIN violations[s] :
                      Justified(violations[s], pulled[s], i)
  BY SMTT(30) DEF IndexTrue, Justified

(* Later violations and later events take nothing away from that. *)
LEMMA JustifiedLater ==
    ASSUME NEW vs \in Seq(Entry), NEW new \in Seq(Entry), NEW ps \in Seq(Inputs),
           NEW more \in Seq(Inputs), NEW i \in DOMAIN vs, Justified(vs, ps, i)
    PROVE  Justified(vs \o new, ps \o more, i)
<1>1. /\ i \in 1 .. Len(vs) /\ vs[i] \in Entry /\ vs[i].index \in Nat
      /\ vs[i].index + 1 \in 1 .. Len(ps)
  <2>1. i \in 1 .. Len(vs) /\ vs[i] \in Entry /\ Len(ps) \in Nat
    OBVIOUS
  <2>2. vs[i].index \in Nat
    BY <2>1 DEF Entry
  <2>3. vs[i].index < Len(ps)
    BY DEF Justified
  <2>4. QED
    BY <2>1, <2>2, <2>3
<1>2. (vs \o new)[i] = vs[i] /\ \A j \in 1..(i - 1) : (vs \o new)[j] = vs[j]
  BY <1>1
<1>3. (ps \o more)[vs[i].index + 1] = ps[vs[i].index + 1] /\ Len(ps \o more) >= Len(ps)
  BY <1>1
<1>4. vs[i].index < Len(ps \o more)
  BY <1>1, <1>3
<1>5. QED
  BY <1>2, <1>3, <1>4 DEF Justified

(* The facts of a call that speak of the active stream. *)
LEMMA CallIs ==
    ASSUME Inv, InFlight, NEW es \in Seq(Event), NEW new \in Seq(Entry), Call(es, new)
    PROVE  /\ active \in Streams /\ item \in Event /\ rule \in Rule
           /\ item = current[1] /\ 1 \in DOMAIN current
           /\ violations[active] \in Seq(Entry) /\ pulled[active] \in Seq(Inputs)
           /\ violations' = [violations EXCEPT ![active] = @ \o new]
           /\ violations'[active] = violations[active] \o new
           /\ pulled' = pulled /\ eventIndex' = eventIndex
           /\ Len(pulled[active]) \in Nat \ {0}
           /\ eventIndex[active] = Len(pulled[active]) - 1
           /\ Source \in Event /\ Source = pulled[active][eventIndex[active] + 1]
<1>1. active # None /\ active \in Streams /\ item \in Event /\ rule \in Rule
  BY ItemTyped DEF Call
<1>2. current \in Seq(Event) /\ current # <<>>
  BY <1>1 DEF Inv, TypeOK, Idle
<1>3. item = current[1] /\ 1 \in DOMAIN current
  BY <1>2, TailOf DEF item
<1>4. /\ violations \in [Streams -> Seq(Entry)] /\ pulled \in [Streams -> Seq(Inputs)]
      /\ Inputs \subseteq Event
  BY GuardAssumption DEF Inv, TypeOK, GuardAssumption
<1>5. pulled[active] # <<>> /\ eventIndex[active] = Len(pulled[active]) - 1
  BY <1>1 DEF InFlight
<1>6. violations' = [violations EXCEPT ![active] = @ \o new]
      /\ pulled' = pulled /\ eventIndex' = eventIndex
  BY DEF Call, OthersKept
<1>7. pulled[active] \in Seq(Inputs) /\ Len(pulled[active]) \in Nat \ {0}
  BY <1>1, <1>4, <1>5
<1>8. Source \in Event /\ Source = pulled[active][eventIndex[active] + 1]
  BY <1>4, <1>5, <1>7 DEF Source
<1>9. QED
  BY <1>1, <1>3, <1>4, <1>5, <1>6, <1>7, <1>8

Elements(q) == {q[i] : i \in DOMAIN q}

LEMMA ConcatElements ==
    \A q, t \in Seq(Event) : Elements(q \o t) = Elements(q) \cup Elements(t)
<1> SUFFICES ASSUME NEW q \in Seq(Event), NEW t \in Seq(Event)
             PROVE  Elements(q \o t) = Elements(q) \cup Elements(t)
  OBVIOUS
<1>1. Elements(q \o t) \subseteq Elements(q) \cup Elements(t)
  BY ConcatOf DEF Elements
<1>2. \A i \in DOMAIN q : i \in DOMAIN (q \o t) /\ (q \o t)[i] = q[i]
  OBVIOUS
<1>3. \A i \in DOMAIN t : i + Len(q) \in DOMAIN (q \o t) /\ (q \o t)[i + Len(q)] = t[i]
  OBVIOUS
<1>4. Elements(q) \subseteq Elements(q \o t)
  BY <1>2 DEF Elements
<1>5. Elements(t) \subseteq Elements(q \o t)
  BY <1>3 DEF Elements
<1>6. QED
  BY <1>1, <1>4, <1>5

LEMMA EmitElements ==
    ASSUME Inv, active # None, NEW es \in Seq(Event), es # <<>>, Emit(es), active' # None
    PROVE  Elements(next') \cup Elements(current')
               \subseteq Elements(next) \cup Elements(current) \cup Elements(es)
<1>1. /\ next' \o current' = (next \o es) \o Tail(current)
      /\ current' \in Seq(Event) /\ next' \in Seq(Event)
  BY EmitIs
<1>2. /\ current \in Seq(Event) /\ next \in Seq(Event) /\ Tail(current) \in Seq(Event)
      /\ next \o es \in Seq(Event) /\ Elements(Tail(current)) \subseteq Elements(current)
  <2>1. current \in Seq(Event) /\ next \in Seq(Event) /\ current # <<>>
    BY DEF Inv, TypeOK, Idle
  <2>2. QED
    BY <2>1, TailOf, ConcatOf DEF Elements
<1>3. Elements(next' \o current') = Elements(next') \cup Elements(current')
  BY <1>1, ConcatElements
<1>4. Elements((next \o es) \o Tail(current))
          = (Elements(next) \cup Elements(es)) \cup Elements(Tail(current))
  BY ZenonT(30), <1>2, ConcatElements
<1>5. QED
  BY <1>1, <1>2, <1>3, <1>4

(* The violations only grow, so a call stays blocked. *)
LEMMA StaysBlocked ==
    ASSUME Inv, InFlight, NEW es \in Seq(Event), NEW new \in Seq(Entry), Call(es, new),
           active' = active,
           Blocked \/ Objected(es, new)
    PROVE  Blocked'
<1>1. /\ violations[active] \in Seq(Entry) /\ violations'[active] = violations[active] \o new
      /\ eventIndex' = eventIndex
  BY CallIs
<1>2. CASE Blocked
  <2>1. PICK n \in DOMAIN violations[active] :
            /\ violations[active][n].index = eventIndex[active]
            /\ violations[active][n].rule \in ToolRules
    BY <1>2 DEF Blocked
  <2>2. n \in DOMAIN violations'[active] /\ violations'[active][n] = violations[active][n]
    BY <1>1
  <2>3. QED
    BY <1>1, <2>1, <2>2 DEF Blocked
<1>3. CASE Objected(es, new)
  <2>1. /\ Len(violations[active]) + 1 \in DOMAIN violations'[active]
        /\ violations'[active][Len(violations[active]) + 1] = Violation(rule.kind)
    BY <1>1, <1>3 DEF Objected
  <2>2. Violation(rule.kind).index = eventIndex[active] /\ Violation(rule.kind).rule = rule.kind
        /\ rule.kind \in ToolRules
    BY <1>3 DEF Objected, Violation
  <2>3. QED
    BY <1>1, <2>1, <2>2 DEF Blocked
<1>4. QED
  BY <1>2, <1>3

LEMMA RedactionChain ==
    ASSUME NEW d, NEW e, NEW f, Redaction(d, e), Redaction(e, f)
    PROVE  Redaction(d, f)
  BY DEF Redaction

LEMMA ReplacementIs == Replacement = <<item>> \/ Replacement = <<PolicyError, PolicyFinish>>
  BY DEF Replacement

LEMMA TracedCall ==
    ASSUME Inv, InFlight, Traced, NEW es \in Seq(Event), NEW new \in Seq(Entry), Call(es, new)
    PROVE  Traced'
<1> SUFFICES ASSUME active' # None PROVE Traced'
  BY DEF Traced
<1>1. Emit(es) /\ active # None /\ es # <<>>
  BY OutcomeSome DEF Call, Throw
<1>2. active' = active /\ Source' = Source /\ item \in Event /\ TracedTo(item)
      /\ (Blocked => Blocked')
  <2>1. active' = active
    BY <1>1, EmitIs
  <2>2. pulled' = pulled /\ item \in Event /\ item = current[1] /\ 1 \in DOMAIN current
    BY CallIs
  <2>3. QED
    BY <1>1, <2>1, <2>2, StaysBlocked DEF Traced, Source
<1>3. \A e \in Elements(next) \cup Elements(current) : TracedTo(e)
  BY <1>1 DEF Traced, Elements
<1>4. \A e \in Elements(es) : \/ TracedTo(e)
                              \/ e.type = "error" /\ Blocked'
                              \/ e.type = "finish"
  <2>1. CASE Kept(es, new)
    BY <1>2, <2>1 DEF Kept, Elements
  <2>2. CASE Cleaned(es, new)
    <3>1. PICK f \in Event : Redaction(item, f) /\ es = <<f>>
      BY <2>2 DEF Cleaned
    <3>2. f.type = item.type /\ item.type \in {"text", "tool_call"}
      BY <2>2, <3>1 DEF Cleaned, Redaction
    <3>3. TracedTo(f)
      BY <1>2, <3>1, <3>2, RedactionChain DEF TracedTo
    <3>4. QED
      BY <3>1, <3>3 DEF Elements
  <2>3. CASE Objected(es, new)
    <3>1. Blocked'
      BY <1>2, <2>3, StaysBlocked
    <3>2. PolicyError.type = "error" /\ PolicyFinish.type = "finish"
      BY DEF PolicyError, PolicyFinish, Blank
    <3>3. es = <<item>> \/ es = <<PolicyError, PolicyFinish>>
      BY <2>3, ReplacementIs DEF Objected
    <3>4. QED
      BY <1>2, <3>1, <3>2, <3>3 DEF Elements
  <2>4. CASE Hidden(es, new)
    <3>1. es = <<Blank("error")>> /\ item.type = "error" /\ Blank("error").type = "error"
      BY <2>4 DEF Hidden, Blank
    <3>2. TracedTo(Blank("error"))
      BY <1>2, <3>1 DEF TracedTo
    <3>3. QED
      BY <3>1, <3>2 DEF Elements
  <2>5. QED
    BY <2>1, <2>2, <2>3, <2>4 DEF Call, Outcome
<1>5. ASSUME NEW e \in Elements(next') \cup Elements(current')
      PROVE  /\ e.type \in {"text", "tool_call"} => Redaction(Source, e)
             /\ e.type = "error" => Source.type = "error" \/ Blocked'
  <2>1. TracedTo(e) \/ (e.type = "error" /\ Blocked') \/ e.type = "finish"
    BY <1>1, <1>3, <1>4, EmitElements
  <2>2. QED
    BY <1>2, <2>1 DEF TracedTo
<1>6. QED
  BY <1>2, <1>5 DEF Traced, TracedTo, Elements

LEMMA TracedStep ==
    ASSUME Inv, InFlight, Traced, NEW s \in Streams, Step(s)
    PROVE  Traced'
<1> SUFFICES ASSUME active' # None PROVE Traced'
  BY DEF Traced
<1>1. Idle
  BY DEF Step, Pull, Yield, Finish, SourceFails, Return, Suspended
<1>2. PICK e \in Inputs : Pull(s, e)
  BY <1>1 DEF Step, Yield, Finish, SourceFails, Return, pipeline, Idle
<1>3. /\ active' = s /\ current' = <<e>> /\ next' = <<>>
      /\ pulled' = [pulled EXCEPT ![s] = Append(@, e)]
  BY <1>1, <1>2 DEF Pull, pipeline, Idle
<1>4. pulled'[s] = Append(pulled[s], e) /\ pulled[s] \in Seq(Inputs)
  BY <1>3 DEF Inv, TypeOK
<1>5. Source' = e
  BY <1>3, <1>4 DEF Source
<1>6. Redaction(e, e)
  BY DEF Redaction
<1>7. QED
  BY <1>3, <1>5, <1>6 DEF Traced, TracedTo

(* What a call puts on record is true of the event it is at. *)
LEMMA JustifiedNew ==
    ASSUME Inv, InFlight, Traced, IndexTrue,
           NEW es \in Seq(Event), NEW new \in Seq(Entry), Call(es, new),
           NEW i \in DOMAIN violations'[active], i > Len(violations[active])
    PROVE  Justified(violations'[active], pulled[active], i)
<1> DEFINE vs == violations[active]
           ws == violations'[active]
           ps == pulled[active]
<1> SUFFICES Justified(ws, ps, i)
  OBVIOUS
<1>1. /\ vs \in Seq(Entry) /\ ws = vs \o new /\ ps \in Seq(Inputs) /\ active \in Streams
      /\ eventIndex[active] = Len(ps) - 1 /\ Len(ps) \in Nat \ {0}
      /\ Source = ps[eventIndex[active] + 1]
      /\ item \in Event /\ rule \in Rule /\ item = current[1] /\ 1 \in DOMAIN current
  BY CallIs
<1>2. ws[i] = Violation(rule.kind)
      /\ \A j \in 1..(i - 1) : \/ j \in DOMAIN vs /\ ws[j] = vs[j]
                               \/ ws[j] = Violation(rule.kind)
  <2>1. \A j \in DOMAIN new : new[j] = Violation(rule.kind)
    BY DEF Call, Outcome, Kept, Cleaned, Objected, Hidden
  <2>2. ASSUME NEW j \in DOMAIN ws, j > Len(vs) PROVE ws[j] = Violation(rule.kind)
    <3>1. j - Len(vs) \in DOMAIN new /\ ws[j] = new[j - Len(vs)]
      BY <1>1, <2>2
    <3>2. QED
      BY <2>1, <3>1
  <2>3. \A j \in DOMAIN ws : j <= Len(vs) => j \in DOMAIN vs /\ ws[j] = vs[j]
    BY <1>1
  <2>4. \A j \in 1..(i - 1) : j \in DOMAIN ws /\ j \in Nat
    BY <1>1
  <2>5. Len(vs) \in Nat /\ i \in DOMAIN ws /\ i > Len(vs)
    BY <1>1
  <2> HIDE DEF vs, ws, ps
  <2>6. ws[i] = Violation(rule.kind)
    BY <2>2, <2>5
  <2>7. \A j \in 1..(i - 1) : \/ j \in DOMAIN vs /\ ws[j] = vs[j]
                              \/ ws[j] = Violation(rule.kind)
    BY <2>2, <2>3, <2>4, <2>5
  <2>8. QED
    BY <2>6, <2>7
<1>3. /\ ws[i].index = Len(ps) - 1 /\ ws[i].rule = rule.kind
      /\ ws[i].tool = IF item.type = "tool_call" THEN item.name ELSE None
      /\ ps[ws[i].index + 1] = Source
  BY <1>1, <1>2 DEF Violation
<1>4. \A j \in 1..(i - 1) : ws[j].index <= ws[i].index
  <2> SUFFICES ASSUME NEW j \in 1..(i - 1) PROVE ws[j].index <= ws[i].index
    OBVIOUS
  <2>1. CASE j \in DOMAIN vs /\ ws[j] = vs[j]
    <3>1. vs[j].index < Len(ps) /\ vs[j] \in Entry
      BY SMTT(30), <1>1, <2>1, IndexTrueIs DEF Justified
    <3>2. vs[j].index \in Nat
      BY <3>1 DEF Entry
    <3>3. QED
      BY SMTT(30), <1>1, <1>3, <2>1, <3>1, <3>2
  <2>2. CASE ws[j] = Violation(rule.kind)
    BY <1>1, <1>2, <1>3, <2>2
  <2>3. QED
    BY <1>2, <2>1, <2>2
<1>5. TracedTo(item)
  BY <1>1 DEF Traced, Call
<1>6. ws[i].index < Len(ps)
  BY <1>1, <1>3
<1> HIDE DEF vs, ws, ps
<1>7. CASE Cleaned(es, new)
  <2>1. /\ rule.kind \in RedactionRules /\ Redaction(Source, item)
        /\ (item.text \cup Args(item)) \cap Sought # {}
    BY <1>5, <1>7 DEF Cleaned, TracedTo
  <2>2. (Source.text \cup Args(Source)) \cap Sought # {}
    BY <2>1 DEF Redaction, Sought, Secrets, PII
  <2>3. QED
    BY <1>3, <1>4, <1>6, <2>1, <2>2 DEF Justified, Sought, RedactionRules, ToolRules
<1>8. CASE Objected(es, new)
  <2>1. rule.kind \in ToolRules /\ Redaction(Source, item) /\ item.type = "tool_call"
    BY <1>5, <1>8 DEF Objected, TracedTo
  <2>2. Source.type = "tool_call" /\ Source.name = ws[i].tool
    BY <1>3, <2>1 DEF Redaction
  <2>3. QED
    BY <1>3, <1>4, <1>6, <2>1, <2>2 DEF Justified, ToolRules
<1>9. CASE Hidden(es, new)
  <2>1. rule.kind = "sanitize_errors" /\ (Source.type = "error" \/ Blocked)
    BY <1>5, <1>9 DEF Hidden, TracedTo
  <2>2. Blocked => \E j \in 1..(i - 1) : ws[j].index = ws[i].index /\ ws[j].rule \in ToolRules
    <3> SUFFICES ASSUME NEW n \in DOMAIN vs, vs[n].index = eventIndex[active],
                        vs[n].rule \in ToolRules
                 PROVE  n \in 1..(i - 1) /\ ws[n] = vs[n]
      BY <1>1, <1>3 DEF Blocked, vs, ps
    <3>1. n \in 1 .. Len(vs) /\ Len(vs) < i /\ i \in Nat
      BY <1>1 DEF vs, ws
    <3>2. QED
      BY <1>1, <3>1
  <2>3. QED
    BY <1>3, <1>4, <1>6, <2>1, <2>2 DEF Justified, ToolRules
<1>10. CASE Kept(es, new)
  <2>1. ws = vs
    BY SMTT(30), <1>1, <1>10 DEF Kept, vs
  <2>2. QED
    BY <1>1, <2>1 DEF vs, ws
<1>11. QED
  BY <1>7, <1>8, <1>9, <1>10 DEF Call, Outcome

LEMMA IndexTrueCall ==
    ASSUME Inv, InFlight, Traced, IndexTrue,
           NEW es \in Seq(Event), NEW new \in Seq(Entry), Call(es, new)
    PROVE  IndexTrue'
<1>1. /\ active \in Streams /\ violations[active] \in Seq(Entry)
      /\ pulled[active] \in Seq(Inputs) /\ pulled' = pulled
      /\ violations'[active] = violations[active] \o new
      /\ violations' = [violations EXCEPT ![active] = @ \o new]
  BY CallIs
<1>2. ASSUME NEW i \in DOMAIN violations'[active]
      PROVE  Justified(violations'[active], pulled[active], i)
  <2>1. CASE i > Len(violations[active])
    BY <2>1, JustifiedNew
  <2>2. CASE ~(i > Len(violations[active]))
    <3>1. i \in DOMAIN violations[active]
      BY <1>1, <2>2
    <3>2. Justified(violations[active], pulled[active], i)
      BY <1>1, <3>1, IndexTrueIs
    <3>3. pulled[active] \o <<>> = pulled[active] /\ <<>> \in Seq(Inputs)
      BY <1>1
    <3>4. QED
      BY <1>1, <3>1, <3>2, <3>3, JustifiedLater
  <2>3. QED
    BY <2>1, <2>2
<1>3. ASSUME NEW s \in Streams, NEW i \in DOMAIN violations'[s]
      PROVE  Justified(violations'[s], pulled'[s], i)
  <2>1. CASE s = active
    BY <1>1, <1>2, <1>3, <2>1
  <2>2. CASE s # active
    <3>1. violations'[s] = violations[s]
      BY <1>1, <2>2 DEF Inv, TypeOK
    <3>2. QED
      BY <1>1, <1>3, <3>1, IndexTrueIs
  <2>3. QED
    BY <2>1, <2>2
<1>4. QED
  BY SMTT(30), <1>3 DEF IndexTrue, Justified

LEMMA IndexTrueStep ==
    ASSUME Inv, IndexTrue, NEW s \in Streams, Step(s)
    PROVE  IndexTrue'
<1>1. violations' = violations
  BY DEF Step, Pull, Yield, Finish, SourceFails, Return, records
<1>2. \A t \in Streams : pulled[t] \in Seq(Inputs) /\ violations[t] \in Seq(Entry)
  BY DEF Inv, TypeOK
<1>3. \A t \in Streams : \E more \in Seq(Inputs) : pulled'[t] = pulled[t] \o more
  <2>1. CASE pulled' = pulled
    <3>1. <<>> \in Seq(Inputs) /\ \A t \in Streams : pulled[t] = pulled[t] \o <<>>
      BY <1>2
    <3>2. QED
      BY <2>1, <3>1
  <2>2. CASE \E e \in Inputs : Pull(s, e)
    <3>1. PICK e \in Inputs : pulled' = [pulled EXCEPT ![s] = Append(@, e)]
      BY <2>2 DEF Pull
    <3>2. <<e>> \in Seq(Inputs) /\ Append(pulled[s], e) = pulled[s] \o <<e>>
      BY SMTT(30), <1>2
    <3>3. <<>> \in Seq(Inputs) /\ \A t \in Streams : pulled[t] = pulled[t] \o <<>>
      BY <1>2
    <3>4. QED
      BY <3>1, <3>2, <3>3 DEF Inv, TypeOK
  <2>3. QED
    BY <2>1, <2>2 DEF Step, Yield, Finish, SourceFails, Return
<1>4. ASSUME NEW t \in Streams, NEW i \in DOMAIN violations'[t]
      PROVE  Justified(violations'[t], pulled'[t], i)
  <2>1. PICK more \in Seq(Inputs) : pulled'[t] = pulled[t] \o more
    BY <1>3
  <2>2. Justified(violations[t], pulled[t], i) /\ i \in DOMAIN violations[t]
    BY <1>1, <1>4, IndexTrueIs
  <2>3. violations[t] \o <<>> = violations[t] /\ <<>> \in Seq(Entry)
    BY <1>2
  <2>4. QED
    BY <1>1, <1>2, <2>1, <2>2, <2>3, JustifiedLater
<1>5. QED
  BY SMTT(30), <1>4 DEF IndexTrue, Justified

(* A step is a transform call, a step of one generator, or none. *)
LEMMA Steps ==
    ASSUME Inv, [Next]_vars
    PROVE  \/ \E es \in Seq(Event), new \in Seq(Entry) : Call(es, new)
           \/ \E s \in Streams : Step(s)
           \/ UNCHANGED vars
  BY TransformIs DEF Next, Shape

Recorded == Inv /\ InFlight /\ Traced /\ IndexTrue

LEMMA RecordedInit == ASSUME Init PROVE Recorded
  BY InitInv, InFlightInit DEF Init, Recorded, Traced, IndexTrue

LEMMA RecordedStep == ASSUME Recorded, [Next]_vars PROVE Recorded'
<1>1. Inv /\ InFlight /\ Traced /\ IndexTrue /\ Inv'
  BY StepInv DEF Recorded
<1>2. ASSUME NEW es \in Seq(Event), NEW new \in Seq(Entry), Call(es, new)
      PROVE  InFlight' /\ Traced' /\ IndexTrue'
  BY <1>1, <1>2, CallFlight, TracedCall, IndexTrueCall
<1>3. ASSUME NEW s \in Streams, Step(s)
      PROVE  InFlight' /\ Traced' /\ IndexTrue'
  BY <1>1, <1>3, InFlightStep, TracedStep, IndexTrueStep
<1>4. ASSUME UNCHANGED vars PROVE InFlight' /\ Traced' /\ IndexTrue'
  <2>1. UNCHANGED <<active, current, next, status, pending, pulled, eventIndex, violations>>
    BY <1>4 DEF vars, pipeline, records
  <2>2. InFlight' /\ Traced'
    BY <1>1, <2>1 DEF InFlight, Traced, TracedTo, Source, Blocked
  <2>3. IndexTrue'
    BY SMTT(30), <1>1, <2>1 DEF IndexTrue
  <2>4. QED
    BY <2>2, <2>3
<1>5. InFlight' /\ Traced' /\ IndexTrue'
  BY <1>1, <1>2, <1>3, <1>4, Steps
<1>6. QED
  BY <1>1, <1>5 DEF Recorded

(* The inductive invariant behind the records: what is in flight, where a   *)
(* delivered event comes from, and what a violation's index points to.     *)
THEOREM RecordedInvariance == Spec => []Recorded
  BY RecordedInit, RecordedStep, PTL DEF Spec

(* What recordViolation puts on record names the event that caused it, for  *)
(* every rule list and any interleaving of the streams: the event at the    *)
(* index has what the rule looks for, and the indices never go back.        *)
THEOREM IndexTrueCorrect == Spec => []IndexTrue
<1>1. Recorded => IndexTrue
  BY DEF Recorded
<1>2. QED
  BY <1>1, RecordedInvariance, PTL

-----------------------------------------------------------------------------
(* The summary is exact. *)
OfRedactions == {v \in Entry : v.rule \in RedactionRules}

Counted == \A s \in Streams : redactions[s] = HowMany(violations[s], OfRedactions)

Closed ==
    /\ summary = [s \in Streams |-> summary[s]]
    /\ \A s \in Streams :
          /\ status[s] = "finished" <=> summary[s] # {}
          /\ \A sum \in summary[s] :
                sum.violations = violations[s] /\ sum.redactions = redactions[s]

LEMMA CountIs ==
    ASSUME Inv, NEW s \in Streams
    PROVE  Count(violations[s], OfRedaction) = HowMany(violations[s], OfRedactions)
<1>1. violations[s] \in Seq(Entry)
  BY DEF Inv, TypeOK
<1>2. {i \in DOMAIN violations[s] : OfRedaction(violations[s][i])}
          = Where(violations[s], OfRedactions)
  BY <1>1 DEF Where, OfRedactions, OfRedaction
<1>3. QED
  BY <1>2 DEF Count, HowMany

(* Every violation of a redaction rule counts, no other does. *)
LEMMA CountedCall ==
    ASSUME Inv, InFlight, Counted,
           NEW es \in Seq(Event), NEW new \in Seq(Entry), Call(es, new)
    PROVE  Counted'
<1>1. /\ active \in Streams /\ violations[active] \in Seq(Entry)
      /\ violations'[active] = violations[active] \o new
      /\ violations' = [violations EXCEPT ![active] = @ \o new]
  BY CallIs
<1>2. redactions' = [redactions EXCEPT ![active] =
                         @ + IF rule.kind \in RedactionRules THEN Len(new) ELSE 0]
  BY DEF Call
<1>3. HowMany(new, OfRedactions) = IF rule.kind \in RedactionRules THEN Len(new) ELSE 0
  <2>1. \A i \in DOMAIN new : new[i] = Violation(rule.kind) /\ new[i] \in Entry
    BY DEF Call, Outcome, Kept, Cleaned, Objected, Hidden
  <2>2. Violation(rule.kind).rule = rule.kind
    BY DEF Violation
  <2>3. CASE rule.kind \in RedactionRules
    <3>1. Where(new, OfRedactions) = 1 .. Len(new)
      BY <2>1, <2>2, <2>3 DEF Where, OfRedactions
    <3>2. Cardinality(1 .. Len(new)) = Len(new)
      <4>1. 1 \in Int /\ Len(new) \in Int /\ Len(new) >= 0
        OBVIOUS
      <4>2. Cardinality(1 .. Len(new))
                = IF 1 > Len(new) THEN 0 ELSE Len(new) - 1 + 1
        BY <4>1, FS_Interval, Zenon
      <4>3. QED
        BY <4>1, <4>2
    <3>3. QED
      BY <2>3, <3>1, <3>2 DEF HowMany
  <2>4. CASE rule.kind \notin RedactionRules
    <3>1. Where(new, OfRedactions) = {}
      BY <2>1, <2>2, <2>4 DEF Where, OfRedactions
    <3>2. QED
      BY <2>4, <3>1, FS_EmptySet DEF HowMany
  <2>5. QED
    BY <2>3, <2>4
<1>4. HowMany(violations'[active], OfRedactions)
          = HowMany(violations[active], OfRedactions) + HowMany(new, OfRedactions)
  BY <1>1, CountConcat
<1>5. /\ violations \in [Streams -> Seq(Entry)] /\ redactions \in [Streams -> Nat]
  BY DEF Inv, TypeOK
<1>6. ASSUME NEW s \in Streams PROVE redactions'[s] = HowMany(violations'[s], OfRedactions)
  <2>1. CASE s = active
    BY <1>1, <1>2, <1>3, <1>4, <1>5, <2>1 DEF Counted
  <2>2. CASE s # active
    BY <1>1, <1>2, <1>5, <2>2 DEF Counted
  <2>3. QED
    BY <2>1, <2>2
<1>7. QED
  BY <1>6 DEF Counted

(* The summary of a stream is taken when nothing can be added any more. *)
LEMMA ClosedCall ==
    ASSUME Inv, InFlight, Closed,
           NEW es \in Seq(Event), NEW new \in Seq(Entry), Call(es, new)
    PROVE  Closed'
<1>1. /\ active \in Streams /\ summary' = summary /\ status[active] = "open"
      /\ violations' = [violations EXCEPT ![active] = @ \o new]
  BY CallIs, CallFlight DEF InFlight, Call
<1>2. status' = status \/ status' = [status EXCEPT ![active] = "failed"]
  BY <1>1, OutcomeSome, EmitIs DEF Call, Throw
<1>3. \A s \in Streams : s # active => /\ violations'[s] = violations[s]
                                       /\ redactions'[s] = redactions[s]
  BY <1>1 DEF Call, Inv, TypeOK
<1>4. summary[active] = {} /\ status'[active] # "finished"
      /\ \A s \in Streams : s # active => status'[s] = status[s]
  BY <1>1, <1>2 DEF Closed, Inv, TypeOK
<1>5. QED
  BY <1>1, <1>3, <1>4 DEF Closed

LEMMA ClosedStep ==
    ASSUME Inv, Closed, NEW s \in Streams, Step(s)
    PROVE  Closed'
<1>1. violations' = violations /\ redactions' = redactions /\ status[s] = "open"
  BY DEF Step, Pull, Yield, Finish, SourceFails, Return, records, Suspended
<1>2. status \in [Streams -> {"open", "finished", "failed", "returned"}]
  BY DEF Inv, TypeOK
<1>3. CASE Finish(s)
  <2>1. summary' = [summary EXCEPT ![s] = {Summary(s)}]
        /\ status' = [status EXCEPT ![s] = "finished"]
    BY <1>3 DEF Finish
  <2>2. Summary(s).violations = violations[s] /\ Summary(s).redactions = redactions[s]
    BY DEF Summary
  <2>3. QED
    BY <1>1, <1>2, <2>1, <2>2 DEF Closed
<1>4. CASE ~Finish(s)
  <2>1. summary' = summary
        /\ (status' = status \/ \E end \in {"failed", "returned"} :
                                    status' = [status EXCEPT ![s] = end])
    BY <1>4 DEF Step, Pull, Yield, SourceFails, Return
  <2>2. \A t \in Streams : status'[t] = "finished" <=> status[t] = "finished"
    BY <1>1, <1>2, <2>1
  <2>3. QED
    BY <1>1, <2>1, <2>2 DEF Closed
<1>5. QED
  BY <1>3, <1>4

Summed == Recorded /\ Counted /\ Closed

LEMMA SummedInit == ASSUME Init PROVE Summed
<1>1. Recorded /\ Closed
  BY RecordedInit DEF Init, Closed
<1>2. \A s \in Streams : violations[s] = <<>> /\ redactions[s] = 0
  BY DEF Init
<1>3. QED
  BY <1>1, <1>2, CountEmpty DEF Summed, Counted

LEMMA SummedStep == ASSUME Summed, [Next]_vars PROVE Summed'
<1>1. Recorded /\ Inv /\ InFlight /\ Counted /\ Closed /\ Recorded'
  BY RecordedStep DEF Summed, Recorded
<1>2. ASSUME NEW es \in Seq(Event), NEW new \in Seq(Entry), Call(es, new)
      PROVE  Counted' /\ Closed'
  BY <1>1, <1>2, CountedCall, ClosedCall
<1>3. ASSUME NEW s \in Streams, Step(s)
      PROVE  Counted' /\ Closed'
  <2>1. violations' = violations /\ redactions' = redactions
    BY <1>3 DEF Step, Pull, Yield, Finish, SourceFails, Return, records
  <2>2. QED
    BY <1>1, <1>3, <2>1, ClosedStep DEF Counted
<1>4. ASSUME UNCHANGED vars PROVE Counted' /\ Closed'
  BY <1>1, <1>4 DEF vars, records, Counted, Closed
<1>5. Counted' /\ Closed'
  BY <1>1, <1>2, <1>3, <1>4, Steps
<1>6. QED
  BY <1>1, <1>5 DEF Summed

(* What onFinish is called with is what happened: once, at the end of a     *)
(* source that did not fail, with all violations of the stream and as many  *)
(* redactions as its redaction rules have violations.                       *)
THEOREM SummaryExactCorrect == Spec => []SummaryExact
<1>1. Summed => SummaryExact
  <2> SUFFICES ASSUME Summed PROVE SummaryExact
    OBVIOUS
  <2>1. Inv /\ Counted /\ Closed
    BY DEF Summed, Recorded
  <2>2. \A s \in Streams : redactions[s] = Count(violations[s], OfRedaction)
    BY <2>1, CountIs DEF Counted
  <2>3. QED
    BY <2>1, <2>2 DEF SummaryExact, Closed
<1>2. QED
  BY <1>1, SummedInit, SummedStep, PTL DEF Spec

-----------------------------------------------------------------------------
(* A dangerous call does not get by unnoticed. *)

(* What DangerStopped speaks of: a blockToolArgs rule with no redaction     *)
(* before it and no global RegExp, and a dangerous event.                   *)
Watched(k, e) ==
    /\ rules[k].kind = "block_tool_args" /\ ~rules[k].global
    /\ \A j \in 1..(k - 1) : rules[j].kind \notin RedactionRules
    /\ Danger(e)

Reported(s, i) == \E kind \in ToolRules : Flagged(s, i, kind)

(* Until it is reported, the event is on its way to that rule as it came.   *)
Underway(s, k, i) ==
    /\ active = s /\ i = Len(pulled[s]) /\ stage <= k
    /\ current = <<pulled[s][i]>> /\ next = <<>>

Awaited ==
    \A s \in Streams, k \in DOMAIN rules : \A i \in 1..Len(pulled[s]) :
        Watched(k, pulled[s][i]) => Reported(s, i) \/ Underway(s, k, i)

(* A record stays. *)
LEMMA FlaggedLater ==
    ASSUME Inv, NEW s \in Streams, NEW i, NEW kind, Flagged(s, i, kind),
           NEW new \in Seq(Entry), violations'[s] = violations[s] \o new
    PROVE  Flagged(s, i, kind)'
<1>1. violations[s] \in Seq(Entry)
  BY DEF Inv, TypeOK
<1>2. PICK n \in DOMAIN violations[s] :
          violations[s][n].index = i - 1 /\ violations[s][n].rule = kind
  BY DEF Flagged
<1>3. n \in DOMAIN (violations[s] \o new) /\ (violations[s] \o new)[n] = violations[s][n]
  BY <1>1
<1>4. QED
  BY <1>2, <1>3 DEF Flagged

(* An objection reports the last event. *)
LEMMA ObjectedReports ==
    ASSUME Inv, InFlight, NEW es \in Seq(Event), NEW new \in Seq(Entry), Call(es, new),
           Objected(es, new), NEW s, s = active, NEW i, i = Len(pulled[active])
    PROVE  Reported(s, i)'
<1>1. /\ violations[active] \in Seq(Entry) /\ violations'[active] = violations[active] \o new
      /\ eventIndex[active] = Len(pulled[active]) - 1 /\ pulled' = pulled
  BY CallIs
<1>2. new = <<Violation(rule.kind)>> /\ rule.kind \in ToolRules
  BY DEF Objected
<1>3. Violation(rule.kind).index = eventIndex[active] /\ Violation(rule.kind).rule = rule.kind
  BY DEF Violation
<1>4. /\ Len(violations[active]) + 1 \in DOMAIN violations'[active]
      /\ violations'[active][Len(violations[active]) + 1] = Violation(rule.kind)
  BY <1>1, <1>2
<1>5. PICK kind \in ToolRules : kind = rule.kind
  BY <1>2
<1>6. \E n \in DOMAIN violations'[s] :
          violations'[s][n].index = i - 1 /\ violations'[s][n].rule = kind
  BY <1>1, <1>3, <1>4, <1>5
<1>7. QED
  BY <1>5, <1>6 DEF Reported, Flagged

LEMMA GrownIs ==
    ASSUME Inv, InFlight, NEW es \in Seq(Event), NEW new \in Seq(Entry), Call(es, new),
           NEW s \in Streams
    PROVE  \E more \in Seq(Entry) : violations'[s] = violations[s] \o more
<1>1. violations \in [Streams -> Seq(Entry)]
      /\ violations' = [violations EXCEPT ![active] = @ \o new]
  BY CallIs DEF Inv, TypeOK
<1>2. <<>> \in Seq(Entry) /\ violations[s] \o <<>> = violations[s]
  BY <1>1
<1>3. QED
  BY <1>1, <1>2

LEMMA AwaitedCall ==
    ASSUME Inv, InFlight, Awaited, NEW es \in Seq(Event), NEW new \in Seq(Entry), Call(es, new)
    PROVE  Awaited'
<1>1. rules' = rules /\ pulled' = pulled
  BY CallFlight
<1>2. SUFFICES ASSUME NEW s \in Streams, NEW k \in DOMAIN rules, NEW i \in 1..Len(pulled[s]),
                      Watched(k, pulled[s][i])
               PROVE  Reported(s, i)' \/ Underway(s, k, i)'
  BY <1>1 DEF Awaited, Watched
<1>3. CASE Reported(s, i)
  <2>1. Reported(s, i)'
    BY <1>3, GrownIs, FlaggedLater DEF Reported
  <2>2. QED
    BY <2>1
<1>4. CASE Underway(s, k, i)
  <2>1. /\ active = s /\ i = Len(pulled[s]) /\ stage <= k /\ item = pulled[s][i]
        /\ current = <<item>> /\ next = <<>> /\ Tail(current) = <<>>
    BY <1>4, CallIs DEF Underway
  <2>2. /\ rules \in Seq(Rule) /\ stage \in DOMAIN rules /\ k \in 1..Len(rules) /\ stage \in Nat
        /\ rule = rules[stage] /\ item \in Event /\ active # None
    BY RulesTyped, ItemTyped DEF Inv, Call, rule
  <2>3. item.type = "tool_call" /\ Danger(item)
    BY <1>2, <2>1 DEF Watched, Danger, Done
  <2>4. CASE Kept(es, new)
    <3>1. stage # k /\ es = <<item>> /\ new = <<>>
      BY <1>2, <2>2, <2>3, <2>4 DEF Kept, Watched
    <3>2. stage < Len(rules) /\ stage + 1 <= k
      BY <2>1, <2>2, <3>1
    <3>3. Emit(<<item>>)
      BY <3>1 DEF Call
    <3>4. /\ current' = <<>> \o <<item>> /\ next' = <<>> /\ stage' = stage + 1 /\ active' = active
      BY <2>1, <3>2, <3>3 DEF Emit
    <3>5. current' = <<item>>
      BY <2>2, <3>4, NothingAdded
    <3>6. QED
      BY <1>1, <2>1, <3>2, <3>4, <3>5 DEF Underway
  <2>5. CASE Cleaned(es, new)
    <3>1. rules[stage].kind \in RedactionRules /\ stage # k
      BY <1>2, <2>2, <2>5 DEF Cleaned, Watched, RedactionRules
    <3>2. stage \in 1..(k - 1)
      BY <2>1, <2>2, <3>1
    <3>3. QED
      BY <1>2, <3>1, <3>2 DEF Watched
  <2>6. CASE Objected(es, new)
    BY <2>1, <2>6, ObjectedReports
  <2>7. CASE Hidden(es, new)
    BY <2>3, <2>7 DEF Hidden
  <2>8. QED
    BY <2>4, <2>5, <2>6, <2>7 DEF Call, Outcome
<1>5. QED
  BY <1>2, <1>3, <1>4 DEF Awaited

LEMMA AwaitedStep ==
    ASSUME Inv, Awaited, NEW t \in Streams, Step(t)
    PROVE  Awaited'
<1>1. rules' = rules /\ violations' = violations /\ Idle /\ t # None
  BY GuardAssumption
  DEF Step, Pull, Yield, Finish, SourceFails, Return, Suspended, policy, records,
      GuardAssumption
<1>2. pulled \in [Streams -> Seq(Inputs)] /\ rules \in Seq(Rule)
  BY RulesTyped DEF Inv, TypeOK
<1>3. SUFFICES ASSUME NEW s \in Streams, NEW k \in DOMAIN rules, NEW i \in 1..Len(pulled'[s]),
                      Watched(k, pulled'[s][i])
               PROVE  Reported(s, i)' \/ Underway(s, k, i)'
  BY <1>1 DEF Awaited, Watched
<1>4. CASE i \in 1..Len(pulled[s]) /\ pulled'[s][i] = pulled[s][i]
  <2>1. Reported(s, i) \/ Underway(s, k, i)
    BY <1>3, <1>4 DEF Awaited
  <2>2. s # None
    BY GuardAssumption DEF GuardAssumption
  <2>3. QED
    BY <1>1, <2>1, <2>2 DEF Underway, Idle, Reported, Flagged
<1>5. CASE ~(i \in 1..Len(pulled[s]) /\ pulled'[s][i] = pulled[s][i])
  <2>1. PICK e \in Inputs : Pull(t, e)
    BY <1>5 DEF Step, Yield, Finish, SourceFails, Return
  <2>2. pulled' = [pulled EXCEPT ![t] = Append(@, e)] /\ rules # <<>>
    BY <1>2, <2>1 DEF Pull
  <2>3. t = s /\ i = Len(pulled'[s]) /\ pulled'[s][i] = e
    BY <1>2, <1>5, <2>2
  <2>4. active' = s /\ stage' = 1 /\ current' = <<e>> /\ next' = <<>>
    BY <2>1, <2>2, <2>3 DEF Pull
  <2>5. 1 <= k
    BY <1>2
  <2>6. QED
    BY <2>3, <2>4, <2>5 DEF Underway
<1>6. QED
  BY <1>3, <1>4, <1>5

Stopped == Recorded /\ Awaited

LEMMA StoppedStep == ASSUME Stopped, [Next]_vars PROVE Stopped'
<1>1. Recorded /\ Inv /\ InFlight /\ Awaited /\ Recorded'
  BY RecordedStep DEF Stopped, Recorded
<1>2. ASSUME UNCHANGED vars PROVE Awaited'
  BY <1>1, <1>2 DEF vars, policy, pipeline, records, Awaited, Watched, Reported, Flagged, Underway
<1>3. Awaited'
  BY <1>1, <1>2, AwaitedCall, AwaitedStep, Steps
<1>4. QED
  BY <1>1, <1>3 DEF Stopped

(* Whatever the rules around it, whatever its stream and the others sent    *)
(* before: a done call with dangerous arguments that went through           *)
(* blockToolArgs, with no redaction before it and no global RegExp, is on   *)
(* record under a tool rule.                                                *)
THEOREM DangerStoppedCorrect == Spec => []DangerStopped
<1>1. Init => Stopped
  BY RecordedInit DEF Init, Stopped, Awaited
<1>2. Stopped => DangerStopped
  <2> SUFFICES ASSUME Stopped, NEW s \in Streams, NEW k \in DOMAIN rules,
                      NEW i \in 1..Processed(s), Watched(k, pulled[s][i])
               PROVE  Reported(s, i)
    BY DEF DangerStopped, Watched, Reported
  <2>1. Len(pulled[s]) \in Nat
    BY DEF Stopped, Recorded, Inv, TypeOK
  <2>2. i \in 1..Len(pulled[s]) /\ ~Underway(s, k, i)
    BY <2>1 DEF Processed, Underway
  <2>3. QED
    BY <2>2 DEF Stopped, Awaited
<1>3. QED
  BY <1>1, <1>2, StoppedStep, PTL DEF Spec

-----------------------------------------------------------------------------
(* What a stream has let out, and what a step does to it. *)

LEMMA OutputTyped ==
    ASSUME Inv, NEW s \in Streams
    PROVE  /\ delivered[s] \in Seq(Event) /\ pending[s] \in Seq(Event)
           /\ next \in Seq(Event) /\ current \in Seq(Event)
           /\ Output(s) \in Seq(Event)
<1>1. /\ delivered[s] \in Seq(Event) /\ pending[s] \in Seq(Event)
      /\ next \in Seq(Event) /\ current \in Seq(Event)
  BY DEF Inv, TypeOK
<1>2. /\ delivered[s] \o pending[s] \in Seq(Event) /\ next \o current \in Seq(Event)
      /\ <<>> \in Seq(Event)
  BY <1>1, ConcatOf
<1>3. QED
  BY <1>1, <1>2, ConcatOf DEF Output

LEMMA OutputTypedNext ==
    ASSUME Inv', NEW s \in Streams
    PROVE  Output(s)' \in Seq(Event)
<1>1. /\ delivered'[s] \in Seq(Event) /\ pending'[s] \in Seq(Event)
      /\ next' \in Seq(Event) /\ current' \in Seq(Event)
  BY DEF Inv, TypeOK
<1>2. /\ delivered'[s] \o pending'[s] \in Seq(Event) /\ next' \o current' \in Seq(Event)
      /\ <<>> \in Seq(Event)
  BY <1>1, ConcatOf
<1>3. QED
  BY <1>1, <1>2, ConcatOf DEF Output

LEMMA Associative ==
    \A q, t, u \in Seq(Event) : (q \o t) \o u = q \o (t \o u)
  OBVIOUS

LEMMA Regroup ==
    \A q, t, u, v \in Seq(Event) : q \o ((t \o u) \o v) = ((q \o t) \o u) \o v
<1> SUFFICES ASSUME NEW q \in Seq(Event), NEW t \in Seq(Event), NEW u \in Seq(Event),
                    NEW v \in Seq(Event)
             PROVE  q \o ((t \o u) \o v) = ((q \o t) \o u) \o v
  OBVIOUS
<1>1. t \o u \in Seq(Event)
  BY ConcatOf
<1>2. (q \o (t \o u)) \o v = q \o ((t \o u) \o v)
  BY <1>1, Associative, ZenonT(30)
<1>3. (q \o t) \o u = q \o (t \o u)
  BY Associative, ZenonT(30)
<1>4. QED
  BY <1>2, <1>3

(* A call puts what it returns in the place of its event; when it throws,   *)
(* what was not yet pending is lost.                                        *)
LEMMA OutputCall ==
    ASSUME Inv, InFlight, NEW es \in Seq(Event), NEW new \in Seq(Entry), Call(es, new),
           NEW s \in Streams, s = active
    PROVE  \E pre, post \in Seq(Event) :
              /\ Output(s) = (pre \o <<item>>) \o post
              /\ \/ status' = status /\ Output(s)' = (pre \o es) \o post
                 \/ /\ status'[s] = "failed" /\ new # <<>>
                    /\ \E cut \in Seq(Event) : pre = Output(s)' \o cut
<1>1. /\ delivered[s] \in Seq(Event) /\ pending[s] = <<>> /\ next \in Seq(Event)
      /\ current \in Seq(Event) /\ current # <<>> /\ active # None
      /\ delivered' = delivered
  BY OutputTyped, CallFlight DEF InFlight, Inv, TypeOK, Idle, Call
<1>2. /\ Tail(current) \in Seq(Event) /\ current = <<item>> \o Tail(current)
      /\ <<item>> \in Seq(Event) /\ <<>> \in Seq(Event)
  <2>1. /\ Tail(current) \in Seq(Event) /\ item \in Event
    BY <1>1, TailOf, CallIs
  <2>2. current = <<Head(current)>> \o Tail(current)
    BY <1>1
  <2>3. QED
    BY <2>1, <2>2 DEF item
<1>3. PICK post \in Seq(Event) : post = Tail(current)
  BY <1>2
<1>4. PICK d \in Seq(Event) : d = delivered[s]
  BY <1>1
<1>5. PICK pre \in Seq(Event) : pre = d \o next
  BY <1>1, ConcatOf
<1>6. ASSUME NEW u \in Seq(Event) PROVE d \o ((next \o u) \o post) = (pre \o u) \o post
  <2>1. next \in Seq(Event)
    BY <1>1
  <2>2. d \o ((next \o u) \o post) = ((d \o next) \o u) \o post
    BY SMTT(30), <2>1
  <2>3. QED
    BY <1>5, <2>2
<1>7. Output(s) = (pre \o <<item>>) \o post
  <2>1. Output(s) = (delivered[s] \o <<>>) \o (next \o (<<item>> \o Tail(current)))
    BY <1>1, <1>2 DEF Output
  <2>2. delivered[s] \o <<>> = delivered[s]
    BY <1>1, NothingAdded
  <2>3. (next \o <<item>>) \o Tail(current) = next \o (<<item>> \o Tail(current))
    BY <1>1, <1>2
  <2>4. d \o ((next \o <<item>>) \o post) = (pre \o <<item>>) \o post
    BY <1>2, <1>6
  <2>5. QED
    BY <1>3, <1>4, <2>1, <2>2, <2>3, <2>4
<1>8. CASE Emit(es)
  <2>1. es # <<>>
    BY <1>1, OutcomeSome DEF Call
  <2>2. CASE /\ active' = active /\ pending' = pending
             /\ next' \o current' = (next \o es) \o Tail(current)
    <3>1. Output(s)' = (delivered[s] \o <<>>) \o ((next \o es) \o Tail(current))
      BY <1>1, <2>2 DEF Output
    <3>2. delivered[s] \o <<>> = delivered[s]
      BY <1>1, NothingAdded
    <3>3. d \o ((next \o es) \o post) = (pre \o es) \o post
      BY <1>6
    <3>4. Output(s)' = (pre \o es) \o post
      BY <1>3, <1>4, <3>1, <3>2, <3>3
    <3>5. status' = status
      BY <1>8 DEF Emit
    <3>6. QED
      BY <1>7, <3>4, <3>5
  <2>3. CASE /\ active' = None /\ Tail(current) = <<>>
             /\ pending' = [pending EXCEPT ![active] = next \o es]
    <3>1. pending'[s] = next \o es /\ s # None
      BY <1>1, <2>3 DEF Inv, TypeOK
    <3>2. Output(s)' = (delivered[s] \o (next \o es)) \o <<>>
      BY <1>1, <2>3, <3>1 DEF Output
    <3>3. (d \o next) \o es = d \o (next \o es)
      <4>1. next \in Seq(Event)
        BY <1>1
      <4>2. QED
        BY SMTT(30), <4>1
    <3>4. Output(s)' = (pre \o es) \o post
      BY <1>3, <1>4, <1>5, <2>3, <3>2, <3>3
    <3>5. status' = status
      BY <1>8 DEF Emit
    <3>6. QED
      BY <1>7, <3>4, <3>5
  <2>4. QED
    BY <1>1, <1>8, <2>1, <2>2, <2>3, EmitIs
<1>9. CASE Throw /\ new # <<>>
  <2>1. active' = None /\ pending' = pending /\ status' = [status EXCEPT ![active] = "failed"]
    BY <1>9 DEF Throw
  <2>2. status'[s] = "failed" /\ s # None
    BY <1>1, <2>1 DEF Inv, TypeOK
  <2>3. Output(s)' = (delivered[s] \o <<>>) \o <<>>
    BY <1>1, <2>1, <2>2 DEF Output
  <2>4. Output(s)' = delivered[s]
    BY <1>1, <2>3, NothingAdded
  <2>5. pre = Output(s)' \o next
    BY <1>4, <1>5, <2>4
  <2>6. QED
    BY <1>1, <1>7, <1>9, <2>2, <2>5
<1>10. QED
  BY <1>8, <1>9 DEF Call

LEMMA OutputOthers ==
    ASSUME Inv, InFlight, NEW es \in Seq(Event), NEW new \in Seq(Entry), Call(es, new),
           NEW s \in Streams, s # active
    PROVE  Output(s)' = Output(s) /\ violations'[s] = violations[s] /\ status'[s] = status[s]
<1>1. /\ active' \in {active, None} /\ delivered' = delivered /\ active # None
      /\ violations' = [violations EXCEPT ![active] = @ \o new] /\ s # None
  BY CallFlight, CallIs, GuardAssumption DEF Call, GuardAssumption
<1>2. /\ pending' = pending \/ \E p : pending' = [pending EXCEPT ![active] = p]
      /\ status' = status \/ \E p : status' = [status EXCEPT ![active] = p]
  BY <1>1, OutcomeSome, EmitIs DEF Call, Throw
<1>3. /\ pending'[s] = pending[s] /\ status'[s] = status[s]
      /\ violations'[s] = violations[s]
  BY <1>1, <1>2 DEF Inv, TypeOK
<1>4. QED
  BY <1>1, <1>3 DEF Output

(* The generator adds the event it pulls and, when it is left, loses what   *)
(* was pending.                                                             *)
LEMMA OutputStep ==
    ASSUME Inv, NEW t \in Streams, Step(t), NEW s \in Streams
    PROVE  \/ /\ Output(s)' = Output(s) /\ pulled'[s] = pulled[s]
              /\ (status'[s] \in {"open", "finished"} => status[s] \in {"open", "finished"})
           \/ \E e \in Inputs : /\ Output(s)' = Output(s) \o <<e>>
                                /\ pulled'[s] = Append(pulled[s], e)
                                /\ status'[s] = status[s] /\ status[s] = "open"
           \/ /\ \E cut \in Seq(Event) : Output(s) = Output(s)' \o cut
              /\ pulled'[s] = pulled[s] /\ status'[s] = "returned"
<1>1. /\ delivered[s] \in Seq(Event) /\ pending[s] \in Seq(Event)
      /\ pulled \in [Streams -> Seq(Inputs)] /\ delivered \in [Streams -> Seq(Event)]
      /\ pending \in [Streams -> Seq(Event)]
      /\ status \in [Streams -> {"open", "finished", "failed", "returned"}]
      /\ active = None /\ s # None /\ status[t] = "open"
  BY OutputTyped, GuardAssumption
  DEF Inv, TypeOK, GuardAssumption, Step, Pull, Yield, Finish, SourceFails, Return, Suspended,
      Idle
<1>2. /\ delivered[s] \o pending[s] \in Seq(Event)
      /\ Output(s) = delivered[s] \o pending[s]
  BY <1>1, ConcatOf, NothingAdded DEF Output
<1>3. ASSUME NEW e \in Inputs, Pull(t, e)
      PROVE  \/ Output(s)' = Output(s) /\ pulled'[s] = pulled[s] /\ status'[s] = status[s]
             \/ /\ Output(s)' = Output(s) \o <<e>> /\ pulled'[s] = Append(pulled[s], e)
                /\ status'[s] = status[s] /\ status[s] = "open"
  <2>1. /\ pending[t] = <<>> /\ delivered' = delivered /\ status' = status
        /\ pulled' = [pulled EXCEPT ![t] = Append(@, e)] /\ e \in Event
        /\ \/ active' = None /\ pending' = [pending EXCEPT ![t] = <<e>>]
           \/ active' = t /\ current' = <<e>> /\ next' = <<>> /\ pending' = pending
    BY <1>1, <1>3, GuardAssumption DEF Pull, pipeline, GuardAssumption
  <2>2. CASE t # s
    <3>1. pending'[s] = pending[s] /\ active' # s /\ pulled'[s] = pulled[s]
      BY <1>1, <2>1, <2>2
    <3>2. Output(s)' = Output(s)
      BY <1>1, <2>1, <3>1 DEF Output
    <3>3. QED
      BY <2>1, <3>1, <3>2
  <2>3. CASE t = s
    <3>1. Output(s) = delivered[s] /\ pulled'[s] = Append(pulled[s], e)
          /\ status'[s] = status[s] /\ <<e>> \in Seq(Event) /\ status[s] = "open"
      BY <1>1, <1>2, <2>1, <2>3, NothingAdded
    <3>2. CASE active' = None /\ pending' = [pending EXCEPT ![t] = <<e>>]
      <4>1. Output(s)' = (delivered[s] \o <<e>>) \o <<>>
        BY <1>1, <2>1, <2>3, <3>2 DEF Output
      <4>2. delivered[s] \o <<e>> \in Seq(Event)
        BY <1>1, <3>1, ConcatOf
      <4>3. QED
        BY <3>1, <4>1, <4>2, NothingAdded
    <3>3. CASE active' = t /\ current' = <<e>> /\ next' = <<>> /\ pending' = pending
      <4>1. Output(s)' = (delivered[s] \o <<>>) \o (<<>> \o <<e>>)
        BY <1>1, <2>1, <2>3, <3>3 DEF Output
      <4>2. QED
        BY <1>1, <3>1, <4>1, NothingAdded
    <3>4. QED
      BY <2>1, <3>2, <3>3
  <2>4. QED
    BY <2>2, <2>3
<1>4. CASE Yield(t)
  <2>1. /\ pending[t] # <<>> /\ active' = None /\ status' = status /\ pulled' = pulled
        /\ delivered' = [delivered EXCEPT ![t] = Append(@, Head(pending[t]))]
        /\ pending' = [pending EXCEPT ![t] = Tail(@)]
    BY <1>1, <1>4 DEF Yield, pipeline
  <2>2. CASE t # s
    BY <1>1, <2>1, <2>2 DEF Output
  <2>3. CASE t = s
    <3>1. /\ Head(pending[s]) \in Event /\ Tail(pending[s]) \in Seq(Event)
          /\ pending[s] = <<Head(pending[s])>> \o Tail(pending[s])
          /\ Append(delivered[s], Head(pending[s])) = delivered[s] \o <<Head(pending[s])>>
          /\ <<Head(pending[s])>> \in Seq(Event)
      <4>1. Head(pending[s]) \in Event /\ Tail(pending[s]) \in Seq(Event)
        BY <1>1, <2>1, <2>3, TailOf
      <4>2. QED
        BY <1>1, <2>1, <2>3, <4>1
    <3>2. Output(s)' = ((delivered[s] \o <<Head(pending[s])>>) \o Tail(pending[s])) \o <<>>
      BY <1>1, <2>1, <2>3, <3>1 DEF Output
    <3>3. (delivered[s] \o <<Head(pending[s])>>) \o Tail(pending[s])
              = delivered[s] \o (<<Head(pending[s])>> \o Tail(pending[s]))
      BY <1>1, <3>1, Associative, Zenon
    <3>4. Output(s)' = Output(s)
      BY <1>2, <3>1, <3>2, <3>3, NothingAdded
    <3>5. QED
      BY <2>1, <3>4
  <2>4. QED
    BY <2>2, <2>3
<1>5. CASE Finish(t) \/ SourceFails(t)
  <2>1. /\ active' = None /\ pulled' = pulled /\ delivered' = delivered /\ pending' = pending
        /\ \E end \in {"finished", "failed"} : status' = [status EXCEPT ![t] = end]
    BY <1>1, <1>5 DEF Finish, SourceFails, pipeline
  <2>2. Output(s)' = Output(s)
    BY <1>1, <2>1 DEF Output
  <2>3. QED
    BY <1>1, <2>1, <2>2
<1>6. CASE Return(t)
  <2>1. /\ active' = None /\ pulled' = pulled /\ delivered' = delivered
        /\ pending' = [pending EXCEPT ![t] = <<>>] /\ status' = [status EXCEPT ![t] = "returned"]
    BY <1>1, <1>6 DEF Return, pipeline
  <2>2. CASE t # s
    BY <1>1, <2>1, <2>2 DEF Output
  <2>3. CASE t = s
    <3>1. Output(s)' = (delivered[s] \o <<>>) \o <<>> /\ status'[s] = "returned"
      BY <1>1, <2>1, <2>3 DEF Output
    <3>2. Output(s)' = delivered[s]
      BY <1>1, <3>1, NothingAdded
    <3>3. QED
      BY <1>1, <1>2, <2>1, <3>1, <3>2
  <2>4. QED
    BY <2>2, <2>3
<1>7. QED
  BY <1>3, <1>4, <1>5, <1>6 DEF Step

-----------------------------------------------------------------------------
(* Audit mode is a shadow. *)

(* f is at the place of d. *)
Matches(f, d) ==
    /\ f.type = d.type
    /\ f.type = "tool_call" => f.id = d.id /\ f.name = d.name /\ f.phase = d.phase

Shadows(out, ps) ==
    /\ Len(out) <= Len(ps)
    /\ \A i \in DOMAIN out : Matches(out[i], ps[i])

(* One event in the place of another, at the end, or the end cut off. *)
LEMMA ShadowReplaced ==
    ASSUME NEW pre \in Seq(Event), NEW post \in Seq(Event), NEW d \in Event, NEW f \in Event,
           Matches(f, d), NEW ps \in Seq(Inputs), Shadows((pre \o <<d>>) \o post, ps)
    PROVE  /\ Shadows((pre \o <<f>>) \o post, ps)
           /\ Len((pre \o <<f>>) \o post) = Len((pre \o <<d>>) \o post)
<1> DEFINE old == (pre \o <<d>>) \o post
           grown == (pre \o <<f>>) \o post
<1>1. /\ Len(pre) \in Nat /\ Len(old) \in Nat /\ Len(grown) = Len(old)
      /\ DOMAIN grown = DOMAIN old /\ DOMAIN old = 1..Len(old)
      /\ \A i \in DOMAIN old : \/ grown[i] = old[i]
                               \/ grown[i] = f /\ old[i] = d
  OBVIOUS
<1> HIDE DEF old, grown
<1>2. Shadows(old, ps)
  BY DEF old
<1>3. ASSUME NEW i \in DOMAIN grown PROVE Matches(grown[i], ps[i])
  <2>1. i \in DOMAIN old /\ Matches(old[i], ps[i])
    BY <1>1, <1>2 DEF Shadows
  <2>2. QED
    BY <1>1, <2>1 DEF Matches
<1>4. Len(grown) <= Len(ps)
  BY <1>1, <1>2 DEF Shadows
<1>5. Shadows(grown, ps)
  BY <1>3, <1>4 DEF Shadows
<1>6. QED
  BY <1>1, <1>5 DEF old, grown

LEMMA ShadowCut ==
    ASSUME NEW out \in Seq(Event), NEW cut \in Seq(Event), NEW ps \in Seq(Inputs),
           Shadows(out \o cut, ps)
    PROVE  Shadows(out, ps)
<1>1. /\ Len(out) <= Len(out \o cut) /\ Len(out) \in Nat /\ Len(out \o cut) \in Nat
      /\ Len(ps) \in Nat
      /\ \A i \in DOMAIN out : i \in DOMAIN (out \o cut) /\ (out \o cut)[i] = out[i]
  OBVIOUS
<1>2. QED
  BY <1>1 DEF Shadows

LEMMA ShadowGrown ==
    ASSUME NEW out \in Seq(Event), NEW e \in Inputs, NEW ps \in Seq(Inputs),
           Shadows(out, ps), Len(out) = Len(ps)
    PROVE  Shadows(out \o <<e>>, Append(ps, e)) /\ Len(out \o <<e>>) = Len(Append(ps, e))
<1>1. /\ Len(out \o <<e>>) = Len(Append(ps, e)) /\ Len(out \o <<e>>) \in Nat
      /\ \A i \in DOMAIN (out \o <<e>>) :
            \/ i \in DOMAIN out /\ (out \o <<e>>)[i] = out[i] /\ Append(ps, e)[i] = ps[i]
            \/ (out \o <<e>>)[i] = e /\ Append(ps, e)[i] = e
  OBVIOUS
<1>2. QED
  BY <1>1 DEF Shadows, Matches

Shadowed ==
    mode = "audit" => \A s \in Streams :
        /\ Shadows(Output(s), pulled[s])
        /\ Whole(s) => Len(Output(s)) = Len(pulled[s])

(* In audit mode a rule returns one event, of the same kind. *)
LEMMA OneForOne ==
    ASSUME Inv, InFlight, NEW es \in Seq(Event), NEW new \in Seq(Entry), Call(es, new),
           mode = "audit"
    PROVE  \E f \in Event : es = <<f>> /\ Matches(f, item)
<1>1. item \in Event /\ Blank("error") \in Event /\ Blank("error").type = "error"
      /\ Matches(item, item)
  BY CallIs, OwnEvents DEF Blank, Matches
<1>2. CASE Kept(es, new) \/ Objected(es, new)
  BY <1>1, <1>2 DEF Kept, Objected, Replacement
<1>3. CASE Cleaned(es, new)
  <2>1. \A f \in Event : Redaction(item, f) => Matches(f, item)
    BY DEF Redaction, Matches
  <2>2. QED
    BY <1>3, <2>1 DEF Cleaned
<1>4. CASE Hidden(es, new)
  BY <1>1, <1>4 DEF Hidden, Matches
<1>5. QED
  BY <1>2, <1>3, <1>4 DEF Call, Outcome

LEMMA ShadowedCall ==
    ASSUME Inv, Inv', InFlight, Shadowed,
           NEW es \in Seq(Event), NEW new \in Seq(Entry), Call(es, new)
    PROVE  Shadowed'
<1>1. mode' = mode /\ pulled' = pulled /\ item \in Event /\ active \in Streams
      /\ status[active] = "open"
  BY CallFlight, CallIs DEF InFlight, Call
<1>2. SUFFICES ASSUME mode = "audit", NEW s \in Streams
               PROVE  /\ Shadows(Output(s)', pulled[s])
                      /\ Whole(s)' => Len(Output(s)') = Len(pulled[s])
  BY <1>1 DEF Shadowed
<1>3. /\ Shadows(Output(s), pulled[s])
      /\ Whole(s) => Len(Output(s)) = Len(pulled[s])
  BY <1>2 DEF Shadowed
<1>4. pulled[s] \in Seq(Inputs)
  BY DEF Inv, TypeOK
<1>5. Output(s)' \in Seq(Event)
  BY OutputTypedNext
<1>6. CASE s # active
  BY <1>3, <1>6, OutputOthers DEF Whole
<1>7. CASE s = active
  <2>1. PICK f \in Event : es = <<f>> /\ Matches(f, item)
    BY <1>2, OneForOne
  <2>2. PICK pre \in Seq(Event), post \in Seq(Event) :
            /\ Output(s) = (pre \o <<item>>) \o post
            /\ \/ status' = status /\ Output(s)' = (pre \o es) \o post
               \/ /\ status'[s] = "failed" /\ new # <<>>
                  /\ \E cut \in Seq(Event) : pre = Output(s)' \o cut
    BY <1>7, OutputCall
  <2>3. CASE status' = status /\ Output(s)' = (pre \o es) \o post
    <3>1. /\ Shadows((pre \o <<f>>) \o post, pulled[s])
          /\ Len((pre \o <<f>>) \o post) = Len((pre \o <<item>>) \o post)
      BY <1>1, <1>3, <1>4, <2>1, <2>2, ShadowReplaced
    <3>2. QED
      BY <1>3, <2>1, <2>2, <2>3, <3>1 DEF Whole
  <2>4. CASE status'[s] = "failed" /\ \E cut \in Seq(Event) : pre = Output(s)' \o cut
    <3>1. PICK cut \in Seq(Event) : pre = Output(s)' \o cut
      BY <2>4
    <3>2. /\ pre \o <<item>> \in Seq(Event) /\ <<item>> \in Seq(Event)
          /\ Shadows((pre \o <<item>>) \o post, pulled[s])
      BY <1>1, <1>3, <2>2, ConcatOf
    <3>3. Shadows(pre, pulled[s])
      BY <1>4, <3>2, ShadowCut
    <3>4. Shadows(Output(s)', pulled[s])
      BY <1>4, <1>5, <3>1, <3>3, ShadowCut
    <3>5. QED
      BY <2>4, <3>4 DEF Whole
  <2>5. QED
    BY <2>2, <2>3, <2>4
<1>8. QED
  BY <1>6, <1>7

LEMMA ShadowedStep ==
    ASSUME Inv, Inv', Shadowed, NEW t \in Streams, Step(t)
    PROVE  Shadowed'
<1>1. mode' = mode
  BY DEF Step, Pull, Yield, Finish, SourceFails, Return, policy
<1>2. SUFFICES ASSUME mode = "audit", NEW s \in Streams
               PROVE  /\ Shadows(Output(s)', pulled'[s])
                      /\ Whole(s)' => Len(Output(s)') = Len(pulled'[s])
  BY <1>1 DEF Shadowed
<1>3. /\ Shadows(Output(s), pulled[s]) /\ pulled[s] \in Seq(Inputs)
      /\ Whole(s) => Len(Output(s)) = Len(pulled[s])
      /\ Output(s) \in Seq(Event)
  BY <1>2, OutputTyped DEF Shadowed, Inv, TypeOK
<1>4. Output(s)' \in Seq(Event)
  BY OutputTypedNext
<1>5. CASE /\ Output(s)' = Output(s) /\ pulled'[s] = pulled[s]
           /\ (status'[s] \in {"open", "finished"} => status[s] \in {"open", "finished"})
  BY <1>3, <1>5 DEF Whole
<1>6. CASE \E e \in Inputs : /\ Output(s)' = Output(s) \o <<e>>
                             /\ pulled'[s] = Append(pulled[s], e)
                             /\ status'[s] = status[s] /\ status[s] = "open"
  <2>1. PICK e \in Inputs : /\ Output(s)' = Output(s) \o <<e>>
                            /\ pulled'[s] = Append(pulled[s], e)
    BY <1>6
  <2>2. Len(Output(s)) = Len(pulled[s])
    BY <1>3, <1>6 DEF Whole
  <2>3. QED
    BY <1>3, <2>1, <2>2, ShadowGrown
<1>7. CASE /\ \E cut \in Seq(Event) : Output(s) = Output(s)' \o cut
           /\ pulled'[s] = pulled[s] /\ status'[s] = "returned"
  BY <1>3, <1>4, <1>7, ShadowCut DEF Whole
<1>8. QED
  BY <1>5, <1>6, <1>7, OutputStep

Watching == Recorded /\ Shadowed

LEMMA WatchingInit == ASSUME Init PROVE Watching
<1>1. \A s \in Streams : /\ delivered[s] = <<>> /\ pending[s] = <<>> /\ pulled[s] = <<>>
                         /\ s # active
  BY GuardAssumption DEF Init, GuardAssumption
<1>2. \A s \in Streams : Output(s) = <<>>
  BY <1>1 DEF Output
<1>3. QED
  BY <1>1, <1>2, RecordedInit DEF Watching, Shadowed, Shadows

LEMMA WatchingStep == ASSUME Watching, [Next]_vars PROVE Watching'
<1>1. Recorded /\ Inv /\ InFlight /\ Shadowed /\ Recorded' /\ Inv'
  BY RecordedStep DEF Watching, Recorded
<1>2. ASSUME UNCHANGED vars PROVE Shadowed'
  <2>1. UNCHANGED <<mode, pulled, delivered, pending, active, next, current, status>>
    BY <1>2 DEF vars, policy, pipeline
  <2>2. \A s \in Streams : Output(s)' = Output(s) /\ (Whole(s)' <=> Whole(s))
    BY <2>1 DEF Output, Whole
  <2>3. QED
    BY <1>1, <2>1, <2>2 DEF Shadowed
<1>3. Shadowed'
  BY <1>1, <1>2, ShadowedCall, ShadowedStep, Steps
<1>4. QED
  BY <1>1, <1>3 DEF Watching

(* In audit mode the n-th event of guardEvents is the n-th of its source up *)
(* to redacted text, whatever the rules: none is dropped, added or moved,   *)
(* also when a hook throws or the consumer leaves.                          *)
THEOREM AuditShadowCorrect == Spec => []AuditShadow
<1>1. Watching => AuditShadow
  BY DEF Watching, AuditShadow, Shadowed, Shadows, Matches
<1>2. QED
  BY <1>1, WatchingInit, WatchingStep, PTL DEF Spec

-----------------------------------------------------------------------------
(* A call is blocked exactly when that is on record. *)
PolicyFinishes == {e \in Event : IsPolicyFinish(e)}
OfTools == {v \in Entry : OfToolRule(v)}

Balance(s) == IF mode = "audit" THEN 0 ELSE HowMany(violations[s], OfTools)

Balanced ==
    \A s \in Streams : Whole(s) =>
        HowMany(Output(s), PolicyFinishes) = HowMany(pulled[s], PolicyFinishes) + Balance(s)

LEMMA CountsAre ==
    ASSUME Inv, NEW s \in Streams
    PROVE  /\ Count(Output(s), IsPolicyFinish) = HowMany(Output(s), PolicyFinishes)
           /\ Count(pulled[s], IsPolicyFinish) = HowMany(pulled[s], PolicyFinishes)
           /\ Count(violations[s], OfToolRule) = HowMany(violations[s], OfTools)
<1>1. /\ Output(s) \in Seq(Event) /\ pulled[s] \in Seq(Event) /\ violations[s] \in Seq(Entry)
  <2>1. pulled[s] \in Seq(Inputs) /\ violations[s] \in Seq(Entry) /\ Inputs \subseteq Event
    BY GuardAssumption DEF Inv, TypeOK, GuardAssumption
  <2>2. pulled[s] \in Seq(Event)
    BY <2>1
  <2>3. QED
    BY <2>1, <2>2, OutputTyped
<1>2. /\ {i \in DOMAIN Output(s) : IsPolicyFinish(Output(s)[i])} = Where(Output(s), PolicyFinishes)
      /\ {i \in DOMAIN pulled[s] : IsPolicyFinish(pulled[s][i])} = Where(pulled[s], PolicyFinishes)
      /\ {i \in DOMAIN violations[s] : OfToolRule(violations[s][i])}
             = Where(violations[s], OfTools)
  <2>1. \A i \in DOMAIN Output(s) : Output(s)[i] \in Event
    BY <1>1
  <2>2. \A i \in DOMAIN pulled[s] : pulled[s][i] \in Event
    BY <1>1
  <2>3. \A i \in DOMAIN violations[s] : violations[s][i] \in Entry
    BY <1>1
  <2>4. QED
    BY <2>1, <2>2, <2>3 DEF Where, PolicyFinishes, OfTools
<1>3. QED
  BY <1>2 DEF Count, HowMany

(* What a call adds to the stream, and to the record. *)
LEMMA CallBalance ==
    ASSUME Inv, InFlight, NEW es \in Seq(Event), NEW new \in Seq(Entry), Call(es, new)
    PROVE  /\ HowMany(es, PolicyFinishes)
                  = HowMany(<<item>>, PolicyFinishes)
                        + (IF mode = "audit" THEN 0 ELSE HowMany(new, OfTools))
           /\ HowMany(new, OfTools) \in Nat /\ HowMany(<<item>>, PolicyFinishes) \in Nat
<1>1. /\ item \in Event /\ HowMany(new, OfTools) \in Nat
      /\ HowMany(<<item>>, PolicyFinishes) \in Nat
  <2>1. item \in Event
    BY CallIs
  <2>2. <<item>> \in Seq(Event)
    BY <2>1
  <2>3. QED
    BY <2>1, <2>2, WhereFinite
<1>2. ASSUME NEW e, e.type # "finish" PROVE HowMany(<<e>>, PolicyFinishes) = 0
  BY <1>2, CountOne DEF PolicyFinishes, IsPolicyFinish
<1>3. CASE Kept(es, new)
  BY <1>1, <1>3, CountEmpty DEF Kept
<1>4. CASE Cleaned(es, new)
  <2>1. PICK f \in Event : Redaction(item, f) /\ es = <<f>>
    BY <1>4 DEF Cleaned
  <2>2. f.type # "finish" /\ item.type # "finish"
    BY <1>4, <2>1 DEF Cleaned, Redaction
  <2>3. \A i \in DOMAIN new : new[i] \notin OfTools
    BY <1>4 DEF Cleaned, OfTools, OfToolRule, Violation, RedactionRules, ToolRules
  <2>4. HowMany(new, OfTools) = 0
    BY <2>3, CountNone
  <2>5. QED
    BY <1>2, <2>1, <2>2, <2>4
<1>5. CASE Objected(es, new)
  <2>1. item.type # "finish" /\ es = Replacement /\ new = <<Violation(rule.kind)>>
    BY <1>5 DEF Objected
  <2>2. Violation(rule.kind) \in OfTools
    <3>1. new[1] = Violation(rule.kind) /\ new[1] \in Entry
      BY <2>1
    <3>2. Violation(rule.kind).rule \in ToolRules
      BY <1>5 DEF Objected, Violation
    <3>3. QED
      BY <3>1, <3>2 DEF OfTools, OfToolRule
  <2>3. HowMany(new, OfTools) = 1
    BY <2>1, <2>2, CountOne
  <2>4. CASE mode = "audit"
    BY <1>1, <2>1, <2>4 DEF Replacement
  <2>5. CASE mode # "audit"
    <3>1. es = <<PolicyError, PolicyFinish>>
      BY <2>1, <2>5 DEF Replacement
    <3>2. /\ PolicyError \in Event /\ PolicyFinish \in Event /\ PolicyError.type # "finish"
          /\ PolicyFinish \in PolicyFinishes
      BY OwnEvents DEF PolicyError, PolicyFinish, Blank, PolicyFinishes, IsPolicyFinish
    <3>3. <<PolicyError>> \in Seq(Event) /\ es = Append(<<PolicyError>>, PolicyFinish)
      BY <3>1, <3>2
    <3>4. HowMany(es, PolicyFinishes) = HowMany(<<PolicyError>>, PolicyFinishes) + 1
      BY ZenonT(30), <3>2, <3>3, CountAppend
    <3>5. HowMany(<<PolicyError>>, PolicyFinishes) = 0
      BY <1>2, <3>2
    <3>6. HowMany(<<item>>, PolicyFinishes) = 0
      BY <1>2, <2>1
    <3>7. QED
      BY <1>1, <2>3, <2>5, <3>4, <3>5, <3>6
  <2>6. QED
    BY <2>4, <2>5
<1>6. CASE Hidden(es, new)
  <2>1. /\ es = <<Blank("error")>> /\ Blank("error").type # "finish" /\ item.type # "finish"
        /\ new = <<Violation("sanitize_errors")>>
    BY <1>6 DEF Hidden, Blank
  <2>2. Violation("sanitize_errors") \notin OfTools
    BY DEF Violation, OfTools, OfToolRule, ToolRules
  <2>3. HowMany(new, OfTools) = 0
    BY <2>1, <2>2, CountOne
  <2>4. QED
    BY <1>2, <2>1, <2>3
<1>7. QED
  BY <1>1, <1>3, <1>4, <1>5, <1>6 DEF Call, Outcome

LEMMA CountMiddle ==
    ASSUME NEW pre \in Seq(Event), NEW mid \in Seq(Event), NEW post \in Seq(Event), NEW S
    PROVE  /\ HowMany((pre \o mid) \o post, S)
                  = (HowMany(pre, S) + HowMany(mid, S)) + HowMany(post, S)
           /\ HowMany(pre, S) \in Nat /\ HowMany(mid, S) \in Nat /\ HowMany(post, S) \in Nat
<1>1. pre \o mid \in Seq(Event)
  BY ConcatOf
<1>2. HowMany((pre \o mid) \o post, S) = HowMany(pre \o mid, S) + HowMany(post, S)
  BY <1>1, CountConcat
<1>3. HowMany(pre \o mid, S) = HowMany(pre, S) + HowMany(mid, S)
  BY CountConcat
<1>4. HowMany(pre, S) \in Nat /\ HowMany(mid, S) \in Nat /\ HowMany(post, S) \in Nat
  BY WhereFinite
<1>5. QED
  BY <1>2, <1>3, <1>4

LEMMA CountReplaced ==
    ASSUME NEW pre \in Seq(Event), NEW mid \in Seq(Event), NEW post \in Seq(Event), NEW S,
           NEW es \in Seq(Event), NEW n \in Nat, HowMany(es, S) = HowMany(mid, S) + n
    PROVE  HowMany((pre \o es) \o post, S) = HowMany((pre \o mid) \o post, S) + n
<1>1. /\ HowMany((pre \o es) \o post, S)
             = (HowMany(pre, S) + HowMany(es, S)) + HowMany(post, S)
      /\ HowMany((pre \o mid) \o post, S)
             = (HowMany(pre, S) + HowMany(mid, S)) + HowMany(post, S)
      /\ HowMany(pre, S) \in Nat /\ HowMany(mid, S) \in Nat /\ HowMany(post, S) \in Nat
  BY CountMiddle
<1>2. QED
  BY <1>1

LEMMA BalancedCall ==
    ASSUME Inv, InFlight, Balanced,
           NEW es \in Seq(Event), NEW new \in Seq(Entry), Call(es, new)
    PROVE  Balanced'
<1>1. /\ mode' = mode /\ pulled' = pulled /\ item \in Event /\ active \in Streams
      /\ status[active] = "open" /\ violations[active] \in Seq(Entry)
      /\ violations'[active] = violations[active] \o new
  BY CallFlight, CallIs DEF InFlight, Call
<1>2. SUFFICES ASSUME NEW s \in Streams, Whole(s)'
               PROVE  HowMany(Output(s)', PolicyFinishes)
                          = HowMany(pulled[s], PolicyFinishes) + Balance(s)'
  BY <1>1 DEF Balanced
<1>3. CASE s # active
  BY <1>1, <1>2, <1>3, OutputOthers DEF Balanced, Balance, Whole
<1>4. CASE s = active
  <2> DEFINE blocked == IF mode = "audit" THEN 0 ELSE HowMany(new, OfTools)
  <2>1. PICK mid \in Seq(Event) : mid = <<item>>
    <3>1. <<item>> \in Seq(Event)
      BY <1>1
    <3>2. QED
      BY <3>1
  <2>2. PICK pre \in Seq(Event), post \in Seq(Event) :
            /\ Output(s) = (pre \o <<item>>) \o post
            /\ \/ status' = status /\ Output(s)' = (pre \o es) \o post
               \/ /\ status'[s] = "failed" /\ new # <<>>
                  /\ \E cut \in Seq(Event) : pre = Output(s)' \o cut
    BY ZenonT(30), <1>4, OutputCall
  <2>3. Output(s)' = (pre \o es) \o post
    BY <1>2, <2>2 DEF Whole
  <2>4. Balance(s)' = Balance(s) + blocked
        /\ Balance(s) \in Nat
    <3>1. HowMany(violations[s] \o new, OfTools)
              = HowMany(violations[s], OfTools) + HowMany(new, OfTools)
      BY <1>1, <1>4, CountConcat
    <3>2. HowMany(violations[s], OfTools) \in Nat
      BY <1>1, <1>4, WhereFinite
    <3>3. violations'[s] = violations[s] \o new /\ mode' = mode
      BY <1>1, <1>4
    <3>4. CASE mode = "audit"
      BY <3>3, <3>4 DEF Balance
    <3>5. CASE mode # "audit"
      BY <3>1, <3>2, <3>3, <3>5 DEF Balance
    <3>6. QED
      BY <3>4, <3>5
  <2>5. HowMany(Output(s), PolicyFinishes) = HowMany(pulled[s], PolicyFinishes) + Balance(s)
        /\ HowMany(pulled[s], PolicyFinishes) \in Nat
    <3>1. pulled[s] \in Seq(Inputs)
      BY DEF Inv, TypeOK
    <3>2. HowMany(pulled[s], PolicyFinishes) \in Nat
      BY <3>1, WhereFinite
    <3>3. QED
      BY <1>1, <1>4, <3>2 DEF Balanced, Whole
  <2>6. /\ HowMany(es, PolicyFinishes)
               = HowMany(mid, PolicyFinishes) + blocked
        /\ HowMany(new, OfTools) \in Nat /\ HowMany(mid, PolicyFinishes) \in Nat
    BY <2>1, CallBalance
  <2>7. blocked \in Nat
    BY <2>6
  <2> HIDE DEF blocked
  <2>8. HowMany(Output(s)', PolicyFinishes) = HowMany(Output(s), PolicyFinishes) + blocked
    <3>1. HowMany(es, PolicyFinishes) = HowMany(mid, PolicyFinishes) + blocked
      BY <2>6
    <3>2. HowMany((pre \o es) \o post, PolicyFinishes)
              = HowMany((pre \o mid) \o post, PolicyFinishes) + blocked
      BY <2>7, <3>1, CountReplaced
    <3>3. Output(s) = (pre \o mid) \o post
      BY <2>1, <2>2
    <3>4. QED
      BY <2>3, <3>2, <3>3
  <2>9. QED
    BY <2>4, <2>5, <2>7, <2>8
<1>5. QED
  BY <1>3, <1>4

LEMMA BalancedStep ==
    ASSUME Inv, Balanced, NEW t \in Streams, Step(t)
    PROVE  Balanced'
<1>1. mode' = mode /\ violations' = violations
  BY DEF Step, Pull, Yield, Finish, SourceFails, Return, policy, records
<1>2. SUFFICES ASSUME NEW s \in Streams, Whole(s)'
               PROVE  HowMany(Output(s)', PolicyFinishes)
                          = HowMany(pulled'[s], PolicyFinishes) + Balance(s)
  BY <1>1 DEF Balanced, Balance
<1>3. /\ pulled[s] \in Seq(Inputs) /\ Output(s) \in Seq(Event) /\ Inputs \subseteq Event
      /\ Whole(s) => HowMany(Output(s), PolicyFinishes)
                         = HowMany(pulled[s], PolicyFinishes) + Balance(s)
  BY OutputTyped, GuardAssumption DEF Balanced, Inv, TypeOK, GuardAssumption
<1>4. CASE /\ Output(s)' = Output(s) /\ pulled'[s] = pulled[s]
           /\ (status'[s] \in {"open", "finished"} => status[s] \in {"open", "finished"})
  BY <1>2, <1>3, <1>4 DEF Whole
<1>5. CASE \E e \in Inputs : /\ Output(s)' = Output(s) \o <<e>>
                             /\ pulled'[s] = Append(pulled[s], e)
                             /\ status'[s] = status[s] /\ status[s] = "open"
  <2>1. PICK e \in Inputs : /\ Output(s)' = Output(s) \o <<e>>
                            /\ pulled'[s] = Append(pulled[s], e)
    BY <1>5
  <2>2. <<e>> \in Seq(Event) /\ <<e>> \in Seq(Inputs)
    BY <1>3
  <2>3. HowMany(Output(s)', PolicyFinishes)
            = HowMany(Output(s), PolicyFinishes) + HowMany(<<e>>, PolicyFinishes)
    <3>1. HowMany(Output(s) \o <<e>>, PolicyFinishes)
              = HowMany(Output(s), PolicyFinishes) + HowMany(<<e>>, PolicyFinishes)
      BY <1>3, <2>2, CountConcat
    <3>2. QED
      BY <2>1, <3>1
  <2>4. HowMany(pulled'[s], PolicyFinishes)
            = HowMany(pulled[s], PolicyFinishes) + (IF e \in PolicyFinishes THEN 1 ELSE 0)
    BY <1>3, <2>1, CountAppend
  <2>5. /\ HowMany(pulled[s], PolicyFinishes) \in Nat
        /\ HowMany(<<e>>, PolicyFinishes) = IF e \in PolicyFinishes THEN 1 ELSE 0
    BY <1>3, WhereFinite, CountOne
  <2>6. Balance(s) \in Nat
    <3>1. violations[s] \in Seq(Entry)
      BY DEF Inv, TypeOK
    <3>2. QED
      BY <3>1, WhereFinite DEF Balance
  <2>7. QED
    BY <1>3, <1>5, <2>3, <2>4, <2>5, <2>6 DEF Whole
<1>6. CASE status'[s] = "returned"
  BY <1>2, <1>6 DEF Whole
<1>7. QED
  BY <1>4, <1>5, <1>6, OutputStep

(* A finish that the source did not send stands behind an error. *)
Announced(out) ==
    \A i \in DOMAIN out : IsPolicyFinish(out[i]) => i > 1 /\ out[i - 1].type = "error"

Unfinished(ps) == \A i \in DOMAIN ps : ~IsPolicyFinish(ps[i])

Heralded == \A s \in Streams : Unfinished(pulled[s]) => Announced(Output(s))

LEMMA AnnouncedReplaced ==
    ASSUME NEW pre \in Seq(Event), NEW post \in Seq(Event), NEW d \in Event, NEW f \in Event,
           IsPolicyFinish(f) => IsPolicyFinish(d), d.type = "error" => f.type = "error",
           Announced((pre \o <<d>>) \o post)
    PROVE  Announced((pre \o <<f>>) \o post)
<1> DEFINE old == (pre \o <<d>>) \o post
           grown == (pre \o <<f>>) \o post
<1>1. /\ DOMAIN grown = DOMAIN old /\ DOMAIN old \subseteq Nat
      /\ \A i \in DOMAIN old : /\ \/ grown[i] = old[i]
                                  \/ grown[i] = f /\ old[i] = d
                               /\ i > 1 => i - 1 \in DOMAIN old
  OBVIOUS
<1> HIDE DEF old, grown
<1>2. Announced(old)
  BY DEF old
<1>3. ASSUME NEW i \in DOMAIN grown, IsPolicyFinish(grown[i])
      PROVE  i > 1 /\ grown[i - 1].type = "error"
  <2>1. i \in DOMAIN old /\ IsPolicyFinish(old[i])
    BY <1>1, <1>3
  <2>2. i > 1 /\ old[i - 1].type = "error"
    BY <1>2, <2>1 DEF Announced
  <2>3. QED
    BY <1>1, <2>1, <2>2
<1>4. QED
  BY <1>3 DEF Announced, grown

LEMMA AnnouncedSubstituted ==
    ASSUME NEW pre \in Seq(Event), NEW post \in Seq(Event), NEW d \in Event,
           d.type # "error", Announced((pre \o <<d>>) \o post)
    PROVE  Announced((pre \o <<PolicyError, PolicyFinish>>) \o post)
<1> DEFINE old == (pre \o <<d>>) \o post
           grown == (pre \o <<PolicyError, PolicyFinish>>) \o post
<1>1. Len(pre) \in Nat /\ Len(post) \in Nat
  OBVIOUS
<1>2. /\ DOMAIN old = 1..Len(pre) + 1 + Len(post)
      /\ \A i \in 1..Len(pre) : old[i] = pre[i]
      /\ old[Len(pre) + 1] = d
      /\ \A i \in 1..Len(post) : old[i + Len(pre) + 1] = post[i]
  OBVIOUS
<1>3. /\ DOMAIN grown = 1..Len(pre) + 2 + Len(post)
      /\ \A i \in 1..Len(pre) : grown[i] = pre[i]
      /\ grown[Len(pre) + 1] = PolicyError /\ grown[Len(pre) + 2] = PolicyFinish
      /\ \A i \in 1..Len(post) : grown[i + Len(pre) + 2] = post[i]
  <2>1. PolicyError \in Event /\ PolicyFinish \in Event
    BY OwnEvents
  <2>2. QED
    BY <2>1
<1> HIDE DEF old, grown
<1>4. Announced(old)
  BY DEF old
<1>5. PolicyError.type = "error"
  BY DEF PolicyError, Blank
<1>6. ASSUME NEW i \in DOMAIN grown, IsPolicyFinish(grown[i])
      PROVE  i > 1 /\ grown[i - 1].type = "error"
  <2>1. CASE i \in 1..Len(pre)
    <3>1. i \in DOMAIN old /\ old[i] = grown[i]
      BY <1>1, <1>2, <1>3, <2>1
    <3>2. i > 1 /\ old[i - 1].type = "error"
      BY <1>4, <1>6, <3>1 DEF Announced
    <3>3. i - 1 \in 1..Len(pre)
      BY <1>1, <2>1, <3>2
    <3>4. QED
      BY <1>2, <1>3, <3>2, <3>3
  <2>2. CASE i = Len(pre) + 1
    BY <1>3, <1>5, <1>6, <2>2 DEF IsPolicyFinish
  <2>3. CASE i = Len(pre) + 2
    BY <1>1, <1>3, <1>5, <2>3
  <2>4. CASE i - (Len(pre) + 2) \in 1..Len(post)
    <3>1. PICK j \in 1..Len(post) : i = j + Len(pre) + 2
      BY <1>1, <1>3, <2>4
    <3>2. j + Len(pre) + 1 \in DOMAIN old /\ old[j + Len(pre) + 1] = grown[i]
      BY <1>1, <1>2, <1>3, <3>1
    <3>3. old[j + Len(pre) + 1 - 1].type = "error"
      BY <1>4, <1>6, <3>2 DEF Announced
    <3>4. j # 1
      BY <1>1, <1>2, <3>3
    <3>5. PICK h \in 1..Len(post) : j = h + 1
      BY <1>1, <3>4
    <3>6. j + Len(pre) + 1 - 1 = h + Len(pre) + 1 /\ i - 1 = h + Len(pre) + 2 /\ i > 1
      BY <1>1, <3>1, <3>5
    <3>7. QED
      BY <1>2, <1>3, <3>3, <3>6
  <2>5. QED
    BY <1>1, <1>3, <2>1, <2>2, <2>3, <2>4
<1>7. QED
  BY <1>6 DEF Announced, grown

LEMMA AnnouncedCut ==
    ASSUME NEW out \in Seq(Event), NEW cut \in Seq(Event), Announced(out \o cut)
    PROVE  Announced(out)
<1>1. /\ DOMAIN out \subseteq Nat
      /\ \A i \in DOMAIN out : /\ i \in DOMAIN (out \o cut) /\ (out \o cut)[i] = out[i]
                               /\ i > 1 => (out \o cut)[i - 1] = out[i - 1]
  OBVIOUS
<1>2. QED
  BY <1>1 DEF Announced

LEMMA AnnouncedGrown ==
    ASSUME NEW out \in Seq(Event), NEW e \in Event, ~IsPolicyFinish(e), Announced(out)
    PROVE  Announced(out \o <<e>>)
<1>1. \A i \in DOMAIN (out \o <<e>>) :
          \/ /\ i \in DOMAIN out /\ (out \o <<e>>)[i] = out[i]
             /\ i > 1 => (out \o <<e>>)[i - 1] = out[i - 1]
          \/ (out \o <<e>>)[i] = e
  OBVIOUS
<1>2. QED
  BY <1>1 DEF Announced

LEMMA HeraldedCall ==
    ASSUME Inv, Inv', InFlight, Heralded,
           NEW es \in Seq(Event), NEW new \in Seq(Entry), Call(es, new)
    PROVE  Heralded'
<1>1. pulled' = pulled /\ item \in Event
  BY CallFlight, CallIs
<1>2. SUFFICES ASSUME NEW s \in Streams, Unfinished(pulled[s]), Announced(Output(s))
               PROVE  Announced(Output(s)')
  BY <1>1 DEF Heralded
<1>3. CASE s # active
  BY <1>2, <1>3, OutputOthers
<1>4. CASE s = active
  <2>1. PICK pre \in Seq(Event), post \in Seq(Event) :
            /\ Output(s) = (pre \o <<item>>) \o post
            /\ \/ status' = status /\ Output(s)' = (pre \o es) \o post
               \/ /\ status'[s] = "failed" /\ new # <<>>
                  /\ \E cut \in Seq(Event) : pre = Output(s)' \o cut
    BY <1>4, OutputCall
  <2>2. Announced((pre \o <<item>>) \o post)
    BY <1>2, <2>1
  <2>3. CASE Output(s)' = (pre \o es) \o post
    <3>1. ASSUME NEW f \in Event, es = <<f>>, IsPolicyFinish(f) => IsPolicyFinish(item),
                 item.type = "error" => f.type = "error"
          PROVE  Announced(Output(s)')
      BY <1>1, <2>2, <2>3, <3>1, AnnouncedReplaced
    <3>2. CASE Kept(es, new)
      BY <1>1, <3>1, <3>2 DEF Kept
    <3>3. CASE Cleaned(es, new)
      <4>1. PICK f \in Event : Redaction(item, f) /\ es = <<f>>
        BY <3>3 DEF Cleaned
      <4>2. ~IsPolicyFinish(f) /\ item.type # "error"
        BY <3>3, <4>1 DEF Cleaned, Redaction, IsPolicyFinish
      <4>3. QED
        BY <3>1, <4>1, <4>2
    <3>4. CASE Objected(es, new)
      <4>1. item.type # "error" /\ (es = <<item>> \/ es = <<PolicyError, PolicyFinish>>)
        BY <3>4, ReplacementIs DEF Objected
      <4>2. CASE es = <<item>>
        BY <1>1, <3>1, <4>2
      <4>3. CASE es = <<PolicyError, PolicyFinish>>
        BY <1>1, <2>2, <2>3, <4>1, <4>3, AnnouncedSubstituted
      <4>4. QED
        BY <4>1, <4>2, <4>3
    <3>5. CASE Hidden(es, new)
      <4>1. /\ es = <<Blank("error")>> /\ Blank("error").type = "error"
            /\ Blank("error") \in Event /\ ~IsPolicyFinish(Blank("error"))
        BY <3>5, OwnEvents DEF Hidden, Blank, IsPolicyFinish
      <4>2. QED
        BY <3>1, <4>1
    <3>6. QED
      BY <3>2, <3>3, <3>4, <3>5 DEF Call, Outcome
  <2>4. CASE \E cut \in Seq(Event) : pre = Output(s)' \o cut
    <3>1. PICK cut \in Seq(Event) : pre = Output(s)' \o cut
      BY <2>4
    <3>2. pre \o <<item>> \in Seq(Event) /\ <<item>> \in Seq(Event) /\ Output(s)' \in Seq(Event)
      BY <1>1, OutputTypedNext, ConcatOf
    <3>3. Announced(pre)
      BY <2>2, <3>2, AnnouncedCut
    <3>4. QED
      BY <3>1, <3>2, <3>3, AnnouncedCut
  <2>5. QED
    BY <2>1, <2>3, <2>4
<1>5. QED
  BY <1>3, <1>4

LEMMA HeraldedStep ==
    ASSUME Inv, Inv', Heralded, NEW t \in Streams, Step(t)
    PROVE  Heralded'
<1>1. SUFFICES ASSUME NEW s \in Streams, Unfinished(pulled'[s])
               PROVE  Announced(Output(s)')
  BY DEF Heralded
<1>2. /\ pulled[s] \in Seq(Inputs) /\ Inputs \subseteq Event
      /\ Output(s) \in Seq(Event) /\ Output(s)' \in Seq(Event)
  BY OutputTyped, OutputTypedNext, GuardAssumption DEF Inv, TypeOK, GuardAssumption
<1>3. CASE Output(s)' = Output(s) /\ pulled'[s] = pulled[s]
  BY <1>1, <1>3 DEF Heralded
<1>4. CASE \E e \in Inputs : /\ Output(s)' = Output(s) \o <<e>>
                             /\ pulled'[s] = Append(pulled[s], e)
  <2>1. PICK e \in Inputs : /\ Output(s)' = Output(s) \o <<e>>
                            /\ pulled'[s] = Append(pulled[s], e)
    BY <1>4
  <2>2. /\ \A i \in DOMAIN pulled[s] : i \in DOMAIN pulled'[s] /\ pulled'[s][i] = pulled[s][i]
        /\ Len(pulled[s]) + 1 \in DOMAIN pulled'[s] /\ pulled'[s][Len(pulled[s]) + 1] = e
    BY <1>2, <2>1
  <2>3. Unfinished(pulled[s]) /\ ~IsPolicyFinish(e)
    BY <1>1, <2>2 DEF Unfinished
  <2>4. QED
    BY <1>2, <2>1, <2>3, AnnouncedGrown DEF Heralded
<1>5. CASE (\E cut \in Seq(Event) : Output(s) = Output(s)' \o cut) /\ pulled'[s] = pulled[s]
  BY <1>1, <1>2, <1>5, AnnouncedCut DEF Heralded
<1>6. QED
  BY <1>3, <1>4, <1>5, OutputStep

Substituting == Recorded /\ Balanced /\ Heralded

LEMMA SubstitutingInit == ASSUME Init PROVE Substituting
<1>1. \A s \in Streams : /\ delivered[s] = <<>> /\ pending[s] = <<>> /\ pulled[s] = <<>>
                         /\ violations[s] = <<>> /\ s # active
  BY GuardAssumption DEF Init, GuardAssumption
<1>2. \A s \in Streams : Output(s) = <<>>
  BY <1>1 DEF Output
<1>3. Balanced
  BY <1>1, <1>2, CountEmpty DEF Balanced, Balance
<1>4. QED
  BY <1>2, <1>3, RecordedInit DEF Substituting, Heralded, Announced

LEMMA SubstitutingStep == ASSUME Substituting, [Next]_vars PROVE Substituting'
<1>1. Recorded /\ Inv /\ InFlight /\ Balanced /\ Heralded /\ Recorded' /\ Inv'
  BY RecordedStep DEF Substituting, Recorded
<1>2. ASSUME UNCHANGED vars PROVE Balanced' /\ Heralded'
  <2>1. UNCHANGED <<mode, pulled, delivered, pending, active, next, current, status, violations>>
    BY <1>2 DEF vars, policy, pipeline, records
  <2>2. \A s \in Streams : Output(s)' = Output(s) /\ (Whole(s)' <=> Whole(s))
                           /\ Balance(s)' = Balance(s)
    BY <2>1 DEF Output, Whole, Balance
  <2>3. QED
    BY <1>1, <2>1, <2>2 DEF Balanced, Heralded
<1>3. Balanced' /\ Heralded'
  BY <1>1, <1>2, BalancedCall, BalancedStep, HeraldedCall, HeraldedStep, Steps
<1>4. QED
  BY <1>1, <1>3 DEF Substituting

(* Each violation of a tool rule, and nothing else, puts a policy_violation *)
(* finish into the stream, and with it an error right before: for every     *)
(* rule list, in every mode, whatever the other rules and streams do.       *)
THEOREM SubstitutedCorrect == Spec => []Substituted
<1>1. Substituting => Substituted
  <2> SUFFICES ASSUME Substituting, NEW s \in Streams
               PROVE  LET out == Output(s)
                          blocked == IF mode = "audit" THEN 0 ELSE Count(violations[s], OfToolRule)
                      IN  /\ Whole(s) => Count(out, IsPolicyFinish)
                                             = Count(pulled[s], IsPolicyFinish) + blocked
                          /\ Whole(s) /\ Idle =>
                                \A i \in DOMAIN out :
                                   IsPolicyFinish(out[i]) /\ Count(pulled[s], IsPolicyFinish) = 0
                                      => i > 1 /\ out[i - 1].type = "error"
    BY DEF Substituted
  <2>1. Inv /\ Balanced /\ Heralded
    BY DEF Substituting, Recorded
  <2>2. Whole(s) => Count(Output(s), IsPolicyFinish)
            = Count(pulled[s], IsPolicyFinish)
                  + (IF mode = "audit" THEN 0 ELSE Count(violations[s], OfToolRule))
    BY <2>1, CountsAre DEF Balanced, Balance
  <2>3. Count(pulled[s], IsPolicyFinish) = 0 => Unfinished(pulled[s])
    <3>1. pulled[s] \in Seq(Inputs) /\ Inputs \subseteq Event
      BY <2>1, GuardAssumption DEF Inv, TypeOK, GuardAssumption
    <3>2. Count(pulled[s], IsPolicyFinish) = 0 =>
              \A i \in DOMAIN pulled[s] : pulled[s][i] \notin PolicyFinishes
      BY <2>1, <3>1, CountsAre, CountNone
    <3>3. \A i \in DOMAIN pulled[s] : pulled[s][i] \in Event
      BY <3>1
    <3>4. QED
      BY <3>2, <3>3 DEF Unfinished, PolicyFinishes
  <2>4. QED
    BY <2>1, <2>2, <2>3 DEF Heralded, Announced
<1>2. QED
  BY <1>1, SubstitutingInit, SubstitutingStep, PTL DEF Spec

-----------------------------------------------------------------------------
(* The limit on argument bytes counts the bytes of one call. *)

(* Adding up sizes.  The sum of the model is a fold that is chosen; any two *)
(* functions that add up as it does agree.                                  *)
LEMMA BytesSummed ==
    ASSUME NEW events, NEW J, IsFiniteSet(J), \A j \in J : events[j].size \in Nat
    PROVE  \E g : Sums(g, [j \in J |-> events[j].size], J) /\ Bytes(events, J) = g[J]
<1> DEFINE f == [j \in J |-> events[j].size]
           F(h) == [s \in SUBSET J |-> IF s = {} THEN 0
                      ELSE events[CHOOSE x \in s : TRUE].size + h[s \ {CHOOSE x \in s : TRUE}]]
           iter == CHOOSE h : h = F(h)
<1>1. PICK g \in [SUBSET J -> Nat] : Sums(g, f, J)
  BY SumsExist
<1>2. g = F(g)
  BY <1>1 DEF Sums, SumStep, AnyOf
<1>3. iter = F(iter)
  BY <1>2, Zenon
<1>4. Bytes(events, J) = iter[J]
  BY DEF Bytes, MapThenSumSet, MapThenFoldSet
<1>5. Sums(iter, f, J)
  BY <1>3 DEF Sums, SumStep, AnyOf
<1>6. QED
  BY <1>4, <1>5

LEMMA BytesAgree ==
    ASSUME NEW events, NEW J, IsFiniteSet(J), \A j \in J : events[j].size \in Nat,
           NEW others, \A j \in J : others[j] = events[j]
    PROVE  Bytes(others, J) = Bytes(events, J)
<1> DEFINE f == [j \in J |-> events[j].size]
           e == [j \in J |-> others[j].size]
<1>1. PICK g : Sums(g, f, J) /\ Bytes(events, J) = g[J]
  BY BytesSummed
<1>2. PICK h : Sums(h, e, J) /\ Bytes(others, J) = h[J]
  BY BytesSummed
<1>3. \A j \in J : f[j] = e[j]
  OBVIOUS
<1> HIDE DEF f, e
<1>4. g[J] = h[J]
  BY <1>1, <1>2, <1>3, SumsAgree
<1>5. QED
  BY <1>1, <1>2, <1>4

LEMMA BytesTyped ==
    ASSUME NEW events, NEW J, IsFiniteSet(J), \A j \in J : events[j].size \in Nat
    PROVE  Bytes(events, J) \in Nat
<1> DEFINE f == [j \in J |-> events[j].size]
<1>1. PICK g : Sums(g, f, J) /\ Bytes(events, J) = g[J]
  BY BytesSummed
<1>2. f \in [J -> Nat] /\ J \in SUBSET J
  OBVIOUS
<1> HIDE DEF f
<1>3. QED
  BY <1>1, <1>2, SumsTyped

LEMMA BytesNone == ASSUME NEW events PROVE Bytes(events, {}) = 0
<1>1. PICK g : Sums(g, [j \in {} |-> events[j].size], {}) /\ Bytes(events, {}) = g[{}]
  BY FS_EmptySet, BytesSummed
<1>2. g[{}] = 0
  BY <1>1 DEF Sums, SumStep
<1>3. QED
  BY <1>1, <1>2

LEMMA BytesOneMore ==
    ASSUME NEW events, NEW J, IsFiniteSet(J), \A j \in J : events[j].size \in Nat,
           NEW x, x \notin J, events[x].size \in Nat
    PROVE  Bytes(events, J \cup {x}) = Bytes(events, J) + events[x].size
<1> DEFINE K == J \cup {x}
           f == [j \in K |-> events[j].size]
           e == [j \in J |-> events[j].size]
<1>1. IsFiniteSet(K) /\ x \in K /\ K \ {x} = J /\ J \in SUBSET K /\ K \in SUBSET K
      /\ \A j \in K : events[j].size \in Nat
  BY FS_AddElement
<1>2. f \in [K -> Nat] /\ f[x] = events[x].size /\ \A j \in J : f[j] = e[j]
  BY <1>1
<1>3. PICK g : Sums(g, f, K) /\ Bytes(events, K) = g[K]
  BY <1>1, BytesSummed
<1>4. PICK h : Sums(h, e, J) /\ Bytes(events, J) = h[J]
  BY BytesSummed
<1> HIDE DEF K, f, e
<1>5. g[K] = f[x] + g[K \ {x}]
  BY <1>1, <1>2, <1>3, SumsSplit
<1>6. g[J] = h[J]
  BY <1>1, <1>2, <1>3, <1>4, SumsAgree
<1>7. g[J] \in Nat
  BY <1>1, <1>2, <1>3, SumsTyped
<1>8. PICK m \in Nat, n \in Nat : m = events[x].size /\ n = g[J]
  BY <1>7
<1>9. Bytes(events, K) = m + n /\ Bytes(events, J) = n
  BY <1>1, <1>2, <1>3, <1>4, <1>5, <1>6, <1>8
<1>10. m + n = n + m
  OBVIOUS
<1>11. QED
  BY <1>8, <1>9, <1>10 DEF K

(* The synthetic keys, as a function of the names numbered so far, and the  *)
(* total under a key.                                                       *)
Numbered(names) == \A m, n \in DOMAIN names : names[m] = names[n] => m = n

Knows(names, f) ==
    f.type = "tool_call" /\ (f.id # None \/ \E n \in DOMAIN names : names[n] = f.name)

KeyIn(names, f) == IF f.id # None THEN f.id ELSE <<"__idx_", Position(f.name, names) - 1>>

Sized(bytes, key) == IF key \in DOMAIN bytes THEN bytes[key] ELSE 0

(* No call has an id that reads like the key of a nameless one: toolKey     *)
(* keeps both in one map.                                                   *)
KeysApart == \A n \in Nat : <<"__idx_", n>> \notin Ids

(* The deltas among the first n events that a done event of f's call, sent  *)
(* next, is judged by.                                                      *)
Open(ps, f, n) ==
    {j \in 1..n : /\ SameCall(ps[j], f)
                  /\ \A h \in j..n : SameCall(ps[h], f) => ps[h].phase = "delta"}

(* After n events of ps: every call among them has a key, and the total     *)
(* under a key is the size of that call's open deltas.                      *)
Tally(names, ps, bytes, n) ==
    /\ \A j \in 1..n : ps[j].type = "tool_call" => Knows(names, ps[j])
    /\ DOMAIN bytes \subseteq Ids \cup {<<"__idx_", p - 1>> : p \in DOMAIN names}
    /\ \A f \in Inputs : Knows(names, f) =>
           Sized(bytes, KeyIn(names, f)) = Bytes(ps, Open(ps, f, n))

LEMMA OpenIs ==
    ASSUME NEW ps \in Seq(Inputs), NEW f, NEW n \in Nat, n <= Len(ps)
    PROVE  /\ IsFiniteSet(Open(ps, f, n)) /\ Open(ps, f, n) \subseteq 1..n
           /\ n + 1 \notin Open(ps, f, n)
           /\ \A j \in 1..Len(ps) : ps[j] \in Event /\ ps[j].size \in Nat
           /\ \A j \in Open(ps, f, n) : ps[j].size \in Nat
<1>1. /\ Open(ps, f, n) \subseteq 1..n /\ 1..n \subseteq 1..Len(ps) /\ n + 1 \notin 1..n
      /\ 1 \in Int /\ n \in Int
  BY DEF Open
<1>2. IsFiniteSet(1..n)
  BY <1>1, FS_Interval
<1>3. IsFiniteSet(Open(ps, f, n))
  BY <1>1, <1>2, FS_Subset
<1>4. \A j \in 1..Len(ps) : ps[j] \in Event
  BY GuardAssumption DEF GuardAssumption
<1>5. \A j \in 1..Len(ps) : ps[j].size \in Nat
  BY <1>4 DEF Event
<1>6. QED
  BY <1>1, <1>3, <1>4, <1>5

(* The next event opens, closes or leaves alone the deltas of a call. *)
LEMMA OpenNext ==
    ASSUME NEW ps \in Seq(Inputs), NEW f, NEW n \in Nat, n + 1 <= Len(ps)
    PROVE  /\ ~SameCall(ps[n + 1], f) => Open(ps, f, n + 1) = Open(ps, f, n)
           /\ SameCall(ps[n + 1], f) /\ ps[n + 1].phase = "delta"
                 => Open(ps, f, n + 1) = Open(ps, f, n) \cup {n + 1}
           /\ SameCall(ps[n + 1], f) /\ ps[n + 1].phase # "delta"
                 => Open(ps, f, n + 1) = {}
<1>1. /\ 1..(n + 1) = 1..n \cup {n + 1}
      /\ \A j \in 1..(n + 1) : j..(n + 1) = j..n \cup {n + 1} /\ n + 1 \in j..(n + 1)
      /\ (n + 1)..n = {}
  OBVIOUS
<1>2. QED
  BY <1>1 DEF Open

LEMMA BytesNext ==
    ASSUME NEW ps \in Seq(Inputs), NEW f, NEW n \in Nat, n + 1 <= Len(ps)
    PROVE  /\ ~SameCall(ps[n + 1], f) =>
                  Bytes(ps, Open(ps, f, n + 1)) = Bytes(ps, Open(ps, f, n))
           /\ SameCall(ps[n + 1], f) /\ ps[n + 1].phase = "delta" =>
                  Bytes(ps, Open(ps, f, n + 1)) = Bytes(ps, Open(ps, f, n)) + ps[n + 1].size
           /\ SameCall(ps[n + 1], f) /\ ps[n + 1].phase # "delta" =>
                  Bytes(ps, Open(ps, f, n + 1)) = 0
<1>1. /\ IsFiniteSet(Open(ps, f, n)) /\ n + 1 \notin Open(ps, f, n)
      /\ \A j \in Open(ps, f, n) : ps[j].size \in Nat
      /\ ps[n + 1].size \in Nat
  <2>1. n <= Len(ps) /\ n + 1 \in 1..Len(ps)
    OBVIOUS
  <2>2. QED
    BY <2>1, OpenIs
<1>2. Bytes(ps, Open(ps, f, n) \cup {n + 1}) = Bytes(ps, Open(ps, f, n)) + ps[n + 1].size
  BY <1>1, BytesOneMore
<1>3. QED
  BY <1>2, OpenNext, BytesNone

(* More events change nothing in what is known of the first ones. *)
LEMMA BytesLater ==
    ASSUME NEW ps \in Seq(Inputs), NEW e \in Inputs, NEW f, NEW n \in Nat, n <= Len(ps)
    PROVE  Bytes(Append(ps, e), Open(Append(ps, e), f, n)) = Bytes(ps, Open(ps, f, n))
<1>1. \A j \in 1..n : Append(ps, e)[j] = ps[j] /\ j \in Nat
  OBVIOUS
<1>2. Open(Append(ps, e), f, n) = Open(ps, f, n)
  <2>1. \A j \in 1..n : j..n \subseteq 1..n
    OBVIOUS
  <2>2. QED
    BY <1>1, <2>1 DEF Open
<1>3. /\ IsFiniteSet(Open(ps, f, n))
      /\ \A j \in Open(ps, f, n) : ps[j].size \in Nat /\ Append(ps, e)[j] = ps[j]
  BY <1>1, OpenIs
<1>4. QED
  BY ZenonT(30), <1>2, <1>3, BytesAgree

LEMMA TallyLater ==
    ASSUME NEW ps \in Seq(Inputs), NEW e \in Inputs, NEW names, NEW bytes,
           NEW n \in Nat, n <= Len(ps), Tally(names, ps, bytes, n)
    PROVE  Tally(names, Append(ps, e), bytes, n)
<1>1. \A j \in 1..n : Append(ps, e)[j] = ps[j]
  OBVIOUS
<1>2. \A f \in Inputs : Bytes(Append(ps, e), Open(Append(ps, e), f, n)) = Bytes(ps, Open(ps, f, n))
  BY BytesLater
<1>3. QED
  BY <1>1, <1>2 DEF Tally

(* A name has one number, and keeps it. *)
LEMMA PositionIs ==
    ASSUME NEW names, Numbered(names), NEW n \in DOMAIN names
    PROVE  Position(names[n], names) = n
  BY DEF Position, Numbered

LEMMA PositionKept ==
    ASSUME NEW names \in Seq(Names \cup {None}), Numbered(names),
           NEW x \in Names \cup {None}, \A n \in DOMAIN names : names[n] # x
    PROVE  /\ Numbered(Append(names, x))
           /\ \A f : Knows(names, f) =>
                  Knows(Append(names, x), f) /\ KeyIn(Append(names, x), f) = KeyIn(names, f)
           /\ \A f : Knows(Append(names, x), f) /\ ~Knows(names, f) =>
                  f.id = None /\ f.name = x /\ KeyIn(Append(names, x), f) = <<"__idx_", Len(names)>>
<1> DEFINE more == Append(names, x)
<1>1. /\ \A n \in DOMAIN names : n \in DOMAIN more /\ more[n] = names[n]
      /\ \A n \in DOMAIN more : n \in DOMAIN names \/ n = Len(names) + 1
      /\ Len(names) + 1 \in DOMAIN more /\ more[Len(names) + 1] = x
      /\ Len(names) \in Nat
  OBVIOUS
<1> HIDE DEF more
<1>2. Numbered(more)
  BY <1>1 DEF Numbered
<1>3. \A n \in DOMAIN names : Position(names[n], more) = n /\ Position(names[n], names) = n
  BY <1>1, <1>2, PositionIs
<1>4. Position(x, more) = Len(names) + 1
  BY <1>1, <1>2, PositionIs
<1>5. Len(names) + 1 - 1 = Len(names)
  BY <1>1
<1>6. ASSUME NEW f, Knows(names, f)
      PROVE  Knows(more, f) /\ KeyIn(more, f) = KeyIn(names, f)
  BY <1>1, <1>3, <1>6 DEF Knows, KeyIn
<1>7. ASSUME NEW f, Knows(more, f), ~Knows(names, f)
      PROVE  f.id = None /\ f.name = x /\ KeyIn(more, f) = <<"__idx_", Len(names)>>
  <2>1. f.id = None /\ f.name = x
    BY <1>1, <1>7 DEF Knows
  <2>2. QED
    BY <1>4, <1>5, <2>1 DEF KeyIn
<1>8. QED
  BY <1>2, <1>6, <1>7 DEF more

(* One key for the events of one call, and no other call has it. *)
LEMMA KeysDiffer ==
    ASSUME KeysApart, NEW names \in Seq(Names \cup {None}), Numbered(names),
           NEW e \in Event, NEW f \in Event, Knows(names, e), Knows(names, f)
    PROVE  /\ SameCall(e, f) <=> KeyIn(names, e) = KeyIn(names, f)
           /\ KeyIn(names, e) \in Ids \cup {<<"__idx_", p - 1>> : p \in DOMAIN names}
<1>1. /\ e.id \in Ids \cup {None} /\ f.id \in Ids \cup {None} /\ None \notin Ids
      /\ e.type = "tool_call" /\ f.type = "tool_call"
  BY GuardAssumption DEF GuardAssumption, Event, Knows
<1>2. ASSUME NEW g \in {e, f}, g.id = None
      PROVE  /\ Position(g.name, names) \in DOMAIN names
             /\ names[Position(g.name, names)] = g.name
             /\ KeyIn(names, g) = <<"__idx_", Position(g.name, names) - 1>>
             /\ KeyIn(names, g) \notin Ids
  <2>1. PICK n \in DOMAIN names : names[n] = g.name
    BY <1>2 DEF Knows
  <2>2. Position(g.name, names) = n
    BY <2>1, PositionIs
  <2>3. n - 1 \in Nat
    OBVIOUS
  <2>4. <<"__idx_", n - 1>> \notin Ids
    BY <2>3 DEF KeysApart
  <2>5. KeyIn(names, g) = <<"__idx_", n - 1>>
    BY <1>2, <2>2 DEF KeyIn
  <2>6. QED
    BY <2>1, <2>2, <2>4, <2>5
<1>3. \A g \in {e, f} : g.id # None => KeyIn(names, g) = g.id /\ KeyIn(names, g) \in Ids
  BY <1>1 DEF KeyIn
<1>4. KeyIn(names, e) \in Ids \cup {<<"__idx_", p - 1>> : p \in DOMAIN names}
  BY <1>2, <1>3
<1>5. ASSUME SameCall(e, f) PROVE KeyIn(names, e) = KeyIn(names, f)
  BY <1>5 DEF SameCall, KeyIn
<1>6. ASSUME KeyIn(names, e) = KeyIn(names, f) PROVE SameCall(e, f)
  <2>1. CASE e.id # None
    BY <1>1, <1>2, <1>3, <1>6, <2>1 DEF SameCall
  <2>2. CASE e.id = None
    <3>1. f.id = None
      BY <1>2, <1>3, <1>6, <2>2
    <3>2. PICK p \in DOMAIN names, q \in DOMAIN names :
              /\ names[p] = e.name /\ KeyIn(names, e) = <<"__idx_", p - 1>>
              /\ names[q] = f.name /\ KeyIn(names, f) = <<"__idx_", q - 1>>
      BY <1>2, <2>2, <3>1
    <3>3. PICK a, b : a = p - 1 /\ b = q - 1
      OBVIOUS
    <3>4. <<"__idx_", a>> = <<"__idx_", b>>
      BY <1>6, <3>2, <3>3
    <3>5. a = b
      BY <3>4
    <3>6. p = q
      BY <3>3, <3>5
    <3>7. QED
      BY <1>1, <2>2, <3>1, <3>2, <3>6 DEF SameCall
  <2>3. QED
    BY <2>1, <2>2
<1>7. QED
  BY <1>4, <1>5, <1>6

(* A nameless call seen for the first time gets a key that nothing was      *)
(* counted under.                                                           *)
LEMMA TallyGrown ==
    ASSUME KeysApart, NEW names \in Seq(Names \cup {None}), Numbered(names),
           NEW x \in Names \cup {None}, \A n \in DOMAIN names : names[n] # x,
           NEW ps \in Seq(Inputs), NEW bytes, NEW n \in Nat, n <= Len(ps),
           Tally(names, ps, bytes, n)
    PROVE  Tally(Append(names, x), ps, bytes, n)
<1> DEFINE more == Append(names, x)
<1>1. /\ Len(names) \in Nat /\ DOMAIN names \subseteq DOMAIN more
      /\ \A p \in DOMAIN names : p - 1 # Len(names)
  OBVIOUS
<1>2. /\ \A f : Knows(names, f) => Knows(more, f) /\ KeyIn(more, f) = KeyIn(names, f)
      /\ \A f : Knows(more, f) /\ ~Knows(names, f) =>
             f.id = None /\ f.name = x /\ KeyIn(more, f) = <<"__idx_", Len(names)>>
  BY PositionKept
<1> HIDE DEF more
<1>3. <<"__idx_", Len(names)>> \notin DOMAIN bytes
  BY <1>1 DEF KeysApart, Tally
<1>4. ASSUME NEW f \in Inputs, Knows(more, f), ~Knows(names, f)
      PROVE  Sized(bytes, KeyIn(more, f)) = Bytes(ps, Open(ps, f, n))
  <2>1. Sized(bytes, KeyIn(more, f)) = 0
    BY <1>2, <1>3, <1>4 DEF Sized
  <2>2. Open(ps, f, n) = {}
    BY <1>2, <1>4 DEF Open, SameCall, Tally, Knows
  <2>3. QED
    BY <2>1, <2>2, BytesNone
<1>5. \A f \in Inputs : Knows(more, f) =>
          Sized(bytes, KeyIn(more, f)) = Bytes(ps, Open(ps, f, n))
  BY <1>2, <1>4 DEF Tally
<1>6. DOMAIN bytes \subseteq Ids \cup {<<"__idx_", p - 1>> : p \in DOMAIN more}
  BY <1>1 DEF Tally
<1>7. \A j \in 1..n : ps[j].type = "tool_call" => Knows(more, ps[j])
  BY <1>2 DEF Tally
<1>8. QED
  BY <1>5, <1>6, <1>7 DEF Tally, more

(* The three things that the next event does to the totals. *)
LEMMA TallyOther ==
    ASSUME NEW names, NEW ps \in Seq(Inputs), NEW bytes, NEW n \in Nat, n + 1 <= Len(ps),
           Tally(names, ps, bytes, n), ps[n + 1].type # "tool_call"
    PROVE  Tally(names, ps, bytes, n + 1)
<1>1. \A f \in Inputs : Bytes(ps, Open(ps, f, n + 1)) = Bytes(ps, Open(ps, f, n))
  BY BytesNext DEF SameCall
<1>2. \A j \in 1..(n + 1) : j \in 1..n \/ j = n + 1
  OBVIOUS
<1>3. QED
  BY <1>1, <1>2 DEF Tally

LEMMA TallyCall ==
    ASSUME KeysApart, NEW names \in Seq(Names \cup {None}), Numbered(names),
           NEW ps \in Seq(Inputs), NEW bytes, NEW more, NEW n \in Nat, n + 1 <= Len(ps),
           NEW e \in Inputs, e = ps[n + 1], Knows(names, e), NEW key, key = KeyIn(names, e),
           Tally(names, ps, bytes, n),
           DOMAIN more \subseteq DOMAIN bytes \cup {key},
           \A k : k # key => Sized(more, k) = Sized(bytes, k),
           Sized(more, key) = IF e.phase = "delta" THEN Sized(bytes, key) + e.size ELSE 0
    PROVE  Tally(names, ps, more, n + 1)
<1>1. \A j \in 1..(n + 1) : j \in 1..n \/ j = n + 1
  OBVIOUS
<1>2. e \in Event /\ \A f \in Inputs : f \in Event
  BY GuardAssumption DEF GuardAssumption
<1>3. key \in Ids \cup {<<"__idx_", p - 1>> : p \in DOMAIN names}
  BY <1>2, KeysDiffer
<1>4. ASSUME NEW f \in Inputs, Knows(names, f)
      PROVE  Sized(more, KeyIn(names, f)) = Bytes(ps, Open(ps, f, n + 1))
  <2>1. Sized(bytes, KeyIn(names, f)) = Bytes(ps, Open(ps, f, n))
    BY <1>4 DEF Tally
  <2>2. SameCall(e, f) <=> key = KeyIn(names, f)
    BY <1>2, <1>4, KeysDiffer
  <2>3. CASE SameCall(e, f)
    BY <2>1, <2>2, <2>3, BytesNext
  <2>4. CASE ~SameCall(e, f)
    BY <2>1, <2>2, <2>4, BytesNext
  <2>5. QED
    BY <2>3, <2>4
<1>5. \A j \in 1..(n + 1) : ps[j].type = "tool_call" => Knows(names, ps[j])
  BY <1>1 DEF Tally
<1>6. DOMAIN more \subseteq Ids \cup {<<"__idx_", p - 1>> : p \in DOMAIN names}
  BY <1>3 DEF Tally
<1>7. QED
  BY <1>4, <1>5, <1>6 DEF Tally

LEMMA PutSized ==
    ASSUME NEW f, NEW key, NEW n
    PROVE  /\ DOMAIN Put(f, key, n) \subseteq DOMAIN f \cup {key}
           /\ Sized(Put(f, key, n), key) = n
           /\ \A k : k # key => Sized(Put(f, key, n), k) = Sized(f, k)
  BY DEF Put, Sized

LEMMA DropSized ==
    ASSUME NEW f, NEW key
    PROVE  /\ DOMAIN Drop(f, key) \subseteq DOMAIN f \cup {key}
           /\ Sized(Drop(f, key), key) = 0
           /\ \A k : k # key => Sized(Drop(f, key), k) = Sized(f, k)
  BY DEF Drop, Sized

(* What the violations vs say of the first n events of ps. *)
OverLimit(v) == v.rule = "max_tool_args_bytes"

Verdict(vs, ps, max, n) ==
    /\ \A m \in DOMAIN vs : OverLimit(vs[m]) => vs[m].index < n
    /\ \A i \in 1..n :
          (\E m \in DOMAIN vs : vs[m].index = i - 1 /\ OverLimit(vs[m])) <=>
              Done(ps[i]) /\ Bytes(ps, Open(ps, ps[i], i - 1)) > max

LEMMA VerdictLater ==
    ASSUME NEW vs, NEW ps \in Seq(Inputs), NEW e \in Inputs, NEW max,
           NEW n \in Nat, n <= Len(ps), Verdict(vs, ps, max, n)
    PROVE  Verdict(vs, Append(ps, e), max, n)
<1>1. ASSUME NEW i \in 1..n
      PROVE  /\ Append(ps, e)[i] = ps[i]
             /\ Bytes(Append(ps, e), Open(Append(ps, e), ps[i], i - 1))
                    = Bytes(ps, Open(ps, ps[i], i - 1))
  <2>1. Append(ps, e)[i] = ps[i] /\ i - 1 \in Nat /\ i - 1 <= Len(ps)
    OBVIOUS
  <2>2. QED
    BY <2>1, BytesLater
<1>2. QED
  BY <1>1 DEF Verdict

(* Violations of other rules say nothing. *)
LEMMA VerdictElse ==
    ASSUME NEW vs \in Seq(Entry), NEW new \in Seq(Entry), NEW ps, NEW max, NEW n,
           Verdict(vs, ps, max, n), \A m \in DOMAIN new : ~OverLimit(new[m])
    PROVE  Verdict(vs \o new, ps, max, n)
<1> DEFINE all == vs \o new
<1>1. /\ \A m \in DOMAIN vs : m \in DOMAIN all /\ all[m] = vs[m]
      /\ \A m \in DOMAIN all : (m \in DOMAIN vs /\ all[m] = vs[m])
                               \/ \E j \in DOMAIN new : all[m] = new[j]
  <2>1. ASSUME NEW m \in DOMAIN all, m \notin DOMAIN vs
        PROVE  \E j \in DOMAIN new : all[m] = new[j]
    <3>1. m - Len(vs) \in DOMAIN new /\ all[m] = new[m - Len(vs)]
      BY <2>1
    <3>2. QED
      BY <3>1
  <2>2. QED
    BY <2>1
<1> HIDE DEF all
<1>2. \A i : (\E m \in DOMAIN all : all[m].index = i - 1 /\ OverLimit(all[m])) <=>
             (\E m \in DOMAIN vs : vs[m].index = i - 1 /\ OverLimit(vs[m]))
  BY <1>1
<1>3. QED
  BY <1>1, <1>2 DEF Verdict, all

(* The judgment of the next event. *)
LEMMA VerdictNext ==
    ASSUME NEW vs \in Seq(Entry), NEW new \in Seq(Entry), NEW ps, NEW max \in Nat, NEW n \in Nat,
           Verdict(vs, ps, max, n),
           \A m \in DOMAIN new : OverLimit(new[m]) => new[m].index = n,
           (\E m \in DOMAIN new : OverLimit(new[m])) <=>
               Done(ps[n + 1]) /\ Bytes(ps, Open(ps, ps[n + 1], n)) > max
    PROVE  Verdict(vs \o new, ps, max, n + 1)
<1> DEFINE all == vs \o new
<1>1. /\ \A m \in DOMAIN vs : m \in DOMAIN all /\ all[m] = vs[m] /\ vs[m] \in Entry
      /\ \A m \in DOMAIN all : (m \in DOMAIN vs /\ all[m] = vs[m])
                               \/ \E j \in DOMAIN new : all[m] = new[j]
      /\ \A j \in DOMAIN new : \E m \in DOMAIN all : all[m] = new[j]
  <2>1. ASSUME NEW m \in DOMAIN all, m \notin DOMAIN vs
        PROVE  \E j \in DOMAIN new : all[m] = new[j]
    <3>1. m - Len(vs) \in DOMAIN new /\ all[m] = new[m - Len(vs)]
      BY <2>1
    <3>2. QED
      BY <3>1
  <2>2. ASSUME NEW j \in DOMAIN new
        PROVE  \E m \in DOMAIN all : all[m] = new[j]
    <3>1. Len(vs) + j \in DOMAIN all /\ all[Len(vs) + j] = new[j]
      OBVIOUS
    <3>2. QED
      BY <3>1
  <2>3. QED
    BY <2>1, <2>2
<1> HIDE DEF all
<1>2. \A m \in DOMAIN vs : OverLimit(vs[m]) => vs[m].index < n /\ vs[m].index \in Nat
  BY <1>1 DEF Verdict, Entry
<1>3. /\ \A i \in 1..n : i - 1 # n
      /\ n + 1 - 1 = n /\ ~(n < n) /\ n < n + 1
      /\ \A i \in 1..(n + 1) : i \in 1..n \/ i = n + 1
      /\ \A i \in Nat : i < n => i < n + 1
  OBVIOUS
<1>4. \A m \in DOMAIN all : OverLimit(all[m]) => all[m].index < n + 1
  BY <1>1, <1>2, <1>3
<1>5. ASSUME NEW i \in 1..n
      PROVE  (\E m \in DOMAIN all : all[m].index = i - 1 /\ OverLimit(all[m])) <=>
             (\E m \in DOMAIN vs : vs[m].index = i - 1 /\ OverLimit(vs[m]))
  BY <1>1, <1>3
<1>6. (\E m \in DOMAIN all : all[m].index = n /\ OverLimit(all[m])) <=>
          \E m \in DOMAIN new : OverLimit(new[m])
  BY <1>1, <1>2, <1>3
<1>7. ASSUME NEW i \in 1..(n + 1)
      PROVE  (\E m \in DOMAIN all : all[m].index = i - 1 /\ OverLimit(all[m])) <=>
                 Done(ps[i]) /\ Bytes(ps, Open(ps, ps[i], i - 1)) > max
  <2>1. CASE i = n + 1
    <3>1. i - 1 = n
      BY <2>1
    <3>2. Bytes(ps, Open(ps, ps[i], i - 1)) = Bytes(ps, Open(ps, ps[n + 1], n))
      BY <2>1, <3>1
    <3>3. Done(ps[i]) <=> Done(ps[n + 1])
      BY <2>1
    <3>4. (\E m \in DOMAIN all : all[m].index = i - 1 /\ OverLimit(all[m])) <=>
              \E m \in DOMAIN new : OverLimit(new[m])
      BY <1>6, <3>1
    <3>5. QED
      BY <3>2, <3>3, <3>4
  <2>2. CASE i \in 1..n
    BY <1>5, <2>2 DEF Verdict
  <2>3. QED
    BY <1>3, <2>1, <2>2
<1>8. QED
  BY <1>4, <1>7 DEF Verdict, all

(* What the limit counts before it judges: the key of the call at hand. *)
LEMMA KeyNamesIs ==
    ASSUME KeysApart, Inv, active # None, item.type = "tool_call",
           NEW names, names = synthetic[stage], Numbered(names)
    PROVE  /\ names \in Seq(Names \cup {None})
           /\ KeyNames(item) \in Seq(Names \cup {None}) /\ Numbered(KeyNames(item))
           /\ Knows(KeyNames(item), item) /\ ToolKey(item) = KeyIn(KeyNames(item), item)
           /\ \A ps \in Seq(Inputs), n \in Nat : \A bytes :
                 n <= Len(ps) /\ Tally(names, ps, bytes, n) => Tally(KeyNames(item), ps, bytes, n)
<1>1. /\ names \in Seq(Names \cup {None}) /\ item.name \in Names \cup {None}
  <2>1. item \in Event /\ stage \in DOMAIN rules
    BY ItemTyped
  <2>2. QED
    BY <2>1 DEF Inv, TypeOK, Event
<1>2. ToolKey(item) = KeyIn(KeyNames(item), item)
  BY DEF ToolKey, KeyIn
<1>3. CASE item.id # None \/ \E n \in DOMAIN names : names[n] = item.name
  BY <1>1, <1>2, <1>3 DEF KeyNames, Knows
<1>4. CASE ~(item.id # None \/ \E n \in DOMAIN names : names[n] = item.name)
  <2>1. KeyNames(item) = Append(names, item.name)
    BY <1>4 DEF KeyNames
  <2>2. /\ Numbered(Append(names, item.name))
        /\ \A n \in DOMAIN names : names[n] # item.name
    BY <1>1, <1>4, PositionKept
  <2>3. /\ Append(names, item.name) \in Seq(Names \cup {None})
        /\ \E n \in DOMAIN Append(names, item.name) : Append(names, item.name)[n] = item.name
    <3>1. /\ Append(names, item.name) \in Seq(Names \cup {None})
          /\ Len(names) + 1 \in DOMAIN Append(names, item.name)
          /\ Append(names, item.name)[Len(names) + 1] = item.name
      BY <1>1
    <3>2. QED
      BY <3>1
  <2>4. ASSUME NEW ps \in Seq(Inputs), NEW n \in Nat, NEW bytes, n <= Len(ps),
               Tally(names, ps, bytes, n)
        PROVE  Tally(Append(names, item.name), ps, bytes, n)
    BY <1>1, <2>2, <2>4, TallyGrown
  <2>5. QED
    BY <1>1, <1>2, <2>1, <2>2, <2>3, <2>4 DEF Knows
<1>5. QED
  BY <1>3, <1>4
-----------------------------------------------------------------------------
(* Rule k is the limit, the only rule but for sanitizeErrors. *)
Limited(k) ==
    /\ rules[k].kind = "max_tool_args_bytes"
    /\ \A j \in DOMAIN rules : j # k => rules[j].kind = "sanitize_errors"

(* The events of stream s that rule k has seen. *)
SeenBy(s, k) == IF active = s /\ stage <= k THEN Len(pulled[s]) - 1 ELSE Len(pulled[s])

(* What rule k has yet to see is the event as it came, or another error for *)
(* an error.                                                                *)
Straight(k) ==
    active # None /\ stage <= k =>
        /\ next = <<>> /\ current = <<item>>
        /\ item = Source \/ (item.type = "error" /\ Source.type = "error")

Measured(k) ==
    Limited(k) =>
        /\ Numbered(synthetic[k]) /\ Straight(k)
        /\ \A s \in Streams :
              /\ Tally(synthetic[k], pulled[s], argsBytes[s], SeenBy(s, k))
              /\ Verdict(violations[s], pulled[s], rules[k].max, SeenBy(s, k))

LEMMA MeasuredInit == ASSUME Init, NEW k \in DOMAIN rules PROVE Measured(k)
<1>1. Numbered(synthetic[k]) /\ Straight(k)
  BY DEF Init, Numbered, Straight
<1>2. ASSUME NEW s \in Streams
      PROVE  /\ Tally(synthetic[k], pulled[s], argsBytes[s], SeenBy(s, k))
             /\ Verdict(violations[s], pulled[s], rules[k].max, SeenBy(s, k))
  <2>1. /\ pulled[s] = <<>> /\ violations[s] = <<>> /\ SeenBy(s, k) = 0
        /\ argsBytes[s] = [x \in {} |-> 0]
    <3>1. /\ pulled[s] = <<>> /\ violations[s] = <<>> /\ argsBytes[s] = [x \in {} |-> 0]
          /\ active # s
      BY GuardAssumption DEF Init, GuardAssumption
    <3>2. SeenBy(s, k) = 0
      BY <3>1 DEF SeenBy
    <3>3. QED
      BY <3>1, <3>2
  <2>2. DOMAIN argsBytes[s] = {} /\ 1..0 = {} /\ DOMAIN violations[s] = {}
    BY <2>1
  <2>3. \A f : Open(pulled[s], f, 0) = {}
    BY <2>2 DEF Open
  <2>4. \A f : Bytes(pulled[s], Open(pulled[s], f, 0)) = 0
    BY <2>3, BytesNone
  <2>5. QED
    BY <2>1, <2>2, <2>4 DEF Tally, Verdict, Sized
<1>3. QED
  BY <1>1, <1>2 DEF Measured

(* How far a call of a transform takes the pipeline. *)
LEMMA StageIs ==
    ASSUME Inv, active # None, NEW es, Emit(es) \/ Throw
    PROVE  /\ stage \in 1..Len(rules)
           /\ active' = None \/ (active' = active /\ stage' \in {stage, stage + 1})
  BY DEF Emit, Throw, Inv, TypeOK, Idle

LEMMA EmitStraight ==
    ASSUME Inv, active # None, NEW es \in Seq(Event), Emit(es), next = <<>>, current = <<item>>
    PROVE  \/ active' = active /\ stage' = stage + 1 /\ next' = <<>> /\ current' = es
           \/ active' = None /\ stage = Len(rules)
<1>1. Tail(current) = <<>> /\ next \o es = es
  BY NothingAdded
<1>2. stage \in 1..Len(rules)
  BY DEF Inv, TypeOK, Idle
<1>3. CASE stage < Len(rules)
  BY <1>1, <1>3 DEF Emit
<1>4. CASE ~(stage < Len(rules))
  BY <1>1, <1>2, <1>4 DEF Emit
<1>5. QED
  BY <1>3, <1>4

(* The generator's own steps. *)
LEMMA MeasuredStep ==
    ASSUME Inv, NEW k \in DOMAIN rules, Measured(k), NEW t \in Streams, Step(t)
    PROVE  Measured(k)'
<1>1. SUFFICES ASSUME Limited(k) PROVE Measured(k)'
  <2>1. rules' = rules
    BY DEF Step, Pull, Yield, Finish, SourceFails, Return, policy
  <2>2. QED
    BY <1>1, <2>1 DEF Measured, Limited
<1>2. /\ Idle /\ active = None /\ rules # <<>>
      /\ \A s \in Streams : s # None
      /\ \A s \in Streams : SeenBy(s, k) = Len(pulled[s])
  <2>1. Idle /\ rules # <<>>
    BY DEF Step, Pull, Yield, Finish, SourceFails, Return, Suspended, Idle
  <2>2. QED
    BY <2>1, GuardAssumption DEF Idle, SeenBy, GuardAssumption
<1>3. /\ Numbered(synthetic[k])
      /\ \A s \in Streams :
            /\ Tally(synthetic[k], pulled[s], argsBytes[s], Len(pulled[s]))
            /\ Verdict(violations[s], pulled[s], rules[k].max, Len(pulled[s]))
  BY <1>1, <1>2 DEF Measured
<1>4. /\ pulled \in [Streams -> Seq(Inputs)] /\ k \in 1..Len(rules)
      /\ rules' = rules /\ synthetic' = synthetic /\ argsBytes' = argsBytes
      /\ violations' = violations
  <2>1. /\ rules' = rules /\ synthetic' = synthetic /\ argsBytes' = argsBytes
        /\ violations' = violations
    BY DEF Step, Pull, Yield, Finish, SourceFails, Return, policy, closures, records
  <2>2. QED
    BY <2>1, RulesTyped DEF Inv, TypeOK
<1>5. CASE \E e \in Inputs : Pull(t, e)
  <2>1. PICK e \in Inputs : Pull(t, e)
    BY <1>5
  <2>2. /\ pulled' = [pulled EXCEPT ![t] = Append(@, e)]
        /\ active' = t /\ stage' = 1 /\ current' = <<e>> /\ next' = <<>>
    BY <1>2, <2>1 DEF Pull
  <2>3. /\ pulled'[t] = Append(pulled[t], e) /\ Len(pulled'[t]) = Len(pulled[t]) + 1
        /\ pulled'[t][Len(pulled'[t])] = e
        /\ \A s \in Streams : s # t => pulled'[s] = pulled[s]
    BY <1>4, <2>2
  <2>4. Straight(k)'
    BY <2>2, <2>3 DEF Straight, item, Source
  <2>5. ASSUME NEW s \in Streams
        PROVE  /\ Tally(synthetic[k], pulled'[s], argsBytes[s], Len(pulled[s]))
               /\ Verdict(violations[s], pulled'[s], rules[k].max, Len(pulled[s]))
               /\ SeenBy(s, k)' = Len(pulled[s])
    <3>1. pulled[s] \in Seq(Inputs) /\ Len(pulled[s]) \in Nat /\ Len(pulled[s]) <= Len(pulled[s])
      BY <1>4
    <3>2. CASE s = t
      <4>1. SeenBy(s, k)' = Len(pulled[s])
        <5>1. Len(pulled[s]) + 1 - 1 = Len(pulled[s]) /\ 1 <= k
          BY <1>4, <3>1
        <5>2. QED
          BY <2>2, <2>3, <3>2, <5>1 DEF SeenBy
      <4>2. QED
        BY <1>3, <2>3, <3>1, <3>2, <4>1, TallyLater, VerdictLater
    <3>3. CASE s # t
      BY <1>3, <2>2, <2>3, <3>3 DEF SeenBy
    <3>4. QED
      BY <3>2, <3>3
  <2>6. QED
    BY <1>3, <1>4, <2>4, <2>5 DEF Measured
<1>6. CASE ~\E e \in Inputs : Pull(t, e)
  <2>1. pulled' = pulled /\ active' = None
    BY <1>2, <1>6 DEF Step, Yield, Finish, SourceFails, Return, pipeline
  <2>2. Straight(k)' /\ \A s \in Streams : SeenBy(s, k)' = Len(pulled[s])
    BY <1>2, <2>1 DEF Straight, SeenBy
  <2>3. QED
    BY <1>3, <1>4, <2>1, <2>2 DEF Measured
<1>7. QED
  BY <1>5, <1>6

(* What both calls below have in common. *)
LEMMA MeasuredBefore ==
    ASSUME Inv, InFlight, NEW k \in DOMAIN rules, Limited(k), Measured(k), active # None
    PROVE  /\ active \in Streams /\ k \in 1..Len(rules) /\ stage \in 1..Len(rules)
           /\ item \in Event /\ rules[k].max \in Nat
           /\ pulled[active] \in Seq(Inputs) /\ violations[active] \in Seq(Entry)
           /\ Len(pulled[active]) \in Nat \ {0} /\ Source = pulled[active][Len(pulled[active])]
           /\ stage <= k => SeenBy(active, k) = Len(pulled[active]) - 1
           /\ Numbered(synthetic[k]) /\ Straight(k)
           /\ \A s \in Streams :
                 /\ Tally(synthetic[k], pulled[s], argsBytes[s], SeenBy(s, k))
                 /\ Verdict(violations[s], pulled[s], rules[k].max, SeenBy(s, k))
<1>1. /\ active \in Streams /\ k \in 1..Len(rules) /\ stage \in 1..Len(rules)
      /\ item \in Event /\ rules[k] \in Rule
  <2>1. rules \in Seq(Rule) /\ DOMAIN rules = 1..Len(rules)
    BY RulesTyped DEF Inv
  <2>2. QED
    BY <2>1, ItemTyped
<1>2. /\ pulled[active] \in Seq(Inputs) /\ violations[active] \in Seq(Entry)
      /\ pulled[active] # <<>>
  BY <1>1 DEF Inv, TypeOK, InFlight
<1>3. Len(pulled[active]) \in Nat \ {0}
  BY <1>2
<1>4. rules[k].max \in Nat
  BY <1>1 DEF Rule
<1>5. QED
  BY <1>1, <1>2, <1>3, <1>4 DEF Measured, Source, SeenBy

LEMMA MeasuredSanitize ==
    ASSUME Inv, InFlight, NEW k \in DOMAIN rules, Limited(k), Measured(k), SanitizeErrors
    PROVE  Measured(k)'
<1>1. active # None /\ rule.kind = "sanitize_errors" /\ OthersKept
      /\ synthetic' = synthetic /\ argsBytes' = argsBytes /\ rules' = rules /\ pulled' = pulled
  BY DEF SanitizeErrors, Running, OthersKept, policy, closures
<1>2. stage # k
  BY <1>1 DEF rule, Limited
<1>3. PICK es \in Seq(Event), new \in Seq(Entry) :
          /\ Emit(es) \/ (Throw /\ item.type = "error")
          /\ violations' = [violations EXCEPT ![active] = @ \o new]
          /\ \A m \in DOMAIN new : ~OverLimit(new[m])
          /\ \E f \in Event : es = <<f>> /\ (f = item \/ (f.type = "error" /\ item.type = "error"))
  <2>1. item \in Event /\ Blank("error") \in Event /\ Blank("error").type = "error"
        /\ Violation("sanitize_errors") \in Entry
        /\ ~OverLimit(Violation("sanitize_errors"))
        /\ violations \in [Streams -> Seq(Entry)] /\ active \in Streams
    BY <1>1, OwnEvents, ItemTyped, ViolationTyped
       DEF Blank, Kinds, OverLimit, Violation, Inv, TypeOK
  <2>2. CASE item.type = "error"
    <3>1. /\ Emit(<<Blank("error")>>) \/ Throw
          /\ violations' = [violations EXCEPT ![active] = Append(@, Violation("sanitize_errors"))]
      BY <2>2 DEF SanitizeErrors, Violate, Record
    <3>2. PICK v : v = Violation("sanitize_errors")
      OBVIOUS
    <3>3. /\ <<v>> \in Seq(Entry) /\ \A m \in DOMAIN <<v>> : ~OverLimit(<<v>>[m])
          /\ violations' = [violations EXCEPT ![active] = @ \o <<v>>]
      <4>1. v \in Entry /\ ~OverLimit(v) /\ DOMAIN <<v>> = {1} /\ <<v>>[1] = v
        BY <2>1, <3>2
      <4>2. \A vs \in Seq(Entry) : Append(vs, v) = vs \o <<v>>
        BY <4>1
      <4>3. violations' = [violations EXCEPT ![active] = Append(@, v)]
        BY <3>1, <3>2
      <4>4. violations' = [violations EXCEPT ![active] = @ \o <<v>>]
        BY <2>1, <4>2, <4>3
      <4>5. QED
        BY <4>1, <4>4
    <3>4. <<Blank("error")>> \in Seq(Event)
      BY <2>1
    <3>5. QED
      BY <2>1, <2>2, <3>1, <3>3, <3>4
  <2>3. CASE item.type # "error"
    <3>1. Emit(<<item>>) /\ violations' = violations
      BY <2>3 DEF SanitizeErrors, Keep, records
    <3>2. /\ <<>> \in Seq(Entry) /\ \A m \in DOMAIN <<>> : ~OverLimit(<<>>[m])
          /\ violations' = [violations EXCEPT ![active] = @ \o <<>>]
          /\ <<item>> \in Seq(Event)
      BY <2>1, <3>1
    <3>3. QED
      BY <2>1, <3>1, <3>2
  <2>4. QED
    BY <2>2, <2>3
<1>4. /\ stage \in 1..Len(rules)
      /\ active' = None \/ (active' = active /\ stage' \in {stage, stage + 1})
  BY <1>1, <1>3, StageIs
<1>5. /\ violations \in [Streams -> Seq(Entry)] /\ pulled \in [Streams -> Seq(Inputs)]
      /\ \A s \in Streams : s # None
  BY GuardAssumption DEF Inv, TypeOK, GuardAssumption
<1>6. ASSUME NEW s \in Streams, NEW n \in Nat,
             Verdict(violations[s], pulled[s], rules[k].max, n)
      PROVE  Verdict(violations'[s], pulled[s], rules[k].max, n)
  <2>1. CASE s = active
    <3>1. violations'[s] = violations[s] \o new /\ violations[s] \in Seq(Entry)
      BY <1>3, <1>5, <2>1
    <3>2. QED
      BY <1>3, <1>6, <3>1, VerdictElse
  <2>2. CASE s # active
    BY <1>3, <1>5, <1>6, <2>2
  <2>3. QED
    BY <2>1, <2>2
<1>7. ASSUME NEW s \in Streams PROVE SeenBy(s, k) \in Nat
  <2>1. Len(pulled[s]) \in Nat /\ (active = s => Len(pulled[s]) \in Nat \ {0})
    BY <1>5, MeasuredBefore
  <2>2. QED
    BY <2>1 DEF SeenBy
<1>8. CASE \A s \in Streams : SeenBy(s, k)' = SeenBy(s, k)
  <2>1. Straight(k)'
    <3>1. CASE stage > k
      BY <1>4, <3>1 DEF Straight
    <3>2. CASE stage < k /\ active' # None
      <4>1. Emit(es) /\ next = <<>> /\ current = <<item>>
            /\ (item = Source \/ (item.type = "error" /\ Source.type = "error"))
            /\ Source' = Source
        BY <1>1, <1>3, <1>4, <3>2, MeasuredBefore DEF Straight, Throw, Source
      <4>2. next' = <<>> /\ current' = es
        BY <1>1, <3>2, <4>1, EmitStraight
      <4>3. PICK f \in Event : es = <<f>> /\ (f = item \/ (f.type = "error" /\ item.type = "error"))
        BY <1>3
      <4>4. item' = f /\ current' = <<f>>
        BY <4>2, <4>3 DEF item
      <4>5. QED
        BY <4>1, <4>2, <4>3, <4>4 DEF Straight
    <3>3. CASE active' = None
      BY <3>3 DEF Straight
    <3>4. QED
      BY <1>2, <1>4, <3>1, <3>2, <3>3, MeasuredBefore
  <2>2. QED
    BY <1>1, <1>6, <1>7, <1>8, <2>1, MeasuredBefore DEF Measured
<1>9. CASE ~\A s \in Streams : SeenBy(s, k)' = SeenBy(s, k)
  <2>1. stage < k /\ Throw /\ item.type = "error" /\ active' = None
    <3>1. stage < k
      <4>1. CASE stage > k
        <5>1. \A s \in Streams : SeenBy(s, k) = Len(pulled[s]) /\ SeenBy(s, k)' = Len(pulled[s])
          BY <1>1, <1>4, <1>5, <4>1, MeasuredBefore DEF SeenBy
        <5>2. QED
          BY <1>9, <5>1
      <4>2. QED
        BY <1>2, <1>4, <4>1, MeasuredBefore
    <3>2. ~Emit(es)
      <4>1. SUFFICES ASSUME Emit(es) PROVE FALSE
        OBVIOUS
      <4>2. next = <<>> /\ current = <<item>> /\ stage # Len(rules)
        BY <1>1, <3>1, MeasuredBefore DEF Straight
      <4>3. active' = active /\ stage' = stage + 1
        BY <1>1, <4>1, <4>2, EmitStraight
      <4>4. \A s \in Streams : SeenBy(s, k)' = SeenBy(s, k)
        BY <1>1, <1>4, <3>1, <4>3, MeasuredBefore DEF SeenBy
      <4>5. QED
        BY <1>9, <4>4
    <3>3. QED
      BY <1>3, <3>1, <3>2 DEF Throw
  <2>2. /\ Source.type = "error" /\ SeenBy(active, k) = Len(pulled[active]) - 1
        /\ Source = pulled[active][Len(pulled[active])]
    BY <1>1, <2>1, MeasuredBefore DEF Straight
  <2>3. PICK n \in Nat : n = Len(pulled[active]) - 1 /\ n + 1 = Len(pulled[active])
    <3>1. PICK len \in Nat \ {0} : len = Len(pulled[active])
      BY <1>1, MeasuredBefore
    <3>2. len - 1 \in Nat /\ len - 1 + 1 = len
      OBVIOUS
    <3>3. QED
      BY <3>1, <3>2
  <2>4. ASSUME NEW s \in Streams
        PROVE  /\ Tally(synthetic[k], pulled[s], argsBytes[s], Len(pulled[s]))
               /\ Verdict(violations'[s], pulled[s], rules[k].max, Len(pulled[s]))
    <3>1. CASE s = active
      <4>1. Tally(synthetic[k], pulled[s], argsBytes[s], n + 1)
        <5>1. /\ Tally(synthetic[k], pulled[s], argsBytes[s], n) /\ pulled[s] \in Seq(Inputs)
              /\ n + 1 <= Len(pulled[s]) /\ pulled[s][n + 1].type # "tool_call"
          BY <1>1, <2>2, <2>3, <3>1, MeasuredBefore
        <5>2. QED
          BY <5>1, TallyOther
      <4>2. Verdict(violations[s] \o new, pulled[s], rules[k].max, n + 1)
        <5>1. ~Done(pulled[s][n + 1])
          BY <2>2, <2>3, <3>1 DEF Done
        <5>2. Verdict(violations[s], pulled[s], rules[k].max, n)
          BY <1>1, <2>2, <2>3, <3>1, MeasuredBefore
        <5>3. rules[k].max \in Nat /\ violations[s] \in Seq(Entry)
          BY <1>1, <3>1, MeasuredBefore
        <5>4. QED
          BY <1>3, <5>1, <5>2, <5>3, VerdictNext
      <4>3. violations'[s] = violations[s] \o new
        BY <1>3, <1>5, <3>1
      <4>4. QED
        BY <2>3, <3>1, <4>1, <4>2, <4>3
    <3>2. CASE s # active
      BY <1>1, <1>3, <1>5, <3>2, MeasuredBefore DEF SeenBy
    <3>3. QED
      BY <3>1, <3>2
  <2>5. \A s \in Streams : SeenBy(s, k)' = Len(pulled[s])
    BY <1>1, <1>5, <2>1 DEF SeenBy
  <2>6. Numbered(synthetic[k]) /\ Straight(k)'
    BY <1>1, <2>1, MeasuredBefore DEF Straight
  <2>7. QED
    BY <1>1, <2>4, <2>5, <2>6 DEF Measured
<1>10. QED
  BY <1>8, <1>9

LEMMA LimitIs ==
    ASSUME Inv, MaxToolArgsBytes
    PROVE  /\ active # None
           /\ item.type # "tool_call" => Keep /\ synthetic' = synthetic /\ argsBytes' = argsBytes
           /\ item.type = "tool_call" => synthetic' = [synthetic EXCEPT ![stage] = KeyNames(item)]
           /\ item.type = "tool_call" /\ item.phase = "delta" =>
                 /\ argsBytes' = [argsBytes EXCEPT ![active] =
                        Put(@, ToolKey(item), Total(active, ToolKey(item)) + item.size)]
                 /\ Keep
           /\ Done(item) =>
                 /\ argsBytes' = [argsBytes EXCEPT ![active] = Drop(@, ToolKey(item))]
                 /\ IF Total(active, ToolKey(item)) <= rule.max
                      THEN Keep ELSE Violate("max_tool_args_bytes", Replacement)
<1>1. active # None /\ item \in Event
  BY ItemTyped DEF MaxToolArgsBytes, Running
<1>2. item.type # "tool_call" \/ (item.type = "tool_call" /\ item.phase = "delta") \/ Done(item)
  BY <1>1 DEF Event, Done
<1>3. ~(item.phase = "delta" /\ Done(item)) /\ (Done(item) => item.type = "tool_call")
  BY DEF Done
<1>4. CASE item.type # "tool_call"
  BY <1>1, <1>3, <1>4 DEF MaxToolArgsBytes
<1>5. CASE item.type = "tool_call" /\ item.phase = "delta"
  BY <1>1, <1>3, <1>5 DEF MaxToolArgsBytes
<1>6. CASE Done(item)
  BY <1>1, <1>3, <1>6 DEF MaxToolArgsBytes
<1>7. QED
  BY <1>2, <1>4, <1>5, <1>6

(* The limit counts a delta, and judges a call that is done. *)
LEMMA LimitCounts ==
    ASSUME KeysApart, Inv, InFlight, NEW k \in DOMAIN rules, Limited(k), Measured(k),
           MaxToolArgsBytes, k = stage, NEW n \in Nat, n + 1 = Len(pulled[active])
    PROVE  /\ Numbered(synthetic'[k]) /\ DOMAIN synthetic' = DOMAIN synthetic
           /\ \A s \in Streams : s # active =>
                 Tally(synthetic'[k], pulled[s], argsBytes'[s], Len(pulled[s]))
           /\ Tally(synthetic'[k], pulled[active], argsBytes'[active], n + 1)
<1>1. /\ active # None /\ active \in Streams /\ Numbered(synthetic[k])
      /\ pulled \in [Streams -> Seq(Inputs)]
      /\ argsBytes = [s \in Streams |-> argsBytes[s]]
      /\ synthetic \in [DOMAIN rules -> Seq(Names \cup {None})]
      /\ item = Source \/ (item.type = "error" /\ Source.type = "error")
      /\ Source = pulled[active][n + 1] /\ n + 1 <= Len(pulled[active])
      /\ Source \in Inputs
  <2>1. /\ active # None /\ active \in Streams /\ Numbered(synthetic[k]) /\ Straight(k)
        /\ stage <= k /\ Source = pulled[active][Len(pulled[active])]
    BY MeasuredBefore DEF MaxToolArgsBytes, Running
  <2>2. /\ pulled \in [Streams -> Seq(Inputs)]
        /\ argsBytes = [s \in Streams |-> argsBytes[s]]
        /\ synthetic \in [DOMAIN rules -> Seq(Names \cup {None})]
    BY DEF Inv, TypeOK
  <2>3. pulled[active][n + 1] \in Inputs /\ n + 1 <= Len(pulled[active])
    BY <2>1, <2>2
  <2>4. QED
    BY <2>1, <2>2, <2>3 DEF Straight
<1>2. /\ \A s \in Streams : s # active =>
            Tally(synthetic[k], pulled[s], argsBytes[s], Len(pulled[s]))
      /\ Tally(synthetic[k], pulled[active], argsBytes[active], n)
  <2>1. /\ SeenBy(active, k) = Len(pulled[active]) - 1
        /\ \A s \in Streams : Tally(synthetic[k], pulled[s], argsBytes[s], SeenBy(s, k))
    BY <1>1, MeasuredBefore
  <2>2. Len(pulled[active]) - 1 = n
    OBVIOUS
  <2>3. QED
    BY <1>1, <2>1, <2>2 DEF SeenBy
<1>3. CASE item.type # "tool_call"
  <2>1. synthetic' = synthetic /\ argsBytes' = argsBytes
    BY <1>3, LimitIs
  <2>2. Source.type # "tool_call"
    BY <1>1, <1>3
  <2>3. QED
    BY <1>1, <1>2, <2>1, <2>2, TallyOther
<1>4. CASE item.type = "tool_call"
  <2> DEFINE more == KeyNames(item)
             key == ToolKey(item)
             total == Total(active, key)
  <2>1. item = Source
    BY <1>1, <1>4
  <2>2. /\ more \in Seq(Names \cup {None}) /\ Numbered(more) /\ Knows(more, item)
        /\ key = KeyIn(more, item)
        /\ \A ps \in Seq(Inputs), m \in Nat : \A bytes :
              m <= Len(ps) /\ Tally(synthetic[k], ps, bytes, m) => Tally(more, ps, bytes, m)
    BY <1>1, <1>4, KeyNamesIs
  <2>3. /\ \A s \in Streams : s # active => Tally(more, pulled[s], argsBytes[s], Len(pulled[s]))
        /\ Tally(more, pulled[active], argsBytes[active], n)
    <3>1. /\ \A s \in Streams : pulled[s] \in Seq(Inputs) /\ Len(pulled[s]) \in Nat
                                /\ Len(pulled[s]) <= Len(pulled[s])
          /\ n <= Len(pulled[active])
      BY <1>1
    <3>2. QED
      BY <1>1, <1>2, <2>2, <3>1
  <2>4. PICK size \in Nat : size = item.size
    BY <1>1, ItemTyped DEF Event
  <2>5. total = Sized(argsBytes[active], key)
    BY DEF Total, Sized
  <2>6. PICK bytes :
            /\ synthetic' = [synthetic EXCEPT ![stage] = more]
            /\ argsBytes' = [argsBytes EXCEPT ![active] = bytes]
            /\ DOMAIN bytes \subseteq DOMAIN argsBytes[active] \cup {key}
            /\ \A other : other # key => Sized(bytes, other) = Sized(argsBytes[active], other)
            /\ Sized(bytes, key) = IF item.phase = "delta" THEN total + size ELSE 0
    <3>1. CASE item.phase = "delta"
      <4>1. /\ synthetic' = [synthetic EXCEPT ![stage] = more]
            /\ argsBytes' = [argsBytes EXCEPT ![active] = Put(@, key, total + size)]
        BY <1>4, <2>4, <3>1, LimitIs
      <4> HIDE DEF more, key, total
      <4>2. PICK b : b = Put(argsBytes[active], key, total + size)
        OBVIOUS
      <4>3. /\ DOMAIN b \subseteq DOMAIN argsBytes[active] \cup {key}
            /\ \A other : other # key => Sized(b, other) = Sized(argsBytes[active], other)
            /\ Sized(b, key) = total + size
        BY <4>2, PutSized
      <4>4. argsBytes' = [argsBytes EXCEPT ![active] = b]
        BY <4>1, <4>2
      <4>5. QED
        BY <3>1, <4>1, <4>3, <4>4
    <3>2. CASE item.phase # "delta"
      <4>1. Done(item)
        BY <1>1, <1>4, <3>2, ItemTyped DEF Event, Done
      <4>2. /\ synthetic' = [synthetic EXCEPT ![stage] = more]
            /\ argsBytes' = [argsBytes EXCEPT ![active] = Drop(@, key)]
        BY <1>4, <4>1, LimitIs
      <4> HIDE DEF more, key, total
      <4>3. PICK b : b = Drop(argsBytes[active], key)
        OBVIOUS
      <4>4. /\ DOMAIN b \subseteq DOMAIN argsBytes[active] \cup {key}
            /\ \A other : other # key => Sized(b, other) = Sized(argsBytes[active], other)
            /\ Sized(b, key) = 0
        BY <4>3, DropSized
      <4>5. argsBytes' = [argsBytes EXCEPT ![active] = b]
        BY <4>2, <4>3
      <4>6. QED
        BY <3>2, <4>2, <4>4, <4>5
    <3>3. QED
      BY <3>1, <3>2
  <2> HIDE DEF more, key, total
  <2>7. synthetic'[k] = more /\ DOMAIN synthetic' = DOMAIN synthetic
    BY <1>1, <2>6
  <2>8. argsBytes'[active] = bytes /\ \A s \in Streams : s # active => argsBytes'[s] = argsBytes[s]
    BY <1>1, <2>6
  <2>9. Tally(more, pulled[active], bytes, n + 1)
    <3>1. pulled[active] \in Seq(Inputs) /\ item \in Inputs /\ item = pulled[active][n + 1]
      BY <1>1, <2>1
    <3>2. Sized(bytes, key) =
              IF item.phase = "delta" THEN Sized(argsBytes[active], key) + item.size ELSE 0
      BY <2>4, <2>5, <2>6
    <3>3. PICK e \in Inputs : e = item
      BY <3>1
    <3>4. /\ e = pulled[active][n + 1] /\ Knows(more, e) /\ key = KeyIn(more, e)
          /\ Sized(bytes, key) =
              IF e.phase = "delta" THEN Sized(argsBytes[active], key) + e.size ELSE 0
      BY <2>2, <3>1, <3>2, <3>3
    <3>5. QED
      BY <1>1, <2>2, <2>3, <2>6, <3>1, <3>4, TallyCall
  <2>10. QED
    BY <2>2, <2>3, <2>7, <2>8, <2>9
<1>5. QED
  BY <1>3, <1>4

LEMMA LimitJudges ==
    ASSUME KeysApart, Inv, InFlight, NEW k \in DOMAIN rules, Limited(k), Measured(k),
           MaxToolArgsBytes, k = stage, NEW n \in Nat, n + 1 = Len(pulled[active])
    PROVE  /\ \A s \in Streams : s # active => violations'[s] = violations[s]
           /\ Verdict(violations'[active], pulled[active], rules[k].max, n + 1)
<1>1. /\ active # None /\ active \in Streams /\ Numbered(synthetic[k])
      /\ violations \in [Streams -> Seq(Entry)] /\ violations[active] \in Seq(Entry)
      /\ item = Source \/ (item.type = "error" /\ Source.type = "error")
      /\ Source = pulled[active][n + 1] /\ Source \in Inputs
      /\ rule = rules[k] /\ rules[k].max \in Nat /\ eventIndex[active] = n
      /\ pulled[active] \in Seq(Inputs) /\ n <= Len(pulled[active])
  <2>1. /\ active # None /\ active \in Streams /\ Numbered(synthetic[k]) /\ Straight(k)
        /\ stage <= k /\ Source = pulled[active][Len(pulled[active])]
        /\ violations[active] \in Seq(Entry) /\ rules[k].max \in Nat
        /\ pulled[active] \in Seq(Inputs)
    BY MeasuredBefore DEF MaxToolArgsBytes, Running
  <2>2. violations \in [Streams -> Seq(Entry)] /\ eventIndex[active] = Len(pulled[active]) - 1
    BY <2>1 DEF Inv, TypeOK, InFlight
  <2>3. Len(pulled[active]) - 1 = n
    OBVIOUS
  <2>4. pulled[active][n + 1] \in Inputs /\ n <= Len(pulled[active])
    BY <2>1
  <2>5. QED
    BY <2>1, <2>2, <2>3, <2>4 DEF Straight, rule
<1>2. Verdict(violations[active], pulled[active], rules[k].max, n)
  <2>1. SeenBy(active, k) = Len(pulled[active]) - 1
    BY <1>1, MeasuredBefore
  <2>2. Len(pulled[active]) - 1 = n
    OBVIOUS
  <2>3. Verdict(violations[active], pulled[active], rules[k].max, SeenBy(active, k))
    BY <1>1, MeasuredBefore
  <2>4. QED
    BY <2>1, <2>2, <2>3
<1>3. Tally(synthetic[k], pulled[active], argsBytes[active], n)
  <2>1. SeenBy(active, k) = Len(pulled[active]) - 1
    BY <1>1, MeasuredBefore
  <2>2. Len(pulled[active]) - 1 = n
    OBVIOUS
  <2>3. Tally(synthetic[k], pulled[active], argsBytes[active], SeenBy(active, k))
    BY <1>1, MeasuredBefore
  <2>4. QED
    BY <2>1, <2>2, <2>3
<1> DEFINE over == Done(Source) /\ Bytes(pulled[active], Open(pulled[active], Source, n)) > rules[k].max
<1>4. CASE ~Done(item)
  <2>1. item.type # "tool_call" \/ (item.type = "tool_call" /\ item.phase = "delta")
    BY <1>1, <1>4, ItemTyped DEF Event, Done
  <2>2. violations' = violations
    BY <2>1, LimitIs DEF Keep, records
  <2>3. ~Done(Source)
    BY <1>1, <1>4 DEF Done
  <2>4. /\ <<>> \in Seq(Entry) /\ DOMAIN <<>> = {}
        /\ \A vs \in Seq(Entry) : vs \o <<>> = vs
    OBVIOUS
  <2>5. Verdict(violations[active] \o <<>>, pulled[active], rules[k].max, n + 1)
    BY <1>1, <1>2, <2>3, <2>4, VerdictNext
  <2>6. QED
    BY <1>1, <2>2, <2>4, <2>5
<1>5. CASE Done(item)
  <2> DEFINE total == Total(active, ToolKey(item))
  <2>1. item = Source /\ item.type = "tool_call" /\ item.phase = "done"
    BY <1>1, <1>5 DEF Done
  <2>2. total = Bytes(pulled[active], Open(pulled[active], Source, n))
    <3>1. Tally(KeyNames(item), pulled[active], argsBytes[active], n)
          /\ Knows(KeyNames(item), item) /\ ToolKey(item) = KeyIn(KeyNames(item), item)
      BY <1>1, <1>3, <2>1, KeyNamesIs
    <3>2. item \in Inputs
      BY <1>1, <2>1
    <3>3. Sized(argsBytes[active], KeyIn(KeyNames(item), item))
              = Bytes(pulled[active], Open(pulled[active], item, n))
      BY <3>1, <3>2 DEF Tally
    <3>4. QED
      BY <2>1, <3>1, <3>3 DEF Total, Sized
  <2>3. total \in Nat
    <3>1. IsFiniteSet(Open(pulled[active], Source, n))
          /\ \A j \in Open(pulled[active], Source, n) : pulled[active][j].size \in Nat
      BY <1>1, OpenIs
    <3>2. QED
      BY <2>2, <3>1, BytesTyped
  <2>4. IF total <= rule.max THEN Keep ELSE Violate("max_tool_args_bytes", Replacement)
    BY <1>5, LimitIs
  <2> HIDE DEF total
  <2>5. CASE total <= rule.max
    <3>1. violations' = violations
      BY <2>4, <2>5 DEF Keep, records
    <3>2. ~(total > rules[k].max)
      BY <1>1, <2>3, <2>5
    <3>3. /\ <<>> \in Seq(Entry) /\ DOMAIN <<>> = {}
          /\ \A vs \in Seq(Entry) : vs \o <<>> = vs
      OBVIOUS
    <3>4. Verdict(violations[active] \o <<>>, pulled[active], rules[k].max, n + 1)
      BY <1>1, <1>2, <2>2, <3>2, <3>3, VerdictNext
    <3>5. QED
      BY <1>1, <3>1, <3>3, <3>4
  <2>6. CASE ~(total <= rule.max)
    <3>1. PICK v : v = Violation("max_tool_args_bytes")
      OBVIOUS
    <3>2. violations' = [violations EXCEPT ![active] = Append(@, v)]
      BY <2>4, <2>6, <3>1 DEF Violate, Record
    <3>3. v \in Entry /\ OverLimit(v) /\ v.index = n
      BY <1>1, <3>1, ViolationTyped DEF Kinds, Violation, OverLimit
    <3>4. /\ <<v>> \in Seq(Entry) /\ DOMAIN <<v>> = {1} /\ <<v>>[1] = v
          /\ \A vs \in Seq(Entry) : Append(vs, v) = vs \o <<v>>
      BY <3>3
    <3>5. total > rules[k].max
      BY <1>1, <2>3, <2>6
    <3>6. Done(Source)
      BY <1>5, <2>1
    <3>7. Verdict(violations[active] \o <<v>>, pulled[active], rules[k].max, n + 1)
      <4>1. \A m \in DOMAIN <<v>> : OverLimit(<<v>>[m]) => <<v>>[m].index = n
        BY <3>3, <3>4
      <4>2. \E m \in DOMAIN <<v>> : OverLimit(<<v>>[m])
        BY <3>3, <3>4
      <4>3. /\ Done(pulled[active][n + 1])
            /\ Bytes(pulled[active], Open(pulled[active], pulled[active][n + 1], n))
                   > rules[k].max
        BY <1>1, <2>2, <3>5, <3>6
      <4>4. QED
        BY <1>1, <1>2, <3>4, <4>1, <4>2, <4>3, VerdictNext
    <3>8. QED
      BY <1>1, <3>2, <3>4, <3>7
  <2>7. QED
    BY <2>5, <2>6
<1>6. QED
  BY <1>4, <1>5

LEMMA MeasuredLimit ==
    ASSUME KeysApart, Inv, InFlight, NEW k \in DOMAIN rules, Limited(k), Measured(k),
           MaxToolArgsBytes, k = stage
    PROVE  Measured(k)'
<1>1. PICK n \in Nat : n + 1 = Len(pulled[active])
  <2>1. PICK len \in Nat \ {0} : len = Len(pulled[active])
    BY MeasuredBefore, LimitIs
  <2>2. len - 1 \in Nat /\ len - 1 + 1 = len
    OBVIOUS
  <2>3. QED
    BY <2>1, <2>2
<1>2. active # None /\ rules' = rules /\ pulled' = pulled /\ \A s \in Streams : s # None
  BY LimitIs, GuardAssumption DEF MaxToolArgsBytes, OthersKept, policy, GuardAssumption
<1>3. active' = None \/ (active' = active /\ stage' = stage + 1)
  <2>1. stage \in 1..Len(rules) /\ next = <<>> /\ current = <<item>> /\ k <= k
    BY <1>2, MeasuredBefore DEF Straight
  <2>2. (\E es \in Seq(Event) : Emit(es)) \/ Throw
    <3>1. Keep \/ Violate("max_tool_args_bytes", Replacement)
      <4>1. item.type # "tool_call" \/ (item.type = "tool_call" /\ item.phase = "delta") \/ Done(item)
        BY <1>2, ItemTyped DEF Event, Done
      <4>2. QED
        BY <4>1, LimitIs
    <3>2. <<item>> \in Seq(Event) /\ Replacement \in Seq(Event)
      BY <1>2, ItemTyped, ReplacementPasses DEF Limited, rule, ToolRules
    <3>3. QED
      BY <3>1, <3>2 DEF Keep, Violate
  <2>3. QED
    BY <1>2, <2>1, <2>2, EmitStraight DEF Throw
<1>4. \A s \in Streams : SeenBy(s, k)' = Len(pulled[s])
  <2>1. stage \in Nat /\ ~(stage + 1 <= stage)
    BY <1>2, MeasuredBefore
  <2>2. QED
    BY <1>2, <1>3, <2>1 DEF SeenBy
<1>5. Straight(k)'
  <2>1. stage \in Nat /\ ~(stage + 1 <= stage)
    BY <1>2, MeasuredBefore
  <2>2. QED
    BY <1>3, <2>1 DEF Straight
<1>6. ASSUME NEW s \in Streams
      PROVE  /\ Tally(synthetic'[k], pulled[s], argsBytes'[s], Len(pulled[s]))
             /\ Verdict(violations'[s], pulled[s], rules[k].max, Len(pulled[s]))
  <2>1. CASE s = active
    BY <1>1, <2>1, LimitCounts, LimitJudges
  <2>2. CASE s # active
    <3>1. SeenBy(s, k) = Len(pulled[s])
      BY <2>2 DEF SeenBy
    <3>2. Verdict(violations[s], pulled[s], rules[k].max, Len(pulled[s]))
      BY <1>2, <3>1, MeasuredBefore
    <3>3. QED
      BY <1>1, <2>2, <3>2, LimitCounts, LimitJudges
  <2>3. QED
    BY <2>1, <2>2
<1>7. Numbered(synthetic'[k])
  BY <1>1, LimitCounts
<1>8. QED
  BY <1>2, <1>4, <1>5, <1>6, <1>7 DEF Measured

LEMMA MeasuredCall ==
    ASSUME KeysApart, Inv, InFlight, NEW k \in DOMAIN rules, Measured(k), Transform
    PROVE  Measured(k)'
<1>1. active # None /\ rules' = rules /\ stage \in DOMAIN rules
  <2>1. active # None /\ OthersKept
    BY DEF Transform, RedactSecrets, RedactPII, AllowTools, DenyTools, BlockToolArgs,
           MaxToolArgsBytes, SanitizeErrors, Running
  <2>2. QED
    BY <2>1, ItemTyped DEF OthersKept, policy
<1>2. CASE ~Limited(k)
  BY <1>1, <1>2 DEF Measured, Limited
<1>3. CASE Limited(k)
  <2>1. CASE stage = k
    <3>1. rule.kind = "max_tool_args_bytes"
      BY <1>3, <2>1 DEF Limited, rule
    <3>2. MaxToolArgsBytes
      BY <3>1 DEF Transform, RedactSecrets, RedactPII, AllowTools, DenyTools, BlockToolArgs,
                  SanitizeErrors, Running
    <3>3. QED
      BY <1>3, <2>1, <3>2, MeasuredLimit
  <2>2. CASE stage # k
    <3>1. rule.kind = "sanitize_errors"
      BY <1>1, <1>3, <2>2 DEF Limited, rule
    <3>2. SanitizeErrors
      BY <3>1 DEF Transform, RedactSecrets, RedactPII, AllowTools, DenyTools, BlockToolArgs,
                  MaxToolArgsBytes, Running
    <3>3. QED
      BY <1>3, <3>2, MeasuredSanitize
  <2>3. QED
    BY <2>1, <2>2
<1>4. QED
  BY <1>2, <1>3

Weighed == Recorded /\ \A k \in DOMAIN rules : Measured(k)

LEMMA WeighedStep == ASSUME KeysApart, Weighed, [Next]_vars PROVE Weighed'
<1>1. Recorded' /\ Inv /\ InFlight
  BY RecordedStep DEF Weighed, Recorded
<1>2. ASSUME NEW k \in DOMAIN rules PROVE Measured(k)' /\ rules' = rules
  <2>1. Measured(k)
    BY DEF Weighed
  <2>2. CASE Transform
    <3>1. rules' = rules
      BY <2>2 DEF Transform, RedactSecrets, RedactPII, AllowTools, DenyTools, BlockToolArgs,
             MaxToolArgsBytes, SanitizeErrors, OthersKept, policy
    <3>2. QED
      BY <1>1, <2>1, <2>2, <3>1, MeasuredCall
  <2>3. CASE \E s \in Streams : Step(s)
    <3>1. PICK s \in Streams : Step(s)
      BY <2>3
    <3>2. rules' = rules
      BY <3>1 DEF Step, Pull, Yield, Finish, SourceFails, Return, policy
    <3>3. QED
      BY <1>1, <2>1, <3>1, <3>2, MeasuredStep
  <2>4. CASE UNCHANGED vars
    BY <2>1, <2>4 DEF vars, policy, closures, pipeline, records, Measured, Limited, Straight,
                      SeenBy, item, Source
  <2>5. QED
    BY <2>2, <2>3, <2>4 DEF Next
<1>3. rules' = rules
  <2>1. CASE UNCHANGED vars
    BY <2>1 DEF vars, policy
  <2>2. CASE Next
    BY <2>2 DEF Next, Step, Pull, Yield, Finish, SourceFails, Return, Transform, RedactSecrets,
       RedactPII, AllowTools, DenyTools, BlockToolArgs, MaxToolArgsBytes, SanitizeErrors,
       OthersKept, policy
  <2>3. QED
    BY <2>1, <2>2
<1>4. QED
  BY <1>1, <1>2, <1>3 DEF Weighed

(* With maxToolArgsBytes as the only tool rule, before or behind any number *)
(* of sanitizeErrors, a call is reported exactly when the deltas of its own *)
(* since it was last done are over the limit, for all streams interleaved.  *)
(* An id that reads like the key made up for a nameless call would share    *)
(* that call's total in keyByName's map; no id is supposed to.              *)
THEOREM SizeVerdictCorrect == ASSUME KeysApart PROVE Spec => []SizeVerdict
<1>1. Init => Weighed
  BY RecordedInit, MeasuredInit DEF Weighed
<1>2. Weighed /\ [Next]_vars => Weighed'
  BY WeighedStep
<1>3. Weighed => SizeVerdict
  <2>1. SUFFICES ASSUME Weighed, NEW s \in Streams, NEW k \in DOMAIN rules, Limited(k),
                        NEW i \in 1..Processed(s)
                 PROVE  Flagged(s, i, "max_tool_args_bytes") <=>
                            /\ Done(pulled[s][i])
                            /\ Bytes(pulled[s], DeltasBefore(s, i)) > rules[k].max
    BY DEF SizeVerdict, Limited
  <2>2. Verdict(violations[s], pulled[s], rules[k].max, SeenBy(s, k))
    BY <2>1 DEF Weighed, Measured
  <2>3. i \in 1..SeenBy(s, k)
    <3>1. pulled[s] \in Seq(Inputs)
      BY <2>1 DEF Weighed, Recorded, Inv, TypeOK
    <3>2. Len(pulled[s]) \in Nat
      BY <3>1
    <3>3. QED
      BY <3>2 DEF Processed, SeenBy
  <2>4. DeltasBefore(s, i) = Open(pulled[s], pulled[s][i], i - 1)
    BY DEF DeltasBefore, Open
  <2>5. QED
    BY <2>2, <2>3, <2>4 DEF Verdict, Flagged, OverLimit
<1>4. QED
  BY <1>1, <1>2, <1>3, PTL DEF Spec
=============================================================================
