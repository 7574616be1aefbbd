--------------------------- MODULE PolicyDocument ---------------------------
(***************************************************************************)
(* Policy documents: how one is laid over another, when one is valid, what *)
(* it compiles to.  Pure functions of the policy directory.                *)
(***************************************************************************)
EXTENDS Integers, SequencesExt

CONSTANTS
    None,   \* undefined
    Names,  \* of tools
    Refs    \* what extends may name

Modes == {"block", "warn", "audit"}
ByteFlags == {"redactSecrets", "sanitizeErrors"}

(* RULE_KEYS, and "unknown" for every other key. *)
RuleKeys == {"redactSecrets", "redactPII", "allowTools", "denyTools",
             "blockToolArgs", "maxToolArgsBytes", "sanitizeErrors"}

(* What the params of a rule have: flags that are true, matchers (a pattern *)
(* that is no RegExp, contains with an empty string), a max that is a       *)
(* positive integer.                                                        *)
Params == {"email", "phone", "pattern", "badPattern", "contains", "emptyContains", "max"}

(* names is None when it is no array of strings. *)
RuleEntry == [key : RuleKeys \cup {"unknown"},
              names : {None} \cup SUBSET Names, params : SUBSET Params]

PolicyDocuments ==
    [version : {"1", "other", None}, extends : Refs \cup {None},
     mode : Modes \cup {"invalid", None},
     byte : [ByteFlags -> {"true", "false", "invalid", None}],
     rules : Seq(RuleEntry)]

(* override ?? base *)
Or(override, base) == IF override = None THEN base ELSE override

(* One rule per key. *)
Distinct(rules) == \A i, j \in DOMAIN rules : rules[i].key = rules[j].key => i = j

-----------------------------------------------------------------------------
(* mergePolicyDocuments *)

(* Fault: the entry is put behind the others. *)
ReplaceLate(rules, entry) ==
    Append(SelectSeq(rules, LAMBDA r : r.key # entry.key), entry)

(* The first rule of the same key is replaced. *)
ReplaceRule(rules, entry) ==
    LET first == SelectInSeq(rules, LAMBDA r : r.key = entry.key)
    IN  IF first = 0 THEN Append(rules, entry) ELSE [rules EXCEPT ![first] = entry]

(* Fault: byte as a whole, not flag by flag. *)
MergeByteWhole(base, override) ==
    IF \A flag \in ByteFlags : override.byte[flag] = None THEN base.byte ELSE override.byte

MergeByte(base, override) ==
    [flag \in ByteFlags |-> Or(override.byte[flag], base.byte[flag])]

(* Fault: rules as a whole, like a field. *)
MergeRulesWhole(base, override) ==
    [version |-> Or(override.version, Or(base.version, "1")), extends |-> None,
     mode |-> Or(override.mode, base.mode), byte |-> MergeByte(base, override),
     rules |-> IF override.rules = <<>> THEN base.rules ELSE override.rules]

MergePolicyDocuments(base, override) ==
    [version |-> Or(override.version, Or(base.version, "1")), extends |-> None,
     mode |-> Or(override.mode, base.mode), byte |-> MergeByte(base, override),
     rules |-> FoldLeft(ReplaceRule, base.rules, override.rules)]

-----------------------------------------------------------------------------
(* validatePolicy: the codes of the errors. *)

When(test, code) == IF test THEN {code} ELSE {}

(* validateRuleEntry *)
EntryErrors(entry) ==
    CASE entry.key = "unknown" -> {"E002"}
      [] entry.key = "redactPII" -> When(entry.params \cap {"email", "phone"} = {}, "E004")
      [] entry.key \in {"allowTools", "denyTools"} -> When(entry.names \in {None, {}}, "E008")
      [] entry.key = "blockToolArgs" ->
            LET pattern == entry.params \cap {"pattern", "badPattern"} # {}
                contains == entry.params \cap {"contains", "emptyContains"} # {}
            IN  IF pattern = contains THEN {"E007"}
                                      ELSE When("badPattern" \in entry.params, "E003")
      [] entry.key = "maxToolArgsBytes" -> When("max" \notin entry.params, "E002")
      [] OTHER -> {}

StructureErrors(doc) ==
    When(doc.version = "other" \/ (doc.version = None /\ doc.extends = None), "E001")
    \cup When(doc.mode = "invalid", "E002")
    \cup When(\E flag \in ByteFlags : doc.byte[flag] = "invalid", "E002")
    \cup UNION {EntryErrors(doc.rules[i]) : i \in DOMAIN doc.rules}

(* checkRuleConflicts: the last list of each kind counts. *)
LastNames(rules, key) ==
    LET last == SelectLastInSeq(rules, LAMBDA r : r.key = key)
    IN  IF last = 0 THEN {} ELSE rules[last].names

ConflictErrors(doc) ==
    When(LastNames(doc.rules, "allowTools") \cap LastNames(doc.rules, "denyTools") # {}, "E009")
    \cup When(/\ Or(doc.mode, "block") = "block"
              /\ \E i \in DOMAIN doc.rules :
                    doc.rules[i].key = "allowTools" /\ doc.rules[i].names = {}, "E010")

ValidatePolicy(doc) ==
    IF StructureErrors(doc) # {} THEN StructureErrors(doc) ELSE ConflictErrors(doc)

(* The document of a validation without errors. *)
Validated(doc) ==
    [doc EXCEPT !.version = Or(@, "1"), !.mode = Or(@, "block")]

-----------------------------------------------------------------------------
(* compilePolicy of a valid document; CompileRule throws for a matcher that *)
(* is the empty string.                                                     *)
Compiles(doc) ==
    \A i \in DOMAIN doc.rules :
        doc.rules[i].key = "blockToolArgs" =>
            doc.rules[i].params \cap {"pattern", "contains"} # {}

CompilePolicy(doc, mode) ==
    [mode |-> mode, rules |-> doc.rules,
     byteOptions |-> {flag \in ByteFlags : doc.byte[flag] = "true"}]

(* applyModeOverride; env is None unless GUARD_MODE is a mode. *)
ApplyModeOverride(mode, env, option) == Or(env, Or(option, mode))
=============================================================================
