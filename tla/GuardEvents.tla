----------------------------- MODULE GuardEvents -----------------------------
(***************************************************************************)
(* guardEvents: an async generator that pulls the events of a source, runs *)
(* each through the rules of a policy and yields what is left.  Several    *)
(* streams are guarded at a time with the transforms one policy compiled   *)
(* to: each stream has a context of its own, the closures of the           *)
(* transforms are shared.  Between two yields a generator runs to its end  *)
(* without another stream getting a turn (active), one transform call per  *)
(* step, in the order of the two loops of applyGuardTransforms.            *)
(***************************************************************************)
EXTENDS Integers, Sequences, FiniteSetsExt

CONSTANTS
    Streams,      \* concurrent calls of guard(source)
    None,         \* undefined
    Ids, Names,   \* of tool calls
    Inputs,       \* the events a source may produce
    Pipelines,    \* the rule lists under study
    Modes,        \* the violation modes under study
    HookThrows,   \* whether onViolation may throw
    Bound(_, _, _, _)   \* bound: the events a stream takes, by rules, mode and stream

(* What a text or the arguments of a call contain, as far as rules can tell: *)
(* a secret, a Bearer secret (its match runs on over the quotes and braces   *)
(* behind it), PII inside a JSON string or as a bare JSON number, what the   *)
(* blockToolArgs matcher looks for, text that is not JSON, a provider's      *)
(* error message, the reason policy_violation.                               *)
Marks == {"secret", "bearer", "pii", "bare", "danger", "broken", "upstream", "policy"}

(* text is the text of a text or reasoning event, the argsText of a call    *)
(* (size bytes of it), the message of an error, the reason of a finish.     *)
Event == [type : {"text", "tool_call", "error", "finish"}, phase : {"delta", "done"},
          id : Ids \cup {None}, name : Names \cup {None},
          text : SUBSET Marks, size : Nat, args : {None} \cup SUBSET Marks]

Kinds == {"redact_secrets", "redact_pii", "allow_tools", "deny_tools",
          "block_tool_args", "max_tool_args_bytes", "sanitize_errors"}

(* names is the list of a tool rule, max the limit of maxToolArgsBytes, and  *)
(* global says that the matcher of blockToolArgs is a RegExp with flag g.    *)
Rule == [kind : Kinds, names : SUBSET Names, max : Nat, global : BOOLEAN]

ASSUME GuardAssumption ==
    /\ None \notin Ids \cup Names \cup Streams
    /\ \A marks \in SUBSET Marks : marks # None
    /\ Inputs \subseteq Event
    /\ Pipelines \subseteq Seq(Rule)
    /\ Modes \subseteq {"block", "warn", "audit"}
    /\ HookThrows \in BOOLEAN

VARIABLES
    rules, mode,    \* the compiled policy
    synthetic,      \* per rule, keyByName: the n-th name got the key __idx_n
    lastIndex,      \* per rule, whether lastIndex of its RegExp is not 0
    active,         \* the stream whose event is in the pipeline, or None
    stage,          \* the rule being applied
    current, next,  \* the events it has yet to see, and those it let through
    pulled,         \* the events each stream took from its source
    eventIndex,     \* GuardContextState.eventIndex
    pending,        \* the outputs of the last event that are not yet yielded
    delivered,      \* the events yielded
    violations,     \* GuardContext.violations
    redactions,     \* GuardContextState.redactions
    argsBytes,      \* GuardContextState.toolArgsBytesById
    status,         \* of the generator
    summary         \* what onFinish was called with: a set of at most one

policy == <<rules, mode>>
closures == <<synthetic, lastIndex>>
pipeline == <<active, stage, current, next>>
records == <<violations, redactions>>
vars == <<policy, closures, pipeline, pulled, eventIndex, pending, delivered,
          records, argsBytes, status, summary>>

Idle == active = None
item == Head(current)
rule == rules[stage]

Init ==
    /\ rules \in Pipelines /\ mode \in Modes
    /\ synthetic = [k \in DOMAIN rules |-> <<>>]
    /\ lastIndex = [k \in DOMAIN rules |-> FALSE]
    /\ active = None /\ stage = 0 /\ current = <<>> /\ next = <<>>
    /\ pulled = [s \in Streams |-> <<>>] /\ eventIndex = [s \in Streams |-> None]
    /\ pending = [s \in Streams |-> <<>>] /\ delivered = [s \in Streams |-> <<>>]
    /\ violations = [s \in Streams |-> <<>>] /\ redactions = [s \in Streams |-> 0]
    /\ argsBytes = [s \in Streams |-> [k \in {} |-> 0]]
    /\ status = [s \in Streams |-> "open"] /\ summary = [s \in Streams |-> {}]

-----------------------------------------------------------------------------
(* The body of a transform call. *)

(* The transform returned the events es for item; the loops go on. *)
Emit(es) ==
    LET grown == next \o es
        rest == Tail(current)
    IN  /\ IF rest # <<>>
             THEN /\ current' = rest /\ next' = grown
                  /\ UNCHANGED <<active, stage, pending>>
           ELSE IF stage < Len(rules)
             THEN /\ current' = grown /\ next' = <<>> /\ stage' = stage + 1
                  /\ UNCHANGED <<active, pending>>
           ELSE   /\ active' = None /\ stage' = 0 /\ current' = <<>> /\ next' = <<>>
                  /\ pending' = [pending EXCEPT ![active] = grown]
        /\ UNCHANGED status

(* An exception leaves the pipeline and ends the generator. *)
Throw ==
    /\ active' = None /\ stage' = 0 /\ current' = <<>> /\ next' = <<>>
    /\ status' = [status EXCEPT ![active] = "failed"]
    /\ UNCHANGED pending

(* recordViolation: pushed before the hook is called. *)
Violation(kind) ==
    [rule |-> kind, mode |-> mode, index |-> eventIndex[active],
     tool |-> IF item.type = "tool_call" THEN item.name ELSE None]

RedactionRules == {"redact_secrets", "redact_pii"}

(* Fault: every violation counts as a redaction. *)
RecordCountingAll(kind) ==
    /\ violations' = [violations EXCEPT ![active] = Append(@, Violation(kind))]
    /\ redactions' = [redactions EXCEPT ![active] = @ + 1]

Record(kind) ==
    /\ violations' = [violations EXCEPT ![active] = Append(@, Violation(kind))]
    /\ redactions' = IF kind \in RedactionRules
                       THEN [redactions EXCEPT ![active] = @ + 1]
                       ELSE redactions

Violate(kind, es) == Record(kind) /\ (Emit(es) \/ (HookThrows /\ Throw))

Keep == Emit(<<item>>) /\ UNCHANGED records

Running(kind) == active # None /\ rule.kind = kind
OthersKept == UNCHANGED <<policy, pulled, eventIndex, delivered, summary>>

-----------------------------------------------------------------------------
(* The rules. *)

Blank(type) ==
    [type |-> type, phase |-> "done", id |-> None, name |-> None,
     text |-> {}, size |-> 0, args |-> None]

PolicyError == Blank("error")
PolicyFinish == [Blank("finish") EXCEPT !.text = {"policy"}]

(* Faults: the call is cut without an error; audit mode blocks too. *)
ReplacementFinishOnly == IF mode = "audit" THEN <<item>> ELSE <<PolicyFinish>>
ReplacementAlways == <<PolicyError, PolicyFinish>>

(* handleToolPolicyBlock *)
Replacement == IF mode = "audit" THEN <<item>> ELSE <<PolicyError, PolicyFinish>>

Secrets == {"secret", "bearer"}
PII == {"pii", "bare"}

(* A match that reaches over JSON syntax leaves text that does not parse. *)
Redacted(marks, found, breaking) ==
    (marks \ found) \cup (IF breaking \in marks THEN {"broken"} ELSE {})

Args(e) == IF e.args = None THEN {} ELSE e.args
Done(e) == e.type = "tool_call" /\ e.phase = "done"

(* redactSecrets: text, argsText and args; args that no longer parse are    *)
(* handed on as text.                                                       *)
RedactSecrets ==
    /\ Running("redact_secrets")
    /\ LET args == IF Done(item) THEN Args(item) ELSE {}
           clean == [item EXCEPT
                       !.text = IF @ \cap Secrets = {} THEN @ ELSE Redacted(@, Secrets, "bearer"),
                       !.args = IF args \cap Secrets = {} THEN @ ELSE @ \ Secrets]
       IN  IF item.type \in {"text", "tool_call"} /\ (item.text \cup args) \cap Secrets # {}
             THEN Violate("redact_secrets", <<clean>>)
             ELSE Keep
    /\ OthersKept /\ UNCHANGED <<closures, argsBytes>>

(* redactPII.  The args of a done call are scanned inside a try: when the   *)
(* redacted text does not parse, or the hook throws there, they stay as     *)
(* they were, with the violation on record.                                 *)
RedactPII ==
    /\ Running("redact_pii")
    /\ LET inText == item.type \in {"text", "tool_call"} /\ item.text \cap PII # {}
           inArgs == Done(item) /\ Args(item) \cap PII # {}
           textDone == IF inText
                         THEN [item EXCEPT !.text = Redacted(@, PII, "bare")] ELSE item
           argsDone == [textDone EXCEPT !.args = @ \ PII]
       IN  \/ ~inText /\ ~inArgs /\ Keep
           \/ inText /\ ~inArgs /\ Violate("redact_pii", <<textDone>>)
           \/ inText /\ inArgs /\ HookThrows /\ Record("redact_pii") /\ Throw
           \/ /\ inArgs
              /\ violations' = [violations EXCEPT ![active] =
                    @ \o IF inText THEN <<Violation("redact_pii"), Violation("redact_pii")>>
                                   ELSE <<Violation("redact_pii")>>]
              /\ redactions' = [redactions EXCEPT ![active] = @ + IF inText THEN 2 ELSE 1]
              /\ \/ "bare" \notin item.args /\ Emit(<<argsDone>>)
                 \/ ("bare" \in item.args \/ HookThrows) /\ Emit(<<textDone>>)
    /\ OthersKept /\ UNCHANGED <<closures, argsBytes>>

(* Fault: names are looked at only when the call is done. *)
NamedWhenDone == Done(item) /\ item.name # None

(* toolNameKnown *)
Named == item.type = "tool_call" /\ item.name # None

AllowTools ==
    /\ Running("allow_tools")
    /\ IF Named /\ item.name \notin rule.names
         THEN Violate("allow_tools", Replacement)
         ELSE Keep
    /\ OthersKept /\ UNCHANGED <<closures, argsBytes>>

DenyTools ==
    /\ Running("deny_tools")
    /\ IF Named /\ item.name \in rule.names
         THEN Violate("deny_tools", Replacement)
         ELSE Keep
    /\ OthersKept /\ UNCHANGED <<closures, argsBytes>>

(* resolveArgs: args, or else argsText when it parses. *)
Resolved(e) == e.args # None \/ (e.size > 0 /\ "broken" \notin e.text)

Danger(e) ==
    /\ Done(e) /\ Resolved(e)
    /\ "danger" \in IF e.args # None THEN e.args ELSE e.text

(* Fault: a match is remembered whatever the flags of the matcher. *)
BlockToolArgsSticky ==
    /\ Running("block_tool_args")
    /\ \/ Danger(item) /\ Violate("block_tool_args", Replacement)
       \/ (~Danger(item) \/ lastIndex[stage]) /\ Keep
    /\ lastIndex' = [lastIndex EXCEPT ![stage] = Danger(item)]
    /\ OthersKept /\ UNCHANGED <<synthetic, argsBytes>>

(* blockToolArgs.  A RegExp with flag g that matched before goes on from    *)
(* its lastIndex: it may find the next match or miss it.                    *)
BlockToolArgs ==
    /\ Running("block_tool_args")
    /\ \/ /\ Danger(item)
          /\ Violate("block_tool_args", Replacement)
          /\ lastIndex' = [lastIndex EXCEPT ![stage] = rule.global]
       \/ /\ ~Danger(item) \/ lastIndex[stage]
          /\ Keep
          /\ lastIndex' = [lastIndex EXCEPT ![stage] = @ /\ ~(Done(item) /\ Resolved(item))]
    /\ OthersKept /\ UNCHANGED <<synthetic, argsBytes>>

(* toolKey: the id, or the number of the name in the order of appearance.   *)
Position(name, names) == CHOOSE n \in DOMAIN names : names[n] = name

KeyNames(e) ==
    IF e.id # None \/ \E n \in DOMAIN synthetic[stage] : synthetic[stage][n] = e.name
      THEN synthetic[stage] ELSE Append(synthetic[stage], e.name)

ToolKey(e) == IF e.id # None THEN e.id ELSE <<"__idx_", Position(e.name, KeyNames(e)) - 1>>

Total(s, key) == IF key \in DOMAIN argsBytes[s] THEN argsBytes[s][key] ELSE 0
Put(f, key, n) == [k \in DOMAIN f \cup {key} |-> IF k = key THEN n ELSE f[k]]
DropNothing(f, key) == f   \* fault: a finished call stays counted
Drop(f, key) == [k \in DOMAIN f \ {key} |-> f[k]]

(* maxToolArgsBytes: a delta is counted and let through, the done call is   *)
(* judged by the total of its deltas, which is forgotten.                   *)
MaxToolArgsBytes ==
    /\ Running("max_tool_args_bytes")
    /\ LET key == ToolKey(item)
           total == Total(active, key)
       IN  CASE item.type # "tool_call" ->
                  Keep /\ UNCHANGED <<synthetic, argsBytes>>
             [] item.type = "tool_call" /\ item.phase = "delta" ->
                  /\ synthetic' = [synthetic EXCEPT ![stage] = KeyNames(item)]
                  /\ argsBytes' = [argsBytes EXCEPT ![active] = Put(@, key, total + item.size)]
                  /\ Keep
             [] Done(item) ->
                  /\ synthetic' = [synthetic EXCEPT ![stage] = KeyNames(item)]
                  /\ argsBytes' = [argsBytes EXCEPT ![active] = Drop(@, key)]
                  /\ IF total <= rule.max
                       THEN Keep
                       ELSE Violate("max_tool_args_bytes", Replacement)
    /\ OthersKept /\ UNCHANGED lastIndex

SanitizeErrors ==
    /\ Running("sanitize_errors")
    /\ IF item.type = "error"
         THEN Violate("sanitize_errors", <<Blank("error")>>)
         ELSE Keep
    /\ OthersKept /\ UNCHANGED <<closures, argsBytes>>

Transform ==
    \/ RedactSecrets \/ RedactPII \/ AllowTools \/ DenyTools
    \/ BlockToolArgs \/ MaxToolArgsBytes \/ SanitizeErrors

-----------------------------------------------------------------------------
(* The generator. *)

Suspended(s) == Idle /\ status[s] = "open"

(* Faults: eventIndex never set; incremented before it is used. *)
PullUnindexed(s, e) ==
    /\ Suspended(s) /\ pending[s] = <<>> /\ Bound(rules, mode, s, Append(pulled[s], e)) /\ rules # <<>>
    /\ pulled' = [pulled EXCEPT ![s] = Append(@, e)]
    /\ active' = s /\ stage' = 1 /\ current' = <<e>> /\ next' = <<>>
    /\ UNCHANGED <<policy, closures, eventIndex, pending, delivered, records, argsBytes,
                   status, summary>>

PullEarlyIndex(s, e) ==
    /\ Suspended(s) /\ pending[s] = <<>> /\ Bound(rules, mode, s, Append(pulled[s], e)) /\ rules # <<>>
    /\ pulled' = [pulled EXCEPT ![s] = Append(@, e)]
    /\ eventIndex' = [eventIndex EXCEPT ![s] = Len(pulled'[s])]
    /\ active' = s /\ stage' = 1 /\ current' = <<e>> /\ next' = <<>>
    /\ UNCHANGED <<policy, closures, pending, delivered, records, argsBytes, status, summary>>

(* The source yields e; without rules it is an output as it is. *)
Pull(s, e) ==
    /\ Suspended(s) /\ pending[s] = <<>> /\ Bound(rules, mode, s, Append(pulled[s], e))
    /\ pulled' = [pulled EXCEPT ![s] = Append(@, e)]
    /\ eventIndex' = [eventIndex EXCEPT ![s] = Len(pulled[s])]
    /\ IF rules = <<>>
         THEN /\ pending' = [pending EXCEPT ![s] = <<e>>]
              /\ UNCHANGED pipeline
         ELSE /\ active' = s /\ stage' = 1 /\ current' = <<e>> /\ next' = <<>>
              /\ UNCHANGED pending
    /\ UNCHANGED <<policy, closures, delivered, records, argsBytes, status, summary>>

(* yield out: the consumer takes one event. *)
Yield(s) ==
    /\ Suspended(s) /\ pending[s] # <<>>
    /\ delivered' = [delivered EXCEPT ![s] = Append(@, Head(pending[s]))]
    /\ pending' = [pending EXCEPT ![s] = Tail(@)]
    /\ UNCHANGED <<policy, closures, pipeline, pulled, eventIndex, records, argsBytes,
                   status, summary>>

(* summarizeGuardContext *)
Summary(s) ==
    LET vs == violations[s]
    IN  [violations |-> vs, redactions |-> redactions[s], mode |-> mode,
         countsByRule |-> [k \in {vs[i].rule : i \in DOMAIN vs} |->
                             Cardinality({i \in DOMAIN vs : vs[i].rule = k})],
         toolsTouched |-> {vs[i].tool : i \in DOMAIN vs} \ {None}]

(* The source is exhausted: onFinish, and the generator returns. *)
Finish(s) ==
    /\ Suspended(s) /\ pending[s] = <<>>
    /\ status' = [status EXCEPT ![s] = "finished"]
    /\ summary' = [summary EXCEPT ![s] = {Summary(s)}]
    /\ UNCHANGED <<policy, closures, pipeline, pulled, eventIndex, pending, delivered,
                   records, argsBytes>>

(* The source throws while the generator waits for an event. *)
SourceFails(s) ==
    /\ Suspended(s) /\ pending[s] = <<>>
    /\ status' = [status EXCEPT ![s] = "failed"]
    /\ UNCHANGED <<policy, closures, pipeline, pulled, eventIndex, pending, delivered,
                   records, argsBytes, summary>>

(* The consumer leaves its loop at a yield: what is pending is never seen   *)
(* and onFinish is not called.                                              *)
Return(s) ==
    /\ Suspended(s) /\ delivered[s] # <<>>
    /\ status' = [status EXCEPT ![s] = "returned"]
    /\ pending' = [pending EXCEPT ![s] = <<>>]
    /\ UNCHANGED <<policy, closures, pipeline, pulled, eventIndex, delivered, records,
                   argsBytes, summary>>

Step(s) ==
    \/ Yield(s) \/ Finish(s) \/ SourceFails(s) \/ Return(s)
    \/ \E e \in Inputs : Pull(s, e)

Next == Transform \/ \E s \in Streams : Step(s)

Spec == Init /\ [][Next]_vars

-----------------------------------------------------------------------------
ToolRules == {"allow_tools", "deny_tools", "block_tool_args", "max_tool_args_bytes"}
Entry == [rule : Kinds, mode : Modes, index : Nat, tool : Names \cup {None}]

(* Events stay GuardEvents on their way through the rules, every violation  *)
(* has the index of an event, and the pipeline is either empty or at one of *)
(* the rules with an event to apply it to.                                  *)
TypeOK ==
    /\ rules \in Pipelines /\ mode \in Modes
    /\ synthetic \in [DOMAIN rules -> Seq(Names \cup {None})]
    /\ lastIndex \in [DOMAIN rules -> BOOLEAN]
    /\ active \in Streams \cup {None}
    /\ current \in Seq(Event) /\ next \in Seq(Event)
    /\ IF Idle THEN stage = 0 /\ current = <<>> /\ next = <<>>
               ELSE stage \in 1..Len(rules) /\ current # <<>> /\ eventIndex[active] \in Nat
    /\ pulled \in [Streams -> Seq(Inputs)]
    /\ eventIndex \in [Streams -> Nat \cup {None}]
    /\ pending \in [Streams -> Seq(Event)] /\ delivered \in [Streams -> Seq(Event)]
    /\ violations \in [Streams -> Seq(Entry)] /\ redactions \in [Streams -> Nat]
    /\ argsBytes = [s \in Streams |-> argsBytes[s]]
    /\ \A s \in Streams : \A k \in DOMAIN argsBytes[s] : argsBytes[s][k] \in Nat
    /\ status \in [Streams -> {"open", "finished", "failed", "returned"}]

(* What rule r guarantees of an event it let through.  redactPII guarantees *)
(* nothing of args it could not put together again (see PIIRedacted), and a *)
(* global RegExp nothing at all (see DangerStopped).                        *)
Passed(m, r, e) ==
    CASE r.kind = "redact_secrets" ->
            e.type \in {"text", "tool_call"} =>
                /\ e.text \cap Secrets = {}
                /\ Done(e) => Args(e) \cap Secrets = {}
      [] r.kind = "redact_pii" ->
            e.type \in {"text", "tool_call"} => e.text \cap PII = {}
      [] r.kind = "allow_tools" ->
            m # "audit" /\ e.type = "tool_call" /\ e.name # None => e.name \in r.names
      [] r.kind = "deny_tools" ->
            m # "audit" /\ e.type = "tool_call" /\ e.name # None => e.name \notin r.names
      [] r.kind = "block_tool_args" -> m # "audit" /\ ~r.global => ~Danger(e)
      [] r.kind = "sanitize_errors" -> e.type = "error" => "upstream" \notin e.text
      [] OTHER -> TRUE

(* Whatever rules come before and after it and whatever the other streams   *)
(* do, what a rule forbids is never yielded: in block and warn mode no tool *)
(* outside the lists and no dangerous call, in every mode no secret and no  *)
(* provider error message.                                                  *)
Enforced ==
    \A s \in Streams, k \in DOMAIN rules :
        /\ \A i \in DOMAIN delivered[s] : Passed(mode, rules[k], delivered[s][i])
        /\ \A i \in DOMAIN pending[s] : Passed(mode, rules[k], pending[s][i])

(* The same of the events in the pipeline, for the rules behind them. *)
EnforcedSoFar ==
    \A k \in DOMAIN rules :
        /\ k < stage => \A i \in DOMAIN current : Passed(mode, rules[k], current[i])
        /\ k <= stage => \A i \in DOMAIN next : Passed(mode, rules[k], next[i])

-----------------------------------------------------------------------------
Count(seq, Test(_)) == Cardinality({i \in DOMAIN seq : Test(seq[i])})
Output(s) == delivered[s] \o pending[s] \o (IF active = s THEN next \o current ELSE <<>>)
IsPolicyFinish(e) == e.type = "finish" /\ "policy" \in e.text
OfToolRule(v) == v.rule \in ToolRules
Whole(s) == status[s] \in {"open", "finished"}

(* A tool call is blocked exactly when that is on record: each violation of *)
(* a tool rule put one policy_violation finish into the stream, behind an   *)
(* error, and no finish of that reason has another origin than a violation  *)
(* or the source.  In audit mode none is put in.                            *)
Substituted ==
    \A s \in Streams :
        LET out == Output(s)
            blocked == IF mode = "audit" THEN 0 ELSE Count(violations[s], OfToolRule)
        IN  /\ Whole(s) => Count(out, IsPolicyFinish)
                               = Count(pulled[s], IsPolicyFinish) + blocked
            /\ Whole(s) /\ Idle =>
                  \A i \in DOMAIN out :
                     IsPolicyFinish(out[i]) /\ Count(pulled[s], IsPolicyFinish) = 0 =>
                         i > 1 /\ out[i - 1].type = "error"

(* Audit mode is a shadow: the rules take no event away, put none in and    *)
(* move none; the n-th output is the n-th input up to redacted text.        *)
AuditShadow ==
    mode = "audit" =>
        \A s \in Streams :
            LET out == Output(s)
            IN  /\ Len(out) <= Len(pulled[s])
                /\ Whole(s) => Len(out) = Len(pulled[s])
                /\ \A i \in DOMAIN out :
                      /\ out[i].type = pulled[s][i].type
                      /\ out[i].type = "tool_call" =>
                            /\ out[i].id = pulled[s][i].id
                            /\ out[i].name = pulled[s][i].name
                            /\ out[i].phase = pulled[s][i].phase

(* A violation names the event that caused it, also when several streams    *)
(* are in flight: the event at its index has what its rule looks for, and   *)
(* the indices are those of the source's order.                             *)
IndexTrue ==
    \A s \in Streams : \A i \in DOMAIN violations[s] :
        LET v == violations[s][i]
            e == pulled[s][v.index + 1]
            earlier == {violations[s][j] : j \in 1..(i - 1)}
        IN  /\ v.index < Len(pulled[s])
            /\ \A w \in earlier : w.index <= v.index
            /\ v.rule \in ToolRules => e.type = "tool_call" /\ e.name = v.tool
            /\ v.rule = "redact_secrets" => (e.text \cup Args(e)) \cap Secrets # {}
            /\ v.rule = "redact_pii" => (e.text \cup Args(e)) \cap PII # {}
            /\ v.rule = "sanitize_errors" =>
                  \/ e.type = "error"
                  \/ \E w \in earlier : w.index = v.index /\ w.rule \in ToolRules

(* The bytes of the deltas of the call that the i-th event of s is done with. *)
SameCall(e, f) ==
    /\ e.type = "tool_call" /\ f.type = "tool_call"
    /\ e.id = f.id /\ (e.id = None => e.name = f.name)

DeltasBefore(s, i) ==
    {j \in 1..(i - 1) :
        /\ SameCall(pulled[s][j], pulled[s][i])
        /\ \A h \in j..(i - 1) : SameCall(pulled[s][h], pulled[s][i]) =>
                                     pulled[s][h].phase = "delta"}

Bytes(events, J) == MapThenSumSet(LAMBDA j : events[j].size, J)

Processed(s) == IF active = s THEN Len(pulled[s]) - 1 ELSE Len(pulled[s])
Flagged(s, i, kind) ==
    \E n \in DOMAIN violations[s] :
        violations[s][n].index = i - 1 /\ violations[s][n].rule = kind

(* Under a policy whose only tool rule is the limit, a call is over it       *)
(* exactly when the deltas of its own id (its own name, without an id) since *)
(* that id was last done add up to more bytes than that: no byte of another  *)
(* call, of a finished one or of another stream is counted, and none is      *)
(* forgotten.                                                                *)
SizeVerdict ==
    \A s \in Streams, k \in DOMAIN rules :
        /\ rules[k].kind = "max_tool_args_bytes"
        /\ \A j \in DOMAIN rules : j # k => rules[j].kind = "sanitize_errors"
        => \A i \in 1..Processed(s) :
              Flagged(s, i, "max_tool_args_bytes") <=>
                  /\ Done(pulled[s][i])
                  /\ Bytes(pulled[s], DeltasBefore(s, i)) > rules[k].max

(* A done call with dangerous arguments never gets by unnoticed: whatever    *)
(* its stream or another sent before, one of the tool rules reports it, as   *)
(* long as no redaction comes before blockToolArgs and its RegExp is not     *)
(* global.  Behind a redaction it may see arguments that no longer parse, a  *)
(* global RegExp goes on from where its last match ended.                    *)
DangerStopped ==
    \A s \in Streams, k \in DOMAIN rules : \A i \in 1..Processed(s) :
        /\ rules[k].kind = "block_tool_args" /\ ~rules[k].global
        /\ \A j \in 1..(k - 1) : rules[j].kind \notin RedactionRules
        /\ Danger(pulled[s][i])
        => \E kind \in ToolRules : Flagged(s, i, kind)

(* onFinish is called at the end of a source that did not fail, once, with  *)
(* every violation, and its redactions are the redaction rules' violations. *)
OfRedaction(v) == v.rule \in RedactionRules
SummaryExact ==
    \A s \in Streams :
        /\ redactions[s] = Count(violations[s], OfRedaction)
        /\ status[s] = "finished" <=> summary[s] # {}
        /\ \A sum \in summary[s] :
              sum.violations = violations[s] /\ sum.redactions = redactions[s]

-----------------------------------------------------------------------------
(* Statements of the documents and messages that the code does not keep.    *)

(* The limit on argument bytes is a streaming limit: no more bytes of a     *)
(* call's deltas than that are ever yielded.                                *)
StreamingLimit ==
    \A s \in Streams, k \in DOMAIN rules : \A id \in Ids :
        rules[k].kind = "max_tool_args_bytes" /\ mode = "block" =>
            Bytes(delivered[s],
                  {i \in DOMAIN delivered[s] :
                     /\ delivered[s][i].type = "tool_call" /\ delivered[s][i].id = id
                     /\ delivered[s][i].phase = "delta"})
                <= rules[k].max

(* PII reported as redacted is redacted: no call is yielded with it. *)
PIIRedacted ==
    (\E k \in DOMAIN rules : rules[k].kind = "redact_pii") =>
        \A s \in Streams : \A i \in DOMAIN delivered[s] :
            Done(delivered[s][i]) => Args(delivered[s][i]) \cap PII = {}
=============================================================================
