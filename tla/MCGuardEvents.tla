--------------------------- MODULE MCGuardEvents ---------------------------
(* Small instances of GuardEvents: rule lists a policy compiles to and the  *)
(* events that make them interact.                                          *)
EXTENDS GuardEvents

CONSTANTS c1, s1, s2

R(kind) == [kind |-> kind, names |-> {}, max |-> 0, global |-> FALSE]
Allow(ns) == [R("allow_tools") EXCEPT !.names = ns]
Deny(ns) == [R("deny_tools") EXCEPT !.names = ns]
Limit(n) == [R("max_tool_args_bytes") EXCEPT !.max = n]
Secret == R("redact_secrets")
Pii == R("redact_pii")
Block == R("block_tool_args")
BlockGlobal == [Block EXCEPT !.global = TRUE]
Sanitize == R("sanitize_errors")

Ev(type, phase, id, name, text, size, args) ==
    [type |-> type, phase |-> phase, id |-> id, name |-> name, text |-> text,
     size |-> size, args |-> args]
TextOf(marks) == Ev("text", "delta", None, None, marks, 1, None)
Upstream == Ev("error", "done", None, None, {"upstream"}, 0, None)
Stop == Ev("finish", "done", None, None, {}, 0, None)
Delta(id, name, marks, size) == Ev("tool_call", "delta", id, name, marks, size, None)
Call(id, name, marks, args) ==
    Ev("tool_call", "done", id, name, marks, IF marks = {} THEN 0 ELSE 1, args)

OneStream == {s1}
TwoStreams == {s1, s2}
AllModes == {"block", "warn", "audit"}
BlockMode == {"block"}

(* Two streams: tool rules, and the limit with calls that have ids or names. *)
ToolPipelines == {<<Deny({"b"}), Block>>, <<Allow({"a"}), Sanitize>>}
SizePipelines == {<<Limit(3)>>}
StreamPipelines == ToolPipelines \cup SizePipelines

ToolInputs ==
    {Delta(c1, "b", {}, 1), Call(c1, "a", {}, {"danger"}), Call(c1, None, {"danger"}, None),
     Upstream}
SizeInputs ==
    {Delta(c1, "a", {}, 4), Delta(None, "a", {}, 2), Delta(None, None, {}, 2),
     Call(c1, "a", {}, None), Call(None, "a", {}, None)}
StreamInputs == ToolInputs \cup SizeInputs

(* One stream: README order (secrets, PII, tools, arguments, size, errors),  *)
(* an order of its own, blockToolArgs before redaction, a global RegExp, none. *)
Full == <<Secret, Pii, Allow({"a", "b"}), Deny({"b"}), Block, Limit(1), Sanitize>>
RulePipelines == {Full, <<Sanitize, Deny({"b"}), Pii, Secret>>, <<Sanitize, Block, Secret>>,
                  <<BlockGlobal>>, <<>>}
RuleInputs ==
    {TextOf({"secret", "pii"}), Delta(c1, "a", {"pii"}, 2), Delta(c1, "b", {}, 1),
     Call(c1, "a", {"bearer"}, {"secret", "pii"}), Call(c1, "a", {"danger", "bearer"}, None),
     Call(c1, None, {"pii"}, {"bare"}), Upstream, Stop}

(* Two streams share tool rules, or the limit in block mode; of the first   *)
(* three events are taken when the limit is checked.  The other rule lists  *)
(* are for the first stream alone.                                          *)
OwnInputs(list, m, s, events) ==
    LET Taken(S, n) == Len(events) <= n /\ \A i \in DOMAIN events : events[i] \in S
    IN  CASE list \in SizePipelines -> m = "block" /\ Taken(SizeInputs, IF s = s1 THEN 3 ELSE 2)
          [] list \in ToolPipelines -> Taken(ToolInputs, 2)
          [] OTHER -> s = s1 /\ Taken(RuleInputs, 3)

(* The limit is checked for streams that end early in a hook only; a stream *)
(* that takes no event does not begin.                                      *)
EndsKept ==
    \A s \in Streams :
        /\ rules \in SizePipelines => status[s] \in {"open", "finished"} \/ violations[s] # <<>>
        /\ s = s2 /\ rules \in RulePipelines => status[s] = "open"

AllPipelines == StreamPipelines \cup RulePipelines
AllInputs == StreamInputs \cup RuleInputs

TwoEvents(list, m, s, events) == Len(events) <= 2

OneLimit == {<<Limit(1)>>}
PiiOnly == {<<Pii>>}
PiiInputs == {Call(c1, "a", {}, {"pii"}), Call(c1, "a", {}, {"bare"})}
============================================================================
