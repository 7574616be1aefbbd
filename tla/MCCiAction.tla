----------------------------- MODULE MCCiAction -----------------------------
(* Checkouts and arguments: pairs of policies, inputs of the gate, trees    *)
(* and filters, manifests against policies, recorded streams, and workflows *)
(* of several commands.  Texts are made as in MCByteGuard: s k 9 make up    *)
(* keys, B and A open the other families, m opens a message and q closes    *)
(* it, _ is a blank, # the mask.                                            *)
EXTENDS CiAction

CONSTANTS t1, t2, t3

Symbols == {"s", "k", "9", "B", "A", "m", "q", "_", "#"}
MCSk == <<"s", "k">>
MCBearer == <<"B">>
MCToken == <<"A", "A">>
MCPrefixes == {MCSk, <<"B", "_">>, MCToken}
MCBlank == {"_"}
MCDigit == {"9"}
MCSecretBody == {"s", "k", "9", "A"}

(* A key over the cut of the buffer, a token that falls apart there, a      *)
(* secret and a message that fit in the window, messages that do not: at    *)
(* the front, over the cut and held there, in front of the cut.             *)
LongKey == <<"s", "k", "9", "9", "9", "_">>
SplitToken == <<"A", "A", "9", "9", "_">>
ShortSecret == <<"B", "_", "9">>
ShortMessage == <<"m", "q">>
LongMessage == <<"m", "9", "9", "9", "q">>
HeldMessage == <<"_", "_", "m", "9", "9", "q">>
FrontMessage == <<"_", "m", "q", "_", "_", "_">>
BothTexts == <<"s", "k", "9", "9", "_", "m", "q", "_", "_", "_">>
SomeTexts == {<<>>, LongKey, SplitToken, ShortSecret, ShortMessage, LongMessage, HeldMessage, FrontMessage, BothTexts}

Rule(key, names, params) == [key |-> key, names |-> names, params |-> params]
Allow(ns) == Rule("allowTools", ns, {})
Deny(ns) == Rule("denyTools", ns, {})
Secret == Rule("redactSecrets", None, {})
Errors == Rule("sanitizeErrors", None, {})
BlockArgs == Rule("blockToolArgs", None, {"contains"})
EmptyMatcher == Rule("blockToolArgs", None, {"emptyContains"})

NoByte == [flag \in ByteFlags |-> None]
Flags(on) == [flag \in ByteFlags |-> IF flag \in on THEN "true" ELSE None]
Policy(mode, byte, rules) ==
    [version |-> "1", extends |-> None, mode |-> mode, byte |-> byte, rules |-> rules]
Rules(rules) == Policy(None, NoByte, rules)

Entry(name, texts) == [name |-> name, function |-> None, texts |-> texts]
Tools(entries) == [version |-> "1", tools |-> entries, xTools |-> <<>>]
Listing(names) == Tools([n \in DOMAIN names |-> Entry(names[n], {})])
Functions == Tools(<<[name |-> None, function |-> t1, texts |-> {"blocked"}], None>>)
OpenApi == [version |-> "other", tools |-> <<Entry("bad", {"D002"})>>, xTools |-> <<Entry(t2, {"D001"})>>]
Texted == Tools(<<Entry(t1, {"D001", "blocked"}), Entry(t2, {"D001"})>>)

Event(type, name, marks) == [type |-> type, name |-> name, marks |-> marks]
Call(name) == Event("tool_call", name, {})
Events(events) ==
    [binary |-> FALSE, ext |-> "json", brace |-> TRUE, parses |-> {"json"}, events |-> events, text |-> <<>>]
Bytes(text) ==
    [binary |-> FALSE, ext |-> "sse", brace |-> FALSE, parses |-> {}, events |-> <<>>, text |-> text]
Object == [Events(<<>>) EXCEPT !.parses = {}]   \* JSON, but no events
Lines == [Events(<<Call(t1), Event("text", None, {"secret"})>>)
            EXCEPT !.ext = "jsonl", !.parses = {"jsonl"}]
Binary == [Bytes(ShortSecret) EXCEPT !.binary = TRUE]

M == <<"tools", "manifest.json">>
At(path, content) == [f \in {path} |-> content]

Plain ==
    [programs |-> <<"action">>, policy |-> Rules(<<Allow({t1}), Errors>>), baseline |-> None,
     policyDir |-> None, mode |-> None, streams |-> None, files |-> [f \in {} |-> None],
     unreadable |-> {}, include |-> {}, exclude |-> {}, manifest |-> None,
     strict |-> FALSE, fragile |-> FALSE, sarif |-> "none", failOn |-> "any"]

-----------------------------------------------------------------------------
Lists == {<<>>, <<Deny({t1})>>, <<Deny({t2})>>, <<Secret, Deny({t1})>>, <<Deny({t1}), Secret>>,
          <<Errors, Deny({t2})>>, <<Deny({t1}), Deny({t2})>>, <<Deny({t2}), Deny({t1}), Secret>>}
Pairs == {Policy(m, byte, rules) :
            m \in {None, "audit"}, byte \in {NoByte, [NoByte EXCEPT !["redactSecrets"] = "true"]},
            rules \in Lists}
DiffJobs == {[Plain EXCEPT !.baseline = x, !.policy = y] : x \in Pairs, y \in Pairs}

GateJobs ==
    {[Plain EXCEPT !.failOn = on, !.baseline = base, !.streams = streams, !.files = files,
                   !.sarif = written, !.mode = mode, !.fragile = TRUE] :
        on \in {"any", "violations", "static", "drift", "none", "other"},
        base \in {None, Plain.policy, Rules(<<Allow({t2})>>), Unreadable},
        streams \in {None, <<Events(<<Call(t1)>>)>>, <<Events(<<Call(t1), Call(t2)>>), Bytes(ShortSecret)>>,
                     <<Events(<<Call(t2)>>), Object>>},
        files \in {At(M, Listing(<<t1>>)), At(M, Listing(<<t1, t2>>)), At(M, Unreadable)},
        written \in {"written", "fails"}, mode \in {None, "audit"}}
    \cup {[Plain EXCEPT !.policy = policy, !.policyDir = dir, !.streams = streams, !.files = At(M, Listing(<<t1>>)),
                        !.fragile = TRUE] :
            policy \in {None, Unreadable, Rules(<<Allow(None)>>), Rules(<<EmptyMatcher>>)},
            dir \in {None, Unreadable, <<>>, <<Plain.policy, Rules(<<Deny({t1})>>)>>},
            streams \in {None, <<Bytes(<<>>)>>}}

ByteJobs ==
    {[Plain EXCEPT !.policy = Policy(None, Flags(on), <<Allow({t1})>>), !.streams = streams,
                   !.files = At(M, Listing(<<t1>>))] :
        on \in SUBSET ByteFlags,
        streams \in {<<Bytes(text)>> : text \in SomeTexts}
                    \cup {<<Events(<<Call(t1)>>), Bytes(text)>> : text \in SomeTexts}}
    \cup {[Plain EXCEPT !.failOn = on, !.policy = Policy(None, Flags(ByteFlags), <<Allow({t1})>>),
                        !.streams = <<Bytes(text), Bytes(ShortMessage)>>, !.fragile = TRUE] :
            on \in {"any", "violations", "none"}, text \in SomeTexts}

Tree == {<<"agent.tools.yaml">>, <<"x.json">>, <<"tools", "x.yaml">>, <<"p", "tools", "x.yaml">>,
         <<"p", "tools", "q", "x.json">>, <<"dist", "agent.tools.yaml">>, <<"p", "dist", "tools.json">>,
         <<"test", "fixtures", "policies", "invalid", "agent.tools.yaml">>}
WalkJobs ==
    {[Plain EXCEPT !.programs = <<"static">>, !.files = [f \in Tree |-> Listing(<<t1>>)],
                   !.include = include, !.exclude = exclude, !.unreadable = unreadable, !.manifest = manifest] :
        include \in {{}, {<<"p", "tools">>}, {<<"p", "tools", "q">>, <<"agent.tools.yaml">>}, {<<"test">>},
                     {<<"agent.tools.yaml", "inside">>}},
        exclude \in {{}, {<<"p">>}, {<<"p", "tools", "x.yaml">>}},
        unreadable \in {{}, {<<>>}, {<<"p", "tools">>}},
        manifest \in {None, <<"p">>}}

AuditJobs ==
    {[Plain EXCEPT !.programs = programs, !.policy = Rules(rules), !.policyDir = dir, !.files = files,
                   !.strict = strict, !.sarif = "written", !.mode = "audit",
                   !.streams = <<Events(<<Call(t1), Call(t2), Call(t3)>>)>>] :
        programs \in {<<"static">>, <<"action">>},
        rules \in {<<>>, <<Allow({t1})>>, <<Allow({t1, t2}), Allow({t2, t3})>>, <<Deny({t2}), BlockArgs>>,
                   <<Allow({t1}), Deny({t2, t3})>>},
        dir \in {None, <<Rules(<<Deny({t1})>>)>>},
        files \in {At(M, m) : m \in {Listing(<<t1, t2, t3>>), Listing(<<>>), Functions, OpenApi, Texted}}
                  \cup {[f \in {<<"a.tools.json">>, <<"b", "tools", "m.yml">>, M} |->
                            IF f = M THEN Unreadable ELSE IF Len(f) = 1 THEN Texted ELSE OpenApi]},
        strict \in BOOLEAN}

Recorded == {Events(<<Call(t2), Event("error", None, {}), Event("text", None, {"secret"})>>),
             Events(<<Event("tool_call", t1, {"danger", "secret"})>>), Events(<<Event("null", None, {})>>),
             Lines, Object, Binary, Unreadable} \cup {Bytes(text) : text \in {<<>>, ShortSecret, BothTexts}}
ScanJobs ==
    {[Plain EXCEPT !.programs = <<"scan", "scan -">>, !.policy = Policy(mode, byte, rules), !.streams = streams] :
        mode \in {None, "audit"}, byte \in {NoByte, Flags(ByteFlags)},
        rules \in {<<>>, <<Secret, Allow({t1}), BlockArgs, Errors>>, <<Errors, Deny({t2})>>},
        streams \in {<<x>> : x \in Recorded} \cup {<<x, y>> : x \in Recorded, y \in Recorded}}

CommandJobs ==
    {[Plain EXCEPT !.programs = <<"validate", "resolve", "validate-manifest", "drift", "static", "scan",
                                  "doctor", "diff">>,
                   !.policy = policy, !.baseline = Plain.policy, !.files = At(M, m), !.manifest = manifest,
                   !.strict = strict, !.sarif = written, !.streams = <<Events(<<Call(t2)>>)>>] :
        policy \in {None, Unreadable, Rules(<<>>), Rules(<<Allow({t1})>>), Rules(<<Deny({t2}), BlockArgs>>),
                    Rules(<<EmptyMatcher>>), Rules(<<Allow({t1}), Deny({t1})>>)},
        m \in {Listing(<<t1>>), Listing(<<t1, t2>>), OpenApi, Functions, Unreadable},
        manifest \in {None, M, <<"missing.json">>, <<"tools">>},
        strict \in BOOLEAN, written \in {"none", "fails"}}

(* Of the runs that look at one question.                                   *)
UnreadableJobs == {[Plain EXCEPT !.files = At(M, files), !.failOn = "drift"] :
                     files \in {Listing(<<t1>>), Listing(<<t1, t2>>), Unreadable}}
FragileJobs == {[Plain EXCEPT !.fragile = TRUE, !.failOn = on, !.streams = <<Events(<<Call(t)>>)>>,
                              !.files = At(M, Listing(<<t1>>))] : on \in {"any", "violations"}, t \in {t1, t2}}

SomeJobs == DiffJobs \cup GateJobs \cup ByteJobs \cup WalkJobs \cup AuditJobs \cup ScanJobs \cup CommandJobs
=============================================================================
