---------------------------- MODULE MCPolicyLoad ----------------------------
(* Small instances of PolicyLoad: three files in nested directories that    *)
(* extend one another in every way, and a chain of three with every content *)
(* out of a small set.                                                      *)
EXTENDS PolicyLoad

CONSTANTS
    a, b, c,                       \* /d/n/a, /d/b and /b
    top, d, n,                     \* /, /d and /d/n
    up, upup, here, down, below,   \* "../b", "../../b", "b", "d/n/a", "d/b"
    gate, t1, t2, t3

ThreeFiles == {a, b, c}
ThreeDirs == {top, d, n}
AllRefs == {up, upup, here, down, below, gate}
Home == [f \in ThreeFiles |-> CASE f = a -> n [] f = b -> d [] f = c -> top]
Join == [x \in ThreeDirs \X AllRefs |->
            CASE x = <<n, up>> -> b       [] x = <<n, upup>> -> c
              [] x = <<d, up>> -> c       [] x = <<d, here>> -> b
              [] x = <<top, here>> -> c   [] x = <<top, down>> -> a
              [] x = <<top, below>> -> b  [] OTHER -> None]

E(key) == [key |-> key, names |-> None, params |-> {}]
AllowNames(ns) == [E("allowTools") EXCEPT !.names = ns]
DenyNames(ns) == [E("denyTools") EXCEPT !.names = ns]
Matching(what) == [E("blockToolArgs") EXCEPT !.params = {what}]

NoByte == [flag \in ByteFlags |-> None]
Flag(flag, value) == [NoByte EXCEPT ![flag] = value]
File(extends, mode, byte, rules) ==
    [version |-> IF extends = None THEN "1" ELSE None, extends |-> extends, mode |-> mode,
     byte |-> byte, rules |-> rules]

AgentGate == [p \in {gate} |->
    File(None, "block", NoByte, <<AllowNames({t1}), E("sanitizeErrors")>>)]

Env(noExtends, mode, env) == [noExtends |-> noExtends, mode |-> mode, env |-> env]
NoOptions == {Env(FALSE, None, None)}
Ways == {Env(FALSE, None, None), Env(TRUE, None, None)}
Settings == {Env(FALSE, m, e) : m \in {None, "warn"}, e \in {None, "audit"}}

(* Every file extends any other, a profile, or nothing. *)
Graphs ==
    {[f \in ThreeFiles |-> File(e[f], None, NoByte, <<E("sanitizeErrors")>>)] :
        e \in [ThreeFiles -> AllRefs \cup {None}]}

(* a extends c extends b. *)
Chain(content) ==
    [f \in ThreeFiles |->
        LET x == content[f]
        IN  File(CASE f = a -> upup [] f = c -> below [] f = b -> None, x.mode, x.byte, x.rules)]

Content(mode, byte, rules) == [mode |-> mode, byte |-> byte, rules |-> rules]
Bytes == {NoByte, Flag("redactSecrets", "true"), Flag("redactSecrets", "false"),
          Flag("sanitizeErrors", "true")}
Flavours == {Content(m, byte, <<>>) : m \in {None, "block", "warn"}, byte \in Bytes}
RuleLists ==
    {<<>>, <<DenyNames({t1})>>, <<AllowNames({t2}), DenyNames({t1})>>,
     <<DenyNames({t3}), AllowNames({t1})>>, <<E("redactSecrets"), DenyNames({t2})>>,
     <<Matching("emptyContains"), E("sanitizeErrors")>>, <<E("unknown"), Matching("contains")>>,
     <<DenyNames({t1}), DenyNames({t2})>>}

Moded == {Chain(x) : x \in [ThreeFiles -> Flavours]}
Ruled == {Chain(x) : x \in [ThreeFiles -> {Content(None, NoByte, rules) : rules \in RuleLists}]}

AllFiles == Graphs \cup Moded \cup Ruled
AllSettings == Ways \cup Settings
=============================================================================
