------------------------------ MODULE PolicyDiff ------------------------------
(***************************************************************************)
(* The diff command: two resolved and validated policies are compared.     *)
(***************************************************************************)
EXTENDS Workspace

(* The last rule of each key. *)
RulesMap(doc) ==
    [key \in {doc.rules[i].key : i \in DOMAIN doc.rules} |->
        doc.rules[SelectLastInSeq(doc.rules, LAMBDA r : r.key = key)]]

Reported(kind, path) == [kind |-> kind, path |-> path]

(* Fault: only the rules of the first policy are looked at. *)
DiffOneWay(x, y) ==
    LET mapX == RulesMap(x)
        mapY == RulesMap(y)
    IN  {Reported("changed", field) : field \in {f \in {"mode", "extends", "byte"} : x[f] # y[f]}}
        \cup {Reported("removed", key) : key \in DOMAIN mapX \ DOMAIN mapY}
        \cup {Reported("changed", key) :
                key \in {k \in DOMAIN mapX \cap DOMAIN mapY : mapX[k] # mapY[k]}}

(* diffPolicies *)
DiffPolicies(x, y) ==
    LET mapX == RulesMap(x)
        mapY == RulesMap(y)
    IN  {Reported("changed", field) : field \in {f \in {"mode", "extends", "byte"} : x[f] # y[f]}}
        \cup {Reported("removed", key) : key \in DOMAIN mapX \ DOMAIN mapY}
        \cup {Reported("changed", key) :
                key \in {k \in DOMAIN mapX \cap DOMAIN mapY : mapX[k] # mapY[k]}}
        \cup {Reported("added", key) : key \in DOMAIN mapY \ DOMAIN mapX}

(* Both policies are there and valid. *)
Comparable == Resolves(job.baseline) /\ Resolves(job.policy)

Comparison == DiffPolicies(Validated(job.baseline), Validated(job.policy))

(* cmdDiff; an exception of the loader ends the program with 2. *)
DiffExit(check) ==
    IF ~Comparable THEN 2 ELSE IF check /\ Comparison # {} THEN 1 ELSE 0

DiffStep ==
    /\ at = "diff" /\ Given(job.baseline) /\ Given(job.policy)
    /\ CommandEnds("diff", DiffExit(TRUE), IF Comparable THEN Comparison ELSE None)

-----------------------------------------------------------------------------
(* The rules that are last of their key. *)
LastRules(doc) ==
    {doc.rules[i] : i \in {n \in DOMAIN doc.rules :
        \A k \in (n + 1)..Len(doc.rules) : doc.rules[k].key # doc.rules[n].key}}

(* The report is empty exactly when the policies have the same mode, flags  *)
(* and rules, in whatever order, where of several rules with one key the    *)
(* last one stands for all; policies that have no such rules are the same.  *)
DiffExact ==
    LET a == Validated(job.baseline)
        b == Validated(job.policy)
        report == children["diff"].report
        Same == a.mode = b.mode /\ a.byte = b.byte /\ a.extends = b.extends
    IN  "diff" \in DOMAIN children /\ children["diff"].report # None =>
            /\ report = {} <=> Same /\ LastRules(a) = LastRules(b)
            /\ Distinct(a.rules) /\ Distinct(b.rules) =>
                  (report = {} <=> Same /\ ToSet(a.rules) = ToSet(b.rules))

(* A policy laid over another changes nothing that it does not mention and  *)
(* removes nothing, also when it or the other has several rules of one key. *)
MergeLocal ==
    LET a == Validated(job.baseline)
        b == Validated(job.policy)
        report == DiffPolicies(a, MergePolicyDocuments(a, b))
        Mentions(path) ==
            CASE path = "mode" -> TRUE
              [] path = "byte" -> \E flag \in ByteFlags : b.byte[flag] # None
              [] path = "extends" -> FALSE
              [] OTHER -> \E i \in DOMAIN b.rules : b.rules[i].key = path
    IN  "diff" \in DOMAIN children /\ Comparable =>
            \A entry \in report : entry.kind # "removed" /\ Mentions(entry.path)
=============================================================================
