------------------------------- MODULE CiAction -------------------------------
(***************************************************************************)
(* A workflow on one checkout: commands and the CI action (action/run.mjs) *)
(* one after the other.  The action starts diff, scan and audit static as  *)
(* child processes, reads what they returned and ends with an exit code.   *)
(***************************************************************************)
EXTENDS StaticAudit, CommandLine

VARIABLES
    policyChanged, violations, failed,   \* of the action so far
    outputs                              \* what it set for the workflow, None before

Outputs == [violations : Nat, driftCount : Nat, staticFindings : Nat, policyChanged : BOOLEAN]
ASSUME OutputsAssumption == None \notin Outputs

gate == <<policyChanged, violations, failed, outputs>>
vars == <<process, walk, audit, scan, gate>>

Init ==
    /\ job \in Jobs /\ codes = <<>> /\ at = "idle" /\ children = [c \in {} |-> None]
    /\ todo = {} /\ found = {}
    /\ left = {} /\ findings = {} /\ sarif = None
    /\ read = 0 /\ hits = <<>>
    /\ policyChanged = FALSE /\ violations = 0 /\ failed = FALSE /\ outputs = None

Running == at = "idle" /\ Len(codes) < Len(job.programs)

(* The next program is one that runs in steps. *)
Start ==
    /\ Running /\ Program \in {"action", "scan", "static"}
    /\ at' = IF Program = "action" THEN "diff" ELSE Program
    /\ children' = [c \in {} |-> None]
    /\ todo' = {} /\ found' = {} /\ StartAudit /\ StartScan
    /\ policyChanged' = FALSE /\ violations' = 0 /\ failed' = FALSE /\ outputs' = None
    /\ UNCHANGED <<job, codes>>

Command ==
    /\ Running /\ Program \notin {"action", "scan", "static"}
    /\ \E code \in Exits(Program) : codes' = Append(codes, code)
    /\ UNCHANGED <<job, at, children, walk, audit, scan, gate>>

Exit(code) == at' = "idle" /\ codes' = Append(codes, code) /\ UNCHANGED <<job, children>>

GoOn(place) == at' = place /\ UNCHANGED <<job, codes, children>>

FailsOn(kinds) == job.failOn \in kinds \cup {"any"}

-----------------------------------------------------------------------------
(* The action. *)

NoDiff ==
    /\ at = "diff" /\ ~(Given(job.baseline) /\ Given(job.policy))
    /\ GoOn("scan") /\ UNCHANGED <<walk, audit, scan, gate>>

(* Fault: a diff that did not run is no change. *)
ReadDiffChanged ==
    /\ at = "diff ended"
    /\ LET changed == children["diff"].status = 1
       IN  /\ policyChanged' = changed
           /\ failed' = (changed /\ FailsOn({"drift"}))
    /\ GoOn("scan") /\ UNCHANGED <<walk, audit, scan, violations, outputs>>

(* Every status but 0 is a change, also that of a diff that did not run.    *)
ReadDiff ==
    /\ at = "diff ended"
    /\ LET changed == children["diff"].status # 0
       IN  /\ policyChanged' = changed
           /\ failed' = (changed /\ FailsOn({"drift"}))
    /\ GoOn("scan") /\ UNCHANGED <<walk, audit, scan, violations, outputs>>

NoScan ==
    /\ at = "scan" /\ Program = "action" /\ ~(Given(job.streams) /\ Given(job.policy))
    /\ GoOn("static") /\ UNCHANGED <<walk, audit, scan, gate>>

(* Without output no violation is counted, and one for output that is no    *)
(* report and comes with status 1.                                          *)
ScanCount(child) ==
    CASE child.report = None -> 0
      [] child.report = Unreadable -> IF child.status = 1 THEN 1 ELSE 0
      [] OTHER -> Len(child.report.violations)

(* Fault: what failed before is forgotten. *)
ReadScanForgetting ==
    /\ at = "scan ended"
    /\ LET child == children["scan"]
           count == ScanCount(child)
       IN  /\ violations' = count
           /\ IF child.status \notin {0, 1}
                THEN Exit(3) /\ UNCHANGED failed
                ELSE /\ failed' = (count > 0 /\ FailsOn({"violations"}))
                     /\ GoOn("static")
    /\ UNCHANGED <<walk, audit, scan, policyChanged, outputs>>

ReadScan ==
    /\ at = "scan ended"
    /\ LET child == children["scan"]
           count == ScanCount(child)
       IN  /\ violations' = count
           /\ IF child.status \notin {0, 1}
                THEN Exit(3) /\ UNCHANGED failed
                ELSE /\ failed' = (failed \/ (count > 0 /\ FailsOn({"violations"})))
                     /\ GoOn("static")
    /\ UNCHANGED <<walk, audit, scan, policyChanged, outputs>>

(* Fault: counts are taken from the report only. *)
StaticCountsBare(child) ==
    IF Given(child.report)
      THEN [drift |-> Cardinality({f \in child.report : f.code \in DriftCodes}),
            findings |-> Cardinality(child.report)]
    ELSE [drift |-> None, findings |-> None]

(* Without a report, status 1 stands for one finding. *)
StaticCounts(child) ==
    IF Given(child.report)
      THEN [drift |-> Cardinality({f \in child.report : f.code \in DriftCodes}),
            findings |-> Cardinality(child.report)]
    ELSE IF child.status = 1 THEN [drift |-> 1, findings |-> 1]
    ELSE [drift |-> 0, findings |-> 0]

(* setOutput of all, then process.exit. *)
ReadStatic ==
    /\ at = "static ended"
    /\ LET child == children["static"]
           counts == StaticCounts(child)
           fails == failed \/ (child.status = 1 /\ FailsOn({"static", "drift"}))
       IN  /\ failed' = fails
           /\ IF child.status \notin {0, 1}
                THEN Exit(3) /\ UNCHANGED outputs
                ELSE /\ outputs' = [violations |-> violations, driftCount |-> counts.drift,
                                    staticFindings |-> counts.findings,
                                    policyChanged |-> policyChanged]
                     /\ Exit(IF job.failOn # "none" /\ fails THEN 1 ELSE 0)
    /\ UNCHANGED <<walk, audit, scan, policyChanged, violations>>

(* A child that does not get to its report: node exits with 1 (a module is  *)
(* missing, the registry does not answer), or is killed and has no status;  *)
(* of the scan it matters whether it printed anything before.               *)
ChildFails(command, printed) ==
    /\ job.fragile /\ Program = "action"
    /\ \E status \in {1, None}, report \in printed : CommandEnds(command, status, report)
    /\ UNCHANGED <<walk, audit, scan, gate>>

DiffFails == at = "diff" /\ Given(job.baseline) /\ Given(job.policy) /\ ChildFails("diff", {None})
ScanFails ==
    /\ at \in {"scan", "scanning"} /\ Given(job.streams) /\ Given(job.policy)
    /\ ChildFails("scan", {None, Unreadable})
StaticFails == at \in {"static", "walking", "auditing"} /\ ChildFails("static", {None})

Next ==
    \/ Start \/ Command
    \/ NoDiff \/ ReadDiff \/ NoScan \/ ReadScan \/ ReadStatic
    \/ DiffFails \/ ScanFails \/ StaticFails
    \/ DiffStep /\ UNCHANGED <<walk, audit, scan, gate>>
    \/ ScanStep /\ UNCHANGED <<walk, audit, gate>>
    \/ StaticStep /\ UNCHANGED <<scan, gate>>

Spec == Init /\ [][Next]_vars /\ WF_vars(Next)

-----------------------------------------------------------------------------
Statuses == {0, 1, 2, 3, None}

TypeOK ==
    /\ codes \in Seq(0..3) /\ Len(codes) <= Len(job.programs)
    /\ at \in {"idle", "diff", "diff ended", "scan", "scanning", "scan ended",
               "static", "walking", "auditing", "static ended"}
    /\ DOMAIN children \subseteq {"diff", "scan", "static"}
    /\ \A c \in DOMAIN children : children[c].status \in Statuses
    /\ todo \subseteq Directories /\ found \subseteq DOMAIN job.files /\ left \subseteq found
    /\ \A f \in findings : f.file \in found
    /\ read \in Nat /\ \A n \in DOMAIN hits : hits[n] \in (1..read) \X RuleKeys
    /\ policyChanged \in BOOLEAN /\ failed \in BOOLEAN /\ violations \in Nat
    /\ outputs \in Outputs \cup {None}

(* What the guard would do with a call, and what the audit makes of it.     *)
Blocked(rules, tool) == \E i \in DOMAIN rules : Blocks(rules[i], tool)
OneAllowRule(rules) ==
    \A i, k \in DOMAIN rules : rules[i].key = "allowTools" /\ rules[k].key = "allowTools" => i = k

DriftOf(file, n, tool) ==
    {f \in children["static"].report :
        /\ f.code \in {"DRIFT_ALLOW", "DRIFT_DENY"}
        /\ f.file = file /\ f.policy = n /\ f.about = tool}

Declares(file, tool) ==
    job.files[file] # Unreadable /\ tool \in ParseManifest(job.files[file]).tools

AllowedBy(rules, tool) ==
    \E i \in DOMAIN rules : rules[i].key = "allowTools" /\ tool \in rules[i].names

(* All allow lists leave it out, or some deny list names it. *)
Flagged(rules, tool) ==
    \/ \E i \in DOMAIN rules : rules[i].key = "denyTools" /\ tool \in rules[i].names
    \/ HasRule(rules, "allowTools") /\ ~AllowedBy(rules, tool)

(* Drift is an error exactly for the declared tools that some deny list or  *)
(* every allow list is against.  The guard blocks each of them, and no      *)
(* other unless the policy has several allow lists, which the audit unites  *)
(* and the guard intersects.                                                *)
DriftIsBlocked ==
    Audited =>
        \A file \in found, n \in DOMAIN Policies, tool \in Names :
            LET rules == Policies[n].rules
            IN  /\ DriftOf(file, n, tool) # {} <=> Declares(file, tool) /\ Flagged(rules, tool)
                /\ Flagged(rules, tool) => Blocked(rules, tool)
                /\ OneAllowRule(rules) /\ Blocked(rules, tool) => Flagged(rules, tool)

(* So a call that the scan reports was foreseen wherever its tool is        *)
(* declared, but for one that an allow list names and another leaves out.   *)
AuditForesees ==
    /\ DriftIsBlocked
    /\ Audited /\ "scan" \in DOMAIN children =>
          \A n \in DOMAIN hits :
            hits[n][2] \in {"allowTools", "denyTools"} =>
                \E i \in DOMAIN job.streams[hits[n][1]].events :
                    LET tool == job.streams[hits[n][1]].events[i].name
                    IN  /\ tool # None
                        /\ \A file \in found : Declares(file, tool) =>
                              \/ DriftOf(file, 1, tool) # {}
                              \/ /\ hits[n][2] = "allowTools"
                                 /\ AllowedBy(Loaded(job.policy).rules, tool)

-----------------------------------------------------------------------------
(* The gate. *)

ActionEnded == at = "idle" /\ codes # <<>> /\ job.programs[Len(codes)] = "action"

Broken(command) ==
    /\ command \in DOMAIN children
    /\ \/ children[command].status = None
       \/ children[command].status = 1 /\ children[command].report \in {None, Unreadable}

AnyBroken == \E command \in DOMAIN children : Broken(command)

PoliciesDiffer ==
    Given(job.baseline) /\ Given(job.policy) /\ ~(Comparable /\ Comparison = {})

ToScan == Given(job.streams) /\ Given(job.policy)
StreamsSuspect ==
    ToScan /\ \E k \in DOMAIN job.streams : Suspect(job.streams[k], Loaded(job.policy))
StreamsCertain ==
    ToScan /\ \E k \in DOMAIN job.streams : Certain(job.streams[k], Loaded(job.policy))

ManifestsDrift ==
    \E file \in found, n \in DOMAIN Policies, tool \in Names :
        Declares(file, tool) /\ Flagged(Policies[n].rules, tool)

BlockedText(file, rules) ==
    HasRule(rules, "blockToolArgs") /\ \E t \in ParseManifest(job.files[file]).texts : t[3] = "blocked"

ManifestsFail ==
    \/ ManifestsDrift
    \/ \E file \in found :
        \/ job.files[file] = Unreadable
        \/ \E n \in DOMAIN Policies : BlockedText(file, Policies[n].rules)

(* No verdict: something that has to be read cannot be, or the SARIF file   *)
(* cannot be written.                                                       *)
NoVerdict ==
    \/ ToScan /\ (~Loads(job.policy) \/ \E k \in DOMAIN job.streams :
                     Throws(job.streams[k], Loaded(job.policy), None))
    \/ ~Given(job.policy) /\ ~Given(job.policyDir)
    \/ ~PoliciesLoad \/ job.sarif = "fails"

(* When no child breaks, the action ends with 3 without a verdict.  With    *)
(* one it ends with 1 if a thing fail-on names in the documentation is      *)
(* there, and with 0 if nothing is: it may fail for a stream only if there  *)
(* is something in it, and for drift or static if a manifest has an error.  *)
GateExact ==
    ActionEnded /\ ~AnyBroken =>
        IF NoVerdict THEN Last(codes) = 3
        ELSE /\ Last(codes) \in {0, 1}
             /\ \/ PoliciesDiffer /\ FailsOn({"drift"})
                \/ StreamsCertain /\ FailsOn({"violations"})
                \/ ManifestsDrift /\ FailsOn({"drift"})
                \/ ManifestsFail /\ FailsOn({"static"})
                => Last(codes) = 1
             /\ Last(codes) = 1 =>
                \/ PoliciesDiffer /\ FailsOn({"drift"})
                \/ StreamsSuspect /\ FailsOn({"violations"})
                \/ ManifestsFail /\ FailsOn({"static", "drift"})

(* Fail-on drift fails for nothing but a changed policy or drift errors.    *)
DriftGate ==
    ActionEnded /\ ~AnyBroken /\ ~NoVerdict /\ job.failOn = "drift" /\ Last(codes) = 1 =>
        PoliciesDiffer \/ ManifestsDrift

(* The outputs are there unless the exit code is 3, and agree with what is  *)
(* the case; a diff, an audit or a scan that breaks does not pass for a     *)
(* clean one, unless the scan printed nothing.                              *)
OutputsTrue ==
    ActionEnded =>
        /\ outputs = None <=> Last(codes) = 3
        /\ outputs # None =>
              /\ PoliciesDiffer => outputs.policyChanged
              /\ outputs.driftCount <= outputs.staticFindings
              /\ ~AnyBroken =>
                    /\ outputs.policyChanged <=> PoliciesDiffer
                    /\ outputs.violations > 0 => StreamsSuspect
                    /\ StreamsCertain => outputs.violations > 0
                    /\ ManifestsFail => outputs.staticFindings > 0
              /\ \/ Broken("diff") \/ Broken("static")
                 \/ Broken("scan") /\ children["scan"].report = Unreadable
                 => (job.failOn = "any" => Last(codes) = 1)

(* A scan that breaks ends the action with 3.                               *)
BrokenScanTold == ActionEnded /\ Broken("scan") => Last(codes) = 3

-----------------------------------------------------------------------------
(* Commands run on the same checkout. *)
CodesOf(program) == {codes[k] : k \in {n \in DOMAIN codes : job.programs[n] = program}}

(* What scan can use is valid, and what is valid but does not compile is    *)
(* refused, with the code each command has for that, by all that use it;    *)
(* what compiles keeps no audit from its verdict; drift that one command    *)
(* reports the other reports too; a manifest in the tree that drift cannot  *)
(* read is never clean for the static audit.                                *)
CommandsAgree ==
    LET Are(program, set) == CodesOf(program) # {} /\ CodesOf(program) \subseteq set
    IN  /\ Are("scan", {0, 1}) => ~Are("validate", {1})
        /\ Are("validate", {0}) /\ ~Compiles(job.policy) =>
              /\ CodesOf("scan") \subseteq {2} /\ CodesOf("static") \subseteq {3}
              /\ CodesOf("drift") \subseteq {2, 3}
        /\ Are("validate", {0}) /\ Compiles(job.policy) /\ ~Given(job.policyDir)
              /\ Are("static", {3}) => job.sarif = "fails"
        /\ Are("drift", {1}) => ~Are("static", {0})
        /\ Are("validate-manifest", {0}) /\ Are("validate", {0}) /\ Compiles(job.policy) =>
              ~Are("drift", {3})
        /\ Are("drift", {3}) /\ job.manifest \in DOMAIN job.files => ~Are("static", {0})
        /\ Are("doctor", {0}) => ~Are("validate", {1})

(* A workflow comes to its end. *)
ActionEnds == <>(at = "idle" /\ Len(codes) = Len(job.programs))
=============================================================================
