------------------------------ MODULE StaticAudit ------------------------------
(***************************************************************************)
(* audit static: the manifests of the walk are audited one by one against  *)
(* every policy, then the report is printed and written as SARIF.          *)
(***************************************************************************)
EXTENDS FileWalk, ToolAudit

VARIABLES
    left,       \* manifests still to be audited
    findings,   \* of those that have been
    sarif       \* what the SARIF file holds, None before

audit == <<left, findings, sarif>>

(* The policy, then those of the directory by name. *)
PolicyFiles ==
    (IF Given(job.policy) THEN <<job.policy>> ELSE <<>>)
    \o IF job.policyDir \in {None, Unreadable} THEN <<>> ELSE job.policyDir

PoliciesLoad ==
    job.policyDir # Unreadable /\ \A n \in DOMAIN PolicyFiles : Loads(PolicyFiles[n])

Policies == [n \in DOMAIN PolicyFiles |-> Loaded(PolicyFiles[n])]

StartAudit == left' = {} /\ findings' = {} /\ sarif' = None

-----------------------------------------------------------------------------
(* No policy is a mistake of the caller, one that does not load is not. *)
AuditRefused ==
    /\ at = "static"
    /\ (~Given(job.policy) /\ ~Given(job.policyDir)) \/ ~PoliciesLoad
    /\ CommandEnds("static", IF PoliciesLoad THEN 2 ELSE 3, None)
    /\ UNCHANGED <<walk, audit>>

(* resolveManifestFiles: a manifest that is a file is the only one, one     *)
(* that is not there is none; without the argument, or if it is a           *)
(* directory, the root is walked.                                           *)
ResolveManifests ==
    /\ at = "static" /\ PoliciesLoad
    /\ Given(job.policy) \/ Given(job.policyDir)
    /\ IF Given(job.manifest) /\ job.manifest \notin Directories
         THEN /\ at' = "auditing"
              /\ found' = {job.manifest} \cap DOMAIN job.files /\ todo' = {} /\ left' = found'
         ELSE at' = "walking" /\ StartWalk /\ UNCHANGED left
    /\ UNCHANGED <<job, codes, children, findings, sarif>>

EndWalk ==
    /\ at = "walking" /\ todo = {}
    /\ at' = "auditing" /\ left' = found
    /\ UNCHANGED <<job, codes, children, walk, findings, sarif>>

(* What one manifest contributes, whatever the others do. *)
FindingsOf(file) ==
    IF job.files[file] = Unreadable THEN {ParseError(file)}
                                    ELSE AuditOf(file, job.files[file], Policies)

(* Fault: the first manifest that does not parse ends the audit. *)
AuditManifestStopping(file) ==
    /\ at = "auditing" /\ file \in left
    /\ IF job.files[file] = Unreadable
         THEN left' = {} /\ findings' = findings \cup {ParseError(file)}
         ELSE /\ left' = left \ {file}
              /\ findings' = findings \cup FindingsOf(file)
    /\ UNCHANGED <<process, walk, sarif>>

(* One turn of the loop of runStaticScan. *)
AuditManifest(file) ==
    /\ at = "auditing" /\ file \in left
    /\ left' = left \ {file}
    /\ findings' = findings \cup FindingsOf(file)
    /\ UNCHANGED <<process, walk, sarif>>

(* The action passes no --strict. *)
Strict == job.strict /\ Program = "static"

(* The report is printed before the SARIF file is written; if that fails    *)
(* the command ends with 3.                                                 *)
AuditReport ==
    /\ at = "auditing" /\ left = {}
    /\ LET report == ApplyStrict(findings, Strict)
           status == IF StaticErrors(report, Strict) # {} THEN 1 ELSE 0
       IN  /\ sarif' = IF job.sarif = "written" THEN StaticScanToSarif(report) ELSE None
           /\ CommandEnds("static", IF job.sarif = "fails" THEN 3 ELSE status, report)
    /\ UNCHANGED <<walk, left, findings>>

StaticStep ==
    \/ AuditRefused \/ ResolveManifests \/ AuditReport
    \/ (\E dir \in todo : Visit(dir)) /\ UNCHANGED audit
    \/ EndWalk
    \/ \E file \in left : AuditManifest(file)

-----------------------------------------------------------------------------
Audited == "static" \in DOMAIN children /\ Given(children["static"].report)

Said(report, file) == {<<f.code, f.about, f.policy>> : f \in {g \in report : g.file = file}}

(* Only strict makes an error of what is written as a warning. *)
Agree(levels, status) ==
    /\ "error" \in levels => status = 1
    /\ status = 1 => "error" \in levels \/ job.strict

Truthful(report, status, written, files) ==
    /\ \A file \in files : Said(report, file) = Said(FindingsOf(file), file)
    /\ {f.file : f \in report} \subseteq files
    /\ status # 3 => Agree({f.severity : f \in report}, status)
    /\ Given(written) =>
          /\ Agree({r.level : r \in written.results}, status)
          /\ {r.ruleId : r \in written.results} \subseteq written.rules \cup {"MANIFEST_PARSE_ERROR"}

(* Every manifest of the walk is reported on as if it were alone, one that  *)
(* does not parse is an error; the exit status and the levels of the SARIF  *)
(* file, which are computed apart, tell the same story.                     *)
AuditWhole ==
    Audited => Truthful(children["static"].report, children["static"].status, sarif, found)
=============================================================================
