------------------------------ MODULE ToolAudit ------------------------------
(***************************************************************************)
(* What the static audit finds in one manifest: pure functions of the      *)
(* audit directory.  Findings are sets, an entry's texts are told apart by *)
(* its place.                                                              *)
(***************************************************************************)
EXTENDS Workspace

(* parseManifestFile *)

Objects(entries) == {i \in DOMAIN entries : entries[i] # None}

Texts(section, entries) ==
    UNION {{<<section, i, text>> : text \in entries[i].texts} : i \in Objects(entries)}

ToolNames(m) ==
    {Or(m.tools[i].name, m.tools[i].function) : i \in Objects(m.tools)} \cap Names

(* Those of an OpenAPI document, at its top or in the methods of its paths. *)
XToolNames(m) == {m.xTools[i].name : i \in Objects(m.xTools)} \cap Names

(* x-tools count when no other tool is named. *)
ParseManifest(m) ==
    IF ToolNames(m) # {}
      THEN [tools |-> ToolNames(m), texts |-> Texts("tools", m.tools)]
      ELSE [tools |-> XToolNames(m),
            texts |-> Texts("tools", m.tools) \cup Texts("x-tools", m.xTools)]

ManifestValid(m) ==
    /\ m.version = "1" /\ m.tools # <<>>
    /\ \A i \in DOMAIN m.tools : m.tools[i] # None /\ m.tools[i].name \in Names

-----------------------------------------------------------------------------
(* extractPolicyToolSets *)

NamesIn(rules, key) == UNION {rules[i].names : i \in {k \in DOMAIN rules : rules[k].key = key}}
HasRule(rules, key) == \E i \in DOMAIN rules : rules[i].key = key

PolicyToolSets(rules) ==
    [allow |-> NamesIn(rules, "allowTools"), deny |-> NamesIn(rules, "denyTools"),
     hasAllowRule |-> HasRule(rules, "allowTools"),
     blockToolArgs |-> HasRule(rules, "blockToolArgs")]

Finding(code, severity, file, about, policy) ==
    [code |-> code, severity |-> severity, file |-> file, about |-> about, policy |-> policy]

(* Fault: without an allow rule nothing is compared. *)
DriftAllowOnly(file, tools, sets, policy) ==
    IF ~sets.hasAllowRule THEN {}
    ELSE {Finding("DRIFT_ALLOW", "error", file, t, policy) : t \in tools \ (sets.allow \cup sets.deny)}
         \cup {Finding("DRIFT_POLICY_ONLY", "warning", file, t, policy) : t \in sets.allow \ tools}
         \cup {Finding("DRIFT_DENY", "error", file, t, policy) : t \in tools \cap sets.deny}

ComputeDrift(file, tools, sets, policy) ==
    (IF ~sets.hasAllowRule THEN {}
     ELSE {Finding("DRIFT_ALLOW", "error", file, t, policy) : t \in tools \ (sets.allow \cup sets.deny)}
          \cup {Finding("DRIFT_POLICY_ONLY", "warning", file, t, policy) : t \in sets.allow \ tools})
    \cup {Finding("DRIFT_DENY", "error", file, t, policy) : t \in tools \cap sets.deny}

DangerousStrings(file, texts) ==
    {Finding(t[3], "warning", file, t, None) : t \in {x \in texts : x[3] \in DangerIds}}

BlockToolArgsStatic(file, texts, sets, policy) ==
    IF ~sets.blockToolArgs THEN {}
    ELSE {Finding("BLOCK_ARGS_STATIC", "error", file, t, policy) :
            t \in {x \in texts : x[3] = "blocked"}}

ParseError(file) == Finding("MANIFEST_PARSE_ERROR", "error", file, None, None)

(* One manifest against policies, which are numbered by their place. *)
AuditOf(file, m, policies) ==
    LET parsed == ParseManifest(m)
        Sets(n) == PolicyToolSets(policies[n].rules)
    IN  DangerousStrings(file, parsed.texts)
        \cup UNION {ComputeDrift(file, parsed.tools, Sets(n), n)
                    \cup BlockToolArgsStatic(file, parsed.texts, Sets(n), n) : n \in DOMAIN policies}

-----------------------------------------------------------------------------
(* The report. *)

DriftCodes == {"DRIFT_ALLOW", "DRIFT_DENY", "DRIFT_POLICY_ONLY"}

ApplyStrict(findings, strict) ==
    {IF strict /\ f.code = "DRIFT_POLICY_ONLY" THEN [f EXCEPT !.severity = "error"] ELSE f :
        f \in findings}

(* countStaticErrors *)
StaticErrors(findings, strict) ==
    {f \in findings : \/ f.code \in DriftCodes \cup {"BLOCK_ARGS_STATIC"} /\ f.severity = "error"
                      \/ f.code = "MANIFEST_PARSE_ERROR"
                      \/ strict /\ f.code \in DangerIds}

ASSUME ToolAuditAssumption ==
    DangerIds \cap (DriftCodes \cup {"BLOCK_ARGS_STATIC", "MANIFEST_PARSE_ERROR"}) = {}

SarifCatalog == DriftCodes \cup DangerIds \cup {"BLOCK_ARGS_STATIC"}

StaticScanToSarif(findings) ==
    [results |-> {[ruleId |-> f.code, level |-> f.severity, uri |-> f.file] : f \in findings},
     rules |-> SarifCatalog \cap {f.code : f \in findings}]

-----------------------------------------------------------------------------
(* What the event guard does with a call of the tool. *)
Blocks(rule, tool) ==
    \/ rule.key = "allowTools" /\ tool \notin rule.names
    \/ rule.key = "denyTools" /\ tool \in rule.names
=============================================================================
