----------------------------- MODULE CommandLine -----------------------------
(***************************************************************************)
(* The commands that answer in one go: the exit code of each.              *)
(***************************************************************************)
EXTENDS PolicyDiff, ToolAudit, StreamScan

(* cmdValidate: what cannot be read counts as invalid. *)
ValidateExit(policy) ==
    IF ~Given(policy) THEN 2 ELSE IF Resolves(policy) THEN 0 ELSE 1

(* cmdResolve *)
ResolveExit(policy) ==
    IF ~Given(policy) THEN 2 ELSE IF Resolves(policy) THEN 0 ELSE 1

ManifestReads(file) == file \in DOMAIN job.files /\ job.files[file] # Unreadable

(* Fault: a policy that is valid is taken to load. *)
DriftExitValid(policy, file) ==
    IF ~Given(policy) \/ ~Given(file) THEN 2
    ELSE IF ~Resolves(policy) \/ ~ManifestReads(file) THEN 3
    ELSE LET drift == ComputeDrift(file, ParseManifest(job.files[file]).tools,
                                   PolicyToolSets(Loaded(policy).rules), None)
         IN  IF \E f \in drift : f.severity = "error" THEN 1 ELSE 0

(* runAuditDrift: one policy, one manifest, nothing but the tool names. *)
DriftExit(policy, file) ==
    IF ~Given(policy) \/ ~Given(file) THEN 2
    ELSE IF ~Loads(policy) \/ ~ManifestReads(file) THEN 3
    ELSE LET drift == ComputeDrift(file, ParseManifest(job.files[file]).tools,
                                   PolicyToolSets(Loaded(policy).rules), None)
         IN  IF \E f \in drift : f.severity = "error" THEN 1 ELSE 0

(* runAuditValidateManifest: a file that does not read is one more error. *)
ValidateManifestExit(file) ==
    IF ~Given(file) THEN 2
    ELSE IF ManifestReads(file) /\ ManifestValid(job.files[file]) THEN 0 ELSE 1

(* cmdDoctor; sound: Node.js is recent and dist is built.  A policy and a   *)
(* manifest that the directory does not have are taken from the package.    *)
DoctorManifest == <<"tools", "manifest.json">>

DoctorExit(sound) ==
    IF /\ sound
       /\ Given(job.policy) => ValidateExit(job.policy) = 0
       /\ DoctorManifest \in DOMAIN job.files => ValidateManifestExit(DoctorManifest) = 0
      THEN 0 ELSE 2

(* main: what a command may exit with. *)
Exits(program) ==
    CASE program = "validate" -> {ValidateExit(job.policy)}
      [] program = "resolve" -> {ResolveExit(job.policy)}
      [] program = "diff" -> IF Given(job.baseline) /\ Given(job.policy) THEN {DiffExit(FALSE)} ELSE {2}
      [] program = "drift" -> {DriftExit(job.policy, job.manifest)}
      [] program = "validate-manifest" -> {ValidateManifestExit(job.manifest)}
      [] program = "doctor" -> {DoctorExit(sound) : sound \in BOOLEAN}
      [] program = "scan -" -> {ScanStdin(format) : format \in {"text", "json", "jsonl", "sse"}}
=============================================================================
