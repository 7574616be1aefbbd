------------------------------ MODULE Workspace ------------------------------
(***************************************************************************)
(* What the command line and the CI action are pointed at, and the         *)
(* processes they start.  A workflow runs one program after the other on   *)
(* the same checkout; the action starts commands of the command line as    *)
(* child processes and waits for each.                                     *)
(***************************************************************************)
EXTENDS PolicyDocument, ByteStages

CONSTANTS
    Unreadable,   \* a file that is not there or does not parse
    PathNames,    \* of files and directories
    DangerIds,    \* of the patterns looked for in the texts of a manifest
    Jobs          \* the checkouts and arguments under study

(* Policies are given as they are when nothing is left to extend. *)
PolicyFile == {doc \in PolicyDocuments : doc.extends = None} \cup {Unreadable}

(* An entry of a manifest, None when it is no object: its name, the name of *)
(* its function ("bad" if that is no string or empty) and what its texts    *)
(* match: a pattern of the catalog, the matchers of blockToolArgs.          *)
ToolName == Names \cup {None, "bad"}
ToolEntry == [name : ToolName, function : ToolName, texts : SUBSET (DangerIds \cup {"blocked"})]
Manifest == [version : {"1", "other"}, tools : Seq(ToolEntry \cup {None}),
             xTools : Seq(ToolEntry \cup {None})]

(* An event of a recorded stream, and a stream: whether it is read as       *)
(* binary, as what it parses, and its text as the byte guard gets it.       *)
StreamEvent == [type : {"text", "tool_call", "error", "null"}, name : Names \cup {None},
                marks : SUBSET {"secret", "danger"}]
Stream == [binary : BOOLEAN, ext : {"json", "jsonl", "sse", "txt"}, brace : BOOLEAN,
           parses : SUBSET {"json", "jsonl"}, events : Seq(StreamEvent),
           text : Seq(Byte \ {Mask})]

Path == Seq(PathNames)
Programs == {"action", "scan", "scan -", "static", "drift", "validate-manifest",
             "validate", "resolve", "diff", "doctor"}

(* Arguments that are not given are None; files has the contents of the     *)
(* tree under the root.                                                     *)
IsJob(j) ==
    /\ j.programs \in Seq(Programs)
    /\ j.policy \in PolicyFile \cup {None} /\ j.baseline \in PolicyFile \cup {None}
    /\ j.policyDir \in {None, Unreadable} \/ j.policyDir \in Seq(PolicyFile)
    /\ j.mode \in Modes \cup {"invalid", None}
    /\ j.streams = None \/ j.streams \in Seq(Stream \cup {Unreadable})
    /\ DOMAIN j.files \subseteq Path \ {<<>>} /\ IsFiniteSet(DOMAIN j.files)
    /\ \A file, other \in DOMAIN j.files : IsPrefix(file, other) => file = other
    /\ \A file \in DOMAIN j.files : j.files[file] = Unreadable \/ j.files[file] \in Manifest
    /\ j.unreadable \subseteq Path /\ j.include \subseteq Path /\ j.exclude \subseteq Path
    /\ j.manifest = None \/ j.manifest \in Path
    /\ j.strict \in BOOLEAN /\ j.fragile \in BOOLEAN
    /\ j.sarif \in {"none", "written", "fails"}
    /\ j.failOn \in {"any", "violations", "static", "drift", "none", "other"}

ASSUME WorkspaceAssumption ==
    /\ Unreadable # None /\ Unreadable \notin PolicyDocuments
    /\ None \notin PolicyFile \cup Names \cup 0..3
    /\ IsFiniteSet(Names) /\ IsFiniteSet(DangerIds)
    /\ \A j \in Jobs : IsJob(j)

VARIABLES
    job,       \* the checkout and the arguments
    codes,     \* the exit codes of the programs that have ended
    at,        \* where the running program is, "idle" between two
    children   \* what its commands returned: exit status and report

process == <<job, codes, at, children>>

Given(x) == x # None
Program == job.programs[Len(codes) + 1]

AfterChild == [diff |-> "diff ended", scan |-> "scan ended", static |-> "static ended"]

(* A command returns to the action, or to the workflow. *)
CommandEnds(command, status, report) ==
    /\ children' = [c \in DOMAIN children \cup {command} |->
                      IF c = command THEN [status |-> status, report |-> report]
                                     ELSE children[c]]
    /\ IF Program = "action"
         THEN at' = AfterChild[command] /\ UNCHANGED codes
         ELSE at' = "idle" /\ codes' = Append(codes, status)
    /\ UNCHANGED job

-----------------------------------------------------------------------------
(* loadPolicy *)

Resolves(file) == file \notin {None, Unreadable} /\ ValidatePolicy(file) = {}

Loads(file) == Resolves(file) /\ Compiles(file)

(* GUARD_MODE is the mode input of the action. *)
Loaded(file) ==
    LET doc == Validated(file)
        env == IF job.mode \in Modes THEN job.mode ELSE None
    IN  CompilePolicy(doc, ApplyModeOverride(doc.mode, env, None))
=============================================================================
