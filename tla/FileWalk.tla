------------------------------- MODULE FileWalk -------------------------------
(***************************************************************************)
(* walkManifestFiles: the manifests under a root.  A path is the sequence  *)
(* of its names, <<>> is the root.                                         *)
(***************************************************************************)
EXTENDS Workspace

CONSTANTS
    Json, Structured,   \* names that end in .json, or in .json, .yaml or .yml
    AgentTools,         \* names that end in agent.tools.yaml or agent.tools.yml
    ToolsNames          \* names with "tools" in them

ASSUME FileWalkAssumption ==
    /\ Json \cup Structured \cup AgentTools \cup ToolsNames \subseteq PathNames
    /\ {"test", "fixtures", "policies", "invalid"} \subseteq PathNames

VARIABLES
    todo,    \* directories still to be read
    found    \* files taken

walk == <<todo, found>>

SkipDirs == {"node_modules", ".git", "dist", "coverage", ".pnpm-store"}

Directories ==
    {<<>>} \cup UNION {{SubSeq(f, 1, n) : n \in 1..(Len(f) - 1)} : f \in DOMAIN job.files}

(* What readdirSync finds: nothing, when it throws. *)
Entries(dir) ==
    IF dir \in job.unreadable THEN {}
    ELSE {p \in (Directories \ {<<>>}) \cup DOMAIN job.files : Front(p) = dir}

IsManifestPath(path) ==
    \/ Last(path) \in AgentTools
    \/ Len(path) > 2 /\ path[Len(path) - 1] = "tools" /\ Last(path) \in Structured
    \/ Last(path) \in Json /\ \E n \in DOMAIN path : path[n] \in ToolsNames

(* DEFAULT_EXCLUDE_PREFIXES and the argument. *)
Exclude == {<<"test", "fixtures", "policies", "invalid">>} \cup job.exclude

(* An empty prefix matches nothing. *)
MatchesPrefix(path, prefixes) == \E p \in prefixes \ {<<>>} : IsPrefix(p, path)

(* Fault: only what is below an included path is let in. *)
AllowedBelow(path) ==
    ~MatchesPrefix(path, Exclude) /\ (job.include # {} => MatchesPrefix(path, job.include))

(* An included path lets its ancestors in, so that it can be reached. *)
Allowed(path) ==
    /\ ~MatchesPrefix(path, Exclude)
    /\ job.include # {} =>
        MatchesPrefix(path, job.include) \/ \E p \in job.include : IsPrefix(path, p)

StartWalk == todo' = {<<>>} /\ found' = {}

(* Fault: what was read is read again. *)
VisitAgain(dir) ==
    /\ at = "walking" /\ dir \in todo
    /\ LET allowed == {p \in Entries(dir) : Allowed(p)}
       IN  /\ todo' = todo \cup
                        {p \in allowed : p \notin DOMAIN job.files /\ Last(p) \notin SkipDirs}
           /\ found' = found \cup {p \in allowed : p \in DOMAIN job.files /\ IsManifestPath(p)}
    /\ UNCHANGED process

(* A directory is read: files are judged by name and filters, directories   *)
(* by filters and the list of those to skip.                                *)
Visit(dir) ==
    /\ at = "walking" /\ dir \in todo
    /\ LET allowed == {p \in Entries(dir) : Allowed(p)}
       IN  /\ todo' = (todo \ {dir}) \cup
                        {p \in allowed : p \notin DOMAIN job.files /\ Last(p) \notin SkipDirs}
           /\ found' = found \cup {p \in allowed : p \in DOMAIN job.files /\ IsManifestPath(p)}
    /\ UNCHANGED process

-----------------------------------------------------------------------------
(* What the filters ask for. *)
Wanted ==
    {f \in DOMAIN job.files :
        /\ IsManifestPath(f)
        /\ \A n \in 1..(Len(f) - 1) : f[n] \notin SkipDirs
        /\ \A n \in 0..(Len(f) - 1) : SubSeq(f, 1, n) \notin job.unreadable
        /\ ~MatchesPrefix(f, Exclude)
        /\ job.include # {} => MatchesPrefix(f, job.include)}

(* An include names nothing inside a file. *)
SoundInclude ==
    \A p \in job.include, f \in DOMAIN job.files : IsPrefix(f, p) => p = f

(* The walk takes no file the filters refuse and, when it is over, misses   *)
(* none they ask for: skipping a directory as a whole is the same as        *)
(* judging each file below it.                                              *)
WalkExact ==
    SoundInclude /\ at = "walking" => found \subseteq Wanted /\ (todo = {} => found = Wanted)
=============================================================================
