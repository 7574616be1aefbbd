# llm-stream-guard in TLA+

TLA+ models of `llm-stream-guard` - its two guards, its policies, its command line
and its CI action -, the TLC instances that check them, and TLAPS proofs of their
invariants. Paths below are relative to the repository; the library's own
source is under `src/`.

| to do | command (in this directory) |
|---|---|
| check a run | `tlc -workers 2 -config byte_guard.cfg MCByteGuard.tla` (the table of runs names the modules) |
| check the proofs | `tlapm ByteGuardProofs.tla`, and the same for `SequenceCounts`, `SecretScanProofs`, `GuardEventsProofs`, `PolicyDocumentProofs`, `PolicyLoadProofs`, `YamlSubsetProofs`, `CiActionProofs` |

## The system

The library puts a guard between the producer of an LLM stream and its consumer.
There are two guards, a policy that configures one of them, and tools around policies.

| component | source | state | operations | hard behaviour |
|---|---|---|---|---|
| byte guard | `src/create-byte-guard.ts`, `src/rules/byte/*` | context with two rolling buffers (`byteLookback`, `sanitizeLookback`), violations, redaction counter | `transform(chunk)`, `flush()`, hook `onViolation`, `onFinish` | chunk boundaries, cut of the buffer, order of the stages at flush, a hook that throws half way |
| secret scanner | `src/rules/redact-scan.ts`, `patterns.ts` | none | `scanAndReplace`, `secretPrefixHoldLength` | overlapping and incomplete matches, unbounded gaps |
| event guard | `src/guard-events.ts`, `apply-guard-transforms.ts` | context (event index, totals per tool, records) of each stream | async generator: pull, yield, finish, source error, consumer return | streams interleave at every yield, rules feed one another, one event becomes two |
| event rules | `src/rules/*.ts` | closures: `keyByName` of `maxToolArgsBytes`, `lastIndex` of a RegExp | one transform per rule | closures are shared by all streams of a policy, order of rules, redaction that breaks JSON |
| context and records | `create-guard-context.ts`, `record-violation.ts`, `summarize-guard-context.ts` | violations, counters | `recordViolation`, `summarizeGuardContext`, `reset` | record, counter and effect must agree when a step fails |
| policy documents | `src/policy/validate.ts`, `merge.ts`, `compile.ts` | none | merge, validate, compile, mode override | keys repeat, order matters, defaults against overrides |
| policy loading | `src/policy/load.ts`, `merge.ts` | the recursion: base directory, chain, depth | `loadPolicy`, `resolveExtends` | cycles across directories, depth limit, layers merged back to front |
| policy diff | `src/policy/diff.ts`, `cli/commands/diff.ts` | none | `diffPolicies`, `diff --check` | comparison forgets order and repeated keys |
| guard from policy | `src/policy/create-guard-from-policy.ts` | one compiled policy | hands its transforms to every guard | sharing of closures |
| YAML subset parser | `src/policy/parse-yaml-minimal.ts` | a line counter handed through recursive calls | `parsePolicyYaml` | a call that stops a line early or late gives lines to the wrong key |
| manifest walk | `src/shared/walk.ts`, `src/audit/resolve-manifests.ts` | directories to be read, files found | `walkManifestFiles` with include and exclude | filters meet directories on the way as well as files |
| static tool audit | `src/audit/*` | findings so far | load policies, audit each manifest, report, SARIF | one manifest or the SARIF file fails; two readings of one policy; severities against exit status |
| stream scan | `src/scan/*`, `src/cli/commands/scan.ts` | violations so far | each recorded stream through the guards of a policy | one stream fails in the middle of a scan |
| command line | `src/cli/*` | none | `validate`, `resolve`, `diff`, `scan`, `audit ...`, `doctor`, `profiles` | exit codes that several commands derive separately from one checkout |
| CI action | `action/run.mjs` | three counts, a flag `failed`, outputs | diff, scan and audit as child processes, then the gate | children that break, exit codes that mean several things, gates that share a flag |
| profiles, schemas, examples, scripts | `src/policy/profiles`, `schemas`, `examples`, `scripts` | none | text and data | none of its own |

How they interact. A producer writes chunks to the byte guard's TransformStream and
the stream calls its handlers one at a time. Inside a handler the redactor's
output is the sanitiser's input; both write to one context, and `recordViolation`
calls back into the caller's code. An event guard pulls from its source,
runs each event through all transforms before it yields, and suspends at every
`yield`; there, other generators of the same policy run, with the same transform
closures and contexts of their own. A policy is loaded synchronously, once,
and its transforms are then shared by all the guards made from it. The commands
load policies the same way; the action starts commands one at a time, waits for
each (`spawnSync`) and sees nothing of it but exit status and standard output.

What makes each correct is stated with its module below. `PROJECT.json` lists the
hazards at their lines with the properties that cover them.

## Modules

| module | models | extends / instantiates |
|---|---|---|
| `SecretScan` | patterns, left-to-right replacement, holdback, message fields | |
| `ByteStages` | where each stage cuts its buffer, and when it records | `SecretScan` |
| `ByteGuard` | `createByteGuard` with both stages, chunk by chunk | `ByteStages`, refines `MaskingChannel` |
| `MaskingChannel` | abstract: what a byte guard promises the two ends of a stream; `Ordered` or with an end that may be swapped | |
| `GuardEvents` | `guardEvents`, `applyGuardTransforms`, all seven rules, several streams | |
| `PolicyDocument` | merge, validation, compilation as operators | |
| `PolicyLoad` | `loadPolicy` / `resolveExtends` call by call | `PolicyDocument` |
| `YamlSubset` | `parsePolicyYaml` call by call and line by line | |
| `Workspace` | a checkout with its arguments, child processes, `loadPolicy` as an operator | `PolicyDocument`, `ByteStages` |
| `PolicyDiff` | `diffPolicies`, `cmdDiff` | `Workspace` |
| `FileWalk` | `walkManifestFiles` directory by directory | `Workspace` |
| `ToolAudit` | what the audit finds in one manifest, severities, SARIF | `Workspace` |
| `StaticAudit` | `runAuditStatic` manifest by manifest | `FileWalk`, `ToolAudit` |
| `StreamScan` | `cmdScan` stream by stream: events through the rules, other text through both byte stages | `Workspace` |
| `CommandLine` | the exit code of every other command | `PolicyDiff`, `ToolAudit`, `StreamScan` |
| `CiAction` | `action/run.mjs` and workflows of commands | `StaticAudit`, `CommandLine` |
| `MC*` | small instances for TLC | the module they are named for |
| `*Proofs` | theorems and lemmas (`SecretScanProofs` also those of `ByteStages`, for both that use it) | the module they are named for |
| `SequenceCounts` | lemmas: induction, folds, counts in a sequence | standard and community modules |

Operators that a comment calls a fault (`RedactEndNow`, `FollowForgetting`, ...)
are plausible wrong versions of the definition behind them. No specification uses
them; they show that a property would notice that mistake.

### Byte guard

Variables carry the code's names: `byteLookback`, `sanitizeLookback`, `violations`,
`redactions`; `received` and `out` are the ghost of both ends of the stream, `phase` its
state. `Transform(chunk)` is the whole `transform` handler: buffer and chunk are
joined, cut at `RedactEnd`, the head is redacted and recorded, joined with the
sanitiser's buffer, cut at `SanitizeEnd`, sanitised, recorded, enqueued. A hook
that throws leaves the buffer of its stage advanced and its record pushed, skips
the rest and errors the stream. `Flush` empties the redactor, then the sanitiser,
and enqueues them in that order, as the code does; `onFinish` comes last. `Abort`
is the writer's abort or the reader's cancel: no handler runs.

Abstractions:
- A stream is a sequence of symbols, and the placeholder has the length of what
  it replaces, so that a byte keeps its position. No decision of the guard
  reads a placeholder's length.
- `sk-` (held back while the body is short), `Bearer` (gap, then token) and one
  fixed-prefix family standing for `ghp_`, `github_pat_`, `eyJ`, `AKIA`; `sk-proj-` is
  covered by `sk-`. The literals and minimum lengths are constants; the runs use one or
  two symbols for each.
- The opening `"message":"` is one symbol.
- UTF-8 is not modelled: a symbol is a whole character. `pendingUtf8` is always
  empty in the code and is left out.
- Byte mode has no violation mode that changes what it does, so `mode` is left out.

### Event guard

A step is one transform call (`RedactSecrets`, ..., `SanitizeErrors`, one action a rule),
a pull, a yield or an end of the generator. `active` is the stream whose event is in
the pipeline: between two yields a generator is not preempted, so a transform
step belongs to it, and other streams move only when no event is under way.
`current` and `next` are the two arrays of `applyGuardTransforms`. The contexts are
per stream; `synthetic` (`keyByName`) and `lastIndex` are per rule and shared.
`Return` is a consumer that leaves its loop, `SourceFails` a source that throws:
neither calls `onFinish`.

Text and arguments are sets of marks that say what a rule can find in them:
secret, Bearer secret, PII in a string or as a bare number, dangerous, not JSON,
and so on. Redaction takes marks away and may add `broken`, when a match reaches
over JSON syntax. Abstractions: text and reasoning events are one type; redaction
keeps the size of `argsText`; transforms and matcher functions of a caller are
not modelled; an id that looks like a synthetic key (`__idx_0`) does not occur;
the policy error always hides upstream detail.

### Policies

A document is a record of version, extends, mode, byte flags and rules; a rule has a
key, names and a set of what its parameters contain. `PolicyLoad` has one
step per call of `resolveExtends` (`Follow`, `Base`, `Cycle`, `Missing`, `TooDeep`), one
per merge on the way back, and then validation, mode override and compilation.
`Target` is `join(dir, ref)`, so equal references can name different files.
Left out: `policyVersion`, the placeholder and its check, `baseDir`, the order of
JSON properties, wrong types outside rules, mode and byte.

### YAML subset

The parser calls `parseNode(lines, i, indent)` recursively and every call returns the
line to go on with. `stack` holds the open calls (the indent each was given, the
line it reads the value of, and whether it turned out to be a list or a mapping)
and `i` is the counter. `Begin` decides what a call reads, `TakeScalar` and `TakeOpen` are one
turn of either loop, `Return` is the loop's `break` or end, `Malformed` every throw. The
result is `owner`, the line whose value a line became an entry of, and `value`, the kind
of its scalar. A line is what `stripComment` leaves: indent, dash, key, scalar, or a
tab in the indent.

### Commands and the CI action

A job is a checkout with arguments: the programs of a workflow, policies, a
directory of policies, recorded streams, the tree under the root, filters,
and what the file system refuses (`Unreadable`, `unreadable`, `sarif`). `at` is the place
of the running program, `codes` the exit codes of those that have ended, `children` what
the action's commands returned. The action's steps are those of `main`:

| step | code |
|---|---|
| `NoDiff`, `DiffStep`, `ReadDiff` | the first `if`, the diff command in one step, what the action makes of its status |
| `NoScan`, `ScanRefused`, `ScanBegins`, `ScanFile`, `ScanReport`, `ReadScan` | the second `if`, `cmdScan` with `scanFile` once a stream, the parse of the report |
| `AuditRefused`, `ResolveManifests`, `Visit`, `EndWalk`, `AuditManifest`, `AuditReport`, `ReadStatic` | `runAuditStatic` with one step a directory and one a manifest, the counts, outputs and `process.exit` |
| `DiffFails`, `ScanFails`, `StaticFails` | at any place of a child, its start included: it exits with 1 before its report, or is killed (`status` is null, here `None`); a scan may have printed something by then that is no report (`Unreadable`), which `ScanCount` tells from silence |
| `Start`, `Command` | the next program of a workflow: `scan` and `audit static` run in the same steps as under the action, the other commands answer at once (`Exits`) |

Abstractions:
- A path is a sequence of names; no file lies inside a file. Suffixes and `tools` in a
  name are sets of names. The order of directories and manifests is free, which
  covers the order of `readdirSync`.
- Policies of a job have no `extends` left: following it is `PolicyLoad`. Validation and
  compilation are those of `PolicyDocument`.
- Findings are sets, told apart by code, severity, file, place of the text or tool,
  and policy; so a tool that a manifest lists twice counts once.
- Texts of a manifest are sets of what they match. Danger patterns have codes of
  their own (`ToolAuditAssumption`).
- The event guard is one fold here (`Guarded`): what it does between yields is the
  subject of `GuardEvents`. Recorded calls are done and have no deltas; PII does not occur.
- A file scanned as bytes is one chunk: `ByteRules` takes its text through the cuts of `transform`
  and then through `flush`, where the redactor's tail does not pass the sanitiser. `ByteTable`
  tabulates it for the texts of the jobs, because TLC would compute it at every step.
- The action passes no `--strict` (`Strict`).

## Runs

All runs disable the deadlock check because streams, loads, parses and workflows
really end.

| run | property | what it says |
|---|---|---|
| `byte_guard` | `TypeOK` | types of buffers, output and records |
| | `InPlace` | output, then both buffers, is the stream written so far up to masks: no byte lost, repeated or moved |
| | `WindowKept` | nothing leaves before a window of later bytes has been seen |
| | `ShortStreamWhole` | a stream within the window is processed as one text, however chunked |
| | `KeyHeadMasked` | no free-standing `sk-` key is delivered with its head readable |
| | `HoldBounded` | the buffer is bounded except for a bare Bearer with blanks |
| | `MaskingRecorded` | masked bytes and records imply each other, hook failures included |
| | `SummaryAgrees` | counters, records and the one summary agree |
| | `ChannelSpec` | refinement: `MaskingChannel`, ordered unless both flags are on |
| `event_guard` | `TypeOK` | types; the pipeline is empty or at a rule |
| | `Substituted` | a blocked call is replaced by an error and a finish, one pair per record |
| | `IndexTrue` | a violation names the event that caused it, streams interleaved |
| | `SizeVerdict` | a call's size verdict is that of its own deltas only |
| | `Enforced` | what is yielded has passed every rule, whatever the order of rules |
| | `AuditShadow` | audit mode removes, adds and moves nothing |
| | `SummaryExact` | `onFinish` exactly for streams that ended, with exact counts, streams interleaved |
| | `DangerStopped` | a dangerous call is reported, if no redaction precedes and the RegExp is not global |
| `policy_load` | `TypeOK` | documents, chain and waiting calls |
| | `CycleCaught` | a circle of files within the limit is reported as a cycle |
| | `DepthExact` | the depth limit is exact |
| | `Inherited` | every rule of every layer, nearest version, order of first appearance |
| | `Precedence` | environment, option, nearest document, default; flag by flag |
| | `LoadEnds` | loading ends |
| `yaml_subset` | `TypeOK` | counter, stack and entries |
| | `Outline` | every line up to the counter belongs to an open line above it, and the open calls are owners of one another: no line is lost or read twice |
| | `Leftover` | a text that is accepted leaves out lines only behind one at the left margin of the other shape |
| | `AsIndented` | an accepted text without empty values is read as a reader of its indentation would, quoted scalars included |
| | `Accepted` | what such a reader understands is not refused |
| | `ParseEnds` | the recursion ends |
| `ci_action` | `TypeOK` | places, counts and outputs |
| | `DiffExact` | an empty report means equal settings and the same last rule of every key, and the other way round; so equal policies, if keys are unique. Order and rules before the last are not compared, see below |
| | `MergeLocal` | an overlay changes only what it mentions and removes nothing |
| | `WalkExact` | the walk finds the files the filters ask for, though it skips whole directories |
| | `ScanWhole` | a report is about all streams; it names only streams with something against the policy in them (`Suspect`), and all in which that cannot be hidden by a cut, a stage that is passed by or an earlier rule (`Certain`) |
| | `AuditWhole` | every manifest is reported on as if it were alone; exit status and SARIF levels agree |
| | `AuditForesees` | whatever drift reports the event guard blocks, and a call blocked in a recorded stream was foreseen by the audit, but for a tool that one allow list names and another leaves out |
| | `GateExact` | when no child breaks, the action's exit code is 3 exactly without a verdict; else 1 if one of the things `docs/ci-github-action.md` gives `fail-on` is there, and 0 if nothing is. For drift it may also be 1 for another error of the audit, which is what `drift_gate` shows |
| | `OutputsTrue` | outputs agree with the checkout; a diff or an audit that breaks does not pass for a clean one, nor a scan that printed something |
| | `CommandsAgree` | exit codes of `validate`, `scan`, `audit static`, `drift`, `validate-manifest` and `doctor` do not contradict each other; a valid policy that does not compile is refused by all that use it, each with its own code |
| | `ActionEnds` | every workflow ends |

Seven runs show that the code does not do what a document or message of the
repository says; their findings are in `PROJECT.json`:

| run | property | what the code does |
|---|---|---|
| `flush_order` | `FlushInPlace` | flush delivers the redactor's tail before older bytes, past the sanitiser |
| `secrets_masked` | `SecretsMasked` | a key over the cut loses its mask behind it |
| `streaming_limit` | `StreamingLimit` | deltas over the limit are delivered until the done event |
| `pii_redacted` | `PIIRedacted` | PII in a bare number is recorded as redacted and delivered |
| `false_cycle` | `CycleIsReal` | one relative path in two directories is taken for a cycle |
| `drift_gate` | `DriftGate` | `fail-on: drift` fails for a manifest that does not parse |
| `broken_scan` | `BrokenScanTold` | a scan that breaks without a report passes for a clean one |

### Bounds and why they are enough

- `byte_guard`: window 3, streams of up to 7 symbols, chunks of 1 or 2, every combination
  of flags and hook. A stream is longer than two windows, so the buffer is cut
  repeatedly, and the longest incomplete key (literal 2, body 1) fits in the window and
  across the cut. `Bound` is `OneFamily`: a stream has the symbols of one family of
  patterns, and with both flags on those of keys and messages, one of each at most; a stream that
  mixes keys with Bearer tokens is not checked. With a hook that throws and one flag on, streams have
  up to 5 symbols, enough for a cut and a failure behind it.
- `event_guard`: two streams of two events each under the tool rules, and of three and two events
  under the limit in mode block (`Bound` is `OwnInputs`), because a violation of sharing needs a delta
  of one stream between a delta and the end of another. The other lists of up to seven rules
  see one stream of three events, which suffices for a delta, a done call and something behind it.
  Hooks may throw throughout; streams under the limit end early in a hook only (`EndsKept`).
- `policy_load`: three files in nested directories, limit 2: every graph on three
  files, circles of one and two files within the limit and of three beyond it,
  and a chain one longer than the limit.
  For the contents a chain of three documents has a nearest, a middle and a
  furthest one. The code's limit is larger; `DepthCorrect` and `CycleCorrect` are
  proved for every limit.
- `yaml_subset`: every text of one or two lines of all forms (three indents, dash, key,
  four scalars or none, tabs), of three lines with one scalar, of four lines and
  of five lines of fewer forms. Three open calls at a time need three lines; a
  fourth or fifth line comes back to each of them.
- `ci_action`: 4,517 jobs, each a family that varies what one part reads while the rest
  is plain: all pairs of 32 policies (up to two rules of a key in either order); every
  `fail-on` with every kind of baseline, streams, manifests and SARIF file, and with
  children that may break at any place; a tree of eight files with names that each
  clause of the filters tells apart, under include, exclude and unreadable directories;
  manifests of every form under one and two policies; one and two recorded streams
  of each format; nine texts under every combination of byte flags (`ByteJobs`: a key over the cut, a
  token that falls apart there, messages inside, over, in front of and held before the window);
  and eight commands one after the other. Parts interact only by the
  child's status and report and by the files all of them read, and the gate family
  varies all of these together. `drift_gate` and `broken_scan` have a few jobs each.

### Fairness

The guards are open systems: a producer may stop writing and a consumer may stop
reading, so `ByteGuard` and `GuardEvents` state safety only. `PolicyLoad` assumes
`WF_vars(Next)`: `loadPolicy` is one synchronous call, which runs until it
returns or throws. `LoadEnds` needs the chain or the limit in the code; with the
loop of `FollowLooping` it fails. `YamlSubset` and `CiAction` assume the same of their `Next`:
the parser is one synchronous call, the action and the commands are single
processes that wait for a child (`spawnSync`) and nothing else. A child that hangs forever
is not modelled: nothing in the action would end it.

## Proofs

Every invariant that a passing run checks is also a theorem, for every value of the
constants. Where the argument is by induction over a sequence, it does not use the
library's induction theorems, which take an operator as a parameter: `SequenceCounts`
argues from a least counterexample in the naturals (`Induction`, `MaxNatural`) and shows
once that a fold along a sequence is the function its recursion describes (`FoldRuns`),
and how many elements of a sequence are in a set when it grows (`CountAppend`, `CountConcat`).

Assumptions are those the modules name, and TLC evaluates each in a run:

| assumption | says | why |
|---|---|---|
| `ScanAssumption` | the mask is a symbol of no pattern | placeholders match nothing |
| `LiteralAssumption` | literals are texts, `sk-` is written in body symbols, no prefix starts inside it, none is longer than it with eight bytes more, `Bearer` begins like a prefix | `patterns.ts`, `SECRET_PREFIXES` |
| `StagesAssumption` | the window and the sanitiser's look-back are naturals | `BYTE_LOOKBACK_SIZE` and 24 |
| `ByteGuardAssumption`, `GuardAssumption`, `PolicyAssumption`, `YamlAssumption`, `FileWalkAssumption` | types of the constants; `None` is no other value | it stands for a value that is absent |
| `WorkspaceAssumption` | jobs are typed, a policy file has no `extends` left, no file lies inside a file, trees, names and patterns are finite; `None` and `Unreadable` are no other value | a checkout is finite |
| `ToolAuditAssumption` | codes of danger patterns are none of the other codes | `dangerous-patterns.ts` |
| `OutputsAssumption` | `None` is no record of outputs | before the action sets them there are none |

One theorem has a hypothesis of its own: `SizeVerdictCorrect` needs `KeysApart`, no call id that reads like the key made up for a nameless
call: `maxToolArgsBytes` keeps both in one map, and such a call would share a total.

### `SecretScanProofs`, `ByteGuardProofs`: every pattern table, window, chunking and option set

`InPlace` and `WindowKept` are not inductive: that output lags the input by a window
follows from what the buffers hold. `IInv` adds `BufferInv`: a stage that is off has no
buffer, and the first stage that is on keeps the whole stream or at least a
window. With it, `ShortStreamWhole` follows because a short stream has
never been cut. The lemmas of `SecretScanProofs` say that cutting splits a text (`CutText`), that
masking is reflexive, transitive and compatible with concatenation (`Mask*`) and where the cuts may
lie (`RedactEndBound`, `SanitizeEndBound`). `ImplementsChannel` is the refinement of
`MaskingChannel`, step by step; with both flags on, flush is a swap of what the two
buffers hold (`SwappedAt`, `SwappedRest`), one that a throwing hook may cut short.

- `SummaryAgrees` from `Agreed`: the counter is the number of records of the redactor, at
  every step of a handler, one that throws included.
- `MaskingRecorded` from `Evident`: the redactor's buffer holds no mask, and masks behind it
  and records imply each other.
- `HoldBounded`: how far `HoldLength` can move the cut back (`HoldShort`), from the longest
  incomplete literal.
- `KeyHeadMasked` from `HeadInv`: the output of a redactor alone is a mask of the stream up to
  the cut, with the head of every key that begins in it masked. When a cut falls into a head, `HeadHeld` shows
  that the holdback reaches back to its literal; when it falls behind, `HeadMatched` that the
  scan replaces it: no earlier match can reach into a free-standing key (`CutClear`, `FreeReplaced`).

### `GuardEventsProofs`: every rule list, source and number of streams

`Enforced` speaks of events delivered and pending; its strengthening follows an event through
the pipeline: events before the current rule have passed the rules so far
(`EnforcedSoFar`), a rule that is not global remembers no match (`Remembers`), and
no later transform undoes an earlier one (`RedactionPasses`, `OwnEventsPass`). One lemma
per action.

What is reported rests on one description of a transform call (`Shape`, proved for each of the
seven rules in `TransformIs`): it keeps its event, redacts it, replaces it by error and finish, or
hides an error, with the records that go with it. On top of that:

- `IndexTrue`: `Traced`, whatever is under way stems from the event pulled last.
- `SummaryExact`: `Counted`, the counter of redactions; `Closed`, who has been summarised.
- `DangerStopped`: `Awaited`, a dangerous call is on record or still before `blockToolArgs` as it came.
- `AuditShadow`: `Shadowed`, output and pipeline together are the events pulled, one for one (a prefix of them, if the stream was cut short).
- `Substituted`: `Balanced` counts finishes against records over output and pipeline, `Heralded`
  says that an error comes right before each finish.
- `SizeVerdict`: `Measured`, the map behind `maxToolArgsBytes` holds for every stream and call
  what `Tally` finds in the events pulled so far, and every verdict was right when it was given.

### `PolicyDocumentProofs`, `PolicyLoadProofs`: any files, any contents, any limit

`Counted` ties chain, layers and depth together; `OnCircles` says that the files read are a
walk through the references and that a circle makes the walk return to one of them. That
gives `DepthCorrect` and `CycleCorrect`.

For `Inherited` and `Precedence` the invariant is `Layered`: what has been merged on the way back is
the overlay (`Overlay`) of the documents of the calls that have returned. `PolicyDocumentProofs` says what
`MergeRules`, a fold of `ReplaceRule`, makes of two lists (`LaidOver`): every key of both (`Laid`), and
if keys are unique (`LaidApart`) the newer version at the older place, then new keys in their order.
`OverlaidOver` takes that from two documents to any number, counted from the root.

### `YamlSubsetProofs`: any text

`Parsing` adds to `TypeOK`, `Outline` and `Leftover` what is known of the
open calls (`Calls`): the outermost was given the left margin and has the shape of
the first line, and every other one belongs to an open line already read. The owner of
a line is then a line above it because the innermost call is. `Smallest` and `NextLine` give what
`nextNonEmptyLine` returns.

- `AsIndented` compares the whole stack with the indents. `Placed` says how: every call stands at
  the indent of the first line below its own (`Nests`), the indents increase along the stack but for
  a list under its key (`Deepens`), and nothing read since a call began is further left than it
  (`Within`). So nothing between the line a call is for and the line it takes could own
  that line (`TakenApart`, `TakenOwner`). Without `Filled` neither of the last two holds.
- `Accepted` needs the opposite, that no call returns too early: `Pending` says that whatever is
  still to be read belongs to an open call or to a line still to be read. A call that returned
  before its last entry would have met a line between two entries that owns the second, or that is owned
  by the first (`ReturnsEmpty`, from `FirstChild`); and a line that is too far right for the innermost
  call has the indent of an outer one (`NotMalformed`).

### `CiActionProofs`: every checkout, list of programs, order of directories and manifests, and child that breaks

- `WalkExact` from `Walked`: each file that the filters ask for has been found or lies
  below a directory still to be read, and directories to be read are reachable ones.
  That needs the lemmas on prefixes (`CutPrefix`, `PrefixesCompare`, ...) and `AboveWanted`: no
  directory above a wanted file is refused by the filters.
- `AuditWhole` from `Collected`: up to the report the findings are the union of
  `FindingsOf` over the manifests already taken.
- `DiffExact` from `Compared` (the report is `Comparison`) and `RulesMapLast`: the map of a policy has
  the last rule of every key (`LastRules`, `DiffEmpty`, `AllLast`); `MergeLocal` from
  `LastKept`: laying rules over rules leaves the last of a key alone unless the key comes up.
- `ScanWhole` from `Scanned`: the hits so far are those of the streams read so far (`Told`). What a
  stream contributes is a fold of its events through the guard, whose course `Seen` describes rule by
  rule (`GuardedExact`), flattened (`FlattenHas`), or what the table has for its text
  (`TableRules`), to which `BytesSuspect` and `BytesCertain` apply (`ScanExact`).
- `AuditForesees`: `DriftBlocks` relates the two readings of a policy, `PolicyToolSets` and
  `Blocks`; `SaidTool` finds the call behind a hit.
- `TypeOK` from `Typed`: counts are cardinalities, so each set of findings must be finite
  (`FindingsFinite`).
- `CommandsAgree` from `Coded`: what each exit code tells of the checkout, and which program
  can be where, with what it has checked on its way; status 0 of the audit needs
  `Tracked` (`ReportClean`).
- `GateExact` and `OutputsTrue` from `Gated`: what each child's answer means (`Heard`), that a child was
  asked exactly if its arguments were given (`Asked`), what the action has made of the answers so far
  (`SoFar`), and what it leaves at its end (`Concluded`). `ErrorsSay` and `ReportSays` connect the two reports
  with what is in the checkout.

What `ByteRules` records is compared with the text alone, for any flags and window:

- `BytesSuspect`: a record has its cause in the text. Each stage works on a part of it, with masks where
  the redactor was, and a secret or a message in such a part is one of the text
  (`SecretMoved`, `MessageMoved`).
- `BytesCertain`: what is `Evident` is recorded. A text within the window is redacted as a whole
  (`ShortRecorded`); a free-standing plain key has its head masked on either side of the cut
  (`KeyRecorded`); without a redactor, a message the cut does not divide is seen by `transform` or by
  `flush` (`MessageRecorded`). Nothing stronger holds: a token over the cut, a message
  divided by it, and with both flags any message in the last window, may go unrecorded.

### Only model-checked

`LoadEnds`, `ParseEnds`, `ActionEnds`: liveness under fairness and ENABLED are out of the
prover's reach.

## Where the code and its documents part

Seven have runs (above). The others were met while modelling; the models do what
the code does.

- `src/guard-events.ts:46`: after the finish of a policy violation the generator goes on
  yielding; `docs/proposal.MD:101` calls finish "Stream termination".
- `src/rules/sanitize-errors.ts:19`: behind a tool rule it records the guard's own
  error as an upstream error. `IndexTrue` and `SummaryExact` allow for it.
- `src/rules/block-tool-args.ts:31`: arguments a redaction made unparsable pass unseen;
  `docs/integration-cookbook.md:184` recommends that order. `DangerStopped` has the premise.
- `src/rules/block-tool-args.ts:23`: a RegExp with flag g carries `lastIndex` to the next
  event. Same premise.
- `src/rules/max-tool-args-bytes.ts:31`: two such rules count every delta twice.
  `SizeVerdict` has the premise of one.
- `src/rules/redact-scan.ts:91`: the holdback is computed once, for the head before it
  is shortened; `docs/concepts-and-glossary.md:113` says incomplete prefixes are held.
- `src/rules/redact-scan.ts:110`: blanks behind Bearer are held without limit;
  `docs/performance.md:30` says bounded memory. `HoldBounded` has the exception.
- `src/rules/byte/sanitize-errors-byte.ts:33`: a message longer than the window, or one at
  index 0, or one with another key behind it, may be released in parts; `CHANGELOG.md:25` promises
  cross-chunk sanitising. `Undivided` says in `ScanWhole` which messages are safe.
- `src/create-byte-guard.ts:36`: `flush_order` shows the order of the bytes; a second effect is that the
  redactor's tail never passes the sanitiser, so a file of at most 128 bytes, scanned with both flags
  on, is clean whatever message it has. `ScanWhole` promises nothing of messages with both flags.
- `src/policy/merge.ts:58`: the first rule of a key is replaced, a second one stays;
  `docs/policy-reference.md:130` says the child replaces the parent's.
- `src/policy/merge.ts:105`: E005 is the code of cycles; `docs/policy-reference.md:161` gives it
  to missing files, which the code reports without a code.
- `src/policy/compile.ts:57`: the default mode is block; `docs/policy-reference.md:149` says warn.
- `src/policy/validate.ts:173`: E010 cannot be reported, E008 comes first
  (`docs/policy-reference.md:166`).
- `src/policy/validate.ts:152`: only the last list of each kind is checked for overlap
  (`docs/policy-reference.md:165`).
- `src/policy/compile.ts:42`: an empty `contains` is valid and does not compile
  (`NoMatcher`).
- `src/policy/diff.ts:13`: order and repeated keys are not compared, so `diff --check`
  (`docs/policy-reference.md:137`) exits 0 for policies that act differently. `DiffExact` says what is compared.
- `src/policy/parse-yaml-minimal.ts:79`: a key or item without a value takes the lines that
  follow at whatever indent, so in `rules:`, `- redactSecrets:`, `mode: warn` the mode becomes a
  parameter of the rule. `AsIndented` has the premise (`Filled`).
- `src/policy/parse-yaml-minimal.ts:116`: a line of the other shape at the left margin, and all behind
  it, are dropped without an error. `Leftover` says that nothing else is.
- `action/run.mjs:109`: a scan that exits with 1 before it prints has no report and counts no
  violations (`broken_scan`); one that printed something counts one.
- `action/run.mjs:93`: a diff that fails counts as a change, not as exit code 3.
- `action/run.mjs:162`: `drift-count` counts warnings too, and a run without a report counts as one.
- `action/run.mjs:114`, `src/cli/exit-codes.ts`: the scan's exit code 2 stands for wrong arguments and for a
  stream or policy that cannot be read; the action turns both into 3, which
  `docs/static-scanning.md:107` gives to internal failures.
- `src/audit/resolve-manifests.ts:17`, `src/shared/walk.ts:90`: a manifest that is named but missing, and a
  root that cannot be read, mean that nothing is audited, with exit code 0. `CommandsAgree` has
  the premise.
- `src/shared/walk.ts:49`: `tools/x.yaml` directly below the root is not found.
- `src/scan/runner.ts:110`: a `.json` file that begins with a brace and holds no events throws; it is not
  scanned as bytes.
- `src/audit/sarif.ts:28`: `MANIFEST_PARSE_ERROR` has no rule in the SARIF catalog.
- `src/audit/format-report.ts:31`: with `--strict` danger warnings make the exit status 1, while their SARIF
  level stays warning (`Agree`).
- `src/cli/audit-runner.ts:17`, `:29`: a manifest that does not parse is 1 for `validate-manifest` and for
  `static`, 3 for `drift`.
- `src/audit/policy-tool-names.ts:18`: the audit takes the union of several `allowTools` lists, the event
  guard lets through their intersection. `AuditForesees` has the exception.
- `src/cli/commands/validate.ts:7`: `validate` exits with 0 for a policy that does not compile
  (`EmptyMatcher` in the runs), and the action never runs it.

## Not modelled

- Argument parsing (`src/shared/parse-args.ts`), what commands print, annotations, line numbers, the
  command `profiles`: text without state. `--strict x` takes `x` as the value of the flag
  and is then not strict; jobs have the flag as parsed.
- Flow lists, duplicate keys and the choice between the YAML parser and `JSON.parse`.
- UTF-8 across a cut of the sanitiser (`sanitize-errors-byte.ts:57`).
- PII and deltas of calls in scanned streams; both are in `GuardEvents`.
- `reset()` of the context: no guard calls it.
- Custom transforms and matchers: the caller's code.
- Examples, schemas, scripts (`scripts/*.mjs` build and release the package).

## Plan

Done, in this order: `SecretScan`, `ByteGuard` with `MaskingChannel`, `GuardEvents`, `PolicyDocument`,
`PolicyLoad`; then `YamlSubset`, `Workspace` with `PolicyDiff`, `FileWalk`, `ToolAudit`, `StaticAudit`,
`StreamScan`, `CommandLine` and `CiAction`; then proofs of all their invariants.

Next:
1. An abstract specification of the event guard (each input is passed, redacted or
   replaced by the pair), shown to be implemented by `GuardEvents`: `Shape` and `Traced` are the
   step and the mapping.
2. Characters of several bytes across the sanitiser's cut.
