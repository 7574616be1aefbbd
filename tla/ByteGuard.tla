------------------------------ MODULE ByteGuard ------------------------------
(***************************************************************************)
(* createByteGuard: a TransformStream whose transform(chunk) handler pipes *)
(* a chunk through a secret redactor and an error sanitiser, each with a   *)
(* rolling lookback buffer, and whose flush() handler empties both.        *)
(* The stream machinery calls the handlers one at a time; a handler runs   *)
(* to its end or throws out of the caller's onViolation hook.              *)
(***************************************************************************)
EXTENDS ByteStages, FiniteSets

CONSTANTS
    Chunks,      \* the chunks a producer may write
    OptionSets,  \* the guard options under study
    Bound(_, _)  \* bound: the streams a producer writes, by options

ASSUME ByteGuardAssumption ==
    /\ Chunks \subseteq Seq(Byte \ {Mask})
    /\ OptionSets \subseteq
          [redactSecrets : BOOLEAN, sanitizeErrors : BOOLEAN, hookThrows : BOOLEAN]

VARIABLES
    options,           \* ByteGuardOptions of this guard
    received,          \* the bytes written so far
    byteLookback,      \* GuardContextState.byteLookback
    sanitizeLookback,  \* GuardContextState.sanitizeLookback
    out,               \* the bytes enqueued so far
    violations,        \* GuardContext.violations, by rule
    redactions,        \* GuardContextState.redactions
    summary,           \* what onFinish was called with: a set of at most one
    phase              \* of the stream

vars == <<options, received, byteLookback, sanitizeLookback, out, violations,
          redactions, summary, phase>>

Rules == {"redact_secrets", "sanitize_errors"}

-----------------------------------------------------------------------------
(* Fault: the counter counts every rule. *)
RecordCountingAll(rules) ==
    /\ violations' = violations \o rules
    /\ redactions' = redactions + Len(rules)

(* recordViolation: push, count, and only then call the hook. *)
Record(rules) ==
    /\ violations' = violations \o rules
    /\ redactions' = redactions + Cardinality({i \in DOMAIN rules : rules[i] = "redact_secrets"})

(* createGuardContext, createByteGuard *)
Init ==
    /\ options \in OptionSets
    /\ received = <<>> /\ byteLookback = <<>> /\ sanitizeLookback = <<>>
    /\ out = <<>> /\ violations = <<>> /\ redactions = 0
    /\ summary = {} /\ phase = "open"

(* What the redactor hands on for a chunk, and the buffer it keeps. *)
RedactIn(chunk) == IF options.redactSecrets THEN byteLookback \o chunk ELSE chunk
RedactCut(t) == IF options.redactSecrets THEN RedactEnd(t) ELSE Len(t)
RedactStage(t) == IF options.redactSecrets THEN Redact(t) ELSE t

SanitizeIn(t) == IF options.sanitizeErrors THEN sanitizeLookback \o t ELSE t
SanitizeCut(t) == IF options.sanitizeErrors THEN SanitizeEnd(t) ELSE Len(t)
SanitizeStage(t) == IF options.sanitizeErrors THEN Sanitize(t) ELSE t

(* transform(chunk).  A hook that throws in a stage leaves that stage's     *)
(* buffer already advanced, skips the later stages and errors the stream.   *)
Transform(chunk) ==
    /\ phase = "open"
    /\ Bound(options, received \o chunk)
    /\ received' = received \o chunk
    /\ LET whole == RedactIn(chunk)
           raw == Before(whole, RedactCut(whole))
           mid == RedactStage(raw)
           buffer == SanitizeIn(mid)
           ready == Before(buffer, SanitizeCut(buffer))
           done == SanitizeStage(ready)
           first == RecordIf(mid # raw, "redact_secrets")
           second == RecordIf(done # ready, "sanitize_errors")
       IN  /\ byteLookback' = After(whole, RedactCut(whole))
           /\ IF options.hookThrows /\ first # <<>>
                THEN /\ Record(first)
                     /\ phase' = "errored"
                     /\ UNCHANGED <<sanitizeLookback, out>>
                ELSE /\ Record(first \o second)
                     /\ sanitizeLookback' = After(buffer, SanitizeCut(buffer))
                     /\ IF options.hookThrows /\ second # <<>>
                          THEN phase' = "errored" /\ out' = out
                          ELSE phase' = "open" /\ out' = out \o done
    /\ UNCHANGED <<options, summary>>

(* summarizeGuardContext *)
CountOf(rule, vs) == Cardinality({i \in DOMAIN vs : vs[i] = rule})
Summary(vs, n) ==
    [violations |-> Len(vs), countsByRule |-> [r \in Rules |-> CountOf(r, vs)],
     redactions |-> n]

(* flush().  The redactor's tail is enqueued as it is, before the bytes the *)
(* sanitiser still holds.  onFinish is the last call.                       *)
Flush ==
    /\ phase = "open"
    /\ LET tail == RedactStage(byteLookback)
           held == SanitizeStage(sanitizeLookback)
           first == RecordIf(tail # byteLookback, "redact_secrets")
           second == RecordIf(held # sanitizeLookback, "sanitize_errors")
       IN  /\ byteLookback' = <<>>
           /\ IF options.hookThrows /\ first # <<>>
                THEN /\ Record(first)
                     /\ phase' = "errored"
                     /\ UNCHANGED <<sanitizeLookback, out, summary>>
                ELSE /\ Record(first \o second)
                     /\ sanitizeLookback' = <<>>
                     /\ IF options.hookThrows /\ second # <<>>
                          THEN /\ phase' = "errored"
                               /\ out' = out \o tail
                               /\ UNCHANGED summary
                          ELSE /\ phase' = "closed"
                               /\ out' = out \o tail \o held
                               /\ summary' = {Summary(violations', redactions')}
    /\ UNCHANGED <<options, received>>

(* The producer aborts or the consumer cancels: no handler of the guard     *)
(* runs, so what is buffered stays there and onFinish is never called.      *)
Abort ==
    /\ phase = "open"
    /\ phase' = "aborted"
    /\ UNCHANGED <<options, received, byteLookback, sanitizeLookback, out,
                   violations, redactions, summary>>

Next == Flush \/ Abort \/ \E chunk \in Chunks : Transform(chunk)

Spec == Init /\ [][Next]_vars

-----------------------------------------------------------------------------
Phases == {"open", "closed", "errored", "aborted"}
Both == options.redactSecrets /\ options.sanitizeErrors
Flags == options.redactSecrets \/ options.sanitizeErrors

(* The buffers hold bytes of the stream and the records name the rules of  *)
(* byte mode, as GuardContextState and StreamGuardSummary declare them.    *)
TypeOK ==
    /\ options \in OptionSets
    /\ received \in Seq(Byte) /\ byteLookback \in Seq(Byte)
    /\ sanitizeLookback \in Seq(Byte) /\ out \in Seq(Byte)
    /\ violations \in Seq(Rules) /\ redactions \in Nat
    /\ phase \in Phases

(* Redaction happens in place: while the stream is open, what was enqueued *)
(* followed by what the two buffers hold is the stream written so far, no  *)
(* byte lost, repeated or moved, whatever the chunk boundaries and the     *)
(* holdbacks were; and once flush has run everything has been enqueued.    *)
(* With both flags on, flush breaks the order (see FlushInPlace).          *)
InPlace ==
    /\ phase = "open" => MaskOf(out \o sanitizeLookback \o byteLookback, received)
    /\ phase = "closed" /\ ~Both => MaskOf(out, received)
    /\ phase = "closed" => Len(out) = Len(received)

(* The same, of a guard with both flags on. *)
FlushInPlace == phase = "closed" => MaskOf(out, received)

(* A byte leaves the guard before the end of the stream only when Lookback *)
(* later bytes have been seen, so a secret no longer than the window is    *)
(* decided on with its right context in the buffer.                        *)
WindowKept ==
    phase = "open" /\ Flags =>
        Len(out) <= IF Len(received) > Lookback THEN Len(received) - Lookback ELSE 0

(* The audit trail is exact: a guard that masked a byte downstream has     *)
(* recorded a violation of a rule that is on, and a recorded violation     *)
(* means masked bytes, unless the hook threw and they were dropped.        *)
MaskingRecorded ==
    LET seen == out \o sanitizeLookback
    IN  /\ (\E i \in DOMAIN seen : seen[i] = Mask) => violations # <<>>
        /\ violations # <<>> /\ phase # "errored" => \E i \in DOMAIN seen : seen[i] = Mask
        /\ CountOf("redact_secrets", violations) > 0 => options.redactSecrets
        /\ CountOf("sanitize_errors", violations) > 0 => options.sanitizeErrors

(* A stream that fits in the window is scanned as a whole, however it was  *)
(* chunked: its output is the redaction, or the sanitising, of all of it.  *)
ShortStreamWhole ==
    phase = "closed" /\ ~Both /\ Len(received) <= Lookback =>
        out = SanitizeStage(RedactStage(received))

(* The counter onFinish reports agrees with the violations list, and       *)
(* onFinish has been called, once, exactly when flush ran to its end.      *)
SummaryAgrees ==
    /\ redactions = CountOf("redact_secrets", violations)
    /\ phase = "closed" <=> summary # {}
    /\ \A s \in summary : /\ s.violations = Len(violations)
                          /\ s.redactions = s.countsByRule["redact_secrets"]
                          /\ s.violations = s.countsByRule["redact_secrets"]
                                              + s.countsByRule["sanitize_errors"]

(* A free-standing sk- key with a plain body is never delivered with its   *)
(* head readable: the cut may fall inside the key, but by then enough of   *)
(* it is in the processed part to match.                                   *)
KeyHeadMasked ==
    phase = "closed" /\ options.redactSecrets /\ ~options.sanitizeErrors =>
        \A i, j \in DOMAIN received :
            FreeKey(received, i, j) =>
                \A k \in i..(i + Len(SkLiteral) + SkMin - 1) : out[k] = Mask

(* The redactor's buffer outgrows the window by less than the longest held *)
(* prefix, except behind a Bearer literal that only blanks have followed.  *)
HoldBounded ==
    phase = "open" =>
        \/ Len(byteLookback) < Lookback + Len(SkLiteral) + SkMin
        \/ /\ LiteralAt(BearerLiteral, byteLookback, 1)
           /\ AllIn(byteLookback, Len(BearerLiteral) + 1,
                    Len(byteLookback) - Lookback, Blank)

(* A secret is redacted wherever the chunk boundaries fall: each byte the  *)
(* scanner would mask in the stream read at once is masked in the output.  *)
SecretsMasked ==
    phase = "closed" /\ options.redactSecrets /\ ~options.sanitizeErrors =>
        LET clean == Redact(received)
        IN  \A k \in DOMAIN received : clean[k] = Mask => out[k] = Mask

(* What the properties above rest on: a stage that is off keeps no buffer, *)
(* the first stage that is on keeps either the whole stream or at least a  *)
(* window of it, and without stages the stream passes through.             *)
BufferInv ==
    /\ ~options.redactSecrets => byteLookback = <<>>
    /\ ~options.sanitizeErrors => sanitizeLookback = <<>>
    /\ phase = "open" =>
          /\ options.redactSecrets =>
                \/ byteLookback = received
                \/ Len(received) > Lookback /\ Len(byteLookback) >= Lookback
          /\ options.sanitizeErrors /\ ~options.redactSecrets =>
                \/ sanitizeLookback = received
                \/ Len(received) > Lookback /\ Len(sanitizeLookback) >= Lookback
          /\ ~Flags => out = received

IInv == TypeOK /\ InPlace /\ BufferInv /\ WindowKept /\ ShortStreamWhole

(* A guard implements the masking channel, one that keeps the order of the *)
(* bytes unless both flags are on.                                         *)
Channel == INSTANCE MaskingChannel WITH
    written <- received, delivered <- out,
    status <- IF phase = "open" \/ phase = "closed" THEN phase ELSE "failed",
    Delay <- IF Flags THEN Lookback ELSE 0, Ordered <- ~Both

ChannelSpec == Channel!Spec
=============================================================================
