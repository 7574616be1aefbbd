------------------------------ MODULE StreamScan ------------------------------
(***************************************************************************)
(* scan: recorded streams go through the guards of a policy one by one.    *)
(***************************************************************************)
EXTENDS Workspace

VARIABLES
    read,   \* number of streams read
    hits    \* the violations: stream and rule

scan == <<read, hits>>

(* Whether a rule records a violation for an event.  Recorded calls are     *)
(* done, have no deltas to be counted and contain no PII.                   *)
HasSecretMark(event) == event.type # "error" /\ "secret" \in event.marks
NotAllowed(event, names) == event.type = "tool_call" /\ event.name \notin names \cup {None}
Denied(event, names) == event.type = "tool_call" /\ event.name \in names
DangerousArgs(event) == event.type = "tool_call" /\ "danger" \in event.marks
ProviderError(event) == event.type = "error"

Hits(r, event) ==
    CASE r.key = "redactSecrets" -> HasSecretMark(event)
      [] r.key = "allowTools" -> NotAllowed(event, r.names)
      [] r.key = "denyTools" -> Denied(event, r.names)
      [] r.key = "blockToolArgs" -> DangerousArgs(event)
      [] r.key = "sanitizeErrors" -> ProviderError(event)
      [] OTHER -> FALSE

(* What the rules behind it see: a blocked call is an error and a finish,   *)
(* but in audit mode.                                                       *)
Rewritten(r, event, mode) ==
    CASE r.key = "redactSecrets" -> [event EXCEPT !.marks = @ \ {"secret"}]
      [] r.key # "redactSecrets" /\ event.type = "tool_call" /\ mode # "audit" ->
            [type |-> "error", name |-> None, marks |-> {}]
      [] OTHER -> event

(* guardEvents of one event. *)
Guarded(policy, event) ==
    LET Apply(seen, r) ==
            IF Hits(r, seen.event)
              THEN [event |-> Rewritten(r, seen.event, policy.mode), rules |-> Append(seen.rules, r.key)]
              ELSE seen
    IN  FoldLeft(Apply, [event |-> event, rules |-> <<>>], policy.rules).rules

(* The format is forced, or follows from the extension and the first brace. *)
DetectFormat(stream, forced) ==
    CASE Given(forced) -> forced
      [] ~Given(forced) /\ stream.ext = "jsonl" -> "jsonl"
      [] ~Given(forced) /\ stream.ext = "json" /\ stream.brace -> "json"
      [] OTHER -> "text"

AsEvents(format) == format \in {"json", "jsonl"}   \* the others as bytes

Throws(stream, policy, forced) ==
    \/ stream = Unreadable
    \/ /\ ~stream.binary /\ AsEvents(DetectFormat(stream, forced))
       /\ \/ DetectFormat(stream, forced) \notin stream.parses
          \/ policy.rules # <<>> /\ \E n \in DOMAIN stream.events : stream.events[n].type = "null"

(* Fault: what is held when the text ends is let out unseen. *)
ByteRulesNoFlush(text, flags) ==
    LET cut == IF "redactSecrets" \in flags THEN RedactEnd(text) ELSE Len(text)
        raw == Before(text, cut)
        mid == IF "redactSecrets" \in flags THEN Redact(raw) ELSE raw
        ready == Before(mid, SanitizeEnd(mid))
    IN  RecordIf(mid # raw, "redactSecrets")
        \o RecordIf("sanitizeErrors" \in flags /\ Sanitize(ready) # ready, "sanitizeErrors")

(* createByteGuard with the flags of the policy: the text of a file is one  *)
(* chunk, so transform handles what is before the cuts and flush the rest;  *)
(* the redactor's tail does not pass the sanitiser.                         *)
ByteRules(text, flags) ==
    LET Redacted(t) == IF "redactSecrets" \in flags THEN Redact(t) ELSE t
        Sanitized(t) == IF "sanitizeErrors" \in flags THEN Sanitize(t) ELSE t
        cut == IF "redactSecrets" \in flags THEN RedactEnd(text) ELSE Len(text)
        raw == Before(text, cut)
        tail == After(text, cut)
        mid == Redacted(raw)
        end == IF "sanitizeErrors" \in flags THEN SanitizeEnd(mid) ELSE Len(mid)
        ready == Before(mid, end)
        held == After(mid, end)
    IN  RecordIf(mid # raw, "redactSecrets")
        \o RecordIf(Sanitized(ready) # ready, "sanitizeErrors")
        \o RecordIf(Redacted(tail) # tail, "redactSecrets")
        \o RecordIf(Sanitized(held) # held, "sanitizeErrors")

(* The same, looked up in a table of the texts under study: TLC computes    *)
(* the table once.                                                          *)
ScanTexts ==
    UNION {{s.text : s \in ToSet(j.streams) \ {Unreadable}} : j \in {i \in Jobs : Given(i.streams)}}
ByteTable ==
    {[of |-> p, rules |-> ByteRules(p[1], p[2])] : p \in ScanTexts \X SUBSET ByteFlags}
TextRules(text, flags) == (CHOOSE row \in ByteTable : row.of = <<text, flags>>).rules

(* The rules of the violations, in order. *)
ScanContent(stream, policy, forced) ==
    IF stream.binary THEN <<>>
    ELSE IF AsEvents(DetectFormat(stream, forced))
      THEN FlattenSeq([n \in DOMAIN stream.events |-> Guarded(policy, stream.events[n])])
    ELSE TextRules(stream.text, policy.byteOptions)

(* violations starting with "redact" *)
Redactions(rules) == Len(SelectSeq(rules, LAMBDA key : key = "redactSecrets"))

StartScan == read' = 0 /\ hits' = <<>>

-----------------------------------------------------------------------------
(* cmdScan up to the first stream. *)
ScanRefused ==
    /\ at = "scan" /\ ((Given(job.streams) /\ Given(job.policy)) \/ Program # "action")
    /\ ~Loads(job.policy) \/ ~Given(job.streams)
    /\ CommandEnds("scan", 2, None)
    /\ UNCHANGED scan

ScanBegins ==
    /\ at = "scan" /\ Given(job.streams) /\ Loads(job.policy)
    /\ at' = "scanning"
    /\ UNCHANGED <<job, codes, children, scan>>

(* scanFile.  An exception ends the scan without a report. *)
ScanFile ==
    /\ at = "scanning" /\ read < Len(job.streams)
    /\ LET stream == job.streams[read + 1]
           policy == Loaded(job.policy)
           rules == ScanContent(stream, policy, None)
       IN  IF Throws(stream, policy, None)
             THEN CommandEnds("scan", 2, None) /\ UNCHANGED scan
             ELSE /\ read' = read + 1
                  /\ hits' = hits \o [n \in DOMAIN rules |-> <<read + 1, rules[n]>>]
                  /\ UNCHANGED process

(* buildScanReport *)
ScanReport ==
    /\ at = "scanning" /\ read = Len(job.streams)
    /\ CommandEnds("scan", IF hits = <<>> THEN 0 ELSE 1,
         [files |-> Len(SelectSeq(job.streams, LAMBDA s : ~s.binary)), violations |-> hits,
          redactions |-> Redactions([n \in DOMAIN hits |-> hits[n][2]])])
    /\ UNCHANGED scan

ScanStep == ScanRefused \/ ScanBegins \/ ScanFile \/ ScanReport

(* scan - : the exit code for the first stream on stdin. *)
ScanStdin(format) ==
    IF ~Loads(job.policy) \/ ~Given(job.streams) \/ job.streams = <<>> THEN 2
    ELSE LET stream == job.streams[1]
             policy == Loaded(job.policy)
         IN  IF Throws(stream, policy, format) THEN 2
             ELSE IF ScanContent(stream, policy, format) = <<>> THEN 0 ELSE 1

-----------------------------------------------------------------------------
(* A rule, looked at alone, has something to say of an event.               *)
RuleHits(stream, policy) ==
    \E n \in DOMAIN stream.events, i \in DOMAIN policy.rules :
        Hits(policy.rules[i], stream.events[n])

(* Something in the stream is against the policy: in its text, a secret or  *)
(* a provider message, as far as the flags ask for them.                    *)
Suspect(stream, policy) ==
    /\ stream # Unreadable /\ ~stream.binary
    /\ IF AsEvents(DetectFormat(stream, None))
         THEN RuleHits(stream, policy)
         ELSE \/ "redactSecrets" \in policy.byteOptions /\ HasSecret(stream.text)
              \/ "sanitizeErrors" \in policy.byteOptions /\ HasMessage(stream.text)

(* The window of the last bytes does not begin inside the message at i..j,  *)
(* or the sanitiser holds all of it: its key is the last one of the text,   *)
(* close before the window and not the first byte.                          *)
Undivided(text, i, j) ==
    LET safe == Len(text) - Lookback
    IN  \/ safe \notin i..(j - 1)
        \/ /\ i > 1 /\ i > safe - MessageWindow
           /\ \A k \in (i + 1)..Len(text) : text[k] # MessageKey

(* What the byte guard cannot let pass: a secret in a text that fits in the *)
(* window, a free-standing plain key anywhere, and, if it does not redact,  *)
(* a message that is not divided.                                           *)
Evident(text, flags) ==
    \/ /\ "redactSecrets" \in flags
       /\ \/ HasSecret(text) /\ Len(text) <= Lookback
          \/ \E i, j \in DOMAIN text : FreeKey(text, i, j)
    \/ /\ "sanitizeErrors" \in flags /\ "redactSecrets" \notin flags
       /\ \E i, j \in DOMAIN text : FieldAt(text, i, j) /\ Undivided(text, i, j)

Certain(stream, policy) ==
    /\ stream # Unreadable /\ ~stream.binary
    /\ IF AsEvents(DetectFormat(stream, None))
         THEN RuleHits(stream, policy)
         ELSE Evident(stream.text, policy.byteOptions)

(* A report is about all streams or there is none.  It names only streams   *)
(* in which something is against the policy, and all in which that cannot   *)
(* pass: events that a rule has something to say of, whatever the rules     *)
(* before it make of them, and texts whose secret or message no cut of a    *)
(* buffer and no stage that is passed by can hide.                          *)
ScanWhole ==
    "scan" \in DOMAIN children /\ children["scan"].report \notin {None, Unreadable} =>
        LET reported == children["scan"].report.violations
            policy == Loaded(job.policy)
        IN  /\ \A k \in DOMAIN job.streams :
                  LET named == \E n \in DOMAIN reported : reported[n][1] = k
                  IN  /\ ~Throws(job.streams[k], policy, None)
                      /\ named => Suspect(job.streams[k], policy)
                      /\ Certain(job.streams[k], policy) => named
            /\ children["scan"].status = 0 <=> reported = <<>>
=============================================================================
