------------------------------ MODULE ByteStages ------------------------------
(***************************************************************************)
(* The two stages of byte mode as functions of the text in their buffers:  *)
(* where each cuts it, and when a stage has a violation to record.         *)
(***************************************************************************)
EXTENDS SecretScan

CONSTANTS
    Lookback,       \* BYTE_LOOKBACK_SIZE
    MessageWindow   \* how far before the cut the sanitiser looks for a message

ASSUME StagesAssumption == Lookback \in Nat /\ MessageWindow \in Nat

-----------------------------------------------------------------------------
(* Where each stage cuts its buffer: the bytes 1..End are processed, the    *)
(* rest is retained.                                                        *)

Before(t, n) == SubSeq(t, 1, n)
AfterSkippingOne(t, n) == SubSeq(t, n + 2, Len(t))   \* fault: off by one
After(t, n) == SubSeq(t, n + 1, Len(t))

(* Faults: no rolling window, only holdback; a window one byte short. *)
RedactEndNow(t) == Len(t) - HoldLength(t)
RedactEndLate(t) ==
    LET safe == Len(t) - Lookback + 1
    IN  IF safe <= 0 THEN 0 ELSE safe - HoldLength(Before(t, safe))

RedactEnd(t) ==
    LET safe == Len(t) - Lookback
    IN  IF safe <= 0 THEN 0 ELSE safe - HoldLength(Before(t, safe))

(* absolute = the last message key at or after the window; an index from 0. *)
SanitizeEnd(t) ==
    LET safe == Len(t) - Lookback
        keys == {p \in 1..Len(t) : p > safe - MessageWindow /\ t[p] = MessageKey}
    IN  IF safe <= 0 THEN 0
        ELSE IF keys = {} \/ Max(keys) = 1 \/ Max(keys) > safe THEN safe
        ELSE Max(keys) - 1

RecordAlways(changed, rule) == <<rule>>   \* fault: recorded without a comparison
RecordIf(changed, rule) == IF changed THEN <<rule>> ELSE <<>>
=============================================================================
