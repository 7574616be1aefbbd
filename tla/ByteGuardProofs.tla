--------------------------- MODULE ByteGuardProofs ---------------------------
(***************************************************************************)
(* Proofs about ByteGuard for every window, pattern table, chunk set and   *)
(* set of options: what is released and when, what is reported, and what   *)
(* is held back.                                                           *)
(***************************************************************************)
EXTENDS ByteGuard, SecretScanProofs

(* A stage that is off passes text through, so the two lemmas above hold   *)
(* of the stages too.                                                      *)
LEMMA StageMasks ==
    ASSUME NEW t \in Seq(Byte)
    PROVE  /\ RedactStage(t) \in Seq(Byte) /\ MaskOf(RedactStage(t), t)
           /\ SanitizeStage(t) \in Seq(Byte) /\ MaskOf(SanitizeStage(t), t)
BY RedactMasks, SanitizeMasks, MaskRefl DEF RedactStage, SanitizeStage

-----------------------------------------------------------------------------
(* The inductive invariant. *)

LEMMA InitInv == Init => IInv
<1> SUFFICES ASSUME Init PROVE IInv
  OBVIOUS
<1>1. TypeOK
  BY DEF Init, TypeOK, Phases
<1>2. MaskOf(<<>> \o <<>> \o <<>>, <<>>)
  BY DEF MaskOf
<1>3. InPlace
  BY <1>2 DEF Init, InPlace
<1>4. BufferInv /\ ShortStreamWhole
  BY DEF Init, BufferInv, ShortStreamWhole
<1>5. WindowKept
  BY StagesAssumption DEF Init, WindowKept, StagesAssumption
<1>6. QED
  BY <1>1, <1>3, <1>4, <1>5 DEF IInv

(* The records of a step are well typed. *)
LEMMA RecordType ==
    ASSUME TypeOK, NEW a \in BOOLEAN, NEW b \in BOOLEAN,
           NEW rules \in {RecordIf(a, "redact_secrets"),
              RecordIf(a, "redact_secrets") \o RecordIf(b, "sanitize_errors")},
           Record(rules)
    PROVE  violations' \in Seq(Rules) /\ redactions' \in Nat
<1>1. /\ RecordIf(a, "redact_secrets") \in Seq(Rules)
      /\ RecordIf(b, "sanitize_errors") \in Seq(Rules)
  <2>1. "redact_secrets" \in Rules /\ "sanitize_errors" \in Rules
    BY DEF Rules
  <2>2. \A r \in Rules : <<r>> \in Seq(Rules) /\ <<>> \in Seq(Rules)
    OBVIOUS
  <2>3. QED
    BY <2>1, <2>2 DEF RecordIf
<1>2. rules \in Seq(Rules) /\ Len(rules) \in Nat
  <2> DEFINE f == RecordIf(a, "redact_secrets")
             g == RecordIf(b, "sanitize_errors")
  <2>1. f \in Seq(Rules) /\ g \in Seq(Rules) /\ (rules = f \/ rules = f \o g)
    BY <1>1
  <2> HIDE DEF f, g
  <2>2. f \o g \in Seq(Rules)
    BY <2>1
  <2>3. rules \in Seq(Rules)
    BY <2>1, <2>2, Zenon
  <2>4. QED
    BY <2>3
<1>3. Cardinality({i \in DOMAIN rules : rules[i] = "redact_secrets"}) \in Nat
  <2>1. DOMAIN rules = 1..Len(rules)
    BY <1>2
  <2>2. IsFiniteSet(1..Len(rules))
    BY <1>2, FS_Interval
  <2>3. {i \in DOMAIN rules : rules[i] = "redact_secrets"} \subseteq 1..Len(rules)
    BY <2>1
  <2>4. IsFiniteSet({i \in DOMAIN rules : rules[i] = "redact_secrets"})
    BY <2>2, <2>3, FS_Subset
  <2>5. QED
    BY <2>4, FS_CardinalityType
<1>4. QED
  BY <1>2, <1>3 DEF TypeOK, Record

LEMMA Assoc == \A r, t, u \in Seq(Byte) : (r \o t) \o u = r \o (t \o u)
BY ConcatAssociative

LEMMA ConcatType == \A t, u \in Seq(Byte) : t \o u \in Seq(Byte)
OBVIOUS

LEMMA MaskConcatAll ==
    \A t1, t2, u1, u2 \in Seq(Byte) :
        MaskOf(u1, t1) /\ MaskOf(u2, t2) => MaskOf(u1 \o u2, t1 \o t2)
BY MaskConcat

LEMMA MaskTransAll ==
    \A t, u, v \in Seq(Byte) : MaskOf(v, u) /\ MaskOf(u, t) => MaskOf(v, t)
BY MaskTrans

LEMMA MaskReflAll == \A t \in Seq(Byte) : MaskOf(t, t)
BY MaskRefl

(* One step of a two-stage pipe with buffers s and b, taking in c: what it  *)
(* puts out and keeps is still the text received, in order.                *)
LEMMA PipeStep ==
    ASSUME NEW o \in Seq(Byte), NEW s \in Seq(Byte), NEW b \in Seq(Byte),
           NEW c \in Seq(Byte), NEW rcv \in Seq(Byte),
           NEW raw \in Seq(Byte), NEW mid \in Seq(Byte), NEW ready \in Seq(Byte),
           NEW done \in Seq(Byte), NEW sl \in Seq(Byte), NEW bl \in Seq(Byte)
    PROVE  /\ raw \o bl = b \o c /\ ready \o sl = s \o mid
           /\ MaskOf(mid, raw) /\ MaskOf(done, ready) /\ MaskOf((o \o s) \o b, rcv)
           => MaskOf(((o \o done) \o sl) \o bl, rcv \o c)
<1>1. /\ o \o s \in Seq(Byte) /\ (o \o s) \o b \in Seq(Byte)
      /\ (o \o s) \o raw \in Seq(Byte) /\ (o \o s) \o mid \in Seq(Byte)
      /\ o \o done \in Seq(Byte) /\ o \o ready \in Seq(Byte)
      /\ (o \o done) \o sl \in Seq(Byte) /\ (o \o ready) \o sl \in Seq(Byte)
  BY ConcatType, Zenon
<1>2. /\ ((o \o s) \o b) \o c \in Seq(Byte) /\ ((o \o s) \o raw) \o bl \in Seq(Byte)
      /\ ((o \o s) \o mid) \o bl \in Seq(Byte) /\ rcv \o c \in Seq(Byte)
      /\ ((o \o done) \o sl) \o bl \in Seq(Byte)
  BY <1>1, ConcatType, Zenon
<1>3. /\ ((o \o s) \o b) \o c = (o \o s) \o (b \o c)
      /\ ((o \o s) \o raw) \o bl = (o \o s) \o (raw \o bl)
  <2>1. \A t, u \in Seq(Byte) : ((o \o s) \o t) \o u = (o \o s) \o (t \o u)
    BY <1>1, Assoc
  <2>2. QED
    BY <2>1
<1>4. /\ (o \o ready) \o sl = o \o (ready \o sl)
      /\ (o \o s) \o mid = o \o (s \o mid)
  <2>1. \A t, u \in Seq(Byte) : (o \o t) \o u = o \o (t \o u)
    BY Assoc
  <2>2. QED
    BY <2>1
<1>5. SUFFICES ASSUME raw \o bl = b \o c, ready \o sl = s \o mid, MaskOf(mid, raw),
                      MaskOf(done, ready), MaskOf((o \o s) \o b, rcv)
               PROVE  MaskOf(((o \o done) \o sl) \o bl, rcv \o c)
  OBVIOUS
<1>6. MaskOf(((o \o s) \o raw) \o bl, rcv \o c)
  <2>1. MaskOf(((o \o s) \o b) \o c, rcv \o c)
    BY <1>1, <1>5, MaskReflAll, MaskConcatAll, Zenon
  <2>2. QED
    BY <1>3, <1>5, <2>1, Zenon
<1>7. MaskOf(((o \o s) \o mid) \o bl, ((o \o s) \o raw) \o bl)
  <2>1. MaskOf((o \o s) \o mid, (o \o s) \o raw)
    BY <1>1, <1>5, MaskReflAll, MaskConcatAll, Zenon
  <2>2. QED
    BY <1>1, <2>1, MaskReflAll, MaskConcatAll, Zenon
<1>8. MaskOf(((o \o done) \o sl) \o bl, ((o \o s) \o mid) \o bl)
  <2>1. MaskOf(o \o done, o \o ready)
    BY <1>1, <1>5, MaskReflAll, MaskConcatAll, Zenon
  <2>2. MaskOf((o \o done) \o sl, (o \o ready) \o sl)
    BY <1>1, <2>1, MaskReflAll, MaskConcatAll, Zenon
  <2>3. (o \o ready) \o sl = (o \o s) \o mid
    BY <1>4, <1>5, Zenon
  <2>4. MaskOf((o \o done) \o sl, (o \o s) \o mid)
    BY <2>2, <2>3, Zenon
  <2>5. QED
    BY <1>1, <2>4, MaskReflAll, MaskConcatAll, Zenon
<1>9. MaskOf(((o \o s) \o mid) \o bl, rcv \o c)
  BY <1>2, <1>6, <1>7, MaskTransAll, Zenon
<1>10. QED
  BY <1>2, <1>8, <1>9, MaskTransAll, Zenon

(* The values of one transform(chunk), named as in Transform.              *)
Whole(chunk) == RedactIn(chunk)
Raw(chunk) == Before(Whole(chunk), RedactCut(Whole(chunk)))
Mid(chunk) == RedactStage(Raw(chunk))
Buffer(chunk) == SanitizeIn(Mid(chunk))
Ready(chunk) == Before(Buffer(chunk), SanitizeCut(Buffer(chunk)))
Done(chunk) == SanitizeStage(Ready(chunk))
KeptBytes(chunk) == After(Whole(chunk), RedactCut(Whole(chunk)))
KeptText(chunk) == After(Buffer(chunk), SanitizeCut(Buffer(chunk)))

(* What transform makes of a chunk before it decides whether a hook threw:  *)
(* the two stages together keep every byte in place and respect the window. *)
LEMMA TransformStages ==
    ASSUME IInv, phase = "open", NEW chunk \in Seq(Byte)
    PROVE  /\ KeptBytes(chunk) \in Seq(Byte) /\ KeptText(chunk) \in Seq(Byte) /\ Done(chunk) \in Seq(Byte)
           /\ MaskOf(((out \o Done(chunk)) \o KeptText(chunk)) \o KeptBytes(chunk), received \o chunk)
           /\ ~options.redactSecrets => KeptBytes(chunk) = <<>>
           /\ ~options.sanitizeErrors => KeptText(chunk) = <<>>
           /\ options.redactSecrets =>
                 \/ KeptBytes(chunk) = received \o chunk
                 \/ Len(received \o chunk) > Lookback /\ Len(KeptBytes(chunk)) >= Lookback
           /\ options.sanitizeErrors /\ ~options.redactSecrets =>
                 \/ KeptText(chunk) = received \o chunk
                 \/ Len(received \o chunk) > Lookback /\ Len(KeptText(chunk)) >= Lookback
           /\ ~Flags => out \o Done(chunk) = received \o chunk
<1> /\ Whole(chunk) = RedactIn(chunk) /\ Mid(chunk) = RedactStage(Raw(chunk))
    /\ Raw(chunk) = Before(Whole(chunk), RedactCut(Whole(chunk)))
    /\ KeptBytes(chunk) = After(Whole(chunk), RedactCut(Whole(chunk)))
    /\ Buffer(chunk) = SanitizeIn(Mid(chunk)) /\ Done(chunk) = SanitizeStage(Ready(chunk))
    /\ Ready(chunk) = Before(Buffer(chunk), SanitizeCut(Buffer(chunk)))
    /\ KeptText(chunk) = After(Buffer(chunk), SanitizeCut(Buffer(chunk)))
  BY DEF Whole, Raw, Mid, Buffer, Ready, Done, KeptBytes, KeptText
<1>0. /\ out \in Seq(Byte) /\ received \in Seq(Byte)
      /\ byteLookback \in Seq(Byte) /\ sanitizeLookback \in Seq(Byte)
      /\ options.redactSecrets \in BOOLEAN /\ options.sanitizeErrors \in BOOLEAN
      /\ Lookback \in Nat
  BY StagesAssumption, ByteGuardAssumption DEF IInv, TypeOK, StagesAssumption, ByteGuardAssumption
<1>1. Whole(chunk) = byteLookback \o chunk /\ Whole(chunk) \in Seq(Byte)
  BY <1>0 DEF IInv, BufferInv, RedactIn
<1>2. /\ RedactCut(Whole(chunk)) \in 0..Len(Whole(chunk))
      /\ options.redactSecrets =>
            RedactCut(Whole(chunk)) = 0 \/ RedactCut(Whole(chunk)) + Lookback <= Len(Whole(chunk))
  <2>1. Len(Whole(chunk)) \in 0..Len(Whole(chunk))
    BY <1>1
  <2>2. QED
    BY <1>0, <1>1, <2>1, RedactEndBound DEF RedactCut
<1>3. /\ Raw(chunk) \in Seq(Byte) /\ KeptBytes(chunk) \in Seq(Byte) /\ Raw(chunk) \o KeptBytes(chunk) = Whole(chunk)
      /\ Len(KeptBytes(chunk)) = Len(Whole(chunk)) - RedactCut(Whole(chunk)) /\ Len(Raw(chunk)) = RedactCut(Whole(chunk))
  BY <1>1, <1>2, CutText
<1>4. Mid(chunk) \in Seq(Byte) /\ MaskOf(Mid(chunk), Raw(chunk))
  BY <1>3, StageMasks
<1>5. Buffer(chunk) = sanitizeLookback \o Mid(chunk) /\ Buffer(chunk) \in Seq(Byte)
  BY SMTT(30), <1>0, <1>4 DEF IInv, BufferInv, SanitizeIn
<1>6. /\ SanitizeCut(Buffer(chunk)) \in 0..Len(Buffer(chunk))
      /\ options.sanitizeErrors =>
            SanitizeCut(Buffer(chunk)) = 0 \/ SanitizeCut(Buffer(chunk)) + Lookback <= Len(Buffer(chunk))
  <2>1. Len(Buffer(chunk)) \in 0..Len(Buffer(chunk))
    BY <1>5
  <2>2. QED
    BY <1>0, <1>5, <2>1, SanitizeEndBound DEF SanitizeCut
<1>7. /\ Ready(chunk) \in Seq(Byte) /\ KeptText(chunk) \in Seq(Byte) /\ Ready(chunk) \o KeptText(chunk) = Buffer(chunk)
      /\ Len(KeptText(chunk)) = Len(Buffer(chunk)) - SanitizeCut(Buffer(chunk))
      /\ Len(Ready(chunk)) = SanitizeCut(Buffer(chunk))
  BY <1>5, <1>6, CutText
<1>8. Done(chunk) \in Seq(Byte) /\ MaskOf(Done(chunk), Ready(chunk))
  BY <1>7, StageMasks
<1>9. MaskOf(((out \o Done(chunk)) \o KeptText(chunk)) \o KeptBytes(chunk), received \o chunk)
  <2>1. MaskOf((out \o sanitizeLookback) \o byteLookback, received)
    BY DEF IInv, InPlace
  <2>2. Raw(chunk) \o KeptBytes(chunk) = byteLookback \o chunk /\ Ready(chunk) \o KeptText(chunk) = sanitizeLookback \o Mid(chunk)
    BY <1>1, <1>3, <1>5, <1>7
  <2>3. /\ out \in Seq(Byte) /\ sanitizeLookback \in Seq(Byte)
        /\ byteLookback \in Seq(Byte) /\ chunk \in Seq(Byte) /\ received \in Seq(Byte)
        /\ Raw(chunk) \in Seq(Byte) /\ Mid(chunk) \in Seq(Byte) /\ Ready(chunk) \in Seq(Byte)
        /\ Done(chunk) \in Seq(Byte) /\ KeptText(chunk) \in Seq(Byte) /\ KeptBytes(chunk) \in Seq(Byte)
    BY <1>0, <1>3, <1>4, <1>7, <1>8
  <2>4. /\ Raw(chunk) \o KeptBytes(chunk) = byteLookback \o chunk /\ Ready(chunk) \o KeptText(chunk) = sanitizeLookback \o Mid(chunk)
        /\ MaskOf(Mid(chunk), Raw(chunk)) /\ MaskOf(Done(chunk), Ready(chunk))
        /\ MaskOf((out \o sanitizeLookback) \o byteLookback, received)
        => MaskOf(((out \o Done(chunk)) \o KeptText(chunk)) \o KeptBytes(chunk), received \o chunk)
    BY ONLY <2>3, PipeStep, Zenon
  <2>5. QED
    BY <1>4, <1>8, <2>1, <2>2, <2>4, Zenon
<1>10. ~options.redactSecrets => KeptBytes(chunk) = <<>> /\ Mid(chunk) = chunk
  <2> SUFFICES ASSUME ~options.redactSecrets PROVE KeptBytes(chunk) = <<>> /\ Mid(chunk) = chunk
    OBVIOUS
  <2>1. byteLookback = <<>> /\ Whole(chunk) = chunk
    BY DEF IInv, BufferInv, RedactIn
  <2>2. KeptBytes(chunk) = <<>>
    BY <1>3 DEF RedactCut
  <2>3. Raw(chunk) = chunk
    BY <1>3, <2>1, <2>2
  <2>4. QED
    BY <2>2, <2>3 DEF RedactStage
<1>11. ~options.sanitizeErrors => KeptText(chunk) = <<>> /\ Done(chunk) = Mid(chunk)
  <2> SUFFICES ASSUME ~options.sanitizeErrors PROVE KeptText(chunk) = <<>> /\ Done(chunk) = Mid(chunk)
    OBVIOUS
  <2>1. Buffer(chunk) = Mid(chunk)
    BY DEF SanitizeIn
  <2>2. KeptText(chunk) = <<>>
    BY <1>7 DEF SanitizeCut
  <2>3. Ready(chunk) = Mid(chunk)
    BY <1>7, <2>1, <2>2
  <2>4. QED
    BY <2>2, <2>3 DEF SanitizeStage
<1>12. options.redactSecrets =>
          \/ KeptBytes(chunk) = received \o chunk
          \/ Len(received \o chunk) > Lookback /\ Len(KeptBytes(chunk)) >= Lookback
  <2> SUFFICES ASSUME options.redactSecrets
               PROVE  \/ KeptBytes(chunk) = received \o chunk
                      \/ Len(received \o chunk) > Lookback /\ Len(KeptBytes(chunk)) >= Lookback
    OBVIOUS
  <2>1. CASE byteLookback = received
    <3>1. CASE RedactCut(Whole(chunk)) = 0
      <4>1. KeptBytes(chunk) = Whole(chunk)
        BY <1>1, <3>1, AfterNothing
      <4>2. QED
        BY <1>1, <2>1, <4>1
    <3>2. CASE RedactCut(Whole(chunk)) # 0
      BY <1>0, <1>1, <1>2, <1>3, <2>1, <3>2
    <3>3. QED
      BY <3>1, <3>2
  <2>2. CASE Len(received) > Lookback /\ Len(byteLookback) >= Lookback
    BY <1>0, <1>1, <1>2, <1>3, <2>2
  <2>3. QED
    BY <2>1, <2>2 DEF IInv, BufferInv
<1>13. options.sanitizeErrors /\ ~options.redactSecrets =>
          \/ KeptText(chunk) = received \o chunk
          \/ Len(received \o chunk) > Lookback /\ Len(KeptText(chunk)) >= Lookback
  <2> SUFFICES ASSUME options.sanitizeErrors, ~options.redactSecrets
               PROVE  \/ KeptText(chunk) = received \o chunk
                      \/ Len(received \o chunk) > Lookback /\ Len(KeptText(chunk)) >= Lookback
    OBVIOUS
  <2>0. Buffer(chunk) = sanitizeLookback \o chunk
    BY <1>5, <1>10
  <2>1. CASE sanitizeLookback = received
    <3>1. CASE SanitizeCut(Buffer(chunk)) = 0
      <4>1. KeptText(chunk) = Buffer(chunk)
        BY <1>5, <3>1, AfterNothing
      <4>2. QED
        BY <2>0, <2>1, <4>1
    <3>2. CASE SanitizeCut(Buffer(chunk)) # 0
      BY <1>0, <1>5, <1>6, <1>7, <2>0, <2>1, <3>2
    <3>3. QED
      BY <3>1, <3>2
  <2>2. CASE Len(received) > Lookback /\ Len(sanitizeLookback) >= Lookback
    BY <1>0, <1>5, <1>6, <1>7, <2>0, <2>2
  <2>3. QED
    BY <2>1, <2>2 DEF IInv, BufferInv
<1>14. ~Flags => out \o Done(chunk) = received \o chunk
  BY <1>10, <1>11 DEF IInv, BufferInv, Flags
<1>15. QED
  BY <1>3, <1>7, <1>8, <1>9, <1>10, <1>11, <1>12, <1>13, <1>14

(* The window and the short-stream guarantee follow from the rest.         *)
LEMMA WindowFromBuffers ==
    ASSUME TypeOK, InPlace, BufferInv
    PROVE  WindowKept
<1> SUFFICES ASSUME phase = "open", Flags
             PROVE  Len(out) <= IF Len(received) > Lookback
                                THEN Len(received) - Lookback ELSE 0
  BY DEF WindowKept
<1>1. /\ out \in Seq(Byte) /\ received \in Seq(Byte)
      /\ byteLookback \in Seq(Byte) /\ sanitizeLookback \in Seq(Byte)
      /\ Lookback \in Nat
  BY StagesAssumption DEF TypeOK, StagesAssumption
<1>2. /\ Len((out \o sanitizeLookback) \o byteLookback)
            = Len(out) + Len(sanitizeLookback) + Len(byteLookback)
      /\ Len(out) \in Nat /\ Len(sanitizeLookback) \in Nat /\ Len(byteLookback) \in Nat
      /\ Len(received) \in Nat
  BY <1>1
<1>3. Len(out) + Len(sanitizeLookback) + Len(byteLookback) = Len(received)
  BY <1>2 DEF InPlace, MaskOf
<1>4. CASE options.redactSecrets
  BY <1>1, <1>2, <1>3, <1>4 DEF BufferInv
<1>5. CASE ~options.redactSecrets
  BY <1>1, <1>2, <1>3, <1>5 DEF BufferInv, Flags
<1>6. QED
  BY <1>4, <1>5

LEMMA TransformInv ==
    ASSUME IInv, NEW chunk \in Chunks, Transform(chunk)
    PROVE  IInv'
<1> DEFINE first == RecordIf(Mid(chunk) # Raw(chunk), "redact_secrets")
           second == RecordIf(Done(chunk) # Ready(chunk), "sanitize_errors")
<1>0. phase = "open" /\ chunk \in Seq(Byte) /\ options' = options /\ summary' = summary
  <2>1. chunk \in Seq(Byte \ {Mask})
    BY ByteGuardAssumption DEF ByteGuardAssumption
  <2>2. chunk \in Seq(Byte)
    BY <2>1, SeqMonotonic
  <2>3. QED
    BY <2>2 DEF Transform
<1>1. /\ KeptBytes(chunk) \in Seq(Byte) /\ KeptText(chunk) \in Seq(Byte) /\ Done(chunk) \in Seq(Byte)
      /\ MaskOf(((out \o Done(chunk)) \o KeptText(chunk)) \o KeptBytes(chunk), received \o chunk)
      /\ ~options.redactSecrets => KeptBytes(chunk) = <<>>
      /\ ~options.sanitizeErrors => KeptText(chunk) = <<>>
      /\ options.redactSecrets =>
            \/ KeptBytes(chunk) = received \o chunk
            \/ Len(received \o chunk) > Lookback /\ Len(KeptBytes(chunk)) >= Lookback
      /\ options.sanitizeErrors /\ ~options.redactSecrets =>
            \/ KeptText(chunk) = received \o chunk
            \/ Len(received \o chunk) > Lookback /\ Len(KeptText(chunk)) >= Lookback
      /\ ~Flags => out \o Done(chunk) = received \o chunk
  BY <1>0, TransformStages
<1>2. /\ received' = received \o chunk /\ byteLookback' = KeptBytes(chunk)
      /\ \/ /\ Record(first) /\ phase' = "errored"
            /\ sanitizeLookback' = sanitizeLookback /\ out' = out
         \/ /\ Record(first \o second) /\ sanitizeLookback' = KeptText(chunk)
            /\ phase' = "errored" /\ out' = out
         \/ /\ Record(first \o second) /\ sanitizeLookback' = KeptText(chunk)
            /\ phase' = "open" /\ out' = out \o Done(chunk)
  BY DEF Transform, Whole, Raw, Mid, Buffer, Ready, Done, KeptBytes, KeptText
<1>3. ~options.sanitizeErrors => sanitizeLookback = <<>>
  BY DEF IInv, BufferInv
<1>4. /\ out \in Seq(Byte) /\ received \in Seq(Byte) /\ sanitizeLookback \in Seq(Byte)
      /\ options \in OptionSets
  BY DEF IInv, TypeOK
<1>5. TypeOK'
  <2>1. violations' \in Seq(Rules) /\ redactions' \in Nat
    <3>1. (Mid(chunk) # Raw(chunk)) \in BOOLEAN /\ (Done(chunk) # Ready(chunk)) \in BOOLEAN
      OBVIOUS
    <3>2. Record(first) \/ Record(first \o second)
      BY <1>2
    <3>3. QED
      BY <3>1, <3>2, RecordType DEF IInv
  <2>2. out' \in Seq(Byte) /\ received' \in Seq(Byte) /\ byteLookback' \in Seq(Byte)
        /\ sanitizeLookback' \in Seq(Byte)
    <3>1. received \o chunk \in Seq(Byte) /\ out \o Done(chunk) \in Seq(Byte)
      BY <1>0, <1>1, <1>4, ConcatType, Zenon
    <3>2. byteLookback' \in Seq(Byte)
      BY <1>1, <1>2, Zenon
    <3>3. received' \in Seq(Byte)
      BY <1>2, <3>1, Zenon
    <3>4. out' = out \/ out' = out \o Done(chunk)
      BY <1>2, Zenon
    <3>5. sanitizeLookback' = sanitizeLookback \/ sanitizeLookback' = KeptText(chunk)
      BY <1>2, Zenon
    <3>6. QED
      BY <1>1, <1>4, <3>1, <3>2, <3>3, <3>4, <3>5, Zenon
  <2>3. phase' \in Phases
    BY <1>2 DEF Phases
  <2>4. QED
    BY <1>0, <1>4, <2>1, <2>2, <2>3 DEF TypeOK
<1>6. phase' = "open" => out' = out \o Done(chunk) /\ sanitizeLookback' = KeptText(chunk)
  BY <1>2
<1>7. phase' # "closed"
  BY <1>2
<1>8. InPlace'
  BY <1>1, <1>2, <1>6, <1>7 DEF InPlace
<1>9. BufferInv'
  BY <1>0, <1>1, <1>2, <1>3, <1>6 DEF BufferInv, Flags
<1>10. ShortStreamWhole'
  BY <1>7 DEF ShortStreamWhole
<1>11. WindowKept'
  <2>1. TypeOK' /\ InPlace' /\ BufferInv' => WindowKept'
    BY WindowFromBuffers, PTL
  <2>2. QED
    BY <1>5, <1>8, <1>9, <2>1
<1>12. QED
  BY <1>5, <1>8, <1>9, <1>10, <1>11 DEF IInv

LEMMA EmptyConcat ==
    \A t \in Seq(Byte) : t \o <<>> = t /\ <<>> \o t = t
  OBVIOUS

LEMMA EmptyText == \A t \in Seq(Byte) : Len(t) = 0 => t = <<>>
  OBVIOUS

(* flush empties the buffers in the order redactor, sanitiser; with one    *)
(* flag at most, one of the two is empty and the order does not matter.    *)
LEMMA FlushInv ==
    ASSUME IInv, Flush
    PROVE  IInv'
<1> DEFINE tail == RedactStage(byteLookback)
           held == SanitizeStage(sanitizeLookback)
           first == RecordIf(tail # byteLookback, "redact_secrets")
           second == RecordIf(held # sanitizeLookback, "sanitize_errors")
<1>1. /\ options' = options /\ received' = received /\ phase = "open"
      /\ byteLookback' = <<>>
      /\ \/ /\ Record(first) /\ phase' = "errored"
            /\ sanitizeLookback' = sanitizeLookback /\ out' = out
         \/ /\ Record(first \o second) /\ phase' = "errored"
            /\ sanitizeLookback' = <<>> /\ out' = out \o tail
         \/ /\ Record(first \o second) /\ phase' = "closed"
            /\ sanitizeLookback' = <<>> /\ out' = (out \o tail) \o held
  BY DEF Flush
<1>2. /\ out \in Seq(Byte) /\ received \in Seq(Byte) /\ sanitizeLookback \in Seq(Byte)
      /\ byteLookback \in Seq(Byte) /\ options \in OptionSets /\ <<>> \in Seq(Byte)
  BY DEF IInv, TypeOK
<1>3. tail \in Seq(Byte) /\ MaskOf(tail, byteLookback)
  BY <1>2, StageMasks
<1>4. held \in Seq(Byte) /\ MaskOf(held, sanitizeLookback)
  BY <1>2, StageMasks
<1>5. violations' \in Seq(Rules) /\ redactions' \in Nat
  <2>1. (tail # byteLookback) \in BOOLEAN /\ (held # sanitizeLookback) \in BOOLEAN
    OBVIOUS
  <2>2. Record(first) \/ Record(first \o second)
    BY <1>1
  <2>3. QED
    BY <2>1, <2>2, RecordType DEF IInv
<1> HIDE DEF tail, held, first, second
<1>6. out \o tail \in Seq(Byte) /\ (out \o tail) \o held \in Seq(Byte)
  BY <1>2, <1>3, <1>4, ConcatType, Zenon
<1>7. TypeOK'
  <2>1. out' = out \/ out' = out \o tail \/ out' = (out \o tail) \o held
    BY <1>1, Zenon
  <2>2. out' \in Seq(Byte)
    BY <1>2, <1>6, <2>1, Zenon
  <2>3. sanitizeLookback' \in Seq(Byte) /\ byteLookback' \in Seq(Byte)
    BY <1>1, <1>2, Zenon
  <2>4. phase' \in Phases
    BY <1>1 DEF Phases
  <2>5. QED
    BY <1>1, <1>2, <1>5, <2>2, <2>3, <2>4 DEF TypeOK
<1>8. phase' # "open"
  BY <1>1
<1>9. MaskOf((out \o sanitizeLookback) \o byteLookback, received)
  BY <1>1 DEF IInv, InPlace
<1>10. InPlace'
  <2> SUFFICES ASSUME phase' = "closed"
               PROVE  /\ ~Both' => MaskOf(out', received)
                      /\ Len(out') = Len(received)
    BY <1>1, <1>8 DEF InPlace
  <2>1. out' = (out \o tail) \o held
    BY <1>1
  <2>2. Len(out') = Len(received)
    <3>1. Len(tail) = Len(byteLookback) /\ Len(held) = Len(sanitizeLookback)
      BY <1>3, <1>4 DEF MaskOf
    <3>2. Len((out \o sanitizeLookback) \o byteLookback) = Len(received)
      BY <1>9 DEF MaskOf
    <3>3. QED
      BY <1>2, <1>3, <1>4, <1>6, <2>1, <3>1, <3>2
  <2>3. ASSUME ~options.redactSecrets PROVE MaskOf(out', received)
    <3>1. tail = <<>> /\ byteLookback = <<>>
      BY <2>3 DEF IInv, BufferInv, RedactStage, tail
    <3>2. out' = out \o held
      BY <1>2, <2>1, <3>1, EmptyConcat, Zenon
    <3>3. out \o sanitizeLookback \in Seq(Byte)
      BY <1>2, ConcatType, Zenon
    <3>4. MaskOf(out \o sanitizeLookback, received)
      BY <1>9, <3>1, <3>3, EmptyConcat, Zenon
    <3>5. MaskOf(out \o held, out \o sanitizeLookback)
      BY <1>2, <1>4, MaskReflAll, MaskConcatAll, Zenon
    <3>6. out \o held \in Seq(Byte)
      BY <1>2, <1>4, ConcatType, Zenon
    <3>7. QED
      BY <1>2, <3>2, <3>3, <3>4, <3>5, <3>6, MaskTransAll, Zenon
  <2>4. ASSUME ~options.sanitizeErrors PROVE MaskOf(out', received)
    <3>1. held = <<>> /\ sanitizeLookback = <<>>
      BY <2>4 DEF IInv, BufferInv, SanitizeStage, held
    <3>2. out' = out \o tail
      BY <1>6, <2>1, <3>1, EmptyConcat, Zenon
    <3>3. out \o byteLookback \in Seq(Byte)
      BY <1>2, ConcatType, Zenon
    <3>4. MaskOf(out \o byteLookback, received)
      BY <1>2, <1>9, <3>1, EmptyConcat, Zenon
    <3>5. MaskOf(out \o tail, out \o byteLookback)
      BY <1>2, <1>3, MaskReflAll, MaskConcatAll, Zenon
    <3>6. QED
      BY <1>2, <1>6, <3>2, <3>3, <3>4, <3>5, MaskTransAll, Zenon
  <2>5. QED
    BY <1>1, <2>2, <2>3, <2>4 DEF Both
<1>11. ShortStreamWhole'
  <2> SUFFICES ASSUME phase' = "closed", ~Both, Len(received) <= Lookback
               PROVE  out' = SanitizeStage(RedactStage(received))
    BY <1>1 DEF ShortStreamWhole, Both, SanitizeStage, RedactStage
  <2>1. out' = (out \o tail) \o held
    BY <1>1
  <2>2. Len(out) + Len(sanitizeLookback) + Len(byteLookback) = Len(received)
    BY <1>2, <1>9 DEF MaskOf
  <2>3. CASE ~options.redactSecrets /\ ~options.sanitizeErrors
    <3>1. byteLookback = <<>> /\ sanitizeLookback = <<>> /\ out = received
      BY <1>1, <2>3 DEF IInv, BufferInv, Flags
    <3>2. tail = <<>> /\ held = <<>>
      BY <2>3, <3>1 DEF RedactStage, SanitizeStage, tail, held
    <3>3. SanitizeStage(RedactStage(received)) = received
      BY <2>3 DEF RedactStage, SanitizeStage
    <3>4. QED
      BY <1>2, <2>1, <3>1, <3>2, <3>3, EmptyConcat, Zenon
  <2>4. CASE options.redactSecrets
    <3>1. sanitizeLookback = <<>> /\ byteLookback = received /\ ~options.sanitizeErrors
      BY <1>1, <1>2, <2>4, StagesAssumption
      DEF IInv, BufferInv, Both, StagesAssumption
    <3>2. out = <<>>
      BY <1>2, <2>2, <3>1
    <3>3. held = <<>>
      BY <3>1 DEF SanitizeStage, held
    <3>4. SanitizeStage(RedactStage(received)) = tail
      BY <3>1 DEF SanitizeStage, tail
    <3>5. QED
      BY <1>3, <1>6, <2>1, <3>2, <3>3, <3>4, EmptyConcat, Zenon
  <2>5. CASE options.sanitizeErrors
    <3>1. byteLookback = <<>> /\ sanitizeLookback = received /\ ~options.redactSecrets
      BY <1>1, <1>2, <2>5, StagesAssumption
      DEF IInv, BufferInv, Both, StagesAssumption
    <3>2. out = <<>>
      BY <1>2, <2>2, <3>1
    <3>3. tail = <<>>
      BY <3>1 DEF RedactStage, tail
    <3>4. SanitizeStage(RedactStage(received)) = held
      BY <3>1 DEF RedactStage, held
    <3>5. QED
      BY <1>2, <1>4, <2>1, <3>2, <3>3, <3>4, EmptyConcat, Zenon
  <2>6. QED
    BY <2>3, <2>4, <2>5
<1>12. BufferInv'
  BY <1>1, <1>8, <1>2 DEF IInv, BufferInv
<1>13. WindowKept'
  BY <1>8 DEF WindowKept
<1>14. QED
  BY <1>7, <1>10, <1>11, <1>12, <1>13 DEF IInv

(* A step of the guard, or of anything else, keeps the invariant.          *)
LEMMA StepInv == IInv /\ [Next]_vars => IInv'
<1> SUFFICES ASSUME IInv, [Next]_vars PROVE IInv'
  OBVIOUS
<1>1. CASE Flush
  BY <1>1, FlushInv
<1>2. CASE Abort
  BY <1>2 DEF Abort, IInv, TypeOK, InPlace, BufferInv, WindowKept, ShortStreamWhole, Phases
<1>3. ASSUME NEW chunk \in Chunks, Transform(chunk) PROVE IInv'
  BY <1>3, TransformInv
<1>4. CASE UNCHANGED vars
  BY <1>4 DEF vars, IInv, TypeOK, InPlace, BufferInv, WindowKept, ShortStreamWhole, Both,
              Flags, RedactStage, SanitizeStage
<1>5. QED
  BY <1>1, <1>2, <1>3, <1>4 DEF Next

THEOREM Invariance == Spec => []IInv
  BY InitInv, StepInv, PTL DEF Spec

(* The buffers, the output and the records always have their types.        *)
THEOREM TypeCorrect == Spec => []TypeOK
  BY Invariance, PTL DEF IInv

(* Whatever the patterns, the window, the chunk boundaries and the hook,   *)
(* no byte is lost, repeated or moved: output and buffers together are the *)
(* stream so far, and after flush, with one flag at most, the output is.   *)
THEOREM InPlaceCorrect == Spec => []InPlace
  BY Invariance, PTL DEF IInv

(* No byte leaves an open guard before Lookback later bytes were seen.     *)
THEOREM WindowKeptCorrect == Spec => []WindowKept
  BY Invariance, PTL DEF IInv

(* A stream no longer than the window is scanned as a whole.               *)
THEOREM ShortStreamCorrect == Spec => []ShortStreamWhole
  BY Invariance, PTL DEF IInv

-----------------------------------------------------------------------------
(* The guard implements the masking channel.                                *)

LEMMA ExtendsConcat ==
    \A t, u \in Seq(Byte) : Channel!Extends(t \o u, t) /\ Channel!Extends(t, t)
  BY DEF Channel!Extends

(* What InPlace says of the output alone. *)
OutputFollows == phase = "open" => Channel!Delivers(out, received)

LEMMA OutputDelivers ==
    ASSUME TypeOK, InPlace
    PROVE  OutputFollows
<1> SUFFICES ASSUME phase = "open" PROVE Channel!Delivers(out, received)
  BY DEF OutputFollows
<1>1. /\ out \in Seq(Byte) /\ sanitizeLookback \in Seq(Byte)
      /\ byteLookback \in Seq(Byte) /\ received \in Seq(Byte)
  BY DEF TypeOK
<1> DEFINE text == (out \o sanitizeLookback) \o byteLookback
<1>2. /\ Len(text) = Len(out) + Len(sanitizeLookback) + Len(byteLookback)
      /\ \A i \in 1..Len(out) : text[i] = out[i]
  BY <1>1
<1>3. /\ Len(text) = Len(received)
      /\ \A i \in 1..Len(received) : text[i] \in {received[i], Mask}
  BY DEF InPlace, MaskOf
<1> HIDE DEF text
<1>4. Len(out) \in Nat /\ Len(sanitizeLookback) \in Nat /\ Len(byteLookback) \in Nat
  BY <1>1
<1>5. Len(out) <= Len(received)
  BY <1>2, <1>3, <1>4
<1>6. \A i \in 1..Len(out) : out[i] \in {received[i], Mask}
  BY <1>2, <1>3, <1>4, <1>5
<1>7. QED
  BY <1>5, <1>6 DEF Channel!Delivers

LEMMA ChannelInit == Init => Channel!Init
  BY DEF Init, Channel!Init

LEMMA ChannelTransform ==
    ASSUME IInv, IInv', NEW chunk \in Chunks, Transform(chunk)
    PROVE  Channel!Write \/ Channel!Fail
<1>1. phase = "open" /\ options' = options /\ received' = received \o chunk
  BY DEF Transform
<1>2. /\ out \in Seq(Byte) /\ received \in Seq(Byte) /\ chunk \in Seq(Byte)
      /\ out' \in Seq(Byte) /\ received' \in Seq(Byte) /\ Lookback \in Nat
  <2>1. chunk \in Seq(Byte \ {Mask})
    BY ByteGuardAssumption DEF ByteGuardAssumption
  <2>2. chunk \in Seq(Byte)
    BY <2>1, SeqMonotonic
  <2>3. QED
    BY <2>2, StagesAssumption DEF IInv, TypeOK, StagesAssumption
<1>3. Channel!Extends(received', received)
  BY <1>1, <1>2, ExtendsConcat, Zenon
<1>4. \/ phase' = "errored" /\ out' = out
      \/ phase' = "open" /\ out' = out \o Done(chunk)
  BY DEF Transform, Whole, Raw, Mid, Buffer, Ready, Done
<1>5. CASE phase' = "errored" /\ out' = out
  BY <1>1, <1>3, <1>5 DEF Channel!Fail, Flags, Both
<1>6. CASE phase' = "open" /\ out' = out \o Done(chunk)
  <2>1. Done(chunk) \in Seq(Byte)
    BY <1>1, <1>2, TransformStages
  <2>2. Channel!Extends(out', out)
    BY <1>2, <1>6, <2>1, ExtendsConcat, Zenon
  <2>3. Channel!Delivers(out', received')
    <3>1. TypeOK' /\ InPlace' => OutputFollows'
      BY OutputDelivers, PTL
    <3>2. QED
      BY <1>6, <3>1 DEF IInv, OutputFollows
  <2>4. Len(out') + (IF Flags THEN Lookback ELSE 0) <= Len(received') \/ out' = out
    <3>1. Len(out) <= Len(out')
      BY <2>2 DEF Channel!Extends
    <3>2. CASE ~Flags
      BY <1>2, <2>3, <3>2 DEF Channel!Delivers
    <3>3. CASE Flags /\ Len(received') > Lookback
      BY <1>1, <1>2, <1>6, <3>3 DEF IInv, WindowKept, Flags
    <3>4. CASE Flags /\ ~(Len(received') > Lookback)
      <4>1. Len(out') <= 0
        BY <1>1, <1>2, <1>6, <3>4 DEF IInv, WindowKept, Flags
      <4>2. out' = <<>> /\ out = <<>>
        BY <1>2, <3>1, <4>1, EmptyText
      <4>3. QED
        BY <4>2
    <3>5. QED
      BY <3>2, <3>3, <3>4
  <2>5. QED
    BY <1>1, <1>3, <1>6, <2>2, <2>3, <2>4 DEF Channel!Write, Flags, Both
<1>7. QED
  BY <1>4, <1>5, <1>6

LEMMA Thrice ==
    ASSUME NEW x \in Seq(Byte), NEW y \in Seq(Byte), NEW z \in Seq(Byte), NEW t,
           t = (x \o y) \o z
    PROVE  /\ t \in Seq(Byte) /\ Len(t) = Len(x) + Len(y) + Len(z)
           /\ \A k \in 1..Len(x) : t[k] = x[k]
           /\ \A k \in 1..Len(y) : t[Len(x) + k] = y[k]
           /\ \A k \in 1..Len(z) : t[Len(x) + Len(y) + k] = z[k]
OBVIOUS

LEMMA SwappedAt ==
    ASSUME NEW r \in Seq(Byte), NEW c \in 0..Len(r), NEW a \in 0..c
    PROVE  LET s == Channel!Swapped(r, a, c)
           IN  /\ s \in Seq(Byte) /\ Len(s) = Len(r)
               /\ \A k \in 1..a : s[k] = r[k]
               /\ \A k \in 1..(Len(r) - c) : s[a + k] = r[c + k]
               /\ \A k \in 1..(c - a) : s[a + (Len(r) - c) + k] = r[a + k]
<1> DEFINE x == SubSeq(r, 1, a)
           y == SubSeq(r, c + 1, Len(r))
           z == SubSeq(r, a + 1, c)
<1>1. /\ x \in Seq(Byte) /\ Len(x) = a /\ \A k \in 1..a : x[k] = r[k]
  OBVIOUS
<1>2. /\ y \in Seq(Byte) /\ Len(y) = Len(r) - c /\ \A k \in 1..(Len(r) - c) : y[k] = r[c + k]
  OBVIOUS
<1>3. /\ z \in Seq(Byte) /\ Len(z) = c - a /\ \A k \in 1..(c - a) : z[k] = r[a + k]
  OBVIOUS
<1> DEFINE s == Channel!Swapped(r, a, c)
<1>4. s = (x \o y) \o z
  BY DEF Channel!Swapped
<1> HIDE DEF x, y, z, s
<1>5. /\ s \in Seq(Byte) /\ Len(s) = Len(x) + Len(y) + Len(z)
      /\ \A k \in 1..Len(x) : s[k] = x[k]
      /\ \A k \in 1..Len(y) : s[Len(x) + k] = y[k]
      /\ \A k \in 1..Len(z) : s[Len(x) + Len(y) + k] = z[k]
  <2>1. x \in Seq(Byte) /\ y \in Seq(Byte) /\ z \in Seq(Byte)
    BY <1>1, <1>2, <1>3
  <2>2. QED
    BY <1>4, <2>1, Thrice
<1>6. a + (Len(r) - c) + (c - a) = Len(r)
  OBVIOUS
<1>8. /\ s \in Seq(Byte) /\ Len(s) = Len(r) /\ \A k \in 1..a : s[k] = r[k]
      /\ \A k \in 1..(Len(r) - c) : s[a + k] = r[c + k]
      /\ \A k \in 1..(c - a) : s[a + (Len(r) - c) + k] = r[a + k]
  BY <1>1, <1>2, <1>3, <1>5, <1>6
<1>7. QED
  BY <1>8 DEF s

(* The redactor's tail before what the sanitiser held is the swapped rest. *)
LEMMA SwappedRest ==
    ASSUME NEW o \in Seq(Byte), NEW h \in Seq(Byte), NEW b \in Seq(Byte), NEW r \in Seq(Byte),
           MaskOf((o \o h) \o b, r),
           NEW t \in Seq(Byte), MaskOf(t, b), NEW d \in Seq(Byte), MaskOf(d, h),
           NEW c, c = Len(o) + Len(h)
    PROVE  LET s == Channel!Swapped(r, Len(o), c)
           IN  /\ c \in Len(o)..Len(r) /\ Len((o \o t) \o d) = Len(r)
               /\ Channel!Delivers((o \o t) \o d, s) /\ Channel!Delivers(o \o t, s)
<1> DEFINE s == Channel!Swapped(r, Len(o), c)
           w == (o \o h) \o b
           u == (o \o t) \o d
<1>1. /\ Len(o) \in Nat /\ Len(h) \in Nat /\ Len(b) \in Nat /\ Len(r) \in Nat
      /\ Len(t) = Len(b) /\ Len(d) = Len(h)
  BY DEF MaskOf
<1>2. /\ Len(w) = Len(o) + Len(h) + Len(b)
      /\ \A k \in 1..Len(o) : w[k] = o[k]
      /\ \A k \in 1..Len(h) : w[Len(o) + k] = h[k]
      /\ \A k \in 1..Len(b) : w[Len(o) + Len(h) + k] = b[k]
  BY Thrice
<1>3. /\ Len(u) = Len(o) + Len(t) + Len(d)
      /\ \A k \in 1..Len(o) : u[k] = o[k]
      /\ \A k \in 1..Len(t) : u[Len(o) + k] = t[k]
      /\ \A k \in 1..Len(d) : u[Len(o) + Len(t) + k] = d[k]
  BY Thrice
<1>4. /\ o \o t \in Seq(Byte) /\ Len(o \o t) = Len(o) + Len(t)
      /\ \A k \in 1..Len(o \o t) : (o \o t)[k] = u[k]
  <2>1. \A x, y \in Seq(Byte) : /\ x \o y \in Seq(Byte) /\ Len(x \o y) = Len(x) + Len(y)
                                /\ \A k \in 1..Len(x) : (x \o y)[k] = x[k]
    OBVIOUS
  <2>2. QED
    BY <2>1, Zenon
<1>5. Len(w) = Len(r) /\ \A k \in 1..Len(r) : w[k] \in {r[k], Mask}
  BY DEF MaskOf
<1> HIDE DEF w, u, s
<1>6. /\ c \in 0..Len(r) /\ Len(o) \in 0..c /\ c \in Len(o)..Len(r)
      /\ Len(r) - c = Len(b) /\ c - Len(o) = Len(h) /\ Len(u) = Len(r)
  BY <1>1, <1>2, <1>3, <1>5
<1>7. /\ Len(s) = Len(r)
      /\ \A k \in 1..Len(o) : s[k] = r[k]
      /\ \A k \in 1..Len(b) : s[Len(o) + k] = r[c + k]
      /\ \A k \in 1..Len(h) : s[Len(o) + Len(b) + k] = r[Len(o) + k]
  <2>1. /\ Len(s) = Len(r)
        /\ \A k \in 1..Len(o) : s[k] = r[k]
        /\ \A k \in 1..(Len(r) - c) : s[Len(o) + k] = r[c + k]
        /\ \A k \in 1..(c - Len(o)) : s[Len(o) + (Len(r) - c) + k] = r[Len(o) + k]
    BY <1>6, SwappedAt DEF s
  <2>2. QED
    BY <1>6, <2>1
<1>8. ASSUME NEW k \in 1..Len(u) PROVE u[k] \in {s[k], Mask}
  <2>1. CASE k \in 1..Len(o)
    <3>1. k \in 1..Len(r)
      BY <1>1, <1>6, <2>1
    <3>2. QED
      BY <1>2, <1>3, <1>5, <1>7, <2>1, <3>1
  <2>2. CASE k \in (Len(o) + 1)..(Len(o) + Len(b))
    <3> DEFINE n == k - Len(o)
    <3>1. n \in 1..Len(b) /\ k = Len(o) + n /\ c + n \in 1..Len(r)
      BY <1>1, <1>6, <2>2
    <3> HIDE DEF n
    <3>2. u[k] = t[n] /\ t[n] \in {b[n], Mask} /\ s[k] = r[c + n]
      BY <1>1, <1>3, <1>7, <3>1 DEF MaskOf
    <3>3. w[c + n] = b[n] /\ w[c + n] \in {r[c + n], Mask}
      BY <1>2, <1>5, <3>1
    <3>4. QED
      BY <3>2, <3>3
  <2>3. CASE ~(k <= Len(o) + Len(b))
    <3> DEFINE n == k - (Len(o) + Len(b))
    <3>1. n \in 1..Len(h) /\ k = Len(o) + Len(b) + n /\ Len(o) + n \in 1..Len(r)
      BY <1>1, <1>6, <1>3, <2>3
    <3> HIDE DEF n
    <3>2. u[k] = d[n] /\ d[n] \in {h[n], Mask} /\ s[k] = r[Len(o) + n]
      BY <1>1, <1>3, <1>7, <3>1 DEF MaskOf
    <3>3. w[Len(o) + n] = h[n] /\ w[Len(o) + n] \in {r[Len(o) + n], Mask}
      BY <1>2, <1>5, <3>1
    <3>4. QED
      BY <3>2, <3>3
  <2>4. QED
    BY <1>1, <2>1, <2>2, <2>3
<1>9. Channel!Delivers(u, s)
  BY <1>6, <1>7, <1>8 DEF Channel!Delivers
<1>10. Channel!Delivers(o \o t, s)
  <2>1. Len(o \o t) <= Len(s)
    BY <1>1, <1>4, <1>6, <1>7
  <2>2. \A k \in 1..Len(o \o t) : k \in 1..Len(u)
    BY <1>1, <1>3, <1>4
  <2>3. QED
    BY <1>4, <1>8, <2>1, <2>2 DEF Channel!Delivers
<1>11. QED
  BY <1>6, <1>9, <1>10 DEF s, u

LEMMA ChannelFlush ==
    ASSUME IInv, IInv', Flush
    PROVE  Channel!Close \/ Channel!Fail
<1> DEFINE tail == RedactStage(byteLookback)
           held == SanitizeStage(sanitizeLookback)
           c == Len(out) + Len(sanitizeLookback)
<1>1. /\ phase = "open" /\ options' = options /\ received' = received
      /\ \/ phase' = "errored" /\ out' = out
         \/ /\ phase' = "errored" /\ out' = out \o tail
            /\ held # sanitizeLookback
         \/ phase' = "closed" /\ out' = (out \o tail) \o held
  BY DEF Flush, RecordIf
<1>2. /\ out \in Seq(Byte) /\ received \in Seq(Byte) /\ out' \in Seq(Byte)
      /\ byteLookback \in Seq(Byte) /\ sanitizeLookback \in Seq(Byte)
      /\ options \in OptionSets
  BY DEF IInv, TypeOK
<1>3. /\ tail \in Seq(Byte) /\ held \in Seq(Byte)
      /\ MaskOf(tail, byteLookback) /\ MaskOf(held, sanitizeLookback)
  BY <1>2, StageMasks
<1>4. MaskOf((out \o sanitizeLookback) \o byteLookback, received)
  BY <1>1 DEF IInv, InPlace
<1>5. Channel!Extends(received', received)
  BY <1>1, <1>2, ExtendsConcat, Zenon
<1>6. held # sanitizeLookback /\ ~Both => tail = <<>>
  BY DEF IInv, BufferInv, Both, SanitizeStage, RedactStage
<1> HIDE DEF tail, held
<1>7. LET s == Channel!Swapped(received, Len(out), c)
      IN  /\ c \in Len(out)..Len(received) /\ Len((out \o tail) \o held) = Len(received)
          /\ Channel!Delivers((out \o tail) \o held, s) /\ Channel!Delivers(out \o tail, s)
  BY <1>2, <1>3, <1>4, SwappedRest, Zenon
<1> HIDE DEF c
<1>8. out \o <<>> = out
  BY <1>2, EmptyConcat, Zenon
<1>9. CASE phase' = "errored" /\ out' = out
  BY <1>1, <1>5, <1>9 DEF Channel!Fail, Flags, Both
<1>10. CASE phase' = "errored" /\ out' = out \o tail /\ held # sanitizeLookback
  <2>1. CASE ~Both
    BY <1>6, <1>8, <1>9, <1>10, <2>1
  <2>2. CASE Both
    <3>1. Channel!Extends(out', out)
      BY <1>2, <1>3, <1>10, ExtendsConcat, Zenon
    <3>2. Channel!DeliverRest
      BY <1>1, <1>7, <1>10, <2>2, <3>1 DEF Channel!DeliverRest
    <3>3. QED
      BY <1>1, <1>10, <2>2, <3>2 DEF Channel!Fail, Flags, Both
  <2>3. QED
    BY <2>1, <2>2
<1>11. CASE phase' = "closed" /\ out' = (out \o tail) \o held
  <2>1. out' = out \o (tail \o held) /\ tail \o held \in Seq(Byte)
    <3>1. (out \o tail) \o held = out \o (tail \o held)
      BY SMTT(30), <1>2, <1>3
    <3>2. tail \o held \in Seq(Byte)
      BY <1>3, ConcatType, Zenon
    <3>3. QED
      BY <1>11, <3>1, <3>2, Zenon
  <2>2. Channel!Extends(out', out)
    BY <1>2, <2>1, ExtendsConcat, Zenon
  <2>3. Len(out') = Len(received)
    BY <1>7, <1>11
  <2>4. Channel!DeliverRest
    <3>1. CASE ~Both
      <4>1. MaskOf(out', received')
        BY <1>1, <1>11, <3>1 DEF IInv, InPlace, Both
      <4>2. Channel!Delivers(out', received)
        BY <1>1, <1>2, <4>1 DEF MaskOf, Channel!Delivers
      <4>3. QED
        BY <1>1, <2>2, <3>1, <4>2 DEF Channel!DeliverRest
    <3>2. CASE Both
      BY <1>1, <1>7, <1>11, <2>2, <3>2 DEF Channel!DeliverRest
    <3>3. QED
      BY <3>1, <3>2
  <2>5. QED
    BY <1>1, <1>11, <2>3, <2>4 DEF Channel!Close, Flags, Both
<1>12. QED
  BY <1>1, <1>9, <1>10, <1>11

(* A byte guard implements the channel: it delivers the stream in order,   *)
(* each byte as it was or masked, a window behind, and all of it on a      *)
(* normal close; with both flags the last two parts of it change places.   *)
THEOREM ImplementsChannel == Spec => ChannelSpec
<1>1. IInv /\ IInv' /\ [Next]_vars
        => [Channel!Write \/ Channel!Close \/ Channel!Fail]_(Channel!chan)
  <2> SUFFICES ASSUME IInv, IInv', [Next]_vars
               PROVE  \/ Channel!Write \/ Channel!Close \/ Channel!Fail
                      \/ UNCHANGED Channel!chan
    OBVIOUS
  <2>1. CASE Flush
    BY <2>1, ChannelFlush
  <2>2. CASE Abort
    <3>1. Channel!Extends(received, received)
      BY ExtendsConcat DEF IInv, TypeOK, Channel!Extends
    <3>2. QED
      BY <2>2, <3>1 DEF Abort, Channel!Fail, Flags, Both
  <2>3. ASSUME NEW chunk \in Chunks, Transform(chunk)
        PROVE  Channel!Write \/ Channel!Fail
    BY <2>3, ChannelTransform
  <2>4. CASE UNCHANGED vars
    BY <2>4 DEF vars, Channel!chan, Flags, Both
  <2>5. QED
    BY <2>1, <2>2, <2>3, <2>4 DEF Next
<1>2. QED
  BY <1>1, ChannelInit, Invariance, PTL DEF Spec, ChannelSpec, Channel!Spec

-----------------------------------------------------------------------------
(* The records and the summary, the size of the redactor's buffer, and the  *)
(* heads of the keys that chunks and cuts go through.                       *)

(* The counter of the redactor, and the counts the summary reports.         *)
LEMMA CountOfIs == \A r, vs : CountOf(r, vs) = HowMany(vs, {r})
<1>1. ASSUME NEW r, NEW vs PROVE CountOf(r, vs) = HowMany(vs, {r})
  <2>1. {i \in DOMAIN vs : vs[i] = r} = Where(vs, {r})
    BY DEF Where
  <2>2. QED
    BY <2>1 DEF CountOf, HowMany
<1>2. QED
  BY <1>1

(* Every record is of one of the two rules.                                 *)
LEMMA CountAll ==
    ASSUME NEW vs \in Seq(Rules)
    PROVE  CountOf("redact_secrets", vs) + CountOf("sanitize_errors", vs) = Len(vs)
<1> DEFINE A == Where(vs, {"redact_secrets"})
           B == Where(vs, {"sanitize_errors"})
<1>1. IsFiniteSet(A) /\ IsFiniteSet(B)
  BY WhereFinite
<1>2. A \cap B = {} /\ A \cup B = 1..Len(vs)
  BY DEF Where, Rules
<1>3. Cardinality(A \cup B) = Cardinality(A) + Cardinality(B)
  <2>1. Cardinality(A \cup B) = Cardinality(A) + Cardinality(B) - Cardinality(A \cap B)
    BY <1>1, FS_Union
  <2>2. Cardinality(A) \in Nat /\ Cardinality(B) \in Nat /\ Cardinality(A \cap B) = 0
    BY <1>1, <1>2, FS_CardinalityType, FS_EmptySet
  <2> HIDE DEF A, B
  <2>3. QED
    BY <2>1, <2>2
<1>4. Cardinality(1..Len(vs)) = Len(vs)
  <2>1. Len(vs) \in Nat
    OBVIOUS
  <2>2. PICK n \in Nat : n = Len(vs)
    BY <2>1
  <2>3. Cardinality(1..n) = n
    BY FS_Interval
  <2>4. QED
    BY <2>2, <2>3
<1>5. QED
  BY <1>2, <1>3, <1>4, CountOfIs DEF HowMany

Agreed ==
    /\ redactions = HowMany(violations, {"redact_secrets"})
    /\ phase = "closed" <=> summary # {}
    /\ \A s \in summary : s = Summary(violations, redactions)

LEMMA WhenTyped ==
    \A a \in BOOLEAN : /\ RecordIf(a, "redact_secrets") \in Seq(Rules)
                       /\ RecordIf(a, "sanitize_errors") \in Seq(Rules)
<1>1. "redact_secrets" \in Rules /\ "sanitize_errors" \in Rules
  BY DEF Rules
<1>2. \A r \in Rules : <<r>> \in Seq(Rules) /\ <<>> \in Seq(Rules)
  OBVIOUS
<1>3. QED
  BY <1>1, <1>2 DEF RecordIf

LEMMA RecordCounts ==
    ASSUME TypeOK, redactions = HowMany(violations, {"redact_secrets"}),
           NEW more \in Seq(Rules), Record(more)
    PROVE  redactions' = HowMany(violations', {"redact_secrets"})
<1>1. violations' = violations \o more /\ redactions' = redactions + HowMany(more, {"redact_secrets"})
  BY CountOfIs DEF Record, CountOf
<1>2. violations \in Seq(Rules)
  BY DEF TypeOK
<1>3. HowMany(violations \o more, {"redact_secrets"})
          = HowMany(violations, {"redact_secrets"}) + HowMany(more, {"redact_secrets"})
  BY <1>2, CountConcat
<1>4. QED
  BY <1>1, <1>3

(* Both handlers append what they found to the records.                     *)
LEMMA HandlerRecords ==
    ASSUME TypeOK, (\E chunk \in Chunks : Transform(chunk)) \/ Flush
    PROVE  \E more \in Seq(Rules) : Record(more)
<1>1. ASSUME NEW a \in BOOLEAN, NEW b \in BOOLEAN
      PROVE  /\ RecordIf(a, "redact_secrets") \in Seq(Rules)
             /\ RecordIf(a, "redact_secrets") \o RecordIf(b, "sanitize_errors") \in Seq(Rules)
  <2>1. \A q, t \in Seq(Rules) : q \o t \in Seq(Rules)
    OBVIOUS
  <2>2. QED
    BY <2>1, WhenTyped
<1>2. CASE \E chunk \in Chunks : Transform(chunk)
  <2>1. PICK chunk \in Chunks : Transform(chunk)
    BY <1>2
  <2>2. \/ Record(RecordIf(Mid(chunk) # Raw(chunk), "redact_secrets"))
        \/ Record(RecordIf(Mid(chunk) # Raw(chunk), "redact_secrets")
                      \o RecordIf(Done(chunk) # Ready(chunk), "sanitize_errors"))
    BY <2>1 DEF Transform, Whole, Raw, Mid, Buffer, Ready, Done
  <2>3. QED
    BY <1>1, <2>2
<1>3. CASE Flush
  <2>1. \/ Record(RecordIf(RedactStage(byteLookback) # byteLookback, "redact_secrets"))
        \/ Record(RecordIf(RedactStage(byteLookback) # byteLookback, "redact_secrets")
                      \o RecordIf(SanitizeStage(sanitizeLookback) # sanitizeLookback, "sanitize_errors"))
    BY <1>3 DEF Flush
  <2>2. QED
    BY <1>1, <2>1
<1>4. QED
  BY <1>2, <1>3

LEMMA AgreedStep == ASSUME TypeOK, Agreed, [Next]_vars PROVE Agreed'
<1>1. CASE \E chunk \in Chunks : Transform(chunk)
  <2>1. redactions' = HowMany(violations', {"redact_secrets"})
    BY <1>1, HandlerRecords, RecordCounts DEF Agreed
  <2>2. phase = "open" /\ phase' # "closed" /\ summary' = summary
    BY <1>1 DEF Transform
  <2>3. QED
    BY <2>1, <2>2 DEF Agreed
<1>2. CASE Flush
  <2>1. redactions' = HowMany(violations', {"redact_secrets"})
    BY <1>2, HandlerRecords, RecordCounts DEF Agreed
  <2>2. /\ phase = "open"
        /\ \/ phase' = "errored" /\ summary' = summary
           \/ phase' = "closed" /\ summary' = {Summary(violations', redactions')}
    BY <1>2 DEF Flush
  <2>3. QED
    BY <2>1, <2>2 DEF Agreed
<1>3. CASE Abort
  BY <1>3 DEF Abort, Agreed
<1>4. CASE UNCHANGED vars
  BY <1>4 DEF vars, Agreed
<1>5. QED
  BY <1>1, <1>2, <1>3, <1>4 DEF Next

(* onFinish hears of a flush that ran to its end and of nothing else, and   *)
(* what it hears agrees with the list of violations.                        *)
THEOREM SummaryAgreesCorrect == Spec => []SummaryAgrees
<1>1. Init => IInv /\ Agreed
  BY InitInv, CountEmpty DEF Init, Agreed
<1>2. IInv /\ Agreed /\ [Next]_vars => IInv' /\ Agreed'
  BY StepInv, AgreedStep DEF IInv
<1>3. IInv /\ Agreed => SummaryAgrees
  <2>1. SUFFICES ASSUME IInv, Agreed PROVE SummaryAgrees
    OBVIOUS
  <2>2. violations \in Seq(Rules) /\ redactions = CountOf("redact_secrets", violations)
    BY <2>1, CountOfIs DEF IInv, TypeOK, Agreed
  <2>3. ASSUME NEW s \in summary
        PROVE  /\ s.violations = Len(violations)
               /\ s.redactions = s.countsByRule["redact_secrets"]
               /\ s.violations = s.countsByRule["redact_secrets"]
                                   + s.countsByRule["sanitize_errors"]
    <3>1. s = Summary(violations, redactions)
      BY <2>1 DEF Agreed
    <3>2. /\ s.violations = Len(violations) /\ s.redactions = redactions
          /\ s.countsByRule["redact_secrets"] = CountOf("redact_secrets", violations)
          /\ s.countsByRule["sanitize_errors"] = CountOf("sanitize_errors", violations)
      BY <3>1 DEF Summary, Rules
    <3>3. QED
      BY <2>2, <3>2, CountAll
  <2>4. QED
    BY <2>1, <2>2, <2>3 DEF SummaryAgrees, Agreed
<1>4. QED
  BY <1>1, <1>2, <1>3, PTL DEF Spec
-----------------------------------------------------------------------------
(* A chunk has no masks, and the redactor's buffer therefore none either.   *)
LEMMA ChunkUnmarked ==
    ASSUME NEW chunk \in Chunks PROVE chunk \in Seq(Byte) /\ ~Marked(chunk)
<1>1. chunk \in Seq(Byte \ {Mask})
  BY ByteGuardAssumption DEF ByteGuardAssumption
<1>2. chunk \in Seq(Byte)
  BY <1>1, SeqMonotonic
<1>3. \A i \in DOMAIN chunk : chunk[i] \in Byte \ {Mask}
  BY <1>1
<1>4. QED
  BY <1>2, <1>3 DEF Marked

(* The rules that may be on record, and what can be seen of them. *)
RulesOn ==
    {r \in Rules : IF r = "redact_secrets" THEN options.redactSecrets
                                           ELSE options.sanitizeErrors}

Evident ==
    /\ ~Marked(byteLookback)
    /\ Marked(out \o sanitizeLookback) => violations # <<>>
    /\ violations # <<>> /\ phase # "errored" => Marked(out \o sanitizeLookback)
    /\ violations \in Seq(RulesOn)

(* The records of one handler: of a stage that is on, and changed something. *)
LEMMA RecordsOf ==
    ASSUME NEW raw, NEW ready, NEW first, NEW second,
           first = RecordIf(RedactStage(raw) # raw, "redact_secrets"),
           second = RecordIf(SanitizeStage(ready) # ready, "sanitize_errors")
    PROVE  /\ first \in Seq(RulesOn) /\ second \in Seq(RulesOn)
           /\ first \o second \in Seq(RulesOn)
           /\ first # <<>> <=> RedactStage(raw) # raw
           /\ first \o second # <<>> <=> RedactStage(raw) # raw \/ SanitizeStage(ready) # ready
<1> DEFINE a == RedactStage(raw) # raw
           b == SanitizeStage(ready) # ready
<1>1. /\ a => "redact_secrets" \in RulesOn
      /\ b => "sanitize_errors" \in RulesOn
  BY DEF RedactStage, SanitizeStage, RulesOn, Rules
<1>2. first = (IF a THEN <<"redact_secrets">> ELSE <<>>)
      /\ second = (IF b THEN <<"sanitize_errors">> ELSE <<>>)
  BY DEF RecordIf
<1> HIDE DEF a, b
<1>3. \A r \in RulesOn : <<r>> \in Seq(RulesOn) /\ <<>> \in Seq(RulesOn) /\ <<r>> # <<>>
  OBVIOUS
<1>4. <<>> \in Seq(RulesOn)
  OBVIOUS
<1>5. first \in Seq(RulesOn) /\ second \in Seq(RulesOn)
  BY <1>1, <1>2, <1>3, <1>4
<1>6. (first # <<>> <=> a) /\ (second # <<>> <=> b)
  BY <1>2
<1>7. first \o second \in Seq(RulesOn)
      /\ (first \o second # <<>> <=> first # <<>> \/ second # <<>>)
  BY <1>5
<1>8. QED
  BY <1>5, <1>6, <1>7 DEF a, b

LEMMA RecordsGrow ==
    ASSUME violations \in Seq(RulesOn), NEW more \in Seq(RulesOn), Record(more)
    PROVE  /\ violations' \in Seq(RulesOn)
           /\ violations' # <<>> <=> violations # <<>> \/ more # <<>>
  BY DEF Record

LEMMA EvidentTransform ==
    ASSUME IInv, Evident, NEW chunk \in Chunks, Transform(chunk)
    PROVE  Evident'
<1> DEFINE whole == RedactIn(chunk)
           raw == Before(whole, RedactCut(whole))
           mid == RedactStage(raw)
           buffer == SanitizeIn(mid)
           ready == Before(buffer, SanitizeCut(buffer))
           done == SanitizeStage(ready)
           kept == After(buffer, SanitizeCut(buffer))
           rest == After(whole, RedactCut(whole))
           first == RecordIf(mid # raw, "redact_secrets")
           second == RecordIf(done # ready, "sanitize_errors")
<1>1. /\ byteLookback \in Seq(Byte) /\ sanitizeLookback \in Seq(Byte) /\ out \in Seq(Byte)
      /\ chunk \in Seq(Byte) /\ ~Marked(chunk) /\ ~Marked(byteLookback)
      /\ (~options.sanitizeErrors => sanitizeLookback = <<>>)
  BY ChunkUnmarked DEF IInv, TypeOK, BufferInv, Evident
<1>2. whole \in Seq(Byte) /\ ~Marked(whole)
  <2>1. byteLookback \o chunk \in Seq(Byte) /\ ~Marked(byteLookback \o chunk)
    BY <1>1, ConcatType, MarkedConcat, Zenon
  <2>2. QED
    BY <1>1, <2>1 DEF RedactIn
<1> HIDE DEF whole
<1>3. RedactCut(whole) \in 0..Len(whole)
  BY <1>2, RedactEndBound DEF RedactCut
<1>4. raw \in Seq(Byte) /\ rest \in Seq(Byte) /\ raw \o rest = whole
  BY <1>2, <1>3, CutText
<1> HIDE DEF raw, rest
<1>5. ~Marked(raw) /\ ~Marked(rest)
  BY <1>2, <1>4, MarkedConcat
<1>6. mid \in Seq(Byte) /\ MaskOf(mid, raw)
  BY <1>4, StageMasks
<1> HIDE DEF mid
<1>7. Marked(mid) <=> mid # raw
  BY <1>4, <1>5, <1>6, MarkedMask
<1>8. buffer \in Seq(Byte) /\ (Marked(buffer) <=> Marked(sanitizeLookback) \/ Marked(mid))
  <2>1. /\ sanitizeLookback \o mid \in Seq(Byte)
        /\ Marked(sanitizeLookback \o mid) <=> Marked(sanitizeLookback) \/ Marked(mid)
    BY <1>1, <1>6, ConcatType, MarkedConcat, Zenon
  <2>2. ~Marked(<<>>)
    BY DEF Marked
  <2>3. QED
    BY <1>1, <1>6, <2>1, <2>2 DEF SanitizeIn
<1> HIDE DEF buffer
<1>9. SanitizeCut(buffer) \in 0..Len(buffer)
  BY <1>8, SanitizeEndBound DEF SanitizeCut
<1>10. ready \in Seq(Byte) /\ kept \in Seq(Byte) /\ ready \o kept = buffer
  BY <1>8, <1>9, CutText
<1> HIDE DEF ready, kept
<1>11. done \in Seq(Byte) /\ MaskOf(done, ready)
  BY <1>10, StageMasks
<1> HIDE DEF done
<1>12. /\ Marked(done) => Marked(ready) \/ done # ready
       /\ Marked(ready) \/ done # ready => Marked(done)
       /\ Marked(buffer) <=> Marked(ready) \/ Marked(kept)
  BY <1>10, <1>11, MarkedMask, MarkedConcat
<1>13. /\ first \in Seq(RulesOn) /\ first \o second \in Seq(RulesOn)
       /\ (first # <<>> <=> mid # raw)
       /\ (first \o second # <<>> <=> mid # raw \/ done # ready)
  BY RecordsOf DEF mid, done
<1>14. /\ byteLookback' = rest /\ options' = options
       /\ \/ /\ Record(first) /\ phase' = "errored" /\ first # <<>>
             /\ sanitizeLookback' = sanitizeLookback /\ out' = out
          \/ /\ Record(first \o second) /\ sanitizeLookback' = kept
             /\ phase' = "errored" /\ second # <<>> /\ out' = out
          \/ /\ Record(first \o second) /\ sanitizeLookback' = kept
             /\ phase' = "open" /\ out' = out \o done
  BY DEF Transform, whole, raw, mid, buffer, ready, done, kept, rest
<1>15. RulesOn' = RulesOn /\ violations \in Seq(RulesOn) /\ phase = "open"
  BY <1>14 DEF RulesOn, Evident, Transform
<1> HIDE DEF first, second
<1>16. violations # <<>> <=> Marked(out) \/ Marked(sanitizeLookback)
  <2>1. Marked(out \o sanitizeLookback) <=> Marked(out) \/ Marked(sanitizeLookback)
    BY <1>1, MarkedConcat, Zenon
  <2>2. QED
    BY <1>15, <2>1 DEF Evident
<1>17. CASE /\ Record(first) /\ phase' = "errored" /\ first # <<>>
            /\ sanitizeLookback' = sanitizeLookback /\ out' = out
  <2>1. violations' \in Seq(RulesOn) /\ violations' # <<>>
    BY <1>13, <1>15, <1>17, RecordsGrow
  <2>2. QED
    BY <1>5, <1>14, <1>15, <1>17, <2>1 DEF Evident
<1>18. ASSUME Record(first \o second), sanitizeLookback' = kept
       PROVE  /\ violations' \in Seq(RulesOn)
              /\ violations' # <<>> <=> Marked(out) \/ Marked(done) \/ Marked(kept)
  <2>1. /\ violations' \in Seq(RulesOn)
        /\ violations' # <<>> <=> violations # <<>> \/ first \o second # <<>>
    BY <1>13, <1>15, <1>18, RecordsGrow
  <2>2. QED
    BY <1>7, <1>8, <1>12, <1>13, <1>16, <2>1
<1>19. CASE /\ Record(first \o second) /\ sanitizeLookback' = kept
            /\ phase' = "errored" /\ second # <<>> /\ out' = out
  <2>1. Marked(out \o kept) <=> Marked(out) \/ Marked(kept)
    BY <1>1, <1>10, MarkedConcat, Zenon
  <2>2. QED
    BY <1>5, <1>14, <1>15, <1>18, <1>19, <2>1 DEF Evident
<1>20. CASE /\ Record(first \o second) /\ sanitizeLookback' = kept
            /\ phase' = "open" /\ out' = out \o done
  <2>1. Marked((out \o done) \o kept) <=> Marked(out) \/ Marked(done) \/ Marked(kept)
    BY <1>1, <1>10, <1>11, ConcatType, MarkedConcat, Zenon
  <2>2. QED
    BY <1>5, <1>14, <1>15, <1>18, <1>20, <2>1 DEF Evident
<1>21. QED
  BY <1>14, <1>17, <1>19, <1>20

LEMMA EvidentFlush ==
    ASSUME IInv, Evident, Flush
    PROVE  Evident'
<1> DEFINE tail == RedactStage(byteLookback)
           held == SanitizeStage(sanitizeLookback)
           first == RecordIf(tail # byteLookback, "redact_secrets")
           second == RecordIf(held # sanitizeLookback, "sanitize_errors")
<1>1. /\ byteLookback \in Seq(Byte) /\ sanitizeLookback \in Seq(Byte) /\ out \in Seq(Byte)
      /\ ~Marked(byteLookback) /\ ~Marked(<<>>) /\ <<>> \in Seq(Byte)
  BY DEF IInv, TypeOK, Evident, Marked
<1>2. /\ tail \in Seq(Byte) /\ held \in Seq(Byte)
      /\ MaskOf(tail, byteLookback) /\ MaskOf(held, sanitizeLookback)
  BY <1>1, StageMasks
<1>3. /\ first \in Seq(RulesOn) /\ first \o second \in Seq(RulesOn)
      /\ (first # <<>> <=> tail # byteLookback)
      /\ (first \o second # <<>> <=> tail # byteLookback \/ held # sanitizeLookback)
  BY RecordsOf
<1>4. /\ byteLookback' = <<>> /\ options' = options /\ phase = "open"
      /\ \/ /\ Record(first) /\ phase' = "errored" /\ first # <<>>
            /\ sanitizeLookback' = sanitizeLookback /\ out' = out
         \/ /\ Record(first \o second) /\ phase' = "errored" /\ second # <<>>
            /\ sanitizeLookback' = <<>> /\ out' = out \o tail
         \/ /\ Record(first \o second) /\ phase' = "closed"
            /\ sanitizeLookback' = <<>> /\ out' = (out \o tail) \o held
  BY DEF Flush
<1> HIDE DEF tail, held
<1>5. /\ Marked(tail) <=> tail # byteLookback
      /\ Marked(held) <=> Marked(sanitizeLookback) \/ held # sanitizeLookback
  <2>1. (Marked(tail) => tail # byteLookback) /\ (tail # byteLookback => Marked(tail))
    BY <1>1, <1>2, MarkedMask
  <2>2. (Marked(sanitizeLookback) => Marked(held)) /\ (held # sanitizeLookback => Marked(held))
    BY <1>1, <1>2, MarkedMask
  <2>3. QED
    BY <2>1, <2>2
<1> HIDE DEF first, second
<1>6. RulesOn' = RulesOn /\ violations \in Seq(RulesOn)
  BY <1>4 DEF RulesOn, Evident
<1>7. violations # <<>> <=> Marked(out) \/ Marked(sanitizeLookback)
  <2>1. Marked(out \o sanitizeLookback) <=> Marked(out) \/ Marked(sanitizeLookback)
    BY <1>1, MarkedConcat, Zenon
  <2>2. QED
    BY <1>4, <2>1 DEF Evident
<1>8. CASE /\ Record(first) /\ phase' = "errored" /\ first # <<>>
           /\ sanitizeLookback' = sanitizeLookback /\ out' = out
  <2>1. violations' \in Seq(RulesOn) /\ violations' # <<>>
    BY <1>3, <1>6, <1>8, RecordsGrow
  <2>2. QED
    BY <1>1, <1>4, <1>6, <1>8, <2>1 DEF Evident
<1>9. ASSUME Record(first \o second)
      PROVE  /\ violations' \in Seq(RulesOn)
             /\ violations' # <<>> <=> Marked(out) \/ Marked(tail) \/ Marked(held)
  <2>1. /\ violations' \in Seq(RulesOn)
        /\ violations' # <<>> <=> violations # <<>> \/ first \o second # <<>>
    BY <1>3, <1>6, <1>9, RecordsGrow
  <2>2. QED
    BY <1>3, <1>5, <1>7, <2>1
<1>10. CASE /\ Record(first \o second) /\ phase' = "errored" /\ second # <<>>
            /\ sanitizeLookback' = <<>> /\ out' = out \o tail
  <2>1. Marked((out \o tail) \o <<>>) <=> Marked(out) \/ Marked(tail)
    BY <1>1, <1>2, ConcatType, MarkedConcat, Zenon
  <2>2. QED
    BY <1>1, <1>4, <1>6, <1>9, <1>10, <2>1 DEF Evident
<1>11. CASE /\ Record(first \o second) /\ phase' = "closed"
            /\ sanitizeLookback' = <<>> /\ out' = (out \o tail) \o held
  <2>1. Marked(((out \o tail) \o held) \o <<>>) <=> Marked(out) \/ Marked(tail) \/ Marked(held)
    <3>1. out \o tail \in Seq(Byte) /\ (out \o tail) \o held \in Seq(Byte)
      BY <1>1, <1>2, ConcatType, Zenon
    <3>2. Marked(((out \o tail) \o held) \o <<>>) <=> Marked((out \o tail) \o held)
      BY <3>1, EmptyConcat
    <3>3. Marked((out \o tail) \o held) <=> Marked(out \o tail) \/ Marked(held)
      BY <1>2, <3>1, MarkedConcat, Zenon
    <3>4. Marked(out \o tail) <=> Marked(out) \/ Marked(tail)
      BY <1>1, <1>2, MarkedConcat, Zenon
    <3>5. QED
      BY <3>2, <3>3, <3>4
  <2>2. QED
    BY <1>1, <1>4, <1>6, <1>9, <1>11, <2>1 DEF Evident
<1>12. QED
  BY <1>4, <1>8, <1>10, <1>11

LEMMA EvidentStep == ASSUME IInv, Evident, [Next]_vars PROVE Evident'
<1>1. CASE Abort
  <2>1. /\ options' = options /\ byteLookback' = byteLookback /\ out' = out
        /\ sanitizeLookback' = sanitizeLookback /\ violations' = violations
        /\ phase = "open" /\ RulesOn' = RulesOn
    BY <1>1 DEF Abort, RulesOn
  <2>2. QED
    BY <2>1 DEF Evident
<1>2. CASE UNCHANGED vars
  BY <1>2 DEF vars, Evident, RulesOn
<1>3. QED
  BY <1>1, <1>2, EvidentTransform, EvidentFlush DEF Next

(* The list of violations and the masks tell the same story: a byte that    *)
(* was masked downstream is on record, a record means masked bytes unless   *)
(* the hook threw, and a rule that is off records nothing, whatever the     *)
(* patterns, the window and the chunk boundaries are.                       *)
THEOREM MaskingRecordedCorrect == Spec => []MaskingRecorded
<1>1. Init => IInv /\ Evident
  <2>1. SUFFICES ASSUME Init PROVE Evident
    BY InitInv
  <2>2. /\ byteLookback = <<>> /\ out \o sanitizeLookback = <<>> /\ violations = <<>>
    BY <2>1 DEF Init
  <2>3. ~Marked(<<>>) /\ <<>> \in Seq(RulesOn)
    BY DEF Marked
  <2>4. QED
    BY <2>2, <2>3 DEF Evident
<1>2. IInv /\ Evident /\ [Next]_vars => IInv' /\ Evident'
  BY StepInv, EvidentStep
<1>3. IInv /\ Evident => MaskingRecorded
  <2>1. SUFFICES ASSUME IInv, Evident PROVE MaskingRecorded
    OBVIOUS
  <2>2. ASSUME NEW r \in Rules, CountOf(r, violations) > 0
        PROVE  IF r = "redact_secrets" THEN options.redactSecrets ELSE options.sanitizeErrors
    <3>1. violations \in Seq(RulesOn)
      BY <2>1 DEF Evident
    <3>2. HowMany(violations, {r}) # 0
      BY <2>2, CountOfIs
    <3>3. PICK i \in DOMAIN violations : violations[i] \in {r}
      BY <3>1, <3>2, CountNone
    <3>4. violations[i] \in RulesOn
      BY <3>1
    <3>5. QED
      BY <3>3, <3>4 DEF RulesOn
  <2>3. "redact_secrets" \in Rules /\ "sanitize_errors" \in Rules
    BY DEF Rules
  <2>4. QED
    BY <2>1, <2>2, <2>3 DEF MaskingRecorded, Evident, Marked
<1>4. QED
  BY <1>1, <1>2, <1>3, PTL DEF Spec
-----------------------------------------------------------------------------
(* How much is held back. *)
LEMMA HoldBoundedTransform ==
    ASSUME IInv, NEW chunk \in Chunks, Transform(chunk)
    PROVE  HoldBounded'
<1> DEFINE whole == byteLookback \o chunk
           safe == Len(whole) - Lookback
           e == RedactEnd(whole)
<1>1. /\ whole \in Seq(Byte) /\ Len(whole) \in Nat /\ Lookback \in Nat
  BY ChunkUnmarked, ConcatType, StagesAssumption DEF IInv, TypeOK, StagesAssumption
<1>2. CASE ~options.redactSecrets
  <2>1. RedactIn(chunk) = chunk /\ RedactCut(chunk) = Len(chunk)
    BY <1>2 DEF RedactIn, RedactCut
  <2>2. chunk \in Seq(Byte) /\ Len(chunk) \in 0..Len(chunk)
    BY ChunkUnmarked
  <2>3. byteLookback' = After(chunk, Len(chunk))
    BY <2>1 DEF Transform
  <2>4. Len(byteLookback') = 0
    BY <2>2, <2>3, CutText
  <2>5. QED
    BY <1>1, <2>4, Literals DEF HoldBounded
<1>3. CASE options.redactSecrets
  <2>1. byteLookback' = After(whole, e)
    BY <1>3 DEF Transform, RedactIn, RedactCut
  <2> HIDE DEF whole
  <2>2. e \in 0..Len(whole)
    BY <1>1, RedactEndBound
  <2>3. Len(byteLookback') = Len(whole) - e
    BY <1>1, <2>1, <2>2, CutText
  <2>4. CASE safe <= 0
    <3>1. e = 0
      BY <2>4 DEF RedactEnd
    <3>2. QED
      BY <1>1, <2>3, <2>4, <3>1, Literals DEF HoldBounded
  <2>5. CASE ~(safe <= 0)
    <3> DEFINE t == Before(whole, safe)
               h == HoldLength(t)
    <3>1. safe \in 0..Len(whole) /\ t \in Seq(Byte) /\ Len(t) = safe
          /\ \A k \in 1..safe : t[k] = whole[k]
      <4>1. safe \in 0..Len(whole)
        BY <1>1, <2>5
      <4> HIDE DEF safe
      <4>2. QED
        BY <1>1, <4>1, CutText, CutAt
    <3>2. e = safe - h
      BY <2>5 DEF RedactEnd
    <3>3. h \in 0..safe
      BY <3>1, HoldLengthIs
    <3> HIDE DEF t
    <3>4. Len(byteLookback') = Lookback + h
      BY <1>1, <2>3, <3>1, <3>2, <3>3
    <3>5. CASE h < Len(SkLiteral) + SkMin
      BY <1>1, <3>3, <3>4, <3>5, Literals DEF HoldBounded
    <3>6. CASE ~(h < Len(SkLiteral) + SkMin)
      <4> DEFINE i == safe - h + 1
      <4>1. LiteralAt(BearerLiteral, t, i) /\ AllIn(t, i + Len(BearerLiteral), safe, Blank)
        BY <3>1, <3>6, HoldShort
      <4>2. ASSUME NEW k \in 1..h
            PROVE  byteLookback'[k] = t[i + k - 1] /\ i + k - 1 \in 1..safe
        <5>1. /\ k \in 1..(Len(whole) - e) /\ e + k = i + k - 1 /\ i + k - 1 \in 1..safe
          BY <1>1, <3>1, <3>2, <3>3
        <5>2. byteLookback'[k] = whole[e + k]
          BY <1>1, <2>1, <2>2, <5>1, CutAt
        <5>3. QED
          BY <3>1, <5>1, <5>2
      <4>3. i + Len(BearerLiteral) - 1 <= safe
        BY <3>1, <4>1 DEF LiteralAt
      <4>4. LiteralAt(BearerLiteral, byteLookback', 1)
        <5>1. 1 + Len(BearerLiteral) - 1 <= Len(byteLookback')
          BY <1>1, <3>1, <3>3, <3>4, <4>3, Literals
        <5>2. ASSUME NEW k \in 1..Len(BearerLiteral)
              PROVE  byteLookback'[1 + k - 1] = BearerLiteral[k]
          <6>1. k \in 1..h /\ 1 + k - 1 = k
            BY <3>1, <3>3, <4>3, Literals
          <6>2. QED
            BY <4>1, <4>2, <6>1 DEF LiteralAt
        <5>3. QED
          BY <5>1, <5>2 DEF LiteralAt
      <4>5. AllIn(byteLookback', Len(BearerLiteral) + 1, Len(byteLookback') - Lookback, Blank)
        <5>1. Len(byteLookback') - Lookback = h
          BY <1>1, <3>3, <3>4
        <5>2. ASSUME NEW k \in (Len(BearerLiteral) + 1)..h
              PROVE  byteLookback'[k] \in Blank
          <6>1. k \in 1..h /\ i + k - 1 \in (i + Len(BearerLiteral))..safe
            BY <3>1, <3>3, Literals
          <6>2. t[i + k - 1] \in Blank
            BY <4>1, <6>1 DEF AllIn
          <6>3. QED
            BY <4>2, <6>1, <6>2
        <5>3. QED
          BY <5>1, <5>2 DEF AllIn
      <4>6. QED
        BY <4>4, <4>5 DEF HoldBounded
    <3>7. QED
      BY <3>5, <3>6
  <2>6. QED
    BY <2>4, <2>5
<1>4. QED
  BY <1>2, <1>3

(* The redactor's buffer outgrows the window by less than sk- and eight     *)
(* more bytes, for every chunking, except behind a Bearer that only blanks  *)
(* have followed, which nothing bounds.                                     *)
THEOREM HoldBoundedCorrect == Spec => []HoldBounded
<1>1. Init => IInv /\ HoldBounded
  BY InitInv, Literals, StagesAssumption DEF Init, HoldBounded, StagesAssumption
<1>2. IInv /\ HoldBounded /\ [Next]_vars => IInv' /\ HoldBounded'
  <2>1. SUFFICES ASSUME IInv, HoldBounded, [Next]_vars PROVE HoldBounded'
    BY StepInv
  <2>2. CASE Flush \/ Abort
    BY <2>2 DEF Flush, Abort, HoldBounded
  <2>3. CASE UNCHANGED vars
    BY <2>1, <2>3 DEF vars, HoldBounded
  <2>4. CASE \E chunk \in Chunks : Transform(chunk)
    BY <2>1, <2>4, HoldBoundedTransform
  <2>5. QED
    BY <2>1, <2>2, <2>3, <2>4 DEF Next
<1>3. QED
  BY <1>1, <1>2, PTL DEF Spec
-----------------------------------------------------------------------------
(* The heads that begin in the output o are masked there, whatever follows *)
(* the text r received so far.                                             *)
MaskedHead(o, i) == HeadEnd(i) <= Len(o) /\ \A k \in i..HeadEnd(i) : o[k] = Mask
Continues(t, r) == Len(r) <= Len(t) /\ \A k \in 1..Len(r) : t[k] = r[k]
HeadsMasked(o, r) ==
    \A t \in Seq(Byte), i \in Nat :
        Continues(t, r) /\ KeyHead(t, i) => i > Len(o) \/ MaskedHead(o, i)

(* A masked head stays one when text is appended, or put in front. *)
LEMMA HeadsFront ==
    ASSUME NEW o \in Seq(Byte), NEW s \in Seq(Byte), NEW i \in Nat \ {0}, MaskedHead(o, i)
    PROVE  MaskedHead(o \o s, i)
<1>1. HeadEnd(i) \in Int
  <2>1. Len(SkLiteral) \in Nat /\ SkMin \in Nat
    BY Literals
  <2>2. QED
    BY <2>1 DEF HeadEnd
<1>2. \A k \in i..HeadEnd(i) : k \in 1..Len(o)
  BY <1>1 DEF MaskedHead
<1>3. Len(o \o s) >= Len(o) /\ \A k \in 1..Len(o) : (o \o s)[k] = o[k]
  OBVIOUS
<1>4. HeadEnd(i) <= Len(o \o s)
  BY <1>1, <1>3 DEF MaskedHead
<1>5. QED
  BY <1>2, <1>3, <1>4 DEF MaskedHead

LEMMA HeadsBehind ==
    ASSUME NEW o \in Seq(Byte), NEW s \in Seq(Byte), NEW i \in Nat, i > Len(o),
           MaskedHead(s, i - Len(o))
    PROVE  MaskedHead(o \o s, i)
<1> DEFINE c == Len(o)
<1>1. HeadEnd(i) \in Int /\ HeadEnd(i - c) = HeadEnd(i) - c /\ c \in Nat
  <2>1. Len(SkLiteral) \in Nat /\ SkMin \in Nat
    BY Literals
  <2>2. QED
    BY <2>1 DEF HeadEnd
<1>2. HeadEnd(i) - c <= Len(s) /\ \A k \in (i - c)..(HeadEnd(i) - c) : s[k] = Mask
  BY <1>1 DEF MaskedHead
<1>3. \A k \in i..HeadEnd(i) : /\ k - c \in (i - c)..(HeadEnd(i) - c) /\ k - c \in 1..Len(s)
                              /\ c + (k - c) = k
  BY <1>1, <1>2
<1>4. Len(o \o s) = c + Len(s) /\ \A k \in 1..Len(s) : (o \o s)[c + k] = s[k]
  OBVIOUS
<1>5. HeadEnd(i) <= Len(o \o s)
  BY <1>1, <1>2, <1>4
<1> HIDE DEF c
<1>6. \A k \in i..HeadEnd(i) : (o \o s)[k] = Mask
  BY <1>2, <1>3, <1>4
<1>7. QED
  BY <1>5, <1>6 DEF MaskedHead

LEMMA ConcatAt ==
    \A t, u \in Seq(Byte) :
        /\ t \o u \in Seq(Byte) /\ Len(t \o u) = Len(t) + Len(u)
        /\ \A k \in 1..Len(t) : (t \o u)[k] = t[k]
        /\ \A k \in 1..Len(u) : (t \o u)[Len(t) + k] = u[k]
OBVIOUS

LEMMA SameText ==
    \A t, u \in Seq(Byte) :
        Len(t) = Len(u) /\ (\A k \in 1..Len(t) : t[k] = u[k]) => t = u
OBVIOUS

(* What the redactor does with a chunk keeps the heads masked that begin in *)
(* the output, and keeps in the buffer all that is not there yet.          *)
LEMMA HeadStep ==
    ASSUME NEW o \in Seq(Byte), NEW r \in Seq(Byte), NEW more \in Seq(Byte),
           Len(o) <= Len(r), HeadsMasked(o, r), NEW whole, whole = After(r, Len(o)) \o more,
           NEW e, e = RedactEnd(whole)
    PROVE  /\ Len(o) + e <= Len(r \o more)
           /\ After(whole, e) = After(r \o more, Len(o) + e)
           /\ HeadsMasked(o \o Redact(Before(whole, e)), r \o more)
<1> DEFINE c == Len(o)
           all == r \o more
           raw == Before(whole, e)
           mid == Redact(raw)
<1>1. /\ c \in 0..Len(r) /\ Len(r) \in Nat /\ Len(more) \in Nat /\ Lookback \in Nat
      /\ all \in Seq(Byte) /\ Len(all) = Len(r) + Len(more)
      /\ \A k \in 1..Len(r) : all[k] = r[k]
      /\ \A k \in 1..Len(more) : all[Len(r) + k] = more[k]
  BY StagesAssumption DEF StagesAssumption
<1> HIDE DEF c, all
<1>2. /\ whole \in Seq(Byte) /\ Len(whole) = Len(all) - c
      /\ \A k \in 1..Len(whole) : whole[k] = all[c + k]
  <2> DEFINE rest == After(r, c)
  <2>1. rest \in Seq(Byte) /\ Len(rest) = Len(r) - c /\ \A k \in 1..(Len(r) - c) : rest[k] = r[c + k]
    BY <1>1, CutText, CutAt
  <2>2. whole = rest \o more
    BY DEF c
  <2> HIDE DEF rest
  <2>3. /\ whole \in Seq(Byte) /\ Len(whole) = Len(rest) + Len(more)
        /\ \A k \in 1..Len(rest) : whole[k] = rest[k]
        /\ \A k \in 1..Len(more) : whole[Len(rest) + k] = more[k]
    <3> DEFINE both == rest \o more
    <3>1. /\ both \in Seq(Byte) /\ Len(both) = Len(rest) + Len(more)
          /\ \A k \in 1..Len(rest) : both[k] = rest[k]
          /\ \A k \in 1..Len(more) : both[Len(rest) + k] = more[k]
      BY <2>1, ConcatAt, Zenon
    <3> HIDE DEF both
    <3>2. whole = both
      BY <2>2 DEF both
    <3>3. QED
      BY <3>1, <3>2
  <2>4. ASSUME NEW k \in 1..Len(whole) PROVE whole[k] = all[c + k]
    <3>1. CASE k <= Len(rest)
      <4>1. k \in 1..Len(rest) /\ k \in 1..(Len(r) - c) /\ c + k \in 1..Len(r)
        BY <1>1, <2>1, <2>3, <3>1
      <4>2. QED
        BY <1>1, <2>1, <2>3, <4>1
    <3>2. CASE ~(k <= Len(rest))
      <4>1. /\ k - Len(rest) \in 1..Len(more) /\ Len(rest) + (k - Len(rest)) = k
            /\ Len(r) + (k - Len(rest)) = c + k
        BY <1>1, <2>1, <2>3, <3>2
      <4>2. whole[Len(rest) + (k - Len(rest))] = more[k - Len(rest)]
            /\ all[Len(r) + (k - Len(rest))] = more[k - Len(rest)]
        BY <1>1, <2>3, <4>1
      <4>3. QED
        BY <4>1, <4>2
    <3>3. QED
      BY <3>1, <3>2
  <2>5. QED
    BY <1>1, <2>1, <2>3, <2>4
<1>3. e \in 0..Len(whole)
  BY <1>2, RedactEndBound
<1>4. c + e \in 0..Len(all)
  BY <1>1, <1>2, <1>3
<1>5. After(whole, e) = After(all, c + e)
  <2>1. /\ After(whole, e) \in Seq(Byte) /\ Len(After(whole, e)) = Len(whole) - e
        /\ \A k \in 1..(Len(whole) - e) : After(whole, e)[k] = whole[e + k]
    BY <1>2, <1>3, CutText, CutAt
  <2>2. /\ After(all, c + e) \in Seq(Byte) /\ Len(After(all, c + e)) = Len(all) - (c + e)
        /\ \A k \in 1..(Len(all) - (c + e)) : After(all, c + e)[k] = all[c + e + k]
    BY ZenonT(30), <1>1, <1>4, CutText, CutAt
  <2>3. Len(whole) - e = Len(all) - (c + e) /\ Len(whole) - e \in Nat
    BY <1>1, <1>2, <1>3
  <2>4. ASSUME NEW k \in 1..(Len(whole) - e) PROVE whole[e + k] = all[c + e + k]
    <3>1. e + k \in 1..Len(whole) /\ c + (e + k) = c + e + k
      BY SMTT(30), <1>1, <1>2, <1>3
    <3>2. QED
      BY <1>2, <3>1
  <2>5. QED
    <3> DEFINE x == After(whole, e)
               y == After(all, c + e)
    <3>1. x \in Seq(Byte) /\ y \in Seq(Byte) /\ Len(x) = Len(y)
      BY <2>1, <2>2, <2>3
    <3> DEFINE m == Len(whole) - e
    <3>5. Len(x) = m /\ \A k \in 1..m : x[k] = whole[e + k]
      BY <2>1
    <3>6. \A k \in 1..m : y[k] = all[c + e + k]
      BY <2>2, <2>3
    <3>7. \A k \in 1..m : whole[e + k] = all[c + e + k]
      BY <2>4
    <3> HIDE DEF x, y, m
    <3>2. \A k \in 1..Len(x) : x[k] = y[k]
      BY <3>5, <3>6, <3>7
    <3>3. x = y
      BY <3>1, <3>2, SameText
    <3>4. QED
      BY <3>3 DEF x, y
<1>6. raw \in Seq(Byte) /\ Len(raw) = e /\ \A k \in 1..e : raw[k] = whole[k]
  BY <1>2, <1>3, CutText, CutAt
<1>7. mid \in Seq(Byte) /\ Len(mid) = e
  BY <1>6, RedactMasks DEF MaskOf
<1> HIDE DEF raw
<1>0. \A n \in Nat : KeyHead(raw, n) => \A k \in n..HeadEnd(n) : mid[k] = Mask
  BY <1>6, HeadRedacted
<1> HIDE DEF mid
<1>8. ASSUME NEW t \in Seq(Byte), NEW i \in Nat, Continues(t, all), KeyHead(t, i)
      PROVE  i > Len(o \o mid) \/ MaskedHead(o \o mid, i)
  <2>1. Len(o \o mid) = c + e
    <3>1. Len(o \o mid) = Len(o) + Len(mid)
      BY <1>7, ConcatAt, Zenon
    <3>2. QED
      BY <1>7, <3>1 DEF c
  <2>2. Len(t) \in Nat /\ Len(all) <= Len(t) /\ \A k \in 1..Len(all) : t[k] = all[k]
    BY <1>8 DEF Continues
  <2>3. Continues(t, r)
    BY <1>1, <2>2 DEF Continues
  <2>4. i \in 1..Len(t) /\ Len(SkLiteral) \in Nat /\ SkMin \in Nat /\ HeadEnd(i) \in Int
    <3>1. i \in 1..Len(t) /\ Len(SkLiteral) \in Nat /\ SkMin \in Nat
      BY <1>8, Literals DEF KeyHead
    <3>2. QED
      BY <3>1 DEF HeadEnd
  <2>5. CASE MaskedHead(o, i)
    BY <1>7, <2>4, <2>5, HeadsFront
  <2>6. CASE i > c
    <3> DEFINE w == After(t, c)
               n == i - c
               safe == Len(whole) - Lookback
    <3>1. c \in 0..Len(t) /\ c \in 0..(i - 1)
      BY <1>1, <2>2, <2>6
    <3>2. w \in Seq(Byte) /\ Len(w) = Len(t) - c /\ \A k \in 1..(Len(t) - c) : w[k] = t[c + k]
      BY <3>1, CutText, CutAt
    <3>3. HeadEnd(i) \in i..Len(t)
      BY <1>8, HeadSymbols
    <3> HIDE DEF w
    <3>4. n \in Nat /\ HeadEnd(n) = HeadEnd(i) - c /\ KeyHead(w, n)
      <4>1. HeadEnd(i) - c <= Len(w)
        BY <3>1, <3>2, <3>3
      <4>2. QED
        BY ZenonT(30), <1>8, <3>1, <3>2, <4>1, HeadMoved
    <3>5. \A k \in 1..Len(whole) : k \in 1..Len(w) /\ whole[k] = w[k]
      <4>1. ASSUME NEW k \in 1..Len(whole) PROVE k \in 1..Len(w) /\ whole[k] = w[k]
        <5>1. c + k \in 1..Len(all) /\ k \in 1..(Len(t) - c)
          BY <1>1, <1>2, <2>2, <3>1
        <5>2. w[k] = t[c + k] /\ t[c + k] = all[c + k] /\ whole[k] = all[c + k]
          BY <1>2, <2>2, <3>2, <5>1
        <5>3. QED
          BY <3>2, <5>1, <5>2
      <4>2. QED
        BY <4>1
    <3>6. n > e \/ HeadEnd(n) <= e
      <4>1. CASE safe <= 0
        <5>1. e = 0
          BY <4>1 DEF RedactEnd
        <5>2. QED
          BY <1>1, <2>6, <5>1
      <4>2. CASE ~(safe <= 0)
        <5> DEFINE u == Before(whole, safe)
        <5>1. e = safe - HoldLength(u)
          BY <4>2 DEF RedactEnd
        <5>2. safe \in 0..Len(whole) /\ safe \in 0..Len(w)
          <6>1. safe \in 0..Len(whole) /\ Len(whole) <= Len(w)
            BY <1>1, <1>2, <2>2, <3>1, <3>2, <4>2
          <6>2. QED
            BY <3>2, <6>1
        <5> HIDE DEF safe
        <5>3. u \in Seq(Byte) /\ Len(u) = safe /\ \A k \in 1..safe : u[k] = whole[k]
          BY <1>2, <5>2, CutText, CutAt
        <5> HIDE DEF u
        <5>4. \A k \in 1..safe : u[k] = w[k]
          BY <3>5, <5>2, <5>3
        <5>5. QED
          BY <3>2, <3>4, <5>1, <5>2, <5>3, <5>4, CutClear
      <4>3. QED
        BY <4>1, <4>2
    <3>7. CASE n > e
      BY <1>1, <1>2, <1>3, <2>1, <2>6, <3>7
    <3>8. CASE ~(n > e)
      <4>1. HeadEnd(n) <= e /\ n >= 1
        BY <1>1, <1>3, <2>6, <3>6, <3>8
      <4>2. KeyHead(raw, n)
        <5>1. HeadEnd(n) - 0 <= Len(raw) /\ 0 \in 0..(n - 1) /\ n - 0 = n
          <6>1. HeadEnd(n) \in Int /\ n \in Nat /\ n >= 1 /\ Len(raw) = e
            BY <1>1, <1>6, <2>4, <3>1, <3>4, <4>1
          <6> HIDE DEF n
          <6>2. QED
            BY <4>1, <6>1
        <5>2. \A k \in 1..Len(raw) : 0 + k \in 1..Len(w) => raw[k] = w[0 + k]
          <6>1. \A k \in 1..Len(raw) : 0 + k = k /\ k \in 1..e /\ k \in 1..Len(whole)
            BY <1>2, <1>3, <1>6
          <6>2. QED
            BY <1>6, <3>5, <6>1
        <5> HIDE DEF n
        <5>3. KeyHead(raw, n - 0)
          BY <1>6, <3>2, <3>4, <5>1, <5>2, HeadMoved
        <5>4. QED
          BY <5>1, <5>3
      <4>3. \A k \in n..HeadEnd(n) : mid[k] = Mask
        BY <1>0, <3>4, <4>2
      <4>4. MaskedHead(mid, n)
        BY <1>7, <4>1, <4>3 DEF MaskedHead
      <4>5. MaskedHead(o \o mid, i)
        BY <1>7, <2>6, <4>4, HeadsBehind DEF c
      <4>6. QED
        BY <4>5
    <3>9. QED
      BY <3>7, <3>8
  <2>7. i > c \/ MaskedHead(o, i)
    BY <1>8, <2>3 DEF HeadsMasked, c
  <2>8. QED
    BY <2>5, <2>6, <2>7
<1>9. HeadsMasked(o \o mid, all)
  BY <1>8 DEF HeadsMasked
<1>10. QED
  BY <1>4, <1>1, <1>5, <1>9 DEF c, all, raw, mid

-----------------------------------------------------------------------------
(* A guard that only redacts: its buffer is what the output lacks of the    *)
(* stream, and the heads that begin in the output are masked.              *)
Alone == options.redactSecrets /\ ~options.sanitizeErrors

HeadInv ==
    Alone =>
        /\ phase = "open" => /\ Len(out) <= Len(received)
                             /\ byteLookback = After(received, Len(out))
                             /\ HeadsMasked(out, received)
        /\ phase = "closed" => \A i \in Nat : KeyHead(received, i) => MaskedHead(out, i)

LEMMA HeadTransform ==
    ASSUME IInv, HeadInv, NEW chunk \in Chunks, Transform(chunk)
    PROVE  HeadInv'
<1>1. /\ options' = options /\ phase = "open" /\ received' = received \o chunk
      /\ phase' \in {"open", "errored"}
  BY DEF Transform
<1>2. SUFFICES ASSUME Alone, phase' = "open"
               PROVE  /\ Len(out') <= Len(received')
                      /\ byteLookback' = After(received', Len(out'))
                      /\ HeadsMasked(out', received')
  BY <1>1 DEF HeadInv, Alone
<1> DEFINE whole == byteLookback \o chunk
           e == RedactEnd(whole)
           raw == Before(whole, e)
           mid == Redact(raw)
<1>3. byteLookback' = After(whole, e) /\ out' = out \o Before(mid, Len(mid))
  BY <1>2 DEF Alone, Transform, RedactIn, RedactCut, RedactStage, SanitizeIn,
              SanitizeCut, SanitizeStage
<1>4. chunk \in Seq(Byte) /\ out \in Seq(Byte) /\ received \in Seq(Byte) /\ byteLookback \in Seq(Byte)
  BY ChunkUnmarked DEF IInv, TypeOK
<1>5. whole \in Seq(Byte)
  BY <1>4, ConcatType
<1> HIDE DEF whole
<1>6. e \in 0..Len(whole)
  BY <1>5, RedactEndBound
<1>7. raw \in Seq(Byte) /\ Len(raw) = e
  BY <1>5, <1>6, CutText
<1> HIDE DEF raw
<1>8. mid \in Seq(Byte) /\ Len(mid) = e
  BY <1>7, RedactMasks DEF MaskOf
<1> HIDE DEF mid
<1>9. Before(mid, Len(mid)) = mid
  BY <1>8 DEF Before
<1>10. Len(out \o mid) = Len(out) + e
  <2>1. Len(out \o mid) = Len(out) + Len(mid)
    BY <1>4, <1>8, ConcatAt, Zenon
  <2>2. QED
    BY <1>8, <2>1
<1>11. /\ Len(out) <= Len(received) /\ byteLookback = After(received, Len(out))
       /\ HeadsMasked(out, received)
  BY <1>1, <1>2 DEF HeadInv
<1>12. whole = After(received, Len(out)) \o chunk
  BY <1>11 DEF whole
<1>13. /\ Len(out) + e <= Len(received \o chunk)
       /\ After(whole, e) = After(received \o chunk, Len(out) + e)
       /\ HeadsMasked(out \o Redact(Before(whole, e)), received \o chunk)
  <2> HIDE DEF e
  <2>1. e = RedactEnd(whole)
    BY DEF e
  <2>2. Len(out) <= Len(received) /\ HeadsMasked(out, received)
    BY <1>11
  <2>4. \A w, n :
          /\ Len(out) <= Len(received) /\ HeadsMasked(out, received)
          /\ w = After(received, Len(out)) \o chunk /\ n = RedactEnd(w)
          => /\ Len(out) + n <= Len(received \o chunk)
             /\ After(w, n) = After(received \o chunk, Len(out) + n)
             /\ HeadsMasked(out \o Redact(Before(w, n)), received \o chunk)
    BY <1>4, HeadStep
  <2>3. QED
    BY <1>12, <2>1, <2>2, <2>4, Zenon
<1>14. QED
  BY <1>1, <1>3, <1>9, <1>10, <1>13 DEF raw, mid

LEMMA HeadFlush ==
    ASSUME IInv, HeadInv, Flush
    PROVE  HeadInv'
<1>1. /\ options' = options /\ phase = "open" /\ received' = received
      /\ phase' \in {"closed", "errored"}
  BY DEF Flush
<1>2. SUFFICES ASSUME Alone, phase' = "closed", NEW i \in Nat, KeyHead(received, i)
               PROVE  MaskedHead(out', i)
  BY <1>1 DEF HeadInv, Alone
<1> DEFINE tail == Redact(byteLookback)
           c == Len(out)
<1>3. /\ out \in Seq(Byte) /\ received \in Seq(Byte) /\ byteLookback \in Seq(Byte)
      /\ sanitizeLookback = <<>>
  BY <1>2 DEF IInv, TypeOK, BufferInv, Alone
<1>4. out' = out \o tail \o sanitizeLookback
  BY <1>2 DEF Alone, Flush, RedactStage, SanitizeStage
<1>5. tail \in Seq(Byte) /\ Len(tail) = Len(byteLookback)
  BY <1>3, RedactMasks DEF MaskOf
<1>6. out' = out \o tail
  BY <1>3, <1>4, <1>5, ConcatType, EmptyConcat
<1>7. c <= Len(received) /\ byteLookback = After(received, c) /\ HeadsMasked(out, received)
  BY <1>1, <1>2 DEF HeadInv
<1>0. \A n \in Nat : KeyHead(byteLookback, n) => \A k \in n..HeadEnd(n) : tail[k] = Mask
  BY <1>3, HeadRedacted
<1> HIDE DEF tail
<1>8. Continues(received, received)
  BY <1>3 DEF Continues
<1>9. i \in 1..Len(received) /\ HeadEnd(i) \in i..Len(received)
  <2>1. HeadEnd(i) \in i..Len(received)
    BY <1>2, <1>3, HeadSymbols
  <2>2. QED
    BY <1>2, <2>1 DEF KeyHead
<1>10. CASE MaskedHead(out, i)
  BY <1>3, <1>5, <1>6, <1>9, <1>10, HeadsFront
<1>11. CASE i > c
  <2>1. c \in 0..Len(received) /\ c \in 0..(i - 1)
    BY <1>3, <1>7, <1>11
  <2>2. Len(byteLookback) = Len(received) - c
        /\ \A k \in 1..(Len(received) - c) : byteLookback[k] = received[c + k]
    BY <1>3, <1>7, <2>1, CutText, CutAt
  <2>3. HeadEnd(i) - c <= Len(byteLookback)
    BY <1>9, <2>1, <2>2
  <2>4. \A k \in 1..Len(byteLookback) :
            c + k \in 1..Len(received) => byteLookback[k] = received[c + k]
    BY <2>2
  <2>5. i - c \in Nat /\ HeadEnd(i - c) = HeadEnd(i) - c /\ KeyHead(byteLookback, i - c)
    BY <1>2, <1>3, <2>1, <2>3, <2>4, HeadMoved
  <2>6. MaskedHead(tail, i - c)
    BY <1>0, <1>5, <2>3, <2>5 DEF MaskedHead
  <2>7. QED
    BY <1>3, <1>5, <1>6, <1>11, <2>6, HeadsBehind
<1>12. i > c \/ MaskedHead(out, i)
  BY <1>2, <1>3, <1>7, <1>8 DEF HeadsMasked
<1>13. QED
  BY <1>10, <1>11, <1>12

(* The head of a free-standing sk- key with a plain body never leaves a     *)
(* guard that redacts readable, wherever the chunk boundaries and the cuts *)
(* of the rolling buffer fall in it, whatever the window.                  *)
THEOREM KeyHeadMaskedCorrect == Spec => []KeyHeadMasked
<1>1. Init => IInv /\ HeadInv
  <2>1. SUFFICES ASSUME Init PROVE HeadInv
    BY InitInv
  <2>2. /\ out = <<>> /\ received = <<>> /\ byteLookback = <<>> /\ phase = "open"
        /\ Len(out) = 0 /\ Len(received) = 0 /\ <<>> \in Seq(Byte)
    BY <2>1 DEF Init
  <2>3. byteLookback = After(received, Len(out))
    BY <2>2, AfterNothing
  <2>4. HeadsMasked(out, received)
    BY <2>2 DEF HeadsMasked, KeyHead
  <2>5. QED
    BY <2>2, <2>3, <2>4 DEF HeadInv
<1>2. IInv /\ HeadInv /\ [Next]_vars => IInv' /\ HeadInv'
  <2>1. SUFFICES ASSUME IInv, HeadInv, [Next]_vars PROVE HeadInv'
    BY StepInv
  <2>2. CASE Flush
    BY <2>1, <2>2, HeadFlush
  <2>3. CASE Abort
    BY <2>3 DEF Abort, HeadInv, Alone
  <2>4. CASE UNCHANGED vars
    BY <2>1, <2>4 DEF vars, HeadInv, Alone
  <2>5. CASE \E chunk \in Chunks : Transform(chunk)
    BY <2>1, <2>5, HeadTransform
  <2>6. QED
    BY <2>1, <2>2, <2>3, <2>4, <2>5 DEF Next
<1>3. IInv /\ HeadInv => KeyHeadMasked
  <2>1. SUFFICES ASSUME IInv, HeadInv, phase = "closed", Alone,
                        NEW i \in DOMAIN received, NEW j \in DOMAIN received,
                        FreeKey(received, i, j), NEW k \in i..(i + Len(SkLiteral) + SkMin - 1)
                 PROVE  out[k] = Mask
    BY DEF KeyHeadMasked, Alone
  <2>2. received \in Seq(Byte) /\ i \in Nat /\ k \in i..HeadEnd(i)
    BY <2>1 DEF IInv, TypeOK, HeadEnd
  <2>3. KeyHead(received, i)
    BY <2>1, <2>2, FreeHead
  <2>4. MaskedHead(out, i)
    BY <2>1, <2>2, <2>3 DEF HeadInv
  <2>5. QED
    BY <2>2, <2>4 DEF MaskedHead
<1>4. QED
  BY <1>1, <1>2, <1>3, PTL DEF Spec
=============================================================================
