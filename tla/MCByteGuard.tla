---------------------------- MODULE MCByteGuard ----------------------------
(* Small instances of ByteGuard: literals of one or two symbols, chunks of  *)
(* one or two.  s k 9 make up keys, B and A open the other families, m      *)
(* opens an error message and q closes it, _ is a blank, # the mask.        *)
EXTENDS ByteGuard

SkBytes == {"s", "k", "9", "_"}
BearerBytes == {"B", "A", "9", "_"}
MessageBytes == {"m", "q", "9"}
BothBytes == {"s", "k", "9", "m", "q"}
TightBytes == {"s", "k", "9"}
AllBytes == SkBytes \cup BearerBytes \cup MessageBytes \cup {"#"}

ChunksOver(S) == UNION {[1..i -> S] : i \in 1..2}
AllChunks == ChunksOver(SkBytes) \cup ChunksOver(BearerBytes) \cup ChunksOver(MessageBytes)
BothChunks == ChunksOver(BothBytes)
TightChunks == ChunksOver(TightBytes)

MCSk == <<"s", "k">>
MCBearer == <<"B">>
MCToken == <<"A", "A">>
MCPrefixes == {MCSk, <<"B", "_">>, MCToken}
MCBlank == {"_"}
MCDigit == {"9"}
MCSecretBody == {"s", "k", "9", "A"}

Opt(r, s, h) == [redactSecrets |-> r, sanitizeErrors |-> s, hookThrows |-> h]
AllOptions == {Opt(r, s, h) : r \in BOOLEAN, s \in BOOLEAN, h \in BOOLEAN} \ {Opt(FALSE, FALSE, TRUE)}
RedactOnly == {Opt(TRUE, FALSE, FALSE)}
BothOn == {Opt(TRUE, TRUE, FALSE)}

Up6(o, t) == Len(t) <= 6
Up8(o, t) == Len(t) <= 8

Has(t, S) == \A k \in DOMAIN t : t[k] \in S

(* One key and one message at most: k only behind s, q only behind m. *)
OneOfEach(t) ==
    \A i, j \in DOMAIN t :
        /\ t[i] \in {"s", "m", "q"} /\ t[i] = t[j] => i = j
        /\ t[i] = "k" => i > 1 /\ t[i - 1] = "s"
        /\ t[i] = "q" => \E n \in 1..i : t[n] = "m"

(* A stream has up to seven symbols of one family of patterns, one its      *)
(* guard scans, or, with both flags on, one of each.  It is shorter with a  *)
(* hook that throws.                                                        *)
OneFamily(o, t) ==
    /\ Len(t) <= IF o.hookThrows /\ ~(o.redactSecrets /\ o.sanitizeErrors) THEN 5 ELSE 7
    /\ CASE o.redactSecrets /\ o.sanitizeErrors -> Has(t, BothBytes) /\ OneOfEach(t)
         [] o.redactSecrets /\ ~o.sanitizeErrors -> Has(t, SkBytes) \/ Has(t, BearerBytes)
         [] OTHER -> Has(t, MessageBytes)
=============================================================================
