--------------------------- MODULE MaskingChannel ---------------------------
(***************************************************************************)
(* What a byte guard promises the two ends of a stream, without patterns,  *)
(* buffers or chunk boundaries: a channel that delivers the bytes written  *)
(* to it in order, each as it was or masked, never ahead of a window of    *)
(* Delay bytes while the stream is open, and all of them when it closes.   *)
(* A channel that is not Ordered may, when it closes, deliver the end of   *)
(* the stream before bytes that are older.                                 *)
(***************************************************************************)
EXTENDS Integers, Sequences

CONSTANTS Byte, Mask
VARIABLES written, delivered, status, Delay, Ordered

chan == <<written, delivered, status, Delay, Ordered>>

Extends(t, s) == Len(s) <= Len(t) /\ SubSeq(t, 1, Len(s)) = s

Delivers(u, s) ==
    /\ Len(u) <= Len(s)
    /\ \A i \in 1..Len(u) : u[i] \in {s[i], Mask}

Init == written = <<>> /\ delivered = <<>> /\ status = "open"

Write ==
    /\ status = "open" /\ status' = "open" /\ Delay' = Delay /\ Ordered' = Ordered
    /\ Extends(written', written) /\ Extends(delivered', delivered)
    /\ Delivers(delivered', written')
    /\ Len(delivered') + Delay <= Len(written') \/ delivered' = delivered

(* What is behind position c comes before what is between a and c. *)
Swapped(s, a, c) == SubSeq(s, 1, a) \o SubSeq(s, c + 1, Len(s)) \o SubSeq(s, a + 1, c)

(* The rest of the stream begins to arrive, in order or swapped. *)
DeliverRest ==
    /\ written' = written /\ Extends(delivered', delivered)
    /\ IF Ordered
         THEN Delivers(delivered', written)
         ELSE \E c \in Len(delivered)..Len(written) :
                 Delivers(delivered', Swapped(written, Len(delivered), c))

Close ==
    /\ status = "open" /\ status' = "closed" /\ Delay' = Delay /\ Ordered' = Ordered
    /\ DeliverRest /\ Len(delivered') = Len(written)

(* The stream ends early; what was not delivered never will be. *)
Fail ==
    /\ status = "open" /\ status' = "failed" /\ Delay' = Delay /\ Ordered' = Ordered
    /\ \/ Extends(written', written) /\ delivered' = delivered
       \/ ~Ordered /\ DeliverRest

Spec == Init /\ [][Write \/ Close \/ Fail]_chan
=============================================================================
