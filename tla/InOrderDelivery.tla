--------------------------- MODULE InOrderDelivery ---------------------------
(***************************************************************************)
(* What receive reordering promises its user: a buffer of frames, each     *)
(* identified by the number its originator gave it, from which frames are  *)
(* handed up smallest first, each at most once and never one that is older *)
(* than a frame already handed up.                                         *)
(***************************************************************************)
EXTENDS Naturals, Sequences

CONSTANT Frame  \* the numbers of the frames

VARIABLES
  buf,  \* set of frames accepted and not yet handed up
  out   \* sequence of frames handed up

Newer(n) == \A i \in 1 .. Len(out) : out[i] < n

Smallest(n) == n \in buf /\ \A m \in buf : n <= m

Init == buf = {} /\ out = <<>>

\* A frame older than anything handed up is refused.
Accept(n) == n \notin buf /\ Newer(n) /\ buf' = buf \cup {n} /\ UNCHANGED out

Deliver(n) == Smallest(n) /\ buf' = buf \ {n} /\ out' = Append(out, n)

\* The frame turns out to be malformed, or the user is gone.
Drop(n) == Smallest(n) /\ buf' = buf \ {n} /\ UNCHANGED out

Flush == buf' = {} /\ UNCHANGED out

Next == \/ \E n \in Frame : Accept(n)
        \/ \E n \in buf : Deliver(n) \/ Drop(n)
        \/ Flush

Spec == Init /\ [][Next]_<<buf, out>>
=============================================================================
