----------------------------- MODULE ByteStream -----------------------------
(***************************************************************************)
(* What the reading side of a stream promises (net.Conn): the bytes handed *)
(* to the callers of Read, taken together, are those that came in, in      *)
(* their order, none twice and none left out.                              *)
(***************************************************************************)
EXTENDS Naturals, Sequences

CONSTANT Packets   \* the packets that may come in

VARIABLES
  in,   \* all bytes that came in
  out   \* all bytes handed out

Init == in = <<>> /\ out = <<>>

Arrive == /\ \E pkt \in Packets : in' = in \o pkt
          /\ UNCHANGED out

HandOut == /\ \E n \in Len(out)..Len(in) : out' = SubSeq(in, 1, n)
           /\ UNCHANGED in

Spec == Init /\ [][Arrive \/ HandOut]_<<in, out>>
=============================================================================
