------------------------------ MODULE MCLookup ------------------------------
EXTENDS Lookup

CONSTANTS p1, p2, p3, p4, p5, p6

MCStart == <<p1, p2>>

(* Nothing, the one who asks or was asked, new peers twice, once or in part. *)
MCAnswers ==
  {<<>>, <<p1, p2>>, <<p3, p3>>, <<p3, p4>>, <<p2, p5>>, <<p5, p6>>}
=============================================================================
