------------------------------ MODULE MCFraming ------------------------------
(* Instances of Framing for TLC. *)
EXTENDS Framing

(* The last payload reads as the header of a one-byte frame, and is longer
   than an RRI reader takes.                                               *)
SomePayloads == {<<>>, <<1>>, <<1, 0, 1>>, <<0, 0, 0, 1>>}
=============================================================================
