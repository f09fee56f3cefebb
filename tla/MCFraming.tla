----------------------------- MODULE MCFraming -----------------------------
(***************************************************************************)
(* Model-checking instance of Framing.  Payloads of one and two bytes are  *)
(* enough for recv to split a frame inside the length field and inside the *)
(* payload; two frames let the second follow a short first one on the     *)
(* wire; one payload is a prefix of the other, so a short read of the      *)
(* longer one would pass for the shorter.  Two retries stand for read_n's  *)
(* 10000: only the count of zero-byte reads before it gives up depends on  *)
(* it.                                                                     *)
(***************************************************************************)
EXTENDS Framing

MCPayloads == {<<1>>, <<1, 2>>}
MCPayloadsWithEmpty == {<<>>, <<1>>}
MCPayloadsAll == {<<>>, <<1>>, <<1, 2>>}
MCFaultsCrash == {"crash"}
MCFaultsStall == {"stall"}

=============================================================================
