------------------------------ MODULE MCSlipOut ------------------------------
(***************************************************************************)
(* SlipOut on a small instance: one ordinary byte value, payloads that     *)
(* need each kind of escape, and a buffer that three packets overflow.     *)
(***************************************************************************)
EXTENDS SlipOut

MCPayloads == {<<"d">>, <<END, "d">>, <<ESC, ESC_END>>}
==============================================================================
