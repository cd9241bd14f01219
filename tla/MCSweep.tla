------------------------------- MODULE MCSweep -------------------------------
(* Short ranges; that of the frame size ends where 2^n is cut to 2^n - 1.    *)
EXTENDS Sweep

FirstValues == <<1, 1, 23, 1>>
LastValues  == <<4, 1, 24, 4>>
==============================================================================
