------------------------------- MODULE MCSlipIn ------------------------------
(***************************************************************************)
(* SlipIn on a small instance: a transmission report whose session id is   *)
(* the value of '\n', a radio frame of bytes that are escaped, and one     *)
(* that is longer than inbuf.                                              *)
(***************************************************************************)
EXTENDS SlipIn

MCData   == {Bang, Ask, CR, NL, "text", "bin"}
Report   == [to |-> "cmd",    data |-> <<Bang, NL, "bin">>]
Escapes  == [to |-> "packet", data |-> <<END, ESC>>]
TooLong  == [to |-> "packet", data |-> <<"bin", "bin", "bin", "bin", "bin">>]

MCFrames == {Report, Escapes, TooLong}

\* Each frame's bytes ask for the handler that it is meant for (IntactPacketsHandled).
ASSUME MCFramesAsk == \A f \in Frames : f.to = Handler(f.data)
==============================================================================
