----------------------------- MODULE MCIOStream -----------------------------
(***************************************************************************)
(* Instances of IOStream for TLC.                                          *)
(***************************************************************************)
EXTENDS IOStream

AllRequests    == {"bytes", "streamed", "until", "regex", "close"}
SecondByte     == {2}
ThirdByte      == {3}
=============================================================================
