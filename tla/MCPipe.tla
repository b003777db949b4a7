------------------------------- MODULE MCPipe -------------------------------
(* Instances of Pipe for TLC.                                              *)
EXTENDS Pipe

\* Writes that fit, that fill the buffer and that do not fit.
MCMessages == {<<0>>, <<1>>, <<0, 1>>, <<1, 0, 0>>}
=============================================================================
