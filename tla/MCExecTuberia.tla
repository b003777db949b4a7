---------------------------- MODULE MCExecTuberia ----------------------------
(* Instances of ExecTuberia for TLC. *)
EXTENDS ExecTuberia

\* Every input of up to three lines, and one of four commands.
ShortInputs == BoundedSeq(Kinds, 3) \cup {<<"cmd", "cmd", "cmd", "cmd">>}
=============================================================================
