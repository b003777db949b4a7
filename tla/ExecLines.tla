------------------------------ MODULE ExecLines ------------------------------
(***************************************************************************)
(* exec_lines: reads lines of commands, runs each in a child process, at   *)
(* most NumProcs at a time, and reports the first child that fails.        *)
(* SIGCHLD is blocked except inside sigsuspend(), where its handler reaps  *)
(* whatever has ended.  Children end at any time, in any order.            *)
(*                                                                         *)
(* A line is what matters of it: "cmd" is run, with its operator if it has *)
(* one, "bad" has two operators, "blank" is empty and "long" exceeds       *)
(* MAX_LINE_SIZE.  Reading by blocks of BUF_SIZE bytes makes no difference *)
(* and is left out.  What a pipeline adds is in ExecTuberia.               *)
(***************************************************************************)
EXTENDS Integers, Sequences, FiniteSets, SequencesExt

CONSTANTS
  NumProcs,     \* option -p
  MaxLines,     \* bound: lines of the input
  Inputs        \* the inputs, sequences of kinds of lines

ASSUME NumProcsAssumption == NumProcs \in 1..8
ASSUME MaxLinesAssumption == MaxLines \in Nat

Kinds    == {"cmd", "bad", "blank", "long"}
Statuses == {"ok", "code", "signal"}     \* how a child ended, "none" if not yet

ASSUME InputsAssumption == Inputs \subseteq BoundedSeq(Kinds, MaxLines)

VARIABLES
  input,              \* the lines of standard input
  newline,            \* whether the last line ends with one
  num_linea,
  pc,                 \* "read", "slot" (line 291), "drain" (276), "final" (348), "done"
  handler,            \* the signal handler is running
  pending,            \* a SIGCHLD is pending
  child, status,      \* of the child that runs each line
  procesos_activos, error_detectado, cod_salida, linea_error,
  result              \* how the program ended

vars == <<input, newline, num_linea, pc, handler, pending, child, status,
          procesos_activos, error_detectado, cod_salida, linea_error, result>>

Lines == 1..MaxLines

Init ==
  /\ input \in Inputs
  /\ newline \in BOOLEAN
  /\ num_linea = 1
  /\ pc = "read"
  /\ handler = FALSE /\ pending = FALSE
  /\ child = [i \in Lines |-> "none"]
  /\ status = [i \in Lines |-> "none"]
  /\ procesos_activos = 0
  /\ error_detectado = FALSE /\ cod_salida = "none" /\ linea_error = 0
  /\ result = "none"

-----------------------------------------------------------------------------
\* The command of line i ends, one way or another.
ChildEnds(i) ==
  /\ child[i] = "running"
  /\ child' = [child EXCEPT ![i] = "zombie"]
  /\ \E s \in Statuses : status' = [status EXCEPT ![i] = s]
  /\ pending' = TRUE
  /\ UNCHANGED <<input, newline, num_linea, pc, handler, procesos_activos,
                 error_detectado, cod_salida, linea_error, result>>

-----------------------------------------------------------------------------
\* sigsuspend() and the handler

\* The three loops that call sigsuspend().
NoSlot  == procesos_activos >= NumProcs

Suspended == \/ pc = "slot" /\ NoSlot
             \/ pc \in {"drain", "final"} /\ procesos_activos > 0

Deliver ==
  /\ Suspended /\ pending /\ ~handler
  /\ pending' = FALSE
  /\ handler' = TRUE
  /\ UNCHANGED <<input, newline, num_linea, pc, child, status, procesos_activos,
                 error_detectado, cod_salida, linea_error, result>>

\* What the handler records of a child: the first failure.  And if only exit codes
\* counted.
FirstCode(i)    == status[i] = "code" /\ ~error_detectado
FirstFailure(i) == status[i] # "ok" /\ ~error_detectado

\* The counter after a child is reaped.  And if only good children counted.
WhileNoError == IF error_detectado THEN procesos_activos ELSE procesos_activos - 1
OneFewer     == procesos_activos - 1

\* waitpid() returns any child that has ended.
Reap(i) ==
  /\ handler /\ child[i] = "zombie"
  /\ child' = [child EXCEPT ![i] = "reaped"]
  /\ procesos_activos' = OneFewer
  /\ error_detectado' = (error_detectado \/ FirstFailure(i))
  /\ cod_salida' = IF FirstFailure(i) THEN status[i] ELSE cod_salida
  /\ UNCHANGED <<input, newline, num_linea, pc, handler, pending, status,
                 linea_error, result>>

\* waitpid() finds no other.
AllReaped == \A i \in Lines : child[i] # "zombie"

HandlerEnds ==
  /\ handler /\ AllReaped
  /\ handler' = FALSE
  /\ UNCHANGED <<input, newline, num_linea, pc, pending, child, status,
                 procesos_activos, error_detectado, cod_salida, linea_error, result>>

-----------------------------------------------------------------------------
\* main()

\* A line counts as read only once its newline arrives.
AtEnd == \/ num_linea > Len(input)
         \/ num_linea = Len(input) /\ ~newline /\ input[num_linea] # "long"

Blank ==
  /\ pc = "read" /\ ~AtEnd /\ input[num_linea] = "blank"
  /\ num_linea' = num_linea + 1
  /\ UNCHANGED <<input, newline, pc, handler, pending, child, status,
                 procesos_activos, error_detectado, cod_salida, linea_error, result>>

\* The program ends at once, and leaves its children alone.
TooLong ==
  /\ pc = "read" /\ ~AtEnd /\ input[num_linea] = "long"
  /\ pc' = "done" /\ result' = "toolong"
  /\ UNCHANGED <<input, newline, num_linea, handler, pending, child, status,
                 procesos_activos, error_detectado, cod_salida, linea_error>>

\* A failure is known by now (line 274).  And if it were not looked at.
NeverStops == FALSE
Stops      == error_detectado

\* A line is complete: stop, or go and wait for a place.
Line ==
  /\ pc = "read" /\ ~AtEnd /\ input[num_linea] \in {"cmd", "bad"}
  /\ pc' = IF Stops THEN "drain" ELSE "slot"
  /\ UNCHANGED <<input, newline, num_linea, handler, pending, child, status,
                 procesos_activos, error_detectado, cod_salida, linea_error, result>>

\* There is a place: leer_linea() rejects the line.
Reject ==
  /\ pc = "slot" /\ ~NoSlot /\ ~handler /\ input[num_linea] = "bad"
  /\ pc' = "read"
  /\ num_linea' = num_linea + 1
  /\ UNCHANGED <<input, newline, handler, pending, child, status,
                 procesos_activos, error_detectado, cod_salida, linea_error, result>>

\* There is a place: fork().
Launch ==
  /\ pc = "slot" /\ ~NoSlot /\ ~handler /\ input[num_linea] # "bad"
  /\ child' = [child EXCEPT ![num_linea] = "running"]
  /\ procesos_activos' = procesos_activos + 1
  /\ linea_error' = IF error_detectado THEN linea_error ELSE num_linea
  /\ pc' = "read"
  /\ num_linea' = num_linea + 1
  /\ UNCHANGED <<input, newline, handler, pending, status, error_detectado,
                 cod_salida, result>>

\* fork() fails.
ForkFails ==
  /\ pc = "slot" /\ ~NoSlot /\ ~handler /\ input[num_linea] # "bad"
  /\ pc' = "done" /\ result' = "nofork"
  /\ UNCHANGED <<input, newline, num_linea, handler, pending, child, status,
                 procesos_activos, error_detectado, cod_salida, linea_error>>

EndOfInput ==
  /\ pc = "read" /\ AtEnd
  /\ pc' = "final"
  /\ UNCHANGED <<input, newline, num_linea, handler, pending, child, status,
                 procesos_activos, error_detectado, cod_salida, linea_error, result>>

\* read() fails: the program ends at once.
ReadFails ==
  /\ pc = "read"
  /\ pc' = "done" /\ result' = "badread"
  /\ UNCHANGED <<input, newline, num_linea, handler, pending, child, status,
                 procesos_activos, error_detectado, cod_salida, linea_error>>

\* All the children have been waited for: report the failure, if any.
Finish ==
  /\ pc \in {"drain", "final"} /\ procesos_activos = 0 /\ ~handler
  /\ pc' = "done"
  /\ result' = IF error_detectado THEN "error" ELSE "ok"
  /\ UNCHANGED <<input, newline, num_linea, handler, pending, child, status,
                 procesos_activos, error_detectado, cod_salida, linea_error>>

Main == Blank \/ TooLong \/ Line \/ Reject \/ Launch \/ ForkFails \/ ReadFails \/ EndOfInput
        \/ Finish

Handler == Deliver \/ (\E i \in Lines : Reap(i)) \/ HandlerEnds

Next == Main \/ Handler \/ \E i \in Lines : ChildEnds(i)

Spec == Init /\ [][Next]_vars

\* The program and its handler go on, and every command ends some time.
Fairness == /\ WF_vars(Main) /\ WF_vars(Handler)
            /\ \A i \in Lines : WF_vars(ChildEnds(i))

FairSpec == Spec /\ Fairness

-----------------------------------------------------------------------------
TypeOK ==
  /\ num_linea \in 1..(MaxLines + 1)
  /\ pc \in {"read", "slot", "drain", "final", "done"}
  /\ handler \in BOOLEAN /\ pending \in BOOLEAN
  /\ child \in [Lines -> {"none", "running", "zombie", "reaped"}]
  /\ status \in [Lines -> Statuses \cup {"none"}]
  /\ procesos_activos \in 0..NumProcs
  /\ error_detectado \in BOOLEAN
  /\ cod_salida \in Statuses \cup {"none"}
  /\ linea_error \in 0..MaxLines
  /\ result \in {"none", "ok", "error", "toolong", "nofork", "badread"}

Failed(i) == status[i] \in {"code", "signal"}

\* The counter that bounds the parallelism is exact although it is changed both
\* by main() and by the handler: it counts the children not yet waited for.
CountExact ==
  procesos_activos = Cardinality({i \in Lines : child[i] \in {"running", "zombie"}})

\* No failure is lost: the program ends well only if every child it launched was
\* waited for and ended well.
NoFailureLost ==
  result = "ok" => \A i \in Lines : child[i] # "none" => child[i] = "reaped" /\ ~Failed(i)

\* Once a failure is known at most one more line is launched: the one that was
\* waiting for a place.
OneLineAfterError ==
  error_detectado =>
    Cardinality({i \in Lines : child[i] # "none" /\ i > linea_error}) <= 1
=============================================================================
