----------------------------- MODULE ExecTuberia -----------------------------
(***************************************************************************)
(* exec_lines with a pipeline as one line of its input, or with none:      *)
(* ExecLines for main() and its children, Tuberia for the two commands of  *)
(* that line.  The child that runs the pipeline is a child of both.        *)
(***************************************************************************)
EXTENDS ExecLines

VARIABLES
  tuberia,                               \* the line that is a pipeline, 0 if none
  tpc, state, ends, tpending, patient    \* see Tuberia

tvars == <<tpc, state, ends, tpending, patient>>

T == INSTANCE Tuberia WITH pc <- tpc, pending <- tpending

allvars == <<vars, tvars, tuberia>>

InitT ==
  /\ Init /\ T!Init
  /\ tuberia \in {0} \cup {i \in DOMAIN input : input[i] = "cmd"}
  /\ tuberia = 0 => patient = {}

-----------------------------------------------------------------------------
\* How the child that runs the pipeline ends: 0, except if pipe() fails.
PipelineStatus == IF \A c \in T!Cmds : state[c] = "none" THEN "code" ELSE "ok"

PipelineEnds ==
  /\ ChildEnds(tuberia) /\ tpc = "done"
  /\ status'[tuberia] = PipelineStatus

\* The step of a child of main(): an ordinary command, or the launcher.
Child(i) == IF i = tuberia THEN PipelineEnds ELSE ChildEnds(i)

PipelineStep == tuberia # 0 /\ child[tuberia] = "running" /\ T!Launcher

NextT ==
  \/ (Main \/ Handler \/ \E i \in Lines : Child(i)) /\ UNCHANGED <<tvars, tuberia>>
  \/ (PipelineStep \/ \E c \in T!Cmds : T!CommandEnds(c)) /\ UNCHANGED <<vars, tuberia>>

SpecT == InitT /\ [][NextT]_allvars

\* Every process runs on, and every command that does not wait for the other side
\* of the pipe ends.
FairSpecT ==
  /\ SpecT
  /\ WF_allvars(Main /\ UNCHANGED <<tvars, tuberia>>)
  /\ WF_allvars(Handler /\ UNCHANGED <<tvars, tuberia>>)
  /\ \A i \in Lines : WF_allvars(Child(i) /\ UNCHANGED <<tvars, tuberia>>)
  /\ WF_allvars(PipelineStep /\ UNCHANGED <<vars, tuberia>>)
  /\ \A c \in T!Cmds : WF_allvars(T!CommandEnds(c) /\ UNCHANGED <<vars, tuberia>>)

-----------------------------------------------------------------------------
\* The last command of a pipeline has ended when the child that runs it ends: it
\* keeps the place of its line, so with one line at a time its output comes
\* before that of the next.
OutputInOrder == state["reader"] = "running" => child[tuberia] = "running"

\* No copy of an end of the pipe is left open that would keep a command waiting:
\* unless each command waits for the other, the program and both commands end.
Drains ==
  patient # T!Cmds => <>(pc = "done" /\ \A c \in T!Cmds : state[c] # "running")
=============================================================================
