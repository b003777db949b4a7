------------------------------- MODULE Tuberia -------------------------------
(***************************************************************************)
(* The child of exec_lines that runs a pipeline: it creates the pipe, the  *)
(* process that writes and the process that reads, closes its ends and     *)
(* waits for both.                                                         *)
(*                                                                         *)
(* It inherits the SIGCHLD handler of main(), which is not restarting and  *)
(* reaps any child, and SIGCHLD is unblocked again (line 298): each        *)
(* waitpid() here may find its child taken, or be interrupted.             *)
(***************************************************************************)
EXTENDS Naturals, FiniteSets

Cmds == {"writer", "reader"}
Who  == Cmds \cup {"launcher"}

VARIABLES
  pc,        \* of the launcher: "pipe", "fork1", "fork2", "close", "wait1", "wait2", "done"
  state,     \* of each command: "none", "nofork", "running", "zombie", "reaped"
  ends,      \* the ends of the pipe each process holds
  pending,   \* a SIGCHLD is pending for the launcher
  patient    \* the commands that end only when the other side of the pipe is gone

vars == <<pc, state, ends, pending, patient>>

Init ==
  /\ pc = "pipe"
  /\ state = [c \in Cmds |-> "none"]
  /\ ends = [w \in Who |-> {}]
  /\ pending = FALSE
  /\ patient \in SUBSET Cmds

-----------------------------------------------------------------------------
\* The two commands (execvp() of any program)

\* Nobody is left at the other side: SIGPIPE for the writer, end of file for
\* the reader.
Alone(c) == \A w \in Who : (IF c = "writer" THEN "r" ELSE "w") \notin ends[w]

CommandEnds(c) ==
  /\ state[c] = "running"
  /\ c \in patient => Alone(c)
  /\ state' = [state EXCEPT ![c] = "zombie"]
  /\ ends' = [ends EXCEPT ![c] = {}]
  /\ pending' = (pc # "done")
  /\ UNCHANGED <<pc, patient>>

-----------------------------------------------------------------------------
\* The launcher

\* pipe(), or its failure
Pipe ==
  /\ pc = "pipe"
  /\ \/ pc' = "fork1" /\ ends' = [ends EXCEPT !["launcher"] = {"r", "w"}]
     \/ pc' = "done" /\ UNCHANGED ends
  /\ UNCHANGED <<state, pending, patient>>

\* fork() of one command, which keeps one end; or its failure, which the code
\* does not look at.
ForkCmd(c, end) ==
  /\ \/ /\ state' = [state EXCEPT ![c] = "running"]
        /\ ends' = [ends EXCEPT ![c] = {end}]
     \/ state' = [state EXCEPT ![c] = "nofork"] /\ UNCHANGED ends
  /\ UNCHANGED <<pending, patient>>

Fork1 == pc = "fork1" /\ pc' = "fork2" /\ ForkCmd("writer", "w")
Fork2 == pc = "fork2" /\ pc' = "close" /\ ForkCmd("reader", "r")

\* What is left open after lines 209-210.  And if line 210 were missing.
WriteEndKept == {"w"}
Kept         == {}

Close ==
  /\ pc = "close" /\ pc' = "wait1"
  /\ ends' = [ends EXCEPT !["launcher"] = Kept]
  /\ UNCHANGED <<state, pending, patient>>

\* The order of the two calls to waitpid().  And the opposite one.
ReaderFirst == [wait1 |-> "reader", wait2 |-> "writer"]
Order       == [wait1 |-> "writer", wait2 |-> "reader"]

\* The children waitpid() is asked for: any one if the pid is -1.
Target == LET c == Order[pc] IN IF state[c] = "nofork" THEN Cmds ELSE {c}

Zombies == {c \in Cmds : state[c] = "zombie"}

\* The handler reaps every child that has ended.
AfterHandler == [c \in Cmds |-> IF c \in Zombies THEN "reaped" ELSE state[c]]

Exited == IF pc = "wait1" THEN "wait2" ELSE "done"

\* The handler runs between two instructions of the launcher.
Handler ==
  /\ pc # "done" /\ pending
  /\ pending' = FALSE /\ state' = AfterHandler
  /\ UNCHANGED <<pc, ends, patient>>

\* waitpid() finds its child, or that there is none.  The SIGCHLD of a child it
\* reaps is handled on return.
WaitReturns ==
  /\ pc \in {"wait1", "wait2"}
  /\ \/ Target \cap Zombies # {} /\ state' = AfterHandler /\ pending' = FALSE
     \/ (\A c \in Target : state[c] \in {"reaped", "nofork"}) /\ UNCHANGED <<state, pending>>
  /\ pc' = Exited
  /\ UNCHANGED <<ends, patient>>

\* The other child ends meanwhile: waitpid() returns EINTR once the handler is
\* done, and the code goes on.
Interrupted ==
  /\ pc \in {"wait1", "wait2"} /\ pending /\ Target \cap Zombies = {}
  /\ pending' = FALSE /\ state' = AfterHandler
  /\ pc' = Exited
  /\ UNCHANGED <<ends, patient>>

Launcher == Pipe \/ Fork1 \/ Fork2 \/ Close \/ Handler \/ WaitReturns \/ Interrupted

Next == Launcher \/ \E c \in Cmds : CommandEnds(c)
=============================================================================
