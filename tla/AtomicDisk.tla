----------------------------- MODULE AtomicDisk -----------------------------
(***************************************************************************)
(* What the log promises to the file system calls of xv6: blocks that are  *)
(* changed between begin_op() and end_op() reach the disk all together or, *)
(* if the machine stops first, not at all.                                 *)
(***************************************************************************)
CONSTANTS Procs, Blocks, Vals, InitVal

VARIABLES
  current,   \* the blocks as the running kernel reads them
  stable,    \* the blocks as they would be after a crash and a restart
  active     \* the processes between begin_op() and end_op()

avars == <<current, stable, active>>

AInit ==
  /\ current = [b \in Blocks |-> InitVal]
  /\ stable = current
  /\ active = {}

ABegin(p) == /\ p \notin active
             /\ active' = active \cup {p}
             /\ UNCHANGED <<current, stable>>

AWrite(p, b, v) == /\ p \in active
                   /\ current' = [current EXCEPT ![b] = v]
                   /\ UNCHANGED <<stable, active>>

AEnd(p) == /\ p \in active
           /\ active' = active \ {p}
           /\ UNCHANGED <<current, stable>>

\* Everything written so far becomes permanent, while no operation is half done.
ACommit == /\ active = {}
           /\ stable' = current
           /\ UNCHANGED <<current, active>>

ACrash == /\ current' = stable
          /\ active' = {}
          /\ UNCHANGED stable

ANext ==
  \/ \E p \in Procs : ABegin(p) \/ AEnd(p)
  \/ \E p \in Procs, b \in Blocks, v \in Vals : AWrite(p, b, v)
  \/ ACommit
  \/ ACrash

ASpec == AInit /\ [][ANext]_avars
=============================================================================
