-------------------------------- MODULE Log ---------------------------------
(***************************************************************************)
(* The redo log of xv6 (log.c) over the buffer cache (bio.c) and the disk: *)
(* begin_op, log_write and end_op by several processes, the commit that    *)
(* the last end_op() runs, one disk write per step, eviction of buffers,   *)
(* and a crash at any moment followed by recover_from_log().               *)
(*                                                                         *)
(* A disk write is atomic (BSIZE is the sector size, and bwrite() waits    *)
(* for it).  log.lock makes begin_op, log_write and the two halves of      *)
(* end_op atomic.  The body of a commit runs without a lock.               *)
(***************************************************************************)
EXTENDS Integers, Sequences, FiniteSets

CONSTANTS
  Procs,         \* processes making file system calls
  Blocks,        \* home blocks, the ones that log_write() is called on
  Vals,          \* contents of a block
  InitVal,       \* contents of every block of the fresh image
  Absent,        \* "not in the buffer cache"
  LOGSIZE,       \* param.h: data blocks of a transaction; also sb.nlog (mkfs)
  MAXOPBLOCKS,   \* param.h: blocks that begin_op() reserves for a call
  OpBlocks       \* distinct blocks that a call does write, at most

ASSUME ProcsAssumption   == IsFiniteSet(Procs)     \* NPROC
ASSUME InitValAssumption == InitVal \in Vals
ASSUME AbsentAssumption  == Absent \notin Vals
ASSUME SizesAssumption   == /\ LOGSIZE \in Nat /\ MAXOPBLOCKS \in Nat
                            /\ OpBlocks \in Nat \ {0}
                            /\ OpBlocks <= MAXOPBLOCKS /\ MAXOPBLOCKS <= LOGSIZE

VARIABLES
  home,         \* disk: the home location of each block
  logged,       \* disk: the blocks of the log area
  head,         \* disk: the header block, a sequence of block numbers
  cache,        \* data of the cached buffers
  dirty,        \* blocks whose buffer has B_DIRTY
  lh,           \* log.lh
  outstanding,  \* log.outstanding
  committing,   \* log.committing
  pc,           \* where each process is
  wrote,        \* the blocks each running call has logged
  stage,        \* where the commit or the recovery is
  tail,         \* the loop index of write_log() and install_trans()
  up            \* recover_from_log() is over

disk   == <<home, logged, head>>
vars   == <<home, logged, head, cache, dirty, lh, outstanding, committing, pc,
            wrote, stage, tail, up>>

\* The kernel boots from a fresh file system image.
Init ==
  /\ home = [b \in Blocks |-> InitVal]
  /\ logged = [i \in 1..LOGSIZE |-> InitVal]
  /\ head = << >>
  /\ cache = [b \in Blocks |-> Absent]
  /\ dirty = {}
  /\ lh = << >>
  /\ outstanding = 0
  /\ committing = FALSE
  /\ pc = [p \in Procs |-> "idle"]
  /\ wrote = [p \in Procs |-> {}]
  /\ stage = "boot"
  /\ tail = 0
  /\ up = FALSE

-----------------------------------------------------------------------------
\* The buffer cache

\* What bread(b) returns: the cached buffer, or else the disk's block.
View(b) == IF cache[b] # Absent THEN cache[b] ELSE home[b]

Bread(b) ==
  /\ up /\ cache[b] = Absent
  /\ cache' = [cache EXCEPT ![b] = home[b]]
  /\ UNCHANGED <<disk, dirty, lh, outstanding, committing, pc, wrote, stage, tail, up>>

\* bget() recycles the buffer of another block, unless B_DIRTY pins it.
Evictable(b) == cache[b] # Absent /\ b \notin dirty

Evict(b) ==
  /\ Evictable(b)
  /\ cache' = [cache EXCEPT ![b] = Absent]
  /\ UNCHANGED <<disk, dirty, lh, outstanding, committing, pc, wrote, stage, tail, up>>

-----------------------------------------------------------------------------
\* File system calls

\* begin_op() sleeps if the calls under way might fill the log.  The variant
\* reserves space without counting what is already in the log.
CountsCalls == (outstanding + 1) * MAXOPBLOCKS > LOGSIZE
NoRoom      == Len(lh) + (outstanding + 1) * MAXOPBLOCKS > LOGSIZE

\* wakeup(&log): the sleepers in begin_op() try again.  And one that is lost.
LostWakeup == pc
Woken      == [q \in Procs |-> IF pc[q] = "sleep" THEN "begin" ELSE pc[q]]

BeginOp(p) ==
  /\ up /\ pc[p] \in {"idle", "begin"}
  /\ ~committing /\ ~NoRoom
  /\ outstanding' = outstanding + 1
  /\ pc' = [pc EXCEPT ![p] = "op"]
  /\ UNCHANGED <<disk, cache, dirty, lh, committing, wrote, stage, tail, up>>

BeginSleep(p) ==
  /\ up /\ pc[p] \in {"idle", "begin"}
  /\ committing \/ NoRoom
  /\ pc' = [pc EXCEPT ![p] = "sleep"]
  /\ UNCHANGED <<disk, cache, dirty, lh, outstanding, committing, wrote, stage, tail, up>>

\* log_write() panics ("too big a transaction") unless this holds.
Fits == Len(lh) < LOGSIZE /\ Len(lh) < LOGSIZE - 1

\* Log absorption: a block is entered in the header once.
Absorbed(b) == IF \E i \in DOMAIN lh : lh[i] = b THEN lh ELSE Append(lh, b)

\* A call reads a block, changes it and calls log_write(), holding the buffer.
LogWrite(p, b, v) ==
  /\ pc[p] = "op" /\ Fits
  /\ Cardinality(wrote[p] \cup {b}) <= OpBlocks
  /\ cache' = [cache EXCEPT ![b] = v]
  /\ dirty' = dirty \cup {b}
  /\ lh' = Absorbed(b)
  /\ wrote' = [wrote EXCEPT ![p] = @ \cup {b}]
  /\ UNCHANGED <<disk, outstanding, committing, pc, stage, tail, up>>

\* end_op(): the last one commits, any other wakes those who wait for space.
EndOp(p) ==
  /\ pc[p] = "op"
  /\ outstanding' = outstanding - 1
  /\ wrote' = [wrote EXCEPT ![p] = {}]
  /\ IF outstanding = 1
       THEN /\ committing' = TRUE
            /\ stage' = IF lh = << >> THEN "none" ELSE "log"
            /\ tail' = 0
            /\ pc' = [pc EXCEPT ![p] = "commit"]
       ELSE /\ pc' = [Woken EXCEPT ![p] = "idle"]
            /\ UNCHANGED <<committing, stage, tail>>
  /\ UNCHANGED <<disk, cache, dirty, lh, up>>

\* The end of end_op() after its commit().
EndCommit(p) ==
  /\ pc[p] = "commit" /\ stage = "none"
  /\ committing' = FALSE
  /\ pc' = [Woken EXCEPT ![p] = "idle"]
  /\ UNCHANGED <<disk, cache, dirty, lh, outstanding, wrote, stage, tail, up>>

-----------------------------------------------------------------------------
\* commit() and recover_from_log()

\* One turn of the loop of write_log().
WriteLog ==
  /\ stage = "log" /\ tail < Len(lh)
  /\ logged' = [logged EXCEPT ![tail + 1] = View(lh[tail + 1])]
  /\ tail' = tail + 1
  /\ UNCHANGED <<home, head, cache, dirty, lh, outstanding, committing, pc, wrote,
                 stage, up>>

\* The end of that loop, and a loop that stops one block short.
LogShort == tail + 1 >= Len(lh)
LogDone  == tail = Len(lh)

\* write_head(): the commit point.
WriteHead ==
  /\ stage = "log" /\ LogDone
  /\ head' = lh
  /\ stage' = "install"
  /\ tail' = 0
  /\ UNCHANGED <<home, logged, cache, dirty, lh, outstanding, committing, pc, wrote, up>>

\* One turn of the loop of install_trans(): the block goes from the log to its
\* home by way of its buffer, which bwrite() leaves clean.
InstallTrans ==
  /\ stage = "install" /\ tail < Len(lh)
  /\ home' = [home EXCEPT ![lh[tail + 1]] = logged[tail + 1]]
  /\ cache' = [cache EXCEPT ![lh[tail + 1]] = logged[tail + 1]]
  /\ dirty' = dirty \ {lh[tail + 1]}
  /\ tail' = tail + 1
  /\ UNCHANGED <<logged, head, lh, outstanding, committing, pc, wrote, stage, up>>

\* The end of that loop.
InstallDone == tail = Len(lh)

\* log.lh.n = 0 and write_head() erase the transaction; then commit() returns,
\* or recovery is over.
EraseHead ==
  /\ stage = "install" /\ InstallDone
  /\ lh' = << >>
  /\ head' = << >>
  /\ stage' = "none"
  /\ up' = TRUE
  /\ UNCHANGED <<home, logged, cache, dirty, outstanding, committing, pc, wrote, tail>>

\* read_head() at the start of recovery.
ReadHead ==
  /\ stage = "boot"
  /\ lh' = head
  /\ stage' = "install"
  /\ tail' = 0
  /\ UNCHANGED <<disk, cache, dirty, outstanding, committing, pc, wrote, up>>

\* The machine stops; only the disk survives.  It may stop again while it
\* recovers.
Crash ==
  /\ stage # "boot"
  /\ cache' = [b \in Blocks |-> Absent]
  /\ dirty' = {}
  /\ lh' = << >>
  /\ outstanding' = 0
  /\ committing' = FALSE
  /\ pc' = [p \in Procs |-> "idle"]
  /\ wrote' = [p \in Procs |-> {}]
  /\ stage' = "boot"
  /\ tail' = 0
  /\ up' = FALSE
  /\ UNCHANGED disk

-----------------------------------------------------------------------------
CallStep(p)   == BeginOp(p) \/ BeginSleep(p) \/ EndOp(p) \/ EndCommit(p)
CommitStep    == WriteLog \/ WriteHead \/ InstallTrans \/ EraseHead \/ ReadHead

Next ==
  \/ \E p \in Procs : CallStep(p)
  \/ \E p \in Procs, b \in Blocks, v \in Vals : LogWrite(p, b, v)
  \/ \E b \in Blocks : Bread(b) \/ Evict(b)
  \/ CommitStep
  \/ Crash

Spec == Init /\ [][Next]_vars

\* Calls end, commits and recoveries go on, and a process woken in begin_op()
\* tries again often enough to find the log free some time (strong fairness:
\* others may be faster any number of times).
Fairness ==
  /\ WF_vars(CommitStep)
  /\ \A p \in Procs : /\ WF_vars(EndOp(p)) /\ WF_vars(EndCommit(p))
                      /\ SF_vars(pc[p] = "begin" /\ BeginOp(p))

FairSpec == Spec /\ Fairness

-----------------------------------------------------------------------------
\* The disk after a crash now and a recovery: the log wins over the home blocks
\* if the header says that it was committed.
Recovered(b) ==
  IF \E i \in DOMAIN head : head[i] = b
    THEN logged[CHOOSE i \in DOMAIN head : head[i] = b]
    ELSE home[b]

\* The reservation of begin_op() is enough: no log_write() panics, whatever
\* calls come and go while one of them is still running.
NoPanic == \A p \in Procs : pc[p] = "op" => Fits

\* Nobody sleeps in begin_op() unless a call under way or a commit is going to
\* wake it: no wakeup is lost.
SleepersHaveWaker ==
  \A p \in Procs : pc[p] = "sleep" => outstanding > 0 \/ committing

\* The log implements an atomic disk: see AtomicDisk.
Abstract == INSTANCE AtomicDisk WITH
  current <- [b \in Blocks |-> IF up THEN View(b) ELSE Recovered(b)],
  stable  <- [b \in Blocks |-> Recovered(b)],
  active  <- {p \in Procs : pc[p] = "op"}

Atomic == Abstract!ASpec

\* A process asleep in begin_op() gets in, unless the machine stops.
BeginReturns ==
  \A p \in Procs : pc[p] = "sleep" ~> pc[p] \in {"op", "idle"}
=============================================================================
