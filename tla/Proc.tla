-------------------------------- MODULE Proc --------------------------------
(***************************************************************************)
(* The process subsystem of the modified xv6 kernel: the process table     *)
(* (proc.c), the ten run queues of the priority scheduler, fork, exit,     *)
(* wait, kill, sleep, wakeup, yield and setprio, the per-CPU scheduler     *)
(* loop, and the part of trap() that lets a killed process die.            *)
(*                                                                         *)
(* The grain of atomicity is the critical section of ptable.lock, which    *)
(* crosses the context switch: the scheduler acquires it and the process   *)
(* it dispatches releases it, and the other way round.  "lock" therefore   *)
(* names the CPU that holds it.  prio_table.lock is only ever taken inside *)
(* ptable.lock and never held across a switch, so it has no variable.      *)
(* What runs without the lock (the middle of fork, the start of exit, user *)
(* code) is split into steps of its own.                                   *)
(***************************************************************************)
EXTENDS Integers, Sequences, FiniteSets, SequencesExt

CONSTANTS
  NPROC,         \* param.h NPROC: slots of the process table
  CPUs,          \* the processors running scheduler()
  Free,          \* value of "lock" when ptable.lock is not held
  LOWEST_PRIO,   \* param.h LOWEST_PRIO: the last of the run queues
  NORM_PRIO,     \* priority that allocproc gives
  Events,        \* channels slept on outside wait(): ticks, disk, pipe, ...
  MaxPid,        \* bound: allocproc is not called once pids pass it
  KillPids,      \* bound: the pids that programs pass to kill()
  PrioPids       \* bound: the pids that programs pass to setprio()

Slots  == 1..NPROC
Prios  == 0..LOWEST_PRIO
NoProc == 0                 \* the null struct proc pointer, and no channel
InitProc == 1               \* initproc: userinit() takes the first slot

ASSUME NPROCAssumption == NPROC \in Nat \ {0}
ASSUME PrioAssumption  == /\ LOWEST_PRIO \in Nat
                          /\ NORM_PRIO \in Prios
ASSUME MaxPidAssumption == MaxPid \in Nat \ {0}
\* A kill of pid 1 ends in panic("init exiting"), so no program makes it.
ASSUME PidsAssumption   == /\ KillPids \subseteq 0..MaxPid /\ 1 \notin KillPids
                           /\ PrioPids \subseteq 0..MaxPid
ASSUME FreeAssumption  == Free \notin CPUs
ASSUME EventAssumption == Events \cap (Slots \cup {NoProc}) = {}

VARIABLES
  state, pid, parent, priority, killed, chan, xstate,   \* struct proc
  pc,        \* where each process is in the kernel ("user": not in it)
  child,     \* the local np of fork()
  queues,    \* prio_table.queues, each a sequence of slots
  nextpid,
  cpu,       \* c->proc of each CPU
  lock       \* the CPU holding ptable.lock, or Free

vars == <<state, pid, parent, priority, killed, chan, xstate,
          pc, child, queues, nextpid, cpu, lock>>

(***************************************************************************)
(* "sys": inside a system call; "fork", "forked": inside fork(), before    *)
(* and after np is filled in; "wait": about to take the lock in wait();    *)
(* "waiting": asleep in wait(); "exit": inside exit() by system call;      *)
(* "die": inside exit() called from trap() with interrupts disabled.       *)
(***************************************************************************)
Points == {"user", "sys", "fork", "forked", "wait", "waiting", "exit", "die"}

States == {"UNUSED", "EMBRYO", "SLEEPING", "RUNNABLE", "RUNNING", "ZOMBIE"}

Init ==
  /\ state    = [p \in Slots |-> IF p = InitProc THEN "RUNNABLE" ELSE "UNUSED"]
  /\ pid      = [p \in Slots |-> IF p = InitProc THEN 1 ELSE 0]
  /\ parent   = [p \in Slots |-> NoProc]
  /\ priority = [p \in Slots |-> IF p = InitProc THEN NORM_PRIO ELSE 0]
  /\ killed   = [p \in Slots |-> FALSE]
  /\ chan     = [p \in Slots |-> NoProc]
  /\ xstate   = [p \in Slots |-> "none"]
  /\ pc       = [p \in Slots |-> "user"]
  /\ child    = [p \in Slots |-> NoProc]
  /\ queues   = [i \in Prios |-> IF i = NORM_PRIO THEN <<InitProc>> ELSE << >>]
  /\ nextpid  = 2
  /\ cpu      = [c \in CPUs |-> NoProc]
  /\ lock     = Free

-----------------------------------------------------------------------------
\* Helpers

\* p is executing its own code on a CPU, past the release of ptable.lock that
\* ends every dispatch.
Executing(p) ==
  /\ state[p] = "RUNNING"
  /\ \A c \in CPUs : cpu[c] = p => lock # c

Children(p) == {q \in Slots : parent[q] = p}

Sleepers(ch) == {p \in Slots : state[p] = "SLEEPING" /\ chan[p] = ch}

\* A queue that serves the last to come first.
EnqueueFirst(p) == [queues EXCEPT ![priority[p]] = <<p>> \o @]

\* Append p to the run queue of its priority.
enqueue(p) == [queues EXCEPT ![priority[p]] = Append(@, p)]

\* Where p stands in the run queue i: the first match of the list walk.
IsAt(p, i, k) == /\ k \in DOMAIN queues[i] /\ queues[i][k] = p
                 /\ \A j \in DOMAIN queues[i] : j < k => queues[i][j] # p

\* Unlink p from the run queue i; a p that is not there leaves it alone.
remove_from_queue(p, i) ==
  IF \E k \in DOMAIN queues[i] : IsAt(p, i, k)
    THEN [queues EXCEPT ![i] = RemoveAt(@, CHOOSE k \in DOMAIN @ : IsAt(p, i, k))]
    ELSE queues

\* The (single) enumeration of the slots in S by increasing index.
InSlotOrder(S) ==
  {s \in [1..Cardinality(S) -> S] :
     /\ \A i, j \in DOMAIN s : i < j => s[i] < s[j]
     /\ \A p \in S : \E i \in DOMAIN s : s[i] = p}

\* What wakeup1() appends to each queue when it wakes the slots in S: it scans
\* the table by index and enqueues each sleeper at its priority.
Batches(S) ==
  {w \in [Prios -> UNION {InSlotOrder(T) : T \in SUBSET S}] :
     \A i \in Prios : w[i] \in InSlotOrder({p \in S : priority[p] = i})}

\* The family q of queues after the batch w.
AddBatch(q, w) == [i \in Prios |-> q[i] \o w[i]]

\* The first slot of the table that satisfies what the scan looks for.
IsFirst(p, S) == p \in S /\ \A q \in S : p <= q

WithPid(k) == {p \in Slots : pid[p] = k}
Unused     == {p \in Slots : state[p] = "UNUSED"}

-----------------------------------------------------------------------------
\* The scheduler loop

\* The queue that the loop over the ten levels stops at.
BestQueue(i) == queues[i] # << >> /\ \A j \in Prios : j < i => queues[j] = << >>

\* scheduler(): the first process of the first nonempty queue is dispatched,
\* and the lock stays held until that process releases it.
Schedule(c) ==
  /\ cpu[c] = NoProc /\ lock = Free
  /\ \E i \in Prios :
       /\ BestQueue(i)
       /\ queues' = [queues EXCEPT ![i] = Tail(@)]
       /\ state' = [state EXCEPT ![Head(queues[i])] = "RUNNING"]
       /\ cpu' = [cpu EXCEPT ![c] = Head(queues[i])]
  /\ lock' = c
  /\ UNCHANGED <<pid, parent, priority, killed, chan, xstate, pc, child, nextpid>>

\* The dispatched process comes out of sched() in yield() or sleep(), or starts
\* in forkret(), and releases the lock.  In wait() it keeps it: see WaitScan.
Resume(c) ==
  /\ lock = c /\ cpu[c] # NoProc
  /\ state[cpu[c]] = "RUNNING" /\ pc[cpu[c]] # "waiting"
  /\ chan' = [chan EXCEPT ![cpu[c]] = NoProc]
  /\ lock' = Free
  /\ UNCHANGED <<state, pid, parent, priority, killed, xstate, pc, child,
                 queues, nextpid, cpu>>

\* sched() has switched back to the scheduler, which clears c->proc and
\* releases the lock that the departing process had taken.
SwitchOut(c) ==
  /\ lock = c /\ cpu[c] # NoProc /\ state[cpu[c]] # "RUNNING"
  /\ cpu' = [cpu EXCEPT ![c] = NoProc]
  /\ lock' = Free
  /\ UNCHANGED <<state, pid, parent, priority, killed, chan, xstate, pc, child,
                 queues, nextpid>>

\* A yield() that lets go of the lock before it has left its stack.
YieldUnlocked(p) ==
  /\ Executing(p) /\ lock = Free
  /\ pc[p] # "die" /\ (pc[p] = "user" => ~killed[p])
  /\ state' = [state EXCEPT ![p] = "RUNNABLE"]
  /\ queues' = enqueue(p)
  /\ UNCHANGED <<pid, parent, priority, killed, chan, xstate, pc, child, nextpid,
                 cpu, lock>>

\* yield() from a timer interrupt: in kernel code whenever no spinlock is held,
\* in user code unless the process is to die instead.
Yield(p) ==
  /\ Executing(p) /\ lock = Free
  /\ pc[p] # "die" /\ (pc[p] = "user" => ~killed[p])
  /\ state' = [state EXCEPT ![p] = "RUNNABLE"]
  /\ queues' = enqueue(p)
  /\ \E c \in CPUs : cpu[c] = p /\ lock' = c
  /\ UNCHANGED <<pid, parent, priority, killed, chan, xstate, pc, child, nextpid, cpu>>

-----------------------------------------------------------------------------
\* Sleep and wakeup

\* sleep(chan, lk) on a channel other than wait()'s own: tick counter, log,
\* buffer, pipe, console.  The callers loop, so a process may sleep again.
Sleep(p, e) ==
  /\ Executing(p) /\ lock = Free
  /\ pc[p] \in {"sys", "exit", "die"}
  /\ chan' = [chan EXCEPT ![p] = e]
  /\ state' = [state EXCEPT ![p] = "SLEEPING"]
  /\ \E c \in CPUs : cpu[c] = p /\ lock' = c
  /\ UNCHANGED <<pid, parent, priority, killed, xstate, pc, child, queues, nextpid, cpu>>

\* wakeup(chan) by an interrupt handler or another process.
Wakeup(e) ==
  /\ lock = Free
  /\ state' = [p \in Slots |-> IF p \in Sleepers(e) THEN "RUNNABLE" ELSE state[p]]
  /\ \E w \in Batches(Sleepers(e)) : queues' = AddBatch(queues, w)
  /\ UNCHANGED <<pid, parent, priority, killed, chan, xstate, pc, child,
                 nextpid, cpu, lock>>

-----------------------------------------------------------------------------
\* trap()

\* A system call of a process that is not marked as killed enters the kernel;
\* that of a killed one returns at once and does nothing.
Syscall(p) ==
  /\ Executing(p) /\ pc[p] = "user" /\ ~killed[p]
  /\ pc' = [pc EXCEPT ![p] = "sys"]
  /\ UNCHANGED <<state, pid, parent, priority, killed, chan, xstate, child,
                 queues, nextpid, cpu, lock>>

\* Any system call returns, after whatever it did or after failing with -1:
\* fork() with a full table, kill(), getprio() or setprio() of no process.
SysReturn(p) ==
  /\ Executing(p) /\ pc[p] = "sys"
  /\ pc' = [pc EXCEPT ![p] = "user"]
  /\ UNCHANGED <<state, pid, parent, priority, killed, chan, xstate, child,
                 queues, nextpid, cpu, lock>>

\* A trap from user mode finds the process killed and calls exit(trapno + 1).
TrapKilled(p) ==
  /\ Executing(p) /\ pc[p] = "user" /\ killed[p]
  /\ p # InitProc
  /\ pc' = [pc EXCEPT ![p] = "die"]
  /\ UNCHANGED <<state, pid, parent, priority, killed, chan, xstate, child,
                 queues, nextpid, cpu, lock>>

\* A fatal fault in user code: the process marks itself killed and dies.
Fault(p) ==
  /\ Executing(p) /\ pc[p] = "user"
  /\ p # InitProc
  /\ killed' = [killed EXCEPT ![p] = TRUE]
  /\ pc' = [pc EXCEPT ![p] = "die"]
  /\ UNCHANGED <<state, pid, parent, priority, chan, xstate, child, queues,
                 nextpid, cpu, lock>>

-----------------------------------------------------------------------------
\* fork()

\* nextpid++
NextPid == nextpid + 1

\* allocproc(): the first unused slot becomes an embryo.  "killed" keeps the
\* value the slot had.
ForkAlloc(p) ==
  /\ Executing(p) /\ pc[p] = "sys" /\ lock = Free
  /\ nextpid <= MaxPid
  /\ \E np \in Slots :
       /\ IsFirst(np, Unused)
       /\ state' = [state EXCEPT ![np] = "EMBRYO"]
       /\ pid' = [pid EXCEPT ![np] = nextpid]
       /\ priority' = [priority EXCEPT ![np] = NORM_PRIO]
       /\ child' = [child EXCEPT ![p] = np]
  /\ nextpid' = NextPid
  /\ pc' = [pc EXCEPT ![p] = "fork"]
  /\ UNCHANGED <<parent, killed, chan, xstate, queues, cpu, lock>>

\* No page for the kernel stack or for the copy of the address space: the slot
\* is given back without the lock, and keeps its pid.
ForkAbort(p) ==
  /\ Executing(p) /\ pc[p] = "fork"
  /\ state' = [state EXCEPT ![child[p]] = "UNUSED"]
  /\ child' = [child EXCEPT ![p] = NoProc]
  /\ pc' = [pc EXCEPT ![p] = "user"]
  /\ UNCHANGED <<pid, parent, priority, killed, chan, xstate, queues, nextpid,
                 cpu, lock>>

\* The priority that fork() gives.
InheritedPriority(p) == priority[p]

\* The embryo inherits the priority and gets its parent, without the lock.
ForkCopy(p) ==
  /\ Executing(p) /\ pc[p] = "fork"
  /\ priority' = [priority EXCEPT ![child[p]] = InheritedPriority(p)]
  /\ parent' = [parent EXCEPT ![child[p]] = p]
  /\ pc' = [pc EXCEPT ![p] = "forked"]
  /\ UNCHANGED <<state, pid, killed, chan, xstate, child, queues, nextpid, cpu, lock>>

ForkPublish(p) ==
  /\ Executing(p) /\ pc[p] = "forked" /\ lock = Free
  /\ state' = [state EXCEPT ![child[p]] = "RUNNABLE"]
  /\ queues' = enqueue(child[p])
  /\ pc' = [pc EXCEPT ![p] = "user", ![child[p]] = "user"]
  /\ child' = [child EXCEPT ![p] = NoProc]
  /\ UNCHANGED <<pid, parent, priority, killed, chan, xstate, nextpid, cpu, lock>>

-----------------------------------------------------------------------------
\* exit()

\* init never calls exit() while fork() succeeds (user/init.c).
Exit(p) ==
  /\ Executing(p) /\ pc[p] = "sys" /\ p # InitProc
  /\ pc' = [pc EXCEPT ![p] = "exit"]
  /\ UNCHANGED <<state, pid, parent, priority, killed, chan, xstate, child,
                 queues, nextpid, cpu, lock>>

\* The parent of each process once p has gone: init adopts the children of p.
\* The variant forgets those that are still alive.
AdoptedZombies(p) ==
  [q \in Slots |-> IF q \in Children(p) /\ state[q] = "ZOMBIE" THEN InitProc ELSE parent[q]]
Adopted(p) ==
  [q \in Slots |-> IF q \in Children(p) THEN InitProc ELSE parent[q]]

\* wakeup1(curproc->parent), and an exit() that omits it; wakeup1(initproc) for an
\* adopted zombie.
NobodyWoken(p)   == {}
ParentWaiters(p) == Sleepers(parent[p])
OrphanWaiters(p) == IF \E q \in Children(p) : state[q] = "ZOMBIE"
                      THEN Sleepers(InitProc) ELSE {}

\* The critical section of exit(): wake the parent, pass the children to init
\* (waking it if one is a zombie), become a zombie, and leave for the scheduler.
\* A normal exit stores status << 8, a death by trap stores trapno + 1.
ExitZombie(p) ==
  /\ Executing(p) /\ pc[p] \in {"exit", "die"} /\ lock = Free
  /\ LET woken1 == ParentWaiters(p)
         woken2 == OrphanWaiters(p) \ woken1
     IN  /\ \E w1 \in Batches(woken1), w2 \in Batches(woken2) :
              queues' = AddBatch(AddBatch(queues, w1), w2)
         /\ state' = [q \in Slots |-> IF q = p THEN "ZOMBIE"
                                      ELSE IF q \in woken1 \cup woken2 THEN "RUNNABLE"
                                      ELSE state[q]]
  /\ parent' = Adopted(p)
  /\ xstate' = [xstate EXCEPT ![p] = IF pc[p] = "exit" THEN "exited" ELSE "trapped"]
  /\ \E c \in CPUs : cpu[c] = p /\ lock' = c
  /\ UNCHANGED <<pid, priority, killed, chan, pc, child, nextpid, cpu>>

-----------------------------------------------------------------------------
\* wait()

Wait(p) ==
  /\ Executing(p) /\ pc[p] = "sys"
  /\ pc' = [pc EXCEPT ![p] = "wait"]
  /\ UNCHANGED <<state, pid, parent, priority, killed, chan, xstate, child,
                 queues, nextpid, cpu, lock>>

\* p holds the lock and scans the table for its children: it has just acquired
\* it, or it has been dispatched inside sleep().
WaitScan(p) ==
  \/ Executing(p) /\ pc[p] = "wait" /\ lock = Free
  \/ /\ state[p] = "RUNNING" /\ pc[p] = "waiting"
     /\ \E c \in CPUs : cpu[c] = p /\ lock = c

Zombies(p) == {q \in Children(p) : state[q] = "ZOMBIE"}

\* The first zombie child is reaped and its slot given back.
WaitReap(p) ==
  /\ WaitScan(p)
  /\ \E z \in Slots :
       /\ IsFirst(z, Zombies(p))
       /\ state'  = [state EXCEPT ![z] = "UNUSED"]
       /\ pid'    = [pid EXCEPT ![z] = 0]
       /\ parent' = [parent EXCEPT ![z] = NoProc]
       /\ killed' = [killed EXCEPT ![z] = FALSE]
  /\ pc' = [pc EXCEPT ![p] = "user"]
  /\ chan' = [chan EXCEPT ![p] = NoProc]
  /\ lock' = Free
  /\ UNCHANGED <<priority, xstate, child, queues, nextpid, cpu>>

\* wait() returns -1: there are no children, or p was killed, or there is a
\* zombie but its status cannot be copied out to the address p passed (init
\* passes a null pointer).  Nothing but the lock is given back.
WaitFail(p) ==
  /\ WaitScan(p)
  /\ \/ Zombies(p) = {} /\ (Children(p) = {} \/ killed[p])
     \/ Zombies(p) # {} /\ p # InitProc
  /\ pc' = [pc EXCEPT ![p] = "user"]
  /\ chan' = [chan EXCEPT ![p] = NoProc]
  /\ lock' = Free
  /\ UNCHANGED <<state, pid, parent, priority, killed, xstate, child, queues,
                 nextpid, cpu>>

\* sleep(curproc, &ptable.lock): the lock is not released before the switch.
WaitSleep(p) ==
  /\ WaitScan(p)
  /\ Zombies(p) = {} /\ Children(p) # {} /\ ~killed[p]
  /\ chan' = [chan EXCEPT ![p] = p]
  /\ state' = [state EXCEPT ![p] = "SLEEPING"]
  /\ pc' = [pc EXCEPT ![p] = "waiting"]
  /\ \E c \in CPUs : cpu[c] = p /\ lock' = c
  /\ UNCHANGED <<pid, parent, priority, killed, xstate, child, queues, nextpid, cpu>>

-----------------------------------------------------------------------------
\* kill() and setprio()

\* Whether kill() makes its target runnable; one that never does, and one that
\* does not look at the state closely.
WakesNobody(t) == FALSE
WakesZombies(t) == state[t] \in {"SLEEPING", "ZOMBIE"}
KillWakes(t) == state[t] = "SLEEPING"

\* The first slot whose pid matches is marked, whatever its state, and woken
\* if it sleeps.
Kill(p, k) ==
  /\ Executing(p) /\ pc[p] = "sys" /\ lock = Free
  /\ \E t \in Slots :
       /\ IsFirst(t, WithPid(k))
       /\ killed' = [killed EXCEPT ![t] = TRUE]
       /\ IF KillWakes(t)
            THEN /\ state' = [state EXCEPT ![t] = "RUNNABLE"]
                 /\ queues' = enqueue(t)
            ELSE UNCHANGED <<state, queues>>
  /\ pc' = [pc EXCEPT ![p] = "user"]
  /\ UNCHANGED <<pid, parent, priority, chan, xstate, child, nextpid, cpu, lock>>

\* The run queues after a change of t's priority to n; and a setprio() that does
\* not move a runnable process.
NotRequeued(t, n) == queues
Requeued(t, n) ==
  IF state[t] = "RUNNABLE"
    THEN [remove_from_queue(t, priority[t]) EXCEPT ![n] = Append(@, t)]
    ELSE queues

\* A runnable process changes queues, any other only changes its priority.
SetPrio(p, k, n) ==
  /\ Executing(p) /\ pc[p] = "sys" /\ lock = Free
  /\ \E t \in Slots :
       /\ IsFirst(t, WithPid(k))
       /\ priority' = [priority EXCEPT ![t] = n]
       /\ queues' = Requeued(t, n)
  /\ pc' = [pc EXCEPT ![p] = "user"]
  /\ UNCHANGED <<state, pid, parent, killed, chan, xstate, child, nextpid, cpu, lock>>

-----------------------------------------------------------------------------
CpuStep(c) == Schedule(c) \/ Resume(c) \/ SwitchOut(c)

ForkStep(p) == ForkAlloc(p) \/ ForkAbort(p) \/ ForkCopy(p) \/ ForkPublish(p)
ExitStep(p) == Exit(p) \/ ExitZombie(p)
WaitStep(p) == Wait(p) \/ WaitReap(p) \/ WaitFail(p) \/ WaitSleep(p)
TrapStep(p) == Syscall(p) \/ SysReturn(p) \/ TrapKilled(p) \/ Fault(p) \/ Yield(p)

Next ==
  \/ \E c \in CPUs : CpuStep(c)
  \/ \E p \in Slots : TrapStep(p) \/ ForkStep(p) \/ ExitStep(p) \/ WaitStep(p)
  \/ \E p \in Slots, k \in KillPids : Kill(p, k)
  \/ \E p \in Slots, k \in PrioPids, n \in Prios : SetPrio(p, k, n)
  \/ \E p \in Slots, e \in Events : Sleep(p, e)
  \/ \E e \in Events : Wakeup(e)

Spec == Init /\ [][Next]_vars

(***************************************************************************)
(* Fairness.  A running process is interrupted by the timer (Yield), idle  *)
(* CPUs look for work and a switch that has begun ends: weak fairness.     *)
(* Strong fairness where preemption or ptable.lock suspends a step again   *)
(* and again: a process that is inside the kernel gets its work done       *)
(* between two interrupts (Advance), events go on happening, and init goes *)
(* on calling wait() (user/init.c).  Nothing forces a process to make a    *)
(* system call or, unless it is killed and its sleeping loops give up, to  *)
(* return from one.                                                        *)
(***************************************************************************)
Advance(p) ==
  \/ ForkAbort(p) \/ ForkCopy(p) \/ ForkPublish(p)
  \/ ExitZombie(p)
  \/ WaitReap(p) \/ WaitFail(p) \/ WaitSleep(p)
  \/ TrapKilled(p)
  \/ killed[p] /\ SysReturn(p)

Fairness ==
  /\ \A p \in Slots : SF_vars(Advance(p)) /\ WF_vars(Yield(p))
  /\ \A c \in CPUs : WF_vars(CpuStep(c))
  /\ \A e \in Events : SF_vars(Wakeup(e))
  /\ SF_vars(Syscall(InitProc)) /\ SF_vars(Wait(InitProc))

FairSpec == Spec /\ Fairness

-----------------------------------------------------------------------------
\* Invariants

TypeOK ==
  /\ state \in [Slots -> States]
  /\ pid \in [Slots -> 0..MaxPid]
  /\ parent \in [Slots -> Slots \cup {NoProc}]
  /\ priority \in [Slots -> Prios]
  /\ killed \in [Slots -> BOOLEAN]
  /\ chan \in [Slots -> Slots \cup Events \cup {NoProc}]
  /\ xstate \in [Slots -> {"none", "exited", "trapped"}]
  /\ pc \in [Slots -> Points]
  /\ child \in [Slots -> Slots \cup {NoProc}]
  /\ queues \in [Prios -> Seq(Slots)]
  /\ nextpid \in 2..(MaxPid + 1)
  /\ cpu \in [CPUs -> Slots \cup {NoProc}]
  /\ lock \in CPUs \cup {Free}

\* The run queues hold exactly the runnable processes, each one once and in the
\* queue of its priority: nothing that moves a process (setprio, kill, wakeup,
\* exit's wakeups, yield, fork) loses it or links it twice.
RunQueuesExact ==
  /\ \A i \in Prios : \A k \in DOMAIN queues[i] :
       /\ state[queues[i][k]] = "RUNNABLE" /\ priority[queues[i][k]] = i
       /\ \A j \in DOMAIN queues[i] : queues[i][j] = queues[i][k] => j = k
  /\ \A p \in Slots : state[p] = "RUNNABLE" =>
       \E k \in DOMAIN queues[priority[p]] : queues[priority[p]][k] = p

\* A kernel stack is used by one CPU at most, and a slot is neither dispatched
\* again nor given back while a CPU is still on its stack: only the CPU that
\* holds the lock may be on the stack of a process that is not running.
StacksExclusive ==
  /\ \A p \in Slots : state[p] = "RUNNING" => \E c \in CPUs : cpu[c] = p
  /\ \A c \in CPUs : cpu[c] # NoProc =>
       /\ \A d \in CPUs : cpu[d] = cpu[c] => d = c
       /\ state[cpu[c]] \notin {"UNUSED", "EMBRYO"}
       /\ lock # c => state[cpu[c]] = "RUNNING"

\* No wakeup of wait() is lost: a process asleep there has children, none of
\* them a zombie, and has not been killed.
NoLostExit ==
  \A p \in Slots : state[p] = "SLEEPING" /\ chan[p] = p =>
    /\ Children(p) # {} /\ Zombies(p) = {} /\ ~killed[p]

\* Every process but init has a parent that can still wait for it: exit() hands
\* the children over before the parent becomes a zombie.
Live == {p \in Slots : state[p] \in {"SLEEPING", "RUNNABLE", "RUNNING"}}

ParentsAlive ==
  \A p \in Slots \ {InitProc} :
    p \in Live \/ state[p] = "ZOMBIE" => parent[p] \in Live

-----------------------------------------------------------------------------
\* Action properties

\* A zombie stays one, its exit status untouched, until its own parent collects
\* it inside wait(): kill, wakeup and setprio never bring it back.
ZombiesOnlyReaped ==
  [][\A p \in Slots : state[p] = "ZOMBIE" =>
       \/ state'[p] = "ZOMBIE" /\ xstate'[p] = xstate[p] /\ pid'[p] = pid[p]
       \/ /\ state'[p] = "UNUSED" /\ state[parent[p]] = "RUNNING"
          /\ pc[parent[p]] \in {"wait", "waiting"}]_vars

-----------------------------------------------------------------------------
\* Liveness, under FairSpec and with one priority level

\* A killed process dies, whatever it was doing: running, asleep or in the
\* middle of fork(), exit() or wait().
KilledDies ==
  \A p \in Slots \ {InitProc} :
    killed[p] /\ p \in Live ~> state[p] \in {"ZOMBIE", "UNUSED"}

\* init collects every zombie it has inherited or created.
InitReaps ==
  \A p \in Slots :
    state[p] = "ZOMBIE" /\ parent[p] = InitProc ~> state[p] = "UNUSED"

\* Round robin: a runnable process gets a CPU.
RunnableRuns ==
  \A p \in Slots : state[p] = "RUNNABLE" ~> state[p] = "RUNNING"
=============================================================================
