# Resumen-Universidad: models, model checking and proofs

The repository collects the programs of several university courses. They are independent of each other. This directory
models those whose logic is hard to test: parts of the xv6 kernel, the launcher `exec_lines`, the expense manager AppGastos,
a web server, the search, planning and learning notebooks with the gym they use. TLC checks the models; TLAPS proves the main
results about each of them: the processes, the log and the pipes of xv6, `exec_lines`, AppGastos, the web server, the searches and
the learners, gym's environments and its Monitor. Paths below are relative to the repository:
`xv6/` is `C/Practicas ASO/xv6/`, `gym/` is `Python/IA (Verona)/Ex-3/Ex-3/tools/gym/`, `tools/` its parent and `AI_Project/` is
`Python/IA (Verona)/AI_Project/`.

## Inventory

### The xv6 kernel (`C/Practicas ASO/xv6`)

A multiprocessor Unix kernel, modified by the authors: ten run queues by priority with `getprio`/`setprio`, exit
statuses passed to `wait()`, lazy `sbrk`, `dup2`, `date`.

| Part | State | Operations | What makes it correct |
|---|---|---|---|
| processes and scheduler (`proc.c`, `trap.c`) | process table, run queues, `nextpid`, each CPU's current process, `ptable.lock` held across context switches | fork, exit, wait, kill, sleep, wakeup, yield, getprio, setprio, scheduler | run queues agree with process states; one CPU per kernel stack; no wakeup or exit lost; parents alive; a killed process dies |
| log (`log.c`) | on disk: home blocks, log blocks, header; in memory: header, `outstanding`, `committing` | begin_op, log_write, end_op, commit, recovery | the blocks of a call reach the disk together or not at all; no call runs out of log space or sleeps for ever |
| buffer cache and disk driver (`bio.c`, `ide.c`) | LRU list of buffers, reference counts, flags; queue of requests | bread, bwrite, brelse, ideintr | one buffer per block, one owner at a time, dirty buffers not recycled |
| inodes and directories (`fs.c`) | in-memory inode table, on-disk inodes, bitmap | iget, iput, ilock, itrunc, readi, writei, dirlink, namex | an inode is freed when its last link and last reference have gone, never before |
| file table (`file.c`, `sysfile.c`) | `ftable` reference counts, the descriptor table of each process | open, dup, dup2, close, pipe, fork, exit | counts equal to the references; ends of pipes closed once |
| pipes (`pipe.c`) | ring buffer, two counters, the two open flags | pipewrite, piperead, pipeclose | a FIFO stream; nobody asleep without cause; hang-up noticed |
| memory (`vm.c`, `kalloc.c`, `trap.c`) | free list, page tables, `sz` | sbrk, page fault, fork, exec, exit | each page owned once; lazy pages appear once and within `sz` |
| locks (`spinlock.c`, `sleeplock.c`) | owner, interrupt nesting | acquire, release | mutual exclusion |
| console, exec, boot, drivers, user programs | | | |

The parts interact by calls under their own spinlocks, by `sleep()`/`wakeup()` on channels, and by interrupts that enter
the kernel at any instruction with interrupts enabled. The hard behaviours are interleavings of CPUs and interrupts, a crash
between any two disk writes, and kills that arrive in the middle of a system call.

### exec_lines (`C/Practicas ASO/exec_lines/exec_lines.c`)

A batch launcher: it reads lines, runs each in a child, at most `-p` of them at once, reaps them in a `SIGCHLD` handler that
runs inside `sigsuspend()`, and stops at the first failure. A line may be a pipeline, run by a child with two children of its
own. State: the number of active children, the first error. Hard: children end in any order while main() tests its counters,
signals coalesce, and calls are interrupted.

### AppGastos (`Java/Proyecto-TDS (editar)/AppGastos`)

A JavaFX expense manager: personal and shared accounts with balances, alarms and notifications, CSV import. Each repository
rewrites one JSON file after each change. Correct: balances agree with the expenses, across restarts too. Hard: an operation
writes several files one after the other and fails half way.

### Concurrency exercises (`Java/Practicas PCD`)

Threads that take turns with semaphores (Sesion3), share three panels (EntregaEj2), a printer lock (EntregaEj1), a shared
counter (Sesion2).

### Web server (`Python/Sockets Python SSTT/web_sstt.py`)

One process per connection. State: the backlog of the listening socket, what each connection has received and sent, the
cookies of a browser. main() accepts and forks; process_web_request() reads, answers and waits with a timeout. Correct: answers
stay whole and in order, the server goes on accepting, children end. Hard: a client need not read, requests arrive cut or joined, clients fall silent
or close at any point, an exception kills a child.

### Search notebooks (`AI_Project/uninf_search_1_problem.ipynb`, `inf_search_2_problem.ipynb`, `tools/utils/ai_lab_functions.py`)

Breadth-first, depth-limited, iterative-deepening, uniform-cost, greedy and A* search. State: the fringe, the set of explored
states, a dictionary from states to nodes. Correct: a way to the goal, a shortest one where the algorithm promises it, an end
even without a solution. Hard: the heap keeps nodes that were replaced, and gives equal values in any order.

### Planning and learning notebooks (`AI_Project/MDP_3_problem.ipynb`, `RL_4_problem.ipynb`, `AI_exam_ex_3.ipynb`)

Value and policy iteration, Q-learning and SARSA on a grid world (`tools/envs/obsgrid_env.py`, `aquatic_env.py`), whose
transitions are random where there is a current. State: utilities or a table of values, the episode. Correct: the utilities are
within the error asked for, the policy arrives, what is learnt can be earned. Hard: ends of episodes, the stopping rule.

### gym (`gym/`)

A copy of OpenAI gym that the course works on.

| Part | State | Operations | What makes it correct |
|---|---|---|---|
| spaces | shape and bounds | contains, sample, to_jsonable, from_jsonable | samples belong; a batch comes back |
| environments | each its own: toy_text, algorithmic, unittest, classic_control, box2d | reset, step | observations belong to the announced space, rewards and ends follow the rules of the world, in any order of calls |
| registry and TimeLimit | registrations; the limit and the steps of an episode | register, spec, make; reset, step | episodes end |
| Monitor | statistics, videos, manifests, in memory and in a directory | reset, step, close, load_results | what is on disk is whole and complete, kills and failures included |

Shared state: algorithmic environments share the minimum length of inputs through class variables, environments share their
specification through the registry, and monitors share a directory and the numbers that `closer.py` gives.

### Concurrency exercises (`Java/Practicas PCD`), algorithms (`C++`)

Exercises of a page each on a semaphore or a lock; AVL tree, hash table, divide and conquer, greedy and backtracking solutions.

### The rest

HTML pages, resources and the front ends of gym hold no logic that a state machine would help with.

## Modules

| Module | Models | Source |
|---|---|---|
| `Proc`, `ProcProofs` | processes, run queues, scheduler, kill and the traps that make a process die | `xv6/proc.c`, `trap.c` |
| `AtomicDisk` | what the log promises | comment and interface of `xv6/log.c` |
| `Log`, `LogProofs` | the log over the buffer cache and the disk, with crashes; implements `AtomicDisk` | `xv6/log.c`, `bio.c` |
| `ByteStream` | what a pipe promises | interface of `xv6/pipe.c` |
| `Pipe`, `PipeProofs` | a pipe used by several processes, with kills; implements `ByteStream` | `xv6/pipe.c` |
| `ExecLines` | the launcher, its handler and its children | `exec_lines.c`, main() and handler |
| `Tuberia` | the child that runs a pipeline | `exec_lines.c`, ejecutar_tuberia() |
| `ExecTuberia` | the two together: an input with one pipeline in it, or none | `exec_lines.c` |
| `Cuentas`, `CuentasProofs` | AppGastos: expenses, shared accounts, balances, import, persistence | `controlador/ControladorPrincipal.java`, repositories |
| `WebServer` | the parent, its children, a browser and other clients | `web_sstt.py` |
| `ForkProofs` | proofs about `ExecLines`, `ExecTuberia` and `WebServer`, the two programs that fork a child for each piece of work | |
| `LabGrid` | ObsGrid and AquaticEnv: operators | `tools/envs/` |
| `Search`, `NotebookProofs` (proofs about `Learning` too) | nine searches and their queues, over the problems of `LabGrid` | search notebooks, `ai_lab_functions.py` |
| `Learning` | value and policy iteration, the learners, over `LabGrid` | planning and learning notebooks |
| `Spaces` | the spaces: operators | `gym/spaces/` |
| `ToyText`, `Algorithmic`, `UnitEnvs`, `Box2d` | the environments: operators over `Spaces` | `gym/envs/` |
| `Registry` | the registry and its registrations | `gym/envs/registration.py`, `__init__.py` |
| `Gym`, `GymProofs` | sessions that make, reset and step environments, with TimeLimit; composes the six above | `gym/core.py`, `wrappers/time_limit.py` |
| `Monitor`, `MonitorProofs` | the Monitor, its recorders, files and kills | `gym/wrappers/` |
| `MC...` | instances for TLC | |

### Proc

`state`, `pid`, `parent`, `priority`, `killed`, `chan`, `xstate` are the fields of `struct proc`, as functions of the slot;
`queues` is `prio_table`, each linked list as a sequence; `cpu[c]` is `c->proc`; `lock` names the CPU that holds
`ptable.lock`, which the scheduler hands to the process it dispatches and takes back when it switches out. `pc` says where a
process is in the kernel and `child` is fork()'s local `np`.

One action is one critical section of `ptable.lock`, or one access made without it. So fork() is `ForkAlloc` (the
locked part of allocproc), `ForkAbort` or `ForkCopy` (unlocked), `ForkPublish` (locked); exit() is `Exit` and `ExitZombie`;
wait() is `Wait` and then `WaitReap`, `WaitFail` or `WaitSleep`, each a scan with the lock held. A switch is two actions,
the departing one and `SwitchOut`, and so is a dispatch, `Schedule` and `Resume`: between them the lock is held by that CPU,
which is what keeps another CPU off the same kernel stack. `prio_table.lock` is only taken inside `ptable.lock`, so it has
no variable. Scans go by slot index, as in the code: `IsFirst`, `InSlotOrder`. Exit statuses are abstracted to how the
process died; file descriptors, memory and the inode of the working directory are left out.

### Log and AtomicDisk

`home`, `logged` and `head` are on the disk and survive `Crash`; the rest is memory. `log.lock` makes begin_op, log_write
and the ends of end_op atomic. The commit runs without a lock, one disk write per action (`WriteLog`, `WriteHead`,
`InstallTrans`, `EraseHead`), and so does recovery, which runs the same actions after `ReadHead`; a crash may come
between any two, also during recovery. Buffers appear in and vanish from the cache at any time (`Bread`, `Evict`), unless
`B_DIRTY` pins them. `Abstract` maps this to `AtomicDisk`: `current` is what the kernel reads, `stable` is what a
recovery would find, so that `WriteHead` is the one step that commits and all other disk writes stutter.

### Pipe and ByteStream

`p->lock` is held from one sleep() to the next, so a turn of a call between two sleeps is one action. kill() takes only
`ptable.lock`, so the turn's test of `killed` and its sleep() are two: `WriteFull` and `ReadEmpty` leave a process on its way into
sleep(), still with `p->lock` (`LockFree` keeps the others out), and `WriteSleep` and `ReadSleep` put it to sleep whether it was killed
meanwhile or not. Such a kill is lost: its target sleeps until the pipe wakes it. The counters wrap at `WRAP`, which stands for 2^32.
`Stream` maps the ring buffer to a bounded FIFO stream.

### ExecLines, Tuberia and ExecTuberia

A line is reduced to what main() distinguishes; how the input falls into blocks of `BUF_SIZE` makes no difference. `SIGCHLD`
is blocked in main() except inside sigsuspend(), hence `Deliver` is enabled only while `Suspended`; signals coalesce in
`pending`. In `Tuberia` the signal is not blocked: `Handler` runs between two steps, `Interrupted` is waitpid() returning
EINTR. Both ends of the pipe are followed through fork() and close(), because an end left open keeps a command waiting.
`ExecTuberia` joins the two: the child of one line of the input, `tuberia`, is the launcher of a `Tuberia`, and ends for main()
when that launcher does, with status 0 unless pipe() fails. A command of the pipeline whose launcher has ended runs on, as an
orphan.

### Cuentas

`cuentas` and `gastos` are the lists of the two repositories, `disco` the two files, `activa` the controller's
`cuentaActiva`, by position. One action is one operation of the controller, as a view or the terminal calls it. The program has one
thread, so the memory changes at once; what another observer, a stop, can see is the files, and `todo` holds the writes
that the operation makes, one per `Escribir`. A write may fail instead (`Fallo`): the exception is caught and printed, the
operation goes on, and the file stays as it was or is spoilt; `viejos` are the files whose last write failed. `Reinicio` is the end of
the program, at rest or between two writes, and its next start; `Rotura` is a stop inside a write. `sucesos` records what has happened that
balances do not survive: edits in the terminal, two accounts with one name, stops, and a start without what a failed write
had to say ("perdida"). Percentages are whole numbers of which `Cien` make 100%; as the form for new accounts lets a sum through that
is within 0.01 of 100, so does `CuentasAssumption`. Amounts are small integers and balances are counted in parts of `Cien`, so the
rounding of `double` is left out. Filters, categories, alarms and the views are left out.

### WebServer

One action is what a process does between two points at which it may wait: `Accept` is the parent's turn, `Recv` a recv() with
the answer to it, `SendChunk` one send(), of the headers or of a block of the file, `Timeout` the end of the select(). The socket is
blocking: `SendChunk` needs room (`Room` sends that the client has not read), and a client may never read again (`ReadAll` is nobody's
duty). recv() returns any prefix of the segments
that have arrived and the code takes them for one request, so `AnswerTo` looks at the kind of the first and the cookies of all.
`RecvRaw` and `Broken` are exceptions of a child that nothing catches, and `AcceptFails` one of the parent: ended children are
never waited for, so os.fork() may come to fail, and then the server ends while its children go on. `Interrupt` is control-C, which reaches the children too. The
texts of requests and answers are reduced to what decides the status and the length. The first recv() has no timeout, and
`Timeout` is only enabled in "select".

### LabGrid, Search and Learning

`LabGrid` holds no state: states, positions, the distribution of a step and its reward, as operators on a grid. A run of
`Search` picks a problem and an algorithm; an action is one turn of the loop of that algorithm, with the queue operations it
makes. A node is its number, its path and its value. `replace()` leaves the old node in the heap, marked, and `Pop` may take any
live node of least value. The time read for the timeout is `time_cost`, the nodes made. Depth-limited search, recursive in the
code, is a stack of calls.

`Learning` makes a phase of each loop: planning, an iteration per step; learning, a step of an episode per step. Rewards are whole;
a utility after k iterations is kept times `Scale^k`, so that the stopping rule is compared without rounding. With alpha = gamma
= 1 the tables stay whole. `max_error` is one of `MaxErrors`. The stub of policy_iteration() is modelled as it is: it returns the policy it starts from.

### Gym, Spaces and the environments

An environment is a record of `envs` with its class, state, last observation and reward, and the flags of TimeLimit. Each
environment module gives, by class, the spaces, the states that reset() may leave and the outcomes of step(); `Gym` has one
action per call: `Make` (make() of the next id of the session, which may fail in the registry), `Reset(i)` and `Step(i, a)`.
Chance is a choice over what the draw may give. Integration of the equations of motion (classic_control) and the physics
engine (box2d) are choices too, within what the code clips or checks; the terrain, the tiles, the contacts, the rewards and the
ends are the code's. Numbers with decimals are whole numbers of a unit each module names. Where the code compares a float exactly, the rounding is
kept: the wealth of a Kelly game is counted in thirds of a penny, so that there is a float just below and one just above each penny, a win
or a loss may be rounded either way, and the game ends, as in the code, below a penny or exactly at the cap. A Box casts its bounds to float32:
`Float32` gives the bound that a cap becomes. `shared` is the record of class
variables of the algorithmic environments.

### Monitor

A call changes memory at once and leaves its writes in `io`; `DoIO` makes one. `Kill` may come between any two and the next
process begins with the files. `made` and `history` are history variables: every monitor that was made, and every episode that an
environment completed, counted by the environment's own steps (`taken`), with whether step() raised before the recorder had it. The files of a
monitor carry `file_infix`, its number in the process with its uid or the number of the process; `Launch` gives a process any
of `Pids`, so a number may come again, and two plans use one uid. A video is the frames that
were encoded. Text frames use the code's own encoder; the external encoder of images is left out. `files` maps a name to what the
properties need of the file: whether it is whole, its episodes, its videos.

## Runs

| Run | Shows | Bounds, and why they are enough |
|---|---|---|
| `proc_safety` | the safety properties of `Proc` | 2 CPUs, 3 slots, 2 levels, 2 births: a parent, a child and a grandchild or an orphan, a reused slot and both orders of every pair of critical sections; kill() and setprio() of pid 0, of a dead pid and of a live one |
| `proc_live` | liveness of kill, of init's reaping and of round robin | 1 CPU, 1 level: more levels starve by design; kill of a child of init that may have a child of its own |
| `log` | `Log` implements `AtomicDisk`; nobody sleeps without someone to wake it; log_write() has room; begin_op() returns | 2 processes, 3 blocks, 2 values, a log of 4 blocks with room for two calls of `MAXOPBLOCKS` 2 that use `OpBlocks` 1: overlapping calls, absorption, a call that waits for the commit of another, crashes anywhere |
| `pipe_fifo` | `Pipe` implements `ByteStream`; no lost wakeup, also when the other side closes | buffer of 2 with counters modulo 4, so both wrap; 2 readers and 2 writers, one of each may be killed; writes that fit, that fill the buffer and that do not fit |
| `exec` | exact counter, no failure lost, one line at most after a failure, order of output with `-p 1`, and the end of everything: the input is drained and no open end of a pipe blocks anybody | every input of up to 3 lines, with a pipeline anywhere, and one of 4 commands; 2 children at once |
| `cuentas` | saved state, balances, sums and ownership of expenses | 2 accounts, one that divides all of an expense and one that leaves 0.005% to nobody, 2 expenses, files of 2 lines, 3 people of which one is a stranger to each account, one mishap per history, one file out of date |
| `web` | answers stay whole, connections are accepted, children that answered end | a browser and another client, 2 segments each, the client's of any kind; the client may stop reading, and one send fills its buffers; files of 2 blocks, so that an answer can be cut; a limit of 2 accesses |
| `web_limit` | a browser is served beyond the limit (finding) | one browser, limit of 3 |
| `notebooks` | answers, queue and end of the nine searches; utilities within the error, policies that arrive, values that can be earned | 6 grids of up to 12 cells: a start that is the goal, open (ties), with a detour, with the goal walled in, with a current; `Timeout` 12, `Limit` 2. 3 grids of up to 6 cells for the planners and learners: a pit beside the way, rocks, a current; gamma 1/2; a `max_error` that value iteration needs several sweeps for and one for which the first is its last; 2 episodes of at most 5 steps |
| `search_none` | breadth-first search returns None when there is no way (finding) | the goal walled in |
| `gym` | spaces, rules of the worlds, lengths earned, episodes end | 32 sessions: each environment with logic of its own, two of one class alive at once, unknown ids and versions; limits lowered to 3 to 20 steps, or none; Kelly games whose cap float32 rounds up and down |
| `monitor` | what is on disk under kills and failed recorders, and the merge of several runs | 11 plans of 1 to 3 monitors in at most 3 processes, of 2 process numbers, one plan for each way recording may fail, with and without autoreset, and one in which two processes have one uid |

Bounds in the models: `MaxPid` (births), `KillPids` and `PrioPids` (arguments of kill and setprio; never pid 1, whose death is a
panic), `OpBlocks` (blocks a call writes), `WRAP` (stands for 2^32), `Messages` (what a write() is given), `Killable`, `MaxLines`, `Inputs`, `MaxCuentas`, `MaxGastos`, `MaxLineas`,
`MaxSaldo`, `MaxDescuadre`, `MaxSucesos`, `MaxViejos` (AppGastos), `MaxSegs` (segments of a client), `Room` (sends in a socket's buffers), `Timeout`, `Limit`, `MaxTime` (nodes a search makes),
`MaxSteps`, `Horizon`, `Episodes`, `MaxIters`, `EpLimit` (learning), `MaxLevel` (length of algorithmic inputs), `TERRAIN_LENGTH`, `TERRAIN_GRASS`,
`TERRAIN_STARTPAD`, `Slopes`, `Points` (box2d), `Pids`, `MaxProcesses` and the numbers in each plan (Monitor). Draws from large or
continuous ranges are drawn from a few values named in `MCGym`: both ends, the boundary on each side and one inside.

CHECK_DEADLOCK is off where the system may stop: exec_lines, the server after control-C, a search, a learner, a session and the
processes of a plan end, and a pipe whose users have all closed it has no more steps.

## Fairness

* `Proc`: the timer interrupts a running process and a CPU looks for work (weak). What a process does between two
  preemptions (`Advance`) is strongly fair, since a step that needs `ptable.lock` may be disabled again and again
  by other CPUs; so are events on which processes sleep, and init's loop around wait() (`user/init.c`). No process is obliged
  to make a system call, or to return from one unless it was killed, because the sleeping loops test `killed`.
* `Log`: calls end and a commit goes on (weak); a process woken in begin_op() is scheduled often enough to find room (strong).
* `ExecTuberia`: main(), the handler and the launcher of a pipeline go on, and every command ends, those of a
  pipeline that wait for the other side only when it has gone (weak: no step of one process disables those of another).
* `WebServer`: the parent and each child are scheduled (weak). Clients owe nothing: a send() to a client that does not read is not
  enabled, so no fairness moves it, and `IdleEnds` says of a connection only that its child ends if its client goes on reading or
  closes (`Reads`). `Accepts` asks nothing of clients.
* `Search`: the loop of one program goes on (weak). `Gym`: the agent goes on acting (weak), nothing is asked of chance.

The properties of `Cuentas`, `Learning`, `Monitor` and `Pipe` are safety properties, checked without fairness.

## Proofs

`ProcProofs` proves for any number of slots, CPUs and priority levels:

* `TypeCorrect`: Spec => []TypeOK
* `RunQueuesCorrect`: Spec => []RunQueuesExact
* `StacksCorrect`: Spec => []StacksExclusive

They rest on the named assumptions on the constants and on one inductive invariant, `CoreInv`, the conjunction of
`TypeOK`, `KidsOK`, `RunQueuesExact` and `StacksExclusive`. `KidsOK` is the strengthening: while a process is inside fork()
its `child` is an embryo that no other fork() owns, so that publishing it does not enqueue a process twice and giving
it back does not free a slot in use. The run queue argument needs that a process which yields, sleeps or is dispatched is on
exactly the CPU whose step it is (`StacksExclusive`). Lemmas on sequences (`remove_from_queue`, batches of wakeups) come first;
then one lemma per conjunct of the invariant with one step per action; `CoreCorrect` combines them.

The second part of `ProcProofs` adds, under the same assumptions:

* `NoExitLost`: Spec => []NoLostExit
* `ParentsLive`: Spec => []ParentsAlive
* `ZombiesKept`: Spec => ZombiesOnlyReaped

The invariant is `CoreInv` with `FamilyOK`: the two properties, that init neither ends nor has a parent (`InitOK`), and
`ParentsOK`, which says that a free slot has no parent, that nobody is his own, and that an embryo gets its parent between the two
halves of fork() while the process inside is alive. Without the last an exit() might miss a child that is being made.
Most actions make, reap and adopt nobody, and `FamilyFrame` deals with them together; fork(), exit() and wait() have
their own lemmas.

`ForkProofs` proves of `ExecLines`, for any `-p` and any length of the input:

* `LinesTypeCorrect`: Spec => []TypeOK
* `CounterCorrect`: Spec => []CountExact
* `FailuresCorrect`: Spec => []NoFailureLost
* `OneLineCorrect`: Spec => []OneLineAfterError

The first two rest on the inductive invariant `CountInv`, which adds to them that the input is a bounded sequence of lines
(`InputOK`) and that the lines from the current one on have no child (`FreshLines`): so a launch adds one to the set of
children not waited for and a wait takes one out (`LaunchAlive`, `ReapAlive`), as the counter does. `FailuresCorrect` adds
`FailureInv`: a failed child that was waited for has been noticed, and after a good end nothing is left to wait for, which
needs `CountExact`, because main() decides that nobody is left by looking at the counter. `OneLineCorrect` adds `LateInv`: before a failure is known
no child is beyond `linea_error`, and a line that waits for a place will be the first to be, so one is let through and no second.

Its second part carries this over to `ExecTuberia`, which the run checks, and in which a child may be a pipeline:

* `PipelineIsChild`: SpecT => Spec, what the pipeline does between its fork() and its end being no step of main()
* `PipelineSafe`: SpecT => [](CountExact /\ NoFailureLost /\ OneLineAfterError)
* `OutputOrdered`: SpecT => []OutputInOrder

The last needs `WaitsOK`: a SIGCHLD is pending only when a command has ended, so an interrupted waitpid() means that one
is gone; after the first wait that is one of the two, so nothing but the end of the reader is left to end the second.

Its last part proves of `WebServer`, for any connections, limit of accesses, length of files and segments that clients may send, from
`WebAssumption` (the limit is at least 2, a client sends finitely many segments):

* `WebTypeCorrect`: WebSpec => []WebTypeOK
* `AnswersWhole`: WebSpec => []WholeAnswers

The inductive invariant `IInv` adds to these that a child which has not read has not answered (`Unanswered`), so that the first
answer comes after nothing, and that a connection of the backlog is "queued" and in it once (`BacklogExact`, what the kernel's
listen queue is), so that a fork never touches a connection which already has a child. An action of one connection is dealt with by `OneConn`; `AnswerShape`
shows that each answer is well formed, with `CounterType` for the cookie, which needs the least element of a set of positions.

`LogProofs` proves for any finite set of processes, any blocks and values and any size of the log, from the assumptions of `Log`
(a call's reserve fits in the log, a block not in the cache is told from one that is):

* `SleepersWoken`: Spec => []SleepersHaveWaker
* `LogIsAtomic`: Spec => Atomic, the refinement of `AtomicDisk`

The inductive invariant `LogInv` adds to `SleepersHaveWaker` the types, `CallsOK` (`outstanding` is the number of calls, one
process commits, and calls and commits exclude each other) and `DataOK`, which says where the blocks are at each stage: while calls
gather blocks (`Gathering`), until the header is on the disk (`Logging`), while they are installed (`Installing`) and after a
crash (`Booting`); a clean buffer agrees with the disk (`CacheOK`). From it each step of `Log` is one of `AtomicDisk`:
`WriteHead` is `ACommit`, `Crash` is `ACrash`, the calls are the calls, and every other write to the disk, those of a recovery
included, leaves what a later recovery would find as it was. `InCall` shows on the way that end_op() never meets a commit in
progress, so its panic cannot happen.

* `ReserveIsEnough`: ASSUME OpBlocks < MAXOPBLOCKS, OpBlocks < LOGSIZE - 1 PROVE Spec => []NoPanic

log_write() panics one block before the log is full, so the theorem says how much less than it reserves a call may write: one
block is enough. (With `OpBlocks = MAXOPBLOCKS` the property fails.) Instead of the sum of what the calls may still write, the
invariant `RoomOK` counts a set: `Room`, a pair for each block that each call may still write. While a call runs,
the blocks in the log and those of `Room` leave two blocks free; begin_op() adds `OpBlocks` pairs where its guard left
`MAXOPBLOCKS`, and a log_write() moves one from `Room` to the log.

`PipeProofs` proves for any readers, writers, kills and writes, any size of the buffer and any width of the counters which that
size divides (`SizeAssumption`):

* `PipeSleepersIdle`: Spec => []SleepersIdle
* `PipeIsStream`: Spec => Fifo, the refinement of `ByteStream`

Lemmas on `%` come first: a sum or a difference of two counters wraps at most once (`WrapSum`, `WrapDifference`), and
`PIPESIZE` positions in a row are different places of the buffer (`AtApart`), also across the point where a counter returns to zero,
because `PIPESIZE` divides `WRAP` (`ShiftWrap`). The inductive invariant `PipeInv` adds to `SleepersIdle` the types, that the buffer
never holds more than it can (`InBounds`) and that calls are made by those who hold the end and have something to write
(`EndsOK`). `SleepersIdle` speaks of those who are only about to sleep too: what they found when they gave up is still so when they sleep,
because they keep `p->lock`, and a kill in between changes nothing that it says. `PutEffect`, `DataAfterPut` and `GetEffect` say what a turn of a call does to the bytes; with them a turn of a
writer is a `Put` or nothing, the end of a read is a `Get`, and all else leaves the bytes alone.

`NotebookProofs` proves for problems of any size, that is, any finite set of states, any actions with any possible
outcomes and any heuristics (`SearchAssumption`):

* `QueueCorrect`: Spec => []QueueExact
* `PathsAreWalks`: Spec => [](result.kind = "path" => Walk(result.path) /\ (alg \in BFS \/ StateOf(result.path) = P.goal))
* `AnswersHold`: Spec => [](NoChance /\ Consistent => AnswersRight)

`QueueInv` adds to `QueueExact` the types and that numbers tell nodes apart (`IdsUnique`): `RemoveLive`, `AddLive` and `ReplaceLive`
say what the three operations do to the live nodes. `Sound` adds that every path kept, in a node or in the frames of the
recursion, is a walk, and gives `PathsAreWalks`.

That an answer is a shortest one cannot hold of every problem: where a move may end in several cells a search that tries each
action once may not see the outcome that the shortest way needs, and A* trusts its heuristic. The theorem is about the problems of
the notebooks, and excepts breadth-first search when there is no way, which returns the path to its last node (`PathToNowhere`, the finding
`search_none`). Their mazes have moves without chance (`NoChance`) and whose heuristic, the l1 norm of a grid, changes by one
at most in a move and is zero at the goal (`Consistent`). The invariants are `Ordered`, the order in which a queue gives its nodes
(breadth-first: the nodes in it are at the depth of the one looked at or the next, older ones first; the others: by their value,
except the first node, whose value is not computed), and one per family of searches that says where every way to the goal goes on:

* `TreeInv`: through a live node or an action still to be tried of the node looked at, since a tree search drops nothing else;
* `GraphInv`: from an explored state to one that is explored, or that waits at no more than a step further (`Closed`); so the node
  taken from the queue has a shortest path to its state (`Frontier`), which is what lets a graph search forget the others;
* `DeepInv`: through an action that some frame has still to try, or it is longer than the limit and some frame has noted a cut.

When nothing is left where a way could go on there is none, and when a goal is found what is left is not shorter
(`Answered`). `DistanceOf` ties this to `Distances`, the recursive function of the property: the states within n steps are where walks of at most
n steps end (`WithinIsEnds`). Facts about the length of a path are not proved by the induction theorems of the library, which take an
operator, but at a least counterexample (`LeastNumber`, from the well-foundedness of the order of the natural numbers).

It also proves, for `Learning` and any finite grid, rewards, moves, draws and policies (`GridType`), that value iteration and the agents
that learn never promise what cannot be had:

* `LearnedIsAttainable`: Spec => []Attainable

`Earned[n]` is the set of what some history of at most n steps earns, a recursive function: it is shown to be what its definition says
(`EarnedIs`), to grow with n (`EarnedGrows`) and to take in what a step earns before a history (`EarnedStep`), each by induction on n. The
invariant `LearnInv` adds to the types that a value in the table is zero or in `Earned[steps]`, that the rows of the cells where an
episode ends (`Over`) stay zero, and that the agent is not in one of those while it learns. Without the rows of the ending cells
the invariant is not inductive: an update would add what follows the end of an episode.

`MonitorProofs` proves for any sequences of monitors with any arguments, any number of processes one after another over the
directory, with any numbers of their own, and kills between any two writes (`MonitorAssumption` only says what the arguments of Monitor() are):

* `DirectoryAlwaysSound`: Spec => []DirectorySound
* `StatsOnlyGrow`: Spec => StatsGrow
* `ClosedIsKept`: Spec => []ClosedKept
* `MergeIsExact`: Spec => []MergeExact

The first two are about the directory after each single write, so the invariant `IInv` is about the writes that are still to be
done: `Pending` says that whatever they rename into place is whole, and is the statistics of the episodes of the call or a manifest that
comes when the statistics are there. It holds of the writes of one call (`FlushPending`, `ClosePending`, `ResetCalls`,
`StepCalls`, `CloseCalls`), of their concatenation with what a previous call left (`PendingConcat`) and of the rest after one
is done (`RestPending`), so a kill at any point leaves a sound directory. `Running` adds that a monitor whose statistics are
closed and which is still enabled has a recorder that cannot be closed (`HalfClosed`), and `Made` that the monitors of a process carry
numbers that its closer has given. So a name that is in use can only be another process's (`StartMade`), which is the exception that
`StatsGrow` makes (`Shared`): the code takes uid or os.getpid() for the name and does not look whether it is taken.

The third is about the end of the writes: `Leads(s, F, G)` says that the writes s take the directory F to G, and it composes
(`LeadsConcat`, `LeadsTail`). The invariant `Recorded` speaks of that directory (`Settled`), where the manifest of a
monitor lists its videos (`Shelf`), and of the episodes: those its statistics hold are those it has in `history`, but for those that were
lost (`Times`, `Mine`).

The fourth needs an invariant of every statistics file and not only of the last one, `Faithful`: a file holds the first episodes
that `history` has of one of the monitors with its name, each once, in order and with its length (`Full`), and a manifest names the
statistics of the same name. The recorder's count of steps is that of the environment unless step() lost the last episode (`Counted`), so a
length may only be wrong after such a loss (`LostBefore`). A prefix of such a list is such a list (`PrefixFull`), so a kill between two flushes leaves
one. The merge is then reasoned about as a list: the statistics put one after another have the episodes of the
parts and no time twice (`FlattenParts`, by induction on the definition of `FlattenSeq` in the community modules), and `argsort` puts
each in the place that says how many come before, which is a bijection (`RankOnto`, by counting: an injection of a finite set into itself
is onto), so nothing is lost and times increase (`SortFacts`).

`CuentasProofs` proves for any accounts, people and amounts, any percentages that add up to 100 give or take 0.01, and any number of
expenses, mishaps, failed writes and lines of a file (`CuentasAssumption` is what the form for new accounts lets through,
`ControladorCrearCuentaCompartida.java:167`):

* `AllIsSaved`: Spec => []Guardado
* `BalancesAreRight`: Spec => []Cuadran
* `BalancesAddUp`: Spec => []SumaCero
* `NoOrphans`: Spec => []SinHuerfanos

Sums come first, from the definition that the community modules give (the sum over a set is an element plus the sum over the rest):
`TotalWith`, `TotalPlus`, `TotalTimes`, `TotalRest` and `TotalRenamed` are proved from it by adding the elements of a finite set one by one
(`ByElements`). With them, what the members gain when one pays adds up to the part of it that the percentages give to nobody, zero if they add up to 100 (`GainsCancel`),
and what the expenses of a list give to a member changes by one term when an expense is added, removed or replaced
(`ParteAppend`, `ParteRemove`, `ParteExcept`).

The invariant `Inv` has three parts. The first, `Seria`, speaks of the disk as it would be if no write had failed: the files whose last
write went well are as there, and `Leads` says that the writes which are left take it to what is in memory, and that it is sound (`Sano`)
after each of them: a stop between two writes may leave any of those disks. A write of a list that failed is made good by the next one of that list,
which is whole, so only a start in between loses something. `Sano` is what the two files
satisfy at all times: every expense has its account and, while no name was used twice, no file torn and nothing lost, names tell accounts apart,
the payer of a shared expense is a member, and balances add up to zero if the percentages make 100. Who pays must be in it because a deletion
gives back to the payer, and cancels only if he is a member; the names, because a new account of a name in use would claim
the expenses of the other. The second part is that the active account exists, and the third that the balances in memory are those
that the expenses give (`Cuadra`); it does not hold of a disk between two writes, where only one file is new. Each operation is a chain
of lists, one for each write (`LeadsConcat`). A deletion writes once per expense and an import twice per line, so those chains are
built by induction on the list (`Borrando`, `Importando`): the one takes out the first expense of a name, which is the one it
is looking at. `ParteDebido` ties `Cuadra` to what `Cuadran` says a member is owed, and `PartesResto` adds this up over the members: the balances
of any account that the form lets through add up to what its percentages leave out of its expenses.

`GymProofs` proves for any number of sessions of any length, with any arguments that the constructors are made for, any
draws and any agent:

* `WorldIsSound`: Spec => []WorldSound
* `SpacesAreKept`: Spec => []SpacesKept
* `LevelsAreEarned`: Spec => LevelsEarned

`SessionsAssumption` says which arguments those are (`KwOK`, one line per class: positive sizes, cards from 1 to 10, a start
below the cap, a map of the lake with a way from its start to its goal) and that the actions of an agent belong to the space that is
announced to it; the sessions of `MCGym` satisfy it, and TLC evaluates it. Of `Float32` nothing is assumed but that it gives natural numbers
(`Float32Assumption`): `SpacesKept` makes an exception where a bound comes out below the cap and the wealth above the bound (`BoundLost`). One of its lines is about what is external to the code: a
landing craft moves at most seven tenths of the half screen in a step of the physics engine, so that it cannot earn by its shaping in
one step what a landing pays. A map of the lake that the environment draws for itself needs no assumption: `RandomMapsOK` shows that each one has a way
to the goal.

The inductive invariant `GymInv` has, for every environment, `EnvInv`: its arguments and actions are sound, its flags agree with each
other, and `ClassInv`, the invariant of its class. That is the part of `WorldSound` which speaks of it, with its observation in its space
and what its steps need: for a taxi, that its state decodes to a place of the grid; for a pole, that the flag `steps_beyond_done`
tells whether it has fallen; for the cube, that the potential kept is the distance to the hole; for the wallets, that nothing is beyond the cap;
for a tape, that what is paid is twice what was written (`TapeInv`). There are two lemmas per class, for reset() and for step(),
over the spaces of the class. Four need an argument of their own:

* `RandomMapsOK`: is_valid() tries the paths without a repeated cell. Every path it finds is one along which the cells reached grow
  (`WayToGoal`), by induction on its length. Here and for the dealer and the terrain the recursive functions of the model are shown to be what
  their definitions say by `Iterates` and its like, since the library's theorem on recursive functions takes an operator.
* `DealerIs`: a hand gains at least one point a card, so after 17 cards the dealer has 17 points.
* the terrain of `BipedalWalker`: one counter measures grass, pits and stairs, and the invariant of the drawing (`GroundOK`) says how far
  behind the pen each obstacle ends (`EndBy`, `Room`), that a pit being drawn has its second wall where the counter will end
  (`Behind`), and that the ground is level between the two walls of a pit (`Levels`). It is shown of every point drawn, whatever the draws.
* the track: `FrictionDetector` pays the difference of two sets of tiles, and the cardinality of a union of disjoint finite sets gives that what was paid is
  what was visited (`OntoIs`), however wheels come and go.

`LevelsAreEarned` needs `Earning`: of the record of shortfalls, which is trimmed to the window and emptied at a promotion, every
stretch at the end that allows a promotion was made by solved episodes in a row, so a full window means a full streak. `ShortIsSolved` says that
an episode is only as short of the best reward as promotion allows when it was solved. Without the bound on the length of the record the invariant
is not inductive.

Only model-checked: `WithinError` and `PlanArrives` of `Learning`. Whether a
greedy plan arrives depends on the rewards, and `WithinError` adds up powers of gamma along a run of sweeps: both are claims about
numbers more than about steps. Liveness under fairness (`Ends`, `EpisodesEnd`, and every
other property with `~>`) is out of the prover's reach and stays with TLC.

## Findings

* `web_limit`: the server sends its counter under the name `cookie_counter_65YY` and reads `cookie_counter_6535`, so no browser
  is ever told that it has asked too often.

* `search_none`: "None if no solution is found", says the notebook of breadth-first search (`uninf_search_1_problem.ipynb:48`), and
  lines 120 and 174 return the path to the last node looked at.

Facts that the models showed and that have no run of their own:

* `xv6/log.c:132`: begin_op() counts the calls in progress with `MAXOPBLOCKS` each against `LOGSIZE`, and log_write() panics
  one block earlier (`log.c:218`). Calls that use all they reserved can meet that panic; `OpBlocks` leaves one block unused.
* `xv6/proc.c:516`: kill() of pid 0 marks an unused slot and allocproc() does not clear the mark: the next process of that slot
  is born killed.
* `xv6/pipe.c:86-88`: a writer killed on a full buffer returns -1 without a wakeup for the bytes it has put in, so a reader that
  sleeps may go on sleeping beside them until the next write or the close (`SleepersIdle` allows it, and says when).
* `xv6/pipe.c:86`, `107`: `killed` is tested before sleep() takes `ptable.lock`, so a kill in between wakes nobody and its target sleeps on,
  killed, until the other end of the pipe wakes it.
* `exec_lines.c:312`: with `-p 2` the line blamed for a failure is the last one launched, not the one that failed.
* `exec_lines.c:211`: the child of a pipeline may end, and the next line start, while the writer still runs.
* `exec_lines.c:270`: a last line that lacks its newline is dropped (`AtEnd`).
* `ControladorPrincipal.java:687-696`: the import of a file with a new shared account leaves an account without members and drops
  its expenses. `ControladorPrincipal.java:163`: an expense edited in the terminal is taken back from its payer and not charged
  again (`editarCompartido`).
* `RepositorioGastos.java:64`, `RepositorioCuentasComp.java:59`: an IOException is printed and swallowed, so a screen shows what no file has; it is
  lost if the program ends before the next write of that file.
* `ControladorCrearCuentaCompartida.java:167`: percentages need only add up to 100 within 0.01, and the balances of such an account do not add up
  to zero (3 x 33.333).
* `web_sstt.py:227`: send() has no timeout, so a client that does not read keeps its child for ever. `web_sstt.py:299`: children are never waited for and
  nothing catches the exception of os.fork(), which ends the server.
* `gym/wrappers/monitoring/stats_recorder.py:77-79`: types are recorded at reset and episodes at their end, so the two columns can
  differ in length. `monitor.py:243`: the file `manifest~` a killed process leaves is taken for a manifest, and load_results()
  fails. `video_recorder.py:216`: after a refused first text frame close() raises and the monitor's manifest is not written. A first frame that
  raises makes the next reset use the episode number again.
* `monitor.py:99`: names come from uid or os.getpid(), and Monitor() does not look whether they are in use. With `resume`, whose
  documentation says that the training data is retained, an equal uid or a process number given again overwrites the statistics of the earlier run.
* `monitor.py:165-172`: with autoreset the next episode begins before the last one is counted; if its video or its flush raises, the last episode
  is in no statistics and its steps are counted with the next one.
* `gym/envs/toy_text/kellycoinflip.py:173`: `if coinflip:` counts losses as wins, though the documentation (98-103) tells wins from losses:
  `losses` stays 0. `GeneralSound` says what the code does.
* `kellycoinflip.py:70`: rounding ends a game with what ought to be a penny left (25.0 less 24.60 less 0.39), and can pass just below the cap.
* `gym/spaces/box.py:35`: bounds are cast to float32. A cap above 2^24 dollars, or of pennies that float32 rounds down, is larger than the bound it becomes, and
  the observation of a player who reaches it is outside the space, against `test_envs.py:26`. `SpacesKept` excepts those (`BoundLost`).
* `gym/envs/box2d/lunar_lander.py:68`, `bipedal_walker.py:99`: a leg that touches two pieces of ground and leaves one reports no
  contact. `bipedal_walker.py` divides the width of stairs with `/`, which gives fractions in Python 3.
* `MDP_3_problem.ipynb:173`: max_error is "the maximum error allowd in the utility of any state". Its
  delta leaves out the final cells, so if a step costs less than max_error*(1-gamma)/gamma it stops after the first sweep, with the
  utilities of the cells next to the goal still to come. `MCNotebooks` has a max_error (3) for which it does. `WithinError` says what then is
  true (`ErrorAllowed`: the reward of a final cell, discounted) and that max_error is kept whenever there is a second sweep.
* A Box of integers with a negative upper bound may give samples outside itself.

## Not modelled, and why

* xv6: inodes and directories, the file table, memory, sleep locks, the console, exec, drivers. The first three are stateful and
  worth models of their own; page tables and ELF images are data, drivers are register writes. Of the buffer cache `Log` has what the log
  needs. The models take a spinlock's critical section as atomic.
* AppGastos: filters, categories, alarms (sequential sums over dates) and the JavaFX views, except what the terminal passes to the
  controller. Balances are whole numbers of parts of a hundredth, without the rounding of `double`.
* PCD exercises and the C++ algorithms: small exercises on a library, and sequential algorithms.
* gym: simulators (mujoco, robotics, atari), rendering, play, the image encoder, seeding beyond "any draw". Equations of motion
  and physics are choices, as said above. Of the floats only those that the code compares exactly are rounded (Kelly games).
* Monitor: the column of types, which load_results() puts in order as if it had one entry for each episode; the image encoder.
* Learning: alpha and gamma other than 1, and plots.

## Plan

1. Done: the modules of the table above, twelve runs and the theorems of the section above.
2. Left, in order of worth: xv6 `Files` (file table, descriptors, dup2) and `Inode` (links and references); `Memory` (lazy sbrk,
   ownership of pages); `Bio` (buffer cache, disk queue).
3. Proofs worth adding: `WithinError`, a contraction argument; `PlanArrives` for rewards under which every step costs.
