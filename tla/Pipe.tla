-------------------------------- MODULE Pipe --------------------------------
(***************************************************************************)
(* A pipe of xv6 (pipe.c): pipewrite, piperead and pipeclose by several    *)
(* processes, with sleep, wakeup and kill.  p->lock is held from one sleep *)
(* to the next, so each turn of a call is one step, but kill() takes only  *)
(* ptable.lock: it may come between the turn's test of killed and sleep(). *)
(* The counters are unsigned and wrap around.                              *)
(***************************************************************************)
EXTENDS Integers, Sequences

CONSTANTS
  Readers, Writers,  \* processes that hold the read and the write end at first
  Bytes,
  PIPESIZE,          \* pipe.c: bytes in the buffer
  WRAP,              \* the counters are taken modulo WRAP (2^32 in C)
  Messages,          \* bound: what a write() may be given
  Killable           \* bound: processes that may be killed

ASSUME SizeAssumption == /\ PIPESIZE \in Nat \ {0} /\ WRAP \in Nat
                         /\ WRAP > PIPESIZE /\ WRAP % PIPESIZE = 0
ASSUME BoundAssumption == Messages \subseteq Seq(Bytes) \ {<< >>} /\ Killable \subseteq Readers \cup Writers

Procs == Readers \cup Writers

VARIABLES
  data, nread, nwrite,    \* struct pipe
  readopen, writeopen,
  rd, wr,                 \* who still holds the read end, the write end
  pc,
  rest,                   \* the bytes a writer has still to put in
  want,                   \* the number of bytes a reader asked for
  out,                    \* the bytes that the last read() returned
  killed

vars == <<data, nread, nwrite, readopen, writeopen, rd, wr, pc, rest, want, out, killed>>

Init ==
  /\ data \in [0..(PIPESIZE - 1) -> Bytes]
  /\ nread = 0 /\ nwrite = 0
  /\ readopen = TRUE /\ writeopen = TRUE
  /\ rd = Readers /\ wr = Writers
  /\ pc = [p \in Procs |-> "user"]
  /\ rest = [p \in Procs |-> << >>]
  /\ want = [p \in Procs |-> 0]
  /\ out = << >>
  /\ killed = [p \in Procs |-> FALSE]

-----------------------------------------------------------------------------
\* The bytes in the buffer, by modular arithmetic on the counters.
Count == (nwrite - nread) % WRAP

Contents == [i \in 1..Count |-> data[((nread + i - 1) % WRAP) % PIPESIZE]]

Full  == nwrite = (nread + PIPESIZE) % WRAP
Empty == nread = nwrite

\* Nobody holds p->lock on his way into sleep().
LockFree == \A p \in Procs : pc[p] \notin {"rgo", "wgo"}

\* wakeup(&p->nread) and wakeup(&p->nwrite), and a wakeup of nobody.
NobodyWoken  == [p \in Procs |-> pc[p]]
ReadersWoken == [p \in Procs |-> IF pc[p] = "rsleep" THEN "read" ELSE pc[p]]
WritersWoken == [p \in Procs |-> IF pc[p] = "wsleep" THEN "write" ELSE pc[p]]

\* Where the k-th byte put in from now on goes, and the place after that.
PlaceNext(k) == ((nwrite + k) % WRAP) % PIPESIZE
Place(k) == ((nwrite + k - 1) % WRAP) % PIPESIZE

\* The bytes of rest[p] that fit: the turns of the for loop until it finds the
\* buffer full.
Turns(p) == IF Len(rest[p]) <= PIPESIZE - Count THEN Len(rest[p]) ELSE PIPESIZE - Count

-----------------------------------------------------------------------------
\* write(fd, s, Len(s)) and pipewrite()

Write(p, s) ==
  /\ pc[p] = "user" /\ p \in wr /\ ~killed[p]
  /\ pc' = [pc EXCEPT ![p] = "write"]
  /\ rest' = [rest EXCEPT ![p] = s]
  /\ UNCHANGED <<data, nread, nwrite, readopen, writeopen, rd, wr, want, out, killed>>

\* The bytes that fit go in.
PutBytes(p) ==
  /\ data' = [i \in DOMAIN data |->
                IF \E k \in 1..Turns(p) : Place(k) = i
                  THEN rest[p][CHOOSE k \in 1..Turns(p) : Place(k) = i]
                  ELSE data[i]]
  /\ nwrite' = (nwrite + Turns(p)) % WRAP
  /\ UNCHANGED <<nread, readopen, writeopen, rd, wr, want, out, killed>>

\* All of them did: readers are woken and the call returns.
WriteEnd(p) ==
  /\ pc[p] = "write" /\ PutBytes(p)
  /\ Turns(p) = Len(rest[p])
  /\ rest' = [rest EXCEPT ![p] = << >>]
  /\ pc' = [ReadersWoken EXCEPT ![p] = "user"]

\* The buffer is full and nobody can make room, or the writer was killed: -1.
\* What is in stays in, and no reader is told.
WriteFail(p) ==
  /\ pc[p] = "write" /\ PutBytes(p)
  /\ Turns(p) < Len(rest[p])
  /\ ~readopen \/ killed[p]
  /\ rest' = [rest EXCEPT ![p] = << >>]
  /\ pc' = [pc EXCEPT ![p] = "user"]

\* The buffer is full: readers are woken, and the writer is about to sleep.
WriteFull(p) ==
  /\ pc[p] = "write" /\ PutBytes(p)
  /\ Turns(p) < Len(rest[p])
  /\ readopen /\ ~killed[p]
  /\ rest' = [rest EXCEPT ![p] = SubSeq(@, Turns(p) + 1, Len(@))]
  /\ pc' = [ReadersWoken EXCEPT ![p] = "wgo"]

\* sleep(): from p->lock to ptable.lock, and asleep, killed meanwhile or not.
WriteSleep(p) ==
  /\ pc[p] = "wgo"
  /\ pc' = [pc EXCEPT ![p] = "wsleep"]
  /\ UNCHANGED <<data, nread, nwrite, readopen, writeopen, rd, wr, rest, want, out, killed>>

-----------------------------------------------------------------------------
\* read(fd, s, n) and piperead()

Read(p, n) ==
  /\ pc[p] = "user" /\ p \in rd /\ ~killed[p]
  /\ pc' = [pc EXCEPT ![p] = "read"]
  /\ want' = [want EXCEPT ![p] = n]
  /\ UNCHANGED <<data, nread, nwrite, readopen, writeopen, rd, wr, rest, out, killed>>

\* Nothing to read yet: the reader is about to sleep.
ReadEmpty(p) ==
  /\ pc[p] = "read" /\ Empty /\ writeopen /\ ~killed[p]
  /\ pc' = [pc EXCEPT ![p] = "rgo"]
  /\ UNCHANGED <<data, nread, nwrite, readopen, writeopen, rd, wr, rest, want, out, killed>>

ReadSleep(p) ==
  /\ pc[p] = "rgo"
  /\ pc' = [pc EXCEPT ![p] = "rsleep"]
  /\ UNCHANGED <<data, nread, nwrite, readopen, writeopen, rd, wr, rest, want, out, killed>>

\* Nothing to read, and the reader was killed: -1.
ReadFail(p) ==
  /\ pc[p] = "read" /\ Empty /\ writeopen /\ killed[p]
  /\ pc' = [pc EXCEPT ![p] = "user"]
  /\ want' = [want EXCEPT ![p] = 0]
  /\ UNCHANGED <<data, nread, nwrite, readopen, writeopen, rd, wr, rest, out, killed>>

\* What is there is copied out, nothing at the end of file; writers are woken.
ReadEnd(p) ==
  /\ pc[p] = "read" /\ (~Empty \/ ~writeopen)
  /\ LET n == IF want[p] <= Count THEN want[p] ELSE Count
     IN  /\ out' = SubSeq(Contents, 1, n)
         /\ nread' = (nread + n) % WRAP
  /\ pc' = [WritersWoken EXCEPT ![p] = "user"]
  /\ want' = [want EXCEPT ![p] = 0]
  /\ UNCHANGED <<data, nwrite, readopen, writeopen, rd, wr, rest, killed>>

-----------------------------------------------------------------------------
\* pipeclose(), when the last process that holds an end closes it.
CloseRead(p) ==
  /\ pc[p] = "user" /\ p \in rd /\ LockFree
  /\ rd' = rd \ {p}
  /\ IF rd' = {} THEN readopen' = FALSE /\ pc' = WritersWoken
                 ELSE UNCHANGED <<readopen, pc>>
  /\ UNCHANGED <<data, nread, nwrite, writeopen, wr, rest, want, out, killed>>

CloseWrite(p) ==
  /\ pc[p] = "user" /\ p \in wr /\ LockFree
  /\ wr' = wr \ {p}
  /\ IF wr' = {} THEN writeopen' = FALSE /\ pc' = ReadersWoken
                 ELSE UNCHANGED <<writeopen, pc>>
  /\ UNCHANGED <<data, nread, nwrite, readopen, rd, rest, want, out, killed>>

\* kill() wakes its target from any sleep; one that is only about to sleep will.
Kill(p) ==
  /\ p \in Killable /\ ~killed[p]
  /\ killed' = [killed EXCEPT ![p] = TRUE]
  /\ pc' = [pc EXCEPT ![p] = CASE @ = "rsleep" -> "read"
                               [] @ = "wsleep" -> "write"
                               [] OTHER -> @]
  /\ UNCHANGED <<data, nread, nwrite, readopen, writeopen, rd, wr, rest, want, out>>

-----------------------------------------------------------------------------
WriteTurn(p) == LockFree /\ (WriteEnd(p) \/ WriteFail(p) \/ WriteFull(p))
ReadTurn(p)  == LockFree /\ (ReadEnd(p) \/ ReadFail(p) \/ ReadEmpty(p))

Next ==
  \/ \E p \in Procs, s \in Messages : Write(p, s)
  \/ \E p \in Procs, n \in 1..PIPESIZE : Read(p, n)
  \/ \E p \in Procs : \/ WriteTurn(p) \/ WriteSleep(p) \/ ReadTurn(p) \/ ReadSleep(p)
                      \/ CloseRead(p) \/ CloseWrite(p) \/ Kill(p)

Spec == Init /\ [][Next]_vars

-----------------------------------------------------------------------------

\* No wakeup is lost (pipe.c:90, 95, 118 and pipeclose()): whoever sleeps in the
\* pipe, or is about to, has nothing to do, and the other side is still there.
\* Only the bytes of a writer that was killed may wait beside a reader that sleeps:
\* pipewrite() returns -1 on a full buffer without a wakeup for what it has put in.
\* Nothing is said of killed: a kill between the test and sleep() wakes nobody, and
\* its target sleeps until the pipe wakes it.
SleepersIdle ==
  /\ \A p \in Procs : pc[p] \in {"rgo", "rsleep"} =>
                         writeopen /\ (Empty \/ \E q \in Writers : killed[q])
  /\ \A p \in Procs : pc[p] \in {"wgo", "wsleep"} => Full /\ readopen

\* The ring buffer implements a bounded stream of bytes, also where a counter
\* wraps around.
Stream == INSTANCE ByteStream WITH
  Capacity <- PIPESIZE, stream <- Contents, got <- out

Fifo == Stream!SSpec
=============================================================================
