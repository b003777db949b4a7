------------------------------ MODULE LogProofs ------------------------------
(***************************************************************************)
(* Proofs about Log, for any number of processes and blocks, any size of   *)
(* the log and crashes at any moment.                                      *)
(***************************************************************************)
EXTENDS Log, SequenceTheorems, FiniteSetTheorems, TLAPS

TypeOK ==
  /\ home \in [Blocks -> Vals] /\ logged \in [1..LOGSIZE -> Vals] /\ head \in Seq(Blocks)
  /\ cache \in [Blocks -> Vals \cup {Absent}] /\ dirty \in SUBSET Blocks /\ lh \in Seq(Blocks)
  /\ outstanding \in Nat /\ committing \in BOOLEAN
  /\ pc \in [Procs -> {"idle", "begin", "sleep", "op", "commit"}]
  /\ wrote \in [Procs -> SUBSET Blocks]
  /\ stage \in {"boot", "none", "log", "install"} /\ tail \in Nat /\ up \in BOOLEAN

\* The processes between begin_op() and end_op().
Ops == {p \in Procs : pc[p] = "op"}

\* Calls and commits exclude each other, and a log that nobody uses is empty.
CallsOK ==
  /\ outstanding = Cardinality(Ops)
  /\ committing => outstanding = 0 /\ up
  /\ ~up => outstanding = 0
  /\ up /\ ~committing => stage = "none"
  /\ stage = "none" => up /\ (outstanding = 0 => lh = <<>>)
  /\ stage = "log" => up /\ committing
  /\ stage = "boot" => ~up
  /\ \A p \in Procs : pc[p] = "commit" => committing
  /\ \A p, q \in Procs : pc[p] = "commit" /\ pc[q] = "commit" => p = q

\* A header names each block once and has room in the log area.
Header(h) == Len(h) <= LOGSIZE /\ \A i, j \in 1..Len(h) : h[i] = h[j] => i = j

\* Where the blocks of the transaction are at each stage.
Gathering == stage \in {"none", "log"} => head = <<>> /\ dirty = {lh[i] : i \in 1..Len(lh)}
Logging == stage = "log" => tail <= Len(lh) /\ \A i \in 1..tail : logged[i] = View(lh[i])
Installing ==
  stage = "install" =>
    /\ head = lh /\ tail <= Len(lh)
    /\ \A i \in 1..tail : home[lh[i]] = logged[i]
    /\ dirty = IF up THEN {lh[i] : i \in (tail + 1)..Len(lh)} ELSE {}
    /\ up => \A i \in 1..Len(lh) : View(lh[i]) = logged[i]
Booting == stage = "boot" => dirty = {}

\* A dirty buffer is in the cache, and a clean one agrees with the disk.
CacheOK == /\ \A b \in dirty : cache[b] # Absent
           /\ \A b \in Blocks \ dirty : View(b) = home[b]

DataOK == Header(lh) /\ Header(head) /\ Gathering /\ Logging /\ Installing /\ Booting /\ CacheOK

LogInv == TypeOK /\ CallsOK /\ DataOK /\ SleepersHaveWaker

-----------------------------------------------------------------------------

LEMMA Constants ==
  /\ InitVal \in Vals /\ Absent \notin Vals /\ IsFiniteSet(Procs)
  /\ LOGSIZE \in Nat /\ MAXOPBLOCKS \in Nat /\ MAXOPBLOCKS <= LOGSIZE
BY InitValAssumption, AbsentAssumption, SizesAssumption, ProcsAssumption

LEMMA OpsFinite == IsFiniteSet(Ops) /\ Cardinality(Ops) \in Nat
<1>1. Ops \in SUBSET Procs
  BY DEF Ops
<1>. QED BY <1>1, Constants, FS_Subset, FS_CardinalityType

LEMMA ViewType == TypeOK => \A b \in Blocks : View(b) \in Vals
BY DEF TypeOK, View

LEMMA AbsorbedType ==
  ASSUME TypeOK, NEW b \in Blocks
  PROVE  /\ Absorbed(b) \in Seq(Blocks)
         /\ Absorbed(b) # <<>>
         /\ {Absorbed(b)[i] : i \in 1..Len(Absorbed(b))} = {lh[i] : i \in 1..Len(lh)} \cup {b}
         /\ Header(lh) /\ Fits => Header(Absorbed(b))
<1>0. lh \in Seq(Blocks) /\ Len(lh) \in Nat /\ DOMAIN lh = 1..Len(lh)
  BY DEF TypeOK
<1>1. CASE \E i \in DOMAIN lh : lh[i] = b
  <2>1. Absorbed(b) = lh
    BY <1>1 DEF Absorbed
  <2>2. lh # <<>>
    BY <1>0, <1>1
  <2>3. b \in {lh[i] : i \in 1..Len(lh)}
    BY <1>0, <1>1
  <2>. QED BY <1>0, <2>1, <2>2, <2>3
<1>2. CASE ~(\E i \in DOMAIN lh : lh[i] = b)
  <2>. DEFINE new == Append(lh, b)
  <2>1. Absorbed(b) = new
    BY <1>2 DEF Absorbed
  <2>2. /\ new \in Seq(Blocks) /\ Len(new) = Len(lh) + 1 /\ new[Len(lh) + 1] = b
        /\ \A i \in 1..Len(lh) : new[i] = lh[i]
    BY <1>0
  <2>3. new # <<>>
    BY <1>0, <2>2
  <2>4. \A i \in 1..Len(lh) : lh[i] # b
    BY <1>0, <1>2
  <2>. HIDE DEF new
  <2>5. {new[i] : i \in 1..Len(new)} = {lh[i] : i \in 1..Len(lh)} \cup {b}
    <3>1. 1..Len(new) = 1..Len(lh) \cup {Len(lh) + 1}
      BY <1>0, <2>2
    <3>. QED BY <2>2, <3>1
  <2>6. Header(lh) /\ Fits => Header(new)
    <3>. SUFFICES ASSUME Header(lh), Fits PROVE Header(new)
      OBVIOUS
    <3>1. Len(new) <= LOGSIZE
      BY <1>0, <2>2, Constants DEF Fits
    <3>2. ASSUME NEW i \in 1..Len(new), NEW j \in 1..Len(new), new[i] = new[j] PROVE i = j
      BY <1>0, <2>2, <2>4, <3>2 DEF Header
    <3>. QED BY <3>1, <3>2 DEF Header
  <2>. QED BY <2>1, <2>2, <2>3, <2>5, <2>6
<1>. QED BY <1>1, <1>2

LEMMA InitInv == Init => LogInv
<1>. SUFFICES ASSUME Init PROVE LogInv
  OBVIOUS
<1>1. TypeOK
  BY Constants, EmptySeq DEF Init, TypeOK
<1>2. CallsOK
  <2>1. Ops = {}
    BY DEF Init, Ops
  <2>2. outstanding = Cardinality(Ops)
    BY <2>1, FS_EmptySet DEF Init
  <2>. QED BY <2>2 DEF Init, CallsOK
<1>3. DataOK
  <2>1. Header(lh) /\ Header(head)
    BY Constants, EmptySeq DEF Init, Header
  <2>. QED BY <2>1 DEF Init, DataOK, Gathering, Logging, Installing, Booting, CacheOK, View
<1>. QED BY <1>1, <1>2, <1>3 DEF Init, LogInv, SleepersHaveWaker

\* A call is running only between boots, outside commits.
LEMMA InCall ==
  ASSUME LogInv, NEW p \in Procs, pc[p] = "op"
  PROVE  outstanding > 0 /\ up /\ ~committing /\ stage = "none"
<1>1. p \in Ops
  BY DEF Ops
<1>2. Cardinality(Ops) # 0
  BY <1>1, OpsFinite, FS_EmptySet
<1>. QED BY <1>2, OpsFinite DEF LogInv, CallsOK

-----------------------------------------------------------------------------
\* One lemma per group of actions.

\* The data stays when only calls come and go.
LEMMA SameData ==
  ASSUME DataOK, UNCHANGED <<disk, cache, dirty, lh, stage, tail, up>>
  PROVE  DataOK'
BY DEF disk, DataOK, Header, Gathering, Logging, Installing, Booting, CacheOK, View

LEMMA BeginOpInv == ASSUME LogInv, NEW p \in Procs, BeginOp(p) PROVE LogInv'
<1>1. TypeOK'
  BY DEF LogInv, TypeOK, BeginOp, disk
<1>2. CallsOK'
  <2>1. Ops' = Ops \cup {p} /\ p \notin Ops
    BY DEF LogInv, TypeOK, BeginOp, Ops
  <2>2. Cardinality(Ops') = Cardinality(Ops) + 1
    BY <2>1, OpsFinite, FS_AddElement
  <2>3. outstanding' = outstanding + 1 /\ outstanding' > 0 /\ outstanding' = Cardinality(Ops')
    BY <2>2, OpsFinite DEF LogInv, CallsOK, BeginOp
  <2>4. \A q \in Procs : pc'[q] # "commit" \/ pc[q] = "commit"
    BY DEF LogInv, TypeOK, BeginOp
  <2>. QED BY <2>3, <2>4 DEF LogInv, CallsOK, BeginOp
<1>3. DataOK'
  BY SameData DEF LogInv, BeginOp
<1>4. SleepersHaveWaker'
  BY DEF LogInv, TypeOK, BeginOp, SleepersHaveWaker
<1>. QED BY <1>1, <1>2, <1>3, <1>4 DEF LogInv

LEMMA BeginSleepInv == ASSUME LogInv, NEW p \in Procs, BeginSleep(p) PROVE LogInv'
<1>1. TypeOK'
  BY DEF LogInv, TypeOK, BeginSleep, disk
<1>2. CallsOK'
  <2>1. Ops' = Ops
    BY DEF LogInv, TypeOK, BeginSleep, Ops
  <2>2. \A q \in Procs : pc'[q] # "commit" \/ pc[q] = "commit"
    BY DEF LogInv, TypeOK, BeginSleep
  <2>. QED BY <2>1, <2>2 DEF LogInv, CallsOK, BeginSleep
<1>3. DataOK'
  BY SameData DEF LogInv, BeginSleep
<1>4. SleepersHaveWaker'
  <2>1. outstanding = 0 /\ ~committing => ~NoRoom
    <3>. SUFFICES ASSUME outstanding = 0, ~committing PROVE ~NoRoom
      OBVIOUS
    <3>1. lh = <<>>
      BY DEF LogInv, CallsOK, BeginSleep
    <3>2. Len(lh) = 0
      BY <3>1
    <3>. QED BY <3>2, Constants DEF NoRoom
  <2>2. outstanding > 0 \/ committing
    BY <2>1 DEF LogInv, TypeOK, BeginSleep
  <2>. QED BY <2>2 DEF BeginSleep, SleepersHaveWaker
<1>. QED BY <1>1, <1>2, <1>3, <1>4 DEF LogInv

LEMMA EndOpInv == ASSUME LogInv, NEW p \in Procs, EndOp(p) PROVE LogInv'
<1>0. outstanding > 0 /\ up /\ ~committing /\ stage = "none"
  BY InCall DEF EndOp
<1>1. pc' \in [Procs -> {"idle", "begin", "sleep", "op", "commit"}] /\ pc'[p] \in {"commit", "idle"}
      /\ \A q \in Procs \ {p} : (pc'[q] = "op" <=> pc[q] = "op") /\ (pc'[q] = "commit" <=> pc[q] = "commit")
  BY DEF LogInv, TypeOK, EndOp, Woken
<1>2. TypeOK'
  <2>1. outstanding' \in Nat /\ wrote' \in [Procs -> SUBSET Blocks] /\ UNCHANGED <<disk, cache, dirty, lh, up>>
    BY <1>0 DEF LogInv, TypeOK, EndOp
  <2>2. committing' \in BOOLEAN /\ stage' \in {"boot", "none", "log", "install"} /\ tail' \in Nat
    <3>1. CASE outstanding = 1
      BY <3>1 DEF EndOp
    <3>2. CASE outstanding # 1
      BY <3>2 DEF LogInv, TypeOK, EndOp
    <3>. QED BY <3>1, <3>2
  <2>. QED BY <1>1, <2>1, <2>2 DEF LogInv, TypeOK, disk
<1>3. outstanding' = Cardinality(Ops')
  <2>1. Ops' = Ops \ {p} /\ p \in Ops
    BY <1>1 DEF EndOp, Ops
  <2>2. Cardinality(Ops') = Cardinality(Ops) - 1
    BY <2>1, OpsFinite, FS_RemoveElement
  <2>. QED BY <2>2 DEF LogInv, CallsOK, EndOp
<1>4. CASE outstanding = 1
  <2>1. /\ outstanding' = 0 /\ committing' /\ up' /\ stage' = (IF lh = <<>> THEN "none" ELSE "log")
        /\ tail' = 0 /\ UNCHANGED <<disk, cache, dirty, lh>>
    BY <1>0, <1>4 DEF EndOp
  <2>2. CallsOK'
    <3>1. \A q \in Procs : pc'[q] = "commit" => q = p
      BY <1>0, <1>1 DEF LogInv, CallsOK
    <3>. QED BY <1>3, <2>1, <3>1 DEF CallsOK
  <2>3. DataOK'
    BY <1>0, <2>1 DEF LogInv, DataOK, disk, Header, Gathering, Logging, Installing, Booting, CacheOK, View
  <2>. QED BY <1>2, <2>1, <2>2, <2>3 DEF LogInv, SleepersHaveWaker
<1>5. CASE outstanding # 1
  <2>1. outstanding' > 0 /\ UNCHANGED <<disk, cache, dirty, lh, up, committing, stage, tail>>
    BY <1>0, <1>5 DEF LogInv, TypeOK, EndOp
  <2>2. \A q \in Procs : pc'[q] # "commit" \/ pc[q] = "commit"
    BY <1>1, <1>5 DEF LogInv, TypeOK, EndOp, Woken
  <2>3. CallsOK'
    BY <1>0, <1>3, <2>1, <2>2 DEF LogInv, CallsOK
  <2>4. DataOK'
    BY <2>1, SameData DEF LogInv
  <2>. QED BY <1>2, <2>1, <2>3, <2>4 DEF LogInv, SleepersHaveWaker
<1>. QED BY <1>4, <1>5

LEMMA EndCommitInv == ASSUME LogInv, NEW p \in Procs, EndCommit(p) PROVE LogInv'
<1>0. committing /\ outstanding = 0 /\ up /\ stage = "none" /\ lh = <<>>
  BY DEF LogInv, CallsOK, EndCommit
<1>1. pc' \in [Procs -> {"idle", "begin", "sleep", "op", "commit"}]
      /\ \A q \in Procs : (pc'[q] = "op" <=> pc[q] = "op") /\ pc'[q] # "sleep"
  BY DEF LogInv, TypeOK, EndCommit, Woken
<1>2. TypeOK'
  BY <1>1 DEF LogInv, TypeOK, EndCommit, disk
<1>3. CallsOK'
  <2>1. Ops' = Ops
    BY <1>1 DEF Ops
  <2>2. \A q \in Procs : pc'[q] # "commit"
    BY DEF LogInv, CallsOK, TypeOK, EndCommit, Woken
  <2>. QED BY <1>0, <2>1, <2>2 DEF LogInv, CallsOK, EndCommit
<1>4. DataOK'
  BY SameData DEF LogInv, EndCommit
<1>. QED BY <1>1, <1>2, <1>3, <1>4 DEF LogInv, SleepersHaveWaker

LEMMA LogWriteInv ==
  ASSUME LogInv, NEW p \in Procs, NEW b \in Blocks, NEW v \in Vals, LogWrite(p, b, v)
  PROVE  LogInv'
<1>0. outstanding > 0 /\ up /\ ~committing /\ stage = "none"
  BY InCall DEF LogWrite
<1>1. /\ lh' \in Seq(Blocks) /\ Header(lh)'
      /\ {lh'[i] : i \in 1..Len(lh')} = {lh[i] : i \in 1..Len(lh)} \cup {b}
  <2>1. lh' = Absorbed(b) /\ Fits /\ Header(lh) /\ TypeOK
    BY DEF LogWrite, LogInv, DataOK
  <2>2. Header(Absorbed(b))
    BY <2>1, AbsorbedType
  <2>3. Header(lh)'
    BY <2>1, <2>2 DEF Header
  <2>4. /\ Absorbed(b) \in Seq(Blocks)
        /\ {Absorbed(b)[i] : i \in 1..Len(Absorbed(b))} = {lh[i] : i \in 1..Len(lh)} \cup {b}
    BY <2>1, AbsorbedType
  <2>. QED BY <2>1, <2>3, <2>4
<1>2. TypeOK'
  BY <1>1 DEF LogInv, TypeOK, LogWrite, disk
<1>3. CallsOK'
  <2>1. Ops' = Ops
    BY DEF LogWrite, Ops
  <2>. QED BY <1>0, <2>1 DEF LogInv, CallsOK, LogWrite
<1>4. DataOK'
  <2>1. Gathering'
    BY <1>0, <1>1 DEF LogInv, DataOK, Gathering, LogWrite, disk
  <2>2. CacheOK'
    <3>1. /\ cache'[b] = v /\ v # Absent
          /\ \A c \in Blocks \ {b} : cache'[c] = cache[c]
      BY Constants DEF LogInv, TypeOK, LogWrite
    <3>2. dirty' = dirty \cup {b} /\ home' = home
      BY DEF LogWrite, disk
    <3>. QED BY <3>1, <3>2 DEF LogInv, TypeOK, DataOK, CacheOK, View
  <2>3. Header(head)' /\ stage' = "none"
    BY <1>0 DEF LogInv, DataOK, LogWrite, disk, Header
  <2>. QED BY <1>1, <2>1, <2>2, <2>3 DEF DataOK, Logging, Installing, Booting
<1>. QED BY <1>2, <1>3, <1>4 DEF LogInv, SleepersHaveWaker, LogWrite

\* Buffers come and go without anybody seeing a difference.
LEMMA BufferViews ==
  ASSUME LogInv, NEW b \in Blocks, Bread(b) \/ Evict(b)
  PROVE  \A c \in Blocks : View(c)' = View(c)
<1>1. CASE Bread(b)
  BY <1>1, Constants DEF LogInv, TypeOK, Bread, View, disk
<1>2. CASE Evict(b)
  <2>1. View(b) = home[b]
    BY <1>2 DEF LogInv, DataOK, CacheOK, Evict, Evictable
  <2>. QED BY <1>2, <2>1 DEF LogInv, TypeOK, Evict, View, disk
<1>. QED BY <1>1, <1>2

LEMMA BufferInv == ASSUME LogInv, NEW b \in Blocks, Bread(b) \/ Evict(b) PROVE LogInv'
<1>0. UNCHANGED <<disk, dirty, lh, outstanding, committing, pc, wrote, stage, tail, up>>
  BY DEF Bread, Evict
<1>1. TypeOK'
  BY <1>0 DEF LogInv, TypeOK, Bread, Evict, disk
<1>2. CallsOK'
  BY <1>0 DEF LogInv, CallsOK, Ops
<1>3. DataOK'
  <2>1. \A i \in 1..Len(lh) : lh[i] \in Blocks
    BY DEF LogInv, TypeOK
  <2>2. Logging'
    <3>. SUFFICES ASSUME stage = "log" PROVE tail <= Len(lh) /\ \A i \in 1..tail : logged[i] = View(lh[i])'
      BY <1>0 DEF Logging, disk
    <3>1. tail <= Len(lh) /\ \A i \in 1..tail : logged[i] = View(lh[i]) /\ i \in 1..Len(lh)
      BY DEF LogInv, TypeOK, DataOK, Logging
    <3>. QED BY <1>0, <2>1, <3>1, BufferViews
  <2>3. Installing'
    <3>1. \A i \in 1..Len(lh) : View(lh[i])' = View(lh[i])
      BY <1>0, <2>1, BufferViews
    <3>. QED BY <1>0, <3>1 DEF LogInv, DataOK, Installing, disk
  <2>4. CacheOK'
    <3>1. \A c \in dirty : cache'[c] # Absent
      BY DEF LogInv, TypeOK, DataOK, CacheOK, Bread, Evict, Evictable
    <3>. QED BY <1>0, <3>1, BufferViews DEF LogInv, DataOK, CacheOK, disk
  <2>. QED BY <1>0, <2>2, <2>3, <2>4 DEF LogInv, DataOK, Header, Gathering, Booting, disk
<1>. QED BY <1>0, <1>1, <1>2, <1>3 DEF LogInv, SleepersHaveWaker

-----------------------------------------------------------------------------
\* The commit, the recovery and the crash

\* Only the data changes.
LEMMA SameCalls ==
  ASSUME CallsOK, UNCHANGED <<lh, outstanding, committing, pc, stage, up>>
  PROVE  CallsOK'
BY DEF CallsOK, Ops

LEMMA WriteLogInv == ASSUME LogInv, WriteLog PROVE LogInv'
<1>. DEFINE k == tail + 1
<1>0. k \in 1..Len(lh) /\ k \in 1..LOGSIZE /\ lh[k] \in Blocks /\ View(lh[k]) \in Vals
  <2>1. k \in 1..Len(lh) /\ Len(lh) <= LOGSIZE
    BY DEF LogInv, TypeOK, DataOK, Header, WriteLog
  <2>2. lh[k] \in Blocks
    BY <2>1 DEF LogInv, TypeOK
  <2>. QED BY <2>1, <2>2, ViewType, Constants DEF LogInv
<1>1. /\ logged' = [logged EXCEPT ![k] = View(lh[k])] /\ tail' = k /\ stage = "log"
      /\ UNCHANGED <<home, head, cache, dirty, lh, outstanding, committing, pc, wrote, stage, up>>
  BY DEF WriteLog
<1>. HIDE DEF k
<1>2. TypeOK'
  BY <1>0, <1>1 DEF LogInv, TypeOK
<1>3. CallsOK'
  BY <1>1, SameCalls DEF LogInv
<1>4. Logging'
  <2>1. \A i \in 1..k : i \in 1..tail \/ i = k
    BY DEF LogInv, TypeOK, k
  <2>2. \A i \in 1..tail : i # k /\ i \in 1..LOGSIZE /\ logged[i] = View(lh[i])
    BY <1>0, <1>1, Constants DEF LogInv, TypeOK, DataOK, Logging, k
  <2>3. \A i \in 1..k : logged'[i] = View(lh[i])
    BY <1>0, <1>1, <2>1, <2>2 DEF LogInv, TypeOK
  <2>. QED BY <1>0, <1>1, <2>3 DEF Logging, View
<1>5. DataOK'
  BY <1>1, <1>4 DEF LogInv, DataOK, Header, Gathering, Installing, Booting, CacheOK, View
<1>. QED BY <1>1, <1>2, <1>3, <1>5 DEF LogInv, SleepersHaveWaker

\* The whole transaction is in the log when its header is written.
LEMMA AllLogged ==
  ASSUME LogInv, WriteHead
  PROVE  \A i \in 1..Len(lh) : logged[i] = View(lh[i])
BY DEF LogInv, DataOK, Logging, WriteHead, LogDone

LEMMA WriteHeadInv == ASSUME LogInv, WriteHead PROVE LogInv'
<1>1. /\ head' = lh /\ stage' = "install" /\ tail' = 0 /\ stage = "log" /\ up /\ committing
      /\ UNCHANGED <<home, logged, cache, dirty, lh, outstanding, committing, pc, wrote, up>>
  BY DEF LogInv, CallsOK, WriteHead
<1>2. TypeOK'
  BY <1>1 DEF LogInv, TypeOK
<1>3. CallsOK'
  BY <1>1 DEF LogInv, CallsOK, Ops
<1>4. Installing'
  <2>1. dirty = {lh[i] : i \in (0 + 1)..Len(lh)} /\ 0 <= Len(lh)
    BY <1>1 DEF LogInv, TypeOK, DataOK, Gathering
  <2>2. \A i \in 1..Len(lh) : View(lh[i])' = logged[i]
    BY <1>1, AllLogged DEF View
  <2>. QED BY <1>1, <2>1, <2>2 DEF Installing
<1>5. DataOK'
  BY <1>1, <1>4 DEF LogInv, DataOK, Header, Gathering, Logging, Booting, CacheOK, View
<1>. QED BY <1>1, <1>2, <1>3, <1>5 DEF LogInv, SleepersHaveWaker

LEMMA InstallTransInv ==
  ASSUME LogInv, InstallTrans
  PROVE  LogInv' /\ (up => \A b \in Blocks : View(b)' = View(b))
<1>. DEFINE k == tail + 1
            b == lh[k]
<1>0. k \in 1..Len(lh) /\ k \in 1..LOGSIZE /\ b \in Blocks /\ logged[k] \in Vals
  <2>1. k \in 1..Len(lh) /\ Len(lh) <= LOGSIZE
    BY DEF LogInv, TypeOK, DataOK, Header, InstallTrans
  <2>2. k \in 1..LOGSIZE /\ b \in Blocks
    BY <2>1, Constants DEF LogInv, TypeOK
  <2>. QED BY <2>1, <2>2 DEF LogInv, TypeOK
<1>1. /\ home' = [home EXCEPT ![b] = logged[k]] /\ cache' = [cache EXCEPT ![b] = logged[k]]
      /\ dirty' = dirty \ {b} /\ tail' = k /\ stage = "install"
      /\ UNCHANGED <<logged, head, lh, outstanding, committing, pc, wrote, stage, up>>
  BY DEF InstallTrans
<1>2. k = tail + 1 /\ b = lh[k] /\ tail \in Nat /\ Len(lh) \in Nat
  BY DEF LogInv, TypeOK
<1>. HIDE DEF k, b
<1>3. TypeOK'
  BY <1>0, <1>1 DEF LogInv, TypeOK
<1>4. CallsOK'
  BY <1>1, SameCalls DEF LogInv
<1>5. /\ home'[b] = logged[k] /\ cache'[b] = logged[k] /\ logged[k] # Absent
      /\ \A c \in Blocks \ {b} : home'[c] = home[c] /\ cache'[c] = cache[c]
  BY <1>0, <1>1, Constants DEF LogInv, TypeOK
<1>6. up => \A c \in Blocks : View(c)' = View(c)
  <2>. SUFFICES ASSUME up, NEW c \in Blocks PROVE View(c)' = View(c)
    OBVIOUS
  <2>1. View(b) = logged[k]
    BY <1>0, <1>1, <1>2 DEF LogInv, DataOK, Installing
  <2>. QED BY <1>5, <2>1 DEF View
<1>7. Installing'
  <2>1. \A i \in 1..Len(lh) : lh[i] \in Blocks
    BY DEF LogInv, TypeOK
  <2>2. \A i, j \in 1..Len(lh) : lh[i] = lh[j] => i = j
    BY DEF LogInv, DataOK, Header
  <2>3. /\ head = lh /\ \A i \in 1..tail : home[lh[i]] = logged[i]
        /\ dirty = IF up THEN {lh[i] : i \in (tail + 1)..Len(lh)} ELSE {}
        /\ up => \A i \in 1..Len(lh) : View(lh[i]) = logged[i]
    BY <1>1 DEF LogInv, DataOK, Installing
  <2>4. k <= Len(lh)
    BY <1>0
  <2>5. ASSUME NEW i \in 1..k PROVE home'[lh[i]] = logged[i]
    <3>1. CASE i = k
      BY <1>2, <1>5, <3>1
    <3>2. CASE i # k
      <4>1. i \in 1..tail /\ i \in 1..Len(lh)
        BY <1>0, <1>2, <3>2
      <4>2. lh[i] # b
        BY <1>0, <1>2, <2>2, <3>2, <4>1
      <4>. QED BY <1>5, <2>1, <2>3, <4>1, <4>2
    <3>. QED BY <3>1, <3>2
  <2>6. dirty' = IF up THEN {lh[i] : i \in (k + 1)..Len(lh)} ELSE {}
    <3>1. CASE up
      <4>1. (tail + 1)..Len(lh) = {k} \cup ((k + 1)..Len(lh)) /\ k \notin (k + 1)..Len(lh)
        BY <1>0, <1>2
      <4>2. \A i \in (k + 1)..Len(lh) : lh[i] # b
        BY <1>0, <1>2, <2>2
      <4>. QED BY <1>1, <1>2, <2>3, <3>1, <4>1, <4>2
    <3>2. CASE ~up
      BY <1>1, <2>3, <3>2
    <3>. QED BY <3>1, <3>2
  <2>7. up => \A i \in 1..Len(lh) : View(lh[i])' = logged[i]
    BY <1>1, <1>6, <2>1, <2>3
  <2>. QED BY <1>1, <2>3, <2>4, <2>5, <2>6, <2>7 DEF Installing
<1>8. CacheOK'
  BY <1>0, <1>1, <1>5 DEF LogInv, TypeOK, DataOK, CacheOK, View
<1>9. DataOK'
  BY <1>1, <1>7, <1>8 DEF LogInv, DataOK, Header, Gathering, Logging, Booting
<1>. QED BY <1>1, <1>3, <1>4, <1>6, <1>9 DEF LogInv, SleepersHaveWaker

\* The whole transaction is at home when its header is erased.
LEMMA AllInstalled ==
  ASSUME LogInv, EraseHead
  PROVE  head = lh /\ dirty = {} /\ \A i \in 1..Len(lh) : home[lh[i]] = logged[i]
<1>1. /\ head = lh /\ \A i \in 1..tail : home[lh[i]] = logged[i]
      /\ dirty = IF up THEN {lh[i] : i \in (tail + 1)..Len(lh)} ELSE {}
      /\ tail = Len(lh) /\ Len(lh) \in Nat
  BY DEF LogInv, TypeOK, DataOK, Installing, EraseHead, InstallDone
<1>2. (tail + 1)..Len(lh) = {}
  BY <1>1
<1>. QED BY <1>1, <1>2

LEMMA EraseHeadInv == ASSUME LogInv, EraseHead PROVE LogInv'
<1>1. /\ lh' = <<>> /\ head' = <<>> /\ stage' = "none" /\ up' = TRUE
      /\ UNCHANGED <<home, logged, cache, dirty, outstanding, committing, pc, wrote, tail>>
  BY DEF EraseHead
<1>2. TypeOK'
  BY <1>1, EmptySeq DEF LogInv, TypeOK
<1>3. CallsOK'
  BY <1>1 DEF LogInv, CallsOK, Ops
<1>4. DataOK'
  <2>1. Header(lh)' /\ Header(head)' /\ {lh'[i] : i \in 1..Len(lh')} = {}
    BY <1>1, EmptySeq, Constants DEF Header
  <2>. QED BY <1>1, <2>1, AllInstalled
           DEF LogInv, DataOK, Gathering, Logging, Installing, Booting, CacheOK, View
<1>. QED BY <1>1, <1>2, <1>3, <1>4 DEF LogInv, SleepersHaveWaker

LEMMA ReadHeadInv == ASSUME LogInv, ReadHead PROVE LogInv'
<1>1. /\ lh' = head /\ stage' = "install" /\ tail' = 0 /\ stage = "boot" /\ ~up
      /\ UNCHANGED <<home, logged, head, cache, dirty, outstanding, committing, pc, wrote, up>>
  BY DEF LogInv, CallsOK, ReadHead, disk
<1>2. TypeOK'
  BY <1>1 DEF LogInv, TypeOK
<1>3. CallsOK'
  BY <1>1 DEF LogInv, CallsOK, Ops
<1>4. DataOK'
  <2>1. Installing'
    <3>1. Len(head) \in Nat /\ dirty = {}
      BY <1>1 DEF LogInv, TypeOK, DataOK, Booting
    <3>. QED BY <1>1, <3>1 DEF Installing
  <2>. QED BY <1>1, <2>1 DEF LogInv, DataOK, Header, Gathering, Logging, Booting, CacheOK, View
<1>. QED BY <1>1, <1>2, <1>3, <1>4 DEF LogInv, SleepersHaveWaker

LEMMA CrashInv == ASSUME LogInv, Crash PROVE LogInv'
<1>1. TypeOK'
  BY EmptySeq DEF LogInv, TypeOK, Crash, disk
<1>2. Ops' = {}
  BY DEF Crash, Ops
<1>3. CallsOK'
  BY <1>2, FS_EmptySet DEF CallsOK, Crash
<1>4. DataOK'
  <2>1. Header(lh)' /\ Header(head)'
    BY EmptySeq, Constants DEF LogInv, DataOK, Header, Crash, disk
  <2>. QED BY <2>1 DEF DataOK, Gathering, Logging, Installing, Booting, CacheOK, View, Crash, disk
<1>. QED BY <1>1, <1>3, <1>4 DEF LogInv, SleepersHaveWaker, Crash

LEMMA NextInv == LogInv /\ [Next]_vars => LogInv'
<1>. SUFFICES ASSUME LogInv, [Next]_vars PROVE LogInv'
  OBVIOUS
<1>1. ASSUME NEW p \in Procs, CallStep(p) PROVE LogInv'
  BY <1>1, BeginOpInv, BeginSleepInv, EndOpInv, EndCommitInv DEF CallStep
<1>2. ASSUME NEW p \in Procs, NEW b \in Blocks, NEW v \in Vals, LogWrite(p, b, v) PROVE LogInv'
  BY <1>2, LogWriteInv
<1>3. ASSUME NEW b \in Blocks, Bread(b) \/ Evict(b) PROVE LogInv'
  BY <1>3, BufferInv
<1>4. CASE CommitStep
  BY <1>4, WriteLogInv, WriteHeadInv, InstallTransInv, EraseHeadInv, ReadHeadInv DEF CommitStep
<1>5. CASE Crash
  BY <1>5, CrashInv
<1>6. CASE UNCHANGED vars
  BY <1>6 DEF vars, disk, LogInv, TypeOK, CallsOK, Ops, DataOK, Header, Gathering, Logging, Installing,
              Booting, CacheOK, View, SleepersHaveWaker
<1>. QED BY <1>1, <1>2, <1>3, <1>4, <1>5, <1>6 DEF Next

LEMMA LogInvHolds == Spec => []LogInv
<1>. QED BY InitInv, NextInv, PTL DEF Spec

\* begin_op() puts nobody to sleep whom end_op() will not wake: for any number of
\* processes and any size of the log, a sleeper has a call or a commit before it
\* (log.c:126-141, 146-173).
THEOREM SleepersWoken == Spec => []SleepersHaveWaker
<1>1. LogInv => SleepersHaveWaker
  BY DEF LogInv
<1>. QED BY <1>1, LogInvHolds, PTL

-----------------------------------------------------------------------------
(* There is room in the log.                                               *)

\* The blocks that the running calls may still write, as pairs.
Room == {x \in Ops \X (1..OpBlocks) : x[2] > Cardinality(wrote[x[1]])}

\* What a call wrote is in the log, and there is room for what the calls may still
\* write, with one block to spare.
RoomOK ==
  /\ \A p \in Procs : pc[p] # "op" => wrote[p] = {}
  /\ \A p \in Procs : /\ wrote[p] \subseteq {lh[i] : i \in 1..Len(lh)}
                       /\ IsFiniteSet(wrote[p]) /\ Cardinality(wrote[p]) <= OpBlocks
  /\ Ops # {} => Len(lh) + Cardinality(Room) <= LOGSIZE - 2

Slack == OpBlocks < MAXOPBLOCKS /\ OpBlocks < LOGSIZE - 1

LEMMA OpBlocksType == OpBlocks \in Nat \ {0} /\ OpBlocks <= MAXOPBLOCKS
BY SizesAssumption

LEMMA RoomFinite ==
  /\ IsFiniteSet(Room) /\ Cardinality(Room) \in Nat
  /\ Cardinality(Room) <= Cardinality(Ops) * OpBlocks
<1>1. IsFiniteSet(1..OpBlocks) /\ Cardinality(1..OpBlocks) = OpBlocks
  BY OpBlocksType, FS_Interval
<1>2. IsFiniteSet(Ops \X (1..OpBlocks)) /\ Cardinality(Ops \X (1..OpBlocks)) = Cardinality(Ops) * OpBlocks
  BY <1>1, OpsFinite, FS_Product
<1>3. Room \subseteq Ops \X (1..OpBlocks)
  BY DEF Room
<1>. QED BY <1>2, <1>3, FS_Subset, FS_CardinalityType

LEMMA WroteFinite ==
  ASSUME RoomOK, NEW p \in Procs
  PROVE  IsFiniteSet(wrote[p]) /\ Cardinality(wrote[p]) \in Nat
BY FS_CardinalityType DEF RoomOK

\* A process that begins a call when others run finds room for all that all may write.
LEMMA BeginOpRoom == ASSUME LogInv, RoomOK, Slack, NEW p \in Procs, BeginOp(p) PROVE RoomOK'
<1>1. /\ Ops' = Ops \cup {p} /\ p \notin Ops /\ UNCHANGED <<lh, wrote>>
      /\ \A q \in Procs : pc'[q] # "op" => pc[q] # "op"
  BY DEF LogInv, TypeOK, BeginOp, Ops
<1>2. Cardinality(Ops') = outstanding + 1 /\ outstanding \in Nat
  BY <1>1, OpsFinite, FS_AddElement DEF LogInv, CallsOK
<1>3. /\ (IsFiniteSet(Room) /\ Cardinality(Room) \in Nat)'
      /\ Cardinality(Room)' <= (outstanding + 1) * OpBlocks
  <2>1. IsFiniteSet(1..OpBlocks) /\ Cardinality(1..OpBlocks) = OpBlocks
    BY OpBlocksType, FS_Interval
  <2>2. IsFiniteSet(Ops')
    BY <1>1, OpsFinite, FS_AddElement
  <2>3. /\ IsFiniteSet(Ops' \X (1..OpBlocks))
        /\ Cardinality(Ops' \X (1..OpBlocks)) = (outstanding + 1) * OpBlocks
    BY <1>2, <2>1, <2>2, FS_Product
  <2>4. Room' \subseteq Ops' \X (1..OpBlocks)
    BY DEF Room
  <2>. QED BY <2>3, <2>4, FS_Subset, FS_CardinalityType
<1>4. Len(lh) + (outstanding + 1) * MAXOPBLOCKS <= LOGSIZE /\ Len(lh) \in Nat
  BY Constants, <1>2 DEF BeginOp, NoRoom, LogInv, TypeOK
<1>5. Len(lh) + (outstanding + 1) * OpBlocks <= LOGSIZE - 2
  <2>1. CASE outstanding = 0
    <3>1. Len(lh) = 0
      BY <2>1 DEF LogInv, CallsOK, BeginOp
    <3>2. (outstanding + 1) * OpBlocks = OpBlocks
      BY <2>1, OpBlocksType
    <3>. QED BY <3>1, <3>2, Constants, OpBlocksType DEF Slack
  <2>2. CASE outstanding # 0
    <3>1. (outstanding + 1) * OpBlocks + (outstanding + 1) <= (outstanding + 1) * MAXOPBLOCKS
      <4>1. \A k, m, n \in Nat : m < n => k * m + k <= k * n
        <5>. SUFFICES ASSUME NEW k \in Nat, NEW m \in Nat, NEW n \in Nat, m < n PROVE k * m + k <= k * n
          OBVIOUS
        <5>1. PICK d \in Nat : n = m + 1 + d
          <6>1. n - m - 1 \in Nat /\ n = m + 1 + (n - m - 1)
            OBVIOUS
          <6>. QED BY <6>1
        <5>2. k * n = k * m + k + k * d /\ k * d \in Nat
          BY <5>1
        <5>. QED BY <5>2
      <4>2. outstanding + 1 \in Nat /\ OpBlocks \in Nat /\ MAXOPBLOCKS \in Nat /\ OpBlocks < MAXOPBLOCKS
        BY <1>2, OpBlocksType, Constants DEF Slack
      <4>. QED BY <4>1, <4>2, Zenon
    <3>2. (outstanding + 1) * OpBlocks \in Nat /\ (outstanding + 1) * MAXOPBLOCKS \in Nat
      BY <1>2, OpBlocksType, Constants
    <3>. QED BY <1>2, <1>4, <2>2, <3>1, <3>2, Constants
  <2>. QED BY <2>1, <2>2
<1>6. (outstanding + 1) * OpBlocks \in Nat
  BY <1>2, OpBlocksType
<1>7. Len(lh') + Cardinality(Room)' <= LOGSIZE - 2
  BY <1>1, <1>3, <1>4, <1>5, <1>6, Constants
<1>. QED BY <1>1, <1>7 DEF RoomOK

\* A block that is new in the log takes one of the places its call has left.
LEMMA LogWriteRoom ==
  ASSUME LogInv, RoomOK, NEW p \in Procs, NEW b \in Blocks, NEW v \in Vals, LogWrite(p, b, v)
  PROVE  RoomOK'
<1>. DEFINE n == Cardinality(wrote[p])
            m == Cardinality(wrote[p] \cup {b})
<1>0. /\ wrote' = [wrote EXCEPT ![p] = @ \cup {b}] /\ wrote'[p] = wrote[p] \cup {b} /\ pc' = pc /\ Ops' = Ops
      /\ p \in Ops /\ Cardinality(wrote'[p]) <= OpBlocks
      /\ \A q \in Procs \ {p} : wrote'[q] = wrote[q]
  BY DEF LogInv, TypeOK, LogWrite, Ops
<1>1. /\ {lh'[i] : i \in 1..Len(lh')} = {lh[i] : i \in 1..Len(lh)} \cup {b}
      /\ Len(lh) \in Nat
      /\ lh' = Absorbed(b)
  <2>1. lh' = Absorbed(b) /\ TypeOK
    BY DEF LogWrite, LogInv
  <2>2. {Absorbed(b)[i] : i \in 1..Len(Absorbed(b))} = {lh[i] : i \in 1..Len(lh)} \cup {b}
    BY <2>1, AbsorbedType
  <2>3. Len(lh) \in Nat
    BY <2>1 DEF TypeOK
  <2>. QED BY <2>1, <2>2, <2>3
<1>2. /\ \A q \in Procs : pc'[q] # "op" => wrote'[q] = {}
      /\ \A q \in Procs : /\ wrote'[q] \subseteq {lh'[i] : i \in 1..Len(lh')}
                           /\ IsFiniteSet(wrote'[q]) /\ Cardinality(wrote'[q]) <= OpBlocks
  <2>1. IsFiniteSet(wrote[p] \cup {b})
    BY WroteFinite, FS_AddElement
  <2>2. \A q \in Procs : wrote[q] \subseteq {lh'[i] : i \in 1..Len(lh')}
    BY <1>1 DEF RoomOK
  <2>3. b \in {lh'[i] : i \in 1..Len(lh')}
    BY <1>1
  <2>4. \A q \in Procs : pc[q] # "op" => q # p
    BY DEF LogWrite
  <2>. QED BY <1>0, <2>1, <2>2, <2>3, <2>4 DEF RoomOK
<1>3. IsFiniteSet(wrote[p]) /\ n \in Nat /\ (b \notin wrote[p] => m = n + 1) /\ (b \in wrote[p] => m = n)
  <2>1. IsFiniteSet(wrote[p]) /\ n \in Nat
    BY WroteFinite
  <2>2. b \in wrote[p] => wrote[p] \cup {b} = wrote[p]
    OBVIOUS
  <2>. QED BY <2>1, <2>2, FS_AddElement
<1>4. Room' \subseteq Room
  <2>1. m \in Nat /\ n <= m
    BY <1>3
  <2>. QED BY <1>0, <1>3, <2>1 DEF Room
<1>5. Cardinality(Room') <= Cardinality(Room) /\ Cardinality(Room') \in Nat
  BY <1>4, RoomFinite, FS_Subset, FS_CardinalityType
<1>6. Len(lh) + Cardinality(Room) <= LOGSIZE - 2
  BY <1>0 DEF RoomOK
<1>7. Len(lh') + Cardinality(Room') <= LOGSIZE - 2
  <2>1. CASE \E i \in DOMAIN lh : lh[i] = b
    <3>1. lh' = lh
      BY <1>1, <2>1 DEF Absorbed
    <3>. QED BY <1>1, <1>5, <1>6, <3>1, RoomFinite, Constants
  <2>2. CASE ~ \E i \in DOMAIN lh : lh[i] = b
    <3>1. Len(lh') = Len(lh) + 1
      BY <1>1, <2>2 DEF Absorbed, LogInv, TypeOK
    <3>2. b \notin wrote[p]
      BY <2>2 DEF RoomOK, LogInv, TypeOK
    <3>3. m = n + 1 /\ n + 1 \in 1..OpBlocks
      <4>1. m = n + 1 /\ m <= OpBlocks
        BY <1>0, <1>3, <3>2
      <4>. QED BY <1>3, <4>1, OpBlocksType
    <3>4. <<p, n + 1>> \in Room /\ <<p, n + 1>> \notin Room'
      BY <1>0, <1>3, <3>3 DEF Room
    <3>5. Cardinality(Room \ {<<p, n + 1>>}) = Cardinality(Room) - 1 /\ IsFiniteSet(Room \ {<<p, n + 1>>})
      BY <3>4, RoomFinite, FS_RemoveElement
    <3>6. Room' \subseteq Room \ {<<p, n + 1>>}
      BY <1>4, <3>4
    <3>7. Cardinality(Room') <= Cardinality(Room) - 1
      BY <3>5, <3>6, FS_Subset
    <3>. QED BY <1>1, <1>5, <1>6, <3>1, <3>7, RoomFinite, Constants
  <2>. QED BY <2>1, <2>2
<1>. QED BY <1>2, <1>7 DEF RoomOK

LEMMA EndOpRoom == ASSUME LogInv, RoomOK, NEW p \in Procs, EndOp(p) PROVE RoomOK'
<1>1. /\ \A q \in Procs \ {p} : pc'[q] = "op" <=> pc[q] = "op"
      /\ pc'[p] # "op" /\ wrote' = [wrote EXCEPT ![p] = {}] /\ lh' = lh
  BY DEF LogInv, TypeOK, EndOp, Woken
<1>2. wrote'[p] = {} /\ \A q \in Procs \ {p} : wrote'[q] = wrote[q]
  BY <1>1 DEF LogInv, TypeOK
<1>3. Ops' = Ops \ {p}
  BY <1>1 DEF Ops
<1>4. Room' \subseteq Room
  BY <1>2, <1>3 DEF Room, Ops
<1>5. Cardinality(Room') <= Cardinality(Room) /\ Cardinality(Room') \in Nat
  BY <1>4, RoomFinite, FS_Subset, FS_CardinalityType
<1>6. Ops' # {} => Len(lh') + Cardinality(Room') <= LOGSIZE - 2
  BY <1>1, <1>3, <1>5, RoomFinite, Constants DEF RoomOK, LogInv, TypeOK
<1>7. IsFiniteSet(wrote'[p]) /\ Cardinality(wrote'[p]) <= OpBlocks
  BY <1>2, FS_EmptySet, OpBlocksType
<1>. QED BY <1>1, <1>2, <1>6, <1>7 DEF RoomOK

\* While no call runs nobody has written anything.
LEMMA IdleRoom ==
  ASSUME TypeOK, RoomOK, Ops' = {}, \A q \in Procs : wrote'[q] = {}
  PROVE  RoomOK'
<1>1. \A q \in Procs : IsFiniteSet(wrote'[q]) /\ Cardinality(wrote'[q]) <= OpBlocks
  BY FS_EmptySet, OpBlocksType
<1>. QED BY <1>1 DEF RoomOK

LEMMA SameRoom ==
  ASSUME RoomOK, UNCHANGED <<lh, wrote>>, \A q \in Procs : pc'[q] = "op" <=> pc[q] = "op"
  PROVE  RoomOK'
<1>1. Ops' = Ops
  BY DEF Ops
<1>2. Room' = Room
  BY <1>1 DEF Room
<1>. QED BY <1>1, <1>2 DEF RoomOK

LEMMA RoomStep == LogInv /\ RoomOK /\ Slack /\ [Next]_vars => RoomOK'
<1>. SUFFICES ASSUME LogInv, RoomOK, Slack, [Next]_vars PROVE RoomOK'
  OBVIOUS
<1>1. ASSUME NEW p \in Procs, CallStep(p) PROVE RoomOK'
  <2>1. CASE BeginSleep(p)
    BY <2>1, SameRoom DEF LogInv, TypeOK, BeginSleep
  <2>2. CASE EndCommit(p)
    BY <2>2, SameRoom DEF LogInv, TypeOK, EndCommit, Woken
  <2>. QED BY <1>1, <2>1, <2>2, BeginOpRoom, EndOpRoom DEF CallStep
<1>2. ASSUME NEW p \in Procs, NEW b \in Blocks, NEW v \in Vals, LogWrite(p, b, v) PROVE RoomOK'
  BY <1>2, LogWriteRoom
<1>3. ASSUME NEW b \in Blocks, Bread(b) \/ Evict(b) PROVE RoomOK'
  BY <1>3, SameRoom DEF Bread, Evict
<1>4. CASE CommitStep
  <2>1. CASE WriteLog \/ WriteHead \/ InstallTrans
    BY <2>1, SameRoom DEF WriteLog, WriteHead, InstallTrans
  <2>2. CASE EraseHead \/ ReadHead
    <3>1. stage # "none" /\ pc' = pc /\ wrote' = wrote
      BY <2>2 DEF EraseHead, ReadHead
    <3>2. \A q \in Procs : pc[q] # "op"
      BY <3>1, InCall
    <3>. QED BY <3>1, <3>2, IdleRoom DEF RoomOK, Ops, LogInv
  <2>. QED BY <1>4, <2>1, <2>2 DEF CommitStep
<1>5. CASE Crash
  BY <1>5, IdleRoom DEF Crash, Ops, LogInv
<1>6. CASE UNCHANGED vars
  BY <1>6, SameRoom DEF vars
<1>. QED BY <1>1, <1>2, <1>3, <1>4, <1>5, <1>6 DEF Next

\* begin_op() keeps enough of the log free: if the calls leave unused one of the
\* blocks they reserve, and the log is larger than one call by two blocks, no
\* log_write() of any number of processes panics, however calls come and go
\* (log.c:132, 218).  Without the first condition TLC finds calls that do.
THEOREM ReserveIsEnough ==
  ASSUME OpBlocks < MAXOPBLOCKS, OpBlocks < LOGSIZE - 1
  PROVE  Spec => []NoPanic
<1>1. Init => RoomOK
  <2>. SUFFICES ASSUME Init PROVE RoomOK
    OBVIOUS
  <2>1. Ops = {} /\ \A p \in Procs : wrote[p] = {}
    BY DEF Init, Ops
  <2>2. IsFiniteSet({}) /\ Cardinality({}) <= OpBlocks
    BY FS_EmptySet, OpBlocksType
  <2>. QED BY <2>1, <2>2 DEF RoomOK
<1>2. LogInv /\ RoomOK => NoPanic
  <2>. SUFFICES ASSUME LogInv, RoomOK, NEW p \in Procs, pc[p] = "op" PROVE Fits
    BY DEF NoPanic
  <2>1. p \in Ops
    BY DEF Ops
  <2>. QED BY <2>1, RoomFinite, Constants DEF RoomOK, Fits, LogInv, TypeOK
<1>3. LogInv /\ RoomOK /\ [Next]_vars => RoomOK'
  BY RoomStep DEF Slack
<1>. QED BY <1>1, <1>2, <1>3, LogInvHolds, PTL DEF Spec

-----------------------------------------------------------------------------
\* Log implements AtomicDisk

LEMMA RecoveredIs ==
  ASSUME LogInv, NEW b \in Blocks
  PROVE  /\ \A i \in 1..Len(head) : head[i] = b => Recovered(b) = logged[i]
         /\ (\A i \in 1..Len(head) : head[i] # b) => Recovered(b) = home[b]
<1>1. DOMAIN head = 1..Len(head) /\ \A i, j \in 1..Len(head) : head[i] = head[j] => i = j
  BY DEF LogInv, TypeOK, DataOK, Header
<1>2. ASSUME NEW i \in 1..Len(head), head[i] = b PROVE Recovered(b) = logged[i]
  <2>1. (CHOOSE j \in DOMAIN head : head[j] = b) = i
    BY <1>1, <1>2
  <2>. QED BY <1>1, <1>2, <2>1 DEF Recovered
<1>3. ASSUME \A i \in 1..Len(head) : head[i] # b PROVE Recovered(b) = home[b]
  BY <1>1, <1>3 DEF Recovered
<1>. QED BY <1>2, <1>3

\* What the kernel reads of a block.
Read(b) == IF up THEN View(b) ELSE Recovered(b)

\* Nothing changes for readers, after a crash, nor for who is in a call.
LEMMA Stutters ==
  ASSUME \A b \in Blocks : Recovered(b)' = Recovered(b) /\ Read(b)' = Read(b), Ops' = Ops
  PROVE  UNCHANGED Abstract!avars
BY DEF Abstract!avars, Ops, Read

LEMMA SameDisk == UNCHANGED disk => \A b \in Blocks : Recovered(b)' = Recovered(b)
BY DEF disk, Recovered

LEMMA InitImplements == Init => Abstract!AInit
<1>. SUFFICES ASSUME Init PROVE Abstract!AInit
  OBVIOUS
<1>1. DOMAIN head = {} /\ ~up
  BY EmptySeq DEF Init
<1>2. \A b \in Blocks : Recovered(b) = InitVal
  BY <1>1 DEF Init, Recovered
<1>3. {p \in Procs : pc[p] = "op"} = {}
  BY DEF Init
<1>. QED BY <1>1, <1>2, <1>3 DEF Abstract!AInit

\* Calls come and go.
LEMMA CallImplements ==
  ASSUME LogInv, NEW p \in Procs, CallStep(p)
  PROVE  [Abstract!ANext]_(Abstract!avars)
<1>1. UNCHANGED <<disk, cache, up>>
  BY DEF CallStep, BeginOp, BeginSleep, EndOp, EndCommit
<1>2. \A b \in Blocks : Recovered(b)' = Recovered(b) /\ Read(b)' = Read(b)
  BY <1>1, SameDisk DEF Read, View, disk
<1>3. CASE BeginOp(p)
  <2>1. Ops' = Ops \cup {p} /\ p \notin Ops
    BY <1>3 DEF LogInv, TypeOK, BeginOp, Ops
  <2>2. Abstract!ABegin(p)
    BY <1>2, <2>1 DEF Abstract!ABegin, Ops, Read
  <2>. QED BY <2>2 DEF Abstract!ANext
<1>4. CASE BeginSleep(p)
  <2>1. Ops' = Ops
    BY <1>4 DEF LogInv, TypeOK, BeginSleep, Ops
  <2>. QED BY <1>2, <2>1, Stutters
<1>5. CASE EndOp(p)
  <2>1. Ops' = Ops \ {p} /\ p \in Ops
    BY <1>5 DEF LogInv, TypeOK, EndOp, Woken, Ops
  <2>2. Abstract!AEnd(p)
    BY <1>2, <2>1 DEF Abstract!AEnd, Ops, Read
  <2>. QED BY <2>2 DEF Abstract!ANext
<1>6. CASE EndCommit(p)
  <2>1. Ops' = Ops
    BY <1>6 DEF LogInv, TypeOK, EndCommit, Woken, Ops
  <2>. QED BY <1>2, <2>1, Stutters
<1>. QED BY <1>3, <1>4, <1>5, <1>6 DEF CallStep

LEMMA LogWriteImplements ==
  ASSUME LogInv, NEW p \in Procs, NEW b \in Blocks, NEW v \in Vals, LogWrite(p, b, v)
  PROVE  Abstract!AWrite(p, b, v)
<1>0. up /\ p \in Ops /\ Ops' = Ops /\ up' = up /\ UNCHANGED disk
  BY InCall DEF LogWrite, Ops
<1>1. \A c \in Blocks : Recovered(c)' = Recovered(c)
  BY <1>0, SameDisk
<1>2. \A c \in Blocks : View(c)' = IF c = b THEN v ELSE View(c)
  BY <1>0, Constants DEF LogInv, TypeOK, LogWrite, View, disk
<1>3. \A c \in Blocks : Read(c)' = IF c = b THEN v ELSE Read(c)
  BY <1>0, <1>2 DEF Read
<1>. QED BY <1>0, <1>1, <1>3 DEF Abstract!AWrite, Ops, Read

LEMMA BufferImplements ==
  ASSUME LogInv, NEW b \in Blocks, Bread(b) \/ Evict(b)
  PROVE  UNCHANGED Abstract!avars
<1>1. UNCHANGED <<disk, pc, up>>
  BY DEF Bread, Evict
<1>2. \A c \in Blocks : Recovered(c)' = Recovered(c) /\ View(c)' = View(c)
  BY <1>1, SameDisk, BufferViews
<1>. QED BY <1>1, <1>2, Stutters DEF Read, Ops

\* The log area is written before its header says so: nobody can tell.
LEMMA WriteLogImplements == ASSUME LogInv, WriteLog PROVE UNCHANGED Abstract!avars
<1>1. head = <<>> /\ UNCHANGED <<home, head, cache, pc, up>>
  BY DEF LogInv, DataOK, Gathering, WriteLog
<1>2. \A b \in Blocks : Recovered(b)' = Recovered(b)
  BY <1>1, EmptySeq DEF Recovered
<1>. QED BY <1>1, <1>2, Stutters DEF Read, View, Ops

\* The commit point.
LEMMA WriteHeadImplements == ASSUME LogInv, WriteHead PROVE Abstract!ACommit
<1>1. /\ head' = lh /\ head = <<>> /\ up /\ up' = up /\ UNCHANGED <<home, logged, cache, lh, pc>>
  BY DEF LogInv, CallsOK, DataOK, Gathering, WriteHead
<1>2. Ops = {}
  BY OpsFinite, FS_EmptySet DEF LogInv, CallsOK, WriteHead
<1>3. \A b \in Blocks : View(b)' = View(b)
  BY <1>1 DEF View
<1>4. DOMAIN lh = 1..Len(lh) /\ \A i, j \in 1..Len(lh) : lh[i] = lh[j] => i = j
  BY DEF LogInv, TypeOK, DataOK, Header
<1>5. ASSUME NEW b \in Blocks PROVE Recovered(b)' = View(b)
  <2>1. CASE \E i \in 1..Len(lh) : lh[i] = b
    <3>1. PICK i \in 1..Len(lh) : lh[i] = b
      BY <2>1
    <3>2. (CHOOSE j \in DOMAIN lh : lh[j] = b) = i
      BY <1>4, <3>1
    <3>3. Recovered(b)' = logged[i]
      BY <1>1, <1>4, <3>1, <3>2 DEF Recovered
    <3>. QED BY <3>1, <3>3, AllLogged
  <2>2. CASE \A i \in 1..Len(lh) : lh[i] # b
    <3>1. Recovered(b)' = home[b]
      BY <1>1, <1>4, <2>2 DEF Recovered
    <3>2. b \notin dirty
      BY <2>2 DEF LogInv, DataOK, Gathering, WriteHead
    <3>. QED BY <3>1, <3>2 DEF LogInv, DataOK, CacheOK
  <2>. QED BY <2>1, <2>2
<1>. QED BY <1>1, <1>2, <1>3, <1>5 DEF Abstract!ACommit, Ops

\* A block goes to its home from a log that still wins over it.
LEMMA InstallImplements == ASSUME LogInv, InstallTrans PROVE UNCHANGED Abstract!avars
<1>1. /\ head = lh /\ tail + 1 \in 1..Len(lh) /\ UNCHANGED <<logged, head, pc, up>>
      /\ \A b \in Blocks : b # lh[tail + 1] => home'[b] = home[b]
  BY DEF LogInv, TypeOK, DataOK, Installing, InstallTrans
<1>2. \A b \in Blocks : Recovered(b)' = Recovered(b)
  <2>. SUFFICES ASSUME NEW b \in Blocks PROVE Recovered(b)' = Recovered(b)
    OBVIOUS
  <2>1. DOMAIN head = 1..Len(lh)
    BY <1>1 DEF LogInv, TypeOK
  <2>2. CASE b = lh[tail + 1]
    <3>1. \E i \in DOMAIN head : head[i] = b
      BY <1>1, <2>1, <2>2
    <3>. QED BY <1>1, <3>1 DEF Recovered
  <2>3. CASE b # lh[tail + 1]
    BY <1>1, <2>3 DEF Recovered
  <2>. QED BY <2>2, <2>3
<1>3. up => \A b \in Blocks : View(b)' = View(b)
  BY InstallTransInv
<1>. QED BY <1>1, <1>2, <1>3, Stutters DEF Read, Ops

\* The header goes when the blocks are at home; after a crash, readers start from
\* there.
LEMMA EraseHeadImplements == ASSUME LogInv, EraseHead PROVE UNCHANGED Abstract!avars
<1>1. head' = <<>> /\ up' /\ UNCHANGED <<home, logged, cache, pc>>
  BY DEF EraseHead
<1>2. /\ head = lh /\ dirty = {} /\ DOMAIN head = 1..Len(head)
      /\ \A i \in 1..Len(head) : home[head[i]] = logged[i]
  BY AllInstalled DEF LogInv, TypeOK
<1>3. \A b \in Blocks : Recovered(b) = home[b]
  BY <1>2, RecoveredIs
<1>4. \A b \in Blocks : Recovered(b)' = home[b]
  BY <1>1, EmptySeq DEF Recovered
<1>5. \A b \in Blocks : View(b) = home[b] /\ View(b)' = View(b)
  BY <1>1, <1>2 DEF LogInv, DataOK, CacheOK, View
<1>. QED BY <1>1, <1>3, <1>4, <1>5, Stutters DEF Read, Ops

LEMMA ReadHeadImplements == ASSUME LogInv, ReadHead PROVE UNCHANGED Abstract!avars
<1>1. ~up /\ UNCHANGED <<disk, cache, pc, up>>
  BY DEF LogInv, CallsOK, ReadHead
<1>2. \A b \in Blocks : Recovered(b)' = Recovered(b) /\ View(b)' = View(b)
  BY <1>1, SameDisk DEF View, disk
<1>. QED BY <1>1, <1>2, Stutters DEF Read, Ops

\* What is lost is what was not committed.
LEMMA CrashImplements == ASSUME LogInv, Crash PROVE Abstract!ACrash
<1>1. ~up' /\ UNCHANGED disk /\ Ops' = {}
  BY DEF Crash, Ops
<1>2. \A b \in Blocks : Recovered(b)' = Recovered(b)
  BY <1>1, SameDisk
<1>. QED BY <1>1, <1>2 DEF Abstract!ACrash, Ops

LEMMA NextImplements == LogInv /\ [Next]_vars => [Abstract!ANext]_(Abstract!avars)
<1>. SUFFICES ASSUME LogInv, [Next]_vars PROVE [Abstract!ANext]_(Abstract!avars)
  OBVIOUS
<1>1. ASSUME NEW p \in Procs, CallStep(p) PROVE [Abstract!ANext]_(Abstract!avars)
  BY <1>1, CallImplements
<1>2. ASSUME NEW p \in Procs, NEW b \in Blocks, NEW v \in Vals, LogWrite(p, b, v)
      PROVE  [Abstract!ANext]_(Abstract!avars)
  BY <1>2, LogWriteImplements DEF Abstract!ANext
<1>3. ASSUME NEW b \in Blocks, Bread(b) \/ Evict(b) PROVE [Abstract!ANext]_(Abstract!avars)
  BY <1>3, BufferImplements
<1>4. CASE CommitStep
  <2>1. CASE WriteHead
    BY <2>1, WriteHeadImplements DEF Abstract!ANext
  <2>2. CASE WriteLog \/ InstallTrans \/ EraseHead \/ ReadHead
    BY <2>2, WriteLogImplements, InstallImplements, EraseHeadImplements, ReadHeadImplements
  <2>. QED BY <1>4, <2>1, <2>2 DEF CommitStep
<1>5. CASE Crash
  BY <1>5, CrashImplements DEF Abstract!ANext
<1>6. CASE UNCHANGED vars
  <2>1. UNCHANGED <<disk, cache, pc, up>>
    BY <1>6 DEF vars, disk
  <2>2. \A b \in Blocks : Recovered(b)' = Recovered(b) /\ View(b)' = View(b)
    BY <2>1, SameDisk DEF View, disk
  <2>. QED BY <2>1, <2>2, Stutters DEF Read, Ops
<1>. QED BY <1>1, <1>2, <1>3, <1>4, <1>5, <1>6 DEF Next

\* The log makes the disk atomic: whenever the machine stops, also during a
\* commit or the recovery from one, all the blocks that a call wrote are on the
\* disk or none is, for any number of processes and blocks, any contents and any
\* size of the log (commit() and recover_from_log(), log.c:116-122, 193-202).
THEOREM LogIsAtomic == Spec => Atomic
<1>. QED BY InitImplements, NextImplements, LogInvHolds, PTL DEF Spec, Atomic, Abstract!ASpec
=============================================================================
