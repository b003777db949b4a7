----------------------------- MODULE PipeProofs -----------------------------
(***************************************************************************)
(* Proofs about Pipe, for any processes and messages, any size of the      *)
(* buffer and any width of the counters that is a multiple of it.          *)
(***************************************************************************)
EXTENDS Pipe, SequenceTheorems, TLAPS

-----------------------------------------------------------------------------
(* Arithmetic.                                                             *)

LEMMA DivMod ==
  ASSUME NEW x \in Int, NEW p \in Nat \ {0}
  PROVE  x = p * (x \div p) + (x % p) /\ x \div p \in Int /\ x % p \in 0..(p - 1)
OBVIOUS

LEMMA Unique ==
  ASSUME NEW p \in Nat \ {0}, NEW q \in Int, NEW r \in 0..(p - 1), NEW s \in Int, NEW t \in 0..(p - 1),
         p * q + r = p * s + t
  PROVE  q = s /\ r = t
<1>1. p * (q - s) = t - r
  OBVIOUS
<1>2. t - r < p /\ t - r > -p
  OBVIOUS
<1>. DEFINE d == q - s
<1>3. d \in Int /\ p * d = t - r
  BY <1>1
<1>. HIDE DEF d
<1>4. CASE d >= 1
  <2>1. p * d >= p
    BY <1>3, <1>4
  <2>. QED BY <2>1, <1>2, <1>3
<1>5. CASE d <= -1
  <2>1. p * d <= -p
    BY <1>3, <1>5
  <2>. QED BY <2>1, <1>2, <1>3
<1>6. CASE d = 0
  BY <1>6, <1>3 DEF d
<1>. QED BY <1>3, <1>4, <1>5, <1>6

LEMMA ModIs ==
  ASSUME NEW p \in Nat \ {0}, NEW q \in Int, NEW r \in 0..(p - 1)
  PROVE  (p * q + r) % p = r
<1>. DEFINE x == p * q + r
<1>1. x \in Int
  OBVIOUS
<1>2. x = p * (x \div p) + (x % p) /\ x \div p \in Int /\ x % p \in 0..(p - 1)
  BY <1>1, DivMod
<1>3. p * q + r = p * (x \div p) + (x % p)
  BY <1>2
<1>. HIDE DEF x
<1>4. x % p = r
  BY <1>2, <1>3, Unique
<1>. QED BY <1>4 DEF x

\* A multiple of p makes no difference.
LEMMA Shift ==
  ASSUME NEW p \in Nat \ {0}, NEW x \in Int, NEW m \in Int
  PROVE  (x - p * m) % p = x % p
<1>. DEFINE q == x \div p
            r == x % p
<1>1. x = p * q + r /\ q \in Int /\ r \in 0..(p - 1)
  BY DivMod
<1>. HIDE DEF q, r
<1>2. x - p * m = p * (q - m) + r
  BY <1>1
<1>3. q - m \in Int
  BY <1>1
<1>4. (p * (q - m) + r) % p = r
  BY <1>1, <1>3, ModIs
<1>. QED BY <1>2, <1>4 DEF r

\* p numbers in a row are all different modulo p.
LEMMA Window ==
  ASSUME NEW p \in Nat \ {0}, NEW x \in Int, NEW y \in Int, x < y, y < x + p
  PROVE  x % p # y % p
<1>. SUFFICES ASSUME x % p = y % p PROVE FALSE
  OBVIOUS
<1>. DEFINE d == (y \div p) - (x \div p)
<1>1. y - x = p * d /\ d \in Int
  <2>1. x = p * (x \div p) + (x % p) /\ x \div p \in Int /\ x % p \in Int
    BY DivMod
  <2>2. y = p * (y \div p) + (y % p) /\ y \div p \in Int /\ y % p \in Int
    BY DivMod
  <2>3. p * (y \div p) - p * (x \div p) = p * d
    BY <2>1, <2>2
  <2>. QED BY <2>1, <2>2, <2>3
<1>. HIDE DEF d
<1>2. d >= 1 \/ d <= 0
  BY <1>1
<1>3. CASE d >= 1
  <2>1. p * d >= p
    BY <1>1, <1>3
  <2>. QED BY <1>1, <2>1
<1>4. CASE d <= 0
  <2>1. p * d <= 0
    BY <1>1, <1>4
  <2>. QED BY <1>1, <2>1
<1>. QED BY <1>2, <1>3, <1>4

\* The counters: a sum of two of them wraps at most once.
LEMMA WrapOnce ==
  ASSUME NEW x \in Int, NEW w \in Nat \ {0}, -w <= x, x < w + w
  PROVE  x % w = IF x < 0 THEN x + w ELSE IF x < w THEN x ELSE x - w
<1>1. CASE x < 0
  <2>1. x + w \in 0..(w - 1)
    BY <1>1
  <2>. QED BY <1>1, <2>1
<1>2. CASE 0 <= x /\ x < w
  BY <1>2
<1>3. CASE w <= x
  BY <1>3
<1>. QED BY <1>1, <1>2, <1>3

LEMMA WrapSum ==
  ASSUME NEW w \in Nat \ {0}, NEW a \in Nat, NEW b \in Nat, a < w, b <= w
  PROVE  /\ (a + b) % w = IF a + b < w THEN a + b ELSE a + b - w
         /\ (a + b) % w \in 0..(w - 1)
<1>. DEFINE x == a + b
<1>1. x \in Int /\ -w <= x /\ 0 <= x /\ x < w + w
  OBVIOUS
<1>. HIDE DEF x
<1>2. x % w = IF x < 0 THEN x + w ELSE IF x < w THEN x ELSE x - w
  BY <1>1, WrapOnce
<1>3. x % w = IF x < w THEN x ELSE x - w
  BY <1>1, <1>2
<1>4. x % w \in 0..(w - 1)
  BY <1>1, <1>3
<1>. QED BY <1>3, <1>4 DEF x

LEMMA WrapDifference ==
  ASSUME NEW w \in Nat \ {0}, NEW a \in Nat, NEW b \in Nat, a < w, b < w
  PROVE  (a - b) % w = IF b <= a THEN a - b ELSE a - b + w
<1>. DEFINE x == a - b
<1>1. x \in Int /\ -w <= x /\ x < w /\ x < w + w
  OBVIOUS
<1>2. x < 0 <=> ~(b <= a)
  OBVIOUS
<1>. HIDE DEF x
<1>3. x % w = IF x < 0 THEN x + w ELSE IF x < w THEN x ELSE x - w
  BY <1>1, WrapOnce
<1>4. x % w = IF b <= a THEN x ELSE x + w
  BY <1>1, <1>2, <1>3
<1>. QED BY <1>4 DEF x

LEMMA Constants ==
  /\ PIPESIZE \in Nat \ {0} /\ WRAP \in Nat \ {0} /\ WRAP > PIPESIZE
  /\ WRAP = PIPESIZE * (WRAP \div PIPESIZE) /\ WRAP \div PIPESIZE \in Int
<1>1. WRAP = PIPESIZE * (WRAP \div PIPESIZE) + (WRAP % PIPESIZE)
  BY SizeAssumption, DivMod
<1>. QED BY <1>1, SizeAssumption

LEMMA ShiftWrap ==
  ASSUME NEW x \in Int
  PROVE  (x - WRAP) % PIPESIZE = x % PIPESIZE
<1>. DEFINE m == WRAP \div PIPESIZE
<1>1. m \in Int /\ WRAP = PIPESIZE * m /\ PIPESIZE \in Nat \ {0}
  BY Constants
<1>. HIDE DEF m
<1>2. (x - PIPESIZE * m) % PIPESIZE = x % PIPESIZE
  BY <1>1, Shift
<1>. QED BY <1>1, <1>2

\* Where the i-th byte counted from position r is.
At(r, i) == (r + i - 1) % PIPESIZE

LEMMA AtIs ==
  ASSUME NEW r \in 0..(WRAP - 1), NEW i \in 1..WRAP
  PROVE  ((r + i - 1) % WRAP) % PIPESIZE = At(r, i) /\ At(r, i) \in 0..(PIPESIZE - 1)
<1>. DEFINE x == r + i - 1
<1>1. x \in Int /\ -WRAP <= x /\ x < WRAP + WRAP /\ x >= 0
  BY Constants
<1>2. At(r, i) = x % PIPESIZE
  BY DEF At
<1>. HIDE DEF x
<1>3. x % WRAP = IF x < 0 THEN x + WRAP ELSE IF x < WRAP THEN x ELSE x - WRAP
  BY <1>1, Constants, WrapOnce
<1>4. x % PIPESIZE \in 0..(PIPESIZE - 1)
  BY <1>1, Constants, DivMod
<1>5. (x - WRAP) % PIPESIZE = x % PIPESIZE
  BY <1>1, Constants, ShiftWrap
<1>6. (x % WRAP) % PIPESIZE = x % PIPESIZE
  <2>1. CASE x < WRAP
    BY <2>1, <1>1, <1>3, Constants
  <2>2. CASE ~(x < WRAP)
    <3>1. x % WRAP = x - WRAP
      BY <2>2, <1>1, <1>3, Constants
    <3>. QED BY <3>1, <1>5
  <2>. QED BY <2>1, <2>2
<1>7. (x % WRAP) % PIPESIZE = At(r, i) /\ At(r, i) \in 0..(PIPESIZE - 1)
  BY <1>2, <1>4, <1>6
<1>. QED BY <1>7 DEF x

LEMMA AtApart ==
  ASSUME NEW r \in Int, NEW i \in 1..PIPESIZE, NEW j \in 1..PIPESIZE, i # j
  PROVE  At(r, i) # At(r, j)
<1>1. ASSUME NEW a \in 1..PIPESIZE, NEW b \in 1..PIPESIZE, a < b
      PROVE  At(r, a) # At(r, b)
  <2>. DEFINE x == r + a - 1
              y == r + b - 1
  <2>1. x \in Int /\ y \in Int /\ x < y /\ y < x + PIPESIZE
    BY <1>1, Constants
  <2>2. At(r, a) = x % PIPESIZE /\ At(r, b) = y % PIPESIZE
    BY DEF At
  <2>. HIDE DEF x, y
  <2>3. x % PIPESIZE # y % PIPESIZE
    BY <2>1, Constants, Window
  <2>. QED BY <2>2, <2>3
<1>2. CASE i < j
  BY <1>1, <1>2
<1>3. CASE j < i
  BY <1>1, <1>3
<1>. QED BY <1>2, <1>3, Constants

-----------------------------------------------------------------------------
(* The state.                                                              *)

TypeOK ==
  /\ data \in [0..(PIPESIZE - 1) -> Bytes]
  /\ nread \in 0..(WRAP - 1) /\ nwrite \in 0..(WRAP - 1)
  /\ readopen \in BOOLEAN /\ writeopen \in BOOLEAN
  /\ rd \in SUBSET Readers /\ wr \in SUBSET Writers
  /\ pc \in [Procs -> {"user", "read", "rgo", "rsleep", "write", "wgo", "wsleep"}]
  /\ rest \in [Procs -> Seq(Bytes)]
  /\ want \in [Procs -> Nat]
  /\ out \in Seq(Bytes)
  /\ killed \in [Procs -> BOOLEAN]

\* The buffer never holds more than it can.
InBounds == Count <= PIPESIZE

\* Calls are made by those who hold the end, and an end that nobody holds is
\* closed.
EndsOK ==
  /\ \A p \in Procs : /\ pc[p] \in {"read", "rgo", "rsleep"} => p \in rd
                      /\ pc[p] \in {"write", "wgo", "wsleep"} => p \in wr /\ rest[p] # <<>>
  /\ ~readopen => rd = {}

PipeInv == TypeOK /\ InBounds /\ EndsOK /\ SleepersIdle

\* Count is the distance from nread to nwrite.
LEMMA Distance ==
  ASSUME NEW r \in 0..(WRAP - 1), NEW w \in 0..(WRAP - 1)
  PROVE  /\ (w - r) % WRAP = (IF r <= w THEN w - r ELSE w - r + WRAP)
         /\ (w - r) % WRAP \in 0..(WRAP - 1)
         /\ r = w <=> (w - r) % WRAP = 0
         /\ w = (r + PIPESIZE) % WRAP <=> (w - r) % WRAP = PIPESIZE
<1>1. (w - r) % WRAP = (IF r <= w THEN w - r ELSE w - r + WRAP)
  BY Constants, WrapDifference
<1>2. (r + PIPESIZE) % WRAP = IF r + PIPESIZE < WRAP THEN r + PIPESIZE ELSE r + PIPESIZE - WRAP
  <2>1. r \in Nat /\ r < WRAP /\ PIPESIZE \in Nat /\ PIPESIZE <= WRAP /\ WRAP \in Nat \ {0}
    BY Constants
  <2>. QED BY <2>1, WrapSum, Zenon
<1>. QED BY <1>1, <1>2, Constants

LEMMA CountIs ==
  ASSUME TypeOK
  PROVE  /\ Count = (IF nread <= nwrite THEN nwrite - nread ELSE nwrite - nread + WRAP)
         /\ Count \in 0..(WRAP - 1)
         /\ (Empty <=> Count = 0) /\ (Full <=> Count = PIPESIZE)
         /\ nwrite = nread + Count \/ nwrite = nread + Count - WRAP
<1>1. nread \in 0..(WRAP - 1) /\ nwrite \in 0..(WRAP - 1)
  BY DEF TypeOK
<1>2. /\ Count = (IF nread <= nwrite THEN nwrite - nread ELSE nwrite - nread + WRAP)
      /\ Count \in 0..(WRAP - 1)
      /\ (Empty <=> Count = 0) /\ (Full <=> Count = PIPESIZE)
  BY <1>1, Distance, Zenon DEF Count, Empty, Full
<1>. QED BY <1>1, <1>2, Constants

\* Bytes put in or taken out move the counters as one would think.
LEMMA CountAfterPut ==
  ASSUME TypeOK, NEW n \in Nat, Count + n <= PIPESIZE, nwrite' = (nwrite + n) % WRAP, nread' = nread
  PROVE  nwrite' \in 0..(WRAP - 1) /\ Count' = Count + n
<1>1. nread \in 0..(WRAP - 1) /\ nwrite \in 0..(WRAP - 1) /\ Count \in 0..(WRAP - 1)
  BY CountIs DEF TypeOK
<1>2. nwrite' = (IF nwrite + n < WRAP THEN nwrite + n ELSE nwrite + n - WRAP) /\ nwrite' \in 0..(WRAP - 1)
  <2>1. nwrite \in Nat /\ nwrite < WRAP /\ n \in Nat /\ n <= WRAP /\ WRAP \in Nat \ {0}
    BY <1>1, Constants
  <2>. QED BY <2>1, WrapSum, Zenon
<1>3. (nwrite' - nread') % WRAP = IF nread' <= nwrite' THEN nwrite' - nread' ELSE nwrite' - nread' + WRAP
  <2>1. nread' \in Nat /\ nread' < WRAP /\ nwrite' \in Nat /\ nwrite' < WRAP /\ WRAP \in Nat \ {0}
    BY <1>1, <1>2, Constants
  <2>. QED BY <2>1, WrapDifference, Zenon
<1>5. Count' = IF nread <= nwrite' THEN nwrite' - nread ELSE nwrite' - nread + WRAP
  BY <1>3 DEF Count
<1>6. Count = IF nread <= nwrite THEN nwrite - nread ELSE nwrite - nread + WRAP
  BY CountIs
<1>. QED BY <1>1, <1>2, <1>5, <1>6, Constants

LEMMA CountAfterGet ==
  ASSUME TypeOK, NEW n \in Nat, n <= Count, nread' = (nread + n) % WRAP, nwrite' = nwrite
  PROVE  /\ nread' \in 0..(WRAP - 1) /\ Count' = Count - n
         /\ nread' = nread + n \/ nread' = nread + n - WRAP
<1>1. nread \in 0..(WRAP - 1) /\ nwrite \in 0..(WRAP - 1) /\ Count \in 0..(WRAP - 1)
  BY CountIs DEF TypeOK
<1>2. nread' = (IF nread + n < WRAP THEN nread + n ELSE nread + n - WRAP) /\ nread' \in 0..(WRAP - 1)
  <2>1. nread \in Nat /\ nread < WRAP /\ n \in Nat /\ n <= WRAP /\ WRAP \in Nat \ {0}
    BY <1>1, Constants
  <2>. QED BY <2>1, WrapSum, Zenon
<1>3. (nwrite' - nread') % WRAP = IF nread' <= nwrite' THEN nwrite' - nread' ELSE nwrite' - nread' + WRAP
  <2>1. nread' \in Nat /\ nread' < WRAP /\ nwrite' \in Nat /\ nwrite' < WRAP /\ WRAP \in Nat \ {0}
    BY <1>1, <1>2, Constants
  <2>. QED BY <2>1, WrapDifference, Zenon
<1>5. Count' = IF nread' <= nwrite THEN nwrite - nread' ELSE nwrite - nread' + WRAP
  BY <1>3 DEF Count
<1>6. Count = IF nread <= nwrite THEN nwrite - nread ELSE nwrite - nread + WRAP
  BY CountIs
<1>. QED BY <1>1, <1>2, <1>5, <1>6, Constants

-----------------------------------------------------------------------------
(* What the turns of a writer do.                                          *)

LEMMA PutEffect ==
  ASSUME TypeOK, InBounds, NEW p \in Procs, PutBytes(p)
  PROVE  /\ Turns(p) \in Nat /\ Turns(p) <= Len(rest[p]) /\ Len(rest[p]) \in Nat
         /\ data' \in [0..(PIPESIZE - 1) -> Bytes]
         /\ nwrite' \in 0..(WRAP - 1) /\ nread' = nread
         /\ Count' = Count + Turns(p) /\ Count' <= PIPESIZE
         /\ Turns(p) < Len(rest[p]) => Full'
         /\ Full => Turns(p) = 0
<1>1. rest[p] \in Seq(Bytes) /\ Len(rest[p]) \in Nat /\ Count \in Nat /\ Count <= PIPESIZE /\ PIPESIZE \in Nat
  BY CountIs, Constants DEF TypeOK, InBounds
<1>2. /\ Turns(p) \in Nat /\ Turns(p) <= Len(rest[p]) /\ Count + Turns(p) <= PIPESIZE
      /\ Turns(p) < Len(rest[p]) => Count + Turns(p) = PIPESIZE
  BY <1>1 DEF Turns
<1>3. data' \in [0..(PIPESIZE - 1) -> Bytes]
  <2>1. ASSUME NEW i \in 0..(PIPESIZE - 1), \E k \in 1..Turns(p) : Place(k) = i
        PROVE  rest[p][CHOOSE k \in 1..Turns(p) : Place(k) = i] \in Bytes
    <3>. DEFINE c == CHOOSE k \in 1..Turns(p) : Place(k) = i
    <3>1. c \in 1..Turns(p)
      BY <2>1
    <3>. HIDE DEF c
    <3>2. c \in 1..Len(rest[p])
      BY <3>1, <1>1, <1>2
    <3>3. rest[p][c] \in Bytes
      BY <3>2, <1>1
    <3>. QED BY <3>3 DEF c
  <2>2. DOMAIN data = 0..(PIPESIZE - 1) /\ \A i \in 0..(PIPESIZE - 1) : data[i] \in Bytes
    BY DEF TypeOK
  <2>. QED BY <2>1, <2>2 DEF PutBytes
<1>4. /\ nwrite' \in 0..(WRAP - 1) /\ nread' = nread /\ Count' = Count + Turns(p)
  <2>1. nwrite' = (nwrite + Turns(p)) % WRAP /\ nread' = nread
    BY DEF PutBytes
  <2>. QED BY <2>1, <1>2, CountAfterPut
<1>5. Full' <=> Count' = PIPESIZE
  <2>1. nread' \in 0..(WRAP - 1) /\ nwrite' \in 0..(WRAP - 1)
    BY <1>4 DEF TypeOK
  <2>. QED BY <2>1, Distance DEF Full, Count
<1>6. Full => Turns(p) = 0
  BY <1>1, <1>2, CountIs
<1>. QED BY <1>1, <1>2, <1>3, <1>4, <1>5, <1>6

-----------------------------------------------------------------------------
(* What a reader takes.                                                    *)

LEMMA ContentsAre ==
  ASSUME TypeOK, InBounds
  PROVE  /\ Contents = [i \in 1..Count |-> data[At(nread, i)]]
         /\ \A i \in 1..Count : data[At(nread, i)] \in Bytes
         /\ Contents \in Seq(Bytes) /\ Len(Contents) = Count /\ Count \in Nat
<1>1. nread \in 0..(WRAP - 1) /\ Count \in 0..PIPESIZE
  BY CountIs DEF TypeOK, InBounds
<1>2. ASSUME NEW i \in 1..Count
      PROVE  ((nread + i - 1) % WRAP) % PIPESIZE = At(nread, i) /\ data[At(nread, i)] \in Bytes
  <2>1. i \in 1..WRAP
    BY <1>1, Constants
  <2>2. ((nread + i - 1) % WRAP) % PIPESIZE = At(nread, i) /\ At(nread, i) \in 0..(PIPESIZE - 1)
    BY <1>1, <2>1, AtIs
  <2>. QED BY <2>2 DEF TypeOK
<1>3. Contents = [i \in 1..Count |-> data[At(nread, i)]]
  BY <1>2, Zenon DEF Contents
<1>. QED BY <1>1, <1>2, <1>3

\* The same of the state after a step.
ContentsOK ==
  /\ Contents = [i \in 1..Count |-> data[At(nread, i)]]
  /\ Contents \in Seq(Bytes) /\ Len(Contents) = Count

LEMMA ContentsAfter == (TypeOK /\ InBounds)' => ContentsOK'
<1>1. TypeOK /\ InBounds => ContentsOK
  BY ContentsAre DEF ContentsOK
<1>. QED BY <1>1, PTL

LEMMA GetEffect ==
  ASSUME TypeOK, InBounds, NEW p \in Procs, ReadEnd(p)
  PROVE  \E n \in 0..Count :
           /\ out' = SubSeq(Contents, 1, n) /\ out' \in Seq(Bytes)
           /\ nread' \in 0..(WRAP - 1) /\ nwrite' = nwrite
           /\ nread' = nread + n \/ nread' = nread + n - WRAP
           /\ Count' = Count - n
<1>. DEFINE n == IF want[p] <= Count THEN want[p] ELSE Count
<1>1. n \in Nat /\ n <= Count /\ Count \in Nat
  BY CountIs DEF TypeOK
<1>2. out' = SubSeq(Contents, 1, n) /\ nread' = (nread + n) % WRAP /\ nwrite' = nwrite
  BY DEF ReadEnd
<1>. HIDE DEF n
<1>3. out' \in Seq(Bytes)
  <2>1. Contents \in Seq(Bytes) /\ n \in 0..Len(Contents)
    BY <1>1, ContentsAre
  <2>. QED BY <1>2, <2>1, SubSeqProperties
<1>4. /\ nread' \in 0..(WRAP - 1) /\ Count' = Count - n
      /\ nread' = nread + n \/ nread' = nread + n - WRAP
  BY <1>1, <1>2, CountAfterGet
<1>5. n \in 0..Count
  BY <1>1
<1>. QED BY <1>2, <1>3, <1>4, <1>5

-----------------------------------------------------------------------------
(* The invariant.                                                          *)

LEMMA InitInv == Init => PipeInv
<1>. SUFFICES ASSUME Init PROVE PipeInv
  OBVIOUS
<1>1. TypeOK
  BY Constants DEF Init, TypeOK
<1>2. InBounds
  BY <1>1, CountIs, Constants DEF InBounds, Init
<1>. QED BY <1>1, <1>2 DEF PipeInv, EndsOK, SleepersIdle, Init

\* A step that leaves the counters alone leaves the bytes alone.
LEMMA SameBytes ==
  ASSUME UNCHANGED <<data, nread, nwrite>>
  PROVE  Count' = Count /\ Contents' = Contents /\ (Full' <=> Full) /\ (Empty' <=> Empty)
BY DEF Count, Contents, Full, Empty

LEMMA CallsPreserve ==
  ASSUME PipeInv, NEW p \in Procs,
         (\E s \in Messages : Write(p, s)) \/ (\E n \in 1..PIPESIZE : Read(p, n))
           \/ ReadEmpty(p) \/ ReadSleep(p) \/ WriteSleep(p) \/ ReadFail(p) \/ CloseRead(p) \/ CloseWrite(p) \/ Kill(p)
  PROVE  PipeInv'
<1>. USE DEF PipeInv, ReadersWoken, WritersWoken
<1>1. UNCHANGED <<data, nread, nwrite>>
  BY DEF Write, Read, ReadEmpty, ReadSleep, WriteSleep, ReadFail, CloseRead, CloseWrite, Kill
<1>2. InBounds' /\ (Full' <=> Full) /\ (Empty' <=> Empty)
  BY <1>1, SameBytes DEF InBounds
<1>3. ASSUME NEW s \in Messages, Write(p, s) PROVE TypeOK' /\ EndsOK' /\ SleepersIdle'
  <2>1. s \in Seq(Bytes) /\ s # <<>>
    BY BoundAssumption
  <2>2. TypeOK'
    BY <2>1, <1>3 DEF TypeOK, Write
  <2>3. EndsOK'
    BY <2>1, <1>3 DEF TypeOK, EndsOK, Write
  <2>4. SleepersIdle'
    BY <1>3, <1>2 DEF TypeOK, SleepersIdle, Write
  <2>. QED BY <2>2, <2>3, <2>4
<1>4. ASSUME NEW n \in 1..PIPESIZE, Read(p, n) PROVE TypeOK' /\ EndsOK' /\ SleepersIdle'
  <2>1. n \in Nat
    BY Constants
  <2>2. TypeOK'
    BY <2>1, <1>4 DEF TypeOK, Read
  <2>3. EndsOK'
    BY <1>4 DEF TypeOK, EndsOK, Read
  <2>4. SleepersIdle'
    BY <1>4, <1>2 DEF TypeOK, SleepersIdle, Read
  <2>. QED BY <2>2, <2>3, <2>4
<1>5. CASE ReadSleep(p)
  <2>2. TypeOK'
    BY <1>5 DEF TypeOK, ReadSleep
  <2>3. EndsOK'
    BY <1>5 DEF TypeOK, EndsOK, ReadSleep
  <2>4. SleepersIdle'
    BY <1>5, <1>2 DEF TypeOK, SleepersIdle, ReadSleep
  <2>. QED BY <1>2, <2>2, <2>3, <2>4
<1>6. CASE ReadFail(p)
  <2>2. TypeOK'
    BY <1>6 DEF TypeOK, ReadFail
  <2>3. EndsOK'
    BY <1>6 DEF TypeOK, EndsOK, ReadFail
  <2>4. SleepersIdle'
    BY <1>6, <1>2 DEF TypeOK, SleepersIdle, ReadFail
  <2>. QED BY <1>2, <2>2, <2>3, <2>4
<1>7. CASE CloseRead(p)
  <2>2. TypeOK'
    BY <1>7 DEF TypeOK, CloseRead
  <2>3. EndsOK'
    BY <1>7 DEF TypeOK, EndsOK, CloseRead
  <2>4. SleepersIdle'
    BY <1>7, <1>2 DEF TypeOK, SleepersIdle, CloseRead, LockFree
  <2>. QED BY <1>2, <2>2, <2>3, <2>4
<1>8. CASE CloseWrite(p)
  <2>2. TypeOK'
    BY <1>8 DEF TypeOK, CloseWrite
  <2>3. EndsOK'
    BY <1>8 DEF TypeOK, EndsOK, CloseWrite
  <2>4. SleepersIdle'
    BY <1>8, <1>2 DEF TypeOK, SleepersIdle, CloseWrite, LockFree
  <2>. QED BY <1>2, <2>2, <2>3, <2>4
<1>9. CASE Kill(p)
  <2>2. TypeOK'
    BY <1>9 DEF TypeOK, Kill
  <2>3. EndsOK'
    BY <1>9 DEF TypeOK, EndsOK, Kill
  <2>4. SleepersIdle'
    BY <1>9, <1>2 DEF TypeOK, SleepersIdle, Kill, Procs
  <2>. QED BY <1>2, <2>2, <2>3, <2>4
<1>10. CASE ReadEmpty(p)
  <2>2. TypeOK'
    BY <1>10 DEF TypeOK, ReadEmpty
  <2>3. EndsOK'
    BY <1>10 DEF TypeOK, EndsOK, ReadEmpty
  <2>4. SleepersIdle'
    BY <1>10, <1>2 DEF TypeOK, SleepersIdle, ReadEmpty
  <2>. QED BY <1>2, <2>2, <2>3, <2>4
<1>11. CASE WriteSleep(p)
  <2>2. TypeOK'
    BY <1>11 DEF TypeOK, WriteSleep
  <2>3. EndsOK'
    BY <1>11 DEF TypeOK, EndsOK, WriteSleep
  <2>4. SleepersIdle'
    BY <1>11, <1>2 DEF TypeOK, SleepersIdle, WriteSleep
  <2>. QED BY <1>2, <2>2, <2>3, <2>4
<1>. QED BY <1>2, <1>3, <1>4, <1>5, <1>6, <1>7, <1>8, <1>9, <1>10, <1>11

LEMMA TailIs ==
  ASSUME NEW S, NEW s \in Seq(S), NEW n \in 0..Len(s)
  PROVE  /\ SubSeq(s, n + 1, Len(s)) \in Seq(S)
         /\ Len(SubSeq(s, n + 1, Len(s))) = Len(s) - n
         /\ \A i \in 1..(Len(s) - n) : SubSeq(s, n + 1, Len(s))[i] = s[n + i]
<1>. DEFINE m == n + 1
            l == Len(s)
<1>1. m \in Int /\ l \in Int /\ n \in Int /\ 0 <= n /\ n <= l /\ \A i \in m..l : s[i] \in S
  OBVIOUS
<1>. HIDE DEF m, l
<1>2. /\ SubSeq(s, m, l) \in Seq(S)
      /\ Len(SubSeq(s, m, l)) = IF m <= l THEN l - m + 1 ELSE 0
      /\ \A i \in 1..(l - m + 1) : SubSeq(s, m, l)[i] = s[m + i - 1]
  BY <1>1, SubSeqProperties
<1>. QED BY <1>1, <1>2 DEF m, l

LEMMA WritePreserves ==
  ASSUME PipeInv, NEW p \in Procs, WriteTurn(p)
  PROVE  PipeInv'
<1>. USE DEF PipeInv
<1>1. PutBytes(p) /\ pc[p] = "write" /\ p \in wr /\ p \in Writers /\ rest[p] # <<>> /\ rest[p] \in Seq(Bytes)
  BY DEF WriteTurn, WriteEnd, WriteFail, WriteFull, EndsOK, TypeOK
<1>. DEFINE n == Turns(p)
<1>2. /\ n \in Nat /\ n <= Len(rest[p]) /\ Len(rest[p]) \in Nat
      /\ data' \in [0..(PIPESIZE - 1) -> Bytes]
      /\ nwrite' \in 0..(WRAP - 1) /\ nread' = nread
      /\ Count' = Count + n /\ Count' <= PIPESIZE
      /\ n < Len(rest[p]) => Full'
      /\ Full => n = 0
  BY <1>1, PutEffect
<1>8. LockFree
  BY DEF WriteTurn
<1>3. Len(rest[p]) > 0
  BY <1>1
<1>. HIDE DEF n
<1>4. InBounds'
  BY <1>2 DEF InBounds
<1>5. CASE WriteEnd(p)
  <2>1. n = Len(rest[p])
    BY <1>5 DEF WriteEnd, n
  <2>2. ~Full
    BY <2>1, <1>2, <1>3
  <2>3. TypeOK'
    BY <1>5, <1>2 DEF TypeOK, WriteEnd, PutBytes, ReadersWoken
  <2>4. EndsOK'
    BY <1>5 DEF TypeOK, EndsOK, WriteEnd, PutBytes, ReadersWoken
  <2>5. SleepersIdle'
    BY <1>5, <1>8, <2>2 DEF LockFree, TypeOK, SleepersIdle, WriteEnd, PutBytes, ReadersWoken
  <2>. QED BY <1>4, <2>3, <2>4, <2>5
<1>6. CASE WriteFail(p)
  <2>1. n < Len(rest[p])
    BY <1>6 DEF WriteFail, n
  <2>2. Full'
    BY <2>1, <1>2
  <2>3. TypeOK'
    BY <1>6, <1>2 DEF TypeOK, WriteFail, PutBytes
  <2>4. EndsOK'
    BY <1>6 DEF TypeOK, EndsOK, WriteFail, PutBytes
  <2>5. SleepersIdle'
    <3>1. ASSUME ~readopen, NEW q \in Procs PROVE pc[q] # "rsleep"
      BY <3>1 DEF EndsOK
    <3>. QED BY <1>6, <1>1, <1>8, <2>2, <3>1 DEF LockFree, TypeOK, SleepersIdle, WriteFail, PutBytes
  <2>. QED BY <1>4, <2>3, <2>4, <2>5
<1>7. CASE WriteFull(p)
  <2>1. n < Len(rest[p])
    BY <1>7 DEF WriteFull, n
  <2>2. Full'
    BY <2>1, <1>2
  <2>. DEFINE s == SubSeq(rest[p], n + 1, Len(rest[p]))
  <2>3. s \in Seq(Bytes) /\ s # <<>>
    <3>1. n \in 0..Len(rest[p])
      BY <1>2
    <3>2. s \in Seq(Bytes) /\ Len(s) = Len(rest[p]) - n
      BY <3>1, <1>1, TailIs
    <3>. HIDE DEF s
    <3>. QED BY <3>2, <1>2, <2>1
  <2>4. rest' = [rest EXCEPT ![p] = s]
    BY <1>7 DEF WriteFull, n
  <2>. HIDE DEF s
  <2>5. TypeOK'
    BY <1>7, <1>2, <2>3, <2>4 DEF TypeOK, WriteFull, PutBytes, ReadersWoken
  <2>6. EndsOK'
    <3>1. /\ rest'[p] = s /\ pc'[p] = "wgo"
          /\ \A q \in Procs \ {p} : /\ rest'[q] = rest[q]
                                   /\ pc'[q] = IF pc[q] = "rsleep" THEN "read" ELSE pc[q]
      BY <1>7, <2>4 DEF TypeOK, WriteFull, ReadersWoken
    <3>2. UNCHANGED <<readopen, rd, wr>>
      BY <1>7 DEF WriteFull, PutBytes
    <3>. QED BY <3>1, <3>2, <1>1, <2>3 DEF EndsOK
  <2>7. SleepersIdle'
    BY <1>7, <1>8, <2>2 DEF LockFree, TypeOK, SleepersIdle, WriteFull, PutBytes, ReadersWoken
  <2>. QED BY <1>4, <2>5, <2>6, <2>7
<1>. QED BY <1>5, <1>6, <1>7 DEF WriteTurn

LEMMA ReadPreserves ==
  ASSUME PipeInv, NEW p \in Procs, ReadEnd(p), LockFree
  PROVE  PipeInv'
<1>. USE DEF PipeInv
<1>1. PICK n \in 0..Count :
        /\ out' = SubSeq(Contents, 1, n) /\ out' \in Seq(Bytes)
        /\ nread' \in 0..(WRAP - 1) /\ nwrite' = nwrite
        /\ nread' = nread + n \/ nread' = nread + n - WRAP
        /\ Count' = Count - n
  BY GetEffect
<1>2. InBounds'
  BY <1>1, CountIs, Constants DEF InBounds
<1>3. TypeOK'
  BY <1>1 DEF TypeOK, ReadEnd, WritersWoken
<1>4. EndsOK'
  BY DEF TypeOK, EndsOK, ReadEnd, WritersWoken
<1>5. SleepersIdle'
  BY DEF TypeOK, SleepersIdle, ReadEnd, WritersWoken, LockFree
<1>. QED BY <1>2, <1>3, <1>4, <1>5

LEMMA NextInv == PipeInv /\ [Next]_vars => PipeInv'
<1>. SUFFICES ASSUME PipeInv, [Next]_vars PROVE PipeInv'
  OBVIOUS
<1>1. CASE UNCHANGED vars
  BY <1>1, SameBytes DEF vars, PipeInv, TypeOK, InBounds, EndsOK, SleepersIdle
<1>2. CASE Next
  BY <1>2, CallsPreserve, WritePreserves, ReadPreserves DEF Next, ReadTurn
<1>. QED BY <1>1, <1>2

LEMMA Invariant == Spec => []PipeInv
BY InitInv, NextInv, PTL DEF Spec

\* No wakeup of a pipe is lost (pipe.c:90, 95, 118 and pipeclose()), whatever the
\* writes, the size of the buffer, the processes and the kills, those that come
\* between a turn's test of killed and its sleep() included.
THEOREM PipeSleepersIdle == Spec => []SleepersIdle
<1>1. PipeInv => SleepersIdle
  BY DEF PipeInv
<1>. QED BY <1>1, Invariant, PTL

-----------------------------------------------------------------------------
(* The refinement: a turn of a writer is a Put of the bytes that fit, or   *)
(* nothing; the end of a read is a Get; all else leaves the bytes alone.   *)

LEMMA InitStream == Init => Stream!SInit
<1>. SUFFICES ASSUME Init PROVE Stream!SInit
  OBVIOUS
<1>1. TypeOK /\ InBounds /\ Empty
  BY InitInv DEF PipeInv, Init, Empty
<1>2. Count = 0 /\ Contents \in Seq(Bytes) /\ Len(Contents) = Count
  BY <1>1, CountIs, ContentsAre
<1>3. Contents = <<>>
  BY <1>2
<1>. QED BY <1>3 DEF Stream!SInit, Init

\* The k-th byte put in goes to the k-th free place.
LEMMA PlaceIs ==
  ASSUME TypeOK, InBounds, NEW k \in 1..PIPESIZE
  PROVE  Place(k) = At(nread, Count + k)
<1>1. nread \in 0..(WRAP - 1) /\ nwrite \in 0..(WRAP - 1) /\ Count \in Nat
  BY CountIs DEF TypeOK
<1>2. Place(k) = At(nwrite, k)
  BY <1>1, AtIs, Constants DEF Place
<1>. DEFINE x == nread + (Count + k) - 1
<1>3. x \in Int /\ (nwrite + k - 1 = x \/ nwrite + k - 1 = x - WRAP)
  BY <1>1, CountIs, Constants
<1>4. At(nread, Count + k) = x % PIPESIZE /\ At(nwrite, k) = (nwrite + k - 1) % PIPESIZE
  BY DEF At
<1>. HIDE DEF x
<1>5. (x - WRAP) % PIPESIZE = x % PIPESIZE
  BY <1>3, ShiftWrap
<1>. QED BY <1>2, <1>3, <1>4, <1>5

\* The array after the turns of a writer.
LEMMA DataAfterPut ==
  ASSUME TypeOK, InBounds, NEW p \in Procs, PutBytes(p)
  PROVE  /\ \A i \in 1..Count : data'[At(nread, i)] = data[At(nread, i)]
         /\ \A k \in 1..Turns(p) : data'[At(nread, Count + k)] = rest[p][k]
<1>1. /\ Turns(p) \in Nat /\ Count + Turns(p) <= PIPESIZE
      /\ nread \in 0..(WRAP - 1) /\ nread \in Int /\ Count \in Nat
  BY PutEffect, CountIs DEF TypeOK
<1>2. ASSUME NEW i \in 1..PIPESIZE PROVE At(nread, i) \in DOMAIN data
  <2>1. i \in 1..WRAP
    BY Constants
  <2>. QED BY <2>1, <1>1, AtIs DEF TypeOK
<1>3. ASSUME NEW k \in 1..Turns(p) PROVE k \in 1..PIPESIZE /\ Count + k \in 1..PIPESIZE /\ Place(k) = At(nread, Count + k)
  <2>1. k \in 1..PIPESIZE /\ Count + k \in 1..PIPESIZE
    BY <1>1, Constants
  <2>. QED BY <2>1, PlaceIs
<1>4. data' = [i \in DOMAIN data |->
                IF \E k \in 1..Turns(p) : Place(k) = i
                  THEN rest[p][CHOOSE k \in 1..Turns(p) : Place(k) = i]
                  ELSE data[i]]
  BY DEF PutBytes
<1>5. ASSUME NEW i \in 1..Count PROVE data'[At(nread, i)] = data[At(nread, i)]
  <2>1. i \in 1..PIPESIZE
    BY <1>1, Constants
  <2>2. ASSUME NEW k \in 1..Turns(p) PROVE Place(k) # At(nread, i)
    <3>1. Count + k # i
      BY <1>1
    <3>. QED BY <3>1, <2>1, <1>1, <1>3, AtApart
  <2>. QED BY <2>1, <2>2, <1>2, <1>4
<1>6. ASSUME NEW k \in 1..Turns(p) PROVE data'[At(nread, Count + k)] = rest[p][k]
  <2>. DEFINE c == CHOOSE l \in 1..Turns(p) : Place(l) = At(nread, Count + k)
  <2>1. c \in 1..Turns(p) /\ Place(c) = At(nread, Count + k)
    BY <1>3
  <2>2. data'[At(nread, Count + k)] = rest[p][c]
    BY <1>2, <1>3, <1>4
  <2>. HIDE DEF c
  <2>3. At(nread, Count + c) = At(nread, Count + k)
    BY <2>1, <1>3
  <2>4. Count + c = Count + k
    BY <2>1, <2>3, <1>1, <1>3, AtApart
  <2>5. c = k
    BY <2>1, <2>4, <1>1
  <2>. QED BY <2>2, <2>5
<1>. QED BY <1>5, <1>6

LEMMA WriteStream ==
  ASSUME PipeInv, PipeInv', NEW p \in Procs, WriteTurn(p)
  PROVE  Stream!Put \/ UNCHANGED <<Contents, out>>
<1>1. TypeOK /\ InBounds /\ PutBytes(p) /\ TypeOK' /\ InBounds'
  BY DEF PipeInv, WriteTurn, WriteEnd, WriteFail, WriteFull
<1>2. out' = out /\ nread' = nread
  BY <1>1 DEF PutBytes
<1>. DEFINE n == Turns(p)
            s == [k \in 1..n |-> rest[p][k]]
<1>3. /\ n \in Nat /\ n <= Len(rest[p]) /\ rest[p] \in Seq(Bytes)
      /\ Count' = Count + n /\ Count + n <= PIPESIZE /\ Count \in Nat
  <2>1. n \in Nat /\ n <= Len(rest[p]) /\ Count' = Count + n /\ Count' <= PIPESIZE
    BY <1>1, PutEffect
  <2>2. rest[p] \in Seq(Bytes)
    BY <1>1 DEF TypeOK
  <2>3. Count \in Nat
    BY <1>1, CountIs
  <2>. HIDE DEF n
  <2>. QED BY <2>1, <2>2, <2>3
<1>4. /\ Contents = [i \in 1..Count |-> data[At(nread, i)]]
      /\ Contents \in Seq(Bytes) /\ Len(Contents) = Count
  BY <1>1, ContentsAre
<1>5. /\ Contents' = [i \in 1..Count' |-> data'[At(nread', i)]]
      /\ Contents' \in Seq(Bytes) /\ Len(Contents') = Count'
  BY <1>1, ContentsAfter DEF ContentsOK
<1>. HIDE DEF n
<1>6. s \in [1..n -> Bytes] /\ s \in Seq(Bytes) /\ Len(s) = n
  <2>1. ASSUME NEW k \in 1..n PROVE rest[p][k] \in Bytes
    BY <1>3
  <2>. QED BY <2>1, <1>3
<1>7. Contents' = Contents \o s
  <2>1. ASSUME NEW i \in 1..Count PROVE Contents'[i] = Contents[i]
    <3>1. i \in 1..Count'
      BY <1>3
    <3>2. data'[At(nread, i)] = data[At(nread, i)]
      BY <1>1, DataAfterPut
    <3>. QED BY <3>1, <3>2, <1>2, <1>4, <1>5
  <2>2. ASSUME NEW k \in 1..n PROVE Contents'[Count + k] = s[k]
    <3>1. Count + k \in 1..Count'
      BY <1>3
    <3>2. data'[At(nread, Count + k)] = rest[p][k]
      BY <1>1, DataAfterPut DEF n
    <3>. QED BY <3>1, <3>2, <1>2, <1>5
  <2>. HIDE DEF s
  <2>3. /\ Contents \o s \in Seq(Bytes) /\ Len(Contents \o s) = Count + n
        /\ \A i \in 1..(Count + n) : (Contents \o s)[i] = IF i <= Count THEN Contents[i] ELSE s[i - Count]
    <3>1. Contents \in Seq(Bytes) /\ s \in Seq(Bytes)
      BY <1>4, <1>6
    <3>2. /\ Contents \o s \in Seq(Bytes) /\ Len(Contents \o s) = Len(Contents) + Len(s)
          /\ \A i \in 1..(Len(Contents) + Len(s)) :
               (Contents \o s)[i] = IF i <= Len(Contents) THEN Contents[i] ELSE s[i - Len(Contents)]
      BY <3>1, ConcatProperties, Zenon
    <3>3. Len(Contents) = Count /\ Len(s) = n
      BY <1>4, <1>6
    <3>. QED BY <3>2, <3>3, Zenon
  <2>4. ASSUME NEW i \in 1..(Count + n) PROVE Contents'[i] = (Contents \o s)[i]
    <3>1. CASE i <= Count
      <4>1. i \in 1..Count
        BY <3>1, <1>3
      <4>2. Contents'[i] = Contents[i]
        BY <4>1, <2>1
      <4>3. (Contents \o s)[i] = Contents[i]
        BY <2>3, <3>1, Zenon
      <4>. QED BY <4>2, <4>3
    <3>2. CASE ~(i <= Count)
      <4>1. i - Count \in 1..n /\ Count + (i - Count) = i
        BY <3>2, <1>3
      <4>2. Contents'[i] = s[i - Count]
        BY <4>1, <2>2
      <4>4. (Contents \o s)[i] = s[i - Count]
        BY <2>3, <3>2, Zenon
      <4>. QED BY <4>2, <4>4
    <3>. QED BY <3>1, <3>2
  <2>. QED BY <2>3, <2>4, <1>3, <1>5, SeqEqual
<1>8. CASE n = 0
  <2>1. s = <<>>
    BY <1>8, <1>6
  <2>. HIDE DEF s
  <2>2. Contents' = Contents
    BY <2>1, <1>4, <1>7
  <2>. QED BY <2>2, <1>2
<1>9. CASE n # 0
  <2>1. n \in 1..(PIPESIZE - Len(Contents))
    BY <1>9, <1>3, <1>4, Constants
  <2>. HIDE DEF s
  <2>. QED BY <2>1, <1>2, <1>6, <1>7 DEF Stream!Put
<1>. QED BY <1>8, <1>9

LEMMA ReadStream ==
  ASSUME PipeInv, PipeInv', NEW p \in Procs, ReadEnd(p)
  PROVE  Stream!Get
<1>1. TypeOK /\ InBounds /\ TypeOK' /\ InBounds' /\ data' = data
  BY DEF PipeInv, ReadEnd
<1>2. PICK n \in 0..Count :
        /\ out' = SubSeq(Contents, 1, n)
        /\ nread' = nread + n \/ nread' = nread + n - WRAP
        /\ Count' = Count - n
  BY <1>1, GetEffect
<1>3. nread \in Int /\ nread' \in Int /\ Count \in Nat /\ n \in Nat /\ n <= Count
  BY <1>1, CountIs DEF TypeOK
<1>4. /\ Contents = [i \in 1..Count |-> data[At(nread, i)]]
      /\ Contents \in Seq(Bytes) /\ Len(Contents) = Count
  BY <1>1, ContentsAre
<1>5. /\ Contents' = [i \in 1..Count' |-> data'[At(nread', i)]]
      /\ Contents' \in Seq(Bytes) /\ Len(Contents') = Count'
  BY <1>1, ContentsAfter DEF ContentsOK
<1>6. ASSUME NEW i \in 1..Count' PROVE At(nread', i) = At(nread, n + i)
  <2>. DEFINE x == nread + (n + i) - 1
  <2>1. x \in Int /\ (nread' + i - 1 = x \/ nread' + i - 1 = x - WRAP)
    <3>1. i \in Int
      BY <1>2, <1>3
    <3>2. CASE nread' = nread + n
      BY <3>1, <3>2, <1>3, Constants
    <3>3. CASE nread' = nread + n - WRAP
      BY <3>1, <3>3, <1>3, Constants
    <3>. QED BY <3>2, <3>3, <1>2
  <2>2. At(nread, n + i) = x % PIPESIZE /\ At(nread', i) = (nread' + i - 1) % PIPESIZE
    BY DEF At
  <2>. HIDE DEF x
  <2>3. (x - WRAP) % PIPESIZE = x % PIPESIZE
    BY <2>1, ShiftWrap
  <2>. QED BY <2>1, <2>2, <2>3
<1>. DEFINE t == SubSeq(Contents, n + 1, Len(Contents))
<1>7. t \in Seq(Bytes) /\ Len(t) = Count - n /\ \A i \in 1..(Count - n) : t[i] = Contents[n + i]
  BY <1>3, <1>4, TailIs
<1>. HIDE DEF t
<1>8. ASSUME NEW i \in 1..Count' PROVE Contents'[i] = t[i]
  <2>1. n + i \in 1..Count /\ i \in 1..(Count - n)
    BY <1>2, <1>3
  <2>2. t[i] = data[At(nread, n + i)]
    BY <2>1, <1>4, <1>7
  <2>. QED BY <2>2, <1>1, <1>5, <1>6
<1>9. Contents' = t
  BY <1>2, <1>5, <1>7, <1>8, SeqEqual
<1>10. n \in 0..Len(Contents)
  BY <1>3, <1>4
<1>. QED BY <1>2, <1>9, <1>10 DEF Stream!Get, t

\* A pipe is a bounded stream of bytes (pipe.c:78-121), also when a counter goes
\* back to zero: every byte comes out once and in order.
THEOREM PipeIsStream == Spec => Fifo
<1>1. PipeInv /\ PipeInv' /\ [Next]_vars => [Stream!SNext]_(Stream!svars)
  <2>. SUFFICES ASSUME PipeInv, PipeInv', [Next]_vars PROVE Stream!SNext \/ UNCHANGED <<Contents, out>>
    BY DEF Stream!svars
  <2>1. CASE UNCHANGED vars
    BY <2>1, SameBytes DEF vars
  <2>2. CASE \E p \in Procs : WriteTurn(p)
    BY <2>2, WriteStream DEF Stream!SNext
  <2>3. CASE \E p \in Procs : ReadTurn(p) /\ ReadEnd(p)
    BY <2>3, ReadStream DEF Stream!SNext
  <2>4. CASE Next /\ ~(\E p \in Procs : WriteTurn(p)) /\ ~(\E p \in Procs : ReadTurn(p) /\ ReadEnd(p))
    <3>1. UNCHANGED <<data, nread, nwrite, out>>
      BY <2>4 DEF Next, ReadTurn, Write, Read, ReadEmpty, ReadSleep, WriteSleep, ReadFail, CloseRead, CloseWrite, Kill
    <3>. QED BY <3>1, SameBytes
  <2>. QED BY <2>1, <2>2, <2>3, <2>4
<1>. QED BY <1>1, InitStream, Invariant, PTL DEF Spec, Fifo, Stream!SSpec

=============================================================================
