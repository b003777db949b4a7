------------------------------ MODULE ForkProofs ------------------------------
(***************************************************************************)
(* Proofs about the two programs that fork a child for each thing they are *)
(* asked: ExecLines, for every limit of parallel children and every length *)
(* of the input, with ExecTuberia, in which one of the children runs a     *)
(* pipeline (for main() it is a child like the others, and it lasts as     *)
(* long as its last command), and WebServer, for any connections, limits   *)
(* of accesses, length of files and segments that clients may send.        *)
(***************************************************************************)
EXTENDS ExecTuberia, WebServer, SequenceTheorems, FiniteSetTheorems, WellFoundedInduction, TLAPS

-----------------------------------------------------------------------------
(* exec_lines.                                                             *)

\* The children not yet waited for.
Alive == {i \in Lines : child[i] \in {"running", "zombie"}}

\* The input, and the line that is waiting for a place.
InputOK ==
  /\ input \in Seq(Kinds) /\ Len(input) <= MaxLines
  /\ newline \in BOOLEAN
  /\ pc = "slot" => num_linea <= Len(input)

\* The lines from the current one on have no child.
FreshLines == \A i \in Lines : i >= num_linea => child[i] = "none"

CountInv == TypeOK /\ InputOK /\ FreshLines /\ CountExact

LEMMA Constants == NumProcs \in Nat /\ NumProcs >= 1 /\ MaxLines \in Nat
BY NumProcsAssumption, MaxLinesAssumption

LEMMA AliveFinite == IsFiniteSet(Alive) /\ Cardinality(Alive) \in Nat
<1>1. IsFiniteSet(Lines)
  BY Constants, FS_Interval DEF Lines
<1>2. Alive \in SUBSET Lines
  BY DEF Alive
<1>. QED BY <1>1, <1>2, FS_Subset, FS_CardinalityType

LEMMA CountIs == CountExact <=> procesos_activos = Cardinality(Alive)
BY DEF CountExact, Alive

LEMMA InitCount == Init => CountInv
<1>. SUFFICES ASSUME Init PROVE CountInv
  OBVIOUS
<1>1. TypeOK
  <2>1. /\ child \in [Lines -> {"none", "running", "zombie", "reaped"}]
        /\ status \in [Lines -> Statuses \cup {"none"}]
    BY DEF Init
  <2>2. /\ num_linea \in 1..(MaxLines + 1) /\ procesos_activos \in 0..NumProcs
        /\ linea_error \in 0..MaxLines
    BY Constants DEF Init
  <2>. QED BY <2>1, <2>2 DEF Init, TypeOK
<1>2. InputOK
  BY Constants, InputsAssumption DEF Init, InputOK, BoundedSeq, SeqOf
<1>3. FreshLines
  BY DEF Init, FreshLines
<1>4. CountExact
  <2>1. Alive = {}
    BY DEF Init, Alive
  <2>. QED BY <2>1, FS_EmptySet, CountIs DEF Init
<1>. QED BY <1>1, <1>2, <1>3, <1>4 DEF CountInv

\* What is left of the children not waited for when one of them is reaped.
LEMMA ReapAlive ==
  ASSUME CountInv, NEW i \in Lines, Reap(i)
  PROVE  /\ Alive' = Alive \ {i} /\ i \in Alive
         /\ Cardinality(Alive') = Cardinality(Alive) - 1
         /\ Cardinality(Alive) >= 1
<1>1. /\ child \in [Lines -> {"none", "running", "zombie", "reaped"}]
      /\ child[i] = "zombie" /\ child' = [child EXCEPT ![i] = "reaped"]
  BY DEF Reap, CountInv, TypeOK
<1>2. Alive' = Alive \ {i} /\ i \in Alive
  BY <1>1 DEF Alive
<1>3. Cardinality(Alive \ {i}) = Cardinality(Alive) - 1
  BY <1>2, AliveFinite, FS_RemoveElement
<1>4. Cardinality(Alive) # 0
  BY <1>2, AliveFinite, FS_EmptySet
<1>. QED BY <1>2, <1>3, <1>4, AliveFinite

\* A line that is launched adds one.
LEMMA LaunchAlive ==
  ASSUME CountInv, Launch
  PROVE  /\ num_linea \in Lines
         /\ Cardinality(Alive') = Cardinality(Alive) + 1
<1>1. num_linea \in Lines
  BY Constants DEF Launch, CountInv, InputOK, TypeOK, Lines
<1>2. /\ child \in [Lines -> {"none", "running", "zombie", "reaped"}]
      /\ child[num_linea] = "none" /\ child' = [child EXCEPT ![num_linea] = "running"]
  BY <1>1, Constants DEF Launch, CountInv, TypeOK, FreshLines, Lines
<1>3. Alive' = Alive \cup {num_linea} /\ num_linea \notin Alive
  BY <1>1, <1>2 DEF Alive
<1>. QED BY <1>1, <1>3, AliveFinite, FS_AddElement

LEMMA NextCount == CountInv /\ [Next]_vars => CountInv'
<1>. SUFFICES ASSUME CountInv, [Next]_vars PROVE CountInv'
  OBVIOUS
<1>. USE Constants DEF CountInv
\* The steps of main() that start no child.
<1>1. ASSUME Blank \/ TooLong \/ Line \/ Reject \/ ForkFails \/ ReadFails \/ EndOfInput \/ Finish
      PROVE  CountInv'
  <2>1. TypeOK'
    BY <1>1 DEF Blank, TooLong, Line, Reject, ForkFails, ReadFails, EndOfInput, Finish, AtEnd,
                TypeOK, InputOK, Lines
  <2>2. InputOK'
    BY <1>1 DEF Blank, TooLong, Line, Reject, ForkFails, ReadFails, EndOfInput, Finish, AtEnd,
                TypeOK, InputOK
  <2>3. child' = child /\ procesos_activos' = procesos_activos /\ num_linea' >= num_linea
    BY <1>1 DEF Blank, TooLong, Line, Reject, ForkFails, ReadFails, EndOfInput, Finish, TypeOK
  <2>4. FreshLines'
    BY <2>1, <2>3 DEF FreshLines, TypeOK, Lines
  <2>5. CountExact'
    BY <2>3 DEF CountExact
  <2>. QED BY <2>1, <2>2, <2>4, <2>5
<1>2. CASE Launch
  <2>1. num_linea \in Lines /\ num_linea <= Len(input)
    BY <1>2, LaunchAlive DEF Launch, InputOK
  <2>2. TypeOK'
    BY <1>2, <2>1 DEF Launch, NoSlot, TypeOK, Lines
  <2>3. InputOK'
    BY <1>2 DEF Launch, InputOK
  <2>4. FreshLines'
    BY <1>2, <2>1 DEF Launch, FreshLines, TypeOK, Lines
  <2>5. procesos_activos' = Cardinality(Alive')
    BY <1>2, LaunchAlive, CountIs DEF Launch
  <2>6. CountExact'
    BY <2>5 DEF CountExact, Alive
  <2>. QED BY <2>2, <2>3, <2>4, <2>6
<1>3. CASE Deliver \/ HandlerEnds
  <2>1. TypeOK' /\ InputOK'
    BY <1>3 DEF Deliver, HandlerEnds, TypeOK, InputOK
  <2>2. FreshLines' /\ CountExact'
    BY <1>3 DEF Deliver, HandlerEnds, FreshLines, CountExact
  <2>. QED BY <2>1, <2>2
<1>4. ASSUME NEW i \in Lines, Reap(i) PROVE CountInv'
  <2>1. procesos_activos' = Cardinality(Alive') /\ procesos_activos >= 1
    BY <1>4, ReapAlive, CountIs DEF Reap, OneFewer
  <2>2. TypeOK'
    BY <1>4, <2>1 DEF Reap, OneFewer, FirstFailure, TypeOK
  <2>3. InputOK'
    BY <1>4 DEF Reap, InputOK
  <2>4. FreshLines'
    BY <1>4 DEF Reap, FreshLines, TypeOK
  <2>5. CountExact'
    BY <2>1 DEF CountExact, Alive
  <2>. QED BY <2>2, <2>3, <2>4, <2>5
<1>5. ASSUME NEW i \in Lines, ChildEnds(i) PROVE CountInv'
  <2>1. TypeOK' /\ InputOK'
    BY <1>5 DEF ChildEnds, TypeOK, InputOK
  <2>2. FreshLines'
    BY <1>5 DEF ChildEnds, FreshLines, TypeOK
  <2>3. Alive' = Alive /\ procesos_activos' = procesos_activos
    BY <1>5 DEF ChildEnds, Alive, TypeOK
  <2>4. CountExact'
    BY <2>3 DEF CountExact, Alive
  <2>. QED BY <2>1, <2>2, <2>4
<1>6. CASE UNCHANGED vars
  BY <1>6 DEF vars, TypeOK, InputOK, FreshLines, CountExact
<1>. QED BY <1>1, <1>2, <1>3, <1>4, <1>5, <1>6 DEF Next, Main, Handler

LEMMA CountCorrect == Spec => []CountInv
<1>. QED BY InitCount, NextCount, PTL DEF Spec

\* The counters, codes and positions keep their ranges: in particular main() and the
\* handler never take the counter of children out of 0..NumProcs.
THEOREM LinesTypeCorrect == Spec => []TypeOK
<1>1. CountInv => TypeOK
  BY DEF CountInv
<1>. QED BY <1>1, CountCorrect, PTL

\* procesos_activos counts the children not yet waited for, with any -p and any
\* order in which they end and their signals coalesce.
THEOREM CounterCorrect == Spec => []CountExact
<1>1. CountInv => CountExact
  BY DEF CountInv
<1>. QED BY <1>1, CountCorrect, PTL

-----------------------------------------------------------------------------
\* No failure is lost

\* A child that failed and was waited for has been noticed.
Noticed == \A i \in Lines : child[i] = "reaped" /\ Failed(i) => error_detectado

\* After a good end nothing is left to happen.
EndedWell ==
  result = "ok" =>
    /\ pc = "done" /\ ~handler /\ ~error_detectado
    /\ \A i \in Lines : child[i] \in {"none", "reaped"}

FailureInv == Noticed /\ EndedWell

LEMMA InitFailure == Init => FailureInv
BY DEF Init, FailureInv, Noticed, EndedWell

LEMMA NextFailure == CountInv /\ FailureInv /\ [Next]_vars => FailureInv'
<1>. SUFFICES ASSUME CountInv, FailureInv, [Next]_vars PROVE FailureInv'
  OBVIOUS
<1>0. TypeOK /\ CountExact
  BY DEF CountInv
<1>. USE DEF FailureInv, Failed
<1>1. ASSUME Blank \/ TooLong \/ Line \/ Reject \/ ForkFails \/ ReadFails \/ EndOfInput
             \/ Deliver \/ HandlerEnds
      PROVE  FailureInv'
  <2>1. Noticed'
    BY <1>1 DEF Blank, TooLong, Line, Reject, ForkFails, ReadFails, EndOfInput, Deliver,
                HandlerEnds, Noticed
  <2>2. EndedWell'
    BY <1>1 DEF Blank, TooLong, Line, Reject, ForkFails, ReadFails, EndOfInput, Deliver,
                HandlerEnds, Suspended, EndedWell
  <2>. QED BY <2>1, <2>2
<1>2. CASE Finish
  <2>1. Alive = {}
    BY <1>0, <1>2, AliveFinite, FS_EmptySet, CountIs DEF Finish
  <2>2. \A i \in Lines : child[i] \in {"none", "reaped"}
    BY <1>0, <2>1 DEF Alive, TypeOK
  <2>3. Noticed'
    BY <1>2 DEF Finish, Noticed
  <2>4. EndedWell'
    BY <1>2, <2>2 DEF Finish, EndedWell
  <2>. QED BY <2>3, <2>4
<1>3. CASE Launch
  <2>1. child' = [child EXCEPT ![num_linea] = "running"] /\ num_linea \in Lines
    BY <1>3, LaunchAlive DEF Launch
  <2>2. Noticed'
    BY <1>0, <1>3, <2>1 DEF Launch, Noticed, TypeOK
  <2>3. EndedWell'
    BY <1>3 DEF Launch, EndedWell
  <2>. QED BY <2>2, <2>3
<1>4. ASSUME NEW i \in Lines, Reap(i) PROVE FailureInv'
  <2>1. Noticed'
    BY <1>0, <1>4 DEF Reap, FirstFailure, Noticed, TypeOK
  <2>2. EndedWell'
    BY <1>4 DEF Reap, EndedWell
  <2>. QED BY <2>1, <2>2
<1>5. ASSUME NEW i \in Lines, ChildEnds(i) PROVE FailureInv'
  <2>1. PICK s \in Statuses : status' = [status EXCEPT ![i] = s]
    BY <1>5 DEF ChildEnds
  <2>2. \A j \in Lines \ {i} : child'[j] = child[j] /\ status'[j] = status[j]
    BY <1>0, <1>5, <2>1 DEF ChildEnds, TypeOK
  <2>3. child'[i] = "zombie" /\ child[i] = "running" /\ error_detectado' = error_detectado
    BY <1>0, <1>5 DEF ChildEnds, TypeOK
  <2>4. Noticed'
    BY <2>2, <2>3 DEF Noticed
  <2>5. EndedWell'
    BY <1>5, <2>3 DEF ChildEnds, EndedWell
  <2>. QED BY <2>4, <2>5
<1>6. CASE UNCHANGED vars
  BY <1>6 DEF vars, Noticed, EndedWell
<1>. QED BY <1>1, <1>2, <1>3, <1>4, <1>5, <1>6 DEF Next, Main, Handler

\* If exec_lines ends well, every child it launched was waited for and ended well.
THEOREM FailuresCorrect == Spec => []NoFailureLost
<1>1. CountInv /\ FailureInv => NoFailureLost
  BY DEF CountInv, TypeOK, FailureInv, Noticed, EndedWell, NoFailureLost
<1>2. Spec => []FailureInv
  BY InitFailure, NextFailure, CountCorrect, PTL DEF Spec
<1>. QED BY <1>1, <1>2, CountCorrect, PTL

-----------------------------------------------------------------------------
\* At most one line after a failure

\* The children of the lines after linea_error.
Late == {i \in Lines : child[i] # "none" /\ i > linea_error}

\* Before a failure there are none, and a line that waits for a place will be
\* the first one.
LateInv == /\ ~error_detectado \/ pc = "slot" => Late = {}
           /\ \E j \in Nat : Late \subseteq {j}

LEMMA InitLate == Init => LateInv
<1>. SUFFICES ASSUME Init PROVE LateInv
  OBVIOUS
<1>1. Late = {}
  BY DEF Init, Late
<1>. QED BY <1>1 DEF LateInv

\* A step that launches nothing, reaches no place and forgets no failure.
LEMMA SameLate ==
  ASSUME LateInv, Late' = Late, pc' = "slot" => Late = {}, error_detectado => error_detectado'
  PROVE  LateInv'
BY DEF LateInv

LEMMA NextLate == CountInv /\ CountInv' /\ LateInv /\ [Next]_vars => LateInv'
<1>. SUFFICES ASSUME CountInv, CountInv', LateInv, [Next]_vars PROVE LateInv'
  OBVIOUS
<1>0. TypeOK /\ FreshLines'
  BY DEF CountInv
<1>1. ASSUME Blank \/ TooLong \/ Reject \/ ForkFails \/ ReadFails \/ EndOfInput \/ Finish
             \/ Deliver \/ HandlerEnds
      PROVE  LateInv'
  <2>1. Late' = Late /\ error_detectado' = error_detectado
    BY <1>1 DEF Blank, TooLong, Reject, ForkFails, ReadFails, EndOfInput, Finish, Deliver,
                HandlerEnds, Late
  <2>2. pc' = "slot" => pc = "slot"
    BY <1>1 DEF Blank, TooLong, Reject, ForkFails, ReadFails, EndOfInput, Finish, Deliver, HandlerEnds
  <2>3. pc' = "slot" => Late = {}
    BY <2>2 DEF LateInv
  <2>. QED BY <2>1, <2>3, SameLate
<1>2. CASE Line
  <2>1. Late' = Late /\ error_detectado' = error_detectado
    BY <1>2 DEF Line, Late
  <2>2. pc' = "slot" => ~error_detectado
    BY <1>2 DEF Line, Stops
  <2>3. pc' = "slot" => Late = {}
    BY <2>2 DEF LateInv
  <2>. QED BY <2>1, <2>3, SameLate
<1>3. CASE Launch
  <2>1. /\ child' = [child EXCEPT ![num_linea] = "running"] /\ num_linea \in Lines
        /\ num_linea' = num_linea + 1 /\ pc' = "read" /\ error_detectado' = error_detectado
    BY <1>3, LaunchAlive DEF Launch
  <2>2. Late = {}
    BY <1>3 DEF Launch, LateInv
  <2>3. CASE error_detectado
    <3>1. linea_error' = linea_error
      BY <1>3, <2>3 DEF Launch
    <3>2. Late' \subseteq Late \cup {num_linea}
      BY <1>0, <2>1, <3>1 DEF Late, TypeOK
    <3>3. num_linea \in Nat
      BY <1>0, Constants DEF TypeOK
    <3>. QED BY <2>1, <2>2, <2>3, <3>2, <3>3 DEF LateInv
  <2>4. CASE ~error_detectado
    <3>1. linea_error' = num_linea
      BY <1>3, <2>4 DEF Launch
    <3>2. \A i \in Lines : i > num_linea => child'[i] = "none"
      BY <1>0, <2>1, Constants DEF FreshLines, TypeOK, Lines
    <3>3. Late' = {}
      BY <3>1, <3>2 DEF Late
    <3>. QED BY <3>3 DEF LateInv
  <2>. QED BY <2>3, <2>4
<1>4. ASSUME NEW i \in Lines, Reap(i) PROVE LateInv'
  <2>1. \A j \in Lines : child'[j] # "none" <=> child[j] # "none"
    BY <1>0, <1>4 DEF Reap, TypeOK
  <2>2. Late' = Late
    BY <1>4, <2>1 DEF Reap, Late
  <2>3. pc' = pc /\ (error_detectado => error_detectado')
    BY <1>4 DEF Reap
  <2>. QED BY <2>2, <2>3, SameLate DEF LateInv
<1>5. ASSUME NEW i \in Lines, ChildEnds(i) PROVE LateInv'
  <2>1. \A j \in Lines : child'[j] # "none" <=> child[j] # "none"
    BY <1>0, <1>5 DEF ChildEnds, TypeOK
  <2>2. Late' = Late
    BY <1>5, <2>1 DEF ChildEnds, Late
  <2>3. pc' = pc /\ error_detectado' = error_detectado
    BY <1>5 DEF ChildEnds
  <2>. QED BY <2>2, <2>3, SameLate DEF LateInv
<1>6. CASE UNCHANGED vars
  BY <1>6 DEF vars, LateInv, Late
<1>. QED BY <1>1, <1>2, <1>3, <1>4, <1>5, <1>6 DEF Next, Main, Handler

\* main() looks for a failure before it waits for a place and not after
\* (exec_lines.c:274-296), so at most one line is launched once there is one, with
\* any -p and however many children fail.
THEOREM OneLineCorrect == Spec => []OneLineAfterError
<1>1. LateInv => OneLineAfterError
  <2>. SUFFICES ASSUME LateInv PROVE Cardinality(Late) <= 1
    BY DEF OneLineAfterError, Late
  <2>1. PICK j \in Nat : Late \subseteq {j}
    BY DEF LateInv
  <2>2. Late = {} \/ Late = {j}
    BY <2>1
  <2>3. CASE Late = {}
    BY <2>3, FS_EmptySet
  <2>4. CASE Late = {j}
    BY <2>4, FS_Singleton
  <2>. QED BY <2>2, <2>3, <2>4
<1>2. Spec => []LateInv
  BY InitLate, NextLate, CountCorrect, PTL DEF Spec
<1>. QED BY <1>1, <1>2, PTL

-----------------------------------------------------------------------------
(* A pipeline among the lines.                                             *)

\* With a pipeline among its lines the launcher implements ExecLines: what the
\* pipeline does between its fork() and its end is no step of main() or its handler.
THEOREM PipelineIsChild == SpecT => Spec
<1>1. InitT => Init
  BY DEF InitT
<1>2. [NextT]_allvars => [Next]_vars
  <2>. SUFFICES ASSUME [NextT]_allvars PROVE Next \/ UNCHANGED vars
    OBVIOUS
  <2>1. ASSUME NEW i \in Lines, Child(i) PROVE ChildEnds(i)
    BY <2>1 DEF Child, PipelineEnds
  <2>2. CASE NextT
    BY <2>1, <2>2 DEF NextT, Next
  <2>3. CASE UNCHANGED allvars
    BY <2>3 DEF allvars
  <2>. QED BY <2>2, <2>3
<1>. QED BY <1>1, <1>2, PTL DEF SpecT, Spec

\* So what was proved of ExecLines holds with a pipeline too.
THEOREM PipelineSafe == SpecT => [](CountExact /\ NoFailureLost /\ OneLineAfterError)
BY PipelineIsChild, CounterCorrect, FailuresCorrect, OneLineCorrect, PTL

-----------------------------------------------------------------------------
(* The order of the output.                                                *)

PipeTypeOK ==
  /\ tpc \in {"pipe", "fork1", "fork2", "close", "wait1", "wait2", "done"}
  /\ state \in [T!Cmds -> {"none", "nofork", "running", "zombie", "reaped"}]
  /\ tpending \in BOOLEAN
  /\ tuberia \in {0} \cup Lines
  /\ tuberia = 0 => tpc = "pipe"

Gone == {"reaped", "nofork"}

\* The launcher is interrupted for a child that ended, so it passes the first wait
\* only when one command has gone, and the second only when the reader has.
WaitsOK ==
  /\ tpending /\ tpc # "done" => \E c \in T!Cmds : state[c] = "zombie"
  /\ tpc \in {"pipe", "fork1"} => state["writer"] = "none"
  /\ tpc \in {"pipe", "fork1", "fork2"} => state["reader"] = "none"
  /\ tpc = "wait2" => state["writer"] \in Gone \/ state["reader"] \in Gone
  /\ tpc = "done" => state["reader"] # "running"

OrderInv == PipeTypeOK /\ WaitsOK /\ OutputInOrder

LEMMA Commands == T!Cmds = {"writer", "reader"}
BY DEF T!Cmds

LEMMA OrderInit == InitT => OrderInv
<1>. SUFFICES ASSUME InitT PROVE OrderInv
  OBVIOUS
<1>1. tuberia \in {0} \cup Lines
  <2>1. input \in Seq(Kinds) /\ Len(input) <= MaxLines
    BY InitCount DEF InitT, CountInv, InputOK
  <2>2. DOMAIN input \subseteq Lines
    BY <2>1, Constants DEF Lines
  <2>. QED BY <2>2 DEF InitT
<1>. QED BY <1>1, Commands DEF InitT, T!Init, OrderInv, PipeTypeOK, WaitsOK, OutputInOrder

\* A step of main(), of the handler or of a child that is no pipeline; or the end of
\* the launcher, which comes after that of the reader.
LEMMA LinesOrder ==
  ASSUME TypeOK, OrderInv, Main \/ Handler \/ (\E i \in Lines : Child(i)), UNCHANGED <<tvars, tuberia>>
  PROVE  OrderInv'
<1>. USE DEF OrderInv
<1>1. PipeTypeOK' /\ WaitsOK'
  BY DEF PipeTypeOK, WaitsOK, tvars
<1>2. ASSUME state["reader"] = "running", child[tuberia] = "running"
      PROVE  child'[tuberia] = "running"
  <2>1. tpc # "done" /\ tuberia \in Lines /\ child \in [Lines -> {"none", "running", "zombie", "reaped"}]
    BY <1>2 DEF WaitsOK, PipeTypeOK, TypeOK
  <2>2. CASE Main
    BY <2>1, <2>2, <1>2 DEF Main, Blank, TooLong, Line, Reject, Launch, ForkFails, ReadFails, EndOfInput, Finish
  <2>3. CASE Handler
    BY <2>1, <2>3, <1>2 DEF Handler, Deliver, Reap, HandlerEnds
  <2>4. ASSUME NEW i \in Lines, Child(i) PROVE child'[tuberia] = "running"
    <3>1. i # tuberia /\ ChildEnds(i)
      BY <2>1, <2>4 DEF Child, PipelineEnds
    <3>. QED BY <2>1, <3>1, <1>2 DEF ChildEnds
  <2>. QED BY <2>2, <2>3, <2>4
<1>3. OutputInOrder'
  BY <1>2 DEF OutputInOrder, tvars
<1>. QED BY <1>1, <1>3

\* A step of the launcher or of a command.
LEMMA PipelineOrder ==
  ASSUME OrderInv, PipelineStep \/ (\E c \in T!Cmds : T!CommandEnds(c)), UNCHANGED <<vars, tuberia>>
  PROVE  OrderInv'
<1>. USE Commands DEF OrderInv, PipeTypeOK, WaitsOK, OutputInOrder, Gone
<1>c. child' = child
  BY DEF vars
<1>1. ASSUME NEW c \in T!Cmds, T!CommandEnds(c) PROVE OrderInv'
  <2>1. /\ state[c] = "running" /\ state' = [state EXCEPT ![c] = "zombie"]
        /\ tpending' = (tpc # "done") /\ tpc' = tpc /\ tuberia' = tuberia
    BY <1>1 DEF T!CommandEnds
  <2>2. state'[c] = "zombie" /\ \A d \in T!Cmds : d # c => state'[d] = state[d]
    BY <2>1
  <2>3. PipeTypeOK'
    <3>1. tpending' \in BOOLEAN
      BY <2>1, Zenon
    <3>. QED BY <2>1, <3>1
  <2>4. WaitsOK'
    <3>1. \E d \in T!Cmds : state'[d] = "zombie"
      BY <2>2
    <3>. QED BY <2>1, <2>2, <3>1
  <2>5. OutputInOrder'
    BY <2>1, <2>2, <1>c
  <2>. QED BY <2>3, <2>4, <2>5
<1>2. CASE PipelineStep
  <2>0. tuberia # 0 /\ child[tuberia] = "running" /\ T!Launcher
    BY <1>2 DEF PipelineStep
  <2>a. /\ T!AfterHandler \in [T!Cmds -> {"none", "nofork", "running", "zombie", "reaped"}]
        /\ \A c \in T!Cmds : T!AfterHandler[c] = IF state[c] = "zombie" THEN "reaped" ELSE state[c]
    BY DEF T!AfterHandler, T!Zombies
  <2>1. CASE T!Pipe
    BY <2>0, <2>1, <1>c DEF T!Pipe
  <2>2. CASE T!Fork1
    BY <2>0, <2>2, <1>c DEF T!Fork1, T!ForkCmd
  <2>3. CASE T!Fork2
    <3>1. /\ tpc = "fork2" /\ tpc' = "close" /\ tpending' = tpending /\ tuberia' = tuberia
          /\ \/ state' = [state EXCEPT !["reader"] = "running"]
             \/ state' = [state EXCEPT !["reader"] = "nofork"]
      BY <2>3 DEF T!Fork2, T!ForkCmd
    <3>2. state["reader"] = "none" /\ state'["writer"] = state["writer"]
      BY <3>1
    <3>3. WaitsOK'
      BY <3>1, <3>2
    <3>4. PipeTypeOK' /\ OutputInOrder'
      BY <2>0, <3>1, <1>c
    <3>. QED BY <3>3, <3>4
  <2>4. CASE T!Close
    BY <2>0, <2>4, <1>c DEF T!Close
  <2>5. CASE T!Handler
    BY <2>0, <2>5, <2>a, <1>c DEF T!Handler
  <2>6. CASE T!WaitReturns
    <3>1. /\ tpc \in {"wait1", "wait2"} /\ tpc' = IF tpc = "wait1" THEN "wait2" ELSE "done"
          /\ tuberia' = tuberia
      BY <2>6 DEF T!WaitReturns, T!Exited
    <3>2. \/ state' = T!AfterHandler /\ tpending' = FALSE
          \/ state' = state /\ tpending' = tpending
      BY <2>6 DEF T!WaitReturns
    <3>3. state' \in [T!Cmds -> {"none", "nofork", "running", "zombie", "reaped"}] /\ tpending' \in BOOLEAN
      BY <3>2, <2>a
    <3>4. PipeTypeOK'
      BY <3>1, <3>3
    <3>5. CASE tpc = "wait1"
      <4>1. T!Target = IF state["writer"] = "nofork" THEN T!Cmds ELSE {"writer"}
        BY <3>5 DEF T!Target, T!Order
      <4>2. state'["writer"] \in Gone \/ state'["reader"] \in Gone
        BY <2>6, <2>a, <4>1 DEF T!WaitReturns, T!Zombies
      <4>3. WaitsOK'
        BY <3>1, <3>2, <3>5, <4>2
      <4>4. OutputInOrder'
        BY <2>0, <3>1, <1>c
      <4>. QED BY <3>4, <4>3, <4>4
    <3>6. CASE tpc = "wait2"
      <4>1. T!Target = IF state["reader"] = "nofork" THEN T!Cmds ELSE {"reader"}
        BY <3>6 DEF T!Target, T!Order
      <4>2. state'["reader"] # "running"
        BY <2>6, <2>a, <4>1 DEF T!WaitReturns, T!Zombies
      <4>3. WaitsOK'
        BY <3>1, <3>6, <4>2
      <4>4. OutputInOrder'
        BY <4>2
      <4>. QED BY <3>4, <4>3, <4>4
    <3>. QED BY <3>1, <3>5, <3>6
  <2>7. CASE T!Interrupted
    BY <2>0, <2>7, <2>a, <1>c DEF T!Interrupted, T!Target, T!Zombies, T!Order, T!Exited
  <2>. QED BY <2>0, <2>1, <2>2, <2>3, <2>4, <2>5, <2>6, <2>7 DEF T!Launcher
<1>. QED BY <1>1, <1>2

\* With one line at a time the output of a pipeline comes before that of the next
\* line: the launcher stays for the reader although its waits are interrupted and
\* its handler takes the commands away (exec_lines.c:62, 211-212).
THEOREM OutputOrdered == SpecT => []OutputInOrder
<1>1. TypeOK /\ OrderInv /\ [NextT]_allvars => OrderInv'
  <2>. SUFFICES ASSUME TypeOK, OrderInv, [NextT]_allvars PROVE OrderInv'
    OBVIOUS
  <2>1. CASE NextT
    BY <2>1, LinesOrder, PipelineOrder DEF NextT
  <2>2. CASE UNCHANGED allvars
    BY <2>2 DEF allvars, tvars, vars, OrderInv, PipeTypeOK, WaitsOK, OutputInOrder
  <2>. QED BY <2>1, <2>2
<1>2. OrderInv => OutputInOrder
  BY DEF OrderInv
<1>. QED BY <1>1, <1>2, OrderInit, PipelineIsChild, LinesTypeCorrect, PTL DEF SpecT

-----------------------------------------------------------------------------
(* The web server.                                                         *)

\* What WholeAnswers says of one connection.
Whole(c) ==
  /\ \A i \in 1..(Len(c.out) - 1) : c.out[i].got = c.out[i].want /\ c.out[i].status \notin Closing
  /\ \A i \in DOMAIN c.out : c.out[i].got <= c.out[i].want
  /\ c.out # <<>> /\ c.out[Len(c.out)].status \in Closing => c.pc \in {"sending", "closed"}
  /\ c.pc = "select" => c.out # <<>> /\ c.out[Len(c.out)].got = c.out[Len(c.out)].want
  /\ c.pc = "sending" => c.out # <<>> /\ c.out[Len(c.out)].got < c.out[Len(c.out)].want

\* Nothing is answered before a child reads.
Unanswered(c) == c.pc \in {"none", "queued", "first"} => c.out = <<>>

\* A connection is at most once in the backlog, and nobody serves it yet.
BacklogExact == /\ \A i \in DOMAIN backlog : conn[backlog[i]].pc = "queued"
                /\ \A i, j \in DOMAIN backlog : backlog[i] = backlog[j] => i = j

Conn == [pc: {"none", "queued", "first", "sending", "select", "closed"},
         inb: Seq(Segment), fin: BOOLEAN, out: Seq(Answer),
         unread: 0..Room, left: Nat]

ConnOK(c) == c \in Conn /\ Whole(c) /\ Unanswered(c)

IInv == WebTypeOK /\ BacklogExact /\ \A k \in Conns : Whole(conn[k]) /\ Unanswered(conn[k])

LEMMA WebConstants == /\ MAX_ACCESOS \in Nat /\ Blocks \in Nat /\ MaxSegs \in [Conns -> Nat]
                   /\ Browsers \subseteq Conns /\ Segments \subseteq Segment
                   /\ Room \in Nat /\ Room > 0
BY WebAssumption

\* A set of positions that is not empty has a first one.
LEMMA FirstExists ==
  ASSUME NEW S \in SUBSET Nat, S # {}
  PROVE  \E i \in S : \A j \in S : i <= j
<1>1. PICK i \in S : \A j \in S : ~(<<j, i>> \in OpToRel(<, Nat))
  BY NatLessThanWellFounded, WFMin
<1>2. \A j \in S : ~(j < i)
  BY <1>1 DEF OpToRel
<1>. QED BY <1>2

LEMMA CounterType ==
  ASSUME NEW D \in SUBSET Nat, NEW cookies \in [D -> CookieVals]
  PROVE  Counter(cookies) \in Nat
<1>. DEFINE found == {i \in DOMAIN cookies : cookies[i] # NoCookie}
            first == CHOOSE i \in found : \A j \in found : i <= j
            val == cookies[first]
<1>1. Counter(cookies) = IF found = {} \/ val = BadCookie THEN 1
                         ELSE IF val >= MAX_ACCESOS THEN MAX_ACCESOS ELSE val + 1
  BY DEF Counter
<1>2. found # {} => first \in found
  <2>1. found \in SUBSET Nat
    OBVIOUS
  <2>. QED BY <2>1, FirstExists
<1>3. found # {} /\ val # BadCookie => val \in Nat
  BY <1>2 DEF CookieVals, NoCookie, BadCookie
<1>. HIDE DEF found, val
<1>. QED BY <1>1, <1>3, WebConstants

\* An answer that has just been made has its type, and none of its body sent.
LEMMA AnswerShape ==
  ASSUME NEW segs \in Seq(Segment), segs # <<>>, ~Undecodable(segs)
  PROVE  AnswerTo(segs) \in Answer /\ AnswerTo(segs).got = 0 /\ AnswerTo(segs).want > 0
<1>. DEFINE cookies == [i \in DOMAIN segs |-> segs[i].cookie]
            kind == segs[1].kind
<1>1. kind \in WebKinds \ {"raw"}
  <2>1. 1 \in DOMAIN segs /\ segs[1] \in Segment
    OBVIOUS
  <2>. QED BY <2>1 DEF Undecodable, Segment
<1>2. Counter(cookies) \in Nat
  <2>1. DOMAIN segs \in SUBSET Nat
    BY LenProperties
  <2>2. \A i \in DOMAIN segs : segs[i].cookie \in CookieVals
    <3>1. \A i \in DOMAIN segs : segs[i] \in Segment
      BY LenProperties
    <3>. QED BY <3>1 DEF Segment
  <2>3. cookies \in [DOMAIN segs -> CookieVals]
    BY <2>2
  <2>. QED BY <2>1, <2>3, CounterType
<1>3. CASE kind # "index"
  <2>1. Status[kind] \in {400, 404, 405, 200}
    BY <1>1, <1>3 DEF Status, WebKinds
  <2>2. AnswerTo(segs) = Reply(Status[kind], 0, IF kind = "file" THEN Blocks ELSE 0)
    BY <1>3 DEF AnswerTo
  <2>. QED BY <2>1, <2>2, WebConstants DEF Reply, Answer
<1>4. CASE kind = "index" /\ Counter(cookies) >= MAX_ACCESOS
  <2>1. AnswerTo(segs) = Reply(403, 0, 0)
    BY <1>4 DEF AnswerTo
  <2>. QED BY <2>1 DEF Reply, Answer
<1>5. CASE kind = "index" /\ ~(Counter(cookies) >= MAX_ACCESOS)
  <2>1. AnswerTo(segs) = Reply(200, Counter(cookies), Blocks)
    BY <1>5 DEF AnswerTo
  <2>. HIDE DEF cookies
  <2>. QED BY <1>2, <2>1, WebConstants DEF Reply, Answer
<1>. QED BY <1>3, <1>4, <1>5

-----------------------------------------------------------------------------

LEMMA ConnType == WebTypeOK => conn \in [Conns -> Conn]
BY DEF WebTypeOK, Conn

\* An action that only changes connection k keeps what holds of the others.
LEMMA OneConn ==
  ASSUME IInv, NEW k \in Conns, NEW c \in Conn, conn' = [conn EXCEPT ![k] = c],
         Whole(c), Unanswered(c), UNCHANGED <<up, backlog>>,
         c.pc # conn[k].pc => conn[k].pc # "queued",
         jar' \in [{Sent, Read} -> Nat], granted' \in Nat
  PROVE  IInv'
<1>1. conn \in [Conns -> Conn] /\ conn' \in [Conns -> Conn]
  BY ConnType DEF IInv
<1>2. WebTypeOK'
  BY <1>1 DEF IInv, WebTypeOK, Conn
<1>3. BacklogExact'
  BY <1>1 DEF IInv, BacklogExact, WebTypeOK
<1>4. ASSUME NEW j \in Conns PROVE Whole(conn'[j]) /\ Unanswered(conn'[j])
  <2>1. conn'[j] = IF j = k THEN c ELSE conn[j]
    BY <1>1
  <2>2. CASE j = k
    BY <2>1, <2>2, Zenon
  <2>3. CASE j # k
    <3>1. conn'[j] = conn[j]
      BY <2>1, <2>3
    <3>2. Whole(conn[j]) /\ Unanswered(conn[j])
      BY DEF IInv
    <3>. QED BY <3>1, <3>2, Zenon
  <2>. QED BY <2>2, <2>3
<1>. QED BY <1>2, <1>3, <1>4 DEF IInv

\* It does not matter to the answers what a client does, or that a child ends.
LEMMA SameAnswers ==
  ASSUME NEW b \in Conn, NEW c \in Conn, Whole(b), Unanswered(b), c.out = b.out,
         c.pc = b.pc \/ c.pc = "closed" \/ (b.pc = "none" /\ c.pc = "queued") \/ (b.pc = "queued" /\ c.pc = "first")
  PROVE  Whole(c) /\ Unanswered(c)
BY DEF Whole, Unanswered, Conn

LEMMA InitInv == WebInit => IInv
<1>. SUFFICES ASSUME WebInit PROVE IInv
  OBVIOUS
<1>1. WebTypeOK
  BY WebConstants DEF WebInit, WebTypeOK, NewConn, NoCookie
<1>2. BacklogExact
  BY DEF WebInit, BacklogExact
<1>3. ASSUME NEW k \in Conns PROVE Whole(conn[k]) /\ Unanswered(conn[k])
  BY DEF WebInit, NewConn, Whole, Unanswered
<1>. QED BY <1>1, <1>2, <1>3 DEF IInv

LEMMA ConnectInv == ASSUME IInv, NEW k \in Conns, Connect(k) PROVE IInv'
<1>. DEFINE c == [conn[k] EXCEPT !.pc = "queued"]
<1>1. conn \in [Conns -> Conn] /\ conn' \in [Conns -> Conn] /\ c \in Conn /\ conn' = [conn EXCEPT ![k] = c]
  BY ConnType DEF IInv, Connect, Conn
<1>2. Whole(c) /\ Unanswered(c)
  BY <1>1, SameAnswers DEF IInv, Connect, Conn
<1>3. backlog' \in Seq(Conns) /\ WebTypeOK'
  BY <1>1 DEF IInv, WebTypeOK, Connect, Conn
<1>4. BacklogExact'
  <2>1. backlog \in Seq(Conns) /\ backlog' = Append(backlog, k)
    BY DEF IInv, WebTypeOK, Connect
  <2>2. \A i \in DOMAIN backlog : backlog[i] \in Conns /\ backlog[i] # k
    BY <2>1 DEF IInv, BacklogExact, Connect
  <2>3. \A i \in DOMAIN backlog' : IF i \in DOMAIN backlog THEN backlog'[i] = backlog[i]
                                  ELSE i = Len(backlog) + 1 /\ backlog'[i] = k
    BY <2>1
  <2>4. \A j \in Conns : j # k => conn'[j] = conn[j]
    BY <1>1
  <2>5. conn'[k].pc = "queued"
    BY <1>1 DEF Conn
  <2>6. \A i \in DOMAIN backlog' : conn'[backlog'[i]].pc = "queued"
    BY <2>2, <2>3, <2>4, <2>5 DEF IInv, BacklogExact
  <2>7. \A i, j \in DOMAIN backlog' : backlog'[i] = backlog'[j] => i = j
    BY <2>2, <2>3 DEF IInv, BacklogExact
  <2>. QED BY <2>6, <2>7 DEF BacklogExact
<1>5. ASSUME NEW j \in Conns PROVE Whole(conn'[j]) /\ Unanswered(conn'[j])
  <2>1. conn'[j] = IF j = k THEN c ELSE conn[j]
    BY <1>1
  <2>2. Whole(conn[j]) /\ Unanswered(conn[j])
    BY DEF IInv
  <2>. HIDE DEF c
  <2>. QED BY <2>1, <2>2, <1>2, Zenon
<1>. QED BY <1>3, <1>4, <1>5 DEF IInv

LEMMA AcceptInv == ASSUME IInv, Accept PROVE IInv'
<1>. DEFINE k == Head(backlog)
            c == [conn[k] EXCEPT !.pc = "first"]
<1>1. backlog \in Seq(Conns) /\ backlog # <<>> /\ backlog' = Tail(backlog) /\ k = backlog[1] /\ k \in Conns
  BY DEF IInv, WebTypeOK, Accept
<1>2. conn \in [Conns -> Conn] /\ c \in Conn /\ conn' = [conn EXCEPT ![k] = c] /\ conn[k].pc = "queued"
  <2>1. conn \in [Conns -> Conn]
    BY ConnType DEF IInv
  <2>2. conn[k].pc = "queued"
    BY <1>1 DEF IInv, BacklogExact
  <2>. QED BY <1>1, <2>1, <2>2 DEF Accept, Fork, Conn
<1>3. Whole(c) /\ Unanswered(c)
  <2>1. conn[k] \in Conn /\ c.out = conn[k].out /\ c.pc = "first" /\ Whole(conn[k]) /\ Unanswered(conn[k])
    BY <1>1, <1>2 DEF Conn, IInv
  <2>. QED BY <1>2, <2>1, SameAnswers
<1>. HIDE DEF c, k
<1>4. backlog' \in Seq(Conns) /\ conn' \in [Conns -> Conn]
  BY <1>1, <1>2, HeadTailProperties
<1>5. WebTypeOK'
  BY <1>4 DEF IInv, WebTypeOK, Accept, Fork, Conn
<1>6. \A i \in DOMAIN backlog' : i \in Nat /\ i + 1 \in DOMAIN backlog /\ backlog'[i] = backlog[i + 1] /\ backlog'[i] # k
  BY <1>1 DEF IInv, BacklogExact
<1>7. BacklogExact'
  <2>1. \A j \in Conns : j # k => conn'[j] = conn[j]
    BY <1>2
  <2>2. \A i \in DOMAIN backlog' : conn'[backlog'[i]].pc = "queued"
    BY <1>1, <1>4, <1>6, <2>1 DEF IInv, BacklogExact
  <2>3. \A i, j \in DOMAIN backlog' : backlog'[i] = backlog'[j] => i = j
    BY <1>6 DEF IInv, BacklogExact
  <2>. QED BY <2>2, <2>3 DEF BacklogExact
<1>8. ASSUME NEW j \in Conns PROVE Whole(conn'[j]) /\ Unanswered(conn'[j])
  <2>1. conn'[j] = IF j = k THEN c ELSE conn[j]
    BY <1>2
  <2>2. Whole(conn[j]) /\ Unanswered(conn[j])
    BY DEF IInv
  <2>. QED BY <2>1, <2>2, <1>3, Zenon
<1>. QED BY <1>5, <1>7, <1>8 DEF IInv

\* Clients that send or close.
LEMMA ClientInv == ASSUME IInv, NEW k \in Conns, Browse(k) \/ (\E m \in Segments : Send(k, m)) \/ ReadAll(k) \/ Close(k)
                   PROVE  IInv'
<1>1. conn \in [Conns -> Conn] /\ Whole(conn[k]) /\ Unanswered(conn[k]) /\ jar[Read] \in Nat
  BY ConnType DEF IInv, WebTypeOK
<1>2. CASE Browse(k)
  <2>. DEFINE m == [kind |-> "index", cookie |-> jar[Read]]
              c == [conn[k] EXCEPT !.left = @ - 1, !.inb = Append(@, m)]
  <2>1. m \in Segment
    BY <1>1 DEF Segment, WebKinds, CookieVals, NoCookie, BadCookie
  <2>2. c \in Conn /\ c.out = conn[k].out /\ c.pc = conn[k].pc
    <3>1. conn[k] \in Conn /\ conn[k].inb \in Seq(Segment) /\ conn[k].left \in Nat /\ conn[k].left > 0
      BY <1>1, <1>2 DEF Browse, Conn
    <3>2. Append(conn[k].inb, m) \in Seq(Segment) /\ conn[k].left - 1 \in Nat
      BY <2>1, <3>1
    <3>. HIDE DEF m
    <3>. QED BY <3>1, <3>2 DEF Conn
  <2>3. conn' = [conn EXCEPT ![k] = c] /\ UNCHANGED <<up, backlog, jar, granted>>
    BY <1>1, <1>2 DEF Browse, Conn
  <2>4. jar' \in [{Sent, Read} -> Nat] /\ granted' \in Nat
    BY <2>3 DEF IInv, WebTypeOK
  <2>. HIDE DEF c
  <2>5. Whole(c) /\ Unanswered(c)
    BY <1>1, <2>2, SameAnswers
  <2>. QED BY <2>2, <2>3, <2>4, <2>5, OneConn
<1>3. ASSUME NEW m \in Segments, Send(k, m) PROVE IInv'
  <2>. DEFINE c == [conn[k] EXCEPT !.left = @ - 1, !.inb = Append(@, m)]
  <2>1. m \in Segment
    BY WebConstants
  <2>2. c \in Conn /\ c.out = conn[k].out /\ c.pc = conn[k].pc
    <3>1. conn[k] \in Conn /\ conn[k].inb \in Seq(Segment) /\ conn[k].left \in Nat /\ conn[k].left > 0
      BY <1>1, <1>3 DEF Send, Conn
    <3>2. Append(conn[k].inb, m) \in Seq(Segment) /\ conn[k].left - 1 \in Nat
      BY <2>1, <3>1
    <3>. QED BY <3>1, <3>2 DEF Conn
  <2>3. conn' = [conn EXCEPT ![k] = c] /\ UNCHANGED <<up, backlog, jar, granted>>
    BY <1>1, <1>3 DEF Send, Conn
  <2>4. jar' \in [{Sent, Read} -> Nat] /\ granted' \in Nat
    BY <2>3 DEF IInv, WebTypeOK
  <2>. HIDE DEF c
  <2>5. Whole(c) /\ Unanswered(c)
    BY <1>1, <2>2, SameAnswers
  <2>. QED BY <2>2, <2>3, <2>4, <2>5, OneConn
<1>4. CASE Close(k)
  <2>. DEFINE c == [conn[k] EXCEPT !.fin = TRUE]
  <2>2. c \in Conn /\ c.out = conn[k].out /\ c.pc = conn[k].pc
    BY <1>1 DEF Conn
  <2>3. conn' = [conn EXCEPT ![k] = c] /\ UNCHANGED <<up, backlog, jar, granted>>
    BY <1>1, <1>4 DEF Close, Conn
  <2>4. jar' \in [{Sent, Read} -> Nat] /\ granted' \in Nat
    BY <2>3 DEF IInv, WebTypeOK
  <2>. HIDE DEF c
  <2>5. Whole(c) /\ Unanswered(c)
    BY <1>1, <2>2, SameAnswers
  <2>. QED BY <2>2, <2>3, <2>4, <2>5, OneConn
<1>5. CASE ReadAll(k)
  <2>. DEFINE c == [conn[k] EXCEPT !.unread = 0]
  <2>2. c \in Conn /\ c.out = conn[k].out /\ c.pc = conn[k].pc
    <3>1. conn[k] \in Conn /\ 0 \in 0..Room
      BY <1>1, WebConstants
    <3>. QED BY <3>1 DEF Conn
  <2>3. conn' = [conn EXCEPT ![k] = c] /\ UNCHANGED <<up, backlog, jar, granted>>
    BY <1>1, <1>5 DEF ReadAll, Conn
  <2>4. jar' \in [{Sent, Read} -> Nat] /\ granted' \in Nat
    BY <2>3 DEF IInv, WebTypeOK
  <2>. HIDE DEF c
  <2>5. Whole(c) /\ Unanswered(c)
    BY <1>1, <2>2, SameAnswers
  <2>. QED BY <2>2, <2>3, <2>4, <2>5, OneConn
<1>. QED BY <1>2, <1>3, <1>4, <1>5

\* The parent ends, by Control-C or by a fork() that fails.
LEMMA InterruptInv == ASSUME IInv, Interrupt \/ AcceptFails PROVE IInv'
<1>1. conn \in [Conns -> Conn] /\ backlog' = <<>>
  BY ConnType DEF IInv, Interrupt, AcceptFails
<1>2. ASSUME NEW k \in Conns
      PROVE  conn'[k] \in Conn /\ conn'[k].out = conn[k].out /\ (conn'[k].pc = conn[k].pc \/ conn'[k].pc = "closed")
  BY <1>1 DEF Interrupt, AcceptFails, Conn
<1>3. conn' \in [Conns -> Conn]
  BY <1>2 DEF Interrupt, AcceptFails
<1>4. WebTypeOK'
  <2>1. up' = FALSE /\ jar' = jar /\ granted' = granted
    BY DEF Interrupt, AcceptFails
  <2>2. backlog' \in Seq(Conns)
    BY <1>1, EmptySeq
  <2>. QED BY <1>3, <2>1, <2>2 DEF IInv, WebTypeOK, Conn
<1>5. BacklogExact'
  BY <1>1 DEF BacklogExact
<1>6. ASSUME NEW k \in Conns PROVE Whole(conn'[k]) /\ Unanswered(conn'[k])
  <2>1. conn[k] \in Conn /\ Whole(conn[k]) /\ Unanswered(conn[k])
    BY <1>1 DEF IInv
  <2>. QED BY <1>2, <2>1, SameAnswers
<1>. QED BY <1>4, <1>5, <1>6 DEF IInv

\* A child that ends leaves its last answer as it is.
LEMMA ClosedInv ==
  ASSUME IInv, NEW k \in Conns, RecvEmpty(k) \/ Broken(k) \/ Timeout(k) \/ (\E n \in 1..MaxSegs[k] : RecvRaw(k, n))
  PROVE  IInv'
<1>1. conn \in [Conns -> Conn] /\ Whole(conn[k]) /\ Unanswered(conn[k])
  BY ConnType DEF IInv
<1>2. PICK c : /\ c \in Conn /\ c.out = conn[k].out /\ c.pc = "closed"
               /\ conn' = [conn EXCEPT ![k] = c] /\ UNCHANGED <<up, backlog, jar, granted>> /\ conn[k].pc # "queued"
  <2>1. CASE RecvEmpty(k) \/ Broken(k) \/ Timeout(k)
    <3>. DEFINE c == [conn[k] EXCEPT !.pc = "closed"]
    <3>1. c \in Conn /\ c.out = conn[k].out /\ c.pc = "closed"
      BY <1>1 DEF Conn
    <3>2. conn' = [conn EXCEPT ![k] = c] /\ UNCHANGED <<up, backlog, jar, granted>> /\ conn[k].pc # "queued"
      BY <1>1, <2>1 DEF RecvEmpty, Broken, Timeout, Waiting, Conn
    <3>. HIDE DEF c
    <3>. QED BY <3>1, <3>2
  <2>2. ASSUME NEW n \in 1..MaxSegs[k], RecvRaw(k, n)
        PROVE  \E c : /\ c \in Conn /\ c.out = conn[k].out /\ c.pc = "closed"
                      /\ conn' = [conn EXCEPT ![k] = c] /\ UNCHANGED <<up, backlog, jar, granted>> /\ conn[k].pc # "queued"
    <3>. DEFINE c == [conn[k] EXCEPT !.inb = SubSeq(@, n + 1, Len(@)), !.pc = "closed"]
    <3>1. conn[k] \in Conn /\ conn[k].inb \in Seq(Segment) /\ n \in 1..Len(conn[k].inb)
      BY <1>1, <2>2 DEF Conn, RecvRaw
    <3>2. SubSeq(conn[k].inb, n + 1, Len(conn[k].inb)) \in Seq(Segment)
      BY <3>1, SubSeqProperties, LenProperties
    <3>3. c \in Conn /\ c.out = conn[k].out /\ c.pc = "closed"
      BY <3>1, <3>2 DEF Conn
    <3>4. conn' = [conn EXCEPT ![k] = c] /\ UNCHANGED <<up, backlog, jar, granted>> /\ conn[k].pc # "queued"
      BY <1>1, <2>2 DEF RecvRaw, Waiting, Conn
    <3>. HIDE DEF c
    <3>. QED BY <3>3, <3>4
  <2>. QED BY <2>1, <2>2
<1>3. jar' \in [{Sent, Read} -> Nat] /\ granted' \in Nat
  BY <1>2 DEF IInv, WebTypeOK
<1>4. Whole(c) /\ Unanswered(c)
  <2>1. conn[k] \in Conn
    BY <1>1
  <2>. QED BY <1>1, <1>2, <2>1, SameAnswers
<1>. QED BY <1>2, <1>3, <1>4, OneConn

LEMMA LastOrBefore == \A n \in Nat : \A i \in 1..n : i = n \/ i \in 1..(n - 1)
OBVIOUS

\* A child answers: it had nothing left to send.
LEMMA RecvInv == ASSUME IInv, NEW k \in Conns, NEW n \in 1..MaxSegs[k], Recv(k, n) PROVE IInv'
<1>. DEFINE segs == SubSeq(conn[k].inb, 1, n)
            a == AnswerTo(segs)
            rest == SubSeq(conn[k].inb, n + 1, Len(conn[k].inb))
            out == Append(conn[k].out, a)
            c == [conn[k] EXCEPT !.inb = rest, !.out = out, !.pc = "sending"]
<1>1. /\ conn \in [Conns -> Conn] /\ conn[k] \in Conn /\ conn[k].inb \in Seq(Segment) /\ conn[k].out \in Seq(Answer)
      /\ Whole(conn[k]) /\ Unanswered(conn[k]) /\ n \in 1..Len(conn[k].inb) /\ conn[k].pc \in {"first", "select"}
      /\ jar \in [{Sent, Read} -> Nat] /\ granted \in Nat
  BY ConnType DEF IInv, WebTypeOK, Recv, Waiting, Conn
<1>2. rest \in Seq(Segment) /\ segs \in Seq(Segment) /\ Len(segs) = n
  BY <1>1, SubSeqProperties, LenProperties
<1>3. a \in Answer /\ a.got = 0 /\ a.got < a.want
  <2>1. segs # <<>> /\ ~Undecodable(segs)
    BY <1>2, EmptySeq DEF Recv
  <2>. QED BY <1>2, <2>1, AnswerShape
<1>5. conn' = [conn EXCEPT ![k] = c] /\ UNCHANGED <<up, backlog>>
  BY <1>1 DEF Recv, Conn
<1>6. jar' \in [{Sent, Read} -> Nat] /\ granted' \in Nat
  BY <1>1 DEF Recv
<1>. HIDE DEF segs, a, rest
<1>7. out \in Seq(Answer) /\ Len(out) = Len(conn[k].out) + 1 /\ out[Len(out)] = a
      /\ \A i \in 1..Len(conn[k].out) : out[i] = conn[k].out[i]
  BY <1>1, <1>3
<1>8. \A i \in 1..Len(conn[k].out) : conn[k].out[i].got = conn[k].out[i].want /\ conn[k].out[i].status \notin Closing
  <2>1. CASE conn[k].pc = "first"
    BY <1>1, <2>1 DEF Unanswered
  <2>2. CASE conn[k].pc = "select"
    BY <1>1, <2>2 DEF Whole
  <2>. QED BY <1>1, <2>1, <2>2
<1>. HIDE DEF out
<1>9. c \in Conn /\ c.out = out /\ c.pc = "sending"
  BY <1>1, <1>2, <1>7 DEF Conn
<1>. HIDE DEF c
<1>10. Unanswered(c)
  BY <1>9 DEF Unanswered
<1>11. Whole(c)
  <2>1. \A i \in 1..(Len(out) - 1) : out[i].got = out[i].want /\ out[i].status \notin Closing
    BY <1>1, <1>7, <1>8
  <2>2. \A i \in DOMAIN out : out[i].got <= out[i].want
    <3>1. \A i \in 1..Len(out) : out[i] \in Answer
      BY <1>7
    <3>2. a.got <= a.want
      BY <1>3 DEF Answer
    <3>3. Len(out) \in Nat /\ DOMAIN out = 1..Len(out)
      BY <1>7
    <3>4. ASSUME NEW i \in 1..(Len(out) - 1) PROVE out[i].got <= out[i].want
      <4>1. out[i] \in Answer
        BY <3>1, <3>3
      <4>2. out[i].got \in Nat
        BY <4>1 DEF Answer
      <4>. QED BY <2>1, <4>2
    <3>5. out[Len(out)].got <= out[Len(out)].want
      BY <1>7, <3>2
    <3>6. \A i \in 1..Len(out) : i = Len(out) \/ i \in 1..(Len(out) - 1)
      BY <3>3, LastOrBefore
    <3>. QED BY <3>3, <3>4, <3>5, <3>6
  <2>3. out # <<>>
    BY <1>1, <1>7
  <2>. QED BY <1>3, <1>7, <1>9, <2>1, <2>2, <2>3 DEF Whole
<1>12. c.pc # conn[k].pc => conn[k].pc # "queued"
  BY <1>1
<1>. QED BY <1>5, <1>6, <1>9, <1>10, <1>11, <1>12, OneConn

\* A child sends one more part of its last answer.
LEMMA SendChunkInv == ASSUME IInv, NEW k \in Conns, SendChunk(k) PROVE IInv'
<1>. DEFINE old == conn[k].out
            i == Len(old)
            a == [old[i] EXCEPT !.got = @ + 1]
            out == [old EXCEPT ![i] = a]
            u == IF k \in Browsers THEN 0 ELSE conn[k].unread + 1
            c == [conn[k] EXCEPT !.out = out, !.pc = After(a), !.unread = u]
<1>1. /\ conn \in [Conns -> Conn] /\ conn[k] \in Conn /\ old \in Seq(Answer)
      /\ Whole(conn[k]) /\ conn[k].pc = "sending" /\ conn[k].unread < Room /\ jar \in [{Sent, Read} -> Nat] /\ granted \in Nat
  BY ConnType DEF IInv, WebTypeOK, SendChunk, Conn
<1>2. i \in 1..Len(old) /\ old[i] \in Answer /\ old[i].got < old[i].want
  <2>1. old # <<>> /\ old[i].got < old[i].want
    BY <1>1 DEF Whole
  <2>. QED BY <1>1, <2>1
<1>3. a \in Answer /\ a.got <= a.want
  BY <1>2 DEF Answer
<1>4. /\ After(a) \in {"sending", "select", "closed"}
      /\ a.status \in Closing => After(a) # "select"
      /\ After(a) = "sending" => a.got < a.want
      /\ After(a) = "select" => a.got = a.want
  BY <1>3 DEF After, Answer
<1>5. conn' = [conn EXCEPT ![k] = c] /\ UNCHANGED <<up, backlog>>
  BY <1>1 DEF SendChunk, Conn
<1>11. jar' \in [{Sent, Read} -> Nat] /\ granted' \in Nat
  <2>1. \/ jar' = [jar EXCEPT ![Sent] = a.cookie] /\ granted' = granted + 1
        \/ jar' = jar /\ granted' = granted
    BY DEF SendChunk
  <2>2. a.cookie \in Nat
    BY <1>3 DEF Answer
  <2>. HIDE DEF a
  <2>. QED BY <1>1, <2>1, <2>2
<1>12. u \in 0..Room
  <2>1. conn[k].unread \in 0..Room /\ Room \in Nat
    BY <1>1, WebConstants DEF Conn
  <2>. QED BY <1>1, <2>1
<1>. HIDE DEF u
<1>. HIDE DEF a
<1>6. out \in Seq(Answer) /\ Len(out) = i /\ out[i] = a /\ DOMAIN out = 1..i /\ i \in Nat /\ i > 0
      /\ \A j \in 1..(i - 1) : out[j] = old[j]
  BY <1>1, <1>2, <1>3
<1>. HIDE DEF out
<1>7. c \in Conn /\ c.out = out /\ c.pc = After(a)
  BY <1>1, <1>4, <1>6, <1>12 DEF Conn
<1>. HIDE DEF c
<1>8. Unanswered(c)
  BY <1>4, <1>7 DEF Unanswered
<1>9. Whole(c)
  <2>1. \A j \in 1..(i - 1) : old[j].got = old[j].want /\ old[j].status \notin Closing
    BY <1>1 DEF Whole
  <2>. HIDE DEF i, old
  <2>2. \A j \in 1..(i - 1) : out[j].got = out[j].want /\ out[j].status \notin Closing
    BY <1>6, <2>1
  <2>3. ASSUME NEW j \in 1..i PROVE out[j].got <= out[j].want
    <3>1. out[j] \in Answer /\ (j = i \/ j \in 1..(i - 1))
      BY <1>6
    <3>2. out[j].got \in Nat
      BY <3>1 DEF Answer
    <3>. QED BY <1>3, <1>6, <2>2, <3>1, <3>2
  <2>4. out # <<>>
    BY <1>6
  <2>. QED BY <1>3, <1>4, <1>6, <1>7, <2>2, <2>3, <2>4 DEF Whole
<1>. QED BY <1>1, <1>5, <1>7, <1>8, <1>9, <1>11, OneConn

LEMMA StepInv == IInv /\ [WebNext]_webVars => IInv'
<1>. SUFFICES ASSUME IInv, [WebNext]_webVars PROVE IInv'
  OBVIOUS
<1>1. CASE Accept
  BY <1>1, AcceptInv
<1>2. CASE Interrupt \/ AcceptFails
  BY <1>2, InterruptInv
<1>3. ASSUME NEW k \in Conns, Connect(k) PROVE IInv'
  BY <1>3, ConnectInv
<1>4. ASSUME NEW k \in Conns, Browse(k) \/ ReadAll(k) \/ Close(k) \/ \E m \in Segments : Send(k, m) PROVE IInv'
  BY <1>4, ClientInv
<1>5. ASSUME NEW k \in Conns, ChildOf(k) PROVE IInv'
  <2>1. CASE SendChunk(k)
    BY <2>1, SendChunkInv
  <2>2. CASE Broken(k) \/ Timeout(k) \/ RecvEmpty(k)
    BY <2>2, ClosedInv
  <2>3. ASSUME NEW n \in 1..MaxSegs[k], Recv(k, n) PROVE IInv'
    BY <2>3, RecvInv
  <2>4. ASSUME NEW n \in 1..MaxSegs[k], RecvRaw(k, n) PROVE IInv'
    BY <2>4, ClosedInv
  <2>. QED BY <1>5, <2>1, <2>2, <2>3, <2>4 DEF ChildOf, Receives
<1>6. CASE UNCHANGED webVars
  BY <1>6 DEF webVars, IInv, WebTypeOK, BacklogExact
<1>. QED BY <1>1, <1>2, <1>3, <1>4, <1>5, <1>6 DEF WebNext

\* Whatever the parent, the children and their clients do, and in whatever
\* order, what is proved of one connection holds of all of them (main() and
\* process_web_request()).
THEOREM InvariantHolds == WebSpec => []IInv
BY InitInv, StepInv, PTL DEF WebSpec

\* The connections, the backlog and the cookies keep their types, for any
\* connections, limits, files and segments (WebServer).
THEOREM WebTypeCorrect == WebSpec => []WebTypeOK
<1>1. IInv => WebTypeOK
  BY DEF IInv
<1>. QED BY InvariantHolds, <1>1, PTL

\* Answers are whole however requests are cut, mixed or malformed and whenever
\* clients and the server stop: process_web_request() finishes an answer before
\* it waits for the next request, and closes after those that say so.
THEOREM AnswersWhole == WebSpec => []WholeAnswers
<1>1. IInv => WholeAnswers
  BY DEF IInv, Whole, WholeAnswers
<1>. QED BY InvariantHolds, <1>1, PTL

==============================================================================
