------------------------------- MODULE Search -------------------------------
(***************************************************************************)
(* The searches of the notebooks uninf_search_1_problem and                *)
(* inf_search_2_problem, with the queues of ai_lab_functions.py.           *)
(*                                                                         *)
(*   bfs_ts, bfs_gs        breadth-first, tree and graph versions          *)
(*   ucs                   uniform cost                                    *)
(*   greedy_ts, greedy_gs  greedy best-first                               *)
(*   astar_ts, astar_gs    A*                                              *)
(*   dls, ids              depth-limited and iterative deepening           *)
(*                                                                         *)
(* A node is its number (the value of time_cost when it was made), the     *)
(* states of the path that its parents make, without the first (so that    *)
(* depthcost and pathcost are its length) and its value.  NodeQueue and    *)
(* PriorityQueue differ in which live node comes out first: the oldest, or *)
(* any of least value (what heapq does with equal values depends on the    *)
(* layout of its array).                                                   *)
(***************************************************************************)
EXTENDS Integers, Sequences, FiniteSets

CONSTANTS Problems,   \* name -> [states, actions, sample, start, goal, l1, l2]
          Algs,       \* the algorithms to run
          Timeout,    \* greedy_tree_search's timeout
          Limit,      \* the limit given to DLS
          MaxTime     \* bound: nodes made by a search that need not end

Queued == {"bfs_ts", "bfs_gs", "ucs", "greedy_ts", "greedy_gs", "astar_ts", "astar_gs"}
GraphSearch == {"bfs_gs", "ucs", "greedy_gs", "astar_gs"}
BFS == {"bfs_ts", "bfs_gs"}
Deepening == {"dls", "ids"}

\* What sample() may return; actions count from 0.
Sample(Q, s, a) == Q.sample[<<s, a>>]

\* Every action leads somewhere, maybe by chance.
ProblemType(Q) == /\ IsFiniteSet(Q.states) /\ Q.actions \in Nat \ {0}
                  /\ Q.start \in Q.states /\ Q.goal \in Q.states
                  /\ Q.sample \in [Q.states \X (0..Q.actions - 1) -> (SUBSET Q.states) \ {{}}]
                  /\ Q.l1 \in [Q.states -> Nat] /\ Q.l2 \in [Q.states -> Nat]

ASSUME SearchAssumption == /\ \A p \in DOMAIN Problems : ProblemType(Problems[p])
                           /\ Algs \subseteq Queued \cup Deepening
                           /\ Timeout \in Nat /\ Limit \in Nat /\ MaxTime \in Nat

VARIABLES prob, alg,  \* the call: which problem and which algorithm
          pc,         \* "loop", "look", "deep", "done"
          fringe,     \* the nodes in deque or heap, live or not
          removed,    \* numbers of the nodes whose flag removed is set
          dict,       \* state -> number of the node node_dict or frdict has, 0 if none
          qlen,       \* que_len or frlen
          explored,   \* states taken from the queue
          cur, act,   \* the node looked at and the next action to try
          stack,      \* frames of the recursion: state, next action, cut_off_occurred
          limit,      \* the limit of this DLS
          time, space,\* time_cost and space_cost
          result      \* what the call returns
queuevars == <<fringe, removed, dict, qlen>>
vars == <<prob, alg, pc, queuevars, explored, cur, act, stack, limit, time, space, result>>

P == Problems[prob]
Larger(a, b) == IF a > b THEN a ELSE b

StateOf(path) == IF path = <<>> THEN P.start ELSE path[Len(path)]
Found(path) == [kind |-> "path", path |-> path]
Other(kind) == [kind |-> kind, path |-> <<>>]

\* What each algorithm orders its queue by.  The variant leaves out the cost of
\* the path in A*.
ValueGreedy(path) ==
  CASE alg \in BFS -> 0
    [] alg = "ucs" -> Len(path)
    [] alg \in {"greedy_ts", "greedy_gs"} -> P.l2[StateOf(path)]
    [] alg \in {"astar_ts", "astar_gs"} -> P.l1[StateOf(path)]
Value(path) ==
  CASE alg \in BFS -> 0
    [] alg = "ucs" -> Len(path)
    [] alg \in {"greedy_ts", "greedy_gs"} -> P.l2[StateOf(path)]
    [] alg \in {"astar_ts", "astar_gs"} -> Len(path) + P.l1[StateOf(path)]

Node(path) == [id |-> time + 1, path |-> path, value |-> Value(path)]
Root == [id |-> 1, path |-> <<>>, value |-> 0]

Init == /\ prob \in DOMAIN Problems /\ alg \in Algs
        /\ fringe = IF alg \in Queued THEN {Root} ELSE {}
        /\ removed = {}
        /\ dict = [s \in P.states |-> IF s = P.start /\ alg \in Queued THEN 1 ELSE 0]
        /\ qlen = IF alg \in Queued THEN 1 ELSE 0
        /\ explored = {} /\ cur = Root /\ act = 0 /\ stack = <<>>
        /\ limit = IF alg = "dls" THEN Limit ELSE 0
        /\ time = IF alg \in Queued THEN 1 ELSE 0
        /\ space = IF alg = "dls" THEN 0 ELSE 1
        /\ IF alg \in BFS /\ P.start = P.goal
           THEN pc = "done" /\ result = Found(<<>>)
           ELSE /\ pc = IF alg \in Queued THEN "loop" ELSE "deep"
                /\ result = Other("running")

-----------------------------------------------------------------------------
(* The queues.                                                             *)

Live == {n \in fringe : n.id \notin removed}
Before(m, n) == IF alg \in BFS THEN m.id < n.id ELSE m.value < n.value

\* remove(): drops the dead nodes it meets and takes the first live one.  The
\* variant does not count it out.
RemoveUncounted(n) ==
  /\ n \in Live /\ \A m \in Live : ~Before(m, n)
  /\ fringe' = {m \in fringe : m # n /\ ~Before(m, n)}
  /\ dict' = [dict EXCEPT ![StateOf(n.path)] = 0]
  /\ UNCHANGED <<qlen, removed>>
Remove(n) ==
  /\ n \in Live /\ \A m \in Live : ~Before(m, n)
  /\ fringe' = {m \in fringe : m # n /\ ~Before(m, n)}
  /\ dict' = [dict EXCEPT ![StateOf(n.path)] = 0]
  /\ qlen' = qlen - 1
  /\ UNCHANGED removed

Add(n) == /\ fringe' = fringe \cup {n}
          /\ dict' = [dict EXCEPT ![StateOf(n.path)] = n.id]
          /\ qlen' = qlen + 1
          /\ UNCHANGED removed

\* replace(): the node of that state is marked, and a new one added.  The
\* variant leaves the old one without its mark.
ReplaceUnmarked(n) == /\ fringe' = fringe \cup {n}
                      /\ dict' = [dict EXCEPT ![StateOf(n.path)] = n.id]
                      /\ qlen' = (qlen - 1) + 1
                      /\ UNCHANGED removed
Replace(n) == /\ removed' = removed \cup {dict[StateOf(n.path)]}
              /\ fringe' = fringe \cup {n}
              /\ dict' = [dict EXCEPT ![StateOf(n.path)] = n.id]
              /\ qlen' = (qlen - 1) + 1

InQueue(s) == dict[s] # 0
Entry(s) == CHOOSE n \in fringe : n.id = dict[s]

\* present_with_higher_cost() and present_with_higher_value().
HigherCost(n) == LET s == StateOf(n.path)
                 IN  InQueue(s) /\ Len(Entry(s).path) > Len(n.path)
HigherValue(n) == LET s == StateOf(n.path)
                  IN  InQueue(s) /\ Entry(s).value > n.value
Better(n) == CASE alg = "ucs" -> HigherCost(n)
               [] alg \in {"greedy_gs", "astar_gs"} -> HigherValue(n)
               [] OTHER -> FALSE

-----------------------------------------------------------------------------
(* The searches with a queue.                                              *)

Return(r) == pc' = "done" /\ result' = r

TimedOut == alg = "greedy_ts" /\ time >= Timeout

\* The top of the loop when it does not take a node: breadth-first search
\* returns the path to the last node it looked at.
GiveUp == /\ pc = "loop" /\ (TimedOut \/ qlen = 0)
          /\ Return(IF TimedOut THEN Other("time-out")
                    ELSE IF alg \in BFS THEN Found(cur.path) ELSE Other("None"))
          /\ UNCHANGED <<prob, alg, queuevars, explored, cur, act, stack, limit, time, space>>

\* The top of the loop: a node is taken, and explored if it is not the goal.
Take(n) ==
  /\ pc = "loop" /\ ~TimedOut /\ qlen # 0
  /\ Remove(n)
  /\ IF alg \notin BFS /\ StateOf(n.path) = P.goal
     THEN Return(Found(n.path)) /\ UNCHANGED <<explored, cur, act>>
     ELSE /\ cur' = n /\ act' = 0 /\ pc' = "look"
          /\ explored' = IF alg \in GraphSearch THEN explored \cup {StateOf(n.path)} ELSE explored
          /\ UNCHANGED result
  /\ UNCHANGED <<prob, alg, stack, limit, time, space>>

\* A graph search keeps a child whose state is neither queued nor explored.
Fresh(s) == alg \in GraphSearch => ~InQueue(s) /\ s \notin explored

\* After the last action the loop starts again and space_cost is updated.
EndLook == IF act + 1 < P.actions
           THEN act' = act + 1 /\ UNCHANGED <<pc, space>>
           ELSE /\ act' = 0 /\ pc' = "loop"
                /\ space' = Larger(space, qlen' + Cardinality(explored))

\* One child of the node looked at.
Look(s) ==
  LET child == Node(Append(cur.path, s))
  IN  /\ pc = "look" /\ s \in Sample(P, StateOf(cur.path), act)
      /\ alg \in GraphSearch \cup {"greedy_ts"} \/ time < MaxTime
      /\ time' = time + 1
      /\ \/ /\ Fresh(s) /\ alg \in BFS /\ s = P.goal
            /\ Return(Found(child.path))
            /\ UNCHANGED <<queuevars, act, space>>
         \/ /\ Fresh(s) /\ ~(alg \in BFS /\ s = P.goal)
            /\ Add(child) /\ EndLook /\ UNCHANGED result
         \/ /\ ~Fresh(s) /\ Better(child)
            /\ Replace(child) /\ EndLook /\ UNCHANGED result
         \/ /\ ~Fresh(s) /\ ~Better(child)
            /\ UNCHANGED <<queuevars, result>> /\ EndLook
      /\ UNCHANGED <<prob, alg, explored, cur, stack, limit>>

-----------------------------------------------------------------------------
(* DLS and IDS.                                                            *)

Frame(s) == [state |-> s, act |-> 0, cut |-> FALSE]
Top == stack[Len(stack)]
PathTo(s) == [i \in 1..Len(stack) |-> IF i < Len(stack) THEN stack[i + 1].state ELSE s]

\* What a cut_off means to the caller: to a frame, a note; to IDS, another
\* round with one more; to DLS, the result.
CutOff(frames) ==
  IF frames # <<>>
  THEN /\ stack' = [frames EXCEPT ![Len(frames)].cut = TRUE]
       /\ UNCHANGED <<pc, result, limit>>
  ELSE /\ stack' = <<>>
       /\ IF alg = "ids" THEN limit' = limit + 1 /\ UNCHANGED <<pc, result>>
          ELSE Return(Other("cut_off")) /\ UNCHANGED limit

\* A call of Recursive_DLS_TreeSearch for state s by the frames given.
Visit(s, frames) ==
  /\ alg # "ids" \/ time < MaxTime
  /\ time' = time + 1 /\ space' = Larger(space, Len(frames))
  /\ \/ /\ s = P.goal
        /\ Return(Found(IF frames = <<>> THEN <<>> ELSE PathTo(s)))
        /\ stack' = frames /\ UNCHANGED limit
     \/ /\ s # P.goal /\ limit = Len(frames)
        /\ CutOff(frames)
     \/ /\ s # P.goal /\ limit # Len(frames)
        /\ stack' = Append(frames, Frame(s))
        /\ UNCHANGED <<pc, result, limit>>
  /\ UNCHANGED <<prob, alg, queuevars, explored, cur, act>>

DeepRoot == pc = "deep" /\ stack = <<>> /\ Visit(P.start, <<>>)

DeepLook == /\ pc = "deep" /\ stack # <<>> /\ Top.act < P.actions
            /\ \E s \in Sample(P, Top.state, Top.act) :
                  Visit(s, [stack EXCEPT ![Len(stack)].act = @ + 1])

\* The loop over the actions is over: cut_off or failure goes to the caller.
DeepReturn ==
  LET frames == SubSeq(stack, 1, Len(stack) - 1)
  IN  /\ pc = "deep" /\ stack # <<>> /\ Top.act = P.actions
      /\ IF Top.cut THEN CutOff(frames)
         ELSE /\ stack' = frames /\ UNCHANGED limit
              /\ IF frames = <<>> THEN Return(Other("failure")) ELSE UNCHANGED <<pc, result>>
      /\ UNCHANGED <<prob, alg, queuevars, explored, cur, act, time, space>>

Next == \/ GiveUp
        \/ \E n \in fringe : Take(n)
        \/ \E s \in P.states : Look(s)
        \/ DeepRoot \/ DeepLook \/ DeepReturn

Spec == Init /\ [][Next]_vars
FairSpec == Spec /\ WF_vars(Next)   \* a notebook cell that is left to run

-----------------------------------------------------------------------------
(* Properties.                                                             *)

\* A path, as a sequence of states, is one that the environment allows.
Walk(path) == \A i \in DOMAIN path :
                 \E a \in 0..P.actions - 1 :
                    path[i] \in Sample(P, StateOf(SubSeq(path, 1, i - 1)), a)

\* The states within n steps of the start.
WithinOf(Q) ==
  LET Within[n \in Nat] ==
        IF n = 0 THEN {Q.start}
        ELSE LET near == Within[n - 1]
             IN  near \cup UNION {Sample(Q, s, a) : s \in near, a \in 0..Q.actions - 1}
  IN  Within

\* The distance of the goal in each problem, -1 if it cannot be reached.
Distances ==
  [p \in DOMAIN Problems |->
     LET Q == Problems[p]
         Within == WithinOf(Q)
         Near == {n \in 0..Cardinality(Q.states) : Q.goal \in Within[n]}
     IN  IF Near = {} THEN -1 ELSE CHOOSE n \in Near : \A m \in Near : n <= m]
Reachable == Distances[prob] # -1

\* Breadth-first search does not return None when there is no way, as it says
\* it does, but the path to the last node it looked at: run search_none.
PathToNowhere == alg \in BFS /\ ~Reachable

\* A path returned is made of moves that the environment allows (build_path()
\* and the parent links) and leads from the start to the goal; the one of
\* breadth-first search leads there only if there is a way.
PathSound == result.kind = "path" =>
               Walk(result.path) /\ (StateOf(result.path) = P.goal \/ PathToNowhere)

\* "None if no solution is found", of BFS (uninf_search_1_problem.ipynb:48).
NoneIfNoWay == alg \in BFS /\ pc = "done" /\ ~Reachable => result.kind = "None"

\* Breadth-first, uniform-cost, A* (its heuristic is the l1 norm of a grid)
\* and iterative deepening find a shortest path, whatever heapq does with
\* equal values, and find one whenever there is one.
ShortestFound == alg \notin {"greedy_ts", "greedy_gs", "dls"} /\ pc = "done" /\ Reachable
                   => result.kind = "path" /\ Len(result.path) = Distances[prob]

\* The answer of every search is right: a way to the goal where PathSound says
\* so, and a shortest one if the algorithm promises it and there is a way.
AnswersRight == PathSound /\ ShortestFound

\* The queue agrees with itself: its length counts the live nodes and, in a
\* graph search, its dictionary has the live node of each state, no state has
\* two, and none of them is explored: no state is expanded twice.
QueueExact ==
  /\ qlen = Cardinality(Live)
  /\ alg \in GraphSearch =>
       /\ \A n \in Live : dict[StateOf(n.path)] = n.id /\ StateOf(n.path) \notin explored
       /\ \A s \in P.states : InQueue(s) => \E n \in Live : n.id = dict[s] /\ StateOf(n.path) = s

\* Graph searches, the search with a timeout and DLS end, also when the goal
\* cannot be reached.
Ends == (alg \in GraphSearch \cup {"greedy_ts", "dls"}) ~> (pc = "done")
==============================================================================
