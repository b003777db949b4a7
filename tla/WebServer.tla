------------------------------ MODULE WebServer ------------------------------
(***************************************************************************)
(* web_sstt.py: a web server that accepts a connection, forks a child for  *)
(* it and goes on accepting.  The child reads a request, answers it and    *)
(* waits, at most TIMEOUT_CONNECTION seconds, for the next.                *)
(*                                                                         *)
(* A connection is a record of conn: where its child stands (pc), what the *)
(* client has sent and nobody has read (inb), whether the client has       *)
(* closed (fin), the answers (out), what has been sent and the client has  *)
(* not read (unread), and how many segments the client may still send      *)
(* (left, a bound of the model).                                           *)
(*                                                                         *)
(*   "none"    the client has not connected                                *)
(*   "queued"  in the backlog of the listening socket                      *)
(*   "first"   its child is in the first recv(), which has no timeout      *)
(*   "sending" its child is sending an answer, the headers and then the    *)
(*             file; send() blocks if the client does not read               *)
(*   "select"  its child waits for another request, with a timeout         *)
(*   "closed"  its child has closed the socket and ended                   *)
(*                                                                         *)
(* What a client sends is a sequence of segments.  One may hold a whole    *)
(* request, or its beginning ("tail" follows); recv() returns the segments *)
(* that have arrived, as if they were one request.                         *)
(***************************************************************************)
EXTENDS Integers, Sequences

CONSTANTS Conns,        \* connections that may be opened
          MAX_ACCESOS,  \* accesses to the index per browser; also the backlog
          Blocks,       \* blocks of BUFSIZE bytes in a file that exists
          MaxSegs,      \* bound: segments a client sends on each connection
          Room,         \* sends that the buffers of a socket hold
          Browsers,     \* connections that one browser opens
          Segments      \* what clients that are no browser may send

Sent == "cookie_counter_65YY"     \* the name the server gives the cookie
Read == "cookie_counter_6535"     \* the name it looks for

NoCookie == 0        \* no cookie of that name, or a value below 1
BadCookie == -1      \* a value that int() refuses
CookieVals == {NoCookie, BadCookie} \cup Nat

WebKinds == {"index", "file", "missing", "badmethod", "badline", "tail", "raw"}
Segment == [kind: WebKinds, cookie: CookieVals]
Answer == [status: {200, 400, 403, 404, 405}, cookie: Nat, want: Nat, got: Nat]
Closing == {400, 403, 405}

ASSUME WebAssumption == /\ MAX_ACCESOS \in Nat \ {0, 1}
                        /\ Blocks \in Nat /\ Room \in Nat \ {0}
                        /\ MaxSegs \in [Conns -> Nat]
                        /\ Browsers \subseteq Conns
                        /\ Segments \subseteq Segment

VARIABLES up,       \* whether the parent is in its loop
          backlog,  \* connections the kernel has completed and nobody accepted
          conn,     \* the connections
          jar,      \* the browser's cookies: name -> value, 0 if it has none
          granted   \* times the index was served to the browser in a row
webVars == <<up, backlog, conn, jar, granted>>

NewConn(k) == [pc |-> "none", inb |-> <<>>, fin |-> FALSE, out |-> <<>>,
               unread |-> 0, left |-> MaxSegs[k]]

WebInit == /\ up = TRUE
           /\ backlog = <<>>
           /\ conn = [k \in Conns |-> NewConn(k)]
           /\ jar = [n \in {Sent, Read} |-> NoCookie]
           /\ granted = 0

-----------------------------------------------------------------------------
(* The client and the network.                                             *)

Connect(k) == /\ up /\ conn[k].pc = "none" /\ Len(backlog) < MAX_ACCESOS
              /\ backlog' = Append(backlog, k)
              /\ conn' = [conn EXCEPT ![k].pc = "queued"]
              /\ UNCHANGED <<up, jar, granted>>

\* The browser asks for the index, with the cookie of the name the server
\* looks for, and only when the last answer is complete.
Browse(k) == /\ k \in Browsers /\ conn[k].pc \in {"queued", "first", "select"} /\ ~conn[k].fin
             /\ conn[k].left > 0 /\ conn[k].inb = <<>>
             /\ conn' = [conn EXCEPT ![k].left = @ - 1,
                   ![k].inb = Append(@, [kind |-> "index", cookie |-> jar[Read]])]
             /\ UNCHANGED <<up, backlog, jar, granted>>

\* Any other client sends what it likes, when it likes.
Send(k, m) == /\ k \notin Browsers /\ conn[k].pc \notin {"none", "closed"} /\ ~conn[k].fin
              /\ conn[k].left > 0
              /\ conn' = [conn EXCEPT ![k].left = @ - 1, ![k].inb = Append(@, m)]
              /\ UNCHANGED <<up, backlog, jar, granted>>

\* The client takes what has been sent.  A browser does at once; others, perhaps never.
ReadAll(k) == /\ conn[k].unread > 0
              /\ conn' = [conn EXCEPT ![k].unread = 0]
              /\ UNCHANGED <<up, backlog, jar, granted>>

Close(k) == /\ conn[k].pc \notin {"none", "closed"} /\ ~conn[k].fin
            /\ conn' = [conn EXCEPT ![k].fin = TRUE]
            /\ UNCHANGED <<up, backlog, jar, granted>>

-----------------------------------------------------------------------------
(* The parent: main().                                                     *)

\* The child gets the connection and the parent is in accept() again.  The
\* variant is a parent that serves it itself.
ForkNothing(k) == /\ \A j \in Conns : conn[j].pc \notin {"first", "sending", "select"}
                  /\ conn' = [conn EXCEPT ![k].pc = "first"]
                  /\ UNCHANGED <<up, jar, granted>>
Fork(k) == /\ conn' = [conn EXCEPT ![k].pc = "first"]
           /\ UNCHANGED <<up, jar, granted>>

Accept == /\ up /\ backlog # <<>>
          /\ backlog' = Tail(backlog)
          /\ Fork(Head(backlog))

\* os.fork() raises, as when children that nobody waits for fill the table, and nothing
\* catches it: the parent ends, and its backlog with it.  The children go on.
AcceptFails == /\ up /\ backlog # <<>>
               /\ up' = FALSE /\ backlog' = <<>>
               /\ conn' = [k \in Conns |-> IF conn[k].pc = "queued" THEN [conn[k] EXCEPT !.pc = "closed"]
                                           ELSE conn[k]]
               /\ UNCHANGED <<jar, granted>>

\* Control-C reaches every process of the terminal: children end as well.
Interrupt == /\ up
             /\ up' = FALSE /\ backlog' = <<>>
             /\ conn' = [k \in Conns |-> IF conn[k].pc = "none" THEN conn[k]
                                         ELSE [conn[k] EXCEPT !.pc = "closed"]]
             /\ UNCHANGED <<jar, granted>>

-----------------------------------------------------------------------------
(* The child: process_web_request().                                       *)

\* process_cookies(): the first cookie of that name with a value of 1 or more,
\* or with one that is no number.
Counter(cookies) ==
  LET found == {i \in DOMAIN cookies : cookies[i] # NoCookie}
      val == cookies[CHOOSE i \in found : \A j \in found : i <= j]
  IN  IF found = {} \/ val = BadCookie THEN 1
      ELSE IF val >= MAX_ACCESOS THEN MAX_ACCESOS ELSE val + 1

\* The headers, with the text of an error, are one send, and each block of the file one more.
Reply(status, cookie, file) == [status |-> status, cookie |-> cookie, want |-> 1 + file, got |-> 0]

\* The status of every request that is not for the index.
Status == [badmethod |-> 405, badline |-> 400, tail |-> 400, missing |-> 404, file |-> 200]

\* The answer to what recv() returned: its first line is the request line and
\* all the rest, other requests included, its headers.
AnswerTo(segs) ==
  LET kind == segs[1].kind
      val == Counter([i \in DOMAIN segs |-> segs[i].cookie])
  IN  IF kind # "index" THEN Reply(Status[kind], 0, IF kind = "file" THEN Blocks ELSE 0)
      ELSE IF val >= MAX_ACCESOS THEN Reply(403, 0, 0) ELSE Reply(200, val, Blocks)

Undecodable(segs) == \E i \in DOMAIN segs : segs[i].kind = "raw"

\* Where the child goes once it has sent a part of an answer: it sends the next, or
\* leaves the loop, or waits for another request.  The variant forgets that an access
\* denied closes the connection.
AfterDenied(a) == IF a.got < a.want THEN "sending"
                  ELSE IF a.status \in Closing \ {403} THEN "closed" ELSE "select"
After(a) == IF a.got < a.want THEN "sending"
            ELSE IF a.status \in Closing THEN "closed" ELSE "select"

Waiting(k) == conn[k].pc \in {"first", "select"}

\* recv() returns segments that have arrived and the child makes its answer.
Recv(k, n) ==
  LET segs == SubSeq(conn[k].inb, 1, n)
  IN  /\ Waiting(k) /\ n \in 1..Len(conn[k].inb) /\ ~Undecodable(segs)
      /\ conn' = [conn EXCEPT ![k].inb = SubSeq(@, n + 1, Len(@)),
                              ![k].out = Append(@, AnswerTo(segs)), ![k].pc = "sending"]
      /\ UNCHANGED <<up, backlog, jar, granted>>

\* decode() raises and nothing catches it: the child ends.
RecvRaw(k, n) ==
  /\ Waiting(k) /\ n \in 1..Len(conn[k].inb)
  /\ Undecodable(SubSeq(conn[k].inb, 1, n))
  /\ conn' = [conn EXCEPT ![k].inb = SubSeq(@, n + 1, Len(@)), ![k].pc = "closed"]
  /\ UNCHANGED <<up, backlog, jar, granted>>

\* recv() returns nothing: the client has closed.
RecvEmpty(k) == /\ Waiting(k) /\ conn[k].inb = <<>> /\ conn[k].fin
                /\ conn' = [conn EXCEPT ![k].pc = "closed"]
                /\ UNCHANGED <<up, backlog, jar, granted>>

\* One send.  The browser keeps the cookie of the headers, which come first.
SendChunk(k) ==
  LET i == Len(conn[k].out)
      a == [conn[k].out[i] EXCEPT !.got = @ + 1]
  IN  /\ conn[k].pc = "sending" /\ conn[k].unread < Room
      /\ conn' = [conn EXCEPT ![k].out[i] = a, ![k].pc = After(a),
                              ![k].unread = IF k \in Browsers THEN 0 ELSE @ + 1]
      /\ IF k \in Browsers /\ a.status = 200 /\ a.got = 1
         THEN jar' = [jar EXCEPT ![Sent] = a.cookie] /\ granted' = granted + 1
         ELSE UNCHANGED <<jar, granted>>
      /\ UNCHANGED <<up, backlog>>

\* The client has closed and send() raises: the child ends.
Broken(k) == /\ conn[k].pc = "sending" /\ conn[k].fin
             /\ conn' = [conn EXCEPT ![k].pc = "closed"]
             /\ UNCHANGED <<up, backlog, jar, granted>>

\* TIMEOUT_CONNECTION seconds without a request.  And a select() without it.
NoTimeout(k) == FALSE
Timeout(k) == /\ conn[k].pc = "select" /\ conn[k].inb = <<>> /\ ~conn[k].fin
              /\ conn' = [conn EXCEPT ![k].pc = "closed"]
              /\ UNCHANGED <<up, backlog, jar, granted>>

Receives(k) == (\E n \in 1..MaxSegs[k] : Recv(k, n) \/ RecvRaw(k, n)) \/ RecvEmpty(k)
ChildOf(k) == Receives(k) \/ SendChunk(k) \/ Broken(k) \/ Timeout(k)

WebNext == \/ Accept \/ AcceptFails \/ Interrupt
           \/ \E k \in Conns : \/ Connect(k) \/ Browse(k) \/ ReadAll(k) \/ Close(k) \/ ChildOf(k)
                               \/ \E m \in Segments : Send(k, m)

WebSpec == WebInit /\ [][WebNext]_webVars

\* The parent and every child are scheduled.  Nobody has to send, to read, to close or
\* to press Control-C; a send() that has no room is not a step that could be taken.
WebFairSpec == WebSpec /\ WF_webVars(Accept) /\ \A k \in Conns : WF_webVars(ChildOf(k))

-----------------------------------------------------------------------------
(* Properties.                                                             *)

WebTypeOK == /\ up \in BOOLEAN
             /\ backlog \in Seq(Conns)
             /\ conn \in [Conns -> [pc: {"none", "queued", "first", "sending", "select", "closed"},
                                    inb: Seq(Segment), fin: BOOLEAN, out: Seq(Answer),
                                    unread: 0..Room, left: Nat]]
             /\ jar \in [{Sent, Read} -> Nat]
             /\ granted \in Nat

\* What a client reads is whole answers one after another, whatever it sends
\* and however its requests are cut: every answer before the last has the
\* length its Content-Length says, none follows one that says
\* "Connection: close", and no child waits for a request in the middle of one.
WholeAnswers ==
  \A k \in Conns :
    LET out == conn[k].out
    IN  /\ \A i \in 1..(Len(out) - 1) : out[i].got = out[i].want /\ out[i].status \notin Closing
        /\ \A i \in DOMAIN out : out[i].got <= out[i].want
        /\ out # <<>> /\ out[Len(out)].status \in Closing => conn[k].pc \in {"sending", "closed"}
        /\ conn[k].pc = "select" => out # <<>> /\ out[Len(out)].got = out[Len(out)].want
        /\ conn[k].pc = "sending" => out # <<>> /\ out[Len(out)].got < out[Len(out)].want

\* Clients that say nothing, or that do not read, do not keep the server from the others:
\* a connection in the backlog gets a child, unless the parent ends, by Control-C or by a
\* fork() that fails.
Accepts ==
  \A k \in Conns : (conn[k].pc = "queued") ~> (~up \/ conn[k].pc \in {"first", "sending", "select"})

\* A client that reads what it is sent, or closes.
Reads(k) == []<>(conn[k].unread < Room \/ conn[k].fin)

\* A child that has had a request ends, whatever becomes of the parent, if its client
\* reads or closes: the wait for another request has a timeout.  Nothing like it holds of
\* the first request, nor of send(), which waits for its client for ever.
IdleEnds ==
  \A k \in Conns : Reads(k) => ((conn[k].pc \in {"sending", "select"}) ~> (conn[k].pc = "closed"))

\* "Has superado el limite de accesos": a browser that keeps its cookies is
\* not served the index MAX_ACCESOS times.
LimitHolds == granted < MAX_ACCESOS
==============================================================================
