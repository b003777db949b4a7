---------------------------- MODULE MCWebServer ----------------------------
(* Instances of WebServer for TLC.                                         *)
EXTENDS WebServer

\* A stranger on connection 1 and a browser on connection 2.
SegsOf == [k \in Conns |-> 2]
OneBrowser == [k \in Conns |-> 4]

\* Requests whole, cut in two (the cookie comes with the tail) and wrong.
SomeSegments == {[kind |-> "index", cookie |-> c] : c \in {NoCookie, 1, MAX_ACCESOS}}
           \cup {[kind |-> "tail", cookie |-> c] : c \in {BadCookie, MAX_ACCESOS}}
           \cup {[kind |-> x, cookie |-> NoCookie] : x \in WebKinds \ {"index", "tail"}}
=============================================================================
