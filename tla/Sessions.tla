-------------------------------- MODULE Sessions --------------------------------
(***************************************************************************)
(* What a friend server makes of connections that end early or break:      *)
(* main and doit of Concurrent_Server/friendlist.c with their descriptors, *)
(* and the introductions that read another server's answer line by line    *)
(* while the semaphore is taken.  FriendServer has the graph of friends;   *)
(* here an introduction only collects the names it adds.                   *)
(***************************************************************************)
EXTENDS Rio, FiniteSets

CONSTANTS Client,
          Descriptor,           \* the descriptors the process may have, from 0 on
          Requests,             \* what each client may send: sequences of bytes
          Answers,              \* what the other server may answer, with the names in it
          Stale,                \* what may be left in a new buffer on the stack
          CR,
          MaxConnections        \* bound: connections accepted in all

Own(c) == <<c, "own">>          \* the reader in doit
Other(c) == <<c, "other">>      \* the reader in serve_introduce
listenfd == 0
None == -1

\* The bytes of s behind the first from ones, up to the first newline.
IsLine(s, from, to) == /\ from \in 0 .. to - 1 /\ to \in 1 .. Len(s)
                       /\ from = 0 \/ s[from] = NL
                       /\ s[to] = NL /\ \A n \in from + 1 .. to - 1 : s[n] # NL

\* A line that is empty but for its CR, and the lines between two places, less
\* their newlines.
EmptyLine(s, from) == IsLine(s, from, from + 2) /\ s[from + 1] = CR
LinesIn(s, from, to) ==
    {SubSeq(s, w[1] + 1, w[2] - 1) :
         w \in {w \in (from .. to) \X (from .. to) : IsLine(s, w[1], w[2])}}

\* The body of an answer, behind the first empty line, has the names.
Body(a, start) == /\ start >= 2 /\ EmptyLine(a.bytes, start - 2)
                  /\ \A n \in 0 .. start - 3 : ~EmptyLine(a.bytes, n)
                  /\ a.names = LinesIn(a.bytes, start, Len(a.bytes))

\* What another server answers: lines that fit into the buffer.
Answer(a) == LET s == a.bytes IN
    /\ DOMAIN a = {"bytes", "names"} /\ s \in Seq(Byte \ {NUL})
    /\ s # <<>> /\ s[Len(s)] = NL
    /\ \A from, to \in 0 .. Len(s) : IsLine(s, from, to) => to - from < MAXLINE
    /\ IF s[1] = "200" THEN \E start \in 2 .. Len(s) : Body(a, start) ELSE a.names = {}

ASSUME SessionsAssumption ==
    /\ Reader = Client \X {"own", "other"}
    /\ listenfd \in Descriptor /\ Descriptor \subseteq Nat
    /\ \A c \in Client : Requests[c] \subseteq Seq(Byte)
    /\ \A a \in Answers : Answer(a)
    /\ \A old \in Stale : \E n \in 1 .. MAXLINE : old[n] = NUL
    /\ CR \notin {NL, NUL, "200"} /\ NL # NUL

VARIABLES pc,           \* of each client's thread, where it is; "idle": there is none
          request,      \* the request it serves
          fd, server_fd,\* its descriptors, or None
          open,         \* the open descriptors
          sem,          \* the semaphore
          answer,       \* what the other server sends it, and whether all of it comes
          befriended,   \* the names its introduction has added
          alive,        \* FALSE after a segmentation fault
          accepted      \* connections accepted so far

session_vars == <<pc, request, fd, server_fd, open, sem, answer, befriended, alive, accepted>>
vars == <<session_vars, rio_vars>>

NoAnswer == [names |-> {}, whole |-> FALSE]

Init == /\ RioInit
        /\ pc = [c \in Client |-> "idle"]
        /\ request = [c \in Client |-> "?"]
        /\ fd = [c \in Client |-> None] /\ server_fd = [c \in Client |-> None]
        /\ open = {listenfd}
        /\ sem = 1
        /\ answer = [c \in Client |-> NoAnswer]
        /\ befriended = [c \in Client |-> {}]
        /\ alive = TRUE
        /\ accepted = 0

Goto(c, label) == pc' = [pc EXCEPT ![c] = label]

\* The descriptors that a call could return: the lowest that is free.
Lowest == {d \in Descriptor \ open : \A e \in Descriptor \ open : d <= e}

\* The C string in a buffer, and the line that ends headers.
String(buf) == LET ends == {n \in 1 .. MAXLINE : buf[n] = NUL}
               IN  SubSeq(buf, 1, (CHOOSE n \in ends : \A m \in ends : n <= m) - 1)
Blank(buf) == String(buf) = <<CR, NL>>

-----------------------------------------------------------------------------
(* doit, up to the semaphore.                                              *)

\* main accepts a connection and starts a thread.  The client sends all of a
\* request and waits, or a part of it and hangs up or is lost.
Accept(c) ==
    /\ pc[c] = "idle" /\ accepted < MaxConnections
    /\ accepted' = accepted + 1
    /\ \E d \in Lowest : /\ fd' = [fd EXCEPT ![c] = d]
                         /\ open' = open \cup {d}
    /\ \E bytes \in Requests[c] : \E n \in 0 .. Len(bytes), end \in {"waits", "closed", "reset"} :
        /\ n = Len(bytes) <=> end = "waits"
        /\ Rio_readinitb(Own(c), SubSeq(bytes, 1, n), end, Uninitialised)
    /\ Goto(c, "request")
    /\ UNCHANGED <<request, server_fd, sem, answer, befriended, alive>>

\* No request line: doit returns, and does not close the descriptor.
Hangup(c) ==
    /\ pc[c] = "request" /\ ~calling[Own(c)] /\ rc[Own(c)] <= 0
    /\ Goto(c, "idle")
    /\ fd' = [fd EXCEPT ![c] = None]
    /\ Rio_gone(Own(c))
    /\ UNCHANGED <<request, server_fd, open, sem, answer, befriended, alive, accepted>>

\* The request line is parsed; what is none is answered with an error.
\* read_requesthdrs has a new buffer.
RequestLine(c) == LET line == String(usrbuf[Own(c)]) IN
    /\ pc[c] = "request" /\ ~calling[Own(c)] /\ rc[Own(c)] > 0
    /\ \/ /\ \E op \in {"friends", "introduce"} :
                /\ line = <<op, NL>>
                /\ request' = [request EXCEPT ![c] = op]
          /\ Goto(c, "headers")
          /\ \E old \in Stale : Rio_readlineb(Own(c), old)
       \/ /\ \A op \in {"friends", "introduce"} : line # <<op, NL>>
          /\ Goto(c, "close")
          /\ UNCHANGED <<request, rio_vars>>
    /\ UNCHANGED <<fd, server_fd, open, sem, answer, befriended, alive, accepted>>

\* The loop of read_requesthdrs looks at the buffer only: it never ends if the
\* connection does before the empty line.
Headers(c) ==
    /\ pc[c] = "headers" /\ ~calling[Own(c)]
    /\ IF Blank(usrbuf[Own(c)])
       THEN Goto(c, "P") /\ UNCHANGED rio_vars
       ELSE Rio_readlineb(Own(c), usrbuf[Own(c)]) /\ UNCHANGED pc
    /\ UNCHANGED <<request, fd, server_fd, open, sem, answer, befriended, alive, accepted>>

-----------------------------------------------------------------------------
(* With the semaphore.                                                     *)

P(c) == /\ pc[c] = "P" /\ sem > 0
        /\ sem' = sem - 1
        /\ Goto(c, IF request[c] = "introduce" THEN "connect" ELSE "V")
        /\ UNCHANGED <<request, fd, server_fd, open, answer, befriended, alive, accepted, rio_vars>>

\* serve_introduce connects to the other server, which answers; its answer may
\* end early or break.
Connect(c) ==
    /\ pc[c] = "connect"
    /\ \E d \in Lowest : /\ server_fd' = [server_fd EXCEPT ![c] = d]
                         /\ open' = open \cup {d}
    /\ \E a \in Answers, old \in Stale : \E n \in 0 .. Len(a.bytes), end \in {"closed", "reset"} :
        /\ Rio_readinitb(Other(c), SubSeq(a.bytes, 1, n), end, old)
        /\ answer' = [answer EXCEPT ![c] =
               [names |-> a.names, whole |-> n = Len(a.bytes) /\ end = "closed"]]
    /\ Goto(c, "status")
    /\ UNCHANGED <<request, fd, sem, befriended, alive, accepted>>

\* Or it cannot connect, which it does not notice: -1 is used as a descriptor.
ConnectFails(c) ==
    /\ pc[c] = "connect"
    /\ \E old \in Stale : Rio_readinitb(Other(c), <<>>, "unconnected", old)
    /\ Goto(c, "status")
    /\ UNCHANGED <<request, fd, server_fd, open, sem, answer, befriended, alive, accepted>>

Status(c) == usrbuf[Other(c)][1]

StatusOK(c) ==
    /\ pc[c] = "status" /\ ~calling[Other(c)]
    /\ Status(c) = "200"
    /\ Goto(c, "rest")
    /\ UNCHANGED <<request, fd, server_fd, open, sem, answer, befriended, alive, accepted, rio_vars>>

\* Mutant of NotOK: the semaphore is not posted either.
NotOK_returns(c) ==
    /\ pc[c] = "status" /\ ~calling[Other(c)]
    /\ Status(c) # "200"
    /\ Goto(c, "close")
    /\ server_fd' = [server_fd EXCEPT ![c] = None]
    /\ Rio_gone(Other(c))
    /\ UNCHANGED <<request, fd, open, sem, answer, befriended, alive, accepted>>

\* An answer that is not OK: serve_introduce returns, and neither answers its
\* client nor closes the descriptor.
NotOK(c) ==
    /\ pc[c] = "status" /\ ~calling[Other(c)]
    /\ Status(c) # "200"
    /\ Goto(c, "V")
    /\ server_fd' = [server_fd EXCEPT ![c] = None]
    /\ Rio_gone(Other(c))
    /\ UNCHANGED <<request, fd, open, sem, answer, befriended, alive, accepted>>

\* No status line at all: what happens to be in the buffer is split into words,
\* and the second, which need not exist, is read.
NoStatus(c) ==
    /\ pc[c] = "status" /\ ~calling[Other(c)]
    /\ Status(c) \notin {"200", "404"}
    /\ alive' = FALSE
    /\ UNCHANGED <<pc, request, fd, server_fd, open, sem, answer, befriended, accepted, rio_vars>>

\* The headers of the answer are passed over, as read_requesthdrs does.
Rest(c) ==
    /\ pc[c] = "rest" /\ ~calling[Other(c)]
    /\ IF Blank(usrbuf[Other(c)])
       THEN Goto(c, "names") /\ Rio_readlineb(Other(c), usrbuf[Other(c)])
       ELSE Rio_readlineb(Other(c), usrbuf[Other(c)]) /\ UNCHANGED pc
    /\ UNCHANGED <<request, fd, server_fd, open, sem, answer, befriended, alive, accepted>>

\* Mutant of Befriend: the last line is taken for one without a newline.
Befriend_untrimmed(c) == LET name == String(usrbuf[Other(c)]) IN
    /\ pc[c] = "names" /\ ~calling[Other(c)] /\ rc[Other(c)] # 0
    /\ befriended' = [befriended EXCEPT ![c] = @ \cup {name}]
    /\ Rio_readlineb(Other(c), usrbuf[Other(c)])
    /\ UNCHANGED <<pc, request, fd, server_fd, open, sem, answer, alive, accepted>>

\* A line of the body, less its last byte, is befriended; and so is what the
\* buffer holds after an error, which is not 0 either.
Befriend(c) == LET buf == usrbuf[Other(c)]
                   length == Len(String(buf)) - 1 IN
    /\ pc[c] = "names" /\ ~calling[Other(c)] /\ rc[Other(c)] # 0
    /\ befriended' = [befriended EXCEPT ![c] = @ \cup {SubSeq(buf, 1, length)}]
    /\ Rio_readlineb(Other(c), [buf EXCEPT ![length + 1] = NUL])
    /\ UNCHANGED <<pc, request, fd, server_fd, open, sem, answer, alive, accepted>>

\* Mutant of Introduced: the client's descriptor is closed, which doit closes again.
Introduced_own(c) ==
    /\ pc[c] = "names" /\ ~calling[Other(c)] /\ rc[Other(c)] = 0
    /\ open' = open \ {fd[c]}
    /\ server_fd' = [server_fd EXCEPT ![c] = None]
    /\ Goto(c, "V")
    /\ Rio_gone(Other(c))
    /\ UNCHANGED <<request, fd, sem, answer, befriended, alive, accepted>>

\* The end of the answer: the connection to the other server is closed.
Introduced(c) ==
    /\ pc[c] = "names" /\ ~calling[Other(c)] /\ rc[Other(c)] = 0
    /\ open' = open \ {server_fd[c]}
    /\ server_fd' = [server_fd EXCEPT ![c] = None]
    /\ Goto(c, "V")
    /\ Rio_gone(Other(c))
    /\ UNCHANGED <<request, fd, sem, answer, befriended, alive, accepted>>

V(c) == /\ pc[c] = "V"
        /\ sem' = sem + 1
        /\ Goto(c, "close")
        /\ UNCHANGED <<request, fd, server_fd, open, answer, befriended, alive, accepted, rio_vars>>

Close(c) ==
    /\ pc[c] = "close"
    /\ open' = open \ {fd[c]}
    /\ fd' = [fd EXCEPT ![c] = None]
    /\ Goto(c, "idle")
    /\ request' = [request EXCEPT ![c] = "?"]
    /\ answer' = [answer EXCEPT ![c] = NoAnswer]
    /\ befriended' = [befriended EXCEPT ![c] = {}]
    /\ Rio_gone(Own(c))
    /\ UNCHANGED <<server_fd, sem, alive, accepted>>

-----------------------------------------------------------------------------
\* A step of a thread, in doit or in a call of Rio_readlineb.
Read(r) == rio_readlineb(r) /\ UNCHANGED session_vars

Step(c) == alive /\
    \/ Hangup(c) \/ RequestLine(c) \/ Headers(c)
    \/ P(c) \/ Connect(c) \/ ConnectFails(c)
    \/ StatusOK(c) \/ NotOK(c) \/ NoStatus(c) \/ Rest(c) \/ Befriend(c) \/ Introduced(c)
    \/ V(c) \/ Close(c)
    \/ Read(Other(c))

Next == \E c \in Client : Step(c) \/ (alive /\ (Accept(c) \/ Read(Own(c))))

\* Every thread that can run does, and the other server answers or goes away;
\* clients may take for ever, and nobody need connect.
Spec == Init /\ [][Next]_vars
FairSpec == Spec /\ \A c \in Client : WF_vars(Step(c))

-----------------------------------------------------------------------------
\* The descriptors that threads use are open, and each is used by one thread
\* for one connection: none is closed twice, or before its time.
DescriptorsOwned ==
    /\ listenfd \in open
    /\ \A c \in Client : /\ pc[c] # "idle" => fd[c] \in open \ {listenfd}
                         /\ server_fd[c] # None => server_fd[c] \in open \ {listenfd, fd[c]}
    /\ \A b, c \in Client : b # c =>
           {fd[b], server_fd[b]} \cap {fd[c], server_fd[c]} \subseteq {None}

\* An introduction adds the names that the other server reports, all of them
\* and as they are, if its answer comes to its end; if it does not, at most
\* one name that was not reported is added.
AddsWhatWasReported == \A c \in Client :
    LET others == befriended[c] \ answer[c].names IN
    /\ Cardinality(others) <= (IF answer[c].whole THEN 0 ELSE 1)
    /\ pc[c] \in {"V", "close"} /\ answer[c].whole => befriended[c] = answer[c].names

\* Some introduction reads on after the end of an answer without an empty line.
Endless == \E c \in Client : LET r == Other(c) IN
    /\ pc[c] = "rest" /\ taken[r] \o rio_buf[r] \o coming[r] = <<>>
    /\ ending[r] # "reset" /\ ~Blank(usrbuf[r])

\* Whoever has sent a request is answered or at least let go, whatever clients
\* and other servers do, unless an introduction is endless or has crashed.
ServedUnlessEndless == \A c \in Client :
    (pc[c] = "P") ~> (pc[c] = "idle" \/ Endless \/ ~alive)

\* friendlist.c:77 "Also, don't stop on broken connections".
SurvivesBrokenConnections == \A c \in Client : (pc[c] = "P") ~> (pc[c] = "idle" \/ ~alive)
=============================================================================
