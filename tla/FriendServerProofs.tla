--------------------------- MODULE FriendServerProofs ---------------------------
(***************************************************************************)
(* Friendship is mutual whenever a server's semaphore is free, and every   *)
(* request takes effect at one instant: for every number of servers,       *)
(* clients and users, and every set of requests.                           *)
(***************************************************************************)
EXTENDS FriendServer, TLAPS

Holding == {"serve", "fetch", "work", "V"}

\* A thread past the reading of its request has one.
Requested == \A t \in Thread : pc[t] \notin {"idle", "read"} =>
    /\ req[t].at \in Server /\ req[t].user \in Name /\ req[t].friends \subseteq Name
    /\ req[t].op = "introduce" => req[t].from \in Server /\ req[t].friend \in Name

\* The semaphore is taken while a thread is inside, and one thread is.
Locked ==
    /\ \A t \in Thread : pc[t] \in Holding => sem[req[t].at] = 0
    /\ \A t, u \in Thread :
          pc[t] \in Holding /\ pc[u] \in Holding /\ req[t].at = req[u].at => t = u

\* A connection between servers lives while the introduction waits for it.
Fetching == \A c \in Client : pc[<<c, "remote">>] # "idle" => pc[<<c, "own">>] = "fetch"

\* A friendship that is half made or half removed is so in one direction.
HalfDone == \A t \in Thread : half[t] # None =>
    LET g == friends_graph[req[t].at]
        user == req[t].user IN
    /\ pc[t] \in {"work", "fetch"}
    /\ req[t].op # "unfriend" =>
          half[t] # user /\ Known(g, half[t]) /\ Known(g, user) /\ half[t] \in g[user]
    /\ req[t].op = "unfriend" /\ Known(g, user) => half[t] \notin g[user]

\* b need not have a as a friend while a thread is about to see to that.
HalfWay(s, a, b) == \E t \in Thread :
    /\ half[t] # None /\ req[t].at = s
    /\ IF req[t].op = "unfriend" THEN a = half[t] /\ b = req[t].user
                                 ELSE a = req[t].user /\ b = half[t]

AlmostMutual == \A s \in Server : \A a \in DOMAIN friends_graph[s] : \A b \in friends_graph[s][a] :
    b # a /\ Known(friends_graph[s], b) /\ (a \in friends_graph[s][b] \/ HalfWay(s, a, b))

Functions == req = [t \in Thread |-> req[t]]

IInv == TypeOK /\ Functions /\ Requested /\ Locked /\ Fetching /\ HalfDone /\ AlmostMutual

\* The inductive invariant contains the property: with the semaphore free
\* nobody is inside, so no friendship is half way.
LEMMA Sufficient == IInv => MutualWhenFree
<1> SUFFICES ASSUME IInv, NEW s \in Server, sem[s] = 1,
                    NEW a \in DOMAIN friends_graph[s], NEW b \in friends_graph[s][a]
             PROVE  b # a /\ Known(friends_graph[s], b) /\ a \in friends_graph[s][b]
    BY DEF MutualWhenFree
<1>1. ~HalfWay(s, a, b)
    BY DEF IInv, HalfWay, HalfDone, Locked, Holding
<1> QED
    BY <1>1 DEF IInv, AlmostMutual

LEMMA InitIInv == Init => IInv
BY ServerAssumption DEF Init, IInv, TypeOK, Functions, Requested, Locked, Holding, Fetching,
    HalfDone, AlmostMutual, Thread, Own

LEMMA ThreadFacts ==
    /\ \A c \in Client : /\ Own(c) \in Thread /\ Own(c) = <<c, "own">>
                         /\ <<c, "own">> \in Thread /\ <<c, "remote">> \in Thread
    /\ \A c, d \in Client : /\ <<c, "own">> # <<d, "remote">>
                            /\ <<c, "own">> = <<d, "own">> => c = d
    /\ \A t \in Thread : /\ t[1] \in Client /\ Own(t[1]) \in Thread /\ Remote(t) \in Thread
                         /\ Remote(t) = <<t[1], "remote">>
                         /\ t = <<t[1], "own">> \/ t = <<t[1], "remote">>
BY DEF Thread, Own, Remote

\* Only a thread that closes, or one whose introduction is answered, moves.
LEMMA CloseFacts == ASSUME IInv, NEW t \in Thread, Close(t), NEW u \in Thread
    PROVE /\ pc'[u] = IF u = t THEN "idle" ELSE IF u = Own(t[1]) THEN "work" ELSE pc[u]
          /\ req'[u] = IF u = t THEN None ELSE req[u]
          /\ u # t /\ u = Own(t[1]) => pc[u] = "fetch"
<1> USE ThreadFacts
<1>1. pc[t] = "close" BY DEF Close
<1>2. u # t /\ u = Own(t[1]) => pc[u] = "fetch"
    <2> SUFFICES ASSUME u # t, u = Own(t[1]) PROVE pc[u] = "fetch"
        OBVIOUS
    <2>1. t = <<t[1], "remote">> OBVIOUS
    <2>2. pc[<<t[1], "remote">>] # "idle" BY <1>1, <2>1
    <2> QED BY <2>2 DEF IInv, Fetching
<1>3. req'[u] = IF u = t THEN None ELSE req[u]
    BY DEF Close, IInv, Functions
<1>4. pc'[u] = IF u = t THEN "idle" ELSE IF u = Own(t[1]) THEN "work" ELSE pc[u]
    BY DEF Close, IInv, TypeOK
<1> QED BY <1>2, <1>3, <1>4

\* The connection to the other server carries a request of its own.
LEMMA FetchFacts == ASSUME IInv, NEW t \in Thread, Fetch(t), NEW u \in Thread
    PROVE /\ pc'[u] = IF u = Remote(t) THEN "P" ELSE IF u = t THEN "fetch" ELSE pc[u]
          /\ u # Remote(t) => req'[u] = req[u]
          /\ pc[t] = "serve" /\ t # Remote(t) /\ pc[Remote(t)] = "idle"
          /\ req'[Remote(t)] = [op |-> "friends", at |-> req[t].from, user |-> req[t].friend,
                                friends |-> {}]
BY ThreadFacts DEF Fetch, IInv, TypeOK, Functions

LEMMA RequestedStep == ASSUME IInv, [Next]_vars PROVE Functions' /\ Requested'
<1> USE DEF Goto
<1> USE ThreadFacts
<1>1. ASSUME NEW c \in Client, Connect(c) \/ Hangup(c) PROVE Functions' /\ Requested'
    BY <1>1 DEF Connect, Hangup, IInv, TypeOK, Functions, Requested
<1>2. ASSUME NEW c \in Client, NEW r \in Requests, Send(c, r) PROVE Functions' /\ Requested'
    BY <1>2, ServerAssumption DEF Send, IInv, TypeOK, Functions, Requested
<1>3. ASSUME NEW t \in Thread, P(t) \/ Lookup(t) \/ Gather(t) \/ Add(t) \/ Remove(t)
                               \/ Reciprocate(t) \/ Respond(t) \/ V(t)
      PROVE Functions' /\ Requested'
    BY <1>3 DEF P, Lookup, Gather, Add, Remove, Reciprocate, Respond, V,
                IInv, TypeOK, Functions, Requested
<1>4. ASSUME NEW t \in Thread, Fetch(t) PROVE Functions' /\ Requested'
    BY <1>4 DEF Fetch, IInv, TypeOK, Functions, Requested
<1>5. ASSUME NEW t \in Thread, Close(t) PROVE Functions' /\ Requested'
    <2>1. Functions'
        BY <1>5 DEF Close, IInv, Functions
    <2>2. ASSUME NEW u \in Thread, pc'[u] \notin {"idle", "read"}
          PROVE  pc[u] \notin {"idle", "read"} /\ req'[u] = req[u]
        BY <1>5, <2>2, CloseFacts
    <2> QED
        BY <2>1, <2>2 DEF IInv, Requested
<1>6. CASE UNCHANGED vars
    BY <1>6 DEF vars, IInv, Functions, Requested
<1> QED
    BY <1>1, <1>2, <1>3, <1>4, <1>5, <1>6 DEF Next, Step

LEMMA LockedStep == ASSUME IInv, [Next]_vars PROVE Locked'
<1> USE DEF Goto, Holding
<1> USE ThreadFacts
<1>1. ASSUME NEW c \in Client, Connect(c) \/ Hangup(c) PROVE Locked'
    BY <1>1 DEF Connect, Hangup, IInv, TypeOK, Functions, Locked
<1>2. ASSUME NEW c \in Client, NEW r \in Requests, Send(c, r) PROVE Locked'
    BY <1>2 DEF Send, IInv, TypeOK, Functions, Locked
<1>3. ASSUME NEW t \in Thread, Lookup(t) \/ Gather(t) \/ Add(t) \/ Remove(t)
                               \/ Reciprocate(t) \/ Respond(t)
      PROVE Locked'
    BY <1>3 DEF Lookup, Gather, Add, Remove, Reciprocate, Respond, IInv, TypeOK, Locked
<1>4. ASSUME NEW t \in Thread, P(t) PROVE Locked'
    BY <1>4 DEF P, IInv, TypeOK, Requested, Locked
<1>5. ASSUME NEW t \in Thread, V(t) PROVE Locked'
    BY <1>5 DEF V, IInv, TypeOK, Requested, Locked
<1>6. ASSUME NEW t \in Thread, Fetch(t) PROVE Locked'
    <2>1. ASSUME NEW u \in Thread, pc'[u] \in Holding
          PROVE  pc[u] \in Holding /\ req'[u] = req[u]
        BY <1>6, <2>1, FetchFacts
    <2>2. sem' = sem
        BY <1>6 DEF Fetch
    <2> QED
        BY <2>1, <2>2 DEF IInv, Locked
<1>7. ASSUME NEW t \in Thread, Close(t) PROVE Locked'
    <2>1. ASSUME NEW u \in Thread, pc'[u] \in Holding
          PROVE  pc[u] \in Holding /\ req'[u] = req[u]
        BY <1>7, <2>1, CloseFacts
    <2>2. sem' = sem
        BY <1>7 DEF Close
    <2> QED
        BY <2>1, <2>2 DEF IInv, Locked
<1>8. CASE UNCHANGED vars
    BY <1>8 DEF vars, IInv, Locked
<1> QED
    BY <1>1, <1>2, <1>3, <1>4, <1>5, <1>6, <1>7, <1>8 DEF Next, Step

LEMMA FetchingStep == ASSUME IInv, [Next]_vars PROVE Fetching'
<1> USE DEF Goto
<1> USE ThreadFacts
<1>1. ASSUME NEW c \in Client, Connect(c) \/ Hangup(c) \/ \E r \in Requests : Send(c, r)
      PROVE Fetching'
    <2>1. pc[Own(c)] \in {"idle", "read"}
        BY <1>1 DEF Connect, Hangup, Send
    <2>2. \A u \in Thread : u # Own(c) => pc'[u] = pc[u]
        BY <1>1 DEF Connect, Hangup, Send, IInv, TypeOK
    <2>3. \A d \in Client : /\ pc'[<<d, "remote">>] = pc[<<d, "remote">>]
                            /\ d # c => pc'[<<d, "own">>] = pc[<<d, "own">>]
        <3> TAKE d \in Client
        <3>1. <<d, "remote">> \in Thread /\ <<d, "remote">> # Own(c)
            BY DEF Own
        <3>2. <<d, "own">> \in Thread /\ (d # c => <<d, "own">> # Own(c))
            BY DEF Own
        <3> QED
            BY <3>1, <3>2, <2>2
    <2> SUFFICES ASSUME NEW d \in Client, pc'[<<d, "remote">>] # "idle"
                 PROVE  pc'[<<d, "own">>] = "fetch"
        BY DEF Fetching
    <2>4. pc[<<d, "own">>] = "fetch"
        BY <2>3 DEF IInv, Fetching
    <2>5. d # c
        BY <2>1, <2>4
    <2> QED
        BY <2>3, <2>4, <2>5
<1>2. ASSUME NEW t \in Thread, P(t) \/ Lookup(t) \/ Gather(t) \/ Add(t) \/ Remove(t)
                               \/ Reciprocate(t) \/ Respond(t) \/ V(t)
      PROVE Fetching'
    BY <1>2 DEF P, Lookup, Gather, Add, Remove, Reciprocate, Respond, V, IInv, TypeOK, Fetching
<1>3. ASSUME NEW t \in Thread, Fetch(t) PROVE Fetching'
    <2> SUFFICES ASSUME NEW d \in Client, pc'[<<d, "remote">>] # "idle"
                 PROVE  pc'[<<d, "own">>] = "fetch"
        BY DEF Fetching
    <2> DEFINE own == <<d, "own">>
               remote == <<d, "remote">>
    <2>1. own \in Thread /\ remote \in Thread /\ own # remote
        OBVIOUS
    <2>2. t = own => pc'[own] = "fetch"
        BY <1>3, <2>1, FetchFacts
    <2>3. pc[t] # "fetch"
        BY <1>3, FetchFacts
    <2>4. own # Remote(t)
        OBVIOUS
    <2>5. t # own => remote # Remote(t)
        <3>1. t = <<t[1], "own">>
            <4>1. t = Remote(t) \/ t = <<t[1], "own">> OBVIOUS
            <4> QED BY <4>1, <1>3, FetchFacts
        <3> QED BY <3>1
    <2>6. t = remote => remote = Remote(t)
        OBVIOUS
    <2>7. t # own => pc'[remote] = pc[remote] /\ pc'[own] = pc[own]
        BY <1>3, <2>1, <2>4, <2>5, <2>6, FetchFacts
    <2>8. pc[remote] # "idle" => pc[own] = "fetch"
        BY DEF IInv, Fetching
    <2> QED
        BY <2>2, <2>7, <2>8
<1>4. ASSUME NEW t \in Thread, Close(t) PROVE Fetching'
    <2> SUFFICES ASSUME NEW d \in Client, pc'[<<d, "remote">>] # "idle"
                 PROVE  pc'[<<d, "own">>] = "fetch"
        BY DEF Fetching
    <2> DEFINE own == <<d, "own">>
               remote == <<d, "remote">>
    <2>1. own \in Thread /\ remote \in Thread /\ own # remote
        OBVIOUS
    <2>2. remote # Own(t[1])
        BY DEF Own
    <2>3. t # remote /\ pc[remote] # "idle"
        BY <1>4, <2>1, <2>2, CloseFacts
    <2>4. pc[own] = "fetch"
        BY <2>3 DEF IInv, Fetching
    <2>5. own # t
        BY <1>4, <2>4 DEF Close
    <2>6. own # Own(t[1])
        BY <2>3, <2>5 DEF Own
    <2> QED
        BY <1>4, <2>1, <2>4, <2>5, <2>6, CloseFacts
<1>5. CASE UNCHANGED vars
    BY <1>5 DEF vars, IInv, Fetching
<1> QED
    BY <1>1, <1>2, <1>3, <1>4, <1>5 DEF Next, Step

\* Of the threads at one server at most one has a friendship half done: the
\* one inside.
LEMMA OnlyOne == ASSUME IInv, NEW t \in Thread, pc[t] \in Holding,
                        NEW u \in Thread, half[u] # None, req[u].at = req[t].at
                 PROVE  u = t
BY DEF IInv, HalfDone, Locked, Holding

\* A step that leaves the graphs alone, and the requests of threads that have a
\* friendship half done.
LEMMA GraphUntouched ==
    ASSUME IInv, UNCHANGED <<friends_graph, half>>,
           \A u \in Thread : half[u] # None =>
               req'[u] = req[u] /\ (pc[u] \in {"work", "fetch"} => pc'[u] \in {"work", "fetch"})
    PROVE  HalfDone' /\ AlmostMutual'
<1>1. HalfDone'
    BY DEF IInv, HalfDone, Known
<1>2. \A s, a, b : HalfWay(s, a, b) => HalfWay(s, a, b)'
    BY DEF HalfWay
<1>3. AlmostMutual'
    BY <1>2 DEF IInv, AlmostMutual, Known
<1> QED
    BY <1>1, <1>3

LEMMA UntouchedStep ==
    ASSUME IInv,
           \/ \E c \in Client : Connect(c) \/ Hangup(c) \/ \E r \in Requests : Send(c, r)
           \/ \E t \in Thread : P(t) \/ Lookup(t) \/ Fetch(t) \/ Respond(t) \/ V(t) \/ Close(t)
           \/ UNCHANGED vars
    PROVE  HalfDone' /\ AlmostMutual'
<1> DEFINE Kept(u) == half[u] # None =>
               req'[u] = req[u] /\ (pc[u] \in {"work", "fetch"} => pc'[u] \in {"work", "fetch"})
<1>0. \A u \in Thread : half[u] # None => pc[u] \in {"work", "fetch"}
    BY DEF IInv, HalfDone
<1>1. ASSUME NEW c \in Client, Connect(c) \/ Hangup(c) \/ \E r \in Requests : Send(c, r)
      PROVE  UNCHANGED <<friends_graph, half>> /\ \A u \in Thread : Kept(u)
    BY <1>0, <1>1, ThreadFacts DEF Connect, Hangup, Send, Goto, IInv, TypeOK, Functions
<1>2. ASSUME NEW t \in Thread, P(t) \/ Lookup(t) \/ Respond(t) \/ V(t)
      PROVE  UNCHANGED <<friends_graph, half>> /\ \A u \in Thread : Kept(u)
    BY <1>0, <1>2 DEF P, Lookup, Respond, V, Goto, IInv, TypeOK
<1>3. ASSUME NEW t \in Thread, Fetch(t)
      PROVE  UNCHANGED <<friends_graph, half>> /\ \A u \in Thread : Kept(u)
    <2>1. UNCHANGED <<friends_graph, half>>
        BY <1>3 DEF Fetch
    <2>2. \A u \in Thread : Kept(u)
        BY <1>0, <1>3, FetchFacts
    <2> QED BY <2>1, <2>2
<1>4. ASSUME NEW t \in Thread, Close(t)
      PROVE  UNCHANGED <<friends_graph, half>> /\ \A u \in Thread : Kept(u)
    <2>1. UNCHANGED <<friends_graph, half>> /\ pc[t] = "close"
        BY <1>4 DEF Close
    <2>2. \A u \in Thread : Kept(u)
        BY <1>0, <1>4, <2>1, CloseFacts
    <2> QED BY <2>1, <2>2
<1>5. ASSUME UNCHANGED vars
      PROVE  UNCHANGED <<friends_graph, half>> /\ \A u \in Thread : Kept(u)
    BY <1>5 DEF vars
<1>6. UNCHANGED <<friends_graph, half>> /\ \A u \in Thread : Kept(u)
    BY <1>1, <1>2, <1>3, <1>4, <1>5
<1> QED
    BY <1>6, GraphUntouched

\* What WithUser leaves as it is.
LEMMA WithUserFacts == ASSUME NEW g, NEW user
    PROVE  /\ DOMAIN WithUser(g, user) = DOMAIN g \cup {user}
           /\ Known(WithUser(g, user), user)
           /\ \A n \in DOMAIN g : WithUser(g, user)[n] = g[n]
           /\ user \notin DOMAIN g => WithUser(g, user)[user] = {}
BY DEF WithUser, Known

\* Every friendship of the graph g is mutual.
Mutually(g) == \A a \in DOMAIN g : \A b \in g[a] : b # a /\ Known(g, b) /\ a \in g[b]

\* A user without friends leaves it so.
LEMMA WithUserMutual == ASSUME NEW g, NEW user, Mutually(g) PROVE Mutually(WithUser(g, user))
<1> DEFINE h == WithUser(g, user)
<1>1. /\ DOMAIN h = DOMAIN g \cup {user}
      /\ \A n \in DOMAIN g : h[n] = g[n]
      /\ user \notin DOMAIN g => h[user] = {}
    BY WithUserFacts
<1> HIDE DEF h
<1>2. ASSUME NEW a \in DOMAIN h, NEW b \in h[a] PROVE b # a /\ Known(h, b) /\ a \in h[b]
    <2>1. a \in DOMAIN g /\ h[a] = g[a]
        BY <1>1, <1>2
    <2>2. b # a /\ b \in DOMAIN g /\ a \in g[b]
        BY <1>2, <2>1 DEF Mutually, Known
    <2> QED
        BY <2>2, <1>1 DEF Known
<1>3. Mutually(h)
    BY <1>2 DEF Mutually
<1> QED
    BY <1>3 DEF h

\* Before the thread inside makes half a friendship, all friendships are mutual.
LEMMA MutualInside == ASSUME IInv, NEW t \in Thread, pc[t] \in Holding, half[t] = None,
                             req[t].at \in Server
                      PROVE  Mutually(friends_graph[req[t].at])
<1>1. \A a, b : ~HalfWay(req[t].at, a, b)
    BY OnlyOne DEF HalfWay
<1> QED
    BY <1>1 DEF IInv, AlmostMutual, Mutually

\* A step of thread t that changes the graph of its server to h need show no
\* more than that h is almost mutual: other servers and threads are as they were.
LEMMA OtherServers ==
    ASSUME IInv, NEW t \in Thread, pc[t] \in Holding, NEW h, UNCHANGED req,
           req[t].at \in Server,
           friends_graph'[req[t].at] = h,
           \A s \in Server : s # req[t].at => friends_graph'[s] = friends_graph[s],
           \A u \in Thread : u # t => half'[u] = half[u] /\ pc'[u] = pc[u],
           half'[t] # None => pc'[t] \in {"work", "fetch"} /\ LET user == req[t].user IN
               /\ req[t].op # "unfriend" => /\ half'[t] # user /\ Known(h, half'[t])
                                           /\ Known(h, user) /\ half'[t] \in h[user]
               /\ req[t].op = "unfriend" /\ Known(h, user) => half'[t] \notin h[user],
           \A a \in DOMAIN h : \A b \in h[a] :
               b # a /\ Known(h, b) /\ (a \in h[b] \/ HalfWay(req[t].at, a, b)')
    PROVE  HalfDone' /\ AlmostMutual'
<1> DEFINE at == req[t].at
<1>1. friends_graph'[at] = h /\ \A s \in Server : s # at => friends_graph'[s] = friends_graph[s]
    OBVIOUS
<1>2. \A u \in Thread : u # t /\ half'[u] # None => req[u].at # at
    BY OnlyOne
<1>3. HalfDone'
    <2> SUFFICES ASSUME NEW u \in Thread, half'[u] # None
                 PROVE  LET g == friends_graph'[req[u].at]
                            user == req[u].user IN
                        /\ pc'[u] \in {"work", "fetch"}
                        /\ req[u].op # "unfriend" => /\ half'[u] # user /\ Known(g, half'[u])
                                                    /\ Known(g, user) /\ half'[u] \in g[user]
                        /\ req[u].op = "unfriend" /\ Known(g, user) => half'[u] \notin g[user]
        BY DEF HalfDone, Known
    <2>1. CASE u = t
        BY <2>1, <1>1
    <2>2. CASE u # t
        <3>1. pc'[u] \in {"work", "fetch"} /\ half'[u] = half[u] /\ req[u].at # at
            BY <2>2, <1>2 DEF IInv, HalfDone
        <3>2. req[u].at \in Server
            BY <3>1 DEF IInv, Requested
        <3> QED
            BY <3>1, <3>2, <1>1 DEF IInv, HalfDone
    <2> QED
        BY <2>1, <2>2
<1>4. AlmostMutual'
    <2> SUFFICES ASSUME NEW s \in Server, NEW a \in DOMAIN friends_graph'[s],
                        NEW b \in friends_graph'[s][a]
                 PROVE  b # a /\ Known(friends_graph'[s], b)
                        /\ (a \in friends_graph'[s][b] \/ HalfWay(s, a, b)')
        BY DEF AlmostMutual, Known
    <2>1. CASE s = at
        BY <2>1, <1>1
    <2>2. CASE s # at
        <3>1. HalfWay(s, a, b) => HalfWay(s, a, b)'
            BY <2>2 DEF HalfWay
        <3> QED
            BY <2>2, <3>1, <1>1 DEF IInv, AlmostMutual
    <2> QED
        BY <2>1, <2>2
<1> QED
    BY <1>3, <1>4

LEMMA GatherStep == ASSUME IInv, NEW t \in Thread, Gather(t) PROVE HalfDone' /\ AlmostMutual'
<1> DEFINE r == req[t]
           g == friends_graph[r.at]
           h == friends_graph'[r.at]
<1>1. pc[t] \in Holding /\ half[t] = None /\ r.at \in Server /\ pc[t] = "serve"
    BY DEF Gather, IInv, HalfDone, Requested, Holding
<1>2. Mutually(g)
    BY <1>1, MutualInside
<1>3. h = g \/ h = WithUser(g, r.user)
    BY <1>1 DEF Gather, IInv, TypeOK
<1>4. \A s \in Server : s # r.at => friends_graph'[s] = friends_graph[s]
    BY <1>1 DEF Gather, IInv, TypeOK
<1>5. Mutually(h)
    BY <1>2, <1>3, WithUserMutual
<1>6. half'[t] = None /\ UNCHANGED req
      /\ \A u \in Thread : u # t => half'[u] = half[u] /\ pc'[u] = pc[u]
    BY <1>1 DEF Gather, Goto, IInv, TypeOK
<1> QED
    BY <1>1, <1>4, <1>5, <1>6, OtherServers DEF Mutually

LEMMA AddStep == ASSUME IInv, NEW t \in Thread, Add(t) PROVE HalfDone' /\ AlmostMutual'
<1> DEFINE r == req[t]
<1>1. /\ pc[t] \in Holding /\ half[t] = None /\ r.at \in Server
      /\ pc[t] \in {"work", "fetch"} /\ r.op # "unfriend"
    BY DEF Add, IInv, Requested, Holding
<1>2. Mutually(friends_graph[r.at])
    BY <1>1, MutualInside
<1>3. PICK f \in todo[t] :
        LET g == WithUser(WithUser(friends_graph[r.at], r.user), f) IN
        IF f = r.user
        THEN friends_graph' = [friends_graph EXCEPT ![r.at] = g] /\ UNCHANGED half
        ELSE /\ half' = [half EXCEPT ![t] = f]
             /\ friends_graph' = [friends_graph EXCEPT ![r.at] = [g EXCEPT ![r.user] = @ \cup {f}]]
    BY DEF Add
<1> DEFINE g == WithUser(WithUser(friends_graph[r.at], r.user), f)
<1>4. Mutually(g) /\ Known(g, r.user) /\ Known(g, f)
    <2> DEFINE k == WithUser(friends_graph[r.at], r.user)
    <2>1. Mutually(k) /\ Known(k, r.user)
        BY <1>2, WithUserMutual, WithUserFacts
    <2> HIDE DEF k
    <2> DEFINE l == WithUser(k, f)
    <2>2. Mutually(l) /\ Known(l, f)
        BY <2>1, WithUserMutual, WithUserFacts
    <2>3. DOMAIN l = DOMAIN k \cup {f}
        BY WithUserFacts
    <2> HIDE DEF l
    <2>4. Known(l, r.user)
        BY <2>1, <2>3 DEF Known
    <2> QED
        BY <2>2, <2>4 DEF k, l
<1>5. UNCHANGED <<pc, req>> /\ \A u \in Thread : u # t => half'[u] = half[u]
    BY <1>3 DEF Add, IInv, TypeOK
<1>6. CASE f = r.user
    <2>1. /\ friends_graph'[r.at] = g /\ half'[t] = None
          /\ \A s \in Server : s # r.at => friends_graph'[s] = friends_graph[s]
        BY <1>1, <1>3, <1>6 DEF IInv, TypeOK
    <2> HIDE DEF g
    <2> QED
        BY <1>1, <1>4, <1>5, <2>1, OtherServers DEF Mutually
<1>7. CASE f # r.user
    <2> DEFINE h == [g EXCEPT ![r.user] = @ \cup {f}]
    <2>1. /\ half'[t] = f /\ friends_graph'[r.at] = h
          /\ \A s \in Server : s # r.at => friends_graph'[s] = friends_graph[s]
        BY <1>1, <1>3, <1>7 DEF IInv, TypeOK
    <2>2. f # None
        BY ServerAssumption DEF IInv, TypeOK
    <2>3. /\ DOMAIN h = DOMAIN g /\ h[r.user] = g[r.user] \cup {f}
          /\ \A n \in DOMAIN g : n # r.user => h[n] = g[n]
        BY <1>4 DEF Known, WithUser
    <2>4. HalfWay(r.at, r.user, f)'
        BY <1>1, <1>5, <2>1, <2>2 DEF HalfWay
    <2>5. \A a \in DOMAIN h : \A b \in h[a] :
              b # a /\ Known(h, b) /\ (a \in h[b] \/ HalfWay(r.at, a, b)')
        <3> HIDE DEF g, h
        <3> SUFFICES ASSUME NEW a \in DOMAIN h, NEW b \in h[a]
                     PROVE  b # a /\ Known(h, b) /\ (a \in h[b] \/ HalfWay(r.at, a, b)')
            OBVIOUS
        <3>1. CASE a = r.user /\ b = f
            BY <3>1, <1>4, <1>5, <1>7, <2>3, <2>4 DEF Known, HalfWay
        <3>2. CASE ~(a = r.user /\ b = f)
            <4>1. a \in DOMAIN g /\ b \in g[a]
                BY <3>2, <2>3
            <4> QED
                BY <4>1, <1>4, <2>3 DEF Mutually, Known
        <3> QED
            BY <3>1, <3>2
    <2>6. Known(h, f) /\ Known(h, r.user) /\ f \in h[r.user]
        BY <1>4, <2>3 DEF Known
    <2> HIDE DEF h
    <2> QED
        BY <1>1, <1>5, <1>7, <2>1, <2>5, <2>6, OtherServers
<1> QED
    BY <1>6, <1>7

LEMMA RemoveStep == ASSUME IInv, NEW t \in Thread, Remove(t) PROVE HalfDone' /\ AlmostMutual'
<1> DEFINE r == req[t]
           user == r.user
           g == friends_graph[r.at]
<1>1. /\ pc[t] \in Holding /\ half[t] = None /\ r.at \in Server
      /\ pc[t] \in {"work", "fetch"} /\ r.op = "unfriend"
    BY DEF Remove, IInv, Requested, Holding
<1>2. Mutually(g)
    BY <1>1, MutualInside
<1>3. PICK f \in todo[t] :
        IF ~Known(g, f)
        THEN UNCHANGED <<half, friends_graph>>
        ELSE /\ half' = [half EXCEPT ![t] = f]
             /\ friends_graph' = [friends_graph EXCEPT ![r.at][user] = @ \ {f}]
    BY DEF Remove
<1>4. UNCHANGED <<pc, req>> /\ \A u \in Thread : u # t => half'[u] = half[u]
    BY <1>3 DEF Remove, IInv, TypeOK
<1>5. CASE ~Known(g, f)
    BY <1>3, <1>4, <1>5, GraphUntouched
<1>6. CASE Known(g, f)
    <2> DEFINE h == [g EXCEPT ![user] = @ \ {f}]
    <2>1. /\ half'[t] = f /\ friends_graph'[r.at] = h
          /\ \A s \in Server : s # r.at => friends_graph'[s] = friends_graph[s]
        BY <1>1, <1>3, <1>6 DEF IInv, TypeOK
    <2>2. f # None
        BY ServerAssumption DEF IInv, TypeOK
    <2>3. /\ DOMAIN h = DOMAIN g
          /\ Known(g, user) => h[user] = g[user] \ {f}
          /\ \A n \in DOMAIN g : n # user => h[n] = g[n]
        BY DEF Known
    <2> HIDE DEF h, g
    <2>4. ASSUME NEW a \in DOMAIN h, NEW b \in h[a]
          PROVE  b # a /\ Known(h, b) /\ (a \in h[b] \/ HalfWay(r.at, a, b)')
        <3>1. b \in g[a] /\ b # a /\ b \in DOMAIN g /\ a \in g[b]
            BY <1>2, <2>3, <2>4 DEF Mutually, Known
        <3>2. CASE a = f /\ b = user
            BY <3>1, <3>2, <1>1, <1>4, <2>1, <2>2, <2>3 DEF Known, HalfWay
        <3>3. CASE ~(a = f /\ b = user)
            BY <3>1, <3>3, <2>3 DEF Known
        <3> QED
            BY <3>2, <3>3
    <2>5. Known(h, user) => f \notin h[user]
        BY <2>3 DEF Known
    <2> QED
        BY <1>1, <1>4, <2>1, <2>4, <2>5, OtherServers
<1> QED
    BY <1>5, <1>6

LEMMA ReciprocateStep ==
    ASSUME IInv, NEW t \in Thread, Reciprocate(t) PROVE HalfDone' /\ AlmostMutual'
<1> DEFINE r == req[t]
           user == r.user
           f == half[t]
           g == friends_graph[r.at]
           h == [g EXCEPT ![f] = IF r.op = "unfriend" THEN @ \ {user} ELSE @ \cup {user}]
<1>1. pc[t] \in Holding /\ f # None /\ r.at \in Server
    BY DEF Reciprocate, IInv, HalfDone, Requested, Holding
<1>2. /\ r.op # "unfriend" => f # user /\ Known(g, f) /\ Known(g, user) /\ f \in g[user]
      /\ r.op = "unfriend" /\ Known(g, user) => f \notin g[user]
    BY <1>1 DEF IInv, HalfDone
<1>3. /\ friends_graph'[r.at] = h /\ half'[t] = None
      /\ \A s \in Server : s # r.at => friends_graph'[s] = friends_graph[s]
      /\ \A u \in Thread : u # t => half'[u] = half[u]
      /\ UNCHANGED <<pc, req>>
    BY <1>1 DEF Reciprocate, IInv, TypeOK
<1>4. \A a \in DOMAIN g : \A b \in g[a] :
        /\ b # a /\ b \in DOMAIN g
        /\ a \in g[b] \/ IF r.op = "unfriend" THEN a = f /\ b = user ELSE a = user /\ b = f
    BY <1>1, OnlyOne DEF IInv, AlmostMutual, Known, HalfWay
<1>5. /\ DOMAIN h = DOMAIN g
      /\ Known(g, f) => h[f] = IF r.op = "unfriend" THEN g[f] \ {user} ELSE g[f] \cup {user}
      /\ \A n \in DOMAIN g : n # f => h[n] = g[n]
    BY DEF Known
<1> HIDE DEF h, g
<1>6. ASSUME NEW a \in DOMAIN h, NEW b \in h[a]
      PROVE  b # a /\ Known(h, b) /\ a \in h[b]
    <2>1. CASE r.op = "unfriend"
        <3>1. b \in g[a] /\ ~(a = f /\ b = user) /\ ~(a = user /\ b = f)
            BY <1>2, <1>5, <1>6, <2>1 DEF Known
        <3> QED
            BY <3>1, <2>1, <1>4, <1>5 DEF Known
    <2>2. CASE r.op # "unfriend"
        <3>1. CASE a = f /\ b = user
            BY <3>1, <2>2, <1>2, <1>5 DEF Known
        <3>2. CASE ~(a = f /\ b = user)
            <4>1. b \in g[a]
                BY <3>2, <2>2, <1>5, <1>6 DEF Known
            <4> QED
                BY <4>1, <2>2, <1>2, <1>4, <1>5 DEF Known
        <3> QED
            BY <3>1, <3>2
    <2> QED
        BY <2>1, <2>2
<1> QED
    BY <1>1, <1>3, <1>6, OtherServers

\* The graph of a server has users for keys, and sets of users for values.
Typed(g) == DOMAIN g \subseteq Name /\ \A n \in DOMAIN g : g[n] \subseteq Name

LEMMA WithUserTyped == ASSUME NEW g, Typed(g), NEW user \in Name
    PROVE Typed(WithUser(g, user)) /\ DOMAIN WithUser(g, user) = DOMAIN g \cup {user}
BY DEF Typed, WithUser, Known

GraphTyped == DOMAIN friends_graph = Server /\ \A s \in Server : Typed(friends_graph[s])

OtherTypes ==
    /\ sem \in [Server -> {0, 1}]
    /\ pc \in [Thread -> {"idle", "read", "P", "serve", "fetch", "work", "V", "close"}]
    /\ todo \in [Thread -> SUBSET Name] /\ body \in [Thread -> SUBSET Name]
    /\ half \in [Thread -> Name \cup {None}]
    /\ asked \in 0 .. MaxRequests

LEMMA TypeParts == TypeOK <=> GraphTyped /\ OtherTypes
BY DEF TypeOK, GraphTyped, OtherTypes, Typed

\* An answer names users.
LEMMA ResponseTyped == ASSUME NEW g, Typed(g), NEW user
    PROVE get_friends_response(g, user) \subseteq Name
BY DEF Typed, get_friends_response, Known

LEMMA TypeStep == ASSUME IInv, [Next]_vars PROVE GraphTyped' /\ OtherTypes'
<1> USE DEF Goto
<1>0. GraphTyped /\ OtherTypes
    BY TypeParts DEF IInv
<1>1. ASSUME NEW c \in Client, Connect(c) \/ Hangup(c) \/ \E r \in Requests : Send(c, r)
      PROVE  GraphTyped' /\ OtherTypes'
    <2>1. UNCHANGED <<friends_graph, sem, todo, body, half>>
        BY <1>1 DEF Connect, Hangup, Send
    <2>2. asked' \in 0 .. MaxRequests
        BY <1>0, <1>1, ServerAssumption DEF Connect, Hangup, Send, OtherTypes
    <2>3. pc' \in [Thread -> {"idle", "read", "P", "serve", "fetch", "work", "V", "close"}]
        BY <1>0, <1>1, ThreadFacts DEF Connect, Hangup, Send, OtherTypes
    <2> QED
        BY <1>0, <2>1, <2>2, <2>3 DEF GraphTyped, OtherTypes, Typed
<1>2. ASSUME NEW t \in Thread, P(t) \/ V(t) PROVE GraphTyped' /\ OtherTypes'
    <2>1. UNCHANGED <<friends_graph, todo, body, half, asked>>
        BY <1>2 DEF P, V
    <2>2. req[t].at \in Server
        BY <1>2 DEF P, V, IInv, Requested
    <2>3. sem' \in [Server -> {0, 1}]
        BY <1>0, <1>2, <2>2 DEF P, V, IInv, Locked, Holding, OtherTypes
    <2>4. pc' \in [Thread -> {"idle", "read", "P", "serve", "fetch", "work", "V", "close"}]
        BY <1>0, <1>2 DEF P, V, OtherTypes
    <2> QED
        BY <1>0, <2>1, <2>3, <2>4 DEF GraphTyped, OtherTypes, Typed
<1>3. ASSUME NEW t \in Thread, Lookup(t) PROVE GraphTyped' /\ OtherTypes'
    <2>1. req[t].friends \subseteq Name
        BY <1>3 DEF Lookup, IInv, Requested
    <2> QED
        BY <1>0, <1>3, <2>1 DEF Lookup, GraphTyped, OtherTypes, Typed
<1>4. ASSUME NEW t \in Thread, Fetch(t) PROVE GraphTyped' /\ OtherTypes'
    BY <1>0, <1>4, ThreadFacts DEF Fetch, GraphTyped, OtherTypes, Typed
<1>5. ASSUME NEW t \in Thread, Respond(t) PROVE GraphTyped' /\ OtherTypes'
    <2>1. req[t].at \in Server
        BY <1>5 DEF Respond, IInv, Requested
    <2>2. get_friends_response(friends_graph[req[t].at], req[t].user) \subseteq Name
        BY <1>0, <2>1, ResponseTyped DEF GraphTyped
    <2> QED
        BY <1>0, <1>5, <2>2, ThreadFacts DEF Respond, GraphTyped, OtherTypes, Typed
<1>6. ASSUME NEW t \in Thread, Close(t) PROVE GraphTyped' /\ OtherTypes'
    BY <1>0, <1>6, ThreadFacts DEF Close, GraphTyped, OtherTypes, Typed
<1>7. CASE UNCHANGED vars
    BY <1>0, <1>7 DEF vars, GraphTyped, OtherTypes, Typed
<1>8. ASSUME NEW t \in Thread, Gather(t) \/ Add(t) \/ Remove(t) \/ Reciprocate(t)
      PROVE  GraphTyped' /\ OtherTypes'
    <2> DEFINE r == req[t]
               g == friends_graph[r.at]
               h == friends_graph'[r.at]
    <2>1. /\ r.at \in Server /\ r.user \in Name /\ r.friends \subseteq Name
          /\ r.op = "introduce" => r.friend \in Name
        BY <1>8 DEF Gather, Add, Remove, Reciprocate, IInv, Requested, HalfDone
    <2>2. Typed(g)
        BY <1>0, <2>1 DEF GraphTyped
    <2>3. /\ UNCHANGED <<sem, body, asked>> /\ DOMAIN friends_graph' = Server
          /\ \A s \in Server : s # r.at => friends_graph'[s] = friends_graph[s]
        BY <1>0, <1>8 DEF Gather, Add, Remove, Reciprocate, GraphTyped
    <2>4. pc' \in [Thread -> {"idle", "read", "P", "serve", "fetch", "work", "V", "close"}]
        BY <1>0, <1>8 DEF Gather, Add, Remove, Reciprocate, OtherTypes
    <2>5. half' \in [Thread -> Name \cup {None}]
        <3>1. ASSUME Gather(t) PROVE half' \in [Thread -> Name \cup {None}]
            BY <1>0, <3>1 DEF Gather, OtherTypes
        <3>2. ASSUME NEW f \in todo[t], half' \in {half, [half EXCEPT ![t] = f]}
              PROVE  half' \in [Thread -> Name \cup {None}]
            BY <1>0, <3>2 DEF OtherTypes
        <3>3. ASSUME Add(t) \/ Remove(t) PROVE \E f \in todo[t] : half' \in {half, [half EXCEPT ![t] = f]}
            BY <3>3 DEF Add, Remove
        <3>4. ASSUME Reciprocate(t) PROVE half' \in [Thread -> Name \cup {None}]
            BY <1>0, <3>4 DEF Reciprocate, OtherTypes
        <3> QED
            BY <1>8, <3>1, <3>2, <3>3, <3>4
    <2>6. ASSUME Gather(t) PROVE todo' \in [Thread -> SUBSET Name] /\ Typed(h)
        <3>1. r.op = "introduce" /\ Known(g, r.friend) => g[r.friend] \cup {r.friend} \subseteq Name
            BY <2>1, <2>2 DEF Typed, Known
        <3>2. todo' \in [Thread -> SUBSET Name]
            BY <1>0, <2>1, <2>6, <3>1 DEF Gather, OtherTypes
        <3>3. h = g \/ h = WithUser(g, r.user)
            BY <1>0, <2>1, <2>6 DEF Gather, GraphTyped
        <3> QED
            BY <2>1, <2>2, <3>2, <3>3, WithUserTyped
    <2>7. ASSUME Add(t) \/ Remove(t) \/ Reciprocate(t) PROVE todo' \in [Thread -> SUBSET Name]
        <3>1. \E f : todo' \in {todo, [todo EXCEPT ![t] = @ \ {f}]}
            BY <2>7 DEF Add, Remove, Reciprocate
        <3> QED
            BY <1>0, <3>1 DEF OtherTypes
    <2>8. ASSUME Add(t) PROVE Typed(h)
        <3>1. PICK f \in todo[t] : LET k == WithUser(WithUser(g, r.user), f) IN
                  h = k \/ h = [k EXCEPT ![r.user] = @ \cup {f}]
            BY <1>0, <2>1, <2>8 DEF Add, GraphTyped
        <3>2. f \in Name
            BY <1>0, <3>1 DEF OtherTypes
        <3> DEFINE k == WithUser(WithUser(g, r.user), f)
        <3>3. Typed(k)
            BY <2>1, <2>2, <3>2, WithUserTyped
        <3>4. h = k \/ h = [k EXCEPT ![r.user] = @ \cup {f}]
            BY <3>1
        <3> HIDE DEF k, h
        <3> QED
            BY <3>2, <3>3, <3>4 DEF Typed
    <2>9. ASSUME Remove(t) PROVE Typed(h)
        <3>1. PICK f \in todo[t] : h = g \/ h = [g EXCEPT ![r.user] = @ \ {f}]
            BY <1>0, <2>1, <2>9 DEF Remove, GraphTyped
        <3> HIDE DEF g, h
        <3> QED
            BY <2>2, <3>1 DEF Typed
    <2>10. ASSUME Reciprocate(t) PROVE Typed(h)
        <3>1. h = [g EXCEPT ![half[t]] =
                      IF r.op = "unfriend" THEN @ \ {r.user} ELSE @ \cup {r.user}]
            BY <1>0, <2>1, <2>10 DEF Reciprocate, GraphTyped
        <3> HIDE DEF g, h
        <3> QED
            BY <2>1, <2>2, <3>1 DEF Typed
    <2>11. Typed(h) /\ todo' \in [Thread -> SUBSET Name]
        BY <1>8, <2>6, <2>7, <2>8, <2>9, <2>10
    <2> QED
        BY <1>0, <2>3, <2>4, <2>5, <2>11 DEF GraphTyped, OtherTypes, Typed
<1> QED
    BY <1>1, <1>2, <1>3, <1>4, <1>5, <1>6, <1>7, <1>8 DEF Next, Step

LEMMA IInvStep == IInv /\ [Next]_vars => IInv'
<1> SUFFICES ASSUME IInv, [Next]_vars PROVE IInv'
    OBVIOUS
<1>1. TypeOK'
    BY TypeStep, TypeParts DEF TypeOK, GraphTyped, OtherTypes, Typed
<1>2. HalfDone' /\ AlmostMutual'
    BY UntouchedStep, GatherStep, AddStep, RemoveStep, ReciprocateStep DEF Next, Step
<1> QED
    BY <1>1, <1>2, RequestedStep, LockedStep, FetchingStep DEF IInv

\* Type correctness; with it, that every semaphore is 0 or 1: none is posted
\* that was not taken.
THEOREM TypeCorrect == Spec => []TypeOK
<1>1. IInv => TypeOK
    BY DEF IInv
<1> QED
    BY <1>1, InitIInv, IInvStep, PTL DEF Spec

\* At most one thread is inside the semaphore of a server, and only while it is
\* taken: the whole of a request is served under it, an introduction included.
THEOREM MutualExclusion == Spec => []Locked
<1>1. IInv => Locked
    BY DEF IInv
<1> QED
    BY <1>1, InitIInv, IInvStep, PTL DEF Spec

\* Friendship is mutual at a server whose semaphore is free, whatever requests
\* threads have served there and in whatever order.
THEOREM MutualCorrect == Spec => []MutualWhenFree
BY Sufficient, InitIInv, IInvStep, PTL DEF Spec

-----------------------------------------------------------------------------
(* The refinement: the servers serve each request as FriendGraph does, at  *)
(* one instant.                                                            *)

\* A client's thread has a request from the time it is read until it is answered.
Asking ==
    /\ \A t \in Thread : pc[t] \in {"idle", "read"} => req[t] = None
    /\ \A c \in Client : pc[<<c, "own">>] \notin {"idle", "read"} => req[<<c, "own">>] \in Requests

\* What a thread has to do, it has only inside, and one that serves another
\* server has nothing; what half is done is still to do.
Tasks ==
    /\ \A t \in Thread : /\ pc[t] \notin {"work", "fetch"} => todo[t] = {}
                         /\ half[t] # None => half[t] \in todo[t]
                         /\ todo[t] # {} /\ req[t].op = "unfriend" =>
                                Known(friends_graph[req[t].at], req[t].user)
    /\ \A c \in Client :
        /\ todo[<<c, "remote">>] = {}
        /\ pc[<<c, "own">>] = "fetch" /\ pc[<<c, "remote">>] \notin {"V", "close"} =>
               todo[<<c, "own">>] = {}

\* An introduction that waits, and what it has asked the other server.
Relayed == \A c \in Client : LET r == req[<<c, "own">>] IN
    /\ pc[<<c, "own">>] = "fetch" => r.op = "introduce" /\ r.from # r.at
    /\ pc[<<c, "remote">>] # "idle" => req[<<c, "remote">>] =
           [op |-> "friends", at |-> r.from, user |-> r.friend, friends |-> {}]

\* Graphs are functions.
Graphs == \A s \in Server :
    friends_graph[s] = [n \in DOMAIN friends_graph[s] |-> friends_graph[s][n]]

RInv == IInv /\ Asking /\ Tasks /\ Relayed /\ Graphs

\* All steps but two move one thread, within the request it has.
LEMMA Moves == ASSUME IInv, NEW t \in Thread,
                      P(t) \/ Lookup(t) \/ Gather(t) \/ Add(t) \/ Remove(t)
                           \/ Reciprocate(t) \/ Respond(t) \/ V(t)
    PROVE /\ UNCHANGED req
          /\ \A u \in Thread : u # t => pc'[u] = pc[u]
          /\ {pc[t], pc'[t]} \subseteq {"P", "serve", "fetch", "work", "V", "close"}
<1>1. pc \in [Thread -> {"idle", "read", "P", "serve", "fetch", "work", "V", "close"}]
    BY DEF IInv, TypeOK
<1>2. CASE Reciprocate(t)
    <2>1. UNCHANGED <<pc, req>> /\ half[t] # None
        BY <1>2 DEF Reciprocate
    <2>2. pc[t] \in {"work", "fetch"}
        BY <2>1 DEF IInv, HalfDone
    <2> QED
        BY <2>1, <2>2
<1>3. CASE P(t) \/ Lookup(t) \/ Gather(t) \/ Respond(t) \/ V(t)
    BY <1>1, <1>3 DEF P, Lookup, Gather, Respond, V, Goto
<1>4. CASE Add(t) \/ Remove(t)
    BY <1>1, <1>4 DEF Add, Remove
<1> QED
    BY <1>2, <1>3, <1>4

LEMMA AskingStep == ASSUME RInv, [Next]_vars PROVE Asking'
<1> USE DEF Goto
<1> USE ThreadFacts
<1> DEFINE Kept(u) == /\ pc'[u] \in {"idle", "read"} => req'[u] = None
                      /\ u[2] = "own" /\ pc'[u] \notin {"idle", "read"} => req'[u] \in Requests
<1>0. \A u \in Thread : /\ pc[u] \in {"idle", "read"} => req[u] = None
                        /\ u[2] = "own" /\ pc[u] \notin {"idle", "read"} => req[u] \in Requests
    <2> SUFFICES ASSUME NEW u \in Thread, u[2] = "own", pc[u] \notin {"idle", "read"}
                 PROVE  req[u] \in Requests
        BY DEF RInv, Asking
    <2>1. u = <<u[1], "own">> /\ u[1] \in Client
        OBVIOUS
    <2> QED
        BY <2>1 DEF RInv, Asking
<1>1. ASSUME NEW c \in Client, Connect(c) \/ Hangup(c), NEW u \in Thread PROVE Kept(u)
    BY <1>0, <1>1 DEF Connect, Hangup, RInv, IInv, TypeOK
<1>2. ASSUME NEW c \in Client, NEW r \in Requests, Send(c, r), NEW u \in Thread PROVE Kept(u)
    BY <1>0, <1>2 DEF Send, RInv, IInv, TypeOK, Functions
<1>3. ASSUME NEW t \in Thread, NEW u \in Thread,
             P(t) \/ Lookup(t) \/ Gather(t) \/ Add(t) \/ Remove(t)
                  \/ Reciprocate(t) \/ Respond(t) \/ V(t)
      PROVE Kept(u)
    BY <1>0, <1>3, Moves DEF RInv
<1>4. ASSUME NEW t \in Thread, Fetch(t), NEW u \in Thread PROVE Kept(u)
    <2>1. u = Remote(t) => u[2] # "own"
        OBVIOUS
    <2> QED
        BY <1>0, <1>4, <2>1, FetchFacts DEF RInv
<1>5. ASSUME NEW t \in Thread, Close(t), NEW u \in Thread PROVE Kept(u)
    BY <1>0, <1>5, CloseFacts DEF RInv
<1>6. ASSUME UNCHANGED vars, NEW u \in Thread PROVE Kept(u)
    BY <1>0, <1>6 DEF vars
<1>7. \A u \in Thread : Kept(u)
    BY <1>1, <1>2, <1>3, <1>4, <1>5, <1>6 DEF Next, Step
<1>8. \A c \in Client : <<c, "own">>[2] = "own"
    OBVIOUS
<1> QED
    BY <1>7, <1>8 DEF Asking

LEMMA GraphsStep == ASSUME RInv, [Next]_vars PROVE Graphs'
<1> DEFINE IsFcn(g) == g = [n \in DOMAIN g |-> g[n]]
<1>0. \A s \in Server : IsFcn(friends_graph[s])
    BY DEF RInv, Graphs
<1>1. ASSUME NEW t \in Thread, req[t].at \in Server,
             DOMAIN friends_graph' = Server,
             \A s \in Server : s # req[t].at => friends_graph'[s] = friends_graph[s],
             IsFcn(friends_graph'[req[t].at])
      PROVE  Graphs'
    BY <1>0, <1>1 DEF Graphs
<1>2. ASSUME UNCHANGED friends_graph PROVE Graphs'
    BY <1>0, <1>2 DEF Graphs
<1>3. ASSUME NEW t \in Thread, Gather(t) \/ Add(t) \/ Remove(t) \/ Reciprocate(t)
      PROVE  Graphs'
    <2> DEFINE g == friends_graph[req[t].at]
    <2>1. req[t].at \in Server /\ DOMAIN friends_graph = Server /\ IsFcn(g)
        BY <1>0, <1>3 DEF Gather, Add, Remove, Reciprocate, RInv, IInv, TypeOK, Requested, HalfDone
    <2>2. \E h : IsFcn(h) /\ (friends_graph' = friends_graph \/ friends_graph' = [friends_graph EXCEPT ![req[t].at] = h])
        <3>1. ASSUME Gather(t) PROVE friends_graph' = friends_graph
                    \/ friends_graph' = [friends_graph EXCEPT ![req[t].at] = WithUser(g, req[t].user)]
            BY <3>1 DEF Gather
        <3>2. \A user : IsFcn(WithUser(g, user)) /\ \A f : IsFcn(WithUser(WithUser(g, user), f))
            BY DEF WithUser
        <3>3. \A h, user, names : IsFcn([h EXCEPT ![user] = names])
            OBVIOUS
        <3>4. ASSUME Add(t) PROVE \E f : LET k == WithUser(WithUser(g, req[t].user), f) IN
                    \/ friends_graph' = [friends_graph EXCEPT ![req[t].at] = k]
                    \/ friends_graph' = [friends_graph EXCEPT ![req[t].at] =
                                                 [k EXCEPT ![req[t].user] = @ \cup {f}]]
            BY <3>4 DEF Add
        <3>5. ASSUME Remove(t) PROVE \E user, names : friends_graph' = friends_graph
                    \/ friends_graph' = [friends_graph EXCEPT ![req[t].at] = [g EXCEPT ![user] = names]]
            BY <3>5 DEF Remove
        <3>6. ASSUME Reciprocate(t) PROVE \E user, names :
                    friends_graph' = [friends_graph EXCEPT ![req[t].at] = [g EXCEPT ![user] = names]]
            BY <3>6 DEF Reciprocate
        <3> HIDE DEF IsFcn, g
        <3> QED
            BY <1>3, <2>1, <3>1, <3>2, <3>3, <3>4, <3>5, <3>6
    <2> HIDE DEF IsFcn
    <2> QED
        BY <1>1, <1>2, <2>1, <2>2
<1> QED
    BY <1>2, <1>3 DEF Next, Step, Connect, Hangup, Send, P, Lookup, Fetch, Respond, V, Close, vars

LEMMA RelayedStep == ASSUME RInv, [Next]_vars PROVE Relayed'
<1> USE DEF Goto
<1> USE ThreadFacts
<1> SUFFICES ASSUME NEW c \in Client
             PROVE  LET r == req'[<<c, "own">>] IN
                    /\ pc'[<<c, "own">>] = "fetch" => r.op = "introduce" /\ r.from # r.at
                    /\ pc'[<<c, "remote">>] # "idle" => req'[<<c, "remote">>] =
                           [op |-> "friends", at |-> r.from, user |-> r.friend, friends |-> {}]
    BY DEF Relayed
<1> DEFINE own == <<c, "own">>
           remote == <<c, "remote">>
           r == req[own]
<1>0. /\ own \in Thread /\ remote \in Thread /\ own # remote
      /\ pc[own] = "fetch" => r.op = "introduce" /\ r.from # r.at
      /\ pc[remote] # "idle" => pc[own] = "fetch" /\ req[remote] =
             [op |-> "friends", at |-> r.from, user |-> r.friend, friends |-> {}]
    BY DEF RInv, IInv, Relayed, Fetching
<1>1. ASSUME NEW d \in Client, Connect(d) \/ Hangup(d) \/ \E q \in Requests : Send(d, q)
      PROVE  /\ pc[Own(d)] \in {"idle", "read"} /\ pc'[Own(d)] # "fetch"
             /\ \A u \in Thread : u # Own(d) => pc'[u] = pc[u] /\ req'[u] = req[u]
    BY <1>1 DEF Connect, Hangup, Send, RInv, IInv, TypeOK, Functions
<1>2. ASSUME NEW d \in Client, Connect(d) \/ Hangup(d) \/ \E q \in Requests : Send(d, q),
             own = Own(d)
      PROVE  pc'[remote] = "idle" /\ pc'[own] # "fetch"
    BY <1>0, <1>1, <1>2
<1>3. ASSUME NEW t \in Thread, P(t) \/ Lookup(t) \/ Gather(t) \/ Add(t) \/ Remove(t)
                               \/ Reciprocate(t) \/ Respond(t) \/ V(t)
      PROVE  /\ UNCHANGED req
             /\ pc'[own] = "fetch" => pc[own] = "fetch"
             /\ pc'[remote] # "idle" => pc[remote] # "idle"
    <2>1. \A u \in Thread : pc'[u] = "fetch" => pc[u] = "fetch"
        BY <1>3, Moves DEF P, Lookup, Gather, Add, Remove, Reciprocate, Respond, V,
                           RInv, IInv, TypeOK
    <2> QED
        BY <1>0, <1>3, <2>1, Moves DEF RInv
<1>4. ASSUME NEW t \in Thread, Fetch(t), t = own
      PROVE  /\ r.op = "introduce" /\ r.from # r.at /\ req'[own] = r
             /\ req'[remote] = [op |-> "friends", at |-> r.from, user |-> r.friend, friends |-> {}]
    <2>1. own # Remote(t) /\ remote = Remote(t)
        BY <1>4
    <2>2. r.op = "introduce" /\ r.from # r.at
        BY <1>4 DEF Fetch
    <2>3. req'[own] = r /\ req'[Remote(t)] =
              [op |-> "friends", at |-> req[t].from, user |-> req[t].friend, friends |-> {}]
        BY <1>0, <1>4, <2>1, FetchFacts DEF RInv
    <2> QED
        BY <1>4, <2>1, <2>2, <2>3
<1>5. ASSUME NEW t \in Thread, Fetch(t), t # own
      PROVE  pc'[own] = pc[own] /\ req'[own] = req[own] /\ pc'[remote] = pc[remote] /\ req'[remote] = req[remote]
    <2>1. t # Remote(t)
        BY <1>5, FetchFacts DEF RInv
    <2>2. own # Remote(t) /\ remote # Remote(t) /\ remote # t
        BY <1>5, <2>1
    <2>3. \A u \in Thread : u # t /\ u # Remote(t) => pc'[u] = pc[u] /\ req'[u] = req[u]
        BY <1>5, FetchFacts DEF RInv
    <2> QED
        BY <1>0, <1>5, <2>2, <2>3
<1>6. ASSUME NEW t \in Thread, Close(t)
      PROVE  /\ pc'[own] = "fetch" => pc[own] = "fetch" /\ req'[own] = req[own]
             /\ pc'[remote] # "idle" =>
                    pc[remote] # "idle" /\ req'[remote] = req[remote] /\ req'[own] = req[own]
    <2>1. remote # Own(t[1])
        BY DEF Own
    <2>2. pc[t] = "close"
        BY <1>6 DEF Close
    <2> QED
        BY <1>0, <1>6, <2>1, <2>2, CloseFacts DEF RInv
<1>7. CASE UNCHANGED vars
    BY <1>0, <1>7 DEF vars
<1>8. ASSUME NEW d \in Client, Connect(d) \/ Hangup(d) \/ \E q \in Requests : Send(d, q),
             own # Own(d)
      PROVE  pc'[own] = pc[own] /\ req'[own] = req[own] /\ pc'[remote] = pc[remote] /\ req'[remote] = req[remote]
    <2>1. remote # Own(d)
        BY DEF Own
    <2> QED
        BY <1>0, <1>1, <1>8, <2>1
<1>9. CASE \E d \in Client : Connect(d) \/ Hangup(d) \/ \E q \in Requests : Send(d, q)
    BY <1>0, <1>2, <1>8, <1>9
<1>10. CASE \E t \in Thread : P(t) \/ Lookup(t) \/ Gather(t) \/ Add(t) \/ Remove(t)
                               \/ Reciprocate(t) \/ Respond(t) \/ V(t)
    BY <1>0, <1>3, <1>10
<1>11. CASE \E t \in Thread : Fetch(t)
    BY <1>0, <1>4, <1>5, <1>11
<1>12. CASE \E t \in Thread : Close(t)
    BY <1>0, <1>6, <1>12
<1> QED
    BY <1>7, <1>9, <1>10, <1>11, <1>12 DEF Next, Step

\* What another server is asked, and who waits for its answer.
LEMMA RemoteFacts == ASSUME RInv, NEW c \in Client, pc[<<c, "remote">>] # "idle"
    PROVE LET r == req[<<c, "own">>]
              q == req[<<c, "remote">>] IN
          /\ pc[<<c, "own">>] = "fetch" /\ r.op = "introduce" /\ r.from # r.at
          /\ q.op = "friends" /\ q.at = r.from /\ q.user = r.friend
<1>1. pc[<<c, "own">>] = "fetch"
    BY DEF RInv, IInv, Fetching
<1>2. req[<<c, "remote">>] = [op |-> "friends", at |-> req[<<c, "own">>].from,
                            user |-> req[<<c, "own">>].friend, friends |-> {}]
    BY DEF RInv, Relayed
<1>3. req[<<c, "own">>].op = "introduce" /\ req[<<c, "own">>].from # req[<<c, "own">>].at
    BY <1>1 DEF RInv, Relayed
<1> QED
    BY <1>1, <1>2, <1>3

\* What a thread serves for another server is a question and no more.
LEMMA OnlyOwn == ASSUME RInv, NEW t \in Thread,
                        Gather(t) \/ Fetch(t) \/ Add(t) \/ Remove(t) \/ Reciprocate(t)
                 PROVE  t = Own(t[1]) /\ t = <<t[1], "own">>
<1>1. t = <<t[1], "own">> \/ t = <<t[1], "remote">>
    BY ThreadFacts
<1>2. ASSUME t = <<t[1], "remote">> PROVE FALSE
    <2>1. t[1] \in Client /\ todo[t] = {} /\ half[t] = None
        BY <1>2, ThreadFacts DEF RInv, Tasks
    <2>2. Gather(t) \/ Fetch(t)
        BY <2>1 DEF Add, Remove, Reciprocate
    <2>3. pc[t] = "serve" /\ req[t].op \in {"befriend", "introduce"}
        BY <2>2 DEF Gather, Fetch
    <2>4. req[t].op = "friends"
        BY <1>2, <2>1, <2>3, RemoteFacts
    <2> QED
        BY <2>3, <2>4
<1> QED
    BY <1>1, <1>2 DEF Own

\* Users that are known stay known.
LEMMA UsersStay == ASSUME RInv, [Next]_vars, NEW s \in Server
                   PROVE  DOMAIN friends_graph[s] \subseteq DOMAIN friends_graph'[s]
<1>1. DOMAIN friends_graph = Server
    BY DEF RInv, IInv, TypeOK
<1>2. \A h : [friends_graph EXCEPT ![s] = h][s] = h
    BY <1>1
<1>3. ASSUME NEW t \in Thread, Gather(t)
      PROVE  DOMAIN friends_graph[s] \subseteq DOMAIN friends_graph'[s]
    BY <1>1, <1>3 DEF Gather, WithUser
<1>4. ASSUME NEW t \in Thread, Add(t)
      PROVE  DOMAIN friends_graph[s] \subseteq DOMAIN friends_graph'[s]
    BY <1>1, <1>4 DEF Add, WithUser
<1>5. ASSUME NEW t \in Thread, Remove(t) \/ Reciprocate(t)
      PROVE  DOMAIN friends_graph[s] \subseteq DOMAIN friends_graph'[s]
    BY <1>1, <1>5 DEF Remove, Reciprocate
<1> QED
    BY <1>3, <1>4, <1>5 DEF Next, Step, Connect, Hangup, Send, P, Lookup, Fetch, Respond, V, Close, vars

LEMMA TasksStep == ASSUME RInv, [Next]_vars PROVE Tasks'
<1> USE DEF Goto
<1> USE ThreadFacts
<1> DEFINE Own1(u) == /\ pc'[u] \notin {"work", "fetch"} => todo'[u] = {}
                      /\ half'[u] # None => half'[u] \in todo'[u]
                      /\ todo'[u] # {} /\ req'[u].op = "unfriend" =>
                             Known(friends_graph'[req'[u].at], req'[u].user)
           Pair(o, q) == /\ todo'[q] = {}
                         /\ pc'[o] = "fetch" /\ pc'[q] \notin {"V", "close"} => todo'[o] = {}
<1>0. /\ \A u \in Thread : /\ pc[u] \notin {"work", "fetch"} => todo[u] = {}
                           /\ half[u] # None => half[u] \in todo[u]
                           /\ todo[u] # {} /\ req[u].op = "unfriend" =>
                                  Known(friends_graph[req[u].at], req[u].user)
      /\ \A c \in Client :
            /\ todo[<<c, "remote">>] = {}
            /\ pc[<<c, "own">>] = "fetch" /\ pc[<<c, "remote">>] \notin {"V", "close"} =>
                   todo[<<c, "own">>] = {}
    BY DEF RInv, Tasks
<1>k. ASSUME NEW u \in Thread, todo[u] # {}, req[u].op = "unfriend"
      PROVE  Known(friends_graph'[req[u].at], req[u].user)
    <2>1. Known(friends_graph[req[u].at], req[u].user) /\ pc[u] \in {"work", "fetch"}
        BY <1>0, <1>k
    <2>2. req[u].at \in Server
        BY <2>1 DEF RInv, IInv, Requested
    <2> QED
        BY <2>1, <2>2, UsersStay DEF Known
\* A step that gives nobody anything to do.
<1>1. ASSUME \A u \in Thread : /\ todo'[u] = todo[u] /\ half'[u] = half[u]
                               /\ todo[u] # {} => pc'[u] \in {"work", "fetch"} /\ req'[u] = req[u],
             \A c \in Client : pc'[<<c, "own">>] = "fetch" =>
                 \/ todo[<<c, "own">>] = {}
                 \/ pc[<<c, "own">>] = "fetch"
                    /\ (pc[<<c, "remote">>] \in {"V", "close"} => pc'[<<c, "remote">>] \in {"V", "close"})
      PROVE  Tasks'
    <2>1. \A u \in Thread : Own1(u)
        BY <1>0, <1>k, <1>1
    <2>2. \A c \in Client : Pair(<<c, "own">>, <<c, "remote">>)
        BY <1>0, <1>1
    <2> QED
        BY <2>1, <2>2 DEF Tasks
\* A step of a thread that answers a client.
<1>2. ASSUME NEW c \in Client, NEW t, t = <<c, "own">>,
             \A u \in Thread : u # t => /\ todo'[u] = todo[u] /\ half'[u] = half[u]
                                        /\ pc'[u] = pc[u] /\ req'[u] = req[u],
             Own1(t),
             pc'[t] = "fetch" => pc[t] = "fetch" /\ (todo[t] = {} => todo'[t] = {})
      PROVE  Tasks'
    <2>1. ASSUME NEW u \in Thread PROVE Own1(u)
        BY <1>0, <1>k, <1>2, <2>1
    <2>2. ASSUME NEW d \in Client PROVE Pair(<<d, "own">>, <<d, "remote">>)
        <3>1. <<d, "remote">> # t /\ (d # c => <<d, "own">> # t)
            BY <1>2
        <3> QED
            BY <1>0, <1>2, <3>1
    <2> QED
        BY <2>1, <2>2 DEF Tasks
<1>3. ASSUME NEW c \in Client, Connect(c) \/ Hangup(c) \/ \E q \in Requests : Send(c, q)
      PROVE  Tasks'
    <2>1. /\ UNCHANGED <<todo, half>> /\ pc[Own(c)] \in {"idle", "read"} /\ pc'[Own(c)] # "fetch"
          /\ \A u \in Thread : u # Own(c) => pc'[u] = pc[u] /\ req'[u] = req[u]
        BY <1>3 DEF Connect, Hangup, Send, RInv, IInv, TypeOK, Functions
    <2>2. todo[Own(c)] = {}
        BY <1>0, <2>1
    <2>3. ASSUME NEW d \in Client, pc'[<<d, "own">>] = "fetch"
          PROVE  pc[<<d, "own">>] = "fetch" /\ pc'[<<d, "remote">>] = pc[<<d, "remote">>]
        <3>1. <<d, "remote">> # Own(c)
            BY DEF Own
        <3> QED
            BY <2>1, <2>3, <3>1
    <2> QED
        BY <1>0, <1>1, <2>1, <2>2, <2>3
<1>4. ASSUME NEW t \in Thread, P(t) \/ V(t)
      PROVE  Tasks'
    <2>1. UNCHANGED <<todo, half, req>> /\ pc[t] \notin {"work", "fetch"} /\ pc'[t] # "fetch"
          /\ (pc[t] \in {"V", "close"} => pc'[t] \in {"V", "close"})
        BY <1>4 DEF P, V, RInv, IInv, TypeOK
    <2>2. \A u \in Thread : u # t => pc'[u] = pc[u]
        BY <1>4, Moves DEF RInv
    <2>3. \A u \in Thread : pc[u] \in {"V", "close"} => pc'[u] \in {"V", "close"}
        BY <2>1, <2>2
    <2>4. todo[t] = {}
        BY <1>0, <2>1
    <2>5. \A u \in Thread : pc'[u] = "fetch" => pc[u] = "fetch"
        BY <2>1, <2>2
    <2> QED
        BY <1>0, <1>1, <2>1, <2>2, <2>3, <2>4, <2>5
<1>5. ASSUME NEW t \in Thread, Fetch(t) PROVE Tasks'
    <2>1. /\ UNCHANGED <<todo, half>> /\ pc[t] = "serve" /\ pc[Remote(t)] = "idle"
          /\ \A u \in Thread : u # t /\ u # Remote(t) => pc'[u] = pc[u] /\ req'[u] = req[u]
        <3>1. UNCHANGED <<todo, half>>
            BY <1>5 DEF Fetch
        <3>2. \A u \in Thread : u # t /\ u # Remote(t) => pc'[u] = pc[u] /\ req'[u] = req[u]
            BY <1>5, FetchFacts DEF RInv
        <3> QED
            BY <1>5, <3>1, <3>2, FetchFacts DEF RInv
    <2>2. todo[t] = {} /\ todo[Remote(t)] = {}
        BY <1>0, <2>1
    <2>3. ASSUME NEW d \in Client, <<d, "own">> # t
          PROVE  pc'[<<d, "own">>] = pc[<<d, "own">>] /\ pc'[<<d, "remote">>] = pc[<<d, "remote">>]
        <3>1. t = <<t[1], "own">>
            BY <1>5, OnlyOwn
        <3>2. <<d, "own">> # Remote(t) /\ <<d, "remote">> # Remote(t) /\ <<d, "remote">> # t
            BY <2>3, <3>1
        <3> QED
            BY <2>1, <2>3, <3>2
    <2> QED
        BY <1>0, <1>1, <2>1, <2>2, <2>3
<1>6. ASSUME NEW t \in Thread, Close(t) PROVE Tasks'
    <2>1. UNCHANGED <<todo, half>> /\ pc[t] = "close"
        BY <1>6 DEF Close
    <2>2. \A u \in Thread : /\ pc'[u] = IF u = t THEN "idle" ELSE IF u = Own(t[1]) THEN "work" ELSE pc[u]
                            /\ u # t => req'[u] = req[u]
        BY <1>6, CloseFacts DEF RInv
    <2>3. todo[t] = {}
        BY <1>0, <2>1
    <2>4. \A u \in Thread : pc[u] \in {"work", "fetch"} => pc'[u] \in {"work", "fetch"} /\ req'[u] = req[u]
        BY <2>1, <2>2
    <2>5. ASSUME NEW d \in Client, pc'[<<d, "own">>] = "fetch"
          PROVE  pc[<<d, "own">>] = "fetch" /\ pc'[<<d, "remote">>] = pc[<<d, "remote">>]
        <3>1. <<d, "own">> # t /\ <<d, "own">> # Own(t[1]) /\ pc[<<d, "own">>] = "fetch"
            BY <2>2, <2>5
        <3>2. <<d, "remote">> # t /\ <<d, "remote">> # Own(t[1])
            BY <3>1 DEF Own
        <3> QED
            BY <2>2, <3>1, <3>2
    <2> QED
        BY <1>0, <1>1, <2>1, <2>4, <2>5
<1>7. ASSUME NEW t \in Thread, Lookup(t) PROVE Tasks'
    <2>1. /\ UNCHANGED <<half, req>> /\ pc[t] = "serve" /\ pc'[t] = "work"
          /\ \A u \in Thread : u # t => todo'[u] = todo[u]
          /\ todo'[t] # {} => req[t].op = "unfriend" /\ Known(friends_graph[req[t].at], req[t].user)
          /\ UNCHANGED friends_graph
        BY <1>7 DEF Lookup, RInv, IInv, TypeOK
    <2>2. \A u \in Thread : u # t => pc'[u] = pc[u]
        BY <1>7, Moves DEF RInv
    <2>3. todo[t] = {} /\ half[t] = None
        BY <1>0, <2>1
    <2>4. CASE t = <<t[1], "own">>
        <3>1. Own1(t)
            BY <2>1, <2>3
        <3> QED
            BY <1>2, <2>1, <2>2, <2>4, <3>1
    <2>5. CASE t = <<t[1], "remote">>
        <3>1. req[t].op = "friends"
            <4>1. t[1] \in Client /\ pc[<<t[1], "remote">>] # "idle"
                BY <2>1, <2>5
            <4> QED
                BY <2>5, <4>1, RemoteFacts
        <3>2. UNCHANGED todo
            <4>1. todo'[t] = {}
                BY <2>1, <3>1
            <4>2. todo \in [Thread -> SUBSET Name] /\ todo' \in [Thread -> SUBSET Name]
                BY IInvStep DEF RInv, IInv, TypeOK
            <4> QED
                BY <2>1, <2>3, <4>1, <4>2
        <3>3. \A d \in Client : <<d, "own">> # t
            BY <2>5
        <3> QED
            BY <1>0, <1>1, <2>1, <2>2, <2>3, <3>2, <3>3
    <2> QED
        BY <2>4, <2>5
<1>8. ASSUME NEW t \in Thread, Gather(t) \/ Add(t) \/ Remove(t) \/ Reciprocate(t)
      PROVE  Tasks'
    <2>1. t = <<t[1], "own">> /\ t[1] \in Client
        BY <1>8, OnlyOwn
    <2>2. UNCHANGED req /\ \A u \in Thread : u # t => pc'[u] = pc[u]
        BY <1>8, Moves DEF RInv
    <2>3. \A u \in Thread : u # t => todo'[u] = todo[u] /\ half'[u] = half[u]
        <3>1. todo \in [Thread -> SUBSET Name] /\ half \in [Thread -> Name \cup {None}]
            BY DEF RInv, IInv, TypeOK
        <3>2. CASE Gather(t) \/ Reciprocate(t)
            BY <3>1, <3>2 DEF Gather, Reciprocate
        <3>3. CASE Add(t) \/ Remove(t)
            BY <3>1, <3>3 DEF Add, Remove
        <3> QED
            BY <1>8, <3>2, <3>3
    <2>4. Own1(t) /\ (pc'[t] = "fetch" => pc[t] = "fetch" /\ (todo[t] = {} => todo'[t] = {}))
        <3> USE <1>0
        <3>1. CASE Gather(t)
            BY <2>2, <3>1 DEF Gather, RInv, IInv, TypeOK
        <3>2. CASE Add(t) \/ Remove(t)
            <4>1. /\ UNCHANGED pc /\ half[t] = None /\ pc[t] \in {"work", "fetch"}
                  /\ \E f \in todo[t] : \/ todo'[t] = todo[t] \ {f} /\ half'[t] = half[t]
                                        \/ todo'[t] = todo[t] /\ half'[t] = f
                BY <3>2 DEF Add, Remove, RInv, IInv, TypeOK
            <4> QED
                BY <1>k, <2>2, <4>1
        <3>3. CASE Reciprocate(t)
            <4>1. /\ UNCHANGED pc /\ half[t] # None /\ half'[t] = None
                  /\ todo'[t] = todo[t] \ {half[t]}
                BY <3>3 DEF Reciprocate, RInv, IInv, TypeOK
            <4>2. pc[t] \in {"work", "fetch"}
                BY <4>1 DEF RInv, IInv, HalfDone
            <4> QED
                BY <1>k, <2>2, <4>1, <4>2
        <3> QED
            BY <1>8, <3>1, <3>2, <3>3
    <2> QED
        BY <1>2, <2>1, <2>2, <2>3, <2>4
<1>9. ASSUME NEW t \in Thread, Respond(t) PROVE Tasks'
    <2>1. /\ UNCHANGED <<half, req>> /\ pc[t] = "work" /\ pc'[t] = "V"
          /\ todo[t] = {} /\ half[t] = None
        BY <1>9 DEF Respond, RInv, IInv, TypeOK
    <2>2. \A u \in Thread : u # t => pc'[u] = pc[u]
        BY <1>9, Moves DEF RInv
    <2>3. CASE t = Own(t[1])
        <3>1. UNCHANGED todo
            BY <1>9, <2>3 DEF Respond
        <3>2. \A d \in Client : <<d, "remote">> # t
            BY <2>3 DEF Own
        <3> QED
            BY <1>0, <1>1, <2>1, <2>2, <3>1, <3>2
    <2>4. CASE t # Own(t[1])
        <3> DEFINE o == <<t[1], "own">>
        <3>1. t = <<t[1], "remote">> /\ o # t /\ o \in Thread
            BY <2>4 DEF Own
        <3>2. /\ \A u \in Thread : u # o => todo'[u] = todo[u]
            BY <1>9, <2>4 DEF Respond, RInv, IInv, TypeOK, Own
        <3>3. pc[o] = "fetch" /\ req[o].op = "introduce" /\ todo[o] = {} /\ half[o] = None
            BY <1>0, <2>1, <3>1, RemoteFacts
        <3>4. \A u \in Thread : Own1(u)
            BY <1>0, <1>k, <2>1, <2>2, <3>1, <3>2, <3>3
        <3>5. ASSUME NEW d \in Client PROVE Pair(<<d, "own">>, <<d, "remote">>)
            <4>1. d # t[1] => <<d, "own">> # o /\ <<d, "own">> # t /\ <<d, "remote">> # t
                BY <3>1
            <4>2. d = t[1] => <<d, "remote">> = t
                BY <3>1
            <4>3. <<d, "remote">> # o
                OBVIOUS
            <4> QED
                BY <1>0, <2>1, <2>2, <3>2, <4>1, <4>2, <4>3
        <3> QED
            BY <3>4, <3>5 DEF Tasks
    <2> QED
        BY <2>3, <2>4
<1>10. CASE UNCHANGED vars
    BY <1>0, <1>1, <1>10 DEF vars
<1> QED
    BY <1>3, <1>4, <1>5, <1>6, <1>7, <1>8, <1>9, <1>10 DEF Next, Step

LEMMA RInvInit == Init => RInv
<1> SUFFICES ASSUME Init PROVE RInv
    OBVIOUS
<1>1. Asking /\ Tasks /\ Relayed
    BY ThreadFacts DEF Init, Asking, Tasks, Relayed
<1>2. Graphs
    BY DEF Init, Graphs
<1> QED
    BY <1>1, <1>2, InitIInv DEF RInv

LEMMA RInvStep == RInv /\ [Next]_vars => RInv'
BY IInvStep, AskingStep, TasksStep, RelayedStep, GraphsStep DEF RInv

-----------------------------------------------------------------------------
(* The graph of a server once the thread inside is done.                   *)

IsFcn(g) == g = [n \in DOMAIN g |-> g[n]]

\* The graph g with what is left to do of a request of user done.
Finished(g, op, user, left) ==
    IF left = {} THEN g
    ELSE IF op = "unfriend"
    THEN [n \in DOMAIN g |-> IF n = user THEN g[n] \ left
                             ELSE IF n \in left THEN g[n] \ {user} ELSE g[n]]
    ELSE [n \in DOMAIN g \cup left \cup {user} |->
             IF n = user THEN get_friends_response(g, n) \cup (left \ {user})
             ELSE get_friends_response(g, n) \cup (IF n \in left THEN {user} ELSE {})]

\* Two graphs are the same if their users are and all of those have the same friends.
LEMMA SameGraph == ASSUME NEW g, NEW h, IsFcn(g), IsFcn(h), DOMAIN g = DOMAIN h,
                          \A n \in DOMAIN g : g[n] = h[n]
                   PROVE  g = h
BY DEF IsFcn

LEMMA FinishedFcn == ASSUME NEW g, IsFcn(g), NEW op, NEW user, NEW left
                     PROVE  IsFcn(Finished(g, op, user, left))
BY DEF IsFcn, Finished

\* A friend that is the user itself is passed over.
LEMMA PassOverSelf == ASSUME NEW g, IsFcn(g), NEW op, op # "unfriend", NEW user, NEW left, user \in left
    PROVE Finished(WithUser(WithUser(g, user), user), op, user, left \ {user}) = Finished(g, op, user, left)
<1> DEFINE k == WithUser(WithUser(g, user), user)
           a == Finished(k, op, user, left \ {user})
           b == Finished(g, op, user, left)
<1>1. DOMAIN k = DOMAIN g \cup {user} /\ IsFcn(k)
      /\ \A n \in DOMAIN k : k[n] = get_friends_response(g, n)
    BY DEF WithUser, Known, get_friends_response, IsFcn
<1>2. DOMAIN b = DOMAIN g \cup left \cup {user}
      /\ \A n \in DOMAIN b : b[n] = IF n = user THEN get_friends_response(g, n) \cup (left \ {user})
                        ELSE get_friends_response(g, n) \cup (IF n \in left THEN {user} ELSE {})
    BY DEF Finished
<1>3. \A n \in left \ {user} : get_friends_response(k, n) = get_friends_response(g, n)
    <2> HIDE DEF k
    <2> QED BY <1>1 DEF get_friends_response, Known
<1>4. DOMAIN a = DOMAIN b /\ \A n \in DOMAIN b : a[n] = b[n]
    <2> HIDE DEF k, b
    <2>1. CASE left \ {user} = {}
        BY <1>1, <1>2, <2>1 DEF Finished
    <2>2. CASE left \ {user} # {}
        <3>1. DOMAIN a = DOMAIN k \cup (left \ {user}) \cup {user}
              /\ \A n \in DOMAIN a : a[n] =
                    IF n = user THEN get_friends_response(k, n) \cup (left \ {user})
                    ELSE get_friends_response(k, n) \cup (IF n \in left \ {user} THEN {user} ELSE {})
            BY <2>2 DEF Finished
        <3>2. \A n \in DOMAIN k : get_friends_response(k, n) = get_friends_response(g, n)
            BY <1>1 DEF get_friends_response, Known
        <3> HIDE DEF a
        <3> QED
            BY <1>1, <1>2, <1>3, <3>1, <3>2
    <2> QED
        BY <2>1, <2>2
<1>5. IsFcn(a) /\ IsFcn(b)
    <2> HIDE DEF k
    <2> QED BY <1>1, FinishedFcn
<1> HIDE DEF a, b
<1>6. a = b
    BY <1>4, <1>5, SameGraph
<1> QED
    BY <1>6 DEF a, b

\* The user's half of a friendship does not change what comes of the whole.
LEMMA HalfAdded == ASSUME NEW g, IsFcn(g), NEW op, op # "unfriend", NEW user, NEW left,
                          NEW f \in left, f # user, NEW k, k = WithUser(WithUser(g, user), f)
    PROVE Finished([k EXCEPT ![user] = @ \cup {f}], op, user, left) = Finished(g, op, user, left)
<1> DEFINE h == [k EXCEPT ![user] = @ \cup {f}]
           a == Finished(h, op, user, left)
           b == Finished(g, op, user, left)
<1>1. DOMAIN k = DOMAIN g \cup {user, f} /\ \A n \in DOMAIN k : k[n] = get_friends_response(g, n)
    BY DEF WithUser, Known, get_friends_response
<1>2. /\ DOMAIN h = DOMAIN g \cup {user, f} /\ h[user] = get_friends_response(g, user) \cup {f}
      /\ \A n \in DOMAIN h : n # user => h[n] = get_friends_response(g, n)
    BY <1>1
<1> HIDE DEF h
<1>3. /\ get_friends_response(h, user) = get_friends_response(g, user) \cup {f}
      /\ \A n : n # user => get_friends_response(h, n) = get_friends_response(g, n)
    <2>1. \A n : n # user => get_friends_response(h, n) = get_friends_response(g, n)
        BY <1>2 DEF get_friends_response, Known
    <2>2. get_friends_response(h, user) = h[user]
        BY <1>2 DEF get_friends_response, Known
    <2> QED
        BY <1>2, <2>1, <2>2
<1>4. /\ DOMAIN a = DOMAIN h \cup left \cup {user}
      /\ \A n \in DOMAIN a : a[n] = IF n = user THEN get_friends_response(h, n) \cup (left \ {user})
                        ELSE get_friends_response(h, n) \cup (IF n \in left THEN {user} ELSE {})
    BY DEF Finished
<1>5. /\ DOMAIN b = DOMAIN g \cup left \cup {user}
      /\ \A n \in DOMAIN b : b[n] = IF n = user THEN get_friends_response(g, n) \cup (left \ {user})
                        ELSE get_friends_response(g, n) \cup (IF n \in left THEN {user} ELSE {})
    BY DEF Finished
<1>6. IsFcn(a) /\ IsFcn(b)
    BY DEF Finished, IsFcn
<1> HIDE DEF a, b
<1>7. DOMAIN a = DOMAIN b
    BY <1>2, <1>4, <1>5
<1>8. ASSUME NEW n \in DOMAIN b PROVE a[n] = b[n]
    <2>1. CASE n = user
        <3>1. a[n] = get_friends_response(h, user) \cup (left \ {user})
            BY <1>4, <1>7, <2>1
        <3>2. b[n] = get_friends_response(g, user) \cup (left \ {user})
            BY <1>5, <2>1
        <3>3. f \in left \ {user}
            OBVIOUS
        <3> QED
            BY <1>3, <3>1, <3>2, <3>3
    <2>2. CASE n # user
        <3>1. a[n] = get_friends_response(h, n) \cup (IF n \in left THEN {user} ELSE {})
            BY <1>4, <1>7, <2>2
        <3>2. b[n] = get_friends_response(g, n) \cup (IF n \in left THEN {user} ELSE {})
            BY <1>5, <2>2
        <3> QED
            BY <1>3, <2>2, <3>1, <3>2
    <2> QED
        BY <2>1, <2>2
<1> QED
    BY <1>6, <1>7, <1>8, SameGraph DEF a, b, h

\* Nor does the friend's half.
LEMMA BothAdded == ASSUME NEW g, IsFcn(g), NEW op, op # "unfriend", NEW user, NEW left,
                          NEW f \in left, f # user, Known(g, f), Known(g, user), f \in g[user]
    PROVE Finished([g EXCEPT ![f] = @ \cup {user}], op, user, left \ {f}) = Finished(g, op, user, left)
<1> DEFINE h == [g EXCEPT ![f] = @ \cup {user}]
           a == Finished(h, op, user, left \ {f})
           b == Finished(g, op, user, left)
<1>1. /\ DOMAIN h = DOMAIN g /\ h[f] = g[f] \cup {user} /\ IsFcn(h)
      /\ \A n \in DOMAIN h : n # f => h[n] = g[n]
      /\ f \in DOMAIN g /\ user \in DOMAIN g
    BY DEF Known, IsFcn
<1> HIDE DEF h
<1>2. /\ DOMAIN b = DOMAIN g \cup left \cup {user}
      /\ \A n \in DOMAIN b : b[n] = IF n = user THEN get_friends_response(g, n) \cup (left \ {user})
                        ELSE get_friends_response(g, n) \cup (IF n \in left THEN {user} ELSE {})
    BY DEF Finished
<1>3. /\ \A n : n # f => get_friends_response(h, n) = get_friends_response(g, n)
      /\ get_friends_response(h, f) = get_friends_response(g, f) \cup {user}
      /\ f \in get_friends_response(g, user)
    BY <1>1 DEF get_friends_response, Known
<1>4. DOMAIN a = DOMAIN b /\ \A n \in DOMAIN b : a[n] = b[n]
    <2> HIDE DEF b
    <2>1. CASE left \ {f} = {}
        <3>1. \A n \in DOMAIN h : h[n] = get_friends_response(h, n)
            BY DEF get_friends_response, Known
        <3>2. a = h /\ left = {f}
            BY <2>1 DEF Finished
        <3>3. DOMAIN a = DOMAIN b
            BY <1>1, <1>2, <3>2
        <3> HIDE DEF a
        <3>4. ASSUME NEW n \in DOMAIN b PROVE a[n] = b[n]
            <4>1. CASE n = user
                BY <1>2, <1>3, <3>1, <3>2, <3>3, <4>1
            <4>2. CASE n # user
                <5>1. a[n] = get_friends_response(h, n)
                    BY <3>1, <3>2, <3>3
                <5>2. b[n] = get_friends_response(g, n) \cup (IF n = f THEN {user} ELSE {})
                    BY <1>2, <3>2, <4>2
                <5> QED
                    BY <1>3, <4>2, <5>1, <5>2
            <4> QED
                BY <4>1, <4>2
        <3> QED
            BY <3>3, <3>4
    <2>2. CASE left \ {f} # {}
        <3>1. DOMAIN a = DOMAIN h \cup (left \ {f}) \cup {user}
              /\ \A n \in DOMAIN a : a[n] =
                    IF n = user THEN get_friends_response(h, n) \cup ((left \ {f}) \ {user})
                    ELSE get_friends_response(h, n) \cup (IF n \in left \ {f} THEN {user} ELSE {})
            BY <2>2 DEF Finished
        <3> HIDE DEF a
        <3>2. DOMAIN a = DOMAIN b
            BY <1>1, <1>2, <3>1
        <3>3. ASSUME NEW n \in DOMAIN b PROVE a[n] = b[n]
            <4>1. CASE n = user
                <5>1. a[n] = get_friends_response(h, user) \cup ((left \ {f}) \ {user})
                    BY <3>1, <3>2, <4>1
                <5>2. b[n] = get_friends_response(g, user) \cup (left \ {user})
                    BY <1>2, <4>1
                <5> QED
                    BY <1>3, <4>1, <5>1, <5>2
            <4>2. CASE n = f
                BY <1>2, <1>3, <3>1, <3>2, <4>2
            <4>3. CASE n # user /\ n # f
                BY <1>2, <1>3, <3>1, <3>2, <4>3
            <4> QED
                BY <4>1, <4>2, <4>3
        <3> QED
            BY <3>2, <3>3
    <2> QED
        BY <2>1, <2>2
<1>5. IsFcn(a) /\ IsFcn(b)
    BY <1>1, FinishedFcn
<1> HIDE DEF a, b
<1> QED
    BY <1>4, <1>5, SameGraph DEF a, b, h

\* And the same for what is removed: a friend nobody knows is none to remove.
LEMMA PassOverUnknown == ASSUME NEW g, IsFcn(g), Mutually(g), NEW user, Known(g, user), NEW left,
                                NEW f \in left, ~Known(g, f)
    PROVE Finished(g, "unfriend", user, left \ {f}) = Finished(g, "unfriend", user, left)
<1> DEFINE a == Finished(g, "unfriend", user, left \ {f})
           b == Finished(g, "unfriend", user, left)
<1>1. f \notin DOMAIN g /\ f \notin g[user]
    BY DEF Mutually, Known
<1>2. DOMAIN a = DOMAIN g /\ DOMAIN b = DOMAIN g /\ IsFcn(a) /\ IsFcn(b)
    BY DEF Finished, IsFcn
<1>3. \A n \in DOMAIN g : a[n] = b[n]
    BY <1>1 DEF Finished
<1> QED
    BY <1>2, <1>3, SameGraph

LEMMA HalfRemoved == ASSUME NEW g, IsFcn(g), NEW user, Known(g, user), NEW left, NEW f \in left
    PROVE Finished([g EXCEPT ![user] = @ \ {f}], "unfriend", user, left)
          = Finished(g, "unfriend", user, left)
<1> DEFINE h == [g EXCEPT ![user] = @ \ {f}]
           a == Finished(h, "unfriend", user, left)
           b == Finished(g, "unfriend", user, left)
<1>1. DOMAIN h = DOMAIN g /\ h[user] = g[user] \ {f} /\ \A n \in DOMAIN h : n # user => h[n] = g[n]
    BY DEF Known
<1> HIDE DEF h
<1>2. DOMAIN a = DOMAIN g /\ DOMAIN b = DOMAIN g /\ IsFcn(a) /\ IsFcn(b)
    BY <1>1 DEF Finished, IsFcn
<1>3. \A n \in DOMAIN g : a[n] = b[n]
    BY <1>1 DEF Finished
<1> QED
    BY <1>2, <1>3, SameGraph DEF h

LEMMA BothRemoved == ASSUME NEW g, IsFcn(g), NEW user, Known(g, user), NEW left, NEW f \in left,
                            f \notin g[user]
    PROVE Finished([g EXCEPT ![f] = @ \ {user}], "unfriend", user, left \ {f})
          = Finished(g, "unfriend", user, left)
<1> DEFINE h == [g EXCEPT ![f] = @ \ {user}]
           a == Finished(h, "unfriend", user, left \ {f})
           b == Finished(g, "unfriend", user, left)
<1>1. /\ DOMAIN h = DOMAIN g /\ IsFcn(h)
      /\ \A n \in DOMAIN g : h[n] = IF n = f THEN g[n] \ {user} ELSE g[n]
    BY DEF IsFcn
<1> HIDE DEF h
<1>2. DOMAIN a = DOMAIN g /\ DOMAIN b = DOMAIN g /\ IsFcn(a) /\ IsFcn(b)
    BY <1>1 DEF Finished, IsFcn
<1>3. \A n \in DOMAIN g : b[n] = IF n = user THEN g[n] \ left
                                 ELSE IF n \in left THEN g[n] \ {user} ELSE g[n]
    BY DEF Finished
<1>4. \A n \in DOMAIN g : a[n] = IF n = user THEN h[n] \ (left \ {f})
                                 ELSE IF n \in left \ {f} THEN h[n] \ {user} ELSE h[n]
    BY <1>1 DEF Finished
<1> HIDE DEF a, b
<1>5. \A n \in DOMAIN g : a[n] = b[n]
    <2> SUFFICES ASSUME NEW n \in DOMAIN g PROVE a[n] = b[n]
        OBVIOUS
    <2>1. CASE n = user
        <3>1. a[n] = h[n] \ (left \ {f}) /\ b[n] = g[n] \ left
            BY <1>3, <1>4, <2>1
        <3>2. h[n] = IF n = f THEN g[n] \ {user} ELSE g[n]
            BY <1>1
        <3> QED
            BY <2>1, <3>1, <3>2
    <2>2. CASE n # user
        BY <1>1, <1>3, <1>4, <2>2
    <2> QED
        BY <2>1, <2>2
<1> QED
    BY <1>2, <1>5, SameGraph DEF a, b, h

\* What is finished is what the abstract server does in one step.
LEMMA FinishedJoins == ASSUME NEW g, NEW op, op # "unfriend", NEW user, NEW new
    PROVE /\ Finished(WithUser(g, user), op, user, new) = Graph!Joined(g, user, new)
          /\ new # {} => Finished(g, op, user, new) = Graph!Joined(g, user, new)
<1> DEFINE k == WithUser(g, user)
           a == Finished(k, op, user, new)
           b == Graph!Joined(g, user, new)
<1>1. DOMAIN k = DOMAIN g \cup {user} /\ IsFcn(k)
      /\ \A n \in DOMAIN k : k[n] = get_friends_response(g, n)
    BY DEF WithUser, Known, get_friends_response, IsFcn
<1>2. DOMAIN b = DOMAIN g \cup new \cup {user} /\ IsFcn(b)
      /\ \A n \in DOMAIN b : b[n] = IF n = user THEN get_friends_response(g, n) \cup (new \ {user})
                        ELSE get_friends_response(g, n) \cup (IF n \in new THEN {user} ELSE {})
    BY DEF Graph!Joined, Graph!FriendsOf, Graph!Known, get_friends_response, Known, IsFcn
<1>3. \A n : get_friends_response(k, n) = get_friends_response(g, n)
    <2> HIDE DEF k
    <2> QED BY <1>1 DEF get_friends_response, Known
<1> HIDE DEF k, b
<1>4. a = b
    <2>1. CASE new = {}
        BY <1>1, <1>2, <2>1, SameGraph DEF Finished
    <2>2. CASE new # {}
        <3>1. DOMAIN a = DOMAIN k \cup new \cup {user} /\ IsFcn(a)
              /\ \A n \in DOMAIN a : a[n] = IF n = user THEN get_friends_response(k, n) \cup (new \ {user})
                        ELSE get_friends_response(k, n) \cup (IF n \in new THEN {user} ELSE {})
            BY <2>2 DEF Finished, IsFcn
        <3> HIDE DEF a
        <3>2. DOMAIN a = DOMAIN b
            BY <1>1, <1>2, <3>1
        <3>3. \A n \in DOMAIN a : a[n] = b[n]
            BY <1>2, <1>3, <3>1, <3>2
        <3> QED
            BY <1>2, <3>1, <3>2, <3>3, SameGraph
    <2> QED
        BY <2>1, <2>2
<1>5. ASSUME new # {} PROVE Finished(g, op, user, new) = b
    <2> DEFINE c == Finished(g, op, user, new)
    <2>1. DOMAIN c = DOMAIN g \cup new \cup {user} /\ IsFcn(c)
          /\ \A n \in DOMAIN c : c[n] = IF n = user THEN get_friends_response(g, n) \cup (new \ {user})
                    ELSE get_friends_response(g, n) \cup (IF n \in new THEN {user} ELSE {})
        BY <1>5 DEF Finished, IsFcn
    <2> HIDE DEF c
    <2>2. c = b
        BY <1>2, <2>1, SameGraph
    <2> QED
        BY <2>2 DEF c
<1> QED
    BY <1>4, <1>5 DEF k, b

LEMMA FinishedParts == ASSUME NEW g, IsFcn(g), Mutually(g), NEW user, NEW old
    PROVE Finished(g, "unfriend", user, IF Known(g, user) THEN old ELSE {}) = Graph!Parted(g, user, old)
<1> DEFINE left == IF Known(g, user) THEN old ELSE {}
           a == Finished(g, "unfriend", user, left)
           b == Graph!Parted(g, user, old)
<1>1. DOMAIN a = DOMAIN g /\ DOMAIN b = DOMAIN g /\ IsFcn(a) /\ IsFcn(b)
    BY DEF Finished, Graph!Parted, IsFcn
<1>2. \A n \in DOMAIN g : a[n] = b[n]
    <2> SUFFICES ASSUME NEW n \in DOMAIN g PROVE a[n] = b[n]
        OBVIOUS
    <2>1. g[n] \subseteq DOMAIN g
        BY DEF Mutually, Known
    <2>2. b[n] = IF n = user THEN g[n] \ (old \cap DOMAIN g)
                 ELSE IF n \in old /\ Known(g, user) THEN g[n] \ {user} ELSE g[n]
        BY DEF Graph!Parted, Graph!Known, Known
    <2>3. a[n] = IF left = {} THEN g[n]
                 ELSE IF n = user THEN g[n] \ left ELSE IF n \in left THEN g[n] \ {user} ELSE g[n]
        BY DEF Finished
    <2> HIDE DEF a, b
    <2>4. n = user => Known(g, user)
        BY DEF Known
    <2> QED
        BY <2>1, <2>2, <2>3, <2>4
<1> HIDE DEF a, b
<1> QED
    BY <1>1, <1>2, SameGraph DEF a, b

-----------------------------------------------------------------------------
(* The state of the abstract server before and after a step.               *)

Done(gs, at, rq, left, s) ==
    LET inside == {t \in Thread : at[t] \in {"work", "fetch"} /\ rq[t].at = s /\ left[t] # {}} IN
    IF inside = {} THEN gs[s]
    ELSE LET t == CHOOSE t \in inside : TRUE IN Finished(gs[s], rq[t].op, rq[t].user, left[t])

Took(at, c) == \/ at[Own(c)] \in {"work", "V", "close"}
               \/ at[Own(c)] = "fetch" /\ at[Remote(Own(c))] \in {"V", "close"}

Told(graph, at, r, names, c) ==
    IF ~Took(at, c) THEN None
    ELSE IF at[Own(c)] \in {"V", "close"} THEN names
    ELSE get_friends_response(graph, r.user)

Old(s) == Done(friends_graph, pc, req, todo, s)
New(s) == Done(friends_graph', pc', req', todo', s)
OldReply(c) == Told(Old(req[Own(c)].at), pc, req[Own(c)], body[Own(c)], c)
NewReply(c) == Told(New(req'[Own(c)].at), pc', req'[Own(c)], body'[Own(c)], c)

LEMMA OldIs == \A s : Completed(s) = Old(s)
<1> TAKE s
<1>1. ASSUME Inside(s) # {} PROVE \A t \in Thread : t = (CHOOSE u \in Inside(s) : TRUE) => todo[t] # {}
    BY <1>1 DEF Inside
<1>2. Inside(s) # {} => (CHOOSE u \in Inside(s) : TRUE) \in Thread
    BY DEF Inside
<1> QED
    BY <1>1, <1>2 DEF Completed, Old, Done, Inside, Finished

LEMMA NewIs == \A s : Completed(s)' = New(s)
<1> TAKE s
<1>1. ASSUME Inside(s)' # {} PROVE \A t \in Thread : t = (CHOOSE u \in Inside(s)' : TRUE) => todo'[t] # {}
    BY <1>1 DEF Inside
<1>2. Inside(s)' # {} => (CHOOSE u \in Inside(s)' : TRUE) \in Thread
    BY DEF Inside
<1> QED
    BY <1>1, <1>2 DEF Completed, New, Done, Inside, Finished

\* With one thread inside a server, what that thread has left is what is left.
LEMMA DoneAt == ASSUME NEW gs, NEW at, NEW rq, NEW left, NEW t \in Thread,
                       at[t] \notin {"work", "fetch"} => left[t] = {},
                       \A u \in Thread : u # t /\ at[u] \in {"work", "fetch"} => rq[u].at # rq[t].at
    PROVE Done(gs, at, rq, left, rq[t].at) = Finished(gs[rq[t].at], rq[t].op, rq[t].user, left[t])
<1> DEFINE s == rq[t].at
           inside == {u \in Thread : at[u] \in {"work", "fetch"} /\ rq[u].at = s /\ left[u] # {}}
<1>1. inside \subseteq {t}
    OBVIOUS
<1>2. left[t] # {} => inside = {t}
    OBVIOUS
<1>3. left[t] = {} => inside = {}
    OBVIOUS
<1>4. Done(gs, at, rq, left, s) =
        IF inside = {} THEN gs[s]
        ELSE LET u == CHOOSE u \in inside : TRUE IN Finished(gs[s], rq[u].op, rq[u].user, left[u])
    BY DEF Done
<1> HIDE DEF inside
<1>5. CASE left[t] = {}
    BY <1>3, <1>4, <1>5 DEF Finished
<1>6. CASE left[t] # {}
    <2>1. (CHOOSE u \in inside : TRUE) = t /\ inside # {}
        BY <1>2, <1>6
    <2> QED
        BY <1>4, <2>1
<1> QED
    BY <1>5, <1>6

LEMMA OldAt == ASSUME RInv, NEW t \in Thread, pc[t] \in Holding
    PROVE Old(req[t].at) = Finished(friends_graph[req[t].at], req[t].op, req[t].user, todo[t])
<1>1. pc[t] \notin {"work", "fetch"} => todo[t] = {}
    BY DEF RInv, Tasks
<1>2. \A u \in Thread : u # t /\ pc[u] \in {"work", "fetch"} => req[u].at # req[t].at
    BY DEF RInv, IInv, Locked, Holding
<1> QED
    BY <1>1, <1>2, DoneAt DEF Old

LEMMA NewAt == ASSUME RInv', NEW t \in Thread, pc'[t] \in Holding
    PROVE New(req'[t].at) = Finished(friends_graph'[req'[t].at], req'[t].op, req'[t].user, todo'[t])
<1>1. pc'[t] \notin {"work", "fetch"} => todo'[t] = {}
    BY DEF RInv, Tasks
<1>2. \A u \in Thread : u # t /\ pc'[u] \in {"work", "fetch"} => req'[u].at # req'[t].at
    BY DEF RInv, IInv, Locked, Holding
<1> QED
    BY <1>1, <1>2, DoneAt DEF New

\* A server that a step leaves alone.
LEMMA ServerKept == ASSUME NEW s, friends_graph'[s] = friends_graph[s],
        \A t \in Thread :
            IF pc[t] \in {"work", "fetch"} /\ req[t].at = s /\ todo[t] # {}
            THEN pc'[t] \in {"work", "fetch"} /\ req'[t] = req[t] /\ todo'[t] = todo[t]
            ELSE ~(pc'[t] \in {"work", "fetch"} /\ req'[t].at = s /\ todo'[t] # {})
    PROVE New(s) = Old(s)
<1> DEFINE a == {t \in Thread : pc[t] \in {"work", "fetch"} /\ req[t].at = s /\ todo[t] # {}}
           b == {t \in Thread : pc'[t] \in {"work", "fetch"} /\ req'[t].at = s /\ todo'[t] # {}}
<1>1. a = b /\ \A t \in a : req'[t] = req[t] /\ todo'[t] = todo[t]
    OBVIOUS
<1>2. Old(s) = IF a = {} THEN friends_graph[s]
               ELSE LET t == CHOOSE t \in a : TRUE IN
                    Finished(friends_graph[s], req[t].op, req[t].user, todo[t])
    BY DEF Old, Done
<1>3. New(s) = IF b = {} THEN friends_graph'[s]
               ELSE LET t == CHOOSE t \in b : TRUE IN
                    Finished(friends_graph'[s], req'[t].op, req'[t].user, todo'[t])
    BY DEF New, Done
<1> HIDE DEF a, b
<1>4. a # {} => (CHOOSE t \in a : TRUE) \in a
    OBVIOUS
<1> QED
    BY <1>1, <1>2, <1>3, <1>4

\* A client that a step leaves alone, as it does servers but the one it is at.
LEMMA ClientKept == ASSUME RInv, NEW d \in Client, NEW o, o = <<d, "own">>,
        pc'[o] = pc[o], pc'[<<d, "remote">>] = pc[<<d, "remote">>],
        req'[o] = req[o], body'[o] = body[o],
        pc[o] \in {"work", "fetch"} => New(req[o].at) = Old(req[o].at)
    PROVE NewReply(d) = OldReply(d)
<1>1. Own(d) = o /\ Remote(Own(d)) = <<d, "remote">>
    BY DEF Own, Remote
<1>2. Took(pc', d) <=> Took(pc, d)
    BY <1>1 DEF Took
<1>3. Took(pc, d) /\ pc[o] \notin {"V", "close"} => pc[o] \in {"work", "fetch"}
    BY <1>1 DEF Took
<1> QED
    BY <1>1, <1>2, <1>3 DEF NewReply, OldReply, Told

\* The steps of the abstract server, in these terms.
LEMMA StutterMap == ASSUME \A s \in Server : New(s) = Old(s),
                           \A c \in Client : req'[Own(c)] = req[Own(c)] /\ NewReply(c) = OldReply(c)
                    PROVE  UNCHANGED Graph!vars
<1>1. \A s \in Server : Completed(s)' = Completed(s)
    BY OldIs, NewIs
<1> QED
    BY <1>1, OldIs, NewIs DEF Graph!vars, NewReply, OldReply, Told, Took, TookEffect

OldGraphs == [s \in Server |-> Old(s)]
NewGraphs == [s \in Server |-> New(s)]
OldReplies == [c \in Client |-> OldReply(c)]
NewReplies == [c \in Client |-> NewReply(c)]
OldPending == [c \in Client |-> req[Own(c)]]
NewPending == [c \in Client |-> req'[Own(c)]]

LEMMA ServeMap == ASSUME NEW c \in Client, NEW r, r = req[Own(c)], r # None, r.at \in Server,
        \A d \in Client : req'[Own(d)] = req[Own(d)] /\ (d # c => NewReply(d) = OldReply(d)),
        \A s \in Server : s # r.at => New(s) = Old(s),
        New(r.at) = Graph!After(OldGraphs, r),
        OldReply(c) = None, NewReply(c) = get_friends_response(New(r.at), r.user)
    PROVE Graph!Next
<1>1. NewGraphs = [OldGraphs EXCEPT ![r.at] = Graph!After(OldGraphs, r)]
    BY DEF NewGraphs, OldGraphs
<1>2. NewReplies = [OldReplies EXCEPT ![c] = Graph!FriendsOf(NewGraphs[r.at], r.user)]
    BY DEF NewGraphs, NewReplies, OldReplies, Graph!FriendsOf, Graph!Known, get_friends_response, Known
<1>3. NewPending = OldPending /\ OldPending[c] = r /\ OldReplies[c] = None
    BY DEF NewPending, OldPending, OldReplies
<1>4. Graph!Serve(c)
    BY <1>1, <1>2, <1>3, OldIs, NewIs
       DEF Graph!Serve, OldGraphs, NewGraphs, OldReplies, NewReplies, OldPending, NewPending,
           OldReply, NewReply, Told, Took, TookEffect
<1> QED
    BY <1>4 DEF Graph!Next

LEMMA AskMap == ASSUME NEW c \in Client, NEW r \in Requests,
        req[Own(c)] = None, req'[Own(c)] = r,
        \A s \in Server : New(s) = Old(s),
        NewReply(c) = None,
        \A d \in Client : d # c => req'[Own(d)] = req[Own(d)] /\ NewReply(d) = OldReply(d)
    PROVE Graph!Next
<1>1. NewGraphs = OldGraphs
    BY DEF NewGraphs, OldGraphs
<1>2. NewReplies = [OldReplies EXCEPT ![c] = None]
    BY DEF NewReplies, OldReplies
<1>3. NewPending = [OldPending EXCEPT ![c] = r] /\ OldPending[c] = None
    BY DEF NewPending, OldPending
<1>4. Graph!Ask(c)
    BY <1>1, <1>2, <1>3, OldIs, NewIs
       DEF Graph!Ask, OldGraphs, NewGraphs, OldReplies, NewReplies, OldPending, NewPending,
           OldReply, NewReply, Told, Took, TookEffect
<1> QED
    BY <1>4 DEF Graph!Next

LEMMA FinishMap == ASSUME NEW c \in Client,
        OldReply(c) # None, req'[Own(c)] = None,
        \A s \in Server : New(s) = Old(s),
        NewReply(c) = None,
        \A d \in Client : d # c => req'[Own(d)] = req[Own(d)] /\ NewReply(d) = OldReply(d)
    PROVE Graph!Next
<1>1. NewGraphs = OldGraphs
    BY DEF NewGraphs, OldGraphs
<1>2. NewReplies = [OldReplies EXCEPT ![c] = None] /\ OldReplies[c] # None
    BY DEF NewReplies, OldReplies
<1>3. NewPending = [OldPending EXCEPT ![c] = None]
    BY DEF NewPending, OldPending
<1>4. Graph!Finish(c)
    BY <1>1, <1>2, <1>3, OldIs, NewIs
       DEF Graph!Finish, OldGraphs, NewGraphs, OldReplies, NewReplies, OldPending, NewPending,
           OldReply, NewReply, Told, Took, TookEffect
<1> QED
    BY <1>4 DEF Graph!Next

LEMMA InitMap == Init => Graph!Init
<1> SUFFICES ASSUME Init PROVE Graph!Init
    OBVIOUS
<1>1. \A s \in Server : Completed(s) = <<>>
    BY DEF Init, Completed, Inside
<1>2. \A c \in Client : req[Own(c)] = None /\ ~TookEffect(c)
    BY ThreadFacts DEF Init, TookEffect
<1> QED
    BY <1>1, <1>2 DEF Graph!Init

-----------------------------------------------------------------------------
(* Every step of the servers is one of the abstract server, or none.       *)

LEMMA ReadingMap == ASSUME RInv, NEW c \in Client, Connect(c) \/ Hangup(c) \/ \E r \in Requests : Send(c, r)
                    PROVE  [Graph!Next]_(Graph!vars)
<1> USE DEF Goto
<1> USE ThreadFacts
<1> DEFINE o == <<c, "own">>
<1>1. /\ UNCHANGED <<friends_graph, todo, body>> /\ pc[o] \in {"idle", "read"}
      /\ pc'[o] \in {"idle", "read", "P"}
      /\ \A u \in Thread : u # o => pc'[u] = pc[u] /\ req'[u] = req[u]
    BY DEF Connect, Hangup, Send, RInv, IInv, TypeOK, Functions
<1>2. todo[o] = {} /\ req[o] = None /\ o \in Thread
    BY <1>1 DEF RInv, Tasks, Asking
<1>3. \A s \in Server : New(s) = Old(s)
    <2> TAKE s \in Server
    <2> QED
        BY <1>1, <1>2, ServerKept
<1>4. ASSUME NEW d \in Client, d # c PROVE req'[Own(d)] = req[Own(d)] /\ NewReply(d) = OldReply(d)
    <2> DEFINE p == <<d, "own">>
               q == <<d, "remote">>
    <2>1. pc'[p] = pc[p] /\ pc'[q] = pc[q] /\ req'[p] = req[p] /\ body'[p] = body[p]
        BY <1>1, <1>4
    <2>2. pc[p] \in {"work", "fetch"} => req[p].at \in Server
        BY DEF RInv, IInv, Requested
    <2>3. NewReply(d) = OldReply(d)
        BY <1>3, <2>1, <2>2, ClientKept
    <2> QED
        BY <2>1, <2>3
<1>5. NewReply(c) = None /\ OldReply(c) = None
    BY <1>1 DEF NewReply, OldReply, Told, Took
<1>6. CASE Connect(c) \/ Hangup(c)
    <2>1. req'[o] = req[o]
        BY <1>6 DEF Connect, Hangup
    <2> QED
        BY <1>3, <1>4, <1>5, <2>1, StutterMap
<1>7. ASSUME NEW r \in Requests, Send(c, r) PROVE Graph!Next
    <2>1. req'[Own(c)] = r /\ req[Own(c)] = None
        BY <1>2, <1>7 DEF Send, RInv, IInv, Functions
    <2> QED
        BY <1>3, <1>4, <1>5, <2>1, AskMap
<1> QED
    BY <1>6, <1>7

\* A client's reply depends on no more than this.
LEMMA ReplyKept == ASSUME RInv, NEW d \in Client, NEW o, o = <<d, "own">>,
        Took(pc', d) <=> Took(pc, d),
        pc'[o] \in {"V", "close"} <=> pc[o] \in {"V", "close"},
        req'[o] = req[o], body'[o] = body[o],
        \A s \in Server : New(s) = Old(s)
    PROVE NewReply(d) = OldReply(d)
<1>1. Own(d) = o /\ o \in Thread
    BY ThreadFacts
<1>2. Took(pc, d) => req[o].at \in Server
    BY <1>1 DEF Took, RInv, IInv, Requested
<1> QED
    BY <1>1, <1>2 DEF NewReply, OldReply, Told

LEMMA PVMap == ASSUME RInv, NEW t \in Thread, P(t) \/ V(t) PROVE UNCHANGED Graph!vars
<1> USE DEF Goto
<1> USE ThreadFacts
<1>1. /\ UNCHANGED <<friends_graph, todo, body, req>>
      /\ \/ pc[t] = "P" /\ pc'[t] = "serve"
         \/ pc[t] = "V" /\ pc'[t] = "close"
      /\ \A u \in Thread : u # t => pc'[u] = pc[u]
    BY DEF P, V, RInv, IInv, TypeOK
<1>2. \A s \in Server : New(s) = Old(s)
    <2> TAKE s \in Server
    <2> QED
        BY <1>1, ServerKept
<1>3. ASSUME NEW d \in Client PROVE NewReply(d) = OldReply(d)
    <2> DEFINE p == <<d, "own">>
               q == <<d, "remote">>
    <2>1. /\ p \in Thread /\ q \in Thread /\ Own(d) = p /\ Remote(Own(d)) = q
          /\ pc'[p] \in {"V", "close"} <=> pc[p] \in {"V", "close"}
          /\ pc'[q] \in {"V", "close"} <=> pc[q] \in {"V", "close"}
          /\ pc'[p] = "fetch" <=> pc[p] = "fetch"
          /\ pc'[p] = "work" <=> pc[p] = "work"
        BY <1>1 DEF Own, Remote
    <2>2. Took(pc', d) <=> Took(pc, d)
        BY <2>1 DEF Took
    <2> QED
        BY <1>1, <1>2, <2>1, <2>2, ReplyKept
<1> QED
    BY <1>1, <1>2, <1>3, StutterMap

LEMMA FetchMap == ASSUME RInv, NEW t \in Thread, Fetch(t) PROVE UNCHANGED Graph!vars
<1> USE ThreadFacts
<1>1. /\ UNCHANGED <<friends_graph, todo, body>>
      /\ pc[t] = "serve" /\ pc'[t] = "fetch" /\ todo[t] = {} /\ req'[t] = req[t]
      /\ pc[Remote(t)] = "idle" /\ pc'[Remote(t)] = "P" /\ todo[Remote(t)] = {}
      /\ \A u \in Thread : u # t /\ u # Remote(t) => pc'[u] = pc[u] /\ req'[u] = req[u]
      /\ t = <<t[1], "own">> /\ Remote(t) = <<t[1], "remote">>
    <2>1. UNCHANGED <<friends_graph, todo, body>>
        BY DEF Fetch
    <2>2. pc[t] = "serve" /\ pc[Remote(t)] = "idle" /\ pc'[t] = "fetch" /\ pc'[Remote(t)] = "P"
          /\ req'[t] = req[t]
        BY FetchFacts DEF RInv
    <2>3. \A u \in Thread : u # t /\ u # Remote(t) => pc'[u] = pc[u] /\ req'[u] = req[u]
        BY FetchFacts DEF RInv
    <2>4. todo[t] = {} /\ todo[Remote(t)] = {}
        BY <2>2 DEF RInv, Tasks
    <2> QED
        BY <2>1, <2>2, <2>3, <2>4, OnlyOwn
<1>2. \A s \in Server : New(s) = Old(s)
    <2> TAKE s \in Server
    <2> QED
        BY <1>1, ServerKept
<1>3. ASSUME NEW d \in Client PROVE req'[Own(d)] = req[Own(d)] /\ NewReply(d) = OldReply(d)
    <2> DEFINE p == <<d, "own">>
               q == <<d, "remote">>
    <2>1. p \in Thread /\ q \in Thread /\ Own(d) = p /\ Remote(Own(d)) = q
        BY DEF Own, Remote
    <2>2. CASE p = t
        <3>1. ~Took(pc', d) /\ ~Took(pc, d)
            BY <1>1, <2>1, <2>2 DEF Took
        <3>2. q = Remote(t)
            BY <2>2
        <3> QED
            BY <1>1, <1>2, <2>1, <2>2, <3>1, ReplyKept
    <2>3. CASE p # t
        <3>1. p # Remote(t) /\ q # t /\ q # Remote(t)
            BY <1>1, <2>3
        <3>2. pc'[p] = pc[p] /\ pc'[q] = pc[q] /\ req'[p] = req[p]
            BY <1>1, <2>1, <2>3, <3>1
        <3>3. Took(pc', d) <=> Took(pc, d)
            BY <2>1, <3>2 DEF Took
        <3> QED
            BY <1>1, <1>2, <2>1, <3>2, <3>3, ReplyKept
    <2> QED
        BY <2>2, <2>3
<1> QED
    BY <1>2, <1>3, StutterMap

\* Steps in the middle of a request leave what comes of it as it is.
LEMMA WorkMap == ASSUME RInv, RInv', NEW t \in Thread, Add(t) \/ Remove(t) \/ Reciprocate(t)
                 PROVE  UNCHANGED Graph!vars
<1> DEFINE r == req[t]
           g == friends_graph[r.at]
           user == r.user
<1>1. /\ UNCHANGED <<pc, req, body>> /\ pc[t] \in {"work", "fetch"} /\ r.at \in Server
      /\ \A u \in Thread : u # t => todo'[u] = todo[u]
      /\ \A s \in Server : s # r.at => friends_graph'[s] = friends_graph[s]
      /\ \E h : friends_graph' = friends_graph \/ friends_graph' = [friends_graph EXCEPT ![r.at] = h]
    <2>1. UNCHANGED <<pc, req, body>>
        BY DEF Add, Remove, Reciprocate
    <2>2. pc[t] \in {"work", "fetch"}
        BY DEF Add, Remove, Reciprocate, RInv, IInv, HalfDone
    <2>3. r.at \in Server
        BY <2>2 DEF RInv, IInv, Requested
    <2>4. \A u \in Thread : u # t => todo'[u] = todo[u]
        BY DEF Add, Remove, Reciprocate, RInv, IInv, TypeOK
    <2>5. \E h : friends_graph' = friends_graph \/ friends_graph' = [friends_graph EXCEPT ![r.at] = h]
        BY DEF Add, Remove, Reciprocate
    <2> QED
        BY <2>1, <2>2, <2>3, <2>4, <2>5 DEF RInv, IInv, TypeOK
<1>2. /\ pc[t] \in Holding /\ DOMAIN friends_graph = Server
      /\ IsFcn(g) /\ (half[t] = None => Mutually(g))
    BY <1>1, MutualInside DEF Holding, RInv, IInv, TypeOK, Graphs, IsFcn
<1>3. /\ Old(r.at) = Finished(g, r.op, user, todo[t])
      /\ New(r.at) = Finished(friends_graph'[r.at], r.op, user, todo'[t])
    BY <1>1, <1>2, OldAt, NewAt
<1>4. ASSUME Add(t) PROVE New(r.at) = Old(r.at)
    <2>1. PICK f \in todo[t] : LET k == WithUser(WithUser(g, user), f) IN
              IF f = user
              THEN todo'[t] = todo[t] \ {f} /\ friends_graph'[r.at] = k
              ELSE todo'[t] = todo[t] /\ friends_graph'[r.at] = [k EXCEPT ![user] = @ \cup {f}]
        BY <1>1, <1>2, <1>4 DEF Add, RInv, IInv, TypeOK
    <2>2. r.op # "unfriend"
        BY <1>4 DEF Add
    <2> HIDE DEF r, g, user
    <2>3. CASE f = user
        BY <1>2, <1>3, <2>1, <2>2, <2>3, PassOverSelf
    <2>4. CASE f # user
        BY <1>2, <1>3, <2>1, <2>2, <2>4, HalfAdded
    <2> QED
        BY <2>3, <2>4
<1>5. ASSUME Remove(t) PROVE New(r.at) = Old(r.at)
    <2>1. PICK f \in todo[t] :
              IF ~Known(g, f)
              THEN todo'[t] = todo[t] \ {f} /\ friends_graph'[r.at] = g
              ELSE todo'[t] = todo[t] /\ friends_graph'[r.at] = [g EXCEPT ![user] = @ \ {f}]
        BY <1>1, <1>2, <1>5 DEF Remove, RInv, IInv, TypeOK
    <2>2. r.op = "unfriend" /\ Known(g, user) /\ Mutually(g)
        BY <1>2, <1>5, <2>1 DEF Remove, RInv, Tasks
    <2> HIDE DEF r, g, user
    <2>3. CASE ~Known(g, f)
        BY <1>2, <1>3, <2>1, <2>2, <2>3, PassOverUnknown
    <2>4. CASE Known(g, f)
        BY <1>2, <1>3, <2>1, <2>2, <2>4, HalfRemoved
    <2> QED
        BY <2>3, <2>4
<1>6. ASSUME Reciprocate(t) PROVE New(r.at) = Old(r.at)
    <2> DEFINE f == half[t]
    <2>1. /\ f \in todo[t] /\ f # None /\ todo'[t] = todo[t] \ {f}
          /\ friends_graph'[r.at] = [g EXCEPT ![f] =
                 IF r.op = "unfriend" THEN @ \ {user} ELSE @ \cup {user}]
        BY <1>1, <1>2, <1>6 DEF Reciprocate, RInv, IInv, TypeOK, Tasks
    <2>2. r.op # "unfriend" => f # user /\ Known(g, f) /\ Known(g, user) /\ f \in g[user]
        BY <2>1 DEF RInv, IInv, HalfDone
    <2>3. r.op = "unfriend" => Known(g, user) /\ f \notin g[user]
        BY <2>1 DEF RInv, IInv, HalfDone, Tasks
    <2>4. todo[t] # {}
        BY <2>1
    <2> HIDE DEF r, g, user, f
    <2>5. CASE r.op = "unfriend"
        BY <1>2, <1>3, <2>1, <2>3, <2>5, BothRemoved
    <2>6. CASE r.op # "unfriend"
        BY <1>2, <1>3, <2>1, <2>2, <2>6, BothAdded
    <2> QED
        BY <2>5, <2>6
<1>7. \A s \in Server : s # r.at => New(s) = Old(s)
    <2> SUFFICES ASSUME NEW s \in Server, s # r.at PROVE New(s) = Old(s)
        OBVIOUS
    <2> QED
        BY <1>1, ServerKept
<1>8. \A s \in Server : New(s) = Old(s)
    BY <1>4, <1>5, <1>6, <1>7
<1>9. \A d \in Client : NewReply(d) = OldReply(d)
    BY <1>1, <1>8, ReplyKept DEF Took
<1> QED
    BY <1>1, <1>8, <1>9, StutterMap

\* A client other than the one that thread t works for, at a step of t that
\* changes nothing at other servers.
LEMMA OthersMap == ASSUME RInv, NEW t \in Thread, pc[t] \in Holding,
        NEW d \in Client, NEW o, o = <<d, "own">>, o # t,
        pc'[o] = pc[o], pc'[<<d, "remote">>] = pc[<<d, "remote">>],
        req'[o] = req[o], body'[o] = body[o],
        \A s \in Server : s # req[t].at => New(s) = Old(s)
    PROVE NewReply(d) = OldReply(d)
<1>1. ASSUME pc[o] \in {"work", "fetch"} PROVE New(req[o].at) = Old(req[o].at)
    <2>1. o \in Thread
        BY ThreadFacts
    <2>2. req[o].at \in Server
        BY <1>1, <2>1 DEF RInv, IInv, Requested
    <2>3. req[o].at # req[t].at
        BY <1>1, <2>1 DEF RInv, IInv, Locked, Holding
    <2> QED
        BY <2>2, <2>3
<1> QED
    BY <1>1, ClientKept

\* The step at which a request that needs no other server takes effect.
LEMMA ServeMapHere == ASSUME RInv, RInv', NEW t \in Thread, t = <<t[1], "own">>,
        pc[t] = "serve", pc'[t] = "work", UNCHANGED <<req, body>>,
        \A u \in Thread : u # t => pc'[u] = pc[u] /\ todo'[u] = todo[u],
        \A s \in Server : s # req[t].at => friends_graph'[s] = friends_graph[s],
        Finished(friends_graph'[req[t].at], req[t].op, req[t].user, todo'[t])
            = Graph!After(OldGraphs, req[t])
    PROVE Graph!Next
<1> USE ThreadFacts
<1> DEFINE r == req[t]
           c == t[1]
<1>1. /\ c \in Client /\ Own(c) = t /\ todo[t] = {} /\ r \in Requests /\ r.at \in Server /\ r # None
      /\ pc[t] \in Holding /\ pc'[t] \in Holding
    BY ServerAssumption DEF RInv, Tasks, Asking, IInv, Requested, Holding
<1>2. New(r.at) = Graph!After(OldGraphs, r)
    BY <1>1, NewAt
<1>3. ASSUME NEW s \in Server, s # r.at PROVE New(s) = Old(s)
    BY <1>1, <1>3, ServerKept
<1>4. OldReply(c) = None
    BY <1>1 DEF OldReply, Told, Took
<1>5. NewReply(c) = get_friends_response(New(r.at), r.user)
    BY <1>1 DEF NewReply, Told, Took
<1>6. ASSUME NEW d \in Client, d # c PROVE NewReply(d) = OldReply(d)
    <2> DEFINE p == <<d, "own">>
               q == <<d, "remote">>
    <2>1. p # t /\ q # t /\ p \in Thread /\ q \in Thread
        BY <1>6
    <2>2. pc'[p] = pc[p] /\ pc'[q] = pc[q]
        BY <2>1
    <2> QED
        BY <1>1, <1>3, <2>1, <2>2, OthersMap
<1> QED
    BY <1>1, <1>2, <1>3, <1>4, <1>5, <1>6, ServeMap

LEMMA GatherMap == ASSUME RInv, RInv', NEW t \in Thread, Gather(t) PROVE Graph!Next
<1> DEFINE r == req[t]
           g == friends_graph[r.at]
<1>1. /\ t = <<t[1], "own">> /\ pc[t] = "serve" /\ pc'[t] = "work" /\ UNCHANGED <<req, body>>
      /\ \A u \in Thread : u # t => pc'[u] = pc[u] /\ todo'[u] = todo[u]
      /\ r.at \in Server /\ todo[t] = {}
    BY OnlyOwn DEF Gather, Goto, RInv, IInv, TypeOK, Tasks, Requested
<1>2. \A s \in Server : s # r.at => friends_graph'[s] = friends_graph[s]
    BY <1>1 DEF Gather, RInv, IInv, TypeOK
<1>3. OldGraphs[r.at] = g
    <2>1. Old(r.at) = Finished(g, r.op, r.user, todo[t])
        BY <1>1, OldAt DEF Holding
    <2> QED
        BY <1>1, <2>1 DEF OldGraphs, Finished
<1>4. CASE r.op = "introduce" /\ ~Known(g, r.friend)
    <2>1. friends_graph'[r.at] = g /\ todo'[t] = {} /\ r.from = r.at
        BY <1>1, <1>4 DEF Gather
    <2>2. Graph!After(OldGraphs, r) = g
        BY <1>3, <1>4, <2>1 DEF Graph!After, Graph!Introduced, Graph!Known, Known
    <2> QED
        BY <1>1, <1>2, <2>1, <2>2, ServeMapHere DEF Finished
<1>5. CASE r.op = "introduce" /\ Known(g, r.friend)
    <2>1. /\ friends_graph'[r.at] = WithUser(g, r.user) /\ r.from = r.at
          /\ todo'[t] = g[r.friend] \cup {r.friend}
        BY <1>1, <1>5 DEF Gather, RInv, IInv, TypeOK
    <2>2. Graph!After(OldGraphs, r) = Graph!Joined(g, r.user, g[r.friend] \cup {r.friend})
        BY <1>3, <1>5, <2>1 DEF Graph!After, Graph!Introduced, Graph!Known, Known
    <2>3. Finished(WithUser(g, r.user), r.op, r.user, todo'[t]) = Graph!After(OldGraphs, r)
        BY <1>5, <2>1, <2>2, FinishedJoins
    <2> QED
        BY <1>1, <1>2, <2>1, <2>3, ServeMapHere
<1>6. CASE r.op = "befriend"
    <2>1. friends_graph'[r.at] = WithUser(g, r.user) /\ todo'[t] = r.friends
        BY <1>1, <1>6 DEF Gather, RInv, IInv, TypeOK
    <2>2. Graph!After(OldGraphs, r) = Graph!Joined(g, r.user, r.friends)
        BY <1>3, <1>6 DEF Graph!After
    <2>3. Finished(WithUser(g, r.user), r.op, r.user, todo'[t]) = Graph!After(OldGraphs, r)
        BY <1>6, <2>1, <2>2, FinishedJoins
    <2> QED
        BY <1>1, <1>2, <2>1, <2>3, ServeMapHere
<1> QED
    BY <1>4, <1>5, <1>6 DEF Gather

LEMMA LookupMap == ASSUME RInv, RInv', NEW t \in Thread, Lookup(t) PROVE [Graph!Next]_(Graph!vars)
<1> USE ThreadFacts
<1> DEFINE r == req[t]
           g == friends_graph[r.at]
<1>1. /\ pc[t] = "serve" /\ pc'[t] = "work" /\ UNCHANGED <<friends_graph, req, body>>
      /\ \A u \in Thread : u # t => pc'[u] = pc[u] /\ todo'[u] = todo[u]
      /\ r.at \in Server /\ todo[t] = {}
      /\ todo'[t] = IF r.op = "unfriend" /\ Known(g, r.user) THEN r.friends ELSE {}
    BY DEF Lookup, Goto, RInv, IInv, TypeOK, Tasks, Requested
<1>2. IsFcn(g) /\ Mutually(g) /\ OldGraphs[r.at] = g
    <2>1. Old(r.at) = Finished(g, r.op, r.user, todo[t])
        BY <1>1, OldAt DEF Holding
    <2>2. half[t] = None
        BY <1>1 DEF RInv, Tasks
    <2>3. Mutually(g)
        BY <1>1, <2>2, MutualInside DEF RInv, Holding
    <2> QED
        BY <1>1, <2>1, <2>3 DEF OldGraphs, Finished, RInv, Graphs, IsFcn
<1>3. CASE t = <<t[1], "own">>
    <2>1. CASE r.op = "friends"
        <3>1. todo'[t] = {} /\ Graph!After(OldGraphs, r) = g
            BY <1>1, <1>2, <2>1 DEF Graph!After
        <3> QED
            BY <1>1, <1>3, <3>1, ServeMapHere DEF Finished
    <2>2. CASE r.op = "unfriend"
        <3>1. Graph!After(OldGraphs, r) = Graph!Parted(g, r.user, r.friends)
            BY <1>2, <2>2 DEF Graph!After
        <3>2. todo'[t] = IF Known(g, r.user) THEN r.friends ELSE {}
            BY <1>1, <2>2
        <3>3. Finished(g, r.op, r.user, todo'[t]) = Graph!After(OldGraphs, r)
            BY <1>2, <2>2, <3>1, <3>2, FinishedParts
        <3> QED
            BY <1>1, <1>3, <3>3, ServeMapHere
    <2> QED
        BY <2>1, <2>2 DEF Lookup
<1>4. CASE t = <<t[1], "remote">>
    <2>1. t[1] \in Client /\ pc[<<t[1], "remote">>] # "idle"
        BY <1>1, <1>4
    <2>2. r.op = "friends"
        BY <1>4, <2>1, RemoteFacts
    <2>3. todo'[t] = {}
        BY <1>1, <2>2
    <2>4. \A s \in Server : New(s) = Old(s)
        <3> TAKE s \in Server
        <3> QED
            BY <1>1, <2>3, ServerKept
    <2>5. ASSUME NEW d \in Client PROVE NewReply(d) = OldReply(d)
        <3> DEFINE p == <<d, "own">>
                   q == <<d, "remote">>
        <3>1. p \in Thread /\ q \in Thread /\ Own(d) = p /\ Remote(Own(d)) = q
            BY DEF Own, Remote
        <3>2. pc'[p] = pc[p] /\ (pc'[q] \in {"V", "close"} <=> pc[q] \in {"V", "close"})
            BY <1>1, <1>4, <3>1
        <3>3. Took(pc', d) <=> Took(pc, d)
            BY <3>1, <3>2 DEF Took
        <3> QED
            BY <1>1, <2>4, <3>1, <3>2, <3>3, ReplyKept
    <2> QED
        BY <1>1, <2>4, <2>5, StutterMap
<1> QED
    BY <1>3, <1>4

\* The answer to a client is the one of the instant its request took effect; a
\* user is introduced at the instant the other server answers.
LEMMA RespondMap == ASSUME RInv, RInv', NEW t \in Thread, Respond(t)
                    PROVE  [Graph!Next]_(Graph!vars)
<1> USE ThreadFacts
<1> DEFINE r == req[t]
           g == friends_graph[r.at]
           friends == get_friends_response(g, r.user)
<1>1. /\ pc[t] = "work" /\ pc'[t] = "V" /\ todo[t] = {} /\ half[t] = None
      /\ UNCHANGED <<friends_graph, req>> /\ r.at \in Server
      /\ \A u \in Thread : u # t => pc'[u] = pc[u] /\ body'[u] = body[u]
      /\ body'[t] = friends
      /\ todo' = IF t = Own(t[1]) THEN todo ELSE [todo EXCEPT ![Own(t[1])] = friends]
    BY DEF Respond, Goto, RInv, IInv, TypeOK, Requested
<1>2. Old(r.at) = g
    BY <1>1, OldAt DEF Holding, Finished
<1>3. CASE t = <<t[1], "own">>
    <2>1. todo' = todo
        BY <1>1, <1>3 DEF Own
    <2>2. \A s \in Server : New(s) = Old(s)
        <3> TAKE s \in Server
        <3> QED
            BY <1>1, <2>1, ServerKept
    <2>3. ASSUME NEW d \in Client PROVE NewReply(d) = OldReply(d)
        <3> DEFINE p == <<d, "own">>
                   q == <<d, "remote">>
        <3>1. p \in Thread /\ q \in Thread /\ Own(d) = p /\ Remote(Own(d)) = q /\ q # t
            BY <1>3 DEF Own, Remote
        <3>2. pc'[q] = pc[q]
            BY <1>1, <3>1
        <3>3. CASE p = t
            <4>1. Took(pc, d) /\ Took(pc', d)
                BY <1>1, <3>1, <3>3 DEF Took
            <4>2. OldReply(d) = friends
                BY <1>1, <1>2, <3>1, <3>3, <4>1 DEF OldReply, Told
            <4>3. NewReply(d) = friends
                BY <1>1, <3>1, <3>3, <4>1 DEF NewReply, Told
            <4> QED
                BY <4>2, <4>3
        <3>4. CASE p # t
            <4>1. pc'[p] = pc[p] /\ body'[p] = body[p]
                BY <1>1, <3>1, <3>4
            <4>2. Took(pc', d) <=> Took(pc, d)
                BY <3>1, <3>2, <4>1 DEF Took
            <4> QED
                BY <1>1, <2>2, <3>1, <4>1, <4>2, ReplyKept
        <3> QED
            BY <3>3, <3>4
    <2> QED
        BY <1>1, <2>2, <2>3, StutterMap
<1>4. CASE t = <<t[1], "remote">>
    <2> DEFINE c == t[1]
               o == <<c, "own">>
               ro == req[o]
               go == friends_graph[ro.at]
    <2>1. /\ c \in Client /\ o \in Thread /\ o # t /\ Own(c) = o /\ Remote(o) = t
          /\ pc[<<c, "remote">>] # "idle"
        BY <1>1, <1>4
    <2>2. /\ pc[o] = "fetch" /\ pc'[o] = "fetch" /\ ro.op = "introduce" /\ ro.from # ro.at
          /\ r.at = ro.from /\ r.user = ro.friend
        BY <1>1, <1>4, <2>1, RemoteFacts
    <2>3. /\ ro \in Requests /\ ro # None /\ ro.at \in Server /\ ro.from \in Server
          /\ todo[o] = {}
        <3>1. todo[o] = {}
            BY <1>1, <1>4, <2>1, <2>2 DEF RInv, Tasks
        <3>2. ro \in Requests
            BY <2>1, <2>2 DEF RInv, Asking
        <3> QED
            BY <2>2, <3>1, <3>2, ServerAssumption
    <2>4. todo'[o] = friends /\ \A u \in Thread : u # o => todo'[u] = todo[u]
        BY <1>1, <2>1 DEF RInv, IInv, TypeOK
    <2>5. Old(ro.at) = go /\ New(ro.at) = Finished(go, ro.op, ro.user, friends)
        <3>1. pc[o] \in Holding /\ pc'[o] \in Holding
            BY <2>2 DEF Holding
        <3>2. Old(ro.at) = Finished(go, ro.op, ro.user, todo[o])
            BY <2>1, <3>1, OldAt
        <3>3. New(req'[o].at) = Finished(friends_graph'[req'[o].at], req'[o].op, req'[o].user, todo'[o])
            BY <2>1, <3>1, NewAt
        <3>4. friends_graph' = friends_graph /\ req' = req
            BY <1>1
        <3>5. New(ro.at) = Finished(go, ro.op, ro.user, friends)
            BY <2>4, <3>3, <3>4
        <3>6. Old(ro.at) = go
            BY <2>3, <3>2 DEF Finished
        <3> QED
            BY <3>5, <3>6
    <2>6. New(ro.at) = Graph!After(OldGraphs, ro)
        <3>1. OldGraphs[ro.at] = go /\ OldGraphs[ro.from] = g
            BY <1>2, <2>2, <2>3, <2>5 DEF OldGraphs
        <3>2. Graph!FriendsOf(g, ro.friend) = friends
            BY <2>2 DEF Graph!FriendsOf, Graph!Known, get_friends_response, Known
        <3>3. Graph!After(OldGraphs, ro) =
                  IF friends = {} THEN go ELSE Graph!Joined(go, ro.user, friends)
            BY <2>2, <3>1, <3>2 DEF Graph!After, Graph!Introduced
        <3>4. CASE friends = {}
            BY <2>5, <3>3, <3>4 DEF Finished
        <3>5. CASE friends # {}
            <4>1. Finished(go, ro.op, ro.user, friends) = Graph!Joined(go, ro.user, friends)
                BY <2>2, <3>5, FinishedJoins
            <4> QED
                BY <2>5, <3>3, <3>5, <4>1
        <3> QED
            BY <3>4, <3>5
    <2>7. ASSUME NEW s \in Server, s # ro.at PROVE New(s) = Old(s)
        BY <1>1, <2>4, <2>7, ServerKept
    <2>8. OldReply(c) = None
        <3>1. ~Took(pc, c)
            BY <1>1, <2>1, <2>2 DEF Took
        <3> QED
            BY <3>1 DEF OldReply, Told
    <2>9. NewReply(c) = get_friends_response(New(ro.at), ro.user)
        <3>1. Took(pc', c)
            BY <1>1, <2>1, <2>2 DEF Took
        <3> QED
            BY <1>1, <2>1, <2>2, <3>1 DEF NewReply, Told
    <2>10. ASSUME NEW d \in Client, d # c PROVE NewReply(d) = OldReply(d)
        <3> DEFINE p == <<d, "own">>
                   q == <<d, "remote">>
        <3>1. p # t /\ q # t /\ p # o /\ p \in Thread /\ q \in Thread
            BY <1>4, <2>10
        <3>2. pc'[p] = pc[p] /\ pc'[q] = pc[q] /\ req'[p] = req[p] /\ body'[p] = body[p]
            BY <1>1, <3>1
        <3>3. ASSUME pc[p] \in {"work", "fetch"} PROVE New(req[p].at) = Old(req[p].at)
            <4>1. req[p].at \in Server /\ req[p].at # ro.at
                BY <2>1, <2>2, <3>1, <3>3 DEF RInv, IInv, Requested, Locked, Holding
            <4> QED
                BY <2>7, <4>1
        <3> QED
            BY <2>10, <3>2, <3>3, ClientKept
    <2> HIDE DEF ro
    <2>11. Graph!Next
        <3>1. ro = req[Own(c)] /\ \A d \in Client : req'[Own(d)] = req[Own(d)]
            BY <1>1, <2>1 DEF ro
        <3> QED
            BY <2>1, <2>3, <2>6, <2>7, <2>8, <2>9, <2>10, <3>1, ServeMap
    <2> QED
        BY <2>11
<1> QED
    BY <1>3, <1>4

\* A client has its answer when the connection ends; the end of one between
\* servers is nothing a client sees.
LEMMA CloseMap == ASSUME RInv, NEW t \in Thread, Close(t) PROVE [Graph!Next]_(Graph!vars)
<1> USE ThreadFacts
<1> DEFINE c == t[1]
           o == <<c, "own">>
<1>1. /\ UNCHANGED <<friends_graph, todo>> /\ pc[t] = "close" /\ todo[t] = {}
      /\ \A u \in Thread : u # t => req'[u] = req[u] /\ body'[u] = body[u]
      /\ \A u \in Thread : u # t /\ u # o => pc'[u] = pc[u]
      /\ pc'[t] = "idle" /\ req'[t] = None
      /\ c \in Client /\ o \in Thread /\ Own(c) = o
    <2>1. UNCHANGED <<friends_graph, todo>> /\ pc[t] = "close"
        BY DEF Close
    <2>2. \A u \in Thread : u # t => req'[u] = req[u] /\ body'[u] = body[u]
        BY CloseFacts DEF Close, RInv, IInv, TypeOK
    <2>3. \A u \in Thread : u # t /\ u # o => pc'[u] = pc[u]
        BY CloseFacts DEF RInv
    <2>4. pc'[t] = "idle" /\ req'[t] = None
        BY CloseFacts DEF RInv
    <2> QED
        BY <2>1, <2>2, <2>3, <2>4 DEF RInv, Tasks
<1>2. o # t => pc[o] = "fetch" /\ pc'[o] = "work" /\ t = <<c, "remote">>
    BY CloseFacts DEF RInv
<1>3. \A s \in Server : New(s) = Old(s)
    <2> TAKE s \in Server
    <2> QED
        BY <1>1, <1>2, ServerKept
<1>4. ASSUME NEW d \in Client, d # c PROVE req'[Own(d)] = req[Own(d)] /\ NewReply(d) = OldReply(d)
    <2> DEFINE p == <<d, "own">>
               q == <<d, "remote">>
    <2>1. p \in Thread /\ q \in Thread /\ p # t /\ q # t /\ p # o /\ q # o /\ Own(d) = p
        BY <1>4
    <2>2. pc'[p] = pc[p] /\ pc'[q] = pc[q] /\ req'[p] = req[p] /\ body'[p] = body[p]
        BY <1>1, <2>1
    <2>3. pc[p] \in {"work", "fetch"} => req[p].at \in Server
        BY <2>1 DEF RInv, IInv, Requested
    <2> QED
        BY <1>3, <2>1, <2>2, <2>3, ClientKept
<1>5. CASE t = o
    <2>1. Took(pc, c) /\ ~Took(pc', c)
        BY <1>1, <1>5 DEF Took
    <2>2. OldReply(c) = body[o] /\ NewReply(c) = None
        BY <1>1, <1>5, <2>1 DEF OldReply, NewReply, Told
    <2>3. body[o] # None
        BY <1>1, ServerAssumption DEF RInv, IInv, TypeOK
    <2> QED
        BY <1>1, <1>3, <1>4, <1>5, <2>2, <2>3, FinishMap
<1>6. CASE t # o
    <2>1. Took(pc, c) /\ Took(pc', c)
        BY <1>1, <1>2, <1>6 DEF Took
    <2>2. pc[o] \notin {"V", "close"} /\ pc'[o] \notin {"V", "close"}
        BY <1>2, <1>6
    <2>3. req'[o] = req[o] /\ body'[o] = body[o]
        BY <1>1, <1>6
    <2>4. NewReply(c) = OldReply(c)
        BY <1>1, <1>3, <2>1, <2>2, <2>3, ReplyKept
    <2> QED
        BY <1>1, <1>3, <1>4, <2>3, <2>4, StutterMap
<1> QED
    BY <1>5, <1>6

LEMMA StepMap == RInv /\ RInv' /\ [Next]_vars => [Graph!Next]_(Graph!vars)
<1> SUFFICES ASSUME RInv, RInv', [Next]_vars PROVE [Graph!Next]_(Graph!vars)
    OBVIOUS
<1>1. ASSUME NEW c \in Client, Connect(c) \/ Hangup(c) \/ \E r \in Requests : Send(c, r)
      PROVE  [Graph!Next]_(Graph!vars)
    BY <1>1, ReadingMap
<1>2. ASSUME NEW t \in Thread, P(t) \/ V(t) PROVE UNCHANGED Graph!vars
    BY <1>2, PVMap
<1>3. ASSUME NEW t \in Thread, Lookup(t) PROVE [Graph!Next]_(Graph!vars)
    BY <1>3, LookupMap
<1>4. ASSUME NEW t \in Thread, Gather(t) PROVE Graph!Next
    BY <1>4, GatherMap
<1>5. ASSUME NEW t \in Thread, Fetch(t) PROVE UNCHANGED Graph!vars
    BY <1>5, FetchMap
<1>6. ASSUME NEW t \in Thread, Add(t) \/ Remove(t) \/ Reciprocate(t) PROVE UNCHANGED Graph!vars
    BY <1>6, WorkMap
<1>7. ASSUME NEW t \in Thread, Respond(t) PROVE [Graph!Next]_(Graph!vars)
    BY <1>7, RespondMap
<1>8. ASSUME NEW t \in Thread, Close(t) PROVE [Graph!Next]_(Graph!vars)
    BY <1>8, CloseMap
<1>9. ASSUME UNCHANGED vars PROVE UNCHANGED Graph!vars
    <2>1. \A s \in Server : New(s) = Old(s)
        BY <1>9 DEF vars, New, Old
    <2>2. \A c \in Client : req'[Own(c)] = req[Own(c)] /\ NewReply(c) = OldReply(c)
        BY <1>9 DEF vars, NewReply, OldReply, Told, Took, New, Old
    <2> QED
        BY <2>1, <2>2, StutterMap
<1> QED
    BY <1>1, <1>2, <1>3, <1>4, <1>5, <1>6, <1>7, <1>8, <1>9 DEF Next, Step

\* Every request takes effect at one instant, on the whole graph, and is
\* answered as at that instant, although doit works friend by friend and an
\* introduction waits for another server in the middle of its work.
THEOREM ServesAtomicallyCorrect == Spec => ServesAtomically
<1>1. Init => Graph!Init
    BY InitMap
<1>2. Init => RInv
    BY RInvInit
<1>3. RInv /\ [Next]_vars => RInv'
    BY RInvStep
<1>4. RInv /\ RInv' /\ [Next]_vars => [Graph!Next]_(Graph!vars)
    BY StepMap
<1> QED
    BY <1>1, <1>2, <1>3, <1>4, PTL DEF Spec, ServesAtomically, Graph!Spec
=============================================================================
