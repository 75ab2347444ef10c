------------------------------ MODULE FriendServer ------------------------------
(***************************************************************************)
(* The friend-list servers of Concurrent_Server/friendlist.c: one detached *)
(* thread for each connection, one semaphore around the graph of friends   *)
(* of each server, and introductions that fetch the friends of a user from *)
(* another server while the semaphore is held.                             *)
(*                                                                         *)
(* A thread is named by the client its work is for and by where its        *)
(* connection comes from: <<c, "own">> answers the client itself,          *)
(* <<c, "remote">> the server that an introduction of c asks.              *)
(***************************************************************************)
EXTENDS FiniteSets, Naturals

CONSTANTS Server, Client, Name, Requests, None,
          MaxRequests           \* bound: requests sent in all

ASSUME ServerAssumption ==
    /\ MaxRequests \in Nat
    /\ None \notin Name \cup Requests /\ \A names \in SUBSET Name : names # None
    /\ \A r \in Requests :
        /\ r.at \in Server /\ r.user \in Name /\ r.friends \subseteq Name
        /\ r.op = "introduce" => r.from \in Server /\ r.friend \in Name

VARIABLES friends_graph, \* of each server: dictionary from users to their friends
          sem,           \* of each server: the semaphore
          pc,            \* of each thread, where in doit it is; "idle": no connection
          req,           \* of each thread: the request it serves
          todo,          \* of each thread: friends not yet added or removed
          half,          \* of each thread: the friend added one way only, or None
          body,          \* of each thread: the friends in its answer
          asked          \* requests sent so far

vars == <<friends_graph, sem, pc, req, todo, half, body, asked>>

Thread == Client \X {"own", "remote"}
Own(c) == <<c, "own">>
Remote(t) == <<t[1], "remote">>

Known(g, user) == user \in DOMAIN g

\* dictionary_set(friends_graph, user, make_dictionary(...)) unless it is there.
WithUser(g, user) == [n \in DOMAIN g \cup {user} |-> IF Known(g, user) \/ n # user THEN g[n] ELSE {}]

\* get_friends_response: no dictionary and an empty one give the same answer.
get_friends_response(g, user) == IF Known(g, user) THEN g[user] ELSE {}

Init ==
    /\ friends_graph = [s \in Server |-> <<>>]
    /\ sem = [s \in Server |-> 1]
    /\ pc = [t \in Thread |-> "idle"]
    /\ req = [t \in Thread |-> None]
    /\ todo = [t \in Thread |-> {}]
    /\ half = [t \in Thread |-> None]
    /\ body = [t \in Thread |-> {}]
    /\ asked = 0

Goto(t, label) == pc' = [pc EXCEPT ![t] = label]

-----------------------------------------------------------------------------
(* The clients.                                                            *)

\* main accepts the connection and starts a thread, which reads the request.
Connect(c) ==
    /\ pc[Own(c)] = "idle"
    /\ asked < MaxRequests
    /\ asked' = asked + 1
    /\ Goto(Own(c), "read")
    /\ UNCHANGED <<friends_graph, sem, req, todo, half, body>>

\* The request and its headers have arrived; a client may take its time.
Send(c, r) ==
    /\ pc[Own(c)] = "read"
    /\ Goto(Own(c), "P")
    /\ req' = [req EXCEPT ![Own(c)] = r]
    /\ UNCHANGED <<friends_graph, sem, todo, half, body, asked>>

\* Mutant of Hangup: the semaphore is posted on the way out.
Hangup_posts(c) ==
    /\ pc[Own(c)] = "read"
    /\ Goto(Own(c), "idle")
    /\ \E s \in Server : sem' = [sem EXCEPT ![s] = @ + 1]
    /\ UNCHANGED <<friends_graph, req, todo, half, body, asked>>

\* Or it hangs up, or sends what is no request: nothing is served.
Hangup(c) ==
    /\ pc[Own(c)] = "read"
    /\ Goto(Own(c), "idle")
    /\ UNCHANGED <<friends_graph, sem, req, todo, half, body, asked>>

-----------------------------------------------------------------------------
(* A thread in doit.                                                       *)

\* Mutant of P: the thread goes on without the semaphore.
P_unlocked(t) ==
    /\ pc[t] = "P"
    /\ Goto(t, "serve")
    /\ UNCHANGED <<friends_graph, sem, req, todo, half, body, asked>>

P(t) ==
    /\ pc[t] = "P"
    /\ sem[req[t].at] > 0
    /\ sem' = [sem EXCEPT ![req[t].at] = @ - 1]
    /\ Goto(t, "serve")
    /\ UNCHANGED <<friends_graph, req, todo, half, body, asked>>

\* The start of serve_friends and serve_unfriend; an unknown user has nobody
\* to remove.
Lookup(t) == LET r == req[t] IN
    /\ pc[t] = "serve"
    /\ r.op \in {"friends", "unfriend"}
    /\ todo' = [todo EXCEPT ![t] = IF r.op = "unfriend" /\ Known(friends_graph[r.at], r.user)
                                THEN r.friends ELSE {}]
    /\ Goto(t, "work")
    /\ UNCHANGED <<friends_graph, sem, req, half, body, asked>>

\* The start of serve_befriend, and of serve_introduce on the same server: the
\* friends to add, and a dictionary for the user.
Gather(t) == LET r == req[t]
                 g == friends_graph[r.at] IN
    /\ pc[t] = "serve"
    /\ \/ r.op = "befriend"
       \/ r.op = "introduce" /\ r.from = r.at
    /\ IF r.op = "introduce" /\ ~Known(g, r.friend)
       THEN UNCHANGED <<todo, friends_graph>>
       ELSE /\ todo' = [todo EXCEPT ![t] = IF r.op = "befriend" THEN r.friends
                                           ELSE g[r.friend] \cup {r.friend}]
            /\ friends_graph' = [friends_graph EXCEPT ![r.at] = WithUser(g, r.user)]
    /\ Goto(t, "work")
    /\ UNCHANGED <<sem, req, half, body, asked>>

\* serve_introduce for another server: connect and send it a /friends request.
Fetch(t) == LET r == req[t] IN
    /\ pc[t] = "serve"
    /\ r.op = "introduce" /\ r.from # r.at
    /\ pc[Remote(t)] = "idle"
    /\ pc' = [pc EXCEPT ![t] = "fetch", ![Remote(t)] = "P"]
    /\ req' = [req EXCEPT ![Remote(t)] =
                  [op |-> "friends", at |-> r.from, user |-> r.friend, friends |-> {}]]
    /\ UNCHANGED <<friends_graph, sem, todo, half, body, asked>>

\* Mutant of Add: the user itself is not passed over.
Add_self(t) == LET r == req[t] IN
    /\ pc[t] \in {"work", "fetch"} /\ half[t] = None
    /\ r.op \in {"befriend", "introduce"}
    /\ \E f \in todo[t] :
        LET g == WithUser(WithUser(friends_graph[r.at], r.user), f) IN
        /\ half' = [half EXCEPT ![t] = f]
        /\ friends_graph' = [friends_graph EXCEPT ![r.at] = [g EXCEPT ![r.user] = @ \cup {f}]]
    /\ UNCHANGED <<todo, sem, pc, req, body, asked>>

\* The body of the loops of add_friends: a dictionary for the friend, and the
\* user's half of the friendship; the user itself is passed over.
Add(t) == LET r == req[t] IN
    /\ pc[t] \in {"work", "fetch"} /\ half[t] = None
    /\ r.op \in {"befriend", "introduce"}
    /\ \E f \in todo[t] :
        LET g == WithUser(WithUser(friends_graph[r.at], r.user), f) IN
        IF f = r.user
        THEN /\ todo' = [todo EXCEPT ![t] = @ \ {f}]
             /\ friends_graph' = [friends_graph EXCEPT ![r.at] = g]
             /\ UNCHANGED half
        ELSE /\ half' = [half EXCEPT ![t] = f]
             /\ friends_graph' = [friends_graph EXCEPT ![r.at] =
                                      [g EXCEPT ![r.user] = @ \cup {f}]]
             /\ UNCHANGED todo
    /\ UNCHANGED <<sem, pc, req, body, asked>>

\* The same for remove_friends; a friend without a dictionary is passed over.
Remove(t) == LET r == req[t] IN
    /\ pc[t] = "work" /\ half[t] = None
    /\ r.op = "unfriend"
    /\ \E f \in todo[t] :
        IF ~Known(friends_graph[r.at], f)
        THEN /\ todo' = [todo EXCEPT ![t] = @ \ {f}]
             /\ UNCHANGED <<half, friends_graph>>
        ELSE /\ half' = [half EXCEPT ![t] = f]
             /\ friends_graph' = [friends_graph EXCEPT ![r.at][r.user] = @ \ {f}]
             /\ UNCHANGED todo
    /\ UNCHANGED <<sem, pc, req, body, asked>>

\* The friend's half of the friendship.
Reciprocate(t) == LET r == req[t]
                      f == half[t] IN
    /\ f # None
    /\ friends_graph' = [friends_graph EXCEPT ![r.at][f] =
                             IF r.op = "unfriend" THEN @ \ {r.user} ELSE @ \cup {r.user}]
    /\ half' = [half EXCEPT ![t] = None]
    /\ todo' = [todo EXCEPT ![t] = @ \ {f}]
    /\ UNCHANGED <<sem, pc, req, body, asked>>

\* The answer is composed and written.  What a server that introduces its user
\* is told arrives there as the friends to add.
Respond(t) == LET r == req[t]
                  friends == get_friends_response(friends_graph[r.at], r.user) IN
    /\ pc[t] = "work" /\ todo[t] = {} /\ half[t] = None
    /\ body' = [body EXCEPT ![t] = friends]
    /\ todo' = IF t = Own(t[1]) THEN todo ELSE [todo EXCEPT ![Own(t[1])] = friends]
    /\ Goto(t, "V")
    /\ UNCHANGED <<friends_graph, sem, req, half, asked>>

\* Mutant of V: an introduction from another server leaves without it.
V_skipped(t) ==
    /\ pc[t] = "V"
    /\ sem' = IF req[t].op = "introduce" /\ req[t].from # req[t].at THEN sem
              ELSE [sem EXCEPT ![req[t].at] = @ + 1]
    /\ Goto(t, "close")
    /\ UNCHANGED <<friends_graph, req, todo, half, body, asked>>

V(t) ==
    /\ pc[t] = "V"
    /\ sem' = [sem EXCEPT ![req[t].at] = @ + 1]
    /\ Goto(t, "close")
    /\ UNCHANGED <<friends_graph, req, todo, half, body, asked>>

\* The end of the answer is the end of the connection: only then does an
\* introduction know that it has read every friend.
Close(t) ==
    /\ pc[t] = "close"
    /\ pc' = [pc EXCEPT ![t] = "idle",
                        ![Own(t[1])] = IF t = Own(t[1]) THEN "idle" ELSE "work"]
    /\ req' = [req EXCEPT ![t] = None]
    /\ body' = [body EXCEPT ![t] = {}]
    /\ UNCHANGED <<friends_graph, sem, todo, half, asked>>

-----------------------------------------------------------------------------
Step(t) == \/ P(t) \/ Lookup(t) \/ Gather(t) \/ Fetch(t)
           \/ Add(t) \/ Remove(t) \/ Reciprocate(t)
           \/ Respond(t) \/ V(t) \/ Close(t)

Next == \/ \E c \in Client : Connect(c) \/ Hangup(c) \/ \E r \in Requests : Send(c, r)
        \/ \E t \in Thread : Step(t)

\* Every thread that can run does; clients need do nothing.
Fairness == \A t \in Thread : WF_vars(Step(t))

Spec == Init /\ [][Next]_vars
FairSpec == Spec /\ Fairness

-----------------------------------------------------------------------------
\* The types of the variables.
TypeOK ==
    /\ \A s \in Server : /\ DOMAIN friends_graph[s] \subseteq Name
                         /\ \A n \in DOMAIN friends_graph[s] : friends_graph[s][n] \subseteq Name
    /\ DOMAIN friends_graph = Server
    /\ sem \in [Server -> {0, 1}]
    /\ pc \in [Thread -> {"idle", "read", "P", "serve", "fetch", "work", "V", "close"}]
    /\ todo \in [Thread -> SUBSET Name] /\ body \in [Thread -> SUBSET Name]
    /\ half \in [Thread -> Name \cup {None}]
    /\ asked \in 0 .. MaxRequests

\* Whenever nobody holds the semaphore of a server, friendship is mutual there,
\* nobody is its own friend, and every friend is known.
MutualWhenFree == \A s \in Server : LET g == friends_graph[s] IN
    sem[s] = 1 => \A a \in DOMAIN g : \A b \in g[a] : b # a /\ Known(g, b) /\ a \in g[b]

\* The servers of S wait for each other: each holds its semaphore for an
\* introduction that waits for the semaphore of another.
StuckTogether(S) == \A s \in S : \E c \in Client :
    /\ pc[Own(c)] = "fetch" /\ req[Own(c)].at = s
    /\ pc[Remote(Own(c))] = "P" /\ req[Remote(Own(c))].at \in S

Circle == \E S \in SUBSET Server \ {{}} : StuckTogether(S)

\* Whoever has sent a request is answered, however slow other clients are,
\* unless servers that introduce users to each other wait in a circle.
AnsweredUnlessCircle == \A c \in Client : (pc[Own(c)] = "P") ~> (pc[Own(c)] = "idle" \/ Circle)

\* trouble.rkt:42 "seems too long": a request is answered.
Answered == \A c \in Client : (pc[Own(c)] = "P") ~> (pc[Own(c)] = "idle")

\* The graph of server s once the thread inside has added or removed what it
\* still has to.
Inside(s) == {t \in Thread : pc[t] \in {"work", "fetch"} /\ req[t].at = s /\ todo[t] # {}}
Completed(s) ==
    LET g == friends_graph[s] IN
    IF Inside(s) = {} THEN g
    ELSE LET t == CHOOSE t \in Inside(s) : TRUE
             u == req[t].user IN
         IF req[t].op = "unfriend"
         THEN [n \in DOMAIN g |-> IF n = u THEN g[n] \ todo[t]
                                  ELSE IF n \in todo[t] THEN g[n] \ {u} ELSE g[n]]
         ELSE [n \in DOMAIN g \cup todo[t] \cup {u} |->
                  IF n = u THEN get_friends_response(g, n) \cup (todo[t] \ {u})
                  ELSE get_friends_response(g, n) \cup (IF n \in todo[t] THEN {u} ELSE {})]

\* A request has taken effect once its thread knows what to do: an introduction
\* from another server, once that server has composed its answer.
TookEffect(c) == \/ pc[Own(c)] \in {"work", "V", "close"}
                 \/ pc[Own(c)] = "fetch" /\ pc[Remote(Own(c))] \in {"V", "close"}

Graph == INSTANCE FriendGraph WITH
    friends_graph <- [s \in Server |-> Completed(s)],
    pending <- [c \in Client |-> req[Own(c)]],
    answer <- [c \in Client |->
        IF ~TookEffect(c) THEN None
        ELSE IF pc[Own(c)] \in {"V", "close"} THEN body[Own(c)]
        ELSE get_friends_response(Completed(req[Own(c)].at), req[Own(c)].user)]

\* Every request takes effect at one instant, on the whole graph, and its
\* answer is the one of that instant.
ServesAtomically == Graph!Spec
=============================================================================
