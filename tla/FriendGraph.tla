------------------------------- MODULE FriendGraph -------------------------------
(***************************************************************************)
(* What the friend-list servers promise their clients: every request takes *)
(* effect at once, on a graph of friends that is the server's own, some    *)
(* time between the asking and the answer.  An introduction reads the      *)
(* other server's graph and changes its own in the same instant.           *)
(***************************************************************************)
EXTENDS FiniteSets, Naturals

CONSTANTS Server, Client, Name, \* servers by port, clients, names of users
          Requests,             \* the requests clients send
          None                  \* no request

VARIABLES friends_graph, \* of each server: of each user known, the friends
          pending,       \* the request of each client, or None
          answer         \* the friends reported to each client, or None

vars == <<friends_graph, pending, answer>>

Known(g, user) == user \in DOMAIN g
FriendsOf(g, user) == IF Known(g, user) THEN g[user] ELSE {}

\* The graph g with user and each of new as friends; user never befriends itself.
Joined(g, user, new) ==
    [n \in DOMAIN g \cup {user} \cup new |->
        IF n = user THEN FriendsOf(g, n) \cup (new \ {user})
        ELSE IF n \in new THEN FriendsOf(g, n) \cup {user}
        ELSE g[n]]

\* The graph g without the friendships of user with each of old.
Parted(g, user, old) ==
    [n \in DOMAIN g |-> IF n = user THEN g[n] \ (old \cap DOMAIN g)
                        ELSE IF n \in old /\ Known(g, user) THEN g[n] \ {user}
                        ELSE g[n]]

\* An introduction on the same server befriends the friend too, and only if it
\* is known; one from another server adds what that server reports.
Introduced(gs, r) ==
    IF r.from = r.at
    THEN IF Known(gs[r.at], r.friend)
         THEN Joined(gs[r.at], r.user, gs[r.at][r.friend] \cup {r.friend})
         ELSE gs[r.at]
    ELSE LET reported == FriendsOf(gs[r.from], r.friend)
         IN  IF reported = {} THEN gs[r.at] ELSE Joined(gs[r.at], r.user, reported)

After(gs, r) ==
    CASE r.op = "friends"   -> gs[r.at]
      [] r.op = "befriend"  -> Joined(gs[r.at], r.user, r.friends)
      [] r.op = "unfriend"  -> Parted(gs[r.at], r.user, r.friends)
      [] r.op = "introduce" -> Introduced(gs, r)

Init ==
    /\ friends_graph = [s \in Server |-> <<>>]
    /\ pending = [c \in Client |-> None]
    /\ answer = [c \in Client |-> None]

Ask(c) == \E r \in Requests :
    /\ pending[c] = None
    /\ pending' = [pending EXCEPT ![c] = r]
    /\ answer' = [answer EXCEPT ![c] = None]
    /\ UNCHANGED friends_graph

Serve(c) == LET r == pending[c] IN
    /\ r # None /\ answer[c] = None
    /\ friends_graph' = [friends_graph EXCEPT ![r.at] = After(friends_graph, r)]
    /\ answer' = [answer EXCEPT ![c] = FriendsOf(friends_graph'[r.at], r.user)]
    /\ UNCHANGED pending

Finish(c) ==
    /\ answer[c] # None
    /\ pending' = [pending EXCEPT ![c] = None]
    /\ answer' = [answer EXCEPT ![c] = None]
    /\ UNCHANGED friends_graph

Next == \E c \in Client : Ask(c) \/ Serve(c) \/ Finish(c)

Spec == Init /\ [][Next]_vars
-----------------------------------------------------------------------------
\* Friendship is mutual, nobody is a friend of itself, and friends are known.
Mutual(g) == \A a \in DOMAIN g : \A b \in g[a] : b # a /\ Known(g, b) /\ a \in g[b]
GraphsAreMutual == \A s \in Server : Mutual(friends_graph[s])
=============================================================================
