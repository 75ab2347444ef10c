----------------------------- MODULE MCFriendServer -----------------------------
(* Two servers, and requests that make, break and carry over friendships. *)
EXTENDS FriendServer

CONSTANTS s1, s2, alice, bob, carol

Request(op, s, user, friends) == [op |-> op, at |-> s, user |-> user, friends |-> friends]
Introduce(s, user, friend, from) ==
    [op |-> "introduce", at |-> s, user |-> user, friends |-> {}, friend |-> friend, from |-> from]

MCRequests == {
    Request("befriend", s1, alice, {alice, bob, carol}),
    Request("befriend", s2, carol, {bob}),
    Request("unfriend", s1, bob, {alice, carol}),
    Request("friends", s1, alice, {}),
    Introduce(s1, alice, carol, s2),
    Introduce(s2, bob, alice, s1),
    Introduce(s1, carol, bob, s1)}
=============================================================================
