------------------------------- MODULE MCAuth --------------------------------
(* Auth with two users, the id of one of whom goes on where that of the     *)
(* other ends, an hour of one, and limits under which the requests that a   *)
(* user makes as a chatter count against those as a reader.                 *)
EXTENDS Auth

MCLimit == [role \in Roles |-> CASE role = "admin" -> 0 [] role = "user" -> 2 [] OTHER -> 1]
MCUsers == {<<"a">>, <<"a", "b">>}
MCUserIds == MCUsers \cup {<<"b">>, <<"a", "c">>}
MCAsked == {<<"api">>} \cup {OwnedBy(u) \o <<"api">> : u \in Users}
Symmetry == Permutations(Clients)
=============================================================================
