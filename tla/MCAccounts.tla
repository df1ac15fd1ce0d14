----------------------------- MODULE MCAccounts ----------------------------
(***************************************************************************)
(* Two names, two browsers and an invitation for one account.              *)
(***************************************************************************)
EXTENDS Accounts, TLC

MCInviteLimit == [i \in Invites |-> 1]

\* Nobody begins what is going to be refused whatever others do: a name stays
\* registered, and a login compares at once.
Begun ==
  /\ \A w \in Clients : request[w] = None /\ request'[w] # None =>
       /\ request'[w].kind = "setup" => NoUsers
       /\ request'[w].kind = "register" => ~Known(request'[w].user)
  /\ \A u \in Users : attempts'[u] > attempts[u] => request' # request

Same == Permutations(Users) \cup Permutations(Clients) \cup Permutations(Passwords)

=============================================================================
