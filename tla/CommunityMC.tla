---------------------------- MODULE CommunityMC ----------------------------
(* A small instance of Community for TLC. *)
EXTENDS Community, TLC

CONSTANTS a, b, c, r1, r2, i1, i2, w1, w2

\* Nothing tells the workers, the requests or the users but the founder apart.
Symmetric == Permutations(Workers) \cup Permutations(Requests) \cup Permutations(Users \ {Founder})

\* States that differ in what no step looks at any more.  The chat of a member is not
\* looked at, and may be left or entered again at any time; once the clients have sent
\* all their requests, neither are the door, the code and past, nor the chat of
\* whom no request is about.
About == IF begun < MaxBegun THEN Users ELSE {hand[w].who : w \in Workers}
Seen  == <<owner, members, roles, (chat \cap About) \ members, request, invitation, history,
           begun, hand, IF begun < MaxBegun THEN <<door, code, past>> ELSE <<>> >>
=============================================================================
