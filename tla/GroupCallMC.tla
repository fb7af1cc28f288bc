---------------------------- MODULE GroupCallMC -----------------------------
(***************************************************************************)
(* Small instances of GroupCall: a user with a second tab, and a tab each. *)
(***************************************************************************)
EXTENDS GroupCall, TLC

CONSTANTS a, b, c, s1, s2, s3, k1, k2

TabEach  == (s1 :> a) @@ (s2 :> b) @@ (s3 :> c)
TwoTabs  == (s1 :> a) @@ (s2 :> a) @@ (s3 :> b)

\* Either user may mute the other as creator, the one with two tabs has a camera.
MuteAndVideo == {<<a, "mute">>, <<b, "mute">>, <<a, "video">>}

\* Users are interchangeable together with their sockets.
Moved(p) == p @@ [s \in {s1, s2, s3} |->
    CHOOSE x \in {s1, s2, s3} : TabEach[x] = p[TabEach[s]]]
TabEachSymmetry == {Moved(p) : p \in Permutations({a, b, c})}
=============================================================================
