--------------------------- MODULE MCProofSearch ---------------------------
(***************************************************************************)
(* Small search spaces for ProofSearch: every tree with at most two cases  *)
(* per node and three levels of cases, with the kinds of system listed for *)
(* each level, and some trees of four levels.                              *)
(***************************************************************************)
EXTENDS ProofSearch

CONSTANTS Leaves0, Leaves1, Leaves2, Leaves3,   \* the kinds of a leaf, by depth
          WithSingles                           \* nodes with one case, too

Leaf(k) == [n \in {<<>>} |-> k]

\* The world whose cases 1, 2, .. are the worlds of the sequence ws.
Joined(ws) ==
  [n \in {<<>>} \cup UNION {{<<c>> \o m : m \in DOMAIN ws[c]} : c \in DOMAIN ws} |->
     IF n = <<>> THEN "open" ELSE ws[n[1]][Tail(n)]]

Split(W) == {Joined(<<v, w>>) : v \in W, w \in W}
              \cup (IF WithSingles THEN {Joined(<<w>>) : w \in W} ELSE {})

Depth3 == {Leaf(k) : k \in Leaves3}
Depth2 == {Leaf(k) : k \in Leaves2} \cup Split(Depth3)
Depth1 == {Leaf(k) : k \in Leaves1} \cup Split(Depth2)
Depth0 == {Leaf(k) : k \in Leaves0} \cup Split(Depth1)

\* Worlds in which the limit is met in the second round as well: below depth 2 one
\* case goes down to depth 4, or fans out once, or both.
Below == {Joined(<<Joined(<<Leaf(k)>>)>>) : k \in Leaves3}
           \cup {Joined(<<v, w>>) : v \in Depth3, w \in Depth3}
Deep == {Joined(<<Joined(<<v>>), Joined(<<w>>)>>) : v \in Below, w \in Below}
          \cup {Joined(<<Joined(<<v, w>>)>>) : v \in Below, w \in Below}
Both == Depth0 \cup Deep

Setup(cuts, exists, fallible, bounds, timed, keep) ==
  [cut : cuts, exists : exists, fallible : fallible, bound : bounds, timed : timed, keep : keep]

\* The default strategy, for an all-traces and for an exists-trace lemma, with a
\* bound at the depth of the first limit, one behind it, and none.
DfsSetups == Setup({"Dfs"}, BOOLEAN, {FALSE}, {2, 99}, {FALSE}, {"KeepSolved"})
               \cup Setup({"Dfs"}, {TRUE}, {FALSE}, {3}, {FALSE}, {"KeepSolved"})
\* The other strategies, with and without a bound that bites.
OtherCuts == {"SeqDfs", "Bfs", "AfterSorry", "Nothing"}
CutSetups == Setup(OtherCuts, {FALSE}, {FALSE}, {2, 99}, {FALSE}, {"KeepSolved"})
\* Everything, rankings that fail included.
AllSetups == Setup(Strategies, {FALSE}, BOOLEAN, {2, 99}, BOOLEAN, {"KeepAll"})
=============================================================================
