---------------------------- MODULE MCReplayFiles ----------------------------
(***************************************************************************)
(* A lemma whose start system 1 has at most two cases, 2 and 3, where 2    *)
(* may lead to 3; every stored proof of two levels over the cases, and     *)
(* some of three, fresh or stale, and what several runs make of them with  *)
(* one edit of the theory.                                                 *)
(***************************************************************************)
EXTENDS ReplayFiles

Sys == {1, 2, 3}

\* Case names may be words of methods.
OrderedNames ==
  <<"", "Solved", "Unfinishable", "a", "b", "by", "Contradictory", "invalidated", "simplify", "sorry">>

NoCase == [n \in {} |-> None]
One(n, s) == [k \in {n} |-> s]
Two(s, t) == [k \in {"a", "b"} |-> IF k = "a" THEN s ELSE t]

Ends == {"Solved", "Contradictory", "Unfinishable"}
Fins == {f \in [Sys -> Ends \cup {"open"}] :
           /\ f[1] = "open" /\ f[3] # "open"
           /\ f[2] = "Unfinishable" => f[3] = "Contradictory"
           /\ f[3] = "Unfinishable" => f[2] = "open"}
RootSteps == {<<None, One("a", 2)>>, <<One("", 2), None>>, <<Two(2, 3), NoCase>>, <<Two(3, 2), One("b", 2)>>}
CaseSteps == {<<None, None>>, <<NoCase, None>>, <<One("", 3), One("a", 3)>>}

Execs(pair) == [m \in {"simplify", "solve"} |-> IF m = "simplify" THEN pair[1] ELSE pair[2]]
Worlds ==
  {c \in {[fin |-> f, exec |-> <<Execs(r), Execs(k), Execs(<<None, None>>)>>, solvable |-> sol] :
            f \in Fins, r \in RootSteps, k \in CaseSteps, sol \in SUBSET Sys} :
     /\ Sound(c)
     /\ c.fin[2] # "open" => c.exec[2]["solve"] # None}

\* Stored proofs, written as trees and laid out by position.
Stored(m) == [method |-> m, cases |-> <<>>]

RECURSIVE LaidOut(_, _)
LaidOut(name, tree) ==
  LET sub(i) == LaidOut(tree.cases[i][1], tree.cases[i][2])
      below == UNION {{<<i>> \o u : u \in DOMAIN sub(i)} : i \in 1..Len(tree.cases)}
  IN [u \in {<<>>} \cup below |->
        IF u = <<>> THEN [name |-> name, method |-> tree.method] ELSE sub(Head(u))[Tail(u)]]

Leaves == {Stored(m) : m \in {"sorry", "Solved", "Contradictory", "simplify"}}
Case(n, t) == <<n, t>>
Tree(m, cs) == [method |-> m, cases |-> cs]
Lower == {Tree("simplify", <<Case("", l)>>) : l \in {Stored("Solved"), Stored("Contradictory")}}
WrittenTrees ==
  Leaves
  \cup {Tree(m, <<Case("", t)>>) : m \in {"simplify", "solve"}, t \in Leaves}
  \cup {Tree("simplify", <<Case("", t)>>) : t \in Lower}
  \cup {Tree("simplify", <<Case("a", t), Case("b", Stored("Contradictory"))>>) : t \in Leaves \cup Lower}
  \cup {Tree("solve", <<Case("b", t)>>) : t \in Leaves}
  \cup {Tree("Contradictory", <<Case("a", Stored("Solved"))>>),
         Tree("sorry", <<Case("a", Stored("Contradictory"))>>),
         Tree("simplify", <<Case("a", Stored("Solved")), Case("a", Stored("Contradictory"))>>),
         Stored("invalidated"), Stored("Unfinishable")}

Written == {LaidOut("", t) : t \in WrittenTrees}
=============================================================================
