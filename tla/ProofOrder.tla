----------------------------- MODULE ProofOrder -----------------------------
(***************************************************************************)
(* The order in which the steps of a proof are listed: a step before what  *)
(* is below it, and its cases by name.                                     *)
(***************************************************************************)
EXTENDS Naturals, Sequences

CONSTANT Names    \* case names in the order of BTreeMap

CaseNames == {Names[i] : i \in DOMAIN Names}
Rank(k) == CHOOSE i \in DOMAIN Names : Names[i] = k

\* p comes before q: it is above q, or turns off to an earlier case.
PathBefore(p, q) ==
  \E i \in 1..Len(q) :
    /\ i <= Len(p) + 1
    /\ \A j \in 1..(i - 1) : p[j] = q[j]
    /\ i <= Len(p) => Rank(p[i]) < Rank(q[i])

\* A list of steps, each a path and a method, in this order, from the root.
InOrder(paths) ==
  /\ paths # <<>> /\ paths[1].path = <<>>
  /\ \A i, j \in 1..Len(paths) : i < j => PathBefore(paths[i].path, paths[j].path)
=============================================================================
