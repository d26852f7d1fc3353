--------------------------- MODULE TheoryStoreInv ---------------------------
(***************************************************************************)
(* The inductive invariant behind the safety properties of TheoryStore: a  *)
(* part about the store and its cells, one about each request, and one     *)
(* about each pair of requests.                                            *)
(***************************************************************************)
EXTENDS TheoryStore

\* Requests that hold a snapshot, and those that also hold an attempt.
Holding == BuildSteps \cup {"attempt", "enter", "retire", "load", "replace", "work"}
Attempting == BuildSteps \cup {"enter", "retire"}
Busy(p) == pc[p] # "idle"

\* Indices stay below some bound, so there is always a greatest one.
Bounded == \E b \in Nat : \A i \in DOMAIN by_idx : i <= b

\* A generation is unused until its operation puts an entry into the store;
\* only the last attempt of a cell can be open, running or successful.
CellsInv ==
  /\ \A g \in Gen : g > started => cell[g] = <<>>
  /\ \A g \in Gen : \A n \in 1..Len(cell[g]) : n < Len(cell[g]) => cell[g][n] \in Failures

\* The generation of an entry has a cell, belongs to one index, and its proof
\* state is made from the entry's theory; no attempt of it is stale.
EntriesInv ==
  /\ \A i \in DOMAIN by_idx : cell[by_idx[i].gen] # <<>>
  /\ \A i, j \in DOMAIN by_idx : by_idx[i].gen = by_idx[j].gen => i = j
  /\ \A i \in DOMAIN by_idx : \A n \in 1..Len(cell[by_idx[i].gen]) :
       LET v == cell[by_idx[i].gen][n]
       IN  v.st # "stale" /\ (v.st = "ok" => v.thy = by_idx[i].thy)

\* The operation of a request has not created anything before it is answered.
OpInv(p) ==
  /\ Busy(p) => req[p].op \in 1..started
  /\ Busy(p) /\ pc[p] # "reply" => cell[req[p].op] = <<>>

\* The snapshot of a request: an entry that is at the request's index or
\* nowhere, with a proof state made from its theory.
SnapInv(p) ==
  pc[p] \in Holding =>
    /\ snap[p] \in Entry
    /\ cell[snap[p].gen] # <<>>
    /\ \A i \in DOMAIN by_idx :
         by_idx[i].gen = snap[p].gen => i = req[p].idx /\ by_idx[i] = snap[p]
    /\ \A n \in 1..Len(cell[snap[p].gen]) :
         cell[snap[p].gen][n].st = "ok" => cell[snap[p].gen][n].thy = snap[p].thy

\* The attempt of a request: claimed while it builds, finished when it leaves.
AttemptInv(p) ==
  /\ pc[p] \in Attempting => att[p] \in 1..Len(cell[snap[p].gen])
  /\ pc[p] \in BuildSteps => Lock(p) = Blank("running")
  /\ pc[p] = "retire" => res[p] \in Filled /\ Lock(p) = res[p]

\* The result of a request: of the right kind, made from the snapshot's theory,
\* and stale only if the generation has left the store.
ResultInv(p) ==
  /\ pc[p] = "check" => res[p] \in Proofs \cup {Blank("failed")}
  /\ pc[p] = "publish" => res[p] \in Filled
  /\ pc[p] = "publish" /\ res[p].st = "stale" =>
       \A i \in DOMAIN by_idx : by_idx[i].gen # snap[p].gen
  /\ pc[p] = "work" => res[p].st = "ok"
  /\ pc[p] \in {"check", "publish", "retire", "work", "reply"} /\ res[p].st = "ok" =>
       res[p].thy = snap[p].thy
  /\ pc[p] \in {"load", "replace"} => snap[p].origin # Uploaded

RequestInv(p) == OpInv(p) /\ SnapInv(p) /\ AttemptInv(p) /\ ResultInv(p)

\* Two requests have operations of their own, agree on a generation they both
\* hold, and never build the same attempt.
PairInv(p, q) ==
  /\ Busy(p) /\ Busy(q) => req[p].op # req[q].op
  /\ pc[p] \in Holding /\ pc[q] \in Holding /\ snap[p].gen = snap[q].gen =>
       snap[p] = snap[q] /\ req[p].idx = req[q].idx
  /\ pc[p] \in BuildSteps /\ pc[q] \in BuildSteps /\ snap[p].gen = snap[q].gen =>
       att[p] # att[q]

\* Everything TLC can evaluate of it: Bounded holds of every finite domain.
StoreInvFinite ==
  /\ TypeOK /\ CellsInv /\ EntriesInv /\ FailureIsForgotten
  /\ \A p \in Clients : RequestInv(p)
  /\ \A p, q \in Clients : p # q => PairInv(p, q)

StoreInv == Bounded /\ StoreInvFinite
=============================================================================
