------------------------ MODULE TheoryStore_proofs ------------------------
(***************************************************************************)
(* The safety properties of TheoryStore hold for every number of clients,  *)
(* files and operations.  StoreInv (module TheoryStoreInv) is inductive:   *)
(* frame lemmas say what a kind of step leaves true of everything it does  *)
(* not touch, then one lemma per action proves the rest.                   *)
(***************************************************************************)
EXTENDS TheoryStoreInv, FiniteSetTheorems, SequenceTheorems, WellFoundedInduction, TLAPS

-----------------------------------------------------------------------------
(* Facts about the operators the actions are made of.                      *)

\* A nonempty set of naturals with an upper bound has a greatest element.
LEMMA MaxExists ==
  ASSUME NEW D, D \subseteq Nat, D # {}, NEW b \in Nat, \A i \in D : i <= b
  PROVE  \E m \in D : \A j \in D : j <= m
<1> DEFINE T == {n \in Nat : \A i \in D : i <= n}
           R == OpToRel(<, Nat)
<1>1. T \subseteq Nat /\ T # {}
  OBVIOUS
<1>2. PICK m \in T : \A y \in T : ~ (<<y, m>> \in R)
  <2> HIDE DEF T, R
  <2> QED BY <1>1, NatLessThanWellFounded, WFMin DEF R
<1>3. \A y \in Nat, x \in Nat : y < x => <<y, x>> \in R
  BY DEF OpToRel
<1>4. m \in D
  <2>1. SUFFICES ASSUME m \notin D PROVE FALSE
    OBVIOUS
  <2>2. \A i \in D : i <= m - 1
    BY <2>1
  <2>3. PICK d \in D : TRUE
    OBVIOUS
  <2>4. m \in Nat /\ d \in Nat /\ d <= m - 1
    BY <2>2, <2>3
  <2>5. m - 1 \in Nat /\ m - 1 < m
    BY <2>4
  <2>6. <<m - 1, m>> \in R
    <3> HIDE DEF R
    <3> QED BY <2>4, <2>5, <1>3
  <2>7. m - 1 \in T
    BY <2>2, <2>5
  <2> QED BY <2>6, <2>7, <1>2
<1> QED BY <1>4

\* The index insert picks is above all those in use (M.findMax + 1).
LEMMA NextFreeIdx ==
  ASSUME DOMAIN by_idx \subseteq Nat \ {0}, Bounded
  PROVE  /\ next_free_idx \in Nat \ {0}
         /\ \A i \in DOMAIN by_idx : i < next_free_idx
<1>1. CASE DOMAIN by_idx = {}
  BY <1>1 DEF next_free_idx
<1>2. CASE DOMAIN by_idx # {}
  <2>1. \E m \in DOMAIN by_idx : \A j \in DOMAIN by_idx : j <= m
    BY <1>2, MaxExists DEF Bounded
  <2> QED BY <2>1, <1>2 DEF next_free_idx
<1> QED BY <1>1, <1>2

\* What Put does to the map.
LEMMA PutFacts ==
  ASSUME NEW i, NEW e, Put(i, e)
  PROVE  /\ DOMAIN by_idx' = DOMAIN by_idx \cup {i}
         /\ by_idx'[i] = e
         /\ \A j \in DOMAIN by_idx : j # i => by_idx'[j] = by_idx[j]
         /\ by_idx' = [j \in DOMAIN by_idx' |-> by_idx'[j]]
BY DEF Put

\* A new cell concerns its generation only, and holds one attempt.
LEMMA NewCellFacts ==
  ASSUME TypeOK, NEW g \in Gen, NEW v \in OnceLock, NewCell(g, v)
  PROVE  /\ cell' \in [Gen -> Seq(OnceLock)]
         /\ \A h \in Gen : h # g => cell'[h] = cell[h]
         /\ Len(cell'[g]) = 1 /\ cell'[g][1] = v /\ cell'[g] # <<>>
BY DEF NewCell, TypeOK

\* Writing to an attempt concerns that attempt only.
LEMMA SetLockFacts ==
  ASSUME TypeOK, NEW p \in Clients, snap[p].gen \in Gen,
         att[p] \in 1..Len(cell[snap[p].gen]), NEW v \in OnceLock, SetLock(p, v)
  PROVE  /\ cell' \in [Gen -> Seq(OnceLock)]
         /\ \A h \in Gen : Len(cell'[h]) = Len(cell[h])
         /\ \A h \in Gen : h # snap[p].gen => cell'[h] = cell[h]
         /\ \A n \in 1..Len(cell[snap[p].gen]) :
              cell'[snap[p].gen][n] = IF n = att[p] THEN v ELSE cell[snap[p].gen][n]
         /\ \A h \in Gen : cell[h] # <<>> <=> cell'[h] # <<>>
<1> DEFINE g == snap[p].gen
           s == cell[g]
           t == [s EXCEPT ![att[p]] = v]
<1>1. s \in Seq(OnceLock)
  BY DEF TypeOK
<1>2. cell' = [cell EXCEPT ![g] = t]
  BY DEF SetLock
<1>3. /\ t \in Seq(OnceLock) /\ Len(t) = Len(s)
      /\ \A n \in 1..Len(s) : t[n] = IF n = att[p] THEN v ELSE s[n]
  <2> HIDE DEF s, g
  <2> QED BY <1>1, ExceptSeq DEF s, g
<1>4. cell'[g] = t /\ \A h \in Gen : h # g => cell'[h] = cell[h]
  BY <1>2 DEF TypeOK
<1>5. cell' \in [Gen -> Seq(OnceLock)]
  <2> HIDE DEF t
  <2> QED BY <1>2, <1>3 DEF TypeOK
<1>6. s # <<>> /\ t # <<>>
  <2> HIDE DEF t, s
  <2> QED BY <1>1, <1>3, EmptySeq DEF s, t
<1> QED BY <1>3, <1>4, <1>5, <1>6

\* Retiring adds an open attempt at the end of one cell.
LEMMA AppendFacts ==
  ASSUME TypeOK, NEW g \in Gen, cell' = [cell EXCEPT ![g] = Append(@, Blank("empty"))]
  PROVE  /\ cell' \in [Gen -> Seq(OnceLock)]
         /\ \A h \in Gen : h # g => cell'[h] = cell[h]
         /\ Len(cell'[g]) = Len(cell[g]) + 1 /\ cell'[g] # <<>>
         /\ \A n \in 1..Len(cell[g]) : cell'[g][n] = cell[g][n]
         /\ cell'[g][Len(cell[g]) + 1] = Blank("empty")
<1>1. cell[g] \in Seq(OnceLock) /\ Blank("empty") \in OnceLock
  BY DEF TypeOK, OnceLock
<1> HIDE DEF OnceLock
<1>2. cell'[g] = Append(cell[g], Blank("empty")) /\ \A h \in Gen : h # g => cell'[h] = cell[h]
  BY DEF TypeOK
<1>3. cell' \in [Gen -> Seq(OnceLock)]
  BY <1>1, AppendProperties DEF TypeOK
<1> QED BY <1>1, <1>2, <1>3, AppendProperties

-----------------------------------------------------------------------------
(* What a step of one request leaves true of the others.                   *)

\* The request of q is where it was.
Same(q) ==
  /\ pc'[q] = pc[q] /\ req'[q] = req[q] /\ snap'[q] = snap[q]
  /\ att'[q] = att[q] /\ res'[q] = res[q]

OthersSame(p) == \A q \in Clients : q # p => Same(q)
OtherPairs(p) == \A q \in Clients : q # p => PairInv(p, q)

\* Pairs: only those with the request that moved need looking at.
LEMMA PairsStep ==
  ASSUME NEW p \in Clients, OthersSame(p), OtherPairs(p)',
         \A q, r \in Clients : q # r => PairInv(q, r)
  PROVE  \A q, r \in Clients : q # r => PairInv(q, r)'
<1> SUFFICES ASSUME NEW q \in Clients, NEW r \in Clients, q # r PROVE PairInv(q, r)'
  OBVIOUS
<1>1. CASE q = p
  BY <1>1 DEF OtherPairs
<1>2. CASE r = p
  <2>1. PairInv(r, q)'
    BY <1>2 DEF OtherPairs
  <2> QED BY <2>1 DEF PairInv, Busy
<1>3. CASE q # p /\ r # p
  <2>1. Same(q) /\ Same(r) /\ PairInv(q, r)
    BY <1>3 DEF OthersSame
  <2> QED BY <2>1 DEF PairInv, Same, Busy
<1> QED BY <1>1, <1>2, <1>3

\* A request that does not move keeps its invariant when its own operation's
\* cell, its attempt and the entry it holds a snapshot of are left alone.
LEMMA RequestFrame ==
  ASSUME NEW q \in Clients, RequestInv(q), Same(q),
         started \in Nat, started' \in Nat, started <= started',
         Busy(q) /\ pc[q] # "reply" => cell'[req[q].op] = cell[req[q].op],
         pc[q] \in Holding =>
           /\ cell'[snap[q].gen] # <<>>
           /\ \A i \in DOMAIN by_idx' : by_idx'[i].gen = snap[q].gen =>
                i \in DOMAIN by_idx /\ by_idx'[i] = by_idx[i]
           /\ \A n \in 1..Len(cell'[snap[q].gen]) :
                cell'[snap[q].gen][n].st = "ok" => cell'[snap[q].gen][n].thy = snap[q].thy,
         pc[q] \in Attempting => att[q] \in 1..Len(cell'[snap[q].gen]),
         pc[q] \in BuildSteps \/ pc[q] = "retire" => cell'[snap[q].gen][att[q]] = Lock(q)
  PROVE  RequestInv(q)'
<1>1. OpInv(q)'
  BY DEF RequestInv, OpInv, Busy, Same
<1>2. SnapInv(q)'
  BY DEF RequestInv, SnapInv, Same
<1>3. AttemptInv(q)'
  <2>1. pc[q] \in BuildSteps \/ pc[q] = "retire" => pc[q] \in Attempting
    BY DEF Attempting
  <2> QED BY <2>1 DEF RequestInv, AttemptInv, Same, Lock
<1>4. ResultInv(q)'
  <2>1. pc[q] = "publish" => pc[q] \in Holding
    BY DEF Holding, BuildSteps
  <2> QED BY <2>1 DEF RequestInv, ResultInv, Same
<1> QED BY <1>1, <1>2, <1>3, <1>4 DEF RequestInv

\* A step that touches neither the store nor a cell.
LEMMA PrivateFrame ==
  ASSUME StoreInv, NEW p \in Clients, OthersSame(p), by_idx' = by_idx, cell' = cell,
         started <= started', TypeOK', RequestInv(p)', OtherPairs(p)',
         pc[p] = "retire" => res[p] \notin Failures \/ att[p] # Len(cell[snap[p].gen])
  PROVE  StoreInv'
<1> USE DEF StoreInv, StoreInvFinite
<1>1. started \in Nat /\ started' \in Nat
  BY DEF TypeOK
<1>2. Bounded'
  BY DEF Bounded
<1>3. CellsInv'
  BY <1>1 DEF CellsInv, Gen, Ops
<1>4. EntriesInv'
  BY DEF EntriesInv
<1>5. ASSUME NEW q \in Clients PROVE RequestInv(q)'
  <2>1. CASE q # p
    <3>1. Same(q) /\ RequestInv(q)
      BY <2>1 DEF OthersSame
    <3>2. pc[q] \in Holding => SnapInv(q)
      BY <3>1 DEF RequestInv
    <3> QED BY <1>1, <3>1, RequestFrame DEF RequestInv, SnapInv, AttemptInv, Lock
  <2> QED BY <2>1
<1>6. \A q, r \in Clients : q # r => PairInv(q, r)'
  BY PairsStep
<1>7. FailureIsForgotten'
  <2> SUFFICES ASSUME NEW g \in Gen, cell[g] # <<>>, cell[g][Len(cell[g])] \in Failures
               PROVE  \E q \in Clients : pc'[q] = "retire" /\ snap'[q].gen = g /\ att'[q] = Len(cell[g])
    BY DEF FailureIsForgotten
  <2>1. PICK q \in Clients : pc[q] = "retire" /\ snap[q].gen = g /\ att[q] = Len(cell[g])
    BY DEF FailureIsForgotten
  <2>2. Lock(q) = res[q] /\ Lock(q) = cell[g][Len(cell[g])]
    BY <2>1 DEF RequestInv, AttemptInv, Lock
  <2>3. q # p
    BY <2>1, <2>2
  <2> QED BY <2>1, <2>3 DEF OthersSame, Same
<1> QED BY <1>2, <1>3, <1>4, <1>5, <1>6, <1>7

\* A request that keeps its operation and snapshot, and starts neither to hold
\* one nor to build, disturbs no pair.
LEMMA PairFrame ==
  ASSUME StoreInv, NEW p \in Clients, OthersSame(p),
         req'[p] = req[p], snap'[p] = snap[p], Busy(p),
         pc'[p] \in Holding => pc[p] \in Holding,
         pc'[p] \in BuildSteps => pc[p] \in BuildSteps /\ att'[p] = att[p]
  PROVE  OtherPairs(p)'
<1> SUFFICES ASSUME NEW q \in Clients, q # p PROVE PairInv(p, q)'
  BY DEF OtherPairs
<1>1. Same(q) /\ PairInv(p, q)
  BY DEF OthersSame, StoreInv, StoreInvFinite
<1> QED BY <1>1 DEF PairInv, Same, Busy

\* A step that writes v to the open or claimed attempt p holds.
LEMMA LockFrame ==
  ASSUME StoreInv, NEW p \in Clients, OthersSame(p),
         by_idx' = by_idx, started' = started, snap' = snap, att' = att,
         pc[p] \in Attempting, pc[p] \in Holding, NEW v \in OnceLock, SetLock(p, v),
         Lock(p) \in {Blank("empty"), Blank("running")},
         Lock(p) = Blank("running") => pc[p] \in BuildSteps,
         v.st = "ok" => v.thy = snap[p].thy,
         v.st = "stale" => \A i \in DOMAIN by_idx : by_idx[i].gen # snap[p].gen,
         v \in Failures => pc'[p] = "retire",
         pc' \in [Clients -> Steps], req' = req, res' \in [Clients -> Results],
         RequestInv(p)', OtherPairs(p)'
  PROVE  StoreInv'
<1> USE DEF StoreInv, StoreInvFinite
<1> DEFINE g == snap[p].gen
<1>1. SnapInv(p) /\ AttemptInv(p)
  BY DEF RequestInv
<1>2. /\ snap[p] \in Entry /\ g \in Gen /\ cell[g] \in Seq(OnceLock)
      /\ att[p] \in 1..Len(cell[g]) /\ Lock(p) = cell[g][att[p]]
  BY <1>1 DEF SnapInv, AttemptInv, TypeOK, Entry, Lock
<1>3. /\ cell' \in [Gen -> Seq(OnceLock)]
      /\ \A h \in Gen : Len(cell'[h]) = Len(cell[h])
      /\ \A h \in Gen : h # g => cell'[h] = cell[h]
      /\ \A n \in 1..Len(cell[g]) : cell'[g][n] = IF n = att[p] THEN v ELSE cell[g][n]
      /\ \A h \in Gen : cell[h] # <<>> <=> cell'[h] # <<>>
  BY <1>2, SetLockFacts
<1>4. Blank("empty") \notin Filled /\ Blank("running") \notin Filled /\ Failures \subseteq Filled
      /\ Blank("empty") # Blank("running")
  BY DEF Filled, Failures, Proofs, Blank
<1>5. att[p] = Len(cell[g])
  <2>1. Len(cell[g]) \in Nat
    BY <1>2
  <2> QED BY <1>2, <1>4, <2>1 DEF CellsInv
<1>6. TypeOK'
  BY <1>3 DEF TypeOK
<1>7. Bounded'
  BY DEF Bounded
<1>8. CellsInv'
  <2>1. \A h \in Gen : h > started' => cell'[h] = <<>>
    BY <1>3 DEF CellsInv
  <2>2. ASSUME NEW h \in Gen, NEW n \in 1..Len(cell'[h]), n < Len(cell'[h])
        PROVE  cell'[h][n] \in Failures
    BY <1>3, <1>5, <2>2 DEF CellsInv
  <2> QED BY <2>1, <2>2 DEF CellsInv
<1>9. EntriesInv'
  <2>1. \A i \in DOMAIN by_idx : by_idx[i].gen \in Gen
    BY DEF TypeOK, Entry
  <2>2. \A i \in DOMAIN by_idx : by_idx[i].gen = g => by_idx[i] = snap[p]
    BY <1>1 DEF SnapInv
  <2>3. ASSUME NEW i \in DOMAIN by_idx, NEW n \in 1..Len(cell'[by_idx[i].gen])
        PROVE  /\ cell'[by_idx[i].gen][n].st # "stale"
               /\ cell'[by_idx[i].gen][n].st = "ok" => cell'[by_idx[i].gen][n].thy = by_idx[i].thy
    <3>1. CASE by_idx[i].gen = g
      <4>1. by_idx[i] = snap[p] /\ n \in 1..Len(cell[g]) /\ cell'[by_idx[i].gen] = cell'[g]
        BY <1>2, <1>3, <2>2, <3>1
      <4>2. CASE n = att[p]
        BY <1>3, <3>1, <4>1, <4>2
      <4>3. CASE n # att[p]
        <5>1. cell'[g][n] = cell[by_idx[i].gen][n] /\ n \in 1..Len(cell[by_idx[i].gen])
          BY <1>3, <3>1, <4>1, <4>3
        <5> QED BY <4>1, <5>1 DEF EntriesInv
      <4> QED BY <4>2, <4>3
    <3>2. CASE by_idx[i].gen # g
      BY <1>3, <2>1, <3>2 DEF EntriesInv
    <3> QED BY <3>1, <3>2
  <2>4. \A i \in DOMAIN by_idx : cell'[by_idx[i].gen] # <<>>
    BY <1>3, <2>1 DEF EntriesInv
  <2> QED BY <2>3, <2>4 DEF EntriesInv
<1>10. FailureIsForgotten'
  <2> SUFFICES ASSUME NEW h \in Gen, cell'[h] # <<>>, cell'[h][Len(cell'[h])] \in Failures
               PROVE  \E q \in Clients : pc'[q] = "retire" /\ snap[q].gen = h /\ att[q] = Len(cell'[h])
    BY DEF FailureIsForgotten
  <2>1. CASE h = g
    BY <1>2, <1>3, <1>5, <2>1
  <2>2. CASE h # g
    <3>1. PICK q \in Clients : pc[q] = "retire" /\ snap[q].gen = h /\ att[q] = Len(cell[h])
      BY <1>3, <2>2 DEF FailureIsForgotten
    <3> QED BY <1>3, <2>2, <3>1 DEF OthersSame, Same
  <2> QED BY <2>1, <2>2
<1>11. ASSUME NEW q \in Clients PROVE RequestInv(q)'
  <2>1. CASE q = p
    BY <2>1
  <2>2. CASE q # p
    <3>1. Same(q) /\ RequestInv(q) /\ PairInv(p, q)
      BY <2>2 DEF OthersSame
    <3>2. started \in Nat /\ started' \in Nat /\ started <= started'
      BY DEF TypeOK
    <3>3. Busy(q) /\ pc[q] # "reply" => cell'[req[q].op] = cell[req[q].op]
      <4>1. Busy(q) /\ pc[q] # "reply" => req[q].op \in Gen /\ cell[req[q].op] = <<>>
        BY <3>1 DEF RequestInv, OpInv, TypeOK, Gen, Ops
      <4> QED BY <1>1, <1>3, <4>1 DEF SnapInv
    <3>4. ASSUME pc[q] \in Holding
          PROVE /\ cell'[snap[q].gen] # <<>>
                /\ \A i \in DOMAIN by_idx' : by_idx'[i].gen = snap[q].gen =>
                     i \in DOMAIN by_idx /\ by_idx'[i] = by_idx[i]
                /\ \A n \in 1..Len(cell'[snap[q].gen]) :
                     cell'[snap[q].gen][n].st = "ok" => cell'[snap[q].gen][n].thy = snap[q].thy
      <4>1. SnapInv(q) /\ snap[q].gen \in Gen
        BY <3>1, <3>4 DEF RequestInv, SnapInv, Entry
      <4>2. snap[q].gen = g => snap[q] = snap[p]
        BY <3>1, <3>4 DEF PairInv
      <4>3. cell'[snap[q].gen] # <<>> /\ Len(cell'[snap[q].gen]) = Len(cell[snap[q].gen])
        BY <1>3, <3>4, <4>1 DEF SnapInv
      <4>4. ASSUME NEW n \in 1..Len(cell'[snap[q].gen]), cell'[snap[q].gen][n].st = "ok"
            PROVE  cell'[snap[q].gen][n].thy = snap[q].thy
        <5>1. CASE snap[q].gen = g /\ n = att[p]
          BY <1>2, <1>3, <4>2, <4>4, <5>1
        <5>2. CASE ~ (snap[q].gen = g /\ n = att[p])
          <6>1. cell'[snap[q].gen][n] = cell[snap[q].gen][n]
            BY <1>3, <4>1, <4>3, <5>2
          <6> QED BY <3>4, <4>1, <4>3, <4>4, <6>1 DEF SnapInv
        <5> QED BY <5>1, <5>2
      <4> QED BY <4>3, <4>4
    <3>5. pc[q] \in Attempting => att[q] \in 1..Len(cell'[snap[q].gen])
      <4>1. pc[q] \in Attempting => pc[q] \in Holding /\ AttemptInv(q)
        BY <3>1 DEF Attempting, Holding, RequestInv
      <4> QED BY <1>3, <3>1, <4>1 DEF RequestInv, SnapInv, AttemptInv, Entry
    <3>6. ASSUME pc[q] \in BuildSteps \/ pc[q] = "retire"
          PROVE  cell'[snap[q].gen][att[q]] = Lock(q)
      <4>1. pc[q] \in Holding /\ pc[q] \in Attempting /\ AttemptInv(q)
        BY <3>1, <3>6 DEF Attempting, Holding, RequestInv
      <4>2. snap[q].gen \in Gen /\ att[q] \in 1..Len(cell[snap[q].gen])
        BY <3>1, <4>1 DEF RequestInv, SnapInv, AttemptInv, Entry
      <4>3. snap[q].gen = g /\ att[q] = att[p] => Lock(q) = Lock(p)
        BY DEF Lock
      <4>4. ~ (snap[q].gen = g /\ att[q] = att[p])
        BY <1>4, <3>1, <3>6, <4>1, <4>3 DEF AttemptInv, PairInv
      <4> QED BY <1>3, <4>2, <4>4 DEF Lock
    <3> HIDE DEF StoreInv, StoreInvFinite
    <3> QED BY <3>1, <3>2, <3>3, <3>4, <3>5, <3>6, RequestFrame
  <2> QED BY <2>1, <2>2
<1>12. \A q, r \in Clients : q # r => PairInv(q, r)'
  BY PairsStep
<1> QED BY <1>6, <1>7, <1>8, <1>9, <1>10, <1>11, <1>12

\* A step that puts an entry e with a fresh generation at index i, with a cell
\* that is open or seeded.  Q is the set of requests it does not move.
LEMMA PutFrame ==
  ASSUME StoreInv, NEW i \in Nat \ {0}, NEW e \in Entry, NEW v \in OnceLock, NEW Q \in SUBSET Clients,
         Put(i, e), NewCell(e.gen, v),
         cell[e.gen] = <<>>, e.gen <= started', started' \in 0..MaxOps, started <= started',
         v \notin Failures, v.st = "ok" => v.thy = e.thy,
         \A q \in Q : Same(q),
         \A q \in Clients : pc[q] = "retire" => q \in Q,
         \A q \in Q : Busy(q) => req[q].op # e.gen
  PROVE  /\ Bounded' /\ CellsInv' /\ EntriesInv' /\ FailureIsForgotten'
         /\ \A q \in Q : RequestInv(q)'
         /\ DOMAIN by_idx' \subseteq Nat \ {0} /\ by_idx' = [j \in DOMAIN by_idx' |-> by_idx'[j]]
         /\ \A j \in DOMAIN by_idx' : by_idx'[j] \in Entry
         /\ cell' \in [Gen -> Seq(OnceLock)]
<1> USE DEF StoreInv, StoreInvFinite
<1> DEFINE g == e.gen
<1>1. /\ DOMAIN by_idx' = DOMAIN by_idx \cup {i}
      /\ by_idx' = [j \in DOMAIN by_idx' |-> by_idx'[j]]
      /\ \A j \in DOMAIN by_idx : j # i => by_idx'[j] = by_idx[j]
      /\ by_idx'[i] = e
  BY PutFacts
<1>2. g \in Gen /\ g \in Nat
  BY StoreAssumption DEF Entry, Gen, Ops
<1>3. /\ cell' \in [Gen -> Seq(OnceLock)]
      /\ \A h \in Gen : h # g => cell'[h] = cell[h]
      /\ Len(cell'[g]) = 1 /\ cell'[g] # <<>> /\ cell'[g][1] = v
  BY <1>2, NewCellFacts
<1>4. Bounded'
  <2>1. PICK b \in Nat : \A j \in DOMAIN by_idx : j <= b
    BY DEF Bounded
  <2>2. \A j \in DOMAIN by_idx' : j <= b + i
    BY <1>1, <2>1 DEF TypeOK
  <2>3. b + i \in Nat
    OBVIOUS
  <2> QED BY <2>2, <2>3 DEF Bounded
<1>5. CellsInv'
  <2>1. \A h \in Gen : h > started' => cell'[h] = <<>>
    BY <1>2, <1>3 DEF CellsInv, TypeOK, Gen, Ops
  <2>2. ASSUME NEW h \in Gen, NEW n \in 1..Len(cell'[h]), n < Len(cell'[h])
        PROVE  cell'[h][n] \in Failures
    <3>1. CASE h = g
      <4>1. Len(cell'[h]) = 1
        BY <1>3, <3>1
      <4>2. n \in 1..1 /\ n < 1
        BY <2>2, <4>1
      <4> QED BY <4>2
    <3>2. CASE h # g
      BY <1>3, <2>2, <3>2 DEF CellsInv
    <3> QED BY <3>1, <3>2
  <2> QED BY <2>1, <2>2 DEF CellsInv
<1>6. \A j \in DOMAIN by_idx : by_idx[j].gen \in Gen /\ by_idx[j].gen # g
  BY DEF EntriesInv, TypeOK, Entry
<1>7. EntriesInv'
  <2>1. \A j \in DOMAIN by_idx' : cell'[by_idx'[j].gen] # <<>>
    BY <1>1, <1>3, <1>6 DEF EntriesInv
  <2>2. \A j, k \in DOMAIN by_idx' : by_idx'[j].gen = by_idx'[k].gen => j = k
    BY <1>1, <1>6 DEF EntriesInv
  <2>3. ASSUME NEW j \in DOMAIN by_idx', NEW n \in 1..Len(cell'[by_idx'[j].gen])
        PROVE  /\ cell'[by_idx'[j].gen][n].st # "stale"
               /\ cell'[by_idx'[j].gen][n].st = "ok" => cell'[by_idx'[j].gen][n].thy = by_idx'[j].thy
    <3>1. CASE j = i
      <4>1. n = 1 /\ cell'[by_idx'[j].gen][n] = v
        <5>1. by_idx'[j].gen = g
          BY <1>1, <3>1
        <5>2. Len(cell'[by_idx'[j].gen]) = 1
          BY <1>3, <5>1
        <5>3. n \in 1..1
          BY <5>2
        <5>4. n = 1
          BY <5>3
        <5> QED BY <1>3, <5>1, <5>4
      <4>2. v.st # "stale"
        BY DEF OnceLock, Filled, Failures, Proofs, Blank
      <4> QED BY <1>1, <3>1, <4>1, <4>2
    <3>2. CASE j # i
      <4>1. j \in DOMAIN by_idx /\ by_idx'[j] = by_idx[j] /\ cell'[by_idx'[j].gen] = cell[by_idx[j].gen]
        BY <1>1, <1>3, <1>6, <3>2
      <4> QED BY <4>1 DEF EntriesInv
    <3> QED BY <3>1, <3>2
  <2> QED BY <2>1, <2>2, <2>3 DEF EntriesInv
<1>8. FailureIsForgotten'
  <2> SUFFICES ASSUME NEW h \in Gen, cell'[h] # <<>>, cell'[h][Len(cell'[h])] \in Failures
               PROVE  \E q \in Clients : pc'[q] = "retire" /\ snap'[q].gen = h /\ att'[q] = Len(cell'[h])
    BY DEF FailureIsForgotten
  <2>1. h # g
    BY <1>3
  <2>2. PICK q \in Clients : pc[q] = "retire" /\ snap[q].gen = h /\ att[q] = Len(cell[h])
    BY <1>3, <2>1 DEF FailureIsForgotten
  <2> QED BY <1>3, <2>1, <2>2 DEF Same
<1>9. ASSUME NEW q \in Q PROVE RequestInv(q)'
  <2>1. q \in Clients /\ Same(q) /\ RequestInv(q)
    OBVIOUS
  <2>2. started \in Nat /\ started' \in Nat /\ started <= started'
    BY DEF TypeOK
  <2>3. Busy(q) /\ pc[q] # "reply" => cell'[req[q].op] = cell[req[q].op]
    BY <1>3, <2>1 DEF RequestInv, OpInv, TypeOK, Gen, Ops
  <2>4. ASSUME pc[q] \in Holding
        PROVE  /\ snap[q] \in Entry /\ snap[q].gen \in Gen /\ snap[q].gen # g
               /\ cell'[snap[q].gen] = cell[snap[q].gen] /\ cell[snap[q].gen] # <<>>
    BY <1>3, <2>1, <2>4 DEF RequestInv, SnapInv, Entry
  <2>5. ASSUME pc[q] \in Holding
        PROVE  /\ cell'[snap[q].gen] # <<>>
               /\ \A j \in DOMAIN by_idx' : by_idx'[j].gen = snap[q].gen =>
                    j \in DOMAIN by_idx /\ by_idx'[j] = by_idx[j]
               /\ \A n \in 1..Len(cell'[snap[q].gen]) :
                    cell'[snap[q].gen][n].st = "ok" => cell'[snap[q].gen][n].thy = snap[q].thy
    BY <1>1, <2>1, <2>4, <2>5 DEF RequestInv, SnapInv
  <2>6. pc[q] \in Attempting => pc[q] \in Holding
    BY DEF Attempting, Holding
  <2>7. pc[q] \in Attempting => att[q] \in 1..Len(cell'[snap[q].gen])
    BY <2>1, <2>4, <2>6 DEF RequestInv, AttemptInv
  <2>8. pc[q] \in BuildSteps \/ pc[q] = "retire" => cell'[snap[q].gen][att[q]] = Lock(q)
    BY <2>4 DEF Lock, Holding
  <2> HIDE DEF StoreInv, StoreInvFinite
  <2> QED BY <2>1, <2>2, <2>3, <2>5, <2>7, <2>8, RequestFrame
<1> QED BY <1>1, <1>3, <1>4, <1>5, <1>7, <1>8, <1>9 DEF TypeOK

-----------------------------------------------------------------------------
(* Steps that touch neither the store nor a cell.                          *)

LEMMA BeginStep ==
  ASSUME StoreInv, NEW p \in Clients, Begin(p)
  PROVE  StoreInv'
<1> USE DEF StoreInv, StoreInvFinite
<1>1. /\ pc[p] = "idle" /\ pc'[p] = "snapshot" /\ started' = started + 1
      /\ started' \in Ops /\ started \in Nat /\ req'[p].op = started'
      /\ by_idx' = by_idx /\ cell' = cell /\ snap' = snap /\ att' = att /\ res' = res
      /\ \A q \in Clients : q # p => pc'[q] = pc[q] /\ req'[q] = req[q]
      /\ pc' \in [Clients -> Steps]
      /\ req' \in [Clients -> [op : Ops \cup {0}, kind : Kinds, idx : Nat]]
  BY StoreAssumption DEF TypeOK, Begin, Goto, Steps, Ops
<1>2. pc'[p] \notin Holding /\ pc'[p] \notin Attempting /\ pc'[p] \notin BuildSteps
  BY <1>1 DEF Holding, Attempting, BuildSteps
<1>3. TypeOK'
  BY <1>1 DEF TypeOK, Ops
<1>4. OthersSame(p)
  BY <1>1 DEF OthersSame, Same
<1>5. RequestInv(p)'
  <2>1. OpInv(p)'
    BY <1>1 DEF OpInv, CellsInv, Gen, Ops
  <2>2. SnapInv(p)' /\ AttemptInv(p)'
    BY <1>1, <1>2 DEF SnapInv, AttemptInv
  <2>3. ResultInv(p)'
    BY <1>1 DEF ResultInv
  <2> QED BY <2>1, <2>2, <2>3 DEF RequestInv
<1>6. OtherPairs(p)'
  <2> SUFFICES ASSUME NEW q \in Clients, q # p PROVE PairInv(p, q)'
    BY DEF OtherPairs
  <2>1. Busy(q) => req[q].op \in 1..started
    BY DEF RequestInv, OpInv
  <2> QED BY <1>1, <1>2, <2>1 DEF PairInv, Busy
<1>7. started <= started' /\ pc[p] # "retire"
  BY <1>1
<1> HIDE DEF StoreInv, StoreInvFinite
<1> QED BY <1>1, <1>3, <1>4, <1>5, <1>6, <1>7, PrivateFrame

LEMMA SnapshotStep ==
  ASSUME StoreInv, NEW p \in Clients, Snapshot(p)
  PROVE  StoreInv'
<1> USE DEF StoreInv, StoreInvFinite
<1>1. /\ pc[p] = "snapshot" /\ pc'[p] \in {"reply", "attempt", "load"}
      /\ by_idx' = by_idx /\ cell' = cell /\ started' = started /\ req' = req /\ att' = att
      /\ pc' \in [Clients -> Steps] /\ started \in Nat
  <2>1. PICK s \in {"reply", "attempt", "load"} : Goto(p, s)
    BY DEF Snapshot
  <2>2. s \in Steps
    BY DEF Steps
  <2>3. pc'[p] = s /\ pc' \in [Clients -> Steps]
    BY <2>1, <2>2 DEF TypeOK, Goto
  <2> QED BY <2>3 DEF TypeOK, Snapshot
<1>2. \A q \in Clients : q # p => pc'[q] = pc[q] /\ snap'[q] = snap[q] /\ res'[q] = res[q]
  BY DEF TypeOK, Snapshot, Goto, Result
<1>3. res'[p] \in {Blank("none"), Blank("not_found"), Blank("refused")}
  BY DEF TypeOK, Snapshot, Result, Nothing
<1>4. pc'[p] \in {"attempt", "load"} =>
        /\ req[p].idx \in DOMAIN by_idx /\ snap'[p] = by_idx[req[p].idx] /\ snap'[p] \in Entry
        /\ pc'[p] = "load" => snap'[p].origin # Uploaded
  BY DEF TypeOK, Snapshot, Goto
<1>5. pc'[p] \notin Attempting /\ pc'[p] \notin BuildSteps
  BY <1>1 DEF Attempting, BuildSteps
<1>6. pc'[p] \in Holding => pc'[p] \in {"attempt", "load"}
  BY <1>1 DEF Holding, BuildSteps
<1>7. TypeOK'
  <2>1. snap' \in [Clients -> Entry \cup {NoEntry}]
    BY DEF TypeOK, Snapshot
  <2>2. res' \in [Clients -> Results]
    BY DEF TypeOK, Snapshot, Result, Results
  <2> QED BY <1>1, <2>1, <2>2 DEF TypeOK
<1>8. OthersSame(p)
  BY <1>1, <1>2 DEF OthersSame, Same
<1>9. RequestInv(p)'
  <2>1. OpInv(p)'
    BY <1>1 DEF RequestInv, OpInv, Busy
  <2>2. SnapInv(p)'
    BY <1>1, <1>4, <1>6 DEF SnapInv, EntriesInv
  <2>3. AttemptInv(p)'
    BY <1>1, <1>5 DEF AttemptInv
  <2>4. ResultInv(p)'
    BY <1>1, <1>3, <1>4 DEF ResultInv, Blank
  <2> QED BY <2>1, <2>2, <2>3, <2>4 DEF RequestInv
<1>10. OtherPairs(p)'
  <2> SUFFICES ASSUME NEW q \in Clients, q # p PROVE PairInv(p, q)'
    BY DEF OtherPairs
  <2>1. PairInv(p, q) /\ RequestInv(q)
    OBVIOUS
  <2>2. req'[p].op # req'[q].op \/ ~Busy(q)
    BY <1>1, <2>1 DEF PairInv, Busy
  <2>3. pc'[p] \in Holding /\ pc'[q] \in Holding /\ snap'[p].gen = snap'[q].gen =>
          snap'[p] = snap'[q] /\ req'[p].idx = req'[q].idx
    BY <1>1, <1>2, <1>4, <1>6, <2>1 DEF RequestInv, SnapInv
  <2> QED BY <1>1, <1>2, <1>5, <2>2, <2>3 DEF PairInv, Busy
<1>11. started <= started' /\ pc[p] # "retire"
  BY <1>1
<1> HIDE DEF StoreInv, StoreInvFinite
<1> QED BY <1>1, <1>7, <1>8, <1>9, <1>10, <1>11, PrivateFrame

LEMMA ReplyStep ==
  ASSUME StoreInv, NEW p \in Clients, Reply(p)
  PROVE  StoreInv'
<1> USE DEF StoreInv, StoreInvFinite
<1>1. /\ pc[p] = "reply" /\ pc'[p] = "idle"
      /\ by_idx' = by_idx /\ cell' = cell /\ started' = started /\ started \in Nat
      /\ pc' \in [Clients -> Steps] /\ res' \in [Clients -> Results]
      /\ req' \in [Clients -> [op : Ops \cup {0}, kind : Kinds, idx : Nat]]
      /\ snap' \in [Clients -> Entry \cup {NoEntry}] /\ att' \in [Clients -> Nat]
  BY DEF TypeOK, Reply, Goto, Result, Steps, Results, NoReq, Kinds
<1>2. OthersSame(p)
  BY DEF TypeOK, Reply, Goto, Result, OthersSame, Same
<1>3. pc'[p] \notin Holding /\ pc'[p] \notin Attempting /\ pc'[p] \notin BuildSteps
  BY <1>1 DEF Holding, Attempting, BuildSteps
<1>4. TypeOK'
  BY <1>1 DEF TypeOK
<1>5. RequestInv(p)'
  BY <1>1, <1>3 DEF RequestInv, OpInv, SnapInv, AttemptInv, ResultInv, Busy
<1>6. OtherPairs(p)'
  BY <1>1, <1>3 DEF OtherPairs, PairInv, Busy
<1>7. started <= started' /\ pc[p] # "retire"
  BY <1>1
<1> HIDE DEF StoreInv, StoreInvFinite
<1> QED BY <1>1, <1>2, <1>4, <1>5, <1>6, <1>7, PrivateFrame

\* Steps of a request that keep its snapshot: cloning the attempt, the slow
\* work, the look-ups, and the ends that publish nothing.
LEMMA PrivateStep ==
  ASSUME StoreInv, NEW p \in Clients,
         \/ Attempt(p) \/ Validate(p) \/ Build(p) \/ Check(p) \/ Load(p) \/ Abandon(p)
         \/ Replace(p) /\ ~IsCurrent(req[p].idx, snap[p].gen)
  PROVE  StoreInv'
<1> USE DEF StoreInv, StoreInvFinite
<1>1. by_idx' = by_idx /\ cell' = cell /\ started' = started /\ req' = req /\ snap' = snap
  BY DEF Attempt, Validate, Build, Check, Load, Abandon, Replace
<1>2. \A q \in Clients : q # p => pc'[q] = pc[q] /\ att'[q] = att[q] /\ res'[q] = res[q]
  BY DEF TypeOK, Attempt, Validate, Build, Check, Load, Abandon, Replace, Goto, Result
<1>3. \/ pc[p] = "attempt" /\ pc'[p] = "enter" /\ att'[p] = Len(cell[snap[p].gen]) /\ res' = res
      \/ pc[p] = "validate" /\ pc'[p] = "build" /\ att' = att /\ res' = res
      \/ /\ pc[p] \in {"validate", "check"} /\ pc'[p] = "publish" /\ att' = att
         /\ res'[p] = Blank("stale") /\ ~IsCurrent(req[p].idx, snap[p].gen)
      \/ /\ pc[p] = "build" /\ pc'[p] = "check" /\ att' = att
         /\ res'[p] \in {Proof(snap[p].thy, req[p].op), Blank("failed")}
      \/ pc[p] = "check" /\ pc'[p] = "publish" /\ att' = att /\ res' = res
      \/ pc[p] = "load" /\ pc'[p] = "replace" /\ att' = att /\ res' = res
      \/ pc[p] \in {"load", "work"} /\ pc'[p] = "reply" /\ att' = att /\ res'[p] = Blank("failed")
      \/ pc[p] = "replace" /\ pc'[p] = "reply" /\ att' = att /\ res'[p] = Blank("stale")
  BY DEF TypeOK, Attempt, Validate, Build, Check, Load, Abandon, Replace, Goto, Result
<1>4. /\ pc[p] \in Holding /\ pc[p] # "retire" /\ Busy(p) /\ pc[p] # "reply"
      /\ pc'[p] \in Attempting => pc[p] \in Attempting \/ pc[p] = "attempt"
      /\ pc'[p] \in BuildSteps => pc[p] \in BuildSteps /\ pc[p] \in Attempting /\ pc[p] # "attempt"
      /\ pc[p] \in Attempting => pc[p] # "attempt"
      /\ pc'[p] # "retire"
  BY <1>3 DEF Holding, Attempting, BuildSteps, Busy
<1>5. OpInv(p) /\ SnapInv(p) /\ AttemptInv(p) /\ ResultInv(p)
  BY DEF RequestInv
<1>6. /\ snap[p] \in Entry /\ req[p].op \in Ops
      /\ cell[snap[p].gen] \in Seq(OnceLock) /\ cell[snap[p].gen] # <<>>
  BY <1>4, <1>5 DEF SnapInv, OpInv, TypeOK, Entry, Ops
<1>7. Len(cell[snap[p].gen]) \in Nat \ {0}
  BY <1>6, EmptySeq
<1>8. OthersSame(p)
  BY <1>1, <1>2 DEF OthersSame, Same
<1>9. Proof(snap[p].thy, req[p].op) \in Proofs /\ Proof(snap[p].thy, req[p].op).st = "ok"
      /\ Proof(snap[p].thy, req[p].op).thy = snap[p].thy /\ Blank("stale").st = "stale"
      /\ Blank("failed").st = "failed" /\ Blank("stale") \in Filled /\ Blank("failed") \in Filled
      /\ Proofs \subseteq Filled /\ Filled \subseteq Results
  BY <1>6 DEF Proof, Proofs, Entry, Blank, Filled, Failures, Results
<1>10. TypeOK'
  <2>1. pc' \in [Clients -> Steps]
    BY DEF TypeOK, Attempt, Validate, Build, Check, Load, Abandon, Replace, Goto, Steps, BuildSteps
  <2>2. att' \in [Clients -> Nat]
    BY <1>7 DEF TypeOK, Attempt, Validate, Build, Check, Load, Abandon, Replace
  <2>3. res' \in [Clients -> Results]
    BY <1>9 DEF TypeOK, Attempt, Validate, Build, Check, Load, Abandon, Replace, Result
  <2> QED BY <1>1, <2>1, <2>2, <2>3 DEF TypeOK
<1>11. RequestInv(p)'
  <2>1. OpInv(p)'
    BY <1>1, <1>4, <1>5 DEF OpInv, Busy
  <2>2. SnapInv(p)'
    BY <1>1, <1>4, <1>5 DEF SnapInv
  <2>3. AttemptInv(p)'
    BY <1>1, <1>3, <1>4, <1>5, <1>7 DEF AttemptInv, Lock
  <2>4. ResultInv(p)'
    <3>1. ~IsCurrent(req[p].idx, snap[p].gen) => \A i \in DOMAIN by_idx : by_idx[i].gen # snap[p].gen
      BY <1>4, <1>5 DEF SnapInv, IsCurrent
    <3>2. \A x \in Proofs : x.st # "stale"
      BY DEF Proofs
    <3> QED BY <1>1, <1>3, <1>5, <1>9, <3>1, <3>2 DEF ResultInv
  <2> QED BY <2>1, <2>2, <2>3, <2>4 DEF RequestInv
<1>12. OtherPairs(p)'
  <2>1. pc'[p] \in BuildSteps => att'[p] = att[p]
    BY <1>3, <1>4
  <2> QED BY <1>1, <1>4, <1>8, <2>1, PairFrame
<1>13. started <= started'
  BY <1>1 DEF TypeOK
<1> HIDE DEF StoreInv, StoreInvFinite
<1> QED BY <1>1, <1>4, <1>8, <1>10, <1>11, <1>12, <1>13, PrivateFrame

-----------------------------------------------------------------------------
(* Steps on a cell.                                                        *)

\* A request finds a finished attempt and shares its result.
LEMMA ShareStep ==
  ASSUME StoreInv, NEW p \in Clients, Enter(p), Lock(p) \in Filled
  PROVE  StoreInv'
<1> USE DEF StoreInv, StoreInvFinite
<1>1. /\ pc[p] = "enter" /\ by_idx' = by_idx /\ started' = started /\ req' = req
      /\ snap' = snap /\ att' = att
      /\ pc' = [pc EXCEPT ![p] = "retire"] /\ res' = [res EXCEPT ![p] = Lock(p)] /\ cell' = cell
  BY DEF Enter, Goto, Result, Filled, Failures, Proofs, Blank
<1>2. /\ pc[p] \in Holding /\ pc[p] \in Attempting /\ Busy(p) /\ pc[p] # "reply"
      /\ pc'[p] = "retire" /\ pc'[p] \notin BuildSteps /\ res'[p] = Lock(p)
  BY <1>1 DEF TypeOK, Holding, Attempting, BuildSteps, Busy
<1>3. OthersSame(p)
  BY <1>1 DEF TypeOK, OthersSame, Same
<1>4. OpInv(p) /\ SnapInv(p) /\ AttemptInv(p)
  BY DEF RequestInv
<1>5. TypeOK'
  <2>1. pc' \in [Clients -> Steps] /\ res' \in [Clients -> Results]
    BY <1>1 DEF TypeOK, Steps, Results
  <2> QED BY <1>1, <2>1 DEF TypeOK
<1>6. RequestInv(p)'
  <2>1. OpInv(p)' /\ SnapInv(p)'
    BY <1>1, <1>2, <1>4 DEF OpInv, SnapInv, Busy
  <2>2. AttemptInv(p)'
    BY <1>1, <1>2, <1>4 DEF AttemptInv, Lock
  <2>3. ResultInv(p)'
    BY <1>1, <1>2, <1>4 DEF ResultInv, SnapInv, AttemptInv, Lock
  <2> QED BY <2>1, <2>2, <2>3 DEF RequestInv
<1>7. OtherPairs(p)'
  BY <1>1, <1>2, <1>3, PairFrame
<1>8. started <= started' /\ pc[p] # "retire"
  BY <1>1 DEF TypeOK
<1> HIDE DEF StoreInv, StoreInvFinite
<1> QED BY <1>1, <1>3, <1>5, <1>6, <1>7, <1>8, PrivateFrame

\* A request finds the attempt open and is elected to build.
LEMMA ElectStep ==
  ASSUME StoreInv, NEW p \in Clients, Enter(p), Lock(p) \notin Filled
  PROVE  StoreInv'
<1> USE DEF StoreInv, StoreInvFinite
<1>1. /\ pc[p] = "enter" /\ by_idx' = by_idx /\ started' = started /\ req' = req
      /\ snap' = snap /\ att' = att /\ res' = res /\ Lock(p).st = "empty"
      /\ pc' = [pc EXCEPT ![p] = "validate"] /\ SetLock(p, Blank("running"))
  BY DEF Enter, Goto
<1>2. /\ pc[p] \in Holding /\ pc[p] \in Attempting /\ Busy(p) /\ pc[p] # "reply"
      /\ pc'[p] = "validate" /\ pc'[p] \in BuildSteps
  BY <1>1 DEF TypeOK, Holding, Attempting, BuildSteps, Busy
<1>3. OthersSame(p)
  BY <1>1 DEF TypeOK, OthersSame, Same
<1>4. OpInv(p) /\ SnapInv(p) /\ AttemptInv(p) /\ ResultInv(p)
  BY DEF RequestInv
<1>5. /\ snap[p].gen \in Gen /\ cell[snap[p].gen] \in Seq(OnceLock)
      /\ att[p] \in 1..Len(cell[snap[p].gen]) /\ Lock(p) \in OnceLock
  BY <1>2, <1>4 DEF SnapInv, AttemptInv, TypeOK, Entry, Lock
<1>6. Lock(p) = Blank("empty") /\ Blank("empty") # Blank("running")
  BY <1>1, <1>5 DEF OnceLock, Blank
<1>7. /\ \A h \in Gen : h # snap[p].gen => cell'[h] = cell[h]
      /\ Len(cell'[snap[p].gen]) = Len(cell[snap[p].gen])
      /\ \A n \in 1..Len(cell[snap[p].gen]) :
           cell'[snap[p].gen][n] = IF n = att[p] THEN Blank("running") ELSE cell[snap[p].gen][n]
      /\ \A h \in Gen : cell[h] # <<>> <=> cell'[h] # <<>>
  BY <1>1, <1>5, SetLockFacts DEF OnceLock
<1>8. pc' \in [Clients -> Steps]
  BY <1>1 DEF TypeOK, Steps, BuildSteps
<1>9. RequestInv(p)'
  <2>1. OpInv(p)'
    BY <1>1, <1>2, <1>4, <1>7 DEF OpInv, SnapInv, Busy, Gen, Ops, TypeOK
  <2>2. SnapInv(p)'
    BY <1>1, <1>2, <1>4, <1>5, <1>7 DEF SnapInv, Blank
  <2>3. AttemptInv(p)'
    BY <1>1, <1>2, <1>5, <1>7 DEF AttemptInv, Lock
  <2>4. ResultInv(p)'
    BY <1>2 DEF ResultInv
  <2> QED BY <2>1, <2>2, <2>3, <2>4 DEF RequestInv
<1>10. OtherPairs(p)'
  <2> SUFFICES ASSUME NEW q \in Clients, q # p PROVE PairInv(p, q)'
    BY DEF OtherPairs
  <2>1. Same(q) /\ PairInv(p, q) /\ RequestInv(q)
    BY <1>3 DEF OthersSame
  <2>2. pc[q] \in BuildSteps /\ snap[q].gen = snap[p].gen => att[q] # att[p]
    BY <1>6, <2>1 DEF RequestInv, AttemptInv, Lock
  <2> QED BY <1>1, <1>2, <2>1, <2>2 DEF PairInv, Same, Busy
<1>11. /\ Blank("running") \in OnceLock /\ Blank("running") \notin Failures
       /\ Blank("running").st \notin {"ok", "stale"} /\ res' \in [Clients -> Results]
  BY <1>1 DEF OnceLock, Failures, Blank, TypeOK
<1> HIDE DEF StoreInv, StoreInvFinite
<1> QED BY <1>1, <1>2, <1>3, <1>6, <1>8, <1>9, <1>10, <1>11, LockFrame

\* The builder panicked: the attempt is open again.
LEMMA PanicStep ==
  ASSUME StoreInv, NEW p \in Clients, Panic(p)
  PROVE  StoreInv'
<1> USE DEF StoreInv, StoreInvFinite
<1>1. /\ pc[p] = "build" /\ by_idx' = by_idx /\ started' = started /\ req' = req
      /\ snap' = snap /\ att' = att /\ res' = [res EXCEPT ![p] = Blank("panicked")]
      /\ pc' = [pc EXCEPT ![p] = "reply"] /\ SetLock(p, Blank("empty"))
  BY DEF Panic, Goto, Result
<1>2. /\ pc[p] \in Holding /\ pc[p] \in Attempting /\ pc[p] \in BuildSteps /\ Busy(p)
      /\ pc'[p] = "reply" /\ res'[p] = Blank("panicked")
      /\ pc'[p] \notin Holding /\ pc'[p] \notin Attempting /\ pc'[p] \notin BuildSteps
  BY <1>1 DEF TypeOK, Holding, Attempting, BuildSteps, Busy
<1>3. OthersSame(p)
  BY <1>1 DEF TypeOK, OthersSame, Same
<1>4. Lock(p) = Blank("running") /\ OpInv(p)
  BY <1>2 DEF RequestInv, AttemptInv
<1>5. pc' \in [Clients -> Steps] /\ res' \in [Clients -> Results]
  BY <1>1 DEF TypeOK, Steps, Results
<1>6. RequestInv(p)'
  BY <1>1, <1>2, <1>4 DEF RequestInv, OpInv, SnapInv, AttemptInv, ResultInv, Busy, Blank
<1>7. OtherPairs(p)'
  BY <1>1, <1>2, <1>3, PairFrame
<1>8. /\ Blank("empty") \in OnceLock /\ Blank("empty") \notin Failures
      /\ Blank("empty").st \notin {"ok", "stale"}
  BY DEF OnceLock, Failures, Blank
<1> HIDE DEF StoreInv, StoreInvFinite
<1> QED BY <1>1, <1>2, <1>3, <1>4, <1>5, <1>6, <1>7, <1>8, LockFrame

\* The builder stores its result.
LEMMA PublishStep ==
  ASSUME StoreInv, NEW p \in Clients, Publish(p)
  PROVE  StoreInv'
<1> USE DEF StoreInv, StoreInvFinite
<1>1. /\ pc[p] = "publish" /\ by_idx' = by_idx /\ started' = started /\ req' = req
      /\ snap' = snap /\ att' = att /\ res' = res
      /\ pc' = [pc EXCEPT ![p] = "retire"] /\ SetLock(p, res[p])
  BY DEF Publish, Goto
<1>2. /\ pc[p] \in Holding /\ pc[p] \in Attempting /\ pc[p] \in BuildSteps /\ Busy(p)
      /\ pc[p] # "reply" /\ pc'[p] = "retire" /\ pc'[p] \notin BuildSteps
  BY <1>1 DEF TypeOK, Holding, Attempting, BuildSteps, Busy
<1>3. OthersSame(p)
  BY <1>1 DEF TypeOK, OthersSame, Same
<1>4. OpInv(p) /\ SnapInv(p) /\ AttemptInv(p) /\ ResultInv(p)
  BY DEF RequestInv
<1>5. /\ snap[p].gen \in Gen /\ cell[snap[p].gen] \in Seq(OnceLock)
      /\ att[p] \in 1..Len(cell[snap[p].gen]) /\ Lock(p) = Blank("running")
      /\ res[p] \in Filled /\ res[p] \in OnceLock
  BY <1>1, <1>2, <1>4 DEF SnapInv, AttemptInv, ResultInv, TypeOK, Entry, OnceLock
<1>6. /\ \A h \in Gen : h # snap[p].gen => cell'[h] = cell[h]
      /\ Len(cell'[snap[p].gen]) = Len(cell[snap[p].gen])
      /\ \A n \in 1..Len(cell[snap[p].gen]) :
           cell'[snap[p].gen][n] = IF n = att[p] THEN res[p] ELSE cell[snap[p].gen][n]
      /\ \A h \in Gen : cell[h] # <<>> <=> cell'[h] # <<>>
  BY <1>1, <1>5, SetLockFacts
<1>7. pc' \in [Clients -> Steps] /\ res' \in [Clients -> Results]
  BY <1>1 DEF TypeOK, Steps
<1>8. /\ res[p].st = "ok" => res[p].thy = snap[p].thy
      /\ res[p].st = "stale" => \A i \in DOMAIN by_idx : by_idx[i].gen # snap[p].gen
  BY <1>1, <1>4 DEF ResultInv
<1>9. RequestInv(p)'
  <2>1. OpInv(p)'
    BY <1>1, <1>2, <1>4, <1>6 DEF OpInv, SnapInv, Busy, Gen, Ops, TypeOK
  <2>2. SnapInv(p)'
    BY <1>1, <1>2, <1>4, <1>5, <1>6, <1>8 DEF SnapInv
  <2>3. AttemptInv(p)'
    BY <1>1, <1>2, <1>5, <1>6 DEF AttemptInv, Lock
  <2>4. ResultInv(p)'
    BY <1>1, <1>2, <1>8 DEF ResultInv
  <2> QED BY <2>1, <2>2, <2>3, <2>4 DEF RequestInv
<1>10. OtherPairs(p)'
  BY <1>1, <1>2, <1>3, PairFrame
<1> HIDE DEF StoreInv, StoreInvFinite
<1> QED BY <1>1, <1>2, <1>3, <1>5, <1>7, <1>8, <1>9, <1>10, LockFrame

\* A request is through with a failed attempt that is still the current one:
\* it opens a fresh one.
LEMMA ReopenStep ==
  ASSUME StoreInv, NEW p \in Clients, Retire(p), res[p] \in Failures, IsCurrentAttempt(p)
  PROVE  StoreInv'
<1> USE DEF StoreInv, StoreInvFinite
<1> DEFINE g == snap[p].gen
<1>1. /\ pc[p] = "retire" /\ by_idx' = by_idx /\ started' = started /\ req' = req
      /\ snap' = snap /\ att' = att /\ res' = res /\ att[p] = Len(cell[g])
      /\ cell' = [cell EXCEPT ![g] = Append(@, Blank("empty"))]
  BY DEF Retire, IsCurrentAttempt
<1>2. /\ pc'[p] \in {"snapshot", "reply"} /\ pc' \in [Clients -> Steps]
      /\ \A q \in Clients : q # p => pc'[q] = pc[q]
  <2>1. res[p].st \in {"stale", "failed"}
    BY DEF Failures, Blank
  <2>2. PICK s \in {"snapshot", "reply"} : Goto(p, s)
    BY <2>1 DEF Retire
  <2>3. s \in Steps
    BY DEF Steps
  <2> QED BY <2>2, <2>3 DEF TypeOK, Goto
<1>3. /\ pc[p] \in Holding /\ pc[p] \in Attempting /\ Busy(p) /\ pc[p] # "reply" /\ Busy(p)'
      /\ pc'[p] \notin Holding /\ pc'[p] \notin Attempting /\ pc'[p] \notin BuildSteps
  BY <1>1, <1>2 DEF Holding, Attempting, BuildSteps, Busy
<1>4. OthersSame(p)
  BY <1>1, <1>2 DEF OthersSame, Same
<1>5. OpInv(p) /\ SnapInv(p) /\ AttemptInv(p)
  BY DEF RequestInv
<1>6. /\ snap[p] \in Entry /\ g \in Gen /\ cell[g] \in Seq(OnceLock) /\ cell[g] # <<>>
      /\ att[p] \in 1..Len(cell[g]) /\ Len(cell[g]) \in Nat /\ cell[g][Len(cell[g])] = res[p]
  BY <1>1, <1>3, <1>5 DEF SnapInv, AttemptInv, TypeOK, Entry, Lock
<1>7. /\ cell' \in [Gen -> Seq(OnceLock)]
      /\ \A h \in Gen : h # g => cell'[h] = cell[h]
      /\ Len(cell'[g]) = Len(cell[g]) + 1 /\ cell'[g] # <<>>
      /\ \A n \in 1..Len(cell[g]) : cell'[g][n] = cell[g][n]
      /\ cell'[g][Len(cell[g]) + 1] = Blank("empty")
  BY <1>1, <1>6, AppendFacts
<1>8. Blank("empty") \notin Failures /\ Blank("empty").st = "empty"
  BY DEF Failures, Blank
<1>9. TypeOK' /\ Bounded'
  BY <1>1, <1>2, <1>7 DEF TypeOK, Bounded
<1>10. CellsInv'
  <2>1. \A h \in Gen : h > started' => cell'[h] = <<>>
    BY <1>1, <1>6, <1>7 DEF CellsInv
  <2>2. ASSUME NEW h \in Gen, NEW n \in 1..Len(cell'[h]), n < Len(cell'[h])
        PROVE  cell'[h][n] \in Failures
    <3>1. CASE h # g
      BY <1>7, <2>2, <3>1 DEF CellsInv
    <3>2. CASE h = g
      <4>1. n \in 1..Len(cell[g]) /\ cell'[g][n] = cell[g][n]
        BY <1>6, <1>7, <2>2, <3>2
      <4>2. CASE n = Len(cell[g])
        BY <1>6, <3>2, <4>1, <4>2
      <4>3. CASE n # Len(cell[g])
        BY <1>6, <3>2, <4>1, <4>3 DEF CellsInv
      <4> QED BY <4>2, <4>3
    <3> QED BY <3>1, <3>2
  <2> QED BY <2>1, <2>2 DEF CellsInv
<1>11. EntriesInv'
  <2>1. \A i \in DOMAIN by_idx : by_idx[i].gen \in Gen
    BY DEF TypeOK, Entry
  <2>2. ASSUME NEW i \in DOMAIN by_idx, NEW n \in 1..Len(cell'[by_idx[i].gen])
        PROVE  /\ cell'[by_idx[i].gen][n].st # "stale"
               /\ cell'[by_idx[i].gen][n].st = "ok" => cell'[by_idx[i].gen][n].thy = by_idx[i].thy
    <3>1. CASE by_idx[i].gen # g
      BY <1>7, <2>1, <3>1 DEF EntriesInv
    <3>2. CASE by_idx[i].gen = g
      <4>1. cell'[by_idx[i].gen] = cell'[g] /\ n \in 1..(Len(cell[g]) + 1)
        BY <1>7, <3>2
      <4>2. CASE n = Len(cell[g]) + 1
        BY <1>7, <1>8, <4>1, <4>2
      <4>3. CASE n # Len(cell[g]) + 1
        <5>1. n \in 1..Len(cell[by_idx[i].gen]) /\ cell'[by_idx[i].gen][n] = cell[by_idx[i].gen][n]
          BY <1>6, <1>7, <3>2, <4>1, <4>3
        <5> QED BY <5>1 DEF EntriesInv
      <4> QED BY <4>2, <4>3
    <3> QED BY <3>1, <3>2
  <2>3. \A i \in DOMAIN by_idx : cell'[by_idx[i].gen] # <<>>
    BY <1>7, <2>1 DEF EntriesInv
  <2> QED BY <1>1, <2>2, <2>3 DEF EntriesInv
<1>12. FailureIsForgotten'
  <2> SUFFICES ASSUME NEW h \in Gen, cell'[h] # <<>>, cell'[h][Len(cell'[h])] \in Failures
               PROVE  \E q \in Clients : pc'[q] = "retire" /\ snap[q].gen = h /\ att[q] = Len(cell'[h])
    BY <1>1 DEF FailureIsForgotten
  <2>1. h # g
    BY <1>7, <1>8
  <2>2. PICK q \in Clients : pc[q] = "retire" /\ snap[q].gen = h /\ att[q] = Len(cell[h])
    BY <1>7, <2>1 DEF FailureIsForgotten
  <2> QED BY <1>2, <1>7, <2>1, <2>2
<1>13. RequestInv(p)'
  <2>1. OpInv(p)'
    BY <1>1, <1>3, <1>5, <1>6, <1>7 DEF OpInv, TypeOK, Gen, Ops
  <2>2. ResultInv(p)'
    <3>1. res'[p].st # "ok"
      BY <1>1 DEF Failures, Blank
    <3> QED BY <1>2, <3>1 DEF ResultInv
  <2> QED BY <1>2, <1>3, <2>1, <2>2 DEF RequestInv, SnapInv, AttemptInv
<1>14. ASSUME NEW q \in Clients, q # p PROVE RequestInv(q)'
  <2>1. Same(q) /\ RequestInv(q)
    BY <1>4, <1>14 DEF OthersSame
  <2>2. started \in Nat /\ started' \in Nat /\ started <= started'
    BY <1>1 DEF TypeOK
  <2>3. Busy(q) /\ pc[q] # "reply" => cell'[req[q].op] = cell[req[q].op]
    BY <1>6, <1>7, <2>1 DEF RequestInv, OpInv, TypeOK, Gen, Ops
  <2>4. pc[q] \in Holding => SnapInv(q) /\ snap[q].gen \in Gen
    BY <2>1 DEF RequestInv, SnapInv, Entry
  <2>5. ASSUME pc[q] \in Holding, NEW n \in 1..Len(cell'[snap[q].gen]),
               cell'[snap[q].gen][n].st = "ok"
        PROVE  cell'[snap[q].gen][n].thy = snap[q].thy
    <3>1. CASE snap[q].gen # g
      BY <1>7, <2>4, <2>5, <3>1 DEF SnapInv
    <3>2. CASE snap[q].gen = g
      <4>1. n \in 1..(Len(cell[g]) + 1) /\ cell'[g][n].st = "ok"
        BY <1>7, <2>5, <3>2
      <4>2. n # Len(cell[g]) + 1
        BY <1>7, <1>8, <4>1
      <4>3. n \in 1..Len(cell[g]) /\ cell'[g][n] = cell[g][n]
        BY <1>6, <1>7, <4>1, <4>2
      <4>4. n \in 1..Len(cell[snap[q].gen]) /\ cell'[snap[q].gen][n] = cell[snap[q].gen][n]
        BY <3>2, <4>3
      <4> QED BY <2>4, <2>5, <4>4 DEF SnapInv
    <3> QED BY <3>1, <3>2
  <2>6. pc[q] \in Holding => cell'[snap[q].gen] # <<>>
    BY <1>7, <2>4 DEF SnapInv
  <2>7. ASSUME pc[q] \in Attempting
        PROVE  /\ att[q] \in 1..Len(cell'[snap[q].gen])
               /\ cell'[snap[q].gen][att[q]] = Lock(q)
    <3>1. pc[q] \in Holding /\ AttemptInv(q)
      BY <2>1, <2>7 DEF Attempting, Holding, RequestInv
    <3>2. att[q] \in 1..Len(cell[snap[q].gen]) /\ snap[q].gen \in Gen
      BY <2>4, <2>7, <3>1 DEF AttemptInv
    <3>3. CASE snap[q].gen # g
      BY <1>7, <3>2, <3>3 DEF Lock
    <3>4. CASE snap[q].gen = g
      <4>1. att[q] \in 1..Len(cell[g]) /\ cell'[g][att[q]] = cell[g][att[q]]
        BY <1>7, <3>2, <3>4
      <4>2. att[q] \in 1..Len(cell'[g])
        BY <1>6, <1>7, <4>1
      <4> QED BY <3>4, <4>1, <4>2 DEF Lock
    <3> QED BY <3>3, <3>4
  <2>8. pc[q] \in BuildSteps \/ pc[q] = "retire" => pc[q] \in Attempting
    BY DEF Attempting
  <2>9. \A i \in DOMAIN by_idx' : i \in DOMAIN by_idx /\ by_idx'[i] = by_idx[i]
    BY <1>1
  <2> HIDE DEF StoreInv, StoreInvFinite
  <2> QED BY <2>1, <2>2, <2>3, <2>5, <2>6, <2>7, <2>8, <2>9, RequestFrame
<1>15. \A q, r \in Clients : q # r => PairInv(q, r)'
  <2>1. OtherPairs(p)'
    BY <1>1, <1>3, <1>4, PairFrame
  <2> QED BY <1>4, <2>1, PairsStep
<1> QED BY <1>9, <1>10, <1>11, <1>12, <1>13, <1>14, <1>15

\* A request is through with an attempt and leaves the cell as it is.
LEMMA LeaveStep ==
  ASSUME StoreInv, NEW p \in Clients, Retire(p), res[p] \notin Failures \/ ~IsCurrentAttempt(p)
  PROVE  StoreInv'
<1> USE DEF StoreInv, StoreInvFinite
<1>1. /\ pc[p] = "retire" /\ by_idx' = by_idx /\ started' = started /\ req' = req
      /\ snap' = snap /\ att' = att /\ res' = res /\ cell' = cell
      /\ res[p] \notin Failures \/ att[p] # Len(cell[snap[p].gen])
  BY DEF Retire, IsCurrentAttempt
<1>2. /\ pc'[p] \in {"snapshot", "reply", "work"} /\ pc' \in [Clients -> Steps]
      /\ pc'[p] = "work" => res[p].st = "ok"
      /\ \A q \in Clients : q # p => pc'[q] = pc[q]
  <2>1. PICK s \in {"snapshot", "reply", "work"} : Goto(p, s) /\ (s = "work" => res[p].st = "ok")
    BY DEF Retire
  <2>2. s \in Steps
    BY DEF Steps
  <2> QED BY <2>1, <2>2 DEF TypeOK, Goto
<1>3. /\ pc[p] \in Holding /\ pc[p] \in Attempting /\ Busy(p) /\ pc[p] # "reply" /\ Busy(p)'
      /\ pc'[p] \notin Attempting /\ pc'[p] \notin BuildSteps
  BY <1>1, <1>2 DEF Holding, Attempting, BuildSteps, Busy
<1>4. OthersSame(p)
  BY <1>1, <1>2 DEF OthersSame, Same
<1>5. OpInv(p) /\ SnapInv(p) /\ ResultInv(p)
  BY DEF RequestInv
<1>6. TypeOK'
  BY <1>1, <1>2 DEF TypeOK
<1>7. RequestInv(p)'
  <2>1. OpInv(p)' /\ SnapInv(p)'
    BY <1>1, <1>3, <1>5 DEF OpInv, SnapInv
  <2>2. ResultInv(p)'
    BY <1>1, <1>2, <1>5 DEF ResultInv
  <2> QED BY <1>2, <1>3, <2>1, <2>2 DEF RequestInv, AttemptInv
<1>8. OtherPairs(p)'
  BY <1>1, <1>3, <1>4, PairFrame
<1>9. started <= started'
  BY <1>1 DEF TypeOK
<1> HIDE DEF StoreInv, StoreInvFinite
<1> QED BY <1>1, <1>4, <1>6, <1>7, <1>8, <1>9, PrivateFrame

-----------------------------------------------------------------------------
(* Steps on the store.                                                     *)

\* An upload gets a generation nobody has, and concerns no request.
LEMMA UploadStep ==
  ASSUME StoreInv, Upload
  PROVE  StoreInv'
<1> USE DEF StoreInv, StoreInvFinite
<1> DEFINE o == started'
           e == [gen |-> o, thy |-> o, origin |-> Uploaded]
           i == next_free_idx
           v == Blank("empty")
<1>1. /\ started' = started + 1 /\ started \in Nat /\ started' \in 1..MaxOps
      /\ Put(i, e) /\ NewCell(e.gen, v)
      /\ pc' = pc /\ req' = req /\ snap' = snap /\ att' = att /\ res' = res
  BY StoreAssumption DEF Upload, TypeOK
<1>2. i \in Nat \ {0}
  BY NextFreeIdx DEF TypeOK
<1>3. e \in Entry /\ e.gen = started' /\ started' \in Gen
  BY <1>1 DEF Entry, Gen, Thy, Ops, Origin
<1>4. cell[e.gen] = <<>>
  BY <1>1, <1>3 DEF CellsInv
<1>5. v \in OnceLock /\ v \notin Failures /\ v.st # "ok"
  BY DEF Blank, OnceLock, Failures
<1>6. \A q \in Clients : Same(q)
  BY <1>1 DEF Same
<1>7. \A q \in Clients : Busy(q) => req[q].op # e.gen
  BY <1>1, <1>3 DEF RequestInv, OpInv
<1>8. started' \in 0..MaxOps /\ started <= started' /\ e.gen <= started'
  BY <1>1, <1>3
<1>9. \A q, r \in Clients : q # r => PairInv(q, r)'
  BY <1>6 DEF PairInv, Busy, Same
<1>10. /\ Bounded' /\ CellsInv' /\ EntriesInv' /\ FailureIsForgotten'
       /\ \A q \in Clients : RequestInv(q)'
       /\ DOMAIN by_idx' \subseteq Nat \ {0} /\ by_idx' = [j \in DOMAIN by_idx' |-> by_idx'[j]]
       /\ \A j \in DOMAIN by_idx' : by_idx'[j] \in Entry
       /\ cell' \in [Gen -> Seq(OnceLock)]
  <2> HIDE DEF StoreInv, StoreInvFinite, e, i, v
  <2> QED BY <1>1, <1>2, <1>3, <1>4, <1>5, <1>6, <1>7, <1>8, PutFrame
<1>11. TypeOK'
  BY <1>1, <1>8, <1>10 DEF TypeOK
<1> QED BY <1>9, <1>10, <1>11

\* A request puts the entry its operation made at an index, and is done.
LEMMA EntryStep ==
  ASSUME StoreInv, NEW p \in Clients, NEW i \in Nat \ {0}, NEW e \in Entry, NEW v \in OnceLock,
         pc[p] \in {"work", "replace"}, e.gen = req[p].op,
         Put(i, e), NewCell(e.gen, v), v \notin Failures, v.st = "ok" => v.thy = e.thy,
         Goto(p, "reply"), \A q \in Clients : q # p => res'[q] = res[q],
         res' \in [Clients -> Results],
         pc[p] = "work" => res' = res, pc[p] = "replace" => res'[p].st # "ok",
         UNCHANGED <<started, req, snap, att>>
  PROVE  StoreInv'
<1> USE DEF StoreInv, StoreInvFinite
<1>1. /\ started' = started /\ req' = req /\ snap' = snap /\ att' = att
      /\ pc'[p] = "reply" /\ pc' \in [Clients -> Steps]
      /\ \A q \in Clients : q # p => pc'[q] = pc[q]
  BY DEF Goto, TypeOK, Steps
<1>2. /\ pc[p] \in Holding /\ pc[p] # "retire" /\ Busy(p) /\ pc[p] # "reply" /\ Busy(p)'
      /\ pc'[p] \notin Holding /\ pc'[p] \notin Attempting /\ pc'[p] \notin BuildSteps
  BY <1>1 DEF Holding, Attempting, BuildSteps, Busy
<1>3. OthersSame(p)
  BY <1>1 DEF OthersSame, Same
<1>4. OpInv(p) /\ ResultInv(p) /\ started \in Nat /\ started' \in 0..MaxOps /\ started <= started'
  BY <1>1 DEF RequestInv, TypeOK
<1>5. cell[e.gen] = <<>> /\ e.gen <= started'
  BY <1>1, <1>2, <1>4 DEF OpInv
<1> DEFINE Q == Clients \ {p}
<1>6. /\ Q \in SUBSET Clients /\ \A q \in Q : Same(q)
      /\ \A q \in Clients : pc[q] = "retire" => q \in Q
      /\ \A q \in Q : Busy(q) => req[q].op # e.gen
  BY <1>2, <1>3 DEF OthersSame, PairInv
<1>7. /\ Bounded' /\ CellsInv' /\ EntriesInv' /\ FailureIsForgotten'
      /\ \A q \in Q : RequestInv(q)'
      /\ DOMAIN by_idx' \subseteq Nat \ {0} /\ by_idx' = [j \in DOMAIN by_idx' |-> by_idx'[j]]
      /\ \A j \in DOMAIN by_idx' : by_idx'[j] \in Entry
      /\ cell' \in [Gen -> Seq(OnceLock)]
  <2> HIDE DEF StoreInv, StoreInvFinite, Q
  <2> QED BY <1>4, <1>5, <1>6, PutFrame
<1>8. TypeOK'
  BY <1>1, <1>4, <1>7 DEF TypeOK
<1>9. RequestInv(p)'
  <2>1. OpInv(p)'
    BY <1>1, <1>2, <1>4 DEF OpInv
  <2>2. ResultInv(p)'
    BY <1>1, <1>4 DEF ResultInv
  <2> QED BY <1>1, <1>2, <2>1, <2>2 DEF RequestInv, SnapInv, AttemptInv
<1>10. \A q, r \in Clients : q # r => PairInv(q, r)'
  <2>1. OtherPairs(p)'
    BY <1>1, <1>2, <1>3, PairFrame
  <2> QED BY <1>3, <2>1, PairsStep
<1> QED BY <1>7, <1>8, <1>9, <1>10

\* An edit publishes its new version at an index of its own.
LEMMA InsertStep ==
  ASSUME StoreInv, NEW p \in Clients, Insert(p)
  PROVE  StoreInv'
<1> USE DEF StoreInv, StoreInvFinite
<1>1. pc[p] = "work" /\ pc[p] \in Holding /\ Busy(p) /\ pc[p] # "reply"
  BY DEF Insert, Holding, Busy
<1>2. snap[p] \in Entry /\ req[p].op \in Ops
  BY <1>1 DEF RequestInv, SnapInv, OpInv, TypeOK, Ops
<1>3. PICK t \in {snap[p].thy, req[p].op} :
        /\ Put(next_free_idx, [gen |-> req[p].op, thy |-> t, origin |-> snap[p].origin])
        /\ NewCell(req[p].op, Proof(t, req[p].op))
  BY DEF Insert
<1> DEFINE e == [gen |-> req[p].op, thy |-> t, origin |-> snap[p].origin]
           v == Proof(t, req[p].op)
           i == next_free_idx
<1>4. i \in Nat \ {0}
  BY NextFreeIdx DEF TypeOK
<1>5. t \in Thy
  BY <1>2 DEF Entry, Thy
<1>6. e \in Entry /\ e.gen = req[p].op /\ e.thy = t
  BY <1>2, <1>5 DEF Entry, Gen
<1>7. v \in OnceLock /\ v \notin Failures /\ v.thy = t
  BY <1>2, <1>5 DEF Proof, Proofs, OnceLock, Filled, Failures, Blank
<1>8. /\ Goto(p, "reply") /\ UNCHANGED <<started, req, snap, att>> /\ res' = res
      /\ Put(i, e) /\ NewCell(e.gen, v)
  BY <1>3 DEF Insert
<1>9. res' \in [Clients -> Results]
  BY <1>8 DEF TypeOK
<1> HIDE DEF StoreInv, StoreInvFinite, e, v, i
<1> QED BY <1>1, <1>4, <1>6, <1>7, <1>8, <1>9, EntryStep

\* A reload replaces the version its snapshot was made of.
LEMMA ReplaceStep ==
  ASSUME StoreInv, NEW p \in Clients, Replace(p), IsCurrent(req[p].idx, snap[p].gen)
  PROVE  StoreInv'
<1> USE DEF StoreInv, StoreInvFinite
<1>1. pc[p] = "replace" /\ pc[p] \in Holding /\ Busy(p) /\ pc[p] # "reply"
  BY DEF Replace, Holding, Busy
<1>2. snap[p] \in Entry /\ req[p].op \in Ops
  BY <1>1 DEF RequestInv, SnapInv, OpInv, TypeOK, Ops
<1> DEFINE e == [gen |-> req[p].op, thy |-> req[p].op, origin |-> snap[p].origin]
           v == Blank("empty")
           i == req[p].idx
<1>3. i \in Nat \ {0}
  BY DEF IsCurrent, TypeOK
<1>4. e \in Entry /\ e.gen = req[p].op
  BY <1>2 DEF Entry, Gen, Thy
<1>5. v \in OnceLock /\ v \notin Failures /\ v.st # "ok"
  BY DEF OnceLock, Failures, Blank
<1>6. /\ Goto(p, "reply") /\ UNCHANGED <<started, req, snap, att>>
      /\ Put(i, e) /\ NewCell(e.gen, v) /\ Result(p, Blank("replaced"))
  BY DEF Replace
<1>7. /\ res' \in [Clients -> Results] /\ res'[p].st # "ok"
      /\ \A q \in Clients : q # p => res'[q] = res[q]
  BY <1>6 DEF TypeOK, Result, Results, Blank
<1> HIDE DEF StoreInv, StoreInvFinite, e, v, i
<1> QED BY <1>1, <1>3, <1>4, <1>5, <1>6, <1>7, EntryStep

\* An unload takes an entry away and leaves the requests on it running.
LEMMA RemoveStep ==
  ASSUME StoreInv, Remove
  PROVE  StoreInv'
<1> USE DEF StoreInv, StoreInvFinite
<1>1. /\ cell' = cell /\ started' = started /\ pc' = pc /\ req' = req /\ snap' = snap
      /\ att' = att /\ res' = res /\ started \in Nat
  BY DEF Remove, TypeOK
<1>2. /\ DOMAIN by_idx' \subseteq DOMAIN by_idx /\ by_idx' = [j \in DOMAIN by_idx' |-> by_idx'[j]]
      /\ \A j \in DOMAIN by_idx' : by_idx'[j] = by_idx[j]
  BY DEF Remove
<1>3. TypeOK'
  BY <1>1, <1>2 DEF TypeOK
<1>4. Bounded' /\ CellsInv' /\ EntriesInv' /\ FailureIsForgotten'
  BY <1>1, <1>2 DEF Bounded, CellsInv, EntriesInv, FailureIsForgotten
<1>5. ASSUME NEW q \in Clients PROVE RequestInv(q)'
  <2>1. Same(q) /\ RequestInv(q) /\ started <= started'
    BY <1>1 DEF Same
  <2>2. OpInv(q)'
    BY <1>1, <2>1 DEF RequestInv, OpInv, Busy
  <2>3. SnapInv(q)'
    BY <1>1, <1>2, <2>1 DEF RequestInv, SnapInv
  <2>4. AttemptInv(q)'
    BY <1>1, <2>1 DEF RequestInv, AttemptInv, Lock
  <2>5. ResultInv(q)'
    BY <1>1, <1>2, <2>1 DEF RequestInv, ResultInv
  <2> QED BY <2>2, <2>3, <2>4, <2>5 DEF RequestInv
<1>6. \A q, r \in Clients : q # r => PairInv(q, r)'
  BY <1>1 DEF PairInv, Busy
<1> QED BY <1>3, <1>4, <1>5, <1>6

-----------------------------------------------------------------------------
(* The theorems.                                                           *)

LEMMA InitInv == Init => StoreInv
<1> SUFFICES ASSUME Init PROVE StoreInv
  OBVIOUS
<1> USE StoreAssumption DEF Init
<1>1. Len(Startup) \in Nat /\ \A i \in 1..Len(Startup) : Startup[i] \in Files
  OBVIOUS
<1>2. /\ \A p \in Clients : pc[p] = "idle" /\ pc[p] \notin Holding /\ pc[p] \notin Attempting
      /\ \A p \in Clients : pc[p] \notin BuildSteps
  BY DEF Holding, Attempting, BuildSteps
<1>3. \A g \in Gen : cell[g] # <<>> => Len(cell[g]) = 1 /\ cell[g][1] = Blank("empty")
  OBVIOUS
<1>4. Blank("empty").st = "empty" /\ Blank("empty") \notin Failures /\ Blank("empty") \in OnceLock
  BY DEF Blank, Failures, OnceLock
<1>5. TypeOK
  <2>1. \A i \in DOMAIN by_idx : by_idx[i] \in Entry
    BY <1>1 DEF Entry, Gen, Thy, Ops, Origin
  <2>2. cell \in [Gen -> Seq(OnceLock)]
    BY <1>4
  <2>3. /\ DOMAIN by_idx \subseteq Nat \ {0} /\ by_idx = [i \in DOMAIN by_idx |-> by_idx[i]]
        /\ started \in 0..MaxOps
    BY <1>1
  <2> QED BY <2>1, <2>2, <2>3 DEF TypeOK, Steps, NoReq, Kinds, Results, NoEntry
<1>6. Bounded
  <2>1. \A i \in DOMAIN by_idx : i <= Len(Startup)
    BY <1>1
  <2> QED BY <1>1, <2>1 DEF Bounded
<1>7. CellsInv
  <2>1. \A g \in Gen : g > started => cell[g] = <<>>
    BY <1>1 DEF Gen, Ops
  <2> QED BY <1>3, <2>1 DEF CellsInv
<1>8. EntriesInv
  <2>1. \A i \in DOMAIN by_idx : by_idx[i].gen = i /\ i \in Gen /\ cell[i] # <<>>
    BY <1>1 DEF Gen, Ops
  <2>2. \A i \in DOMAIN by_idx : Len(cell[i]) = 1 /\ cell[i][1] = Blank("empty")
    BY <1>3, <2>1
  <2> QED BY <1>4, <2>1, <2>2 DEF EntriesInv
<1>9. FailureIsForgotten
  BY <1>3, <1>4 DEF FailureIsForgotten
<1>10. ASSUME NEW p \in Clients PROVE RequestInv(p)
  BY <1>2 DEF RequestInv, OpInv, SnapInv, AttemptInv, ResultInv, Busy
<1>11. ASSUME NEW p \in Clients, NEW q \in Clients PROVE PairInv(p, q)
  BY <1>2 DEF PairInv, Busy
<1> QED BY <1>5, <1>6, <1>7, <1>8, <1>9, <1>10, <1>11 DEF StoreInv, StoreInvFinite

LEMMA StutterInv == StoreInv /\ UNCHANGED vars => StoreInv'
BY DEF vars, StoreInv, StoreInvFinite, TypeOK, Bounded, CellsInv, EntriesInv, FailureIsForgotten,
       RequestInv, OpInv, SnapInv, AttemptInv, ResultInv, PairInv, Busy, Lock

LEMMA StepInv == StoreInv /\ [Next]_vars => StoreInv'
<1> SUFFICES ASSUME StoreInv, [Next]_vars PROVE StoreInv'
  OBVIOUS
<1>1. CASE Upload
  BY <1>1, UploadStep
<1>2. CASE Remove
  BY <1>2, RemoveStep
<1>3. CASE Quiet \/ UNCHANGED vars
  BY <1>3, StutterInv DEF Quiet
<1>4. ASSUME NEW p \in Clients, Begin(p) PROVE StoreInv'
  BY <1>4, BeginStep
<1>5. ASSUME NEW p \in Clients, Run(p) PROVE StoreInv'
  <2>1. CASE Snapshot(p)
    BY <2>1, SnapshotStep
  <2>2. CASE Attempt(p) \/ Validate(p) \/ Build(p) \/ Check(p) \/ Load(p) \/ Abandon(p)
    BY <2>2, PrivateStep
  <2>3. CASE Enter(p)
    BY <2>3, ShareStep, ElectStep
  <2>4. CASE Panic(p)
    BY <2>4, PanicStep
  <2>5. CASE Publish(p)
    BY <2>5, PublishStep
  <2>6. CASE Retire(p)
    BY <2>6, ReopenStep, LeaveStep
  <2>7. CASE Insert(p)
    BY <2>7, InsertStep
  <2>8. CASE Replace(p)
    BY <2>8, ReplaceStep, PrivateStep
  <2>9. CASE Reply(p)
    BY <2>9, ReplyStep
  <2> QED BY <1>5, <2>1, <2>2, <2>3, <2>4, <2>5, <2>6, <2>7, <2>8, <2>9 DEF Run
<1> QED BY <1>1, <1>2, <1>3, <1>4, <1>5 DEF Next

\* The invariant holds throughout every run of the store (state.rs:114-389),
\* whatever the requests do and however their steps interleave.
THEOREM StoreInvariant == Spec => []StoreInv
<1>1. Init => StoreInv
  BY InitInv
<1>2. StoreInv /\ [Next]_vars => StoreInv'
  BY StepInv
<1> QED BY <1>1, <1>2, PTL DEF Spec

\* Every variable of the store and of its requests keeps its type.
THEOREM TypeCorrect == Spec => []TypeOK
<1>1. StoreInv => TypeOK
  BY DEF StoreInv, StoreInvFinite
<1> QED BY <1>1, StoreInvariant, PTL

\* At most one request at a time boots Maude for one version of a theory
\* (RetryCell::get_or_try_init).
THEOREM SingleFlightHolds == Spec => []SingleFlight
<1>1. StoreInv => SingleFlight
  <2> SUFFICES ASSUME StoreInv, NEW p \in Clients, NEW q \in Clients, p # q,
                      pc[p] \in BuildSteps, pc[q] \in BuildSteps, snap[p].gen = snap[q].gen
               PROVE  FALSE
    BY DEF SingleFlight
  <2> DEFINE g == snap[p].gen
  <2>1. pc[p] \in Holding /\ pc[p] \in Attempting /\ pc[q] \in Attempting
    BY DEF Holding, Attempting
  <2>2. RequestInv(p) /\ RequestInv(q) /\ PairInv(p, q) /\ CellsInv /\ TypeOK
    BY DEF StoreInv, StoreInvFinite
  <2>3. /\ g \in Gen /\ Len(cell[g]) \in Nat
        /\ att[p] \in 1..Len(cell[g]) /\ att[q] \in 1..Len(cell[g])
        /\ cell[g][att[p]] = Blank("running") /\ cell[g][att[q]] = Blank("running")
    BY <2>1, <2>2 DEF RequestInv, SnapInv, AttemptInv, Lock, TypeOK, Entry
  <2>4. Blank("running") \notin Failures
    BY DEF Failures, Blank
  <2>5. att[p] = Len(cell[g]) /\ att[q] = Len(cell[g])
    BY <2>2, <2>3, <2>4 DEF CellsInv
  <2> QED BY <2>2, <2>5 DEF PairInv
<1> QED BY <1>1, StoreInvariant, PTL

\* The proof state of a version, once built, is never replaced by another,
\* although a failed attempt may be retired after it (RetryCell::retire).
THEOREM ProofIsKeptHolds == Spec => []ProofIsKept
<1>1. StoreInv => ProofIsKept
  <2> SUFFICES ASSUME StoreInv, NEW g \in Gen, NEW n \in 1..Len(cell[g]), cell[g][n].st = "ok"
               PROVE  n = Len(cell[g])
    BY DEF ProofIsKept
  <2>1. cell[g][n] \notin Failures
    BY DEF Failures, Blank
  <2>2. Len(cell[g]) \in Nat
    BY DEF StoreInv, StoreInvFinite, TypeOK
  <2> QED BY <2>1, <2>2 DEF StoreInv, StoreInvFinite, CellsInv
<1> QED BY <1>1, StoreInvariant, PTL

\* A failed attempt does not outlive the requests that shared it.
THEOREM FailureIsForgottenHolds == Spec => []FailureIsForgotten
<1>1. StoreInv => FailureIsForgotten
  BY DEF StoreInv, StoreInvFinite
<1> QED BY <1>1, StoreInvariant, PTL

\* A version that is gone before the look-up after its build (ensure_snapshot_proof)
\* never gets a proof state.
THEOREM GoneIsNotProvedHolds == Spec => GoneIsNotProved
<1>1. StoreInv /\ [Next]_vars =>
        [\A g \in Gen : Gone(g) /\ Unproved(g) => (Gone(g) /\ Unproved(g))']_vars
  <2> SUFFICES ASSUME StoreInv, Next, NEW g \in Gen, Gone(g), Unproved(g)
               PROVE  Gone(g)' /\ Unproved(g)'
    BY DEF vars
  <2>1. TypeOK /\ CellsInv /\ (\A p \in Clients : RequestInv(p))
    BY DEF StoreInv, StoreInvFinite
  <2>2. cell[g] # <<>> /\ cell[g] \in Seq(OnceLock) /\ Len(cell[g]) \in Nat
    BY <2>1 DEF Gone, TypeOK
  \* A new entry has a new generation.
  <2>3. ASSUME NEW h \in Gen, cell[h] = <<>>, NEW v \in OnceLock, NewCell(h, v),
               NEW i, NEW e, e.gen = h, Put(i, e),
               \A q \in Clients : pc'[q] = "publish" =>
                 pc[q] = "publish" /\ snap'[q] = snap[q] /\ res'[q] = res[q]
        PROVE  Gone(g)' /\ Unproved(g)'
    <3>1. g # h /\ cell'[g] = cell[g]
      BY <2>1, <2>2, <2>3, NewCellFacts
    <3>2. \A j \in DOMAIN by_idx' : by_idx'[j].gen # g
      <4>1. /\ DOMAIN by_idx' = DOMAIN by_idx \cup {i} /\ by_idx'[i] = e
            /\ \A j \in DOMAIN by_idx : j # i => by_idx'[j] = by_idx[j]
        BY <2>3 DEF Put
      <4>2. \A j \in DOMAIN by_idx : by_idx[j].gen # g
        BY DEF Gone
      <4> QED BY <2>3, <3>1, <4>1, <4>2
    <3> QED BY <2>2, <2>3, <3>1, <3>2 DEF Gone, Unproved
  \* Nothing but cells and requests changes.
  <2>4. ASSUME UNCHANGED by_idx, cell'[g] # <<>>,
               \A n \in 1..Len(cell'[g]) : cell'[g][n].st # "ok",
               \A q \in Clients : pc'[q] = "publish" /\ snap'[q].gen = g /\ res'[q].st = "ok" =>
                 pc[q] = "publish" /\ snap[q].gen = g /\ res[q].st = "ok"
        PROVE  Gone(g)' /\ Unproved(g)'
    BY <2>4 DEF Gone, Unproved
  <2>5. ASSUME NEW p \in Clients, pc[p] \in Attempting, NEW v \in OnceLock, SetLock(p, v),
               snap[p].gen = g => v.st # "ok"
        PROVE  cell'[g] # <<>> /\ \A n \in 1..Len(cell'[g]) : cell'[g][n].st # "ok"
    <3>1. snap[p].gen \in Gen /\ att[p] \in 1..Len(cell[snap[p].gen])
      BY <2>1, <2>5 DEF RequestInv, SnapInv, AttemptInv, Entry, Attempting, Holding
    <3>2. /\ \A h \in Gen : Len(cell'[h]) = Len(cell[h])
          /\ \A h \in Gen : h # snap[p].gen => cell'[h] = cell[h]
          /\ \A n \in 1..Len(cell[snap[p].gen]) :
               cell'[snap[p].gen][n] = IF n = att[p] THEN v ELSE cell[snap[p].gen][n]
          /\ \A h \in Gen : cell[h] # <<>> <=> cell'[h] # <<>>
      BY <2>1, <2>5, <3>1, SetLockFacts
    <3> QED BY <2>2, <2>5, <3>2 DEF Unproved
  <2>6. CASE Upload
    <3>1. started' \in Gen /\ cell[started'] = <<>> /\ Blank("empty") \in OnceLock
      BY <2>1, <2>6, StoreAssumption DEF Upload, CellsInv, TypeOK, Gen, Ops, OnceLock
    <3> QED BY <2>3, <2>6, <3>1 DEF Upload
  <2>7. CASE Remove
    <3>1. \A j \in DOMAIN by_idx' : by_idx'[j].gen # g
      BY <2>7 DEF Remove, Gone
    <3> QED BY <2>7, <3>1 DEF Remove, Gone, Unproved
  <2>8. CASE Quiet
    BY <2>8 DEF Quiet, vars, Gone, Unproved
  <2>9. ASSUME NEW p \in Clients,
               Begin(p) \/ Snapshot(p) \/ Attempt(p) \/ Validate(p) \/ Build(p) \/ Check(p)
               \/ Load(p) \/ Abandon(p) \/ Reply(p)
        PROVE  Gone(g)' /\ Unproved(g)'
    <3>1. UNCHANGED <<by_idx, cell>> /\ \A q \in Clients : q # p => Same(q)
      BY <2>1, <2>9 DEF Begin, Snapshot, Attempt, Validate, Build, Check, Load, Abandon, Reply, Same,
                        Goto, Result, TypeOK
    <3>2. pc'[p] = "publish" /\ snap'[p].gen = g => res'[p].st # "ok"
      <4>1. CASE Check(p)
        <5>1. snap'[p] = snap[p] /\ (snap[p].gen = g => ~IsCurrent(req[p].idx, snap[p].gen))
          BY <4>1 DEF Check, Gone, IsCurrent
        <5>2. snap[p].gen = g => res' = [res EXCEPT ![p] = Blank("stale")]
          BY <4>1, <5>1 DEF Check, Result
        <5> QED BY <2>1, <5>1, <5>2 DEF TypeOK, Blank
      <4>2. CASE Validate(p)
        <5>1. pc'[p] = "publish" => res'[p] = Blank("stale")
          BY <2>1, <4>2 DEF Validate, Goto, Result, TypeOK
        <5> QED BY <5>1 DEF Blank
      <4>3. CASE Begin(p) \/ Snapshot(p) \/ Attempt(p) \/ Build(p) \/ Load(p) \/ Abandon(p) \/ Reply(p)
        BY <2>1, <4>3 DEF Begin, Snapshot, Attempt, Build, Load, Abandon, Reply, Goto, TypeOK
      <4> QED BY <2>9, <4>1, <4>2, <4>3
    <3> QED BY <2>2, <2>4, <3>1, <3>2 DEF Same, Unproved
  <2>10. ASSUME NEW p \in Clients, Enter(p) \/ Panic(p) \/ Publish(p)
         PROVE  Gone(g)' /\ Unproved(g)'
    <3>1. /\ UNCHANGED by_idx /\ pc'[p] # "publish" /\ pc[p] \in Attempting
          /\ \A q \in Clients : q # p => Same(q)
      BY <2>1, <2>10 DEF Enter, Panic, Publish, Goto, Result, Same, TypeOK, Attempting, BuildSteps
    <3>2. \/ UNCHANGED cell
          \/ \E v \in OnceLock : SetLock(p, v) /\ (snap[p].gen = g => v.st # "ok")
      <4>1. CASE Publish(p)
        <5>1. pc[p] = "publish" /\ SetLock(p, res[p])
          BY <4>1 DEF Publish
        <5>2. res[p] \in OnceLock
          BY <2>1, <5>1 DEF RequestInv, ResultInv, OnceLock
        <5> QED BY <5>1, <5>2 DEF Unproved
      <4>2. CASE Enter(p) \/ Panic(p)
        <5>1. UNCHANGED cell \/ SetLock(p, Blank("running")) \/ SetLock(p, Blank("empty"))
          BY <4>2 DEF Enter, Panic
        <5>2. \A s \in {"running", "empty"} : Blank(s) \in OnceLock /\ Blank(s).st # "ok"
          BY DEF OnceLock, Blank
        <5> QED BY <5>1, <5>2
      <4> QED BY <2>10, <4>1, <4>2
    <3>3. cell'[g] # <<>> /\ \A n \in 1..Len(cell'[g]) : cell'[g][n].st # "ok"
      BY <2>2, <2>5, <3>1, <3>2 DEF Unproved
    <3> QED BY <2>4, <3>1, <3>3 DEF Same
  <2>11. ASSUME NEW p \in Clients, Retire(p) PROVE Gone(g)' /\ Unproved(g)'
    <3>1. UNCHANGED <<by_idx, snap, res>> /\ \A q \in Clients : pc'[q] = "publish" => pc[q] = "publish"
      BY <2>1, <2>11 DEF Retire, Goto, TypeOK
    <3>2. cell'[g] # <<>> /\ \A n \in 1..Len(cell'[g]) : cell'[g][n].st # "ok"
      <4>1. CASE UNCHANGED cell
        BY <2>2, <4>1 DEF Unproved
      <4>2. CASE cell' = [cell EXCEPT ![snap[p].gen] = Append(@, Blank("empty"))]
        <5>1. PICK h \in Gen : h = snap[p].gen
          BY <2>1, <2>11 DEF Retire, RequestInv, SnapInv, Entry, Holding
        <5>2. /\ \A f \in Gen : f # h => cell'[f] = cell[f]
              /\ Len(cell'[h]) = Len(cell[h]) + 1 /\ cell'[h] # <<>>
              /\ \A n \in 1..Len(cell[h]) : cell'[h][n] = cell[h][n]
              /\ cell'[h][Len(cell[h]) + 1] = Blank("empty")
          BY <2>1, <4>2, <5>1, AppendFacts
        <5>3. Blank("empty").st # "ok"
          BY DEF Blank
        <5> QED BY <2>2, <5>2, <5>3 DEF Unproved
      <4> QED BY <2>11, <4>1, <4>2 DEF Retire
    <3> QED BY <2>4, <3>1, <3>2
  <2>12. ASSUME NEW p \in Clients, Insert(p) \/ Replace(p) PROVE Gone(g)' /\ Unproved(g)'
    <3>1. UNCHANGED snap /\ (\A q \in Clients : q # p => Same(q)) /\ pc'[p] # "publish"
      BY <2>1, <2>12 DEF Insert, Replace, Goto, Result, Same, TypeOK
    <3>2. pc[p] \in {"work", "replace"} /\ req[p].op \in Gen /\ cell[req[p].op] = <<>>
      BY <2>1, <2>12 DEF Insert, Replace, RequestInv, OpInv, Busy, Gen, Ops, TypeOK
    <3>3. CASE Insert(p)
      <4>1. PICK t \in {snap[p].thy, req[p].op} :
              /\ Put(next_free_idx, [gen |-> req[p].op, thy |-> t, origin |-> snap[p].origin])
              /\ NewCell(req[p].op, Proof(t, req[p].op))
        BY <3>3 DEF Insert
      <4>2. snap[p].thy \in Thy
        BY <2>1, <3>3 DEF Insert, RequestInv, SnapInv, Holding, Entry
      <4>3. Proof(t, req[p].op) \in OnceLock
        BY <3>2, <4>2 DEF Proof, OnceLock, Filled, Proofs, Gen, Thy
      <4> HIDE DEF Proof
      <4> QED BY <2>3, <3>1, <3>2, <4>1, <4>3 DEF Same
    <3>4. CASE Replace(p) /\ ~IsCurrent(req[p].idx, snap[p].gen)
      <4>1. UNCHANGED <<by_idx, cell>>
        BY <3>4 DEF Replace
      <4> QED BY <2>2, <2>4, <3>1, <4>1 DEF Same, Unproved
    <3>5. CASE Replace(p) /\ IsCurrent(req[p].idx, snap[p].gen)
      <4>1. /\ Put(req[p].idx, [gen |-> req[p].op, thy |-> req[p].op, origin |-> snap[p].origin])
            /\ NewCell(req[p].op, Blank("empty")) /\ Blank("empty") \in OnceLock
        BY <3>5 DEF Replace, OnceLock
      <4> QED BY <2>3, <3>1, <3>2, <4>1 DEF Same
    <3> QED BY <2>12, <3>3, <3>4, <3>5
  <2> QED BY <2>6, <2>7, <2>8, <2>9, <2>10, <2>11, <2>12 DEF Next, Run
<1> QED BY <1>1, StoreInvariant, PTL DEF Spec, GoneIsNotProved

\* A request that materialized_snapshot makes start over never meets the stale
\* generation again.
THEOREM StaleIsFinalHolds == Spec => []StaleIsFinal
<1>1. StoreInv => StaleIsFinal
  <2> SUFFICES ASSUME StoreInv, NEW p \in Clients, pc[p] = "retire", res[p].st = "stale",
                      NEW i \in DOMAIN by_idx
               PROVE  by_idx[i].gen # snap[p].gen
    BY DEF StaleIsFinal
  <2>1. pc[p] \in Holding /\ pc[p] \in Attempting
    BY DEF Holding, Attempting
  <2>2. att[p] \in 1..Len(cell[snap[p].gen]) /\ cell[snap[p].gen][att[p]] = res[p]
    BY <2>1 DEF StoreInv, StoreInvFinite, RequestInv, AttemptInv, Lock
  <2> QED BY <2>2 DEF StoreInv, StoreInvFinite, EntriesInv
<1> QED BY <1>1, StoreInvariant, PTL

\* A page never pairs one version of a theory with the proof of another.
THEOREM PageIsConsistentHolds == Spec => []PageIsConsistent
<1>1. StoreInv => PageIsConsistent
  BY DEF StoreInv, StoreInvFinite, RequestInv, ResultInv, PageIsConsistent
<1> QED BY <1>1, StoreInvariant, PTL

\* A slow reload (replace_if_current) cannot put a file's contents on an index
\* another theory took.
THEOREM OriginIsKeptHolds == Spec => OriginIsKept
<1> DEFINE Kept(i) ==
      by_idx'[i] # by_idx[i] =>
        by_idx'[i].origin = by_idx[i].origin /\ by_idx[i].origin # Uploaded
<1>1. StoreInv /\ [Next]_vars =>
        [\A i \in DOMAIN by_idx \cap DOMAIN by_idx' : Kept(i)]_vars
  <2> SUFFICES ASSUME StoreInv, Next, NEW i \in DOMAIN by_idx, i \in DOMAIN by_idx'
               PROVE  Kept(i)
    BY DEF vars
  <2>1. i # next_free_idx
    <3>1. i < next_free_idx /\ i \in Nat
      BY NextFreeIdx DEF StoreInv, StoreInvFinite, TypeOK
    <3> QED BY <3>1, NextFreeIdx DEF StoreInv, StoreInvFinite, TypeOK
  <2>2. ASSUME NEW e, Put(next_free_idx, e) PROVE Kept(i)
    BY <2>1, <2>2, PutFacts
  <2>3. CASE Upload
    BY <2>2, <2>3 DEF Upload
  <2>4. CASE Remove
    BY <2>4 DEF Remove
  <2>5. ASSUME NEW p \in Clients, Insert(p) PROVE Kept(i)
    <3>1. \E e : Put(next_free_idx, e)
      BY <2>5 DEF Insert
    <3> QED BY <2>2, <3>1
  <2>6. ASSUME NEW p \in Clients, Replace(p) PROVE Kept(i)
    <3>1. CASE ~IsCurrent(req[p].idx, snap[p].gen)
      BY <2>6, <3>1 DEF Replace
    <3>2. CASE IsCurrent(req[p].idx, snap[p].gen)
      <4> DEFINE e == [gen |-> req[p].op, thy |-> req[p].op, origin |-> snap[p].origin]
      <4>1. pc[p] = "replace" /\ pc[p] \in Holding
        BY <2>6 DEF Replace, Holding
      <4>2. by_idx[req[p].idx] = snap[p] /\ snap[p].origin # Uploaded
        BY <3>2, <4>1 DEF StoreInv, StoreInvFinite, RequestInv, SnapInv, ResultInv, IsCurrent
      <4>3. Put(req[p].idx, e)
        BY <2>6, <3>2 DEF Replace
      <4>4. e.origin = snap[p].origin
        OBVIOUS
      <4>5. by_idx'[req[p].idx] = e /\ (i # req[p].idx => by_idx'[i] = by_idx[i])
        <5> HIDE DEF e
        <5> QED BY <4>3, PutFacts
      <4> HIDE DEF e
      <4> QED BY <4>2, <4>4, <4>5
    <3> QED BY <3>1, <3>2
  <2>7. CASE UNCHANGED by_idx
    BY <2>7
  <2>8. ASSUME NEW p \in Clients, Begin(p) \/ (Run(p) /\ ~Insert(p) /\ ~Replace(p))
        PROVE  UNCHANGED by_idx
    BY <2>8 DEF Run, Begin, Snapshot, Attempt, Enter, Validate, Build, Panic, Check, Publish,
                Retire, Abandon, Load, Reply
  <2> QED BY <2>3, <2>4, <2>5, <2>6, <2>7, <2>8 DEF Next, Quiet, vars
<1> QED BY <1>1, StoreInvariant, PTL DEF Spec, OriginIsKept

-----------------------------------------------------------------------------
(***************************************************************************)
(* TheoryStore implements TheoryMap, for all clients, files and bounds:    *)
(* the initial states map to initial states, and every step of the store   *)
(* maps to a step of the map or changes nothing of it.  Most steps of a    *)
(* request are private to it or about attempts, which the map knows        *)
(* nothing of; the publication of a proof, the end of a successful attempt *)
(* and the four that change the store are its steps.                       *)
(***************************************************************************)

\* A generation whose proof is there.
Finished(g) == \E n \in DOMAIN cell[g] : cell[g][n].st = "ok"

-----------------------------------------------------------------------------
(* What the map sees of a cell.                                            *)

\* The finished attempt of a cell is its proof (RetryCell: only the last attempt
\* can be successful).
LEMMA ProofOfFinished ==
  ASSUME StoreInv, NEW g \in Gen, NEW n \in DOMAIN cell[g], cell[g][n].st = "ok"
  PROVE  ProofOfGen(g) = cell[g][n]
<1>1. /\ cell[g] \in Seq(OnceLock) /\ Len(cell[g]) \in Nat /\ DOMAIN cell[g] = 1..Len(cell[g])
  BY DEF StoreInv, StoreInvFinite, TypeOK
<1>2. ASSUME NEW m \in DOMAIN cell[g], cell[g][m].st = "ok" PROVE m = Len(cell[g])
  <2>1. cell[g][m] \notin Failures
    BY <1>2 DEF Failures, Blank
  <2> QED
    BY <1>1, <2>1 DEF StoreInv, StoreInvFinite, CellsInv
<1> DEFINE m == CHOOSE k \in DOMAIN cell[g] : cell[g][k].st = "ok"
<1>3. m \in DOMAIN cell[g] /\ cell[g][m].st = "ok"
  OBVIOUS
<1>4. m = n
  BY <1>2, <1>3
<1> QED
  BY <1>4 DEF ProofOfGen

\* A cell without one has no proof yet.
LEMMA ProofOfOpen ==
  ASSUME NEW g \in Gen, ~Finished(g)
  PROVE  ProofOfGen(g) = Nothing
BY DEF ProofOfGen, Finished

\* A step that changes nothing the map sees.
LEMMA Stutters ==
  ASSUME UNCHANGED by_idx,
         \A g \in Gen : cell'[g] # <<>> <=> cell[g] # <<>>,
         \A g \in Gen : ProofOfGen(g)' = ProofOfGen(g),
         \A p \in Clients : PageOf(p)' = PageOf(p)
  PROVE  UNCHANGED Map!mapVars
<1>1. {g \in Gen : cell'[g] # <<>>} = {g \in Gen : cell[g] # <<>>}
  OBVIOUS
<1>2. [g \in Gen |-> ProofOfGen(g)]' = [g \in Gen |-> ProofOfGen(g)]
  OBVIOUS
<1>3. [p \in Clients |-> PageOf(p)]' = [p \in Clients |-> PageOf(p)]
  OBVIOUS
<1> QED
  BY <1>1, <1>2, <1>3 DEF Map!mapVars

\* An attempt that is open or running is the last of its cell, and no attempt of
\* that cell was successful.
LEMMA OpenLock ==
  ASSUME StoreInv, NEW p \in Clients, pc[p] \in Attempting, Lock(p).st \in {"empty", "running"}
  PROVE  /\ snap[p].gen \in Gen /\ att[p] \in 1..Len(cell[snap[p].gen])
         /\ DOMAIN cell[snap[p].gen] = 1..Len(cell[snap[p].gen])
         /\ ~Finished(snap[p].gen)
<1> DEFINE g == snap[p].gen
<1>1. pc[p] \in Holding
  BY DEF Attempting, Holding
<1>2. g \in Gen /\ att[p] \in 1..Len(cell[g])
  BY <1>1 DEF StoreInv, StoreInvFinite, RequestInv, SnapInv, AttemptInv, Entry
<1>3. cell[g] \in Seq(OnceLock) /\ Len(cell[g]) \in Nat /\ DOMAIN cell[g] = 1..Len(cell[g])
  BY <1>2 DEF StoreInv, StoreInvFinite, TypeOK
<1>4. ASSUME NEW n \in 1..Len(cell[g]), cell[g][n].st \notin {"stale", "failed"} PROVE n = Len(cell[g])
  <2>1. cell[g][n] \notin Failures
    BY <1>4 DEF Failures, Blank
  <2> QED
    BY <1>2, <1>3, <2>1 DEF StoreInv, StoreInvFinite, CellsInv
<1>5. att[p] = Len(cell[g])
  BY <1>2, <1>4 DEF Lock
<1>6. ~Finished(g)
  BY <1>3, <1>4, <1>5 DEF Finished, Lock
<1> QED
  BY <1>2, <1>3, <1>6

\* Cells that are left alone keep their proofs, and requests that are, their pages.
LEMMA Frames ==
  /\ \A g \in Gen : cell'[g] = cell[g] => ProofOfGen(g)' = ProofOfGen(g)
  /\ \A p \in Clients : pc'[p] = pc[p] /\ snap'[p] = snap[p] /\ res'[p] = res[p] => PageOf(p)' = PageOf(p)
BY DEF ProofOfGen, PageOf

-----------------------------------------------------------------------------
(* The steps the map does not see.                                         *)

\* A step of p that leaves the store alone and shows no page, before or after.
LEMMA PrivateStutters ==
  ASSUME NEW p \in Clients, UNCHANGED <<by_idx, cell>>,
         \A q \in Clients : q # p => pc'[q] = pc[q] /\ snap'[q] = snap[q] /\ res'[q] = res[q],
         ~(pc[p] \in {"work", "reply"} /\ res[p].st = "ok"),
         ~(pc'[p] \in {"work", "reply"} /\ res'[p].st = "ok")
  PROVE  UNCHANGED Map!mapVars
<1>1. PageOf(p)' = PageOf(p)
  BY DEF PageOf
<1>2. \A q \in Clients : PageOf(q)' = PageOf(q)
  BY <1>1, Frames
<1>3. \A g \in Gen : ProofOfGen(g)' = ProofOfGen(g)
  BY Frames
<1> QED
  BY <1>2, <1>3, Stutters

\* A step of p on the attempt it has claimed, that does not make it successful.
LEMMA LockStutters ==
  ASSUME StoreInv, NEW p \in Clients, pc[p] \in Attempting, Lock(p).st \in {"empty", "running"},
         NEW v \in OnceLock, v.st # "ok", SetLock(p, v), UNCHANGED by_idx,
         \A q \in Clients : q # p => pc'[q] = pc[q] /\ snap'[q] = snap[q] /\ res'[q] = res[q],
         ~(pc'[p] \in {"work", "reply"} /\ res'[p].st = "ok")
  PROVE  UNCHANGED Map!mapVars
<1>0. PICK g \in Gen : g = snap[p].gen
  BY OpenLock
<1>1. /\ att[p] \in 1..Len(cell[g]) /\ DOMAIN cell[g] = 1..Len(cell[g]) /\ ~Finished(g)
  BY <1>0, OpenLock
<1>2. /\ cell' \in [Gen -> Seq(OnceLock)]
      /\ \A h \in Gen : Len(cell'[h]) = Len(cell[h])
      /\ \A h \in Gen : h # g => cell'[h] = cell[h]
      /\ \A n \in 1..Len(cell[g]) : cell'[g][n] = IF n = att[p] THEN v ELSE cell[g][n]
      /\ \A h \in Gen : cell[h] # <<>> <=> cell'[h] # <<>>
  BY <1>0, <1>1, SetLockFacts DEF StoreInv, StoreInvFinite
<1>3. ~Finished(g)'
  <2>1. DOMAIN cell'[g] = 1..Len(cell[g])
    BY <1>1, <1>2
  <2> QED
    BY <1>1, <1>2, <2>1 DEF Finished
<1>4. ProofOfGen(g) = Nothing /\ ProofOfGen(g)' = Nothing
  BY <1>1, <1>3 DEF ProofOfGen, Finished
<1>5. \A h \in Gen : ProofOfGen(h)' = ProofOfGen(h)
  BY <1>2, <1>4, Frames
<1>6. PageOf(p)' = PageOf(p)
  BY DEF PageOf, Attempting, BuildSteps
<1>7. \A q \in Clients : PageOf(q)' = PageOf(q)
  BY <1>6, Frames
<1> QED
  BY <1>2, <1>5, <1>7, Stutters

-----------------------------------------------------------------------------
(* The steps of the map.                                                   *)

\* A cell that was not there gets its first attempt.
LEMMA NewCellMaps ==
  ASSUME StoreInv, NEW g \in Gen, cell[g] = <<>>, NEW v \in OnceLock, NewCell(g, v)
  PROVE  /\ ProofOfGen(g) = Nothing /\ ProofOfGen(g)' = (IF v.st = "ok" THEN v ELSE Nothing)
         /\ \A h \in Gen : h # g => ProofOfGen(h)' = ProofOfGen(h)
         /\ {h \in Gen : cell'[h] # <<>>} = {h \in Gen : cell[h] # <<>>} \cup {g}
<1>1. /\ cell' \in [Gen -> Seq(OnceLock)]
      /\ \A h \in Gen : h # g => cell'[h] = cell[h]
      /\ Len(cell'[g]) = 1 /\ cell'[g][1] = v /\ cell'[g] # <<>>
  BY NewCellFacts DEF StoreInv, StoreInvFinite
<1>2. DOMAIN cell[g] = {} /\ DOMAIN cell'[g] = {1}
  BY <1>1
<1>3. ProofOfGen(g) = Nothing
  BY <1>2 DEF ProofOfGen
<1>4. ProofOfGen(g)' = (IF v.st = "ok" THEN v ELSE Nothing)
  BY <1>1, <1>2 DEF ProofOfGen
<1>5. \A h \in Gen : h # g => ProofOfGen(h)' = ProofOfGen(h)
  BY <1>1, Frames
<1> QED
  BY <1>1, <1>3, <1>4, <1>5

\* A new version at a new index, with a proof or without.
LEMMA AddMaps ==
  ASSUME StoreInv, NEW g \in Gen, cell[g] = <<>>, NEW t \in Thy, NEW o \in Origin,
         Put(next_free_idx, [gen |-> g, thy |-> t, origin |-> o]),
         NEW v \in {Blank("empty")} \cup Map!ProofsFor(t), NewCell(g, v),
         \A p \in Clients : PageOf(p)' = PageOf(p)
  PROVE  Map!Add
<1> DEFINE i == next_free_idx
           e == [gen |-> g, thy |-> t, origin |-> o]
<1>1. v \in OnceLock /\ (IF v.st = "ok" THEN v ELSE Nothing) \in {Map!NoProof} \cup Map!ProofsFor(t)
  BY DEF OnceLock, Filled, Proofs, Blank, Nothing, Map!ProofsFor, Map!NoProof
<1>2. PICK r \in {Map!NoProof} \cup Map!ProofsFor(t) : r = IF v.st = "ok" THEN v ELSE Nothing
  BY <1>1
<1>3. /\ ProofOfGen(g)' = r
      /\ \A h \in Gen : h # g => ProofOfGen(h)' = ProofOfGen(h)
      /\ {h \in Gen : cell'[h] # <<>>} = {h \in Gen : cell[h] # <<>>} \cup {g}
  BY <1>1, <1>2, NewCellMaps
<1>4. [h \in Gen |-> ProofOfGen(h)]' = [[h \in Gen |-> ProofOfGen(h)] EXCEPT ![g] = r]
  BY <1>3
<1>5. /\ i \in Nat \ {0} /\ \A j \in DOMAIN by_idx : j < i
      /\ DOMAIN by_idx \subseteq Nat
  BY NextFreeIdx DEF StoreInv, StoreInvFinite, TypeOK
<1>6. /\ i \in DOMAIN by_idx' \ DOMAIN by_idx
      /\ by_idx' = [j \in DOMAIN by_idx \cup {i} |-> IF j = i THEN e ELSE by_idx[j]]
  BY <1>5 DEF Put
<1>7. [p \in Clients |-> PageOf(p)]' = [p \in Clients |-> PageOf(p)]
  OBVIOUS
<1>8. Map!Stamp(g)
  BY <1>3 DEF Map!Stamp
<1>9. \E k \in DOMAIN by_idx' \ DOMAIN by_idx :
        /\ \A j \in DOMAIN by_idx : j < k
        /\ by_idx' = [j \in DOMAIN by_idx \cup {k} |->
                        IF j = k THEN [gen |-> g, thy |-> t, origin |-> o] ELSE by_idx[j]]
  BY <1>5, <1>6
<1>10. \E q \in {Map!NoProof} \cup Map!ProofsFor(t) :
         [h \in Gen |-> ProofOfGen(h)]' = [[h \in Gen |-> ProofOfGen(h)] EXCEPT ![g] = q]
  BY <1>4
<1> QED
  BY <1>7, <1>8, <1>9, <1>10 DEF Map!Add

\* An upload adds a version without a proof.
LEMMA UploadMaps ==
  ASSUME StoreInv, Upload
  PROVE  Map!Add
<1>1. PICK g \in Gen : g = started' /\ g = started + 1 /\ g > started
  BY StoreAssumption DEF Upload, StoreInv, StoreInvFinite, TypeOK, Gen, Ops
<1>2. /\ Put(next_free_idx, [gen |-> g, thy |-> g, origin |-> Uploaded]) /\ NewCell(g, Blank("empty"))
      /\ UNCHANGED <<pc, snap, res>>
  BY <1>1 DEF Upload
<1>3. cell[g] = <<>> /\ g \in Thy /\ Uploaded \in Origin
  BY <1>1 DEF StoreInv, StoreInvFinite, CellsInv, Thy, Gen, Origin
<1>4. \A p \in Clients : PageOf(p)' = PageOf(p)
  BY <1>2, Frames
<1> QED
  BY <1>2, <1>3, <1>4, AddMaps

\* An edit adds a version with the proof it has made.
LEMMA InsertMaps ==
  ASSUME StoreInv, NEW p \in Clients, Insert(p)
  PROVE  Map!Add
<1>1. pc[p] = "work" /\ pc[p] \in Holding /\ Busy(p) /\ pc[p] # "reply"
  BY DEF Insert, Holding, Busy
<1>2. snap[p] \in Entry /\ req[p].op \in Gen /\ cell[req[p].op] = <<>> /\ req[p].op \in Ops
  BY <1>1 DEF StoreInv, StoreInvFinite, RequestInv, SnapInv, OpInv, TypeOK, Ops, Gen
<1>3. PICK t \in {snap[p].thy, req[p].op} :
        /\ Put(next_free_idx, [gen |-> req[p].op, thy |-> t, origin |-> snap[p].origin])
        /\ NewCell(req[p].op, Proof(t, req[p].op))
  BY DEF Insert
<1>4. t \in Thy /\ snap[p].origin \in Origin /\ Proof(t, req[p].op) \in Map!ProofsFor(t)
  BY <1>2 DEF Entry, Thy, Gen, Proof, Map!ProofsFor
<1>5. \A q \in Clients : PageOf(q)' = PageOf(q)
  <2>1. UNCHANGED <<snap, res>> /\ pc'[p] = "reply" /\ \A q \in Clients : q # p => pc'[q] = pc[q]
    BY DEF Insert, Goto, StoreInv, StoreInvFinite, TypeOK
  <2>2. PageOf(p)' = PageOf(p)
    BY <1>1, <2>1 DEF PageOf
  <2> QED
    BY <2>1, <2>2, Frames
<1> QED
  BY <1>2, <1>3, <1>4, <1>5, AddMaps

\* An unload drops a version.
LEMMA RemoveMaps ==
  ASSUME Remove
  PROVE  Map!Drop
<1>1. UNCHANGED <<cell, pc, snap, res>>
      /\ \E i \in DOMAIN by_idx : by_idx' = [j \in DOMAIN by_idx \ {i} |-> by_idx[j]]
  BY DEF Remove
<1>2. {g \in Gen : cell'[g] # <<>>} = {g \in Gen : cell[g] # <<>>}
  BY <1>1
<1>3. [g \in Gen |-> ProofOfGen(g)]' = [g \in Gen |-> ProofOfGen(g)]
  BY <1>1, Frames
<1>4. [p \in Clients |-> PageOf(p)]' = [p \in Clients |-> PageOf(p)]
  BY <1>1, Frames
<1> QED
  BY <1>1, <1>2, <1>3, <1>4 DEF Map!Drop

\* A reload puts a version of the same file at its index.
LEMMA ReplaceMaps ==
  ASSUME StoreInv, NEW p \in Clients, Replace(p), IsCurrent(req[p].idx, snap[p].gen)
  PROVE  Map!Renew
<1>1. pc[p] = "replace" /\ pc[p] \in Holding /\ Busy(p) /\ pc[p] # "reply"
  BY DEF Replace, Holding, Busy
<1>2. PICK g \in Gen, i \in DOMAIN by_idx :
        /\ g = req[p].op /\ i = req[p].idx /\ cell[g] = <<>> /\ g \in Thy
        /\ by_idx[i] = snap[p] /\ snap[p].origin # Uploaded
  BY <1>1 DEF IsCurrent, StoreInv, StoreInvFinite, RequestInv, SnapInv, OpInv, ResultInv, TypeOK, Ops, Gen, Thy
<1>3. /\ Put(i, [gen |-> g, thy |-> g, origin |-> by_idx[i].origin])
      /\ NewCell(g, Blank("empty")) /\ Result(p, Blank("replaced")) /\ Goto(p, "reply") /\ UNCHANGED snap
  BY <1>2 DEF Replace
<1>4. Blank("empty") \in OnceLock /\ Blank("empty").st # "ok"
  BY DEF OnceLock, Blank
<1>5. /\ ProofOfGen(g)' = ProofOfGen(g)
      /\ \A h \in Gen : h # g => ProofOfGen(h)' = ProofOfGen(h)
      /\ {h \in Gen : cell'[h] # <<>>} = {h \in Gen : cell[h] # <<>>} \cup {g}
  BY <1>2, <1>3, <1>4, NewCellMaps
<1>6. [h \in Gen |-> ProofOfGen(h)]' = [h \in Gen |-> ProofOfGen(h)]
  BY <1>5
<1>7. \A q \in Clients : PageOf(q)' = PageOf(q)
  <2>1. /\ res'[p].st # "ok"
        /\ \A q \in Clients : q # p => pc'[q] = pc[q] /\ snap'[q] = snap[q] /\ res'[q] = res[q]
    BY <1>3 DEF StoreInv, StoreInvFinite, TypeOK, Result, Goto, Blank
  <2>2. PageOf(p)' = PageOf(p)
    BY <1>1, <2>1 DEF PageOf
  <2> QED
    BY <2>1, <2>2, Frames
<1>8. [q \in Clients |-> PageOf(q)]' = [q \in Clients |-> PageOf(q)]
  BY <1>7
<1>9. Map!Stamp(g)
  BY <1>2, <1>5 DEF Map!Stamp
<1>10. by_idx' = [by_idx EXCEPT ![i] = [gen |-> g, thy |-> g, origin |-> @.origin]]
  <2>1. by_idx = [j \in DOMAIN by_idx |-> by_idx[j]]
    BY DEF StoreInv, StoreInvFinite, TypeOK
  <2>2. by_idx' = [j \in DOMAIN by_idx |->
                     IF j = i THEN [gen |-> g, thy |-> g, origin |-> by_idx[i].origin] ELSE by_idx[j]]
    BY <1>2, <1>3 DEF Put
  <2> QED
    BY <2>1, <2>2
<1> QED
  BY <1>2, <1>6, <1>8, <1>9, <1>10 DEF Map!Renew
\* The end of a build settles the proof of a generation that has none.
LEMMA PublishMaps ==
  ASSUME StoreInv, NEW p \in Clients, Publish(p)
  PROVE  Map!Prove \/ UNCHANGED Map!mapVars
<1>1. /\ pc[p] = "publish" /\ pc[p] \in Attempting /\ pc'[p] = "retire"
      /\ SetLock(p, res[p]) /\ UNCHANGED <<by_idx, snap, res>>
      /\ \A q \in Clients : q # p => pc'[q] = pc[q]
  BY DEF Publish, Attempting, BuildSteps, Goto, StoreInv, StoreInvFinite, TypeOK
<1>2. Lock(p).st = "running" /\ res[p] \in Filled /\ res[p] \in OnceLock
  BY <1>1 DEF StoreInv, StoreInvFinite, RequestInv, AttemptInv, ResultInv, BuildSteps, Blank, OnceLock
<1>3. CASE res[p].st # "ok"
  BY <1>1, <1>2, <1>3, LockStutters
<1>4. CASE res[p].st = "ok"
  <2>1. PICK g \in Gen : g = snap[p].gen
    BY <1>1, <1>2, OpenLock
  <2>2. /\ att[p] \in 1..Len(cell[g]) /\ DOMAIN cell[g] = 1..Len(cell[g]) /\ ~Finished(g)
    BY <1>1, <1>2, <2>1, OpenLock
  <2>3. /\ cell' \in [Gen -> Seq(OnceLock)]
        /\ \A h \in Gen : Len(cell'[h]) = Len(cell[h])
        /\ \A h \in Gen : h # g => cell'[h] = cell[h]
        /\ \A n \in 1..Len(cell[g]) : cell'[g][n] = IF n = att[p] THEN res[p] ELSE cell[g][n]
        /\ \A h \in Gen : cell[h] # <<>> <=> cell'[h] # <<>>
    BY <1>1, <1>2, <2>1, <2>2, SetLockFacts DEF StoreInv, StoreInvFinite
  <2>4. DOMAIN cell'[g] = 1..Len(cell[g])
    BY <2>3
  <2>5. \A n \in DOMAIN cell'[g] : cell'[g][n].st = "ok" <=> n = att[p]
    BY <1>4, <2>2, <2>3, <2>4 DEF Finished
  <2>6. ProofOfGen(g)' = res[p]
    <3> DEFINE m == CHOOSE n \in DOMAIN cell'[g] : cell'[g][n].st = "ok"
    <3>1. att[p] \in DOMAIN cell'[g] /\ cell'[g][att[p]].st = "ok"
      BY <2>2, <2>4, <2>5
    <3>2. m = att[p]
      BY <2>5, <3>1
    <3>3. ProofOfGen(g)' = cell'[g][m]
      BY <3>1 DEF ProofOfGen
    <3> QED
      BY <2>2, <2>3, <3>2, <3>3
  <2>7. \A h \in Gen : h # g => ProofOfGen(h)' = ProofOfGen(h)
    BY <2>3, Frames
  <2>8. [h \in Gen |-> ProofOfGen(h)]' = [[h \in Gen |-> ProofOfGen(h)] EXCEPT ![g] = res[p]]
    BY <2>6, <2>7
  <2>9. {h \in Gen : cell'[h] # <<>>} = {h \in Gen : cell[h] # <<>>}
    BY <2>3
  <2>10. PageOf(p)' = PageOf(p)
    BY <1>1 DEF PageOf
  <2>11. [q \in Clients |-> PageOf(q)]' = [q \in Clients |-> PageOf(q)]
    BY <1>1, <2>10, Frames
  <2>12. ProofOfGen(g) = Map!NoProof
    BY <2>2, ProofOfOpen DEF Nothing, Blank, Map!NoProof
  <2>13. res[p].thy \in Thy /\ res[p] \in Map!ProofsFor(res[p].thy)
    BY <1>2, <1>4 DEF Filled, Failures, Proofs, Blank, Map!ProofsFor
  <2>14. cell[g] # <<>>
    BY <2>2
  <2> QED
    BY <1>1, <2>8, <2>9, <2>11, <2>12, <2>13, <2>14 DEF Map!Prove
<1> QED
  BY <1>3, <1>4

\* A request leaves a successful attempt with the page of its version, and a
\* failed one with none.
LEMMA RetireMaps ==
  ASSUME StoreInv, NEW p \in Clients, Retire(p)
  PROVE  Map!Show \/ UNCHANGED Map!mapVars
<1>1. /\ pc[p] = "retire" /\ pc[p] \in Attempting /\ pc[p] \in Holding
      /\ UNCHANGED <<by_idx, snap, res>>
      /\ \A q \in Clients : q # p => pc'[q] = pc[q]
  BY DEF Retire, Attempting, Holding, Goto, StoreInv, StoreInvFinite, TypeOK
<1>2. PICK g \in Gen : g = snap[p].gen
  BY <1>1 DEF StoreInv, StoreInvFinite, RequestInv, SnapInv, Entry
<1>3. /\ res[p] \in Filled /\ cell[g][att[p]] = res[p] /\ att[p] \in 1..Len(cell[g]) /\ cell[g] # <<>>
      /\ res[p].st = "ok" => res[p].thy = snap[p].thy
      /\ snap[p].thy \in Thy
  BY <1>1, <1>2 DEF StoreInv, StoreInvFinite, RequestInv, SnapInv, AttemptInv, ResultInv, Lock, Entry
<1>4. cell[g] \in Seq(OnceLock) /\ Len(cell[g]) \in Nat /\ DOMAIN cell[g] = 1..Len(cell[g])
  BY DEF StoreInv, StoreInvFinite, TypeOK
<1>5. CASE res[p].st = "ok"
  <2>1. res[p] \notin Failures
    BY <1>5 DEF Failures, Blank
  <2>2. UNCHANGED cell /\ pc'[p] \in {"work", "reply"}
    BY <1>5, <2>1 DEF Retire, Goto, StoreInv, StoreInvFinite, TypeOK
  <2>3. ProofOfGen(g) = res[p]
    BY <1>3, <1>4, <1>5, ProofOfFinished
  <2>4. res[p] \in Map!ProofsFor(snap[p].thy)
    BY <1>3, <1>5, <2>1 DEF Filled, Proofs, Map!ProofsFor
  <2>5. PageOf(p) = Map!NoPage /\ PageOf(p)' = [gen |-> g, thy |-> snap[p].thy, proof |-> ProofOfGen(g)]
    BY <1>1, <1>2, <1>5, <2>2, <2>3 DEF PageOf, Map!NoPage, Map!NoProof, Nothing, Blank
  <2>6. \A q \in Clients : q # p => PageOf(q)' = PageOf(q)
    BY <1>1, Frames
  <2>7. [q \in Clients |-> PageOf(q)]' =
          [[q \in Clients |-> PageOf(q)] EXCEPT ![p] =
             [gen |-> g, thy |-> snap[p].thy, proof |-> ProofOfGen(g)]]
    BY <2>5, <2>6
  <2>8. /\ {h \in Gen : cell'[h] # <<>>} = {h \in Gen : cell[h] # <<>>}
        /\ [h \in Gen |-> ProofOfGen(h)]' = [h \in Gen |-> ProofOfGen(h)]
    BY <2>2, Frames
  <2>9. g \in {h \in Gen : cell[h] # <<>>} /\ snap[p].thy \in Thy
    BY <1>3
  <2>10. [q \in Clients |-> PageOf(q)][p] = Map!NoPage
    BY <2>5
  <2>11. [h \in Gen |-> ProofOfGen(h)][g] = ProofOfGen(g)
    OBVIOUS
  <2>12. \E q \in Clients, h \in {h \in Gen : cell[h] # <<>>}, t \in Thy :
           /\ [r \in Clients |-> PageOf(r)][q] = Map!NoPage
           /\ [x \in Gen |-> ProofOfGen(x)][h] \in Map!ProofsFor(t)
           /\ [r \in Clients |-> PageOf(r)]' =
                [[r \in Clients |-> PageOf(r)] EXCEPT ![q] =
                   [gen |-> h, thy |-> t, proof |-> [x \in Gen |-> ProofOfGen(x)][h]]]
    BY <2>3, <2>4, <2>7, <2>9, <2>10, <2>11
  <2> QED
    BY <1>1, <2>8, <2>12 DEF Map!Show
<1>6. CASE res[p].st # "ok"
  <2>1. res[p] \in Failures
    BY <1>3, <1>6 DEF Filled, Proofs
  <2>2. ~(pc'[p] \in {"work", "reply"} /\ res'[p].st = "ok") /\ ~(pc[p] \in {"work", "reply"} /\ res[p].st = "ok")
    BY <1>1, <1>6
  <2>3. CASE ~IsCurrentAttempt(p)
    <3>1. UNCHANGED cell
      BY <2>3 DEF Retire
    <3> QED
      BY <1>1, <2>2, <3>1, PrivateStutters
  <2>4. CASE IsCurrentAttempt(p)
    <3>1. cell' = [cell EXCEPT ![g] = Append(@, Blank("empty"))]
      BY <1>2, <2>1, <2>4 DEF Retire
    <3>2. /\ cell' \in [Gen -> Seq(OnceLock)]
          /\ \A h \in Gen : h # g => cell'[h] = cell[h]
          /\ Len(cell'[g]) = Len(cell[g]) + 1 /\ cell'[g] # <<>>
          /\ \A n \in 1..Len(cell[g]) : cell'[g][n] = cell[g][n]
          /\ cell'[g][Len(cell[g]) + 1] = Blank("empty")
      BY <3>1, AppendFacts DEF StoreInv, StoreInvFinite
    <3>3. \A n \in 1..Len(cell[g]) : cell[g][n] \in Failures
      BY <1>2, <1>3, <1>4, <2>1, <2>4 DEF IsCurrentAttempt, StoreInv, StoreInvFinite, CellsInv
    <3>4. \A n \in 1..Len(cell[g]) : cell[g][n].st # "ok"
      BY <3>3 DEF Failures, Blank
    <3>5. ~Finished(g)
      BY <1>4, <3>4 DEF Finished
    <3>6. ~Finished(g)'
      <4>1. DOMAIN cell'[g] = 1..Len(cell[g]) + 1
        BY <3>2
      <4>2. \A n \in 1..Len(cell[g]) + 1 : n \in 1..Len(cell[g]) \/ n = Len(cell[g]) + 1
        BY <1>4
      <4> QED
        BY <3>2, <3>4, <4>1, <4>2 DEF Finished, Blank
    <3>7. ProofOfGen(g)' = ProofOfGen(g)
      BY <3>5, <3>6 DEF ProofOfGen, Finished
    <3>8. \A h \in Gen : ProofOfGen(h)' = ProofOfGen(h)
      BY <3>2, <3>7, Frames
    <3>9. PageOf(p)' = PageOf(p)
      BY <2>2 DEF PageOf
    <3>10. \A q \in Clients : PageOf(q)' = PageOf(q)
      BY <1>1, <3>9, Frames
    <3>11. \A h \in Gen : cell'[h] # <<>> <=> cell[h] # <<>>
      BY <1>3, <3>2
    <3> QED
      BY <1>1, <3>8, <3>10, <3>11, Stutters
  <2> QED
    BY <2>3, <2>4
<1> QED
  BY <1>5, <1>6

\* An edit that is given up and a response that is sent close the page.
LEMMA CloseMaps ==
  ASSUME StoreInv, NEW p \in Clients, Abandon(p) \/ Reply(p)
  PROVE  Map!Close
<1>1. /\ UNCHANGED <<by_idx, cell>> /\ res'[p].st # "ok"
      /\ \A q \in Clients : q # p => pc'[q] = pc[q] /\ snap'[q] = snap[q] /\ res'[q] = res[q]
  BY DEF Abandon, Reply, Goto, Result, StoreInv, StoreInvFinite, TypeOK, Blank, Nothing
<1>2. PageOf(p)' = Map!NoPage
  BY <1>1 DEF PageOf, Map!NoPage, Map!NoProof, Nothing, Blank
<1>3. [q \in Clients |-> PageOf(q)]' = [[q \in Clients |-> PageOf(q)] EXCEPT ![p] = Map!NoPage]
  BY <1>1, <1>2, Frames
<1>4. /\ {g \in Gen : cell'[g] # <<>>} = {g \in Gen : cell[g] # <<>>}
      /\ [g \in Gen |-> ProofOfGen(g)]' = [g \in Gen |-> ProofOfGen(g)]
  BY <1>1, Frames
<1> QED
  BY <1>1, <1>3, <1>4 DEF Map!Close

\* The other steps of a request are its own, or about an attempt.
LEMMA OthersStutter ==
  ASSUME StoreInv, NEW p \in Clients,
         \/ Begin(p) \/ Snapshot(p) \/ Attempt(p) \/ Enter(p) \/ Validate(p) \/ Build(p)
         \/ Panic(p) \/ Check(p) \/ Load(p)
         \/ Replace(p) /\ ~IsCurrent(req[p].idx, snap[p].gen)
  PROVE  UNCHANGED Map!mapVars
<1> USE DEF StoreInv, StoreInvFinite, TypeOK, Goto, Result, Blank, Nothing
<1>1. CASE Begin(p)
  BY <1>1, PrivateStutters DEF Begin
<1>2. CASE Snapshot(p)
  <2>1. /\ UNCHANGED <<by_idx, cell>>
        /\ \A q \in Clients : q # p => pc'[q] = pc[q] /\ snap'[q] = snap[q] /\ res'[q] = res[q]
    BY <1>2 DEF Snapshot
  <2>2. ~(pc'[p] \in {"work", "reply"} /\ res'[p].st = "ok")
    BY <1>2 DEF Snapshot
  <2>3. ~(pc[p] \in {"work", "reply"} /\ res[p].st = "ok")
    BY <1>2 DEF Snapshot
  <2> QED
    BY <2>1, <2>2, <2>3, PrivateStutters
<1>3. CASE Attempt(p)
  BY <1>3, PrivateStutters DEF Attempt
<1>4. CASE Validate(p) \/ Build(p) \/ Check(p)
  BY <1>4, PrivateStutters DEF Validate, Build, Check
<1>5. CASE Load(p) \/ (Replace(p) /\ ~IsCurrent(req[p].idx, snap[p].gen))
  <2>1. /\ UNCHANGED <<by_idx, cell>>
        /\ \A q \in Clients : q # p => pc'[q] = pc[q] /\ snap'[q] = snap[q] /\ res'[q] = res[q]
    BY <1>5 DEF Load, Replace
  <2>2. ~(pc'[p] \in {"work", "reply"} /\ res'[p].st = "ok")
    BY <1>5 DEF Load, Replace
  <2>3. ~(pc[p] \in {"work", "reply"} /\ res[p].st = "ok")
    BY <1>5 DEF Load, Replace
  <2> QED
    BY <2>1, <2>2, <2>3, PrivateStutters
<1>6. CASE Panic(p)
  <2>1. pc[p] \in Attempting /\ Lock(p).st = "running"
    BY <1>6 DEF Panic, Attempting, BuildSteps, RequestInv, AttemptInv
  <2>2. Blank("empty") \in OnceLock
    BY DEF OnceLock
  <2> QED
    BY <1>6, <2>1, <2>2, LockStutters DEF Panic
<1>7. CASE Enter(p)
  <2>1. CASE Lock(p).st = "empty" /\ SetLock(p, Blank("running")) /\ Goto(p, "validate") /\ UNCHANGED res
    <3>1. pc[p] \in Attempting /\ Blank("running") \in OnceLock
      BY <1>7 DEF Enter, Attempting, OnceLock
    <3> QED
      BY <1>7, <2>1, <3>1, LockStutters DEF Enter
  <2>2. CASE Lock(p) \in Filled /\ Result(p, Lock(p)) /\ Goto(p, "retire") /\ UNCHANGED cell
    BY <1>7, <2>2, PrivateStutters DEF Enter
  <2> QED
    BY <1>7, <2>1, <2>2 DEF Enter
<1> QED
  BY <1>1, <1>2, <1>3, <1>4, <1>5, <1>6, <1>7

-----------------------------------------------------------------------------
(* The theorem.                                                            *)

\* The versions loaded at start have no proof and nobody looks at them yet.
LEMMA InitMaps == Init => Map!MapInit
<1> SUFFICES ASSUME Init PROVE Map!MapInit
  OBVIOUS
<1> DEFINE first == [i \in 1..Len(Startup) |-> [gen |-> i, thy |-> i, origin |-> Startup[i]]]
<1>1. Len(Startup) \in Nat /\ MaxOps \in Nat /\ Len(Startup) <= MaxOps
  BY StoreAssumption
<1>2. \A g \in Gen : cell[g] # <<>> <=> g <= Len(Startup)
  BY <1>1 DEF Init, Gen, Ops
<1>3. {g \in Gen : cell[g] # <<>>} = {first[i].gen : i \in DOMAIN first}
  BY <1>1, <1>2 DEF Gen, Ops
<1>4. \A g \in Gen : ProofOfGen(g) = Map!NoProof
  <2> SUFFICES ASSUME NEW g \in Gen PROVE ~Finished(g)
    BY ProofOfOpen DEF Nothing, Blank, Map!NoProof
  <2>1. cell[g] = <<Blank("empty")>> \/ cell[g] = <<>>
    BY DEF Init
  <2>2. CASE cell[g] = <<>>
    BY <2>2 DEF Finished
  <2>3. CASE cell[g] = <<Blank("empty")>>
    <3>1. DOMAIN cell[g] = {1} /\ cell[g][1].st = "empty"
      BY <2>3 DEF Blank
    <3> QED
      BY <3>1 DEF Finished
  <2> QED
    BY <2>1, <2>2, <2>3
<1>5. \A p \in Clients : PageOf(p) = Map!NoPage
  BY DEF Init, PageOf, Map!NoPage, Map!NoProof, Nothing, Blank
<1>6. by_idx = first
  BY DEF Init
<1> QED
  BY <1>3, <1>4, <1>5, <1>6 DEF Map!MapInit

\* Every step of the store is one of the map, or changes nothing of it.
LEMMA StepMaps == StoreInv /\ [Next]_vars => [Map!MapNext]_(Map!mapVars)
<1> SUFFICES ASSUME StoreInv, [Next]_vars PROVE Map!MapNext \/ UNCHANGED Map!mapVars
  OBVIOUS
<1>1. CASE UNCHANGED vars
  BY <1>1, Frames, Stutters DEF vars
<1>2. CASE Upload
  BY <1>2, UploadMaps DEF Map!MapNext
<1>3. CASE Remove
  BY <1>3, RemoveMaps DEF Map!MapNext
<1>4. ASSUME NEW p \in Clients, Begin(p) \/ Run(p) PROVE Map!MapNext \/ UNCHANGED Map!mapVars
  <2>1. CASE \/ Begin(p) \/ Snapshot(p) \/ Attempt(p) \/ Enter(p) \/ Validate(p) \/ Build(p)
             \/ Panic(p) \/ Check(p) \/ Load(p)
             \/ Replace(p) /\ ~IsCurrent(req[p].idx, snap[p].gen)
    BY <2>1, OthersStutter
  <2>2. CASE Publish(p)
    BY <2>2, PublishMaps DEF Map!MapNext
  <2>3. CASE Retire(p)
    BY <2>3, RetireMaps DEF Map!MapNext
  <2>4. CASE Insert(p)
    BY <2>4, InsertMaps DEF Map!MapNext
  <2>5. CASE Abandon(p) \/ Reply(p)
    BY <2>5, CloseMaps DEF Map!MapNext
  <2>6. CASE Replace(p) /\ IsCurrent(req[p].idx, snap[p].gen)
    BY <2>6, ReplaceMaps DEF Map!MapNext
  <2> QED
    BY <1>4, <2>1, <2>2, <2>3, <2>4, <2>5, <2>6 DEF Run
<1> QED
  BY <1>1, <1>2, <1>3, <1>4 DEF Next, Quiet

\* The store with its cells, attempts and retries (state.rs) keeps what a plain
\* versioned map promises, however the requests interleave.
THEOREM ImplementsMapHolds == Spec => ImplementsMap
<1>1. Init => Map!MapInit
  BY InitMaps
<1>2. StoreInv /\ [Next]_vars => [Map!MapNext]_(Map!mapVars)
  BY StepMaps
<1> QED
  BY <1>1, <1>2, StoreInvariant, PTL DEF Spec, ImplementsMap, Map!MapSpec
=============================================================================
