-------------------------- MODULE Navigation_proofs --------------------------
(***************************************************************************)
(* Proofs about Navigation, for every theory and every proof.              *)
(*                                                                         *)
(* A page of the tour has coordinates: its chapter (a fixed page, or a     *)
(* lemma) and, in a lemma's chapter, a step of the proof.  Before is the   *)
(* order of the coordinates, because the steps of a proof are listed in    *)
(* the order of paths, which is one; and the arrows count the coordinates  *)
(* up and down.                                                            *)
(***************************************************************************)
EXTENDS Navigation, SequenceTheorems, WellFoundedInduction, TLAPS

-----------------------------------------------------------------------------
(* The first and the last of a set of numbers.                             *)

\* A set of numbers that is not empty has a least element.
LEMMA LeastNat ==
  ASSUME NEW S, S \subseteq Nat, S # {}
  PROVE  \E m \in S : \A k \in S : m <= k
<1>1. IsWellFoundedOn(OpToRel(<, Nat), Nat)
  BY NatLessThanWellFounded
<1>2. PICK m \in S : \A k \in S : ~(<<k, m>> \in OpToRel(<, Nat))
  BY <1>1, WFMin
<1>3. ASSUME NEW k \in S PROVE m <= k
  <2>1. <<k, m>> \in Nat \X Nat /\ ~(<<k, m>> \in OpToRel(<, Nat))
    BY <1>2
  <2>2. ~(k < m)
    BY <2>1 DEF OpToRel
  <2> QED
    BY <2>2
<1> QED
  BY <1>3

\* What CHOOSE finds as the first, or 0.
LEMMA FirstIs ==
  ASSUME NEW N \in Nat, NEW I, I \subseteq 1..N,
         NEW i, i = CHOOSE k \in 0..N : IsFirst(k, I)
  PROVE  i \in 0..N /\ IsFirst(i, I)
<1>1. \E k \in 0..N : IsFirst(k, I)
  <2>1. CASE I = {}
    BY <2>1 DEF IsFirst
  <2>2. CASE I # {}
    <3>1. PICK k \in I : \A j \in I : k <= j
      <4>1. I \subseteq Nat
        OBVIOUS
      <4> QED
        BY <2>2, <4>1, LeastNat
    <3> QED
      BY <2>2, <3>1 DEF IsFirst
  <2> QED
    BY <2>1, <2>2
<1> QED
  BY <1>1

\* What CHOOSE finds as the last, or 0.
LEMMA LastIs ==
  ASSUME NEW N \in Nat, NEW I, I \subseteq 1..N,
         NEW i, i = CHOOSE k \in 0..N : IsLast(k, I)
  PROVE  i \in 0..N /\ IsLast(i, I)
<1>1. \E k \in 0..N : IsLast(k, I)
  <2>1. CASE I = {}
    BY <2>1 DEF IsLast
  <2>2. CASE I # {}
    <3>1. PICK S : S = {N - j : j \in I}
      OBVIOUS
    <3>2. S \subseteq Nat /\ S # {}
      <4>1. \A j \in I : j \in 1..N /\ N - j \in Nat
        OBVIOUS
      <4> QED
        BY <2>2, <3>1, <4>1
    <3>3. PICK m \in S : \A k \in S : m <= k
      BY <3>2, LeastNat
    <3>4. PICK k \in I : m = N - k
      BY <3>1, <3>3
    <3>5. ASSUME NEW j \in I PROVE j <= k
      <4>1. m <= N - j
        BY <3>1, <3>3, <3>5
      <4> QED
        BY <3>4, <4>1
    <3> QED
      BY <2>2, <3>5 DEF IsLast
  <2> QED
    BY <2>1, <2>2
<1>2. \E k \in 0..N : i = k /\ IsLast(k, I)
  BY <1>1
<1> QED
  BY <1>2

-----------------------------------------------------------------------------
(* The order of the steps.                                                 *)

\* Of two paths at most one is before the other.
LEMMA PathOrder ==
  ASSUME NEW p \in Seq(CaseNames), NEW q \in Seq(CaseNames), PathBefore(p, q)
  PROVE  ~PathBefore(q, p)
<1>1. \A k \in CaseNames : Rank(k) \in Nat
  <2>1. ASSUME NEW k \in CaseNames PROVE Rank(k) \in DOMAIN Names
    <3>1. \E i \in DOMAIN Names : Names[i] = k
      BY DEF CaseNames
    <3> QED
      BY <3>1 DEF Rank
  <2>2. DOMAIN Names \subseteq Nat
    BY NavigationAssumption, LenProperties
  <2> QED
    BY <2>1, <2>2
<1>2. Len(p) \in Nat /\ Len(q) \in Nat /\ (\A i \in 1..Len(p) : p[i] \in CaseNames)
      /\ (\A i \in 1..Len(q) : q[i] \in CaseNames)
  BY ElementOfSeq, LenProperties
<1>3. SUFFICES ASSUME PathBefore(q, p) PROVE FALSE
  OBVIOUS
<1>4. PICK i \in 1..Len(q) : /\ i <= Len(p) + 1
                             /\ \A k \in 1..(i - 1) : p[k] = q[k]
                             /\ i <= Len(p) => Rank(p[i]) < Rank(q[i])
  BY DEF PathBefore
<1>5. PICK j \in 1..Len(p) : /\ j <= Len(q) + 1
                             /\ \A k \in 1..(j - 1) : q[k] = p[k]
                             /\ j <= Len(q) => Rank(q[j]) < Rank(p[j])
  BY <1>3 DEF PathBefore
<1>6. CASE i < j
  <2>1. i \in 1..(j - 1) /\ i \in 1..Len(p)
    BY <1>2, <1>4, <1>5, <1>6
  <2>2. q[i] = p[i] /\ Rank(p[i]) < Rank(q[i]) /\ Rank(p[i]) \in Nat
    BY <1>1, <1>2, <1>4, <1>5, <2>1
  <2> QED
    BY <2>2
<1>7. CASE j < i
  <2>1. j \in 1..(i - 1) /\ j \in 1..Len(q)
    BY <1>2, <1>4, <1>5, <1>7
  <2>2. q[j] = p[j] /\ Rank(q[j]) < Rank(p[j]) /\ Rank(p[j]) \in Nat
    BY <1>1, <1>2, <1>4, <1>5, <2>1
  <2> QED
    BY <2>2
<1>8. CASE i = j
  <2>1. i \in 1..Len(p) /\ i \in 1..Len(q)
    BY <1>5, <1>8
  <2>2. Rank(p[i]) < Rank(q[i]) /\ Rank(q[i]) < Rank(p[i]) /\ Rank(p[i]) \in Nat /\ Rank(q[i]) \in Nat
    BY <1>1, <1>2, <1>4, <1>5, <1>8, <2>1
  <2> QED
    BY <2>2
<1> QED
  BY <1>2, <1>6, <1>7, <1>8

\* A list of steps in order, and the theory's lemmas.
LEMMA ListIs ==
  ASSUME thy \in Theories, NEW l \in LemmaNames, NEW paths, paths = lemma_proof_paths(l)
  PROVE  /\ Len(paths) \in Nat \ {0} /\ paths[1].path = <<>>
         /\ \A i \in 1..Len(paths) : paths[i].path \in Seq(CaseNames)
         /\ \A i, j \in 1..Len(paths) : /\ PathBefore(paths[i].path, paths[j].path) <=> i < j
                                        /\ paths[i].path = paths[j].path => i = j
<1>1. paths \in Seq([path : Seq(CaseNames), method : Methods]) /\ InOrder(paths)
  BY NavigationAssumption DEF IsTheory, lemma_proof_paths
<1>2. Len(paths) \in Nat \ {0} /\ paths[1].path = <<>>
  BY <1>1, EmptySeq, LenProperties DEF InOrder
<1>3. \A i \in 1..Len(paths) : paths[i].path \in Seq(CaseNames)
  <2>1. \A i \in 1..Len(paths) : paths[i] \in [path : Seq(CaseNames), method : Methods]
    BY <1>1, ElementOfSeq
  <2> QED
    BY <2>1
<1>4. ASSUME NEW i \in 1..Len(paths), NEW j \in 1..Len(paths)
      PROVE  PathBefore(paths[i].path, paths[j].path) <=> i < j
  <2>1. i < j => PathBefore(paths[i].path, paths[j].path)
    BY <1>1, <1>4 DEF InOrder
  <2>2. j < i => PathBefore(paths[j].path, paths[i].path)
    BY <1>1, <1>4 DEF InOrder
  <2>3. PathBefore(paths[i].path, paths[j].path) => ~PathBefore(paths[j].path, paths[i].path)
    BY <1>3, <1>4, PathOrder
  <2>4. CASE i = j
    BY <1>2, <1>4, <2>3, <2>4
  <2>5. CASE i # j
    BY <1>2, <1>4, <2>1, <2>2, <2>3, <2>5
  <2> QED
    BY <2>4, <2>5
<1>5. ASSUME NEW i \in 1..Len(paths), NEW j \in 1..Len(paths), paths[i].path = paths[j].path
      PROVE  i = j
  <2>1. /\ PathBefore(paths[i].path, paths[j].path) <=> i < j
        /\ PathBefore(paths[j].path, paths[i].path) <=> j < i
    BY <1>4
  <2>2. (PathBefore(paths[i].path, paths[i].path) <=> i < i)
    BY <1>4
  <2> QED
    BY <1>2, <1>5, <2>1, <2>2
<1> QED
  BY <1>2, <1>3, <1>4, <1>5

-----------------------------------------------------------------------------
(* Along the steps of a proof.                                             *)

\* The first step from which a set begins is found where it is.
LEMMA PositionIs ==
  ASSUME thy \in Theories, NEW l \in LemmaNames, NEW paths, paths = lemma_proof_paths(l),
         NEW k \in 1..Len(paths)
  PROVE  position(paths, paths[k].path) = k
<1>1. PICK I : I = {j \in 1..Len(paths) : paths[j].path = paths[k].path}
  OBVIOUS
<1>2. I = {k}
  BY <1>1, ListIs
<1>3. PICK N : N = Len(paths)
  OBVIOUS
<1>4. PICK i : i = CHOOSE m \in 0..N : IsFirst(m, I)
  OBVIOUS
<1>5. position(paths, paths[k].path) = i
  BY <1>1, <1>3, <1>4 DEF position
<1>6. N \in Nat /\ I \subseteq 1..N
  BY <1>1, <1>3, ListIs
<1>7. IsFirst(i, I)
  BY <1>4, <1>6, FirstIs
<1> QED
  BY <1>2, <1>5, <1>7 DEF IsFirst

\* A step that is not there has no place.
LEMMA PositionOfNone ==
  ASSUME thy \in Theories, NEW l \in LemmaNames, NEW paths, paths = lemma_proof_paths(l),
         NEW sub, position(paths, sub) # 0
  PROVE  \E k \in 1..Len(paths) : paths[k].path = sub
<1>1. PICK I : I = {j \in 1..Len(paths) : paths[j].path = sub}
  OBVIOUS
<1>2. PICK N : N = Len(paths)
  OBVIOUS
<1>3. PICK i : i = CHOOSE m \in 0..N : IsFirst(m, I)
  OBVIOUS
<1>4. position(paths, sub) = i
  BY <1>1, <1>2, <1>3 DEF position
<1>5. N \in Nat /\ I \subseteq 1..N
  BY <1>1, <1>2, ListIs
<1>6. IsFirst(i, I)
  BY <1>3, <1>5, FirstIs
<1>7. I # {}
  BY <1>4, <1>6 DEF IsFirst
<1> QED
  BY <1>1, <1>7

\* The step after another is the first stop behind it.
LEMMA NextStep ==
  ASSUME thy \in Theories, NEW l \in LemmaNames, NEW paths, paths = lemma_proof_paths(l),
         NEW k \in 1..Len(paths), NEW smart \in BOOLEAN, NEW i,
         i = next_element(paths, paths[k].path, smart)
  PROVE  i \in 0..Len(paths) /\ IsFirst(i, {j \in Stops(paths, smart) : j > k})
<1>1. PICK I : I = {j \in Stops(paths, smart) : j > k}
  OBVIOUS
<1>2. PICK N : N = Len(paths)
  OBVIOUS
<1>3. N \in Nat /\ I \subseteq 1..N
  BY <1>1, <1>2, ListIs DEF Stops
<1>4. position(paths, paths[k].path) = k /\ k # 0
  BY PositionIs, ListIs
<1>5. i = CHOOSE m \in 0..N : IsFirst(m, I)
  BY <1>1, <1>2, <1>4 DEF next_element
<1>6. i \in 0..N /\ IsFirst(i, I)
  BY <1>3, <1>5, FirstIs
<1> QED
  BY <1>1, <1>2, <1>6

\* The step before another is the last stop ahead of it.
LEMMA PrevStep ==
  ASSUME thy \in Theories, NEW l \in LemmaNames, NEW paths, paths = lemma_proof_paths(l),
         NEW k \in 1..Len(paths), NEW smart \in BOOLEAN, NEW i,
         i = prev_element(paths, paths[k].path, smart)
  PROVE  i \in 0..Len(paths) /\ IsLast(i, {j \in Stops(paths, smart) : j < k})
<1>1. PICK I : I = {j \in Stops(paths, smart) : j < k}
  OBVIOUS
<1>2. PICK N : N = Len(paths)
  OBVIOUS
<1>3. N \in Nat /\ I \subseteq 1..N
  BY <1>1, <1>2, ListIs DEF Stops
<1>4. position(paths, paths[k].path) = k /\ k # 0
  BY PositionIs, ListIs
<1>5. i = CHOOSE m \in 0..N : IsLast(m, I)
  BY <1>1, <1>2, <1>4 DEF prev_element
<1>6. i \in 0..N /\ IsLast(i, I)
  BY <1>3, <1>5, LastIs
<1> QED
  BY <1>1, <1>2, <1>6

\* Without skipping it is the next.
LEMMA NextStepIs ==
  ASSUME thy \in Theories, NEW l \in LemmaNames, NEW paths, paths = lemma_proof_paths(l),
         NEW k \in 1..Len(paths)
  PROVE  next_element(paths, paths[k].path, FALSE) = IF k < Len(paths) THEN k + 1 ELSE 0
<1>1. PICK i : i = next_element(paths, paths[k].path, FALSE)
  OBVIOUS
<1>2. i \in 0..Len(paths) /\ IsFirst(i, {j \in Stops(paths, FALSE) : j > k})
  BY <1>1, NextStep
<1>3. Len(paths) \in Nat
  BY ListIs
<1>4. \A j \in 1..Len(paths) : j > k <=> j \in {m \in Stops(paths, FALSE) : m > k}
  BY DEF Stops
<1>5. CASE k < Len(paths)
  <2>1. k + 1 \in 1..Len(paths) /\ k + 1 > k
    BY <1>3, <1>5
  <2>2. k + 1 \in {m \in Stops(paths, FALSE) : m > k}
    BY <1>4, <2>1
  <2>3. i \in Stops(paths, FALSE) /\ i > k /\ i <= k + 1
    BY <1>2, <2>2 DEF IsFirst
  <2>4. i = k + 1
    BY <1>2, <1>3, <2>3
  <2> QED
    BY <1>1, <1>5, <2>4
<1>6. CASE ~(k < Len(paths))
  <2>1. {m \in Stops(paths, FALSE) : m > k} = {}
    BY <1>3, <1>6 DEF Stops
  <2> QED
    BY <1>1, <1>2, <1>6, <2>1 DEF IsFirst
<1> QED
  BY <1>5, <1>6

\* Without skipping it is the one before.
LEMMA PrevStepIs ==
  ASSUME thy \in Theories, NEW l \in LemmaNames, NEW paths, paths = lemma_proof_paths(l),
         NEW k \in 1..Len(paths)
  PROVE  prev_element(paths, paths[k].path, FALSE) = k - 1
<1>1. PICK i : i = prev_element(paths, paths[k].path, FALSE)
  OBVIOUS
<1>2. i \in 0..Len(paths) /\ IsLast(i, {j \in Stops(paths, FALSE) : j < k})
  BY <1>1, PrevStep
<1>3. Len(paths) \in Nat
  BY ListIs
<1>4. \A j \in 1..Len(paths) : j < k <=> j \in {m \in Stops(paths, FALSE) : m < k}
  BY DEF Stops
<1>5. CASE k > 1
  <2>1. k - 1 \in 1..Len(paths) /\ k - 1 < k
    BY <1>3, <1>5
  <2>2. k - 1 \in {m \in Stops(paths, FALSE) : m < k}
    BY <1>4, <2>1
  <2>3. i \in Stops(paths, FALSE) /\ i < k /\ k - 1 <= i
    BY <1>2, <2>2 DEF IsLast
  <2>4. i = k - 1
    BY <1>2, <1>3, <2>3
  <2> QED
    BY <1>1, <2>4
<1>6. CASE k = 1
  <2>1. {m \in Stops(paths, FALSE) : m < k} = {}
    BY <1>3, <1>6 DEF Stops
  <2>2. i = 0
    BY <1>2, <2>1 DEF IsLast
  <2>3. i = k - 1
    BY <1>6, <2>2
  <2> QED
    BY <1>1, <2>3
<1>7. k \in Nat /\ (k > 1 \/ k = 1)
  BY <1>3
<1> QED
  BY <1>5, <1>6, <1>7

-----------------------------------------------------------------------------
(* Along the lemmas.                                                       *)

\* The theory's lemmas are listed once each.
LEMMA LemmasAre ==
  ASSUME thy \in Theories
  PROVE  /\ Len(thy.lemmas) \in Nat /\ DOMAIN thy.lemmas = 1..Len(thy.lemmas)
         /\ \A k \in 1..Len(thy.lemmas) : thy.lemmas[k] \in LemmaNames /\ thy.lemmas[k] # None
         /\ \A j, k \in 1..Len(thy.lemmas) : thy.lemmas[j] = thy.lemmas[k] => j = k
         /\ thy.lemmas = <<>> <=> Len(thy.lemmas) = 0
<1>1. thy.lemmas \in Seq(LemmaNames)
  BY NavigationAssumption DEF IsTheory
<1>2. Len(thy.lemmas) \in Nat /\ DOMAIN thy.lemmas = 1..Len(thy.lemmas)
  BY <1>1, LenProperties
<1>3. \A k \in 1..Len(thy.lemmas) : thy.lemmas[k] \in LemmaNames
  BY <1>1, ElementOfSeq
<1>4. \A j, k \in DOMAIN thy.lemmas : thy.lemmas[j] = thy.lemmas[k] => j = k
  BY NavigationAssumption DEF IsTheory
<1>5. thy.lemmas = <<>> <=> Len(thy.lemmas) = 0
  BY <1>1, EmptySeq
<1> QED
  BY <1>2, <1>3, <1>4, <1>5, NavigationAssumption

\* The place of a lemma is where it is, or 0.
LEMMA PlaceIs ==
  ASSUME thy \in Theories, NEW l
  PROVE  /\ IndexOf(l) \in 0..Len(thy.lemmas)
         /\ IndexOf(l) # 0 => thy.lemmas[IndexOf(l)] = l
         /\ \A k \in 1..Len(thy.lemmas) : thy.lemmas[k] = l => IndexOf(l) = k
<1>1. PICK I : I = {j \in 1..Len(thy.lemmas) : thy.lemmas[j] = l}
  OBVIOUS
<1>2. PICK N : N = Len(thy.lemmas)
  OBVIOUS
<1>3. PICK i : i = IndexOf(l)
  OBVIOUS
<1>4. i = CHOOSE m \in 0..N : IsFirst(m, I)
  BY <1>1, <1>2, <1>3 DEF IndexOf
<1>5. N \in Nat /\ I \subseteq 1..N
  BY <1>1, <1>2, LemmasAre
<1>6. i \in 0..N /\ IsFirst(i, I)
  BY <1>4, <1>5, FirstIs
<1>7. i # 0 => thy.lemmas[i] = l
  BY <1>1, <1>6 DEF IsFirst
<1>8. ASSUME NEW k \in 1..Len(thy.lemmas), thy.lemmas[k] = l PROVE i = k
  <2>1. k \in I
    BY <1>1, <1>8
  <2>2. i \in I
    BY <1>6, <2>1 DEF IsFirst
  <2> QED
    BY <1>1, <1>8, <2>2, LemmasAre
<1> QED
  BY <1>2, <1>3, <1>6, <1>7, <1>8

\* The neighbours of the lemma at k.
LEMMA NeighboursAre ==
  ASSUME thy \in Theories, NEW k \in 1..Len(thy.lemmas)
  PROVE  /\ IndexOf(thy.lemmas[k]) = k
         /\ next_after(thy.lemmas[k]) = IF k < Len(thy.lemmas) THEN thy.lemmas[k + 1] ELSE None
         /\ prev_before(thy.lemmas[k]) = IF k > 1 THEN thy.lemmas[k - 1] ELSE None
<1>1. IndexOf(thy.lemmas[k]) = k
  BY PlaceIs
<1>2. Len(thy.lemmas) \in Nat
  BY LemmasAre
<1>3. k \in 1..(Len(thy.lemmas) - 1) <=> k < Len(thy.lemmas)
  BY <1>2
<1> QED
  BY <1>1, <1>3 DEF next_after, prev_before

\* A lemma that is gone has no neighbours.
LEMMA NoNeighbours ==
  ASSUME thy \in Theories, NEW l, l \notin LemmaSet
  PROVE  next_after(l) = None /\ prev_before(l) = None
<1>1. IndexOf(l) = 0
  BY PlaceIs DEF LemmaSet
<1>2. Len(thy.lemmas) \in Nat
  BY LemmasAre
<1>3. ~(0 \in 1..(Len(thy.lemmas) - 1)) /\ ~(0 > 1)
  BY <1>2
<1> QED
  BY <1>1, <1>3 DEF next_after, prev_before

\* Neighbours are lemmas of the theory.
LEMMA NeighboursThere ==
  ASSUME thy \in Theories, NEW l
  PROVE  /\ next_after(l) # None => next_after(l) \in LemmaSet
         /\ prev_before(l) # None => prev_before(l) \in LemmaSet
<1>1. CASE l \in LemmaSet
  <2>1. PICK k \in 1..Len(thy.lemmas) : l = thy.lemmas[k]
    BY <1>1 DEF LemmaSet
  <2>2. Len(thy.lemmas) \in Nat
    BY LemmasAre
  <2>3. next_after(l) # None => k < Len(thy.lemmas) /\ next_after(l) = thy.lemmas[k + 1]
    BY <2>1, NeighboursAre
  <2>4. prev_before(l) # None => k > 1 /\ prev_before(l) = thy.lemmas[k - 1]
    BY <2>1, NeighboursAre
  <2>5. /\ k < Len(thy.lemmas) => k + 1 \in 1..Len(thy.lemmas)
        /\ k > 1 => k - 1 \in 1..Len(thy.lemmas)
    BY <2>2
  <2> QED
    BY <2>3, <2>4, <2>5 DEF LemmaSet
<1>2. CASE l \notin LemmaSet
  BY <1>2, NoNeighbours
<1> QED
  BY <1>1, <1>2

-----------------------------------------------------------------------------
(* Pages.                                                                  *)

\* What TypeOK says of the page.
PageOK(p) ==
  /\ p \in [kind : Kinds, lemma : LemmaNames \cup {None}, sub : Seq(CaseNames)]
  /\ p.kind \in {"proof", "lemma", "method"} <=> p.lemma # None
  /\ p.sub # <<>> => p.kind \in {"proof", "method"}

\* The fixed pages.
LEMMA FixedAre ==
  /\ Len(Fixed) = 6
  /\ Fixed[1] = "help" /\ Fixed[2] = "message" /\ Fixed[3] = "rules"
  /\ Fixed[4] = "tactic" /\ Fixed[5] = "raw" /\ Fixed[6] = "refined"
BY DEF Fixed

\* The kinds of pages.
LEMMA KindsAre ==
  Kinds = {"help", "message", "rules", "tactic", "raw", "refined", "lemma", "edit", "proof", "method"}
<1>1. {Fixed[i] : i \in 1..Len(Fixed)} = {"help", "message", "rules", "tactic", "raw", "refined"}
  <2>1. 1..Len(Fixed) = {1, 2, 3, 4, 5, 6}
    BY FixedAre
  <2>2. {Fixed[i] : i \in {1, 2, 3, 4, 5, 6}}
          = {Fixed[1], Fixed[2], Fixed[3], Fixed[4], Fixed[5], Fixed[6]}
    OBVIOUS
  <2> QED
    BY <2>1, <2>2, FixedAre
<1> QED
  BY <1>1 DEF Kinds

\* The steps of a lemma have the paths of pages, and the root is one.
LEMMA StepsAre ==
  ASSUME thy \in Theories, NEW l \in LemmaNames
  PROVE  StepsOf(l) \subseteq Seq(CaseNames) /\ <<>> \in StepsOf(l)
<1>1. PICK paths : paths = lemma_proof_paths(l)
  OBVIOUS
<1>2. Len(paths) \in Nat \ {0} /\ paths[1].path = <<>>
      /\ \A i \in 1..Len(paths) : paths[i].path \in Seq(CaseNames)
  BY <1>1, ListIs
<1>3. StepsOf(l) = {paths[i].path : i \in 1..Len(paths)}
  BY <1>1 DEF StepsOf
<1>4. 1 \in 1..Len(paths)
  BY <1>2
<1> QED
  BY <1>2, <1>3, <1>4

\* What the fixed pages, and those of a lemma, are.
LEMMA PagesOK ==
  ASSUME thy \in Theories, NEW l \in LemmaNames, NEW s \in Seq(CaseNames)
  PROVE  /\ \A k \in Kinds \ {"proof", "lemma", "method"} : PageOK(Page(k))
         /\ PageOK(ProofPage(l, s)) /\ PageOK(MethodPage(l, s)) /\ PageOK(LemmaPage(l))
<1>1. <<>> \in Seq(CaseNames) /\ l # None
  BY NavigationAssumption
<1>2. \A k \in Kinds \ {"proof", "lemma", "method"} : PageOK(Page(k))
  BY <1>1 DEF PageOK, Page
<1>3. PageOK(ProofPage(l, s))
  BY <1>1, KindsAre DEF PageOK, ProofPage
<1>4. PageOK(MethodPage(l, s))
  BY <1>1, KindsAre DEF PageOK, MethodPage
<1>5. PageOK(LemmaPage(l))
  BY <1>1, KindsAre DEF PageOK, LemmaPage
<1> QED
  BY <1>2, <1>3, <1>4, <1>5

\* The pages that are there are well typed.
LEMMA PagesThere ==
  ASSUME thy \in Theories, NEW p \in Pages \cup Asides
  PROVE  PageOK(p)
<1>1. LemmaSet \subseteq LemmaNames
  BY LemmasAre DEF LemmaSet
<1>2. ASSUME NEW k \in Kinds \ {"proof", "lemma", "method"} PROVE PageOK(Page(k))
  <2>1. <<>> \in Seq(CaseNames)
    OBVIOUS
  <2> QED
    BY <1>2, <2>1 DEF PageOK, Page
<1>3. CASE p \in {Page(Fixed[i]) : i \in 1..Len(Fixed)}
  <2>1. PICK i \in 1..6 : p = Page(Fixed[i])
    BY <1>3, FixedAre
  <2>2. Fixed[i] \in {"help", "message", "rules", "tactic", "raw", "refined"}
    BY <2>1, FixedAre
  <2> QED
    BY <1>2, <2>1, <2>2, KindsAre
<1>4. CASE p = Page("edit")
  BY <1>2, <1>4, KindsAre
<1>5. CASE p \in {LemmaPage(l) : l \in LemmaSet}
  <2>1. PICK l \in LemmaNames : p = LemmaPage(l)
    BY <1>1, <1>5
  <2>2. <<>> \in Seq(CaseNames)
    OBVIOUS
  <2> QED
    BY <2>1, <2>2, PagesOK
<1>6. CASE p \in UNION {{ProofPage(l, s) : s \in StepsOf(l)} : l \in LemmaSet}
  <2>1. PICK l \in LemmaNames : \E s \in StepsOf(l) : p = ProofPage(l, s)
    BY <1>1, <1>6
  <2>2. PICK s \in Seq(CaseNames) : p = ProofPage(l, s)
    BY <2>1, StepsAre
  <2> QED
    BY <2>2, PagesOK
<1>7. CASE p \in UNION {{MethodPage(l, s) : s \in StepsOf(l)} : l \in LemmaSet}
  <2>1. PICK l \in LemmaNames : \E s \in StepsOf(l) : p = MethodPage(l, s)
    BY <1>1, <1>7
  <2>2. PICK s \in Seq(CaseNames) : p = MethodPage(l, s)
    BY <2>1, StepsAre
  <2> QED
    BY <2>2, PagesOK
<1> QED
  BY <1>3, <1>4, <1>5, <1>6, <1>7 DEF Pages, Asides

\* Where pages of the tour are.
LEMMA InTour ==
  ASSUME thy \in Theories
  PROVE  /\ \A k \in {"help", "message", "rules", "tactic", "raw", "refined"} : Page(k) \in Pages
         /\ \A l \in LemmaSet : \A s \in StepsOf(l) : ProofPage(l, s) \in Pages
         /\ \A l \in LemmaSet : ProofPage(l, <<>>) \in Pages
<1>1. ASSUME NEW k \in {"help", "message", "rules", "tactic", "raw", "refined"} PROVE Page(k) \in Pages
  <2>1. 1 \in 1..6 /\ 2 \in 1..6 /\ 3 \in 1..6 /\ 4 \in 1..6 /\ 5 \in 1..6 /\ 6 \in 1..6
    OBVIOUS
  <2>2. PICK n : n = Len(Fixed) /\ n = 6
    BY FixedAre
  <2>3. \E i \in 1..n : k = Fixed[i]
    BY <1>1, <2>1, <2>2, FixedAre, Zenon
  <2> QED
    BY <2>2, <2>3 DEF Pages
<1>2. ASSUME NEW l \in LemmaSet, NEW s \in StepsOf(l) PROVE ProofPage(l, s) \in Pages
  BY DEF Pages
<1>3. ASSUME NEW l \in LemmaSet PROVE ProofPage(l, <<>>) \in Pages
  <2>1. l \in LemmaNames
    BY LemmasAre DEF LemmaSet
  <2> QED
    BY <1>2, <2>1, StepsAre
<1> QED
  BY <1>1, <1>2, <1>3

-----------------------------------------------------------------------------
(* Where the arrows lead.                                                  *)

\* The next step of a lemma's proof is a step of a lemma that is there.
LEMMA StepsLead ==
  ASSUME thy \in Theories, NEW l \in LemmaNames, NEW s, NEW smart \in BOOLEAN,
         NEW paths, paths = lemma_proof_paths(l)
  PROVE  /\ next_element(paths, s, smart) # 0 =>
              l \in LemmaSet /\ paths[next_element(paths, s, smart)].path \in StepsOf(l)
         /\ prev_element(paths, s, smart) # 0 =>
              l \in LemmaSet /\ paths[prev_element(paths, s, smart)].path \in StepsOf(l)
<1>1. Len(paths) \in Nat \ {0}
  BY ListIs
<1>2. StepsOf(l) = {paths[i].path : i \in 1..Len(paths)}
  BY DEF StepsOf
<1>3. l \notin LemmaSet => Len(paths) = 1
  <2>1. l \notin LemmaSet => \A i \in DOMAIN thy.lemmas : thy.lemmas[i] # l
    BY LemmasAre DEF LemmaSet
  <2> QED
    BY <2>1, NavigationAssumption DEF IsTheory, lemma_proof_paths
<1>4. ASSUME next_element(paths, s, smart) # 0
      PROVE  l \in LemmaSet /\ paths[next_element(paths, s, smart)].path \in StepsOf(l)
  <2>1. position(paths, s) # 0
    BY <1>4 DEF next_element
  <2>2. PICK k \in 1..Len(paths) : paths[k].path = s
    BY <2>1, PositionOfNone
  <2>3. PICK i : i = next_element(paths, paths[k].path, smart)
    OBVIOUS
  <2>4. i \in 0..Len(paths) /\ IsFirst(i, {j \in Stops(paths, smart) : j > k})
    BY <2>3, NextStep
  <2>5. i # 0
    BY <1>4, <2>2, <2>3
  <2>6. i \in 1..Len(paths) /\ i > k
    BY <2>4, <2>5 DEF IsFirst, Stops
  <2>7. Len(paths) # 1
    <3>1. ASSUME Len(paths) = 1 PROVE FALSE
      <4>1. k \in 1..1 /\ i \in 1..1 /\ i # k
        BY <2>6, <3>1
      <4> QED
        BY <4>1
    <3> QED
      BY <3>1
  <2>8. paths[i].path \in StepsOf(l)
    BY <1>2, <2>6
  <2>9. l \in LemmaSet /\ paths[i].path \in StepsOf(l)
    BY <1>3, <2>7, <2>8
  <2>10. next_element(paths, s, smart) = i
    BY <2>2, <2>3, Zenon
  <2> QED
    BY <2>9, <2>10, Zenon
<1>5. ASSUME prev_element(paths, s, smart) # 0
      PROVE  l \in LemmaSet /\ paths[prev_element(paths, s, smart)].path \in StepsOf(l)
  <2>1. position(paths, s) # 0
    BY <1>5 DEF prev_element
  <2>2. PICK k \in 1..Len(paths) : paths[k].path = s
    BY <2>1, PositionOfNone
  <2>3. PICK i : i = prev_element(paths, paths[k].path, smart)
    OBVIOUS
  <2>4. i \in 0..Len(paths) /\ IsLast(i, {j \in Stops(paths, smart) : j < k})
    BY <2>3, PrevStep
  <2>5. i # 0
    BY <1>5, <2>2, <2>3
  <2>6. i \in 1..Len(paths) /\ i < k
    BY <2>4, <2>5 DEF IsLast, Stops
  <2>7. Len(paths) # 1
    <3>1. ASSUME Len(paths) = 1 PROVE FALSE
      <4>1. k \in 1..1 /\ i \in 1..1 /\ i # k
        BY <2>6, <3>1
      <4> QED
        BY <4>1
    <3> QED
      BY <3>1
  <2>8. paths[i].path \in StepsOf(l)
    BY <1>2, <2>6
  <2>9. l \in LemmaSet /\ paths[i].path \in StepsOf(l)
    BY <1>3, <2>7, <2>8
  <2>10. prev_element(paths, s, smart) = i
    BY <2>2, <2>3, Zenon
  <2> QED
    BY <2>9, <2>10, Zenon
<1> QED
  BY <1>4, <1>5

\* The step of a proof after which the proof ends is there.
LEMMA LastThere ==
  ASSUME thy \in Theories, NEW l \in LemmaNames
  PROVE  last_path(l) \in StepsOf(l)
<1>1. PICK paths : paths = lemma_proof_paths(l)
  OBVIOUS
<1>2. Len(paths) \in 1..Len(paths)
  BY <1>1, ListIs
<1> QED
  BY <1>1, <1>2 DEF last_path, StepsOf

\* The end of the lemma before is there.
LEMMA PrevLemmaThere ==
  ASSUME thy \in Theories, NEW p
  PROVE  prev_lemma(p) \in Pages
<1>1. CASE prev_before(p.lemma) = None
  BY <1>1, InTour DEF prev_lemma
<1>2. CASE prev_before(p.lemma) # None
  <2>1. PICK l : l = prev_before(p.lemma)
    OBVIOUS
  <2>2. l \in LemmaSet
    BY <1>2, <2>1, NeighboursThere
  <2>3. l \in LemmaNames
    BY <2>2, LemmasAre DEF LemmaSet
  <2>4. ProofPage(l, last_path(l)) \in Pages
    BY <2>2, <2>3, LastThere, InTour
  <2> QED
    BY <1>2, <2>1, <2>4 DEF prev_lemma
<1> QED
  BY <1>1, <1>2

\* The right arrow of a section: the normal one, the smart one, or none.
LEMMA NextArrow ==
  ASSUME NEW p, NEW section \in Sections
  PROVE  \/ \E smart \in BOOLEAN : next_theory_path(p, section) = next_thy_path_inner(p, smart)
         \/ next_theory_path(p, section) = p
<1>1. PICK yes \in BOOLEAN : yes = TRUE
  OBVIOUS
<1>2. PICK no \in BOOLEAN : no = FALSE
  OBVIOUS
<1>3. CASE section = "normal"
  <2>1. next_theory_path(p, section) = next_thy_path_inner(p, FALSE)
    BY <1>3, Zenon DEF next_theory_path
  <2>2. next_theory_path(p, section) = next_thy_path_inner(p, no)
    BY <1>2, <2>1, Zenon
  <2> QED
    BY <2>2, Zenon
<1>4. CASE section = "smart"
  <2>1. next_theory_path(p, section) = next_thy_path_inner(p, TRUE)
    BY <1>4 DEF next_theory_path
  <2>2. next_theory_path(p, section) = next_thy_path_inner(p, yes)
    BY <1>1, <2>1, Zenon
  <2> QED
    BY <2>2, Zenon
<1>5. CASE section = "other"
  BY <1>5 DEF next_theory_path
<1> QED
  BY <1>3, <1>4, <1>5 DEF Sections

\* The left arrow of a section: the normal one, the smart one, or none.
LEMMA PrevArrow ==
  ASSUME NEW p, NEW section \in Sections
  PROVE  \/ \E smart \in BOOLEAN : prev_theory_path(p, section) = prev_thy_path_inner(p, smart)
         \/ prev_theory_path(p, section) = p
<1>1. PICK yes \in BOOLEAN : yes = TRUE
  OBVIOUS
<1>2. PICK no \in BOOLEAN : no = FALSE
  OBVIOUS
<1>3. CASE section = "normal"
  <2>1. prev_theory_path(p, section) = prev_thy_path_inner(p, FALSE)
    BY <1>3, Zenon DEF prev_theory_path
  <2>2. prev_theory_path(p, section) = prev_thy_path_inner(p, no)
    BY <1>2, <2>1, Zenon
  <2> QED
    BY <2>2, Zenon
<1>4. CASE section = "smart"
  <2>1. prev_theory_path(p, section) = prev_thy_path_inner(p, TRUE)
    BY <1>4 DEF prev_theory_path
  <2>2. prev_theory_path(p, section) = prev_thy_path_inner(p, yes)
    BY <1>1, <2>1, Zenon
  <2> QED
    BY <2>2, Zenon
<1>5. CASE section = "other"
  BY <1>5 DEF prev_theory_path
<1> QED
  BY <1>3, <1>4, <1>5 DEF Sections

\* From any page the right arrow leads to a page that is there, or nowhere, or
\* from a lemma that is gone to its proof.
LEMMA NextLeads ==
  ASSUME thy \in Theories, NEW p, PageOK(p), NEW smart \in BOOLEAN,
         NEW q, q = next_thy_path_inner(p, smart)
  PROVE  \/ q \in Pages \cup {p}
         \/ p.lemma \notin LemmaSet /\ p = LemmaPage(p.lemma) /\ q = ProofPage(p.lemma, <<>>)
<1>1. p.kind \in Kinds
  BY DEF PageOK
<1>2. CASE p.kind \in {"help", "message", "rules", "tactic", "raw", "edit", "method"}
  <2>1. q \in {Page("help"), Page("message"), Page("rules"), Page("tactic"), Page("raw"), Page("refined"), p}
    BY <1>2 DEF next_thy_path_inner
  <2> QED
    BY <2>1, InTour
<1>3. CASE p.kind = "refined"
  <2>1. q = IF thy.lemmas = <<>> THEN Page("help") ELSE ProofPage(thy.lemmas[1], <<>>)
    BY <1>3 DEF next_thy_path_inner
  <2>2. thy.lemmas # <<>> => thy.lemmas[1] \in LemmaSet
    <3>1. thy.lemmas # <<>> => 1 \in 1..Len(thy.lemmas)
      BY LemmasAre
    <3> QED
      BY <3>1 DEF LemmaSet
  <2> QED
    BY <2>1, <2>2, InTour
<1>4. CASE p.kind = "lemma"
  <2>1. q = ProofPage(p.lemma, <<>>)
    BY <1>4 DEF next_thy_path_inner
  <2>2. p = LemmaPage(p.lemma)
    <3>1. p.sub = <<>> /\ p = [kind |-> p.kind, lemma |-> p.lemma, sub |-> p.sub]
      BY <1>4 DEF PageOK
    <3> QED
      BY <1>4, <3>1 DEF LemmaPage
  <2> QED
    BY <2>1, <2>2, InTour
<1>5. CASE p.kind = "proof"
  <2>1. q = next_proof(p, smart)
    BY <1>5 DEF next_thy_path_inner
  <2>2. p.lemma \in LemmaNames
    BY <1>5 DEF PageOK
  <2>3. PICK paths : paths = lemma_proof_paths(p.lemma)
    OBVIOUS
  <2>4. PICK i : i = next_element(paths, p.sub, smart)
    OBVIOUS
  <2>5. i # 0 => p.lemma \in LemmaSet /\ paths[i].path \in StepsOf(p.lemma)
    BY <2>2, <2>3, <2>4, StepsLead
  <2>6. q = IF i # 0 THEN ProofPage(p.lemma, paths[i].path)
            ELSE IF next_after(p.lemma) # None THEN ProofPage(next_after(p.lemma), <<>>)
            ELSE p
    BY <2>1, <2>3, <2>4 DEF next_proof
  <2>7. next_after(p.lemma) # None => next_after(p.lemma) \in LemmaSet
    BY NeighboursThere
  <2> QED
    BY <2>5, <2>6, <2>7, InTour
<1> QED
  BY <1>1, <1>2, <1>3, <1>4, <1>5, KindsAre

\* From any page the left arrow leads to a page that is there, or nowhere.
LEMMA PrevLeads ==
  ASSUME thy \in Theories, NEW p, PageOK(p), NEW smart \in BOOLEAN,
         NEW q, q = prev_thy_path_inner(p, smart)
  PROVE  q \in Pages \cup {p}
<1>1. p.kind \in Kinds
  BY DEF PageOK
<1>2. CASE p.kind \in {"help", "message", "rules", "tactic", "raw", "refined", "edit", "method"}
  <2>1. q \in {Page("help"), Page("message"), Page("rules"), Page("tactic"), Page("raw"), Page("refined"), p}
    BY <1>2 DEF prev_thy_path_inner
  <2> QED
    BY <2>1, InTour
<1>3. CASE p.kind = "lemma"
  <2>1. q = prev_lemma(p)
    BY <1>3 DEF prev_thy_path_inner
  <2> QED
    BY <2>1, PrevLemmaThere
<1>4. CASE p.kind = "proof"
  <2>1. q = prev_proof(p, smart)
    BY <1>4 DEF prev_thy_path_inner
  <2>2. p.lemma \in LemmaNames
    BY <1>4 DEF PageOK
  <2>3. PICK paths : paths = lemma_proof_paths(p.lemma)
    OBVIOUS
  <2>4. PICK i : i = prev_element(paths, p.sub, smart)
    OBVIOUS
  <2>5. i # 0 => p.lemma \in LemmaSet /\ paths[i].path \in StepsOf(p.lemma)
    BY <2>2, <2>3, <2>4, StepsLead
  <2>6. q = IF i # 0 THEN ProofPage(p.lemma, paths[i].path) ELSE prev_lemma(p)
    BY <2>1, <2>3, <2>4 DEF prev_proof
  <2> QED
    BY <2>5, <2>6, InTour, PrevLemmaThere
<1> QED
  BY <1>1, <1>2, <1>3, <1>4, KindsAre

-----------------------------------------------------------------------------
(* From any page.                                                          *)

\* Wherever the arrows lead, the page has the parts of its kind.
LEMMA ArrowsTyped ==
  ASSUME thy \in Theories, NEW p, PageOK(p), NEW smart \in BOOLEAN
  PROVE  PageOK(next_thy_path_inner(p, smart)) /\ PageOK(prev_thy_path_inner(p, smart))
<1>1. PICK q : q = next_thy_path_inner(p, smart)
  OBVIOUS
<1>2. PICK r : r = prev_thy_path_inner(p, smart)
  OBVIOUS
<1>3. PageOK(q)
  <2>1. \/ q \in Pages \cup {p}
        \/ p.lemma \notin LemmaSet /\ p = LemmaPage(p.lemma) /\ q = ProofPage(p.lemma, <<>>)
    BY <1>1, NextLeads
  <2>2. ASSUME p = LemmaPage(p.lemma), q = ProofPage(p.lemma, <<>>) PROVE PageOK(q)
    <3>1. p.kind = "lemma"
      BY <2>2 DEF LemmaPage
    <3>2. p.lemma \in LemmaNames
      BY <3>1 DEF PageOK
    <3>3. <<>> \in Seq(CaseNames)
      OBVIOUS
    <3> QED
      BY <2>2, <3>2, <3>3, PagesOK
  <2> QED
    BY <2>1, <2>2, PagesThere
<1>4. PageOK(r)
  <2>1. r \in Pages \cup {p}
    BY <1>2, PrevLeads
  <2> QED
    BY <2>1, PagesThere
<1> QED
  BY <1>1, <1>2, <1>3, <1>4

\* The page in the browser is a kind of page, with the lemma and the step that
\* this kind has, whatever the arrows and the changes of the theory.
THEOREM TypeCorrect == Spec => []TypeOK
<1>1. TypeOK <=> thy \in Theories /\ PageOK(page)
  BY DEF TypeOK, PageOK
<1>2. Init => TypeOK
  <2>1. SUFFICES ASSUME Init PROVE TypeOK
    OBVIOUS
  <2>2. thy \in Theories /\ page = Page("help") /\ Page("help") \in Pages
    BY <2>1, InTour DEF Init
  <2> QED
    BY <1>1, <2>2, PagesThere
<1>3. TypeOK /\ [Next]_vars => TypeOK'
  <2>1. SUFFICES ASSUME TypeOK, [Next]_vars PROVE TypeOK'
    OBVIOUS
  <2>2. thy \in Theories /\ PageOK(page)
    BY <1>1, <2>1
  <2>3. thy' \in Theories /\ PageOK(page')
    <3>1. CASE Open
      BY <2>2, <3>1, PagesThere DEF Open
    <3>2. CASE next_path
      <4>1. PICK section \in Sections : page' = next_theory_path(page, section)
        BY <3>2 DEF next_path
      <4> QED
        BY <2>2, <3>2, <4>1, ArrowsTyped, NextArrow DEF next_path
    <3>3. CASE prev_path
      <4>1. PICK section \in Sections : page' = prev_theory_path(page, section)
        BY <3>3 DEF prev_path
      <4> QED
        BY <2>2, <3>3, <4>1, ArrowsTyped, PrevArrow DEF prev_path
    <3>4. CASE Change
      BY <2>2, <3>4 DEF Change
    <3>5. CASE UNCHANGED vars
      BY <2>2, <3>5 DEF vars
    <3> QED
      BY <2>1, <3>1, <3>2, <3>3, <3>4, <3>5 DEF Next
  <2> QED
    BY <2>3 DEF TypeOK, PageOK
<1> QED
  BY <1>2, <1>3, PTL DEF Spec

\* From a page that is gone, an arrow leads to a page that is there, or
\* nowhere, or from a lemma that is gone to its proof.
THEOREM Arrives == Spec => ArrowsArrive
<1> DEFINE Arrived == \/ page' \in Pages \cup {page}
                      \/ /\ page.lemma \notin LemmaSet /\ page = LemmaPage(page.lemma)
                         /\ page' = ProofPage(page.lemma, <<>>)
<1>1. TypeOK /\ [Next]_vars => [next_path \/ prev_path => Arrived]_vars
  <2>1. SUFFICES ASSUME TypeOK, next_path \/ prev_path PROVE Arrived
    OBVIOUS
  <2>2. thy \in Theories /\ PageOK(page)
    BY <2>1 DEF TypeOK, PageOK
  <2>3. CASE next_path
    <3>1. PICK section \in Sections : page' = next_theory_path(page, section)
      BY <2>3 DEF next_path
    <3> QED
      BY <2>2, <3>1, NextLeads, NextArrow, Zenon
  <2>4. CASE prev_path
    <3>1. PICK section \in Sections : page' = prev_theory_path(page, section)
      BY <2>4 DEF prev_path
    <3> QED
      BY <2>2, <3>1, PrevLeads, PrevArrow, Zenon
  <2> QED
    BY <2>1, <2>3, <2>4
<1> QED
  BY <1>1, TypeCorrect, PTL DEF Spec, ArrowsArrive

-----------------------------------------------------------------------------
(* The coordinates of a page of the tour: its chapter, and in the chapter  *)
(* of a lemma the number of the step.                                      *)

Chapters == 6 + Len(thy.lemmas)
Steps(c) == lemma_proof_paths(thy.lemmas[c - 6])
Size(c) == IF c <= 6 THEN 1 ELSE Len(Steps(c))
At(c, i) == IF c <= 6 THEN Page(Fixed[c]) ELSE ProofPage(thy.lemmas[c - 6], Steps(c)[i].path)

\* The chapters of lemmas.
LEMMA ChapterIs ==
  ASSUME thy \in Theories, NEW c \in 7..Chapters
  PROVE  /\ c - 6 \in 1..Len(thy.lemmas) /\ ~(c <= 6) /\ c \in Nat
         /\ thy.lemmas[c - 6] \in LemmaNames /\ thy.lemmas[c - 6] \in LemmaSet
         /\ Size(c) = Len(Steps(c)) /\ Size(c) \in Nat \ {0}
         /\ \A i : At(c, i) = ProofPage(thy.lemmas[c - 6], Steps(c)[i].path)
<1>1. Len(thy.lemmas) \in Nat
  BY LemmasAre
<1>2. c \in Nat /\ c - 6 \in 1..Len(thy.lemmas) /\ ~(c <= 6)
  BY <1>1 DEF Chapters
<1>3. thy.lemmas[c - 6] \in LemmaNames /\ thy.lemmas[c - 6] \in LemmaSet
  BY <1>2, LemmasAre DEF LemmaSet
<1>4. Len(Steps(c)) \in Nat \ {0}
  BY <1>3, ListIs DEF Steps
<1> QED
  BY <1>2, <1>3, <1>4 DEF Size, At

\* The sizes of chapters.
LEMMA SizeIs ==
  ASSUME thy \in Theories
  PROVE  /\ Chapters \in Nat /\ Chapters >= 6
         /\ \A c \in 1..Chapters : Size(c) \in Nat \ {0}
         /\ \A c \in 1..6 : Size(c) = 1 /\ \A i : At(c, i) = Page(Fixed[c])
         /\ Chapters = 6 <=> thy.lemmas = <<>>
<1>1. Len(thy.lemmas) \in Nat /\ (thy.lemmas = <<>> <=> Len(thy.lemmas) = 0)
  BY LemmasAre
<1>2. \A c \in 1..6 : Size(c) = 1 /\ \A i : At(c, i) = Page(Fixed[c])
  BY DEF Size, At
<1>3. ASSUME NEW c \in 1..Chapters PROVE Size(c) \in Nat \ {0}
  <2>1. CASE c \in 1..6
    BY <1>2, <2>1
  <2>2. CASE c \in 7..Chapters
    BY <2>2, ChapterIs
  <2> QED
    BY <1>1, <2>1, <2>2 DEF Chapters
<1> QED
  BY <1>1, <1>2, <1>3 DEF Chapters

\* The pages of the tour are those with coordinates.
LEMMA PagesAre ==
  ASSUME thy \in Theories
  PROVE  /\ \A c \in 1..Chapters : \A i \in 1..Size(c) : At(c, i) \in Pages
         /\ \A p \in Pages : \E c \in 1..Chapters : \E i \in 1..Size(c) : p = At(c, i)
<1>1. ASSUME NEW c \in 1..Chapters, NEW i \in 1..Size(c) PROVE At(c, i) \in Pages
  <2>1. CASE c \in 1..6
    <3>1. Fixed[c] \in {"help", "message", "rules", "tactic", "raw", "refined"}
      BY <2>1, FixedAre
    <3> QED
      BY <2>1, <3>1, SizeIs, InTour
  <2>2. CASE c \in 7..Chapters
    <3>1. PICK l \in LemmaNames : l = thy.lemmas[c - 6] /\ l \in LemmaSet
      BY <2>2, ChapterIs
    <3>2. i \in 1..Len(lemma_proof_paths(l))
      BY <2>2, <3>1, ChapterIs DEF Steps
    <3>3. Steps(c)[i].path \in StepsOf(l)
      BY <3>1, <3>2 DEF Steps, StepsOf
    <3>4. At(c, i) = ProofPage(l, Steps(c)[i].path)
      BY <2>2, <3>1, ChapterIs
    <3> QED
      BY <3>1, <3>3, <3>4, InTour
  <2> QED
    BY <2>1, <2>2, SizeIs
<1>2. ASSUME NEW p \in Pages PROVE \E c \in 1..Chapters : \E i \in 1..Size(c) : p = At(c, i)
  <2>1. CASE p \in {Page(Fixed[i]) : i \in 1..Len(Fixed)}
    <3>1. PICK c \in 1..6 : p = Page(Fixed[c])
      BY <2>1, FixedAre
    <3>2. c \in 1..Chapters /\ 1 \in 1..Size(c) /\ p = At(c, 1)
      BY <3>1, SizeIs
    <3> QED
      BY <3>2
  <2>2. CASE p \in UNION {{ProofPage(l, s) : s \in StepsOf(l)} : l \in LemmaSet}
    <3>1. PICK l \in LemmaSet : \E s \in StepsOf(l) : p = ProofPage(l, s)
      BY <2>2
    <3>2. PICK k \in 1..Len(thy.lemmas) : l = thy.lemmas[k]
      BY DEF LemmaSet
    <3>3. PICK i \in 1..Len(lemma_proof_paths(l)) : p = ProofPage(l, lemma_proof_paths(l)[i].path)
      BY <3>1 DEF StepsOf
    <3>4. PICK c : c = k + 6
      OBVIOUS
    <3>5. c \in 7..Chapters /\ c \in 1..Chapters /\ c - 6 = k
      BY <3>4, LemmasAre DEF Chapters
    <3>6. Steps(c) = lemma_proof_paths(l)
      BY <3>2, <3>5 DEF Steps
    <3>7. i \in 1..Size(c)
      BY <3>5, <3>6, ChapterIs
    <3>8. p = At(c, i)
      BY <3>2, <3>3, <3>5, <3>6, ChapterIs
    <3> QED
      BY <3>5, <3>7, <3>8
  <2> QED
    BY <2>1, <2>2 DEF Pages
<1> QED
  BY <1>1, <1>2

\* Chapter counts the chapters.
LEMMA ChapterOf ==
  ASSUME thy \in Theories, NEW c \in 1..Chapters, NEW i
  PROVE  /\ Chapter(At(c, i)) = c
         /\ At(c, i).kind = "proof" <=> c > 6
<1>1. CASE c \in 1..6
  <2>1. At(c, i) = Page(Fixed[c])
    BY <1>1, SizeIs
  <2>2. At(c, i).kind = Fixed[c]
    BY <2>1 DEF Page
  <2>3. Fixed[c] # "proof"
    BY <1>1, FixedAre
  <2>4. \A j \in 1..6 : Fixed[j] = Fixed[c] => j = c
    BY <1>1, FixedAre
  <2>5. PICK n : n = Len(Fixed) /\ n = 6
    BY FixedAre
  <2>6. PICK j : j = CHOOSE m \in 1..n : Fixed[m] = Fixed[c]
    OBVIOUS
  <2>7. j = c
    <3>1. \E m \in 1..n : Fixed[m] = Fixed[c]
      BY <1>1, <2>5
    <3>2. j \in 1..n /\ Fixed[j] = Fixed[c]
      BY <2>6, <3>1, Zenon
    <3> QED
      BY <2>4, <2>5, <3>2
  <2>8. Chapter(At(c, i)) = j
    BY <2>2, <2>3, <2>5, <2>6 DEF Chapter
  <2> QED
    BY <1>1, <2>2, <2>3, <2>7, <2>8
<1>2. CASE c \in 7..Chapters
  <2>1. At(c, i) = ProofPage(thy.lemmas[c - 6], Steps(c)[i].path)
    BY <1>2, ChapterIs
  <2>2. At(c, i).kind = "proof" /\ At(c, i).lemma = thy.lemmas[c - 6]
    BY <2>1 DEF ProofPage
  <2>3. Chapter(At(c, i)) = Len(Fixed) + IndexOf(thy.lemmas[c - 6])
    BY <2>2 DEF Chapter
  <2>4. IndexOf(thy.lemmas[c - 6]) = c - 6
    BY <1>2, ChapterIs, NeighboursAre
  <2>5. 6 + (c - 6) = c /\ c > 6
    BY <1>2, SizeIs
  <2> QED
    BY <2>2, <2>3, <2>4, <2>5, FixedAre
<1> QED
  BY <1>1, <1>2, SizeIs

\* Before is the order of coordinates.
LEMMA BeforeIs ==
  ASSUME thy \in Theories, NEW c \in 1..Chapters, NEW d \in 1..Chapters,
         NEW i \in 1..Size(c), NEW j \in 1..Size(d)
  PROVE  Before(At(c, i), At(d, j)) <=> c < d \/ (c = d /\ i < j)
<1>1. Before(At(c, i), At(d, j)) <=>
        \/ c < d
        \/ c = d /\ c > 6 /\ PathBefore(At(c, i).sub, At(d, j).sub)
  BY ChapterOf DEF Before
<1>2. CASE c # d
  BY <1>1, <1>2
<1>3. CASE c = d /\ c \in 1..6
  <2>1. Size(c) = 1 /\ Size(d) = 1
    BY <1>3, SizeIs
  <2> QED
    BY <1>1, <1>3, <2>1
<1>4. CASE c = d /\ c \in 7..Chapters
  <2>1. PICK l \in LemmaNames : l = thy.lemmas[c - 6]
    BY <1>4, ChapterIs
  <2>2. PICK paths : paths = lemma_proof_paths(l)
    OBVIOUS
  <2>3. Steps(c) = paths
    BY <2>1, <2>2 DEF Steps
  <2>4. i \in 1..Len(paths) /\ j \in 1..Len(paths)
    BY <1>4, <2>3, ChapterIs
  <2>5. PathBefore(paths[i].path, paths[j].path) <=> i < j
    BY <2>2, <2>4, ListIs
  <2>6. At(c, i).sub = paths[i].path /\ At(d, j).sub = paths[j].path
    BY <1>4, <2>3, ChapterIs DEF ProofPage
  <2>7. c > 6 /\ ~(c < d)
    BY <1>4, SizeIs
  <2> QED
    BY <1>1, <1>4, <2>5, <2>6, <2>7
<1> QED
  BY <1>2, <1>3, <1>4, SizeIs

\* A page has one pair of coordinates.
LEMMA AtIsInjective ==
  ASSUME thy \in Theories, NEW c \in 1..Chapters, NEW d \in 1..Chapters,
         NEW i \in 1..Size(c), NEW j \in 1..Size(d), At(c, i) = At(d, j)
  PROVE  c = d /\ i = j
<1>1. c = d
  <2>1. Chapter(At(c, i)) = c /\ Chapter(At(d, j)) = d
    BY ChapterOf
  <2> QED
    BY <2>1
<1>2. Before(At(c, i), At(d, j)) <=> i < j
  BY <1>1, BeforeIs
<1>3. Before(At(d, j), At(c, i)) <=> j < i
  BY <1>1, BeforeIs
<1>4. Before(At(c, i), At(c, i)) <=> i < i
  BY BeforeIs
<1>5. i \in Nat /\ j \in Nat
  OBVIOUS
<1> QED
  BY <1>1, <1>2, <1>3, <1>4, <1>5

-----------------------------------------------------------------------------
(* The arrows on coordinates.                                              *)

\* The first step of a chapter.
LEMMA Enters ==
  ASSUME thy \in Theories, NEW c \in 7..Chapters
  PROVE  ProofPage(thy.lemmas[c - 6], <<>>) = At(c, 1)
<1>1. thy.lemmas[c - 6] \in LemmaNames
  BY ChapterIs
<1>2. Steps(c)[1].path = <<>>
  BY <1>1, ListIs DEF Steps
<1> QED
  BY <1>2, ChapterIs

\* From a fixed page the right arrow leads to the next chapter.
LEMMA NextOfFixed ==
  ASSUME thy \in Theories, NEW c \in 1..6, NEW smart \in BOOLEAN, c < Chapters
  PROVE  next_thy_path_inner(At(c, 1), smart) = At(c + 1, 1)
<1>1. PICK p : p = At(c, 1)
  OBVIOUS
<1>2. p = Page(Fixed[c]) /\ p.kind = Fixed[c]
  BY <1>1, SizeIs DEF Page
<1>3. CASE c \in 1..5
  <2>1. c + 1 \in 1..6 /\ At(c + 1, 1) = Page(Fixed[c + 1])
    BY <1>3, SizeIs
  <2>2. next_thy_path_inner(p, smart) = Page(Fixed[c + 1])
    <3>1. CASE c = 1
      BY <1>2, <3>1, FixedAre DEF next_thy_path_inner
    <3>2. CASE c = 2
      BY <1>2, <3>2, FixedAre DEF next_thy_path_inner
    <3>3. CASE c = 3
      BY <1>2, <3>3, FixedAre DEF next_thy_path_inner
    <3>4. CASE c = 4
      BY <1>2, <3>4, FixedAre DEF next_thy_path_inner
    <3>5. CASE c = 5
      BY <1>2, <3>5, FixedAre DEF next_thy_path_inner
    <3> QED
      BY <1>3, <3>1, <3>2, <3>3, <3>4, <3>5
  <2> QED
    BY <1>1, <2>1, <2>2
<1>4. CASE c = 6
  <2>1. thy.lemmas # <<>> /\ 7 \in 7..Chapters
    BY <1>4, SizeIs
  <2>2. next_thy_path_inner(p, smart) = ProofPage(thy.lemmas[1], <<>>)
    BY <1>2, <1>4, <2>1, FixedAre DEF next_thy_path_inner
  <2>3. ProofPage(thy.lemmas[7 - 6], <<>>) = At(7, 1)
    BY <2>1, Enters
  <2> QED
    BY <1>1, <1>4, <2>2, <2>3
<1> QED
  BY <1>3, <1>4

\* From a step of a lemma it leads to the next stop there, or to the next lemma,
\* or nowhere.
LEMMA NextOfStep ==
  ASSUME thy \in Theories, NEW c \in 7..Chapters, NEW i \in 1..Size(c), NEW smart \in BOOLEAN,
         NEW k, k = next_element(Steps(c), Steps(c)[i].path, smart)
  PROVE  next_thy_path_inner(At(c, i), smart) =
           IF k # 0 THEN At(c, k) ELSE IF c < Chapters THEN At(c + 1, 1) ELSE At(c, i)
<1>1. PICK l \in LemmaNames : l = thy.lemmas[c - 6]
  BY ChapterIs
<1>2. PICK paths : paths = Steps(c) /\ paths = lemma_proof_paths(l)
  BY <1>1 DEF Steps
<1>3. PICK p : p = At(c, i)
  OBVIOUS
<1>4. p = ProofPage(l, paths[i].path) /\ p.kind = "proof" /\ p.lemma = l /\ p.sub = paths[i].path
  <2>1. p = ProofPage(l, paths[i].path)
    BY <1>1, <1>2, <1>3, ChapterIs
  <2> QED
    BY <2>1 DEF ProofPage
<1>5. next_thy_path_inner(p, smart) = next_proof(p, smart)
  BY <1>4 DEF next_thy_path_inner
<1>6. next_proof(p, smart) =
        IF k # 0 THEN ProofPage(l, paths[k].path)
        ELSE IF next_after(l) # None THEN ProofPage(next_after(l), <<>>) ELSE p
  BY <1>2, <1>4 DEF next_proof
<1>7. ProofPage(l, paths[k].path) = At(c, k)
  BY <1>1, <1>2, ChapterIs
<1>8. c - 6 \in 1..Len(thy.lemmas) /\ Len(thy.lemmas) \in Nat
  BY ChapterIs, LemmasAre
<1>9. next_after(l) = IF c - 6 < Len(thy.lemmas) THEN thy.lemmas[(c - 6) + 1] ELSE None
  BY <1>1, <1>8, NeighboursAre
<1>10. CASE c < Chapters
  <2>1. c + 1 \in 7..Chapters /\ (c - 6) + 1 = (c + 1) - 6 /\ c - 6 < Len(thy.lemmas)
    BY <1>8, <1>10 DEF Chapters
  <2>2. PICK d : d = c + 1
    OBVIOUS
  <2>3. ProofPage(thy.lemmas[d - 6], <<>>) = At(d, 1) /\ thy.lemmas[d - 6] # None
    BY <2>1, <2>2, Enters, ChapterIs, NavigationAssumption
  <2>4. next_after(l) = thy.lemmas[d - 6]
    BY <1>9, <2>1, <2>2
  <2> QED
    BY <1>3, <1>5, <1>6, <1>7, <1>10, <2>2, <2>3, <2>4
<1>11. CASE ~(c < Chapters)
  <2>1. ~(c - 6 < Len(thy.lemmas))
    BY <1>8, <1>11 DEF Chapters
  <2> QED
    BY <1>3, <1>5, <1>6, <1>7, <1>9, <1>11, <2>1
<1> QED
  BY <1>10, <1>11

\* From a fixed page the left arrow leads to the chapter before, if any.
LEMMA PrevOfFixed ==
  ASSUME thy \in Theories, NEW c \in 1..6, NEW smart \in BOOLEAN
  PROVE  prev_thy_path_inner(At(c, 1), smart) = IF c > 1 THEN At(c - 1, 1) ELSE At(c, 1)
<1>1. PICK p : p = At(c, 1)
  OBVIOUS
<1>2. p = Page(Fixed[c]) /\ p.kind = Fixed[c]
  BY <1>1, SizeIs DEF Page
<1>3. CASE c = 1
  <2>1. prev_thy_path_inner(p, smart) = Page("help")
    BY <1>2, <1>3, FixedAre DEF prev_thy_path_inner
  <2>2. p = Page("help") /\ ~(c > 1)
    BY <1>2, <1>3, FixedAre
  <2> QED
    BY <1>1, <2>1, <2>2
<1>4. CASE c \in 2..6
  <2>1. c - 1 \in 1..6 /\ c > 1 /\ At(c - 1, 1) = Page(Fixed[c - 1])
    BY <1>4, SizeIs
  <2>2. prev_thy_path_inner(p, smart) = Page(Fixed[c - 1])
    <3>1. CASE c = 2
      BY <1>2, <3>1, FixedAre DEF prev_thy_path_inner
    <3>2. CASE c = 3
      BY <1>2, <3>2, FixedAre DEF prev_thy_path_inner
    <3>3. CASE c = 4
      BY <1>2, <3>3, FixedAre DEF prev_thy_path_inner
    <3>4. CASE c = 5
      BY <1>2, <3>4, FixedAre DEF prev_thy_path_inner
    <3>5. CASE c = 6
      BY <1>2, <3>5, FixedAre DEF prev_thy_path_inner
    <3> QED
      BY <1>4, <3>1, <3>2, <3>3, <3>4, <3>5
  <2> QED
    BY <1>1, <2>1, <2>2
<1> QED
  BY <1>3, <1>4

\* From a step of a lemma it leads to the last stop before it there, or to the
\* end of the chapter before.
LEMMA PrevOfStep ==
  ASSUME thy \in Theories, NEW c \in 7..Chapters, NEW i \in 1..Size(c), NEW smart \in BOOLEAN,
         NEW k, k = prev_element(Steps(c), Steps(c)[i].path, smart)
  PROVE  prev_thy_path_inner(At(c, i), smart) = IF k # 0 THEN At(c, k) ELSE At(c - 1, Size(c - 1))
<1>1. PICK l \in LemmaNames : l = thy.lemmas[c - 6]
  BY ChapterIs
<1>2. PICK paths : paths = Steps(c) /\ paths = lemma_proof_paths(l)
  BY <1>1 DEF Steps
<1>3. PICK p : p = At(c, i)
  OBVIOUS
<1>4. p = ProofPage(l, paths[i].path) /\ p.kind = "proof" /\ p.lemma = l /\ p.sub = paths[i].path
  <2>1. p = ProofPage(l, paths[i].path)
    BY <1>1, <1>2, <1>3, ChapterIs
  <2> QED
    BY <2>1 DEF ProofPage
<1>5. prev_thy_path_inner(p, smart) = prev_proof(p, smart)
  BY <1>4 DEF prev_thy_path_inner
<1>6. prev_proof(p, smart) = IF k # 0 THEN ProofPage(l, paths[k].path) ELSE prev_lemma(p)
  BY <1>2, <1>4 DEF prev_proof
<1>7. ProofPage(l, paths[k].path) = At(c, k)
  BY <1>1, <1>2, ChapterIs
<1>8. c - 6 \in 1..Len(thy.lemmas) /\ Len(thy.lemmas) \in Nat
  BY ChapterIs, LemmasAre
<1>9. prev_before(l) = IF c - 6 > 1 THEN thy.lemmas[(c - 6) - 1] ELSE None
  BY <1>1, <1>8, NeighboursAre
<1>10. prev_lemma(p) = At(c - 1, Size(c - 1))
  <2>1. CASE c = 7
    <3>1. prev_before(l) = None
      BY <1>9, <2>1
    <3>2. prev_lemma(p) = Page("refined")
      BY <1>4, <3>1 DEF prev_lemma
    <3>3. At(6, Size(6)) = Page("refined")
      BY SizeIs, FixedAre
    <3> QED
      BY <2>1, <3>2, <3>3
  <2>2. CASE c # 7
    <3>1. PICK d : d = c - 1
      OBVIOUS
    <3>2. d \in 7..Chapters /\ d - 6 = (c - 6) - 1 /\ c - 6 > 1
      BY <1>8, <2>2, <3>1 DEF Chapters
    <3>3. PICK m \in LemmaNames : m = thy.lemmas[d - 6]
      BY <3>2, ChapterIs
    <3>4. prev_before(l) = m /\ m # None
      BY <1>9, <3>2, <3>3, NavigationAssumption
    <3>5. prev_lemma(p) = ProofPage(m, last_path(m))
      BY <1>4, <3>4 DEF prev_lemma
    <3>6. last_path(m) = Steps(d)[Size(d)].path
      <4>1. Steps(d) = lemma_proof_paths(m)
        BY <3>3 DEF Steps
      <4>2. Size(d) = Len(Steps(d))
        BY <3>2, ChapterIs
      <4> QED
        BY <4>1, <4>2 DEF last_path
    <3>7. At(d, Size(d)) = ProofPage(m, last_path(m))
      BY <3>2, <3>3, <3>6, ChapterIs
    <3> QED
      BY <3>1, <3>5, <3>7
  <2> QED
    BY <2>1, <2>2
<1> QED
  BY <1>3, <1>5, <1>6, <1>7, <1>10

-----------------------------------------------------------------------------
(* The tour.                                                               *)

\* The normal arrows count the coordinates up and down.
LEMMA Counts ==
  ASSUME thy \in Theories, NEW c \in 1..Chapters, NEW i \in 1..Size(c)
  PROVE  /\ i < Size(c) => next_thy_path_inner(At(c, i), FALSE) = At(c, i + 1)
         /\ i = Size(c) /\ c < Chapters => next_thy_path_inner(At(c, i), FALSE) = At(c + 1, 1)
         /\ i = Size(c) /\ c = Chapters /\ thy.lemmas # <<>> => next_thy_path_inner(At(c, i), FALSE) = At(c, i)
         /\ i > 1 => prev_thy_path_inner(At(c, i), FALSE) = At(c, i - 1)
         /\ i = 1 /\ c > 1 => prev_thy_path_inner(At(c, i), FALSE) = At(c - 1, Size(c - 1))
         /\ i = 1 /\ c = 1 => prev_thy_path_inner(At(c, i), FALSE) = At(c, i)
<1>1. Chapters \in Nat /\ Chapters >= 6 /\ Size(c) \in Nat \ {0}
  BY SizeIs
<1>2. CASE c \in 1..6
  <2>1. Size(c) = 1 /\ i = 1 /\ ~(i < Size(c)) /\ ~(i > 1)
    BY <1>2, SizeIs
  <2>2. c < Chapters => next_thy_path_inner(At(c, 1), FALSE) = At(c + 1, 1)
    BY <1>2, NextOfFixed
  <2>3. ~(c = Chapters /\ thy.lemmas # <<>>)
    BY <1>1, <1>2, SizeIs
  <2>4. prev_thy_path_inner(At(c, 1), FALSE) = IF c > 1 THEN At(c - 1, 1) ELSE At(c, 1)
    BY <1>2, PrevOfFixed
  <2>5. c > 1 => Size(c - 1) = 1
    BY <1>2, SizeIs
  <2>6. c = 1 => ~(c > 1)
    OBVIOUS
  <2> QED
    BY <2>1, <2>2, <2>3, <2>4, <2>5, <2>6
<1>3. CASE c \in 7..Chapters
  <2>1. PICK l \in LemmaNames : l = thy.lemmas[c - 6]
    BY <1>3, ChapterIs
  <2>2. PICK paths : paths = Steps(c) /\ paths = lemma_proof_paths(l)
    BY <2>1 DEF Steps
  <2>3. Size(c) = Len(paths)
    BY <1>3, <2>2, ChapterIs
  <2>4. PICK k : k = next_element(Steps(c), Steps(c)[i].path, FALSE)
    OBVIOUS
  <2>5. PICK m : m = prev_element(Steps(c), Steps(c)[i].path, FALSE)
    OBVIOUS
  <2>6. k = IF i < Size(c) THEN i + 1 ELSE 0
    <3>1. next_element(paths, paths[i].path, FALSE) = IF i < Len(paths) THEN i + 1 ELSE 0
      BY <2>2, <2>3, NextStepIs
    <3>2. k = next_element(paths, paths[i].path, FALSE)
      BY <2>2, <2>4, Zenon
    <3> QED
      BY <2>3, <3>1, <3>2, Zenon
  <2>7. m = i - 1
    <3>1. prev_element(paths, paths[i].path, FALSE) = i - 1
      BY <2>2, <2>3, PrevStepIs
    <3>2. m = prev_element(paths, paths[i].path, FALSE)
      BY <2>2, <2>5, Zenon
    <3> QED
      BY <3>1, <3>2, Zenon
  <2>8. next_thy_path_inner(At(c, i), FALSE) =
          IF k # 0 THEN At(c, k) ELSE IF c < Chapters THEN At(c + 1, 1) ELSE At(c, i)
    <3>1. PICK smart \in BOOLEAN : smart = FALSE
      OBVIOUS
    <3>2. k = next_element(Steps(c), Steps(c)[i].path, smart)
      BY <2>4, <3>1, Zenon
    <3>3. next_thy_path_inner(At(c, i), smart) =
            IF k # 0 THEN At(c, k) ELSE IF c < Chapters THEN At(c + 1, 1) ELSE At(c, i)
      BY <1>3, <3>2, NextOfStep
    <3> QED
      BY <3>1, <3>3, Zenon
  <2>9. prev_thy_path_inner(At(c, i), FALSE) = IF m # 0 THEN At(c, m) ELSE At(c - 1, Size(c - 1))
    <3>1. PICK smart \in BOOLEAN : smart = FALSE
      OBVIOUS
    <3>2. m = prev_element(Steps(c), Steps(c)[i].path, smart)
      BY <2>5, <3>1, Zenon
    <3>3. prev_thy_path_inner(At(c, i), smart) =
            IF m # 0 THEN At(c, m) ELSE At(c - 1, Size(c - 1))
      BY <1>3, <3>2, PrevOfStep
    <3> QED
      BY <3>1, <3>3, Zenon
  <2>10. /\ i + 1 # 0 /\ (i > 1 => i - 1 # 0) /\ (i = 1 => i - 1 = 0)
         /\ (i = Size(c) => ~(i < Size(c))) /\ (c = Chapters => ~(c < Chapters)) /\ c # 1
    BY <1>1, <1>3
  <2>11. k # 0 => k = i + 1
    BY <2>6
  <2>12. i < Size(c) => k # 0
    BY <2>6, <2>10
  <2>13. i = Size(c) => k = 0
    BY <2>6, <2>10
  <2> QED
    BY <2>7, <2>8, <2>9, <2>10, <2>11, <2>12, <2>13, Zenon
<1>4. c \in 1..6 \/ c \in 7..Chapters
  BY <1>1
<1> QED
  BY <1>2, <1>3, <1>4, Zenon

\* The arrows join these coordinates, and nothing is between.
NextTo(c, i, d, j) ==
  /\ next_thy_path_inner(At(c, i), FALSE) = At(d, j)
  /\ prev_thy_path_inner(At(d, j), FALSE) = At(c, i)
  /\ c < d \/ (c = d /\ i < j)
  /\ \A e \in 1..Chapters : \A k \in 1..Size(e) :
       ~((c < e \/ (c = e /\ i < k)) /\ (e < d \/ (e = d /\ k < j)))

\* The next coordinates are such.
LEMMA OneUp ==
  ASSUME thy \in Theories, NEW c \in 1..Chapters, NEW i \in 1..Size(c),
         ~(thy.lemmas = <<>> /\ c = 6), i < Size(c) \/ c < Chapters
  PROVE  \E d \in 1..Chapters : \E j \in 1..Size(d) : NextTo(c, i, d, j)
<1>1. Chapters \in Nat /\ Chapters >= 6 /\ Size(c) \in Nat \ {0}
  BY SizeIs
<1>2. CASE i < Size(c)
  <2>1. PICK j : j = i + 1
    OBVIOUS
  <2>2. j \in 1..Size(c) /\ j > 1 /\ i < j /\ j - 1 = i
    BY <1>1, <1>2, <2>1
  <2>3. next_thy_path_inner(At(c, i), FALSE) = At(c, j)
    BY <1>2, <2>1, Counts
  <2>4. prev_thy_path_inner(At(c, j), FALSE) = At(c, i)
    BY <2>2, Counts
  <2>5. ASSUME NEW e \in 1..Chapters, NEW k \in 1..Size(e)
        PROVE  ~((c < e \/ (c = e /\ i < k)) /\ (e < c \/ (e = c /\ k < j)))
    <3>1. k \in Nat
      BY <2>5, SizeIs
    <3> QED
      BY <1>1, <2>1, <3>1
  <2> QED
    BY <2>2, <2>3, <2>4, <2>5 DEF NextTo
<1>3. CASE i = Size(c) /\ c < Chapters
  <2>1. PICK d : d = c + 1
    OBVIOUS
  <2>2. d \in 1..Chapters /\ d > 1 /\ c < d /\ d - 1 = c
    BY <1>1, <1>3, <2>1
  <2>3. 1 \in 1..Size(d)
    BY <2>2, SizeIs
  <2>4. next_thy_path_inner(At(c, i), FALSE) = At(d, 1)
    BY <1>3, <2>1, Counts
  <2>5. prev_thy_path_inner(At(d, 1), FALSE) = At(c, i)
    BY <1>3, <2>2, <2>3, Counts
  <2>6. ASSUME NEW e \in 1..Chapters, NEW k \in 1..Size(e)
        PROVE  ~((c < e \/ (c = e /\ i < k)) /\ (e < d \/ (e = d /\ k < 1)))
    <3>1. k \in Nat /\ k >= 1 /\ (c = e => k <= i)
      BY <1>1, <1>3, <2>6, SizeIs
    <3> QED
      BY <1>1, <2>1, <3>1
  <2> QED
    BY <2>2, <2>3, <2>4, <2>5, <2>6 DEF NextTo
<1>4. i < Size(c) \/ (i = Size(c) /\ c < Chapters)
  <2>1. PICK n \in Nat : n = Size(c)
    BY <1>1
  <2> QED
    BY <2>1
<1> QED
  BY <1>2, <1>3, <1>4, Zenon

\* From the last coordinates there is nothing ahead.
LEMMA TheEnd ==
  ASSUME thy \in Theories, NEW c \in 1..Chapters, NEW i \in 1..Size(c),
         ~(thy.lemmas = <<>> /\ c = 6), ~(i < Size(c)), ~(c < Chapters)
  PROVE  /\ next_thy_path_inner(At(c, i), FALSE) = At(c, i)
         /\ \A e \in 1..Chapters : \A k \in 1..Size(e) : ~(c < e \/ (c = e /\ i < k))
<1>1. Chapters \in Nat /\ Chapters >= 6 /\ Size(c) \in Nat \ {0}
  BY SizeIs
<1>2. i = Size(c) /\ c = Chapters
  BY <1>1
<1>3. thy.lemmas # <<>>
  BY <1>2, SizeIs
<1>4. next_thy_path_inner(At(c, i), FALSE) = At(c, i)
  BY <1>2, <1>3, Counts
<1>5. ASSUME NEW e \in 1..Chapters, NEW k \in 1..Size(e) PROVE ~(c < e \/ (c = e /\ i < k))
  <2>1. k \in Nat /\ (c = e => k <= i)
    BY <1>1, <1>2, <1>5, SizeIs
  <2> QED
    BY <1>1, <1>2, <2>1
<1> QED
  BY <1>4, <1>5

\* The left arrow from a page leads to the page from which the right one comes.
LEMMA OneDown ==
  ASSUME thy \in Theories, NEW c \in 1..Chapters, NEW i \in 1..Size(c)
  PROVE  \E d \in 1..Chapters : \E j \in 1..Size(d) :
           /\ prev_thy_path_inner(At(c, i), FALSE) = At(d, j)
           /\ At(d, j) = At(c, i) \/ next_thy_path_inner(At(d, j), FALSE) = At(c, i)
<1>1. Chapters \in Nat /\ Chapters >= 6 /\ Size(c) \in Nat \ {0}
  BY SizeIs
<1>2. CASE i > 1
  <2>1. PICK j : j = i - 1
    OBVIOUS
  <2>2. j \in 1..Size(c) /\ j < Size(c) /\ j + 1 = i
    BY <1>1, <1>2, <2>1
  <2>3. prev_thy_path_inner(At(c, i), FALSE) = At(c, j)
    BY <1>2, <2>1, Counts
  <2>4. next_thy_path_inner(At(c, j), FALSE) = At(c, i)
    BY <2>2, Counts
  <2> QED
    BY <2>2, <2>3, <2>4
<1>3. CASE i = 1 /\ c > 1
  <2>1. PICK d : d = c - 1
    OBVIOUS
  <2>2. d \in 1..Chapters /\ d < Chapters /\ d + 1 = c
    BY <1>1, <1>3, <2>1
  <2>3. PICK j : j = Size(d)
    OBVIOUS
  <2>4. j \in 1..Size(d)
    BY <2>2, <2>3, SizeIs
  <2>5. prev_thy_path_inner(At(c, i), FALSE) = At(d, j)
    BY <1>3, <2>1, <2>3, Counts
  <2>6. next_thy_path_inner(At(d, j), FALSE) = At(c, i)
    BY <1>3, <2>2, <2>3, <2>4, Counts
  <2> QED
    BY <2>2, <2>4, <2>5, <2>6
<1>4. CASE i = 1 /\ c = 1
  <2>1. prev_thy_path_inner(At(c, i), FALSE) = At(c, i)
    BY <1>4, Counts
  <2> QED
    BY <2>1
<1>5. i > 1 \/ (i = 1 /\ c > 1) \/ (i = 1 /\ c = 1)
  <2>1. i \in Nat /\ i >= 1 /\ c \in Nat /\ c >= 1
    BY <1>1
  <2> QED
    BY <2>1
<1> QED
  BY <1>2, <1>3, <1>4, <1>5, Zenon

\* Whatever the proofs look like, the normal arrows walk through all pages and
\* steps in order, each to the very next one and back again.
THEOREM Tour == Spec => []TourIsComplete
<1>1. TypeOK => TourIsComplete
  <2>0. \A page1 : /\ next_theory_path(page1, "normal") = next_thy_path_inner(page1, FALSE)
                  /\ prev_theory_path(page1, "normal") = prev_thy_path_inner(page1, FALSE)
    BY DEF next_theory_path, prev_theory_path
  <2>1. SUFFICES ASSUME TypeOK, NEW p \in Pages,
                        NEW q, q = next_thy_path_inner(p, FALSE),
                        NEW r, r = prev_thy_path_inner(p, FALSE)
                 PROVE  /\ q \in Pages /\ r \in Pages
                        /\ ~(thy.lemmas = <<>> /\ p = Page("refined")) =>
                             /\ q = p <=> \A other \in Pages : ~Before(p, other)
                             /\ q # p => /\ Before(p, q)
                                         /\ \A other \in Pages : ~(Before(p, other) /\ Before(other, q))
                                         /\ prev_thy_path_inner(q, FALSE) = p
                        /\ r # p => next_thy_path_inner(r, FALSE) = p
    BY <2>0, Zenon DEF TourIsComplete
  <2>2. thy \in Theories /\ PageOK(p)
    BY <2>1, PagesThere DEF TypeOK
  <2>3. PICK c \in 1..Chapters : \E i \in 1..Size(c) : p = At(c, i)
    BY <2>2, PagesAre
  <2>4. PICK i \in 1..Size(c) : p = At(c, i)
    BY <2>3
  <2>5. r \in Pages /\ (r # p => next_thy_path_inner(r, FALSE) = p)
    <3>1. PICK d \in 1..Chapters : \E j \in 1..Size(d) :
            r = At(d, j) /\ (At(d, j) = p \/ next_thy_path_inner(At(d, j), FALSE) = p)
      BY <2>1, <2>2, <2>4, OneDown, Zenon
    <3>2. PICK j \in 1..Size(d) : r = At(d, j) /\ (At(d, j) = p \/ next_thy_path_inner(At(d, j), FALSE) = p)
      BY <3>1
    <3> QED
      BY <2>2, <3>2, PagesAre, Zenon
  <2>6. q \in Pages
    <3>1. PICK smart \in BOOLEAN : smart = FALSE
      OBVIOUS
    <3>2. q = next_thy_path_inner(p, smart)
      BY <2>1, <3>1, Zenon
    <3>3. \/ q \in Pages \cup {p}
          \/ p = LemmaPage(p.lemma)
      BY <2>2, <3>2, NextLeads
    <3>4. p.kind # "lemma"
      BY <2>2, <2>4, ChapterOf, PagesAre, FixedAre, SizeIs, ChapterIs DEF At, Page, ProofPage
    <3>5. p # LemmaPage(p.lemma)
      BY <3>4 DEF LemmaPage
    <3> QED
      BY <2>1, <3>3, <3>5
  <2>7. ASSUME ~(thy.lemmas = <<>> /\ p = Page("refined"))
        PROVE  /\ q = p <=> \A other \in Pages : ~Before(p, other)
               /\ q # p => /\ Before(p, q)
                           /\ \A other \in Pages : ~(Before(p, other) /\ Before(other, q))
                           /\ prev_thy_path_inner(q, FALSE) = p
    <3>1. ~(thy.lemmas = <<>> /\ c = 6)
      <4>1. c = 6 => At(c, i) = Page("refined")
        BY <2>2, SizeIs, FixedAre
      <4> QED
        BY <2>4, <2>7, <4>1
    <3>2. CASE i < Size(c) \/ c < Chapters
      <4>1. PICK d \in 1..Chapters : \E m \in 1..Size(d) : NextTo(c, i, d, m)
        BY <2>2, <3>1, <3>2, OneUp
      <4>2. PICK j \in 1..Size(d) : NextTo(c, i, d, j)
        BY <4>1
      <4>3. /\ q = At(d, j)
            /\ prev_thy_path_inner(At(d, j), FALSE) = p
            /\ c < d \/ (c = d /\ i < j)
            /\ \A e \in 1..Chapters : \A k \in 1..Size(e) :
                 ~((c < e \/ (c = e /\ i < k)) /\ (e < d \/ (e = d /\ k < j)))
        BY <2>1, <2>4, <4>2, Zenon DEF NextTo
      <4>4. Before(p, q)
        BY <2>2, <2>4, <4>3, BeforeIs
      <4>5. q # p
        <5>1. SUFFICES ASSUME q = p PROVE FALSE
          OBVIOUS
        <5>2. c = d /\ i = j
          <6>1. At(c, i) = At(d, j)
            BY <2>4, <4>3, <5>1, Zenon
          <6> QED
            BY <2>2, <6>1, AtIsInjective
        <5>3. i \in Nat /\ c \in Nat
          OBVIOUS
        <5> QED
          BY <4>3, <5>2, <5>3
      <4>6. ASSUME NEW other \in Pages PROVE ~(Before(p, other) /\ Before(other, q))
        <5>1. PICK e \in 1..Chapters : \E k \in 1..Size(e) : other = At(e, k)
          BY <2>2, PagesAre
        <5>2. PICK k \in 1..Size(e) : other = At(e, k)
          BY <5>1
        <5>3. Before(p, other) <=> c < e \/ (c = e /\ i < k)
          BY <2>2, <2>4, <5>2, BeforeIs
        <5>4. Before(other, q) <=> e < d \/ (e = d /\ k < j)
          BY <2>2, <4>3, <5>2, BeforeIs
        <5> QED
          BY <4>3, <5>3, <5>4, Zenon
      <4>7. prev_thy_path_inner(q, FALSE) = p
        BY <4>3, Zenon
      <4>8. \E other \in Pages : Before(p, other)
        BY <2>6, <4>4
      <4> QED
        BY <4>4, <4>5, <4>6, <4>7, <4>8, Zenon
    <3>3. CASE ~(i < Size(c)) /\ ~(c < Chapters)
      <4>1. q = p
        BY <2>1, <2>2, <2>4, <3>1, <3>3, TheEnd, Zenon
      <4>2. ASSUME NEW other \in Pages PROVE ~Before(p, other)
        <5>1. PICK e \in 1..Chapters : \E k \in 1..Size(e) : other = At(e, k)
          BY <2>2, PagesAre
        <5>2. PICK k \in 1..Size(e) : other = At(e, k)
          BY <5>1
        <5>3. Before(p, other) <=> c < e \/ (c = e /\ i < k)
          BY <2>2, <2>4, <5>2, BeforeIs
        <5>4. ~(c < e \/ (c = e /\ i < k))
          BY <2>2, <3>1, <3>3, TheEnd
        <5> QED
          BY <5>3, <5>4, Zenon
      <4> QED
        BY <4>1, <4>2, Zenon
    <3> QED
      BY <3>2, <3>3, Zenon
  <2> QED
    BY <2>5, <2>6, <2>7, Zenon
<1> QED
  BY <1>1, TypeCorrect, PTL

-----------------------------------------------------------------------------
(* The smart arrows.                                                       *)

\* The stops of a chapter.
StopOf(c, j) == c > 6 /\ j \in Stops(Steps(c), TRUE)

\* What is interesting has the coordinates of a stop.
LEMMA InterestingIs ==
  ASSUME thy \in Theories, NEW p \in Interesting
  PROVE  \E c \in 7..Chapters : \E i \in 1..Size(c) : p = At(c, i) /\ StopOf(c, i)
<1>1. p \in Pages /\ p.kind = "proof"
      /\ \E i \in 1..Len(lemma_proof_paths(p.lemma)) :
           /\ lemma_proof_paths(p.lemma)[i].path = p.sub
           /\ is_interesting_method(lemma_proof_paths(p.lemma)[i].method)
  BY DEF Interesting, is_interesting_method
<1>2. PICK c \in 1..Chapters : \E i \in 1..Size(c) : p = At(c, i)
  BY <1>1, PagesAre
<1>3. PICK i \in 1..Size(c) : p = At(c, i)
  BY <1>2
<1>4. c > 6
  BY <1>1, <1>3, ChapterOf
<1>5. c \in 7..Chapters
  BY <1>4, SizeIs
<1>6. PICK l \in LemmaNames : l = thy.lemmas[c - 6]
  BY <1>5, ChapterIs
<1>7. PICK paths : paths = Steps(c) /\ paths = lemma_proof_paths(l)
  BY <1>6 DEF Steps
<1>8. At(c, i) = ProofPage(l, paths[i].path)
  BY <1>5, <1>6, <1>7, ChapterIs
<1>9. p.lemma = l /\ p.sub = paths[i].path
  BY <1>3, <1>8 DEF ProofPage
<1>10. PICK j \in 1..Len(paths) : paths[j].path = paths[i].path /\ is_interesting_method(paths[j].method)
  BY <1>1, <1>7, <1>9
<1>11. i \in 1..Len(paths)
  BY <1>5, <1>7, ChapterIs
<1>12. i = j
  BY <1>7, <1>10, <1>11, ListIs
<1>13. StopOf(c, i)
  BY <1>4, <1>7, <1>10, <1>12 DEF StopOf, Stops
<1> QED
  BY <1>3, <1>5, <1>13

\* The right smart arrow leads from (c, i) ahead to (e, k), at most to (d, j).
HopsTo(c, i, d, j, e, k) ==
  /\ next_thy_path_inner(At(c, i), TRUE) = At(e, k)
  /\ c < e \/ (c = e /\ i < k)
  /\ ~(d < e \/ (d = e /\ j < k))

\* The right smart arrow from any coordinates does not pass a stop.
LEMMA NextStop ==
  ASSUME thy \in Theories, NEW c \in 1..Chapters, NEW i \in 1..Size(c),
         NEW d \in 7..Chapters, NEW j \in 1..Size(d), StopOf(d, j),
         c < d \/ (c = d /\ i < j)
  PROVE  \E e \in 1..Chapters : \E k \in 1..Size(e) : HopsTo(c, i, d, j, e, k)
<1>1. Chapters \in Nat /\ Chapters >= 6 /\ Size(c) \in Nat \ {0}
  BY SizeIs
<1>2. c < Chapters => /\ c + 1 \in 1..Chapters /\ 1 \in 1..Size(c + 1) /\ c < c + 1
                      /\ c < d => ~(d < c + 1 \/ (d = c + 1 /\ j < 1))
  <2>1. c < Chapters => c + 1 \in 1..Chapters
    BY <1>1
  <2>2. c < Chapters => 1 \in 1..Size(c + 1)
    BY <2>1, SizeIs
  <2>3. j \in Nat /\ j >= 1
    BY SizeIs, ChapterIs
  <2> QED
    BY <1>1, <2>1, <2>2, <2>3
<1>3. PICK smart \in BOOLEAN : smart = TRUE
  OBVIOUS
<1>4. CASE c \in 1..6
  <2>1. c < d /\ c < Chapters
    BY <1>1, <1>4
  <2>2. i = 1
    BY <1>4, SizeIs
  <2>3. next_thy_path_inner(At(c, 1), smart) = At(c + 1, 1)
    BY <1>4, <2>1, NextOfFixed
  <2> QED
    BY <1>2, <1>3, <2>1, <2>2, <2>3 DEF HopsTo
<1>5. CASE c \in 7..Chapters
  <2>1. PICK l \in LemmaNames : l = thy.lemmas[c - 6]
    BY <1>5, ChapterIs
  <2>2. PICK paths : paths = Steps(c) /\ paths = lemma_proof_paths(l)
    BY <2>1 DEF Steps
  <2>3. Size(c) = Len(paths)
    BY <1>5, <2>2, ChapterIs
  <2>4. PICK k : k = next_element(Steps(c), Steps(c)[i].path, smart)
    OBVIOUS
  <2>5. next_thy_path_inner(At(c, i), smart) =
          IF k # 0 THEN At(c, k) ELSE IF c < Chapters THEN At(c + 1, 1) ELSE At(c, i)
    BY <1>5, <2>4, NextOfStep
  <2>6. PICK I : I = {m \in Stops(paths, smart) : m > i}
    OBVIOUS
  <2>7. k \in 0..Len(paths) /\ IsFirst(k, I)
    <3>1. k = next_element(paths, paths[i].path, smart)
      BY <2>2, <2>4, Zenon
    <3> QED
      BY <2>2, <2>3, <2>6, <3>1, NextStep
  <2>8. k # 0 => k \in 1..Size(c) /\ i < k
    BY <2>3, <2>6, <2>7 DEF IsFirst, Stops
  <2>9. c = d => k # 0 /\ k <= j
    <3>1. SUFFICES ASSUME c = d PROVE k # 0 /\ k <= j
      OBVIOUS
    <3>2. i < j
      BY <1>1, <3>1
    <3>3. j \in Stops(paths, smart)
      BY <1>3, <2>2, <3>1 DEF StopOf
    <3>4. j \in I
      BY <2>6, <3>2, <3>3
    <3>5. k \in I /\ k <= j
      BY <2>7, <3>4 DEF IsFirst
    <3> QED
      BY <2>3, <2>6, <3>5 DEF Stops
  <2>10. CASE k # 0
    <3>1. next_thy_path_inner(At(c, i), smart) = At(c, k)
      BY <2>5, <2>10
    <3>2. ~(d < c \/ (d = c /\ j < k))
      BY <1>1, <2>8, <2>9, <2>10
    <3> QED
      BY <1>3, <2>8, <2>10, <3>1, <3>2 DEF HopsTo
  <2>11. CASE k = 0
    <3>1. c < d /\ c < Chapters
      BY <1>1, <2>9, <2>11
    <3>2. next_thy_path_inner(At(c, i), smart) = At(c + 1, 1)
      BY <2>5, <2>11, <3>1
    <3> QED
      BY <1>2, <1>3, <3>1, <3>2 DEF HopsTo
  <2> QED
    BY <2>10, <2>11
<1>6. c \in 1..6 \/ c \in 7..Chapters
  BY <1>1
<1> QED
  BY <1>4, <1>5, <1>6, Zenon

\* The left smart arrow from any coordinates does not pass a stop.
LEMMA PrevStop ==
  ASSUME thy \in Theories, NEW c \in 1..Chapters, NEW i \in 1..Size(c),
         NEW d \in 7..Chapters, NEW j \in 1..Size(d), StopOf(d, j),
         d < c \/ (d = c /\ j < i)
  PROVE  \E e \in 1..Chapters : \E k \in 1..Size(e) :
           /\ prev_thy_path_inner(At(c, i), TRUE) = At(e, k)
           /\ ~(e < d \/ (e = d /\ k < j))
<1>1. Chapters \in Nat /\ Chapters >= 6 /\ Size(c) \in Nat \ {0}
  BY SizeIs
<1>2. c \in 7..Chapters
  BY <1>1
<1>3. PICK smart \in BOOLEAN : smart = TRUE
  OBVIOUS
<1>4. PICK l \in LemmaNames : l = thy.lemmas[c - 6]
  BY <1>2, ChapterIs
<1>5. PICK paths : paths = Steps(c) /\ paths = lemma_proof_paths(l)
  BY <1>4 DEF Steps
<1>6. Size(c) = Len(paths)
  BY <1>2, <1>5, ChapterIs
<1>7. PICK k : k = prev_element(Steps(c), Steps(c)[i].path, smart)
  OBVIOUS
<1>8. PICK b : b = c - 1
  OBVIOUS
<1>9. prev_thy_path_inner(At(c, i), smart) = IF k # 0 THEN At(c, k) ELSE At(b, Size(b))
  BY <1>2, <1>7, <1>8, PrevOfStep
<1>10. PICK I : I = {m \in Stops(paths, smart) : m < i}
  OBVIOUS
<1>11. k \in 0..Len(paths) /\ IsLast(k, I)
  <2>1. k = prev_element(paths, paths[i].path, smart)
    BY <1>5, <1>7, Zenon
  <2> QED
    BY <1>5, <1>6, <1>10, <2>1, PrevStep
<1>12. k # 0 => k \in 1..Size(c)
  BY <1>6, <1>10, <1>11 DEF IsLast, Stops
<1>13. c = d => k # 0 /\ j <= k
  <2>1. SUFFICES ASSUME c = d PROVE k # 0 /\ j <= k
    OBVIOUS
  <2>2. j < i
    BY <1>1, <2>1
  <2>3. j \in Stops(paths, smart)
    BY <1>3, <1>5, <2>1 DEF StopOf
  <2>4. j \in I
    BY <1>10, <2>2, <2>3
  <2>5. k \in I /\ j <= k
    BY <1>11, <2>4 DEF IsLast
  <2> QED
    BY <1>6, <1>10, <2>5 DEF Stops
<1>14. CASE k # 0
  <2>1. prev_thy_path_inner(At(c, i), smart) = At(c, k)
    BY <1>9, <1>14
  <2>2. ~(c < d \/ (c = d /\ k < j))
    BY <1>1, <1>12, <1>13, <1>14
  <2> QED
    BY <1>3, <1>12, <1>14, <2>1, <2>2
<1>15. CASE k = 0
  <2>1. d < c
    BY <1>13, <1>15
  <2>2. b \in 1..Chapters /\ b >= d
    BY <1>1, <1>8, <2>1
  <2>3. PICK n : n = Size(b)
    OBVIOUS
  <2>4. n \in Nat \ {0}
    BY <2>2, <2>3, SizeIs
  <2>5. b = d => j <= n
    BY <2>3, <2>4
  <2>6. n \in 1..Size(b) /\ ~(b < d \/ (b = d /\ n < j))
    BY <1>1, <2>2, <2>3, <2>4, <2>5
  <2>7. prev_thy_path_inner(At(c, i), smart) = At(b, n)
    BY <1>9, <1>15, <2>3
  <2> QED
    BY <1>3, <2>2, <2>6, <2>7
<1> QED
  BY <1>14, <1>15

\* The smart arrows never jump over a step that is open, solved or unfinishable,
\* in either direction and across lemmas.
THEOREM Smart == Spec => []SmartSkipsNothing
<1>1. TypeOK => SmartSkipsNothing
  <2>0. \A page1 : /\ next_theory_path(page1, "smart") = next_thy_path_inner(page1, TRUE)
                  /\ prev_theory_path(page1, "smart") = prev_thy_path_inner(page1, TRUE)
    BY DEF next_theory_path, prev_theory_path
  <2>1. SUFFICES ASSUME TypeOK, NEW p \in Pages, NEW step \in Interesting,
                        NEW q, q = next_thy_path_inner(p, TRUE),
                        NEW r, r = prev_thy_path_inner(p, TRUE)
                 PROVE  /\ Before(p, step) => q # p /\ ~Before(step, q)
                        /\ Before(step, p) => ~Before(r, step)
    BY <2>0, Zenon DEF SmartSkipsNothing
  <2>2. thy \in Theories
    BY <2>1 DEF TypeOK
  <2>3. PICK c \in 1..Chapters : \E i \in 1..Size(c) : p = At(c, i)
    BY <2>2, PagesAre
  <2>4. PICK i \in 1..Size(c) : p = At(c, i)
    BY <2>3
  <2>5. PICK d \in 7..Chapters : \E j \in 1..Size(d) : step = At(d, j) /\ StopOf(d, j)
    BY <2>2, InterestingIs
  <2>6. PICK j \in 1..Size(d) : step = At(d, j) /\ StopOf(d, j)
    BY <2>5
  <2>7. d \in 1..Chapters
    BY <2>2, SizeIs
  <2>8. ASSUME Before(p, step) PROVE q # p /\ ~Before(step, q)
    <3>1. c < d \/ (c = d /\ i < j)
      BY <2>2, <2>4, <2>6, <2>7, <2>8, BeforeIs
    <3>2. PICK e \in 1..Chapters : \E k \in 1..Size(e) : HopsTo(c, i, d, j, e, k)
      BY <2>2, <2>6, <3>1, NextStop
    <3>3. PICK k \in 1..Size(e) : HopsTo(c, i, d, j, e, k)
      BY <3>2
    <3>4. q = At(e, k)
      BY <2>1, <2>4, <3>3, Zenon DEF HopsTo
    <3>5. ~Before(step, q)
      <4>1. Before(At(d, j), At(e, k)) <=> d < e \/ (d = e /\ j < k)
        BY <2>2, <2>7, BeforeIs
      <4> QED
        BY <2>6, <3>3, <3>4, <4>1, Zenon DEF HopsTo
    <3>6. q # p
      <4>1. SUFFICES ASSUME At(c, i) = At(e, k) PROVE FALSE
        BY <2>4, <3>4
      <4>2. c = e /\ i = k
        BY <2>2, <4>1, AtIsInjective
      <4>3. c \in Nat /\ i \in Nat
        OBVIOUS
      <4> QED
        BY <3>3, <4>2, <4>3 DEF HopsTo
    <3> QED
      BY <3>5, <3>6
  <2>9. ASSUME Before(step, p) PROVE ~Before(r, step)
    <3>1. d < c \/ (d = c /\ j < i)
      BY <2>2, <2>4, <2>6, <2>7, <2>9, BeforeIs
    <3>2. PICK e \in 1..Chapters : \E k \in 1..Size(e) :
            /\ prev_thy_path_inner(At(c, i), TRUE) = At(e, k)
            /\ ~(e < d \/ (e = d /\ k < j))
      BY <2>2, <2>6, <3>1, PrevStop
    <3>3. PICK k \in 1..Size(e) : /\ prev_thy_path_inner(At(c, i), TRUE) = At(e, k)
                                  /\ ~(e < d \/ (e = d /\ k < j))
      BY <3>2
    <3>4. r = At(e, k)
      BY <2>1, <2>4, <3>3, Zenon
    <3>5. Before(At(e, k), At(d, j)) <=> e < d \/ (e = d /\ k < j)
      BY <2>2, <2>7, BeforeIs
    <3> QED
      BY <2>6, <3>3, <3>4, <3>5, Zenon
  <2> QED
    BY <2>8, <2>9, Zenon
<1> QED
  BY <1>1, TypeCorrect, PTL
=============================================================================
