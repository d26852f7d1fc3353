------------------------- MODULE ProofForks_proofs -------------------------
(***************************************************************************)
(* Proofs about ProofForks: an inductive invariant for any number of       *)
(* clients, lemmas and requests, and from it the types and                 *)
(* AssumptionsAreCurrent.                                                  *)
(*                                                                         *)
(* Two lemmas carry the actions.  QuietStep: where no slot is set, no tree *)
(* changes.  SlotStep: where one slot is set, and only roots that belong   *)
(* to it alone are written, no other tree changes.  They need to know who  *)
(* may refer to which root (RootsInv, DraftsInv), who holds which version  *)
(* (VersionsInv), and what each request has done so far (RequestsInv).     *)
(***************************************************************************)
EXTENDS ProofForks, FiniteSetTheorems, SequenceTheorems, WellFoundedInduction, TLAPS

-----------------------------------------------------------------------------
(* The inductive invariant.                                                *)

Slots == {Lazy} \cup [is : {"snapshot"}, tree : Trees] \cup [is : {"live"}, root : Roots]
ProofStates == [lemmas : SUBSET Lemmas, slot : [Lemmas -> Slots]]
Jobs == [kind : Kinds, src : 0..MaxOps + 1, mine : 0..MaxOps + 1, lemma : 0..N,
         below : BOOLEAN, todo : SUBSET Lemmas, kept : Slots, asm : SUBSET Lemmas]

Types ==
  /\ state \in [Versions -> ProofStates]
  /\ published \in SUBSET Versions
  /\ heap \in [Roots -> Trees]
  /\ started \in 0..MaxOps
  /\ pc \in [Clients -> Steps]
  /\ job \in [Clients -> Jobs]

\* Who holds which version: a draft is held by its request alone.
VersionsInv ==
  /\ \A s \in Alive : s \in 1..started + 1
  /\ \A s \in Versions \ Alive : state[s] = NoState
  /\ \A p \in Clients : HoldsOwn(p) =>
       /\ job[p].mine # 1 /\ job[p].mine \notin published
       /\ \A q \in Clients : HoldsSource(q) => job[q].src # job[p].mine
       /\ \A q \in Clients : q # p /\ HoldsOwn(q) => job[q].mine # job[p].mine

\* A root that some slot or some deletion refers to.
Held(r) ==
  \/ \E s \in Alive : \E l \in state[s].lemmas : state[s].slot[l] = Live(r)
  \/ \E p \in Clients : pc[p] = "carry" /\ job[p].kept = Live(r)

\* A root in use is held by the slot it is named after, as long as that is kept.
RootsInv ==
  \A r \in Roots : Held(r) =>
    /\ r[1] <= started + 1
    /\ r[1] \in Alive /\ r[2] \in state[r[1]].lemmas => state[r[1]].slot[r[2]] = Live(r)

\* Nobody else has root r than slot l of version s.
SoleOwner(r, s, l) ==
  /\ \A t \in Alive : \A k \in state[t].lemmas : <<t, k>> # <<s, l>> => state[t].slot[k] # Live(r)
  /\ \A q \in Clients : pc[q] = "carry" => job[q].kept # Live(r)

\* The roots named after a draft are its own.
Draft(m) == \E p \in Clients : HoldsOwn(p) /\ job[p].mine = m

DraftsInv == \A m \in Versions, l \in Lemmas : Draft(m) => SoleOwner(<<m, l>>, m, l)

\* What every tree that can be seen is like.
TreeOK(s, l, t) ==
  /\ t.asm = gather_reusable_lemmas(state[s].lemmas, l)
  /\ t.wrapped => t.steps # <<>>

TreesInv ==
  \A s \in Alive : \A l \in state[s].lemmas :
    /\ TreeOK(s, l, View(s, l))
    /\ state[s].slot[l].is # "live" => View(s, l) = replay_root(state[s].lemmas, l)

\* What a deletion of x makes of the tree of l.
AfterRemoval(x, l, t) ==
  IF x \in Reuse /\ x < l
    THEN [asm |-> t.asm \ {x}, steps |-> t.steps, wrapped |-> t.steps # <<>>]
    ELSE t

\* A fork: the lemmas still to be cloned have nothing yet, the others are as in the
\* source.
ForkInv(p, s, m) ==
  /\ state[m].lemmas = state[s].lemmas
  /\ job[p].lemma \in state[m].lemmas
  /\ job[p].todo # {} /\ job[p].todo \subseteq state[m].lemmas
  /\ \A l \in job[p].todo : state[m].slot[l] = Lazy
  /\ \A l \in state[m].lemmas \ job[p].todo : View(m, l) = View(s, l)

\* A deletion of x: so it is there, with the removal done.
RebaseInv(p, s, m, x) ==
  /\ x \in state[s].lemmas
  /\ state[m].lemmas = state[s].lemmas \ {x}
  /\ job[p].todo \subseteq state[m].lemmas
  /\ \A l \in job[p].todo : state[m].slot[l] = Lazy
  /\ \A l \in state[m].lemmas \ job[p].todo : View(m, l) = AfterRemoval(x, l, View(s, l))

\* The tree a deletion has in hand is the one to be seen, whatever became of the
\* slot it cloned.
InHand(p, s, n) ==
  IF job[p].kept.is = "live" THEN heap[job[p].kept.root] ELSE replay_root(state[s].lemmas, n)

CarryInv(p, s, x, n) ==
  /\ n \in invalidated(state[s].lemmas, x)
  /\ InHand(p, s, n) = View(s, n)

EditInv(p, m) == job[p].todo # {} /\ job[p].todo \subseteq state[m].lemmas

\* The selected system is of the tree that is there.
WriteInv(p, m, n) ==
  /\ state[m].slot[n].is = "live"
  /\ job[p].asm = View(m, n).asm
  /\ job[p].below => View(m, n).steps # <<>>

RequestAt(p, s, m, x) ==
  /\ pc[p] \in {"enter", "replay"} => x \in state[s].lemmas
  /\ pc[p] = "replay" =>
       /\ state[s].slot[x].is # "live"
       /\ \A q \in Clients : q # p /\ pc[q] = "replay" => job[q].src # s \/ job[q].lemma # x
  /\ pc[p] = "fork" => ForkInv(p, s, m)
  /\ pc[p] \in {"rebase", "carry"} => RebaseInv(p, s, m, x)
  /\ pc[p] = "carry" => job[p].todo # {} /\ \A n \in Lemmas : n = NextLemma(p) => CarryInv(p, s, x, n)
  /\ pc[p] \in EditSteps => EditInv(p, m)
  /\ pc[p] = "write" => \A n \in Lemmas : n = NextLemma(p) => WriteInv(p, m, n)

RequestInv(p) ==
  \A s, m \in 0..MaxOps + 1, x \in 0..N :
    s = job[p].src /\ m = job[p].mine /\ x = job[p].lemma => RequestAt(p, s, m, x)

RequestsInv == \A p \in Clients : RequestInv(p)

ForksInv == Types /\ VersionsInv /\ RootsInv /\ DraftsInv /\ TreesInv /\ RequestsInv

-----------------------------------------------------------------------------
(* Numbers, trees and slots.                                               *)

\* The constants, in the form the provers need.
LEMMA Numbers ==
  /\ N \in Nat /\ MaxOps \in Nat /\ Lemmas = 1..N /\ Versions = 1..MaxOps + 1
  /\ IsFiniteSet(Clients)
  /\ Requests \in Seq(SUBSET {"page", "node", "edit", "edit_all", "delete"})
  /\ DOMAIN Requests = 1..MaxOps
  BY ForksAssumption DEF MaxOps, Lemmas, Versions

\* The lemma a request goes on with is one of those it has to do.
LEMMA NextIn ==
  ASSUME Types, NEW p \in Clients, job[p].todo # {}
  PROVE  NextLemma(p) \in job[p].todo
<1>1. job[p].todo \in SUBSET Nat
  BY Numbers DEF Types, Jobs
<1>2. PICK n \in job[p].todo : \A m \in job[p].todo : ~(<<m, n>> \in OpToRel(<, Nat))
  BY <1>1, WFMin, NatLessThanWellFounded
<1>3. \A m \in job[p].todo : <<m, n>> \in Nat \X Nat /\ <<m, n>>[1] = m /\ <<m, n>>[2] = n
  BY <1>1
<1>4. \A m \in job[p].todo : ~(m < n)
  BY <1>2, <1>3 DEF OpToRel
<1>5. \A m \in job[p].todo : n <= m
  BY <1>1, <1>4
<1> QED
  BY <1>5 DEF NextLemma, Min

\* What nothing was done with is a tree of the type.
LEMMA ReplayType ==
  ASSUME NEW ls \in SUBSET Lemmas, NEW l \in Lemmas
  PROVE  /\ replay_root(ls, l) \in Trees
         /\ replay_root(ls, l).asm = gather_reusable_lemmas(ls, l)
         /\ ~replay_root(ls, l).wrapped
<1>1. gather_reusable_lemmas(ls, l) \in SUBSET Lemmas
  BY ForksAssumption DEF gather_reusable_lemmas, Lemmas
<1>2. <<0>> \in Seq(0..MaxOps) /\ <<>> \in Seq(0..MaxOps)
  BY Numbers
<1> QED
  BY <1>1, <1>2 DEF replay_root, Trees

\* A slot is one of three things.
LEMMA SlotKinds ==
  ASSUME NEW v \in Slots
  PROVE  /\ v.is \in {"lazy", "snapshot", "live"}
         /\ v.is = "lazy" => v = Lazy
         /\ v.is = "snapshot" => v.tree \in Trees /\ v = Snapshot(v.tree)
         /\ v.is = "live" => v.root \in Roots /\ v = Live(v.root)
  BY DEF Slots, Lazy, Snapshot, Live

\* The tree a slot shows, by the kind of the slot.
LEMMA ViewIs ==
  ASSUME NEW s, NEW l, state[s].slot[l] \in Slots
  PROVE  /\ state[s].slot[l].is = "live" => View(s, l) = heap[state[s].slot[l].root]
         /\ state[s].slot[l].is = "snapshot" => View(s, l) = state[s].slot[l].tree
         /\ state[s].slot[l].is = "lazy" => View(s, l) = replay_root(state[s].lemmas, l)
  BY SlotKinds DEF View

\* The same after a step.
LEMMA ViewIsNext ==
  ASSUME NEW s, NEW l, state'[s].slot[l] \in Slots
  PROVE  /\ state'[s].slot[l].is = "live" => View(s, l)' = heap'[state'[s].slot[l].root]
         /\ state'[s].slot[l].is = "snapshot" => View(s, l)' = state'[s].slot[l].tree
         /\ state'[s].slot[l].is = "lazy" => View(s, l)' = replay_root(state'[s].lemmas, l)
  BY SlotKinds DEF View

\* The types of a slot and of a session.
LEMMA SlotType ==
  ASSUME Types, NEW s \in Versions, NEW l \in Lemmas
  PROVE  state[s].slot[l] \in Slots /\ state[s].lemmas \in SUBSET Lemmas
  BY DEF Types, ProofStates

\* The tree a slot shows is a tree.
LEMMA ViewType ==
  ASSUME Types, NEW s \in Versions, NEW l \in Lemmas
  PROVE  View(s, l) \in Trees
  BY SlotType, ViewIs, SlotKinds, ReplayType DEF Types

-----------------------------------------------------------------------------
(* What is kept and what is dropped.                                       *)

\* The kept versions: the published ones, and those that requests hold.
LEMMA AliveAre ==
  ASSUME Types, VersionsInv
  PROVE  /\ Alive \subseteq Versions
         /\ published \subseteq Alive
         /\ \A p \in Clients : HoldsSource(p) => job[p].src \in Alive
         /\ \A p \in Clients : HoldsOwn(p) => job[p].mine \in Alive
<1>1. Alive \subseteq Versions
  BY Numbers DEF VersionsInv, Types
<1> QED
  BY <1>1 DEF Alive

\* A root that something refers to has an owner, so it is not dropped.
LEMMA HeldIsOwned ==
  ASSUME Types, VersionsInv, NEW r, Held(r)
  PROVE  Owners(r) # {}
<1>1. CASE \E s \in Alive : \E l \in state[s].lemmas : state[s].slot[l] = Live(r)
  <2>1. PICK s \in Alive : \E l \in state[s].lemmas : state[s].slot[l] = Live(r)
    BY <1>1
  <2>2. PICK l \in state[s].lemmas : state[s].slot[l] = Live(r)
    BY <2>1
  <2>3. l \in Lemmas
    BY AliveAre, SlotType DEF Types, ProofStates
  <2>4. <<s, l>> \in Alive \X Lemmas /\ <<s, l>>[1] = s /\ <<s, l>>[2] = l
    BY <2>3
  <2>5. <<s, l>> \in {o \in Alive \X Lemmas : o[2] \in state[o[1]].lemmas /\ state[o[1]].slot[o[2]] = Live(r)}
    BY <2>2, <2>4
  <2> QED
    BY <2>5 DEF Owners
<1>2. CASE \E p \in Clients : pc[p] = "carry" /\ job[p].kept = Live(r)
  BY <1>2 DEF Owners
<1> QED
  BY <1>1, <1>2 DEF Held

\* What a step leaves: the kept versions, and the roots somebody has.
LEMMA KeepFacts ==
  ASSUME Types', VersionsInv', NEW states, NEW trees, Keep(states, trees)
  PROVE  /\ \A s \in Alive' : state'[s] = states[s]
         /\ \A s \in Versions \ Alive' : state'[s] = NoState
         /\ \A r \in Roots : Held(r)' => heap'[r] = trees[r]
<1>1. Alive' \subseteq Versions
  BY Numbers DEF VersionsInv, Types
<1>2. ASSUME NEW r \in Roots, Held(r)' PROVE Owners(r)' # {}
  <2>1. CASE \E s \in Alive' : \E l \in state'[s].lemmas : state'[s].slot[l] = Live(r)
    <3>1. PICK s \in Alive' : \E l \in state'[s].lemmas : state'[s].slot[l] = Live(r)
      BY <2>1
    <3>2. PICK l \in state'[s].lemmas : state'[s].slot[l] = Live(r)
      BY <3>1
    <3>3. l \in Lemmas
      BY <1>1 DEF Types, ProofStates
    <3>4. <<s, l>> \in Alive' \X Lemmas /\ <<s, l>>[1] = s /\ <<s, l>>[2] = l
      BY <3>3
    <3>5. <<s, l>> \in {o \in Alive' \X Lemmas : o[2] \in state'[o[1]].lemmas /\ state'[o[1]].slot[o[2]] = Live(r)}
      BY <3>2, <3>4
    <3> QED
      BY <3>5 DEF Owners
  <2>2. CASE \E p \in Clients : pc'[p] = "carry" /\ job'[p].kept = Live(r)
    BY <2>2 DEF Owners
  <2> QED
    BY <1>2, <2>1, <2>2 DEF Held
<1> QED
  BY <1>1, <1>2 DEF Keep

\* Requests that let go of versions, and drafts that are published.
LEMMA VersionsStep ==
  ASSUME Types, Types', VersionsInv, started' = started, NEW states, NEW trees, Keep(states, trees),
         \A q \in Clients : HoldsOwn(q)' => HoldsOwn(q) /\ job'[q].mine = job[q].mine,
         \A q \in Clients : HoldsSource(q)' => HoldsSource(q) /\ job'[q].src = job[q].src,
         \A v \in published' : v \in Alive /\ \A q \in Clients : HoldsOwn(q)' => job[q].mine # v
  PROVE  Alive' \subseteq Alive /\ VersionsInv'
<1>1. Alive' \subseteq Alive
  BY DEF Alive
<1>2. \A s \in Alive' : s \in 1..started' + 1
  BY <1>1 DEF VersionsInv
<1>3. \A s \in Versions \ Alive' : state'[s] = NoState
  BY DEF Keep
<1> QED
  BY <1>1, <1>2, <1>3 DEF VersionsInv

\* Dropping what nobody keeps preserves the types.
LEMMA KeepTypes ==
  ASSUME NEW states \in [Versions -> ProofStates], NEW trees \in [Roots -> Trees], Keep(states, trees)
  PROVE  state' \in [Versions -> ProofStates] /\ heap' \in [Roots -> Trees]
<1>1. NoState \in ProofStates
  BY DEF NoState, ProofStates, Slots, Lazy
<1>2. NoTree \in Trees
  BY Numbers DEF NoTree, Trees
<1> QED
  BY <1>1, <1>2 DEF Keep

\* Setting one slot changes that slot only.
LEMMA WithSlotType ==
  ASSUME Types, NEW s \in Versions, NEW l \in Lemmas, NEW v \in Slots
  PROVE  /\ WithSlot(s, l, v) \in [Versions -> ProofStates]
         /\ WithSlot(s, l, v)[s].lemmas = state[s].lemmas
         /\ WithSlot(s, l, v)[s].slot[l] = v
         /\ \A k \in Lemmas : k # l => WithSlot(s, l, v)[s].slot[k] = state[s].slot[k]
         /\ \A t \in Versions : t # s => WithSlot(s, l, v)[t] = state[t]
<1>1. state[s] \in ProofStates
  BY DEF Types
<1>2. [state[s] EXCEPT !.slot[l] = v] \in ProofStates
  BY <1>1 DEF ProofStates
<1> QED
  BY <1>1, <1>2 DEF Types, WithSlot, ProofStates

-----------------------------------------------------------------------------
(* Steps that change no slot, and steps that change one.                   *)

\* Where all slots are as before, so are all trees.
LEMMA QuietStep ==
  ASSUME ForksInv, Types', VersionsInv', Alive' \subseteq Alive, started' = started, Keep(state, heap),
         \A q \in Clients : pc'[q] = "carry" /\ job'[q].kept.is = "live" => Held(job'[q].kept.root),
         \A m \in Versions : Draft(m)' =>
           Draft(m) /\ \A q \in Clients, l \in Lemmas : pc'[q] = "carry" => job'[q].kept # Live(<<m, l>>)
  PROVE  /\ \A s \in Alive' : state'[s] = state[s] /\ \A l \in state[s].lemmas : View(s, l)' = View(s, l)
         /\ \A q \in Clients : pc'[q] = "carry" /\ job'[q].kept.is = "live" =>
              heap'[job'[q].kept.root] = heap[job'[q].kept.root]
         /\ RootsInv' /\ DraftsInv' /\ TreesInv'
<1>1. /\ \A s \in Alive' : state'[s] = state[s]
      /\ \A r \in Roots : Held(r)' => heap'[r] = heap[r]
  BY KeepFacts
<1>2. \A s \in Alive' : s \in Versions /\ s \in Alive
  BY AliveAre DEF ForksInv
<1>3. ASSUME NEW r \in Roots, Held(r)' PROVE Held(r)
  <2>1. CASE \E s \in Alive' : \E l \in state'[s].lemmas : state'[s].slot[l] = Live(r)
    BY <1>1, <1>2, <2>1 DEF Held
  <2>2. CASE \E p \in Clients : pc'[p] = "carry" /\ job'[p].kept = Live(r)
    BY <2>2 DEF Live
  <2> QED
    BY <1>3, <2>1, <2>2 DEF Held
<1>4. ASSUME NEW s \in Alive', NEW l \in state[s].lemmas PROVE View(s, l)' = View(s, l)
  <2>1. l \in Lemmas /\ s \in Versions /\ state'[s] = state[s]
    <3>1. s \in Versions /\ state'[s] = state[s]
      BY <1>1, <1>2
    <3> QED
      BY <3>1 DEF ForksInv, Types, ProofStates
  <2>2. state[s].slot[l] \in Slots
    BY <2>1, SlotType DEF ForksInv
  <2>3. CASE state[s].slot[l].is = "live"
    <3>1. state[s].slot[l].root \in Roots /\ state[s].slot[l] = Live(state[s].slot[l].root)
      BY <2>2, <2>3, SlotKinds
    <3>2. Held(state[s].slot[l].root)'
      BY <2>1, <3>1 DEF Held
    <3>3. heap'[state[s].slot[l].root] = heap[state[s].slot[l].root]
      BY <1>1, <3>1, <3>2
    <3> QED
      BY <2>1, <2>2, <2>3, <3>3, ViewIs, ViewIsNext
  <2>4. CASE state[s].slot[l].is # "live"
    BY <2>1, <2>2, <2>4, ViewIs, ViewIsNext, SlotKinds
  <2> QED
    BY <2>3, <2>4
<1>5. ASSUME NEW q \in Clients, pc'[q] = "carry", job'[q].kept.is = "live"
      PROVE  heap'[job'[q].kept.root] = heap[job'[q].kept.root]
  <2>1. job'[q].kept \in Slots
    BY DEF Types, Jobs
  <2>2. PICK r \in Roots : job'[q].kept = Live(r) /\ job'[q].kept.root = r
    BY <1>5, <2>1, SlotKinds
  <2>3. Held(r)'
    BY <1>5, <2>2 DEF Held
  <2> QED
    BY <1>1, <2>2, <2>3
<1>6. RootsInv'
  BY <1>1, <1>2, <1>3 DEF RootsInv, ForksInv
<1>7. TreesInv'
  BY <1>1, <1>2, <1>4 DEF TreesInv, TreeOK, ForksInv
<1>8. DraftsInv'
  <2> SUFFICES ASSUME NEW m \in Versions, NEW k \in Lemmas, Draft(m)' PROVE SoleOwner(<<m, k>>, m, k)'
    BY DEF DraftsInv
  <2>1. SoleOwner(<<m, k>>, m, k)
    BY DEF DraftsInv, ForksInv
  <2>2. ASSUME NEW u \in Alive', NEW i \in state'[u].lemmas, <<u, i>> # <<m, k>> PROVE state'[u].slot[i] # Live(<<m, k>>)
    BY <1>1, <1>2, <2>1, <2>2 DEF SoleOwner
  <2>3. \A q \in Clients : pc'[q] = "carry" => job'[q].kept # Live(<<m, k>>)
    OBVIOUS
  <2> QED
    BY <2>2, <2>3 DEF SoleOwner
<1> QED
  BY <1>1, <1>4, <1>5, <1>6, <1>7, <1>8

\* Slot l of version s becomes v and shows tree t: all other trees stay as they are.
LEMMA SlotStep ==
  ASSUME ForksInv, Types', VersionsInv', Alive' \subseteq Alive, started' = started,
         NEW s \in Alive, NEW l \in state[s].lemmas, NEW v \in Slots, NEW t, NEW trees,
         Keep(WithSlot(s, l, v), trees),
         \A r \in Roots : trees[r] = heap[r] \/ SoleOwner(r, s, l),
         \A q \in Clients : pc'[q] = "carry" => pc[q] = "carry" /\ job'[q].kept = job[q].kept,
         v.is = "live" => trees[v.root] = t /\ (Held(v.root) \/ v.root = <<s, l>>),
         v.is # "live" => t = replay_root(state[s].lemmas, l),
         v.is = "snapshot" => v.tree = t,
         state[s].slot[l] = Live(<<s, l>>) => v = Live(<<s, l>>),
         \A m \in Versions : Draft(m)' =>
           Draft(m) /\ \A k \in Lemmas : <<m, k>> # <<s, l>> => v # Live(<<m, k>>),
         TreeOK(s, l, t)
  PROVE  /\ \A u \in Alive' : state'[u] = WithSlot(s, l, v)[u] /\ state'[u].lemmas = state[u].lemmas
         /\ \A u \in Alive' : \A k \in state[u].lemmas : <<u, k>> # <<s, l>> =>
              View(u, k)' = View(u, k) /\ state'[u].slot[k] = state[u].slot[k]
         /\ s \in Alive' => View(s, l)' = t /\ state'[s].slot[l] = v
         /\ \A q \in Clients : pc'[q] = "carry" /\ job'[q].kept.is = "live" =>
              heap'[job'[q].kept.root] = heap[job'[q].kept.root]
         /\ RootsInv' /\ DraftsInv' /\ TreesInv'
<1>1. /\ \A u \in Alive' : state'[u] = WithSlot(s, l, v)[u]
      /\ \A r \in Roots : Held(r)' => heap'[r] = trees[r]
  BY KeepFacts
<1>2. \A u \in Alive' : u \in Versions /\ u \in Alive
  BY AliveAre DEF ForksInv
<1>3. s \in Versions /\ l \in Lemmas /\ \A u \in Alive : state[u].lemmas \subseteq Lemmas
  BY AliveAre DEF ForksInv, Types, ProofStates
<1>4. /\ WithSlot(s, l, v)[s].lemmas = state[s].lemmas
      /\ WithSlot(s, l, v)[s].slot[l] = v
      /\ \A k \in Lemmas : k # l => WithSlot(s, l, v)[s].slot[k] = state[s].slot[k]
      /\ \A u \in Versions : u # s => WithSlot(s, l, v)[u] = state[u]
  BY <1>3, WithSlotType DEF ForksInv
<1>5. \A u \in Alive' : state'[u].lemmas = state[u].lemmas
  BY <1>1, <1>2, <1>4
<1>6. \A u \in Alive' : \A k \in state[u].lemmas : <<u, k>> # <<s, l>> => state'[u].slot[k] = state[u].slot[k]
  BY <1>1, <1>2, <1>3, <1>4
<1>7. s \in Alive' => state'[s].slot[l] = v
  BY <1>1, <1>4
<1>8. ASSUME NEW r \in Roots, Held(r)' PROVE Held(r) \/ (v = Live(r) /\ s \in Alive')
  <2>1. CASE \E u \in Alive' : \E k \in state'[u].lemmas : state'[u].slot[k] = Live(r)
    <3>1. PICK u \in Alive' : \E k \in state'[u].lemmas : state'[u].slot[k] = Live(r)
      BY <2>1
    <3>2. PICK k \in state[u].lemmas : state'[u].slot[k] = Live(r)
      BY <1>5, <3>1
    <3>3. CASE <<u, k>> = <<s, l>>
      BY <1>7, <3>2, <3>3
    <3>4. CASE <<u, k>> # <<s, l>>
      BY <1>2, <1>6, <3>2, <3>4 DEF Held
    <3> QED
      BY <3>3, <3>4
  <2>2. CASE \E p \in Clients : pc'[p] = "carry" /\ job'[p].kept = Live(r)
    BY <2>2 DEF Held, Live
  <2> QED
    BY <1>8, <2>1, <2>2 DEF Held
<1>9. ASSUME NEW u \in Alive', NEW k \in state[u].lemmas, <<u, k>> # <<s, l>> PROVE View(u, k)' = View(u, k)
  <2>1. k \in Lemmas /\ u \in Versions /\ u \in Alive /\ state'[u].slot[k] = state[u].slot[k] /\ state'[u].lemmas = state[u].lemmas
    BY <1>2, <1>3, <1>5, <1>6, <1>9
  <2>2. state[u].slot[k] \in Slots
    BY <2>1, SlotType DEF ForksInv
  <2>3. CASE state[u].slot[k].is = "live"
    <3>1. PICK r \in Roots : state[u].slot[k].root = r /\ state[u].slot[k] = Live(r)
      BY <2>2, <2>3, SlotKinds
    <3>2. Held(r)'
      BY <2>1, <3>1 DEF Held
    <3>3. trees[r] = heap[r]
      BY <1>9, <2>1, <3>1 DEF SoleOwner
    <3>4. heap'[r] = heap[r]
      BY <1>1, <3>2, <3>3
    <3> QED
      BY <2>1, <2>2, <2>3, <3>1, <3>4, ViewIs, ViewIsNext
  <2>4. CASE state[u].slot[k].is # "live"
    BY <2>1, <2>2, <2>4, ViewIs, ViewIsNext, SlotKinds
  <2> QED
    BY <2>3, <2>4
<1>10. ASSUME s \in Alive' PROVE View(s, l)' = t
  <2>1. state'[s].slot[l] = v /\ state'[s].lemmas = state[s].lemmas
    BY <1>5, <1>7, <1>10
  <2>2. CASE v.is = "live"
    <3>1. PICK r \in Roots : v.root = r /\ v = Live(r)
      BY <2>2, SlotKinds
    <3>2. Held(r)'
      BY <1>10, <2>1, <3>1 DEF Held
    <3> QED
      BY <1>1, <2>1, <2>2, <3>1, <3>2, ViewIsNext
  <2>3. CASE v.is # "live"
    BY <2>1, <2>3, ViewIsNext, SlotKinds
  <2> QED
    BY <2>2, <2>3
<1>11. ASSUME NEW q \in Clients, pc'[q] = "carry", job'[q].kept.is = "live"
      PROVE  heap'[job'[q].kept.root] = heap[job'[q].kept.root]
  <2>1. job'[q].kept \in Slots
    BY DEF Types, Jobs
  <2>2. PICK r \in Roots : job'[q].kept = Live(r) /\ job'[q].kept.root = r
    BY <1>11, <2>1, SlotKinds
  <2>3. Held(r)'
    BY <1>11, <2>2 DEF Held
  <2>4. trees[r] = heap[r]
    BY <1>11, <2>2 DEF SoleOwner
  <2> QED
    BY <1>1, <2>2, <2>3, <2>4
<1>12. RootsInv'
  <2> SUFFICES ASSUME NEW r \in Roots, Held(r)'
               PROVE  /\ r[1] <= started' + 1
                      /\ r[1] \in Alive' /\ r[2] \in state'[r[1]].lemmas => state'[r[1]].slot[r[2]] = Live(r)
    BY DEF RootsInv
  <2>1. r = <<r[1], r[2]>>
    BY DEF Roots
  <2>2. CASE r = <<s, l>>
    <3>1. s <= started' + 1
      BY Numbers DEF ForksInv, VersionsInv, Types
    <3>2. r[1] = s /\ r[2] = l
      BY <2>2
    <3>3. ASSUME s \in Alive' PROVE v = Live(r)
      <4>1. CASE v = Live(r)
        BY <4>1
      <4>2. CASE Held(r)
        <5>1. state[s].slot[l] = Live(r)
          BY <3>2, <4>2 DEF RootsInv, ForksInv
        <5> QED
          BY <2>2, <5>1
      <4> QED
        BY <1>8, <4>1, <4>2
    <3> QED
      BY <1>7, <3>1, <3>2, <3>3
  <2>3. CASE r # <<s, l>>
    <3>1. Held(r)
      <4>1. v = Live(r) => v.is = "live" /\ v.root = r
        BY DEF Live
      <4> QED
        BY <1>8, <2>3, <4>1
    <3>2. r[1] <= started + 1 /\ (r[1] \in Alive /\ r[2] \in state[r[1]].lemmas => state[r[1]].slot[r[2]] = Live(r))
      BY <3>1 DEF RootsInv, ForksInv
    <3>3. <<r[1], r[2]>> # <<s, l>>
      BY <2>1, <2>3
    <3> QED
      BY <1>2, <1>5, <1>6, <3>2, <3>3
  <2> QED
    BY <2>2, <2>3
<1>13. TreesInv'
  <2> SUFFICES ASSUME NEW u \in Alive', NEW k \in state[u].lemmas
               PROVE  /\ TreeOK(u, k, View(u, k))'
                      /\ state'[u].slot[k].is # "live" => View(u, k)' = replay_root(state'[u].lemmas, k)
    BY <1>5 DEF TreesInv
  <2>1. CASE <<u, k>> = <<s, l>>
    BY <1>5, <1>7, <1>10, <2>1 DEF TreeOK
  <2>2. CASE <<u, k>> # <<s, l>>
    BY <1>2, <1>5, <1>6, <1>9, <2>2 DEF TreeOK, TreesInv, ForksInv
  <2> QED
    BY <2>1, <2>2
<1>14. DraftsInv'
  <2> SUFFICES ASSUME NEW m \in Versions, NEW k \in Lemmas, Draft(m)' PROVE SoleOwner(<<m, k>>, m, k)'
    BY DEF DraftsInv
  <2>1. SoleOwner(<<m, k>>, m, k)
    BY DEF DraftsInv, ForksInv
  <2>2. ASSUME NEW u \in Alive', NEW i \in state'[u].lemmas, <<u, i>> # <<m, k>> PROVE state'[u].slot[i] # Live(<<m, k>>)
    <3>1. CASE <<u, i>> = <<s, l>>
      BY <1>7, <2>2, <3>1
    <3>2. CASE <<u, i>> # <<s, l>>
      BY <1>2, <1>5, <1>6, <2>1, <2>2, <3>2 DEF SoleOwner
    <3> QED
      BY <3>1, <3>2
  <2>3. \A q \in Clients : pc'[q] = "carry" => job'[q].kept # Live(<<m, k>>)
    BY <2>1 DEF SoleOwner
  <2> QED
    BY <2>2, <2>3 DEF SoleOwner
<1> QED
  BY <1>1, <1>5, <1>6, <1>7, <1>9, <1>10, <1>11, <1>12, <1>13, <1>14

-----------------------------------------------------------------------------
(* The other requests.                                                     *)

\* What a request holds is there.
LEMMA HeldVersions ==
  ASSUME Types, VersionsInv, NEW q \in Clients
  PROVE  /\ HoldsSource(q) => job[q].src \in Alive /\ job[q].src \in Versions
         /\ HoldsOwn(q) => job[q].mine \in Alive /\ job[q].mine \in Versions
  BY AliveAre

\* What a request is about, and what holds of it.
LEMMA Request ==
  ASSUME ForksInv, NEW p \in Clients
  PROVE  \E s, m \in 0..MaxOps + 1, x \in 0..N :
           /\ s = job[p].src /\ m = job[p].mine /\ x = job[p].lemma /\ RequestAt(p, s, m, x)
           /\ HoldsSource(p) => s \in Alive /\ s \in Versions
           /\ HoldsOwn(p) => m \in Alive /\ m \in Versions /\ (HoldsSource(p) => s # m)
<1>1. job[p].src \in 0..MaxOps + 1 /\ job[p].mine \in 0..MaxOps + 1 /\ job[p].lemma \in 0..N
  BY DEF ForksInv, Types, Jobs
<1>2. RequestAt(p, job[p].src, job[p].mine, job[p].lemma)
  BY <1>1 DEF ForksInv, RequestsInv, RequestInv
<1>3. HoldsSource(p) => job[p].src \in Alive /\ job[p].src \in Versions
  BY HeldVersions DEF ForksInv
<1>4. HoldsOwn(p) => job[p].mine \in Alive /\ job[p].mine \in Versions /\ (HoldsSource(p) => job[p].src # job[p].mine)
  BY HeldVersions DEF ForksInv, VersionsInv
<1> QED
  BY <1>1, <1>2, <1>3, <1>4

\* After a step of p the versions are as before, but for its own draft, ...
Still(p) ==
  /\ Alive' \subseteq Alive
  /\ \A u \in Alive' : state'[u].lemmas = state[u].lemmas
  /\ \A u \in Alive' : \A k \in state[u].lemmas :
       (HoldsOwn(p) /\ u = job[p].mine) \/ View(u, k)' = View(u, k)

\* ... and the slots, too, but for the one where it replays.
SlotsStill(p) ==
  \A u \in Alive' : \A k \in state[u].lemmas :
    \/ HoldsOwn(p) /\ u = job[p].mine
    \/ pc[p] = "replay" /\ u = job[p].src /\ k = job[p].lemma
    \/ state'[u].slot[k] = state[u].slot[k]

\* After a step that shows nothing new.
AllStill ==
  \A u \in Alive' : u \in Alive /\ state'[u].lemmas = state[u].lemmas /\ \A k \in state[u].lemmas : View(u, k)' = View(u, k)

\* A request goes on as long as nobody disturbs what it holds.
LEMMA RequestKeeps ==
  ASSUME ForksInv, NEW q \in Clients, pc'[q] = pc[q], job'[q] = job[q],
         \A t \in Alive' : HoldsSource(q) /\ t = job[q].src =>
           state'[t].lemmas = state[t].lemmas /\ \A k \in state[t].lemmas : View(t, k)' = View(t, k),
         \A m \in Alive' : HoldsOwn(q) /\ m = job[q].mine =>
           /\ state'[m].lemmas = state[m].lemmas
           /\ \A k \in state[m].lemmas : View(m, k)' = View(m, k) /\ state'[m].slot[k] = state[m].slot[k],
         \A t \in Alive' : pc[q] = "replay" /\ t = job[q].src =>
           \A k \in state[t].lemmas : k = job[q].lemma => state'[t].slot[k] = state[t].slot[k],
         \A r \in Clients : pc[q] = "replay" /\ r # q /\ pc'[r] = "replay" =>
           job'[r].src # job[q].src \/ job'[r].lemma # job[q].lemma,
         pc[q] = "carry" /\ job[q].kept.is = "live" => heap'[job[q].kept.root] = heap[job[q].kept.root]
  PROVE  RequestInv(q)'
<1> SUFFICES ASSUME NEW t \in 0..MaxOps + 1, NEW m \in 0..MaxOps + 1, NEW x \in 0..N,
                    t = job'[q].src, m = job'[q].mine, x = job'[q].lemma
             PROVE  RequestAt(q, t, m, x)'
  BY DEF RequestInv
<1>1. pc'[q] = pc[q] /\ job'[q] = job[q] /\ t = job[q].src /\ m = job[q].mine /\ x = job[q].lemma
  OBVIOUS
<1>2. RequestAt(q, t, m, x)
  BY <1>1 DEF ForksInv, RequestsInv, RequestInv
<1>3. HoldsSource(q) => t \in Alive'
  BY <1>1 DEF HoldsSource, Alive
<1>4. HoldsOwn(q) => m \in Alive'
  BY <1>1 DEF HoldsOwn, Alive
<1>5. HoldsSource(q) => /\ state'[t].lemmas = state[t].lemmas
                        /\ \A k \in state[t].lemmas : View(t, k)' = View(t, k)
  BY <1>1, <1>3
<1>6. HoldsOwn(q) => /\ state'[m].lemmas = state[m].lemmas
                     /\ \A k \in state[m].lemmas : View(m, k)' = View(m, k) /\ state'[m].slot[k] = state[m].slot[k]
  BY <1>1, <1>4
<1>7. pc[q] \in {"enter", "replay"} => x \in state'[t].lemmas
  BY <1>2, <1>5 DEF RequestAt, HoldsSource
<1>8. pc[q] = "replay" =>
       /\ state'[t].slot[x].is # "live"
       /\ \A r \in Clients : r # q /\ pc'[r] = "replay" => job'[r].src # t \/ job'[r].lemma # x
  <2> SUFFICES ASSUME pc[q] = "replay"
               PROVE  /\ state'[t].slot[x].is # "live"
                      /\ \A r \in Clients : r # q /\ pc'[r] = "replay" => job'[r].src # t \/ job'[r].lemma # x
    OBVIOUS
  <2>1. HoldsSource(q) /\ x \in state[t].lemmas /\ state[t].slot[x].is # "live"
    BY <1>2 DEF RequestAt, HoldsSource
  <2>2. state'[t].slot[x] = state[t].slot[x]
    BY <1>1, <1>3, <2>1
  <2> QED
    BY <1>1, <2>1, <2>2
<1>9. pc[q] = "fork" => ForkInv(q, t, m)'
  <2> SUFFICES ASSUME pc[q] = "fork" PROVE ForkInv(q, t, m)'
    OBVIOUS
  <2>1. HoldsSource(q) /\ HoldsOwn(q) /\ ForkInv(q, t, m)
    BY <1>2 DEF RequestAt, HoldsSource, HoldsOwn, ForkSteps
  <2> QED
    BY <1>1, <1>5, <1>6, <2>1 DEF ForkInv
<1>10. pc[q] \in {"rebase", "carry"} => RebaseInv(q, t, m, x)'
  <2> SUFFICES ASSUME pc[q] \in {"rebase", "carry"} PROVE RebaseInv(q, t, m, x)'
    OBVIOUS
  <2>1. HoldsSource(q) /\ HoldsOwn(q) /\ RebaseInv(q, t, m, x)
    BY <1>2 DEF RequestAt, HoldsSource, HoldsOwn, ForkSteps
  <2>2. \A k \in state[m].lemmas : k \in state[t].lemmas
    BY <2>1 DEF RebaseInv
  <2> QED
    BY <1>1, <1>5, <1>6, <2>1, <2>2 DEF RebaseInv
<1>11. pc[q] = "carry" => job'[q].todo # {}
  BY <1>1, <1>2 DEF RequestAt
<1>12. ASSUME pc[q] = "carry", NEW n \in Lemmas, n = NextLemma(q)' PROVE CarryInv(q, t, x, n)'
  <2>1. n = NextLemma(q)
    BY <1>1, <1>12 DEF NextLemma
  <2>2. HoldsSource(q) /\ HoldsOwn(q) /\ CarryInv(q, t, x, n)
    BY <1>2, <1>12, <2>1 DEF RequestAt, HoldsSource, HoldsOwn, ForkSteps
  <2>3. n \in state[t].lemmas
    BY <2>2 DEF CarryInv, invalidated
  <2>4. InHand(q, t, n)' = InHand(q, t, n)
    BY <1>1, <1>5, <1>12, <2>2 DEF InHand
  <2> QED
    BY <1>1, <1>5, <2>2, <2>3, <2>4 DEF CarryInv
<1>13. pc[q] \in EditSteps => EditInv(q, m)'
  BY <1>1, <1>2, <1>6 DEF RequestAt, EditInv, HoldsOwn
<1>14. ASSUME pc[q] = "write", NEW n \in Lemmas, n = NextLemma(q)' PROVE WriteInv(q, m, n)'
  <2>1. n = NextLemma(q)
    BY <1>1, <1>14 DEF NextLemma
  <2>2. HoldsOwn(q) /\ EditInv(q, m) /\ WriteInv(q, m, n)
    BY <1>2, <1>14, <2>1 DEF RequestAt, HoldsOwn, EditSteps
  <2>3. n \in state[m].lemmas
    BY <1>1, <2>1, <2>2, NextIn DEF EditInv, ForksInv
  <2> QED
    BY <1>1, <1>6, <2>2, <2>3 DEF WriteInv
<1> QED
  BY <1>1, <1>7, <1>8, <1>9, <1>10, <1>11, <1>12, <1>13, <1>14 DEF RequestAt

\* A step of p disturbs nobody else.
LEMMA OthersKeep ==
  ASSUME ForksInv, NEW p \in Clients, Still(p), SlotsStill(p),
         \A q \in Clients : q # p => pc'[q] = pc[q] /\ job'[q] = job[q],
         \A q \in Clients : pc'[q] = "carry" /\ job'[q].kept.is = "live" =>
           heap'[job'[q].kept.root] = heap[job'[q].kept.root],
         pc'[p] = "replay" =>
           \A q \in Clients : q # p /\ pc[q] = "replay" => job[q].src # job'[p].src \/ job[q].lemma # job'[p].lemma
  PROVE  \A q \in Clients : q # p => RequestInv(q)'
<1> SUFFICES ASSUME NEW q \in Clients, q # p PROVE RequestInv(q)'
  OBVIOUS
<1>1. pc'[q] = pc[q] /\ job'[q] = job[q]
  OBVIOUS
<1>2. HoldsSource(q) /\ HoldsOwn(p) => job[q].src # job[p].mine
  BY DEF ForksInv, VersionsInv
<1>3. HoldsOwn(q) => (HoldsOwn(p) => job[q].mine # job[p].mine) /\ (pc[p] = "replay" => job[q].mine # job[p].src)
  BY DEF ForksInv, VersionsInv, HoldsSource
<1>4. \A t \in Alive' : HoldsSource(q) /\ t = job[q].src =>
        state'[t].lemmas = state[t].lemmas /\ \A k \in state[t].lemmas : View(t, k)' = View(t, k)
  BY <1>2 DEF Still
<1>5. \A m \in Alive' : HoldsOwn(q) /\ m = job[q].mine =>
        /\ state'[m].lemmas = state[m].lemmas
        /\ \A k \in state[m].lemmas : View(m, k)' = View(m, k) /\ state'[m].slot[k] = state[m].slot[k]
  BY <1>3 DEF Still, SlotsStill
<1>6. ASSUME NEW t \in Alive', pc[q] = "replay", t = job[q].src, NEW k \in state[t].lemmas, k = job[q].lemma
      PROVE  state'[t].slot[k] = state[t].slot[k]
  <2>1. HoldsSource(q) /\ ~(pc[p] = "replay" /\ t = job[p].src /\ k = job[p].lemma)
    BY <1>6, Request DEF RequestAt, HoldsSource
  <2> QED
    BY <1>2, <1>6, <2>1 DEF SlotsStill
<1>7. ASSUME pc[q] = "replay", NEW r \in Clients, r # q, pc'[r] = "replay"
      PROVE  job'[r].src # job[q].src \/ job'[r].lemma # job[q].lemma
  <2>1. CASE r = p
    BY <1>7, <2>1
  <2>2. CASE r # p
    <3>1. pc[r] = "replay" /\ job'[r] = job[r]
      BY <1>7, <2>2
    <3> QED
      BY <1>7, <3>1, Request DEF RequestAt
  <2> QED
    BY <2>1, <2>2
<1> QED
  BY <1>1, <1>4, <1>5, <1>6, <1>7, RequestKeeps

-----------------------------------------------------------------------------
(* The step of one request, up to what holds of that request itself.       *)

\* Request p goes on with step and j, holding nothing that it did not hold.
GoesOn(p, step, j) ==
  /\ pc' = [pc EXCEPT ![p] = step]
  /\ job' = [job EXCEPT ![p] = j]
  /\ started' = started
  /\ step \in ForkSteps \cup EditSteps \cup {"publish"} => HoldsOwn(p) /\ j.mine = job[p].mine
  /\ step \in ForkSteps \cup {"enter", "replay"} => HoldsSource(p) /\ j.src = job[p].src

\* Who holds what after it.
LEMMA HoldsAfter ==
  ASSUME ForksInv, NEW p \in Clients, NEW step \in Steps, NEW j \in Jobs, GoesOn(p, step, j)
  PROVE  /\ pc'[p] = step /\ job'[p] = j
         /\ \A q \in Clients : q # p => pc'[q] = pc[q] /\ job'[q] = job[q]
         /\ pc' \in [Clients -> Steps] /\ job' \in [Clients -> Jobs] /\ started' \in 0..MaxOps
         /\ \A q \in Clients : HoldsOwn(q)' => HoldsOwn(q) /\ job'[q].mine = job[q].mine
         /\ \A q \in Clients : HoldsSource(q)' => HoldsSource(q) /\ job'[q].src = job[q].src
<1>1. /\ pc'[p] = step /\ job'[p] = j
      /\ \A q \in Clients : q # p => pc'[q] = pc[q] /\ job'[q] = job[q]
      /\ pc' \in [Clients -> Steps] /\ job' \in [Clients -> Jobs] /\ started' \in 0..MaxOps
  BY DEF GoesOn, ForksInv, Types
<1> QED
  BY <1>1 DEF GoesOn, HoldsOwn, HoldsSource

\* A step that sets no slot preserves all but the invariant of its own request.
LEMMA QuietAction ==
  ASSUME ForksInv, NEW p \in Clients, NEW step \in Steps, NEW j \in Jobs, GoesOn(p, step, j),
         Keep(state, heap),
         \/ published' = published
         \/ published' = published \cup {job[p].mine} /\ HoldsOwn(p) /\ step = "idle",
         step = "carry" /\ j.kept.is = "live" => Held(j.kept.root),
         step = "carry" => \A m \in Versions, l \in Lemmas : Draft(m) => j.kept # Live(<<m, l>>),
         step = "replay" =>
           \A q \in Clients : q # p /\ pc[q] = "replay" => job[q].src # j.src \/ job[q].lemma # j.lemma
  PROVE  /\ Types' /\ VersionsInv' /\ RootsInv' /\ DraftsInv' /\ TreesInv' /\ Still(p)
         /\ \A u \in Alive' : state'[u] = state[u] /\ \A k \in state[u].lemmas : View(u, k)' = View(u, k)
         /\ \A q \in Clients : pc'[q] = "carry" /\ job'[q].kept.is = "live" =>
              heap'[job'[q].kept.root] = heap[job'[q].kept.root]
         /\ \A q \in Clients : q # p => RequestInv(q)'
<1>1. /\ pc'[p] = step /\ job'[p] = j
      /\ \A q \in Clients : q # p => pc'[q] = pc[q] /\ job'[q] = job[q]
      /\ \A q \in Clients : HoldsOwn(q)' => HoldsOwn(q) /\ job'[q].mine = job[q].mine
      /\ \A q \in Clients : HoldsSource(q)' => HoldsSource(q) /\ job'[q].src = job[q].src
  BY HoldsAfter
<1>2. Types'
  <2>1. HoldsOwn(p) => job[p].mine \in Versions
    BY HeldVersions DEF ForksInv
  <2>2. published' \in SUBSET Versions
    BY <2>1 DEF ForksInv, Types
  <2> QED
    BY <2>2, HoldsAfter, KeepTypes DEF ForksInv, Types
<1>3. \A v \in published' : v \in Alive /\ \A q \in Clients : HoldsOwn(q)' => job[q].mine # v
  <2>1. ASSUME NEW v \in published' PROVE v \in Alive
    BY AliveAre DEF ForksInv
  <2>2. ASSUME NEW v \in published', NEW q \in Clients, HoldsOwn(q)' PROVE job[q].mine # v
    <3>1. CASE v \in published
      BY <1>1, <2>2, <3>1 DEF ForksInv, VersionsInv
    <3>2. CASE v = job[p].mine /\ HoldsOwn(p) /\ step = "idle"
      <4>1. q # p
        BY <1>1, <2>2, <3>2 DEF HoldsOwn, ForkSteps, EditSteps
      <4> QED
        BY <1>1, <2>2, <3>2, <4>1 DEF ForksInv, VersionsInv
    <3> QED
      BY <2>2, <3>1, <3>2
  <2> QED
    BY <2>1, <2>2
<1>4. Alive' \subseteq Alive /\ VersionsInv'
  BY <1>1, <1>2, <1>3, VersionsStep DEF ForksInv, GoesOn
<1>5. \A q \in Clients : pc'[q] = "carry" /\ job'[q].kept.is = "live" => Held(job'[q].kept.root)
  <2> SUFFICES ASSUME NEW q \in Clients, pc'[q] = "carry", job'[q].kept.is = "live"
               PROVE  Held(job'[q].kept.root)
    OBVIOUS
  <2>1. CASE q = p
    BY <1>1, <2>1
  <2>2. CASE q # p
    <3>1. pc[q] = "carry" /\ job[q].kept = job'[q].kept /\ job[q].kept \in Slots
      BY <1>1, <2>2 DEF ForksInv, Types, Jobs
    <3>2. job[q].kept = Live(job[q].kept.root)
      BY <3>1, SlotKinds
    <3> QED
      BY <3>1, <3>2 DEF Held
  <2> QED
    BY <2>1, <2>2
<1>9. \A m \in Versions : Draft(m)' =>
        Draft(m) /\ \A q \in Clients, l \in Lemmas : pc'[q] = "carry" => job'[q].kept # Live(<<m, l>>)
  <2> SUFFICES ASSUME NEW m \in Versions, Draft(m)'
               PROVE  Draft(m) /\ \A q \in Clients, l \in Lemmas : pc'[q] = "carry" => job'[q].kept # Live(<<m, l>>)
    OBVIOUS
  <2>1. Draft(m)
    BY <1>1 DEF Draft
  <2> QED
    BY <1>1, <2>1 DEF ForksInv, DraftsInv, SoleOwner
<1>6. /\ \A u \in Alive' : state'[u] = state[u] /\ \A k \in state[u].lemmas : View(u, k)' = View(u, k)
      /\ \A q \in Clients : pc'[q] = "carry" /\ job'[q].kept.is = "live" =>
           heap'[job'[q].kept.root] = heap[job'[q].kept.root]
      /\ RootsInv' /\ DraftsInv' /\ TreesInv'
  BY <1>2, <1>4, <1>5, <1>9, QuietStep DEF GoesOn
<1>7. Still(p) /\ SlotsStill(p)
  BY <1>4, <1>6 DEF Still, SlotsStill
<1>8. \A q \in Clients : q # p => RequestInv(q)'
  BY <1>1, <1>2, <1>4, <1>6, <1>7, OthersKeep
<1> QED
  BY <1>2, <1>4, <1>6, <1>7, <1>8

\* A step that sets slot l of version s to v, which shows tree t, to a draft of its own
\* or by a replay under the slot's lock, preserves all but the invariant of its own request.
LEMMA SlotAction ==
  ASSUME ForksInv, NEW p \in Clients, NEW step \in Steps \ {"carry", "replay"}, NEW j \in Jobs, GoesOn(p, step, j),
         published' = published,
         NEW s \in Alive, NEW l \in state[s].lemmas, NEW v \in Slots, NEW t, NEW trees \in [Roots -> Trees],
         \/ HoldsOwn(p) /\ s = job[p].mine
         \/ pc[p] = "replay" /\ s = job[p].src /\ l = job[p].lemma /\ t = View(s, l),
         Keep(WithSlot(s, l, v), trees),
         \A r \in Roots : trees[r] = heap[r] \/ SoleOwner(r, s, l),
         v.is = "live" => trees[v.root] = t /\ (Held(v.root) \/ v.root = <<s, l>>),
         v.is # "live" => t = replay_root(state[s].lemmas, l),
         v.is = "snapshot" => v.tree = t,
         state[s].slot[l] = Live(<<s, l>>) => v = Live(<<s, l>>),
         \A m \in Versions, k \in Lemmas : Draft(m) /\ <<m, k>> # <<s, l>> => v # Live(<<m, k>>),
         TreeOK(s, l, t)
  PROVE  /\ Types' /\ VersionsInv' /\ RootsInv' /\ DraftsInv' /\ TreesInv' /\ Still(p)
         /\ \A u \in Alive' : \A k \in state[u].lemmas : <<u, k>> # <<s, l>> =>
              View(u, k)' = View(u, k) /\ state'[u].slot[k] = state[u].slot[k]
         /\ s \in Alive' => View(s, l)' = t /\ state'[s].slot[l] = v
         /\ \A q \in Clients : q # p => RequestInv(q)'
<1>1. /\ pc'[p] = step /\ job'[p] = j
      /\ \A q \in Clients : q # p => pc'[q] = pc[q] /\ job'[q] = job[q]
      /\ \A q \in Clients : HoldsOwn(q)' => HoldsOwn(q) /\ job'[q].mine = job[q].mine
      /\ \A q \in Clients : HoldsSource(q)' => HoldsSource(q) /\ job'[q].src = job[q].src
  BY HoldsAfter
<1>2. s \in Versions /\ l \in Lemmas
  BY AliveAre DEF ForksInv, Types, ProofStates
<1>3. Types'
  <2>1. WithSlot(s, l, v) \in [Versions -> ProofStates]
    BY <1>2, WithSlotType DEF ForksInv
  <2>2. state' \in [Versions -> ProofStates] /\ heap' \in [Roots -> Trees]
    BY <2>1, KeepTypes
  <2> QED
    BY <2>2, HoldsAfter DEF ForksInv, Types
<1>4. \A u \in published' : u \in Alive /\ \A q \in Clients : HoldsOwn(q)' => job[q].mine # u
  BY <1>1, AliveAre DEF ForksInv, VersionsInv
<1>5. Alive' \subseteq Alive /\ VersionsInv'
  BY <1>1, <1>3, <1>4, VersionsStep DEF ForksInv, GoesOn
<1>6. \A q \in Clients : pc'[q] = "carry" => pc[q] = "carry" /\ job'[q].kept = job[q].kept
  BY <1>1
<1>10. \A m \in Versions : Draft(m)' => Draft(m)
  BY <1>1 DEF Draft
<1>7. /\ \A u \in Alive' : state'[u].lemmas = state[u].lemmas
      /\ \A u \in Alive' : \A k \in state[u].lemmas : <<u, k>> # <<s, l>> =>
           View(u, k)' = View(u, k) /\ state'[u].slot[k] = state[u].slot[k]
      /\ s \in Alive' => View(s, l)' = t /\ state'[s].slot[l] = v
      /\ \A q \in Clients : pc'[q] = "carry" /\ job'[q].kept.is = "live" =>
           heap'[job'[q].kept.root] = heap[job'[q].kept.root]
      /\ RootsInv' /\ DraftsInv' /\ TreesInv'
  BY <1>3, <1>5, <1>6, <1>10, SlotStep DEF GoesOn
<1>8. Still(p) /\ SlotsStill(p)
  BY <1>5, <1>7 DEF Still, SlotsStill
<1>9. \A q \in Clients : q # p => RequestInv(q)'
  BY <1>1, <1>3, <1>5, <1>7, <1>8, OthersKeep
<1> QED
  BY <1>3, <1>5, <1>7, <1>8, <1>9

-----------------------------------------------------------------------------
(* Action by action.                                                       *)

\* A client with no request has a job of the type.
LEMMA NoJobType == NoJob \in Jobs
  BY Numbers DEF NoJob, Jobs, Kinds, Slots

\* A request that is over, or about to be published, owes nothing.
LEMMA Over ==
  ASSUME NEW p \in Clients, pc'[p] \in {"idle", "publish"}
  PROVE  RequestInv(p)'
  BY DEF RequestInv, RequestAt, EditSteps

\* A name that its slot does not use is free.
LEMMA FreshRoot ==
  ASSUME ForksInv, NEW s \in Alive, NEW l \in state[s].lemmas, state[s].slot[l] # Live(<<s, l>>)
  PROVE  /\ <<s, l>> \in Roots /\ ~Held(<<s, l>>)
         /\ SoleOwner(<<s, l>>, s, l)
<1>1. s \in Versions /\ l \in Lemmas
  BY AliveAre DEF ForksInv, Types, ProofStates
<1>2. <<s, l>> \in Roots
  BY <1>1 DEF Roots
<1>3. ~Held(<<s, l>>)
  BY <1>2 DEF ForksInv, RootsInv
<1> QED
  BY <1>2, <1>3 DEF Held, SoleOwner

\* The root of a live slot.
LEMMA LiveRoot ==
  ASSUME ForksInv, NEW s \in Alive, NEW l \in state[s].lemmas, state[s].slot[l].is = "live"
  PROVE  /\ state[s].slot[l].root \in Roots
         /\ state[s].slot[l] = Live(state[s].slot[l].root)
         /\ Held(state[s].slot[l].root)
         /\ View(s, l) = heap[state[s].slot[l].root]
<1>1. s \in Versions /\ l \in Lemmas
  BY AliveAre DEF ForksInv, Types, ProofStates
<1>2. state[s].slot[l] \in Slots
  BY <1>1, SlotType DEF ForksInv
<1> QED
  BY <1>2, SlotKinds, ViewIs DEF Held

\* The tree of a slot that is not live, and what every tree is like.
LEMMA Views ==
  ASSUME ForksInv, NEW s \in Alive, NEW l \in state[s].lemmas
  PROVE  /\ s \in Versions /\ l \in Lemmas /\ state[s].slot[l] \in Slots
         /\ View(s, l) \in Trees /\ TreeOK(s, l, View(s, l))
         /\ state[s].slot[l].is # "live" => View(s, l) = replay_root(state[s].lemmas, l)
         /\ replay_root(state[s].lemmas, l) \in Trees /\ TreeOK(s, l, replay_root(state[s].lemmas, l))
<1>1. s \in Versions /\ l \in Lemmas /\ state[s].lemmas \in SUBSET Lemmas
  BY AliveAre DEF ForksInv, Types, ProofStates
<1> QED
  BY <1>1, SlotType, ViewType, ReplayType DEF ForksInv, TreesInv, TreeOK

\* Enter preserves the invariant and shows nothing new.
LEMMA EnterStep ==
  ASSUME ForksInv, NEW p \in Clients, Enter(p)
  PROVE  ForksInv' /\ Still(p) /\ ~HoldsOwn(p) /\ ~HoldsOwn(p)' /\ published' = published
<1>1. PICK s \in Versions, l \in Lemmas : s = job[p].src /\ l = job[p].lemma /\ s \in Alive /\ l \in state[s].lemmas
  <2>1. job[p].src \in Alive /\ job[p].src \in Versions /\ job[p].src \in 0..MaxOps + 1 /\ job[p].mine \in 0..MaxOps + 1
        /\ job[p].lemma \in 0..N
    BY HeldVersions DEF Enter, ForksInv, HoldsSource, Types, Jobs
  <2>2. job[p].lemma \in state[job[p].src].lemmas
    BY <2>1 DEF Enter, ForksInv, RequestsInv, RequestInv, RequestAt
  <2> QED
    BY <2>1, <2>2 DEF ForksInv, Types, ProofStates
<1>2. pc[p] = "enter" /\ HoldsSource(p) /\ ~HoldsOwn(p) /\ UNCHANGED <<published, started>> /\ Keep(state, heap)
  BY DEF Enter, HoldsSource, HoldsOwn, ForkSteps, EditSteps
<1>3. PICK needed \in NeedsReplay(job[p].kind, Slot(p), job[p].lemma) :
        IF needed THEN Goto(p, "replay") /\ UNCHANGED job ELSE Answer(p)
  BY DEF Enter
<1>4. CASE needed
  <2>1. GoesOn(p, "replay", job[p]) /\ job[p] \in Jobs /\ "replay" \in Steps
    BY <1>2, <1>3, <1>4 DEF GoesOn, Goto, ForksInv, Types, ForkSteps, EditSteps, Steps
  <2>2. \A q \in Clients : pc[q] = "replay" => job[q].src # s \/ job[q].lemma # l
    BY <1>1 DEF Enter, Unlocked
  <2>3. /\ Types' /\ VersionsInv' /\ RootsInv' /\ DraftsInv' /\ TreesInv' /\ Still(p)
        /\ \A u \in Alive' : state'[u] = state[u]
        /\ \A q \in Clients : q # p => RequestInv(q)'
    BY <1>1, <1>2, <2>1, <2>2, QuietAction
  <2>4. state[s].slot[l].is # "live"
    BY <1>1, <1>3, <1>4 DEF NeedsReplay, Slot
  <2>5. pc'[p] = "replay" /\ job'[p] = job[p] /\ \A q \in Clients : q # p => pc'[q] = pc[q] /\ job'[q] = job[q]
    BY <2>1, HoldsAfter
  <2>6. s \in Alive'
    BY <1>1, <2>5 DEF Alive, HoldsSource
  <2>7. RequestInv(p)'
    BY <1>1, <2>2, <2>3, <2>4, <2>5, <2>6 DEF RequestInv, RequestAt, EditSteps
  <2> QED
    BY <1>2, <2>3, <2>5, <2>7 DEF ForksInv, RequestsInv, HoldsOwn, ForkSteps, EditSteps
<1>5. CASE ~needed
  <2>1. GoesOn(p, "idle", NoJob) /\ "idle" \in Steps
    BY <1>2, <1>3, <1>5 DEF GoesOn, Answer, Goto, ForkSteps, EditSteps, Steps
  <2>2. /\ Types' /\ VersionsInv' /\ RootsInv' /\ DraftsInv' /\ TreesInv' /\ Still(p)
        /\ \A q \in Clients : q # p => RequestInv(q)'
    BY <1>2, <2>1, NoJobType, QuietAction
  <2>3. pc'[p] = "idle"
    BY <2>1, NoJobType, HoldsAfter
  <2> QED
    BY <1>2, <2>2, <2>3, Over DEF ForksInv, RequestsInv, HoldsOwn, ForkSteps, EditSteps
<1> QED
  BY <1>4, <1>5

\* Replay preserves the invariant: what it puts into a published slot is what a reader
\* of the slot was shown before.
LEMMA ReplayStep ==
  ASSUME ForksInv, NEW p \in Clients, Replay(p)
  PROVE  ForksInv' /\ Still(p) /\ ~HoldsOwn(p) /\ ~HoldsOwn(p)' /\ published' = published
<1>1. PICK s \in Versions, l \in Lemmas : /\ s = job[p].src /\ l = job[p].lemma /\ s \in Alive /\ l \in state[s].lemmas
                                          /\ state[s].slot[l].is # "live"
  <2>1. job[p].src \in Alive /\ job[p].src \in Versions /\ job[p].src \in 0..MaxOps + 1 /\ job[p].mine \in 0..MaxOps + 1
        /\ job[p].lemma \in 0..N
    BY HeldVersions DEF Replay, ForksInv, HoldsSource, Types, Jobs
  <2>2. job[p].lemma \in state[job[p].src].lemmas /\ state[job[p].src].slot[job[p].lemma].is # "live"
    BY <2>1 DEF Replay, ForksInv, RequestsInv, RequestInv, RequestAt
  <2> QED
    BY <2>1, <2>2 DEF ForksInv, Types, ProofStates
<1>2. pc[p] = "replay" /\ HoldsSource(p) /\ ~HoldsOwn(p) /\ UNCHANGED <<published, started>>
  BY DEF Replay, HoldsSource, HoldsOwn, ForkSteps, EditSteps
<1>3. GoesOn(p, "idle", NoJob) /\ "idle" \in Steps \ {"carry", "replay"}
  BY <1>2 DEF Replay, GoesOn, Answer, Goto, ForkSteps, EditSteps, Steps
<1>4. pc'[p] = "idle" /\ ~HoldsOwn(p)'
  BY <1>3, NoJobType, HoldsAfter DEF HoldsOwn, ForkSteps, EditSteps
<1> DEFINE t == replay_root(state[s].lemmas, l)
<1>5. t \in Trees /\ TreeOK(s, l, t) /\ t = View(s, l)
  BY <1>1, Views
<1>6. state[s].slot[l] # Live(<<s, l>>)
  BY <1>1 DEF Live
<1>7. <<s, l>> \in Roots /\ SoleOwner(<<s, l>>, s, l)
  BY <1>1, <1>6, FreshRoot
<1>8. CASE Keep(state, heap)
  BY <1>2, <1>3, <1>4, <1>8, NoJobType, QuietAction, Over DEF ForksInv, RequestsInv
<1>9. CASE Materialize(s, l)
  <2> DEFINE v == Live(<<s, l>>)
             trees == [heap EXCEPT ![<<s, l>>] = t]
  <2>1. v \in Slots /\ v.is = "live" /\ v.root = <<s, l>>
    BY <1>7 DEF Slots, Live
  <2>2. trees \in [Roots -> Trees] /\ trees[<<s, l>>] = t /\ \A r \in Roots : trees[r] = heap[r] \/ r = <<s, l>>
    BY <1>5, <1>7 DEF ForksInv, Types
  <2>3. Keep(WithSlot(s, l, v), trees)
    BY <1>9 DEF Materialize
  <2> HIDE DEF v, trees, t
  <2>4. v = Live(<<s, l>>)
    BY DEF v
  <2>6. \A m \in Versions, k \in Lemmas : <<m, k>> # <<s, l>> => v # Live(<<m, k>>)
    BY <2>4 DEF Live
  <2>5. /\ Types' /\ VersionsInv' /\ RootsInv' /\ DraftsInv' /\ TreesInv' /\ Still(p)
        /\ \A q \in Clients : q # p => RequestInv(q)'
    BY <1>1, <1>2, <1>3, <1>5, <1>6, <1>7, <2>1, <2>2, <2>3, <2>4, <2>6, NoJobType, SlotAction
  <2> QED
    BY <1>2, <1>4, <2>5, Over DEF ForksInv, RequestsInv
<1>10. CASE Keep(WithSlot(s, l, Snapshot(t)), heap)
  <2> DEFINE v == Snapshot(t)
  <2>1. v \in Slots /\ v.is = "snapshot" /\ v.is # "live" /\ v.tree = t
    BY <1>5 DEF Slots, Snapshot
  <2>2. PICK trees \in [Roots -> Trees] : trees = heap
    BY DEF ForksInv, Types
  <2>3. Keep(WithSlot(s, l, v), trees) /\ \A r \in Roots : trees[r] = heap[r] \/ SoleOwner(r, s, l)
    BY <1>10, <2>2
  <2>4. t = replay_root(state[s].lemmas, l)
    OBVIOUS
  <2>6. \A m \in Versions, k \in Lemmas : Draft(m) /\ <<m, k>> # <<s, l>> => v # Live(<<m, k>>)
    BY DEF Live, Snapshot
  <2> HIDE DEF v, t
  <2>7. /\ v.is # "live" => t = replay_root(state[s].lemmas, l)
        /\ v.is = "live" => trees[v.root] = t /\ (Held(v.root) \/ v.root = <<s, l>>)
        /\ v.is = "snapshot" => v.tree = t
        /\ state[s].slot[l] = Live(<<s, l>>) => v = Live(<<s, l>>)
    BY <1>6, <2>1, <2>4
  <2>8. pc[p] = "replay" /\ s = job[p].src /\ l = job[p].lemma /\ t = View(s, l)
    BY <1>1, <1>2, <1>5
  <2>5. /\ Types' /\ VersionsInv' /\ RootsInv' /\ DraftsInv' /\ TreesInv' /\ Still(p)
        /\ \A q \in Clients : q # p => RequestInv(q)'
    BY <1>1, <1>2, <1>3, <1>5, <2>1, <2>3, <2>6, <2>7, <2>8, NoJobType, SlotAction
  <2> QED
    BY <1>2, <1>4, <2>5, Over DEF ForksInv, RequestsInv
<1> QED
  BY <1>1, <1>8, <1>9, <1>10 DEF Replay

\* The names of a draft's roots are in no other slot.
LEMMA DraftNames ==
  ASSUME ForksInv, NEW m \in Versions, NEW k \in Lemmas, Draft(m), NEW s \in Alive, NEW l \in state[s].lemmas,
         <<s, l>> # <<m, k>>
  PROVE  state[s].slot[l] # Live(<<m, k>>)
  BY DEF ForksInv, DraftsInv, SoleOwner

\* Fork preserves the invariant, and ends with a copy of the source.
LEMMA ForkStep ==
  ASSUME ForksInv, NEW p \in Clients, Fork(p)
  PROVE  /\ ForksInv' /\ Still(p) /\ HoldsOwn(p) /\ HoldsOwn(p)' /\ job'[p].mine = job[p].mine
         /\ published' = published
         /\ pc'[p] = "fork" => job'[p].src = job[p].src
         /\ pc'[p] \in {"fork", "open"}
         /\ pc'[p] = "open" => \E s, m \in Versions : /\ s = job[p].src /\ m = job[p].mine
              /\ state'[m].lemmas = state[s].lemmas
              /\ \A k \in state[s].lemmas : View(m, k)' = View(s, k)
<1>1. PICK s, m \in 0..MaxOps + 1, x \in 0..N :
           /\ s = job[p].src /\ m = job[p].mine /\ x = job[p].lemma /\ RequestAt(p, s, m, x)
           /\ HoldsSource(p) => s \in Alive /\ s \in Versions
           /\ HoldsOwn(p) => m \in Alive /\ m \in Versions /\ (HoldsSource(p) => s # m)
  BY Request
<1>2. pc[p] = "fork" /\ HoldsSource(p) /\ HoldsOwn(p) /\ UNCHANGED <<published, started>>
  BY DEF Fork, HoldsSource, HoldsOwn, ForkSteps
<1>3. s \in Alive /\ s \in Versions /\ m \in Alive /\ m \in Versions /\ s # m /\ ForkInv(p, s, m)
  BY <1>1, <1>2 DEF RequestAt
<1>4. PICK l \in job[p].todo : l = NextLemma(p)
  BY <1>3, NextIn DEF ForkInv, ForksInv
<1>5. PICK rest \in SUBSET Lemmas : rest = job[p].todo \ {l}
  BY DEF ForksInv, Types, Jobs
<1>6. l \in state[m].lemmas /\ l \in state[s].lemmas /\ l \in Lemmas /\ state[m].slot[l] = Lazy
  BY <1>3, <1>4, Views DEF ForkInv
<1>7. PICK step \in {"fork", "open"}, j \in Jobs :
        /\ GoesOn(p, step, j)
        /\ j.mine = m /\ j.lemma = x /\ j.src \in 0..MaxOps + 1
        /\ step = "fork" => rest # {} /\ j.src = s /\ j.todo = rest
        /\ step = "open" => rest = {} /\ j.todo # {} /\ j.todo \subseteq state[m].lemmas
  <2>1. CASE rest # {}
    <3>1. [job[p] EXCEPT !.todo = rest] \in Jobs
      BY DEF ForksInv, Types, Jobs
    <3>2. GoesOn(p, "fork", [job[p] EXCEPT !.todo = rest])
      BY <1>1, <1>2, <1>4, <1>5, <2>1 DEF Fork, GoesOn, ForkSteps, EditSteps, ForksInv, Types, Jobs
    <3> QED
      BY <1>1, <2>1, <3>1, <3>2 DEF ForksInv, Types, Jobs
  <2>2. CASE rest = {}
    <3>1. PICK todo \in SUBSET Lemmas :
            /\ todo = (IF job[p].kind = "edit_all" THEN state[job[p].mine].lemmas ELSE {job[p].lemma})
            /\ todo # {} /\ todo \subseteq state[m].lemmas
      <4>1. state[m].lemmas \in SUBSET Lemmas /\ x \in state[m].lemmas
        BY <1>3, <1>1, SlotType, <1>6 DEF ForkInv, ForksInv
      <4>2. {x} \in SUBSET Lemmas /\ {x} # {} /\ {x} \subseteq state[m].lemmas
        BY <4>1
      <4>3. state[m].lemmas # {}
        BY <4>1
      <4>4. CASE job[p].kind = "edit_all"
        BY <1>1, <4>1, <4>3, <4>4
      <4>5. CASE job[p].kind # "edit_all"
        BY <1>1, <4>2, <4>5
      <4> QED
        BY <4>4, <4>5
    <3>2. 0 \in 0..MaxOps + 1
      BY Numbers
    <3>3. PICK j \in Jobs : j = [job[p] EXCEPT !.src = 0, !.todo = todo]
      BY <3>2 DEF ForksInv, Types, Jobs
    <3>4. job' = [job EXCEPT ![p].src = 0, ![p].todo = todo] /\ pc' = [pc EXCEPT ![p] = "open"]
      BY <1>4, <1>5, <2>2, <3>1 DEF Fork, Goto
    <3>5. job' = [job EXCEPT ![p] = j]
      BY <3>3, <3>4 DEF ForksInv, Types
    <3>6. j.mine = m /\ j.lemma = x /\ j.src = 0 /\ j.todo = todo
      BY <1>1, <3>3 DEF ForksInv, Types, Jobs
    <3>7. GoesOn(p, "open", j)
      BY <1>1, <1>2, <3>4, <3>5, <3>6 DEF GoesOn, ForkSteps
    <3> QED
      BY <2>2, <3>1, <3>2, <3>6, <3>7
  <2> QED
    BY <2>1, <2>2
<1>8. PICK v \in Slots : v = state[s].slot[l]
  BY <1>3, <1>6, Views
<1>9. PICK t : t = View(s, l)
  OBVIOUS
<1>10. PICK trees \in [Roots -> Trees] : trees = heap
  BY DEF ForksInv, Types
<1>11. Keep(WithSlot(m, l, v), trees) /\ \A r \in Roots : trees[r] = heap[r] \/ SoleOwner(r, m, l)
  BY <1>1, <1>4, <1>8, <1>10 DEF Fork
<1>12. /\ v.is # "live" => t = replay_root(state[m].lemmas, l)
       /\ v.is = "live" => trees[v.root] = t /\ (Held(v.root) \/ v.root = <<m, l>>)
       /\ v.is = "snapshot" => v.tree = t
       /\ state[m].slot[l] = Live(<<m, l>>) => v = Live(<<m, l>>)
  <2>1. v.is # "live" => t = replay_root(state[m].lemmas, l)
    BY <1>3, <1>6, <1>8, <1>9, Views DEF ForkInv
  <2>2. v.is = "live" => trees[v.root] = t /\ Held(v.root)
    BY <1>3, <1>6, <1>8, <1>9, <1>10, LiveRoot
  <2>3. v.is = "snapshot" => v.tree = t
    BY <1>8, <1>9, ViewIs
  <2>4. state[m].slot[l] # Live(<<m, l>>)
    BY <1>6 DEF Live, Lazy
  <2> QED
    BY <2>1, <2>2, <2>3, <2>4
<1>13. \A u \in Versions, k \in Lemmas : Draft(u) /\ <<u, k>> # <<m, l>> => v # Live(<<u, k>>)
  <2> SUFFICES ASSUME NEW u \in Versions, NEW k \in Lemmas, Draft(u) PROVE v # Live(<<u, k>>)
    OBVIOUS
  <2>1. u # s
    BY <1>1, <1>2 DEF Draft, ForksInv, VersionsInv
  <2> QED
    BY <1>3, <1>6, <1>8, <2>1, DraftNames
<1>14. TreeOK(m, l, t)
  BY <1>3, <1>6, <1>9, Views DEF ForkInv, TreeOK
<1>15. step \in Steps \ {"carry", "replay"}
  BY <1>7 DEF Steps, ForkSteps, EditSteps
<1>16. /\ Types' /\ VersionsInv' /\ RootsInv' /\ DraftsInv' /\ TreesInv' /\ Still(p)
       /\ \A u \in Alive' : \A k \in state[u].lemmas : <<u, k>> # <<m, l>> =>
            View(u, k)' = View(u, k) /\ state'[u].slot[k] = state[u].slot[k]
       /\ m \in Alive' => View(m, l)' = t /\ state'[m].slot[l] = v
       /\ \A q \in Clients : q # p => RequestInv(q)'
  BY <1>1, <1>2, <1>3, <1>6, <1>7, <1>11, <1>12, <1>13, <1>14, <1>15, SlotAction
<1>17. /\ pc'[p] = step /\ job'[p] = j /\ HoldsOwn(p)' /\ m \in Alive'
       /\ step = "fork" => s \in Alive'
  <2>1. pc'[p] = step /\ job'[p] = j
    BY <1>7, <1>15, HoldsAfter
  <2>2. HoldsOwn(p)' /\ (step = "fork" => HoldsSource(p)')
    BY <1>7, <2>1 DEF HoldsOwn, HoldsSource, ForkSteps, EditSteps
  <2> QED
    BY <1>7, <2>1, <2>2 DEF Alive
<1>18. state'[m].lemmas = state[m].lemmas
  BY <1>16, <1>17 DEF Still
<1>19. \A k \in state[m].lemmas \ rest : View(m, k)' = View(s, k)
  BY <1>3, <1>5, <1>9, <1>16, <1>17 DEF ForkInv
<1>20. RequestInv(p)'
  <2>1. CASE step = "fork"
    <3>1. state'[s].lemmas = state[s].lemmas /\ \A k \in state[s].lemmas : View(s, k)' = View(s, k)
      BY <1>3, <1>16, <1>17, <2>1 DEF Still
    <3>2. \A k \in rest : state'[m].slot[k] = Lazy
      BY <1>3, <1>5, <1>16, <1>17 DEF ForkInv
    <3>3. ForkInv(p, s, m)'
      BY <1>1, <1>3, <1>5, <1>7, <1>17, <1>18, <1>19, <2>1, <3>1, <3>2 DEF ForkInv
    <3> QED
      BY <1>1, <1>7, <1>17, <2>1, <3>3 DEF RequestInv, RequestAt, EditSteps
  <2>2. CASE step = "open"
    BY <1>7, <1>17, <1>18, <2>2 DEF RequestInv, RequestAt, EditSteps, EditInv
  <2> QED
    BY <1>7, <2>1, <2>2
<1> QED
  BY <1>1, <1>2, <1>3, <1>7, <1>16, <1>17, <1>18, <1>19, <1>20 DEF ForksInv, RequestsInv, ForkInv

\* Select preserves the invariant: the draft's slot goes live with the tree it showed.
LEMMA SelectStep ==
  ASSUME ForksInv, NEW p \in Clients, Select(p)
  PROVE  /\ ForksInv' /\ Still(p) /\ AllStill
         /\ pc[p] = "open" /\ pc'[p] = "write" /\ job'[p].mine = job[p].mine
         /\ published' = published
<1>1. PICK s, m \in 0..MaxOps + 1, x \in 0..N :
           /\ s = job[p].src /\ m = job[p].mine /\ x = job[p].lemma /\ RequestAt(p, s, m, x)
           /\ HoldsSource(p) => s \in Alive /\ s \in Versions
           /\ HoldsOwn(p) => m \in Alive /\ m \in Versions /\ (HoldsSource(p) => s # m)
  BY Request
<1>2. pc[p] = "open" /\ HoldsOwn(p) /\ UNCHANGED <<published, started>>
  BY DEF Select, HoldsOwn, EditSteps
<1>3. m \in Alive /\ m \in Versions /\ EditInv(p, m)
  BY <1>1, <1>2 DEF RequestAt, EditSteps
<1>4. PICK l \in job[p].todo : l = NextLemma(p)
  BY <1>3, NextIn DEF EditInv, ForksInv
<1>5. l \in state[m].lemmas /\ l \in Lemmas /\ state[m].lemmas \in SUBSET Lemmas /\ View(m, l) \in Trees /\ TreeOK(m, l, View(m, l))
      /\ state[m].slot[l] \in Slots /\ replay_root(state[m].lemmas, l) \in Trees
      /\ (state[m].slot[l].is # "live" => View(m, l) = replay_root(state[m].lemmas, l))
      /\ (state[m].slot[l].is = "live" => View(m, l) = heap[state[m].slot[l].root])
  BY <1>3, <1>4, Views, LiveRoot DEF EditInv, ForksInv, Types, ProofStates
<1>6. PICK asm \in SUBSET Lemmas : asm = View(m, l).asm
  BY <1>5 DEF Trees
<1>7. PICK j \in Jobs : j = [job[p] EXCEPT !.asm = asm]
  BY DEF ForksInv, Types, Jobs
<1>8. GoesOn(p, "write", j) /\ j.src = s /\ j.mine = m /\ j.lemma = x /\ j.todo = job[p].todo /\ j.asm = asm /\ j.below = job[p].below
  <2>1. job' = [job EXCEPT ![p].asm = asm] /\ pc' = [pc EXCEPT ![p] = "write"]
    BY <1>1, <1>4, <1>5, <1>6 DEF Select, Goto
  <2>2. job' = [job EXCEPT ![p] = j]
    BY <1>7, <2>1 DEF ForksInv, Types
  <2>3. j.src = s /\ j.mine = m /\ j.lemma = x /\ j.todo = job[p].todo /\ j.asm = asm /\ j.below = job[p].below
    BY <1>1, <1>7 DEF ForksInv, Types, Jobs
  <2> QED
    BY <1>1, <1>2, <2>1, <2>2, <2>3 DEF GoesOn, ForkSteps
<1>9. "write" \in Steps \ {"carry", "replay"}
  BY DEF Steps, EditSteps
<1>10. pc'[p] = "write" /\ job'[p] = j /\ m \in Alive'
  <2>1. pc'[p] = "write" /\ job'[p] = j
    BY <1>8, <1>9, HoldsAfter
  <2> QED
    BY <1>8, <2>1 DEF Alive, HoldsOwn, EditSteps
<1>11. job[p].below => View(m, l).steps # <<>>
  BY <1>1, <1>4 DEF Select
<1>12. /\ Types' /\ VersionsInv' /\ RootsInv' /\ DraftsInv' /\ TreesInv' /\ Still(p) /\ AllStill
       /\ state'[m].slot[l].is = "live"
       /\ \A q \in Clients : q # p => RequestInv(q)'
  <2>1. CASE state[m].slot[l].is = "live"
    <3>1. Keep(state, heap)
      BY <1>1, <1>4, <2>1 DEF Select
    <3>2. /\ Types' /\ VersionsInv' /\ RootsInv' /\ DraftsInv' /\ TreesInv' /\ Still(p)
          /\ \A u \in Alive' : state'[u] = state[u] /\ \A k \in state[u].lemmas : View(u, k)' = View(u, k)
          /\ \A q \in Clients : q # p => RequestInv(q)'
      BY <1>2, <1>8, <1>9, <3>1, QuietAction
    <3> QED
      BY <1>10, <2>1, <3>2 DEF AllStill, Still
  <2>2. CASE state[m].slot[l].is # "live"
    <3>1. PICK t \in Trees : t = View(m, l) /\ t = replay_root(state[m].lemmas, l)
      BY <1>5, <2>2
    <3>2. state[m].slot[l] # Live(<<m, l>>)
      BY <2>2 DEF Live
    <3>3. <<m, l>> \in Roots /\ SoleOwner(<<m, l>>, m, l)
      BY <1>3, <1>5, <3>2, FreshRoot
    <3>4. PICK v \in Slots : v = Live(<<m, l>>) /\ v.is = "live" /\ v.root = <<m, l>>
      <4>1. Live(<<m, l>>) \in Slots /\ Live(<<m, l>>).is = "live" /\ Live(<<m, l>>).root = <<m, l>>
        BY <3>3 DEF Slots, Live
      <4> QED
        BY <4>1
    <3>5. PICK trees \in [Roots -> Trees] : trees = [heap EXCEPT ![<<m, l>>] = t]
      BY <3>3 DEF ForksInv, Types
    <3>6. trees[<<m, l>>] = t /\ \A r \in Roots : trees[r] = heap[r] \/ SoleOwner(r, m, l)
      BY <3>3, <3>5 DEF ForksInv, Types
    <3>7. Keep(WithSlot(m, l, v), trees)
      BY <1>1, <1>4, <2>2, <3>1, <3>4, <3>5 DEF Select, Materialize
    <3>8. \A u \in Versions, k \in Lemmas : Draft(u) /\ <<u, k>> # <<m, l>> => v # Live(<<u, k>>)
      BY <3>4 DEF Live
    <3>9. /\ v.is # "live" => t = replay_root(state[m].lemmas, l)
          /\ v.is = "live" => trees[v.root] = t /\ (Held(v.root) \/ v.root = <<m, l>>)
          /\ v.is = "snapshot" => v.tree = t
          /\ state[m].slot[l] = Live(<<m, l>>) => v = Live(<<m, l>>)
      BY <3>4, <3>6
    <3>10. TreeOK(m, l, t)
      BY <1>5, <3>1
    <3>11. /\ Types' /\ VersionsInv' /\ RootsInv' /\ DraftsInv' /\ TreesInv' /\ Still(p)
           /\ \A u \in Alive' : \A k \in state[u].lemmas : <<u, k>> # <<m, l>> =>
                 View(u, k)' = View(u, k) /\ state'[u].slot[k] = state[u].slot[k]
           /\ m \in Alive' => View(m, l)' = t /\ state'[m].slot[l] = v
           /\ \A q \in Clients : q # p => RequestInv(q)'
      BY <1>1, <1>2, <1>3, <1>5, <1>8, <1>9, <3>6, <3>7, <3>8, <3>9, <3>10, SlotAction
    <3>13. /\ Still(p)
           /\ \A u \in Alive' : \A k \in state[u].lemmas : <<u, k>> # <<m, l>> => View(u, k)' = View(u, k)
           /\ m \in Alive' => View(m, l)' = t
      BY <3>11
    <3>12. ASSUME NEW u \in Alive'
           PROVE  u \in Alive /\ state'[u].lemmas = state[u].lemmas /\ \A k \in state[u].lemmas : View(u, k)' = View(u, k)
      <4>1. u \in Alive /\ state'[u].lemmas = state[u].lemmas
        BY <3>13 DEF Still
      <4>2. ASSUME NEW k \in state[u].lemmas PROVE View(u, k)' = View(u, k)
        <5>1. CASE <<u, k>> = <<m, l>>
          BY <1>10, <3>1, <3>13, <5>1
        <5>2. CASE <<u, k>> # <<m, l>>
          BY <3>13, <5>2
        <5> QED
          BY <5>1, <5>2
      <4> QED
        BY <4>1, <4>2
    <3> QED
      BY <1>10, <3>4, <3>11, <3>12 DEF AllStill
  <2> QED
    BY <2>1, <2>2
<1>13. RequestInv(p)'
  <2>1. l = NextLemma(p)'
    BY <1>4, <1>8, <1>10 DEF NextLemma
  <2>2. state'[m].lemmas = state[m].lemmas /\ View(m, l)' = View(m, l)
    BY <1>5, <1>10, <1>12 DEF AllStill
  <2>3. EditInv(p, m)' /\ WriteInv(p, m, l)'
    BY <1>3, <1>6, <1>8, <1>10, <1>11, <1>12, <2>2 DEF EditInv, WriteInv
  <2> QED
    BY <1>8, <1>10, <2>1, <2>3 DEF RequestInv, RequestAt
<1> QED
  BY <1>1, <1>2, <1>8, <1>10, <1>12, <1>13 DEF ForksInv, RequestsInv

\* A root that copy_on_write gives is nobody else's.
LEMMA OwnRoot ==
  ASSUME ForksInv, NEW m \in Versions, Draft(m), m \in Alive, NEW l \in state[m].lemmas, state[m].slot[l].is = "live"
  PROVE  /\ copy_on_write(m, l) \in Roots /\ SoleOwner(copy_on_write(m, l), m, l)
         /\ Held(copy_on_write(m, l)) \/ copy_on_write(m, l) = <<m, l>>
         /\ state[m].slot[l] = Live(<<m, l>>) => copy_on_write(m, l) = <<m, l>>
         /\ \A u \in Versions, k \in Lemmas : Draft(u) /\ <<u, k>> # <<m, l>> => copy_on_write(m, l) # <<u, k>>
<1>1. PICK r \in Roots : r = state[m].slot[l].root /\ state[m].slot[l] = Live(r) /\ Held(r)
  BY LiveRoot
<1>2. l \in Lemmas
  BY Views
<1>3. <<m, l>> \in Roots /\ SoleOwner(<<m, l>>, m, l)
  BY <1>2 DEF ForksInv, DraftsInv, Roots
<1>4. state[m].slot[l] = Live(<<m, l>>) => r = <<m, l>>
  BY <1>1 DEF Live
<1>5. \A u \in Versions, k \in Lemmas : Draft(u) /\ <<u, k>> # <<m, l>> => r # <<u, k>>
  BY <1>1, DraftNames
<1>6. ASSUME Cardinality(Owners(r)) = 1 PROVE SoleOwner(r, m, l)
  <2>1. IsFiniteSet(Owners(r))
    <3>1. IsFiniteSet(Versions) /\ IsFiniteSet(Lemmas) /\ IsFiniteSet(Clients)
      BY Numbers, FS_Interval
    <3>2. IsFiniteSet(Versions \X Lemmas)
      BY <3>1, FS_Product
    <3>3. IsFiniteSet((Versions \X Lemmas) \cup Clients)
      BY <3>1, <3>2, FS_Union
    <3>4. Owners(r) \subseteq (Versions \X Lemmas) \cup Clients
      BY AliveAre DEF Owners, ForksInv
    <3> QED
      BY <3>3, <3>4, FS_Subset
  <2>2. PICK o : Owners(r) = {o}
    BY <1>6, <2>1, FS_Singleton
  <2>3. \A t \in Alive, k \in Lemmas : k \in state[t].lemmas /\ state[t].slot[k] = Live(r) => <<t, k>> \in Owners(r)
    <3> SUFFICES ASSUME NEW t \in Alive, NEW k \in Lemmas, k \in state[t].lemmas, state[t].slot[k] = Live(r)
                 PROVE  <<t, k>> \in Owners(r)
      OBVIOUS
    <3>1. <<t, k>> \in Alive \X Lemmas /\ <<t, k>>[1] = t /\ <<t, k>>[2] = k
      OBVIOUS
    <3>2. <<t, k>> \in {w \in Alive \X Lemmas : w[2] \in state[w[1]].lemmas /\ state[w[1]].slot[w[2]] = Live(r)}
      BY <3>1
    <3> QED
      BY <3>2 DEF Owners
  <2>4. o = <<m, l>>
    BY <1>1, <1>2, <2>2, <2>3
  <2>5. ASSUME NEW t \in Alive, NEW k \in state[t].lemmas, <<t, k>> # <<m, l>> PROVE state[t].slot[k] # Live(r)
    <3>1. k \in Lemmas
      BY Views
    <3> QED
      BY <2>2, <2>3, <2>4, <2>5, <3>1
  <2>6. ASSUME NEW q \in Clients, pc[q] = "carry" PROVE job[q].kept # Live(r)
    <3>1. <<m, l>> \in Nat \X Nat
      BY <1>2, Numbers
    <3>2. q # <<m, l>>
      BY <3>1, ForksAssumption
    <3>3. job[q].kept = Live(r) => q \in Owners(r)
      BY <2>6 DEF Owners
    <3> QED
      BY <2>2, <2>4, <3>2, <3>3
  <2> QED
    BY <2>5, <2>6 DEF SoleOwner
<1>7. copy_on_write(m, l) = IF Cardinality(Owners(r)) = 1 THEN r ELSE <<m, l>>
  BY <1>1 DEF copy_on_write
<1>8. CASE Cardinality(Owners(r)) = 1
  <2>1. copy_on_write(m, l) = r
    BY <1>7, <1>8
  <2> QED
    BY <1>1, <1>4, <1>5, <1>6, <1>8, <2>1
<1>9. CASE Cardinality(Owners(r)) # 1
  <2>1. copy_on_write(m, l) = <<m, l>>
    BY <1>7, <1>9
  <2> QED
    BY <1>3, <2>1
<1> QED
  BY <1>8, <1>9

\* What a write makes of a tree: edit e replaces it, or goes below its root.
Edited(t, e, below) ==
  IF below THEN [t EXCEPT !.steps = Append(@, e)] ELSE [asm |-> t.asm, steps |-> <<e>>, wrapped |-> FALSE]

\* An edited tree is a tree, with the assumptions it had.
LEMMA EditedType ==
  ASSUME NEW t \in Trees, NEW e \in 0..MaxOps, NEW below \in BOOLEAN, t.wrapped => t.steps # <<>>
  PROVE  /\ Edited(t, e, below) \in Trees /\ Edited(t, e, below).asm = t.asm
         /\ Edited(t, e, below).wrapped => Edited(t, e, below).steps # <<>>
<1>1. t.steps \in Seq(0..MaxOps) /\ t.asm \in SUBSET Lemmas /\ t.wrapped \in BOOLEAN
  BY DEF Trees
<1>2. Append(t.steps, e) \in Seq(0..MaxOps) /\ <<e>> \in Seq(0..MaxOps) /\ Append(t.steps, e) # <<>> /\ <<e>> # <<>>
  <2>1. PICK w \in Seq(0..MaxOps) : w = t.steps
    BY <1>1
  <2>2. Len(Append(w, e)) = Len(w) + 1 /\ Len(w) \in Nat /\ Append(w, e) \in Seq(0..MaxOps)
    BY AppendProperties, LenProperties
  <2>3. Append(w, e) # <<>>
    <3>1. Len(Append(w, e)) > 0 /\ Len(<<>>) = 0
      BY <2>2
    <3> QED
      BY <3>1
  <2>4. <<e>> \in Seq(0..MaxOps) /\ <<e>> # <<>>
    OBVIOUS
  <2> QED
    BY <2>1, <2>2, <2>3, <2>4
<1>3. CASE below
  BY <1>1, <1>2, <1>3 DEF Edited, Trees
<1>4. CASE ~below
  BY <1>1, <1>2, <1>4 DEF Edited, Trees
<1> QED
  BY <1>3, <1>4

\* Write preserves the invariant: the root it writes to is the draft's alone, so one
\* tree of the draft changes, and no other.
LEMMA WriteStep ==
  ASSUME ForksInv, NEW p \in Clients, Write(p)
  PROVE  /\ ForksInv' /\ Still(p)
         /\ pc[p] = "write" /\ pc'[p] \in {"open", "publish"} /\ job'[p].mine = job[p].mine
         /\ published' = published
         /\ \E m \in Versions : m = job[p].mine /\ m \in Alive' /\ \E l \in state[m].lemmas :
              /\ View(m, l)' = Edited(View(m, l), m - 1, job[p].below)
              /\ job[p].below => View(m, l).steps # <<>>
              /\ \A k \in state[m].lemmas \ {l} : View(m, k)' = View(m, k)
<1>1. PICK s, m \in 0..MaxOps + 1, x \in 0..N :
           /\ s = job[p].src /\ m = job[p].mine /\ x = job[p].lemma /\ RequestAt(p, s, m, x)
           /\ HoldsSource(p) => s \in Alive /\ s \in Versions
           /\ HoldsOwn(p) => m \in Alive /\ m \in Versions /\ (HoldsSource(p) => s # m)
  BY Request
<1>2. pc[p] = "write" /\ HoldsOwn(p) /\ UNCHANGED <<published, started>>
  BY DEF Write, HoldsOwn, EditSteps
<1>3. m \in Alive /\ m \in Versions /\ Draft(m) /\ EditInv(p, m)
  BY <1>1, <1>2 DEF RequestAt, EditSteps, Draft
<1>4. PICK l \in job[p].todo : l = NextLemma(p)
  BY <1>3, NextIn DEF EditInv, ForksInv
<1>5. l \in state[m].lemmas /\ l \in Lemmas /\ View(m, l) \in Trees /\ TreeOK(m, l, View(m, l))
  BY <1>3, <1>4, Views DEF EditInv
<1>6. WriteInv(p, m, l)
  BY <1>1, <1>2, <1>4, <1>5 DEF RequestAt
<1>7. PICK rest \in SUBSET Lemmas : rest = job[p].todo \ {l}
  BY DEF ForksInv, Types, Jobs
<1>8. PICK below \in BOOLEAN : below = job[p].below
  BY DEF ForksInv, Types, Jobs
<1>9. PICK t \in Trees : /\ t = Edited(View(m, l), m - 1, below)
                         /\ t.asm = View(m, l).asm /\ (t.wrapped => t.steps # <<>>)
  <2>1. m - 1 \in 0..MaxOps
    BY <1>3, Numbers
  <2> QED
    BY <1>5, <2>1, EditedType DEF TreeOK
<1>10. PICK r \in Roots : r = copy_on_write(m, l)
  BY <1>3, <1>5, <1>6, OwnRoot DEF WriteInv
<1>11. /\ SoleOwner(r, m, l)
       /\ Held(r) \/ r = <<m, l>>
       /\ state[m].slot[l] = Live(<<m, l>>) => r = <<m, l>>
       /\ \A u \in Versions, k \in Lemmas : Draft(u) /\ <<u, k>> # <<m, l>> => r # <<u, k>>
  BY <1>3, <1>5, <1>6, <1>10, OwnRoot DEF WriteInv
<1>12. PICK v \in Slots : v = Live(r) /\ v.is = "live" /\ v.root = r
  <2>1. Live(r) \in Slots /\ Live(r).is = "live" /\ Live(r).root = r
    BY DEF Slots, Live
  <2> QED
    BY <2>1
<1>13. PICK trees \in [Roots -> Trees] : trees = [heap EXCEPT ![r] = t]
  BY DEF ForksInv, Types
<1>14. Keep(WithSlot(m, l, v), trees)
  <2>1. (IF job[p].below THEN [View(m, l) EXCEPT !.steps = Append(@, m - 1)]
         ELSE [asm |-> job[p].asm, steps |-> <<m - 1>>, wrapped |-> FALSE]) = t
    BY <1>6, <1>8, <1>9 DEF WriteInv, Edited
  <2> QED
    BY <1>1, <1>4, <1>10, <1>12, <1>13, <2>1 DEF Write
<1>15. trees[r] = t /\ \A q \in Roots : trees[q] = heap[q] \/ SoleOwner(q, m, l)
  BY <1>11, <1>13 DEF ForksInv, Types
<1>16. /\ v.is # "live" => t = replay_root(state[m].lemmas, l)
       /\ v.is = "live" => trees[v.root] = t /\ (Held(v.root) \/ v.root = <<m, l>>)
       /\ v.is = "snapshot" => v.tree = t
       /\ state[m].slot[l] = Live(<<m, l>>) => v = Live(<<m, l>>)
  BY <1>11, <1>12, <1>15
<1>17. \A u \in Versions, k \in Lemmas : Draft(u) /\ <<u, k>> # <<m, l>> => v # Live(<<u, k>>)
  BY <1>11, <1>12 DEF Live
<1>18. TreeOK(m, l, t)
  BY <1>5, <1>9 DEF TreeOK
<1>19. PICK step \in {"open", "publish"}, j \in Jobs :
         /\ GoesOn(p, step, j) /\ j.mine = m /\ j.src = s /\ j.lemma = x /\ j.todo = rest
         /\ step = "open" => rest # {}
  <2>1. PICK step \in {"open", "publish"} : step = IF rest = {} THEN "publish" ELSE "open"
    OBVIOUS
  <2>2. PICK j \in Jobs : j = [job[p] EXCEPT !.todo = rest, !.asm = {}]
    BY DEF ForksInv, Types, Jobs
  <2>3. job' = [job EXCEPT ![p].todo = rest, ![p].asm = {}] /\ pc' = [pc EXCEPT ![p] = step]
    BY <1>4, <1>7, <2>1 DEF Write, Goto
  <2>4. job' = [job EXCEPT ![p] = j]
    BY <2>2, <2>3 DEF ForksInv, Types
  <2>5. j.mine = m /\ j.src = s /\ j.lemma = x /\ j.todo = rest
    BY <1>1, <2>2 DEF ForksInv, Types, Jobs
  <2>6. GoesOn(p, step, j)
    BY <1>1, <1>2, <2>3, <2>4, <2>5 DEF GoesOn, ForkSteps
  <2> QED
    BY <2>1, <2>5, <2>6
<1>20. step \in Steps \ {"carry", "replay"}
  BY <1>19 DEF Steps, EditSteps
<1>21. /\ Types' /\ VersionsInv' /\ RootsInv' /\ DraftsInv' /\ TreesInv' /\ Still(p)
       /\ \A u \in Alive' : \A k \in state[u].lemmas : <<u, k>> # <<m, l>> =>
            View(u, k)' = View(u, k) /\ state'[u].slot[k] = state[u].slot[k]
       /\ m \in Alive' => View(m, l)' = t /\ state'[m].slot[l] = v
       /\ \A q \in Clients : q # p => RequestInv(q)'
  BY <1>1, <1>2, <1>3, <1>5, <1>14, <1>15, <1>16, <1>17, <1>18, <1>19, <1>20, SlotAction
<1>22. pc'[p] = step /\ job'[p] = j /\ m \in Alive'
  <2>1. pc'[p] = step /\ job'[p] = j
    BY <1>19, <1>20, HoldsAfter
  <2> QED
    BY <1>19, <2>1 DEF Alive, HoldsOwn, EditSteps
<1>23. RequestInv(p)'
  <2>1. CASE step = "publish"
    BY <1>22, <2>1, Over
  <2>2. CASE step = "open"
    <3>1. state'[m].lemmas = state[m].lemmas
      BY <1>21, <1>22 DEF Still
    <3>2. EditInv(p, m)'
      BY <1>3, <1>7, <1>19, <1>22, <2>2, <3>1 DEF EditInv
    <3> QED
      BY <1>19, <1>22, <2>2, <3>2 DEF RequestInv, RequestAt
  <2> QED
    BY <1>19, <2>1, <2>2
<1>24. \A k \in state[m].lemmas \ {l} : View(m, k)' = View(m, k)
  BY <1>21, <1>22
<1> QED
  BY <1>1, <1>2, <1>3, <1>5, <1>6, <1>8, <1>9, <1>19, <1>21, <1>22, <1>23, <1>24 DEF ForksInv, RequestsInv, WriteInv

\* What deleting x does to the assumptions of the others.
LEMMA Gathered ==
  ASSUME NEW ls \in SUBSET Lemmas, NEW x \in ls, NEW l \in ls, l # x
  PROVE  /\ l \notin invalidated(ls, x) =>
              /\ ~(x \in Reuse /\ x < l)
              /\ gather_reusable_lemmas(ls \ {x}, l) = gather_reusable_lemmas(ls, l)
              /\ replay_root(ls \ {x}, l) = replay_root(ls, l)
         /\ l \in invalidated(ls, x) =>
              /\ x \in Reuse /\ x < l
              /\ gather_reusable_lemmas(ls \ {x}, l) = gather_reusable_lemmas(ls, l) \ {x}
<1>1. ls \subseteq Nat /\ x \in Nat /\ l \in Nat
  BY Numbers
<1>2. CASE l \notin invalidated(ls, x)
  <2>1. ~(x \in Reuse /\ x < l)
    BY <1>1, <1>2 DEF invalidated
  <2>2. gather_reusable_lemmas(ls \ {x}, l) = gather_reusable_lemmas(ls, l)
    BY <2>1 DEF gather_reusable_lemmas
  <2> QED
    BY <1>2, <2>1, <2>2 DEF replay_root
<1>3. CASE l \in invalidated(ls, x)
  <2>1. x \in Reuse /\ x < l
    BY <1>1, <1>3 DEF invalidated
  <2>2. gather_reusable_lemmas(ls \ {x}, l) = gather_reusable_lemmas(ls, l) \ {x}
    BY DEF gather_reusable_lemmas
  <2> QED
    BY <1>3, <2>1, <2>2
<1> QED
  BY <1>2, <1>3

\* The removal of x from version s is there in full, in the draft m.
Removed(s, m, x) ==
  /\ x \in state[s].lemmas
  /\ state'[m].lemmas = state[s].lemmas \ {x}
  /\ \A k \in state[s].lemmas \ {x} : View(m, k)' = AfterRemoval(x, k, View(s, k))

\* Lemma l of a deletion is done, with slot v that shows t.
LEMMA CarriedStep ==
  ASSUME ForksInv, NEW p \in Clients, pc[p] \in {"rebase", "carry"}, UNCHANGED <<published, started>>,
         NEW s \in Versions, NEW m \in Versions, NEW x \in Lemmas,
         s = job[p].src, m = job[p].mine, x = job[p].lemma,
         NEW l \in job[p].todo, l \in state[m].lemmas, Carried(p, l),
         NEW v \in Slots, NEW t, NEW trees \in [Roots -> Trees],
         t = AfterRemoval(x, l, View(s, l)),
         Keep(WithSlot(m, l, v), trees),
         \A r \in Roots : trees[r] = heap[r] \/ SoleOwner(r, m, l),
         v.is = "live" => trees[v.root] = t /\ (Held(v.root) \/ v.root = <<m, l>>),
         v.is # "live" => t = replay_root(state[m].lemmas, l),
         v.is = "snapshot" => v.tree = t,
         \A u \in Versions, k \in Lemmas : Draft(u) /\ <<u, k>> # <<m, l>> => v # Live(<<u, k>>),
         TreeOK(m, l, t)
  PROVE  /\ ForksInv' /\ Still(p)
         /\ pc'[p] \in {"rebase", "publish"} /\ job'[p].mine = m
         /\ pc'[p] = "rebase" => job'[p].src = s
         /\ pc'[p] = "publish" => Removed(s, m, x)
<1>1. HoldsOwn(p) /\ HoldsSource(p) /\ m \in Alive /\ s \in Alive /\ s # m
  <2>1. HoldsOwn(p) /\ HoldsSource(p)
    BY DEF HoldsOwn, HoldsSource, ForkSteps
  <2> QED
    BY <2>1, HeldVersions DEF ForksInv, VersionsInv
<1>2. RebaseInv(p, s, m, x)
  BY Request DEF RequestAt
<1>3. PICK rest \in SUBSET Lemmas : rest = job[p].todo \ {l}
  BY DEF ForksInv, Types, Jobs
<1>4. PICK step \in {"rebase", "publish"}, j \in Jobs :
        /\ GoesOn(p, step, j) /\ j.mine = m /\ j.src = s /\ j.lemma = x /\ j.todo = rest
        /\ step = "publish" => rest = {}
  <2>1. PICK step \in {"rebase", "publish"} : step = IF rest = {} THEN "publish" ELSE "rebase"
    OBVIOUS
  <2>2. PICK j \in Jobs : j = [job[p] EXCEPT !.todo = rest, !.kept = Lazy]
    BY DEF ForksInv, Types, Jobs, Slots
  <2>3. job' = [job EXCEPT ![p].todo = rest, ![p].kept = Lazy] /\ pc' = [pc EXCEPT ![p] = step]
    BY <1>3, <2>1 DEF Carried, Goto
  <2>4. job' = [job EXCEPT ![p] = j]
    BY <2>2, <2>3 DEF ForksInv, Types
  <2>5. j.mine = m /\ j.src = s /\ j.lemma = x /\ j.todo = rest
    BY <2>2 DEF ForksInv, Types, Jobs
  <2>6. GoesOn(p, step, j)
    BY <1>1, <2>3, <2>4, <2>5 DEF GoesOn, ForkSteps
  <2> QED
    BY <2>1, <2>5, <2>6
<1>5. step \in Steps \ {"carry", "replay"}
  BY <1>4 DEF Steps, ForkSteps
<1>6. state[m].slot[l] = Lazy /\ l \in Lemmas /\ Lazy # Live(<<m, l>>)
  BY <1>1, <1>2, Views DEF RebaseInv, Lazy, Live
<1>7. state[m].slot[l] = Live(<<m, l>>) => v = Live(<<m, l>>)
  BY <1>6
<1>8. /\ Types' /\ VersionsInv' /\ RootsInv' /\ DraftsInv' /\ TreesInv' /\ Still(p)
      /\ \A u \in Alive' : \A k \in state[u].lemmas : <<u, k>> # <<m, l>> =>
           View(u, k)' = View(u, k) /\ state'[u].slot[k] = state[u].slot[k]
      /\ m \in Alive' => View(m, l)' = t /\ state'[m].slot[l] = v
      /\ \A q \in Clients : q # p => RequestInv(q)'
  BY <1>1, <1>4, <1>5, <1>7, SlotAction
<1>9. /\ pc'[p] = step /\ job'[p] = j /\ m \in Alive'
      /\ step = "rebase" => s \in Alive'
  <2>1. pc'[p] = step /\ job'[p] = j
    BY <1>4, <1>5, HoldsAfter
  <2>2. HoldsOwn(p)' /\ (step = "rebase" => HoldsSource(p)')
    BY <1>4, <2>1 DEF HoldsOwn, HoldsSource, ForkSteps
  <2> QED
    BY <1>4, <2>1, <2>2 DEF Alive
<1>10. state'[m].lemmas = state[m].lemmas
  BY <1>8, <1>9 DEF Still
<1>11. \A k \in state[m].lemmas \ rest : View(m, k)' = AfterRemoval(x, k, View(s, k))
  BY <1>2, <1>3, <1>8, <1>9 DEF RebaseInv
<1>12. RequestInv(p)'
  <2>1. CASE step = "rebase"
    <3>1. state'[s].lemmas = state[s].lemmas /\ \A k \in state[s].lemmas : View(s, k)' = View(s, k)
      BY <1>1, <1>8, <1>9, <2>1 DEF Still
    <3>2. \A k \in rest : state'[m].slot[k] = Lazy
      BY <1>2, <1>3, <1>8, <1>9 DEF RebaseInv
    <3>3. RebaseInv(p, s, m, x)'
      BY <1>2, <1>3, <1>4, <1>9, <1>10, <1>11, <3>1, <3>2 DEF RebaseInv
    <3> QED
      BY <1>4, <1>9, <2>1, <3>3 DEF RequestInv, RequestAt, EditSteps
  <2>2. CASE step = "publish"
    BY <1>9, <2>2, Over
  <2> QED
    BY <2>1, <2>2
<1> QED
  BY <1>2, <1>4, <1>8, <1>9, <1>10, <1>11, <1>12 DEF ForksInv, RequestsInv, Removed, RebaseInv

\* Rebase preserves the invariant, and the last one leaves the source with x removed.
LEMMA RebaseStep ==
  ASSUME ForksInv, NEW p \in Clients, Rebase(p)
  PROVE  /\ ForksInv' /\ Still(p)
         /\ pc[p] = "rebase" /\ pc'[p] \in {"carry", "rebase", "publish"} /\ job'[p].mine = job[p].mine
         /\ pc'[p] # "publish" => job'[p].src = job[p].src
         /\ published' = published
         /\ pc'[p] = "publish" => \E s, m \in Versions, x \in Lemmas : s = job[p].src /\ m = job[p].mine /\ Removed(s, m, x)
<1>1. PICK s, m \in 0..MaxOps + 1, x \in 0..N :
           /\ s = job[p].src /\ m = job[p].mine /\ x = job[p].lemma /\ RequestAt(p, s, m, x)
           /\ HoldsSource(p) => s \in Alive /\ s \in Versions
           /\ HoldsOwn(p) => m \in Alive /\ m \in Versions /\ (HoldsSource(p) => s # m)
  BY Request
<1>2. pc[p] = "rebase" /\ HoldsSource(p) /\ HoldsOwn(p) /\ UNCHANGED <<published, started>>
  BY DEF Rebase, HoldsSource, HoldsOwn, ForkSteps
<1>3. s \in Alive /\ s \in Versions /\ m \in Alive /\ m \in Versions /\ s # m /\ RebaseInv(p, s, m, x)
  BY <1>1, <1>2 DEF RequestAt
<1>4. x \in Lemmas /\ x \in state[s].lemmas /\ state[s].lemmas \in SUBSET Lemmas
  BY <1>3, SlotType DEF RebaseInv, ForksInv, Types, ProofStates
<1>5. CASE job[p].todo = {}
  <2>1. GoesOn(p, "publish", job[p]) /\ job[p] \in Jobs /\ Keep(state, heap) /\ "publish" \in Steps
    BY <1>2, <1>5 DEF Rebase, GoesOn, Goto, ForksInv, Types, Steps, ForkSteps
  <2>2. /\ Types' /\ VersionsInv' /\ RootsInv' /\ DraftsInv' /\ TreesInv' /\ Still(p)
        /\ \A u \in Alive' : state'[u] = state[u] /\ \A k \in state[u].lemmas : View(u, k)' = View(u, k)
        /\ \A q \in Clients : q # p => RequestInv(q)'
    BY <1>2, <2>1, QuietAction
  <2>3. pc'[p] = "publish" /\ job'[p] = job[p]
    BY <2>1, HoldsAfter
  <2>4. m \in Alive'
    BY <1>1, <2>3 DEF Alive, HoldsOwn
  <2>5. Removed(s, m, x)
    BY <1>3, <1>5, <2>2, <2>4 DEF Removed, RebaseInv
  <2> QED
    BY <1>1, <1>2, <1>3, <1>4, <2>2, <2>3, <2>5, Over DEF ForksInv, RequestsInv
<1>6. CASE job[p].todo # {}
  <2>1. PICK l \in job[p].todo : l = NextLemma(p)
    BY <1>6, NextIn DEF ForksInv
  <2>2. l \in state[m].lemmas /\ l \in state[s].lemmas /\ l # x /\ l \in Lemmas /\ state[m].slot[l] = Lazy
        /\ state[m].lemmas = state[s].lemmas \ {x}
    BY <1>3, <2>1, Views DEF RebaseInv
  <2>3. PICK v \in Slots : v = state[s].slot[l]
    BY <1>3, <2>2, Views
  <2>4. PICK t \in Trees : t = View(s, l)
    BY <1>3, <2>2, Views
  <2>5. /\ v.is # "live" => t = replay_root(state[s].lemmas, l)
        /\ v.is = "live" => heap[v.root] = t /\ Held(v.root)
        /\ v.is = "snapshot" => v.tree = t
        /\ TreeOK(s, l, t)
    BY <1>3, <2>2, <2>3, <2>4, Views, LiveRoot, ViewIs
  <2>6. \A u \in Versions, k \in Lemmas : Draft(u) => v # Live(<<u, k>>)
    <3> SUFFICES ASSUME NEW u \in Versions, NEW k \in Lemmas, Draft(u) PROVE v # Live(<<u, k>>)
      OBVIOUS
    <3>1. u # s
      BY <1>1, <1>2 DEF Draft, ForksInv, VersionsInv
    <3> QED
      BY <1>3, <2>2, <2>3, <3>1, DraftNames
  <2>7. CASE l \in invalidated(state[s].lemmas, x)
    <3>1. PICK j \in Jobs : j = [job[p] EXCEPT !.kept = v]
      BY DEF ForksInv, Types, Jobs
    <3>2. job' = [job EXCEPT ![p].kept = v] /\ pc' = [pc EXCEPT ![p] = "carry"] /\ Keep(state, heap)
      BY <1>1, <1>6, <2>1, <2>3, <2>7 DEF Rebase, Goto
    <3>3. job' = [job EXCEPT ![p] = j]
      BY <3>1, <3>2 DEF ForksInv, Types
    <3>4. j.src = s /\ j.mine = m /\ j.lemma = x /\ j.todo = job[p].todo /\ j.kept = v
      BY <1>1, <3>1 DEF ForksInv, Types, Jobs
    <3>5. GoesOn(p, "carry", j) /\ "carry" \in Steps
      BY <1>1, <1>2, <3>2, <3>3, <3>4 DEF GoesOn, ForkSteps, Steps
    <3>6. /\ "carry" = "carry" /\ j.kept.is = "live" => Held(j.kept.root)
          /\ "carry" = "carry" => \A u \in Versions, k \in Lemmas : Draft(u) => j.kept # Live(<<u, k>>)
      BY <2>5, <2>6, <3>4
    <3>7. /\ Types' /\ VersionsInv' /\ RootsInv' /\ DraftsInv' /\ TreesInv' /\ Still(p)
          /\ \A u \in Alive' : state'[u] = state[u] /\ \A k \in state[u].lemmas : View(u, k)' = View(u, k)
          /\ \A q \in Clients : pc'[q] = "carry" /\ job'[q].kept.is = "live" =>
               heap'[job'[q].kept.root] = heap[job'[q].kept.root]
          /\ \A q \in Clients : q # p => RequestInv(q)'
      BY <1>2, <3>2, <3>5, <3>6, QuietAction
    <3>8. pc'[p] = "carry" /\ job'[p] = j
      BY <3>5, HoldsAfter
    <3>9. m \in Alive' /\ s \in Alive'
      BY <3>4, <3>8 DEF Alive, HoldsOwn, HoldsSource, ForkSteps
    <3>10. RebaseInv(p, s, m, x)'
      BY <1>3, <2>2, <3>4, <3>7, <3>8, <3>9 DEF RebaseInv
    <3>11. l = NextLemma(p)'
      BY <2>1, <3>4, <3>8 DEF NextLemma
    <3>12. InHand(p, s, l)' = View(s, l)'
      <4>1. state'[s] = state[s] /\ View(s, l)' = t
        BY <2>2, <2>4, <3>7, <3>9
      <4>2. CASE v.is = "live"
        <5>1. heap'[v.root] = heap[v.root]
          BY <3>4, <3>7, <3>8, <4>2
        <5> QED
          BY <2>5, <3>4, <3>8, <4>1, <4>2, <5>1 DEF InHand
      <4>3. CASE v.is # "live"
        BY <2>5, <3>4, <3>8, <4>1, <4>3 DEF InHand
      <4> QED
        BY <4>2, <4>3
    <3>13. CarryInv(p, s, x, l)'
      BY <1>6, <2>7, <3>4, <3>7, <3>8, <3>9, <3>12 DEF CarryInv
    <3>14. RequestInv(p)'
      BY <1>6, <3>4, <3>8, <3>10, <3>11, <3>13 DEF RequestInv, RequestAt, EditSteps
    <3> QED
      BY <1>1, <1>2, <3>4, <3>7, <3>8, <3>14 DEF ForksInv, RequestsInv
  <2>8. CASE l \notin invalidated(state[s].lemmas, x)
    <3>1. /\ ~(x \in Reuse /\ x < l)
          /\ gather_reusable_lemmas(state[m].lemmas, l) = gather_reusable_lemmas(state[s].lemmas, l)
          /\ replay_root(state[m].lemmas, l) = replay_root(state[s].lemmas, l)
      <4>1. PICK ls \in SUBSET Lemmas : ls = state[s].lemmas
        BY <1>4
      <4>2. x \in ls /\ l \in ls /\ l # x /\ l \notin invalidated(ls, x) /\ state[m].lemmas = ls \ {x}
        BY <1>4, <2>2, <2>8, <4>1
      <4>3. /\ ~(x \in Reuse /\ x < l)
            /\ gather_reusable_lemmas(ls \ {x}, l) = gather_reusable_lemmas(ls, l)
            /\ replay_root(ls \ {x}, l) = replay_root(ls, l)
        BY <4>2, Gathered
      <4> QED
        BY <4>1, <4>2, <4>3
    <3>2. PICK trees \in [Roots -> Trees] : trees = heap
      BY DEF ForksInv, Types
    <3>3. Carried(p, l) /\ Keep(WithSlot(m, l, v), trees)
      BY <1>1, <1>6, <2>1, <2>3, <2>8, <3>2 DEF Rebase
    <3>4. \A r \in Roots : trees[r] = heap[r] \/ SoleOwner(r, m, l)
      BY <3>2
    <3>5. t = AfterRemoval(x, l, View(s, l))
      BY <2>4, <3>1 DEF AfterRemoval
    <3>6. TreeOK(m, l, t)
      BY <2>5, <3>1 DEF TreeOK
    <3>7. /\ v.is = "live" => trees[v.root] = t /\ (Held(v.root) \/ v.root = <<m, l>>)
          /\ v.is # "live" => t = replay_root(state[m].lemmas, l)
          /\ v.is = "snapshot" => v.tree = t
          /\ \A u \in Versions, k \in Lemmas : Draft(u) /\ <<u, k>> # <<m, l>> => v # Live(<<u, k>>)
      BY <2>5, <2>6, <3>1, <3>2
    <3>8. /\ ForksInv' /\ Still(p)
          /\ pc'[p] \in {"rebase", "publish"} /\ job'[p].mine = m
          /\ pc'[p] = "rebase" => job'[p].src = s
          /\ pc'[p] = "publish" => Removed(s, m, x)
      <4>1. UNCHANGED <<published, started>> /\ pc[p] \in {"rebase", "carry"} /\ s = job[p].src /\ m = job[p].mine /\ x = job[p].lemma
        BY <1>1, <1>2
      <4>2. /\ s \in Versions /\ m \in Versions /\ x \in Lemmas
            /\ l \in job[p].todo /\ l \in state[m].lemmas
        BY <1>3, <1>4, <2>2
      <4> QED
        BY <3>3, <3>4, <3>5, <3>6, <3>7, <4>1, <4>2, CarriedStep
    <3> QED
      BY <1>1, <1>2, <1>3, <1>4, <3>8
  <2> QED
    BY <2>7, <2>8
<1> QED
  BY <1>5, <1>6

\* Carry preserves the invariant, whatever was done to the source since it was cloned.
LEMMA CarryStep ==
  ASSUME ForksInv, NEW p \in Clients, Carry(p)
  PROVE  /\ ForksInv' /\ Still(p)
         /\ pc[p] = "carry" /\ pc'[p] \in {"rebase", "publish"} /\ job'[p].mine = job[p].mine
         /\ pc'[p] # "publish" => job'[p].src = job[p].src
         /\ published' = published
         /\ pc'[p] = "publish" => \E s, m \in Versions, x \in Lemmas : s = job[p].src /\ m = job[p].mine /\ Removed(s, m, x)
<1>1. PICK s, m \in 0..MaxOps + 1, x \in 0..N :
           /\ s = job[p].src /\ m = job[p].mine /\ x = job[p].lemma /\ RequestAt(p, s, m, x)
           /\ HoldsSource(p) => s \in Alive /\ s \in Versions
           /\ HoldsOwn(p) => m \in Alive /\ m \in Versions /\ (HoldsSource(p) => s # m)
  BY Request
<1>2. pc[p] = "carry" /\ HoldsSource(p) /\ HoldsOwn(p) /\ UNCHANGED <<published, started>>
  BY DEF Carry, HoldsSource, HoldsOwn, ForkSteps
<1>3. /\ s \in Alive /\ s \in Versions /\ m \in Alive /\ m \in Versions /\ s # m /\ Draft(m)
      /\ RebaseInv(p, s, m, x) /\ job[p].todo # {}
  BY <1>1, <1>2 DEF RequestAt, Draft
<1>4. x \in Lemmas /\ x \in state[s].lemmas /\ state[s].lemmas \in SUBSET Lemmas
  BY <1>3, SlotType DEF RebaseInv, ForksInv, Types, ProofStates
<1>5. PICK l \in job[p].todo : l = NextLemma(p)
  BY <1>3, NextIn DEF ForksInv
<1>6. l \in state[m].lemmas /\ l \in state[s].lemmas /\ l # x /\ l \in Lemmas /\ state[m].slot[l] = Lazy
      /\ state[m].lemmas = state[s].lemmas \ {x}
  BY <1>3, <1>5, Views DEF RebaseInv
<1>7. CarryInv(p, s, x, l)
  BY <1>1, <1>2, <1>5, <1>6 DEF RequestAt
<1>8. PICK old \in Trees : /\ old = View(s, l) /\ TreeOK(s, l, old)
                           /\ old = IF job[p].kept.is = "live" THEN heap[job[p].kept.root] ELSE replay_root(state[s].lemmas, l)
  BY <1>3, <1>6, <1>7, Views DEF CarryInv, InHand
<1>9. /\ x \in Reuse /\ x < l
      /\ gather_reusable_lemmas(state[m].lemmas, l) = gather_reusable_lemmas(state[s].lemmas, l) \ {x}
  BY <1>4, <1>6, <1>7, Gathered DEF CarryInv
<1>10. PICK t \in Trees : t = Reconstructed(p, l, old) /\ t = AfterRemoval(x, l, View(s, l)) /\ TreeOK(m, l, t)
  <2>1. /\ gather_reusable_lemmas(state[m].lemmas, l) = old.asm \ {x}
        /\ (old.wrapped \/ old.steps # <<>>) = (old.steps # <<>>)
    BY <1>8, <1>9 DEF TreeOK, Trees
  <2>2. Reconstructed(p, l, old) = [asm |-> old.asm \ {x}, steps |-> old.steps, wrapped |-> old.steps # <<>>]
    BY <1>1, <2>1 DEF Reconstructed
  <2>3. Reconstructed(p, l, old) \in Trees
    BY <2>2 DEF Trees
  <2>4. Reconstructed(p, l, old) = AfterRemoval(x, l, View(s, l))
    BY <1>8, <1>9, <2>2 DEF AfterRemoval
  <2>5. TreeOK(m, l, Reconstructed(p, l, old))
    <3>1. PICK t : t = Reconstructed(p, l, old)
      OBVIOUS
    <3>2. t.asm = old.asm \ {x} /\ t.steps = old.steps /\ t.wrapped = (old.steps # <<>>)
      BY <2>2, <3>1
    <3>3. t.wrapped => t.steps # <<>>
      BY <3>2
    <3> QED
      BY <2>1, <3>1, <3>2, <3>3 DEF TreeOK
  <2> QED
    BY <2>3, <2>4, <2>5
<1>11. <<m, l>> \in Roots /\ SoleOwner(<<m, l>>, m, l)
  BY <1>3, <1>6 DEF ForksInv, DraftsInv, Roots
<1>12. PICK v \in Slots : v = Live(<<m, l>>) /\ v.is = "live" /\ v.root = <<m, l>>
  <2>1. Live(<<m, l>>) \in Slots /\ Live(<<m, l>>).is = "live" /\ Live(<<m, l>>).root = <<m, l>>
    BY <1>11 DEF Slots, Live
  <2> QED
    BY <2>1
<1>13. PICK trees \in [Roots -> Trees] : trees = [heap EXCEPT ![<<m, l>>] = t]
  BY <1>11 DEF ForksInv, Types
<1>14. trees[<<m, l>>] = t /\ \A r \in Roots : trees[r] = heap[r] \/ SoleOwner(r, m, l)
  BY <1>11, <1>13 DEF ForksInv, Types
<1>15. Carried(p, l) /\ Keep(WithSlot(m, l, v), trees)
  BY <1>1, <1>5, <1>8, <1>10, <1>12, <1>13 DEF Carry
<1>16. /\ v.is = "live" => trees[v.root] = t /\ (Held(v.root) \/ v.root = <<m, l>>)
       /\ v.is # "live" => t = replay_root(state[m].lemmas, l)
       /\ v.is = "snapshot" => v.tree = t
  BY <1>12, <1>14
<1>17. \A u \in Versions, k \in Lemmas : Draft(u) /\ <<u, k>> # <<m, l>> => v # Live(<<u, k>>)
  BY <1>12 DEF Live
<1>18. /\ ForksInv' /\ Still(p)
       /\ pc'[p] \in {"rebase", "publish"} /\ job'[p].mine = m
       /\ pc'[p] = "rebase" => job'[p].src = s
       /\ pc'[p] = "publish" => Removed(s, m, x)
  <2>1. UNCHANGED <<published, started>> /\ pc[p] \in {"rebase", "carry"} /\ s = job[p].src /\ m = job[p].mine /\ x = job[p].lemma
    BY <1>1, <1>2
  <2>2. /\ pc[p] \in {"rebase", "carry"} /\ UNCHANGED <<published, started>>
        /\ s \in Versions /\ m \in Versions /\ x \in Lemmas
        /\ s = job[p].src /\ m = job[p].mine /\ x = job[p].lemma
        /\ l \in job[p].todo /\ l \in state[m].lemmas /\ Carried(p, l)
        /\ t = AfterRemoval(x, l, View(s, l)) /\ TreeOK(m, l, t)
    BY <1>3, <1>4, <1>6, <1>10, <1>15, <2>1
  <2> QED
    BY <1>14, <1>15, <1>16, <1>17, <2>2, CarriedStep
<1> QED
  BY <1>1, <1>2, <1>3, <1>4, <1>18

\* Publish preserves the invariant, and shows the draft as it is.
LEMMA PublishStep ==
  ASSUME ForksInv, NEW p \in Clients, Publish(p)
  PROVE  /\ ForksInv' /\ AllStill /\ pc[p] = "publish" /\ pc'[p] = "idle"
         /\ job[p].mine \in Alive
         /\ published' = published \cup {job[p].mine} /\ started' = started
<1>1. pc[p] = "publish" /\ HoldsOwn(p) /\ Keep(state, heap) /\ started' = started /\ published' = published \cup {job[p].mine}
  BY DEF Publish, HoldsOwn
<1>2. GoesOn(p, "idle", NoJob) /\ "idle" \in Steps
  BY <1>1 DEF Publish, GoesOn, Answer, Goto, ForkSteps, EditSteps, Steps
<1>3. /\ Types' /\ VersionsInv' /\ RootsInv' /\ DraftsInv' /\ TreesInv' /\ Still(p)
      /\ \A u \in Alive' : state'[u] = state[u] /\ \A k \in state[u].lemmas : View(u, k)' = View(u, k)
      /\ \A q \in Clients : q # p => RequestInv(q)'
  BY <1>1, <1>2, NoJobType, QuietAction
<1>4. pc'[p] = "idle"
  BY <1>2, NoJobType, HoldsAfter
<1> QED
  BY <1>1, <1>3, <1>4, Over, HeldVersions DEF ForksInv, RequestsInv, AllStill, Still

\* Giving up preserves the invariant and changes no tree.
LEMMA FailStep ==
  ASSUME ForksInv, NEW p \in Clients, Fail(p)
  PROVE  ForksInv' /\ AllStill /\ pc'[p] = "idle" /\ published' = published
<1>1. Keep(state, heap) /\ UNCHANGED <<published, started>>
  BY DEF Fail, Abandon
<1>2. GoesOn(p, "idle", NoJob) /\ "idle" \in Steps
  BY <1>1 DEF Fail, Abandon, GoesOn, Goto, ForkSteps, EditSteps, Steps
<1>3. /\ Types' /\ VersionsInv' /\ RootsInv' /\ DraftsInv' /\ TreesInv' /\ Still(p)
      /\ \A u \in Alive' : state'[u] = state[u] /\ \A k \in state[u].lemmas : View(u, k)' = View(u, k)
      /\ \A q \in Clients : q # p => RequestInv(q)'
  BY <1>1, <1>2, NoJobType, QuietAction
<1>4. pc'[p] = "idle"
  BY <1>2, NoJobType, HoldsAfter
<1> QED
  BY <1>1, <1>3, <1>4, Over DEF ForksInv, RequestsInv, AllStill, Still

\* Unload preserves the invariant: drafts that share roots with the version keep them.
LEMMA UnloadStep ==
  ASSUME ForksInv, Unload
  PROVE  ForksInv' /\ AllStill
<1>1. PICK v \in published : published' = published \ {v}
  BY DEF Unload
<1>2. UNCHANGED <<started, pc, job>> /\ Keep(state, heap)
  BY DEF Unload
<1>3. Types'
  BY <1>1, <1>2, KeepTypes DEF ForksInv, Types
<1>4. /\ \A q \in Clients : HoldsOwn(q)' => HoldsOwn(q) /\ job'[q].mine = job[q].mine
      /\ \A q \in Clients : HoldsSource(q)' => HoldsSource(q) /\ job'[q].src = job[q].src
  BY <1>2 DEF HoldsOwn, HoldsSource
<1>5. \A u \in published' : u \in Alive /\ \A q \in Clients : HoldsOwn(q)' => job[q].mine # u
  BY <1>1, <1>4, AliveAre DEF ForksInv, VersionsInv
<1>6. Alive' \subseteq Alive /\ VersionsInv'
  BY <1>2, <1>3, <1>4, <1>5, VersionsStep DEF ForksInv
<1>7. \A q \in Clients : pc'[q] = "carry" /\ job'[q].kept.is = "live" => Held(job'[q].kept.root)
  <2> SUFFICES ASSUME NEW q \in Clients, pc'[q] = "carry", job'[q].kept.is = "live" PROVE Held(job'[q].kept.root)
    OBVIOUS
  <2>1. pc[q] = "carry" /\ job[q].kept = job'[q].kept /\ job[q].kept \in Slots
    BY <1>2 DEF ForksInv, Types, Jobs
  <2>2. job[q].kept = Live(job[q].kept.root)
    BY <2>1, SlotKinds
  <2> QED
    BY <2>1, <2>2 DEF Held
<1>8. \A m \in Versions : Draft(m)' =>
        Draft(m) /\ \A q \in Clients, l \in Lemmas : pc'[q] = "carry" => job'[q].kept # Live(<<m, l>>)
  <2> SUFFICES ASSUME NEW m \in Versions, Draft(m)'
               PROVE  Draft(m) /\ \A q \in Clients, l \in Lemmas : pc'[q] = "carry" => job'[q].kept # Live(<<m, l>>)
    OBVIOUS
  <2>1. Draft(m)
    BY <1>4 DEF Draft
  <2> QED
    BY <1>2, <2>1 DEF ForksInv, DraftsInv, SoleOwner
<1>9. /\ \A u \in Alive' : state'[u] = state[u] /\ \A k \in state[u].lemmas : View(u, k)' = View(u, k)
      /\ \A q \in Clients : pc'[q] = "carry" /\ job'[q].kept.is = "live" =>
           heap'[job'[q].kept.root] = heap[job'[q].kept.root]
      /\ RootsInv' /\ DraftsInv' /\ TreesInv'
  BY <1>2, <1>3, <1>6, <1>7, <1>8, QuietStep
<1>10. ASSUME NEW q \in Clients PROVE RequestInv(q)'
  <2>1. pc'[q] = pc[q] /\ job'[q] = job[q]
    BY <1>2
  <2>2. \A r \in Clients : pc[q] = "replay" /\ r # q /\ pc'[r] = "replay" =>
           job'[r].src # job[q].src \/ job'[r].lemma # job[q].lemma
    BY <1>2, Request DEF RequestAt
  <2>3. \A u \in Alive' : /\ state'[u].lemmas = state[u].lemmas
                          /\ \A k \in state[u].lemmas : View(u, k)' = View(u, k) /\ state'[u].slot[k] = state[u].slot[k]
    BY <1>9
  <2>4. pc[q] = "carry" /\ job[q].kept.is = "live" => heap'[job[q].kept.root] = heap[job[q].kept.root]
    BY <1>9, <2>1
  <2> QED
    BY <2>1, <2>2, <2>3, <2>4, RequestKeeps
<1> QED
  BY <1>3, <1>6, <1>9, <1>10 DEF ForksInv, RequestsInv, AllStill

\* Request p arrives for version v, with number n for what it makes of it.
Arrives(p, v, n, step, j, states) ==
  /\ pc[p] = "idle" /\ pc' = [pc EXCEPT ![p] = step] /\ job' = [job EXCEPT ![p] = j] /\ published' = published
  /\ started' = started + 1 /\ n = started + 2 /\ started' \in 0..MaxOps
  /\ j.src = v /\ j.lemma \in state[v].lemmas /\ (step # "enter" => j.mine = n)
  /\ \A u \in Versions \ {n} : states[u] = state[u]
  /\ \A l \in Lemmas : states[n].slot[l] = Lazy
  /\ step = "fork" => states[n].lemmas = state[v].lemmas /\ j.todo = state[v].lemmas
  /\ step = "rebase" => states[n].lemmas = state[v].lemmas \ {j.lemma} /\ j.todo = states[n].lemmas
  /\ Keep(states, heap)

\* A new request: nothing that is there changes, and the new version is empty.
LEMMA NewRequest ==
  ASSUME ForksInv, NEW p \in Clients, NEW v \in published, NEW n \in Versions,
         NEW step \in {"enter", "fork", "rebase"}, NEW j \in Jobs, NEW states \in [Versions -> ProofStates],
         Arrives(p, v, n, step, j, states)
  PROVE  /\ ForksInv'
         /\ \A u \in Alive' \ {n} : u \in Alive /\ state'[u].lemmas = state[u].lemmas
                                    /\ \A k \in state[u].lemmas : View(u, k)' = View(u, k)
         /\ n \notin Alive
         /\ pc'[p] = step /\ job'[p] = j
         /\ \A q \in Clients : q # p => pc'[q] = pc[q] /\ job'[q] = job[q]
<1> USE DEF Arrives
<1>1. /\ pc'[p] = step /\ job'[p] = j
      /\ \A q \in Clients : q # p => pc'[q] = pc[q] /\ job'[q] = job[q]
  BY DEF ForksInv, Types
<1>2. Types'
  <2>1. pc' \in [Clients -> Steps] /\ job' \in [Clients -> Jobs]
    BY DEF ForksInv, Types, Steps, ForkSteps
  <2> QED
    BY <2>1, KeepTypes DEF ForksInv, Types
<1>3. n \notin Alive /\ started \in Nat
  BY Numbers DEF ForksInv, VersionsInv, Types
<1>4. /\ \A q \in Clients : q # p => (HoldsOwn(q)' <=> HoldsOwn(q)) /\ (HoldsSource(q)' <=> HoldsSource(q))
      /\ HoldsSource(p)' /\ (HoldsOwn(p)' <=> step # "enter") /\ ~HoldsOwn(p) /\ ~HoldsSource(p)
  BY <1>1 DEF HoldsOwn, HoldsSource, ForkSteps, EditSteps
<1>5. \A u \in Alive' : u \in Versions /\ (u \in Alive \/ (u = n /\ step # "enter"))
  <2>1. \A u \in Alive' : u \in Alive \/ (u = n /\ step # "enter")
    BY <1>1, <1>4 DEF Alive
  <2> QED
    BY <2>1, AliveAre DEF ForksInv
<1>6. v \in Alive /\ v \in Alive' /\ v \in Versions /\ v # n
  BY <1>3, AliveAre DEF ForksInv, Alive
<1>7. VersionsInv'
  <2>1. \A u \in Alive' : u \in 1..started' + 1
    BY <1>3, <1>5 DEF ForksInv, VersionsInv
  <2>2. \A u \in Versions \ Alive' : state'[u] = NoState
    BY DEF Keep
  <2>3. ASSUME NEW q \in Clients, HoldsOwn(q)'
        PROVE  /\ job'[q].mine # 1 /\ job'[q].mine \notin published'
               /\ \A r \in Clients : HoldsSource(r)' => job'[r].src # job'[q].mine
               /\ \A r \in Clients : r # q /\ HoldsOwn(r)' => job'[r].mine # job'[q].mine
    <3>1. CASE q = p
      <4>1. job'[q].mine = n /\ n # 1
        BY <1>1, <1>3, <1>4, <2>3, <3>1
      <4>2. n \notin published'
        BY <1>3, AliveAre DEF ForksInv
      <4>3. \A r \in Clients : HoldsSource(r)' => job'[r].src # n
        BY <1>1, <1>3, <1>4, <1>6, AliveAre DEF ForksInv
      <4>4. \A r \in Clients : r # q /\ HoldsOwn(r)' => job'[r].mine # n
        BY <1>1, <1>3, <1>4, <3>1, AliveAre DEF ForksInv
      <4> QED
        BY <4>1, <4>2, <4>3, <4>4
    <3>2. CASE q # p
      <4>1. HoldsOwn(q) /\ job'[q] = job[q] /\ job[q].mine \in Alive /\ job[q].mine \notin published
        BY <1>1, <1>4, <2>3, <3>2, AliveAre DEF ForksInv, VersionsInv
      <4>2. \A r \in Clients : HoldsSource(r)' => job'[r].src # job[q].mine
        BY <1>1, <1>4, <1>6, <4>1 DEF ForksInv, VersionsInv
      <4>3. \A r \in Clients : r # q /\ HoldsOwn(r)' => job'[r].mine # job[q].mine
        BY <1>1, <1>3, <1>4, <4>1 DEF ForksInv, VersionsInv
      <4> QED
        BY <4>1, <4>2, <4>3 DEF ForksInv, VersionsInv
    <3> QED
      BY <3>1, <3>2
  <2> QED
    BY <2>1, <2>2, <2>3 DEF VersionsInv
<1>8. /\ \A u \in Alive' : state'[u] = states[u]
      /\ \A r \in Roots : Held(r)' => heap'[r] = heap[r]
  BY <1>2, <1>7, KeepFacts
<1>9. \A u \in Alive' \ {n} : u \in Alive /\ state'[u] = state[u]
  BY <1>5, <1>8
<1>10. \A k \in Lemmas : n \in Alive' => state'[n].slot[k] = Lazy
  BY <1>8
<1>11. ASSUME NEW r \in Roots, Held(r)' PROVE Held(r) /\ heap'[r] = heap[r]
  <2>1. CASE \E u \in Alive' : \E l \in state'[u].lemmas : state'[u].slot[l] = Live(r)
    <3>1. PICK u \in Alive' : \E l \in state'[u].lemmas : state'[u].slot[l] = Live(r)
      BY <2>1
    <3>2. PICK l \in state'[u].lemmas : state'[u].slot[l] = Live(r)
      BY <3>1
    <3>3. l \in Lemmas
      BY <1>2, <1>5 DEF Types, ProofStates
    <3>4. u # n
      BY <1>10, <3>2, <3>3 DEF Lazy, Live
    <3> QED
      BY <1>8, <1>9, <1>11, <3>2, <3>4 DEF Held
  <2>2. CASE \E q \in Clients : pc'[q] = "carry" /\ job'[q].kept = Live(r)
    BY <1>1, <1>8, <1>11, <2>2 DEF Held
  <2> QED
    BY <1>11, <2>1, <2>2 DEF Held
<1>12. ASSUME NEW u \in Alive' \ {n}, NEW k \in state[u].lemmas PROVE View(u, k)' = View(u, k)
  <2>1. k \in Lemmas /\ u \in Versions /\ u \in Alive /\ state'[u] = state[u] /\ state[u].slot[k] \in Slots
    BY <1>9, Views
  <2>2. CASE state[u].slot[k].is = "live"
    <3>1. PICK r \in Roots : state[u].slot[k].root = r /\ state[u].slot[k] = Live(r)
      BY <2>1, <2>2, SlotKinds
    <3>2. Held(r)'
      BY <2>1, <3>1 DEF Held
    <3> QED
      BY <1>8, <2>1, <2>2, <3>1, <3>2, ViewIs, ViewIsNext
  <2>3. CASE state[u].slot[k].is # "live"
    BY <2>1, <2>3, ViewIs, ViewIsNext, SlotKinds
  <2> QED
    BY <2>2, <2>3
<1>13. RootsInv'
  <2> SUFFICES ASSUME NEW r \in Roots, Held(r)'
               PROVE  /\ r[1] <= started' + 1
                      /\ r[1] \in Alive' /\ r[2] \in state'[r[1]].lemmas => state'[r[1]].slot[r[2]] = Live(r)
    BY DEF RootsInv
  <2>1. Held(r)
    BY <1>11
  <2>2. r[1] <= started + 1 /\ r[1] \in Nat
    BY <2>1, Numbers DEF RootsInv, ForksInv, Roots
  <2>3. r[1] # n
    BY <1>3, <2>2
  <2> QED
    BY <1>3, <1>9, <2>1, <2>2, <2>3 DEF RootsInv, ForksInv
<1>14. \A k \in Lemmas : <<n, k>> \in Roots /\ ~Held(<<n, k>>)
  <2> SUFFICES ASSUME NEW k \in Lemmas PROVE <<n, k>> \in Roots /\ ~Held(<<n, k>>)
    OBVIOUS
  <2>1. <<n, k>> \in Roots /\ <<n, k>>[1] = n
    BY DEF Roots
  <2>2. ~(n <= started + 1)
    BY <1>3
  <2> QED
    BY <2>1, <2>2 DEF RootsInv, ForksInv
<1>15. DraftsInv'
  <2> SUFFICES ASSUME NEW m \in Versions, NEW k \in Lemmas, Draft(m)' PROVE SoleOwner(<<m, k>>, m, k)'
    BY DEF DraftsInv
  <2>1. <<m, k>> \in Roots
    BY DEF Roots
  <2>2. Draft(m) \/ m = n
    BY <1>1, <1>4 DEF Draft
  <2>3. ASSUME NEW u \in Alive', NEW i \in state'[u].lemmas, <<u, i>> # <<m, k>> PROVE state'[u].slot[i] # Live(<<m, k>>)
    <3>1. i \in Lemmas
      BY <1>2, <1>5 DEF Types, ProofStates
    <3>2. CASE u = n
      BY <1>10, <3>1, <3>2 DEF Lazy, Live
    <3>3. CASE u # n /\ m = n
      BY <1>9, <1>14, <3>3 DEF Held
    <3>4. CASE u # n /\ m # n
      BY <1>9, <2>2, <2>3, <3>4 DEF ForksInv, DraftsInv, SoleOwner
    <3> QED
      BY <3>2, <3>3, <3>4
  <2>4. \A q \in Clients : pc'[q] = "carry" => job'[q].kept # Live(<<m, k>>)
    BY <1>1, <1>14, <2>2 DEF ForksInv, DraftsInv, SoleOwner, Held
  <2> QED
    BY <2>3, <2>4 DEF SoleOwner
<1>16. TreesInv'
  <2> SUFFICES ASSUME NEW u \in Alive', NEW k \in state'[u].lemmas
               PROVE  /\ TreeOK(u, k, View(u, k))'
                      /\ state'[u].slot[k].is # "live" => View(u, k)' = replay_root(state'[u].lemmas, k)
    BY DEF TreesInv
  <2>1. CASE u = n
    <3>1. k \in Lemmas /\ state'[n].lemmas \in SUBSET Lemmas /\ state'[n].slot[k] = Lazy /\ state'[n].slot[k] \in Slots
      BY <1>2, <1>5, <1>10, <2>1 DEF Types, ProofStates
    <3>2. View(n, k)' = replay_root(state'[n].lemmas, k)
      BY <3>1, ViewIsNext DEF Lazy
    <3> QED
      BY <2>1, <3>1, <3>2, ReplayType DEF TreeOK
  <2>2. CASE u # n
    BY <1>9, <1>12, <2>2 DEF TreeOK, TreesInv, ForksInv
  <2> QED
    BY <2>1, <2>2
<1>17. ASSUME NEW q \in Clients, q # p PROVE RequestInv(q)'
  <2>1. pc'[q] = pc[q] /\ job'[q] = job[q]
    BY <1>1, <1>17
  <2>2. HoldsSource(q) => job[q].src # n
    BY <1>3, AliveAre DEF ForksInv
  <2>3. HoldsOwn(q) => job[q].mine # n
    BY <1>3, AliveAre DEF ForksInv
  <2>4. \A t \in Alive' : HoldsSource(q) /\ t = job[q].src =>
          state'[t].lemmas = state[t].lemmas /\ \A k \in state[t].lemmas : View(t, k)' = View(t, k)
    BY <1>9, <1>12, <2>2
  <2>5. \A m \in Alive' : HoldsOwn(q) /\ m = job[q].mine =>
          /\ state'[m].lemmas = state[m].lemmas
          /\ \A k \in state[m].lemmas : View(m, k)' = View(m, k) /\ state'[m].slot[k] = state[m].slot[k]
    BY <1>9, <1>12, <2>3
  <2>6. \A t \in Alive' : pc[q] = "replay" /\ t = job[q].src =>
          \A k \in state[t].lemmas : k = job[q].lemma => state'[t].slot[k] = state[t].slot[k]
    BY <1>9, <2>2 DEF HoldsSource
  <2>7. \A r \in Clients : pc[q] = "replay" /\ r # q /\ pc'[r] = "replay" =>
          job'[r].src # job[q].src \/ job'[r].lemma # job[q].lemma
    BY <1>1, Request DEF RequestAt
  <2>8. pc[q] = "carry" /\ job[q].kept.is = "live" => heap'[job[q].kept.root] = heap[job[q].kept.root]
    <3> SUFFICES ASSUME pc[q] = "carry", job[q].kept.is = "live"
                 PROVE  heap'[job[q].kept.root] = heap[job[q].kept.root]
      OBVIOUS
    <3>1. job[q].kept \in Slots
      BY DEF ForksInv, Types, Jobs
    <3>2. PICK r \in Roots : job[q].kept = Live(r) /\ job[q].kept.root = r
      BY <3>1, SlotKinds
    <3>3. Held(r)'
      BY <2>1, <3>2 DEF Held
    <3> QED
      BY <1>8, <3>2, <3>3
  <2> QED
    BY <2>1, <2>4, <2>5, <2>6, <2>7, <2>8, RequestKeeps
<1>18. RequestInv(p)'
  <2>1. PICK x \in Lemmas : x = j.lemma /\ x \in state[v].lemmas
    BY <1>6, SlotType DEF ForksInv, Types, ProofStates
  <2>2. state'[v].lemmas = state[v].lemmas
    BY <1>6, <1>9
  <2>3. CASE step = "enter"
    BY <1>1, <2>1, <2>2, <2>3 DEF RequestInv, RequestAt, EditSteps
  <2>4. CASE step # "enter"
    <3>1. n \in Alive'
      BY <1>1, <1>4, <2>4 DEF Alive
    <3>2. state'[n].lemmas = states[n].lemmas /\ state'[n].lemmas \subseteq Lemmas
      BY <1>2, <1>8, <3>1 DEF Types, ProofStates
    <3>3. CASE step = "fork"
      <4>1. ForkInv(p, v, n)'
        BY <1>1, <1>10, <2>1, <2>2, <3>1, <3>2, <3>3 DEF ForkInv
      <4> QED
        BY <1>1, <3>3, <4>1 DEF RequestInv, RequestAt, EditSteps
    <3>4. CASE step = "rebase"
      <4>1. RebaseInv(p, v, n, x)'
        BY <1>1, <1>10, <2>1, <2>2, <3>1, <3>2, <3>4 DEF RebaseInv
      <4> QED
        BY <1>1, <2>1, <3>4, <4>1 DEF RequestInv, RequestAt, EditSteps
    <3> QED
      BY <2>4, <3>3, <3>4
  <2> QED
    BY <2>3, <2>4
<1> QED
  BY <1>1, <1>2, <1>3, <1>7, <1>9, <1>12, <1>13, <1>15, <1>16, <1>17, <1>18 DEF ForksInv, RequestsInv

\* Begin preserves the invariant: the new version is nobody else's.
LEMMA BeginStep ==
  ASSUME ForksInv, NEW p \in Clients, Begin(p)
  PROVE  /\ ForksInv' /\ pc[p] = "idle" /\ published' = published
         /\ \E n \in Versions : /\ n \notin Alive
              /\ \A u \in Alive' \ {n} : u \in Alive /\ state'[u].lemmas = state[u].lemmas
                                         /\ \A k \in state[u].lemmas : View(u, k)' = View(u, k)
         /\ pc'[p] \in {"enter", "fork", "rebase"} /\ job'[p].src \in published
         /\ \A q \in Clients : q # p => pc'[q] = pc[q] /\ job'[q] = job[q]
<1>1. PICK v \in published, k \in Requests[started'], below \in BOOLEAN :
        \E l \in state[v].lemmas :
          /\ below => k = "edit"
          /\ k = "edit_all" => l = Min(state[v].lemmas)
          /\ k = "delete" => l \notin Sources
          /\ job' = [job EXCEPT ![p] =
               [NoJob EXCEPT !.kind = k, !.src = v, !.lemma = l, !.below = below,
                             !.mine = IF k \in Readers THEN 0 ELSE started' + 1,
                             !.todo = IF k \in Readers THEN {}
                                      ELSE IF k = "delete" THEN state[v].lemmas \ {l}
                                      ELSE state[v].lemmas]]
          /\ Goto(p, IF k \in Readers THEN "enter" ELSE IF k = "delete" THEN "rebase" ELSE "fork")
          /\ UNCHANGED published
          /\ Keep(IF k \in Readers THEN state
                  ELSE [state EXCEPT ![started' + 1].lemmas =
                          IF k = "delete" THEN state[v].lemmas \ {l} ELSE state[v].lemmas],
                  heap)
  BY DEF Begin
<1>2. pc[p] = "idle" /\ started' = started + 1 /\ started < MaxOps
  BY DEF Begin
<1>3. v \in Versions /\ v \in Alive /\ state[v].lemmas \in SUBSET Lemmas
  BY AliveAre DEF ForksInv, Types, ProofStates
<1>4. PICK l \in state[v].lemmas : l \in Lemmas /\
          /\ job' = [job EXCEPT ![p] =
               [NoJob EXCEPT !.kind = k, !.src = v, !.lemma = l, !.below = below,
                             !.mine = IF k \in Readers THEN 0 ELSE started' + 1,
                             !.todo = IF k \in Readers THEN {}
                                      ELSE IF k = "delete" THEN state[v].lemmas \ {l}
                                      ELSE state[v].lemmas]]
          /\ Goto(p, IF k \in Readers THEN "enter" ELSE IF k = "delete" THEN "rebase" ELSE "fork")
          /\ UNCHANGED published
          /\ Keep(IF k \in Readers THEN state
                  ELSE [state EXCEPT ![started' + 1].lemmas =
                          IF k = "delete" THEN state[v].lemmas \ {l} ELSE state[v].lemmas],
                  heap)
  BY <1>1, <1>3
<1>5. PICK n \in Versions : n = started + 2 /\ n = started' + 1 /\ started' \in 0..MaxOps /\ started + 1 \in 1..MaxOps
  BY <1>2, Numbers DEF ForksInv, Types
<1>6. k \in Kinds
  BY <1>2, <1>5, Numbers DEF Kinds
<1>7. n \notin Alive /\ state[n] = NoState /\ v # n
  <2>1. n \notin Alive
    BY <1>5, Numbers DEF ForksInv, VersionsInv, Types
  <2> QED
    BY <1>3, <2>1 DEF ForksInv, VersionsInv
<1>8. PICK step \in {"enter", "fork", "rebase"} :
        /\ step = IF k \in Readers THEN "enter" ELSE IF k = "delete" THEN "rebase" ELSE "fork"
        /\ step = "enter" <=> k \in Readers
        /\ step = "rebase" <=> k = "delete"
  BY DEF Readers
<1>9. PICK ls \in SUBSET Lemmas : ls = IF k = "delete" THEN state[v].lemmas \ {l} ELSE state[v].lemmas
  BY <1>3
<1>10. PICK todo \in SUBSET Lemmas : todo = IF k \in Readers THEN {} ELSE ls
  BY <1>9
<1>11. PICK mine \in 0..MaxOps + 1 : mine = IF k \in Readers THEN 0 ELSE n
  <2>1. 0 \in 0..MaxOps + 1 /\ n \in 0..MaxOps + 1
    BY <1>5, Numbers
  <2> QED
    BY <2>1
<1>12. PICK j \in Jobs : /\ j = [NoJob EXCEPT !.kind = k, !.src = v, !.lemma = l, !.below = below, !.mine = mine, !.todo = todo]
                         /\ j.src = v /\ j.lemma = l /\ j.mine = mine /\ j.todo = todo
  <2>1. v \in 0..MaxOps + 1 /\ l \in 0..N
    BY <1>3, <1>4, Numbers
  <2>2. PICK j : j = [NoJob EXCEPT !.kind = k, !.src = v, !.lemma = l, !.below = below, !.mine = mine, !.todo = todo]
    OBVIOUS
  <2>3. j \in Jobs
    BY <1>6, <2>1, <2>2, NoJobType DEF Jobs
  <2>4. j.src = v /\ j.lemma = l /\ j.mine = mine /\ j.todo = todo
    BY <2>2, NoJobType DEF Jobs
  <2> QED
    BY <2>2, <2>3, <2>4
<1>13. pc' = [pc EXCEPT ![p] = step] /\ job' = [job EXCEPT ![p] = j]
  BY <1>4, <1>5, <1>8, <1>9, <1>10, <1>11, <1>12 DEF Goto
<1>18. PICK states : states = IF k \in Readers THEN state ELSE [state EXCEPT ![n].lemmas = ls]
  OBVIOUS
<1>14. /\ states \in [Versions -> ProofStates]
       /\ \A u \in Versions \ {n} : states[u] = state[u]
       /\ \A i \in Lemmas : states[n].slot[i] = Lazy
       /\ step # "enter" => states[n].lemmas = ls
  <2>1. \A i \in Lemmas : state[n].slot[i] = Lazy
    BY <1>7 DEF NoState
  <2>2. state \in [Versions -> ProofStates] /\ state[n] \in ProofStates
    BY DEF ForksInv, Types
  <2>3. CASE k \in Readers
    BY <1>8, <1>18, <2>1, <2>2, <2>3
  <2>4. CASE k \notin Readers
    <3>1. PICK new \in ProofStates : new = [state[n] EXCEPT !.lemmas = ls] /\ new.lemmas = ls /\ new.slot = state[n].slot
      <4>1. PICK new : new = [state[n] EXCEPT !.lemmas = ls]
        OBVIOUS
      <4> QED
        BY <2>2, <4>1 DEF ProofStates
    <3>2. states = [state EXCEPT ![n] = new]
      BY <1>18, <2>2, <2>4, <3>1
    <3>3. states \in [Versions -> ProofStates] /\ states[n] = new /\ \A u \in Versions \ {n} : states[u] = state[u]
      BY <2>2, <3>2
    <3> QED
      BY <2>1, <3>1, <3>3
  <2> QED
    BY <2>3, <2>4
<1>15. Keep(states, heap)
  BY <1>4, <1>5, <1>9, <1>18
<1>16. /\ step = "fork" => states[n].lemmas = state[v].lemmas /\ j.todo = state[v].lemmas
       /\ step = "rebase" => states[n].lemmas = state[v].lemmas \ {j.lemma} /\ j.todo = states[n].lemmas
       /\ step # "enter" => j.mine = n
  BY <1>8, <1>9, <1>10, <1>11, <1>12, <1>14
<1>17. /\ ForksInv'
       /\ \A u \in Alive' \ {n} : u \in Alive /\ state'[u].lemmas = state[u].lemmas
                                  /\ \A i \in state[u].lemmas : View(u, i)' = View(u, i)
       /\ n \notin Alive
       /\ pc'[p] = step /\ job'[p] = j
       /\ \A q \in Clients : q # p => pc'[q] = pc[q] /\ job'[q] = job[q]
  <2>1. /\ pc[p] = "idle" /\ published' = published
        /\ started' = started + 1 /\ n = started + 2 /\ started' \in 0..MaxOps
        /\ j.src = v /\ j.lemma \in state[v].lemmas
    BY <1>2, <1>4, <1>5, <1>12
  <2>2. /\ \A u \in Versions \ {n} : states[u] = state[u]
        /\ \A i \in Lemmas : states[n].slot[i] = Lazy
    BY <1>14
  <2>3. Arrives(p, v, n, step, j, states)
    BY <1>13, <1>15, <1>16, <2>1, <2>2 DEF Arrives
  <2> QED
    BY <1>14, <2>3, NewRequest
<1> QED
  BY <1>2, <1>4, <1>12, <1>17

\* The invariant holds at the start.
LEMMA InitForks == Init => ForksInv
<1> SUFFICES ASSUME Init PROVE ForksInv
  OBVIOUS
<1>1. \A q \in Clients : pc[q] = "idle" /\ job[q] = NoJob
  BY DEF Init
<1>2. Alive = {1} /\ published = {1} /\ started = 0
  BY <1>1 DEF Init, Alive, HoldsSource, HoldsOwn, ForkSteps, EditSteps
<1>3. Lazy \in Slots /\ NoState \in ProofStates /\ NoTree \in Trees
  BY Numbers DEF Slots, NoState, ProofStates, NoTree, Trees
<1>4. 1 \in Versions
  BY Numbers
<1>5. /\ state[1] = [lemmas |-> Lemmas, slot |-> [l \in Lemmas |-> Lazy]]
      /\ \A s \in Versions \ {1} : state[s] = NoState
  BY <1>4 DEF Init
<1>6. Types
  <2>1. [lemmas |-> Lemmas, slot |-> [l \in Lemmas |-> Lazy]] \in ProofStates
    BY <1>3 DEF ProofStates
  <2>2. state \in [Versions -> ProofStates]
    BY <1>3, <2>1 DEF Init
  <2>3. pc \in [Clients -> Steps] /\ job \in [Clients -> Jobs] /\ heap \in [Roots -> Trees]
    BY <1>3, NoJobType DEF Init, Steps
  <2> QED
    BY <1>2, <1>4, <2>2, <2>3, Numbers DEF Types
<1>7. VersionsInv
  BY <1>1, <1>2, <1>5 DEF VersionsInv, HoldsOwn, ForkSteps, EditSteps
<1>8. \A l \in state[1].lemmas : state[1].slot[l] = Lazy /\ l \in Lemmas
  BY <1>5
<1>9. \A r : ~Held(r)
  BY <1>1, <1>2, <1>8 DEF Held, Lazy, Live
<1>10. RootsInv /\ DraftsInv
  BY <1>1, <1>9 DEF RootsInv, DraftsInv, Draft, HoldsOwn, ForkSteps, EditSteps
<1>11. TreesInv
  <2> SUFFICES ASSUME NEW l \in state[1].lemmas
               PROVE  /\ TreeOK(1, l, View(1, l))
                      /\ state[1].slot[l].is # "live" => View(1, l) = replay_root(state[1].lemmas, l)
    BY <1>2 DEF TreesInv
  <2>1. View(1, l) = replay_root(state[1].lemmas, l)
    BY <1>3, <1>8, ViewIs DEF Lazy
  <2> QED
    BY <1>5, <1>8, <2>1, ReplayType DEF TreeOK
<1>12. RequestsInv
  BY <1>1 DEF RequestsInv, RequestInv, RequestAt, EditSteps
<1> QED
  BY <1>6, <1>7, <1>10, <1>11, <1>12 DEF ForksInv

\* Every step preserves the invariant.
LEMMA NextForks == ForksInv /\ [Next]_vars => ForksInv'
<1> SUFFICES ASSUME ForksInv, [Next]_vars PROVE ForksInv'
  OBVIOUS
<1>1. ASSUME NEW p \in Clients, Begin(p) PROVE ForksInv'
  BY <1>1, BeginStep
<1>2. ASSUME NEW p \in Clients, Work(p) PROVE ForksInv'
  BY <1>2, EnterStep, ReplayStep, ForkStep, SelectStep, WriteStep, RebaseStep, CarryStep, PublishStep DEF Work
<1>3. ASSUME NEW p \in Clients, Fail(p) PROVE ForksInv'
  BY <1>3, FailStep
<1>4. CASE Unload
  BY <1>4, UnloadStep
<1>5. CASE UNCHANGED vars
  <2>1. Alive' = Alive
    BY <1>5 DEF vars, Alive, HoldsSource, HoldsOwn
  <2>2. Types' /\ VersionsInv'
    BY <1>5, <2>1 DEF vars, ForksInv, Types, VersionsInv, HoldsOwn, HoldsSource
  <2>3. \A s, l : View(s, l)' = View(s, l)
    BY <1>5 DEF vars, View
  <2>4. RootsInv'
    BY <1>5, <2>1 DEF vars, ForksInv, RootsInv, Held
  <2>5. DraftsInv'
    BY <1>5, <2>1 DEF vars, ForksInv, DraftsInv, Draft, HoldsOwn, SoleOwner
  <2>6. TreesInv'
    BY <1>5, <2>1, <2>3 DEF vars, ForksInv, TreesInv, TreeOK
  <2>7. ASSUME NEW q \in Clients PROVE RequestInv(q)'
    <3>1. \A r \in Clients : pc[q] = "replay" /\ r # q /\ pc[r] = "replay" =>
            job[r].src # job[q].src \/ job[r].lemma # job[q].lemma
      BY Request DEF RequestAt
    <3> QED
      BY <1>5, <2>3, <3>1, RequestKeeps DEF vars
  <2> QED
    BY <2>2, <2>4, <2>5, <2>6, <2>7 DEF ForksInv, RequestsInv
<1> QED
  BY <1>1, <1>2, <1>3, <1>4, <1>5 DEF Next

-----------------------------------------------------------------------------
(* The theorems.                                                           *)

\* The inductive invariant holds of the proof states of the web server, for any clients,
\* theory and requests (ProofState, its slots and copy_on_write).
THEOREM ForksInvariant == Spec => []ForksInv
<1>1. Init => ForksInv
  BY InitForks
<1>2. ForksInv /\ [Next]_vars => ForksInv'
  BY NextForks
<1> QED
  BY <1>1, <1>2, PTL DEF Spec

\* The types, for any clients, theory and requests.
THEOREM TypeCorrect == Spec => []TypeOK
<1>1. ForksInv => TypeOK
  BY DEF ForksInv, Types, TypeOK, ProofStates, Jobs
<1> QED
  BY <1>1, ForksInvariant, PTL

\* No tree of any version rests on an assumption that its theory does not have, nor
\* misses one that it would get.
THEOREM AssumptionsAreCurrentHolds == Spec => []AssumptionsAreCurrent
<1>1. ForksInv => AssumptionsAreCurrent
  BY DEF ForksInv, TreesInv, TreeOK, AssumptionsAreCurrent
<1> QED
  BY <1>1, ForksInvariant, PTL

-----------------------------------------------------------------------------
(***************************************************************************)
(* ProofForks implements ProofVersions.  The draft of a request is the     *)
(* source version until its fork or its deletion is complete, and its own  *)
(* version from then on; so cloning and sharing are stuttering steps, and  *)
(* a deletion happens at its last step.  The action lemmas of              *)
(* ProofForks_proofs say which trees a step leaves alone.                  *)
(***************************************************************************)

ShownMap == [v \in published |-> ProofsOf(v)]
DraftMap == [p \in Clients |-> Drafting(p)]

-----------------------------------------------------------------------------
(* What a step leaves alone.                                               *)

\* The other requests are where they were.
LEMMA OthersSame ==
  ASSUME Types, NEW p \in Clients, Begin(p) \/ Work(p) \/ Fail(p), NEW q \in Clients, q # p
  PROVE  pc'[q] = pc[q] /\ job'[q] = job[q]
<1>1. CASE Begin(p)
  BY <1>1 DEF Begin, Goto, Types
<1>2. CASE Enter(p)
  <2>1. \/ Goto(p, "replay") /\ UNCHANGED job
        \/ Answer(p)
    BY <1>2 DEF Enter
  <2> QED
    BY <2>1 DEF Goto, Answer, Types
<1>3. CASE Replay(p)
  BY <1>3 DEF Replay, Goto, Answer, Types
<1>4. CASE Fork(p)
  BY <1>4 DEF Fork, Goto, Types
<1>5. CASE Select(p)
  BY <1>5 DEF Select, Goto, Types
<1>6. CASE Write(p)
  BY <1>6 DEF Write, Goto, Types
<1>7. CASE Rebase(p)
  BY <1>7 DEF Rebase, Carried, Goto, Types
<1>8. CASE Carry(p)
  BY <1>8 DEF Carry, Carried, Goto, Types
<1>9. CASE Publish(p)
  BY <1>9 DEF Publish, Answer, Goto, Types
<1>10. CASE Fail(p)
  BY <1>10 DEF Fail, Abandon, Goto, Types
<1> QED
  BY <1>1, <1>2, <1>3, <1>4, <1>5, <1>6, <1>7, <1>8, <1>9, <1>10 DEF Work

\* A version whose lemmas and trees are as before.
Same(u) == state'[u].lemmas = state[u].lemmas /\ \A k \in state[u].lemmas : View(u, k)' = View(u, k)

\* Such a version shows the same proofs.
LEMMA SameProofs ==
  ASSUME NEW u, Same(u)
  PROVE  ProofsOf(u)' = ProofsOf(u)
  BY DEF Same, ProofsOf

\* A request that goes on with what it had.
LEMMA SameDraft ==
  ASSUME NEW q \in Clients, pc'[q] = pc[q], job'[q] = job[q],
         \A u \in Alive' : (HoldsSource(q) /\ u = job[q].src) \/ (HoldsOwn(q) /\ u = job[q].mine) => Same(u)
  PROVE  Drafting(q)' = Drafting(q)
<1>1. CASE ~HoldsOwn(q)
  BY <1>1 DEF Drafting, HoldsOwn
<1>2. CASE HoldsOwn(q)
  <2>1. PICK u : u = IF pc[q] \in ForkSteps THEN job[q].src ELSE job[q].mine
    OBVIOUS
  <2>2. (HoldsSource(q) /\ u = job[q].src) \/ (HoldsOwn(q) /\ u = job[q].mine)
    BY <1>2, <2>1 DEF HoldsSource
  <2>3. u \in Alive'
    BY <2>2 DEF Alive, HoldsSource, HoldsOwn
  <2>4. ProofsOf(u)' = ProofsOf(u)
    BY <2>2, <2>3, SameProofs
  <2>5. Drafting(q) = [open |-> TRUE, proofs |-> ProofsOf(u)]
    BY <1>2, <2>1 DEF Drafting
  <2>6. Drafting(q)' = [open |-> TRUE, proofs |-> ProofsOf(u)']
    BY <1>2, <2>1 DEF Drafting, HoldsOwn
  <2> QED
    BY <2>4, <2>5, <2>6
<1> QED
  BY <1>1, <1>2

\* Whoever holds no draft of its own has none.
LEMMA NoDrafting ==
  ASSUME NEW q \in Clients
  PROVE  /\ ~HoldsOwn(q) => Drafting(q) = Abstract!NoDraft
         /\ ~HoldsOwn(q)' => Drafting(q)' = Abstract!NoDraft
  BY DEF Drafting, Abstract!NoDraft

\* A step of p leaves every version alone, but for its own draft.
Spares(p) == \A u \in Alive' \cap Alive : ~(HoldsOwn(p) /\ u = job[p].mine) => Same(u)

\* Every step but Publish and Unload, which say so themselves, spares the other versions.
LEMMA Sparing ==
  ASSUME ForksInv, NEW p \in Clients, Begin(p) \/ Still(p) \/ AllStill
  PROVE  Spares(p)
<1>1. CASE Begin(p)
  BY <1>1, BeginStep DEF Spares, Same
<1>2. CASE Still(p) \/ AllStill
  BY <1>2 DEF Still, AllStill, Spares, Same
<1> QED
  BY <1>1, <1>2

\* So the published proofs and the drafts of the others stay what they are.
LEMMA Frame ==
  ASSUME ForksInv, NEW p \in Clients, Begin(p) \/ Work(p) \/ Fail(p), Spares(p)
  PROVE  /\ \A v \in published \cap published' : ProofsOf(v)' = ProofsOf(v)
         /\ \A q \in Clients : q # p => Drafting(q)' = Drafting(q)
<1>1. ASSUME NEW v \in published \cap published' PROVE ProofsOf(v)' = ProofsOf(v)
  <2>1. v \in Alive' /\ v \in Alive /\ ~(HoldsOwn(p) /\ v = job[p].mine)
    BY DEF Alive, ForksInv, VersionsInv
  <2> QED
    BY <2>1, SameProofs DEF Spares
<1>2. ASSUME NEW q \in Clients, q # p PROVE Drafting(q)' = Drafting(q)
  <2>1. pc'[q] = pc[q] /\ job'[q] = job[q]
    BY <1>2, OthersSame DEF ForksInv
  <2>2. \A u : (HoldsSource(q) /\ u = job[q].src) \/ (HoldsOwn(q) /\ u = job[q].mine) =>
          u \in Alive /\ ~(HoldsOwn(p) /\ u = job[p].mine)
    BY <1>2 DEF Alive, ForksInv, VersionsInv
  <2>3. \A u \in Alive' : (HoldsSource(q) /\ u = job[q].src) \/ (HoldsOwn(q) /\ u = job[q].mine) => Same(u)
    BY <2>2 DEF Spares
  <2> QED
    BY <2>1, <2>3, SameDraft
<1> QED
  BY <1>1, <1>2

\* A step of p that publishes nothing, and after which its draft is d.
LEMMA DraftStep ==
  ASSUME ForksInv, NEW p \in Clients, Begin(p) \/ Work(p) \/ Fail(p), Spares(p),
         published' = published, NEW d, Drafting(p)' = d
  PROVE  /\ ShownMap' = ShownMap
         /\ DraftMap' = [DraftMap EXCEPT ![p] = d]
<1>1. ShownMap' = ShownMap
  BY Frame DEF ShownMap
<1>2. \A q \in Clients : Drafting(q)' = IF q = p THEN d ELSE Drafting(q)
  BY Frame
<1>3. DraftMap' = [q \in Clients |-> Drafting(q)']
  BY DEF DraftMap
<1> QED
  BY <1>1, <1>2, <1>3 DEF DraftMap

\* One that leaves its draft alone, too, is nothing to the versions.
LEMMA Stutters ==
  ASSUME ForksInv, NEW p \in Clients, Begin(p) \/ Work(p) \/ Fail(p), Spares(p),
         published' = published, Drafting(p)' = Drafting(p)
  PROVE  UNCHANGED Abstract!versionVars
<1>1. PICK d : d = Drafting(p)
  OBVIOUS
<1>2. ShownMap' = ShownMap /\ DraftMap' = [DraftMap EXCEPT ![p] = d]
  BY <1>1, DraftStep
<1>3. DraftMap' = DraftMap
  BY <1>1, <1>2 DEF DraftMap
<1> QED
  BY <1>2, <1>3 DEF Abstract!versionVars, ShownMap, DraftMap

-----------------------------------------------------------------------------
(* Step by step.                                                           *)

\* The draft of a request that holds its source, and of one that does not.
LEMMA DraftIs ==
  ASSUME NEW p \in Clients, NEW s, NEW m, s = job[p].src, m = job[p].mine
  PROVE  /\ pc[p] \in ForkSteps => Drafting(p) = Abstract!Draft(ProofsOf(s))
         /\ pc[p] \in EditSteps \cup {"publish"} => Drafting(p) = Abstract!Draft(ProofsOf(m))
  BY DEF Drafting, HoldsOwn, ForkSteps, EditSteps, Abstract!Draft

\* The same after a step.
LEMMA DraftIsNext ==
  ASSUME NEW p \in Clients, NEW s, NEW m, s = job'[p].src, m = job'[p].mine
  PROVE  /\ pc'[p] \in ForkSteps => Drafting(p)' = Abstract!Draft(ProofsOf(s)')
         /\ pc'[p] \in EditSteps \cup {"publish"} => Drafting(p)' = Abstract!Draft(ProofsOf(m)')
  BY DEF Drafting, HoldsOwn, ForkSteps, EditSteps, Abstract!Draft

\* A request that edits or deletes opens a draft; a reader is nothing to the versions.
LEMMA BeginMaps ==
  ASSUME ForksInv, NEW p \in Clients, Begin(p)
  PROVE  Abstract!VersionsNext \/ UNCHANGED Abstract!versionVars
<1>1. /\ pc[p] = "idle" /\ published' = published /\ pc'[p] \in {"enter", "fork", "rebase"} /\ job'[p].src \in published
      /\ Spares(p)
  BY BeginStep, Sparing
<1>2. ~HoldsOwn(p) /\ Drafting(p) = Abstract!NoDraft
  BY <1>1, NoDrafting DEF HoldsOwn, ForkSteps, EditSteps
<1>3. CASE pc'[p] = "enter"
  <2>1. ~HoldsOwn(p)'
    BY <1>3 DEF HoldsOwn, ForkSteps, EditSteps
  <2>2. Drafting(p)' = Drafting(p)
    BY <1>2, <2>1, NoDrafting
  <2> QED
    BY <1>1, <2>2, Stutters
<1>4. CASE pc'[p] \in ForkSteps
  <2>1. PICK v \in published : v = job'[p].src
    BY <1>1
  <2>2. PICK d : d = Abstract!Draft(ShownMap[v])
    OBVIOUS
  <2>3. ProofsOf(v)' = ProofsOf(v) /\ ShownMap[v] = ProofsOf(v)
    BY <1>1, Frame DEF ShownMap
  <2>4. Drafting(p)' = d
    <3>1. PICK m : m = job'[p].mine
      OBVIOUS
    <3>2. Drafting(p)' = Abstract!Draft(ProofsOf(v)')
      BY <1>4, <2>1, <3>1, DraftIsNext
    <3> QED
      BY <2>2, <2>3, <3>2
  <2>5. ShownMap' = ShownMap /\ DraftMap' = [DraftMap EXCEPT ![p] = d]
    BY <1>1, <2>4, DraftStep
  <2>6. ~DraftMap[p].open
    BY <1>2 DEF DraftMap, Abstract!NoDraft
  <2>7. v \in DOMAIN ShownMap
    BY DEF ShownMap
  <2>8. Abstract!Open(p)
    BY <2>2, <2>5, <2>6, <2>7 DEF Abstract!Open, ShownMap, DraftMap
  <2> QED
    BY <2>8 DEF Abstract!VersionsNext
<1> QED
  BY <1>1, <1>3, <1>4 DEF ForkSteps

\* Reading and replaying are nothing to the versions.
LEMMA ReadMaps ==
  ASSUME ForksInv, NEW p \in Clients, Enter(p) \/ Replay(p)
  PROVE  UNCHANGED Abstract!versionVars
<1>1. Still(p) /\ ~HoldsOwn(p) /\ ~HoldsOwn(p)' /\ published' = published /\ Work(p)
  BY EnterStep, ReplayStep DEF Work
<1>2. Drafting(p)' = Drafting(p)
  BY <1>1, NoDrafting
<1> QED
  BY <1>1, <1>2, Sparing, Stutters

\* Cloning slot by slot is nothing to the versions: the draft is the source throughout.
LEMMA ForkMaps ==
  ASSUME ForksInv, NEW p \in Clients, Fork(p)
  PROVE  UNCHANGED Abstract!versionVars
<1>1. /\ Still(p) /\ published' = published /\ Work(p) /\ job'[p].mine = job[p].mine /\ pc'[p] \in {"fork", "open"}
      /\ pc'[p] = "fork" => job'[p].src = job[p].src
      /\ pc'[p] = "open" => \E s, m \in Versions : /\ s = job[p].src /\ m = job[p].mine
           /\ state'[m].lemmas = state[s].lemmas
           /\ \A k \in state[s].lemmas : View(m, k)' = View(s, k)
  BY ForkStep DEF Work
<1>2. pc[p] = "fork" /\ HoldsSource(p) /\ HoldsOwn(p)
  BY DEF Fork, HoldsSource, HoldsOwn, ForkSteps
<1>3. PICK s, m \in Versions : s = job[p].src /\ m = job[p].mine /\ s # m /\ s \in Alive
  BY <1>2, HeldVersions DEF ForksInv, VersionsInv
<1>4. Drafting(p) = Abstract!Draft(ProofsOf(s))
  BY <1>2, <1>3, DraftIs DEF ForkSteps
<1>5. CASE pc'[p] = "fork"
  <2>1. s \in Alive'
    BY <1>1, <1>3, <1>5 DEF Alive, HoldsSource, ForkSteps
  <2>2. ProofsOf(s)' = ProofsOf(s)
    BY <1>1, <1>3, <2>1, Sparing, SameProofs DEF Spares
  <2>3. Drafting(p)' = Abstract!Draft(ProofsOf(s)')
    BY <1>1, <1>3, <1>5, DraftIsNext DEF ForkSteps
  <2> QED
    BY <1>1, <1>4, <2>2, <2>3, Sparing, Stutters
<1>6. CASE pc'[p] = "open"
  <2>1. ProofsOf(m)' = ProofsOf(s)
    BY <1>1, <1>3, <1>6 DEF ProofsOf
  <2>2. PICK t : t = job'[p].src
    OBVIOUS
  <2>3. Drafting(p)' = Abstract!Draft(ProofsOf(m)')
    BY <1>1, <1>3, <1>6, <2>2, DraftIsNext DEF EditSteps
  <2> QED
    BY <1>1, <1>4, <2>1, <2>3, Sparing, Stutters
<1> QED
  BY <1>1, <1>5, <1>6

\* Going live is nothing to the versions.
LEMMA SelectMaps ==
  ASSUME ForksInv, NEW p \in Clients, Select(p)
  PROVE  UNCHANGED Abstract!versionVars
<1>1. AllStill /\ pc[p] = "open" /\ pc'[p] = "write" /\ job'[p].mine = job[p].mine /\ published' = published /\ Work(p)
  BY SelectStep DEF Work
<1>2. PICK m : m = job[p].mine
  OBVIOUS
<1>3. PICK s, t : s = job[p].src /\ t = job'[p].src
  OBVIOUS
<1>4. Drafting(p) = Abstract!Draft(ProofsOf(m)) /\ Drafting(p)' = Abstract!Draft(ProofsOf(m)')
  BY <1>1, <1>2, <1>3, DraftIs, DraftIsNext DEF EditSteps
<1>5. m \in Alive'
  BY <1>1, <1>2 DEF Alive, HoldsOwn, EditSteps
<1>6. ProofsOf(m)' = ProofsOf(m)
  BY <1>1, <1>5, SameProofs DEF AllStill, Same
<1> QED
  BY <1>1, <1>4, <1>6, Sparing, Stutters

\* The draft with other proofs.
LEMMA DraftExcept ==
  ASSUME NEW f, NEW g
  PROVE  [Abstract!Draft(f) EXCEPT !.proofs = g] = Abstract!Draft(g)
<1>1. PICK r : r = Abstract!Draft(f)
  OBVIOUS
<1>2. PICK o : o = TRUE
  OBVIOUS
<1>3. r = [open |-> o, proofs |-> f] /\ Abstract!Draft(g) = [open |-> o, proofs |-> g]
  BY <1>1, <1>2 DEF Abstract!Draft
<1>4. [r EXCEPT !.proofs = g] = [open |-> r.open, proofs |-> g]
  BY <1>3
<1>5. r.open = o
  BY <1>3
<1> QED
  BY <1>1, <1>3, <1>4, <1>5

\* A write changes one proof of the draft.
LEMMA WriteMaps ==
  ASSUME ForksInv, NEW p \in Clients, Write(p)
  PROVE  Abstract!Change(p)
<1>1. /\ Still(p) /\ pc[p] = "write" /\ pc'[p] \in {"open", "publish"} /\ job'[p].mine = job[p].mine
      /\ published' = published /\ Work(p)
  BY WriteStep DEF Work
<1>2. PICK m \in Versions : m = job[p].mine /\ m \in Alive' /\ \E l \in state[m].lemmas :
              /\ View(m, l)' = Edited(View(m, l), m - 1, job[p].below)
              /\ job[p].below => View(m, l).steps # <<>>
              /\ \A k \in state[m].lemmas \ {l} : View(m, k)' = View(m, k)
  BY WriteStep
<1>3. PICK l \in state[m].lemmas :
              /\ View(m, l)' = Edited(View(m, l), m - 1, job[p].below)
              /\ job[p].below => View(m, l).steps # <<>>
              /\ \A k \in state[m].lemmas \ {l} : View(m, k)' = View(m, k)
  BY <1>2
<1>4. PICK e \in Versions : e = m - 1
  <2>1. m # 1
    BY <1>1, <1>2 DEF ForksInv, VersionsInv, HoldsOwn, EditSteps
  <2> QED
    BY <2>1, Numbers
<1>5. PICK old \in Trees : old = View(m, l)
  BY <1>1, <1>2, Views, HeldVersions DEF ForksInv, HoldsOwn, EditSteps
<1>6. PICK t : t = Edited(old, e, job[p].below)
  OBVIOUS
<1>7. PICK f : f = ProofsOf(m)
  OBVIOUS
<1>8. /\ f = [k \in state[m].lemmas |-> View(m, k)] /\ DOMAIN f = state[m].lemmas /\ f[l] = old
  BY <1>5, <1>7 DEF ProofsOf
<1>9. ProofsOf(m)' = [f EXCEPT ![l] = t]
  <2>1. state'[m].lemmas = state[m].lemmas
    BY <1>1, <1>2 DEF Still
  <2>2. \A k \in state[m].lemmas : View(m, k)' = IF k = l THEN t ELSE f[k]
    BY <1>3, <1>4, <1>5, <1>6, <1>8
  <2>3. ProofsOf(m)' = [k \in state[m].lemmas |-> IF k = l THEN t ELSE f[k]]
    BY <2>1, <2>2 DEF ProofsOf
  <2> QED
    BY <1>8, <2>3
<1>10. PICK d : d = Abstract!Draft([f EXCEPT ![l] = t])
  OBVIOUS
<1>11. DraftMap[p] = Abstract!Draft(f) /\ Drafting(p)' = d
  <2>1. PICK s, n : s = job[p].src /\ n = job'[p].src
    OBVIOUS
  <2>2. Drafting(p) = Abstract!Draft(ProofsOf(m)) /\ Drafting(p)' = Abstract!Draft(ProofsOf(m)')
    BY <1>1, <1>2, <2>1, DraftIs, DraftIsNext DEF EditSteps
  <2> QED
    BY <1>7, <1>9, <1>10, <2>2 DEF DraftMap
<1>12. ShownMap' = ShownMap /\ DraftMap' = [DraftMap EXCEPT ![p] = d]
  BY <1>1, <1>11, Sparing, DraftStep
<1>13. DraftMap[p].proofs = f
  BY <1>11 DEF Abstract!Draft
<1>14. DraftMap' = [DraftMap EXCEPT ![p].proofs[l] = t]
  <2>1. PICK g : g = [f EXCEPT ![l] = t]
    OBVIOUS
  <2>2. d = Abstract!Draft(g) /\ DraftMap[p] = Abstract!Draft(f)
    BY <1>10, <1>11, <2>1
  <2>3. d = [DraftMap[p] EXCEPT !.proofs = g]
    BY <2>2, DraftExcept
  <2> QED
    BY <1>12, <1>13, <2>1, <2>3
<1>15. CASE ~job[p].below
  <2>1. DraftMap' = [DraftMap EXCEPT ![p].proofs[l] = [asm |-> f[l].asm, steps |-> <<e>>, wrapped |-> FALSE]]
    BY <1>6, <1>8, <1>14, <1>15 DEF Edited
  <2>2. \E k \in DOMAIN DraftMap[p].proofs : \E n \in Versions :
          DraftMap' = [DraftMap EXCEPT ![p].proofs[k] =
                         [asm |-> DraftMap[p].proofs[k].asm, steps |-> <<n>>, wrapped |-> FALSE]]
    BY <1>4, <1>8, <1>13, <2>1
  <2> QED
    BY <1>12, <2>2 DEF Abstract!Change, ShownMap, DraftMap
<1>16. CASE job[p].below
  <2>1. t = [f[l] EXCEPT !.steps = Append(@, e)]
    BY <1>6, <1>8, <1>16 DEF Edited
  <2>2. DraftMap' = [DraftMap EXCEPT ![p].proofs[l].steps = Append(@, e)]
    BY <1>13, <1>14, <2>1
  <2>3. f[l].steps # <<>>
    BY <1>3, <1>5, <1>8, <1>16
  <2>4. \E k \in DOMAIN DraftMap[p].proofs : \E n \in Versions :
          /\ DraftMap[p].proofs[k].steps # <<>>
          /\ DraftMap' = [DraftMap EXCEPT ![p].proofs[k].steps = Append(@, n)]
    BY <1>4, <1>8, <1>13, <2>2, <2>3
  <2>5. \E k \in DOMAIN [q \in Clients |-> Drafting(q)][p].proofs : \E n \in Versions :
          \/ [q \in Clients |-> Drafting(q)]' =
               [[q \in Clients |-> Drafting(q)] EXCEPT ![p].proofs[k] =
                  [asm |-> [q \in Clients |-> Drafting(q)][p].proofs[k].asm, steps |-> <<n>>, wrapped |-> FALSE]]
          \/ /\ [q \in Clients |-> Drafting(q)][p].proofs[k].steps # <<>>
             /\ [q \in Clients |-> Drafting(q)]' =
                  [[q \in Clients |-> Drafting(q)] EXCEPT ![p].proofs[k].steps =
                     Append([q \in Clients |-> Drafting(q)][p].proofs[k].steps, n)]
    <3>1. PICK k \in DOMAIN DraftMap[p].proofs, n \in Versions :
            /\ DraftMap[p].proofs[k].steps # <<>>
            /\ DraftMap' = [DraftMap EXCEPT ![p].proofs[k].steps = Append(DraftMap[p].proofs[k].steps, n)]
      BY <2>4
    <3> QED
      BY <3>1 DEF DraftMap
  <2>6. UNCHANGED [v \in published |-> ProofsOf(v)]
    BY <1>12 DEF ShownMap
  <2> QED
    BY <2>5, <2>6, Zenon DEF Abstract!Change
<1> QED
  BY <1>15, <1>16

\* A deletion removes the lemma in one step, the last of rebase_onto.
LEMMA RemovalMaps ==
  ASSUME ForksInv, NEW p \in Clients, Rebase(p) \/ Carry(p)
  PROVE  Abstract!Remove(p) \/ UNCHANGED Abstract!versionVars
<1>1. /\ Still(p) /\ pc[p] \in {"rebase", "carry"} /\ pc'[p] \in {"rebase", "carry", "publish"} /\ job'[p].mine = job[p].mine
      /\ published' = published /\ Work(p)
      /\ pc'[p] # "publish" => job'[p].src = job[p].src
      /\ pc'[p] = "publish" => \E s, m \in Versions, x \in Lemmas : s = job[p].src /\ m = job[p].mine /\ Removed(s, m, x)
  BY RebaseStep, CarryStep DEF Work
<1>2. PICK s, m \in Versions : s = job[p].src /\ m = job[p].mine /\ s # m
  BY <1>1, HeldVersions DEF ForksInv, VersionsInv, HoldsSource, HoldsOwn, ForkSteps
<1>3. Drafting(p) = Abstract!Draft(ProofsOf(s))
  BY <1>1, <1>2, DraftIs DEF ForkSteps
<1>4. CASE pc'[p] # "publish"
  <2>1. s \in Alive' /\ s \in Alive
    BY <1>1, <1>2, <1>4 DEF Alive, HoldsSource, ForkSteps
  <2>2. ProofsOf(s)' = ProofsOf(s)
    BY <1>1, <1>2, <2>1, Sparing, SameProofs DEF Spares
  <2>3. Drafting(p)' = Abstract!Draft(ProofsOf(s)')
    BY <1>1, <1>2, <1>4, DraftIsNext DEF ForkSteps
  <2> QED
    BY <1>1, <1>3, <2>2, <2>3, Sparing, Stutters
<1>5. CASE pc'[p] = "publish"
  <2>1. PICK x \in Lemmas : Removed(s, m, x)
    BY <1>1, <1>2, <1>5
  <2>2. PICK f : f = ProofsOf(s)
    OBVIOUS
  <2>3. DOMAIN f = state[s].lemmas /\ \A k \in state[s].lemmas : f[k] = View(s, k)
    BY <2>2 DEF ProofsOf
  <2>4. PICK g : g = [l \in DOMAIN f \ {x} |->
                        IF x \in Reuse /\ x < l
                        THEN [asm |-> f[l].asm \ {x}, steps |-> f[l].steps, wrapped |-> f[l].steps # <<>>]
                        ELSE f[l]]
    OBVIOUS
  <2>5. ProofsOf(m)' = g
    <3>1. state'[m].lemmas = DOMAIN f \ {x}
      BY <2>1, <2>3 DEF Removed
    <3>2. \A l \in DOMAIN f \ {x} : View(m, l)' = g[l]
      BY <2>1, <2>3, <2>4 DEF Removed, AfterRemoval
    <3> QED
      BY <2>4, <3>1, <3>2 DEF ProofsOf
  <2>6. PICK d : d = Abstract!Draft(g)
    OBVIOUS
  <2>7. Drafting(p)' = d
    <3>1. PICK t : t = job'[p].src
      OBVIOUS
    <3>2. Drafting(p)' = Abstract!Draft(ProofsOf(m)')
      BY <1>1, <1>2, <1>5, <3>1, DraftIsNext
    <3> QED
      BY <2>5, <2>6, <3>2
  <2>8. ShownMap' = ShownMap /\ DraftMap' = [DraftMap EXCEPT ![p] = d]
    BY <1>1, <2>7, Sparing, DraftStep
  <2>9. DraftMap[p] = Abstract!Draft(f) /\ DraftMap[p].proofs = f
    BY <1>3, <2>2 DEF DraftMap, Abstract!Draft
  <2>10. DraftMap' = [DraftMap EXCEPT ![p].proofs = g]
    <3>1. d = [DraftMap[p] EXCEPT !.proofs = g]
      BY <2>6, <2>9, DraftExcept
    <3> QED
      BY <2>8, <3>1
  <2>11. x \in DOMAIN DraftMap[p].proofs
    BY <2>1, <2>3, <2>9 DEF Removed
  <2>12. Abstract!Remove(p)
    <3>1. \E y \in DOMAIN DraftMap[p].proofs :
            DraftMap' = [DraftMap EXCEPT ![p].proofs =
              [l \in DOMAIN DraftMap[p].proofs \ {y} |->
                 IF y \in Reuse /\ y < l
                 THEN [asm |-> DraftMap[p].proofs[l].asm \ {y}, steps |-> DraftMap[p].proofs[l].steps,
                       wrapped |-> DraftMap[p].proofs[l].steps # <<>>]
                 ELSE DraftMap[p].proofs[l]]]
      BY <2>4, <2>9, <2>10, <2>11
    <3> QED
      BY <2>8, <3>1 DEF Abstract!Remove, ShownMap, DraftMap
  <2> QED
    BY <2>12
<1> QED
  BY <1>4, <1>5

\* Publishing shows the draft under a new number.
LEMMA PublishMaps ==
  ASSUME ForksInv, NEW p \in Clients, Publish(p)
  PROVE  Abstract!Publish(p)
<1>1. /\ AllStill /\ pc[p] = "publish" /\ pc'[p] = "idle" /\ job[p].mine \in Alive
      /\ published' = published \cup {job[p].mine} /\ Work(p)
  BY PublishStep DEF Work
<1>2. PICK m \in Versions : m = job[p].mine /\ m \notin published
  BY <1>1, HeldVersions DEF ForksInv, VersionsInv, HoldsOwn
<1>3. Drafting(p) = Abstract!Draft(ProofsOf(m)) /\ Drafting(p)' = Abstract!NoDraft
  <2>1. PICK s : s = job[p].src
    OBVIOUS
  <2>2. ~HoldsOwn(p)'
    BY <1>1 DEF HoldsOwn, ForkSteps, EditSteps
  <2> QED
    BY <1>1, <1>2, <2>1, <2>2, DraftIs, NoDrafting
<1>4. ProofsOf(m)' = ProofsOf(m)
  <2>1. m \in Alive'
    BY <1>1, <1>2 DEF Alive
  <2> QED
    BY <1>1, <2>1, SameProofs DEF AllStill, Same
<1>5. \A v \in published : ProofsOf(v)' = ProofsOf(v)
  BY <1>1, Sparing, Frame
<1>6. \A q \in Clients : q # p => Drafting(q)' = Drafting(q)
  BY <1>1, Sparing, Frame
<1>7. DraftMap' = [DraftMap EXCEPT ![p] = Abstract!NoDraft]
  BY <1>3, <1>6 DEF DraftMap
<1>8. DraftMap[p].open /\ DraftMap[p].proofs = ProofsOf(m)
  BY <1>3 DEF DraftMap, Abstract!Draft
<1>9. ShownMap' = [w \in DOMAIN ShownMap \cup {m} |-> IF w = m THEN DraftMap[p].proofs ELSE ShownMap[w]]
  <2>1. \A w \in published \cup {m} : ProofsOf(w)' = IF w = m THEN DraftMap[p].proofs ELSE ShownMap[w]
    BY <1>2, <1>4, <1>5, <1>8 DEF ShownMap
  <2>2. ShownMap' = [w \in published \cup {m} |-> ProofsOf(w)']
    BY <1>1, <1>2 DEF ShownMap
  <2>3. DOMAIN ShownMap = published
    BY DEF ShownMap
  <2> QED
    BY <2>1, <2>2, <2>3
<1>10. m \in Versions \ DOMAIN ShownMap
  BY <1>2 DEF ShownMap
<1> QED
  BY <1>7, <1>8, <1>9, <1>10 DEF Abstract!Publish, ShownMap, DraftMap

\* A request that fails gives its draft up.
LEMMA FailMaps ==
  ASSUME ForksInv, NEW p \in Clients, Fail(p)
  PROVE  Abstract!GiveUp(p)
<1>1. AllStill /\ pc'[p] = "idle" /\ published' = published
  BY FailStep
<1>2. PICK d : d = Abstract!NoDraft
  OBVIOUS
<1>3. Drafting(p)' = d
  BY <1>1, <1>2, NoDrafting DEF HoldsOwn, ForkSteps, EditSteps
<1>4. ShownMap' = ShownMap /\ DraftMap' = [DraftMap EXCEPT ![p] = d]
  BY <1>1, <1>3, Sparing, DraftStep
<1> QED
  BY <1>2, <1>4 DEF Abstract!GiveUp, ShownMap, DraftMap

\* Unloading removes one version and changes no other.
LEMMA UnloadMaps ==
  ASSUME ForksInv, Unload
  PROVE  Abstract!Unload
<1>1. AllStill /\ UNCHANGED <<pc, job>>
  BY UnloadStep DEF Unload
<1>2. PICK v \in published : published' = published \ {v}
  BY DEF Unload
<1>3. \A w \in published' : ProofsOf(w)' = ProofsOf(w)
  <2> SUFFICES ASSUME NEW w \in published' PROVE ProofsOf(w)' = ProofsOf(w)
    OBVIOUS
  <2>1. w \in Alive'
    BY DEF Alive
  <2> QED
    BY <1>1, <2>1, SameProofs DEF AllStill, Same
<1>4. \A q \in Clients : Drafting(q)' = Drafting(q)
  <2> SUFFICES ASSUME NEW q \in Clients PROVE Drafting(q)' = Drafting(q)
    OBVIOUS
  <2>1. \A u \in Alive' : Same(u)
    BY <1>1 DEF AllStill, Same
  <2> QED
    BY <1>1, <2>1, SameDraft
<1>5. ShownMap' = [w \in DOMAIN ShownMap \ {v} |-> ShownMap[w]]
  BY <1>2, <1>3 DEF ShownMap
<1>6. DraftMap' = DraftMap
  BY <1>4 DEF DraftMap
<1>7. v \in DOMAIN ShownMap
  BY DEF ShownMap
<1> QED
  BY <1>5, <1>6, <1>7 DEF Abstract!Unload, ShownMap, DraftMap

-----------------------------------------------------------------------------
(* The refinement.                                                         *)

\* At the start there is the loaded version and no draft.
LEMMA InitMaps == Init => Abstract!VersionsInit
<1> SUFFICES ASSUME Init PROVE Abstract!VersionsInit
  OBVIOUS
<1>1. published = {1} /\ 1 \in Versions
  BY Numbers DEF Init
<1>2. state[1].lemmas = Lemmas /\ \A l \in Lemmas : state[1].slot[l] = Lazy /\ Lazy \in Slots
  BY <1>1 DEF Init, Slots
<1>3. \A l \in Lemmas : View(1, l) = replay_root(Lemmas, l)
  BY <1>2, ViewIs DEF Lazy
<1>4. ProofsOf(1) = [l \in Lemmas |-> replay_root(Lemmas, l)]
  BY <1>2, <1>3 DEF ProofsOf
<1>5. \A q \in Clients : Drafting(q) = Abstract!NoDraft
  <2>1. \A q \in Clients : ~HoldsOwn(q)
    BY DEF Init, HoldsOwn, ForkSteps, EditSteps
  <2> QED
    BY <2>1, NoDrafting
<1>6. [v \in published |-> ProofsOf(v)] = [v \in {1} |-> [l \in Lemmas |-> replay_root(Lemmas, l)]]
  BY <1>1, <1>4
<1> QED
  BY <1>5, <1>6 DEF Abstract!VersionsInit

\* Every step is a step of the versions, or nothing to them.
LEMMA StepMaps == ForksInv /\ [Next]_vars => [Abstract!VersionsNext]_(Abstract!versionVars)
<1> SUFFICES ASSUME ForksInv, [Next]_vars PROVE Abstract!VersionsNext \/ UNCHANGED Abstract!versionVars
  OBVIOUS
<1>1. ASSUME NEW p \in Clients, Begin(p) PROVE Abstract!VersionsNext \/ UNCHANGED Abstract!versionVars
  BY <1>1, BeginMaps
<1>2. ASSUME NEW p \in Clients, Work(p) PROVE Abstract!VersionsNext \/ UNCHANGED Abstract!versionVars
  BY <1>2, ReadMaps, ForkMaps, SelectMaps, WriteMaps, RemovalMaps, PublishMaps DEF Work, Abstract!VersionsNext
<1>3. ASSUME NEW p \in Clients, Fail(p) PROVE Abstract!VersionsNext \/ UNCHANGED Abstract!versionVars
  BY <1>3, FailMaps DEF Abstract!VersionsNext
<1>4. CASE Unload
  BY <1>4, UnloadMaps DEF Abstract!VersionsNext
<1>5. CASE UNCHANGED vars
  BY <1>5 DEF vars, Abstract!versionVars, ProofsOf, View, Drafting, HoldsOwn
<1> QED
  BY <1>1, <1>2, <1>3, <1>4, <1>5 DEF Next

\* Copying slot by slot, sharing roots and writing in place when nobody shares them is as
\* good as independent copies: what is published never changes, and a deletion keeps the
\* proofs it invalidates (ProofState::fork, copy_on_write, rebase_onto).
THEOREM ImplementsVersionsHolds == Spec => ImplementsVersions
<1>1. Init => Abstract!VersionsInit
  BY InitMaps
<1>2. ForksInv /\ [Next]_vars => [Abstract!VersionsNext]_(Abstract!versionVars)
  BY StepMaps
<1> QED
  BY <1>1, <1>2, ForksInvariant, PTL DEF Spec, ImplementsVersions, Abstract!VersionsSpec
=============================================================================
