----------------------------- MODULE ProofForks -----------------------------
(***************************************************************************)
(* The interactive proofs of the web server: ProofState and its slots, one *)
(* per lemma (tamarin-server/src/handlers/proof_tree.rs), and the requests *)
(* that read, edit and delete (tamarin-server/src/handlers/theory.rs).     *)
(*                                                                         *)
(* Every version of a theory has a proof state.  A slot is lazy (nothing   *)
(* replayed yet), a snapshot (a tree without constraint systems, for the   *)
(* overview) or live: a reference to a root that several versions share    *)
(* until one of them writes.  A request works on an unpublished fork, so   *)
(* nobody else sees what it does before it publishes; but forking, reading *)
(* and deleting take a published version's slot locks one at a time, and   *)
(* other requests replay, fork, publish and unload in between.             *)
(*                                                                         *)
(* A tree is abstract: the lemmas its systems assume (or were checked      *)
(* under), the edits it shows, and whether its root says "invalidated".    *)
(* Lemmas are numbered in the order the theory declares them.              *)
(***************************************************************************)
EXTENDS Integers, Sequences, FiniteSets, FiniteSetsExt

CONSTANTS Clients,
          N,          \* the theory declares the lemmas 1..N
          Reuse,      \* the lemmas marked [reuse]
          AllTraces,  \* the all-traces lemmas; the others are exists-trace
          Hidden,     \* <<l, r>>: lemma l is marked [hide_lemma=r], or hides all
          Sources,    \* the lemmas marked [sources]
          Stored,     \* the lemmas whose source text brings a proof
          Requests    \* bound: the kinds the first, second, ... request may be of

ASSUME ForksAssumption ==
  /\ IsFiniteSet(Clients) /\ Clients \cap (Nat \X Nat) = {}
  /\ N \in Nat
  /\ Reuse \subseteq 1..N /\ AllTraces \subseteq 1..N /\ Hidden \subseteq (1..N) \X (1..N)
  /\ Sources \subseteq 1..N /\ Stored \subseteq 1..N
  /\ Requests \in Seq(SUBSET {"page", "node", "edit", "edit_all", "delete"})

VARIABLES
  state,      \* number -> ProofState: the lemmas of its session and a slot for each
  published,  \* the versions in the store
  heap,       \* root reference -> the tree behind its mutex
  started,    \* requests begun
  pc,         \* client -> the step its request is at
  job         \* client -> the request and what it holds

vars == <<state, published, heap, started, pc, job>>

Lemmas == 1..N
MaxOps == Len(Requests)
Versions == 1..MaxOps + 1        \* version 1 is loaded at start, request n makes n + 1
Kinds == {"page", "node", "edit", "edit_all", "delete"}
Readers == {"page", "node"}
ForkSteps == {"fork", "rebase", "carry"}          \* the source version is held
EditSteps == {"open", "write"}
Steps == {"idle", "enter", "replay", "publish"} \cup ForkSteps \cup EditSteps

\* A root is named by the state whose slot was given it first, and the lemma.
Roots == Versions \X Lemmas
Trees == [asm : SUBSET Lemmas, steps : Seq(0..MaxOps), wrapped : BOOLEAN]
NoTree == [asm |-> {}, steps |-> <<>>, wrapped |-> FALSE]
Lazy == [is |-> "lazy"]
Snapshot(t) == [is |-> "snapshot", tree |-> t]
Live(r) == [is |-> "live", root |-> r]
NoState == [lemmas |-> {}, slot |-> [l \in Lemmas |-> Lazy]]

NoJob == [kind |-> "page", src |-> 0, mine |-> 0, lemma |-> 0, below |-> FALSE,
          todo |-> {}, kept |-> Lazy, asm |-> {}]

-----------------------------------------------------------------------------
(* Reading slots and trees.                                                *)

\* The [reuse] lemmas the initial system of lemma l assumes, in a session whose
\* theory has the lemmas ls: the all-traces ones before it that it does not hide.
\* A [sources] lemma is proved with raw sources and may only assume lemmas of that
\* kind.
gather_reusable_lemmas(ls, l) ==
  {r \in Reuse \cap AllTraces \cap ls :
     r < l /\ (l \in Sources => r \in Sources) /\ <<l, r>> \notin Hidden}

\* The tree that replaying the stored proof of l gives; without one, a bare sorry.
replay_root(ls, l) ==
  [asm |-> gather_reusable_lemmas(ls, l),
   steps |-> IF l \in Stored THEN <<0>> ELSE <<>>,
   wrapped |-> FALSE]

\* The tree a reader of slot l of state s is shown, now or after its replay.
View(s, l) ==
  LET slot == state[s].slot[l]
  IN  CASE slot.is = "lazy" -> replay_root(state[s].lemmas, l)
        [] slot.is = "snapshot" -> slot.tree
        [] slot.is = "live" -> heap[slot.root]

HoldsSource(p) == pc[p] \in ForkSteps \cup {"enter", "replay"}
HoldsOwn(p) == pc[p] \in ForkSteps \cup EditSteps \cup {"publish"}
\* The proof states that some Arc keeps; the others are dropped.
Alive == published \cup {job[p].src : p \in {q \in Clients : HoldsSource(q)}}
                   \cup {job[p].mine : p \in {q \in Clients : HoldsOwn(q)}}

\* The owners of root r: the slots of states that are kept, and the clones of a
\* slot that deletions work on.
Owners(r) ==
  {o \in Alive \X Lemmas : o[2] \in state[o[1]].lemmas /\ state[o[1]].slot[o[2]] = Live(r)}
  \cup {p \in Clients : pc[p] = "carry" /\ job[p].kept = Live(r)}

Slot(p) == state[job[p].src].slot[job[p].lemma]
\* Nobody replays under the lock of slot l of state s.
Unlocked(s, l) ==
  \A q \in Clients : pc[q] = "replay" => job[q].src # s \/ job[q].lemma # l

\* After a step, what nobody keeps any more is dropped.
Keep(states, trees) ==
  /\ state' = [s \in Versions |-> IF s \in Alive' THEN states[s] ELSE NoState]
  /\ heap' = [r \in Roots |-> IF Owners(r)' = {} THEN NoTree ELSE trees[r]]

Goto(p, step) == pc' = [pc EXCEPT ![p] = step]
WithSlot(s, l, v) == [state EXCEPT ![s].slot[l] = v]
NextLemma(p) == Min(job[p].todo)

\* The request ends without publishing: what it built is dropped.
Abandon(p) ==
  /\ Goto(p, "idle")
  /\ job' = [job EXCEPT ![p] = NoJob]
  /\ UNCHANGED <<published, started>>
  /\ Keep(state, heap)

-----------------------------------------------------------------------------
Init ==
  /\ state = [s \in Versions |->
                IF s = 1 THEN [lemmas |-> Lemmas, slot |-> [l \in Lemmas |-> Lazy]]
                ELSE NoState]
  /\ published = {1}
  /\ heap = [r \in Roots |-> NoTree]
  /\ started = 0
  /\ pc = [p \in Clients |-> "idle"]
  /\ job = [p \in Clients |-> NoJob]

\* A request for version v and lemma l arrives.  An edit names a step of l's
\* proof, the root or one below it.  A deletion of a [sources] lemma is refused
\* before it builds anything.
Begin(p) ==
  /\ pc[p] = "idle" /\ started < MaxOps
  /\ started' = started + 1
  /\ \E v \in published, k \in Requests[started'], below \in BOOLEAN :
     \E l \in state[v].lemmas :
       /\ below => k = "edit"
       /\ k = "edit_all" => l = Min(state[v].lemmas)
       /\ k = "delete" => l \notin Sources
       /\ job' = [job EXCEPT ![p] =
            [NoJob EXCEPT !.kind = k, !.src = v, !.lemma = l, !.below = below,
                          !.mine = IF k \in Readers THEN 0 ELSE started' + 1,
                          !.todo = IF k \in Readers THEN {}
                                   ELSE IF k = "delete" THEN state[v].lemmas \ {l}
                                   ELSE state[v].lemmas]]
       /\ Goto(p, IF k \in Readers THEN "enter" ELSE IF k = "delete" THEN "rebase" ELSE "fork")
       \* A deletion builds the session of the edited theory first.
       /\ UNCHANGED published
       /\ Keep(IF k \in Readers THEN state
               ELSE [state EXCEPT ![started' + 1].lemmas =
                       IF k = "delete" THEN state[v].lemmas \ {l} ELSE state[v].lemmas],
               heap)

\* Whether a reader has to replay.  A page (the overview, or all proofs as text)
\* shows trees without systems, and the overview only those with a stored proof; a
\* request about one node needs its system.
NeedsReplay(k, slot, l) ==
  IF k = "node" THEN {slot.is # "live"}
  ELSE IF slot.is # "lazy" THEN {FALSE}
  ELSE IF l \in Stored THEN {TRUE} ELSE BOOLEAN

Answer(p) == Goto(p, "idle") /\ job' = [job EXCEPT ![p] = NoJob]

\* proof_index_root, proof_body, filter_map_node_at: lock the slot; with nothing
\* to replay the answer is ready.
Enter(p) ==
  /\ pc[p] = "enter"
  /\ Unlocked(job[p].src, job[p].lemma)
  /\ \E needed \in NeedsReplay(job[p].kind, Slot(p), job[p].lemma) :
       IF needed THEN Goto(p, "replay") /\ UNCHANGED job ELSE Answer(p)
  /\ UNCHANGED <<published, started>>
  /\ Keep(state, heap)

\* live_state, materialize_locked: replay with systems, into a root of its own.
Materialize(s, l) ==
  Keep(WithSlot(s, l, Live(<<s, l>>)),
       [heap EXCEPT ![<<s, l>>] = replay_root(state[s].lemmas, l)])

\* The replay under the slot's lock ends: it may fail, and then the slot stays as
\* it was.
Replay(p) ==
  /\ pc[p] = "replay"
  /\ Answer(p)
  /\ UNCHANGED <<published, started>>
  /\ LET s == job[p].src
         l == job[p].lemma
     IN  \/ Keep(state, heap)
         \/ job[p].kind = "node" /\ Materialize(s, l)
         \/ /\ job[p].kind # "node"
            /\ Keep(WithSlot(s, l, Snapshot(replay_root(state[s].lemmas, l))), heap)

-----------------------------------------------------------------------------
(* Edits: fork, then write to the fork.                                    *)

\* ProofState::fork: clone the slots, each under its own lock.  The source is
\* let go with the last of them.
Fork(p) ==
  /\ pc[p] = "fork"
  /\ LET l == NextLemma(p)
         rest == job[p].todo \ {l}
     IN  /\ Unlocked(job[p].src, l)
         /\ IF rest # {}
            THEN job' = [job EXCEPT ![p].todo = rest] /\ UNCHANGED pc
            ELSE /\ job' = [job EXCEPT ![p].src = 0, ![p].todo =
                              IF job[p].kind = "edit_all" THEN state[job[p].mine].lemmas
                              ELSE {job[p].lemma}]
                 /\ Goto(p, "open")
         /\ UNCHANGED <<published, started>>
         /\ Keep(WithSlot(job[p].mine, l, state[job[p].src].slot[l]), heap)

\* get_system_at: the fork's slot goes live, and the system of the selected node
\* is taken out of the tree.  A path the tree does not have ends the request.
Select(p) ==
  /\ pc[p] = "open"
  /\ LET l == NextLemma(p)
         m == job[p].mine
     IN  /\ job[p].below => View(m, l).steps # <<>>
         /\ job' = [job EXCEPT ![p].asm =
              IF state[m].slot[l].is = "live" THEN heap[state[m].slot[l].root].asm
              ELSE replay_root(state[m].lemmas, l).asm]
         /\ Goto(p, "write")
         /\ UNCHANGED <<published, started>>
         /\ IF state[m].slot[l].is = "live" THEN Keep(state, heap) ELSE Materialize(m, l)

\* The variant writes through a shared reference.
InPlace(m, l) == state[m].slot[l].root

\* copy_on_write: the root to write to, the slot's own if it is the only owner.
copy_on_write(m, l) ==
  LET r == state[m].slot[l].root
  IN  IF Cardinality(Owners(r)) = 1 THEN r ELSE <<m, l>>

\* apply_at_path, mark_removed_at_path, graft_at_path: the result of the method
\* or of the search replaces the selected node.
Write(p) ==
  /\ pc[p] = "write"
  /\ LET l == NextLemma(p)
         m == job[p].mine
         old == View(m, l)
         root == copy_on_write(m, l)
         rest == job[p].todo \ {l}
         new == IF job[p].below
                THEN [old EXCEPT !.steps = Append(@, m - 1)]
                ELSE [asm |-> job[p].asm, steps |-> <<m - 1>>, wrapped |-> FALSE]
     IN  /\ job' = [job EXCEPT ![p].todo = rest, ![p].asm = {}]
         /\ Goto(p, IF rest = {} THEN "publish" ELSE "open")
         /\ UNCHANGED <<published, started>>
         /\ Keep(WithSlot(m, l, Live(root)), [heap EXCEPT ![root] = new])

-----------------------------------------------------------------------------
(* Deletions: rebase_onto.                                                 *)

\* Variant, for the mutation runs: the next lemma only.
NextInvalidated(ls, x) == {l \in ls : l = x + 1}

\* The lemmas that may have assumed x; what they hide is not looked at, nor
\* whether x is all-traces.
invalidated(ls, x) == IF x \in Reuse THEN {l \in ls : l > x} ELSE {}

\* Done with lemma l of the new version.
Carried(p, l) ==
  LET rest == job[p].todo \ {l}
  IN  /\ job' = [job EXCEPT ![p].todo = rest, ![p].kept = Lazy]
      /\ Goto(p, IF rest = {} THEN "publish" ELSE "rebase")

\* Clone a slot of the published version under its lock; share it when the lemma
\* is not affected.
Rebase(p) ==
  /\ pc[p] = "rebase"
  /\ UNCHANGED <<published, started>>
  /\ IF job[p].todo = {}
     THEN Goto(p, "publish") /\ UNCHANGED job /\ Keep(state, heap)
     ELSE LET l == NextLemma(p)
          IN  /\ Unlocked(job[p].src, l)
              /\ IF l \in invalidated(state[job[p].src].lemmas, job[p].lemma)
                 THEN /\ job' = [job EXCEPT ![p].kept = state[job[p].src].slot[l]]
                      /\ Goto(p, "carry") /\ Keep(state, heap)
                 ELSE /\ Carried(p, l)
                      /\ Keep(WithSlot(job[p].mine, l, state[job[p].src].slot[l]), heap)

\* Read the skeleton of the tree, replay it in the new session, and put an
\* "invalidated" node over it; a bare sorry needs none.
Reconstructed(p, l, old) ==
  [asm |-> gather_reusable_lemmas(state[job[p].mine].lemmas, l),
   steps |-> old.steps,
   wrapped |-> old.wrapped \/ old.steps # <<>>]

\* With no lock of the published version: the cloned slot is live, or its stored
\* proof is replayed once more in the old session.
Carry(p) ==
  /\ pc[p] = "carry"
  /\ LET l == NextLemma(p)
         old == IF job[p].kept.is = "live" THEN heap[job[p].kept.root]
                ELSE replay_root(state[job[p].src].lemmas, l)
         root == <<job[p].mine, l>>
     IN  /\ Carried(p, l)
         /\ UNCHANGED <<published, started>>
         /\ Keep(WithSlot(job[p].mine, l, Live(root)),
                 [heap EXCEPT ![root] = Reconstructed(p, l, old)])

-----------------------------------------------------------------------------
\* TheoryStore::insert of the detached entry
Publish(p) ==
  /\ pc[p] = "publish"
  /\ published' = published \cup {job[p].mine}
  /\ Answer(p)
  /\ UNCHANGED started
  /\ Keep(state, heap)

\* An error, a panic or a dropped connection before publication.
Fail(p) ==
  /\ pc[p] \in {"rebase", "carry", "open", "write", "publish"}
  /\ Abandon(p)

\* unload: the store drops its reference.
Unload ==
  /\ \E v \in published : published' = published \ {v}
  /\ UNCHANGED <<started, pc, job>>
  /\ Keep(state, heap)

Work(p) == \/ Enter(p) \/ Replay(p) \/ Fork(p) \/ Select(p) \/ Write(p)
           \/ Rebase(p) \/ Carry(p) \/ Publish(p)

Next == Unload \/ \E p \in Clients : Begin(p) \/ Work(p) \/ Fail(p)

Spec == Init /\ [][Next]_vars

-----------------------------------------------------------------------------
TypeOK ==
  /\ published \subseteq Versions /\ started \in 0..MaxOps
  /\ \A p \in Clients : pc[p] \in Steps /\ job[p].kind \in Kinds
  /\ \A s \in Versions : state[s].lemmas \subseteq Lemmas
  /\ \A r \in Roots : heap[r] \in Trees

\* No proof that anybody can see or edit rests on an assumption its theory does
\* not have: the systems of every tree, and the check behind every snapshot,
\* assume exactly what a fresh start of that lemma in that version would, through
\* forks, shared roots and deletions of [reuse] lemmas.
AssumptionsAreCurrent ==
  \A s \in Alive : \A l \in state[s].lemmas :
    View(s, l).asm = gather_reusable_lemmas(state[s].lemmas, l)

\* The versions of the proofs: what is published never changes, a draft is an
\* independent copy of one version, and a deletion keeps the steps of the proofs it
\* invalidates (the comments of ProofState::fork and rebase_onto).
ProofsOf(s) == [l \in state[s].lemmas |-> View(s, l)]

Drafting(p) ==
  IF HoldsOwn(p)
  THEN [open |-> TRUE, proofs |-> ProofsOf(IF pc[p] \in ForkSteps THEN job[p].src ELSE job[p].mine)]
  ELSE [open |-> FALSE, proofs |-> <<>>]

Abstract == INSTANCE ProofVersions WITH
  shown <- [v \in published |-> ProofsOf(v)],
  draft <- [p \in Clients |-> Drafting(p)],
  First <- [v \in {1} |-> [l \in Lemmas |-> replay_root(Lemmas, l)]],
  Numbers <- Versions

ImplementsVersions == Abstract!VersionsSpec
=============================================================================
