------------------------------- MODULE Replay -------------------------------
(***************************************************************************)
(* A stored proof is replayed (tamarin-theory/src/replay.rs): every step   *)
(* of the file is executed again on the constraint systems of today's      *)
(* theory, its cases are matched by name with the cases produced now, and  *)
(* what does not fit is kept below a sorry or, if the lemma is selected by *)
(* --prove, proved afresh.                                                 *)
(*                                                                         *)
(* The proof is a function from paths of case names to nodes, and so is    *)
(* the stored one, from positions.  The recursion is unfolded: one action  *)
(* is the part of a call of replay_node, or of the prover, between two     *)
(* calls below it, and a node's `at' says where its call is.               *)
(*                                                                         *)
(* A constraint system is an element of Systems, and what the calculus     *)
(* says of it is data: `calc' gives the result of is_finished, the cases   *)
(* of every method, and which systems have a solution (the ground truth,   *)
(* which the code never sees).  A goal, a reason or a layout is abstracted *)
(* to the method it belongs to.  The calculus is taken to be sound.        *)
(***************************************************************************)
EXTENDS Naturals, FiniteSets, SequencesExt

CONSTANTS
  Systems,    \* constraint systems
  Root,       \* the lemma's start system
  Names,      \* case names in the order of BTreeMap, the unnamed case first
  Calculi,    \* what the calculus may say of the systems, see IsCalculus
  Texts,      \* stored proofs, see IsText
  None

VARIABLES
  calc,    \* the calculus of today's theory
  text,    \* the stored proof, as the parser hands it out: position -> name and method
  mode,    \* "load", "prove" (what is open), or "none" before either
  node     \* path -> ProofNode, for the nodes that exist

vars == <<calc, text, mode, node>>

Unnamed == Head(Names)
CaseNames == Range(Names)
Executable == {"simplify", "solve"}
Results == {"Solved", "Contradictory", "Unfinishable"}
Methods == Executable \cup Results \cup {"sorry", "invalidated"}

NoCases == [k \in {} |-> None]
CaseMaps == UNION {[D -> Systems] : D \in SUBSET CaseNames}

\* A calculus whose verdicts are right: what is finished as solved has a
\* solution, what is contradictory has none, and a method keeps and adds none.
Sound(c) ==
  /\ \A s \in Systems :
       /\ c.fin[s] = "Solved" => s \in c.solvable
       /\ c.fin[s] = "Contradictory" => s \notin c.solvable
  /\ \A s \in Systems, m \in Executable :
       LET cases == c.exec[s][m]
       IN cases # None => (s \in c.solvable <=> \E n \in DOMAIN cases : cases[n] \in c.solvable)

\* A method that produces a case without a name produces no other.
IsCalculus(c) ==
  /\ c.fin \in [Systems -> Results \cup {"open"}]
  /\ c.exec \in [Systems -> [Executable -> {None} \cup CaseMaps]]
  /\ \A s \in Systems, m \in Executable :
       LET cases == c.exec[s][m]
       IN cases # None /\ Unnamed \in DOMAIN cases => DOMAIN cases = {Unnamed}
  /\ Sound(c)

\* The blocks of a stored step are numbered from 1; without a name there is one.
IsText(t) ==
  /\ IsFiniteSet(DOMAIN t) /\ DOMAIN t \subseteq Seq(Nat \ {0}) /\ <<>> \in DOMAIN t
  /\ \A u \in DOMAIN t : t[u] \in [name : CaseNames, method : Methods]
  /\ \A u \in DOMAIN t : u # <<>> =>
       /\ Front(u) \in DOMAIN t
       /\ \A i \in 1..Last(u) : Append(Front(u), i) \in DOMAIN t
       /\ t[u].name = Unnamed => \A v \in DOMAIN t : v # <<>> /\ Front(v) = Front(u) => v = u

ASSUME ReplayAssumption ==
  /\ Root \in Systems
  /\ Names \in Seq(CaseNames) /\ Names # <<>>
  /\ \A c \in Calculi : IsCalculus(c)
  /\ \A t \in Texts : IsText(t)
  /\ \A D \in SUBSET CaseNames : None \notin [D -> Systems]
  /\ None \notin CaseNames /\ None \notin Seq(Nat \ {0})

-----------------------------------------------------------------------------
(* What a proof node says: per-step and whole-tree status.                 *)

from_step(n) ==
  IF ~node[n].annotated THEN "Undetermined"
  ELSE CASE node[n].method = "Solved" -> "TraceFound"
         [] node[n].method = "Unfinishable" -> "Unfinishable"
         [] node[n].method = "sorry" -> "Incomplete"
         [] node[n].method = "invalidated" -> "Invalidated"
         [] OTHER -> "Complete"

Precedence == <<"Invalidated", "TraceFound", "Incomplete", "Unfinishable", "Complete", "Undetermined">>

combine(statuses) == Precedence[CHOOSE i \in 1..Len(Precedence) :
  /\ Precedence[i] \in statuses
  /\ \A j \in 1..(i - 1) : Precedence[j] \notin statuses]

proof_status == combine({from_step(n) : n \in DOMAIN node})

lemma_verdict(status, existsTrace) ==
  CASE status = "TraceFound" -> IF existsTrace THEN "Verified" ELSE "Falsified"
    [] status = "Complete" -> IF existsTrace THEN "Falsified" ELSE "Verified"
    [] status = "Incomplete" -> "Analyzed"
    [] OTHER -> status

\* The precedence of a node's status over its children's.
rollup_status(statuses) ==
  CASE "Solved" \in statuses -> "Solved"
    [] "Solved" \notin statuses /\ "Sorry" \in statuses -> "Sorry"
    [] statuses \cap {"Solved", "Sorry"} = {} /\ "Unfinishable" \in statuses -> "Unfinishable"
    [] statuses \cap {"Solved", "Sorry", "Unfinishable"} = {} /\ "Contradictory" \in statuses
         -> "Contradictory"
    [] OTHER -> "Sorry"

-----------------------------------------------------------------------------
(* The tree under construction.                                            *)

\* replay_node is called for the stored step at `from' / the prover is called:
\* `todo' is the next block, `seen' the statuses that calls below have returned.
Call(s, t) ==
  [at |-> "replay", sys |-> s, from |-> t, method |-> "unset", annotated |-> TRUE,
   status |-> "Open", todo |-> 0, seen |-> {}]
Search(s) == [Call(s, None) EXCEPT !.at = "search"]

\* A call has returned.
Done(s, t, m, annotated, status) ==
  [at |-> "done", sys |-> s, from |-> t, method |-> m, annotated |-> annotated,
   status |-> status, todo |-> 0, seen |-> {}]

annotated_sorry(s, t) == Done(s, t, "sorry", TRUE, "Sorry")

Only(n, record) == [p \in {n} |-> record]
With(old, new) ==
  [p \in DOMAIN old \cup DOMAIN new |-> IF p \in DOMAIN new THEN new[p] ELSE old[p]]
Without(n) == [p \in {q \in DOMAIN node : ~IsPrefix(n, q)} |-> node[p]]

Kids(n) == {p \in DOMAIN node : p # <<>> /\ Front(p) = n}
KidsDone(n) == \A p \in Kids(n) : node[p].at = "done"

\* The status a call returns reaches the loop of its caller.
Told(n, status) ==
  IF n = <<>> THEN node ELSE [node EXCEPT ![Front(n)].seen = @ \cup {status}]

\* The call at n returns with `new' at and below n.
Return(n, new) == node' = With(Told(n, new[n].status), new)

-----------------------------------------------------------------------------
(* Stored steps that are kept as they are, without a system of their own.  *)

IsLeaf(t) == Append(t, 1) \notin DOMAIN text

\* Inserting under one name again keeps the later child.
Shadowed(u) == \E v \in DOMAIN text :
  v # <<>> /\ Front(v) = Front(u) /\ Last(v) > Last(u) /\ text[v].name = text[u].name

Shown(t) == {u \in DOMAIN text :
  IsPrefix(t, u) /\ \A k \in (Len(t) + 1)..Len(u) : ~Shadowed(SubSeq(u, 1, k))}

\* Where u, at or below t, goes when t goes to n.
Place(n, t, u) == n \o [k \in 1..(Len(u) - Len(t)) |-> text[SubSeq(u, 1, Len(t) + k)].name]

Unannotated(s, u) ==
  Done(s, u, text[u].method, FALSE,
       IF text[u].method \in Results THEN text[u].method
       ELSE IF text[u].method = "sorry" /\ IsLeaf(u) THEN "Sorry" ELSE "Open")

parsed_to_unannotated(n, t, s) ==
  [p \in {Place(n, t, u) : u \in Shown(t)} |->
     Unannotated(s, CHOOSE u \in Shown(t) : p = Place(n, t, u))]

annotated_sorry_with_children(n, t, s) ==
  With(parsed_to_unannotated(n, t, s), Only(n, annotated_sorry(s, t)))

invalid_step_node(n, t, s) ==
  With(parsed_to_unannotated(Append(n, Unnamed), t, s), Only(n, annotated_sorry(s, None)))

-----------------------------------------------------------------------------
(* replay_node.                                                            *)

Called(n) == node[n].at = "replay"
stored(n) == text[node[n].from].method

StartSearch(n) == node' = [node EXCEPT ![n] = Search(node[n].sys)]

\* What cannot be checked is proved, or kept below a sorry.
FallThrough(n) ==
  IF mode = "prove" THEN StartSearch(n)
  ELSE Return(n, invalid_step_node(n, node[n].from, node[n].sys))

StoredSorry(n) ==
  /\ Called(n) /\ stored(n) = "sorry"
  /\ IF mode = "prove" THEN StartSearch(n)
     ELSE Return(n, annotated_sorry_with_children(n, node[n].from, node[n].sys))
  /\ UNCHANGED <<calc, text, mode>>

\* A variant: the stored result is believed.
BelieveStored(n) == TRUE

\* The stored result is what today's system says of itself.
same_kind(n) == calc.fin[node[n].sys] = stored(n)

finished_leaf(n) ==
  /\ Called(n) /\ stored(n) \in Results /\ IsLeaf(node[n].from)
  /\ IF same_kind(n)
     THEN Return(n, Only(n, Done(node[n].sys, node[n].from, stored(n), TRUE, stored(n))))
     ELSE FallThrough(n)
  /\ UNCHANGED <<calc, text, mode>>

exec_method_for(s, m) == IF m \in Executable THEN calc.exec[s][m] ELSE None

produced(n) == exec_method_for(node[n].sys, stored(n))

\* A step on its way to being executed again.
IsStep(n) == Called(n) /\ stored(n) # "sorry" /\ ~(stored(n) \in Results /\ IsLeaf(node[n].from))

StepFails(n) ==
  /\ IsStep(n) /\ produced(n) = None
  /\ FallThrough(n)
  /\ UNCHANGED <<calc, text, mode>>

\* A variant: a step without cases closes, whatever was stored below it.
ClosesAnyway(n) == produced(n) = NoCases

\* A step whose replay has no case, and whose stored form had none.
Closes(n) == produced(n) = NoCases /\ IsLeaf(node[n].from)

StepCloses(n) ==
  /\ IsStep(n) /\ produced(n) # None /\ Closes(n)
  /\ Return(n, Only(n, Done(node[n].sys, node[n].from, stored(n), TRUE, "Contradictory")))
  /\ UNCHANGED <<calc, text, mode>>

StepApplies(n) ==
  /\ IsStep(n) /\ produced(n) # None /\ ~Closes(n)
  /\ node' = [node EXCEPT ![n].at = "cases", ![n].method = stored(n), ![n].todo = 1]
  /\ UNCHANGED <<calc, text, mode>>

\* The produced case that answers to a stored name: an unnamed block takes the
\* only case there is.
AdoptedBy(name, cases) ==
  IF name = Unnamed
  THEN IF Cardinality(DOMAIN cases) = 1 THEN CHOOSE k \in DOMAIN cases : TRUE ELSE None
  ELSE IF name \in DOMAIN cases THEN name ELSE None

NextBlock(n) == Append(node[n].from, node[n].todo)
InLoop(n) == node[n].at = "cases" /\ KidsDone(n)

\* A stored case that no produced case answers is kept as it is.
UnmatchedCase(n) ==
  /\ InLoop(n) /\ NextBlock(n) \in DOMAIN text
  /\ AdoptedBy(text[NextBlock(n)].name, produced(n)) = None
  /\ LET r == Append(n, text[NextBlock(n)].name)
         told == [node[n] EXCEPT !.todo = @ + 1, !.seen = @ \cup {"Sorry"}]
     IN node' = With(With(Without(r), Only(n, told)), parsed_to_unannotated(r, NextBlock(n), node[n].sys))
  /\ UNCHANGED <<calc, text, mode>>

MatchedCase(n) ==
  /\ InLoop(n) /\ NextBlock(n) \in DOMAIN text
  /\ LET name == AdoptedBy(text[NextBlock(n)].name, produced(n))
         r == Append(n, name)
     IN /\ name # None
        /\ node' = With(With(Without(r), Only(n, [node[n] EXCEPT !.todo = @ + 1])),
                        Only(r, Call(produced(n)[name], NextBlock(n))))
  /\ UNCHANGED <<calc, text, mode>>

\* The produced cases that no stored case claimed, in the order of the names.
Unclaimed(n) == {k \in DOMAIN produced(n) : Append(n, k) \notin DOMAIN node}
Rank(k) == CHOOSE i \in 1..Len(Names) : Names[i] = k

ProducedCase(n) ==
  /\ InLoop(n) /\ NextBlock(n) \notin DOMAIN text
  /\ \E k \in Unclaimed(n) :
       /\ \A j \in Unclaimed(n) : Rank(k) <= Rank(j)
       /\ LET r == Append(n, k)
              s == produced(n)[k]
          IN IF mode = "prove" THEN node' = With(node, Only(r, Search(s)))
             ELSE node' = With(Told(r, "Sorry"), Only(r, annotated_sorry(s, None)))
  /\ UNCHANGED <<calc, text, mode>>

Finish(n) ==
  /\ InLoop(n) /\ NextBlock(n) \notin DOMAIN text /\ Unclaimed(n) = {}
  /\ Return(n, Only(n, Done(node[n].sys, node[n].from, node[n].method, TRUE,
                            rollup_status(node[n].seen))))
  /\ UNCHANGED <<calc, text, mode>>

-----------------------------------------------------------------------------
(* The prover on one system, in any order of the cases and with any        *)
(* applicable method first; ProofSearch has its rounds and strategies.     *)

\* Bound, deadline, or no method applies.
LeaveOpen(n) ==
  /\ node[n].at = "search"
  /\ Return(n, Only(n, annotated_sorry(node[n].sys, None)))
  /\ UNCHANGED <<calc, text, mode>>

Close(n) ==
  LET result == calc.fin[node[n].sys]
  IN /\ node[n].at = "search" /\ result \in Results
     /\ Return(n, Only(n, Done(node[n].sys, None, result, TRUE, result)))
     /\ UNCHANGED <<calc, text, mode>>

Split(n) ==
  /\ node[n].at = "search" /\ calc.fin[node[n].sys] = "open"
  /\ \E m \in Executable :
       LET cases == calc.exec[node[n].sys][m]
           new == [p \in {Append(n, k) : k \in DOMAIN cases} |-> Search(cases[Last(p)])]
       IN /\ cases # None
          /\ IF cases = NoCases
             THEN Return(n, Only(n, Done(node[n].sys, None, m, TRUE, "Contradictory")))
             ELSE node' = With(With(node, Only(n, [node[n] EXCEPT !.at = "split", !.method = m])), new)
  /\ UNCHANGED <<calc, text, mode>>

\* A solved case: only the path to it is kept, unless the strategy cuts nothing.
SolvedCase(n) ==
  /\ node[n].at = "split"
  /\ \E r \in Kids(n) :
       /\ node[r].at = "done" /\ node[r].status = "Solved"
       /\ LET told == Told(n, "Solved")
              kept == {p \in DOMAIN node : IsPrefix(n, p) => p = n \/ IsPrefix(r, p)}
          IN node' = With([p \in kept |-> told[p]],
                          Only(n, Done(node[n].sys, None, node[n].method, TRUE, "Solved")))
  /\ UNCHANGED <<calc, text, mode>>

AllCasesTried(n) ==
  /\ node[n].at = "split" /\ KidsDone(n)
  /\ Return(n, Only(n, Done(node[n].sys, None, node[n].method, TRUE,
                            rollup_status({node[r].status : r \in Kids(n)}))))
  /\ UNCHANGED <<calc, text, mode>>

-----------------------------------------------------------------------------
NoNodes == [p \in {} |-> None]

Init ==
  /\ calc \in Calculi
  /\ text \in Texts
  /\ mode = "none"
  /\ node = NoNodes

Start(m) ==
  /\ mode = "none"
  /\ mode' = m
  /\ node' = Only(<<>>, Call(Root, <<>>))
  /\ UNCHANGED <<calc, text>>

\* check_and_extend: a file is loaded and the lemma is not selected by --prove.
\* A lemma without a proof is one with the proof `by sorry'.
Load == Start("load")

\* replace_sorry_prove: the lemma is selected.
Prove == Start("prove")

Step ==
  \E n \in DOMAIN node :
    \/ StoredSorry(n) \/ finished_leaf(n) \/ StepFails(n) \/ StepCloses(n) \/ StepApplies(n)
    \/ UnmatchedCase(n) \/ MatchedCase(n) \/ ProducedCase(n) \/ Finish(n)
    \/ LeaveOpen(n) \/ Close(n) \/ Split(n) \/ SolvedCase(n) \/ AllCasesTried(n)

Judged == <<>> \in DOMAIN node /\ node[<<>>].at = "done"

\* A method fails with an error: `?' unwinds the replay and drops the tree.
Fail ==
  /\ mode # "none" /\ ~Judged
  /\ mode' = "none" /\ node' = NoNodes
  /\ UNCHANGED <<calc, text>>

\* The next run: on any stored proof, after any edit of the theory.
Again ==
  /\ Judged
  /\ calc' \in Calculi /\ text' \in Texts
  /\ mode' = "none" /\ node' = NoNodes

Next == Load \/ Prove \/ Step \/ Fail \/ Again

Spec == Init /\ [][Next]_vars

-----------------------------------------------------------------------------
(* Properties                                                              *)

Places == {"replay", "cases", "search", "split", "done"}
Statuses == Results \cup {"Open", "Sorry"}

ProofNode ==
  [at : Places, sys : Systems, from : DOMAIN text \cup {None}, method : Methods \cup {"unset"},
   annotated : BOOLEAN, status : Statuses, todo : Nat, seen : SUBSET Statuses]

\* The nodes form a tree from the root down, and what is below a node was put
\* there by a call that has begun its cases.
TypeOK ==
  /\ calc \in Calculi /\ text \in Texts
  /\ mode \in {"none", "load", "prove"}
  /\ mode = "none" => node = NoNodes
  /\ mode # "none" => <<>> \in DOMAIN node
  /\ \A n \in DOMAIN node :
       /\ n \in Seq(CaseNames)
       /\ node[n] \in ProofNode
       /\ node[n].at \in {"replay", "cases"} => node[n].from # None
       /\ n # <<>> => Front(n) \in DOMAIN node /\ node[Front(n)].at \in {"cases", "split", "done"}

LemmaHolds(existsTrace) == existsTrace <=> Root \in calc.solvable

\* However stale the stored proof is, and whoever replays it, the summary never
\* says "verified" of a lemma that does not hold nor "falsified" of one that does.
VerdictIsTrue ==
  Judged => \A existsTrace \in BOOLEAN :
    LET verdict == lemma_verdict(proof_status, existsTrace)
    IN /\ verdict = "Verified" => LemmaHolds(existsTrace)
       /\ verdict = "Falsified" => ~LemmaHolds(existsTrace)

\* Loading a file loses no step of the proof the user wrote, however stale: each
\* is there with its method, below the step it was below (or below the sorry
\* that stands for it), under its name or, if unnamed, the name it adopted.  Of
\* blocks with one name the last one counts.
NothingIsDropped ==
  Judged /\ mode = "load" => \A u \in Shown(<<>>) :
    \E p \in DOMAIN node :
      /\ node[p].from = u /\ node[p].method = text[u].method
      /\ u # <<>> => \E r \in {p, Front(p)} :
           /\ r # <<>> /\ node[Front(r)].from = Front(u)
           /\ text[u].name \in {Last(r), Unnamed}
           /\ r # p => node[r].method = "sorry" /\ Last(p) = Unnamed
=============================================================================
