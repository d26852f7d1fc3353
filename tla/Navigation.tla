----------------------------- MODULE Navigation -----------------------------
(***************************************************************************)
(* The arrow keys of the web interface: next and previous page, normal     *)
(* (every step of every proof) and smart (what is left to look at)         *)
(* (tamarin-server/src/handlers/theory.rs).  A request brings the page it  *)
(* starts from in its URL; meanwhile other requests may have changed the   *)
(* proofs and the lemmas, so that page may be gone.                        *)
(***************************************************************************)
EXTENDS ProofOrder, FiniteSets

CONSTANTS
  LemmaNames,
  Theories,    \* what a theory may be: see IsTheory
  None

VARIABLES
  thy,    \* the theory: its lemmas in declaration order, and their proofs' steps
  page    \* the page in the browser

vars == <<thy, page>>

Methods == {"simplify", "solve", "Solved", "Contradictory", "Unfinishable", "sorry", "invalidated"}

\* The lists of steps are as ProofIndex makes them; a lemma that is not there
\* has the step `sorry'.
IsTheory(t) ==
  /\ t.lemmas \in Seq(LemmaNames)
  /\ \A i, j \in DOMAIN t.lemmas : t.lemmas[i] = t.lemmas[j] => i = j
  /\ \A l \in LemmaNames :
       /\ t.paths[l] \in Seq([path : Seq(CaseNames), method : Methods])
       /\ InOrder(t.paths[l])
       /\ (\A i \in DOMAIN t.lemmas : t.lemmas[i] # l) => Len(t.paths[l]) = 1

ASSUME NavigationAssumption ==
  /\ Names \in Seq(CaseNames)
  /\ None \notin LemmaNames
  /\ \A t \in Theories : IsTheory(t)

-----------------------------------------------------------------------------
(* Pages: a kind, a lemma or None, and the case names down to a step.      *)

Page(kind) == [kind |-> kind, lemma |-> None, sub |-> <<>>]
ProofPage(l, sub) == [kind |-> "proof", lemma |-> l, sub |-> sub]
LemmaPage(l) == [kind |-> "lemma", lemma |-> l, sub |-> <<>>]
MethodPage(l, sub) == [kind |-> "method", lemma |-> l, sub |-> sub]

Fixed == <<"help", "message", "rules", "tactic", "raw", "refined">>

-----------------------------------------------------------------------------
(* Along the steps of a lemma's proof: indices, 0 for none.                *)

lemma_proof_paths(l) == thy.paths[l]

\* A variant: unfinishable leaves are passed by.
OpenOrSolved(m) == m \in {"sorry", "Solved"}

is_interesting_method(m) == m \in {"sorry", "Solved", "Unfinishable"}

\* i is the first, the last of I, or 0 if there is none.
IsFirst(i, I) == IF I = {} THEN i = 0 ELSE i \in I /\ \A j \in I : i <= j
IsLast(i, I) == IF I = {} THEN i = 0 ELSE i \in I /\ \A j \in I : j <= i

position(paths, sub) == CHOOSE i \in 0..Len(paths) :
  IsFirst(i, {j \in 1..Len(paths) : paths[j].path = sub})

Stops(paths, smart) == {i \in 1..Len(paths) : smart => is_interesting_method(paths[i].method)}

next_element(paths, sub, smart) ==
  LET here == position(paths, sub)
  IN IF here = 0 THEN 0
     ELSE CHOOSE i \in 0..Len(paths) : IsFirst(i, {j \in Stops(paths, smart) : j > here})

prev_element(paths, sub, smart) ==
  LET here == position(paths, sub)
  IN IF here = 0 THEN 0
     ELSE CHOOSE i \in 0..Len(paths) : IsLast(i, {j \in Stops(paths, smart) : j < here})

last_path(l) == lemma_proof_paths(l)[Len(lemma_proof_paths(l))].path

-----------------------------------------------------------------------------
(* Along the lemmas.                                                       *)

\* The place of a lemma, or 0.
IndexOf(l) == CHOOSE i \in 0..Len(thy.lemmas) : IsFirst(i, {j \in 1..Len(thy.lemmas) : thy.lemmas[j] = l})

next_after(l) ==
  IF IndexOf(l) \in 1..(Len(thy.lemmas) - 1) THEN thy.lemmas[IndexOf(l) + 1] ELSE None

prev_before(l) == IF IndexOf(l) > 1 THEN thy.lemmas[IndexOf(l) - 1] ELSE None

next_proof(p, smart) ==
  LET paths == lemma_proof_paths(p.lemma)
      i == next_element(paths, p.sub, smart)
  IN IF i # 0 THEN ProofPage(p.lemma, paths[i].path)
     ELSE IF next_after(p.lemma) # None THEN ProofPage(next_after(p.lemma), <<>>)
     ELSE p

\* Variants: the lemma before is entered at its root, or at the step's place.
EnterAtRoot(p) ==
  IF prev_before(p.lemma) # None THEN ProofPage(prev_before(p.lemma), <<>>) ELSE Page("refined")
EnterAtSub(p) ==
  IF prev_before(p.lemma) # None THEN ProofPage(prev_before(p.lemma), p.sub) ELSE Page("refined")

prev_lemma(p) ==
  IF prev_before(p.lemma) # None
  THEN ProofPage(prev_before(p.lemma), last_path(prev_before(p.lemma))) ELSE Page("refined")

prev_proof(p, smart) ==
  LET paths == lemma_proof_paths(p.lemma)
      i == prev_element(paths, p.sub, smart)
  IN IF i # 0 THEN ProofPage(p.lemma, paths[i].path) ELSE prev_lemma(p)

next_thy_path_inner(p, smart) ==
  CASE p.kind = "help" -> Page("message")
    [] p.kind = "message" -> Page("rules")
    [] p.kind = "rules" -> Page("tactic")
    [] p.kind = "tactic" -> Page("raw")
    [] p.kind = "raw" -> Page("refined")
    [] p.kind = "refined" ->
         IF thy.lemmas = <<>> THEN Page("help") ELSE ProofPage(thy.lemmas[1], <<>>)
    [] p.kind = "lemma" -> ProofPage(p.lemma, <<>>)
    [] p.kind = "edit" -> Page("help")
    [] p.kind = "proof" -> next_proof(p, smart)
    [] p.kind = "method" -> p

prev_thy_path_inner(p, smart) ==
  CASE p.kind \in {"help", "message"} -> Page("help")
    [] p.kind = "rules" -> Page("message")
    [] p.kind = "tactic" -> Page("rules")
    [] p.kind = "raw" -> Page("tactic")
    [] p.kind = "refined" -> Page("raw")
    [] p.kind = "lemma" -> prev_lemma(p)
    [] p.kind = "edit" -> Page("help")
    [] p.kind = "proof" -> prev_proof(p, smart)
    [] p.kind = "method" -> p

\* The section of the request says which arrows; for any other word the page stays.
Sections == {"normal", "smart", "other"}

next_theory_path(p, section) ==
  CASE section = "normal" -> next_thy_path_inner(p, FALSE)
    [] section = "smart" -> next_thy_path_inner(p, TRUE)
    [] OTHER -> p

prev_theory_path(p, section) ==
  CASE section = "normal" -> prev_thy_path_inner(p, FALSE)
    [] section = "smart" -> prev_thy_path_inner(p, TRUE)
    [] OTHER -> p

-----------------------------------------------------------------------------
(* The steps of a user, and of others.                                     *)

LemmaSet == {thy.lemmas[i] : i \in 1..Len(thy.lemmas)}
StepsOf(l) == {lemma_proof_paths(l)[i].path : i \in 1..Len(lemma_proof_paths(l))}

\* The pages of the tour.
Pages == {Page(Fixed[i]) : i \in 1..Len(Fixed)}
         \cup UNION {{ProofPage(l, s) : s \in StepsOf(l)} : l \in LemmaSet}

\* Pages beside it.
Asides == {LemmaPage(l) : l \in LemmaSet} \cup {Page("edit")}
          \cup UNION {{MethodPage(l, s) : s \in StepsOf(l)} : l \in LemmaSet}

Init ==
  /\ thy \in Theories
  /\ page = Page("help")

\* A link of the page is followed.
Open ==
  /\ page' \in Pages \cup Asides
  /\ UNCHANGED thy

\* An arrow key is pressed.
next_path ==
  /\ \E section \in Sections : page' = next_theory_path(page, section)
  /\ UNCHANGED thy

prev_path ==
  /\ \E section \in Sections : page' = prev_theory_path(page, section)
  /\ UNCHANGED thy

\* A proof step, a deletion, an edit.
Change ==
  /\ thy' \in Theories
  /\ UNCHANGED page

Next == Open \/ next_path \/ prev_path \/ Change

Spec == Init /\ [][Next]_vars

-----------------------------------------------------------------------------
(* Properties                                                              *)

Kinds == {Fixed[i] : i \in 1..Len(Fixed)} \cup {"lemma", "edit", "proof", "method"}

\* A page has the parts of its kind.
TypeOK ==
  /\ thy \in Theories
  /\ page \in [kind : Kinds, lemma : LemmaNames \cup {None}, sub : Seq(CaseNames)]
  /\ page.kind \in {"proof", "lemma", "method"} <=> page.lemma # None
  /\ page.sub # <<>> => page.kind \in {"proof", "method"}

\* The chapters of a theory: the fixed pages, then the lemmas.
Chapter(p) ==
  IF p.kind = "proof" THEN Len(Fixed) + IndexOf(p.lemma)
  ELSE CHOOSE i \in 1..Len(Fixed) : Fixed[i] = p.kind

Before(p, q) ==
  \/ Chapter(p) < Chapter(q)
  \/ Chapter(p) = Chapter(q) /\ p.kind = "proof" /\ PathBefore(p.sub, q.sub)

\* Whatever the proofs look like, the normal arrows walk through all pages and
\* all steps in order: each leads to the very next page, and back again.
TourIsComplete ==
  \A p \in Pages :
    LET next == next_theory_path(p, "normal")
        prev == prev_theory_path(p, "normal")
        ends == thy.lemmas = <<>> /\ p = Page("refined")
    IN /\ next \in Pages /\ prev \in Pages
       /\ ~ends => /\ next = p <=> \A other \in Pages : ~Before(p, other)
                   /\ next # p => /\ Before(p, next)
                                  /\ \A other \in Pages : ~(Before(p, other) /\ Before(other, next))
                                  /\ prev_theory_path(next, "normal") = p
       /\ prev # p => next_theory_path(prev, "normal") = p

\* The steps that are open, solved or unfinishable.
Interesting ==
  {p \in Pages : /\ p.kind = "proof"
                 /\ \E i \in 1..Len(lemma_proof_paths(p.lemma)) :
                      /\ lemma_proof_paths(p.lemma)[i].path = p.sub
                      /\ lemma_proof_paths(p.lemma)[i].method \in {"sorry", "Solved", "Unfinishable"}}

\* The smart arrows jump, but never over a step that is open, solved or
\* unfinishable, in either direction and across lemmas.
SmartSkipsNothing ==
  \A p \in Pages :
    LET next == next_theory_path(p, "smart")
        prev == prev_theory_path(p, "smart")
    IN \A step \in Interesting :
         /\ Before(p, step) => next # p /\ ~Before(step, next)
         /\ Before(step, p) => ~Before(prev, step)

\* From a page that is gone, because its step, its proof or its lemma is, an
\* arrow leads to a page that is there, or nowhere; from the page of a lemma that
\* is gone it may lead to its proof, which is gone too.
ArrowsArrive ==
  [][next_path \/ prev_path =>
       \/ page' \in Pages \cup {page}
       \/ page.lemma \notin LemmaSet /\ page = LemmaPage(page.lemma) /\ page' = ProofPage(page.lemma, <<>>)]_vars
=============================================================================
