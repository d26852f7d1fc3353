----------------------------- MODULE TheoryMap -----------------------------
(***************************************************************************)
(* What the theory store promises a user of the web interface, with no     *)
(* cells, attempts or retries: a map from indices to versions, in which    *)
(* every version has one proof state for good, and every page shows a      *)
(* version together with that proof state.  TheoryStore implements it.     *)
(***************************************************************************)
EXTENDS Integers

CONSTANTS Clients, Gen, Thy, By, Origin, Uploaded,
          First           \* the versions loaded at start

VARIABLES entries,   \* index -> version [gen, thy, origin]
          used,      \* the generations given out so far
          proofs,    \* generation -> its proof state, or NoProof
          pages      \* client -> the version and proof its page is made of

mapVars == <<entries, used, proofs, pages>>

NoProof == [st |-> "none", thy |-> 0, by |-> 0]
NoPage == [gen |-> 0, thy |-> 0, proof |-> NoProof]
ProofsFor(t) == [st : {"ok"}, thy : {t}, by : By]

MapInit ==
  /\ entries = First
  /\ used = {First[i].gen : i \in DOMAIN First}
  /\ proofs = [g \in Gen |-> NoProof]
  /\ pages = [p \in Clients |-> NoPage]

\* A generation is used once, for one version.
Stamp(g) == g \notin used /\ used' = used \cup {g}

\* A new version goes to an index above all others and overwrites nothing; it
\* brings the proof state of that very theory, or none.
Add ==
  \E g \in Gen :
    /\ Stamp(g)
    /\ UNCHANGED pages
    /\ \E t \in Thy, o \in Origin, i \in DOMAIN entries' \ DOMAIN entries :
         /\ \A j \in DOMAIN entries : j < i
         /\ entries' = [j \in DOMAIN entries \cup {i} |->
                          IF j = i THEN [gen |-> g, thy |-> t, origin |-> o] ELSE entries[j]]
         /\ \E q \in {NoProof} \cup ProofsFor(t) : proofs' = [proofs EXCEPT ![g] = q]

Drop ==
  /\ UNCHANGED <<used, proofs, pages>>
  /\ \E i \in DOMAIN entries : entries' = [j \in DOMAIN entries \ {i} |-> entries[j]]

\* A reload: a version of the same file takes the index over.
Renew ==
  \E g \in Gen :
    /\ Stamp(g)
    /\ UNCHANGED <<proofs, pages>>
    /\ \E i \in DOMAIN entries, t \in Thy :
         /\ entries[i].origin # Uploaded
         /\ entries' = [entries EXCEPT ![i] = [gen |-> g, thy |-> t, origin |-> @.origin]]

\* A version gets its proof state, once.
Prove ==
  /\ UNCHANGED <<entries, used, pages>>
  /\ \E g \in used, t \in Thy :
       /\ proofs[g] = NoProof
       /\ \E q \in ProofsFor(t) : proofs' = [proofs EXCEPT ![g] = q]

\* A page pairs a version with the proof state of that version.
Show ==
  /\ UNCHANGED <<entries, used, proofs>>
  /\ \E p \in Clients, g \in used, t \in Thy :
       /\ pages[p] = NoPage
       /\ proofs[g] \in ProofsFor(t)
       /\ pages' = [pages EXCEPT ![p] = [gen |-> g, thy |-> t, proof |-> proofs[g]]]

Close ==
  /\ UNCHANGED <<entries, used, proofs>>
  /\ \E p \in Clients : pages' = [pages EXCEPT ![p] = NoPage]

MapNext == Add \/ Drop \/ Renew \/ Prove \/ Show \/ Close

MapSpec == MapInit /\ [][MapNext]_mapVars
=============================================================================
