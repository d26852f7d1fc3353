---------------------------- MODULE TheoryStore ----------------------------
(***************************************************************************)
(* The web server's versioned theory store (tamarin-server/src/state.rs)   *)
(* and the requests that use it (tamarin-server/src/handlers/theory.rs).   *)
(*                                                                         *)
(* The store maps an index, the number in a URL, to one theory entry.      *)
(* Every entry that enters the store gets a fresh generation, an Arc whose *)
(* identity no later entry has.  A generation owns a RetryCell: a slot for *)
(* the proof state of that entry, built at most once by whichever request  *)
(* comes first (booting Maude and closing the theory is slow) and shared   *)
(* by the others.  Requests run on blocking threads and hold the store's   *)
(* mutex only for single look-ups, so a reload, an unload or an upload can *)
(* fall between any two steps of another request.                          *)
(*                                                                         *)
(* One action is one critical section, or one slow computation that holds  *)
(* no lock.  What a theory says is abstract: thy names one parsed source.  *)
(***************************************************************************)
EXTENDS Integers, Sequences, FiniteSets

CONSTANTS Clients,   \* the concurrent requests the server has threads for
          Files,     \* the local files of the work directory
          Uploaded,  \* the origin of a theory that came by upload, not from a file
          Startup,   \* the files loaded at start, in index order
          MaxOps     \* bound: uploads and requests begun, startup loads included

ASSUME StoreAssumption ==
  /\ Uploaded \notin Files
  /\ Startup \in Seq(Files)
  /\ MaxOps \in Nat
  /\ Len(Startup) <= MaxOps

VARIABLES
  by_idx,    \* TheoryStoreInner: index -> entry (a partial function)
  cell,      \* generation -> the OnceLocks its RetryCell has held, the last current
  started,   \* operations begun; the number of an operation names what it creates
  pc,        \* client -> the step its request is at
  req,       \* client -> the request: its operation number, kind and index
  snap,      \* client -> the entry of its TheorySnapshot
  att,       \* client -> the OnceLock it cloned, as a position in cell[snap.gen]
  res        \* client -> the result in hand

vars == <<by_idx, cell, started, pc, req, snap, att, res>>

Ops == 1..MaxOps
Gen == Ops                \* a generation is named by the operation that made it
Thy == Ops                \* and so is a parsed theory
Origin == Files \cup {Uploaded}
Kinds == {"read", "edit", "reload"}

\* TheoryEntry, with the generation token StoredTheory pairs it with.
Entry == [gen : Gen, thy : Thy, origin : Origin]

\* A OnceLock: not initialised, being initialised, or holding a result.  A proof
\* state records the theory it was built from and the operation that built it.
Blank(s) == [st |-> s, thy |-> 0, by |-> 0]
Proof(t, o) == [st |-> "ok", thy |-> t, by |-> o]
Failures == {Blank("stale"), Blank("failed")}
Proofs == [st : {"ok"}, thy : Thy, by : Ops]
Filled == Failures \cup Proofs
OnceLock == {Blank("empty"), Blank("running")} \cup Filled
Nothing == Blank("none")
\* What a request can have in hand.
Results == Filled \cup {Nothing, Blank("not_found"), Blank("refused"), Blank("panicked"),
                       Blank("replaced")}

BuildSteps == {"validate", "build", "check", "publish"}
Steps == BuildSteps \cup
         {"idle", "snapshot", "attempt", "enter", "retire", "load", "replace", "work", "reply"}

NoReq == [op |-> 0, kind |-> "read", idx |-> 0]
NoEntry == [gen |-> 0, thy |-> 0, origin |-> Uploaded]

-----------------------------------------------------------------------------
(* The store's own operations.                                             *)

\* Variants, each what a slip in the definition that follows would make of it;
\* only the mutation runs use them.
OnePerEntry == Cardinality(DOMAIN by_idx) + 1

next_free_idx ==
  IF DOMAIN by_idx = {} THEN 1
  ELSE 1 + CHOOSE i \in DOMAIN by_idx : \A j \in DOMAIN by_idx : j <= i

\* Variants: presence taken for identity, a token compared with a copy of
\* itself, an insertion that keeps the old token, a retirement that does not look
\* at the current attempt, and one that has the comparison the wrong way round.
IndexOccupied(i, g) == i \in DOMAIN by_idx
NeverTheSame(i, g) == FALSE
PutKeepingGeneration(i, e) ==
  by_idx' = [j \in DOMAIN by_idx \cup {i} |->
               IF j # i THEN by_idx[j]
               ELSE IF i \in DOMAIN by_idx THEN [e EXCEPT !.gen = by_idx[i].gen] ELSE e]
AnyAttempt(p) == TRUE
AnotherAttempt(p) == att[p] # Len(cell[snap[p].gen])

IsCurrent(i, g) == i \in DOMAIN by_idx /\ by_idx[i].gen = g

\* by_idx.insert(i, ..) of entry e
Put(i, e) == by_idx' = [j \in DOMAIN by_idx \cup {i} |-> IF j = i THEN e ELSE by_idx[j]]

\* RetryCell::new: seeded when the entry brings a proof state, else empty.
NewCell(g, lock) == cell' = [cell EXCEPT ![g] = <<lock>>]

Lock(p) == cell[snap[p].gen][att[p]]
SetLock(p, v) == cell' = [cell EXCEPT ![snap[p].gen][att[p]] = v]
IsCurrentAttempt(p) == att[p] = Len(cell[snap[p].gen])      \* Arc::ptr_eq

Goto(p, s) == pc' = [pc EXCEPT ![p] = s]
Result(p, r) == res' = [res EXCEPT ![p] = r]

-----------------------------------------------------------------------------
Init ==
  /\ by_idx = [i \in 1..Len(Startup) |-> [gen |-> i, thy |-> i, origin |-> Startup[i]]]
  /\ cell = [g \in Gen |-> IF g <= Len(Startup) THEN <<Blank("empty")>> ELSE <<>>]
  /\ started = Len(Startup)
  /\ pc = [p \in Clients |-> "idle"]
  /\ req = [p \in Clients |-> NoReq]
  /\ snap = [p \in Clients |-> NoEntry]
  /\ att = [p \in Clients |-> 0]
  /\ res = [p \in Clients |-> Nothing]

\* POST /: parse the body (private to the request), then insert.
Upload ==
  /\ started < MaxOps
  /\ started' = started + 1
  /\ Put(next_free_idx, [gen |-> started', thy |-> started', origin |-> Uploaded])
  /\ NewCell(started', Blank("empty"))
  /\ UNCHANGED <<pc, req, snap, att, res>>

\* unload: remove the index, whoever is working on it.
Remove ==
  /\ \E i \in DOMAIN by_idx :
       by_idx' = [j \in DOMAIN by_idx \ {i} |-> by_idx[j]]
  /\ UNCHANGED <<cell, started, pc, req, snap, att, res>>

\* A request arrives for an index the index page listed.
Begin(p) ==
  /\ pc[p] = "idle"
  /\ started < MaxOps
  /\ started' = started + 1
  /\ \E k \in Kinds, i \in DOMAIN by_idx :
       req' = [req EXCEPT ![p] = [op |-> started', kind |-> k, idx |-> i]]
  /\ Goto(p, "snapshot")
  /\ UNCHANGED <<by_idx, cell, snap, att, res>>

\* TheoryStore::snapshot.  Reload goes on to load the file the entry came from
\* and refuses an upload; the others ask for the generation's proof state.
Snapshot(p) ==
  /\ pc[p] = "snapshot"
  /\ \/ /\ req[p].idx \notin DOMAIN by_idx
        /\ Goto(p, "reply")
        /\ Result(p, Blank("not_found"))
        /\ UNCHANGED snap
     \/ /\ req[p].idx \in DOMAIN by_idx
        /\ snap' = [snap EXCEPT ![p] = by_idx[req[p].idx]]
        /\ \/ req[p].kind # "reload" /\ Goto(p, "attempt") /\ Result(p, Nothing)
           \/ req[p].kind = "reload" /\ snap'[p].origin # Uploaded
                /\ Goto(p, "load") /\ Result(p, Nothing)
           \/ req[p].kind = "reload" /\ snap'[p].origin = Uploaded
                /\ Goto(p, "reply") /\ Result(p, Blank("refused"))
  /\ UNCHANGED <<by_idx, cell, started, req, att>>

-----------------------------------------------------------------------------
(* RetryCell::get_or_try_init and the closure ensure_snapshot_proof gives it. *)

\* Clone the current attempt under the cell's lock.
Attempt(p) ==
  /\ pc[p] = "attempt"
  /\ att' = [att EXCEPT ![p] = Len(cell[snap[p].gen])]
  /\ Goto(p, "enter")
  /\ UNCHANGED <<by_idx, cell, started, req, snap, res>>

\* Variant: a caller that finds no result builds one (get, then set).
EnterUnguarded(p) ==
  /\ pc[p] = "enter"
  /\ \/ /\ Lock(p) \notin Filled
        /\ SetLock(p, Blank("running"))
        /\ Goto(p, "validate")
        /\ UNCHANGED res
     \/ /\ Lock(p) \in Filled
        /\ Result(p, Lock(p))
        /\ Goto(p, "retire")
        /\ UNCHANGED cell
  /\ UNCHANGED <<by_idx, started, req, snap, att>>

\* OnceLock::get_or_init: the first caller is elected and runs the closure,
\* callers that find it running wait, and a result is shared by everybody.
Enter(p) ==
  /\ pc[p] = "enter"
  /\ \/ /\ Lock(p).st = "empty"
        /\ SetLock(p, Blank("running"))
        /\ Goto(p, "validate")
        /\ UNCHANGED res
     \/ /\ Lock(p) \in Filled
        /\ Result(p, Lock(p))
        /\ Goto(p, "retire")
        /\ UNCHANGED cell
  /\ UNCHANGED <<by_idx, started, req, snap, att>>

\* validate_generation: do not boot Maude for a version that is gone.
Validate(p) ==
  /\ pc[p] = "validate"
  /\ IF IsCurrent(req[p].idx, snap[p].gen)
       THEN Goto(p, "build") /\ UNCHANGED res
       ELSE Goto(p, "publish") /\ Result(p, Blank("stale"))
  /\ UNCHANGED <<by_idx, cell, started, req, snap, att>>

\* ProofState::new, holding no lock: slow, and it may fail.
Build(p) ==
  /\ pc[p] = "build"
  /\ \/ Result(p, Proof(snap[p].thy, req[p].op))
     \/ Result(p, Blank("failed"))
  /\ Goto(p, "check")
  /\ UNCHANGED <<by_idx, cell, started, req, snap, att>>

\* A variant: the cell stays claimed by the builder that panicked.
PanicPoisons(p) ==
  /\ pc[p] = "build"
  /\ Result(p, Blank("panicked"))
  /\ Goto(p, "reply")
  /\ UNCHANGED <<by_idx, cell, started, req, snap, att>>

\* A panic leaves the OnceLock uninitialised for the next waiter and fails
\* this request only (spawn_blocking turns it into an alert).
Panic(p) ==
  /\ pc[p] = "build"
  /\ SetLock(p, Blank("empty"))
  /\ Result(p, Blank("panicked"))
  /\ Goto(p, "reply")
  /\ UNCHANGED <<by_idx, started, req, snap, att>>

\* Variant: whatever was built is handed out.
CheckNothing(p) ==
  /\ pc[p] = "check"
  /\ Goto(p, "publish")
  /\ UNCHANGED <<by_idx, cell, started, req, snap, att, res>>

\* The look-up after the build: a generation that was replaced or removed
\* meanwhile makes the attempt stale, whatever the build returned.
Check(p) ==
  /\ pc[p] = "check"
  /\ IF IsCurrent(req[p].idx, snap[p].gen) THEN UNCHANGED res ELSE Result(p, Blank("stale"))
  /\ Goto(p, "publish")
  /\ UNCHANGED <<by_idx, cell, started, req, snap, att>>

\* The closure returns and get_or_init stores its result; the store's mutex
\* was released before.
Publish(p) ==
  /\ pc[p] = "publish"
  /\ SetLock(p, res[p])
  /\ Goto(p, "retire")
  /\ UNCHANGED <<by_idx, started, req, snap, att, res>>

\* The end of run_attempt, under the cell's lock: replace a failed attempt by a
\* fresh one, unless somebody did.  Then materialized_snapshot returns,
\* or starts over from a fresh snapshot when the attempt was stale.
Retire(p) ==
  /\ pc[p] = "retire"
  /\ IF res[p] \in Failures /\ IsCurrentAttempt(p)
       THEN cell' = [cell EXCEPT ![snap[p].gen] = Append(@, Blank("empty"))]
       ELSE UNCHANGED cell
  /\ \/ res[p].st = "stale" /\ Goto(p, "snapshot")
     \/ res[p].st = "failed" /\ Goto(p, "reply")
     \/ res[p].st = "ok" /\ Goto(p, IF req[p].kind = "edit" THEN "work" ELSE "reply")
  /\ UNCHANGED <<by_idx, started, req, snap, att, res>>

-----------------------------------------------------------------------------
(* The end of an edit and of a reload.                                     *)

\* autoprove, apply a method, delete a step: fork the proof state, change the
\* fork, insert it as a new version.  Deleting a lemma also edits the theory
\* and rebases the proof on it.  The source index is not looked at again.
Insert(p) ==
  /\ pc[p] = "work"
  /\ \E t \in {snap[p].thy, req[p].op} :
       /\ Put(next_free_idx, [gen |-> req[p].op, thy |-> t, origin |-> snap[p].origin])
       /\ NewCell(req[p].op, Proof(t, req[p].op))
  /\ Goto(p, "reply")
  /\ UNCHANGED <<started, req, snap, att, res>>

\* The proof work fails or the client disconnects: nothing is published.
Abandon(p) ==
  /\ pc[p] = "work"
  /\ Goto(p, "reply")
  /\ Result(p, Blank("failed"))
  /\ UNCHANGED <<by_idx, cell, started, req, snap, att>>

\* load_from_path reads and closes the file again; it may fail.
Load(p) ==
  /\ pc[p] = "load"
  /\ \/ Goto(p, "replace") /\ UNCHANGED res
     \/ Goto(p, "reply") /\ Result(p, Blank("failed"))
  /\ UNCHANGED <<by_idx, cell, started, req, snap, att>>

\* replace_if_current, in one critical section.
Replace(p) ==
  /\ pc[p] = "replace"
  /\ \/ /\ IsCurrent(req[p].idx, snap[p].gen)
        /\ Put(req[p].idx, [gen |-> req[p].op, thy |-> req[p].op, origin |-> snap[p].origin])
        /\ NewCell(req[p].op, Blank("empty"))
        /\ Result(p, Blank("replaced"))
     \/ /\ ~IsCurrent(req[p].idx, snap[p].gen)
        /\ Result(p, Blank("stale"))
        /\ UNCHANGED <<by_idx, cell>>
  /\ Goto(p, "reply")
  /\ UNCHANGED <<started, req, snap, att>>

\* The response is sent and the thread is free for another request.
Reply(p) ==
  /\ pc[p] = "reply"
  /\ Goto(p, "idle")
  /\ req' = [req EXCEPT ![p] = NoReq]
  /\ snap' = [snap EXCEPT ![p] = NoEntry]
  /\ att' = [att EXCEPT ![p] = 0]
  /\ Result(p, Nothing)
  /\ UNCHANGED <<by_idx, cell, started>>

-----------------------------------------------------------------------------
\* What a request does once it is running.
Run(p) ==
  \/ Snapshot(p) \/ Attempt(p) \/ Enter(p) \/ Validate(p) \/ Build(p) \/ Panic(p)
  \/ Check(p) \/ Publish(p) \/ Retire(p) \/ Insert(p) \/ Abandon(p) \/ Load(p)
  \/ Replace(p) \/ Reply(p)

Quiet ==      \* the server waits for requests: the bound on operations is used up
  /\ started = MaxOps
  /\ by_idx = <<>>
  /\ \A p \in Clients : pc[p] = "idle"
  /\ UNCHANGED vars

Next == Upload \/ Remove \/ Quiet \/ (\E p \in Clients : Begin(p) \/ Run(p))

Spec == Init /\ [][Next]_vars

\* Blocking threads are scheduled fairly: a request that can go on, does.
FairSpec == Spec /\ \A p \in Clients : WF_vars(Run(p))

-----------------------------------------------------------------------------
(* Correctness.                                                            *)

TypeOK ==
  /\ DOMAIN by_idx \subseteq Nat \ {0}
  /\ by_idx = [i \in DOMAIN by_idx |-> by_idx[i]]
  /\ \A i \in DOMAIN by_idx : by_idx[i] \in Entry
  /\ cell \in [Gen -> Seq(OnceLock)]
  /\ started \in 0..MaxOps
  /\ pc \in [Clients -> Steps]
  /\ req \in [Clients -> [op : Ops \cup {0}, kind : Kinds, idx : Nat]]
  /\ snap \in [Clients -> Entry \cup {NoEntry}]
  /\ att \in [Clients -> Nat]
  /\ res \in [Clients -> Results]

\* "One single-flight attempt at a time" (state.rs:163): however many requests
\* ask, and whatever became of earlier attempts, a generation has at most one
\* builder, so Maude is booted once for it at a time.
SingleFlight ==
  \A p, q \in Clients :
    p # q /\ pc[p] \in BuildSteps /\ pc[q] \in BuildSteps => snap[p].gen # snap[q].gen

\* Once a generation has a proof state it keeps it: a request that saw an
\* earlier attempt fail never throws the finished one away, so all the pages
\* of one version show the same proof.
ProofIsKept ==
  \A g \in Gen : \A n \in 1..Len(cell[g]) : cell[g][n].st = "ok" => n = Len(cell[g])

\* A failure is reported to the requests that shared the attempt and then
\* forgotten: as soon as they are through, the current attempt is open, so the
\* next request builds again instead of repeating the old error.
FailureIsForgotten ==
  \A g \in Gen :
    cell[g] # <<>> /\ cell[g][Len(cell[g])] \in Failures =>
      \E p \in Clients : pc[p] = "retire" /\ snap[p].gen = g /\ att[p] = Len(cell[g])

\* An entry that was replaced or removed, and one that has no proof state nor a
\* builder that has looked at the store for the last time.
Gone(g) == cell[g] # <<>> /\ \A i \in DOMAIN by_idx : by_idx[i].gen # g
Unproved(g) ==
  /\ \A n \in 1..Len(cell[g]) : cell[g][n].st # "ok"
  /\ \A p \in Clients : ~(pc[p] = "publish" /\ snap[p].gen = g /\ res[p].st = "ok")

\* "Publish only into the exact generation that elected this builder"
\* (state.rs:378): a version that goes while its proof state is being built never
\* gets one, not from this builder nor from those that waited for it.
GoneIsNotProved == [][\A g \in Gen : Gone(g) /\ Unproved(g) => (Gone(g) /\ Unproved(g))']_vars

\* A request that starts over because its snapshot was stale cannot meet the
\* same generation again: it is gone from the store for good.
StaleIsFinal ==
  \A p \in Clients :
    pc[p] = "retire" /\ res[p].st = "stale" =>
      \A i \in DOMAIN by_idx : by_idx[i].gen # snap[p].gen

\* The entry a request ends up with and the proof state it puts in it were
\* made from the same theory, even when the index was reloaded under it.
PageIsConsistent ==
  \A p \in Clients :
    pc[p] \in {"retire", "work", "reply"} /\ res[p].st = "ok" => res[p].thy = snap[p].thy

\* An index in use changes its contents only by a reload of the file it came
\* from: a slow reload never lands on an index that was unloaded and given to
\* another theory meanwhile (state.rs:318).
OriginIsKept ==
  [][\A i \in DOMAIN by_idx \cap DOMAIN by_idx' :
       by_idx'[i] # by_idx[i] =>
         by_idx'[i].origin = by_idx[i].origin /\ by_idx[i].origin # Uploaded]_vars

\* Every request is answered: nobody waits for ever on an attempt whose
\* builder failed, panicked or was overtaken by a reload.
RequestsEnd == \A p \in Clients : pc[p] # "idle" ~> pc[p] = "idle"

-----------------------------------------------------------------------------
(* The store implements TheoryMap: a generation's proof is that of its     *)
(* finished attempt, a page is what a request holds once its proof is there. *)

ProofOfGen(g) ==
  IF \E n \in DOMAIN cell[g] : cell[g][n].st = "ok"
    THEN cell[g][CHOOSE n \in DOMAIN cell[g] : cell[g][n].st = "ok"]
    ELSE Nothing

PageOf(p) ==
  IF pc[p] \in {"work", "reply"} /\ res[p].st = "ok"
    THEN [gen |-> snap[p].gen, thy |-> snap[p].thy, proof |-> res[p]]
    ELSE [gen |-> 0, thy |-> 0, proof |-> Nothing]

Map == INSTANCE TheoryMap WITH
  Clients <- Clients, By <- Ops,
  First <- [i \in 1..Len(Startup) |-> [gen |-> i, thy |-> i, origin |-> Startup[i]]],
  entries <- by_idx,
  used <- {g \in Gen : cell[g] # <<>>},
  proofs <- [g \in Gen |-> ProofOfGen(g)],
  pages <- [p \in Clients |-> PageOf(p)]

ImplementsMap == Map!MapSpec
=============================================================================
