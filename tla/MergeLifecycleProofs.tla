------------------------ MODULE MergeLifecycleProofs ------------------------
(***************************************************************************)
(* Theorems about the coordinated merge, for any list of members, any      *)
(* plans and any disturbance: the record accounts for the repositories, a  *)
(* merge that ended left no half of itself in the root, a corrected        *)
(* operation leaves recovery, a resolution is never thrown away, and the   *)
(* lifecycle implements MergeContract.                                     *)
(*                                                                         *)
(* The argument has three layers.  RecordSteps lists what the dispatcher   *)
(* and the observations can do to the record, as one flat disjunction of   *)
(* small steps with their guards.  MergeInv says how record, members and   *)
(* root hang together, and is kept by each of those steps, by a physical   *)
(* step and by whatever the user does.  The theorems follow from it.       *)
(***************************************************************************)
EXTENDS MergeLifecycle, WellFoundedInduction, TLAPS

-----------------------------------------------------------------------------
(* The inductive invariant. *)

Stages == {EvidenceSteps[i] : i \in DOMAIN EvidenceSteps}

Forward == {"executing", "awaiting", "halted", "finalizing"}

Moved == \E m \in Member : kind[m] # "verify"

\* A row owes its state to the member's plan; what is pending is the plan
\* itself or the resolution of a conflict, and only while members execute.
\* One member at a time has something pending.
RowInv ==
  \A m \in Member :
    /\ rec.row[m].pending \notin {"none", "resolve"} =>
         rec.row[m].state \in Unstarted /\ rec.row[m].pending = kind[m]
    /\ rec.row[m].pending = "resolve" => rec.row[m].state = "conflicted"
    /\ rec.row[m].pending # "none" => Effective \in {"executing", "halted"}
    /\ \A k \in Member :
         rec.row[m].pending # "none" /\ rec.row[k].pending # "none" => m = k
    /\ rec.row[m].state = "uptodate" => kind[m] = "verify"
    /\ rec.row[m].state \in Integrated \cup {"conflicted"} =>
         kind[m] # "verify"

\* What the state of the operation says of its rows, its recovery and its
\* journalled step back.
PhaseInv ==
  /\ rec.state = "recovery" <=> rec.origin # "none"
  /\ rec.state = "recovery" /\ rec.origin = "rolling" => rec.back # "none"
  /\ rec.back # "none" => Effective = "rolling"
  /\ Effective = "halted" => HaltCause(rec)
  /\ Effective = "awaiting" =>
       /\ \E m \in Member : rec.row[m].state = "conflicted"
       /\ \A m \in Member : ~rec.row[m].error
  /\ Effective \in {"finalizing", "completed"} =>
       \A m \in Member : rec.row[m].state \in Successful /\ ~rec.row[m].error
  /\ rec.accepted =>
       Effective \in {"finalizing", "completed", "rolling", "aborted"}

\* How far the publication has got, and who has to be published at all.
PublicationInv ==
  /\ rec.pub # "none" \/ rec.cand => rec.accepted
  /\ rec.pub = "none" => ~rec.cand
  /\ rec.cand \/ rec.pub \notin {"none", "complete"} => Moved
  /\ rec.pub = "complete" /\ ~rec.cand => ~Moved
  /\ rec.pub \in {"evidence", "publishing", "verifying"} => rec.cand
  /\ rec.comp => rec.cand /\ rec.pub # "preparing"
  /\ rec.pub \in {"publishing", "verifying"} => rec.comp
  /\ rec.pub = "complete" /\ rec.cand => rec.comp
  /\ rec.undone => rec.comp /\ Effective \in {"rolling", "aborted"}
  /\ Effective = "completed" => rec.pub = "complete"
  /\ Effective = "aborted" => ~rec.comp \/ rec.undone
  /\ rec.back \in Stages => rec.comp /\ ~rec.undone
  /\ rec.back \in Member => ~rec.comp \/ rec.undone

\* The evidence commit on the root's branch.
HeadInv ==
  /\ root.head = "evidence" =>
       /\ rec.cand /\ ~rec.undone
       /\ rec.comp \/ rec.pub = "evidence"
  /\ root.head = "evidence" /\ Effective \in {"rolling", "aborted"} => rec.comp
  /\ rec.comp /\ Effective \in {"finalizing", "completed"} =>
       root.head = "evidence"
  /\ rec.back \in Stages \ {"commit"} => root.head = "base"

\* The root's files go in in one order and come out in the reverse order.
FilesInv ==
  /\ root.marker \/ root.integrity \/ root.lock \/ root.boundary \/ root.index
       => rec.comp /\ ~rec.undone
  /\ root.integrity \/ root.lock \/ root.boundary => root.marker
  /\ root.index /\ ~root.marker => rec.back \in {"marker", "index"}
  /\ root.lock => "lock" \in changes
  /\ root.boundary => "boundary" \in changes
  /\ rec.back \in {"lock", "marker", "index", "complete"} => ~root.boundary
  /\ rec.back \in {"marker", "index", "complete"} => ~root.lock
  /\ rec.back \in {"index", "complete"} => ~root.marker
  /\ rec.back = "complete" => ~root.index

\* The root is at a point of the publication.
OnTheWay ==
  /\ root.boundary /\ "lock" \in changes => root.lock
  /\ root.integrity =>
       /\ "lock" \in changes => root.lock
       /\ "boundary" \in changes => root.boundary
  /\ root.index => root.integrity

\* While the publication goes forward the root keeps to its order, and what
\* was verified stays.
ForwardFilesInv ==
  Effective \in {"finalizing", "completed"} =>
    /\ OnTheWay
    /\ root.marker \/ root.index =>
         rec.pub \in {"publishing", "verifying", "complete"}
    /\ rec.cand /\ rec.pub \in {"verifying", "complete"} =>
         /\ root.marker /\ root.integrity /\ root.index
         /\ "lock" \in changes => root.lock
         /\ "boundary" \in changes => root.boundary

PlaceInv == \A m \in Member : repo[m] \in Places(m)

\* The action is one the record has the intent of.
Owned(a) ==
  \/ /\ \E m \in Member : a = ForwardAct(m)
     /\ a.what \in {"ff", "merge", "conflict", "resolve"}
     /\ rec.state \in Forward
  \/ /\ a = PublishAct("evidence")
     /\ rec.state = "finalizing" /\ rec.pub = "evidence" /\ ~rec.comp
  \/ /\ \E what \in {"marker", "lock", "boundary", "index"} :
          a = PublishAct(what)
     /\ rec.state = "finalizing" /\ rec.pub = "publishing"
  \/ /\ a = BackAct
     /\ rec.state = "rolling" /\ rec.back \notin {"none", "complete"}

ActInv == inv.act # NoAct => Owned(inv.act)

MergeInv ==
  /\ MergeTypeOK /\ RowInv /\ PhaseInv /\ PublicationInv /\ HeadInv
  /\ FilesInv /\ ForwardFilesInv /\ PlaceInv /\ ActInv

-----------------------------------------------------------------------------
(* What the dispatcher and the observations do to the record, r being the  *)
(* record that is committed.                                               *)

NoPending == \A m \in Member : rec.row[m].pending = "none"

\* The evidence is withdrawn or was never committed: members may go back.
MembersTurn == ~(rec.cand /\ rec.comp /\ ~rec.undone)

Halts(r) ==
  /\ rec.state = "executing" /\ HaltCause(rec)
  /\ r = [rec EXCEPT !.state = "halted"]

Suspends(r) ==
  /\ rec.state \in Forward \cup {"rolling"}
  /\ rec.state = "rolling" => rec.back # "none"
  /\ r = [rec EXCEPT !.state = "recovery", !.origin = rec.state]

Reopens(r) ==
  /\ rec.state = "recovery"
  /\ r = [rec EXCEPT !.state = rec.origin, !.origin = "none"]

\* A member failed while it was prepared, or its action made no progress.
Fails(r, m) ==
  /\ rec.state = "executing"
  /\ \E row \in Row :
       /\ r = FailureBatch(m, row)
       /\ row.pending = rec.row[m].pending /\ row.error
       /\ \/ row.state = "failed" /\ rec.row[m].state \in Unstarted
          \/ /\ row.state = "conflicted" /\ rec.row[m].state = "conflicted"
             /\ row.pending = "resolve"

\* What became of the pending action is recorded.
Settles(r, m) ==
  \E state \in Successful \cup {"conflicted"},
     snap \in {"none", "pristine", "edited"},
     next \in {"executing", "halted", "rolling"} :
    /\ rec.state \in {"executing", "halted"}
    /\ \/ /\ state = "uptodate" /\ rec.row[m].pending = "verify"
          /\ repo[m] = "before"
       \/ /\ state = "conflicted" /\ rec.row[m].pending = "conflict"
          /\ repo[m] \in InMerge
       \/ /\ state \in Integrated /\ repo[m] = "result"
          /\ rec.row[m].pending \in {"ff", "merge", "resolve"}
    /\ r = [Outcome(m, state, snap) EXCEPT !.state = next]
    /\ rec.state = "executing" => next = "executing"
    /\ next = "halted" => HaltCause(r)

GivesUp(r, m) ==
  /\ rec.state \in {"executing", "halted"}
  /\ \/ repo[m] = "before" /\ rec.row[m].pending \notin {"none", "resolve"}
     \/ repo[m] = "resolved" /\ rec.row[m].pending = "resolve"
  /\ r = [rec EXCEPT !.row[m].pending = "none", !.state = "rolling"]

Prepares(r, m) ==
  /\ rec.state = "executing" /\ NoPending
  /\ rec.row[m].state \in Unstarted \cup {"conflicted"}
  /\ r = [rec EXCEPT !.row[m].pending =
            IF rec.row[m].state = "conflicted" THEN "resolve" ELSE kind[m]]

Proceeds(r) ==
  /\ rec.state \in {"awaiting", "halted"}
  /\ r = [rec EXCEPT !.state = "executing"]

Awaits(r) ==
  /\ rec.state = "executing" /\ NoPending
  /\ \E m \in Member : rec.row[m].state = "conflicted"
  /\ \A m \in Member : ~rec.row[m].error
  /\ r = [rec EXCEPT !.state = "awaiting"]

Finalizes(r) ==
  /\ rec.state = "executing" /\ MembersSettled
  /\ r = [rec EXCEPT !.state = "finalizing"]

Accepts(r) ==
  /\ rec.state = "finalizing" /\ ~rec.accepted
  /\ r = [rec EXCEPT !.accepted = TRUE]

\* Abort turns the operation round.
Enters(r) ==
  /\ rec.state \in Forward /\ NoPending
  /\ rec.pub = "evidence" /\ ~rec.comp => root.head = "base"
  /\ r = [rec EXCEPT !.state = "rolling"]

Publishes(r) ==
  /\ rec.state = "finalizing" /\ rec.accepted
  /\ \/ /\ rec.pub = "none"
        /\ r = Step(IF Moved THEN "preparing" ELSE "complete")
     \/ /\ rec.pub = "preparing" /\ ~rec.cand
        /\ r = [rec EXCEPT !.cand = TRUE]
     \/ rec.pub = "preparing" /\ rec.cand /\ r = Step("evidence")
     \/ /\ rec.pub = "evidence" /\ ~rec.comp /\ EvidenceFound
        /\ r = [rec EXCEPT !.comp = TRUE]
     \/ rec.pub = "evidence" /\ rec.comp /\ r = Step("publishing")
     \/ /\ rec.pub = "publishing" /\ Resolution = "complete"
        /\ r = Step("verifying")
     \/ rec.pub = "verifying" /\ r = Step("complete")

Completes(r) ==
  /\ rec.state = "finalizing" /\ rec.pub = "complete"
  /\ MembersSettled
  /\ ~rec.cand => root.head = "base"
  /\ r = [rec EXCEPT !.state = "completed"]

Withdraws(r) ==
  /\ rec.state = "rolling" /\ rec.back = "none" /\ ~MembersTurn
  /\ r = [rec EXCEPT !.back = "commit"]

Ends(r) ==
  /\ rec.state = "rolling" /\ rec.back = "none" /\ MembersTurn
  /\ \A m \in Member : repo[m] = "before"
  /\ r = [rec EXCEPT !.state = "aborted"]

Passes(r, m) ==
  /\ rec.state = "rolling" /\ rec.back = "none" /\ MembersTurn
  /\ repo[m] = "before"
  /\ r = [rec EXCEPT !.row[m].state = "aborted"]

TurnsBack(r, m) ==
  /\ rec.state = "rolling" /\ rec.back = "none" /\ MembersTurn
  /\ r = [rec EXCEPT !.back = m]

\* What was journalled has gone back.
GoneBack(r) ==
  /\ rec.state = "rolling" /\ rec.back # "none"
  /\ PendingForm = "after"
  /\ r = BackDone

RecordStep(r) ==
  \/ Halts(r) \/ Suspends(r) \/ Reopens(r)
  \/ \E m \in Member : \/ Fails(r, m) \/ Settles(r, m) \/ GivesUp(r, m)
                       \/ Prepares(r, m) \/ Passes(r, m) \/ TurnsBack(r, m)
  \/ Proceeds(r) \/ Awaits(r) \/ Finalizes(r) \/ Accepts(r) \/ Enters(r)
  \/ Publishes(r) \/ Completes(r) \/ Withdraws(r) \/ Ends(r) \/ GoneBack(r)

\* What an observation may lead to: the record as it is, with a physical step
\* it has the intent of or none, or a step of the record.
Admitted(result) ==
  \/ result.rec = rec /\ (result.act = NoAct \/ Owned(result.act))
  \/ result.act = NoAct /\ RecordStep(result.rec)

-----------------------------------------------------------------------------
(* The order of the members, and the names. *)

\* The stages of withdrawing the evidence, and their order.
LEMMA StageNames ==
  /\ Stages = {"commit", "boundary", "lock", "marker", "index", "complete"}
  /\ NextEvidence("commit") = "boundary"
  /\ NextEvidence("boundary") = "lock"
  /\ NextEvidence("lock") = "marker"
  /\ NextEvidence("marker") = "index"
  /\ NextEvidence("index") = "complete"
<1>1. DOMAIN EvidenceSteps = 1..6
  BY DEF EvidenceSteps
<1>2. Stages = {"commit", "boundary", "lock", "marker", "index", "complete"}
  BY <1>1 DEF Stages, EvidenceSteps
<1>3. \A step \in {"commit", "boundary", "lock", "marker", "index"} :
        \A i \in 1..5 : EvidenceSteps[i] = step =>
          NextEvidence(step) = EvidenceSteps[i + 1]
  <2> SUFFICES ASSUME NEW step \in {"commit", "boundary", "lock", "marker", "index"},
                      NEW i \in 1..5, EvidenceSteps[i] = step
               PROVE  NextEvidence(step) = EvidenceSteps[i + 1]
    OBVIOUS
  <2>1. \A j, k \in 1..5 : EvidenceSteps[j] = EvidenceSteps[k] => j = k
    BY DEF EvidenceSteps
  <2>2. (CHOOSE j \in 1..5 : EvidenceSteps[j] = step) = i
    BY <2>1
  <2>3. NextEvidence(step)
          = EvidenceSteps[1 + CHOOSE j \in 1..5 : EvidenceSteps[j] = step]
    BY Zenon DEF NextEvidence
  <2>4. 1 + i = i + 1
    OBVIOUS
  <2> QED
    BY <2>2, <2>3, <2>4, Zenon
<1>4. \A i \in 1..5 : NextEvidence(EvidenceSteps[i]) = EvidenceSteps[i + 1]
  BY <1>3 DEF EvidenceSteps
<1> QED
  <2>1. /\ NextEvidence(EvidenceSteps[1]) = EvidenceSteps[2]
        /\ NextEvidence(EvidenceSteps[2]) = EvidenceSteps[3]
        /\ NextEvidence(EvidenceSteps[3]) = EvidenceSteps[4]
        /\ NextEvidence(EvidenceSteps[4]) = EvidenceSteps[5]
        /\ NextEvidence(EvidenceSteps[5]) = EvidenceSteps[6]
    BY <1>4
  <2> QED
    BY <1>2, <2>1 DEF EvidenceSteps

\* No member bears the name of a stage or of a cursor's word.
LEMMA MemberNames ==
  \A m \in Member : m \notin Stages /\ m # "none" /\ m # "evidence"
                    /\ m # NoMember
BY NamesAssumption DEF Stages

\* A member's position is its index in the list.
LEMMA PositionType == \A m \in Member : Position(m) \in 1..Len(Targets)
BY TargetsDistinct, KindChoicesAssumption DEF Position, Member

\* A set of members has a first and a last one.
LEMMA Bounds ==
  ASSUME NEW S \in SUBSET Member, S # {}
  PROVE  First(S) \in S /\ Last(S) \in S
<1> DEFINE N == Len(Targets)
<1> DEFINE P == {Position(m) : m \in S}
<1> DEFINE Q == {N - Position(m) : m \in S}
<1>1. P \subseteq Nat /\ P # {} /\ Q \subseteq Nat /\ Q # {}
  BY PositionType, KindChoicesAssumption
<1>2. PICK p \in P : \A q \in P : ~(<<q, p>> \in OpToRel(<, Nat))
  <2> HIDE DEF P
  <2> QED
    BY <1>1, NatLessThanWellFounded, WFMin, Zenon
<1>3. PICK p2 \in Q : \A q \in Q : ~(<<q, p2>> \in OpToRel(<, Nat))
  <2> HIDE DEF Q
  <2> QED
    BY <1>1, NatLessThanWellFounded, WFMin, Zenon
<1>4. \A a, b \in Nat : <<a, b>> \in OpToRel(<, Nat) <=> a < b
  BY DEF OpToRel
<1>5. \E m \in S : \A k \in S : Position(m) <= Position(k)
  <2>1. PICK m \in S : p = Position(m)
    BY <1>2
  <2>2. \A k \in S : Position(k) \in P /\ ~(Position(k) < p)
    BY <1>1, <1>2, <1>4
  <2> QED
    BY <2>1, <2>2, PositionType
<1>6. \E m \in S : \A k \in S : Position(m) >= Position(k)
  <2>1. PICK m \in S : p2 = N - Position(m)
    BY <1>3
  <2>2. \A k \in S : N - Position(k) \in Q /\ ~(N - Position(k) < p2)
    BY <1>1, <1>3, <1>4
  <2> QED
    BY SMTT(30), <2>1, <2>2, PositionType, KindChoicesAssumption
<1> QED
  BY <1>5, <1>6 DEF First, Last

\* A member that has gone back has its row closed.
LEMMA BackDoneMember ==
  ASSUME MergeTypeOK, NEW m \in Member, rec.back = m
  PROVE  BackDone = [rec EXCEPT !.back = "none",
                       !.row[m] = [rec.row[m] EXCEPT
                          !.pending = "none",
                          !.state = IF rec.row[m].state = "conflicted"
                                      THEN "aborted" ELSE "rolledback"]]
<1>1. m # "complete"
  BY MemberNames, StageNames
<1> DEFINE Closed(b) == [rec EXCEPT !.back = "none",
                           !.row[b] = [rec.row[b] EXCEPT
                              !.pending = "none",
                              !.state = IF rec.row[b].state = "conflicted"
                                          THEN "aborted" ELSE "rolledback"]]
<1>2. BackDone = Closed(rec.back)
  BY <1>1, Zenon DEF BackDone
<1> QED
  BY <1>2, Zenon

-----------------------------------------------------------------------------
(* What the dispatcher asks for, and what an observation may lead to. *)

\* The state of the operation behind each kind of request.
LEMMA Dispatch ==
  ASSUME MergeInv
  PROVE  /\ NextAction.kind = "recovery" => rec.state = "recovery"
         /\ NextAction.kind = "cursor" => rec.state = "rolling"
         /\ NextAction.kind = "action" =>
              /\ rec.state \in {"executing", "halted"}
              /\ NextAction.who \in Member
              /\ rec.row[NextAction.who].pending # "none"
         /\ NextAction.kind = "preparation" =>
              /\ rec.state \in {"executing", "awaiting"} /\ NoPending
              /\ NextAction.who \in Member
              /\ rec.row[NextAction.who].state \in Unstarted \cup {"conflicted"}
         /\ NextAction.kind = "await" =>
              /\ rec.state = "executing" /\ NoPending
              /\ \E m \in Member : rec.row[m].state = "conflicted"
         /\ NextAction.kind = "begin" => rec.state = "halted" /\ NoPending
         /\ NextAction.kind = "complete" => rec.state = "executing"
         /\ NextAction.kind = "acceptance" =>
              rec.state = "finalizing" /\ ~rec.accepted
         /\ NextAction.kind = "publication" =>
              rec.state = "finalizing" /\ rec.accepted
         /\ NextAction.kind = "entry" => rec.state \in Forward /\ NoPending
<1> DEFINE pending == {m \in Member : rec.row[m].pending # "none"}
<1>0. /\ MergeTypeOK /\ RowInv /\ PhaseInv
      /\ rec.state \in Forward \cup {"completed", "aborted", "recovery", "rolling"}
  BY DEF MergeInv, MergeTypeOK, Forward
<1>1. CASE rec.state \in {"completed", "aborted", "recovery", "rolling"}
  BY <1>1 DEF NextAction, Ask
<1>2. CASE rec.state \in Forward /\ pending # {}
  <2>1. NextAction = Ask("action", First(pending))
    BY <1>2 DEF NextAction, Forward
  <2>2. First(pending) \in pending
    BY <1>2, Bounds
  <2>3. rec.state \in {"executing", "halted"}
    BY <1>0, <1>2 DEF RowInv, Effective, Forward
  <2> QED
    BY <2>1, <2>2, <2>3 DEF Ask
<1>3. CASE rec.state = "executing" /\ pending = {}
  <2> DEFINE owners == {m \in Member : ForwardOwner(m)}
  <2>1. NextAction = Executing /\ NoPending
    BY <1>3 DEF NextAction, NoPending
  <2>2. CASE inv.req # "abort" /\ owners # {}
    <3>1. Executing = Selected(First(owners))
      BY <2>2 DEF Executing
    <3>2. First(owners) \in owners
      BY <2>2, Bounds
    <3>3. PICK o \in owners : o = First(owners)
      BY <3>2
    <3> DEFINE others == {m \in Later(o) : Unvisited(m)}
    <3>4. others # {} => First(others) \in others
      BY Bounds DEF Later
    <3>5. \A m \in owners \cup others :
            m \in Member /\ rec.row[m].state \in Unstarted \cup {"conflicted"}
      BY DEF ForwardOwner, Unvisited, Later
    <3>6. \/ Selected(o) = Ask("preparation", o)
          \/ Selected(o) = Ask("preparation", First(others)) /\ others # {}
          \/ Selected(o) = Ask("await", NoMember) /\ rec.row[o].state = "conflicted"
      BY DEF Selected
    <3>7. PICK m \in Member :
            /\ rec.row[m].state \in Unstarted \cup {"conflicted"}
            /\ \/ NextAction = Ask("preparation", m)
               \/ /\ NextAction = Ask("await", NoMember)
                  /\ rec.row[m].state = "conflicted"
      <4>1. CASE Selected(o) = Ask("preparation", First(others)) /\ others # {}
        BY <2>1, <3>1, <3>3, <3>4, <3>5, <4>1
      <4>2. CASE ~(Selected(o) = Ask("preparation", First(others)) /\ others # {})
        BY <2>1, <3>1, <3>3, <3>5, <3>6, <4>2
      <4> QED
        BY <4>1, <4>2
    <3> QED
      BY <1>3, <2>1, <3>7 DEF Ask
  <2>3. CASE inv.req = "abort" \/ owners = {}
    BY <1>3, <2>1, <2>3 DEF Executing, Ask, Forward
  <2> QED
    BY <2>2, <2>3
<1>4. CASE rec.state \in {"awaiting", "halted"} /\ pending = {}
  <2> DEFINE conflicted == {m \in Member : rec.row[m].state = "conflicted"}
  <2>1. NextAction = Stopped /\ NoPending
    BY <1>4 DEF NextAction, NoPending
  <2>2. rec.state = "awaiting" => First(conflicted) \in conflicted
    BY <1>0, Bounds DEF PhaseInv, Effective
  <2> QED
    BY <1>4, <2>1, <2>2 DEF Stopped, Ask, Forward
<1>5. CASE rec.state = "finalizing" /\ pending = {}
  <2>1. NoPending
    BY <1>5 DEF NoPending
  <2> QED
    BY <1>5, <2>1 DEF NextAction, Ask, Forward
<1> QED
  BY <1>0, <1>1, <1>2, <1>3, <1>4, <1>5 DEF Forward

\* Repositories that fit no point of the record halt or suspend it.
LEMMA AmbiguousAdmitted ==
  ASSUME MergeInv, rec.state \in Forward \cup {"rolling"}, NEW origin,
         NEW result \in Ambiguous(origin)
  PROVE  Admitted(result)
<1>1. CASE rec.state = "executing" /\ HaltCause(rec)
  BY <1>1 DEF Ambiguous, Commit, Admitted, RecordStep, Halts
<1>2. CASE ~(rec.state = "executing" /\ HaltCause(rec))
  <2>1. \/ result = Return
        \/ /\ result = Commit([rec EXCEPT !.state = "recovery", !.origin = origin])
           /\ origin = rec.state
           /\ rec.state = "rolling" => rec.back # "none"
    BY <1>2 DEF Ambiguous, Only
  <2>2. CASE result = Return
    BY <2>2 DEF Return, Admitted
  <2>3. CASE result # Return
    <3>0. origin = rec.state
      BY <2>1, <2>3
    <3>1. /\ result.act = NoAct
          /\ result.rec = [rec EXCEPT !.state = "recovery", !.origin = rec.state]
      <4>1. result = Commit([rec EXCEPT !.state = "recovery", !.origin = rec.state])
        BY <2>1, <2>3, <3>0, Zenon
      <4> QED
        BY <4>1 DEF Commit
    <3>2. Suspends(result.rec)
      BY <2>1, <2>3, <3>1 DEF Suspends
    <3> QED
      BY <3>1, <3>2 DEF Admitted, RecordStep
  <2> QED
    BY <2>2, <2>3
<1> QED
  BY <1>1, <1>2

\* A step that is owned is executed, or given up without a trace.
LEMMA NotStartedAdmitted ==
  ASSUME NEW a, Owned(a), a.on # "member", NEW result \in NotStarted(a)
  PROVE  Admitted(result)
BY DEF NotStarted, Only, Execute, Return, Admitted

\* Turning round is a step of the record.
LEMMA EnterAdmitted ==
  ASSUME NEW r, NEW result \in Enter(r)
  PROVE  \/ Admitted(result)
         \/ /\ result.act = NoAct
            /\ result.rec = [r EXCEPT !.state = "rolling"]
BY DEF Enter, Only, Commit, Return, Admitted

\* Recovery.
LEMMA RecoveryAdmitted ==
  ASSUME rec.state = "recovery", NEW result \in Recovery
  PROVE  Admitted(result)
BY DEF Recovery, Only, Commit, Return, Admitted, RecordStep, Reopens

\* What the rollback's cursor points at.
LEMMA CursorIs ==
  \/ RollbackCursor = "evidence" /\ ~MembersTurn
  \/ /\ RollbackCursor = "complete" /\ MembersTurn
     /\ \A m \in Member : rec.row[m].state \in Terminal
  \/ /\ RollbackCursor \in Member /\ MembersTurn
     /\ rec.row[RollbackCursor].state \notin Terminal
<1> DEFINE left == {m \in Member : rec.row[m].state \notin Terminal}
<1>1. left # {} => Last(left) \in left
  BY Bounds
<1>2. CASE ~MembersTurn
  BY <1>2 DEF RollbackCursor, MembersTurn
<1>3. CASE MembersTurn /\ left # {}
  <2>1. RollbackCursor = Last(left)
    BY <1>3 DEF RollbackCursor, MembersTurn
  <2> QED
    BY <1>1, <1>3, <2>1
<1>4. CASE MembersTurn /\ left = {}
  BY <1>4 DEF RollbackCursor, MembersTurn
<1> QED
  BY <1>2, <1>3, <1>4

\* The rollback's steps.
LEMMA CursorAdmitted ==
  ASSUME MergeInv, rec.state = "rolling", NEW result \in Cursor
  PROVE  Admitted(result)
<1>0. MergeTypeOK /\ "evidence" \notin Member /\ "complete" \notin Member
  BY MemberNames, StageNames DEF MergeInv
<1>1. CASE inv.req # "abort"
  BY <1>1 DEF Cursor, Return, Admitted
<1>2. CASE inv.req = "abort" /\ rec.back = "none"
  <2>1. CASE ~PrefixExact
    BY <1>2, <2>1 DEF Cursor, Return, Admitted
  <2>2. CASE PrefixExact
    <3>1. result \in CursorBegins
      BY <1>2, <2>2 DEF Cursor
    <3>2. CASE RollbackCursor = "evidence"
      <4>1. result = Commit([rec EXCEPT !.back = "commit"]) /\ ~MembersTurn
        BY <1>0, <3>1, <3>2, CursorIs DEF CursorBegins
      <4> QED
        BY <1>2, <4>1 DEF Commit, Admitted, RecordStep, Withdraws
    <3>3. CASE RollbackCursor = "complete"
      <4>1. /\ result = Commit([rec EXCEPT !.state = "aborted"]) /\ MembersTurn
            /\ \A m \in Member : rec.row[m].state \in Terminal
        BY <1>0, <3>1, <3>3, CursorIs DEF CursorBegins
      <4>2. \A m \in Member : repo[m] = "before"
        BY <1>0, <1>2, <2>2, <3>3, <4>1 DEF PrefixExact, At
      <4> QED
        BY <1>2, <4>1, <4>2 DEF Commit, Admitted, RecordStep, Ends
    <3>4. CASE RollbackCursor \in Member
      <4>1. PICK m \in Member : m = RollbackCursor
        BY <3>4
      <4>2. /\ m # "evidence" /\ m # "complete" /\ MembersTurn
            /\ rec.row[m].state \notin Terminal
        BY <1>0, <4>1, CursorIs
      <4>3. CASE rec.row[m].state \in Untouched
        <5>1. result \in Only(At(m, "before"), Commit([rec EXCEPT !.row[m].state = "aborted"]))
          BY <3>1, <4>1, <4>2, <4>3 DEF CursorBegins
        <5>2. CASE At(m, "before")
          <6>1. result.act = NoAct /\ Passes(result.rec, m)
            BY <1>2, <4>2, <5>1, <5>2 DEF Only, Commit, Passes, At
          <6> QED
            BY <6>1 DEF Admitted, RecordStep
        <5>3. CASE ~At(m, "before")
          BY <5>1, <5>3 DEF Only, Return, Admitted
        <5> QED
          BY <5>2, <5>3
      <4>4. CASE rec.row[m].state \notin Untouched
        <5>1. result = Commit([rec EXCEPT !.back = m])
          BY <3>1, <4>1, <4>2, <4>4 DEF CursorBegins
        <5> QED
          BY <1>2, <4>2, <5>1 DEF Commit, Admitted, RecordStep, TurnsBack
      <4> QED
        BY <4>3, <4>4
    <3> QED
      BY <3>2, <3>3, <3>4, CursorIs
  <2> QED
    BY <2>1, <2>2
<1>3. CASE inv.req = "abort" /\ rec.back # "none"
  <2>1. CASE ~PrefixExact
    BY <1>3, <2>1, AmbiguousAdmitted DEF Cursor
  <2>2. CASE PrefixExact /\ PendingForm = "before"
    <3>1. result \in NotStarted(BackAct)
      BY <1>3, <2>2 DEF Cursor
    <3>2. rec.back # "complete"
      BY <2>2, <1>0 DEF PendingForm, EvidenceForm
    <3>3. Owned(BackAct) /\ BackAct.on # "member"
      BY <1>3, <3>2 DEF Owned, BackAct
    <3> QED
      BY <3>1, <3>3, NotStartedAdmitted
  <2>3. CASE PrefixExact /\ PendingForm = "after"
    <3>1. result = Commit(BackDone)
      BY <1>3, <2>3 DEF Cursor
    <3> QED
      BY <1>3, <2>3, <3>1 DEF Commit, Admitted, RecordStep, GoneBack
  <2>4. CASE PrefixExact /\ PendingForm = "error"
    <3>1. result = Return
      BY <1>3, <2>4 DEF Cursor
    <3> QED
      BY <3>1 DEF Return, Admitted
  <2>5. CASE PrefixExact /\ PendingForm = "ambiguous"
    <3>1. result \in Ambiguous("rolling")
      BY <1>3, <2>5 DEF Cursor
    <3> QED
      BY <3>1, AmbiguousAdmitted
  <2>6. PendingForm \in {"before", "after", "error", "ambiguous"}
    <3>1. CASE rec.back \in Member
      BY <3>1 DEF PendingForm, BackForm
    <3>2. CASE rec.back \notin Member
      <4>1. rec.back \in Stages
        BY <1>0, <1>3, <3>2 DEF MergeTypeOK, Stages
      <4> QED
        BY <3>2, <4>1, StageNames DEF PendingForm, EvidenceForm
    <3> QED
      BY <3>1, <3>2
  <2> QED
    BY <2>1, <2>2, <2>3, <2>4, <2>5, <2>6
<1> QED
  BY <1>1, <1>2, <1>3

\* The action's pending member has a point of its action reached.
LEMMA Reconciled ==
  ASSUME MergeInv, NEW m \in Member, rec.row[m].pending # "none"
  PROVE  /\ Reconcile(m) = "notstarted" =>
              \/ repo[m] = "before" /\ rec.row[m].pending \notin {"none", "resolve"}
              \/ repo[m] = "resolved" /\ rec.row[m].pending = "resolve"
         /\ Reconcile(m) = "completed" =>
              /\ repo[m] = "result"
              /\ rec.row[m].pending \in {"ff", "merge", "resolve"}
              /\ Completion(m) \in Integrated
         /\ Reconcile(m) = "conflict" =>
              repo[m] \in InMerge /\ rec.row[m].pending = "conflict"
<1>1. CASE m \in dirty
  BY <1>1 DEF Reconcile
<1>2. CASE m \notin dirty
  BY <1>2 DEF Reconcile, Completion, Integrated
<1> QED
  BY <1>1, <1>2

\* The bytes of a conflict are the ones Git wrote or edited ones.
LEMMA BytesType == \A m \in Member : LiveBytes(m) \in {"pristine", "edited"}
BY DEF LiveBytes

\* An outcome that leaves the operation where it is, or not, is a step.
LEMMA SettleAdmitted ==
  ASSUME MergeInv, NEW m \in Member, rec.state \in {"executing", "halted"},
         NEW state \in Successful \cup {"conflicted"},
         NEW snap \in {"none", "pristine", "edited"},
         \/ /\ state = "uptodate" /\ rec.row[m].pending = "verify"
            /\ repo[m] = "before"
         \/ /\ state = "conflicted" /\ rec.row[m].pending = "conflict"
            /\ repo[m] \in InMerge
         \/ /\ state \in Integrated /\ repo[m] = "result"
            /\ rec.row[m].pending \in {"ff", "merge", "resolve"},
         NEW result,
         \/ result = Recorded(Outcome(m, state, snap))
         \/ rec.state = "halted" /\ result \in Enter(Outcome(m, state, snap))
         \/ rec.state = "executing" /\ result = Commit(Outcome(m, state, snap))
  PROVE  Admitted(result)
<1> DEFINE r == Outcome(m, state, snap)
<1>0. r.state = rec.state /\ [r EXCEPT !.state = rec.state] = r
  BY DEF Outcome, MergeInv, MergeTypeOK
<1>1. ASSUME NEW next \in {"executing", "halted", "rolling"},
             rec.state = "executing" => next = "executing",
             next = "halted" => HaltCause([r EXCEPT !.state = next]),
             result = Commit([r EXCEPT !.state = next])
      PROVE  Admitted(result)
  <2>1. result.act = NoAct /\ result.rec = [r EXCEPT !.state = next]
    BY <1>1 DEF Commit
  <2>2. Settles(result.rec, m)
    BY <1>1, <2>1 DEF Settles
  <2> QED
    BY <2>1, <2>2 DEF Admitted, RecordStep
<1>2. ASSUME NEW next \in {"executing", "halted", "rolling"}
      PROVE  HaltCause([r EXCEPT !.state = next]) <=> HaltCause(r)
  BY DEF HaltCause, Outcome, MergeInv, MergeTypeOK
<1> HIDE DEF r
<1>3. CASE result = Recorded(r)
  <2>1. CASE rec.state = "halted" /\ ~HaltCause(r)
    <3>1. result = Commit([r EXCEPT !.state = "executing"])
      BY <1>0, <1>3, <2>1 DEF Recorded
    <3> QED
      BY <1>1, <2>1, <3>1
  <2>2. CASE ~(rec.state = "halted" /\ ~HaltCause(r))
    <3>1. result = Commit([r EXCEPT !.state = rec.state])
      BY <1>0, <1>3, <2>2 DEF Recorded
    <3>2. rec.state = "halted" => HaltCause([r EXCEPT !.state = rec.state])
      BY <1>2, <2>2
    <3> QED
      BY <1>1, <3>1, <3>2
  <2> QED
    BY <2>1, <2>2
<1>4. CASE rec.state = "halted" /\ result \in Enter(r)
  <2>1. result = Return \/ result = Commit([r EXCEPT !.state = "rolling"])
    BY <1>4 DEF Enter, Only
  <2>2. CASE result = Return
    BY <2>2 DEF Return, Admitted
  <2>3. CASE result = Commit([r EXCEPT !.state = "rolling"])
    BY <1>1, <1>4, <2>3
  <2> QED
    BY <2>1, <2>2, <2>3
<1>5. CASE rec.state = "executing" /\ result = Commit(r)
  BY <1>0, <1>1, <1>5
<1> QED
  BY <1>3, <1>4, <1>5 DEF r

\* A forward action: executed, recorded, failed, or ambiguous.
LEMMA ForwardAdmitted ==
  ASSUME MergeInv, NEW m \in Member, rec.state \in {"executing", "halted"},
         rec.row[m].pending # "none", NEW result \in ForwardAction(m)
  PROVE  Admitted(result)
<1> DEFINE found == Reconcile(m)
<1> DEFINE pending == rec.row[m].pending
<1>0. rec.row[m] \in Row /\ repo[m] \in {"before", "result"} \cup InMerge
  BY DEF MergeInv, MergeTypeOK
<1>1. CASE found = "notstarted" /\ pending = "verify"
  <2>1. result = Recorded(Outcome(m, "uptodate", "none"))
    BY <1>1 DEF ForwardAction
  <2>2. repo[m] = "before"
    BY <1>1, Reconciled
  <2> QED
    BY <1>1, <2>1, <2>2, SettleAdmitted DEF Successful
<1>2. CASE found = "notstarted" /\ pending # "verify"
  <2> DEFINE a == ForwardAct(m)
  <2>1. result \in NotStarted(a)
    BY <1>2 DEF ForwardAction
  <2>2. Owned(a) /\ a.on = "member" /\ a.who = m
    BY <1>0, <1>2 DEF Owned, ForwardAct, Row, Forward
  <2>3. CASE inv.attempt # a
    BY <2>1, <2>2, <2>3 DEF NotStarted, Only, Execute, Return, Admitted
  <2>4. CASE inv.attempt = a
    <3>1. result \in NoProgress(a)
      BY <2>1, <2>2, <2>4 DEF NotStarted
    <3> DEFINE row == rec.row[m]
    <3> DEFINE failed == IF row.pending = "resolve"
                           THEN [row EXCEPT !.error = TRUE]
                           ELSE [row EXCEPT !.error = TRUE, !.state = "failed",
                                            !.snap = "none"]
    <3>2. \/ result = Return
          \/ rec.state = "executing" /\ result = Commit(FailureBatch(m, failed))
      BY <2>2, <3>1 DEF NoProgress, Only
    <3>3. /\ failed \in Row /\ failed.pending = rec.row[m].pending /\ failed.error
          /\ \/ failed.state = "failed" /\ rec.row[m].state \in Unstarted
             \/ /\ failed.state = "conflicted" /\ rec.row[m].state = "conflicted"
                /\ failed.pending = "resolve"
      BY <1>0, <1>2 DEF Row, MergeInv, RowInv, Unstarted
    <3>4. CASE result = Return
      BY <3>4 DEF Return, Admitted
    <3>5. CASE result # Return
      <4>1. /\ result.act = NoAct /\ rec.state = "executing"
            /\ result.rec = FailureBatch(m, failed)
        BY <3>2, <3>5 DEF Commit
      <4>2. Fails(result.rec, m)
        <5> HIDE DEF failed
        <5> QED
          BY <3>3, <4>1 DEF Fails
      <4> QED
        BY <4>1, <4>2 DEF Admitted, RecordStep
    <3> QED
      BY <3>4, <3>5
  <2> QED
    BY <2>3, <2>4
<1>3. CASE found = "conflict" /\ repo[m] # "resolved"
  <2>1. PICK snap \in {"none", "pristine", "edited"} :
          result = Recorded(Outcome(m, "conflicted", snap))
    <3>1. (IF m \in inv.here THEN LiveBytes(m) ELSE "none")
            \in {"none", "pristine", "edited"}
      BY BytesType
    <3>2. result = Recorded(Outcome(m, "conflicted",
                              IF m \in inv.here THEN LiveBytes(m) ELSE "none"))
      BY <1>3 DEF ForwardAction
    <3> QED
      BY <3>1, <3>2
  <2>2. repo[m] \in InMerge /\ pending = "conflict"
    BY <1>3, Reconciled
  <2> QED
    BY <2>1, <2>2, SettleAdmitted
<1>4. CASE found = "completed"
  <2>1. result = Recorded(Outcome(m, Completion(m), "none"))
    BY <1>4 DEF ForwardAction
  <2>2. /\ repo[m] = "result" /\ pending \in {"ff", "merge", "resolve"}
        /\ Completion(m) \in Integrated
    BY <1>4, Reconciled
  <2>3. Completion(m) \in Successful \cup {"conflicted"}
    BY <2>2 DEF Successful
  <2> QED
    BY <2>1, <2>2, <2>3, SettleAdmitted
<1>5. CASE found \notin {"notstarted", "completed"}
           /\ ~(found = "conflict" /\ repo[m] # "resolved")
  <2>1. result \in Ambiguous(rec.state)
    BY <1>5 DEF ForwardAction
  <2> QED
    BY <2>1, AmbiguousAdmitted DEF Forward
<1> QED
  BY <1>1, <1>2, <1>3, <1>4, <1>5

\* An abort with a member pending: recorded, given up, or ambiguous.
LEMMA AbortAdmitted ==
  ASSUME MergeInv, NEW m \in Member, rec.state \in {"executing", "halted"},
         rec.row[m].pending # "none", NEW result \in AbortAction(m)
  PROVE  Admitted(result)
<1> DEFINE found == Reconcile(m)
<1> DEFINE pending == rec.row[m].pending
<1> DEFINE Told(r) == IF rec.state = "halted" THEN Enter(r) ELSE {Commit(r)}
<1>1. CASE found = "notstarted" /\ pending = "verify"
  <2>1. result \in Told(Outcome(m, "uptodate", "none"))
    BY <1>1 DEF AbortAction
  <2>2. repo[m] = "before"
    BY <1>1, Reconciled
  <2> QED
    BY <1>1, <2>1, <2>2, SettleAdmitted DEF Successful
<1>2. CASE found = "notstarted" /\ pending # "verify"
  <2>1. result \in Enter([rec EXCEPT !.row[m].pending = "none"])
    BY <1>2 DEF AbortAction
  <2>2. CASE Admitted(result)
    BY <2>2
  <2>3. CASE ~Admitted(result)
    <3>1. /\ result.act = NoAct
          /\ result.rec = [rec EXCEPT !.row[m].pending = "none", !.state = "rolling"]
      BY <2>1, <2>3, EnterAdmitted
    <3>2. GivesUp(result.rec, m)
      BY <1>2, <3>1, Reconciled DEF GivesUp
    <3> QED
      BY <3>1, <3>2 DEF Admitted, RecordStep
  <2> QED
    BY <2>2, <2>3
<1>3. CASE found = "conflict" /\ repo[m] # "resolved"
  <2>1. result \in Told(Outcome(m, "conflicted", LiveBytes(m)))
    BY <1>3 DEF AbortAction
  <2>2. repo[m] \in InMerge /\ pending = "conflict"
    BY <1>3, Reconciled
  <2>3. PICK snap \in {"none", "pristine", "edited"} : snap = LiveBytes(m)
    BY BytesType
  <2> QED
    BY <2>1, <2>2, <2>3, SettleAdmitted
<1>4. CASE found = "completed"
  <2>1. result \in Told(Outcome(m, Completion(m), "none"))
    BY <1>4 DEF AbortAction
  <2>2. /\ repo[m] = "result" /\ pending \in {"ff", "merge", "resolve"}
        /\ Completion(m) \in Integrated
    BY <1>4, Reconciled
  <2>3. Completion(m) \in Successful \cup {"conflicted"}
    BY <2>2 DEF Successful
  <2> QED
    BY <2>1, <2>2, <2>3, SettleAdmitted
<1>5. CASE found \notin {"notstarted", "completed"}
           /\ ~(found = "conflict" /\ repo[m] # "resolved")
  <2>1. result \in Ambiguous("rolling")
    BY <1>5 DEF AbortAction
  <2> QED
    BY <2>1, AmbiguousAdmitted DEF Forward
<1> QED
  BY <1>1, <1>2, <1>3, <1>4, <1>5

\* A preparation: pending, failed, or ambiguous.
LEMMA PreparationAdmitted ==
  ASSUME MergeInv, NEW m \in Member, rec.state \in {"executing", "awaiting"},
         NoPending, rec.row[m].state \in Unstarted \cup {"conflicted"},
         NEW result \in Preparation(m)
  PROVE  Admitted(result)
<1>0. rec.row[m] \in Row /\ rec.row[m].pending = "none"
  BY DEF MergeInv, MergeTypeOK, NoPending
<1>1. CASE ~NoDrift(m)
  <2>1. result \in Ambiguous(rec.state)
    BY <1>1 DEF Preparation
  <2> QED
    BY <2>1, AmbiguousAdmitted DEF Forward
<1>2. CASE NoDrift(m) /\ ~Ready(m)
  BY <1>2 DEF Preparation, Return, Admitted
<1>3. CASE NoDrift(m) /\ Ready(m)
  <2> DEFINE row == rec.row[m]
  <2> DEFINE pending == IF row.state = "conflicted" THEN "resolve" ELSE kind[m]
  <2> DEFINE failed == [row EXCEPT !.state = "failed", !.pending = "none",
                                   !.error = TRUE, !.snap = "none"]
  <2>1. \/ result = Return
        \/ rec.state = "awaiting" /\ result = Commit([rec EXCEPT !.state = "executing"])
        \/ rec.state = "executing" /\ result = Commit([rec EXCEPT !.row[m].pending = pending])
        \/ /\ row.state # "conflicted" /\ rec.state = "executing"
           /\ result = Commit(FailureBatch(m, failed))
    BY <1>3 DEF Preparation, Prepared, Only
  <2>2. CASE result = Return
    BY <2>2 DEF Return, Admitted
  <2>3. CASE rec.state = "awaiting" /\ result = Commit([rec EXCEPT !.state = "executing"])
    <3>1. result.act = NoAct /\ Proceeds(result.rec)
      BY <2>3 DEF Commit, Proceeds
    <3> QED
      BY <3>1 DEF Admitted, RecordStep
  <2>4. CASE rec.state = "executing" /\ result = Commit([rec EXCEPT !.row[m].pending = pending])
    <3>1. result.act = NoAct /\ Prepares(result.rec, m)
      BY <2>4 DEF Commit, Prepares
    <3> QED
      BY <3>1 DEF Admitted, RecordStep
  <2>5. CASE /\ row.state # "conflicted" /\ rec.state = "executing"
             /\ result = Commit(FailureBatch(m, failed))
    <3>1. /\ failed \in Row /\ failed.pending = rec.row[m].pending /\ failed.error
          /\ failed.state = "failed" /\ rec.row[m].state \in Unstarted
      BY <1>0, <2>5 DEF Row, Unstarted
    <3>2. result.act = NoAct /\ result.rec = FailureBatch(m, failed)
      BY <2>5 DEF Commit
    <3>3. Fails(result.rec, m)
      <4> HIDE DEF failed
      <4> QED
        BY <2>5, <3>1, <3>2 DEF Fails
    <3> QED
      BY <3>2, <3>3 DEF Admitted, RecordStep
  <2> QED
    BY <2>1, <2>2, <2>3, <2>4, <2>5
<1> QED
  BY <1>1, <1>2, <1>3

\* Members that are settled are where their plans lead.
LEMMA SettledMembers ==
  ASSUME MergeInv, MembersSettled
  PROVE  /\ \A m \in Member :
              repo[m] = IF kind[m] = "verify" THEN "before" ELSE "result"
         /\ (\E m \in Member : rec.row[m].state \in Integrated) <=> Moved
<1>1. \A m \in Member :
        /\ rec.row[m].state \in Integrated <=> kind[m] # "verify"
        /\ repo[m] = IF rec.row[m].state \in Integrated THEN "result" ELSE "before"
  BY DEF MergeInv, RowInv, MembersSettled, NoDrift, Successful, Integrated
<1> QED
  BY <1>1 DEF Moved

\* The root at a point of the publication has a next step, which is the end
\* only when everything is in place.
LEMMA ResolutionIs ==
  ASSUME MergeTypeOK
  PROVE  /\ Resolution \in {"marker", "lock", "boundary", "index", "complete",
                            "ambiguous"}
         /\ Resolution = "complete" =>
              /\ root.marker /\ root.integrity /\ root.index
              /\ "lock" \in changes => root.lock
              /\ "boundary" \in changes => root.boundary
<1>1. /\ root.marker \in BOOLEAN /\ root.lock \in BOOLEAN /\ root.index \in BOOLEAN
      /\ root.boundary \in BOOLEAN /\ root.integrity \in BOOLEAN
  BY DEF MergeTypeOK
<1>2. Prefix \in {"baseline", "marker", "boundary", "lock", "other"}
  BY DEF Prefix
<1>3. /\ Prefix = "marker" => root.marker
      /\ Prefix = "boundary" =>
           /\ root.marker
           /\ "lock" \in changes => root.lock
           /\ "boundary" \in changes => root.boundary
  BY <1>1 DEF Prefix
<1>4. \/ Snapshot = <<Prefix, "pre">>
      \/ Snapshot = <<Prefix, "staged">> /\ root.integrity /\ root.index
      \/ Snapshot = <<"other", "other">>
  BY <1>1 DEF Snapshot
<1>5. Resolution \in {"marker", "lock", "boundary", "index", "complete", "ambiguous"}
  BY DEF Resolution
<1>6. ASSUME Resolution = "complete"
      PROVE  \/ Snapshot = <<"marker", "staged">> /\ changes = {}
             \/ Snapshot = <<"boundary", "staged">>
  BY <1>6 DEF Resolution
<1> QED
  BY <1>1, <1>3, <1>4, <1>5, <1>6

\* The publication's steps.
LEMMA PublicationAdmitted ==
  ASSUME MergeInv, rec.state = "finalizing", rec.accepted,
         NEW result \in Publication
  PROVE  Admitted(result)
<1>0. /\ MergeTypeOK /\ rec.pub \in {"none", "preparing", "evidence", "publishing",
                                     "verifying", "complete"}
      /\ rec.cand \in BOOLEAN /\ rec.comp \in BOOLEAN
  BY DEF MergeInv, MergeTypeOK
<1>1. \A r : result = Commit(r) /\ Publishes(r) => Admitted(result)
  BY DEF Commit, Admitted, RecordStep
<1>2. result = Return => Admitted(result)
  BY DEF Return, Admitted
<1>3. result \in Ambiguous("finalizing") => Admitted(result)
  BY AmbiguousAdmitted DEF Forward
<1>4. CASE rec.pub = "none"
  <2> DEFINE required == \E m \in Member : rec.row[m].state \in Integrated
  <2>1. \/ result = Return
        \/ MembersSettled /\ result = Commit(Step(IF required THEN "preparing" ELSE "complete"))
    BY <1>4 DEF Publication, Only, AcceptedInputs
  <2>2. CASE MembersSettled /\ result = Commit(Step(IF required THEN "preparing" ELSE "complete"))
    <3>1. required <=> Moved
      BY <2>2, SettledMembers
    <3>2. Publishes(Step(IF required THEN "preparing" ELSE "complete"))
      <4> HIDE DEF required
      <4> QED
        BY <1>4, <3>1 DEF Publishes
    <3> QED
      BY <1>1, <2>2, <3>2
  <2> QED
    BY <1>2, <2>1, <2>2
<1>5. CASE rec.pub = "preparing" /\ ~rec.cand
  <2>1. \/ result = Commit([rec EXCEPT !.cand = TRUE])
        \/ result \in Ambiguous("finalizing")
    BY <1>5 DEF Publication
  <2>2. Publishes([rec EXCEPT !.cand = TRUE])
    BY <1>5 DEF Publishes
  <2> QED
    BY <1>1, <1>3, <2>1, <2>2
<1>6. CASE rec.pub = "preparing" /\ rec.cand
  <2>1. result = Return \/ result = Commit(Step("evidence")) \/ result \in Ambiguous("finalizing")
    BY <1>6 DEF Publication
  <2>2. Publishes(Step("evidence"))
    BY <1>6 DEF Publishes
  <2> QED
    BY <1>1, <1>2, <1>3, <2>1, <2>2
<1>7. CASE rec.pub = "evidence" /\ ~rec.comp
  <2>1. \/ result \in NotStarted(PublishAct("evidence"))
        \/ EvidenceFound /\ result = Commit([rec EXCEPT !.comp = TRUE])
        \/ result \in Ambiguous("finalizing")
    BY <1>7 DEF Publication
  <2>2. Owned(PublishAct("evidence")) /\ PublishAct("evidence").on # "member"
    BY <1>7 DEF Owned, PublishAct
  <2>3. EvidenceFound => Publishes([rec EXCEPT !.comp = TRUE])
    BY <1>7 DEF Publishes
  <2> QED
    BY <1>1, <1>3, <2>1, <2>2, <2>3, NotStartedAdmitted
<1>8. CASE rec.pub = "evidence" /\ rec.comp
  <2>1. result = Commit(Step("publishing")) \/ result \in Ambiguous("finalizing")
    BY <1>8 DEF Publication
  <2>2. Publishes(Step("publishing"))
    BY <1>8 DEF Publishes
  <2> QED
    BY <1>1, <1>3, <2>1, <2>2
<1>9. CASE rec.pub = "publishing"
  <2>1. \/ result \in Ambiguous("finalizing")
        \/ result = Return
        \/ Resolution = "complete" /\ result = Commit(Step("verifying"))
        \/ /\ Resolution \notin {"complete", "ambiguous"}
           /\ result \in NotStarted(PublishAct(Resolution))
    BY <1>9 DEF Publication, PublicationExact
  <2>2. Resolution = "complete" => Publishes(Step("verifying"))
    BY <1>9 DEF Publishes
  <2>3. CASE /\ Resolution \notin {"complete", "ambiguous"}
             /\ result \in NotStarted(PublishAct(Resolution))
    <3>1. PICK what \in {"marker", "lock", "boundary", "index"} : what = Resolution
      BY <1>0, <2>3, ResolutionIs
    <3>2. Owned(PublishAct(what)) /\ PublishAct(what).on # "member"
      BY <1>9, <3>1 DEF Owned, PublishAct
    <3> QED
      BY <2>3, <3>1, <3>2, NotStartedAdmitted
  <2> QED
    BY <1>1, <1>2, <1>3, <2>1, <2>2, <2>3
<1>10. CASE rec.pub = "verifying"
  <2>1. result = Commit(Step("complete")) \/ result \in Ambiguous("finalizing")
    BY <1>10 DEF Publication
  <2>2. Publishes(Step("complete"))
    BY <1>10 DEF Publishes
  <2> QED
    BY <1>1, <1>3, <2>1, <2>2
<1>11. CASE rec.pub = "complete"
  <2>1. \/ PublicationExact /\ result = Commit([rec EXCEPT !.state = "completed"])
        \/ result \in Ambiguous("finalizing")
    BY <1>11 DEF Publication
  <2>2. CASE PublicationExact /\ result = Commit([rec EXCEPT !.state = "completed"])
    <3>1. MembersSettled /\ (~rec.cand => root.head = "base")
      BY <1>0, <1>11, <2>2
      DEF PublicationExact, AcceptedInputs, PostEvidenceInputs, RootBaseline
    <3>2. result.act = NoAct /\ Completes(result.rec)
      BY <1>11, <2>2, <3>1 DEF Commit, Completes
    <3> QED
      BY <3>2 DEF Admitted, RecordStep
  <2> QED
    BY <1>3, <2>1, <2>2
<1> QED
  BY <1>0, <1>4, <1>5, <1>6, <1>7, <1>8, <1>9, <1>10, <1>11

\* Abort with nothing pending.
LEMMA EntryAdmitted ==
  ASSUME MergeInv, rec.state \in Forward, NoPending, NEW result \in Entry
  PROVE  Admitted(result)
<1>1. /\ rec.pub = "evidence" => rec.state = "finalizing" /\ rec.accepted
  BY DEF MergeInv, PublicationInv, PhaseInv, Effective, Forward
<1>2. ASSUME result \in Enter(rec), rec.pub = "evidence" /\ ~rec.comp => root.head = "base"
      PROVE  Admitted(result)
  <2>1. CASE Admitted(result)
    BY <2>1
  <2>2. CASE ~Admitted(result)
    <3>1. result.act = NoAct /\ result.rec = [rec EXCEPT !.state = "rolling"]
      BY <1>2, <2>2, EnterAdmitted
    <3>2. Enters(result.rec)
      BY <1>2, <3>1 DEF Enters
    <3> QED
      BY <3>1, <3>2 DEF Admitted, RecordStep
  <2> QED
    BY <2>1, <2>2
<1>3. CASE rec.state # "finalizing"
  BY <1>1, <1>2, <1>3 DEF Entry
<1>4. CASE rec.state = "finalizing" /\ rec.pub = "none" /\ ~rec.accepted
  <2>1. result \in Enter(rec) \/ result = Return
    BY <1>4 DEF Entry
  <2> QED
    BY <1>2, <1>4, <2>1 DEF Return, Admitted
<1>5. CASE rec.state = "finalizing" /\ ~(rec.pub = "none" /\ ~rec.accepted) /\ PublicationExact
  <2>1. result \in Enter(rec)
    BY <1>5 DEF Entry
  <2>2. rec.pub = "evidence" /\ ~rec.comp => root.head = "base"
    BY <1>5 DEF PublicationExact, EvidenceBase, AcceptedInputs, RootBaseline
  <2> QED
    BY <1>2, <2>1, <2>2
<1>6. CASE rec.state = "finalizing" /\ ~(rec.pub = "none" /\ ~rec.accepted) /\ ~PublicationExact
  <2>1. \/ result = Return
        \/ /\ rec.pub = "evidence" /\ ~rec.comp /\ EvidenceFound
           /\ result = Commit([rec EXCEPT !.comp = TRUE])
    BY <1>6 DEF Entry, Only
  <2>2. CASE result = Return
    BY <2>2 DEF Return, Admitted
  <2>3. CASE /\ rec.pub = "evidence" /\ ~rec.comp /\ EvidenceFound
             /\ result = Commit([rec EXCEPT !.comp = TRUE])
    <3>1. result.act = NoAct /\ Publishes(result.rec)
      BY <1>1, <1>6, <2>3 DEF Commit, Publishes
    <3> QED
      BY <3>1 DEF Admitted, RecordStep
  <2> QED
    BY <2>1, <2>2, <2>3
<1> QED
  BY <1>3, <1>4, <1>5, <1>6

-----------------------------------------------------------------------------
(* The steps of the service and of the user, as far as the record and the  *)
(* repositories go.                                                        *)

Commands ==
  [req : {"none", "resume", "continue", "abort"},
   prepared : SUBSET Member, tried : SUBSET Act, here : SUBSET Member,
   flighted : BOOLEAN, attempt : Act \cup {NoAct}, failed : BOOLEAN,
   act : Act \cup {NoAct}]

\* An observation that is concluded.
Observes ==
  /\ inv.act = NoAct
  /\ inv' \in Commands
  /\ \/ rec' = rec /\ (inv'.act = NoAct \/ Owned(inv'.act))
     \/ RecordStep(rec') /\ inv'.act = NoAct
  /\ UNCHANGED <<kind, changes, repo, root, dirty>>

\* What is owned is an action.
LEMMA OwnedType == ASSUME MergeInv, NEW a, Owned(a) PROVE a \in Act
<1>1. CASE \E m \in Member : a = ForwardAct(m) /\ a.what \in {"ff", "merge", "conflict", "resolve"}
  BY <1>1 DEF ForwardAct, Act
<1>2. CASE \E what \in {"evidence", "marker", "lock", "boundary", "index"} : a = PublishAct(what)
  BY <1>2 DEF PublishAct, Act
<1>3. CASE a = BackAct /\ rec.back \notin {"none", "complete"}
  <2>1. rec.back \in Member \/ rec.back \in Stages
    BY <1>3 DEF MergeInv, MergeTypeOK, Stages
  <2> QED
    BY <1>3, <2>1, StageNames DEF BackAct, Act
<1> QED
  BY <1>1, <1>2, <1>3 DEF Owned

\* Concluding an observation whose results are all admitted.
LEMMA Concluded ==
  ASSUME MergeInv, NEW results, \A result \in results : Admitted(result),
         NEW prepared \in SUBSET Member, NEW flighted \in BOOLEAN,
         Running, Conclude(results, prepared, flighted)
  PROVE  Observes
<1>0. inv \in Commands /\ inv.act = NoAct
  BY DEF Running, MergeInv, MergeTypeOK, Commands
<1>1. PICK result \in results :
        /\ rec' = result.rec
        /\ inv' = IF \/ result.does = "return"
                     \/ result.does = "commit"
                          /\ StopsAfter(result.rec, prepared)
                    THEN Idle
                    ELSE [inv EXCEPT !.prepared = prepared,
                                     !.flighted = flighted,
                                     !.attempt = NoAct, !.failed = FALSE,
                                     !.act = result.act]
        /\ UNCHANGED <<kind, changes, repo, root, dirty>>
  BY DEF Conclude
<1>2. Admitted(result)
  OBVIOUS
<1>3. result.act \in Act \cup {NoAct}
  BY <1>2, OwnedType DEF Admitted
<1>4. \/ inv' = Idle
      \/ inv' = [inv EXCEPT !.prepared = prepared, !.flighted = flighted,
                            !.attempt = NoAct, !.failed = FALSE,
                            !.act = result.act]
  BY <1>1
<1>5. Idle \in Commands /\ Idle.act = NoAct
  BY DEF Idle, Commands
<1>6. inv' \in Commands /\ (inv'.act = NoAct \/ inv'.act = result.act)
  BY <1>0, <1>3, <1>4, <1>5 DEF Commands
<1> QED
  BY <1>0, <1>1, <1>2, <1>6 DEF Observes, Admitted

\* Every step of the service is a physical step or such an observation.
LEMMA ServiceSteps == MergeInv /\ ServiceStep => ExecuteOwned \/ Observes
<1> SUFFICES ASSUME MergeInv, ServiceStep PROVE ExecuteOwned \/ Observes
  OBVIOUS
<1>0. inv.prepared \in SUBSET Member /\ inv.flighted \in BOOLEAN
  BY DEF MergeInv, MergeTypeOK
<1>a. ASSUME NEW what, NEW results, \A result \in results : Admitted(result),
             Answer(what, results)
      PROVE  Observes
  BY <1>0, <1>a, Concluded DEF Answer
<1>r. Admitted(Return)
  BY DEF Admitted, Return
<1>1. CASE Respond
  BY <1>1, <1>a, <1>r DEF Respond
<1>2. CASE ObserveRecovery
  <2>1. rec.state = "recovery"
    BY <1>2, Dispatch DEF ObserveRecovery, Answer
  <2> QED
    BY <1>2, <1>a, <2>1, RecoveryAdmitted DEF ObserveRecovery
<1>3. CASE ObserveCursor
  <2>1. rec.state = "rolling"
    BY <1>3, Dispatch DEF ObserveCursor, Answer
  <2> QED
    BY <1>3, <1>a, <2>1, CursorAdmitted DEF ObserveCursor
<1>4. CASE ObserveAction
  <2> DEFINE results == IF inv.req = "abort" THEN AbortAction(NextAction.who)
                                             ELSE ForwardAction(NextAction.who)
  <2>1. Answer("action", results)
    BY <1>4 DEF ObserveAction
  <2>2. PICK m \in Member : m = NextAction.who
    BY <2>1, Dispatch DEF Answer
  <2>3. rec.state \in {"executing", "halted"} /\ rec.row[m].pending # "none"
    BY <2>1, <2>2, Dispatch DEF Answer
  <2>4. \A result \in results : Admitted(result)
    BY <2>2, <2>3, AbortAdmitted, ForwardAdmitted
  <2> QED
    BY <1>a, <2>1, <2>4
<1>5. CASE ObservePreparation
  <2>1. PICK m \in Member : m = NextAction.who
    BY <1>5, Dispatch DEF ObservePreparation
  <2>2. /\ rec.state \in {"executing", "awaiting"} /\ NoPending
        /\ rec.row[m].state \in Unstarted \cup {"conflicted"}
    BY <1>5, <2>1, Dispatch DEF ObservePreparation
  <2>3. \A result \in Preparation(m) : Admitted(result)
    BY <2>1, <2>2, PreparationAdmitted
  <2>4. Running
    BY <1>5 DEF ObservePreparation
  <2>5. PICK again \in BOOLEAN, counted \in BOOLEAN, first \in BOOLEAN :
          Conclude(IF again THEN {Return} ELSE Preparation(m),
                   IF counted THEN inv.prepared \cup {m} ELSE inv.prepared,
                   inv.flighted \/ first)
    <3> DEFINE c == rec.state # "awaiting"
    <3> DEFINE f == inv.req = "continue" /\ ~inv.flighted
    <3> DEFINE a == \/ c /\ m \in inv.prepared
                    \/ f /\ \E k \in Member \ {m} : ~Ready(k)
    <3>1. Conclude(IF a THEN {Return} ELSE Preparation(m),
                   IF c THEN inv.prepared \cup {m} ELSE inv.prepared,
                   inv.flighted \/ f)
      BY <1>5, <2>1 DEF ObservePreparation
    <3> QED
      BY <3>1
  <2>6. /\ (IF counted THEN inv.prepared \cup {m} ELSE inv.prepared) \in SUBSET Member
        /\ (inv.flighted \/ first) \in BOOLEAN
    BY <1>0
  <2>7. \A result \in IF again THEN {Return} ELSE Preparation(m) : Admitted(result)
    BY <1>r, <2>3
  <2> QED
    BY <2>4, <2>5, <2>6, <2>7, Concluded
<1>6. CASE AwaitResolution
  <2>1. /\ rec.state = "executing" /\ NoPending
        /\ \E m \in Member : rec.row[m].state = "conflicted"
    BY <1>6, Dispatch DEF AwaitResolution, Answer
  <2> DEFINE c == \A m \in Member :
                    /\ rec.row[m].pending = "none" /\ ~rec.row[m].error
                    /\ rec.row[m].state \in Successful \cup {"conflicted"}
  <2>2. c => Admitted(Commit([rec EXCEPT !.state = "awaiting"]))
    BY <2>1 DEF Admitted, Commit, RecordStep, Awaits
  <2> QED
    BY <1>6, <1>a, <1>r, <2>2 DEF AwaitResolution, Only
<1>7. CASE BeginExecution
  <2>1. rec.state = "halted"
    BY <1>7, Dispatch DEF BeginExecution, Answer
  <2>2. Admitted(Commit([rec EXCEPT !.state = "executing"]))
    BY <2>1 DEF Admitted, Commit, RecordStep, Proceeds
  <2> QED
    BY <1>7, <1>a, <2>2 DEF BeginExecution
<1>8. CASE ParticipantsComplete
  <2>1. rec.state = "executing"
    BY <1>8, Dispatch DEF ParticipantsComplete, Answer
  <2>2. MembersSettled => Admitted(Commit([rec EXCEPT !.state = "finalizing"]))
    BY <2>1 DEF Admitted, Commit, RecordStep, Finalizes
  <2> QED
    BY <1>8, <1>a, <1>r, <2>2 DEF ParticipantsComplete, Only
<1>9. CASE Acceptance
  <2>1. rec.state = "finalizing" /\ ~rec.accepted
    BY <1>9, Dispatch DEF Acceptance, Answer
  <2>2. Admitted(Commit([rec EXCEPT !.accepted = TRUE]))
    BY <2>1 DEF Admitted, Commit, RecordStep, Accepts
  <2> QED
    BY <1>9, <1>a, <1>r, <2>2 DEF Acceptance, Only
<1>10. CASE ObservePublication
  <2>1. rec.state = "finalizing" /\ rec.accepted
    BY <1>10, Dispatch DEF ObservePublication, Answer
  <2> QED
    BY <1>10, <1>a, <2>1, PublicationAdmitted DEF ObservePublication
<1>11. CASE RollbackEntry
  <2>1. rec.state \in Forward /\ NoPending
    BY <1>11, Dispatch DEF RollbackEntry, Answer
  <2> QED
    BY <1>11, <1>a, <2>1, EntryAdmitted DEF RollbackEntry
<1> QED
  BY <1>1, <1>2, <1>3, <1>4, <1>5, <1>6, <1>7, <1>8, <1>9, <1>10, <1>11
  DEF ServiceStep

\* Every step, as far as record and repositories go.
LEMMA Steps ==
  MergeInv /\ [Next]_vars =>
    \/ UNCHANGED <<kind, changes, rec, repo, root>>
    \/ RecordStep(rec') /\ UNCHANGED <<kind, changes, repo, root>>
    \/ ExecuteOwned
    \/ \E m \in Member : Work(m)
<1> SUFFICES ASSUME MergeInv, [Next]_vars,
                    ~UNCHANGED <<kind, changes, rec, repo, root>>,
                    ~ExecuteOwned, ~\E m \in Member : Work(m)
             PROVE  RecordStep(rec') /\ UNCHANGED <<kind, changes, repo, root>>
  OBVIOUS
<1>1. CASE ServiceStep
  BY <1>1, ServiceSteps DEF Observes
<1>2. CASE Crash \/ \E request \in {"continue", "abort"} : Begin(request)
  BY <1>2 DEF Crash, Begin
<1>3. CASE \E where \in Member \cup {"root"} : Disturb(where)
  BY <1>3 DEF Disturb
<1>4. CASE UNCHANGED vars
  BY <1>4 DEF vars
<1> QED
  BY <1>1, <1>2, <1>3, <1>4 DEF Next

-----------------------------------------------------------------------------
(* Each part of the invariant is kept. *)

\* The rows keep to the members' plans, one pending at a time.
LEMMA RowStep == MergeInv /\ [Next]_vars => RowInv'
<1> SUFFICES ASSUME MergeInv, [Next]_vars PROVE RowInv'
  OBVIOUS
<1>0. MergeTypeOK /\ RowInv /\ PhaseInv
  BY DEF MergeInv
<1>1. CASE UNCHANGED <<kind, changes, rec, repo, root>>
  BY <1>0, <1>1 DEF MergeTypeOK, RowInv, PhaseInv, Effective, Row, Integrated,
     Unstarted
<1>2. CASE ExecuteOwned
  BY <1>0, <1>2 DEF ExecuteOwned, MergeTypeOK, RowInv, PhaseInv, Effective, Row,
     Integrated, Unstarted
<1>3. CASE \E m \in Member : Work(m)
  BY <1>0, <1>3 DEF Work, MergeTypeOK, RowInv, PhaseInv, Effective, Row,
     Integrated, Unstarted
<1>4. CASE RecordStep(rec') /\ UNCHANGED <<kind, changes, repo, root>>
  <2>1. CASE Halts(rec')
    BY <1>0, <1>4, <2>1 DEF Halts, MergeTypeOK, RowInv, PhaseInv, Effective,
       Row, Integrated, Unstarted
  <2>2. CASE Suspends(rec')
    BY <1>0, <1>4, <2>2 DEF Suspends, Forward, MergeTypeOK, RowInv,
       PhaseInv, Effective, Row, Integrated, Unstarted
  <2>3. CASE Reopens(rec')
    BY <1>0, <1>4, <2>3 DEF Reopens, MergeTypeOK, RowInv, PhaseInv,
       Effective, Row, Integrated, Unstarted
  <2>4. ASSUME NEW m \in Member, Fails(rec', m) PROVE RowInv'
    BY <1>0, <1>4, <2>4 DEF Fails, FailureBatch, Row, MergeTypeOK, RowInv,
       PhaseInv, Effective, Row, Integrated, Unstarted
  <2>5. ASSUME NEW m \in Member, Settles(rec', m) PROVE RowInv'
    BY <1>0, <1>4, <2>5 DEF Settles, Outcome, Integrated, Successful,
       MergeTypeOK, RowInv, PhaseInv, Effective, Row, Integrated, Unstarted
  <2>6. ASSUME NEW m \in Member, GivesUp(rec', m) PROVE RowInv'
    BY <1>0, <1>4, <2>6 DEF GivesUp, MergeTypeOK, RowInv, PhaseInv,
       Effective, Row, Integrated, Unstarted
  <2>7. ASSUME NEW m \in Member, Prepares(rec', m) PROVE RowInv'
    <3>1. kind[m] \in {"verify", "ff", "merge", "conflict"}
      BY <1>0, KindChoicesAssumption DEF MergeTypeOK
    <3>2. \A k \in Member :
            /\ rec'.row[k].state = rec.row[k].state
            /\ k # m => rec'.row[k].pending = "none"
      BY <1>0, <1>4, <2>7 DEF Prepares, NoPending, MergeTypeOK, Row
    <3>3. rec'.row[m].pending = IF rec.row[m].state = "conflicted" THEN "resolve" ELSE kind[m]
      BY <1>0, <1>4, <2>7 DEF Prepares, MergeTypeOK, Row
    <3>4. Effective' = "executing" /\ rec.row[m].state \in Unstarted \cup {"conflicted"}
      BY <1>0, <1>4, <2>7 DEF Prepares, Effective, MergeTypeOK
    <3>5. kind' = kind
      BY <1>4
    <3>6. \A k \in Member : rec'.row[k].pending # "none" => k = m
      BY <3>2
    <3>7. rec.row[m].state # "conflicted" => rec.row[m].state \in Unstarted
      BY <3>4
    <3>8. \A k \in Member :
            /\ rec.row[k].state = "uptodate" => kind[k] = "verify"
            /\ rec.row[k].state \in Integrated \cup {"conflicted"} => kind[k] # "verify"
      BY <1>0 DEF RowInv
    <3>9. Effective' \in {"executing", "halted"}
      BY <3>4
    <3> HIDE DEF Effective
    <3> QED
      BY <3>1, <3>2, <3>3, <3>5, <3>6, <3>7, <3>8, <3>9 DEF RowInv
  <2>8. ASSUME NEW m \in Member, Passes(rec', m) PROVE RowInv'
    BY <1>0, <1>4, <2>8 DEF Passes, MergeTypeOK, RowInv, PhaseInv,
       Effective, Row, Integrated, Unstarted
  <2>9. ASSUME NEW m \in Member, TurnsBack(rec', m) PROVE RowInv'
    BY <1>0, <1>4, <2>9 DEF TurnsBack, MergeTypeOK, RowInv, PhaseInv,
       Effective, Row, Integrated, Unstarted
  <2>10. CASE Proceeds(rec')
    BY <1>0, <1>4, <2>10 DEF Proceeds, MergeTypeOK, RowInv, PhaseInv,
       Effective, Row, Integrated, Unstarted
  <2>11. CASE Awaits(rec')
    BY <1>0, <1>4, <2>11 DEF Awaits, NoPending, MergeTypeOK, RowInv,
       PhaseInv, Effective, Row, Integrated, Unstarted
  <2>12. CASE Finalizes(rec')
    BY <1>0, <1>4, <2>12 DEF Finalizes, MembersSettled, MergeTypeOK, RowInv,
       PhaseInv, Effective, Row, Integrated, Unstarted
  <2>13. CASE Accepts(rec')
    BY <1>0, <1>4, <2>13 DEF Accepts, MergeTypeOK, RowInv, PhaseInv,
       Effective, Row, Integrated, Unstarted
  <2>14. CASE Enters(rec')
    BY <1>0, <1>4, <2>14 DEF Enters, NoPending, Forward, MergeTypeOK,
       RowInv, PhaseInv, Effective, Row, Integrated, Unstarted
  <2>15. CASE Publishes(rec')
    BY <1>0, <1>4, <2>15 DEF Publishes, Step, MergeTypeOK, RowInv, PhaseInv,
       Effective, Row, Integrated, Unstarted
  <2>16. CASE Completes(rec')
    BY <1>0, <1>4, <2>16 DEF Completes, MergeTypeOK, RowInv, PhaseInv,
       Effective, Row, Integrated, Unstarted
  <2>17. CASE Withdraws(rec')
    BY <1>0, <1>4, <2>17 DEF Withdraws, MergeTypeOK, RowInv, PhaseInv,
       Effective, Row, Integrated, Unstarted
  <2>18. CASE Ends(rec')
    BY <1>0, <1>4, <2>18 DEF Ends, MergeTypeOK, RowInv, PhaseInv, Effective,
       Row, Integrated, Unstarted
  <2>19. CASE GoneBack(rec')
    BY <1>0, <1>4, <2>19 DEF GoneBack, BackDone, MergeTypeOK, RowInv,
       PhaseInv, Effective, Row, Integrated, Unstarted
  <2> QED
    BY <1>4, <2>1, <2>2, <2>3, <2>4, <2>5, <2>6, <2>7, <2>8, <2>9, <2>10,
       <2>11, <2>12, <2>13, <2>14, <2>15, <2>16, <2>17, <2>18, <2>19 DEF
       RecordStep
<1> QED
  BY <1>1, <1>2, <1>3, <1>4, Steps

\* The state of the operation keeps its meaning.
LEMMA PhaseStep == MergeInv /\ [Next]_vars => PhaseInv'
<1> SUFFICES ASSUME MergeInv, [Next]_vars PROVE PhaseInv'
  OBVIOUS
<1>0. MergeTypeOK /\ RowInv /\ PhaseInv
  BY DEF MergeInv
<1>1. CASE UNCHANGED <<kind, changes, rec, repo, root>>
  BY <1>0, <1>1 DEF MergeTypeOK, RowInv, PhaseInv, Effective, HaltCause
<1>2. CASE ExecuteOwned
  BY <1>0, <1>2 DEF ExecuteOwned, MergeTypeOK, RowInv, PhaseInv, Effective,
     HaltCause
<1>3. CASE \E m \in Member : Work(m)
  BY <1>0, <1>3 DEF Work, MergeTypeOK, RowInv, PhaseInv, Effective, HaltCause
<1>4. CASE RecordStep(rec') /\ UNCHANGED <<kind, changes, repo, root>>
  <2>1. CASE Halts(rec')
    BY <1>0, <1>4, <2>1 DEF Halts, MergeTypeOK, RowInv, PhaseInv, Effective,
       HaltCause
  <2>2. CASE Suspends(rec')
    BY <1>0, <1>4, <2>2 DEF Suspends, Forward, MergeTypeOK, RowInv,
       PhaseInv, Effective, HaltCause
  <2>3. CASE Reopens(rec')
    BY <1>0, <1>4, <2>3 DEF Reopens, MergeTypeOK, RowInv, PhaseInv,
       Effective, HaltCause
  <2>4. ASSUME NEW m \in Member, Fails(rec', m) PROVE PhaseInv'
    BY <1>0, <1>4, <2>4 DEF Fails, FailureBatch, Row, MergeTypeOK, RowInv,
       PhaseInv, Effective, HaltCause
  <2>5. ASSUME NEW m \in Member, Settles(rec', m) PROVE PhaseInv'
    BY <1>0, <1>4, <2>5 DEF Settles, Outcome, Integrated, Successful,
       MergeTypeOK, RowInv, PhaseInv, Effective, HaltCause
  <2>6. ASSUME NEW m \in Member, GivesUp(rec', m) PROVE PhaseInv'
    BY <1>0, <1>4, <2>6 DEF GivesUp, MergeTypeOK, RowInv, PhaseInv,
       Effective, HaltCause
  <2>7. ASSUME NEW m \in Member, Prepares(rec', m) PROVE PhaseInv'
    BY <1>0, <1>4, <2>7 DEF Prepares, NoPending, MergeTypeOK, RowInv,
       PhaseInv, Effective, HaltCause
  <2>8. ASSUME NEW m \in Member, Passes(rec', m) PROVE PhaseInv'
    BY <1>0, <1>4, <2>8 DEF Passes, MergeTypeOK, RowInv, PhaseInv,
       Effective, HaltCause
  <2>9. ASSUME NEW m \in Member, TurnsBack(rec', m) PROVE PhaseInv'
    BY <1>0, <1>4, <2>9 DEF TurnsBack, MergeTypeOK, RowInv, PhaseInv,
       Effective, HaltCause
  <2>10. CASE Proceeds(rec')
    BY <1>0, <1>4, <2>10 DEF Proceeds, MergeTypeOK, RowInv, PhaseInv,
       Effective, HaltCause
  <2>11. CASE Awaits(rec')
    BY <1>0, <1>4, <2>11 DEF Awaits, NoPending, MergeTypeOK, RowInv,
       PhaseInv, Effective, HaltCause
  <2>12. CASE Finalizes(rec')
    BY <1>0, <1>4, <2>12 DEF Finalizes, MembersSettled, MergeTypeOK, RowInv,
       PhaseInv, Effective, HaltCause
  <2>13. CASE Accepts(rec')
    BY <1>0, <1>4, <2>13 DEF Accepts, MergeTypeOK, RowInv, PhaseInv,
       Effective, HaltCause
  <2>14. CASE Enters(rec')
    BY <1>0, <1>4, <2>14 DEF Enters, NoPending, Forward, MergeTypeOK,
       RowInv, PhaseInv, Effective, HaltCause
  <2>15. CASE Publishes(rec')
    BY <1>0, <1>4, <2>15 DEF Publishes, Step, MergeTypeOK, RowInv, PhaseInv,
       Effective, HaltCause
  <2>16. CASE Completes(rec')
    BY <1>0, <1>4, <2>16 DEF Completes, MergeTypeOK, RowInv, PhaseInv,
       Effective, HaltCause
  <2>17. CASE Withdraws(rec')
    BY <1>0, <1>4, <2>17 DEF Withdraws, MergeTypeOK, RowInv, PhaseInv,
       Effective, HaltCause
  <2>18. CASE Ends(rec')
    BY <1>0, <1>4, <2>18 DEF Ends, MergeTypeOK, RowInv, PhaseInv, Effective,
       HaltCause
  <2>19. CASE GoneBack(rec')
    BY <1>0, <1>4, <2>19 DEF GoneBack, BackDone, MergeTypeOK, RowInv,
       PhaseInv, Effective, HaltCause
  <2> QED
    BY <1>4, <2>1, <2>2, <2>3, <2>4, <2>5, <2>6, <2>7, <2>8, <2>9, <2>10,
       <2>11, <2>12, <2>13, <2>14, <2>15, <2>16, <2>17, <2>18, <2>19 DEF
       RecordStep
<1> QED
  BY <1>1, <1>2, <1>3, <1>4, Steps

\* The publication keeps its order, and is due to a member that moved.
LEMMA PublicationStep == MergeInv /\ [Next]_vars => PublicationInv'
<1> SUFFICES ASSUME MergeInv, [Next]_vars PROVE PublicationInv'
  OBVIOUS
<1>0. MergeTypeOK /\ PhaseInv /\ PublicationInv /\ RowInv
  BY DEF MergeInv
<1>1. CASE UNCHANGED <<kind, changes, rec, repo, root>>
  BY <1>0, <1>1 DEF MergeTypeOK, PhaseInv, PublicationInv, Effective, Moved,
     Forward
<1>2. CASE ExecuteOwned
  BY <1>0, <1>2 DEF ExecuteOwned, MergeTypeOK, PhaseInv, PublicationInv,
     Effective, Moved, Forward
<1>3. CASE \E m \in Member : Work(m)
  BY <1>0, <1>3 DEF Work, MergeTypeOK, PhaseInv, PublicationInv, Effective,
     Moved, Forward
<1>4. CASE RecordStep(rec') /\ UNCHANGED <<kind, changes, repo, root>>
  <2>1. CASE Halts(rec')
    BY <1>0, <1>4, <2>1 DEF Halts, MergeTypeOK, PhaseInv, PublicationInv,
       Effective, Moved, Forward
  <2>2. CASE Suspends(rec')
    BY <1>0, <1>4, <2>2 DEF Suspends, Forward, MergeTypeOK, PhaseInv,
       PublicationInv, Effective, Moved, Forward
  <2>3. CASE Reopens(rec')
    BY <1>0, <1>4, <2>3 DEF Reopens, MergeTypeOK, PhaseInv, PublicationInv,
       Effective, Moved, Forward
  <2>4. ASSUME NEW m \in Member, Fails(rec', m) PROVE PublicationInv'
    BY <1>0, <1>4, <2>4 DEF Fails, FailureBatch, MergeTypeOK, PhaseInv,
       PublicationInv, Effective, Moved, Forward
  <2>5. ASSUME NEW m \in Member, Settles(rec', m) PROVE PublicationInv'
    BY <1>0, <1>4, <2>5 DEF Settles, Outcome, MergeTypeOK, PhaseInv,
       PublicationInv, Effective, Moved, Forward
  <2>6. ASSUME NEW m \in Member, GivesUp(rec', m) PROVE PublicationInv'
    BY <1>0, <1>4, <2>6 DEF GivesUp, MergeTypeOK, PhaseInv, PublicationInv,
       Effective, Moved, Forward
  <2>7. ASSUME NEW m \in Member, Prepares(rec', m) PROVE PublicationInv'
    BY <1>0, <1>4, <2>7 DEF Prepares, NoPending, MergeTypeOK, PhaseInv,
       PublicationInv, Effective, Moved, Forward
  <2>8. ASSUME NEW m \in Member, Passes(rec', m) PROVE PublicationInv'
    BY <1>0, <1>4, <2>8 DEF Passes, MergeTypeOK, PhaseInv, PublicationInv,
       Effective, Moved, Forward
  <2>9. ASSUME NEW m \in Member, TurnsBack(rec', m) PROVE PublicationInv'
    <3>1. m \notin Stages
      BY MemberNames
    <3> QED
      BY <1>0, <1>4, <2>9, <3>1 DEF TurnsBack, MembersTurn, MergeTypeOK,
         PhaseInv, PublicationInv, Effective, Moved, Forward
  <2>10. CASE Proceeds(rec')
    BY <1>0, <1>4, <2>10 DEF Proceeds, MergeTypeOK, PhaseInv,
       PublicationInv, Effective, Moved, Forward
  <2>11. CASE Awaits(rec')
    BY <1>0, <1>4, <2>11 DEF Awaits, NoPending, MergeTypeOK, PhaseInv,
       PublicationInv, Effective, Moved, Forward
  <2>12. CASE Finalizes(rec')
    BY <1>0, <1>4, <2>12 DEF Finalizes, MembersSettled, MergeTypeOK,
       PhaseInv, PublicationInv, Effective, Moved, Forward
  <2>13. CASE Accepts(rec')
    BY <1>0, <1>4, <2>13 DEF Accepts, MergeTypeOK, PhaseInv, PublicationInv,
       Effective, Moved, Forward
  <2>14. CASE Enters(rec')
    BY <1>0, <1>4, <2>14 DEF Enters, NoPending, Forward, MergeTypeOK,
       PhaseInv, PublicationInv, Effective, Moved, Forward
  <2>15. CASE Publishes(rec')
    <3>0. rec.state = "finalizing" /\ rec.accepted
      BY <1>0, <1>4, <2>15 DEF Publishes
    <3>1. CASE rec.pub = "none" /\ rec' = Step(IF Moved THEN "preparing" ELSE "complete")
      <4>1. CASE Moved
        BY <1>0, <1>4, <2>15, <3>0, <3>1, <4>1 DEF Step, MergeTypeOK, PhaseInv,
           PublicationInv, Effective, Moved, Forward
      <4>2. CASE ~Moved
        BY <1>0, <1>4, <2>15, <3>0, <3>1, <4>2 DEF Step, MergeTypeOK, PhaseInv,
           PublicationInv, Effective, Moved, Forward
      <4> QED
        BY <4>1, <4>2
    <3>2. CASE /\ rec.pub = "preparing" /\ ~rec.cand
               /\ rec' = [rec EXCEPT !.cand = TRUE]
      BY <1>0, <1>4, <2>15, <3>0, <3>2 DEF MergeTypeOK, PhaseInv,
         PublicationInv, Effective, Moved, Forward
    <3>3. CASE rec.pub = "preparing" /\ rec.cand /\ rec' = Step("evidence")
      BY <1>0, <1>4, <2>15, <3>0, <3>3 DEF Step, MergeTypeOK, PhaseInv,
         PublicationInv, Effective, Moved, Forward
    <3>4. CASE /\ rec.pub = "evidence" /\ ~rec.comp /\ EvidenceFound
               /\ rec' = [rec EXCEPT !.comp = TRUE]
      BY <1>0, <1>4, <2>15, <3>0, <3>4, MemberNames DEF EvidenceFound,
         MergeTypeOK, PhaseInv, PublicationInv, Effective, Moved, Forward
    <3>5. CASE rec.pub = "evidence" /\ rec.comp /\ rec' = Step("publishing")
      BY <1>0, <1>4, <2>15, <3>0, <3>5 DEF Step, MergeTypeOK, PhaseInv,
         PublicationInv, Effective, Moved, Forward
    <3>6. CASE /\ rec.pub = "publishing" /\ Resolution = "complete"
               /\ rec' = Step("verifying")
      BY <1>0, <1>4, <2>15, <3>0, <3>6, ResolutionIs DEF Step, MergeTypeOK,
         PhaseInv, PublicationInv, Effective, Moved, Forward
    <3>7. CASE rec.pub = "verifying" /\ rec' = Step("complete")
      BY <1>0, <1>4, <2>15, <3>0, <3>7 DEF Step, MergeTypeOK, PhaseInv,
         PublicationInv, Effective, Moved, Forward
    <3> QED
      BY <1>0, <1>4, <2>15, <3>1, <3>2, <3>3, <3>4, <3>5, <3>6, <3>7 DEF Publishes
  <2>16. CASE Completes(rec')
    BY <1>0, <1>4, <2>16 DEF Completes, MergeTypeOK, PhaseInv,
       PublicationInv, Effective, Moved, Forward
  <2>17. CASE Withdraws(rec')
    <3>1. "commit" \notin Member
      BY MemberNames, StageNames
    <3> QED
      BY <1>0, <1>4, <2>17, <3>1 DEF Withdraws, MembersTurn, MergeTypeOK,
         PhaseInv, PublicationInv, Effective, Moved, Forward
  <2>18. CASE Ends(rec')
    BY <1>0, <1>4, <2>18 DEF Ends, MembersTurn, MergeTypeOK, PhaseInv,
       PublicationInv, Effective, Moved, Forward
  <2>19. CASE GoneBack(rec')
    <3>1. CASE rec.back \in Member
      BY <1>0, <1>4, <2>19, <3>1, MemberNames, StageNames DEF GoneBack,
         BackDone, MergeTypeOK, PhaseInv, PublicationInv, Effective, Moved,
         Forward
    <3>2. CASE rec.back = "complete"
      BY ZenonT(60), <1>0, <1>4, <2>19, <3>2, MemberNames,
         StageNames DEF GoneBack,
         BackDone, MergeTypeOK, PhaseInv, PublicationInv, Effective, Moved,
         Forward
    <3>3. CASE rec.back \notin Member \cup {"complete"}
      <4>1. rec' = [rec EXCEPT !.back = NextEvidence(rec.back)]
        BY <1>0, <1>4, <2>19, <3>3 DEF GoneBack, BackDone
      <4>2. rec.back \in Stages /\ NextEvidence(rec.back) \in Stages
        BY <1>0, <1>4, <2>19, <3>3, StageNames DEF GoneBack, MergeTypeOK, Stages
      <4>3. NextEvidence(rec.back) \notin Member
        BY <4>2, MemberNames
      <4> QED
        BY <1>0, <1>4, <2>19, <3>3, <4>1, <4>2, <4>3 DEF GoneBack, MergeTypeOK,
           PhaseInv, PublicationInv, Effective, Moved, Forward
    <3> QED
      BY <3>1, <3>2, <3>3
  <2> QED
    BY <1>4, <2>1, <2>2, <2>3, <2>4, <2>5, <2>6, <2>7, <2>8, <2>9, <2>10,
       <2>11, <2>12, <2>13, <2>14, <2>15, <2>16, <2>17, <2>18, <2>19 DEF
       RecordStep
<1> QED
  BY <1>1, <1>2, <1>3, <1>4, Steps

-----------------------------------------------------------------------------
(* What a physical step does. *)

\* A pending member is merged, stopped at its conflict, or its resolution is
\* committed.
MovesMember(m) ==
  /\ rec.state \in Forward
  /\ rec.row[m].pending \in {"ff", "merge", "conflict", "resolve"}
  /\ Reconcile(m) = "notstarted"
  /\ repo' = [repo EXCEPT ![m] =
                IF rec.row[m].pending = "conflict" THEN "conflict" ELSE "result"]
  /\ root' = root

CommitsEvidence ==
  /\ rec.state = "finalizing" /\ rec.pub = "evidence" /\ ~rec.comp
  /\ EvidenceBase
  /\ repo' = repo
  /\ root' = [root EXCEPT !.head = "evidence"]

\* A file of the candidate is written, or the index is staged, in part when
\* the step fails.
WritesRoot(what) ==
  /\ rec.state = "finalizing" /\ rec.pub = "publishing"
  /\ Resolution = what
  /\ repo' = repo
  /\ root' \in IF what = "index"
                 THEN {[root EXCEPT !.integrity = TRUE, !.index = TRUE],
                       [root EXCEPT !.integrity = TRUE]}
                 ELSE {[root EXCEPT ![what] = TRUE]}

TakesBack(m) ==
  /\ rec.state = "rolling" /\ rec.back = m
  /\ BackForm(m, rec.row[m]) = "before"
  /\ repo' = [repo EXCEPT ![m] = "before"]
  /\ root' = root

ClearsRoot(step) ==
  /\ rec.state = "rolling" /\ rec.back = step
  /\ EvidenceForm(step) = "before"
  /\ repo' = repo
  /\ root' \in CASE step = "commit" -> {[root EXCEPT !.head = "base"]}
                 [] step = "marker" ->
                      {[root EXCEPT !.marker = FALSE, !.integrity = FALSE],
                       [root EXCEPT !.integrity = FALSE]}
                 [] step \in {"boundary", "lock", "index"} ->
                      {[root EXCEPT ![step] = FALSE]}

\* A physical step does what its record has the intent of, or nothing.
LEMMA Effects ==
  MergeInv /\ ExecuteOwned =>
    /\ UNCHANGED <<kind, changes, rec, dirty>>
    /\ \/ UNCHANGED <<repo, root>>
       \/ \E m \in Member : MovesMember(m) \/ TakesBack(m)
       \/ CommitsEvidence
       \/ \E what \in {"marker", "lock", "boundary", "index"} : WritesRoot(what)
       \/ \E step \in Stages \ {"complete"} : ClearsRoot(step)
<1> SUFFICES ASSUME MergeInv, ExecuteOwned, ~UNCHANGED <<repo, root>>
             PROVE  \/ \E m \in Member : MovesMember(m) \/ TakesBack(m)
                    \/ CommitsEvidence
                    \/ \E what \in {"marker", "lock", "boundary", "index"} : WritesRoot(what)
                    \/ \E step \in Stages \ {"complete"} : ClearsRoot(step)
  BY DEF ExecuteOwned
<1> DEFINE a == inv.act
<1>0. Owned(a)
  BY DEF ExecuteOwned, MergeInv, ActInv
<1>1. PICK after \in {Effect(a)} \cup Partial(a) :
        Authorized(a) /\ repo' = after[1] /\ root' = after[2]
  <2>1. PICK failed \in BOOLEAN :
          \E after \in (IF Authorized(inv.act) THEN {Effect(inv.act)} ELSE {})
                       \cup (IF failed THEN {<<repo, root>>} ELSE {})
                       \cup (IF failed /\ Authorized(inv.act) THEN Partial(inv.act)
                             ELSE {}) :
            repo' = after[1] /\ root' = after[2]
    BY DEF ExecuteOwned
  <2>2. PICK after \in (IF Authorized(inv.act) THEN {Effect(inv.act)} ELSE {})
                       \cup (IF failed THEN {<<repo, root>>} ELSE {})
                       \cup (IF failed /\ Authorized(inv.act) THEN Partial(inv.act)
                             ELSE {}) :
            repo' = after[1] /\ root' = after[2]
    BY <2>1
  <2>3. after # <<repo, root>>
    BY <2>2
  <2> QED
    BY <2>2, <2>3
<1>2. CASE \E m \in Member : /\ a = ForwardAct(m) /\ rec.state \in Forward
                             /\ a.what \in {"ff", "merge", "conflict", "resolve"}
  <2>1. PICK m \in Member : /\ a = ForwardAct(m) /\ rec.state \in Forward
                            /\ a.what \in {"ff", "merge", "conflict", "resolve"}
    BY <1>2
  <2>2. a.on = "member" /\ a.who = m /\ a.what = rec.row[m].pending
    BY <2>1 DEF ForwardAct
  <2> HIDE DEF a
  <2>3. Partial(a) = {}
    BY <2>2 DEF Partial
  <2>4. Effect(a) = <<[repo EXCEPT ![m] =
                         IF a.what = "conflict" THEN "conflict" ELSE "result"], root>>
    BY <2>2 DEF Effect
  <2>5. Reconcile(m) = "notstarted"
    BY <1>1, <2>2 DEF Authorized
  <2> QED
    BY <1>1, <2>1, <2>2, <2>3, <2>4, <2>5 DEF MovesMember
<1>3. CASE /\ a = PublishAct("evidence")
           /\ rec.state = "finalizing" /\ rec.pub = "evidence" /\ ~rec.comp
  <2>2. a.on = "publish" /\ a.what = "evidence"
    BY <1>3 DEF PublishAct
  <2> HIDE DEF a
  <2>3. Partial(a) = {}
    BY <2>2 DEF Partial
  <2>4. Effect(a) = <<repo, [root EXCEPT !.head = "evidence"]>>
    BY <2>2 DEF Effect
  <2>5. EvidenceBase
    BY <1>1, <2>2 DEF Authorized
  <2> QED
    BY <1>1, <1>3, <2>3, <2>4, <2>5 DEF CommitsEvidence
<1>4. CASE /\ \E what \in {"marker", "lock", "boundary", "index"} : a = PublishAct(what)
           /\ rec.state = "finalizing" /\ rec.pub = "publishing"
  <2>1. PICK what \in {"marker", "lock", "boundary", "index"} : a = PublishAct(what)
    BY <1>4
  <2>2. a.on = "publish" /\ a.what = what
    BY <2>1 DEF PublishAct
  <2> HIDE DEF a
  <2>3. Resolution = what
    BY <1>1, <2>2 DEF Authorized
  <2>4. CASE what = "index"
    <3>1. Partial(a) = {<<repo, [root EXCEPT !.integrity = TRUE]>>}
      BY <2>2, <2>4 DEF Partial
    <3>2. Effect(a) = <<repo, [root EXCEPT !.integrity = TRUE, !.index = TRUE]>>
      BY <2>2, <2>4 DEF Effect
    <3> QED
      BY <1>1, <1>4, <2>3, <2>4, <3>1, <3>2 DEF WritesRoot
  <2>5. CASE what # "index"
    <3>1. Partial(a) = {}
      BY <2>2, <2>5 DEF Partial
    <3>2. Effect(a) = <<repo, [root EXCEPT ![what] = TRUE]>>
      BY <2>1, <2>2, <2>5 DEF Effect
    <3> QED
      BY <1>1, <1>4, <2>3, <2>5, <3>1, <3>2 DEF WritesRoot
  <2> QED
    BY <2>4, <2>5
<1>5. CASE /\ a = BackAct
           /\ rec.state = "rolling" /\ rec.back \notin {"none", "complete"}
  <2>0. Authorized(a) => PendingForm = "before"
    BY <1>5 DEF BackAct, Authorized
  <2>1. CASE rec.back \in Member
    <3>1. PICK m \in Member : m = rec.back
      BY <2>1
    <3>2. a.on = "back" /\ a.who = m /\ a.what \in {"conflict", "reset"}
      BY <1>5, <3>1 DEF BackAct
    <3> HIDE DEF a
    <3>3. Partial(a) = {}
      BY <3>2 DEF Partial
    <3>4. Effect(a) = <<[repo EXCEPT ![m] = "before"], root>>
      BY <3>2 DEF Effect
    <3>5. BackForm(m, rec.row[m]) = "before"
      BY <1>1, <2>0, <3>1 DEF PendingForm
    <3> QED
      BY <1>1, <1>5, <3>1, <3>3, <3>4, <3>5 DEF TakesBack
  <2>2. CASE rec.back \notin Member
    <3>1. PICK step \in Stages \ {"complete"} : step = rec.back
      BY <1>5, <2>2, StageNames DEF MergeInv, MergeTypeOK, Stages
    <3>2. a.on = "back" /\ a.who \notin Member /\ a.what = step
      BY <1>5, <2>2, <3>1, NamesAssumption DEF BackAct
    <3>3. EvidenceForm(step) = "before"
      BY <1>1, <2>0, <2>2, <3>1 DEF PendingForm
    <3> HIDE DEF a
    <3>4. step \in {"commit", "boundary", "lock", "marker", "index"}
      BY StageNames
    <3>5. CASE step = "marker"
      <4>1. Partial(a) = {<<repo, [root EXCEPT !.integrity = FALSE]>>}
        BY <3>2, <3>5 DEF Partial
      <4>2. Effect(a) = <<repo, [root EXCEPT !.marker = FALSE, !.integrity = FALSE]>>
        BY <3>2, <3>5 DEF Effect
      <4> QED
        BY <1>1, <1>5, <3>1, <3>3, <3>5, <4>1, <4>2 DEF ClearsRoot
    <3>6. CASE step = "commit"
      <4>1. Partial(a) = {}
        BY <3>2, <3>6 DEF Partial
      <4>2. Effect(a) = <<repo, [root EXCEPT !.head = "base"]>>
        BY <3>2, <3>6 DEF Effect
      <4> QED
        BY <1>1, <1>5, <3>1, <3>3, <3>6, <4>1, <4>2 DEF ClearsRoot
    <3>7. CASE step \in {"boundary", "lock", "index"}
      <4>1. Partial(a) = {}
        BY <3>2, <3>7 DEF Partial
      <4>2. Effect(a) = <<repo, [root EXCEPT ![step] = FALSE]>>
        BY <3>2, <3>7 DEF Effect
      <4> QED
        BY <1>1, <1>5, <3>1, <3>3, <3>7, <4>1, <4>2 DEF ClearsRoot
    <3> QED
      BY <3>4, <3>5, <3>6, <3>7
  <2> QED
    BY <2>1, <2>2
<1> QED
  BY <1>0, <1>2, <1>3, <1>4, <1>5 DEF Owned

\* What is in place when a step of the publication is due.
LEMMA ResolutionGives ==
  ASSUME MergeTypeOK
  PROVE  /\ Resolution = "marker" =>
              /\ ~root.marker /\ ~root.lock /\ ~root.boundary
              /\ ~root.integrity /\ ~root.index
         /\ Resolution = "lock" =>
              /\ root.marker /\ ~root.lock /\ ~root.boundary
              /\ ~root.integrity /\ ~root.index /\ "lock" \in changes
         /\ Resolution = "boundary" =>
              /\ root.marker /\ ~root.boundary /\ ~root.integrity /\ ~root.index
              /\ "lock" \in changes => root.lock
              /\ "boundary" \in changes
         /\ Resolution = "index" =>
              /\ root.marker /\ ~root.index
              /\ "lock" \in changes => root.lock
              /\ "boundary" \in changes => root.boundary
<1>1. /\ root.marker \in BOOLEAN /\ root.lock \in BOOLEAN /\ root.index \in BOOLEAN
      /\ root.boundary \in BOOLEAN /\ root.integrity \in BOOLEAN
      /\ changes \subseteq {"lock", "boundary"}
  BY KindChoicesAssumption DEF MergeTypeOK
<1>2. /\ Prefix \in {"baseline", "marker", "boundary", "lock", "other"}
      /\ Prefix = "baseline" => ~root.marker /\ ~root.lock /\ ~root.boundary
      /\ Prefix = "marker" => root.marker /\ ~root.lock /\ ~root.boundary
      /\ Prefix = "boundary" =>
           /\ root.marker
           /\ "lock" \in changes => root.lock
           /\ "boundary" \in changes => root.boundary
      /\ Prefix = "lock" =>
           root.marker /\ root.lock /\ ~root.boundary /\ "boundary" \in changes
  BY <1>1 DEF Prefix
<1> DEFINE staging == Prefix = "boundary" \/ (Prefix = "marker" /\ changes = {})
<1>3. \A p \in {"baseline", "marker", "boundary", "lock"} :
        Snapshot = <<p, "pre">> =>
          Prefix = p /\ ~root.index /\ (root.integrity => staging)
  <2>1. \/ Snapshot = <<"other", "other">>
        \/ Snapshot = <<Prefix, "staged">>
        \/ Snapshot = <<Prefix, "pre">> /\ ~root.index /\ (root.integrity => staging)
    BY <1>1 DEF Snapshot
  <2> QED
    BY <2>1
<1>4. /\ Resolution = "marker" => Snapshot = <<"baseline", "pre">>
      /\ Resolution = "lock" => Snapshot = <<"marker", "pre">> /\ "lock" \in changes
      /\ Resolution = "boundary" =>
           \/ /\ Snapshot = <<"marker", "pre">>
              /\ "lock" \notin changes /\ "boundary" \in changes
           \/ Snapshot = <<"lock", "pre">>
      /\ Resolution = "index" =>
           \/ Snapshot = <<"marker", "pre">> /\ "lock" \notin changes /\ "boundary" \notin changes
           \/ Snapshot = <<"boundary", "pre">>
  BY DEF Resolution
<1>5. \A p \in {"baseline", "lock"} : Prefix = p => ~staging
  OBVIOUS
<1>6. Prefix = "marker" /\ changes # {} => ~staging
  OBVIOUS
<1> HIDE DEF staging
<1>7. CASE Resolution = "marker"
  BY <1>1, <1>2, <1>3, <1>4, <1>5, <1>7
<1>8. CASE Resolution = "lock"
  BY <1>1, <1>2, <1>3, <1>4, <1>6, <1>8
<1>9. CASE Resolution = "boundary"
  BY <1>1, <1>2, <1>3, <1>4, <1>5, <1>6, <1>9
<1>10. CASE Resolution = "index"
  BY <1>1, <1>2, <1>3, <1>4, <1>10
<1> QED
  BY <1>7, <1>8, <1>9, <1>10

\* The root's branch carries the evidence exactly as the record has it.
LEMMA HeadStep == MergeInv /\ [Next]_vars => HeadInv'
<1> SUFFICES ASSUME MergeInv, [Next]_vars PROVE HeadInv'
  OBVIOUS
<1>0. MergeTypeOK /\ PhaseInv /\ PublicationInv /\ HeadInv /\ ActInv
  BY DEF MergeInv
<1>1. CASE UNCHANGED <<kind, changes, rec, repo, root>>
  BY <1>0, <1>1 DEF MergeTypeOK, PhaseInv, PublicationInv, HeadInv, Effective,
     Forward
<1>2. CASE ExecuteOwned
  <2>0. UNCHANGED <<kind, changes, rec>>
    BY <1>2, Effects
  <2>1. CASE root' = root
    BY <1>0, <2>0, <2>1 DEF MergeTypeOK, PhaseInv, PublicationInv, HeadInv,
       Effective, Forward
  <2>2. CASE CommitsEvidence
    <3>1. /\ root.head = "base" /\ Snapshot = <<"baseline", "pre">>
          /\ root' = [root EXCEPT !.head = "evidence"]
      BY <2>2 DEF CommitsEvidence, EvidenceBase, AcceptedInputs, RootBaseline
    <3> QED
      BY <1>0, <2>0, <2>2, <3>1, StageNames, MemberNames DEF CommitsEvidence,
         MergeTypeOK, PhaseInv, PublicationInv, HeadInv, Effective, Forward
  <2>3. ASSUME NEW what \in {"marker", "lock", "boundary", "index"}, WritesRoot(what)
        PROVE  HeadInv'
    <3>1. CASE what = "marker"
      BY <1>0, <2>0, <2>3, <3>1, ResolutionGives, StageNames DEF WritesRoot,
         MergeTypeOK, PhaseInv, PublicationInv, HeadInv, Effective, Forward
    <3>2. CASE what = "lock"
      BY <1>0, <2>0, <2>3, <3>2, ResolutionGives, StageNames DEF WritesRoot,
         MergeTypeOK, PhaseInv, PublicationInv, HeadInv, Effective, Forward
    <3>3. CASE what = "boundary"
      BY <1>0, <2>0, <2>3, <3>3, ResolutionGives, StageNames DEF WritesRoot,
         MergeTypeOK, PhaseInv, PublicationInv, HeadInv, Effective, Forward
    <3>4. CASE what = "index"
      BY <1>0, <2>0, <2>3, <3>4, ResolutionGives, StageNames DEF WritesRoot,
         MergeTypeOK, PhaseInv, PublicationInv, HeadInv, Effective, Forward
    <3> QED
      BY <3>1, <3>2, <3>3, <3>4
  <2>4. ASSUME NEW step \in Stages \ {"complete"}, ClearsRoot(step)
        PROVE  HeadInv'
    <3>1. CASE step = "commit"
      BY <1>0, <2>0, <2>4, <3>1, StageNames DEF ClearsRoot, MergeTypeOK,
         PhaseInv, PublicationInv, HeadInv, Effective, Forward
    <3>2. CASE step = "marker"
      <4>1. root'.head = root.head
        BY ZenonT(60), <1>0, <2>4, <3>2 DEF ClearsRoot, MergeTypeOK
      <4> QED
        BY <1>0, <2>0, <2>4, <3>2, <4>1 DEF ClearsRoot, MergeTypeOK, PhaseInv,
           PublicationInv, HeadInv, Effective, Forward
    <3>3. CASE step \in {"boundary", "lock", "index"}
      <4>1. root'.head = root.head
        BY <1>0, <2>4, <3>3 DEF ClearsRoot, MergeTypeOK
      <4> QED
        BY <1>0, <2>0, <2>4, <3>3, <4>1 DEF ClearsRoot, MergeTypeOK, PhaseInv,
           PublicationInv, HeadInv, Effective, Forward
    <3> QED
      BY <3>1, <3>2, <3>3, StageNames
  <2> QED
    BY <1>2, <2>1, <2>2, <2>3, <2>4, Effects DEF MovesMember, TakesBack
<1>3. CASE \E m \in Member : Work(m)
  BY <1>0, <1>3 DEF Work, MergeTypeOK, PhaseInv, PublicationInv, HeadInv,
     Effective, Forward
<1>4. CASE RecordStep(rec') /\ UNCHANGED <<kind, changes, repo, root>>
  <2>1. CASE Halts(rec')
    BY <1>0, <1>4, <2>1 DEF Halts, MergeTypeOK, PhaseInv, PublicationInv,
       HeadInv, Effective, Forward
  <2>2. CASE Suspends(rec')
    BY <1>0, <1>4, <2>2 DEF Suspends, MergeTypeOK, PhaseInv, PublicationInv,
       HeadInv, Effective, Forward
  <2>3. CASE Reopens(rec')
    BY <1>0, <1>4, <2>3 DEF Reopens, MergeTypeOK, PhaseInv, PublicationInv,
       HeadInv, Effective, Forward
  <2>4. ASSUME NEW m \in Member, Fails(rec', m) PROVE HeadInv'
    BY <1>0, <1>4, <2>4 DEF Fails, FailureBatch, MergeTypeOK, PhaseInv,
       PublicationInv, HeadInv, Effective, Forward
  <2>5. ASSUME NEW m \in Member, Settles(rec', m) PROVE HeadInv'
    BY <1>0, <1>4, <2>5 DEF Settles, Outcome, MergeTypeOK, PhaseInv,
       PublicationInv, HeadInv, Effective, Forward
  <2>6. ASSUME NEW m \in Member, GivesUp(rec', m) PROVE HeadInv'
    BY <1>0, <1>4, <2>6 DEF GivesUp, MergeTypeOK, PhaseInv, PublicationInv,
       HeadInv, Effective, Forward
  <2>7. ASSUME NEW m \in Member, Prepares(rec', m) PROVE HeadInv'
    BY <1>0, <1>4, <2>7 DEF Prepares, MergeTypeOK, PhaseInv, PublicationInv,
       HeadInv, Effective, Forward
  <2>8. ASSUME NEW m \in Member, Passes(rec', m) PROVE HeadInv'
    BY <1>0, <1>4, <2>8 DEF Passes, MergeTypeOK, PhaseInv, PublicationInv,
       HeadInv, Effective, Forward
  <2>9. ASSUME NEW m \in Member, TurnsBack(rec', m) PROVE HeadInv'
    <3>1. m \notin Stages
      BY MemberNames, StageNames
    <3> QED
      BY <1>0, <1>4, <2>9, <3>1, StageNames DEF TurnsBack, MembersTurn,
         MergeTypeOK, PhaseInv, PublicationInv, HeadInv, Effective, Forward
  <2>10. CASE Proceeds(rec')
    BY <1>0, <1>4, <2>10 DEF Proceeds, MergeTypeOK, PhaseInv,
       PublicationInv, HeadInv, Effective, Forward
  <2>11. CASE Awaits(rec')
    BY <1>0, <1>4, <2>11 DEF Awaits, MergeTypeOK, PhaseInv, PublicationInv,
       HeadInv, Effective, Forward
  <2>12. CASE Finalizes(rec')
    BY <1>0, <1>4, <2>12 DEF Finalizes, MergeTypeOK, PhaseInv,
       PublicationInv, HeadInv, Effective, Forward
  <2>13. CASE Accepts(rec')
    BY <1>0, <1>4, <2>13 DEF Accepts, MergeTypeOK, PhaseInv, PublicationInv,
       HeadInv, Effective, Forward
  <2>14. CASE Enters(rec')
    BY <1>0, <1>4, <2>14 DEF Enters, MergeTypeOK, PhaseInv, PublicationInv,
       HeadInv, Effective, Forward
  <2>15. CASE Publishes(rec')
    <3>0. rec.state = "finalizing" /\ rec.accepted
      BY <1>0, <1>4, <2>15 DEF Publishes
    <3>1. CASE rec.pub = "none" /\ rec' = Step(IF Moved THEN "preparing" ELSE "complete")
      <4>1. CASE Moved
        BY <1>0, <1>4, <2>15, <3>0, <3>1, <4>1 DEF Step, MergeTypeOK, PhaseInv,
           PublicationInv, HeadInv, Effective, Forward
      <4>2. CASE ~Moved
        BY <1>0, <1>4, <2>15, <3>0, <3>1, <4>2 DEF Step, MergeTypeOK, PhaseInv,
           PublicationInv, HeadInv, Effective, Forward
      <4> QED
        BY <4>1, <4>2
    <3>2. CASE /\ rec.pub = "preparing" /\ ~rec.cand
               /\ rec' = [rec EXCEPT !.cand = TRUE]
      BY <1>0, <1>4, <2>15, <3>0, <3>2 DEF MergeTypeOK, PhaseInv,
         PublicationInv, HeadInv, Effective, Forward
    <3>3. CASE rec.pub = "preparing" /\ rec.cand /\ rec' = Step("evidence")
      BY <1>0, <1>4, <2>15, <3>0, <3>3 DEF Step, MergeTypeOK, PhaseInv,
         PublicationInv, HeadInv, Effective, Forward
    <3>4. CASE /\ rec.pub = "evidence" /\ ~rec.comp /\ EvidenceFound
               /\ rec' = [rec EXCEPT !.comp = TRUE]
      BY <1>0, <1>4, <2>15, <3>0, <3>4, MemberNames DEF EvidenceFound,
         MergeTypeOK, PhaseInv, PublicationInv, HeadInv, Effective, Forward
    <3>5. CASE rec.pub = "evidence" /\ rec.comp /\ rec' = Step("publishing")
      BY <1>0, <1>4, <2>15, <3>0, <3>5 DEF Step, MergeTypeOK, PhaseInv,
         PublicationInv, HeadInv, Effective, Forward
    <3>6. CASE /\ rec.pub = "publishing" /\ Resolution = "complete"
               /\ rec' = Step("verifying")
      BY <1>0, <1>4, <2>15, <3>0, <3>6, ResolutionIs DEF Step, MergeTypeOK,
         PhaseInv, PublicationInv, HeadInv, Effective, Forward
    <3>7. CASE rec.pub = "verifying" /\ rec' = Step("complete")
      BY <1>0, <1>4, <2>15, <3>0, <3>7 DEF Step, MergeTypeOK, PhaseInv,
         PublicationInv, HeadInv, Effective, Forward
    <3> QED
      BY <1>0, <1>4, <2>15, <3>1, <3>2, <3>3, <3>4, <3>5, <3>6, <3>7 DEF Publishes
  <2>16. CASE Completes(rec')
    BY <1>0, <1>4, <2>16 DEF Completes, MergeTypeOK, PhaseInv,
       PublicationInv, HeadInv, Effective, Forward
  <2>17. CASE Withdraws(rec')
    <3>1. "commit" \notin Member
      BY MemberNames, StageNames
    <3> QED
      BY <1>0, <1>4, <2>17, <3>1, StageNames DEF Withdraws, MembersTurn,
         MergeTypeOK, PhaseInv, PublicationInv, HeadInv, Effective, Forward
  <2>18. CASE Ends(rec')
    BY <1>0, <1>4, <2>18 DEF Ends, MembersTurn, MergeTypeOK, PhaseInv,
       PublicationInv, HeadInv, Effective, Forward
  <2>19. CASE GoneBack(rec')
    <3>1. CASE rec.back \in Member
      BY <1>0, <1>4, <2>19, <3>1, MemberNames, StageNames DEF GoneBack,
         BackDone, MergeTypeOK, PhaseInv, PublicationInv, HeadInv, Effective,
         Forward
    <3>2. CASE rec.back = "complete"
      <4>1. rec' = [rec EXCEPT !.back = "none", !.undone = TRUE]
        BY <1>0, <1>4, <2>19, <3>2, MemberNames, StageNames DEF GoneBack, BackDone
      <4>2. EvidenceForm("complete") = "after"
        BY <1>0, <1>4, <2>19, <3>2, MemberNames, StageNames DEF GoneBack,
           PendingForm
      <4>3. /\ root.head = "base"
            /\ ~root.boundary /\ ~root.lock /\ ~root.marker /\ ~root.index
            /\ ~root.integrity
        BY <1>0, <4>2 DEF EvidenceForm, MergeTypeOK
      <4> QED
        BY <1>0, <1>4, <2>19, <3>2, <4>1, <4>3, StageNames DEF GoneBack,
           MergeTypeOK, PhaseInv, PublicationInv, HeadInv, Effective, Forward
    <3>3. CASE rec.back \notin Member \cup {"complete"}
      <4>1. rec' = [rec EXCEPT !.back = NextEvidence(rec.back)]
        BY <1>0, <1>4, <2>19, <3>3 DEF GoneBack, BackDone
      <4>2. rec.back \in Stages \ {"complete"}
        BY <1>0, <1>4, <2>19, <3>3, StageNames DEF GoneBack, MergeTypeOK, Stages
      <4>3. EvidenceForm(rec.back) = "after"
        BY <1>0, <1>4, <2>19, <3>3 DEF GoneBack, PendingForm
      <4>4. CASE rec.back = "commit"
        BY <1>0, <1>4, <2>19, <4>1, <4>3, <4>4, StageNames DEF GoneBack,
           EvidenceForm, MergeTypeOK, PhaseInv, PublicationInv, HeadInv,
           Effective, Forward
      <4>5. CASE rec.back = "boundary"
        BY <1>0, <1>4, <2>19, <4>1, <4>3, <4>5, StageNames DEF GoneBack,
           EvidenceForm, MergeTypeOK, PhaseInv, PublicationInv, HeadInv,
           Effective, Forward
      <4>6. CASE rec.back = "lock"
        BY <1>0, <1>4, <2>19, <4>1, <4>3, <4>6, StageNames DEF GoneBack,
           EvidenceForm, MergeTypeOK, PhaseInv, PublicationInv, HeadInv,
           Effective, Forward
      <4>7. CASE rec.back = "marker"
        BY <1>0, <1>4, <2>19, <4>1, <4>3, <4>7, StageNames DEF GoneBack,
           EvidenceForm, MergeTypeOK, PhaseInv, PublicationInv, HeadInv,
           Effective, Forward
      <4>8. CASE rec.back = "index"
        BY <1>0, <1>4, <2>19, <4>1, <4>3, <4>8, StageNames DEF GoneBack,
           EvidenceForm, MergeTypeOK, PhaseInv, PublicationInv, HeadInv,
           Effective, Forward
      <4> QED
        BY <4>2, <4>4, <4>5, <4>6, <4>7, <4>8, StageNames
    <3> QED
      BY <3>1, <3>2, <3>3
  <2> QED
    BY <1>4, <2>1, <2>2, <2>3, <2>4, <2>5, <2>6, <2>7, <2>8, <2>9, <2>10,
       <2>11, <2>12, <2>13, <2>14, <2>15, <2>16, <2>17, <2>18, <2>19 DEF
       RecordStep
<1> QED
  BY <1>1, <1>2, <1>3, <1>4, Steps

\* The root's files go in and come out in order.
LEMMA FilesStep == MergeInv /\ [Next]_vars => FilesInv'
<1> SUFFICES ASSUME MergeInv, [Next]_vars PROVE FilesInv'
  OBVIOUS
<1>0. MergeTypeOK /\ PhaseInv /\ PublicationInv /\ FilesInv /\ ActInv
  BY DEF MergeInv
<1>1. CASE UNCHANGED <<kind, changes, rec, repo, root>>
  BY <1>0, <1>1 DEF MergeTypeOK, PhaseInv, PublicationInv, FilesInv, Effective,
     Forward
<1>2. CASE ExecuteOwned
  <2>0. UNCHANGED <<kind, changes, rec>>
    BY <1>2, Effects
  <2>1. CASE root' = root
    BY <1>0, <2>0, <2>1 DEF MergeTypeOK, PhaseInv, PublicationInv, FilesInv,
       Effective, Forward
  <2>2. CASE CommitsEvidence
    <3>1. /\ root.head = "base" /\ Snapshot = <<"baseline", "pre">>
          /\ root' = [root EXCEPT !.head = "evidence"]
      BY <2>2 DEF CommitsEvidence, EvidenceBase, AcceptedInputs, RootBaseline
    <3> QED
      BY <1>0, <2>0, <2>2, <3>1, StageNames, MemberNames DEF CommitsEvidence,
         MergeTypeOK, PhaseInv, PublicationInv, FilesInv, Effective, Forward
  <2>3. ASSUME NEW what \in {"marker", "lock", "boundary", "index"}, WritesRoot(what)
        PROVE  FilesInv'
    <3>1. CASE what = "marker"
      BY <1>0, <2>0, <2>3, <3>1, ResolutionGives, StageNames DEF WritesRoot,
         MergeTypeOK, PhaseInv, PublicationInv, FilesInv, Effective, Forward
    <3>2. CASE what = "lock"
      BY <1>0, <2>0, <2>3, <3>2, ResolutionGives, StageNames DEF WritesRoot,
         MergeTypeOK, PhaseInv, PublicationInv, FilesInv, Effective, Forward
    <3>3. CASE what = "boundary"
      BY <1>0, <2>0, <2>3, <3>3, ResolutionGives, StageNames DEF WritesRoot,
         MergeTypeOK, PhaseInv, PublicationInv, FilesInv, Effective, Forward
    <3>4. CASE what = "index"
      BY ZenonT(60), <1>0, <2>0, <2>3, <3>4, ResolutionGives,
         StageNames DEF WritesRoot,
         MergeTypeOK, PhaseInv, PublicationInv, FilesInv, Effective, Forward
    <3> QED
      BY <3>1, <3>2, <3>3, <3>4
  <2>4. ASSUME NEW step \in Stages \ {"complete"}, ClearsRoot(step)
        PROVE  FilesInv'
    <3>1. CASE step = "commit"
      BY <1>0, <2>0, <2>4, <3>1, StageNames DEF ClearsRoot, MergeTypeOK,
         PhaseInv, PublicationInv, FilesInv, Effective, Forward
    <3>2. CASE step = "boundary"
      BY <1>0, <2>0, <2>4, <3>2, StageNames DEF ClearsRoot, EvidenceForm,
         MergeTypeOK, PhaseInv, PublicationInv, FilesInv, Effective, Forward
    <3>3. CASE step = "lock"
      BY <1>0, <2>0, <2>4, <3>3, StageNames DEF ClearsRoot, EvidenceForm,
         MergeTypeOK, PhaseInv, PublicationInv, FilesInv, Effective, Forward
    <3>4. CASE step = "marker"
      BY ZenonT(60), <1>0, <2>0, <2>4, <3>4, StageNames DEF ClearsRoot,
         EvidenceForm,
         MergeTypeOK, PhaseInv, PublicationInv, FilesInv, Effective, Forward
    <3>5. CASE step = "index"
      BY <1>0, <2>0, <2>4, <3>5, StageNames DEF ClearsRoot, EvidenceForm,
         MergeTypeOK, PhaseInv, PublicationInv, FilesInv, Effective, Forward
    <3> QED
      BY <3>1, <3>2, <3>3, <3>4, <3>5, StageNames
  <2> QED
    BY <1>2, <2>1, <2>2, <2>3, <2>4, Effects DEF MovesMember, TakesBack
<1>3. CASE \E m \in Member : Work(m)
  BY <1>0, <1>3 DEF Work, MergeTypeOK, PhaseInv, PublicationInv, FilesInv,
     Effective, Forward
<1>4. CASE RecordStep(rec') /\ UNCHANGED <<kind, changes, repo, root>>
  <2>1. CASE Halts(rec')
    BY <1>0, <1>4, <2>1 DEF Halts, MergeTypeOK, PhaseInv, PublicationInv,
       FilesInv, Effective, Forward
  <2>2. CASE Suspends(rec')
    BY <1>0, <1>4, <2>2 DEF Suspends, MergeTypeOK, PhaseInv, PublicationInv,
       FilesInv, Effective, Forward
  <2>3. CASE Reopens(rec')
    BY <1>0, <1>4, <2>3 DEF Reopens, MergeTypeOK, PhaseInv, PublicationInv,
       FilesInv, Effective, Forward
  <2>4. ASSUME NEW m \in Member, Fails(rec', m) PROVE FilesInv'
    BY <1>0, <1>4, <2>4 DEF Fails, FailureBatch, MergeTypeOK, PhaseInv,
       PublicationInv, FilesInv, Effective, Forward
  <2>5. ASSUME NEW m \in Member, Settles(rec', m) PROVE FilesInv'
    BY <1>0, <1>4, <2>5 DEF Settles, Outcome, MergeTypeOK, PhaseInv,
       PublicationInv, FilesInv, Effective, Forward
  <2>6. ASSUME NEW m \in Member, GivesUp(rec', m) PROVE FilesInv'
    BY <1>0, <1>4, <2>6 DEF GivesUp, MergeTypeOK, PhaseInv, PublicationInv,
       FilesInv, Effective, Forward
  <2>7. ASSUME NEW m \in Member, Prepares(rec', m) PROVE FilesInv'
    BY <1>0, <1>4, <2>7 DEF Prepares, MergeTypeOK, PhaseInv, PublicationInv,
       FilesInv, Effective, Forward
  <2>8. ASSUME NEW m \in Member, Passes(rec', m) PROVE FilesInv'
    BY <1>0, <1>4, <2>8 DEF Passes, MergeTypeOK, PhaseInv, PublicationInv,
       FilesInv, Effective, Forward
  <2>9. ASSUME NEW m \in Member, TurnsBack(rec', m) PROVE FilesInv'
    <3>1. m \notin Stages
      BY MemberNames, StageNames
    <3> QED
      BY <1>0, <1>4, <2>9, <3>1, StageNames DEF TurnsBack, MembersTurn,
         MergeTypeOK, PhaseInv, PublicationInv, FilesInv, Effective, Forward
  <2>10. CASE Proceeds(rec')
    BY <1>0, <1>4, <2>10 DEF Proceeds, MergeTypeOK, PhaseInv,
       PublicationInv, FilesInv, Effective, Forward
  <2>11. CASE Awaits(rec')
    BY <1>0, <1>4, <2>11 DEF Awaits, MergeTypeOK, PhaseInv, PublicationInv,
       FilesInv, Effective, Forward
  <2>12. CASE Finalizes(rec')
    BY <1>0, <1>4, <2>12 DEF Finalizes, MergeTypeOK, PhaseInv,
       PublicationInv, FilesInv, Effective, Forward
  <2>13. CASE Accepts(rec')
    BY <1>0, <1>4, <2>13 DEF Accepts, MergeTypeOK, PhaseInv, PublicationInv,
       FilesInv, Effective, Forward
  <2>14. CASE Enters(rec')
    BY <1>0, <1>4, <2>14 DEF Enters, MergeTypeOK, PhaseInv, PublicationInv,
       FilesInv, Effective, Forward
  <2>15. CASE Publishes(rec')
    <3>0. rec.state = "finalizing" /\ rec.accepted
      BY <1>0, <1>4, <2>15 DEF Publishes
    <3>1. CASE rec.pub = "none" /\ rec' = Step(IF Moved THEN "preparing" ELSE "complete")
      <4>1. CASE Moved
        BY <1>0, <1>4, <2>15, <3>0, <3>1, <4>1 DEF Step, MergeTypeOK, PhaseInv,
           PublicationInv, FilesInv, Effective, Forward
      <4>2. CASE ~Moved
        BY <1>0, <1>4, <2>15, <3>0, <3>1, <4>2 DEF Step, MergeTypeOK, PhaseInv,
           PublicationInv, FilesInv, Effective, Forward
      <4> QED
        BY <4>1, <4>2
    <3>2. CASE /\ rec.pub = "preparing" /\ ~rec.cand
               /\ rec' = [rec EXCEPT !.cand = TRUE]
      BY <1>0, <1>4, <2>15, <3>0, <3>2 DEF MergeTypeOK, PhaseInv,
         PublicationInv, FilesInv, Effective, Forward
    <3>3. CASE rec.pub = "preparing" /\ rec.cand /\ rec' = Step("evidence")
      BY <1>0, <1>4, <2>15, <3>0, <3>3 DEF Step, MergeTypeOK, PhaseInv,
         PublicationInv, FilesInv, Effective, Forward
    <3>4. CASE /\ rec.pub = "evidence" /\ ~rec.comp /\ EvidenceFound
               /\ rec' = [rec EXCEPT !.comp = TRUE]
      BY <1>0, <1>4, <2>15, <3>0, <3>4, MemberNames DEF EvidenceFound,
         MergeTypeOK, PhaseInv, PublicationInv, FilesInv, Effective, Forward
    <3>5. CASE rec.pub = "evidence" /\ rec.comp /\ rec' = Step("publishing")
      BY <1>0, <1>4, <2>15, <3>0, <3>5 DEF Step, MergeTypeOK, PhaseInv,
         PublicationInv, FilesInv, Effective, Forward
    <3>6. CASE /\ rec.pub = "publishing" /\ Resolution = "complete"
               /\ rec' = Step("verifying")
      BY <1>0, <1>4, <2>15, <3>0, <3>6, ResolutionIs DEF Step, MergeTypeOK,
         PhaseInv, PublicationInv, FilesInv, Effective, Forward
    <3>7. CASE rec.pub = "verifying" /\ rec' = Step("complete")
      BY <1>0, <1>4, <2>15, <3>0, <3>7 DEF Step, MergeTypeOK, PhaseInv,
         PublicationInv, FilesInv, Effective, Forward
    <3> QED
      BY <1>0, <1>4, <2>15, <3>1, <3>2, <3>3, <3>4, <3>5, <3>6, <3>7 DEF Publishes
  <2>16. CASE Completes(rec')
    BY <1>0, <1>4, <2>16 DEF Completes, MergeTypeOK, PhaseInv,
       PublicationInv, FilesInv, Effective, Forward
  <2>17. CASE Withdraws(rec')
    <3>1. "commit" \notin Member
      BY MemberNames, StageNames
    <3> QED
      BY <1>0, <1>4, <2>17, <3>1, StageNames DEF Withdraws, MembersTurn,
         MergeTypeOK, PhaseInv, PublicationInv, FilesInv, Effective, Forward
  <2>18. CASE Ends(rec')
    BY <1>0, <1>4, <2>18 DEF Ends, MembersTurn, MergeTypeOK, PhaseInv,
       PublicationInv, FilesInv, Effective, Forward
  <2>19. CASE GoneBack(rec')
    <3>1. CASE rec.back \in Member
      BY <1>0, <1>4, <2>19, <3>1, MemberNames, StageNames DEF GoneBack,
         BackDone, MergeTypeOK, PhaseInv, PublicationInv, FilesInv, Effective,
         Forward
    <3>2. CASE rec.back = "complete"
      <4>1. rec' = [rec EXCEPT !.back = "none", !.undone = TRUE]
        BY <1>0, <1>4, <2>19, <3>2, MemberNames, StageNames DEF GoneBack, BackDone
      <4>2. EvidenceForm("complete") = "after"
        BY <1>0, <1>4, <2>19, <3>2, MemberNames, StageNames DEF GoneBack,
           PendingForm
      <4>3. /\ root.head = "base"
            /\ ~root.boundary /\ ~root.lock /\ ~root.marker /\ ~root.index
            /\ ~root.integrity
        BY <1>0, <4>2 DEF EvidenceForm, MergeTypeOK
      <4> QED
        BY <1>0, <1>4, <2>19, <3>2, <4>1, <4>3, StageNames DEF GoneBack,
           MergeTypeOK, PhaseInv, PublicationInv, FilesInv, Effective, Forward
    <3>3. CASE rec.back \notin Member \cup {"complete"}
      <4>1. rec' = [rec EXCEPT !.back = NextEvidence(rec.back)]
        BY <1>0, <1>4, <2>19, <3>3 DEF GoneBack, BackDone
      <4>2. rec.back \in Stages \ {"complete"}
        BY <1>0, <1>4, <2>19, <3>3, StageNames DEF GoneBack, MergeTypeOK, Stages
      <4>3. EvidenceForm(rec.back) = "after"
        BY <1>0, <1>4, <2>19, <3>3 DEF GoneBack, PendingForm
      <4>4. CASE rec.back = "commit"
        BY <1>0, <1>4, <2>19, <4>1, <4>3, <4>4, StageNames DEF GoneBack,
           EvidenceForm, MergeTypeOK, PhaseInv, PublicationInv, FilesInv,
           Effective, Forward
      <4>5. CASE rec.back = "boundary"
        BY <1>0, <1>4, <2>19, <4>1, <4>3, <4>5, StageNames DEF GoneBack,
           EvidenceForm, MergeTypeOK, PhaseInv, PublicationInv, FilesInv,
           Effective, Forward
      <4>6. CASE rec.back = "lock"
        BY <1>0, <1>4, <2>19, <4>1, <4>3, <4>6, StageNames DEF GoneBack,
           EvidenceForm, MergeTypeOK, PhaseInv, PublicationInv, FilesInv,
           Effective, Forward
      <4>7. CASE rec.back = "marker"
        BY <1>0, <1>4, <2>19, <4>1, <4>3, <4>7, StageNames DEF GoneBack,
           EvidenceForm, MergeTypeOK, PhaseInv, PublicationInv, FilesInv,
           Effective, Forward
      <4>8. CASE rec.back = "index"
        BY <1>0, <1>4, <2>19, <4>1, <4>3, <4>8, StageNames DEF GoneBack,
           EvidenceForm, MergeTypeOK, PhaseInv, PublicationInv, FilesInv,
           Effective, Forward
      <4> QED
        BY <4>2, <4>4, <4>5, <4>6, <4>7, <4>8, StageNames
    <3> QED
      BY <3>1, <3>2, <3>3
  <2> QED
    BY <1>4, <2>1, <2>2, <2>3, <2>4, <2>5, <2>6, <2>7, <2>8, <2>9, <2>10,
       <2>11, <2>12, <2>13, <2>14, <2>15, <2>16, <2>17, <2>18, <2>19 DEF
       RecordStep
<1> QED
  BY <1>1, <1>2, <1>3, <1>4, Steps

\* The publication's order is kept on the way forward.
LEMMA ForwardFilesStep == MergeInv /\ [Next]_vars => ForwardFilesInv'
<1> SUFFICES ASSUME MergeInv, [Next]_vars PROVE ForwardFilesInv'
  OBVIOUS
<1>0. MergeTypeOK /\ PhaseInv /\ PublicationInv /\ FilesInv /\ ForwardFilesInv /\ ActInv
  BY DEF MergeInv
<1>1. CASE UNCHANGED <<kind, changes, rec, repo, root>>
  BY <1>0, <1>1 DEF MergeTypeOK, PhaseInv, PublicationInv, FilesInv,
     ForwardFilesInv, OnTheWay, Effective, Forward
<1>2. CASE ExecuteOwned
  <2>0. UNCHANGED <<kind, changes, rec>>
    BY <1>2, Effects
  <2>1. CASE root' = root
    BY <1>0, <2>0, <2>1 DEF MergeTypeOK, PhaseInv, PublicationInv, FilesInv,
       ForwardFilesInv, OnTheWay, Effective, Forward
  <2>2. CASE CommitsEvidence
    <3>1. /\ root.head = "base" /\ Snapshot = <<"baseline", "pre">>
          /\ root' = [root EXCEPT !.head = "evidence"]
      BY <2>2 DEF CommitsEvidence, EvidenceBase, AcceptedInputs, RootBaseline
    <3> QED
      BY <1>0, <2>0, <2>2, <3>1, StageNames, MemberNames DEF CommitsEvidence,
         MergeTypeOK, PhaseInv, PublicationInv, FilesInv, ForwardFilesInv,
         OnTheWay, Effective, Forward
  <2>3. ASSUME NEW what \in {"marker", "lock", "boundary", "index"}, WritesRoot(what)
        PROVE  ForwardFilesInv'
    <3>1. CASE what = "marker"
      BY <1>0, <2>0, <2>3, <3>1, ResolutionGives, StageNames DEF WritesRoot,
         MergeTypeOK, PhaseInv, PublicationInv, FilesInv, ForwardFilesInv,
         OnTheWay, Effective, Forward
    <3>2. CASE what = "lock"
      BY <1>0, <2>0, <2>3, <3>2, ResolutionGives, StageNames DEF WritesRoot,
         MergeTypeOK, PhaseInv, PublicationInv, FilesInv, ForwardFilesInv,
         OnTheWay, Effective, Forward
    <3>3. CASE what = "boundary"
      BY <1>0, <2>0, <2>3, <3>3, ResolutionGives, StageNames DEF WritesRoot,
         MergeTypeOK, PhaseInv, PublicationInv, FilesInv, ForwardFilesInv,
         OnTheWay, Effective, Forward
    <3>4. CASE what = "index"
      BY ZenonT(60), <1>0, <2>0, <2>3, <3>4, ResolutionGives,
         StageNames DEF WritesRoot,
         MergeTypeOK, PhaseInv, PublicationInv, FilesInv, ForwardFilesInv,
         OnTheWay, Effective, Forward
    <3> QED
      BY <3>1, <3>2, <3>3, <3>4
  <2>4. ASSUME NEW step \in Stages \ {"complete"}, ClearsRoot(step)
        PROVE  ForwardFilesInv'
    <3>1. CASE step = "commit"
      BY <1>0, <2>0, <2>4, <3>1, StageNames DEF ClearsRoot, MergeTypeOK,
         PhaseInv, PublicationInv, FilesInv, ForwardFilesInv, OnTheWay,
         Effective, Forward
    <3>2. CASE step = "boundary"
      BY <1>0, <2>0, <2>4, <3>2, StageNames DEF ClearsRoot, EvidenceForm,
         MergeTypeOK, PhaseInv, PublicationInv, FilesInv, ForwardFilesInv,
         OnTheWay, Effective, Forward
    <3>3. CASE step = "lock"
      BY <1>0, <2>0, <2>4, <3>3, StageNames DEF ClearsRoot, EvidenceForm,
         MergeTypeOK, PhaseInv, PublicationInv, FilesInv, ForwardFilesInv,
         OnTheWay, Effective, Forward
    <3>4. CASE step = "marker"
      BY <1>0, <2>0, <2>4, <3>4, StageNames DEF ClearsRoot, EvidenceForm,
         MergeTypeOK, PhaseInv, PublicationInv, FilesInv, ForwardFilesInv,
         OnTheWay, Effective, Forward
    <3>5. CASE step = "index"
      BY <1>0, <2>0, <2>4, <3>5, StageNames DEF ClearsRoot, EvidenceForm,
         MergeTypeOK, PhaseInv, PublicationInv, FilesInv, ForwardFilesInv,
         OnTheWay, Effective, Forward
    <3> QED
      BY <3>1, <3>2, <3>3, <3>4, <3>5, StageNames
  <2> QED
    BY <1>2, <2>1, <2>2, <2>3, <2>4, Effects DEF MovesMember, TakesBack
<1>3. CASE \E m \in Member : Work(m)
  BY <1>0, <1>3 DEF Work, MergeTypeOK, PhaseInv, PublicationInv, FilesInv,
     ForwardFilesInv, OnTheWay, Effective, Forward
<1>4. CASE RecordStep(rec') /\ UNCHANGED <<kind, changes, repo, root>>
  <2>1. CASE Halts(rec')
    BY <1>0, <1>4, <2>1 DEF Halts, MergeTypeOK, PhaseInv, PublicationInv,
       FilesInv, ForwardFilesInv, OnTheWay, Effective, Forward
  <2>2. CASE Suspends(rec')
    BY <1>0, <1>4, <2>2 DEF Suspends, MergeTypeOK, PhaseInv, PublicationInv,
       FilesInv, ForwardFilesInv, OnTheWay, Effective, Forward
  <2>3. CASE Reopens(rec')
    BY <1>0, <1>4, <2>3 DEF Reopens, MergeTypeOK, PhaseInv, PublicationInv,
       FilesInv, ForwardFilesInv, OnTheWay, Effective, Forward
  <2>4. ASSUME NEW m \in Member, Fails(rec', m) PROVE ForwardFilesInv'
    BY <1>0, <1>4, <2>4 DEF Fails, FailureBatch, MergeTypeOK, PhaseInv,
       PublicationInv, FilesInv, ForwardFilesInv, OnTheWay, Effective,
       Forward
  <2>5. ASSUME NEW m \in Member, Settles(rec', m) PROVE ForwardFilesInv'
    BY <1>0, <1>4, <2>5 DEF Settles, Outcome, MergeTypeOK, PhaseInv,
       PublicationInv, FilesInv, ForwardFilesInv, OnTheWay, Effective,
       Forward
  <2>6. ASSUME NEW m \in Member, GivesUp(rec', m) PROVE ForwardFilesInv'
    BY <1>0, <1>4, <2>6 DEF GivesUp, MergeTypeOK, PhaseInv, PublicationInv,
       FilesInv, ForwardFilesInv, OnTheWay, Effective, Forward
  <2>7. ASSUME NEW m \in Member, Prepares(rec', m) PROVE ForwardFilesInv'
    BY <1>0, <1>4, <2>7 DEF Prepares, MergeTypeOK, PhaseInv, PublicationInv,
       FilesInv, ForwardFilesInv, OnTheWay, Effective, Forward
  <2>8. ASSUME NEW m \in Member, Passes(rec', m) PROVE ForwardFilesInv'
    BY <1>0, <1>4, <2>8 DEF Passes, MergeTypeOK, PhaseInv, PublicationInv,
       FilesInv, ForwardFilesInv, OnTheWay, Effective, Forward
  <2>9. ASSUME NEW m \in Member, TurnsBack(rec', m) PROVE ForwardFilesInv'
    BY <1>0, <1>4, <2>9 DEF TurnsBack, MergeTypeOK, PhaseInv, PublicationInv,
       FilesInv, ForwardFilesInv, OnTheWay, Effective, Forward
  <2>10. CASE Proceeds(rec')
    BY <1>0, <1>4, <2>10 DEF Proceeds, MergeTypeOK, PhaseInv,
       PublicationInv, FilesInv, ForwardFilesInv, OnTheWay, Effective,
       Forward
  <2>11. CASE Awaits(rec')
    BY <1>0, <1>4, <2>11 DEF Awaits, MergeTypeOK, PhaseInv, PublicationInv,
       FilesInv, ForwardFilesInv, OnTheWay, Effective, Forward
  <2>12. CASE Finalizes(rec')
    BY <1>0, <1>4, <2>12 DEF Finalizes, MergeTypeOK, PhaseInv,
       PublicationInv, FilesInv, ForwardFilesInv, OnTheWay, Effective,
       Forward
  <2>13. CASE Accepts(rec')
    BY <1>0, <1>4, <2>13 DEF Accepts, MergeTypeOK, PhaseInv, PublicationInv,
       FilesInv, ForwardFilesInv, OnTheWay, Effective, Forward
  <2>14. CASE Enters(rec')
    BY <1>0, <1>4, <2>14 DEF Enters, MergeTypeOK, PhaseInv, PublicationInv,
       FilesInv, ForwardFilesInv, OnTheWay, Effective, Forward
  <2>15. CASE Publishes(rec')
    <3>0. rec.state = "finalizing" /\ rec.accepted
      BY <1>0, <1>4, <2>15 DEF Publishes
    <3>1. CASE rec.pub = "none" /\ rec' = Step(IF Moved THEN "preparing" ELSE "complete")
      <4>1. CASE Moved
        BY <1>0, <1>4, <2>15, <3>0, <3>1, <4>1 DEF Step, MergeTypeOK, PhaseInv,
           PublicationInv, FilesInv, ForwardFilesInv, OnTheWay, Effective,
           Forward
      <4>2. CASE ~Moved
        BY <1>0, <1>4, <2>15, <3>0, <3>1, <4>2 DEF Step, MergeTypeOK, PhaseInv,
           PublicationInv, FilesInv, ForwardFilesInv, OnTheWay, Effective,
           Forward
      <4> QED
        BY <4>1, <4>2
    <3>2. CASE /\ rec.pub = "preparing" /\ ~rec.cand
               /\ rec' = [rec EXCEPT !.cand = TRUE]
      BY <1>0, <1>4, <2>15, <3>0, <3>2 DEF MergeTypeOK, PhaseInv,
         PublicationInv, FilesInv, ForwardFilesInv, OnTheWay, Effective, Forward
    <3>3. CASE rec.pub = "preparing" /\ rec.cand /\ rec' = Step("evidence")
      BY <1>0, <1>4, <2>15, <3>0, <3>3 DEF Step, MergeTypeOK, PhaseInv,
         PublicationInv, FilesInv, ForwardFilesInv, OnTheWay, Effective, Forward
    <3>4. CASE /\ rec.pub = "evidence" /\ ~rec.comp /\ EvidenceFound
               /\ rec' = [rec EXCEPT !.comp = TRUE]
      BY <1>0, <1>4, <2>15, <3>0, <3>4, MemberNames DEF EvidenceFound,
         MergeTypeOK, PhaseInv, PublicationInv, FilesInv, ForwardFilesInv,
         OnTheWay, Effective, Forward
    <3>5. CASE rec.pub = "evidence" /\ rec.comp /\ rec' = Step("publishing")
      BY <1>0, <1>4, <2>15, <3>0, <3>5 DEF Step, MergeTypeOK, PhaseInv,
         PublicationInv, FilesInv, ForwardFilesInv, OnTheWay, Effective, Forward
    <3>6. CASE /\ rec.pub = "publishing" /\ Resolution = "complete"
               /\ rec' = Step("verifying")
      BY <1>0, <1>4, <2>15, <3>0, <3>6, ResolutionIs DEF Step, MergeTypeOK,
         PhaseInv, PublicationInv, FilesInv, ForwardFilesInv, OnTheWay,
         Effective, Forward
    <3>7. CASE rec.pub = "verifying" /\ rec' = Step("complete")
      BY <1>0, <1>4, <2>15, <3>0, <3>7 DEF Step, MergeTypeOK, PhaseInv,
         PublicationInv, FilesInv, ForwardFilesInv, OnTheWay, Effective, Forward
    <3> QED
      BY <1>0, <1>4, <2>15, <3>1, <3>2, <3>3, <3>4, <3>5, <3>6, <3>7 DEF Publishes
  <2>16. CASE Completes(rec')
    BY <1>0, <1>4, <2>16 DEF Completes, MergeTypeOK, PhaseInv,
       PublicationInv, FilesInv, ForwardFilesInv, OnTheWay, Effective,
       Forward
  <2>17. CASE Withdraws(rec')
    BY <1>0, <1>4, <2>17 DEF Withdraws, MergeTypeOK, PhaseInv, PublicationInv,
       FilesInv, ForwardFilesInv, OnTheWay, Effective, Forward
  <2>18. CASE Ends(rec')
    BY <1>0, <1>4, <2>18 DEF Ends, MembersTurn, MergeTypeOK, PhaseInv,
       PublicationInv, FilesInv, ForwardFilesInv, OnTheWay, Effective,
       Forward
  <2>19. CASE GoneBack(rec')
    BY <1>0, <1>4, <2>19, StageNames DEF GoneBack, BackDone, MergeTypeOK,
       PhaseInv, PublicationInv, FilesInv, ForwardFilesInv, OnTheWay, Effective,
       Forward
  <2> QED
    BY <1>4, <2>1, <2>2, <2>3, <2>4, <2>5, <2>6, <2>7, <2>8, <2>9, <2>10,
       <2>11, <2>12, <2>13, <2>14, <2>15, <2>16, <2>17, <2>18, <2>19 DEF
       RecordStep
<1> QED
  BY <1>1, <1>2, <1>3, <1>4, Steps

\* A member is where its row or its journalled action puts it.
LEMMA PlaceStep == MergeInv /\ [Next]_vars => PlaceInv'
<1> SUFFICES ASSUME MergeInv, [Next]_vars PROVE PlaceInv'
  OBVIOUS
<1>0. MergeTypeOK /\ RowInv /\ PhaseInv /\ PlaceInv
  BY DEF MergeInv
<1>1. CASE UNCHANGED <<kind, changes, rec, repo, root>>
  BY <1>0, <1>1 DEF MergeTypeOK, PlaceInv, Places
<1>2. CASE ExecuteOwned
  <2>0. UNCHANGED <<kind, changes, rec>>
    BY <1>2, Effects
  <2>1. CASE repo' = repo
    BY <1>0, <2>0, <2>1 DEF MergeTypeOK, PlaceInv, Places
  <2>2. ASSUME NEW m \in Member, MovesMember(m) PROVE PlaceInv'
    BY <1>0, <2>0, <2>2 DEF MovesMember, InMerge, MergeTypeOK, PlaceInv, Places
  <2>3. ASSUME NEW m \in Member, TakesBack(m) PROVE PlaceInv'
    BY <1>0, <2>0, <2>3 DEF TakesBack, MergeTypeOK, PlaceInv, Places
  <2> QED
    BY <1>2, <2>1, <2>2, <2>3, Effects DEF CommitsEvidence, WritesRoot, ClearsRoot
<1>3. CASE \E m \in Member : Work(m)
  <2>1. PICK m \in Member : Work(m)
    BY <1>3
  <2>2. /\ repo[m] \in InMerge
        /\ \E place \in InMerge : repo' = [repo EXCEPT ![m] = place]
    BY <2>1 DEF Work, InMerge
  <2>3. InMerge \subseteq Places(m)
    BY <1>0, <2>2 DEF PlaceInv, Places, InMerge
  <2>4. UNCHANGED rec
    BY <2>1 DEF Work
  <2> QED
    BY <1>0, <2>2, <2>3, <2>4 DEF MergeTypeOK, PlaceInv, Places
<1>4. CASE RecordStep(rec') /\ UNCHANGED <<kind, changes, repo, root>>
  <2>1. CASE Halts(rec')
    <3>1. \A k \in Member : rec'.row[k] = rec.row[k]
      BY <1>0, <1>4, <2>1 DEF Halts, MergeTypeOK
    <3>2. rec'.back = rec.back
      BY <1>0, <1>4, <2>1 DEF Halts, MergeTypeOK
    <3> QED
      BY <1>0, <1>4, <3>1, <3>2 DEF MergeTypeOK, PlaceInv, Places
  <2>2. CASE Suspends(rec')
    <3>1. \A k \in Member : rec'.row[k] = rec.row[k]
      BY <1>0, <1>4, <2>2 DEF Suspends, MergeTypeOK
    <3>2. rec'.back = rec.back
      BY <1>0, <1>4, <2>2 DEF Suspends, MergeTypeOK
    <3> QED
      BY <1>0, <1>4, <3>1, <3>2 DEF MergeTypeOK, PlaceInv, Places
  <2>3. CASE Reopens(rec')
    <3>1. \A k \in Member : rec'.row[k] = rec.row[k]
      BY <1>0, <1>4, <2>3 DEF Reopens, MergeTypeOK
    <3>2. rec'.back = rec.back
      BY <1>0, <1>4, <2>3 DEF Reopens, MergeTypeOK
    <3> QED
      BY <1>0, <1>4, <3>1, <3>2 DEF MergeTypeOK, PlaceInv, Places
  <2>4. ASSUME NEW m \in Member, Fails(rec', m) PROVE PlaceInv'
    <3>1. \A k \in Member : /\ rec'.row[k].pending = rec.row[k].pending
                           /\ \/ rec'.row[k].state = rec.row[k].state
                              \/ /\ rec'.row[k].state \in Unstarted
                                 /\ rec.row[k].state \in Unstarted
      BY <1>0, <1>4, <2>4 DEF Fails, FailureBatch, MergeTypeOK, Row, Unstarted
    <3>2. rec'.back = rec.back
      BY <1>0, <1>4, <2>4 DEF Fails, FailureBatch, MergeTypeOK
    <3>3. ASSUME NEW k \in Member PROVE repo[k] \in Places(k)'
      BY <1>0, <3>1, <3>2, <3>3 DEF MergeTypeOK, PlaceInv, Places, Unstarted,
         Integrated
    <3> QED
      BY <1>4, <3>3 DEF PlaceInv, Places
  <2>5. ASSUME NEW m \in Member, Settles(rec', m) PROVE PlaceInv'
    <3>1. \A k \in Member \ {m} : /\ rec'.row[k].state = rec.row[k].state
                                 /\ rec'.row[k].pending = rec.row[k].pending
      BY <1>0, <1>4, <2>5 DEF Settles, Outcome, MergeTypeOK, Row
    <3>2. rec'.back = rec.back
      BY <1>0, <1>4, <2>5 DEF Settles, Outcome, MergeTypeOK
    <3>3. repo[m] \in Places(m)'
      BY <1>0, <1>4, <2>5, MemberNames DEF Settles, Outcome, MergeTypeOK,
         PlaceInv, Places, RowInv, Row, Unstarted, Integrated, Successful,
         Terminal, PhaseInv, Effective
    <3>4. ASSUME NEW k \in Member, k # m PROVE repo[k] \in Places(k)'
      BY <1>0, <3>1, <3>2, <3>4 DEF MergeTypeOK, PlaceInv, Places
    <3>5. \A k \in Member : repo[k] \in Places(k)'
      BY <3>3, <3>4
    <3> QED
      BY <1>4, <3>5 DEF PlaceInv, Places
  <2>6. ASSUME NEW m \in Member, GivesUp(rec', m) PROVE PlaceInv'
    <3>1. \A k \in Member \ {m} : /\ rec'.row[k].state = rec.row[k].state
                                 /\ rec'.row[k].pending = rec.row[k].pending
      BY <1>0, <1>4, <2>6 DEF GivesUp, MergeTypeOK, Row
    <3>2. rec'.back = rec.back
      BY <1>0, <1>4, <2>6 DEF GivesUp, MergeTypeOK
    <3>3. repo[m] \in Places(m)'
      BY <1>0, <1>4, <2>6, MemberNames DEF GivesUp, MergeTypeOK, PlaceInv,
         Places, RowInv, Row, Unstarted, Integrated, Successful, Terminal,
         PhaseInv, Effective
    <3>4. ASSUME NEW k \in Member, k # m PROVE repo[k] \in Places(k)'
      BY <1>0, <3>1, <3>2, <3>4 DEF MergeTypeOK, PlaceInv, Places
    <3>5. \A k \in Member : repo[k] \in Places(k)'
      BY <3>3, <3>4
    <3> QED
      BY <1>4, <3>5 DEF PlaceInv, Places
  <2>7. ASSUME NEW m \in Member, Prepares(rec', m) PROVE PlaceInv'
    <3>1. \A k \in Member \ {m} : /\ rec'.row[k].state = rec.row[k].state
                                 /\ rec'.row[k].pending = rec.row[k].pending
      BY <1>0, <1>4, <2>7 DEF Prepares, NoPending, MergeTypeOK, Row
    <3>2. rec'.back = rec.back
      BY <1>0, <1>4, <2>7 DEF Prepares, NoPending, MergeTypeOK
    <3>3. repo[m] \in Places(m)'
      BY <1>0, <1>4, <2>7, MemberNames DEF Prepares, NoPending, MergeTypeOK,
         PlaceInv, Places, RowInv, Row, Unstarted, Integrated, Successful,
         Terminal, PhaseInv, Effective
    <3>4. ASSUME NEW k \in Member, k # m PROVE repo[k] \in Places(k)'
      BY <1>0, <3>1, <3>2, <3>4 DEF MergeTypeOK, PlaceInv, Places
    <3>5. \A k \in Member : repo[k] \in Places(k)'
      BY <3>3, <3>4
    <3> QED
      BY <1>4, <3>5 DEF PlaceInv, Places
  <2>8. ASSUME NEW m \in Member, Passes(rec', m) PROVE PlaceInv'
    <3>1. \A k \in Member \ {m} : /\ rec'.row[k].state = rec.row[k].state
                                 /\ rec'.row[k].pending = rec.row[k].pending
      BY <1>0, <1>4, <2>8 DEF Passes, MergeTypeOK, Row
    <3>2. rec'.back = rec.back
      BY <1>0, <1>4, <2>8 DEF Passes, MergeTypeOK
    <3>3. repo[m] \in Places(m)'
      BY <1>0, <1>4, <2>8, MemberNames DEF Passes, MergeTypeOK, PlaceInv,
         Places, RowInv, Row, Unstarted, Integrated, Successful, Terminal,
         PhaseInv, Effective
    <3>4. ASSUME NEW k \in Member, k # m PROVE repo[k] \in Places(k)'
      BY <1>0, <3>1, <3>2, <3>4 DEF MergeTypeOK, PlaceInv, Places
    <3>5. \A k \in Member : repo[k] \in Places(k)'
      BY <3>3, <3>4
    <3> QED
      BY <1>4, <3>5 DEF PlaceInv, Places
  <2>9. ASSUME NEW m \in Member, TurnsBack(rec', m) PROVE PlaceInv'
    <3>1. \A k \in Member : rec'.row[k] = rec.row[k]
      BY <1>0, <1>4, <2>9 DEF TurnsBack, MergeTypeOK
    <3>2. rec.back = "none"
      BY <1>0, <1>4, <2>9 DEF TurnsBack
    <3>3. ASSUME NEW k \in Member PROVE repo[k] \in Places(k)'
      BY <1>0, <3>1, <3>2, <3>3, MemberNames DEF MergeTypeOK, PlaceInv, Places
    <3> QED
      BY <1>4, <3>3 DEF PlaceInv, Places
  <2>10. CASE Proceeds(rec')
    <3>1. \A k \in Member : rec'.row[k] = rec.row[k]
      BY <1>0, <1>4, <2>10 DEF Proceeds, MergeTypeOK
    <3>2. rec'.back = rec.back
      BY <1>0, <1>4, <2>10 DEF Proceeds, MergeTypeOK
    <3> QED
      BY <1>0, <1>4, <3>1, <3>2 DEF MergeTypeOK, PlaceInv, Places
  <2>11. CASE Awaits(rec')
    <3>1. \A k \in Member : rec'.row[k] = rec.row[k]
      BY <1>0, <1>4, <2>11 DEF Awaits, MergeTypeOK
    <3>2. rec'.back = rec.back
      BY <1>0, <1>4, <2>11 DEF Awaits, MergeTypeOK
    <3> QED
      BY <1>0, <1>4, <3>1, <3>2 DEF MergeTypeOK, PlaceInv, Places
  <2>12. CASE Finalizes(rec')
    <3>1. \A k \in Member : rec'.row[k] = rec.row[k]
      BY <1>0, <1>4, <2>12 DEF Finalizes, MergeTypeOK
    <3>2. rec'.back = rec.back
      BY <1>0, <1>4, <2>12 DEF Finalizes, MergeTypeOK
    <3> QED
      BY <1>0, <1>4, <3>1, <3>2 DEF MergeTypeOK, PlaceInv, Places
  <2>13. CASE Accepts(rec')
    <3>1. \A k \in Member : rec'.row[k] = rec.row[k]
      BY <1>0, <1>4, <2>13 DEF Accepts, MergeTypeOK
    <3>2. rec'.back = rec.back
      BY <1>0, <1>4, <2>13 DEF Accepts, MergeTypeOK
    <3> QED
      BY <1>0, <1>4, <3>1, <3>2 DEF MergeTypeOK, PlaceInv, Places
  <2>14. CASE Enters(rec')
    <3>1. \A k \in Member : rec'.row[k] = rec.row[k]
      BY <1>0, <1>4, <2>14 DEF Enters, MergeTypeOK
    <3>2. rec'.back = rec.back
      BY <1>0, <1>4, <2>14 DEF Enters, MergeTypeOK
    <3> QED
      BY <1>0, <1>4, <3>1, <3>2 DEF MergeTypeOK, PlaceInv, Places
  <2>15. CASE Publishes(rec')
    <3>1. \A k \in Member : rec'.row[k] = rec.row[k]
      BY <1>0, <1>4, <2>15 DEF Publishes, Step, MergeTypeOK
    <3>2. rec'.back = rec.back
      BY <1>0, <1>4, <2>15 DEF Publishes, Step, MergeTypeOK
    <3> QED
      BY <1>0, <1>4, <3>1, <3>2 DEF MergeTypeOK, PlaceInv, Places
  <2>16. CASE Completes(rec')
    <3>1. \A k \in Member : rec'.row[k] = rec.row[k]
      BY <1>0, <1>4, <2>16 DEF Completes, MergeTypeOK
    <3>2. rec'.back = rec.back
      BY <1>0, <1>4, <2>16 DEF Completes, MergeTypeOK
    <3> QED
      BY <1>0, <1>4, <3>1, <3>2 DEF MergeTypeOK, PlaceInv, Places
  <2>17. CASE Withdraws(rec')
    <3>1. \A k \in Member : rec'.row[k] = rec.row[k]
      BY <1>0, <1>4, <2>17 DEF Withdraws, MergeTypeOK
    <3>2. rec.back = "none"
      BY <1>0, <1>4, <2>17 DEF Withdraws
    <3>3. ASSUME NEW k \in Member PROVE repo[k] \in Places(k)'
      BY <1>0, <3>1, <3>2, <3>3, MemberNames DEF MergeTypeOK, PlaceInv, Places
    <3> QED
      BY <1>4, <3>3 DEF PlaceInv, Places
  <2>18. CASE Ends(rec')
    <3>1. \A k \in Member : rec'.row[k] = rec.row[k]
      BY <1>0, <1>4, <2>18 DEF Ends, MergeTypeOK
    <3>2. rec'.back = rec.back
      BY <1>0, <1>4, <2>18 DEF Ends, MergeTypeOK
    <3> QED
      BY <1>0, <1>4, <3>1, <3>2 DEF MergeTypeOK, PlaceInv, Places
  <2>19. CASE GoneBack(rec')
    <3>1. CASE rec.back \in Member
      <4>1. PICK m \in Member : m = rec.back
        BY <3>1
      <4>2. repo[m] = "before"
        BY <1>0, <1>4, <2>19, <4>1 DEF GoneBack, PendingForm, BackForm, At
      <4>3. rec'.back = "none" /\ rec'.row[m].state \in Terminal
        <5>1. rec' = [rec EXCEPT !.back = "none",
                       !.row[m] = [rec.row[m] EXCEPT
                          !.pending = "none",
                          !.state = IF rec.row[m].state = "conflicted"
                                      THEN "aborted" ELSE "rolledback"]]
          BY <1>0, <1>4, <2>19, <4>1, BackDoneMember DEF GoneBack
        <5>2. rec'.back = "none"
          BY <1>0, <5>1 DEF MergeTypeOK
        <5>3. rec'.row[m].state \in {"aborted", "rolledback"}
          BY <1>0, <5>1 DEF MergeTypeOK, Row
        <5> QED
          BY <5>2, <5>3 DEF Terminal
      <4>4. \A k \in Member \ {m} : rec'.row[k] = rec.row[k]
        BY <1>0, <1>4, <2>19, <4>1 DEF GoneBack, BackDone, MergeTypeOK
      <4>5. ASSUME NEW k \in Member PROVE repo[k] \in Places(k)'
        <5>1. CASE k = m
          BY <4>2, <4>3, <5>1 DEF Places, Terminal, Integrated
        <5>2. CASE k # m
          BY <1>0, <4>1, <4>4, <5>2 DEF MergeTypeOK, PlaceInv, Places
        <5> QED
          BY <5>1, <5>2
      <4> QED
        BY <1>4, <4>5 DEF PlaceInv, Places
    <3>2. CASE rec.back \notin Member
      <4>1. \A k \in Member : rec'.row[k] = rec.row[k]
        BY <1>0, <1>4, <2>19, <3>2 DEF GoneBack, BackDone, MergeTypeOK
      <4>2. ASSUME NEW k \in Member PROVE repo[k] \in Places(k)'
        BY <1>0, <3>2, <4>1, <4>2 DEF MergeTypeOK, PlaceInv, Places
      <4> QED
        BY <1>4, <4>2 DEF PlaceInv, Places
    <3> QED
      BY <3>1, <3>2
  <2> QED
    BY <1>4, <2>1, <2>2, <2>3, <2>4, <2>5, <2>6, <2>7, <2>8, <2>9, <2>10,
       <2>11, <2>12, <2>13, <2>14, <2>15, <2>16, <2>17, <2>18, <2>19 DEF
       RecordStep
<1> QED
  BY <1>1, <1>2, <1>3, <1>4, Steps

-----------------------------------------------------------------------------
(* The types and the action under way. *)

\* Every step of the record yields a record.
LEMMA RecordType ==
  ASSUME MergeInv, NEW r, RecordStep(r)
  PROVE  r \in [state : {"executing", "awaiting", "halted", "finalizing",
                         "rolling", "completed", "aborted", "recovery"},
                origin : {"none", "executing", "awaiting", "halted",
                          "finalizing", "rolling"},
                row : [Member -> Row],
                accepted : BOOLEAN,
                pub : {"none", "preparing", "evidence", "publishing",
                       "verifying", "complete"},
                cand : BOOLEAN, comp : BOOLEAN, undone : BOOLEAN,
                back : {"none"} \cup Member \cup Stages]
<1> DEFINE Records ==
      [state : {"executing", "awaiting", "halted", "finalizing",
                "rolling", "completed", "aborted", "recovery"},
       origin : {"none", "executing", "awaiting", "halted",
                 "finalizing", "rolling"},
       row : [Member -> Row],
       accepted : BOOLEAN,
       pub : {"none", "preparing", "evidence", "publishing",
              "verifying", "complete"},
       cand : BOOLEAN, comp : BOOLEAN, undone : BOOLEAN,
       back : {"none"} \cup Member \cup Stages]
<1>0. rec \in Records
  BY DEF MergeInv, MergeTypeOK, Stages
<1>1. CASE Halts(r)
  BY <1>0, <1>1 DEF Halts
<1>2. CASE Suspends(r)
  BY <1>0, <1>2 DEF Suspends, Forward
<1>3. CASE Reopens(r)
  <2>1. PICK o \in {"executing", "awaiting", "halted", "finalizing", "rolling"} :
          rec.origin = o
    BY <1>0, <1>3 DEF Reopens, MergeInv, PhaseInv
  <2>2. r = [rec EXCEPT !.state = o, !.origin = "none"]
    BY <1>3, <2>1 DEF Reopens
  <2>3. [rec EXCEPT !.state = o] \in Records
    <3>1. o \in {"executing", "awaiting", "halted", "finalizing",
                 "rolling", "completed", "aborted", "recovery"}
      OBVIOUS
    <3> HIDE <2>1
    <3> QED
      BY <1>0, <3>1
  <2>4. r = [[rec EXCEPT !.state = o] EXCEPT !.origin = "none"]
    BY <2>2, Zenon
  <2> QED
    BY <2>3, <2>4
<1>4. ASSUME NEW m \in Member, Fails(r, m) PROVE r \in Records
  <2>1. PICK row \in Row : r = FailureBatch(m, row)
    BY <1>4 DEF Fails
  <2> DEFINE Skipped(k) == [rec.row[k] EXCEPT !.state = "unattempted"]
  <2>2. \A k \in Member : rec.row[k] \in Row /\ Skipped(k) \in Row
    BY <1>0 DEF Row, Unstarted
  <2> DEFINE rows == [k \in Member |->
                        IF k = m THEN row
                        ELSE IF k \in Later(m) /\ rec.row[k].state = "planned"
                          THEN Skipped(k) ELSE rec.row[k]]
  <2>3. r = [rec EXCEPT !.state = "halted", !.row = rows]
    BY <2>1 DEF FailureBatch
  <2> HIDE DEF Skipped
  <2>4. rows \in [Member -> Row]
    BY <2>2
  <2> HIDE DEF rows
  <2> QED
    BY <1>0, <2>3, <2>4
<1>5. ASSUME NEW m \in Member, Settles(r, m) PROVE r \in Records
  <2>1. PICK state \in Successful \cup {"conflicted"},
             snap \in {"none", "pristine", "edited"},
             next \in {"executing", "halted", "rolling"} :
          r = [Outcome(m, state, snap) EXCEPT !.state = next]
    BY <1>5 DEF Settles
  <2>2. [state |-> state, pending |-> "none", error |-> FALSE, snap |-> snap] \in Row
    BY <2>1 DEF Row
  <2> DEFINE row == [state |-> state, pending |-> "none", error |-> FALSE, snap |-> snap]
  <2>3. r = [[rec EXCEPT !.row[m] = row] EXCEPT !.state = next]
    BY <2>1 DEF Outcome
  <2> HIDE DEF row
  <2>4. [rec EXCEPT !.row[m] = row] \in Records
    BY <1>0, <2>2 DEF row
  <2>5. PICK r0 \in Records : r = [r0 EXCEPT !.state = next]
    BY <2>3, <2>4
  <2>6. next \in {"executing", "awaiting", "halted", "finalizing",
                 "rolling", "completed", "aborted", "recovery"}
    BY <2>1
  <2> QED
    BY <2>5, <2>6
<1>6. ASSUME NEW m \in Member, GivesUp(r, m) PROVE r \in Records
  <2> DEFINE row == [rec.row[m] EXCEPT !.pending = "none"]
  <2>1. row \in Row
    BY <1>0 DEF Row
  <2>2. r = [rec EXCEPT !.row[m] = row, !.state = "rolling"]
    BY <1>6 DEF GivesUp
  <2> HIDE DEF row
  <2> QED
    BY <1>0, <2>1, <2>2
<1>7. ASSUME NEW m \in Member, Prepares(r, m) PROVE r \in Records
  <2>1. kind[m] \in {"verify", "ff", "merge", "conflict"}
    BY KindChoicesAssumption DEF MergeInv, MergeTypeOK
  <2> QED
    BY SMTT(30), <1>0, <1>7, <2>1 DEF Prepares, Row
<1>8. ASSUME NEW m \in Member, Passes(r, m) PROVE r \in Records
  BY SMTT(30), <1>0, <1>8 DEF Passes, Row, Terminal
<1>9. ASSUME NEW m \in Member, TurnsBack(r, m) PROVE r \in Records
  BY <1>0, <1>9 DEF TurnsBack
<1>10. CASE Proceeds(r) \/ Awaits(r) \/ Finalizes(r) \/ Accepts(r) \/ Enters(r)
  BY ZenonT(60), <1>0, <1>10 DEF Proceeds, Awaits, Finalizes, Accepts, Enters
<1>11. CASE Publishes(r)
  BY ZenonT(60), <1>0, <1>11 DEF Publishes, Step
<1>12. CASE Completes(r) \/ Ends(r)
  BY <1>0, <1>12 DEF Completes, Ends
<1>13. CASE Withdraws(r)
  BY <1>0, <1>13, StageNames DEF Withdraws
<1>14. CASE GoneBack(r)
  <2>1. CASE rec.back \in Member
    <3>1. PICK m \in Member : m = rec.back
      BY <2>1
    <3> DEFINE closed == [rec.row[m] EXCEPT
                            !.pending = "none",
                            !.state = IF rec.row[m].state = "conflicted"
                                        THEN "aborted" ELSE "rolledback"]
    <3>2. r = [rec EXCEPT !.back = "none", !.row[m] = closed]
      BY <1>14, <3>1, BackDoneMember DEF GoneBack, MergeInv
    <3>3. closed \in Row
      <4>1. PICK row \in Row : row = rec.row[m]
        BY <1>0
      <4>2. \A state \in {"aborted", "rolledback"} :
              [row EXCEPT !.pending = "none", !.state = state] \in Row
        BY DEF Row, Terminal
      <4> QED
        BY <4>1, <4>2
    <3> HIDE DEF closed
    <3> QED
      BY <1>0, <3>2, <3>3
  <2>2. CASE rec.back = "complete"
    BY <1>0, <1>14, <2>2, MemberNames, StageNames DEF GoneBack, BackDone
  <2>3. CASE rec.back \notin Member \cup {"complete"}
    <3>1. r = [rec EXCEPT !.back = NextEvidence(rec.back)]
      BY <1>14, <2>3 DEF GoneBack, BackDone
    <3>2. NextEvidence(rec.back) \in Stages
      BY <1>0, <1>14, <2>3, StageNames DEF GoneBack
    <3> QED
      BY <1>0, <3>1, <3>2
  <2> QED
    BY <2>1, <2>2, <2>3
<1> QED
  BY <1>1, <1>2, <1>3, <1>4, <1>5, <1>6, <1>7, <1>8, <1>9, <1>10, <1>11,
     <1>12, <1>13, <1>14 DEF RecordStep

\* The types are kept.
LEMMA TypeStep == MergeInv /\ [Next]_vars => MergeTypeOK'
<1> SUFFICES ASSUME MergeInv, [Next]_vars PROVE MergeTypeOK'
  OBVIOUS
<1>0. MergeTypeOK
  BY DEF MergeInv
<1>1. CASE Observes
  BY <1>0, <1>1, RecordType DEF Observes, Commands, MergeTypeOK, Stages
<1>2. CASE ExecuteOwned
  <2>1. inv.act \in Act
    BY <1>2, OwnedType DEF ExecuteOwned, MergeInv, ActInv
  <2>2. inv.act.who \in Member => inv.here \cup {inv.act.who} \subseteq Member
    BY <1>0 DEF MergeTypeOK
  <2>3. inv.act.on = "member" => inv.act.who \in Member
    <3>1. Owned(inv.act)
      BY <1>2 DEF ExecuteOwned, MergeInv, ActInv
    <3>2. BackAct.on = "back" /\ \A what : PublishAct(what).on = "publish"
      BY DEF BackAct, PublishAct
    <3>3. \A m \in Member : ForwardAct(m).who = m
      BY DEF ForwardAct
    <3> QED
      BY <3>1, <3>2, <3>3 DEF Owned
  <2>4. inv' \in Commands
    <3>1. PICK failed \in BOOLEAN :
            inv' = [inv EXCEPT !.act = NoAct, !.attempt = inv.act,
                               !.failed = failed,
                               !.tried = inv.tried \cup {inv.act},
                               !.here = IF inv.act.on = "member"
                                          THEN inv.here \cup {inv.act.who} ELSE inv.here]
      BY <1>0, <1>2 DEF ExecuteOwned, MergeTypeOK
    <3>2. /\ inv \in Commands
          /\ inv.tried \cup {inv.act} \in SUBSET Act
          /\ (IF inv.act.on = "member" THEN inv.here \cup {inv.act.who} ELSE inv.here)
                \in SUBSET Member
      BY <1>0, <2>1, <2>2, <2>3 DEF MergeTypeOK, Commands
    <3> QED
      BY <2>1, <3>1, <3>2 DEF Commands
  <2>5. repo' \in [Member -> {"before", "result"} \cup InMerge]
    BY <1>0, <1>2, Effects DEF MergeTypeOK, MovesMember, TakesBack,
       CommitsEvidence,
       WritesRoot, ClearsRoot, InMerge
  <2>6. root' \in [head : {"base", "evidence"}, marker : BOOLEAN,
                   integrity : BOOLEAN, lock : BOOLEAN, boundary : BOOLEAN,
                   index : BOOLEAN]
    <3>1. CASE root' = root
      BY <1>0, <3>1 DEF MergeTypeOK
    <3>2. CASE CommitsEvidence
      BY <1>0, <3>2 DEF MergeTypeOK, CommitsEvidence
    <3>3. ASSUME NEW what \in {"marker", "lock", "boundary", "index"}, WritesRoot(what)
          PROVE  root' \in [head : {"base", "evidence"}, marker : BOOLEAN,
                            integrity : BOOLEAN, lock : BOOLEAN, boundary : BOOLEAN,
                            index : BOOLEAN]
      <4>1. CASE what = "marker"
        BY ZenonT(60), <1>0, <3>3, <4>1 DEF MergeTypeOK, WritesRoot
      <4>2. CASE what = "lock"
        BY ZenonT(60), <1>0, <3>3, <4>2 DEF MergeTypeOK, WritesRoot
      <4>3. CASE what = "boundary"
        BY ZenonT(60), <1>0, <3>3, <4>3 DEF MergeTypeOK, WritesRoot
      <4>4. CASE what = "index"
        <5>1. \/ root' = [root EXCEPT !.integrity = TRUE, !.index = TRUE]
              \/ root' = [root EXCEPT !.integrity = TRUE]
          BY <3>3, <4>4 DEF WritesRoot
        <5> QED
          BY ZenonT(60), <1>0, <5>1 DEF MergeTypeOK
      <4> QED
        BY <4>1, <4>2, <4>3, <4>4
    <3>4. ASSUME NEW step \in Stages \ {"complete"}, ClearsRoot(step)
          PROVE  root' \in [head : {"base", "evidence"}, marker : BOOLEAN,
                            integrity : BOOLEAN, lock : BOOLEAN, boundary : BOOLEAN,
                            index : BOOLEAN]
      <4>1. CASE step = "commit"
        BY <1>0, <3>4, <4>1 DEF MergeTypeOK, ClearsRoot
      <4>2. CASE step = "marker"
        <5>1. \/ root' = [root EXCEPT !.marker = FALSE, !.integrity = FALSE]
              \/ root' = [root EXCEPT !.integrity = FALSE]
          BY <3>4, <4>2 DEF ClearsRoot
        <5> QED
          BY ZenonT(60), <1>0, <5>1 DEF MergeTypeOK
      <4>3. CASE step = "boundary"
        BY ZenonT(60), <1>0, <3>4, <4>3 DEF MergeTypeOK, ClearsRoot
      <4>4. CASE step = "lock"
        BY ZenonT(60), <1>0, <3>4, <4>4 DEF MergeTypeOK, ClearsRoot
      <4>5. CASE step = "index"
        BY ZenonT(60), <1>0, <3>4, <4>5 DEF MergeTypeOK, ClearsRoot
      <4> QED
        BY <4>1, <4>2, <4>3, <4>4, <4>5, StageNames
    <3> QED
      BY <1>2, <3>1, <3>2, <3>3, <3>4, Effects DEF MovesMember, TakesBack
  <2> QED
    BY <1>0, <1>2, <2>4, <2>5, <2>6, Effects DEF MergeTypeOK, Commands
<1>3. CASE Crash \/ \E request \in {"continue", "abort"} : Begin(request)
  <2>1. Idle \in Commands /\ \A request \in {"continue", "abort"} : Fresh(request) \in Commands
    BY DEF Idle, Fresh, Commands
  <2> QED
    BY <1>0, <1>3, <2>1 DEF Crash, Begin, MergeTypeOK, Commands
<1>4. ASSUME NEW m \in Member, Work(m) PROVE MergeTypeOK'
  BY <1>0, <1>4 DEF Work, MergeTypeOK
<1>5. ASSUME NEW where \in Member \cup {"root"}, Disturb(where) PROVE MergeTypeOK'
  BY <1>0, <1>5 DEF Disturb, MergeTypeOK
<1>6. CASE UNCHANGED vars
  BY <1>0, <1>6 DEF vars, MergeTypeOK
<1> QED
  BY <1>1, <1>2, <1>3, <1>4, <1>5, <1>6, ServiceSteps DEF Next

\* An action under way stays the one the record has the intent of.
LEMMA ActStep == MergeInv /\ [Next]_vars => ActInv'
<1> SUFFICES ASSUME MergeInv, [Next]_vars PROVE ActInv'
  OBVIOUS
<1>0. ActInv
  BY DEF MergeInv
<1>a. ASSUME rec' = rec, inv'.act = NoAct \/ Owned(inv'.act) PROVE ActInv'
  BY <1>a DEF ActInv, Owned, ForwardAct, PublishAct, BackAct
<1>1. CASE Observes
  BY <1>1, <1>a DEF Observes, ActInv
<1>2. CASE ExecuteOwned
  <2>1. inv'.act = NoAct
    BY <1>2 DEF ExecuteOwned, MergeInv, MergeTypeOK
  <2> QED
    BY <2>1 DEF ActInv
<1>3. CASE Crash \/ \E request \in {"continue", "abort"} : Begin(request)
  BY <1>3 DEF Crash, Begin, Idle, Fresh, ActInv
<1>4. CASE \/ \E m \in Member : Work(m)
           \/ \E where \in Member \cup {"root"} : Disturb(where)
           \/ UNCHANGED vars
  <2>1. rec' = rec /\ inv' = inv
    BY <1>4 DEF Work, Disturb, vars
  <2> QED
    BY <1>0, <1>a, <2>1 DEF ActInv
<1> QED
  BY <1>1, <1>2, <1>3, <1>4, ServiceSteps DEF Next

\* The merge begins with the invariant.
LEMMA MergeBase == Init => MergeInv
<1> SUFFICES ASSUME Init PROVE MergeInv
  OBVIOUS
<1>1. MergeTypeOK
  <2>1. Fresh("resume") \in Commands
    BY DEF Fresh, Idle, Commands
  <2>2. [state |-> "planned", pending |-> "none", error |-> FALSE, snap |-> "none"] \in Row
    BY DEF Row, Unstarted
  <2> QED
    BY <2>1, <2>2 DEF Init, MergeTypeOK, Commands
<1>2. RowInv /\ PhaseInv
  BY MemberNames DEF Init, RowInv, PhaseInv, Effective, Unstarted, Integrated
<1>3. PublicationInv /\ HeadInv /\ FilesInv /\ ForwardFilesInv
  BY MemberNames, StageNames
  DEF Init, PublicationInv, HeadInv, FilesInv, ForwardFilesInv, OnTheWay,
     Effective
<1>4. PlaceInv
  BY DEF Init, PlaceInv, Places, Integrated
<1>5. ActInv
  BY DEF Init, ActInv, Fresh, Idle
<1> QED
  BY <1>1, <1>2, <1>3, <1>4, <1>5 DEF MergeInv

\* Every step keeps the merge's inductive invariant.
LEMMA MergeStep == MergeInv /\ [Next]_vars => MergeInv'
BY TypeStep, RowStep, PhaseStep, PublicationStep, HeadStep, FilesStep,
   ForwardFilesStep, PlaceStep, ActStep DEF MergeInv

\* The invariant holds in every reachable state.
THEOREM MergeInvariant == Spec => []MergeInv
BY MergeBase, MergeStep, PTL DEF Spec

\* Record, repositories and command keep their types.
THEOREM MergeTypeCorrect == Spec => []MergeTypeOK
<1>1. MergeInv => MergeTypeOK
  BY DEF MergeInv
<1> QED
  BY <1>1, MergeInvariant, PTL

\* For any members and plans, however often the process dies, whatever a
\* failing Git call did and whatever the user disturbs: the record accounts
\* for every member and for the root (the write-ahead order of
\* v1_lifecycle/service.rs).
THEOREM RecordAccounts == Spec => []RecordAccountsForRepos
<1>1. MergeInv => RecordAccountsForRepos
  BY DEF MergeInv, PlaceInv, HeadInv, FilesInv, RecordAccountsForRepos
<1> QED
  BY <1>1, MergeInvariant, PTL

\* A merge that ended, however it got there, left in the root all of the
\* candidate or nothing of it (publication and withdrawal of the evidence).
THEOREM NothingLeftBehind == Spec => []NoResidue
<1>1. ASSUME MergeInv PROVE NoResidue
  <2>0. /\ root \in [head : {"base", "evidence"}, marker : BOOLEAN,
                     integrity : BOOLEAN, lock : BOOLEAN, boundary : BOOLEAN,
                     index : BOOLEAN]
        /\ changes \subseteq {"lock", "boundary"}
    BY <1>1, KindChoicesAssumption DEF MergeInv, MergeTypeOK
  <2> DEFINE put == [root EXCEPT !.head = "evidence", !.marker = TRUE,
                                 !.integrity = TRUE, !.index = TRUE,
                                 !.lock = "lock" \in changes,
                                 !.boundary = "boundary" \in changes]
  <2> DEFINE bare == [root EXCEPT !.head = "base", !.marker = FALSE,
                                  !.integrity = FALSE, !.index = FALSE,
                                  !.lock = FALSE, !.boundary = FALSE]
  <2>1. ASSUME root.head = "evidence", root.marker, root.integrity, root.index,
               root.lock <=> "lock" \in changes,
               root.boundary <=> "boundary" \in changes
        PROVE  root = put
    <3>1. root.lock = ("lock" \in changes)
      BY <2>0, <2>1
    <3>2. root.boundary = ("boundary" \in changes)
      BY <2>0, <2>1
    <3>3. PICK l \in BOOLEAN, b \in BOOLEAN :
            l = ("lock" \in changes) /\ b = ("boundary" \in changes)
      BY <2>0, <3>1, <3>2, Zenon
    <3>4. root = [root EXCEPT !.head = "evidence", !.marker = TRUE,
                              !.integrity = TRUE, !.index = TRUE,
                              !.lock = l, !.boundary = b]
      <4>1. root.lock = l /\ root.boundary = b
        BY <3>1, <3>2, <3>3, Zenon
      <4>2. root.marker = TRUE /\ root.integrity = TRUE /\ root.index = TRUE
        BY <2>0, <2>1
      <4> QED
        BY <2>0, <2>1, <4>1, <4>2
    <3> QED
      BY <3>3, <3>4, Zenon
  <2>2. ASSUME root.head = "base", ~root.marker, ~root.integrity, ~root.index,
               ~root.lock, ~root.boundary
        PROVE  root = bare
    BY <2>0, <2>2
  <2> HIDE DEF put, bare
  <2>3. CASE rec.state = "completed"
    <3>1. Effective = "completed" /\ rec.pub = "complete" /\ ~rec.undone
      BY <1>1, <2>3 DEF MergeInv, PublicationInv, Effective
    <3>2. ASSUME Moved PROVE root = put
      <4>1. rec.cand /\ rec.comp
        BY <1>1, <3>1, <3>2 DEF MergeInv, PublicationInv
      <4>2. root.head = "evidence"
        BY <1>1, <3>1, <4>1 DEF MergeInv, HeadInv
      <4>3. /\ root.marker /\ root.integrity /\ root.index
            /\ root.lock <=> "lock" \in changes
            /\ root.boundary <=> "boundary" \in changes
        BY <1>1, <3>1, <4>1 DEF MergeInv, ForwardFilesInv, FilesInv
      <4> QED
        BY <2>1, <4>2, <4>3
    <3>3. ASSUME ~Moved PROVE root = bare
      <4>1. ~rec.cand /\ ~rec.comp
        BY <1>1, <3>3 DEF MergeInv, PublicationInv
      <4>2. root.head = "base" /\ ~root.marker /\ ~root.integrity /\ ~root.index
            /\ ~root.lock /\ ~root.boundary
        BY <1>1, <2>0, <4>1 DEF MergeInv, HeadInv, FilesInv
      <4> QED
        BY <2>2, <4>2
    <3>4. root = IF Moved THEN put ELSE bare
      BY <3>2, <3>3
    <3> QED
      BY <2>3, <3>4 DEF NoResidue, Moved, put, bare
  <2>4. CASE rec.state = "aborted"
    <3>1. Effective = "aborted"
      BY <2>4 DEF Effective
    <3>2. ~rec.comp \/ rec.undone
      BY <1>1, <3>1 DEF MergeInv, PublicationInv
    <3>3. root.head = "base" /\ ~root.marker /\ ~root.integrity /\ ~root.index
          /\ ~root.lock /\ ~root.boundary
      BY <1>1, <2>0, <3>1, <3>2 DEF MergeInv, HeadInv, FilesInv
    <3>4. root = bare
      BY <2>2, <3>3
    <3> QED
      BY <2>4, <3>4 DEF NoResidue, bare
  <2>5. CASE rec.state \notin {"completed", "aborted"}
    BY <2>5 DEF NoResidue
  <2> QED
    BY <2>3, <2>4, <2>5
<1> QED
  BY <1>1, MergeInvariant, PTL

\* A staged resolution is never thrown away, neither by an abort nor by a
\* recovery: the only step that puts a member back refuses a resolved
\* conflict, whatever the record says (v1_rollback/participants.rs).
THEOREM ResolutionsAreKept == Spec => ResolutionKept
<1>1. ASSUME MergeInv, [Next]_vars
      PROVE  [\A m \in Member : repo[m] = "resolved" => repo'[m] # "before"]_vars
  <2> SUFFICES ASSUME NEW m \in Member, repo[m] = "resolved"
               PROVE  repo'[m] # "before"
    OBVIOUS
  <2>0. repo \in [Member -> {"before", "result"} \cup InMerge]
    BY <1>1 DEF MergeInv, MergeTypeOK
  <2>1. CASE repo' = repo
    BY <2>1
  <2>2. ASSUME NEW k \in Member, MovesMember(k) PROVE repo'[m] # "before"
    BY <2>0, <2>2 DEF MovesMember
  <2>3. ASSUME NEW k \in Member, TakesBack(k) PROVE repo'[m] # "before"
    <3>1. repo[k] # "resolved"
      BY <2>3 DEF TakesBack, BackForm, At
    <3> QED
      BY <2>0, <2>3, <3>1 DEF TakesBack
  <2>4. ASSUME NEW k \in Member, Work(k) PROVE repo'[m] # "before"
    BY <2>0, <2>4 DEF Work, InMerge
  <2> QED
    BY <1>1, <2>1, <2>2, <2>3, <2>4, Steps, Effects
    DEF CommitsEvidence, WritesRoot, ClearsRoot
<1> QED
  BY <1>1, MergeInvariant, PTL DEF Spec, ResolutionKept

-----------------------------------------------------------------------------
(* A corrected operation leaves recovery. *)

\* A root on its way is at a step of the publication, and at the last one
\* once its index is staged.
LEMMA ResolutionFound ==
  ASSUME MergeTypeOK, FilesInv, OnTheWay, rec.back = "none"
  PROVE  /\ Resolution # "ambiguous"
         /\ root.index => Resolution = "complete"
         /\ ~root.marker => Snapshot = <<"baseline", "pre">>
<1>1. /\ root.marker \in BOOLEAN /\ root.lock \in BOOLEAN /\ root.index \in BOOLEAN
      /\ root.boundary \in BOOLEAN /\ root.integrity \in BOOLEAN
      /\ changes \subseteq {"lock", "boundary"}
  BY KindChoicesAssumption DEF MergeTypeOK
<1>2. /\ root.integrity \/ root.lock \/ root.boundary \/ root.index => root.marker
      /\ root.lock => "lock" \in changes
      /\ root.boundary => "boundary" \in changes
  BY DEF FilesInv
<1>3. /\ root.boundary /\ "lock" \in changes => root.lock
      /\ root.integrity =>
           /\ "lock" \in changes => root.lock
           /\ "boundary" \in changes => root.boundary
      /\ root.index => root.integrity
  BY DEF OnTheWay
<1> DEFINE staging == Prefix = "boundary" \/ (Prefix = "marker" /\ changes = {})
<1>4. /\ Prefix # "other" /\ (root.integrity => staging) /\ ~root.index =>
           Snapshot = <<Prefix, "pre">>
      /\ Prefix # "other" /\ root.integrity /\ staging /\ root.index =>
           Snapshot = <<Prefix, "staged">>
  BY <1>1 DEF Snapshot
<1>5. CASE ~root.marker
  <2>1. Prefix = "baseline"
    BY <1>1, <1>2, <1>5 DEF Prefix
  <2>2. Snapshot = <<"baseline", "pre">>
    BY <1>2, <1>4, <1>5, <2>1
  <2>3. Resolution = "marker"
    BY <2>2 DEF Resolution
  <2> QED
    BY <1>2, <1>5, <2>2, <2>3
<1>6. CASE root.marker /\ ~root.lock /\ ~root.boundary
  <2>1. Prefix = "marker"
    BY <1>1, <1>6 DEF Prefix
  <2>2. root.integrity => changes = {}
    BY <1>1, <1>3, <1>6
  <2>3. CASE root.index
    <3>1. Snapshot = <<"marker", "staged">> /\ changes = {}
      BY <1>3, <1>4, <2>1, <2>2, <2>3
    <3>2. Resolution = "complete"
      BY <3>1 DEF Resolution
    <3> QED
      BY <1>6, <3>2
  <2>4. CASE ~root.index
    <3>1. Snapshot = <<"marker", "pre">>
      BY <1>4, <2>1, <2>2, <2>4
    <3>2. Resolution \in {"lock", "boundary", "index"}
      BY <3>1 DEF Resolution
    <3> QED
      BY <1>6, <2>4, <3>2
  <2> QED
    BY <2>3, <2>4
<1>7. CASE root.marker /\ root.lock /\ ~root.boundary /\ "boundary" \in changes
  <2>1. Prefix = "lock"
    BY <1>1, <1>7 DEF Prefix
  <2>2. ~root.integrity /\ ~root.index
    BY <1>3, <1>7
  <2>3. Snapshot = <<"lock", "pre">>
    BY <1>4, <2>1, <2>2
  <2>4. Resolution = "boundary"
    BY <2>3 DEF Resolution
  <2> QED
    BY <1>7, <2>2, <2>4
<1>8. CASE /\ root.marker /\ (root.lock \/ root.boundary)
           /\ ~(root.lock /\ ~root.boundary /\ "boundary" \in changes)
  <2>1. Prefix = "boundary"
    BY <1>1, <1>2, <1>3, <1>8 DEF Prefix
  <2>2. CASE root.index
    <3>1. Snapshot = <<"boundary", "staged">>
      BY <1>3, <1>4, <2>1, <2>2
    <3>2. Resolution = "complete"
      BY <3>1 DEF Resolution
    <3> QED
      BY <1>8, <3>2
  <2>3. CASE ~root.index
    <3>1. Snapshot = <<"boundary", "pre">>
      BY <1>4, <2>1, <2>3
    <3>2. Resolution = "index"
      BY <3>1 DEF Resolution
    <3> QED
      BY <1>8, <2>3, <3>2
  <2> QED
    BY <2>2, <2>3
<1> QED
  BY <1>1, <1>5, <1>6, <1>7, <1>8

\* Members that were merging are found at a point of what was pending.
LEMMA ForwardReopens ==
  ASSUME MergeInv, Corrected, rec.state = "recovery",
         rec.origin \in {"executing", "awaiting", "halted"}
  PROVE  ForwardOriginExact
<1>0. /\ RowInv /\ PhaseInv /\ PlaceInv /\ dirty = {}
      /\ Effective = rec.origin /\ rec.back = "none"
  BY DEF MergeInv, Effective, PhaseInv, Corrected
<1>1. ASSUME rec.origin = "awaiting"
      PROVE  /\ {m \in Member : rec.row[m].pending # "none"} = {}
             /\ \E m \in Member : rec.row[m].state = "conflicted" /\ ~rec.row[m].error
  BY <1>0, <1>1 DEF RowInv, PhaseInv
<1>2. rec.origin = "halted" => HaltCause(rec)
  BY <1>0 DEF PhaseInv
<1>3. ASSUME NEW m \in Member
      PROVE  /\ rec.row[m].pending # "none" =>
                  /\ Reconcile(m) # "ambiguous"
                  /\ Reconcile(m) = "conflict" => repo[m] # "resolved"
             /\ rec.row[m].pending = "none" => NoDrift(m)
  <2>1. /\ rec.row[m].pending \in {"none", "verify", "ff", "merge", "conflict", "resolve"}
        /\ rec.back # m /\ repo[m] \in Places(m) /\ m \notin dirty
    BY <1>0, MemberNames DEF MergeInv, MergeTypeOK, Row, PlaceInv
  <2>2. CASE rec.row[m].pending = "none"
    BY <2>1, <2>2 DEF Places, NoDrift, InMerge, Integrated
  <2>3. CASE rec.row[m].pending \in {"verify", "ff", "merge", "conflict"}
    <3>1. rec.row[m].state \in Unstarted
      BY <1>0, <2>3 DEF RowInv
    <3>2. /\ rec.row[m].pending = "verify" => repo[m] = "before"
          /\ rec.row[m].pending \in {"ff", "merge"} => repo[m] \in {"before", "result"}
          /\ rec.row[m].pending = "conflict" => repo[m] \in {"before", "conflict", "edited"}
      BY <2>1, <2>3, <3>1 DEF Places, Unstarted, Integrated, InMerge, Corrected
    <3> QED
      BY <2>1, <2>3, <3>2 DEF Reconcile, InMerge
  <2>4. CASE rec.row[m].pending = "resolve"
    <3>1. repo[m] \in {"resolved", "result"}
      BY <2>4 DEF Corrected
    <3> QED
      BY <2>1, <2>4, <3>1 DEF Reconcile
  <2> QED
    BY <2>1, <2>2, <2>3, <2>4
<1> QED
  BY <1>1, <1>2, <1>3 DEF ForwardOriginExact

\* A publication is found at the recorded step.
LEMMA PublicationReopens ==
  ASSUME MergeInv, Corrected, rec.state = "recovery", rec.origin = "finalizing",
         ~(rec.pub = "evidence" /\ ~rec.comp /\ root.head = "evidence")
  PROVE  IF rec.accepted THEN PublicationExact ELSE AcceptedInputs
<1>0. /\ MergeTypeOK /\ RowInv /\ PhaseInv /\ PublicationInv /\ HeadInv /\ FilesInv
      /\ ForwardFilesInv /\ PlaceInv /\ dirty = {}
      /\ Effective = "finalizing" /\ rec.back = "none"
  BY DEF MergeInv, Effective, PhaseInv, Corrected
<1>1. MembersSettled
  <2> SUFFICES ASSUME NEW m \in Member
               PROVE  /\ rec.row[m].state \in Successful
                      /\ rec.row[m].pending = "none" /\ ~rec.row[m].error
                      /\ NoDrift(m)
    BY DEF MembersSettled
  <2>1. rec.row[m].state \in Successful /\ ~rec.row[m].error
    BY <1>0 DEF PhaseInv
  <2>2. rec.row[m].pending = "none"
    BY <1>0 DEF RowInv
  <2>3. repo[m] \in Places(m) /\ rec.back # m
    BY <1>0, MemberNames DEF PlaceInv
  <2> QED
    BY <1>0, <2>1, <2>2, <2>3 DEF Places, NoDrift, Successful, Integrated
<1>2. PostEvidenceInputs
  BY <1>0, <1>1 DEF PostEvidenceInputs
<1>3. ASSUME ~rec.comp PROVE AcceptedInputs /\ Snapshot = <<"baseline", "pre">>
  <2>1. root.head = "base"
    BY <1>0, <1>3 DEF HeadInv, MergeTypeOK
  <2>2. ~root.lock /\ ~root.marker
    BY <1>0, <1>3 DEF FilesInv
  <2>3. Snapshot = <<"baseline", "pre">>
    BY <1>0, <2>2, ResolutionFound DEF ForwardFilesInv
  <2> QED
    BY <1>0, <1>1, <2>1, <2>2, <2>3 DEF AcceptedInputs, RootBaseline
<1>4. ASSUME rec.comp
      PROVE  /\ PostEvidenceInputs /\ RecordedEvidence
             /\ Resolution # "ambiguous"
             /\ rec.pub = "evidence" => Snapshot = <<"baseline", "pre">>
             /\ rec.cand /\ rec.pub \in {"verifying", "complete"} =>
                  Resolution = "complete"
  <2>1. RecordedEvidence
    BY <1>0, <1>4 DEF HeadInv, RecordedEvidence, EvidenceFound
  <2>2. /\ OnTheWay
        /\ rec.pub = "evidence" => ~root.marker
        /\ rec.cand /\ rec.pub \in {"verifying", "complete"} => root.index
    BY <1>0 DEF ForwardFilesInv
  <2> QED
    BY <1>0, <1>2, <2>1, <2>2, ResolutionFound
<1>5. CASE ~rec.accepted
  <2>1. ~rec.comp
    BY <1>0, <1>5 DEF PublicationInv
  <2> QED
    BY <1>3, <1>5, <2>1
<1>6. CASE rec.accepted
  <2>1. CASE rec.pub \in {"none", "preparing"}
    <3>1. ~rec.comp
      BY <1>0, <2>1 DEF PublicationInv
    <3> QED
      BY <1>3, <1>6, <2>1, <3>1 DEF PublicationExact
  <2>2. CASE rec.pub = "evidence"
    <3>1. CASE ~rec.comp
      BY <1>3, <1>6, <2>2, <3>1 DEF PublicationExact, EvidenceBase
    <3>2. CASE rec.comp
      BY <1>4, <1>6, <2>2, <3>2 DEF PublicationExact
    <3> QED
      BY <3>1, <3>2
  <2>3. CASE rec.pub = "publishing"
    <3>1. rec.comp
      BY <1>0, <2>3 DEF PublicationInv
    <3> QED
      BY <1>4, <1>6, <2>3, <3>1 DEF PublicationExact
  <2>4. CASE rec.pub \in {"verifying", "complete"}
    <3>1. rec.cand <=> rec.comp
      BY <1>0, <2>4 DEF PublicationInv
    <3> QED
      BY <1>3, <1>4, <1>6, <2>4, <3>1 DEF PublicationExact
  <2> QED
    BY <1>0, <2>1, <2>2, <2>3, <2>4 DEF MergeTypeOK
<1> QED
  BY <1>5, <1>6

\* What was going back is found before or after its journalled step.
LEMMA RollbackReopens ==
  ASSUME MergeInv, Corrected, rec.state = "recovery", rec.origin = "rolling"
  PROVE  PrefixExact /\ PendingForm \in {"before", "after"}
<1>0. /\ MergeTypeOK /\ RowInv /\ PhaseInv /\ PublicationInv /\ HeadInv /\ FilesInv
      /\ PlaceInv /\ dirty = {}
      /\ Effective = "rolling" /\ rec.back # "none"
  BY DEF MergeInv, Effective, PhaseInv, Corrected
<1>1. /\ root.marker \in BOOLEAN /\ root.lock \in BOOLEAN /\ root.index \in BOOLEAN
      /\ root.boundary \in BOOLEAN /\ root.integrity \in BOOLEAN
      /\ root.head \in {"base", "evidence"}
  BY <1>0 DEF MergeTypeOK
<1>2. \A m \in Member : rec.row[m].pending = "none"
  BY <1>0 DEF RowInv
<1>3. PrefixExact
  <2>1. ASSUME rec.undone PROVE EvidenceForm("complete") = "after"
    <3>1. /\ root.head = "base" /\ ~root.marker /\ ~root.integrity /\ ~root.lock
          /\ ~root.boundary /\ ~root.index
      BY <1>0, <1>1, <2>1 DEF HeadInv, FilesInv
    <3> QED
      BY <3>1 DEF EvidenceForm
  <2>2. ASSUME NEW m \in Member, rec.row[m].state \in Terminal
        PROVE  At(m, "before")
    BY <1>0, <1>2, <2>2 DEF PlaceInv, Places, At, Terminal, Integrated
  <2>3. \A m : Later(m) \subseteq Member
    BY DEF Later
  <2> QED
    BY <2>1, <2>2, <2>3 DEF PrefixExact
<1>4. CASE rec.back \in Member
  <2>1. PICK m \in Member : m = rec.back
    BY <1>4
  <2>2. BackForm(m, rec.row[m]) \in {"before", "after"}
    <3>1. CASE repo[m] = "before"
      BY <1>0, <3>1 DEF BackForm, At
    <3>2. CASE repo[m] # "before" /\ rec.row[m].state = "conflicted"
      <4>1. repo[m] \in InMerge
        BY <1>0, <1>2, <3>2 DEF PlaceInv, Places, InMerge, Integrated
      <4>2. repo[m] \in {"conflict", "edited"} /\ rec.row[m].snap = LiveBytes(m)
        BY <2>1, <3>2, <4>1 DEF Corrected, InMerge
      <4> QED
        BY <1>0, <3>2, <4>2 DEF BackForm, At
    <3>3. CASE repo[m] # "before" /\ rec.row[m].state # "conflicted"
      <4>1. repo[m] = "result"
        BY <1>0, <1>2, <3>3 DEF PlaceInv, Places
      <4> QED
        BY <1>0, <3>3, <4>1 DEF BackForm, At
    <3> QED
      BY <3>1, <3>2, <3>3
  <2> QED
    BY <1>3, <1>4, <2>1, <2>2 DEF PendingForm
<1>5. CASE rec.back \notin Member
  <2>1. rec.back \in {"commit", "boundary", "lock", "marker", "index", "complete"}
    BY <1>0, <1>5, StageNames DEF MergeTypeOK, Stages
  <2>2. /\ root.integrity \/ root.lock \/ root.boundary => root.marker
        /\ root.index /\ ~root.marker => rec.back \in {"marker", "index"}
        /\ rec.back # "commit" => root.head = "base"
    BY <1>0, <2>1, StageNames DEF FilesInv, HeadInv
  <2>3. rec.back = "commit" => EvidenceForm("commit") \in {"before", "after"}
    BY <1>1, <2>2 DEF EvidenceForm
  <2>4. rec.back = "boundary" => EvidenceForm("boundary") \in {"before", "after"}
    BY <1>1, <2>2 DEF EvidenceForm
  <2>5. rec.back = "lock" => EvidenceForm("lock") \in {"before", "after"}
    BY <1>0, <1>1, <2>2 DEF EvidenceForm, FilesInv
  <2>6. rec.back = "marker" => EvidenceForm("marker") \in {"before", "after"}
    BY <1>0, <1>1, <2>2 DEF EvidenceForm, FilesInv
  <2>7. rec.back = "index" => EvidenceForm("index") \in {"before", "after"}
    BY <1>0, <1>1, <2>2 DEF EvidenceForm, FilesInv
  <2>8. rec.back = "complete" => EvidenceForm("complete") \in {"before", "after"}
    BY <1>0, <1>1, <2>2 DEF EvidenceForm, FilesInv
  <2> QED
    BY <1>3, <1>5, <2>1, <2>3, <2>4, <2>5, <2>6, <2>7, <2>8 DEF PendingForm
<1> QED
  BY <1>3, <1>4, <1>5

\* Once what was reported is put right a command may leave recovery, unless
\* the evidence commit was made and not recorded: whatever origin the
\* operation has, however it got there.
THEOREM CorrectedReopens == Spec => []RecoveryReopens
<1>1. MergeInv => RecoveryReopens
  <2> SUFFICES ASSUME MergeInv, rec.state = "recovery", Corrected,
                      ~(rec.pub = "evidence" /\ ~rec.comp /\ root.head = "evidence")
               PROVE  RecoveryExact
    BY DEF RecoveryReopens
  <2>1. rec.origin \in {"executing", "awaiting", "halted", "finalizing", "rolling"}
    BY DEF MergeInv, MergeTypeOK, PhaseInv
  <2>2. CASE rec.origin \in {"executing", "awaiting", "halted"}
    BY <2>2, ForwardReopens DEF RecoveryExact
  <2>3. CASE rec.origin = "finalizing"
    BY <2>3, PublicationReopens DEF RecoveryExact
  <2>4. CASE rec.origin = "rolling"
    BY <2>4, RollbackReopens DEF RecoveryExact
  <2> QED
    BY <2>1, <2>2, <2>3, <2>4
<1> QED
  BY <1>1, MergeInvariant, PTL

-----------------------------------------------------------------------------
(* The refinement of MergeContract: what its variables stand for. *)

Decision ==
  CASE Effective \in {"completed", "aborted"} -> Effective
    [] Effective = "rolling" -> "reverse"
    [] OTHER -> "forward"

Where == [m \in Member |-> IF repo[m] \in InMerge THEN "conflict" ELSE repo[m]]

Goal == [m \in Member |-> IF kind[m] = "verify" THEN "before" ELSE "result"]

Published == root.head = "evidence"

\* The contract's steps, in those terms.
LEMMA ContractSteps ==
  /\ UNCHANGED <<Decision, Where, Goal, Published>> => UNCHANGED Contract!contractVars
  /\ \A m \in Member, place \in {"conflict", "result"} :
       /\ Decision = "forward" /\ ~Published
       /\ <<Where[m], place>> \in {<<"before", "conflict">>, <<"before", "result">>,
                                   <<"conflict", "result">>}
       /\ Goal[m] = "result" /\ Where' = [Where EXCEPT ![m] = place]
       /\ UNCHANGED <<Decision, Goal, Published>>
       => Contract!ContractNext
  /\ \A m \in Member :
       /\ Decision = "reverse" /\ ~Published /\ Where[m] # "before"
       /\ Where' = [Where EXCEPT ![m] = "before"]
       /\ UNCHANGED <<Decision, Goal, Published>>
       => Contract!ContractNext
  /\ /\ Decision = "forward" /\ ~Published /\ Published' = TRUE
     /\ \A m \in Member : Where[m] = Goal[m]
     /\ \E m \in Member : Goal[m] = "result"
     /\ UNCHANGED <<Decision, Where, Goal>>
     => Contract!ContractNext
  /\ /\ Decision = "reverse" /\ Published /\ Published' = FALSE
     /\ UNCHANGED <<Decision, Where, Goal>>
     => Contract!ContractNext
  /\ /\ Decision = "forward" /\ Decision' = "reverse"
     /\ UNCHANGED <<Where, Goal, Published>>
     => Contract!ContractNext
  /\ /\ Decision = "forward" /\ Decision' = "completed"
     /\ \A m \in Member : Where[m] = Goal[m]
     /\ Published = \E m \in Member : Goal[m] = "result"
     /\ UNCHANGED <<Where, Goal, Published>>
     => Contract!ContractNext
  /\ /\ Decision = "reverse" /\ Decision' = "aborted"
     /\ \A m \in Member : Where[m] = "before"
     /\ ~Published
     /\ UNCHANGED <<Where, Goal, Published>>
     => Contract!ContractNext
<1>1. UNCHANGED <<Decision, Where, Goal, Published>> => UNCHANGED Contract!contractVars
  BY Zenon DEF Decision, Where, Goal, Published, Contract!contractVars
<1>2. ASSUME NEW m \in Member, NEW place \in {"conflict", "result"},
             Decision = "forward" /\ ~Published,
             <<Where[m], place>> \in {<<"before", "conflict">>, <<"before", "result">>,
                                      <<"conflict", "result">>},
             Goal[m] = "result" /\ Where' = [Where EXCEPT ![m] = place],
             UNCHANGED <<Decision, Goal, Published>>
      PROVE  Contract!ContractNext
  <2>1. Contract!Advance(m, place)
    BY <1>2, Zenon DEF Decision, Where, Goal, Published, Contract!Advance
  <2> QED
    BY <2>1, Zenon DEF Contract!ContractNext
<1>3. ASSUME NEW m \in Member,
             Decision = "reverse" /\ ~Published /\ Where[m] # "before",
             Where' = [Where EXCEPT ![m] = "before"],
             UNCHANGED <<Decision, Goal, Published>>
      PROVE  Contract!ContractNext
  <2>1. Contract!TakeBack(m)
    BY <1>3, Zenon DEF Decision, Where, Goal, Published, Contract!TakeBack
  <2> QED
    BY <2>1, Zenon DEF Contract!ContractNext
<1>4. ASSUME Decision = "forward" /\ ~Published /\ Published' = TRUE,
             \A m \in Member : Where[m] = Goal[m],
             \E m \in Member : Goal[m] = "result",
             UNCHANGED <<Decision, Where, Goal>>
      PROVE  Contract!ContractNext
  <2>1. Contract!Publish
    BY <1>4, Zenon DEF Decision, Where, Goal, Published, Contract!Publish,
       Contract!Merged, Contract!Required
  <2> QED
    BY <2>1, Zenon DEF Contract!ContractNext
<1>5. ASSUME Decision = "reverse" /\ Published /\ Published' = FALSE,
             UNCHANGED <<Decision, Where, Goal>>
      PROVE  Contract!ContractNext
  <2>1. Contract!Withdraw
    BY <1>5, Zenon DEF Decision, Where, Goal, Published, Contract!Withdraw
  <2> QED
    BY <2>1, Zenon DEF Contract!ContractNext
<1>6. ASSUME Decision = "forward" /\ Decision' = "reverse",
             UNCHANGED <<Where, Goal, Published>>
      PROVE  Contract!ContractNext
  <2>1. Contract!GiveUp
    BY <1>6, Zenon DEF Decision, Where, Goal, Published, Contract!GiveUp
  <2> QED
    BY <2>1, Zenon DEF Contract!ContractNext
<1>7. ASSUME Decision = "forward" /\ Decision' = "completed",
             \A m \in Member : Where[m] = Goal[m],
             Published = \E m \in Member : Goal[m] = "result",
             UNCHANGED <<Where, Goal, Published>>
      PROVE  Contract!ContractNext
  <2>1. Contract!Finish
    BY <1>7, Zenon DEF Decision, Where, Goal, Published, Contract!Finish,
       Contract!Merged, Contract!Required
  <2> QED
    BY <2>1, Zenon DEF Contract!ContractNext
<1>8. ASSUME Decision = "reverse" /\ Decision' = "aborted",
             \A m \in Member : Where[m] = "before", ~Published,
             UNCHANGED <<Where, Goal, Published>>
      PROVE  Contract!ContractNext
  <2>1. Contract!Finish
    BY <1>8, Zenon DEF Decision, Where, Goal, Published, Contract!Finish
  <2> QED
    BY <2>1, Zenon DEF Contract!ContractNext
<1> QED
  BY <1>1, <1>2, <1>3, <1>4, <1>5, <1>6, <1>7, <1>8, Zenon

\* A physical step is a step of the contract or does not show in it.
LEMMA ContractEffects ==
  MergeInv /\ ExecuteOwned => [Contract!ContractNext]_(Contract!contractVars)
<1> SUFFICES ASSUME MergeInv, ExecuteOwned
             PROVE  [Contract!ContractNext]_(Contract!contractVars)
  OBVIOUS
<1>0. /\ MergeTypeOK /\ RowInv /\ PhaseInv /\ PublicationInv /\ HeadInv
      /\ UNCHANGED <<kind, changes, rec, dirty>>
  BY Effects DEF MergeInv
<1>1. UNCHANGED <<Decision, Goal>>
  BY <1>0 DEF Decision, Goal, Effective
<1>2. ASSUME root' = root \/ root'.head = root.head, repo' = repo
      PROVE  UNCHANGED <<Where, Published>>
  BY <1>2 DEF Where, Published
<1>3. /\ rec.state \in Forward => Decision = "forward"
      /\ rec.state = "rolling" => Decision = "reverse"
  BY DEF Decision, Effective, Forward
<1>4. ASSUME NEW m \in Member, MovesMember(m) PROVE Contract!ContractNext
  <2> DEFINE place == IF rec.row[m].pending = "conflict" THEN "conflict" ELSE "result"
  <2>0. repo' = [repo EXCEPT ![m] = place] /\ root' = root
    BY <1>4 DEF MovesMember
  <2>1. Decision = "forward"
    BY <1>3, <1>4 DEF MovesMember
  <2>2. ~Published /\ UNCHANGED Published
    <3>1. Effective \in {"executing", "halted"}
      BY <1>0, <1>4 DEF MovesMember, RowInv
    <3> QED
      BY <1>0, <2>0, <3>1 DEF HeadInv, PublicationInv, PhaseInv, Published
  <2>3. /\ kind[m] # "verify"
        /\ \/ repo[m] = "before" /\ rec.row[m].pending \in {"ff", "merge", "conflict"}
           \/ repo[m] = "resolved" /\ rec.row[m].pending = "resolve"
    BY <1>0, <1>4, Reconciled DEF MovesMember, RowInv
  <2>4. Goal[m] = "result"
    BY <2>3 DEF Goal
  <2>5. place \in {"conflict", "result"}
    OBVIOUS
  <2>6. <<Where[m], place>> \in {<<"before", "conflict">>, <<"before", "result">>,
                                 <<"conflict", "result">>}
    BY <2>3 DEF Where, InMerge
  <2>7. Where' = [Where EXCEPT ![m] = place]
    <3>1. repo \in [Member -> {"before", "result"} \cup InMerge]
      BY <1>0 DEF MergeTypeOK
    <3> QED
      BY <2>0, <3>1 DEF Where, InMerge
  <2> HIDE DEF place
  <2> QED
    BY <1>1, <2>1, <2>2, <2>4, <2>5, <2>6, <2>7, ContractSteps, Zenon
<1>5. CASE CommitsEvidence
  <2>1. Decision = "forward" /\ MembersSettled /\ Moved
    BY <1>0, <1>3, <1>5 DEF CommitsEvidence, EvidenceBase, AcceptedInputs,
       Forward,
       PublicationInv
  <2>2. ~Published /\ Published' = TRUE
    BY <1>0, <1>5 DEF CommitsEvidence, EvidenceBase, AcceptedInputs, RootBaseline,
       Published, MergeTypeOK
  <2>3. \A m \in Member : Where[m] = Goal[m]
    BY <2>1, SettledMembers DEF Where, Goal, InMerge
  <2>4. \E m \in Member : Goal[m] = "result"
    BY <2>1 DEF Moved, Goal
  <2>5. UNCHANGED Where
    BY <1>5 DEF CommitsEvidence, Where
  <2> QED
    BY <1>1, <2>1, <2>2, <2>3, <2>4, <2>5, ContractSteps, Zenon
<1>6. ASSUME NEW what \in {"marker", "lock", "boundary", "index"}, WritesRoot(what)
      PROVE  UNCHANGED <<Where, Published>>
  <2>1. repo' = repo /\ root'.head = root.head
    BY <1>0, <1>6 DEF WritesRoot, MergeTypeOK
  <2> QED
    BY <1>2, <2>1
<1>7. ASSUME NEW m \in Member, TakesBack(m) PROVE Contract!ContractNext
  <2>0. repo' = [repo EXCEPT ![m] = "before"] /\ root' = root
    BY <1>7 DEF TakesBack
  <2>1. Decision = "reverse"
    BY <1>3, <1>7 DEF TakesBack
  <2>2. ~Published /\ UNCHANGED Published
    BY <1>0, <1>7, <2>0 DEF TakesBack, HeadInv, PublicationInv, Effective,
       Published
  <2>3. Where[m] # "before"
    BY <1>7 DEF TakesBack, BackForm, At, Where, InMerge
  <2>4. Where' = [Where EXCEPT ![m] = "before"]
    <3>1. repo \in [Member -> {"before", "result"} \cup InMerge]
      BY <1>0 DEF MergeTypeOK
    <3> QED
      BY <2>0, <3>1 DEF Where, InMerge
  <2> QED
    BY <1>1, <2>1, <2>2, <2>3, <2>4, ContractSteps, Zenon
<1>8. ASSUME NEW step \in Stages \ {"complete"}, ClearsRoot(step)
      PROVE  Contract!ContractNext \/ UNCHANGED <<Where, Published>>
  <2>1. CASE step = "commit"
    <3>1. Decision = "reverse"
      BY <1>3, <1>8 DEF ClearsRoot
    <3>2. root' = [root EXCEPT !.head = "base"] /\ repo' = repo
      BY <1>8, <2>1 DEF ClearsRoot
    <3>3. Published /\ Published' = FALSE
      BY <1>0, <1>8, <2>1, <3>2 DEF ClearsRoot, EvidenceForm, Published,
         MergeTypeOK
    <3>4. UNCHANGED Where
      BY <3>2 DEF Where
    <3> QED
      BY <1>1, <3>1, <3>3, <3>4, ContractSteps, Zenon
  <2>2. CASE step = "marker"
    <3>1. repo' = repo /\ root'.head = root.head
      BY <1>0, <1>8, <2>2 DEF ClearsRoot, MergeTypeOK
    <3> QED
      BY <1>2, <3>1
  <2>3. CASE step \in {"boundary", "lock", "index"}
    <3>1. repo' = repo /\ root'.head = root.head
      BY <1>0, <1>8, <2>3 DEF ClearsRoot, MergeTypeOK
    <3> QED
      BY <1>2, <3>1
  <2> QED
    BY <2>1, <2>2, <2>3, StageNames
<1>9. CASE UNCHANGED <<repo, root>>
  BY <1>2, <1>9, <1>1, ContractSteps
<1>10. ASSUME UNCHANGED <<Where, Published>> PROVE UNCHANGED Contract!contractVars
  BY <1>1, <1>10, ContractSteps
<1> QED
  BY <1>4, <1>5, <1>6, <1>7, <1>8, <1>9, <1>10, Effects

\* A new record turns the contract round, ends it, or does not show in it.
LEMMA ContractRecords ==
  MergeInv /\ RecordStep(rec') /\ UNCHANGED <<kind, changes, repo, root>>
    => [Contract!ContractNext]_(Contract!contractVars)
<1> SUFFICES ASSUME MergeInv, RecordStep(rec'), UNCHANGED <<kind, changes, repo, root>>
             PROVE  [Contract!ContractNext]_(Contract!contractVars)
  OBVIOUS
<1>0. /\ MergeTypeOK /\ RowInv /\ PhaseInv /\ PublicationInv /\ HeadInv
  BY DEF MergeInv
<1>1. UNCHANGED <<Where, Goal, Published>>
  BY DEF Where, Goal, Published
<1>a. ASSUME Decision' = Decision PROVE UNCHANGED Contract!contractVars
  BY <1>1, <1>a, ContractSteps, Zenon
<1>b. ASSUME rec'.state = rec.state, rec'.origin = rec.origin
      PROVE  UNCHANGED Contract!contractVars
  BY <1>a, <1>b DEF Decision, Effective
<1>c. ASSUME rec.state \in Forward, rec'.state \in Forward
      PROVE  UNCHANGED Contract!contractVars
  BY <1>a, <1>c DEF Decision, Effective, Forward
<1>d. ASSUME rec.state \in Forward, rec'.state = "rolling"
      PROVE  Contract!ContractNext
  <2>1. Decision = "forward" /\ Decision' = "reverse"
    BY <1>d DEF Decision, Effective, Forward
  <2> QED
    BY <1>1, <2>1, ContractSteps, Zenon
<1>2. CASE Halts(rec')
  BY <1>0, <1>2, <1>c DEF Halts, MergeTypeOK, Forward
<1>3. CASE Suspends(rec')
  <2>1. Effective' = Effective
    BY <1>0, <1>3 DEF Suspends, Effective, MergeTypeOK, Forward
  <2> QED
    BY <1>a, <2>1 DEF Decision
<1>4. CASE Reopens(rec')
  <2>1. Effective' = Effective
    BY <1>0, <1>4 DEF Reopens, Effective, MergeTypeOK, PhaseInv
  <2> QED
    BY <1>a, <2>1 DEF Decision
<1>5. ASSUME NEW m \in Member, Fails(rec', m)
      PROVE  UNCHANGED Contract!contractVars
  BY <1>0, <1>5, <1>c DEF Fails, FailureBatch, MergeTypeOK, Forward
<1>6. ASSUME NEW m \in Member, Settles(rec', m)
      PROVE  [Contract!ContractNext]_(Contract!contractVars)
  <2>1. rec.state \in Forward /\ rec'.state \in {"executing", "halted", "rolling"}
    BY <1>0, <1>6 DEF Settles, Outcome, MergeTypeOK, Forward
  <2> QED
    BY <2>1, <1>c, <1>d DEF Forward
<1>7. ASSUME NEW m \in Member, GivesUp(rec', m) PROVE Contract!ContractNext
  BY <1>0, <1>7, <1>d DEF GivesUp, MergeTypeOK, Forward
<1>8. ASSUME NEW m \in Member, Prepares(rec', m) \/ Passes(rec', m) \/ TurnsBack(rec', m)
      PROVE  UNCHANGED Contract!contractVars
  BY <1>0, <1>8, <1>b DEF Prepares, Passes, TurnsBack, MergeTypeOK
<1>9. CASE Proceeds(rec') \/ Awaits(rec') \/ Finalizes(rec')
  BY <1>0, <1>9, <1>c DEF Proceeds, Awaits, Finalizes, MergeTypeOK, Forward
<1>10. CASE Accepts(rec') \/ Publishes(rec') \/ Withdraws(rec')
  BY <1>0, <1>10, <1>b DEF Accepts, Publishes, Withdraws, Step, MergeTypeOK
<1>11. CASE Enters(rec')
  BY <1>0, <1>11, <1>d DEF Enters, MergeTypeOK
<1>12. CASE GoneBack(rec')
  <2>1. rec'.state = rec.state /\ rec'.origin = rec.origin
    BY <1>0, <1>12, MemberNames, StageNames DEF GoneBack, BackDone, MergeTypeOK
  <2> QED
    BY <1>b, <2>1
<1>13. CASE Completes(rec')
  <2>1. Decision = "forward" /\ Decision' = "completed"
    BY <1>0, <1>13 DEF Completes, Decision, Effective, MergeTypeOK
  <2>2. /\ \A m \in Member : Where[m] = Goal[m]
        /\ MembersSettled
    BY <1>13, SettledMembers DEF Completes, Where, Goal, InMerge
  <2>3. rec.cand <=> Moved
    BY <1>0, <1>13 DEF Completes, PublicationInv
  <2>4. Moved <=> \E m \in Member : Goal[m] = "result"
    BY DEF Moved, Goal
  <2>5. Published <=> rec.cand
    BY <1>0, <1>13 DEF Completes, PublicationInv, HeadInv, Effective, Published
  <2>6. Published = \E m \in Member : Goal[m] = "result"
    BY <2>3, <2>4, <2>5 DEF Published
  <2> QED
    BY <1>1, <2>1, <2>2, <2>6, ContractSteps, Zenon
<1>14. CASE Ends(rec')
  <2>1. Decision = "reverse" /\ Decision' = "aborted"
    BY <1>0, <1>14 DEF Ends, Decision, Effective, MergeTypeOK
  <2>2. \A m \in Member : Where[m] = "before"
    BY <1>14 DEF Ends, Where, InMerge
  <2>3. ~Published
    BY <1>0, <1>14 DEF Ends, MembersTurn, HeadInv, Effective, Published
  <2> QED
    BY <1>1, <2>1, <2>2, <2>3, ContractSteps, Zenon
<1> QED
  BY <1>2, <1>3, <1>4, <1>5, <1>6, <1>7, <1>8, <1>9, <1>10, <1>11, <1>12,
     <1>13, <1>14 DEF RecordStep

\* The lifecycle implements the contract, for any members and plans: the
\* evidence stands only over merged members, is withdrawn before any member
\* goes back, and the operation ends with everything merged or nothing.
THEOREM MergeRefinesContract == Spec => MergeImplementsContract
<1>1. Init => Contract!ContractInit
  <2> SUFFICES ASSUME Init PROVE Contract!ContractInit
    OBVIOUS
  <2>1. Decision = "forward"
    BY DEF Init, Decision, Effective
  <2>2. Where = [m \in Member |-> "before"]
    BY DEF Init, Where, InMerge
  <2>3. Goal \in [Member -> {"before", "result"}]
    BY DEF Goal
  <2>4. Published = FALSE
    BY DEF Init, Published
  <2> QED
    BY <2>1, <2>2, <2>3, <2>4, Zenon
    DEF Decision, Where, Goal, Published, Contract!ContractInit
<1>2. MergeInv /\ [Next]_vars => [Contract!ContractNext]_(Contract!contractVars)
  <2> SUFFICES ASSUME MergeInv, [Next]_vars
               PROVE  [Contract!ContractNext]_(Contract!contractVars)
    OBVIOUS
  <2>1. CASE UNCHANGED <<kind, changes, rec, repo, root>>
    BY <2>1, ContractSteps DEF Decision, Effective, Where, Goal, Published
  <2>2. ASSUME NEW m \in Member, Work(m) PROVE UNCHANGED Contract!contractVars
    <3>1. UNCHANGED <<Decision, Goal, Published>>
      BY <2>2 DEF Work, Decision, Effective, Goal, Published
    <3>2. PICK place \in InMerge : repo[m] \in InMerge /\ repo' = [repo EXCEPT ![m] = place]
      BY <2>2 DEF Work, InMerge
    <3>3. repo \in [Member -> {"before", "result"} \cup InMerge]
      BY DEF MergeInv, MergeTypeOK
    <3>4. UNCHANGED Where
      BY <3>2, <3>3 DEF Where
    <3> QED
      BY <3>1, <3>4, ContractSteps
  <2> QED
    BY <2>1, <2>2, Steps, ContractEffects, ContractRecords
<1> QED
  BY <1>1, <1>2, MergeInvariant, PTL
  DEF Spec, MergeImplementsContract, Contract!ContractSpec
=============================================================================
