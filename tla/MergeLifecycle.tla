---------------------------- MODULE MergeLifecycle ----------------------------
(***************************************************************************)
(* A coordinated merge across the members of a workspace: the durable      *)
(* record, the repositories it moves, and one command at a time driving    *)
(* it.  A command loops: it looks up what the record says comes next,      *)
(* observes the repositories, and either commits a new record or executes  *)
(* one physical step, whose intent is already in the record.  The process  *)
(* may die between any two of these, a physical step may fail with or      *)
(* without effect, and the user edits, resolves and disturbs repositories  *)
(* meanwhile.  Observing and committing are one action here: nothing the   *)
(* user does between the two changes what was committed.                   *)
(*                                                                         *)
(* Left out: a selected root, preservation, migrated publications, the     *)
(* archive, a resolution redone to another tree while it is being          *)
(* committed, and a Git call that stops half way.                          *)
(***************************************************************************)
EXTENDS Naturals, Sequences, FiniteSets

CONSTANTS
  Targets,      \* the selected members, in the order they are merged
  KindChoices,  \* what merging each member turns out to be
  ChangeSets,   \* which of "lock", "boundary" the candidate changes
  MaxDirty,     \* repositories disturbed at a time
  NoMember, NoAct

Member == {Targets[i] : i \in DOMAIN Targets}

ASSUME TargetsDistinct ==
  \A i, j \in DOMAIN Targets : Targets[i] = Targets[j] => i = j

ASSUME KindChoicesAssumption ==
  /\ Targets \in Seq(Member)
  /\ KindChoices \subseteq [Member -> {"verify", "ff", "merge", "conflict"}]
  /\ ChangeSets \subseteq SUBSET {"lock", "boundary"}

VARIABLES
  kind,     \* one of KindChoices
  changes,  \* one of ChangeSets
  rec,      \* the durable record
  repo,     \* where each member's branch and worktree are
  root,     \* the workspace root: its branch, its files and its index
  dirty,    \* repositories with a change that is not the merge's
  inv       \* the command under way; lost with its process

vars == <<kind, changes, rec, repo, root, dirty, inv>>

-----------------------------------------------------------------------------
(* The record, the repositories and the command. *)

Unstarted == {"planned", "failed", "unattempted"}
Integrated == {"fastforwarded", "merged", "continued"}
Successful == Integrated \cup {"uptodate"}
Untouched == Unstarted \cup {"uptodate"}
Terminal == {"aborted", "rolledback"}
InMerge == {"conflict", "edited", "resolved"}
EvidenceSteps == <<"commit", "boundary", "lock", "marker", "index",
                   "complete">>

Row == [state : Successful \cup Unstarted \cup Terminal \cup {"conflicted"},
        pending : {"none", "verify", "ff", "merge", "conflict", "resolve"},
        error : BOOLEAN,
        snap : {"none", "pristine", "edited"}]

Act == [on : {"member", "publish", "back"}, who : Member \cup {NoMember},
        what : {"ff", "merge", "conflict", "resolve", "reset", "evidence",
                "commit", "boundary", "lock", "marker", "index"}]

\* A member's name is none of the words a cursor or a journal may hold.
ASSUME NamesAssumption ==
  /\ NoMember \notin Member /\ NoAct \notin Act
  /\ Member \cap ({"none", "evidence", "root"}
                 \cup {EvidenceSteps[i] : i \in DOMAIN EvidenceSteps}) = {}

Idle == [req |-> "none", prepared |-> {}, tried |-> {}, here |-> {},
         flighted |-> FALSE, attempt |-> NoAct, failed |-> FALSE,
         act |-> NoAct]

Fresh(request) == [Idle EXCEPT !.req = request]

Position(m) == CHOOSE i \in DOMAIN Targets : Targets[i] = m
First(S) == CHOOSE m \in S : \A k \in S : Position(m) <= Position(k)
Last(S) == CHOOSE m \in S : \A k \in S : Position(m) >= Position(k)
Later(m) == {k \in Member : Position(k) > Position(m)}

At(m, place) == m \notin dirty /\ repo[m] = place

\* The bytes of the conflicting files as they are now.
LiveBytes(m) == IF repo[m] = "conflict" THEN "pristine" ELSE "edited"

HaltCause(r) ==
  \E m \in Member :
    \/ r.row[m].state = "failed"
    \/ r.row[m].state = "conflicted" /\ r.row[m].error

-----------------------------------------------------------------------------
(* What an observation of the repositories says. *)

\* The member is where a row with no pending action says it is.
NoDrift(m) ==
  LET state == rec.row[m].state IN
  /\ m \notin dirty
  /\ CASE state = "conflicted" -> repo[m] \in InMerge
       [] state \in Integrated -> repo[m] = "result"
       [] OTHER -> repo[m] = "before"

Ready(m) ==
  /\ NoDrift(m)
  /\ rec.row[m].state = "conflicted" => repo[m] = "resolved"

\* Mutant of Reconcile: a fast-forward is taken for done before it starts.
ReconcileEarly(m) ==
  LET pending == rec.row[m].pending IN
  IF m \in dirty THEN "ambiguous"
  ELSE CASE pending = "ff" -> "completed"
         [] pending # "ff" /\ repo[m] = "before" /\ pending # "resolve" ->
              "notstarted"
         [] repo[m] = "result" /\ pending \in {"merge", "resolve"} ->
              "completed"
         [] repo[m] = "resolved" /\ pending = "resolve" -> "notstarted"
         [] repo[m] \in InMerge /\ pending = "conflict" -> "conflict"
         [] OTHER -> "ambiguous"

\* How far the pending action of a member has got.
Reconcile(m) ==
  LET pending == rec.row[m].pending IN
  IF m \in dirty THEN "ambiguous"
  ELSE CASE repo[m] = "before" /\ pending # "resolve" -> "notstarted"
         [] repo[m] = "result" /\ pending \in {"ff", "merge", "resolve"} ->
              "completed"
         [] repo[m] = "resolved" /\ pending = "resolve" -> "notstarted"
         [] repo[m] \in InMerge /\ pending = "conflict" -> "conflict"
         [] OTHER -> "ambiguous"

MembersSettled ==
  \A m \in Member :
    /\ rec.row[m].state \in Successful
    /\ rec.row[m].pending = "none" /\ ~rec.row[m].error
    /\ NoDrift(m)

RootBaseline == root.head = "base" /\ ~root.lock /\ "root" \notin dirty

AcceptedInputs == MembersSettled /\ RootBaseline

PostEvidenceInputs == MembersSettled /\ "root" \notin dirty

\* Which of the candidate's files are in place.
Prefix ==
  LET lockDone == root.lock \/ "lock" \notin changes
      boundaryDone == root.boundary \/ "boundary" \notin changes
  IN CASE ~root.marker /\ ~root.lock /\ ~root.boundary -> "baseline"
       [] root.marker /\ ~root.lock /\ ~root.boundary -> "marker"
       [] root.marker /\ (root.lock \/ root.boundary)
            /\ lockDone /\ boundaryDone -> "boundary"
       [] root.marker /\ root.lock /\ ~root.boundary
            /\ ~boundaryDone -> "lock"
       [] OTHER -> "other"

Snapshot ==
  LET staging == Prefix = "boundary" \/ (Prefix = "marker" /\ changes = {})
  IN CASE Prefix = "other" \/ (root.integrity /\ ~staging) ->
            <<"other", "other">>
       [] Prefix # "other" /\ (root.integrity => staging) /\ ~root.index ->
            <<Prefix, "pre">>
       [] Prefix # "other" /\ root.integrity /\ staging /\ root.index ->
            <<Prefix, "staged">>
       [] OTHER -> <<"other", "other">>

\* Mutant of Resolution: the publication is complete before it is staged.
ResolutionUnstaged ==
  CASE Snapshot = <<"baseline", "pre">> -> "marker"
    [] Snapshot = <<"marker", "pre">> -> "lock"
    [] Snapshot = <<"lock", "pre">> -> "boundary"
    [] Snapshot[1] = "boundary" -> "complete"
    [] OTHER -> "ambiguous"

\* The next step of publishing the candidate.
Resolution ==
  CASE Snapshot = <<"baseline", "pre">> -> "marker"
    [] Snapshot = <<"marker", "pre">> ->
         IF "lock" \in changes THEN "lock"
         ELSE IF "boundary" \in changes THEN "boundary" ELSE "index"
    [] Snapshot = <<"lock", "pre">> -> "boundary"
    [] Snapshot = <<"boundary", "pre">> -> "index"
    [] Snapshot = <<"marker", "staged">> /\ changes = {} -> "complete"
    [] Snapshot = <<"boundary", "staged">> -> "complete"
    [] OTHER -> "ambiguous"

EvidenceBase == AcceptedInputs /\ Snapshot = <<"baseline", "pre">>

EvidenceFound == root.head = "evidence"

RecordedEvidence == rec.comp /\ EvidenceFound

\* The live root is exactly at the recorded step of the publication.
PublicationExact ==
  CASE rec.pub = "none" -> AcceptedInputs
    [] rec.pub = "preparing" ->
         /\ AcceptedInputs
         /\ rec.cand => Snapshot = <<"baseline", "pre">>
    [] rec.pub = "evidence" /\ ~rec.comp -> EvidenceBase
    [] rec.pub = "evidence" /\ rec.comp ->
         /\ PostEvidenceInputs /\ RecordedEvidence
         /\ Snapshot = <<"baseline", "pre">>
    [] rec.pub = "publishing" ->
         /\ PostEvidenceInputs /\ RecordedEvidence
         /\ Resolution # "ambiguous"
    [] rec.pub \in {"verifying", "complete"} ->
         IF rec.cand
           THEN /\ PostEvidenceInputs /\ RecordedEvidence
                /\ Resolution = "complete"
           ELSE AcceptedInputs

\* Mutant of BackForm: a resolved conflict passes for the recorded one.
BackFormResolved(m, row) ==
  CASE At(m, "before") -> "after"
    [] m \notin dirty /\ row.state = "conflicted" /\ repo[m] \in InMerge ->
         "before"
    [] At(m, "result") /\ row.state # "conflicted" -> "before"
    [] OTHER -> "ambiguous"

\* Where a member stands between its merged form and its form before.
BackForm(m, row) ==
  CASE At(m, "before") -> "after"
    [] At(m, "resolved") /\ row.state = "conflicted" -> "error"
    [] m \notin dirty /\ repo[m] \in {"conflict", "edited"}
         /\ row.state = "conflicted" ->
         IF row.snap = LiveBytes(m) THEN "before" ELSE "ambiguous"
    [] At(m, "result") /\ row.state # "conflicted" -> "before"
    [] OTHER -> "ambiguous"

\* Where the root stands at a step of withdrawing the evidence.
EvidenceForm(step) ==
  LET bare == ~root.boundary /\ ~root.lock
      odd == root.integrity /\ ~root.marker
      allBase == bare /\ ~root.marker /\ ~root.index
      files == root.marker \/ allBase
      Form(before, after) == IF before /\ ~after THEN "before"
                             ELSE IF after /\ ~before THEN "after"
                             ELSE "ambiguous"
  IN IF odd \/ (step # "commit" /\ root.head # "base") THEN "ambiguous"
     ELSE CASE step = "commit" ->
                 Form(root.head = "evidence" /\ files,
                      root.head = "base" /\ files)
            [] step = "boundary" ->
                 Form(root.boundary /\ root.marker, ~root.boundary /\ files)
            [] step = "lock" ->
                 Form(~root.boundary /\ root.lock /\ root.marker,
                      bare /\ (root.marker \/ ~root.index))
            [] step = "marker" -> Form(bare /\ root.marker,
                                       bare /\ ~root.marker)
            [] step = "index" ->
                 Form(bare /\ ~root.marker /\ root.index, allBase)
            [] step = "complete" -> Form(FALSE, allBase)

-----------------------------------------------------------------------------
(* What an observation leads to: a new record, a physical step, or the end *)
(* of the command with an error or an answer.                              *)

Commit(r) == [does |-> "commit", rec |-> r, act |-> NoAct]
Execute(a) == [does |-> "execute", rec |-> rec, act |-> a]
Return == [does |-> "return", rec |-> rec, act |-> NoAct]

Only(condition, result) == {IF condition THEN result ELSE Return}

\* The repositories fit no point of the record.
Ambiguous(origin) ==
  IF rec.state = "executing" /\ HaltCause(rec)
    THEN {Commit([rec EXCEPT !.state = "halted"])}
    ELSE Only(/\ origin = rec.state
              /\ rec.state = "rolling" => rec.back # "none",
              Commit([rec EXCEPT !.state = "recovery", !.origin = origin]))

\* The member failed: what was planned after it is not attempted.
FailureBatch(m, row) ==
  [rec EXCEPT !.state = "halted",
              !.row = [k \in Member |->
                 IF k = m THEN row
                 ELSE IF k \in Later(m) /\ rec.row[k].state = "planned"
                   THEN [rec.row[k] EXCEPT !.state = "unattempted"]
                   ELSE rec.row[k]]]

NoProgress(a) ==
  LET row == rec.row[a.who]
      failed == IF row.pending = "resolve"
                  THEN [row EXCEPT !.error = TRUE]
                  ELSE [row EXCEPT !.error = TRUE, !.state = "failed",
                                   !.snap = "none"]
  IN Only(inv.failed /\ rec.state = "executing",
          Commit(FailureBatch(a.who, failed)))

\* Mutant of NotStarted: an action is executed as often as it is seen undone.
NotStartedAgain(a) == {Execute(a)}

\* The step has not happened.  A command executes it once.
NotStarted(a) ==
  IF inv.attempt = a
    THEN IF a.on = "member" THEN NoProgress(a) ELSE {Return}
    ELSE Only(a \notin inv.tried, Execute(a))

Outcome(m, state, snap) ==
  [rec EXCEPT !.row[m] = [state |-> state, pending |-> "none",
                          error |-> FALSE, snap |-> snap]]

Completion(m) ==
  CASE rec.row[m].pending = "ff" -> "fastforwarded"
    [] rec.row[m].pending = "merge" -> "merged"
    [] rec.row[m].pending = "resolve" -> "continued"

\* Going back may begin only from forms it can represent.
EntryExact(r) ==
  /\ \A m \in Member :
       IF r.row[m].state \in Integrated \cup {"conflicted"}
         THEN BackForm(m, r.row[m]) \in {"before", "after"}
         ELSE At(m, "before")
  /\ r.cand /\ r.comp /\ ~r.undone => EvidenceForm("commit") # "ambiguous"

Enter(r) == Only(EntryExact(r), Commit([r EXCEPT !.state = "rolling"]))

-----------------------------------------------------------------------------
(* The facts observed for each kind of request. *)

Prepared(m) ==
  LET row == rec.row[m]
      pending == IF row.state = "conflicted" THEN "resolve" ELSE kind[m]
      failed == [row EXCEPT !.state = "failed", !.pending = "none",
                            !.error = TRUE, !.snap = "none"]
  IN {Commit(IF rec.state = "awaiting"
               THEN [rec EXCEPT !.state = "executing"]
               ELSE [rec EXCEPT !.row[m].pending = pending])}
     \cup Only(row.state # "conflicted" /\ rec.state = "executing",
               Commit(FailureBatch(m, failed)))

Preparation(m) ==
  IF ~NoDrift(m) THEN Ambiguous(rec.state)
  ELSE IF ~Ready(m) THEN {Return}
  ELSE Prepared(m)

ForwardAct(m) ==
  [on |-> "member", who |-> m, what |-> rec.row[m].pending]

Recorded(r) ==
  Commit(IF r.state = "halted" /\ ~HaltCause(r)
           THEN [r EXCEPT !.state = "executing"] ELSE r)

ForwardAction(m) ==
  LET found == Reconcile(m)
      pending == rec.row[m].pending
      snap == IF m \in inv.here THEN LiveBytes(m) ELSE "none"
  IN CASE found = "notstarted" /\ pending = "verify" ->
            {Recorded(Outcome(m, "uptodate", "none"))}
       [] found = "notstarted" /\ pending # "verify" ->
            NotStarted(ForwardAct(m))
       [] found = "conflict" /\ repo[m] # "resolved" ->
            {Recorded(Outcome(m, "conflicted", snap))}
       [] found = "completed" ->
            {Recorded(Outcome(m, Completion(m), "none"))}
       [] OTHER -> Ambiguous(rec.state)

\* Abort: what happened is recorded, what did not is given up.
AbortAction(m) ==
  LET found == Reconcile(m)
      pending == rec.row[m].pending
      Told(r) == IF rec.state = "halted" THEN Enter(r) ELSE {Commit(r)}
  IN CASE found = "notstarted" /\ pending = "verify" ->
            Told(Outcome(m, "uptodate", "none"))
       [] found = "notstarted" /\ pending # "verify" ->
            Enter([rec EXCEPT !.row[m].pending = "none"])
       [] found = "conflict" /\ repo[m] # "resolved" ->
            Told(Outcome(m, "conflicted", LiveBytes(m)))
       [] found = "completed" -> Told(Outcome(m, Completion(m), "none"))
       [] OTHER -> Ambiguous("rolling")

Step(step) == [rec EXCEPT !.pub = step]

PublishAct(what) == [on |-> "publish", who |-> NoMember, what |-> what]

Publication ==
  CASE rec.pub = "none" ->
         LET required == \E m \in Member : rec.row[m].state \in Integrated
         IN Only(AcceptedInputs,
                 Commit(Step(IF required THEN "preparing" ELSE "complete")))
    [] rec.pub = "preparing" /\ ~rec.cand ->
         IF AcceptedInputs THEN {Commit([rec EXCEPT !.cand = TRUE])}
         ELSE Ambiguous("finalizing")
    [] rec.pub = "preparing" /\ rec.cand ->
         IF ~AcceptedInputs THEN {Return}
         ELSE IF PublicationExact THEN {Commit(Step("evidence"))}
         ELSE Ambiguous("finalizing")
    [] rec.pub = "evidence" /\ ~rec.comp ->
         IF EvidenceBase THEN NotStarted(PublishAct("evidence"))
         ELSE IF PostEvidenceInputs /\ EvidenceFound
           THEN {Commit([rec EXCEPT !.comp = TRUE])}
           ELSE Ambiguous("finalizing")
    [] rec.pub = "evidence" /\ rec.comp ->
         IF PublicationExact THEN {Commit(Step("publishing"))}
         ELSE Ambiguous("finalizing")
    [] rec.pub = "publishing" ->
         IF ~PublicationExact
           THEN IF inv.attempt = NoAct THEN Ambiguous("finalizing")
                ELSE {Return}
           ELSE IF Resolution = "complete" THEN {Commit(Step("verifying"))}
           ELSE NotStarted(PublishAct(Resolution))
    [] rec.pub = "verifying" ->
         IF PublicationExact THEN {Commit(Step("complete"))}
         ELSE Ambiguous("finalizing")
    [] rec.pub = "complete" ->
         IF PublicationExact
           THEN {Commit([rec EXCEPT !.state = "completed"])}
           ELSE Ambiguous("finalizing")

\* Abort of an operation with no pending member.
Entry ==
  IF rec.state # "finalizing" THEN Enter(rec)
  ELSE IF rec.pub = "none" /\ ~rec.accepted
    THEN IF MembersSettled THEN Enter(rec) ELSE {Return}
  ELSE IF PublicationExact THEN Enter(rec)
  ELSE Only(/\ rec.pub = "evidence" /\ ~rec.comp
            /\ PostEvidenceInputs /\ EvidenceFound,
            Commit([rec EXCEPT !.comp = TRUE]))

\* Mutant of RollbackCursor: members go back while the evidence stands.
RollbackCursorLate ==
  LET left == {m \in Member : rec.row[m].state \notin Terminal}
  IN IF left # {} THEN Last(left)
     ELSE IF rec.cand /\ rec.comp /\ ~rec.undone THEN "evidence"
     ELSE "complete"

\* What goes back next: the evidence, then the members in reverse order.
RollbackCursor ==
  LET left == {m \in Member : rec.row[m].state \notin Terminal}
  IN IF rec.cand /\ rec.comp /\ ~rec.undone THEN "evidence"
     ELSE IF left # {} THEN Last(left)
     ELSE "complete"

\* What went back before the current step is still exactly there.
PrefixExact ==
  LET current == IF rec.back # "none" THEN rec.back ELSE RollbackCursor
      behind == IF current \in Member THEN Later(current)
                ELSE IF current = "complete" /\ rec.back = "none" THEN Member
                ELSE {}
  IN /\ rec.undone => EvidenceForm("complete") = "after"
     /\ \A m \in behind : rec.row[m].state \in Terminal => At(m, "before")

BackAct ==
  IF rec.back \in Member
    THEN [on |-> "back", who |-> rec.back,
          what |-> IF rec.row[rec.back].state = "conflicted"
                     THEN "conflict" ELSE "reset"]
    ELSE [on |-> "back", who |-> NoMember, what |-> rec.back]

\* The form of the step that is journalled.
PendingForm ==
  IF rec.back \in Member THEN BackForm(rec.back, rec.row[rec.back])
  ELSE EvidenceForm(rec.back)

NextEvidence(step) ==
  EvidenceSteps[1 + CHOOSE i \in 1..5 : EvidenceSteps[i] = step]

BackDone ==
  CASE rec.back \in Member ->
         LET row == rec.row[rec.back] IN
         [rec EXCEPT !.back = "none",
                     !.row[rec.back] = [row EXCEPT
                        !.pending = "none",
                        !.state = IF row.state = "conflicted" THEN "aborted"
                                  ELSE "rolledback"]]
    [] rec.back = "complete" ->
         [rec EXCEPT !.back = "none", !.undone = TRUE]
    [] OTHER -> [rec EXCEPT !.back = NextEvidence(@)]

CursorBegins ==
  LET m == RollbackCursor IN
  CASE m = "evidence" -> {Commit([rec EXCEPT !.back = "commit"])}
    [] m = "complete" -> {Commit([rec EXCEPT !.state = "aborted"])}
    [] m \in Member ->
         IF rec.row[m].state \in Untouched
           THEN Only(At(m, "before"),
                     Commit([rec EXCEPT !.row[m].state = "aborted"]))
           ELSE {Commit([rec EXCEPT !.back = m])}

Cursor ==
  IF inv.req # "abort" THEN {Return}
  ELSE IF rec.back = "none"
    THEN IF PrefixExact THEN CursorBegins ELSE {Return}
  ELSE IF ~PrefixExact THEN Ambiguous("rolling")
  ELSE CASE PendingForm = "before" -> NotStarted(BackAct)
         [] PendingForm = "after" -> {Commit(BackDone)}
         [] PendingForm = "error" -> {Return}
         [] PendingForm = "ambiguous" -> Ambiguous("rolling")

\* A forward origin is as the record says: the pending member at a point of
\* its action, every other where its row has it.
ForwardOriginExact ==
  LET pending == {m \in Member : rec.row[m].pending # "none"} IN
  /\ rec.origin = "awaiting" =>
       /\ pending = {}
       /\ \E m \in Member : rec.row[m].state = "conflicted"
                            /\ ~rec.row[m].error
  /\ rec.origin = "halted" => HaltCause(rec)
  /\ \A m \in Member :
       IF m \in pending
         THEN /\ Reconcile(m) # "ambiguous"
              /\ Reconcile(m) = "conflict" => repo[m] # "resolved"
         ELSE NoDrift(m)

\* Mutant of RecoveryExact: a member part-way through its action is refused.
RecoveryExactStrict ==
  /\ \A m \in Member : rec.row[m].pending = "none"
  /\ rec.origin \in {"executing", "awaiting", "halted"} =>
       ForwardOriginExact
  /\ rec.origin = "finalizing" =>
       IF rec.accepted THEN PublicationExact ELSE AcceptedInputs
  /\ rec.origin = "rolling" =>
       PrefixExact /\ PendingForm \in {"before", "after"}

RecoveryExact ==
  CASE rec.origin \in {"executing", "awaiting", "halted"} ->
         ForwardOriginExact
    [] rec.origin = "finalizing" ->
         IF rec.accepted THEN PublicationExact ELSE AcceptedInputs
    [] rec.origin = "rolling" ->
         PrefixExact /\ PendingForm \in {"before", "after"}

Recovery ==
  Only(/\ rec.origin = "rolling" => inv.req = "abort"
       /\ RecoveryExact,
       Commit([rec EXCEPT !.state = rec.origin, !.origin = "none"]))

-----------------------------------------------------------------------------
(* The dispatcher: what the record and the request ask for next. *)

Ask(what, m) == [kind |-> what, who |-> m]

ForwardOwner(m) ==
  \/ rec.row[m].state \in Unstarted
  \/ inv.req = "continue" /\ rec.row[m].state = "conflicted"

Unvisited(m) ==
  \/ rec.row[m].state \in Unstarted
  \/ /\ inv.req = "continue" /\ rec.row[m].state = "conflicted"
     /\ m \notin inv.prepared

\* A conflict this command has already come to is passed over.
Selected(owner) ==
  LET others == {m \in Later(owner) : Unvisited(m)} IN
  IF owner \notin inv.prepared \/ rec.row[owner].state # "conflicted"
    THEN Ask("preparation", owner)
  ELSE IF others # {} THEN Ask("preparation", First(others))
  ELSE Ask("await", NoMember)

Executing ==
  LET owners == {m \in Member : ForwardOwner(m)} IN
  IF inv.req = "abort" THEN Ask("entry", NoMember)
  ELSE IF owners # {} THEN Selected(First(owners))
  ELSE IF \E m \in Member : rec.row[m].state = "conflicted"
    THEN Ask("await", NoMember)
  ELSE Ask("complete", NoMember)

Stopped ==
  IF inv.req = "resume" THEN Ask("respond", NoMember)
  ELSE IF inv.req = "abort" THEN Ask("entry", NoMember)
  ELSE IF rec.state = "halted" THEN Ask("begin", NoMember)
  ELSE Ask("preparation",
           First({m \in Member : rec.row[m].state = "conflicted"}))

NextAction ==
  LET pending == {m \in Member : rec.row[m].pending # "none"}
  IN CASE rec.state \in {"completed", "aborted"} -> Ask("respond", NoMember)
       [] rec.state = "recovery" -> Ask("recovery", NoMember)
       [] rec.state = "rolling" -> Ask("cursor", NoMember)
       [] rec.state \notin {"completed", "aborted", "recovery", "rolling"}
            /\ pending # {} -> Ask("action", First(pending))
       [] rec.state = "executing" /\ pending = {} -> Executing
       [] rec.state \in {"awaiting", "halted"} /\ pending = {} -> Stopped
       [] rec.state = "finalizing" /\ pending = {} ->
            Ask(IF inv.req = "abort" THEN "entry"
                ELSE IF rec.accepted THEN "publication" ELSE "acceptance",
                NoMember)

Running == inv.req # "none" /\ inv.act = NoAct

\* After a commit the command stops at what it cannot take further.
StopsAfter(r, prepared) ==
  \/ r.state = "recovery"
  \/ /\ r.state = "halted"
     /\ \/ \E m \in prepared : /\ r.row[m].state = "failed" /\ r.row[m].error
                               /\ r.row[m].pending = "none"
        \/ \E a \in inv.tried : /\ a.on = "member" /\ r.row[a.who].error
                                /\ r.row[a.who].pending # "none"
  \/ r.state = "awaiting" /\ \E m \in prepared : r.row[m].state = "conflicted"

Conclude(results, prepared, flighted) ==
  \E result \in results :
    /\ rec' = result.rec
    /\ inv' = IF \/ result.does = "return"
                 \/ result.does = "commit"
                      /\ StopsAfter(result.rec, prepared)
                THEN Idle
                ELSE [inv EXCEPT !.prepared = prepared,
                                 !.flighted = flighted,
                                 !.attempt = NoAct, !.failed = FALSE,
                                 !.act = result.act]
    /\ UNCHANGED <<kind, changes, repo, root, dirty>>

Answer(what, results) ==
  /\ Running
  /\ NextAction.kind = what
  /\ Conclude(results, inv.prepared, inv.flighted)

-----------------------------------------------------------------------------
(* One action per kind of request. *)

Respond == Answer("respond", {Return})

ObserveRecovery == Answer("recovery", Recovery)

ObserveCursor == Answer("cursor", Cursor)

ObserveAction ==
  Answer("action",
         LET m == NextAction.who IN
         IF inv.req = "abort" THEN AbortAction(m) ELSE ForwardAction(m))

\* The first preparation of a continue asks every other member to be ready.
ObservePreparation ==
  LET m == NextAction.who
      counted == rec.state # "awaiting"
      again == counted /\ m \in inv.prepared
      first == inv.req = "continue" /\ ~inv.flighted
      refused == first /\ \E k \in Member \ {m} : ~Ready(k)
  IN /\ Running
     /\ NextAction.kind = "preparation"
     /\ Conclude(IF again \/ refused THEN {Return} ELSE Preparation(m),
                 IF counted THEN inv.prepared \cup {m} ELSE inv.prepared,
                 inv.flighted \/ first)

AwaitResolution ==
  Answer("await",
         Only(\A m \in Member :
                /\ rec.row[m].pending = "none" /\ ~rec.row[m].error
                /\ rec.row[m].state \in Successful \cup {"conflicted"},
              Commit([rec EXCEPT !.state = "awaiting"])))

BeginExecution ==
  Answer("begin", {Commit([rec EXCEPT !.state = "executing"])})

ParticipantsComplete ==
  Answer("complete", Only(MembersSettled,
                          Commit([rec EXCEPT !.state = "finalizing"])))

Acceptance ==
  Answer("acceptance", Only(AcceptedInputs,
                            Commit([rec EXCEPT !.accepted = TRUE])))

ObservePublication == Answer("publication", Publication)

RollbackEntry == Answer("entry", Entry)

\* The repositories once a physical step is done.
Effect(a) ==
  LET moved(place) == <<[repo EXCEPT ![a.who] = place], root>>
      rooted(r) == <<repo, r>>
  IN CASE a.on = "member" ->
            moved(IF a.what = "conflict" THEN "conflict" ELSE "result")
       [] a.on = "publish" /\ a.what = "evidence" ->
            rooted([root EXCEPT !.head = "evidence"])
       [] a.on = "publish" /\ a.what = "index" ->
            rooted([root EXCEPT !.integrity = TRUE, !.index = TRUE])
       [] a.on = "publish" /\ a.what \in {"marker", "lock", "boundary"} ->
            rooted([root EXCEPT ![a.what] = TRUE])
       [] a.on = "back" /\ a.who \in Member -> moved("before")
       [] a.on = "back" /\ a.what = "commit" ->
            rooted([root EXCEPT !.head = "base"])
       [] a.on = "back" /\ a.what = "marker" ->
            rooted([root EXCEPT !.marker = FALSE, !.integrity = FALSE])
       [] a.on = "back" /\ a.what \in {"boundary", "lock", "index"} ->
            rooted([root EXCEPT ![a.what] = FALSE])

\* The integrity file is written before the index, and restored before the
\* marker is removed.
Partial(a) ==
  CASE a.on = "publish" /\ a.what = "index" ->
         {<<repo, [root EXCEPT !.integrity = TRUE]>>}
    [] a.on = "back" /\ a.what = "marker" ->
         {<<repo, [root EXCEPT !.integrity = FALSE]>>}
    [] OTHER -> {}

\* The step is verified again right before it is taken.
Authorized(a) ==
  CASE a.on = "member" -> Reconcile(a.who) = "notstarted"
    [] a.on = "publish" ->
         IF a.what = "evidence" THEN EvidenceBase
         ELSE /\ PostEvidenceInputs /\ RecordedEvidence
              /\ Resolution = a.what
    [] a.on = "back" -> PrefixExact /\ PendingForm = "before"

ExecuteOwned ==
  /\ inv.act # NoAct
  /\ \E failed \in BOOLEAN :
       /\ ~failed => Authorized(inv.act)
       /\ inv' = [inv EXCEPT !.act = NoAct, !.attempt = inv.act,
                             !.failed = failed,
                             !.tried = @ \cup {inv.act},
                             !.here = IF inv.act.on = "member"
                                        THEN @ \cup {inv.act.who} ELSE @]
       /\ \E after \in
            (IF Authorized(inv.act) THEN {Effect(inv.act)} ELSE {})
            \cup (IF failed THEN {<<repo, root>>} ELSE {})
            \cup (IF failed /\ Authorized(inv.act) THEN Partial(inv.act)
                  ELSE {}) :
            /\ repo' = after[1]
            /\ root' = after[2]
  /\ UNCHANGED <<kind, changes, rec, dirty>>

ServiceStep ==
  \/ Respond \/ ObserveRecovery \/ ObserveCursor \/ ObserveAction
  \/ ObservePreparation \/ AwaitResolution \/ BeginExecution
  \/ ParticipantsComplete \/ Acceptance \/ ObservePublication
  \/ RollbackEntry \/ ExecuteOwned

-----------------------------------------------------------------------------
(* The user, and the end of the process. *)

Begin(request) ==
  /\ inv.req = "none"
  /\ rec.state \notin {"completed", "aborted"}
  /\ inv' = Fresh(request)
  /\ UNCHANGED <<kind, changes, rec, repo, root, dirty>>

Crash ==
  /\ inv.req # "none"
  /\ inv' = Idle
  /\ UNCHANGED <<kind, changes, rec, repo, root, dirty>>

\* The user edits a conflicted file, stages a resolution, or reopens it.
Work(m) ==
  /\ \E place \in InMerge :
       /\ <<repo[m], place>> \in {<<"conflict", "edited">>,
                                  <<"conflict", "resolved">>,
                                  <<"edited", "resolved">>,
                                  <<"resolved", "edited">>}
       /\ repo' = [repo EXCEPT ![m] = place]
  /\ UNCHANGED <<kind, changes, rec, root, dirty, inv>>

\* A change that is not the merge's appears in a repository or goes away.
Disturb(where) ==
  /\ dirty' = IF where \in dirty THEN dirty \ {where} ELSE dirty \cup {where}
  /\ Cardinality(dirty') <= MaxDirty
  /\ UNCHANGED <<kind, changes, rec, repo, root, inv>>

Init ==
  /\ kind \in KindChoices
  /\ changes \in ChangeSets
  /\ rec = [state |-> "executing", origin |-> "none",
            row |-> [m \in Member |-> [state |-> "planned",
                                       pending |-> "none", error |-> FALSE,
                                       snap |-> "none"]],
            accepted |-> FALSE, pub |-> "none", cand |-> FALSE,
            comp |-> FALSE, undone |-> FALSE, back |-> "none"]
  /\ repo = [m \in Member |-> "before"]
  /\ root = [head |-> "base", marker |-> FALSE, integrity |-> FALSE,
             lock |-> FALSE, boundary |-> FALSE, index |-> FALSE]
  /\ dirty = {}
  /\ inv = Fresh("resume")

Next ==
  \/ ServiceStep
  \/ Crash
  \/ \E request \in {"continue", "abort"} : Begin(request)
  \/ \E m \in Member : Work(m)
  \/ \E where \in Member \cup {"root"} : Disturb(where)

Spec == Init /\ [][Next]_vars

\* A command is a loop of its own; nothing else holds it up.
FairSpec == Spec /\ WF_vars(ServiceStep)

-----------------------------------------------------------------------------
(* Properties. *)

MergeTypeOK ==
  /\ kind \in KindChoices
  /\ changes \in ChangeSets
  /\ rec \in [state : {"executing", "awaiting", "halted", "finalizing",
                       "rolling", "completed", "aborted", "recovery"},
              origin : {"none", "executing", "awaiting", "halted",
                        "finalizing", "rolling"},
              row : [Member -> Row],
              accepted : BOOLEAN,
              pub : {"none", "preparing", "evidence", "publishing",
                     "verifying", "complete"},
              cand : BOOLEAN, comp : BOOLEAN, undone : BOOLEAN,
              back : {"none"} \cup Member
                     \cup {EvidenceSteps[i] : i \in DOMAIN EvidenceSteps}]
  /\ repo \in [Member -> {"before", "result"} \cup InMerge]
  /\ root \in [head : {"base", "evidence"}, marker : BOOLEAN,
               integrity : BOOLEAN, lock : BOOLEAN, boundary : BOOLEAN,
               index : BOOLEAN]
  /\ dirty \subseteq Member \cup {"root"}
  /\ inv \in [req : {"none", "resume", "continue", "abort"},
              prepared : SUBSET Member, tried : SUBSET Act,
              here : SUBSET Member, flighted : BOOLEAN,
              attempt : Act \cup {NoAct}, failed : BOOLEAN,
              act : Act \cup {NoAct}]

\* Where a member may be, given what the record says of it.
Places(m) ==
  LET row == rec.row[m]
      settled == CASE row.state = "conflicted" -> InMerge
                   [] row.state \in Integrated -> {"result"}
                   [] OTHER -> {"before"}
      reached == CASE row.pending \in {"ff", "merge", "resolve"} ->
                        {"result"}
                   [] row.pending = "conflict" -> InMerge
                   [] OTHER -> {}
  IN settled \cup reached \cup (IF rec.back = m THEN {"before"} ELSE {})

(* However the process dies and whatever a failing Git call did, the       *)
(* record accounts for every repository: a member is where its row or its  *)
(* journalled action puts it, and the root carries evidence only while the *)
(* record is committing it or knows its commit (the write-ahead order of   *)
(* v1_lifecycle/service.rs).                                               *)
RecordAccountsForRepos ==
  /\ \A m \in Member : repo[m] \in Places(m)
  /\ root.head = "evidence" =>
       /\ rec.cand /\ ~rec.undone
       /\ rec.comp \/ rec.pub = "evidence"
  /\ root.marker \/ root.integrity \/ root.lock \/ root.boundary
       \/ root.index => rec.comp /\ ~rec.undone

(* A merge that ended left no half of itself in the workspace root: the    *)
(* files, the index and the evidence commit are all the candidate's after  *)
(* completion (if a member moved) and all the old ones after an abort.     *)
NoResidue ==
  LET moved == \E m \in Member : kind[m] # "verify"
      put == [root EXCEPT !.head = "evidence", !.marker = TRUE,
                          !.integrity = TRUE, !.index = TRUE,
                          !.lock = "lock" \in changes,
                          !.boundary = "boundary" \in changes]
      bare == [root EXCEPT !.head = "base", !.marker = FALSE,
                           !.integrity = FALSE, !.index = FALSE,
                           !.lock = FALSE, !.boundary = FALSE]
  IN /\ rec.state = "completed" => root = IF moved THEN put ELSE bare
     /\ rec.state = "aborted" => root = bare

(* A conflict the user has resolved is never thrown away: the merge either *)
(* commits the resolution or leaves it to the user                         *)
(* (v1_rollback/participants.rs, exact_native_conflict).                   *)
ResolutionKept ==
  [][\A m \in Member : repo[m] = "resolved" => repo'[m] # "before"]_vars

(* A command always comes to an end, however physical steps fail and       *)
(* whatever the user does to the repositories while it runs: it prepares a *)
(* member once, executes an action once, and stops at a recovery           *)
(* (v1_lifecycle/authority/dispatcher/invocation.rs).                      *)
InvocationEnds == (inv.req # "none") ~> (inv.req = "none")

\* What the user was asked to put right has been put right.
Corrected ==
  /\ dirty = {}
  /\ \A m \in Member :
       /\ rec.row[m].pending = "conflict" => repo[m] # "resolved"
       /\ rec.row[m].pending = "resolve" => repo[m] \in {"resolved", "result"}
       /\ rec.back = m /\ rec.row[m].state = "conflicted" =>
            \/ repo[m] = "before"
            \/ repo[m] # "resolved" /\ rec.row[m].snap = LiveBytes(m)

(* Once what was reported is put right, a command may leave the recovery   *)
(* state (dev-docs/GWZRequirements.md: it "MUST permit a fresh guarded     *)
(* continue or abort after the reported manual correction makes the        *)
(* operation exactly classifiable").                                       *)
RecoveryExits == rec.state = "recovery" /\ Corrected => RecoveryExact

(* The same, except where the evidence commit was made and not recorded:   *)
(* the only place where the corrected operation stays in recovery.         *)
RecoveryReopens ==
  /\ rec.state = "recovery" /\ Corrected
  /\ ~(rec.pub = "evidence" /\ ~rec.comp /\ root.head = "evidence")
  => RecoveryExact

(* An edit the user made to a conflicted file is never thrown away by an   *)
(* abort (observe/forward.rs: the snapshot rule keeps a rollback from      *)
(* "silently discarding that edit instead of refusing").                   *)
NoEditDiscarded ==
  [][\A m \in Member : repo[m] = "edited" => repo'[m] # "before"]_vars

\* The operation as an observer of the repositories sees it.
Effective == IF rec.state = "recovery" THEN rec.origin ELSE rec.state

Contract ==
  INSTANCE MergeContract WITH
    decision <- CASE Effective \in {"completed", "aborted"} -> Effective
                  [] Effective = "rolling" -> "reverse"
                  [] OTHER -> "forward",
    at <- [m \in Member |->
             IF repo[m] \in InMerge THEN "conflict" ELSE repo[m]],
    goal <- [m \in Member |->
               IF kind[m] = "verify" THEN "before" ELSE "result"],
    published <- root.head = "evidence"

(* The lifecycle keeps the contract of a coordinated merge.                *)
MergeImplementsContract == Contract!ContractSpec
=============================================================================
