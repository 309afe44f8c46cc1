----------------------------- MODULE LocalFamily -----------------------------
(***************************************************************************)
(* A local family: an original workspace (the root, which holds the index  *)
(* of its lanes) and the lanes cloned from it (each holds a pointer to the *)
(* root and the marker of its allocation).  Processes create, keep, delete *)
(* and disband under an advisory lock that lies beside the index; any of   *)
(* them may be killed, or stop on an error, between two effects, and what  *)
(* it wrote stays as it is.                                                *)
(*                                                                         *)
(* A lane's name stands for its path.  Reads of one workspace's metadata   *)
(* are one step (a publication is one rename); each write is a step of its *)
(* own.  Hazards an inspection finds are among the reasons to Abandon.     *)
(***************************************************************************)
EXTENDS Integers, FiniteSets

CONSTANTS
  Workspace,        \* paths, siblings of one another
  Original,         \* the workspaces that stand before any clone
  Process,          \* one command at a time each
  Id,               \* family ids and allocation ids
  MaxCommands,      \* bound: commands started
  Nobody, NoId

ASSUME LocalFamilyAssumption ==
  /\ Original \subseteq Workspace
  /\ Id \subseteq Nat /\ NoId \notin Id
  /\ Nobody \notin Process /\ MaxCommands \in Nat

VARIABLES
  tree,             \* what stands at a path: nothing, an empty directory,
                    \* a copy without its manifest, one of a source that
                    \* did not stand, a workspace
  index,            \* .gwz/local-family.yml
  pointer,          \* .gwz/family-root
  marker,           \* .gwz/local-clone-allocation
  holder,           \* who holds .gwz/local-family.lock
  proc,             \* the command of each process
  started           \* how many commands were started

familyVars == <<tree, index, pointer, marker, holder, proc, started>>

NoIndex == [family |-> NoId]
NoRow == [state |-> "none"]
NoPointer == [family |-> NoId]
NoMarker == [family |-> NoId]
NoCommand == [step |-> "idle"]

Steps == {"seek", "lock", "locked",
          "reserve", "allocate", "copy", "mark", "point", "check", "publish",
          "ready",
          "remove", "removeMetadata", "removeDirectory",
          "strip", "detach", "unmark", "unrow"}

Trees == {"absent", "empty", "partial", "torn", "whole"}

MemberRow == {NoRow} \cup
       [state : {"creating", "ready", "disposing"}, allocation : Id]

FamilyTypeOK ==
  /\ tree \in [Workspace -> Trees]
  /\ index \in [Workspace -> {NoIndex} \cup
                  [family : Id, rows : [Workspace -> MemberRow]]]
  /\ pointer \in [Workspace -> {NoPointer} \cup
                    [family : Id, root : Workspace]]
  /\ marker \in [Workspace -> {NoMarker} \cup [family : Id, allocation : Id]]
  /\ holder \in [Workspace -> Process \cup {Nobody}]
  /\ proc \in [Process -> {NoCommand} \cup
       [command : {"create", "keep", "delete", "disband"},
        at : Workspace, lane : Workspace, step : Steps, root : Workspace,
        placed : Workspace, seen : Id \cup {NoId}, founded : BOOLEAN,
        allocation : Id \cup {NoId}, todo : SUBSET Workspace]]
  /\ started \in 0..MaxCommands

FamilyInit ==
  /\ tree = [w \in Workspace |-> IF w \in Original THEN "whole" ELSE "absent"]
  /\ index = [w \in Workspace |-> NoIndex]
  /\ pointer = [w \in Workspace |-> NoPointer]
  /\ marker = [w \in Workspace |-> NoMarker]
  /\ holder = [w \in Workspace |-> Nobody]
  /\ proc = [p \in Process |-> NoCommand]
  /\ started = 0

-----------------------------------------------------------------------------
(* The store's readings.                                                   *)

HasIndex(w) == index[w] # NoIndex
HasPointer(w) == pointer[w] # NoPointer
InFamily(w) == HasIndex(w) \/ HasPointer(w)
Members(root) == {w \in Workspace : index[root].rows[w] # NoRow}

\* The root a workspace belongs to: itself, or what its pointer names.
Located(w) == IF HasPointer(w) THEN pointer[w].root ELSE w

\* Metadata that names no family, or exactly one that stands.
Locatable(w) ==
  /\ ~(HasIndex(w) /\ HasPointer(w))
  /\ HasPointer(w) => index[pointer[w].root].family = pointer[w].family

\* This family's pointer, by its id, and this row's marker.
PointerOf(root, w) == HasPointer(w) /\ pointer[w].family = index[root].family
MarkerOf(root, w) ==
  marker[w] = [family |-> index[root].family,
               allocation |-> index[root].rows[w].allocation]

\* Minted ids are 16 random bytes, never checked against those in use: that
\* they do not collide is an assumption, kept by taking one nobody holds.
IdsOf(f) == {f[w].family : w \in Workspace}
InUse ==
  IdsOf(index) \cup IdsOf(pointer) \cup IdsOf(marker)
  \cup {marker[w].allocation : w \in {v \in Workspace : marker[v] # NoMarker}}
  \cup UNION {{index[w].rows[v].allocation : v \in Members(w)}
                : w \in {v \in Workspace : HasIndex(v)}}
  \cup UNION {{proc[p].seen, proc[p].allocation}
                : p \in {q \in Process : proc[q] # NoCommand}}
FreshId == CHOOSE i \in Id \ InUse : \A j \in Id \ InUse : i <= j

-----------------------------------------------------------------------------
(* Steps of a process.                                                     *)

Doing(p, command, step) == proc[p] # NoCommand /\ proc[p].command = command
                        /\ proc[p].step = step

Goto(p, step) == proc' = [proc EXCEPT ![p].step = step]

Issue(p, command) ==
  /\ proc[p] = NoCommand /\ started < MaxCommands
  /\ proc' = [proc EXCEPT ![p] = command]
  /\ started' = started + 1
  /\ UNCHANGED <<tree, index, pointer, marker, holder>>

\* The session is dropped, its lock with it.
End(p) ==
  /\ proc' = [proc EXCEPT ![p] = NoCommand]
  /\ holder' = [w \in Workspace |->
                  IF holder[w] = p THEN Nobody ELSE holder[w]]

SetRow(root, w, row) ==
  index' = [index EXCEPT ![root].rows[w] = row]

Command(command, at, lane) ==
  [command |-> command, at |-> at, lane |-> lane, step |-> "seek",
   root |-> at, placed |-> at, seen |-> NoId, founded |-> FALSE,
   allocation |-> NoId, todo |-> {}]

\* `place`: the root and the family are read before the lock is asked for.
StartCreate(p, w, lane) ==
  /\ tree[w] = "whole" /\ Locatable(w) /\ lane \notin {w, Located(w)}
  /\ HasPointer(w) => index[Located(w)].rows[w].state = "ready"
  /\ Issue(p, [Command("create", w, lane) EXCEPT
                 !.placed = Located(w), !.seen = index[Located(w)].family])

\* `open` and `disband` read the family first, and refuse a lane that holds
\* the working directory.
StartOther(p, command, w, lane) ==
  /\ tree[w] = "whole" /\ Locatable(w) /\ InFamily(w)
  /\ (command = "disband") <=> (lane = w)
  /\ Issue(p, Command(command, w, lane))

\* `try_lock`: the workspace is located anew at every attempt.
Seek(p) ==
  /\ proc[p].step = "seek"
  /\ Locatable(proc[p].at) /\ tree[Located(proc[p].at)] # "absent"
  /\ proc' = [proc EXCEPT ![p].root = Located(proc[p].at),
                          ![p].step = "lock"]
  /\ UNCHANGED <<tree, index, pointer, marker, holder, started>>

\* Mutant of TryLock: a lock that is held is granted again.
TryLockShared(p) ==
  LET root == proc[p].root IN
  /\ proc[p].step = "lock" /\ tree[root] # "absent"
  /\ holder' = [holder EXCEPT ![root] = p]
  /\ Goto(p, "locked")
  /\ UNCHANGED <<tree, index, pointer, marker, started>>

\* The lock is taken, or busy and asked for again (`--wait`).
TryLock(p) ==
  LET root == proc[p].root IN
  /\ proc[p].step = "lock" /\ tree[root] # "absent"
  /\ IF holder[root] = Nobody
       THEN /\ holder' = [holder EXCEPT ![root] = p]
            /\ Goto(p, "locked")
       ELSE /\ Goto(p, "seek")
            /\ UNCHANGED holder
  /\ UNCHANGED <<tree, index, pointer, marker, started>>

\* A step that fails, a refusal, a cancellation, a wait that expires, or the
\* end of the process: nothing is undone.
Abandon(p) ==
  /\ proc[p] # NoCommand
  /\ End(p)
  /\ UNCHANGED <<tree, index, pointer, marker, started>>

-----------------------------------------------------------------------------
(* Create.                                                                 *)

\* No index at the locked root: `found`, under the id `place` saw if it saw
\* one.
Found(p) ==
  LET root == proc[p].root IN
  /\ Doing(p, "create", "locked")
  /\ ~HasIndex(root) /\ ~HasPointer(root) /\ tree[root] # "absent"
  /\ index' = [index EXCEPT ![root] =
                 [family |-> IF proc[p].seen # NoId THEN proc[p].seen
                                                    ELSE FreshId,
                  rows |-> [w \in Workspace |-> NoRow]]]
  /\ proc' = [proc EXCEPT ![p].founded = TRUE, ![p].step = "reserve"]
  /\ UNCHANGED <<tree, pointer, marker, holder, started>>

Join(p) ==
  /\ Doing(p, "create", "locked") /\ HasIndex(proc[p].root)
  /\ Goto(p, "reserve")
  /\ UNCHANGED <<tree, index, pointer, marker, holder, started>>

\* Admission and the `creating` row.
Reserve(p) ==
  LET c == proc[p] IN
  /\ Doing(p, "create", "reserve")
  /\ tree[c.lane] \in {"absent", "empty"} /\ tree[c.at] # "absent"
  /\ HasIndex(c.root) /\ c.lane # c.root /\ c.lane \notin Members(c.root)
  /\ SetRow(c.root, c.lane, [state |-> "creating", allocation |-> FreshId])
  /\ proc' = [proc EXCEPT ![p].allocation = FreshId, ![p].step = "allocate"]
  /\ UNCHANGED <<tree, pointer, marker, holder, started>>

\* A create that founded the family and reserved nothing removes the index.
Unfound(p) ==
  LET root == proc[p].root IN
  /\ Doing(p, "create", "reserve") /\ proc[p].founded
  /\ HasIndex(root) /\ \A w \in Members(root) : ~PointerOf(root, w)
  /\ index' = [index EXCEPT ![root] = NoIndex]
  /\ End(p)
  /\ UNCHANGED <<tree, pointer, marker, started>>

AllocateDestination(p) ==
  LET lane == proc[p].lane IN
  /\ Doing(p, "create", "allocate") /\ tree[lane] \in {"absent", "empty"}
  /\ tree' = [tree EXCEPT ![lane] = "empty"]
  /\ Goto(p, "copy")
  /\ UNCHANGED <<index, pointer, marker, holder, started>>

\* The copier admits an empty directory only, creates every file anew, and
\* leaves the manifest out.  What it copies of a tree that is being removed is
\* torn.
CopyTree(p) ==
  LET c == proc[p] IN
  /\ Doing(p, "create", "copy") /\ tree[c.lane] = "empty"
  /\ tree[c.at] # "absent"
  /\ tree' = [tree EXCEPT ![c.lane] =
                IF tree[c.at] = "whole" THEN "partial" ELSE "torn"]
  /\ Goto(p, "mark")
  /\ UNCHANGED <<index, pointer, marker, holder, started>>

\* `install_pointer`: its checks and the marker, then the pointer.
InstallMarker(p) ==
  LET c == proc[p] IN
  /\ Doing(p, "create", "mark")
  /\ HasIndex(c.root) /\ index[c.root].rows[c.lane].state = "creating"
  /\ tree[c.lane] # "absent" /\ ~HasIndex(c.lane)
  /\ HasPointer(c.lane) => PointerOf(c.root, c.lane)
  /\ marker' = [marker EXCEPT ![c.lane] =
                  [family |-> index[c.root].family,
                   allocation |-> index[c.root].rows[c.lane].allocation]]
  /\ Goto(p, "point")
  /\ UNCHANGED <<tree, index, pointer, holder, started>>

InstallPointer(p) ==
  LET c == proc[p] IN
  /\ Doing(p, "create", "point") /\ tree[c.lane] # "absent"
  /\ pointer' = [pointer EXCEPT ![c.lane] =
                   [family |-> marker[c.lane].family, root |-> c.root]]
  /\ Goto(p, "check")
  /\ UNCHANGED <<tree, index, marker, holder, started>>

\* The destination's pointer against the placed root, and the source again.
CheckDestination(p) ==
  LET c == proc[p] IN
  /\ Doing(p, "create", "check")
  /\ HasIndex(c.root) /\ ~HasIndex(c.lane)
  /\ pointer[c.lane] = [family |-> index[c.root].family, root |-> c.placed]
  /\ tree[c.at] = "whole"
  /\ Goto(p, "publish")
  /\ UNCHANGED <<tree, index, pointer, marker, holder, started>>

PublishManifest(p) ==
  LET lane == proc[p].lane IN
  /\ Doing(p, "create", "publish") /\ tree[lane] # "absent"
  /\ tree' = [tree EXCEPT ![lane] = IF @ = "partial" THEN "whole" ELSE @]
  /\ Goto(p, "ready")
  /\ UNCHANGED <<index, pointer, marker, holder, started>>

MarkReady(p) ==
  LET c == proc[p]
      row == index[c.root].rows[c.lane]
  IN
  /\ Doing(p, "create", "ready") /\ HasIndex(c.root)
  /\ row = [state |-> "creating", allocation |-> c.allocation]
  /\ SetRow(c.root, c.lane, [row EXCEPT !.state = "ready"])
  /\ End(p)
  /\ UNCHANGED <<tree, pointer, marker, started>>

-----------------------------------------------------------------------------
(* Dispose and disband.                                                    *)

\* The locked truth: the index stands and has the row.
Opened(p) == HasIndex(proc[p].root) /\ proc[p].lane \in Members(proc[p].root)

\* `--keep` detaches whatever stands; a delete detaches a lane that is gone.
OpenDetach(p) ==
  /\ \/ Doing(p, "keep", "locked")
     \/ Doing(p, "delete", "locked") /\ tree[proc[p].lane] = "absent"
  /\ Opened(p)
  /\ Goto(p, "detach")
  /\ UNCHANGED <<tree, index, pointer, marker, holder, started>>

\* `classify_target` of a lane that stands: ready, whole in its metadata.
Disposable(root, w) ==
  /\ index[root].rows[w].state = "ready" /\ tree[w] # "absent"
  /\ ~HasIndex(w)
  /\ pointer[w] = [family |-> index[root].family, root |-> root]
  /\ MarkerOf(root, w)

\* Mutant of MarkDisposing: the removal begins under a `ready` row.
MarkDisposingLater(p) ==
  LET c == proc[p] IN
  /\ Doing(p, "delete", "locked") /\ Opened(p) /\ Disposable(c.root, c.lane)
  /\ Goto(p, "remove")
  /\ UNCHANGED <<tree, index, pointer, marker, holder, started>>

\* The row is written before anything is removed.
MarkDisposing(p) ==
  LET c == proc[p] IN
  /\ Doing(p, "delete", "locked") /\ Opened(p) /\ Disposable(c.root, c.lane)
  /\ index' = [index EXCEPT ![c.root].rows[c.lane].state = "disposing"]
  /\ Goto(p, "remove")
  /\ UNCHANGED <<tree, pointer, marker, holder, started>>

\* `remove_tree` in name order: .git, then .gwz and its lock file, then the
\* rest and the directory, which must be empty by then.
RemoveRepository(p) ==
  /\ Doing(p, "delete", "remove") /\ tree[proc[p].lane] # "absent"
  /\ tree' = [tree EXCEPT ![proc[p].lane] = "partial"]
  /\ Goto(p, "removeMetadata")
  /\ UNCHANGED <<index, pointer, marker, holder, started>>

Bare(w) ==
  /\ index' = [index EXCEPT ![w] = NoIndex]
  /\ pointer' = [pointer EXCEPT ![w] = NoPointer]
  /\ marker' = [marker EXCEPT ![w] = NoMarker]
  /\ holder' = [holder EXCEPT ![w] = Nobody]

RemoveMetadata(p) ==
  /\ Doing(p, "delete", "removeMetadata")
  /\ Bare(proc[p].lane)
  /\ Goto(p, "removeDirectory")
  /\ UNCHANGED <<tree, started>>

RemoveDirectory(p) ==
  LET lane == proc[p].lane IN
  /\ Doing(p, "delete", "removeDirectory")
  /\ ~InFamily(lane) /\ marker[lane] = NoMarker /\ holder[lane] = Nobody
  /\ tree' = [tree EXCEPT ![lane] = "absent"]
  /\ Goto(p, "detach")
  /\ UNCHANGED <<index, pointer, marker, holder, started>>

OpenDisband(p) ==
  LET root == proc[p].root IN
  /\ Doing(p, "disband", "locked") /\ HasIndex(root)
  /\ proc' = [proc EXCEPT ![p].todo = Members(root), ![p].step = "strip"]
  /\ UNCHANGED <<tree, index, pointer, marker, holder, started>>

\* The next member of a disband.
NextMember(p, w) ==
  /\ Doing(p, "disband", "strip") /\ w \in proc[p].todo
  /\ proc' = [proc EXCEPT ![p].todo = @ \ {w}, ![p].lane = w,
                          ![p].step = "detach"]
  /\ UNCHANGED <<tree, index, pointer, marker, holder, started>>

\* `remove_pointer`: the pointer if it is this family's, then the marker if it
\* is this row's.
RemovePointer(p) ==
  LET c == proc[p] IN
  /\ c.step = "detach" /\ Opened(p)
  /\ pointer' = IF PointerOf(c.root, c.lane)
                  THEN [pointer EXCEPT ![c.lane] = NoPointer] ELSE pointer
  /\ Goto(p, "unmark")
  /\ UNCHANGED <<tree, index, marker, holder, started>>

RemoveMarker(p) ==
  LET c == proc[p] IN
  /\ c.step = "unmark" /\ Opened(p)
  /\ marker' = IF MarkerOf(c.root, c.lane)
                 THEN [marker EXCEPT ![c.lane] = NoMarker] ELSE marker
  /\ Goto(p, IF c.command = "disband" THEN "strip" ELSE "unrow")
  /\ UNCHANGED <<tree, index, pointer, holder, started>>

\* Both refuse to strand a pointer of this family.
RemoveRow(p) ==
  LET c == proc[p] IN
  /\ c.step = "unrow" /\ Opened(p) /\ ~PointerOf(c.root, c.lane)
  /\ SetRow(c.root, c.lane, NoRow)
  /\ End(p)
  /\ UNCHANGED <<tree, pointer, marker, started>>

Disband(p) ==
  LET root == proc[p].root IN
  /\ Doing(p, "disband", "strip") /\ proc[p].todo = {} /\ HasIndex(root)
  /\ \A w \in Members(root) : ~PointerOf(root, w)
  /\ index' = [index EXCEPT ![root] = NoIndex]
  /\ End(p)
  /\ UNCHANGED <<tree, pointer, marker, started>>

-----------------------------------------------------------------------------
\* The user removes a lane by hand, while no command works on it.
Vanish(w) ==
  /\ w \notin Original /\ tree[w] # "absent" /\ ~HasIndex(w)
  /\ \A p \in Process :
       proc[p] # NoCommand => w \notin {proc[p].at, proc[p].lane}
  /\ tree' = [tree EXCEPT ![w] = "absent"]
  /\ Bare(w)
  /\ UNCHANGED <<proc, started>>

CreateStep(p) ==
  \/ Found(p) \/ Join(p) \/ Reserve(p) \/ Unfound(p) \/ AllocateDestination(p)
  \/ CopyTree(p) \/ InstallMarker(p) \/ InstallPointer(p)
  \/ CheckDestination(p) \/ PublishManifest(p) \/ MarkReady(p)

RemovalStep(p) ==
  \/ OpenDetach(p) \/ MarkDisposing(p) \/ RemoveRepository(p)
  \/ RemoveMetadata(p) \/ RemoveDirectory(p) \/ OpenDisband(p)
  \/ (\E w \in Workspace : NextMember(p, w))
  \/ RemovePointer(p) \/ RemoveMarker(p) \/ RemoveRow(p) \/ Disband(p)

FamilyNext ==
  \/ \E p \in Process, w, lane \in Workspace :
       \/ StartCreate(p, w, lane)
       \/ \E command \in {"keep", "delete", "disband"} :
            StartOther(p, command, w, lane)
  \/ \E p \in Process :
       \/ Seek(p) \/ TryLock(p) \/ Abandon(p)
       \/ CreateStep(p) \/ RemovalStep(p)
  \/ \E w \in Workspace : Vanish(w)

FamilySpec == FamilyInit /\ [][FamilyNext]_familyVars

-----------------------------------------------------------------------------
\* Every pointer names a root whose index has a row for the workspace that
\* holds it, and beside it lies the marker of that row, whichever effect was
\* the last before a command ended: `install_pointer` writes row, marker,
\* pointer and `remove_pointer`, `RemoveRow` and `Disband` undo them in the
\* reverse order.  A pointer without its row could not be removed any more.
NoStrandedPointer ==
  \A w \in Workspace : HasPointer(w) =>
    LET root == pointer[w].root IN
    /\ index[root].family = pointer[w].family
    /\ w \in Members(root) /\ MarkerOf(root, w)

\* A `ready` row whose own marker stands at its path means a whole workspace:
\* `install` publishes the manifest before it marks the row, `dispose` marks
\* the row before it removes a file, and no copy of a source that was being
\* removed gets past `recheck_source`.
ReadyIsWhole ==
  \A root, w \in Workspace :
    (/\ HasIndex(root) /\ w \in Members(root)
     /\ index[root].rows[w].state = "ready" /\ MarkerOf(root, w))
      => tree[w] = "whole"

\* The metadata on disk is sound in every state a crash can leave.
FamilySound == FamilyTypeOK /\ NoStrandedPointer /\ ReadyIsWhole

\* A source that stood whole when the copy began stands until it is done: no
\* `dispose` removes it, though the create waited for the lock with what it
\* had read of the family before (`place`, `lock_family`).
SourceStands ==
  \A p \in Process :
    Doing(p, "create", "mark") /\ tree[proc[p].lane] = "partial"
      => tree[proc[p].at] = "whole"
=============================================================================
