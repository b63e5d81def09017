---------------------------- MODULE LocalPublisher ----------------------------
(***************************************************************************)
(* LocalPublisher of gooir-artifact-sdk (crates/gooir-artifact-sdk/src/    *)
(* local.rs and local/platform.rs): processes that publish into, check,    *)
(* diff and recover one managed directory, the advisory lock of its parent *)
(* that they share, crashes, power losses, and programs that do not take   *)
(* the lock.                                                               *)
(*                                                                         *)
(* The parent directory is a function from names to trees.  Dest is the    *)
(* destination; a stage has the number of the tree made for it as its      *)
(* name, never used again (the code's names are 128 random bits).          *)
(***************************************************************************)
EXTENDS Naturals, Sequences, FiniteSets, Functions

CONSTANTS
  Processes,
  Requests,      \* [op, owner, artifact]: publish, check, diff, snapshot
  Contents(_),   \* artifact -> its files, a function from paths to bytes
  Publishable,   \* the artifacts validate_request lets pass
  ForeignTrees,  \* what programs without the lock may leave at Dest
  MaxCalls,      \* bounds: calls made, crashes and power losses,
  MaxLosses,     \*   changes by programs without the lock
  MaxEdits

VARIABLES
  entries,  \* the parent directory: name -> tree number
  trees,    \* sequence of [marker, files]
  synced,   \* the trees whose contents are on disk
  disk,     \* parent directories that a power loss may leave
  call,     \* process -> what it is doing
  known,    \* history: stages a result reported retained, or a crash left
  kept,     \* history: tree number -> the tree as a foreign change left it
  spent     \* counters of calls, losses and edits

vars == <<entries, trees, synced, disk, call, known, kept, spent>>

Dest == 0
NoEntries == [n \in {} |-> 0]
NoMarker == [owner |-> "none"]
EmptyTree == [marker |-> NoMarker, files |-> <<>>]
Manifest(request) == [owner |-> request.owner, artifact |-> request.artifact]
Files(marker) == IF marker = NoMarker THEN <<>> ELSE Contents(marker.artifact)

Extend(f, g) == [x \in DOMAIN f \cup DOMAIN g |-> IF x \in DOMAIN g THEN g[x] ELSE f[x]]
Drop(f, x) == Restrict(f, DOMAIN f \ {x})

-----------------------------------------------------------------------------
(* Inspection of the destination, the tree of one moment.                   *)

State(tree, owner) ==
  IF tree.marker = NoMarker THEN "unmanaged"
  ELSE IF tree.marker.owner # owner THEN "wrong_owner"
  ELSE IF tree.files = Contents(tree.marker.artifact) THEN "clean"
  ELSE "drifted"

Inspection(state, tree) == [state |-> state, marker |-> tree.marker, files |-> tree.files]

Inspect(owner) ==
  IF Dest \notin DOMAIN entries THEN Inspection("missing", EmptyTree)
  ELSE LET tree == trees[entries[Dest]]
           state == State(tree, owner)
       IN  Inspection(state, IF state = "unmanaged" THEN EmptyTree ELSE tree)

-----------------------------------------------------------------------------
(* Results.                                                                 *)

Error(error) == [kind |-> "error", error |-> error]
Io == Error("io")
Race == Error("race")
CleanupAfterFailure(original) == [kind |-> "cleanup_after_failure", original |-> original]
Receipt(outcome, sync, cleanup) ==
  [kind |-> "receipt", outcome |-> outcome, sync |-> sync, cleanup |-> cleanup]
Created == [as |-> "created"]
Unchanged(manifest) == [as |-> "unchanged", existing |-> manifest]
Replaced(previous) == [as |-> "replaced", previous |-> previous]
CheckReport(seen) == [kind |-> "check", state |-> seen.state, actual |-> seen.marker]
DiffReport(seen, changes) == [kind |-> "diff", state |-> seen.state, changes |-> changes]
Snapshot(seen) == [kind |-> "snapshot", marker |-> seen.marker, files |-> seen.files]

\* Each path that is not the same in both, with what publishing would do to it.
Changes(expected, observed) ==
  {[path |-> path,
    change |-> IF path \notin DOMAIN observed THEN "added"
               ELSE IF path \notin DOMAIN expected THEN "removed" ELSE "changed"] :
     path \in {path \in DOMAIN expected \cup DOMAIN observed :
                 path \in DOMAIN expected \cap DOMAIN observed =>
                   expected[path] # observed[path]}}

Retained(p, result) ==
  IF \/ result.kind = "cleanup_after_failure"
     \/ result.kind = "receipt" /\ result.cleanup \in {"deferred", "partial"}
  THEN {call[p].stage} ELSE {}

-----------------------------------------------------------------------------
(* Where a call is.                                                         *)

Idle(result) == [at |-> "idle", result |-> result]
Locking(request) == [at |-> "lock", request |-> request, stage |-> Dest, seen |-> {}]

At(p, place) == call[p].at = place
Asked(p) == call[p].request
Publishes(p) == Asked(p).op = "publish"

Goto(p, place) == call' = [call EXCEPT ![p].at = place]

\* The operation is over, but for the lock.
Answer(p, result) ==
  /\ call' = [call EXCEPT ![p] = [at |-> "unlock", request |-> Asked(p), result |-> result]]
  /\ known' = known \cup Retained(p, result)

\* clean_stage_after_error
CleanAfter(p, error) == call' = [call EXCEPT ![p] = Extend(@, [at |-> "clean", error |-> error])]

\* A change of the parent directory that nothing has synced yet.
Store(directory) ==
  /\ entries' = directory
  /\ disk' = disk \cup {directory}

-----------------------------------------------------------------------------
(* with_parent_lock, and what is decided before anything is staged.         *)

Call(p, request) ==
  /\ At(p, "idle")
  /\ spent.calls < MaxCalls
  /\ spent' = [spent EXCEPT !.calls = @ + 1]
  /\ call' = [call EXCEPT ![p] =
       IF request.op # "snapshot" /\ request.artifact \notin Publishable
       THEN Idle(Error("invalid_request")) ELSE Locking(request)]
  /\ UNCHANGED <<entries, trees, synced, disk, known, kept>>

Locked(p) == call[p].at \notin {"idle", "lock"}

\* Fault: a publication takes a shared lock too.
MayLock_Shared(p) == TRUE

\* flock: exclusive for a publication, shared for everything else.
MayLock(p) ==
  \A q \in Processes \ {p} : Locked(q) => ~ Publishes(p) /\ ~ Publishes(q)

Lock(p) ==
  /\ At(p, "lock")
  /\ \/ MayLock(p) /\ Goto(p, "inspect")
     \/ call' = [call EXCEPT ![p] = Idle(Io)]
  /\ UNCHANGED <<entries, trees, synced, disk, known, kept, spent>>

\* Fault: an early return with an error keeps the lock.
Unlock_OnSuccess(p) ==
  /\ At(p, "unlock")
  /\ call[p].result.kind # "error"
  /\ call' = [call EXCEPT ![p] = Idle(call[p].result)]
  /\ UNCHANGED <<entries, trees, synced, disk, known, kept, spent>>

Unlock(p) ==
  /\ At(p, "unlock")
  /\ call' = [call EXCEPT ![p] = Idle(call[p].result)]
  /\ UNCHANGED <<entries, trees, synced, disk, known, kept, spent>>

GoOn(p, place, seen) ==
  /\ call' = [call EXCEPT ![p].at = place, ![p].seen = {seen}]
  /\ UNCHANGED known

DecidePublish(p, seen) ==
  IF seen.state \in {"unmanaged", "wrong_owner", "drifted"} THEN Answer(p, Error(seen.state))
  ELSE IF seen.marker = Manifest(Asked(p))
  THEN Answer(p, Receipt(Unchanged(seen.marker), "n/a", "n/a"))
  ELSE GoOn(p, "stage", seen)

DecideSnapshot(p, seen) ==
  IF seen.state = "missing" THEN Answer(p, Snapshot(seen))
  ELSE IF seen.state # "clean" THEN Answer(p, Error(seen.state))
  ELSE GoOn(p, "recheck", seen)

Look(p) ==
  LET seen == Inspect(Asked(p).owner)
  IN  /\ At(p, "inspect")
      /\ \/ Answer(p, Io)
         \/ Asked(p).op = "check" /\ Answer(p, CheckReport(seen))
         \/ /\ Asked(p).op = "diff"
            /\ Answer(p, DiffReport(seen, Changes(Contents(Asked(p).artifact), seen.files)))
         \/ Asked(p).op = "snapshot" /\ DecideSnapshot(p, seen)
         \/ Publishes(p) /\ DecidePublish(p, seen)
      /\ UNCHANGED <<entries, trees, synced, disk, kept, spent>>

-----------------------------------------------------------------------------
(* Staging.                                                                 *)

CreateStage(p) ==
  LET id == Len(trees) + 1
  IN  /\ At(p, "stage")
      /\ \/ /\ trees' = Append(trees, EmptyTree)
            /\ Store(Extend(entries, [n \in {id} |-> id]))
            /\ call' = [call EXCEPT ![p].at = "populate", ![p].stage = id]
            /\ UNCHANGED known
         \/ /\ Answer(p, Io)
            /\ UNCHANGED <<entries, trees, disk>>
      /\ UNCHANGED <<synced, kept, spent>>

Stage(p) == entries[call[p].stage]

\* populate_stage: the files and then the marker, each synced as it is
\* written, and at last the directories.
Populate(p) ==
  LET files  == trees[Stage(p)].files
      asked  == Contents(Asked(p).artifact)
      filled == [trees EXCEPT ![Stage(p)].files = asked, ![Stage(p)].marker = Manifest(Asked(p))]
  IN  /\ At(p, "populate")
      /\ \/ /\ \E path \in DOMAIN asked \ DOMAIN files :
                 trees' = [trees EXCEPT ![Stage(p)].files = Extend(@, Restrict(asked, {path}))]
            /\ UNCHANGED <<synced, call>>
         \/ /\ files = asked
            /\ trees' = filled
            /\ synced' = synced \cup {Stage(p)}
            /\ \E seen \in call[p].seen :
                 Goto(p, IF seen.state = "missing" THEN "create" ELSE "recheck")
         \/ /\ CleanAfter(p, Io)
            /\ UNCHANGED <<trees, synced>>
      /\ UNCHANGED <<entries, disk, known, kept, spent>>

-----------------------------------------------------------------------------
(* Commit.                                                                  *)

\* Fault: only the manifests are compared.
Recheck_ManifestOnly(p) ==
  LET again == Inspect(Asked(p).owner)
      same  == \E seen \in call[p].seen : seen.marker = again.marker
  IN  /\ At(p, "recheck")
      /\ IF Publishes(p)
         THEN (IF same THEN Goto(p, "exchange") ELSE CleanAfter(p, Race)) /\ UNCHANGED known
         ELSE Answer(p, IF same THEN Snapshot(again) ELSE Race)
      /\ UNCHANGED <<entries, trees, synced, disk, kept, spent>>

\* The complete tree is read again: what was staged for replaces only what was
\* seen, and what is recovered was there twice.
Recheck(p) ==
  LET again == Inspect(Asked(p).owner)
      same  == call[p].seen = {again}
  IN  /\ At(p, "recheck")
      /\ IF Publishes(p)
         THEN /\ \/ same /\ Goto(p, "exchange")
                 \/ ~ same /\ CleanAfter(p, Race)
                 \/ CleanAfter(p, Io)
              /\ UNCHANGED known
         ELSE \/ same /\ Answer(p, Snapshot(again))
              \/ ~ same /\ Answer(p, Race)
              \/ Answer(p, Io)
      /\ UNCHANGED <<entries, trees, synced, disk, kept, spent>>

\* Fault: the race is reported and the stage forgotten.
CommitCreate_LeavesStage(p) ==
  /\ At(p, "create")
  /\ IF Dest \in DOMAIN entries
     THEN Answer(p, Race) /\ UNCHANGED <<entries, disk>>
     ELSE /\ Store(Drop(Extend(entries, [n \in {Dest} |-> Stage(p)]), call[p].stage))
          /\ Goto(p, "sync")
          /\ UNCHANGED known
  /\ UNCHANGED <<trees, synced, kept, spent>>

\* commit_create: a rename that replaces nothing.
CommitCreate(p) ==
  /\ At(p, "create")
  /\ \/ /\ Dest \notin DOMAIN entries
        /\ Store(Drop(Extend(entries, [n \in {Dest} |-> Stage(p)]), call[p].stage))
        /\ Goto(p, "sync")
     \/ /\ Dest \in DOMAIN entries
        /\ CleanAfter(p, Race)
        /\ UNCHANGED <<entries, disk>>
     \/ /\ CleanAfter(p, Io)
        /\ UNCHANGED <<entries, disk>>
  /\ UNCHANGED <<trees, synced, known, kept, spent>>

\* commit_exchange: stage and destination change places, whatever is there.
CommitExchange(p) ==
  /\ At(p, "exchange")
  /\ \/ /\ Dest \in DOMAIN entries
        /\ Store([entries EXCEPT ![Dest] = Stage(p), ![call[p].stage] = entries[Dest]])
        /\ Goto(p, "sync")
     \/ /\ CleanAfter(p, Io)
        /\ UNCHANGED <<entries, disk>>
  /\ UNCHANGED <<trees, synced, known, kept, spent>>

\* What a publication reports for what it saw first, once it is committed.
Outcome(p) ==
  LET seen == CHOOSE seen \in call[p].seen : TRUE
  IN  IF seen.state = "missing" THEN Created ELSE Replaced(seen.marker)

\* Fault: the retired tree is removed whether or not the sync completed.
SyncParent_CleanupRegardless(p) ==
  /\ At(p, "sync")
  /\ disk' \in {disk, {entries}}
  /\ IF Outcome(p) = Created THEN Answer(p, Receipt(Created, "completed", "n/a"))
     ELSE Goto(p, "retire") /\ UNCHANGED known
  /\ UNCHANGED <<entries, trees, synced, kept, spent>>

SyncParent(p) ==
  /\ At(p, "sync")
  /\ \/ /\ disk' = {entries}
        /\ IF Outcome(p) = Created THEN Answer(p, Receipt(Created, "completed", "n/a"))
           ELSE Goto(p, "retire") /\ UNCHANGED known
     \/ /\ Answer(p, Receipt(Outcome(p), "uncertain",
                             IF Outcome(p) = Created THEN "n/a" ELSE "deferred"))
        /\ UNCHANGED disk
  /\ UNCHANGED <<entries, trees, synced, kept, spent>>

-----------------------------------------------------------------------------
(* Removal: remove_dir_all takes the contents away first, then the name.    *)

Empty(p) ==
  /\ trees' = [trees EXCEPT ![Stage(p)] = EmptyTree]
  /\ UNCHANGED <<entries, disk>>

RemoveName(p) ==
  /\ Store(Drop(entries, call[p].stage))
  /\ UNCHANGED trees

\* cleanup_retired, and the receipt.
Retire(p) ==
  LET receipt(cleanup) == Receipt(Outcome(p), "completed", cleanup)
  IN  /\ \/ At(p, "retire") /\ Empty(p) /\ Goto(p, "retired") /\ UNCHANGED known
         \/ At(p, "retired") /\ RemoveName(p) /\ Goto(p, "resync") /\ UNCHANGED known
         \/ /\ call[p].at \in {"retire", "retired"}
            /\ Answer(p, receipt("partial"))
            /\ UNCHANGED <<entries, disk, trees>>
         \/ /\ At(p, "resync")
            /\ \/ disk' = {entries} /\ Answer(p, receipt("complete"))
               \/ UNCHANGED disk /\ Answer(p, receipt("persistence_uncertain"))
            /\ UNCHANGED <<entries, trees>>
      /\ UNCHANGED <<synced, kept, spent>>

\* clean_stage_after_error, and the error.
Clean(p) ==
  /\ \/ At(p, "clean") /\ Empty(p) /\ Goto(p, "cleaned") /\ UNCHANGED known
     \/ At(p, "cleaned") /\ RemoveName(p) /\ Answer(p, call[p].error)
     \/ /\ call[p].at \in {"clean", "cleaned"}
        /\ Answer(p, CleanupAfterFailure(call[p].error))
        /\ UNCHANGED <<entries, disk, trees>>
  /\ UNCHANGED <<synced, kept, spent>>

-----------------------------------------------------------------------------
(* Crashes, power losses and programs without the lock.                     *)

Lose(next) ==
  /\ spent.losses < MaxLosses
  /\ spent' = [spent EXCEPT !.losses = @ + 1]
  /\ next

Crashed == [kind |-> "crashed"]

\* The process is gone, its lock with it; its stage stays.
Crash(p) ==
  /\ ~ At(p, "idle")
  /\ Lose(call' = [call EXCEPT ![p] = Idle(Crashed)])
  /\ known' = known \cup
       (IF "stage" \in DOMAIN call[p] THEN {call[p].stage} \cap (DOMAIN entries \ {Dest}) ELSE {})
  /\ UNCHANGED <<entries, trees, synced, disk, kept>>

\* Whatever was not synced may be as it was, and a tree that never was synced
\* may have lost anything.
PowerLoss ==
  /\ Lose(call' = [p \in Processes |-> Idle(Crashed)])
  /\ \E directory \in disk :
       /\ entries' = directory
       /\ disk' = {directory}
       /\ known' = DOMAIN directory \ {Dest}
  /\ \E lost \in {{}, DOMAIN trees \ synced} :
       trees' = [id \in DOMAIN trees |-> IF id \in lost THEN EmptyTree ELSE trees[id]]
  /\ kept' = NoEntries
  /\ UNCHANGED synced

\* Somebody has looked for the last time before the exchange.
Committing == \E p \in Processes : At(p, "exchange")

Edit(tree) ==
  /\ Dest \in DOMAIN entries
  /\ trees' = [trees EXCEPT ![entries[Dest]] = tree]
  /\ kept' = IF Committing THEN Drop(kept, entries[Dest])
             ELSE Extend(kept, [id \in {entries[Dest]} |-> tree])
  /\ UNCHANGED <<entries, disk, synced>>

Put(tree) ==
  LET id == Len(trees) + 1
  IN  /\ Dest \notin DOMAIN entries
      /\ trees' = Append(trees, tree)
      /\ synced' = synced \cup {id}
      /\ Store(Extend(entries, [n \in {Dest} |-> id]))
      /\ kept' = IF Committing THEN kept ELSE Extend(kept, [n \in {id} |-> tree])

Remove ==
  /\ Dest \in DOMAIN entries
  /\ Store(Drop(entries, Dest))
  /\ kept' = Drop(kept, entries[Dest])
  /\ UNCHANGED <<trees, synced>>

Foreign ==
  /\ spent.edits < MaxEdits
  /\ spent' = [spent EXCEPT !.edits = @ + 1]
  /\ \/ \E tree \in ForeignTrees : Edit(tree) \/ Put(tree)
     \/ Remove
  /\ UNCHANGED <<call, known>>

-----------------------------------------------------------------------------

Init ==
  /\ entries = NoEntries
  /\ trees = <<>>
  /\ synced = {}
  /\ disk = {NoEntries}
  /\ call = [p \in Processes |-> Idle([kind |-> "none"])]
  /\ known = {}
  /\ kept = NoEntries
  /\ spent = [calls |-> 0, losses |-> 0, edits |-> 0]

Step(p) ==
  \/ Lock(p) \/ Look(p) \/ CreateStage(p) \/ Populate(p) \/ Recheck(p)
  \/ CommitCreate(p) \/ CommitExchange(p) \/ SyncParent(p)
  \/ Retire(p) \/ Clean(p) \/ Unlock(p)

Next ==
  \/ \E p \in Processes :
       (\E request \in Requests : Call(p, request)) \/ Step(p) \/ Crash(p)
  \/ PowerLoss
  \/ Foreign

\* Every process that is in a call goes on with it.
Spec == Init /\ [][Next]_vars /\ \A p \in Processes : WF_vars(Step(p))

-----------------------------------------------------------------------------
(* What a managed directory promises.                                       *)

\* The publication that a directory shows, if what is at Dest is whole and on
\* disk, and otherwise that it is torn.
Torn == [owner |-> "torn"]
Shown(directory) ==
  IF Dest \notin DOMAIN directory THEN NoMarker
  ELSE LET tree == trees[directory[Dest]]
       IN  IF /\ tree.marker # NoMarker
              /\ tree.files = Files(tree.marker)
              /\ directory[Dest] \in synced
           THEN tree.marker ELSE Torn

\* Whenever the power fails, and whichever of the changes of the parent reach
\* the disk, what is at the destination is a whole tree or nothing, as long as
\* only publishers touch it: stages are synced before they are committed, and
\* a retired tree is not taken apart while it may still come back.
NothingTorn ==
  spent.edits = 0 => \A directory \in disk \cup {entries} : Shown(directory) # Torn

\* What others leave at the destination stays there as they left it unless it
\* is a clean managed tree, however publishers interleave with them; only a
\* change after the last look before an exchange escapes them.
ForeignDataKept ==
  \A id \in DOMAIN kept :
    \/ trees[id] = kept[id] /\ Dest \in DOMAIN entries /\ entries[Dest] = id
    \/ kept[id].marker # NoMarker /\ kept[id].files = Files(kept[id].marker)

\* A stage that is left behind was reported by the result of its call, or left
\* by a crash: errors and receipts name everything they do not clean up.
StagesAccountedFor ==
  \A name \in DOMAIN entries \ {Dest} :
    \/ name \in known
    \/ \E p \in Processes : "stage" \in DOMAIN call[p] /\ call[p].stage = name

\* Whoever calls is answered, whatever fails and whoever crashes.
EveryCallReturns == \A p \in Processes : ~ At(p, "idle") ~> At(p, "idle")

-----------------------------------------------------------------------------
(* The promise as a whole: ManagedDirectory, of which a call is one atomic  *)
(* step taken at the commit, or at the inspection it answers from.          *)

Conflict(error) == [kind |-> "conflict", error |-> error]

PromisedError(error) ==
  CASE error \in {"io", "invalid_request"} -> [kind |-> "error"]
    [] error = "wrong_owner" -> [kind |-> "wrong_owner"]
    [] OTHER -> Conflict(error)

PromisedReceipt(outcome, durable) ==
  [kind |-> "receipt", outcome |-> outcome.as, durable |-> durable,
   previous |-> CASE outcome.as = "created" -> NoMarker
                  [] outcome.as = "unchanged" -> outcome.existing
                  [] OTHER -> outcome.previous]

Promised(result) ==
  CASE result.kind = "error" -> PromisedError(result.error)
    [] result.kind = "cleanup_after_failure" -> PromisedError(result.original.error)
    [] result.kind = "receipt" -> PromisedReceipt(result.outcome, result.sync = "completed")
    [] result.kind = "check" /\ result.state \in {"missing", "clean", "wrong_owner"} ->
         [kind |-> "seen", tree |-> result.actual]
    [] result.kind = "diff" /\ result.state \in {"missing", "clean", "wrong_owner"} ->
         [kind |-> "differs", paths |-> {c.path : c \in result.changes}]
    [] result.kind = "snapshot" /\ result.files = Files(result.marker) ->
         [kind |-> "seen", tree |-> result.marker]
    [] result.kind \in {"none", "crashed"} -> result
    [] OTHER -> Conflict(result.kind)

PromisedCall(p) ==
  CASE At(p, "idle") -> [at |-> "idle", result |-> Promised(call[p].result)]
    [] At(p, "unlock") -> [at |-> "settled", result |-> Promised(call[p].result)]
    [] At(p, "sync") -> [at |-> "settled", result |-> PromisedReceipt(Outcome(p), FALSE)]
    [] call[p].at \in {"retire", "retired", "resync"} ->
         [at |-> "settled", result |-> PromisedReceipt(Outcome(p), TRUE)]
    [] OTHER -> [at |-> "called", request |-> Asked(p)]

Directory == INSTANCE ManagedDirectory
  WITH current  <- Shown(entries),
       possible <- {Shown(directory) : directory \in disk},
       calls    <- [p \in Processes |-> PromisedCall(p)]

\* Without others, publishers and readers see a directory that changes in one
\* step per publication, no conflict is ever reported, what a receipt calls
\* synced survives every power loss, and an error means nothing was changed.
ImplementsManagedDirectory == Directory!Spec
=============================================================================
