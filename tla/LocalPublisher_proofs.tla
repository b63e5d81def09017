------------------------ MODULE LocalPublisher_proofs ------------------------
(***************************************************************************)
(* Proofs about LocalPublisher, for every set of processes, requests and   *)
(* foreign trees, and every number of calls, losses and edits.  The        *)
(* inductive invariant follows a publication through the lock: while it    *)
(* runs nobody else does, so what it knows of its stage, of the            *)
(* destination and of the disk is about the state as it is now.  At the    *)
(* end, that LocalPublisher implements ManagedDirectory.                   *)
(***************************************************************************)
EXTENDS LocalPublisher, SequenceTheorems, TLAPS

-----------------------------------------------------------------------------
(* The inductive invariant.                                                 *)

\* Where a publication is that goes on to write.
Publication ==
  {"stage", "populate", "create", "exchange", "sync", "retire", "retired", "resync",
   "clean", "cleaned"}
Places == Publication \cup {"idle", "lock", "inspect", "recheck", "unlock"}

\* A process has a stage of its own, which is not at the destination yet.
Rechecks(p) == At(p, "recheck") /\ Publishes(p)
Filled(p) == call[p].at \in {"create", "exchange"} \/ Rechecks(p)
Stages(p) == call[p].at \in {"populate", "clean", "cleaned"} \/ Filled(p)

Trees(n) == 1..n

\* Names are of one tree each, and stages have the numbers of trees.
DirectoryOK(directory) ==
  /\ DOMAIN directory \subseteq {Dest} \cup Trees(Len(trees))
  /\ \A name \in DOMAIN directory : directory[name] \in Trees(Len(trees))
  /\ \A m, n \in DOMAIN directory : directory[m] = directory[n] => m = n

StoreOK ==
  /\ \E Any : trees \in Seq(Any)
  /\ synced \subseteq Trees(Len(trees))
  /\ entries \in disk
  /\ \A directory \in disk : DirectoryOK(directory)
  /\ DOMAIN kept \subseteq Trees(Len(trees))
  /\ spent \in [calls : Nat, losses : Nat, edits : Nat]

Fields(place) ==
  CASE place = "idle" -> {"at", "result"}
    [] place = "unlock" -> {"at", "request", "result"}
    [] place \in {"clean", "cleaned"} -> {"at", "request", "stage", "seen", "error"}
    [] OTHER -> {"at", "request", "stage", "seen"}

\* What a call carries at each place.
CallOK(c) ==
  /\ c.at \in Places
  /\ DOMAIN c = Fields(c.at)
  /\ c.at # "idle" => c.request \in Requests
  /\ c.at \in Publication => c.request.op = "publish"
  /\ c.at = "recheck" => c.request.op \in {"publish", "snapshot"}
  /\ \/ c.at \in {"lock", "inspect", "stage"}
     \/ c.at = "recheck" /\ c.request.op # "publish"
     => c.stage = Dest

\* What it saw before it went on: nothing or a clean tree, and not what it is
\* about to publish.
SeenOK(c) ==
  c.at \in Publication \cup {"recheck"} =>
    \E seen :
      /\ c.seen = {seen}
      /\ seen.state \in {"missing", "clean"}
      /\ c.request.op = "publish" => seen.marker # Manifest(c.request)
      /\ c.at = "create" => seen.state = "missing"
      /\ c.at \in {"recheck", "exchange", "retire", "retired", "resync"} => seen.state = "clean"

\* The stage is where it was made until it is committed, and nowhere else.
StageOK(p) ==
  /\ call[p].stage \in DOMAIN entries
  /\ Stage(p) = call[p].stage
  /\ call[p].stage \in Trees(Len(trees))
  /\ \A directory \in disk : Dest \in DOMAIN directory => directory[Dest] # call[p].stage

\* What a publication stages before it is committed.
Complete(request) == [marker |-> Manifest(request), files |-> Contents(request.artifact)]

PublisherOK(p) ==
  /\ Stages(p) => StageOK(p)
  /\ At(p, "populate") =>
       trees[call[p].stage] = [marker |-> NoMarker, files |-> trees[call[p].stage].files]
  /\ Filled(p) => trees[call[p].stage] = Complete(Asked(p)) /\ call[p].stage \in synced
  /\ At(p, "sync") =>
       (call[p].stage \in DOMAIN entries <=> \E seen \in call[p].seen : seen.state # "missing")
  /\ call[p].at \in {"retire", "retired"} => call[p].stage \in DOMAIN entries \ {Dest}
  /\ At(p, "resync") => call[p].stage \notin DOMAIN entries
  /\ call[p].at \in {"sync", "retire", "retired", "resync"} => call[p].stage # Dest

\* Whoever publishes has the directory for itself.
Exclusive ==
  \A p, q \in Processes : p # q /\ Locked(p) /\ Locked(q) => ~ Publishes(p) /\ ~ Publishes(q)

CallsOK ==
  /\ DOMAIN call = Processes
  /\ \A p \in Processes : CallOK(call[p]) /\ SeenOK(call[p]) /\ PublisherOK(p)
  /\ Exclusive

\* After the last look before an exchange, a tree that others left at the
\* destination is not told from a published one.
CleanTree(tree) == tree.marker # NoMarker /\ tree.files = Files(tree.marker)
LastLook ==
  Committing /\ Dest \in DOMAIN entries /\ entries[Dest] \in DOMAIN kept =>
    CleanTree(kept[entries[Dest]])

\* As long as only publishers change the directory:  what a destination of the
\* disk has is whole and synced,
WholeOnDisk ==
  \A directory \in disk : Dest \in DOMAIN directory =>
    /\ directory[Dest] \in synced
    /\ \E request \in Requests : trees[directory[Dest]] = Complete(request)

\* what a call saw is still there until it is committed, and no error is a race,
SeenStands(p) ==
  /\ call[p].at \in {"stage", "populate", "create", "recheck", "exchange"} =>
       call[p].seen = {Inspect(Asked(p).owner)}
  /\ call[p].at \in {"clean", "cleaned"} => call[p].error = Io

\* and a publication takes the retired tree apart when the disk has the new one.
RetiredIsGone(p) ==
  /\ At(p, "sync") => Dest \in DOMAIN entries
  /\ call[p].at \in {"retire", "retired", "resync"} =>
       \A directory \in disk \cup {entries} :
         Dest \in DOMAIN directory /\ directory[Dest] = entries[Dest]

Undisturbed ==
  WholeOnDisk /\ \A p \in Processes : SeenStands(p) /\ RetiredIsGone(p)

Inv ==
  /\ StoreOK
  /\ CallsOK
  /\ StagesAccountedFor
  /\ LastLook
  /\ ForeignDataKept
  /\ spent.edits = 0 => Undisturbed

-----------------------------------------------------------------------------
(* Sequences of trees, singletons and directories.                          *)

\* A tree is appended: the others keep their numbers.
LEMMA Appended ==
  ASSUME \E Any : trees \in Seq(Any), NEW t, trees' = Append(trees, t)
  PROVE  /\ \E Any : trees' \in Seq(Any)
         /\ Len(trees) \in Nat /\ Len(trees') = Len(trees) + 1
         /\ \A i \in Trees(Len(trees)) : trees'[i] = trees[i]
         /\ trees'[Len(trees) + 1] = t
<1>1. PICK Any : trees \in Seq(Any)
  OBVIOUS
<1>2. trees \in Seq(Any \cup {t}) /\ t \in Any \cup {t} /\ Len(trees) \in Nat
  BY <1>1, SeqMonotonic, LenProperties
<1>3. QED
  BY <1>2, AppendProperties DEF Trees

\* A function on the numbers of a sequence is one, of the same length.
LEMMA SameLength ==
  ASSUME NEW Any, NEW s \in Seq(Any), NEW t, NEW Other, t \in [DOMAIN s -> Other]
  PROVE  t \in Seq(Other) /\ Len(t) = Len(s)
<1>1. Len(s) \in Nat /\ DOMAIN s = 1..Len(s)
  BY LenProperties
<1>2. t \in [1..Len(s) -> Other]
  BY <1>1
<1>3. t \in Seq(Other)
  BY <1>1, <1>2, SeqDef
<1>4. DOMAIN t = 1..Len(t) /\ Len(t) \in Nat
  BY <1>3, LenProperties
<1>5. QED
  BY <1>1, <1>2, <1>3, <1>4

\* One tree is replaced: the others stay, and there are no more of them.
LEMMA TreeReplaced ==
  ASSUME \E Any : trees \in Seq(Any), NEW x \in Trees(Len(trees)), NEW t,
         trees' = [trees EXCEPT ![x] = t]
  PROVE  /\ \E Any : trees' \in Seq(Any)
         /\ Len(trees') = Len(trees)
         /\ trees'[x] = t
         /\ \A i \in Trees(Len(trees)) \ {x} : trees'[i] = trees[i]
<1>1. PICK Any : trees \in Seq(Any)
  OBVIOUS
<1>2. Len(trees) \in Nat /\ DOMAIN trees = 1..Len(trees)
  BY <1>1, LenProperties
<1>3. \A i \in 1..Len(trees) : trees[i] \in Any
  BY <1>1, ElementOfSeq
<1>4. trees' \in [DOMAIN trees -> Any \cup {t}]
  BY <1>2, <1>3 DEF Trees
<1>5. trees' \in Seq(Any \cup {t}) /\ Len(trees') = Len(trees)
  BY <1>1, <1>4, SameLength
<1>6. QED
  BY <1>2, <1>5 DEF Trees

\* The fields of a staged tree are replaced, one and then the other.
LEMMA BothFields ==
  ASSUME NEW tree, NEW m0, NEW f0, tree = [marker |-> m0, files |-> f0], NEW m, NEW f
  PROVE  [[tree EXCEPT !.files = f] EXCEPT !.marker = m] = [marker |-> m, files |-> f]
<1> DEFINE half == [tree EXCEPT !.files = f]
<1>1. half = [marker |-> m0, files |-> f]
  OBVIOUS
<1> HIDE DEF half
<1>2. [half EXCEPT !.marker = m] = [marker |-> m, files |-> f]
  BY <1>1
<1>3. QED
  BY <1>2 DEF half

\* What a call saw is one inspection.
LEMMA TheSeen ==
  ASSUME NEW seen
  PROVE  (CHOOSE x \in {seen} : TRUE) = seen
OBVIOUS

\* A publication creates what it saw missing, and replaces what it saw.
LEMMA OutcomeOfSeen ==
  ASSUME NEW p, NEW seen, call[p].seen = {seen}
  PROVE  /\ Outcome(p) = IF seen.state = "missing" THEN Created ELSE Replaced(seen.marker)
         /\ Outcome(p) = Created <=> seen.state = "missing"
<1>1. Outcome(p) = IF seen.state = "missing" THEN Created ELSE Replaced(seen.marker)
  BY TheSeen DEF Outcome
<1>2. Replaced(seen.marker).as # Created.as
  BY DEF Replaced, Created
<1>3. QED
  BY <1>1, <1>2

\* A name is taken away.
LEMMA DroppedName ==
  ASSUME NEW d, NEW x
  PROVE  /\ DOMAIN Drop(d, x) = DOMAIN d \ {x}
         /\ \A n \in DOMAIN d \ {x} : Drop(d, x)[n] = d[n]
BY DEF Drop, Restrict

\* Markers of publications are of one kind, and neither of nothing nor torn.
LEMMA Manifests ==
  ASSUME NEW request
  PROVE  /\ Manifest(request) # NoMarker
         /\ Manifest(request) # Torn
         /\ NoMarker # Torn
         /\ Files(Manifest(request)) = Contents(request.artifact)
         /\ Manifest(request).owner = request.owner
         /\ Manifest(request).artifact = request.artifact
<1>1. DOMAIN Manifest(request) = {"owner", "artifact"} /\ DOMAIN NoMarker = {"owner"} /\ DOMAIN Torn = {"owner"}
  BY DEF Manifest, NoMarker, Torn
<1>2. "artifact" \notin {"owner"}
  OBVIOUS
<1>3. Manifest(request) # NoMarker /\ Manifest(request) # Torn
  BY <1>1, <1>2
<1>4. NoMarker.owner # Torn.owner
  BY DEF NoMarker, Torn
<1>5. Manifest(request).artifact = request.artifact /\ Manifest(request).owner = request.owner
  BY DEF Manifest
<1>6. QED
  BY <1>3, <1>4, <1>5 DEF Files

-----------------------------------------------------------------------------
(* What every step of one process leaves alone.                             *)

\* What the names and the numbers of trees range over.
LEMMA StoreFacts ==
  ASSUME StoreOK
  PROVE  Len(trees) \in Nat /\ DOMAIN trees = Trees(Len(trees)) /\ DirectoryOK(entries)
BY LenProperties DEF StoreOK, Trees

\* While a process publishes, nobody else has the lock.
LEMMA Alone ==
  ASSUME CallsOK, NEW p \in Processes, call[p].at \in Publication \/ Rechecks(p)
  PROVE  /\ Locked(p) /\ Publishes(p)
         /\ \A q \in Processes \ {p} : ~ Locked(q)
<1>1. Locked(p) /\ Publishes(p)
  BY DEF CallsOK, CallOK, Publication, Rechecks, Locked, Publishes, At, Asked
<1>2. QED
  BY <1>1 DEF CallsOK, Exclusive

\* What holds of a call goes on to hold while the parent directory stays, and
\* also when it does not, of a call that has no lock.
LEMMA OthersStay ==
  ASSUME CallsOK, NEW q \in Processes, call'[q] = call[q],
         UNCHANGED <<entries, trees, synced, disk>> \/ ~ Locked(q)
  PROVE  /\ CallOK(call[q])' /\ SeenOK(call[q])' /\ PublisherOK(q)'
         /\ SeenStands(q) => SeenStands(q)'
         /\ RetiredIsGone(q) => RetiredIsGone(q)'
<1>1. CallOK(call[q]) /\ SeenOK(call[q]) /\ PublisherOK(q)
  BY DEF CallsOK
<1>2. CallOK(call[q])' /\ SeenOK(call[q])'
  BY <1>1 DEF CallOK, SeenOK
<1>3. CASE UNCHANGED <<entries, trees, synced, disk>>
  BY <1>1, <1>2, <1>3 DEF PublisherOK, Stages, Filled, Rechecks, StageOK, Stage, DirectoryOK,
     At, Asked, Publishes, SeenStands, Inspect, RetiredIsGone
<1>4. CASE ~ Locked(q)
  <2>1. call'[q].at \in {"idle", "lock"}
    BY <1>4 DEF Locked
  <2>2. PublisherOK(q)' /\ SeenStands(q)' /\ RetiredIsGone(q)'
    BY <2>1 DEF PublisherOK, Stages, Filled, Rechecks, At, SeenStands, RetiredIsGone
  <2>3. QED
    BY <1>2, <2>2
<1>5. QED
  BY <1>3, <1>4

\* A step that changes only what one process is doing, and what is known.
LEMMA CallStep ==
  ASSUME Inv, NEW p \in Processes, DOMAIN call' = Processes,
         \A q \in Processes \ {p} : call'[q] = call[q],
         UNCHANGED <<entries, trees, synced, disk, kept>>,
         spent' \in [calls : Nat, losses : Nat, edits : Nat], spent'.edits = spent.edits,
         CallOK(call[p])', SeenOK(call[p])', PublisherOK(p)',
         Locked(p)' => MayLock(p) /\ call'[p].request = call[p].request,
         known \subseteq known',
         "stage" \in DOMAIN call[p] /\ call[p].stage \in DOMAIN entries \ {Dest} =>
           \/ call[p].stage \in known'
           \/ "stage" \in DOMAIN call'[p] /\ call'[p].stage = call[p].stage,
         At(p, "exchange")' => At(p, "exchange") \/ LastLook',
         spent.edits = 0 /\ Undisturbed => SeenStands(p)' /\ RetiredIsGone(p)'
  PROVE  Inv'
<1>1. StoreOK'
  BY DEF Inv, StoreOK, DirectoryOK
<1>2. CallsOK'
  <2>1. ASSUME NEW q \in Processes
        PROVE  CallOK(call[q])' /\ SeenOK(call[q])' /\ PublisherOK(q)'
    <3>1. CASE q = p
      BY <3>1
    <3>2. CASE q # p
      BY <3>2, OthersStay DEF Inv
    <3>3. QED
      BY <3>1, <3>2
  <2>2. \A q \in Processes \ {p} : Locked(q)' = Locked(q) /\ Publishes(q)' = Publishes(q)
    BY DEF Locked, Publishes, Asked
  <2>3. Locked(p)' => \A q \in Processes \ {p} : Locked(q)' => ~ Publishes(p)' /\ ~ Publishes(q)'
    BY <2>2 DEF MayLock, Publishes, Asked
  <2>4. Exclusive'
    BY <2>2, <2>3 DEF Inv, CallsOK, Exclusive
  <2>5. QED
    BY <2>1, <2>4 DEF CallsOK
<1>3. StagesAccountedFor'
  <2>1. ASSUME NEW name \in DOMAIN entries \ {Dest}
        PROVE  \/ name \in known'
               \/ \E q \in Processes : "stage" \in DOMAIN call'[q] /\ call'[q].stage = name
    <3>1. CASE name \in known
      BY <3>1
    <3>2. CASE \E q \in Processes : "stage" \in DOMAIN call[q] /\ call[q].stage = name
      BY <3>2
    <3>3. QED
      BY <3>1, <3>2 DEF Inv, StagesAccountedFor
  <2>2. QED
    BY <2>1 DEF StagesAccountedFor
<1>4. LastLook'
  <2>1. CASE At(p, "exchange")' /\ ~ At(p, "exchange")
    BY <2>1
  <2>2. CASE At(p, "exchange")' => At(p, "exchange")
    <3>1. Committing' => Committing
      BY <2>2 DEF Committing, At
    <3>2. QED
      BY <3>1 DEF Inv, LastLook
  <2>3. QED
    BY <2>1, <2>2
<1>5. ForeignDataKept'
  BY DEF Inv, ForeignDataKept
<1>6. ASSUME spent'.edits = 0
      PROVE  Undisturbed'
  <2>1. Undisturbed
    BY <1>6 DEF Inv
  <2>2. WholeOnDisk'
    BY <2>1 DEF Undisturbed, WholeOnDisk
  <2>3. SeenStands(p)' /\ RetiredIsGone(p)'
    BY <1>6, <2>1
  <2>4. \A q \in Processes \ {p} : SeenStands(q)' /\ RetiredIsGone(q)'
    BY <2>1, OthersStay DEF Undisturbed, Inv
  <2>5. QED
    BY <2>2, <2>3, <2>4 DEF Undisturbed
<1>7. QED
  BY <1>1, <1>2, <1>3, <1>4, <1>5, <1>6 DEF Inv

\* A step of a publication, which is alone.
LEMMA PublisherStep ==
  ASSUME Inv, NEW p \in Processes, call[p].at \in Publication,
         DOMAIN call' = Processes, \A q \in Processes \ {p} : call'[q] = call[q],
         UNCHANGED <<kept, spent>>,
         StoreOK', CallOK(call[p])', SeenOK(call[p])', PublisherOK(p)', ~ At(p, "exchange")',
         known \subseteq known',
         \A name \in DOMAIN entries' \ {Dest} :
           \/ name \in known'
           \/ "stage" \in DOMAIN call'[p] /\ call'[p].stage = name
           \/ /\ name \in DOMAIN entries
              /\ "stage" \in DOMAIN call[p] => call[p].stage # name,
         ForeignDataKept',
         spent.edits = 0 /\ Undisturbed => WholeOnDisk' /\ SeenStands(p)' /\ RetiredIsGone(p)'
  PROVE  Inv'
<1>1. \A q \in Processes \ {p} : ~ Locked(q) /\ ~ Locked(q)'
  BY Alone DEF Inv, Locked
<1>2. \A q \in Processes \ {p} :
        /\ CallOK(call[q])' /\ SeenOK(call[q])' /\ PublisherOK(q)'
        /\ SeenStands(q) => SeenStands(q)'
        /\ RetiredIsGone(q) => RetiredIsGone(q)'
  BY <1>1, OthersStay DEF Inv
<1>3. CallsOK'
  <2>1. Exclusive'
    BY <1>1 DEF Exclusive
  <2>2. QED
    BY <1>2, <2>1 DEF CallsOK
<1>4. StagesAccountedFor'
  <2>1. ASSUME NEW name \in DOMAIN entries' \ {Dest}, name \notin known',
               ~ ("stage" \in DOMAIN call'[p] /\ call'[p].stage = name)
        PROVE  \E q \in Processes : "stage" \in DOMAIN call'[q] /\ call'[q].stage = name
    <3>1. name \in DOMAIN entries /\ ("stage" \in DOMAIN call[p] => call[p].stage # name)
      BY <2>1
    <3>2. \E q \in Processes : "stage" \in DOMAIN call[q] /\ call[q].stage = name
      BY <2>1, <3>1 DEF Inv, StagesAccountedFor
    <3>3. QED
      BY <3>1, <3>2
  <2>2. QED
    BY <2>1 DEF StagesAccountedFor
<1>5. LastLook'
  <2>1. ~ Committing'
    BY <1>1 DEF Committing, Locked, At
  <2>2. QED
    BY <2>1 DEF LastLook
<1>6. ASSUME spent'.edits = 0
      PROVE  Undisturbed'
  BY <1>2, <1>6 DEF Inv, Undisturbed
<1>7. QED
  BY <1>3, <1>4, <1>5, <1>6 DEF Inv

\* What is at the destination does not change, whatever else does.
DestStays ==
  /\ Dest \in DOMAIN entries' <=> Dest \in DOMAIN entries
  /\ Dest \in DOMAIN entries =>
       entries'[Dest] = entries[Dest] /\ trees'[entries[Dest]] = trees[entries[Dest]]

\* Whoever looks again sees the same.
LEMMA SeenAgain ==
  ASSUME DestStays, NEW owner
  PROVE  Inspect(owner)' = Inspect(owner)
BY DEF DestStays, Inspect

\* What others left at the destination is still there.
LEMMA KeptAgain ==
  ASSUME DestStays, kept' = kept, ForeignDataKept
  PROVE  ForeignDataKept'
BY DEF DestStays, ForeignDataKept

-----------------------------------------------------------------------------
(* Steps that leave the parent directory alone.                             *)

\* The fields of a call at each place.
LEMMA FieldsAt ==
  /\ Fields("idle") = {"at", "result"}
  /\ Fields("unlock") = {"at", "request", "result"}
  /\ \A place \in {"clean", "cleaned"} : Fields(place) = {"at", "request", "stage", "seen", "error"}
  /\ \A place \in Places \ {"idle", "unlock", "clean", "cleaned"} :
       Fields(place) = {"at", "request", "stage", "seen"}
<1>1. \A place \in {"clean", "cleaned"} : Fields(place) = {"at", "request", "stage", "seen", "error"}
  BY DEF Fields
<1>2. \A place \in Places \ {"idle", "unlock", "clean", "cleaned"} :
        Fields(place) = {"at", "request", "stage", "seen"}
  BY DEF Fields
<1>3. QED
  BY <1>1, <1>2 DEF Fields

\* A call that has no lock any more, or not yet, or only that, is in order.
LEMMA AtRest ==
  ASSUME NEW p, call'[p].at \in {"idle", "lock", "inspect", "unlock"}
  PROVE  SeenOK(call[p])' /\ PublisherOK(p)' /\ SeenStands(p)' /\ RetiredIsGone(p)' /\ ~ At(p, "exchange")'
BY DEF SeenOK, PublisherOK, SeenStands, RetiredIsGone, Stages, Filled, Rechecks, At, Publication

\* An answer forgets no stage that is still there.
LEMMA AnswerStep ==
  ASSUME Inv, NEW p \in Processes, Locked(p), NEW result, Answer(p, result),
         UNCHANGED <<entries, trees, synced, disk, kept, spent>>,
         "stage" \in DOMAIN call[p] /\ call[p].stage \in DOMAIN entries \ {Dest} =>
           call[p].stage \in Retained(p, result)
  PROVE  Inv'
<1>1. call'[p] = [at |-> "unlock", request |-> call[p].request, result |-> result]
      /\ DOMAIN call' = Processes /\ \A q \in Processes \ {p} : call'[q] = call[q]
  BY DEF Answer, Asked, Inv, CallsOK
<1>2. call'[p].at = "unlock" /\ call'[p].request = call[p].request
      /\ DOMAIN call'[p] = Fields("unlock")
  BY <1>1, FieldsAt
<1>3. CallOK(call[p])'
  <2>1. call[p].request \in Requests
    BY DEF Inv, CallsOK, CallOK, Locked
  <2>2. QED
    BY <1>2, <2>1 DEF CallOK, Places, Publication
<1>4. SeenOK(call[p])' /\ PublisherOK(p)' /\ SeenStands(p)' /\ RetiredIsGone(p)' /\ ~ At(p, "exchange")'
  BY <1>2, AtRest
<1>5. MayLock(p)
  BY DEF Inv, CallsOK, Exclusive, MayLock
<1>6. known \subseteq known' /\ spent' \in [calls : Nat, losses : Nat, edits : Nat]
  BY DEF Answer, Inv, StoreOK
<1>7. "stage" \in DOMAIN call[p] /\ call[p].stage \in DOMAIN entries \ {Dest} => call[p].stage \in known'
  BY DEF Answer
<1>8. QED
  BY <1>1, <1>2, <1>3, <1>4, <1>5, <1>6, <1>7, CallStep

\* A request is refused at once, or waits for the lock.
LEMMA CallInv ==
  ASSUME Inv, NEW p \in Processes, NEW request \in Requests, Call(p, request)
  PROVE  Inv'
<1>1. DOMAIN call' = Processes /\ \A q \in Processes \ {p} : call'[q] = call[q]
  BY DEF Call, Inv, CallsOK
<1>2. call[p].at = "idle" /\ DOMAIN call[p] = {"at", "result"}
  BY FieldsAt DEF Call, At, Inv, CallsOK, CallOK
<1>3. \/ call'[p] = Idle(Error("invalid_request"))
      \/ call'[p] = Locking(request)
  BY DEF Call, Inv, CallsOK
<1>4. CallOK(call[p])' /\ call'[p].at \in {"idle", "lock"}
  <2>1. CASE call'[p] = Idle(Error("invalid_request"))
    BY <2>1, FieldsAt DEF Idle, CallOK, Places, Publication
  <2>2. CASE call'[p] = Locking(request)
    <3>1. call'[p].at = "lock" /\ call'[p].request = request /\ call'[p].stage = Dest
          /\ DOMAIN call'[p] = {"at", "request", "stage", "seen"}
      BY <2>2 DEF Locking
    <3>2. QED
      BY <3>1, FieldsAt DEF CallOK, Places, Publication
  <2>3. QED
    BY <1>3, <2>1, <2>2
<1>5. SeenOK(call[p])' /\ PublisherOK(p)' /\ SeenStands(p)' /\ RetiredIsGone(p)' /\ ~ At(p, "exchange")'
  BY <1>4, AtRest
<1>6. spent' \in [calls : Nat, losses : Nat, edits : Nat] /\ spent'.edits = spent.edits
  BY DEF Call, Inv, StoreOK
<1>7. ~ Locked(p)'
  BY <1>4 DEF Locked
<1>8. UNCHANGED <<entries, trees, synced, disk, kept, known>>
  BY DEF Call
<1>9. QED
  BY <1>1, <1>2, <1>4, <1>5, <1>6, <1>7, <1>8, CallStep

\* Whoever gets the lock excludes publishers, or is a reader among readers.
LEMMA LockInv ==
  ASSUME Inv, NEW p \in Processes, Lock(p)
  PROVE  Inv'
<1>1. DOMAIN call' = Processes /\ \A q \in Processes \ {p} : call'[q] = call[q]
  BY DEF Lock, Goto, Inv, CallsOK
<1>2. CallOK(call[p]) /\ call[p].at = "lock" /\ call[p].stage = Dest
      /\ DOMAIN call[p] = {"at", "request", "stage", "seen"}
  BY FieldsAt DEF Lock, At, Inv, CallsOK, CallOK, Places
<1>3. \/ MayLock(p) /\ call'[p] = [call[p] EXCEPT !.at = "inspect"]
      \/ call'[p] = Idle(Io)
  BY DEF Lock, Goto, Inv, CallsOK
<1>4. /\ CallOK(call[p])' /\ call'[p].at \in {"idle", "inspect"}
      /\ Locked(p)' => MayLock(p) /\ call'[p].request = call[p].request
  <2>1. CASE call'[p] = Idle(Io)
    BY <2>1, FieldsAt DEF Idle, CallOK, Places, Publication, Locked
  <2>2. CASE MayLock(p) /\ call'[p] = [call[p] EXCEPT !.at = "inspect"]
    <3>1. call'[p].at = "inspect" /\ call'[p].request = call[p].request /\ call'[p].stage = Dest
          /\ DOMAIN call'[p] = {"at", "request", "stage", "seen"}
      BY <1>2, <2>2
    <3>2. QED
      BY <1>2, <2>2, <3>1, FieldsAt DEF CallOK, Places, Publication, Locked
  <2>3. QED
    BY <1>3, <2>1, <2>2
<1>5. SeenOK(call[p])' /\ PublisherOK(p)' /\ SeenStands(p)' /\ RetiredIsGone(p)' /\ ~ At(p, "exchange")'
  BY <1>4, AtRest
<1>6. spent' \in [calls : Nat, losses : Nat, edits : Nat] /\ spent'.edits = spent.edits
  BY DEF Lock, Inv, StoreOK
<1>7. UNCHANGED <<entries, trees, synced, disk, kept, known>>
  BY DEF Lock
<1>8. QED
  BY <1>1, <1>2, <1>4, <1>5, <1>6, <1>7, CallStep

\* A call that returns has no stage any more.
LEMMA UnlockInv ==
  ASSUME Inv, NEW p \in Processes, Unlock(p)
  PROVE  Inv'
<1>1. DOMAIN call' = Processes /\ \A q \in Processes \ {p} : call'[q] = call[q]
  BY DEF Unlock, Inv, CallsOK
<1>2. DOMAIN call[p] = {"at", "request", "result"}
  BY FieldsAt DEF Unlock, At, Inv, CallsOK, CallOK
<1>3. call'[p] = [at |-> "idle", result |-> call[p].result]
  BY DEF Unlock, Idle, Inv, CallsOK
<1>4. CallOK(call[p])' /\ call'[p].at = "idle"
  BY <1>3, FieldsAt DEF CallOK, Places, Publication
<1>5. SeenOK(call[p])' /\ PublisherOK(p)' /\ SeenStands(p)' /\ RetiredIsGone(p)' /\ ~ At(p, "exchange")'
  BY <1>4, AtRest
<1>6. spent' \in [calls : Nat, losses : Nat, edits : Nat] /\ spent'.edits = spent.edits
  BY DEF Unlock, Inv, StoreOK
<1>7. UNCHANGED <<entries, trees, synced, disk, kept, known>> /\ ~ Locked(p)'
  BY <1>4 DEF Unlock, Locked
<1>8. QED
  BY <1>1, <1>2, <1>4, <1>5, <1>6, <1>7, CallStep

\* A crash gives up the lock and makes its stage known.
LEMMA CrashInv ==
  ASSUME Inv, NEW p \in Processes, Crash(p)
  PROVE  Inv'
<1>1. DOMAIN call' = Processes /\ \A q \in Processes \ {p} : call'[q] = call[q]
  BY DEF Crash, Lose, Inv, CallsOK
<1>2. call'[p] = [at |-> "idle", result |-> Crashed]
  BY DEF Crash, Lose, Idle, Inv, CallsOK
<1>3. CallOK(call[p])' /\ call'[p].at = "idle"
  BY <1>2, FieldsAt DEF CallOK, Places, Publication
<1>4. SeenOK(call[p])' /\ PublisherOK(p)' /\ SeenStands(p)' /\ RetiredIsGone(p)' /\ ~ At(p, "exchange")'
  BY <1>3, AtRest
<1>5. spent' \in [calls : Nat, losses : Nat, edits : Nat] /\ spent'.edits = spent.edits
  BY DEF Crash, Lose, Inv, StoreOK
<1>6. /\ known \subseteq known'
      /\ "stage" \in DOMAIN call[p] /\ call[p].stage \in DOMAIN entries \ {Dest} => call[p].stage \in known'
  BY DEF Crash
<1>7. UNCHANGED <<entries, trees, synced, disk, kept>> /\ ~ Locked(p)'
  BY <1>3 DEF Crash, Locked
<1>8. QED
  BY <1>1, <1>3, <1>4, <1>5, <1>6, <1>7, CallStep

\* An inspection that goes on has seen nothing, or a clean tree.
LEMMA GoOnStep ==
  ASSUME Inv, NEW p \in Processes, At(p, "inspect"), NEW seen, NEW place,
         GoOn(p, place, seen), UNCHANGED <<entries, trees, synced, disk, kept, spent>>,
         \/ /\ place = "stage" /\ Publishes(p) /\ seen.state \in {"missing", "clean"}
            /\ seen.marker # Manifest(Asked(p))
         \/ place = "recheck" /\ Asked(p).op = "snapshot" /\ seen.state = "clean",
         seen = Inspect(Asked(p).owner)
  PROVE  Inv'
<1>1. CallOK(call[p]) /\ call[p].at = "inspect" /\ call[p].stage = Dest
      /\ DOMAIN call[p] = {"at", "request", "stage", "seen"}
  BY FieldsAt DEF At, Inv, CallsOK, CallOK, Places
<1>2. call'[p] = [[call[p] EXCEPT !.at = place] EXCEPT !.seen = {seen}]
      /\ DOMAIN call' = Processes /\ \A q \in Processes \ {p} : call'[q] = call[q]
  BY DEF GoOn, Inv, CallsOK
<1>3. /\ call'[p].at = place /\ call'[p].request = call[p].request /\ call'[p].stage = Dest
      /\ call'[p].seen = {seen} /\ DOMAIN call'[p] = {"at", "request", "stage", "seen"}
  BY <1>1, <1>2
<1>4. CallOK(call[p])'
  BY <1>1, <1>3, FieldsAt DEF CallOK, Places, Publication, Publishes, Asked
<1>5. SeenOK(call[p])'
  BY <1>3 DEF SeenOK, Publishes, Asked
<1>6. PublisherOK(p)' /\ RetiredIsGone(p)' /\ ~ At(p, "exchange")'
  BY <1>3 DEF PublisherOK, RetiredIsGone, Stages, Filled, Rechecks, At, Asked, Publishes
<1>7. SeenStands(p)'
  <2>1. Inspect(Asked(p).owner)' = Inspect(Asked(p).owner)
    BY <1>3 DEF Inspect, Asked
  <2>2. QED
    BY <1>3, <2>1 DEF SeenStands
<1>8. MayLock(p)
  BY <1>1 DEF Inv, CallsOK, Exclusive, MayLock, Locked
<1>9. known \subseteq known' /\ spent' \in [calls : Nat, losses : Nat, edits : Nat]
  BY DEF GoOn, Inv, StoreOK
<1>10. QED
  BY <1>1, <1>2, <1>3, <1>4, <1>5, <1>6, <1>7, <1>8, <1>9, CallStep

\* The first inspection.
LEMMA LookInv ==
  ASSUME Inv, NEW p \in Processes, Look(p)
  PROVE  Inv'
<1> DEFINE seen == Inspect(Asked(p).owner)
<1>1. At(p, "inspect") /\ UNCHANGED <<entries, trees, synced, disk, kept, spent>>
  BY DEF Look
<1>2. Locked(p) /\ call[p].stage = Dest
  BY <1>1 DEF At, Locked, Inv, CallsOK, CallOK
<1>3. ASSUME NEW result, Answer(p, result)
      PROVE  Inv'
  BY <1>1, <1>2, <1>3, AnswerStep
<1>4. \/ \E result : Answer(p, result)
      \/ Asked(p).op = "snapshot" /\ DecideSnapshot(p, seen)
      \/ Publishes(p) /\ DecidePublish(p, seen)
  BY DEF Look
<1>5. seen.state \in {"missing", "unmanaged", "wrong_owner", "clean", "drifted"}
  BY DEF Inspect, Inspection, State
<1> HIDE DEF seen
<1>6. CASE Asked(p).op = "snapshot" /\ DecideSnapshot(p, seen)
  <2>1. \/ \E result : Answer(p, result)
        \/ GoOn(p, "recheck", seen) /\ seen.state = "clean"
    BY <1>6 DEF DecideSnapshot
  <2>2. QED
    BY <1>1, <1>3, <1>6, <2>1, GoOnStep DEF seen
<1>7. CASE Publishes(p) /\ DecidePublish(p, seen)
  <2>1. \/ \E result : Answer(p, result)
        \/ /\ GoOn(p, "stage", seen) /\ seen.state \in {"missing", "clean"}
           /\ seen.marker # Manifest(Asked(p))
    BY <1>5, <1>7 DEF DecidePublish
  <2>2. QED
    BY <1>1, <1>3, <1>7, <2>1, GoOnStep DEF seen
<1>8. QED
  BY <1>3, <1>4, <1>6, <1>7

\* A stage that is not committed is about to be removed.
LEMMA CleanAfterStep ==
  ASSUME Inv, NEW p \in Processes, At(p, "populate") \/ Filled(p), NEW error, CleanAfter(p, error),
         UNCHANGED <<entries, trees, synced, disk, known, kept, spent>>,
         spent.edits = 0 /\ Undisturbed => error = Io
  PROVE  Inv'
<1>1. CallOK(call[p]) /\ SeenOK(call[p]) /\ call[p].at \in {"populate", "create", "recheck", "exchange"}
      /\ DOMAIN call[p] = {"at", "request", "stage", "seen"} /\ call[p].request.op = "publish"
      /\ StageOK(p)
  BY FieldsAt DEF At, Filled, Rechecks, Publishes, Asked, Inv, CallsOK, CallOK, Places, Publication,
     PublisherOK, Stages
<1>2. call'[p] = Extend(call[p], [at |-> "clean", error |-> error])
      /\ DOMAIN call' = Processes /\ \A q \in Processes \ {p} : call'[q] = call[q]
  BY DEF CleanAfter, Inv, CallsOK
<1>3. /\ call'[p].at = "clean" /\ call'[p].request = call[p].request /\ call'[p].stage = call[p].stage
      /\ call'[p].seen = call[p].seen /\ call'[p].error = error
      /\ DOMAIN call'[p] = {"at", "request", "stage", "seen", "error"}
  BY <1>1, <1>2 DEF Extend
<1>4. CallOK(call[p])'
  BY <1>1, <1>3, FieldsAt DEF CallOK, Places, Publication
<1>5. SeenOK(call[p])'
  BY <1>1, <1>3 DEF SeenOK, Publication
<1>6. PublisherOK(p)' /\ RetiredIsGone(p)' /\ ~ At(p, "exchange")'
  BY <1>1, <1>3 DEF PublisherOK, RetiredIsGone, Stages, Filled, Rechecks, At, StageOK, Stage
<1>7. spent.edits = 0 /\ Undisturbed => SeenStands(p)'
  BY <1>3 DEF SeenStands
<1>8. MayLock(p)
  BY <1>1 DEF Inv, CallsOK, Exclusive, MayLock, Locked
<1>9. known \subseteq known' /\ spent' \in [calls : Nat, losses : Nat, edits : Nat]
  BY DEF Inv, StoreOK
<1>10. QED
  BY <1>1, <1>2, <1>3, <1>4, <1>5, <1>6, <1>7, <1>8, <1>9, CallStep

\* The second look: what is exchanged was clean when it was last seen.
LEMMA RecheckInv ==
  ASSUME Inv, NEW p \in Processes, Recheck(p)
  PROVE  Inv'
<1> DEFINE again == Inspect(Asked(p).owner)
<1>1. At(p, "recheck") /\ UNCHANGED <<entries, trees, synced, disk, kept, spent>> /\ Locked(p)
  BY DEF Recheck, At, Locked
<1>2. CASE ~ Publishes(p)
  <2>1. call[p].stage = Dest
    BY <1>1, <1>2 DEF At, Publishes, Asked, Inv, CallsOK, CallOK
  <2>2. \E result : Answer(p, result)
    BY <1>2 DEF Recheck
  <2>3. QED
    BY <1>1, <2>1, <2>2, AnswerStep
<1>3. CASE Publishes(p) /\ CleanAfter(p, Io) /\ UNCHANGED known
  BY <1>1, <1>3, CleanAfterStep DEF Filled, Rechecks
<1>4. CASE Publishes(p) /\ call[p].seen # {again} /\ CleanAfter(p, Race) /\ UNCHANGED known
  <2>1. ~ Undisturbed
    BY <1>1, <1>4 DEF Undisturbed, SeenStands, At
  <2>2. QED
    BY <1>1, <1>4, <2>1, CleanAfterStep DEF Filled, Rechecks
<1>5. CASE Publishes(p) /\ call[p].seen = {again} /\ Goto(p, "exchange") /\ UNCHANGED known
  <2>1. /\ CallOK(call[p]) /\ SeenOK(call[p]) /\ PublisherOK(p) /\ call[p].at = "recheck"
        /\ DOMAIN call[p] = {"at", "request", "stage", "seen"} /\ call[p].request.op = "publish"
    BY <1>1, <1>5, FieldsAt DEF At, Publishes, Asked, Inv, CallsOK, CallOK, Places, Publication
  <2>2. call'[p] = [call[p] EXCEPT !.at = "exchange"]
        /\ DOMAIN call' = Processes /\ \A q \in Processes \ {p} : call'[q] = call[q]
    BY <1>5 DEF Goto, Inv, CallsOK
  <2>3. /\ call'[p].at = "exchange" /\ call'[p].request = call[p].request /\ call'[p].stage = call[p].stage
        /\ call'[p].seen = call[p].seen /\ DOMAIN call'[p] = {"at", "request", "stage", "seen"}
    BY <2>1, <2>2
  <2>4. CallOK(call[p])'
    BY <2>1, <2>3, FieldsAt DEF CallOK, Places, Publication
  <2>5. SeenOK(call[p])'
    BY <2>1, <2>3 DEF SeenOK, Publication
  <2>6. PublisherOK(p)' /\ RetiredIsGone(p)'
    <3>1. Rechecks(p)
      BY <1>5, <2>1 DEF Rechecks, At
    <3>2. StageOK(p) /\ trees[call[p].stage] = Complete(call[p].request) /\ call[p].stage \in synced
      BY <2>1, <3>1 DEF PublisherOK, Stages, Filled, Asked
    <3>3. StageOK(p)'
      BY <1>1, <2>3, <3>2 DEF StageOK, Stage
    <3>4. trees'[call'[p].stage] = Complete(call'[p].request) /\ call'[p].stage \in synced'
      BY <1>1, <2>3, <3>2
    <3>5. QED
      BY <2>3, <3>3, <3>4 DEF PublisherOK, RetiredIsGone, At, Asked
  <2>7. spent.edits = 0 /\ Undisturbed => SeenStands(p)'
    <3>1. Inspect(Asked(p).owner)' = again
      BY <1>1, <2>3 DEF Inspect, Asked
    <3>2. QED
      BY <1>5, <2>3, <3>1 DEF SeenStands
  <2>8. LastLook'
    <3>1. again.state = "clean"
      BY <1>5, <2>1 DEF SeenOK, Publication
    <3>2. Dest \in DOMAIN entries => CleanTree(trees[entries[Dest]])
      BY <3>1 DEF Inspect, Inspection, State, CleanTree, Files
    <3>3. Dest \in DOMAIN entries /\ entries[Dest] \in DOMAIN kept => CleanTree(kept[entries[Dest]])
      BY <3>2 DEF Inv, ForeignDataKept, CleanTree
    <3>4. QED
      BY <1>1, <3>3 DEF LastLook, CleanTree, Files
  <2>9. MayLock(p)
    BY <1>1 DEF Inv, CallsOK, Exclusive, MayLock
  <2>10. known \subseteq known' /\ spent' \in [calls : Nat, losses : Nat, edits : Nat]
    BY <1>1, <1>5 DEF Inv, StoreOK
  <2>11. QED
    BY <1>1, <2>1, <2>2, <2>3, <2>4, <2>5, <2>6, <2>7, <2>8, <2>9, <2>10, CallStep
<1>6. QED
  BY <1>2, <1>3, <1>4, <1>5 DEF Recheck

-----------------------------------------------------------------------------
(* Steps of a publication that change the parent directory.                 *)

\* What is in a tree that is not at the destination may change.
LEMMA TreeChanges ==
  ASSUME StoreOK, NEW x \in Trees(Len(trees)), NEW t, trees' = [trees EXCEPT ![x] = t],
         UNCHANGED <<entries, disk, kept, spent>>,
         synced' \in {synced, synced \cup {x}},
         Dest \in DOMAIN entries => entries[Dest] # x
  PROVE  /\ StoreOK' /\ DestStays /\ trees'[x] = t
         /\ WholeOnDisk /\ (\A d \in disk : Dest \in DOMAIN d => d[Dest] # x) => WholeOnDisk'
<1>2. /\ \E Any : trees' \in Seq(Any)
      /\ Len(trees') = Len(trees) /\ trees'[x] = t
      /\ \A j \in Trees(Len(trees)) \ {x} : trees'[j] = trees[j]
  BY TreeReplaced DEF StoreOK
<1>3. StoreOK'
  BY <1>2 DEF StoreOK, DirectoryOK
<1>4. DestStays
  BY <1>2, StoreFacts DEF DestStays, DirectoryOK
<1>5. ASSUME WholeOnDisk, \A d \in disk : Dest \in DOMAIN d => d[Dest] # x
      PROVE  WholeOnDisk'
  <2>1. \A d \in disk : Dest \in DOMAIN d => trees'[d[Dest]] = trees[d[Dest]]
    BY <1>2, <1>5 DEF StoreOK, DirectoryOK
  <2>2. QED
    BY <1>5, <2>1 DEF WholeOnDisk
<1>6. QED
  BY <1>2, <1>3, <1>4, <1>5

\* A name that is not the destination's is taken away.
LEMMA NameGoes ==
  ASSUME StoreOK, NEW p, call[p].stage # Dest, RemoveName(p), UNCHANGED <<synced, kept, spent>>
  PROVE  /\ StoreOK' /\ DestStays /\ DOMAIN entries' = DOMAIN entries \ {call[p].stage}
         /\ WholeOnDisk => WholeOnDisk'
         /\ disk' = disk \cup {entries'}
<1>1. entries' = Drop(entries, call[p].stage) /\ disk' = disk \cup {entries'} /\ trees' = trees
  BY DEF RemoveName, Store
<1>2. /\ DOMAIN entries' = DOMAIN entries \ {call[p].stage}
      /\ \A n \in DOMAIN entries' : entries'[n] = entries[n]
  BY <1>1, DroppedName
<1>3. DirectoryOK(entries)
  BY StoreFacts
<1>4. DirectoryOK(entries)'
  BY <1>1, <1>2, <1>3 DEF DirectoryOK
<1>5. StoreOK'
  BY <1>1, <1>4 DEF StoreOK, DirectoryOK
<1>6. DestStays
  BY <1>1, <1>2 DEF DestStays
<1>7. WholeOnDisk => WholeOnDisk'
  BY <1>1, <1>2 DEF WholeOnDisk, StoreOK
<1>8. QED
  BY <1>1, <1>2, <1>5, <1>6, <1>7

\* What a call of a publication has, and what it is after going on.
LEMMA GoesOn ==
  ASSUME Inv, NEW p \in Processes, call[p].at \in Publication \/ Rechecks(p),
         NEW place, Goto(p, place), place \in Publication \cup {"recheck"}
  PROVE  /\ call'[p].at = place /\ call'[p].request = call[p].request
         /\ call'[p].stage = call[p].stage /\ call'[p].seen = call[p].seen
         /\ "error" \in DOMAIN call[p] => call'[p].error = call[p].error
         /\ DOMAIN call' = Processes /\ \A q \in Processes \ {p} : call'[q] = call[q]
         /\ DOMAIN call'[p] = DOMAIN call[p] /\ "stage" \in DOMAIN call[p]
         /\ place # "stage" /\ Fields(place) = Fields(call[p].at) => CallOK(call[p])'
<1>1. CallOK(call[p]) /\ call[p].request.op = "publish" /\ DOMAIN call = Processes
  BY DEF Inv, CallsOK, CallOK, Rechecks, Publishes, Asked
<1>2. {"at", "request", "stage", "seen"} \subseteq DOMAIN call[p]
  BY <1>1, FieldsAt DEF CallOK, Places, Publication, Rechecks, At
<1>3. call'[p] = [call[p] EXCEPT !.at = place]
      /\ DOMAIN call' = Processes /\ \A q \in Processes \ {p} : call'[q] = call[q]
  BY <1>1 DEF Goto
<1>4. /\ call'[p].at = place /\ call'[p].request = call[p].request
      /\ call'[p].stage = call[p].stage /\ call'[p].seen = call[p].seen
      /\ "error" \in DOMAIN call[p] => call'[p].error = call[p].error
      /\ DOMAIN call'[p] = DOMAIN call[p]
  BY <1>2, <1>3
<1>5. ASSUME place # "stage", Fields(place) = Fields(call[p].at)
      PROVE  CallOK(call[p])'
  <2>1. call[p].at # "idle" /\ place # "idle"
    BY DEF Publication, Rechecks, At
  <2>2. QED
    BY <1>1, <1>4, <1>5, <2>1 DEF CallOK, Places, Publication
<1>6. QED
  BY <1>2, <1>3, <1>4, <1>5

\* A stage is made, under a name and with a tree of its own.
LEMMA CreateStageInv ==
  ASSUME Inv, NEW p \in Processes, CreateStage(p)
  PROVE  Inv'
<1> DEFINE id == Len(trees) + 1
<1>1. /\ call[p].at = "stage" /\ CallOK(call[p]) /\ SeenOK(call[p]) /\ call[p].stage = Dest
      /\ DOMAIN call[p] = {"at", "request", "stage", "seen"} /\ call[p].request.op = "publish"
      /\ UNCHANGED <<synced, kept, spent>>
  BY FieldsAt DEF CreateStage, At, Inv, CallsOK, CallOK, Places, Publication
<1>2. CASE Answer(p, Io) /\ UNCHANGED <<entries, trees, disk>>
  <2>1. Locked(p)
    BY <1>1 DEF Locked
  <2>2. QED
    BY <1>1, <1>2, <2>1, AnswerStep
<1>3. CASE /\ trees' = Append(trees, EmptyTree)
           /\ Store(Extend(entries, [n \in {id} |-> id]))
           /\ call' = [call EXCEPT ![p].at = "populate", ![p].stage = id]
           /\ UNCHANGED known
  <2>2. /\ Len(trees) \in Nat /\ (\E Any : trees' \in Seq(Any)) /\ Len(trees') = id
        /\ \A i \in Trees(Len(trees)) : trees'[i] = trees[i]
        /\ trees'[id] = EmptyTree
    BY <1>3, Appended DEF Inv, StoreOK
  <2>3. entries' = Extend(entries, [n \in {id} |-> id]) /\ disk' = disk \cup {entries'}
    BY <1>3 DEF Store
  <2>4. /\ DOMAIN entries' = DOMAIN entries \cup {id} /\ entries'[id] = id
        /\ \A n \in DOMAIN entries \ {id} : entries'[n] = entries[n]
    BY <2>3 DEF Extend
  <2>5. id \notin Trees(Len(trees)) /\ id # Dest /\ id \in Trees(Len(trees'))
        /\ Trees(Len(trees)) \subseteq Trees(Len(trees'))
    BY <2>2 DEF Trees, Dest
  <2>6. DirectoryOK(entries)
    BY StoreFacts DEF Inv
  <2>7. id \notin DOMAIN entries
    BY <2>5, <2>6 DEF DirectoryOK
  <2>8. DirectoryOK(entries)'
    BY <2>4, <2>5, <2>6, <2>7 DEF DirectoryOK
  <2>9. StoreOK'
    <3>1. \A d \in disk : DirectoryOK(d)'
      BY <2>5 DEF Inv, StoreOK, DirectoryOK
    <3>2. \A d \in disk' : DirectoryOK(d)'
      BY <2>3, <2>8, <3>1
    <3>3. QED
      BY <1>1, <2>2, <2>3, <2>5, <3>2 DEF Inv, StoreOK
  <2>10. DestStays
    BY <2>2, <2>4, <2>5, <2>6, <2>7 DEF DestStays, DirectoryOK
  <2>11. call'[p] = [[call[p] EXCEPT !.at = "populate"] EXCEPT !.stage = id]
         /\ DOMAIN call' = Processes /\ \A q \in Processes \ {p} : call'[q] = call[q]
    BY <1>3 DEF Inv, CallsOK
  <2>12. /\ call'[p].at = "populate" /\ call'[p].request = call[p].request /\ call'[p].stage = id
         /\ call'[p].seen = call[p].seen /\ DOMAIN call'[p] = {"at", "request", "stage", "seen"}
    BY <1>1, <2>11
  <2> HIDE DEF id
  <2>13. CallOK(call[p])'
    BY <1>1, <2>12, FieldsAt DEF CallOK, Places, Publication
  <2>14. SeenOK(call[p])' /\ ~ At(p, "exchange")'
    BY <1>1, <2>12 DEF SeenOK, Publication, At
  <2>15. \A d \in disk' : Dest \in DOMAIN d => d[Dest] # id
    BY <2>3, <2>4, <2>5, <2>6, <2>7 DEF Inv, StoreOK, DirectoryOK
  <2>16. PublisherOK(p)' /\ RetiredIsGone(p)'
    <3>1. StageOK(p)'
      BY <2>4, <2>5, <2>12, <2>15 DEF StageOK, Stage
    <3>2. trees'[id] = [marker |-> NoMarker, files |-> trees'[id].files]
      BY <2>2 DEF EmptyTree
    <3>3. QED
      BY <2>12, <3>1, <3>2 DEF PublisherOK, RetiredIsGone, Stages, Filled, Rechecks, At
  <2>17. ForeignDataKept'
    <3>1. \A i \in DOMAIN kept : trees'[i] = trees[i]
      BY <2>2 DEF Inv, StoreOK
    <3>2. QED
      BY <1>1, <2>10, <3>1, KeptAgain DEF Inv
  <2>18. spent.edits = 0 /\ Undisturbed => WholeOnDisk' /\ SeenStands(p)'
    <3>1. \A owner : Inspect(owner)' = Inspect(owner)
      BY <2>10, SeenAgain
    <3>2. Undisturbed => SeenStands(p)'
      BY <1>1, <2>12, <3>1 DEF Undisturbed, SeenStands, Asked, Inspect
    <3>3. WholeOnDisk => WholeOnDisk'
      <4>1. \A d \in disk : Dest \in DOMAIN d => trees'[d[Dest]] = trees[d[Dest]]
        BY <2>2 DEF Inv, StoreOK, DirectoryOK
      <4>2. Dest \in DOMAIN entries' => Dest \in DOMAIN entries /\ entries'[Dest] = entries[Dest]
        BY <2>10 DEF DestStays
      <4>3. entries \in disk
        BY DEF Inv, StoreOK
      <4>4. QED
        BY <1>1, <2>3, <4>1, <4>2, <4>3 DEF WholeOnDisk
    <3>4. QED
      BY <3>2, <3>3 DEF Undisturbed
  <2>19. \A name \in DOMAIN entries' \ {Dest} :
           \/ call'[p].stage = name
           \/ name \in DOMAIN entries /\ call[p].stage # name
    BY <1>1, <2>4, <2>12
  <2>20. QED
    BY <1>1, <1>3, <2>9, <2>11, <2>12, <2>13, <2>14, <2>16, <2>17, <2>18, <2>19, PublisherStep
       DEF Publication
<1>4. QED
  BY <1>2, <1>3 DEF CreateStage

\* The stage is filled and synced while nothing else has it.
LEMMA PopulateInv ==
  ASSUME Inv, NEW p \in Processes, Populate(p)
  PROVE  Inv'
<1> DEFINE x == call[p].stage
           asked == Contents(Asked(p).artifact)
<1>1. /\ call[p].at = "populate" /\ CallOK(call[p]) /\ SeenOK(call[p]) /\ StageOK(p)
      /\ DOMAIN call[p] = {"at", "request", "stage", "seen"} /\ call[p].request.op = "publish"
      /\ trees[x] = [marker |-> NoMarker, files |-> trees[x].files]
      /\ UNCHANGED <<entries, disk, known, kept, spent>>
  BY FieldsAt DEF Populate, At, Inv, CallsOK, CallOK, Places, Publication, PublisherOK, Stages
<1>2. /\ x \in DOMAIN trees /\ x \in Trees(Len(trees)) /\ Stage(p) = x
      /\ x \in DOMAIN entries /\ entries[x] = x
      /\ \A d \in disk : Dest \in DOMAIN d => d[Dest] # x
      /\ Dest \in DOMAIN entries => entries[Dest] # x
  BY <1>1, StoreFacts DEF Inv, StageOK, Stage, StoreOK
<1>3. CASE CleanAfter(p, Io) /\ UNCHANGED <<trees, synced>>
  BY <1>1, <1>3, CleanAfterStep DEF At
<1> DEFINE Fills(t) ==
  /\ trees' = [trees EXCEPT ![x] = t]
  /\ synced' \in {synced, synced \cup {x}}
<1>4. ASSUME NEW t, Fills(t)
      PROVE  /\ StoreOK' /\ DestStays /\ trees'[x] = t /\ ForeignDataKept'
             /\ Undisturbed => WholeOnDisk'
             /\ \A owner : Inspect(owner)' = Inspect(owner)
             /\ Trees(Len(trees')) = Trees(Len(trees))
  <2>1. StoreOK' /\ DestStays /\ trees'[x] = t /\ (WholeOnDisk => WholeOnDisk')
    BY <1>1, <1>2, <1>4, TreeChanges DEF Inv
  <2>2. ForeignDataKept'
    BY <1>1, <2>1, KeptAgain DEF Inv
  <2>3. \A owner : Inspect(owner)' = Inspect(owner)
    BY <2>1, SeenAgain
  <2>4. Trees(Len(trees')) = Trees(Len(trees))
    BY <1>2, <1>4, TreeReplaced DEF Inv, StoreOK
  <2>5. QED
    BY <2>1, <2>2, <2>3, <2>4 DEF Undisturbed
<1>5. ASSUME NEW path \in DOMAIN asked \ DOMAIN trees[x].files,
             trees' = [trees EXCEPT ![x].files = Extend(@, Restrict(asked, {path}))],
             UNCHANGED <<synced, call>>
      PROVE  Inv'
  <2> DEFINE t == [trees[x] EXCEPT !.files = Extend(@, Restrict(asked, {path}))]
  <2>1. Fills(t)
    BY <1>2, <1>5
  <2>2. t = [marker |-> NoMarker, files |-> t.files]
    BY <1>1
  <2> HIDE DEF t
  <2>3. /\ StoreOK' /\ DestStays /\ trees'[x] = t /\ ForeignDataKept'
        /\ Undisturbed => WholeOnDisk'
        /\ \A owner : Inspect(owner)' = Inspect(owner)
        /\ Trees(Len(trees')) = Trees(Len(trees))
    BY <1>4, <2>1
  <2>4. CallOK(call[p])' /\ SeenOK(call[p])' /\ ~ At(p, "exchange")'
    BY <1>1, <1>5 DEF CallOK, SeenOK, At
  <2>5. PublisherOK(p)' /\ RetiredIsGone(p)'
    <3>1. StageOK(p)'
      BY <1>1, <1>2, <1>5, <2>3 DEF StageOK, Stage
    <3>2. QED
      BY <1>1, <1>5, <2>2, <2>3, <3>1 DEF PublisherOK, RetiredIsGone, Stages, Filled, Rechecks, At
  <2>6. spent.edits = 0 /\ Undisturbed => WholeOnDisk' /\ SeenStands(p)'
    BY <1>1, <1>5, <2>3 DEF Undisturbed, SeenStands, Asked, Inspect
  <2>7. DOMAIN call' = Processes /\ \A q \in Processes \ {p} : call'[q] = call[q]
    BY <1>5 DEF Inv, CallsOK
  <2>8. \A name \in DOMAIN entries' \ {Dest} :
           \/ name \in known'
           \/ "stage" \in DOMAIN call'[p] /\ call'[p].stage = name
           \/ name \in DOMAIN entries /\ call[p].stage # name
    BY <1>1, <1>5
  <2>9. QED
    BY <1>1, <2>3, <2>4, <2>5, <2>6, <2>7, <2>8, PublisherStep DEF Publication
<1>6. ASSUME trees[x].files = asked,
             trees' = [trees EXCEPT ![x].files = asked, ![x].marker = Manifest(Asked(p))],
             synced' = synced \cup {x},
             NEW seen \in call[p].seen,
             Goto(p, IF seen.state = "missing" THEN "create" ELSE "recheck")
      PROVE  Inv'
  <2> DEFINE t == [[trees[x] EXCEPT !.files = asked] EXCEPT !.marker = Manifest(Asked(p))]
             place == IF seen.state = "missing" THEN "create" ELSE "recheck"
  <2>1. Fills(t)
    BY <1>2, <1>6
  <2>2. t = Complete(call[p].request)
    <3>1. PICK files : trees[x] = [marker |-> NoMarker, files |-> files]
      BY <1>1
    <3>2. QED
      BY <3>1, BothFields DEF Complete, Asked
  <2> HIDE DEF t
  <2>3. /\ StoreOK' /\ DestStays /\ trees'[x] = t /\ ForeignDataKept'
        /\ Undisturbed => WholeOnDisk'
        /\ \A owner : Inspect(owner)' = Inspect(owner)
        /\ Trees(Len(trees')) = Trees(Len(trees))
    BY <1>4, <2>1
  <2>4. /\ call[p].seen = {seen} /\ seen.state \in {"missing", "clean"}
        /\ seen.marker # Manifest(call[p].request)
    BY <1>1 DEF SeenOK, Publication
  <2>5. place = (IF seen.state = "missing" THEN "create" ELSE "recheck") /\ Goto(p, place)
    BY <1>6
  <2> HIDE DEF place
  <2>6. /\ call'[p].at = place /\ call'[p].request = call[p].request
        /\ call'[p].stage = call[p].stage /\ call'[p].seen = call[p].seen
        /\ DOMAIN call' = Processes /\ \A q \in Processes \ {p} : call'[q] = call[q]
        /\ DOMAIN call'[p] = DOMAIN call[p]
        /\ CallOK(call[p])'
    <3>1. Fields(place) = Fields("populate") /\ place \in Publication \cup {"recheck"} /\ place # "stage"
      BY <2>5, FieldsAt DEF Publication, Places
    <3>2. QED
      BY <1>1, <2>5, <3>1, GoesOn DEF Publication
  <2>7. SeenOK(call[p])' /\ ~ At(p, "exchange")'
    BY <2>4, <2>5, <2>6 DEF SeenOK, At
  <2>8. PublisherOK(p)' /\ RetiredIsGone(p)'
    <3>1. StageOK(p)'
      BY <1>1, <1>2, <2>3, <2>6 DEF StageOK, Stage
    <3>2. QED
      BY <1>6, <2>2, <2>3, <2>5, <2>6, <3>1
         DEF PublisherOK, RetiredIsGone, Stages, Filled, Rechecks, At, Asked
  <2>9. spent.edits = 0 /\ Undisturbed => WholeOnDisk' /\ SeenStands(p)'
    BY <1>1, <2>3, <2>5, <2>6 DEF Undisturbed, SeenStands, Asked, Inspect
  <2>10. \A name \in DOMAIN entries' \ {Dest} :
           \/ name \in known'
           \/ "stage" \in DOMAIN call'[p] /\ call'[p].stage = name
           \/ name \in DOMAIN entries /\ call[p].stage # name
    BY <1>1, <2>6
  <2>11. QED
    BY <1>1, <2>3, <2>6, <2>7, <2>8, <2>9, <2>10, PublisherStep DEF Publication
<1>7. QED
  BY <1>2, <1>3, <1>5, <1>6 DEF Populate

-----------------------------------------------------------------------------
(* Commit and removal.                                                      *)

\* A synced stage becomes the destination where there is none.
LEMMA CommitCreateInv ==
  ASSUME Inv, NEW p \in Processes, CommitCreate(p)
  PROVE  Inv'
<1> DEFINE x == call[p].stage
<1>1. /\ call[p].at = "create" /\ CallOK(call[p]) /\ SeenOK(call[p]) /\ StageOK(p)
      /\ DOMAIN call[p] = {"at", "request", "stage", "seen"} /\ call[p].request \in Requests
      /\ trees[x] = Complete(call[p].request) /\ x \in synced
      /\ UNCHANGED <<trees, synced, known, kept, spent>>
  BY FieldsAt DEF CommitCreate, At, Inv, CallsOK, CallOK, Places, PublisherOK, Stages, Filled, Asked
<1>2. DirectoryOK(entries) /\ Len(trees) \in Nat
  BY StoreFacts DEF Inv
<1>3. x \in DOMAIN entries /\ entries[x] = x /\ x \in Trees(Len(trees)) /\ x # Dest /\ Stage(p) = x
  BY <1>1, <1>2 DEF StageOK, Stage, Trees, Dest
<1>4. CASE Dest \in DOMAIN entries /\ CleanAfter(p, Race) /\ UNCHANGED <<entries, disk>>
  <2>1. ~ Undisturbed
    <3>1. PICK seen : call[p].seen = {seen} /\ seen.state = "missing"
      BY <1>1 DEF SeenOK, Publication
    <3>2. Inspect(Asked(p).owner).state # "missing"
      BY <1>4 DEF Inspect, Inspection, State
    <3>3. QED
      BY <1>1, <3>1, <3>2 DEF Undisturbed, SeenStands
  <2>2. QED
    BY <1>1, <1>4, <2>1, CleanAfterStep DEF Filled
<1>5. CASE CleanAfter(p, Io) /\ UNCHANGED <<entries, disk>>
  BY <1>1, <1>5, CleanAfterStep DEF Filled
<1>6. CASE /\ Dest \notin DOMAIN entries
           /\ Store(Drop(Extend(entries, [n \in {Dest} |-> Stage(p)]), x))
           /\ Goto(p, "sync")
  <2>1. /\ entries' = Drop(Extend(entries, [n \in {Dest} |-> x]), x)
        /\ disk' = disk \cup {entries'}
    BY <1>3, <1>6 DEF Store
  <2>2. /\ DOMAIN entries' = (DOMAIN entries \cup {Dest}) \ {x}
        /\ entries'[Dest] = x
        /\ \A n \in DOMAIN entries' \ {Dest} : entries'[n] = entries[n]
    BY <1>3, <2>1 DEF Extend, Drop, Restrict
  <2>3. DirectoryOK(entries)'
    BY <1>1, <1>2, <1>3, <1>6, <2>2 DEF DirectoryOK
  <2>4. StoreOK'
    BY <1>1, <2>1, <2>3 DEF Inv, StoreOK, DirectoryOK
  <2>5. /\ call'[p].at = "sync" /\ call'[p].request = call[p].request
        /\ call'[p].stage = call[p].stage /\ call'[p].seen = call[p].seen
        /\ DOMAIN call' = Processes /\ \A q \in Processes \ {p} : call'[q] = call[q]
        /\ CallOK(call[p])'
    <3>1. Fields("sync") = Fields("create")
      BY FieldsAt DEF Places, Publication
    <3>2. QED
      BY <1>1, <1>6, <3>1, GoesOn DEF Publication
  <2>6. SeenOK(call[p])' /\ ~ At(p, "exchange")'
    BY <1>1, <2>5 DEF SeenOK, At, Publication
  <2>7. PublisherOK(p)' /\ RetiredIsGone(p)' /\ SeenStands(p)'
    <3>1. ~ \E seen \in call'[p].seen : seen.state # "missing"
      BY <1>1, <2>5 DEF SeenOK, Publication
    <3>2. call'[p].stage \notin DOMAIN entries' /\ call'[p].stage # Dest /\ Dest \in DOMAIN entries'
      BY <1>3, <2>2, <2>5
    <3>3. QED
      BY <2>5, <3>1, <3>2 DEF PublisherOK, RetiredIsGone, SeenStands, Stages, Filled, Rechecks, At
  <2>8. ForeignDataKept'
    BY <1>1, <1>6 DEF Inv, ForeignDataKept
  <2>9. WholeOnDisk => WholeOnDisk'
    BY <1>1, <2>1, <2>2 DEF WholeOnDisk
  <2>10. \A name \in DOMAIN entries' \ {Dest} : name \in DOMAIN entries /\ call[p].stage # name
    BY <2>2
  <2>11. QED
    BY <1>1, <2>4, <2>5, <2>6, <2>7, <2>8, <2>9, <2>10, PublisherStep DEF Publication, Undisturbed
<1>7. QED
  BY <1>4, <1>5, <1>6 DEF CommitCreate

\* A synced stage and the destination change places.
LEMMA CommitExchangeInv ==
  ASSUME Inv, NEW p \in Processes, CommitExchange(p)
  PROVE  Inv'
<1> DEFINE x == call[p].stage
<1>1. /\ call[p].at = "exchange" /\ CallOK(call[p]) /\ SeenOK(call[p]) /\ StageOK(p)
      /\ DOMAIN call[p] = {"at", "request", "stage", "seen"} /\ call[p].request \in Requests
      /\ trees[x] = Complete(call[p].request) /\ x \in synced
      /\ UNCHANGED <<trees, synced, known, kept, spent>>
  BY FieldsAt DEF CommitExchange, At, Inv, CallsOK, CallOK, Places, PublisherOK, Stages, Filled, Asked
<1>2. DirectoryOK(entries) /\ Len(trees) \in Nat
  BY StoreFacts DEF Inv
<1>3. x \in DOMAIN entries /\ entries[x] = x /\ x \in Trees(Len(trees)) /\ x # Dest /\ Stage(p) = x
  BY <1>1, <1>2 DEF StageOK, Stage, Trees, Dest
<1>4. CASE CleanAfter(p, Io) /\ UNCHANGED <<entries, disk>>
  BY <1>1, <1>4, CleanAfterStep DEF Filled
<1>5. CASE /\ Dest \in DOMAIN entries
           /\ Store([entries EXCEPT ![Dest] = Stage(p), ![x] = entries[Dest]])
           /\ Goto(p, "sync")
  <2>1. /\ entries' = [entries EXCEPT ![Dest] = x, ![x] = entries[Dest]]
        /\ disk' = disk \cup {entries'}
    BY <1>3, <1>5 DEF Store
  <2>2. /\ DOMAIN entries' = DOMAIN entries
        /\ entries'[Dest] = x /\ entries'[x] = entries[Dest]
        /\ \A n \in DOMAIN entries \ {Dest, x} : entries'[n] = entries[n]
    BY <1>3, <1>5, <2>1
  <2>3. DirectoryOK(entries)'
    <3>1. \A n \in DOMAIN entries' : entries'[n] \in Trees(Len(trees))
      BY <1>2, <1>3, <1>5, <2>2 DEF DirectoryOK
    <3>2. ASSUME NEW m \in DOMAIN entries', NEW n \in DOMAIN entries', entries'[m] = entries'[n]
          PROVE  m = n
      <4> DEFINE other(k) == IF k = Dest THEN x ELSE IF k = x THEN Dest ELSE k
      <4>1. \A k \in DOMAIN entries : entries'[k] = entries[other(k)] /\ other(k) \in DOMAIN entries
        BY <1>3, <1>5, <2>2
      <4>2. other(m) = other(n)
        BY <1>2, <2>2, <3>2, <4>1 DEF DirectoryOK
      <4>3. QED
        BY <1>3, <4>2
    <3>3. QED
      BY <1>1, <1>2, <2>2, <3>1, <3>2 DEF DirectoryOK
  <2>4. StoreOK'
    BY <1>1, <2>1, <2>3 DEF Inv, StoreOK, DirectoryOK
  <2>5. /\ call'[p].at = "sync" /\ call'[p].request = call[p].request
        /\ call'[p].stage = call[p].stage /\ call'[p].seen = call[p].seen
        /\ DOMAIN call' = Processes /\ \A q \in Processes \ {p} : call'[q] = call[q]
        /\ DOMAIN call'[p] = DOMAIN call[p]
        /\ CallOK(call[p])'
    <3>1. Fields("sync") = Fields("exchange")
      BY FieldsAt DEF Places, Publication
    <3>2. QED
      BY <1>1, <1>5, <3>1, GoesOn DEF Publication
  <2>6. SeenOK(call[p])' /\ ~ At(p, "exchange")'
    BY <1>1, <2>5 DEF SeenOK, At, Publication
  <2>7. PublisherOK(p)' /\ RetiredIsGone(p)' /\ SeenStands(p)'
    <3>1. \E seen \in call'[p].seen : seen.state # "missing"
      BY <1>1, <2>5 DEF SeenOK, Publication
    <3>2. call'[p].stage \in DOMAIN entries' /\ call'[p].stage # Dest /\ Dest \in DOMAIN entries'
      BY <1>3, <1>5, <2>2, <2>5
    <3>3. QED
      BY <2>5, <3>1, <3>2 DEF PublisherOK, RetiredIsGone, SeenStands, Stages, Filled, Rechecks, At
  <2>8. ForeignDataKept'
    <3>1. Committing
      BY <1>1 DEF Committing, At
    <3>2. ASSUME NEW id \in DOMAIN kept
          PROVE  kept[id].marker # NoMarker /\ kept[id].files = Files(kept[id].marker)
      <4>1. CASE entries[Dest] = id
        BY <1>5, <3>1, <3>2, <4>1 DEF Inv, LastLook, CleanTree
      <4>2. CASE entries[Dest] # id
        BY <3>2, <4>2 DEF Inv, ForeignDataKept
      <4>3. QED
        BY <4>1, <4>2
    <3>3. QED
      BY <1>1, <3>2 DEF ForeignDataKept, Files
  <2>9. WholeOnDisk => WholeOnDisk'
    BY <1>1, <2>1, <2>2 DEF WholeOnDisk
  <2>10. \A name \in DOMAIN entries' \ {Dest} :
           \/ "stage" \in DOMAIN call'[p] /\ call'[p].stage = name
           \/ name \in DOMAIN entries /\ call[p].stage # name
    BY <1>1, <2>2, <2>5
  <2>11. QED
    BY <1>1, <2>4, <2>5, <2>6, <2>7, <2>8, <2>9, <2>10, PublisherStep DEF Publication, Undisturbed
<1>6. QED
  BY <1>4, <1>5 DEF CommitExchange

\* When the parent is synced, only what it is now is on disk.
LEMMA ParentSynced ==
  ASSUME Inv, disk' = {entries}, UNCHANGED <<entries, trees, synced, kept, spent>>
  PROVE  StoreOK' /\ ForeignDataKept' /\ (WholeOnDisk => WholeOnDisk')
<1>1. StoreOK'
  BY DEF Inv, StoreOK, DirectoryOK
<1>2. ForeignDataKept'
  BY DEF Inv, ForeignDataKept
<1>3. WholeOnDisk => WholeOnDisk'
  BY DEF WholeOnDisk, Inv, StoreOK
<1>4. QED
  BY <1>1, <1>2, <1>3

\* The answer of a publication, at whatever it does last.
LEMMA LastAnswer ==
  ASSUME Inv, NEW p \in Processes, call[p].at \in Publication, NEW result, Answer(p, result),
         UNCHANGED <<kept, spent>>, StoreOK', ForeignDataKept',
         WholeOnDisk => WholeOnDisk',
         \A name \in DOMAIN entries' \ {Dest} :
           \/ name \in Retained(p, result)
           \/ name \in DOMAIN entries /\ call[p].stage # name
  PROVE  Inv'
<1>1. call'[p] = [at |-> "unlock", request |-> call[p].request, result |-> result]
      /\ DOMAIN call' = Processes /\ \A q \in Processes \ {p} : call'[q] = call[q]
  BY DEF Answer, Asked, Inv, CallsOK
<1>2. call'[p].at = "unlock" /\ call'[p].request = call[p].request /\ DOMAIN call'[p] = Fields("unlock")
  BY <1>1, FieldsAt
<1>3. CallOK(call[p])'
  <2>1. call[p].request \in Requests
    BY DEF Inv, CallsOK, CallOK, Publication
  <2>2. QED
    BY <1>2, <2>1 DEF CallOK, Places, Publication
<1>4. SeenOK(call[p])' /\ PublisherOK(p)' /\ SeenStands(p)' /\ RetiredIsGone(p)' /\ ~ At(p, "exchange")'
  BY <1>2, AtRest
<1>5. \A name \in DOMAIN entries' \ {Dest} :
        \/ name \in known'
        \/ name \in DOMAIN entries /\ call[p].stage # name
  BY DEF Answer
<1>7. known \subseteq known'
  BY DEF Answer
<1>8. QED
  BY <1>1, <1>3, <1>4, <1>5, <1>7, PublisherStep DEF Undisturbed

\* The parent is synced: no directory on disk has the old tree any more.
LEMMA SyncParentInv ==
  ASSUME Inv, NEW p \in Processes, SyncParent(p)
  PROVE  Inv'
<1> DEFINE x == call[p].stage
<1>1. /\ call[p].at = "sync" /\ CallOK(call[p]) /\ SeenOK(call[p]) /\ x # Dest
      /\ DOMAIN call[p] = {"at", "request", "stage", "seen"}
      /\ x \in DOMAIN entries <=> \E seen \in call[p].seen : seen.state # "missing"
      /\ UNCHANGED <<entries, trees, synced, kept, spent>>
  BY FieldsAt DEF SyncParent, At, Inv, CallsOK, CallOK, Places, PublisherOK, Publication
<1>2. PICK seen : /\ call[p].seen = {seen} /\ seen.state \in {"missing", "clean"}
                  /\ call[p].request.op = "publish" => seen.marker # Manifest(call[p].request)
  BY <1>1 DEF SeenOK, Publication
<1>3. /\ Outcome(p) = Created <=> seen.state = "missing"
      /\ x \in DOMAIN entries <=> Outcome(p) # Created
  BY <1>1, <1>2, OutcomeOfSeen
<1>4. CASE /\ disk' = {entries} /\ Outcome(p) = Created
           /\ Answer(p, Receipt(Created, "completed", "n/a"))
  <2>1. StoreOK' /\ ForeignDataKept' /\ (WholeOnDisk => WholeOnDisk')
    BY <1>1, <1>4, ParentSynced
  <2>2. QED
    BY <1>1, <1>3, <1>4, <2>1, LastAnswer DEF Publication
<1>5. CASE disk' = {entries} /\ Outcome(p) # Created /\ Goto(p, "retire") /\ UNCHANGED known
  <2>2. StoreOK' /\ ForeignDataKept' /\ (WholeOnDisk => WholeOnDisk')
    BY <1>1, <1>5, ParentSynced
  <2>3. /\ call'[p].at = "retire" /\ call'[p].request = call[p].request
        /\ call'[p].stage = call[p].stage /\ call'[p].seen = call[p].seen
        /\ DOMAIN call' = Processes /\ \A q \in Processes \ {p} : call'[q] = call[q]
        /\ DOMAIN call'[p] = DOMAIN call[p]
        /\ CallOK(call[p])'
    <3>1. Fields("retire") = Fields("sync")
      BY FieldsAt DEF Places, Publication
    <3>2. QED
      BY <1>1, <1>5, <3>1, GoesOn DEF Publication
  <2>4. SeenOK(call[p])' /\ ~ At(p, "exchange")'
    BY <1>2, <1>3, <1>5, <2>3 DEF SeenOK, At
  <2>5. PublisherOK(p)' /\ SeenStands(p)'
    BY <1>1, <1>3, <1>5, <2>3 DEF PublisherOK, SeenStands, Stages, Filled, Rechecks, At
  <2>6. \A name \in DOMAIN entries' \ {Dest} :
           \/ "stage" \in DOMAIN call'[p] /\ call'[p].stage = name
           \/ name \in DOMAIN entries /\ call[p].stage # name
    BY <1>1, <2>3
  <2>7. Undisturbed => RetiredIsGone(p)'
    BY <1>1, <1>5, <2>3 DEF Undisturbed, RetiredIsGone, At
  <2>8. QED
    BY <1>1, <1>5, <2>2, <2>3, <2>4, <2>5, <2>6, <2>7, PublisherStep DEF Publication, Undisturbed
<1>6. CASE /\ Answer(p, Receipt(Outcome(p), "uncertain", IF Outcome(p) = Created THEN "n/a" ELSE "deferred"))
           /\ UNCHANGED disk
  <2> DEFINE result == Receipt(Outcome(p), "uncertain", IF Outcome(p) = Created THEN "n/a" ELSE "deferred")
  <2>1. x \in DOMAIN entries => x \in Retained(p, result)
    BY <1>3 DEF Retained, Receipt
  <2>2. Answer(p, result) /\ Locked(p)
    BY <1>1, <1>6 DEF Locked
  <2> HIDE DEF result
  <2>3. QED
    BY <1>1, <1>6, <2>1, <2>2, AnswerStep
<1>7. QED
  BY <1>4, <1>5, <1>6 DEF SyncParent

\* The contents of a tree go, and then its name: nobody sees it go.
LEMMA EmptyStep ==
  ASSUME Inv, NEW p \in Processes, Empty(p), UNCHANGED <<synced, kept, spent>>,
         call[p].stage \in DOMAIN entries \ {Dest}
  PROVE  /\ StoreOK' /\ DestStays /\ ForeignDataKept'
         /\ Len(trees') = Len(trees)
         /\ WholeOnDisk /\ (\A d \in disk : Dest \in DOMAIN d => d[Dest] # Stage(p)) => WholeOnDisk'
<1>1. Stage(p) \in Trees(Len(trees)) /\ (Dest \in DOMAIN entries => entries[Dest] # Stage(p))
  BY StoreFacts DEF Inv, DirectoryOK, Stage
<1>2. trees' = [trees EXCEPT ![Stage(p)] = EmptyTree] /\ UNCHANGED <<entries, disk>>
  BY DEF Empty
<1>3. /\ StoreOK' /\ DestStays
      /\ WholeOnDisk /\ (\A d \in disk : Dest \in DOMAIN d => d[Dest] # Stage(p)) => WholeOnDisk'
  BY <1>1, <1>2, TreeChanges DEF Inv
<1>4. ForeignDataKept'
  BY <1>3, KeptAgain DEF Inv
<1>5. Len(trees') = Len(trees)
  BY <1>1, <1>2, TreeReplaced DEF Inv, StoreOK
<1>6. QED
  BY <1>3, <1>4, <1>5

\* The old tree is taken apart only when no directory on disk needs it.
LEMMA RetireInv ==
  ASSUME Inv, NEW p \in Processes, Retire(p)
  PROVE  Inv'
<1> DEFINE x == call[p].stage
           receipt(cleanup) == Receipt(Outcome(p), "completed", cleanup)
<1>1. /\ call[p].at \in {"retire", "retired", "resync"} /\ CallOK(call[p]) /\ SeenOK(call[p]) /\ x # Dest
      /\ DOMAIN call[p] = {"at", "request", "stage", "seen"} /\ PublisherOK(p)
      /\ UNCHANGED <<synced, kept, spent>>
  BY FieldsAt DEF Retire, At, Inv, CallsOK, CallOK, Places, PublisherOK, Publication
<1>2. Fields("retire") = Fields("retired") /\ Fields("retired") = Fields("resync")
  BY FieldsAt DEF Places, Publication
<1>3. CASE At(p, "retire") /\ Empty(p) /\ Goto(p, "retired") /\ UNCHANGED known
  <2>1. x \in DOMAIN entries \ {Dest}
    BY <1>3 DEF Inv, CallsOK, PublisherOK, At
  <2>2. /\ StoreOK' /\ DestStays /\ ForeignDataKept' /\ UNCHANGED <<entries, disk>>
        /\ WholeOnDisk /\ (\A d \in disk : Dest \in DOMAIN d => d[Dest] # Stage(p)) => WholeOnDisk'
    BY <1>1, <1>3, <2>1, EmptyStep DEF Empty
  <2>3. /\ call'[p].at = "retired" /\ call'[p].request = call[p].request
        /\ call'[p].stage = call[p].stage /\ call'[p].seen = call[p].seen
        /\ DOMAIN call' = Processes /\ \A q \in Processes \ {p} : call'[q] = call[q]
        /\ DOMAIN call'[p] = DOMAIN call[p]
        /\ CallOK(call[p])'
    BY <1>1, <1>2, <1>3, GoesOn DEF Publication, At
  <2>4. SeenOK(call[p])' /\ ~ At(p, "exchange")'
    BY <1>1, <2>3 DEF SeenOK, At, Publication
  <2>5. PublisherOK(p)' /\ SeenStands(p)'
    BY <2>1, <2>2, <2>3 DEF PublisherOK, SeenStands, Stages, Filled, Rechecks, At
  <2>6. Undisturbed => WholeOnDisk' /\ RetiredIsGone(p)'
    <3>1. Undisturbed => RetiredIsGone(p)
      BY DEF Undisturbed
    <3>2. Undisturbed => RetiredIsGone(p)'
      BY <1>3, <2>2, <2>3, <3>1 DEF RetiredIsGone, At
    <3>3. Dest \in DOMAIN entries => entries[Dest] # Stage(p)
      BY <2>1, StoreFacts DEF Inv, DirectoryOK, Stage
    <3>4. RetiredIsGone(p) => \A d \in disk : Dest \in DOMAIN d => d[Dest] # Stage(p)
      BY <1>3, <3>3 DEF RetiredIsGone, At
    <3>5. QED
      BY <2>2, <3>1, <3>2, <3>4 DEF Undisturbed
  <2>7. \A name \in DOMAIN entries' \ {Dest} :
           \/ "stage" \in DOMAIN call'[p] /\ call'[p].stage = name
           \/ name \in DOMAIN entries /\ call[p].stage # name
    BY <1>1, <2>2, <2>3
  <2>8. QED
    BY <1>1, <1>3, <2>2, <2>3, <2>4, <2>5, <2>6, <2>7, PublisherStep DEF Publication
<1>4. CASE At(p, "retired") /\ RemoveName(p) /\ Goto(p, "resync") /\ UNCHANGED known
  <2>1. /\ StoreOK' /\ DestStays /\ DOMAIN entries' = DOMAIN entries \ {x}
        /\ WholeOnDisk => WholeOnDisk'
        /\ disk' = disk \cup {entries'} /\ trees' = trees
    BY <1>1, <1>4, NameGoes DEF Inv, RemoveName
  <2>2. ForeignDataKept'
    BY <1>1, <2>1, KeptAgain DEF Inv
  <2>3. /\ call'[p].at = "resync" /\ call'[p].request = call[p].request
        /\ call'[p].stage = call[p].stage /\ call'[p].seen = call[p].seen
        /\ DOMAIN call' = Processes /\ \A q \in Processes \ {p} : call'[q] = call[q]
        /\ DOMAIN call'[p] = DOMAIN call[p]
        /\ CallOK(call[p])'
    BY <1>1, <1>2, <1>4, GoesOn DEF Publication, At
  <2>4. SeenOK(call[p])' /\ ~ At(p, "exchange")'
    BY <1>1, <2>3 DEF SeenOK, At, Publication
  <2>5. PublisherOK(p)' /\ SeenStands(p)'
    BY <1>1, <2>1, <2>3 DEF PublisherOK, SeenStands, Stages, Filled, Rechecks, At
  <2>6. Undisturbed => RetiredIsGone(p)'
    BY <1>4, <2>1, <2>3 DEF Undisturbed, RetiredIsGone, At, DestStays
  <2>7. \A name \in DOMAIN entries' \ {Dest} : name \in DOMAIN entries /\ call[p].stage # name
    BY <2>1
  <2>8. QED
    BY <1>1, <1>4, <2>1, <2>2, <2>3, <2>4, <2>5, <2>6, <2>7, PublisherStep DEF Publication, Undisturbed
<1>5. CASE /\ call[p].at \in {"retire", "retired"} /\ Answer(p, receipt("partial"))
           /\ UNCHANGED <<entries, disk, trees>>
  <2>1. x \in Retained(p, receipt("partial")) /\ Locked(p)
    BY <1>1 DEF Retained, Receipt, Locked
  <2>2. QED
    BY <1>1, <1>5, <2>1, AnswerStep
<1>6. CASE At(p, "resync") /\ UNCHANGED <<entries, trees>> /\ disk' = {entries} /\ Answer(p, receipt("complete"))
  <2>1. StoreOK' /\ ForeignDataKept' /\ (WholeOnDisk => WholeOnDisk')
    BY <1>1, <1>6, ParentSynced
  <2>2. x \notin DOMAIN entries
    BY <1>1, <1>6 DEF PublisherOK
  <2>3. QED
    BY <1>1, <1>6, <2>1, <2>2, LastAnswer DEF Publication
<1>7. CASE /\ At(p, "resync") /\ UNCHANGED <<entries, trees, disk>>
           /\ Answer(p, receipt("persistence_uncertain"))
  <2>1. x \notin DOMAIN entries /\ Locked(p)
    BY <1>1, <1>7 DEF PublisherOK, Locked
  <2>2. QED
    BY <1>1, <1>7, <2>1, AnswerStep
<1>8. QED
  BY <1>3, <1>4, <1>5, <1>6, <1>7 DEF Retire

\* A stage that failed is taken apart, and no destination has it.
LEMMA CleanInv ==
  ASSUME Inv, NEW p \in Processes, Clean(p)
  PROVE  Inv'
<1> DEFINE x == call[p].stage
<1>1. /\ call[p].at \in {"clean", "cleaned"} /\ CallOK(call[p]) /\ SeenOK(call[p]) /\ StageOK(p)
      /\ DOMAIN call[p] = {"at", "request", "stage", "seen", "error"} /\ PublisherOK(p)
      /\ UNCHANGED <<synced, kept, spent>>
  BY FieldsAt DEF Clean, At, Inv, CallsOK, CallOK, Places, PublisherOK, Publication, Stages
<1>2. x \in DOMAIN entries \ {Dest} /\ Stage(p) = x /\ x \in Trees(Len(trees))
      /\ \A d \in disk : Dest \in DOMAIN d => d[Dest] # x
  BY <1>1, StoreFacts DEF StageOK, Trees, Dest, Inv
<1>3. CASE At(p, "clean") /\ Empty(p) /\ Goto(p, "cleaned") /\ UNCHANGED known
  <2>1. /\ StoreOK' /\ DestStays /\ ForeignDataKept' /\ UNCHANGED <<entries, disk>>
        /\ Len(trees') = Len(trees) /\ (WholeOnDisk => WholeOnDisk')
    BY <1>1, <1>2, <1>3, EmptyStep DEF Empty
  <2>2. /\ call'[p].at = "cleaned" /\ call'[p].request = call[p].request
        /\ call'[p].stage = call[p].stage /\ call'[p].seen = call[p].seen
        /\ call'[p].error = call[p].error
        /\ DOMAIN call' = Processes /\ \A q \in Processes \ {p} : call'[q] = call[q]
        /\ DOMAIN call'[p] = DOMAIN call[p]
        /\ CallOK(call[p])'
    <3>1. Fields("clean") = Fields("cleaned")
      BY FieldsAt
    <3>2. QED
      BY <1>1, <1>3, <3>1, GoesOn DEF Publication, At
  <2>3. SeenOK(call[p])' /\ ~ At(p, "exchange")'
    BY <1>1, <2>2 DEF SeenOK, At, Publication
  <2>4. PublisherOK(p)' /\ RetiredIsGone(p)'
    <3>1. StageOK(p)'
      BY <1>1, <2>1, <2>2 DEF StageOK, Stage
    <3>2. QED
      BY <2>2, <3>1 DEF PublisherOK, RetiredIsGone, Stages, Filled, Rechecks, At
  <2>5. Undisturbed => SeenStands(p)'
    BY <1>1, <2>2 DEF Undisturbed, SeenStands
  <2>6. \A name \in DOMAIN entries' \ {Dest} :
           \/ "stage" \in DOMAIN call'[p] /\ call'[p].stage = name
           \/ name \in DOMAIN entries /\ call[p].stage # name
    BY <1>1, <2>1, <2>2
  <2>7. QED
    BY <1>1, <1>3, <2>1, <2>2, <2>3, <2>4, <2>5, <2>6, PublisherStep DEF Publication, Undisturbed
<1>4. CASE At(p, "cleaned") /\ RemoveName(p) /\ Answer(p, call[p].error)
  <2>1. /\ StoreOK' /\ DestStays /\ DOMAIN entries' = DOMAIN entries \ {x}
        /\ WholeOnDisk => WholeOnDisk'
    BY <1>1, <1>2, <1>4, NameGoes DEF Inv
  <2>2. ForeignDataKept'
    BY <1>1, <2>1, KeptAgain DEF Inv
  <2>3. \A name \in DOMAIN entries' \ {Dest} : name \in DOMAIN entries /\ call[p].stage # name
    BY <2>1
  <2> DEFINE error == call[p].error
  <2>4. Answer(p, error)
    BY <1>4
  <2> HIDE DEF error
  <2>5. QED
    BY <1>1, <2>1, <2>2, <2>3, <2>4, LastAnswer DEF Publication
<1>5. CASE Answer(p, CleanupAfterFailure(call[p].error)) /\ UNCHANGED <<entries, disk, trees>>
  <2>1. x \in Retained(p, CleanupAfterFailure(call[p].error)) /\ Locked(p)
    BY <1>1 DEF Retained, CleanupAfterFailure, Locked
  <2>2. QED
    BY <1>1, <1>5, <2>1, AnswerStep
<1>6. QED
  BY <1>3, <1>4, <1>5 DEF Clean

-----------------------------------------------------------------------------
(* Power losses, and programs without the lock.                             *)

\* What a power loss takes was not synced, so no destination has it.
LEMMA PowerLossInv ==
  ASSUME Inv, PowerLoss
  PROVE  Inv'
<1>1. PICK directory \in disk :
        entries' = directory /\ disk' = {directory} /\ known' = DOMAIN directory \ {Dest}
  BY DEF PowerLoss
<1>2. PICK lost \in {{}, DOMAIN trees \ synced} :
        trees' = [id \in DOMAIN trees |-> IF id \in lost THEN EmptyTree ELSE trees[id]]
  BY DEF PowerLoss
<1>3. /\ call' = [p \in Processes |-> Idle(Crashed)] /\ kept' = NoEntries /\ UNCHANGED synced
      /\ spent' \in [calls : Nat, losses : Nat, edits : Nat] /\ spent'.edits = spent.edits
  BY DEF PowerLoss, Lose, Inv, StoreOK
<1>4. (\E Any : trees' \in Seq(Any)) /\ Len(trees') = Len(trees)
  <2>1. PICK Any : trees \in Seq(Any)
    BY DEF Inv, StoreOK
  <2>2. Len(trees) \in Nat /\ DOMAIN trees = 1..Len(trees)
    BY <2>1, LenProperties
  <2>3. \A i \in DOMAIN trees : trees[i] \in Any
    BY <2>1, <2>2, ElementOfSeq
  <2>4. trees' \in [DOMAIN trees -> Any \cup {EmptyTree}]
    BY <1>2, <2>3
  <2>5. QED
    BY <2>1, <2>4, SameLength
<1>5. StoreOK'
  <2>1. DOMAIN kept' = {}
    BY <1>3 DEF NoEntries
  <2>2. QED
    BY <1>1, <1>3, <1>4, <2>1 DEF Inv, StoreOK, DirectoryOK
<1>6. \A p \in Processes : call'[p] = [at |-> "idle", result |-> Crashed]
  BY <1>3 DEF Idle
<1>7. \A p \in Processes : /\ SeenOK(call[p])' /\ PublisherOK(p)' /\ SeenStands(p)' /\ RetiredIsGone(p)'
                           /\ ~ At(p, "exchange")'
  BY <1>6, AtRest
<1>8. CallsOK'
  <2>1. \A p \in Processes : CallOK(call[p])'
    BY <1>6, FieldsAt DEF CallOK, Places, Publication
  <2>2. Exclusive'
    BY <1>6 DEF Exclusive, Locked
  <2>3. QED
    BY <1>3, <1>7, <2>1, <2>2 DEF CallsOK
<1>9. StagesAccountedFor'
  BY <1>1 DEF StagesAccountedFor
<1>10. LastLook' /\ ForeignDataKept'
  BY <1>3 DEF LastLook, ForeignDataKept, NoEntries
<1>11. ASSUME spent'.edits = 0
       PROVE  Undisturbed'
  <2>1. WholeOnDisk
    BY <1>3, <1>11 DEF Inv, Undisturbed
  <2>2. DirectoryOK(directory) /\ DOMAIN trees = Trees(Len(trees))
    BY StoreFacts DEF Inv, StoreOK
  <2>3. Dest \in DOMAIN directory => trees'[directory[Dest]] = trees[directory[Dest]]
    BY <1>2, <2>1, <2>2 DEF WholeOnDisk, DirectoryOK
  <2>4. WholeOnDisk'
    BY <1>1, <1>3, <2>1, <2>3 DEF WholeOnDisk
  <2>5. QED
    BY <1>7, <2>4 DEF Undisturbed
<1>12. QED
  BY <1>5, <1>8, <1>9, <1>10, <1>11 DEF Inv

\* Stages are of publishers: programs without the lock leave them alone.
LEMMA ForeignStep ==
  ASSUME Inv, UNCHANGED <<call, known>>, spent'.edits # 0, StoreOK',
         synced \subseteq synced',
         DOMAIN entries' \ {Dest} = DOMAIN entries \ {Dest},
         \A name \in DOMAIN entries \ {Dest} :
           entries'[name] = entries[name] /\ (entries[name] = name => trees'[name] = trees[name]),
         \A d \in disk' \ disk : Dest \in DOMAIN d => d[Dest] \notin DOMAIN entries,
         Trees(Len(trees)) \subseteq Trees(Len(trees')),
         LastLook', ForeignDataKept'
  PROVE  Inv'
<1>1. ASSUME NEW p \in Processes
      PROVE  PublisherOK(p)'
  <2>1. PublisherOK(p) /\ CallOK(call[p])
    BY DEF Inv, CallsOK
  <2>2. Stages(p) => StageOK(p)' /\ trees'[call[p].stage] = trees[call[p].stage]
    <3>1. SUFFICES ASSUME Stages(p), StageOK(p)
                   PROVE  StageOK(p)' /\ trees'[call[p].stage] = trees[call[p].stage]
      BY <2>1 DEF PublisherOK
    <3>2. call[p].stage \in DOMAIN entries \ {Dest}
      BY <3>1, StoreFacts DEF StageOK, Trees, Dest, Inv
    <3>3. \A d \in disk' : Dest \in DOMAIN d => d[Dest] # call[p].stage
      BY <3>1, <3>2 DEF StageOK
    <3>4. QED
      BY <3>1, <3>2, <3>3 DEF StageOK, Stage
  <2>3. call[p].stage # Dest => (call[p].stage \in DOMAIN entries' <=> call[p].stage \in DOMAIN entries)
    OBVIOUS
  <2>4. Stages(p)' = Stages(p) /\ Filled(p)' = Filled(p) /\ Asked(p)' = Asked(p) /\ (Filled(p) => Stages(p))
    BY DEF Stages, Filled, Rechecks, At, Publishes, Asked
  <2>5. At(p, "populate") => Stages(p)
    BY DEF Stages, At
  <2>6. /\ At(p, "populate")' => trees'[call'[p].stage] = [marker |-> NoMarker, files |-> trees'[call'[p].stage].files]
        /\ Filled(p)' => trees'[call'[p].stage] = Complete(Asked(p))' /\ call'[p].stage \in synced'
    BY <2>1, <2>2, <2>4, <2>5 DEF PublisherOK, At, Complete, Manifest
  <2>7. /\ At(p, "sync")' =>
             (call'[p].stage \in DOMAIN entries' <=> \E seen \in call'[p].seen : seen.state # "missing")
        /\ call'[p].at \in {"retire", "retired"} => call'[p].stage \in DOMAIN entries' \ {Dest}
        /\ At(p, "resync")' => call'[p].stage \notin DOMAIN entries'
        /\ call'[p].at \in {"sync", "retire", "retired", "resync"} => call'[p].stage # Dest
    BY <2>1, <2>3 DEF PublisherOK, At
  <2>8. QED
    BY <2>2, <2>4, <2>6, <2>7 DEF PublisherOK
<1>2. CallsOK'
  <2>1. \A p \in Processes : CallOK(call[p])' /\ SeenOK(call[p])'
    BY DEF Inv, CallsOK, CallOK, SeenOK
  <2>2. Exclusive'
    BY DEF Inv, CallsOK, Exclusive, Locked, Publishes, Asked
  <2>3. QED
    BY <1>1, <2>1, <2>2 DEF Inv, CallsOK
<1>3. StagesAccountedFor'
  BY DEF Inv, StagesAccountedFor
<1>4. QED
  BY <1>2, <1>3 DEF Inv

\* A change by others is remembered, unless somebody has looked for the last time.
LEMMA ForeignInv ==
  ASSUME Inv, Foreign
  PROVE  Inv'
<1> DEFINE e == entries[Dest]
<1>1. /\ spent' \in [calls : Nat, losses : Nat, edits : Nat] /\ spent'.edits # 0
      /\ UNCHANGED <<call, known>>
  <2>1. spent \in [calls : Nat, losses : Nat, edits : Nat]
    BY DEF Inv, StoreOK
  <2>2. spent' = [spent EXCEPT !.edits = @ + 1]
    BY DEF Foreign
  <2>3. spent'.edits = spent.edits + 1
    BY <2>1, <2>2
  <2>4. QED
    BY <2>1, <2>2, <2>3 DEF Foreign
<1>2. DirectoryOK(entries) /\ Len(trees) \in Nat /\ Dest \notin Trees(Len(trees))
      /\ Committing' = Committing
  BY <1>1, StoreFacts DEF Inv, Trees, Dest, Committing, At
<1>3. ASSUME NEW tree \in ForeignTrees, Edit(tree)
      PROVE  Inv'
  <2>1. e \in Trees(Len(trees)) /\ Dest \in DOMAIN entries /\ UNCHANGED <<entries, disk, synced>>
    BY <1>2, <1>3 DEF Edit, DirectoryOK
  <2>2. trees' = [trees EXCEPT ![e] = tree]
    BY <1>3 DEF Edit
  <2> HIDE DEF e
  <2>3. /\ \E Any : trees' \in Seq(Any)
        /\ Len(trees') = Len(trees) /\ trees'[e] = tree
        /\ \A i \in Trees(Len(trees)) \ {e} : trees'[i] = trees[i]
    BY <2>1, <2>2, TreeReplaced DEF Inv, StoreOK
  <2>4. \A id \in DOMAIN kept \ {e} : CleanTree(kept[id])
    BY DEF Inv, ForeignDataKept, CleanTree, e
  <2>5. \/ Committing /\ kept' = Drop(kept, e)
        \/ ~ Committing /\ kept' = Extend(kept, [id \in {e} |-> tree])
    BY <1>3 DEF Edit, e
  <2>6. /\ DOMAIN kept' \subseteq DOMAIN kept \cup {e}
        /\ \A id \in DOMAIN kept' \ {e} : id \in DOMAIN kept /\ kept'[id] = kept[id]
        /\ e \in DOMAIN kept' => ~ Committing /\ kept'[e] = tree
    BY <2>5 DEF Drop, Restrict, Extend
  <2>7. StoreOK'
    BY <1>1, <2>1, <2>3, <2>6 DEF Inv, StoreOK, DirectoryOK
  <2>8. LastLook'
    BY <1>2, <2>1, <2>6 DEF LastLook, e
  <2>9. ForeignDataKept'
    <3>1. ASSUME NEW id \in DOMAIN kept'
          PROVE  \/ trees'[id] = kept'[id] /\ Dest \in DOMAIN entries' /\ entries'[Dest] = id
                 \/ CleanTree(kept'[id])
      <4>1. CASE id = e
        BY <2>1, <2>3, <2>6, <4>1 DEF e
      <4>2. CASE id # e
        BY <2>4, <2>6, <4>2
      <4>3. QED
        BY <4>1, <4>2
    <3>2. QED
      BY <3>1 DEF ForeignDataKept, CleanTree, Files
  <2>10. \A name \in DOMAIN entries \ {Dest} : entries[name] = name => trees'[name] = trees[name]
    BY <1>2, <2>1, <2>3 DEF DirectoryOK, e
  <2>11. QED
    BY <1>1, <2>1, <2>3, <2>7, <2>8, <2>9, <2>10, ForeignStep
<1>4. ASSUME NEW tree \in ForeignTrees, Put(tree)
      PROVE  Inv'
  <2> DEFINE id == Len(trees) + 1
  <2>1. /\ Dest \notin DOMAIN entries /\ synced' = synced \cup {id}
        /\ entries' = Extend(entries, [n \in {Dest} |-> id]) /\ disk' = disk \cup {entries'}
        /\ trees' = Append(trees, tree)
    BY <1>4 DEF Put, Store
  <2>2. /\ \E Any : trees' \in Seq(Any)
        /\ Len(trees') = id /\ trees'[id] = tree
        /\ \A i \in Trees(Len(trees)) : trees'[i] = trees[i]
    BY <2>1, Appended DEF Inv, StoreOK
  <2>3. /\ id \notin Trees(Len(trees)) /\ id \in Trees(Len(trees')) /\ id # Dest
        /\ Trees(Len(trees)) \subseteq Trees(Len(trees'))
    BY <1>2, <2>2 DEF Trees, Dest
  <2>4. \/ Committing /\ kept' = kept
        \/ ~ Committing /\ kept' = Extend(kept, [n \in {id} |-> tree])
    BY <1>4 DEF Put
  <2> HIDE DEF id
  <2>5. /\ DOMAIN entries' = DOMAIN entries \cup {Dest} /\ entries'[Dest] = id
        /\ \A n \in DOMAIN entries : entries'[n] = entries[n]
    BY <2>1 DEF Extend
  <2>6. /\ DOMAIN kept' \subseteq DOMAIN kept \cup {id}
        /\ \A i \in DOMAIN kept' \ {id} : i \in DOMAIN kept /\ kept'[i] = kept[i]
        /\ id \in DOMAIN kept' => ~ Committing /\ kept'[id] = tree
    BY <2>3, <2>4 DEF Extend, Inv, StoreOK
  <2>7. StoreOK'
    <3>1. DirectoryOK(entries)'
      BY <1>2, <2>1, <2>3, <2>5 DEF DirectoryOK
    <3>2. \A d \in disk : DirectoryOK(d)'
      BY <2>3 DEF Inv, StoreOK, DirectoryOK
    <3>3. \A d \in disk' : DirectoryOK(d)'
      BY <2>1, <3>1, <3>2
    <3>4. synced' \subseteq Trees(Len(trees')) /\ DOMAIN kept' \subseteq Trees(Len(trees'))
      BY <2>1, <2>3, <2>6 DEF Inv, StoreOK
    <3>5. QED
      BY <1>1, <2>1, <2>2, <3>3, <3>4 DEF StoreOK
  <2>8. LastLook'
    BY <1>2, <2>5, <2>6 DEF LastLook
  <2>9. ForeignDataKept'
    <3>1. ASSUME NEW i \in DOMAIN kept'
          PROVE  \/ trees'[i] = kept'[i] /\ Dest \in DOMAIN entries' /\ entries'[Dest] = i
                 \/ CleanTree(kept'[i])
      <4>1. CASE i = id
        BY <2>2, <2>5, <2>6, <4>1
      <4>2. CASE i # id
        BY <2>1, <2>6, <4>2 DEF Inv, ForeignDataKept, CleanTree
      <4>3. QED
        BY <4>1, <4>2
    <3>2. QED
      BY <3>1 DEF ForeignDataKept, CleanTree, Files
  <2>10. \A name \in DOMAIN entries \ {Dest} :
           entries'[name] = entries[name] /\ (entries[name] = name => trees'[name] = trees[name])
    BY <1>2, <2>2, <2>5 DEF DirectoryOK
  <2>11. id \notin DOMAIN entries
    BY <1>2, <2>3 DEF DirectoryOK
  <2>12. \A d \in disk' \ disk : Dest \in DOMAIN d => d[Dest] \notin DOMAIN entries
    BY <2>1, <2>5, <2>11
  <2>13. QED
    BY <1>1, <2>1, <2>3, <2>5, <2>7, <2>8, <2>9, <2>10, <2>12, ForeignStep
<1>5. ASSUME Remove
      PROVE  Inv'
  <2>1. /\ Dest \in DOMAIN entries /\ UNCHANGED <<trees, synced>>
        /\ entries' = Drop(entries, Dest) /\ disk' = disk \cup {entries'} /\ kept' = Drop(kept, e)
    BY <1>5 DEF Remove, Store
  <2>2. /\ DOMAIN entries' = DOMAIN entries \ {Dest}
        /\ \A n \in DOMAIN entries' : entries'[n] = entries[n]
        /\ DOMAIN kept' = DOMAIN kept \ {e}
        /\ \A i \in DOMAIN kept' : kept'[i] = kept[i]
    BY <2>1, DroppedName
  <2>3. StoreOK'
    BY <1>1, <1>2, <2>1, <2>2 DEF Inv, StoreOK, DirectoryOK
  <2>4. LastLook'
    BY <2>2 DEF LastLook
  <2>5. ForeignDataKept'
    BY <2>1, <2>2 DEF Inv, ForeignDataKept, Files
  <2>6. QED
    BY <1>1, <2>1, <2>2, <2>3, <2>4, <2>5, ForeignStep
<1>6. QED
  BY <1>3, <1>4, <1>5 DEF Foreign

-----------------------------------------------------------------------------
(* The theorems.                                                            *)

\* At first there is nothing.
LEMMA InitInv ==
  ASSUME Init
  PROVE  Inv
<1>1. StoreOK
  <2>1. trees \in Seq({}) /\ Len(trees) = 0
    BY DEF Init
  <2>2. QED
    BY <2>1 DEF Init, StoreOK, DirectoryOK, NoEntries
<1>2. CallsOK
  <2>1. \A p \in Processes : call[p] = [at |-> "idle", result |-> [kind |-> "none"]]
    BY DEF Init, Idle
  <2>2. \A p \in Processes : CallOK(call[p]) /\ SeenOK(call[p]) /\ PublisherOK(p)
    BY <2>1, FieldsAt DEF CallOK, Places, Publication, SeenOK, PublisherOK, Stages, Filled, Rechecks, At
  <2>3. QED
    BY <2>1, <2>2 DEF Init, CallsOK, Exclusive, Locked
<1>3. StagesAccountedFor /\ LastLook /\ ForeignDataKept
  BY DEF Init, NoEntries, StagesAccountedFor, LastLook, ForeignDataKept
<1>4. Undisturbed
  <2>1. \A p \in Processes : call[p].at = "idle"
    BY DEF Init, Idle
  <2>2. QED
    BY <2>1 DEF Init, Undisturbed, WholeOnDisk, SeenStands, RetiredIsGone, At, NoEntries
<1>5. QED
  BY <1>1, <1>2, <1>3, <1>4 DEF Inv

\* The invariant is inductive.
LEMMA NextInv ==
  ASSUME Inv, [Next]_vars
  PROVE  Inv'
<1>1. ASSUME NEW p \in Processes, Step(p)
      PROVE  Inv'
  BY <1>1, LockInv, LookInv, CreateStageInv, PopulateInv, RecheckInv, CommitCreateInv,
     CommitExchangeInv, SyncParentInv, RetireInv, CleanInv, UnlockInv DEF Step
<1>2. CASE Next
  BY <1>1, <1>2, CallInv, CrashInv, PowerLossInv, ForeignInv DEF Next
<1>3. CASE UNCHANGED vars
  <2>1. UNCHANGED <<entries, trees, synced, disk, call, known, kept, spent>>
    BY <1>3 DEF vars
  <2>2. StoreOK' /\ StagesAccountedFor' /\ ForeignDataKept'
    BY <2>1 DEF Inv, StoreOK, DirectoryOK, StagesAccountedFor, ForeignDataKept
  <2>3. LastLook'
    BY <2>1 DEF Inv, LastLook, Committing, At
  <2>4. ASSUME NEW p \in Processes
        PROVE  /\ CallOK(call[p])' /\ SeenOK(call[p])' /\ PublisherOK(p)'
               /\ SeenStands(p) => SeenStands(p)'
               /\ RetiredIsGone(p) => RetiredIsGone(p)'
    BY <2>1, OthersStay DEF Inv
  <2>5. CallsOK'
    BY <2>1, <2>4 DEF Inv, CallsOK, Exclusive, Locked, Publishes, Asked
  <2>6. spent'.edits = 0 => Undisturbed'
    BY <2>1, <2>4 DEF Inv, Undisturbed, WholeOnDisk
  <2>7. QED
    BY <2>2, <2>3, <2>5, <2>6 DEF Inv
<1>4. QED
  BY <1>2, <1>3

\* The inductive invariant holds in every state, of every instance.
THEOREM Invariance == Spec => []Inv
BY InitInv, NextInv, PTL DEF Spec

\* What is at the destination of any directory that may be on disk is a whole
\* tree of a publisher, or nothing.
THEOREM DestinationIsWhole == Spec => []NothingTorn
<1>1. Inv => NothingTorn
  <2>1. SUFFICES ASSUME Inv, spent.edits = 0, NEW directory \in disk
                 PROVE  Shown(directory) # Torn
    BY DEF NothingTorn, Inv, StoreOK
  <2>2. Dest \in DOMAIN directory =>
          /\ directory[Dest] \in synced
          /\ \E request \in Requests : trees[directory[Dest]] = Complete(request)
    BY <2>1 DEF Inv, Undisturbed, WholeOnDisk
  <2>3. CASE Dest \notin DOMAIN directory
    BY <2>3, Manifests DEF Shown
  <2>4. CASE Dest \in DOMAIN directory
    <3>1. PICK request \in Requests : trees[directory[Dest]] = Complete(request)
      BY <2>2, <2>4
    <3>2. trees[directory[Dest]].marker = Manifest(request)
      BY <3>1 DEF Complete
    <3>4. trees[directory[Dest]].files = Files(Manifest(request))
      BY <3>1, Manifests DEF Complete
    <3>5. Manifest(request) # NoMarker /\ directory[Dest] \in synced
      BY <2>2, <2>4, Manifests
    <3>6. Shown(directory) = Manifest(request)
      BY <2>4, <3>2, <3>4, <3>5 DEF Shown
    <3>7. QED
      BY <3>6, Manifests
  <2>5. QED
    BY <2>3, <2>4
<1>2. QED
  BY <1>1, Invariance, PTL

\* What others leave at the destination stays as they left it, unless it was a
\* clean managed tree.
THEOREM OthersAreSafe == Spec => []ForeignDataKept
<1>1. Inv => ForeignDataKept
  BY DEF Inv
<1>2. QED
  BY <1>1, Invariance, PTL

\* Every stage that is left was reported, or was left by a crash.
THEOREM NoStageIsForgotten == Spec => []StagesAccountedFor
<1>1. Inv => StagesAccountedFor
  BY DEF Inv
<1>2. QED
  BY <1>1, Invariance, PTL

-----------------------------------------------------------------------------
(***************************************************************************)
(* LocalPublisher implements ManagedDirectory, for every set of processes  *)
(* and requests and every number of calls and losses, as long as only      *)
(* publishers change the directory.  What the directory shows changes at   *)
(* the commit of a publication; staging, syncing the stage, retiring the   *)
(* old tree and cleaning up are steps nobody can tell.                     *)
(***************************************************************************)

-----------------------------------------------------------------------------
(* The abstract state, and its steps.                                       *)

Current == Shown(entries)
Possible == {Shown(directory) : directory \in disk}
Calls == [p \in Processes |-> PromisedCall(p)]

Implements == [Directory!Next]_(Directory!vars)
Called(p) == Calls[p] = [at |-> "called", request |-> Asked(p)]
Rests(p, result) == Calls' = [Calls EXCEPT ![p] = [at |-> "idle", result |-> result]]
Settles(p, result) == Calls' = [Calls EXCEPT ![p] = [at |-> "settled", result |-> result]]
Failed == [kind |-> "error"]

\* Nothing happens that the abstract directory could tell.
LEMMA NothingSeen ==
  ASSUME UNCHANGED <<Current, Possible, Calls>>
  PROVE  Implements
BY DEF Implements, Current, Possible, Calls, Directory!vars

\* A call begins.
LEMMA IsCall ==
  ASSUME NEW p \in Processes, NEW request \in Requests, Calls[p].at = "idle",
         Calls' = [Calls EXCEPT ![p] = [at |-> "called", request |-> request]],
         UNCHANGED <<Current, Possible>>
  PROVE  Implements
<1>1. Directory!Call(p, request)
  BY DEF Directory!Call, Current, Possible, Calls
<1>2. QED
  BY <1>1 DEF Implements, Directory!Next

\* A call is refused before it was considered.
LEMMA IsRefusal ==
  ASSUME NEW p \in Processes, Calls[p].at \in {"idle", "called"}, Rests(p, Failed),
         UNCHANGED <<Current, Possible>>
  PROVE  Implements
<1>1. Directory!Refuse(p)
  BY DEF Directory!Refuse, Directory!Resting, Directory!Failed, Rests, Failed, Current, Possible, Calls
<1>2. QED
  BY <1>1 DEF Implements, Directory!Next

\* A call fails, and has changed nothing.
LEMMA IsFailure ==
  ASSUME NEW p \in Processes, Called(p), UNCHANGED <<Current, Possible>>,
         \/ Settles(p, Failed)
         \/ /\ Current # NoMarker /\ Current.owner # Asked(p).owner
            /\ Settles(p, [kind |-> "wrong_owner"])
  PROVE  Implements
<1>1. Directory!Fail(p)
  BY DEF Directory!Fail, Directory!Settle, Directory!Failed, Directory!WrongOwner, Directory!Missing,
     Called, Settles, Failed, Current, Possible, Calls, NoMarker
<1>2. QED
  BY <1>1 DEF Implements, Directory!Next

\* A call reports what the directory shows.
LEMMA IsRead ==
  ASSUME NEW p \in Processes, Called(p), ~ Publishes(p), UNCHANGED <<Current, Possible>>,
         \/ Asked(p).op # "diff" /\ Settles(p, [kind |-> "seen", tree |-> Current])
         \/ /\ Asked(p).op = "diff"
            /\ Settles(p, [kind |-> "differs",
                           paths |-> Directory!Difference(Contents(Asked(p).artifact), Files(Current))])
  PROVE  Implements
<1>1. Files(Current) = IF Current = Directory!Missing THEN <<>> ELSE Contents(Current.artifact)
  BY DEF Files, NoMarker, Directory!Missing
<1>2. Calls[p].at = "called" /\ Calls[p].request = Asked(p)
  BY DEF Called
<1>3. Directory!Read(p)
  BY <1>1, <1>2 DEF Directory!Read, Directory!Settle, Directory!Seen, Directory!Differs,
     Settles, Current, Possible, Calls, Publishes
<1>4. QED
  BY <1>3 DEF Implements, Directory!Next

\* A publication that the directory may have.
MayPublish(p) ==
  \/ Current \in {NoMarker, Manifest(Asked(p))}
  \/ Current.owner = Asked(p).owner

\* A publication takes effect.
LEMMA IsPublication ==
  ASSUME NEW p \in Processes, Called(p), Publishes(p), MayPublish(p),
         Settles(p, [kind |-> "receipt",
                     outcome |-> IF Current = NoMarker THEN "created"
                                 ELSE IF Current = Manifest(Asked(p)) THEN "unchanged" ELSE "replaced",
                     previous |-> Current, durable |-> FALSE]),
         Current' = Manifest(Asked(p)), Possible' = Possible \cup {Manifest(Asked(p))}
  PROVE  Implements
<1>1. Calls[p].at = "called" /\ Calls[p].request = Asked(p)
  BY DEF Called
<1>2. Directory!Manifest(Asked(p)) = Manifest(Asked(p)) /\ Manifest(Asked(p)).owner = Asked(p).owner
  BY DEF Manifest, Directory!Manifest
<1>3. Directory!Publish(p)
  BY <1>1, <1>2 DEF Directory!Publish, Directory!Settle, Directory!Receipt, Directory!Missing,
     Settles, Current, Possible, Calls, Publishes, MayPublish, NoMarker
<1>4. QED
  BY <1>3 DEF Implements, Directory!Next

\* A receipt becomes durable when the parent is synced.
LEMMA DurableReceipt ==
  ASSUME NEW outcome, NEW previous, NEW b, NEW c, NEW receipt, NEW answer,
         receipt = [kind |-> "receipt", outcome |-> outcome, previous |-> previous, durable |-> b],
         answer = [at |-> "settled", result |-> receipt]
  PROVE  [answer EXCEPT !.result.durable = c] =
           [at |-> "settled", result |-> [kind |-> "receipt", outcome |-> outcome,
                                          previous |-> previous, durable |-> c]]
<1> DEFINE after == [receipt EXCEPT !.durable = c]
<1>1. after = [kind |-> "receipt", outcome |-> outcome, previous |-> previous, durable |-> c]
  OBVIOUS
<1>2. [answer EXCEPT !.result.durable = c] = [answer EXCEPT !.result = after]
  OBVIOUS
<1> HIDE DEF after
<1>3. [answer EXCEPT !.result = after] = [at |-> "settled", result |-> after]
  OBVIOUS
<1>4. QED
  BY <1>1, <1>2, <1>3

\* A publication becomes durable, and nothing else stays possible.
LEMMA IsSync ==
  ASSUME NEW p \in Processes, NEW outcome, NEW previous,
         Calls[p] = [at |-> "settled", result |-> [kind |-> "receipt", outcome |-> outcome,
                                                   previous |-> previous, durable |-> FALSE]],
         Settles(p, [kind |-> "receipt", outcome |-> outcome, previous |-> previous, durable |-> TRUE]),
         Current' = Current, Possible' = {Current}
  PROVE  Implements
<1>1. Calls' = [Calls EXCEPT ![p].result.durable = TRUE]
  <2>1. PICK b, c : b = FALSE /\ c = TRUE
    BY Zenon
  <2>2. Calls[p] = [at |-> "settled", result |-> [kind |-> "receipt", outcome |-> outcome,
                                                  previous |-> previous, durable |-> b]]
    BY <2>1, Zenon
  <2>3. [Calls[p] EXCEPT !.result.durable = c] =
          [at |-> "settled", result |-> [kind |-> "receipt", outcome |-> outcome,
                                         previous |-> previous, durable |-> c]]
    BY <2>2, DurableReceipt
  <2>4. Calls' = [Calls EXCEPT ![p] = [at |-> "settled", result |-> [kind |-> "receipt", outcome |-> outcome,
                                                                     previous |-> previous, durable |-> c]]]
    BY <2>1, Zenon DEF Settles
  <2>5. Calls' = [Calls EXCEPT ![p].result.durable = c]
    BY <2>3, <2>4
  <2>6. QED
    BY <2>1, <2>5, Zenon
<1>2. Directory!Sync(p)
  BY <1>1 DEF Directory!Sync, Current, Possible, Calls
<1>3. QED
  BY <1>2 DEF Implements, Directory!Next

\* A call returns what it has settled.
LEMMA IsReturn ==
  ASSUME NEW p \in Processes, Calls[p].at = "settled", Rests(p, Calls[p].result),
         UNCHANGED <<Current, Possible>>
  PROVE  Implements
<1>1. Directory!Return(p)
  BY DEF Directory!Return, Directory!Resting, Rests, Current, Possible, Calls
<1>2. QED
  BY <1>1 DEF Implements, Directory!Next

\* A process crashes.
LEMMA IsCrash ==
  ASSUME NEW p \in Processes, Calls[p].at # "idle", Rests(p, Crashed), UNCHANGED <<Current, Possible>>
  PROVE  Implements
<1>1. Directory!Crash(p)
  BY DEF Directory!Crash, Directory!Resting, Directory!Crashed, Rests, Crashed, Current, Possible, Calls
<1>2. QED
  BY <1>1 DEF Implements, Directory!Next

\* A power loss leaves one of the trees that were possible.
LEMMA IsPowerLoss ==
  ASSUME Current' \in Possible, Possible' = {Current'},
         Calls' = [p \in Processes |-> [at |-> "idle", result |-> Crashed]]
  PROVE  Implements
<1>1. Directory!PowerLoss
  BY DEF Directory!PowerLoss, Directory!Resting, Directory!Crashed, Crashed, Current, Possible, Calls
<1>2. QED
  BY <1>1 DEF Implements, Directory!Next

-----------------------------------------------------------------------------
(* The refinement mapping.                                                  *)

Waiting == {"lock", "inspect", "recheck", "stage", "populate", "create", "exchange", "clean", "cleaned"}
Durable(p) == call[p].at \in {"retire", "retired", "resync"}

\* What a call is promised at each place.
PromisedAt ==
  \A p \in Processes :
    /\ At(p, "idle") => Calls[p] = [at |-> "idle", result |-> Promised(call[p].result)]
    /\ At(p, "unlock") => Calls[p] = [at |-> "settled", result |-> Promised(call[p].result)]
    /\ At(p, "sync") => Calls[p] = [at |-> "settled", result |-> PromisedReceipt(Outcome(p), FALSE)]
    /\ Durable(p) => Calls[p] = [at |-> "settled", result |-> PromisedReceipt(Outcome(p), TRUE)]
    /\ call[p].at \in Waiting => Called(p)

\* The mapping gives each place its promise,
LEMMA PromisedCalls == PromisedAt
<1>1. SUFFICES ASSUME NEW p \in Processes
               PROVE  /\ At(p, "idle") => PromisedCall(p) = [at |-> "idle", result |-> Promised(call[p].result)]
                      /\ At(p, "unlock") =>
                           PromisedCall(p) = [at |-> "settled", result |-> Promised(call[p].result)]
                      /\ At(p, "sync") =>
                           PromisedCall(p) = [at |-> "settled", result |-> PromisedReceipt(Outcome(p), FALSE)]
                      /\ Durable(p) =>
                           PromisedCall(p) = [at |-> "settled", result |-> PromisedReceipt(Outcome(p), TRUE)]
                      /\ call[p].at \in Waiting => PromisedCall(p) = [at |-> "called", request |-> Asked(p)]
  BY DEF PromisedAt, Calls, Called
<1>2. At(p, "idle") => PromisedCall(p) = [at |-> "idle", result |-> Promised(call[p].result)]
  BY DEF PromisedCall, At
<1>3. At(p, "unlock") => PromisedCall(p) = [at |-> "settled", result |-> Promised(call[p].result)]
  BY DEF PromisedCall, At
<1>4. At(p, "sync") => PromisedCall(p) = [at |-> "settled", result |-> PromisedReceipt(Outcome(p), FALSE)]
  BY DEF PromisedCall, At
<1>5. Durable(p) => PromisedCall(p) = [at |-> "settled", result |-> PromisedReceipt(Outcome(p), TRUE)]
  BY DEF PromisedCall, At, Durable
<1>6. call[p].at \in Waiting => PromisedCall(p) = [at |-> "called", request |-> Asked(p)]
  BY DEF PromisedCall, At, Waiting
<1>7. QED
  BY <1>2, <1>3, <1>4, <1>5, <1>6

\* also after a step.
LEMMA PromisedCallsNext == PromisedAt'
BY PromisedCalls, PTL

\* What each result promises.
LEMMA PromisedErrors ==
  /\ Promised(Io) = Failed /\ Promised(Error("invalid_request")) = Failed
  /\ Promised(CleanupAfterFailure(Io)) = Failed
  /\ Promised(Error("wrong_owner")) = [kind |-> "wrong_owner"]
  /\ Promised(Crashed) = Crashed
  /\ Promised([kind |-> "none"]) = [kind |-> "none"]
<1>1. Promised(Io) = Failed
  BY DEF Promised, PromisedError, Io, Error, Failed
<1>2. Promised(Error("invalid_request")) = Failed
  BY DEF Promised, PromisedError, Error, Failed
<1>3. Promised(CleanupAfterFailure(Io)) = Failed
  BY DEF Promised, PromisedError, CleanupAfterFailure, Io, Error, Failed
<1>4. Promised(Error("wrong_owner")) = [kind |-> "wrong_owner"]
  BY DEF Promised, PromisedError, Error
<1>5. Promised(Crashed) = Crashed
  BY DEF Promised, Crashed
<1>6. Promised([kind |-> "none"]) = [kind |-> "none"]
  BY DEF Promised
<1>7. QED
  BY <1>1, <1>2, <1>3, <1>4, <1>5, <1>6

\* A receipt promises to be durable when it says completed.
LEMMA PromisedReceipts ==
  ASSUME NEW outcome, NEW sync, NEW cleanup
  PROVE  /\ sync = "completed" => Promised(Receipt(outcome, sync, cleanup)) = PromisedReceipt(outcome, TRUE)
         /\ sync \in {"uncertain", "n/a"} =>
              Promised(Receipt(outcome, sync, cleanup)) = PromisedReceipt(outcome, FALSE)
<1>1. Promised(Receipt(outcome, sync, cleanup)) = PromisedReceipt(outcome, sync = "completed")
  BY DEF Promised, Receipt
<1>2. CASE sync = "completed"
  <2>1. (sync = "completed") = TRUE
    BY <1>2
  <2>2. QED
    BY <1>1, <1>2, <2>1, Zenon
<1>3. CASE sync \in {"uncertain", "n/a"}
  <2>1. (sync = "completed") = FALSE
    BY <1>3
  <2>2. sync # "completed"
    BY <1>3
  <2>3. QED
    BY <1>1, <2>1, <2>2, Zenon
<1>4. QED
  BY <1>2, <1>3

\* Each outcome names what was there before.
LEMMA PromisedOutcomes ==
  ASSUME NEW marker, NEW durable
  PROVE  /\ PromisedReceipt(Created, durable) =
              [kind |-> "receipt", outcome |-> "created", previous |-> NoMarker, durable |-> durable]
         /\ PromisedReceipt(Unchanged(marker), durable) =
              [kind |-> "receipt", outcome |-> "unchanged", previous |-> marker, durable |-> durable]
         /\ PromisedReceipt(Replaced(marker), durable) =
              [kind |-> "receipt", outcome |-> "replaced", previous |-> marker, durable |-> durable]
<1>1. PromisedReceipt(Created, durable) =
        [kind |-> "receipt", outcome |-> "created", previous |-> NoMarker, durable |-> durable]
  BY DEF PromisedReceipt, Created
<1>2. PromisedReceipt(Unchanged(marker), durable) =
        [kind |-> "receipt", outcome |-> "unchanged", previous |-> marker, durable |-> durable]
  BY DEF PromisedReceipt, Unchanged
<1>3. PromisedReceipt(Replaced(marker), durable) =
        [kind |-> "receipt", outcome |-> "replaced", previous |-> marker, durable |-> durable]
  BY DEF PromisedReceipt, Replaced
<1>4. QED
  BY <1>1, <1>2, <1>3

\* What one call is promised changes when it does, and nothing else.
LEMMA PromisedAgain ==
  ASSUME NEW q \in Processes, call'[q] = call[q]
  PROVE  PromisedCall(q)' = PromisedCall(q)
<1>1. Outcome(q)' = Outcome(q)
  BY DEF Outcome, Created, Replaced
<1>2. CASE At(q, "idle") \/ At(q, "unlock")
  BY <1>2 DEF PromisedCall, At
<1>3. CASE At(q, "sync") \/ Durable(q)
  BY <1>1, <1>3 DEF PromisedCall, At, Durable
<1>4. CASE ~ (At(q, "idle") \/ At(q, "unlock") \/ At(q, "sync") \/ Durable(q))
  BY <1>4 DEF PromisedCall, At, Asked, Durable
<1>5. QED
  BY <1>2, <1>3, <1>4

\* A step of one process changes the promise of its call only.
LEMMA OneCallChanges ==
  ASSUME NEW p \in Processes, \A q \in Processes \ {p} : call'[q] = call[q]
  PROVE  Calls' = [Calls EXCEPT ![p] = Calls'[p]]
<1>1. \A q \in Processes \ {p} : PromisedCall(q)' = PromisedCall(q)
  BY PromisedAgain
<1>2. QED
  BY <1>1 DEF Calls

\* A call that goes on waiting is promised what it was.
LEMMA StillWaiting ==
  ASSUME NEW p \in Processes, \A q \in Processes \ {p} : call'[q] = call[q],
         call[p].at \in Waiting, call'[p].at \in Waiting, call'[p].request = call[p].request
  PROVE  Calls' = Calls
<1>1. Calls[p] = [at |-> "called", request |-> call[p].request]
  BY PromisedCalls DEF PromisedAt, Called, Asked
<1>2. Calls'[p] = [at |-> "called", request |-> call'[p].request]
  BY PromisedCallsNext DEF PromisedAt, Called, Asked
<1>3. Calls' = [Calls EXCEPT ![p] = Calls'[p]]
  BY OneCallChanges
<1>4. QED
  BY <1>1, <1>2, <1>3 DEF Calls

\* An answer settles what the call will report.
LEMMA AnswerSettles ==
  ASSUME NEW p \in Processes, DOMAIN call = Processes, NEW result, Answer(p, result)
  PROVE  Settles(p, Promised(result))
<1>1. /\ call'[p] = [at |-> "unlock", request |-> Asked(p), result |-> result]
      /\ \A q \in Processes \ {p} : call'[q] = call[q]
  BY DEF Answer
<1>2. call'[p].at = "unlock" /\ call'[p].result = result
  BY <1>1
<1>3. Promised(call'[p].result) = Promised(result)
  BY <1>2
<1>4. Calls'[p] = [at |-> "settled", result |-> Promised(call'[p].result)]
  BY <1>2, PromisedCallsNext DEF PromisedAt, At, Promised, PromisedError, PromisedReceipt, Files, NoMarker, Conflict
<1>5. Calls' = [Calls EXCEPT ![p] = Calls'[p]]
  BY <1>1, OneCallChanges
<1>6. QED
  BY <1>3, <1>4, <1>5 DEF Settles

-----------------------------------------------------------------------------
(* What the directory shows.                                                *)

Quiet == Inv /\ spent.edits = 0

\* As long as what the directories that may be on disk have at the destination
\* stays, the directory shows the same.
LEMMA ShowsTheSame ==
  ASSUME StoreOK,
         \A d \in disk : Dest \in DOMAIN d =>
           trees'[d[Dest]] = trees[d[Dest]] /\ (d[Dest] \in synced' <=> d[Dest] \in synced),
         Dest \in DOMAIN entries' <=> Dest \in DOMAIN entries,
         Dest \in DOMAIN entries => entries'[Dest] = entries[Dest]
  PROVE  /\ Current' = Current
         /\ disk' \in {disk, disk \cup {entries'}} => Possible' = Possible
         /\ disk' = {entries'} => Possible' = {Current}
<1>1. entries \in disk
  BY DEF StoreOK
<1>2. \A d \in disk : Shown(d)' = Shown(d)
  BY DEF Shown, Files, NoMarker, Torn
<1>3. Current' = Current
  BY <1>1 DEF Current, Shown, Files, NoMarker, Torn
<1>4. disk' = disk => Possible' = Possible
  BY <1>2 DEF Possible
<1>5. disk' = disk \cup {entries'} => Possible' = Possible
  BY <1>1, <1>2, <1>3 DEF Possible, Current
<1>6. disk' = {entries'} => Possible' = {Current}
  BY <1>3 DEF Possible, Current
<1>7. QED
  BY <1>3, <1>4, <1>5, <1>6

\* The directory shows the same while nothing of it changes.
LEMMA Unmoved ==
  ASSUME UNCHANGED <<entries, trees, synced, disk>>
  PROVE  UNCHANGED <<Current, Possible>>
BY DEF Current, Possible, Shown, Files, NoMarker, Torn

\* A tree that no destination has may change.
LEMMA ShowsTheSameWithout ==
  ASSUME StoreOK, NEW x \in Trees(Len(trees)), NEW t, trees' = [trees EXCEPT ![x] = t],
         UNCHANGED <<entries, disk>>, synced' \in {synced, synced \cup {x}},
         \A d \in disk : Dest \in DOMAIN d => d[Dest] # x
  PROVE  UNCHANGED <<Current, Possible>>
<1>1. \A i \in Trees(Len(trees)) \ {x} : trees'[i] = trees[i]
  BY TreeReplaced DEF StoreOK
<1>2. \A d \in disk : Dest \in DOMAIN d => trees'[d[Dest]] = trees[d[Dest]]
  BY <1>1 DEF StoreOK, DirectoryOK
<1>3. QED
  BY <1>2, ShowsTheSame

\* The directory shows nothing or a tree of a publication, and so does whoever
\* looks.
LEMMA ShownIs ==
  ASSUME Quiet
  PROVE  /\ Dest \notin DOMAIN entries => Current = NoMarker
         /\ Dest \in DOMAIN entries =>
              \E request \in Requests :
                Current = Manifest(request) /\ trees[entries[Dest]] = Complete(request)
<1>1. entries \in disk /\ WholeOnDisk
  BY DEF Quiet, Inv, StoreOK, Undisturbed
<1>2. Dest \notin DOMAIN entries => Current = NoMarker
  BY DEF Current, Shown
<1>3. ASSUME Dest \in DOMAIN entries
      PROVE  \E request \in Requests :
               Current = Manifest(request) /\ trees[entries[Dest]] = Complete(request)
  <2>1. PICK request \in Requests : trees[entries[Dest]] = Complete(request)
    BY <1>1, <1>3 DEF WholeOnDisk
  <2>2. /\ trees[entries[Dest]].marker = Manifest(request)
        /\ trees[entries[Dest]].files = Files(Manifest(request))
    BY <2>1, Manifests DEF Complete
  <2>3. Manifest(request) # NoMarker /\ entries[Dest] \in synced
    BY <1>1, <1>3, Manifests DEF WholeOnDisk
  <2>4. QED
    BY <1>3, <2>1, <2>2, <2>3 DEF Current, Shown
<1>4. QED
  BY <1>2, <1>3

\* Whoever looks sees what the directory shows, clean or of another owner.
LEMMA SeenIs ==
  ASSUME Quiet, NEW owner
  PROVE  /\ Inspect(owner).marker = Current /\ Inspect(owner).files = Files(Current)
         /\ Inspect(owner).state \in {"missing", "clean", "wrong_owner"}
         /\ Inspect(owner).state = "missing" <=> Current = NoMarker
         /\ Inspect(owner).state = "wrong_owner" <=> Current # NoMarker /\ Current.owner # owner
         /\ Inspect(owner).state = "missing" <=> Dest \notin DOMAIN entries
<1>1. CASE Dest \notin DOMAIN entries
  <2>1. Inspect(owner) = [state |-> "missing", marker |-> NoMarker, files |-> <<>>]
    BY <1>1 DEF Inspect, Inspection, EmptyTree
  <2>2. Current = NoMarker
    BY <1>1, ShownIs
  <2>3. QED
    BY <1>1, <2>1, <2>2 DEF Files
<1>2. CASE Dest \in DOMAIN entries
  <2>1. PICK request \in Requests :
          Current = Manifest(request) /\ trees[entries[Dest]] = Complete(request)
    BY <1>2, ShownIs
  <2> DEFINE tree == trees[entries[Dest]]
  <2>2. tree.marker = Manifest(request) /\ tree.files = Contents(request.artifact)
    BY <2>1 DEF Complete
  <2> HIDE DEF tree
  <2>3. State(tree, owner) = IF request.owner # owner THEN "wrong_owner" ELSE "clean"
    BY <2>2, Manifests DEF State
  <2>4. Inspect(owner) = Inspection(State(tree, owner), tree)
    BY <1>2, <2>3 DEF Inspect, tree
  <2>5. /\ Inspect(owner).state = State(tree, owner) /\ Inspect(owner).marker = Manifest(request)
        /\ Inspect(owner).files = Contents(request.artifact)
    BY <2>2, <2>4 DEF Inspection
  <2>6. QED
    BY <1>2, <2>1, <2>3, <2>5, Manifests
<1>3. QED
  BY <1>1, <1>2

-----------------------------------------------------------------------------
(* Each step is a step of the abstract directory, or none.                  *)

\* The places of a publication, in the two ways they are spoken of.
LEMMA PlacesOf ==
  ASSUME Quiet, NEW p \in Processes
  PROVE  /\ DOMAIN call = Processes
         /\ call[p].at \in Waiting \cup {"idle", "unlock", "sync", "retire", "retired", "resync"}
         /\ \A q \in Processes \ {p} :
              call[p].at \in Publication => ~ Locked(q)
BY Alone DEF Quiet, Inv, CallsOK, CallOK, Places, Publication, Waiting

\* A request that is not valid is refused at once.
LEMMA CallImplements ==
  ASSUME Quiet, NEW p \in Processes, NEW request \in Requests, Call(p, request)
  PROVE  Implements
<1>1. /\ DOMAIN call = Processes /\ At(p, "idle") /\ UNCHANGED <<Current, Possible>>
      /\ \A q \in Processes \ {p} : call'[q] = call[q]
  BY PlacesOf, Unmoved DEF Call
<1>2. Calls[p].at = "idle"
  <2>1. Calls[p] = [at |-> "idle", result |-> Promised(call[p].result)]
    BY <1>1, PromisedCalls, Zenon DEF PromisedAt
  <2>2. QED
    BY <2>1
<1>3. Calls' = [Calls EXCEPT ![p] = Calls'[p]]
  BY <1>1, OneCallChanges
<1>4. CASE call'[p] = Idle(Error("invalid_request"))
  <2>1. call'[p].at = "idle" /\ Promised(call'[p].result) = Failed
    BY <1>4, PromisedErrors DEF Idle
  <2>2. Rests(p, Failed)
    BY <1>3, <2>1, PromisedCallsNext DEF PromisedAt, At, Rests, Promised, PromisedError,
       PromisedReceipt, Files, NoMarker, Conflict
  <2>3. QED
    BY <1>1, <1>2, <2>2, IsRefusal
<1>5. CASE call'[p] = Locking(request)
  <2>1. call'[p].at = "lock" /\ call'[p].request = request
    BY <1>5 DEF Locking
  <2>2. Calls'[p] = [at |-> "called", request |-> request]
    BY <2>1, PromisedCallsNext DEF PromisedAt, Waiting, Called, Asked
  <2>3. QED
    BY <1>1, <1>2, <1>3, <2>2, IsCall
<1>6. QED
  BY <1>1, <1>4, <1>5 DEF Call

\* To wait for the lock is not seen; not to get it is a refusal.
LEMMA LockImplements ==
  ASSUME Quiet, NEW p \in Processes, Lock(p)
  PROVE  Implements
<1>1. /\ DOMAIN call = Processes /\ At(p, "lock") /\ UNCHANGED <<Current, Possible>>
      /\ \A q \in Processes \ {p} : call'[q] = call[q]
  BY PlacesOf, Unmoved DEF Lock, Goto
<1>2. CASE Goto(p, "inspect")
  <2>1. call'[p] = [call[p] EXCEPT !.at = "inspect"] /\ DOMAIN call[p] = {"at", "request", "stage", "seen"}
    BY <1>1, <1>2, FieldsAt DEF Goto, At, Quiet, Inv, CallsOK, CallOK, Places
  <2>2. call'[p].at = "inspect" /\ call'[p].request = call[p].request
    BY <2>1
  <2>3. Calls' = Calls
    BY <1>1, <2>2, StillWaiting DEF Waiting, At
  <2>4. QED
    BY <1>1, <2>3, NothingSeen
<1>3. CASE call' = [call EXCEPT ![p] = Idle(Io)]
  <2>1. call'[p].at = "idle" /\ Promised(call'[p].result) = Failed
    BY <1>1, <1>3, PromisedErrors DEF Idle
  <2>2. Calls' = [Calls EXCEPT ![p] = Calls'[p]]
    BY <1>1, OneCallChanges
  <2>3. Rests(p, Failed)
    BY <2>1, <2>2, PromisedCallsNext DEF PromisedAt, At, Rests, Promised, PromisedError,
       PromisedReceipt, Files, NoMarker, Conflict
  <2>4. Calls[p].at = "called"
    <3>1. Called(p)
      BY <1>1, PromisedCalls DEF PromisedAt, Waiting, At
    <3>2. QED
      BY <3>1 DEF Called
  <2>5. QED
    BY <1>1, <2>3, <2>4, IsRefusal
<1>4. QED
  BY <1>2, <1>3 DEF Lock

\* The result is returned with the lock.
LEMMA UnlockImplements ==
  ASSUME Quiet, NEW p \in Processes, Unlock(p)
  PROVE  Implements
<1>1. /\ DOMAIN call = Processes /\ At(p, "unlock") /\ UNCHANGED <<Current, Possible>>
      /\ \A q \in Processes \ {p} : call'[q] = call[q]
      /\ call'[p] = [at |-> "idle", result |-> call[p].result]
  BY PlacesOf, Unmoved DEF Unlock, Idle
<1>2. Calls[p] = [at |-> "settled", result |-> Promised(call[p].result)]
  BY <1>1, PromisedCalls DEF PromisedAt
<1>3. call'[p].at = "idle" /\ Promised(call'[p].result) = Promised(call[p].result)
  BY <1>1
<1> DEFINE promised == Promised(call[p].result)
<1>4. Calls'[p] = [at |-> "idle", result |-> promised]
  <2>1. Calls'[p] = [at |-> "idle", result |-> Promised(call'[p].result)]
    BY <1>3, PromisedCallsNext DEF PromisedAt, At, Promised, PromisedError,
       PromisedReceipt, Files, NoMarker, Conflict
  <2>2. QED
    BY <1>3, <2>1, Zenon
<1> HIDE DEF promised
<1>5. Calls' = [Calls EXCEPT ![p] = Calls'[p]]
  BY <1>1, OneCallChanges
<1>6. Rests(p, Calls[p].result) /\ Calls[p].at = "settled"
  <2>1. Calls[p] = [at |-> "settled", result |-> promised]
    BY <1>2 DEF promised
  <2>2. QED
    BY <1>4, <1>5, <2>1 DEF Rests
<1>7. QED
  BY <1>1, <1>6, IsReturn

\* A crash of a process changes nothing that the directory shows.
LEMMA CrashImplements ==
  ASSUME Quiet, NEW p \in Processes, Crash(p)
  PROVE  Implements
<1>1. /\ DOMAIN call = Processes /\ ~ At(p, "idle") /\ UNCHANGED <<Current, Possible>>
      /\ \A q \in Processes \ {p} : call'[q] = call[q]
      /\ call'[p] = [at |-> "idle", result |-> Crashed]
  BY PlacesOf, Unmoved DEF Crash, Lose, Idle
<1>2. Calls[p].at # "idle"
  <2>1. call[p].at \in Waiting \/ At(p, "unlock") \/ At(p, "sync") \/ Durable(p)
    BY <1>1, PlacesOf DEF At, Durable
  <2>2. \/ Called(p)
        \/ Calls[p] = [at |-> "settled", result |-> Promised(call[p].result)]
        \/ \E durable : Calls[p] = [at |-> "settled", result |-> PromisedReceipt(Outcome(p), durable)]
    BY <2>1, PromisedCalls, Zenon DEF PromisedAt
  <2>3. CASE Called(p)
    BY <2>3 DEF Called
  <2>4. CASE \E result : Calls[p] = [at |-> "settled", result |-> result]
    BY <2>4
  <2>5. QED
    BY <2>2, <2>3, <2>4, Zenon
<1>3. call'[p].at = "idle" /\ Promised(call'[p].result) = Crashed
  BY <1>1, PromisedErrors
<1>4. Calls'[p] = [at |-> "idle", result |-> Crashed]
  BY <1>3, PromisedCallsNext DEF PromisedAt, At, Promised, PromisedError,
     PromisedReceipt, Files, NoMarker, Conflict
<1>5. Calls' = [Calls EXCEPT ![p] = Calls'[p]]
  BY <1>1, OneCallChanges
<1>6. Rests(p, Crashed)
  BY <1>4, <1>5 DEF Rests
<1>7. QED
  BY <1>1, <1>2, <1>6, IsCrash

\* What a power loss takes is not shown.
LEMMA PowerLossImplements ==
  ASSUME Quiet, PowerLoss
  PROVE  Implements
<1>1. PICK directory \in disk : entries' = directory /\ disk' = {directory}
  BY DEF PowerLoss
<1>2. PICK lost \in {{}, DOMAIN trees \ synced} :
        trees' = [id \in DOMAIN trees |-> IF id \in lost THEN EmptyTree ELSE trees[id]]
  BY DEF PowerLoss
<1>3. synced' = synced
  BY DEF PowerLoss
<1>4. Dest \in DOMAIN directory => trees'[directory[Dest]] = trees[directory[Dest]]
  <2>1. DOMAIN trees = Trees(Len(trees)) /\ DirectoryOK(directory) /\ WholeOnDisk
    BY StoreFacts DEF Quiet, Inv, StoreOK, Undisturbed
  <2>2. QED
    BY <1>2, <2>1 DEF WholeOnDisk, DirectoryOK
<1>5. Current' = Shown(directory)
  BY <1>1, <1>3, <1>4 DEF Current, Shown, Files, NoMarker, Torn
<1>6. Current' \in Possible /\ Possible' = {Current'}
  BY <1>1, <1>5 DEF Possible, Current
<1>7. \A p \in Processes : call'[p] = [at |-> "idle", result |-> Crashed]
  BY DEF PowerLoss, Lose, Idle
<1>8. \A p \in Processes : call'[p].at = "idle" /\ Promised(call'[p].result) = Crashed
  BY <1>7, PromisedErrors
<1>9. \A p \in Processes : Calls'[p] = [at |-> "idle", result |-> Crashed]
  BY <1>8, PromisedCallsNext DEF PromisedAt, At, Promised, PromisedError,
     PromisedReceipt, Files, NoMarker, Conflict
<1>10. Calls' = [p \in Processes |-> [at |-> "idle", result |-> Crashed]]
  BY <1>9 DEF Calls
<1>11. QED
  BY <1>6, <1>10, IsPowerLoss

\* A call that fails, and its error.
LEMMA FailureImplements ==
  ASSUME Quiet, NEW p \in Processes, call[p].at \in Waiting, UNCHANGED <<Current, Possible>>,
         NEW result, Answer(p, result), Promised(result) = Failed
  PROVE  Implements
<1>1. Called(p)
  BY PromisedCalls DEF PromisedAt
<1>2. Settles(p, Failed)
  BY PlacesOf, AnswerSettles
<1>3. QED
  BY <1>1, <1>2, IsFailure

\* What an inspection reports is what the directory shows.
LEMMA ReportImplements ==
  ASSUME Quiet, NEW p \in Processes, At(p, "inspect"), UNCHANGED <<Current, Possible>>, ~ Publishes(p),
         NEW result, Answer(p, result),
         \/ Asked(p).op # "diff" /\ Promised(result) = [kind |-> "seen", tree |-> Current]
         \/ /\ Asked(p).op = "diff"
            /\ Promised(result) =
                 [kind |-> "differs",
                  paths |-> Directory!Difference(Contents(Asked(p).artifact), Files(Current))]
  PROVE  Implements
<1>1. Called(p)
  BY PromisedCalls DEF PromisedAt, Waiting, At
<1>2. Settles(p, Promised(result))
  BY PlacesOf, AnswerSettles
<1>3. QED
  BY <1>1, <1>2, IsRead

\* The paths of the reported changes are those on which the two disagree.
LEMMA PathsOfChanges ==
  ASSUME NEW expected, NEW observed
  PROVE  {c.path : c \in Changes(expected, observed)} = Directory!Difference(expected, observed)
<1> DEFINE differ == Directory!Difference(expected, observed)
           change(path) == IF path \notin DOMAIN observed THEN "added"
                           ELSE IF path \notin DOMAIN expected THEN "removed" ELSE "changed"
<1>1. Changes(expected, observed) = {[path |-> path, change |-> change(path)] : path \in differ}
  BY DEF Changes, Directory!Difference
<1> DEFINE item(path) == [path |-> path, change |-> change(path)]
<1>2. \A path : item(path).path = path
  OBVIOUS
<1>3. Changes(expected, observed) = {item(path) : path \in differ}
  BY <1>1
<1> HIDE DEF differ, change, item
<1>4. {c.path : c \in {item(path) : path \in differ}} = differ
  BY <1>2
<1>5. QED
  BY <1>3, <1>4 DEF differ

\* A check and a diff read here, an unchanged publication takes effect here.
LEMMA LookImplements ==
  ASSUME Quiet, NEW p \in Processes, Look(p)
  PROVE  Implements
<1> DEFINE seen == Inspect(Asked(p).owner)
<1>1. At(p, "inspect") /\ UNCHANGED <<Current, Possible>> /\ call[p].at \in Waiting
  BY Unmoved DEF Look, At, Waiting
<1>2. /\ seen.marker = Current /\ seen.files = Files(Current)
      /\ seen.state \in {"missing", "clean", "wrong_owner"}
      /\ seen.state = "missing" <=> Current = NoMarker
      /\ seen.state = "wrong_owner" <=> Current # NoMarker /\ Current.owner # Asked(p).owner
  BY SeenIs
<1>3. \/ Answer(p, Io)
      \/ Asked(p).op = "check" /\ Answer(p, CheckReport(seen))
      \/ /\ Asked(p).op = "diff"
         /\ Answer(p, DiffReport(seen, Changes(Contents(Asked(p).artifact), seen.files)))
      \/ Asked(p).op = "snapshot" /\ DecideSnapshot(p, seen)
      \/ Publishes(p) /\ DecidePublish(p, seen)
  BY DEF Look
<1> HIDE DEF seen
<1>4. Called(p)
  BY <1>1, PromisedCalls DEF PromisedAt
<1>5. ASSUME NEW place \in {"stage", "recheck"}, GoOn(p, place, seen)
      PROVE  Implements
  <2>1. DOMAIN call[p] = {"at", "request", "stage", "seen"} /\ DOMAIN call = Processes
    BY <1>1, FieldsAt DEF At, Quiet, Inv, CallsOK, CallOK, Places
  <2>2. call'[p] = [[call[p] EXCEPT !.at = place] EXCEPT !.seen = {seen}]
        /\ \A q \in Processes \ {p} : call'[q] = call[q]
    BY <1>5, <2>1 DEF GoOn
  <2>3. call'[p].at = place /\ call'[p].request = call[p].request
    BY <2>1, <2>2
  <2>4. Calls' = Calls
    BY <1>1, <2>2, <2>3, StillWaiting DEF Waiting
  <2>5. QED
    BY <1>1, <2>4, NothingSeen
<1>6. ASSUME Answer(p, Error("wrong_owner")), seen.state = "wrong_owner"
      PROVE  Implements
  <2>1. Settles(p, [kind |-> "wrong_owner"])
    BY <1>6, PlacesOf, AnswerSettles, PromisedErrors
  <2>2. QED
    BY <1>1, <1>2, <1>4, <1>6, <2>1, IsFailure
<1>7. CASE Answer(p, Io)
  BY <1>1, <1>7, FailureImplements, PromisedErrors
<1>8. CASE Asked(p).op = "check" /\ Answer(p, CheckReport(seen))
  <2>1. Promised(CheckReport(seen)) = [kind |-> "seen", tree |-> Current]
    BY <1>2 DEF Promised, CheckReport
  <2>2. QED
    BY <1>1, <1>8, <2>1, ReportImplements DEF Publishes
<1>9. CASE /\ Asked(p).op = "diff"
           /\ Answer(p, DiffReport(seen, Changes(Contents(Asked(p).artifact), seen.files)))
  <2> DEFINE changes == Changes(Contents(Asked(p).artifact), seen.files)
  <2>1. {c.path : c \in changes} = Directory!Difference(Contents(Asked(p).artifact), Files(Current))
    BY <1>2, PathsOfChanges
  <2>2. Answer(p, DiffReport(seen, changes))
    BY <1>9
  <2> HIDE DEF changes
  <2>3. Promised(DiffReport(seen, changes)) = [kind |-> "differs", paths |-> {c.path : c \in changes}]
    BY <1>2 DEF Promised, DiffReport
  <2>4. QED
    BY <1>1, <1>9, <2>1, <2>2, <2>3, ReportImplements DEF Publishes
<1>10. CASE Asked(p).op = "snapshot" /\ DecideSnapshot(p, seen)
  <2>1. \/ seen.state = "missing" /\ Answer(p, Snapshot(seen))
        \/ seen.state = "wrong_owner" /\ Answer(p, Error("wrong_owner"))
        \/ GoOn(p, "recheck", seen)
    BY <1>2, <1>10 DEF DecideSnapshot
  <2>2. Promised(Snapshot(seen)) = [kind |-> "seen", tree |-> Current]
    BY <1>2 DEF Promised, Snapshot
  <2>3. CASE seen.state = "missing" /\ Answer(p, Snapshot(seen))
    BY <1>1, <1>10, <2>2, <2>3, ReportImplements DEF Publishes
  <2>4. QED
    BY <1>5, <1>6, <2>1, <2>3
<1>11. CASE Publishes(p) /\ DecidePublish(p, seen)
  <2>1. \/ seen.state = "wrong_owner" /\ Answer(p, Error("wrong_owner"))
        \/ /\ seen.marker = Manifest(Asked(p))
           /\ Answer(p, Receipt(Unchanged(seen.marker), "n/a", "n/a"))
        \/ GoOn(p, "stage", seen)
    BY <1>2, <1>11 DEF DecidePublish
  <2>2. CASE /\ seen.marker = Manifest(Asked(p))
             /\ Answer(p, Receipt(Unchanged(seen.marker), "n/a", "n/a"))
    <3>1. Settles(p, PromisedReceipt(Unchanged(Current), FALSE))
      BY <1>2, <2>2, PlacesOf, AnswerSettles, PromisedReceipts
    <3>2. Settles(p, [kind |-> "receipt", outcome |-> "unchanged", previous |-> Current, durable |-> FALSE])
      BY <3>1, PromisedOutcomes DEF Settles
    <3>3. Current = Manifest(Asked(p)) /\ Current # NoMarker
      BY <1>2, <2>2, Manifests
    <3>4. Current \in Possible
      BY DEF Current, Possible, Quiet, Inv, StoreOK
    <3>5. Current' = Manifest(Asked(p)) /\ Possible' = Possible \cup {Manifest(Asked(p))}
      BY <1>1, <3>3, <3>4
    <3>6. QED
      BY <1>4, <1>11, <3>2, <3>3, <3>5, IsPublication DEF MayPublish
  <2>3. QED
    BY <1>5, <1>6, <2>1, <2>2
<1>12. QED
  BY <1>3, <1>7, <1>8, <1>9, <1>10, <1>11

-----------------------------------------------------------------------------
(* The steps of staging, committing and cleaning up.                        *)

\* A call has these fields until it answers.
LEMMA WaitingFields ==
  ASSUME Quiet, NEW p \in Processes, call[p].at \in Waiting \cup {"sync", "retire", "retired", "resync"}
  PROVE  {"at", "request", "stage", "seen"} \subseteq DOMAIN call[p] /\ DOMAIN call = Processes
BY FieldsAt DEF Quiet, Inv, CallsOK, CallOK, Places, Publication, Waiting

\* A call goes from one place to the next.
LEMMA Goes ==
  ASSUME Quiet, NEW p \in Processes, call[p].at \in Waiting \cup {"sync", "retire", "retired", "resync"},
         NEW place, Goto(p, place)
  PROVE  /\ call'[p].at = place /\ call'[p].request = call[p].request /\ call'[p].seen = call[p].seen
         /\ \A q \in Processes \ {p} : call'[q] = call[q]
<1>1. {"at", "request", "stage", "seen"} \subseteq DOMAIN call[p] /\ DOMAIN call = Processes
  BY WaitingFields
<1>2. /\ call'[p] = [call[p] EXCEPT !.at = place]
      /\ \A q \in Processes \ {p} : call'[q] = call[q]
  BY <1>1 DEF Goto
<1>3. QED
  BY <1>1, <1>2

\* A step that nobody can tell, of a call that has not had its effect.
LEMMA WaitsOn ==
  ASSUME Quiet, NEW p \in Processes, call[p].at \in Waiting, UNCHANGED <<Current, Possible>>,
         \/ \E place \in Waiting : Goto(p, place)
         \/ \E error : CleanAfter(p, error)
  PROVE  Implements
<1>1. CASE \E place \in Waiting : Goto(p, place)
  <2>1. PICK place \in Waiting : Goto(p, place)
    BY <1>1
  <2>2. Calls' = Calls
    BY <2>1, Goes, StillWaiting
  <2>3. QED
    BY <2>2, NothingSeen
<1>2. CASE \E error : CleanAfter(p, error)
  <2>1. PICK error : CleanAfter(p, error)
    BY <1>2
  <2>2. {"at", "request", "stage", "seen"} \subseteq DOMAIN call[p] /\ DOMAIN call = Processes
    BY WaitingFields
  <2>3. /\ call'[p] = Extend(call[p], [at |-> "clean", error |-> error])
        /\ \A q \in Processes \ {p} : call'[q] = call[q]
    BY <2>1, <2>2 DEF CleanAfter
  <2>4. call'[p].at = "clean" /\ call'[p].request = call[p].request
    BY <2>2, <2>3 DEF Extend
  <2>5. Calls' = Calls
    BY <2>3, <2>4, StillWaiting DEF Waiting
  <2>6. QED
    BY <2>5, NothingSeen
<1>3. QED
  BY <1>1, <1>2

\* The name of a tree that is not the destination goes.
LEMMA NameGoesUnseen ==
  ASSUME Quiet, NEW p \in Processes, call[p].stage # Dest, RemoveName(p), synced' = synced
  PROVE  UNCHANGED <<Current, Possible>>
<1>1. /\ DOMAIN entries' = DOMAIN entries \ {call[p].stage} /\ disk' = disk \cup {entries'}
      /\ \A n \in DOMAIN entries' : entries'[n] = entries[n]
      /\ trees' = trees
  BY DroppedName DEF RemoveName, Store
<1>2. QED
  BY <1>1, ShowsTheSame DEF Quiet, Inv

\* The second look is like the first: nobody has come between.
LEMMA RecheckImplements ==
  ASSUME Quiet, NEW p \in Processes, Recheck(p)
  PROVE  Implements
<1> DEFINE again == Inspect(Asked(p).owner)
<1>1. /\ At(p, "recheck") /\ UNCHANGED <<Current, Possible>> /\ call[p].at \in Waiting
      /\ call[p].seen = {again}
  BY Unmoved DEF Recheck, At, Waiting, Quiet, Inv, Undisturbed, SeenStands
<1>2. CASE Publishes(p)
  <2>1. Goto(p, "exchange") \/ CleanAfter(p, Io)
    BY <1>1, <1>2 DEF Recheck
  <2>2. QED
    BY <1>1, <2>1, WaitsOn DEF Waiting
<1>3. CASE ~ Publishes(p)
  <2>1. Asked(p).op = "snapshot"
    BY <1>1, <1>3 DEF At, Publishes, Asked, Quiet, Inv, CallsOK, CallOK
  <2>2. again.marker = Current /\ again.files = Files(Current)
    BY SeenIs
  <2>3. Answer(p, Snapshot(again)) \/ Answer(p, Io)
    BY <1>1, <1>3 DEF Recheck
  <2> HIDE DEF again
  <2>4. CASE Answer(p, Io)
    BY <1>1, <2>4, FailureImplements, PromisedErrors
  <2>5. CASE Answer(p, Snapshot(again))
    <3>1. Promised(Snapshot(again)) = [kind |-> "seen", tree |-> Current]
      BY <2>2 DEF Promised, Snapshot
    <3>2. Called(p)
      BY <1>1, PromisedCalls DEF PromisedAt
    <3>3. Settles(p, [kind |-> "seen", tree |-> Current])
      BY <2>5, <3>1, PlacesOf, AnswerSettles
    <3>4. QED
      BY <1>1, <1>3, <2>1, <3>2, <3>3, IsRead
  <2>6. QED
    BY <2>3, <2>4, <2>5
<1>4. QED
  BY <1>2, <1>3

\* A stage is made beside the destination.
LEMMA CreateStageImplements ==
  ASSUME Quiet, NEW p \in Processes, CreateStage(p)
  PROVE  Implements
<1> DEFINE id == Len(trees) + 1
<1>1. call[p].at = "stage" /\ call[p].at \in Waiting /\ synced' = synced
  BY DEF CreateStage, At, Waiting
<1>2. CASE Answer(p, Io) /\ UNCHANGED <<entries, trees, disk>>
  BY <1>1, <1>2, Unmoved, FailureImplements, PromisedErrors
<1>3. CASE /\ trees' = Append(trees, EmptyTree)
           /\ Store(Extend(entries, [n \in {id} |-> id]))
           /\ call' = [call EXCEPT ![p].at = "populate", ![p].stage = id]
  <2>1. Len(trees) \in Nat /\ \A i \in Trees(Len(trees)) : trees'[i] = trees[i]
    BY <1>3, Appended DEF Quiet, Inv, StoreOK
  <2>2. /\ DOMAIN entries' = DOMAIN entries \cup {id} /\ disk' = disk \cup {entries'}
        /\ \A n \in DOMAIN entries \ {id} : entries'[n] = entries[n]
    BY <1>3 DEF Store, Extend
  <2>3. id # Dest
    BY <2>1 DEF Dest
  <2>4. \A d \in disk : Dest \in DOMAIN d => trees'[d[Dest]] = trees[d[Dest]]
    BY <2>1 DEF Quiet, Inv, StoreOK, DirectoryOK
  <2>5. UNCHANGED <<Current, Possible>>
    BY <1>1, <2>2, <2>3, <2>4, ShowsTheSame DEF Quiet, Inv
  <2>6. {"at", "request", "stage", "seen"} \subseteq DOMAIN call[p] /\ DOMAIN call = Processes
    BY <1>1, WaitingFields
  <2>7. /\ call'[p] = [[call[p] EXCEPT !.at = "populate"] EXCEPT !.stage = id]
        /\ \A q \in Processes \ {p} : call'[q] = call[q]
    BY <1>3, <2>6
  <2> HIDE DEF id
  <2>8. call'[p].at = "populate" /\ call'[p].request = call[p].request
    BY <2>6, <2>7
  <2>9. Calls' = Calls
    BY <1>1, <2>7, <2>8, StillWaiting DEF Waiting
  <2>10. QED
    BY <2>5, <2>9, NothingSeen
<1>4. QED
  BY <1>2, <1>3 DEF CreateStage

\* The stage is filled.
LEMMA PopulateImplements ==
  ASSUME Quiet, NEW p \in Processes, Populate(p)
  PROVE  Implements
<1> DEFINE x == Stage(p)
           asked == Contents(Asked(p).artifact)
<1>1. /\ call[p].at = "populate" /\ call[p].at \in Waiting /\ UNCHANGED <<entries, disk>>
      /\ x \in Trees(Len(trees)) /\ x \in DOMAIN trees
      /\ \A d \in disk : Dest \in DOMAIN d => d[Dest] # x
  BY StoreFacts DEF Populate, At, Waiting, Quiet, Inv, CallsOK, PublisherOK, Stages, StageOK
<1>2. CASE CleanAfter(p, Io) /\ UNCHANGED <<trees, synced>>
  BY <1>1, <1>2, Unmoved, WaitsOn
<1>3. ASSUME NEW path \in DOMAIN asked,
             trees' = [trees EXCEPT ![x].files = Extend(@, Restrict(asked, {path}))],
             UNCHANGED <<synced, call>>
      PROVE  Implements
  <2> DEFINE t == [trees[x] EXCEPT !.files = Extend(@, Restrict(asked, {path}))]
  <2>1. trees' = [trees EXCEPT ![x] = t]
    BY <1>1, <1>3
  <2> HIDE DEF t
  <2>2. UNCHANGED <<Current, Possible>>
    BY <1>1, <1>3, <2>1, ShowsTheSameWithout DEF Quiet, Inv
  <2>3. Calls' = Calls
    BY <1>1, <1>3, StillWaiting
  <2>4. QED
    BY <2>2, <2>3, NothingSeen
<1>4. ASSUME trees' = [trees EXCEPT ![x].files = asked, ![x].marker = Manifest(Asked(p))],
             synced' = synced \cup {x},
             NEW place \in {"create", "recheck"}, Goto(p, place)
      PROVE  Implements
  <2> DEFINE t == [[trees[x] EXCEPT !.files = asked] EXCEPT !.marker = Manifest(Asked(p))]
  <2>1. trees' = [trees EXCEPT ![x] = t]
    BY <1>1, <1>4
  <2> HIDE DEF t
  <2>2. UNCHANGED <<Current, Possible>>
    BY <1>1, <1>4, <2>1, ShowsTheSameWithout DEF Quiet, Inv
  <2>3. QED
    BY <1>1, <1>4, <2>2, WaitsOn DEF Waiting
<1>5. QED
  BY <1>2, <1>3, <1>4 DEF Populate

\* What is published when a stage is committed.
LEMMA Published ==
  ASSUME NEW request, UNCHANGED <<trees, synced>>, disk' = disk \cup {entries'},
         Dest \in DOMAIN entries', entries'[Dest] \in synced,
         trees[entries'[Dest]] = Complete(request)
  PROVE  Current' = Manifest(request) /\ Possible' = Possible \cup {Manifest(request)}
<1> DEFINE tree == trees[entries'[Dest]]
<1>1. /\ tree.marker = Manifest(request) /\ tree.files = Contents(request.artifact)
      /\ Manifest(request) # NoMarker /\ Files(Manifest(request)) = Contents(request.artifact)
  BY Manifests DEF Complete
<1> HIDE DEF tree
<1>2. Current' = IF /\ tree.marker # NoMarker
                    /\ tree.files = Files(tree.marker)
                    /\ entries'[Dest] \in synced
                 THEN tree.marker ELSE Torn
  BY DEF Current, Shown, Files, NoMarker, Torn, tree
<1>3. Current' = Manifest(request)
  BY <1>1, <1>2
<1>4. \A d : Shown(d)' = Shown(d)
  BY DEF Shown, Files, NoMarker, Torn
<1>5. Possible' = Possible \cup {Current'}
  BY <1>4 DEF Possible, Current
<1>6. QED
  BY <1>3, <1>5

\* A call that has committed will report so.
LEMMA Commits ==
  ASSUME Quiet, NEW p \in Processes, call[p].at \in Waiting, Goto(p, "sync")
  PROVE  Settles(p, PromisedReceipt(Outcome(p), FALSE))
<1>1. /\ call'[p].at = "sync" /\ call'[p].seen = call[p].seen
      /\ \A q \in Processes \ {p} : call'[q] = call[q]
  BY Goes
<1>2. Outcome(p)' = Outcome(p)
  BY <1>1 DEF Outcome, Created, Replaced
<1>3. Calls'[p] = [at |-> "settled", result |-> PromisedReceipt(Outcome(p)', FALSE)]
  BY <1>1, PromisedCallsNext DEF PromisedAt, At, PromisedReceipt, NoMarker
<1>4. Calls' = [Calls EXCEPT ![p] = Calls'[p]]
  BY <1>1, OneCallChanges
<1>5. QED
  BY <1>2, <1>3, <1>4 DEF Settles

\* A publication takes effect where there was nothing,
LEMMA CommitCreateImplements ==
  ASSUME Quiet, NEW p \in Processes, CommitCreate(p)
  PROVE  Implements
<1> DEFINE x == call[p].stage
<1>1. /\ call[p].at = "create" /\ call[p].at \in Waiting /\ UNCHANGED <<trees, synced>>
      /\ trees[x] = Complete(Asked(p)) /\ x \in synced /\ Stage(p) = x /\ Publishes(p)
      /\ x \in Trees(Len(trees)) /\ Len(trees) \in Nat
  BY StoreFacts DEF CommitCreate, At, Waiting, Quiet, Inv, CallsOK, CallOK, Publication, Publishes,
     Asked, PublisherOK, Stages, Filled, StageOK
<1>2. CASE /\ Dest \notin DOMAIN entries
           /\ Store(Drop(Extend(entries, [n \in {Dest} |-> Stage(p)]), x))
           /\ Goto(p, "sync")
  <2>1. x # Dest
    BY <1>1 DEF Trees, Dest
  <2>2. Dest \in DOMAIN entries' /\ entries'[Dest] = x /\ disk' = disk \cup {entries'}
    BY <1>1, <1>2, <2>1 DEF Store, Extend, Drop, Restrict
  <2>3. Current' = Manifest(Asked(p)) /\ Possible' = Possible \cup {Manifest(Asked(p))}
    BY <1>1, <2>2, Published
  <2>4. Current = NoMarker
    BY <1>2, ShownIs
  <2>5. Outcome(p) = Created
    <3>1. PICK seen : call[p].seen = {seen} /\ seen.state = "missing"
      BY <1>1 DEF Quiet, Inv, CallsOK, SeenOK, Publication
    <3>2. QED
      BY <3>1, OutcomeOfSeen
  <2>6. Settles(p, [kind |-> "receipt", outcome |-> "created", previous |-> NoMarker, durable |-> FALSE])
    <3>1. Settles(p, PromisedReceipt(Created, FALSE))
      BY <1>1, <1>2, <2>5, Commits
    <3>2. PromisedReceipt(Created, FALSE) =
            [kind |-> "receipt", outcome |-> "created", previous |-> NoMarker, durable |-> FALSE]
      BY PromisedOutcomes, Zenon
    <3>3. QED
      BY <3>1, <3>2, Zenon
  <2>7. Called(p)
    BY <1>1, PromisedCalls DEF PromisedAt
  <2>8. QED
    BY <1>1, <2>3, <2>4, <2>6, <2>7, IsPublication DEF MayPublish
<1>3. CASE Dest \in DOMAIN entries /\ CleanAfter(p, Race) /\ UNCHANGED <<entries, disk>>
  BY <1>1, <1>3, Unmoved, WaitsOn
<1>4. CASE CleanAfter(p, Io) /\ UNCHANGED <<entries, disk>>
  BY <1>1, <1>4, Unmoved, WaitsOn
<1>5. QED
  BY <1>2, <1>3, <1>4 DEF CommitCreate

\* or takes the place of what it saw, which is still there.
LEMMA CommitExchangeImplements ==
  ASSUME Quiet, NEW p \in Processes, CommitExchange(p)
  PROVE  Implements
<1> DEFINE x == call[p].stage
           seen == Inspect(Asked(p).owner)
<1>1. /\ call[p].at = "exchange" /\ call[p].at \in Waiting /\ UNCHANGED <<trees, synced>>
      /\ trees[x] = Complete(Asked(p)) /\ x \in synced /\ Stage(p) = x /\ Publishes(p)
      /\ x \in Trees(Len(trees)) /\ Len(trees) \in Nat /\ x \in DOMAIN entries
      /\ call[p].seen = {seen}
  BY StoreFacts DEF CommitExchange, At, Waiting, Quiet, Inv, CallsOK, CallOK, Publication, Publishes,
     Asked, PublisherOK, Stages, Filled, StageOK, Undisturbed, SeenStands
<1>2. seen.state = "clean" /\ seen.marker # Manifest(Asked(p))
  BY <1>1 DEF Quiet, Inv, CallsOK, SeenOK, Publication, Publishes, Asked
<1>3. /\ seen.marker = Current
      /\ seen.state = "missing" <=> Current = NoMarker
      /\ seen.state = "wrong_owner" <=> Current # NoMarker /\ Current.owner # Asked(p).owner
  BY SeenIs
<1> HIDE DEF seen
<1>4. Current # NoMarker /\ Current # Manifest(Asked(p)) /\ Current.owner = Asked(p).owner
  BY <1>2, <1>3
<1>5. CASE /\ Dest \in DOMAIN entries
           /\ Store([entries EXCEPT ![Dest] = Stage(p), ![x] = entries[Dest]])
           /\ Goto(p, "sync")
  <2>1. x # Dest
    BY <1>1 DEF Trees, Dest
  <2>2. Dest \in DOMAIN entries' /\ entries'[Dest] = x /\ disk' = disk \cup {entries'}
    BY <1>1, <1>5, <2>1 DEF Store
  <2>3. Current' = Manifest(Asked(p)) /\ Possible' = Possible \cup {Manifest(Asked(p))}
    BY <1>1, <2>2, Published
  <2>4. Outcome(p) = Replaced(Current)
    BY <1>1, <1>2, <1>3, OutcomeOfSeen
  <2>5. Settles(p, [kind |-> "receipt", outcome |-> "replaced", previous |-> Current, durable |-> FALSE])
    <3>1. Settles(p, PromisedReceipt(Replaced(Current), FALSE))
      BY <1>1, <1>5, <2>4, Commits
    <3>2. PromisedReceipt(Replaced(Current), FALSE) =
            [kind |-> "receipt", outcome |-> "replaced", previous |-> Current, durable |-> FALSE]
      BY PromisedOutcomes, Zenon
    <3>3. QED
      BY <3>1, <3>2, Zenon
  <2>6. Called(p)
    BY <1>1, PromisedCalls DEF PromisedAt
  <2>7. QED
    BY <1>1, <1>4, <2>3, <2>5, <2>6, IsPublication DEF MayPublish
<1>6. CASE CleanAfter(p, Io) /\ UNCHANGED <<entries, disk>>
  BY <1>1, <1>6, Unmoved, WaitsOn
<1>7. QED
  BY <1>5, <1>6 DEF CommitExchange

-----------------------------------------------------------------------------
(* After the commit.                                                        *)

\* A receipt repeats what the commit has settled.
LEMMA ReceiptRepeats ==
  ASSUME Quiet, NEW p \in Processes, NEW durable,
         Calls[p] = [at |-> "settled", result |-> PromisedReceipt(Outcome(p), durable)],
         NEW result, Answer(p, result), Promised(result) = PromisedReceipt(Outcome(p), durable)
  PROVE  Calls' = Calls
<1>1. Settles(p, Promised(result))
  BY PlacesOf, AnswerSettles
<1>2. Settles(p, PromisedReceipt(Outcome(p), durable))
  BY <1>1
<1> DEFINE settled == [at |-> "settled", result |-> PromisedReceipt(Outcome(p), durable)]
<1>3. Calls' = [Calls EXCEPT ![p] = settled] /\ Calls[p] = settled
  BY <1>2 DEF Settles
<1> HIDE DEF settled
<1>4. QED
  BY <1>3 DEF Calls

\* What is on disk is what the directory shows, once it is synced and until the
\* next commit.
LEMMA RetiringPossible ==
  ASSUME Quiet, NEW p \in Processes, Durable(p)
  PROVE  Possible = {Current}
<1>1. \A directory \in disk : Dest \in DOMAIN directory /\ directory[Dest] = entries[Dest]
  BY DEF Quiet, Inv, Undisturbed, RetiredIsGone, Durable
<1>2. entries \in disk
  BY DEF Quiet, Inv, StoreOK
<1>3. \A directory \in disk : Shown(directory) = Current
  BY <1>1, <1>2 DEF Shown, Current
<1>4. QED
  BY <1>2, <1>3 DEF Possible, Current

\* The outcome of a commit, as it is promised.
LEMMA OutcomePromised ==
  ASSUME Quiet, NEW p \in Processes, At(p, "sync")
  PROVE  \E outcome, previous : \A durable :
           PromisedReceipt(Outcome(p), durable) =
             [kind |-> "receipt", outcome |-> outcome, previous |-> previous, durable |-> durable]
<1>1. PICK seen : call[p].seen = {seen}
  BY DEF Quiet, Inv, CallsOK, SeenOK, Publication, At
<1>2. Outcome(p) = Created \/ Outcome(p) = Replaced(seen.marker)
  BY <1>1, OutcomeOfSeen
<1>3. \A durable :
        /\ PromisedReceipt(Created, durable) =
             [kind |-> "receipt", outcome |-> "created", previous |-> NoMarker, durable |-> durable]
        /\ PromisedReceipt(Replaced(seen.marker), durable) =
             [kind |-> "receipt", outcome |-> "replaced", previous |-> seen.marker, durable |-> durable]
  BY PromisedOutcomes, Zenon
<1>4. QED
  BY <1>2, <1>3, Zenon

\* Once the parent is synced, the publication survives a power loss.
LEMMA SyncParentImplements ==
  ASSUME Quiet, NEW p \in Processes, SyncParent(p)
  PROVE  Implements
<1>1. At(p, "sync") /\ call[p].at = "sync" /\ UNCHANGED <<entries, trees, synced>>
  BY DEF SyncParent, At
<1>2. Calls[p] = [at |-> "settled", result |-> PromisedReceipt(Outcome(p), FALSE)]
  BY <1>1, PromisedCalls, Zenon DEF PromisedAt
<1>3. CASE disk' = {entries} /\ Settles(p, PromisedReceipt(Outcome(p), TRUE))
  <2>1. Current' = Current /\ Possible' = {Current}
    BY <1>1, <1>3, ShowsTheSame DEF Quiet, Inv
  <2>2. PICK outcome, previous : \A durable :
          PromisedReceipt(Outcome(p), durable) =
            [kind |-> "receipt", outcome |-> outcome, previous |-> previous, durable |-> durable]
    BY <1>1, OutcomePromised
  <2>3. Calls[p] = [at |-> "settled", result |-> [kind |-> "receipt", outcome |-> outcome,
                                                  previous |-> previous, durable |-> FALSE]]
    BY <1>2, <2>2, Zenon
  <2>4. Settles(p, [kind |-> "receipt", outcome |-> outcome, previous |-> previous, durable |-> TRUE])
    BY <1>3, <2>2, Zenon
  <2>5. QED
    BY <2>1, <2>3, <2>4, IsSync
<1>4. CASE /\ disk' = {entries} /\ Outcome(p) = Created
           /\ Answer(p, Receipt(Created, "completed", "n/a"))
  <2>1. Settles(p, Promised(Receipt(Outcome(p), "completed", "n/a")))
    BY <1>4, PlacesOf, AnswerSettles
  <2>2. Promised(Receipt(Outcome(p), "completed", "n/a")) = PromisedReceipt(Outcome(p), TRUE)
    BY PromisedReceipts
  <2>3. QED
    BY <1>3, <1>4, <2>1, <2>2
<1>5. CASE disk' = {entries} /\ Goto(p, "retire")
  <2>1. /\ call'[p].at = "retire" /\ call'[p].seen = call[p].seen
        /\ \A q \in Processes \ {p} : call'[q] = call[q]
    BY <1>1, <1>5, Goes
  <2>2. Outcome(p)' = Outcome(p)
    BY <2>1 DEF Outcome, Created, Replaced
  <2>3. Calls'[p] = [at |-> "settled", result |-> PromisedReceipt(Outcome(p)', TRUE)]
    BY <2>1, PromisedCallsNext DEF PromisedAt, Durable, PromisedReceipt, NoMarker
  <2>4. Calls' = [Calls EXCEPT ![p] = Calls'[p]]
    BY <2>1, OneCallChanges
  <2>5. Settles(p, PromisedReceipt(Outcome(p), TRUE))
    BY <2>2, <2>3, <2>4 DEF Settles
  <2>6. QED
    BY <1>3, <1>5, <2>5
<1>6. CASE /\ Answer(p, Receipt(Outcome(p), "uncertain",
                                IF Outcome(p) = Created THEN "n/a" ELSE "deferred"))
           /\ UNCHANGED disk
  <2> DEFINE result == Receipt(Outcome(p), "uncertain", IF Outcome(p) = Created THEN "n/a" ELSE "deferred")
  <2>1. Promised(result) = PromisedReceipt(Outcome(p), FALSE)
    BY PromisedReceipts
  <2>2. Answer(p, result)
    BY <1>6
  <2> HIDE DEF result
  <2>3. Calls' = Calls
    BY <1>2, <2>1, <2>2, ReceiptRepeats
  <2>4. QED
    BY <1>1, <1>6, <2>3, Unmoved, NothingSeen
<1>7. QED
  BY <1>4, <1>5, <1>6 DEF SyncParent

\* The old tree goes, and nobody can tell.
LEMMA RetireImplements ==
  ASSUME Quiet, NEW p \in Processes, Retire(p)
  PROVE  Implements
<1> DEFINE receipt(cleanup) == Receipt(Outcome(p), "completed", cleanup)
<1>1. Durable(p) /\ call[p].at \in {"retire", "retired", "resync"} /\ synced' = synced
  BY DEF Retire, At, Durable
<1>2. Calls[p] = [at |-> "settled", result |-> PromisedReceipt(Outcome(p), TRUE)]
  BY <1>1, PromisedCalls, Zenon DEF PromisedAt
<1>3. ASSUME NEW place \in {"retired", "resync"}, Goto(p, place)
      PROVE  Calls' = Calls
  <2>1. /\ call'[p].at = place /\ call'[p].seen = call[p].seen
        /\ \A q \in Processes \ {p} : call'[q] = call[q]
    BY <1>1, <1>3, Goes
  <2>2. Outcome(p)' = Outcome(p)
    BY <2>1 DEF Outcome, Created, Replaced
  <2>3. Calls'[p] = [at |-> "settled", result |-> PromisedReceipt(Outcome(p)', TRUE)]
    BY <2>1, PromisedCallsNext DEF PromisedAt, Durable, PromisedReceipt, NoMarker
  <2>4. Calls' = [Calls EXCEPT ![p] = Calls'[p]]
    BY <2>1, OneCallChanges
  <2>5. Calls'[p] = Calls[p]
    BY <1>2, <2>2, <2>3, Zenon
  <2>6. QED
    BY <2>4, <2>5 DEF Calls
<1>4. ASSUME NEW cleanup, Answer(p, receipt(cleanup))
      PROVE  Calls' = Calls
  <2>1. Promised(receipt(cleanup)) = PromisedReceipt(Outcome(p), TRUE)
    BY PromisedReceipts
  <2> HIDE DEF receipt
  <2>2. QED
    BY <1>2, <1>4, <2>1, ReceiptRepeats
<1>5. CASE At(p, "retire") /\ Empty(p) /\ Goto(p, "retired")
  <2>1. call[p].stage \in DOMAIN entries \ {Dest} /\ DirectoryOK(entries)
    BY <1>5, StoreFacts DEF At, Quiet, Inv, CallsOK, PublisherOK
  <2>2. Stage(p) \in Trees(Len(trees)) /\ Dest \in DOMAIN entries => entries[Dest] # Stage(p)
    BY <2>1 DEF DirectoryOK, Stage
  <2>3. \A d \in disk : Dest \in DOMAIN d => d[Dest] # Stage(p)
    BY <1>1, <2>1, <2>2 DEF Quiet, Inv, Undisturbed, RetiredIsGone, DirectoryOK, Stage
  <2>4. UNCHANGED <<Current, Possible>>
    BY <1>1, <1>5, <2>1, <2>3, ShowsTheSameWithout DEF Empty, Quiet, Inv, DirectoryOK, Stage
  <2>5. QED
    BY <1>3, <1>5, <2>4, NothingSeen
<1>6. CASE At(p, "retired") /\ RemoveName(p) /\ Goto(p, "resync")
  <2>1. call[p].stage # Dest
    BY <1>6 DEF At, Quiet, Inv, CallsOK, PublisherOK
  <2>2. UNCHANGED <<Current, Possible>>
    BY <1>1, <1>6, <2>1, NameGoesUnseen
  <2>3. QED
    BY <1>3, <1>6, <2>2, NothingSeen
<1>7. CASE UNCHANGED <<entries, disk, trees>> /\ \E cleanup : Answer(p, receipt(cleanup))
  BY <1>1, <1>4, <1>7, Unmoved, NothingSeen
<1>8. CASE UNCHANGED <<entries, trees>> /\ disk' = {entries} /\ \E cleanup : Answer(p, receipt(cleanup))
  <2>1. Current' = Current /\ Possible' = {Current}
    BY <1>1, <1>8, ShowsTheSame DEF Quiet, Inv
  <2>2. UNCHANGED <<Current, Possible>>
    BY <1>1, <2>1, RetiringPossible
  <2>3. QED
    BY <1>4, <1>8, <2>2, NothingSeen
<1> HIDE DEF receipt
<1>9. QED
  BY <1>5, <1>6, <1>7, <1>8 DEF Retire, receipt

\* A stage that was not committed goes, and the error is reported.
LEMMA CleanImplements ==
  ASSUME Quiet, NEW p \in Processes, Clean(p)
  PROVE  Implements
<1>1. /\ call[p].at \in {"clean", "cleaned"} /\ call[p].at \in Waiting /\ synced' = synced
      /\ call[p].error = Io
  BY DEF Clean, At, Waiting, Quiet, Inv, Undisturbed, SeenStands
<1>2. /\ Stage(p) \in Trees(Len(trees)) /\ call[p].stage # Dest
      /\ \A d \in disk : Dest \in DOMAIN d => d[Dest] # Stage(p)
  <2>1. StageOK(p)
    BY <1>1 DEF Quiet, Inv, CallsOK, PublisherOK, Stages, At
  <2>2. Len(trees) \in Nat
    BY StoreFacts DEF Quiet, Inv
  <2>3. QED
    BY <2>1, <2>2 DEF StageOK, Trees, Dest
<1>3. CASE At(p, "clean") /\ Empty(p) /\ Goto(p, "cleaned")
  <2>1. UNCHANGED <<Current, Possible>>
    BY <1>1, <1>2, <1>3, ShowsTheSameWithout DEF Empty, Quiet, Inv
  <2>2. QED
    BY <1>1, <1>3, <2>1, WaitsOn DEF Waiting
<1>4. CASE RemoveName(p) /\ Answer(p, call[p].error)
  <2>1. UNCHANGED <<Current, Possible>>
    BY <1>1, <1>2, <1>4, NameGoesUnseen
  <2>2. Answer(p, Io)
    BY <1>1, <1>4
  <2>3. QED
    BY <1>1, <2>1, <2>2, FailureImplements, PromisedErrors
<1>5. CASE Answer(p, CleanupAfterFailure(call[p].error)) /\ UNCHANGED <<entries, disk, trees>>
  <2>1. Answer(p, CleanupAfterFailure(Io))
    BY <1>1, <1>5
  <2>2. QED
    BY <1>1, <1>5, <2>1, Unmoved, FailureImplements, PromisedErrors
<1>6. QED
  BY <1>3, <1>4, <1>5 DEF Clean

-----------------------------------------------------------------------------
(* The refinement.                                                          *)

\* The empty directory shows nothing.
LEMMA InitImplements ==
  ASSUME Init
  PROVE  Directory!Init
<1>1. Current = NoMarker /\ Possible = {NoMarker}
  BY DEF Init, Current, Possible, Shown, NoEntries, Dest
<1>2. \A p \in Processes : At(p, "idle") /\ Promised(call[p].result) = [kind |-> "none"]
  BY PromisedErrors DEF Init, At, Idle
<1>3. \A p \in Processes : Calls[p] = [at |-> "idle", result |-> [kind |-> "none"]]
  BY <1>2, PromisedCalls DEF PromisedAt
<1>4. Calls = [p \in Processes |-> [at |-> "idle", result |-> [kind |-> "none"]]]
  BY <1>3 DEF Calls
<1>5. QED
  BY <1>1, <1>4 DEF Directory!Init, Directory!Missing, Directory!Resting, Directory!NotCalled,
     NoMarker, Current, Possible, Calls

\* Every step of the publishers is a step of the abstract directory or one that
\* it cannot tell.
LEMMA StepImplements ==
  ASSUME Quiet, spent'.edits = 0, [Next]_vars
  PROVE  Implements
<1>1. CASE UNCHANGED vars
  <2>1. UNCHANGED <<Current, Possible>>
    BY <1>1, Unmoved DEF vars
  <2>2. \A p \in Processes : PromisedCall(p)' = PromisedCall(p)
    BY <1>1, PromisedAgain DEF vars
  <2>3. Calls' = Calls
    BY <2>2 DEF Calls
  <2>4. QED
    BY <2>1, <2>3, NothingSeen
<1>2. ASSUME NEW p \in Processes, NEW request \in Requests, Call(p, request)
      PROVE  Implements
  BY <1>2, CallImplements
<1>3. ASSUME NEW p \in Processes, Step(p)
      PROVE  Implements
  BY <1>3, LockImplements, LookImplements, CreateStageImplements, PopulateImplements,
     RecheckImplements, CommitCreateImplements, CommitExchangeImplements, SyncParentImplements,
     RetireImplements, CleanImplements, UnlockImplements DEF Step
<1>4. ASSUME NEW p \in Processes, Crash(p)
      PROVE  Implements
  BY <1>4, CrashImplements
<1>5. CASE PowerLoss
  BY <1>5, PowerLossImplements
<1>6. ~ Foreign
  <2>1. spent.edits = 0 /\ spent \in [calls : Nat, losses : Nat, edits : Nat]
    BY DEF Quiet, Inv, StoreOK
  <2>2. Foreign => spent'.edits = spent.edits + 1
    BY <2>1 DEF Foreign
  <2>3. QED
    BY <2>1, <2>2
<1>7. QED
  BY <1>1, <1>2, <1>3, <1>4, <1>5, <1>6 DEF Next

\* As long as nobody but publishers changes the directory, every behaviour of
\* LocalPublisher is one of ManagedDirectory: a publication takes effect in one
\* step or not at all, a reader sees one published tree, an error means that
\* nothing was changed, no conflict is reported, and what a receipt calls
\* synced is what every power loss leaves.
THEOREM PublishersImplementTheDirectory ==
  Spec /\ [](spent.edits = 0) => ImplementsManagedDirectory
<1>1. Init => Directory!Init
  BY InitImplements
<1> DEFINE Still == spent.edits = 0
<1>2. Inv /\ Still /\ Still' /\ [Next]_vars => [Directory!Next]_(Directory!vars)
  BY StepImplements DEF Quiet, Implements
<1> HIDE DEF Still
<1>3. Spec /\ []Still => ImplementsManagedDirectory
  BY <1>1, <1>2, Invariance, PTL DEF Spec, ImplementsManagedDirectory, Directory!Spec
<1>4. QED
  BY <1>3 DEF Still

\* The instance that the runs check: nobody else may change the directory.
THEOREM Refinement ==
  ASSUME MaxEdits = 0
  PROVE  Spec => ImplementsManagedDirectory
<1> DEFINE Still == spent.edits = 0
<1>1. Init => Still
  BY DEF Init
<1>2. Inv /\ Still /\ [Next]_vars => Still'
  <2> SUFFICES ASSUME Inv, spent.edits = 0, [Next]_vars
               PROVE  spent'.edits = 0
    OBVIOUS
  <2>1. spent \in [calls : Nat, losses : Nat, edits : Nat]
    BY DEF Inv, StoreOK
  <2>2. ASSUME NEW p \in Processes, NEW request \in Requests, Call(p, request)
        PROVE  spent'.edits = spent.edits
    BY <2>1, <2>2 DEF Call
  <2>3. ASSUME NEW p \in Processes, Step(p)
        PROVE  spent' = spent
    BY <2>3 DEF Step, Lock, Look, CreateStage, Populate, Recheck, CommitCreate, CommitExchange,
       SyncParent, Retire, Clean, Unlock
  <2>4. ASSUME NEW p \in Processes, Crash(p)
        PROVE  spent'.edits = spent.edits
    BY <2>1, <2>4 DEF Crash, Lose
  <2>5. CASE PowerLoss
    BY <2>1, <2>5 DEF PowerLoss, Lose
  <2>6. ~ Foreign
    BY DEF Foreign
  <2>7. CASE UNCHANGED vars
    BY <2>7 DEF vars
  <2>8. QED
    BY <2>2, <2>3, <2>4, <2>5, <2>6, <2>7 DEF Next
<1>3. Spec /\ []Still => ImplementsManagedDirectory
  BY PublishersImplementTheDirectory
<1> HIDE DEF Still
<1>4. QED
  BY <1>1, <1>2, <1>3, Invariance, PTL DEF Spec
=============================================================================
