------------------------- MODULE ToolchainImage_proofs -------------------------
(* Publication creates and never replaces, an error published nothing, what  *)
(* is loaded is what the lock names, and what was reported as synchronized   *)
(* survives a power loss: for every number of publishers, all images, limits *)
(* and bounds.                                                               *)
EXTENDS ToolchainImage, DataTheorems

\* What a step of a publisher that is not the commit leaves alone.
Private(p) ==
  /\ call[p].at \notin {"published", "done"}
  /\ \E next : call' = [call EXCEPT ![p] = next]
  /\ UNCHANGED destination

\* The steps before the commit are the publisher's own.
LEMMA StagingIsPrivate ==
  ASSUME NEW p \in Publishers,
         \/ \E recipes \in Images : Begin(p, recipes)
         \/ \E bytes : Assemble(p, bytes)
         \/ Write(p) \/ CheckWritten(p) \/ WriteLock(p) \/ Reload(p) \/ SyncStaging(p)
         \/ SystemCallFails(p)
  PROVE  Private(p)
<1>1. ASSUME NEW recipes, Begin(p, recipes) PROVE Private(p)
  <2>1. call[p].at \notin {"published", "done"}
    BY <1>1 DEF Begin, Idle
  <2>2. UNCHANGED destination /\ \E next : call' = [call EXCEPT ![p] = next]
    BY <1>1 DEF Begin
  <2> QED  BY <2>1, <2>2 DEF Private
<1>2. ASSUME NEW bytes, Assemble(p, bytes) PROVE Private(p)
  BY <1>2 DEF Assemble, Private
<1>3. CASE Write(p)
  BY <1>3 DEF Write, Private
<1>4. CASE CheckWritten(p)
  BY <1>4 DEF CheckWritten, Private
<1>5. CASE WriteLock(p)
  BY <1>5 DEF WriteLock, Private
<1>6. CASE Reload(p)
  BY <1>6 DEF Reload, Private
<1>7. CASE SyncStaging(p)
  BY <1>7 DEF SyncStaging, Private
<1>8. CASE SystemCallFails(p)
  BY <1>8 DEF SystemCallFails, Private
<1> QED  BY <1>1, <1>2, <1>3, <1>4, <1>5, <1>6, <1>7, <1>8

-----------------------------------------------------------------------------
(* The inductive invariant.                                                 *)

\* The destination is a record, or absent.
DestinationOK ==
  \/ destination = Absent
  \/ \E by, published, edited, tree, durable, synced :
       destination = [status |-> "present", by |-> by, published |-> published,
                      edited |-> edited, tree |-> tree, durable |-> durable,
                      synced |-> synced]

\* A publisher whose image is at the destination knows it, or has crashed.
PublishersKnow ==
  \A p \in Publishers : destination # Absent /\ destination.by = p =>
    \/ call[p].at = "published"
    \/ /\ call[p].at = "done"
       /\ call[p].answer \in {"synchronized", "uncertain", "crashed"}

\* Each publisher has a call.
CallsOK == call = [p \in Publishers |-> call[p]]

\* The counters tell the steps of others from those of publishers.
CountsOK == losses \in Nat /\ edits \in Nat

IInv == DestinationOK /\ CallsOK /\ PublishersKnow

\* Nobody has published at first.
THEOREM InitOK == Init => IInv
BY DEF Init, IInv, DestinationOK, CallsOK, PublishersKnow

\* Changes of the tree and of its durability leave a publisher's image.
LEMMA PartChanges ==
  ASSUME DestinationOK, destination # Absent,
         \/ destination' = [destination EXCEPT !.synced = TRUE]
         \/ \E tree : destination' = [destination EXCEPT !.tree = tree, !.edited = TRUE]
         \/ \E tree, durable :
              destination' = [destination EXCEPT !.tree = tree, !.durable = durable,
                                                 !.synced = TRUE]
  PROVE  DestinationOK' /\ destination' # Absent /\ destination'.by = destination.by
<1> DEFINE Here(by, published, edited, tree, durable, synced) ==
             [status |-> "present", by |-> by, published |-> published,
              edited |-> edited, tree |-> tree, durable |-> durable, synced |-> synced]
<1>1. PICK by, published, e, t, d, s : destination = Here(by, published, e, t, d, s)
  BY DEF DestinationOK
<1>2. \E e2, t2, d2, s2 : destination' = Here(by, published, e2, t2, d2, s2)
  <2>1. CASE destination' = [destination EXCEPT !.synced = TRUE]
    <3>1. destination' = Here(by, published, e, t, d, TRUE)
      BY <1>1, <2>1
    <3> QED  BY <3>1
  <2>2. CASE \E tree : destination' = [destination EXCEPT !.tree = tree, !.edited = TRUE]
    <3>1. PICK tree : destination' = [destination EXCEPT !.tree = tree, !.edited = TRUE]
      BY <2>2
    <3>2. destination' = Here(by, published, TRUE, tree, d, s)
      BY <1>1, <3>1
    <3> QED  BY <3>2
  <2>3. CASE \E tree, durable :
               destination' = [destination EXCEPT !.tree = tree, !.durable = durable,
                                                  !.synced = TRUE]
    <3>1. PICK tree, durable :
            destination' = [destination EXCEPT !.tree = tree, !.durable = durable,
                                               !.synced = TRUE]
      BY <2>3
    <3>2. destination' = Here(by, published, e, tree, durable, TRUE)
      BY <1>1, <3>1
    <3> QED  BY <3>2
  <2> QED  BY <2>1, <2>2, <2>3
<1>3. PICK e2, t2, d2, s2 : destination' = Here(by, published, e2, t2, d2, s2)
  BY <1>2
<1>4. destination.by = by /\ destination'.by = by
  BY <1>1, <1>3
<1>5. destination' # Absent
  BY <1>3 DEF Absent
<1>6. DestinationOK'
  BY <1>3 DEF DestinationOK
<1> QED  BY <1>4, <1>5, <1>6

\* Until its call is past the rename nothing at the destination is a publisher's
\* own, so a private step changes no claim about it.
LEMMA PrivateOK ==
  ASSUME IInv, NEW p \in Publishers, Private(p)
  PROVE  IInv'
<1>1. DestinationOK'
  BY DEF IInv, DestinationOK, Private
<1>2. PICK next : call' = [call EXCEPT ![p] = next]
  BY DEF Private
<1>3. CallsOK'
  BY <1>2 DEF IInv, CallsOK
<1>4. \A q \in Publishers : q # p => call'[q] = call[q]
  BY <1>2 DEF IInv, CallsOK
<1>5. ASSUME NEW q \in Publishers, destination # Absent, destination.by = q
      PROVE  call'[q] = call[q]
  BY <1>4, <1>5 DEF IInv, PublishersKnow, Private
<1>6. PublishersKnow'
  BY <1>5 DEF IInv, PublishersKnow, Private
<1> QED  BY <1>1, <1>3, <1>6 DEF IInv

\* The rename makes an image and its publisher knows it; otherwise it is private.
LEMMA RenameOK ==
  ASSUME IInv, NEW p \in Publishers, Rename(p)
  PROVE  IInv'
<1>1. CASE destination = Absent
  <2>1. destination' = Image(p) /\ call' = [call EXCEPT ![p] = Committed(p)]
    BY <1>1 DEF Rename
  <2>2. DestinationOK'
    BY <2>1 DEF DestinationOK, Image
  <2>3. CallsOK'
    BY <2>1 DEF IInv, CallsOK
  <2>4. destination'.by = p /\ call'[p].at = "published"
    BY <2>1 DEF IInv, CallsOK, Image, Committed
  <2> QED  BY <2>2, <2>3, <2>4 DEF IInv, PublishersKnow
<1>2. CASE destination # Absent
  BY <1>2, PrivateOK DEF Rename, Private
<1> QED  BY <1>1, <1>2

\* The synchronization of the parent ends the call with one of two durabilities.
LEMMA SyncParentOK ==
  ASSUME IInv, NEW p \in Publishers, SyncParent(p)
  PROVE  IInv'
<1>1. PICK answer \in {"synchronized", "uncertain"} :
        call' = [call EXCEPT ![p] = Done(call[p], answer)]
  BY DEF SyncParent
<1>2. CallsOK'
  BY <1>1 DEF IInv, CallsOK
<1>3. /\ call'[p].at = "done" /\ call'[p].answer = answer
      /\ \A q \in Publishers : q # p => call'[q] = call[q]
  BY <1>1 DEF IInv, CallsOK, Done
<1>4. UNCHANGED destination \/ destination' = [destination EXCEPT !.synced = TRUE]
  BY DEF SyncParent
<1>5. [Absent EXCEPT !.synced = TRUE] = Absent
  BY DEF Absent
<1>6. /\ DestinationOK'
      /\ destination' # Absent => destination # Absent /\ destination'.by = destination.by
  <2>1. CASE destination = Absent
    <3>1. destination' = Absent
      BY <1>4, <1>5, <2>1
    <3> QED  BY <3>1 DEF DestinationOK
  <2>2. CASE UNCHANGED destination
    BY <2>2 DEF IInv, DestinationOK
  <2>3. CASE destination # Absent /\ destination' = [destination EXCEPT !.synced = TRUE]
    BY <2>3, PartChanges DEF IInv
  <2> QED  BY <1>4, <2>1, <2>2, <2>3
<1> QED  BY <1>2, <1>3, <1>6 DEF IInv, PublishersKnow

\* A crash loses the call and not the image.
LEMMA CrashOK ==
  ASSUME IInv, NEW p \in Publishers, Crash(p)
  PROVE  IInv'
<1>1. /\ UNCHANGED destination
      /\ call' = [call EXCEPT ![p] = Done(call[p], "crashed")]
  BY DEF Crash
<1>2. DestinationOK' /\ CallsOK'
  BY <1>1 DEF IInv, DestinationOK, CallsOK
<1>3. /\ call'[p].at = "done" /\ call'[p].answer = "crashed"
      /\ \A q \in Publishers : q # p => call'[q] = call[q]
  BY <1>1 DEF IInv, CallsOK, Done
<1> QED  BY <1>1, <1>2, <1>3 DEF IInv, PublishersKnow

\* A power loss ends all calls; the image stays, in parts, or goes.
LEMMA PowerLossOK ==
  ASSUME IInv, PowerLoss
  PROVE  IInv'
<1>1. call' = [p \in Publishers |->
                 IF call[p].at \in {"idle", "done"} THEN call[p] ELSE Done(call[p], "crashed")]
  BY DEF PowerLoss
<1>2. CallsOK'
  BY <1>1 DEF CallsOK
<1>3. \A p \in Publishers :
        /\ call'[p].at \in {"idle", "done"}
        /\ call[p].at \in {"idle", "done"} => call'[p] = call[p]
        /\ call[p].at \notin {"idle", "done"} => call'[p].answer = "crashed"
                                              /\ call'[p].at = "done"
  BY <1>1 DEF Done
<1>4. \/ UNCHANGED destination
      \/ destination' = Absent
      \/ /\ destination # Absent
         /\ \E tree, durable :
              destination' = [destination EXCEPT !.tree = tree, !.durable = durable,
                                                 !.synced = TRUE]
  BY DEF PowerLoss
<1>5. DestinationOK'
  BY <1>4, PartChanges DEF IInv, DestinationOK
<1>6. destination' # Absent => destination # Absent /\ destination'.by = destination.by
  BY <1>4, PartChanges DEF IInv
<1>7. PublishersKnow'
  BY <1>3, <1>6 DEF IInv, PublishersKnow
<1> QED  BY <1>2, <1>5, <1>7 DEF IInv

\* Other programs' trees are no publisher's, and an edit does not change whose it is.
LEMMA ForeignOK ==
  ASSUME IInv, ForeignCreate \/ \E path, node : ForeignEdit(path, node)
  PROVE  IInv'
<1>1. UNCHANGED call
  BY DEF ForeignCreate, ForeignEdit
<1>2. CASE ForeignCreate
  <2>1. DestinationOK' /\ destination'.by = "other" /\ destination = Absent
    BY <1>2 DEF ForeignCreate, DestinationOK
  <2> QED
    BY <1>1, <2>1, OthersDoNotPublish
    DEF IInv, CallsOK, PublishersKnow
<1>3. CASE \E path, node : ForeignEdit(path, node)
  <2>1. /\ destination # Absent
        /\ \E tree : destination' = [destination EXCEPT !.tree = tree, !.edited = TRUE]
    BY <1>3 DEF ForeignEdit
  <2>2. DestinationOK' /\ destination' # Absent /\ destination'.by = destination.by
    BY <2>1, PartChanges DEF IInv
  <2> QED  BY <1>1, <2>1, <2>2 DEF IInv, CallsOK, PublishersKnow
<1> QED  BY <1>2, <1>3

\* The reader changes neither calls nor the destination.
LEMMA ReaderOK ==
  ASSUME IInv, ReadLock \/ ReadPackage \/ FinishRead \/ UNCHANGED vars
  PROVE  IInv' /\ UNCHANGED destination
<1>1. UNCHANGED <<destination, call>>
  BY DEF ReadLock, ReadPackage, FinishRead, vars
<1> QED
  BY <1>1 DEF IInv, DestinationOK, CallsOK, PublishersKnow

\* The invariant is inductive.
THEOREM StepOK == IInv /\ [Next]_vars => IInv'
<1> SUFFICES ASSUME IInv, [Next]_vars PROVE IInv'
  OBVIOUS
<1>1. ASSUME NEW p \in Publishers,
             \/ \E recipes \in Images : Begin(p, recipes)
             \/ \E bytes : Assemble(p, bytes)
             \/ Write(p) \/ CheckWritten(p) \/ WriteLock(p) \/ Reload(p) \/ SyncStaging(p)
             \/ SystemCallFails(p)
      PROVE  IInv'
  BY <1>1, StagingIsPrivate, PrivateOK
<1>2. ASSUME NEW p \in Publishers, Rename(p) \/ SyncParent(p) \/ Crash(p)
      PROVE  IInv'
  BY <1>2, RenameOK, SyncParentOK, CrashOK
<1>3. ASSUME ReadLock \/ ReadPackage \/ FinishRead \/ UNCHANGED vars
      PROVE  IInv'
  BY <1>3, ReaderOK
<1>4. ASSUME ForeignCreate \/ (\E path, node : ForeignEdit(path, node)) \/ PowerLoss
      PROVE  IInv'
  BY <1>4, ForeignOK, PowerLossOK
<1> QED  BY <1>1, <1>2, <1>3, <1>4 DEF Next

\* The invariant holds in every state.
THEOREM Invariant == Spec => []IInv
BY InitOK, StepOK, PTL DEF Spec

\* Every step counts what it is.
LEMMA StepCounts ==
  ASSUME CountsOK, [Next]_vars
  PROVE  /\ CountsOK'
         /\ UNCHANGED <<losses, edits>> =>
              UNCHANGED destination
                \/ \E p \in Publishers : Rename(p) \/ SyncParent(p)
<1>1. ASSUME NEW p \in Publishers,
             \/ \E recipes \in Images : Begin(p, recipes)
             \/ \E bytes : Assemble(p, bytes)
             \/ Write(p) \/ CheckWritten(p) \/ WriteLock(p) \/ Reload(p) \/ SyncStaging(p)
             \/ SystemCallFails(p)
      PROVE  UNCHANGED <<destination, losses, edits>>
  <2>1. UNCHANGED destination
    BY <1>1, StagingIsPrivate DEF Private
  <2>2. UNCHANGED <<losses, edits>>
    BY <1>1
    DEF Begin, Assemble, Write, CheckWritten, WriteLock, Reload, SyncStaging, SystemCallFails
  <2> QED  BY <2>1, <2>2
<1>2. ASSUME NEW p \in Publishers, Rename(p) \/ SyncParent(p)
      PROVE  UNCHANGED <<losses, edits>>
  BY <1>2 DEF Rename, SyncParent
<1>3. ASSUME ReadLock \/ ReadPackage \/ FinishRead \/ UNCHANGED vars
      PROVE  UNCHANGED <<destination, losses, edits>>
  BY <1>3 DEF ReadLock, ReadPackage, FinishRead, vars
<1>4. ASSUME ForeignCreate \/ \E path, node : ForeignEdit(path, node)
      PROVE  edits' = edits + 1 /\ losses' = losses
  BY <1>4 DEF ForeignCreate, ForeignEdit
<1>5. ASSUME PowerLoss \/ \E p \in Publishers : Crash(p)
      PROVE  losses' = losses + 1 /\ edits' = edits
  BY <1>5 DEF PowerLoss, Crash
<1>6. \/ UNCHANGED <<destination, losses, edits>>
      \/ UNCHANGED <<losses, edits>> /\ \E p \in Publishers : Rename(p) \/ SyncParent(p)
      \/ edits' = edits + 1 /\ losses' = losses
      \/ losses' = losses + 1 /\ edits' = edits
  BY <1>1, <1>2, <1>3, <1>4, <1>5 DEF Next
<1> QED  BY <1>6 DEF CountsOK

\* Losses and edits are counted in natural numbers.
THEOREM CountsHold == Spec => []CountsOK
<1>1. Init => CountsOK
  BY DEF Init, CountsOK
<1> QED  BY <1>1, StepCounts, PTL DEF Spec

-----------------------------------------------------------------------------
(* What publication promises.                                               *)

\* An error is an answer only as long as nothing is published, for any number
\* of publishers: whose image is at the destination never answers with one.
THEOREM ErrorsPublishNothingTheorem == Spec => []ErrorsPublishNothing
<1>1. IInv => ErrorsPublishNothing
  BY DEF IInv, PublishersKnow, ErrorsPublishNothing
<1> QED  BY <1>1, Invariant, PTL

\* A step that is neither a loss nor another program's leaves what is at the
\* destination, or only makes it durable: the rename needs it absent.
THEOREM CreateOnlyTheorem == Spec => CreateOnly
<1> DEFINE Kept == destination' = [destination EXCEPT !.synced = destination'.synced]
<1>1. ASSUME IInv, CountsOK, [Next]_vars, destination # Absent, UNCHANGED <<losses, edits>>
      PROVE  Kept
  <2>1. UNCHANGED destination \/ destination' = [destination EXCEPT !.synced = TRUE]
    BY <1>1, StepCounts DEF Rename, SyncParent
  <2>2. PICK by, published, e, t, d, s :
          destination = [status |-> "present", by |-> by, published |-> published,
                         edited |-> e, tree |-> t, durable |-> d, synced |-> s]
    BY <1>1 DEF IInv, DestinationOK
  <2> QED  BY <2>1, <2>2
<1> QED  BY <1>1, Invariant, CountsHold, PTL DEF Spec, CreateOnly

-----------------------------------------------------------------------------
(* What is loaded.  The invariant follows a load, package by package: its   *)
(* registry has what the lock names so far, and its budget is the sum of    *)
(* what is in it.                                                           *)

PackageBytes(packages) == MapThenSumSet(LAMBDA p : ResourceBytes(p.manifest), packages)

Names(packages) == {<<IdentityOf(p), DigestOf(p)>> : p \in packages}

\* The bytes in a registry are those the offers and the declarations name.
Honest(reg) ==
  /\ IsFiniteSet(reg.packages)
  /\ \A p \in reg.packages : IsManifest(p.manifest)
  /\ \A r \in reg.resources : r.resource.bytes.digest = r.resource.declaration.digest
  /\ \A o \in reg.offers : o.artifact.bytes.digest = o.offer.artifact_digest

\* The budget is spent on what is in the registry, and is not exceeded.
SessionOK(session) ==
  /\ session = [registry |-> session.registry, resource_bytes |-> session.resource_bytes,
                manifest_bytes |-> session.manifest_bytes]
  /\ Honest(session.registry)
  /\ session.resource_bytes = PackageBytes(session.registry.packages)
  /\ session.resource_bytes <= ImageLimits.total_image_resource_bytes

ReaderInv ==
  \/ reader = NotReading
  \/ /\ reader = [at |-> "packages", lock |-> reader.lock, loaded |-> reader.loaded,
                  session |-> reader.session]
     /\ IsList(reader.lock.packages)
     /\ reader.loaded \in 0 .. Len(reader.lock.packages)
     /\ SessionOK(reader.session)
     /\ Names(reader.session.registry.packages)
          = {<<reader.lock.packages[i].package, reader.lock.packages[i].digest>> :
               i \in 1 .. reader.loaded}

\* What LoadedAsLocked says of a toolchain.
AsLocked(t) ==
  /\ Names(t.registry.packages) = {<<entry.package, entry.digest>> : entry \in Range(t.lock.packages)}
  /\ PackageBytes(t.registry.packages) <= ImageLimits.total_image_resource_bytes
  /\ \A a \in t.lock.attesters :
       /\ \E r \in t.registry.resources :
            /\ r.package = a.package
            /\ r.resource.declaration.name = a.resource
            /\ r.resource.bytes.digest = a.artifact_digest
       /\ \A o \in t.registry.offers :
            /\ o.offer.implementation # a.implementation
            /\ o.artifact.bytes.digest # a.artifact_digest

LoadInv == ReaderInv /\ \A t \in toolchain : AsLocked(t)

\* A manifest's bytes are a natural number.
LEMMA BytesAreNumbers ==
  ASSUME NEW manifest, IsManifest(manifest)
  PROVE  ResourceBytes(manifest) \in Nat
<1> DEFINE D == DOMAIN manifest.resources
           sizes == [i \in D |-> manifest.resources[i].size]
<1>1. IsFiniteSet(D)
  <2>1. D = 1 .. Len(manifest.resources) /\ Len(manifest.resources) \in Nat
    BY DEF IsManifest, IsList
  <2> QED  BY <2>1, FS_Interval
<1>2. DOMAIN sizes = D /\ \A i \in D : sizes[i] \in Nat
  BY DEF IsManifest, Range
<1>3. ResourceBytes(manifest) = SumFunction(sizes)
  BY DEF ResourceBytes
<1> HIDE DEF sizes, D
<1>4. IsFiniteSet(Units(sizes, D)) /\ SumFunction(sizes) = Cardinality(Units(sizes, D))
  BY <1>1, <1>2, SumFunctionIsUnits, UnitsFinite
<1> QED  BY <1>3, <1>4, FS_CardinalityType

\* The bytes of packages are their units.
LEMMA PackageBytesAreUnits ==
  ASSUME NEW S, IsFiniteSet(S), \A p \in S : IsManifest(p.manifest)
  PROVE  PackageBytes(S) = Cardinality(Units([p \in S |-> ResourceBytes(p.manifest)], S))
<1> DEFINE w == [p \in S |-> ResourceBytes(p.manifest)]
           iter == CHOOSE f : f = [s \in SUBSET S |->
                     IF s = {} THEN 0
                     ELSE ResourceBytes((CHOOSE x \in s : TRUE).manifest)
                            + f[s \ {CHOOSE x \in s : TRUE}]]
<1>1. PackageBytes(S) = iter[S]
  BY DEF PackageBytes, MapThenSumSet, MapThenFoldSet
<1>2. \A x \in S : w[x] \in Nat
  BY BytesAreNumbers
<1>3. \A f : f = [s \in SUBSET S |->
                    IF s = {} THEN 0
                    ELSE ResourceBytes((CHOOSE x \in s : TRUE).manifest)
                           + f[s \ {CHOOSE x \in s : TRUE}]]
               <=> AddsUp(f, w, S)
  <2>1. \A s \in SUBSET S : s # {} =>
          w[Picked(s)] = ResourceBytes((CHOOSE x \in s : TRUE).manifest)
    BY DEF Picked
  <2> QED  BY <2>1 DEF AddsUp, Picked
<1>4. AddsUp(iter, w, S)
  <2>1. PICK sum : AddsUp(sum, w, S)
    BY <1>2, SumExists
  <2>2. sum = [s \in SUBSET S |->
                 IF s = {} THEN 0
                 ELSE ResourceBytes((CHOOSE x \in s : TRUE).manifest)
                        + sum[s \ {CHOOSE x \in s : TRUE}]]
    BY <1>3, <2>1
  <2>3. iter = [s \in SUBSET S |->
                  IF s = {} THEN 0
                  ELSE ResourceBytes((CHOOSE x \in s : TRUE).manifest)
                         + iter[s \ {CHOOSE x \in s : TRUE}]]
    BY <2>2
  <2> HIDE DEF iter, w
  <2> QED  BY <1>3, <2>3
<1> HIDE DEF iter, w
<1> QED  BY <1>1, <1>2, <1>4, SumIsUnits DEF w

\* One more package adds its bytes.
LEMMA OnePackageMore ==
  ASSUME NEW S, IsFiniteSet(S), \A p \in S : IsManifest(p.manifest),
         NEW h, h \notin S, IsManifest(h.manifest)
  PROVE  /\ IsFiniteSet(S \cup {h})
         /\ PackageBytes(S \cup {h}) = PackageBytes(S) + ResourceBytes(h.manifest)
<1> DEFINE T == S \cup {h}
           v == [p \in S |-> ResourceBytes(p.manifest)]
           w == [p \in T |-> ResourceBytes(p.manifest)]
<1>1. IsFiniteSet(T) /\ \A p \in T : IsManifest(p.manifest)
  BY FS_AddElement
<1>2. PackageBytes(S) = Cardinality(Units(v, S)) /\ PackageBytes(T) = Cardinality(Units(w, T))
  BY <1>1, PackageBytesAreUnits
<1>3. Units(v, S) = Units(w, S)
  BY DEF Units
<1>4. \A x \in T : w[x] \in Nat
  BY <1>1, BytesAreNumbers
<1>5. w[h] = ResourceBytes(h.manifest) /\ h \in T /\ T \ {h} = S /\ T \in SUBSET T
  OBVIOUS
<1>6. ResourceBytes(h.manifest) \in Nat
  BY BytesAreNumbers
<1> HIDE DEF v, w, T
<1>7. Cardinality(Units(w, T)) = w[h] + Cardinality(Units(w, T \ {h}))
  BY <1>1, <1>4, <1>5, UnitsWithout
<1>8. Cardinality(Units(w, S)) \in Nat
  <2>1. S \in SUBSET T
    BY DEF T
  <2> QED  BY <1>1, <1>4, <2>1, UnitsFinite, FS_CardinalityType
<1>9. PackageBytes(T) = PackageBytes(S) + ResourceBytes(h.manifest)
  <2>1. Cardinality(Units(w, T)) = w[h] + Cardinality(Units(w, S))
    BY <1>5, <1>7
  <2>2. PackageBytes(S) = Cardinality(Units(w, S))
    BY <1>2, <1>3
  <2> QED  BY <1>2, <1>5, <1>6, <1>8, <2>1, <2>2
<1> QED  BY <1>1, <1>9 DEF T

\* What a load returns is honest.
LEMMA LoadIsHonest ==
  ASSUME NEW tree, NEW directory, NEW reg, NEW limits,
         NEW p \in LoadPackage(tree, directory, reg, limits)
  PROVE  /\ IsManifest(p.manifest)
         /\ \A r \in p.resources : r.bytes.digest = r.declaration.digest
         /\ \A o \in p.offers : o.artifact.bytes.digest = o.offer.artifact_digest
<1> DEFINE file == <<directory, ManifestFile>>
           manifest == tree[file].document.manifest
           place(r) == <<directory>> \o r.path
           bytes(r) == tree[place(r)].bytes
           resources == {[declaration |-> r, bytes |-> bytes(r)] : r \in Range(manifest.resources)}
<1>1. /\ p = Loaded(manifest, resources, CapturedDependencies(reg, manifest))
      /\ Readable(tree[file].document)
      /\ \A r \in Range(manifest.resources) : Copies(r, bytes(r))
  BY DEF LoadPackage
<1>2. IsManifest(manifest)
  BY <1>1 DEF Readable
<1>3. \A r \in resources : r.bytes.digest = r.declaration.digest
  BY <1>1 DEF Copies
<1> HIDE DEF manifest, resources
<1>4. p.manifest = manifest /\ p.resources = resources /\ p.offers = DeclaredOffers(manifest, resources)
  BY <1>1 DEF Loaded
<1>5. \A o \in DeclaredOffers(manifest, resources) :
        o.artifact.bytes.digest = o.offer.artifact_digest
  BY <1>3 DEF DeclaredOffers, OfferFrom
<1> QED  BY <1>2, <1>3, <1>4, <1>5

\* Publishing an honest package keeps a registry honest.
LEMMA PublishingIsHonest ==
  ASSUME NEW reg, Honest(reg), NEW p, IsManifest(p.manifest),
         \A r \in p.resources : r.bytes.digest = r.declaration.digest,
         \A o \in p.offers : o.artifact.bytes.digest = o.offer.artifact_digest,
         Installed(reg, IdentityOf(p)) = {}
  PROVE  /\ Honest(WithPackage(reg, p))
         /\ Names(WithPackage(reg, p).packages)
              = Names(reg.packages) \cup {<<IdentityOf(p), DigestOf(p)>>}
         /\ PackageBytes(WithPackage(reg, p).packages)
              = PackageBytes(reg.packages) + ResourceBytes(p.manifest)
<1> DEFINE h == Handle(p)
           new == WithPackage(reg, p)
<1>1. /\ h.manifest = p.manifest
      /\ <<IdentityOf(h), DigestOf(h)>> = <<IdentityOf(p), DigestOf(p)>>
      /\ IdentityOf(h) = IdentityOf(p)
  BY DEF Handle, IdentityOf, DigestOf
<1>2. h \notin reg.packages
  BY <1>1 DEF Installed
<1>3. /\ new.packages = reg.packages \cup {h}
      /\ new.resources = reg.resources \cup OwnedResources(p)
      /\ new.offers = reg.offers \cup p.offers
  BY DEF WithPackage
<1> HIDE DEF h, new
<1>4. IsFiniteSet(new.packages)
        /\ PackageBytes(new.packages) = PackageBytes(reg.packages) + ResourceBytes(p.manifest)
  BY <1>1, <1>2, <1>3, OnePackageMore DEF Honest
<1>5. Names(new.packages) = Names(reg.packages) \cup {<<IdentityOf(p), DigestOf(p)>>}
  BY <1>1, <1>3 DEF Names
<1>6. \A r \in new.resources : r.resource.bytes.digest = r.resource.declaration.digest
  BY <1>3 DEF Honest, OwnedResources
<1>7. \A o \in new.offers : o.artifact.bytes.digest = o.offer.artifact_digest
  BY <1>3 DEF Honest
<1>8. \A q \in new.packages : IsManifest(q.manifest)
  BY <1>1, <1>3 DEF Honest
<1>9. Honest(new)
  BY <1>4, <1>6, <1>7, <1>8 DEF Honest
<1> QED  BY <1>4, <1>5, <1>9 DEF new

\* A round of the load keeps the account, and adds what the lock names next.
LEMMA LoadRound ==
  ASSUME NEW tree, NEW session, SessionOK(session), NEW entry,
         NEW next \in LoadLocked(tree, session, entry, ImageLimits)
  PROVE  /\ SessionOK(next)
         /\ Names(next.registry.packages)
              = Names(session.registry.packages) \cup {<<entry.package, entry.digest>>}
<1> DEFINE reg == session.registry
<1>1. PICK p \in LoadPackage(tree, entry.directory, session.registry,
                             Remaining(ImageLimits, session)) :
        /\ Expected(p, entry)
        /\ WithinBudget(Spend(session, p.manifest), ImageLimits)
        /\ InstallResult(session.registry, p) = "published"
        /\ next = [Spend(session, p.manifest) EXCEPT !.registry = WithPackage(@, p)]
  BY DEF LoadLocked
<1>2. Installed(reg, IdentityOf(p)) = {}
  BY <1>1 DEF InstallResult
<1>3. /\ IsManifest(p.manifest)
      /\ \A r \in p.resources : r.bytes.digest = r.declaration.digest
      /\ \A o \in p.offers : o.artifact.bytes.digest = o.offer.artifact_digest
  BY <1>1, LoadIsHonest
<1> DEFINE new == WithPackage(reg, p)
<1>4. /\ Honest(new)
      /\ Names(new.packages) = Names(reg.packages) \cup {<<IdentityOf(p), DigestOf(p)>>}
      /\ PackageBytes(new.packages) = PackageBytes(reg.packages) + ResourceBytes(p.manifest)
  BY <1>2, <1>3, PublishingIsHonest DEF SessionOK
<1> DEFINE spent == session.resource_bytes + ResourceBytes(p.manifest)
           size == session.manifest_bytes + ManifestSize(p.manifest)
<1>5. Spend(session, p.manifest)
        = [registry |-> reg, resource_bytes |-> spent, manifest_bytes |-> size]
  <2> DEFINE before == [registry |-> reg, resource_bytes |-> session.resource_bytes,
                        manifest_bytes |-> session.manifest_bytes]
  <2>1. session = before
    BY DEF SessionOK
  <2>2. Spend(session, p.manifest)
          = [[session EXCEPT !.resource_bytes = spent] EXCEPT !.manifest_bytes = size]
    <3> DEFINE middle == [session EXCEPT !.resource_bytes = spent]
    <3>1. middle.manifest_bytes = session.manifest_bytes
      BY <2>1
    <3>2. Spend(session, p.manifest)
            = [middle EXCEPT !.manifest_bytes = middle.manifest_bytes + ManifestSize(p.manifest)]
      BY DEF Spend
    <3> QED  BY <3>1, <3>2
  <2>3. [[before EXCEPT !.resource_bytes = spent] EXCEPT !.manifest_bytes = size]
          = [registry |-> reg, resource_bytes |-> spent, manifest_bytes |-> size]
    <3> HIDE DEF spent, size
    <3> DEFINE middle == [registry |-> reg, resource_bytes |-> spent,
                          manifest_bytes |-> session.manifest_bytes]
    <3>1. [before EXCEPT !.resource_bytes = spent] = middle
      OBVIOUS
    <3>2. [middle EXCEPT !.manifest_bytes = size]
            = [registry |-> reg, resource_bytes |-> spent, manifest_bytes |-> size]
      OBVIOUS
    <3> HIDE DEF before, middle
    <3> QED  BY <3>1, <3>2
  <2> HIDE DEF before, spent, size
  <2> QED  BY <2>1, <2>2, <2>3
<1>6. spent <= ImageLimits.total_image_resource_bytes
  BY <1>1, <1>5 DEF WithinBudget
<1>7. next = [registry |-> new, resource_bytes |-> spent, manifest_bytes |-> size]
  BY <1>1, <1>5
<1>8. spent = PackageBytes(new.packages)
  BY <1>4 DEF SessionOK
<1>9. IdentityOf(p) = entry.package /\ DigestOf(p) = entry.digest
  BY <1>1 DEF Expected
<1> HIDE DEF new, spent, size
<1>10. next.registry = new /\ next.resource_bytes = spent /\ next.manifest_bytes = size
  BY <1>7
<1> QED  BY <1>4, <1>6, <1>7, <1>8, <1>9, <1>10 DEF SessionOK

\* A load begins with nothing.
LEMMA EmptySessionOK == SessionOK(EmptySession) /\ Names(EmptySession.registry.packages) = {}
<1>1. EmptySession = [registry |-> EmptyRegistry, resource_bytes |-> 0, manifest_bytes |-> 0]
  BY DEF EmptySession
<1>2. EmptySession.registry = EmptyRegistry /\ EmptySession.resource_bytes = 0
        /\ EmptySession.manifest_bytes = 0
  BY <1>1
<1>3. Honest(EmptyRegistry) /\ EmptyRegistry.packages = {}
  BY FS_EmptySet DEF Honest, EmptyRegistry
<1>4. PackageBytes({}) = 0
  <2>1. PackageBytes({}) = Cardinality(Units([p \in {} |-> ResourceBytes(p.manifest)], {}))
    BY FS_EmptySet, PackageBytesAreUnits
  <2>2. Units([p \in {} |-> ResourceBytes(p.manifest)], {}) = {}
    BY DEF Units
  <2> QED  BY <2>1, <2>2, FS_EmptySet
<1>5. Names({}) = {}
  BY DEF Names
<1> QED  BY <1>1, <1>2, <1>3, <1>4, <1>5, LimitsAreNumbers DEF SessionOK

\* A load that ends with independent attesters installed returns what its lock says.
LEMMA FinishedAsLocked ==
  ASSUME LoadInv, FinishRead
  PROVE  \A t \in toolchain' : AsLocked(t)
<1> DEFINE reg == reader.session.registry
           lock == reader.lock
           t == [lock |-> lock, registry |-> reg]
           L == ImageLimits.total_image_resource_bytes
<1>1. CASE UNCHANGED toolchain
  BY <1>1 DEF LoadInv
<1>2. CASE ~ UNCHANGED toolchain
  <2>1. /\ reader.at = "packages" /\ reader.loaded = Len(lock.packages)
        /\ AttestersInstalled(reg, lock.attesters) /\ Independent(reg, lock.attesters)
        /\ toolchain' = {t}
    BY <1>2 DEF FinishRead
  <2>2. /\ IsList(lock.packages) /\ SessionOK(reader.session)
        /\ Names(reg.packages) = {<<lock.packages[i].package, lock.packages[i].digest>> :
                                    i \in 1 .. reader.loaded}
    BY <2>1 DEF LoadInv, ReaderInv, NotReading
  <2>3. Names(reg.packages)
          = {<<entry.package, entry.digest>> : entry \in Range(lock.packages)}
    <3>1. DOMAIN lock.packages = 1 .. reader.loaded
      BY <2>1, <2>2 DEF IsList
    <3> QED  BY <2>2, <3>1 DEF Range
  <2>4. PackageBytes(reg.packages) <= L
    BY <2>2 DEF SessionOK
  <2>5. ASSUME NEW a \in lock.attesters
        PROVE  /\ \E r \in reg.resources :
                    /\ r.package = a.package
                    /\ r.resource.declaration.name = a.resource
                    /\ r.resource.bytes.digest = a.artifact_digest
               /\ \A o \in reg.offers :
                    /\ o.offer.implementation # a.implementation
                    /\ o.artifact.bytes.digest # a.artifact_digest
    BY <2>1, <2>2 DEF AttestersInstalled, Independent, SessionOK, Honest
  <2>6. t.registry = reg /\ t.lock = lock
    OBVIOUS
  <2> HIDE DEF t, reg, lock
  <2>7. AsLocked(t)
    BY <2>3, <2>4, <2>5, <2>6 DEF AsLocked
  <2> QED  BY <2>1, <2>7
<1> QED  BY <1>1, <1>2

\* Publishers and other programs change neither a load nor its result.
LEMMA OthersDoNotRead ==
  ASSUME LoadInv, [Next]_vars
  PROVE  \/ UNCHANGED <<reader, toolchain>>
         \/ ReadLock \/ ReadPackage \/ FinishRead \/ PowerLoss
<1>1. ASSUME NEW p \in Publishers,
             \/ \E recipes \in Images : Begin(p, recipes)
             \/ \E bytes : Assemble(p, bytes)
             \/ Write(p) \/ CheckWritten(p) \/ WriteLock(p) \/ Reload(p) \/ SyncStaging(p)
             \/ Rename(p) \/ SyncParent(p) \/ SystemCallFails(p) \/ Crash(p)
      PROVE  UNCHANGED <<reader, toolchain>>
  BY <1>1
  DEF Begin, Assemble, Write, CheckWritten, WriteLock, Reload, SyncStaging, Rename,
      SyncParent, SystemCallFails, Crash
<1>2. ASSUME ForeignCreate \/ (\E path, node : ForeignEdit(path, node)) \/ UNCHANGED vars
      PROVE  UNCHANGED <<reader, toolchain>>
  BY <1>2 DEF ForeignCreate, ForeignEdit, vars
<1> QED  BY <1>1, <1>2 DEF Next

\* The invariant of loads is inductive.
LEMMA LoadStep == LoadInv /\ [Next]_vars => LoadInv'
<1> SUFFICES ASSUME LoadInv, [Next]_vars PROVE LoadInv'
  OBVIOUS
<1>1. CASE UNCHANGED <<reader, toolchain>>
  BY <1>1 DEF LoadInv, ReaderInv
<1>2. CASE ReadLock
  <2>1. PICK lock : /\ ValidLock(lock)
                    /\ reader' = [at |-> "packages", lock |-> lock, loaded |-> 0,
                                  session |-> EmptySession]
                    /\ UNCHANGED toolchain
    BY <1>2 DEF ReadLock
  <2>2. reader'.lock = lock /\ reader'.loaded = 0 /\ reader'.session = EmptySession
    BY <2>1
  <2>3. IsList(lock.packages) /\ 0 \in 0 .. Len(lock.packages)
    BY <2>1 DEF ValidLock, IsList
  <2>4. {<<lock.packages[i].package, lock.packages[i].digest>> : i \in 1 .. 0} = {}
    OBVIOUS
  <2>5. ReaderInv'
    BY <2>1, <2>2, <2>3, <2>4, EmptySessionOK DEF ReaderInv
  <2> QED  BY <2>1, <2>5 DEF LoadInv
<1>3. CASE ReadPackage
  <2> DEFINE lock == reader.lock
             n == reader.loaded + 1
             entry == lock.packages[n]
             named(k) == {<<lock.packages[i].package, lock.packages[i].digest>> : i \in 1 .. k}
  <2>1. CASE reader' = NotReading
    BY <1>3, <2>1 DEF ReadPackage, LoadInv, ReaderInv
  <2>2. CASE reader' # NotReading
    <3>1. /\ reader = [at |-> "packages", lock |-> lock, loaded |-> reader.loaded,
                       session |-> reader.session]
          /\ IsList(lock.packages) /\ reader.loaded \in 0 .. Len(lock.packages)
          /\ reader.loaded < Len(lock.packages)
          /\ SessionOK(reader.session)
          /\ Names(reader.session.registry.packages) = named(reader.loaded)
      BY <1>3 DEF ReadPackage, LoadInv, ReaderInv, NotReading
    <3>2. PICK tree, session :
            /\ session \in LoadLocked(tree, reader.session, entry, ImageLimits)
            /\ reader' = [reader EXCEPT !.loaded = @ + 1, !.session = session]
            /\ UNCHANGED toolchain
      BY <1>3, <2>2 DEF ReadPackage
    <3>3. /\ SessionOK(session)
          /\ Names(session.registry.packages)
               = named(reader.loaded) \cup {<<entry.package, entry.digest>>}
      <4>1. \A e : \A s \in LoadLocked(tree, reader.session, e, ImageLimits) :
              /\ SessionOK(s)
              /\ Names(s.registry.packages) = Names(reader.session.registry.packages)
                                               \cup {<<e.package, e.digest>>}
        BY <3>1, LoadRound
      <4> HIDE DEF entry, named
      <4> QED  BY <3>1, <3>2, <4>1
    <3>4. reader' = [at |-> "packages", lock |-> lock, loaded |-> n, session |-> session]
      <4>1. reader' = [[reader EXCEPT !.loaded = n] EXCEPT !.session = session]
        BY <3>2
      <4> DEFINE before == [at |-> "packages", lock |-> lock, loaded |-> reader.loaded,
                            session |-> reader.session]
      <4>2. reader = before
        BY <3>1
      <4>3. [[before EXCEPT !.loaded = n] EXCEPT !.session = session]
              = [at |-> "packages", lock |-> lock, loaded |-> n, session |-> session]
        <5> HIDE DEF lock, n
        <5> DEFINE middle == [at |-> "packages", lock |-> lock, loaded |-> n,
                              session |-> reader.session]
        <5>1. [before EXCEPT !.loaded = n] = middle
          OBVIOUS
        <5>2. [middle EXCEPT !.session = session]
                = [at |-> "packages", lock |-> lock, loaded |-> n, session |-> session]
          OBVIOUS
        <5> HIDE DEF before, middle
        <5> QED  BY <5>1, <5>2
      <4> HIDE DEF before
      <4> QED  BY <4>1, <4>2, <4>3
    <3>5. n \in 0 .. Len(lock.packages) /\ 1 .. n = (1 .. reader.loaded) \cup {n}
      BY <3>1 DEF IsList
    <3>6. named(n) = named(reader.loaded) \cup {<<entry.package, entry.digest>>}
      BY <3>5
    <3>7. reader'.lock = lock /\ reader'.loaded = n /\ reader'.session = session
      BY <3>4
    <3>8. ReaderInv'
      BY <3>1, <3>3, <3>4, <3>5, <3>6, <3>7 DEF ReaderInv
    <3> QED  BY <3>2, <3>8 DEF LoadInv
  <2> QED  BY <2>1, <2>2
<1>4. CASE FinishRead
  <2>1. reader' = NotReading
    BY <1>4 DEF FinishRead
  <2> QED  BY <1>4, <2>1, FinishedAsLocked DEF LoadInv, ReaderInv
<1>5. CASE PowerLoss
  <2>1. reader' = NotReading /\ toolchain' = {}
    BY <1>5 DEF PowerLoss
  <2> QED  BY <2>1 DEF LoadInv, ReaderInv
<1> QED  BY <1>1, <1>2, <1>3, <1>4, <1>5, OthersDoNotRead

\* However the destination changes while it is read, a toolchain that is returned
\* has the contents its lock names and no others, within the limits.
THEOREM LoadedAsLockedTheorem == Spec => []LoadedAsLocked
<1>1. Init => LoadInv
  BY DEF Init, LoadInv, ReaderInv
<1>2. LoadInv => LoadedAsLocked
  BY DEF LoadInv, AsLocked, Names, PackageBytes, LoadedAsLocked
<1> QED  BY <1>1, <1>2, LoadStep, PTL DEF Spec

-----------------------------------------------------------------------------
(* What a power loss takes.  The invariant follows each node of a staging   *)
(* directory: it is durable, or the synchronization of its directory is     *)
(* still to come, or it is below a directory that nothing synchronizes.     *)

\* Precedes orders lists of numbers that have one length.
LEMMA PrecedesOrders ==
  ASSUME NEW n \in Nat, NEW S, \A a \in S : a.name \in Seq(Nat) /\ Len(a.name) = n,
         \A a, b \in S : a.name = b.name => a = b
  PROVE  Orders({pair \in S \X S : Precedes(pair[1].name, pair[2].name)}, S)
<1> DEFINE R == {pair \in S \X S : Precedes(pair[1].name, pair[2].name)}
<1>1. \A a, b \in S : <<a, b>> \in R <=>
        \E i \in 1 .. n : /\ a.name[i] < b.name[i]
                          /\ \A j \in 1 .. i - 1 : a.name[j] = b.name[j]
  BY DEF Precedes
<1>2. \A a \in S : \A i \in 1 .. n : a.name[i] \in Nat
  OBVIOUS
<1> HIDE DEF R
<1>3. \A a \in S : <<a, a>> \notin R
  BY <1>1, <1>2
<1>4. ASSUME NEW a \in S, NEW b \in S, NEW c \in S, <<a, b>> \in R, <<b, c>> \in R
      PROVE  <<a, c>> \in R
  <2>1. PICK i \in 1 .. n : /\ a.name[i] < b.name[i]
                            /\ \A j \in 1 .. i - 1 : a.name[j] = b.name[j]
    BY <1>1, <1>4
  <2>2. PICK k \in 1 .. n : /\ b.name[k] < c.name[k]
                            /\ \A j \in 1 .. k - 1 : b.name[j] = c.name[j]
    BY <1>1, <1>4
  <2> DEFINE l == IF i < k THEN i ELSE k
  <2>3. l \in 1 .. n /\ a.name[l] < c.name[l]
    <3>1. CASE i < k
      <4>1. l = i /\ i \in 1 .. k - 1
        BY <3>1
      <4>2. b.name[i] = c.name[i]
        BY <2>2, <4>1
      <4> QED  BY <2>1, <4>1, <4>2
    <3>2. CASE i = k
      <4>1. l = i
        BY <3>2
      <4>2. a.name[i] \in Nat /\ b.name[i] \in Nat /\ c.name[i] \in Nat
        BY <1>2
      <4> HIDE DEF l
      <4> QED  BY <2>1, <2>2, <3>2, <4>1, <4>2
    <3>3. CASE i > k
      <4>1. l = k /\ k \in 1 .. i - 1
        BY <3>3
      <4>2. a.name[k] = b.name[k]
        BY <2>1, <4>1
      <4> QED  BY <2>2, <4>1, <4>2
    <3> QED  BY <3>1, <3>2, <3>3
  <2>4. \A j \in 1 .. l - 1 : a.name[j] = c.name[j]
    BY <2>1, <2>2
  <2> QED  BY <1>1, <2>3, <2>4
<1>5. ASSUME NEW a \in S, NEW b \in S, a # b
      PROVE  <<a, b>> \in R \/ <<b, a>> \in R
  <2> DEFINE differ == {i \in 1 .. n : a.name[i] # b.name[i]}
  <2>1. differ # {}
    <3> SUFFICES ASSUME \A i \in 1 .. n : a.name[i] = b.name[i] PROVE FALSE
      OBVIOUS
    <3>1. a.name \in Seq(Nat) /\ b.name \in Seq(Nat) /\ Len(a.name) = n /\ Len(b.name) = n
      OBVIOUS
    <3>2. a.name = b.name
      BY <3>1
    <3> QED  BY <1>5, <3>2
  <2>2. PICK i \in differ : \A j \in differ : i <= j
    <3>1. differ \in SUBSET Nat
      OBVIOUS
    <3> HIDE DEF differ
    <3> QED  BY <2>1, <3>1, LeastNumber
  <2>3. \A j \in 1 .. i - 1 : a.name[j] = b.name[j]
    BY <2>2
  <2>4. a.name[i] < b.name[i] \/ b.name[i] < a.name[i]
    BY <1>2, <2>2
  <2> QED  BY <1>1, <2>2, <2>3, <2>4
<1> QED  BY <1>3, <1>4, <1>5 DEF Orders, R

\* The resources of an assembled manifest are those that were measured.
LEMMA ResourcesAreMeasured ==
  ASSUME NEW recipe, IsFiniteSet(recipe.inputs),
         \A i \in recipe.inputs : i.name \in Seq(Nat),
         \A i, j \in recipe.inputs : Len(i.name) = Len(j.name),
         \A i, j \in recipe.inputs : i.name = j.name => i = j,
         NEW bytes
  PROVE  /\ IsFiniteSet(Measured(recipe, bytes))
         /\ SortedBy(Measured(recipe, bytes), NameOf) \in SetToSeqs(Measured(recipe, bytes))
<1> DEFINE S == Measured(recipe, bytes)
           resource(input) == [name |-> input.name, path |-> input.path,
                               digest |-> bytes[input.name].digest,
                               size |-> bytes[input.name].size]
           f == [input \in recipe.inputs |-> resource(input)]
           R == {pair \in S \X S : Precedes(pair[1].name, pair[2].name)}
<1>1. S = {resource(input) : input \in recipe.inputs}
  BY DEF Measured
<1>2. IsFiniteSet(S)
  <2>1. f \in Surjection(recipe.inputs, S)
    <3>1. f \in [recipe.inputs -> S]
      BY <1>1
    <3>2. \A r \in S : \E input \in recipe.inputs : f[input] = r
      BY <1>1
    <3> HIDE DEF f, S
    <3> QED  BY <3>1, <3>2 DEF Surjection
  <2> HIDE DEF f, S
  <2> QED  BY <2>1, FS_Surjection
<1>3. \A a \in S : \E input \in recipe.inputs : a = resource(input) /\ a.name = input.name
  BY <1>1
<1>4. \A a, b \in S : a.name = b.name => a = b
  <2> SUFFICES ASSUME NEW a \in S, NEW b \in S, a.name = b.name PROVE a = b
    OBVIOUS
  <2>1. PICK i \in recipe.inputs, j \in recipe.inputs :
          a = resource(i) /\ a.name = i.name /\ b = resource(j) /\ b.name = j.name
    BY <1>3
  <2>2. i = j
    BY <2>1
  <2> HIDE DEF resource
  <2> QED  BY <2>1, <2>2
<1>5. Orders(R, S)
  <2> DEFINE n == IF S = {} THEN 0 ELSE Len((CHOOSE a \in S : TRUE).name)
  <2>1. n \in Nat /\ \A a \in S : a.name \in Seq(Nat) /\ Len(a.name) = n
    <3>1. \A a \in S : a.name \in Seq(Nat) /\ Len(a.name) \in Nat
      BY <1>3
    <3>2. \A a, b \in S : Len(a.name) = Len(b.name)
      BY <1>3
    <3> HIDE DEF S
    <3>3. CASE S = {}
      BY <3>3
    <3>4. CASE S # {}
      <4>1. (CHOOSE a \in S : TRUE) \in S
        BY <3>4
      <4> QED  BY <3>1, <3>2, <3>4, <4>1
    <3> QED  BY <3>3, <3>4
  <2> HIDE DEF n, S
  <2> QED  BY <1>4, <2>1, PrecedesOrders
<1> HIDE DEF S
<1>6. PICK list \in SetToSeqs(S) : \A i, j \in DOMAIN list : i < j => <<list[i], list[j]>> \in R
  <2> HIDE DEF R
  <2> QED  BY <1>2, <1>5, SortingExists
<1>7. \A i \in DOMAIN list : list[i] \in S
  BY <1>6 DEF SetToSeqs
<1>8. \A a, b \in S : <<a, b>> \in R => ~ Precedes(NameOf(b), NameOf(a))
  <2>1. \A a, b \in S : Precedes(NameOf(b), NameOf(a)) => <<b, a>> \in R
    BY DEF NameOf
  <2> HIDE DEF R
  <2> QED  BY <1>5, <2>1 DEF Orders
<1>9. \A i, j \in DOMAIN list : i < j => ~ Precedes(NameOf(list[j]), NameOf(list[i]))
  BY <1>6, <1>7, <1>8
<1> QED  BY <1>2, <1>6, <1>9 DEF SortedBy, S

\* File names are strings; that these two are is nothing the provers know.
FileNames == STRING \cup {ManifestFile, LockFile[1]}

Sync(directory) == [op |-> "sync", path |-> directory]

\* A new node is durable once its directory is synchronized: later in the list,
\* or by one of `pending`.  Packages' directories and those two deep are left.
Settled(writes, i, pending) ==
  \/ writes[i].op = "sync"
  \/ Len(writes[i].path) = 1
  \/ Len(writes[i].path) >= 3 /\ writes[i].node = Directory
  \/ Front(writes[i].path) \in pending
  \/ \E j \in DOMAIN writes : i < j /\ writes[j] = Sync(Front(writes[i].path))

Settles(writes, pending) ==
  /\ writes \in Seq(Range(writes))
  /\ \A i \in DOMAIN writes :
       /\ writes[i].path \in Seq(FileNames) \ {<<>>}
       /\ Settled(writes, i, pending)

Staging == {"assemble", "write", "lock", "reload", "sync", "rename"}

CallFields == {"at", "recipes", "read", "session", "tree", "durable", "writes"}

\* Every node of a staging directory is durable, or will be, or is buried.
Staged(c) ==
  /\ CallFields \subseteq DOMAIN c
  /\ c.recipes \in Images
  /\ CanBeBuilt(c.recipes)
  /\ c.read \in Seq(Range(c.read))
  /\ c.at = "assemble" => Len(c.read) < Len(c.recipes)
  /\ c.at # "write" => c.writes = <<>>
  /\ Settles(c.writes, {})
  /\ DOMAIN c.tree \subseteq Seq(FileNames)
  /\ \A path \in DOMAIN c.tree \ c.durable :
       \/ path \in Buried(c.tree)
       \/ Len(path) = 1 /\ c.at # "rename"
       \/ path # <<>> /\ Sync(Front(path)) \in Range(c.writes)

\* A publication that was reported as synchronized is at the destination.
Reported ==
  \A p \in Publishers :
    /\ call[p].at = "published" => destination # Absent /\ destination.by = p
    /\ call[p].at = "done" /\ call[p].answer = "synchronized" =>
         destination # Absent /\ destination.by = p /\ destination.synced = TRUE

\* Only what is buried is gone, or can go.
Keeps(d) ==
  /\ DOMAIN d.tree \subseteq DOMAIN d.published
  /\ DOMAIN d.published \subseteq Seq(FileNames)
  /\ DOMAIN d.published \ DOMAIN d.tree \subseteq Buried(d.published)
  /\ DOMAIN d.tree \ d.durable \subseteq Buried(d.published)

LossInv ==
  /\ \A p \in Publishers : call[p].at \in Staging => Staged(call[p])
  /\ Reported
  /\ destination # Absent /\ destination.by \in Publishers => Keeps(destination)

\* The writes of one resource settle, but for the directory they are in.
LEMMA ResourceSettles ==
  ASSUME NEW directory \in FileNames, NEW resource,
         resource.path \in Seq(FileNames) \ {<<>>}, NEW bytes
  PROVE  Settles(WritesOf(directory, resource, bytes), {<<directory>>})
<1> DEFINE path == resource.path
           m == Len(path)
           ensure(n) == [op |-> "ensure", path |-> <<directory>> \o SubSeq(path, 1, n),
                         node |-> Directory]
           create == [op |-> "create", path |-> <<directory>> \o path,
                      node |-> [kind |-> "resource", bytes |-> bytes[resource.name]]]
           last == Sync(<<directory>> \o Front(path))
           E == [n \in 1 .. m - 1 |-> ensure(n)]
           W == WritesOf(directory, resource, bytes)
           X == {ensure(n) : n \in 1 .. m - 1} \cup {create, last}
<1>1. path \in Seq(FileNames) /\ m \in Nat \ {0} /\ path # <<>>
  OBVIOUS
<1>2. W = E \o <<create>> \o <<last>>
  BY DEF WritesOf, SyncsOf, Sync
<1>3. \A n \in 1 .. m - 1 : /\ SubSeq(path, 1, n) \in Seq(FileNames)
                            /\ Len(SubSeq(path, 1, n)) = n
  BY <1>1
<1>4. /\ Front(<<directory>> \o path) = <<directory>> \o Front(path)
      /\ Front(path) \in Seq(FileNames)
  BY <1>1, FrontBelow, FrontElements
<1>5. \A n \in 1 .. m - 1 : /\ ensure(n).path \in Seq(FileNames)
                            /\ Len(ensure(n).path) = n + 1
                            /\ ensure(n).node = Directory
  BY <1>3
<1>6. 1 \in 1 .. m - 1 => Front(ensure(1).path) = <<directory>>
  <2> SUFFICES ASSUME 1 \in 1 .. m - 1 PROVE Front(ensure(1).path) = <<directory>>
    OBVIOUS
  <2>1. ensure(1).path = <<directory>> \o SubSeq(path, 1, 1) /\ SubSeq(path, 1, 1) # <<>>
    BY <1>3
  <2>2. Front(ensure(1).path) = <<directory>> \o Front(SubSeq(path, 1, 1))
    BY <1>3, <2>1, FrontBelow
  <2>3. Front(SubSeq(path, 1, 1)) \in Seq(FileNames) /\ Len(Front(SubSeq(path, 1, 1))) = 0
    <3>1. SubSeq(path, 1, 1) \in Seq(FileNames) /\ Len(SubSeq(path, 1, 1)) = 1
      BY <1>3
    <3> DEFINE first == SubSeq(path, 1, 1)
    <3>2. first # <<>>
      BY <2>1
    <3> HIDE DEF first
    <3>3. Front(first) \in Seq(FileNames) /\ Len(Front(first)) = Len(first) - 1
      BY <3>1, <3>2, FrontElements DEF first
    <3>4. Len(first) = 1
      BY <3>1 DEF first
    <3> QED  BY <3>3, <3>4 DEF first
  <2> QED  BY <2>2, <2>3
<1>7. /\ create.path \in Seq(FileNames) \ {<<>>}
      /\ last.path \in Seq(FileNames) \ {<<>>}
      /\ last.op = "sync"
      /\ last = Sync(Front(create.path))
  <2>1. create.path = <<directory>> \o path /\ <<directory>> \o path \in Seq(FileNames) \ {<<>>}
    BY <1>1
  <2>2. <<directory>> \o Front(path) \in Seq(FileNames) \ {<<>>}
    BY <1>4
  <2>3. last.op = "sync" /\ last.path = <<directory>> \o Front(path)
    BY DEF Sync
  <2> QED  BY <1>4, <2>1, <2>2, <2>3
<1>8. E \in Seq(X) /\ Len(E) = m - 1 /\ (\A n \in 1 .. m - 1 : E[n] = ensure(n))
        /\ create \in X /\ last \in X
  <2>1. \A n \in 1 .. m - 1 : E[n] \in X
    OBVIOUS
  <2>2. m - 1 \in Nat /\ DOMAIN E = 1 .. m - 1 /\ E = [n \in 1 .. m - 1 |-> E[n]]
    BY <1>1
  <2> HIDE DEF ensure, create, last, path, m
  <2>3. create \in X /\ last \in X
    OBVIOUS
  <2>4. \A n \in 1 .. m - 1 : E[n] = ensure(n)
    OBVIOUS
  <2> HIDE DEF X, E
  <2> QED  BY <2>1, <2>2, <2>3, <2>4
<1> HIDE DEF path, m, ensure, create, last, X, E
<1>9. W \in Seq(X) /\ Len(W) = m + 1
  BY <1>1, <1>2, <1>8
<1>10. /\ \A n \in 1 .. m - 1 : W[n] = ensure(n)
       /\ W[m] = create /\ W[m + 1] = last
  <2> DEFINE V == E \o <<create>>
  <2>1. V \in Seq(X) /\ Len(V) = m /\ V[m] = create /\ \A n \in 1 .. m - 1 : V[n] = E[n]
    <3>1. <<create>> \in Seq(X) /\ Len(<<create>>) = 1 /\ <<create>>[1] = create
      BY <1>8
    <3>2. E \in Seq(X) /\ Len(E) = m - 1 /\ m \in Nat \ {0}
      BY <1>1, <1>8
    <3> DEFINE one == <<create>>
    <3> HIDE DEF one
    <3>3. V \in Seq(X) /\ Len(V) = m /\ V[m] = one[1] /\ \A n \in 1 .. m - 1 : V[n] = E[n]
      BY <3>1, <3>2 DEF one
    <3> QED  BY <3>1, <3>3 DEF one
  <2>2. W = V \o <<last>>
    BY <1>2
  <2> HIDE DEF V
  <2>3. W[m + 1] = last /\ \A n \in 1 .. m : W[n] = V[n]
    BY <1>1, <1>8, <2>1, <2>2
  <2> QED  BY <1>1, <1>8, <2>1, <2>3
<1> HIDE DEF W
<1>11. ASSUME NEW i \in DOMAIN W
       PROVE  W[i].path \in Seq(FileNames) \ {<<>>} /\ Settled(W, i, {<<directory>>})
  <2>1. CASE i = 1 /\ i < m
    <3>1. W[i] = ensure(1)
      BY <1>1, <1>10, <2>1
    <3>2. Front(W[i].path) = <<directory>>
      BY <1>1, <1>6, <2>1, <3>1
    <3> QED  BY <1>1, <1>5, <2>1, <3>1, <3>2 DEF Settled
  <2>2. CASE 1 < i /\ i < m
    <3>1. W[i] = ensure(i) /\ i \in 1 .. m - 1
      BY <1>1, <1>9, <1>10, <2>2
    <3> QED  BY <1>1, <1>5, <2>2, <3>1 DEF Settled
  <2>3. CASE i = m
    <3>1. m + 1 \in DOMAIN W /\ m < m + 1
      BY <1>1, <1>9
    <3> QED  BY <1>7, <1>10, <2>3, <3>1 DEF Settled
  <2>4. CASE i = m + 1
    BY <1>7, <1>10, <2>4 DEF Settled
  <2> QED  BY <1>1, <1>9, <2>1, <2>2, <2>3, <2>4
<1> QED  BY <1>9, <1>11, OverItsRange DEF Settles, W

\* What settles in parts settles together.
LEMMA SettlesTogether ==
  ASSUME NEW pending, NEW X, NEW u \in Seq(X), NEW v \in Seq(X),
         Settles(u, pending), Settles(v, pending)
  PROVE  Settles(u \o v, pending)
<1> DEFINE w == u \o v
<1>1. /\ Len(u) \in Nat /\ Len(v) \in Nat /\ w \in Seq(X)
      /\ DOMAIN u = 1 .. Len(u) /\ DOMAIN v = 1 .. Len(v) /\ DOMAIN w = 1 .. Len(u) + Len(v)
      /\ \A i \in 1 .. Len(u) : w[i] = u[i]
      /\ \A i \in 1 .. Len(v) : w[Len(u) + i] = v[i]
  OBVIOUS
<1> HIDE DEF w
<1>2. ASSUME NEW i \in DOMAIN w
      PROVE  w[i].path \in Seq(FileNames) \ {<<>>} /\ Settled(w, i, pending)
  <2>1. CASE i \in DOMAIN u
    <3>1. w[i] = u[i] /\ u[i].path \in Seq(FileNames) \ {<<>>} /\ Settled(u, i, pending)
      BY <1>1, <2>1 DEF Settles
    <3>2. \A j \in DOMAIN u : j \in DOMAIN w /\ w[j] = u[j]
      BY <1>1
    <3> QED  BY <3>1, <3>2 DEF Settled
  <2>2. CASE i \notin DOMAIN u
    <3>1. PICK k \in DOMAIN v : i = Len(u) + k
      <4>1. i - Len(u) \in DOMAIN v /\ i = Len(u) + (i - Len(u))
        BY <1>1, <2>2
      <4> QED  BY <4>1
    <3>2. w[i] = v[k] /\ v[k].path \in Seq(FileNames) \ {<<>>} /\ Settled(v, k, pending)
      BY <1>1, <3>1 DEF Settles
    <3>3. \A j \in DOMAIN v : /\ Len(u) + j \in DOMAIN w /\ w[Len(u) + j] = v[j]
                              /\ k < j => i < Len(u) + j
      BY <1>1, <3>1
    <3> QED  BY <3>2, <3>3 DEF Settled
  <2> QED  BY <2>1, <2>2
<1> QED  BY <1>1, <1>2, OverItsRange DEF Settles, w

\* A list settles when it ends with the synchronization it depended on.
LEMMA SettledAtTheEnd ==
  ASSUME NEW root, NEW writes, Settles(writes, {root}), writes # <<>>,
         writes[Len(writes)] = Sync(root)
  PROVE  Settles(writes, {})
<1>1. Len(writes) \in DOMAIN writes /\ \A i \in DOMAIN writes : i < Len(writes) \/ i = Len(writes)
  BY DEF Settles
<1>2. Sync(root).op = "sync"
  BY DEF Sync
<1> QED  BY <1>1, <1>2 DEF Settles, Settled

\* A package's writes settle.
LEMMA WritesSettle ==
  ASSUME NEW recipe, recipe.directory \in FileNames,
         {"resources", "implementation_offers"} \subseteq DOMAIN recipe.manifest,
         IsFiniteSet(recipe.inputs),
         \A i \in recipe.inputs : i.name \in Seq(Nat) /\ i.path \in Seq(FileNames) \ {<<>>},
         \A i, j \in recipe.inputs : Len(i.name) = Len(j.name),
         \A i, j \in recipe.inputs : i.name = j.name => i = j,
         NEW bytes
  PROVE  Settles(Writes(recipe, bytes), {})
<1> DEFINE manifest == ManifestOf(recipe, bytes)
           directory == recipe.directory
           root == <<directory>>
           list == SortedBy(Measured(recipe, bytes), NameOf)
           n == Cardinality(Measured(recipe, bytes))
           pieces == [i \in DOMAIN list |-> WritesOf(directory, list[i], bytes)]
           first == [op |-> "create", path |-> root, node |-> Directory]
           document == [op |-> "create", path |-> root \o <<ManifestFile>>,
                        node |-> [kind |-> "manifest",
                                  document |-> [manifest |-> manifest,
                                                content_digest |-> PackageDigest(manifest)]]]
           parts == UNION {Range(pieces[i]) : i \in DOMAIN list}
           last == Sync(root)
           X == parts \cup {first, document, last}
           G == {w \in Seq(X) : Settles(w, {root})}
<1>1. manifest.resources = list
  BY DEF ManifestOf
<1>2. n \in Nat /\ list \in [1 .. n -> Measured(recipe, bytes)]
  BY ResourcesAreMeasured, FS_CardinalityType DEF SetToSeqs
<1>3. \A r \in Measured(recipe, bytes) : r.path \in Seq(FileNames) \ {<<>>}
  BY DEF Measured
<1>4. \A i \in 1 .. n : pieces[i] = WritesOf(directory, list[i], bytes)
                        /\ Settles(pieces[i], {root})
  BY <1>2, <1>3, ResourceSettles
<1>5. /\ DOMAIN pieces = 1 .. n /\ Len(pieces) = n /\ pieces = [i \in 1 .. n |-> pieces[i]]
      /\ DOMAIN list = 1 .. n
  BY <1>2
<1> HIDE DEF pieces, list, n, first, document
<1>6. \A i \in 1 .. n : pieces[i] \in G
  <2> SUFFICES ASSUME NEW i \in 1 .. n PROVE pieces[i] \in Seq(X)
    BY <1>4
  <2>1. pieces[i] \in Seq(Range(pieces[i])) /\ Range(pieces[i]) \subseteq X
    BY <1>4, <1>5 DEF Settles
  <2> HIDE DEF X
  <2> QED  BY <2>1
<1>7. first \in X /\ document \in X /\ Sync(root) \in X
  <2> HIDE DEF parts, last
  <2>1. first \in X /\ document \in X /\ last \in X
    OBVIOUS
  <2> QED  BY <2>1 DEF last
<1> HIDE DEF parts, X
<1>8. \A u, v \in G : u \o v \in G
  BY SettlesTogether
<1>9. <<>> \in G
  BY DEF Settles
<1> DEFINE flat == FlattenSeq(pieces)
           before == <<first>> \o flat
           after == <<document, Sync(root)>>
<1>10. flat \in G
  <2> HIDE DEF G
  <2> QED  BY <1>2, <1>5, <1>6, <1>8, <1>9, FlatteningPreserves
<1>11. <<first>> \in G
  <2>1. first.path \in Seq(FileNames) \ {<<>>} /\ Len(first.path) = 1
    BY DEF first
  <2>2. <<first>> \in Seq(X) /\ \A i \in DOMAIN <<first>> : <<first>>[i] = first
    BY <1>7
  <2> QED  BY <2>1, <2>2, OverItsRange DEF Settles, Settled
<1>12. after \in G /\ Len(after) = 2 /\ after[2] = Sync(root)
  <2>1. document.path \in Seq(FileNames) \ {<<>>} /\ Front(document.path) = root
    <3>1. document.path = root \o <<ManifestFile>>
      BY DEF document
    <3>2. ManifestFile \in FileNames
      BY DEF FileNames
    <3>3. /\ <<ManifestFile>> \in Seq(FileNames) /\ <<ManifestFile>> # <<>>
          /\ Front(<<ManifestFile>>) = <<>>
      BY <3>2, OneElement
    <3>4. root \in Seq(FileNames) /\ root # <<>>
      BY OneElement
    <3> DEFINE file == <<ManifestFile>>
    <3> HIDE DEF file
    <3>5. Front(root \o file) = root \o Front(file)
      BY <3>3, FrontBelow DEF file
    <3>6. root \o file \in Seq(FileNames) \ {<<>>} /\ root \o <<>> = root
      BY <3>3, <3>4 DEF file
    <3> QED  BY <3>1, <3>3, <3>5, <3>6 DEF file
  <2>2. Sync(root).op = "sync" /\ Sync(root).path \in Seq(FileNames) \ {<<>>}
    BY DEF Sync
  <2>3. after \in Seq(X) /\ Len(after) = 2 /\ after[1] = document /\ after[2] = Sync(root)
    BY <1>7
  <2> HIDE DEF after
  <2> QED  BY <2>1, <2>2, <2>3, OverItsRange DEF Settles, Settled
<1>13. Writes(recipe, bytes) = before \o after
  BY <1>1 DEF Writes, Sync, first, document, pieces
<1> HIDE DEF flat, after
<1>14. before \in G
  BY <1>8, <1>10, <1>11
<1> HIDE DEF before
<1> DEFINE all == before \o after
<1>15. all \in G
  BY <1>8, <1>12, <1>14
<1>16. all # <<>> /\ all[Len(all)] = Sync(root)
  <2>1. before \in Seq(X) /\ after \in Seq(X) /\ Len(after) = 2 /\ Len(before) \in Nat
    BY <1>12, <1>14
  <2>2. /\ Len(all) = Len(before) + Len(after)
        /\ \A i \in 1 .. Len(after) : all[Len(before) + i] = after[i]
    <3>1. after \in Seq(X)
      BY <1>12
    <3>2. before \in Seq(X)
      BY <1>14
    <3> QED  BY <3>1, <3>2
  <2>3. all # <<>> /\ Len(all) = Len(before) + 2 /\ 2 \in 1 .. Len(after)
    BY <2>1, <2>2
  <2> QED  BY <1>12, <2>2, <2>3
<1> HIDE DEF all
<1>17. Settles(all, {})
  BY <1>15, <1>16, SettledAtTheEnd
<1> QED  BY <1>13, <1>17 DEF all

\* A call begins with an empty staging directory.
LEMMA BeginStaged ==
  ASSUME NEW recipes \in Images, CanBeBuilt(recipes), recipes # <<>>
  PROVE  Staged([at |-> "assemble", recipes |-> recipes, read |-> <<>>,
                 session |-> EmptySession, tree |-> EmptyTree, durable |-> {<<>>},
                 writes |-> <<>>])
<1> DEFINE c == [at |-> "assemble", recipes |-> recipes, read |-> <<>>,
                 session |-> EmptySession, tree |-> EmptyTree, durable |-> {<<>>},
                 writes |-> <<>>]
<1>1. CallFields \subseteq DOMAIN c
  BY DEF CallFields
<1>2. Len(<<>>) < Len(recipes)
  BY RecipesAreOfParts
<1>3. <<>> \in Seq(Range(<<>>)) /\ Settles(<<>>, {})
  BY DEF Settles
<1>4. DOMAIN EmptyTree = {<<>>} /\ {<<>>} \subseteq Seq(FileNames)
  BY DEF EmptyTree
<1> QED  BY <1>1, <1>2, <1>3, <1>4 DEF Staged

\* The recipe that is assembled next is one, and its writes settle.
LEMMA NextWritesSettle ==
  ASSUME NEW c, Staged(c), c.at = "assemble", NEW bytes
  PROVE  Settles(Writes(c.recipes[Len(c.read) + 1], bytes), {})
<1> DEFINE recipe == c.recipes[Len(c.read) + 1]
<1>1. Len(c.read) \in Nat /\ Len(c.read) < Len(c.recipes) /\ c.recipes \in Images
        /\ CanBeBuilt(c.recipes)
  BY DEF Staged
<1>2. c.recipes \in Seq(Range(c.recipes))
  BY <1>1, RecipesAreOfParts
<1>3. recipe \in Range(c.recipes)
  BY <1>1, <1>2 DEF Range
<1>4. IsRecipe(recipe)
  BY <1>1, <1>3 DEF CanBeBuilt
<1> HIDE DEF recipe
<1>5. /\ recipe.directory \in STRING
      /\ {"resources", "implementation_offers"} \subseteq DOMAIN recipe.manifest
      /\ IsFiniteSet(recipe.inputs)
      /\ \A i \in recipe.inputs : i.name \in Seq(Nat) /\ i.path \in Seq(STRING) \ {<<>>}
      /\ \A i, j \in recipe.inputs : Len(i.name) = Len(j.name)
  BY <1>1, <1>3, RecipesAreOfParts
<1>6. recipe.directory \in FileNames
      /\ \A i \in recipe.inputs : i.path \in Seq(FileNames) \ {<<>>}
  BY <1>5 DEF FileNames
<1>7. \A i, j \in recipe.inputs : i.name = j.name => i = j
  BY <1>4 DEF IsRecipe
<1>8. Settles(Writes(recipe, bytes), {})
  BY <1>5, <1>6, <1>7, WritesSettle
<1> QED  BY <1>8 DEF recipe

\* The writes of the next package are all to come.
LEMMA AssembleStaged ==
  ASSUME NEW c, Staged(c), c.at = "assemble", NEW bytes, NEW next,
         next = [[[c EXCEPT !.read = Append(@, bytes)] EXCEPT !.at = "write"]
                   EXCEPT !.writes = Writes(c.recipes[Len(c.read) + 1], bytes)]
  PROVE  Staged(next)
<1> DEFINE writes == Writes(c.recipes[Len(c.read) + 1], bytes)
           read == Append(c.read, bytes)
<1>1. Settles(writes, {})
  BY NextWritesSettle
<1>2. read \in Seq(Range(read))
  <2>1. c.read \in Seq(Range(c.read) \cup {bytes})
    BY DEF Staged
  <2>2. read \in Seq(Range(c.read) \cup {bytes})
    BY <2>1
  <2> HIDE DEF read
  <2> QED  BY <2>2, OverItsRange
<1>3. CallFields \subseteq DOMAIN c
  BY DEF Staged
<1> HIDE DEF writes, read
<1>4. /\ DOMAIN next = DOMAIN c
      /\ next.at = "write" /\ next.writes = writes /\ next.read = read
      /\ next.recipes = c.recipes /\ next.tree = c.tree /\ next.durable = c.durable
  BY <1>3 DEF CallFields, writes, read
<1>5. Range(c.writes) = {}
  BY DEF Staged, Range
<1> QED  BY <1>1, <1>2, <1>3, <1>4, <1>5 DEF Staged

\* A new node buries no less than there was.
LEMMA PlacedBuries ==
  ASSUME NEW tree, NEW new, new \notin DOMAIN tree, NEW node
  PROVE  /\ DOMAIN Placed(tree, new, node) = DOMAIN tree \cup {new}
         /\ Placed(tree, new, node)[new] = node
         /\ Buried(tree) \subseteq Buried(Placed(tree, new, node))
<1>1. /\ DOMAIN Placed(tree, new, node) = DOMAIN tree \cup {new}
      /\ Placed(tree, new, node)[new] = node
      /\ \A path \in DOMAIN tree : Placed(tree, new, node)[path] = tree[path]
  BY DEF Placed
<1> QED  BY <1>1 DEF Buried, IsKind

\* What is left of a list that settles.
LEMMA RestSettles ==
  ASSUME NEW writes, writes # <<>>, Settles(writes, {})
  PROVE  /\ Settles(Tail(writes), {})
         /\ writes[1] = Head(writes)
         /\ writes[1].path \in Seq(FileNames) \ {<<>>}
         /\ Settled(writes, 1, {})
         /\ \A j \in DOMAIN writes : j = 1 \/ writes[j] \in Range(Tail(writes))
<1> DEFINE X == Range(writes)
           n == Len(writes)
           rest == Tail(writes)
<1>1. writes \in Seq(X) /\ n \in Nat \ {0} /\ DOMAIN writes = 1 .. n
  BY DEF Settles
<1>2. /\ rest \in Seq(X) /\ Len(rest) = n - 1 /\ DOMAIN rest = 1 .. n - 1
      /\ \A i \in 1 .. n - 1 : rest[i] = writes[i + 1]
      /\ Head(writes) = writes[1]
  BY <1>1
<1> HIDE DEF X, n, rest
<1>3. ASSUME NEW j \in DOMAIN writes, j # 1
      PROVE  j - 1 \in DOMAIN rest /\ rest[j - 1] = writes[j]
  BY <1>1, <1>2, <1>3
<1>4. ASSUME NEW i \in DOMAIN rest
      PROVE  rest[i].path \in Seq(FileNames) \ {<<>>} /\ Settled(rest, i, {})
  <2>1. i + 1 \in DOMAIN writes /\ rest[i] = writes[i + 1] /\ i \in Nat \ {0}
    BY <1>1, <1>2
  <2>2. writes[i + 1].path \in Seq(FileNames) \ {<<>>} /\ Settled(writes, i + 1, {})
    BY <2>1 DEF Settles
  <2>3. ASSUME NEW j \in DOMAIN writes, i + 1 < j
        PROVE  j - 1 \in DOMAIN rest /\ i < j - 1 /\ rest[j - 1] = writes[j]
    BY <1>1, <1>2, <2>1, <2>3
  <2> QED  BY <2>1, <2>2, <2>3 DEF Settled
<1>5. Settles(rest, {})
  BY <1>2, <1>4, OverItsRange DEF Settles
<1>6. 1 \in DOMAIN writes
  BY <1>1
<1>7. \A j \in DOMAIN writes : j = 1 \/ writes[j] \in Range(rest)
  BY <1>3 DEF Range
<1> QED  BY <1>2, <1>5, <1>6, <1>7 DEF Settles, rest

\* A synchronization makes durable what the ones after it do not.
LEMMA SyncWriteStaged ==
  ASSUME NEW c, Staged(c), c.at = "write", c.writes # <<>>,
         Head(c.writes).op = "sync", NEW next,
         next = [[c EXCEPT !.writes = Tail(@)]
                  EXCEPT !.durable = @ \cup Children(c.tree, Head(c.writes).path)]
  PROVE  Staged(next)
<1> DEFINE rest == Tail(c.writes)
           durable == c.durable \cup Children(c.tree, Head(c.writes).path)
<1>1. /\ Settles(rest, {})
      /\ c.writes[1] = Head(c.writes)
      /\ \A j \in DOMAIN c.writes : j = 1 \/ c.writes[j] \in Range(rest)
  BY RestSettles DEF Staged
<1>2. CallFields \subseteq DOMAIN c
  BY DEF Staged
<1> HIDE DEF rest, durable
<1>3. /\ DOMAIN next = DOMAIN c
      /\ next.at = "write" /\ next.writes = rest /\ next.read = c.read
      /\ next.recipes = c.recipes /\ next.tree = c.tree /\ next.durable = durable
  BY <1>2 DEF CallFields, rest, durable
<1>4. ASSUME NEW path \in DOMAIN c.tree \ durable
      PROVE  \/ path \in Buried(c.tree)
             \/ Len(path) = 1 /\ c.at # "rename"
             \/ path # <<>> /\ Sync(Front(path)) \in Range(rest)
  <2>1. path \in DOMAIN c.tree \ c.durable /\ path \notin Children(c.tree, Head(c.writes).path)
    BY DEF durable
  <2>2. CASE path # <<>> /\ Sync(Front(path)) \in Range(c.writes)
    <3>1. PICK j \in DOMAIN c.writes : Sync(Front(path)) = c.writes[j]
      BY <2>2 DEF Range
    <3>2. j # 1
      <4>1. Front(path) # Head(c.writes).path
        BY <2>1, <2>2 DEF Children
      <4>2. Sync(Front(path)).path = Front(path)
        BY DEF Sync
      <4> QED  BY <1>1, <3>1, <4>1, <4>2
    <3> QED  BY <1>1, <2>2, <3>1, <3>2
  <2> QED  BY <2>1, <2>2 DEF Staged
<1> QED  BY <1>1, <1>2, <1>3, <1>4 DEF Staged

\* A directory that is there is left as it is.
LEMMA EnsureWriteStaged ==
  ASSUME NEW c, Staged(c), c.at = "write", c.writes # <<>>,
         Head(c.writes).op # "sync", NEW next,
         next = [c EXCEPT !.writes = Tail(@)]
  PROVE  Staged(next)
<1> DEFINE rest == Tail(c.writes)
<1>1. /\ Settles(rest, {})
      /\ c.writes[1] = Head(c.writes)
      /\ \A j \in DOMAIN c.writes : j = 1 \/ c.writes[j] \in Range(rest)
  BY RestSettles DEF Staged
<1>2. CallFields \subseteq DOMAIN c
  BY DEF Staged
<1> HIDE DEF rest
<1>3. /\ DOMAIN next = DOMAIN c
      /\ next.at = "write" /\ next.writes = rest /\ next.read = c.read
      /\ next.recipes = c.recipes /\ next.tree = c.tree /\ next.durable = c.durable
  BY <1>2 DEF CallFields, rest
<1>4. \A d : Sync(d).op = "sync"
  BY DEF Sync
<1>5. \A d : Sync(d) \in Range(c.writes) => Sync(d) \in Range(rest)
  BY <1>1, <1>4 DEF Range
<1> QED  BY <1>1, <1>2, <1>3, <1>5 DEF Staged

\* A new node is followed by the synchronization that makes it durable.
LEMMA NewWriteStaged ==
  ASSUME NEW c, Staged(c), c.at = "write", c.writes # <<>>,
         Head(c.writes).op # "sync", Head(c.writes).path \notin DOMAIN c.tree, NEW next,
         next = [[c EXCEPT !.writes = Tail(@)]
                  EXCEPT !.tree = Placed(@, Head(c.writes).path, Head(c.writes).node)]
  PROVE  Staged(next)
<1> DEFINE write == Head(c.writes)
           rest == [c EXCEPT !.writes = Tail(@)]
           tree == Placed(c.tree, write.path, write.node)
<1>1. CallFields \subseteq DOMAIN c
  BY DEF Staged
<1>2. Staged(rest)
  BY EnsureWriteStaged
<1>3. /\ DOMAIN rest = DOMAIN c
      /\ rest.at = "write" /\ rest.writes = Tail(c.writes) /\ rest.read = c.read
      /\ rest.recipes = c.recipes /\ rest.tree = c.tree /\ rest.durable = c.durable
  BY <1>1 DEF CallFields
<1> HIDE DEF rest, tree
<1>4. next = [rest EXCEPT !.tree = tree]
  BY <1>3 DEF rest, tree
<1>5. /\ DOMAIN next = DOMAIN rest
      /\ next.at = rest.at /\ next.writes = rest.writes /\ next.read = rest.read
      /\ next.recipes = rest.recipes /\ next.tree = tree /\ next.durable = rest.durable
  BY <1>1, <1>3, <1>4 DEF CallFields
<1>6. /\ DOMAIN tree = DOMAIN c.tree \cup {write.path}
      /\ tree[write.path] = write.node
      /\ Buried(c.tree) \subseteq Buried(tree)
  BY PlacedBuries DEF tree
<1>7. /\ c.writes[1] = write
      /\ write.path \in Seq(FileNames) \ {<<>>}
      /\ Settled(c.writes, 1, {})
      /\ \A j \in DOMAIN c.writes : j = 1 \/ c.writes[j] \in Range(Tail(c.writes))
  BY RestSettles DEF Staged
<1> HIDE DEF write
<1>8. \/ write.path \in Buried(tree)
      \/ Len(write.path) = 1
      \/ write.path # <<>> /\ Sync(Front(write.path)) \in Range(Tail(c.writes))
  <2>1. CASE Len(write.path) >= 3 /\ write.node = Directory
    <3>1. Len(write.path) \in 3 .. Len(write.path)
            /\ SubSeq(write.path, 1, Len(write.path)) = write.path
      BY <1>7, <2>1
    <3>2. IsKind(tree, write.path, "directory")
      BY <1>6, <2>1 DEF IsKind, Directory
    <3> QED  BY <1>6, <3>1, <3>2 DEF Buried
  <2>2. CASE \E j \in DOMAIN c.writes : 1 < j /\ c.writes[j] = Sync(Front(write.path))
    BY <1>7, <2>2
  <2> QED  BY <1>7, <2>1, <2>2 DEF Settled, write
<1>9. DOMAIN tree \subseteq Seq(FileNames)
  BY <1>6, <1>7 DEF Staged
<1>10. \A path \in DOMAIN tree \ c.durable :
         \/ path \in Buried(tree)
         \/ Len(path) = 1
         \/ path # <<>> /\ Sync(Front(path)) \in Range(Tail(c.writes))
  <2> SUFFICES ASSUME NEW path \in DOMAIN tree \ c.durable, path # write.path
               PROVE  \/ path \in Buried(tree)
                      \/ Len(path) = 1
                      \/ path # <<>> /\ Sync(Front(path)) \in Range(Tail(c.writes))
    BY <1>8
  <2>1. path \in DOMAIN rest.tree \ rest.durable
    BY <1>3, <1>6
  <2> QED  BY <1>2, <1>3, <1>6, <2>1 DEF Staged
<1> QED  BY <1>2, <1>3, <1>5, <1>9, <1>10 DEF Staged

\* The next package, or the lock, is next.
LEMMA CheckStaged ==
  ASSUME NEW c, Staged(c), c.at = "write", c.writes = <<>>, NEW session, NEW next,
         next = [[c EXCEPT !.session = session]
                  EXCEPT !.at = IF Len(c.read) < Len(c.recipes) THEN "assemble" ELSE "lock"]
  PROVE  Staged(next)
<1> DEFINE at == IF Len(c.read) < Len(c.recipes) THEN "assemble" ELSE "lock"
<1>1. CallFields \subseteq DOMAIN c
  BY DEF Staged
<1>2. at # "rename" /\ (at = "assemble" => Len(c.read) < Len(c.recipes))
  OBVIOUS
<1> HIDE DEF at
<1>3. /\ DOMAIN next = DOMAIN c
      /\ next.at = at /\ next.writes = c.writes /\ next.read = c.read
      /\ next.recipes = c.recipes /\ next.tree = c.tree /\ next.durable = c.durable
  BY <1>1 DEF CallFields, at
<1> QED  BY <1>1, <1>2, <1>3 DEF Staged

\* The lock is in the staging directory itself, which is synchronized last.
LEMMA LockStaged ==
  ASSUME NEW c, Staged(c), c.at = "lock", LockFile \notin DOMAIN c.tree, NEW node, NEW next,
         next = [[c EXCEPT !.at = "reload"] EXCEPT !.tree = Placed(@, LockFile, node)]
  PROVE  Staged(next)
<1> DEFINE tree == Placed(c.tree, LockFile, node)
<1>1. CallFields \subseteq DOMAIN c
  BY DEF Staged
<1> HIDE DEF tree
<1>2. /\ DOMAIN next = DOMAIN c
      /\ next.at = "reload" /\ next.writes = c.writes /\ next.read = c.read
      /\ next.recipes = c.recipes /\ next.tree = tree /\ next.durable = c.durable
  BY <1>1 DEF CallFields, tree
<1>3. /\ DOMAIN tree = DOMAIN c.tree \cup {LockFile}
      /\ Buried(c.tree) \subseteq Buried(tree)
  BY PlacedBuries DEF tree
<1>4. LockFile \in Seq(FileNames) /\ Len(LockFile) = 1
  <2>1. LockFile = <<LockFile[1]>>
    BY DEF LockFile
  <2>2. LockFile[1] \in FileNames
    BY DEF FileNames
  <2> QED  BY <2>1, <2>2, OneElement
<1> QED  BY <1>1, <1>2, <1>3, <1>4 DEF Staged

\* The reload changes nothing of the staging directory.
LEMMA ReloadStaged ==
  ASSUME NEW c, Staged(c), c.at = "reload", NEW next, next = [c EXCEPT !.at = "sync"]
  PROVE  Staged(next)
<1>1. CallFields \subseteq DOMAIN c
  BY DEF Staged
<1>2. /\ DOMAIN next = DOMAIN c
      /\ next.at = "sync" /\ next.writes = c.writes /\ next.read = c.read
      /\ next.recipes = c.recipes /\ next.tree = c.tree /\ next.durable = c.durable
  BY <1>1 DEF CallFields
<1> QED  BY <1>1, <1>2 DEF Staged

\* What is at the top of the staging directory is durable at last.
LEMMA SyncStaged ==
  ASSUME NEW c, Staged(c), c.at = "sync", NEW next,
         next = [[c EXCEPT !.at = "rename"] EXCEPT !.durable = @ \cup Children(c.tree, <<>>)]
  PROVE  Staged(next)
<1> DEFINE durable == c.durable \cup Children(c.tree, <<>>)
<1>1. CallFields \subseteq DOMAIN c
  BY DEF Staged
<1> HIDE DEF durable
<1>2. /\ DOMAIN next = DOMAIN c
      /\ next.at = "rename" /\ next.writes = c.writes /\ next.read = c.read
      /\ next.recipes = c.recipes /\ next.tree = c.tree /\ next.durable = durable
  BY <1>1 DEF CallFields, durable
<1>3. ASSUME NEW path \in DOMAIN c.tree, Len(path) = 1
      PROVE  path \in durable
  <2>1. path \in Seq(FileNames) /\ path # <<>>
    <3>1. path \in Seq(FileNames)
      BY <1>3 DEF Staged
    <3>2. ASSUME path = <<>> PROVE FALSE
      <4>1. Len(<<>>) = 1
        BY <1>3, <3>2
      <4> QED  BY <4>1
    <3> QED  BY <3>1, <3>2
  <2>2. Front(path) \in Seq(FileNames) /\ Len(Front(path)) = 0
    BY <1>3, <2>1, FrontElements
  <2>3. Front(path) = <<>>
    BY <2>2
  <2> QED  BY <2>1, <2>3 DEF durable, Children
<1>4. DOMAIN c.tree \ durable \subseteq DOMAIN c.tree \ c.durable
  BY DEF durable
<1> QED  BY <1>1, <1>2, <1>3, <1>4 DEF Staged

\* What a call is after a step of staging.
StagedOrOver(c) == c.at \in Staging => Staged(c)

\* A call that ended before the commit has not reported anything.
LEMMA OverIsNotReported ==
  ASSUME NEW c, NEW answer, NEW next, next = Done(c, answer), answer # "synchronized"
  PROVE  next.at = "done" /\ next.answer = answer /\ StagedOrOver(next)
BY DEF Done, StagedOrOver, Staging

\* A step of staging leaves a call that is staged or over, and reports nothing.
LEMMA StagingStep ==
  ASSUME NEW p \in Publishers, StagedOrOver(call[p]),
         \/ \E recipes \in Images : Begin(p, recipes)
         \/ \E bytes : Assemble(p, bytes)
         \/ Write(p) \/ CheckWritten(p) \/ WriteLock(p) \/ Reload(p) \/ SyncStaging(p)
         \/ SystemCallFails(p)
  PROVE  \E next : /\ call' = [call EXCEPT ![p] = next]
                   /\ StagedOrOver(next)
                   /\ next.at # "published"
                   /\ ~ (next.at = "done" /\ next.answer = "synchronized")
<1> DEFINE Goal == \E next : /\ call' = [call EXCEPT ![p] = next]
                             /\ StagedOrOver(next)
                             /\ next.at # "published"
                             /\ ~ (next.at = "done" /\ next.answer = "synchronized")
           c == call[p]
<1>1. ASSUME NEW d, NEW answer, answer # "synchronized",
             call' = [call EXCEPT ![p] = Done(d, answer)]
      PROVE  Goal
  <2> DEFINE next == Done(d, answer)
  <2>1. next.at = "done" /\ next.answer = answer /\ StagedOrOver(next)
    BY <1>1, OverIsNotReported
  <2> HIDE DEF next
  <2>2. call' = [call EXCEPT ![p] = next]
    BY <1>1 DEF next
  <2> QED  BY <1>1, <2>1, <2>2
<1>2. ASSUME NEW next, Staged(next), next.at \in Staging, call' = [call EXCEPT ![p] = next]
      PROVE  Goal
  <2>1. next.at # "published" /\ next.at # "done"
    BY <1>2 DEF Staging
  <2> QED  BY <1>2, <2>1 DEF StagedOrOver
<1> SUFFICES Goal
  OBVIOUS
<1> HIDE DEF Goal
<1>3. ASSUME NEW recipes \in Images, Begin(p, recipes)
      PROVE  Goal
  <2> DEFINE next == [at |-> "assemble", recipes |-> recipes, read |-> <<>>,
                      session |-> EmptySession, tree |-> EmptyTree, durable |-> {<<>>},
                      writes |-> <<>>]
  <2>1. CanBeBuilt(recipes) /\ \/ call' = [call EXCEPT ![p] = Done(next, "refused")]
                               \/ call' = [call EXCEPT ![p] = Done(next, "exists")]
                               \/ recipes # <<>> /\ call' = [call EXCEPT ![p] = next]
    BY <1>3 DEF Begin
  <2>2. next.at \in Staging
    BY DEF Staging
  <2>3. recipes # <<>> => Staged(next)
    BY <2>1, BeginStaged
  <2> HIDE DEF next
  <2> QED  BY <1>1, <1>2, <2>1, <2>2, <2>3
<1>4. ASSUME NEW bytes, Assemble(p, bytes)
      PROVE  Goal
  <2> DEFINE next == [[[c EXCEPT !.read = Append(@, bytes)] EXCEPT !.at = "write"]
                        EXCEPT !.writes = Writes(c.recipes[Len(c.read) + 1], bytes)]
             after == [c EXCEPT !.read = Append(@, bytes)]
  <2>1. /\ c.at = "assemble"
        /\ \/ call' = [call EXCEPT ![p] = next]
           \/ call' = [call EXCEPT ![p] = Done(after, "refused")]
    BY <1>4 DEF Assemble
  <2>2. Staged(c)
    BY <2>1 DEF StagedOrOver, Staging
  <2>3. Staged(next)
    BY <2>1, <2>2, AssembleStaged
  <2>4. next.at = "write"
    <3>1. CallFields \subseteq DOMAIN c
      BY <2>2 DEF Staged
    <3> QED  BY <3>1 DEF CallFields
  <2>5. next.at \in Staging
    BY <2>4 DEF Staging
  <2> HIDE DEF next, after
  <2> QED  BY <1>1, <1>2, <2>1, <2>3, <2>5
<1>5. CASE Write(p)
  <2> DEFINE write == Head(c.writes)
             rest == [c EXCEPT !.writes = Tail(@)]
             synced == [rest EXCEPT !.durable = @ \cup Children(c.tree, write.path)]
             placed == [rest EXCEPT !.tree = Placed(@, write.path, write.node)]
  <2>1. c.at = "write" /\ c.writes # <<>>
    BY <1>5 DEF Write
  <2>2. \/ write.op = "sync" /\ call' = [call EXCEPT ![p] = synced]
        \/ write.op # "sync" /\ call' = [call EXCEPT ![p] = rest]
        \/ /\ write.op # "sync" /\ write.path \notin DOMAIN c.tree
           /\ call' = [call EXCEPT ![p] = placed]
        \/ call' = [call EXCEPT ![p] = Done(c, "refused")]
    BY <1>5 DEF Write
  <2>3. Staged(c)
    BY <2>1 DEF StagedOrOver, Staging
  <2>4. CallFields \subseteq DOMAIN c
    BY <2>3 DEF Staged
  <2>5. synced.at = "write" /\ rest.at = "write" /\ placed.at = "write"
    BY <2>1, <2>4 DEF CallFields
  <2>6. /\ write.op = "sync" => Staged(synced)
        /\ write.op # "sync" => Staged(rest)
        /\ write.op # "sync" /\ write.path \notin DOMAIN c.tree => Staged(placed)
    BY <2>1, <2>3, SyncWriteStaged, EnsureWriteStaged, NewWriteStaged
  <2>7. "write" \in Staging
    BY DEF Staging
  <2> HIDE DEF synced, rest, placed
  <2> QED  BY <1>1, <1>2, <2>2, <2>5, <2>6, <2>7
<1>6. CASE CheckWritten(p)
  <2> DEFINE at == IF Len(c.read) < Len(c.recipes) THEN "assemble" ELSE "lock"
             next(session) == [[c EXCEPT !.session = session] EXCEPT !.at = at]
  <2>1. c.at = "write" /\ c.writes = <<>>
    BY <1>6 DEF CheckWritten
  <2>2. \/ \E session : call' = [call EXCEPT ![p] = next(session)]
        \/ call' = [call EXCEPT ![p] = Done(c, "refused")]
    BY <1>6 DEF CheckWritten
  <2>3. Staged(c)
    BY <2>1 DEF StagedOrOver, Staging
  <2>4. \A session : Staged(next(session))
    BY <2>1, <2>3, CheckStaged
  <2>5. CallFields \subseteq DOMAIN c
    BY <2>3 DEF Staged
  <2>6. \A session : next(session).at = at
    BY <2>5 DEF CallFields
  <2>7. at \in Staging
    BY DEF Staging
  <2> HIDE DEF next, at
  <2> QED  BY <1>1, <1>2, <2>2, <2>4, <2>6, <2>7
<1>7. CASE WriteLock(p)
  <2> DEFINE next(node) == [[c EXCEPT !.at = "reload"] EXCEPT !.tree = Placed(@, LockFile, node)]
  <2>1. c.at = "lock"
    BY <1>7 DEF WriteLock
  <2>2. \/ LockFile \notin DOMAIN c.tree /\ \E node : call' = [call EXCEPT ![p] = next(node)]
        \/ call' = [call EXCEPT ![p] = Done(c, "refused")]
    BY <1>7 DEF WriteLock
  <2>3. Staged(c)
    BY <2>1 DEF StagedOrOver, Staging
  <2>4. LockFile \notin DOMAIN c.tree => \A node : Staged(next(node))
    BY <2>1, <2>3, LockStaged
  <2>5. CallFields \subseteq DOMAIN c
    BY <2>3 DEF Staged
  <2>6. \A node : next(node).at = "reload"
    BY <2>5 DEF CallFields
  <2>7. "reload" \in Staging
    BY DEF Staging
  <2> HIDE DEF next
  <2> QED  BY <1>1, <1>2, <2>2, <2>4, <2>6, <2>7
<1>8. CASE Reload(p)
  <2> DEFINE next == [c EXCEPT !.at = "sync"]
  <2>1. /\ c.at = "reload"
        /\ \/ call' = [call EXCEPT ![p] = next]
           \/ call' = [call EXCEPT ![p] = Done(c, "refused")]
    BY <1>8 DEF Reload
  <2>2. Staged(c)
    BY <2>1 DEF StagedOrOver, Staging
  <2>3. Staged(next)
    BY <2>1, <2>2, ReloadStaged
  <2>4. CallFields \subseteq DOMAIN c
    BY <2>2 DEF Staged
  <2>5. next.at \in Staging
    BY <2>4 DEF CallFields, Staging
  <2> HIDE DEF next
  <2> QED  BY <1>1, <1>2, <2>1, <2>3, <2>5
<1>9. CASE SyncStaging(p)
  <2> DEFINE next == [[c EXCEPT !.at = "rename"] EXCEPT !.durable = @ \cup Children(c.tree, <<>>)]
  <2>1. c.at = "sync"
    BY <1>9 DEF SyncStaging
  <2>2. Staged(c)
    BY <2>1 DEF StagedOrOver, Staging
  <2>3. Staged(next)
    BY <2>1, <2>2, SyncStaged
  <2>4. CallFields \subseteq DOMAIN c
    BY <2>2 DEF Staged
  <2>5. next.at \in Staging
    BY <2>4 DEF CallFields, Staging
  <2>6. call' = [call EXCEPT ![p] = next]
    <3> DEFINE durable == c.durable \cup Children(c.tree, <<>>)
               made == [[c EXCEPT !.at = "rename"] EXCEPT !.durable = durable]
    <3>1. call' = [call EXCEPT ![p] = made]
      BY <1>9 DEF SyncStaging
    <3>2. [c EXCEPT !.at = "rename"].durable = c.durable
      BY <2>4 DEF CallFields
    <3>3. made = next
      BY <3>2
    <3> HIDE DEF made, next
    <3> QED  BY <3>1, <3>3
  <2> HIDE DEF next
  <2> QED  BY <1>2, <2>3, <2>5, <2>6
<1>10. CASE SystemCallFails(p)
  BY <1>1, <1>10 DEF SystemCallFails
<1> QED  BY <1>3, <1>4, <1>5, <1>6, <1>7, <1>8, <1>9, <1>10

DestinationFields == {"by", "published", "edited", "tree", "durable", "synced"}

\* What is at the destination is a record.
LEMMA DestinationIsRecord ==
  ASSUME DestinationOK, destination # Absent
  PROVE  DestinationFields \subseteq DOMAIN destination
BY DEF DestinationOK, DestinationFields

\* A call that changes and reports nothing breaks no promise about an image.
LEMMA UnreportedStep ==
  ASSUME IInv, LossInv, UNCHANGED destination, NEW p \in Publishers, NEW next,
         call' = [call EXCEPT ![p] = next], StagedOrOver(next),
         next.at # "published", ~ (next.at = "done" /\ next.answer = "synchronized")
  PROVE  LossInv'
<1>1. call'[p] = next /\ \A q \in Publishers : q # p => call'[q] = call[q]
  BY DEF IInv, CallsOK
<1>2. Reported'
  BY <1>1 DEF LossInv, Reported
<1>3. \A q \in Publishers : call'[q].at \in Staging => Staged(call'[q])
  BY <1>1 DEF LossInv, StagedOrOver
<1> QED  BY <1>2, <1>3 DEF LossInv, Keeps

\* The rename publishes a directory of which only what is buried can be lost.
LEMMA RenameLoses ==
  ASSUME IInv, LossInv, NEW p \in Publishers, Rename(p)
  PROVE  LossInv'
<1>1. call[p].at = "rename" /\ Staged(call[p])
  BY DEF Rename, LossInv, Staging
<1>2. CASE destination # Absent
  <2>1. UNCHANGED destination /\ call' = [call EXCEPT ![p] = Done(call[p], "exists")]
    BY <1>2 DEF Rename
  <2> DEFINE next == Done(call[p], "exists")
  <2>2. next.at = "done" /\ next.answer = "exists" /\ StagedOrOver(next)
    BY OverIsNotReported
  <2>3. call' = [call EXCEPT ![p] = next]
    BY <2>1
  <2> HIDE DEF next
  <2> QED  BY <2>1, <2>2, <2>3, UnreportedStep
<1>3. CASE destination = Absent
  <2>1. destination' = Image(p) /\ call' = [call EXCEPT ![p] = Committed(p)]
    BY <1>3 DEF Rename
  <2>2. /\ call'[p].at = "published"
        /\ \A q \in Publishers : q # p => call'[q] = call[q]
    BY <2>1 DEF IInv, CallsOK, Committed
  <2>3. /\ destination' # Absent /\ destination'.by = p
        /\ destination'.published = call[p].tree /\ destination'.tree = call[p].tree
        /\ destination'.durable = call[p].durable
    BY <2>1 DEF Image, Absent
  <2>4. \A q \in Publishers : /\ call[q].at # "published"
                              /\ ~ (call[q].at = "done" /\ call[q].answer = "synchronized")
    BY <1>3 DEF LossInv, Reported
  <2>5. Reported'
    BY <2>2, <2>3, <2>4 DEF Reported
  <2>6. \A q \in Publishers : call'[q].at \in Staging => Staged(call'[q])
    BY <2>2 DEF LossInv, Staging
  <2>7. DOMAIN call[p].tree \ call[p].durable \subseteq Buried(call[p].tree)
    <3>1. Range(call[p].writes) = {}
      BY <1>1 DEF Staged, Range
    <3> QED  BY <1>1, <3>1 DEF Staged
  <2>8. DOMAIN call[p].tree \subseteq Seq(FileNames)
    BY <1>1 DEF Staged
  <2>9. Keeps(destination')
    BY <2>3, <2>7, <2>8 DEF Keeps
  <2> QED  BY <2>5, <2>6, <2>9 DEF LossInv
<1> QED  BY <1>2, <1>3

\* Whoever synchronizes the parent has its image there.
LEMMA SyncParentLoses ==
  ASSUME IInv, LossInv, NEW p \in Publishers, SyncParent(p)
  PROVE  LossInv'
<1>1. call[p].at = "published" /\ destination # Absent /\ destination.by = p
  BY DEF SyncParent, LossInv, Reported
<1>2. CASE UNCHANGED destination /\ call' = [call EXCEPT ![p] = Done(call[p], "uncertain")]
  <2> DEFINE next == Done(call[p], "uncertain")
  <2>1. next.at = "done" /\ next.answer = "uncertain" /\ StagedOrOver(next)
    BY OverIsNotReported
  <2>2. call' = [call EXCEPT ![p] = next]
    BY <1>2
  <2> HIDE DEF next
  <2> QED  BY <1>2, <2>1, <2>2, UnreportedStep
<1>3. CASE /\ destination' = [destination EXCEPT !.synced = TRUE]
           /\ call' = [call EXCEPT ![p] = Done(call[p], "synchronized")]
  <2>1. DestinationFields \subseteq DOMAIN destination
    BY <1>1, DestinationIsRecord DEF IInv
  <2>2. /\ destination'.by = p /\ destination'.synced = TRUE
        /\ destination'.tree = destination.tree
        /\ destination'.published = destination.published
        /\ destination'.durable = destination.durable
    BY <1>1, <1>3, <2>1 DEF DestinationFields
  <2>3. destination' # Absent
    BY <1>1, <1>3, PartChanges DEF IInv
  <2>4. /\ call'[p].at = "done"
        /\ \A q \in Publishers : q # p => call'[q] = call[q]
    BY <1>3 DEF IInv, CallsOK, Done
  <2>5. Reported'
    BY <1>1, <2>2, <2>3, <2>4 DEF LossInv, Reported
  <2>6. \A q \in Publishers : call'[q].at \in Staging => Staged(call'[q])
    BY <2>4 DEF LossInv, Staging
  <2>7. Keeps(destination')
    BY <1>1, <2>2 DEF LossInv, Keeps
  <2> QED  BY <2>5, <2>6, <2>7 DEF LossInv
<1> QED  BY <1>2, <1>3 DEF SyncParent

\* Others put nodes in the place of nodes.
LEMMA ForeignLoses ==
  ASSUME IInv, LossInv,
         ForeignCreate \/ \E path, node : ForeignEdit(path, node)
  PROVE  LossInv'
<1>1. CASE ForeignCreate
  <2>1. UNCHANGED call /\ destination = Absent /\ destination'.by = "other"
    BY <1>1 DEF ForeignCreate
  <2> QED  BY <2>1, OthersDoNotPublish DEF LossInv, Reported
<1>2. CASE \E path, node : ForeignEdit(path, node)
  <2>1. PICK path, node : ForeignEdit(path, node)
    BY <1>2
  <2> DEFINE tree == [destination.tree EXCEPT ![path] = node]
  <2>2. /\ UNCHANGED call /\ destination # Absent
        /\ destination' = [[destination EXCEPT !.tree = tree] EXCEPT !.edited = TRUE]
    BY <2>1 DEF ForeignEdit
  <2>3. DestinationFields \subseteq DOMAIN destination
    BY <2>2, DestinationIsRecord DEF IInv
  <2>4. DOMAIN tree = DOMAIN destination.tree
    OBVIOUS
  <2> HIDE DEF tree
  <2>5. /\ destination'.by = destination.by /\ destination'.synced = destination.synced
        /\ destination'.tree = tree
        /\ destination'.published = destination.published
        /\ destination'.durable = destination.durable
    BY <2>2, <2>3 DEF DestinationFields
  <2>6. destination' # Absent
    <3>1. destination' = [destination EXCEPT !.tree = tree, !.edited = TRUE]
      BY <2>2
    <3> QED  BY <2>2, <3>1, PartChanges DEF IInv
  <2>7. Reported'
    BY <2>2, <2>5, <2>6 DEF LossInv, Reported
  <2>8. destination'.by \in Publishers => Keeps(destination')
    BY <2>2, <2>4, <2>5 DEF LossInv, Keeps
  <2> QED  BY <2>2, <2>7, <2>8 DEF LossInv
<1> QED  BY <1>1, <1>2

\* Losing what is buried, or below it, loses only what is buried.
LEMMA LossKeeps ==
  ASSUME NEW d, Keeps(d), NEW lost, lost \subseteq DOMAIN d.tree \ d.durable
  PROVE  /\ DOMAIN Without(d.tree, lost) \subseteq DOMAIN d.tree
         /\ DOMAIN d.published \ DOMAIN Without(d.tree, lost) \subseteq Buried(d.published)
<1> DEFINE tree == Without(d.tree, lost)
<1>1. DOMAIN tree = {path \in DOMAIN d.tree :
                       \A n \in 0 .. Len(path) : SubSeq(path, 1, n) \notin lost}
  BY DEF Without
<1> HIDE DEF tree
<1>2. ASSUME NEW path \in DOMAIN d.published, path \notin DOMAIN tree
      PROVE  path \in Buried(d.published)
  <2>1. CASE path \notin DOMAIN d.tree
    BY <2>1 DEF Keeps
  <2>2. CASE path \in DOMAIN d.tree
    <3>1. PICK n \in 0 .. Len(path) : SubSeq(path, 1, n) \in lost
      BY <1>1, <1>2, <2>2
    <3> DEFINE above == SubSeq(path, 1, n)
    <3>2. above \in Buried(d.published)
      BY <3>1 DEF Keeps
    <3>3. path \in Seq(FileNames) /\ Len(path) \in Nat /\ n \in Nat /\ n <= Len(path)
      <4>1. path \in Seq(FileNames)
        BY DEF Keeps
      <4> QED  BY <3>1, <4>1
    <3>4. above \in Seq(FileNames) /\ Len(above) = n /\ \A i \in 1 .. n : above[i] = path[i]
      BY <3>3
    <3> HIDE DEF above
    <3>5. PICK k \in 3 .. n : IsKind(d.published, SubSeq(above, 1, k), "directory")
      BY <3>2, <3>4 DEF Buried
    <3>6. SubSeq(above, 1, k) = SubSeq(path, 1, k)
      <4>1. k \in Nat /\ k <= n /\ k <= Len(path)
        BY <3>3, <3>5
      <4>2. /\ SubSeq(above, 1, k) \in Seq(FileNames) /\ Len(SubSeq(above, 1, k)) = k
            /\ \A i \in 1 .. k : SubSeq(above, 1, k)[i] = above[i]
        BY <3>3, <3>4, <4>1
      <4>3. /\ SubSeq(path, 1, k) \in Seq(FileNames) /\ Len(SubSeq(path, 1, k)) = k
            /\ \A i \in 1 .. k : SubSeq(path, 1, k)[i] = path[i]
        BY <3>3, <4>1
      <4> DEFINE s == SubSeq(above, 1, k)
                 t == SubSeq(path, 1, k)
      <4>4. \A i \in 1 .. k : s[i] = t[i]
        BY <3>3, <3>4, <4>1, <4>2, <4>3
      <4>5. s \in Seq(FileNames) /\ t \in Seq(FileNames) /\ Len(s) = k /\ Len(t) = k
        BY <4>2, <4>3
      <4> HIDE DEF s, t
      <4>6. s = t
        BY <4>4, <4>5
      <4> QED  BY <4>6 DEF s, t
    <3>7. k \in 3 .. Len(path)
      BY <3>3, <3>5
    <3> QED  BY <3>5, <3>6, <3>7 DEF Buried
  <2> QED  BY <2>1, <2>2
<1> QED  BY <1>1, <1>2 DEF tree

\* A power loss ends all calls, and takes an image that nobody was told is there,
\* or what is buried.
LEMMA PowerLossLoses ==
  ASSUME IInv, LossInv, PowerLoss
  PROVE  LossInv'
<1>1. \A p \in Publishers :
        /\ call'[p].at \notin Staging /\ call'[p].at # "published"
        /\ call'[p].at = "done" /\ call'[p].answer = "synchronized" =>
             call[p].at = "done" /\ call[p].answer = "synchronized"
  <2>1. call' = [p \in Publishers |->
                   IF call[p].at \in {"idle", "done"} THEN call[p] ELSE Done(call[p], "crashed")]
    BY DEF PowerLoss
  <2>2. \A c : Done(c, "crashed").at = "done" /\ Done(c, "crashed").answer = "crashed"
    BY DEF Done
  <2> QED  BY <2>1, <2>2 DEF Staging
<1>2. CASE destination' = Absent /\ (destination = Absent \/ ~ destination.synced)
  BY <1>1, <1>2 DEF LossInv, Reported
<1>3. CASE destination # Absent /\ destination' # Absent
  <2>1. PICK lost \in SUBSET (DOMAIN destination.tree \ destination.durable) :
          destination' = [destination EXCEPT !.tree = Without(destination.tree, lost),
                                             !.durable = DOMAIN Without(destination.tree, lost),
                                             !.synced = TRUE]
    BY <1>3 DEF PowerLoss
  <2> DEFINE tree == Without(destination.tree, lost)
  <2>2. DestinationFields \subseteq DOMAIN destination
    BY <1>3, DestinationIsRecord DEF IInv
  <2>3. Keeps(destination) => /\ DOMAIN tree \subseteq DOMAIN destination.tree
                              /\ DOMAIN destination.published \ DOMAIN tree
                                   \subseteq Buried(destination.published)
    BY <2>1, LossKeeps
  <2> HIDE DEF tree
  <2>4. destination' = [destination EXCEPT !.tree = tree, !.durable = DOMAIN tree,
                                           !.synced = TRUE]
    BY <2>1 DEF tree
  <2>5. /\ destination'.by = destination.by /\ destination'.synced = TRUE
        /\ destination'.tree = tree
        /\ destination'.published = destination.published
        /\ destination'.durable = DOMAIN tree
    BY <2>2, <2>4 DEF DestinationFields
  <2>6. Reported'
    BY <1>1, <1>3, <2>5 DEF LossInv, Reported
  <2>7. destination'.by \in Publishers => Keeps(destination')
    BY <1>3, <2>3, <2>5 DEF LossInv, Keeps
  <2> QED  BY <1>1, <2>6, <2>7 DEF LossInv
<1>4. \/ destination' = Absent /\ (destination = Absent \/ ~ destination.synced)
      \/ destination # Absent /\ destination' # Absent
  <2>1. CASE destination = Absent
    BY <2>1 DEF PowerLoss
  <2>2. CASE destination # Absent /\ destination' = Absent /\ destination.synced
    <3>1. PICK tree, durable :
            destination' = [destination EXCEPT !.tree = tree, !.durable = durable,
                                               !.synced = TRUE]
      BY <2>2 DEF PowerLoss
    <3>2. destination' # Absent
      BY <2>2, <3>1, PartChanges DEF IInv
    <3> QED  BY <2>2, <3>2
  <2> QED  BY <2>1, <2>2
<1> QED  BY <1>2, <1>3, <1>4

\* The invariant of losses is inductive.
LEMMA LossStep == IInv /\ LossInv /\ [Next]_vars => LossInv'
<1> SUFFICES ASSUME IInv, LossInv, [Next]_vars PROVE LossInv'
  OBVIOUS
<1>1. ASSUME NEW p \in Publishers,
             \/ \E recipes \in Images : Begin(p, recipes)
             \/ \E bytes : Assemble(p, bytes)
             \/ Write(p) \/ CheckWritten(p) \/ WriteLock(p) \/ Reload(p) \/ SyncStaging(p)
             \/ SystemCallFails(p)
      PROVE  LossInv'
  <2>1. UNCHANGED destination
    BY <1>1, StagingIsPrivate DEF Private
  <2>2. StagedOrOver(call[p])
    BY DEF LossInv, StagedOrOver
  <2>3. \E next : /\ call' = [call EXCEPT ![p] = next]
                  /\ StagedOrOver(next)
                  /\ next.at # "published"
                  /\ ~ (next.at = "done" /\ next.answer = "synchronized")
    BY <1>1, <2>2, StagingStep
  <2> QED  BY <2>1, <2>3, UnreportedStep
<1>2. ASSUME NEW p \in Publishers, Rename(p) \/ SyncParent(p)
      PROVE  LossInv'
  BY <1>2, RenameLoses, SyncParentLoses
<1>3. ASSUME NEW p \in Publishers, Crash(p)
      PROVE  LossInv'
  <2> DEFINE next == Done(call[p], "crashed")
  <2>1. UNCHANGED destination /\ call' = [call EXCEPT ![p] = next]
    BY <1>3 DEF Crash
  <2>2. next.at = "done" /\ next.answer = "crashed" /\ StagedOrOver(next)
    BY OverIsNotReported
  <2> HIDE DEF next
  <2> QED  BY <2>1, <2>2, UnreportedStep
<1>4. ASSUME ReadLock \/ ReadPackage \/ FinishRead \/ UNCHANGED vars
      PROVE  LossInv'
  <2>1. UNCHANGED <<destination, call>>
    BY <1>4 DEF ReadLock, ReadPackage, FinishRead, vars
  <2> QED  BY <2>1 DEF LossInv, Reported
<1>5. ASSUME ForeignCreate \/ (\E path, node : ForeignEdit(path, node)) \/ PowerLoss
      PROVE  LossInv'
  BY <1>5, ForeignLoses, PowerLossLoses
<1> QED  BY <1>1, <1>2, <1>3, <1>4, <1>5 DEF Next

\* A publication reported as synchronized is still there after any power loss,
\* without at most what is two directories deep in its package.
THEOREM LossesTheorem == Spec => []LossesAreBuried
<1>1. Init => LossInv
  BY DEF Init, LossInv, Reported, Idle, Staging, Absent
<1>2. LossInv => LossesAreBuried
  BY DEF LossInv, Reported, Keeps, LossesAreBuried
<1> QED  BY <1>1, <1>2, Invariant, LossStep, PTL DEF Spec
=============================================================================
