-------------------------- MODULE GroupWorkProofs --------------------------
(***************************************************************************)
(* The safety properties of the ManagedClusterGroupWork controller, for    *)
(* every set of clusters, every set of reports and faults and every bound. *)
(***************************************************************************)
EXTENDS GroupWork, TLAPS

\* What a pass knows of the resource it has read.
PassOK ==
    /\ pc \in {"apply", "write"} =>
          /\ base.phase = "live"
          /\ obj.phase = base.phase
          /\ obj.version = base.version
          /\ obj.finalizer = base.finalizer
          /\ \A c \in Cluster :
                base.list[c] \in Recorded => obj.list[c] \in Recorded \cup {"unlisted"}
    /\ pc = "write" => \A c \in Cluster : obj.list[c] # "New"
    /\ pc = "release" => base.phase = "deleting" /\ obj = [base EXCEPT !.finalizer = FALSE]

\* The cache never goes back behind a deletion it has seen, so no pass on a
\* live resource follows a Finalize.
Deleted(resource) == resource.phase \in {"deleting", "gone"}

DeletionSeen ==
    /\ Deleted(cache) => Deleted(mcg)
    /\ pc = "release" => Deleted(cache)
    /\ mcg.phase = "gone" => Deleted(cache) /\ pc \in {"idle", "release"}

\* The ManifestWorks are cleared when a Finalize has succeeded.
Cleared ==
    (pc = "release" \/ mcg.phase = "gone") /\ "delete" \notin faults =>
        \A c \in Cluster : work[c].phase # "present"

IInv == TypeOK /\ PassOK /\ DeletionSeen /\ Cleared

-----------------------------------------------------------------------------
(* The steps of a pass, one operator at a time.                            *)

\* What a resource that is stored, cached or read looks like.
Storable(resource) ==
    resource \in Resource /\ \A c \in Cluster : resource.list[c] # "New"

LEMMA TypeOKStorable ==
    TypeOK <=>
        /\ obj \in Resource
        /\ Storable(mcg) /\ Storable(cache) /\ Storable(base)
        /\ pc \in {"idle", "apply", "write", "release"}
        /\ matches \subseteq Cluster
        /\ work \in [Cluster -> Work]
        /\ faults \subseteq Faults
        /\ relabels \in 0 .. MaxRelabels
  BY DEF TypeOK, Storable

LEMMA TypeOKPrime ==
    ASSUME /\ obj' \in Resource
           /\ Storable(mcg)' /\ Storable(cache)' /\ Storable(base)'
           /\ pc' \in {"idle", "apply", "write", "release"}
           /\ matches' \subseteq Cluster
           /\ work' \in [Cluster -> Work]
           /\ faults' \subseteq Faults
           /\ relabels' \in 0 .. MaxRelabels
    PROVE  TypeOK'
  BY DEF TypeOK, Storable

LEMMA NewResourceType == Storable(NewResource)
  BY ConstantsAssumption DEF Storable, NewResource, Resource, State

LEMMA NoWorkType == NoWork \in Work
  BY ConstantsAssumption DEF NoWork, Work, NoReport

LEMMA FaultsType ==
    ASSUME TypeOK, NEW kind, Fault(kind)
    PROVE  faults' \subseteq Faults /\ faults \subseteq faults'
  BY DEF TypeOK, Fault

LEMMA RefusalType ==
    ASSUME TypeOK, NEW kind, NEW requests, NEW refused, Refusal(kind, requests, refused)
    PROVE  /\ faults' \subseteq Faults
           /\ faults \subseteq faults'
           /\ kind \in faults' \/ refused = {}
  BY DEF TypeOK, Refusal, Fault

LEMMA RestType == Rest => obj' \in Resource /\ Storable(base)' /\ pc' = "idle"
  BY NewResourceType DEF Rest, Storable

LEMMA TerminatedType ==
    ASSUME work \in [Cluster -> Work], NEW works
    PROVE  /\ Terminated(works) \in [Cluster -> Work]
           /\ \A c \in Cluster :
                 Terminated(works)[c].phase = "present" => work[c].phase = "present" /\ c \notin works
  BY DEF Terminated, Work

LEMMA SelectsToType ==
    ASSUME TypeOK, NEW chosen, SelectsTo(chosen)
    PROVE  /\ obj' \in Resource
           /\ base' = cache
           /\ pc' = "apply"
           /\ pc = "idle"
           /\ cache.phase = "live"
           /\ obj'.phase = cache.phase
           /\ obj'.version = cache.version
           /\ obj'.finalizer = cache.finalizer
           /\ \A c \in Cluster :
                 cache.list[c] \in Recorded => obj'.list[c] \in Recorded \cup {"unlisted"}
           /\ UNCHANGED <<mcg, cache, matches, relabels>>
<1>1. cache \in Resource
  BY DEF TypeOK
<1>2. Selected(cache.list, chosen) \in [Cluster -> State]
  BY <1>1 DEF Selected, Resource, State, Fresh
<1>3. (Listed(Selected(cache.list, chosen)) # {}) \in BOOLEAN
  OBVIOUS
<1>4. \A c \in Cluster :
        cache.list[c] \in Recorded =>
            Selected(cache.list, chosen)[c] \in Recorded \cup {"unlisted"}
  BY DEF Selected, Recorded, Reported
<1>5. obj' = [cache EXCEPT !.list = Selected(cache.list, chosen),
                           !.selected = Listed(Selected(cache.list, chosen)) # {}]
  BY DEF SelectsTo
<1>6. /\ obj' \in Resource
      /\ obj'.list = Selected(cache.list, chosen)
      /\ obj'.phase = cache.phase
      /\ obj'.version = cache.version
      /\ obj'.finalizer = cache.finalizer
  BY <1>1, <1>2, <1>3, <1>5 DEF Resource
<1>7. QED
  BY <1>4, <1>6 DEF SelectsTo, Starts

LEMMA AppliedType ==
    ASSUME NEW list \in [Cluster -> State], NEW created \in SUBSET Cluster, NEW found \in BOOLEAN
    PROVE  /\ Applied(list, created, found) \in [Cluster -> State]
           /\ \A c \in Cluster :
                 /\ Applied(list, created, found)[c] # "New"
                 /\ list[c] \in Recorded => Applied(list, created, found)[c] \in Recorded
<1>1. \A conds : ManifestState(conds) \in Reported
  BY DEF ManifestState, Reported
<1>2. ASSUME NEW c \in Cluster
      PROVE  /\ Applied(list, created, found)[c] \in State \ {"New"}
             /\ list[c] \in Recorded => Applied(list, created, found)[c] \in Recorded
  BY <1>1 DEF Applied, Creations, Compared, Outdated, State, Fresh, Recorded, Reported
<1>3. QED
  BY <1>2 DEF Applied

LEMMA ApplyWithType ==
    ASSUME TypeOK, NEW found \in BOOLEAN, NEW refused, NEW kept, ApplyWith(found, refused, kept)
    PROVE  /\ obj' \in Resource
           /\ obj'.phase = obj.phase
           /\ obj'.version = obj.version
           /\ obj'.finalizer = obj.finalizer
           /\ \A c \in Cluster :
                 /\ obj'.list[c] # "New"
                 /\ obj.list[c] \in Recorded => obj'.list[c] \in Recorded
                 /\ obj.list[c] = "unlisted" => obj'.list[c] = "unlisted"
           /\ work' \in [Cluster -> Work]
           /\ pc = "apply"
           /\ pc' = "write"
           /\ UNCHANGED <<mcg, cache, base, matches, relabels>>
<1> DEFINE created == Created(obj.list, refused)
           list == Applied(obj.list, created, found)
           flags == Flags(obj.list, created, found)
<1>1. obj \in Resource /\ obj.list \in [Cluster -> State] /\ created \in SUBSET Cluster
  BY DEF TypeOK, Resource, Created, Creations
<1>2. /\ list \in [Cluster -> State]
      /\ \A c \in Cluster :
            list[c] # "New" /\ (obj.list[c] \in Recorded => list[c] \in Recorded)
  BY <1>1, AppliedType
<1>3. \A c \in Cluster : obj.list[c] = "unlisted" => list[c] = "unlisted"
  BY DEF Applied, Created, Creations, Compared, Outdated, Fresh, Recorded, Reported
<1>4. /\ flags.created \in BOOLEAN
      /\ flags.applied \in BOOLEAN
      /\ flags.available \in BOOLEAN
  BY DEF Flags
<1>5. obj' = [obj EXCEPT !.list = list, !.created = flags.created,
                         !.applied = flags.applied, !.available = flags.available]
  BY DEF ApplyWith
<1>6. /\ obj' \in Resource
      /\ obj'.list = list
      /\ obj'.phase = obj.phase
      /\ obj'.version = obj.version
      /\ obj'.finalizer = obj.finalizer
  <2> HIDE DEF list, flags
  <2>1. QED
    BY <1>1, <1>2, <1>4, <1>5 DEF Resource
<1>7. work' \in [Cluster -> Work]
  <2>1. obj.version \in 0 .. MaxEdits
    BY <1>1 DEF Resource
  <2>2. [NoWork EXCEPT !.phase = "present", !.version = obj.version] \in Work
    BY <2>1, NoWorkType DEF Work
  <2>3. \A c \in Cluster : work[c] \in Work /\ [work[c] EXCEPT !.version = obj.version] \in Work
    BY <2>1 DEF TypeOK, Work
  <2>4. QED
    BY <2>2, <2>3 DEF ApplyWith
<1>8. QED
  BY <1>2, <1>3, <1>6, <1>7 DEF ApplyWith

\* What Apply and the steps that stand for its failures have in common.
Applies ==
    \E found \in BOOLEAN, refused \in SUBSET Cluster, kept \in SUBSET Cluster :
        ApplyWith(found, refused, kept)

LEMMA AppliesByAction ==
    ASSUME Apply \/ CreateFails \/ UpdateFails \/ WorksListFails
    PROVE  Applies
  BY DEF Apply, CreateFails, UpdateFails, WorksListFails, Applies, Creations, Outdated, Compared

LEMMA AppliesFaults ==
    ASSUME TypeOK, Apply \/ CreateFails \/ UpdateFails \/ WorksListFails
    PROVE  faults' \subseteq Faults /\ faults \subseteq faults'
  BY FaultsType DEF Apply, CreateFails, UpdateFails, WorksListFails, TypeOK

\* So do Select and the steps that stand for its failures.
Chooses == \E chosen \in SUBSET Cluster : SelectsTo(chosen)

LEMMA ChoosesByAction ==
    ASSUME TypeOK, Select \/ PlacementFails \/ ListFails
    PROVE  Chooses
  BY DEF TypeOK, Select, PlacementFails, ListFails, Chooses, Listed

LEMMA ChoosesWork ==
    ASSUME TypeOK, Select \/ PlacementFails \/ ListFails
    PROVE  /\ work' \in [Cluster -> Work]
           /\ faults' \subseteq Faults
           /\ faults \subseteq faults'
           /\ \A c \in Cluster : work'[c].phase = "present" => work[c].phase = "present"
<1>1. work \in [Cluster -> Work]
  BY DEF TypeOK
<1>2. CASE Select
  <2>1. PICK refused : Deselect(matches, refused)
    BY <1>2 DEF Select
  <2>2. QED
    BY <1>1, <2>1, RefusalType, TerminatedType DEF Deselect
<1>3. CASE PlacementFails
  BY <1>1, <1>3, FaultsType, TerminatedType DEF PlacementFails
<1>4. CASE ListFails
  BY <1>1, <1>4, FaultsType DEF ListFails
<1>5. QED
  BY <1>2, <1>3, <1>4

LEMMA FinalizeType ==
    ASSUME TypeOK, Finalize
    PROVE  /\ pc = "idle" /\ pc' = "release"
           /\ cache.phase = "deleting"
           /\ base' = cache
           /\ obj' = [cache EXCEPT !.finalizer = FALSE]
           /\ obj' \in Resource
           /\ work' \in [Cluster -> Work]
           /\ faults' \subseteq Faults /\ faults \subseteq faults'
           /\ "delete" \notin faults' => \A c \in Cluster : work'[c].phase # "present"
           /\ UNCHANGED <<mcg, cache, matches, relabels>>
<1>1. work \in [Cluster -> Work] /\ cache \in Resource
  BY DEF TypeOK
<1>2. PICK refused \in SUBSET Cluster :
        /\ Refusal("delete", {c \in Cluster : work[c].phase # "absent"}, refused)
        /\ work' = Terminated(Cluster \ refused)
  BY DEF Finalize
<1>3. /\ work' \in [Cluster -> Work]
      /\ \A c \in Cluster : work'[c].phase = "present" => c \in refused
  BY <1>1, <1>2, TerminatedType
<1>4. /\ faults' \subseteq Faults /\ faults \subseteq faults'
      /\ "delete" \in faults' \/ refused = {}
  BY <1>2, RefusalType
<1>5. [cache EXCEPT !.finalizer = FALSE] \in Resource
  BY <1>1 DEF Resource
<1>6. QED
  BY <1>3, <1>4, <1>5 DEF Finalize, Starts

-----------------------------------------------------------------------------
(* The inductive invariant.                                                *)

LEMMA StoredType ==
    ASSUME TypeOK, PassOK, pc = "write"
    PROVE  /\ Storable(Stored)
           /\ Stored.phase = mcg.phase
           /\ \A c \in Cluster :
                 mcg.list[c] \in Recorded => Stored.list[c] \in Recorded \cup {"unlisted"}
<1>1. mcg \in Resource /\ obj \in Resource /\ Storable(mcg)
  BY TypeOKStorable DEF Storable
<1>2. CASE base = mcg /\ obj.finalizer
  BY <1>1, <1>2 DEF PassOK, Stored, Storable
<1>3. CASE base # mcg
  <2>1. Stored = mcg
    BY <1>3 DEF Stored
  <2>2. QED
    BY <1>1, <2>1 DEF Storable
<1>4. CASE base = mcg /\ ~obj.finalizer
  <2>1. Stored = [mcg EXCEPT !.finalizer = TRUE]
    BY <1>4 DEF Stored
  <2>2. QED
    BY <1>1, <2>1 DEF Storable, Resource
<1>5. QED
  BY <1>2, <1>3, <1>4

LEMMA ReleasedType ==
    ASSUME TypeOK, PassOK, Release
    PROVE  /\ Storable(mcg)'
           /\ mcg'.version = mcg.version
           /\ mcg'.list = mcg.list
           /\ mcg' = mcg \/ (mcg.phase = "deleting" /\ mcg'.phase = "gone")
<1>1. Storable(mcg)
  BY TypeOKStorable
<1>2. CASE base = mcg
  <2>1. mcg.phase = "deleting" /\ obj = [mcg EXCEPT !.finalizer = FALSE]
    BY <1>2 DEF PassOK, Release
  <2>2. mcg' = [obj EXCEPT !.phase = "gone"]
    BY <1>2 DEF Release
  <2>3. QED
    BY <1>1, <2>1, <2>2 DEF Storable, Resource
<1>3. CASE base # mcg
  BY <1>1, <1>3 DEF Release, Storable
<1>4. QED
  BY <1>2, <1>3

LEMMA DeleteType ==
    ASSUME TypeOK, Delete
    PROVE  /\ Storable(mcg)'
           /\ mcg'.version = mcg.version
           /\ mcg'.list = mcg.list
           /\ mcg.phase = "live"
           /\ mcg'.phase \in {"deleting", "vanished"}
           /\ UNCHANGED <<cache, pass, matches, work, faults, relabels>>
<1>1. Storable(mcg)
  BY TypeOKStorable
<1>2. mcg' = [mcg EXCEPT !.phase = IF mcg.finalizer THEN "deleting" ELSE "vanished"]
  BY DEF Delete
<1>3. QED
  BY <1>1, <1>2 DEF Delete, Storable, Resource

LEMMA EditSpecType ==
    ASSUME TypeOK, EditSpec
    PROVE  /\ Storable(mcg)'
           /\ mcg'.list = mcg.list
           /\ mcg'.phase = mcg.phase
           /\ UNCHANGED <<cache, pass, matches, work, faults, relabels>>
<1>1. Storable(mcg) /\ MaxEdits \in Nat
  BY TypeOKStorable, ConstantsAssumption
<1>2. mcg' = [mcg EXCEPT !.version = @ + 1] /\ mcg.version < MaxEdits
  BY DEF EditSpec
<1>3. mcg.version + 1 \in 0 .. MaxEdits
  BY <1>1, <1>2 DEF Storable, Resource
<1>4. mcg' \in Resource
  BY <1>1, <1>2, <1>3 DEF Storable, Resource
<1>5. QED
  BY <1>1, <1>2, <1>4 DEF EditSpec, Storable, Resource

\* The steps of the environment that leave the stored and cached resources,
\* the pass and the faults as they are.
LEMMA AgentsType ==
    ASSUME TypeOK, NEW c \in Cluster,
           AgentRemoves(c) \/ \E report \in Reports : AgentReports(c, report)
    PROVE  /\ work' \in [Cluster -> Work]
           /\ \A d \in Cluster : work'[d].phase = "present" => work[d].phase = "present"
           /\ UNCHANGED <<mcg, cache, pass, matches, faults, relabels>>
<1>1. work \in [Cluster -> Work]
  BY DEF TypeOK
<1>2. CASE AgentRemoves(c)
  BY <1>1, <1>2, NoWorkType DEF AgentRemoves, NoWork
<1>3. ASSUME NEW report \in Reports, AgentReports(c, report)
      PROVE  /\ work' \in [Cluster -> Work]
             /\ \A d \in Cluster : work'[d].phase = "present" => work[d].phase = "present"
             /\ UNCHANGED <<mcg, cache, pass, matches, faults, relabels>>
  <2>1. [work[c] EXCEPT !.conds = report] \in Work
    BY <1>1, <1>3 DEF Work
  <2>2. work' = [work EXCEPT ![c] = [work[c] EXCEPT !.conds = report]]
    BY <1>1, <1>3 DEF AgentReports
  <2>3. work[c].phase = "present"
    BY <1>3 DEF AgentReports
  <2>4. QED
    BY <1>1, <1>3, <2>1, <2>2, <2>3 DEF AgentReports
<1>4. QED
  BY <1>2, <1>3

LEMMA TypeOKNext ==
    TypeOK /\ PassOK /\ [Next]_vars => TypeOK'
<1> SUFFICES ASSUME TypeOK, PassOK, [Next]_vars
             PROVE  TypeOK'
  OBVIOUS
<1> USE TypeOKStorable, TypeOKPrime
<1>1. CASE Select \/ PlacementFails \/ ListFails
  <2>1. PICK chosen \in SUBSET Cluster : SelectsTo(chosen)
    BY <1>1, ChoosesByAction DEF Chooses
  <2>2. QED
    BY <1>1, <2>1, ChoosesWork, SelectsToType DEF Storable
<1>2. CASE Apply \/ CreateFails \/ UpdateFails \/ WorksListFails
  <2>1. PICK found \in BOOLEAN, refused \in SUBSET Cluster, kept \in SUBSET Cluster :
        ApplyWith(found, refused, kept)
    BY <1>2, AppliesByAction DEF Applies
  <2>2. QED
    BY <1>2, <2>1, ApplyWithType, AppliesFaults DEF Storable
<1>3. CASE Write
  BY <1>3, RestType, StoredType DEF Write, Storable
<1>4. CASE WriteFails
  BY <1>4, RestType, FaultsType DEF WriteFails, Storable
<1>5. CASE Finalize
  BY <1>5, FinalizeType DEF Storable
<1>6. CASE FinalizeFails
  BY <1>6, FaultsType DEF FinalizeFails, pass, Storable
<1>7. CASE Release
  BY <1>7, RestType, ReleasedType DEF Release, Storable
<1>8. CASE SyncCache
  BY <1>8 DEF SyncCache, pass, Storable
<1>9. CASE Crash
  BY <1>9, RestType, FaultsType DEF Crash, Storable
<1>10. ASSUME NEW c \in Cluster,
              AgentRemoves(c) \/ \E report \in Reports : AgentReports(c, report)
       PROVE  TypeOK'
  BY <1>10, AgentsType DEF pass, Storable
<1>11. CASE EditSpec
  BY <1>11, EditSpecType DEF pass, Storable
<1>12. ASSUME NEW chosen \in SUBSET Cluster, Relabel(chosen) PROVE TypeOK'
  <2>1. relabels' \in 0 .. MaxRelabels
    BY <1>12, ConstantsAssumption DEF Relabel
  <2>2. QED
    BY <1>12, <2>1 DEF Relabel, pass, Storable
<1>13. CASE Delete
  BY <1>13, DeleteType DEF pass, Storable
<1>14. CASE UNCHANGED vars
  BY <1>14 DEF vars, Storable
<1>15. QED
  BY <1>1, <1>2, <1>3, <1>4, <1>5, <1>6, <1>7, <1>8, <1>9, <1>10, <1>11, <1>12, <1>13, <1>14
     DEF Next, Controller, Agents, Users

LEMMA PassOKNext == TypeOK /\ PassOK /\ [Next]_vars => PassOK'
<1> SUFFICES ASSUME TypeOK, PassOK, [Next]_vars PROVE PassOK'
  OBVIOUS
<1>1. CASE Select \/ PlacementFails \/ ListFails
  <2>1. PICK chosen \in SUBSET Cluster : SelectsTo(chosen)
    BY <1>1, ChoosesByAction DEF Chooses
  <2>2. QED
    BY <2>1, SelectsToType DEF PassOK
<1>2. CASE Apply \/ CreateFails \/ UpdateFails \/ WorksListFails
  <2>1. PICK found \in BOOLEAN, refused \in SUBSET Cluster, kept \in SUBSET Cluster :
        ApplyWith(found, refused, kept)
    BY <1>2, AppliesByAction DEF Applies
  <2>2. QED
    BY <2>1, ApplyWithType DEF PassOK
<1>3. CASE Write
  BY <1>3 DEF Write, Rest, PassOK
<1>4. CASE WriteFails
  BY <1>4 DEF WriteFails, Rest, PassOK
<1>5. CASE Finalize
  BY <1>5, FinalizeType DEF PassOK
<1>6. CASE Release
  BY <1>6 DEF Release, Rest, PassOK
<1>7. CASE Crash
  BY <1>7 DEF Crash, Rest, PassOK
<1>8. CASE UNCHANGED pass
  BY <1>8 DEF pass, PassOK
<1>9. QED
  BY <1>1, <1>2, <1>3, <1>4, <1>5, <1>6, <1>7, <1>8
     DEF Next, Controller, Agents, Users, FinalizeFails, SyncCache, AgentReports, AgentRemoves,
         EditSpec, Relabel, Delete, vars, pass

LEMMA DeletionSeenNext ==
    TypeOK /\ PassOK /\ DeletionSeen /\ [Next]_vars => DeletionSeen'
<1> SUFFICES ASSUME TypeOK, PassOK, DeletionSeen, [Next]_vars
             PROVE  DeletionSeen'
  OBVIOUS
<1> USE DEF DeletionSeen, Deleted
<1>1. CASE Select \/ PlacementFails \/ ListFails
  <2>1. PICK chosen \in SUBSET Cluster : SelectsTo(chosen)
    BY <1>1, ChoosesByAction DEF Chooses
  <2>2. QED
    BY <2>1, SelectsToType
<1>2. CASE Apply \/ CreateFails \/ UpdateFails \/ WorksListFails
  <2>1. PICK found \in BOOLEAN, refused \in SUBSET Cluster, kept \in SUBSET Cluster :
        ApplyWith(found, refused, kept)
    BY <1>2, AppliesByAction DEF Applies
  <2>2. QED
    BY <2>1, ApplyWithType
<1>3. CASE Write
  BY <1>3, StoredType DEF Write, Rest
<1>4. CASE WriteFails
  BY <1>4 DEF WriteFails, Rest
<1>5. CASE Finalize
  BY <1>5, FinalizeType
<1>6. CASE Release
  BY <1>6, ReleasedType DEF Release, Rest
<1>7. CASE SyncCache
  BY <1>7 DEF SyncCache, pass
<1>8. CASE Crash
  BY <1>8 DEF Crash, Rest
<1>9. CASE EditSpec
  BY <1>9, EditSpecType DEF pass
<1>10. CASE Delete
  BY <1>10, DeleteType DEF pass
<1>11. CASE UNCHANGED <<mcg, cache, pass>>
  BY <1>11 DEF pass
<1>12. QED
  BY <1>1, <1>2, <1>3, <1>4, <1>5, <1>6, <1>7, <1>8, <1>9, <1>10, <1>11
     DEF Next, Controller, Agents, Users, FinalizeFails, AgentReports, AgentRemoves, Relabel,
         vars, pass

LEMMA ClearedNext ==
    TypeOK /\ PassOK /\ DeletionSeen /\ Cleared /\ [Next]_vars => Cleared'
<1> SUFFICES ASSUME TypeOK, PassOK, DeletionSeen, Cleared, [Next]_vars
             PROVE  Cleared'
  OBVIOUS
<1> USE DEF Cleared
<1>1. CASE Select \/ PlacementFails \/ ListFails
  <2>1. PICK chosen \in SUBSET Cluster : SelectsTo(chosen)
    BY <1>1, ChoosesByAction DEF Chooses
  <2>2. QED
    BY <1>1, <2>1, SelectsToType, ChoosesWork
<1>2. CASE Apply \/ CreateFails \/ UpdateFails \/ WorksListFails
  <2>1. PICK found \in BOOLEAN, refused \in SUBSET Cluster, kept \in SUBSET Cluster :
        ApplyWith(found, refused, kept)
    BY <1>2, AppliesByAction DEF Applies
  <2>2. mcg'.phase # "gone" /\ pc' = "write"
    BY <2>1, ApplyWithType DEF DeletionSeen
  <2>3. QED
    BY <2>2
<1>3. CASE Write
  BY <1>3, StoredType DEF Write, Rest
<1>4. CASE WriteFails
  BY <1>4, FaultsType DEF WriteFails, Rest
<1>5. CASE Finalize
  BY <1>5, FinalizeType
<1>6. CASE FinalizeFails
  BY <1>6, FaultsType DEF FinalizeFails, pass
<1>7. CASE Release
  BY <1>7, ReleasedType DEF Release, Rest
<1>8. CASE Crash
  BY <1>8, FaultsType DEF Crash, Rest
<1>9. ASSUME NEW c \in Cluster,
             AgentRemoves(c) \/ \E report \in Reports : AgentReports(c, report)
      PROVE  Cleared'
  BY <1>9, AgentsType DEF pass
<1>10. CASE EditSpec
  BY <1>10, EditSpecType DEF pass
<1>11. CASE Delete
  BY <1>11, DeleteType DEF pass
<1>12. CASE UNCHANGED <<mcg, pass, work, faults>>
  BY <1>12 DEF pass
<1>13. QED
  BY <1>1, <1>2, <1>3, <1>4, <1>5, <1>6, <1>7, <1>8, <1>9, <1>10, <1>11, <1>12
     DEF Next, Controller, Agents, Users, SyncCache, Relabel, vars, pass

LEMMA IInvInit == Init => IInv
<1> SUFFICES ASSUME Init PROVE IInv
  OBVIOUS
<1>1. TypeOK
  <2>1. work \in [Cluster -> Work]
    BY NoWorkType DEF Init
  <2>2. QED
    BY <2>1, NewResourceType, ConstantsAssumption, TypeOKStorable DEF Init, Storable
<1>2. PassOK /\ DeletionSeen /\ Cleared
  BY DEF Init, NewResource, PassOK, DeletionSeen, Deleted, Cleared
<1>3. QED
  BY <1>1, <1>2 DEF IInv

LEMMA IInvNext == IInv /\ [Next]_vars => IInv'
  BY TypeOKNext, PassOKNext, DeletionSeenNext, ClearedNext DEF IInv

LEMMA Invariance == Spec => []IInv
  BY IInvInit, IInvNext, PTL DEF Spec

\* What the list records of a cluster is kept by every step.
LEMMA CreatedIsKeptStep ==
    ASSUME IInv, [Next]_vars
    PROVE  \A c \in Cluster :
               mcg.list[c] \in Recorded => mcg'.list[c] \in Recorded \cup {"unlisted"}
<1> USE DEF IInv
<1>1. CASE Write
  BY <1>1, StoredType DEF Write
<1>2. CASE Release
  BY <1>2, ReleasedType
<1>3. CASE EditSpec
  BY <1>3, EditSpecType
<1>4. CASE Delete
  BY <1>4, DeleteType
<1>5. CASE UNCHANGED mcg
  BY <1>5
<1>6. QED
  BY <1>1, <1>2, <1>3, <1>4, <1>5
     DEF Next, Controller, Agents, Users, Select, PlacementFails, ListFails, SelectsTo,
         Apply, CreateFails, UpdateFails, WorksListFails, ApplyWith, WriteFails,
         Finalize, FinalizeFails, SyncCache, Crash, AgentReports, AgentRemoves, Relabel, vars

-----------------------------------------------------------------------------

\* The resources, the passes and the works keep their types, and a cluster on
\* a stored list has a state.
THEOREM GroupWorkTypeOK == Spec => []TypeOK
<1>1. IInv => TypeOK
  BY DEF IInv
<1>2. QED
  BY <1>1, Invariance, PTL

\* A resource whose finalizer is gone has left no work of its behind, unless a
\* Delete was refused; whatever is stale, lost or crashes.
THEOREM GroupWorkNothingLeft == Spec => []NothingLeftAfterDeletion
<1>1. IInv => NothingLeftAfterDeletion
  BY DEF IInv, Cleared, NothingLeftAfterDeletion
<1>2. QED
  BY <1>1, Invariance, PTL

\* No pass takes back that the work of a listed cluster was created.
THEOREM GroupWorkCreatedIsKept == Spec => CreatedIsKept
<1>1. IInv /\ [Next]_vars =>
          [\A c \in Cluster :
              mcg.list[c] \in Recorded => mcg'.list[c] \in Recorded \cup {"unlisted"}]_vars
  BY CreatedIsKeptStep
<1>2. QED
  BY <1>1, Invariance, PTL DEF Spec, CreatedIsKept

=============================================================================
