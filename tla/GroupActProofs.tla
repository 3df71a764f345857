--------------------------- MODULE GroupActProofs ---------------------------
(***************************************************************************)
(* The types of the ManagedClusterGroupAct controller, what deletion       *)
(* leaves, and that an action runs once, for every set of clusters,        *)
(* actions, views, specs and faults and every bound.                       *)
(***************************************************************************)
EXTENDS GroupAct, TLAPS

\* What a pass knows of the resource it has read.
PassOK ==
    /\ pc \in {"apply", "write"} =>
          /\ base.phase = "live"
          /\ obj.phase = "live"
          /\ obj.finalizer = base.finalizer
    /\ pc = "release" => base.phase = "deleting" /\ obj = [base EXCEPT !.finalizer = FALSE]

\* The cache never goes back behind a deletion it has seen, so no pass on a
\* live resource follows a Finalize.
Deleted(resource) == resource.phase \in {"deleting", "gone"}

DeletionSeen ==
    /\ Deleted(cache) => Deleted(mcga)
    /\ pc = "release" => Deleted(cache)
    /\ mcga.phase = "gone" => Deleted(cache) /\ pc \in {"idle", "release"}

\* The views are cleared when a Finalize has succeeded.
NoViews == \A c \in Cluster, v \in View : view[c][v].version = 0

Cleared == (pc = "release" \/ mcga.phase = "gone") /\ faults["delete"] = 0 => NoViews

IInv == TypeOK /\ PassOK /\ DeletionSeen /\ Cleared

-----------------------------------------------------------------------------
(* The parts of the type invariant.                                        *)

\* What a resource that is stored, cached, read or worked on looks like.
Storable(resource) ==
    /\ resource \in Resource
    /\ \A c \in Cluster \ resource.listed :
          resource.actionsStatus[c] = "New" /\ resource.viewsStatus[c] = "New"

\* A resource that is being deleted has its finalizer until it goes.
Finalizing(resource) ==
    resource.phase # "live" => resource.finalizer = (resource.phase = "deleting")

Objects ==
    /\ action \in [Cluster -> [Action -> ActionObject]]
    /\ view \in [Cluster -> [View -> ViewObject]]
    /\ runs \in [Cluster -> [Action -> 0 .. 2]]

Bounded ==
    matches \subseteq Cluster /\ faults \in [FaultKind -> Nat] /\ edits \in 0 .. MaxEdits

\* Faults are only added.
Grown ==
    /\ faults' \in [FaultKind -> Nat]
    /\ \A kind \in FaultKind :
          /\ faults[kind] <= faults'[kind]
          /\ faults'[kind] = 0 => faults[kind] = 0
          /\ faults'[kind] <= 1 => faults[kind] <= 1

LEMMA TypeOKParts ==
    TypeOK <=>
        /\ Storable(mcga) /\ Storable(cache) /\ Storable(base) /\ Storable(obj)
        /\ Finalizing(mcga)
        /\ pc \in {"idle", "apply", "write", "release"}
        /\ Objects
        /\ Bounded
  BY DEF TypeOK, Storable, Finalizing, Objects, Bounded

LEMMA TypeOKPrime ==
    ASSUME Storable(mcga)', Storable(cache)', Storable(base)', Storable(obj)',
           Finalizing(mcga)',
           pc' \in {"idle", "apply", "write", "release"},
           Objects',
           Bounded'
    PROVE  TypeOK'
  BY DEF TypeOK, Storable, Finalizing, Objects, Bounded

LEMMA NewResourceType == Storable(NewResource)
  BY DEF Storable, NewResource, Resource, ActionsStatus, ViewsStatus

LEMMA NoObjectType == NoAction \in ActionObject /\ NoView \in ViewObject
<1>1. PassesInTime \in Nat
  BY DEF PassesInTime, ActionStays, RequeueAfter
<1>2. QED
  BY <1>1 DEF NoAction, ActionObject, NoView, ViewObject

LEMMA SameFaults == Bounded /\ UNCHANGED faults => Grown
  BY DEF Bounded, Grown

LEMMA FaultsType ==
    ASSUME Bounded, NEW kind, Fault(kind)
    PROVE  /\ Grown
           /\ kind \in FaultKind /\ faults'[kind] = faults[kind] + 1
           /\ faults'[kind] # 0
           /\ faults'[kind] <= 1 => faults[kind] = 0
<1>1. kind \in FaultKind
  BY ConstantsAssumption DEF Fault
<1>2. faults' = [faults EXCEPT ![kind] = @ + 1] /\ faults \in [FaultKind -> Nat]
  BY DEF Fault, Bounded
<1>3. faults' \in [FaultKind -> Nat] /\ faults'[kind] = faults[kind] + 1
  BY <1>1, <1>2
<1>4. \A n \in Nat : n + 1 # 0 /\ n <= n + 1 /\ n <= n /\ (n + 1 <= 1 => n = 0)
  OBVIOUS
<1>5. \A other \in FaultKind \ {kind} : faults'[other] = faults[other]
  BY <1>2
<1>6. faults[kind] \in Nat /\ \A other \in FaultKind : faults[other] \in Nat
  BY <1>1, <1>2
<1>7. ASSUME NEW other \in FaultKind
      PROVE  /\ faults[other] <= faults'[other]
             /\ faults'[other] = 0 => faults[other] = 0
             /\ faults'[other] <= 1 => faults[other] <= 1
  <2>1. CASE other = kind
    BY <1>3, <1>6, <2>1
  <2>2. CASE other # kind
    BY <1>5, <1>6, <2>2
  <2>3. QED
    BY <2>1, <2>2
<1>8. QED
  BY <1>1, <1>3, <1>4, <1>6, <1>7 DEF Grown

LEMMA RefusalType ==
    ASSUME Bounded, NEW kind, NEW requests, NEW refused, Refusal(kind, requests, refused)
    PROVE  Grown /\ (faults'[kind] # 0 \/ refused = {})
  BY SameFaults, FaultsType DEF Refusal

LEMMA GrownKinds ==
    ASSUME Grown
    PROVE  /\ faults' \in [FaultKind -> Nat]
           /\ faults'["delete"] = 0 => faults["delete"] = 0
           /\ faults'["list"] = 0 => faults["list"] = 0
           /\ faults'["actions"] = 0 => faults["actions"] = 0
  BY DEF Grown, FaultKind

LEMMA RestType == Rest => Storable(obj)' /\ Storable(base)' /\ pc' = "idle"
  BY NewResourceType DEF Rest, Storable

LEMMA AgedType ==
    ASSUME Objects, NEW times \in Nat
    PROVE  Aged(times) \in [Cluster -> [Action -> ActionObject]]
<1>1. PassesInTime \in Nat
  BY DEF PassesInTime, ActionStays, RequeueAfter
<1>2. \A object \in ActionObject : Older(object, times) \in ActionObject
  BY <1>1 DEF Older, ActionObject
<1>3. QED
  BY <1>2 DEF Aged, Objects

LEMMA WithoutType ==
    ASSUME Objects, NEW deleted
    PROVE  /\ Without(deleted) \in [Cluster -> [View -> ViewObject]]
           /\ \A c \in Cluster, v \in View :
                 Without(deleted)[c][v].version # 0 =>
                     view[c][v].version # 0 /\ <<c, v>> \notin deleted
  BY NoObjectType DEF Without, Objects, NoView

-----------------------------------------------------------------------------
(* The steps of a pass.                                                    *)

LEMMA SelectsToType ==
    ASSUME TypeOK, NEW chosen \in SUBSET Cluster, SelectsTo(chosen)
    PROVE  /\ Storable(obj)'
           /\ base' = cache
           /\ pc = "idle" /\ pc' = "apply"
           /\ cache.phase = "live"
           /\ obj'.phase = cache.phase
           /\ obj'.finalizer = cache.finalizer
           /\ UNCHANGED <<mcga, cache, matches, action, runs, edits>>
<1> DEFINE actionsStatus ==
               [c \in Cluster |-> IF c \in chosen THEN cache.actionsStatus[c] ELSE "New"]
           viewsStatus ==
               [c \in Cluster |-> IF c \in chosen THEN cache.viewsStatus[c] ELSE "New"]
<1>1. cache \in Resource
  BY TypeOKParts DEF Storable
<1>2. /\ actionsStatus \in [Cluster -> ActionsStatus]
      /\ viewsStatus \in [Cluster -> ViewsStatus]
  BY <1>1 DEF Resource, ActionsStatus, ViewsStatus
<1>3. \A c \in Cluster \ chosen : actionsStatus[c] = "New" /\ viewsStatus[c] = "New"
  OBVIOUS
<1>4. obj' = [cache EXCEPT !.listed = chosen, !.actionsStatus = actionsStatus,
                           !.viewsStatus = viewsStatus, !.selected = chosen # {}]
  BY DEF SelectsTo
<1>5. /\ obj' \in Resource
      /\ obj'.listed = chosen
      /\ obj'.actionsStatus = actionsStatus
      /\ obj'.viewsStatus = viewsStatus
      /\ obj'.phase = cache.phase
      /\ obj'.finalizer = cache.finalizer
  <2> HIDE DEF actionsStatus, viewsStatus
  <2>1. QED
    BY <1>1, <1>2, <1>4 DEF Resource
<1>6. Storable(obj)'
  <2> HIDE DEF actionsStatus, viewsStatus
  <2>1. QED
    BY <1>3, <1>5 DEF Storable
<1>7. QED
  BY <1>5, <1>6 DEF SelectsTo, Starts

\* Select and the steps that stand for its failures.
Selects == Select \/ PlacementFails \/ ListFails

LEMMA SelectsType ==
    ASSUME TypeOK, Selects
    PROVE  /\ \E chosen \in SUBSET Cluster : SelectsTo(chosen)
           /\ view' \in [Cluster -> [View -> ViewObject]]
           /\ Grown
<1>1. Objects /\ Bounded /\ Storable(cache)
  BY TypeOKParts
<1>2. CASE Select
  <2>1. PICK refused :
          /\ Refusal("delete", Leaving(matches), refused)
          /\ view' = Without(Leaving(matches) \ refused)
    BY <1>2 DEF Select
  <2>2. SelectsTo(matches) /\ matches \in SUBSET Cluster
    BY <1>1, <1>2 DEF Select, Bounded
  <2>3. QED
    BY <1>1, <2>1, <2>2, RefusalType, WithoutType
<1>3. CASE PlacementFails
  <2>1. SelectsTo({}) /\ {} \in SUBSET Cluster
    BY <1>3 DEF PlacementFails
  <2>2. view' \in [Cluster -> [View -> ViewObject]]
    BY <1>1, <1>3, WithoutType DEF PlacementFails
  <2>3. Grown
    BY <1>1, <1>3, FaultsType DEF PlacementFails
  <2>4. QED
    BY <2>1, <2>2, <2>3
<1>4. CASE ListFails
  <2>1. SelectsTo(cache.listed) /\ cache.listed \in SUBSET Cluster
    BY <1>1, <1>4 DEF ListFails, Storable, Resource
  <2>2. view' \in [Cluster -> [View -> ViewObject]]
    BY <1>1, <1>4 DEF ListFails, Objects
  <2>3. Grown
    BY <1>1, <1>4, FaultsType DEF ListFails
  <2>4. QED
    BY <2>1, <2>2, <2>3
<1>5. QED
  BY <1>2, <1>3, <1>4 DEF Selects

LEMMA ApplyNothingType ==
    ASSUME TypeOK, ApplyNothing
    PROVE  /\ Storable(obj)'
           /\ obj'.phase = obj.phase
           /\ obj'.finalizer = obj.finalizer
<1>1. Storable(obj)
  BY TypeOKParts
<1>2. obj' = [obj EXCEPT !.applied = FALSE, !.processing = FALSE, !.complete = FALSE]
  BY DEF ApplyNothing
<1>3. QED
  BY <1>1, <1>2 DEF Storable, Resource

LEMMA ApplyWithType ==
    ASSUME TypeOK, NEW found, NEW viewsFound \in SUBSET obj.listed,
           NEW refused, NEW refusedViews, ApplyWith(found, viewsFound, refused, refusedViews)
    PROVE  /\ Storable(obj)'
           /\ obj'.phase = obj.phase
           /\ obj'.finalizer = obj.finalizer
           /\ Objects'
           /\ pc = "apply" /\ pc' = "write"
           /\ UNCHANGED <<mcga, cache, base, matches, edits>>
<1> DEFINE created == CreatedActions(refused)
           actionsStatus == [c \in Cluster |-> IF c \in obj.listed
                               THEN ActionsStatusAfter(c, created, found) ELSE "New"]
           viewsStatus == [c \in Cluster |-> IF c \in viewsFound
                               THEN ViewsStatusAfter(c, refusedViews) ELSE obj.viewsStatus[c]]
<1>1. Storable(obj) /\ Objects
  BY TypeOKParts
<1>2. actionsStatus \in [Cluster -> ActionsStatus]
  <2>1. \A c \in Cluster : ActionsStatusAfter(c, created, found) \in ActionsStatus
    <3> HIDE DEF created
    <3>1. QED
      BY <1>1 DEF ActionsStatusAfter, ActionsStatus, Storable, Resource
  <2>2. QED
    BY <2>1 DEF ActionsStatus
<1>3. viewsStatus \in [Cluster -> ViewsStatus]
  <2>1. \A c \in Cluster : ViewsStatusAfter(c, refusedViews) \in ViewsStatus
    BY DEF ViewsStatusAfter, ViewsStatus
  <2>2. QED
    BY <1>1, <2>1 DEF ViewsStatus, Storable, Resource
<1>4. \A c \in Cluster \ obj.listed : actionsStatus[c] = "New" /\ viewsStatus[c] = "New"
  BY <1>1 DEF Storable
<1>5. \E applied, processing, complete \in BOOLEAN :
        obj' = [obj EXCEPT !.actionsStatus = actionsStatus,
                           !.viewsStatus = viewsStatus,
                           !.appliedActions = obj.actions,
                           !.applied = applied,
                           !.processing = processing,
                           !.complete = complete]
  BY DEF ApplyWith
<1>6. /\ Storable(obj)'
      /\ obj'.phase = obj.phase
      /\ obj'.finalizer = obj.finalizer
  <2> HIDE DEF actionsStatus, viewsStatus
  <2>1. PICK applied, processing, complete \in BOOLEAN :
          obj' = [obj EXCEPT !.actionsStatus = actionsStatus,
                             !.viewsStatus = viewsStatus,
                             !.appliedActions = obj.actions,
                             !.applied = applied,
                             !.processing = processing,
                             !.complete = complete]
    BY <1>5
  <2>2. /\ obj' \in Resource
        /\ obj'.listed = obj.listed
        /\ obj'.actionsStatus = actionsStatus
        /\ obj'.viewsStatus = viewsStatus
        /\ obj'.phase = obj.phase
        /\ obj'.finalizer = obj.finalizer
    BY <1>1, <1>2, <1>3, <2>1 DEF Storable, Resource
  <2>3. QED
    BY <1>4, <2>2 DEF Storable
<1>7. Objects'
  <2> HIDE DEF created
  <2>1. action' \in [Cluster -> [Action -> ActionObject]]
    <3>1. [NoAction EXCEPT !.phase = "running"] \in ActionObject
      BY NoObjectType DEF ActionObject
    <3>2. action' = [c \in Cluster |-> [a \in Action |->
              IF <<c, a>> \in created THEN [NoAction EXCEPT !.phase = "running"] ELSE action[c][a]]]
      BY DEF ApplyWith, created
    <3>3. QED
      BY <1>1, <3>1, <3>2 DEF Objects
  <2>2. runs' \in [Cluster -> [Action -> 0 .. 2]]
    <3>1. runs' = [c \in Cluster |-> [a \in Action |->
              IF <<c, a>> \in created /\ runs[c][a] < 2 THEN runs[c][a] + 1 ELSE runs[c][a]]]
      BY DEF ApplyWith, created
    <3>2. QED
      BY <1>1, <3>1 DEF Objects
  <2>3. view' \in [Cluster -> [View -> ViewObject]]
    <3>1. \A c \in Cluster, v \in View :
            /\ [NoView EXCEPT !.version = obj.views[v]] \in ViewObject
            /\ [view[c][v] EXCEPT !.version = obj.views[v]] \in ViewObject
      <4>1. /\ obj.views \in [View -> 0 .. 2]
            /\ NoView \in ViewObject
            /\ \A c \in Cluster, v \in View : view[c][v] \in ViewObject
        BY <1>1, NoObjectType DEF Storable, Resource, Objects
      <4>2. QED
        BY <4>1 DEF ViewObject
    <3>2. AppliedViews(viewsFound, refusedViews) \in [Cluster -> [View -> ViewObject]]
      BY <1>1, <3>1, NoObjectType DEF AppliedViews, Objects
    <3>3. QED
      BY <1>1, <3>2 DEF ApplyWith, Objects
  <2>4. QED
    BY <2>1, <2>2, <2>3 DEF Objects
<1>8. QED
  BY <1>6, <1>7 DEF ApplyWith

\* Apply and the steps that stand for its failures.
Applies == Apply \/ RequestsFail \/ ActionsListFails \/ ViewsListFails

LEMMA AppliesType ==
    ASSUME TypeOK, Applies
    PROVE  /\ \E found, viewsFound : viewsFound \in SUBSET obj.listed /\
                 \E refused, refusedViews : ApplyWith(found, viewsFound, refused, refusedViews)
           /\ Grown
<1>1. Bounded
  BY TypeOKParts
<1>2. CASE Apply
  BY <1>1, <1>2, SameFaults DEF Apply
<1>3. CASE RequestsFail
  BY <1>1, <1>3, FaultsType DEF RequestsFail
<1>4. CASE ActionsListFails
  BY <1>1, <1>4, FaultsType DEF ActionsListFails
<1>5. CASE ViewsListFails
  BY <1>1, <1>5, FaultsType DEF ViewsListFails
<1>6. QED
  BY <1>2, <1>3, <1>4, <1>5 DEF Applies

LEMMA StoredType ==
    ASSUME TypeOK, PassOK, pc = "write"
    PROVE  Storable(Stored) /\ Finalizing(Stored) /\ Stored.phase = mcga.phase
<1>1. Storable(mcga) /\ Finalizing(mcga) /\ Storable(obj)
  BY TypeOKParts
<1>2. CASE base # mcga
  BY <1>1, <1>2 DEF Stored
<1>3. CASE base = mcga /\ obj.finalizer
  BY <1>1, <1>3 DEF PassOK, Stored, Finalizing
<1>4. CASE base = mcga /\ ~obj.finalizer
  <2>1. Stored = [mcga EXCEPT !.finalizer = TRUE]
    BY <1>4 DEF Stored
  <2>2. mcga.phase = "live"
    BY <1>4 DEF PassOK
  <2>3. QED
    BY <1>1, <2>1, <2>2 DEF Storable, Resource, Finalizing
<1>5. QED
  BY <1>2, <1>3, <1>4

LEMMA FinalizeType ==
    ASSUME TypeOK, Finalize
    PROVE  /\ pc = "idle" /\ pc' = "release"
           /\ cache.phase = "deleting"
           /\ base' = cache
           /\ obj' = [cache EXCEPT !.finalizer = FALSE]
           /\ Storable(obj)'
           /\ Objects'
           /\ Grown
           /\ faults'["delete"] = 0 => NoViews'
           /\ UNCHANGED <<mcga, cache, matches, action, runs, edits>>
<1>1. Objects /\ Bounded /\ Storable(cache)
  BY TypeOKParts
<1>2. PICK refused :
        Refusal("delete", Finalized, refused) /\ view' = Without(Finalized \ refused)
  BY DEF Finalize
<1>3. /\ Grown
      /\ faults'["delete"] # 0 \/ refused = {}
  BY <1>1, <1>2, RefusalType
<1>4. view' \in [Cluster -> [View -> ViewObject]]
  BY <1>1, <1>2, WithoutType
<1>5. ASSUME refused = {} PROVE NoViews'
  <2> SUFFICES ASSUME NEW c \in Cluster, NEW v \in View, view'[c][v].version # 0
               PROVE  FALSE
    BY DEF NoViews
  <2>1. view[c][v].version # 0 /\ <<c, v>> \notin Finalized \ refused
    BY <1>1, <1>2, WithoutType
  <2>2. <<c, v>> \in Views
    BY <2>1 DEF Views
  <2>3. QED
    BY <1>5, <2>1, <2>2 DEF Finalized
<1>6. Storable([cache EXCEPT !.finalizer = FALSE])
  BY <1>1 DEF Storable, Resource
<1>7. QED
  BY <1>1, <1>3, <1>4, <1>5, <1>6 DEF Finalize, Starts, Storable, Objects

LEMMA ReleasedType ==
    ASSUME TypeOK, PassOK, Release
    PROVE  /\ Storable(mcga)' /\ Finalizing(mcga)'
           /\ mcga' = mcga \/ (mcga.phase = "deleting" /\ mcga'.phase = "gone")
<1>1. Storable(mcga) /\ Finalizing(mcga)
  BY TypeOKParts
<1>2. CASE base = mcga
  <2>1. mcga.phase = "deleting" /\ obj = [mcga EXCEPT !.finalizer = FALSE]
    BY <1>2 DEF PassOK, Release
  <2>2. mcga' = [obj EXCEPT !.phase = "gone"]
    BY <1>2 DEF Release
  <2>3. QED
    BY <1>1, <2>1, <2>2 DEF Storable, Resource, Finalizing
<1>3. CASE base # mcga
  BY <1>1, <1>3 DEF Release, Storable, Finalizing
<1>4. QED
  BY <1>2, <1>3

-----------------------------------------------------------------------------
(* The steps of the managed clusters and the users.                        *)

LEMMA ManagedClustersType ==
    ASSUME TypeOK, ManagedClusters
    PROVE  /\ Objects'
           /\ NoViews => NoViews'
           /\ UNCHANGED <<mcga, cache, pass, matches, faults, edits>>
<1>1. Objects
  BY TypeOKParts
<1>2. ASSUME NEW c \in Cluster, NEW a \in Action, ActionExpires(c, a)
      PROVE  /\ Objects'
             /\ UNCHANGED <<mcga, cache, pass, matches, view, faults, edits>>
  BY <1>1, <1>2, NoObjectType DEF ActionExpires, Objects
<1>3. ASSUME NEW c \in Cluster, NEW a \in Action, NEW outcome \in {"done", "failed"},
             ActionEnds(c, a, outcome)
      PROVE  /\ Objects'
             /\ UNCHANGED <<mcga, cache, pass, matches, view, faults, edits>>
  <2>1. [action[c][a] EXCEPT !.phase = outcome] \in ActionObject
    BY <1>1 DEF Objects, ActionObject
  <2>2. action' = [action EXCEPT ![c] = [action[c] EXCEPT ![a] =
                      [action[c][a] EXCEPT !.phase = outcome]]]
    BY <1>1, <1>3 DEF ActionEnds, Objects
  <2>3. QED
    BY <1>1, <1>3, <2>1, <2>2 DEF ActionEnds, Objects
<1>4. ASSUME NEW c \in Cluster, NEW v \in View, NEW processing \in {"true", "false"},
             ViewReports(c, v, processing)
      PROVE  /\ Objects'
             /\ NoViews => NoViews'
             /\ UNCHANGED <<mcga, cache, pass, matches, faults, edits>>
  <2>1. [view[c][v] EXCEPT !.processing = processing] \in ViewObject
    <3>1. view[c][v] \in ViewObject
      BY <1>1 DEF Objects
    <3>2. processing \in {"absent", "true", "false"}
      OBVIOUS
    <3>3. QED
      BY <3>1, <3>2 DEF ViewObject
  <2>2. view' = [view EXCEPT ![c] = [view[c] EXCEPT ![v] =
                    [view[c][v] EXCEPT !.processing = processing]]]
    BY <1>1, <1>4 DEF ViewReports, Objects
  <2>3. view' \in [Cluster -> [View -> ViewObject]]
    BY <1>1, <2>1, <2>2 DEF Objects
  <2>4. view[c][v].version # 0
    BY <1>4 DEF ViewReports, Views
  <2>5. QED
    BY <1>1, <1>4, <2>3, <2>4 DEF ViewReports, Objects, NoViews
<1>5. view' = view => (NoViews => NoViews')
  BY DEF NoViews
<1>6. QED
  BY <1>2, <1>3, <1>4, <1>5 DEF ManagedClusters

LEMMA EditSpecType ==
    ASSUME TypeOK, NEW edit \in SpecEdits, EditSpec(edit[1], edit[2])
    PROVE  /\ Storable(mcga)' /\ Finalizing(mcga)'
           /\ mcga.phase = "live" /\ mcga'.phase = "live"
           /\ Objects'
           /\ edits' \in 0 .. MaxEdits
           /\ UNCHANGED <<cache, pass, matches, view, faults>>
<1>1. Storable(mcga) /\ Objects /\ Bounded
  BY TypeOKParts
<1>2. edit[2] \in Content
  BY ConstantsAssumption
<1>3. mcga' = [mcga EXCEPT !.actions = edit[2].actions, !.views = edit[2].views]
  BY DEF EditSpec
<1>4. mcga.phase = "live"
  BY DEF EditSpec
<1>5. Storable(mcga)' /\ mcga'.phase = "live"
  BY <1>1, <1>2, <1>3, <1>4 DEF Storable, Resource, Content
<1>6. Objects'
  BY <1>1 DEF EditSpec, Objects
<1>7. edits' \in 0 .. MaxEdits
  BY <1>1, ConstantsAssumption DEF EditSpec, Bounded
<1>8. QED
  BY <1>4, <1>5, <1>6, <1>7 DEF EditSpec, Finalizing

LEMMA RelabelType ==
    ASSUME TypeOK, NEW chosen \in SUBSET Cluster, Relabel(chosen)
    PROVE  /\ Objects'
           /\ Bounded'
           /\ UNCHANGED <<mcga, cache, pass, view, faults>>
<1>1. Objects /\ Bounded
  BY TypeOKParts
<1>2. Objects'
  BY <1>1 DEF Relabel, Objects
<1>3. Bounded'
  BY <1>1, ConstantsAssumption DEF Relabel, Bounded
<1>4. QED
  BY <1>2, <1>3 DEF Relabel

LEMMA DeleteType ==
    ASSUME TypeOK, Delete
    PROVE  /\ Storable(mcga)' /\ Finalizing(mcga)'
           /\ mcga.phase = "live"
           /\ mcga'.phase \in {"deleting", "vanished"}
           /\ UNCHANGED <<cache, pass, matches, objects, faults, edits>>
<1>1. Storable(mcga)
  BY TypeOKParts
<1>2. mcga' = [mcga EXCEPT !.phase = IF mcga.finalizer THEN "deleting" ELSE "vanished"]
  BY DEF Delete
<1>3. QED
  BY <1>1, <1>2 DEF Delete, Storable, Resource, Finalizing

-----------------------------------------------------------------------------
(* The inductive invariant.                                                *)

LEMMA TypeOKNext == TypeOK /\ PassOK /\ [Next]_vars => TypeOK'
<1> SUFFICES ASSUME TypeOK, PassOK, [Next]_vars
             PROVE  TypeOK'
  OBVIOUS
<1> USE TypeOKPrime
<1>0. /\ Storable(mcga) /\ Storable(cache) /\ Storable(base) /\ Storable(obj)
      /\ Finalizing(mcga)
      /\ pc \in {"idle", "apply", "write", "release"}
      /\ Objects /\ Bounded
  BY TypeOKParts
<1>1. CASE Selects
  <2>1. PICK chosen \in SUBSET Cluster : SelectsTo(chosen)
    BY <1>1, SelectsType
  <2>2. QED
    BY <1>0, <1>1, <2>1, SelectsType, SelectsToType, GrownKinds
       DEF Storable, Finalizing, Objects, Bounded
<1>2. CASE ApplyNothing
  BY <1>0, <1>2, ApplyNothingType
     DEF ApplyNothing, Storable, Finalizing, objects, Objects, Bounded
<1>3. CASE Applies
  <2>1. PICK found, viewsFound : viewsFound \in SUBSET obj.listed /\
            \E refused, refusedViews : ApplyWith(found, viewsFound, refused, refusedViews)
    BY <1>3, AppliesType
  <2>2. PICK refused, refusedViews : ApplyWith(found, viewsFound, refused, refusedViews)
    BY <2>1
  <2>3. QED
    BY <1>0, <1>3, <2>1, <2>2, AppliesType, ApplyWithType, GrownKinds
       DEF Storable, Finalizing, Bounded
<1>4. CASE Write
  <2>1. Storable(mcga)' /\ Finalizing(mcga)'
    BY <1>4, StoredType DEF Write, Storable, Finalizing
  <2>2. Objects'
    BY <1>0, <1>4, AgedType DEF Write, Objects
  <2>3. QED
    BY <1>0, <1>4, <2>1, <2>2, RestType DEF Write, Storable, Bounded
<1>5. CASE WriteFails
  <2>1. Objects'
    BY <1>0, <1>5, AgedType DEF WriteFails, Objects
  <2>2. Grown
    BY <1>0, <1>5, FaultsType DEF WriteFails
  <2>3. QED
    BY <1>0, <1>5, <2>1, <2>2, RestType, GrownKinds DEF WriteFails, Storable, Finalizing, Bounded
<1>6. CASE Finalize
  BY <1>0, <1>6, FinalizeType, GrownKinds DEF Storable, Finalizing, Bounded
<1>7. CASE FinalizeFails
  <2>1. Grown
    BY <1>0, <1>7, FaultsType DEF FinalizeFails
  <2>2. QED
    BY <1>0, <1>7, <2>1, GrownKinds
       DEF FinalizeFails, pass, Storable, Finalizing, objects, Objects, Bounded
<1>8. CASE Release
  BY <1>0, <1>8, RestType, ReleasedType DEF Release, Storable, objects, Objects, Bounded
<1>9. CASE SyncCache
  BY <1>0, <1>9 DEF SyncCache, pass, Storable, Finalizing, objects, Objects, Bounded
<1>10. CASE Crash
  <2>1. PassesInTime \in Nat
    BY DEF PassesInTime, ActionStays, RequeueAfter
  <2>2. Objects'
    BY <1>0, <1>10, <2>1, AgedType DEF Crash, Objects
  <2>3. Grown
    BY <1>0, <1>10, FaultsType DEF Crash
  <2>4. QED
    BY <1>0, <1>10, <2>2, <2>3, RestType, GrownKinds DEF Crash, Storable, Finalizing, Bounded
<1>11. CASE ManagedClusters
  BY <1>0, <1>11, ManagedClustersType DEF pass, Storable, Finalizing, Bounded
<1>12. ASSUME NEW edit \in SpecEdits, EditSpec(edit[1], edit[2]) PROVE TypeOK'
  BY <1>0, <1>12, EditSpecType DEF pass, Storable, Bounded
<1>13. ASSUME NEW chosen \in SUBSET Cluster, Relabel(chosen) PROVE TypeOK'
  BY <1>0, <1>13, RelabelType DEF pass, Storable, Finalizing
<1>14. CASE Delete
  BY <1>0, <1>14, DeleteType DEF pass, Storable, objects, Objects, Bounded
<1>15. CASE UNCHANGED vars
  BY <1>0, <1>15 DEF vars, Storable, Finalizing, Objects, Bounded
<1>16. QED
  BY <1>1, <1>2, <1>3, <1>4, <1>5, <1>6, <1>7, <1>8, <1>9, <1>10, <1>11, <1>12, <1>13,
     <1>14, <1>15
     DEF Next, Controller, Users, Selects, Applies

LEMMA PassOKNext == TypeOK /\ PassOK /\ [Next]_vars => PassOK'
<1> SUFFICES ASSUME TypeOK, PassOK, [Next]_vars PROVE PassOK'
  OBVIOUS
<1>1. CASE Selects
  <2>1. PICK chosen \in SUBSET Cluster : SelectsTo(chosen)
    BY <1>1, SelectsType
  <2>2. QED
    BY <2>1, SelectsToType DEF PassOK
<1>2. CASE ApplyNothing
  BY <1>2, ApplyNothingType DEF ApplyNothing, PassOK
<1>3. CASE Applies
  <2>1. PICK found, viewsFound : viewsFound \in SUBSET obj.listed /\
            \E refused, refusedViews : ApplyWith(found, viewsFound, refused, refusedViews)
    BY <1>3, AppliesType
  <2>2. PICK refused, refusedViews : ApplyWith(found, viewsFound, refused, refusedViews)
    BY <2>1
  <2>3. QED
    BY <2>1, <2>2, ApplyWithType DEF PassOK
<1>4. CASE Rest
  BY <1>4 DEF Rest, PassOK
<1>5. CASE Finalize
  BY <1>5, FinalizeType DEF PassOK
<1>6. CASE UNCHANGED pass
  BY <1>6 DEF pass, PassOK
<1>7. CASE ManagedClusters
  BY <1>6, <1>7, ManagedClustersType
<1>8. QED
  BY <1>1, <1>2, <1>3, <1>4, <1>5, <1>6, <1>7
     DEF Next, Controller, Users, Selects, Applies, Write, WriteFails, FinalizeFails, Release,
         SyncCache, Crash, EditSpec, Relabel, Delete, vars, pass

LEMMA DeletionSeenNext ==
    TypeOK /\ PassOK /\ DeletionSeen /\ [Next]_vars => DeletionSeen'
<1> SUFFICES ASSUME TypeOK, PassOK, DeletionSeen, [Next]_vars
             PROVE  DeletionSeen'
  OBVIOUS
<1> USE DEF DeletionSeen, Deleted
<1>1. CASE Selects
  <2>1. PICK chosen \in SUBSET Cluster : SelectsTo(chosen)
    BY <1>1, SelectsType
  <2>2. QED
    BY <2>1, SelectsToType
<1>2. CASE ApplyNothing
  BY <1>2 DEF ApplyNothing
<1>3. CASE Applies
  <2>1. PICK found, viewsFound : viewsFound \in SUBSET obj.listed /\
            \E refused, refusedViews : ApplyWith(found, viewsFound, refused, refusedViews)
    BY <1>3, AppliesType
  <2>2. PICK refused, refusedViews : ApplyWith(found, viewsFound, refused, refusedViews)
    BY <2>1
  <2>3. QED
    BY <2>1, <2>2, ApplyWithType
<1>4. CASE Write
  BY <1>4, StoredType DEF Write, Rest
<1>5. CASE WriteFails
  BY <1>5 DEF WriteFails, Rest
<1>6. CASE Finalize
  BY <1>6, FinalizeType
<1>7. CASE Release
  BY <1>7, ReleasedType DEF Release, Rest
<1>8. CASE SyncCache
  BY <1>8 DEF SyncCache, pass
<1>9. CASE Crash
  BY <1>9 DEF Crash, Rest
<1>10. CASE ManagedClusters
  BY <1>10, ManagedClustersType DEF pass
<1>11. ASSUME NEW edit \in SpecEdits, EditSpec(edit[1], edit[2]) PROVE DeletionSeen'
  BY <1>11, EditSpecType DEF pass
<1>12. CASE Delete
  BY <1>12, DeleteType DEF pass
<1>13. CASE UNCHANGED <<mcga, cache, pass>>
  BY <1>13 DEF pass
<1>14. QED
  BY <1>1, <1>2, <1>3, <1>4, <1>5, <1>6, <1>7, <1>8, <1>9, <1>10, <1>11, <1>12, <1>13
     DEF Next, Controller, Users, Selects, Applies, FinalizeFails, Relabel, vars, pass

LEMMA ClearedNext ==
    TypeOK /\ PassOK /\ DeletionSeen /\ Cleared /\ [Next]_vars => Cleared'
<1> SUFFICES ASSUME TypeOK, PassOK, DeletionSeen, Cleared, [Next]_vars
             PROVE  Cleared'
  OBVIOUS
<1> USE DEF Cleared
<1>0. Bounded
  BY TypeOKParts
<1>1. CASE Selects
  <2>1. PICK chosen \in SUBSET Cluster : SelectsTo(chosen)
    BY <1>1, SelectsType
  <2>2. mcga'.phase # "gone" /\ pc' = "apply"
    BY <2>1, SelectsToType DEF DeletionSeen, Deleted
  <2>3. QED
    BY <2>2
<1>2. CASE ApplyNothing
  BY <1>2 DEF ApplyNothing, DeletionSeen
<1>3. CASE Applies
  <2>1. PICK found, viewsFound : viewsFound \in SUBSET obj.listed /\
            \E refused, refusedViews : ApplyWith(found, viewsFound, refused, refusedViews)
    BY <1>3, AppliesType
  <2>2. PICK refused, refusedViews : ApplyWith(found, viewsFound, refused, refusedViews)
    BY <2>1
  <2>3. mcga'.phase # "gone" /\ pc' = "write"
    BY <2>1, <2>2, ApplyWithType DEF DeletionSeen
  <2>4. QED
    BY <2>3
<1>4. CASE Write
  BY <1>4, StoredType DEF Write, Rest, NoViews
<1>5. CASE WriteFails
  <2>1. Grown
    BY <1>0, <1>5, FaultsType DEF WriteFails
  <2>2. QED
    BY <1>5, <2>1, GrownKinds DEF WriteFails, Rest, NoViews
<1>6. CASE Finalize
  BY <1>6, FinalizeType
<1>7. CASE FinalizeFails
  <2>1. Grown
    BY <1>0, <1>7, FaultsType DEF FinalizeFails
  <2>2. QED
    BY <1>7, <2>1, GrownKinds DEF FinalizeFails, pass, objects, NoViews
<1>8. CASE Release
  BY <1>8, ReleasedType DEF Release, Rest, objects, NoViews
<1>9. CASE Crash
  <2>1. Grown
    BY <1>0, <1>9, FaultsType DEF Crash
  <2>2. QED
    BY <1>9, <2>1, GrownKinds DEF Crash, Rest, NoViews
<1>10. CASE ManagedClusters
  BY <1>10, ManagedClustersType DEF pass
<1>11. ASSUME NEW edit \in SpecEdits, EditSpec(edit[1], edit[2]) PROVE Cleared'
  BY <1>11, EditSpecType DEF pass, NoViews
<1>12. CASE Delete
  BY <1>12, DeleteType DEF pass, objects, NoViews
<1>13. CASE UNCHANGED <<mcga, pass, view, faults>>
  BY <1>13 DEF pass, NoViews
<1>14. QED
  BY <1>1, <1>2, <1>3, <1>4, <1>5, <1>6, <1>7, <1>8, <1>9, <1>10, <1>11, <1>12, <1>13
     DEF Next, Controller, Users, Selects, Applies, SyncCache, Relabel, vars, pass, objects

LEMMA IInvInit == Init => IInv
<1> SUFFICES ASSUME Init PROVE IInv
  OBVIOUS
<1>1. PICK spec \in Specs :
        mcga = [NewResource EXCEPT !.actions = spec.actions, !.views = spec.views]
  BY DEF Init
<1>2. spec \in Content
  BY ConstantsAssumption
<1>3. Storable(mcga) /\ mcga.phase = "live"
  BY <1>1, <1>2, NewResourceType DEF NewResource, Storable, Resource, Content
<1>4. Objects
  BY NoObjectType DEF Init, Objects
<1>5. TypeOK
  BY <1>3, <1>4, NewResourceType, ConstantsAssumption, TypeOKParts DEF Init, Finalizing, Bounded
<1>6. PassOK /\ DeletionSeen /\ Cleared
  BY <1>3 DEF Init, PassOK, DeletionSeen, Deleted, Cleared
<1>7. QED
  BY <1>5, <1>6 DEF IInv

LEMMA IInvNext == IInv /\ [Next]_vars => IInv'
  BY TypeOKNext, PassOKNext, DeletionSeenNext, ClearedNext DEF IInv

LEMMA Invariance == Spec => []IInv
  BY IInvInit, IInvNext, PTL DEF Spec

-----------------------------------------------------------------------------

\* The resources, the passes, the actions and the views keep their types; the
\* status of an unlisted cluster is forgotten, and a resource that is being
\* deleted keeps its finalizer until it goes.
THEOREM GroupActTypeOK == Spec => []TypeOK
<1>1. IInv => TypeOK
  BY DEF IInv
<1>2. QED
  BY <1>1, Invariance, PTL

\* A resource whose finalizer is gone has left no view of its behind, unless a
\* Delete was refused; whatever is stale, lost or crashes.
THEOREM GroupActNothingLeft == Spec => []NothingLeftAfterDeletion
<1>1. IInv => NothingLeftAfterDeletion
  BY DEF IInv, Cleared, NoViews, Views, NothingLeftAfterDeletion, Never
<1>2. QED
  BY <1>1, Invariance, PTL

-----------------------------------------------------------------------------
(* An action runs once.  As long as some resource that a pass may read, or *)
(* has read, makes the pass create an action that was created already, the *)
(* action is still there, so that Create fails.  RequeueAfter passes for   *)
(* it only after a write that changes nothing, and there are two such      *)
(* writes, one behind each list that may fail, less than it takes for the  *)
(* action to expire.                                                       *)

\* A pass on the resource creates the action, if there is none of its name.
Wants(resource, c, a) ==
    /\ a \in resource.actions
    /\ c \in resource.listed \cup matches
    /\ resource.actionsStatus[c] = "New" \/ a \notin resource.appliedActions

InPass == pc \in {"apply", "write"}

\* The resources of which passes are still to come, or going on.
Read == {cache} \cup (IF InPass THEN {base} ELSE {})

Present(c, a) == action[c][a].phase # "absent"
Young(c, a, age) == Present(c, a) /\ action[c][a].age <= age

\* The writes without change that failures to list may have caused: of the
\* clusters, before the cluster was on the list, or of its actions, since.
Missed(resource, c) ==
    IF faults[IF c \in resource.listed THEN "actions" ELSE "list"] = 0 THEN 0 ELSE 1

\* The fields that tell whether an action was applied; only Write changes them.
Noted(resource) == <<resource.listed, resource.appliedActions, resource.actionsStatus>>

AgesOK ==
    \A c \in Cluster, a \in Action :
        action[c][a].phase \in {"absent", "running"} => action[c][a].age = 0

\* The working copy has what was read, and the cache has not got ahead of it
\* but for what users have changed.
CopyOK ==
    /\ InPass =>
          /\ obj.actions = base.actions
          /\ Noted(cache) \in {Noted(base), Noted(mcga)}
    /\ pc = "apply" =>
          /\ obj.appliedActions = base.appliedActions
          /\ obj.listed \subseteq base.listed \cup matches
          /\ \A c \in obj.listed : obj.actionsStatus[c] = base.actionsStatus[c]

\* The action is there while somebody still wants it; users may have removed
\* it from the spec since a resource was read.
StoredWaits(c, a) == Wants(mcga, c, a) => Young(c, a, Missed(mcga, c))

ReadWaits(c, a) ==
    \A resource \in Read :
        Wants(resource, c, a) =>
            /\ Young(c, a, 1)
            /\ a \in mcga.actions => Young(c, a, Missed(resource, c))

\* Users have added it again since the cache, or the pass, has read the spec.
Readded(c, a) ==
    /\ a \in mcga.actions \ cache.actions => Young(c, a, 0)
    /\ InPass =>
          /\ a \in (mcga.actions \cap base.actions) \ cache.actions =>
                action[c][a].phase = "running"
          /\ a \in (mcga.actions \cup cache.actions) \ base.actions => Young(c, a, 0)

\* The clusters were not listed in this pass, so the cluster has not joined.
Unlisted(c, a) ==
    InPass /\ c \in matches \ obj.listed /\ a \in obj.actions =>
        /\ faults["list"] # 0
        /\ Young(c, a, 1)
        /\ a \in mcga.actions => Young(c, a, 0)

\* The pass does not note the action: it has just been created, or its actions
\* were not listed.
Unnoted(c, a) ==
    (/\ pc = "write" /\ c \in obj.listed /\ a \in obj.actions
     /\ obj.actionsStatus[c] = "New" \/ a \notin obj.appliedActions) =>
        \/ action[c][a].phase = "running"
        \/ /\ faults["actions"] # 0
           /\ Young(c, a, 1)
           /\ a \in mcga.actions /\ c \in base.listed => Young(c, a, 0)

Awaited(c, a) ==
    StoredWaits(c, a) /\ ReadWaits(c, a) /\ Readded(c, a) /\ Unlisted(c, a) /\ Unnoted(c, a)

Once(c, a) == runs[c][a] <= 1 /\ (runs[c][a] = 1 => Awaited(c, a))

Regular ==
    /\ Never({"crash", "placement", "backoff"})
    /\ faults["list"] <= 1 /\ faults["actions"] <= 1

OnceInv ==
    /\ AgesOK
    /\ CopyOK
    /\ Regular => \A c \in Cluster, a \in Action : Once(c, a)

LEMMA RegularBefore ==
    ASSUME Grown, Regular'
    PROVE  Regular
  BY DEF Grown, FaultKind, Regular, Never

LEMMA PassesInTimeIsTwo == PassesInTime = 2
  BY DEF PassesInTime, ActionStays, RequeueAfter

LEMMA ActionTyped ==
    ASSUME TypeOK, NEW c \in Cluster, NEW a \in Action
    PROVE  /\ action[c][a].phase \in {"absent", "running", "done", "failed"}
           /\ action[c][a].age \in 0 .. 2
           /\ runs[c][a] \in 0 .. 2
  BY TypeOKParts, PassesInTimeIsTwo DEF Objects, ActionObject

LEMMA AgedOnce ==
    ASSUME TypeOK, NEW c \in Cluster, NEW a \in Action, NEW times \in Nat
    PROVE  LET old == action[c][a]
               new == Aged(times)[c][a]
           IN  /\ new.phase = old.phase
               /\ old.phase \in {"absent", "running"} => new = old
               /\ old.phase \notin {"absent", "running"} /\ times = 1 /\ old.age = 0 =>
                     new.age = 1
<1>1. Aged(times)[c][a] = Older(action[c][a], times)
  BY DEF Aged
<1>2. action[c][a] \in ActionObject
  BY TypeOKParts DEF Objects
<1>3. QED
  BY <1>1, <1>2, PassesInTimeIsTwo, ActionTyped DEF Older, ActionObject

\* What a pass that starts has of the resource it reads.
LEMMA SelectedCopy ==
    ASSUME TypeOK, NEW chosen \in SUBSET Cluster, SelectsTo(chosen)
    PROVE  /\ obj'.actions = cache.actions
           /\ obj'.appliedActions = cache.appliedActions
           /\ obj'.listed = chosen
           /\ \A c \in chosen : obj'.actionsStatus[c] = cache.actionsStatus[c]
<1>1. cache \in Resource
  BY TypeOKParts DEF Storable
<1>2. DEFINE actionsStatus ==
                 [c \in Cluster |-> IF c \in chosen THEN cache.actionsStatus[c] ELSE "New"]
             viewsStatus ==
                 [c \in Cluster |-> IF c \in chosen THEN cache.viewsStatus[c] ELSE "New"]
<1>3. obj' = [cache EXCEPT !.listed = chosen, !.actionsStatus = actionsStatus,
                           !.viewsStatus = viewsStatus, !.selected = chosen # {}]
  BY DEF SelectsTo
<1>4. \A c \in chosen : actionsStatus[c] = cache.actionsStatus[c]
  OBVIOUS
<1> HIDE DEF actionsStatus, viewsStatus
<1>5. /\ obj'.actions = cache.actions
      /\ obj'.appliedActions = cache.appliedActions
      /\ obj'.listed = chosen
      /\ obj'.actionsStatus = actionsStatus
  BY <1>1, <1>3 DEF Resource
<1>6. QED
  BY <1>4, <1>5

\* What Apply makes of one action and of its cluster's status.
LEMMA AppliedCopy ==
    ASSUME TypeOK, NEW found, NEW viewsFound \in SUBSET obj.listed,
           NEW refused, NEW refusedViews, ApplyWith(found, viewsFound, refused, refusedViews),
           NEW c \in Cluster, NEW a \in Action
    PROVE  /\ obj'.actions = obj.actions
           /\ obj'.appliedActions = obj.actions
           /\ obj'.listed = obj.listed
           /\ c \in obj.listed /\ a \in obj.actions /\ obj'.actionsStatus[c] = "New" =>
                 /\ obj.actionsStatus[c] = "New"
                 /\ ~(c \in found /\ Present(c, a))
           /\ \/ /\ c \in obj.listed /\ a \in obj.actions /\ Creates(c, a)
                 /\ ~Present(c, a)
                 /\ action'[c][a].phase = "running" /\ action'[c][a].age = 0
                 /\ runs'[c][a] = IF runs[c][a] < 2 THEN runs[c][a] + 1 ELSE runs[c][a]
              \/ action'[c][a] = action[c][a] /\ runs'[c][a] = runs[c][a]
<1> DEFINE created == CreatedActions(refused)
           actionsStatus == [d \in Cluster |-> IF d \in obj.listed
                               THEN ActionsStatusAfter(d, created, found) ELSE "New"]
           viewsStatus == [d \in Cluster |-> IF d \in viewsFound
                               THEN ViewsStatusAfter(d, refusedViews) ELSE obj.viewsStatus[d]]
<1>1. Storable(obj) /\ Objects
  BY TypeOKParts
<1>2. PICK applied, processing, complete \in BOOLEAN :
        obj' = [obj EXCEPT !.actionsStatus = actionsStatus,
                           !.viewsStatus = viewsStatus,
                           !.appliedActions = obj.actions,
                           !.applied = applied,
                           !.processing = processing,
                           !.complete = complete]
  BY DEF ApplyWith
<1>3. /\ obj'.actions = obj.actions
      /\ obj'.appliedActions = obj.actions
      /\ obj'.listed = obj.listed
      /\ obj'.actionsStatus = actionsStatus
  <2> HIDE DEF actionsStatus, viewsStatus
  <2>1. QED
    BY <1>1, <1>2 DEF Storable, Resource
<1>4. ASSUME c \in obj.listed, a \in obj.actions, actionsStatus[c] = "New"
      PROVE  obj.actionsStatus[c] = "New" /\ ~(c \in found /\ Present(c, a))
  <2>1. ActionsStatusAfter(c, created, found) = "New"
    BY <1>4
  <2>2. obj.actions # {}
    BY <1>4
  <2> HIDE DEF created
  <2>3. ListedActions(c, found) = {} /\ obj.actionsStatus[c] = "New"
    BY <2>1, <2>2 DEF ActionsStatusAfter
  <2>4. QED
    BY <2>3 DEF ListedActions, Present
<1>5. CASE <<c, a>> \in created
  <2>1. /\ c \in obj.listed /\ a \in obj.actions /\ Creates(c, a)
        /\ ~Present(c, a)
    BY <1>5 DEF CreatedActions, ActionCreations, Present
  <2> HIDE DEF created
  <2>2. action' = [d \in Cluster |-> [b \in Action |->
            IF <<d, b>> \in created THEN [NoAction EXCEPT !.phase = "running"] ELSE action[d][b]]]
    BY DEF ApplyWith, created
  <2>3. runs' = [d \in Cluster |-> [b \in Action |->
            IF <<d, b>> \in created /\ runs[d][b] < 2 THEN runs[d][b] + 1 ELSE runs[d][b]]]
    BY DEF ApplyWith, created
  <2>4. QED
    BY <1>3, <1>4, <1>5, <2>1, <2>2, <2>3 DEF NoAction
<1>6. CASE <<c, a>> \notin created
  <2> HIDE DEF created
  <2>1. action'[c][a] = action[c][a]
    BY <1>6 DEF ApplyWith, created
  <2>2. runs'[c][a] = runs[c][a]
    BY <1>6 DEF ApplyWith, created
  <2>3. QED
    BY <1>3, <1>4, <2>1, <2>2
<1>7. QED
  BY <1>5, <1>6

\* An action that Apply would create was wanted by the resource it has read.
LEMMA CopyWanted ==
    ASSUME CopyOK, pc = "apply", NEW c \in obj.listed, NEW a \in obj.actions,
           obj.actionsStatus[c] = "New" \/ a \notin obj.appliedActions
    PROVE  Wants(base, c, a) /\ base \in Read
  BY DEF CopyOK, Wants, InPass, Read

LEMMA OnceSelects ==
    ASSUME TypeOK, NEW chosen \in SUBSET Cluster, SelectsTo(chosen),
           chosen = matches \/ (chosen = cache.listed /\ faults["list"] = 0 /\ faults'["list"] # 0),
           Grown,
           NEW c \in Cluster, NEW a \in Action, Once(c, a)
    PROVE  Once(c, a)'
<1>1. /\ base' = cache /\ pc = "idle" /\ pc' = "apply"
      /\ UNCHANGED <<mcga, cache, matches, action, runs>>
  BY SelectsToType
<1>2. obj'.actions = cache.actions /\ obj'.listed = chosen
  BY SelectedCopy
<1> SUFFICES ASSUME runs[c][a] = 1
             PROVE  Awaited(c, a)'
  BY <1>1 DEF Once
<1>3. Awaited(c, a)
  BY DEF Once
<1>4. action[c][a].age \in 0 .. 2
  BY ActionTyped
<1>5. StoredWaits(c, a)'
  BY <1>1, <1>3, <1>4, GrownKinds DEF Awaited, StoredWaits, Wants, Young, Present, Missed
<1>6. ReadWaits(c, a)'
  BY <1>1, <1>3, <1>4, GrownKinds DEF Awaited, ReadWaits, Read, InPass, Wants, Young, Present, Missed
<1>7. Readded(c, a)'
  BY <1>1, <1>3 DEF Awaited, Readded, InPass, Young, Present
<1>8. Unlisted(c, a)'
  <2> SUFFICES ASSUME c \in matches \ chosen, a \in cache.actions
               PROVE  /\ faults'["list"] # 0
                      /\ Young(c, a, 1)
                      /\ a \in mcga.actions => Young(c, a, 0)
    BY <1>1, <1>2 DEF Unlisted, Young, Present
  <2>1. chosen = cache.listed /\ faults["list"] = 0 /\ faults'["list"] # 0
    OBVIOUS
  <2>2. cache.actionsStatus[c] = "New"
    BY <2>1, TypeOKParts DEF Storable
  <2>3. Wants(cache, c, a) /\ Missed(cache, c) = 0
    BY <2>1, <2>2 DEF Wants, Missed
  <2>4. QED
    BY <1>3, <2>1, <2>3 DEF Awaited, ReadWaits, Read
<1>9. Unnoted(c, a)'
  BY <1>1 DEF Unnoted
<1>10. QED
  BY <1>5, <1>6, <1>7, <1>8, <1>9 DEF Awaited

LEMMA OnceApply ==
    ASSUME TypeOK, CopyOK, NEW found, NEW viewsFound \in SUBSET obj.listed,
           NEW refused, NEW refusedViews, ApplyWith(found, viewsFound, refused, refusedViews),
           obj.listed \subseteq found \/ (faults["actions"] = 0 /\ faults'["actions"] # 0),
           Grown,
           NEW c \in Cluster, NEW a \in Action, Once(c, a)
    PROVE  Once(c, a)'
<1>1. pc = "apply" /\ pc' = "write" /\ UNCHANGED <<mcga, cache, base, matches>>
  BY ApplyWithType
<1>2. /\ obj'.actions = obj.actions /\ obj'.appliedActions = obj.actions
      /\ obj'.listed = obj.listed
      /\ c \in obj.listed /\ a \in obj.actions /\ obj'.actionsStatus[c] = "New" =>
            obj.actionsStatus[c] = "New" /\ ~(c \in found /\ Present(c, a))
  BY AppliedCopy
<1>3. CASE /\ c \in obj.listed /\ a \in obj.actions /\ Creates(c, a)
           /\ ~Present(c, a)
           /\ action'[c][a].phase = "running" /\ action'[c][a].age = 0
           /\ runs'[c][a] = IF runs[c][a] < 2 THEN runs[c][a] + 1 ELSE runs[c][a]
  <2>1. Wants(base, c, a) /\ base \in Read
    BY <1>1, <1>3, CopyWanted DEF Creates, AddActions
  <2>2. runs[c][a] # 1
    BY <1>3, <2>1 DEF Once, Awaited, ReadWaits, Young
  <2>3. runs'[c][a] = 1
    BY <1>3, <2>2, ActionTyped DEF Once
  <2>4. \A age \in {0, 1} : Young(c, a, age)'
    BY <1>3 DEF Young, Present
  <2>5. \A resource : Missed(resource, c)' \in {0, 1}
    BY DEF Missed
  <2>6. StoredWaits(c, a)' /\ ReadWaits(c, a)' /\ Readded(c, a)' /\ Unnoted(c, a)'
    BY <1>3, <2>4, <2>5 DEF StoredWaits, ReadWaits, Readded, Unnoted, Young, Present
  <2>7. Unlisted(c, a)'
    BY <1>2, <1>3 DEF Unlisted
  <2>8. QED
    BY <2>3, <2>6, <2>7 DEF Once, Awaited
<1>4. CASE action'[c][a] = action[c][a] /\ runs'[c][a] = runs[c][a]
  <2> SUFFICES ASSUME runs[c][a] = 1
               PROVE  Awaited(c, a)'
    BY <1>4 DEF Once
  <2>1. Awaited(c, a)
    BY DEF Once
  <2>2. action[c][a].age \in 0 .. 2
    BY ActionTyped
  <2>3. StoredWaits(c, a)'
    BY <1>1, <1>4, <2>1, <2>2, GrownKinds DEF Awaited, StoredWaits, Wants, Young, Present, Missed
  <2>4. ReadWaits(c, a)'
    BY <1>1, <1>4, <2>1, <2>2, GrownKinds
    DEF Awaited, ReadWaits, Read, InPass, Wants, Young, Present, Missed
  <2>5. Readded(c, a)'
    BY <1>1, <1>4, <2>1 DEF Awaited, Readded, InPass, Young, Present
  <2>6. Unlisted(c, a)'
    BY <1>1, <1>2, <1>4, <2>1, GrownKinds DEF Awaited, Unlisted, InPass, Young, Present
  <2>7. Unnoted(c, a)'
    <3> SUFFICES ASSUME c \in obj.listed, a \in obj.actions, obj'.actionsStatus[c] = "New"
                 PROVE  /\ faults'["actions"] # 0
                        /\ Young(c, a, 1)
                        /\ a \in mcga.actions /\ c \in base.listed => Young(c, a, 0)
      BY <1>1, <1>2, <1>4 DEF Unnoted, Young, Present
    <3>1. obj.actionsStatus[c] = "New" /\ ~(c \in found /\ Present(c, a))
      BY <1>2
    <3>2. Wants(base, c, a) /\ base \in Read
      BY <1>1, <3>1, CopyWanted
    <3>3. Young(c, a, 1) /\ (a \in mcga.actions => Young(c, a, Missed(base, c)))
      BY <2>1, <3>2 DEF Awaited, ReadWaits
    <3>4. faults["actions"] = 0 /\ faults'["actions"] # 0
      BY <3>1, <3>3 DEF Young
    <3>5. c \in base.listed => Missed(base, c) = 0
      BY <3>4 DEF Missed
    <3>6. QED
      BY <3>3, <3>4, <3>5
  <2>8. QED
    BY <2>3, <2>4, <2>5, <2>6, <2>7 DEF Awaited
<1>5. QED
  BY <1>3, <1>4, AppliedCopy

LEMMA OnceApplyNothing ==
    ASSUME TypeOK, ApplyNothing, NEW c \in Cluster, NEW a \in Action, Once(c, a)
    PROVE  Once(c, a)'
<1>1. /\ pc = "apply" /\ pc' = "write" /\ obj.listed = {}
      /\ UNCHANGED <<mcga, cache, base, matches, action, runs, faults>>
  BY DEF ApplyNothing, objects
<1>2. obj'.actions = obj.actions /\ obj'.listed = {}
  BY <1>1, TypeOKParts DEF ApplyNothing, Storable, Resource
<1>3. QED
  BY <1>1, <1>2
  DEF Once, Awaited, StoredWaits, ReadWaits, Readded, Unlisted, Unnoted, Read, InPass, Wants,
      Young, Present, Missed

\* The write that changes nothing is the one that RequeueAfter follows.
LEMMA OnceWrite ==
    ASSUME IInv, CopyOK, AgesOK, Write, NEW c \in Cluster, NEW a \in Action, Once(c, a)
    PROVE  Once(c, a)'
<1>1. /\ pc = "write" /\ pc' = "idle"
      /\ mcga' = Stored
      /\ action' = IF base = mcga /\ Stored = mcga THEN Aged(1) ELSE action
      /\ UNCHANGED <<cache, matches, runs, faults>>
  BY DEF Write, Rest
<1>2. TypeOK /\ obj.finalizer = base.finalizer /\ obj.actions = base.actions
  BY <1>1 DEF IInv, PassOK, CopyOK, InPass
<1> SUFFICES ASSUME runs[c][a] = 1
             PROVE  Awaited(c, a)'
  BY <1>1 DEF Once
<1>3. Awaited(c, a) /\ action[c][a].age \in 0 .. 2 /\ Read' = {cache}
  BY <1>1, <1>2, ActionTyped DEF Once, Read, InPass
<1>4. CASE action' = action
  <2>1. mcga'.actions = mcga.actions
    BY <1>1, <1>2, TypeOKParts DEF Stored, Storable, Resource
  <2>2. StoredWaits(c, a)'
    <3>1. CASE mcga' = obj /\ base = mcga
      <4> SUFFICES ASSUME Wants(obj, c, a)
                   PROVE  Young(c, a, Missed(obj, c))
        BY <1>1, <1>4, <3>1 DEF StoredWaits, Wants, Young, Present, Missed
      <4>1. CASE c \in obj.listed
        <5>1. \/ action[c][a].phase = "running"
              \/ faults["actions"] # 0 /\ Young(c, a, 1)
          BY <1>1, <1>3, <4>1 DEF Awaited, Unnoted, Wants
        <5>2. action[c][a].phase = "running" => Young(c, a, 0) /\ Young(c, a, 1)
          BY DEF AgesOK, Young, Present
        <5>3. QED
          BY <4>1, <5>1, <5>2 DEF Missed
      <4>2. CASE c \notin obj.listed
        <5>1. faults["list"] # 0 /\ Young(c, a, 1)
          BY <1>1, <1>3, <4>2 DEF Awaited, Unlisted, InPass, Wants
        <5>2. QED
          BY <4>2, <5>1 DEF Missed
      <4>3. QED
        BY <4>1, <4>2
    <3>2. CASE mcga' = mcga \/ mcga' = [mcga EXCEPT !.finalizer = TRUE]
      <4>1. Wants(mcga, c, a)' => Wants(mcga, c, a)
        BY <1>1, <1>2, <3>2, TypeOKParts DEF Wants, Storable, Resource
      <4>2. Missed(mcga, c)' = Missed(mcga, c)
        BY <1>1, <1>2, <3>2, TypeOKParts DEF Missed, Storable, Resource
      <4>3. QED
        BY <1>3, <1>4, <4>1, <4>2 DEF Awaited, StoredWaits, Young, Present
    <3>3. QED
      BY <1>1, <3>1, <3>2 DEF Stored
  <2>3. ReadWaits(c, a)'
    BY <1>1, <1>3, <1>4, <2>1
    DEF Awaited, ReadWaits, Read, Wants, Young, Present, Missed
  <2>4. Readded(c, a)'
    BY <1>1, <1>3, <1>4, <2>1 DEF Awaited, Readded, InPass, Young, Present
  <2>5. Unlisted(c, a)' /\ Unnoted(c, a)'
    BY <1>1 DEF Unlisted, Unnoted, InPass
  <2>6. QED
    BY <2>2, <2>3, <2>4, <2>5 DEF Awaited
<1>5. CASE base = mcga /\ Stored = mcga /\ action' = Aged(1)
  <2>1. obj = mcga /\ mcga' = mcga
    BY <1>1, <1>2, <1>5, TypeOKParts DEF Stored, Storable, Resource
  <2>2. /\ Young(c, a, 0) => Young(c, a, 1)'
        /\ action[c][a].phase = "running" => Young(c, a, 0)'
        /\ Young(c, a, 0)' => Young(c, a, 1)'
    <3>1. /\ action'[c][a].phase = action[c][a].phase
          /\ action[c][a].phase = "running" => action'[c][a] = action[c][a]
          /\ action[c][a].phase \notin {"absent", "running"} /\ action[c][a].age = 0 =>
                action'[c][a].age = 1
      BY <1>2, <1>5, AgedOnce
    <3>2. /\ action[c][a].phase \in {"absent", "running", "done", "failed"}
          /\ action[c][a].phase = "running" => action[c][a].age = 0
      BY <1>2, ActionTyped DEF AgesOK
    <3>3. action'[c][a].age \in 0 .. 2
      BY <1>2, <1>5, AgedType, TypeOKParts, PassesInTimeIsTwo DEF ActionObject
    <3>4. QED
      BY <1>3, <3>1, <3>2, <3>3 DEF Young, Present
  <2>3. Wants(mcga, c, a) => Young(c, a, Missed(mcga, c))'
    <3>1. CASE Wants(mcga, c, a) /\ c \in mcga.listed
      <4>1. \/ action[c][a].phase = "running"
            \/ faults["actions"] # 0 /\ Young(c, a, 0)
        BY <1>1, <1>3, <1>5, <2>1, <3>1 DEF Awaited, Unnoted, Wants
      <4>2. Young(c, a, 0)' \/ (faults["actions"] # 0 /\ Young(c, a, 1)')
        BY <2>2, <4>1
      <4>3. Missed(mcga, c)' = IF faults["actions"] = 0 THEN 0 ELSE 1
        BY <1>1, <2>1, <3>1 DEF Missed
      <4>4. QED
        BY <2>2, <4>2, <4>3
    <3>2. CASE Wants(mcga, c, a) /\ c \notin mcga.listed
      <4>1. faults["list"] # 0 /\ Young(c, a, 0)
        BY <1>1, <1>3, <2>1, <3>2 DEF Awaited, Unlisted, InPass, Wants
      <4>2. Missed(mcga, c)' = 1
        BY <1>1, <2>1, <3>2, <4>1 DEF Missed
      <4>3. QED
        BY <2>2, <4>1, <4>2
    <3>3. QED
      BY <3>1, <3>2
  <2>4. StoredWaits(c, a)'
    BY <1>1, <2>1, <2>3 DEF StoredWaits, Wants
  <2>5. ReadWaits(c, a)'
    <3> SUFFICES ASSUME Wants(cache, c, a)
                 PROVE  /\ Young(c, a, 1)'
                        /\ a \in mcga.actions => Young(c, a, Missed(cache, c))'
      BY <1>1, <1>3, <2>1 DEF ReadWaits, Wants, Missed
    <3>1. Noted(cache) = Noted(mcga)
      BY <1>1, <1>5 DEF CopyOK, InPass
    <3>2. CASE a \in mcga.actions
      <4>1. Wants(mcga, c, a)
        BY <3>1, <3>2 DEF Noted, Wants
      <4>2. Missed(cache, c)' = Missed(mcga, c)'
        BY <1>1, <2>1, <3>1 DEF Noted, Missed
      <4>3. Missed(mcga, c)' \in {0, 1}
        BY DEF Missed
      <4>4. QED
        BY <2>2, <2>3, <4>1, <4>2, <4>3
    <3>3. CASE a \notin mcga.actions
      <4>1. Young(c, a, 0)
        BY <1>1, <1>3, <1>5, <3>3 DEF Awaited, Readded, InPass, Wants
      <4>2. QED
        BY <2>2, <3>3, <4>1
    <3>4. QED
      BY <3>2, <3>3
  <2>6. Readded(c, a)'
    <3> SUFFICES ASSUME a \in mcga.actions \ cache.actions
                 PROVE  Young(c, a, 0)'
      BY <1>1, <2>1 DEF Readded, InPass
    <3>1. action[c][a].phase = "running"
      BY <1>1, <1>3, <1>5 DEF Awaited, Readded, InPass
    <3>2. QED
      BY <2>2, <3>1
  <2>7. Unlisted(c, a)' /\ Unnoted(c, a)'
    BY <1>1 DEF Unlisted, Unnoted, InPass
  <2>8. QED
    BY <2>4, <2>5, <2>6, <2>7 DEF Awaited
<1>6. QED
  BY <1>1, <1>4, <1>5

\* A step that neither changes what is noted nor what is asked for.
LEMMA OnceQuiet ==
    ASSUME NEW c \in Cluster, NEW a \in Action, Once(c, a),
           runs'[c][a] = runs[c][a],
           action'[c][a].age \in 0 .. 2,
           \A age \in {0, 1} : Young(c, a, age) => Young(c, a, age)',
           mcga'.actions = mcga.actions, Noted(mcga') = Noted(mcga), cache' = cache,
           c \in matches' <=> c \in matches,
           Grown,
           ~InPass' \/ (UNCHANGED pass /\ action'[c][a] = action[c][a])
    PROVE  Once(c, a)'
<1> SUFFICES ASSUME runs[c][a] = 1
             PROVE  Awaited(c, a)'
  BY DEF Once
<1>1. Awaited(c, a)
  BY DEF Once
<1>2. /\ Young(c, a, 0) => Young(c, a, 0)'
      /\ Young(c, a, 1) => Young(c, a, 1)'
      /\ Young(c, a, 0)' => Young(c, a, 1)'
  BY DEF Young, Present
<1>4. StoredWaits(c, a)'
  <2>1. Wants(mcga, c, a)' => Wants(mcga, c, a)
    BY DEF Wants, Noted
  <2>2. /\ Missed(mcga, c) \in {0, 1} /\ Missed(mcga, c)' \in {0, 1}
        /\ Missed(mcga, c) = 1 => Missed(mcga, c)' = 1
    BY GrownKinds DEF Missed, Noted
  <2>3. Young(c, a, Missed(mcga, c)) => Young(c, a, Missed(mcga, c))'
    BY <1>2, <2>2 DEF Young
  <2>4. QED
    BY <1>1, <2>1, <2>3 DEF Awaited, StoredWaits
<1>5. ReadWaits(c, a)'
  <2> SUFFICES ASSUME NEW resource \in Read', Wants(resource, c, a)'
               PROVE  /\ Young(c, a, 1)'
                      /\ a \in mcga'.actions => Young(c, a, Missed(resource, c))'
    BY DEF ReadWaits
  <2>1. resource \in Read /\ Wants(resource, c, a)
    BY DEF Read, InPass, pass, Wants
  <2>2. /\ Missed(resource, c) \in {0, 1} /\ Missed(resource, c)' \in {0, 1}
        /\ Missed(resource, c) = 1 => Missed(resource, c)' = 1
    BY GrownKinds DEF Missed
  <2>3. Young(c, a, Missed(resource, c)) => Young(c, a, Missed(resource, c))'
    BY <1>2, <2>2 DEF Young
  <2>4. QED
    BY <1>1, <1>2, <2>1, <2>3 DEF Awaited, ReadWaits
<1>6. Readded(c, a)'
  BY <1>1, <1>2 DEF Awaited, Readded, InPass, pass
<1>7. Unlisted(c, a)'
  BY <1>1, <1>2, GrownKinds DEF Awaited, Unlisted, InPass, pass
<1>8. Unnoted(c, a)'
  BY <1>1, <1>2, GrownKinds DEF Awaited, Unnoted, InPass, pass
<1>9. QED
  BY <1>4, <1>5, <1>6, <1>7, <1>8 DEF Awaited

LEMMA OnceSync ==
    ASSUME TypeOK, SyncCache, NEW c \in Cluster, NEW a \in Action, Once(c, a)
    PROVE  Once(c, a)'
<1>1. cache' = mcga /\ UNCHANGED <<mcga, pass, matches, objects, faults>>
  BY DEF SyncCache
<1> SUFFICES ASSUME runs[c][a] = 1
             PROVE  Awaited(c, a)'
  BY <1>1 DEF Once, objects
<1>2. Awaited(c, a) /\ action[c][a].age \in 0 .. 2
  BY ActionTyped DEF Once
<1>3. StoredWaits(c, a)'
  BY <1>1, <1>2 DEF Awaited, StoredWaits, Wants, Young, Present, Missed, objects
<1>4. ReadWaits(c, a)'
  BY <1>1, <1>2
  DEF Awaited, StoredWaits, ReadWaits, Read, InPass, pass, Wants, Young, Present, Missed, objects
<1>5. Readded(c, a)' /\ Unlisted(c, a)' /\ Unnoted(c, a)'
  BY <1>1, <1>2
  DEF Awaited, Readded, Unlisted, Unnoted, InPass, pass, Young, Present, objects
<1>6. QED
  BY <1>3, <1>4, <1>5 DEF Awaited

LEMMA OnceEdit ==
    ASSUME TypeOK, NEW edit \in SpecEdits, EditSpec(edit[1], edit[2]),
           NEW c \in Cluster, NEW a \in Action, Once(c, a)
    PROVE  Once(c, a)'
<1>1. /\ mcga' = [mcga EXCEPT !.actions = edit[2].actions, !.views = edit[2].views]
      /\ runs'[c][a] = IF a \in edit[2].actions \ mcga.actions THEN 0 ELSE runs[c][a]
      /\ UNCHANGED <<cache, pass, matches, action, faults>>
  BY DEF EditSpec
<1>2. mcga'.actions = edit[2].actions /\ Noted(mcga') = Noted(mcga)
  BY <1>1, TypeOKParts DEF Storable, Resource, Noted
<1>3. CASE a \in edit[2].actions \ mcga.actions
  BY <1>1, <1>3 DEF Once
<1>4. CASE a \in edit[2].actions => a \in mcga.actions
  <2> SUFFICES ASSUME runs[c][a] = 1
               PROVE  Awaited(c, a)'
    BY <1>1, <1>4 DEF Once
  <2>1. Awaited(c, a)
    BY DEF Once
  <2>2. StoredWaits(c, a)'
    BY <1>1, <1>2, <1>4, <2>1 DEF Awaited, StoredWaits, Wants, Young, Present, Missed, Noted
  <2>3. ReadWaits(c, a)'
    BY <1>1, <1>2, <1>4, <2>1
    DEF Awaited, ReadWaits, Read, InPass, pass, Wants, Young, Present, Missed
  <2>4. Readded(c, a)' /\ Unlisted(c, a)' /\ Unnoted(c, a)'
    BY <1>1, <1>2, <1>4, <2>1
    DEF Awaited, Readded, Unlisted, Unnoted, InPass, pass, Young, Present
  <2>5. QED
    BY <2>2, <2>3, <2>4 DEF Awaited
<1>5. QED
  BY <1>3, <1>4

LEMMA OnceObjects ==
    ASSUME TypeOK, TypeOK', ManagedClusters, pc = "idle",
           NEW c \in Cluster, NEW a \in Action, Once(c, a)
    PROVE  Once(c, a)'
<1>1. UNCHANGED <<mcga, cache, pass, matches, runs, faults>>
  BY DEF ManagedClusters, ActionExpires, ActionEnds, ViewReports
<1>2. action[c][a].age \in 0 .. 2 /\ action'[c][a].age \in 0 .. 2
  BY ActionTyped, PassesInTimeIsTwo DEF TypeOK, ActionObject
<1>3. \A age \in {0, 1} : Young(c, a, age) => Young(c, a, age)'
  <2>1. ASSUME NEW d \in Cluster, NEW b \in Action, ActionExpires(d, b)
        PROVE  \A age \in {0, 1} : Young(c, a, age) => Young(c, a, age)'
    <3>1. CASE d = c /\ b = a
      BY <1>2, <2>1, <3>1, PassesInTimeIsTwo DEF ActionExpires, Young
    <3>2. CASE ~(d = c /\ b = a)
      BY <2>1, <3>2, TypeOKParts DEF ActionExpires, Young, Present, Objects
    <3>3. QED
      BY <3>1, <3>2
  <2>2. ASSUME NEW d \in Cluster, NEW b \in Action, NEW outcome \in {"done", "failed"},
               ActionEnds(d, b, outcome)
        PROVE  \A age \in {0, 1} : Young(c, a, age) => Young(c, a, age)'
    <3>1. action' = [action EXCEPT ![d] = [action[d] EXCEPT ![b] =
                        [action[d][b] EXCEPT !.phase = outcome]]]
      BY <2>2, TypeOKParts DEF ActionEnds, Objects
    <3>2. action[d][b] \in ActionObject /\ action \in [Cluster -> [Action -> ActionObject]]
      BY TypeOKParts DEF Objects
    <3>3. action'[c][a].age = action[c][a].age
      BY <3>1, <3>2 DEF ActionObject
    <3>4. Present(c, a) => Present(c, a)'
      BY <3>1, <3>2 DEF ActionObject, Present
    <3>5. QED
      BY <3>3, <3>4 DEF Young
  <2>3. ASSUME action' = action
        PROVE  \A age \in {0, 1} : Young(c, a, age) => Young(c, a, age)'
    BY <2>3 DEF Young, Present
  <2>4. QED
    BY <2>1, <2>2, <2>3 DEF ManagedClusters, ViewReports
<1>4. Grown
  BY <1>1, SameFaults, TypeOKParts
<1>5. QED
  BY <1>1, <1>2, <1>3, <1>4, OnceQuiet DEF pass, InPass

LEMMA OnceRelabel ==
    ASSUME TypeOK, NEW chosen \in SUBSET Cluster, Relabel(chosen),
           NEW c \in Cluster, NEW a \in Action, Once(c, a)
    PROVE  Once(c, a)'
<1>1. /\ pc = "idle" /\ matches' = chosen
      /\ runs'[c][a] = IF c \in chosen \ matches THEN 0 ELSE runs[c][a]
      /\ UNCHANGED <<mcga, cache, pass, action, faults>>
  BY DEF Relabel
<1>2. CASE c \in chosen \ matches
  BY <1>1, <1>2 DEF Once
<1>3. CASE c \notin chosen \ matches
  <2> SUFFICES ASSUME runs[c][a] = 1
               PROVE  Awaited(c, a)'
    BY <1>1, <1>3 DEF Once
  <2>1. Awaited(c, a)
    BY DEF Once
  <2>2. StoredWaits(c, a)' /\ ReadWaits(c, a)'
    BY <1>1, <1>3, <2>1
    DEF Awaited, StoredWaits, ReadWaits, Read, InPass, pass, Wants, Young, Present, Missed
  <2>3. Readded(c, a)' /\ Unlisted(c, a)' /\ Unnoted(c, a)'
    BY <1>1, <1>3, <2>1
    DEF Awaited, Readded, Unlisted, Unnoted, InPass, pass, Young, Present
  <2>4. QED
    BY <2>2, <2>3 DEF Awaited
<1>4. QED
  BY <1>2, <1>3

LEMMA AgesNext == TypeOK /\ AgesOK /\ [Next]_vars => AgesOK'
<1> SUFFICES ASSUME TypeOK, AgesOK, [Next]_vars, NEW c \in Cluster, NEW a \in Action,
                    action'[c][a].phase \in {"absent", "running"}
             PROVE  action'[c][a].age = 0
  BY DEF AgesOK
<1>1. CASE Applies
  <2>1. PICK found, viewsFound : viewsFound \in SUBSET obj.listed /\
            \E refused, refusedViews : ApplyWith(found, viewsFound, refused, refusedViews)
    BY <1>1, AppliesType
  <2>2. PICK refused, refusedViews : ApplyWith(found, viewsFound, refused, refusedViews)
    BY <2>1
  <2>3. action'[c][a].age = 0 \/ action'[c][a] = action[c][a]
    BY <2>1, <2>2, AppliedCopy
  <2>4. QED
    BY <2>3 DEF AgesOK
<1>2. CASE \E times \in Nat : action' = Aged(times)
  <2>1. PICK times \in Nat : action' = Aged(times)
    BY <1>2
  <2>2. /\ action'[c][a].phase = action[c][a].phase
        /\ action[c][a].phase \in {"absent", "running"} => action'[c][a] = action[c][a]
    BY <2>1, AgedOnce
  <2>3. QED
    BY <2>2 DEF AgesOK
<1>3. CASE action' = action
  BY <1>3 DEF AgesOK
<1>4. CASE ManagedClusters
  <2>1. ASSUME NEW d \in Cluster, NEW b \in Action, ActionExpires(d, b)
        PROVE  action'[c][a].age = 0
    <3>1. action'[c][a] = NoAction \/ action'[c][a] = action[c][a]
      BY <2>1, TypeOKParts DEF ActionExpires, Objects
    <3>2. QED
      BY <3>1 DEF NoAction, AgesOK
  <2>2. ASSUME NEW d \in Cluster, NEW b \in Action, NEW outcome \in {"done", "failed"},
               ActionEnds(d, b, outcome)
        PROVE  action'[c][a].age = 0
    <3>1. action' = [action EXCEPT ![d] = [action[d] EXCEPT ![b] =
                        [action[d][b] EXCEPT !.phase = outcome]]]
      BY <2>2, TypeOKParts DEF ActionEnds, Objects
    <3>2. action[d][b] \in ActionObject /\ action \in [Cluster -> [Action -> ActionObject]]
      BY TypeOKParts DEF Objects
    <3>3. action'[c][a] = action[c][a]
      BY <3>1, <3>2 DEF ActionObject
    <3>4. QED
      BY <3>3 DEF AgesOK
  <2>3. QED
    BY <1>3, <1>4, <2>1, <2>2 DEF ManagedClusters, ViewReports
<1>5. PassesInTime \in Nat /\ 1 \in Nat
  BY PassesInTimeIsTwo
<1>6. QED
  BY <1>1, <1>2, <1>3, <1>4, <1>5
     DEF Next, Controller, Users, Selects, Select, PlacementFails, ListFails, SelectsTo,
         ApplyNothing, Applies, Write, WriteFails, Finalize, FinalizeFails, Release, SyncCache,
         Crash, EditSpec, Relabel, Delete, objects, vars

LEMMA CopyNext == TypeOK /\ CopyOK /\ [Next]_vars => CopyOK'
<1> SUFFICES ASSUME TypeOK, CopyOK, [Next]_vars
             PROVE  CopyOK'
  OBVIOUS
<1>1. CASE Select \/ ListFails
  <2>1. PICK chosen \in SUBSET Cluster :
          SelectsTo(chosen) /\ chosen \subseteq cache.listed \cup matches
    BY <1>1, TypeOKParts DEF Select, ListFails, Bounded, Storable, Resource
  <2>2. QED
    BY <2>1, SelectsToType, SelectedCopy DEF CopyOK, InPass
<1>2. CASE PlacementFails
  <2>1. SelectsTo({}) /\ {} \in SUBSET Cluster
    BY <1>2 DEF PlacementFails
  <2>2. QED
    BY <2>1, SelectsToType, SelectedCopy DEF CopyOK, InPass
<1>3. CASE ApplyNothing
  BY <1>3, TypeOKParts DEF ApplyNothing, Storable, Resource, CopyOK, InPass
<1>4. CASE Applies
  <2>1. PICK found, viewsFound : viewsFound \in SUBSET obj.listed /\
            \E refused, refusedViews : ApplyWith(found, viewsFound, refused, refusedViews)
    BY <1>4, AppliesType
  <2>2. PICK refused, refusedViews : ApplyWith(found, viewsFound, refused, refusedViews)
    BY <2>1
  <2>3. obj'.actions = obj.actions
    <3>1. obj \in Resource
      BY TypeOKParts DEF Storable
    <3>2. QED
      BY <2>2, <3>1 DEF ApplyWith, Resource
  <2>4. QED
    BY <2>1, <2>2, <2>3, ApplyWithType DEF CopyOK, InPass
<1>5. CASE pc' \in {"idle", "release"}
  BY <1>5 DEF CopyOK, InPass
<1>6. CASE /\ UNCHANGED pass
           /\ cache' \in {cache, mcga}
           /\ Noted(mcga') = Noted(mcga)
           /\ matches' = matches \/ pc = "idle"
  BY <1>6 DEF pass, CopyOK, InPass, Noted
<1>7. ASSUME NEW edit \in SpecEdits, EditSpec(edit[1], edit[2])
      PROVE  CopyOK'
  <2>1. Noted(mcga') = Noted(mcga)
    BY <1>7, TypeOKParts DEF EditSpec, Storable, Resource, Noted
  <2>2. QED
    BY <1>6, <1>7, <2>1 DEF EditSpec
<1>8. CASE Delete
  <2>1. Noted(mcga') = Noted(mcga)
    BY <1>8, TypeOKParts DEF Delete, Storable, Resource, Noted
  <2>2. QED
    BY <1>6, <1>8, <2>1 DEF Delete
<1>9. CASE ManagedClusters
  BY <1>6, <1>9, ManagedClustersType
<1>10. CASE UNCHANGED vars
  BY <1>6, <1>10 DEF vars, pass
<1>11. CASE FinalizeFails \/ SyncCache
  BY <1>6, <1>11 DEF FinalizeFails, SyncCache
<1>12. CASE \E chosen \in SUBSET Cluster : Relabel(chosen)
  BY <1>6, <1>12 DEF Relabel
<1>13. QED
  BY <1>1, <1>2, <1>3, <1>4, <1>5, <1>7, <1>8, <1>9, <1>10, <1>11, <1>12
     DEF Next, Controller, Users, Applies, Write, WriteFails, Finalize, Release, Crash, Rest

LEMMA FaultsNext == TypeOK /\ [Next]_vars => Grown
<1> SUFFICES ASSUME TypeOK, [Next]_vars
             PROVE  Grown
  OBVIOUS
<1>1. Bounded
  BY TypeOKParts
<1>2. CASE UNCHANGED faults
  BY <1>1, <1>2, SameFaults
<1>3. CASE \E kind \in {"write", "backoff", "views", "crash"} : Fault(kind)
  BY <1>1, <1>3, FaultsType
<1>4. CASE Finalize
  BY <1>4, FinalizeType
<1>5. CASE Selects
  BY <1>5, SelectsType
<1>6. CASE Applies
  BY <1>6, AppliesType
<1>7. CASE ManagedClusters
  BY <1>2, <1>7, ManagedClustersType
<1>8. QED
  BY <1>2, <1>3, <1>4, <1>5, <1>6, <1>7
     DEF Next, Controller, Users, Selects, Applies, ApplyNothing, Write, WriteFails,
         FinalizeFails, Release, SyncCache, Crash, EditSpec, Relabel, Delete, vars

LEMMA OnceNext ==
    ASSUME IInv, OnceInv, [Next]_vars, Regular', NEW c \in Cluster, NEW a \in Action
    PROVE  Once(c, a)'
<1>1. TypeOK /\ TypeOK' /\ CopyOK /\ AgesOK /\ Bounded
  BY TypeOKNext, TypeOKParts DEF IInv, OnceInv
<1>2. Grown
  BY <1>1, FaultsNext
<1>3. Once(c, a)
  BY <1>2, RegularBefore DEF OnceInv
<1>4. CASE Select
  <2>1. SelectsTo(matches) /\ matches \in SUBSET Cluster
    BY <1>1, <1>4 DEF Select, Bounded
  <2>2. QED
    BY <1>1, <1>2, <1>3, <2>1, OnceSelects
<1>5. CASE ListFails
  <2>1. SelectsTo(cache.listed) /\ cache.listed \in SUBSET Cluster
    BY <1>1, <1>5, TypeOKParts DEF ListFails, Storable, Resource
  <2>2. faults["list"] = 0 /\ faults'["list"] # 0
    BY <1>1, <1>5, FaultsType DEF ListFails, Regular
  <2>3. QED
    BY <1>1, <1>2, <1>3, <2>1, <2>2, OnceSelects
<1>6. ASSUME \E kind \in {"placement", "crash", "backoff"} : Fault(kind)
      PROVE  FALSE
  BY <1>1, <1>6, FaultsType DEF Regular, Never
<1>7. CASE ApplyNothing
  BY <1>1, <1>3, <1>7, OnceApplyNothing
<1>8. CASE Applies
  <2>1. \/ Apply \/ RequestsFail \/ ViewsListFails
        \/ ActionsListFails /\ faults["actions"] = 0 /\ faults'["actions"] # 0
    BY <1>1, <1>8, FaultsType DEF Applies, ActionsListFails, Regular
  <2>2. \E found : \E viewsFound \in SUBSET obj.listed :
          /\ \E refused, refusedViews : ApplyWith(found, viewsFound, refused, refusedViews)
          /\ obj.listed \subseteq found \/ (faults["actions"] = 0 /\ faults'["actions"] # 0)
    BY <2>1 DEF Apply, RequestsFail, ActionsListFails, ViewsListFails
  <2>3. PICK found : \E viewsFound \in SUBSET obj.listed :
          /\ \E refused, refusedViews : ApplyWith(found, viewsFound, refused, refusedViews)
          /\ obj.listed \subseteq found \/ (faults["actions"] = 0 /\ faults'["actions"] # 0)
    BY <2>2
  <2>4. PICK viewsFound \in SUBSET obj.listed :
          /\ \E refused, refusedViews : ApplyWith(found, viewsFound, refused, refusedViews)
          /\ obj.listed \subseteq found \/ (faults["actions"] = 0 /\ faults'["actions"] # 0)
    BY <2>3
  <2>5. PICK refused, refusedViews : ApplyWith(found, viewsFound, refused, refusedViews)
    BY <2>4
  <2>6. QED
    BY <1>1, <1>2, <1>3, <2>4, <2>5, OnceApply
<1>9. CASE Write
  BY <1>1, <1>3, <1>9, OnceWrite
<1>10. CASE SyncCache
  BY <1>1, <1>3, <1>10, OnceSync
<1>11. CASE ManagedClusters
  <2>1. pc = "idle"
    BY <1>11 DEF ManagedClusters, ActionExpires, ActionEnds, ViewReports
  <2>2. QED
    BY <1>1, <1>3, <1>11, <2>1, OnceObjects
<1>12. ASSUME NEW edit \in SpecEdits, EditSpec(edit[1], edit[2])
       PROVE  Once(c, a)'
  BY <1>1, <1>3, <1>12, OnceEdit
<1>13. ASSUME NEW chosen \in SUBSET Cluster, Relabel(chosen)
       PROVE  Once(c, a)'
  BY <1>1, <1>3, <1>13, OnceRelabel
<1>14. CASE /\ UNCHANGED <<cache, matches, action, runs>>
            /\ mcga'.actions = mcga.actions /\ Noted(mcga') = Noted(mcga)
            /\ UNCHANGED pass \/ pc' \in {"idle", "release"}
  <2>1. action'[c][a].age \in 0 .. 2
    BY <1>1, <1>14, ActionTyped
  <2>2. \A age \in {0, 1} : Young(c, a, age) => Young(c, a, age)'
    BY <1>14 DEF Young, Present
  <2>3. QED
    BY <1>2, <1>3, <1>14, <2>1, <2>2, OnceQuiet DEF InPass
<1>15. CASE WriteFails \/ FinalizeFails
  BY <1>6, <1>14, <1>15 DEF WriteFails, FinalizeFails, Rest, objects
<1>16. CASE Finalize
  BY <1>1, <1>14, <1>16, FinalizeType
<1>17. CASE Release
  <2>1. mcga'.actions = mcga.actions /\ Noted(mcga') = Noted(mcga)
    <3>1. CASE base = mcga
      <4>1. obj = [mcga EXCEPT !.finalizer = FALSE] /\ mcga' = [obj EXCEPT !.phase = "gone"]
        BY <1>17, <3>1 DEF Release, IInv, PassOK
      <4>2. QED
        BY <1>1, <4>1, TypeOKParts DEF Storable, Resource, Noted
    <3>2. CASE base # mcga
      BY <1>17, <3>2 DEF Release
    <3>3. QED
      BY <3>1, <3>2
  <2>2. QED
    BY <1>14, <1>17, <2>1 DEF Release, Rest, objects
<1>18. CASE Delete
  <2>1. mcga'.actions = mcga.actions /\ Noted(mcga') = Noted(mcga)
    BY <1>1, <1>18, TypeOKParts DEF Delete, Storable, Resource, Noted
  <2>2. QED
    BY <1>14, <1>18, <2>1 DEF Delete, objects
<1>19. CASE UNCHANGED vars
  BY <1>14, <1>19 DEF vars, pass
<1>20. QED
  BY <1>4, <1>5, <1>6, <1>7, <1>8, <1>9, <1>10, <1>11, <1>12, <1>13, <1>15, <1>16, <1>17,
     <1>18, <1>19
     DEF Next, Controller, Users, Applies, PlacementFails, Crash

LEMMA OnceInit == Init => OnceInv
<1> SUFFICES ASSUME Init
             PROVE  OnceInv
  OBVIOUS
<1>1. \A c \in Cluster, a \in Action : runs[c][a] = 0 /\ action[c][a] = NoAction
  BY DEF Init
<1>2. AgesOK
  BY <1>1 DEF AgesOK, NoAction
<1>3. CopyOK
  BY DEF Init, CopyOK, InPass
<1>4. \A c \in Cluster, a \in Action : Once(c, a)
  BY <1>1 DEF Once
<1>5. QED
  BY <1>2, <1>3, <1>4 DEF OnceInv

LEMMA OnceInvariance == Spec => []OnceInv
<1>1. IInv /\ OnceInv /\ [Next]_vars => OnceInv'
  BY OnceNext, AgesNext, CopyNext DEF IInv, OnceInv
<1>2. QED
  BY <1>1, OnceInit, Invariance, PTL DEF Spec

\* An action is created at most once on a cluster for each time it is put into
\* the spec or the cluster joins ("20sec as managedClusterActoin stays for
\* 60sec", managedclustergroupact_controller.go:63): however many passes are
\* stale, requests refused, lists of views lost, or writes lost that are retried
\* sooner than RequeueAfter, and although the list of clusters and that of
\* actions fail once each.  A second failure of one of these lists, failures in
\* a row that take RequeueAfter, a crash and a Placement that is not found are
\* outside: each may leave an action the time to expire.
THEOREM GroupActRunsOnce == Spec => []RunsOnce
<1>1. IInv /\ OnceInv => RunsOnce
  BY DEF IInv, OnceInv, Regular, Once, RunsOnce
<1>2. QED
  BY <1>1, Invariance, OnceInvariance, PTL

=============================================================================
