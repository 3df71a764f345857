------------------------------ MODULE GroupAct ------------------------------
(***************************************************************************)
(* The ManagedClusterGroupAct controller                                   *)
(* (controllers/act/managedclustergroupact_controller.go) for one          *)
(* resource: the actions it creates once per cluster, the views it keeps   *)
(* in step with the spec, and their removal.  Actions expire some time     *)
(* after they have ended, so the controller has to read them in time.      *)
(*                                                                         *)
(* A pass of Reconcile on a live resource is Select, Apply and Write, on a *)
(* working copy `obj'; on one that is being deleted, Finalize and Release. *)
(* The environment acts, and the program may crash, between any two steps. *)
(*                                                                         *)
(* A definition whose name starts with Bug is the definition after it with *)
(* a plausible mistake; nothing refers to it.                              *)
(***************************************************************************)
EXTENDS Naturals, FiniteSets, Functions

CONSTANTS
    Cluster,         \* the managed clusters
    Action,          \* the names of actions
    View,            \* the names of views
    InitialMatches,  \* the clusters the spec selects at first
    Specs,           \* the actions and views a spec may have at first
    SpecEdits,       \* how users change them, as pairs of specs
    Faults,          \* the kinds of fault that may happen
    MaxEvents,       \* bound: faults, and changes of the spec or selection
    MaxEdits         \* bound: the changes alone

\* A stale pass; a failed list of clusters, get of the Placement, list of
\* actions or of views; a request about an object, or the Delete of a view,
\* that is refused; a failed write, one after so many failed passes that it
\* takes RequeueAfter until the next; a crash.
FaultKind == {"stale", "list", "placement", "actions", "views", "request", "delete",
              "write", "backoff", "crash"}

\* What a spec asks for: a view is given by the version of its own spec, and 0
\* when it is not asked for.
Content == [actions : SUBSET Action, views : [View -> 0 .. 2]]

ASSUME ConstantsAssumption ==
    /\ InitialMatches \subseteq Cluster
    /\ Specs \subseteq Content
    /\ SpecEdits \subseteq Content \X Content
    /\ Faults \subseteq FaultKind
    /\ MaxEvents \in Nat
    /\ MaxEdits \in Nat

\* Seconds between two passes, and seconds an action stays when it has ended.
BugRequeueAfter == 60

RequeueAfter == 20
ActionStays == 60

\* The passes with RequeueAfter between them that, at the least, start and end
\* while an ended action stays.
PassesInTime == (ActionStays \div RequeueAfter) - 1

\* actionsStatus and viewsStatus of a listed cluster; "New" is the empty string.
ActionsStatus == {"New", "NotingApplied", "Applied", "ActionsFailed", "ActionsDone"}
ViewsStatus == {"New", "NotingApplied", "Applied", "Processing", "NotProcessing"}

\* The resource; "gone" and "vanished": deleted with, without finalizer.
Resource ==
    [phase : {"live", "deleting", "gone", "vanished"},
     finalizer : BOOLEAN,
     actions : SUBSET Action,
     views : [View -> 0 .. 2],
     appliedActions : SUBSET Action,
     listed : SUBSET Cluster,
     actionsStatus : [Cluster -> ActionsStatus],
     viewsStatus : [Cluster -> ViewsStatus],
     selected : BOOLEAN, applied : BOOLEAN, processing : BOOLEAN, complete : BOOLEAN]

NewResource ==
    [phase |-> "live", finalizer |-> FALSE,
     actions |-> {}, views |-> [v \in View |-> 0],
     appliedActions |-> {}, listed |-> {},
     actionsStatus |-> [c \in Cluster |-> "New"],
     viewsStatus |-> [c \in Cluster |-> "New"],
     selected |-> FALSE, applied |-> FALSE, processing |-> FALSE, complete |-> FALSE]

\* A ManagedClusterAction, and how often RequeueAfter has passed since it ended.
ActionObject == [phase : {"absent", "running", "done", "failed"}, age : 0 .. PassesInTime]

NoAction == [phase |-> "absent", age |-> 0]

\* A ManagedClusterView: absent when its version is 0; condition Processing.
ViewObject == [version : 0 .. 2, processing : {"absent", "true", "false"}]

NoView == [version |-> 0, processing |-> "absent"]

VARIABLES
    mcga,     \* the resource the API server holds
    cache,    \* the resource in the informer cache
    obj,      \* the working copy of the pass
    base,     \* the resource the pass has read
    pc,       \* what the pass does next
    matches,  \* the clusters the spec selects
    action,   \* the ManagedClusterActions
    view,     \* the ManagedClusterViews
    runs,     \* how often an action was created (2: more than once) since
              \* the user put it into the spec or its cluster joined
    faults,   \* how often a fault of each kind has happened
    edits

vars == <<mcga, cache, obj, base, pc, matches, action, view, runs, faults, edits>>
pass == <<obj, base, pc>>
objects == <<action, view, runs>>

\* The resources, the passes and the objects are in one of their states; the
\* status of an unlisted cluster is forgotten, and a resource that is being
\* deleted still has its finalizer.
TypeOK ==
    /\ \A resource \in {mcga, cache, base, obj} :
          /\ resource \in Resource
          /\ \A c \in Cluster \ resource.listed :
                resource.actionsStatus[c] = "New" /\ resource.viewsStatus[c] = "New"
    /\ mcga.phase # "live" => mcga.finalizer = (mcga.phase = "deleting")
    /\ pc \in {"idle", "apply", "write", "release"}
    /\ matches \subseteq Cluster
    /\ action \in [Cluster -> [Action -> ActionObject]]
    /\ view \in [Cluster -> [View -> ViewObject]]
    /\ runs \in [Cluster -> [Action -> 0 .. 2]]
    /\ faults \in [FaultKind -> Nat]
    /\ edits \in 0 .. MaxEdits

Init ==
    /\ \E spec \in Specs :
          mcga = [NewResource EXCEPT !.actions = spec.actions, !.views = spec.views]
    /\ cache = mcga
    /\ obj = NewResource
    /\ base = NewResource
    /\ pc = "idle"
    /\ matches = InitialMatches
    /\ action = [c \in Cluster |-> [a \in Action |-> NoAction]]
    /\ view = [c \in Cluster |-> [v \in View |-> NoView]]
    /\ runs = [c \in Cluster |-> [a \in Action |-> 0]]
    /\ faults = [kind \in FaultKind |-> 0]
    /\ edits = 0

\* One more fault or change may happen.
EventsLeft == SumFunction(faults) + edits < MaxEvents

\* A fault of that kind happens.
Fault(kind) ==
    /\ kind \in Faults
    /\ EventsLeft
    /\ faults' = [faults EXCEPT ![kind] = @ + 1]

\* The requests of a step that the API server refuses.
Refusal(kind, requests, refused) ==
    /\ refused \subseteq requests
    /\ IF refused = {} THEN UNCHANGED faults ELSE Fault(kind)

Rest ==
    /\ obj' = NewResource
    /\ base' = NewResource
    /\ pc' = "idle"

Older(object, times) ==
    IF object.phase \notin {"done", "failed"} THEN object
    ELSE [object EXCEPT !.age = IF @ + times < PassesInTime THEN @ + times ELSE PassesInTime]

\* RequeueAfter passes that often for the actions.
Aged(times) == [c \in Cluster |-> [a \in Action |-> Older(action[c][a], times)]]

\* The clusters and names of the views that exist.
Views == {p \in Cluster \X View : view[p[1]][p[2]].version # 0}

Without(deleted) ==
    [c \in Cluster |-> [v \in View |-> IF <<c, v>> \in deleted THEN NoView ELSE view[c][v]]]

-----------------------------------------------------------------------------
(* Select: r.Get, from the cache, and processSelectedCondition.            *)

InSpec(resource) == {v \in View : resource.views[v] # 0}

\* A pass starts; with "stale" among the faults, on what the cache still has.
Starts(phase) ==
    /\ pc = "idle"
    /\ cache.phase = phase
    /\ cache = mcga \/ "stale" \in Faults

SelectsTo(chosen) ==
    /\ Starts("live")
    /\ obj' = [cache EXCEPT
                  !.listed = chosen,
                  !.actionsStatus = [c \in Cluster |-> IF c \in chosen THEN @[c] ELSE "New"],
                  !.viewsStatus = [c \in Cluster |-> IF c \in chosen THEN @[c] ELSE "New"],
                  !.selected = chosen # {}]
    /\ base' = cache
    /\ pc' = "apply"
    /\ UNCHANGED <<mcga, cache, matches, action, runs, edits>>

BugLeaving(chosen) == {}

\* The views of the spec on the clusters that leave the list.
Leaving(chosen) == (cache.listed \ chosen) \X InSpec(cache)

\* An error of Delete is logged, and the cluster leaves all the same.
Select ==
    /\ SelectsTo(matches)
    /\ \E refused \in SUBSET Leaving(matches) :
          /\ Refusal("delete", Leaving(matches), refused)
          /\ view' = Without(Leaving(matches) \ refused)

\* Get of the Placement fails (or it is not found): an empty Placement goes
\* on, which has no decisions and deselects every cluster.
PlacementFails ==
    /\ SelectsTo({})
    /\ Fault("placement")
    /\ view' = Without(Leaving({}))

\* Listing clusters or decisions fails: nothing is added, nothing deleted.
ListFails ==
    /\ SelectsTo(cache.listed)
    /\ Fault("list")
    /\ UNCHANGED view

-----------------------------------------------------------------------------
(* Apply: processAppliedCondition, the actions.                            *)

BugAddActions(resource) == {}

AddActions(resource) == resource.actions \ resource.appliedActions

BugCreates(c, a) == obj.actionsStatus[c] \in {"New", "ActionsFailed"} \/ a \in AddActions(obj)

Creates(c, a) == obj.actionsStatus[c] = "New" \/ a \in AddActions(obj)

ActionCreations == {p \in obj.listed \X obj.actions : Creates(p[1], p[2])}

\* Create fails when an action of that name exists.
CreatedActions(refused) ==
    {p \in ActionCreations \ refused : action[p[1]][p[2]].phase = "absent"}

\* The actions with the label of the resource that the pass has listed before
\* it creates any; `found' are the clusters for which listing them succeeded.
ListedActions(c, found) == {a \in Action : c \in found /\ action[c][a].phase # "absent"}

\* The condition Completed of the action is there, and true.
Succeeded(object) == object.phase = "done"

\* An action of the spec that is not done puts its reason into actionStatus.
Unfinished(c, created, found) ==
    {a \in obj.actions :
        IF Creates(c, a) THEN <<c, a>> \notin created
        ELSE a \in ListedActions(c, found) /\ ~Succeeded(action[c][a])}

ActionsStatusAfter(c, created, found) ==
    LET unfinished == Unfinished(c, created, found) # {}
        any == ListedActions(c, found) # {}
    IN  CASE obj.actions = {} -> "NotingApplied"
          [] obj.actions # {} /\ ~any -> obj.actionsStatus[c]
          [] obj.actions # {} /\ any /\ unfinished -> "ActionsFailed"
          [] OTHER -> IF obj.actionsStatus[c] = "New" THEN "Applied" ELSE "ActionsDone"

-----------------------------------------------------------------------------
(* Apply: the views.                                                       *)

\* The views, on any cluster, that the spec does not have any more.
RemovedViews == {p \in Views : p[2] \notin InSpec(obj)}

BugViewCreations ==
    {p \in (obj.listed \X InSpec(obj)) : p \notin Views /\ obj.viewsStatus[p[1]] = "New"}

ViewCreations == {p \in (obj.listed \X InSpec(obj)) : p \notin Views}

\* A view without the condition Processing is passed over.
Processed == {p \in (obj.listed \X InSpec(obj)) \cap Views : view[p[1]][p[2]].processing # "absent"}

OutdatedViews == {p \in Processed : view[p[1]][p[2]].version # obj.views[p[2]]}

ViewsStatusAfter(c, refused) ==
    LET read == {v \in View : <<c, v>> \in Processed \ OutdatedViews}
        states == {view[c][v].processing : v \in read}
    IN  CASE "false" \in states -> "NotProcessing"
          [] states = {"true"} -> "Processing"
          [] states = {} /\ (\E v \in View : <<c, v>> \in ViewCreations \ refused) -> "Applied"
          [] OTHER -> "NotingApplied"

\* What becomes of the views: those removed from the spec go, the missing
\* ones are created, the outdated ones updated, unless the request fails; on
\* the clusters not `found', for which listing the views fails, none is.
AppliedViews(found, refused) ==
    [c \in Cluster |-> [v \in View |->
        CASE <<c, v>> \in RemovedViews \ refused -> NoView
          [] c \in found /\ <<c, v>> \in ViewCreations \ refused ->
                [NoView EXCEPT !.version = obj.views[v]]
          [] c \in found /\ <<c, v>> \in OutdatedViews \ refused ->
                [view[c][v] EXCEPT !.version = obj.views[v]]
          [] OTHER -> view[c][v]]]

ViewRequests == RemovedViews \cup ViewCreations \cup OutdatedViews

-----------------------------------------------------------------------------

\* Without a listed cluster nothing is applied, and nothing is recorded.
ApplyNothing ==
    /\ pc = "apply"
    /\ obj.listed = {}
    /\ obj' = [obj EXCEPT !.applied = FALSE, !.processing = FALSE, !.complete = FALSE]
    /\ pc' = "write"
    /\ UNCHANGED <<mcga, cache, base, matches, objects, faults, edits>>

\* The lists of actions and of views succeed for some of the clusters; some of
\* the requests about actions and about views may be refused.
ApplyWith(found, viewsFound, refused, refusedViews) ==
    LET created == CreatedActions(refused)
        actionsStatus == [c \in Cluster |-> IF c \in obj.listed
                            THEN ActionsStatusAfter(c, created, found) ELSE "New"]
        viewsStatus == [c \in Cluster |-> IF c \in viewsFound
                            THEN ViewsStatusAfter(c, refusedViews) ELSE obj.viewsStatus[c]]
        none == {c \in viewsFound : viewsStatus[c] = "NotingApplied"}
        waiting == {c \in viewsFound : viewsStatus[c] = "NotProcessing"}
        open == {c \in obj.listed :
                    \/ obj.actions = {}
                    \/ /\ Unfinished(c, created, found) # {}
                       /\ ListedActions(c, found) # {}}
    IN  /\ pc = "apply"
        /\ obj.listed # {}
        /\ action' = [c \in Cluster |-> [a \in Action |->
              IF <<c, a>> \in created THEN [NoAction EXCEPT !.phase = "running"] ELSE action[c][a]]]
        /\ runs' = [c \in Cluster |-> [a \in Action |->
              IF <<c, a>> \in created /\ runs[c][a] < 2 THEN runs[c][a] + 1 ELSE runs[c][a]]]
        /\ view' = AppliedViews(viewsFound, refusedViews)
        /\ obj' = [obj EXCEPT !.actionsStatus = actionsStatus,
                              !.viewsStatus = viewsStatus,
                              !.appliedActions = obj.actions,
                              !.applied = created = ActionCreations /\ none = {},
                              !.processing = none \cup waiting = {},
                              !.complete = open = {}]
        /\ pc' = "write"
        /\ UNCHANGED <<mcga, cache, base, matches, edits>>

Apply == ApplyWith(obj.listed, obj.listed, {}, {}) /\ UNCHANGED faults

\* The errors are logged.
RequestsFail ==
    \E refused \in SUBSET ActionCreations, refusedViews \in SUBSET ViewRequests :
        /\ refused \cup refusedViews # {}
        /\ ApplyWith(obj.listed, obj.listed, refused, refusedViews)
        /\ Fault("request")

\* The actions of some clusters cannot be listed.
ActionsListFails ==
    \E found \in SUBSET obj.listed :
        /\ found # obj.listed
        /\ ApplyWith(found, obj.listed, {}, {})
        /\ Fault("actions")

\* The views to be removed cannot be listed, and none is; or those of some
\* clusters cannot, and their viewsStatus stays.
ViewsListFails ==
    \E found \in SUBSET obj.listed, kept \in {{}, RemovedViews} :
        /\ found # obj.listed \/ kept # {}
        /\ ApplyWith(obj.listed, found, {}, kept)
        /\ Fault("views")

-----------------------------------------------------------------------------
(* Write: the finalizer is added with r.Update, which drops the status (a  *)
(* subresource); a resource that has it gets r.Status().Update.  Both are  *)
(* refused when the resource read is outdated; the next pass then comes at *)
(* once, as it does when the resource has changed, by the event of the     *)
(* watch.  After any other write it may take RequeueAfter to come, and so  *)
(* it may after a failure: the delay is 5 ms at first and doubles with     *)
(* each further failure in a row.                                          *)

BugStored == IF ~obj.finalizer THEN [mcga EXCEPT !.finalizer = TRUE] ELSE obj

Stored ==
    IF base # mcga THEN mcga
    ELSE IF ~obj.finalizer THEN [mcga EXCEPT !.finalizer = TRUE]
    ELSE obj

Write ==
    /\ pc = "write"
    /\ mcga' = Stored
    /\ action' = IF base = mcga /\ Stored = mcga THEN Aged(1) ELSE action
    /\ Rest
    /\ UNCHANGED <<cache, matches, view, runs, faults, edits>>

WriteFails ==
    /\ pc \in {"write", "release"}
    /\ \/ Fault("write") /\ UNCHANGED action
       \/ Fault("backoff") /\ action' = Aged(1)
    /\ Rest
    /\ UNCHANGED <<mcga, cache, matches, view, runs, edits>>

-----------------------------------------------------------------------------
(* Finalize: finalizeMCGAct, and Release: the Update without finalizer.    *)

BugFinalized == Cluster \X InSpec(cache)

\* Every view with the label of the resource, of the spec or not.
Finalized == Views

Finalize ==
    /\ Starts("deleting")
    /\ \E refused \in SUBSET Finalized :
          /\ Refusal("delete", Finalized, refused)
          /\ view' = Without(Finalized \ refused)
    /\ obj' = [cache EXCEPT !.finalizer = FALSE]
    /\ base' = cache
    /\ pc' = "release"
    /\ UNCHANGED <<mcga, cache, matches, action, runs, edits>>

\* Listing the views fails: the pass returns the error.
FinalizeFails ==
    /\ Starts("deleting")
    /\ Fault("views")
    /\ UNCHANGED <<mcga, cache, pass, matches, objects, edits>>

BugRelease ==
    /\ pc = "release"
    /\ Rest
    /\ UNCHANGED <<mcga, cache, matches, objects, faults, edits>>

Release ==
    /\ pc = "release"
    /\ mcga' = IF base = mcga THEN [obj EXCEPT !.phase = "gone"] ELSE mcga
    /\ Rest
    /\ UNCHANGED <<cache, matches, objects, faults, edits>>

-----------------------------------------------------------------------------
(* The informer, the program's restart, the managed clusters and the users. *)

SyncCache ==
    /\ cache # mcga
    /\ cache' = mcga
    /\ UNCHANGED <<mcga, pass, matches, objects, faults, edits>>

\* The program may stay down for longer than an ended action stays.
Crash ==
    /\ Fault("crash")
    /\ cache' = mcga
    /\ action' = Aged(PassesInTime)
    /\ Rest
    /\ UNCHANGED <<mcga, matches, view, runs, edits>>

\* Only Apply looks at the objects, so they may as well change between passes.
ActionEnds(c, a, outcome) ==
    /\ pc = "idle"
    /\ action[c][a].phase = "running"
    /\ action' = [action EXCEPT ![c][a].phase = outcome]
    /\ UNCHANGED <<mcga, cache, pass, matches, view, runs, faults, edits>>

ActionExpires(c, a) ==
    /\ pc = "idle"
    /\ action[c][a].age = PassesInTime
    /\ action' = [action EXCEPT ![c][a] = NoAction]
    /\ UNCHANGED <<mcga, cache, pass, matches, view, runs, faults, edits>>

ViewReports(c, v, processing) ==
    /\ pc = "idle"
    /\ <<c, v>> \in Views
    /\ view[c][v].processing # processing
    /\ view' = [view EXCEPT ![c][v].processing = processing]
    /\ UNCHANGED <<mcga, cache, pass, matches, action, runs, faults, edits>>

EditSpec(old, spec) ==
    /\ mcga.phase = "live"
    /\ old = [actions |-> mcga.actions, views |-> mcga.views]
    /\ edits < MaxEdits /\ EventsLeft
    /\ edits' = edits + 1
    /\ mcga' = [mcga EXCEPT !.actions = spec.actions, !.views = spec.views]
    /\ runs' = [c \in Cluster |-> [a \in Action |->
          IF a \in spec.actions \ mcga.actions THEN 0 ELSE runs[c][a]]]
    /\ UNCHANGED <<cache, pass, matches, action, view, faults>>

\* Only the start of a pass looks at the selection.
Relabel(chosen) ==
    /\ pc = "idle"
    /\ edits < MaxEdits /\ EventsLeft
    /\ edits' = edits + 1
    /\ matches' = chosen
    /\ runs' = [c \in Cluster |->
          IF c \in chosen \ matches THEN [a \in Action |-> 0] ELSE runs[c]]
    /\ UNCHANGED <<mcga, cache, pass, action, view, faults>>

Delete ==
    /\ mcga.phase = "live"
    /\ mcga' = [mcga EXCEPT !.phase = IF mcga.finalizer THEN "deleting" ELSE "vanished"]
    /\ UNCHANGED <<cache, pass, matches, objects, faults, edits>>

-----------------------------------------------------------------------------

Controller ==
    \/ Select \/ PlacementFails \/ ListFails
    \/ ApplyNothing \/ Apply
    \/ RequestsFail \/ ActionsListFails \/ ViewsListFails
    \/ Write \/ WriteFails
    \/ Finalize \/ FinalizeFails \/ Release
    \/ SyncCache \/ Crash

ManagedClusters ==
    \E c \in Cluster :
        \/ \E a \in Action :
              \/ ActionExpires(c, a)
              \/ \E outcome \in {"done", "failed"} : ActionEnds(c, a, outcome)
        \/ \E v \in View, processing \in {"true", "false"} : ViewReports(c, v, processing)

Users ==
    \/ \E edit \in SpecEdits : EditSpec(edit[1], edit[2])
    \/ \E chosen \in SUBSET Cluster : Relabel(chosen)
    \/ Delete

Next == Controller \/ ManagedClusters \/ Users

Spec == Init /\ [][Next]_vars

(* A pass follows the last one and the watch delivers; the managed         *)
(* clusters and the users need not do anything.                            *)
Fairness ==
    /\ WF_vars(Select)
    /\ WF_vars(Finalize)
    /\ WF_vars(ApplyNothing \/ Apply \/ Write \/ Release)
    /\ WF_vars(SyncCache)

FairSpec == Spec /\ Fairness

-----------------------------------------------------------------------------
(* Safety                                                                  *)

Never(kinds) == \A kind \in kinds : faults[kind] = 0

\* An action is created on a cluster at most once for each time it is put
\* into the spec or its cluster joins: the names of its earlier runs have not
\* expired before the status says that it was applied, however often a pass
\* is repeated, reads a stale status or loses its own.  There are limits: a
\* crash that lasts, a Placement that is not found for a while, failures in a
\* row that take RequeueAfter, and a second failure to list the clusters, or
\* to list actions, give an action the time to expire.
RunsOnce ==
    (/\ Never({"crash", "placement", "backoff"})
     /\ faults["list"] <= 1 /\ faults["actions"] <= 1) =>
        \A c \in Cluster, a \in Action : runs[c][a] <= 1

\* A resource leaves through its finalizer only when none of its views is
\* left on any cluster: also those of a pass whose status was lost, and those
\* the spec does not have any more.  A Delete that was refused, which the
\* code logs and forgets, is the exception.
NothingLeftAfterDeletion ==
    (mcga.phase = "gone" /\ Never({"delete"})) => Views = {}

-----------------------------------------------------------------------------
(* Liveness                                                                *)

\* The faults that may let RequeueAfter pass with nothing reported.
Delays == SumFunctionOnSet(faults, {"list", "placement", "actions", "backoff"})

\* When all actions of the spec have succeeded on a cluster, the status says
\* so before they expire ("20sec as managedClusterActoin stays for 60sec",
\* managedclustergroupact_controller.go:63), also if RequeueAfter passes once
\* for nothing.
OutcomeReported ==
    \A c \in Cluster :
        (/\ mcga.phase = "live" /\ c \in matches /\ mcga.actions # {}
         /\ \A a \in mcga.actions : action[c][a].phase = "done" /\ action[c][a].age = 0) ~>
            \/ mcga.phase # "live" \/ c \notin matches
            \/ mcga.actions = {}
            \/ \E a \in mcga.actions : action[c][a].phase \in {"running", "failed"}
            \/ ~Never({"crash", "request"}) \/ Delays > 1
            \/ c \in mcga.listed /\ mcga.actionsStatus[c] = "ActionsDone"

\* An action that is added to the spec runs on the listed clusters, and all
\* actions run on a cluster that joins, unless one of that name is still
\* there or its creation fails.
EveryActionRuns ==
    \A c \in Cluster, a \in Action :
        (/\ mcga.phase = "live" /\ c \in matches /\ a \in mcga.actions
         /\ c \notin mcga.listed \/ a \notin mcga.appliedActions) ~>
            \/ mcga.phase # "live" \/ c \notin matches \/ a \notin mcga.actions
            \/ ~Never({"request"})
            \/ runs[c][a] > 0 \/ action[c][a].phase # "absent"

\* The views of a listed cluster follow the spec, whatever has failed: a new
\* one appears, one that is there and has been processed is updated, a removed
\* one goes.
ViewsFollow ==
    \A c \in Cluster, v \in View, version \in 0 .. 2 :
        (/\ mcga.phase = "live" /\ c \in mcga.listed \cap matches
         /\ mcga.views[v] = version) ~>
            \/ mcga.phase # "live" \/ c \notin matches \/ mcga.views[v] # version
            \/ view[c][v].version = version
            \/ version # 0 /\ <<c, v>> \in Views /\ view[c][v].processing = "absent"

\* A listed cluster that is no longer selected loses its views, when no Delete
\* is refused.
DeselectedCleared ==
    \A c \in Cluster, v \in View :
        (mcga.phase = "live" /\ c \in mcga.listed \ matches /\ v \in InSpec(mcga)) ~>
            \/ mcga.phase # "live" \/ c \in matches \/ v \notin InSpec(mcga)
            \/ ~Never({"delete"})
            \/ <<c, v>> \notin Views

\* A resource that is being deleted goes away, whatever fails before.
DeletionCompletes == mcga.phase = "deleting" ~> mcga.phase = "gone"

=============================================================================
