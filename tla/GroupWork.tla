----------------------------- MODULE GroupWork -----------------------------
(***************************************************************************)
(* The ManagedClusterGroupWork controller                                  *)
(* (controllers/work/managedclustergroupwork_controller.go) for one        *)
(* resource, with the API server, the informer cache of the resource, the  *)
(* work agents and the users who edit, relabel and delete.                 *)
(*                                                                         *)
(* A pass of Reconcile on a live resource is Select, Apply and Write, on a *)
(* working copy `obj'; on one that is being deleted, Finalize and Release. *)
(* The environment acts, and the program may crash, between any two steps. *)
(* A pass always asks for another one (RequeueAfter or an error), so an    *)
(* idle worker may start one at any time.                                  *)
(*                                                                         *)
(* A definition whose name starts with Bug is the definition after it with *)
(* a plausible mistake; nothing refers to it.                              *)
(***************************************************************************)
EXTENDS Naturals, FiniteSets

CONSTANTS
    Cluster,         \* the managed clusters
    InitialMatches,  \* the clusters the spec selects at first
    Reports,         \* the conditions an agent may report of a ManifestWork
    Faults,          \* the kinds of fault that may happen, once each
    MaxFaults,       \* bound: faults in a behaviour
    MaxEdits,        \* bound: changes of the spec
    MaxRelabels      \* bound: changes of the selection

Cond == {"absent", "false", "true"}

ASSUME ConstantsAssumption ==
    /\ InitialMatches \subseteq Cluster
    /\ Reports \subseteq [applied : Cond, available : Cond]
    /\ Faults \subseteq {"stale", "list", "placement", "works", "create",
                         "delete", "update", "write", "crash"}
    /\ MaxFaults \in Nat
    /\ MaxEdits \in Nat
    /\ MaxRelabels \in Nat

\* manifestState of a listed cluster; "New" is the empty string.
Fresh == {"New", "NotCreated"}
Reported == {"StatusNotFound", "NotApplied", "Applied", "NotAvailable", "Available"}
Recorded == {"Created"} \cup Reported
State == {"unlisted"} \cup Fresh \cup Recorded

\* The resource: "gone" once its finalizer was removed, "vanished" when it
\* was deleted before it had one.  A condition holds or it does not.
Resource ==
    [phase : {"live", "deleting", "gone", "vanished"},
     finalizer : BOOLEAN,
     version : 0 .. MaxEdits,
     list : [Cluster -> State],
     selected : BOOLEAN, created : BOOLEAN, applied : BOOLEAN, available : BOOLEAN]

NewResource ==
    [phase |-> "live", finalizer |-> FALSE, version |-> 0,
     list |-> [c \in Cluster |-> "unlisted"],
     selected |-> FALSE, created |-> FALSE, applied |-> FALSE, available |-> FALSE]

NoReport == [applied |-> "absent", available |-> "absent"]

\* The ManifestWork of a cluster; its agent's finalizer keeps it for a while.
Work ==
    [phase : {"absent", "present", "terminating"},
     version : 0 .. MaxEdits,
     conds : Reports \cup {NoReport}]

NoWork == [phase |-> "absent", version |-> 0, conds |-> NoReport]

VARIABLES
    mcg,      \* the resource the API server holds
    cache,    \* the resource in the informer cache
    obj,      \* the working copy of the pass
    base,     \* the resource the pass has read
    pc,       \* what the pass does next
    matches,  \* the clusters the spec selects
    work,     \* the ManifestWorks
    faults,   \* the faults that have happened
    relabels  \* the changes of the selection that have happened

vars == <<mcg, cache, obj, base, pc, matches, work, faults, relabels>>
pass == <<obj, base, pc>>

\* The resources, the passes and the ManifestWorks are in one of their states;
\* a cluster that was stored on the list has a state.
TypeOK ==
    /\ obj \in Resource
    /\ \A resource \in {mcg, cache, base} :
          /\ resource \in Resource
          /\ \A c \in Cluster : resource.list[c] # "New"
    /\ pc \in {"idle", "apply", "write", "release"}
    /\ matches \subseteq Cluster
    /\ work \in [Cluster -> Work]
    /\ faults \subseteq Faults
    /\ relabels \in 0 .. MaxRelabels

Init ==
    /\ mcg = NewResource
    /\ cache = NewResource
    /\ obj = NewResource
    /\ base = NewResource
    /\ pc = "idle"
    /\ matches = InitialMatches
    /\ work = [c \in Cluster |-> NoWork]
    /\ faults = {}
    /\ relabels = 0

\* A fault of that kind happens.
Fault(kind) ==
    /\ kind \in Faults \ faults
    /\ Cardinality(faults) < MaxFaults
    /\ faults' = faults \cup {kind}

\* The requests of a step that the API server refuses.
Refusal(kind, requests, refused) ==
    /\ refused \subseteq requests
    /\ IF refused = {} THEN UNCHANGED faults ELSE Fault(kind)

Rest ==
    /\ obj' = NewResource
    /\ base' = NewResource
    /\ pc' = "idle"

Terminated(works) ==
    [c \in Cluster |->
        IF c \in works /\ work[c].phase = "present"
        THEN [work[c] EXCEPT !.phase = "terminating"] ELSE work[c]]

-----------------------------------------------------------------------------
(* Select: r.Get, from the cache, and processSelectedCondition.            *)

Listed(list) == {c \in Cluster : list[c] # "unlisted"}

\* A pass starts; with "stale" among the faults, on what the cache still has.
Starts(phase) ==
    /\ pc = "idle"
    /\ cache.phase = phase
    /\ cache = mcg \/ "stale" \in Faults

Selected(list, chosen) ==
    [c \in Cluster |->
        CASE c \notin chosen -> "unlisted"
          [] c \in chosen /\ list[c] = "unlisted" -> "New"
          [] OTHER -> list[c]]

BugDeselect(chosen, refused) ==
    /\ Refusal("delete", Listed(cache.list) \ chosen, refused)
    /\ UNCHANGED work

\* The ManifestWork of a cluster that leaves the list is deleted; an error is
\* logged, and the cluster leaves all the same.
Deselect(chosen, refused) ==
    LET leaving == Listed(cache.list) \ chosen
    IN  /\ Refusal("delete", leaving, refused)
        /\ work' = Terminated(leaving \ refused)

SelectsTo(chosen) ==
    /\ Starts("live")
    /\ LET list == Selected(cache.list, chosen)
       IN  obj' = [cache EXCEPT !.list = list, !.selected = Listed(list) # {}]
    /\ base' = cache
    /\ pc' = "apply"
    /\ UNCHANGED <<mcg, cache, matches, relabels>>

Select ==
    /\ SelectsTo(matches)
    /\ \E refused \in SUBSET (Listed(cache.list) \ matches) : Deselect(matches, refused)

\* Get of the Placement fails (or it is not found): an empty Placement goes
\* on, which has no decisions and deselects every cluster.
PlacementFails ==
    /\ SelectsTo({})
    /\ Fault("placement")
    /\ work' = Terminated(Listed(cache.list))

\* Listing clusters or decisions fails: nothing is added, nothing deleted.
ListFails ==
    /\ SelectsTo(Listed(cache.list))
    /\ Fault("list")
    /\ UNCHANGED work

-----------------------------------------------------------------------------
(* Apply: processAppliedCondition.                                         *)

BugCreations(list) == {c \in Cluster : list[c] = "New"}

Creations(list) == {c \in Cluster : list[c] \in Fresh}

\* Create fails when a ManifestWork of that name exists, terminating or not.
Created(list, refused) ==
    {c \in Creations(list) \ refused : work[c].phase = "absent"}

\* The listed clusters with a state whose ManifestWork the list of works has;
\* `found' is whether listing the works succeeded.
Compared(list, found) ==
    {c \in Cluster : found /\ list[c] \in Recorded /\ work[c].phase = "present"}

BugOutdated(list, found) == {}

Outdated(list, found) ==
    {c \in Compared(list, found) : work[c].version # obj.version}

\* GetManifestWorkStatus, for an agent that reports Applied before Available.
ManifestState(conds) ==
    IF conds.applied = "false" THEN "NotApplied"
    ELSE CASE conds.available = "false" -> "NotAvailable"
           [] conds.available = "true" -> "Available"
           [] OTHER -> IF conds.applied = "true" THEN "Applied" ELSE "StatusNotFound"

BugApplied(list, created, found) ==
    [c \in Cluster |->
        CASE c \in created -> "Created"
          [] c \in Outdated(list, found) -> "Created"
          [] c \in Compared(list, found) \ Outdated(list, found) ->
                ManifestState(work[c].conds)
          [] OTHER -> list[c]]

Applied(list, created, found) ==
    [c \in Cluster |->
        CASE c \in created -> "Created"
          [] c \in Creations(list) \ created -> "NotCreated"
          [] c \in Outdated(list, found) -> "Created"
          [] c \in Compared(list, found) \ Outdated(list, found) ->
                ManifestState(work[c].conds)
          [] OTHER -> list[c]]

\* The flags: what the clusters whose status was read say, and the others do
\* not deny.
Flags(list, created, found) ==
    LET read == Compared(list, found) \ Outdated(list, found)
        states == {ManifestState(work[c].conds) : c \in read}
    IN  [created |-> Creations(list) = created,
         applied |-> Creations(list) = {} /\ states \subseteq {"Applied", "Available"},
         available |-> Creations(list) = {} /\ states \subseteq {"Available"}]

ApplyWith(found, refused, kept) ==
    LET list == obj.list
        created == Created(list, refused)
        flags == Flags(list, created, found)
    IN  /\ pc = "apply"
        /\ work' = [c \in Cluster |->
              CASE c \in created -> [NoWork EXCEPT !.phase = "present", !.version = obj.version]
                [] c \in Outdated(list, found) \ kept -> [work[c] EXCEPT !.version = obj.version]
                [] OTHER -> work[c]]
        /\ obj' = [obj EXCEPT !.list = Applied(list, created, found),
                              !.created = flags.created,
                              !.applied = flags.applied,
                              !.available = flags.available]
        /\ pc' = "write"
        /\ UNCHANGED <<mcg, cache, base, matches, relabels>>

Apply == ApplyWith(TRUE, {}, {}) /\ UNCHANGED faults

\* Some of the requests of the pass fail; the errors are logged.
CreateFails ==
    \E refused \in SUBSET Creations(obj.list) \ {{}} :
        ApplyWith(TRUE, refused, {}) /\ Fault("create")

UpdateFails ==
    \E kept \in SUBSET Outdated(obj.list, TRUE) \ {{}} :
        ApplyWith(TRUE, {}, kept) /\ Fault("update")

WorksListFails == ApplyWith(FALSE, {}, {}) /\ Fault("works")

-----------------------------------------------------------------------------
(* Write: the finalizer is added with r.Update, which drops the status (a  *)
(* subresource); a resource that has it gets r.Status().Update.  Both are  *)
(* refused when the resource read is outdated.                             *)

BugStored == IF ~obj.finalizer THEN [mcg EXCEPT !.finalizer = TRUE] ELSE obj

Stored ==
    IF base # mcg THEN mcg
    ELSE IF ~obj.finalizer THEN [mcg EXCEPT !.finalizer = TRUE]
    ELSE obj

Write ==
    /\ pc = "write"
    /\ mcg' = Stored
    /\ Rest
    /\ UNCHANGED <<cache, matches, work, faults, relabels>>

WriteFails ==
    /\ pc \in {"write", "release"}
    /\ Fault("write")
    /\ Rest
    /\ UNCHANGED <<mcg, cache, matches, work, relabels>>

-----------------------------------------------------------------------------
(* Finalize: finalizeMcgWork, and Release: the Update without finalizer.   *)

BugFinalize ==
    /\ Starts("deleting")
    /\ \E refused \in SUBSET Cluster :
          /\ Refusal("delete", Listed(cache.list), refused)
          /\ work' = Terminated(Listed(cache.list) \ refused)
    /\ obj' = [cache EXCEPT !.finalizer = FALSE]
    /\ base' = cache
    /\ pc' = "release"
    /\ UNCHANGED <<mcg, cache, matches, relabels>>

\* Every work with the label of the resource is deleted, listed or not; an
\* error of Delete is logged.
Finalize ==
    /\ Starts("deleting")
    /\ \E refused \in SUBSET Cluster :
          /\ Refusal("delete", {c \in Cluster : work[c].phase # "absent"}, refused)
          /\ work' = Terminated(Cluster \ refused)
    /\ obj' = [cache EXCEPT !.finalizer = FALSE]
    /\ base' = cache
    /\ pc' = "release"
    /\ UNCHANGED <<mcg, cache, matches, relabels>>

\* Listing the works fails: the pass returns the error.
FinalizeFails ==
    /\ Starts("deleting")
    /\ Fault("works")
    /\ UNCHANGED <<mcg, cache, pass, matches, work, relabels>>

BugRelease ==
    /\ pc = "release"
    /\ Rest
    /\ UNCHANGED <<mcg, cache, matches, work, faults, relabels>>

Release ==
    /\ pc = "release"
    /\ mcg' = IF base = mcg THEN [obj EXCEPT !.phase = "gone"] ELSE mcg
    /\ Rest
    /\ UNCHANGED <<cache, matches, work, faults, relabels>>

-----------------------------------------------------------------------------
(* The informer, the program's restart, the agents and the users.          *)

SyncCache ==
    /\ cache # mcg
    /\ cache' = mcg
    /\ UNCHANGED <<mcg, pass, matches, work, faults, relabels>>

Crash ==
    /\ Fault("crash")
    /\ cache' = mcg
    /\ Rest
    /\ UNCHANGED <<mcg, matches, work, relabels>>

\* Only Apply looks at a report, so it may as well come between two passes.
AgentReports(c, report) ==
    /\ pc = "idle"
    /\ work[c].phase = "present"
    /\ work[c].conds # report
    /\ work' = [work EXCEPT ![c].conds = report]
    /\ UNCHANGED <<mcg, cache, pass, matches, faults, relabels>>

\* The agent has removed what the work deployed, and drops its finalizer.
AgentRemoves(c) ==
    /\ work[c].phase = "terminating"
    /\ work' = [work EXCEPT ![c] = NoWork]
    /\ UNCHANGED <<mcg, cache, pass, matches, faults, relabels>>

EditSpec ==
    /\ mcg.phase = "live"
    /\ mcg.version < MaxEdits
    /\ mcg' = [mcg EXCEPT !.version = @ + 1]
    /\ UNCHANGED <<cache, pass, matches, work, faults, relabels>>

\* Only the start of a pass looks at the selection, so it may as well change
\* between two passes.
Relabel(chosen) ==
    /\ pc = "idle"
    /\ relabels < MaxRelabels
    /\ relabels' = relabels + 1
    /\ matches' = chosen
    /\ UNCHANGED <<mcg, cache, pass, work, faults>>

Delete ==
    /\ mcg.phase = "live"
    /\ mcg' = [mcg EXCEPT !.phase = IF mcg.finalizer THEN "deleting" ELSE "vanished"]
    /\ UNCHANGED <<cache, pass, matches, work, faults, relabels>>

-----------------------------------------------------------------------------

Controller ==
    \/ Select \/ PlacementFails \/ ListFails
    \/ Apply \/ CreateFails \/ UpdateFails \/ WorksListFails
    \/ Write \/ WriteFails
    \/ Finalize \/ FinalizeFails \/ Release
    \/ SyncCache \/ Crash

Agents ==
    \E c \in Cluster :
        AgentRemoves(c) \/ \E report \in Reports : AgentReports(c, report)

Users == EditSpec \/ Delete \/ \E chosen \in SUBSET Cluster : Relabel(chosen)

Next == Controller \/ Agents \/ Users

Spec == Init /\ [][Next]_vars

(* A pass follows 20 s after the last one, the watch delivers, and an      *)
(* agent clears a work that is deleted; nobody has to report or to edit.   *)
Fairness ==
    /\ WF_vars(Select)
    /\ WF_vars(Finalize)
    /\ WF_vars(Apply \/ Write \/ Release)
    /\ WF_vars(SyncCache)
    /\ \A c \in Cluster : WF_vars(AgentRemoves(c))

FairSpec == Spec /\ Fairness

-----------------------------------------------------------------------------
(* Safety                                                                  *)

\* A resource leaves through its finalizer only when every ManifestWork with
\* its label is gone or being removed: also the works of the pass whose
\* status was lost, of a cluster that has left the list, of a crashed pass
\* (DeleteManifestWorks deletes by label).  A Delete that was refused, which
\* the code logs and forgets, is the exception.
NothingLeftAfterDeletion ==
    (mcg.phase = "gone" /\ "delete" \notin faults) =>
        \A c \in Cluster : work[c].phase # "present"

\* A cluster whose work is recorded as created is never recorded as not
\* created again while it stays on the list: no stale or repeated pass
\* overwrites what a later one has found.
CreatedIsKept ==
    [][\A c \in Cluster :
          mcg.list[c] \in Recorded => mcg'.list[c] \in Recorded \cup {"unlisted"}]_vars

-----------------------------------------------------------------------------
(* Liveness                                                                *)

\* A resource that is being deleted goes away, whatever fails once.
DeletionCompletes == mcg.phase = "deleting" ~> mcg.phase = "gone"

\* A listed cluster that is no longer selected loses its ManifestWork, when
\* no Delete is refused.
DeselectedCleared ==
    \A c \in Cluster :
        (mcg.phase = "live" /\ c \in Listed(mcg.list) \ matches) ~>
            \/ mcg.phase # "live"
            \/ c \in matches
            \/ "delete" \in faults
            \/ c \notin Listed(mcg.list) /\ work[c].phase # "present"

\* A cluster that joins the selection gets a ManifestWork, also when Create
\* fails first because an earlier work of that name is still terminating.
NewlySelectedServed ==
    \A c \in Cluster :
        (mcg.phase = "live" /\ c \in matches \ Listed(mcg.list)) ~>
            mcg.phase # "live" \/ c \notin matches \/ work[c].phase = "present"

\* A work the list records gets the spec of the resource, also when an update
\* fails, and what its agent reports of it reaches the status.
RecordFollowsWork ==
    \A c \in Cluster, report \in Reports :
        (mcg.phase = "live" /\ mcg.list[c] \in Recorded /\ work[c].conds = report) ~>
            \/ mcg.phase # "live"
            \/ work[c].conds # report
            \/ mcg.list[c] = ManifestState(report) /\ work[c].version = mcg.version
            \/ c \notin matches

=============================================================================
