---------------------- MODULE ManagedClustersUpgrade ----------------------
(***************************************************************************)
(* The ManagedClustersUpgrade controller                                   *)
(* (controllers/cluster/managedclustersupgrade_controller.go) for one      *)
(* ManagedClustersUpgrade resource, with the API server it writes to, the  *)
(* informer cache it reads from, its work queue, the work agents that      *)
(* apply the ManifestWorks and the managed clusters that upgrade.          *)
(*                                                                         *)
(* A pass of Reconcile is five steps on a working copy `obj' of the        *)
(* resource: Fetch, Apply, Observe, Settle and Write.  The environment     *)
(* acts, and the program may crash, between any two of them.               *)
(*                                                                         *)
(* A definition whose name starts with Bug is the definition after it with *)
(* a plausible mistake; nothing refers to it.  It shows, put in the place  *)
(* of that definition, that a property would notice the mistake.           *)
(***************************************************************************)
EXTENDS ClusterStatusList

CONSTANTS
    MaxConcurrency,  \* spec.upgradeStrategy.maxConcurrency
    WantVersion,     \* spec.clusterVersion is given
    WantOperators,   \* spec.ocpOperators selects at least one operator
    Identified,      \* the clusters that have a clusterID label
    InitialMain,     \* the clusters the placement of the spec matches
    InitialCanary,   \* the clusters the placement of the canaries matches
    JobOutcomes,     \* how an installplan-approver job may end
    Expiring,        \* bound: the kinds of ManifestWork whose timeout may pass
    Editable,        \* the placements that managed clusters join and leave
    Faults,          \* the kinds of fault that may happen
    MaxFaults,       \* bound: faults in a behaviour
    MaxEdits         \* bound: changes of the selection in a behaviour

ASSUME ConstantsAssumption ==
    /\ MaxConcurrency \in Nat
    /\ WantVersion \in BOOLEAN
    /\ WantOperators \in BOOLEAN
    /\ Identified \subseteq Cluster
    /\ InitialMain \subseteq Cluster
    /\ InitialCanary \subseteq Cluster
    /\ JobOutcomes \subseteq {"completed", "failed", "failedAgain"}
    /\ Expiring \subseteq {"upgrade", "operators"}
    /\ Faults \subseteq {"stale", "list", "create", "delete", "update", "crash"}
    /\ Editable \subseteq {"main", "canary"}
    /\ MaxFaults \in Nat
    /\ MaxEdits \in Nat

Upgradable == IF WantVersion THEN Identified ELSE {}

Kind == {"upgrade", "operators"}
Part == Cluster \X Kind
Field == {"main", "canary"}

Cond == {"absent", "false", "true"}

\* status.conditions; `finished' is the reason UpgradeComplete of InProgress.
Conditions ==
    [applied : Cond, inProgress : Cond, finished : BOOLEAN, complete : Cond,
     canaryComplete : Cond, failed : Cond, canaryFailed : Cond]

NoConditions ==
    [applied |-> "absent", inProgress |-> "absent", finished |-> FALSE,
     complete |-> "absent", canaryComplete |-> "absent", failed |-> "absent",
     canaryFailed |-> "absent"]

\* status of a ManagedClustersUpgrade
Status == [main : ClusterList, canary : ClusterList, conds : Conditions]

NoStatus == [main |-> NoClusters, canary |-> NoClusters, conds |-> NoConditions]

\* What a status feedback tells: of the requested version ("nothing" stands
\* for another version as well), or of the job ("failedAgain": a count > 1).
Feedback == {"nothing", "partial", "completed", "failed", "failedAgain"}

\* A ManifestWork: sent to the agent, applied by it on the managed cluster, or
\* reported as applied (condition Available), which is what the controller
\* sees; whether its timeout has passed; the feedback the agent has reported.
Work == [phase : {"absent", "sent", "applied", "available"},
         expired : BOOLEAN, seen : Feedback]

NoWork == [phase |-> "absent", expired |-> FALSE, seen |-> "nothing"]

JobEnd == {"completed", "failed", "failedAgain"}

\* The managed cluster: its ClusterVersion, the job on it that approves the
\* install plans, and whether such a job has succeeded on it.
Managed ==
    [version : {"other", "asked", "partial", "completed"},
     job : {"none", "running"} \cup JobEnd, approved : BOOLEAN]

VARIABLES
    cr,        \* the status the API server holds
    cache,     \* the status in the informer cache
    obj,       \* the working copy of the pass
    base,      \* the status the pass has read
    pc,        \* what the pass does next
    requeue,   \* the pass ends with a RequeueAfter
    wake,      \* what will start the next pass: a watch event, the timer
    matches,   \* the clusters each placement selects
    work,      \* the ManifestWorks
    managed,   \* the managed clusters
    faults, edits

vars == <<cr, cache, obj, base, pc, requeue, wake, matches, work, managed, faults, edits>>
reconciler == <<obj, base, pc, requeue>>
environment == <<matches, work, managed>>
bounds == <<faults, edits>>

\* Every status is one the resource type allows, and the passes, the timers
\* and the ManifestWorks are in one of their states.
TypeOK ==
    /\ cr \in Status
    /\ cache \in Status
    /\ obj \in Status
    /\ base \in Status
    /\ pc \in {"idle", "apply", "observe", "settle", "write", "panicked"}
    /\ requeue \in BOOLEAN
    /\ wake \subseteq {"event", "timer"}
    /\ matches \in [Field -> SUBSET Cluster]
    /\ work \in [Cluster -> [Kind -> Work]]
    /\ managed \in [Cluster -> Managed]
    /\ faults \in 0 .. MaxFaults
    /\ edits \in 0 .. MaxEdits

Init ==
    /\ cr = NoStatus
    /\ cache = NoStatus
    /\ obj = NoStatus
    /\ base = NoStatus
    /\ pc = "idle"
    /\ requeue = FALSE
    /\ wake = {"event"}
    /\ matches = [field \in Field |->
                     IF field = "main" THEN InitialMain ELSE InitialCanary]
    /\ work = [c \in Cluster |-> [k \in Kind |-> NoWork]]
    /\ managed = [c \in Cluster |->
                     [version |-> "other", job |-> "none", approved |-> FALSE]]
    /\ faults = 0
    /\ edits = 0

\* A fault of one of the kinds given happens.
Fault(kinds) ==
    /\ kinds \cap Faults # {}
    /\ faults < MaxFaults
    /\ faults' = faults + 1

\* The requests of a pass that the API server refuses.
Refusal(kind, requests, refused) ==
    /\ refused \subseteq requests
    /\ IF refused = {} THEN UNCHANGED faults ELSE Fault({kind})

\* The reconciler between two passes.
Rest ==
    /\ obj' = NoStatus
    /\ base' = NoStatus
    /\ pc' = "idle"
    /\ requeue' = FALSE

-----------------------------------------------------------------------------
(* Fetch: r.Get, from the cache, and processSelectedCondition.             *)

\* An idle worker takes the resource from the work queue.  With the fault
\* "stale" (which MaxFaults does not bound) the cache may lag behind.
Wakes(w) ==
    /\ pc = "idle"
    /\ w \in wake
    /\ cache = cr \/ "stale" \in Faults

Fetch(w) ==
    /\ Wakes(w)
    /\ wake' = wake \ {w}
    /\ ~RemovalPanics(cache.canary, matches["canary"])
    /\ ~RemovalPanics(cache.main, matches["main"])
    /\ \E canary \in Selections(cache.canary, matches["canary"]),
          main \in Selections(cache.main, matches["main"]) :
          obj' = [cache EXCEPT !.canary = canary, !.main = main]
    /\ base' = cache
    /\ pc' = "apply"
    /\ requeue' = TRUE
    /\ UNCHANGED <<cr, cache, environment, bounds>>

\* getClustersList slices beyond the end of the list; the program ends.
SelectionPanics(w) ==
    /\ Wakes(w)
    /\ \/ RemovalPanics(cache.canary, matches["canary"])
       \/ RemovalPanics(cache.main, matches["main"])
    /\ pc' = "panicked"
    /\ wake' = {}
    /\ UNCHANGED <<cr, cache, obj, base, requeue, environment, bounds>>

\* Listing the managed clusters fails: the pass returns without a write.
ListFails(w) ==
    /\ Wakes(w)
    /\ Fault({"list"})
    /\ wake' = (wake \ {w}) \cup {"timer"}
    /\ UNCHANGED <<cr, cache, reconciler, environment, edits>>

-----------------------------------------------------------------------------
(* Apply: processAppliedCondition and the condition Applied.               *)

\* The canaries are rolled out first, then the clusters of the placement.
BugCanaryConditionExists(status) ==
    Listed(status.canary) # {} /\ status.conds.canaryComplete = "absent"

RollsCanaries(status) ==
    /\ Listed(status.canary) # {}
    /\ status.conds.canaryComplete # "true"

Rolling(status) == IF RollsCanaries(status) THEN status.canary ELSE status.main

Rolled(status, list) ==
    IF RollsCanaries(status) THEN [status EXCEPT !.canary = list]
    ELSE [status EXCEPT !.main = list]

OperatorsEnded(slot) == slot.ops \in {"Complete", "Failed"}

StartsUpgrade(list, c) ==
    /\ ~OperatorsEnded(list[c])
    /\ list[c].up = "NotStarted"
    /\ c \in Upgradable

BugOperatorsBeforeComplete(list, c) ==
    /\ ~OperatorsEnded(list[c])
    /\ ~StartsUpgrade(list, c)
    /\ list[c].ops = "NotStarted"
    /\ list[c].up # "Failed"

StartsOperators(list, c) ==
    /\ ~OperatorsEnded(list[c])
    /\ ~StartsUpgrade(list, c)
    /\ list[c].ops = "NotStarted"
    /\ list[c].up \in {"Complete", "NotStarted"}

BugCountsUpgradesOnly(list, c) ==
    list[c].up \in {"NotStarted", "Initialized", "Partial"}

BugCountsEveryCluster(list, c) == TRUE

\* The clusters that raise batchCount, whatever becomes of their requests.
Counts(list, c) ==
    /\ ~OperatorsEnded(list[c])
    /\ StartsOperators(list, c) => WantOperators

BugBatchOneMore(list) ==
    {c \in Listed(list) :
        Cardinality({d \in Before(list, c) : Counts(list, d)}) <= MaxConcurrency}

\* The clusters the loop reaches with batchCount < MaxConcurrency.
Batch(list) ==
    {c \in Listed(list) :
        Cardinality({d \in Before(list, c) : Counts(list, d)}) < MaxConcurrency}

Creations(list) ==
    {p \in Batch(list) \X Kind :
        IF p[2] = "upgrade" THEN StartsUpgrade(list, p[1])
        ELSE StartsOperators(list, p[1]) /\ WantOperators}

\* A deleted ManifestWork keeps its name until the agent has removed what it
\* applied: the job.  (The ClusterVersion is orphaned.)
NameTaken(c, k) ==
    \/ work[c][k].phase # "absent"
    \/ k = "operators" /\ managed[c].job # "none"

\* Create fails when a ManifestWork of that name exists already.
Created(list, refused) ==
    {p \in Creations(list) \ refused : ~NameTaken(p[1], p[2])}

Started(list, created) ==
    [c \in Cluster |->
        [list[c] EXCEPT
            !.up = IF <<c, "upgrade">> \in created THEN "Initialized" ELSE @,
            !.ops = IF <<c, "operators">> \in created THEN "Initialized" ELSE @]]

AllCreated(list, created) ==
    /\ Listed(list) # {}
    /\ \A c \in Batch(list) :
          /\ StartsUpgrade(list, c) => <<c, "upgrade">> \in created
          /\ StartsOperators(list, c) => WantOperators

Apply ==
    LET list == Rolling(obj)
    IN  /\ pc = "apply"
        /\ \E refused \in SUBSET Creations(list) :
              LET created == Created(list, refused)
                  applied == IF AllCreated(list, created) THEN "true" ELSE "false"
              IN  /\ Refusal("create", Creations(list), refused)
                  /\ work' = [c \in Cluster |-> [k \in Kind |->
                        IF <<c, k>> \in created
                        THEN [NoWork EXCEPT !.phase = "sent"] ELSE work[c][k]]]
                  /\ obj' = [Rolled(obj, Started(list, created)) EXCEPT
                                 !.conds.applied = applied]
        /\ pc' = "observe"
        /\ UNCHANGED <<cr, cache, base, requeue, wake, matches, managed, edits>>

-----------------------------------------------------------------------------
(* Observe: processInProgressCondition and the condition InProgress.       *)

Exists(p) == work[p[1]][p[2]].phase # "absent"
Available(p) == work[p[1]][p[2]].phase = "available"

BugRawState(up, seen) == IF seen = "nothing" THEN up ELSE seen

BugAnyVersion(up, seen) == IF seen = "partial" THEN "Partial" ELSE "Complete"

\* The state the feedback gives an upgrade that is in state up; a feedback
\* about another version is ignored.
Reported(up, seen) ==
    CASE seen = "partial" -> "Partial"
      [] seen = "completed" -> "Complete"
      [] OTHER -> up

BugNoTimeoutBeforeStart(up, mw) ==
    LET reported == IF up = "Partial" \/ mw.phase = "available"
                    THEN Reported(up, mw.seen) ELSE up
    IN  IF up \notin {"Initialized", "Partial"} \/ mw.phase = "absent" THEN up
        ELSE IF mw.expired /\ up = "Partial" /\ reported # "Complete" THEN "Failed"
        ELSE reported

ObservedUpgrade(up, mw) ==
    LET reported == IF up = "Partial" \/ mw.phase = "available"
                    THEN Reported(up, mw.seen) ELSE up
        late == IF up = "Partial" THEN reported # "Complete"
                ELSE reported = "Initialized"
    IN  IF up \notin {"Initialized", "Partial"} \/ mw.phase = "absent" THEN up
        ELSE IF mw.expired /\ late THEN "Failed" ELSE reported

\* The condition Available of a ManifestWork that exists is not true (yet).
NotAvailable(mw) == mw.phase \in {"sent", "applied"}

BugNoFailedJob(ops, mw) ==
    CASE ops = "Initialized" /\ mw.phase = "available" -> "Partial"
      [] ops = "Initialized" /\ NotAvailable(mw) /\ mw.expired -> "Failed"
      [] ops = "Partial" /\ mw.seen = "completed" -> "Complete"
      [] OTHER -> ops

\* Only the count 1 is a valid value of a job's feedback.
ObservedOperators(ops, mw) ==
    CASE ops = "Initialized" /\ mw.phase = "available" -> "Partial"
      [] ops = "Initialized" /\ NotAvailable(mw) /\ mw.expired -> "Failed"
      [] ops = "Partial" /\ mw.seen = "completed" -> "Complete"
      [] ops = "Partial" /\ mw.seen = "failed" -> "Failed"
      [] OTHER -> ops

\* The `continue' of an upgrade in progress whose ManifestWork is not found.
Unobservable(slot, c) == slot.up = "Partial" /\ ~Exists(<<c, "upgrade">>)

Observed(list) ==
    [c \in Cluster |->
        [list[c] EXCEPT
            !.up = ObservedUpgrade(@, work[c]["upgrade"]),
            !.ops = IF Unobservable(list[c], c) THEN @
                    ELSE ObservedOperators(@, work[c]["operators"])]]

InProgress(list) ==
    \E c \in Listed(list) :
        \/ list[c].up = "Initialized" /\ Available(<<c, "upgrade">>)
        \/ list[c].up = "Partial"
        \/ list[c].ops = "Initialized" /\ Available(<<c, "operators">>)
        \/ list[c].ops = "Partial" /\ ~Unobservable(list[c], c)

\* countComplete = len(clusters), on the states the pass finds.
CountedComplete(list, c) ==
    \/ list[c].up = "Complete" /\ ~WantOperators
    \/ list[c].ops = "Complete"

AllCounted(list) ==
    Listed(list) # {} /\ \A c \in Listed(list) : CountedComplete(list, c)

Observes(conds) ==
    \/ conds.inProgress = "true"
    \/ conds.inProgress = "false" /\ ~conds.finished

InProgressAfter(conds, list) ==
    CASE conds.inProgress = "absent" /\ conds.applied = "true" -> "false"
      [] Observes(conds) -> IF InProgress(list) THEN "true" ELSE "false"
      [] OTHER -> conds.inProgress

Observe ==
    LET list == Rolling(obj)
    IN  /\ pc = "observe"
        /\ obj' =
              [Rolled(obj, IF Observes(obj.conds) THEN Observed(list) ELSE list) EXCEPT
                  !.conds.inProgress = InProgressAfter(obj.conds, list),
                  !.conds.finished =
                      \/ @
                      \/ /\ obj.conds.inProgress = "true"
                         /\ AllCounted(list)
                         /\ ~RollsCanaries(obj)]
        /\ pc' = "settle"
        /\ UNCHANGED <<cr, cache, base, requeue, wake, environment, bounds>>

-----------------------------------------------------------------------------
(* Settle: the conditions Complete, CanaryComplete, Failed, CanaryFailed,  *)
(* and the ManifestWorks processCompleteCondition and                      *)
(* processFailedCondition delete on the way.                               *)

PartsIn(list, state) ==
    {p \in Listed(list) \X Kind :
        state = IF p[2] = "upgrade" THEN list[p[1]].up ELSE list[p[1]].ops}

BugCompleteWithoutOperators(list) ==
    \A c \in Listed(list) : list[c].up = "Complete"

CompleteAll(list) ==
    \A c \in Listed(list) :
        /\ list[c].up = "Complete" \/ (list[c].up = "NotStarted" /\ ~WantVersion)
        /\ list[c].ops = "Complete" \/ (list[c].ops = "NotStarted" /\ ~WantOperators)

FailedClusters(list) ==
    {c \in Listed(list) : list[c].up = "Failed" \/ list[c].ops = "Failed"}

AllFailed(list) ==
    FailedClusters(list) # {} /\ FailedClusters(list) = Listed(list)

\* Complete (of the list main) and CanaryComplete (of the list canary): the
\* condition is created when the upgrade is in progress, and checked later.
CompleteAfter(cond, list, create) ==
    CASE cond = "absent" -> IF create THEN "false" ELSE "absent"
      [] cond = "false" -> IF CompleteAll(list) THEN "true" ELSE "false"
      [] cond = "true" -> "true"

\* Failed and CanaryFailed: created once a cluster has failed, never reset.
FailedAfter(cond, list, complete) ==
    IF cond = "absent" /\ complete = "false" /\ FailedClusters(list) # {}
    THEN "true" ELSE cond

ChecksFailed(cond, complete) == cond # "absent" \/ complete = "false"

ConditionsAfter(status) ==
    LET conds == status.conds
        ongoing == conds.inProgress = "true"
        complete == CompleteAfter(conds.complete, status.main, ongoing)
        canaryComplete ==
            CompleteAfter(conds.canaryComplete, status.canary,
                          ongoing /\ Listed(status.canary) # {})
    IN  [conds EXCEPT
            !.complete = complete,
            !.canaryComplete = canaryComplete,
            !.failed = FailedAfter(@, status.main, complete),
            !.canaryFailed = FailedAfter(@, status.canary, canaryComplete)]

BugDeletesUpgradesOnly(status, after) ==
    {p \in PartsIn(status.main, "Complete") \cup PartsIn(status.canary, "Complete") :
        p[2] = "upgrade"}

Deletions(status, after) ==
    UNION {IF status.conds.complete = "false"
           THEN PartsIn(status.main, "Complete") ELSE {},
           IF status.conds.canaryComplete = "false"
           THEN PartsIn(status.canary, "Complete") ELSE {},
           IF ChecksFailed(status.conds.failed, after.complete)
           THEN PartsIn(status.main, "Failed") ELSE {},
           IF ChecksFailed(status.conds.canaryFailed, after.canaryComplete)
           THEN PartsIn(status.canary, "Failed") ELSE {}}

BugFinalWhenFailed(status) ==
    status.conds.failed # "absent" /\ AllFailed(status.main)

BugFinalWhenAnyFailed(status) ==
    \/ status.conds.complete = "true"
    \/ status.conds.failed # "absent"
    \/ status.conds.canaryFailed # "absent"

\* The pass returns without a RequeueAfter.
Final(status) ==
    \/ status.conds.complete = "true"
    \/ status.conds.failed # "absent" /\ AllFailed(status.main)
    \/ status.conds.canaryFailed # "absent" /\ AllFailed(status.canary)

\* An error of Delete is logged and forgotten.
Settle ==
    LET after == ConditionsAfter(obj)
        deletions == Deletions(obj, after)
    IN  /\ pc = "settle"
        /\ \E refused \in SUBSET deletions :
              /\ Refusal("delete", deletions, refused)
              /\ work' = [c \in Cluster |-> [k \in Kind |->
                    IF <<c, k>> \in deletions \ refused
                    THEN NoWork ELSE work[c][k]]]
        /\ obj' = [obj EXCEPT !.conds = after]
        /\ requeue' = ~Final(obj)
        /\ pc' = "write"
        /\ UNCHANGED <<cr, cache, base, wake, matches, managed, edits>>

-----------------------------------------------------------------------------
(* Write: r.Status().Update, which fails when the status read is outdated. *)

EndPass ==
    /\ wake' = IF requeue THEN wake \cup {"timer"} ELSE wake
    /\ Rest
    /\ UNCHANGED <<cache, environment, edits>>

Write ==
    /\ pc = "write"
    /\ cr' = IF base = cr THEN obj ELSE cr
    /\ UNCHANGED faults
    /\ EndPass

\* The error is logged; the result of the pass stays.
WriteFails ==
    /\ pc = "write"
    /\ Fault({"update"})
    /\ UNCHANGED cr
    /\ EndPass

\* The watch of the cache delivers the current resource, and an event.
SyncCache ==
    /\ cache # cr
    /\ pc # "panicked"
    /\ cache' = cr
    /\ wake' = wake \cup {"event"}
    /\ UNCHANGED <<cr, reconciler, environment, bounds>>

\* The program starts again: the cache is filled and the work queue holds
\* the resource.
Reboot ==
    /\ cache' = cr
    /\ wake' = {"event"}
    /\ Rest
    /\ UNCHANGED <<cr, environment, edits>>

Crash == pc # "panicked" /\ Fault({"crash"}) /\ Reboot

Restart == pc = "panicked" /\ UNCHANGED faults /\ Reboot

-----------------------------------------------------------------------------
(* The work agents and the managed clusters.                               *)

\* The manifests are applied on the managed cluster: the upgrade is asked for,
\* the job is started.  The hub does not know it yet.
AgentApplies(c, k) ==
    /\ work[c][k].phase = "sent"
    /\ work' = [work EXCEPT ![c][k].phase = "applied"]
    /\ managed' =
          [managed EXCEPT
              ![c].version = IF k = "upgrade" /\ @ = "other" THEN "asked" ELSE @,
              ![c].job = IF k = "operators" THEN "running" ELSE @]
    /\ UNCHANGED <<cr, cache, reconciler, wake, matches, bounds>>

\* The condition Available is reported.
AgentReportsApplied(c, k) ==
    /\ work[c][k].phase = "applied"
    /\ work' = [work EXCEPT ![c][k].phase = "available"]
    /\ UNCHANGED <<cr, cache, reconciler, wake, matches, managed, bounds>>

\* An upgrade that was asked for goes on, also when the ManifestWork is deleted.
ClusterAdvances(c) ==
    /\ managed[c].version \in {"asked", "partial"}
    /\ managed' = [managed EXCEPT ![c].version =
                      IF @ = "asked" THEN "partial" ELSE "completed"]
    /\ UNCHANGED <<cr, cache, reconciler, wake, matches, work, bounds>>

\* So does a job, until the agent removes it.
JobEnds(c, outcome) ==
    /\ managed[c].job = "running"
    /\ managed' = [managed EXCEPT ![c].job = outcome,
                                  ![c].approved = @ \/ outcome = "completed"]
    /\ UNCHANGED <<cr, cache, reconciler, wake, matches, work, bounds>>

\* The value the feedback rules of a ManifestWork have to report.
ToReport(c, k) ==
    CASE k = "upgrade" /\ managed[c].version \in {"partial", "completed"}
             -> managed[c].version
      [] k = "operators" /\ managed[c].job \in JobEnd -> managed[c].job
      [] OTHER -> "nothing"

AgentReports(c, k) ==
    /\ work[c][k].phase = "available"
    /\ ToReport(c, k) \notin {"nothing", work[c][k].seen}
    /\ work' = [work EXCEPT ![c][k].seen = ToReport(c, k)]
    /\ UNCHANGED <<cr, cache, reconciler, wake, matches, managed, bounds>>

\* The agent removes what a deleted ManifestWork has applied: the job, whether
\* or not it is still running (DeleteOption Foreground).
AgentRemoves(c) ==
    /\ work[c]["operators"].phase = "absent"
    /\ managed[c].job # "none"
    /\ managed' = [managed EXCEPT ![c].job = "none"]
    /\ UNCHANGED <<cr, cache, reconciler, wake, matches, work, bounds>>

\* The timeout, counted from the creation of the ManifestWork, passes.  It is
\* longer than a pass: a work does not expire in the pass that creates it.
Expire(c, k) ==
    /\ k \in Expiring
    /\ pc = "idle"
    /\ work[c][k].phase # "absent"
    /\ ~work[c][k].expired
    /\ work' = [work EXCEPT ![c][k].expired = TRUE]
    /\ UNCHANGED <<cr, cache, reconciler, wake, matches, managed, bounds>>

\* Managed clusters are relabelled, join or leave.  Only Fetch looks at the
\* selection, so it may as well change between two passes.
Relabel(field, chosen) ==
    /\ pc = "idle"
    /\ edits < MaxEdits
    /\ edits' = edits + 1
    /\ matches' = [matches EXCEPT ![field] = chosen]
    /\ UNCHANGED <<cr, cache, reconciler, wake, work, managed, faults>>

-----------------------------------------------------------------------------

Pass == Apply \/ Observe \/ Settle \/ Write

Reconciler ==
    \/ \E w \in wake : Fetch(w) \/ SelectionPanics(w) \/ ListFails(w)
    \/ Pass
    \/ WriteFails
    \/ SyncCache
    \/ Crash
    \/ Restart

ClusterStep(c) ==
    \/ \E k \in Kind :
          AgentApplies(c, k) \/ AgentReportsApplied(c, k) \/ AgentReports(c, k)
    \/ ClusterAdvances(c)
    \/ \E outcome \in JobOutcomes : JobEnds(c, outcome)
    \/ AgentRemoves(c)

Agents == \E c \in Cluster : ClusterStep(c)

Next ==
    \/ Reconciler
    \/ Agents
    \/ \E c \in Cluster, k \in Kind : Expire(c, k)
    \/ \E field \in Editable, chosen \in SUBSET Cluster : Relabel(field, chosen)

Spec == Init /\ [][Next]_vars

(* The work queue hands the resource to an idle worker, the worker         *)
(* finishes its pass, the watch delivers, the pod is started again.        *)
ControllerFairness ==
    /\ WF_vars(\E w \in wake : Fetch(w))
    /\ WF_vars(Pass)
    /\ WF_vars(SyncCache)
    /\ WF_vars(Restart)

\* Time passes, whatever the controller is doing.
ClockFairness ==
    \A c \in Cluster, k \in Kind : SF_vars(Expire(c, k))

\* The managed clusters may be offline for ever.
FairSpec == Spec /\ ControllerFairness /\ ClockFairness

\* The agent and the cluster go on as long as there is something for them to do.
AgentsAnswer == \A c \in Cluster : WF_vars(ClusterStep(c))

OnlineSpec == FairSpec /\ AgentsAnswer

-----------------------------------------------------------------------------
(* Safety                                                                  *)

(* What CompleteIsTrue and OperatorsAfterUpgrade rest on: every copy of the *)
(* status is true, and so is the feedback of every ManifestWork.           *)

Truthful(list) ==
    \A c \in Cluster :
        /\ list[c].up = "Complete" => managed[c].version = "completed"
        /\ list[c].ops = "Complete" => managed[c].approved

TruthfulStatus(status) == Truthful(status.main) /\ Truthful(status.canary)

TruthfulFeedback ==
    \A c \in Cluster :
        /\ work[c]["upgrade"].seen = "completed" => managed[c].version = "completed"
        /\ work[c]["operators"].seen = "completed" => managed[c].approved
        /\ managed[c].job = "completed" => managed[c].approved

UpgradedFor(c) == WantVersion => managed[c].version = "completed"
ApprovedFor(c) == WantOperators => managed[c].approved

\* What the status says is true: a cluster whose upgrade is Complete runs
\* the requested version, and on one whose operators are Complete a job has
\* approved the install plans -- whatever was lost, stale or repeated.
CompleteIsTrue == TruthfulStatus(cr)

\* The install plans are approved after the upgrade of the cluster: there is
\* no job on a cluster that is to be upgraded and does not run the version,
\* nor a ManifestWork that would start one.
OperatorsAfterUpgrade ==
    \A c \in Upgradable :
        work[c]["operators"].phase # "absent" \/ managed[c].job # "none" =>
            managed[c].version = "completed"

IInv ==
    /\ TypeOK
    /\ TruthfulStatus(cr)
    /\ TruthfulStatus(cache)
    /\ TruthfulStatus(obj)
    /\ TruthfulStatus(base)
    /\ TruthfulFeedback
    /\ OperatorsAfterUpgrade

\* Complete (CanaryComplete) is reported when every listed cluster runs the
\* version and has its install plans approved, and not before.
CompletionIsReal ==
    /\ cr.conds.complete = "true" =>
          \A c \in Listed(cr.main) : UpgradedFor(c) /\ ApprovedFor(c)
    /\ cr.conds.canaryComplete = "true" =>
          \A c \in Listed(cr.canary) : UpgradedFor(c) /\ ApprovedFor(c)

\* No cluster of the placement is touched before every canary is done.
CanaryFirst ==
    (\E c \in InitialMain \ InitialCanary, k \in Kind : work[c][k].phase # "absent") =>
        \A c \in InitialCanary : UpgradedFor(c) /\ ApprovedFor(c)

\* What goes on on a managed cluster, whatever the hub knows of it.
UpgradesVersion(c) == managed[c].version \in {"asked", "partial"}
RunsJob(c) == managed[c].job = "running"

\* spec.upgradeStrategy.maxConcurrency is the "Max number of clusters to
\* perform upgrade at the same time" (managedclustersupgrade_types.go:50).
MaxConcurrencyRespected ==
    Cardinality({c \in Cluster : UpgradesVersion(c) \/ RunsJob(c)}) <= MaxConcurrency

\* The status says that the operators of the cluster failed.
GivenUp(c) == "Failed" \in {cr.main[c].ops, cr.canary[c].ops}

\* As far as the code keeps it: the clusters that are really upgrading are
\* within the limit, those included whose ManifestWork the status has lost and
\* those whose version goes on after its timeout.  What may come on top is a
\* job reported as failed because the timeout passed before the agent reported
\* the job applied, which runs on until the agent removes it
\* (managedclustersupgrade_controller.go:389-398).
OnlyGivenUpExceed ==
    Cardinality({c \in Cluster : UpgradesVersion(c) \/ (RunsJob(c) /\ ~GivenUp(c))})
        <= MaxConcurrency

\* Once the upgrade is reported complete no ManifestWork is left of any cluster
\* on the list of the placement.
NoWorkLeftBehind ==
    cr.conds.complete = "true" =>
        \A c \in Listed(cr.main), k \in Kind : work[c][k].phase = "absent"

\* There is nothing more to do: the upgrade is complete, or all clusters of a
\* list have failed.
Over(status) ==
    \/ status.conds.complete = "true"
    \/ AllFailed(status.main)
    \/ AllFailed(status.canary)

\* The controller does not lose sight of the resource: when nothing is left
\* that starts another pass, neither a timer nor an event that is on its way,
\* the stored status says that there is nothing more to do
\* (managedclustersupgrade_controller.go:158, "All clusters failed no more
\* reconsle for this CR").
PolledUntilOver == pc = "idle" /\ wake = {} /\ cache = cr => Over(cr)

\* Whatever happens to the selection, the status never has more than
\* MaxConcurrency clusters of a list in the middle of their upgrade.
RunningBounded ==
    \A list \in {cr.main, cr.canary} :
        Cardinality({c \in Listed(list) : Running(list[c])}) <= MaxConcurrency

\* A cluster whose upgrade is running is not forgotten: it stays on its list
\* when its labels change (managedclustersupgrade_controller.go:536).
KeepsRunning(from, to) ==
    \A c \in Cluster : Running(from[c]) => to[c].pos > 0

RunningStaysListed ==
    [][/\ KeepsRunning(cr.main, cr.main')
       /\ KeepsRunning(cr.canary, cr.canary')]_vars

\* While a cluster stays on a list its upgrade and its operators only move
\* forward, and Complete and Failed are final: no change of the selection, no
\* skipped removal and no restart makes an upgrade start over.
Outcome == {"Complete", "Failed"}

Onward(from, to) ==
    /\ from \in Outcome => to = from
    /\ from = "Partial" => to \notin {"NotStarted", "Initialized"}
    /\ from = "Initialized" => to # "NotStarted"

MovesOnward(from, to) ==
    \A c \in Cluster :
        from[c].pos > 0 /\ to[c].pos > 0 =>
            Onward(from[c].up, to[c].up) /\ Onward(from[c].ops, to[c].ops)

NeverStartsOver ==
    [][/\ MovesOnward(cr.main, cr.main')
       /\ MovesOnward(cr.canary, cr.canary')]_vars

(* What the two rest on: the working copy goes on from the status the pass  *)
(* has read, and a cluster that is not listed has not started.              *)

Follows(from, to) == KeepsRunning(from, to) /\ MovesOnward(from, to)

UnlistedIdle(list) ==
    \A c \in Cluster : list[c].pos = 0 => list[c].up = "NotStarted"

UnlistedIdleStatus(status) == UnlistedIdle(status.main) /\ UnlistedIdle(status.canary)

PassInv ==
    /\ UnlistedIdleStatus(cr)
    /\ UnlistedIdleStatus(cache)
    /\ UnlistedIdleStatus(obj)
    /\ UnlistedIdleStatus(base)
    /\ Follows(base.main, obj.main)
    /\ Follows(base.canary, obj.canary)

\* The user-visible rollout (UpgradeRollout): what the status reports of a
\* cluster.
Stage(slot) ==
    CASE slot.up = "Failed" \/ slot.ops = "Failed" -> "failed"
      [] slot.ops = "Complete" -> "done"
      [] slot.up = "Complete" /\ ~WantOperators -> "done"
      [] slot.up = "NotStarted" /\ slot.ops = "NotStarted" -> "waiting"
      [] OTHER -> "running"

Rollout ==
    INSTANCE UpgradeRollout WITH
        Canaries <- InitialCanary,
        Targets <- InitialMain,
        Limit <- MaxConcurrency,
        canaryStage <- [c \in InitialCanary |-> Stage(cr.canary[c])],
        targetStage <- [c \in InitialMain |-> Stage(cr.main[c])],
        announced <- cr.conds.complete = "true"

\* The status the users see implements the abstract rollout: clusters only
\* move forward, canaries first, at most MaxConcurrency at a time in each
\* list, and Complete is announced when all are done.
ImplementsRollout == Rollout!Spec

-----------------------------------------------------------------------------
(* Liveness                                                                *)

\* A cluster upgrade that was started completes or fails, whether or not the
\* managed cluster ever answers: the timeout sees to it.
UpgradeSettles ==
    \A c \in Cluster :
        /\ Running(cr.main[c]) ~> cr.main[c].up \in Outcome
        /\ Running(cr.canary[c]) ~> cr.canary[c].up \in Outcome

\* When the agents answer, so do the operators of a cluster.
OperatorsSettle ==
    AgentsAnswer => \A c \in Cluster :
        cr.main[c].ops \in {"Initialized", "Partial"} ~> cr.main[c].ops \in Outcome

\* A ManifestWork of a canary outlives the canary's upgrade: its Delete failed
\* and is not tried again (managedclustersupgrade_controller.go:443-446).
LeftOver ==
    /\ pc = "idle"
    /\ cr.conds.canaryComplete = "true"
    /\ \E c \in Listed(cr.canary), k \in Kind :
          /\ work[c][k].phase # "absent"
          /\ "NotStarted" = IF k = "upgrade" THEN cr.main[c].up ELSE cr.main[c].ops

\* When the agents answer, the whole rollout is reported complete, unless a
\* cluster fails or a work left over keeps the Create of the same cluster in
\* the placement from succeeding.
CompletesUnlessFailed ==
    AgentsAnswer =>
        \/ <>(cr.conds.complete = "true")
        \/ <>(FailedClusters(cr.main) \cup FailedClusters(cr.canary) # {})
        \/ <>LeftOver

\* A cluster whose upgrade failed does not keep the others from being upgraded
\* (managedclustersupgrade_controller.go:252, "Ignore failed/complete
\* clusters").
FailedAreIgnored ==
    \A c, d \in InitialMain :
        cr.main[c].up = "Failed" /\ cr.main[d].up = "NotStarted"
            ~> cr.main[d].up # "NotStarted"

\* After completion the controller stops polling the resource.
GoesQuiet == cr.conds.complete = "true" ~> [](pc = "idle" /\ wake = {})

=============================================================================
