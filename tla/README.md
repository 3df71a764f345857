# A TLA+ model of the managedclusters-lifecycle-operator

The operator runs on a hub cluster and upgrades the managed clusters of a
fleet: it turns one `ManagedClustersUpgrade` resource into `ManifestWork`
resources, a batch at a time and canaries first, watches the feedback of the
agents, and reports a status.  Two smaller controllers apply one ManifestWork,
or actions and views, to a group of clusters; a script on the managed clusters
approves install plans.  This directory holds TLA+ models of the three
controllers and of the script, TLC configurations that check them on small
instances, and TLAPS proofs of what matters most for every instance.

Line numbers of the form `:247` are those of
`controllers/cluster/managedclustersupgrade_controller.go`, `WK:` those of
`controllers/work/managedclustergroupwork_controller.go`, `AC:` those of
`controllers/act/managedclustergroupact_controller.go`, and `MW:` those of
`controllers/utils/manifestWork_utils.go`.

## The system

| component | state it keeps | operations | what makes it correct |
|---|---|---|---|
| **ManagedClustersUpgrade controller** (`controllers/cluster`) | none of its own: the status of the resource (two lists of clusters, conditions), read from a cache and written back at the end of a pass | `Reconcile` and the four `process...Condition` functions | the status tells the truth; canaries first; at most `maxConcurrency` clusters; operators after the version; every upgrade ends; completion is real and final |
| **status lists** (`getClustersList`) | `status.clusters`, `status.canaryClusters` | removal of deselected clusters from a slice, appending of new ones | a running upgrade is never dropped, no upgrade starts over |
| **cluster selection** (`GetManagedClusterList`, `GetClusters`) | none; reads ManagedClusters, Placements | label selection, difference with the list | deselection and selection are told apart from errors |
| **ManifestWork helpers** (`controllers/utils/manifestWork_utils.go`) | the ManifestWorks on the API server | create, delete, `Available`, timeout, feedback | a name has one work; feedback about another version is ignored |
| **install plan approver job** (`JobScript`) | a Job on the managed cluster | approves install plans of the selected subscriptions until its time is over | approves what is included and not excluded |
| **ManagedClusterGroupWork controller** (`controllers/work`) | status per cluster, a finalizer | create/update/delete one work per selected cluster | a work for each selected cluster and for no other; nothing is left after deletion |
| **ManagedClusterGroupAct controller** (`controllers/act`) | status per cluster, applied actions, a finalizer | create actions once, create/update/delete views | an action is created once per cluster; views follow the spec |
| **manager process** (`main.go`) | work queues and the informer cache of controller-runtime | start, restart | a restart loses nothing that is not in the status |

Interactions.  The controllers call the API server (create, delete, status
update) and read from the informer cache, which a watch fills asynchronously
and which wakes the reconciler.  The agent of each managed cluster watches the
works on the hub, applies them, reports that it has (condition `Available`), and
writes feedback.  The `ClusterVersion` of an upgrade work and the job of an
operators work run on the managed cluster.  When a work is deleted the former
goes on, and the latter runs until the agent removes it.

What is hard here: a pass reads an old status and writes at its end, after it
has created and deleted works; any of those calls may fail, and the process may
stop between them; the cache lags; answers race with timeouts; clusters are
relabelled in the middle of an upgrade; conditions are created, checked and
stored in different passes; the loop that edits a list deletes from the slice
it iterates over.  The group controllers drop the status of the pass that stores
their finalizer, so that they find their own works and actions without a record
of them; an action disappears a minute after it has ended; a name is taken until
the agent has cleared the work that had it.  The script reads and patches in
separate calls while install plans are replaced, checks none of them, and is
killed by a deadline.
`PROJECT.json` lists these hazards with their lines.

## Modules

| module | what it is |
|---|---|
| `ClusterStatusList` | the status lists and what `getClustersList` makes of them, as operators |
| `SelectionLoop` | the removal loop of `getClustersList`, one iteration per step, on the slice header and backing array that Go has |
| `ManagedClustersUpgrade` | the controller, with API server, cache, work queue, agents, managed clusters, clock and faults; extends `ClusterStatusList` |
| `UpgradeRollout` | the abstract specification: what a rollout promises to its users |
| `MCUpgrade` | the controller's model with interchangeable clusters, for the largest run |
| `GroupWork` | the ManagedClusterGroupWork controller, with API server, cache, agents, users and faults |
| `GroupAct` | the ManagedClusterGroupAct controller, likewise, with actions that expire and views |
| `ApproverJob` | the install plan approver job: its script, its container and deadline, beside the operator lifecycle manager (OLM) |
| `MCGroupWork`, `MCGroupAct`, `MCApproverJob` | the values of the constants for TLC: what agents report, the specs and their changes, the lists of operators |
| `ManagedClustersUpgradeProofs` | proofs: types, truth of the status, operators after the version, no lost wake-up |
| `UpgradeHistoryProofs` | proofs: running clusters stay listed, nothing starts over |
| `UpgradeBatchProofs` | proofs: the status never has too many clusters in the middle of their upgrade |
| `UpgradeRolloutProofs` | proofs: completion is real, canaries go first, the refinement of `UpgradeRollout`, no work is left behind, the bound on the clusters really upgrading |
| `SelectionLoopProofs` | proofs: the loop over the slice and its closed form agree |
| `GroupWorkProofs`, `GroupActProofs` | proofs: types, nothing is left after deletion; a created work stays recorded, an action runs once |
| `ApproverJobProofs` | proofs: types, what is approved, what a sweep has done, why a job fails |

The modules do not extend each other, as the programs do not call each other:
what one controller means to another is an object on the API server.  The
composition of the upgrade controller with the approver job is at the level of
the job's outcome: `JobEnds` of `ManagedClustersUpgrade` is a job of
`ApproverJob` that has succeeded or failed.

### How the controller's model corresponds to the code

A list is a function that gives every cluster its *slot*: its index in the Go
slice counted from 1 (0: not listed), `ClusterUpgradeStatus.State` and
`OperatorsStatus.UpgradeApproveState`.  `cr` is the status on the API server,
`cache` the one in the informer cache, `obj` the working copy
`managedClustersUpgrade` of a pass, `base` the status the pass read (it stands
for the resource version), `pc` the next step of the pass, `requeue` its
`ctrl.Result`, `wake` what will start the next pass.  `work[c][k]` is the
ManifestWork `<c>-cluster-upgrade` or `<c>-operators-upgrade`.

A pass of `Reconcile` is five steps; other actors act, and the process may
crash, between any two of them.

| action | code |
|---|---|
| `Fetch` | `r.Get` and `processSelectedCondition` (:60-76, :209-226, :519-566) |
| `SelectionPanics`, `ListFails` | the slice out of range (:540); the early return (:73-76) |
| `Apply` | `processAppliedCondition` and Applied (:78-83, :228-305) |
| `Observe` | `processInProgressCondition` and InProgress (:85-114, :307-426) |
| `Settle` | Complete, CanaryComplete, Failed, CanaryFailed with the deletions on the way, and whether to requeue (:116-195, :428-517) |
| `Write`, `WriteFails` | `Status().Update`, refused when the status read is outdated, or failing (:197-206) |
| `SyncCache`, `Crash`, `Restart` | watch and cache of controller-runtime; the pod |
| `AgentApplies`, `AgentReportsApplied`, `AgentReports`, `AgentRemoves` | the work agent: applies on the cluster, then reports `Available`, then feedback; removes the job of a deleted work |
| `ClusterAdvances`, `JobEnds` | cluster-version operator, approver job |
| `Expire` | the timeout of a work, counted from its creation (`getManifestWork`) |
| `Relabel` | a change of the set of clusters a placement matches |

The conditions are created in one pass and checked in later ones exactly as in
the code; `ConditionsAfter` and `Deletions` are evaluated on the conditions a
pass *finds*, as `FindStatusCondition` does, except that Failed looks at the
Complete the same pass has just set (:164).

The small-step loop of `SelectionLoop` is related to the operators used by the
controller by the invariant `LoopMatchesClosedForm`: of a run of adjacent
droppable clusters every other one is removed, and the loop panics when the
last element is droppable and an earlier one was removed.

Abstractions, and why they are sound for what is checked:

- The steps of a pass that touch only the working copy are one action. Within
  `Apply` and `Settle` the requests are one action too, any subset of which may
  be refused; a crash between two requests of a loop is a pass in which the rest
  is refused followed by a crash, but for the count of faults.
- A deleted work is not read any more.  On the hub it lingers until the agent has
  removed what it applied, and a Create in between is refused: `NameTaken`.  Of
  an upgrade work nothing is removed, since its `ClusterVersion` is orphaned
  (MW:304-311), and its name is free at once.
- What goes on on a managed cluster (`managed`) and what the hub knows of it
  (`work`) change in different steps: a work is applied, reported as applied, and
  its feedback reported, each any time later or never.  What "upgrading" means to
  `OnlyGivenUpExceed` is read off the managed cluster.
- Works are read from the API server's state. A work read from a lagging cache
  looks like one that the agent has not reported on yet; one that was just
  deleted may still be read, which lets the code finish where the model says
  that the work is not found.
- `Expire` happens between passes: the timeout is longer than a pass, which
  takes milliseconds.  `Relabel` does too, as only `Fetch` reads the selection.
- Feedback says nothing, partial, completed or failed *of the requested
  version*; another version's feedback is "nothing", as the code compares it
  (:336, :360). `failedAgain` is a failed count greater than one, which the code
  does not accept (:412).
- The timeouts parse, `upgradeStrategy` is given, and the spec does not change.
- The condition Selected, messages, `verified` and logging are left out.
- "Approved" means that the approver job succeeded.

### How the group controllers' models correspond to the code

Both have one resource: `mcg` (`mcga`) on the API server, `cache` in the
informer, `obj` the working copy of a pass, `base` the resource the pass has
read (its resource version). `phase` is the deletion timestamp: a resource is
"gone" when its finalizer was removed and "vanished" when it was deleted before
it had one. `matches` is what the spec's Placement or selector selects.

| action | `GroupWork` | `GroupAct` |
|---|---|---|
| `Select` | `r.Get`, `processSelectedCondition`: listed clusters that do not match lose their work, even when Delete fails (WK:64, :87, :126-185) | the same for the views of the spec (AC:65, :88, :125-186) |
| `PlacementFails` | the error is logged and an empty Placement deselects all (WK:137-143) | the same (AC:136-142) |
| `ListFails` | clusters or decisions cannot be listed: the list stays | the same |
| `Apply` | `processAppliedCondition`: creates, or compares the works, updates and reads their status (WK:187-240) | `processAppliedCondition`: creates actions, reads those listed before, removes, creates and updates views (AC:188-319) |
| `CreateFails`, `UpdateFails`, `WorksListFails` | the calls that fail in it; logged | `RequestsFail`, `ActionsListFails`, `ViewsListFails`; `ApplyNothing` is the pass without clusters |
| `Write`, `WriteFails` | the finalizer with `r.Update`, or `r.Status().Update` (WK:110-120) | the same (AC:109-119) |
| `Finalize`, `FinalizeFails`, `Release` | deletion by label, then the finalizer's removal (WK:73-84, :242) | the same (AC:74-85, :321) |
| `SyncCache`, `Crash` | watch and cache; the pod | the same |
| environment | `AgentReports`, `AgentRemoves`, `EditSpec`, `Relabel`, `Delete` | `ActionEnds`, `ActionExpires`, `ViewReports`, `EditSpec`, `Relabel`, `Delete` |

`r.Update` of a resource with a status subresource stores the finalizer and
drops the status, which is `Stored`: the first pass has created works or
actions that nothing records.  The second pass creates them again, and the
names of the first make these calls fail.  That is why the clusters of a group
work's first pass are recorded as `NotCreated` for as long as they stay listed,
although their works exist, while actions and views have a way out: those that
exist are listed and read in a later pass.

Abstractions:

- The works, actions and views are listed without delay, and views go at once
  when they are deleted.  Works linger until the agent has cleared them.
- Reports, ends of actions and changes of the selection happen between passes:
  only `Apply` (`Select`) reads them, once, so any other order is one of these.
- An agent reports Applied before Available; the order is that of the work
  agent, and `ManifestState` reads them in that order.
- The age of an ended action counts the `RequeueAfter` that have passed since.
  Time passes between two passes when the write of the first leaves the resource
  as it was: a change wakes the controller by the watch.  A failed write is
  retried after 5 ms, and twice as long after each further failure in a row, so
  that `WriteFails` takes no time ("write"), or `RequeueAfter` as the last of a
  dozen failures ("backoff"). A crash may last longer than an action stays.
- Faults of all kinds may be repeated; `MaxEvents` bounds them and the changes
  of the spec or the selection together.
- A pass may start whenever the worker is idle: every pass of a live resource
  asks for another one.
- A version stands for the manifests of a group work, and for the scope of a view.
- `runs` is a history variable: it counts how often an action was created since
  the user asked for it.

### How the approver job's model corresponds to the code

The script is `JobScript` (MW:543-582): `Sweep` begins an iteration of `while`
with the list of subscriptions, `Skip` and `Look` take the next one (its lists,
its `installPlanRef`, its approval), `Patch` approves, `EndSweep` and `Finish`
are the loop's ends.  No command is checked, and each may fail: a failed list is
a sweep over nothing (`SweepFails`), a failed read counts as "already approved"
(`ReadFails`), a failed patch is forgotten (`PatchFails`) unless it is the
script's last command, whose status is the container's (`Finish`,
`FinishFails`).  A container that exits non-zero (`FinishFails`) or is lost
(`ContainerFails`) is started again by `restartPolicy: OnFailure` (`StartAgain`,
MW:534); `ContainerStarts`, which comes when the image is there, gives the script
all of its time, under the deadline of the first start.  `clock` runs in units of
30 seconds: the loop ends after `WaitTime`, `activeDeadlineSeconds` is 90 seconds
later (MW:477-479, :502).  An entry
of the include or exclude list replaces the one before it (MW:483-489), which is
`Kept`; `[[ $LIST == *$subscription* ]]` is the relation `PartOf`.  OLM replaces
install plans (`NewPlan`) and users subscribe, between any two steps.  `noted`,
`lost` and `slow` are history variables.  Kubernetes gives a job up at its sixth
restart, which is why `MaxFaults` is at most five.

Definitions whose names start with `Bug` are deliberately wrong variants of
the definition that follows them (a dropped guard, an off-by-one, ...). Nothing
refers to them. Putting one in the place of its neighbour makes a named
property fail (`mutants` in `PROJECT.json`), which shows that the property is
about the code and not true by the shape of the model.

## What is checked

| run | instance | shows |
|---|---|---|
| `upgrade_faults` | one canary, two more clusters, `maxConcurrency` 1; lagging cache always, and one failing list, create, update or a crash | all safety invariants, and that the status implements `UpgradeRollout` |
| `upgrade_relabel` | two clusters, two changes of the selection to any set, lagging cache, panics and restarts | limits, truth and order survive relabelling; a running cluster stays listed; nothing starts over; polling goes on until the rollout is over |
| `upgrade_liveness` | two clusters of which one is also the canary, agents that may never answer, one failing list, create or delete | every started upgrade ends; polling stops after completion; where the agents answer, the operators end too and the rollout completes unless a cluster fails |
| `selection_loop` | all lists of at most four clusters, all selections | the loop and its closed form agree; only droppable clusters leave |
| `group_work` | two clusters of which one is selected; one change of the spec, one of the selection to any set, a deletion; lagging cache always, and one fault of any other kind | works follow selection and spec; the record follows the work; deletion ends and leaves nothing |
| `group_act` | one cluster, two actions, one view, specs that have actions or views; two faults of any kind, or a fault and a change of spec or selection; a deletion; lagging cache always | an action runs, once, and is reported before it expires; views follow; deletion ends and leaves nothing |
| `approver_job` | three subscriptions of which one's text is part of another's, four kinds of lists, two install plans, a timeout of a minute, sweeps of up to a minute, one failed list, read, patch or container | only plans of operators the script chooses are approved; sweeps approve; the job ends and fails only for a reason |
| `upgrade_stale`, `upgrade_slots`, `selection_removal`, `upgrade_first_pass`, `approver_lists` | the smallest instance that shows it | a disagreement between the code and what its documents say, below |

Safety properties, beyond the type invariant:

- `CompleteIsTrue`: a cluster the status reports as Complete runs the requested
  version; operators reported Complete were approved.
- `OperatorsAfterUpgrade`: no approver job on a cluster that is to be upgraded
  and does not yet run the version.
- `CompletionIsReal`: Complete and CanaryComplete are true of every listed cluster.
- `CanaryFirst`: no work for another cluster before every canary is done.
- `OnlyGivenUpExceed`: `maxConcurrency` holds for the clusters that *really*
  upgrade, or on which a job really runs, those included whose work the status
  does not know of.  One case is excepted, in which the code does exceed it: a
  job that is applied but not yet reported when its timeout passes (:389-398) is
  given up, its work is deleted, and the next cluster starts while the job runs
  until the agent removes it.  The bound holds in `upgrade_faults`, where the
  first list has one cluster; with more, it holds only when the first status is
  stored.  The theorem `BoundIsKept` says which rollouts keep it.
  `MaxConcurrencyRespected` is the bound without the exception, as documented;
  `upgrade_first_pass` (below) refutes it.
- `RunningBounded`: the same for the status, under relabelling.
- `NoWorkLeftBehind`: once Complete is reported no work is left of any cluster on
  the placement's list.  Works of canaries that are not on it are not covered.
- `PolledUntilOver`: no lost wake-up; while the stored status does not say that
  the rollout is over, a timer or an event will start another pass.
- `RunningStaysListed`, `NeverStartsOver`: action properties about the history.
- `ImplementsRollout`: refinement of `UpgradeRollout`, with the stage of a
  cluster (waiting, running, done, failed) computed from its two states.
- `NothingLeftAfterDeletion` (both group controllers): a finalized resource
  leaves no work and no view, those that no status ever recorded included.
- `CreatedIsKept`: no stale or repeated pass takes a recorded creation back.
- `RunsOnce`: an action is created once for each time it is asked for, although
  the pass that creates it may lose its record and be repeated.  The exceptions
  are what gives an action the 60 seconds to expire: a crash, a Placement that
  cannot be read, a backoff of `RequeueAfter`, and the second failure to list
  the clusters, or to list actions.
- `OnlyChosenApproved`, `SweepApproves`, `FailsForAReason`: what the job
  approves, what a sweep has approved when it is over, and when 90 seconds are
  enough.  "Chosen" is what the script chooses, by one entry of each list; what
  the API documents of the lists is `ExcludedNotApproved`, which `approver_lists`
  refutes.

Liveness of the group controllers: `DeletionCompletes`, `DeselectedCleared`,
`NewlySelectedServed`, `RecordFollowsWork`; `EveryActionRuns`, `OutcomeReported`
(before the action is gone, AC:63), `ViewsFollow`. Each names the faults that
break it in the code as its exceptions, so that it also says that no other does.
`ViewsFollow` excepts no fault: a missing view is made again, whatever failed; a
view that exists and was never processed is not updated, as the code skips it.

Bounds.  Three clusters are needed to have a canary, a cluster in the batch and
one that waits for it; `maxConcurrency` 1 is where an excess is seen first.
`MaxFaults` 1 lets one call fail at any point of any pass (staleness is not
counted: the cache may lag in every behaviour of a run that has "stale"); the
faults that matter leave status and works in disagreement, and one does. Two
edits let a cluster leave and come back. Four clusters give the loop runs of
droppable elements of every length up to four at every place. Deadlock is not
checked: after completion the controller rests by design, the loop returns, and
the job ends.

The group controllers treat each cluster in an iteration of its own: two
clusters let one join while the other leaves.  `GroupAct`, whose objects are
many, has one cluster; its two actions are needed because a status is written
for all of a cluster's actions, and an action may be added beside one that has
run.  Actions and views share the passes, the list and the flags only, so a spec
has either. Faults are of any kind, at any step; with "stale"
among the kinds a pass may read any older cache in every behaviour.  Two events
of `GroupAct` let a kind of fault be repeated, or meet a change of the spec; that
is also where the limits of `RunsOnce` show: without any one part of its
hypothesis TLC finds an action that ran twice (for the lists of actions with a
third event, the change that adds one), and with the hypothesis it holds for
three events too (1.84 million states).  The three operators of
the job are the two whose names overlap and one that is different; two plans let
OLM replace the plan the script has looked at. Its times are the least for which
the loop, the deadline and the slowness of a sweep are three different moments.

Fairness.  `ControllerFairness` is weak: controller-runtime hands a queued
resource to an idle worker, a worker finishes its pass, the watch delivers and
Kubernetes restarts a pod. `ClockFairness` is strong, only because `Expire` is
enabled between passes: time passes whatever the controller does.
`AgentsAnswer`, that each managed cluster and its agent go on while there is
something for them to do, is no part of it: `OperatorsSettle` and
`CompletesUnlessFailed` assume it explicitly, and so does `OnlineSpec`, under
which two of the counterexamples below are found.  The group controllers have weak fairness of a pass
(it is requeued after 20 seconds or an error) and of the watch; of the agents
only that a deleted work is cleared in the end, without which a name stays taken.
The job has the fairness of the clock and of the job controller; its script may
hang. Failures are never required to happen or to stop,
other than by their bound.

### Disagreements found

Shown by a run that ends in a counterexample:

1. `upgrade_stale`. README.md:77 promises to monitor an upgrade "till it
   complete or fail". A pass that starts on an outdated status may delete the
   work of a cluster it sees finished (:443, :492) and then have its status
   refused (:199). The status says Initialized or Partial from then on, the work
   is gone, and neither feedback nor timeout is ever read again.
2. `upgrade_slots`. The comment "Ignore failed/complete clusters" (:252) stands
   above a test of the *operators'* state; a cluster whose upgrade failed is
   counted in the batch in every pass (:301) and blocks those behind it.
3. `selection_removal`. `status.clusters` is the "List of the selected
   managedClusters" (`managedclustersupgrade_types.go:151`), but the loop that
   deletes from the slice it ranges over skips the element after each removal,
   and panics when it then reaches a droppable last element (:540).
4. `upgrade_first_pass`. `maxConcurrency` is the "Max number of clusters to
   perform upgrade at the same time" (`managedclustersupgrade_types.go:50`).  New
   clusters are listed in the order of a range over a map (:544), which differs
   from pass to pass, and the batch is the front of the list.  When the status of
   the pass that made the list is lost, the next pass makes another list and
   starts other clusters, beside those whose works exist already.
5. `approver_lists`. `exclude` is the "List of the selected operators to not
   approve its installPlan" (`managedclustersupgrade_types.go:83`; :81 says the
   converse of `include`).  The loops that make the job's text assign it anew for
   every entry (MW:483-489), so that only the last one reaches the job: with acm
   and etcd excluded the job approves the plan of acm.  It also approves a plan
   that an excluded operator shares with a chosen one.

Met while modelling, in the models as the code has them, and left without a run
because no document says otherwise or because a property names them as exceptions:

- The condition Failed is added only once Complete exists (:164), which needs
  InProgress to have been true: when every cluster times out before its agent
  applies the work there is no Failed, although "at least 1 cluster failed" (:166).
- A job of a cluster that is not upgraded and whose agent does not answer in time
  fails in the status while Complete does not exist yet.  Its work is then not
  deleted (:164) and no longer counts: when the agent comes back the job runs
  beside the upgrade of other clusters, beyond `maxConcurrency`.
- With canaries only, the empty main list is complete as soon as the condition
  exists (:438): Complete is reported, and the polling stops, while canaries
  are being upgraded.
- The pass that finds the last cluster failed sets no `RequeueAfter`, whether or
  not its status update succeeds (:159, :201): when that fails for a reason other
  than a conflict, the polling ends and the status never shows the failure.
- The first pass of a group work loses its status (WK:112); the works it has
  created are listed as `NotCreated` from then on.  A cluster that was recorded
  is never affected (`CreatedIsKept`).
- A group resource deleted before its finalizer was stored leaves its works and
  views behind (WK:111, AC:110): `NothingLeftAfterDeletion` is about "gone" only.
- An action whose Create was refused is recorded in `appliedActions` all the same
  (AC:315); beside another listed action it is not tried again. `EveryActionRuns`
  excepts "request".
- An error of reading the Placement deselects every cluster (WK:137, AC:136):
  works and views are deleted, and actions run again when they return.
- An error of Delete is logged, and the finalizer is removed all the same.
- An operator whose text is part of the entry of a list is included or excluded
  with it (MW:556, :564).
- A job that was applied and not reported as applied when its timeout passes is
  given up (:389-398): it runs on beside the next cluster (`OnlyGivenUpExceed`).
- The Delete of a canary's work is not tried again once CanaryComplete is set
  (:443).  When that cluster is selected by the placement as well, the work that
  is left keeps the later Create from succeeding for ever (`LeftOver`).
- A failed list of subscriptions is a sweep over nothing, and a failed read is
  "already approved" (MW:549, :574-583).  When the last patch of the last sweep
  fails, the script exits non-zero, is started anew (MW:534), and the job runs
  into its deadline (`FailsForAReason` names the case).

## What is proved

For the upgrade controller: for every finite set of clusters, every
`maxConcurrency`, and any number of faults and changes of the selection.  The assumptions are `ClusterIsFinite` and
`ConstantsAssumption`, which gives the constants their types; nothing is assumed
of fairness or of the order of steps.

`ManagedClustersUpgradeProofs`: `TypeCorrect`, `CompletionIsTrue`,
`OperatorsWait`, `NeverOutOfSight`.  None of the first three is inductive alone: `cr` is overwritten by a
working copy that was derived from a cache, so that what is true of `cr` has to
be true of all four copies of the status, and of the feedback they are brought
up to date with.  `IInv` says so.  The argument: a state becomes Complete only
in `Observe`, by a feedback that says completed (`ObservedTyped`); a feedback
says completed only when the agent has seen it (`AgentStep`); managed clusters
only move forward, so that a true statement stays true however late it is
copied (`CopyStep`); and an operators work is created only for a slot that
says Complete, or for a cluster that is not to be upgraded (`ApplyStep`).
`NeverOutOfSight` is the safety that liveness rests on, with a hypothesis: an
update fails only because the status it was made from is outdated.  `PollInv`
says that a pass with such a status has an event on its way to start the next
one, and that a pass without a `RequeueAfter` has found that there is nothing to
do.  What it has found is lost when the update fails for another reason.

`UpgradeHistoryProofs`: `RunningStays` and `NothingStartsOver`, the two action
properties.  The step that matters is `Write`, where `cr` jumps to the working
copy.  `PassInv` relates the working copy to the status the pass has read: what
runs there is still listed, states have only moved forward, and a cluster that
is not listed has not started an upgrade.  `Write` replaces `cr` only when it is
what the pass has read, so that the relation becomes one between `cr` and `cr'`
(`StatusFollows`).  `SelectionFollows` is where the removal loop comes in: it
holds whatever the loop skips.

`UpgradeBatchProofs`: `RunningIsBounded`.  The code counts the batch anew in
every pass, from the states it finds; nothing in it compares what is running with
`maxConcurrency`.  The bound holds because a cluster that the loop has once
reached it reaches ever after: `BatchInv` says of all four copies of the status
that what has begun is in the batch (`BegunInBatch`), that no two clusters have
one place (`InOrder`), and that the states of a cluster fit together (`Phased`).
`StepOrderly` keeps it within a pass, since a cluster never starts to count;
`SelectionOrderly` keeps it under relabelling, since those that stay keep their
order and new ones go to the end.  The clusters of a batch that count have
different counts below `maxConcurrency` (`BatchFits`), which bounds them.

`UpgradeRolloutProofs` is about placements that keep selecting what they select
at first (`Editable = {}`).  The hypothesis is needed: a cluster that joins after
Complete is listed and not upgraded, and Complete stays (it is in the list of
hazards).  Its theorems have the invariant `RolloutInv` in common: in every
copy of the status the conditions are true of its own lists (`Reliable`), and a
pass moves one list only, the one the status it has read asks for
(`OneListMoves`).

- `CompleteMeansDone`: `Reliable` together with `IInv`, which makes the states true.
- `CanariesGoFirst`: a work for a cluster that is no canary is created from a
  copy that says CanaryComplete, which is true however old the copy is.
- `RolloutImplemented`: every step is a step of `UpgradeRollout` or leaves the
  stages as they are.  Only `Write` over the status that was read is a step;
  `PassInv` gives that stages go forward, `BatchInv` the limit, `OneListMoves`
  that one list moves, and `Reliable` that an announcement is true.
- `CompleteLeavesNoWork`, about the clusters on the placement's list, with two
  more hypotheses.  No Delete is refused, as
  the code logs and forgets such an error.  And when passes may read an old
  status, operators are asked for: without them the model lets a pass on an old
  status create a work, see its cluster go through the whole upgrade and delete
  the work, and a later pass, on a status that is still older than that, create
  it again after Complete (TLC shows it; a pass takes milliseconds and an upgrade
  an hour, so that no run claims it of the code).  `TidyInv` says what a pass
  with an old status finds: a main list on which nothing is to be started
  (`Past`).  The reason is that operators which a pass finds completed were in
  progress before that pass (`OneMove`).
- `BoundIsKept`, of `OnlyGivenUpExceed`, with the hypotheses `KeepsBound`.  Each
  of them is needed, and TLC shows what happens without it: a job whose Delete
  was refused is forgotten and goes on beside the next cluster; so does the job
  of a cluster that is not upgraded (no `clusterID` label, or a rollout of the
  operators alone), when it times out before Complete exists, as the code then
  deletes nothing; and a lost first status lets the next pass draw another order,
  unless the whole first list fits the bound.  Under them the bound holds however
  late, repeated or restarted the passes are, and for clusters whose version goes
  on after their timeout.  A job that the stored status gave up does not count
  (`GivenUp`): at its timeout the controller knows of a work only whether it was
  reported as applied, and one that is applied and not reported goes on.

  Nothing in the code looks at the clusters when it counts.  `AllHeld` is why the
  count is right: every cluster that upgrades, or will when its agent finds the
  work (`Underway`), is in the batch of the list rolled by a pass that reads the
  stored status, and counts there (`Held`), so that `BatchFits` bounds them.  Only
  `Apply` gets a cluster under way (`UnderwayByApply`), and it may go by an old
  status.  `CopyOlder` says how old: at most one pass, with the clusters in the
  same places.  Between a status and the next one states go forward and nobody
  ends operators that had not begun, so that no cluster ceases to count that the
  pass is about to start (`StartsHeld`).  `Settle` is where a place is given up:
  operators end, and their work has to be deleted in that pass (`SettleEnds`).
  That is so because an upgrade that has ended has made Complete exist
  (`AllAnnounced`).  Before the first status is stored there is nothing to be
  held in but the working copy of the first pass (`HeldFirst`).

`SelectionLoopProofs`: `LoopInvariance`, `ClosedFormHolds` and
`NothingElseRemoved`, for lists of every length.  The slice is edited while the
range over its old header goes on, so that the index ahead and the element it
finds drift apart.  `LoopInv` says what the array holds after every iteration:
what the closed form keeps of the part gone through, in its order and place
(`BehindKept`), then the rest, moved by as many places as were removed
(`AheadMoved`); whether the element just before was removed decides the parity
by which the closed form counts (`InStep`).  `ClusterStatusList`, which the
controller's model uses, is therefore not an assumption about the loop.

`GroupWorkProofs`: `GroupWorkTypeOK`, `GroupWorkNothingLeft` and
`GroupWorkCreatedIsKept`, for every set of clusters, of reports and of faults.
The inductive invariant is `TypeOK`, `PassOK` (what the working copy keeps of
the resource it was read from), `DeletionSeen` and `Cleared`.  `Cleared` says
that from a successful `Finalize` on no work is present; it needs
`DeletionSeen`, which says that the cache never goes back behind a deletion it
has seen: otherwise a pass on a live but stale resource could create works after
`Finalize`.  `CreatedIsKept` rests on `Write` storing the working copy only over
the resource it was made from.

`GroupActProofs`: `GroupActTypeOK` and `GroupActNothingLeft`, by the same
argument, with `NoViews` for the works; there the views the spec no longer has
are the point, which `Finalize` finds by their label.  And `GroupActRunsOnce`,
for every number of clusters, actions, views and edits, and within the limits of
`RunsOnce`: stale passes, refused requests, failed lists of views and writes
that are lost and retried at once may come in any number, but the list of
clusters and the lists of actions fail once each at most, and there is no crash,
no failed read of the Placement, and no backoff of `RequeueAfter`.  `OnceInv` says
that as long as any resource a pass may read, or has read, makes the pass create
an action that has run (`Wants`), the object of the action is still there, so
that Create fails.  It ages only with the `RequeueAfter` of a pass whose write
changed nothing; behind each of the two lists that may fail (the clusters, the
actions) there is one such write at most (`Missed`), one less than it takes to
expire.  The rest of `OnceInv` is what else can be underway: an action that was
added again since the pass read the spec (`Readded`), a cluster that the pass
did not list (`Unlisted`), an action the pass will not record (`Unnoted`).

`ApproverJobProofs`: `JobTypeOK`, `JobApprovesChosenOnly`, `JobSweepApproves` and
`JobFailsForAReason`, for every set of operators, lists and timeouts.  The
invariant adds to the properties that the plan to be patched covers a chosen
operator (`Covered`), that in the middle of a sweep each chosen subscription is
still to be looked at, is being patched or is dealt with (`SweepProgress`), and
how far the clock can be when sweeps are prompt (`Timely`): it is there that
`SweepTime` must not exceed the 90 seconds (`Grace`).

The assumptions are the `ConstantsAssumption` of each module: types, and for the
job that a prompt sweep takes at most the grace.

Only model-checked:

- liveness: no temporal proof with fairness is in the prover's reach.

## What is not modelled, and the plan

All components of the survey that have a behaviour of their own have a module,
and every safety property, action property and refinement that a passing run
checks is stated by a theorem.  Next: deletion of a `ManagedClustersUpgrade`,
changes of its spec, and two resources that select the same cluster and so share
the names of its works.

Not modelled, and why:

- These three, so far: the controller has no finalizer and tells no two resources
  apart, so that these cases go wrong by what is absent.  They are in the list of
  hazards, each at its line.
- A group resource that another controller's finalizer holds after its own was
  removed (the code then treats it as live), and group acts with one name in two
  namespaces, whose labels are the same.
- Label selectors and the tracker of placement decisions (a library); a
  selection is a set that may change, and its errors.
- The contents of manifests and the text of conditions, except for the job.
- Leader election, health checks and flags of `main.go`; generated code and
  deployment manifests.

## Running

    tlc -config UpgradeFaults.cfg ManagedClustersUpgrade.tla
    tlc -config UpgradeRelabel.cfg MCUpgrade.tla
    tlc -config UpgradeLiveness.cfg ManagedClustersUpgrade.tla
    tlc -config SelectionLoop.cfg SelectionLoop.tla
    tlc -config GroupWork.cfg MCGroupWork.tla
    tlc -config GroupAct.cfg MCGroupAct.tla
    tlc -config ApproverJob.cfg MCApproverJob.tla
    tlapm ManagedClustersUpgradeProofs.tla
    tlapm UpgradeHistoryProofs.tla
    tlapm UpgradeBatchProofs.tla
    tlapm UpgradeRolloutProofs.tla
    tlapm SelectionLoopProofs.tla
    tlapm GroupWorkProofs.tla
    tlapm GroupActProofs.tla
    tlapm ApproverJobProofs.tla

The configurations `UpgradeStale`, `UpgradeSlots`, `SelectionRemoval`,
`UpgradeFirstPass` and `ApproverLists` (of `MCApproverJob`) end in a
counterexample.
