------------------- MODULE ManagedClustersUpgradeProofs -------------------
(***************************************************************************)
(* Theorems about ManagedClustersUpgrade, for any set of clusters, any     *)
(* selection, any number of faults and any number of relabellings.         *)
(***************************************************************************)
EXTENDS ManagedClustersUpgrade, TLAPS, FiniteSetTheorems

-----------------------------------------------------------------------------
(* The lists                                                               *)

\* The subsets of the clusters are finite: positions are numbers.
LEMMA CountIsNat ==
    ASSUME NEW S \in SUBSET Cluster
    PROVE  IsFiniteSet(S) /\ Cardinality(S) \in Nat
  BY ClusterIsFinite, FS_Subset, FS_CardinalityType

\* What getClustersList returns is a list.
LEMMA SelectionTyped ==
    ASSUME NEW list \in ClusterList, NEW chosen \in SUBSET Cluster,
           NEW result \in Selections(list, chosen)
    PROVE  result \in ClusterList
<1> DEFINE kept == Listed(list) \ Removed(list, chosen)
           pruned == Pruned(list, chosen)
           added == chosen \ Listed(list)
           n == Cardinality(Listed(pruned))
<1>1. pruned \in ClusterList
  <2> SUFFICES ASSUME NEW c \in Cluster
               PROVE  (IF c \in kept
                       THEN [list[c] EXCEPT !.pos = 1 + Cardinality(kept \cap Before(list, c))]
                       ELSE SlotAt(0)) \in Slot
    BY DEF Pruned, ClusterList
  <2>1. Cardinality(kept \cap Before(list, c)) \in Nat
    BY CountIsNat DEF Listed
  <2>2. list[c] \in Slot
    BY DEF ClusterList
  <2> QED
    BY <2>1, <2>2 DEF Slot, SlotAt, State
<1>2. n \in Nat /\ Cardinality(added) \in Nat
  BY CountIsNat DEF Listed
<1>3. PICK o \in [added -> (n + 1) .. (n + Cardinality(added))] :
          result = [c \in Cluster |-> IF c \in added THEN SlotAt(o[c]) ELSE pruned[c]]
  BY DEF Selections, Appended
<1>4. \A c \in added : o[c] \in Nat
  BY <1>2, <1>3
<1> QED
  BY <1>1, <1>3, <1>4 DEF ClusterList, Slot, SlotAt, State

\* A cluster that getClustersList keeps keeps its states, and one that it
\* adds has not started: nothing becomes Complete by a change of selection.
LEMMA SelectionKeepsStates ==
    ASSUME NEW list \in ClusterList, NEW chosen \in SUBSET Cluster,
           NEW result \in Selections(list, chosen), NEW c \in Cluster
    PROVE  /\ result[c].up = "Complete" => list[c].up = "Complete"
           /\ result[c].ops = "Complete" => list[c].ops = "Complete"
<1> DEFINE pruned == Pruned(list, chosen)
           added == chosen \ Listed(list)
           n == Cardinality(Listed(pruned))
<1>1. list[c] \in Slot
  BY DEF ClusterList
<1>2. \/ pruned[c] = SlotAt(0)
      \/ pruned[c].up = list[c].up /\ pruned[c].ops = list[c].ops
  BY <1>1 DEF Pruned, Slot
<1>3. PICK o \in [added -> (n + 1) .. (n + Cardinality(added))] :
          result = [d \in Cluster |-> IF d \in added THEN SlotAt(o[d]) ELSE pruned[d]]
  BY DEF Selections, Appended
<1>4. result[c] = SlotAt(o[c]) \/ result[c] = pruned[c]
  BY <1>3
<1> QED
  BY <1>2, <1>4 DEF SlotAt

\* The list with the requests of a pass that succeeded.
LEMMA StartedTyped ==
    ASSUME NEW list \in ClusterList, NEW created
    PROVE  /\ Started(list, created) \in ClusterList
           /\ \A c \in Cluster :
                 /\ Started(list, created)[c].up = "Complete" => list[c].up = "Complete"
                 /\ Started(list, created)[c].ops = "Complete" => list[c].ops = "Complete"
<1> DEFINE slot(c) ==
        [list[c] EXCEPT
            !.up = IF <<c, "upgrade">> \in created THEN "Initialized" ELSE @,
            !.ops = IF <<c, "operators">> \in created THEN "Initialized" ELSE @]
<1>1. ASSUME NEW c \in Cluster
      PROVE  /\ slot(c) \in Slot
             /\ slot(c).up = "Complete" => list[c].up = "Complete"
             /\ slot(c).ops = "Complete" => list[c].ops = "Complete"
  <2>1. list[c] \in Slot
    BY DEF ClusterList
  <2> QED
    BY <2>1 DEF Slot, State
<1>2. Started(list, created) = [c \in Cluster |-> slot(c)]
  BY DEF Started
<1> HIDE DEF slot
<1> QED
  BY <1>1, <1>2 DEF ClusterList

\* The list with what the pass has observed: a part becomes Complete only by
\* a feedback that says so.
LEMMA ObservedTyped ==
    ASSUME TypeOK, NEW list \in ClusterList
    PROVE  /\ Observed(list) \in ClusterList
           /\ \A c \in Cluster :
                 /\ Observed(list)[c].up = "Complete" =>
                       list[c].up = "Complete" \/ work[c]["upgrade"].seen = "completed"
                 /\ Observed(list)[c].ops = "Complete" =>
                       list[c].ops = "Complete" \/ work[c]["operators"].seen = "completed"
<1> DEFINE up(c) == ObservedUpgrade(list[c].up, work[c]["upgrade"])
           ops(c) == IF Unobservable(list[c], c) THEN list[c].ops
                     ELSE ObservedOperators(list[c].ops, work[c]["operators"])
<1>1. ASSUME NEW c \in Cluster
      PROVE  list[c] \in Slot
  BY <1>1 DEF ClusterList
<1>2. ASSUME NEW c \in Cluster
      PROVE  /\ up(c) \in State
             /\ up(c) = "Complete" =>
                   list[c].up = "Complete" \/ work[c]["upgrade"].seen = "completed"
  <2>1. list[c].up \in State
    BY <1>1 DEF Slot
  <2> QED
    BY <2>1 DEF ObservedUpgrade, Reported, State
<1>3. ASSUME NEW c \in Cluster
      PROVE  /\ ops(c) \in State
             /\ ops(c) = "Complete" =>
                   list[c].ops = "Complete" \/ work[c]["operators"].seen = "completed"
  <2>1. list[c].ops \in State
    BY <1>1 DEF Slot
  <2> QED
    BY <2>1 DEF ObservedOperators, State
<1>4. Observed(list) = [c \in Cluster |-> [list[c] EXCEPT !.up = up(c), !.ops = ops(c)]]
  BY <1>1 DEF Observed, Slot
<1> HIDE DEF up, ops
<1>5. ASSUME NEW c \in Cluster
      PROVE  /\ Observed(list)[c] \in Slot
             /\ Observed(list)[c].up = up(c)
             /\ Observed(list)[c].ops = ops(c)
  <2>1. Observed(list)[c] = [list[c] EXCEPT !.up = up(c), !.ops = ops(c)]
    BY <1>4
  <2>2. list[c] \in Slot /\ up(c) \in State /\ ops(c) \in State
    BY <1>1, <1>2, <1>3
  <2> QED
    BY <2>1, <2>2 DEF Slot
<1> QED
  BY <1>2, <1>3, <1>4, <1>5 DEF ClusterList

\* Putting a list back into the status it was taken from.
LEMMA RolledTyped ==
    ASSUME NEW status \in Status, NEW list \in ClusterList
    PROVE  /\ Rolling(status) \in ClusterList
           /\ Rolled(status, list) \in Status
           /\ Rolled(status, list).conds = status.conds
           /\ Rolled(status, list).main \in {status.main, list}
           /\ Rolled(status, list).canary \in {status.canary, list}
           /\ Rolling(status) \in {status.main, status.canary}
  BY DEF Rolling, Rolled, Status

\* The steps that leave the status, the ManifestWorks and the managed clusters
\* alone, but for copying one of the statuses over another.
LEMMA CopyStep ==
    ASSUME IInv, TypeOK',
           cr' \in {cr, cache, obj, base, NoStatus},
           cache' \in {cr, cache, obj, base, NoStatus},
           obj' \in {cr, cache, obj, base, NoStatus},
           base' \in {cr, cache, obj, base, NoStatus},
           work' = work, managed' = managed
    PROVE  IInv'
<1>1. TruthfulStatus(NoStatus)
  BY DEF TruthfulStatus, Truthful, NoStatus, NoClusters, SlotAt
<1>2. TruthfulStatus(cr)' /\ TruthfulStatus(cache)' /\ TruthfulStatus(obj)'
         /\ TruthfulStatus(base)'
  BY <1>1 DEF IInv, TruthfulStatus, Truthful
<1>3. TruthfulFeedback' /\ OperatorsAfterUpgrade'
  BY DEF IInv, TruthfulFeedback, OperatorsAfterUpgrade
<1> QED
  BY <1>2, <1>3 DEF IInv

\* A resource without a status, and a reconciler without a working copy.
LEMMA NoStatusTyped == NoStatus \in Status
<1>1. NoClusters \in ClusterList
  BY DEF NoClusters, ClusterList, Slot, SlotAt, State
<1>2. NoConditions \in Conditions
  BY DEF NoConditions, Conditions, Cond
<1> QED
  BY <1>1, <1>2 DEF NoStatus, Status

\* The count of faults stays within its bound.
LEMMA FaultTyped ==
    ASSUME TypeOK, NEW kinds, Fault(kinds)
    PROVE  faults' \in 0 .. MaxFaults
  BY ConstantsAssumption DEF TypeOK, Fault

\* So it does in a pass that has some of its requests refused.
LEMMA RefusalTyped ==
    ASSUME TypeOK, NEW kind, NEW requests, NEW refused,
           Refusal(kind, requests, refused)
    PROVE  faults' \in 0 .. MaxFaults
<1>1. CASE refused = {}
  BY <1>1 DEF Refusal, TypeOK
<1>2. CASE refused # {}
  BY <1>2, FaultTyped DEF Refusal
<1> QED
  BY <1>1, <1>2

-----------------------------------------------------------------------------
(* The steps of a pass                                                     *)

\* The working copy is what the cache holds with its lists brought up to
\* date, and both of them are true.
LEMMA FetchStep ==
    ASSUME IInv, NEW w \in wake, Fetch(w)
    PROVE  IInv'
<1>1. PICK canary \in Selections(cache.canary, matches["canary"]),
           main \in Selections(cache.main, matches["main"]) :
          obj' = [cache EXCEPT !.canary = canary, !.main = main]
  BY DEF Fetch
<1>2. /\ cache \in Status
      /\ cache.canary \in ClusterList
      /\ cache.main \in ClusterList
      /\ matches["canary"] \in SUBSET Cluster
      /\ matches["main"] \in SUBSET Cluster
  BY DEF IInv, TypeOK, Status, Field
<1>3. canary \in ClusterList /\ main \in ClusterList
  BY <1>2, SelectionTyped
<1>4. obj' \in Status /\ obj'.canary = canary /\ obj'.main = main
  BY <1>1, <1>2, <1>3 DEF Status
<1>5. TypeOK'
  BY <1>4 DEF IInv, TypeOK, Fetch, environment, bounds
<1>6. TruthfulStatus(obj)'
  <2>1. ASSUME NEW c \in Cluster
        PROVE  /\ canary[c].up = "Complete" => cache.canary[c].up = "Complete"
               /\ canary[c].ops = "Complete" => cache.canary[c].ops = "Complete"
               /\ main[c].up = "Complete" => cache.main[c].up = "Complete"
               /\ main[c].ops = "Complete" => cache.main[c].ops = "Complete"
    BY <1>2, SelectionKeepsStates
  <2>2. managed' = managed
    BY DEF Fetch, environment
  <2> QED
    BY <1>4, <2>1, <2>2 DEF IInv, TruthfulStatus, Truthful
<1>7. /\ TruthfulStatus(cr)' /\ TruthfulStatus(cache)' /\ TruthfulStatus(base)'
      /\ TruthfulFeedback' /\ OperatorsAfterUpgrade'
  BY DEF IInv, Fetch, environment, TruthfulStatus, Truthful, TruthfulFeedback,
         OperatorsAfterUpgrade
<1> QED
  BY <1>5, <1>6, <1>7 DEF IInv

\* A job is sent only to a cluster the working copy says is upgraded, if it is
\* to be upgraded at all, and the working copy is true.
LEMMA ApplyStep ==
    ASSUME IInv, Apply
    PROVE  IInv'
<1> DEFINE list == Rolling(obj)
<1>1. PICK refused \in SUBSET Creations(list) :
          /\ Refusal("create", Creations(list), refused)
          /\ work' = [c \in Cluster |-> [k \in Kind |->
                IF <<c, k>> \in Created(list, refused)
                THEN [NoWork EXCEPT !.phase = "sent"] ELSE work[c][k]]]
          /\ obj' = [Rolled(obj, Started(list, Created(list, refused))) EXCEPT
                        !.conds.applied =
                            IF AllCreated(list, Created(list, refused))
                            THEN "true" ELSE "false"]
  BY DEF Apply
<1> DEFINE created == Created(list, refused)
           rolled == Rolled(obj, Started(list, created))
<1>2. obj \in Status /\ list \in ClusterList /\ list \in {obj.main, obj.canary}
  BY RolledTyped, NoStatusTyped DEF IInv, TypeOK, Status
<1>3. Started(list, created) \in ClusterList
  BY <1>2, StartedTyped
<1>4. /\ rolled \in Status
      /\ rolled.main \in {obj.main, Started(list, created)}
      /\ rolled.canary \in {obj.canary, Started(list, created)}
  BY <1>2, <1>3, RolledTyped
<1>5. /\ obj' \in Status
      /\ obj'.main = rolled.main
      /\ obj'.canary = rolled.canary
  BY <1>1, <1>4 DEF Status, Conditions, Cond
<1>6. work' \in [Cluster -> [Kind -> Work]]
  BY <1>1 DEF IInv, TypeOK, NoWork, Work, Feedback
<1>7. TypeOK'
  <2>1. faults' \in 0 .. MaxFaults
    BY <1>1, RefusalTyped DEF IInv
  <2> QED
    BY <1>5, <1>6, <2>1 DEF IInv, TypeOK, Apply
<1>8. TruthfulStatus(obj)'
  <2>1. managed' = managed
    BY DEF Apply
  <2>2. Truthful(list)
    BY <1>2 DEF IInv, TruthfulStatus
  <2>3. Truthful(Started(list, created))
    BY <1>2, <2>2, StartedTyped DEF Truthful
  <2>4. Truthful(rolled.main) /\ Truthful(rolled.canary)
    BY <1>4, <2>3 DEF IInv, TruthfulStatus
  <2> QED
    BY <1>5, <2>1, <2>4 DEF TruthfulStatus, Truthful
<1>9. TruthfulFeedback'
  BY <1>1 DEF IInv, Apply, TruthfulFeedback, NoWork, Kind
<1>10. OperatorsAfterUpgrade'
  <2>1. ASSUME NEW c \in Upgradable, <<c, "operators">> \in created
        PROVE  managed[c].version = "completed"
    <3>1. StartsOperators(list, c) /\ c \in Cluster
      BY <2>1 DEF Created, Creations, Batch, Listed
    <3>2. list[c].up = "Complete"
      BY <3>1 DEF StartsOperators, StartsUpgrade
    <3> QED
      BY <1>2, <3>1, <3>2 DEF IInv, TruthfulStatus, Truthful
  <2>2. ASSUME NEW c \in Upgradable, work'[c]["operators"].phase # "absent"
        PROVE  \/ <<c, "operators">> \in created
               \/ work[c]["operators"].phase # "absent"
    BY <1>1, <2>2, ConstantsAssumption DEF Upgradable, Kind
  <2> QED
    BY <2>1, <2>2 DEF IInv, Apply, OperatorsAfterUpgrade
<1>11. TruthfulStatus(cr)' /\ TruthfulStatus(cache)' /\ TruthfulStatus(base)'
  BY DEF IInv, Apply, TruthfulStatus, Truthful
<1> QED
  BY <1>7, <1>8, <1>9, <1>10, <1>11 DEF IInv

\* A part becomes Complete by the feedback of its ManifestWork, which is true.
LEMMA ObserveStep ==
    ASSUME IInv, Observe
    PROVE  IInv'
<1> DEFINE list == Rolling(obj)
           seen == IF Observes(obj.conds) THEN Observed(list) ELSE list
           rolled == Rolled(obj, seen)
<1>1. PICK finished \in BOOLEAN :
          obj' = [rolled EXCEPT
                     !.conds.inProgress = InProgressAfter(obj.conds, list),
                     !.conds.finished = finished]
  <2>1. rolled.conds = obj.conds /\ obj.conds \in Conditions
    BY RolledTyped, ObservedTyped DEF IInv, TypeOK, Status
  <2> QED
    BY <2>1 DEF Observe, Conditions
<1>2. obj \in Status /\ list \in ClusterList /\ list \in {obj.main, obj.canary}
  BY RolledTyped, NoStatusTyped DEF IInv, TypeOK, Status
<1>3. seen \in ClusterList
  BY <1>2, ObservedTyped DEF IInv
<1>4. /\ rolled \in Status
      /\ rolled.main \in {obj.main, seen}
      /\ rolled.canary \in {obj.canary, seen}
  BY <1>2, <1>3, RolledTyped
<1>5. InProgressAfter(obj.conds, list) \in Cond
  BY <1>2 DEF InProgressAfter, Status, Conditions, Cond
<1>6. /\ obj' \in Status
      /\ obj'.main = rolled.main
      /\ obj'.canary = rolled.canary
  BY <1>1, <1>4, <1>5 DEF Status, Conditions
<1>7. TypeOK'
  BY <1>6 DEF IInv, TypeOK, Observe, environment, bounds
<1>8. TruthfulStatus(obj)'
  <2>1. managed' = managed
    BY DEF Observe, environment
  <2>2. Truthful(list)
    BY <1>2 DEF IInv, TruthfulStatus
  <2>3. Truthful(seen)
    BY <1>2, <2>2, ObservedTyped DEF IInv, Truthful, TruthfulFeedback
  <2>4. Truthful(rolled.main) /\ Truthful(rolled.canary)
    BY <1>4, <2>3 DEF IInv, TruthfulStatus
  <2> QED
    BY <1>6, <2>1, <2>4 DEF TruthfulStatus, Truthful
<1>9. /\ TruthfulStatus(cr)' /\ TruthfulStatus(cache)' /\ TruthfulStatus(base)'
      /\ TruthfulFeedback' /\ OperatorsAfterUpgrade'
  BY DEF IInv, Observe, environment, TruthfulStatus, Truthful, TruthfulFeedback,
         OperatorsAfterUpgrade
<1> QED
  BY <1>7, <1>8, <1>9 DEF IInv

\* The conditions a pass ends with.
LEMMA ConditionsTyped ==
    ASSUME NEW status \in Status
    PROVE  ConditionsAfter(status) \in Conditions
<1>1. status.conds \in Conditions
  BY DEF Status
<1>2. ASSUME NEW cond \in Cond, NEW list, NEW create
      PROVE  CompleteAfter(cond, list, create) \in Cond
  BY <1>2 DEF CompleteAfter, Cond
<1>3. ASSUME NEW cond \in Cond, NEW list, NEW complete
      PROVE  FailedAfter(cond, list, complete) \in Cond
  BY <1>3 DEF FailedAfter, Cond
<1> QED
  BY <1>1, <1>2, <1>3 DEF ConditionsAfter, Conditions

\* A pass deletes ManifestWorks and sets conditions: no list changes.
LEMMA SettleStep ==
    ASSUME IInv, Settle
    PROVE  IInv'
<1> DEFINE after == ConditionsAfter(obj)
           deletions == Deletions(obj, after)
<1>1. PICK refused \in SUBSET deletions :
          /\ Refusal("delete", deletions, refused)
          /\ work' = [c \in Cluster |-> [k \in Kind |->
                IF <<c, k>> \in deletions \ refused THEN NoWork ELSE work[c][k]]]
  BY DEF Settle
<1>2. obj' = [obj EXCEPT !.conds = after]
  BY DEF Settle
<1>3. obj \in Status /\ after \in Conditions
  BY ConditionsTyped DEF IInv, TypeOK
<1>4. obj' \in Status /\ obj'.main = obj.main /\ obj'.canary = obj.canary
  BY <1>2, <1>3 DEF Status
<1>5. ASSUME NEW c \in Cluster, NEW k \in Kind
      PROVE  work'[c][k] = NoWork \/ work'[c][k] = work[c][k]
  BY <1>1
<1>6. work' \in [Cluster -> [Kind -> Work]]
  BY <1>1 DEF IInv, TypeOK, NoWork, Work, Feedback
<1>7. TypeOK'
  <2>1. faults' \in 0 .. MaxFaults
    BY <1>1, RefusalTyped DEF IInv
  <2>2. requeue' \in BOOLEAN
    BY DEF Settle
  <2> QED
    BY <1>4, <1>6, <2>1, <2>2 DEF IInv, TypeOK, Settle
<1>8. TruthfulStatus(obj)'
  BY <1>4 DEF IInv, Settle, TruthfulStatus, Truthful
<1>9. TruthfulFeedback' /\ OperatorsAfterUpgrade'
  BY <1>5, ConstantsAssumption
     DEF IInv, Settle, TruthfulFeedback, OperatorsAfterUpgrade, NoWork, Kind, Upgradable
<1>10. TruthfulStatus(cr)' /\ TruthfulStatus(cache)' /\ TruthfulStatus(base)'
  BY DEF IInv, Settle, TruthfulStatus, Truthful
<1> QED
  BY <1>7, <1>8, <1>9, <1>10 DEF IInv

\* The ends of a pass, the restarts and the watch copy statuses.
LEMMA CopySteps ==
    ASSUME IInv,
           \/ Write
           \/ WriteFails
           \/ SyncCache
           \/ Crash
           \/ Restart
           \/ \E w \in wake : SelectionPanics(w) \/ ListFails(w)
           \/ \E field \in Editable, chosen \in SUBSET Cluster : Relabel(field, chosen)
           \/ UNCHANGED vars
    PROVE  IInv'
<1> USE NoStatusTyped DEF environment, bounds, reconciler
<1>1. CASE Write
  <2>1. TypeOK'
    BY <1>1 DEF IInv, TypeOK, Write, EndPass, Rest
  <2> QED
    BY <1>1, <2>1, CopyStep DEF Write, EndPass, Rest
<1>2. CASE WriteFails
  <2>1. TypeOK'
    BY <1>2, FaultTyped DEF IInv, TypeOK, WriteFails, EndPass, Rest
  <2> QED
    BY <1>2, <2>1, CopyStep DEF WriteFails, EndPass, Rest
<1>3. CASE SyncCache
  <2>1. TypeOK'
    BY <1>3 DEF IInv, TypeOK, SyncCache
  <2> QED
    BY <1>3, <2>1, CopyStep DEF SyncCache
<1>4. CASE Crash
  <2>1. TypeOK'
    BY <1>4, FaultTyped DEF IInv, TypeOK, Crash, Reboot, Rest
  <2> QED
    BY <1>4, <2>1, CopyStep DEF Crash, Reboot, Rest
<1>5. CASE Restart
  <2>1. TypeOK'
    BY <1>5 DEF IInv, TypeOK, Restart, Reboot, Rest
  <2> QED
    BY <1>5, <2>1, CopyStep DEF Restart, Reboot, Rest
<1>6. ASSUME NEW w \in wake, SelectionPanics(w)
      PROVE  IInv'
  <2>1. TypeOK'
    BY <1>6 DEF IInv, TypeOK, SelectionPanics
  <2> QED
    BY <1>6, <2>1, CopyStep DEF SelectionPanics
<1>7. ASSUME NEW w \in wake, ListFails(w)
      PROVE  IInv'
  <2>1. TypeOK'
    BY <1>7, FaultTyped DEF IInv, TypeOK, ListFails
  <2> QED
    BY <1>7, <2>1, CopyStep DEF ListFails
<1>8. ASSUME NEW field \in Editable, NEW chosen \in SUBSET Cluster, Relabel(field, chosen)
      PROVE  IInv'
  <2>1. TypeOK'
    BY <1>8, ConstantsAssumption DEF IInv, TypeOK, Relabel, Field
  <2> QED
    BY <1>8, <2>1, CopyStep DEF Relabel
<1>9. CASE UNCHANGED vars
  <2>1. TypeOK'
    BY <1>9 DEF IInv, TypeOK, vars
  <2> QED
    BY <1>9, <2>1, CopyStep DEF vars
<1> QED
  BY <1>1, <1>2, <1>3, <1>4, <1>5, <1>6, <1>7, <1>8, <1>9

-----------------------------------------------------------------------------
(* The steps of the environment: the managed clusters only move forward.   *)

\* Replacing one ManifestWork leaves the others alone.
LEMMA WorkUpdated ==
    ASSUME NEW works \in [Cluster -> [Kind -> Work]],
           NEW c \in Cluster, NEW k \in Kind, NEW mw \in Work
    PROVE  /\ [works EXCEPT ![c][k] = mw] \in [Cluster -> [Kind -> Work]]
           /\ \A d \in Cluster, l \in Kind :
                 [works EXCEPT ![c][k] = mw][d][l] =
                     IF d = c /\ l = k THEN mw ELSE works[d][l]
  OBVIOUS

\* Whether there is a job on the cluster, or a ManifestWork for one.
HasJob(c) == work[c]["operators"].phase # "absent" \/ managed[c].job # "none"

\* As long as no operators work is made and no version is lost.
LEMMA StillAfterUpgrade ==
    ASSUME OperatorsAfterUpgrade,
           \A d \in Cluster :
              /\ HasJob(d)' => HasJob(d)
              /\ managed[d].version = "completed" => managed'[d].version = "completed"
    PROVE  OperatorsAfterUpgrade'
<1> SUFFICES ASSUME NEW d \in Upgradable, HasJob(d)'
             PROVE  managed'[d].version = "completed"
  BY DEF OperatorsAfterUpgrade, Upgradable, HasJob
<1>1. d \in Cluster
  BY ConstantsAssumption DEF Upgradable
<1> QED
  BY <1>1 DEF OperatorsAfterUpgrade, HasJob

\* A step that moves only ManifestWorks and managed clusters, and those forward.
LEMMA ForwardStep ==
    ASSUME IInv,
           UNCHANGED <<cr, cache, reconciler, wake, matches, bounds>>,
           work' \in [Cluster -> [Kind -> Work]],
           managed' \in [Cluster -> Managed],
           \A d \in Cluster :
              /\ HasJob(d)' => HasJob(d)
              /\ managed[d].version = "completed" => managed'[d].version = "completed"
              /\ managed[d].approved => managed'[d].approved,
           TruthfulFeedback'
    PROVE  IInv'
<1>1. TypeOK'
  BY DEF IInv, TypeOK, reconciler, bounds
<1>2. /\ TruthfulStatus(cr)' /\ TruthfulStatus(cache)'
      /\ TruthfulStatus(obj)' /\ TruthfulStatus(base)'
  BY DEF IInv, TruthfulStatus, Truthful, reconciler
<1>3. OperatorsAfterUpgrade'
  BY StillAfterUpgrade DEF IInv
<1> QED
  BY <1>1, <1>2, <1>3 DEF IInv

\* They touch the ManifestWorks and the managed clusters only.
LEMMA AgentsLeave ==
    ASSUME Agents
    PROVE  UNCHANGED <<cr, cache, reconciler, wake, matches, bounds>>
  BY DEF Agents, ClusterStep, AgentApplies, AgentReportsApplied, ClusterAdvances,
         JobEnds, AgentReports, AgentRemoves

\* What the agents do, and what they report of the managed cluster.
LEMMA AgentStep ==
    ASSUME IInv, Agents
    PROVE  IInv'
<1>1. PICK c \in Cluster : ClusterStep(c)
  BY DEF Agents
<1>2. /\ work \in [Cluster -> [Kind -> Work]]
      /\ managed \in [Cluster -> Managed]
      /\ "upgrade" \in Kind /\ "operators" \in Kind
      /\ TruthfulFeedback
  BY DEF IInv, TypeOK, Kind
<1>3. \A d \in Cluster : managed[d] \in Managed
  BY <1>2
<1>4. ASSUME NEW k \in Kind, AgentApplies(c, k)
      PROVE  IInv'
  <2>1. /\ work' \in [Cluster -> [Kind -> Work]]
        /\ \A d \in Cluster, l \in Kind :
              /\ work'[d][l].seen = work[d][l].seen
              /\ work'[d][l].phase # "absent" <=> work[d][l].phase # "absent"
    <3> DEFINE mw == [work[c][k] EXCEPT !.phase = "applied"]
    <3>1. work[c][k] \in Work /\ work[c][k].phase = "sent"
      BY <1>2, <1>4 DEF AgentApplies
    <3>2. mw \in Work /\ mw.seen = work[c][k].seen /\ mw.phase = "applied"
      BY <3>1 DEF Work
    <3>3. work' = [work EXCEPT ![c][k] = mw]
      BY <1>4 DEF AgentApplies
    <3> HIDE DEF mw
    <3>4. /\ work' \in [Cluster -> [Kind -> Work]]
          /\ \A d \in Cluster, l \in Kind :
                work'[d][l] = IF d = c /\ l = k THEN mw ELSE work[d][l]
      BY <1>2, <3>2, <3>3, WorkUpdated
    <3> QED
      BY <3>1, <3>2, <3>4
  <2> DEFINE version == IF k = "upgrade" /\ managed[c].version = "other"
                        THEN "asked" ELSE managed[c].version
             job == IF k = "operators" THEN "running" ELSE managed[c].job
             cluster == [managed[c] EXCEPT !.version = version, !.job = job]
  <2>2. /\ cluster \in Managed
        /\ cluster.approved = managed[c].approved
        /\ managed[c].version = "completed" => cluster.version = "completed"
        /\ cluster.job = job
    BY <1>3 DEF Managed
  <2>3. managed' = [managed EXCEPT ![c] = cluster]
    BY <1>3, <1>4 DEF AgentApplies, Managed
  <2>4. k = "operators" => work[c]["operators"].phase # "absent"
    BY <1>4 DEF AgentApplies
  <2>5. /\ job # "none" => work[c]["operators"].phase # "absent" \/ managed[c].job # "none"
        /\ job = "completed" => managed[c].job = "completed"
    BY <2>4
  <2> HIDE DEF cluster, job
  <2>6. /\ managed' \in [Cluster -> Managed]
        /\ \A d \in Cluster : managed'[d] = IF d = c THEN cluster ELSE managed[d]
    BY <1>2, <2>2, <2>3
  <2>7. \A d \in Cluster :
           /\ HasJob(d)' => HasJob(d)
           /\ managed[d].version = "completed" => managed'[d].version = "completed"
           /\ managed[d].approved => managed'[d].approved
    BY <1>2, <2>1, <2>2, <2>5, <2>6 DEF HasJob
  <2>8. TruthfulFeedback'
    BY <1>2, <2>1, <2>2, <2>5, <2>6 DEF TruthfulFeedback
  <2> QED
    BY <1>4, <2>1, <2>6, <2>7, <2>8, ForwardStep DEF AgentApplies
<1>5. ASSUME NEW k \in Kind, AgentReportsApplied(c, k)
      PROVE  IInv'
  <2>1. /\ work' \in [Cluster -> [Kind -> Work]]
        /\ \A d \in Cluster, l \in Kind :
              /\ work'[d][l].seen = work[d][l].seen
              /\ work'[d][l].phase # "absent" <=> work[d][l].phase # "absent"
    <3> DEFINE mw == [work[c][k] EXCEPT !.phase = "available"]
    <3>1. work[c][k] \in Work /\ work[c][k].phase = "applied"
      BY <1>2, <1>5 DEF AgentReportsApplied
    <3>2. mw \in Work /\ mw.seen = work[c][k].seen /\ mw.phase = "available"
      BY <3>1 DEF Work
    <3>3. work' = [work EXCEPT ![c][k] = mw]
      BY <1>5 DEF AgentReportsApplied
    <3> HIDE DEF mw
    <3>4. /\ work' \in [Cluster -> [Kind -> Work]]
          /\ \A d \in Cluster, l \in Kind :
                work'[d][l] = IF d = c /\ l = k THEN mw ELSE work[d][l]
      BY <1>2, <3>2, <3>3, WorkUpdated
    <3> QED
      BY <3>1, <3>2, <3>4
  <2>2. managed' = managed
    BY <1>5 DEF AgentReportsApplied
  <2>3. TruthfulFeedback' /\ \A d \in Cluster : HasJob(d)' => HasJob(d)
    BY <1>2, <2>1, <2>2 DEF TruthfulFeedback, HasJob
  <2> QED
    BY <1>2, <1>5, <2>1, <2>2, <2>3, ForwardStep DEF AgentReportsApplied
<1>6. CASE ClusterAdvances(c)
  <2>1. /\ managed' \in [Cluster -> Managed]
        /\ \A d \in Cluster :
              /\ managed'[d].approved = managed[d].approved
              /\ managed'[d].job = managed[d].job
              /\ managed[d].version = "completed" => managed'[d].version = "completed"
    BY <1>2, <1>3, <1>6 DEF ClusterAdvances, Managed
  <2>2. work' = work
    BY <1>6 DEF ClusterAdvances
  <2>3. TruthfulFeedback' /\ \A d \in Cluster : HasJob(d)' => HasJob(d)
    BY <1>2, <2>1, <2>2 DEF TruthfulFeedback, HasJob
  <2> QED
    BY <1>2, <1>6, <2>1, <2>2, <2>3, ForwardStep DEF ClusterAdvances
<1>7. ASSUME NEW outcome \in JobOutcomes, JobEnds(c, outcome)
      PROVE  IInv'
  <2>1. outcome \in JobEnd
    BY ConstantsAssumption DEF JobEnd
  <2>2. /\ managed' \in [Cluster -> Managed]
        /\ outcome = "completed" => managed'[c].approved
        /\ managed'[c].job = outcome
        /\ \A d \in Cluster :
              /\ managed'[d].version = managed[d].version
              /\ managed[d].approved => managed'[d].approved
              /\ d # c => managed'[d].job = managed[d].job
    BY <1>2, <1>3, <1>7, <2>1 DEF JobEnds, Managed
  <2>3. work' = work /\ managed[c].job # "none"
    BY <1>7 DEF JobEnds
  <2>4. \A d \in Cluster : HasJob(d)' => HasJob(d)
    BY <2>2, <2>3 DEF HasJob
  <2>5. TruthfulFeedback'
    BY <1>2, <2>2, <2>3 DEF TruthfulFeedback
  <2> QED
    BY <1>2, <1>7, <2>2, <2>3, <2>4, <2>5, ForwardStep DEF JobEnds
<1>8. ASSUME NEW k \in Kind, AgentReports(c, k)
      PROVE  IInv'
  <2>1. ToReport(c, k) \in Feedback
    BY <1>2, <1>3 DEF ToReport, Feedback, JobEnd
  <2>2. /\ work' \in [Cluster -> [Kind -> Work]]
        /\ \A d \in Cluster, l \in Kind :
              /\ work'[d][l].phase = work[d][l].phase
              /\ \/ work'[d][l].seen = work[d][l].seen
                 \/ d = c /\ l = k /\ work'[d][l].seen = ToReport(c, k)
    <3> DEFINE mw == [work[c][k] EXCEPT !.seen = ToReport(c, k)]
    <3>1. work[c][k] \in Work
      BY <1>2
    <3>2. mw \in Work /\ mw.phase = work[c][k].phase /\ mw.seen = ToReport(c, k)
      BY <2>1, <3>1 DEF Work
    <3>3. work' = [work EXCEPT ![c][k] = mw]
      BY <1>8 DEF AgentReports
    <3> HIDE DEF mw
    <3>4. /\ work' \in [Cluster -> [Kind -> Work]]
          /\ \A d \in Cluster, l \in Kind :
                work'[d][l] = IF d = c /\ l = k THEN mw ELSE work[d][l]
      BY <1>2, <3>2, <3>3, WorkUpdated
    <3> QED
      BY <3>2, <3>4
  <2>3. managed' = managed
    BY <1>8 DEF AgentReports
  <2>4. /\ k = "upgrade" /\ ToReport(c, k) = "completed" => managed[c].version = "completed"
        /\ k = "operators" /\ ToReport(c, k) = "completed" => managed[c].job = "completed"
    BY DEF ToReport, JobEnd
  <2>5. TruthfulFeedback'
    BY <1>2, <2>2, <2>3, <2>4 DEF TruthfulFeedback
  <2>6. \A d \in Cluster : HasJob(d)' => HasJob(d)
    BY <1>2, <2>2, <2>3 DEF HasJob
  <2> QED
    BY <1>2, <1>8, <2>2, <2>3, <2>5, <2>6, ForwardStep DEF AgentReports
<1>9. CASE AgentRemoves(c)
  <2>1. /\ managed' \in [Cluster -> Managed]
        /\ \A d \in Cluster :
              /\ managed'[d].version = managed[d].version
              /\ managed'[d].approved = managed[d].approved
              /\ managed'[d].job \in {managed[d].job, "none"}
    BY <1>2, <1>3, <1>9 DEF AgentRemoves, Managed
  <2>2. work' = work
    BY <1>9 DEF AgentRemoves
  <2>3. TruthfulFeedback' /\ \A d \in Cluster : HasJob(d)' => HasJob(d)
    BY <1>2, <2>1, <2>2 DEF TruthfulFeedback, HasJob
  <2> QED
    BY <1>2, <1>9, <2>1, <2>2, <2>3, ForwardStep DEF AgentRemoves
<1> QED
  BY <1>1, <1>4, <1>5, <1>6, <1>7, <1>8, <1>9 DEF ClusterStep

\* That a timeout passes changes neither the feedback nor the clusters.
LEMMA ExpireStep ==
    ASSUME IInv, NEW c \in Cluster, NEW k \in Kind, Expire(c, k)
    PROVE  IInv'
<1> USE DEF reconciler, bounds
<1>1. work \in [Cluster -> [Kind -> Work]] /\ "upgrade" \in Kind /\ "operators" \in Kind
  BY DEF IInv, TypeOK, Kind
<1>2. /\ work' \in [Cluster -> [Kind -> Work]]
      /\ \A d \in Cluster, l \in Kind :
            /\ work'[d][l].phase = work[d][l].phase
            /\ work'[d][l].seen = work[d][l].seen
  <2> DEFINE mw == [work[c][k] EXCEPT !.expired = TRUE]
  <2>1. work[c][k] \in Work
    BY <1>1
  <2>2. mw \in Work /\ mw.phase = work[c][k].phase /\ mw.seen = work[c][k].seen
    BY <2>1 DEF Work
  <2>3. work' = [work EXCEPT ![c][k] = mw]
    BY DEF Expire
  <2> HIDE DEF mw
  <2>4. /\ work' \in [Cluster -> [Kind -> Work]]
        /\ \A d \in Cluster, l \in Kind :
              work'[d][l] = IF d = c /\ l = k THEN mw ELSE work[d][l]
    BY <1>1, <2>2, <2>3, WorkUpdated
  <2> QED
    BY <2>2, <2>4
<1>3. TypeOK'
  BY <1>2 DEF IInv, TypeOK, Expire
<1>4. /\ TruthfulStatus(cr)' /\ TruthfulStatus(cache)'
      /\ TruthfulStatus(obj)' /\ TruthfulStatus(base)'
  BY DEF IInv, Expire, TruthfulStatus, Truthful
<1>5. TruthfulFeedback' /\ OperatorsAfterUpgrade'
  BY <1>1, <1>2, ConstantsAssumption
     DEF IInv, Expire, TruthfulFeedback, OperatorsAfterUpgrade, Upgradable
<1> QED
  BY <1>3, <1>4, <1>5 DEF IInv

-----------------------------------------------------------------------------
(* The theorems                                                            *)

\* IInv holds at first: nothing is listed, sent or upgraded.
LEMMA InitImpliesIInv == Init => IInv
<1> SUFFICES ASSUME Init
             PROVE  IInv
  OBVIOUS
<1>1. matches \in [Field -> SUBSET Cluster]
  BY ConstantsAssumption DEF Init, Field
<1>2. work \in [Cluster -> [Kind -> Work]]
  BY DEF Init, NoWork, Work, Feedback
<1>3. managed \in [Cluster -> Managed]
  BY DEF Init, Managed
<1>4. TypeOK
  <2>1. faults \in 0 .. MaxFaults /\ edits \in 0 .. MaxEdits
    BY ConstantsAssumption DEF Init
  <2>2. /\ cr \in Status /\ cache \in Status /\ obj \in Status /\ base \in Status
    BY NoStatusTyped DEF Init
  <2>3. /\ pc \in {"idle", "apply", "observe", "settle", "write", "panicked"}
        /\ requeue \in BOOLEAN
        /\ wake \subseteq {"event", "timer"}
    BY DEF Init
  <2> QED
    BY <1>1, <1>2, <1>3, <2>1, <2>2, <2>3 DEF TypeOK
<1>5. TruthfulStatus(NoStatus)
  BY DEF TruthfulStatus, Truthful, NoStatus, NoClusters, SlotAt
<1>6. TruthfulFeedback /\ OperatorsAfterUpgrade
  BY ConstantsAssumption
     DEF Init, TruthfulFeedback, OperatorsAfterUpgrade, NoWork, Kind, Upgradable
<1> QED
  BY <1>4, <1>5, <1>6 DEF Init, IInv

\* Every step of the controller, the agents, the clock and the user keeps it.
LEMMA NextKeepsIInv == IInv /\ [Next]_vars => IInv'
<1> SUFFICES ASSUME IInv, [Next]_vars
             PROVE  IInv'
  OBVIOUS
<1>1. CASE Reconciler
  BY <1>1, FetchStep, ApplyStep, ObserveStep, SettleStep, CopySteps DEF Reconciler, Pass
<1>2. CASE Agents
  BY <1>2, AgentStep
<1>3. CASE \E c \in Cluster, k \in Kind : Expire(c, k)
  BY <1>3, ExpireStep
<1>4. CASE \E field \in Editable, chosen \in SUBSET Cluster : Relabel(field, chosen)
  BY <1>4, CopySteps
<1>5. CASE UNCHANGED vars
  BY <1>5, CopySteps
<1> QED
  BY <1>1, <1>2, <1>3, <1>4, <1>5 DEF Next

\* The inductive invariant: every copy of the status is true, however stale,
\* and so is every feedback it may be brought up to date with.
THEOREM Invariance == Spec => []IInv
  BY InitImpliesIInv, NextKeepsIInv, PTL DEF Spec

\* Every variable keeps its type, whatever fails and however clusters are
\* relabelled: no pass stores a state that the type of the resource lacks.
THEOREM TypeCorrect == Spec => []TypeOK
<1>1. IInv => TypeOK
  BY DEF IInv
<1> QED
  BY <1>1, Invariance, PTL

\* The status never reports a cluster as Complete that does not run the
\* requested version, nor operators whose install plans were not approved.
THEOREM CompletionIsTrue == Spec => []CompleteIsTrue
<1>1. IInv => CompleteIsTrue
  BY DEF IInv, CompleteIsTrue
<1> QED
  BY <1>1, Invariance, PTL

\* On a cluster whose version is to be upgraded no install plan is approved
\* before the cluster runs that version.
THEOREM OperatorsWait == Spec => []OperatorsAfterUpgrade
<1>1. IInv => OperatorsAfterUpgrade
  BY DEF IInv
<1> QED
  BY <1>1, Invariance, PTL


-----------------------------------------------------------------------------
(* What starts the next pass                                               *)

\* A pass that has read an outdated status, whose write will be refused, is
\* followed by one that the watch starts; one that ends the polling has found
\* that there is nothing more to do.
PollInv ==
    /\ pc = "idle" => wake # {} \/ cache # cr \/ Over(cr)
    /\ pc \notin {"idle", "panicked"} => base = cr \/ cache # cr \/ "event" \in wake
    /\ pc \in {"apply", "observe", "settle"} => requeue
    /\ pc = "write" => requeue \/ Over(obj)

\* The pass that ends the polling keeps what it has found.
LEMMA FinalIsOver ==
    ASSUME TypeOK, Settle
    PROVE  requeue' \/ Over(obj')
<1>1. /\ obj \in Status /\ obj' = [obj EXCEPT !.conds = ConditionsAfter(obj)]
      /\ requeue' = ~Final(obj)
  BY DEF Settle, TypeOK
<1>2. /\ obj'.main = obj.main /\ obj'.canary = obj.canary
      /\ obj'.conds = ConditionsAfter(obj) /\ obj.conds \in Conditions
  BY <1>1 DEF Status
<1>3. obj.conds.complete = "true" => obj'.conds.complete = "true"
  BY <1>2 DEF ConditionsAfter, CompleteAfter, Conditions
<1>4. Final(obj) => Over(obj')
  BY <1>2, <1>3 DEF Final, Over
<1> QED
  BY <1>1, <1>4

\* A step from pass to pass, or of a pass, leaves something to start the next.
LEMMA NextKeepsPolling ==
    ASSUME "update" \notin Faults, TypeOK, PollInv, [Next]_vars
    PROVE  PollInv'
<1> USE DEF reconciler, environment
<1>1. ASSUME NEW w \in wake, Fetch(w)
      PROVE  PollInv'
  BY <1>1 DEF Fetch, PollInv
<1>2. ASSUME NEW w \in wake, SelectionPanics(w) \/ ListFails(w)
      PROVE  PollInv'
  BY <1>2 DEF SelectionPanics, ListFails, Wakes, PollInv
<1>3. CASE Apply \/ Observe
  BY <1>3 DEF Apply, Observe, PollInv
<1>4. CASE Settle
  <2>1. requeue' \/ Over(obj')
    BY <1>4, FinalIsOver
  <2> QED
    BY <1>4, <2>1 DEF Settle, PollInv
<1>5. CASE Write
  <2>1. /\ pc' = "idle" /\ cache' = cache
        /\ cr' = IF base = cr THEN obj ELSE cr
        /\ wake' = IF requeue THEN wake \cup {"timer"} ELSE wake
        /\ pc = "write"
    BY <1>5 DEF Write, EndPass, Rest
  <2>2. wake' # {} \/ cache' # cr' \/ Over(cr')
    <3>1. CASE requeue
      BY <2>1, <3>1
    <3>2. CASE ~requeue /\ base = cr
      BY <2>1, <3>2 DEF PollInv
    <3>3. CASE ~requeue /\ base # cr
      BY <2>1, <3>3 DEF PollInv
    <3> QED
      BY <3>1, <3>2, <3>3
  <2>3. wake' # {} \/ cache' # cr' \/ Over(cr)'
    BY <2>2 DEF Over
  <2> QED
    BY <2>1, <2>3 DEF PollInv
<1>6. CASE WriteFails
  BY <1>6 DEF WriteFails, Fault
<1>7. CASE SyncCache
  BY <1>7 DEF SyncCache, PollInv, TypeOK
<1>8. CASE Crash \/ Restart
  BY <1>8 DEF Crash, Restart, Reboot, Rest, PollInv
<1>9. CASE Agents
  BY <1>9, AgentsLeave DEF reconciler, PollInv, Over
<1>10. CASE \/ \E c \in Cluster, k \in Kind : Expire(c, k)
            \/ \E field \in Editable, chosen \in SUBSET Cluster : Relabel(field, chosen)
            \/ UNCHANGED vars
  BY <1>10 DEF Expire, Relabel, vars, PollInv, Over
<1> QED
  BY <1>1, <1>2, <1>3, <1>4, <1>5, <1>6, <1>7, <1>8, <1>9, <1>10
     DEF Next, Reconciler, Pass

\* The controller does not lose sight of the resource before the stored
\* status says that the upgrade is complete or has failed everywhere, however
\* stale its reads are, whatever requests are refused and however clusters are
\* relabelled: provided that an update is refused only because the status it
\* was made from is outdated.  When it fails for another reason the code stops
\* polling although the status does not have what the pass has found.
THEOREM NeverOutOfSight ==
    ASSUME "update" \notin Faults
    PROVE  Spec => []PolledUntilOver
<1>1. Init => PollInv
  BY DEF Init, PollInv
<1>2. TypeOK /\ PollInv /\ [Next]_vars => PollInv'
  BY NextKeepsPolling
<1>3. PollInv => PolledUntilOver
  BY DEF PollInv, PolledUntilOver
<1> QED
  BY <1>1, <1>2, <1>3, TypeCorrect, PTL DEF Spec

=============================================================================
