----------------------- MODULE UpgradeHistoryProofs -----------------------
(***************************************************************************)
(* Theorems about the history of the status: a running upgrade is never    *)
(* dropped from its list, and no upgrade starts over.  They hold for any   *)
(* selection changes, stale reads, lost writes and restarts.               *)
(***************************************************************************)
EXTENDS ManagedClustersUpgradeProofs

-----------------------------------------------------------------------------
(* Lemmas about one list                                                   *)

\* Moving forward twice is moving forward.
LEMMA OnwardTransitive ==
    ASSUME NEW x \in State, NEW y \in State, NEW z \in State,
           Onward(x, y), Onward(y, z)
    PROVE  Onward(x, z)
  BY DEF Onward, Outcome, State

\* A change of the selection keeps what is running, keeps the states of what
\* it keeps, and adds clusters that have not started.
LEMMA SelectionFollows ==
    ASSUME NEW list \in ClusterList, NEW chosen \in SUBSET Cluster,
           NEW result \in Selections(list, chosen), UnlistedIdle(list)
    PROVE  Follows(list, result) /\ UnlistedIdle(result)
<1> DEFINE kept == Listed(list) \ Removed(list, chosen)
           pruned == Pruned(list, chosen)
           added == chosen \ Listed(list)
           n == Cardinality(Listed(pruned))
<1>1. PICK o \in [added -> (n + 1) .. (n + Cardinality(added))] :
          result = [c \in Cluster |-> IF c \in added THEN SlotAt(o[c]) ELSE pruned[c]]
  BY DEF Selections, Appended
<1>2. ASSUME NEW c \in Cluster
      PROVE  /\ c \in kept => /\ pruned[c].pos > 0
                              /\ pruned[c].up = list[c].up
                              /\ pruned[c].ops = list[c].ops
             /\ c \notin kept => pruned[c] = SlotAt(0)
  <2>1. Cardinality(kept \cap Before(list, c)) \in Nat
    BY CountIsNat DEF Listed
  <2>2. list[c] \in Slot
    BY DEF ClusterList
  <2> QED
    BY <2>1, <2>2 DEF Pruned, Slot
<1>3. ASSUME NEW c \in Cluster
      PROVE  /\ c \in added => result[c].up = "NotStarted" /\ list[c].pos = 0
             /\ c \notin added => result[c] = pruned[c]
  <2>1. list[c].pos \in Nat
    BY DEF ClusterList, Slot
  <2> QED
    BY <1>1, <2>1 DEF SlotAt, Listed
<1>4. ASSUME NEW c \in Cluster, Running(list[c])
      PROVE  result[c].pos > 0
  <2>1. list[c].pos \in Nat /\ list[c].pos # 0
    BY <1>4 DEF ClusterList, Slot, UnlistedIdle, Running
  <2>2. c \in kept
    BY <1>4, <2>1 DEF Listed, Removed, Droppable
  <2>3. c \notin added
    BY <2>2
  <2> QED
    BY <1>2, <1>3, <2>2, <2>3
<1>5. ASSUME NEW c \in Cluster, list[c].pos > 0, result[c].pos > 0
      PROVE  Onward(list[c].up, result[c].up) /\ Onward(list[c].ops, result[c].ops)
  <2>1. c \notin added
    BY <1>5 DEF Listed
  <2>2. c \in kept
    BY <1>2, <1>3, <1>5, <2>1 DEF SlotAt
  <2>3. result[c].up = list[c].up /\ result[c].ops = list[c].ops
    BY <1>2, <1>3, <2>1, <2>2
  <2> QED
    BY <2>3 DEF Onward, Outcome
<1>6. ASSUME NEW c \in Cluster, result[c].pos = 0
      PROVE  result[c].up = "NotStarted"
  <2>1. CASE c \in added
    BY <1>3, <2>1
  <2>2. CASE c \notin added
    <3>1. result[c] = SlotAt(0)
      BY <1>2, <1>3, <1>6, <2>2
    <3> QED
      BY <3>1 DEF SlotAt
  <2> QED
    BY <2>1, <2>2
<1> QED
  BY <1>4, <1>5, <1>6 DEF Follows, KeepsRunning, MovesOnward, UnlistedIdle

\* The two transformations of a list within a pass move every slot onward
\* and leave the positions alone.
Advances(from, to) ==
    \A c \in Cluster :
        /\ to[c].pos = from[c].pos
        /\ from[c].up = "NotStarted" /\ from[c].pos = 0 => to[c].up = "NotStarted"
        /\ Onward(from[c].up, to[c].up)
        /\ Onward(from[c].ops, to[c].ops)

\* Only what has not started is started.
LEMMA StartedAdvances ==
    ASSUME NEW list \in ClusterList, NEW created \in SUBSET Creations(list)
    PROVE  Advances(list, Started(list, created))
<1>1. ASSUME NEW c \in Cluster
      PROVE  LET slot == Started(list, created)[c]
             IN  /\ slot.pos = list[c].pos
                 /\ list[c].up = "NotStarted" /\ list[c].pos = 0 => slot.up = "NotStarted"
                 /\ Onward(list[c].up, slot.up)
                 /\ Onward(list[c].ops, slot.ops)
  <2>1. list[c] \in Slot
    BY DEF ClusterList
  <2>2. <<c, "upgrade">> \in created => list[c].up = "NotStarted" /\ list[c].pos > 0
    BY DEF Creations, StartsUpgrade, Batch, Listed
  <2>3. <<c, "operators">> \in created => list[c].ops = "NotStarted"
    BY DEF Creations, StartsOperators
  <2>4. /\ Started(list, created)[c].pos = list[c].pos
        /\ Started(list, created)[c].up =
              IF <<c, "upgrade">> \in created THEN "Initialized" ELSE list[c].up
        /\ Started(list, created)[c].ops =
              IF <<c, "operators">> \in created THEN "Initialized" ELSE list[c].ops
    BY <2>1 DEF Started, Slot
  <2>5. list[c].pos \in Nat /\ list[c].up \in State /\ list[c].ops \in State
    BY <2>1 DEF Slot
  <2> QED
    BY <2>2, <2>3, <2>4, <2>5 DEF Onward, Outcome, State
<1> QED
  BY <1>1 DEF Advances

\* An observation moves what is running forward and leaves outcomes alone.
LEMMA ObservedAdvances ==
    ASSUME NEW list \in ClusterList
    PROVE  Advances(list, Observed(list))
<1>1. ASSUME NEW c \in Cluster
      PROVE  LET slot == Observed(list)[c]
             IN  /\ slot.pos = list[c].pos
                 /\ list[c].up = "NotStarted" /\ list[c].pos = 0 => slot.up = "NotStarted"
                 /\ Onward(list[c].up, slot.up)
                 /\ Onward(list[c].ops, slot.ops)
  <2> DEFINE up == ObservedUpgrade(list[c].up, work[c]["upgrade"])
             ops == IF Unobservable(list[c], c) THEN list[c].ops
                    ELSE ObservedOperators(list[c].ops, work[c]["operators"])
  <2>1. list[c] \in Slot
    BY DEF ClusterList
  <2>2. list[c].up \in State /\ list[c].ops \in State
    BY <2>1 DEF Slot
  <2>3. Onward(list[c].up, up) /\ (list[c].up = "NotStarted" => up = "NotStarted")
    BY <2>2 DEF ObservedUpgrade, Reported, Onward, Outcome, State
  <2>4. Onward(list[c].ops, ops)
    BY <2>2 DEF ObservedOperators, Onward, Outcome, State
  <2>5. Observed(list)[c] = [list[c] EXCEPT !.up = up, !.ops = ops]
    BY <2>1 DEF Observed, Slot
  <2> HIDE DEF up, ops
  <2>6. /\ Observed(list)[c].pos = list[c].pos
        /\ Observed(list)[c].up = up
        /\ Observed(list)[c].ops = ops
    BY <2>1, <2>5 DEF Slot
  <2> QED
    BY <2>3, <2>4, <2>6
<1> QED
  BY <1>1 DEF Advances

\* What follows from the status read still does after such a transformation.
LEMMA FollowsOnward ==
    ASSUME NEW start \in ClusterList, NEW from \in ClusterList, NEW to \in ClusterList,
           Follows(start, from), Advances(from, to), UnlistedIdle(from)
    PROVE  Follows(start, to) /\ UnlistedIdle(to)
<1>1. KeepsRunning(start, to)
  BY DEF Follows, KeepsRunning, Advances
<1>2. ASSUME NEW c \in Cluster, start[c].pos > 0, to[c].pos > 0
      PROVE  Onward(start[c].up, to[c].up) /\ Onward(start[c].ops, to[c].ops)
  <2>1. start[c] \in Slot /\ from[c] \in Slot /\ to[c] \in Slot
    BY DEF ClusterList
  <2>2. /\ start[c].up \in State /\ from[c].up \in State /\ to[c].up \in State
        /\ start[c].ops \in State /\ from[c].ops \in State /\ to[c].ops \in State
    BY <2>1 DEF Slot
  <2>3. /\ Onward(start[c].up, from[c].up) /\ Onward(start[c].ops, from[c].ops)
        /\ Onward(from[c].up, to[c].up) /\ Onward(from[c].ops, to[c].ops)
    BY <1>2 DEF Follows, MovesOnward, Advances
  <2> QED
    BY <2>2, <2>3, OnwardTransitive
<1>3. UnlistedIdle(to)
  BY DEF UnlistedIdle, Advances
<1> QED
  BY <1>1, <1>2, <1>3 DEF Follows, MovesOnward

-----------------------------------------------------------------------------
(* PassInv is preserved                                                    *)

\* The working copy follows from the status the pass reads.
LEMMA FetchFollows ==
    ASSUME IInv, PassInv, NEW w \in wake, Fetch(w)
    PROVE  PassInv'
<1>1. PICK canary \in Selections(cache.canary, matches["canary"]),
           main \in Selections(cache.main, matches["main"]) :
          obj' = [cache EXCEPT !.canary = canary, !.main = main]
  BY DEF Fetch
<1>2. /\ cache \in Status
      /\ cache.canary \in ClusterList
      /\ cache.main \in ClusterList
      /\ matches["canary"] \in SUBSET Cluster
      /\ matches["main"] \in SUBSET Cluster
  BY DEF IInv, TypeOK, Status, Field
<1>3. /\ Follows(cache.canary, canary) /\ UnlistedIdle(canary)
      /\ Follows(cache.main, main) /\ UnlistedIdle(main)
  BY <1>2, SelectionFollows DEF PassInv, UnlistedIdleStatus
<1>4. obj'.canary = canary /\ obj'.main = main
  BY <1>1, <1>2 DEF Status
<1>5. cr' = cr /\ cache' = cache /\ base' = cache
  BY DEF Fetch
<1> QED
  BY <1>3, <1>4, <1>5
     DEF PassInv, UnlistedIdleStatus, UnlistedIdle, Follows, KeepsRunning, MovesOnward

\* The part of a pass that rewrites the list it rolls.
LEMMA RollFollows ==
    ASSUME IInv, PassInv, NEW list \in ClusterList, NEW status \in Status,
           Advances(Rolling(obj), list),
           status.main = Rolled(obj, list).main,
           status.canary = Rolled(obj, list).canary
    PROVE  /\ Follows(base.main, status.main) /\ UnlistedIdle(status.main)
           /\ Follows(base.canary, status.canary) /\ UnlistedIdle(status.canary)
<1>1. /\ obj \in Status /\ base \in Status
      /\ obj.main \in ClusterList /\ obj.canary \in ClusterList
      /\ base.main \in ClusterList /\ base.canary \in ClusterList
  BY DEF IInv, TypeOK, Status
<1>2. /\ Follows(base.main, obj.main) /\ UnlistedIdle(obj.main)
      /\ Follows(base.canary, obj.canary) /\ UnlistedIdle(obj.canary)
  BY DEF PassInv, UnlistedIdleStatus
<1>3. CASE RollsCanaries(obj)
  <2>1. status.main = obj.main /\ status.canary = list /\ Rolling(obj) = obj.canary
    BY <1>1, <1>3 DEF Rolled, Rolling, Status
  <2> QED
    BY <1>1, <1>2, <2>1, FollowsOnward
<1>4. CASE ~RollsCanaries(obj)
  <2>1. status.main = list /\ status.canary = obj.canary /\ Rolling(obj) = obj.main
    BY <1>1, <1>4 DEF Rolled, Rolling, Status
  <2> QED
    BY <1>1, <1>2, <2>1, FollowsOnward
<1> QED
  BY <1>3, <1>4

\* It still does when the next batch has been started,
LEMMA ApplyFollows ==
    ASSUME IInv, PassInv, Apply
    PROVE  PassInv'
<1> DEFINE list == Rolling(obj)
<1>1. PICK refused \in SUBSET Creations(list) :
          obj' = [Rolled(obj, Started(list, Created(list, refused))) EXCEPT
                        !.conds.applied =
                            IF AllCreated(list, Created(list, refused))
                            THEN "true" ELSE "false"]
  BY DEF Apply
<1> DEFINE created == Created(list, refused)
           rolled == Rolled(obj, Started(list, created))
<1>2. obj \in Status /\ list \in ClusterList
  BY RolledTyped, NoStatusTyped DEF IInv, TypeOK, Status
<1>3. Started(list, created) \in ClusterList
  BY <1>2, StartedTyped
<1>4. Advances(list, Started(list, created))
  BY <1>2, StartedAdvances DEF Created
<1>5. rolled \in Status
  BY <1>2, <1>3, RolledTyped
<1>6. obj'.main = rolled.main /\ obj'.canary = rolled.canary
  BY <1>1, <1>5 DEF Status, Conditions
<1>7. /\ Follows(base.main, rolled.main) /\ UnlistedIdle(rolled.main)
      /\ Follows(base.canary, rolled.canary) /\ UnlistedIdle(rolled.canary)
  BY <1>3, <1>4, <1>5, RollFollows
<1>8. cr' = cr /\ cache' = cache /\ base' = base
  BY DEF Apply
<1> QED
  BY <1>6, <1>7, <1>8
     DEF PassInv, UnlistedIdleStatus, UnlistedIdle, Follows, KeepsRunning, MovesOnward

\* when the ManifestWorks have been looked at,
LEMMA ObserveFollows ==
    ASSUME IInv, PassInv, Observe
    PROVE  PassInv'
<1> DEFINE list == Rolling(obj)
           seen == IF Observes(obj.conds) THEN Observed(list) ELSE list
           rolled == Rolled(obj, seen)
<1>1. obj \in Status /\ list \in ClusterList
  BY RolledTyped, NoStatusTyped DEF IInv, TypeOK, Status
<1>2. seen \in ClusterList
  BY <1>1, ObservedTyped DEF IInv
<1>3. Advances(list, seen)
  <2>1. Advances(list, list)
    BY DEF Advances, Onward, Outcome
  <2> QED
    BY <1>1, <2>1, ObservedAdvances
<1>4. rolled \in Status
  BY <1>1, <1>2, RolledTyped
<1>5. obj'.main = rolled.main /\ obj'.canary = rolled.canary
  BY <1>4 DEF Observe, Status, Conditions
<1>6. /\ Follows(base.main, rolled.main) /\ UnlistedIdle(rolled.main)
      /\ Follows(base.canary, rolled.canary) /\ UnlistedIdle(rolled.canary)
  BY <1>2, <1>3, <1>4, RollFollows
<1>7. cr' = cr /\ cache' = cache /\ base' = base
  BY DEF Observe
<1> QED
  BY <1>5, <1>6, <1>7
     DEF PassInv, UnlistedIdleStatus, UnlistedIdle, Follows, KeepsRunning, MovesOnward

\* and when the conditions have been set.
LEMMA SettleFollows ==
    ASSUME IInv, PassInv, Settle
    PROVE  PassInv'
<1>1. obj'.main = obj.main /\ obj'.canary = obj.canary
  BY DEF IInv, TypeOK, Settle, Status
<1>2. cr' = cr /\ cache' = cache /\ base' = base
  BY DEF Settle
<1> QED
  BY <1>1, <1>2
     DEF PassInv, UnlistedIdleStatus, UnlistedIdle, Follows, KeepsRunning, MovesOnward

\* The steps that end a pass or do not touch one.
LEMMA RestFollows ==
    ASSUME PassInv,
           cr' \in {cr, obj}, cache' \in {cr, cache},
           \/ obj' = obj /\ base' = base
           \/ obj' = NoStatus /\ base' = NoStatus
    PROVE  PassInv'
<1>1. UnlistedIdleStatus(NoStatus)
  BY DEF UnlistedIdleStatus, UnlistedIdle, NoStatus, NoClusters, SlotAt
<1>2. /\ Follows(NoStatus.main, NoStatus.main)
      /\ Follows(NoStatus.canary, NoStatus.canary)
  BY DEF Follows, KeepsRunning, MovesOnward, NoStatus, NoClusters, SlotAt, Running
<1>3. UnlistedIdleStatus(cr)' /\ UnlistedIdleStatus(cache)'
  BY DEF PassInv, UnlistedIdleStatus, UnlistedIdle
<1>4. CASE obj' = obj /\ base' = base
  BY <1>3, <1>4
     DEF PassInv, UnlistedIdleStatus, UnlistedIdle, Follows, KeepsRunning, MovesOnward
<1>5. CASE obj' = NoStatus /\ base' = NoStatus
  BY <1>1, <1>2, <1>3, <1>5
     DEF PassInv, UnlistedIdleStatus, UnlistedIdle, Follows, KeepsRunning, MovesOnward
<1> QED
  BY <1>4, <1>5

\* PassInv holds at first: nothing is listed.
LEMMA InitImpliesPassInv == Init => PassInv
  BY DEF Init, PassInv, UnlistedIdleStatus, UnlistedIdle, Follows, KeepsRunning,
         MovesOnward, NoStatus, NoClusters, SlotAt, Running

\* Every step keeps it.
LEMMA NextKeepsPassInv == IInv /\ PassInv /\ [Next]_vars => PassInv'
<1> SUFFICES ASSUME IInv, PassInv, [Next]_vars
             PROVE  PassInv'
  OBVIOUS
<1> USE DEF reconciler
<1>1. ASSUME NEW w \in wake, Fetch(w) \/ SelectionPanics(w) \/ ListFails(w)
      PROVE  PassInv'
  BY <1>1, FetchFollows, RestFollows DEF SelectionPanics, ListFails
<1>2. CASE Pass
  <2>1. CASE Write
    BY <2>1, RestFollows DEF Write, EndPass, Rest
  <2> QED
    BY <1>2, <2>1, ApplyFollows, ObserveFollows, SettleFollows DEF Pass
<1>3. CASE WriteFails
  BY <1>3, RestFollows DEF WriteFails, EndPass, Rest
<1>4. CASE SyncCache
  BY <1>4, RestFollows DEF SyncCache
<1>5. CASE Crash \/ Restart
  BY <1>5, RestFollows DEF Crash, Restart, Reboot, Rest
<1>6. CASE Agents
  BY <1>6, AgentsLeave, RestFollows DEF reconciler
<1>7. CASE \E c \in Cluster, k \in Kind : Expire(c, k)
  BY <1>7, RestFollows DEF Expire
<1>8. CASE \E field \in Editable, chosen \in SUBSET Cluster : Relabel(field, chosen)
  BY <1>8, RestFollows DEF Relabel
<1>9. CASE UNCHANGED vars
  BY <1>9, RestFollows DEF vars
<1> QED
  BY <1>1, <1>2, <1>3, <1>4, <1>5, <1>6, <1>7, <1>8, <1>9 DEF Next, Reconciler

\* The inductive invariant of the history properties: a working copy goes on
\* from the status its pass has read.
THEOREM PassInvariance == Spec => [](IInv /\ PassInv)
<1>1. Init => PassInv
  BY InitImpliesPassInv
<1>2. IInv /\ PassInv /\ [Next]_vars => PassInv'
  BY NextKeepsPassInv
<1> QED
  BY <1>1, <1>2, Invariance, PTL DEF Spec

-----------------------------------------------------------------------------
(* The theorems                                                            *)

\* The API server takes over the working copy of a pass only if the pass has
\* read the status the server holds, and the working copy follows from that.
LEMMA StatusFollows ==
    ASSUME IInv, PassInv, [Next]_vars
    PROVE  Follows(cr.main, cr'.main) /\ Follows(cr.canary, cr'.canary)
<1>1. CASE cr' = cr
  <2>1. /\ KeepsRunning(cr.main, cr.main)
        /\ KeepsRunning(cr.canary, cr.canary)
    BY DEF IInv, TypeOK, Status, ClusterList, Slot, PassInv, UnlistedIdleStatus,
           UnlistedIdle, KeepsRunning, Running
  <2> QED
    BY <1>1, <2>1 DEF Follows, MovesOnward, Onward, Outcome
<1>2. CASE base = cr /\ cr' = obj
  BY <1>2 DEF PassInv
<1>3. (base = cr /\ cr' = obj) \/ cr' = cr
  BY AgentsLeave
     DEF Next, Reconciler, Pass, Fetch, SelectionPanics, ListFails, Apply, Observe,
         Settle, Write, WriteFails, SyncCache, Crash, Restart, Reboot, Expire, Relabel, vars
<1> QED
  BY <1>1, <1>2, <1>3

\* A cluster whose upgrade is running stays on its list, however the clusters
\* are relabelled and whatever the removal loop skips.
THEOREM RunningStays == Spec => RunningStaysListed
<1>1. IInv /\ PassInv /\ [Next]_vars =>
          [/\ KeepsRunning(cr.main, cr.main')
           /\ KeepsRunning(cr.canary, cr.canary')]_vars
  BY StatusFollows DEF Follows
<1> QED
  BY <1>1, PassInvariance, PTL DEF Spec, RunningStaysListed

\* No upgrade that is on the status starts over or leaves its outcome.
THEOREM NothingStartsOver == Spec => NeverStartsOver
<1>1. IInv /\ PassInv /\ [Next]_vars =>
          [/\ MovesOnward(cr.main, cr.main')
           /\ MovesOnward(cr.canary, cr.canary')]_vars
  BY StatusFollows DEF Follows
<1> QED
  BY <1>1, PassInvariance, PTL DEF Spec, NeverStartsOver

=============================================================================
