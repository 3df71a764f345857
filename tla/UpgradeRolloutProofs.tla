------------------------ MODULE UpgradeRolloutProofs ------------------------
(***************************************************************************)
(* Theorems about a rollout whose placements keep selecting the clusters   *)
(* they select at first (Editable = {}): what Complete and CanaryComplete  *)
(* mean, that the canaries go first, that the status the users see         *)
(* implements UpgradeRollout, that no ManifestWork is left behind, and how *)
(* many clusters are really upgrading.  They hold for any stale reads,     *)
(* lost writes, refused requests and restarts; the last two have their     *)
(* exceptions.                                                             *)
(*                                                                         *)
(* The hypothesis is needed: a cluster that joins after Complete is on the *)
(* list, not upgraded, and Complete stays.                                 *)
(***************************************************************************)
EXTENDS UpgradeBatchProofs

-----------------------------------------------------------------------------
(* The invariant                                                           *)

Selected(status) ==
    /\ Listed(status.main) = InitialMain
    /\ Listed(status.canary) = InitialCanary

Wanted == WantVersion \/ WantOperators

\* A status lists nothing or what is selected, and its conditions are true of
\* its own lists; nothing goes on in a rollout that asks for nothing.
Reliable(status) ==
    /\ status = NoStatus \/ Selected(status)
    /\ status.conds.complete = "true" => CompleteAll(status.main)
    /\ status.conds.canaryComplete = "true" => CompleteAll(status.canary)
    /\ status.conds.inProgress = "true" => Wanted
    /\ status.conds.complete # "absent" => Wanted
    /\ status.conds.canaryComplete # "absent" => Wanted

\* The pass that has read this status rolls the canaries.
Gated(status) == InitialCanary # {} /\ status.conds.canaryComplete # "true"

SameStates(from, to) ==
    \A c \in Cluster : to[c].up = from[c].up /\ to[c].ops = from[c].ops

\* A pass moves one of the lists, the one the status it has read asks for.
OneListMoves ==
    /\ pc \in {"idle", "panicked"} => obj = NoStatus /\ base = NoStatus
    /\ pc \notin {"idle", "panicked"} => Selected(obj)
    /\ pc \in {"apply", "observe", "settle"} =>
          obj.conds.canaryComplete = base.conds.canaryComplete
    /\ Gated(base) => SameStates(base.main, obj.main)
    /\ ~Gated(base) => SameStates(base.canary, obj.canary)
    /\ base.conds.complete = "true" => obj.conds.complete = "true"

FixedSelection ==
    matches = [field \in Field |->
                  IF field = "main" THEN InitialMain ELSE InitialCanary]

RolloutInv ==
    /\ FixedSelection
    /\ Reliable(cr)
    /\ Reliable(cache)
    /\ Reliable(obj)
    /\ Reliable(base)
    /\ OneListMoves

-----------------------------------------------------------------------------
(* Lemmas about one list                                                   *)

\* When the clusters listed are among the selected ones, the selection adds
\* the others and changes no state.
LEMMA SelectionFixed ==
    ASSUME NEW list \in ClusterList, NEW chosen \in SUBSET Cluster,
           NEW result \in Selections(list, chosen),
           Phased(list), Listed(list) \subseteq chosen
    PROVE  Listed(result) = chosen /\ SameStates(list, result)
<1> DEFINE added == chosen \ Listed(list)
<1>1. PICK kept \in SUBSET Listed(list) : Rearranged(list, chosen, result, kept)
  BY SelectionRearranges
<1>2. kept = Listed(list)
  BY <1>1 DEF Rearranged
<1>3. ASSUME NEW c \in Listed(list)
      PROVE  result[c].pos > 0 /\ result[c].up = list[c].up /\ result[c].ops = list[c].ops
  <2>1. Cardinality(kept \cap Before(list, c)) \in Nat
    BY <1>2, PlaceFits
  <2>2. /\ result[c].pos = 1 + Cardinality(kept \cap Before(list, c))
        /\ result[c].up = list[c].up /\ result[c].ops = list[c].ops
    BY <1>1, <1>2 DEF Rearranged
  <2> QED
    BY <2>1, <2>2
<1>4. ASSUME NEW c \in Cluster, c \notin Listed(list)
      PROVE  list[c].up = "NotStarted" /\ list[c].ops = "NotStarted"
  <2>1. list[c].pos = 0
    BY <1>4 DEF Listed, ClusterList, Slot
  <2> QED
    BY <2>1 DEF Phased, Begun
<1>5. ASSUME NEW c \in added
      PROVE  /\ result[c].pos > 0
             /\ result[c].up = "NotStarted" /\ result[c].ops = "NotStarted"
  <2>1. Cardinality(kept) \in Nat
    BY CountIsNat DEF Listed
  <2>2. /\ result[c].pos \in Nat /\ result[c].pos > Cardinality(kept)
        /\ result[c].up = "NotStarted" /\ result[c].ops = "NotStarted"
    BY <1>1 DEF Rearranged
  <2> QED
    BY <2>1, <2>2
<1>6. ASSUME NEW c \in Cluster, c \notin chosen
      PROVE  /\ ~(result[c].pos > 0)
             /\ result[c].up = "NotStarted" /\ result[c].ops = "NotStarted"
  <2>1. result[c] = SlotAt(0)
    BY <1>1, <1>2, <1>6 DEF Rearranged
  <2> QED
    BY <2>1 DEF SlotAt
<1>7. Listed(result) = chosen
  <2>1. ASSUME NEW c \in chosen
        PROVE  result[c].pos > 0
    BY <1>3, <1>5
  <2> QED
    BY <1>6, <2>1 DEF Listed
<1>8. SameStates(list, result)
  <2> SUFFICES ASSUME NEW c \in Cluster
               PROVE  result[c].up = list[c].up /\ result[c].ops = list[c].ops
    BY DEF SameStates
  <2> QED
    BY <1>3, <1>4, <1>5, <1>6
<1> QED
  BY <1>7, <1>8

\* On a list that is complete there is nothing to start.
LEMMA CompleteStartsNothing ==
    ASSUME NEW list \in ClusterList, CompleteAll(list)
    PROVE  Creations(list) = {}
<1> SUFFICES ASSUME NEW p \in Creations(list)
             PROVE  FALSE
  OBVIOUS
<1>1. /\ p[1] \in Listed(list) /\ p[2] \in Kind
      /\ IF p[2] = "upgrade" THEN StartsUpgrade(list, p[1])
         ELSE StartsOperators(list, p[1]) /\ WantOperators
  BY DEF Creations, Batch
<1> QED
  BY <1>1 DEF CompleteAll, StartsUpgrade, StartsOperators, OperatorsEnded, Upgradable

\* A list that is complete stays so when a pass starts the next batch,
LEMMA StartedStaysComplete ==
    ASSUME NEW list \in ClusterList, NEW created \in SUBSET Creations(list),
           CompleteAll(list)
    PROVE  CompleteAll(Started(list, created))
<1>1. created = {}
  BY CompleteStartsNothing
<1>2. ASSUME NEW c \in Cluster
      PROVE  Started(list, created)[c] = list[c]
  <2>1. <<c, "upgrade">> \notin created /\ <<c, "operators">> \notin created
    BY <1>1
  <2> QED
    BY <2>1, StartedSlot
<1> QED
  BY <1>2 DEF CompleteAll, Listed

\* and when it looks at the ManifestWorks.
LEMMA ObservedStaysComplete ==
    ASSUME NEW list \in ClusterList, CompleteAll(list)
    PROVE  CompleteAll(Observed(list))
<1> SUFFICES ASSUME NEW c \in Listed(Observed(list))
             PROVE  /\ Observed(list)[c].up = list[c].up
                    /\ Observed(list)[c].ops = list[c].ops
                    /\ c \in Listed(list)
  BY DEF CompleteAll
<1>1. c \in Cluster
  BY DEF Listed
<1>2. /\ Observed(list)[c].pos = list[c].pos
      /\ Observed(list)[c].up = ObservedUpgrade(list[c].up, work[c]["upgrade"])
      /\ \/ Observed(list)[c].ops = list[c].ops
         \/ Observed(list)[c].ops = ObservedOperators(list[c].ops, work[c]["operators"])
  BY <1>1, ObservedSlot
<1>3. c \in Listed(list)
  BY <1>1, <1>2 DEF Listed
<1>4. list[c].up \in {"Complete", "NotStarted"} /\ list[c].ops \in {"Complete", "NotStarted"}
  BY <1>3 DEF CompleteAll
<1> QED
  BY <1>2, <1>3, <1>4 DEF ObservedUpgrade, ObservedOperators

-----------------------------------------------------------------------------
(* The steps of a pass                                                     *)

\* The lists of a status are among the selected clusters.
LEMMA ReliableListed ==
    ASSUME NEW status \in Status, Reliable(status)
    PROVE  Listed(status.main) \subseteq InitialMain /\ Listed(status.canary) \subseteq InitialCanary
<1>1. CASE status = NoStatus
  BY <1>1 DEF NoStatus, NoClusters, SlotAt, Listed
<1>2. CASE Selected(status)
  BY <1>2 DEF Selected
<1> QED
  BY <1>1, <1>2 DEF Reliable

\* That a list is complete does not depend on the places of its clusters.
LEMMA CompleteBySelection ==
    ASSUME NEW from, NEW to, CompleteAll(from), SameStates(from, to),
           Listed(to) = Listed(from)
    PROVE  CompleteAll(to)
  BY DEF CompleteAll, SameStates, Listed

\* A status that says Complete has been stored, so it lists the selection.
LEMMA CompleteIsSelected ==
    ASSUME NEW status, Reliable(status),
           status.conds.complete = "true" \/ status.conds.canaryComplete = "true"
    PROVE  Selected(status)
<1>1. status # NoStatus
  BY DEF NoStatus, NoConditions
<1> QED
  BY <1>1 DEF Reliable

\* A pass begins with the selected clusters, in the states it has read.
LEMMA FetchRollout ==
    ASSUME IInv, BatchInv, RolloutInv, NEW w \in wake, Fetch(w)
    PROVE  /\ Reliable(obj') /\ Selected(obj')
           /\ obj'.conds = cache.conds
           /\ SameStates(cache.main, obj'.main)
           /\ SameStates(cache.canary, obj'.canary)
<1>1. PICK canary \in Selections(cache.canary, matches["canary"]),
           main \in Selections(cache.main, matches["main"]) :
          obj' = [cache EXCEPT !.canary = canary, !.main = main]
  BY DEF Fetch
<1>2. /\ cache \in Status
      /\ cache.canary \in ClusterList
      /\ cache.main \in ClusterList
      /\ InitialMain \in SUBSET Cluster
      /\ InitialCanary \in SUBSET Cluster
      /\ matches["main"] = InitialMain
      /\ matches["canary"] = InitialCanary
  BY ConstantsAssumption DEF IInv, TypeOK, Status, RolloutInv, FixedSelection, Field
<1>3. /\ Listed(cache.main) \subseteq InitialMain
      /\ Listed(cache.canary) \subseteq InitialCanary
  BY <1>2, ReliableListed DEF RolloutInv
<1>4. Phased(cache.main) /\ Phased(cache.canary)
  BY DEF BatchInv, OrderlyStatus, Orderly
<1>5. /\ Listed(main) = InitialMain /\ SameStates(cache.main, main)
      /\ Listed(canary) = InitialCanary /\ SameStates(cache.canary, canary)
  BY <1>1, <1>2, <1>3, <1>4, SelectionFixed
<1>6. obj'.canary = canary /\ obj'.main = main /\ obj'.conds = cache.conds
  BY <1>1, <1>2 DEF Status
<1>7. Selected(obj')
  BY <1>5, <1>6 DEF Selected
<1>8. /\ cache.conds.complete = "true" => CompleteAll(main)
      /\ cache.conds.canaryComplete = "true" => CompleteAll(canary)
  <2>1. Reliable(cache)
    BY DEF RolloutInv
  <2>2. ASSUME cache.conds.complete = "true" \/ cache.conds.canaryComplete = "true"
        PROVE  Listed(cache.main) = InitialMain /\ Listed(cache.canary) = InitialCanary
    BY <2>1, <2>2, CompleteIsSelected DEF Selected
  <2> QED
    BY <1>5, <2>1, <2>2, CompleteBySelection DEF Reliable
<1>9. Reliable(obj')
  BY <1>6, <1>7, <1>8 DEF Reliable, RolloutInv
<1> QED
  BY <1>5, <1>6, <1>7, <1>9

\* The part of a pass that rewrites the list it rolls: the other list stays,
\* and a list that is complete stays so.
LEMMA RollRollout ==
    ASSUME NEW from \in Status, NEW list \in ClusterList, NEW to,
           Selected(from),
           \A c \in Cluster : list[c].pos = Rolling(from)[c].pos,
           CompleteAll(Rolling(from)) => CompleteAll(list),
           to.main = Rolled(from, list).main,
           to.canary = Rolled(from, list).canary
    PROVE  /\ Selected(to)
           /\ CompleteAll(from.main) => CompleteAll(to.main)
           /\ CompleteAll(from.canary) => CompleteAll(to.canary)
           /\ RollsCanaries(from) => to.main = from.main
           /\ ~RollsCanaries(from) => to.canary = from.canary
<1>1. Listed(list) = Listed(Rolling(from))
  BY DEF Listed
<1>2. CASE RollsCanaries(from)
  <2>1. to.main = from.main /\ to.canary = list /\ Rolling(from) = from.canary
    BY <1>2 DEF Rolled, Rolling, Status
  <2> QED
    BY <1>1, <1>2, <2>1 DEF Selected
<1>3. CASE ~RollsCanaries(from)
  <2>1. to.main = list /\ to.canary = from.canary /\ Rolling(from) = from.main
    BY <1>3 DEF Rolled, Rolling, Status
  <2> QED
    BY <1>1, <1>3, <2>1 DEF Selected
<1> QED
  BY <1>2, <1>3

\* Within a pass the canaries are rolled as the status read asks for.
LEMMA GateIsRead ==
    ASSUME RolloutInv, pc \in {"apply", "observe", "settle"}
    PROVE  RollsCanaries(obj) <=> Gated(base)
  BY DEF RolloutInv, OneListMoves, Selected, RollsCanaries, Gated

\* The next batch is started,
LEMMA ApplyRollout ==
    ASSUME IInv, BatchInv, RolloutInv, Apply
    PROVE  RolloutInv'
<1> DEFINE list == Rolling(obj)
<1>1. PICK refused \in SUBSET Creations(list) :
          obj' = [Rolled(obj, Started(list, Created(list, refused))) EXCEPT
                        !.conds.applied =
                            IF AllCreated(list, Created(list, refused))
                            THEN "true" ELSE "false"]
  BY DEF Apply
<1> DEFINE created == Created(list, refused)
           next == Started(list, created)
           rolled == Rolled(obj, next)
<1>2. obj \in Status /\ list \in ClusterList /\ Selected(obj)
  BY RolledTyped, NoStatusTyped DEF IInv, TypeOK, Status, Apply, RolloutInv, OneListMoves
<1>3. created \in SUBSET Creations(list)
  BY DEF Created
<1>4. /\ next \in ClusterList
      /\ \A c \in Cluster : next[c].pos = list[c].pos
      /\ CompleteAll(list) => CompleteAll(next)
  <2>1. next \in ClusterList
    BY <1>2, StartedTyped
  <2>2. Advances(list, next)
    BY <1>2, <1>3, StartedAdvances
  <2>3. CompleteAll(list) => CompleteAll(next)
    BY <1>2, <1>3, StartedStaysComplete
  <2> QED
    BY <2>1, <2>2, <2>3 DEF Advances
<1> HIDE DEF next
<1>5. rolled \in Status /\ rolled.conds = obj.conds
  BY <1>2, <1>4, RolledTyped
<1>6. /\ obj'.main = rolled.main /\ obj'.canary = rolled.canary
      /\ obj'.conds.complete = obj.conds.complete
      /\ obj'.conds.canaryComplete = obj.conds.canaryComplete
      /\ obj'.conds.inProgress = obj.conds.inProgress
  BY <1>1, <1>5 DEF Status, Conditions, next
<1>7. /\ Selected(obj')
      /\ CompleteAll(obj.main) => CompleteAll(obj'.main)
      /\ CompleteAll(obj.canary) => CompleteAll(obj'.canary)
      /\ RollsCanaries(obj) => obj'.main = obj.main
      /\ ~RollsCanaries(obj) => obj'.canary = obj.canary
  BY <1>2, <1>4, <1>6, RollRollout
<1>8. Reliable(obj')
  BY <1>6, <1>7 DEF Reliable, RolloutInv
<1>9. cr' = cr /\ cache' = cache /\ base' = base /\ matches' = matches /\ pc' = "observe"
  BY DEF Apply
<1>10. pc = "apply" /\ (RollsCanaries(obj) <=> Gated(base))
  BY GateIsRead DEF Apply
<1>11. OneListMoves'
  BY <1>6, <1>7, <1>9, <1>10 DEF RolloutInv, OneListMoves, Gated, SameStates, Selected, Listed
<1> QED
  BY <1>8, <1>9, <1>11
     DEF RolloutInv, Reliable, Selected, Listed, CompleteAll, Wanted, FixedSelection

\* the ManifestWorks are looked at,
LEMMA ObserveRollout ==
    ASSUME IInv, BatchInv, RolloutInv, Observe
    PROVE  RolloutInv'
<1> DEFINE list == Rolling(obj)
           next == IF Observes(obj.conds) THEN Observed(list) ELSE list
           rolled == Rolled(obj, next)
<1>1. obj \in Status /\ list \in ClusterList /\ Selected(obj)
  BY RolledTyped, NoStatusTyped DEF IInv, TypeOK, Status, Observe, RolloutInv, OneListMoves
<1>2. /\ next \in ClusterList
      /\ \A c \in Cluster : next[c].pos = list[c].pos
      /\ CompleteAll(list) => CompleteAll(next)
  <2>1. next \in ClusterList
    BY <1>1, ObservedTyped DEF IInv
  <2>2. ASSUME NEW c \in Cluster
        PROVE  next[c].pos = list[c].pos
    BY <1>1, ObservedSlot
  <2>3. CompleteAll(list) => CompleteAll(next)
    BY <1>1, ObservedStaysComplete
  <2> QED
    BY <2>1, <2>2, <2>3
<1> HIDE DEF next
<1>3. rolled \in Status /\ rolled.conds = obj.conds
  BY <1>1, <1>2, RolledTyped
<1>4. /\ obj'.main = rolled.main /\ obj'.canary = rolled.canary
      /\ obj'.conds.complete = obj.conds.complete
      /\ obj'.conds.canaryComplete = obj.conds.canaryComplete
      /\ obj'.conds.inProgress = InProgressAfter(obj.conds, list)
  BY <1>3 DEF Observe, Status, Conditions, next
<1>5. /\ Selected(obj')
      /\ CompleteAll(obj.main) => CompleteAll(obj'.main)
      /\ CompleteAll(obj.canary) => CompleteAll(obj'.canary)
      /\ RollsCanaries(obj) => obj'.main = obj.main
      /\ ~RollsCanaries(obj) => obj'.canary = obj.canary
  BY <1>1, <1>2, <1>4, RollRollout
<1>6. InProgressAfter(obj.conds, list) = "true" => Wanted
  <2>1. ASSUME InProgress(list)
        PROVE  Wanted
    <3>1. PICK c \in Cluster : Begun(list[c])
      BY <2>1 DEF InProgress, Begun, Listed
    <3>2. Phased(list)
      BY <1>1, RolledTyped DEF BatchInv, OrderlyStatus, Orderly
    <3> QED
      BY <3>1, <3>2 DEF Phased, Begun, Wanted, Upgradable
  <2>2. obj.conds.inProgress = "true" => Wanted
    BY DEF RolloutInv, Reliable
  <2> QED
    BY <2>1, <2>2 DEF InProgressAfter
<1>7. Reliable(obj')
  BY <1>4, <1>5, <1>6 DEF Reliable, RolloutInv
<1>8. cr' = cr /\ cache' = cache /\ base' = base /\ matches' = matches /\ pc' = "settle"
  BY DEF Observe, environment
<1>9. pc = "observe" /\ (RollsCanaries(obj) <=> Gated(base))
  BY GateIsRead DEF Observe
<1>10. OneListMoves'
  BY <1>4, <1>5, <1>8, <1>9 DEF RolloutInv, OneListMoves, Gated, SameStates, Selected, Listed
<1> QED
  BY <1>7, <1>8, <1>10
     DEF RolloutInv, Reliable, Selected, Listed, CompleteAll, Wanted, FixedSelection

\* and the conditions are set: Complete only when every cluster is.
LEMMA SettleRollout ==
    ASSUME IInv, BatchInv, RolloutInv, Settle
    PROVE  RolloutInv'
<1> DEFINE after == ConditionsAfter(obj)
<1>1. obj \in Status /\ obj.conds \in Conditions /\ Selected(obj)
  BY DEF IInv, TypeOK, Status, Settle, RolloutInv, OneListMoves
<1>2. /\ after.inProgress = obj.conds.inProgress
      /\ after.complete = CompleteAfter(obj.conds.complete, obj.main,
                                       obj.conds.inProgress = "true")
      /\ after.canaryComplete =
            CompleteAfter(obj.conds.canaryComplete, obj.canary,
                          obj.conds.inProgress = "true" /\ Listed(obj.canary) # {})
  BY <1>1 DEF ConditionsAfter, Conditions
<1> HIDE DEF after
<1>3. /\ obj'.main = obj.main /\ obj'.canary = obj.canary
      /\ obj'.conds = after
  BY <1>1 DEF Settle, Status, after
<1>4. /\ obj.conds.complete \in Cond /\ obj.conds.canaryComplete \in Cond
  BY <1>1 DEF Conditions
<1>5. Reliable(obj)
  BY DEF RolloutInv
<1>6. /\ after.complete = "true" => CompleteAll(obj.main)
      /\ after.canaryComplete = "true" => CompleteAll(obj.canary)
      /\ obj.conds.complete = "true" => after.complete = "true"
      /\ after.complete # "absent" => Wanted
      /\ after.canaryComplete # "absent" => Wanted
  BY <1>2, <1>4, <1>5 DEF CompleteAfter, Cond, Reliable
<1>7. Selected(obj')
  BY <1>1, <1>3 DEF Selected
<1>8. Reliable(obj')
  BY <1>2, <1>3, <1>5, <1>6, <1>7 DEF Reliable
<1>9. cr' = cr /\ cache' = cache /\ base' = base /\ matches' = matches /\ pc' = "write"
  BY DEF Settle
<1>10. pc = "settle"
  BY DEF Settle
<1>11. OneListMoves'
  BY <1>3, <1>6, <1>7, <1>9, <1>10 DEF RolloutInv, OneListMoves, Gated, SameStates, Selected, Listed
<1> QED
  BY <1>8, <1>9, <1>11
     DEF RolloutInv, Reliable, Selected, Listed, CompleteAll, Wanted, FixedSelection

\* A pass begins with what it has read.
LEMMA FetchKeepsRollout ==
    ASSUME IInv, BatchInv, RolloutInv, NEW w \in wake, Fetch(w)
    PROVE  RolloutInv'
<1>1. /\ Reliable(obj') /\ Selected(obj')
      /\ obj'.conds = cache.conds
      /\ SameStates(cache.main, obj'.main)
      /\ SameStates(cache.canary, obj'.canary)
  BY FetchRollout
<1>2. cr' = cr /\ cache' = cache /\ base' = cache /\ matches' = matches /\ pc' = "apply"
  BY DEF Fetch, environment
<1>3. OneListMoves'
  BY <1>1, <1>2 DEF OneListMoves, Gated, SameStates, Selected, Listed
<1> QED
  BY <1>1, <1>2, <1>3
     DEF RolloutInv, Reliable, Selected, Listed, CompleteAll, Wanted, FixedSelection

\* The steps that end a pass or do not touch one.
LEMMA RestRollout ==
    ASSUME RolloutInv,
           cr' \in {cr, obj}, cache' \in {cr, cache}, matches' = matches,
           \/ obj' = obj /\ base' = base /\ pc' = pc
           \/ obj' = obj /\ base' = base /\ {pc, pc'} \subseteq {"idle", "panicked"}
           \/ obj' = NoStatus /\ base' = NoStatus /\ pc' = "idle"
    PROVE  RolloutInv'
<1>1. Reliable(NoStatus)
  BY DEF Reliable, NoStatus, NoConditions
<1>2. Reliable(cr') /\ Reliable(cache') /\ Reliable(obj') /\ Reliable(base')
  BY <1>1 DEF RolloutInv
<1>3. OneListMoves'
  <2>1. CASE obj' = NoStatus /\ base' = NoStatus /\ pc' = "idle"
    BY <2>1 DEF OneListMoves, SameStates
  <2>2. CASE obj' = obj /\ base' = base /\ pc' = pc
    BY <2>2 DEF RolloutInv, OneListMoves, SameStates, Gated, Selected, Listed
  <2>3. CASE obj' = obj /\ base' = base /\ {pc, pc'} \subseteq {"idle", "panicked"}
    BY <2>3 DEF RolloutInv, OneListMoves, SameStates, Gated, Selected, Listed
  <2> QED
    BY <2>1, <2>2, <2>3
<1> QED
  BY <1>2, <1>3
     DEF RolloutInv, Reliable, Selected, Listed, CompleteAll, Wanted, FixedSelection

\* Every step keeps it.
LEMMA NextKeepsRolloutInv ==
    ASSUME Editable = {}, IInv, BatchInv, RolloutInv, [Next]_vars
    PROVE  RolloutInv'
<1> USE DEF reconciler, environment
<1>1. ASSUME NEW w \in wake, Fetch(w)
      PROVE  RolloutInv'
  BY <1>1, FetchKeepsRollout
<1>2. ASSUME NEW w \in wake, SelectionPanics(w) \/ ListFails(w)
      PROVE  RolloutInv'
  BY <1>2, RestRollout DEF SelectionPanics, ListFails, Wakes
<1>3. CASE Apply \/ Observe \/ Settle
  BY <1>3, ApplyRollout, ObserveRollout, SettleRollout
<1>4. CASE Write \/ WriteFails
  BY <1>4, RestRollout DEF Write, WriteFails, EndPass, Rest
<1>5. CASE SyncCache
  BY <1>5, RestRollout DEF SyncCache
<1>6. CASE Crash \/ Restart
  BY <1>6, RestRollout DEF Crash, Restart, Reboot, Rest
<1>7. CASE Agents
  BY <1>7, AgentsLeave, RestRollout DEF reconciler
<1>8. CASE \E c \in Cluster, k \in Kind : Expire(c, k)
  BY <1>8, RestRollout DEF Expire
<1>9. CASE UNCHANGED vars
  BY <1>9, RestRollout DEF vars
<1> QED
  BY <1>1, <1>2, <1>3, <1>4, <1>5, <1>6, <1>7, <1>8, <1>9 DEF Next, Reconciler, Pass

\* The inductive invariant of a rollout with a fixed selection.
THEOREM RolloutInvariance ==
    ASSUME Editable = {}
    PROVE  Spec => [](IInv /\ PassInv /\ BatchInv /\ RolloutInv)
<1>1. Init => RolloutInv
  BY DEF Init, RolloutInv, FixedSelection, Reliable, OneListMoves, SameStates, Gated,
         NoStatus, NoConditions
<1>2. IInv /\ BatchInv /\ RolloutInv /\ [Next]_vars => RolloutInv'
  BY NextKeepsRolloutInv
<1> QED
  BY <1>1, <1>2, PassInvariance, BatchInvariance, PTL DEF Spec

-----------------------------------------------------------------------------
(* What Complete means                                                     *)

\* A list that is complete and true: every cluster on it is really done.
LEMMA CompleteIsReal ==
    ASSUME NEW list, Truthful(list), CompleteAll(list), NEW c \in Listed(list)
    PROVE  UpgradedFor(c) /\ ApprovedFor(c)
  BY DEF Listed, Truthful, CompleteAll, UpgradedFor, ApprovedFor

\* Complete (CanaryComplete) is reported when every cluster selected runs the
\* version and has its install plans approved, and not before.
THEOREM CompleteMeansDone ==
    ASSUME Editable = {}
    PROVE  Spec => []CompletionIsReal
<1>1. IInv /\ RolloutInv => CompletionIsReal
  BY CompleteIsReal DEF IInv, TruthfulStatus, RolloutInv, Reliable, CompletionIsReal
<1> QED
  BY <1>1, RolloutInvariance, PTL

-----------------------------------------------------------------------------
(* The canaries go first                                                   *)

\* What the agents do to a ManifestWork,
LEMMA AgentsWork ==
    ASSUME IInv, Agents, NEW c \in Cluster, NEW k \in Kind
    PROVE  \/ work'[c][k] = work[c][k]
           \/ /\ work[c][k].phase = "sent"
              /\ work'[c][k] = [work[c][k] EXCEPT !.phase = "applied"]
           \/ /\ work[c][k].phase = "applied"
              /\ work'[c][k] = [work[c][k] EXCEPT !.phase = "available"]
              /\ managed' = managed
           \/ /\ work[c][k].phase = "available"
              /\ ToReport(c, k) \notin {"nothing", work[c][k].seen}
              /\ work'[c][k] = [work[c][k] EXCEPT !.seen = ToReport(c, k)]
              /\ managed' = managed
<1>0. work \in [Cluster -> [Kind -> Work]]
  BY DEF IInv, TypeOK
<1>1. PICK d \in Cluster : ClusterStep(d)
  BY DEF Agents
<1>2. ASSUME NEW l \in Kind, AgentApplies(d, l) \/ AgentReportsApplied(d, l)
      PROVE  \/ work'[c][k] = work[c][k]
             \/ /\ work[c][k].phase = "sent"
                /\ work'[c][k] = [work[c][k] EXCEPT !.phase = "applied"]
             \/ /\ work[c][k].phase = "applied"
                /\ work'[c][k] = [work[c][k] EXCEPT !.phase = "available"]
                /\ managed' = managed
  BY <1>0, <1>2 DEF AgentApplies, AgentReportsApplied
<1>3. ASSUME NEW l \in Kind, AgentReports(d, l)
      PROVE  \/ work'[c][k] = work[c][k]
             \/ /\ work[c][k].phase = "available"
                /\ ToReport(c, k) \notin {"nothing", work[c][k].seen}
                /\ work'[c][k] = [work[c][k] EXCEPT !.seen = ToReport(c, k)]
                /\ managed' = managed
  BY <1>0, <1>3 DEF AgentReports
<1>4. CASE work' = work
  BY <1>4
<1> QED
  BY <1>1, <1>2, <1>3, <1>4 DEF ClusterStep, ClusterAdvances, JobEnds, AgentRemoves

\* and what happens on a managed cluster.
LEMMA AgentsManaged ==
    ASSUME IInv, Agents, NEW c \in Cluster
    PROVE  \/ managed'[c] = managed[c]
           \/ /\ managed[c].version = "other" /\ work[c]["upgrade"].phase = "sent"
              /\ managed'[c] = [managed[c] EXCEPT !.version = "asked"]
           \/ /\ work[c]["operators"].phase = "sent"
              /\ managed'[c] = [managed[c] EXCEPT !.job = "running"]
           \/ /\ managed[c].version = "asked"
              /\ managed'[c] = [managed[c] EXCEPT !.version = "partial"]
           \/ /\ managed[c].version = "partial"
              /\ managed'[c] = [managed[c] EXCEPT !.version = "completed"]
           \/ /\ managed[c].job = "running" /\ work' = work
              /\ \E outcome \in JobOutcomes :
                    managed'[c] = [managed[c] EXCEPT !.job = outcome,
                                      !.approved = @ \/ outcome = "completed"]
           \/ /\ work[c]["operators"].phase = "absent" /\ work' = work
              /\ managed'[c] = [managed[c] EXCEPT !.job = "none"]
<1>0. managed \in [Cluster -> Managed]
  BY DEF IInv, TypeOK
<1>1. PICK d \in Cluster : ClusterStep(d)
  BY DEF Agents
<1>2. ASSUME NEW l \in Kind, AgentApplies(d, l)
      PROVE  \/ managed'[c] = managed[c]
             \/ /\ managed[c].version = "other" /\ work[c]["upgrade"].phase = "sent"
                /\ managed'[c] = [managed[c] EXCEPT !.version = "asked"]
             \/ /\ work[c]["operators"].phase = "sent"
                /\ managed'[c] = [managed[c] EXCEPT !.job = "running"]
  BY <1>0, <1>2 DEF AgentApplies, Kind, Managed
<1>3. CASE ClusterAdvances(d)
  BY <1>0, <1>3 DEF ClusterAdvances, Managed
<1>4. ASSUME NEW outcome \in JobOutcomes, JobEnds(d, outcome)
      PROVE  \/ managed'[c] = managed[c]
             \/ /\ managed[c].job = "running" /\ work' = work
                /\ managed'[c] = [managed[c] EXCEPT !.job = outcome,
                                      !.approved = @ \/ outcome = "completed"]
  BY <1>0, <1>4 DEF JobEnds, Managed
<1>5. CASE AgentRemoves(d)
  BY <1>0, <1>5 DEF AgentRemoves, Managed
<1>6. CASE managed' = managed
  BY <1>6
<1> QED
  BY <1>1, <1>2, <1>3, <1>4, <1>5, <1>6 DEF ClusterStep, AgentReportsApplied, AgentReports

\* Whatever happens, a cluster that runs the version runs it, and install
\* plans that were approved are; an upgrade is asked for by a ManifestWork.
LEMMA ManagedForward ==
    ASSUME IInv, [Next]_vars, NEW c \in Cluster
    PROVE  /\ managed[c].version = "completed" => managed'[c].version = "completed"
           /\ managed[c].approved => managed'[c].approved
           /\ managed'[c].version = "other" => managed[c].version = "other"
           /\ managed[c].version = "other" /\ managed'[c].version # "other" =>
                 work[c]["upgrade"].phase # "absent"
<1> DEFINE Goes == /\ managed[c].version = "completed" => managed'[c].version = "completed"
                   /\ managed[c].approved => managed'[c].approved
                   /\ managed'[c].version = "other" => managed[c].version = "other"
                   /\ managed[c].version = "other" /\ managed'[c].version # "other" =>
                         work[c]["upgrade"].phase # "absent"
<1> USE DEF environment
<1>0. managed \in [Cluster -> Managed] /\ managed[c] \in Managed
  BY DEF IInv, TypeOK
<1>1. CASE managed' = managed
  BY <1>1
<1>2. ASSUME Agents PROVE Goes
  <2>1. ASSUME NEW outcome \in JobOutcomes,
               managed'[c] = [managed[c] EXCEPT !.job = outcome,
                                 !.approved = @ \/ outcome = "completed"]
        PROVE  Goes
    <3>1. managed'[c].version = managed[c].version
      BY <1>0, <2>1 DEF Managed
    <3>2. managed'[c].approved = (managed[c].approved \/ outcome = "completed")
      BY <1>0, <2>1 DEF Managed
    <3> QED
      BY <3>1, <3>2
  <2>2. CASE managed'[c] = [managed[c] EXCEPT !.version = "asked"]
             /\ managed[c].version = "other" /\ work[c]["upgrade"].phase = "sent"
    BY <1>0, <2>2 DEF Managed
  <2>3. ASSUME NEW job, managed'[c] = [managed[c] EXCEPT !.job = job]
        PROVE  Goes
    BY <1>0, <2>3 DEF Managed
  <2>4. CASE \/ /\ managed[c].version = "asked"
                /\ managed'[c] = [managed[c] EXCEPT !.version = "partial"]
             \/ /\ managed[c].version = "partial"
                /\ managed'[c] = [managed[c] EXCEPT !.version = "completed"]
    BY <1>0, <2>4 DEF Managed
  <2>5. CASE managed'[c] = managed[c]
    BY <2>5
  <2> HIDE DEF Goes
  <2> QED
    BY <1>2, <2>1, <2>2, <2>3, <2>4, <2>5, AgentsManaged
<1> QED
  BY <1>1, <1>2
     DEF Next, Reconciler, Pass, Fetch, SelectionPanics, ListFails, Apply, Observe,
         Settle, Write, WriteFails, EndPass, SyncCache, Crash, Restart, Reboot,
         Expire, Relabel, vars

\* No step but Apply makes a ManifestWork, or takes back what its agent has
\* reported; a ManifestWork expires between two passes.
LEMMA WorkByApply ==
    ASSUME IInv, [Next]_vars, ~Apply, NEW c \in Cluster, NEW k \in Kind
    PROVE  /\ work'[c][k].phase # "absent" => work[c][k].phase # "absent"
           /\ work'[c][k].phase # "absent" /\ work'[c][k].seen = "nothing" =>
                 work[c][k].seen = "nothing"
           /\ pc # "idle" /\ work'[c][k].expired => work[c][k].expired
<1> DEFINE Goes == /\ work'[c][k].phase # "absent" => work[c][k].phase # "absent"
                   /\ work'[c][k].phase # "absent" /\ work'[c][k].seen = "nothing" =>
                         work[c][k].seen = "nothing"
                   /\ pc # "idle" /\ work'[c][k].expired => work[c][k].expired
<1> USE DEF environment
<1>0. work \in [Cluster -> [Kind -> Work]] /\ work[c][k] \in Work
      /\ "upgrade" \in Kind /\ "operators" \in Kind
  BY DEF IInv, TypeOK, Kind
<1>1. CASE work' = work
  BY <1>1
<1>2. ASSUME Agents PROVE Goes
  <2>1. ASSUME NEW phase \in {"applied", "available"}, work[c][k].phase # "absent",
               work'[c][k] = [work[c][k] EXCEPT !.phase = phase]
        PROVE  Goes
    BY <1>0, <2>1 DEF Work
  <2>2. CASE /\ ToReport(c, k) # "nothing"
             /\ work'[c][k] = [work[c][k] EXCEPT !.seen = ToReport(c, k)]
    BY <1>0, <2>2 DEF Work
  <2>3. CASE work'[c][k] = work[c][k]
    BY <2>3
  <2> HIDE DEF Goes
  <2> QED
    BY <1>2, <2>1, <2>2, <2>3, AgentsWork
<1>3. ASSUME NEW d \in Cluster, NEW l \in Kind, Expire(d, l)
      PROVE  Goes
  <2>1. work' = [work EXCEPT ![d][l].expired = TRUE] /\ pc = "idle"
    BY <1>3 DEF Expire
  <2>2. work'[c][k].phase = work[c][k].phase /\ work'[c][k].seen = work[c][k].seen
    BY <1>0, <2>1 DEF Work
  <2> QED
    BY <2>1, <2>2
<1>4. CASE Settle
  <2>1. work'[c][k] = work[c][k] \/ work'[c][k] = NoWork
    BY <1>4 DEF Settle
  <2> QED
    BY <2>1 DEF NoWork
<1> QED
  BY <1>1, <1>2, <1>3, <1>4
     DEF Next, Reconciler, Pass, Fetch, SelectionPanics, ListFails, Observe,
         Write, WriteFails, EndPass, SyncCache, Crash, Restart, Reboot,
         Relabel, vars

\* Apply reaches a cluster that is no canary when all canaries are done.
LEMMA ApplyCanaryFirst ==
    ASSUME IInv, RolloutInv, CanaryFirst, Apply
    PROVE  CanaryFirst'
<1> SUFFICES ASSUME NEW c \in InitialMain \ InitialCanary, NEW k \in Kind,
                    work'[c][k].phase # "absent",
                    NEW d \in InitialCanary
             PROVE  UpgradedFor(d)' /\ ApprovedFor(d)'
  BY DEF CanaryFirst
<1>1. managed' = managed
  BY DEF Apply
<1>2. c \in Cluster /\ d \in Cluster
  BY ConstantsAssumption
<1>3. CASE work[c][k].phase # "absent"
  BY <1>1, <1>3 DEF CanaryFirst, UpgradedFor, ApprovedFor
<1>4. CASE work[c][k].phase = "absent"
  <2>1. PICK refused \in SUBSET Creations(Rolling(obj)) :
            work' = [e \in Cluster |-> [l \in Kind |->
                        IF <<e, l>> \in Created(Rolling(obj), refused)
                        THEN [NoWork EXCEPT !.phase = "sent"] ELSE work[e][l]]]
    BY DEF Apply
  <2>2. <<c, k>> \in Created(Rolling(obj), refused)
    BY <1>2, <1>4, <2>1
  <2>3. c \in Listed(Rolling(obj))
    BY <2>2 DEF Created, Creations, Batch
  <2>4. Selected(obj)
    BY DEF RolloutInv, OneListMoves, Apply
  <2>5. obj.conds.canaryComplete = "true"
    BY <2>3, <2>4 DEF Rolling, RollsCanaries, Selected
  <2>6. CompleteAll(obj.canary) /\ d \in Listed(obj.canary) /\ Truthful(obj.canary)
    BY <2>4, <2>5 DEF RolloutInv, Reliable, Selected, IInv, TruthfulStatus
  <2>7. UpgradedFor(d) /\ ApprovedFor(d)
    BY <2>6, CompleteIsReal
  <2> QED
    BY <1>1, <2>7 DEF UpgradedFor, ApprovedFor
<1> QED
  BY <1>3, <1>4

\* No cluster of the placement is touched before every canary is done.
THEOREM CanariesGoFirst ==
    ASSUME Editable = {}
    PROVE  Spec => []CanaryFirst
<1>1. Init => CanaryFirst
  BY ConstantsAssumption DEF Init, CanaryFirst, NoWork
<1>2. IInv /\ RolloutInv /\ CanaryFirst /\ [Next]_vars => CanaryFirst'
  <2> SUFFICES ASSUME IInv, RolloutInv, CanaryFirst, [Next]_vars
               PROVE  CanaryFirst'
    OBVIOUS
  <2>1. CASE Apply
    BY <2>1, ApplyCanaryFirst
  <2>2. CASE ~Apply
    <3>1. \A c \in Cluster, k \in Kind :
              work'[c][k].phase # "absent" => work[c][k].phase # "absent"
      BY <2>2, WorkByApply
    <3>2. \A c \in Cluster :
              /\ managed[c].version = "completed" => managed'[c].version = "completed"
              /\ managed[c].approved => managed'[c].approved
      BY ManagedForward
    <3> QED
      BY <3>1, <3>2, ConstantsAssumption DEF CanaryFirst, UpgradedFor, ApprovedFor
  <2> QED
    BY <2>1, <2>2
<1> QED
  BY <1>1, <1>2, RolloutInvariance, PTL DEF Spec

-----------------------------------------------------------------------------
(* The refinement                                                          *)

\* What the status reports of the clusters of a list, as UpgradeRollout sees it.
Stages(list, chosen) == [c \in chosen |-> Stage(list[c])]

\* A cluster on which the states move onward moves forward.
LEMMA StageForward ==
    ASSUME NEW from \in Slot, NEW to \in Slot, NEW c \in Cluster,
           \A slot \in {from, to} :
              /\ slot.up # "NotStarted" => c \in Upgradable
              /\ slot.ops # "NotStarted" =>
                    /\ WantOperators
                    /\ \/ slot.up = "Complete"
                       \/ slot.up = "NotStarted" /\ c \notin Upgradable,
           Onward(from.up, to.up), Onward(from.ops, to.ops)
    PROVE  Rollout!Forward(Stage(from), Stage(to))
<1>1. /\ from.up \in State /\ from.ops \in State
      /\ to.up \in State /\ to.ops \in State
  BY DEF Slot
<1>2. CASE from.up = "Failed" \/ from.ops = "Failed"
  <2>1. Stage(from) = "failed" /\ Stage(to) = "failed"
    BY <1>2 DEF Stage, Onward, Outcome
  <2> QED
    BY <2>1 DEF Rollout!Forward
<1>3. CASE from.up = "NotStarted" /\ from.ops = "NotStarted"
  <2>1. Stage(from) = "waiting"
    BY <1>3 DEF Stage
  <2> QED
    BY <2>1 DEF Rollout!Forward
<1>4. CASE from.ops = "Complete" /\ from.up # "Failed"
  <2>1. to.ops = "Complete" /\ to.up # "Failed"
    BY <1>4 DEF Onward, Outcome
  <2>2. Stage(from) = "done" /\ Stage(to) = "done"
    BY <1>4, <2>1 DEF Stage
  <2> QED
    BY <2>2 DEF Rollout!Forward
<1>5. CASE from.up = "Complete" /\ from.ops = "NotStarted"
  <2>1. to.up = "Complete"
    BY <1>5 DEF Onward, Outcome
  <2>2. ~WantOperators => to.ops = "NotStarted"
    OBVIOUS
  <2>3. Stage(to) # "waiting" /\ (~WantOperators => Stage(to) = "done")
    BY <2>1, <2>2 DEF Stage
  <2>4. Stage(from) = IF WantOperators THEN "running" ELSE "done"
    BY <1>5 DEF Stage
  <2> QED
    BY <2>3, <2>4 DEF Rollout!Forward
<1>6. CASE /\ from.up # "Failed" /\ from.ops \notin Outcome
           /\ from.up \in {"Initialized", "Partial"} \/ from.ops # "NotStarted"
  <2>1. to.up # "NotStarted" \/ to.ops # "NotStarted"
    BY <1>1, <1>6 DEF State, Onward, Outcome
  <2>2. Stage(to) # "waiting"
    BY <2>1 DEF Stage
  <2>3. Stage(from) = "running"
    BY <1>1, <1>6 DEF Stage, State, Outcome
  <2> QED
    BY <2>2, <2>3 DEF Rollout!Forward
<1> QED
  BY <1>1, <1>2, <1>3, <1>4, <1>5, <1>6 DEF State, Outcome

\* On a list that follows another, once all its clusters are listed.
LEMMA StagesForward ==
    ASSUME NEW from \in ClusterList, NEW to \in ClusterList, NEW chosen \in SUBSET Cluster,
           Phased(from), Phased(to), Follows(from, to),
           chosen \subseteq Listed(to), NEW c \in chosen
    PROVE  Rollout!Forward(Stage(from[c]), Stage(to[c]))
<1>1. from[c] \in Slot /\ to[c] \in Slot /\ to[c].pos > 0
  BY DEF ClusterList, Listed
<1>2. from[c].pos \in Nat
  BY <1>1 DEF Slot
<1>3. CASE from[c].pos = 0
  <2>1. Stage(from[c]) = "waiting"
    BY <1>3 DEF Phased, Begun, Stage
  <2> QED
    BY <2>1 DEF Rollout!Forward
<1>4. CASE from[c].pos > 0
  <2>1. Onward(from[c].up, to[c].up) /\ Onward(from[c].ops, to[c].ops)
    BY <1>1, <1>4 DEF Follows, MovesOnward
  <2>2. \A slot \in {from[c], to[c]} :
              /\ slot.up # "NotStarted" => c \in Upgradable
              /\ slot.ops # "NotStarted" =>
                    /\ WantOperators
                    /\ \/ slot.up = "Complete"
                       \/ slot.up = "NotStarted" /\ c \notin Upgradable
    BY DEF Phased
  <2> QED
    BY <1>1, <2>1, <2>2, StageForward
<1> QED
  BY <1>2, <1>3, <1>4

\* A cluster that is worked on is in the batch of its list, and counts there.
LEMMA StagesBounded ==
    ASSUME NEW list \in ClusterList, Orderly(list), NEW chosen \in SUBSET Cluster
    PROVE  Cardinality(Rollout!Running(Stages(list, chosen))) <= MaxConcurrency
<1> DEFINE running == Rollout!Running(Stages(list, chosen))
           counted == {c \in Batch(list) : Counts(list, c)}
<1>1. ASSUME NEW c \in running
      PROVE  c \in counted
  <2>1. c \in Cluster /\ Stage(list[c]) = "running"
    BY DEF Rollout!Running, Stages
  <2>2. /\ Begun(list[c]) /\ list[c].ops \notin {"Complete", "Failed"}
        /\ list[c].up = "Complete" => WantOperators
    BY <2>1 DEF Stage, Begun
  <2>3. c \in Batch(list)
    BY <2>1, <2>2 DEF Orderly, BegunInBatch
  <2>4. list[c].ops = "NotStarted" => list[c].up # "NotStarted"
    BY <2>2 DEF Begun
  <2>5. Counts(list, c)
    BY <2>2, <2>4 DEF Counts, OperatorsEnded, StartsOperators
  <2> QED
    BY <2>3, <2>5
<1>2. counted \in SUBSET Cluster /\ running \in SUBSET counted
  BY <1>1 DEF Batch, Listed
<1>3. Cardinality(counted) <= MaxConcurrency
  BY BatchFits DEF Orderly
<1> HIDE DEF running, counted
<1>4. /\ Cardinality(running) \in Nat /\ Cardinality(counted) \in Nat
      /\ Cardinality(running) <= Cardinality(counted)
  BY <1>2, CountIsNat, FS_Subset
<1>5. Cardinality(running) <= MaxConcurrency
  BY <1>3, <1>4, ConstantsAssumption
<1> QED
  BY <1>5 DEF running

\* UpgradeRollout counts as the others do.
LEMMA SameCount == \A S : Rollout!Cardinality(S) = Cardinality(S)
  BY Zenon DEF Rollout!Cardinality, Cardinality, Rollout!IsFiniteSet, IsFiniteSet

\* The stages of a list follow those of the list it goes on from.
LEMMA StagesMove ==
    ASSUME NEW from \in ClusterList, NEW to \in ClusterList, NEW chosen \in SUBSET Cluster,
           Phased(from), Orderly(to), Follows(from, to), chosen \subseteq Listed(to)
    PROVE  /\ Stages(to, chosen) \in [chosen -> Rollout!Stages]
           /\ Rollout!Moves(Stages(from, chosen), Stages(to, chosen))
<1>1. Stages(to, chosen) \in [chosen -> Rollout!Stages]
  BY DEF Stages, Stage, Rollout!Stages
<1>2. \A c \in chosen : Rollout!Forward(Stages(from, chosen)[c], Stages(to, chosen)[c])
  BY StagesForward DEF Orderly, Stages
<1>3. Cardinality(Rollout!Running(Stages(to, chosen))) <= MaxConcurrency
  BY StagesBounded
<1> QED
  BY <1>1, <1>2, <1>3, SameCount DEF Rollout!Moves, Stages

\* The clusters of a list that is complete are all done.
LEMMA CompleteStages ==
    ASSUME NEW list \in ClusterList, Phased(list), CompleteAll(list), Wanted,
           NEW chosen \in SUBSET Cluster, chosen \subseteq Listed(list)
    PROVE  Rollout!AllDone(Stages(list, chosen))
<1> SUFFICES ASSUME NEW c \in chosen
             PROVE  Stage(list[c]) = "done"
  BY DEF Rollout!AllDone, Stages
<1>1. /\ list[c].up = "Complete" \/ (list[c].up = "NotStarted" /\ ~WantVersion)
      /\ list[c].ops = "Complete" \/ (list[c].ops = "NotStarted" /\ ~WantOperators)
  BY DEF CompleteAll
<1>2. CASE WantOperators
  BY <1>1, <1>2 DEF Stage
<1>3. CASE ~WantOperators
  BY <1>1, <1>3 DEF Stage, Wanted
<1> QED
  BY <1>2, <1>3

\* The working copy that is stored is a step of the abstract rollout.
LEMMA StoredRollsOn ==
    ASSUME IInv, PassInv, BatchInv, RolloutInv, pc = "write", base = cr, cr' = obj
    PROVE  Rollout!Next
<1>1. /\ cr \in Status /\ obj \in Status
      /\ cr.main \in ClusterList /\ cr.canary \in ClusterList
      /\ obj.main \in ClusterList /\ obj.canary \in ClusterList
      /\ InitialMain \in SUBSET Cluster /\ InitialCanary \in SUBSET Cluster
  BY ConstantsAssumption DEF IInv, TypeOK, Status
<1>2. /\ Follows(cr.main, obj.main) /\ Follows(cr.canary, obj.canary)
      /\ Phased(cr.main) /\ Phased(cr.canary)
      /\ Orderly(obj.main) /\ Orderly(obj.canary)
      /\ Listed(obj.main) = InitialMain /\ Listed(obj.canary) = InitialCanary
  BY DEF PassInv, BatchInv, OrderlyStatus, Orderly, RolloutInv, OneListMoves, Selected
<1>3. /\ Stages(obj.main, InitialMain) \in [InitialMain -> Rollout!Stages]
      /\ Rollout!Moves(Stages(cr.main, InitialMain), Stages(obj.main, InitialMain))
      /\ Stages(obj.canary, InitialCanary) \in [InitialCanary -> Rollout!Stages]
      /\ Rollout!Moves(Stages(cr.canary, InitialCanary), Stages(obj.canary, InitialCanary))
  BY <1>1, <1>2, StagesMove
<1>4. Gated(cr) => Stages(obj.main, InitialMain) = Stages(cr.main, InitialMain)
  BY <1>1 DEF RolloutInv, OneListMoves, SameStates, Stages, Stage
<1>5. ~Gated(cr) => Stages(obj.canary, InitialCanary) = Stages(cr.canary, InitialCanary)
  BY <1>1 DEF RolloutInv, OneListMoves, SameStates, Stages, Stage
<1>6. ~Gated(cr) => Rollout!AllDone(Stages(cr.canary, InitialCanary))
  <2>1. CASE InitialCanary = {}
    BY <2>1 DEF Rollout!AllDone, Stages
  <2>2. CASE cr.conds.canaryComplete = "true"
    <3>1. /\ CompleteAll(cr.canary) /\ Wanted
          /\ Listed(cr.canary) = InitialCanary
      BY <2>2, CompleteIsSelected DEF RolloutInv, Reliable, Selected
    <3> QED
      BY <1>1, <1>2, <3>1, CompleteStages
  <2> QED
    BY <2>1, <2>2 DEF Gated
<1>7. cr.conds.complete = "true" => obj.conds.complete = "true"
  BY DEF RolloutInv, OneListMoves
<1>8. obj.conds.complete = "true" => Rollout!AllDone(Stages(obj.main, InitialMain))
  <2> SUFFICES ASSUME obj.conds.complete = "true"
               PROVE  Rollout!AllDone(Stages(obj.main, InitialMain))
    OBVIOUS
  <2>1. CompleteAll(obj.main) /\ Wanted
    BY DEF RolloutInv, Reliable
  <2> QED
    BY <1>1, <1>2, <2>1, CompleteStages DEF Orderly
<1>9. cr'.main = obj.main /\ cr'.canary = obj.canary /\ cr'.conds = obj.conds
  OBVIOUS
<1>10. CASE Gated(cr)
  <2>1. Rollout!RollCanaries
    BY <1>3, <1>4, <1>9, <1>10 DEF Rollout!RollCanaries, Stages
  <2>2. Rollout!Announce
    BY <1>7, <1>8, <1>9 DEF Rollout!Announce, Stages
  <2> QED
    BY <2>1, <2>2 DEF Rollout!Next
<1>11. CASE ~Gated(cr)
  <2>1. Rollout!RollTargets
    BY <1>3, <1>5, <1>6, <1>9, <1>11 DEF Rollout!RollTargets, Stages
  <2>2. Rollout!Announce
    BY <1>7, <1>8, <1>9 DEF Rollout!Announce, Stages
  <2> QED
    BY <2>1, <2>2 DEF Rollout!Next
<1> QED
  BY <1>10, <1>11

\* Every step of the controller is one of the abstract rollout, or leaves what
\* the users see as it is.
LEMMA NextRollsOn ==
    ASSUME IInv, PassInv, BatchInv, RolloutInv, [Next]_vars
    PROVE  [Rollout!Next]_(Rollout!vars)
<1>1. CASE cr' = cr
  BY <1>1 DEF Rollout!vars
<1>2. CASE pc = "write" /\ base = cr /\ cr' = obj
  BY <1>2, StoredRollsOn
<1>3. (pc = "write" /\ base = cr /\ cr' = obj) \/ cr' = cr
  BY AgentsLeave
     DEF Next, Reconciler, Pass, Fetch, SelectionPanics, ListFails, Apply, Observe,
         Settle, Write, WriteFails, SyncCache, Crash, Restart, Reboot, Expire, Relabel, vars
<1> QED
  BY <1>1, <1>2, <1>3

\* The status the users see implements the abstract rollout: canaries first,
\* at most MaxConcurrency clusters of a list at a time, nothing starts over,
\* and Complete is announced once, when every cluster is done.
THEOREM RolloutImplemented ==
    ASSUME Editable = {}
    PROVE  Spec => ImplementsRollout
<1>1. Init => Rollout!Init
  BY ConstantsAssumption
     DEF Init, Rollout!Init, NoStatus, NoClusters, NoConditions, SlotAt, Stage
<1>2. IInv /\ PassInv /\ BatchInv /\ RolloutInv /\ [Next]_vars =>
          [Rollout!Next]_(Rollout!vars)
  BY NextRollsOn
<1> QED
  BY <1>1, <1>2, RolloutInvariance, PTL DEF Spec, ImplementsRollout, Rollout!Spec

-----------------------------------------------------------------------------
(* Nothing is left behind.  A pass that still reads the time before        *)
(* Complete finds a main list on which nothing is to be started any more,  *)
(* so that it makes no ManifestWork again after those that were deleted.   *)

InPass == pc \notin {"idle", "panicked"}

\* A pass that rolls the list starts nothing on the clusters of the placement,
\* and their rollout has begun.
Past(list) ==
    \A c \in InitialMain :
        /\ Begun(list[c])
        /\ ~StartsUpgrade(list, c)
        /\ ~(StartsOperators(list, c) /\ WantOperators)

NoWorkOfMain == \A c \in InitialMain, k \in Kind : work[c][k].phase = "absent"

\* There are works of what is asked for only.
WorkAsked ==
    \A c \in Cluster :
        /\ managed[c].version # "other" => c \in Upgradable
        /\ work[c]["upgrade"].phase # "absent" => c \in Upgradable
        /\ work[c]["operators"].phase # "absent" => WantOperators

\* The clusters of the placement have not begun before the canaries are done.
MainWaits ==
    \A status \in {cr, cache, base, obj} :
        Gated(status) => \A c \in Cluster : ~Begun(status.main[c])

\* What a pass has read may be older than what is stored, but knows no later
\* completion.
CopyBehind ==
    /\ InPass => cache \in {base, cr}
    /\ InPass /\ "stale" \notin Faults => base = cr
    /\ \A status \in {cache, base} :
          status.conds.complete = "true" => cr.conds.complete = "true"
    /\ pc \in {"apply", "observe", "settle"} => obj.conds.complete = base.conds.complete

\* Operators that a pass finds ended were asked for before it: a job is waited
\* for in a later pass than the one that sends it, and a ManifestWork does not
\* expire in the pass that creates it.
OneMove ==
    /\ pc = "apply" => \A field \in Field : SameStates(base[field], obj[field])
    /\ pc = "observe" =>
          \A field \in Field, c \in Cluster :
              \/ base[field][c].ops = obj[field][c].ops
              \/ obj[field][c].ops = "Initialized" /\ ~work[c]["operators"].expired
    /\ pc \in {"settle", "write"} =>
          \A field \in Field, c \in Cluster :
              obj[field][c].ops \in Outcome => base[field][c].ops # "NotStarted"

\* Complete leaves no work, and nothing to start for the passes that do not
\* know of it yet.
Tidied ==
    /\ pc = "write" /\ obj.conds.complete = "true" =>
          NoWorkOfMain /\ ("stale" \in Faults => Past(base.main))
    /\ cr.conds.complete = "true" =>
          /\ NoWorkOfMain
          /\ Past(cr.main)
          /\ "stale" \in Faults => Past(cache.main)
          /\ InPass => Past(base.main)

TidyInv == WorkAsked /\ MainWaits /\ CopyBehind /\ OneMove /\ Tidied

\* The working copy is stored.
Stores ==
    /\ pc = "write" /\ base = cr
    /\ cr' = obj /\ cache' = cache
    /\ obj' = NoStatus /\ base' = NoStatus /\ pc' = "idle"

\* The steps between two passes, or beside one, or that break one off.
Beside ==
    /\ cr' = cr
    /\ cache' \in {cache, cr}
    /\ \/ obj' = obj /\ base' = base /\ pc' = pc
       \/ obj' = obj /\ base' = base /\ {pc, pc'} \subseteq {"idle", "panicked"}
       \/ obj' = NoStatus /\ base' = NoStatus /\ pc' = "idle"

\* There are no other steps.
LEMMA StepKinds ==
    ASSUME [Next]_vars
    PROVE  (\E w \in wake : Fetch(w)) \/ Apply \/ Observe \/ Settle \/ Stores \/ Beside
<1> USE DEF reconciler, environment
<1>1. CASE \E w \in wake : SelectionPanics(w) \/ ListFails(w)
  BY <1>1 DEF SelectionPanics, ListFails, Wakes, Beside
<1>2. CASE Write \/ WriteFails
  BY <1>2 DEF Write, WriteFails, EndPass, Rest, Stores, Beside
<1>3. CASE SyncCache \/ Crash \/ Restart
  BY <1>3 DEF SyncCache, Crash, Restart, Reboot, Rest, Beside
<1>4. CASE Agents
  BY <1>4, AgentsLeave DEF Beside
<1>5. CASE \E c \in Cluster, k \in Kind : Expire(c, k)
  BY <1>5 DEF Expire, Beside
<1>6. CASE \E field \in Editable, chosen \in SUBSET Cluster : Relabel(field, chosen)
  BY <1>6 DEF Relabel, Beside
<1>7. CASE UNCHANGED vars
  BY <1>7 DEF vars, Beside
<1> QED
  BY <1>1, <1>2, <1>3, <1>4, <1>5, <1>6, <1>7 DEF Next, Reconciler, Pass

\* The list that a pass with this working copy rolls.
RolledField(status) == IF RollsCanaries(status) THEN "canary" ELSE "main"

\* What Apply makes of the ManifestWorks and of the working copy.
LEMMA ApplyCreates ==
    ASSUME IInv, RolloutInv, Apply
    PROVE  \E created \in SUBSET Creations(obj[RolledField(obj)]) :
              /\ \A c \in Cluster, k \in Kind :
                    work'[c][k] = IF <<c, k>> \in created
                                  THEN [NoWork EXCEPT !.phase = "sent"] ELSE work[c][k]
              /\ obj'.conds.applied # "absent"
              /\ obj'.conds.inProgress = obj.conds.inProgress
              /\ obj'.conds.complete = obj.conds.complete
              /\ obj'.conds.canaryComplete = obj.conds.canaryComplete
              /\ \A field \in Field :
                    obj'[field] = IF field = RolledField(obj)
                                  THEN Started(obj[field], created) ELSE obj[field]
<1> DEFINE list == Rolling(obj)
<1>1. PICK refused \in SUBSET Creations(list) :
          /\ obj' = [Rolled(obj, Started(list, Created(list, refused))) EXCEPT
                        !.conds.applied =
                            IF AllCreated(list, Created(list, refused))
                            THEN "true" ELSE "false"]
          /\ work' = [c \in Cluster |-> [k \in Kind |->
                        IF <<c, k>> \in Created(list, refused)
                        THEN [NoWork EXCEPT !.phase = "sent"] ELSE work[c][k]]]
  BY DEF Apply
<1> DEFINE created == Created(list, refused)
           next == Started(list, created)
           rolled == Rolled(obj, next)
<1>2. obj \in Status /\ list \in ClusterList /\ list = obj[RolledField(obj)]
  BY RolledTyped, NoStatusTyped DEF IInv, TypeOK, Status, Rolling, RolledField
<1>3. created \in SUBSET Creations(obj[RolledField(obj)])
  BY <1>2 DEF Created
<1>4. next \in ClusterList
  BY <1>2, StartedTyped
<1> HIDE DEF next
<1>5. rolled \in Status /\ rolled.conds = obj.conds
  BY <1>2, <1>4, RolledTyped
<1>6. /\ \A field \in Field : obj'[field] = rolled[field]
      /\ obj'.conds.applied # "absent"
      /\ obj'.conds.inProgress = obj.conds.inProgress
      /\ obj'.conds.complete = obj.conds.complete
      /\ obj'.conds.canaryComplete = obj.conds.canaryComplete
  BY <1>1, <1>5 DEF Status, Conditions, Field, next
<1>7. \A field \in Field :
          rolled[field] = IF field = RolledField(obj) THEN next ELSE obj[field]
  BY <1>2 DEF Rolled, RolledField, Status, Field
<1>8. next = Started(obj[RolledField(obj)], created)
  BY <1>2 DEF next
<1>9. \A c \in Cluster, k \in Kind :
          work'[c][k] = IF <<c, k>> \in created
                        THEN [NoWork EXCEPT !.phase = "sent"] ELSE work[c][k]
  BY <1>1
<1> HIDE DEF created, rolled
<1> QED
  BY <1>3, <1>6, <1>7, <1>8, <1>9

\* What Observe makes of the working copy.
LEMMA ObserveReads ==
    ASSUME IInv, RolloutInv, Observe
    PROVE  /\ obj'.conds.applied = obj.conds.applied
           /\ obj'.conds.complete = obj.conds.complete
           /\ obj'.conds.canaryComplete = obj.conds.canaryComplete
           /\ obj'.conds.inProgress =
                 InProgressAfter(obj.conds, obj[RolledField(obj)])
           /\ \A field \in Field :
                 obj'[field] = IF field = RolledField(obj) /\ Observes(obj.conds)
                               THEN Observed(obj[field]) ELSE obj[field]
<1> DEFINE list == Rolling(obj)
           next == IF Observes(obj.conds) THEN Observed(list) ELSE list
           rolled == Rolled(obj, next)
<1>1. obj \in Status /\ list \in ClusterList /\ list = obj[RolledField(obj)]
  BY RolledTyped, NoStatusTyped DEF IInv, TypeOK, Status, Rolling, RolledField
<1>2. next \in ClusterList
  BY <1>1, ObservedTyped DEF IInv
<1> HIDE DEF next
<1>3. rolled \in Status /\ rolled.conds = obj.conds
  BY <1>1, <1>2, RolledTyped
<1>4. /\ \A field \in Field : obj'[field] = rolled[field]
      /\ obj'.conds.applied = obj.conds.applied
      /\ obj'.conds.complete = obj.conds.complete
      /\ obj'.conds.canaryComplete = obj.conds.canaryComplete
      /\ obj'.conds.inProgress = InProgressAfter(obj.conds, list)
  BY <1>3 DEF Observe, Status, Conditions, Field, next
<1>5. \A field \in Field :
          rolled[field] = IF field = RolledField(obj) THEN next ELSE obj[field]
  BY <1>1 DEF Rolled, RolledField, Status, Field
<1>6. next = IF Observes(obj.conds) THEN Observed(obj[RolledField(obj)])
             ELSE obj[RolledField(obj)]
  BY <1>1 DEF next
<1> HIDE DEF rolled
<1> QED
  BY <1>1, <1>4, <1>5, <1>6

\* The operators that a look at the ManifestWorks finds ended were asked for,
\* and their job is known or their time is over.
LEMMA ObservedEnds ==
    ASSUME IInv, NEW list \in ClusterList, NEW c \in Cluster,
           Observed(list)[c].ops \in Outcome
    PROVE  \/ list[c].ops \in Outcome
           \/ list[c].ops = "Partial"
           \/ list[c].ops = "Initialized" /\ work[c]["operators"].expired
<1>1. Observed(list)[c].ops \in
          {list[c].ops, ObservedOperators(list[c].ops, work[c]["operators"])}
  BY ObservedSlot
<1> QED
  BY <1>1 DEF ObservedOperators, Outcome

\* What Settle makes of them when no Delete is refused.
LEMMA SettleDoes ==
    ASSUME "delete" \notin Faults, IInv, RolloutInv, Settle
    PROVE  /\ \A field \in Field : obj'[field] = obj[field]
           /\ obj'.conds.applied = obj.conds.applied
           /\ \A c \in Cluster, k \in Kind :
                 work'[c][k] = IF <<c, k>> \in Deletions(obj, obj'.conds)
                               THEN NoWork ELSE work[c][k]
           /\ obj'.conds.complete =
                 CompleteAfter(obj.conds.complete, obj.main, obj.conds.inProgress = "true")
           /\ obj'.conds.canaryComplete =
                 CompleteAfter(obj.conds.canaryComplete, obj.canary,
                               obj.conds.inProgress = "true" /\ Listed(obj.canary) # {})
<1> DEFINE after == ConditionsAfter(obj)
           deletions == Deletions(obj, after)
<1>1. obj \in Status /\ obj.conds \in Conditions
  BY DEF IInv, TypeOK, Status
<1>2. PICK refused \in SUBSET deletions :
          /\ Refusal("delete", deletions, refused)
          /\ work' = [c \in Cluster |-> [k \in Kind |->
                 IF <<c, k>> \in deletions \ refused THEN NoWork ELSE work[c][k]]]
  BY DEF Settle
<1>3. refused = {}
  BY <1>2 DEF Refusal, Fault
<1>4. \A c \in Cluster, k \in Kind :
          work'[c][k] = IF <<c, k>> \in deletions THEN NoWork ELSE work[c][k]
  BY <1>2, <1>3
<1>5. /\ \A field \in Field : obj'[field] = obj[field]
      /\ obj'.conds = after
  BY <1>1 DEF Settle, Status, Field
<1>6. /\ after.applied = obj.conds.applied
      /\ after.complete = CompleteAfter(obj.conds.complete, obj.main,
                                        obj.conds.inProgress = "true")
      /\ after.canaryComplete =
            CompleteAfter(obj.conds.canaryComplete, obj.canary,
                          obj.conds.inProgress = "true" /\ Listed(obj.canary) # {})
  BY <1>1 DEF ConditionsAfter, Conditions
<1> HIDE DEF after
<1> QED
  BY <1>4, <1>5, <1>6

\* What it deletes: when it finds the upgrade complete, every work of the
\* placement.
LEMMA SettleDeletes ==
    ASSUME "delete" \notin Faults, IInv, RolloutInv, WorkAsked, Settle
    PROVE  /\ obj'.main = obj.main
           /\ Gated(obj') => Gated(obj)
           /\ \A c \in Cluster, k \in Kind :
                 work[c][k].phase = "absent" => work'[c][k].phase = "absent"
           /\ obj'.conds.complete = "true" /\ obj.conds.complete # "true" => NoWorkOfMain'
<1> DEFINE deletions == Deletions(obj, obj'.conds)
<1>1. obj.conds \in Conditions /\ Listed(obj.main) = InitialMain
  BY DEF IInv, TypeOK, Status, Settle, RolloutInv, OneListMoves, Selected
<1>2. ASSUME NEW c \in Cluster, NEW k \in Kind
      PROVE  work'[c][k] = IF <<c, k>> \in deletions THEN NoWork ELSE work[c][k]
  BY SettleDoes
<1>3. /\ obj'.main = obj.main
      /\ obj'.conds.complete = CompleteAfter(obj.conds.complete, obj.main,
                                             obj.conds.inProgress = "true")
      /\ obj'.conds.canaryComplete =
            CompleteAfter(obj.conds.canaryComplete, obj.canary,
                          obj.conds.inProgress = "true" /\ Listed(obj.canary) # {})
  BY SettleDoes DEF Field
<1>4. obj.conds.complete = "false" => PartsIn(obj.main, "Complete") \subseteq deletions
  BY DEF Deletions
<1> HIDE DEF deletions
<1>5. Gated(obj') => Gated(obj)
  BY <1>3 DEF Gated, CompleteAfter
<1>6. ASSUME obj'.conds.complete = "true", obj.conds.complete # "true"
      PROVE  NoWorkOfMain'
  <2>1. obj.conds.complete = "false" /\ CompleteAll(obj.main)
    BY <1>1, <1>3, <1>6 DEF CompleteAfter, Conditions, Cond
  <2> SUFFICES ASSUME NEW c \in InitialMain, NEW k \in Kind
               PROVE  work'[c][k].phase = "absent"
    BY DEF NoWorkOfMain
  <2>2. c \in Listed(obj.main) /\ c \in Cluster
    BY <1>1, ConstantsAssumption
  <2>3. CASE <<c, k>> \in deletions
    BY <1>2, <2>2, <2>3 DEF NoWork
  <2>4. CASE <<c, k>> \notin deletions
    <3>1. "Complete" # IF k = "upgrade" THEN obj.main[c].up ELSE obj.main[c].ops
      BY <1>4, <2>1, <2>2, <2>4 DEF PartsIn
    <3>2. k = "upgrade" => ~WantVersion
      BY <2>1, <2>2, <3>1 DEF CompleteAll
    <3>3. k = "operators" => ~WantOperators
      BY <2>1, <2>2, <3>1 DEF CompleteAll
    <3>4. work[c][k].phase = "absent"
      BY <2>2, <3>2, <3>3 DEF WorkAsked, Upgradable, Kind
    <3> QED
      BY <1>2, <2>2, <2>4, <3>4
  <2> QED
    BY <2>3, <2>4
<1>7. ASSUME NEW c \in Cluster, NEW k \in Kind, work[c][k].phase = "absent"
       PROVE  work'[c][k].phase = "absent"
  <2>1. work'[c][k] = work[c][k] \/ work'[c][k] = NoWork
    BY <1>2
  <2> QED
    BY <1>7, <2>1 DEF NoWork
<1> QED
  BY <1>3, <1>5, <1>6, <1>7

\* The parts of the invariant, one by one.
LEMMA WorkAskedNext ==
    ASSUME IInv, RolloutInv, WorkAsked, [Next]_vars
    PROVE  WorkAsked'
<1> SUFFICES ASSUME NEW c \in Cluster
             PROVE  /\ managed'[c].version # "other" => c \in Upgradable
                    /\ work'[c]["upgrade"].phase # "absent" => c \in Upgradable
                    /\ work'[c]["operators"].phase # "absent" => WantOperators
  BY DEF WorkAsked, Upgradable
<1>0. "upgrade" \in Kind /\ "operators" \in Kind
  BY DEF Kind
<1>1. managed'[c].version # "other" => c \in Upgradable
  BY ManagedForward DEF WorkAsked
<1>2. CASE ~Apply
  BY <1>0, <1>1, <1>2, WorkByApply DEF WorkAsked
<1>3. CASE Apply
  <2>1. PICK created \in SUBSET Creations(obj[RolledField(obj)]) :
            \A k \in Kind : <<c, k>> \notin created => work'[c][k] = work[c][k]
    BY <1>3, ApplyCreates
  <2>2. /\ <<c, "upgrade">> \in created => c \in Upgradable
        /\ <<c, "operators">> \in created => WantOperators
    BY DEF Creations, StartsUpgrade
  <2> QED
    BY <1>0, <1>1, <2>1, <2>2 DEF WorkAsked
<1> QED
  BY <1>2, <1>3

LEMMA MainWaitsNext ==
    ASSUME "delete" \notin Faults, IInv, BatchInv, RolloutInv, WorkAsked, MainWaits, [Next]_vars
    PROVE  MainWaits'
<1> DEFINE Waits(status) == Gated(status) => \A c \in Cluster : ~Begun(status.main[c])
<1>0. Waits(cr) /\ Waits(cache) /\ Waits(base) /\ Waits(obj)
  BY DEF MainWaits
<1>1. Waits(NoStatus)
  BY DEF NoStatus, NoClusters, SlotAt, Begun
<1>2. SUFFICES Waits(cr') /\ Waits(cache') /\ Waits(base') /\ Waits(obj')
  BY DEF MainWaits, Gated, Begun
<1>3. CASE Beside \/ Stores
  <2>1. /\ cr' \in {cr, obj} /\ cache' \in {cache, cr}
        /\ base' \in {base, NoStatus} /\ obj' \in {obj, NoStatus}
    BY <1>3 DEF Beside, Stores
  <2> QED
    BY <1>0, <1>1, <2>1
<1>4. ASSUME NEW w \in wake, Fetch(w)
      PROVE  Waits(cr') /\ Waits(cache') /\ Waits(base') /\ Waits(obj')
  <2>1. cr' = cr /\ cache' = cache /\ base' = cache
    BY <1>4 DEF Fetch
  <2>2. obj'.conds = cache.conds /\ SameStates(cache.main, obj'.main)
    BY <1>4, FetchRollout
  <2> QED
    BY <1>0, <2>1, <2>2 DEF Gated, Begun, SameStates
<1>5. CASE Apply
  <2>1. cr' = cr /\ cache' = cache /\ base' = base
    BY <1>5 DEF Apply
  <2>2. /\ obj'.conds.canaryComplete = obj.conds.canaryComplete
        /\ RollsCanaries(obj) => obj'.main = obj.main
    BY <1>5, ApplyCreates DEF RolledField, Field
  <2>3. Gated(obj') => RollsCanaries(obj) /\ Gated(obj)
    BY <1>5, <2>2 DEF Gated, RollsCanaries, RolloutInv, OneListMoves, Selected, Apply
  <2> QED
    BY <1>0, <2>1, <2>2, <2>3
<1>6. CASE Observe
  <2>1. cr' = cr /\ cache' = cache /\ base' = base
    BY <1>6 DEF Observe
  <2>2. /\ obj'.conds.canaryComplete = obj.conds.canaryComplete
        /\ RollsCanaries(obj) => obj'.main = obj.main
    BY <1>6, ObserveReads DEF RolledField, Field
  <2>3. Gated(obj') => RollsCanaries(obj) /\ Gated(obj)
    BY <1>6, <2>2 DEF Gated, RollsCanaries, RolloutInv, OneListMoves, Selected, Observe
  <2> QED
    BY <1>0, <2>1, <2>2, <2>3
<1>7. CASE Settle
  <2>1. cr' = cr /\ cache' = cache /\ base' = base
    BY <1>7 DEF Settle
  <2>2. obj'.main = obj.main /\ (Gated(obj') => Gated(obj))
    BY <1>7, SettleDeletes
  <2> QED
    BY <1>0, <2>1, <2>2
<1> QED
  BY <1>3, <1>4, <1>5, <1>6, <1>7, StepKinds

LEMMA CopyBehindNext ==
    ASSUME IInv, BatchInv, RolloutInv, CopyBehind, [Next]_vars
    PROVE  CopyBehind'
<1>1. CASE \E w \in wake : Fetch(w)
  <2>1. obj'.conds = cache.conds
    BY <1>1, FetchRollout
  <2> QED
    BY <1>1, <2>1 DEF Fetch, Wakes, CopyBehind, InPass
<1>2. CASE Apply
  <2>1. obj'.conds.complete = obj.conds.complete
    BY <1>2, ApplyCreates
  <2> QED
    BY <1>2, <2>1 DEF Apply, CopyBehind, InPass
<1>3. CASE Observe
  <2>1. obj'.conds.complete = obj.conds.complete
    BY <1>3, ObserveReads
  <2> QED
    BY <1>3, <2>1 DEF Observe, CopyBehind, InPass
<1>4. CASE Settle
  BY <1>4 DEF Settle, CopyBehind, InPass
<1>5. CASE Stores
  <2>1. base.conds.complete = "true" => obj.conds.complete = "true"
    BY DEF RolloutInv, OneListMoves
  <2>2. cache = base
    BY <1>5 DEF Stores, CopyBehind, InPass
  <2> QED
    BY <1>5, <2>1, <2>2 DEF Stores, CopyBehind, InPass, NoStatus, NoConditions
<1>6. CASE Beside
  BY <1>6 DEF Beside, CopyBehind, InPass, NoStatus, NoConditions
<1> QED
  BY <1>1, <1>2, <1>3, <1>4, <1>5, <1>6, StepKinds

LEMMA OneMoveNext ==
    ASSUME "delete" \notin Faults, IInv, BatchInv, RolloutInv, OneMove, [Next]_vars
    PROVE  OneMove'
<1>0. \A field \in Field : obj[field] \in ClusterList
  BY DEF IInv, TypeOK, Status, Field
<1>1. CASE \E w \in wake : Fetch(w)
  <2>1. \A field \in Field : SameStates(cache[field], obj'[field])
    BY <1>1, FetchRollout DEF Field
  <2> QED
    BY <1>1, <2>1 DEF Fetch, OneMove, SameStates
<1>2. CASE Apply
  <2>1. pc = "apply" /\ pc' = "observe" /\ base' = base
    BY <1>2 DEF Apply
  <2>2. PICK created \in SUBSET Creations(obj[RolledField(obj)]) :
            /\ \A c \in Cluster, k \in Kind :
                  <<c, k>> \in created => work'[c][k] = [NoWork EXCEPT !.phase = "sent"]
            /\ \A field \in Field :
                  obj'[field] \in {Started(obj[field], created), obj[field]}
    BY <1>2, ApplyCreates
  <2>3. ASSUME NEW field \in Field, NEW c \in Cluster
        PROVE  \/ base[field][c].ops = obj'[field][c].ops
               \/ obj'[field][c].ops = "Initialized" /\ ~work'[c]["operators"].expired
    <3>1. base[field][c].ops = obj[field][c].ops
      BY <2>1 DEF OneMove, SameStates
    <3>2. CASE obj'[field][c].ops = obj[field][c].ops
      BY <3>1, <3>2
    <3>3. CASE obj'[field][c].ops # obj[field][c].ops
      <4>1. Started(obj[field], created)[c].ops =
                IF <<c, "operators">> \in created THEN "Initialized" ELSE obj[field][c].ops
        BY <1>0 DEF Started, ClusterList, Slot
      <4>2. <<c, "operators">> \in created /\ obj'[field][c].ops = "Initialized"
        BY <2>2, <3>3, <4>1
      <4>3. work'[c]["operators"] = [NoWork EXCEPT !.phase = "sent"]
        BY <2>2, <4>2 DEF Kind
      <4> QED
        BY <4>2, <4>3 DEF NoWork
    <3> QED
      BY <3>2, <3>3
  <2> QED
    BY <2>1, <2>3 DEF OneMove
<1>3. CASE Observe
  <2>1. pc = "observe" /\ pc' = "settle" /\ base' = base
    BY <1>3 DEF Observe
  <2>2. \A field \in Field : obj'[field] \in {Observed(obj[field]), obj[field]}
    BY <1>3, ObserveReads
  <2>3. ASSUME NEW field \in Field, NEW c \in Cluster, obj'[field][c].ops \in Outcome
        PROVE  base[field][c].ops # "NotStarted"
    <3>1. \/ obj[field][c].ops \in Outcome
          \/ obj[field][c].ops = "Partial"
          \/ obj[field][c].ops = "Initialized" /\ work[c]["operators"].expired
      BY <1>0, <2>2, <2>3, ObservedEnds
    <3> QED
      BY <2>1, <3>1 DEF OneMove, Outcome
  <2> QED
    BY <2>1, <2>3 DEF OneMove
<1>4. CASE Settle
  <2>1. \A field \in Field : obj'[field] = obj[field]
    BY <1>4, SettleDoes
  <2>2. pc = "settle" /\ pc' = "write" /\ base' = base
    BY <1>4 DEF Settle
  <2> QED
    BY <2>1, <2>2 DEF OneMove
<1>5. CASE Stores
  BY <1>5 DEF Stores, OneMove
<1>6. CASE Beside
  <2>1. CASE obj' = obj /\ base' = base /\ pc' = pc
    <3>1. ~Apply
      BY <2>1 DEF Apply
    <3>2. \A c \in Cluster : pc # "idle" /\ work'[c]["operators"].expired =>
                             work[c]["operators"].expired
      BY <3>1, WorkByApply DEF Kind
    <3> QED
      BY <2>1, <3>2 DEF OneMove, SameStates
  <2>2. CASE pc' \in {"idle", "panicked"}
    BY <2>2 DEF OneMove
  <2> QED
    BY <1>6, <2>1, <2>2 DEF Beside
<1> QED
  BY <1>1, <1>2, <1>3, <1>4, <1>5, <1>6, StepKinds

\* Only the states of the clusters matter.
LEMMA PastByStates ==
    ASSUME NEW from, NEW to, Past(from), SameStates(from, to)
    PROVE  Past(to)
  BY ConstantsAssumption
     DEF Past, SameStates, Begun, StartsUpgrade, StartsOperators, OperatorsEnded

\* A list that is complete is past its start,
LEMMA CompletePast ==
    ASSUME NEW list, CompleteAll(list), Wanted, Listed(list) = InitialMain
    PROVE  Past(list)
<1> SUFFICES ASSUME NEW c \in InitialMain
             PROVE  /\ Begun(list[c])
                    /\ ~StartsUpgrade(list, c)
                    /\ ~(StartsOperators(list, c) /\ WantOperators)
  BY DEF Past
<1>1. /\ list[c].up = "Complete" \/ (list[c].up = "NotStarted" /\ ~WantVersion)
      /\ list[c].ops = "Complete" \/ (list[c].ops = "NotStarted" /\ ~WantOperators)
  BY DEF CompleteAll
<1> QED
  BY <1>1 DEF Wanted, Begun, StartsUpgrade, StartsOperators, OperatorsEnded, Upgradable

\* and so is one on which all jobs have been sent.
LEMMA EndingPast ==
    ASSUME NEW list, Phased(list),
           \A c \in InitialMain : list[c].ops # "NotStarted"
    PROVE  Past(list)
<1> SUFFICES ASSUME NEW c \in InitialMain
             PROVE  /\ Begun(list[c])
                    /\ ~StartsUpgrade(list, c)
                    /\ ~(StartsOperators(list, c) /\ WantOperators)
  BY DEF Past
<1>1. c \in Cluster /\ list[c].ops # "NotStarted"
  BY ConstantsAssumption
<1>2. list[c].up = "Complete" \/ c \notin Upgradable
  BY <1>1 DEF Phased
<1> QED
  BY <1>1, <1>2 DEF Begun, StartsUpgrade, StartsOperators

\* After Complete no pass creates a work, not even one that does not know.
LEMMA ApplyTidied ==
    ASSUME IInv, RolloutInv, TidyInv, Apply
    PROVE  Tidied'
<1>1. /\ cr' = cr /\ cache' = cache /\ base' = base
      /\ pc = "apply" /\ pc' = "observe"
  BY DEF Apply
<1>2. ASSUME cr.conds.complete = "true"
      PROVE  NoWorkOfMain'
  <2>1. PICK created \in SUBSET Creations(obj[RolledField(obj)]) :
            \A c \in Cluster, k \in Kind :
                <<c, k>> \notin created => work'[c][k] = work[c][k]
    BY ApplyCreates
  <2>2. NoWorkOfMain /\ Past(base.main) /\ Past(obj.main)
    BY <1>1, <1>2, PastByStates DEF TidyInv, Tidied, InPass, OneMove, Field
  <2>3. ASSUME NEW c \in InitialMain, NEW k \in Kind, <<c, k>> \in created
        PROVE  FALSE
    <3>1. c \in Cluster
      BY ConstantsAssumption
    <3>2. CASE RollsCanaries(obj)
      <4>1. Gated(base)
        BY <1>1, <3>2, GateIsRead
      <4> QED
        BY <2>2, <3>1, <4>1 DEF TidyInv, MainWaits, Past
    <3>3. CASE ~RollsCanaries(obj)
      <4>1. <<c, k>> \in Creations(obj.main)
        BY <2>3, <3>3 DEF RolledField
      <4>2. StartsUpgrade(obj.main, c) \/ (StartsOperators(obj.main, c) /\ WantOperators)
        BY <4>1 DEF Creations
      <4> QED
        BY <2>2, <4>2 DEF Past
    <3> QED
      BY <3>2, <3>3
  <2> QED
    BY <2>1, <2>2, <2>3, ConstantsAssumption DEF NoWorkOfMain
<1> QED
  BY <1>1, <1>2 DEF TidyInv, Tidied, InPass, Past

\* A pass that finds the upgrade complete leaves no work of it.
LEMMA SettleTidied ==
    ASSUME "delete" \notin Faults, "stale" \in Faults => WantOperators,
           IInv, BatchInv, RolloutInv, TidyInv, Settle
    PROVE  Tidied'
<1>1. /\ cr' = cr /\ cache' = cache /\ base' = base
      /\ pc = "settle" /\ pc' = "write"
  BY DEF Settle
<1>2. /\ obj'.main = obj.main
      /\ \A c \in Cluster, k \in Kind :
            work[c][k].phase = "absent" => work'[c][k].phase = "absent"
      /\ obj'.conds.complete = "true" /\ obj.conds.complete # "true" => NoWorkOfMain'
  BY SettleDeletes DEF TidyInv
<1>3. NoWorkOfMain => NoWorkOfMain'
  BY <1>2, ConstantsAssumption DEF NoWorkOfMain
<1>4. ASSUME obj'.conds.complete = "true"
      PROVE  NoWorkOfMain' /\ ("stale" \in Faults => Past(base.main))
  <2>1. CASE obj.conds.complete = "true"
    BY <1>1, <1>3, <2>1 DEF TidyInv, CopyBehind, Tidied, InPass
  <2>2. CASE obj.conds.complete # "true"
    <3>1. CompleteAll(obj'.main) /\ Listed(obj'.main) = InitialMain
      BY <1>1, <1>4, SettleRollout DEF RolloutInv, Reliable, OneListMoves, Selected
    <3>2. ASSUME "stale" \in Faults, NEW c \in InitialMain
          PROVE  base.main[c].ops # "NotStarted"
      <4>1. obj.main[c].ops = "Complete"
        BY <1>2, <3>1, <3>2 DEF CompleteAll
      <4> QED
        BY <1>1, <4>1, ConstantsAssumption DEF TidyInv, OneMove, Field, Outcome
    <3>3. "stale" \in Faults => Past(base.main)
      BY <3>2, EndingPast DEF BatchInv, OrderlyStatus, Orderly
    <3> QED
      BY <1>2, <1>4, <2>2, <3>3
  <2> QED
    BY <2>1, <2>2
<1> QED
  BY <1>1, <1>3, <1>4 DEF TidyInv, Tidied, InPass, Past

LEMMA TidiedNext ==
    ASSUME "delete" \notin Faults, "stale" \in Faults => WantOperators,
           IInv, BatchInv, RolloutInv, TidyInv, [Next]_vars
    PROVE  Tidied'
<1>1. ~Apply /\ NoWorkOfMain => NoWorkOfMain'
  BY WorkByApply, ConstantsAssumption DEF NoWorkOfMain
<1>2. CASE \E w \in wake : Fetch(w)
  <2>1. /\ cr' = cr /\ cache' = cache /\ base' = cache /\ pc' = "apply"
        /\ cache = cr \/ "stale" \in Faults
    BY <1>2 DEF Fetch, Wakes
  <2>2. ~Apply
    BY <1>2 DEF Fetch, Wakes, Apply
  <2> QED
    BY <1>1, <2>1, <2>2 DEF TidyInv, Tidied, InPass, Past
<1>3. CASE Apply \/ Settle
  BY <1>3, ApplyTidied, SettleTidied
<1>4. CASE Observe
  <2>1. /\ cr' = cr /\ cache' = cache /\ base' = base
        /\ pc = "observe" /\ pc' = "settle"
    BY <1>4 DEF Observe
  <2>2. ~Apply
    BY <2>1 DEF Apply
  <2> QED
    BY <1>1, <2>1, <2>2 DEF TidyInv, Tidied, InPass, Past
<1>5. CASE Stores
  <2>1. /\ cr' = obj /\ cache' = cache /\ cache = base
        /\ pc = "write" /\ pc' = "idle"
    BY <1>5 DEF Stores, TidyInv, CopyBehind, InPass
  <2>2. ~Apply
    BY <2>1 DEF Apply
  <2>3. obj.conds.complete = "true" => Past(obj.main)
    BY <2>1, CompletePast DEF RolloutInv, Reliable, OneListMoves, Selected
  <2> QED
    BY <1>1, <2>1, <2>2, <2>3 DEF TidyInv, Tidied, InPass, Past
<1>6. CASE Beside
  <2>1. ~Apply
    BY <1>6 DEF Beside, Apply
  <2> QED
    BY <1>1, <1>6, <2>1 DEF Beside, TidyInv, Tidied, InPass, Past, NoStatus, NoConditions
<1> QED
  BY <1>2, <1>3, <1>4, <1>5, <1>6, StepKinds

\* Once the upgrade is reported complete no ManifestWork is left of a cluster
\* on the list of the placement, and none is made again, however stale, lost or
\* repeated a pass is: unless a Delete is refused, and provided that a pass on
\* an old status cannot be one that upgrades a whole cluster by itself (with
\* operators there is a job to be waited for, which a later pass sends).
THEOREM CompleteLeavesNoWork ==
    ASSUME Editable = {}, "delete" \notin Faults, "stale" \in Faults => WantOperators
    PROVE  Spec => []NoWorkLeftBehind
<1>1. Init => TidyInv
  BY DEF Init, TidyInv, WorkAsked, MainWaits, CopyBehind, OneMove, Tidied, InPass,
         NoStatus, NoClusters, NoConditions, SlotAt, Begun, NoWork, Kind
<1>2. IInv /\ BatchInv /\ RolloutInv /\ TidyInv /\ [Next]_vars => TidyInv'
  <2> SUFFICES ASSUME IInv, BatchInv, RolloutInv, TidyInv, [Next]_vars
               PROVE  TidyInv'
    OBVIOUS
  <2> QED
    BY WorkAskedNext, MainWaitsNext, CopyBehindNext, OneMoveNext, TidiedNext DEF TidyInv
<1>3. RolloutInv /\ TidyInv => NoWorkLeftBehind
  BY CompleteIsSelected DEF RolloutInv, TidyInv, Tidied, NoWorkOfMain, Selected, NoWorkLeftBehind
<1> QED
  BY <1>1, <1>2, <1>3, RolloutInvariance, PTL DEF Spec

-----------------------------------------------------------------------------
(* The clusters that are really upgrading.  A pass may go by a status that *)
(* is older than the one stored, but only by one pass: the clusters it     *)
(* starts are in the batch of the newer status too.                        *)

Chosen(field) == IF field = "main" THEN InitialMain ELSE InitialCanary

\* The list that a pass that has read this status rolls, and that of the
\* first pass.
Front(status) == IF Gated(status) THEN "canary" ELSE "main"
First == IF InitialCanary # {} THEN "canary" ELSE "main"

\* All clusters of the first list may be upgraded at a time: it is nothing to
\* them in which order a lost first status listed them.
FirstFits == Cardinality(Chosen(First)) <= MaxConcurrency

\* One status is at most one pass older than the other.
Places(from, to) ==
    from = NoStatus \/ \A field \in Field : SamePlaces(from[field], to[field])

Later(from, to) ==
    \A c \in Cluster :
        /\ Onward(from[c].up, to[c].up)
        /\ Onward(from[c].ops, to[c].ops)
        /\ to[c].ops \in Outcome => from[c].ops # "NotStarted"

Older(from, to) ==
    /\ Places(from, to)
    /\ \A field \in Field : Later(from[field], to[field])
    /\ from.conds.canaryComplete = "true" => to.conds.canaryComplete = "true"
    /\ to.conds.canaryComplete = "true" => from.conds.canaryComplete # "absent"

CopyOlder ==
    /\ cr = NoStatus => cache = NoStatus /\ base = NoStatus
    /\ Older(cache, cr)
    /\ InPass => Older(base, cr) /\ Places(base, obj)
    /\ pc \in {"observe", "settle", "write"} => obj.conds.applied # "absent"
    /\ pc = "write" => Older(base, obj)

\* The condition that speaks of a list is there once an upgrade of the list
\* is under way: without it Settle would delete nothing.
Condition(status, field) ==
    IF field = "main" THEN status.conds.complete ELSE status.conds.canaryComplete

Announced(status) ==
    \A field \in Field, c \in Cluster :
        status[field][c].up \in {"Partial", "Complete"} =>
            Condition(status, field) # "absent"

AllAnnounced ==
    /\ Announced(cr) /\ Announced(cache) /\ Announced(base)
    /\ Announced(obj) \/ (pc = "settle" /\ obj.conds.inProgress = "true")

\* The clusters that are busy, or will be when their agent finds the work.
Upgrading(c) ==
    \/ managed[c].version \in {"asked", "partial"}
    \/ managed[c].version = "other" /\ work[c]["upgrade"].phase # "absent"

Approving(c) ==
    work[c]["operators"].phase # "absent" /\ work[c]["operators"].seen = "nothing"

Underway(c) == Upgrading(c) \/ Approving(c)

\* They are in the batch of the list that is rolled, and count there.  Before
\* the first status is stored, they are in that of the first pass.
Held(status, c) ==
    /\ c \in Batch(status[Front(status)])
    /\ Counts(status[Front(status)], c)

HeldFirst(c) ==
    /\ c \in Chosen(First)
    /\ FirstFits \/ (InPass /\ c \in Batch(obj[First]))

AllHeld ==
    \A c \in Cluster : Underway(c) =>
        /\ cr # NoStatus => Held(cr, c)
        /\ cr = NoStatus => HeldFirst(c)
        /\ pc = "write" /\ base = cr => Held(obj, c)

BoundInv == WorkAsked /\ CopyBehind /\ OneMove /\ CopyOlder /\ AllAnnounced /\ AllHeld

\* What the code keeps the bound by: the first list fits it, or no status is
\* lost; every cluster is upgraded before its operators, and no Delete fails.
KeepsBound ==
    /\ Editable = {} /\ "delete" \notin Faults
    /\ FirstFits \/ Faults \cap {"stale", "update", "crash"} = {}
    /\ WantOperators => InitialMain \cup InitialCanary \subseteq Upgradable

\* A status that is read is as old as itself.
LEMMA OlderItself == \A status : Older(status, status)
  BY DEF Older, Places, SamePlaces, Later, Onward, Outcome

\* The working copy goes on from the status the pass has read.
LEMMA CopyGoesOn ==
    ASSUME IInv, PassInv, BatchInv, RolloutInv, InPass, NEW field \in Field, NEW c \in Cluster
    PROVE  /\ Onward(base[field][c].up, obj[field][c].up)
           /\ Onward(base[field][c].ops, obj[field][c].ops)
<1>1. /\ Follows(base[field], obj[field]) /\ Phased(base[field])
      /\ Listed(base[field]) \subseteq Listed(obj[field])
      /\ base[field] \in ClusterList
  <2>1. Selected(obj) /\ base \in Status /\ Reliable(base)
    BY DEF RolloutInv, OneListMoves, InPass, IInv, TypeOK
  <2>2. Listed(base[field]) \subseteq Listed(obj[field])
    BY <2>1, ReliableListed DEF Field, Selected
  <2> QED
    BY <2>1, <2>2 DEF PassInv, BatchInv, OrderlyStatus, Orderly, Field, Status
<1>2. CASE base[field][c].pos = 0
  BY <1>1, <1>2 DEF Phased, Begun, Onward, Outcome
<1>3. CASE base[field][c].pos # 0
  <2>1. base[field][c].pos > 0
    BY <1>1, <1>3 DEF ClusterList, Slot
  <2> QED
    BY <1>1, <2>1 DEF Listed, Follows, MovesOnward
<1> QED
  BY <1>2, <1>3

\* The copies stay as old as they are, or are renewed.
LEMMA CopyOlderNext ==
    ASSUME "delete" \notin Faults, IInv, PassInv, BatchInv, RolloutInv,
           CopyBehind, OneMove, CopyOlder, [Next]_vars
    PROVE  CopyOlder'
<1>0. \A field \in Field : obj[field] \in ClusterList /\ base[field] \in ClusterList
  BY DEF IInv, TypeOK, Status, Field
<1>1. ASSUME NEW w \in wake, Fetch(w)
      PROVE  CopyOlder'
  <2>1. cr' = cr /\ cache' = cache /\ base' = cache /\ pc' = "apply"
    BY <1>1 DEF Fetch
  <2>2. Places(cache, obj')
    <3>1. CASE cache = NoStatus
      BY <3>1 DEF Places
    <3>2. CASE cache # NoStatus
      <4>1. Selected(cache)
        BY <3>2 DEF RolloutInv, Reliable
      <4>2. PICK canary \in Selections(cache.canary, InitialCanary),
                 main \in Selections(cache.main, InitialMain) :
                obj' = [cache EXCEPT !.canary = canary, !.main = main]
        BY <1>1 DEF Fetch, RolloutInv, FixedSelection, Field
      <4>3. /\ cache \in Status /\ cache.main \in ClusterList /\ cache.canary \in ClusterList
            /\ InitialMain \in SUBSET Cluster /\ InitialCanary \in SUBSET Cluster
        BY ConstantsAssumption DEF IInv, TypeOK, Status
      <4>4. SamePlaces(cache.main, main) /\ SamePlaces(cache.canary, canary)
        BY <4>1, <4>2, <4>3, SelectionPlaces DEF Selected
      <4>5. obj'.main = main /\ obj'.canary = canary
        BY <4>2, <4>3 DEF Status
      <4> QED
        BY <4>4, <4>5 DEF Places, Field
    <3> QED
      BY <3>1, <3>2
  <2> QED
    BY <2>1, <2>2 DEF CopyOlder, InPass
<1>2. CASE Apply
  <2>1. cr' = cr /\ cache' = cache /\ base' = base /\ pc = "apply" /\ pc' = "observe"
    BY <1>2 DEF Apply
  <2>2. PICK created \in SUBSET Creations(obj[RolledField(obj)]) :
            /\ obj'.conds.applied # "absent"
            /\ \A field \in Field :
                  obj'[field] = IF field = RolledField(obj)
                                THEN Started(obj[field], created) ELSE obj[field]
    BY <1>2, ApplyCreates
  <2>3. ASSUME NEW field \in Field, NEW c \in Cluster
        PROVE  obj'[field][c].pos = obj[field][c].pos
    BY <1>0, <2>2, StartedAdvances DEF Advances
  <2>4. Places(base, obj')
    BY <2>1, <2>3 DEF CopyOlder, InPass, Places, SamePlaces, Listed, Before
  <2> QED
    BY <2>1, <2>2, <2>4 DEF CopyOlder, InPass
<1>3. CASE Observe
  <2>1. cr' = cr /\ cache' = cache /\ base' = base /\ pc = "observe" /\ pc' = "settle"
    BY <1>3 DEF Observe
  <2>2. /\ obj'.conds.applied = obj.conds.applied
        /\ \A field \in Field : obj'[field] \in {Observed(obj[field]), obj[field]}
    BY <1>3, ObserveReads
  <2>3. ASSUME NEW field \in Field, NEW c \in Cluster
        PROVE  obj'[field][c].pos = obj[field][c].pos
    BY <1>0, <2>2, ObservedAdvances DEF Advances
  <2>4. Places(base, obj')
    BY <2>1, <2>3 DEF CopyOlder, InPass, Places, SamePlaces, Listed, Before
  <2> QED
    BY <2>1, <2>2, <2>4 DEF CopyOlder, InPass
<1>4. CASE Settle
  <2>1. cr' = cr /\ cache' = cache /\ base' = base /\ pc = "settle" /\ pc' = "write"
    BY <1>4 DEF Settle
  <2>2. /\ obj'.conds.applied = obj.conds.applied
        /\ \A field \in Field : obj'[field] = obj[field]
        /\ obj'.conds.canaryComplete =
              CompleteAfter(obj.conds.canaryComplete, obj.canary,
                            obj.conds.inProgress = "true" /\ Listed(obj.canary) # {})
    BY <1>4, SettleDoes
  <2>3. Places(base, obj')
    BY <2>1, <2>2 DEF CopyOlder, InPass, Places
  <2>4. ASSUME NEW field \in Field
        PROVE  Later(base[field], obj'[field])
    <3>1. \A c \in Cluster : /\ Onward(base[field][c].up, obj[field][c].up)
                             /\ Onward(base[field][c].ops, obj[field][c].ops)
      BY <2>1, CopyGoesOn DEF InPass
    <3> QED
      BY <2>1, <2>2, <3>1 DEF Later, OneMove
  <2>5. obj.conds.canaryComplete = base.conds.canaryComplete
    BY <2>1 DEF RolloutInv, OneListMoves
  <2>6. Older(base, obj')
    BY <2>2, <2>3, <2>4, <2>5 DEF Older, CompleteAfter
  <2> QED
    BY <2>1, <2>2, <2>6 DEF CopyOlder, InPass, Older
<1>5. CASE Stores
  <2>1. obj # NoStatus
    BY <1>5 DEF Stores, CopyOlder, NoStatus, NoConditions
  <2>2. cache = base /\ Older(base, obj)
    BY <1>5 DEF Stores, CopyBehind, CopyOlder, InPass
  <2> QED
    BY <1>5, <2>1, <2>2 DEF Stores, CopyOlder, InPass
<1>6. CASE Beside
  <2>1. Older(cache', cr') /\ (cr' = NoStatus => cache' = NoStatus)
    BY <1>6, OlderItself DEF Beside, CopyOlder
  <2> QED
    BY <1>6, <2>1 DEF Beside, CopyOlder, InPass
<1> QED
  BY <1>1, <1>2, <1>3, <1>4, <1>5, <1>6, StepKinds

\* A look at the ManifestWorks that finds an upgrade under way finds the
\* rollout in progress.
LEMMA ObservedInProgress ==
    ASSUME NEW list \in ClusterList, Phased(list), NEW c \in Cluster,
           Observed(list)[c].up \in {"Partial", "Complete"}
    PROVE  list[c].up \in {"Partial", "Complete"} \/ InProgress(list)
<1>1. Observed(list)[c].up = ObservedUpgrade(list[c].up, work[c]["upgrade"])
  BY ObservedSlot
<1>2. ASSUME list[c].up \notin {"Partial", "Complete"}
      PROVE  InProgress(list)
  <2>1. list[c].up = "Initialized" /\ work[c]["upgrade"].phase = "available"
    BY <1>1, <1>2 DEF ObservedUpgrade, Reported
  <2>2. list[c].pos \in Nat /\ list[c].pos # 0
    BY <2>1 DEF Phased, Begun, ClusterList, Slot
  <2>3. c \in Listed(list)
    BY <2>2 DEF Listed
  <2> QED
    BY <2>1, <2>3 DEF InProgress, Available
<1> QED
  BY <1>2

\* The conditions are there.
LEMMA AnnouncedNext ==
    ASSUME "delete" \notin Faults, IInv, BatchInv, RolloutInv, AllAnnounced, [Next]_vars
    PROVE  AllAnnounced'
<1> SUFFICES /\ Announced(cr') /\ Announced(cache') /\ Announced(base')
             /\ Announced(obj') \/ (pc' = "settle" /\ obj'.conds.inProgress = "true")
  BY DEF AllAnnounced, Announced, Condition
<1>0. \A field \in Field : obj[field] \in ClusterList /\ Phased(obj[field])
  BY DEF IInv, TypeOK, Status, Field, BatchInv, OrderlyStatus, Orderly
<1>1. ASSUME NEW w \in wake, Fetch(w)
      PROVE  Announced(cache') /\ Announced(cr') /\ Announced(base') /\ Announced(obj')
  <2>1. cr' = cr /\ cache' = cache /\ base' = cache
    BY <1>1 DEF Fetch
  <2>2. obj'.conds = cache.conds /\ \A field \in Field : SameStates(cache[field], obj'[field])
    BY <1>1, FetchRollout DEF Field
  <2>3. Announced(obj')
    BY <2>2 DEF AllAnnounced, Announced, Condition, SameStates
  <2> QED
    BY <2>1, <2>3 DEF AllAnnounced
<1>2. CASE Apply
  <2>1. cr' = cr /\ cache' = cache /\ base' = base /\ pc = "apply"
    BY <1>2 DEF Apply
  <2>2. PICK created \in SUBSET Creations(obj[RolledField(obj)]) :
            /\ obj'.conds.complete = obj.conds.complete
            /\ obj'.conds.canaryComplete = obj.conds.canaryComplete
            /\ \A field \in Field :
                  obj'[field] \in {Started(obj[field], created), obj[field]}
    BY <1>2, ApplyCreates
  <2>3. ASSUME NEW field \in Field, NEW c \in Cluster
        PROVE  obj'[field][c].up \in {obj[field][c].up, "Initialized"}
    <3>1. Started(obj[field], created)[c].up \in {obj[field][c].up, "Initialized"}
      BY <1>0 DEF Started, ClusterList, Slot
    <3> QED
      BY <2>2, <3>1
  <2>4. Announced(obj')
    BY <2>1, <2>2, <2>3 DEF AllAnnounced, Announced, Condition
  <2> QED
    BY <2>1, <2>4 DEF AllAnnounced
<1>3. CASE Observe
  <2>1. cr' = cr /\ cache' = cache /\ base' = base /\ pc = "observe" /\ pc' = "settle"
    BY <1>3 DEF Observe
  <2>2. Announced(obj)
    BY <2>1 DEF AllAnnounced
  <2>3. /\ obj'.conds.complete = obj.conds.complete
        /\ obj'.conds.canaryComplete = obj.conds.canaryComplete
        /\ obj'.conds.inProgress = InProgressAfter(obj.conds, obj[RolledField(obj)])
        /\ \A field \in Field :
              obj'[field] = IF field = RolledField(obj) /\ Observes(obj.conds)
                            THEN Observed(obj[field]) ELSE obj[field]
    BY <1>3, ObserveReads
  <2>4. ASSUME obj'.conds.inProgress # "true", NEW field \in Field, NEW c \in Cluster,
               obj'[field][c].up \in {"Partial", "Complete"}
        PROVE  obj[field][c].up \in {"Partial", "Complete"}
    <3>1. CASE field = RolledField(obj) /\ Observes(obj.conds)
      <4>1. ~InProgress(obj[field])
        BY <2>3, <2>4, <3>1 DEF InProgressAfter, Observes
      <4> QED
        BY <1>0, <2>3, <2>4, <3>1, <4>1, ObservedInProgress
    <3>2. CASE ~(field = RolledField(obj) /\ Observes(obj.conds))
      BY <2>3, <2>4, <3>2
    <3> QED
      BY <3>1, <3>2
  <2>5. Announced(obj') \/ obj'.conds.inProgress = "true"
    BY <2>2, <2>3, <2>4 DEF Announced, Condition
  <2> QED
    BY <2>1, <2>5 DEF AllAnnounced
<1>4. CASE Settle
  <2>1. cr' = cr /\ cache' = cache /\ base' = base
    BY <1>4 DEF Settle
  <2>2. /\ \A field \in Field : obj'[field] = obj[field]
        /\ obj'.conds.complete =
              CompleteAfter(obj.conds.complete, obj.main, obj.conds.inProgress = "true")
        /\ obj'.conds.canaryComplete =
              CompleteAfter(obj.conds.canaryComplete, obj.canary,
                            obj.conds.inProgress = "true" /\ Listed(obj.canary) # {})
    BY <1>4, SettleDoes
  <2>3. obj.conds.complete \in Cond /\ obj.conds.canaryComplete \in Cond
    BY DEF IInv, TypeOK, Status, Conditions
  <2>4. ASSUME NEW c \in Cluster, obj.main[c].up \in {"Partial", "Complete"}
        PROVE  obj'.conds.complete # "absent"
    BY <2>2, <2>3, <2>4 DEF AllAnnounced, Announced, Condition, Field, CompleteAfter, Cond
  <2>5. ASSUME NEW c \in Cluster, obj.canary[c].up \in {"Partial", "Complete"}
        PROVE  obj'.conds.canaryComplete # "absent"
    <3>1. obj.canary[c].pos # 0 /\ obj.canary[c].pos \in Nat
      BY <1>0, <2>5 DEF Field, Phased, Begun, ClusterList, Slot
    <3>2. Listed(obj.canary) # {}
      BY <3>1 DEF Listed
    <3> QED
      BY <2>2, <2>3, <2>5, <3>2
         DEF AllAnnounced, Announced, Condition, Field, CompleteAfter, Cond
  <2>6. Announced(obj')
    BY <2>2, <2>4, <2>5 DEF Announced, Condition, Field
  <2> QED
    BY <2>1, <2>6 DEF AllAnnounced
<1>5. CASE Stores \/ Beside
  <2>1. Announced(NoStatus)
    BY DEF Announced, Field, NoStatus, NoClusters, SlotAt
  <2>2. pc = "write" => Announced(obj)
    BY DEF AllAnnounced
  <2> QED
    BY <1>5, <2>1, <2>2 DEF Stores, Beside, AllAnnounced
<1> QED
  BY <1>1, <1>2, <1>3, <1>4, <1>5, StepKinds

\* Only Apply gets a cluster under way.
LEMMA UnderwayByApply ==
    ASSUME IInv, [Next]_vars, ~Apply, NEW c \in Cluster, Underway(c)'
    PROVE  Underway(c)
<1>1. /\ "upgrade" \in Kind /\ "operators" \in Kind
      /\ managed[c].version \in {"other", "asked", "partial", "completed"}
  BY DEF Kind, IInv, TypeOK, Managed
<1>2. Upgrading(c)' => Upgrading(c)
  <2>1. ASSUME managed'[c].version \in {"asked", "partial"}
        PROVE  Upgrading(c)
    BY <1>1, <2>1, ManagedForward DEF Upgrading
  <2>2. ASSUME managed'[c].version = "other", work'[c]["upgrade"].phase # "absent"
        PROVE  Upgrading(c)
    BY <1>1, <2>2, ManagedForward, WorkByApply DEF Upgrading
  <2> QED
    BY <2>1, <2>2 DEF Upgrading
<1>3. Approving(c)' => Approving(c)
  BY <1>1, WorkByApply DEF Approving
<1> QED
  BY <1>2, <1>3 DEF Underway

\* A cluster that is upgrading has not got to its operators, on any list.
LEMMA UpgradingEarly ==
    ASSUME WorkAsked, NEW list, Truthful(list), Phased(list),
           NEW c \in Cluster, Upgrading(c)
    PROVE  c \in Upgradable /\ list[c].ops = "NotStarted" /\ list[c].up # "Complete"
<1>1. c \in Upgradable /\ managed[c].version # "completed"
  BY DEF WorkAsked, Upgrading
<1>2. list[c].up # "Complete"
  BY <1>1 DEF Truthful
<1> QED
  BY <1>1, <1>2 DEF Phased

\* A cluster that is under way counts on a list on which it has not ended.
LEMMA UnderwayCounts ==
    ASSUME WorkAsked, NEW list, Truthful(list), Phased(list),
           NEW c \in Cluster, Underway(c), list[c].ops \notin Outcome
    PROVE  Counts(list, c)
<1>1. CASE Upgrading(c)
  BY <1>1, UpgradingEarly DEF Counts, OperatorsEnded, StartsOperators, StartsUpgrade
<1>2. CASE Approving(c)
  BY <1>2 DEF WorkAsked, Approving, Counts, OperatorsEnded, Outcome
<1> QED
  BY <1>1, <1>2 DEF Underway

\* Within a pass the list that is rolled is the one the status read asks for.
LEMMA FrontIsRead ==
    ASSUME RolloutInv, pc \in {"apply", "observe", "settle"}
    PROVE  RolledField(obj) = Front(base) /\ RolledField(obj) \in Field
  BY GateIsRead DEF RolledField, Front, Field

\* A cluster that Apply gets under way is one it creates a ManifestWork for.
LEMMA ApplyStarts ==
    ASSUME NEW created, NEW c \in Cluster, managed' = managed,
           \A k \in Kind : <<c, k>> \notin created => work'[c][k] = work[c][k],
           Underway(c)', ~Underway(c)
    PROVE  \/ <<c, "upgrade">> \in created /\ managed[c].version = "other"
           \/ <<c, "operators">> \in created
<1>1. /\ <<c, "upgrade">> \notin created => work'[c]["upgrade"] = work[c]["upgrade"]
      /\ <<c, "operators">> \notin created => work'[c]["operators"] = work[c]["operators"]
  BY DEF Kind
<1> QED
  BY <1>1 DEF Underway, Upgrading, Approving

\* A pass that is not the first starts clusters that are in the batch of the
\* stored status as well, even when it goes by an older one.
LEMMA StartsHeld ==
    ASSUME KeepsBound, IInv, BatchInv, RolloutInv, BoundInv,
           pc = "apply", cr # NoStatus, NEW c \in Cluster,
           \/ /\ <<c, "upgrade">> \in Creations(obj[RolledField(obj)])
              /\ managed[c].version = "other"
           \/ <<c, "operators">> \in Creations(obj[RolledField(obj)])
    PROVE  Held(cr, c)
<1> DEFINE F == RolledField(obj)
<1>0. /\ F = Front(base) /\ F \in Field
      /\ obj[F] \in ClusterList /\ base[F] \in ClusterList /\ cr[F] \in ClusterList
      /\ Phased(obj[F]) /\ Phased(cr[F]) /\ Truthful(cr[F])
  BY FrontIsRead DEF IInv, TypeOK, Status, Field, BatchInv, OrderlyStatus, Orderly, TruthfulStatus
<1>1. /\ Selected(obj) /\ Selected(cr)
      /\ SameStates(base[F], obj[F])
      /\ Older(base, cr) /\ Places(base, obj)
      /\ Later(base[F], cr[F])
  BY <1>0 DEF RolloutInv, OneListMoves, Reliable, BoundInv, OneMove, CopyOlder, InPass, Older
<1>2. /\ c \in Batch(obj[F]) /\ c \in Listed(obj[F])
      /\ \/ c \in Upgradable /\ managed[c].version = "other"
         \/ WantOperators /\ obj[F][c].ops = "NotStarted"
  BY DEF Creations, Batch, StartsUpgrade, StartsOperators
<1> HIDE DEF F
<1>3. cr[F][c].ops \notin Outcome /\ Counts(cr[F], c)
  <2>1. CASE c \in Upgradable /\ managed[c].version = "other"
    <3>1. cr[F][c].up # "Complete"
      BY <1>0, <2>1 DEF Truthful
    <3>2. cr[F][c].ops = "NotStarted"
      BY <1>0, <2>1, <3>1 DEF Phased
    <3> QED
      BY <2>1, <3>1, <3>2 DEF Counts, OperatorsEnded, StartsOperators, StartsUpgrade, Outcome
  <2>2. CASE WantOperators /\ obj[F][c].ops = "NotStarted"
    <3>1. base[F][c].ops = "NotStarted"
      BY <1>1, <2>2 DEF SameStates
    <3>2. cr[F][c].ops \notin Outcome
      BY <1>1, <3>1 DEF Later
    <3> QED
      BY <2>2, <3>2 DEF Counts, OperatorsEnded, Outcome
  <2> QED
    BY <1>2, <2>1, <2>2
<1>4. Front(cr) = F
  <2>1. CASE Gated(base) /\ ~Gated(cr)
    <3>1. F = "canary" /\ cr.conds.canaryComplete = "true" /\ c \in Listed(cr.canary)
      BY <1>0, <1>1, <1>2, <2>1 DEF Front, Gated, Selected
    <3>2. CompleteAll(cr.canary) /\ UpgradedFor(c) /\ ApprovedFor(c)
      BY <1>0, <3>1, CompleteIsReal DEF RolloutInv, Reliable
    <3>3. WantOperators => cr[F][c].ops = "Complete"
      BY <3>1, <3>2 DEF CompleteAll
    <3>4. ~(c \in Upgradable /\ managed[c].version = "other")
      BY <3>2 DEF UpgradedFor, Upgradable
    <3> QED
      BY <1>2, <1>3, <3>3, <3>4 DEF Outcome
  <2>2. Gated(cr) => Gated(base)
    BY <1>1 DEF Older, Gated
  <2> QED
    BY <1>0, <2>1, <2>2 DEF Front
<1>5. c \in Batch(cr[F])
  <2>1. CASE base # NoStatus
    <3>1. SamePlaces(base[F], obj[F]) /\ SamePlaces(base[F], cr[F])
      BY <1>0, <1>1, <2>1 DEF Older, Places
    <3>2. SamePlaces(obj[F], cr[F])
      BY <3>1 DEF SamePlaces
    <3>3. \A d \in Cluster : /\ Onward(obj[F][d].up, cr[F][d].up)
                             /\ Onward(obj[F][d].ops, cr[F][d].ops)
      BY <1>1 DEF Later, SameStates
    <3>4. Batch(obj[F]) \subseteq Batch(cr[F])
      BY <1>0, <3>2, <3>3, BatchGoesOn
    <3> QED
      BY <1>2, <3>4
  <2>2. CASE base = NoStatus
    <3>1. "stale" \in Faults
      BY <2>2 DEF BoundInv, CopyBehind, InPass
    <3>2. FirstFits
      BY <3>1 DEF KeepsBound
    <3>3. F = First
      BY <1>0, <2>2 DEF Front, First, Gated, NoStatus, NoConditions
    <3>4. Listed(cr[F]) = Chosen(F) /\ c \in Listed(cr[F])
      BY <1>0, <1>1, <1>2 DEF Selected, Chosen, Field
    <3> QED
      BY <1>0, <3>2, <3>3, <3>4, SmallBatch DEF FirstFits
  <2> QED
    BY <2>1, <2>2
<1> QED
  BY <1>3, <1>4, <1>5 DEF Held

\* Apply keeps the bound.
LEMMA ApplyHeld ==
    ASSUME KeepsBound, IInv, BatchInv, RolloutInv, BoundInv, Apply, BatchInv'
    PROVE  AllHeld'
<1> DEFINE F == RolledField(obj)
<1>1. /\ cr' = cr /\ base' = base /\ managed' = managed
      /\ pc = "apply" /\ pc' = "observe"
  BY DEF Apply
<1>2. PICK created \in SUBSET Creations(obj[F]) :
          /\ \A c \in Cluster, k \in Kind : <<c, k>> \notin created => work'[c][k] = work[c][k]
          /\ \A field \in Field :
                obj'[field] = IF field = F THEN Started(obj[field], created) ELSE obj[field]
  BY ApplyCreates
<1>3. F = Front(base) /\ F \in Field /\ Selected(obj) /\ First \in Field
  BY <1>1, FrontIsRead DEF RolloutInv, OneListMoves, First, Field
<1>4. Batch(obj[First]) \subseteq Batch(obj'[First])
  <2>1. CASE First # F
    BY <1>2, <1>3, <2>1
  <2>2. CASE First = F
    <3>1. obj[F] \in ClusterList /\ obj'[F] = Started(obj[F], created)
      BY <1>2, <1>3 DEF IInv, TypeOK, Status, Field
    <3>2. Started(obj[F], created) \in ClusterList /\ Phased(obj'[F])
      BY <1>3, <3>1, StartedTyped DEF BatchInv, OrderlyStatus, Orderly, Field
    <3>3. Advances(obj[F], Started(obj[F], created))
      BY <3>1, StartedAdvances
    <3>4. SamePlaces(obj[F], Started(obj[F], created))
      BY <3>3, PlacesStay DEF Advances
    <3> QED
      BY <2>2, <3>1, <3>2, <3>3, <3>4, BatchGoesOn DEF Advances
  <2> QED
    BY <2>1, <2>2
<1> SUFFICES ASSUME NEW c \in Cluster, Underway(c)'
             PROVE  (cr # NoStatus => Held(cr, c)) /\ (cr = NoStatus => HeldFirst(c)')
  BY <1>1 DEF AllHeld
<1>5. CASE Underway(c)
  BY <1>1, <1>4, <1>5 DEF BoundInv, AllHeld, HeldFirst, InPass
<1>6. CASE ~Underway(c)
  <2>1. \/ <<c, "upgrade">> \in created /\ managed[c].version = "other"
        \/ <<c, "operators">> \in created
    BY <1>1, <1>2, <1>6, ApplyStarts
  <2>2. cr # NoStatus => Held(cr, c)
    BY <1>1, <1>2, <2>1, StartsHeld
  <2>3. ASSUME cr = NoStatus
        PROVE  c \in Chosen(First) /\ c \in Batch(obj[First])
    <3>1. F = First
      BY <1>3, <2>3 DEF BoundInv, CopyOlder, Front, First, Gated, NoStatus, NoConditions
    <3>2. c \in Batch(obj[F]) /\ c \in Listed(obj[F])
      BY <2>1 DEF Creations, Batch
    <3>3. Listed(obj[F]) = Chosen(F)
      BY <1>3 DEF Selected, Chosen, Field
    <3> QED
      BY <3>1, <3>2, <3>3
  <2> QED
    BY <1>1, <1>4, <2>2, <2>3 DEF HeldFirst, InPass
<1> QED
  BY <1>5, <1>6


\* When a pass that has read the stored status ends, it has deleted the work
\* of the operators that it found ended.
LEMMA SettleEnds ==
    ASSUME KeepsBound, IInv, BatchInv, RolloutInv, BoundInv, Settle, base = cr,
           NEW c \in Cluster, Underway(c), Underway(c)'
    PROVE  obj[RolledField(obj)][c].ops \notin Outcome
<1> DEFINE F == RolledField(obj)
<1>1. pc = "settle" /\ managed' = managed
  BY DEF Settle
<1>2. /\ F = Front(base) /\ F \in Field
      /\ obj[F] \in ClusterList
      /\ Phased(obj[F]) /\ Phased(base[F]) /\ Truthful(obj[F])
      /\ Listed(obj[F]) = Chosen(F)
  BY <1>1, FrontIsRead
     DEF IInv, TypeOK, Status, Field, BatchInv, OrderlyStatus, Orderly, TruthfulStatus,
         RolloutInv, OneListMoves, Selected, Chosen
<1> HIDE DEF F
<1> SUFFICES ASSUME obj[F][c].ops \in Outcome
             PROVE  FALSE
  BY DEF F
<1>3. c \in Listed(obj[F]) /\ WantOperators /\ c \in Upgradable
  <2>1. obj[F][c].ops # "NotStarted" /\ WantOperators
    BY <1>2 DEF Phased, Outcome
  <2>2. c \in Listed(obj[F])
    BY <1>2, <2>1 DEF Phased, Begun, Listed, ClusterList, Slot
  <2> QED
    BY <1>2, <2>1, <2>2 DEF KeepsBound, Chosen
<1>4. base[F][c].ops # "NotStarted"
  BY <1>1, <1>2 DEF BoundInv, OneMove
<1>5. base[F][c].up = "Complete" /\ base # NoStatus
  BY <1>2, <1>3, <1>4 DEF Phased, NoStatus, NoClusters, SlotAt, Field
<1>6. Condition(obj, F) = "false"
  <2>1. Condition(obj, F) = Condition(base, F)
    BY <1>1 DEF BoundInv, CopyBehind, RolloutInv, OneListMoves, Condition
  <2>2. Condition(base, F) # "absent"
    BY <1>2, <1>5 DEF BoundInv, AllAnnounced, Announced
  <2>3. Condition(base, F) \in Cond
    BY DEF IInv, TypeOK, Status, Conditions, Condition
  <2>4. ASSUME Condition(base, F) = "true"
        PROVE  FALSE
    <3>1. CompleteAll(base[F]) /\ Listed(base[F]) = Chosen(F)
      BY <1>2, <1>5, <2>4 DEF RolloutInv, Reliable, Selected, Condition, Field, Chosen
    <3>2. base[F][c].ops = "Complete"
      BY <1>2, <1>3, <3>1 DEF CompleteAll
    <3>3. Counts(base[F], c)
      BY <1>2, <1>5 DEF BoundInv, AllHeld, Held
    <3> QED
      BY <3>2, <3>3 DEF Counts, OperatorsEnded
  <2> QED
    BY <2>1, <2>2, <2>3, <2>4 DEF Cond
<1>7. <<c, "operators">> \in Deletions(obj, obj'.conds)
  <2>1. CASE obj[F][c].ops = "Complete"
    <3>1. <<c, "operators">> \in PartsIn(obj[F], "Complete")
      BY <1>3, <2>1 DEF PartsIn, Kind
    <3> QED
      BY <1>2, <1>6, <3>1 DEF Deletions, Condition, Field
  <2>2. CASE obj[F][c].ops = "Failed"
    <3>1. <<c, "operators">> \in PartsIn(obj[F], "Failed")
      BY <1>3, <2>2 DEF PartsIn, Kind
    <3>2. ~CompleteAll(obj[F])
      BY <1>3, <2>2 DEF CompleteAll
    <3>3. /\ obj'.conds.complete =
                CompleteAfter(obj.conds.complete, obj.main, obj.conds.inProgress = "true")
          /\ obj'.conds.canaryComplete =
                CompleteAfter(obj.conds.canaryComplete, obj.canary,
                              obj.conds.inProgress = "true" /\ Listed(obj.canary) # {})
      BY SettleDoes DEF KeepsBound
    <3>4. Condition(obj', F) = "false"
      BY <1>2, <1>6, <3>2, <3>3 DEF CompleteAfter, Condition, Field
    <3> QED
      BY <1>2, <3>1, <3>4 DEF Deletions, Condition, Field, ChecksFailed
  <2> QED
    BY <2>1, <2>2 DEF Outcome
<1>8. work'[c]["operators"] = NoWork
  BY <1>7, SettleDoes DEF KeepsBound, Kind
<1>9. ~Upgrading(c)
  BY <1>2, UpgradingEarly DEF BoundInv, Outcome
<1>10. ~Upgrading(c)'
  <2>1. work'[c]["upgrade"] = work[c]["upgrade"] \/ work'[c]["upgrade"] = NoWork
    BY SettleDoes DEF KeepsBound, Kind
  <2> QED
    BY <1>1, <1>9, <2>1 DEF Upgrading, NoWork
<1> QED
  BY <1>8, <1>10 DEF Underway, Approving, NoWork

\* Settle keeps the bound.
LEMMA SettleHeld ==
    ASSUME KeepsBound, IInv, PassInv, BatchInv, RolloutInv, BoundInv, Settle, [Next]_vars
    PROVE  AllHeld'
<1> DEFINE F == RolledField(obj)
<1>1. /\ cr' = cr /\ base' = base /\ pc = "settle" /\ pc' = "write" /\ ~Apply
      /\ \A field \in Field : obj'[field] = obj[field]
      /\ obj'.conds.canaryComplete =
            CompleteAfter(obj.conds.canaryComplete, obj.canary,
                          obj.conds.inProgress = "true" /\ Listed(obj.canary) # {})
  BY SettleDoes DEF Settle, Apply, KeepsBound
<1>2. /\ F = Front(base) /\ F \in Field /\ First \in Field
      /\ obj[F] \in ClusterList /\ base[F] \in ClusterList
      /\ Phased(obj[F]) /\ Truthful(obj[F])
      /\ \A field \in Field : Listed(obj[field]) = Chosen(field) /\ obj[field] \in ClusterList
  BY <1>1, FrontIsRead
     DEF IInv, TypeOK, Status, Field, BatchInv, OrderlyStatus, Orderly, TruthfulStatus,
         RolloutInv, OneListMoves, Selected, Chosen, First
<1>3. obj.conds.canaryComplete = base.conds.canaryComplete
  BY <1>1 DEF RolloutInv, OneListMoves
<1> SUFFICES ASSUME NEW c \in Cluster, Underway(c)'
             PROVE  /\ cr # NoStatus => Held(cr, c)
                    /\ cr = NoStatus => HeldFirst(c)'
                    /\ base = cr => Held(obj', c)
  BY <1>1 DEF AllHeld
<1>4. Underway(c)
  BY <1>1, UnderwayByApply
<1>5. cr # NoStatus => Held(cr, c)
  BY <1>4 DEF BoundInv, AllHeld
<1>6. cr = NoStatus => HeldFirst(c) /\ HeldFirst(c)'
  BY <1>1, <1>2, <1>4 DEF BoundInv, AllHeld, HeldFirst, InPass
<1>7. ASSUME base = cr
      PROVE  Held(obj', c)
  <2>1. obj[F][c].ops \notin Outcome
    BY <1>4, <1>7, SettleEnds
  <2>2. Counts(obj[F], c)
    BY <1>2, <1>4, <2>1, UnderwayCounts DEF BoundInv
  <2>3. c \in Batch(obj[F])
    <3>1. CASE cr # NoStatus
      <4>1. c \in Batch(base[F])
        BY <1>2, <1>5, <1>7, <3>1 DEF Held
      <4>2. SamePlaces(base[F], obj[F])
        BY <1>1, <1>2, <1>7, <3>1 DEF BoundInv, CopyOlder, InPass, Places
      <4>3. \A d \in Cluster : /\ Onward(base[F][d].up, obj[F][d].up)
                               /\ Onward(base[F][d].ops, obj[F][d].ops)
        BY <1>1, <1>2, CopyGoesOn DEF InPass
      <4> QED
        BY <1>2, <4>1, <4>2, <4>3, BatchGoesOn
    <3>2. CASE cr = NoStatus
      <4>1. F = First
        BY <1>2, <1>7, <3>2 DEF Front, First, Gated, NoStatus, NoConditions
      <4>2. FirstFits => Listed(obj[F]) \subseteq Batch(obj[F])
        BY <1>2, <4>1, SmallBatch DEF FirstFits
      <4> QED
        BY <1>2, <1>6, <3>2, <4>1, <4>2 DEF HeldFirst
    <3> QED
      BY <3>1, <3>2
  <2>4. Front(obj') = F
    <3>1. CASE F = "main"
      <4>1. InitialCanary = {} \/ obj.conds.canaryComplete = "true"
        BY <1>2, <1>3, <3>1 DEF Front, Gated
      <4> QED
        BY <1>1, <3>1, <4>1 DEF Front, Gated, CompleteAfter
    <3>2. CASE F = "canary"
      <4>1. InitialCanary # {} /\ obj.conds.canaryComplete # "true"
        BY <1>2, <1>3, <3>2 DEF Front, Gated
      <4>2. c \in Listed(obj.canary)
        BY <2>3, <3>2 DEF Batch
      <4>3. ~CompleteAll(obj.canary)
        <5>1. SUFFICES ASSUME CompleteAll(obj.canary)
                       PROVE  FALSE
          OBVIOUS
        <5>2. ~WantOperators /\ (WantVersion => obj.canary[c].up = "Complete")
          BY <2>1, <3>2, <4>2, <5>1 DEF CompleteAll, Outcome
        <5>3. ~Approving(c)
          BY <5>2 DEF BoundInv, WorkAsked, Approving
        <5>4. Upgrading(c) => c \in Upgradable /\ obj.canary[c].up # "Complete"
          BY <1>2, <3>2, UpgradingEarly DEF BoundInv
        <5> QED
          BY <1>4, <5>2, <5>3, <5>4 DEF Underway, Upgradable
      <4>4. obj.conds.canaryComplete \in Cond
        BY DEF IInv, TypeOK, Status, Conditions
      <4> QED
        BY <1>1, <3>2, <4>1, <4>3, <4>4 DEF Front, Gated, CompleteAfter, Cond
    <3> QED
      BY <1>2, <3>1, <3>2 DEF Field
  <2> QED
    BY <1>1, <1>2, <2>2, <2>3, <2>4 DEF Held
<1> QED
  BY <1>5, <1>6, <1>7


\* Without a fault a pass ends when its working copy is stored.
LEMMA PassGoesOn ==
    ASSUME Faults \cap {"stale", "update", "crash"} = {}, CopyBehind, [Next]_vars,
           InPass, ~Stores
    PROVE  InPass'
<1> USE DEF reconciler, environment, InPass
<1>1. CASE \E w \in wake : Fetch(w) \/ SelectionPanics(w) \/ ListFails(w)
  BY <1>1 DEF Fetch, SelectionPanics, ListFails, Wakes
<1>2. CASE Apply \/ Observe \/ Settle
  BY <1>2 DEF Apply, Observe, Settle
<1>3. CASE Write
  <2>1. base = cr
    BY DEF CopyBehind
  <2> QED
    BY <1>3, <2>1 DEF Write, EndPass, Rest, Stores
<1>4. CASE WriteFails \/ Crash \/ Restart
  BY <1>4 DEF WriteFails, Crash, Restart, Fault
<1>5. CASE SyncCache \/ Agents
  BY <1>5, AgentsLeave DEF SyncCache
<1>6. CASE \/ \E c \in Cluster, k \in Kind : Expire(c, k)
           \/ \E field \in Editable, chosen \in SUBSET Cluster : Relabel(field, chosen)
           \/ UNCHANGED vars
  BY <1>6 DEF Expire, Relabel, vars
<1> QED
  BY <1>1, <1>2, <1>3, <1>4, <1>5, <1>6 DEF Next, Reconciler, Pass

\* Every step keeps the bound.
LEMMA HeldNext ==
    ASSUME KeepsBound, IInv, PassInv, BatchInv, RolloutInv, BoundInv, [Next]_vars, BatchInv'
    PROVE  AllHeld'
<1>1. CASE Apply \/ Settle
  BY <1>1, ApplyHeld, SettleHeld
<1>2. ASSUME ~Apply, NEW c \in Cluster, Underway(c)'
      PROVE  /\ cr # NoStatus => Held(cr, c)
             /\ cr = NoStatus => HeldFirst(c)
             /\ pc = "write" /\ base = cr => Held(obj, c)
  BY <1>2, UnderwayByApply DEF BoundInv, AllHeld
<1>3. ASSUME NEW w \in wake, Fetch(w)
      PROVE  AllHeld'
  <2>1. cr' = cr /\ pc = "idle" /\ pc' = "apply" /\ ~Apply
    BY <1>3 DEF Fetch, Wakes, Apply
  <2> QED
    BY <1>2, <2>1 DEF AllHeld, HeldFirst, InPass
<1>4. CASE Observe
  <2>1. cr' = cr /\ pc = "observe" /\ pc' = "settle" /\ ~Apply
    BY <1>4 DEF Observe, Apply
  <2>2. Batch(obj[First]) \subseteq Batch(obj'[First])
    <3>1. First \in Field
      BY DEF First, Field
    <3>2. obj[First] \in ClusterList /\ Phased(obj'[First])
      BY <3>1 DEF IInv, TypeOK, Status, Field, BatchInv, OrderlyStatus, Orderly
    <3>3. obj'[First] \in {Observed(obj[First]), obj[First]}
      BY <1>4, <3>1, ObserveReads
    <3>4. CASE obj'[First] = Observed(obj[First])
      <4>1. Observed(obj[First]) \in ClusterList
        BY <3>2, ObservedTyped DEF IInv
      <4>2. Advances(obj[First], Observed(obj[First]))
        BY <3>2, ObservedAdvances
      <4>3. SamePlaces(obj[First], Observed(obj[First]))
        BY <4>2, PlacesStay DEF Advances
      <4> QED
        BY <3>2, <3>4, <4>1, <4>2, <4>3, BatchGoesOn DEF Advances
    <3> QED
      BY <3>3, <3>4
  <2> QED
    BY <1>2, <2>1, <2>2 DEF AllHeld, HeldFirst, InPass
<1>5. CASE Stores
  <2>1. /\ cr' = obj /\ pc = "write" /\ pc' = "idle" /\ base = cr /\ ~Apply
        /\ obj # NoStatus
    BY <1>5 DEF Stores, Apply, BoundInv, CopyOlder, NoStatus, NoConditions
  <2> QED
    BY <1>2, <2>1 DEF AllHeld
<1>6. CASE Beside /\ ~Stores
  <2>1. cr' = cr /\ ~Apply
    BY <1>6 DEF Beside, Apply
  <2>2. CASE obj' = obj /\ base' = base /\ pc' = pc
    BY <1>2, <2>1, <2>2 DEF AllHeld, HeldFirst, InPass
  <2>3. CASE pc' \in {"idle", "panicked"}
    <3>1. cr = NoStatus /\ ~FirstFits => ~InPass
      BY <1>6, <2>3, PassGoesOn DEF KeepsBound, BoundInv, InPass
    <3> QED
      BY <1>2, <2>1, <2>3, <3>1 DEF AllHeld, HeldFirst, InPass
  <2> QED
    BY <1>6, <2>2, <2>3 DEF Beside
<1> QED
  BY <1>1, <1>3, <1>4, <1>5, <1>6, StepKinds

\* What a ManifestWork tells of the job is what became of it.
JobSeen ==
    \A c \in Cluster :
        /\ managed[c].job # "none" => WantOperators
        /\ work[c]["operators"].phase # "available" => work[c]["operators"].seen = "nothing"
        /\ work[c]["operators"].seen \in {"nothing", managed[c].job}

\* Operators that the pass has found complete are those of such a job.
JobFound ==
    pc = "settle" =>
        \A field \in Field, c \in Cluster :
            obj[field][c].ops = "Complete" =>
                base[field][c].ops = "Complete" \/ work[c]["operators"].seen = "completed"

\* A job that is running has its ManifestWork, or the status has given it up,
\* or the cluster keeps its place in the stored status: also when the pass
\* that deletes the ManifestWork stores what it has found.
JobHeld ==
    \A c \in Cluster : RunsJob(c) =>
        \/ Approving(c)
        \/ GivenUp(c)
        \/ /\ cr # NoStatus /\ Held(cr, c)
           /\ pc = "write" /\ base = cr =>
                 Held(obj, c) \/ obj[Front(base)][c].ops = "Failed"

JobInv == JobSeen /\ JobFound /\ JobHeld

\* The controller and the clock do nothing to a managed cluster.  Only Apply
\* makes a ManifestWork and only Settle deletes one.
LEMMA HubSteps ==
    ASSUME IInv, RolloutInv, [Next]_vars, ~Agents, NEW c \in Cluster
    PROVE  /\ managed' = managed
           /\ \/ /\ work'[c]["operators"].phase = work[c]["operators"].phase
                 /\ work'[c]["operators"].seen = work[c]["operators"].seen
              \/ Apply /\ work'[c]["operators"] = [NoWork EXCEPT !.phase = "sent"]
              \/ Settle /\ work'[c]["operators"] = NoWork
<1> DEFINE Same == /\ work'[c]["operators"].phase = work[c]["operators"].phase
                   /\ work'[c]["operators"].seen = work[c]["operators"].seen
<1> USE DEF environment
<1>0. "operators" \in Kind /\ work \in [Cluster -> [Kind -> Work]]
  BY DEF Kind, IInv, TypeOK
<1>1. managed' = managed
  BY DEF Next, Reconciler, Pass, Fetch, SelectionPanics, ListFails, Apply, Observe,
         Settle, Write, WriteFails, EndPass, SyncCache, Crash, Restart, Reboot,
         Expire, Relabel, vars
<1>2. CASE Apply
  <2>1. PICK created \in SUBSET Creations(obj[RolledField(obj)]) :
            \A d \in Cluster, k \in Kind :
                work'[d][k] = IF <<d, k>> \in created
                              THEN [NoWork EXCEPT !.phase = "sent"] ELSE work[d][k]
    BY <1>2, ApplyCreates
  <2>2. work'[c]["operators"] \in
            {work[c]["operators"], [NoWork EXCEPT !.phase = "sent"]}
    BY <1>0, <2>1
  <2> QED
    BY <1>1, <1>2, <2>2
<1>3. CASE Settle
  <2>1. work'[c]["operators"] \in {work[c]["operators"], NoWork}
    BY <1>0, <1>3 DEF Settle
  <2> QED
    BY <1>1, <1>3, <2>1
<1>4. ASSUME NEW d \in Cluster, NEW l \in Kind, Expire(d, l)
      PROVE  Same
  <2>1. work' = [work EXCEPT ![d][l].expired = TRUE]
    BY <1>4 DEF Expire
  <2> QED
    BY <1>0, <2>1 DEF Work
<1>5. CASE work' = work
  BY <1>1, <1>5
<1> QED
  BY <1>1, <1>2, <1>3, <1>4, <1>5
     DEF Next, Reconciler, Pass, Fetch, SelectionPanics, ListFails, Observe,
         Write, WriteFails, EndPass, SyncCache, Crash, Restart, Reboot, Relabel, vars

LEMMA JobSeenNext ==
    ASSUME IInv, RolloutInv, WorkAsked, JobSeen, [Next]_vars
    PROVE  JobSeen'
<1> SUFFICES ASSUME NEW c \in Cluster
             PROVE  /\ managed'[c].job # "none" => WantOperators
                    /\ work'[c]["operators"].phase # "available" =>
                          work'[c]["operators"].seen = "nothing"
                    /\ work'[c]["operators"].seen \in {"nothing", managed'[c].job}
  BY DEF JobSeen
<1>0. /\ "operators" \in Kind /\ "upgrade" # "operators"
      /\ work[c]["operators"] \in Work /\ managed[c] \in Managed
  BY DEF Kind, IInv, TypeOK
<1>1. /\ managed[c].job # "none" => WantOperators
      /\ work[c]["operators"].phase # "available" => work[c]["operators"].seen = "nothing"
      /\ work[c]["operators"].seen \in {"nothing", managed[c].job}
      /\ work[c]["operators"].phase # "absent" => WantOperators
  BY DEF JobSeen, WorkAsked
<1>2. CASE ~Agents
  <2>1. managed' = managed
    BY <1>2, HubSteps
  <2>2. CASE work'[c]["operators"] \in {NoWork, [NoWork EXCEPT !.phase = "sent"]}
    BY <1>1, <2>1, <2>2 DEF NoWork
  <2>3. CASE /\ work'[c]["operators"].phase = work[c]["operators"].phase
             /\ work'[c]["operators"].seen = work[c]["operators"].seen
    BY <1>1, <2>1, <2>3
  <2> QED
    BY <1>2, <2>2, <2>3, HubSteps
<1>3. CASE Agents
  <2> DEFINE m == managed'[c]
             mw == work'[c]["operators"]
  <2>1. CASE managed'[c] = managed[c] /\ mw = work[c]["operators"]
    BY <1>1, <2>1
  <2>2. CASE /\ work[c]["operators"].phase = "available" /\ managed' = managed
             /\ mw = [work[c]["operators"] EXCEPT !.seen = ToReport(c, "operators")]
    <3>1. ToReport(c, "operators") \in {"nothing", managed[c].job}
      BY DEF ToReport
    <3>2. mw.phase = "available" /\ mw.seen = ToReport(c, "operators")
      BY <1>0, <2>2 DEF Work
    <3> QED
      BY <1>1, <2>2, <3>1, <3>2
  <2>3. CASE /\ managed' = managed
             /\ mw.seen = work[c]["operators"].seen
             /\ work[c]["operators"].seen = "nothing"
    BY <1>1, <2>3
  <2>4. CASE /\ work[c]["operators"].phase = "sent"
             /\ mw.seen = work[c]["operators"].seen
    <3>1. mw.seen = "nothing" /\ WantOperators
      BY <1>1, <2>4
    <3> QED
      BY <3>1
  <2>5. ASSUME mw = work[c]["operators"], m.job = managed[c].job
        PROVE  /\ m.job # "none" => WantOperators
               /\ mw.phase # "available" => mw.seen = "nothing"
               /\ mw.seen \in {"nothing", m.job}
    BY <1>1, <2>5
  <2>6. CASE mw = work[c]["operators"] /\ managed[c].job = "running"
    <3>1. work[c]["operators"].seen = "nothing"
      BY <1>0, <1>1, <2>6 DEF Work, Feedback
    <3> QED
      BY <1>1, <2>6, <3>1
  <2>7. CASE /\ mw = work[c]["operators"] /\ work[c]["operators"].phase = "absent"
             /\ m.job = "none"
    BY <1>1, <2>7
  <2>8. \/ mw = work[c]["operators"]
        \/ /\ work[c]["operators"].phase = "sent"
           /\ mw.seen = work[c]["operators"].seen
        \/ /\ managed' = managed
           /\ mw.seen = work[c]["operators"].seen
           /\ work[c]["operators"].seen = "nothing"
        \/ /\ work[c]["operators"].phase = "available" /\ managed' = managed
           /\ mw = [work[c]["operators"] EXCEPT !.seen = ToReport(c, "operators")]
    BY <1>0, <1>1, <1>3, AgentsWork DEF Work
  <2>9. \/ m = managed[c] \/ m.job = managed[c].job
        \/ work[c]["operators"].phase = "sent"
        \/ managed[c].job = "running"
        \/ work[c]["operators"].phase = "absent" /\ m.job = "none"
    BY <1>0, <1>3, AgentsManaged DEF Managed
  <2>10. CASE mw = work[c]["operators"] /\ work[c]["operators"].phase = "sent"
    <3>1. mw.seen = "nothing" /\ WantOperators
      BY <1>1, <2>10
    <3> QED
      BY <3>1
  <2> HIDE DEF m, mw
  <2>11. /\ m.job # "none" => WantOperators
         /\ mw.phase # "available" => mw.seen = "nothing"
         /\ mw.seen \in {"nothing", m.job}
    BY <2>1, <2>2, <2>3, <2>4, <2>5, <2>6, <2>7, <2>8, <2>9, <2>10 DEF m, mw
  <2> QED
    BY <2>11 DEF m, mw
<1> QED
  BY <1>2, <1>3

\* The report that a job has completed stays.
LEMMA JobFoundNext ==
    ASSUME IInv, RolloutInv, OneMove, JobSeen, JobFound, [Next]_vars
    PROVE  JobFound'
<1>1. CASE Observe
  <2>1. pc = "observe" /\ pc' = "settle" /\ base' = base /\ work' = work
    BY <1>1 DEF Observe, environment
  <2>2. ASSUME NEW field \in Field, NEW c \in Cluster, obj'[field][c].ops = "Complete"
        PROVE  base[field][c].ops = "Complete" \/ work[c]["operators"].seen = "completed"
    <3>1. obj[field] \in ClusterList
      BY DEF IInv, TypeOK, Status, Field
    <3>2. base[field][c].ops = obj[field][c].ops \/ obj[field][c].ops = "Initialized"
      BY <2>1 DEF OneMove
    <3>3. obj'[field] \in {Observed(obj[field]), obj[field]}
      BY <1>1, ObserveReads
    <3>4. \/ obj[field][c].ops = "Complete"
          \/ obj[field][c].ops = "Partial" /\ work[c]["operators"].seen = "completed"
      BY <2>2, <3>1, <3>3, ObservedSlot DEF ObservedOperators
    <3> QED
      BY <3>2, <3>4
  <2> QED
    BY <2>1, <2>2 DEF JobFound
<1>2. CASE pc = "settle" /\ obj' = obj /\ base' = base /\ ~Apply /\ ~Settle
  <2>1. ASSUME NEW c \in Cluster, work[c]["operators"].seen = "completed"
        PROVE  work'[c]["operators"].seen = "completed"
    <3>1. /\ work[c]["operators"] \in Work /\ "operators" \in Kind
          /\ managed[c].job = "completed"
      BY <2>1 DEF Kind, IInv, TypeOK, JobSeen
    <3>2. CASE ~Agents
      BY <1>2, <2>1, <3>2, HubSteps
    <3>3. CASE Agents
      <4>1. ToReport(c, "operators") = "completed"
        BY <3>1 DEF ToReport, JobEnd
      <4> QED
        BY <2>1, <3>1, <3>3, <4>1, AgentsWork DEF Work
    <3> QED
      BY <3>2, <3>3
  <2> QED
    BY <1>2, <2>1 DEF JobFound
<1>3. CASE pc' # "settle"
  BY <1>3 DEF JobFound
<1>4. Observe \/ (pc = "settle" /\ obj' = obj /\ base' = base /\ ~Apply /\ ~Settle) \/ pc' # "settle"
  <2>1. CASE \E w \in wake : Fetch(w)
    BY <2>1 DEF Fetch
  <2>2. CASE Apply \/ Settle
    BY <2>2 DEF Apply, Settle
  <2>3. CASE Stores \/ Beside
    BY <2>3 DEF Stores, Beside, Apply, Settle
  <2> QED
    BY <2>1, <2>2, <2>3, StepKinds
<1> QED
  BY <1>1, <1>2, <1>3, <1>4

\* A job that is running when a ManifestWork does not speak for it was running
\* before, and if the ManifestWork is not deleted in this step, without it.
LEMMA JobWasRunning ==
    ASSUME IInv, RolloutInv, JobSeen', [Next]_vars,
           NEW c \in Cluster, RunsJob(c)', ~Approving(c)'
    PROVE  RunsJob(c) /\ (Settle \/ ~Approving(c))
<1>0. /\ work[c]["operators"] \in Work /\ managed[c] \in Managed /\ "operators" \in Kind
      /\ work' \in [Cluster -> [Kind -> Work]]
  BY NextKeepsIInv DEF Kind, IInv, TypeOK
<1>1. work'[c]["operators"].phase = "absent"
  <2>1. work'[c]["operators"] \in Work /\ managed'[c].job = "running"
    BY <1>0 DEF RunsJob
  <2>2. work'[c]["operators"].seen = "nothing"
    BY <2>1 DEF JobSeen, Work, Feedback
  <2> QED
    BY <2>2 DEF Approving
<1>2. CASE ~Agents
  BY <1>1, <1>2, HubSteps DEF RunsJob, Approving, NoWork
<1>3. CASE Agents
  <2> DEFINE mw == work[c]["operators"]
  <2>1. mw.phase = "absent"
    <3>1. ASSUME NEW phase \in {"applied", "available"},
                 work'[c]["operators"] = [mw EXCEPT !.phase = phase]
          PROVE  FALSE
      BY <1>0, <1>1, <3>1 DEF Work
    <3>2. CASE work'[c]["operators"] = [mw EXCEPT !.seen = ToReport(c, "operators")]
      BY <1>0, <1>1, <3>2 DEF Work
    <3>3. CASE work'[c]["operators"] = mw
      BY <1>1, <3>3
    <3> HIDE DEF mw
    <3> QED
      BY <1>0, <1>3, <3>1, <3>2, <3>3, AgentsWork DEF mw
  <2>2. \/ managed'[c].job = managed[c].job
        \/ managed[c].job = "running"
        \/ managed'[c].job = "none"
    BY <1>0, <1>3, <2>1, AgentsManaged DEF Managed
  <2> QED
    BY <2>1, <2>2 DEF RunsJob, Approving
<1> QED
  BY <1>2, <1>3

\* A pass that deletes the ManifestWork of a job that is running has found it
\* failed, or keeps the place of its cluster.
LEMMA SettleJobHeld ==
    ASSUME KeepsBound, IInv, PassInv, BatchInv, RolloutInv, BoundInv, JobInv, Settle,
           [Next]_vars, NEW c \in Cluster, RunsJob(c), ~GivenUp(c), ~Approving(c)'
    PROVE  /\ cr # NoStatus /\ Held(cr, c)
           /\ base = cr => Held(obj', c) \/ obj'[Front(base)][c].ops = "Failed"
<1> DEFINE F == RolledField(obj)
<1>1. /\ cr' = cr /\ base' = base /\ pc = "settle" /\ pc' = "write" /\ ~Apply
      /\ \A field \in Field : obj'[field] = obj[field]
      /\ obj'.conds.canaryComplete =
            CompleteAfter(obj.conds.canaryComplete, obj.canary,
                          obj.conds.inProgress = "true" /\ Listed(obj.canary) # {})
  BY SettleDoes DEF Settle, Apply, KeepsBound
<1>2. /\ F = Front(base) /\ F \in Field
      /\ obj[F] \in ClusterList /\ base[F] \in ClusterList
      /\ Phased(obj[F])
      /\ Listed(obj.canary) = InitialCanary
  BY <1>1, FrontIsRead
     DEF IInv, TypeOK, Status, Field, BatchInv, OrderlyStatus, Orderly,
         RolloutInv, OneListMoves, Selected
<1>3. obj.conds.canaryComplete = base.conds.canaryComplete
  BY <1>1 DEF RolloutInv, OneListMoves
<1> HIDE DEF F
<1>4. WantOperators /\ work[c]["operators"].seen # "completed"
  BY DEF JobInv, JobSeen, RunsJob
<1>5. cr # NoStatus
  <2>1. CASE Approving(c)
    <3>1. <<c, "operators">> \in Deletions(obj, obj'.conds)
      <4>1. work'[c]["operators"] = IF <<c, "operators">> \in Deletions(obj, obj'.conds)
                                    THEN NoWork ELSE work[c]["operators"]
        BY SettleDoes DEF KeepsBound, Kind
      <4> QED
        BY <2>1, <4>1 DEF Approving
    <3>2. PICK field \in Field : obj[field][c].ops \in Outcome
      BY <3>1 DEF Deletions, PartsIn, Field, Outcome
    <3>3. base[field][c].ops # "NotStarted"
      BY <1>1, <3>2 DEF BoundInv, OneMove
    <3>4. base # NoStatus
      BY <3>3 DEF NoStatus, NoClusters, SlotAt, Field
    <3> QED
      BY <3>4 DEF BoundInv, CopyOlder
  <2>2. CASE ~Approving(c)
    BY <2>2 DEF JobInv, JobHeld
  <2> QED
    BY <2>1, <2>2
<1>6. Held(cr, c)
  BY <1>5 DEF BoundInv, AllHeld, Underway, JobInv, JobHeld
<1>7. ASSUME base = cr, obj[F][c].ops # "Failed"
      PROVE  Held(obj', c)
  <2>1. base[F][c].ops # "Complete"
    BY <1>2, <1>6, <1>7 DEF Held, Counts, OperatorsEnded
  <2>2. obj[F][c].ops # "Complete"
    BY <1>1, <1>2, <1>4, <2>1 DEF JobInv, JobFound
  <2>3. Counts(obj[F], c)
    BY <1>4, <1>7, <2>2 DEF Counts, OperatorsEnded
  <2>4. c \in Batch(obj[F])
    <3>1. c \in Batch(base[F])
      BY <1>2, <1>6, <1>7 DEF Held
    <3>2. SamePlaces(base[F], obj[F])
      BY <1>1, <1>2, <1>5, <1>7 DEF BoundInv, CopyOlder, InPass, Places
    <3>3. \A d \in Cluster : /\ Onward(base[F][d].up, obj[F][d].up)
                             /\ Onward(base[F][d].ops, obj[F][d].ops)
      BY <1>1, <1>2, CopyGoesOn DEF InPass
    <3> QED
      BY <1>2, <3>1, <3>2, <3>3, BatchGoesOn
  <2>5. Front(obj') = F
    <3>1. CASE F = "main"
      <4>1. InitialCanary = {} \/ obj.conds.canaryComplete = "true"
        BY <1>2, <1>3, <3>1 DEF Front, Gated
      <4> QED
        BY <1>1, <3>1, <4>1 DEF Front, Gated, CompleteAfter
    <3>2. CASE F = "canary"
      <4>1. InitialCanary # {} /\ obj.conds.canaryComplete # "true"
        BY <1>2, <1>3, <3>2 DEF Front, Gated
      <4>2. c \in Listed(obj.canary)
        BY <2>4, <3>2 DEF Batch
      <4>3. ~CompleteAll(obj.canary)
        BY <1>4, <2>2, <3>2, <4>2 DEF CompleteAll
      <4>4. obj.conds.canaryComplete \in Cond
        BY DEF IInv, TypeOK, Status, Conditions
      <4> QED
        BY <1>1, <3>2, <4>1, <4>3, <4>4 DEF Front, Gated, CompleteAfter, Cond
    <3> QED
      BY <1>2, <3>1, <3>2 DEF Field
  <2> QED
    BY <1>1, <1>2, <2>3, <2>4, <2>5 DEF Held
<1> QED
  BY <1>1, <1>2, <1>5, <1>6, <1>7

\* What the status gave up it has given up for good.
LEMMA StaysGivenUp ==
    ASSUME IInv, PassInv, BatchInv, RolloutInv, [Next]_vars, NEW c \in Cluster, GivenUp(c)
    PROVE  GivenUp(c)'
<1>1. CASE cr' = cr
  BY <1>1 DEF GivenUp
<1>2. CASE Stores
  <2>1. PICK field \in Field : base[field][c].ops = "Failed"
    BY <1>2 DEF Stores, GivenUp, Field
  <2>2. obj[field][c].ops = "Failed"
    BY <1>2, <2>1, CopyGoesOn DEF Stores, InPass, Onward, Outcome
  <2> QED
    BY <1>2, <2>1, <2>2 DEF Stores, GivenUp, Field
<1> QED
  BY <1>1, <1>2, StepKinds DEF Fetch, Apply, Observe, Settle, Beside

LEMMA JobHeldNext ==
    ASSUME KeepsBound, IInv, PassInv, BatchInv, RolloutInv, BoundInv, JobInv, JobSeen',
           [Next]_vars
    PROVE  JobHeld'
<1> SUFFICES ASSUME NEW c \in Cluster, RunsJob(c)', ~Approving(c)', ~GivenUp(c)'
             PROVE  /\ cr' # NoStatus /\ Held(cr', c)
                    /\ pc' = "write" /\ base' = cr' =>
                          Held(obj', c) \/ obj'[Front(base')][c].ops = "Failed"
  BY DEF JobHeld, RunsJob, Approving, GivenUp, Held, Front, Gated, Batch, Counts,
         OperatorsEnded, StartsOperators, StartsUpgrade
<1>1. RunsJob(c) /\ (Settle \/ ~Approving(c)) /\ ~GivenUp(c)
  BY JobWasRunning, StaysGivenUp
<1>2. CASE Settle
  <2>1. cr' = cr /\ base' = base
    BY <1>2 DEF Settle
  <2> QED
    BY <1>1, <1>2, <2>1, SettleJobHeld
<1>3. CASE ~Settle
  <2>1. /\ cr # NoStatus /\ Held(cr, c)
        /\ pc = "write" /\ base = cr =>
              Held(obj, c) \/ obj[Front(base)][c].ops = "Failed"
    BY <1>1, <1>3 DEF JobInv, JobHeld
  <2>2. CASE Stores
    <3>1. cr' = obj /\ pc = "write" /\ base = cr /\ pc' = "idle" /\ obj # NoStatus
      BY <2>2 DEF Stores, BoundInv, CopyOlder, NoStatus, NoConditions
    <3>2. obj[Front(base)][c].ops # "Failed"
      BY <3>1 DEF GivenUp, Front
    <3> QED
      BY <2>1, <3>1, <3>2
  <2>3. CASE \/ \E w \in wake : Fetch(w)
             \/ Apply \/ Observe
    BY <2>1, <2>3 DEF Fetch, Apply, Observe
  <2>4. CASE Beside
    BY <2>1, <2>4 DEF Beside
  <2> QED
    BY <1>3, <2>2, <2>3, <2>4, StepKinds
<1> QED
  BY <1>2, <1>3

\* What the invariant says of the clusters that are really upgrading.
LEMMA BusyFits ==
    ASSUME KeepsBound, IInv, BatchInv, RolloutInv, BoundInv, JobInv
    PROVE  OnlyGivenUpExceed
<1> DEFINE busy == {c \in Cluster : UpgradesVersion(c) \/ (RunsJob(c) /\ ~GivenUp(c))}
<1>1. ASSUME NEW c \in busy
      PROVE  /\ c \in Cluster
             /\ Underway(c) \/ (cr # NoStatus /\ Held(cr, c))
  BY DEF UpgradesVersion, Underway, Upgrading, JobInv, JobHeld
<1> HIDE DEF busy
<1>2. ASSUME NEW list \in ClusterList, InOrder(list),
             \A c \in busy : c \in Batch(list) /\ Counts(list, c)
      PROVE  Cardinality(busy) <= MaxConcurrency
  <2> DEFINE counted == {c \in Batch(list) : Counts(list, c)}
  <2>1. busy \subseteq counted
    BY <1>2
  <2>2. IsFiniteSet(counted) /\ Cardinality(counted) \in Nat
    BY CountIsNat DEF Batch, Listed
  <2>3. Cardinality(busy) \in Nat /\ Cardinality(busy) <= Cardinality(counted)
    BY <2>1, <2>2, FS_Subset, FS_CardinalityType
  <2>4. Cardinality(counted) <= MaxConcurrency
    BY <1>2, BatchFits
  <2> HIDE DEF counted
  <2> QED
    BY <2>2, <2>3, <2>4, ConstantsAssumption
<1>3. CASE cr # NoStatus
  <2>1. cr[Front(cr)] \in ClusterList /\ InOrder(cr[Front(cr)])
    BY DEF Front, IInv, TypeOK, Status, BatchInv, OrderlyStatus, Orderly
  <2>2. \A c \in busy : Held(cr, c)
    BY <1>1, <1>3 DEF BoundInv, AllHeld
  <2>3. Cardinality(busy) <= MaxConcurrency
    BY <1>2, <2>1, <2>2 DEF Held
  <2> QED
    BY <2>3 DEF busy, OnlyGivenUpExceed
<1>4. CASE cr = NoStatus /\ FirstFits
  <2>1. busy \subseteq Chosen(First)
    BY <1>1, <1>4 DEF BoundInv, AllHeld, HeldFirst
  <2>2. IsFiniteSet(Chosen(First)) /\ Cardinality(Chosen(First)) \in Nat
    BY CountIsNat, ConstantsAssumption DEF Chosen
  <2>3. Cardinality(busy) \in Nat /\ Cardinality(busy) <= Cardinality(Chosen(First))
    BY <2>1, <2>2, FS_Subset, FS_CardinalityType
  <2>4. Cardinality(busy) <= MaxConcurrency
    BY <1>4, <2>2, <2>3, ConstantsAssumption DEF FirstFits
  <2> QED
    BY <2>4 DEF busy, OnlyGivenUpExceed
<1>5. CASE cr = NoStatus /\ ~FirstFits
  <2> DEFINE list == obj[First]
  <2>1. list \in ClusterList /\ InOrder(list) /\ Phased(list) /\ Truthful(list) /\ First \in Field
    BY DEF First, Field, IInv, TypeOK, Status, BatchInv, OrderlyStatus, Orderly, TruthfulStatus
  <2>2. ASSUME NEW c \in busy
        PROVE  c \in Batch(list) /\ Counts(list, c)
    <3>1. InPass /\ c \in Batch(list) /\ c \in Cluster
      BY <1>1, <1>5 DEF BoundInv, AllHeld, HeldFirst
    <3>2. base[First][c].ops = "NotStarted"
      BY <1>5, <2>1, <3>1 DEF BoundInv, CopyOlder, NoStatus, NoClusters, SlotAt, Field
    <3>3. pc \in {"apply", "observe", "settle", "write"}
      BY <3>1 DEF InPass, IInv, TypeOK
    <3>4. list[c].ops \notin Outcome
      BY <2>1, <3>1, <3>2, <3>3 DEF BoundInv, OneMove, SameStates, Outcome
    <3>5. Underway(c) /\ WorkAsked
      BY <1>1, <1>5 DEF BoundInv
    <3> QED
      BY <2>1, <3>1, <3>4, <3>5, UnderwayCounts
  <2> HIDE DEF list
  <2>3. Cardinality(busy) <= MaxConcurrency
    BY <1>2, <2>1, <2>2
  <2> QED
    BY <2>3 DEF busy, OnlyGivenUpExceed
<1> QED
  BY <1>3, <1>4, <1>5

\* spec.upgradeStrategy.maxConcurrency bounds the clusters that are really
\* upgrading, but for the jobs of clusters whose operators the status gave up:
\* a cluster whose ManifestWork was made and whose status was lost, one whose
\* version goes on after its timeout, and one whose job goes on after a timeout
\* that no stored status tells of, keep their place.  KeepsBound names what the
\* code needs for it.  Three things would take their place from them.  A job
\* whose Delete is refused is forgotten, and so is one of a cluster that is not
\* upgraded when its agent lets it time out before Complete is there.  And when
\* the first list does not fit the bound and its first status is lost, the
\* next pass draws another order.
THEOREM BoundIsKept ==
    ASSUME KeepsBound
    PROVE  Spec => []OnlyGivenUpExceed
<1>1. Init => BoundInv
  BY DEF Init, BoundInv, WorkAsked, CopyBehind, OneMove, CopyOlder, AllAnnounced, AllHeld,
         Older, Places, Later, Onward, Outcome, InPass, Announced, Field,
         Underway, Upgrading, Approving, NoStatus, NoClusters, NoConditions, SlotAt,
         NoWork, Kind
<1>0. Init => JobInv
  BY DEF Init, JobInv, JobSeen, JobFound, JobHeld, RunsJob, NoWork, Kind
<1>2. IInv /\ PassInv /\ BatchInv /\ RolloutInv /\ BoundInv /\ [Next]_vars => BoundInv'
  <2> SUFFICES ASSUME IInv, PassInv, BatchInv, RolloutInv, BoundInv, [Next]_vars
               PROVE  BoundInv'
    OBVIOUS
  <2>1. BatchInv'
    BY NextKeepsBatchInv
  <2>2. WorkAsked' /\ CopyBehind' /\ OneMove' /\ CopyOlder' /\ AllAnnounced'
    BY WorkAskedNext, CopyBehindNext, OneMoveNext, CopyOlderNext, AnnouncedNext
       DEF KeepsBound, BoundInv
  <2>3. AllHeld'
    BY <2>1, HeldNext
  <2> QED
    BY <2>2, <2>3 DEF BoundInv
<1>3. IInv /\ PassInv /\ BatchInv /\ RolloutInv /\ BoundInv /\ JobInv
          /\ [Next]_vars => JobInv'
  <2> SUFFICES ASSUME IInv, PassInv, BatchInv, RolloutInv, BoundInv, JobInv, [Next]_vars
               PROVE  JobInv'
    OBVIOUS
  <2>1. JobSeen' /\ JobFound'
    BY JobSeenNext, JobFoundNext DEF BoundInv, JobInv
  <2>2. JobHeld'
    BY <2>1, JobHeldNext
  <2> QED
    BY <2>1, <2>2 DEF JobInv
<1>5. IInv /\ BatchInv /\ RolloutInv /\ BoundInv /\ JobInv => OnlyGivenUpExceed
  BY BusyFits
<1>4. Spec => [](IInv /\ PassInv /\ BatchInv /\ RolloutInv)
  BY RolloutInvariance DEF KeepsBound
<1> QED
  BY <1>0, <1>1, <1>2, <1>3, <1>4, <1>5, PTL DEF Spec

=============================================================================
