------------------------- MODULE UpgradeBatchProofs -------------------------
(***************************************************************************)
(* Theorems about spec.upgradeStrategy.maxConcurrency as the status tells  *)
(* it, for any selection changes, stale reads, lost writes and restarts.   *)
(*                                                                         *)
(* The loop of processAppliedCondition counts the batch anew in every      *)
(* pass.  What bounds the clusters that are upgraded at a time is that a   *)
(* cluster once reached by the loop is reached ever after: the clusters    *)
(* before it on the list count no more than they did.                      *)
(***************************************************************************)
EXTENDS UpgradeHistoryProofs

-----------------------------------------------------------------------------
(* The invariant                                                           *)

\* The rollout of a cluster has begun.
Begun(slot) == slot.up # "NotStarted" \/ slot.ops # "NotStarted"

\* No two clusters have the same place on a list.
InOrder(list) ==
    \A c, d \in Listed(list) : list[c].pos = list[d].pos => c = d

\* What is not listed has not begun, only what can be upgraded is, and the
\* operators come after the upgrade.
Phased(list) ==
    \A c \in Cluster :
        /\ list[c].pos = 0 => ~Begun(list[c])
        /\ list[c].up # "NotStarted" => c \in Upgradable
        /\ list[c].ops # "NotStarted" =>
              /\ WantOperators
              /\ \/ list[c].up = "Complete"
                 \/ list[c].up = "NotStarted" /\ c \notin Upgradable

\* What has begun is still reached by the loop.
BegunInBatch(list) == \A c \in Cluster : Begun(list[c]) => c \in Batch(list)

Orderly(list) == InOrder(list) /\ Phased(list) /\ BegunInBatch(list)

OrderlyStatus(status) == Orderly(status.main) /\ Orderly(status.canary)

BatchInv ==
    /\ OrderlyStatus(cr)
    /\ OrderlyStatus(cache)
    /\ OrderlyStatus(obj)
    /\ OrderlyStatus(base)

-----------------------------------------------------------------------------
(* Counting along a list                                                   *)

\* The clusters before c that raise batchCount.
Ahead(list, c) == {d \in Before(list, c) : Counts(list, d)}

\* The count grows from a cluster that raises it to any later one.
LEMMA AheadGrows ==
    ASSUME NEW list \in ClusterList, NEW c \in Listed(list), NEW d \in Listed(list),
           list[c].pos < list[d].pos, Counts(list, c)
    PROVE  Cardinality(Ahead(list, c)) < Cardinality(Ahead(list, d))
<1>1. ASSUME NEW e \in Ahead(list, c)
      PROVE  e \in Ahead(list, d)
  <2>1. e \in Listed(list) /\ list[e].pos < list[c].pos
    BY DEF Ahead, Before
  <2>2. list[e].pos \in Nat /\ list[c].pos \in Nat /\ list[d].pos \in Nat
    BY <2>1 DEF Listed, ClusterList, Slot
  <2>3. list[e].pos < list[d].pos
    BY <2>1, <2>2
  <2> QED
    BY <2>1, <2>3 DEF Ahead, Before
<1>2. c \in Ahead(list, d)
  BY DEF Ahead, Before
<1>3. c \notin Ahead(list, c)
  <2>1. list[c].pos \in Nat
    BY DEF Listed, ClusterList, Slot
  <2> QED
    BY <2>1 DEF Ahead, Before
<1>4. Ahead(list, d) \in SUBSET Cluster /\ Ahead(list, c) \in SUBSET Cluster
  BY DEF Ahead, Before, Listed
<1>5. Ahead(list, c) \in SUBSET Ahead(list, d) /\ Ahead(list, c) # Ahead(list, d)
  BY <1>1, <1>2, <1>3
<1> QED
  BY <1>4, <1>5, CountIsNat, FS_Subset

\* The clusters of a batch that count are at most MaxConcurrency: their counts
\* are different and below it.
LEMMA BatchFits ==
    ASSUME NEW list \in ClusterList, InOrder(list)
    PROVE  Cardinality({c \in Batch(list) : Counts(list, c)}) <= MaxConcurrency
<1> DEFINE S == {c \in Batch(list) : Counts(list, c)}
           place == [c \in S |-> 1 + Cardinality(Ahead(list, c))]
<1>1. ASSUME NEW c \in S
      PROVE  /\ c \in Listed(list) /\ Counts(list, c)
             /\ Cardinality(Ahead(list, c)) \in Nat
             /\ Cardinality(Ahead(list, c)) < MaxConcurrency
  <2>1. Ahead(list, c) \in SUBSET Cluster
    BY DEF Ahead, Before, Listed
  <2> QED
    BY <2>1, CountIsNat DEF Batch, Ahead
<1>2. place \in [S -> 1 .. MaxConcurrency]
  BY <1>1, ConstantsAssumption
<1>3. ASSUME NEW c \in S, NEW d \in S, place[c] = place[d]
      PROVE  c = d
  <2>1. Cardinality(Ahead(list, c)) = Cardinality(Ahead(list, d))
    BY <1>1, <1>3
  <2>2. list[c].pos \in Nat /\ list[d].pos \in Nat
    BY <1>1 DEF Listed, ClusterList, Slot
  <2>3. CASE list[c].pos < list[d].pos
    BY <1>1, <2>1, <2>3, AheadGrows
  <2>4. CASE list[d].pos < list[c].pos
    BY <1>1, <2>1, <2>4, AheadGrows
  <2>5. CASE list[c].pos = list[d].pos
    BY <1>1, <2>5 DEF InOrder
  <2> QED
    BY <2>2, <2>3, <2>4, <2>5
<1> HIDE DEF S
<1>4. place \in Injection(S, 1 .. MaxConcurrency)
  BY <1>2, <1>3 DEF Injection, IsInjective
<1>5. IsFiniteSet(1 .. MaxConcurrency) /\ Cardinality(1 .. MaxConcurrency) = MaxConcurrency
  BY ConstantsAssumption, FS_Interval
<1> HIDE DEF place
<1>6. Cardinality(S) <= Cardinality(1 .. MaxConcurrency)
  BY <1>4, <1>5, FS_Injection
<1> QED
  BY <1>5, <1>6 DEF S

\* Two lists of the same clusters in the same order.
SamePlaces(from, to) ==
    /\ Listed(to) = Listed(from)
    /\ \A c \in Listed(from) : Before(to, c) = Before(from, c)

LEMMA PlacesStay ==
    ASSUME NEW from, NEW to, \A c \in Cluster : to[c].pos = from[c].pos
    PROVE  SamePlaces(from, to)
  BY DEF SamePlaces, Listed, Before

\* When no cluster starts to count, what the loop reached it reaches still.
LEMMA BatchGrows ==
    ASSUME NEW from \in ClusterList, NEW to \in ClusterList,
           SamePlaces(from, to),
           \A c \in Cluster : Counts(to, c) => Counts(from, c)
    PROVE  Batch(from) \subseteq Batch(to)
<1> SUFFICES ASSUME NEW c \in Batch(from)
             PROVE  c \in Batch(to)
  OBVIOUS
<1>1. c \in Listed(from) /\ c \in Listed(to) /\ c \in Cluster
  BY DEF Batch, Listed, SamePlaces
<1>2. Ahead(to, c) \subseteq Ahead(from, c)
  BY <1>1 DEF Ahead, Before, Listed, SamePlaces
<1>3. Ahead(from, c) \in SUBSET Cluster
  BY DEF Ahead, Before, Listed
<1>4. /\ Cardinality(Ahead(to, c)) <= Cardinality(Ahead(from, c))
      /\ Cardinality(Ahead(to, c)) \in Nat
      /\ Cardinality(Ahead(from, c)) \in Nat
  BY <1>2, <1>3, CountIsNat, FS_Subset
<1>5. Cardinality(Ahead(from, c)) < MaxConcurrency
  BY DEF Batch, Ahead
<1>6. Cardinality(Ahead(to, c)) < MaxConcurrency
  BY <1>4, <1>5, ConstantsAssumption
<1> QED
  BY <1>1, <1>6 DEF Batch, Ahead

\* A cluster that goes on does not start to count.
LEMMA CountsNoMore ==
    ASSUME NEW from, NEW to, Phased(to), NEW c \in Cluster,
           Onward(from[c].up, to[c].up), Onward(from[c].ops, to[c].ops),
           Counts(to, c)
    PROVE  Counts(from, c)
<1>1. from[c].ops \notin {"Complete", "Failed"}
  BY DEF Onward, Outcome, Counts, OperatorsEnded
<1>2. ASSUME StartsOperators(from, c), ~WantOperators
      PROVE  FALSE
  <2>1. to[c].ops = "NotStarted"
    BY <1>2 DEF Phased
  <2>2. CASE from[c].up = "Complete"
    <3>1. to[c].up = "Complete"
      BY <2>2 DEF Onward, Outcome
    <3> QED
      BY <1>2, <2>1, <3>1 DEF Counts, StartsOperators, StartsUpgrade
  <2>3. CASE from[c].up = "NotStarted"
    <3>1. c \notin Upgradable
      BY <1>1, <1>2, <2>3 DEF StartsOperators, StartsUpgrade, OperatorsEnded
    <3>2. to[c].up = "NotStarted"
      BY <3>1 DEF Phased
    <3> QED
      BY <1>2, <2>1, <3>1, <3>2 DEF Counts, StartsOperators, StartsUpgrade
  <2> QED
    BY <1>2, <2>2, <2>3 DEF StartsOperators
<1> QED
  BY <1>1, <1>2 DEF Counts, OperatorsEnded

\* What the loop reached it reaches on every list of the same clusters that
\* goes on from it.
LEMMA BatchGoesOn ==
    ASSUME NEW from \in ClusterList, NEW to \in ClusterList,
           SamePlaces(from, to), Phased(to),
           \A c \in Cluster : Onward(from[c].up, to[c].up) /\ Onward(from[c].ops, to[c].ops)
    PROVE  Batch(from) \subseteq Batch(to)
<1>1. \A c \in Cluster : Counts(to, c) => Counts(from, c)
  BY CountsNoMore
<1> QED
  BY <1>1, BatchGrows

\* When they are not more than MaxConcurrency the loop reaches them all.
LEMMA SmallBatch ==
    ASSUME NEW list \in ClusterList, Cardinality(Listed(list)) <= MaxConcurrency
    PROVE  Listed(list) \subseteq Batch(list)
<1> SUFFICES ASSUME NEW c \in Listed(list)
             PROVE  c \in Batch(list)
  OBVIOUS
<1>1. c \notin Ahead(list, c)
  <2>1. list[c].pos \in Nat
    BY DEF Listed, ClusterList, Slot
  <2> QED
    BY <2>1 DEF Ahead, Before
<1>2. Ahead(list, c) \in SUBSET Listed(list) /\ Ahead(list, c) # Listed(list)
  BY <1>1 DEF Ahead, Before
<1>3. Listed(list) \in SUBSET Cluster /\ Ahead(list, c) \in SUBSET Cluster
  BY <1>2 DEF Listed
<1>4. /\ Cardinality(Ahead(list, c)) \in Nat
      /\ Cardinality(Listed(list)) \in Nat
      /\ Cardinality(Ahead(list, c)) < Cardinality(Listed(list))
  BY <1>2, <1>3, CountIsNat, FS_Subset
<1>5. Cardinality(Ahead(list, c)) < MaxConcurrency
  BY <1>4, ConstantsAssumption
<1> QED
  BY <1>5 DEF Batch, Ahead

\* A step that only changes clusters that count and are reached.
LEMMA StepOrderly ==
    ASSUME NEW from \in ClusterList, NEW to \in ClusterList,
           Orderly(from), Phased(to),
           \A c \in Cluster : to[c].pos = from[c].pos,
           \A c \in Cluster : to[c] = from[c] \/ (c \in Batch(from) /\ Counts(from, c))
    PROVE  Orderly(to)
<1>1. \A c \in Cluster : Counts(to, c) => Counts(from, c)
  BY DEF Counts, StartsOperators, StartsUpgrade
<1>2. Batch(from) \subseteq Batch(to)
  BY <1>1, PlacesStay, BatchGrows
<1>3. BegunInBatch(to)
  BY <1>2 DEF Orderly, BegunInBatch
<1>4. InOrder(to)
  BY DEF Orderly, InOrder, Listed
<1> QED
  BY <1>3, <1>4 DEF Orderly

-----------------------------------------------------------------------------
(* A change of the selection                                               *)

\* The place of a cluster among those that are kept grows along the list.
LEMMA PlaceGrows ==
    ASSUME NEW list \in ClusterList, NEW kept \in SUBSET Listed(list),
           NEW c \in kept, NEW d \in kept, list[c].pos < list[d].pos
    PROVE  Cardinality(kept \cap Before(list, c)) < Cardinality(kept \cap Before(list, d))
<1>1. ASSUME NEW e \in kept \cap Before(list, c)
      PROVE  e \in kept \cap Before(list, d)
  <2>1. list[e].pos \in Nat /\ list[c].pos \in Nat /\ list[d].pos \in Nat
    BY DEF Listed, ClusterList, Slot
  <2> QED
    BY <2>1 DEF Before
<1>2. c \in kept \cap Before(list, d)
  BY DEF Before
<1>3. c \notin kept \cap Before(list, c)
  <2>1. list[c].pos \in Nat
    BY DEF Listed, ClusterList, Slot
  <2> QED
    BY <2>1 DEF Before
<1>4. kept \cap Before(list, c) \in SUBSET Cluster /\ kept \cap Before(list, d) \in SUBSET Cluster
  BY DEF Before, Listed
<1>5. /\ kept \cap Before(list, c) \in SUBSET (kept \cap Before(list, d))
      /\ kept \cap Before(list, c) # kept \cap Before(list, d)
  BY <1>1, <1>2, <1>3
<1> QED
  BY <1>4, <1>5, CountIsNat, FS_Subset

\* Every cluster that is kept has a place, and there are as many as clusters.
LEMMA PlaceFits ==
    ASSUME NEW list \in ClusterList, NEW kept \in SUBSET Listed(list), NEW c \in kept
    PROVE  /\ Cardinality(kept \cap Before(list, c)) \in Nat
           /\ Cardinality(kept) \in Nat
           /\ Cardinality(kept \cap Before(list, c)) < Cardinality(kept)
<1>1. c \notin kept \cap Before(list, c)
  <2>1. list[c].pos \in Nat
    BY DEF Listed, ClusterList, Slot
  <2> QED
    BY <2>1 DEF Before
<1>2. kept \in SUBSET Cluster /\ kept \cap Before(list, c) \in SUBSET Cluster
  BY DEF Listed
<1>3. kept \cap Before(list, c) \in SUBSET kept /\ kept \cap Before(list, c) # kept
  BY <1>1
<1> QED
  BY <1>2, <1>3, CountIsNat, FS_Subset

\* What a change of the selection makes of a list: the clusters that are kept
\* move up in their order, those that are added stand behind them.
Rearranged(list, chosen, result, kept) ==
    /\ Listed(list) \cap chosen \subseteq kept
    /\ \A c \in kept :
          /\ result[c].pos = 1 + Cardinality(kept \cap Before(list, c))
          /\ result[c].up = list[c].up
          /\ result[c].ops = list[c].ops
    /\ \A c \in chosen \ Listed(list) :
          /\ result[c].pos \in Nat
          /\ result[c].pos > Cardinality(kept)
          /\ result[c].up = "NotStarted"
          /\ result[c].ops = "NotStarted"
    /\ \A c, d \in chosen \ Listed(list) : result[c].pos = result[d].pos => c = d
    /\ \A c \in Cluster \ (kept \cup (chosen \ Listed(list))) : result[c] = SlotAt(0)

\* getClustersList does that.
LEMMA SelectionRearranges ==
    ASSUME NEW list \in ClusterList, NEW chosen \in SUBSET Cluster,
           NEW result \in Selections(list, chosen)
    PROVE  \E kept \in SUBSET Listed(list) : Rearranged(list, chosen, result, kept)
<1> DEFINE kept == Listed(list) \ Removed(list, chosen)
           pruned == Pruned(list, chosen)
           added == chosen \ Listed(list)
           n == Cardinality(Listed(pruned))
<1>1. PICK o \in [added -> (n + 1) .. (n + Cardinality(added))] :
          /\ \A c, d \in added : o[c] = o[d] => c = d
          /\ result = [c \in Cluster |-> IF c \in added THEN SlotAt(o[c]) ELSE pruned[c]]
  BY DEF Selections, Appended
<1>2. ASSUME NEW c \in Cluster
      PROVE  /\ c \in kept => /\ pruned[c].pos = 1 + Cardinality(kept \cap Before(list, c))
                              /\ pruned[c].up = list[c].up
                              /\ pruned[c].ops = list[c].ops
             /\ c \notin kept => pruned[c] = SlotAt(0)
  <2>1. Cardinality(kept \cap Before(list, c)) \in Nat
    BY CountIsNat DEF Listed
  <2>2. list[c] \in Slot
    BY DEF ClusterList
  <2> QED
    BY <2>1, <2>2 DEF Pruned, Slot
<1>3. kept \in SUBSET Listed(list) /\ Listed(list) \cap chosen \subseteq kept
  BY DEF Removed, Droppable
<1>4. Listed(pruned) = kept
  <2>1. ASSUME NEW c \in kept
        PROVE  pruned[c].pos > 0
    <3>1. Cardinality(kept \cap Before(list, c)) \in Nat
      BY <1>3, PlaceFits
    <3> QED
      BY <1>2, <3>1 DEF Listed
  <2>2. ASSUME NEW c \in Cluster, c \notin kept
        PROVE  ~(pruned[c].pos > 0)
    <3>1. pruned[c] = SlotAt(0)
      BY <1>2, <2>2
    <3> QED
      BY <3>1 DEF SlotAt
  <2>3. kept \subseteq Cluster
    BY DEF Listed
  <2> HIDE DEF kept, pruned
  <2> QED
    BY <2>1, <2>2, <2>3 DEF Listed
<1>5. n \in Nat /\ Cardinality(added) \in Nat /\ n = Cardinality(kept)
  BY <1>4, CountIsNat DEF Listed
<1>6. ASSUME NEW c \in added
      PROVE  result[c] = SlotAt(o[c]) /\ o[c] \in Nat /\ o[c] > n
  BY <1>1, <1>5
<1>7. ASSUME NEW c \in Cluster, c \notin added
      PROVE  result[c] = pruned[c]
  BY <1>1, <1>7
<1> HIDE DEF pruned, n
<1>8. \A c \in kept :
          /\ result[c].pos = 1 + Cardinality(kept \cap Before(list, c))
          /\ result[c].up = list[c].up
          /\ result[c].ops = list[c].ops
  BY <1>2, <1>3, <1>7 DEF Listed
<1>9. ASSUME NEW c \in added
      PROVE  /\ result[c].pos \in Nat
             /\ result[c].pos > Cardinality(kept)
             /\ result[c].up = "NotStarted"
             /\ result[c].ops = "NotStarted"
  <2>1. result[c] = [pos |-> o[c], up |-> "NotStarted", ops |-> "NotStarted"]
    BY <1>6 DEF SlotAt
  <2>2. o[c] \in Nat /\ o[c] > Cardinality(kept)
    BY <1>5, <1>6
  <2> QED
    BY <2>1, <2>2
<1>10. \A c, d \in added : result[c].pos = result[d].pos => c = d
  BY <1>1, <1>6 DEF SlotAt
<1>11. \A c \in Cluster \ (kept \cup added) : result[c] = SlotAt(0)
  BY <1>2, <1>7
<1> QED
  BY <1>3, <1>8, <1>9, <1>10, <1>11 DEF Rearranged

\* When the clusters listed are those selected, they keep their places.
LEMMA SelectionPlaces ==
    ASSUME NEW list \in ClusterList, NEW chosen \in SUBSET Cluster,
           NEW result \in Selections(list, chosen), Listed(list) = chosen
    PROVE  SamePlaces(list, result)
<1>1. PICK kept \in SUBSET Listed(list) : Rearranged(list, chosen, result, kept)
  BY SelectionRearranges
<1>2. kept = Listed(list)
  BY <1>1 DEF Rearranged
<1>3. ASSUME NEW c \in kept
      PROVE  /\ result[c].pos = 1 + Cardinality(kept \cap Before(list, c))
             /\ Cardinality(kept \cap Before(list, c)) \in Nat
             /\ list[c].pos \in Nat
  BY <1>1, <1>2, PlaceFits DEF Rearranged, Listed, ClusterList, Slot
<1>4. ASSUME NEW c \in Cluster, c \notin kept
      PROVE  ~(result[c].pos > 0)
  <2>1. result[c] = SlotAt(0)
    BY <1>1, <1>2, <1>4 DEF Rearranged
  <2> QED
    BY <2>1 DEF SlotAt
<1>5. Listed(result) = Listed(list)
  <2>1. ASSUME NEW c \in kept
        PROVE  result[c].pos > 0
    <3> DEFINE n == Cardinality(kept \cap Before(list, c))
    <3>1. n \in Nat /\ result[c].pos = 1 + n
      BY <1>3
    <3> HIDE DEF n
    <3> QED
      BY <3>1
  <2>2. kept \subseteq Cluster
    BY DEF Listed
  <2> QED
    BY <1>2, <1>4, <2>1, <2>2 DEF Listed
<1>6. ASSUME NEW c \in kept, NEW d \in kept
      PROVE  result[c].pos < result[d].pos <=> list[c].pos < list[d].pos
  <2> DEFINE m == Cardinality(kept \cap Before(list, c))
             n == Cardinality(kept \cap Before(list, d))
  <2>1. /\ list[c].pos < list[d].pos => m < n
        /\ list[d].pos < list[c].pos => n < m
    BY PlaceGrows
  <2>2. list[c].pos = list[d].pos => m = n
    <3>1. ASSUME list[c].pos = list[d].pos
          PROVE  Before(list, c) = Before(list, d)
      BY <3>1 DEF Before
    <3> QED
      BY <3>1
  <2>3. /\ m \in Nat /\ n \in Nat
        /\ list[c].pos \in Nat /\ list[d].pos \in Nat
        /\ result[c].pos = 1 + m /\ result[d].pos = 1 + n
    BY <1>3
  <2> HIDE DEF m, n
  <2> QED
    BY <2>1, <2>2, <2>3
<1> QED
  BY <1>2, <1>5, <1>6 DEF SamePlaces, Before

\* A change of the selection keeps a list orderly: the clusters that are kept
\* have no more clusters before them that count than they had.
LEMMA SelectionOrderly ==
    ASSUME NEW list \in ClusterList, NEW chosen \in SUBSET Cluster,
           NEW result \in Selections(list, chosen), Orderly(list)
    PROVE  Orderly(result)
<1> DEFINE added == chosen \ Listed(list)
<1>0. PICK kept \in SUBSET Listed(list) : Rearranged(list, chosen, result, kept)
  BY SelectionRearranges
<1>1. /\ \A c \in kept :
            /\ result[c].pos = 1 + Cardinality(kept \cap Before(list, c))
            /\ result[c].up = list[c].up
            /\ result[c].ops = list[c].ops
      /\ \A c \in added :
            /\ result[c].pos \in Nat
            /\ result[c].pos > Cardinality(kept)
            /\ result[c].up = "NotStarted"
            /\ result[c].ops = "NotStarted"
      /\ \A c, d \in added : result[c].pos = result[d].pos => c = d
      /\ \A c \in Cluster \ (kept \cup added) : result[c] = SlotAt(0)
  BY <1>0 DEF Rearranged
<1>2. ASSUME NEW c \in Cluster, c \notin kept
      PROVE  ~Begun(result[c])
  <2>1. CASE c \in added
    BY <1>1, <2>1 DEF Begun
  <2>2. CASE c \notin added
    <3>1. result[c] = SlotAt(0)
      BY <1>1, <1>2, <2>2
    <3> QED
      BY <3>1 DEF Begun, SlotAt
  <2> QED
    BY <2>1, <2>2
<1>3. ASSUME NEW c \in Listed(result), c \notin kept
      PROVE  c \in added
  <2>1. c \in Cluster /\ result[c].pos > 0
    BY DEF Listed
  <2>2. CASE c \notin added
    <3>1. result[c] = SlotAt(0)
      BY <1>1, <1>3, <2>1, <2>2
    <3> QED
      BY <2>1, <3>1 DEF SlotAt
  <2> QED
    BY <2>2
<1>4. ASSUME NEW c \in kept, NEW d \in kept, result[d].pos < result[c].pos
      PROVE  list[d].pos < list[c].pos
  <2>1. /\ Cardinality(kept \cap Before(list, c)) \in Nat
        /\ Cardinality(kept \cap Before(list, d)) \in Nat
    BY PlaceFits
  <2>2. Cardinality(kept \cap Before(list, d)) < Cardinality(kept \cap Before(list, c))
    BY <1>1, <1>4, <2>1
  <2>3. list[c].pos \in Nat /\ list[d].pos \in Nat
    BY DEF Listed, ClusterList, Slot
  <2>4. CASE list[c].pos < list[d].pos
    <3>1. Cardinality(kept \cap Before(list, c)) < Cardinality(kept \cap Before(list, d))
      BY <2>4, PlaceGrows
    <3> QED
      BY <2>1, <2>2, <3>1
  <2>5. CASE list[c].pos = list[d].pos
    <3>1. c = d
      BY <2>5 DEF Orderly, InOrder
    <3> QED
      BY <2>1, <2>2, <3>1
  <2> QED
    BY <2>3, <2>4, <2>5
<1>5. ASSUME NEW c \in kept, NEW d \in kept, result[c].pos = result[d].pos
      PROVE  c = d
  <2>1. /\ Cardinality(kept \cap Before(list, c)) \in Nat
        /\ Cardinality(kept \cap Before(list, d)) \in Nat
    BY PlaceFits
  <2>2. Cardinality(kept \cap Before(list, d)) = Cardinality(kept \cap Before(list, c))
    BY <1>1, <1>5, <2>1
  <2>3. list[c].pos \in Nat /\ list[d].pos \in Nat
    BY DEF Listed, ClusterList, Slot
  <2>4. CASE list[c].pos < list[d].pos
    BY <2>1, <2>2, <2>4, PlaceGrows
  <2>5. CASE list[d].pos < list[c].pos
    BY <2>1, <2>2, <2>5, PlaceGrows
  <2>6. CASE list[c].pos = list[d].pos
    BY <2>6 DEF Orderly, InOrder
  <2> QED
    BY <2>3, <2>4, <2>5, <2>6
<1>6. ASSUME NEW c \in kept, NEW d \in added
      PROVE  result[c].pos < result[d].pos
  <2>1. /\ Cardinality(kept \cap Before(list, c)) \in Nat
        /\ Cardinality(kept) \in Nat
        /\ Cardinality(kept \cap Before(list, c)) < Cardinality(kept)
    BY PlaceFits
  <2>2. result[c].pos = 1 + Cardinality(kept \cap Before(list, c))
    BY <1>1
  <2>3. result[d].pos \in Nat /\ result[d].pos > Cardinality(kept)
    BY <1>1
  <2> QED
    BY <2>1, <2>2, <2>3
<1>7. ASSUME NEW c \in kept
      PROVE  result[c].pos \in Nat /\ result[c].pos > 0
  <2>1. Cardinality(kept \cap Before(list, c)) \in Nat
    BY PlaceFits
  <2>2. result[c].pos = 1 + Cardinality(kept \cap Before(list, c))
    BY <1>1
  <2> QED
    BY <2>1, <2>2
<1>8. InOrder(result)
  <2> SUFFICES ASSUME NEW c \in Listed(result), NEW d \in Listed(result),
                      result[c].pos = result[d].pos
               PROVE  c = d
    BY DEF InOrder
  <2>1. CASE c \in kept /\ d \in kept
    BY <1>5, <2>1
  <2>2. CASE c \in kept /\ d \notin kept
    BY <1>3, <1>6, <1>7, <2>2
  <2>3. CASE c \notin kept /\ d \in kept
    BY <1>3, <1>6, <1>7, <2>3
  <2>4. CASE c \notin kept /\ d \notin kept
    BY <1>1, <1>3, <2>4
  <2> QED
    BY <2>1, <2>2, <2>3, <2>4
<1>9. Phased(result)
  <2> SUFFICES ASSUME NEW c \in Cluster
               PROVE  /\ result[c].pos = 0 => ~Begun(result[c])
                      /\ result[c].up # "NotStarted" => c \in Upgradable
                      /\ result[c].ops # "NotStarted" =>
                            /\ WantOperators
                            /\ \/ result[c].up = "Complete"
                               \/ result[c].up = "NotStarted" /\ c \notin Upgradable
    BY DEF Phased
  <2>1. CASE c \in kept
    <3>1. result[c].up = list[c].up /\ result[c].ops = list[c].ops
      BY <1>1, <2>1
    <3>2. result[c].pos # 0
      BY <1>7, <2>1
    <3> QED
      BY <3>1, <3>2 DEF Orderly, Phased
  <2>2. CASE c \notin kept
    BY <1>2, <2>2 DEF Begun
  <2> QED
    BY <2>1, <2>2
<1>10. BegunInBatch(result)
  <2> SUFFICES ASSUME NEW c \in Cluster, Begun(result[c])
               PROVE  c \in Batch(result)
    BY DEF BegunInBatch
  <2>1. c \in kept
    BY <1>2
  <2>2. c \in Batch(list)
    BY <1>1, <2>1 DEF Orderly, BegunInBatch, Begun
  <2>3. ASSUME NEW d \in Ahead(result, c)
        PROVE  d \in Ahead(list, c)
    <3>1. /\ d \in Listed(result) /\ d \in Cluster
          /\ result[d].pos < result[c].pos
          /\ Counts(result, d)
      BY DEF Ahead, Before, Listed
    <3>2. d \in kept
      <4>1. CASE d \in added
        BY <1>1, <1>6, <1>7, <2>1, <3>1, <4>1
      <4> QED
        BY <1>3, <3>1, <4>1
    <3>3. list[d].pos < list[c].pos
      BY <1>4, <2>1, <3>1, <3>2
    <3>4. Counts(list, d)
      BY <1>1, <3>1, <3>2 DEF Counts, OperatorsEnded, StartsOperators, StartsUpgrade
    <3> QED
      BY <3>2, <3>3, <3>4 DEF Ahead, Before
  <2>4. Ahead(list, c) \in SUBSET Cluster /\ Ahead(result, c) \in SUBSET Ahead(list, c)
    BY <2>3 DEF Ahead, Before, Listed
  <2>5. /\ Cardinality(Ahead(result, c)) \in Nat
        /\ Cardinality(Ahead(list, c)) \in Nat
        /\ Cardinality(Ahead(result, c)) <= Cardinality(Ahead(list, c))
    BY <2>4, CountIsNat, FS_Subset
  <2>6. Cardinality(Ahead(list, c)) < MaxConcurrency
    BY <2>2 DEF Batch, Ahead
  <2>7. Cardinality(Ahead(result, c)) < MaxConcurrency
    BY <2>5, <2>6, ConstantsAssumption
  <2> QED
    BY <1>7, <2>1, <2>7 DEF Batch, Ahead, Listed
<1> QED
  BY <1>8, <1>9, <1>10 DEF Orderly

-----------------------------------------------------------------------------
(* The two transformations of a list within a pass                         *)

\* What a pass that has created ManifestWorks makes of a slot.
LEMMA StartedSlot ==
    ASSUME NEW list \in ClusterList, NEW created \in SUBSET Creations(list),
           NEW c \in Cluster
    PROVE  /\ Started(list, created)[c].pos = list[c].pos
           /\ Started(list, created)[c].up =
                 IF <<c, "upgrade">> \in created THEN "Initialized" ELSE list[c].up
           /\ Started(list, created)[c].ops =
                 IF <<c, "operators">> \in created THEN "Initialized" ELSE list[c].ops
           /\ <<c, "upgrade">> \notin created /\ <<c, "operators">> \notin created =>
                 Started(list, created)[c] = list[c]
<1>1. list[c] \in Slot
  BY DEF ClusterList
<1> QED
  BY <1>1 DEF Started, Slot

\* What a pass that has looked at the ManifestWorks makes of a slot.
LEMMA ObservedSlot ==
    ASSUME NEW list \in ClusterList, NEW c \in Cluster
    PROVE  /\ Observed(list)[c].pos = list[c].pos
           /\ Observed(list)[c].up = ObservedUpgrade(list[c].up, work[c]["upgrade"])
           /\ Observed(list)[c].ops =
                 IF Unobservable(list[c], c) THEN list[c].ops
                 ELSE ObservedOperators(list[c].ops, work[c]["operators"])
           /\ Observed(list)[c].up = list[c].up /\ Observed(list)[c].ops = list[c].ops =>
                 Observed(list)[c] = list[c]
<1> DEFINE up == ObservedUpgrade(list[c].up, work[c]["upgrade"])
           ops == IF Unobservable(list[c], c) THEN list[c].ops
                  ELSE ObservedOperators(list[c].ops, work[c]["operators"])
<1>1. list[c] \in Slot
  BY DEF ClusterList
<1>2. Observed(list)[c] = [list[c] EXCEPT !.up = up, !.ops = ops]
  BY <1>1 DEF Observed, Slot
<1> HIDE DEF up, ops
<1>3. /\ Observed(list)[c].pos = list[c].pos
      /\ Observed(list)[c].up = up
      /\ Observed(list)[c].ops = ops
      /\ up = list[c].up /\ ops = list[c].ops => Observed(list)[c] = list[c]
  BY <1>1, <1>2 DEF Slot
<1> QED
  BY <1>3 DEF up, ops

\* What a pass may create, with the phase of the cluster.
LEMMA CreationPhase ==
    ASSUME NEW list \in ClusterList, Phased(list), NEW c \in Cluster
    PROVE  /\ <<c, "upgrade">> \in Creations(list) =>
                 /\ c \in Batch(list) /\ Counts(list, c) /\ c \in Upgradable
                 /\ list[c].up = "NotStarted" /\ list[c].ops = "NotStarted"
           /\ <<c, "operators">> \in Creations(list) =>
                 /\ c \in Batch(list) /\ Counts(list, c) /\ WantOperators
                 /\ list[c].ops = "NotStarted"
                 /\ \/ list[c].up = "Complete"
                    \/ list[c].up = "NotStarted" /\ c \notin Upgradable
<1>1. ASSUME <<c, "upgrade">> \in Creations(list)
      PROVE  c \in Batch(list) /\ StartsUpgrade(list, c)
  BY <1>1 DEF Creations
<1>2. ASSUME <<c, "operators">> \in Creations(list)
      PROVE  c \in Batch(list) /\ StartsOperators(list, c) /\ WantOperators
  BY <1>2 DEF Creations
<1>3. ASSUME <<c, "upgrade">> \in Creations(list)
      PROVE  /\ Counts(list, c) /\ c \in Upgradable
             /\ list[c].up = "NotStarted" /\ list[c].ops = "NotStarted"
  BY <1>1, <1>3 DEF StartsUpgrade, Counts, StartsOperators, Phased
<1>4. ASSUME <<c, "operators">> \in Creations(list)
      PROVE  /\ Counts(list, c)
             /\ list[c].ops = "NotStarted"
             /\ \/ list[c].up = "Complete"
                \/ list[c].up = "NotStarted" /\ c \notin Upgradable
  BY <1>2, <1>4 DEF StartsUpgrade, Counts, StartsOperators
<1> QED
  BY <1>1, <1>2, <1>3, <1>4

\* The next batch is started in order.
LEMMA StartedOrderly ==
    ASSUME NEW list \in ClusterList, NEW created \in SUBSET Creations(list), Orderly(list)
    PROVE  Orderly(Started(list, created))
<1> DEFINE to == Started(list, created)
<1>1. to \in ClusterList
  BY StartedTyped
<1>2. ASSUME NEW c \in Cluster
      PROVE  /\ to[c].pos = list[c].pos
             /\ to[c] = list[c] \/ (c \in Batch(list) /\ Counts(list, c))
             /\ to[c].pos = 0 => ~Begun(to[c])
             /\ to[c].up # "NotStarted" => c \in Upgradable
             /\ to[c].ops # "NotStarted" =>
                   /\ WantOperators
                   /\ \/ to[c].up = "Complete"
                      \/ to[c].up = "NotStarted" /\ c \notin Upgradable
  <2>1. /\ list[c].pos = 0 => ~Begun(list[c])
        /\ list[c].up # "NotStarted" => c \in Upgradable
        /\ list[c].ops # "NotStarted" =>
              /\ WantOperators
              /\ \/ list[c].up = "Complete"
                 \/ list[c].up = "NotStarted" /\ c \notin Upgradable
    BY DEF Orderly, Phased
  <2>2. c \in Batch(list) => list[c].pos # 0
    BY DEF Batch, Listed
  <2>3. CASE <<c, "upgrade">> \in created
    <3>1. /\ c \in Batch(list) /\ Counts(list, c) /\ c \in Upgradable
          /\ list[c].ops = "NotStarted"
          /\ <<c, "operators">> \notin created
      BY <2>3, CreationPhase DEF Orderly
    <3>2. /\ to[c].pos = list[c].pos
          /\ to[c].up = "Initialized"
          /\ to[c].ops = "NotStarted"
      BY <2>3, <3>1, StartedSlot
    <3> QED
      BY <2>2, <3>1, <3>2
  <2>4. CASE <<c, "upgrade">> \notin created /\ <<c, "operators">> \in created
    <3>1. /\ c \in Batch(list) /\ Counts(list, c) /\ WantOperators
          /\ \/ list[c].up = "Complete"
             \/ list[c].up = "NotStarted" /\ c \notin Upgradable
      BY <2>4, CreationPhase DEF Orderly
    <3>2. /\ to[c].pos = list[c].pos
          /\ to[c].up = list[c].up
          /\ to[c].ops = "Initialized"
      BY <2>4, StartedSlot
    <3> QED
      BY <2>1, <2>2, <3>1, <3>2
  <2>5. CASE <<c, "upgrade">> \notin created /\ <<c, "operators">> \notin created
    <3>1. to[c] = list[c]
      BY <2>5, StartedSlot
    <3> QED
      BY <2>1, <3>1
  <2> QED
    BY <2>3, <2>4, <2>5
<1>3. Phased(to)
  BY <1>2 DEF Phased
<1> HIDE DEF to
<1> QED
  BY <1>1, <1>2, <1>3, StepOrderly DEF to

\* Only what is being upgraded is observed to change.
LEMMA ObservedOrderly ==
    ASSUME TypeOK, NEW list \in ClusterList, Orderly(list)
    PROVE  Orderly(Observed(list))
<1> DEFINE to == Observed(list)
<1>1. to \in ClusterList
  BY ObservedTyped
<1>2. ASSUME NEW c \in Cluster
      PROVE  /\ to[c].pos = list[c].pos
             /\ to[c] = list[c] \/ (c \in Batch(list) /\ Counts(list, c))
             /\ to[c].pos = 0 => ~Begun(to[c])
             /\ to[c].up # "NotStarted" => c \in Upgradable
             /\ to[c].ops # "NotStarted" =>
                   /\ WantOperators
                   /\ \/ to[c].up = "Complete"
                      \/ to[c].up = "NotStarted" /\ c \notin Upgradable
  <2>1. /\ list[c].pos = 0 => ~Begun(list[c])
        /\ list[c].up # "NotStarted" => c \in Upgradable
        /\ list[c].ops # "NotStarted" =>
              /\ WantOperators
              /\ \/ list[c].up = "Complete"
                 \/ list[c].up = "NotStarted" /\ c \notin Upgradable
        /\ Begun(list[c]) => c \in Batch(list)
    BY DEF Orderly, Phased, BegunInBatch
  <2>2. list[c].up \in State /\ list[c].ops \in State
    BY DEF ClusterList, Slot
  <2>3. /\ to[c].pos = list[c].pos
        /\ to[c].up = list[c].up /\ to[c].ops = list[c].ops => to[c] = list[c]
        /\ to[c].up = ObservedUpgrade(list[c].up, work[c]["upgrade"])
        /\ \/ to[c].ops = list[c].ops
           \/ to[c].ops = ObservedOperators(list[c].ops, work[c]["operators"])
    BY ObservedSlot
  <2>4. /\ list[c].up \notin {"Initialized", "Partial"} => to[c].up = list[c].up
        /\ list[c].ops \notin {"Initialized", "Partial"} => to[c].ops = list[c].ops
    BY <2>2, <2>3 DEF ObservedUpgrade, ObservedOperators, State
  <2>5. ASSUME to[c] # list[c]
        PROVE  Begun(list[c]) /\ Counts(list, c)
    <3>1. list[c].up \in {"Initialized", "Partial"} \/ list[c].ops \in {"Initialized", "Partial"}
      BY <2>3, <2>4, <2>5
    <3> QED
      BY <2>1, <3>1 DEF Begun, Counts, OperatorsEnded, StartsOperators, StartsUpgrade
  <2> QED
    BY <2>1, <2>3, <2>4, <2>5 DEF Begun
<1>3. Phased(to)
  BY <1>2 DEF Phased
<1> HIDE DEF to
<1> QED
  BY <1>1, <1>2, <1>3, StepOrderly DEF to

-----------------------------------------------------------------------------
(* BatchInv is preserved                                                   *)

\* Nothing is listed yet.
LEMMA NoStatusOrderly == OrderlyStatus(NoStatus)
  BY DEF OrderlyStatus, Orderly, InOrder, Phased, BegunInBatch, Begun, Listed,
         NoStatus, NoClusters, SlotAt

\* A pass begins with the lists brought up to date.
LEMMA FetchOrderly ==
    ASSUME IInv, BatchInv, NEW w \in wake, Fetch(w)
    PROVE  OrderlyStatus(obj')
<1>1. PICK canary \in Selections(cache.canary, matches["canary"]),
           main \in Selections(cache.main, matches["main"]) :
          obj' = [cache EXCEPT !.canary = canary, !.main = main]
  BY DEF Fetch
<1>2. /\ cache \in Status
      /\ cache.canary \in ClusterList
      /\ cache.main \in ClusterList
      /\ matches["canary"] \in SUBSET Cluster
      /\ matches["main"] \in SUBSET Cluster
  BY DEF IInv, TypeOK, Status, Field
<1>3. Orderly(canary) /\ Orderly(main)
  BY <1>2, SelectionOrderly DEF BatchInv, OrderlyStatus
<1>4. obj'.canary = canary /\ obj'.main = main
  BY <1>1, <1>2 DEF Status
<1> QED
  BY <1>3, <1>4 DEF OrderlyStatus

\* The part of a pass that rewrites the list it rolls.
LEMMA RollOrderly ==
    ASSUME NEW status \in Status, NEW list \in ClusterList,
           OrderlyStatus(status), Orderly(list)
    PROVE  OrderlyStatus(Rolled(status, list))
  BY RolledTyped DEF OrderlyStatus

\* It starts the next batch,
LEMMA ApplyOrderly ==
    ASSUME IInv, BatchInv, Apply
    PROVE  OrderlyStatus(obj')
<1> DEFINE list == Rolling(obj)
<1>1. PICK refused \in SUBSET Creations(list) :
          obj' = [Rolled(obj, Started(list, Created(list, refused))) EXCEPT
                        !.conds.applied =
                            IF AllCreated(list, Created(list, refused))
                            THEN "true" ELSE "false"]
  BY DEF Apply
<1> DEFINE created == Created(list, refused)
           rolled == Rolled(obj, Started(list, created))
<1>2. obj \in Status /\ list \in ClusterList /\ list \in {obj.main, obj.canary}
  BY RolledTyped, NoStatusTyped DEF IInv, TypeOK, Status
<1>3. Started(list, created) \in ClusterList
  BY <1>2, StartedTyped
<1>4. Orderly(Started(list, created))
  <2>1. Orderly(list)
    BY <1>2 DEF BatchInv, OrderlyStatus
  <2>2. created \in SUBSET Creations(list)
    BY DEF Created
  <2> QED
    BY <1>2, <2>1, <2>2, StartedOrderly
<1>5. rolled \in Status /\ OrderlyStatus(rolled)
  BY <1>2, <1>3, <1>4, RolledTyped, RollOrderly DEF BatchInv
<1>6. obj'.main = rolled.main /\ obj'.canary = rolled.canary
  BY <1>1, <1>5 DEF Status, Conditions
<1> QED
  BY <1>5, <1>6 DEF OrderlyStatus

\* and looks at the ManifestWorks.
LEMMA ObserveOrderly ==
    ASSUME IInv, BatchInv, Observe
    PROVE  OrderlyStatus(obj')
<1> DEFINE list == Rolling(obj)
           seen == IF Observes(obj.conds) THEN Observed(list) ELSE list
           rolled == Rolled(obj, seen)
<1>1. obj \in Status /\ list \in ClusterList /\ list \in {obj.main, obj.canary}
  BY RolledTyped, NoStatusTyped DEF IInv, TypeOK, Status
<1>2. seen \in ClusterList
  BY <1>1, ObservedTyped DEF IInv
<1>3. Orderly(list)
  BY <1>1 DEF BatchInv, OrderlyStatus
<1>4. Orderly(seen)
  BY <1>1, <1>3, ObservedOrderly DEF IInv
<1>5. rolled \in Status /\ OrderlyStatus(rolled)
  BY <1>1, <1>2, <1>4, RolledTyped, RollOrderly DEF BatchInv
<1>6. obj'.main = rolled.main /\ obj'.canary = rolled.canary
  BY <1>5 DEF Observe, Status, Conditions
<1> QED
  BY <1>5, <1>6 DEF OrderlyStatus

\* The conditions leave the lists alone.
LEMMA SettleOrderly ==
    ASSUME IInv, BatchInv, Settle
    PROVE  OrderlyStatus(obj')
<1>1. obj'.main = obj.main /\ obj'.canary = obj.canary
  BY DEF IInv, TypeOK, Settle, Status
<1> QED
  BY <1>1 DEF BatchInv, OrderlyStatus

\* The steps of a pass, and those that copy a status over another.
LEMMA CopyOrderly ==
    ASSUME BatchInv,
           cr' \in {cr, obj}, cache' \in {cr, cache},
           base' \in {cache, base, NoStatus},
           obj' \in {obj, NoStatus} \/ OrderlyStatus(obj')
    PROVE  BatchInv'
<1>1. /\ OrderlyStatus(cr') /\ OrderlyStatus(cache')
      /\ OrderlyStatus(obj') /\ OrderlyStatus(base')
  BY NoStatusOrderly DEF BatchInv
<1> QED
  BY <1>1 DEF BatchInv, OrderlyStatus, Orderly, InOrder, Phased, BegunInBatch,
              Begun, Listed, Batch, Before, Counts, OperatorsEnded, StartsOperators,
              StartsUpgrade, Upgradable

\* Every step keeps it.
LEMMA NextKeepsBatchInv == IInv /\ BatchInv /\ [Next]_vars => BatchInv'
<1> SUFFICES ASSUME IInv, BatchInv, [Next]_vars
             PROVE  BatchInv'
  OBVIOUS
<1> USE DEF reconciler
<1>1. ASSUME NEW w \in wake, Fetch(w)
      PROVE  BatchInv'
  BY <1>1, FetchOrderly, CopyOrderly DEF Fetch
<1>2. ASSUME NEW w \in wake, SelectionPanics(w) \/ ListFails(w)
      PROVE  BatchInv'
  BY <1>2, CopyOrderly DEF SelectionPanics, ListFails
<1>3. CASE Apply
  BY <1>3, ApplyOrderly, CopyOrderly DEF Apply
<1>4. CASE Observe
  BY <1>4, ObserveOrderly, CopyOrderly DEF Observe
<1>5. CASE Settle
  BY <1>5, SettleOrderly, CopyOrderly DEF Settle
<1>6. CASE Write \/ WriteFails
  BY <1>6, CopyOrderly DEF Write, WriteFails, EndPass, Rest
<1>7. CASE SyncCache
  BY <1>7, CopyOrderly DEF SyncCache
<1>8. CASE Crash \/ Restart
  BY <1>8, CopyOrderly DEF Crash, Restart, Reboot, Rest
<1>9. CASE Agents
  BY <1>9, AgentsLeave, CopyOrderly DEF reconciler
<1>10. CASE \E c \in Cluster, k \in Kind : Expire(c, k)
  BY <1>10, CopyOrderly DEF Expire
<1>11. CASE \E field \in Editable, chosen \in SUBSET Cluster : Relabel(field, chosen)
  BY <1>11, CopyOrderly DEF Relabel
<1>12. CASE UNCHANGED vars
  BY <1>12, CopyOrderly DEF vars
<1> QED
  BY <1>1, <1>2, <1>3, <1>4, <1>5, <1>6, <1>7, <1>8, <1>9, <1>10, <1>11, <1>12
     DEF Next, Reconciler, Pass

\* The inductive invariant of the bounds: in every copy of the status, however
\* stale, what has begun is still within reach of the loop.
THEOREM BatchInvariance == Spec => [](IInv /\ BatchInv)
<1>1. Init => BatchInv
  BY NoStatusOrderly DEF Init, BatchInv
<1>2. IInv /\ BatchInv /\ [Next]_vars => BatchInv'
  BY NextKeepsBatchInv
<1> QED
  BY <1>1, <1>2, Invariance, PTL DEF Spec

-----------------------------------------------------------------------------
(* The theorem                                                             *)

\* The clusters of an orderly list that are in the middle of their upgrade.
LEMMA OrderlyBounded ==
    ASSUME NEW list \in ClusterList, Orderly(list)
    PROVE  Cardinality({c \in Listed(list) : Running(list[c])}) <= MaxConcurrency
<1> DEFINE running == {c \in Listed(list) : Running(list[c])}
           counted == {c \in Batch(list) : Counts(list, c)}
<1>1. ASSUME NEW c \in running
      PROVE  c \in counted
  <2>1. list[c].up \in {"Initialized", "Partial"} /\ c \in Cluster
    BY DEF Running, Listed
  <2>2. c \in Batch(list)
    BY <2>1 DEF Orderly, BegunInBatch, Begun
  <2>3. list[c].ops = "NotStarted"
    BY <2>1 DEF Orderly, Phased
  <2>4. Counts(list, c)
    BY <2>1, <2>3 DEF Counts, OperatorsEnded, StartsOperators
  <2> QED
    BY <2>2, <2>4
<1>2. counted \in SUBSET Cluster /\ running \in SUBSET counted
  BY <1>1 DEF Batch, Listed
<1>3. Cardinality(counted) <= MaxConcurrency
  BY BatchFits DEF Orderly
<1> HIDE DEF running, counted
<1>4. /\ Cardinality(running) \in Nat /\ Cardinality(counted) \in Nat
      /\ Cardinality(running) <= Cardinality(counted)
  BY <1>2, CountIsNat, FS_Subset
<1>5. Cardinality(running) <= MaxConcurrency
  BY <1>3, <1>4, ConstantsAssumption
<1> QED
  BY <1>5 DEF running

\* The status never has more than MaxConcurrency clusters of a list in the
\* middle of their upgrade, whatever happens to the selection.
THEOREM RunningIsBounded == Spec => []RunningBounded
<1>1. IInv /\ BatchInv => RunningBounded
  BY OrderlyBounded DEF IInv, TypeOK, Status, BatchInv, OrderlyStatus, RunningBounded
<1> QED
  BY <1>1, BatchInvariance, PTL

=============================================================================
