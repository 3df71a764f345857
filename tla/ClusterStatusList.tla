------------------------ MODULE ClusterStatusList ------------------------
(***************************************************************************)
(* The lists `status.clusters' and `status.canaryClusters' of a            *)
(* ManagedClustersUpgrade, and what getClustersList makes of one when the  *)
(* selected clusters change.                                               *)
(*                                                                         *)
(* A list is a function that gives every cluster its slot.  The position   *)
(* of a listed cluster is its index in the Go slice, counted from 1; a     *)
(* cluster that is not listed has position 0.                              *)
(***************************************************************************)
EXTENDS Naturals, FiniteSets

CONSTANT Cluster

ASSUME ClusterIsFinite == IsFiniteSet(Cluster)

State == {"NotStarted", "Initialized", "Partial", "Complete", "Failed"}

\* Name, ClusterUpgradeStatus.State and OperatorsStatus.UpgradeApproveState
Slot == [pos : Nat, up : State, ops : State]

ClusterList == [Cluster -> Slot]

SlotAt(n) == [pos |-> n, up |-> "NotStarted", ops |-> "NotStarted"]

NoClusters == [c \in Cluster |-> SlotAt(0)]

Listed(list) == {c \in Cluster : list[c].pos > 0}

Before(list, c) == {d \in Listed(list) : list[d].pos < list[c].pos}

-----------------------------------------------------------------------------
(* The removal loop of getClustersList.  It deletes from the slice it      *)
(* iterates over: a removal moves the next element to the current index,   *)
(* and the iteration goes on with the one after it.                        *)

Running(slot) == slot.up \in {"Initialized", "Partial"}

BugDropsRunning(list, chosen) == Listed(list) \ chosen

Droppable(list, chosen) == {c \in Listed(list) \ chosen : ~Running(list[c])}

\* The droppable clusters that stand immediately before c.
RunBefore(list, chosen, c) ==
    {d \in Before(list, c) :
        \A e \in Before(list, c) :
            list[e].pos >= list[d].pos => e \in Droppable(list, chosen)}

BugRemovesEvery(list, chosen) == Droppable(list, chosen)

\* Of a run of droppable clusters every other one is removed.
Removed(list, chosen) ==
    {c \in Droppable(list, chosen) :
        Cardinality(RunBefore(list, chosen, c)) % 2 = 0}

\* The iteration still reaches the old last index, and slices beyond the end.
RemovalPanics(list, chosen) ==
    \E c, d \in Droppable(list, chosen) :
        /\ d \in Before(list, c)
        /\ \A e \in Listed(list) : list[e].pos <= list[c].pos

BugListRebuilt(list, chosen) ==
    LET kept == Listed(list) \ Removed(list, chosen)
    IN  [c \in Cluster |->
            SlotAt(IF c \in kept THEN 1 + Cardinality(kept \cap Before(list, c)) ELSE 0)]

Pruned(list, chosen) ==
    LET kept == Listed(list) \ Removed(list, chosen)
    IN  [c \in Cluster |->
            IF c \in kept
            THEN [list[c] EXCEPT !.pos = 1 + Cardinality(kept \cap Before(list, c))]
            ELSE SlotAt(0)]

\* Newly selected clusters are appended in the order of a map iteration.
Appended(list, added) ==
    LET n == Cardinality(Listed(list))
        orders == {o \in [added -> (n + 1) .. (n + Cardinality(added))] :
                      \A c, d \in added : o[c] = o[d] => c = d}
    IN  {[c \in Cluster |-> IF c \in added THEN SlotAt(o[c]) ELSE list[c]] :
            o \in orders}

\* What getClustersList may return when it does not panic.
Selections(list, chosen) ==
    Appended(Pruned(list, chosen), chosen \ Listed(list))

=============================================================================
