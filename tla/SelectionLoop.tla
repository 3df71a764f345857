--------------------------- MODULE SelectionLoop ---------------------------
(***************************************************************************)
(* The removal loop of getClustersList, one iteration per step, on the     *)
(* slice header and the backing array the Go program has.  The `range'     *)
(* clause evaluates the slice once: it iterates over the old length and    *)
(* reads the backing array, which the removals in the body shift.          *)
(*                                                                         *)
(* ClusterStatusList states the outcome of the loop in closed form; the    *)
(* invariant LoopMatchesClosedForm compares the two.                       *)
(***************************************************************************)
EXTENDS ClusterStatusList, Sequences

VARIABLES
    input,      \* the list before the loop
    chosen,     \* the clusters the selection matches
    array,      \* the backing array of existingClustersList
    length,     \* the length existingClustersList has now
    id,         \* the index of the iteration, counted from 1
    status      \* "looping", "returned" or "panicked"

vars == <<input, chosen, array, length, id, status>>

\* The lists a ManagedClustersUpgrade can hold: positions without a gap.
Lists ==
    {list \in [Cluster -> [pos : 0 .. Cardinality(Cluster),
                           up : {"NotStarted", "Initialized"},
                           ops : {"NotStarted"}]] :
        LET listed == Listed(list)
        IN  /\ {list[c].pos : c \in listed} = 1 .. Cardinality(listed)
            /\ \A c \in Cluster \ listed : list[c] = SlotAt(0)}

InOrder(list) ==
    [i \in 1 .. Cardinality(Listed(list)) |->
        CHOOSE c \in Listed(list) : list[c].pos = i]

Init ==
    /\ input \in Lists
    /\ chosen \in SUBSET Cluster
    /\ array = InOrder(input)
    /\ length = Len(array)
    /\ id = 1
    /\ status = "looping"

\* deletedClusters holds the listed clusters that are no longer selected.
Deselected(c) == c \notin chosen

Skip ==
    /\ status = "looping"
    /\ id <= Len(array)
    /\ Deselected(array[id]) => Running(input[array[id]])
    /\ id' = id + 1
    /\ UNCHANGED <<input, chosen, array, length, status>>

BugRemoveRunning ==
    /\ status = "looping"
    /\ id <= Len(array)
    /\ Deselected(array[id])
    /\ id <= length
    /\ array' = [i \in 1 .. Len(array) |->
                    IF i \in id .. (length - 1) THEN array[i + 1] ELSE array[i]]
    /\ length' = length - 1
    /\ id' = id + 1
    /\ UNCHANGED <<input, chosen, status>>

\* append(list[:id], list[id+1:]...): list[id+1:] needs id+1 <= len(list).
Remove ==
    /\ status = "looping"
    /\ id <= Len(array)
    /\ Deselected(array[id])
    /\ ~Running(input[array[id]])
    /\ id <= length
    /\ array' = [i \in 1 .. Len(array) |->
                    IF i \in id .. (length - 1) THEN array[i + 1] ELSE array[i]]
    /\ length' = length - 1
    /\ id' = id + 1
    /\ UNCHANGED <<input, chosen, status>>

Panic ==
    /\ status = "looping"
    /\ id <= Len(array)
    /\ Deselected(array[id])
    /\ ~Running(input[array[id]])
    /\ id > length
    /\ status' = "panicked"
    /\ UNCHANGED <<input, chosen, array, length, id>>

Return ==
    /\ status = "looping"
    /\ id > Len(array)
    /\ status' = "returned"
    /\ UNCHANGED <<input, chosen, array, length, id>>

Next == Skip \/ Remove \/ Panic \/ Return

Spec == Init /\ [][Next]_vars

-----------------------------------------------------------------------------

\* What the loop leaves, in order, is what the closed form used by the model
\* of the controller says: the same clusters stay and the same inputs panic.
LoopMatchesClosedForm ==
    /\ status = "returned" =>
          /\ ~RemovalPanics(input, chosen)
          /\ SubSeq(array, 1, length) = InOrder(Pruned(input, chosen))
    /\ status = "panicked" => RemovalPanics(input, chosen)

\* No selected cluster and no cluster whose upgrade is running leaves the
\* list (managedclustersupgrade_controller.go:536, "Ignore removing the if
\* the upgrade is running"), and none is listed twice, at any iteration.
NothingElseIsRemoved ==
    status # "panicked" =>
        \A c \in Listed(input) :
            (~Deselected(c) \/ Running(input[c])) =>
                Cardinality({i \in 1 .. length : array[i] = c}) = 1

\* status.clusters is the "List of the selected managedClusters"
\* (managedclustersupgrade_types.go:151): the loop returns, and a cluster
\* that is then on the list and no longer selected has a running upgrade.
OnlySelectedRemain ==
    status # "looping" =>
        /\ status = "returned"
        /\ \A i \in 1 .. length :
              Deselected(array[i]) => Running(input[array[i]])

=============================================================================
