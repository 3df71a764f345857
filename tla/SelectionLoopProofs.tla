------------------------ MODULE SelectionLoopProofs ------------------------
(***************************************************************************)
(* The removal loop of getClustersList and its closed form agree, for      *)
(* lists of any length: what ClusterStatusList says of a changed selection *)
(* -- and with it every theorem about the upgrade controller -- is what    *)
(* the loop over the slice does.                                           *)
(*                                                                         *)
(* An iteration looks at index id of the array, where the removals before  *)
(* it have moved a later element of the list: the one with number Reached. *)
(***************************************************************************)
EXTENDS SelectionLoop, FiniteSetTheorems, TLAPS

-----------------------------------------------------------------------------
(* The invariant                                                           *)

Size(list) == Cardinality(Listed(list))

\* The element with number i of a list, counted from 1.
Item(list, i) == InOrder(list)[i]

Kept(list, sel) == Listed(list) \ Removed(list, sel)

\* Where a cluster that is kept stands in the end.
Place(list, sel, c) == 1 + Cardinality(Kept(list, sel) \cap Before(list, c))

\* How many elements are removed so far, and the element an iteration looks at.
Gone == Size(input) - length
Reached == id + Gone

\* What the loop has yet to reach has moved forward by the removals; beyond
\* its end the slice still shows the last element.
AheadMoved ==
    /\ \A j \in id .. length : array[j] = Item(input, j + Gone)
    /\ \A j \in (length + 1) .. Size(input) : array[j] = Item(input, Size(input))

\* What the loop has passed is what is kept, at its place.
BehindKept ==
    /\ \A c \in Kept(input, chosen) :
          input[c].pos < Reached =>
              /\ Place(input, chosen, c) \in 1 .. length
              /\ Place(input, chosen, c) < id
              /\ array[Place(input, chosen, c)] = c
    /\ \A j \in 1 .. length : j < id =>
          /\ input[array[j]].pos < Reached
          /\ array[j] \in Kept(input, chosen)
          /\ Place(input, chosen, array[j]) = j

\* The element after a removed one is never looked at.
InStep ==
    Reached <= Size(input) =>
        /\ Place(input, chosen, Item(input, Reached)) = id
        /\ Reached > 1 => Item(input, Reached - 1) \notin Removed(input, chosen)

\* The droppable clusters other than the last of the list.
Earlier == {c \in Droppable(input, chosen) : input[c].pos < Size(input)}

LastDropped == Item(input, Size(input)) \in Droppable(input, chosen)

\* With an earlier one gone, the loop does not get past a droppable last one.
LastStep ==
    /\ Gone = 0 => \A c \in Droppable(input, chosen) : input[c].pos >= id
    /\ LastDropped /\ (\E c \in Earlier : input[c].pos < Reached) => id <= Size(input)
    /\ Gone # 0 => id = Size(input) + 1 \/ Earlier # {}

LoopTyped ==
    /\ input \in Lists
    /\ chosen \in SUBSET Cluster
    /\ array \in [1 .. Size(input) -> Listed(input)]
    /\ length \in 0 .. Size(input)
    /\ id \in 1 .. (Size(input) + 1)
    /\ status \in {"looping", "returned", "panicked"}

LoopInv ==
    /\ LoopTyped
    /\ AheadMoved
    /\ BehindKept
    /\ InStep
    /\ LastStep
    /\ status = "returned" => id = Size(input) + 1
    /\ status = "panicked" => RemovalPanics(input, chosen)

-----------------------------------------------------------------------------
(* Lemmas about a list                                                     *)

LEMMA Finite == ASSUME NEW S \in SUBSET Cluster
                PROVE  IsFiniteSet(S) /\ Cardinality(S) \in Nat
  BY ClusterIsFinite, FS_Subset, FS_CardinalityType

\* The places of a list are the numbers from 1 to its length, each taken once.
LEMMA Places ==
    ASSUME NEW list \in Lists
    PROVE  /\ Size(list) \in Nat
           /\ \A c \in Listed(list) : list[c].pos \in 1 .. Size(list)
           /\ \A c, d \in Listed(list) : list[c].pos = list[d].pos => c = d
           /\ \A i \in 1 .. Size(list) :
                 Item(list, i) \in Listed(list) /\ list[Item(list, i)].pos = i
           /\ \A c \in Listed(list) : Item(list, list[c].pos) = c
           /\ InOrder(list) \in [1 .. Size(list) -> Listed(list)]
<1> DEFINE n == Size(list)
           pos == [c \in Listed(list) |-> list[c].pos]
<1>1. Listed(list) \in SUBSET Cluster /\ IsFiniteSet(Listed(list)) /\ n \in Nat
  BY Finite DEF Listed, Size
<1>2. {list[c].pos : c \in Listed(list)} = 1 .. n
  BY DEF Lists, Size
<1>3. pos \in Surjection(Listed(list), 1 .. n)
  BY <1>2 DEF Surjection
<1>4. Cardinality(1 .. n) = n
  BY <1>1, FS_Interval
<1>5. pos \in Injection(Listed(list), 1 .. n)
  BY <1>1, <1>3, <1>4, FS_SurjSameCardinalityImpliesInj DEF Size
<1>6. \A c, d \in Listed(list) : list[c].pos = list[d].pos => c = d
  BY <1>5 DEF Injection, IsInjective
<1>7. \A c \in Listed(list) : list[c].pos \in 1 .. n
  BY <1>2
<1>8. ASSUME NEW i \in 1 .. n
      PROVE  Item(list, i) \in Listed(list) /\ list[Item(list, i)].pos = i
  <2>1. \E c \in Listed(list) : list[c].pos = i
    BY <1>2
  <2>2. Item(list, i) = CHOOSE c \in Listed(list) : list[c].pos = i
    BY DEF Item, InOrder, Size
  <2> QED
    BY <2>1, <2>2
<1>9. \A c \in Listed(list) : Item(list, list[c].pos) = c
  BY <1>6, <1>7, <1>8
<1>10. InOrder(list) \in [1 .. n -> Listed(list)]
  BY <1>8 DEF Item, InOrder, Size
<1> QED
  BY <1>1, <1>6, <1>7, <1>8, <1>9, <1>10

\* Before the next element there is one element more.
LEMMA BeforeNext ==
    ASSUME NEW list \in Lists, NEW i \in 1 .. Size(list), i + 1 <= Size(list)
    PROVE  /\ Before(list, Item(list, i + 1)) = Before(list, Item(list, i)) \cup {Item(list, i)}
           /\ Item(list, i) \notin Before(list, Item(list, i))
<1>1. Size(list) \in Nat /\ i + 1 \in 1 .. Size(list)
  BY Places
<1>2. /\ \A c \in Listed(list) : list[c].pos \in 1 .. Size(list)
      /\ \A c \in Listed(list) : Item(list, list[c].pos) = c
      /\ Item(list, i) \in Listed(list) /\ list[Item(list, i)].pos = i
      /\ list[Item(list, i + 1)].pos = i + 1
  BY <1>1, Places
<1>3. ASSUME NEW c \in Listed(list)
      PROVE  list[c].pos < i + 1 <=> list[c].pos < i \/ c = Item(list, i)
  BY <1>1, <1>2
<1> QED
  BY <1>2, <1>3 DEF Before

\* The place of the next element is the next one, unless this one is removed.
LEMMA PlaceNext ==
    ASSUME NEW list \in Lists, NEW sel, NEW i \in 1 .. Size(list), i + 1 <= Size(list)
    PROVE  /\ Place(list, sel, Item(list, i)) \in Nat
           /\ Place(list, sel, Item(list, i + 1)) =
                 IF Item(list, i) \in Removed(list, sel)
                 THEN Place(list, sel, Item(list, i))
                 ELSE Place(list, sel, Item(list, i)) + 1
<1> DEFINE c == Item(list, i)
           S == Kept(list, sel) \cap Before(list, c)
           T == Kept(list, sel) \cap Before(list, Item(list, i + 1))
<1>1. c \in Listed(list)
  BY Places
<1>2. Before(list, Item(list, i + 1)) = Before(list, c) \cup {c} /\ c \notin Before(list, c)
  BY BeforeNext
<1>3. IsFiniteSet(S) /\ Cardinality(S) \in Nat
  BY Finite DEF Kept, Listed
<1>4. CASE c \in Removed(list, sel)
  <2>1. T = S
    BY <1>2, <1>4 DEF Kept
  <2>2. Place(list, sel, Item(list, i + 1)) = Place(list, sel, c)
    BY <2>1 DEF Place
  <2>3. Place(list, sel, c) \in Nat
    BY <1>3 DEF Place
  <2> QED
    BY <1>4, <2>2, <2>3
<1>5. CASE c \notin Removed(list, sel)
  <2>1. T = S \cup {c} /\ c \notin S
    BY <1>1, <1>2, <1>5 DEF Kept
  <2>2. Cardinality(T) = Cardinality(S) + 1
    BY <1>3, <2>1, FS_AddElement
  <2> QED
    BY <1>3, <1>5, <2>2 DEF Place
<1> QED
  BY <1>4, <1>5

\* The first element has the first place.
LEMMA PlaceFirst ==
    ASSUME NEW list \in Lists, NEW sel, Size(list) > 0
    PROVE  Place(list, sel, Item(list, 1)) = 1
<1>1. Size(list) \in Nat /\ 1 \in 1 .. Size(list)
  BY Places
<1>2. \A c \in Listed(list) : list[c].pos \in 1 .. Size(list)
  BY Places
<1>3. list[Item(list, 1)].pos = 1
  BY <1>1, Places
<1>4. Before(list, Item(list, 1)) = {}
  BY <1>1, <1>2, <1>3 DEF Before
<1> QED
  BY <1>4, FS_EmptySet DEF Place

\* Before a droppable element the run of droppable ones grows by it; before
\* any other it ends.
LEMMA RunNext ==
    ASSUME NEW list \in Lists, NEW sel, NEW i \in 1 .. Size(list), i + 1 <= Size(list)
    PROVE  Cardinality(RunBefore(list, sel, Item(list, i + 1))) =
               IF Item(list, i) \in Droppable(list, sel)
               THEN Cardinality(RunBefore(list, sel, Item(list, i))) + 1
               ELSE 0
<1> DEFINE c == Item(list, i)
           next == Item(list, i + 1)
           S == RunBefore(list, sel, c)
<1>1. c \in Listed(list) /\ list[c].pos = i
  BY Places
<1>2. Before(list, next) = Before(list, c) \cup {c} /\ c \notin Before(list, c)
  BY BeforeNext
<1>3. \A d \in Before(list, c) : list[d].pos \in Nat /\ list[d].pos < list[c].pos
  BY Places DEF Before
<1>4. list[c].pos \in Nat
  BY <1>1
<1>5. CASE c \in Droppable(list, sel)
  <2>1. RunBefore(list, sel, next) = S \cup {c} /\ c \notin S
    BY <1>2, <1>3, <1>4, <1>5 DEF RunBefore
  <2>2. IsFiniteSet(S)
    BY Finite DEF RunBefore, Before, Listed
  <2> QED
    BY <1>5, <2>1, <2>2, FS_AddElement
<1>6. CASE c \notin Droppable(list, sel)
  <2>1. RunBefore(list, sel, next) = {}
    BY <1>2, <1>3, <1>4, <1>6 DEF RunBefore
  <2> QED
    BY <1>6, <2>1, FS_EmptySet
<1> QED
  BY <1>5, <1>6

\* Of two droppable elements in a row one is removed.
LEMMA RemovedNext ==
    ASSUME NEW list \in Lists, NEW sel, NEW i \in 1 .. Size(list), i + 1 <= Size(list)
    PROVE  Item(list, i + 1) \in Removed(list, sel) <=>
              /\ Item(list, i + 1) \in Droppable(list, sel)
              /\ Item(list, i) \notin Removed(list, sel)
<1> DEFINE k == Cardinality(RunBefore(list, sel, Item(list, i)))
<1>1. k \in Nat
  BY Finite DEF RunBefore, Before, Listed
<1>2. Cardinality(RunBefore(list, sel, Item(list, i + 1))) =
          IF Item(list, i) \in Droppable(list, sel) THEN k + 1 ELSE 0
  BY RunNext
<1> HIDE DEF k
<1>3. (k + 1) % 2 = 0 <=> k % 2 # 0
  BY <1>1
<1>4. 0 % 2 = 0
  OBVIOUS
<1> QED
  BY <1>2, <1>3, <1>4 DEF Removed, k

\* The first element is removed when it may be.
LEMMA RemovedFirst ==
    ASSUME NEW list \in Lists, NEW sel, Size(list) > 0
    PROVE  Item(list, 1) \in Removed(list, sel) <=> Item(list, 1) \in Droppable(list, sel)
<1>1. Size(list) \in Nat /\ 1 \in 1 .. Size(list)
  BY Places
<1>2. \A c \in Listed(list) : list[c].pos \in 1 .. Size(list)
  BY Places
<1>3. list[Item(list, 1)].pos = 1
  BY <1>1, Places
<1>4. RunBefore(list, sel, Item(list, 1)) = {}
  BY <1>1, <1>2, <1>3 DEF Before, RunBefore
<1>5. 0 % 2 = 0
  OBVIOUS
<1> QED
  BY <1>4, <1>5, FS_EmptySet DEF Removed

-----------------------------------------------------------------------------
(* The invariant is preserved                                              *)

\* An iteration looks at the element Reached, or again at the last one.
LEMMA Looked ==
    ASSUME LoopInv, id <= Size(input)
    PROVE  /\ Size(input) \in Nat /\ Size(input) > 0
           /\ Gone \in 0 .. Size(input) /\ length = Size(input) - Gone
           /\ Reached <= Size(input) <=> id <= length
           /\ Reached <= Size(input) =>
                 /\ Reached \in 1 .. Size(input)
                 /\ array[id] = Item(input, Reached)
                 /\ array[id] \in Removed(input, chosen) <=>
                       array[id] \in Droppable(input, chosen)
           /\ Reached > Size(input) => array[id] = Item(input, Size(input)) /\ Gone # 0
           /\ array[id] \in Listed(input)
<1>1. Size(input) \in Nat
  BY Places DEF LoopInv, LoopTyped
<1>2. /\ id \in Nat /\ id >= 1 /\ length \in Nat /\ length <= Size(input)
      /\ array \in [1 .. Size(input) -> Listed(input)]
  BY <1>1 DEF LoopInv, LoopTyped
<1>3. /\ Gone \in 0 .. Size(input) /\ length = Size(input) - Gone
      /\ Reached = id + Gone
  BY <1>1, <1>2 DEF Gone, Reached
<1>4. array[id] \in Listed(input)
  BY <1>1, <1>2
<1>5. CASE id <= length
  <2>1. Reached \in 1 .. Size(input) /\ Reached <= Size(input)
    BY <1>1, <1>2, <1>3, <1>5
  <2>2. array[id] = Item(input, Reached)
    BY <1>2, <1>3, <1>5 DEF LoopInv, AheadMoved
  <2>3. array[id] \in Removed(input, chosen) <=> array[id] \in Droppable(input, chosen)
    <3>1. CASE Reached = 1
      BY <1>1, <2>1, <2>2, <3>1, RemovedFirst DEF LoopInv, LoopTyped
    <3>2. CASE Reached > 1
      <4>1. /\ Reached - 1 \in 1 .. Size(input)
            /\ (Reached - 1) + 1 = Reached /\ (Reached - 1) + 1 <= Size(input)
        BY <1>1, <2>1, <3>2
      <4>2. Item(input, Reached - 1) \notin Removed(input, chosen)
        BY <2>1, <3>2 DEF LoopInv, InStep
      <4>3. input \in Lists
        BY DEF LoopInv, LoopTyped
      <4> HIDE DEF Reached
      <4> QED
        BY <2>2, <4>1, <4>2, <4>3, RemovedNext
    <3> QED
      BY <2>1, <3>1, <3>2
  <2> QED
    BY <1>1, <1>2, <1>3, <1>4, <1>5, <2>1, <2>2, <2>3
<1>6. CASE id > length
  <2>1. Reached > Size(input) /\ Gone # 0
    BY <1>1, <1>2, <1>3, <1>6
  <2>2. array[id] = Item(input, Size(input))
    BY <1>1, <1>2, <1>6 DEF LoopInv, AheadMoved
  <2> QED
    BY <1>1, <1>2, <1>3, <1>4, <1>6, <2>1, <2>2
<1> QED
  BY <1>2, <1>5, <1>6

\* At first nothing is removed, and the first element is looked at.
LEMMA LoopInit == Init => LoopInv
<1> SUFFICES ASSUME Init
             PROVE  LoopInv
  OBVIOUS
<1>1. /\ input \in Lists /\ chosen \in SUBSET Cluster
      /\ array = InOrder(input) /\ id = 1 /\ status = "looping"
  BY DEF Init
<1>2. /\ Size(input) \in Nat
      /\ array \in [1 .. Size(input) -> Listed(input)]
      /\ \A c \in Listed(input) : input[c].pos \in 1 .. Size(input)
  BY <1>1, Places
<1>3. length = Size(input)
  BY <1>2 DEF Init
<1>4. Gone = 0 /\ Reached = 1
  BY <1>1, <1>2, <1>3 DEF Gone, Reached
<1>5. LoopTyped
  BY <1>1, <1>2, <1>3 DEF LoopTyped
<1>6. AheadMoved
  BY <1>1, <1>2, <1>3, <1>4 DEF AheadMoved, Item
<1>7. BehindKept
  BY <1>1, <1>2, <1>4 DEF BehindKept, Kept
<1>8. InStep
  BY <1>1, <1>2, <1>4, PlaceFirst DEF InStep
<1>9. LastStep
  BY <1>1, <1>2, <1>4 DEF LastStep, Earlier, Droppable
<1> QED
  BY <1>1, <1>5, <1>6, <1>7, <1>8, <1>9 DEF LoopInv

\* An iteration that removes nothing: what it looks at is kept,
LEMMA SkipKeeps ==
    ASSUME LoopInv, Skip
    PROVE  LoopInv'
<1> DEFINE n == Size(input)
           p == Reached
<1>1. n \in Nat /\ array \in [1 .. n -> Listed(input)] /\ input \in Lists
  BY Places DEF LoopInv, LoopTyped
<1>2. id \in 1 .. n
  BY <1>1 DEF Skip, LoopInv, LoopTyped
<1>3. /\ input' = input /\ chosen' = chosen /\ array' = array /\ length' = length
      /\ id' = id + 1 /\ status' = "looping"
  BY DEF Skip
<1>4. Gone' = Gone /\ Reached' = p + 1
  BY <1>1, <1>2, <1>3, Looked DEF Gone, Reached
<1>5. /\ n > 0 /\ Gone \in 0 .. n /\ length = n - Gone /\ p = id + Gone
      /\ p <= n <=> id <= length
      /\ p <= n => /\ p \in 1 .. n /\ array[id] = Item(input, p)
                   /\ array[id] \in Removed(input, chosen) <=>
                         array[id] \in Droppable(input, chosen)
      /\ p > n => array[id] = Item(input, n) /\ Gone # 0
      /\ array[id] \in Listed(input)
  BY <1>2, Looked DEF Reached
<1>6. array[id] \notin Droppable(input, chosen)
  BY DEF Skip, Deselected, Droppable
<1>7. /\ \A c \in Listed(input) : input[c].pos \in 1 .. n
      /\ \A c \in Listed(input) : Item(input, input[c].pos) = c
  BY <1>1, Places
<1>8. AheadMoved /\ BehindKept /\ InStep /\ LastStep
  BY DEF LoopInv
<1> HIDE DEF n, p
<1>9. LoopTyped'
  BY <1>1, <1>2, <1>3 DEF LoopInv, LoopTyped, n
<1>10. AheadMoved'
  BY <1>1, <1>2, <1>3, <1>4, <1>5, <1>8 DEF AheadMoved, n
<1>11. BehindKept'
  <2>1. ASSUME NEW c \in Kept(input, chosen), input[c].pos < p + 1
        PROVE  /\ Place(input, chosen, c) \in 1 .. length
               /\ Place(input, chosen, c) < id + 1
               /\ array[Place(input, chosen, c)] = c
    <3>1. c \in Listed(input) /\ input[c].pos \in 1 .. n
      BY <1>7 DEF Kept
    <3>2. CASE input[c].pos < p
      <4>1. /\ Place(input, chosen, c) \in 1 .. length
            /\ Place(input, chosen, c) < id
            /\ array[Place(input, chosen, c)] = c
        BY <1>8, <3>2 DEF BehindKept, p
      <4> QED
        BY <1>2, <1>5, <4>1
    <3>3. CASE input[c].pos = p
      <4>1. c = Item(input, p) /\ p <= n
        BY <1>5, <1>7, <3>1, <3>3
      <4>2. Place(input, chosen, c) = id
        BY <1>8, <4>1 DEF InStep, p, n
      <4> QED
        BY <1>2, <1>5, <4>1, <4>2
    <3> QED
      BY <1>2, <1>5, <2>1, <3>1, <3>2, <3>3
  <2>2. ASSUME NEW j \in 1 .. length, j < id + 1
        PROVE  /\ input[array[j]].pos < p + 1
               /\ array[j] \in Kept(input, chosen)
               /\ Place(input, chosen, array[j]) = j
    <3>1. CASE j < id
      <4>1. /\ input[array[j]].pos < p
            /\ array[j] \in Kept(input, chosen)
            /\ Place(input, chosen, array[j]) = j
        BY <1>8, <3>1 DEF BehindKept, p
      <4>2. input[array[j]].pos \in 1 .. n
        BY <1>7, <4>1 DEF Kept
      <4> QED
        BY <1>1, <1>2, <1>5, <4>1, <4>2
    <3>2. CASE j = id
      <4>1. p <= n
        BY <1>5, <3>2
      <4>2. array[j] = Item(input, p) /\ array[j] \in Kept(input, chosen)
        BY <1>5, <1>6, <3>2, <4>1 DEF Kept
      <4>3. Place(input, chosen, array[j]) = j
        BY <1>8, <3>2, <4>1, <4>2 DEF InStep, p, n
      <4>4. input[array[j]].pos = p
        BY <1>1, <1>5, <4>1, <4>2, Places DEF n
      <4> QED
        BY <1>1, <1>2, <1>5, <4>2, <4>3, <4>4
    <3> QED
      BY <1>2, <1>5, <2>2, <3>1, <3>2
  <2> QED
    BY <1>3, <1>4, <2>1, <2>2 DEF BehindKept, p
<1>12. InStep'
  <2> SUFFICES ASSUME p + 1 <= n
               PROVE  /\ Place(input, chosen, Item(input, p + 1)) = id + 1
                      /\ Item(input, p) \notin Removed(input, chosen)
    BY <1>1, <1>2, <1>3, <1>4, <1>5 DEF InStep, p, n
  <2>1. p \in 1 .. n /\ p <= n
    BY <1>1, <1>2, <1>5
  <2>2. Item(input, p) \notin Removed(input, chosen)
    BY <1>5, <1>6, <2>1
  <2>3. Place(input, chosen, Item(input, p)) = id
    BY <1>8, <2>1 DEF InStep, p, n
  <2> QED
    BY <1>1, <2>1, <2>2, <2>3, PlaceNext DEF n
<1>13. LastStep'
  <2>1. ASSUME Gone = 0, NEW c \in Droppable(input, chosen)
        PROVE  input[c].pos >= id + 1
    <3>1. input[c].pos >= id /\ input[c].pos \in 1 .. n /\ c = Item(input, input[c].pos)
      BY <1>7, <1>8, <2>1 DEF LastStep, Droppable
    <3>2. p = id /\ array[id] = Item(input, id)
      BY <1>1, <1>2, <1>5, <2>1
    <3>3. input[c].pos # id
      BY <1>6, <3>1, <3>2
    <3> QED
      BY <1>2, <3>1, <3>3
  <2>2. ASSUME LastDropped, NEW c \in Earlier, input[c].pos < p + 1
        PROVE  id + 1 <= n
    <3>1. /\ c \in Droppable(input, chosen) /\ input[c].pos < n
          /\ input[c].pos \in 1 .. n /\ c = Item(input, input[c].pos)
      BY <1>7 DEF Earlier, Droppable, n
    <3>2. input[c].pos < p
      BY <1>1, <1>2, <1>5, <1>6, <2>2, <3>1
    <3>3. id # n
      BY <1>1, <1>2, <1>5, <1>6, <2>2 DEF LastDropped, n
    <3> QED
      BY <1>1, <1>2, <3>3
  <2>3. Gone # 0 => Earlier # {}
    BY <1>1, <1>2, <1>8 DEF LastStep, n
  <2> QED
    BY <1>3, <1>4, <2>1, <2>2, <2>3 DEF LastStep, LastDropped, Earlier, n, p
<1> QED
  BY <1>3, <1>9, <1>10, <1>11, <1>12, <1>13 DEF LoopInv

\* An iteration that removes the element it looks at: what follows moves
\* forward, and the element that takes its index is passed over.
LEMMA RemoveKeeps ==
    ASSUME LoopInv, Remove
    PROVE  LoopInv'
<1> DEFINE n == Size(input)
           p == Reached
<1>1. n \in Nat /\ array \in [1 .. n -> Listed(input)] /\ input \in Lists
  BY Places DEF LoopInv, LoopTyped
<1>2. id \in 1 .. n /\ id <= length /\ length \in 0 .. n
  BY <1>1 DEF Remove, LoopInv, LoopTyped
<1>3. /\ input' = input /\ chosen' = chosen /\ status' = status /\ status = "looping"
      /\ array' = [i \in 1 .. n |->
                      IF i \in id .. (length - 1) THEN array[i + 1] ELSE array[i]]
      /\ length' = length - 1 /\ id' = id + 1
  BY <1>1 DEF Remove
<1>4. Gone' = Gone + 1 /\ Reached' = p + 2
  BY <1>1, <1>2, <1>3, Looked DEF Gone, Reached
<1>5. /\ n > 0 /\ Gone \in 0 .. n /\ length = n - Gone /\ p = id + Gone
      /\ p \in 1 .. n /\ array[id] = Item(input, p)
      /\ array[id] \in Removed(input, chosen) <=>
            array[id] \in Droppable(input, chosen)
      /\ array[id] \in Listed(input)
  BY <1>1, <1>2, Looked DEF Reached
<1>6. Item(input, p) \in Droppable(input, chosen) /\ Item(input, p) \in Removed(input, chosen)
  BY <1>5 DEF Remove, Deselected, Droppable
<1>7. /\ \A c \in Listed(input) : input[c].pos \in 1 .. n
      /\ \A c \in Listed(input) : Item(input, input[c].pos) = c
      /\ \A i \in 1 .. n : Item(input, i) \in Listed(input) /\ input[Item(input, i)].pos = i
  BY <1>1, Places
<1>8. AheadMoved /\ BehindKept /\ InStep /\ LastStep
  BY DEF LoopInv
<1>9. /\ \A j \in id .. length : array[j] = Item(input, j + Gone)
      /\ \A j \in (length + 1) .. n : array[j] = Item(input, n)
  BY <1>8 DEF AheadMoved
<1>10. Place(input, chosen, Item(input, p)) = id
  BY <1>1, <1>5, <1>8 DEF InStep
<1> HIDE DEF n, p
\* The element that takes the index is kept, and its place is that index.
<1>11. ASSUME p + 1 <= n
       PROVE  /\ Item(input, p + 1) \in Kept(input, chosen)
              /\ Place(input, chosen, Item(input, p + 1)) = id
              /\ input[Item(input, p + 1)].pos = p + 1
              /\ id \in id .. (length - 1) /\ array'[id] = Item(input, p + 1)
  <2>1. p + 1 \in 1 .. n /\ id + 1 \in id .. length /\ (id + 1) + Gone = p + 1
    BY <1>1, <1>2, <1>5, <1>11
  <2>2. array'[id] = array[id + 1]
    BY <1>1, <1>2, <1>3, <2>1
  <2>3. array[id + 1] = Item(input, p + 1)
    BY <1>9, <2>1
  <2>4. Item(input, p + 1) \notin Removed(input, chosen)
    BY <1>1, <1>5, <1>6, <1>11, RemovedNext DEF n
  <2>5. Place(input, chosen, Item(input, p + 1)) = id
    BY <1>1, <1>5, <1>6, <1>10, <1>11, PlaceNext DEF n
  <2> QED
    BY <1>2, <1>7, <2>1, <2>2, <2>3, <2>4, <2>5 DEF Kept
<1>12. LoopTyped'
  <2>1. array' \in [1 .. n -> Listed(input)]
    BY <1>1, <1>2, <1>3
  <2> QED
    BY <1>1, <1>2, <1>3, <2>1 DEF LoopInv, LoopTyped, n
<1>13. AheadMoved'
  <2>1. ASSUME NEW j \in (id + 1) .. (length - 1)
        PROVE  array'[j] = Item(input, j + (Gone + 1))
    <3>1. j \in 1 .. n /\ j \in id .. (length - 1)
      BY <1>1, <1>2
    <3>2. j + 1 \in id .. length /\ (j + 1) + Gone = j + (Gone + 1)
      BY <1>1, <1>2, <1>5
    <3>3. array'[j] = array[j + 1]
      BY <1>3, <3>1
    <3> QED
      BY <1>9, <3>2, <3>3
  <2>2. ASSUME NEW j \in ((length - 1) + 1) .. n
        PROVE  array'[j] = Item(input, n)
    <3>1. j \in 1 .. n /\ j \notin id .. (length - 1)
      BY <1>1, <1>2
    <3>2. array'[j] = array[j]
      BY <1>3, <3>1
    <3>3. CASE j = length
      <4>1. j \in id .. length /\ j + Gone = n
        BY <1>1, <1>2, <1>5, <3>3
      <4> QED
        BY <1>9, <3>2, <4>1
    <3>4. CASE j # length
      <4>1. j \in (length + 1) .. n
        BY <1>1, <1>2, <3>4
      <4> QED
        BY <1>9, <3>2, <4>1
    <3> QED
      BY <3>3, <3>4
  <2> QED
    BY <1>3, <1>4, <2>1, <2>2 DEF AheadMoved, n
<1>14. BehindKept'
  <2>1. ASSUME NEW c \in Kept(input, chosen), input[c].pos < p + 2
        PROVE  /\ Place(input, chosen, c) \in 1 .. (length - 1)
               /\ Place(input, chosen, c) < id + 1
               /\ array'[Place(input, chosen, c)] = c
    <3>1. c \in Listed(input) /\ input[c].pos \in 1 .. n /\ c \notin Removed(input, chosen)
      BY <1>7 DEF Kept
    <3>2. CASE input[c].pos < p
      <4> DEFINE k == Place(input, chosen, c)
      <4>1. k \in 1 .. length /\ k < id /\ array[k] = c
        BY <1>8, <3>2 DEF BehindKept, p
      <4> HIDE DEF k
      <4>2. k \in 1 .. n /\ k \notin id .. (length - 1) /\ k \in 1 .. (length - 1) /\ k < id + 1
        BY <1>1, <1>2, <4>1
      <4>3. array'[k] = c
        BY <1>3, <4>1, <4>2
      <4> QED
        BY <4>2, <4>3 DEF k
    <3>3. CASE input[c].pos = p
      BY <1>6, <1>7, <3>1, <3>3
    <3>4. CASE input[c].pos = p + 1
      <4>1. c = Item(input, p + 1) /\ p + 1 <= n
        BY <1>7, <3>1, <3>4
      <4>2. Place(input, chosen, c) = id /\ id \in id .. (length - 1) /\ array'[id] = c
        BY <1>11, <4>1
      <4> QED
        BY <1>2, <4>2
    <3> QED
      BY <1>5, <2>1, <3>1, <3>2, <3>3, <3>4
  <2>2. ASSUME NEW j \in 1 .. (length - 1), j < id + 1
        PROVE  /\ input[array'[j]].pos < p + 2
               /\ array'[j] \in Kept(input, chosen)
               /\ Place(input, chosen, array'[j]) = j
    <3>1. CASE j < id
      <4>1. j \in 1 .. n /\ j \in 1 .. length /\ j \notin id .. (length - 1)
        BY <1>1, <1>2, <3>1
      <4>2. array'[j] = array[j]
        BY <1>3, <4>1
      <4>3. /\ input[array[j]].pos < p
            /\ array[j] \in Kept(input, chosen)
            /\ Place(input, chosen, array[j]) = j
        BY <1>8, <3>1, <4>1 DEF BehindKept, p
      <4>4. input[array[j]].pos \in 1 .. n
        BY <1>7, <4>3 DEF Kept
      <4>5. input[array[j]].pos < p + 2
        BY <1>5, <4>3, <4>4
      <4> QED
        BY <4>2, <4>3, <4>5
    <3>2. CASE j = id
      <4>1. p + 1 <= n
        BY <1>1, <1>2, <1>5, <3>2
      <4>2. p + 1 < p + 2
        BY <1>5
      <4> QED
        BY <1>11, <3>2, <4>1, <4>2
    <3> QED
      BY <1>2, <2>2, <3>1, <3>2
  <2> QED
    BY <1>3, <1>4, <2>1, <2>2 DEF BehindKept, p
<1>15. InStep'
  <2>1. ASSUME p + 2 <= n
        PROVE  /\ Place(input, chosen, Item(input, p + 2)) = id + 1
               /\ Item(input, p + 1) \notin Removed(input, chosen)
    <3>1. p + 1 \in 1 .. n /\ p + 1 <= n /\ (p + 1) + 1 = p + 2
      BY <1>1, <1>5, <2>1
    <3>2. Item(input, p + 1) \notin Removed(input, chosen)
      BY <1>11, <3>1 DEF Kept
    <3> QED
      BY <1>1, <1>11, <2>1, <3>1, <3>2, PlaceNext DEF n
  <2>2. (p + 2) - 1 = p + 1
    BY <1>5
  <2> QED
    BY <1>3, <1>4, <2>1, <2>2 DEF InStep, n, p
<1>16. LastStep'
  <2>1. Gone + 1 # 0
    BY <1>5
  <2>2. ASSUME NEW c \in Earlier
        PROVE  id + 1 <= n
    <3>1. c \in Droppable(input, chosen) /\ input[c].pos < n /\ input[c].pos \in 1 .. n
      BY <1>7 DEF Earlier, Droppable, n
    <3>2. Gone = 0 => input[c].pos >= id
      BY <1>8, <3>1 DEF LastStep
    <3> QED
      BY <1>1, <1>2, <1>5, <3>1, <3>2
  <2>3. id + 1 = n + 1 \/ Earlier # {}
    <3>1. CASE p < n
      BY <1>5, <1>6, <1>7, <3>1 DEF Earlier, n
    <3>2. CASE p = n
      <4>1. Gone # 0 => Earlier # {}
        BY <1>1, <1>2, <1>8 DEF LastStep, n
      <4> QED
        BY <1>1, <1>2, <1>5, <3>2, <4>1
    <3> QED
      BY <1>1, <1>5, <3>1, <3>2
  <2> QED
    BY <1>3, <1>4, <2>1, <2>2, <2>3 DEF LastStep, Earlier, n, p
<1> QED
  BY <1>3, <1>12, <1>13, <1>14, <1>15, <1>16 DEF LoopInv

\* A removal beyond the end: the last element is looked at once more.
LEMMA PanicKeeps ==
    ASSUME LoopInv, Panic
    PROVE  LoopInv'
<1> DEFINE n == Size(input)
<1>1. n \in Nat /\ array \in [1 .. n -> Listed(input)] /\ input \in Lists
  BY Places DEF LoopInv, LoopTyped
<1>2. id \in 1 .. n /\ id > length /\ length \in 0 .. n
  BY <1>1 DEF Panic, LoopInv, LoopTyped
<1>3. array[id] = Item(input, n) /\ Gone # 0 /\ array[id] \in Listed(input)
  <2>1. ~(id <= length)
    BY <1>1, <1>2
  <2>2. Reached > n
    BY <1>1, <1>2, <2>1, Looked DEF Reached
  <2> QED
    BY <1>1, <1>2, <2>2, Looked
<1>4. Item(input, n) \in Droppable(input, chosen)
  BY <1>3 DEF Panic, Deselected, Droppable
<1>5. PICK d \in Earlier : TRUE
  BY <1>1, <1>2, <1>3 DEF LoopInv, LastStep
<1>6. /\ n \in 1 .. n
      /\ \A c \in Listed(input) : input[c].pos \in 1 .. n
      /\ input[Item(input, n)].pos = n
  BY <1>1, <1>2, Places
<1>7. /\ d \in Droppable(input, chosen) /\ d \in Before(input, Item(input, n))
      /\ \A e \in Listed(input) : input[e].pos <= input[Item(input, n)].pos
  BY <1>1, <1>5, <1>6 DEF Earlier, Droppable, Before
<1>8. RemovalPanics(input, chosen)
  BY <1>4, <1>7 DEF RemovalPanics
<1>9. /\ UNCHANGED <<input, chosen, array, length, id>> /\ status' = "panicked"
  BY DEF Panic
<1> QED
  BY <1>8, <1>9
  DEF LoopInv, LoopTyped, AheadMoved, BehindKept, InStep, LastStep, LastDropped, Earlier,
      Gone, Reached

LEMMA ReturnKeeps ==
    ASSUME LoopInv, Return
    PROVE  LoopInv'
<1>1. Size(input) \in Nat /\ array \in [1 .. Size(input) -> Listed(input)]
  BY Places DEF LoopInv, LoopTyped
<1>2. id = Size(input) + 1
  BY <1>1 DEF Return, LoopInv, LoopTyped
<1>3. /\ UNCHANGED <<input, chosen, array, length, id>> /\ status' = "returned"
  BY DEF Return
<1> QED
  BY <1>2, <1>3
  DEF LoopInv, LoopTyped, AheadMoved, BehindKept, InStep, LastStep, LastDropped, Earlier,
      Gone, Reached

\* The removals so far and the element looked at (LoopInv) hold at every
\* iteration of the removal loop of getClustersList, for a list of any length.
THEOREM LoopInvariance == Spec => []LoopInv
<1>1. Init => LoopInv
  BY LoopInit
<1>2. LoopInv /\ [Next]_vars => LoopInv'
  <2> SUFFICES ASSUME LoopInv, [Next]_vars
               PROVE  LoopInv'
    OBVIOUS
  <2>1. CASE Skip
    BY <2>1, SkipKeeps
  <2>2. CASE Remove
    BY <2>2, RemoveKeeps
  <2>3. CASE Panic
    BY <2>3, PanicKeeps
  <2>4. CASE Return
    BY <2>4, ReturnKeeps
  <2>5. CASE UNCHANGED vars
    BY <2>5
    DEF vars, LoopInv, LoopTyped, AheadMoved, BehindKept, InStep, LastStep, LastDropped,
        Earlier, Gone, Reached
  <2> QED
    BY <2>1, <2>2, <2>3, <2>4, <2>5 DEF Next
<1> QED
  BY <1>1, <1>2, PTL DEF Spec

-----------------------------------------------------------------------------
(* What the loop leaves                                                    *)

\* When the loop returns, the slice holds what is kept, each at its place.
LEMMA KeptInPlace ==
    ASSUME LoopInv, status = "returned"
    PROVE  /\ \A c \in Kept(input, chosen) :
                 /\ Place(input, chosen, c) \in 1 .. length
                 /\ array[Place(input, chosen, c)] = c
           /\ \A j \in 1 .. length :
                 array[j] \in Kept(input, chosen) /\ Place(input, chosen, array[j]) = j
<1>1. /\ Size(input) \in Nat /\ length \in 0 .. Size(input)
      /\ \A c \in Listed(input) : input[c].pos \in 1 .. Size(input)
  BY Places DEF LoopInv, LoopTyped
<1>2. id = Size(input) + 1 /\ BehindKept
  BY DEF LoopInv
<1>3. \A c \in Kept(input, chosen) : input[c].pos < Reached
  BY <1>1, <1>2 DEF Kept, Reached, Gone
<1>4. \A j \in 1 .. length : j < id
  BY <1>1, <1>2
<1> QED
  BY <1>2, <1>3, <1>4 DEF BehindKept

\* The list the closed form says is left: what is kept, at its place.
LEMMA PrunedList ==
    ASSUME NEW list \in Lists, NEW sel
    PROVE  /\ Listed(Pruned(list, sel)) = Kept(list, sel)
           /\ \A c \in Kept(list, sel) : Pruned(list, sel)[c].pos = Place(list, sel, c)
<1> DEFINE P == Pruned(list, sel)
<1>1. \A c \in Kept(list, sel) : c \in Cluster /\ Place(list, sel, c) \in Nat \ {0}
  <2> TAKE c \in Kept(list, sel)
  <2>1. Cardinality(Kept(list, sel) \cap Before(list, c)) \in Nat
    BY Finite DEF Kept, Listed
  <2> QED
    BY <2>1 DEF Place, Kept, Listed
<1>2. ASSUME NEW c \in Kept(list, sel)
      PROVE  P[c].pos = Place(list, sel, c)
  <2>1. P[c] = [list[c] EXCEPT !.pos = Place(list, sel, c)]
    BY <1>1 DEF Pruned, Place, Kept
  <2>2. list[c] \in [pos : 0 .. Cardinality(Cluster), up : {"NotStarted", "Initialized"},
                     ops : {"NotStarted"}]
    BY <1>1 DEF Lists
  <2> QED
    BY <2>1, <2>2
<1>3. ASSUME NEW c \in Cluster, c \notin Kept(list, sel)
      PROVE  P[c].pos = 0
  BY <1>3 DEF Pruned, Kept, SlotAt
<1>4. Listed(P) = Kept(list, sel)
  <2> HIDE DEF P
  <2> QED
    BY <1>1, <1>2, <1>3 DEF Listed
<1> QED
  BY <1>2, <1>4

\* The loop over the slice and the closed form (managedclustersupgrade_controller.go:533)
\* leave the same clusters in the same order, and panic on the same lists.
THEOREM ClosedFormHolds == Spec => []LoopMatchesClosedForm
<1>1. ASSUME LoopInv, status = "returned"
      PROVE  ~RemovalPanics(input, chosen)
  <2> SUFFICES ASSUME NEW c \in Droppable(input, chosen), NEW d \in Droppable(input, chosen),
                      d \in Before(input, c),
                      \A e \in Listed(input) : input[e].pos <= input[c].pos
               PROVE  FALSE
    BY DEF RemovalPanics
  <2>1. /\ Size(input) \in Nat /\ length \in 0 .. Size(input) /\ input \in Lists
        /\ \A e \in Listed(input) : input[e].pos \in 1 .. Size(input)
        /\ \A e \in Listed(input) : Item(input, input[e].pos) = e
        /\ \A i \in 1 .. Size(input) :
              Item(input, i) \in Listed(input) /\ input[Item(input, i)].pos = i
    BY <1>1, Places DEF LoopInv, LoopTyped
  <2>2. c \in Listed(input) /\ d \in Listed(input) /\ input[d].pos < input[c].pos
    BY DEF Droppable, Before
  <2>3. Size(input) \in 1 .. Size(input)
    BY <2>1, <2>2
  <2>4. input[c].pos = Size(input)
    BY <2>1, <2>2, <2>3
  <2>5. LastDropped /\ d \in Earlier
    BY <2>1, <2>2, <2>4 DEF LastDropped, Earlier
  <2>6. id = Size(input) + 1 /\ input[d].pos < Reached
    BY <1>1, <2>1, <2>2 DEF LoopInv, Reached, Gone
  <2>7. id <= Size(input)
    BY <1>1, <2>5, <2>6 DEF LoopInv, LastStep
  <2> QED
    BY <2>1, <2>6, <2>7
<1>2. ASSUME LoopInv, status = "returned"
      PROVE  SubSeq(array, 1, length) = InOrder(Pruned(input, chosen))
  <2> DEFINE kept == Kept(input, chosen)
             P == Pruned(input, chosen)
             f == [j \in 1 .. length |-> array[j]]
  <2>1. /\ Size(input) \in Nat /\ input \in Lists /\ length \in 0 .. Size(input)
        /\ array \in [1 .. Size(input) -> Listed(input)]
    BY <1>2, Places DEF LoopInv, LoopTyped
  <2>2. /\ \A c \in kept : Place(input, chosen, c) \in 1 .. length
                           /\ array[Place(input, chosen, c)] = c
        /\ \A j \in 1 .. length : array[j] \in kept /\ Place(input, chosen, array[j]) = j
    BY <1>2, KeptInPlace
  <2>3. Listed(P) = kept /\ \A c \in kept : P[c].pos = Place(input, chosen, c)
    BY <2>1, PrunedList
  <2> HIDE DEF kept, P
  <2>4. f \in Bijection(1 .. length, kept)
    <3>1. f \in [1 .. length -> kept]
      BY <2>2
    <3>2. f \in Injection(1 .. length, kept)
      BY <2>2, <3>1 DEF Injection, IsInjective
    <3>3. \A c \in kept : \E j \in 1 .. length : f[j] = c
      BY <2>2
    <3>4. f \in Surjection(1 .. length, kept)
      BY <3>1, <3>3 DEF Surjection
    <3> QED
      BY <3>2, <3>4 DEF Bijection
  <2>5. Cardinality(kept) = length
    <3>1. ExistsBijection(1 .. length, kept)
      BY <2>4 DEF ExistsBijection
    <3>2. IsFiniteSet(1 .. length) /\ Cardinality(1 .. length) = length
      BY <2>1, FS_Interval
    <3> QED
      BY <3>1, <3>2, FS_Bijection
  <2>6. ASSUME NEW i \in 1 .. length
        PROVE  (CHOOSE c \in kept : P[c].pos = i) = array[i]
    BY <2>2, <2>3
  <2>7. InOrder(P) = [i \in 1 .. length |-> array[i]]
    BY <2>3, <2>5, <2>6 DEF InOrder
  <2>8. SubSeq(array, 1, length) = [i \in 1 .. length |-> array[i]]
    BY <2>1
  <2> QED
    BY <2>7, <2>8 DEF P
<1>3. LoopInv => LoopMatchesClosedForm
  BY <1>1, <1>2 DEF LoopMatchesClosedForm, LoopInv
<1> QED
  BY <1>3, LoopInvariance, PTL

\* At every iteration a selected cluster, and one whose upgrade is running, is
\* on the list exactly once (managedclustersupgrade_controller.go:536).
THEOREM NothingElseRemoved == Spec => []NothingElseIsRemoved
<1>1. ASSUME LoopInv, NEW c \in Listed(input), ~Deselected(c) \/ Running(input[c])
      PROVE  Cardinality({i \in 1 .. length : array[i] = c}) = 1
  <2> DEFINE S == {i \in 1 .. length : array[i] = c}
             m == input[c].pos
             k == IF m < Reached THEN Place(input, chosen, c) ELSE m - Gone
  <2>1. /\ Size(input) \in Nat /\ length \in 0 .. Size(input) /\ id \in Nat
        /\ m \in 1 .. Size(input) /\ Item(input, m) = c
        /\ \A i \in 1 .. Size(input) : input[Item(input, i)].pos = i
    BY <1>1, Places DEF LoopInv, LoopTyped
  <2>2. /\ Gone \in 0 .. Size(input) /\ length = Size(input) - Gone /\ Reached = id + Gone
    BY <2>1 DEF Gone, Reached
  <2>3. c \in Kept(input, chosen)
    BY <1>1 DEF Kept, Removed, Droppable, Deselected
  <2>4. /\ \A j \in id .. length : array[j] = Item(input, j + Gone)
        /\ \A j \in 1 .. length : j < id =>
              input[array[j]].pos < Reached /\ Place(input, chosen, array[j]) = j
        /\ m < Reached => /\ Place(input, chosen, c) \in 1 .. length
                          /\ array[Place(input, chosen, c)] = c
    BY <1>1, <2>3 DEF LoopInv, AheadMoved, BehindKept
  <2> HIDE DEF m
  <2>5. k \in S
    <3>1. CASE m < Reached
      BY <2>4, <3>1
    <3>2. CASE ~(m < Reached)
      <4>1. k = m - Gone /\ k \in id .. length /\ k \in 1 .. length /\ k + Gone = m
        BY <1>1, <2>1, <2>2, <3>2 DEF LoopInv, LoopTyped
      <4> QED
        BY <2>1, <2>4, <4>1
    <3> QED
      BY <3>1, <3>2
  <2>6. ASSUME NEW i \in S
        PROVE  i = k
    <3>1. i \in 1 .. length /\ array[i] = c
      OBVIOUS
    <3>2. CASE i < id
      BY <2>4, <3>1, <3>2 DEF m
    <3>3. CASE ~(i < id)
      <4>1. i \in id .. length /\ i + Gone \in 1 .. Size(input)
        BY <2>1, <2>2, <3>1, <3>3
      <4>2. m = i + Gone
        BY <2>1, <2>4, <3>1, <4>1 DEF m
      <4> QED
        BY <2>1, <2>2, <3>1, <3>3, <4>2
    <3> QED
      BY <3>2, <3>3
  <2>7. S = {k}
    BY <2>5, <2>6
  <2> QED
    BY <2>7, FS_Singleton
<1>2. LoopInv => NothingElseIsRemoved
  BY <1>1 DEF NothingElseIsRemoved
<1> QED
  BY <1>2, LoopInvariance, PTL

=============================================================================
