--------------------------- MODULE UpgradeRollout ---------------------------
(***************************************************************************)
(* What a ManagedClustersUpgrade promises to its users, as its status      *)
(* tells it: every cluster waits, is worked on, and is done or failed;     *)
(* the targets wait until all canaries are done; at most Limit clusters    *)
(* of a list are worked on at a time; completion is announced once, when   *)
(* all targets are done.                                                   *)
(***************************************************************************)
EXTENDS Naturals, FiniteSets

CONSTANTS Canaries, Targets, Limit

VARIABLES canaryStage, targetStage, announced

vars == <<canaryStage, targetStage, announced>>

Stages == {"waiting", "running", "done", "failed"}

Running(stage) == {c \in DOMAIN stage : stage[c] = "running"}
AllDone(stage) == \A c \in DOMAIN stage : stage[c] = "done"

\* The stages are known for the clusters the user has chosen, and no others.
TypeOK ==
    /\ canaryStage \in [Canaries -> Stages]
    /\ targetStage \in [Targets -> Stages]
    /\ announced \in BOOLEAN

Init ==
    /\ canaryStage = [c \in Canaries |-> "waiting"]
    /\ targetStage = [c \in Targets |-> "waiting"]
    /\ announced = FALSE

\* A cluster never waits again, and what is done or failed is final.
Forward(from, to) ==
    /\ from # "waiting" => to # "waiting"
    /\ from \in {"done", "failed"} => to = from

\* A list moves on: several clusters at once, when one report covers them.
Moves(from, to) ==
    /\ \A c \in DOMAIN from : Forward(from[c], to[c])
    /\ Cardinality(Running(to)) <= Limit

\* The canaries and the targets never move in the same report.
RollCanaries ==
    /\ canaryStage' \in [Canaries -> Stages]
    /\ Moves(canaryStage, canaryStage')
    /\ UNCHANGED targetStage

RollTargets ==
    /\ AllDone(canaryStage)
    /\ targetStage' \in [Targets -> Stages]
    /\ Moves(targetStage, targetStage')
    /\ UNCHANGED canaryStage

Announce ==
    /\ announced' \in {announced, TRUE}
    /\ announced' => AllDone(targetStage')

Next == (RollCanaries \/ RollTargets) /\ Announce

Spec == Init /\ [][Next]_vars

=============================================================================
