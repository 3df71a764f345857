---------------------------- MODULE ApproverJob ----------------------------
(***************************************************************************)
(* The installplan-approver job that an operators upgrade runs on a        *)
(* managed cluster: the Job getInstallPlanApproverJob builds and its       *)
(* script (controllers/utils/manifestWork_utils.go), beside the operator   *)
(* lifecycle manager (OLM), which makes install plans at any time.         *)
(*                                                                         *)
(* The script sweeps over the subscriptions until its time is over.  It    *)
(* looks at a subscription's install plan in one step and approves it in   *)
(* the next; OLM and the clock act between any two steps.  No command of   *)
(* it is checked: where the list of subscriptions or a read fails, it goes *)
(* on, and it exits with the status of the last command of its last sweep. *)
(*                                                                         *)
(* A definition whose name starts with Bug is the definition after it with *)
(* a plausible mistake; nothing refers to it.                              *)
(***************************************************************************)
EXTENDS Naturals, Sequences, FiniteSets

CONSTANTS
    Operator,     \* the operators, by the "name,namespace" of a subscription
    PartOf,       \* pairs: the text of the first is part of that of the second
    Selections,   \* the include and exclude lists a spec may have
    WaitTime,     \* the timeout of the operators upgrade
    SweepTime,    \* the time a prompt sweep takes
    MaxPlans,     \* bound: install plans in a behaviour
    MaxFaults     \* bound: commands and containers that fail in a behaviour

\* The 90 seconds by which the deadline exceeds the timeout, in the unit of
\* WaitTime and SweepTime (30 seconds).
Grace == 3

ASSUME ConstantsAssumption ==
    /\ \A o \in Operator : <<o, o>> \in PartOf
    /\ \A selection \in Selections :
          selection.include \in Seq(Operator) /\ selection.exclude \in Seq(Operator)
    /\ WaitTime \in Nat \ {0}
    /\ SweepTime \in 1 .. Grace
    /\ MaxPlans \in Nat \ {0}
    \* Kubernetes gives a Job up at its sixth restart (backoffLimit, which
    \* the code leaves at its default).
    /\ MaxFaults \in 0 .. 5

BugDeadLine == WaitTime

DeadLine == WaitTime + Grace

VARIABLES
    selection,   \* the lists of the spec
    subscribed,  \* the operators that have a subscription
    plans,       \* the install plans: the operators each one covers
    ref,         \* status.installPlanRef of a subscription, 0 for none
    approved,    \* the install plans that are approved
    clock,       \* the time since the job started
    job,         \* the job: active, succeeded or failed
    started,     \* when the container started
    pc,          \* what the script does next; waiting for its container
    todo,        \* the subscriptions of the sweep it has not looked at
    plan,        \* the install plan it is to approve
    since,       \* when it last looked at its time
    failing,     \* the last command it ran has failed
    noted,       \* ghost: the install plans at the start of the last sweep
    lost,        \* ghost: the install plans a read or patch of the sweep failed for
    slow,        \* ghost: a sweep took longer than SweepTime
    faults       \* the commands and the containers that have failed

olm == <<subscribed, plans, ref>>
script == <<started, pc, todo, plan, since, failing, noted, lost>>
vars == <<selection, olm, approved, clock, job, script, slow, faults>>

\* The lists, plans, clocks and the script are in one of their states.
TypeOK ==
    /\ selection \in Selections
    /\ subscribed \subseteq Operator
    /\ plans \in Seq(SUBSET Operator)
    /\ Len(plans) <= MaxPlans
    /\ ref \in [Operator -> 0 .. Len(plans)]
    /\ approved \subseteq 1 .. Len(plans)
    /\ clock \in 0 .. DeadLine
    /\ job \in {"active", "succeeded", "failed"}
    /\ started \in 0 .. clock
    /\ pc \in {"waiting", "head", "next", "patch"}
    /\ todo \subseteq subscribed
    /\ plan \in 0 .. Len(plans)
    /\ pc = "patch" => plan # 0
    /\ since \in started .. clock
    /\ failing \in BOOLEAN
    /\ noted \in [Operator -> 0 .. Len(plans)]
    /\ lost \subseteq 1 .. Len(plans)
    /\ slow \in BOOLEAN
    /\ faults \in 0 .. MaxFaults

Init ==
    /\ selection \in Selections
    /\ subscribed \in SUBSET Operator
    /\ \E covered \in SUBSET subscribed :
          /\ plans = IF covered = {} THEN <<>> ELSE <<covered>>
          /\ ref = [o \in Operator |-> IF o \in covered THEN 1 ELSE 0]
    /\ approved = {}
    /\ clock = 0
    /\ job = "active"
    /\ started = 0
    /\ pc = "waiting"
    /\ todo = {}
    /\ plan = 0
    /\ since = 0
    /\ failing = FALSE
    /\ noted = [o \in Operator |-> 0]
    /\ lost = {}
    /\ slow = FALSE
    /\ faults = 0

Fault == faults < MaxFaults /\ faults' = faults + 1

-----------------------------------------------------------------------------
(* The lists of the spec, as the job gets them.                            *)

\* Each entry of a list replaces the one before: the last one is left.
Kept(list) == IF list = <<>> THEN {} ELSE {list[Len(list)]}

\* [[ $LIST == *$subscription* ]]
Matches(o, list) == \E entry \in Kept(list) : <<o, entry>> \in PartOf

Chosen(o) ==
    /\ selection.include # <<>> => Matches(o, selection.include)
    /\ ~Matches(o, selection.exclude)

-----------------------------------------------------------------------------
(* The script.                                                             *)

Seconds == clock - started

BugSweep ==
    /\ job = "active"
    /\ pc = "head"
    /\ Seconds < WaitTime
    /\ todo' = {o \in Operator : Chosen(o)}
    /\ noted' = [o \in Operator |-> IF o \in subscribed THEN ref[o] ELSE 0]
    /\ lost' = {}
    /\ since' = clock
    /\ failing' = FALSE
    /\ pc' = "next"
    /\ UNCHANGED <<selection, olm, approved, clock, job, started, plan, slow, faults>>

\* while [ $SECONDS -lt $end ]: a sweep starts with the list of subscriptions.
Sweep ==
    /\ job = "active"
    /\ pc = "head"
    /\ Seconds < WaitTime
    /\ todo' = subscribed
    /\ noted' = [o \in Operator |-> IF o \in subscribed THEN ref[o] ELSE 0]
    /\ lost' = {}
    /\ since' = clock
    /\ failing' = FALSE
    /\ pc' = "next"
    /\ UNCHANGED <<selection, olm, approved, clock, job, started, plan, slow, faults>>

\* Where the list fails, the sweep is one over no subscriptions.
SweepFails ==
    /\ job = "active"
    /\ pc = "head"
    /\ Seconds < WaitTime
    /\ Fault
    /\ todo' = {}
    /\ noted' = [o \in Operator |-> 0]
    /\ lost' = {}
    /\ since' = clock
    /\ failing' = FALSE
    /\ pc' = "next"
    /\ UNCHANGED <<selection, olm, approved, clock, job, started, plan, slow>>

BugEndSweep ==
    /\ job = "active"
    /\ pc = "next"
    /\ todo = {} \/ Seconds >= WaitTime
    /\ pc' = "head"
    /\ todo' = {}
    /\ UNCHANGED <<selection, olm, approved, clock, job, started, plan, since, failing,
                   noted, lost, slow, faults>>

EndSweep ==
    /\ job = "active"
    /\ pc = "next"
    /\ todo = {}
    /\ pc' = "head"
    /\ UNCHANGED <<selection, olm, approved, clock, job, started, todo, plan, since, failing,
                   noted, lost, slow, faults>>

BugPending(o) == ref[o] # 0 /\ ref[o] \notin approved

Pending(o) == Chosen(o) /\ ref[o] # 0 /\ ref[o] \notin approved

\* The subscription is not chosen, has no install plan or an approved one.
Skip(o) ==
    /\ job = "active"
    /\ pc = "next"
    /\ o \in todo
    /\ ~Pending(o)
    /\ todo' = todo \ {o}
    /\ failing' = FALSE
    /\ UNCHANGED <<selection, olm, approved, clock, job, started, pc, plan, since,
                   noted, lost, slow, faults>>

\* Where one of its reads fails, it is taken to have an approved one.
ReadFails(o) ==
    /\ job = "active"
    /\ pc = "next"
    /\ o \in todo
    /\ Pending(o)
    /\ Fault
    /\ todo' = todo \ {o}
    /\ lost' = lost \cup {ref[o]}
    /\ failing' = FALSE
    /\ UNCHANGED <<selection, olm, approved, clock, job, started, pc, plan, since,
                   noted, slow>>

\* The install plan is read from the subscription, and is not approved.
Look(o) ==
    /\ job = "active"
    /\ pc = "next"
    /\ o \in todo
    /\ Pending(o)
    /\ todo' = todo \ {o}
    /\ plan' = ref[o]
    /\ pc' = "patch"
    /\ UNCHANGED <<selection, olm, approved, clock, job, started, since, failing,
                   noted, lost, slow, faults>>

Patch ==
    /\ job = "active"
    /\ pc = "patch"
    /\ approved' = approved \cup {plan}
    /\ plan' = 0
    /\ failing' = FALSE
    /\ pc' = "next"
    /\ UNCHANGED <<selection, olm, clock, job, started, todo, since, noted, lost, slow, faults>>

\* The script goes on with the next subscription.
PatchFails ==
    /\ job = "active"
    /\ pc = "patch"
    /\ Fault
    /\ lost' = lost \cup {plan}
    /\ plan' = 0
    /\ failing' = TRUE
    /\ pc' = "next"
    /\ UNCHANGED <<selection, olm, approved, clock, job, started, todo, since, noted, slow>>

\* Its time is over: the script exits with the status of its last command.
Finish ==
    /\ job = "active"
    /\ pc = "head"
    /\ Seconds >= WaitTime
    /\ ~failing
    /\ job' = "succeeded"
    /\ UNCHANGED <<selection, olm, approved, clock, script, slow, faults>>

-----------------------------------------------------------------------------
(* The Job.                                                                *)

\* restartPolicy OnFailure: the container will be started again.
StartAgain ==
    /\ pc' = "waiting"
    /\ todo' = {}
    /\ plan' = 0
    /\ failing' = FALSE
    /\ noted' = [o \in Operator |-> 0]
    /\ lost' = {}
    /\ UNCHANGED <<selection, olm, approved, clock, job, started, since, slow>>

FinishFails ==
    /\ job = "active"
    /\ pc = "head"
    /\ Seconds >= WaitTime
    /\ failing
    /\ faults' = faults
    /\ StartAgain

ContainerFails ==
    /\ job = "active"
    /\ pc # "waiting"
    /\ Fault
    /\ StartAgain

\* The image is there, or is pulled, and the script has all of its time.
ContainerStarts ==
    /\ job = "active"
    /\ pc = "waiting"
    /\ started' = clock
    /\ since' = clock
    /\ pc' = "head"
    /\ UNCHANGED <<selection, olm, approved, clock, job, todo, plan, failing,
                   noted, lost, slow, faults>>

Tick ==
    /\ job = "active"
    /\ clock < DeadLine
    /\ clock' = clock + 1
    /\ slow' = (slow \/ (pc # "waiting" /\ clock' - since > SweepTime))
    /\ UNCHANGED <<selection, olm, approved, job, script, faults>>

BugDeadlinePasses == FALSE /\ UNCHANGED vars

\* activeDeadlineSeconds
DeadlinePasses ==
    /\ job = "active"
    /\ clock = DeadLine
    /\ job' = "failed"
    /\ UNCHANGED <<selection, olm, approved, clock, script, slow, faults>>

-----------------------------------------------------------------------------
(* OLM and the users of the managed cluster.                               *)

\* A subscription is made; it has no install plan yet.
Subscribe(o) ==
    /\ job = "active"
    /\ o \notin subscribed
    /\ subscribed' = subscribed \cup {o}
    /\ UNCHANGED <<selection, plans, ref, approved, clock, job, script, slow, faults>>

\* OLM resolves the subscriptions anew; a plan may cover several of them.
NewPlan(covered) ==
    /\ job = "active"
    /\ Len(plans) < MaxPlans
    /\ plans' = Append(plans, covered)
    /\ ref' = [o \in Operator |-> IF o \in covered THEN Len(plans) + 1 ELSE ref[o]]
    /\ UNCHANGED <<selection, subscribed, approved, clock, job, script, slow, faults>>

-----------------------------------------------------------------------------

Script ==
    \/ Sweep \/ SweepFails \/ EndSweep
    \/ \E o \in Operator : Skip(o) \/ ReadFails(o) \/ Look(o)
    \/ Patch \/ PatchFails
    \/ Finish \/ FinishFails

Next ==
    \/ Script
    \/ ContainerStarts \/ ContainerFails \/ Tick \/ DeadlinePasses
    \/ \E o \in Operator : Subscribe(o)
    \/ \E covered \in SUBSET subscribed \ {{}} : NewPlan(covered)

Spec == Init /\ [][Next]_vars

(* Time passes and the job controller enforces the deadline; the script    *)
(* may hang.                                                               *)
Fairness == WF_vars(Tick) /\ WF_vars(DeadlinePasses)

FairSpec == Spec /\ Fairness

-----------------------------------------------------------------------------

\* The job patches only what the script chose by the lists it got, a chosen
\* subscription's plan, whatever OLM has made of the subscription since.  The
\* lists it got hold one entry each, and the plan may cover operators that
\* are not chosen beside the one that is: see ExcludedNotApproved.
OnlyChosenApproved ==
    \A p \in approved : \E o \in plans[p] : Chosen(o)

\* What the API says of the exclude list: "the selected operators to not
\* approve its installPlan" (managedclustersupgrade_types.go:83).
ExcludedNotApproved ==
    \A p \in approved : \A o \in plans[p] :
        \A i \in DOMAIN selection.exclude : o # selection.exclude[i]

\* When a sweep is over, the install plan each chosen subscription had at its
\* start is approved, or was replaced before the script came to it, or a read
\* or the patch of it failed in this very sweep; where the list failed, the
\* sweep has seen none.
SweepApproves ==
    pc = "head" =>
        \A o \in Operator :
            (Chosen(o) /\ noted[o] # 0) =>
                noted[o] \in approved \cup lost \/ ref[o] # noted[o]

\* The 90 seconds are enough (manifestWork_utils.go:478): a job that fails had
\* a sweep that hung, or was without a container in the end, or its last
\* container started too late for the rest of the 90 seconds to hold a sweep:
\* the image came late, or the script began anew because a container failed
\* or the last command of the one before, a patch, did.
FailsForAReason ==
    job = "failed" => slow \/ pc = "waiting" \/ started + SweepTime > Grace

\* The job ends, also when the script hangs.
JobEnds == <>(job # "active")

=============================================================================
