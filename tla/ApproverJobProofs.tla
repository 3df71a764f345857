------------------------- MODULE ApproverJobProofs -------------------------
(***************************************************************************)
(* The safety properties of the installplan-approver job, for every set of *)
(* operators, every selection and every value of the bounds.               *)
(***************************************************************************)
EXTENDS ApproverJob, TLAPS

\* What a subscription names covers it, and so does what the script is about
\* to approve for it.
Covered ==
    /\ \A o \in Operator : ref[o] # 0 => o \in plans[ref[o]]
    /\ pc = "patch" => plan # 0 /\ \E o \in plans[plan] : Chosen(o)

\* How far a sweep has come with what it found at its start.
SweepProgress ==
    /\ pc = "waiting" => todo = {}
    /\ \A o \in Operator :
          (Chosen(o) /\ noted[o] # 0) =>
              \/ pc # "head" /\ o \in todo
              \/ pc = "patch" /\ plan = noted[o]
              \/ noted[o] \in approved \cup lost
              \/ ref[o] # noted[o]

\* The script looks at its time as long as it has some and, while it is
\* prompt, often.
Timely ==
    /\ since < started + WaitTime
    /\ slow \/ pc = "waiting" \/ clock <= since + SweepTime

IInv ==
    /\ TypeOK
    /\ Covered
    /\ OnlyChosenApproved
    /\ SweepProgress
    /\ Timely
    /\ FailsForAReason

-----------------------------------------------------------------------------
(* Types.                                                                  *)

LEMMA GraceType == Grace \in Nat /\ DeadLine \in Nat /\ DeadLine = WaitTime + Grace
  BY ConstantsAssumption DEF Grace, DeadLine

\* The two halves of TypeOK: the plans, and the script and its Job.
PlansTypeOK ==
    /\ selection \in Selections
    /\ subscribed \subseteq Operator
    /\ plans \in Seq(SUBSET Operator)
    /\ Len(plans) <= MaxPlans
    /\ ref \in [Operator -> 0 .. Len(plans)]
    /\ approved \subseteq 1 .. Len(plans)
    /\ plan \in 0 .. Len(plans)
    /\ noted \in [Operator -> 0 .. Len(plans)]
    /\ lost \subseteq 1 .. Len(plans)

ScriptTypeOK ==
    /\ clock \in 0 .. DeadLine
    /\ job \in {"active", "succeeded", "failed"}
    /\ started \in 0 .. clock
    /\ pc \in {"waiting", "head", "next", "patch"}
    /\ todo \subseteq subscribed
    /\ pc = "patch" => plan # 0
    /\ since \in started .. clock
    /\ failing \in BOOLEAN
    /\ slow \in BOOLEAN
    /\ faults \in 0 .. MaxFaults

\* Together they say what TypeOK says.
LEMMA TypeOKHalves == TypeOK <=> PlansTypeOK /\ ScriptTypeOK
  BY DEF TypeOK, PlansTypeOK, ScriptTypeOK

\* A fault is counted within its bound.
LEMMA FaultsType == TypeOK /\ Fault => faults' \in 0 .. MaxFaults
  BY ConstantsAssumption DEF TypeOK, Fault

LEMMA TypeOKInit == Init => TypeOK
<1> SUFFICES ASSUME Init PROVE TypeOK
  OBVIOUS
<1>1. PICK covered \in SUBSET subscribed :
        /\ plans = IF covered = {} THEN <<>> ELSE <<covered>>
        /\ ref = [o \in Operator |-> IF o \in covered THEN 1 ELSE 0]
  BY DEF Init
<1>2. /\ plans \in Seq(SUBSET Operator)
      /\ covered = {} => Len(plans) = 0
      /\ covered # {} => Len(plans) = 1
  <2>1. covered \in SUBSET Operator
    BY DEF Init
  <2>2. CASE covered = {}
    BY <1>1, <2>2
  <2>3. CASE covered # {}
    <3>1. plans = <<covered>>
      BY <1>1, <2>3
    <3>2. QED
      BY <2>1, <2>3, <3>1
  <2>4. QED
    BY <2>2, <2>3
<1>3. ref \in [Operator -> 0 .. Len(plans)]
  BY <1>1, <1>2
<1>4. Len(plans) \in Nat /\ Len(plans) <= MaxPlans
  <2>1. MaxPlans \in Nat /\ 1 <= MaxPlans
    BY ConstantsAssumption
  <2>2. Len(plans) = 0 \/ Len(plans) = 1
    BY <1>2
  <2>3. \A n \in {0, 1} : n \in Nat /\ n <= MaxPlans
    BY <2>1
  <2>4. QED
    BY <2>2, <2>3, Zenon
<1>5. noted \in [Operator -> 0 .. Len(plans)]
  BY <1>4 DEF Init
<1>6. faults \in 0 .. MaxFaults
  BY ConstantsAssumption DEF Init
<1>7. /\ clock \in 0 .. DeadLine
      /\ since \in started .. clock
      /\ started \in 0 .. clock
      /\ plan \in 0 .. Len(plans)
      /\ approved \subseteq 1 .. Len(plans)
  BY <1>4, GraceType, ConstantsAssumption DEF Init
<1>8. QED
  BY <1>2, <1>3, <1>4, <1>5, <1>6, <1>7 DEF Init, TypeOK

LEMMA PlansTypeOKNext == TypeOK /\ [Next]_vars => PlansTypeOK'
<1> SUFFICES ASSUME TypeOK, PlansTypeOK, [Next]_vars PROVE PlansTypeOK'
  BY TypeOKHalves
<1>0. Len(plans) \in Nat
  BY DEF PlansTypeOK
<1>1. CASE Sweep \/ SweepFails
  <2>1. noted' \in [Operator -> 0 .. Len(plans)]
    BY <1>0, <1>1 DEF Sweep, SweepFails, PlansTypeOK
  <2>2. QED
    BY <1>1, <2>1 DEF Sweep, SweepFails, PlansTypeOK, olm
<1>2. ASSUME NEW o \in Operator, ReadFails(o) PROVE PlansTypeOK'
  <2>1. ref[o] \in 1 .. Len(plans)
    BY <1>0, <1>2 DEF ReadFails, Pending, PlansTypeOK
  <2>2. lost' \subseteq 1 .. Len(plans)
    BY <1>2, <2>1 DEF ReadFails, PlansTypeOK
  <2>3. QED
    BY <1>2, <2>2 DEF ReadFails, PlansTypeOK, olm
<1>3. ASSUME NEW o \in Operator, Look(o) PROVE PlansTypeOK'
  BY <1>3 DEF Look, PlansTypeOK, olm
<1>4. CASE Patch
  <2>1. plan \in 1 .. Len(plans)
    BY <1>0, <1>4 DEF Patch, TypeOK
  <2>2. approved' \subseteq 1 .. Len(plans)
    BY <1>4, <2>1 DEF Patch, PlansTypeOK
  <2>3. plan' \in 0 .. Len(plans)
    BY <1>0, <1>4 DEF Patch
  <2>4. QED
    BY <1>4, <2>2, <2>3 DEF Patch, PlansTypeOK, olm
<1>5. CASE PatchFails
  <2>1. plan \in 1 .. Len(plans)
    BY <1>0, <1>5 DEF PatchFails, TypeOK
  <2>2. lost' \subseteq 1 .. Len(plans)
    BY <1>5, <2>1 DEF PatchFails, PlansTypeOK
  <2>3. plan' \in 0 .. Len(plans)
    BY <1>0, <1>5 DEF PatchFails
  <2>4. QED
    BY <1>5, <2>2, <2>3 DEF PatchFails, PlansTypeOK, olm
<1>6. CASE ContainerFails \/ FinishFails
  <2>1. plan' \in 0 .. Len(plans) /\ noted' \in [Operator -> 0 .. Len(plans)]
    BY <1>0, <1>6 DEF ContainerFails, FinishFails, StartAgain
  <2>2. QED
    BY <1>6, <2>1 DEF ContainerFails, FinishFails, StartAgain, PlansTypeOK, olm
<1>7. ASSUME NEW o \in Operator, Subscribe(o) PROVE PlansTypeOK'
  BY <1>7 DEF Subscribe, PlansTypeOK, script
<1>8. ASSUME NEW covered \in SUBSET subscribed, NewPlan(covered) PROVE PlansTypeOK'
  <2>1. /\ plans' \in Seq(SUBSET Operator)
        /\ Len(plans') = Len(plans) + 1
    BY <1>8 DEF NewPlan, PlansTypeOK
  <2>2. ref' \in [Operator -> 0 .. Len(plans')]
    BY <1>0, <1>8, <2>1 DEF NewPlan, PlansTypeOK
  <2>3. Len(plans') <= MaxPlans
    BY <1>0, <1>8, <2>1, ConstantsAssumption DEF NewPlan, PlansTypeOK
  <2>4. /\ noted \in [Operator -> 0 .. Len(plans')]
        /\ plan \in 0 .. Len(plans')
        /\ lost \subseteq 1 .. Len(plans') /\ approved \subseteq 1 .. Len(plans')
    BY <1>0, <2>1 DEF PlansTypeOK
  <2>5. QED
    BY <1>8, <2>1, <2>2, <2>3, <2>4 DEF NewPlan, PlansTypeOK, script
<1>9. CASE UNCHANGED <<selection, olm, approved, plan, noted, lost>>
  BY <1>9 DEF olm, PlansTypeOK
<1> QED
  BY <1>1, <1>2, <1>3, <1>4, <1>5, <1>6, <1>7, <1>8, <1>9
     DEF Next, Script, EndSweep, Skip, Finish, ContainerStarts, Tick, DeadlinePasses,
         vars, script

LEMMA ScriptTypeOKNext == TypeOK /\ [Next]_vars => ScriptTypeOK'
<1> SUFFICES ASSUME TypeOK, ScriptTypeOK, [Next]_vars PROVE ScriptTypeOK'
  BY TypeOKHalves
<1>0. /\ clock \in Nat /\ since \in Nat /\ started \in Nat /\ DeadLine \in Nat
      /\ started <= since /\ since <= clock /\ clock <= DeadLine
  BY GraceType DEF ScriptTypeOK
<1>1. CASE Sweep \/ SweepFails
  <2>1. clock' \in 0 .. DeadLine /\ started' \in 0 .. clock' /\ since' \in started' .. clock'
    BY <1>0, <1>1 DEF Sweep, SweepFails
  <2>2. faults' \in 0 .. MaxFaults
    BY <1>1, FaultsType DEF Sweep, SweepFails, ScriptTypeOK
  <2>3. QED
    BY <1>1, <2>1, <2>2 DEF Sweep, SweepFails, ScriptTypeOK, olm
<1>2. CASE ContainerStarts
  <2>1. clock' \in 0 .. DeadLine /\ started' \in 0 .. clock' /\ since' \in started' .. clock'
    BY <1>0, <1>2 DEF ContainerStarts
  <2>2. QED
    BY <1>2, <2>1 DEF ContainerStarts, ScriptTypeOK, olm
<1>3. CASE Tick
  <2>1. clock' \in 0 .. DeadLine /\ started' \in 0 .. clock' /\ since' \in started' .. clock'
    BY <1>0, <1>3 DEF Tick, script
  <2>2. slow' \in BOOLEAN
    BY <1>3 DEF Tick
  <2>3. QED
    BY <1>3, <2>1, <2>2 DEF Tick, ScriptTypeOK, olm, script
<1>4. ASSUME NEW o \in Operator, Skip(o) PROVE ScriptTypeOK'
  BY <1>4 DEF Skip, ScriptTypeOK, olm
<1>5. ASSUME NEW o \in Operator, ReadFails(o) PROVE ScriptTypeOK'
  BY <1>5, FaultsType DEF ReadFails, ScriptTypeOK, olm
<1>6. ASSUME NEW o \in Operator, Look(o) PROVE ScriptTypeOK'
  BY <1>6 DEF Look, Pending, ScriptTypeOK, olm
<1>7. CASE Patch \/ EndSweep
  BY <1>7 DEF Patch, EndSweep, ScriptTypeOK, olm
<1>8. CASE PatchFails
  BY <1>8, FaultsType DEF PatchFails, ScriptTypeOK, olm
<1>9. CASE ContainerFails \/ FinishFails
  <2>1. faults' \in 0 .. MaxFaults
    BY <1>9, FaultsType DEF ContainerFails, FinishFails, ScriptTypeOK
  <2>2. QED
    BY <1>9, <2>1 DEF ContainerFails, FinishFails, StartAgain, ScriptTypeOK, olm
<1>10. CASE Finish \/ DeadlinePasses
  BY <1>10 DEF Finish, DeadlinePasses, ScriptTypeOK, olm, script
<1>11. ASSUME NEW o \in Operator, Subscribe(o) PROVE ScriptTypeOK'
  BY <1>11 DEF Subscribe, ScriptTypeOK, script
<1>12. CASE UNCHANGED <<clock, job, subscribed, script, slow, faults>>
  BY <1>12 DEF script, ScriptTypeOK
<1> QED
  BY <1>1, <1>2, <1>3, <1>4, <1>5, <1>6, <1>7, <1>8, <1>9, <1>10, <1>11, <1>12
     DEF Next, Script, NewPlan, vars, olm

LEMMA TypeOKNext == TypeOK /\ [Next]_vars => TypeOK'
<1> SUFFICES ASSUME TypeOK, [Next]_vars PROVE TypeOK'
  OBVIOUS
<1>1. PlansTypeOK' /\ ScriptTypeOK'
  BY PlansTypeOKNext, ScriptTypeOKNext
<1>2. QED
  BY <1>1 DEF TypeOK, PlansTypeOK, ScriptTypeOK

-----------------------------------------------------------------------------
(* What is approved.                                                       *)

LEMMA CoveredNext == TypeOK /\ Covered /\ [Next]_vars => Covered'
<1> SUFFICES ASSUME TypeOK, Covered, [Next]_vars PROVE Covered'
  OBVIOUS
<1>1. CASE Sweep
  BY <1>1 DEF Sweep, Covered, Chosen, Matches, olm
<1>2. CASE EndSweep
  BY <1>2 DEF EndSweep, Covered, olm
<1>3. CASE Finish
  BY <1>3 DEF Finish, Covered, Chosen, Matches, olm, script
<1>4. ASSUME NEW o \in Operator, Skip(o) PROVE Covered'
  BY <1>4 DEF Skip, Covered, olm
<1>5. ASSUME NEW o \in Operator, Look(o) PROVE Covered'
  <2>1. selection' = selection /\ plans' = plans /\ ref' = ref /\ plan' = ref[o]
    BY <1>5 DEF Look, olm
  <2>2. Chosen(o) /\ ref[o] # 0 /\ o \in plans[ref[o]]
    BY <1>5 DEF Look, Pending, Covered
  <2>3. ref[o] \in 1 .. Len(plans) /\ plans[ref[o]] \subseteq Operator
    BY <2>2 DEF TypeOK
  <2>4. QED
    BY <2>1, <2>2, <2>3 DEF Covered, Chosen, Matches
<1>6. CASE Patch
  BY <1>6 DEF Patch, Covered, olm
<1>7. CASE PatchFails
  BY <1>7 DEF PatchFails, Covered, olm
<1>8. CASE ContainerFails
  BY <1>8 DEF ContainerFails, StartAgain, Covered, olm
<1>9. CASE Tick
  BY <1>9 DEF Tick, Covered, Chosen, Matches, olm, script
<1>10. CASE DeadlinePasses
  BY <1>10 DEF DeadlinePasses, Covered, Chosen, Matches, olm, script
<1>11. ASSUME NEW o \in Operator, Subscribe(o) PROVE Covered'
  BY <1>11 DEF Subscribe, Covered, Chosen, Matches, script
<1>12. ASSUME NEW covered \in SUBSET subscribed, NewPlan(covered) PROVE Covered'
  <2>1. /\ selection' = selection /\ pc' = pc /\ plan' = plan
        /\ plans' = Append(plans, covered)
        /\ ref' = [o \in Operator |-> IF o \in covered THEN Len(plans) + 1 ELSE ref[o]]
    BY <1>12 DEF NewPlan, script
  <2>2. /\ Len(plans) \in Nat
        /\ plans'[Len(plans) + 1] = covered
        /\ \A p \in 1 .. Len(plans) : plans'[p] = plans[p]
    BY <2>1 DEF TypeOK
  <2>3. \A o \in Operator : ref'[o] # 0 => o \in plans'[ref'[o]]
    BY <2>1, <2>2 DEF TypeOK, Covered
  <2>4. pc' = "patch" => plan' # 0 /\ plans'[plan'] = plans[plan]
    BY <2>1, <2>2 DEF TypeOK, Covered
  <2>5. QED
    BY <2>1, <2>3, <2>4 DEF Covered, Chosen, Matches
<1>13. CASE SweepFails
  BY <1>13 DEF SweepFails, Covered, olm
<1>14. ASSUME NEW o \in Operator, ReadFails(o) PROVE Covered'
  BY <1>14 DEF ReadFails, Covered, olm
<1>15. CASE FinishFails
  BY <1>15 DEF FinishFails, StartAgain, Covered, olm
<1>16. CASE ContainerStarts
  BY <1>16 DEF ContainerStarts, Covered, olm
<1>17. CASE UNCHANGED vars
  BY <1>17 DEF vars, olm, script, Covered, Chosen, Matches
<1> QED
  BY <1>1, <1>2, <1>3, <1>4, <1>5, <1>6, <1>7, <1>8, <1>9, <1>10, <1>11, <1>12, <1>13,
     <1>14, <1>15, <1>16, <1>17
     DEF Next, Script

LEMMA OnlyChosenApprovedNext ==
    TypeOK /\ Covered /\ OnlyChosenApproved /\ [Next]_vars => OnlyChosenApproved'
<1> SUFFICES ASSUME TypeOK, Covered, OnlyChosenApproved, [Next]_vars
             PROVE  OnlyChosenApproved'
  OBVIOUS
<1>1. CASE Patch
  BY <1>1 DEF Patch, Covered, OnlyChosenApproved, Chosen, Matches, olm
<1>2. ASSUME NEW covered \in SUBSET subscribed, NewPlan(covered) PROVE OnlyChosenApproved'
  <2>1. \A p \in approved : plans'[p] = plans[p]
    BY <1>2 DEF NewPlan, TypeOK
  <2>2. approved' = approved /\ selection' = selection
    BY <1>2 DEF NewPlan
  <2>3. QED
    BY <2>1, <2>2 DEF OnlyChosenApproved, Chosen, Matches
<1>3. CASE UNCHANGED <<approved, selection, plans>>
  BY <1>3 DEF OnlyChosenApproved, Chosen, Matches
<1>4. QED
  BY <1>1, <1>2, <1>3
     DEF Next, Script, Sweep, SweepFails, EndSweep, Finish, FinishFails, Skip, ReadFails,
         Look, PatchFails, ContainerStarts, ContainerFails, StartAgain, Tick,
         DeadlinePasses, Subscribe, vars, olm, script

LEMMA SweepProgressNext ==
    TypeOK /\ SweepProgress /\ [Next]_vars => SweepProgress'
<1> SUFFICES ASSUME TypeOK, SweepProgress, [Next]_vars PROVE SweepProgress'
  OBVIOUS
<1>1. CASE Sweep
  BY <1>1 DEF Sweep, SweepProgress, TypeOK
<1>2. CASE EndSweep
  BY <1>2 DEF EndSweep, SweepProgress, Chosen, Matches, olm
<1>3. CASE Finish
  BY <1>3 DEF Finish, SweepProgress, Chosen, Matches, olm, script
<1>4. ASSUME NEW o \in Operator, Skip(o) PROVE SweepProgress'
  BY <1>4 DEF Skip, Pending, SweepProgress, Chosen, Matches, olm
<1>5. ASSUME NEW o \in Operator, Look(o) PROVE SweepProgress'
  BY <1>5 DEF Look, Pending, SweepProgress, Chosen, Matches, olm
<1>6. CASE Patch
  BY <1>6 DEF Patch, SweepProgress, Chosen, Matches, olm
<1>7. CASE PatchFails
  BY <1>7 DEF PatchFails, SweepProgress, Chosen, Matches, olm
<1>8. CASE ContainerFails
  BY <1>8 DEF ContainerFails, StartAgain, SweepProgress
<1>9. CASE Tick
  BY <1>9 DEF Tick, SweepProgress, Chosen, Matches, olm, script
<1>10. CASE DeadlinePasses
  BY <1>10 DEF DeadlinePasses, SweepProgress, Chosen, Matches, olm, script
<1>11. ASSUME NEW o \in Operator, Subscribe(o) PROVE SweepProgress'
  BY <1>11 DEF Subscribe, SweepProgress, Chosen, Matches, script
<1>12. ASSUME NEW covered \in SUBSET subscribed, NewPlan(covered) PROVE SweepProgress'
  <2>1. \A o \in Operator : ref'[o] = ref[o] \/ ref'[o] = Len(plans) + 1
    BY <1>12 DEF NewPlan
  <2>2. \A o \in Operator : ref[o] # noted[o] => ref'[o] # noted[o]
    BY <1>12, <2>1 DEF NewPlan, TypeOK
  <2>3. \A o \in Operator : Chosen(o)' <=> Chosen(o)
    BY <1>12 DEF NewPlan, Chosen, Matches
  <2>4. UNCHANGED <<lost, noted, pc, todo, plan, approved>>
    BY <1>12 DEF NewPlan, script
  <2>5. QED
    BY <2>2, <2>3, <2>4 DEF SweepProgress
<1>13. CASE SweepFails
  BY <1>13 DEF SweepFails, SweepProgress
<1>14. ASSUME NEW o \in Operator, ReadFails(o) PROVE SweepProgress'
  BY <1>14 DEF ReadFails, SweepProgress, Chosen, Matches, olm
<1>15. CASE FinishFails
  BY <1>15 DEF FinishFails, StartAgain, SweepProgress
<1>16. CASE ContainerStarts
  <2>1. /\ \A o \in Operator : Chosen(o)' <=> Chosen(o)
        /\ pc = "waiting" /\ pc' = "head"
        /\ UNCHANGED <<noted, lost, plan, ref, approved>>
    BY <1>16 DEF ContainerStarts, Chosen, Matches, olm
  <2>2. QED
    BY <2>1 DEF SweepProgress
<1>17. CASE UNCHANGED vars
  BY <1>17 DEF vars, olm, script, SweepProgress, Chosen, Matches
<1> QED
  BY <1>1, <1>2, <1>3, <1>4, <1>5, <1>6, <1>7, <1>8, <1>9, <1>10, <1>11, <1>12, <1>13,
     <1>14, <1>15, <1>16, <1>17
     DEF Next, Script

-----------------------------------------------------------------------------
(* Why a job fails.                                                        *)

LEMMA TimelyNext == TypeOK /\ Timely /\ [Next]_vars => Timely'
<1> SUFFICES ASSUME TypeOK, Timely, [Next]_vars PROVE Timely'
  OBVIOUS
<1>0. /\ clock \in Nat /\ since \in Nat /\ started \in Nat
      /\ since <= clock /\ WaitTime \in Nat \ {0} /\ SweepTime \in Nat
  BY GraceType, ConstantsAssumption DEF TypeOK, Grace
<1>1. CASE Sweep \/ SweepFails
  <2>1. clock - started < WaitTime /\ since' = clock /\ clock' = clock /\ started' = started
    BY <1>1 DEF Sweep, SweepFails, Seconds
  <2>2. clock < started + WaitTime /\ clock <= clock + SweepTime
    BY <1>0, <2>1
  <2>3. QED
    BY <2>1, <2>2 DEF Timely
<1>2. CASE ContainerStarts
  <2>1. since' = clock /\ clock' = clock /\ started' = clock
    BY <1>2 DEF ContainerStarts
  <2>2. clock < clock + WaitTime /\ clock <= clock + SweepTime
    BY <1>0
  <2>3. QED
    BY <2>1, <2>2 DEF Timely
<1>3. CASE ContainerFails \/ FinishFails
  BY <1>3 DEF ContainerFails, FinishFails, StartAgain, Timely
<1>4. CASE Tick
  <2>1. clock' = clock + 1 /\ UNCHANGED <<pc, started, since>>
    BY <1>4 DEF Tick, script
  <2>2. CASE slow'
    BY <2>1, <2>2 DEF Timely
  <2>3. CASE pc = "waiting"
    BY <2>1, <2>3 DEF Timely
  <2>4. CASE ~slow' /\ pc # "waiting"
    <3>1. ~(clock' - since > SweepTime)
      BY <1>4, <2>4 DEF Tick
    <3>2. clock' <= since + SweepTime
      BY <1>0, <2>1, <3>1
    <3>3. QED
      BY <2>1, <3>2 DEF Timely
  <2>5. QED
    BY <2>2, <2>3, <2>4
<1>5. CASE UNCHANGED <<clock, started, since, slow>> /\ (pc = "waiting" => pc' = "waiting")
  BY <1>5 DEF Timely
<1>6. QED
  BY <1>1, <1>2, <1>3, <1>4, <1>5
     DEF Next, Script, EndSweep, Finish, Skip, ReadFails, Look, Patch, PatchFails,
         DeadlinePasses, Subscribe, NewPlan, vars, script

LEMMA FailsForAReasonNext ==
    TypeOK /\ Timely /\ FailsForAReason /\ [Next]_vars => FailsForAReason'
<1> SUFFICES ASSUME TypeOK, Timely, FailsForAReason, [Next]_vars
             PROVE  FailsForAReason'
  OBVIOUS
<1>1. CASE DeadlinePasses
  <2>1. clock = WaitTime + Grace /\ UNCHANGED <<slow, pc, started>>
    BY <1>1, GraceType DEF DeadlinePasses, script
  <2>2. CASE slow \/ pc = "waiting"
    BY <2>1, <2>2 DEF FailsForAReason
  <2>3. CASE ~(slow \/ pc = "waiting")
    <3>1. since < started + WaitTime /\ clock <= since + SweepTime
      BY <2>3 DEF Timely
    <3>2. SweepTime \in Nat /\ WaitTime \in Nat /\ Grace \in Nat
      BY ConstantsAssumption DEF Grace
    <3>3. since \in Nat /\ started \in Nat
      BY GraceType DEF TypeOK
    <3>4. started + SweepTime > Grace
      BY <2>1, <3>1, <3>2, <3>3
    <3>5. QED
      BY <2>1, <3>4 DEF FailsForAReason
  <2>4. QED
    BY <2>2, <2>3
<1>2. CASE Finish
  BY <1>2 DEF Finish, FailsForAReason
<1>3. CASE UNCHANGED vars
  BY <1>3 DEF vars, script, FailsForAReason
<1>4. CASE job = "active" /\ job' = job
  BY <1>4 DEF FailsForAReason
<1>5. QED
  BY <1>1, <1>2, <1>3, <1>4
     DEF Next, Script, Sweep, SweepFails, EndSweep, Skip, ReadFails, Look, Patch, PatchFails,
         FinishFails, ContainerStarts, ContainerFails, StartAgain, Tick, Subscribe, NewPlan

-----------------------------------------------------------------------------

LEMMA IInvInit == Init => IInv
<1> SUFFICES ASSUME Init PROVE IInv
  OBVIOUS
<1>1. TypeOK
  BY TypeOKInit
<1>2. Covered
  <2>1. PICK covered \in SUBSET subscribed :
          /\ plans = IF covered = {} THEN <<>> ELSE <<covered>>
          /\ ref = [o \in Operator |-> IF o \in covered THEN 1 ELSE 0]
    BY DEF Init
  <2>2. ASSUME NEW o \in Operator, ref[o] # 0 PROVE o \in plans[ref[o]]
    <3>1. o \in covered /\ ref[o] = 1
      BY <2>1, <2>2
    <3>2. plans = <<covered>>
      BY <2>1, <3>1
    <3>3. QED
      BY <3>1, <3>2
  <2>3. QED
    BY <2>2 DEF Init, Covered
<1>3. OnlyChosenApproved
  BY DEF Init, OnlyChosenApproved
<1>4. SweepProgress
  BY DEF Init, SweepProgress
<1>5. Timely
  BY ConstantsAssumption DEF Init, Timely
<1>6. FailsForAReason
  BY DEF Init, FailsForAReason
<1>7. QED
  BY <1>1, <1>2, <1>3, <1>4, <1>5, <1>6 DEF IInv

LEMMA IInvNext == IInv /\ [Next]_vars => IInv'
  BY TypeOKNext, CoveredNext, OnlyChosenApprovedNext, SweepProgressNext, TimelyNext,
     FailsForAReasonNext
     DEF IInv

LEMMA Invariance == Spec => []IInv
  BY IInvInit, IInvNext, PTL DEF Spec

\* The lists, plans, clocks and the script of the job keep their types.
THEOREM JobTypeOK == Spec => []TypeOK
<1>1. IInv => TypeOK
  BY DEF IInv
<1>2. QED
  BY <1>1, Invariance, PTL

\* The job never approves an install plan that covers no operator its script
\* chooses, although OLM may replace the plan of a subscription at any time.
\* The script chooses by the last entry of each list only.
THEOREM JobApprovesChosenOnly == Spec => []OnlyChosenApproved
<1>1. IInv => OnlyChosenApproved
  BY DEF IInv
<1>2. QED
  BY <1>1, Invariance, PTL

\* A sweep that is over has left no install plan of a chosen subscription
\* that it saw at its start and that still stands, unless a read or the patch
\* of that very plan failed in it; a sweep whose list failed saw none.
THEOREM JobSweepApproves == Spec => []SweepApproves
<1>1. IInv => SweepApproves
  BY DEF IInv, SweepProgress, SweepApproves
<1>2. QED
  BY <1>1, Invariance, PTL

\* The job fails at its deadline only when a sweep has hung, its container
\* was not running, or its last container started so late that the rest of
\* the 90 seconds held no sweep, for every timeout and whatever commands and
\* containers failed, the patch that ends the script included.
THEOREM JobFailsForAReason == Spec => []FailsForAReason
<1>1. IInv => FailsForAReason
  BY DEF IInv
<1>2. QED
  BY <1>1, Invariance, PTL

=============================================================================
