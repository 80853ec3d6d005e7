------------------------ MODULE CatalogOperatorProofs ------------------------
(***************************************************************************)
(* The catalog operator as a whole, on top of CatalogStepProofs: the       *)
(* creation of install plans, every step, and the theorems on types,       *)
(* generations, approval, complete plans, statuses of subscriptions that   *)
(* belong together, and the collection of old plans.                       *)
(***************************************************************************)
EXTENDS CatalogStepProofs, FiniteSetTheorems

-----------------------------------------------------------------------------
(* New plans and their statuses *)

\* MaxGeneration is at least every generation known, and older than the
\* first plan that is not created yet.
LEMMA NewGeneration ==
  ASSUME TypeInv, Born, SubsInv, NEW p \in Plans, plan[p].phase = "Unborn"
  PROVE  /\ MaxGeneration \in 0..(p - 1)
         /\ \A q \in Plans : Listed(plan[q]) => plan[q].gen <= MaxGeneration
<1> DEFINE S == {0} \cup {res.subs[s].gen : s \in Subs}
                    \cup {plan[q].gen : q \in {x \in Plans : Listed(plan[x])}}
<1>0. p \in Nat /\ p - 1 \in Nat /\ \A q \in Plans : q \in Nat /\ q >= 1
  BY ConstantsAssumption DEF Plans
<1>1. ASSUME NEW q \in Plans, plan[q].phase # "Unborn"
      PROVE  q <= p - 1 /\ plan[q].gen \in 0..(p - 1)
  <2>1. ~ (p < q) /\ q # p
    BY <1>1 DEF Born
  <2>2. plan[q].gen \in Nat
    BY LiveTypes, ConstantsAssumption DEF AllPlans, InstallPlan
  <2>3. plan[q].gen <= q
    BY <1>1 DEF Born
  <2> QED
    BY <1>0, <2>1, <2>2, <2>3
<1>2. ASSUME NEW s \in Subs
      PROVE  res.subs[s].gen \in 0..(p - 1)
  <2> DEFINE g == res.subs[s].gen
  <2>1. g = 0 \/ (g \in Plans /\ plan[g].phase # "Unborn")
    BY DEF SubsInv, ResOK, SubOK, BornGen
  <2> HIDE DEF g, S
  <2>2. CASE g = 0
    BY <1>0, <2>2 DEF g
  <2>3. CASE g \in Plans /\ plan[g].phase # "Unborn"
    <3>1. g <= p - 1 /\ g \in Nat
      BY <1>0, <1>1, <2>3
    <3>2. g \in 0..(p - 1)
      BY <1>0, <3>1
    <3> QED
      BY <3>2 DEF g
  <2> QED
    BY <2>1, <2>2, <2>3
<1>3. S \subseteq 0..(p - 1)
  <2>1. 0 \in 0..(p - 1)
    BY <1>0
  <2>2. {res.subs[s].gen : s \in Subs} \subseteq 0..(p - 1)
    BY <1>2
  <2>3. {plan[q].gen : q \in {x \in Plans : Listed(plan[x])}} \subseteq 0..(p - 1)
    BY <1>1 DEF Listed
  <2> QED
    BY <2>1, <2>2, <2>3
<1>4. MaxOf(S) \in S /\ \A y \in S : MaxOf(S) >= y
  <2>1. S # {}
    OBVIOUS
  <2> HIDE DEF S
  <2> QED
    BY <1>0, <1>3, <2>1, MaxOfIsMax
<1>5. MaxGeneration = MaxOf(S)
  BY DEF MaxGeneration
<1>6. \A q \in Plans : Listed(plan[q]) => plan[q].gen \in S
  OBVIOUS
<1> HIDE DEF S
<1> QED
  BY <1>0, <1>3, <1>4, <1>5, <1>6

\* The step that begets a plan.
LEMMA CreateInstallPlanKeeps ==
  ASSUME TypeInv, PlansInv, Born, UniqueGeneration, SubsInv, CreateInstallPlan
  PROVE  /\ TypeInv' /\ PlansInv' /\ Born' /\ UniqueGeneration' /\ SubsInv'
         /\ sub' = sub /\ csv' = csv
<1> DEFINE gen == MaxGeneration + 1
           new == [Unborn EXCEPT !.phase = "NoStatus", !.gen = gen,
                                 !.manual = (Manual # {}), !.approved = (Manual = {})]
<1>1. PICK p \in Plans :
        /\ plan[p].phase = "Unborn" /\ \A q \in 1..(p - 1) : plan[q].phase # "Unborn"
        /\ StorePlans([plan EXCEPT ![p] = new])
        /\ res' = [res EXCEPT !.at = "Created", !.plan = p]
  BY DEF CreateInstallPlan
<1>2. /\ res.at = "Resolved" /\ UNCHANGED <<head, subLog, csvLog, exec, faults>>
      /\ sub' = sub /\ csv' = csv
  BY DEF CreateInstallPlan, sub, csv
<1>3. MaxGeneration \in 0..(p - 1) /\ \A q \in Plans : Listed(plan[q]) => plan[q].gen <= MaxGeneration
  BY <1>1, NewGeneration
<1>4. /\ gen \in 1..p /\ gen \in 0..MaxPlans
      /\ \A q \in Plans : Listed(plan[q]) => plan[q].gen # gen
  <2>1. p \in 1..MaxPlans /\ MaxPlans \in Nat
    BY ConstantsAssumption DEF Plans
  <2>2. \A q \in Plans : plan[q].gen \in Nat
    BY LiveTypes, ConstantsAssumption DEF AllPlans, InstallPlan
  <2> QED
    BY <1>3, <2>1, <2>2
<1> HIDE DEF gen
<1>5. /\ new \in InstallPlan /\ new.phase = "NoStatus" /\ new.gen = gen
      /\ new.steps = {} /\ new.done = {}
  BY <1>4, ConstantTypes DEF InstallPlan, Unborn
<1> HIDE DEF new
<1>6. /\ [plan EXCEPT ![p] = new] \in AllPlans
      /\ \A q \in Plans : [plan EXCEPT ![p] = new][q] = IF q = p THEN new ELSE plan[q]
  BY <1>5, LiveTypes DEF AllPlans
<1>7. /\ LogOK(planLog', AllPlans, PlanLag) /\ OnlyNew(planLog', planLog, plan')
      /\ \A q \in Plans : plan'[q] = IF q = p THEN new ELSE plan[q]
  BY <1>1, <1>6, WritePlans
<1>8. \A q \in Plans : PlanOK(plan'[q], csv) /\ Later(plan[q], plan'[q])
  <2>1. \A q \in Plans : PlanOK(plan[q], csv) /\ Later(plan[q], plan[q])
    BY PlansNow DEF Later
  <2>2. plan[p] = Unborn
    BY <1>1, <2>1 DEF PlanOK
  <2>3. PlanOK(new, csv) /\ Later(plan[p], new)
    BY <1>5, <2>2 DEF PlanOK, Later, Unborn
  <2> QED
    BY <1>7, <2>1, <2>3
<1>9. /\ res' \in AllRes /\ res'.at = "Created" /\ res'.plan = p /\ res'.subs = res.subs
      /\ res'.updated = res.updated /\ res'.fresh = res.fresh /\ res'.steps = res.steps
  <2>1. p \in 0..MaxPlans /\ res \in AllRes /\ res' = [res EXCEPT !.at = "Created", !.plan = p]
    BY <1>1, ConstantsAssumption DEF TypeInv, Plans
  <2> QED
    BY <2>1 DEF AllRes
<1>10. TypeInv'
  BY <1>2, <1>7, <1>9 DEF TypeInv
<1>11. Grows(csv, csv') /\ \A s \in Subs : head[s] <= head'[s]
  BY <1>2 DEF Grows, TypeInv, Versions
<1>12. PlansInv'
  BY <1>2, <1>7, <1>8, <1>10, <1>11, PlansStep
<1>13. Born'
  <2>1. \A q \in Plans : q \in Nat /\ q >= 1
    BY ConstantsAssumption DEF Plans
  <2>2. ASSUME NEW q \in Plans, q < p PROVE plan[q].phase # "Unborn" /\ q # p
    BY <1>1, <2>1, <2>2
  <2>3. gen <= p
    BY <1>4
  <2>4. \A q \in Plans : plan[q].phase # "Unborn" => plan'[q].phase # "Unborn"
    BY <1>5, <1>7
  <2>5. ASSUME NEW q \in Plans, plan'[q].phase # "Unborn"
        PROVE  plan'[q].gen <= q /\ \A x \in Plans : x < q => plan'[x].phase # "Unborn"
    <3>1. CASE q = p
      BY <1>5, <1>7, <2>2, <2>3, <2>4, <3>1
    <3>2. CASE q # p
      <4>1. plan[q].phase # "Unborn" /\ plan'[q] = plan[q]
        BY <1>7, <2>5, <3>2
      <4> QED
        BY <2>4, <4>1 DEF Born
    <3> QED
      BY <3>1, <3>2
  <2> QED
    BY <2>5 DEF Born
<1>14. UniqueGeneration'
  <2>1. ASSUME NEW a \in Plans, NEW b \in Plans, Listed(plan'[a]), Listed(plan'[b]),
               plan'[a].gen = plan'[b].gen
        PROVE  a = b
    <3>1. CASE a # p /\ b # p
      BY <1>7, <2>1, <3>1 DEF UniqueGeneration
    <3>2. CASE a = p \/ b = p
      BY <1>4, <1>5, <1>7, <2>1, <3>2
    <3> QED
      BY <3>1, <3>2
  <2> QED
    BY <2>1 DEF UniqueGeneration
<1>15. SubsInv'
  <2>1. head \in [Subs -> Versions] /\ head' \in [Subs -> Versions]
    BY <1>10 DEF TypeInv
  <2>2. \A s \in Subs : SubOK(s, sub'[s], csv', plan', head')
    BY <1>2, <1>8, <1>11, <2>1, LiveTypes, SubStays DEF SubsInv, AllSubs
  <2>3. ResOK(res, sub', csv', plan', head')
    BY <1>2, <1>8, <1>10, <1>11, ResStays DEF SubsInv
  <2>4. ResOK(res', sub', csv', plan', head')
    BY <1>2, <1>5, <1>7, <1>9, <2>3 DEF ResOK
  <2> QED
    BY <2>2, <2>4 DEF SubsInv
<1> QED
  BY <1>2, <1>10, <1>12, <1>13, <1>14, <1>15

\* WritePlanStatus where the plan is still as it was created.
LEMMA PlanStatusWritten ==
  ASSUME TypeInv, PlansInv, Born, SubsInv, res.at = "Created",
         UNCHANGED <<head, subLog, csvLog, exec, faults>>, NEW p, p = res.plan,
         plan[p].phase = "NoStatus", plan[p].approved = ~ plan[p].manual,
         StorePlans([plan EXCEPT ![p].phase = IF plan[p].manual THEN "RequiresApproval"
                                              ELSE "Installing",
                                 ![p].steps = res.steps]),
         Write(Finished(p), Subs)
  PROVE  OneWay /\ SubsInv' /\ sub' = sub
<1> DEFINE phase == IF plan[p].manual THEN "RequiresApproval" ELSE "Installing"
           new == [plan[p] EXCEPT !.phase = phase, !.steps = res.steps]
<1>1. p \in Plans
  BY DEF SubsInv, ResOK
<1>2. plan[p] \in InstallPlan /\ PlanOK(plan[p], csv) /\ plan \in AllPlans /\ res.steps \in SUBSET Step
  BY <1>1, PlansNow, LiveTypes DEF TypeInv, AllRes
<1>3. /\ phase \in {"RequiresApproval", "Installing"}
      /\ phase = "Installing" => plan[p].approved
  BY <1>2 DEF InstallPlan
<1>4. StorePlans([plan EXCEPT ![p] = new])
  BY <1>1, <1>2 DEF AllPlans
<1> HIDE DEF phase
<1>5. /\ new \in InstallPlan /\ new.phase = phase /\ new.steps = res.steps
      /\ new.done = plan[p].done /\ new.approved = plan[p].approved /\ new.gen = plan[p].gen
  BY <1>2, <1>3 DEF InstallPlan
<1> HIDE DEF new
<1>6. PlanOK(new, csv) /\ Moved(plan[p], new)
  BY <1>2, <1>3, <1>5 DEF PlanOK, Moved, Later, Listed
<1>7. /\ [plan EXCEPT ![p] = new] \in AllPlans
      /\ \A q \in Plans : [plan EXCEPT ![p] = new][q] = IF q = p THEN new ELSE plan[q]
  BY <1>1, <1>2, <1>5 DEF AllPlans
<1>8. /\ LogOK(planLog', AllPlans, PlanLag) /\ OnlyNew(planLog', planLog, plan')
      /\ \A q \in Plans : plan'[q] = IF q = p THEN new ELSE plan[q]
  BY <1>4, <1>7, WritePlans
<1>9. \A q \in Plans : PlanOK(plan'[q], csv) /\ Moved(plan[q], plan'[q])
  <2>1. \A q \in Plans : PlanOK(plan[q], csv) /\ Moved(plan[q], plan[q])
    BY PlansNow DEF Moved, Later
  <2> QED
    BY <1>6, <1>8, <2>1
<1>10. csv' = csv /\ sub' = sub /\ head' = head /\ head \in [Subs -> Versions]
  BY DEF csv, sub, TypeInv
<1>11. Grows(csv, csv') /\ \A q \in Plans : Later(plan[q], plan'[q])
  BY <1>9, <1>10 DEF Grows, Moved
<1>12. \A s \in Subs : head[s] <= head'[s]
  BY <1>10 DEF Versions
<1>13. plan[p].gen \in 0..MaxPlans /\ BornGen(plan[p].gen, plan')
  <2>1. plan[p].gen \in 0..MaxPlans /\ plan[p].gen <= p /\ p \in Nat /\ MaxPlans \in Nat
    BY <1>1, <1>2, ConstantsAssumption DEF Born, InstallPlan, Plans
  <2>2. plan[p].gen # 0 => plan[p].gen \in Plans /\ (plan[p].gen = p \/ plan[p].gen < p)
    BY <2>1 DEF Plans
  <2>3. plan[p].gen # 0 => plan[plan[p].gen].phase # "Unborn"
    BY <1>1, <2>2 DEF Born
  <2> QED
    BY <1>11, <2>1, <2>2, <2>3 DEF BornGen, Later
<1>14. ASSUME NEW s \in Subs
       PROVE  /\ Finished(p)[s] \in Subscription /\ SubOK(s, Finished(p)[s], csv, plan', head)
              /\ Finished(p)[s].installed = sub[s].installed
  <2> DEFINE r == Finished(p)[s]
             f == res.fresh[s]
             g == plan[p].gen
  <2>1. CASE s \in res.updated
    <3>1. FreshOK(s, f, res.steps, sub, head) /\ f \in Subscription
      BY <2>1 DEF SubsInv, ResOK, TypeInv, AllRes, AllSubs
    <3>2. r = [f EXCEPT !.ref = p, !.gen = g, !.state = "UpgradePending",
                        !.conds = @ \ ResolutionFailed]
      BY <2>1 DEF Finished
    <3>3. plan'[p].steps = res.steps
      BY <1>1, <1>5, <1>8
    <3>4. g \in 0..MaxPlans /\ BornGen(g, plan')
      BY <1>13
    <3> DEFINE c == f.conds \ ResolutionFailed
    <3>5. /\ c \in SUBSET (PlanConds \cup ResolverConds) /\ p \in 0..MaxPlans /\ p # 0
          /\ r = [f EXCEPT !.ref = p, !.gen = g, !.state = "UpgradePending", !.conds = c]
      <4> HIDE DEF r, f, g
      <4> QED
        BY <1>1, <3>1, <3>2, ConstantsAssumption DEF Subscription, Plans
    <3> HIDE DEF r, f, g, c
    <3>6. /\ r \in Subscription /\ r.ref = p /\ r.gen = g /\ r.state = "UpgradePending"
          /\ r.current = f.current /\ r.installed = f.installed
      BY <3>1, <3>4, <3>5 DEF Subscription, States
    <3>7. {r.current, r.installed, head[s]} \subseteq Nat
      BY <1>10, <3>6, ConstantsAssumption DEF Subscription, Versions
    <3>8. Backed(s, r, csv, plan')
      BY <3>1, <3>3, <3>5, <3>6 DEF FreshOK, Backed
    <3>9. /\ r.installed <= head[s] /\ r.installed <= r.current /\ r.current <= head[s]
          /\ r.current # 0 /\ r.installed = sub[s].installed
      BY <3>1, <3>6, <3>7 DEF FreshOK
    <3>10. SubOK(s, r, csv, plan', head)
      BY <3>4, <3>6, <3>8, <3>9 DEF SubOK
    <3> QED
      BY <3>6, <3>9, <3>10 DEF r
  <2>2. CASE s \notin res.updated
    <3>1. r = [res.subs[s] EXCEPT !.conds = @ \ ResolverConds]
      BY <2>2 DEF Finished
    <3> HIDE DEF r, f, g
    <3>2. /\ r \in Subscription /\ SubOK(s, r, csv, plan, head)
          /\ r.installed = sub[s].installed
      BY <3>1, ClearedOK
    <3>3. SubOK(s, r, csv, plan', head)
      BY <1>10, <1>11, <1>12, <3>2, SubStays
    <3> QED
      BY <3>2, <3>3 DEF r
  <2> QED
    BY <2>1, <2>2
<1>15. Finished(p) \in AllSubs
  BY <1>14 DEF AllSubs, Finished
<1>16. res' \in AllRes /\ ResOK(res', sub, csv, plan', head)
  BY <1>10, <1>14, <1>15, WriteOK
<1>17. TypeInv'
  BY <1>8, <1>16 DEF TypeInv
<1>18. PlansInv'
  BY <1>8, <1>9, <1>10, <1>11, <1>17, PlansStep
<1>19. OneWay
  BY <1>9, <1>11, <1>12, <1>17, <1>18 DEF OneWay
<1>20. \A s \in Subs : SubOK(s, sub[s], csv, plan', head)
  BY <1>10, <1>11, <1>12, LiveTypes, SubStays DEF SubsInv, AllSubs
<1> QED
  BY <1>10, <1>16, <1>19, <1>20 DEF SubsInv

LEMMA WritePlanStatusKeeps ==
  ASSUME TypeInv, PlansInv, Born, SubsInv, WritePlanStatus
  PROVE  OneWay /\ SubsInv' /\ sub' = sub
<1>1. res.at = "Created" /\ UNCHANGED <<head, subLog, csvLog, exec, faults>>
  BY DEF WritePlanStatus
<1> DEFINE p == res.plan
<1>2. CASE plan[p].phase = "NoStatus" /\ plan[p].approved = ~ plan[p].manual
  <2>1. /\ StorePlans([plan EXCEPT ![p].phase = IF plan[p].manual THEN "RequiresApproval"
                                                ELSE "Installing",
                                   ![p].steps = res.steps])
        /\ Write(Finished(p), Subs)
    BY <1>2 DEF WritePlanStatus
  <2> QED
    BY <1>1, <1>2, <2>1, PlanStatusWritten
<1>3. CASE ~ (plan[p].phase = "NoStatus" /\ plan[p].approved = ~ plan[p].manual)
  <2>1. WriteCond("UnpackFailed", {}) /\ UNCHANGED planLog
    BY <1>3 DEF WritePlanStatus
  <2> QED
    BY <1>1, <2>1, WriteCondOK, OnRes DEF ResolverConds, TypeInv
<1> QED
  BY <1>2, <1>3

-----------------------------------------------------------------------------
(* Every step *)

IInv == TypeInv /\ PlansInv /\ Born /\ UniqueGeneration /\ SubsInv

LEMMA InitIInv == Init => IInv
<1> SUFFICES ASSUME Init PROVE IInv
  OBVIOUS
<1>1. /\ [s \in Subs |-> NoSubStatus] \in AllSubs
      /\ [s \in Subs |-> [v \in Versions |-> NoCSV]] \in AllCSVs
      /\ [p \in Plans |-> Unborn] \in AllPlans
      /\ [s \in Subs |-> 1] \in [Subs -> Versions]
      /\ [p \in Plans |-> NotRunning] \in AllExec
  <2>1. NoCSV \in CSV /\ 1 \in Versions
    BY ConstantsAssumption DEF NoCSV, CSV, Versions
  <2> QED
    BY <2>1, ConstantTypes DEF AllSubs, AllCSVs, AllPlans, AllExec
<1>2. /\ sub = [s \in Subs |-> NoSubStatus] /\ plan = [p \in Plans |-> Unborn]
      /\ LogOK(subLog, AllSubs, SubLag) /\ LogOK(csvLog, AllCSVs, CSVLag)
      /\ LogOK(planLog, AllPlans, PlanLag)
  BY <1>1, OnlyLive, ConstantsAssumption DEF Init, sub, plan
<1>3. TypeInv
  BY <1>1, <1>2, ConstantTypes, ConstantsAssumption DEF Init, TypeInv
<1>4. \A cs : PlanOK(Unborn, cs) /\ CopyOK(Unborn, Unborn)
  BY DEF PlanOK, CopyOK, Unborn
<1>5. PlansInv
  <2>1. \A p \in Plans, i \in DOMAIN planLog : planLog[i][p] = Unborn
    BY DEF Init
  <2>2. \A p \in Plans : plan[p] = Unborn /\ exec[p] = NotRunning
    BY <1>2 DEF Init
  <2> QED
    BY <1>4, <2>1, <2>2, NotRunningOK DEF PlansInv
<1>6. Born /\ UniqueGeneration
  <2>1. \A p \in Plans : plan[p].phase = "Unborn"
    BY <1>2 DEF Unborn
  <2> QED
    BY <2>1 DEF Born, UniqueGeneration, Listed
<1>7. SubsInv
  <2>1. ResOK(Idle, sub, csv, plan, head)
    BY <1>3, IdleOK DEF TypeInv
  <2>2. \A s \in Subs : Idle.subs[s] = sub[s]
    BY <1>2 DEF Idle, NoSubs
  <2> QED
    BY <2>1, <2>2 DEF Init, SubsInv, ResOK
<1> QED
  BY <1>3, <1>5, <1>6, <1>7 DEF IInv

\* The namespace worker and the syncer, and what they may do to what is
\* installed.
LEMMA SubWorkersKeep ==
  ASSUME IInv, NamespaceWorker \/ UnpackBundlesFails \/ \E s \in Subs : SyncSubscription(s)
  PROVE  /\ IInv' /\ \A s \in Subs : sub[s].installed <= sub'[s].installed
         /\ csvLog' = csvLog
<1>0. /\ TypeInv /\ PlansInv /\ Born /\ UniqueGeneration /\ SubsInv
      /\ \A s \in Subs : sub[s].installed <= sub[s].installed
  <2>1. \A s \in Subs : sub[s].installed \in Nat
    BY LiveTypes, ConstantsAssumption DEF IInv, AllSubs, Subscription
  <2> QED
    BY <2>1 DEF IInv
<1>1. CASE StartResolving
  <2>1. /\ OneWay /\ SubsInv' /\ \A s \in Subs : sub[s].installed <= sub'[s].installed
    BY <1>0, <1>1, StartResolvingKeeps
  <2> QED
    BY <1>0, <1>1, <2>1, BornStays DEF IInv, OneWay, StartResolving
<1>2. CASE ResolveSteps \/ NoPlanNeeded \/ WritePlanStatus \/ UnpackBundlesFails
  <2>1. OneWay /\ SubsInv' /\ sub' = sub
    BY <1>0, <1>2, ResolveStepsKeeps, NoPlanNeededKeeps, WritePlanStatusKeeps,
       UnpackBundlesFailsKeeps
  <2>2. csvLog' = csvLog
    BY <1>2 DEF ResolveSteps, NoPlanNeeded, WritePlanStatus, UnpackBundlesFails
  <2> QED
    BY <1>0, <2>1, <2>2, BornStays DEF IInv, OneWay
<1>3. CASE CreateInstallPlan
  <2>1. IInv' /\ sub' = sub
    BY <1>0, <1>3, CreateInstallPlanKeeps DEF IInv
  <2> QED
    BY <1>0, <1>3, <2>1 DEF CreateInstallPlan
<1>4. CASE \E s \in Subs : UpdateSubscriptionStatus(s) \/ SyncSubscription(s)
  <2>1. /\ OneWay /\ SubsInv' /\ \A x \in Subs : sub'[x].installed = sub[x].installed
    BY <1>0, <1>4, UpdateSubscriptionStatusKeeps, SyncSubscriptionKeeps
  <2>2. csvLog' = csvLog
    BY <1>4 DEF UpdateSubscriptionStatus, SyncSubscription
  <2> QED
    BY <1>0, <2>1, <2>2, BornStays DEF IInv, OneWay
<1> QED
  BY <1>1, <1>2, <1>3, <1>4 DEF NamespaceWorker

\* Everyone else leaves the subscriptions alone.
Others ==
  \/ \E p \in Plans : PlanWorker(p) \/ ExecuteStepFails(p)
  \/ \E s \in Subs, v \in Versions : CSVStep(s, v)
  \/ Users

LEMMA OthersKeep ==
  ASSUME IInv, Others
  PROVE  IInv' /\ sub' = sub
<1>0. TypeInv /\ PlansInv /\ Born /\ UniqueGeneration /\ SubsInv
  BY DEF IInv
<1>1. OneWay /\ UNCHANGED <<subLog, res>>
  <2>1. CASE \E p \in Plans : PlanWorker(p) \/ ExecuteStepFails(p)
    <3>1. PICK p \in Plans : PlanWorker(p) \/ ExecuteStepFails(p)
      BY <2>1
    <3>2. CASE \E t \in exec[p].plan.steps : ExecuteStep(p, t)
      BY <1>0, <3>2, ExecuteStepKeeps DEF ExecuteStep
    <3>3. CASE AttachServiceAccount(p) \/ SyncApproval(p)
      BY <1>0, <3>3, SyncPlanKeeps DEF AttachServiceAccount, SyncApproval
    <3>4. CASE StartExecuting(p)
      BY <1>0, <3>4, StartExecutingKeeps DEF StartExecuting
    <3>5. CASE FinishExecuting(p) \/ ExecuteStepFails(p)
      BY <1>0, <3>5, EndExecutingKeeps DEF FinishExecuting, ExecuteStepFails
    <3> QED
      BY <3>1, <3>2, <3>3, <3>4, <3>5 DEF PlanWorker
  <2>2. CASE \E s \in Subs, v \in Versions : CSVStep(s, v)
    BY <1>0, <2>2, CSVControllerKeeps
       DEF CSVStep, CSVController, CSVSucceeds, CSVFails, CSVRecovers, CSVReplaced, CSVCollected
  <2>3. CASE Users
    BY <1>0, <2>3, UsersKeep DEF Users, Publish, Approve, DeletePlan, TriggerInstallPlanRetry
  <2> QED
    BY <2>1, <2>2, <2>3 DEF Others
<1>2. sub' = sub
  BY <1>1 DEF sub
<1> QED
  BY <1>0, <1>1, <1>2, SubsQuiet, BornStays DEF IInv, OneWay

LEMMA CatchUpKeeps ==
  ASSUME IInv, Informers \/ Restart
  PROVE  IInv' /\ sub' = sub /\ csv' = csv
<1>0. TypeInv /\ PlansInv /\ Born /\ UniqueGeneration /\ SubsInv
  BY DEF IInv
<1>1. /\ TypeInv' /\ sub' = sub /\ csv' = csv /\ plan' = plan /\ head' = head
      /\ OnlyNew(planLog', planLog, plan')
      /\ UNCHANGED <<res, exec>> \/ (res' = Idle /\ exec' = [p \in Plans |-> NotRunning])
  BY <1>0, CatchUp
<1>2. \A p \in Plans : PlanOK(plan'[p], csv') /\ Moved(plan[p], plan'[p])
  BY <1>0, <1>1, PlansNow DEF Moved, Later
<1>3. \A p \in Plans : exec'[p] = exec[p] \/ ExecOK(exec'[p], plan'[p], csv')
  BY <1>1, NotRunningOK
<1>4. Grows(csv, csv') /\ (\A p \in Plans : Later(plan[p], plan'[p]))
      /\ \A s \in Subs : head[s] <= head'[s]
  <2>1. \A s \in Subs : head[s] \in Nat
    BY <1>0, ConstantsAssumption DEF TypeInv, Versions
  <2>2. \A s \in Subs : head[s] <= head'[s]
    BY <1>1, <2>1
  <2>3. \A p \in Plans : Later(plan[p], plan'[p])
    BY <1>2 DEF Moved
  <2> QED
    BY <1>1, <2>2, <2>3 DEF Grows
<1>5. OneWay
  BY <1>0, <1>1, <1>2, <1>3, <1>4, PlansStep DEF OneWay
<1> QED
  BY <1>0, <1>1, <1>5, SubsQuiet, BornStays DEF IInv, OneWay

LEMMA NextIsOneOf ==
  ASSUME Next
  PROVE  \/ NamespaceWorker \/ UnpackBundlesFails \/ \E s \in Subs : SyncSubscription(s)
         \/ Others
         \/ Informers \/ Restart
BY DEF Next, Failures, Others, CSVStep

LEMMA StutterKeeps ==
  ASSUME IInv, UNCHANGED vars
  PROVE  IInv' /\ sub' = sub /\ csv' = csv
BY DEF vars, IInv, TypeInv, PlansInv, Born, UniqueGeneration, SubsInv, sub, csv, plan

LEMMA Invariance == IInv /\ [Next]_vars => IInv'
<1> SUFFICES ASSUME IInv, [Next]_vars PROVE IInv'
  OBVIOUS
<1>1. CASE Next
  BY <1>1, NextIsOneOf, SubWorkersKeep, OthersKeep, CatchUpKeeps
<1>2. CASE UNCHANGED vars
  BY <1>2, StutterKeeps
<1> QED
  BY <1>1, <1>2

LEMMA Inductive == Spec => []IInv
<1> QED
  BY InitIInv, Invariance, PTL DEF Spec

-----------------------------------------------------------------------------
(* Theorems *)

\* Every variable keeps its type, with any number of plans, versions and
\* faults, and caches any number of writes behind.
THEOREM TypeCorrect == Spec => []TypeOK
<1>1. IInv => TypeOK
  BY DEF IInv, TypeInv, TypeOK, LogOK, AllSubs, AllCSVs, AllPlans, AllRes, AllExec
<1> QED
  BY <1>1, Inductive, PTL

\* No two install plans have the same generation: the next one is taken above
\* all that were created, although ensureInstallPlan looks only at the plans
\* listed and at the statuses it holds.
THEOREM GenerationsUnique == Spec => []UniqueGeneration
<1>1. IInv => UniqueGeneration
  BY DEF IInv
<1> QED
  BY <1>1, Inductive, PTL

\* A Complete install plan has had all its CSVs created, whatever stale copies
\* were executed and however often execution was cut short.
THEOREM CompleteApplied == Spec => []CompleteMeansApplied
<1>1. IInv => CompleteMeansApplied
  <2> SUFFICES ASSUME IInv, NEW p \in Plans, plan[p].phase = "Complete", NEW t \in plan[p].steps
               PROVE  csv[t.sub][t.version].phase # "Absent"
    BY DEF CompleteMeansApplied
  <2> QED
    BY PlansNow DEF IInv, PlanOK, Made
<1> QED
  BY <1>1, Inductive, PTL

\* A subscription that waits for a CSV never created refers to a plan that
\* creates it.
THEOREM PendingBacked == Spec => []PendingHasPlan
<1>1. IInv => PendingHasPlan
  BY DEF IInv, SubsInv, SubOK, Backed, Made, PendingHasPlan
<1> QED
  BY <1>1, Inductive, PTL

\* A subscription AtLatest has its current CSV installed, and that CSV has
\* been created.
THEOREM LatestInstalled == Spec => []AtLatestIsInstalled
<1>1. IInv => AtLatestIsInstalled
  BY DEF IInv, SubsInv, SubOK, Made, AtLatestIsInstalled
<1> QED
  BY <1>1, Inductive, PTL

\* ensureSubscriptionCSVState, the resolver's whole status writes and the
\* subscription syncer never take the installed CSV back to an older version.
THEOREM InstalledGrows == Spec => NeverGoesBack
<1> DEFINE A == \A s \in Subs : sub'[s].installed >= sub[s].installed
<1>1. ASSUME IInv, [Next]_vars PROVE A
  <2>1. \A s \in Subs : sub[s].installed \in Nat
    BY <1>1, LiveTypes, ConstantsAssumption DEF IInv, AllSubs, Subscription
  <2>2. IInv'
    BY <1>1, Invariance
  <2>3. \A s \in Subs : sub'[s].installed \in Nat
    <3>1. LogOK(subLog', AllSubs, SubLag) /\ SubLag \in Nat
      BY <2>2, ConstantsAssumption DEF IInv, TypeInv
    <3>2. sub' \in AllSubs
      BY <3>1, LogEnds DEF sub
    <3> QED
      BY <3>2, ConstantsAssumption DEF AllSubs, Subscription
  <2>4. sub' = sub \/ \A s \in Subs : sub[s].installed <= sub'[s].installed
    BY <1>1, NextIsOneOf, SubWorkersKeep, OthersKeep, CatchUpKeeps, StutterKeeps
  <2> QED
    BY <2>1, <2>3, <2>4
<1>2. IInv /\ [Next]_vars => [A]_vars
  BY <1>1
<1> QED
  BY <1>2, Inductive, PTL DEF Spec, NeverGoesBack

\* A step that creates a CSV: some approved plan lists it.
LEMMA CreatedByApproved ==
  ASSUME IInv, [Next]_vars, NEW s \in Subs, NEW v \in Versions,
         ~ Present(csv[s][v]), Present(csv'[s][v])
  PROVE  \E p \in Plans : /\ plan[p].approved
                          /\ \E t \in plan[p].steps : t.sub = s /\ t.version = v
<1>0. TypeInv /\ PlansInv
  BY DEF IInv
<1>1. ~ (csvLog' = csvLog \/ csv' = csv)
  BY DEF csv
<1>2. Others
  BY <1>1, NextIsOneOf, SubWorkersKeep, CatchUpKeeps, StutterKeeps
<1>3. ~ \E x \in Subs, w \in Versions : CSVStep(x, w)
  BY <1>0, CSVControllerKeeps
<1>4. PICK p \in Plans : \E t \in exec[p].plan.steps : ExecuteStep(p, t)
  <2>1. ~ Users
    BY <1>1 DEF Users, Publish, Approve, DeletePlan, TriggerInstallPlanRetry
  <2>2. PICK p \in Plans : PlanWorker(p) \/ ExecuteStepFails(p)
    BY <1>2, <1>3, <2>1 DEF Others
  <2>3. \E t \in exec[p].plan.steps : ExecuteStep(p, t)
    BY <1>1, <2>2 DEF PlanWorker, ExecuteStepFails, AttachServiceAccount, SyncApproval,
                      StartExecuting, FinishExecuting
  <2> QED
    BY <2>3
<1>5. PICK t \in exec[p].plan.steps : ExecuteStep(p, t)
  BY <1>4
<1>6. /\ exec[p].plan \in InstallPlan /\ ExecOK(exec[p], plan[p], csv)
  BY <1>0, PlansNow
<1>7. exec[p].plan.phase = "Installing"
  BY <1>5, <1>6 DEF ExecOK, ExecuteStep, Executing
<1>8. plan[p].approved /\ t \in plan[p].steps
  BY <1>5, <1>6, <1>7 DEF ExecOK, PlanOK, CopyOK
<1>9. t.sub = s /\ t.version = v
  <2>1. t \in Step
    BY <1>5, <1>6 DEF InstallPlan
  <2>2. t.sub \in Subs /\ t.version \in Versions /\ t.replaces \in 0..MaxVersion
    BY <2>1 DEF Step
  <2> DEFINE new == [phase |-> "Installing", replaces |-> t.replaces]
             x == [csv EXCEPT ![t.sub][t.version] = new]
  <2>3. StoreCSVs(x)
    BY <1>1, <1>5 DEF ExecuteStep
  <2>4. csv \in AllCSVs /\ new \in CSV
    BY <1>0, <2>2, LiveTypes DEF CSV
  <2> HIDE DEF new
  <2>5. /\ x \in AllCSVs
        /\ \A r \in Subs, w \in Versions :
             x[r][w] = IF r = t.sub /\ w = t.version THEN new ELSE csv[r][w]
    BY <2>2, <2>4 DEF AllCSVs
  <2> HIDE DEF x
  <2>6. csv' = x
    BY <1>0, <2>3, <2>5, WriteCSVs
  <2> QED
    BY <2>5, <2>6
<1> QED
  BY <1>8, <1>9

\* No CSV is created that an approved plan does not list: the copies the
\* workers execute are never ahead of the plan in approval or in steps.
THEOREM Approved == Spec => ApprovalRespected
<1> DEFINE A == \A s \in Subs, v \in Versions :
                  ~ Present(csv[s][v]) /\ Present(csv'[s][v]) =>
                    \E p \in Plans : /\ plan[p].approved
                                     /\ \E t \in plan[p].steps : t.sub = s /\ t.version = v
<1>1. IInv /\ [Next]_vars => [A]_vars
  BY CreatedByApproved
<1> QED
  BY <1>1, Inductive, PTL DEF Spec, ApprovalRespected


-----------------------------------------------------------------------------
(* Garbage collection of install plans *)

\* The plans that survive, of those newer than p.
NewerListed(ps, p) == {q \in Newer(ps, p) : Listed(ps[q])}

\* An old copy of a plan has the generation the plan has.
CopiesDated ==
  \A p \in Plans, i \in DOMAIN planLog :
    planLog[i][p].phase # "Unborn" =>
      plan[p].phase # "Unborn" /\ plan[p].gen = planLog[i][p].gen

\* What has been deleted has enough newer plans left.
DeletedOld ==
  \A p \in Plans : plan[p].phase = "Deleted" =>
    Cardinality(NewerListed(plan, p)) >= MaxPlanCount

\* Being newer is a strict order, and sets of plans are finite.
LEMMA NewerOrder ==
  ASSUME NEW ps \in AllPlans, NEW p \in Plans
  PROVE  /\ \A q : q \in Newer(ps, p) <=>
              q \in Plans /\ (ps[q].gen > ps[p].gen \/ (ps[q].gen = ps[p].gen /\ q > p))
         /\ \A q \in Newer(ps, p) : Newer(ps, q) \subseteq Newer(ps, p)
<1>1. DOMAIN ps = Plans /\ \A q \in Plans : q \in Nat /\ ps[q].gen \in Nat
  BY ConstantsAssumption DEF AllPlans, InstallPlan, Plans
<1>2. \A x \in Plans : \A q : q \in Newer(ps, x) <=>
        q \in Plans /\ (ps[q].gen > ps[x].gen \/ (ps[q].gen = ps[x].gen /\ q > x))
  BY <1>1 DEF Newer
<1>3. ASSUME NEW q \in Newer(ps, p), NEW r \in Newer(ps, q)  PROVE r \in Newer(ps, p)
  BY <1>1, <1>2
<1> QED
  BY <1>2, <1>3

LEMMA SameOrder ==
  ASSUME NEW ps \in AllPlans, NEW qs \in AllPlans, NEW p \in Plans,
         \A q \in Plans : qs[q].gen = ps[q].gen
  PROVE  Newer(qs, p) = Newer(ps, p)
<1>1. \A q : q \in Newer(ps, p) <=>
        q \in Plans /\ (ps[q].gen > ps[p].gen \/ (ps[q].gen = ps[p].gen /\ q > p))
  BY NewerOrder
<1>2. \A q : q \in Newer(qs, p) <=>
        q \in Plans /\ (qs[q].gen > qs[p].gen \/ (qs[q].gen = qs[p].gen /\ q > p))
  BY NewerOrder
<1>3. ASSUME NEW q PROVE q \in Newer(qs, p) <=> q \in Newer(ps, p)
  BY <1>1, <1>2
<1> QED
  BY <1>3

LEMMA FewPlans ==
  ASSUME NEW S \in SUBSET Plans, NEW T \in SUBSET S
  PROVE  /\ IsFiniteSet(S) /\ IsFiniteSet(T)
         /\ Cardinality(S) \in Nat /\ Cardinality(T) \in Nat
         /\ Cardinality(T) <= Cardinality(S)
<1>1. IsFiniteSet(Plans)
  BY FS_Interval, ConstantsAssumption DEF Plans
<1>2. IsFiniteSet(S)
  BY <1>1, FS_Subset
<1>3. IsFiniteSet(T) /\ Cardinality(T) <= Cardinality(S)
  BY <1>2, FS_Subset
<1> QED
  BY <1>2, <1>3, FS_CardinalityType

\* A set of plans has a newest one.
LEMMA NewestOf ==
  ASSUME NEW ps \in AllPlans, NEW S \in SUBSET Plans, S # {}
  PROVE  \E r \in S : Newer(ps, r) \cap S = {}
<1> DEFINE gens == {ps[q].gen : q \in S}
<1>1. MaxPlans \in Nat /\ (\A q \in Plans : q \in 0..MaxPlans /\ ps[q].gen \in 0..MaxPlans)
  BY ConstantsAssumption DEF AllPlans, InstallPlan, Plans
<1>2. gens \subseteq 0..MaxPlans /\ gens # {}
  BY <1>1
<1>3. MaxOf(gens) \in gens /\ \A g \in gens : g <= MaxOf(gens)
  <2> HIDE DEF gens
  <2> QED
    BY <1>1, <1>2, MaxOfIsMax
<1> DEFINE top == {q \in S : ps[q].gen = MaxOf(gens)}
<1>4. top \subseteq 0..MaxPlans /\ top # {}
  BY <1>1, <1>3
<1>5. MaxOf(top) \in top /\ \A q \in top : q <= MaxOf(top)
  <2> HIDE DEF top
  <2> QED
    BY <1>1, <1>4, MaxOfIsMax
<1> DEFINE r == MaxOf(top)
<1>6. r \in S /\ r \in Plans /\ ps[r].gen = MaxOf(gens)
  BY <1>5
<1>7. ASSUME NEW q \in Newer(ps, r), q \in S  PROVE FALSE
  <2>1. q \in Plans /\ (ps[q].gen > ps[r].gen \/ (ps[q].gen = ps[r].gen /\ q > r))
    BY <1>6, <1>7, NewerOrder
  <2>2. ps[q].gen <= ps[r].gen
    BY <1>3, <1>6, <1>7
  <2>3. ps[q].gen = ps[r].gen => q <= r
    BY <1>5, <1>6, <1>7
  <2> QED
    BY <1>1, <1>6, <2>1, <2>2, <2>3
<1> QED
  BY <1>6, <1>7

\* Of a sweep: if all that is deleted has K newer plans, listed before the
\* sweep, it has K that survive.
LEMMA Survivors ==
  ASSUME NEW ps \in AllPlans, NEW L \in SUBSET Plans, NEW gone \in SUBSET Plans,
         NEW D \in SUBSET Plans, NEW K \in Nat, gone \subseteq D,
         \A p \in D : Cardinality(Newer(ps, p) \cap L) >= K,
         NEW p \in D
  PROVE  Cardinality((Newer(ps, p) \cap L) \ gone) >= K
<1> DEFINE X == (Newer(ps, p) \cap L) \cap gone
           W == (Newer(ps, p) \cap L) \ gone
<1>1. CASE X = {}
  <2>1. W = Newer(ps, p) \cap L
    BY <1>1
  <2> QED
    BY <2>1
<1>2. CASE X # {}
  <2>1. PICK r \in X : Newer(ps, r) \cap X = {}
    <3>1. X \in SUBSET Plans
      OBVIOUS
    <3> HIDE DEF X
    <3> QED
      BY <1>2, <3>1, NewestOf
  <2>2. Newer(ps, r) \subseteq Newer(ps, p)
    BY <2>1, NewerOrder
  <2>3. Newer(ps, r) \cap L \subseteq W
    BY <2>1, <2>2
  <2>4. Cardinality(Newer(ps, r) \cap L) >= K
    BY <2>1
  <2>5. W \in SUBSET Plans
    OBVIOUS
  <2> HIDE DEF W
  <2>6. /\ Cardinality(Newer(ps, r) \cap L) <= Cardinality(W)
        /\ Cardinality(Newer(ps, r) \cap L) \in Nat /\ Cardinality(W) \in Nat
    BY <2>3, <2>5, FewPlans
  <2>7. Cardinality(W) >= K
    BY <2>4, <2>6
  <2> QED
    BY <2>7 DEF W
<1> QED
  BY <1>1, <1>2

\* The sweep, from an old list: what it deletes, and what was deleted before,
\* has enough newer plans that it leaves.
LEMMA SweepKeeps ==
  ASSUME TypeInv, CopiesDated, DeletedOld, NEW gone \in Swept, NEW p \in Plans,
         plan[p].phase = "Deleted" \/ p \in gone
  PROVE  Cardinality({q \in Newer(plan, p) : Listed(plan[q]) /\ q \notin gone}) >= MaxPlanCount
<1> DEFINE old == Cached(planLog)
           L == {q \in Plans : Listed(plan[q])}
           D == {q \in Plans : plan[q].phase = "Deleted"} \cup gone
<1>0. MaxPlanCount \in Nat
  BY ConstantsAssumption
<1>1. plan \in AllPlans /\ old \in AllPlans
  BY LiveTypes
<1>2. PICK ips \in SUBSET {q \in Plans : Listed(old[q])} :
        gone = {q \in ips : Cardinality(Newer(old, q) \cap ips) >= MaxPlanCount}
  BY DEF Swept
<1>3. \A q \in ips : q \in Plans /\ plan[q].phase # "Unborn" /\ plan[q].gen = old[q].gen
  <2>1. PICK i \in DOMAIN planLog : old = planLog[i]
    BY LogEnds, ConstantsAssumption DEF TypeInv
  <2> QED
    BY <1>2, <2>1 DEF CopiesDated, Listed
<1>4. ASSUME NEW r \in gone  PROVE Cardinality(Newer(plan, r) \cap L) >= MaxPlanCount
  <2> DEFINE M == Newer(old, r) \cap ips
  <2>1. r \in ips /\ r \in Plans /\ Cardinality(M) >= MaxPlanCount
    BY <1>2, <1>3, <1>4
  <2>2. M \subseteq Newer(plan, r)
    BY <1>1, <1>3, <2>1, NewerOrder
  <2>3. Newer(plan, r) \cap L \in SUBSET Plans
    OBVIOUS
  <2>4. CASE M \subseteq L
    <3>1. M \in SUBSET (Newer(plan, r) \cap L)
      BY <2>2, <2>4
    <3> HIDE DEF M, L
    <3>2. /\ Cardinality(M) <= Cardinality(Newer(plan, r) \cap L)
          /\ Cardinality(M) \in Nat /\ Cardinality(Newer(plan, r) \cap L) \in Nat
      BY <2>3, <3>1, FewPlans
    <3> QED
      BY <1>0, <2>1, <3>2
  <2>5. ASSUME NEW m \in M, m \notin L
        PROVE  Cardinality(Newer(plan, r) \cap L) >= MaxPlanCount
    <3>1. m \in Plans /\ plan[m].phase = "Deleted"
      BY <1>3, <2>5 DEF Listed
    <3>2. Newer(plan, m) \subseteq Newer(plan, r)
      BY <1>1, <2>1, <2>2, <2>5, NewerOrder
    <3>3. NewerListed(plan, m) = Newer(plan, m) \cap L
      BY <1>1, <3>1, NewerOrder DEF NewerListed
    <3>4. Cardinality(Newer(plan, m) \cap L) >= MaxPlanCount
      BY <3>1, <3>3 DEF DeletedOld
    <3>5. Newer(plan, m) \cap L \in SUBSET (Newer(plan, r) \cap L)
      BY <3>2
    <3> HIDE DEF M, L
    <3>6. /\ Cardinality(Newer(plan, m) \cap L) <= Cardinality(Newer(plan, r) \cap L)
          /\ Cardinality(Newer(plan, m) \cap L) \in Nat
          /\ Cardinality(Newer(plan, r) \cap L) \in Nat
      BY <2>3, <3>5, FewPlans
    <3> QED
      BY <1>0, <3>4, <3>6
  <2> QED
    BY <2>4, <2>5
<1>5. ASSUME NEW q \in D  PROVE Cardinality(Newer(plan, q) \cap L) >= MaxPlanCount
  <2>1. CASE q \in gone
    BY <1>4, <2>1
  <2>2. CASE q \in Plans /\ plan[q].phase = "Deleted"
    <3>1. NewerListed(plan, q) = Newer(plan, q) \cap L
      BY <1>1, <2>2, NewerOrder DEF NewerListed
    <3> QED
      BY <2>2, <3>1 DEF DeletedOld
  <2> QED
    BY <1>5, <2>1, <2>2
<1>6. gone \in SUBSET Plans /\ L \in SUBSET Plans /\ D \in SUBSET Plans /\ gone \subseteq D /\ p \in D
  BY <1>2
<1>7. {q \in Newer(plan, p) : Listed(plan[q]) /\ q \notin gone} = (Newer(plan, p) \cap L) \ gone
  BY <1>1, NewerOrder
<1> HIDE DEF L, D
<1>8. Cardinality((Newer(plan, p) \cap L) \ gone) >= MaxPlanCount
  BY <1>0, <1>1, <1>5, <1>6, Survivors
<1> QED
  BY <1>7, <1>8

\* A step that begets plans, or lets them be, but deletes none.
Steady ==
  /\ OnlyNew(planLog', planLog, plan')
  /\ plan' \in AllPlans
  /\ \A p \in Plans : /\ Later(plan[p], plan'[p])
                      /\ plan'[p].phase = "Deleted" => plan[p].phase = "Deleted"

LEMMA SteadyWithout ==
  ASSUME TypeInv, planLog' = planLog
  PROVE  Steady
BY LiveTypes DEF Steady, OnlyNew, Later, plan

\* UpdateStatus does not delete.
LEMMA SteadyPut ==
  ASSUME IInv, NEW p \in Plans, NEW old, NEW new \in InstallPlan, PutPlan(p, old, new),
         new.phase # "Deleted", \A q \in Plans : Moved(plan[q], plan'[q])
  PROVE  Steady
<1>1. TypeInv
  BY DEF IInv
<1>2. CASE planLog' = planLog
  BY <1>1, <1>2, SteadyWithout
<1>3. CASE plan' = [plan EXCEPT ![p] = new]
  <2>1. plan' \in AllPlans /\ \A q \in Plans : plan'[q] = IF q = p THEN new ELSE plan[q]
    BY <1>1, <1>3, LiveTypes DEF AllPlans
  <2> QED
    BY <1>1, <2>1, PutPlanWrites DEF Steady, Moved
<1> QED
  BY <1>1, <1>2, <1>3, PutPlanWrites

LEMMA PlanWorkersSteady ==
  ASSUME IInv, NEW p \in Plans,
         \/ AttachServiceAccount(p) \/ SyncApproval(p) \/ TriggerInstallPlanRetry(p)
         \/ FinishExecuting(p) \/ ExecuteStepFails(p)
  PROVE  Steady
<1>0. TypeInv /\ PlansInv
  BY DEF IInv
<1>1. \A q \in Plans : Moved(plan[q], plan'[q])
  BY <1>0, SyncPlanKeeps, EndExecutingKeeps DEF OneWay
<1> DEFINE cp == Cached(planLog)[p]
           ep == exec[p].plan
           done == exec[p].done
<1>2. cp \in InstallPlan /\ ep \in InstallPlan /\ done \in SUBSET Step
  BY <1>0, PlansNow
<1>3. CASE AttachServiceAccount(p)
  <2>1. PutPlan(p, cp, [cp EXCEPT !.sa = TRUE]) /\ cp.phase # "Deleted"
    BY <1>3 DEF AttachServiceAccount, Syncable
  <2> HIDE DEF cp
  <2>2. [cp EXCEPT !.sa = TRUE] \in InstallPlan /\ [cp EXCEPT !.sa = TRUE].phase # "Deleted"
    BY <1>2, <2>1 DEF InstallPlan
  <2> QED
    BY <1>1, <2>1, <2>2, SteadyPut
<1>4. CASE SyncApproval(p) \/ TriggerInstallPlanRetry(p)
  <2>1. PutPlan(p, cp, [cp EXCEPT !.phase = "Installing"])
    BY <1>4 DEF SyncApproval, TriggerInstallPlanRetry
  <2> HIDE DEF cp
  <2>2. /\ [cp EXCEPT !.phase = "Installing"] \in InstallPlan
        /\ [cp EXCEPT !.phase = "Installing"].phase # "Deleted"
    BY <1>2 DEF InstallPlan
  <2> QED
    BY <1>1, <2>1, <2>2, SteadyPut
<1>5. CASE FinishExecuting(p) \/ ExecuteStepFails(p)
  <2>1. PICK phase \in {"Complete", "Installing", "Failed"} :
          PutPlan(p, ep, [ep EXCEPT !.phase = phase, !.done = done, !.started = TRUE])
    BY <1>5 DEF FinishExecuting, ExecuteStepFails
  <2> HIDE DEF ep, done
  <2>2. /\ [ep EXCEPT !.phase = phase, !.done = done, !.started = TRUE] \in InstallPlan
        /\ [ep EXCEPT !.phase = phase, !.done = done, !.started = TRUE].phase # "Deleted"
    BY <1>2 DEF InstallPlan
  <2> QED
    BY <1>1, <2>1, <2>2, SteadyPut
<1> QED
  BY <1>3, <1>4, <1>5

\* A plan written outright, by its creator or a user.
LEMMA SteadyWrite ==
  ASSUME IInv, NEW p \in Plans, NEW new \in InstallPlan, StorePlans([plan EXCEPT ![p] = new]),
         Later(plan[p], new), new.phase # "Deleted"
  PROVE  Steady
<1> DEFINE x == [plan EXCEPT ![p] = new]
<1>1. TypeInv /\ plan \in AllPlans
  BY LiveTypes DEF IInv
<1>2. x \in AllPlans /\ \A q \in Plans : x[q] = IF q = p THEN new ELSE plan[q]
  BY <1>1 DEF AllPlans
<1> HIDE DEF x
<1>3. plan' = x /\ OnlyNew(planLog', planLog, plan')
  BY <1>1, <1>2, WritePlans DEF x
<1>4. \A q \in Plans : Later(plan[q], plan[q])
  BY DEF Later
<1> QED
  BY <1>2, <1>3, <1>4 DEF Steady

LEMMA ApproveSteady ==
  ASSUME IInv, NEW p \in Plans, Approve(p)
  PROVE  Steady
<1> DEFINE old == plan[p]
           new == [old EXCEPT !.approved = TRUE]
<1>1. old \in InstallPlan /\ Listed(old) /\ StorePlans([plan EXCEPT ![p] = new])
  BY LiveTypes DEF IInv, AllPlans, Approve
<1> HIDE DEF old
<1>2. new \in InstallPlan /\ new.phase = old.phase /\ new.approved /\ new.steps = old.steps
      /\ new.gen = old.gen
  BY <1>1 DEF InstallPlan
<1>3. Later(old, new) /\ new.phase # "Deleted"
  BY <1>1, <1>2 DEF Later, Listed
<1> HIDE DEF new
<1> QED
  BY <1>1, <1>2, <1>3, SteadyWrite DEF old

LEMMA CreateSteady ==
  ASSUME IInv, CreateInstallPlan
  PROVE  Steady
<1> DEFINE gen == MaxGeneration + 1
           new == [Unborn EXCEPT !.phase = "NoStatus", !.gen = gen,
                                 !.manual = (Manual # {}), !.approved = (Manual = {})]
<1>1. PICK p \in Plans : plan[p].phase = "Unborn" /\ StorePlans([plan EXCEPT ![p] = new])
  BY DEF CreateInstallPlan
<1>2. plan[p] = Unborn /\ MaxGeneration \in 0..(p - 1)
  BY <1>1, PlansNow, NewGeneration DEF IInv, PlanOK
<1>3. gen \in 0..MaxPlans
  BY <1>2, ConstantsAssumption DEF Plans
<1> HIDE DEF gen
<1>4. new \in InstallPlan /\ new.phase = "NoStatus"
  BY <1>3, ConstantTypes DEF InstallPlan, Unborn
<1> HIDE DEF new
<1>5. Later(plan[p], new)
  BY <1>2, <1>4 DEF Later, Unborn
<1> QED
  BY <1>1, <1>4, <1>5, SteadyWrite

LEMMA WriteStatusSteady ==
  ASSUME IInv, WritePlanStatus
  PROVE  Steady
<1> DEFINE p == res.plan
           old == plan[p]
           phase == IF old.manual THEN "RequiresApproval" ELSE "Installing"
           steps == res.steps
           new == [old EXCEPT !.phase = phase, !.steps = steps]
<1>1. /\ p \in Plans /\ old \in InstallPlan /\ PlanOK(old, csv) /\ plan \in AllPlans
      /\ steps \in SUBSET Step
  BY PlansNow, LiveTypes DEF WritePlanStatus, IInv, SubsInv, ResOK, TypeInv, AllRes
<1>2. CASE old.phase = "NoStatus" /\ old.approved = ~ old.manual
  <2>1. StorePlans([plan EXCEPT ![p].phase = phase, ![p].steps = steps])
    BY <1>2 DEF WritePlanStatus
  <2>2. StorePlans([plan EXCEPT ![p] = new])
    BY <1>1, <2>1 DEF AllPlans
  <2>3. phase \in {"RequiresApproval", "Installing"}
    OBVIOUS
  <2> HIDE DEF phase, old, steps
  <2>4. /\ new \in InstallPlan /\ new.phase = phase /\ new.gen = old.gen
        /\ new.approved = old.approved /\ new.steps = steps
    BY <1>1, <2>3 DEF InstallPlan
  <2> HIDE DEF new
  <2>5. Later(old, new) /\ new.phase # "Deleted"
    BY <1>1, <1>2, <2>3, <2>4 DEF Later, PlanOK
  <2> QED
    BY <1>1, <2>2, <2>4, <2>5, SteadyWrite DEF old
<1>3. CASE ~ (old.phase = "NoStatus" /\ old.approved = ~ old.manual)
  BY <1>3, SteadyWithout DEF WritePlanStatus, IInv
<1> QED
  BY <1>2, <1>3

\* Users apart, only the sweep deletes plans.
LEMMA OnlySweepDeletes ==
  ASSUME ~ UserDeletes, IInv, [Next]_vars, ~ StartResolving
  PROVE  Steady
<1>0. TypeInv
  BY DEF IInv
<1>1. CASE NamespaceWorker \/ UnpackBundlesFails \/ \E s \in Subs : SyncSubscription(s)
  BY <1>0, <1>1, SteadyWithout, CreateSteady, WriteStatusSteady
     DEF NamespaceWorker, UnpackBundlesFails, SyncSubscription, ResolveSteps, NoPlanNeeded,
         UpdateSubscriptionStatus
<1>2. CASE \E p \in Plans : PlanWorker(p) \/ ExecuteStepFails(p)
  <2>1. PICK p \in Plans : PlanWorker(p) \/ ExecuteStepFails(p)
    BY <1>2
  <2> QED
    BY <1>0, <2>1, SteadyWithout, PlanWorkersSteady DEF PlanWorker, StartExecuting, ExecuteStep
<1>3. CASE \E s \in Subs, v \in Versions : CSVStep(s, v)
  BY <1>0, <1>3, SteadyWithout
     DEF CSVStep, CSVController, CSVSucceeds, CSVFails, CSVRecovers, CSVReplaced, CSVCollected
<1>4. CASE Users
  <2>1. ASSUME NEW p \in Plans, DeletePlan(p)  PROVE FALSE
    BY <2>1 DEF DeletePlan
  <2> QED
    BY <1>0, <1>4, <2>1, SteadyWithout, ApproveSteady, PlanWorkersSteady DEF Users, Publish
<1>5. CASE Informers \/ Restart
  <2>1. plan' = plan /\ OnlyNew(planLog', planLog, plan') /\ plan \in AllPlans
    BY <1>0, <1>5, CatchUp, LiveTypes
  <2> QED
    BY <2>1 DEF Steady, Later
<1>6. CASE UNCHANGED vars
  BY <1>0, <1>6, SteadyWithout DEF vars
<1> QED
  BY <1>1, <1>2, <1>3, <1>4, <1>5, <1>6, NextIsOneOf DEF Others

LEMMA DatedStays ==
  ASSUME CopiesDated, OnlyNew(planLog', planLog, plan'),
         \A p \in Plans : Later(plan[p], plan'[p])
  PROVE  CopiesDated'
BY DEF CopiesDated, OnlyNew, Later

LEMMA SteadyKeeps ==
  ASSUME TypeInv, CopiesDated, DeletedOld, Steady
  PROVE  CopiesDated' /\ DeletedOld'
<1>1. CopiesDated'
  BY DatedStays DEF Steady
<1>2. ASSUME NEW p \in Plans, plan'[p].phase = "Deleted"
      PROVE  Cardinality(NewerListed(plan', p)) >= MaxPlanCount
  <2>1. plan \in AllPlans /\ plan' \in AllPlans /\ MaxPlanCount \in Nat
    BY LiveTypes, ConstantsAssumption DEF Steady
  <2>2. plan[p].phase = "Deleted" /\ plan'[p].gen = plan[p].gen
    BY <1>2 DEF Steady, Later
  <2>3. ASSUME NEW q \in NewerListed(plan, p)  PROVE q \in NewerListed(plan', p)
    <3>1. q \in Newer(plan, p) /\ Listed(plan[q])
      BY <2>3 DEF NewerListed
    <3>2. q \in Plans
      BY <2>1, <3>1, NewerOrder
    <3>3. Listed(plan'[q]) /\ plan'[q].gen = plan[q].gen
      BY <3>1, <3>2 DEF Steady, Later, Listed
    <3>4. q \in Newer(plan', p)
      BY <2>1, <2>2, <3>1, <3>2, <3>3, NewerOrder
    <3> QED
      BY <3>3, <3>4 DEF NewerListed
  <2>4. NewerListed(plan', p) \in SUBSET Plans
    BY <2>1, NewerOrder DEF NewerListed
  <2>5. /\ Cardinality(NewerListed(plan, p)) <= Cardinality(NewerListed(plan', p))
        /\ Cardinality(NewerListed(plan, p)) \in Nat /\ Cardinality(NewerListed(plan', p)) \in Nat
    BY <2>3, <2>4, FewPlans
  <2>6. Cardinality(NewerListed(plan, p)) >= MaxPlanCount
    BY <2>2 DEF DeletedOld
  <2> QED
    BY <2>1, <2>5, <2>6
<1> QED
  BY <1>1, <1>2 DEF DeletedOld

\* The sweep: what it deletes is left with enough newer plans.
LEMMA SweepStep ==
  ASSUME IInv, CopiesDated, DeletedOld, StartResolving
  PROVE  /\ CopiesDated' /\ DeletedOld'
         /\ \A p \in Plans : Listed(plan[p]) /\ ~ Listed(plan'[p]) =>
              Cardinality({q \in Newer(plan, p) : Listed(plan'[q])}) >= MaxPlanCount
<1>0. TypeInv /\ PlansInv /\ plan \in AllPlans
  BY LiveTypes DEF IInv
<1>1. PICK gone \in Swept : StorePlans(Without(plan, gone))
  BY DEF StartResolving
<1>2. /\ plan' = Without(plan, gone) /\ OnlyNew(planLog', planLog, plan')
      /\ plan' \in AllPlans /\ \A p \in Plans : Later(plan[p], plan'[p])
  BY <1>0, <1>1, WithoutMoves, WritePlans DEF Moved
<1>3. ASSUME NEW p \in Plans
      PROVE  /\ Listed(plan'[p]) <=> Listed(plan[p]) /\ p \notin gone
             /\ plan'[p].phase = "Deleted" => plan[p].phase = "Deleted" \/ p \in gone
             /\ plan'[p].gen = plan[p].gen
  <2>1. plan[p] \in InstallPlan
    BY <1>0 DEF AllPlans
  <2>2. plan'[p] = IF p \in gone /\ Listed(plan[p])
                   THEN [plan[p] EXCEPT !.phase = "Deleted"] ELSE plan[p]
    BY <1>2 DEF Without
  <2> QED
    BY <2>1, <2>2 DEF InstallPlan, Listed
<1>4. ASSUME NEW p \in Plans
      PROVE  {q \in Newer(plan, p) : Listed(plan'[q])}
               = {q \in Newer(plan, p) : Listed(plan[q]) /\ q \notin gone}
  BY <1>0, <1>3, NewerOrder
<1>5. ASSUME NEW p \in Plans, Listed(plan[p]), ~ Listed(plan'[p])
      PROVE  Cardinality({q \in Newer(plan, p) : Listed(plan'[q])}) >= MaxPlanCount
  BY <1>0, <1>3, <1>4, <1>5, SweepKeeps
<1>6. ASSUME NEW p \in Plans, plan'[p].phase = "Deleted"
      PROVE  Cardinality(NewerListed(plan', p)) >= MaxPlanCount
  <2>1. Newer(plan', p) = Newer(plan, p)
    BY <1>0, <1>2, <1>3, SameOrder
  <2>2. NewerListed(plan', p) = {q \in Newer(plan, p) : Listed(plan[q]) /\ q \notin gone}
    BY <1>4, <2>1 DEF NewerListed
  <2> QED
    BY <1>0, <1>3, <1>6, <2>2, SweepKeeps
<1>7. CopiesDated'
  BY <1>2, DatedStays
<1> QED
  BY <1>5, <1>6, <1>7 DEF DeletedOld

\* gcInstallPlans leaves maxInstallPlanCount plans newer than any it deletes,
\* although it lists them from a cache that may still show plans an earlier
\* sweep deleted, and in arbitrary parts when there are too many.
THEOREM GcKeeps ==
  ASSUME ~ UserDeletes
  PROVE  Spec => GcKeepsNewest
<1> DEFINE A == \A p \in Plans : StartResolving /\ Listed(plan[p]) /\ ~ Listed(plan'[p]) =>
                  Cardinality({q \in Newer(plan, p) : Listed(plan'[q])}) >= MaxPlanCount
           Inv == IInv /\ CopiesDated /\ DeletedOld
<1>1. Init => Inv
  <2> SUFFICES ASSUME Init PROVE CopiesDated /\ DeletedOld
    BY InitIInv
  <2>1. planLog = <<[p \in Plans |-> Unborn]>> /\ plan = [p \in Plans |-> Unborn]
    BY DEF Init, plan, Live, Last
  <2> QED
    BY <2>1 DEF CopiesDated, DeletedOld, Unborn
<1>2. ASSUME Inv, [Next]_vars PROVE Inv' /\ A
  <2>1. IInv' /\ TypeInv
    BY <1>2, Invariance DEF IInv
  <2>2. CASE StartResolving
    BY <1>2, <2>1, <2>2, SweepStep
  <2>3. CASE ~ StartResolving
    BY <1>2, <2>1, <2>3, OnlySweepDeletes, SteadyKeeps
  <2> QED
    BY <2>2, <2>3
<1>3. Inv /\ [Next]_vars => [A]_vars
  BY <1>2
<1> QED
  BY <1>1, <1>2, <1>3, PTL DEF Spec, GcKeepsNewest
=============================================================================
