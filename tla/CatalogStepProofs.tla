-------------------------- MODULE CatalogStepProofs --------------------------
(***************************************************************************)
(* The catalog operator's workers one by one, for any number of            *)
(* subscriptions, versions, plans and faults, and caches as far behind as  *)
(* one likes: what the logs of stored objects hold, what every copy of an  *)
(* install plan says, and what the statuses of subscriptions say, stored   *)
(* or about to be.                                                         *)
(*                                                                         *)
(* Workers act on old copies of plans, so the invariants speak of every    *)
(* copy.  What a copy says stays true because plans and CSVs only move one *)
(* way: an approval is not withdrawn, steps are written once, a CSV that   *)
(* was created does not become one that never was.  The namespace worker   *)
(* resolves with a list of subscriptions taken some time ago and writes    *)
(* whole statuses from it, so the invariants speak of the list as well as  *)
(* of what is stored.                                                      *)
(***************************************************************************)
EXTENDS CatalogOperator, TLAPS, WellFoundedInduction

-----------------------------------------------------------------------------
(* Logs and maxima *)

LogOK(log, S, lag) == log \in Seq(S) /\ Len(log) \in 1..(lag + 1)

\* Nothing in log is new, compared with old, but x.
OnlyNew(log, old, x) ==
  \A i \in DOMAIN log : log[i] = x \/ \E j \in DOMAIN old : log[i] = old[j]

\* A log is never empty, so that something is cached and something is stored.
LEMMA LogEnds ==
  ASSUME NEW S, NEW lag \in Nat, NEW log, LogOK(log, S, lag)
  PROVE  /\ Live(log) \in S /\ Cached(log) \in S
         /\ \E i \in DOMAIN log : Live(log) = log[i]
         /\ \E i \in DOMAIN log : Cached(log) = log[i]
BY DEF LogOK, Live, Cached, Last

\* A write: x is stored, and the log holds nothing else that is new.
LEMMA StoreWrites ==
  ASSUME NEW S, NEW lag \in Nat, NEW log, LogOK(log, S, lag), NEW x \in S
  PROVE  /\ LogOK(Store(log, x, lag), S, lag)
         /\ Live(Store(log, x, lag)) = x
         /\ OnlyNew(Store(log, x, lag), log, x)
<1>1. CASE x = Live(log)
  BY <1>1 DEF Store, LogOK, OnlyNew
<1>2. CASE x # Live(log) /\ Len(log) > lag
  <2>1. Len(log) = lag + 1 /\ log # <<>>
    BY <1>2 DEF LogOK
  <2>2. /\ Tail(log) \in Seq(S) /\ Len(Tail(log)) = lag
        /\ \A i \in 1..lag : Tail(log)[i] = log[i + 1]
    BY <2>1 DEF LogOK
  <2>3. Store(log, x, lag) = Append(Tail(log), x)
    BY <1>2 DEF Store
  <2> QED
    BY <2>1, <2>2, <2>3 DEF LogOK, Live, Last, OnlyNew
<1>3. CASE x # Live(log) /\ ~(Len(log) > lag)
  <2>1. Store(log, x, lag) = Append(log, x)
    BY <1>3 DEF Store
  <2> QED
    BY <1>3, <2>1 DEF LogOK, Live, Last, OnlyNew
<1> QED
  BY <1>1, <1>2, <1>3

\* An informer catches up, or the operator restarts: nothing is written.
LEMMA TailKeeps ==
  ASSUME NEW S, NEW lag \in Nat, NEW log, LogOK(log, S, lag), Len(log) > 1
  PROVE  /\ LogOK(Tail(log), S, lag) /\ Live(Tail(log)) = Live(log)
         /\ OnlyNew(Tail(log), log, Live(log))
<1>1. /\ Tail(log) \in Seq(S) /\ Len(Tail(log)) = Len(log) - 1 /\ Len(log) \in Nat
      /\ \A i \in 1..(Len(log) - 1) : Tail(log)[i] = log[i + 1]
  BY DEF LogOK
<1> QED
  BY <1>1 DEF LogOK, Live, Last, OnlyNew

LEMMA OnlyLive ==
  ASSUME NEW S, NEW lag \in Nat, NEW x \in S, NEW old
  PROVE  LogOK(<<x>>, S, lag) /\ Live(<<x>>) = x /\ OnlyNew(<<x>>, old, x)
BY DEF LogOK, Live, Last, OnlyNew

\* A set of bounded numbers has a maximum.
LEMMA MaxOfIsMax ==
  ASSUME NEW n \in Nat, NEW S, S \subseteq 0..n, S # {}
  PROVE  MaxOf(S) \in S /\ \A y \in S : y <= MaxOf(S)
<1> DEFINE T == {m \in 0..n : n - m \in S}
<1>1. T \subseteq Nat
  OBVIOUS
<1>2. T # {}
  <2>1. PICK x \in S : TRUE
    OBVIOUS
  <2>2. n - x \in 0..n /\ n - (n - x) = x
    BY <2>1
  <2> QED
    BY <2>1, <2>2
<1>3. PICK m \in T : \A y \in T : ~(<<y, m>> \in OpToRel(<, Nat))
  <2> HIDE DEF T
  <2> QED
    BY <1>1, <1>2, NatLessThanWellFounded, WFMin
<1>4. ASSUME NEW y \in S PROVE y <= n - m
  <2>1. n - y \in T
    BY <1>4
  <2>2. ~(n - y < m)
    BY <1>1, <1>3, <2>1 DEF OpToRel
  <2> QED
    BY <2>2
<1>5. \E x \in S : \A y \in S : x >= y
  <2>1. n - m \in S
    OBVIOUS
  <2> QED
    BY <1>4, <2>1
<1> QED
  BY <1>5 DEF MaxOf

-----------------------------------------------------------------------------
(* Types *)

AllSubs == [Subs -> Subscription]
AllCSVs == [Subs -> [Versions -> CSV]]
AllPlans == [Plans -> InstallPlan]
AllRes == [at : {"Idle", "Listed", "Resolved", "Created", "Writing"},
           subs : AllSubs, fresh : AllSubs, steps : SUBSET Step,
           updated : SUBSET Subs, plan : 0..MaxPlans, todo : SUBSET Subs]
AllExec == [Plans -> [plan : InstallPlan, done : SUBSET Step]]

\* TypeOK, with the logs as sequences.
TypeInv ==
  /\ head \in [Subs -> Versions]
  /\ LogOK(subLog, AllSubs, SubLag)
  /\ LogOK(csvLog, AllCSVs, CSVLag)
  /\ LogOK(planLog, AllPlans, PlanLag)
  /\ res \in AllRes /\ exec \in AllExec /\ faults \in 0..MaxFaults

LEMMA LiveTypes ==
  ASSUME TypeInv
  PROVE  /\ sub \in AllSubs /\ csv \in AllCSVs /\ plan \in AllPlans
         /\ Cached(subLog) \in AllSubs /\ Cached(csvLog) \in AllCSVs
         /\ Cached(planLog) \in AllPlans
BY LogEnds, ConstantsAssumption DEF TypeInv, sub, csv, plan

LEMMA ConstantTypes ==
  /\ NoSubStatus \in Subscription /\ NoSubs \in AllSubs /\ Unborn \in InstallPlan
  /\ Idle \in AllRes /\ NotRunning \in [plan : InstallPlan, done : SUBSET Step]
<1>1. NoSubStatus \in Subscription
  BY ConstantsAssumption DEF NoSubStatus, Subscription, States
<1>2. Unborn \in InstallPlan
  BY ConstantsAssumption DEF Unborn, InstallPlan
<1>3. NoSubs \in AllSubs
  BY <1>1 DEF NoSubs, AllSubs
<1>4. Idle \in AllRes
  BY <1>3, ConstantsAssumption DEF Idle, AllRes
<1> QED
  BY <1>1, <1>2, <1>3, <1>4 DEF NotRunning

\* What the three kinds of writes leave behind.
LEMMA WriteSubs ==
  ASSUME TypeInv, NEW x \in AllSubs, StoreSubs(x)
  PROVE  LogOK(subLog', AllSubs, SubLag) /\ sub' = x
<1>1. LogOK(subLog, AllSubs, SubLag) /\ SubLag \in Nat /\ subLog' = Store(subLog, x, SubLag)
  BY ConstantsAssumption DEF TypeInv, StoreSubs
<1> QED
  BY <1>1, StoreWrites DEF sub

LEMMA WriteCSVs ==
  ASSUME TypeInv, NEW x \in AllCSVs, StoreCSVs(x)
  PROVE  LogOK(csvLog', AllCSVs, CSVLag) /\ csv' = x
<1>1. LogOK(csvLog, AllCSVs, CSVLag) /\ CSVLag \in Nat /\ csvLog' = Store(csvLog, x, CSVLag)
  BY ConstantsAssumption DEF TypeInv, StoreCSVs
<1> QED
  BY <1>1, StoreWrites DEF csv

LEMMA WritePlans ==
  ASSUME TypeInv, NEW x \in AllPlans, StorePlans(x)
  PROVE  /\ LogOK(planLog', AllPlans, PlanLag) /\ plan' = x
         /\ OnlyNew(planLog', planLog, plan')
<1>1. LogOK(planLog, AllPlans, PlanLag) /\ PlanLag \in Nat /\ planLog' = Store(planLog, x, PlanLag)
  BY ConstantsAssumption DEF TypeInv, StorePlans
<1> QED
  BY <1>1, StoreWrites DEF plan

\* UpdateStatus of one plan: it is written, or refused.
LEMMA PutPlanWrites ==
  ASSUME TypeInv, NEW p \in Plans, NEW old, NEW new \in InstallPlan, PutPlan(p, old, new)
  PROVE  /\ LogOK(planLog', AllPlans, PlanLag)
         /\ \/ plan[p] = old /\ plan' = [plan EXCEPT ![p] = new]
            \/ planLog' = planLog
         /\ OnlyNew(planLog', planLog, plan')
<1>1. CASE plan[p] = old
  <2>1. [plan EXCEPT ![p] = new] \in AllPlans
    BY LiveTypes DEF AllPlans
  <2> QED
    BY <1>1, <2>1, WritePlans DEF PutPlan
<1>2. CASE plan[p] # old
  <2>1. LogOK(planLog, AllPlans, PlanLag) /\ PlanLag \in Nat /\ planLog' = planLog
    BY <1>2, ConstantsAssumption DEF PutPlan, TypeInv
  <2> QED
    BY <2>1 DEF OnlyNew
<1> QED
  BY <1>1, <1>2

\* Restart and the informers.
LEMMA CatchUp ==
  ASSUME TypeInv, Informers \/ Restart
  PROVE  /\ TypeInv' /\ sub' = sub /\ csv' = csv /\ plan' = plan /\ head' = head
         /\ OnlyNew(planLog', planLog, plan')
         /\ UNCHANGED <<res, exec>> \/ (res' = Idle /\ exec' = [p \in Plans |-> NotRunning])
<1>0. {SubLag, CSVLag, PlanLag} \subseteq Nat
  BY ConstantsAssumption
<1>1. CASE ObserveSubscriptions
  <2>1. /\ LogOK(subLog', AllSubs, SubLag) /\ sub' = sub
    BY <1>0, <1>1, TailKeeps DEF ObserveSubscriptions, TypeInv, sub
  <2> QED
    BY <1>1, <2>1 DEF ObserveSubscriptions, TypeInv, sub, csv, plan, OnlyNew
<1>2. CASE ObserveCSVs
  <2>1. /\ LogOK(csvLog', AllCSVs, CSVLag) /\ csv' = csv
    BY <1>0, <1>2, TailKeeps DEF ObserveCSVs, TypeInv, csv
  <2> QED
    BY <1>2, <2>1 DEF ObserveCSVs, TypeInv, sub, csv, plan, OnlyNew
<1>3. CASE ObserveInstallPlans
  <2>1. /\ LogOK(planLog', AllPlans, PlanLag) /\ plan' = plan
        /\ OnlyNew(planLog', planLog, plan')
    BY <1>0, <1>3, TailKeeps DEF ObserveInstallPlans, TypeInv, plan
  <2> QED
    BY <1>3, <2>1 DEF ObserveInstallPlans, TypeInv, sub, csv, plan
<1>4. CASE Restart
  <2>1. faults' \in 0..MaxFaults
    BY <1>4, ConstantsAssumption DEF Restart, Fault, TypeInv
  <2>2. exec' \in AllExec /\ res' \in AllRes
    BY <1>4, ConstantTypes DEF Restart, AllExec
  <2>3. /\ LogOK(subLog', AllSubs, SubLag) /\ sub' = sub
        /\ LogOK(csvLog', AllCSVs, CSVLag) /\ csv' = csv
        /\ LogOK(planLog', AllPlans, PlanLag) /\ plan' = plan
        /\ OnlyNew(planLog', planLog, plan')
    BY <1>4, LiveTypes, OnlyLive, ConstantsAssumption DEF Restart, sub, csv, plan
  <2> QED
    BY <1>4, <2>1, <2>2, <2>3 DEF Restart, TypeInv
<1> QED
  BY <1>1, <1>2, <1>3, <1>4 DEF Informers

-----------------------------------------------------------------------------
(* What only moves one way *)

\* cs: the CSVs stored; a CSV that was created is never again one that was not.
Made(s, v, cs) == cs[s][v].phase # "Absent"
Grows(cs, cs2) == \A s \in Subs, v \in Versions : Made(s, v, cs) => Made(s, v, cs2)

\* A plan l and a later state of it.  Only CreateInstallPlan begets plans.
Later(l, l2) ==
  /\ l.approved => l2.approved
  /\ l.steps \subseteq l2.steps
  /\ l.phase # "Unborn" => l2.phase # "Unborn" /\ l2.gen = l.gen
Moved(l, l2) ==
  /\ Later(l, l2)
  /\ Listed(l2) => Listed(l)
  /\ l.phase = "Unborn" => l2 = l

\* What every copy of a plan says of itself, and of the plan as stored now.
PlanOK(c, cs) ==
  /\ c.phase = "Unborn" => c = Unborn
  /\ c.phase = "NoStatus" => c.steps = {}
  /\ c.phase \in {"Installing", "Failed", "Complete"} => c.approved
  /\ c.phase = "Complete" => c.steps \subseteq c.done
  /\ \A t \in c.done : Made(t.sub, t.version, cs)
CopyOK(c, l) == (c.approved => l.approved) /\ c.steps \subseteq l.steps

\* A plan worker: it holds a copy of an Installing plan.
ExecOK(e, l, cs) ==
  /\ PlanOK(e.plan, cs) /\ CopyOK(e.plan, l)
  /\ e.plan.phase = "Installing" \/ e = NotRunning
  /\ \A t \in e.done : Made(t.sub, t.version, cs)

PlansInv ==
  /\ \A p \in Plans, i \in DOMAIN planLog :
       PlanOK(planLog[i][p], csv) /\ CopyOK(planLog[i][p], plan[p])
  /\ \A p \in Plans : ExecOK(exec[p], plan[p], csv)

LEMMA StaysOK ==
  ASSUME NEW c \in InstallPlan, NEW cs, NEW cs2, PlanOK(c, cs), Grows(cs, cs2)
  PROVE  PlanOK(c, cs2)
<1>1. \A t \in c.done : t.sub \in Subs /\ t.version \in Versions
  BY DEF InstallPlan, Step
<1> QED
  BY <1>1 DEF PlanOK, Grows

LEMMA PlansStep ==
  ASSUME TypeInv, TypeInv', PlansInv, OnlyNew(planLog', planLog, plan'), Grows(csv, csv'),
         \A p \in Plans : PlanOK(plan'[p], csv') /\ Later(plan[p], plan'[p]),
         \A p \in Plans : exec'[p] = exec[p] \/ ExecOK(exec'[p], plan'[p], csv')
  PROVE  PlansInv'
<1>1. ASSUME NEW p \in Plans, NEW i \in DOMAIN planLog'
      PROVE  PlanOK(planLog'[i][p], csv') /\ CopyOK(planLog'[i][p], plan'[p])
  <2>1. CASE planLog'[i] = plan'
    BY <2>1 DEF CopyOK
  <2>2. CASE \E j \in DOMAIN planLog : planLog'[i] = planLog[j]
    <3>1. PICK j \in DOMAIN planLog : planLog'[i] = planLog[j]
      BY <2>2
    <3>2. planLog[j][p] \in InstallPlan
      BY DEF TypeInv, LogOK, AllPlans
    <3>3. PlanOK(planLog[j][p], csv) /\ CopyOK(planLog[j][p], plan[p])
      BY DEF PlansInv
    <3> QED
      BY <3>1, <3>2, <3>3, StaysOK DEF CopyOK, Later
  <2> QED
    BY <2>1, <2>2 DEF OnlyNew
<1>2. ASSUME NEW p \in Plans PROVE ExecOK(exec'[p], plan'[p], csv')
  <2>1. CASE exec'[p] = exec[p]
    <3>1. exec[p].plan \in InstallPlan /\ exec[p].done \subseteq Step
      BY DEF TypeInv, AllExec
    <3>2. ExecOK(exec[p], plan[p], csv)
      BY DEF PlansInv
    <3>3. PlanOK(exec[p].plan, csv')
      BY <3>1, <3>2, StaysOK DEF ExecOK
    <3>4. \A t \in exec[p].done : Made(t.sub, t.version, csv')
      BY <3>1, <3>2 DEF ExecOK, Grows, Step
    <3> QED
      BY <2>1, <3>2, <3>3, <3>4 DEF ExecOK, CopyOK, Later
  <2> QED
    BY <2>1
<1> QED
  BY <1>1, <1>2 DEF PlansInv

\* The plan as stored is one of the copies.
LEMMA PlansNow ==
  ASSUME TypeInv, PlansInv, NEW p \in Plans
  PROVE  /\ PlanOK(plan[p], csv) /\ plan[p] \in InstallPlan
         /\ PlanOK(Cached(planLog)[p], csv) /\ CopyOK(Cached(planLog)[p], plan[p])
         /\ Cached(planLog)[p] \in InstallPlan
         /\ ExecOK(exec[p], plan[p], csv)
         /\ exec[p] \in [plan : InstallPlan, done : SUBSET Step]
<1>1. /\ \E i \in DOMAIN planLog : plan = planLog[i]
      /\ \E i \in DOMAIN planLog : Cached(planLog) = planLog[i]
  BY LogEnds, ConstantsAssumption DEF TypeInv, plan
<1>2. plan[p] \in InstallPlan /\ Cached(planLog)[p] \in InstallPlan
  BY LiveTypes DEF AllPlans
<1> QED
  BY <1>1, <1>2 DEF PlansInv, TypeInv, AllExec

\* A plan written by UpdateStatus.
LEMMA PutPlanKeeps ==
  ASSUME TypeInv, PlansInv, NEW p \in Plans, NEW old, NEW new \in InstallPlan,
         PutPlan(p, old, new), PlanOK(new, csv), old = plan[p] => Moved(old, new)
  PROVE  /\ LogOK(planLog', AllPlans, PlanLag) /\ OnlyNew(planLog', planLog, plan')
         /\ \A q \in Plans : PlanOK(plan'[q], csv) /\ Moved(plan[q], plan'[q])
<1>1. \A q \in Plans : PlanOK(plan[q], csv) /\ Moved(plan[q], plan[q])
  BY PlansNow DEF Moved, Later
<1>2. CASE plan[p] = old /\ plan' = [plan EXCEPT ![p] = new]
  <2>1. \A q \in Plans : plan'[q] = IF q = p THEN new ELSE plan[q]
    BY <1>2, LiveTypes DEF AllPlans
  <2> QED
    BY <1>1, <1>2, <2>1, PutPlanWrites
<1>3. CASE planLog' = planLog
  <2>1. plan' = plan
    BY <1>3 DEF plan
  <2> QED
    BY <1>1, <2>1, PutPlanWrites
<1> QED
  BY <1>2, <1>3, PutPlanWrites

-----------------------------------------------------------------------------
(* The workers of plans, users and the CSVs *)

\* A step that begets no plan, keeps the types and what copies of plans say.
OneWay ==
  /\ TypeInv' /\ PlansInv' /\ Grows(csv, csv')
  /\ \A p \in Plans : Moved(plan[p], plan'[p])
  /\ \A s \in Subs : head[s] <= head'[s]

\* What matters of a step on plans and their workers.
LEMMA OnPlans ==
  ASSUME TypeInv, PlansInv, UNCHANGED <<head, subLog, csvLog, res>>,
         faults' \in 0..MaxFaults, exec' \in AllExec,
         LogOK(planLog', AllPlans, PlanLag), OnlyNew(planLog', planLog, plan'),
         \A q \in Plans : PlanOK(plan'[q], csv) /\ Moved(plan[q], plan'[q]),
         \A q \in Plans : exec'[q] = exec[q] \/ ExecOK(exec'[q], plan'[q], csv)
  PROVE  OneWay
<1>1. TypeInv' /\ csv' = csv
  BY DEF TypeInv, csv
<1>2. Grows(csv, csv') /\ \A q \in Plans : Later(plan[q], plan'[q])
  BY <1>1 DEF Grows, Moved
<1>3. PlansInv'
  BY <1>1, <1>2, PlansStep
<1>4. \A s \in Subs : head[s] <= head'[s]
  BY DEF TypeInv, Versions
<1> QED
  BY <1>1, <1>2, <1>3, <1>4 DEF OneWay

LEMMA NotRunningOK ==
  ASSUME NEW l, NEW cs
  PROVE  ExecOK(NotRunning, l, cs)
BY DEF ExecOK, NotRunning, PlanOK, CopyOK, Unborn

\* One step more: SyncApproval, AttachServiceAccount, TriggerInstallPlanRetry.
LEMMA SyncPlanKeeps ==
  ASSUME TypeInv, PlansInv, NEW p \in Plans,
         AttachServiceAccount(p) \/ SyncApproval(p) \/ TriggerInstallPlanRetry(p)
  PROVE  OneWay
<1> DEFINE cp == Cached(planLog)[p]
<1>1. cp \in InstallPlan /\ PlanOK(cp, csv)
  BY PlansNow
<1> HIDE DEF cp
<1>2. PICK new \in {[cp EXCEPT !.sa = TRUE], [cp EXCEPT !.phase = "Installing"]} :
        /\ PutPlan(p, cp, new)
        /\ cp.phase \in {"RequiresApproval", "Installing", "Failed"}
        /\ new = [cp EXCEPT !.phase = "Installing"] => cp.approved
  <2>1. CASE AttachServiceAccount(p)
    <3>1. /\ cp.phase \in {"RequiresApproval", "Installing"}
          /\ PutPlan(p, cp, [cp EXCEPT !.sa = TRUE])
      BY <2>1 DEF AttachServiceAccount, Syncable, cp
    <3>2. [cp EXCEPT !.sa = TRUE] = [cp EXCEPT !.phase = "Installing"] => cp.approved
      BY <1>1, <3>1 DEF InstallPlan, PlanOK
    <3> QED
      BY <3>1, <3>2
  <2>2. CASE SyncApproval(p)
    BY <2>2 DEF SyncApproval, cp
  <2>3. CASE TriggerInstallPlanRetry(p)
    BY <1>1, <2>3 DEF TriggerInstallPlanRetry, PlanOK, cp
  <2> QED
    BY <2>1, <2>2, <2>3
<1>3. new \in InstallPlan /\ new.phase \in {cp.phase, "Installing"} /\ new.steps = cp.steps
      /\ new.done = cp.done /\ new.approved = cp.approved /\ new.gen = cp.gen
      /\ (new.phase = "Installing" => cp.approved)
  BY <1>1, <1>2 DEF InstallPlan, PlanOK
<1>4. PlanOK(new, csv) /\ Moved(cp, new)
  BY <1>1, <1>2, <1>3 DEF PlanOK, Moved, Later, Listed
<1>5. UNCHANGED <<head, subLog, csvLog, res, exec, faults>>
  BY DEF AttachServiceAccount, SyncApproval, TriggerInstallPlanRetry
<1> QED
  BY <1>2, <1>3, <1>4, <1>5, PutPlanKeeps, OnPlans DEF TypeInv

LEMMA StartExecutingKeeps ==
  ASSUME TypeInv, PlansInv, NEW p \in Plans, StartExecuting(p)
  PROVE  OneWay
<1> DEFINE cp == Cached(planLog)[p]
<1>1. /\ cp \in InstallPlan /\ PlanOK(cp, csv) /\ CopyOK(cp, plan[p])
      /\ \A q \in Plans : PlanOK(plan[q], csv)
  BY PlansNow
<1>2. /\ exec' = [exec EXCEPT ![p] = [plan |-> cp, done |-> cp.done]]
      /\ cp.phase = "Installing"
      /\ UNCHANGED <<head, subLog, csvLog, planLog, res, faults>>
  BY DEF StartExecuting
<1> HIDE DEF cp
<1>3. exec' \in AllExec
  BY <1>1, <1>2 DEF TypeInv, AllExec, InstallPlan
<1>4. ExecOK([plan |-> cp, done |-> cp.done], plan[p], csv)
  BY <1>1, <1>2 DEF ExecOK, PlanOK
<1>5. plan' = plan /\ \A q \in Plans : Moved(plan[q], plan'[q])
  BY <1>2 DEF plan, Moved, Later
<1>6. OnlyNew(planLog', planLog, plan')
  BY <1>2 DEF OnlyNew
<1>7. \A q \in Plans : exec'[q] = exec[q] \/ ExecOK(exec'[q], plan'[q], csv)
  BY <1>2, <1>4, <1>5 DEF TypeInv, AllExec
<1> QED
  BY <1>1, <1>2, <1>3, <1>5, <1>6, <1>7, OnPlans DEF TypeInv

LEMMA EndExecutingKeeps ==
  ASSUME TypeInv, PlansInv, NEW p \in Plans, FinishExecuting(p) \/ ExecuteStepFails(p)
  PROVE  OneWay
<1> DEFINE cp == exec[p].plan
<1>1. /\ cp \in InstallPlan /\ exec[p].done \subseteq Step
      /\ ExecOK(exec[p], plan[p], csv)
  BY PlansNow
<1>2. PICK phase \in {"Complete", "Installing", "Failed"} :
        /\ PutPlan(p, cp, [cp EXCEPT !.phase = phase, !.done = exec[p].done, !.started = TRUE])
        /\ phase = "Complete" => cp.steps = exec[p].done
        /\ Executing(p)
  BY DEF FinishExecuting, ExecuteStepFails
<1>3. /\ exec' = [exec EXCEPT ![p] = NotRunning] /\ faults' \in 0..MaxFaults
      /\ UNCHANGED <<head, subLog, csvLog, res>>
  <2>1. CASE FinishExecuting(p)
    BY <2>1 DEF FinishExecuting, TypeInv
  <2>2. CASE ExecuteStepFails(p)
    <3>1. Fault
      BY <2>2 DEF ExecuteStepFails
    <3>2. faults' \in 0..MaxFaults
      BY <3>1, ConstantsAssumption DEF Fault, TypeInv
    <3> QED
      BY <2>2, <3>2 DEF ExecuteStepFails
  <2> QED
    BY <2>1, <2>2
<1> HIDE DEF cp
<1> DEFINE new == [cp EXCEPT !.phase = phase, !.done = exec[p].done, !.started = TRUE]
<1>4. /\ new \in InstallPlan /\ new.phase = phase /\ new.done = exec[p].done
      /\ new.steps = cp.steps /\ new.approved = cp.approved /\ new.gen = cp.gen
  BY <1>1 DEF InstallPlan
<1>5. \A q \in Plans : exec'[q] = exec[q] \/ ExecOK(exec'[q], plan'[q], csv)
  BY <1>3, NotRunningOK DEF TypeInv, AllExec
<1>6. exec' \in AllExec
  BY <1>3, ConstantTypes DEF TypeInv, AllExec
<1>7. CASE cp.phase = "Installing"
  <2>1. PlanOK(new, csv) /\ Moved(cp, new)
    BY <1>1, <1>2, <1>4, <1>7 DEF PlanOK, ExecOK, Moved, Later, Listed, cp
  <2> QED
    BY <1>2, <1>3, <1>4, <1>5, <1>6, <2>1, PutPlanKeeps, OnPlans
<1>8. exec[p] # NotRunning
  BY <1>2 DEF Executing
<1> QED
  BY <1>1, <1>7, <1>8 DEF ExecOK, cp

\* The steps that create or change CSVs.
LEMMA OnCSVs ==
  ASSUME TypeInv, PlansInv, UNCHANGED <<head, subLog, planLog, res>>,
         faults' \in 0..MaxFaults, exec' \in AllExec,
         LogOK(csvLog', AllCSVs, CSVLag), Grows(csv, csv'),
         \A q \in Plans : exec'[q] = exec[q] \/ ExecOK(exec'[q], plan'[q], csv')
  PROVE  OneWay
<1>1. TypeInv' /\ plan' = plan
  BY DEF TypeInv, plan
<1>2. \A q \in Plans : Moved(plan[q], plan'[q]) /\ Later(plan[q], plan'[q])
  BY <1>1 DEF Moved, Later
<1>3. \A q \in Plans : PlanOK(plan'[q], csv')
  BY <1>1, PlansNow, StaysOK
<1>4. OnlyNew(planLog', planLog, plan')
  BY DEF OnlyNew
<1>5. PlansInv'
  BY <1>1, <1>2, <1>3, <1>4, PlansStep
<1>6. \A s \in Subs : head[s] <= head'[s]
  BY DEF TypeInv, Versions
<1> QED
  BY <1>1, <1>2, <1>5, <1>6 DEF OneWay

LEMMA ExecuteStepKeeps ==
  ASSUME TypeInv, PlansInv, NEW p \in Plans, NEW t \in exec[p].plan.steps, ExecuteStep(p, t)
  PROVE  OneWay
<1>1. /\ exec[p].plan \in InstallPlan /\ exec[p].done \subseteq Step
      /\ exec[p] \in [plan : InstallPlan, done : SUBSET Step]
      /\ ExecOK(exec[p], plan[p], csv)
  BY PlansNow
<1>2. t \in Step /\ t.sub \in Subs /\ t.version \in Versions /\ t.replaces \in 0..MaxVersion
  BY <1>1 DEF InstallPlan, Step
<1>3. csv \in AllCSVs
  BY LiveTypes
<1>4. /\ LogOK(csvLog', AllCSVs, CSVLag) /\ Grows(csv, csv')
      /\ Made(t.sub, t.version, csv')
  <2>1. CASE Present(csv[t.sub][t.version])
    <3>1. csvLog' = csvLog
      BY <2>1 DEF ExecuteStep
    <3> QED
      BY <2>1, <3>1 DEF TypeInv, csv, Grows, Made, Present
  <2>2. CASE ~ Present(csv[t.sub][t.version])
    <3> DEFINE new == [phase |-> "Installing", replaces |-> t.replaces]
               x == [csv EXCEPT ![t.sub][t.version] = new]
    <3>1. new \in CSV /\ new.phase # "Absent"
      BY <1>2 DEF CSV
    <3>2. StoreCSVs(x)
      BY <2>2 DEF ExecuteStep
    <3> HIDE DEF new
    <3>3. /\ x \in AllCSVs
          /\ \A s \in Subs, v \in Versions :
               x[s][v] = IF s = t.sub /\ v = t.version THEN new ELSE csv[s][v]
      BY <1>2, <1>3, <3>1 DEF AllCSVs
    <3> HIDE DEF x
    <3> QED
      BY <1>2, <3>1, <3>2, <3>3, WriteCSVs DEF Grows, Made
  <2> QED
    BY <2>1, <2>2
<1>5. /\ exec' = [exec EXCEPT ![p].done = @ \cup {t}]
      /\ UNCHANGED <<head, subLog, planLog, res, faults>>
  BY DEF ExecuteStep
<1>6. /\ exec' \in AllExec
      /\ \A q \in Plans : q # p => exec'[q] = exec[q]
      /\ exec'[p].plan = exec[p].plan /\ exec'[p].done = exec[p].done \cup {t}
  BY <1>1, <1>2, <1>5 DEF TypeInv, AllExec
<1>7. ExecOK(exec'[p], plan'[p], csv')
  <2>1. PlanOK(exec[p].plan, csv')
    BY <1>1, <1>4, StaysOK DEF ExecOK
  <2>2. exec[p].plan.phase = "Installing"
    BY <1>1 DEF ExecOK, NotRunning, Unborn
  <2>3. \A u \in exec'[p].done : Made(u.sub, u.version, csv')
    BY <1>1, <1>4, <1>6 DEF ExecOK, Grows, Step
  <2>4. plan' = plan
    BY <1>5 DEF plan
  <2> QED
    BY <1>1, <1>6, <2>1, <2>2, <2>3, <2>4 DEF ExecOK
<1> QED
  BY <1>4, <1>5, <1>6, <1>7, OnCSVs DEF TypeInv

\* The OLM operator changes CSVs that were created.
CSVStep(s, v) == CSVController(s, v) \/ CSVFails(s, v)

LEMMA CSVControllerKeeps ==
  ASSUME TypeInv, PlansInv, NEW s \in Subs, NEW v \in Versions, CSVStep(s, v)
  PROVE  OneWay /\ \A r \in Subs, w \in Versions : Present(csv'[r][w]) => Present(csv[r][w])
<1>1. csv \in AllCSVs /\ csv[s][v] \in CSV
  BY LiveTypes DEF AllCSVs
<1>2. PICK phase \in {"Installing", "Succeeded", "Failed", "Replacing", "Gone"} :
        PutCSV(s, v, phase) /\ Present(csv[s][v])
  BY DEF CSVStep, CSVController, CSVSucceeds, CSVFails, CSVRecovers, CSVReplaced, CSVCollected,
         Present
<1>3. UNCHANGED <<head, subLog, planLog, res, exec>> /\ faults' \in 0..MaxFaults
  <2>1. faults' = faults \/ Fault
    BY DEF CSVStep, CSVController, CSVSucceeds, CSVFails, CSVRecovers, CSVReplaced, CSVCollected
  <2>2. faults' \in 0..MaxFaults
    BY <2>1, ConstantsAssumption DEF Fault, TypeInv
  <2> QED
    BY <2>2 DEF CSVStep, CSVController, CSVSucceeds, CSVFails, CSVRecovers, CSVReplaced, CSVCollected
<1> DEFINE x == [csv EXCEPT ![s][v].phase = phase]
<1>4. /\ x \in AllCSVs /\ x[s][v].phase = phase
      /\ \A r \in Subs, w \in Versions : r # s \/ w # v => x[r][w] = csv[r][w]
  BY <1>1 DEF AllCSVs, CSV
<1>5. StoreCSVs(x)
  BY <1>2 DEF PutCSV
<1> HIDE DEF x
<1>6. LogOK(csvLog', AllCSVs, CSVLag) /\ csv' = x
  BY <1>4, <1>5, WriteCSVs
<1>7. Grows(csv, csv')
  BY <1>4, <1>6 DEF Grows, Made
<1>8. \A r \in Subs, w \in Versions : Present(csv'[r][w]) => Present(csv[r][w])
  BY <1>2, <1>4, <1>6
<1> QED
  BY <1>3, <1>6, <1>7, <1>8, OnCSVs DEF TypeInv

\* Users approve and delete plans; a catalog publishes.
LEMMA UsersKeep ==
  ASSUME TypeInv, PlansInv, Users
  PROVE  OneWay
<1>1. ASSUME NEW p \in Plans, Approve(p) PROVE OneWay
  <2>1. plan \in AllPlans /\ plan[p] \in InstallPlan /\ PlanOK(plan[p], csv)
    BY LiveTypes, PlansNow
  <2> DEFINE new == [plan[p] EXCEPT !.approved = TRUE]
  <2>2. /\ new \in InstallPlan /\ new.approved = TRUE /\ new.phase = plan[p].phase
        /\ new.steps = plan[p].steps /\ new.done = plan[p].done /\ new.gen = plan[p].gen
    BY <2>1 DEF InstallPlan
  <2>3. [plan EXCEPT ![p].approved = TRUE] = [plan EXCEPT ![p] = new]
    BY <2>1 DEF AllPlans
  <2>4. PutPlan(p, plan[p], new) /\ Listed(plan[p])
    BY <1>1, <2>3 DEF Approve, PutPlan
  <2> HIDE DEF new
  <2>5. PlanOK(new, csv) /\ Moved(plan[p], new)
    BY <2>1, <2>2, <2>4 DEF PlanOK, Moved, Later, Listed
  <2> QED
    BY <1>1, <2>2, <2>4, <2>5, PutPlanKeeps, OnPlans DEF Approve, TypeInv
<1>2. ASSUME NEW p \in Plans, DeletePlan(p) PROVE OneWay
  <2>1. plan \in AllPlans /\ plan[p] \in InstallPlan /\ PlanOK(plan[p], csv)
    BY LiveTypes, PlansNow
  <2> DEFINE new == [plan[p] EXCEPT !.phase = "Deleted"]
  <2>2. /\ new \in InstallPlan /\ new.phase = "Deleted" /\ new.approved = plan[p].approved
        /\ new.steps = plan[p].steps /\ new.done = plan[p].done /\ new.gen = plan[p].gen
    BY <2>1 DEF InstallPlan
  <2>3. Without(plan, {p}) = [plan EXCEPT ![p] = new]
    BY <1>2, <2>1 DEF DeletePlan, Without, AllPlans
  <2>4. PutPlan(p, plan[p], new) /\ Listed(plan[p])
    BY <1>2, <2>3 DEF DeletePlan, PutPlan
  <2> HIDE DEF new
  <2>5. PlanOK(new, csv) /\ Moved(plan[p], new)
    BY <2>1, <2>2, <2>4 DEF PlanOK, Moved, Later, Listed
  <2>6. faults' \in 0..MaxFaults
    BY <1>2, ConstantsAssumption DEF DeletePlan, Fault, TypeInv
  <2> QED
    BY <1>2, <2>2, <2>4, <2>5, <2>6, PutPlanKeeps, OnPlans DEF DeletePlan, TypeInv
<1>3. ASSUME NEW s \in Subs, Publish(s) PROVE OneWay
  <2>1. head' \in [Subs -> Versions] /\ \A r \in Subs : head[r] <= head'[r]
    BY <1>3, ConstantsAssumption DEF Publish, TypeInv, Versions
  <2>2. UNCHANGED <<subLog, csvLog, planLog, res, exec, faults>>
    BY <1>3 DEF Publish
  <2>3. TypeInv' /\ csv' = csv /\ plan' = plan
    BY <2>1, <2>2 DEF TypeInv, csv, plan
  <2>4. PlansInv' /\ Grows(csv, csv') /\ \A p \in Plans : Moved(plan[p], plan'[p])
    BY <2>2, <2>3 DEF PlansInv, Grows, Moved, Later
  <2> QED
    BY <2>1, <2>3, <2>4 DEF OneWay
<1> QED
  BY <1>1, <1>2, <1>3, SyncPlanKeeps DEF Users


-----------------------------------------------------------------------------
(* The statuses of subscriptions, stored or about to be *)

\* Generations come from plans that were created, in the order of the plans.
Born == \A p \in Plans : plan[p].phase # "Unborn" =>
          plan[p].gen <= p /\ \A q \in Plans : q < p => plan[q].phase # "Unborn"
BornGen(g, ps) == g = 0 \/ (g \in Plans /\ ps[g].phase # "Unborn")

\* The current CSV was created, or the plan referred to creates it.
Backed(s, r, cs, ps) ==
  \/ Made(s, r.current, cs)
  \/ r.ref # 0 /\ \E t \in ps[r.ref].steps : t.sub = s /\ t.version = r.current

\* r is a status of s; ps and hd: the plans and heads as they are now.
SubOK(s, r, cs, ps, hd) ==
  /\ r.state = "None" <=> r.current = 0
  /\ r.current # 0 => Backed(s, r, cs, ps) /\ r.installed <= r.current
  /\ r.state = "AtLatest" => r.installed = r.current /\ Made(s, r.current, cs)
  /\ r.installed <= hd[s] /\ r.current <= hd[s]
  /\ BornGen(r.gen, ps)

\* A subscription the resolver moves on, by one of its steps.
FreshOK(s, f, steps, sb, hd) ==
  /\ f.installed = sb[s].installed
  /\ f.current # 0 /\ f.installed <= f.current /\ f.current <= hd[s]
  /\ \E t \in steps : t.sub = s /\ t.version = f.current

\* The namespace worker: only it changes what is installed, so its list is
\* not out of date in that.
ResOK(rs, sb, cs, ps, hd) ==
  /\ \A s \in Subs : SubOK(s, rs.subs[s], cs, ps, hd)
  /\ rs.at # "Idle" => \A s \in Subs : rs.subs[s].installed = sb[s].installed
  /\ rs.at \in {"Resolved", "Created"} =>
       \A s \in rs.updated : FreshOK(s, rs.fresh[s], rs.steps, sb, hd)
  /\ rs.at = "Created" => rs.plan \in Plans /\ ps[rs.plan].phase # "Unborn"

SubsInv ==
  /\ \A s \in Subs : SubOK(s, sub[s], csv, plan, head)
  /\ ResOK(res, sub, csv, plan, head)

LEMMA SubStays ==
  ASSUME NEW s \in Subs, NEW r \in Subscription, NEW cs, NEW cs2, NEW ps, NEW ps2, NEW hd, NEW hd2,
         hd \in [Subs -> Versions], hd2 \in [Subs -> Versions],
         SubOK(s, r, cs, ps, hd), Grows(cs, cs2), \A p \in Plans : Later(ps[p], ps2[p]),
         hd[s] <= hd2[s]
  PROVE  SubOK(s, r, cs2, ps2, hd2)
<1>1. /\ r.current # 0 => r.current \in Versions
      /\ r.ref # 0 => r.ref \in Plans
      /\ {r.current, r.installed} \subseteq Nat /\ {hd[s], hd2[s]} \subseteq Nat
  BY ConstantsAssumption DEF Subscription, Versions, Plans
<1>2. r.current # 0 /\ Made(s, r.current, cs) => Made(s, r.current, cs2)
  BY <1>1 DEF Grows
<1>3. r.current # 0 => Backed(s, r, cs2, ps2)
  BY <1>1, <1>2 DEF SubOK, Backed, Later
<1>4. BornGen(r.gen, ps2)
  BY DEF SubOK, BornGen, Later
<1>5. r.installed <= hd2[s] /\ r.current <= hd2[s]
  BY <1>1 DEF SubOK
<1>6. r.state = "AtLatest" => r.current # 0
  BY DEF SubOK
<1> QED
  BY <1>2, <1>3, <1>4, <1>5, <1>6 DEF SubOK

\* The resolver's list stays right while others act.
LEMMA ResStays ==
  ASSUME TypeInv, TypeInv', ResOK(res, sub, csv, plan, head), Grows(csv, csv'),
         \A p \in Plans : Later(plan[p], plan'[p]), \A s \in Subs : head[s] <= head'[s],
         \A s \in Subs : sub'[s].installed = sub[s].installed
  PROVE  ResOK(res, sub', csv', plan', head')
<1>1. /\ res.subs \in AllSubs /\ res.fresh \in AllSubs /\ res.updated \subseteq Subs
      /\ head \in [Subs -> Versions] /\ head' \in [Subs -> Versions]
  BY DEF TypeInv, AllRes
<1>2. \A s \in Subs : SubOK(s, res.subs[s], csv', plan', head')
  BY <1>1, SubStays DEF ResOK, AllSubs
<1>3. ASSUME NEW s \in res.updated, FreshOK(s, res.fresh[s], res.steps, sub, head)
      PROVE  FreshOK(s, res.fresh[s], res.steps, sub', head')
  <2>1. s \in Subs /\ res.fresh[s].current \in Nat /\ head[s] \in Nat /\ head'[s] \in Nat
    BY <1>1, ConstantsAssumption DEF AllSubs, Subscription, Versions
  <2> QED
    BY <1>3, <2>1 DEF FreshOK
<1>4. res.at = "Created" => res.plan \in Plans /\ plan'[res.plan].phase # "Unborn"
  BY DEF ResOK, Later
<1> QED
  BY <1>1, <1>2, <1>3, <1>4 DEF ResOK

LEMMA IdleOK ==
  ASSUME NEW sb, NEW cs, NEW ps, NEW hd \in [Subs -> Versions]
  PROVE  ResOK(Idle, sb, cs, ps, hd)
<1>1. \A s \in Subs : Idle.subs[s] = NoSubStatus
  BY DEF Idle, NoSubs
<1>2. \A s \in Subs : hd[s] \in Nat
  BY ConstantsAssumption DEF Versions
<1>3. \A s \in Subs : SubOK(s, NoSubStatus, cs, ps, hd)
  BY <1>2 DEF SubOK, NoSubStatus, BornGen
<1>4. Idle.at = "Idle"
  BY DEF Idle
<1> QED
  BY <1>1, <1>3, <1>4 DEF ResOK

\* The statuses while the namespace worker and the syncer do nothing.
LEMMA SubsQuiet ==
  ASSUME TypeInv, SubsInv, OneWay, sub' = sub, res' = res \/ res' = Idle
  PROVE  SubsInv'
<1>1. /\ TypeInv' /\ Grows(csv, csv') /\ \A p \in Plans : Later(plan[p], plan'[p])
      /\ \A s \in Subs : head[s] <= head'[s]
      /\ head \in [Subs -> Versions] /\ head' \in [Subs -> Versions]
  BY DEF OneWay, Moved, TypeInv
<1>2. \A s \in Subs : SubOK(s, sub'[s], csv', plan', head')
  BY <1>1, LiveTypes, SubStays DEF SubsInv, AllSubs
<1>3. ResOK(res', sub', csv', plan', head')
  BY <1>1, ResStays, IdleOK DEF SubsInv
<1> QED
  BY <1>2, <1>3 DEF SubsInv

LEMMA BornStays ==
  ASSUME TypeInv, Born, UniqueGeneration, OneWay
  PROVE  Born' /\ UniqueGeneration'
<1>1. \A p \in Plans : Moved(plan[p], plan'[p])
  BY DEF OneWay
<1>2. Born'
  BY <1>1 DEF Born, Moved, Later
<1>3. UniqueGeneration'
  BY <1>1 DEF UniqueGeneration, Moved, Later, Listed
<1> QED
  BY <1>2, <1>3

-----------------------------------------------------------------------------
(* The namespace worker and the subscription syncer *)

\* A step of the namespace worker or the syncer that writes no plan.
LEMMA OnSubs ==
  ASSUME TypeInv, PlansInv, UNCHANGED <<head, csvLog, planLog, exec>>,
         faults' \in 0..MaxFaults, LogOK(subLog', AllSubs, SubLag), res' \in AllRes
  PROVE  OneWay /\ csv' = csv /\ plan' = plan
<1>1. TypeInv' /\ csv' = csv /\ plan' = plan
  BY DEF TypeInv, csv, plan
<1>2. PlansInv' /\ Grows(csv, csv') /\ \A p \in Plans : Moved(plan[p], plan'[p])
  BY <1>1 DEF PlansInv, Grows, Moved, Later
<1>3. \A s \in Subs : head[s] <= head'[s]
  BY DEF TypeInv, Versions
<1> QED
  BY <1>1, <1>2, <1>3 DEF OneWay

\* ensureSubscriptionCSVState keeps a status right and never goes back.
LEMMA EnsureOK ==
  ASSUME TypeInv, NEW s \in Subs, NEW r \in Subscription, SubOK(s, r, csv, plan, head),
         NEW plans, NEW b \in BOOLEAN, NEW r2, r2 = EnsureSubscriptionCSVState(s, r, plans, b)
  PROVE  /\ r2 \in Subscription /\ SubOK(s, r2, csv, plan, head)
         /\ r.installed <= r2.installed
<1>0. {r.installed, r.current} \subseteq Nat
  BY ConstantsAssumption DEF Subscription
<1>1. CASE r2 = r
  BY <1>0, <1>1
<1>2. ASSUME NEW state \in {"AtLatest", "Failed", "UpgradePending"}, r.current # 0,
             state = "AtLatest" => Present(csv[s][r.current]),
             r2 = [r EXCEPT !.state = state,
                            !.installed = IF state = "AtLatest" THEN r.current ELSE @]
      PROVE  /\ r2 \in Subscription /\ SubOK(s, r2, csv, plan, head)
             /\ r.installed <= r2.installed
  <2>1. /\ r2 \in Subscription /\ r2.state = state /\ r2.current = r.current
        /\ r2.ref = r.ref /\ r2.gen = r.gen
        /\ r2.installed = IF state = "AtLatest" THEN r.current ELSE r.installed
    BY <1>2 DEF Subscription, States
  <2>2. state = "AtLatest" => Made(s, r.current, csv)
    BY <1>2 DEF Made, Present
  <2>3. Backed(s, r2, csv, plan)
    BY <1>2, <2>1 DEF SubOK, Backed
  <2> QED
    BY <1>0, <1>2, <2>1, <2>2, <2>3 DEF SubOK
<1>3. CASE r.current = 0
  BY <1>1, <1>3 DEF EnsureSubscriptionCSVState
<1>4. CASE r.current # 0 /\ Present(csv[s][r.current]) /\ ~ b
  <2>1. \/ r2 = r
        \/ r2 = [r EXCEPT !.state = "AtLatest",
                          !.installed = IF "AtLatest" = "AtLatest" THEN r.current ELSE @]
    BY <1>4 DEF EnsureSubscriptionCSVState
  <2> QED
    BY <1>1, <1>2, <1>4, <2>1
<1>5. CASE r.current # 0 /\ ~ (Present(csv[s][r.current]) /\ ~ b)
  <2>1. \E state \in {"Failed", "UpgradePending"} :
          \/ r2 = r
          \/ r2 = [r EXCEPT !.state = state,
                            !.installed = IF state = "AtLatest" THEN r.current ELSE @]
    BY <1>5 DEF EnsureSubscriptionCSVState
  <2> QED
    BY <1>1, <1>2, <1>5, <2>1
<1> QED
  BY <1>3, <1>4, <1>5

\* Deleted plans keep what they were.
LEMMA WithoutMoves ==
  ASSUME TypeInv, PlansInv, NEW gone
  PROVE  /\ Without(plan, gone) \in AllPlans
         /\ \A p \in Plans : /\ PlanOK(Without(plan, gone)[p], csv)
                             /\ Moved(plan[p], Without(plan, gone)[p])
<1>1. ASSUME NEW p \in Plans
      PROVE  /\ Without(plan, gone)[p] \in InstallPlan
             /\ PlanOK(Without(plan, gone)[p], csv)
             /\ Moved(plan[p], Without(plan, gone)[p])
  <2>1. plan[p] \in InstallPlan /\ PlanOK(plan[p], csv)
    BY PlansNow
  <2>2. \/ Without(plan, gone)[p] = plan[p]
        \/ /\ Listed(plan[p])
           /\ Without(plan, gone)[p] = [plan[p] EXCEPT !.phase = "Deleted"]
    BY DEF Without
  <2>3. CASE Without(plan, gone)[p] = plan[p]
    BY <2>1, <2>3 DEF Moved, Later
  <2>4. CASE Without(plan, gone)[p] = [plan[p] EXCEPT !.phase = "Deleted"] /\ Listed(plan[p])
    <3> DEFINE new == [plan[p] EXCEPT !.phase = "Deleted"]
    <3>1. /\ new \in InstallPlan /\ new.phase = "Deleted" /\ new.approved = plan[p].approved
          /\ new.steps = plan[p].steps /\ new.done = plan[p].done /\ new.gen = plan[p].gen
      BY <2>1 DEF InstallPlan
    <3> HIDE DEF new
    <3>2. PlanOK(new, csv) /\ Moved(plan[p], new)
      BY <2>1, <2>4, <3>1 DEF PlanOK, Moved, Later, Listed
    <3> QED
      BY <2>4, <3>1, <3>2 DEF new
  <2> QED
    BY <2>2, <2>3, <2>4
<1> QED
  BY <1>1 DEF Without, AllPlans

LEMMA StartResolvingKeeps ==
  ASSUME TypeInv, PlansInv, SubsInv, StartResolving
  PROVE  /\ OneWay /\ SubsInv'
         /\ \A s \in Subs : sub[s].installed <= sub'[s].installed
<1>1. PICK gone \in Swept, blind \in SUBSET Subs :
        LET plans == Without(plan, gone)
            subs == [s \in Subs |-> EnsureSubscriptionCSVState(s, sub[s], plans, s \in blind)]
        IN /\ IF blind = {} THEN NoFault ELSE Fault
           /\ StorePlans(plans)
           /\ StoreSubs(subs)
           /\ res' = IF subs # sub \/ \A s \in Subs : NothingToUpdate(subs[s])
                     THEN Idle ELSE [Idle EXCEPT !.at = "Listed", !.subs = subs]
  BY DEF StartResolving
<1> DEFINE plans == Without(plan, gone)
           subs == [s \in Subs |-> EnsureSubscriptionCSVState(s, sub[s], plans, s \in blind)]
<1>2. UNCHANGED <<head, csvLog, exec>> /\ faults' \in 0..MaxFaults
  <2>1. faults' = faults \/ Fault
    BY <1>1 DEF NoFault
  <2>2. faults' \in 0..MaxFaults
    BY <2>1, ConstantsAssumption DEF Fault, TypeInv
  <2> QED
    BY <2>2 DEF StartResolving
<1>3. /\ LogOK(planLog', AllPlans, PlanLag) /\ plan' = plans /\ OnlyNew(planLog', planLog, plan')
      /\ \A p \in Plans : PlanOK(plan'[p], csv) /\ Moved(plan[p], plan'[p])
  BY <1>1, WithoutMoves, WritePlans
<1>4. ASSUME NEW s \in Subs
      PROVE  /\ subs[s] \in Subscription /\ SubOK(s, subs[s], csv, plan, head)
             /\ sub[s].installed <= subs[s].installed
  <2>1. sub[s] \in Subscription /\ SubOK(s, sub[s], csv, plan, head)
    BY LiveTypes DEF AllSubs, SubsInv
  <2>2. subs[s] = EnsureSubscriptionCSVState(s, sub[s], plans, s \in blind)
    OBVIOUS
  <2>3. (s \in blind) \in BOOLEAN
    OBVIOUS
  <2> HIDE DEF subs
  <2> QED
    BY <2>1, <2>2, <2>3, EnsureOK
<1>5. subs \in AllSubs
  BY <1>4 DEF AllSubs
<1>6. LogOK(subLog', AllSubs, SubLag) /\ sub' = subs
  BY <1>1, <1>5, WriteSubs
<1>7. res' = Idle \/ res' = [Idle EXCEPT !.at = "Listed", !.subs = subs]
  BY <1>1
<1> HIDE DEF subs, plans
<1>8. /\ [Idle EXCEPT !.at = "Listed", !.subs = subs] \in AllRes
      /\ [Idle EXCEPT !.at = "Listed", !.subs = subs].subs = subs
      /\ [Idle EXCEPT !.at = "Listed", !.subs = subs].at = "Listed"
  BY <1>5, ConstantTypes DEF Idle, AllRes
<1>9. res' \in AllRes /\ (res' = Idle \/ (res'.at = "Listed" /\ res'.subs = subs))
  BY <1>7, <1>8, ConstantTypes
<1>10. TypeInv' /\ csv' = csv
  BY <1>2, <1>3, <1>6, <1>9 DEF TypeInv, csv
<1>11. Grows(csv, csv') /\ \A p \in Plans : Later(plan[p], plan'[p])
  BY <1>3, <1>10 DEF Grows, Moved
<1>12. PlansInv'
  BY <1>2, <1>3, <1>10, <1>11, PlansStep
<1>13. \A s \in Subs : head[s] <= head'[s]
  BY <1>2 DEF TypeInv, Versions
<1>14. \A s \in Subs : SubOK(s, subs[s], csv', plan', head')
  <2>1. head \in [Subs -> Versions] /\ head' \in [Subs -> Versions]
    BY <1>10 DEF TypeInv
  <2> QED
    BY <1>4, <1>11, <1>13, <2>1, SubStays
<1>15. ResOK(res', sub', csv', plan', head')
  <2>1. head' \in [Subs -> Versions]
    BY <1>10 DEF TypeInv
  <2> QED
    BY <1>6, <1>9, <1>14, <2>1, IdleOK DEF ResOK
<1> QED
  BY <1>3, <1>4, <1>6, <1>10, <1>11, <1>12, <1>13, <1>14, <1>15 DEF OneWay, SubsInv

\* Conditions do not matter to SubOK.
LEMMA CondsOK ==
  ASSUME NEW s, NEW r \in Subscription, NEW r2, NEW c \in SUBSET (PlanConds \cup ResolverConds),
         NEW cs, NEW ps, NEW hd, SubOK(s, r, cs, ps, hd), r2 = [r EXCEPT !.conds = c]
  PROVE  r2 \in Subscription /\ SubOK(s, r2, cs, ps, hd) /\ r2.installed = r.installed
<1>1. /\ r2 \in Subscription /\ r2.state = r.state /\ r2.current = r.current
      /\ r2.ref = r.ref /\ r2.gen = r.gen /\ r2.installed = r.installed
  BY DEF Subscription
<1> QED
  BY <1>1 DEF SubOK, Backed

\* Handing statuses over to updateSubscriptionStatuses.
LEMMA WriteOK ==
  ASSUME NEW x \in AllSubs, NEW which \in SUBSET Subs, Write(x, which),
         NEW sb, NEW cs, NEW ps, NEW hd \in [Subs -> Versions],
         \A s \in Subs : SubOK(s, x[s], cs, ps, hd) /\ x[s].installed = sb[s].installed
  PROVE  res' \in AllRes /\ ResOK(res', sb, cs, ps, hd)
<1>1. CASE res' = Idle
  BY <1>1, IdleOK, ConstantTypes
<1> DEFINE w == [Idle EXCEPT !.at = "Writing", !.subs = x, !.todo = which]
<1>2. CASE res' = w
  <2>1. w \in AllRes /\ w.at = "Writing" /\ w.subs = x
    BY ConstantTypes DEF Idle, AllRes
  <2> HIDE DEF w
  <2> QED
    BY <1>2, <2>1 DEF ResOK
<1> QED
  BY <1>1, <1>2 DEF Write

LEMMA WriteCondOK ==
  ASSUME TypeInv, SubsInv, NEW cond \in ResolverConds, NEW same, WriteCond(cond, same),
         res.at # "Idle"
  PROVE  res' \in AllRes /\ ResOK(res', sub, csv, plan, head)
<1> DEFINE subs == [s \in Subs |-> [res.subs[s] EXCEPT !.conds = (@ \ same) \cup {cond}]]
           which == {s \in Subs : subs[s] # res.subs[s]}
<1>1. Write(subs, which)
  BY DEF WriteCond
<1>2. ASSUME NEW s \in Subs
      PROVE  /\ subs[s] \in Subscription /\ SubOK(s, subs[s], csv, plan, head)
             /\ subs[s].installed = sub[s].installed
  <2>1. /\ res.subs[s] \in Subscription /\ SubOK(s, res.subs[s], csv, plan, head)
        /\ res.subs[s].installed = sub[s].installed
    BY DEF TypeInv, AllRes, AllSubs, SubsInv, ResOK
  <2> DEFINE c == (res.subs[s].conds \ same) \cup {cond}
  <2>2. c \in SUBSET (PlanConds \cup ResolverConds) /\ subs[s] = [res.subs[s] EXCEPT !.conds = c]
    BY <2>1 DEF Subscription
  <2> HIDE DEF subs, c
  <2> QED
    BY <2>1, <2>2, CondsOK
<1>3. subs \in AllSubs /\ which \in SUBSET Subs /\ head \in [Subs -> Versions]
  BY <1>2 DEF AllSubs, TypeInv
<1> HIDE DEF subs, which
<1> QED
  BY <1>1, <1>2, <1>3, WriteOK

\* The version the resolver picks is not older and is in the catalog.
LEMMA PickOK ==
  ASSUME NEW cs, NEW live \in Subscription, NEW top \in Versions, live.installed <= top
  PROVE  /\ Pick(cs, live, top) \in 0..MaxVersion
         /\ Pick(cs, live, top) # 0 =>
              /\ Pick(cs, live, top) \in Versions
              /\ live.installed <= Pick(cs, live, top) /\ Pick(cs, live, top) <= top
         /\ PickReplaces(cs, live, top) \in 0..MaxVersion
<1>1. live.installed \in 0..MaxVersion /\ top \in 1..MaxVersion /\ MaxVersion \in Nat
  BY ConstantsAssumption DEF Subscription, Versions
<1> QED
  BY <1>1 DEF Pick, PickReplaces, Versions

\* A step of the namespace worker that only changes what it holds.
LEMMA OnRes ==
  ASSUME TypeInv, PlansInv, SubsInv, UNCHANGED <<head, subLog, csvLog, planLog, exec>>,
         faults' \in 0..MaxFaults, res' \in AllRes, ResOK(res', sub, csv, plan, head)
  PROVE  OneWay /\ SubsInv' /\ sub' = sub
<1>1. OneWay /\ csv' = csv /\ plan' = plan
  BY OnSubs DEF TypeInv
<1>2. sub' = sub
  BY DEF sub
<1> QED
  BY <1>1, <1>2 DEF SubsInv

LEMMA ResolveStepsKeeps ==
  ASSUME TypeInv, PlansInv, SubsInv, ResolveSteps
  PROVE  OneWay /\ SubsInv' /\ sub' = sub
<1> DEFINE cs == Cached(csvLog)
           pick == [s \in Subs |-> Pick(cs[s], sub[s], head[s])]
           ops == ToInstall(cs, pick)
           updated == {s \in ops : sub[s].current # pick[s]}
           fresh == [s \in Subs |-> IF s \in updated THEN [sub[s] EXCEPT !.current = pick[s]]
                                    ELSE sub[s]]
           step(s) == [sub |-> s, version |-> pick[s],
                       replaces |-> PickReplaces(cs[s], sub[s], head[s])]
           steps == {step(s) : s \in ops}
           new == [res EXCEPT !.at = "Resolved", !.steps = steps,
                              !.updated = updated, !.fresh = fresh]
<1>0. /\ res.at = "Listed" /\ UNCHANGED <<head, subLog, csvLog, planLog, exec, faults>>
      /\ faults' \in 0..MaxFaults
  BY DEF ResolveSteps, TypeInv
<1>1. \/ \E cond \in ResolverConds : WriteCond(cond, ResolutionFailed)
      \/ res' = new
  BY DEF ResolveSteps, ResolverConds
<1>2. CASE \E cond \in ResolverConds : WriteCond(cond, ResolutionFailed)
  BY <1>0, <1>2, WriteCondOK, OnRes
<1>3. CASE res' = new
  <2>1. \A s \in Subs : /\ sub[s] \in Subscription /\ head[s] \in Versions
                        /\ sub[s].installed <= head[s]
    BY LiveTypes DEF TypeInv, AllSubs, SubsInv, SubOK
  <2>2. \A s \in Subs :
          /\ pick[s] \in 0..MaxVersion
          /\ pick[s] # 0 => /\ pick[s] \in Versions /\ sub[s].installed <= pick[s]
                            /\ pick[s] <= head[s]
          /\ PickReplaces(cs[s], sub[s], head[s]) \in 0..MaxVersion
    BY <2>1, PickOK
  <2>3. ops \subseteq Subs /\ updated \subseteq ops /\ \A s \in ops : pick[s] # 0
    BY DEF ToInstall
  <2>4. \A s \in updated : step(s) \in steps /\ step(s).sub = s /\ step(s).version = pick[s]
    BY <2>3
  <2>5. steps \subseteq Step
    <3>1. ASSUME NEW s \in ops
          PROVE  step(s) \in Step
      <4>1. /\ s \in Subs /\ pick[s] \in Versions
            /\ PickReplaces(cs[s], sub[s], head[s]) \in 0..MaxVersion
        BY <2>2, <2>3, <3>1
      <4> HIDE DEF pick, cs
      <4> QED
        BY <4>1 DEF Step
    <3> HIDE DEF step
    <3> QED
      BY <3>1
  <2> HIDE DEF cs, pick, ops, updated, steps
  <2>6. ASSUME NEW s \in Subs
        PROVE  fresh[s] \in Subscription /\ (s \in updated => FreshOK(s, fresh[s], steps, sub, head))
    <3>1. CASE s \notin updated
      BY <2>1, <3>1
    <3>2. CASE s \in updated
      <4>1. fresh[s] = [sub[s] EXCEPT !.current = pick[s]]
        BY <3>2
      <4>2. /\ fresh[s] \in Subscription /\ fresh[s].current = pick[s]
            /\ fresh[s].installed = sub[s].installed
        BY <2>1, <2>2, <4>1 DEF Subscription
      <4> QED
        BY <2>2, <2>3, <2>4, <3>2, <4>2 DEF FreshOK
    <3> QED
      BY <3>1, <3>2
  <2>7. fresh \in AllSubs
    BY <2>6 DEF AllSubs
  <2> HIDE DEF fresh
  <2>8. /\ new \in AllRes /\ new.subs = res.subs /\ new.at = "Resolved"
        /\ new.updated = updated /\ new.fresh = fresh /\ new.steps = steps
    BY <2>3, <2>5, <2>7 DEF TypeInv, AllRes
  <2> HIDE DEF new
  <2>9. ResOK(new, sub, csv, plan, head)
    BY <1>0, <2>3, <2>6, <2>8 DEF SubsInv, ResOK
  <2> QED
    BY <1>0, <1>3, <2>8, <2>9, OnRes
<1> QED
  BY <1>1, <1>2, <1>3

LEMMA UnpackBundlesFailsKeeps ==
  ASSUME TypeInv, PlansInv, SubsInv, UnpackBundlesFails
  PROVE  OneWay /\ SubsInv' /\ sub' = sub
<1>1. faults' \in 0..MaxFaults
  BY ConstantsAssumption DEF UnpackBundlesFails, Fault, TypeInv
<1>2. res' \in AllRes /\ ResOK(res', sub, csv, plan, head)
  <2>1. CASE res' = Idle
    BY <2>1, IdleOK, ConstantTypes DEF TypeInv
  <2>2. CASE \E cond \in {"Unpacking", "UnpackFailed"} : WriteCond(cond, {})
    BY <2>2, WriteCondOK DEF UnpackBundlesFails, ResolverConds
  <2> QED
    BY <2>1, <2>2 DEF UnpackBundlesFails
<1> QED
  BY <1>1, <1>2, OnRes DEF UnpackBundlesFails

\* The statuses without the conditions of the resolver.
LEMMA ClearedOK ==
  ASSUME TypeInv, SubsInv, NEW s \in Subs, res.at # "Idle", NEW gone,
         NEW r, r = [res.subs[s] EXCEPT !.conds = @ \ gone]
  PROVE  r \in Subscription /\ SubOK(s, r, csv, plan, head) /\ r.installed = sub[s].installed
<1>1. /\ res.subs[s] \in Subscription /\ SubOK(s, res.subs[s], csv, plan, head)
      /\ res.subs[s].installed = sub[s].installed
  BY DEF TypeInv, AllRes, AllSubs, SubsInv, ResOK
<1> DEFINE c == res.subs[s].conds \ gone
<1>2. c \in SUBSET (PlanConds \cup ResolverConds) /\ r = [res.subs[s] EXCEPT !.conds = c]
  BY <1>1 DEF Subscription
<1> HIDE DEF c
<1> QED
  BY <1>1, <1>2, CondsOK

LEMMA NoPlanNeededKeeps ==
  ASSUME TypeInv, PlansInv, SubsInv, NoPlanNeeded
  PROVE  OneWay /\ SubsInv' /\ sub' = sub
<1> DEFINE x == [s \in Subs |-> [res.subs[s] EXCEPT !.conds = @ \ ResolverConds]]
<1>1. Write(x, Subs) /\ res.at = "Resolved"
  BY DEF NoPlanNeeded
<1>2. \A s \in Subs : /\ x[s] \in Subscription /\ SubOK(s, x[s], csv, plan, head)
                      /\ x[s].installed = sub[s].installed
  BY <1>1, ClearedOK
<1>3. x \in AllSubs /\ Subs \in SUBSET Subs /\ head \in [Subs -> Versions]
  BY <1>2 DEF AllSubs, TypeInv
<1> HIDE DEF x
<1>4. res' \in AllRes /\ ResOK(res', sub, csv, plan, head)
  BY <1>1, <1>2, <1>3, WriteOK
<1> QED
  BY <1>4, OnRes DEF NoPlanNeeded, TypeInv

\* One status of a subscription is written; what is installed stays.
LEMMA OnOneSub ==
  ASSUME TypeInv, PlansInv, SubsInv, UNCHANGED <<head, csvLog, planLog, exec, faults>>,
         NEW s \in Subs, NEW r \in Subscription, SubOK(s, r, csv, plan, head),
         r.installed = sub[s].installed, StoreSubs([sub EXCEPT ![s] = r]),
         res' \in AllRes, res' = res \/ res' = Idle \/ (/\ res'.at = "Writing" /\ res.at = "Writing"
                                                        /\ res'.subs = res.subs)
  PROVE  /\ OneWay /\ SubsInv'
         /\ \A x \in Subs : sub'[x].installed = sub[x].installed
<1>1. sub \in AllSubs /\ [sub EXCEPT ![s] = r] \in AllSubs
  BY LiveTypes DEF AllSubs
<1>2. LogOK(subLog', AllSubs, SubLag) /\ sub' = [sub EXCEPT ![s] = r]
  BY <1>1, WriteSubs
<1>3. OneWay /\ csv' = csv /\ plan' = plan
  BY <1>2, OnSubs DEF TypeInv
<1>4. \A x \in Subs : sub'[x] = IF x = s THEN r ELSE sub[x]
  BY <1>1, <1>2 DEF AllSubs
<1>5. \A x \in Subs : /\ SubOK(x, sub'[x], csv, plan, head)
                      /\ sub'[x].installed = sub[x].installed
  BY <1>4 DEF SubsInv
<1>6. ResOK(res', sub', csv, plan, head)
  <2>1. CASE res' = Idle
    BY <2>1, IdleOK DEF TypeInv
  <2>2. CASE res' = res
    <3>1. /\ TypeInv' /\ Grows(csv, csv') /\ \A p \in Plans : Later(plan[p], plan'[p])
          /\ \A x \in Subs : head[x] <= head'[x]
      BY <1>3 DEF OneWay, Moved
    <3>2. ResOK(res, sub', csv', plan', head')
      BY <1>5, <3>1, ResStays DEF SubsInv
    <3> QED
      BY <1>3, <2>2, <3>2
  <2>3. CASE /\ res'.at = "Writing" /\ res.at = "Writing" /\ res'.subs = res.subs
    BY <1>5, <2>3 DEF ResOK, SubsInv
  <2> QED
    BY <2>1, <2>2, <2>3
<1> QED
  BY <1>3, <1>5, <1>6 DEF SubsInv

LEMMA UpdateSubscriptionStatusKeeps ==
  ASSUME TypeInv, PlansInv, SubsInv, NEW s \in Subs, UpdateSubscriptionStatus(s)
  PROVE  /\ OneWay /\ SubsInv'
         /\ \A x \in Subs : sub'[x].installed = sub[x].installed
<1>1. /\ res.subs[s] \in Subscription /\ SubOK(s, res.subs[s], csv, plan, head)
      /\ res.subs[s].installed = sub[s].installed /\ res.at = "Writing"
  BY DEF TypeInv, AllRes, AllSubs, SubsInv, ResOK, UpdateSubscriptionStatus
<1>2. /\ res' \in AllRes
      /\ res' = Idle \/ (res'.at = "Writing" /\ res'.subs = res.subs)
  <2> DEFINE w == [res EXCEPT !.todo = @ \ {s}]
  <2>1. w \in AllRes /\ w.at = res.at /\ w.subs = res.subs
    BY DEF TypeInv, AllRes
  <2>2. res' = Idle \/ res' = w
    BY DEF UpdateSubscriptionStatus
  <2> HIDE DEF w
  <2> QED
    BY <1>1, <2>1, <2>2, ConstantTypes
<1>3. /\ StoreSubs([sub EXCEPT ![s] = res.subs[s]])
      /\ UNCHANGED <<head, csvLog, planLog, exec, faults>>
  BY DEF UpdateSubscriptionStatus
<1> QED
  BY <1>1, <1>2, <1>3, OnOneSub

LEMMA SyncSubscriptionKeeps ==
  ASSUME TypeInv, PlansInv, SubsInv, NEW s \in Subs, SyncSubscription(s)
  PROVE  /\ OneWay /\ SubsInv'
         /\ \A x \in Subs : sub'[x].installed = sub[x].installed
<1> DEFINE r == sub[s]
           cp == Cached(planLog)[r.ref]
           out == IF Listed(cp) THEN CheckInstallPlanStatus(r, cp) ELSE InstallPlanNotFound(r)
<1>1. r \in Subscription /\ SubOK(s, r, csv, plan, head)
  BY LiveTypes DEF AllSubs, SubsInv
<1>2. /\ StoreSubs([sub EXCEPT ![s] = out])
      /\ UNCHANGED <<head, csvLog, planLog, res, exec, faults>>
  BY DEF SyncSubscription
<1>3. /\ out \in Subscription /\ SubOK(s, out, csv, plan, head)
      /\ out.installed = sub[s].installed
  <2>1. \/ \E c \in SUBSET (PlanConds \cup ResolverConds) : out = [r EXCEPT !.conds = c]
        \/ /\ r.state = "UpgradePending"
           /\ out = [r EXCEPT !.conds = @ \ {"PlanPending", "PlanFailed"},
                              !.ref = 0, !.current = 0, !.state = "None"]
    <3>1. CASE Listed(cp)
      <4> DEFINE add == CASE cp.phase \in {"NoStatus", "RequiresApproval", "Installing"} -> {"PlanPending"}
                          [] cp.phase = "Failed" -> {"PlanFailed"}
                          [] OTHER -> {}
                 c == (r.conds \ PlanConds) \cup add
      <4>1. add \in SUBSET PlanConds
        BY DEF PlanConds
      <4>2. out = [r EXCEPT !.conds = c]
        BY <3>1 DEF CheckInstallPlanStatus
      <4> HIDE DEF add, cp, out
      <4>3. c \in SUBSET (PlanConds \cup ResolverConds)
        BY <1>1, <4>1 DEF Subscription
      <4> QED
        BY <4>2, <4>3
    <3>2. CASE ~ Listed(cp) /\ r.state = "UpgradePending"
      BY <3>2 DEF InstallPlanNotFound
    <3>3. CASE ~ Listed(cp) /\ r.state # "UpgradePending"
      <4> DEFINE c == (r.conds \ {"PlanPending", "PlanFailed"}) \cup {"PlanMissing"}
      <4>1. out = [r EXCEPT !.conds = c]
        BY <3>3 DEF InstallPlanNotFound
      <4>2. c \in SUBSET (PlanConds \cup ResolverConds)
        BY <1>1 DEF Subscription, PlanConds
      <4> QED
        BY <4>1, <4>2
    <3> QED
      BY <3>1, <3>2, <3>3
  <2> HIDE DEF out, r, cp
  <2>2. CASE \E c \in SUBSET (PlanConds \cup ResolverConds) : out = [r EXCEPT !.conds = c]
    BY <1>1, <2>2, CondsOK DEF r
  <2>3. CASE out = [r EXCEPT !.conds = @ \ {"PlanPending", "PlanFailed"},
                             !.ref = 0, !.current = 0, !.state = "None"]
    <3> DEFINE c == r.conds \ {"PlanPending", "PlanFailed"}
    <3>0. /\ c \in SUBSET (PlanConds \cup ResolverConds) /\ 0 \in 0..MaxPlans /\ 0 \in 0..MaxVersion
          /\ out = [r EXCEPT !.conds = c, !.ref = 0, !.current = 0, !.state = "None"]
      BY <1>1, <2>3, ConstantsAssumption DEF Subscription
    <3> HIDE DEF c
    <3>1. /\ out \in Subscription /\ out.state = "None" /\ out.current = 0
          /\ out.gen = r.gen /\ out.installed = r.installed
      BY <1>1, <3>0 DEF Subscription, States
    <3>2. head[s] \in Nat
      BY ConstantsAssumption DEF TypeInv, Versions
    <3> QED
      BY <1>1, <3>1, <3>2 DEF SubOK, r
  <2> QED
    BY <2>1, <2>2, <2>3
<1> HIDE DEF out
<1> QED
  BY <1>2, <1>3, OnOneSub DEF TypeInv
=============================================================================
