--------------------------- MODULE CatalogOperator ---------------------------
(***************************************************************************)
(* Dependency resolution and install plans of one namespace: the           *)
(* syncResolvingNamespace and syncInstallPlans loops of                    *)
(* controller/operators/catalog/operator.go, the subscription syncer of    *)
(* catalog/subscription, and the part of registry/resolver that picks the  *)
(* version each subscription is to move to.                                *)
(*                                                                         *)
(* Every subscription follows a package of its own, a channel in which     *)
(* version v replaces version v-1.  The loops read some objects live and   *)
(* others from informer caches; each kind of object is a log of the        *)
(* states the API server has been in: the oldest entry is what the cache   *)
(* holds, the newest is what is stored.                                    *)
(***************************************************************************)
EXTENDS Naturals, Sequences, SequencesExt, FiniteSets, FiniteSetsExt

CONSTANTS
  Subs,            \* the subscriptions of the namespace
  MaxVersion,      \* bound: versions a catalog publishes of a package
  MaxPlans,        \* bound: install plans ever created
  MaxPlanCount,    \* maxInstallPlanCount
  MaxDeletes,      \* maxDeletesPerSweep
  Manual,          \* subscriptions with installPlanApproval: Manual
  FailForward,     \* the operator group's upgrade strategy is UnsafeFailForward
  Attenuated,      \* the operator group names a service account
  Burst,           \* a catalog may be several versions ahead of what is installed
  UserDeletes,     \* users delete install plans
  Crashes,         \* the operator crashes
  CSVsFail,        \* a CSV may fail to install
  MaxFaults,       \* bound: crashes, failing calls, steps and CSVs, deletions
  SubLag,          \* bounds: writes the informer cache of each kind is behind
  CSVLag,
  PlanLag

ASSUME ConstantsAssumption ==
  /\ {MaxVersion, MaxPlans, MaxPlanCount, MaxDeletes} \subseteq Nat \ {0}
  /\ {MaxFaults, SubLag, CSVLag, PlanLag} \subseteq Nat
  /\ Manual \subseteq Subs
  /\ {FailForward, Attenuated, Burst, UserDeletes, Crashes, CSVsFail} \subseteq BOOLEAN

VARIABLES
  head,      \* the newest version in each subscription's channel
  subLog,    \* the subscriptions' status, oldest unseen state first
  csvLog,    \* the CSVs of each package
  planLog,   \* the install plans
  res,       \* the namespace worker: where it is and what it holds
  exec,      \* the plan workers: the plan each holds, and the steps done
  faults     \* faults so far

vars == <<head, subLog, csvLog, planLog, res, exec, faults>>

Versions == 1..MaxVersion
Plans == 1..MaxPlans

States == {"None", "UpgradePending", "AtLatest", "Failed"}

\* Conditions that a later step reads back: those the subscription syncer
\* keeps about the plan, and those the resolver keeps about itself.
PlanConds == {"PlanPending", "PlanFailed", "PlanMissing"}
ResolverConds == {"Unsatisfiable", "ResolutionError", "Unpacking", "UnpackFailed"}

\* Version 0, plan 0: none.
Subscription ==
  [current : 0..MaxVersion, installed : 0..MaxVersion, state : States,
   ref : 0..MaxPlans, gen : 0..MaxPlans,
   conds : SUBSET (PlanConds \cup ResolverConds)]

\* A CSV that was deleted is "Gone": absent, like one never created.
CSV == [phase : {"Absent", "Installing", "Succeeded", "Failed", "Replacing", "Gone"},
        replaces : 0..MaxVersion]

Step == [sub : Subs, version : Versions, replaces : 0..MaxVersion]

InstallPlan ==
  [phase : {"Unborn", "NoStatus", "RequiresApproval", "Installing", "Complete",
            "Failed", "Deleted"},
   gen : 0..MaxPlans, steps : SUBSET Step, done : SUBSET Step,
   manual : BOOLEAN, approved : BOOLEAN, started : BOOLEAN, sa : BOOLEAN]

NoSubStatus == [current |-> 0, installed |-> 0, state |-> "None", ref |-> 0,
                gen |-> 0, conds |-> {}]
NoCSV == [phase |-> "Absent", replaces |-> 0]
Unborn == [phase |-> "Unborn", gen |-> 0, steps |-> {}, done |-> {},
           manual |-> FALSE, approved |-> FALSE, started |-> FALSE, sa |-> FALSE]

NoSubs == [s \in Subs |-> NoSubStatus]

\* subs: the list syncResolvingNamespace works on; fresh: the one ResolveSteps
\* took; updated: the subscriptions whose current CSV it changed; todo: the
\* subscriptions whose status is still to be written.
Idle == [at |-> "Idle", subs |-> NoSubs, fresh |-> NoSubs, steps |-> {},
         updated |-> {}, plan |-> 0, todo |-> {}]
NotRunning == [plan |-> Unborn, done |-> {}]

Live(log) == Last(log)
Cached(log) == Head(log)

\* A write: the API server stores x.  The informer is at most lag behind.
Store(log, x, lag) ==
  IF x = Live(log) THEN log
  ELSE IF Len(log) > lag THEN Append(Tail(log), x) ELSE Append(log, x)

StoreSubs(x) == subLog' = Store(subLog, x, SubLag)
StoreCSVs(x) == csvLog' = Store(csvLog, x, CSVLag)
StorePlans(x) == planLog' = Store(planLog, x, PlanLag)

sub == Live(subLog)
csv == Live(csvLog)
plan == Live(planLog)

Present(c) == c.phase \notin {"Absent", "Gone"}
Listed(p) == p.phase \notin {"Unborn", "Deleted"}

TypeOK ==
  /\ head \in [Subs -> Versions]
  /\ \A i \in DOMAIN subLog : subLog[i] \in [Subs -> Subscription]
  /\ \A i \in DOMAIN csvLog : csvLog[i] \in [Subs -> [Versions -> CSV]]
  /\ \A i \in DOMAIN planLog : planLog[i] \in [Plans -> InstallPlan]
  /\ Len(subLog) \in 1..(SubLag + 1)
  /\ Len(csvLog) \in 1..(CSVLag + 1)
  /\ Len(planLog) \in 1..(PlanLag + 1)
  /\ res \in [at : {"Idle", "Listed", "Resolved", "Created", "Writing"},
              subs : [Subs -> Subscription], fresh : [Subs -> Subscription],
              steps : SUBSET Step, updated : SUBSET Subs, plan : 0..MaxPlans, todo : SUBSET Subs]
  /\ exec \in [Plans -> [plan : InstallPlan, done : SUBSET Step]]
  /\ faults \in 0..MaxFaults

Init ==
  /\ head = [s \in Subs |-> 1]
  /\ subLog = <<[s \in Subs |-> NoSubStatus]>>
  /\ csvLog = <<[s \in Subs |-> [v \in Versions |-> NoCSV]]>>
  /\ planLog = <<[p \in Plans |-> Unborn]>>
  /\ res = Idle
  /\ exec = [p \in Plans |-> NotRunning]
  /\ faults = 0

\* One more thing goes wrong.
Fault == faults < MaxFaults /\ faults' = faults + 1
NoFault == UNCHANGED faults

-----------------------------------------------------------------------------
(* The resolver: which version each subscription should have. *)

\* ReplacementMapping, on the cached CSVs of one package.
ReplacedBy(cs, v) == {w \in Versions : Present(cs[w]) /\ cs[w].replaces = v}

\* WalkReplacementChain refuses a CSV that is replaced but not yet Replacing.
ChainError(cs) ==
  \E v \in Versions : Present(cs[v]) /\ ReplacedBy(cs, v) # {} /\ cs[v].phase # "Replacing"

\* The chain from v ends in w: versions only replace older ones.
ChainEnd(cs, v, w) ==
  /\ w >= v /\ ReplacedBy(cs, w) = {}
  /\ \A u \in v..(w - 1) : ReplacedBy(cs, u) # {}

\* isReplacementChainThatEndsInFailure, where no chain is in error.
EndsInFailure(cs, v) ==
  \E w \in Versions : cs[w].phase = "Failed" /\ ChainEnd(cs, v, w)

\* csvSource.Snapshot: the CSVs the resolver takes for installed.
Entries(cs) ==
  {v \in Versions :
     /\ Present(cs[v])
     /\ ~ (FailForward /\ cs[v].phase = "Replacing" /\ EndsInFailure(cs, v))}

\* The snapshot fails when it sees a CSV whose subscription its subscription
\* cache does not know of but the API server does, or a chain in error.
SnapshotError(cs, known, live) ==
  \/ \E v \in Versions : Present(cs[v]) /\ known.installed # v /\ live.installed = v
  \/ FailForward /\ ChainError(cs)

\* A CSV no subscription refers to must stay, and its package may have no
\* other: nothing satisfies the subscription.
Unsatisfiable(cs, known) == Entries(cs) \ {known.installed} # {}

\* Mutant: every entry of the channel is a candidate.
PickHead(cs, live, top) == IF live.installed = top THEN 0 ELSE top

\* Mutant: off by one, the entry after the one that replaces the installed one.
PickBeyond(cs, live, top) ==
  IF live.installed \in Entries(cs)
  THEN IF live.installed < top THEN live.installed + 2 ELSE 0
  ELSE top

\* getSubscriptionVariables: the entry that replaces the installed one; the
\* head of the channel when no installed one is found.  0: nothing new.
Pick(cs, live, top) ==
  IF live.installed \in Entries(cs)
  THEN IF live.installed < top THEN live.installed + 1 ELSE 0
  ELSE top

\* The CSV a candidate is recorded to replace: the installed one, otherwise
\* the one the catalog names.
PickReplaces(cs, live, top) ==
  IF live.installed \in Entries(cs) THEN live.installed ELSE top - 1

-----------------------------------------------------------------------------
(* syncResolvingNamespace *)

MaxOf(S) == CHOOSE x \in S : \A y \in S : x >= y

\* gcInstallPlans: of the cached plans, or of an arbitrary part of them when
\* there are too many, all but the MaxPlanCount newest.
Newer(plans, p) ==
  {q \in DOMAIN plans : \/ plans[q].gen > plans[p].gen
                        \/ plans[q].gen = plans[p].gen /\ q > p}

Swept ==
  LET cached == Cached(planLog)
      all == {p \in Plans : Listed(cached[p])}
      most == MaxPlanCount + MaxDeletes
  IN {{p \in ips : Cardinality(Newer(cached, p) \cap ips) >= MaxPlanCount} :
        ips \in {X \in SUBSET all : Cardinality(X) = IF Cardinality(all) > most
                                                   THEN most ELSE Cardinality(all)}}

Without(plans, gone) ==
  [p \in Plans |-> IF p \in gone /\ Listed(plans[p])
                   THEN [plans[p] EXCEPT !.phase = "Deleted"] ELSE plans[p]]

\* Mutant: the installed CSV is not recorded.
EnsureStateOnly(s, r, plans, getFails) ==
  IF r.current = 0 THEN r
  ELSE [r EXCEPT !.state = IF Present(csv[s][r.current]) /\ ~ getFails
                           THEN "AtLatest" ELSE "UpgradePending"]

\* Mutant: a CSV that is not found is no longer recorded as installed.
EnsureForgets(s, r, plans, getFails) ==
  IF r.current = 0 THEN r
  ELSE IF Present(csv[s][r.current]) /\ ~ getFails
  THEN [r EXCEPT !.state = "AtLatest", !.installed = r.current]
  ELSE [r EXCEPT !.state = "UpgradePending", !.installed = 0]

\* ensureSubscriptionCSVState.  Any error of the GET counts as "not there".
EnsureSubscriptionCSVState(s, r, plans, getFails) ==
  LET state == CASE r.current = 0 -> r.state
                 [] r.current # 0 /\ Present(csv[s][r.current]) /\ ~ getFails -> "AtLatest"
                 [] OTHER -> IF FailForward /\ r.ref # 0 /\ plans[r.ref].phase = "Failed"
                             THEN "Failed" ELSE "UpgradePending"
  IN IF state = r.state THEN r
     ELSE [r EXCEPT !.state = state,
                    !.installed = IF state = "AtLatest" THEN r.current ELSE @]

NothingToUpdate(r) == r.ref # 0 /\ r.state = "UpgradePending"

\* Up to the call of ResolveSteps: sweep the plans, list the subscriptions,
\* bring their state up to date, and stop when that changed any of them or
\* when every one of them is waiting for its plan.
StartResolving ==
  /\ res.at = "Idle"
  /\ \E gone \in Swept, blind \in SUBSET Subs :
       LET plans == Without(plan, gone)
           subs == [s \in Subs |-> EnsureSubscriptionCSVState(s, sub[s], plans, s \in blind)]
       IN /\ IF blind = {} THEN NoFault ELSE Fault
          /\ StorePlans(plans)
          /\ StoreSubs(subs)
          /\ res' = IF subs # sub \/ \A s \in Subs : NothingToUpdate(subs[s])
                    THEN Idle ELSE [Idle EXCEPT !.at = "Listed", !.subs = subs]
  /\ UNCHANGED <<head, csvLog, exec>>

\* Hand the subscriptions over to updateSubscriptionStatuses.
Write(subs, which) ==
  res' = IF which = {} THEN Idle
         ELSE [Idle EXCEPT !.at = "Writing", !.subs = subs, !.todo = which]

\* setSubsCond: the condition replaces others of its type, and only the
\* subscriptions that did not have it are written.
WriteCond(cond, sametype) ==
  LET subs == [s \in Subs |-> [res.subs[s] EXCEPT !.conds = (@ \ sametype) \cup {cond}]]
  IN Write(subs, {s \in Subs : subs[s] # res.subs[s]})

ResolutionFailed == {"Unsatisfiable", "ResolutionError"}

\* Mutant: only the subscriptions whose current CSV changes have steps.
ToInstallUpdated(cs, pick) == {s \in Subs : pick[s] # 0 /\ sub[s].current # pick[s]}

\* The subscriptions a plan has steps for: those that move on, and those whose
\* current CSV is not on the cluster yet.
ToInstall(cs, pick) ==
  {s \in Subs : pick[s] # 0 /\ ~ (sub[s].current = pick[s] /\ Present(cs[s][pick[s]]))}

\* ResolveSteps: a new list of the subscriptions, the cached CSVs, the catalog.
ResolveSteps ==
  /\ res.at = "Listed"
  /\ LET cs == Cached(csvLog)
         known == Cached(subLog)
         pick == [s \in Subs |-> Pick(cs[s], sub[s], head[s])]
         ops == ToInstall(cs, pick)
     IN IF \E s \in Subs : SnapshotError(cs[s], known[s], sub[s])
        THEN WriteCond("ResolutionError", ResolutionFailed)
        ELSE IF \E s \in Subs : Unsatisfiable(cs[s], known[s])
        THEN WriteCond("Unsatisfiable", ResolutionFailed)
        ELSE LET updated == {s \in ops : sub[s].current # pick[s]}
                 fresh == [s \in Subs |-> IF s \in updated
                                          THEN [sub[s] EXCEPT !.current = pick[s]]
                                          ELSE sub[s]]
                 steps == {[sub |-> s, version |-> pick[s],
                            replaces |-> PickReplaces(cs[s], sub[s], head[s])] : s \in ops}
             IN res' = [res EXCEPT !.at = "Resolved", !.steps = steps,
                                   !.updated = updated, !.fresh = fresh]
  /\ UNCHANGED <<head, subLog, csvLog, planLog, exec, faults>>

\* unpackBundles is not done yet, failed for good or is to be retried; or the
\* plan could not be created.
UnpackBundlesFails ==
  /\ res.at = "Resolved" /\ res.steps # {}
  /\ Fault
  /\ \/ \E cond \in {"Unpacking", "UnpackFailed"} : WriteCond(cond, {})
     \/ res' = Idle
  /\ UNCHANGED <<head, subLog, csvLog, planLog, exec>>

\* Mutant: the plan is recorded, the CSV it is for is not.
FinishedKeepsCurrent(p) ==
  [s \in Subs |->
     IF s \in res.updated
     THEN [res.subs[s] EXCEPT !.ref = p, !.gen = plan[p].gen, !.state = "UpgradePending"]
     ELSE res.subs[s]]

\* The subscriptions with their new plan, without the resolver's conditions.
Finished(p) ==
  [s \in Subs |->
     IF s \in res.updated
     THEN [res.fresh[s] EXCEPT !.ref = p, !.gen = plan[p].gen, !.state = "UpgradePending",
                               !.conds = @ \ ResolutionFailed]
     ELSE [res.subs[s] EXCEPT !.conds = @ \ ResolverConds]]

NoPlanNeeded ==
  /\ res.at = "Resolved" /\ res.updated = {}
  /\ Write([s \in Subs |-> [res.subs[s] EXCEPT !.conds = @ \ ResolverConds]], Subs)
  /\ UNCHANGED <<head, subLog, csvLog, planLog, exec, faults>>

\* Mutant: only the generations the subscriptions know of count.
MaxGenerationOfSubs == MaxOf({0} \cup {res.subs[s].gen : s \in Subs})

MaxGeneration ==
  MaxOf({0} \cup {res.subs[s].gen : s \in Subs}
            \cup {plan[p].gen : p \in {q \in Plans : Listed(plan[q])}})

\* ensureInstallPlan and the Create of createInstallPlan.  Any Manual
\* subscription makes the plan manual.
CreateInstallPlan ==
  /\ res.at = "Resolved" /\ res.updated # {}
  /\ \E p \in Plans :
       /\ plan[p].phase = "Unborn" /\ \A q \in 1..(p - 1) : plan[q].phase # "Unborn"
       /\ StorePlans(
            [plan EXCEPT ![p] = [Unborn EXCEPT !.phase = "NoStatus",
                                               !.gen = MaxGeneration + 1,
                                               !.manual = (Manual # {}),
                                               !.approved = (Manual = {})]])
       /\ res' = [res EXCEPT !.at = "Created", !.plan = p]
  /\ UNCHANGED <<head, subLog, csvLog, exec, faults>>

\* The UpdateStatus of createInstallPlan; it fails when the plan has changed.
WritePlanStatus ==
  /\ res.at = "Created"
  /\ LET p == res.plan
         same == plan[p].phase = "NoStatus" /\ plan[p].approved = ~ plan[p].manual
     IN IF same
        THEN /\ StorePlans(
                  [plan EXCEPT ![p].phase = IF plan[p].manual THEN "RequiresApproval"
                                            ELSE "Installing",
                               ![p].steps = res.steps])
             /\ Write(Finished(p), Subs)
        ELSE /\ WriteCond("UnpackFailed", {})
             /\ UNCHANGED planLog
  /\ UNCHANGED <<head, subLog, csvLog, exec, faults>>

\* One goroutine of updateSubscriptionStatuses: the status, whole, over
\* whatever the subscription's status has become.
UpdateSubscriptionStatus(s) ==
  /\ res.at = "Writing" /\ s \in res.todo
  /\ StoreSubs([sub EXCEPT ![s] = res.subs[s]])
  /\ res' = IF res.todo = {s} THEN Idle ELSE [res EXCEPT !.todo = @ \ {s}]
  /\ UNCHANGED <<head, csvLog, planLog, exec, faults>>

-----------------------------------------------------------------------------
(* syncInstallPlans *)

\* UpdateStatus of plan p, read as old: refused when p has changed since.
PutPlan(p, old, new) ==
  IF plan[p] = old THEN StorePlans([plan EXCEPT ![p] = new]) ELSE UNCHANGED planLog

\* The cached plan has work to do: plans without status wait for the
\* resolver, Complete and Failed are terminal.
Syncable(p) ==
  exec[p] = NotRunning /\ Cached(planLog)[p].phase \in {"RequiresApproval", "Installing"}

\* The service account has been attached to the status, where there is one.
Attached(cp) == Attenuated => cp.sa

AttachServiceAccount(p) ==
  /\ Syncable(p)
  /\ LET cp == Cached(planLog)[p]
     IN ~ Attached(cp) /\ PutPlan(p, cp, [cp EXCEPT !.sa = TRUE])
  /\ UNCHANGED <<head, subLog, csvLog, res, exec, faults>>

\* Mutant: the phase moves on without approval.
SyncUnapproved(p) ==
  /\ Syncable(p)
  /\ LET cp == Cached(planLog)[p]
     IN cp.phase = "RequiresApproval" /\ PutPlan(p, cp, [cp EXCEPT !.phase = "Installing"])
  /\ UNCHANGED <<head, subLog, csvLog, res, exec, faults>>

\* transitionInstallPlanState, RequiresApproval.
SyncApproval(p) ==
  /\ Syncable(p)
  /\ LET cp == Cached(planLog)[p]
     IN /\ Attached(cp) /\ cp.phase = "RequiresApproval" /\ cp.approved
        /\ PutPlan(p, cp, [cp EXCEPT !.phase = "Installing"])
  /\ UNCHANGED <<head, subLog, csvLog, res, exec, faults>>

\* transitionInstallPlanState, Installing: execute the cached plan ...
StartExecuting(p) ==
  /\ Syncable(p)
  /\ LET cp == Cached(planLog)[p]
     IN /\ Attached(cp) /\ cp.phase = "Installing"
        /\ exec' = [exec EXCEPT ![p] = [plan |-> cp, done |-> cp.done]]
  /\ UNCHANGED <<head, subLog, csvLog, planLog, res, faults>>

Executing(p) == exec[p] # NotRunning

\* ... step by step: EnsureClusterServiceVersion creates the CSV, and is
\* content when it is there ...
ExecuteStep(p, t) ==
  /\ Executing(p) /\ t \in exec[p].plan.steps \ exec[p].done
  /\ IF Present(csv[t.sub][t.version]) THEN UNCHANGED csvLog
     ELSE StoreCSVs([csv EXCEPT ![t.sub][t.version] =
                       [phase |-> "Installing", replaces |-> t.replaces]])
  /\ exec' = [exec EXCEPT ![p].done = @ \cup {t}]
  /\ UNCHANGED <<head, subLog, planLog, res, faults>>

\* Mutant: the plan is Complete whatever became of its steps.
FinishAnyway(p) ==
  /\ Executing(p)
  /\ LET cp == exec[p].plan IN PutPlan(p, cp, [cp EXCEPT !.phase = "Complete"])
  /\ exec' = [exec EXCEPT ![p] = NotRunning]
  /\ UNCHANGED <<head, subLog, csvLog, res, faults>>

\* ... to the end: Complete ...
FinishExecuting(p) ==
  /\ Executing(p) /\ exec[p].plan.steps = exec[p].done
  /\ LET cp == exec[p].plan
     IN PutPlan(p, cp, [cp EXCEPT !.phase = "Complete", !.done = exec[p].done,
                                  !.started = TRUE])
  /\ exec' = [exec EXCEPT ![p] = NotRunning]
  /\ UNCHANGED <<head, subLog, csvLog, res, faults>>

\* Mutant: the first error fails the plan.
FailAtOnce(p) ==
  /\ Executing(p) /\ exec[p].plan.steps # exec[p].done
  /\ Fault
  /\ LET cp == exec[p].plan
     IN PutPlan(p, cp, [cp EXCEPT !.phase = "Failed", !.done = exec[p].done])
  /\ exec' = [exec EXCEPT ![p] = NotRunning]
  /\ UNCHANGED <<head, subLog, csvLog, res>>

\* ... or to the first error: retry, or fail the plan when the error is not
\* Forbidden and the first attempt is longer ago than the timeout.
ExecuteStepFails(p) ==
  /\ Executing(p) /\ exec[p].plan.steps # exec[p].done
  /\ Fault
  /\ \E phase \in IF exec[p].plan.started THEN {"Installing", "Failed"} ELSE {"Installing"} :
       LET cp == exec[p].plan
       IN PutPlan(p, cp, [cp EXCEPT !.phase = phase, !.done = exec[p].done,
                                    !.started = TRUE])
  /\ exec' = [exec EXCEPT ![p] = NotRunning]
  /\ UNCHANGED <<head, subLog, csvLog, res>>

\* triggerInstallPlanRetry, on a change of the namespace's RBAC objects.
TriggerInstallPlanRetry(p) ==
  /\ LET cp == Cached(planLog)[p]
     IN /\ cp.phase = "Failed" /\ cp.sa
        /\ PutPlan(p, cp, [cp EXCEPT !.phase = "Installing"])
  /\ UNCHANGED <<head, subLog, csvLog, res, exec, faults>>

-----------------------------------------------------------------------------
(* The installPlanReconciler of the subscription syncer *)

\* Mutant: only the reference is cleared.
NotFoundKeepsState(r) ==
  [r EXCEPT !.conds = @ \ {"PlanPending", "PlanFailed"}, !.ref = 0]

InstallPlanNotFound(r) ==
  IF r.state = "UpgradePending"
  THEN [r EXCEPT !.conds = @ \ {"PlanPending", "PlanFailed"},
                 !.ref = 0, !.current = 0, !.state = "None"]
  ELSE [r EXCEPT !.conds = (@ \ {"PlanPending", "PlanFailed"}) \cup {"PlanMissing"}]

CheckInstallPlanStatus(r, cp) ==
  [r EXCEPT !.conds = (@ \ PlanConds) \cup
     (CASE cp.phase \in {"NoStatus", "RequiresApproval", "Installing"} -> {"PlanPending"}
        [] cp.phase = "Failed" -> {"PlanFailed"}
        [] OTHER -> {})]

\* Nothing is written when the conditions stay as they are, and nothing when
\* the subscription has changed since it was cached.
SyncSubscription(s) ==
  LET r == Cached(subLog)[s]
      cp == Cached(planLog)[r.ref]
      out == IF Listed(cp) THEN CheckInstallPlanStatus(r, cp) ELSE InstallPlanNotFound(r)
  IN /\ r.ref # 0
     /\ out.conds # r.conds
     /\ r = sub[s]
     /\ StoreSubs([sub EXCEPT ![s] = out])
     /\ UNCHANGED <<head, csvLog, planLog, res, exec, faults>>

-----------------------------------------------------------------------------
(* The rest of the cluster *)

\* The informers.
ObserveSubscriptions ==
  /\ Len(subLog) > 1 /\ subLog' = Tail(subLog)
  /\ UNCHANGED <<head, csvLog, planLog, res, exec, faults>>

ObserveCSVs ==
  /\ Len(csvLog) > 1 /\ csvLog' = Tail(csvLog)
  /\ UNCHANGED <<head, subLog, planLog, res, exec, faults>>

ObserveInstallPlans ==
  /\ Len(planLog) > 1 /\ planLog' = Tail(planLog)
  /\ UNCHANGED <<head, subLog, csvLog, res, exec, faults>>

\* The operator crashes; the next one starts with fresh caches.
Restart ==
  /\ Crashes /\ Fault
  /\ res' = Idle
  /\ exec' = [p \in Plans |-> NotRunning]
  /\ subLog' = <<sub>> /\ csvLog' = <<csv>> /\ planLog' = <<plan>>
  /\ UNCHANGED head

\* A catalog publishes a version.
Publish(s) ==
  /\ head[s] < MaxVersion
  /\ Burst \/ head[s] = sub[s].installed
  /\ head' = [head EXCEPT ![s] = @ + 1]
  /\ UNCHANGED <<subLog, csvLog, planLog, res, exec, faults>>

\* Users approve plans, and delete them.
Approve(p) ==
  /\ Listed(plan[p]) /\ ~ plan[p].approved
  /\ StorePlans([plan EXCEPT ![p].approved = TRUE])
  /\ UNCHANGED <<head, subLog, csvLog, res, exec, faults>>

DeletePlan(p) ==
  /\ UserDeletes /\ Listed(plan[p])
  /\ Fault
  /\ StorePlans(Without(plan, {p}))
  /\ UNCHANGED <<head, subLog, csvLog, res, exec>>

\* The OLM operator in outline (CSVLifecycle has the detail).  All phases before
\* Succeeded are "Installing", and a CSV is Replacing until it is deleted.
PutCSV(s, v, phase) == StoreCSVs([csv EXCEPT ![s][v].phase = phase])

\* A CSV is installed once the one it replaces is Replacing or gone ...
CSVSucceeds(s, v) ==
  /\ csv[s][v].phase = "Installing"
  /\ \A u \in Versions : csv[s][v].replaces = u /\ Present(csv[s][u])
                         => csv[s][u].phase = "Replacing"
  /\ PutCSV(s, v, "Succeeded")
  /\ UNCHANGED <<head, subLog, planLog, res, exec, faults>>

\* ... fails in whatever phase it is, on account of its operator group or its
\* components, or is found to need another installation ...
CSVFails(s, v) ==
  /\ CSVsFail /\ Present(csv[s][v])
  /\ \/ csv[s][v].phase # "Failed" /\ PutCSV(s, v, "Failed")
     \/ /\ csv[s][v].phase = "Succeeded" /\ ReplacedBy(csv[s], v) = {}
        /\ PutCSV(s, v, "Installing")
  /\ Fault
  /\ UNCHANGED <<head, subLog, planLog, res, exec>>

\* ... and starts again when the cause has gone ...
CSVRecovers(s, v) ==
  /\ csv[s][v].phase = "Failed"
  /\ ~ (FailForward /\ ReplacedBy(csv[s], v) # {})
  /\ PutCSV(s, v, "Installing")
  /\ UNCHANGED <<head, subLog, planLog, res, exec, faults>>

\* ... gives way to one that replaces it ...
CSVReplaced(s, v) ==
  /\ \/ csv[s][v].phase = "Succeeded"
     \/ csv[s][v].phase = "Failed" /\ FailForward
  /\ ReplacedBy(csv[s], v) # {}
  /\ PutCSV(s, v, "Replacing")
  /\ UNCHANGED <<head, subLog, planLog, res, exec, faults>>

\* ... and is deleted, the oldest of a chain first, when its replacement, under
\* fail-forward the newest of the chain, has succeeded.
CSVCollected(s, v) ==
  /\ csv[s][v].phase = "Replacing"
  /\ \A u \in Versions : csv[s][v].replaces = u => ~ Present(csv[s][u])
  /\ \E w \in Versions : /\ csv[s][w].phase = "Succeeded"
                         /\ IF FailForward THEN ChainEnd(csv[s], v, w)
                            ELSE w \in ReplacedBy(csv[s], v)
  /\ PutCSV(s, v, "Gone")
  /\ UNCHANGED <<head, subLog, planLog, res, exec, faults>>

-----------------------------------------------------------------------------
NamespaceWorker ==
  \/ StartResolving \/ ResolveSteps \/ NoPlanNeeded \/ CreateInstallPlan
  \/ WritePlanStatus \/ \E s \in Subs : UpdateSubscriptionStatus(s)

PlanWorker(p) ==
  \/ AttachServiceAccount(p) \/ SyncApproval(p) \/ StartExecuting(p)
  \/ (\E t \in exec[p].plan.steps : ExecuteStep(p, t)) \/ FinishExecuting(p)

Informers == ObserveSubscriptions \/ ObserveCSVs \/ ObserveInstallPlans

CSVController(s, v) ==
  CSVSucceeds(s, v) \/ CSVRecovers(s, v) \/ CSVReplaced(s, v) \/ CSVCollected(s, v)

Failures ==
  \/ UnpackBundlesFails \/ Restart
  \/ \E p \in Plans : ExecuteStepFails(p)
  \/ \E s \in Subs, v \in Versions : CSVFails(s, v)

Users ==
  \/ \E s \in Subs : Publish(s)
  \/ \E p \in Plans : Approve(p) \/ DeletePlan(p) \/ TriggerInstallPlanRetry(p)

Next ==
  \/ NamespaceWorker
  \/ \E p \in Plans : PlanWorker(p)
  \/ \E s \in Subs : SyncSubscription(s)
  \/ Informers
  \/ \E s \in Subs, v \in Versions : CSVController(s, v)
  \/ Failures
  \/ Users

Spec == Init /\ [][Next]_vars

(***************************************************************************)
(* Fairness: every informer keeps receiving events, every queue is served  *)
(* and all its objects are requeued by the periodic resync; the OLM        *)
(* operator makes progress.  Users, catalogs and faults owe nothing.       *)
(***************************************************************************)
Fairness ==
  /\ WF_vars(NamespaceWorker)
  /\ \A p \in Plans : WF_vars(PlanWorker(p))
  /\ \A s \in Subs : WF_vars(SyncSubscription(s))
  /\ WF_vars(ObserveSubscriptions) /\ WF_vars(ObserveCSVs) /\ WF_vars(ObserveInstallPlans)
  /\ \A s \in Subs, v \in Versions : WF_vars(CSVController(s, v))

FairSpec == Spec /\ Fairness

-----------------------------------------------------------------------------
(* Properties *)

\* ensureInstallPlan finds an earlier plan by its generation: no two plans of
\* the namespace have the same one, whatever crashes between the Create, the
\* UpdateStatus and the writes of the subscriptions.
UniqueGeneration ==
  \A p, q \in Plans :
    Listed(plan[p]) /\ Listed(plan[q]) /\ plan[p].gen = plan[q].gen => p = q

\* No CSV is created that some approved plan does not list, although the
\* worker executes a cached copy of the plan.
ApprovalRespected ==
  [][\A s \in Subs, v \in Versions :
       ~ Present(csv[s][v]) /\ Present(csv'[s][v]) =>
         \E p \in Plans : /\ plan[p].approved
                          /\ \E t \in plan[p].steps : t.sub = s /\ t.version = v]_vars

\* A Complete plan has had every one of its CSVs created, also when its
\* execution was cut short and started again from a stale copy.
CompleteMeansApplied ==
  \A p \in Plans : plan[p].phase = "Complete" =>
    \A t \in plan[p].steps : csv[t.sub][t.version].phase # "Absent"

\* A subscription that waits for a CSV that never was created refers to a
\* plan that creates it: the status overwritten by the resolver, the syncer
\* and ensureSubscriptionCSVState always belongs together.
PendingHasPlan ==
  \A s \in Subs : sub[s].state = "UpgradePending" =>
    /\ sub[s].current # 0
    /\ csv[s][sub[s].current].phase = "Absent" =>
         /\ sub[s].ref # 0
         /\ \E t \in plan[sub[s].ref].steps : t.sub = s /\ t.version = sub[s].current

\* A subscription at its latest version has that CSV as its installed CSV,
\* and the CSV has been created.
AtLatestIsInstalled ==
  \A s \in Subs : sub[s].state = "AtLatest" =>
    /\ sub[s].installed = sub[s].current
    /\ sub[s].current # 0 /\ csv[s][sub[s].current].phase # "Absent"

\* The installed CSV of a subscription never goes back to an older version.
NeverGoesBack == [][\A s \in Subs : sub'[s].installed >= sub[s].installed]_vars

\* "OLM will upgrade operator one version at the time until it reaches the
\* channel head": a CSV created beside older ones of its package replaces the
\* newest of those, which is the version before it.
OneVersionAtATime ==
  [][\A s \in Subs, v \in Versions :
       ~ Present(csv[s][v]) /\ Present(csv'[s][v]) =>
         LET older == {u \in Versions : u < v /\ Present(csv[s][u])}
         IN older # {} => csv'[s][v].replaces = MaxOf(older) /\ MaxOf(older) = v - 1]_vars

\* gcInstallPlans only ever deletes plans with at least maxInstallPlanCount
\* newer ones left behind, however stale its list is.
GcKeepsNewest ==
  [][\A p \in Plans : StartResolving /\ Listed(plan[p]) /\ ~ Listed(plan'[p]) =>
       Cardinality({q \in Newer(plan, p) : Listed(plan'[q])}) >= MaxPlanCount]_vars

\* Plan q is kept by the step, and is to bring the subscription of step t at
\* least as far; or the operator stopped before it could record what q is for.
TakesOver(q, t) ==
  /\ Listed(plan'[q])
  /\ \/ \E u \in plan[q].steps : u.sub = t.sub /\ u.version >= t.version
     \/ plan[q].phase = "NoStatus"

\* gcInstallPlans goes by age alone, and may delete a plan that was not
\* executed yet and that a subscription waits for.  Nothing is lost by that: a
\* plan that is kept installs what the deleted one had still to install.
SweepLosesNothing ==
  [][\A p \in Plans : StartResolving /\ Listed(plan[p]) /\ ~ Listed(plan'[p]) =>
       \A t \in plan[p].steps :
         csv[t.sub][t.version].phase = "Absent" => \E q \in Plans : TakesOver(q, t)]_vars

\* "InstallPlanRef is a reference to the latest InstallPlan that contains the
\* Subscription's current CSV."
RefIsLatest ==
  \A s \in Subs : \A p \in Plans :
    /\ res.at = "Idle" /\ sub[s].ref # 0 /\ sub[s].state = "UpgradePending"
    /\ Listed(plan[p])
    /\ \E t \in plan[p].steps : t.sub = s /\ t.version = sub[s].current
    => plan[p].gen <= sub[s].gen

\* With automatic approval and once nothing goes wrong any more, every
\* subscription ends at the head of its channel, unless a plan was retried until
\* its timeout and failed: nothing but a change of RBAC objects revives it.
Converges ==
  <>[](\/ \A s \in Subs : sub[s].state = "AtLatest" /\ sub[s].installed = head[s]
       \/ \E p \in Plans : plan[p].phase = "Failed" /\ plan[p].started)

\* "If the installplan is missing when subscription is in pending upgrade,
\* clear the installplan ref so the resolution can happen again".
MissingPlanCleared ==
  \A s \in Subs :
    (/\ sub[s].state = "UpgradePending" /\ sub[s].ref # 0
     /\ plan[sub[s].ref].phase = "Deleted"
     /\ csv[s][sub[s].current].phase = "Absent")
    ~> (sub[s].ref = 0 \/ Listed(plan[sub[s].ref]) \/ sub[s].state = "AtLatest")

=============================================================================
