---------------------------- MODULE CatalogRegistry ----------------------------
(***************************************************************************)
(* The registry server of one CatalogSource with an image:                 *)
(* syncCatalogSources and syncRegistryServer of                            *)
(* pkg/controller/operators/catalog/operator.go and the reconciler         *)
(* pkg/controller/registry/reconciler/grpc.go.                             *)
(*                                                                         *)
(* The queue worker decides on the listers' view of pods, service and      *)
(* CatalogSource, which lags behind the cluster, and acts on the cluster   *)
(* one API call at a time; a call can fail and the operator can restart    *)
(* between two calls.  Polling starts an update pod beside the live ones   *)
(* and, when it runs another image ID, relabels it and deletes the others. *)
(*                                                                         *)
(* A pod is its image tag, the digest it pulled, its label and its state;  *)
(* the service account, which is created first and never deleted, the pod  *)
(* template and the connection (see SourceStore) are left out.             *)
(***************************************************************************)
EXTENDS Naturals, FiniteSets

CONSTANTS
  MaxPods,      \* pod names, reused when neither cluster nor lister has them
  MaxChanges,   \* bound: edits of spec.image and images pushed under its tag
  MaxLag,       \* bound: syncs started with listers that are behind
  MaxFaults     \* bound: pods that fail or die, failed calls, restarts

ASSUME BoundsAssumption == {MaxPods, MaxChanges, MaxLag, MaxFaults} \subseteq Nat

PodNames == 1..MaxPods
Tags == 0..MaxChanges
Digests == 1..(MaxChanges + 1)

VARIABLES
  catsrc,       \* the CatalogSource in the cluster
  pods,         \* the pods in the cluster
  service,      \* the service exists
  catsrcCache, podCache, serviceCache,     \* the listers' view
  current,      \* catsrcCache has the resource version of catsrc
  worker,       \* program counter and locals of syncCatalogSources
  registry,     \* what each tag resolves to, a digest per push
  lag,          \* syncs started so far with listers that were behind
  poll,         \* the CatalogSource has a RegistryPoll update strategy
  changes, faults

cluster == <<catsrc, pods, service>>
listers == <<catsrcCache, podCache, serviceCache, current, lag>>
outside == <<registry, poll, changes, faults>>
vars == <<catsrc, pods, service, catsrcCache, podCache, serviceCache,
          current, worker, registry, poll, lag, changes, faults>>

(* due: the polling interval has passed since LatestImageRegistryPoll (or  *)
(* since the creation).  status: RegistryServiceStatus is set.  The rest   *)
(* of the status is left out.                                              *)
CatalogSource == [tag : Tags, status : BOOLEAN, due : BOOLEAN]

NoPod == [label |-> "none", tag |-> 0, digest |-> 0, phase |-> "none"]
Pod == {NoPod} \cup
  [label : {"live", "update"}, tag : Tags, digest : Digests \cup {0},
   phase : {"pending", "ready", "failed", "dead"}]

(* out is the copy the sync works on, current says that its resource       *)
(* version is the cluster's; targets are the pods to delete.               *)
Worker == [pc : {"idle", "ensure", "delete", "create", "update", "promote",
                 "replace", "service", "create service", "status"},
           out : CatalogSource, current : BOOLEAN,
           overwritePod : BOOLEAN, targets : SUBSET PodNames,
           updates : SUBSET PodNames]

(* One invariant on the types of all variables.                            *)
TypeOK ==
  /\ {catsrc, catsrcCache} \subseteq CatalogSource
  /\ {pods, podCache} \subseteq [PodNames -> Pod]
  /\ {service, serviceCache, current} \subseteq BOOLEAN
  /\ worker \in Worker
  /\ registry \in [Tags -> Digests] /\ lag \in 0..MaxLag
  /\ poll \in BOOLEAN
  /\ changes \in 0..MaxChanges /\ faults \in 0..MaxFaults

Created == [tag |-> 0, status |-> FALSE, due |-> FALSE]
Idle == [pc |-> "idle", out |-> Created, current |-> FALSE,
         overwritePod |-> FALSE, targets |-> {}, updates |-> {}]

Init ==
  /\ catsrc = Created /\ catsrcCache = Created
  /\ pods = [p \in PodNames |-> NoPod] /\ podCache = pods
  /\ service = FALSE /\ serviceCache = FALSE /\ current = TRUE
  /\ worker = Idle
  /\ registry = [t \in Tags |-> 1] /\ poll \in BOOLEAN
  /\ lag = 0 /\ changes = 0 /\ faults = 0

----------------------------------------------------------------------------
(* The lister's pods *)

currentPods == {p \in PodNames : podCache[p].label = "live"}
currentUpdatePods == {p \in PodNames : podCache[p].label = "update"}
currentPodsWithCorrectImageAndSpec(c) == {p \in currentPods : podCache[p].tag = c.tag}

(* imageID is empty until the container has started.  The serving pods are *)
(* visited in the lister's order, which is any order.                      *)
Unknown(p) == podCache[p].digest = 0
imageID(p) == <<podCache[p].tag, podCache[p].digest>>
(* Mutant: the tag is compared, not the image ID.                          *)
imageTagChanged(u, serving) ==
  {~Unknown(u) /\ \E p \in serving : podCache[p].tag # podCache[u].tag}

imageChanged(u, serving) ==
  {changed \in BOOLEAN :
     IF changed
     THEN ~Unknown(u) /\ \E p \in serving : ~Unknown(p) /\ imageID(p) # imageID(u)
     ELSE \/ Unknown(u)
          \/ \E p \in serving : Unknown(p)
          \/ \A p \in serving : imageID(p) = imageID(u)}

CaughtUp == current /\ podCache = pods /\ serviceCache = service

(* Pods created in the cluster get a name nobody knows.                    *)
FreshPods ==
  LET free == {p \in PodNames : pods[p] = NoPod /\ podCache[p] = NoPod}
  IN  {p \in free : \A q \in free : p <= q}
NewPod(label) == [label |-> label, tag |-> worker.out.tag, digest |-> 0, phase |-> "pending"]
Without(P) == [p \in PodNames |-> IF p \in P THEN NoPod ELSE pods[p]]

Fault == faults < MaxFaults /\ faults' = faults + 1

----------------------------------------------------------------------------
(* syncCatalogSources *)

(* The worker takes the CatalogSource from the lister and clears its       *)
(* error.  CheckRegistryServer force deletes dead pods; when some of them  *)
(* cannot be deleted (kept) the sync ends with an error.  A healthy        *)
(* catalog without polling is done.                                        *)
CheckRegistryServer ==
  LET correct == currentPodsWithCorrectImageAndSpec(catsrcCache)
      resources == correct # {} /\ serviceCache
      dead == {p \in correct : resources /\ podCache[p].phase = "dead"}
      healthy == resources /\ correct # dead
  IN
  /\ worker.pc = "idle"
  /\ CaughtUp \/ lag < MaxLag
  /\ lag' = IF CaughtUp THEN lag ELSE lag + 1
  /\ \E kept \in SUBSET dead :
       /\ IF kept = {} THEN UNCHANGED faults ELSE Fault
       /\ pods' = Without(dead \ kept)
       /\ worker' = [Idle EXCEPT
            !.pc = IF kept # {} \/ (healthy /\ catsrcCache.status /\ ~poll) THEN "status"
                   ELSE "ensure",
            !.out = catsrcCache, !.current = current]
  /\ UNCHANGED <<catsrc, service, catsrcCache, podCache, serviceCache, current,
                 registry, poll, changes>>

(* EnsureRegistryServer up to ensurePod: what to overwrite, and the pods   *)
(* to delete first.                                                        *)
EnsureRegistryServer ==
  LET overwritePod == ~worker.out.status \/ currentPodsWithCorrectImageAndSpec(worker.out) = {}
  IN
  /\ worker.pc = "ensure"
  /\ worker' = [worker EXCEPT
       !.overwritePod = overwritePod,
       !.targets = IF overwritePod THEN currentPods ELSE {},
       !.pc = IF currentPods # {} /\ ~overwritePod THEN "update" ELSE "delete"]
  /\ UNCHANGED <<cluster, listers, outside>>

(* ensurePod *)
DeletePods ==
  /\ worker.pc = "delete"
  /\ pods' = Without(worker.targets)
  /\ worker' = [worker EXCEPT !.pc = "create", !.targets = {}]
  /\ UNCHANGED <<catsrc, service, listers, outside>>

CreatePod ==
  /\ worker.pc = "create"
  /\ \E p \in FreshPods : pods' = [pods EXCEPT ![p] = NewPod("live")]
  /\ worker' = [worker EXCEPT !.pc = "update"]
  /\ UNCHANGED <<catsrc, service, listers, outside>>

(* ensureUpdatePod: nothing without polling; a new update pod when it is   *)
(* time and there is none; a failed one is removed, with an error; one     *)
(* that is not ready is waited for, by a later sync.  An update pod that   *)
(* is not ready or just created ends EnsureRegistryServer early.           *)
NotReady == [worker EXCEPT !.pc = "status"]

ensureUpdatePod ==
  /\ worker.pc = "update"
  /\ UNCHANGED <<catsrc, service, listers, outside>>
  /\ \/ /\ ~poll
        /\ worker' = [worker EXCEPT !.pc = "service"]
        /\ UNCHANGED pods
     \/ /\ poll /\ currentUpdatePods = {}
        /\ \/ /\ worker.out.due
              /\ \E p \in FreshPods : pods' = [pods EXCEPT ![p] = NewPod("update")]
              /\ worker' = [NotReady EXCEPT !.out.due = FALSE]
           \/ /\ ~worker.out.due
              /\ worker' = [worker EXCEPT !.pc = "service"]
              /\ UNCHANGED pods
     \/ \E p \in currentUpdatePods :     \* the first that is not ready
          /\ poll
          /\ \/ /\ podCache[p].phase = "failed"
                /\ pods' = Without({p})
                /\ worker' = NotReady
             \/ /\ podCache[p].phase = "pending"
                /\ worker' = NotReady
                /\ UNCHANGED pods
     \/ /\ poll /\ currentUpdatePods # {}
        /\ \A p \in currentUpdatePods : podCache[p].phase \in {"ready", "dead"}
        /\ worker' = [worker EXCEPT !.pc = "promote", !.updates = currentUpdatePods,
                                    !.targets = currentPods]
        /\ UNCHANGED pods

(* Mutant: the error of promoteCatalog is logged and not returned.         *)
promoteIgnoringErrors ==
  /\ worker.pc = "promote"
  /\ UNCHANGED <<catsrc, service, catsrcCache, serviceCache, current, lag, outside>>
  /\ \/ \E u \in worker.updates :
          /\ TRUE \in imageChanged(u, worker.targets)
          /\ pods' = IF pods[u] = NoPod THEN pods ELSE [pods EXCEPT ![u].label = "live"]
          /\ podCache' = [podCache EXCEPT ![u] = pods'[u]]
          /\ worker' = [worker EXCEPT !.pc = "replace"]
     \/ \E u \in worker.updates :
          /\ FALSE \in imageChanged(u, worker.targets)
          /\ pods' = Without({u})
          /\ worker' = [worker EXCEPT !.updates = @ \ {u}]
          /\ UNCHANGED podCache
     \/ /\ worker.updates = {}
        /\ worker' = [worker EXCEPT !.pc = "service"]
        /\ UNCHANGED <<pods, podCache>>

(* One turn of the loop over the update pods, with the pods as the lister  *)
(* showed them: promoteCatalog or the deletion of a duplicate.  Apply gets *)
(* the pod from the cluster, fails if it is gone, and leaves the labelled  *)
(* pod in the lister's own object.                                         *)
promoteCatalog ==
  /\ worker.pc = "promote"
  /\ UNCHANGED <<catsrc, service, catsrcCache, serviceCache, current, lag, outside>>
  /\ \/ \E u \in worker.updates :
          /\ TRUE \in imageChanged(u, worker.targets)
          /\ \/ /\ pods[u] # NoPod
                /\ pods' = [pods EXCEPT ![u].label = "live"]
                /\ podCache' = [podCache EXCEPT ![u] = pods'[u]]
                /\ worker' = [worker EXCEPT !.pc = "replace"]
             \/ /\ pods[u] = NoPod
                /\ worker' = [worker EXCEPT !.pc = "status"]
                /\ UNCHANGED <<pods, podCache>>
     \/ \E u \in worker.updates :
          /\ FALSE \in imageChanged(u, worker.targets)
          /\ pods' = Without({u})
          /\ worker' = [worker EXCEPT !.updates = @ \ {u}]
          /\ UNCHANGED podCache
     \/ /\ worker.updates = {}
        /\ worker' = [worker EXCEPT !.pc = "service"]
        /\ UNCHANGED <<pods, podCache>>

(* The live pods are deleted once the update pod is one of them.           *)
ReplacePods ==
  /\ worker.pc = "replace"
  /\ pods' = Without(worker.targets)
  /\ worker' = [worker EXCEPT !.pc = "service", !.targets = {}]
  /\ UNCHANGED <<catsrc, service, listers, outside>>

(* ensureService, then the status.  The service is deleted first when      *)
(* everything is overwritten; creating one that exists fails.              *)
DeleteService ==
  /\ worker.pc = "service"
  /\ service' = (service /\ ~(serviceCache /\ ~worker.out.status))
  /\ worker' = [worker EXCEPT !.pc = "create service"]
  /\ UNCHANGED <<catsrc, pods, listers, outside>>

ensureService ==
  LET keep == serviceCache /\ worker.out.status
      fails == service /\ ~keep
  IN
  /\ worker.pc = "create service"
  /\ service' = (service \/ ~keep)
  /\ worker' = [worker EXCEPT !.pc = "status",
       !.out.status = @ \/ (worker.overwritePod /\ ~fails)]
  /\ UNCHANGED <<catsrc, pods, listers, outside>>

(* UpdateStatus, unless nothing changed; it conflicts with a later write.  *)
UpdateStatus ==
  LET write == worker.current /\ worker.out # catsrc IN
  /\ worker.pc = "status"
  /\ worker' = Idle
  /\ catsrc' = IF write THEN worker.out ELSE catsrc
  /\ current' = (current /\ ~write)
  /\ UNCHANGED <<pods, service, catsrcCache, podCache, serviceCache, lag, outside>>

Sync ==
  \/ CheckRegistryServer \/ EnsureRegistryServer \/ DeletePods \/ CreatePod
  \/ ensureUpdatePod \/ promoteCatalog \/ ReplacePods \/ DeleteService
  \/ ensureService \/ UpdateStatus

----------------------------------------------------------------------------
(* Faults *)

(* A call to the API server after CheckRegistryServer fails, after some of *)
(* the deletions if there are several: the sync ends with an error.        *)
CallFails ==
  /\ worker.pc \in {"delete", "create", "update", "promote", "replace",
                    "service", "create service"}
  /\ Fault
  /\ \E P \in SUBSET worker.targets :
       /\ P = {} \/ worker.pc \in {"delete", "replace"}
       /\ pods' = Without(P)
  /\ worker' = [worker EXCEPT !.pc = "status", !.targets = {}, !.updates = {}]
  /\ UNCHANGED <<catsrc, service, listers, registry, poll, changes>>

(* The operator restarts, its listers list the cluster again.              *)
Restart ==
  /\ worker.pc # "idle"
  /\ Fault
  /\ worker' = Idle
  /\ catsrcCache' = catsrc /\ podCache' = pods /\ serviceCache' = service
  /\ current' = TRUE
  /\ UNCHANGED <<cluster, lag, registry, poll, changes>>

----------------------------------------------------------------------------
(* Outside: informers, kubelet, users, time *)

ObservePods ==
  /\ podCache # pods
  /\ podCache' = pods
  /\ UNCHANGED <<cluster, catsrcCache, serviceCache, current, lag, worker, outside>>

ObserveService ==
  /\ serviceCache # service
  /\ serviceCache' = service
  /\ UNCHANGED <<cluster, catsrcCache, podCache, current, lag, worker, outside>>

ObserveCatalogSource ==
  /\ ~current
  /\ catsrcCache' = catsrc /\ current' = TRUE
  /\ UNCHANGED <<cluster, podCache, serviceCache, lag, worker, outside>>

PodStarts(p) ==
  /\ pods[p].phase = "pending"
  /\ pods' = [pods EXCEPT ![p].phase = "ready", ![p].digest = registry[pods[p].tag]]
  /\ UNCHANGED <<catsrc, service, listers, worker, outside>>

(* An update pod does not start, or the node of any pod goes away.         *)
PodFails(p) ==
  /\ Fault
  /\ \/ /\ pods[p].phase = "pending" /\ pods[p].label = "update"
        /\ pods' = [pods EXCEPT ![p].phase = "failed"]
     \/ /\ pods[p].phase = "ready"
        /\ pods' = [pods EXCEPT ![p].phase = "dead"]
  /\ UNCHANGED <<catsrc, service, listers, worker, registry, poll, changes>>

Push ==
  /\ changes < MaxChanges /\ changes' = changes + 1
  /\ registry' = [registry EXCEPT ![catsrc.tag] = @ + 1]
  /\ UNCHANGED <<cluster, listers, worker, poll, faults>>

EditImage ==
  /\ changes < MaxChanges /\ changes' = changes + 1
  /\ catsrc' = [catsrc EXCEPT !.tag = @ + 1]
  /\ current' = FALSE /\ worker' = [worker EXCEPT !.current = FALSE]
  /\ UNCHANGED <<pods, service, catsrcCache, podCache, serviceCache, lag, registry, poll, faults>>

(* A polling interval passes; syncs are short and listers catch up within  *)
(* one.                                                                    *)
IntervalPasses ==
  /\ poll /\ ~catsrc.due
  /\ worker.pc = "idle" /\ CaughtUp
  /\ catsrc' = [catsrc EXCEPT !.due = TRUE]
  /\ catsrcCache' = catsrc'
  /\ UNCHANGED <<pods, service, podCache, serviceCache, current, lag, worker, outside>>

Next ==
  \/ Sync \/ CallFails \/ Restart \/ ObservePods
  \/ ObserveService \/ ObserveCatalogSource
  \/ \E p \in PodNames : PodStarts(p) \/ PodFails(p)
  \/ Push \/ EditImage \/ IntervalPasses

Spec == Init /\ [][Next]_vars

(* The queue resyncs, informers catch up, pods start and time passes.  An  *)
(* Observe action is enabled until the lister has caught up, PodStarts     *)
(* until the pod is not pending: their weak fairness says just that        *)
(* neither lasts, and is stated so.                                        *)
FairSpec ==
  /\ Spec
  /\ WF_vars(Sync)
  /\ []<>(podCache = pods) /\ []<>(serviceCache = service) /\ []<>current
  /\ \A p \in PodNames : []<>(pods[p].phase # "pending")
  /\ SF_vars(IntervalPasses)

----------------------------------------------------------------------------
Serving == {p \in PodNames : pods[p].label = "live" /\ pods[p].phase = "ready"}
Latest(p) == pods[p].tag = catsrc.tag /\ pods[p].digest = registry[catsrc.tag]

(* Polling alone never takes the catalog down: a step of the worker that   *)
(* switches the serving pods or drops an update pod leaves a live pod that *)
(* has started if there was one, whatever the lister missed and wherever   *)
(* an earlier sync broke off.                                              *)
Started == {p \in PodNames : pods[p].label = "live" /\ pods[p].phase \in {"ready", "dead"}}
PollKeepsServing ==
  [][worker.pc \in {"update", "promote", "replace"} /\ worker' # worker
       /\ Started # {} => Started' # {}]_vars

(* A catalog ends up served, through its service, by a pod of its image;   *)
(* with polling by pods of what the tag resolves to and by no other, also  *)
(* after a sync has left stale or duplicate pods behind.                   *)
ServesLatest ==
  <>[](/\ service /\ \E p \in Serving : pods[p].tag = catsrc.tag
       /\ poll => \A p \in PodNames : pods[p].label = "live" => Latest(p))
================================================================================
