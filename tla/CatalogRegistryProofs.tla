------------------------ MODULE CatalogRegistryProofs ------------------------
(***************************************************************************)
(* The registry server of a catalog, for any number of pods, pushes, edits,*)
(* late listers and faults: types, and PollKeepsServing.                   *)
(*                                                                         *)
(* The worker picks pods from its lister and acts on the cluster, several  *)
(* calls later.  It does no harm because the lister never confuses update  *)
(* pods with live ones (CopiesTrue), so what polling deletes on the way to *)
(* a promotion is not live (Candidates), and because the promoted pod has  *)
(* started and is not among those deleted afterwards (Promoted).           *)
(***************************************************************************)
EXTENDS CatalogRegistry, TLAPS

\* A tag is edited, and an image pushed, once per change.
Dated ==
  /\ catsrc.tag <= changes /\ catsrcCache.tag <= changes /\ worker.out.tag <= changes
  /\ \A t \in Tags : registry[t] <= changes + 1

HasStarted(x) == x.phase \in {"ready", "dead"}

\* What the lister's copy c of a pod still says of the pod x.
Resembles(c, x) ==
  \/ c = NoPod
  \/ x = NoPod
  \/ /\ c.label = x.label
     /\ HasStarted(c) => HasStarted(x)

CopiesTrue == \A p \in PodNames : Resembles(podCache[p], pods[p])

\* An update pod that has started, or a pod that is gone.
Candidate(x) == x = NoPod \/ (x.label = "update" /\ HasStarted(x))

Candidates ==
  worker.pc = "promote" =>
    \A u \in worker.updates : u \notin worker.targets /\ Candidate(pods[u])

Promoted ==
  worker.pc = "replace" => Started \ worker.targets # {}

IInv == TypeOK /\ Dated /\ CopiesTrue /\ Candidates /\ Promoted

-----------------------------------------------------------------------------
(* Types *)

LEMMA PodFacts ==
  /\ NoPod \in Pod /\ NoPod.label = "none" /\ NoPod.phase = "none"
  /\ \A x \in Pod : /\ x = NoPod \/ x.label \in {"live", "update"}
                    /\ x = NoPod \/ x.phase \in {"pending", "ready", "failed", "dead"}
                    /\ x.digest \in Digests \cup {0} /\ x.tag \in Tags
BY BoundsAssumption DEF Pod, NoPod, Tags

LEMMA WithoutType ==
  ASSUME NEW P, pods \in [PodNames -> Pod]
  PROVE  /\ Without(P) \in [PodNames -> Pod]
         /\ \A p \in PodNames : Without(P)[p] = IF p \in P THEN NoPod ELSE pods[p]
BY PodFacts DEF Without

LEMMA PodLabelled ==
  ASSUME NEW x \in Pod, x # NoPod
  PROVE  /\ [x EXCEPT !.label = "live"] \in Pod
         /\ \A ph \in {"ready", "failed", "dead"} : [x EXCEPT !.phase = ph] \in Pod
         /\ \A d \in Digests : [x EXCEPT !.phase = "ready", !.digest = d] \in Pod
BY DEF Pod

LEMMA NewPodType ==
  ASSUME worker \in Worker, NEW label \in {"live", "update"}
  PROVE  NewPod(label) \in Pod /\ NewPod(label).label = label /\ NewPod(label).phase = "pending"
BY DEF NewPod, Pod, Worker, CatalogSource

PCs == {"idle", "ensure", "delete", "create", "update", "promote", "replace", "service",
        "create service", "status"}

\* What a step does to the worker's locals.
LEMMA WorkerParts ==
  ASSUME NEW w \in Worker
  PROVE  /\ w.pc \in PCs /\ w.out \in CatalogSource
         /\ w.targets \in SUBSET PodNames /\ w.updates \in SUBSET PodNames
BY DEF Worker, PCs

LEMMA IdleType == Idle \in Worker /\ Created \in CatalogSource /\ Created.tag = 0
BY BoundsAssumption DEF Idle, Worker, Created, CatalogSource, Tags

LEMMA SyncTypes ==
  ASSUME TypeOK, Dated, Sync
  PROVE  TypeOK' /\ Dated'
<1> USE BoundsAssumption
<1>0. /\ worker \in Worker /\ worker.out \in CatalogSource /\ catsrcCache \in CatalogSource
      /\ catsrc \in CatalogSource /\ pods \in [PodNames -> Pod] /\ podCache \in [PodNames -> Pod]
      /\ worker.targets \in SUBSET PodNames /\ worker.updates \in SUBSET PodNames
      /\ current \in BOOLEAN /\ currentPods \in SUBSET PodNames
      /\ currentUpdatePods \in SUBSET PodNames /\ changes \in Nat
  <2>1. worker \in Worker
    BY DEF TypeOK
  <2> QED
    BY <2>1, WorkerParts DEF TypeOK, currentPods, currentUpdatePods
<1>w. worker \in Worker
  BY DEF TypeOK
<1>1. CASE CheckRegistryServer
  <2>1. PICK pc \in {"ensure", "status"} :
          worker' = [Idle EXCEPT !.pc = pc, !.out = catsrcCache, !.current = current]
    BY <1>1 DEF CheckRegistryServer
  <2>2. worker' \in Worker /\ worker'.out = catsrcCache
    BY <1>0, <2>1, IdleType DEF Worker
  <2>3. pods' \in [PodNames -> Pod]
    <3>1. PICK P : pods' = Without(P)
      BY <1>1 DEF CheckRegistryServer
    <3> QED
      BY <1>0, <3>1, WithoutType
  <2>4. lag' \in 0..MaxLag /\ faults' \in 0..MaxFaults
    BY <1>1, BoundsAssumption DEF CheckRegistryServer, Fault, TypeOK
  <2> QED
    BY <1>1, <2>2, <2>3, <2>4 DEF CheckRegistryServer, TypeOK, Dated
<1>2. CASE EnsureRegistryServer
  <2>1. PICK o \in BOOLEAN, T \in SUBSET PodNames, pc \in {"update", "delete"} :
          worker' = [worker EXCEPT !.overwritePod = o, !.targets = T, !.pc = pc]
    BY <1>0, <1>2 DEF EnsureRegistryServer
  <2>2. worker' \in Worker /\ worker'.out = worker.out
    BY <1>w, <2>1 DEF Worker
  <2> QED
    BY <1>2, <2>2 DEF EnsureRegistryServer, TypeOK, Dated, cluster, listers, outside
<1>3. CASE DeletePods \/ ReplacePods
  <2>1. PICK pc \in {"create", "service"} : worker' = [worker EXCEPT !.pc = pc, !.targets = {}]
    BY <1>3 DEF DeletePods, ReplacePods
  <2>2. worker' \in Worker /\ worker'.out = worker.out
    BY <1>w, <2>1 DEF Worker
  <2>3. pods' \in [PodNames -> Pod]
    BY <1>0, <1>3, WithoutType DEF DeletePods, ReplacePods
  <2> QED
    BY <1>3, <2>2, <2>3 DEF DeletePods, ReplacePods, TypeOK, Dated, listers, outside
<1>4. CASE CreatePod
  <2>1. worker' \in Worker /\ worker'.out = worker.out
    BY <1>w, <1>4 DEF Worker, CreatePod
  <2>2. pods' \in [PodNames -> Pod]
    BY <1>0, <1>4, NewPodType DEF CreatePod
  <2> QED
    BY <1>4, <2>1, <2>2 DEF CreatePod, TypeOK, Dated, listers, outside
<1>5. CASE ensureUpdatePod
  <2>1. worker' \in Worker /\ worker'.out.tag = worker.out.tag
    <3>1. CASE \E pc \in {"status", "service"} : worker' = [worker EXCEPT !.pc = pc]
      <4>1. PICK pc \in {"status", "service"} : worker' = [worker EXCEPT !.pc = pc]
        BY <3>1
      <4> QED
        BY <1>w, <4>1 DEF Worker
    <3>2. CASE worker' = [NotReady EXCEPT !.out.due = FALSE]
      <4>1. worker' = [worker EXCEPT !.pc = "status", !.out = [worker.out EXCEPT !.due = FALSE]]
        BY <1>0, <3>2 DEF NotReady, Worker
      <4>2. /\ [worker.out EXCEPT !.due = FALSE] \in CatalogSource
            /\ [worker.out EXCEPT !.due = FALSE].tag = worker.out.tag
        BY <1>0 DEF CatalogSource
      <4> QED
        BY <1>w, <4>1, <4>2 DEF Worker
    <3>3. CASE worker' = [worker EXCEPT !.pc = "promote", !.updates = currentUpdatePods,
                                        !.targets = currentPods]
      <4>1. currentPods \in SUBSET PodNames /\ currentUpdatePods \in SUBSET PodNames
        BY <1>0
      <4> QED
        BY <1>w, <3>3, <4>1 DEF Worker
    <3> QED
      BY <1>5, <3>1, <3>2, <3>3 DEF ensureUpdatePod, NotReady
  <2>2. pods' \in [PodNames -> Pod]
    <3>1. \/ pods' = pods
          \/ \E p : pods' = Without({p})
          \/ \E p : pods' = [pods EXCEPT ![p] = NewPod("update")]
      BY <1>5 DEF ensureUpdatePod
    <3>2. NewPod("update") \in Pod
      BY <1>w, NewPodType
    <3>3. \A p : Without({p}) \in [PodNames -> Pod]
      BY <1>0, WithoutType
    <3> QED
      BY <1>0, <3>1, <3>2, <3>3
  <2> QED
    BY <1>5, <2>1, <2>2 DEF ensureUpdatePod, TypeOK, Dated, listers, outside
<1>6. CASE promoteCatalog
  <2>1. worker' \in Worker /\ worker'.out = worker.out
    <3>1. CASE \E pc \in {"status", "service", "replace"} : worker' = [worker EXCEPT !.pc = pc]
      <4>1. PICK pc \in {"status", "service", "replace"} : worker' = [worker EXCEPT !.pc = pc]
        BY <3>1
      <4> QED
        BY <1>w, <4>1 DEF Worker
    <3>2. CASE \E U \in SUBSET PodNames : worker' = [worker EXCEPT !.updates = U]
      <4>1. PICK U \in SUBSET PodNames : worker' = [worker EXCEPT !.updates = U]
        BY <3>2
      <4> QED
        BY <1>w, <4>1 DEF Worker
    <3>3. \A u : worker.updates \ {u} \in SUBSET PodNames
      BY <1>0
    <3>4. (\E u : worker' = [worker EXCEPT !.updates = worker.updates \ {u}])
          \/ (\E pc \in {"status", "service", "replace"} : worker' = [worker EXCEPT !.pc = pc])
      BY <1>6 DEF promoteCatalog
    <3> QED
      BY <3>1, <3>2, <3>3, <3>4
  <2>2. pods' \in [PodNames -> Pod] /\ podCache' \in [PodNames -> Pod]
    <3>1. CASE \E u \in worker.updates :
                 /\ pods[u] # NoPod /\ pods' = [pods EXCEPT ![u].label = "live"]
                 /\ podCache' = [podCache EXCEPT ![u] = pods'[u]]
      <4>1. PICK u \in PodNames :
                 /\ pods[u] # NoPod /\ pods' = [pods EXCEPT ![u].label = "live"]
                 /\ podCache' = [podCache EXCEPT ![u] = pods'[u]]
        BY <1>0, <3>1
      <4>2. pods' = [pods EXCEPT ![u] = [pods[u] EXCEPT !.label = "live"]]
        BY <1>0, <4>1
      <4>3. [pods[u] EXCEPT !.label = "live"] \in Pod
        BY <1>0, <4>1, PodLabelled
      <4> QED
        BY <1>0, <4>1, <4>2, <4>3
    <3>2. CASE pods' = pods /\ podCache' = podCache
      BY <1>0, <3>2
    <3>3. CASE (\E u : pods' = Without({u})) /\ podCache' = podCache
      BY <1>0, <3>3, WithoutType
    <3> QED
      BY <1>6, <3>1, <3>2, <3>3 DEF promoteCatalog
  <2> QED
    BY <1>6, <2>1, <2>2 DEF promoteCatalog, TypeOK, Dated, outside
<1>7. CASE DeleteService
  <2>1. worker' \in Worker /\ worker'.out = worker.out
    BY <1>w, <1>7 DEF Worker, DeleteService
  <2>2. service' \in BOOLEAN
    BY <1>7 DEF DeleteService
  <2> QED
    BY <1>7, <2>1, <2>2 DEF DeleteService, TypeOK, Dated, listers, outside
<1>8. CASE ensureService
  <2>1. PICK b \in BOOLEAN :
          worker' = [worker EXCEPT !.pc = "status", !.out = [worker.out EXCEPT !.status = b]]
    <3>1. PICK b : worker' = [worker EXCEPT !.pc = "status", !.out.status = @ \/ b]
      BY <1>8 DEF ensureService
    <3>2. (worker.out.status \/ b) \in BOOLEAN
      OBVIOUS
    <3>3. worker' = [worker EXCEPT !.pc = "status",
                       !.out = [worker.out EXCEPT !.status = (worker.out.status \/ b)]]
      BY <1>0, <3>1 DEF Worker
    <3> QED
      BY <3>2, <3>3
  <2>2. /\ [worker.out EXCEPT !.status = b] \in CatalogSource
        /\ [worker.out EXCEPT !.status = b].tag = worker.out.tag
    BY <1>0 DEF CatalogSource
  <2>3. worker' \in Worker /\ worker'.out.tag = worker.out.tag
    BY <1>w, <2>1, <2>2 DEF Worker
  <2>4. service' \in BOOLEAN
    BY <1>8 DEF ensureService
  <2> QED
    BY <1>8, <2>3, <2>4 DEF ensureService, TypeOK, Dated, listers, outside
<1>9. CASE UpdateStatus
  <2>1. catsrc' \in CatalogSource /\ catsrc'.tag <= changes
    BY <1>0, <1>9 DEF UpdateStatus, Dated
  <2>2. current' \in BOOLEAN /\ worker'.out.tag <= changes /\ worker' \in Worker
    BY <1>0, <1>9, IdleType DEF UpdateStatus, Idle
  <2> QED
    BY <1>9, <2>1, <2>2 DEF UpdateStatus, TypeOK, Dated, outside
<1> QED
  BY <1>1, <1>2, <1>3, <1>4, <1>5, <1>6, <1>7, <1>8, <1>9 DEF Sync

LEMMA FaultTypes ==
  ASSUME TypeOK, Dated, CallFails \/ Restart
  PROVE  TypeOK' /\ Dated'
<1> USE BoundsAssumption
<1>1. /\ worker \in Worker /\ pods \in [PodNames -> Pod] /\ faults' \in 0..MaxFaults
      /\ changes \in Nat
  <2>1. faults < MaxFaults /\ faults' = faults + 1
    BY DEF CallFails, Restart, Fault
  <2> QED
    BY <2>1 DEF TypeOK
<1>2. CASE CallFails
  <2>1. worker' = [worker EXCEPT !.pc = "status", !.targets = {}, !.updates = {}]
    BY <1>2 DEF CallFails
  <2>2. worker' \in Worker /\ worker'.out = worker.out
    BY <1>1, <2>1 DEF Worker
  <2>3. pods' \in [PodNames -> Pod]
    <3>1. PICK P : pods' = Without(P)
      BY <1>2 DEF CallFails
    <3> QED
      BY <1>1, <3>1, WithoutType
  <2> QED
    BY <1>1, <1>2, <2>2, <2>3 DEF CallFails, TypeOK, Dated, listers
<1>3. CASE Restart
  <2>1. worker' \in Worker /\ worker'.out.tag = 0
    BY <1>3, IdleType DEF Restart, Idle
  <2> QED
    BY <1>1, <1>3, <2>1 DEF Restart, TypeOK, Dated, cluster
<1> QED
  BY <1>2, <1>3

Outside ==
  \/ ObservePods \/ ObserveService \/ ObserveCatalogSource
  \/ \E p \in PodNames : PodStarts(p) \/ PodFails(p)
  \/ Push \/ EditImage \/ IntervalPasses

\* What happens to a pod outside of the operator.
LEMMA PodMoves ==
  ASSUME TypeOK, NEW p \in PodNames, PodStarts(p) \/ PodFails(p)
  PROVE  \E x \in Pod : /\ pods[p] # NoPod /\ pods' = [pods EXCEPT ![p] = x] /\ x # NoPod
                        /\ x.label = pods[p].label
                        /\ HasStarted(pods[p]) => HasStarted(x)
<1>1. /\ pods[p] \in Pod /\ pods \in [PodNames -> Pod]
      /\ \A t \in Tags : registry[t] \in Digests
  BY DEF TypeOK
<1>2. pods[p] # NoPod
  BY PodFacts DEF PodStarts, PodFails
<1>3. CASE PodStarts(p)
  <2> DEFINE x == [pods[p] EXCEPT !.phase = "ready", !.digest = registry[pods[p].tag]]
  <2>1. pods[p].tag \in Tags
    BY <1>1, PodFacts
  <2>2. x \in Pod
    BY <1>1, <1>2, <2>1, PodLabelled
  <2>3. pods' = [pods EXCEPT ![p] = x]
    BY <1>1, <1>3 DEF PodStarts
  <2>4. x.label = pods[p].label /\ x.phase = "ready"
    BY <1>1, <1>2 DEF Pod
  <2> QED
    BY <1>2, <2>2, <2>3, <2>4, PodFacts DEF HasStarted
<1>4. CASE PodFails(p)
  <2>1. PICK ph \in {"failed", "dead"} :
          /\ pods' = [pods EXCEPT ![p].phase = ph]
          /\ HasStarted(pods[p]) => ph = "dead"
    BY <1>4 DEF PodFails, HasStarted
  <2> DEFINE x == [pods[p] EXCEPT !.phase = ph]
  <2>2. x \in Pod
    BY <1>1, <1>2, <2>1, PodLabelled
  <2>3. pods' = [pods EXCEPT ![p] = x]
    BY <1>1, <2>1
  <2>4. x.label = pods[p].label /\ x.phase = ph
    BY <1>1, <1>2 DEF Pod
  <2> QED
    BY <1>2, <2>1, <2>2, <2>3, <2>4, PodFacts DEF HasStarted
<1> QED
  BY <1>3, <1>4

LEMMA OutsideTypes ==
  ASSUME TypeOK, Dated, Outside
  PROVE  TypeOK' /\ Dated'
<1> USE BoundsAssumption
<1>0. /\ worker \in Worker /\ pods \in [PodNames -> Pod] /\ changes \in Nat
      /\ catsrc \in CatalogSource /\ registry \in [Tags -> Digests] /\ catsrc.tag \in Tags
  BY DEF TypeOK, CatalogSource
<1>1. CASE ObservePods \/ ObserveService \/ ObserveCatalogSource
  BY <1>1 DEF ObservePods, ObserveService, ObserveCatalogSource, TypeOK, Dated, cluster, outside
<1>2. CASE \E p \in PodNames : PodStarts(p) \/ PodFails(p)
  <2>1. pods' \in [PodNames -> Pod]
    BY <1>0, <1>2, PodMoves
  <2>2. faults' \in 0..MaxFaults
    BY <1>2 DEF PodStarts, PodFails, Fault, TypeOK, outside
  <2> QED
    BY <1>2, <2>1, <2>2 DEF PodStarts, PodFails, TypeOK, Dated, listers, outside
<1>3. CASE Push
  <2>1. registry' = [registry EXCEPT ![catsrc.tag] = registry[catsrc.tag] + 1]
    BY <1>3 DEF Push
  <2>2. changes' \in 0..MaxChanges /\ changes' = changes + 1
    BY <1>3 DEF Push, TypeOK
  <2>3. \A t \in Tags : registry[t] \in Nat /\ registry[t] >= 1 /\ registry[t] <= changes + 1
    BY <1>0 DEF Dated, Digests
  <2>4. registry' \in [Tags -> Digests] /\ \A t \in Tags : registry'[t] <= changes' + 1
    BY <1>0, <2>1, <2>2, <2>3 DEF Digests
  <2>5. {catsrc.tag, catsrcCache.tag, worker.out.tag} \subseteq Nat
    BY <1>0, WorkerParts DEF TypeOK, CatalogSource, Tags
  <2> QED
    BY <1>0, <1>3, <2>2, <2>4, <2>5 DEF Push, TypeOK, Dated, cluster, listers
<1>4. CASE EditImage
  <2>1. worker' \in Worker /\ worker'.out = worker.out
    BY <1>0, <1>4 DEF EditImage, Worker
  <2>2. changes' \in 0..MaxChanges /\ changes' = changes + 1
    BY <1>4 DEF EditImage, TypeOK
  <2>3. catsrc' = [catsrc EXCEPT !.tag = catsrc.tag + 1]
    BY <1>4 DEF EditImage
  <2>4. catsrc.tag + 1 \in Tags /\ catsrc.tag + 1 <= changes'
    BY <1>0, <2>2 DEF Dated, Tags
  <2>5. catsrc' \in CatalogSource /\ catsrc'.tag <= changes'
    BY <1>0, <2>3, <2>4 DEF CatalogSource
  <2>6. /\ {catsrcCache.tag, worker.out.tag} \subseteq Nat
        /\ \A t \in Tags : registry[t] \in Nat
    BY <1>0, WorkerParts DEF TypeOK, CatalogSource, Tags, Digests
  <2>7. /\ catsrcCache'.tag <= changes' /\ worker'.out.tag <= changes'
        /\ \A t \in Tags : registry'[t] <= changes' + 1
    BY <1>0, <1>4, <2>1, <2>2, <2>6 DEF EditImage, Dated
  <2> QED
    BY <1>4, <2>1, <2>2, <2>5, <2>7 DEF EditImage, TypeOK, Dated
<1>5. CASE IntervalPasses
  <2>1. catsrc' \in CatalogSource /\ catsrc'.tag = catsrc.tag
    BY <1>0, <1>5 DEF IntervalPasses, CatalogSource
  <2> QED
    BY <1>5, <2>1 DEF IntervalPasses, TypeOK, Dated, outside
<1> QED
  BY <1>1, <1>2, <1>3, <1>4, <1>5 DEF Outside

-----------------------------------------------------------------------------
(* Pods that serve *)

\* The part of the invariant that is about pods.
PodsInv == CopiesTrue /\ Candidates /\ Promoted

LEMMA PodTypes ==
  ASSUME TypeOK
  PROVE  /\ pods \in [PodNames -> Pod] /\ podCache \in [PodNames -> Pod]
         /\ \A p \in PodNames : pods[p] \in Pod /\ podCache[p] \in Pod
         /\ worker \in Worker
         /\ worker.targets \in SUBSET PodNames /\ worker.updates \in SUBSET PodNames
<1>1. worker \in Worker
  BY DEF TypeOK
<1> QED
  BY <1>1, WorkerParts DEF TypeOK

\* Deleting pods leaves the rest as they were, and the lister's copies true.
LEMMA Deleting ==
  ASSUME TypeOK, CopiesTrue, NEW P, pods' = Without(P), podCache' = podCache
  PROVE  /\ CopiesTrue'
         /\ \A u \in PodNames : Candidate(pods[u]) => Candidate(pods'[u])
         /\ Started' = Started \ P
<1>1. \A p \in PodNames : pods'[p] = IF p \in P THEN NoPod ELSE pods[p]
  BY PodTypes, WithoutType
<1>2. CopiesTrue'
  BY <1>1 DEF CopiesTrue, Resembles
<1>3. Started' = Started \ P
  BY <1>1, PodFacts DEF Started
<1> QED
  BY <1>1, <1>2, <1>3 DEF Candidate

\* A new pod gets a name the lister does not know either.
LEMMA Creating ==
  ASSUME TypeOK, CopiesTrue, NEW label \in {"live", "update"}, podCache' = podCache,
         \E p \in FreshPods : pods' = [pods EXCEPT ![p] = NewPod(label)]
  PROVE  CopiesTrue' /\ Started' = Started
<1>1. PICK p \in FreshPods : pods' = [pods EXCEPT ![p] = NewPod(label)]
  OBVIOUS
<1>2. p \in PodNames /\ pods[p] = NoPod /\ podCache[p] = NoPod
  BY DEF FreshPods
<1>3. NewPod(label).phase = "pending"
  BY PodTypes, NewPodType
<1>4. \A q \in PodNames : pods'[q] = IF q = p THEN NewPod(label) ELSE pods[q]
  BY <1>1, <1>2, PodTypes
<1>5. CopiesTrue'
  BY <1>2, <1>4 DEF CopiesTrue, Resembles
<1>6. Started' = Started
  BY <1>2, <1>3, <1>4, PodFacts DEF Started
<1> QED
  BY <1>5, <1>6

\* A step that leaves the pods alone and neither starts promoting nor replacing.
LEMMA QuietPods ==
  ASSUME PodsInv, pods' = pods, podCache' \in {podCache, pods},
         \/ worker'.pc \notin {"promote", "replace"}
         \/ /\ worker'.pc = worker.pc
            /\ worker'.targets = worker.targets /\ worker'.updates = worker.updates
  PROVE  PodsInv' /\ Started' = Started
<1>1. CopiesTrue'
  BY DEF PodsInv, CopiesTrue, Resembles
<1>2. Started' = Started
  BY DEF Started
<1>3. Candidates' /\ Promoted'
  BY <1>2 DEF PodsInv, Candidates, Promoted
<1> QED
  BY <1>1, <1>2, <1>3 DEF PodsInv

\* Polling keeps a live pod that has started.
KeepsServing ==
  worker.pc \in {"update", "promote", "replace"} /\ worker' # worker
    /\ Started # {} => Started' # {}

LEMMA EnsureUpdatePodKeeps ==
  ASSUME TypeOK, PodsInv, ensureUpdatePod
  PROVE  PodsInv' /\ Started' = Started
<1>0. /\ worker \in Worker /\ CopiesTrue /\ podCache' = podCache
      /\ currentPods \in SUBSET PodNames /\ currentUpdatePods \in SUBSET PodNames
  BY DEF TypeOK, PodsInv, ensureUpdatePod, listers, currentPods, currentUpdatePods
<1>1. CASE worker'.pc \in {"status", "service"}
  <2>1. CopiesTrue' /\ Started' = Started
    <3>1. CASE pods' = pods
      BY <1>0, <1>1, <3>1, QuietPods DEF PodsInv
    <3>2. CASE \E p \in FreshPods : pods' = [pods EXCEPT ![p] = NewPod("update")]
      BY <1>0, <3>2, Creating
    <3>3. CASE \E p \in currentUpdatePods : podCache[p].phase = "failed" /\ pods' = Without({p})
      <4>1. PICK p \in currentUpdatePods : podCache[p].phase = "failed" /\ pods' = Without({p})
        BY <3>3
      <4>2. p \in PodNames /\ podCache[p].label = "update"
        BY <4>1 DEF currentUpdatePods
      <4>3. pods[p].label # "live"
        BY <1>0, <4>2, PodFacts DEF CopiesTrue, Resembles
      <4>4. CopiesTrue' /\ Started' = Started \ {p}
        BY <1>0, <4>1, Deleting
      <4> QED
        BY <4>3, <4>4 DEF Started
    <3> QED
      BY <3>1, <3>2, <3>3 DEF ensureUpdatePod
  <2> QED
    BY <1>1, <2>1 DEF PodsInv, Candidates, Promoted
<1>2. CASE /\ worker' = [worker EXCEPT !.pc = "promote", !.updates = currentUpdatePods,
                                       !.targets = currentPods]
           /\ pods' = pods
           /\ \A p \in currentUpdatePods : podCache[p].phase \in {"ready", "dead"}
  <2>1. worker'.pc = "promote" /\ worker'.updates = currentUpdatePods /\ worker'.targets = currentPods
    BY <1>0, <1>2 DEF Worker
  <2>2. ASSUME NEW u \in currentUpdatePods  PROVE u \notin currentPods /\ Candidate(pods[u])
    <3>1. u \in PodNames /\ podCache[u].label = "update" /\ HasStarted(podCache[u])
      BY <1>2, <2>2 DEF currentUpdatePods, HasStarted
    <3>2. u \notin currentPods
      BY <3>1 DEF currentPods
    <3> QED
      BY <1>0, <3>1, <3>2, PodFacts DEF CopiesTrue, Resembles, Candidate
  <2>3. Candidates' /\ Promoted'
    BY <1>2, <2>1, <2>2 DEF Candidates, Promoted
  <2>4. CopiesTrue' /\ Started' = Started
    BY <1>0, <1>2 DEF CopiesTrue, Started
  <2> QED
    BY <2>3, <2>4 DEF PodsInv
<1>3. \/ worker' = [worker EXCEPT !.pc = "service"]
      \/ worker' = [NotReady EXCEPT !.out.due = FALSE]
      \/ worker' = NotReady
      \/ /\ worker' = [worker EXCEPT !.pc = "promote", !.updates = currentUpdatePods,
                                     !.targets = currentPods]
         /\ pods' = pods
         /\ \A p \in currentUpdatePods : podCache[p].phase \in {"ready", "dead"}
  BY DEF ensureUpdatePod
<1>4. /\ worker' = [worker EXCEPT !.pc = "service"] => worker'.pc = "service"
      /\ worker' = [NotReady EXCEPT !.out.due = FALSE] => worker'.pc = "status"
      /\ worker' = NotReady => worker'.pc = "status"
  BY <1>0 DEF NotReady, Worker
<1> QED
  BY <1>1, <1>2, <1>3, <1>4

LEMMA PromoteCatalogKeeps ==
  ASSUME TypeOK, PodsInv, promoteCatalog
  PROVE  PodsInv' /\ Started \subseteq Started'
<1>0. /\ worker \in Worker /\ worker.updates \in SUBSET PodNames /\ worker.pc = "promote"
      /\ pods \in [PodNames -> Pod] /\ podCache \in [PodNames -> Pod]
      /\ \A u \in worker.updates : u \notin worker.targets /\ Candidate(pods[u])
      /\ CopiesTrue
  BY PodTypes DEF promoteCatalog, PodsInv, Candidates
<1>1. CASE \E u \in worker.updates :
             /\ pods[u] # NoPod
             /\ pods' = [pods EXCEPT ![u].label = "live"]
             /\ podCache' = [podCache EXCEPT ![u] = pods'[u]]
             /\ worker' = [worker EXCEPT !.pc = "replace"]
  <2>1. PICK u \in worker.updates :
             /\ pods[u] # NoPod
             /\ pods' = [pods EXCEPT ![u].label = "live"]
             /\ podCache' = [podCache EXCEPT ![u] = pods'[u]]
             /\ worker' = [worker EXCEPT !.pc = "replace"]
    BY <1>1
  <2> DEFINE x == [pods[u] EXCEPT !.label = "live"]
  <2>2. u \in PodNames /\ pods[u] \in Pod /\ HasStarted(pods[u]) /\ u \notin worker.targets
    BY <1>0, <2>1 DEF Candidate
  <2>3. x.label = "live" /\ HasStarted(x)
    BY <2>1, <2>2 DEF Pod, HasStarted
  <2>4. /\ pods'[u] = x /\ podCache'[u] = x
        /\ \A q \in PodNames : q # u => pods'[q] = pods[q] /\ podCache'[q] = podCache[q]
    BY <1>0, <2>1, <2>2
  <2> HIDE DEF x
  <2>5. u \in Started' /\ Started \subseteq Started'
    BY <2>2, <2>3, <2>4 DEF Started, HasStarted
  <2>6. worker'.pc = "replace" /\ worker'.targets = worker.targets
    BY <1>0, <2>1 DEF Worker
  <2>7. CopiesTrue'
    BY <1>0, <2>4 DEF CopiesTrue, Resembles
  <2>8. Candidates' /\ Promoted'
    BY <2>2, <2>5, <2>6 DEF Candidates, Promoted
  <2> QED
    BY <2>5, <2>7, <2>8 DEF PodsInv
<1>2. CASE \E u \in worker.updates :
             /\ pods' = Without({u}) /\ podCache' = podCache
             /\ worker' = [worker EXCEPT !.updates = @ \ {u}]
  <2>1. PICK u \in worker.updates :
             /\ pods' = Without({u}) /\ podCache' = podCache
             /\ worker' = [worker EXCEPT !.updates = @ \ {u}]
    BY <1>2
  <2>2. /\ worker'.pc = "promote" /\ worker'.targets = worker.targets
        /\ worker'.updates = worker.updates \ {u}
    BY <1>0, <2>1 DEF Worker
  <2>3. /\ CopiesTrue' /\ Started' = Started \ {u}
        /\ \A v \in PodNames : Candidate(pods[v]) => Candidate(pods'[v])
    BY <1>0, <2>1, Deleting
  <2>4. u \notin Started
    BY <1>0, <2>1, PodFacts DEF Started, Candidate
  <2>5. Candidates' /\ Promoted'
    BY <1>0, <2>2, <2>3 DEF Candidates, Promoted
  <2> QED
    BY <2>3, <2>4, <2>5 DEF PodsInv
<1>3. CASE /\ pods' = pods /\ podCache' = podCache
           /\ \E pc \in {"status", "service"} : worker' = [worker EXCEPT !.pc = pc]
  <2>1. PICK pc \in {"status", "service"} : worker' = [worker EXCEPT !.pc = pc]
    BY <1>3
  <2>2. worker'.pc \notin {"promote", "replace"}
    BY <1>0, <2>1 DEF Worker
  <2> QED
    BY <1>3, <2>2, QuietPods
<1> QED
  BY <1>1, <1>2, <1>3 DEF promoteCatalog

\* The pods to replace go, the promoted one stays.
LEMMA ReplacePodsKeeps ==
  ASSUME TypeOK, PodsInv, worker.pc = "replace", podCache' = podCache,
         NEW P \in SUBSET worker.targets, pods' = Without(P),
         worker'.pc \notin {"promote", "replace"}
  PROVE  PodsInv' /\ Started' # {}
<1>1. CopiesTrue' /\ Started' = Started \ P
  BY Deleting DEF PodsInv
<1>2. Started \ worker.targets # {}
  BY DEF PodsInv, Promoted
<1> QED
  BY <1>1, <1>2 DEF PodsInv, Candidates, Promoted

LEMMA SyncKeeps ==
  ASSUME TypeOK, PodsInv, Sync
  PROVE  PodsInv' /\ KeepsServing
<1>0. worker \in Worker /\ CopiesTrue
  BY DEF TypeOK, PodsInv
<1>1. CASE CheckRegistryServer
  <2>1. \E P : pods' = Without(P)
    BY <1>1 DEF CheckRegistryServer
  <2>2. CopiesTrue'
    BY <1>0, <1>1, <2>1, Deleting DEF CheckRegistryServer
  <2>3. worker'.pc \notin {"promote", "replace"} /\ worker.pc = "idle"
    BY <1>1, IdleType DEF CheckRegistryServer, Worker
  <2> QED
    BY <2>2, <2>3 DEF PodsInv, Candidates, Promoted, KeepsServing
<1>2. CASE EnsureRegistryServer
  <2>1. worker'.pc \notin {"promote", "replace"} /\ worker.pc = "ensure"
    BY <1>0, <1>2 DEF EnsureRegistryServer, Worker
  <2>2. pods' = pods /\ podCache' = podCache
    BY <1>2 DEF EnsureRegistryServer, cluster, listers
  <2> QED
    BY <2>1, <2>2, QuietPods DEF KeepsServing
<1>3. CASE DeletePods
  <2>1. worker'.pc = "create" /\ worker.pc = "delete"
    BY <1>0, <1>3 DEF DeletePods, Worker
  <2>2. CopiesTrue'
    BY <1>0, <1>3, Deleting DEF DeletePods, listers
  <2> QED
    BY <2>1, <2>2 DEF PodsInv, Candidates, Promoted, KeepsServing
<1>4. CASE CreatePod
  <2>1. worker'.pc = "update" /\ worker.pc = "create"
    BY <1>0, <1>4 DEF CreatePod, Worker
  <2>2. CopiesTrue'
    BY <1>0, <1>4, Creating DEF CreatePod, listers
  <2> QED
    BY <2>1, <2>2 DEF PodsInv, Candidates, Promoted, KeepsServing
<1>5. CASE ensureUpdatePod
  BY <1>5, EnsureUpdatePodKeeps DEF KeepsServing
<1>6. CASE promoteCatalog
  BY <1>6, PromoteCatalogKeeps DEF KeepsServing
<1>7. CASE ReplacePods
  <2>1. worker'.pc = "service"
    BY <1>0, <1>7 DEF ReplacePods, Worker
  <2>2. /\ worker.pc = "replace" /\ podCache' = podCache /\ pods' = Without(worker.targets)
        /\ worker.targets \in SUBSET worker.targets
    BY <1>7 DEF ReplacePods, listers
  <2> QED
    BY <2>1, <2>2, ReplacePodsKeeps DEF KeepsServing
<1>8. CASE DeleteService \/ ensureService \/ UpdateStatus
  <2>1. worker'.pc \in {"create service", "status", "idle"}
    <3>1. CASE DeleteService
      BY <1>0, <3>1 DEF DeleteService, Worker
    <3>2. CASE ensureService
      <4>1. PICK b : worker' = [worker EXCEPT !.pc = "status", !.out.status = @ \/ b]
        BY <3>2 DEF ensureService
      <4> QED
        BY <1>0, <4>1 DEF Worker
    <3>3. CASE UpdateStatus
      BY <3>3 DEF UpdateStatus, Idle
    <3> QED
      BY <1>8, <3>1, <3>2, <3>3
  <2>2. pods' = pods /\ podCache' = podCache
    BY <1>8 DEF DeleteService, ensureService, UpdateStatus, listers
  <2> QED
    BY <2>1, <2>2, QuietPods DEF KeepsServing
<1> QED
  BY <1>1, <1>2, <1>3, <1>4, <1>5, <1>6, <1>7, <1>8 DEF Sync

LEMMA FaultsKeep ==
  ASSUME TypeOK, PodsInv, CallFails \/ Restart
  PROVE  PodsInv' /\ KeepsServing
<1>0. worker \in Worker /\ CopiesTrue
  BY DEF TypeOK, PodsInv
<1>1. CASE Restart
  <2>1. worker'.pc = "idle" /\ pods' = pods /\ podCache' = pods
    BY <1>1 DEF Restart, Idle, cluster
  <2> QED
    BY <2>1, QuietPods DEF KeepsServing
<1>2. CASE CallFails
  <2>1. worker'.pc = "status" /\ podCache' = podCache
    BY <1>0, <1>2 DEF CallFails, Worker, listers
  <2>2. PICK P \in SUBSET worker.targets :
          pods' = Without(P) /\ (P = {} \/ worker.pc \in {"delete", "replace"})
    BY <1>2 DEF CallFails
  <2>3. CASE worker.pc = "replace"
    BY <2>1, <2>2, <2>3, ReplacePodsKeeps DEF KeepsServing
  <2>4. CASE worker.pc # "replace"
    <3>1. CopiesTrue' /\ Started' = Started \ P
      BY <1>0, <2>1, <2>2, Deleting
    <3> QED
      BY <2>1, <2>2, <2>4, <3>1 DEF PodsInv, Candidates, Promoted, KeepsServing
  <2> QED
    BY <2>3, <2>4
<1> QED
  BY <1>1, <1>2

LEMMA OutsideKeeps ==
  ASSUME TypeOK, PodsInv, Outside
  PROVE  PodsInv' /\ KeepsServing
<1>0. worker \in Worker /\ CopiesTrue
  BY DEF TypeOK, PodsInv
<1>1. CASE \E p \in PodNames : PodStarts(p) \/ PodFails(p)
  <2>1. PICK p \in PodNames : PodStarts(p) \/ PodFails(p)
    BY <1>1
  <2>2. worker' = worker /\ podCache' = podCache
    BY <2>1 DEF PodStarts, PodFails, listers
  <2>3. PICK x \in Pod : /\ pods[p] # NoPod /\ pods' = [pods EXCEPT ![p] = x] /\ x # NoPod
                         /\ x.label = pods[p].label
                         /\ HasStarted(pods[p]) => HasStarted(x)
    BY <2>1, PodMoves
  <2>4. pods'[p] = x /\ \A q \in PodNames : q # p => pods'[q] = pods[q]
    BY <2>3, PodTypes
  <2>5. CopiesTrue'
    BY <1>0, <2>2, <2>3, <2>4 DEF CopiesTrue, Resembles
  <2>6. Started \subseteq Started'
    BY <2>3, <2>4 DEF Started, HasStarted
  <2>7. \A u \in PodNames : Candidate(pods[u]) => Candidate(pods'[u])
    BY <2>3, <2>4 DEF Candidate
  <2>8. Candidates' /\ Promoted'
    BY <2>2, <2>6, <2>7, PodTypes DEF PodsInv, Candidates, Promoted
  <2> QED
    BY <2>2, <2>5, <2>8 DEF PodsInv, KeepsServing
<1>2. CASE ~ \E p \in PodNames : PodStarts(p) \/ PodFails(p)
  <2>1. pods' = pods /\ podCache' \in {podCache, pods}
    BY <1>2 DEF Outside, ObservePods, ObserveService, ObserveCatalogSource, Push, EditImage,
                IntervalPasses, cluster, listers
  <2>2. worker' = worker \/ worker' = [worker EXCEPT !.current = FALSE]
    BY <1>2 DEF Outside, ObservePods, ObserveService, ObserveCatalogSource, Push, EditImage,
                IntervalPasses
  <2>3. /\ worker'.pc = worker.pc
        /\ worker'.targets = worker.targets /\ worker'.updates = worker.updates
    BY <1>0, <2>2 DEF Worker
  <2> QED
    BY <2>1, <2>3, QuietPods DEF KeepsServing
<1> QED
  BY <1>1, <1>2

-----------------------------------------------------------------------------
(* Theorems *)

LEMMA InitIInv == Init => IInv
<1> SUFFICES ASSUME Init PROVE IInv
  OBVIOUS
<1> USE BoundsAssumption
<1>1. TypeOK
  <2>1. registry \in [Tags -> Digests]
    BY DEF Init, Tags, Digests
  <2>2. {pods, podCache} \subseteq [PodNames -> Pod]
    BY PodFacts DEF Init
  <2>3. /\ {catsrc, catsrcCache} \subseteq CatalogSource /\ worker \in Worker
        /\ {service, serviceCache, current} \subseteq BOOLEAN /\ poll \in BOOLEAN
    BY IdleType DEF Init
  <2>4. lag \in 0..MaxLag /\ changes \in 0..MaxChanges /\ faults \in 0..MaxFaults
    BY DEF Init
  <2> QED
    BY <2>1, <2>2, <2>3, <2>4 DEF TypeOK
<1>2. Dated
  BY IdleType DEF Init, Dated, Idle, Created
<1>3. PodsInv
  BY DEF Init, PodsInv, CopiesTrue, Resembles, Candidates, Promoted, Idle
<1> QED
  BY <1>1, <1>2, <1>3 DEF IInv, PodsInv

LEMMA Invariance ==
  ASSUME IInv, [Next]_vars
  PROVE  IInv' /\ [KeepsServing]_vars
<1>0. TypeOK /\ Dated /\ PodsInv
  BY DEF IInv, PodsInv
<1>1. CASE UNCHANGED vars
  <2>1. TypeOK' /\ Dated'
    BY <1>0, <1>1 DEF vars, TypeOK, Dated
  <2>2. PodsInv'
    BY <1>0, <1>1, QuietPods DEF vars
  <2> QED
    BY <1>1, <2>1, <2>2 DEF IInv, PodsInv
<1>2. CASE Sync
  BY <1>0, <1>2, SyncTypes, SyncKeeps DEF IInv, PodsInv
<1>3. CASE CallFails \/ Restart
  BY <1>0, <1>3, FaultTypes, FaultsKeep DEF IInv, PodsInv
<1>4. CASE Outside
  BY <1>0, <1>4, OutsideTypes, OutsideKeeps DEF IInv, PodsInv
<1> QED
  BY <1>1, <1>2, <1>3, <1>4 DEF Next, Outside

\* Every variable keeps its type: no image tag or digest beyond the edits and
\* pushes that happened is ever seen, by the lister, a pod or a running sync.
THEOREM TypeCorrect == Spec => [](TypeOK /\ Dated)
<1>1. IInv /\ [Next]_vars => IInv'
  BY Invariance
<1>2. IInv => TypeOK /\ Dated
  BY DEF IInv
<1> QED
  BY <1>1, <1>2, InitIInv, PTL DEF Spec

\* Polling never takes the catalog down: whatever the lister missed, whichever
\* call failed and wherever the operator was restarted, no step of
\* ensureUpdatePod, promoteCatalog or of the replacement of the old pods in
\* EnsureRegistryServer leaves a catalog that had a started live pod without one.
THEOREM KeptServing == Spec => PollKeepsServing
<1>1. IInv /\ [Next]_vars => IInv' /\ [KeepsServing]_vars
  BY Invariance
<1>2. IInv /\ [Next]_vars =>
        [worker.pc \in {"update", "promote", "replace"} /\ worker' # worker
           /\ Started # {} => Started' # {}]_vars
  BY <1>1 DEF KeepsServing
<1> QED
  BY <1>1, <1>2, InitIInv, PTL DEF Spec, PollKeepsServing
=============================================================================
