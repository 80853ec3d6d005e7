------------------------- MODULE CSVLifecycleProofs -------------------------
(***************************************************************************)
(* Proofs about the CSV control loop, for every set of CSVs, every         *)
(* replacement relation, every number of workers and every bound.          *)
(***************************************************************************)
EXTENDS CSVLifecycle, TLAPS

-----------------------------------------------------------------------------
(* Types *)

LEMMA ObjectTypes ==
  /\ Absent \in Object
  /\ Fresh \in Object
  /\ NoStatus \notin Status
  /\ \A o \in Object : Deleted(o) \in Object
  /\ \A o \in Object, m \in {"finalizer", "member", "bare"} : [o EXCEPT !.meta = m] \in Object
  /\ \A o \in Object, s \in Status : WithStatus(o, s) \in Object
BY DEF WithStatus, Absent, Fresh, Object, NoStatus, Status, Deleted, Phases, Reasons

LEMMA StoreType ==
  ASSUME TypeOK, NEW c \in CSVs, NEW obj \in Object, Store(c, obj)
  PROVE  /\ api' \in [CSVs -> Object]
         /\ watch' \in Seq(Event)
         /\ Len(watch') <= MaxLag
BY SwitchesAssumption DEF TypeOK, Store, Event

\* What a sync decides is a status, and only writes under way are stale.
LEMMA FinishType ==
  ASSUME TypeOK, NEW c \in CSVs, NEW s \in Status, Finish(c, s)
  PROVE  /\ out' \in [CSVs -> Status \cup {NoStatus}]
         /\ c \notin InFlight => stale' \subseteq InFlight'
  <1>1. out' \in [CSVs -> Status \cup {NoStatus}]
    BY DEF TypeOK, Finish
  <1>2. ASSUME c \notin InFlight  PROVE stale' \subseteq InFlight'
    BY <1>1, <1>2, ObjectTypes DEF TypeOK, Finish, InFlight
  <1> QED BY <1>1, <1>2

\* The statuses a healthy or an unhealthy answer leads to are statuses.
LEMMA Outcomes ==
  /\ \A ph \in Phases, r \in Reasons : S(ph, r) \in Status
  /\ \A ph \in Phases : NotInstalled(ph) \subseteq Status
BY DEF S, Status, Phases, Reasons, NotInstalled

LEMMA HealthyType ==
  ASSUME TypeOK, NEW c \in CSVs \ InFlight, NEW statuses \in SUBSET Status,
         Healthy(c, statuses) \/ Unhealthy(c, statuses)
  PROVE  TypeOK'
  <1>1. PICK s \in statuses : Finish(c, s)
    BY DEF Healthy, Unhealthy
  <1>2. /\ out' \in [CSVs -> Status \cup {NoStatus}]
        /\ stale' \subseteq InFlight'
    BY <1>1, FinishType
  <1>3. faults' \in 0..MaxFaults
    BY SwitchesAssumption DEF Healthy, Unhealthy, Fault, TypeOK
  <1> QED BY <1>1, <1>2, <1>3 DEF TypeOK, Finish

LEMMA TypeStep ==
  ASSUME TypeOK, [Next]_vars
  PROVE  TypeOK'
  <1> USE SwitchesAssumption, CSVsAssumption
  <1>1. ASSUME NEW c \in CSVs, Create(c)  PROVE TypeOK'
    <2>1. Store(c, Fresh) /\ Fresh \in Object
      BY <1>1, ObjectTypes DEF Create
    <2> QED BY <1>1, <2>1, StoreType DEF Create, TypeOK, InFlight
  <1>2. ASSUME NEW c \in CSVs, UserDelete(c)  PROVE TypeOK'
    <2>1. Store(c, Deleted(api[c])) /\ Deleted(api[c]) \in Object
      BY <1>2, ObjectTypes DEF UserDelete, TypeOK
    <2> QED BY <1>2, <2>1, StoreType DEF UserDelete, TypeOK, InFlight
  <1>3. ASSUME NEW c \in CSVs, DetectedClusterChange(c)  PROVE TypeOK'
    <2>1. WithStatus(api[c], S("Pending", "Other")) \in Object
      BY ObjectTypes, Outcomes DEF TypeOK, Phases, Reasons
    <2>2. Store(c, WithStatus(api[c], S("Pending", "Other")))
      BY <1>3 DEF DetectedClusterChange
    <2> QED BY <1>3, <2>1, <2>2, StoreType DEF DetectedClusterChange, TypeOK, InFlight
  <1>4. ASSUME NEW c \in CSVs, AddFinalizer(c)  PROVE TypeOK'
    <2>1. /\ [api[c] EXCEPT !.meta = "finalizer"] \in Object
          /\ [cache[c] EXCEPT !.meta = "finalizer"] \in Object
      BY ObjectTypes DEF TypeOK
    <2>2. cache' \in [CSVs -> Object]
      BY <1>4, <2>1 DEF AddFinalizer, TypeOK
    <2>3. /\ api' \in [CSVs -> Object]
          /\ watch' \in Seq(Event)
          /\ Len(watch') <= MaxLag
      BY <1>4, <2>1, StoreType DEF AddFinalizer, TypeOK
    <2>4. faults' \in 0..MaxFaults
      BY <1>4 DEF AddFinalizer, Fault, TypeOK
    <2> QED BY <1>4, <2>2, <2>3, <2>4 DEF AddFinalizer, TypeOK, InFlight
  <1>5. ASSUME NEW c \in CSVs, RemoveFinalizer(c)  PROVE TypeOK'
    <2>1. /\ Absent \in Object
          /\ [cache[c] EXCEPT !.meta = "bare"] \in Object
      BY ObjectTypes DEF TypeOK
    <2>2. cache' \in [CSVs -> Object]
      BY <1>5, <2>1 DEF RemoveFinalizer, TypeOK
    <2>3. /\ api' \in [CSVs -> Object]
          /\ watch' \in Seq(Event)
          /\ Len(watch') <= MaxLag
      BY <1>5, <2>1, StoreType DEF RemoveFinalizer, TypeOK
    <2>4. faults' \in 0..MaxFaults
      BY <1>5 DEF RemoveFinalizer, Fault, TypeOK
    <2> QED BY <1>5, <2>2, <2>3, <2>4 DEF RemoveFinalizer, TypeOK, InFlight
  <1>6. ASSUME NEW c \in CSVs, Annotate(c)  PROVE TypeOK'
    <2>1. [api[c] EXCEPT !.meta = "member"] \in Object
      BY ObjectTypes DEF TypeOK
    <2>2. Store(c, [api[c] EXCEPT !.meta = "member"])
      BY <1>6 DEF Annotate
    <2>3. faults' \in 0..MaxFaults
      BY <1>6 DEF Annotate, Fault, TypeOK
    <2> QED BY <1>6, <2>1, <2>2, <2>3, StoreType DEF Annotate, TypeOK, InFlight
  <1>7. ASSUME NEW c \in CSVs, UpdateStatus(c)  PROVE TypeOK'
    <2>1. c \in InFlight /\ out[c] \in Status
      BY <1>7 DEF UpdateStatus, InFlight, TypeOK
    <2>2. WithStatus(api[c], out[c]) \in Object
      BY <2>1, ObjectTypes DEF TypeOK
    <2>3. /\ api' \in [CSVs -> Object]
          /\ watch' \in Seq(Event)
          /\ Len(watch') <= MaxLag
      BY <1>7, <2>2, StoreType DEF UpdateStatus, TypeOK
    <2>4. faults' \in 0..MaxFaults
      BY <1>7 DEF UpdateStatus, Fault, TypeOK
    <2>5. succeeded' \subseteq CSVs
      BY <1>7 DEF UpdateStatus, TypeOK
    <2>6. /\ out' \in [CSVs -> Status \cup {NoStatus}]
          /\ stale' \subseteq InFlight'
      BY <1>7 DEF UpdateStatus, TypeOK, InFlight
    <2> QED BY <1>7, <2>3, <2>4, <2>5, <2>6 DEF UpdateStatus, TypeOK
  <1>8. ASSUME Deliver  PROVE TypeOK'
    <2>1. /\ Head(watch) \in Event
          /\ Tail(watch) \in Seq(Event)
          /\ Len(Tail(watch)) <= MaxLag
      BY <1>8 DEF Deliver, TypeOK
    <2> QED BY <1>8, <2>1 DEF Deliver, TypeOK, Event, InFlight
  <1>9. ASSUME Restart  PROVE TypeOK'
    <2>1. faults' \in 0..MaxFaults
      BY <1>9 DEF Restart, Fault, TypeOK
    <2>2. watch' \in Seq(Event) /\ Len(watch') <= MaxLag
      BY <1>9 DEF Restart
    <2>3. out' \in [CSVs -> Status \cup {NoStatus}] /\ stale' \subseteq InFlight'
      BY <1>9 DEF Restart
    <2> QED BY <1>9, <2>1, <2>2, <2>3 DEF Restart, TypeOK
  <1>10. ASSUME NEW c \in CSVs, Sync(c)  PROVE TypeOK'
    <2> USE DEF Transition, InPhase, Take, Phases, Reasons
    <2>1. CASE SyncGroup(c)
      BY <2>1, HealthyType, Outcomes DEF SyncGroup
    <2>2. CASE SyncNone(c)
      BY <2>2, HealthyType, Outcomes DEF SyncNone
    <2>3. CASE SyncPending(c)
      BY <2>3, HealthyType, Outcomes DEF SyncPending
    <2>4. CASE SyncInstallReady(c)
      BY <2>4, HealthyType, Outcomes DEF SyncInstallReady
    <2>5. CASE SyncInstalling(c)
      BY <2>5, HealthyType, Outcomes DEF SyncInstalling
    <2>6. CASE SyncSucceeded(c)
      BY <2>6, HealthyType, Outcomes DEF SyncSucceeded
    <2>7. CASE SyncFailed(c)
      BY <2>7, HealthyType, Outcomes DEF SyncFailed
    <2>8. CASE SyncReplacing(c)
      <3>1. CASE Healthy(c, {S("Deleting", "Other")})
        BY <2>8, <3>1, HealthyType, Outcomes DEF SyncReplacing
      <3>2. CASE /\ panicked' = TRUE
                 /\ UNCHANGED <<api, cache, watch, out, stale, created, succeeded, faults>>
        BY <3>2 DEF TypeOK, InFlight
      <3> QED BY <2>8, <3>1, <3>2 DEF SyncReplacing
    <2>9. CASE SyncDeleting(c)
      <3>1. Store(c, Deleted(api[c])) /\ Deleted(api[c]) \in Object
        BY <2>9, ObjectTypes DEF SyncDeleting, TypeOK
      <3> QED BY <2>9, <3>1, StoreType DEF SyncDeleting, TypeOK, InFlight
    <2> QED BY <1>4, <1>5, <1>6, <1>10, <2>1, <2>2, <2>3, <2>4, <2>5, <2>6, <2>7,
               <2>8, <2>9 DEF Sync
  <1>11. CASE UNCHANGED vars
    BY <1>11 DEF vars, TypeOK, InFlight
  <1> QED BY <1>1, <1>2, <1>3, <1>7, <1>8, <1>9, <1>10, <1>11 DEF Next

LEMMA TypeInit ==
  ASSUME Init
  PROVE  TypeOK
  <1>1. watch \in Seq(Event) /\ Len(watch) <= MaxLag
    BY SwitchesAssumption DEF Init
  <1>2. /\ api \in [CSVs -> Object] /\ cache \in [CSVs -> Object]
        /\ out \in [CSVs -> Status \cup {NoStatus}]
    BY ObjectTypes DEF Init
  <1>3. faults \in 0..MaxFaults
    BY SwitchesAssumption DEF Init
  <1> QED BY <1>1, <1>2, <1>3 DEF Init, TypeOK

\* Every variable of the control loop keeps its type: the statuses written
\* are statuses, and the informer's backlog respects its bound.
THEOREM TypeCorrect == Spec => []TypeOK
  <1> QED BY TypeInit, TypeStep, PTL DEF Spec

-----------------------------------------------------------------------------
(* The inductive invariant *)

\* What the arguments below look at in a CSV.
Aspect(o) == [phase |-> o.phase, del |-> o.del]

\* Every copy of c that the system holds: stored, cached, or on the way.
Views(c) ==
  {Aspect(api[c]), Aspect(cache[c])}
  \cup {Aspect(watch[i].obj) : i \in {j \in DOMAIN watch : watch[j].csv = c}}

\* A copy of a CSV that is to be collected.
Doomed(v) == v.phase # "Absent" /\ (v.del \/ v.phase = "Deleting")

PredecessorGone(c) == Replaces[c] # NoCSV => ~Exists(api, Replaces[c])

\* Whoever has seen c, or syncs it, c was created.
ViewsCreated ==
  /\ \A c \in CSVs : \A v \in Views(c) : v.phase # "Absent" => c \in created
  /\ InFlight \subseteq created

\* The last event of c on the way carries the stored c; with none on the way
\* the cached c is the stored one.
Fresher ==
  \A c \in CSVs :
    /\ ~Behind(c) => Aspect(cache[c]) = Aspect(api[c])
    /\ \A i \in DOMAIN watch :
         watch[i].csv = c /\ (\A j \in DOMAIN watch : j > i => watch[j].csv # c)
           => watch[i].obj = api[c]

\* A write that will not conflict was computed from the stored CSV.
InFlightFresh ==
  \A c \in InFlight \ stale :
    /\ ~Behind(c)
    /\ Exists(cache, c)
    /\ out[c].phase = "Replacing"
         => cache[c].phase \in {"Succeeded"} \cup (IF FailForward THEN {"Failed"} ELSE {})

\* Nothing is doomed, or gone, before its predecessor is gone and a later
\* version has run.
DoomedLast ==
  \A c \in CSVs :
    \/ \E v \in Views(c) : Doomed(v)
    \/ out[c].phase = "Deleting"
    \/ c \in created /\ ~Exists(api, c)
    => PredecessorGone(c) /\ Later(c) \cap succeeded # {}

\* What is being replaced, or doomed, has a replacement that was created.
ReplacedByCreated ==
  \A c \in CSVs :
    \/ \E v \in Views(c) : Doomed(v) \/ v.phase = "Replacing"
    \/ out[c].phase \in {"Replacing", "Deleting"}
    => \E d \in created : Replaces[d] = c

\* Whoever has seen c Succeeded, c did succeed.
ViewsSucceeded ==
  \A c \in CSVs : \A v \in Views(c) : v.phase = "Succeeded" => c \in succeeded

\* What holds of the copies whoever deletes CSVs and whatever errors there are.
Copies ==
  /\ TypeOK
  /\ ViewsCreated
  /\ Fresher
  /\ InFlightFresh

\* What holds besides when users delete nothing and the live GET does not fail.
IInv ==
  /\ TypeOK
  /\ ViewsCreated
  /\ Fresher
  /\ InFlightFresh
  /\ DoomedLast
  /\ ReplacedByCreated
  /\ ViewsSucceeded

-----------------------------------------------------------------------------
(* How steps change what is seen *)

LEMMA StoreViews ==
  ASSUME TypeOK, NEW c \in CSVs, NEW obj \in Object, Store(c, obj),
         NEW d \in CSVs, Aspect(cache'[d]) = Aspect(cache[d])
  PROVE  Views(d)' \subseteq Views(d) \cup (IF d = c THEN {Aspect(obj)} ELSE {})
  <1>1. /\ DOMAIN watch' = 1..(Len(watch) + 1)
        /\ DOMAIN watch = 1..Len(watch)
        /\ Len(watch) \in Nat
        /\ \A i \in DOMAIN watch : watch'[i] = watch[i]
        /\ watch'[Len(watch) + 1] = [csv |-> c, obj |-> obj]
    BY DEF Store, TypeOK
  <1>2. Aspect(api'[d]) \in Views(d) \cup (IF d = c THEN {Aspect(obj)} ELSE {})
    BY DEF Store, TypeOK, Views
  <1>3. ASSUME NEW i \in DOMAIN watch', watch'[i].csv = d
        PROVE  Aspect(watch'[i].obj) \in Views(d) \cup (IF d = c THEN {Aspect(obj)} ELSE {})
    <2>1. CASE i \in DOMAIN watch
      BY <1>1, <1>3, <2>1 DEF Views
    <2>2. CASE i = Len(watch) + 1
      BY <1>1, <1>3, <2>2
    <2> QED BY <1>1, <1>3, <2>1, <2>2
  <1> QED BY <1>2, <1>3 DEF Views

LEMMA StoreFresher ==
  ASSUME TypeOK, Fresher, NEW c \in CSVs, NEW obj \in Object, Store(c, obj),
         \A d \in CSVs : Aspect(cache'[d]) = Aspect(cache[d])
  PROVE  /\ Fresher'
         /\ \A d \in CSVs : Behind(d)' <=> (d = c \/ Behind(d))
  <1>1. /\ DOMAIN watch' = 1..(Len(watch) + 1)
        /\ DOMAIN watch = 1..Len(watch)
        /\ Len(watch) \in Nat
        /\ \A i \in DOMAIN watch : watch'[i] = watch[i]
        /\ watch'[Len(watch) + 1] = [csv |-> c, obj |-> obj]
    BY DEF Store, TypeOK
  <1>2. /\ api'[c] = obj
        /\ \A d \in CSVs : d # c => api'[d] = api[d]
    BY DEF Store, TypeOK
  <1>3. \A d \in CSVs : Behind(d)' <=> (d = c \/ Behind(d))
    BY <1>1 DEF Behind
  <1>4. ASSUME NEW d \in CSVs, ~Behind(d)'  PROVE Aspect(cache'[d]) = Aspect(api'[d])
    BY <1>2, <1>3, <1>4 DEF Fresher
  <1>5. ASSUME NEW d \in CSVs, NEW i \in DOMAIN watch', watch'[i].csv = d,
               \A j \in DOMAIN watch' : j > i => watch'[j].csv # d
        PROVE  watch'[i].obj = api'[d]
    <2>1. CASE i = Len(watch) + 1
      BY <1>1, <1>2, <1>5, <2>1
    <2>2. CASE i \in DOMAIN watch
      <3>1. d # c
        BY <1>1, <1>5, <2>2
      <3>2. \A j \in DOMAIN watch : j > i => watch[j].csv # d
        BY <1>1, <1>5
      <3> QED BY <1>1, <1>2, <1>5, <2>2, <3>1, <3>2 DEF Fresher
    <2> QED BY <1>1, <1>5, <2>1, <2>2
  <1> QED BY <1>3, <1>4, <1>5 DEF Fresher

LEMMA AspectOfMeta ==
  \A o \in Object, m \in {"finalizer", "member", "bare"} :
    Aspect([o EXCEPT !.meta = m]) = Aspect(o)
BY DEF Aspect, Object

LEMMA AspectOfStatus ==
  \A o \in Object, s \in Status :
    /\ WithStatus(o, s).phase = s.phase
    /\ WithStatus(o, s).del = o.del
BY DEF WithStatus, Object, Status

-----------------------------------------------------------------------------
(* Every action keeps the copies true *)

\* What the copies are besides well typed.
Truthful == ViewsCreated /\ Fresher /\ InFlightFresh

\* The copies of c that a sync of c reads.
LEMMA CopyRead ==
  ASSUME Copies, NEW c \in CSVs
  PROVE  /\ Aspect(cache[c]) \in Views(c) /\ Aspect(api[c]) \in Views(c)
         /\ Aspect(cache[c]).phase = cache[c].phase /\ Aspect(cache[c]).del = cache[c].del
         /\ Aspect(api[c]).phase = api[c].phase /\ Aspect(api[c]).del = api[c].del
         /\ Exists(cache, c) => c \in created
         /\ Exists(api, c) => c \in created
         /\ ~Behind(c) => api[c].phase = cache[c].phase /\ api[c].del = cache[c].del
  <1>1. /\ Aspect(cache[c]) \in Views(c) /\ Aspect(api[c]) \in Views(c)
        /\ Aspect(cache[c]).phase = cache[c].phase /\ Aspect(cache[c]).del = cache[c].del
        /\ Aspect(api[c]).phase = api[c].phase /\ Aspect(api[c]).del = api[c].del
    BY DEF Views, Aspect
  <1>2. Exists(cache, c) \/ Exists(api, c) => c \in created
    BY <1>1 DEF Copies, ViewsCreated, Exists
  <1>3. ~Behind(c) => api[c].phase = cache[c].phase /\ api[c].del = cache[c].del
    BY <1>1 DEF Copies, Fresher
  <1> QED BY <1>1, <1>2, <1>3

\* A write of c leaves the other writes under way as fresh as they were.
LEMMA WriteTrue ==
  ASSUME Copies, NEW c \in CSVs, NEW obj \in Object, Store(c, obj),
         \A d \in CSVs : Aspect(cache'[d]) = Aspect(cache[d]),
         created \subseteq created', c \in created',
         c \in InFlight' => c \in stale',
         \A d \in CSVs : d # c => out'[d] = out[d] /\ (d \in stale' <=> d \in stale)
  PROVE  Truthful'
  <1>1. /\ Fresher'
        /\ \A d \in CSVs : Behind(d)' <=> (d = c \/ Behind(d))
    BY StoreFresher DEF Copies
  <1>2. \A d \in CSVs : cache'[d].phase = cache[d].phase
    BY DEF Aspect
  <1>3. InFlight' \subseteq CSVs /\ \A d \in InFlight' \ stale' : d \in InFlight \ stale /\ d # c
    BY DEF InFlight
  <1>4. InFlightFresh'
    BY <1>1, <1>2, <1>3 DEF Copies, InFlightFresh, Exists, InFlight
  <1>5. \A d \in CSVs : Views(d)' \subseteq Views(d) \cup (IF d = c THEN {Aspect(obj)} ELSE {})
    BY StoreViews DEF Copies
  <1>6. InFlight' \subseteq InFlight \cup {c}
    BY DEF InFlight
  <1>7. ViewsCreated'
    BY <1>5, <1>6 DEF Copies, ViewsCreated
  <1> QED BY <1>1, <1>4, <1>7 DEF Truthful

\* A step that decides what to write.
LEMMA FinishTrue ==
  ASSUME Copies, NEW c \in CSVs \ InFlight, Exists(cache, c), NEW s \in Status, Finish(c, s),
         s.phase = "Replacing" => cache[c].phase \in {"Succeeded"} \cup (IF FailForward THEN {"Failed"} ELSE {})
  PROVE  Truthful'
  <1>1. /\ out'[c] = s \/ out'[c] = NoStatus
        /\ \A d \in CSVs : d # c => out'[d] = out[d]
    BY DEF Finish, Copies, TypeOK
  <1>2. /\ \A d \in CSVs : Views(d)' = Views(d)
        /\ \A d \in CSVs : Behind(d)' <=> Behind(d)
        /\ \A d \in CSVs : Exists(cache, d)' <=> Exists(cache, d)
    BY DEF Finish, Views, Behind, Exists
  <1>3. c \in created
    BY CopyRead
  <1>4. InFlight' \subseteq CSVs /\ InFlight' \subseteq InFlight \cup {c}
    BY <1>1 DEF InFlight
  <1>5. ViewsCreated'
    BY <1>2, <1>3, <1>4 DEF Copies, ViewsCreated, Finish
  <1>6. Fresher'
    BY <1>2 DEF Copies, Fresher, Finish
  <1>7. InFlightFresh'
    <2>1. ASSUME NEW d \in InFlight', d \notin stale', d # c
          PROVE  d \in InFlight \ stale
      BY <1>1, <2>1 DEF InFlight, Finish
    <2>2. ASSUME c \in InFlight', c \notin stale'
          PROVE  ~Behind(c) /\ out'[c] = s
      BY <1>1, <2>2 DEF InFlight, Finish, Copies, TypeOK
    <2> QED BY <1>1, <1>2, <1>4, <2>1, <2>2 DEF InFlightFresh, Copies, Finish
  <1> QED BY <1>5, <1>6, <1>7 DEF Truthful

\* A step that neither writes nor decides anything, but may lose decisions.
LEMMA IdleTrue ==
  ASSUME Copies, UNCHANGED <<api, watch, created>>,
         \A d \in CSVs : Aspect(cache'[d]) = Aspect(cache[d]),
         \A d \in CSVs : (out'[d] = out[d] /\ (d \in stale <=> d \in stale')) \/ out'[d] = NoStatus
  PROVE  Truthful'
  <1>1. \A d \in CSVs : Views(d)' = Views(d) /\ (Behind(d)' <=> Behind(d))
    BY DEF Views, Behind
  <1>2. \A d \in CSVs : cache'[d].phase = cache[d].phase
    BY DEF Aspect
  <1>3. /\ InFlight' \subseteq InFlight /\ InFlight' \subseteq CSVs
        /\ \A d \in InFlight' \ stale' : d \in InFlight \ stale /\ out'[d] = out[d]
    BY DEF InFlight
  <1>4. ViewsCreated'
    BY <1>1, <1>3 DEF Copies, ViewsCreated
  <1>5. Fresher'
    BY <1>1 DEF Copies, Fresher
  <1>6. InFlightFresh'
    BY <1>1, <1>2, <1>3 DEF Copies, InFlightFresh, Exists
  <1> QED BY <1>4, <1>5, <1>6 DEF Truthful

LEMMA DeliverTrue ==
  ASSUME Copies, Deliver
  PROVE  Truthful'
  <1>1. /\ watch # <<>> /\ watch \in Seq(Event)
        /\ DOMAIN watch = 1..Len(watch) /\ Len(watch) \in Nat \ {0}
        /\ DOMAIN watch' = 1..(Len(watch) - 1)
        /\ \A i \in DOMAIN watch' : watch'[i] = watch[i + 1] /\ i + 1 \in DOMAIN watch
        /\ \A i \in DOMAIN watch : i # 1 => i - 1 \in DOMAIN watch' /\ watch'[i - 1] = watch[i]
        /\ 1 \in DOMAIN watch /\ Head(watch) = watch[1]
        /\ watch[1] \in Event
    BY DEF Copies, TypeOK, Deliver
  <1> DEFINE e == watch[1]
  <1>2. /\ e.csv \in CSVs
        /\ cache'[e.csv] = e.obj
        /\ \A d \in CSVs : d # e.csv => cache'[d] = cache[d]
    BY <1>1 DEF Deliver, Event, Copies, TypeOK
  <1>3. ASSUME NEW d \in CSVs  PROVE Views(d)' \subseteq Views(d)
    <2>1. Aspect(api'[d]) \in Views(d)
      BY DEF Deliver, Views
    <2>2. Aspect(cache'[d]) \in Views(d)
      BY <1>1, <1>2 DEF Views
    <2>3. ASSUME NEW i \in DOMAIN watch', watch'[i].csv = d
          PROVE  Aspect(watch'[i].obj) \in Views(d)
      BY <1>1, <2>3 DEF Views
    <2> QED BY <2>1, <2>2, <2>3 DEF Views
  <1>4. InFlight' = InFlight
    BY DEF Deliver, InFlight
  <1>9. ViewsCreated'
    BY <1>3, <1>4 DEF Copies, ViewsCreated, Deliver
  <1>5. ASSUME NEW d \in CSVs, ~Behind(d)'  PROVE Aspect(cache'[d]) = Aspect(api'[d])
    <2>1. \A i \in DOMAIN watch : i # 1 => watch[i].csv # d
      BY <1>1, <1>5 DEF Behind
    <2>2. CASE d = e.csv
      <3>1. \A j \in DOMAIN watch : j > 1 => watch[j].csv # d
        BY <1>1, <2>1
      <3>2. watch[1].obj = api[d]
        BY <1>1, <2>2, <3>1 DEF Copies, Fresher
      <3> QED BY <1>2, <2>2, <3>2 DEF Deliver
    <2>3. CASE d # e.csv
      <3>1. ~Behind(d)
        BY <1>1, <2>1, <2>3 DEF Behind
      <3> QED BY <1>2, <2>3, <3>1 DEF Deliver, Copies, Fresher
    <2> QED BY <2>2, <2>3
  <1>6. ASSUME NEW d \in CSVs, NEW i \in DOMAIN watch', watch'[i].csv = d,
               \A j \in DOMAIN watch' : j > i => watch'[j].csv # d
        PROVE  watch'[i].obj = api'[d]
    <2>1. \A j \in DOMAIN watch : j > i + 1 => watch[j].csv # d
      <3> SUFFICES ASSUME NEW j \in DOMAIN watch, j > i + 1  PROVE watch[j].csv # d
        OBVIOUS
      <3>1. j # 1 /\ j - 1 > i
        BY <1>1
      <3> QED BY <1>1, <1>6, <3>1
    <2>2. i + 1 \in DOMAIN watch /\ watch[i + 1].csv = d /\ watch'[i] = watch[i + 1]
      BY <1>1, <1>6
    <2> QED BY <2>1, <2>2 DEF Deliver, Copies, Fresher
  <1>7. Fresher'
    BY <1>5, <1>6 DEF Fresher
  <1>8. InFlightFresh'
    <2> SUFFICES ASSUME NEW d \in InFlight \ stale
                 PROVE  ~Behind(d)' /\ cache'[d] = cache[d]
      BY DEF Deliver, InFlightFresh, Copies, InFlight, Exists
    <2>1. d \in CSVs /\ ~Behind(d)
      BY DEF Copies, InFlightFresh, InFlight
    <2> QED BY <1>1, <1>2, <2>1 DEF Behind
  <1> QED BY <1>7, <1>8, <1>9 DEF Truthful

LEMMA RestartTrue ==
  ASSUME Copies, Restart
  PROVE  Truthful'
  <1>1. \A d \in CSVs : ~Behind(d)' /\ Views(d)' \subseteq Views(d)
    BY DEF Restart, Behind, Views
  <1>2. InFlight' = {}
    BY DEF Restart, InFlight
  <1>3. ViewsCreated'
    BY <1>1, <1>2 DEF Copies, ViewsCreated, Restart
  <1>4. Fresher'
    BY DEF Restart, Fresher
  <1>5. InFlightFresh'
    BY <1>2 DEF InFlightFresh
  <1> QED BY <1>3, <1>4, <1>5 DEF Truthful

\* The steps that write c: each finds c created, and puts its own write under
\* way, if there is one, among the stale.
LEMMA WriterTrue ==
  ASSUME Copies, NEW c \in CSVs,
         \/ Create(c) \/ UserDelete(c) \/ DetectedClusterChange(c) \/ Annotate(c)
         \/ SyncDeleting(c)
  PROVE  Truthful'
  <1>1. api[c] \in Object
    BY DEF Copies, TypeOK
  <1>2. CASE Create(c)
    <2>1. Store(c, Fresh) /\ Fresh \in Object /\ c \notin InFlight'
      BY <1>2, ObjectTypes DEF Create, Copies, ViewsCreated, InFlight
    <2> QED BY <1>2, <2>1, WriteTrue DEF Create
  <1>3. CASE UserDelete(c)
    <2>1. Deleted(api[c]) \in Object /\ Store(c, Deleted(api[c])) /\ c \in created
      BY <1>1, <1>3, ObjectTypes, CopyRead DEF UserDelete
    <2> QED BY <1>3, <2>1, WriteTrue DEF UserDelete, InFlight
  <1>4. CASE DetectedClusterChange(c)
    <2> DEFINE obj == WithStatus(api[c], S("Pending", "Other"))
    <2>1. obj \in Object /\ Store(c, obj) /\ c \in created
      BY <1>1, <1>4, ObjectTypes, Outcomes, CopyRead DEF DetectedClusterChange, Phases, Reasons
    <2> HIDE DEF obj
    <2> QED BY <1>4, <2>1, WriteTrue DEF DetectedClusterChange, InFlight
  <1>5. CASE Annotate(c)
    <2> DEFINE obj == [api[c] EXCEPT !.meta = "member"]
    <2>1. obj \in Object /\ Store(c, obj) /\ c \in created
      BY <1>1, <1>5, ObjectTypes, CopyRead DEF Annotate
    <2> HIDE DEF obj
    <2> QED BY <1>5, <2>1, WriteTrue DEF Annotate, InFlight
  <1>6. CASE SyncDeleting(c)
    <2>1. Deleted(api[c]) \in Object /\ Store(c, Deleted(api[c])) /\ c \in created
      BY <1>1, <1>6, ObjectTypes, CopyRead DEF SyncDeleting
    <2> QED BY <1>6, <2>1, WriteTrue DEF SyncDeleting, InPhase, Transition, Take, InFlight
  <1> QED BY <1>2, <1>3, <1>4, <1>5, <1>6

\* The finalizer's steps change the cached object in place.
LEMMA FinalizerTrue ==
  ASSUME Copies, NEW c \in CSVs, AddFinalizer(c) \/ RemoveFinalizer(c)
  PROVE  Truthful'
  <1> DEFINE dressed == [api[c] EXCEPT !.meta = "finalizer"]
  <1>1. api[c] \in Object /\ cache[c] \in Object /\ cache \in [CSVs -> Object]
    BY DEF Copies, TypeOK
  <1>2. \A d \in CSVs : Aspect(cache'[d]) = Aspect(cache[d])
    BY <1>1, AspectOfMeta DEF AddFinalizer, RemoveFinalizer
  <1>3. /\ dressed \in Object /\ Absent \in Object /\ c \in created /\ c \notin InFlight'
        /\ UNCHANGED <<out, stale, created>>
    BY <1>1, ObjectTypes, CopyRead DEF AddFinalizer, RemoveFinalizer, Take, InFlight
  <1>4. Store(c, dressed) \/ Store(c, Absent) \/ UNCHANGED <<api, watch>>
    BY DEF AddFinalizer, RemoveFinalizer
  <1> HIDE DEF dressed
  <1> QED BY <1>2, <1>3, <1>4, WriteTrue, IdleTrue

LEMMA UpdateStatusTrue ==
  ASSUME Copies, NEW c \in CSVs, UpdateStatus(c)
  PROVE  Truthful'
  <1> DEFINE obj == WithStatus(api[c], out[c])
  <1>1. /\ api[c] \in Object /\ out[c] \in Status /\ c \in InFlight
        /\ out \in [CSVs -> Status \cup {NoStatus}]
    BY DEF Copies, TypeOK, UpdateStatus, InFlight
  <1>2. /\ out'[c] = NoStatus /\ c \notin InFlight'
        /\ \A d \in CSVs : d # c => out'[d] = out[d] /\ (d \in stale' <=> d \in stale)
        /\ UNCHANGED <<cache, created>>
    BY <1>1 DEF UpdateStatus, InFlight
  <1>3. obj \in Object /\ c \in created
    BY <1>1, ObjectTypes DEF Copies, ViewsCreated
  <1>4. Store(c, obj) \/ UNCHANGED <<api, watch>>
    BY DEF UpdateStatus
  <1> HIDE DEF obj
  <1> QED BY <1>2, <1>3, <1>4, WriteTrue, IdleTrue

\* The syncs that do not decide on Replacing.
LEMMA PlainTrue ==
  ASSUME Copies, NEW c \in CSVs, Take(c), NEW statuses \in SUBSET Status,
         \A s \in statuses : s.phase # "Replacing",
         Healthy(c, statuses) \/ Unhealthy(c, statuses)
  PROVE  Truthful'
  <1>1. PICK s \in statuses : Finish(c, s)
    BY DEF Healthy, Unhealthy
  <1> QED BY <1>1, FinishTrue DEF Take

LEMMA ReplacingTrue ==
  ASSUME Copies, NEW c \in CSVs, Take(c),
         cache[c].phase \in {"Succeeded"} \cup (IF FailForward THEN {"Failed"} ELSE {}),
         Healthy(c, {S("Replacing", "Other")})
  PROVE  Truthful'
  <1>1. Finish(c, S("Replacing", "Other")) /\ S("Replacing", "Other") \in Status
    BY Outcomes DEF Healthy, Phases, Reasons
  <1> QED BY <1>1, FinishTrue DEF Take

LEMMA TrueOutcomes ==
  /\ \A ph \in Phases \ {"Replacing"}, r \in Reasons :
       S(ph, r) \in Status /\ S(ph, r).phase # "Replacing"
  /\ \A ph \in Phases \ {"Replacing"} :
       /\ NotInstalled(ph) \subseteq Status
       /\ \A s \in NotInstalled(ph) : s.phase # "Replacing"
BY DEF S, Status, Phases, Reasons, NotInstalled

LEMMA SyncTrue ==
  ASSUME Copies, NEW c \in CSVs, Sync(c)
  PROVE  Truthful'
  <1> USE DEF Transition, InPhase, Phases, Reasons
  <1>1. CASE SyncGroup(c)
    BY <1>1, PlainTrue, TrueOutcomes DEF SyncGroup
  <1>2. CASE SyncNone(c)
    BY <1>2, PlainTrue, TrueOutcomes DEF SyncNone
  <1>3. CASE SyncPending(c)
    BY <1>3, PlainTrue, TrueOutcomes DEF SyncPending
  <1>4. CASE SyncInstallReady(c)
    BY <1>4, PlainTrue, TrueOutcomes DEF SyncInstallReady
  <1>5. CASE SyncInstalling(c)
    BY <1>5, PlainTrue, TrueOutcomes DEF SyncInstalling
  <1>6. CASE SyncSucceeded(c)
    <2>1. \/ Healthy(c, {S("Replacing", "Other")})
          \/ Unhealthy(c, NotInstalled("Failed")
                            \cup {S("Pending", "Other"), S("Failed", "InvalidStrategy")})
      BY <1>6 DEF SyncSucceeded
    <2>2. CASE Healthy(c, {S("Replacing", "Other")})
      BY <1>6, <2>2, ReplacingTrue DEF SyncSucceeded
    <2>3. CASE Unhealthy(c, NotInstalled("Failed")
                              \cup {S("Pending", "Other"), S("Failed", "InvalidStrategy")})
      BY <1>6, <2>3, PlainTrue, TrueOutcomes DEF SyncSucceeded
    <2> QED BY <2>1, <2>2, <2>3
  <1>7. CASE SyncFailed(c)
    <2> DEFINE retried == {S("Succeeded", "Other"), S("Pending", "Other"),
                           S("InstallReady", "Other")}
    <2>1. \/ FailForward /\ Healthy(c, {S("Replacing", "Other")})
          \/ Unhealthy(c, {S("Failed", "InvalidStrategy")})
          \/ Healthy(c, {S("Pending", "Other")})
          \/ Healthy(c, retried)
          \/ Unhealthy(c, {S("Failed", "Other")})
      BY <1>7 DEF SyncFailed
    <2>2. Take(c) /\ cache[c].phase = "Failed"
      BY <1>7 DEF SyncFailed
    <2>3. CASE FailForward /\ Healthy(c, {S("Replacing", "Other")})
      BY <2>2, <2>3, ReplacingTrue
    <2>4. CASE Unhealthy(c, {S("Failed", "InvalidStrategy")})
      BY <2>2, <2>4, PlainTrue, TrueOutcomes
    <2>5. CASE Healthy(c, {S("Pending", "Other")})
      BY <2>2, <2>5, PlainTrue, TrueOutcomes
    <2>6. CASE Healthy(c, retried)
      BY <2>2, <2>6, PlainTrue, TrueOutcomes
    <2>7. CASE Unhealthy(c, {S("Failed", "Other")})
      BY <2>2, <2>7, PlainTrue, TrueOutcomes
    <2> QED BY <2>1, <2>3, <2>4, <2>5, <2>6, <2>7
  <1>8. CASE SyncReplacing(c)
    <2>1. CASE Healthy(c, {S("Deleting", "Other")})
      BY <1>8, <2>1, PlainTrue, TrueOutcomes DEF SyncReplacing
    <2>2. CASE UNCHANGED <<api, cache, watch, out, stale, created, succeeded, faults>>
      BY <2>2, IdleTrue
    <2> QED BY <1>8, <2>1, <2>2 DEF SyncReplacing
  <1> QED BY <1>1, <1>2, <1>3, <1>4, <1>5, <1>6, <1>7, <1>8, FinalizerTrue, WriterTrue DEF Sync

\* The copies stay true whatever users delete and whichever calls fail.
LEMMA CopiesStep ==
  ASSUME Copies, [Next]_vars
  PROVE  Copies'
  <1>1. TypeOK'
    BY TypeStep DEF Copies
  <1>2. ASSUME UNCHANGED vars  PROVE Truthful'
    BY <1>2, IdleTrue DEF vars
  <1>3. Truthful'
    BY <1>2, WriterTrue, SyncTrue, UpdateStatusTrue, DeliverTrue, RestartTrue DEF Next
  <1> QED BY <1>1, <1>3 DEF Copies, Truthful

LEMMA CopiesInit == Init => Copies
  <1> SUFFICES ASSUME Init  PROVE Copies
    OBVIOUS
  <1>1. \A c \in CSVs : Views(c) = {Aspect(Absent)} /\ ~Behind(c)
    BY DEF Init, Views, Behind
  <1>2. Aspect(Absent).phase = "Absent" /\ InFlight = {}
    BY DEF Init, Aspect, Absent, InFlight
  <1>3. Fresher
    BY <1>1 DEF Init, Fresher
  <1> QED BY <1>1, <1>2, <1>3, TypeInit DEF Copies, ViewsCreated, InFlightFresh

\* Only the status write of a sync that worked on the stored CSV turns it
\* Replacing.
LEMMA ReplacingWritten ==
  ASSUME Copies, [Next]_vars, NEW c \in CSVs,
         api'[c].phase = "Replacing", api[c].phase # "Replacing"
  PROVE  c \in InFlight \ stale /\ out[c].phase = "Replacing"
  <1>1. api \in [CSVs -> Object] /\ out \in [CSVs -> Status \cup {NoStatus}]
    BY DEF Copies, TypeOK
  <1>2. ASSUME NEW d \in CSVs, NEW obj, Store(d, obj)
        PROVE  d = c /\ obj.phase = "Replacing"
    BY <1>1, <1>2 DEF Store
  <1>3. ~UNCHANGED api
    OBVIOUS
  <1>4. Fresh.phase # "Replacing" /\ Absent.phase # "Replacing"
    BY DEF Fresh, Absent
  <1>5. /\ Deleted(api[c]).phase # "Replacing"
        /\ \A m \in {"finalizer", "member"} : [api[c] EXCEPT !.meta = m].phase # "Replacing"
        /\ WithStatus(api[c], S("Pending", "Other")).phase # "Replacing"
    BY <1>1, <1>4, AspectOfStatus, Outcomes DEF Deleted, Object, S, Phases, Reasons
  <1>6. ASSUME NEW d \in CSVs  PROVE ~Create(d) /\ ~UserDelete(d) /\ ~DetectedClusterChange(d)
    BY <1>2, <1>4, <1>5 DEF Create, UserDelete, DetectedClusterChange
  <1>7. ASSUME NEW d \in CSVs, NEW statuses  PROVE ~Healthy(d, statuses) /\ ~Unhealthy(d, statuses)
    BY <1>3 DEF Healthy, Unhealthy, Finish
  <1>8. ASSUME NEW d \in CSVs
        PROVE  /\ ~AddFinalizer(d) /\ ~RemoveFinalizer(d) /\ ~Annotate(d)
               /\ ~SyncReplacing(d) /\ ~SyncDeleting(d)
    BY <1>2, <1>3, <1>4, <1>5, <1>7 DEF AddFinalizer, RemoveFinalizer, Annotate, SyncReplacing,
       SyncDeleting
  <1>9. ASSUME NEW d \in CSVs  PROVE ~Sync(d)
    BY <1>7, <1>8 DEF Sync, SyncGroup, SyncNone, SyncPending, SyncInstallReady, SyncInstalling,
       SyncSucceeded, SyncFailed
  <1>10. ~Deliver /\ ~Restart /\ ~UNCHANGED vars
    BY <1>3 DEF Deliver, Restart, vars
  <1>11. PICK d \in CSVs : UpdateStatus(d)
    BY <1>6, <1>9, <1>10 DEF Next
  <1>12. d \in InFlight \ stale /\ Store(d, WithStatus(api[d], out[d]))
    BY <1>3, <1>11 DEF UpdateStatus
  <1>13. d = c /\ WithStatus(api[d], out[d]).phase = "Replacing"
    BY <1>2, <1>12
  <1>14. out[c] \in Status
    BY <1>1, <1>12, <1>13 DEF InFlight
  <1> QED BY <1>1, <1>12, <1>13, <1>14, AspectOfStatus

\* A CSV is marked Replacing only from the phases its operator group's
\* upgrade strategy names, although the phase was read from a lagging cache,
\* whatever users delete, whichever calls fail and whenever the process
\* restarts.
THEOREM StrategyRespected == Spec => UpgradeStrategy
  <1>1. ASSUME Copies, [Next]_vars
        PROVE  [\A c \in CSVs : ReplacedOnlyFrom(c)]_vars
    <2> SUFFICES ASSUME NEW c \in CSVs, api'[c].phase = "Replacing", api[c].phase # "Replacing"
                 PROVE  api[c].phase \in {"Succeeded"} \cup (IF FailForward THEN {"Failed"} ELSE {})
      BY DEF ReplacedOnlyFrom
    <2>1. c \in InFlight \ stale /\ out[c].phase = "Replacing"
      BY <1>1, ReplacingWritten
    <2> QED BY <1>1, <2>1, CopyRead DEF Copies, InFlightFresh
  <1> QED BY <1>1, CopiesInit, CopiesStep, PTL DEF Spec, UpgradeStrategy

-----------------------------------------------------------------------------
(* Who may be doomed or replaced *)

\* The part of the invariant that says who may be doomed or replaced, and who ran.
Seen == DoomedLast /\ ReplacedByCreated /\ ViewsSucceeded

\* A step in which copies of CSVs are only moved or dropped.
LEMMA MoveStep ==
  ASSUME IInv, UNCHANGED <<api, created, succeeded>>,
         \A d \in CSVs : Views(d)' \subseteq Views(d),
         out' \in [CSVs -> Status \cup {NoStatus}],
         \A d \in CSVs : out'[d] = out[d] \/ out'[d] = NoStatus
  PROVE  Seen'
  <1>1. \A d \in CSVs : PredecessorGone(d)' <=> PredecessorGone(d)
    BY DEF PredecessorGone, Exists
  <1>2. \A d \in CSVs : Later(d)' = Later(d)
    BY DEF Later, Closure
  <1>3. \A d \in CSVs : out'[d].phase \in {"Replacing", "Deleting"} => out'[d] = out[d]
    BY DEF NoStatus
  <1>5. DoomedLast'
    BY <1>1, <1>2, <1>3 DEF IInv, DoomedLast, Exists
  <1>6. ReplacedByCreated'
    BY <1>3 DEF IInv, ReplacedByCreated
  <1>7. ViewsSucceeded'
    BY DEF IInv, ViewsSucceeded
  <1> QED BY <1>5, <1>6, <1>7 DEF Seen

\* A step that writes c: it may bring a CSV into being only as Create does,
\* and what it dooms must be the oldest of its chain.
LEMMA WriteStep ==
  ASSUME IInv, NEW c \in CSVs, NEW obj \in Object, Store(c, obj),
         \A d \in CSVs : Aspect(cache'[d]) = Aspect(cache[d]),
         created \subseteq created', created' \subseteq created \cup {c},
         succeeded \subseteq succeeded',
         \A d \in CSVs : out'[d] = out[d] \/ out'[d] = NoStatus,
         c \in created',
         ~Exists(api, c) /\ obj.phase # "Absent" => \A d \in created : Replaces[d] # c,
         Doomed(Aspect(obj)) \/ obj.phase = "Absent"
           => PredecessorGone(c) /\ Later(c) \cap succeeded # {},
         Doomed(Aspect(obj)) \/ obj.phase = "Replacing"
           => \E d \in created : Replaces[d] = c,
         obj.phase = "Succeeded" => c \in succeeded'
  PROVE  Seen'
  <1> USE CSVsAssumption
  <1>1. \A d \in CSVs : Views(d)' \subseteq Views(d) \cup (IF d = c THEN {Aspect(obj)} ELSE {})
    BY StoreViews DEF IInv
  <1>2. /\ api'[c] = obj
        /\ \A d \in CSVs : d # c => api'[d] = api[d]
    BY DEF Store, IInv, TypeOK
  <1>3. \A d \in CSVs : Later(d)' = Later(d)
    BY DEF Later, Closure
  <1>4. \A d \in CSVs : out'[d].phase \in {"Replacing", "Deleting"} => out'[d] = out[d]
    BY DEF NoStatus
  <1>5. Aspect(obj).phase = obj.phase /\ Aspect(obj).del = obj.del
    BY DEF Aspect
  <1>7. ReplacedByCreated'
    BY <1>1, <1>4, <1>5 DEF IInv, ReplacedByCreated
  <1>8. ViewsSucceeded'
    BY <1>1, <1>5 DEF IInv, ViewsSucceeded
  <1>9. ASSUME NEW d \in created, d \in CSVs, PredecessorGone(d)
        PROVE  PredecessorGone(d)'
    <2>1. CASE Replaces[d] = c
      BY <1>2, <1>9, <2>1 DEF PredecessorGone, Exists
    <2>2. CASE Replaces[d] # c
      BY <1>2, <1>9, <2>2 DEF PredecessorGone, Exists
    <2> QED BY <2>1, <2>2
  <1>10. ASSUME NEW d \in CSVs,
                \/ \E v \in Views(d)' : Doomed(v)
                \/ out'[d].phase = "Deleting"
                \/ d \in created' /\ ~Exists(api, d)'
         PROVE  PredecessorGone(d)' /\ Later(d)' \cap succeeded' # {}
    <2>1. CASE \/ \E v \in Views(d) : Doomed(v)
               \/ out[d].phase = "Deleting"
               \/ d \in created /\ ~Exists(api, d)
      <3>1. PredecessorGone(d) /\ Later(d) \cap succeeded # {}
        BY <2>1 DEF IInv, DoomedLast
      <3>2. d \in created
        BY <2>1 DEF IInv, ViewsCreated, Doomed, InFlight, NoStatus
      <3> QED BY <1>3, <1>9, <3>1, <3>2
    <2>2. CASE d = c /\ (Doomed(Aspect(obj)) \/ obj.phase = "Absent")
      <3>1. PredecessorGone(c)'
        BY <1>2, <2>2 DEF PredecessorGone, Exists
      <3> QED BY <1>3, <2>2, <3>1
    <2>3. CASE d \in created' /\ ~Exists(api, d)' /\ d # c
      BY <1>2, <2>1, <2>3 DEF Exists
    <2> QED BY <1>1, <1>2, <1>4, <1>10, <2>1, <2>2, <2>3 DEF Exists
  <1> QED BY <1>7, <1>8, <1>10 DEF Seen, DoomedLast

\* A step that decides what to write.
LEMMA FinishStep ==
  ASSUME IInv, NEW c \in CSVs, NEW s \in Status, Finish(c, s),
         s.phase = "Deleting" => PredecessorGone(c) /\ Later(c) \cap succeeded # {},
         s.phase \in {"Replacing", "Deleting"} => \E d \in created : Replaces[d] = c
  PROVE  Seen'
  <1>1. /\ out'[c] = s \/ out'[c] = NoStatus
        /\ \A d \in CSVs : d # c => out'[d] = out[d]
    BY DEF Finish, IInv, TypeOK
  <1>2. /\ \A d \in CSVs : Views(d)' = Views(d)
        /\ \A d \in CSVs : PredecessorGone(d)' <=> PredecessorGone(d)
        /\ \A d \in CSVs : Later(d)' = Later(d)
        /\ \A d \in CSVs : Exists(api, d)' <=> Exists(api, d)
    BY DEF Finish, Views, PredecessorGone, Later, Closure, Exists
  <1>3. NoStatus.phase \notin {"Replacing", "Deleting"}
    BY DEF NoStatus
  <1>4. DoomedLast'
    BY <1>1, <1>2, <1>3 DEF IInv, DoomedLast, Finish
  <1>5. ReplacedByCreated'
    BY <1>1, <1>2, <1>3 DEF IInv, ReplacedByCreated, Finish
  <1>6. ViewsSucceeded'
    BY <1>2 DEF IInv, ViewsSucceeded, Finish
  <1> QED BY <1>4, <1>5, <1>6 DEF Seen

\* The chain walk from a replacement of c stays among the versions after c.
LEMMA NewestLater ==
  ASSUME NEW c \in CSVs, NEW next \in CSVs, Replaces[next] = c, NEW last \in Newest(next)
  PROVE  last \in Later(c)
  <1>1. CASE ~FailForward
    BY <1>1 DEF Newest, Later, Closure
  <1>2. CASE FailForward
    <2>1. last \in Closure({next}, {e \in CSVs : Exists(cache, e)})
      BY <1>2 DEF Newest, ChainEnds
    <2>2. ASSUME NEW X \in SUBSET CSVs, {d \in CSVs : Replaces[d] = c} \subseteq X,
                 \A e \in CSVs : Replaces[e] \in X => e \in X
          PROVE  last \in X
      <3>1. {next} \subseteq X
        BY <2>2
      <3> QED BY <2>1, <2>2, <3>1 DEF Closure
    <2> QED BY <2>1, <2>2 DEF Later, Closure
  <1> QED BY <1>1, <1>2

\* The copy of c in the cache is one of its views.
LEMMA CachedView ==
  ASSUME IInv, NEW c \in CSVs
  PROVE  /\ Aspect(cache[c]) \in Views(c) /\ Aspect(api[c]) \in Views(c)
         /\ Aspect(cache[c]).phase = cache[c].phase /\ Aspect(cache[c]).del = cache[c].del
         /\ Aspect(api[c]).phase = api[c].phase /\ Aspect(api[c]).del = api[c].del
         /\ Exists(cache, c) => c \in created
         /\ Exists(api, c) => c \in created
         /\ cache[c].phase = "Succeeded" => c \in succeeded
         /\ Exists(cache, c) /\ (cache[c].del \/ cache[c].phase = "Deleting") =>
              /\ PredecessorGone(c)
              /\ Later(c) \cap succeeded # {}
              /\ \E d \in created : Replaces[d] = c
         /\ ~Behind(c) => api[c].phase = cache[c].phase /\ api[c].del = cache[c].del
  <1>1. /\ Aspect(cache[c]) \in Views(c) /\ Aspect(api[c]) \in Views(c)
        /\ Aspect(cache[c]).phase = cache[c].phase /\ Aspect(cache[c]).del = cache[c].del
        /\ Aspect(api[c]).phase = api[c].phase /\ Aspect(api[c]).del = api[c].del
        /\ Exists(cache, c) => c \in created
        /\ Exists(api, c) => c \in created
        /\ ~Behind(c) => api[c].phase = cache[c].phase /\ api[c].del = cache[c].del
    BY CopyRead DEF IInv, Copies
  <1>2. cache[c].phase = "Succeeded" => c \in succeeded
    BY <1>1 DEF IInv, ViewsSucceeded
  <1>3. ASSUME Exists(cache, c), cache[c].del \/ cache[c].phase = "Deleting"
        PROVE  /\ PredecessorGone(c)
               /\ Later(c) \cap succeeded # {}
               /\ \E d \in created : Replaces[d] = c
    <2>1. Doomed(Aspect(cache[c]))
      BY <1>1, <1>3 DEF Doomed, Exists
    <2> QED BY <1>1, <2>1 DEF IInv, DoomedLast, ReplacedByCreated
  <1> QED BY <1>1, <1>2, <1>3

-----------------------------------------------------------------------------
(* Every action preserves the invariant *)

\* A doomed stored CSV has its predecessor gone and its replacement created.
LEMMA StoredDoomed ==
  ASSUME IInv, NEW c \in CSVs, Exists(api, c), api[c].del \/ api[c].phase = "Deleting"
  PROVE  /\ PredecessorGone(c)
         /\ Later(c) \cap succeeded # {}
         /\ \E d \in created : Replaces[d] = c
  <1>1. Aspect(api[c]) \in Views(c) /\ Doomed(Aspect(api[c]))
    BY CachedView DEF Doomed, Exists
  <1> QED BY <1>1 DEF IInv, DoomedLast, ReplacedByCreated

\* A write that only dresses c.
LEMMA DressStep ==
  ASSUME IInv, NEW c \in CSVs, NEW obj \in Object, Store(c, obj),
         Exists(api, c), Aspect(obj) = Aspect(api[c]),
         \A d \in CSVs : Aspect(cache'[d]) = Aspect(cache[d]),
         UNCHANGED <<out, created, succeeded>>
  PROVE  Seen'
  <1>1. obj.phase = api[c].phase /\ obj.del = api[c].del
    BY DEF Aspect
  <1>2. c \in created
    BY CachedView
  <1>3. Doomed(Aspect(obj)) => api[c].del \/ api[c].phase = "Deleting"
    BY CachedView DEF Doomed
  <1>4. obj.phase = "Replacing" => \E d \in created : Replaces[d] = c
    BY <1>1, CachedView DEF IInv, ReplacedByCreated
  <1>5. obj.phase = "Succeeded" => c \in succeeded
    BY <1>1, CachedView DEF IInv, ViewsSucceeded
  <1> QED BY <1>1, <1>2, <1>3, <1>4, <1>5, StoredDoomed, WriteStep DEF Exists

LEMMA CreateInd ==
  ASSUME IInv, NEW c \in CSVs, Create(c)
  PROVE  Seen'
  <1>1. /\ Fresh \in Object /\ Store(c, Fresh)
        /\ Fresh.phase = "None" /\ ~Doomed(Aspect(Fresh))
    BY ObjectTypes DEF Create, Fresh, Absent, Doomed, Aspect
  <1> QED BY <1>1, WriteStep DEF Create

LEMMA ClusterChangeInd ==
  ASSUME IInv, NEW c \in CSVs, DetectedClusterChange(c)
  PROVE  Seen'
  <1> DEFINE obj == WithStatus(api[c], S("Pending", "Other"))
  <1>1. /\ S("Pending", "Other") \in Status /\ S("Pending", "Other").phase = "Pending"
        /\ api[c] \in Object
    BY Outcomes DEF S, Phases, Reasons, IInv, TypeOK
  <1>2. /\ obj \in Object /\ Store(c, obj)
        /\ obj.phase = "Pending" /\ obj.del = api[c].del
    BY <1>1, ObjectTypes, AspectOfStatus DEF DetectedClusterChange
  <1>3. Exists(api, c) /\ c \in created
    BY CachedView DEF DetectedClusterChange, Exists
  <1>4. Doomed(Aspect(obj)) => api[c].del
    BY <1>2 DEF Doomed, Aspect
  <1> HIDE DEF obj
  <1> QED BY <1>2, <1>3, <1>4, StoredDoomed, WriteStep DEF DetectedClusterChange

LEMMA AnnotateInd ==
  ASSUME IInv, NEW c \in CSVs, Annotate(c)
  PROVE  Seen'
  <1> DEFINE obj == [api[c] EXCEPT !.meta = "member"]
  <1>1. api[c] \in Object
    BY DEF IInv, TypeOK
  <1>2. obj \in Object /\ Store(c, obj) /\ Aspect(obj) = Aspect(api[c])
    BY <1>1, ObjectTypes, AspectOfMeta DEF Annotate
  <1>3. Exists(api, c)
    BY CachedView DEF Annotate, Exists
  <1> HIDE DEF obj
  <1> QED BY <1>2, <1>3, DressStep DEF Annotate

\* A step that neither writes nor decides anything.
LEMMA IdleStep ==
  ASSUME IInv, UNCHANGED <<api, watch, out, stale, created, succeeded>>,
         \A d \in CSVs : Aspect(cache'[d]) = Aspect(cache[d])
  PROVE  Seen'
  <1>1. \A d \in CSVs : Views(d)' = Views(d)
    BY DEF Views
  <1> QED BY <1>1, MoveStep DEF IInv, TypeOK

LEMMA AddFinalizerInd ==
  ASSUME IInv, NEW c \in CSVs, AddFinalizer(c)
  PROVE  Seen'
  <1> DEFINE obj == [api[c] EXCEPT !.meta = "finalizer"]
  <1>1. api[c] \in Object /\ cache[c] \in Object /\ cache \in [CSVs -> Object]
    BY DEF IInv, TypeOK
  <1>2. \A d \in CSVs : Aspect(cache'[d]) = Aspect(cache[d])
    BY <1>1, AspectOfMeta DEF AddFinalizer
  <1>3. CASE ~Behind(c) /\ Store(c, obj)
    <2>1. obj \in Object /\ Aspect(obj) = Aspect(api[c])
      BY <1>1, ObjectTypes, AspectOfMeta
    <2>2. Exists(api, c)
      BY <1>3, CachedView DEF AddFinalizer, Take, Exists
    <2> HIDE DEF obj
    <2> QED BY <1>2, <1>3, <2>1, <2>2, DressStep DEF AddFinalizer
  <1>4. CASE UNCHANGED <<api, watch>>
    BY <1>2, <1>4, IdleStep DEF AddFinalizer
  <1> QED BY <1>3, <1>4 DEF AddFinalizer

LEMMA RemoveFinalizerInd ==
  ASSUME IInv, NEW c \in CSVs, RemoveFinalizer(c)
  PROVE  Seen'
  <1>1. cache[c] \in Object /\ cache \in [CSVs -> Object]
    BY DEF IInv, TypeOK
  <1>2. \A d \in CSVs : Aspect(cache'[d]) = Aspect(cache[d])
    BY <1>1, AspectOfMeta DEF RemoveFinalizer
  <1>3. CASE ~Behind(c) /\ Store(c, Absent)
    <2>1. Absent \in Object /\ Absent.phase = "Absent" /\ ~Doomed(Aspect(Absent))
      BY ObjectTypes DEF Absent, Doomed, Aspect
    <2>2. /\ c \in created /\ PredecessorGone(c) /\ Later(c) \cap succeeded # {}
      BY CachedView DEF RemoveFinalizer, Take
    <2> QED BY <1>2, <1>3, <2>1, <2>2, WriteStep DEF RemoveFinalizer
  <1>4. CASE UNCHANGED <<api, watch>>
    BY <1>2, <1>4, IdleStep DEF RemoveFinalizer
  <1> QED BY <1>3, <1>4 DEF RemoveFinalizer

LEMMA SyncDeletingInd ==
  ASSUME IInv, NEW c \in CSVs, SyncDeleting(c)
  PROVE  Seen'
  <1> DEFINE obj == Deleted(api[c])
  <1>1. api[c] \in Object
    BY DEF IInv, TypeOK
  <1>2. /\ obj \in Object /\ Store(c, obj)
        /\ obj.phase = "Absent" \/ obj.phase = api[c].phase
    BY <1>1, ObjectTypes DEF SyncDeleting, Deleted, Absent, Object
  <1>3. /\ c \in created /\ PredecessorGone(c) /\ Later(c) \cap succeeded # {}
        /\ \E d \in created : Replaces[d] = c
    BY CachedView DEF SyncDeleting, InPhase, Transition, Take
  <1>4. api[c].phase = "Succeeded" => c \in succeeded
    BY CachedView DEF IInv, ViewsSucceeded
  <1> HIDE DEF obj
  <1> QED BY <1>2, <1>3, <1>4, WriteStep DEF SyncDeleting, Exists

LEMMA UpdateStatusInd ==
  ASSUME IInv, NEW c \in CSVs, UpdateStatus(c)
  PROVE  Seen'
  <1> DEFINE obj == WithStatus(api[c], out[c])
  <1>1. /\ api[c] \in Object /\ out[c] \in Status /\ c \in InFlight
        /\ out \in [CSVs -> Status \cup {NoStatus}]
    BY DEF IInv, TypeOK, UpdateStatus, InFlight
  <1>2. /\ out' \in [CSVs -> Status \cup {NoStatus}]
        /\ out'[c] = NoStatus
        /\ \A d \in CSVs : d # c => out'[d] = out[d]
    BY <1>1 DEF UpdateStatus
  <1>3. CASE /\ c \notin stale /\ Store(c, obj)
             /\ succeeded' = IF out[c].phase = "Succeeded" THEN succeeded \cup {c} ELSE succeeded
    <2>1. /\ obj \in Object
          /\ obj.phase = out[c].phase /\ obj.del = api[c].del
          /\ obj.phase # "Absent"
      BY <1>1, ObjectTypes, AspectOfStatus DEF Status, Phases
    <2>2. Exists(api, c) /\ c \in created
      BY <1>1, <1>3, CachedView DEF IInv, InFlightFresh, Exists
    <2>3. /\ Doomed(Aspect(obj)) => api[c].del \/ out[c].phase = "Deleting"
      BY <2>1 DEF Doomed, Aspect
    <2>4. /\ out[c].phase = "Deleting" => PredecessorGone(c) /\ Later(c) \cap succeeded # {}
          /\ out[c].phase \in {"Replacing", "Deleting"} => \E d \in created : Replaces[d] = c
      BY DEF IInv, DoomedLast, ReplacedByCreated
    <2>5. /\ created' = created /\ cache' = cache /\ succeeded \subseteq succeeded'
          /\ obj.phase = "Succeeded" => c \in succeeded'
      BY <1>3, <2>1 DEF UpdateStatus
    <2>6. obj.phase = "Replacing" => \E d \in created : Replaces[d] = c
      BY <2>1, <2>4
    <2> HIDE DEF obj
    <2> QED BY <1>2, <1>3, <2>1, <2>2, <2>3, <2>4, <2>5, <2>6, StoredDoomed, WriteStep
  <1>4. CASE UNCHANGED <<api, watch, succeeded>>
    <2>1. UNCHANGED <<cache, created>>
      BY DEF UpdateStatus
    <2>2. \A d \in CSVs : Views(d)' = Views(d)
      BY <1>4, <2>1 DEF Views
    <2> QED BY <1>2, <1>4, <2>1, <2>2, MoveStep
  <1> QED BY <1>3, <1>4 DEF UpdateStatus

LEMMA DeliverInd ==
  ASSUME IInv, Deliver
  PROVE  Seen'
  <1>1. /\ watch # <<>> /\ watch \in Seq(Event)
        /\ DOMAIN watch = 1..Len(watch) /\ Len(watch) \in Nat \ {0}
        /\ DOMAIN watch' = 1..(Len(watch) - 1)
        /\ \A i \in DOMAIN watch' : watch'[i] = watch[i + 1] /\ i + 1 \in DOMAIN watch
        /\ \A i \in DOMAIN watch : i # 1 => i - 1 \in DOMAIN watch' /\ watch'[i - 1] = watch[i]
        /\ 1 \in DOMAIN watch /\ Head(watch) = watch[1]
        /\ watch[1] \in Event
    BY DEF IInv, TypeOK, Deliver
  <1> DEFINE e == watch[1]
  <1>2. /\ e.csv \in CSVs
        /\ cache'[e.csv] = e.obj
        /\ \A d \in CSVs : d # e.csv => cache'[d] = cache[d]
    BY <1>1 DEF Deliver, Event, IInv, TypeOK
  <1>3. ASSUME NEW d \in CSVs  PROVE Views(d)' \subseteq Views(d)
    <2>1. Aspect(api'[d]) \in Views(d)
      BY DEF Deliver, Views
    <2>2. Aspect(cache'[d]) \in Views(d)
      BY <1>1, <1>2 DEF Views
    <2>3. ASSUME NEW i \in DOMAIN watch', watch'[i].csv = d
          PROVE  Aspect(watch'[i].obj) \in Views(d)
      BY <1>1, <2>3 DEF Views
    <2> QED BY <2>1, <2>2, <2>3 DEF Views
  <1> QED BY <1>3, MoveStep DEF Deliver, IInv, TypeOK

LEMMA RestartInd ==
  ASSUME IInv, Restart
  PROVE  Seen'
  <1>2. \A d \in CSVs : Views(d)' \subseteq Views(d)
    BY DEF Restart, Views
  <1>3. out' \in [CSVs -> Status \cup {NoStatus}] /\ \A d \in CSVs : out'[d] = NoStatus
    BY DEF Restart
  <1> QED BY <1>2, <1>3, MoveStep DEF Restart

\* The syncs that decide on neither Replacing nor Deleting.
LEMMA PlainInd ==
  ASSUME IInv, NEW c \in CSVs, NEW statuses \in SUBSET Status,
         \A s \in statuses : s.phase \notin {"Replacing", "Deleting"},
         Healthy(c, statuses) \/ Unhealthy(c, statuses)
  PROVE  Seen'
  <1>1. PICK s \in statuses : Finish(c, s)
    BY DEF Healthy, Unhealthy
  <1> QED BY <1>1, FinishStep

LEMMA PlainOutcomes ==
  /\ \A ph \in Phases \ {"Replacing", "Deleting"}, r \in Reasons :
       S(ph, r) \in Status /\ S(ph, r).phase \notin {"Replacing", "Deleting"}
  /\ \A ph \in Phases \ {"Replacing", "Deleting"} :
       /\ NotInstalled(ph) \subseteq Status
       /\ \A s \in NotInstalled(ph) : s.phase \notin {"Replacing", "Deleting"}
BY DEF S, Status, Phases, Reasons, NotInstalled

\* A replacement found in the cache was created.
LEMMA ReplacementCreated ==
  ASSUME IInv, NEW c \in CSVs, NEW next \in IsBeingReplaced(c), next # NoCSV
  PROVE  next \in CSVs /\ next \in created /\ Replaces[next] = c
BY CachedView DEF IsBeingReplaced, Replacements

LEMMA ReplacingInd ==
  ASSUME IInv, NEW c \in CSVs, NEW next \in IsBeingReplaced(c), next # NoCSV,
         Healthy(c, {S("Replacing", "Other")})
  PROVE  Seen'
  <1>1. /\ Finish(c, S("Replacing", "Other"))
        /\ S("Replacing", "Other") \in Status
        /\ S("Replacing", "Other").phase = "Replacing"
    BY DEF Healthy, S, Status, Phases, Reasons
  <1>2. \E d \in created : Replaces[d] = c
    BY ReplacementCreated
  <1> QED BY <1>1, <1>2, FinishStep

LEMMA SyncReplacingInd ==
  ASSUME IInv, ~GetErrors, NEW c \in CSVs, SyncReplacing(c)
  PROVE  Seen'
  <1>2. PredecessorGone(c)
    BY DEF SyncReplacing, IsReplacing, PredecessorGone, Exists
  <1>3. CASE \E next \in IsBeingReplaced(c) :
               /\ next # NoCSV
               /\ \E last \in Newest(next) : cache[last].phase = "Succeeded"
               /\ Healthy(c, {S("Deleting", "Other")})
    <2>1. PICK next \in IsBeingReplaced(c) :
               /\ next # NoCSV
               /\ \E last \in Newest(next) : cache[last].phase = "Succeeded"
               /\ Healthy(c, {S("Deleting", "Other")})
      BY <1>3
    <2>2. next \in CSVs /\ next \in created /\ Replaces[next] = c
      BY <2>1, ReplacementCreated
    <2>3. PICK last \in Newest(next) : cache[last].phase = "Succeeded"
      BY <2>1
    <2>4. last \in Later(c) /\ last \in CSVs
      BY <2>2, NewestLater DEF Later, Closure
    <2>5. last \in succeeded
      BY <2>3, <2>4, CachedView
    <2>6. /\ Finish(c, S("Deleting", "Other"))
          /\ S("Deleting", "Other") \in Status
          /\ S("Deleting", "Other").phase = "Deleting"
      BY <2>1 DEF Healthy, S, Status, Phases, Reasons
    <2> QED BY <1>2, <2>2, <2>4, <2>5, <2>6, FinishStep
  <1>4. CASE UNCHANGED <<api, cache, watch, out, stale, created, succeeded, faults>>
    BY <1>4, IdleStep
  <1> QED BY <1>3, <1>4 DEF SyncReplacing

LEMMA SyncInd ==
  ASSUME IInv, ~GetErrors, NEW c \in CSVs, Sync(c)
  PROVE  Seen'
  <1> USE DEF Transition, InPhase, Phases, Reasons
  <1>1. CASE SyncGroup(c)
    BY <1>1, PlainInd, PlainOutcomes DEF SyncGroup
  <1>2. CASE SyncNone(c)
    BY <1>2, PlainInd, PlainOutcomes DEF SyncNone
  <1>3. CASE SyncPending(c)
    BY <1>3, PlainInd, PlainOutcomes DEF SyncPending
  <1>4. CASE SyncInstallReady(c)
    BY <1>4, PlainInd, PlainOutcomes DEF SyncInstallReady
  <1>5. CASE SyncInstalling(c)
    BY <1>5, PlainInd, PlainOutcomes DEF SyncInstalling
  <1>6. CASE SyncSucceeded(c)
    <2>1. PICK next \in IsBeingReplaced(c) :
            \/ next # NoCSV /\ Healthy(c, {S("Replacing", "Other")})
            \/ Unhealthy(c, NotInstalled("Failed")
                              \cup {S("Pending", "Other"), S("Failed", "InvalidStrategy")})
      BY <1>6 DEF SyncSucceeded
    <2>2. CASE next # NoCSV /\ Healthy(c, {S("Replacing", "Other")})
      BY <1>6, <2>2, ReplacingInd DEF SyncSucceeded
    <2>3. CASE Unhealthy(c, NotInstalled("Failed")
                              \cup {S("Pending", "Other"), S("Failed", "InvalidStrategy")})
      BY <1>6, <2>3, PlainInd, PlainOutcomes DEF SyncSucceeded
    <2> QED BY <2>1, <2>2, <2>3
  <1>7. CASE SyncFailed(c)
    <2> DEFINE retried == {S("Succeeded", "Other"), S("Pending", "Other"),
                           S("InstallReady", "Other")}
    <2>1. PICK next \in IsBeingReplaced(c) :
            \/ FailForward /\ next # NoCSV /\ Healthy(c, {S("Replacing", "Other")})
            \/ Unhealthy(c, {S("Failed", "InvalidStrategy")})
            \/ Healthy(c, {S("Pending", "Other")})
            \/ Healthy(c, retried)
            \/ Unhealthy(c, {S("Failed", "Other")})
      BY <1>7 DEF SyncFailed
    <2>3. CASE FailForward /\ next # NoCSV /\ Healthy(c, {S("Replacing", "Other")})
      BY <2>3, ReplacingInd
    <2>4. CASE Unhealthy(c, {S("Failed", "InvalidStrategy")})
      BY <2>4, PlainInd, PlainOutcomes
    <2>5. CASE Healthy(c, {S("Pending", "Other")})
      BY <2>5, PlainInd, PlainOutcomes
    <2>6. CASE Healthy(c, retried)
      BY <2>6, PlainInd, PlainOutcomes
    <2>7. CASE Unhealthy(c, {S("Failed", "Other")})
      BY <2>7, PlainInd, PlainOutcomes
    <2> QED BY <2>1, <2>3, <2>4, <2>5, <2>6, <2>7
  <1> QED BY <1>1, <1>2, <1>3, <1>4, <1>5, <1>6, <1>7, AddFinalizerInd, RemoveFinalizerInd,
             AnnotateInd, SyncReplacingInd, SyncDeletingInd DEF Sync

LEMMA InitInd == Init => IInv
  <1> SUFFICES ASSUME Init  PROVE IInv
    OBVIOUS
  <1>1. Copies
    BY CopiesInit
  <1>2. \A c \in CSVs : Views(c) = {Aspect(Absent)} /\ ~Behind(c)
    BY DEF Init, Views, Behind
  <1>3. Aspect(Absent).phase = "Absent" /\ ~Doomed(Aspect(Absent)) /\ InFlight = {}
    BY DEF Init, Aspect, Absent, Doomed, InFlight
  <1>4. \A c \in CSVs : out[c].phase = "Absent"
    BY DEF Init, NoStatus
  <1> QED BY <1>1, <1>2, <1>3, <1>4 DEF Copies, IInv, DoomedLast, ReplacedByCreated,
             ViewsSucceeded, Init

\* The invariant is inductive when users do not delete CSVs and the live GET
\* tells absence from failure.
LEMMA StepInd ==
  ASSUME ~UserDeletes, ~GetErrors, IInv, [Next]_vars
  PROVE  IInv'
  <1>1. Copies'
    BY CopiesStep DEF IInv, Copies
  <1>2. ASSUME UNCHANGED vars  PROVE Seen'
    BY <1>2, IdleStep DEF vars
  <1>3. \A c \in CSVs : ~UserDelete(c)
    BY DEF UserDelete
  <1>4. Seen'
    BY <1>2, <1>3, CreateInd, ClusterChangeInd, SyncInd, UpdateStatusInd, DeliverInd, RestartInd
       DEF Next
  <1> QED BY <1>1, <1>4 DEF IInv, Copies, Seen

-----------------------------------------------------------------------------
(* The results *)

\* Chains are collected from their oldest end, for every namespace of CSVs
\* and every replacement relation, however far the cache lags, whichever
\* writes are lost and whenever the process restarts.
THEOREM ChainOrder ==
  ASSUME ~UserDeletes, ~GetErrors
  PROVE  Spec => []OldestFirst
  <1>1. ASSUME IInv  PROVE OldestFirst
    <2> SUFFICES ASSUME NEW c \in created, Replaces[c] # NoCSV, Leaving(c)
                 PROVE  ~Exists(api, Replaces[c])
      BY DEF OldestFirst
    <2>1. c \in CSVs
      BY <1>1 DEF IInv, TypeOK
    <2>2. PredecessorGone(c)
      BY <1>1, <2>1, StoredDoomed DEF Leaving, IInv, DoomedLast
    <2> QED BY <2>2 DEF PredecessorGone
  <1> QED BY <1>1, InitInd, StepInd, PTL DEF Spec

\* A CSV that is being replaced or collected still has its replacement.
THEOREM ChainKept ==
  ASSUME ~UserDeletes, ~GetErrors
  PROVE  Spec => []ChainUnbroken
  <1>1. ASSUME IInv  PROVE ChainUnbroken
    <2> SUFFICES ASSUME NEW c \in CSVs, Exists(api, c),
                        api[c].phase \in {"Replacing", "Deleting"} \/ api[c].del
                 PROVE  Replacements(api, c) # {}
      BY DEF ChainUnbroken
    <2>1. PICK d \in created : Replaces[d] = c
      BY <1>1, StoredDoomed, CachedView DEF IInv, ReplacedByCreated
    <2>2. d \in CSVs
      BY <1>1 DEF IInv, TypeOK
    <2>3. Exists(api, d)
      BY <1>1, <2>1, <2>2, CSVsAssumption DEF IInv, DoomedLast, PredecessorGone
    <2> QED BY <2>1, <2>2, <2>3 DEF Replacements
  <1> QED BY <1>1, InitInd, StepInd, PTL DEF Spec

\* No version is collected before one that replaces it has run.
THEOREM CollectedLate ==
  ASSUME ~UserDeletes, ~GetErrors
  PROVE  Spec => []CollectedAfterSuccess
  <1>1. ASSUME IInv  PROVE CollectedAfterSuccess
    <2> SUFFICES ASSUME NEW c \in created, Leaving(c)
                 PROVE  Later(c) \cap succeeded # {}
      BY DEF CollectedAfterSuccess
    <2>1. c \in CSVs
      BY <1>1 DEF IInv, TypeOK
    <2> QED BY <1>1, <2>1, StoredDoomed DEF Leaving, IInv, DoomedLast
  <1> QED BY <1>1, InitInd, StepInd, PTL DEF Spec

\* What a step may do to the stored CSVs: nothing, ...
Untouched == UNCHANGED <<api, created, succeeded>>

Only(c) == \A d \in CSVs : d # c => api'[d] = api[d]

\* ... a creation, ...
Born(c) == Only(c) /\ Create(c) /\ api'[c] = Fresh

\* ... a write that dresses an existing CSV or starts it again, ...
Rewritten(c) ==
  /\ Only(c)
  /\ Exists(api, c)
  /\ UNCHANGED <<created, succeeded>>
  /\ api'[c].phase \in {api[c].phase, "Pending"}

\* ... the status write of a sync that worked on the stored CSV, ...
Written(c) ==
  /\ Only(c)
  /\ c \in InFlight \ stale
  /\ api'[c].phase = out[c].phase
  /\ succeeded' = IF out[c].phase = "Succeeded" THEN succeeded \cup {c} ELSE succeeded
  /\ created' = created

\* ... or the collection of the oldest CSV of a chain.
Collected(c) ==
  /\ Only(c)
  /\ Exists(api, c)
  /\ UNCHANGED <<created, succeeded>>
  /\ api'[c].phase = "Absent"
  /\ PredecessorGone(c)
  /\ Later(c) \cap succeeded # {}

ApiChange == Untouched \/ \E c \in CSVs : Born(c) \/ Rewritten(c) \/ Written(c) \/ Collected(c)

LEMMA ApiStep ==
  ASSUME ~UserDeletes, IInv, [Next]_vars
  PROVE  ApiChange
  <1>1. ASSUME NEW c \in CSVs, NEW obj, Store(c, obj)
        PROVE  api'[c] = obj /\ Only(c)
    BY <1>1 DEF Store, IInv, TypeOK, Only
  <1>2. ASSUME NEW c \in CSVs  PROVE api[c] \in Object /\ out[c] \in Status \cup {NoStatus}
    BY DEF IInv, TypeOK
  <1>3. ASSUME NEW c \in CSVs, NEW m \in {"finalizer", "member"}
        PROVE  [api[c] EXCEPT !.meta = m].phase = api[c].phase
    BY <1>2 DEF Object
  <1>4. ASSUME NEW c \in CSVs, Create(c)  PROVE ApiChange
    BY <1>1, <1>4 DEF Create, ApiChange, Born
  <1>5. ASSUME NEW c \in CSVs, DetectedClusterChange(c)  PROVE ApiChange
    <2>1. WithStatus(api[c], S("Pending", "Other")).phase = "Pending"
      BY <1>2, AspectOfStatus, Outcomes DEF S, Phases, Reasons
    <2>2. Exists(api, c)
      BY <1>5, CachedView DEF DetectedClusterChange, Exists
    <2> QED BY <1>1, <1>5, <2>1, <2>2 DEF DetectedClusterChange, ApiChange, Rewritten
  <1>6. ASSUME NEW c \in CSVs, AddFinalizer(c)  PROVE ApiChange
    <2>1. ~Behind(c) => Exists(api, c)
      BY <1>6, CachedView DEF AddFinalizer, Take, Exists
    <2>2. CASE ~Behind(c) /\ Store(c, [api[c] EXCEPT !.meta = "finalizer"])
      BY <1>1, <1>3, <1>6, <2>1, <2>2 DEF AddFinalizer, ApiChange, Rewritten
    <2>3. CASE UNCHANGED <<api, watch>>
      BY <1>6, <2>3 DEF AddFinalizer, ApiChange, Untouched
    <2> QED BY <1>6, <2>2, <2>3 DEF AddFinalizer
  <1>7. ASSUME NEW c \in CSVs, Annotate(c)  PROVE ApiChange
    <2>1. Exists(api, c)
      BY <1>7, CachedView DEF Annotate, Exists
    <2> QED BY <1>1, <1>3, <1>7, <2>1 DEF Annotate, ApiChange, Rewritten
  <1>8. ASSUME NEW c \in CSVs, RemoveFinalizer(c)  PROVE ApiChange
    <2>1. ~Behind(c) => Exists(api, c)
      BY <1>8, CachedView DEF RemoveFinalizer, Take, Exists
    <2>2. PredecessorGone(c) /\ Later(c) \cap succeeded # {}
      BY <1>8, CachedView DEF RemoveFinalizer, Take
    <2>3. CASE ~Behind(c) /\ Store(c, Absent)
      BY <1>1, <1>8, <2>1, <2>2, <2>3 DEF RemoveFinalizer, Absent, ApiChange, Collected
    <2>4. CASE UNCHANGED <<api, watch>>
      BY <1>8, <2>4 DEF RemoveFinalizer, ApiChange, Untouched
    <2> QED BY <1>8, <2>3, <2>4 DEF RemoveFinalizer
  <1>9. ASSUME NEW c \in CSVs, SyncDeleting(c)  PROVE ApiChange
    <2>1. PredecessorGone(c) /\ Later(c) \cap succeeded # {}
      BY <1>9, CachedView DEF SyncDeleting, InPhase, Transition, Take
    <2>2. Deleted(api[c]).phase \in {"Absent", api[c].phase}
      BY <1>2 DEF Deleted, Absent, Object
    <2> QED BY <1>1, <1>9, <2>1, <2>2 DEF SyncDeleting, ApiChange, Rewritten, Collected
  <1>10. ASSUME NEW c \in CSVs, UpdateStatus(c)  PROVE ApiChange
    <2>1. c \in InFlight /\ out[c] \in Status /\ created' = created
      BY <1>2, <1>10 DEF UpdateStatus, InFlight
    <2>2. WithStatus(api[c], out[c]).phase = out[c].phase
      BY <1>2, <2>1, AspectOfStatus
    <2> QED BY <1>1, <1>10, <2>1, <2>2 DEF UpdateStatus, ApiChange, Untouched, Written
  <1>11. ASSUME NEW c \in CSVs, NEW statuses, Healthy(c, statuses) \/ Unhealthy(c, statuses)
         PROVE  ApiChange
    BY <1>11 DEF Healthy, Unhealthy, Finish, ApiChange, Untouched
  <1>12. ASSUME NEW c \in CSVs, Sync(c)  PROVE ApiChange
    <2>1. CASE SyncReplacing(c)
      <3>1. CASE Healthy(c, {S("Deleting", "Other")})
        BY <1>11, <3>1
      <3>2. CASE UNCHANGED <<api, cache, watch, out, stale, created, succeeded, faults>>
        BY <3>2 DEF ApiChange, Untouched
      <3> QED BY <2>1, <3>1, <3>2 DEF SyncReplacing
    <2> QED BY <1>6, <1>7, <1>8, <1>9, <1>11, <1>12, <2>1 DEF Sync, SyncGroup, SyncNone,
               SyncPending, SyncInstallReady, SyncInstalling, SyncSucceeded, SyncFailed
  <1>13. ASSUME Deliver \/ Restart \/ UNCHANGED vars  PROVE ApiChange
    BY <1>13 DEF Deliver, Restart, vars, ApiChange, Untouched
  <1>14. \A c \in CSVs : ~UserDelete(c)
    BY DEF UserDelete
  <1> QED BY <1>4, <1>5, <1>10, <1>12, <1>13, <1>14 DEF Next

-----------------------------------------------------------------------------
(* Refinement *)

LEMMA LaterSuccessors ==
  ASSUME NEW c \in CSVs
  PROVE  Later(c) \subseteq Chain!Successors(c)
  <1> SUFFICES ASSUME NEW d \in Later(c), NEW X \in SUBSET CSVs,
                      \A e \in CSVs : Replaces[e] \in X \cup {c} => e \in X
               PROVE  d \in X
    BY DEF Chain!Successors, Later, Closure
  <1>1. {e \in CSVs : Replaces[e] = c} \subseteq X
    OBVIOUS
  <1> QED BY <1>1 DEF Later, Closure

LEMMA ChainStep ==
  ASSUME ~UserDeletes, IInv, [Next]_vars
  PROVE  [Chain!Next]_(Chain!chainVars)
  <1> USE CSVsAssumption
  <1>1. CASE Untouched
    BY <1>1 DEF Untouched, Chain!chainVars, Stage, Exists
  <1>2. ASSUME NEW c \in CSVs, Born(c)  PROVE Chain!Release(c)
    <2>1. /\ c \notin created /\ created' = created \cup {c} /\ succeeded' = succeeded
          /\ \A d \in created : Replaces[d] # c
          /\ api'[c].phase # "Absent"
      BY <1>2 DEF Born, Create, Fresh, Absent
    <2>2. Stage' = [Stage EXCEPT ![c] = "live"]
      BY <1>2, <2>1 DEF Stage, Exists, Born, Only
    <2>3. Stage[c] = "unborn" /\ \A d \in CSVs : Replaces[d] = c => Stage[d] = "unborn"
      BY <2>1 DEF Stage
    <2> QED BY <2>1, <2>2, <2>3 DEF Chain!Release
  <1>3. ASSUME NEW c \in CSVs, Rewritten(c)  PROVE UNCHANGED Chain!chainVars
    BY <1>3 DEF Rewritten, Only, Chain!chainVars, Stage, Exists
  <1>4. ASSUME NEW c \in CSVs, Written(c)  PROVE Chain!Run(c) \/ UNCHANGED Chain!chainVars
    <2>1. Exists(api, c) /\ c \in created
      BY <1>4, CachedView DEF Written, IInv, InFlightFresh, Exists
    <2>2. api'[c].phase # "Absent"
      BY <1>4 DEF Written, InFlight, IInv, TypeOK, Status, Phases
    <2>3. Stage' = Stage
      BY <1>4, <2>1, <2>2 DEF Stage, Written, Only, Exists
    <2>4. Stage[c] = "live"
      BY <2>1 DEF Stage
    <2> QED BY <1>4, <2>3, <2>4 DEF Written, Chain!Run, Chain!chainVars
  <1>5. ASSUME NEW c \in CSVs, Collected(c)  PROVE Chain!Collect(c)
    <2>1. c \in created
      BY <1>5, CachedView DEF Collected
    <2>2. Stage[c] = "live" /\ (Replaces[c] # NoCSV => Stage[Replaces[c]] # "live")
      BY <1>5, <2>1 DEF Collected, PredecessorGone, Stage
    <2>3. Stage' = [Stage EXCEPT ![c] = "gone"]
      BY <1>5, <2>1 DEF Collected, Only, Stage, Exists
    <2>4. Chain!Successors(c) \cap succeeded # {}
      BY <1>5, LaterSuccessors DEF Collected
    <2> QED BY <1>5, <2>2, <2>3, <2>4 DEF Collected, Chain!Collect
  <1>6. ApiChange
    BY ApiStep
  <1> QED BY <1>1, <1>2, <1>3, <1>4, <1>5, <1>6 DEF ApiChange, Chain!Next

\* The control loop implements the abstract chain: however its syncs, its
\* informer and its restarts interleave, users see versions released newest
\* last and collected oldest first, each only after a later one has run.
THEOREM Refinement ==
  ASSUME ~UserDeletes, ~GetErrors
  PROVE  Spec => ImplementsChain
  <1>1. Init => Chain!Init
    BY DEF Init, Chain!Init, Stage
  <1> QED BY <1>1, ChainStep, InitInd, StepInd, PTL DEF Spec, ImplementsChain, Chain!Spec

=============================================================================
