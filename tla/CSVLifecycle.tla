---------------------------- MODULE CSVLifecycle ----------------------------
(***************************************************************************)
(* The ClusterServiceVersion control loop of the OLM operator, for the     *)
(* CSVs of one namespace and the replacement chains among them:            *)
(* syncClusterServiceVersion, processFinalizer and transitionCSVState of   *)
(* controller/operators/olm/operator.go, the replacement finder of         *)
(* lib/csv and the chain walk of registry/resolver/fail_forward.go.        *)
(*                                                                         *)
(* A sync reads the CSV and its namespace from the informer cache, reads   *)
(* the CSV it replaces live from the API server, and writes its result     *)
(* with an optimistic-concurrency UpdateStatus.  Reading (Sync* actions)   *)
(* and writing (UpdateStatus) are separate steps, so that the syncs of     *)
(* different CSVs, the informer and the users interleave between them.     *)
(*                                                                         *)
(* What the rest of the cluster answers (requirements, deployments, API    *)
(* services, webhooks, operator groups) is a choice of each sync: the      *)
(* healthy answer at any time, an unhealthy one at most MaxFaults times.   *)
(***************************************************************************)
EXTENDS Naturals, Sequences, FiniteSets

CONSTANTS
  CSVs,          \* the names of the CSVs of the namespace
  NoCSV,         \* no CSV: an empty spec.replaces, a lookup that found nothing
  Replaces,      \* spec.replaces of every CSV
  FailForward,   \* the operator group's upgrade strategy is UnsafeFailForward
  Overlap,       \* a CSV may be created before its predecessor's own upgrade ended
  UserDeletes,   \* users delete CSVs
  GetErrors,     \* a live GET may fail for reasons other than NotFound
  UpdateErrors,  \* an Update may fail for reasons other than a conflict
  MaxFaults,     \* bound: unhealthy answers of the cluster
  MaxLag,        \* bound: watch events the informer is behind
  NumWorkers     \* worker goroutines of the CSV queue

ASSUME CSVsAssumption ==
  /\ NoCSV \notin CSVs
  /\ Replaces \in [CSVs -> CSVs \cup {NoCSV}]
  /\ \A c \in CSVs : Replaces[c] # c

ASSUME SwitchesAssumption ==
  /\ {FailForward, Overlap, UserDeletes, GetErrors, UpdateErrors} \subseteq BOOLEAN
  /\ MaxFaults \in Nat
  /\ MaxLag \in Nat \ {0}
  /\ NumWorkers \in Nat \ {0}

VARIABLES
  api,       \* the CSVs as the API server stores them
  cache,     \* the CSVs as the informer cache holds them
  watch,     \* the stored writes the informer has not yet seen, in order
  out,       \* status each sync in flight is about to write, or NoStatus
  stale,     \* syncs in flight whose copy has an old resourceVersion
  created,   \* CSVs that were ever created
  succeeded, \* CSVs that ever were Succeeded (history)
  faults,    \* unhealthy answers given so far
  panicked   \* the process has dereferenced a nil CSV

vars == <<api, cache, watch, out, stale, created, succeeded, faults, panicked>>

Phases == {"None", "Pending", "InstallReady", "Installing", "Succeeded",
           "Failed", "Replacing", "Deleting"}

\* The reasons transitionCSVState branches on; the others are "Other".
\* "OperatorGroup" stands for NoTargetNamespaces, NoOperatorGroup,
\* TooManyOperatorGroups and UnsupportedOperatorGroup, "ProvidedAPIs" for
\* InterOperatorGroupOwnerConflict and the static-group reason.
Reasons == {"OperatorGroup", "ProvidedAPIs", "InvalidStrategy",
            "ComponentFailedNoRetry", "Other"}

Status == [phase : Phases, reason : Reasons]

NoStatus == [phase |-> "Absent", reason |-> "Other"]

\* meta is how far the sync has dressed the object: nothing, the cleanup
\* finalizer, or also the API labels and the operator group annotations.
Object == [phase : Phases \cup {"Absent"}, reason : Reasons,
           meta : {"bare", "finalizer", "member"}, del : BOOLEAN]

Absent == [phase |-> "Absent", reason |-> "Other", meta |-> "bare", del |-> FALSE]

Fresh == [Absent EXCEPT !.phase = "None"]

Exists(objs, c) == objs[c].phase # "Absent"

StatusOf(o) == [phase |-> o.phase, reason |-> o.reason]

S(phase, reason) == [phase |-> phase, reason |-> reason]

WithStatus(o, s) == [o EXCEPT !.phase = s.phase, !.reason = s.reason]

Event == [csv : CSVs, obj : Object]

\* The status subresource writes are under way for.
InFlight == {c \in CSVs : out[c] # NoStatus}

\* The cached copy of c has an old resourceVersion.
Behind(c) == \E i \in DOMAIN watch : watch[i].csv = c

TypeOK ==
  /\ api \in [CSVs -> Object]
  /\ cache \in [CSVs -> Object]
  /\ watch \in Seq(Event)
  /\ Len(watch) <= MaxLag
  /\ out \in [CSVs -> Status \cup {NoStatus}]
  /\ stale \subseteq InFlight
  /\ created \subseteq CSVs
  /\ succeeded \subseteq CSVs
  /\ faults \in 0..MaxFaults
  /\ panicked \in BOOLEAN

Init ==
  /\ api = [c \in CSVs |-> Absent]
  /\ cache = api
  /\ watch = <<>>
  /\ out = [c \in CSVs |-> NoStatus]
  /\ stale = {}
  /\ created = {}
  /\ succeeded = {}
  /\ faults = 0
  /\ panicked = FALSE

-----------------------------------------------------------------------------
(* Replacement chains *)

Replacements(objs, c) == {d \in CSVs : Exists(objs, d) /\ Replaces[d] = c}

\* IsBeingReplaced ranges over a Go map: any CSV of the cache that replaces c.
IsBeingReplaced(c) ==
  IF Replacements(cache, c) = {} THEN {NoCSV} ELSE Replacements(cache, c)

\* IsReplacing asks the API server, and takes every error for "not found".
IsReplacing(c) ==
  (IF Replaces[c] # NoCSV /\ api[Replaces[c]].phase # "Absent"
   THEN {Replaces[c]} ELSE {NoCSV})
  \cup (IF GetErrors THEN {NoCSV} ELSE {})

\* The least set that holds the CSVs of start and, with every CSV, those of
\* alive that replace it.
Closure(start, alive) ==
  {d \in CSVs : \A X \in SUBSET CSVs :
     start \subseteq X /\ (\A e \in alive : Replaces[e] \in X => e \in X) => d \in X}

\* WalkReplacementChain over ReplacementMapping of the cached CSVs: the ends
\* a walk that starts at c may come to.  A walk that revisits a CSV has no end
\* (it returns an error).
ChainEnds(c) ==
  {d \in Closure({c}, {e \in CSVs : Exists(cache, e)}) : Replacements(cache, d) = {}}

-----------------------------------------------------------------------------
(* The API server, the informer and the users *)

Fault ==
  /\ faults < MaxFaults
  /\ faults' = faults + 1

\* A write of c: the watch will report it, and the copy that a sync of c in
\* flight works on becomes old.
Store(c, obj) ==
  /\ Len(watch) < MaxLag
  /\ api' = [api EXCEPT ![c] = obj]
  /\ watch' = Append(watch, [csv |-> c, obj |-> obj])

\* The upgrade to p is over: p is there and what it replaced is gone.
LastUpgradeEnded(p) ==
  Exists(api, p) /\ (Replaces[p] # NoCSV => ~Exists(api, Replaces[p]))

\* An install plan or a user creates a CSV.  Upgrades go forward: a CSV is
\* not created after one that replaces it.
Create(c) ==
  /\ c \notin created
  /\ \A d \in created : Replaces[d] # c
  /\ ~Overlap /\ Replaces[c] # NoCSV => LastUpgradeEnded(Replaces[c])
  /\ Store(c, Fresh)
  /\ created' = created \cup {c}
  /\ UNCHANGED <<cache, out, stale, succeeded, faults, panicked>>

\* A Delete call: the object goes at once unless a finalizer holds it.
Deleted(obj) == IF obj.meta = "bare" THEN Absent ELSE [obj EXCEPT !.del = TRUE]

UserDelete(c) ==
  /\ UserDeletes
  /\ Exists(api, c) /\ ~api[c].del
  /\ Store(c, Deleted(api[c]))
  /\ stale' = stale \cup ({c} \cap InFlight)
  /\ UNCHANGED <<cache, out, created, succeeded, faults, panicked>>

\* The informer receives the next watch event.
Deliver ==
  /\ watch # <<>>
  /\ cache' = [cache EXCEPT ![Head(watch).csv] = Head(watch).obj]
  /\ watch' = Tail(watch)
  /\ UNCHANGED <<api, out, stale, created, succeeded, faults, panicked>>

\* The process crashes and restarts: syncs in flight are lost, the cache is
\* listed anew.
Restart ==
  /\ IF panicked THEN UNCHANGED faults ELSE Fault
  /\ cache' = api
  /\ watch' = <<>>
  /\ out' = [c \in CSVs |-> NoStatus]
  /\ stale' = {}
  /\ panicked' = FALSE
  /\ UNCHANGED <<api, created, succeeded>>

-----------------------------------------------------------------------------
(* syncClusterServiceVersion *)

\* A worker takes c from the queue.  Events, requeues and the resync period
\* may put any cached CSV there at any time.
Take(c) ==
  /\ ~panicked
  /\ Exists(cache, c)
  /\ c \notin InFlight
  /\ Cardinality(InFlight) < NumWorkers

\* processFinalizer of a CSV that is not being deleted puts the finalizer on
\* the object in the cache itself and writes that object.  The sync goes on
\* with the old resourceVersion, so that its own writes fail.
AddFinalizer(c) ==
  /\ Take(c)
  /\ ~cache[c].del /\ cache[c].meta = "bare"
  /\ cache' = [cache EXCEPT ![c].meta = "finalizer"]
  /\ \/ /\ ~Behind(c)
        /\ Store(c, [api[c] EXCEPT !.meta = "finalizer"])
        /\ UNCHANGED faults
     \/ /\ Behind(c)
        /\ UNCHANGED <<api, watch, faults>>
     \/ UpdateErrors /\ Fault /\ UNCHANGED <<api, watch>>
  /\ UNCHANGED <<out, stale, created, succeeded, panicked>>

\* processFinalizer of a CSV that is being deleted: the owned cluster-scoped
\* objects are gone, the finalizer is taken off the object in the cache, and
\* the write of it lets the API server remove the CSV.
RemoveFinalizer(c) ==
  /\ Take(c)
  /\ cache[c].del /\ cache[c].meta # "bare"
  /\ cache' = [cache EXCEPT ![c].meta = "bare"]
  /\ \/ /\ ~Behind(c)
        /\ Store(c, Absent)
        /\ UNCHANGED faults
     \/ /\ Behind(c)
        /\ UNCHANGED <<api, watch, faults>>
     \/ UpdateErrors /\ Fault /\ UNCHANGED <<api, watch>>
  /\ UNCHANGED <<out, stale, created, succeeded, panicked>>

\* ensureLabels and operatorGroupForCSV write the API labels and the operator
\* group annotations, and end the sync.  annotateCSVs of the operator group
\* sync writes the same annotations, and writes them again when the group's
\* targets change.
Annotate(c) ==
  /\ ~panicked
  /\ Exists(cache, c) /\ ~cache[c].del /\ cache[c].meta # "bare"
  /\ ~Behind(c)
  /\ IF cache[c].meta = "member" THEN Fault ELSE UNCHANGED faults
  /\ Store(c, [api[c] EXCEPT !.meta = "member"])
  /\ stale' = stale \cup ({c} \cap InFlight)
  /\ UNCHANGED <<cache, out, created, succeeded, panicked>>

-----------------------------------------------------------------------------
(* transitionCSVState *)

\* The sync of c gets as far as transitionCSVState.
Transition(c) ==
  /\ Take(c)
  /\ ~cache[c].del /\ cache[c].meta # "bare"
  /\ cache[c].reason # "ComponentFailedNoRetry"

\* The sync of c passes the checks that precede the switch over the phase.
InPhase(c, phase) ==
  /\ Transition(c)
  /\ cache[c].meta = "member"
  /\ cache[c].phase = phase

\* Mutant: the write carries no resourceVersion, so that it never conflicts.
FinishUnversioned(c, s) ==
  /\ out' = [out EXCEPT ![c] = IF s = StatusOf(cache[c]) THEN NoStatus ELSE s]
  /\ UNCHANGED <<api, cache, watch, stale, created, succeeded, panicked>>

\* The sync ends in status s; an unchanged status is not written.
Finish(c, s) ==
  /\ out' = [out EXCEPT ![c] = IF s = StatusOf(cache[c]) THEN NoStatus ELSE s]
  /\ stale' = IF Behind(c) /\ s # StatusOf(cache[c]) THEN stale \cup {c} ELSE stale
  /\ UNCHANGED <<api, cache, watch, created, succeeded, panicked>>

Healthy(c, statuses) == UNCHANGED faults /\ \E s \in statuses : Finish(c, s)

Unhealthy(c, statuses) == Fault /\ \E s \in statuses : Finish(c, s)

\* The operator group is missing or ambiguous or does not fit, or its
\* provided APIs conflict with another group's: whatever the phase is.
SyncGroup(c) ==
  /\ Transition(c)
  /\ \/ Unhealthy(c, {S("Failed", "OperatorGroup")})
     \/ /\ cache[c].meta = "member"
        /\ Unhealthy(c, {S("Failed", "ProvidedAPIs")})

SyncNone(c) ==
  /\ InPhase(c, "None")
  /\ Healthy(c, {S("Pending", "Other")})


\* The predecessor must be Replacing, or gone, before c is installed.
ReadyToReplace(c) ==
  \E p \in IsReplacing(c) : p # NoCSV => api[p].phase = "Replacing"

SyncPending(c) ==
  /\ InPhase(c, "Pending")
  /\ \/ ReadyToReplace(c) /\ Healthy(c, {S("InstallReady", "Other")})
     \/ Unhealthy(c, {S("Failed", "InvalidStrategy"), S("Failed", "Other")})

SyncInstallReady(c) ==
  /\ InPhase(c, "InstallReady")
  /\ \/ Healthy(c, {S("Installing", "Other")})
     \/ Unhealthy(c, {S("Failed", "InvalidStrategy"), S("Failed", "Other"),
                      S("Failed", "ComponentFailedNoRetry")})

\* The outcomes of updateInstallStatus other than Succeeded.
NotInstalled(requeuePhase) ==
  {S("Failed", "Other"), S("InstallReady", "Other"), S(requeuePhase, "Other")}

SyncInstalling(c) ==
  /\ InPhase(c, "Installing")
  /\ \/ Healthy(c, {S("Succeeded", "Other")})
     \/ Unhealthy(c, NotInstalled("Installing")
                     \cup {S("Pending", "Other"), S("Failed", "InvalidStrategy")})

\* checkReplacementsAndUpdateStatus comes first.
SyncSucceeded(c) ==
  /\ InPhase(c, "Succeeded")
  /\ \E next \in IsBeingReplaced(c) :
       \/ next # NoCSV /\ Healthy(c, {S("Replacing", "Other")})
       \/ next = NoCSV /\ Unhealthy(c, NotInstalled("Failed")
                            \cup {S("Pending", "Other"), S("Failed", "InvalidStrategy")})

\* Fail-forward lets a replacement take over; otherwise the causes of the
\* failure are checked again.
SyncFailed(c) ==
  /\ InPhase(c, "Failed")
  /\ \E next \in IsBeingReplaced(c) :
       \/ FailForward /\ next # NoCSV /\ Healthy(c, {S("Replacing", "Other")})
       \/ /\ ~FailForward \/ next = NoCSV
          /\ \/ Unhealthy(c, {S("Failed", "InvalidStrategy")})
             \/ /\ cache[c].reason \in {"OperatorGroup", "ProvidedAPIs"}
                /\ Healthy(c, {S("Pending", "Other")})
             \/ /\ cache[c].reason \in {"InvalidStrategy", "Other"}
                /\ \/ Healthy(c, {S("Succeeded", "Other"), S("Pending", "Other"),
                                  S("InstallReady", "Other")})
                   \/ Unhealthy(c, {S("Failed", "Other")})

\* Mutant: under fail-forward too only the direct replacement counts.
NewestDirect(next) == {next}

\* The CSV whose success allows c to be collected: the replacement of c, or
\* under fail-forward the newest CSV of the chain that starts there.
Newest(next) == IF FailForward THEN ChainEnds(next) ELSE {next}

\* Mutant: an intermediate CSV of a chain is collected too.
SyncReplacingAny(c) ==
  /\ InPhase(c, "Replacing")
  /\ \E next \in IsBeingReplaced(c) :
       \/ /\ next # NoCSV
          /\ \E last \in Newest(next) : cache[last].phase = "Succeeded"
          /\ Healthy(c, {S("Deleting", "Other")})
       \/ /\ next = NoCSV /\ FailForward
          /\ panicked' = TRUE
          /\ UNCHANGED <<api, cache, watch, out, stale, created, succeeded, faults>>

\* Mutant: the replacement need not have succeeded.
SyncReplacingEager(c) ==
  /\ InPhase(c, "Replacing")
  /\ NoCSV \in IsReplacing(c)
  /\ \E next \in IsBeingReplaced(c) :
       next # NoCSV /\ Healthy(c, {S("Deleting", "Other")})

\* Only the earliest CSV of a chain is collected.  Under fail-forward the
\* code reads the namespace of the replacement before it knows there is one.
SyncReplacing(c) ==
  /\ InPhase(c, "Replacing")
  /\ NoCSV \in IsReplacing(c)
  /\ \E next \in IsBeingReplaced(c) :
       \/ /\ next # NoCSV
          /\ \E last \in Newest(next) : cache[last].phase = "Succeeded"
          /\ Healthy(c, {S("Deleting", "Other")})
       \/ /\ next = NoCSV /\ FailForward
          /\ panicked' = TRUE
          /\ UNCHANGED <<api, cache, watch, out, stale, created, succeeded, faults>>

\* The Delete call names the CSV and carries no resourceVersion.
SyncDeleting(c) ==
  /\ InPhase(c, "Deleting")
  /\ Exists(api, c) /\ ~api[c].del
  /\ Store(c, Deleted(api[c]))
  /\ UNCHANGED <<cache, out, stale, created, succeeded, faults, panicked>>

\* The write that ends a sync: a conflict, a CSV that is gone or an error of
\* the API server loses it.
UpdateStatus(c) ==
  /\ ~panicked
  /\ c \in InFlight
  /\ \/ /\ c \notin stale
        /\ Store(c, WithStatus(api[c], out[c]))
        /\ succeeded' = IF out[c].phase = "Succeeded" THEN succeeded \cup {c} ELSE succeeded
        /\ UNCHANGED faults
     \/ /\ c \in stale
        /\ UNCHANGED <<api, watch, succeeded, faults>>
     \/ /\ UpdateErrors /\ Fault
        /\ UNCHANGED <<api, watch, succeeded>>
  /\ out' = [out EXCEPT ![c] = NoStatus]
  /\ stale' = stale \ {c}
  /\ UNCHANGED <<cache, created, panicked>>

\* syncObject on a role, role binding or service account, and the operator
\* group sync when the service account changed: CSVs that failed for want of
\* permissions start again.
DetectedClusterChange(c) ==
  /\ ~panicked
  /\ Exists(cache, c) /\ cache[c].reason = "ComponentFailedNoRetry"
  /\ ~Behind(c)
  /\ Store(c, WithStatus(api[c], S("Pending", "Other")))
  /\ stale' = stale \cup ({c} \cap InFlight)
  /\ UNCHANGED <<cache, out, created, succeeded, faults, panicked>>

-----------------------------------------------------------------------------

Sync(c) ==
  \/ AddFinalizer(c) \/ RemoveFinalizer(c) \/ Annotate(c)
  \/ SyncGroup(c)
  \/ SyncNone(c) \/ SyncPending(c) \/ SyncInstallReady(c) \/ SyncInstalling(c)
  \/ SyncSucceeded(c) \/ SyncFailed(c) \/ SyncReplacing(c) \/ SyncDeleting(c)

Next ==
  \/ \E c \in CSVs : Create(c) \/ UserDelete(c) \/ DetectedClusterChange(c)
  \/ \E c \in CSVs : Sync(c) \/ UpdateStatus(c)
  \/ Deliver
  \/ Restart

Spec == Init /\ [][Next]_vars

\* The informer keeps receiving, every CSV of the cache is synced again and
\* again (events, requeues, resync period), and started syncs end.
FairSpec ==
  /\ Spec
  /\ WF_vars(Deliver)
  /\ \A c \in CSVs : WF_vars(Sync(c)) /\ WF_vars(UpdateStatus(c))

-----------------------------------------------------------------------------
(* Properties *)

\* The CSVs that replace c, directly or through others.
Later(c) == Closure({d \in CSVs : Replaces[d] = c}, CSVs)

\* c is gone, or is on its way out.
Leaving(c) == ~Exists(api, c) \/ api[c].del \/ api[c].phase = "Deleting"

\* Chains are collected from their oldest end: a CSV that has gone, is being
\* deleted or is marked Deleting has no predecessor left, however old the
\* cache was that the syncs worked from ("marking an intermediate for
\* deletion will break the replacement chain").
OldestFirst ==
  \A c \in created :
    Replaces[c] # NoCSV /\ Leaving(c) => ~Exists(api, Replaces[c])

\* A CSV that is being replaced or collected still has its replacement in the
\* cluster, so that the chain from it to the newest version is unbroken.
ChainUnbroken ==
  \A c \in CSVs :
    Exists(api, c) /\ (api[c].phase \in {"Replacing", "Deleting"} \/ api[c].del)
      => Replacements(api, c) # {}

\* A CSV is collected only after a version that replaces it has run: the
\* operator is never taken away in favour of versions that never came up.
CollectedAfterSuccess ==
  \A c \in created : Leaving(c) => Later(c) \cap succeeded # {}

\* What users see of a chain: each CSV is not there yet, there, or gone.
Stage ==
  [c \in CSVs |-> IF c \notin created THEN "unborn"
                  ELSE IF Exists(api, c) THEN "live" ELSE "gone"]

Chain == INSTANCE ReplacementChain WITH stage <- Stage, proven <- succeeded

\* The control loop, with its lagging cache, its lost writes and its restarts,
\* does to a chain only what the abstract specification allows: release
\* newer versions, and collect the oldest once a later one has run.
ImplementsChain == Chain!Spec

\* The sync of a Replacing CSV finds its replacement in the cache.
NoPanic == ~panicked

\* The upgrade strategy decides which CSVs may be replaced: Succeeded ones,
\* and under fail-forward Failed ones too, whatever happened between the read
\* of the phase and the write of Replacing.
ReplacedOnlyFrom(c) ==
  api'[c].phase = "Replacing" /\ api[c].phase # "Replacing"
    => api[c].phase \in {"Succeeded"} \cup (IF FailForward THEN {"Failed"} ELSE {})

UpgradeStrategy == [][\A c \in CSVs : ReplacedOnlyFrom(c)]_vars

\* The version c replaces is gone or on its way out, or is Replacing, or a check
\* of its operator group has taken it out of Replacing for a while.
HandedOver(c) ==
  LET p == Replaces[c]
  IN p # NoCSV => \/ Leaving(p)
                  \/ api[p].phase = "Replacing"
                  \/ api[p].phase = "Failed" /\ api[p].reason \in {"OperatorGroup", "ProvidedAPIs"}


\* An upgrade ends: a CSV that is being replaced is eventually collected,
\* unless some CSV failed in the way that waits for an administrator.
UpgradeCompletes ==
  \A c \in CSVs :
    api[c].phase = "Replacing"
      ~> \/ ~Exists(api, c)
         \/ \E d \in CSVs : api[d].reason = "ComponentFailedNoRetry"

\* A CSV that is being deleted "will disappear soon", once its finalizer has
\* cleaned up.
DeletedDisappears == \A c \in CSVs : api[c].del ~> ~Exists(api, c)

\* Under fail-forward a Failed CSV that has a replacement moves on: it does
\* not stay Failed.
FailedMovesForward ==
  \A c \in CSVs :
    api[c].phase = "Failed" /\ Replacements(api, c) # {} ~> api[c].phase # "Failed"

\* The documented control loop leaves Replacing only for Deleting: a version
\* that is being replaced is not brought back to life.
ReplacedForGood ==
  [][\A c \in CSVs : api[c].phase = "Replacing"
       => api'[c].phase \in {"Replacing", "Deleting", "Absent"}]_vars

=============================================================================
