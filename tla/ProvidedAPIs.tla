---------------------------- MODULE ProvidedAPIs ----------------------------
(***************************************************************************)
(* Who owns an API: the protocol by which OperatorGroups claim the APIs    *)
(* their ClusterServiceVersions provide.  A claim is an annotation on the  *)
(* group, olm.providedAPIs.  A CSV that syncs compares the claims of every *)
(* group whose target namespaces meet those of its own group and claims    *)
(* its APIs, gives its claim back, fails with                              *)
(* InterOperatorGroupOwnerConflict, or goes on                             *)
(* (transitionCSVState, ReconcileAPIIntersection).  A group that syncs     *)
(* publishes its target namespaces, annotates its CSVs with them, requeues *)
(* every provider of its APIs and prunes the claims nothing provides       *)
(* (syncOperatorGroups).                                                   *)
(*                                                                         *)
(* The claims of two groups are two objects: nothing is locked, and both   *)
(* sides read them from listers that lag behind the cluster.  A write      *)
(* carries the resource version the writer read, so it fails when its own  *)
(* object has changed, and may fail for other reasons.                     *)
(*                                                                         *)
(* syncOperatorGroups is handed the lister's own object and changes it in  *)
(* place before it calls the API: the lister keeps a change that was never *)
(* stored, until a newer version arrives.                                  *)
(*                                                                         *)
(* A namespace is named by the group in it: a group owns its namespace     *)
(* alone, and a CSV's group is the one of its namespace.                   *)
(***************************************************************************)
EXTENDS Naturals, FiniteSets

CONSTANTS
    Groups,      \* OperatorGroups, and the namespaces they are in
    CSVs,        \* ClusterServiceVersions (not copied)
    APIs,        \* the APIs CSVs provide
    GroupOf,     \* the group in whose namespace a CSV lives
    Provides,    \* the APIs a CSV owns, a nonempty set
    Namespaces,  \* namespaces; every group's own is one of them
    All,         \* the "" of status.namespaces, every namespace
    Selections,  \* the target sets each group's spec may select
    StaticGroups, \* groups whose provided APIs users may have made static
    MaxChanges,  \* how often users create or delete a CSV
    MaxResizes,  \* how often they change a group's selection
    MaxFaults    \* how many syncs run while a lister is behind, and calls fail

ASSUME APIsAssumption ==
    /\ GroupOf \in [CSVs -> Groups]
    /\ Provides \in [CSVs -> (SUBSET APIs) \ {{}}]
    /\ Groups \subseteq Namespaces
    /\ All \notin Namespaces
    /\ Selections \in [Groups -> SUBSET (((SUBSET Namespaces) \cup {{All}}) \ {{}})]
    /\ StaticGroups \subseteq Groups
    /\ Groups \cap CSVs = {}
    /\ {MaxChanges, MaxResizes, MaxFaults} \subseteq Nat

VARIABLES
    og,        \* the groups: [spec, status, provided]
    ogCache,   \* what the OperatorGroup lister holds of them
    csv,       \* the CSVs: [exists, ann, phase]; ann is {} until annotated
    csvCache,  \* what the CSV lister holds of them
    fresh,     \* the objects whose lister entry is the latest version
    static,    \* the groups with spec.staticProvidedAPIs
    deployed,  \* the CSVs whose deployments exist
    csvQueue,  \* keys waiting in the csv queue
    ogQueue,   \* keys waiting in the OperatorGroup queue
    pruning,   \* per group: the sync that has still to prune, or Idle
    changes, resizes, lag, faults

vars == <<og, ogCache, csv, csvCache, fresh, static, deployed, csvQueue, ogQueue,
          pruning, changes, resizes, lag, faults>>

Phases == {"None", "Pending", "Running", "Conflict", "Static"}

\* A sync of a group between its requeues and its prune: the claims and the
\* CSVs it read, those of them that were not checked yet, whether the version of
\* the group it read is still the latest, and still the lister's object.
Prunes == [provided : SUBSET APIs, csvs : SUBSET CSVs, unchecked : SUBSET CSVs,
           current : BOOLEAN, held : BOOLEAN]
Idle == [provided |-> {}, csvs |-> {}, unchecked |-> {}, current |-> FALSE, held |-> FALSE,
         idle |-> TRUE]

Group == [spec : UNION {Selections[g] : g \in Groups}, status : SUBSET (Namespaces \cup {All}), provided : SUBSET APIs]
CSV == [exists : BOOLEAN, ann : SUBSET (Namespaces \cup {All}), phase : Phases]

NoCSV == [exists |-> FALSE, ann |-> {}, phase |-> "None"]
NewCSV == [NoCSV EXCEPT !.exists = TRUE]

-----------------------------------------------------------------------------
\* NamespaceSet: the one-element set of "" stands for every namespace.

IsAllNamespaces(n) == n = {All}

Intersection(n, m) ==
    IF IsAllNamespaces(n) THEN m ELSE IF IsAllNamespaces(m) THEN n ELSE n \cap m

Union(n, m) == IF IsAllNamespaces(n) \/ IsAllNamespaces(m) THEN {All} ELSE n \cup m

\* NewOperatorGroup: the group's own namespace counts as a target, unless the
\* status is still empty or selects every namespace.
Surface(g, group) ==
    [targets |-> IF group.status = {} \/ IsAllNamespaces(group.status)
                 THEN group.status
                 ELSE group.status \cup {g},
     provided |-> group.provided]

GroupIntersection(g, groups) ==
    {h \in Groups \ {g} :
        Intersection(Surface(g, groups[g]).targets, Surface(h, groups[h]).targets) # {}}

\* Mutants: the claims of other groups do not count; the claim of the newcomer
\* wins.
ReconcileAlone(add, g, groups) ==
    IF add \subseteq groups[g].provided THEN "NoAPIConflict" ELSE "AddAPIs"

ReconcileTakingOver(add, g, groups) ==
    LET claimed == UNION {groups[h].provided : h \in GroupIntersection(g, groups)}
        intersecting == add \cap claimed # {}
        subset == add \subseteq groups[g].provided
    IN  CASE subset /\ intersecting -> "APIConflict"
          [] ~subset -> "AddAPIs"
          [] OTHER -> "NoAPIConflict"

ReconcileAPIIntersection(add, g, groups) ==
    LET claimed == UNION {groups[h].provided : h \in GroupIntersection(g, groups)}
        intersecting == add \cap claimed # {}
        subset == add \subseteq groups[g].provided
    IN  CASE subset /\ intersecting -> "RemoveAPIs"
          [] ~subset /\ intersecting -> "APIConflict"
          [] ~subset /\ ~intersecting -> "AddAPIs"
          [] OTHER -> "NoAPIConflict"

-----------------------------------------------------------------------------
\* The operator starts; its informers list the cluster and queue what they found.
Init ==
    /\ static \in SUBSET StaticGroups
    /\ og \in [Groups -> Group]
    /\ \A g \in Groups : /\ og[g].spec \in Selections[g] /\ og[g].status = og[g].spec
                         /\ g \notin static => og[g].provided = {}
    /\ ogCache = og
    /\ csv \in [CSVs -> {NoCSV, NewCSV}]
    /\ csvCache = csv
    /\ fresh = Groups \cup CSVs
    /\ deployed = {}
    /\ csvQueue = {c \in CSVs : csv[c].exists}
    /\ ogQueue = Groups
    /\ pruning = [g \in Groups |-> Idle]
    /\ changes = 0 /\ resizes = 0 /\ lag = 0 /\ faults = 0

-----------------------------------------------------------------------------
(***************************************************************************)
(* Writes.  An Update carries the version its author read: it takes effect *)
(* when that is still the latest, and otherwise the key is retried.  It    *)
(* leaves the status alone, and UpdateStatus all the rest.  A call that    *)
(* fails before anything changed, and is retried, is a stuttering step.    *)
(***************************************************************************)

\* A new version of group g: the lister is behind, and so is a running sync.
WriteGroup(g, group) ==
    /\ og' = [og EXCEPT ![g] = group]
    /\ fresh' = fresh \ {g}
    /\ pruning' = [pruning EXCEPT ![g].current = FALSE]

WriteCSV(c, object) ==
    /\ csv' = [csv EXCEPT ![c] = object]
    /\ fresh' = fresh \ {c}

\* A sync reads its listers, which may be behind.
ReadListers ==
    /\ fresh = Groups \cup CSVs \/ lag + faults < MaxFaults
    /\ lag' = IF fresh = Groups \cup CSVs THEN lag ELSE lag + 1

\* The step made a call that failed for another reason than its version.
Failed(failed) ==
    /\ failed => lag' + faults < MaxFaults
    /\ faults' = IF failed THEN faults + 1 ELSE faults

-----------------------------------------------------------------------------
(***************************************************************************)
(* syncClusterServiceVersion and transitionCSVState                        *)
(***************************************************************************)

Dequeue(c) == /\ c \in csvQueue
              /\ ReadListers

\* The CSV is gone from the lister: nothing to do.
SyncDeletedCSV(c) ==
    /\ Dequeue(c)
    /\ ~csvCache[c].exists
    /\ csvQueue' = csvQueue \ {c}
    /\ UNCHANGED <<og, ogCache, csv, csvCache, fresh, static, deployed, ogQueue, pruning,
                   changes, resizes, faults>>

\* operatorGroupForCSV: the annotation is not the group's targets.  It is
\* written (unless the group has no targets yet), the group is requeued, and
\* the sync ends there.
AnnotationsDiffer(c) == csvCache[c].ann = {} \/ csvCache[c].ann # ogCache[GroupOf[c]].status

SetOperatorGroupAnnotations(object, group) ==
    IF group.status = {} THEN object ELSE [object EXCEPT !.ann = group.status]

JoinGroup(c) ==
    LET g == GroupOf[c]
    IN  /\ Dequeue(c)
        /\ csvCache[c].exists
        /\ AnnotationsDiffer(c)
        /\ IF c \in fresh
           THEN /\ IF ogCache[g].status = {} THEN UNCHANGED <<csv, fresh>>
                   ELSE WriteCSV(c, SetOperatorGroupAnnotations(csvCache[c], ogCache[g]))
                /\ csvQueue' = csvQueue \ {c}
                /\ ogQueue' = ogQueue \cup {g}
           ELSE UNCHANGED <<csv, fresh, csvQueue, ogQueue>>
        /\ UNCHANGED <<og, ogCache, csvCache, static, deployed, pruning, changes, resizes, faults>>

\* The CSV is a member of its group; r is what the reconciler says of its APIs.
Reconciles(c, r) ==
    /\ Dequeue(c)
    /\ csvCache[c].exists
    /\ ~AnnotationsDiffer(c)
    /\ ReconcileAPIIntersection(Provides[c], GroupOf[c], ogCache) = r

\* UpdateStatus of the CSV, after its deployments have changed or not: when it
\* fails the key stays queued.
UpdateStatus(c, phase, ok) ==
    \/ /\ phase = csvCache[c].phase /\ ok
       /\ csvQueue' = csvQueue \ {c}
       /\ UNCHANGED <<csv, fresh>>
    \/ /\ phase # csvCache[c].phase /\ ok /\ c \in fresh
       /\ WriteCSV(c, [csvCache[c] EXCEPT !.phase = phase])
       /\ csvQueue' = csvQueue \ {c}
    \/ /\ phase # csvCache[c].phase
       /\ IF ok THEN c \notin fresh ELSE deployed' # deployed
       /\ UNCHANGED <<csv, fresh, csvQueue>>

\* The CSV is failed and its deployments are deleted.  A deletion that fails is
\* only logged, and a CSV that has failed with a conflict is not cleaned up again.
FailAndCleanup(c, reason) ==
    /\ \E ok, deleted \in BOOLEAN :
         /\ ~deleted => ok /\ c \in deployed /\ csvCache[c].phase # "Conflict"
         /\ deployed' = IF deleted /\ csvCache[c].phase # "Conflict" THEN deployed \ {c}
                        ELSE deployed
         /\ UpdateStatus(c, reason, ok)
         /\ Failed(~ok \/ ~deleted)
    /\ UNCHANGED <<og, ogCache, csvCache, static, ogQueue, pruning, changes, resizes>>

APIConflict(c) ==
    /\ Reconciles(c, "APIConflict")
    /\ FailAndCleanup(c, "Conflict")

\* A CSV that has already failed with a conflict keeps that reason.
StaticGroup(c) ==
    /\ GroupOf[c] \in static
    /\ Reconciles(c, "AddAPIs") \/ Reconciles(c, "RemoveAPIs")
    /\ FailAndCleanup(c, IF csvCache[c].phase = "Conflict" THEN "Conflict" ELSE "Static")

\* The claim is written to the group, and the CSV is requeued whether the
\* write succeeds or not.
UpdateProvidedAPIs(c, provided) ==
    LET g == GroupOf[c]
    IN  /\ g \notin static
        /\ IF g \in fresh
           THEN WriteGroup(g, [og[g] EXCEPT !.provided = provided])
           ELSE UNCHANGED <<og, fresh, pruning>>
        /\ UNCHANGED <<ogCache, csv, csvCache, static, deployed, csvQueue, ogQueue, changes, resizes,
                       faults>>

AddAPIs(c) ==
    /\ Reconciles(c, "AddAPIs")
    /\ UpdateProvidedAPIs(c, ogCache[GroupOf[c]].provided \cup Provides[c])

RemoveAPIs(c) ==
    /\ Reconciles(c, "RemoveAPIs")
    /\ UpdateProvidedAPIs(c, ogCache[GroupOf[c]].provided \ Provides[c])

\* No intersecting group claims the APIs and the own group does: the CSV goes
\* on.  A failed one is pending again, a pending one is installed, and one
\* that runs has its deployments restored, before the status is written.
NextPhase(phase) ==
    CASE phase \in {"None", "Conflict", "Static"} -> "Pending"
      [] OTHER -> "Running"

Transition(c) ==
    /\ Reconciles(c, "NoAPIConflict")
    /\ deployed' = IF csvCache[c].phase \in {"Pending", "Running"} /\ csv[c].exists
                   THEN deployed \cup {c}
                   ELSE deployed
    /\ \E ok \in BOOLEAN : UpdateStatus(c, NextPhase(csvCache[c].phase), ok) /\ Failed(~ok)
    /\ UNCHANGED <<og, ogCache, csvCache, static, ogQueue, pruning, changes, resizes>>

SyncCSV(c) ==
    \/ SyncDeletedCSV(c)
    \/ JoinGroup(c)
    \/ APIConflict(c)
    \/ StaticGroup(c)
    \/ AddAPIs(c)
    \/ RemoveAPIs(c)
    \/ Transition(c)

-----------------------------------------------------------------------------
(***************************************************************************)
(* syncOperatorGroups                                                      *)
(***************************************************************************)

DequeueGroup(g) == /\ g \in ogQueue
                   /\ pruning[g] = Idle
                   /\ ReadListers

\* The selection is not the published one: the status is replaced, in the lister's
\* object and then in the cluster, and the sync ends; the event of that write
\* brings the group back.  When the call fails the group is synced again, and the
\* lister's status is the selection by then.
UpdateNamespaces(g) ==
    /\ DequeueGroup(g)
    /\ ogCache[g].spec # ogCache[g].status
    /\ ogCache' = [ogCache EXCEPT ![g].status = ogCache[g].spec]
    /\ \E ok \in BOOLEAN :
         /\ ~ok => g \in fresh
         /\ Failed(~ok)
         /\ IF g \in fresh /\ ok
            THEN /\ WriteGroup(g, [og[g] EXCEPT !.status = ogCache[g].spec])
                 /\ ogQueue' = ogQueue \ {g}
            ELSE UNCHANGED <<og, fresh, pruning, ogQueue>>
    /\ UNCHANGED <<csv, csvCache, static, deployed, csvQueue, changes, resizes>>

Members(g) == {c \in CSVs : GroupOf[c] = g /\ csvCache[c].exists}

\* annotateCSVs requeues a CSV under its own namespace when that was or is a
\* target; with every namespace targeted it requeues nothing, since the branch
\* for that case is taken when listing the namespaces fails.
AnnotateRequeues(g) ==
    {c \in Members(g) :
        LET original == IF csvCache[c].ann = {} THEN {All} ELSE csvCache[c].ann
        IN  g \in Union(original, ogCache[g].spec)}

\* findCSVsThatProvideAnyOf: the providers of what the group claims, and of
\* what its CSVs provide, in every namespace.
Providers(g) ==
    {c \in CSVs :
        /\ csvCache[c].exists
        /\ Provides[c] \cap (ogCache[g].provided \cup UNION {Provides[d] : d \in Members(g)}) # {}}

\* pruneProvidedAPIs does nothing unless the group's APIs are not static and it
\* claims one that none of its CSVs provides.
Prunable(g) ==
    /\ g \notin static
    /\ ~(ogCache[g].provided \subseteq UNION {Provides[c] : c \in Members(g)})

\* The members' annotations are brought up to date.  An update that fails ends
\* the sync with an error; otherwise the providers are requeued, and claims may
\* be left to prune.  When every update is refused nothing changes.
AnnotateCSVs(g) ==
    LET differ == {c \in Members(g) : AnnotationsDiffer(c)}
        read == [provided |-> ogCache[g].provided, csvs |-> Members(g),
                 unchecked |-> {c \in Members(g) : csvCache[c].phase \in {"None", "Pending"}},
                 current |-> g \in fresh, held |-> TRUE]
    IN  /\ DequeueGroup(g)
        /\ ogCache[g].spec = ogCache[g].status
        /\ \E refused \in SUBSET (differ \cap fresh) :
             LET written == {c \in (differ \cap fresh) \ refused : ogCache[g].status # {}}
                 failed == refused \cup {c \in differ \ fresh : csv[c].exists}
             IN  /\ refused = {} \/ refused # Members(g)
                 /\ csv' = [c \in CSVs |->
                             IF c \in written
                             THEN SetOperatorGroupAnnotations(csvCache[c], ogCache[g])
                             ELSE csv[c]]
                 /\ fresh' = fresh \ written
                 /\ Failed(refused # {})
                 /\ IF failed # {}
                    THEN /\ csvQueue' = csvQueue \cup (AnnotateRequeues(g) \ failed)
                         /\ UNCHANGED <<ogQueue, pruning>>
                    ELSE /\ csvQueue' = csvQueue \cup AnnotateRequeues(g) \cup Providers(g)
                         /\ ogQueue' = ogQueue \ {g}
                         /\ pruning' = IF Prunable(g) THEN [pruning EXCEPT ![g] = read]
                                       ELSE pruning
        /\ UNCHANGED <<og, ogCache, csvCache, static, deployed, changes, resizes>>

\* Mutant: claims are never dropped.
PruneNothing(g) ==
    /\ pruning[g] # Idle
    /\ pruning' = [pruning EXCEPT ![g] = Idle]
    /\ UNCHANGED <<og, ogCache, csv, csvCache, fresh, static, deployed, csvQueue, ogQueue,
                   changes, resizes, lag, faults>>

\* providedAPIsFromCSVs: the CSV noted for an API, any one of several.
ProvidedAPIsFromCSVs(csvs) ==
    {noted \in [UNION {Provides[c] : c \in csvs} -> csvs] :
        \A x \in DOMAIN noted : x \in Provides[noted[x]]}

\* pruneProvidedAPIs: claims that no CSV of the group provides are dropped,
\* unless a CSV that was not checked when it was read, and still exists, provides
\* an API the group does not claim.  They are dropped from the object the sync was
\* handed, then from the cluster; a failed update is only logged.
PruneProvidedAPIs(g) ==
    LET p == pruning[g]
    IN  /\ p # Idle
        /\ \E noted \in ProvidedAPIsFromCSVs(p.csvs), ok \in BOOLEAN :
             LET aborts == \E x \in DOMAIN noted \ p.provided :
                             noted[x] \in p.unchecked /\ csvCache[noted[x]].exists
                 provided == p.provided \cap DOMAIN noted
             IN  /\ lag' = lag
                 /\ ~ok => ~aborts /\ p.current
                 /\ Failed(~ok)
                 /\ ogCache' = IF ~aborts /\ p.held THEN [ogCache EXCEPT ![g].provided = provided]
                               ELSE ogCache
                 /\ IF ~aborts /\ p.current /\ ok
                    THEN /\ og' = [og EXCEPT ![g].provided = provided]
                         /\ fresh' = fresh \ {g}
                    ELSE UNCHANGED <<og, fresh>>
        /\ pruning' = [pruning EXCEPT ![g] = Idle]
        /\ UNCHANGED <<csv, csvCache, static, deployed, csvQueue, ogQueue, changes, resizes>>

SyncGroup(g) ==
    \/ UpdateNamespaces(g)
    \/ AnnotateCSVs(g)
    \/ PruneProvidedAPIs(g)

-----------------------------------------------------------------------------
(***************************************************************************)
(* Informers: the lister takes the latest version and the key is queued.   *)
(* The event of a deleted CSV queues its group instead.                    *)
(***************************************************************************)

ObserveGroup(g) ==
    /\ g \notin fresh
    /\ ogCache' = [ogCache EXCEPT ![g] = og[g]]
    /\ fresh' = fresh \cup {g}
    /\ ogQueue' = ogQueue \cup {g}
    /\ pruning' = [pruning EXCEPT ![g].held = FALSE]
    /\ UNCHANGED <<og, csv, csvCache, static, deployed, csvQueue, changes, resizes, lag, faults>>

HandleClusterServiceVersionDeletion(c) ==
    /\ c \notin fresh /\ ~csv[c].exists
    /\ csvCache' = [csvCache EXCEPT ![c] = csv[c]]
    /\ fresh' = fresh \cup {c}
    /\ ogQueue' = ogQueue \cup {GroupOf[c]}
    /\ UNCHANGED <<og, ogCache, csv, static, deployed, csvQueue, pruning, changes, resizes, lag, faults>>

ObserveCSV(c) ==
    /\ c \notin fresh /\ csv[c].exists
    /\ csvCache' = [csvCache EXCEPT ![c] = csv[c]]
    /\ fresh' = fresh \cup {c}
    /\ csvQueue' = csvQueue \cup {c}
    /\ UNCHANGED <<og, ogCache, csv, static, deployed, ogQueue, pruning, changes, resizes, lag, faults>>

\* The periodic resyncs of the informers queue every object they hold.
Resync ==
    /\ ogQueue' = Groups
    /\ csvQueue' = csvQueue \cup {c \in CSVs : csvCache[c].exists}
    /\ UNCHANGED <<og, ogCache, csv, csvCache, fresh, static, deployed, pruning, changes, resizes,
                   lag, faults>>

-----------------------------------------------------------------------------
(***************************************************************************)
(* Users (external)                                                        *)
(***************************************************************************)

Changed == /\ changes < MaxChanges
           /\ changes' = changes + 1

CreateCSV(c) ==
    /\ Changed
    /\ ~csv[c].exists
    /\ c \in fresh
    /\ WriteCSV(c, NewCSV)
    /\ UNCHANGED <<og, ogCache, csvCache, static, deployed, csvQueue, ogQueue, pruning, resizes, lag, faults>>

\* Deployments go with the CSV that owns them.
DeleteCSV(c) ==
    /\ Changed
    /\ csv[c].exists
    /\ WriteCSV(c, NoCSV)
    /\ deployed' = deployed \ {c}
    /\ UNCHANGED <<og, ogCache, csvCache, static, csvQueue, ogQueue, pruning, resizes, lag, faults>>

Resize(g) ==
    /\ resizes < MaxResizes
    /\ resizes' = resizes + 1
    /\ \E selection \in Selections[g] \ {og[g].spec} :
         WriteGroup(g, [og[g] EXCEPT !.spec = selection])
    /\ UNCHANGED <<ogCache, csv, csvCache, static, deployed, csvQueue, ogQueue, changes, lag, faults>>

-----------------------------------------------------------------------------
Observe ==
    \/ \E c \in CSVs : ObserveCSV(c) \/ HandleClusterServiceVersionDeletion(c)
    \/ \E g \in Groups : ObserveGroup(g)

Next ==
    \/ \E c \in CSVs : SyncCSV(c)
    \/ \E g \in Groups : SyncGroup(g)
    \/ Observe \/ Resync
    \/ \E c \in CSVs : CreateCSV(c) \/ DeleteCSV(c)
    \/ \E g \in Groups : Resize(g)

Spec == Init /\ [][Next]_vars

\* Workers serve every queued key, informers deliver every event, and the
\* informers resync for ever.
FairSpec ==
    /\ Spec
    /\ \A c \in CSVs : WF_vars(SyncCSV(c))
    /\ \A g \in Groups : WF_vars(SyncGroup(g))
    /\ WF_vars(Observe) /\ WF_vars(Resync)

-----------------------------------------------------------------------------
\* One invariant on the types of all variables.
TypeOK ==
    /\ og \in [Groups -> Group] /\ ogCache \in [Groups -> Group]
    /\ csv \in [CSVs -> CSV] /\ csvCache \in [CSVs -> CSV]
    /\ fresh \subseteq Groups \cup CSVs
    /\ static \subseteq Groups
    /\ deployed \subseteq CSVs /\ csvQueue \subseteq CSVs /\ ogQueue \subseteq Groups
    /\ pruning \in [Groups -> Prunes \cup {Idle}]
    /\ changes \in 0..MaxChanges /\ resizes \in 0..MaxResizes
    /\ lag \in 0..MaxFaults /\ faults \in 0..MaxFaults

\* The groups with the namespaces they select: the status may never be written
\* (UpdateNamespaces).
Selected == [g \in Groups |-> [og[g] EXCEPT !.status = og[g].spec]]

\* Two CSVs of intersecting groups that provide a common API.
Competing(c, d) ==
    /\ c # d /\ csv[c].exists /\ csv[d].exists
    /\ GroupOf[d] \in GroupIntersection(GroupOf[c], Selected)
    /\ Provides[c] \cap Provides[d] # {}

\* However the claims of two groups race, once users leave the cluster alone
\* two CSVs of intersecting groups that provide the same API do not both keep
\* their deployments (InterOperatorGroupOwnerConflict in transitionCSVState),
\* unless one was failed and deleting its deployment failed as well:
\* cleanupCSVDeployments is not retried.
OneOwner ==
    <>[](\A c, d \in CSVs :
            Competing(c, d) /\ c \in deployed /\ d \in deployed =>
                faults > 0 /\ {csv[c].phase, csv[d].phase} \cap {"Conflict", "Static"} # {})

\* The same without the exception.
OneOwnerAlways ==
    <>[](\A c, d \in CSVs : Competing(c, d) => ~(c \in deployed /\ d \in deployed))

\* A claim on an API of c that keeps c from being installed: one of a static
\* group, or one whose own provider runs.
Blocked(c) ==
    \/ GroupOf[c] \in static /\ ~(Provides[c] \subseteq og[GroupOf[c]].provided)
    \/ \E h \in GroupIntersection(GroupOf[c], Selected) :
          \/ h \in static /\ og[h].provided \cap Provides[c] # {}
          \/ \E d \in CSVs : GroupOf[d] = h /\ Competing(c, d) /\ csv[d].phase = "Running"

\* No API is left without an owner: in the end a CSV runs unless a running
\* competitor, or a static claim, stands in its way.  The loser of a conflict has
\* to be synced again once the winner is gone, and two CSVs that each give way to
\* the other (RemoveAPIs) must not do so for ever.
SomeOwner ==
    <>[](\A c \in CSVs : csv[c].exists =>
            Blocked(c) \/ (csv[c].phase = "Running" /\ c \in deployed))

\* A newcomer never ousts an owner: as long as every lister was up to date at
\* every sync and no group was resized, a CSV whose group claims its APIs, as the
\* lister has it, loses its deployments only by being deleted
\* (ReconcileAPIIntersection fails the CSV whose group does not yet claim the API).
\* The claim itself can be lost: a prune that read the group's CSVs before one of
\* them was created again takes it away.
OwnerKept ==
    [][lag' = 0 /\ resizes = 0 =>
         \A c \in deployed \ deployed' :
             csv'[c].exists => ~(Provides[c] \subseteq ogCache[GroupOf[c]].provided)]_vars

\* A group's status comes to hold the namespaces it selects
\* (UpdateStatus in syncOperatorGroups).
StatusPublished == <>[](\A g \in Groups : og[g].status = og[g].spec)

\* What the comment on the requeue in syncOperatorGroups says: conflicting CSVs
\* are told when their conflict has possibly been resolved.  So when nothing is
\* left to observe and no group is being synced, a CSV that failed with a conflict
\* is queued, or a group still claims one of its APIs, as far as the listers know.
LoserNotified ==
    fresh = Groups \cup CSVs /\ ogQueue = {} /\ (\A g \in Groups : pruning[g] = Idle) =>
        \A c \in CSVs :
            csv[c].phase = "Conflict" /\ GroupOf[c] \notin static =>
                \/ c \in csvQueue
                \/ ReconcileAPIIntersection(Provides[c], GroupOf[c], ogCache) = "APIConflict"
=============================================================================
