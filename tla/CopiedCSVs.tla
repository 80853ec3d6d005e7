----------------------------- MODULE CopiedCSVs -----------------------------
(***************************************************************************)
(* Copied CSVs: a ClusterServiceVersion is copied into the namespaces its  *)
(* OperatorGroup targets.  Four workers of olm-operator take part, each    *)
(* with a queue of its own and all reading listers that lag behind:        *)
(*   syncOperatorGroups         publishes the targets in the status, then  *)
(*                              annotates the CSV with them;               *)
(*   syncClusterServiceVersion  moves the CSV along and queues the copy;   *)
(*   syncCopyCSV                creates and updates copies, and hands      *)
(*                              copies outside the targets to              *)
(*   syncGcCsv                  which deletes a copy its parent no longer  *)
(*                              accounts for.                              *)
(* A cluster-wide OLMConfig may disable copying for groups that target     *)
(* every namespace; syncOLMConfig reports in a condition whether the       *)
(* copies are as they should be, and requeues the CSV when they are not.   *)
(*                                                                         *)
(* The module has one group and one CSV, both in namespace Own.  What the  *)
(* CSV contains is its phase, which a copy repeats.                        *)
(***************************************************************************)
EXTENDS Naturals, FiniteSets

CONSTANTS
    Namespaces,   \* namespaces other than Own
    Own,          \* the namespace of the group and of the CSV
    All,          \* the "" of status.namespaces, every namespace
    Protected,    \* protectedCopiedCSVNamespaces
    Selections,   \* the target sets the group's spec may select
    ProvidesAPIs, \* whether the CSV provides an API
    NoCopy,
    MaxChanges,   \* how often users change the cluster
    MaxFaults     \* how many syncs run while a lister is behind, and API calls fail

Targets == SUBSET (Namespaces \cup {Own}) \cup {{All}}

ASSUME CopiesAssumption ==
    /\ Own \notin Namespaces /\ All \notin Namespaces \cup {Own}
    /\ Protected \subseteq Namespaces \cup {Own}
    /\ Selections \subseteq Targets
    /\ ProvidesAPIs \in BOOLEAN

VARIABLES
    og,        \* the group: [spec, status]
    csv,       \* the CSV: [exists, ann, phase]; ann is {} until annotated
    copies,    \* per namespace, the phase of the copy in it, or NoCopy
    ns,        \* the namespaces that exist
    enabled,   \* olmConfig: copied CSVs are enabled
    condition, \* olmConfig: the reported condition, on [enabled, ok]
    cache,     \* the listers: [og, csv, copies, ns, enabled, condition]
    fresh,     \* the objects whose lister entry is the latest version
    queue,     \* the keys queued, of all queues
    conflict,  \* the CSV's APIs are claimed by another group
    changes, lag, faults

vars == <<og, csv, copies, ns, enabled, condition, cache, fresh, queue, conflict, changes, lag,
          faults>>

Phases == {"None", "Pending", "Succeeded", "Conflict"}
OG == <<"og", Own>>
CSV == <<"csv", Own>>
CopyCSV == <<"csv-copy", Own>>
Config == <<"config", Own>>
Ns == <<"ns", Own>>
Gc(n) == <<"gc", n>>
GcOf(S) == {Gc(n) : n \in S}
Copy(n) == <<"copy", n>>
Objects == {OG, CSV, Ns, Config} \cup {Copy(n) : n \in Namespaces}
Keys == {OG, CSV, CopyCSV, Config} \cup GcOf(Namespaces)

NoCSV == [exists |-> FALSE, ann |-> {}, phase |-> "None"]
NewCSV == [NoCSV EXCEPT !.exists = TRUE]

IsAllNamespaces(set) == set = {All}
Contains(set, n) == IsAllNamespaces(set) \/ n \in set

\* Namespaces in which the lister has a copy.
CachedCopies == {n \in Namespaces : cache.copies[n] # NoCopy}

\* The operator starts; its informers list the cluster and queue what they found.
Init ==
    /\ \E selection \in Selections : og = [spec |-> selection, status |-> selection]
    /\ csv \in {NoCSV, NewCSV}
    /\ copies = [n \in Namespaces |-> NoCopy]
    /\ ns = Namespaces
    /\ enabled = TRUE
    /\ condition = [enabled |-> TRUE, ok |-> TRUE]
    /\ cache = [og |-> og, csv |-> csv, copies |-> copies, ns |-> ns, enabled |-> enabled,
                condition |-> condition]
    /\ fresh = Objects
    /\ queue = {OG, Config} \cup IF csv.exists THEN {CSV} ELSE {}
    /\ conflict = FALSE
    /\ changes = 0 /\ lag = 0 /\ faults = 0

-----------------------------------------------------------------------------
\* A sync of key k reads its listers, which may be behind.
Dequeue(k) ==
    /\ k \in queue
    /\ fresh = Objects \/ lag + faults < MaxFaults
    /\ lag' = IF fresh = Objects THEN lag ELSE lag + 1

\* The outcomes of one API call of a sync: it succeeds or fails.
Call(ok) == \/ ok /\ UNCHANGED faults
            \/ ~ok /\ lag' + faults < MaxFaults /\ faults' = faults + 1

\* An update carries the version the lister held, and is refused when that is
\* not the latest.
Accepts(o, ok) == ok /\ o \in fresh

-----------------------------------------------------------------------------
(***************************************************************************)
(* syncOperatorGroups                                                      *)
(***************************************************************************)

\* The handler works on the lister's own object: the status is replaced there
\* first, and stays there when the call fails.
UpdateNamespaces ==
    /\ Dequeue(OG)
    /\ cache.og.spec # cache.og.status
    /\ cache' = [cache EXCEPT !.og.status = cache.og.spec]
    /\ \E ok \in BOOLEAN :
         /\ Call(ok)
         /\ IF Accepts(OG, ok)
            THEN /\ og' = [og EXCEPT !.status = cache.og.spec]
                 /\ fresh' = fresh \ {OG}
                 /\ queue' = queue \ {OG}
            ELSE UNCHANGED <<og, fresh, queue>>
    /\ UNCHANGED <<csv, copies, ns, enabled, condition, conflict, changes>>

\* setOperatorGroupAnnotations leaves the targets alone when there are none.
Annotated(object) ==
    IF cache.og.status = {} THEN object ELSE [object EXCEPT !.ann = cache.og.status]

AnnotationsDiffer == cache.csv.ann = {} \/ cache.csv.ann # cache.og.status

\* annotateCSVs and the requeue of the providers.  The CSV is requeued under its
\* own namespace if that was or is a target.  With every namespace targeted,
\* annotateCSVs requeues nothing (the branch that would is taken when listing the
\* namespaces fails), and only a CSV that provides an API is requeued.
RequeuesCSV ==
    \/ ProvidesAPIs
    \/ /\ ~IsAllNamespaces(cache.og.spec) /\ cache.csv.ann # {} /\ ~IsAllNamespaces(cache.csv.ann)
       /\ Own \in cache.csv.ann \cup cache.og.spec

AnnotateCSVs ==
    /\ Dequeue(OG)
    /\ cache.og.spec = cache.og.status
    /\ \/ /\ cache.csv.exists /\ AnnotationsDiffer
          /\ \E ok \in BOOLEAN :
               /\ Call(ok)
               /\ IF Accepts(CSV, ok)
                  THEN /\ csv' = Annotated(csv)
                       /\ fresh' = IF csv' = csv THEN fresh ELSE fresh \ {CSV}
                       /\ queue' = (queue \ {OG}) \cup IF RequeuesCSV THEN {CSV} ELSE {}
                  ELSE UNCHANGED <<csv, fresh, queue>>
       \/ /\ cache.csv.exists /\ ~AnnotationsDiffer
          /\ queue' = (queue \ {OG}) \cup IF RequeuesCSV THEN {CSV} ELSE {}
          /\ UNCHANGED <<csv, fresh, faults>>
       \/ /\ ~cache.csv.exists
          /\ queue' = queue \ {OG}
          /\ UNCHANGED <<csv, fresh, faults>>
    /\ UNCHANGED <<og, copies, ns, enabled, condition, cache, conflict, changes>>

-----------------------------------------------------------------------------
(***************************************************************************)
(* syncClusterServiceVersion                                               *)
(***************************************************************************)

\* operatorGroupForCSV writes the annotations and requeues the group.
JoinGroup ==
    /\ Dequeue(CSV)
    /\ cache.csv.exists
    /\ AnnotationsDiffer
    /\ \E ok \in BOOLEAN :
         /\ Call(ok)
         /\ IF Accepts(CSV, ok)
            THEN /\ csv' = Annotated(csv)
                 /\ fresh' = IF csv' = csv THEN fresh ELSE fresh \ {CSV}
                 /\ queue' = (queue \ {CSV}) \cup {OG}
            ELSE UNCHANGED <<csv, fresh, queue>>
    /\ UNCHANGED <<og, copies, ns, enabled, condition, cache, conflict, changes>>

NextPhase(phase) ==
    CASE conflict -> "Conflict"
      [] ~conflict /\ phase \in {"None", "Conflict"} -> "Pending"
      [] OTHER -> "Succeeded"

IsUncopiable(phase) == phase \in {"None", "Conflict"}

\* A member of its group moves on.  The copy is queued with the phase the sync
\* computed, whether or not that could be written; a failed write is retried.
\* A group that targets its own namespace alone queues no copy.
Transition ==
    LET phase == NextPhase(cache.csv.phase)
        copied == IF cache.og.status = {Own} \/ IsUncopiable(phase) THEN {} ELSE {CopyCSV}
    IN  /\ Dequeue(CSV)
        /\ cache.csv.exists
        /\ ~AnnotationsDiffer
        /\ IF phase = cache.csv.phase
           THEN /\ queue' = (queue \ {CSV}) \cup copied
                /\ UNCHANGED <<csv, fresh, faults>>
           ELSE \E ok \in BOOLEAN :
                  /\ Call(ok)
                  /\ IF Accepts(CSV, ok)
                     THEN /\ csv' = [csv EXCEPT !.phase = phase]
                          /\ fresh' = fresh \ {CSV}
                          /\ queue' = (queue \ {CSV}) \cup copied
                     ELSE /\ queue' = queue \cup copied
                          /\ UNCHANGED <<csv, fresh>>
        /\ UNCHANGED <<og, copies, ns, enabled, condition, cache, conflict, changes>>

\* A key whose object the lister no longer holds is dropped.
SyncMissing(k) ==
    /\ k \in {CSV, CopyCSV}
    /\ Dequeue(k)
    /\ ~cache.csv.exists
    /\ queue' = queue \ {k}
    /\ UNCHANGED <<og, csv, copies, ns, enabled, condition, cache, fresh, conflict, changes, faults>>

-----------------------------------------------------------------------------
(***************************************************************************)
(* syncCopyCSV                                                             *)
(***************************************************************************)

\* copyToNamespace: a copy the lister does not hold is created and then given
\* its status, one it holds is updated.
CanCopy(n) ==
    /\ n \in ns
    /\ IF n \in CachedCopies THEN Copy(n) \in fresh ELSE copies[n] = NoCopy

\* The namespaces a copy goes to.
Wanted(targets) == {n \in cache.ns : Contains(targets, n)}

\* ensureCSVsInNamespaces: the copies once the sync has gone through the
\* namespaces.  Copying to a namespace may fail, by a refused or failing call,
\* and in some of them (half) between the creation and the status.  Failures
\* are logged and leave the other namespaces alone.
Copied(targets, failing) == {n \in Wanted(targets) \ failing : CanCopy(n)}

EnsureCSVsInNamespaces(targets, failing, half) ==
    [n \in Namespaces |->
        CASE n \in Copied(targets, failing) -> cache.csv.phase
          [] n \in half /\ CanCopy(n) -> "None"
          [] OTHER -> copies[n]]

\* Where copying may fail.
Failing(targets) ==
    {f \in (SUBSET Wanted(targets)) \X (SUBSET Wanted(targets)) : f[2] \subseteq f[1] \ CachedCopies}

Failed(count) == /\ count + lag' + faults <= MaxFaults
                 /\ faults' = faults + count

\* Namespaces whose copies the sync hands to the garbage collector.
Pruned(targets) == {n \in cache.ns \cap CachedCopies : ~Contains(targets, n)}

Written == {Copy(n) : n \in {m \in Namespaces : copies'[m] # copies[m]}}

\* The CSV is not annotated with what the lister holds of the group, or the
\* OLMConfig could not be read: an error, so the key is retried.
CopyNotReady ==
    /\ Dequeue(CopyCSV)
    /\ cache.csv.exists
    /\ \E ok \in BOOLEAN : Call(ok) /\ (AnnotationsDiffer \/ ~ok)
    /\ queue' = queue \cup {Config}
    /\ UNCHANGED <<og, csv, copies, ns, enabled, condition, cache, fresh, conflict, changes>>

\* The sync ends in an error, after the copying, if a target lacks permissions
\* and got no copy to own them.  It also does if the own namespace lacks them, if
\* they cannot be read or created, or if old events cannot be removed; these are
\* faults, since the queue gives a key up after eight retries.
CopyToTargets ==
    LET targets == cache.og.status
    IN  /\ Dequeue(CopyCSV)
        /\ cache.csv.exists
        /\ ~AnnotationsDiffer
        /\ enabled \/ ~IsAllNamespaces(targets)
        /\ \E f \in Failing(targets), retry \in BOOLEAN :
             LET lacking == (targets \ {All, Own}) \ Copied(targets, f[1])
             IN  /\ Failed(Cardinality(f[1]) + IF retry /\ lacking = {} THEN 1 ELSE 0)
                 /\ copies' = EnsureCSVsInNamespaces(targets, f[1], f[2])
                 /\ queue' = (queue \ IF retry THEN {} ELSE {CopyCSV})
                               \cup {Config} \cup GcOf(Pruned(targets))
        /\ fresh' = fresh \ Written
        /\ UNCHANGED <<og, csv, ns, enabled, condition, cache, conflict, changes>>

\* Copying is disabled and the group targets every namespace: the protected
\* namespaces get their copies, and the copies the lister holds elsewhere are
\* deleted.  A deletion that fails is an error, and the rest are kept; writing
\* the event that follows may fail too.
CopyToProtected ==
    LET unprotected == CachedCopies \ Protected
        targets == Protected \ {Own}
    IN  /\ Dequeue(CopyCSV)
        /\ cache.csv.exists
        /\ ~AnnotationsDiffer
        /\ ~enabled /\ IsAllNamespaces(cache.og.status)
        /\ \E f \in Failing(targets), kept \in SUBSET unprotected, retry \in BOOLEAN :
             /\ kept # {} => retry
             /\ Failed(Cardinality(f[1]) + IF retry THEN 1 ELSE 0)
             /\ copies' = [n \in Namespaces |->
                             IF n \in unprotected \ kept THEN NoCopy
                             ELSE EnsureCSVsInNamespaces(targets, f[1], f[2])[n]]
             /\ queue' = (queue \ IF retry THEN {} ELSE {CopyCSV})
                           \cup {Config} \cup GcOf(Pruned(targets))
        /\ fresh' = fresh \ Written
        /\ UNCHANGED <<og, csv, ns, enabled, condition, cache, conflict, changes>>

-----------------------------------------------------------------------------
(***************************************************************************)
(* syncGcCsv: removeDanglingChildCSVs                                      *)
(***************************************************************************)

\* Mutant: the parent's targets are not consulted.
DanglingUntargeted(n) == ~cache.csv.exists \/ cache.csv.phase = "Conflict"

Dangling(n) ==
    \/ ~cache.csv.exists
    \/ cache.csv.phase = "Conflict"
    \/ ~Contains(IF cache.csv.ann = {} THEN {All} ELSE cache.csv.ann, n)

\* A deletion that fails, for want of a copy too, is retried; the key is dropped
\* once the lister holds no copy.
GcKept(n) ==
    /\ Dequeue(Gc(n))
    /\ n \notin CachedCopies \/ ~Dangling(n)
    /\ queue' = queue \ {Gc(n)}
    /\ UNCHANGED <<og, csv, copies, ns, enabled, condition, cache, fresh, conflict, changes, faults>>

GcDeleted(n) ==
    /\ Dequeue(Gc(n))
    /\ n \in CachedCopies /\ Dangling(n)
    /\ \E ok \in BOOLEAN :
         /\ Call(ok)
         /\ IF ok /\ copies[n] # NoCopy
            THEN /\ copies' = [copies EXCEPT ![n] = NoCopy]
                 /\ fresh' = fresh \ {Copy(n)}
                 /\ queue' = queue \ {Gc(n)}
            ELSE UNCHANGED <<copies, fresh, queue>>
    /\ UNCHANGED <<og, csv, ns, enabled, condition, cache, conflict, changes>>

-----------------------------------------------------------------------------
(***************************************************************************)
(* syncOLMConfig                                                           *)
(***************************************************************************)

\* Mutant: every copy is unexpected while copying is disabled.
CopiesCounted(held) ==
    Cardinality(held) = IF cache.enabled THEN Cardinality(cache.ns) ELSE 0

\* getCopiedCSVEvaluatorFunc: the copies are counted when copying is enabled,
\* and compared with the protected namespaces when it is disabled.
CopiesAsExpected(held) ==
    IF cache.enabled
    THEN Cardinality(held) = Cardinality(cache.ns)
    ELSE held = Protected

\* getCopiedCSVsCondition is written when it is not the one the lister holds.  It
\* is set in the lister's own object before the call, and stays there when the
\* call fails: the retry then finds nothing to write.
SyncOLMConfig ==
    LET requeued == /\ IsAllNamespaces(cache.og.status) /\ cache.csv.exists
                    /\ ~CopiesAsExpected(CachedCopies)
        requeues == IF requeued THEN {CSV} ELSE {}
        found == [enabled |-> cache.enabled, ok |-> ~requeued]
    IN  /\ Dequeue(Config)
        /\ IF found = cache.condition
           THEN /\ queue' = (queue \ {Config}) \cup requeues
                /\ UNCHANGED <<condition, cache, fresh, faults>>
           ELSE \E ok \in BOOLEAN :
                  /\ Call(ok)
                  /\ cache' = [cache EXCEPT !.condition = found]
                  /\ IF Accepts(Config, ok)
                     THEN /\ condition' = found
                          /\ fresh' = fresh \ {Config}
                          /\ queue' = (queue \ {Config}) \cup requeues
                     ELSE /\ queue' = queue \cup requeues
                          /\ UNCHANGED <<condition, fresh>>
        /\ UNCHANGED <<og, csv, copies, ns, enabled, conflict, changes>>

-----------------------------------------------------------------------------
(***************************************************************************)
(* Informers                                                               *)
(***************************************************************************)

\* The lister takes the latest version of o, and the event queues the keys.
Observed(o, keys) ==
    /\ o \notin fresh
    /\ fresh' = fresh \cup {o}
    /\ queue' = queue \cup keys
    /\ UNCHANGED <<og, csv, copies, ns, enabled, condition, conflict, changes, lag, faults>>

ObserveGroup == /\ Observed(OG, {OG})
                /\ cache' = [cache EXCEPT !.og = og]

ObserveCSV == /\ csv.exists
              /\ Observed(CSV, {CSV})
              /\ cache' = [cache EXCEPT !.csv = csv]

\* The children in the targets of the deleted CSV, as the lister last held them,
\* are queued for collection: in every namespace if it targeted all.
HandleClusterServiceVersionDeletion ==
    LET targets == cache.csv.ann
    IN  /\ ~csv.exists
        /\ Observed(CSV, {OG} \cup GcOf(IF IsAllNamespaces(targets) THEN ns
                                            ELSE targets \cap Namespaces))
        /\ cache' = [cache EXCEPT !.csv = csv]

ObserveCopy(n) == /\ Observed(Copy(n), IF copies[n] = NoCopy THEN {} ELSE {Gc(n)})
                  /\ cache' = [cache EXCEPT !.copies[n] = copies[n]]

\* namespaceAddedOrRemoved requeues the group if its published targets contain a
\* namespace that came or went.
ObserveNamespaces ==
    LET changed == (ns \ cache.ns) \cup (cache.ns \ ns)
    IN  /\ Observed(Ns, {k \in {OG} : \E n \in changed : Contains(cache.og.status, n)})
        /\ cache' = [cache EXCEPT !.ns = ns]

ObserveOLMConfig == /\ Observed(Config, {Config})
                    /\ cache' = [cache EXCEPT !.enabled = enabled, !.condition = condition]

\* The periodic resyncs of the informers queue what they hold.
Resync ==
    /\ queue' = queue \cup {OG, Config} \cup GcOf(CachedCopies)
                      \cup IF cache.csv.exists THEN {CSV} ELSE {}
    /\ UNCHANGED <<og, csv, copies, ns, enabled, condition, cache, fresh, conflict, changes, lag,
                   faults>>

-----------------------------------------------------------------------------
(***************************************************************************)
(* Users and the rest of the cluster (external)                            *)
(***************************************************************************)

Changed == /\ changes < MaxChanges
           /\ changes' = changes + 1

CreateCSV ==
    /\ Changed
    /\ ~csv.exists /\ CSV \in fresh
    /\ csv' = NewCSV
    /\ fresh' = fresh \ {CSV}
    /\ UNCHANGED <<og, copies, ns, enabled, condition, cache, queue, conflict, lag, faults>>

DeleteCSV ==
    /\ Changed
    /\ csv.exists
    /\ csv' = NoCSV
    /\ fresh' = fresh \ {CSV}
    /\ UNCHANGED <<og, copies, ns, enabled, condition, cache, queue, conflict, lag, faults>>

Resize ==
    /\ Changed
    /\ \E selection \in Selections \ {og.spec} : og' = [og EXCEPT !.spec = selection]
    /\ fresh' = fresh \ {OG}
    /\ UNCHANGED <<csv, copies, ns, enabled, condition, cache, queue, conflict, lag, faults>>

\* The copy in a deleted namespace goes with it.
ChangeNamespace(n) ==
    /\ Changed
    /\ \/ n \in ns /\ ns' = ns \ {n} /\ copies' = [copies EXCEPT ![n] = NoCopy]
       \/ n \notin ns /\ ns' = ns \cup {n} /\ UNCHANGED copies
    /\ fresh' = fresh \ ({Ns} \cup Written)
    /\ UNCHANGED <<og, csv, enabled, condition, cache, queue, conflict, lag, faults>>

SetEnabled ==
    /\ Changed
    /\ enabled' = ~enabled
    /\ fresh' = fresh \ {Config}
    /\ UNCHANGED <<og, csv, copies, ns, condition, cache, queue, conflict, lag, faults>>

\* The conflict comes and goes with another group's claims, which requeue the CSV.
SetConflict ==
    /\ Changed
    /\ conflict' = ~conflict
    /\ queue' = queue \cup {CSV}
    /\ UNCHANGED <<og, csv, copies, ns, enabled, condition, cache, fresh, lag, faults>>

-----------------------------------------------------------------------------
SyncGroup == UpdateNamespaces \/ AnnotateCSVs
SyncCSV == JoinGroup \/ Transition \/ SyncMissing(CSV)
SyncCopy == CopyNotReady \/ CopyToTargets \/ CopyToProtected \/ SyncMissing(CopyCSV)
SyncGc(n) == GcKept(n) \/ GcDeleted(n)
Observe == \/ ObserveGroup \/ ObserveCSV \/ HandleClusterServiceVersionDeletion
           \/ ObserveNamespaces \/ ObserveOLMConfig
           \/ \E n \in Namespaces : ObserveCopy(n)
User == \/ CreateCSV \/ DeleteCSV \/ Resize \/ SetEnabled \/ SetConflict
        \/ \E n \in Namespaces : ChangeNamespace(n)

Next == \/ SyncGroup \/ SyncCSV \/ SyncCopy \/ SyncOLMConfig
        \/ \E n \in Namespaces : SyncGc(n)
        \/ Observe \/ Resync \/ User

Spec == Init /\ [][Next]_vars

\* Every queue has a worker that serves it, every event is delivered in the end,
\* and the informers resync for ever.
FairSpec ==
    /\ Spec
    /\ WF_vars(Observe) /\ WF_vars(Resync)
    /\ WF_vars(SyncGroup) /\ WF_vars(SyncCSV) /\ WF_vars(SyncCopy) /\ WF_vars(SyncOLMConfig)
    /\ \A n \in Namespaces : WF_vars(SyncGc(n))

-----------------------------------------------------------------------------
\* One invariant on the types of all variables.
TypeOK ==
    /\ og \in [spec : Selections, status : Targets]
    /\ csv \in [exists : BOOLEAN, ann : Targets, phase : Phases]
    /\ copies \in [Namespaces -> Phases \cup {NoCopy}]
    /\ ns \subseteq Namespaces
    /\ enabled \in BOOLEAN /\ condition \in [enabled : BOOLEAN, ok : BOOLEAN]
    /\ conflict \in BOOLEAN
    /\ cache.ns \subseteq Namespaces /\ DOMAIN cache = {"og", "csv", "copies", "ns", "enabled", "condition"}
    /\ fresh \subseteq Objects /\ queue \subseteq Keys
    /\ changes \in 0..MaxChanges /\ lag \in 0..MaxFaults /\ faults \in 0..MaxFaults

\* The namespaces that should hold a copy.
Expected ==
    CASE ~csv.exists \/ conflict -> {}
      [] csv.exists /\ ~conflict /\ IsAllNamespaces(og.spec) /\ ~enabled -> ns \cap Protected
      [] OTHER -> {n \in ns : Contains(og.spec, n)}

\* Whatever the order in which the workers see a resized group, a new or deleted
\* namespace, a deleted CSV or a changed OLMConfig, in the end copies exist in
\* the namespaces that should have one and in no other, and they show the phase
\* of their parent (syncCopyCSV, syncGcCsv).
CopiesConverge ==
    <>[](\A n \in Namespaces : copies[n] = IF n \in Expected THEN csv.phase ELSE NoCopy)

\* The lister's OLMConfig carries a condition that no call has stored, and no
\* event is on the way that would replace it.
Unstored == Config \in fresh /\ cache.condition # condition

\* What users read in the OLMConfig becomes true: with copying disabled and a
\* group that targets every namespace, the condition ends up saying that no
\* unexpected copy was found, provided the protected namespaces exist
\* (syncOLMConfig).  The one way to miss it is a failed UpdateStatus, which leaves
\* the condition in the lister alone.
ConditionSettles ==
    <>[](/\ ~enabled /\ csv.exists /\ ~conflict /\ IsAllNamespaces(og.spec)
         /\ Protected \ {Own} \subseteq ns
         => \/ condition = [enabled |-> FALSE, ok |-> TRUE]
            \/ Unstored /\ faults > 0)

\* Not so after a failed call: what the comment in syncOLMConfig says, "Update
\* the olmConfig status if it has changed."
ConditionStored == <>[](condition = cache.condition)
=============================================================================
