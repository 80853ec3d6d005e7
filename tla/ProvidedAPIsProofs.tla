-------------------------- MODULE ProvidedAPIsProofs --------------------------
(***************************************************************************)
(* Claims on APIs, for any groups, CSVs, APIs and target namespaces: while *)
(* every sync has read listers that were up to date and no group has been  *)
(* resized, no two groups that meet claim the same API, and OwnerKept.     *)
(*                                                                         *)
(* The claims that count are the ones the lister has or is about to have   *)
(* (Listed).  They are not always the cluster's: a prune changes the       *)
(* lister's object even when its call fails.  But whoever writes a group   *)
(* started from the lister's claims, so what is unstored is overwritten    *)
(* and never comes back.  A prune works on claims read earlier, and only   *)
(* takes effect while they are the group's (PruneKnows).  So a claim is    *)
(* only added when no group that meets its own has it (ClaimsMove).  The   *)
(* CSVs of a static group are failed for a claim of another group; one     *)
(* that is deployed has none to fear (OwnersAlone), because others respect *)
(* the claim of its group.                                                 *)
(***************************************************************************)
EXTENDS ProvidedAPIs, TLAPS

\* Idle is one of these.
Idles == [provided : SUBSET APIs, csvs : SUBSET CSVs, unchecked : SUBSET CSVs,
          current : {FALSE}, held : {FALSE}, idle : {TRUE}]

\* The types the proofs need.
Types ==
  /\ og \in [Groups -> Group] /\ ogCache \in [Groups -> Group]
  /\ static \subseteq Groups /\ deployed \subseteq CSVs /\ DOMAIN csv = CSVs
  /\ pruning \in [Groups -> Prunes \cup Idles]
  /\ lag \in Nat /\ resizes \in Nat

\* The groups as the lister has them, or will once it has caught up.
Listed == [g \in Groups |-> IF g \in fresh THEN ogCache[g] ELSE og[g]]

\* The lister's object of the latest version has the latest spec.
Observed == \A g \in Groups : g \in fresh => ogCache[g].spec = og[g].spec

\* A prune of the latest version knows the lister's claims; one of an object that
\* has been replaced or is not the latest changes no claim that counts.
PruneKnows ==
  \A g \in Groups :
    /\ pruning[g].held => g \notin static
    /\ pruning[g].current => g \in fresh /\ pruning[g].held
    /\ pruning[g].held /\ g \in fresh => pruning[g].provided = ogCache[g].provided

\* Every sync has read the latest versions, and no group was resized.
Undisturbed == lag = 0 /\ resizes = 0

Settled == \A g \in Groups : og[g].spec = og[g].status /\ ogCache[g].spec = ogCache[g].status

\* Of two groups that meet at most one claims an API, unless both are static.
ClaimsExclusive ==
  \A g \in Groups : \A h \in GroupIntersection(g, Listed) :
    g \notin static \/ h \notin static => Listed[g].provided \cap Listed[h].provided = {}

\* A deployed CSV of a static group has the claim of that group, and of no
\* other that the group meets.
OwnersAlone ==
  \A c \in deployed : GroupOf[c] \in static =>
    /\ Provides[c] \subseteq Listed[GroupOf[c]].provided
    /\ \A h \in GroupIntersection(GroupOf[c], Listed) : Listed[h].provided \cap Provides[c] = {}

IInv ==
  /\ Types /\ Observed /\ PruneKnows
  /\ Undisturbed => Settled /\ ClaimsExclusive /\ OwnersAlone

Safe == ClaimsExclusive /\ OwnersAlone

-----------------------------------------------------------------------------
(* Groups that meet *)

LEMMA MeetIsMutual ==
  ASSUME NEW groups, NEW g \in Groups, NEW h \in GroupIntersection(g, groups)
  PROVE  h \in Groups /\ g \in GroupIntersection(h, groups)
<1> DEFINE n == Surface(g, groups[g]).targets
           m == Surface(h, groups[h]).targets
<1>1. h \in Groups /\ h # g /\ Intersection(n, m) # {}
  BY DEF GroupIntersection
<1> HIDE DEF n, m
<1>2. Intersection(m, n) # {}
  BY <1>1 DEF Intersection, IsAllNamespaces
<1> QED
  BY <1>1, <1>2 DEF GroupIntersection, n, m

LEMMA MeetByStatus ==
  ASSUME NEW a, NEW b, \A h \in Groups : a[h].status = b[h].status, NEW g \in Groups
  PROVE  GroupIntersection(g, a) = GroupIntersection(g, b)
<1>1. \A h \in Groups : Surface(h, a[h]).targets = Surface(h, b[h]).targets
  BY DEF Surface
<1> QED
  BY <1>1 DEF GroupIntersection

LEMMA MeetSubset ==
  ASSUME NEW a, NEW g  PROVE GroupIntersection(g, a) \subseteq Groups
BY DEF GroupIntersection

-----------------------------------------------------------------------------
(* Listers and claims *)

\* A sync that counts as undisturbed has read the groups as they are listed.
LEMMA ReadCurrent ==
  ASSUME Types, ReadListers, lag' = 0
  PROVE  ogCache = Listed /\ lag = 0 /\ Groups \subseteq fresh
<1>1. fresh = Groups \cup CSVs /\ lag = 0
  BY DEF ReadListers, Types
<1>2. \A g \in Groups : Listed[g] = ogCache[g]
  BY <1>1 DEF Listed
<1> QED
  BY <1>1, <1>2 DEF Types, Listed

LEMMA IdleIsIdle == Idle \in Idles /\ Idle.current = FALSE /\ Idle.held = FALSE
BY DEF Idle, Idles

LEMMA ReadMonotone ==
  ASSUME Types, ReadListers
  PROVE  lag' \in Nat /\ (lag' = 0 => lag = 0)
BY DEF Types, ReadListers

LEMMA GroupParts ==
  ASSUME NEW x \in Group, NEW X, NEW Y
  PROVE  /\ X \in SUBSET APIs => [x EXCEPT !.provided = X] \in Group
         /\ [x EXCEPT !.provided = X].provided = X
         /\ [x EXCEPT !.provided = X].status = x.status
         /\ [x EXCEPT !.provided = X].spec = x.spec
         /\ x.provided \in SUBSET APIs
         /\ Y \in UNION {Selections[g] : g \in Groups} =>
              /\ [x EXCEPT !.status = Y] \in Group
              /\ [x EXCEPT !.status = Y].spec = x.spec
              /\ [x EXCEPT !.status = Y].provided = x.provided
         /\ x.spec \in UNION {Selections[g] : g \in Groups}
         /\ Y \in UNION {Selections[g] : g \in Groups} => [x EXCEPT !.spec = Y] \in Group
<1>1. ASSUME NEW T \in UNION {Selections[g] : g \in Groups} PROVE T \in SUBSET (Namespaces \cup {All})
  BY APIsAssumption
<1> QED
  BY <1>1 DEF Group

\* How the claims of a group that is not static may change.
LEMMA ClaimsMove ==
  ASSUME Types, Safe, NEW g \in Groups, g \notin static, NEW X,
         \A h \in Groups : Listed'[h].status = Listed[h].status,
         \A h \in Groups : h # g => Listed'[h].provided = Listed[h].provided,
         Listed'[g].provided = X, static' = static, deployed' = deployed,
         \A a \in X \ Listed[g].provided :
           \A h \in GroupIntersection(g, Listed) : a \notin Listed[h].provided
  PROVE  Safe'
<1>1. deployed \subseteq CSVs /\ GroupOf \in [CSVs -> Groups]
  BY APIsAssumption DEF Types
<1> DEFINE old == Listed
           new == Listed'
<1>2. /\ new[g].provided = X
      /\ \A h \in Groups : new[h].status = old[h].status
      /\ \A h \in Groups : h # g => new[h].provided = old[h].provided
      /\ \A a \in X \ old[g].provided :
           \A h \in GroupIntersection(g, old) : a \notin old[h].provided
  OBVIOUS
<1>3. Safe => /\ \A h \in Groups : \A k \in GroupIntersection(h, old) :
                   h \notin static \/ k \notin static => old[h].provided \cap old[k].provided = {}
              /\ \A c \in deployed : GroupOf[c] \in static =>
                   /\ Provides[c] \subseteq old[GroupOf[c]].provided
                   /\ \A h \in GroupIntersection(GroupOf[c], old) : old[h].provided \cap Provides[c] = {}
  BY DEF Safe, ClaimsExclusive, OwnersAlone
<1>4. /\ ClaimsExclusive' <=>
            \A h \in Groups : \A k \in GroupIntersection(h, new) :
              h \notin static \/ k \notin static => new[h].provided \cap new[k].provided = {}
      /\ OwnersAlone' <=>
            \A c \in deployed : GroupOf[c] \in static =>
              /\ Provides[c] \subseteq new[GroupOf[c]].provided
              /\ \A h \in GroupIntersection(GroupOf[c], new) : new[h].provided \cap Provides[c] = {}
  BY DEF ClaimsExclusive, OwnersAlone
<1> HIDE DEF old, new
<1>5. \A h \in Groups : GroupIntersection(h, new) = GroupIntersection(h, old)
  BY <1>2, MeetByStatus
<1>6. ASSUME NEW h \in Groups, NEW k \in GroupIntersection(h, old),
             h \notin static \/ k \notin static
      PROVE  new[h].provided \cap new[k].provided = {}
  <2>1. k \in Groups /\ h \in GroupIntersection(k, old) /\ k # h
    BY MeetIsMutual DEF GroupIntersection
  <2>2. old[h].provided \cap old[k].provided = {}
    BY <1>6, <1>3
  <2>3. CASE h = g
    BY <1>2, <2>1, <2>2, <2>3
  <2>4. CASE k = g
    BY <1>2, <2>1, <2>2, <2>4
  <2>5. CASE h # g /\ k # g
    BY <1>2, <2>1, <2>2, <2>5
  <2> QED
    BY <2>3, <2>4, <2>5
<1>7. ClaimsExclusive'
  BY <1>5, <1>6, <1>4
<1>8. ASSUME NEW c \in deployed, GroupOf[c] \in static
      PROVE  /\ Provides[c] \subseteq new[GroupOf[c]].provided
             /\ \A h \in GroupIntersection(GroupOf[c], old) : new[h].provided \cap Provides[c] = {}
  <2> DEFINE o == GroupOf[c]
  <2>1. o \in Groups /\ o # g
    BY <1>1, <1>8
  <2>2. /\ Provides[c] \subseteq old[o].provided
        /\ \A h \in GroupIntersection(o, old) : old[h].provided \cap Provides[c] = {}
    BY <1>8, <1>3
  <2>3. new[o].provided = old[o].provided
    BY <1>2, <2>1
  <2> HIDE DEF o
  <2>4. ASSUME NEW h \in GroupIntersection(o, old)
        PROVE  new[h].provided \cap Provides[c] = {}
    <3>1. h \in Groups /\ o \in GroupIntersection(h, old)
      BY <2>1, MeetIsMutual
    <3>2. CASE h # g
      BY <1>2, <2>2, <2>4, <3>1, <3>2
    <3>3. CASE h = g
      BY <1>2, <2>2, <2>4, <3>1, <3>3
    <3> QED
      BY <3>2, <3>3
  <2> QED
    BY <2>2, <2>3, <2>4 DEF o
<1>9. OwnersAlone'
  BY <1>1, <1>5, <1>8, <1>4
<1> QED
  BY <1>7, <1>9 DEF Safe

\* No claim changes, and what is newly deployed owns its APIs.
LEMMA ClaimsStay ==
  ASSUME Safe, Listed' = Listed, static' = static,
         \A c \in deployed' \ deployed :
           /\ Provides[c] \subseteq Listed[GroupOf[c]].provided
           /\ \A h \in GroupIntersection(GroupOf[c], Listed) : Listed[h].provided \cap Provides[c] = {}
  PROVE  Safe'
BY DEF Safe, ClaimsExclusive, OwnersAlone

-----------------------------------------------------------------------------
(* Steps that leave the groups alone *)

\* What a newcomer never does to an owner.
Kept ==
  lag' = 0 /\ resizes = 0 =>
    \A c \in deployed \ deployed' :
      csv'[c].exists => ~ (Provides[c] \subseteq ogCache[GroupOf[c]].provided)

Quiet ==
  /\ og' = og /\ ogCache' = ogCache /\ pruning' = pruning /\ static' = static
  /\ \A g \in Groups : g \in fresh' <=> g \in fresh
  /\ resizes' = resizes /\ DOMAIN csv' = DOMAIN csv

LEMMA ListedStays ==
  ASSUME og' = og, ogCache' = ogCache, \A g \in Groups : g \in fresh' <=> g \in fresh
  PROVE  Listed' = Listed
BY DEF Listed

LEMMA QuietKeeps ==
  ASSUME IInv, Quiet, deployed' \subseteq CSVs, lag' \in Nat, lag' = 0 => lag = 0,
         Undisturbed' => \A c \in deployed' \ deployed :
           /\ Provides[c] \subseteq Listed[GroupOf[c]].provided
           /\ \A h \in GroupIntersection(GroupOf[c], Listed) : Listed[h].provided \cap Provides[c] = {}
  PROVE  IInv'
<1>1. Types'
  BY DEF IInv, Types, Quiet
<1>2. Observed' /\ PruneKnows'
  BY DEF IInv, Observed, PruneKnows, Quiet
<1>3. ASSUME Undisturbed' PROVE Settled' /\ Safe'
  <2>1. Settled /\ Safe /\ Listed' = Listed /\ static' = static
    BY <1>3, ListedStays DEF IInv, Safe, Undisturbed, Quiet
  <2>2. Safe'
    BY <1>3, <2>1, ClaimsStay
  <2> QED
    BY <2>1, <2>2 DEF Settled, Quiet
<1> QED
  BY <1>1, <1>2, <1>3 DEF IInv, Safe

\* What the reconciler says of the groups it is given.
LEMMA Reconciled ==
  ASSUME NEW groups, NEW g \in Groups, NEW add
  PROVE  /\ ReconcileAPIIntersection(add, g, groups) \in {"APIConflict", "AddAPIs"} =>
              ~ (add \subseteq groups[g].provided)
         /\ ReconcileAPIIntersection(add, g, groups) \in {"NoAPIConflict", "RemoveAPIs"} =>
              add \subseteq groups[g].provided
         /\ ReconcileAPIIntersection(add, g, groups) \in {"NoAPIConflict", "AddAPIs"} =>
              \A h \in GroupIntersection(g, groups) : groups[h].provided \cap add = {}
         /\ ReconcileAPIIntersection(add, g, groups) = "RemoveAPIs" =>
              \E h \in GroupIntersection(g, groups) : groups[h].provided \cap add # {}
<1> DEFINE claimed == UNION {groups[h].provided : h \in GroupIntersection(g, groups)}
           intersecting == add \cap claimed # {}
           subset == add \subseteq groups[g].provided
<1>1. ReconcileAPIIntersection(add, g, groups) =
        CASE subset /\ intersecting -> "RemoveAPIs"
          [] ~subset /\ intersecting -> "APIConflict"
          [] ~subset /\ ~intersecting -> "AddAPIs"
          [] OTHER -> "NoAPIConflict"
  BY DEF ReconcileAPIIntersection
<1>2. intersecting <=> \E h \in GroupIntersection(g, groups) : groups[h].provided \cap add # {}
  OBVIOUS
<1> HIDE DEF intersecting, subset
<1> QED
  BY <1>1, <1>2 DEF subset

LEMMA SyncCSVKeeps ==
  ASSUME IInv, NEW c \in CSVs,
         SyncDeletedCSV(c) \/ JoinGroup(c) \/ APIConflict(c) \/ StaticGroup(c) \/ Transition(c)
  PROVE  IInv' /\ Kept
<1>0. /\ Types /\ Observed /\ deployed \subseteq CSVs /\ GroupOf[c] \in Groups
      /\ ReadListers
  BY APIsAssumption DEF IInv, Types, SyncDeletedCSV, JoinGroup, APIConflict, StaticGroup,
     Transition, Reconciles, Dequeue
<1>1. Quiet
  BY APIsAssumption DEF Quiet, SyncDeletedCSV, JoinGroup, APIConflict, StaticGroup, Transition, FailAndCleanup,
     UpdateStatus, WriteCSV
<1>2. lag' \in Nat /\ (lag' = 0 => lag = 0) /\ (lag' = 0 => ogCache = Listed)
  BY <1>0, ReadMonotone, ReadCurrent
<1>3. CASE SyncDeletedCSV(c) \/ JoinGroup(c)
  <2>1. deployed' = deployed
    BY <1>3 DEF SyncDeletedCSV, JoinGroup
  <2> QED
    BY <1>0, <1>1, <1>2, <2>1, QuietKeeps DEF Kept
<1>4. CASE APIConflict(c) \/ StaticGroup(c)
  <2>1. deployed' = deployed \/ deployed' = deployed \ {c}
    BY <1>4 DEF APIConflict, StaticGroup, FailAndCleanup
  <2>2. IInv'
    BY <1>0, <1>1, <1>2, <2>1, QuietKeeps
  <2>3. ASSUME lag' = 0, resizes = 0, c \in deployed
        PROVE  ~ (Provides[c] \subseteq ogCache[GroupOf[c]].provided)
    <3>1. /\ APIConflict(c) => ReconcileAPIIntersection(Provides[c], GroupOf[c], Listed) = "APIConflict"
          /\ StaticGroup(c) => /\ GroupOf[c] \in static
                               /\ ReconcileAPIIntersection(Provides[c], GroupOf[c], Listed)
                                    \in {"AddAPIs", "RemoveAPIs"}
      BY <1>2, <2>3 DEF APIConflict, StaticGroup, Reconciles
    <3>2. OwnersAlone
      BY <1>2, <2>3 DEF IInv, Undisturbed
    <3>3. StaticGroup(c) => ReconcileAPIIntersection(Provides[c], GroupOf[c], Listed) # "RemoveAPIs"
      BY <1>0, <2>3, <3>1, <3>2, Reconciled DEF OwnersAlone
    <3>4. ReconcileAPIIntersection(Provides[c], GroupOf[c], Listed) \in {"APIConflict", "AddAPIs"}
      BY <1>4, <3>1, <3>3
    <3> QED
      BY <1>0, <1>2, <2>3, <3>4, Reconciled
  <2> QED
    BY <2>1, <2>2, <2>3 DEF Kept
<1>5. CASE Transition(c)
  <2>1. deployed' = deployed \/ deployed' = deployed \cup {c}
    BY <1>5 DEF Transition
  <2>2. ASSUME lag' = 0
        PROVE  /\ Provides[c] \subseteq Listed[GroupOf[c]].provided
               /\ \A h \in GroupIntersection(GroupOf[c], Listed) : Listed[h].provided \cap Provides[c] = {}
    <3>1. ReconcileAPIIntersection(Provides[c], GroupOf[c], Listed) = "NoAPIConflict"
      BY <1>2, <1>5, <2>2 DEF Transition, Reconciles
    <3> QED
      BY <1>0, <3>1, Reconciled
  <2>3. IInv'
    BY <1>0, <1>1, <1>2, <2>1, <2>2, QuietKeeps DEF Undisturbed
  <2> QED
    BY <2>1, <2>3 DEF Kept
<1> QED
  BY <1>3, <1>4, <1>5

LEMMA OtherCSVStepsKeep ==
  ASSUME IInv,
         \/ Resync
         \/ \E c \in CSVs : \/ ObserveCSV(c) \/ HandleClusterServiceVersionDeletion(c)
                            \/ CreateCSV(c) \/ DeleteCSV(c)
  PROVE  IInv' /\ Kept
<1>1. Quiet /\ lag' = lag
  BY APIsAssumption DEF Quiet, Resync, ObserveCSV, HandleClusterServiceVersionDeletion, CreateCSV, DeleteCSV,
     WriteCSV
<1>2. deployed' = deployed \/ \E c \in CSVs : deployed' = deployed \ {c} /\ csv' = [csv EXCEPT ![c] = NoCSV]
  BY DEF Resync, ObserveCSV, HandleClusterServiceVersionDeletion, CreateCSV, DeleteCSV, WriteCSV
<1>3. deployed' \subseteq CSVs /\ deployed' \subseteq deployed /\ lag' \in Nat
  BY <1>1, <1>2 DEF IInv, Types
<1>4. IInv'
  BY <1>1, <1>3, QuietKeeps
<1>5. \A c \in deployed \ deployed' : ~ csv'[c].exists
  BY <1>2 DEF IInv, Types, NoCSV
<1> QED
  BY <1>4, <1>5 DEF Kept

-----------------------------------------------------------------------------
(* Steps of the groups *)

\* A group is written: the lister and a running sync are behind.
LEMMA WriteKeeps ==
  ASSUME IInv, NEW g \in Groups, NEW x \in Group, WriteGroup(g, x),
         ogCache' \in [Groups -> Group], \A h \in Groups : h # g => ogCache'[h] = ogCache[h],
         static' = static, deployed' = deployed, csv' = csv,
         lag' \in Nat, resizes' \in Nat, Undisturbed' => Settled' /\ Safe'
  PROVE  IInv'
<1>0. Types /\ Observed /\ PruneKnows
  BY DEF IInv
<1>1. /\ og' \in [Groups -> Group] /\ \A h \in Groups : h # g => og'[h] = og[h]
      /\ fresh' = fresh \ {g}
  BY <1>0 DEF Types, WriteGroup
<1>2. PICK y \in Prunes \cup Idles : /\ pruning' = [pruning EXCEPT ![g] = y] /\ y.current = FALSE
                                     /\ y.held = pruning[g].held
  <2>1. pruning[g] \in Prunes \cup Idles
    BY <1>0 DEF Types
  <2>2. /\ [pruning[g] EXCEPT !.current = FALSE] \in Prunes \cup Idles
        /\ [pruning[g] EXCEPT !.current = FALSE].current = FALSE
        /\ [pruning[g] EXCEPT !.current = FALSE].held = pruning[g].held
    <3>1. CASE pruning[g] \in Prunes
      BY <3>1 DEF Prunes
    <3>2. CASE pruning[g] \in Idles
      BY <3>2 DEF Idles
    <3> QED
      BY <2>1, <3>1, <3>2
  <2>3. pruning' = [pruning EXCEPT ![g] = [pruning[g] EXCEPT !.current = FALSE]]
    BY <1>0 DEF Types, WriteGroup
  <2> QED
    BY <2>2, <2>3
<1>3. Types'
  BY <1>0, <1>1, <1>2 DEF Types
<1>4. Observed'
  BY <1>0, <1>1 DEF Observed
<1>5. PruneKnows'
  BY <1>0, <1>1, <1>2 DEF Types, PruneKnows
<1> QED
  BY <1>3, <1>4, <1>5 DEF IInv, Safe

\* In an undisturbed run a group that is written or not has the same targets.
LEMMA WriteMoves ==
  ASSUME Types, Observed, Settled, NEW g \in Groups, NEW X,
         og' = [og EXCEPT ![g] = [og[g] EXCEPT !.provided = X]],
         fresh' = fresh \ {g}, \A h \in Groups : h # g => ogCache'[h] = ogCache[h]
  PROVE  /\ \A h \in Groups : Listed'[h].status = Listed[h].status
         /\ \A h \in Groups : h # g => Listed'[h].provided = Listed[h].provided
         /\ Listed'[g].provided = X
<1>1. \A h \in Groups : h # g => Listed'[h] = Listed[h]
  BY DEF Types, Listed
<1>2. Listed'[g] = [og[g] EXCEPT !.provided = X] /\ og[g] \in Group
  <2>1. Listed'[g] = og'[g]
    BY DEF Listed
  <2> QED
    BY <2>1 DEF Types
<1>3. Listed[g].status = og[g].status
  BY DEF Listed, Observed, Settled
<1>4. /\ [og[g] EXCEPT !.provided = X].provided = X
      /\ [og[g] EXCEPT !.provided = X].status = og[g].status
  BY <1>2, GroupParts
<1>5. Listed'[g].provided = X /\ Listed'[g].status = Listed[g].status
  BY <1>2, <1>3, <1>4
<1> QED
  BY <1>1, <1>5

LEMMA UpdateProvidedAPIsKeeps ==
  ASSUME IInv, NEW c \in CSVs, AddAPIs(c) \/ RemoveAPIs(c)
  PROVE  IInv' /\ Kept
<1> DEFINE g == GroupOf[c]
           x(X) == [og[g] EXCEPT !.provided = X]
<1>0. /\ Types /\ Observed /\ g \in Groups /\ Provides[c] \in SUBSET APIs /\ ReadListers
      /\ g \notin static /\ ogCache' = ogCache /\ static' = static /\ deployed' = deployed
      /\ csv' = csv /\ resizes' = resizes /\ ogCache[g] \in Group /\ resizes \in Nat
      /\ og[g] \in Group /\ ogCache \in [Groups -> Group]
  BY APIsAssumption DEF IInv, Types, AddAPIs, RemoveAPIs, Reconciles, Dequeue, UpdateProvidedAPIs
<1>1. PICK X : /\ \/ g \in fresh /\ WriteGroup(g, x(X))
                  \/ UNCHANGED <<og, fresh, pruning>>
               /\ \/ /\ X = ogCache[g].provided \cup Provides[c]
                     /\ ReconcileAPIIntersection(Provides[c], g, ogCache) = "AddAPIs"
                  \/ X = ogCache[g].provided \ Provides[c]
  BY DEF AddAPIs, RemoveAPIs, UpdateProvidedAPIs, Reconciles
<1>2. lag' \in Nat /\ (lag' = 0 => lag = 0 /\ ogCache = Listed)
  BY <1>0, ReadMonotone, ReadCurrent
<1>3. CASE UNCHANGED <<og, fresh, pruning>>
  <2>1. Quiet
    BY <1>0, <1>3 DEF Quiet
  <2> QED
    BY <1>0, <1>2, <2>1, QuietKeeps DEF Kept, Types
<1>4. CASE WriteGroup(g, x(X))
  <2>1. X \in SUBSET APIs /\ x(X) \in Group
    BY <1>0, <1>1, GroupParts
  <2>2. ASSUME Undisturbed' PROVE Settled' /\ Safe'
    <3>1. ogCache = Listed /\ Safe /\ Settled
      BY <1>0, <1>2, <2>2 DEF IInv, Undisturbed, Safe
    <3>2. og' = [og EXCEPT ![g] = [og[g] EXCEPT !.provided = X]] /\ fresh' = fresh \ {g}
      BY <1>4 DEF WriteGroup
    <3>3. \A a \in X \ Listed[g].provided :
            \A h \in GroupIntersection(g, Listed) : a \notin Listed[h].provided
      BY <1>0, <1>1, <3>1, Reconciled
    <3> HIDE DEF g
    <3>4. Settled'
      BY <1>0, <3>1, <3>2, GroupParts DEF Settled, Types
    <3>5. /\ \A h \in Groups : Listed'[h].status = Listed[h].status
          /\ \A h \in Groups : h # g => Listed'[h].provided = Listed[h].provided
          /\ Listed'[g].provided = X
      BY <1>0, <3>1, <3>2, WriteMoves
    <3> QED
      BY <1>0, <3>1, <3>3, <3>4, <3>5, ClaimsMove
  <2> HIDE DEF x, g
  <2> QED
    BY <1>0, <1>2, <1>4, <2>1, <2>2, WriteKeeps DEF Kept
<1> QED
  BY <1>1, <1>3, <1>4

LEMMA UpdateNamespacesKeeps ==
  ASSUME IInv, NEW g \in Groups, UpdateNamespaces(g)
  PROVE  IInv' /\ Kept
<1> DEFINE x == [og[g] EXCEPT !.status = ogCache[g].spec]
           z == [ogCache[g] EXCEPT !.status = ogCache[g].spec]
<1>0. /\ Types /\ Observed /\ PruneKnows /\ ReadListers /\ static' = static
      /\ deployed' = deployed /\ csv' = csv /\ resizes' = resizes /\ resizes \in Nat
      /\ ogCache[g] \in Group /\ og[g] \in Group /\ ogCache[g].spec # ogCache[g].status
      /\ pruning[g] = Idle
      /\ WriteGroup(g, x) \/ UNCHANGED <<og, fresh, pruning>>
  BY DEF IInv, Types, UpdateNamespaces, DequeueGroup
<1>1. ogCache' = [ogCache EXCEPT ![g] = z]
  BY <1>0 DEF Types, UpdateNamespaces
<1>2. x \in Group /\ z \in Group /\ z.spec = ogCache[g].spec
  BY <1>0, GroupParts
<1> HIDE DEF x, z
<1>3. ogCache' \in [Groups -> Group] /\ \A h \in Groups : h # g => ogCache'[h] = ogCache[h]
  BY <1>0, <1>1, <1>2 DEF Types
<1>4. lag' \in Nat /\ (lag' = 0 => lag = 0)
  BY <1>0, ReadMonotone
<1>5. ~ Undisturbed'
  BY <1>0, <1>4 DEF IInv, Undisturbed, Settled
<1>6. CASE WriteGroup(g, x)
  BY <1>0, <1>2, <1>3, <1>4, <1>5, <1>6, WriteKeeps DEF Kept
<1>7. CASE UNCHANGED <<og, fresh, pruning>>
  <2>1. Types'
    BY <1>0, <1>3, <1>4, <1>7 DEF Types
  <2>2. Observed'
    BY <1>0, <1>1, <1>2, <1>7 DEF Types, Observed
  <2>3. PruneKnows'
    BY <1>0, <1>3, <1>7, IdleIsIdle DEF PruneKnows
  <2> QED
    BY <1>0, <1>5, <2>1, <2>2, <2>3 DEF IInv, Kept
<1> QED
  BY <1>0, <1>6, <1>7

LEMMA ResizeKeeps ==
  ASSUME IInv, NEW g \in Groups, Resize(g)
  PROVE  IInv' /\ Kept
<1>0. /\ Types /\ ogCache' = ogCache /\ static' = static /\ deployed' = deployed
      /\ csv' = csv /\ lag' = lag /\ lag \in Nat /\ resizes' = resizes + 1 /\ resizes \in Nat
      /\ og[g] \in Group /\ ogCache \in [Groups -> Group]
  BY DEF IInv, Types, Resize
<1>1. PICK selection \in Selections[g] : WriteGroup(g, [og[g] EXCEPT !.spec = selection])
  BY DEF Resize
<1>2. [og[g] EXCEPT !.spec = selection] \in Group
  BY <1>0, GroupParts
<1>3. ~ Undisturbed' /\ resizes' \in Nat
  BY <1>0 DEF Undisturbed
<1> QED
  BY <1>0, <1>1, <1>2, <1>3, WriteKeeps DEF Kept

LEMMA AnnotateCSVsKeeps ==
  ASSUME IInv, NEW g \in Groups, AnnotateCSVs(g)
  PROVE  IInv' /\ Kept
<1> DEFINE u == {c \in Members(g) : csvCache[c].phase \in {"None", "Pending"}}
           b == g \in fresh
           y == [provided |-> ogCache[g].provided, csvs |-> Members(g), unchecked |-> u,
                 current |-> b, held |-> TRUE]
<1>0. /\ Types /\ Observed /\ PruneKnows /\ ReadListers /\ og' = og /\ ogCache' = ogCache
      /\ static' = static /\ deployed' = deployed /\ resizes' = resizes
      /\ DOMAIN csv' = CSVs
  BY DEF IInv, AnnotateCSVs, DequeueGroup
<1>1. pruning' = pruning \/ (g \notin static /\ pruning' = [pruning EXCEPT ![g] = y])
  BY DEF AnnotateCSVs, Prunable
<1>2. lag' \in Nat /\ (lag' = 0 => lag = 0)
  BY <1>0, ReadMonotone
<1>3. \A h \in Groups : h \in fresh' <=> h \in fresh
  <2>1. PICK written \in SUBSET CSVs : fresh' = fresh \ written
    BY DEF AnnotateCSVs, Members
  <2> QED
    BY <2>1, APIsAssumption
<1>4. /\ y \in Prunes /\ y.provided = ogCache[g].provided /\ y.held
      /\ y.current => g \in fresh
  <2>1. /\ ogCache[g].provided \in SUBSET APIs /\ Members(g) \in SUBSET CSVs /\ u \in SUBSET CSVs
    BY <1>0 DEF Types, Group, Members
  <2>2. b \in BOOLEAN /\ (b => g \in fresh)
    OBVIOUS
  <2> HIDE DEF u, b
  <2>3. /\ y.provided = ogCache[g].provided /\ y.held /\ y.current = b
    OBVIOUS
  <2>4. y \in Prunes
    BY <2>1, <2>2 DEF Prunes
  <2> QED
    BY <2>3, <2>4, <2>2
<1> HIDE DEF y
<1>5. pruning' \in [Groups -> Prunes \cup Idles] /\ PruneKnows'
  BY <1>0, <1>1, <1>3, <1>4 DEF Types, PruneKnows
<1>6. Types'
  BY <1>0, <1>2, <1>5 DEF Types
<1>7. Observed'
  BY <1>0, <1>3 DEF Observed
<1>8. ASSUME Undisturbed' PROVE Settled' /\ Safe'
  <2>1. Settled /\ Safe /\ Listed' = Listed
    BY <1>0, <1>2, <1>3, <1>8, ListedStays DEF IInv, Safe, Undisturbed
  <2>2. Safe'
    BY <1>0, <2>1, ClaimsStay
  <2> QED
    BY <1>0, <2>1, <2>2 DEF Settled
<1> QED
  BY <1>0, <1>5, <1>6, <1>7, <1>8 DEF IInv, Safe, Kept

LEMMA PruneKeeps ==
  ASSUME IInv, NEW g \in Groups, PruneProvidedAPIs(g)
  PROVE  IInv' /\ Kept
<1> DEFINE p == pruning[g]
<1>0. /\ Types /\ Observed /\ PruneKnows /\ lag' = lag
      /\ static' = static /\ deployed' = deployed /\ resizes' = resizes /\ csv' = csv
      /\ pruning' = [pruning EXCEPT ![g] = Idle] /\ og[g] \in Group /\ ogCache[g] \in Group
      /\ p \in Prunes \cup Idles
  BY DEF IInv, Types, PruneProvidedAPIs
<1>1. PICK X \in SUBSET p.provided :
        /\ \/ ogCache' = ogCache
           \/ p.held /\ ogCache' = [ogCache EXCEPT ![g].provided = X]
        /\ \/ og' = og /\ fresh' = fresh
           \/ /\ p.current /\ og' = [og EXCEPT ![g].provided = X] /\ fresh' = fresh \ {g}
  <2>1. PICK noted \in ProvidedAPIsFromCSVs(p.csvs) :
        /\ \/ ogCache' = ogCache
           \/ p.held /\ ogCache' = [ogCache EXCEPT ![g].provided = p.provided \cap DOMAIN noted]
        /\ \/ og' = og /\ fresh' = fresh
           \/ /\ p.current /\ og' = [og EXCEPT ![g].provided = p.provided \cap DOMAIN noted]
              /\ fresh' = fresh \ {g}
    BY DEF PruneProvidedAPIs
  <2> QED
    BY <2>1
<1>2. X \in SUBSET APIs
  <2>1. p.provided \in SUBSET APIs
    BY <1>0 DEF Prunes, Idles
  <2> QED
    BY <2>1
<1>3. /\ pruning' \in [Groups -> Prunes \cup Idles]
      /\ ~ pruning'[g].held /\ ~ pruning'[g].current
      /\ \A h \in Groups : h # g => pruning'[h] = pruning[h]
  BY <1>0, IdleIsIdle DEF Types
<1> DEFINE ox == [og[g] EXCEPT !.provided = X]
           cx == [ogCache[g] EXCEPT !.provided = X]
<1>4. /\ ox \in Group /\ ox.spec = og[g].spec /\ ox.status = og[g].status /\ ox.provided = X
      /\ cx \in Group /\ cx.spec = ogCache[g].spec /\ cx.status = ogCache[g].status
      /\ cx.provided = X
  BY <1>0, <1>2, GroupParts
<1>5. /\ ogCache' = ogCache \/ (p.held /\ ogCache' = [ogCache EXCEPT ![g] = cx])
      /\ \/ og' = og /\ fresh' = fresh
         \/ p.current /\ og' = [og EXCEPT ![g] = ox] /\ fresh' = fresh \ {g}
  BY <1>0, <1>1 DEF Types
<1>6. \/ p.held
      \/ og' = og /\ fresh' = fresh /\ ogCache' = ogCache
  BY <1>0, <1>5 DEF PruneKnows
<1> HIDE DEF ox, cx
<1>7. /\ og' \in [Groups -> Group] /\ ogCache' \in [Groups -> Group]
      /\ \A h \in Groups : /\ og'[h].spec = og[h].spec /\ og'[h].status = og[h].status
                           /\ ogCache'[h].spec = ogCache[h].spec
                           /\ ogCache'[h].status = ogCache[h].status
                           /\ h # g => og'[h] = og[h] /\ ogCache'[h] = ogCache[h]
                                      /\ (h \in fresh' <=> h \in fresh)
      /\ fresh' \subseteq fresh
  BY <1>0, <1>4, <1>5 DEF Types
<1>8. Types' /\ Observed'
  BY <1>0, <1>3, <1>7 DEF Types, Observed
<1>9. PruneKnows'
  BY <1>0, <1>3, <1>7 DEF PruneKnows
<1>10. ASSUME Undisturbed' PROVE Settled' /\ Safe'
  <2>1. Settled /\ Safe
    BY <1>0, <1>10 DEF IInv, Safe, Undisturbed
  <2>2. Settled'
    BY <1>7, <2>1 DEF Settled
  <2>3. \A h \in Groups : h # g => Listed'[h] = Listed[h]
    BY <1>7 DEF Listed
  <2>4. Listed'[g].status = Listed[g].status
    BY <1>0, <1>7, <2>1, <2>2 DEF Listed, Settled, Observed
  <2>5. CASE g \notin fresh \/ ~ p.held
    <3>1. og' = og /\ fresh' = fresh
      BY <1>0, <1>5, <2>5 DEF PruneKnows
    <3>2. Listed'[g] = Listed[g]
      BY <1>6, <2>5, <3>1 DEF Listed
    <3>3. Listed' = Listed
      BY <2>3, <3>2 DEF Listed
    <3>4. Safe'
      BY <1>0, <2>1, <3>3, ClaimsStay
    <3> QED
      BY <2>2, <3>4
  <2>6. CASE g \in fresh /\ p.held
    <3>1. g \notin static /\ Listed[g].provided = p.provided
      BY <1>0, <2>6 DEF PruneKnows, Listed
    <3>2. Listed'[g].provided = X \/ Listed'[g] = Listed[g]
      BY <1>0, <1>4, <1>5, <2>6 DEF Listed, Types
    <3>3. Listed'[g].provided \subseteq Listed[g].provided
      BY <3>1, <3>2
    <3>4. /\ \A h \in Groups : Listed'[h].status = Listed[h].status
          /\ \A h \in Groups : h # g => Listed'[h].provided = Listed[h].provided
      BY <2>3, <2>4
    <3>5. Safe'
      BY <1>0, <2>1, <3>1, <3>3, <3>4, ClaimsMove
    <3> QED
      BY <2>2, <3>5
  <2> QED
    BY <2>5, <2>6
<1> QED
  BY <1>0, <1>8, <1>9, <1>10 DEF IInv, Safe, Kept

LEMMA ObserveGroupKeeps ==
  ASSUME IInv, NEW g \in Groups, ObserveGroup(g)
  PROVE  IInv' /\ Kept
<1>0. /\ og' = og /\ ogCache' = [ogCache EXCEPT ![g] = og[g]] /\ fresh' = fresh \cup {g}
      /\ g \notin fresh /\ pruning' = [pruning EXCEPT ![g].held = FALSE]
      /\ UNCHANGED <<csv, static, deployed, resizes, lag>>
      /\ Types /\ Observed /\ PruneKnows
  BY DEF IInv, ObserveGroup
<1>1. PICK y \in Prunes \cup Idles : /\ pruning' = [pruning EXCEPT ![g] = y]
                                     /\ y.held = FALSE /\ y.current = pruning[g].current
  <2>1. pruning[g] \in Prunes \cup Idles
    BY <1>0 DEF Types
  <2>2. /\ [pruning[g] EXCEPT !.held = FALSE] \in Prunes \cup Idles
        /\ [pruning[g] EXCEPT !.held = FALSE].held = FALSE
        /\ [pruning[g] EXCEPT !.held = FALSE].current = pruning[g].current
    <3>1. CASE pruning[g] \in Prunes
      BY <3>1 DEF Prunes
    <3>2. CASE pruning[g] \in Idles
      BY <3>2 DEF Idles
    <3> QED
      BY <2>1, <3>1, <3>2
  <2>3. pruning' = [pruning EXCEPT ![g] = [pruning[g] EXCEPT !.held = FALSE]]
    BY <1>0 DEF Types
  <2> QED
    BY <2>2, <2>3
<1>2. Types' /\ Observed'
  BY <1>0, <1>1 DEF Types, Observed
<1>3. PruneKnows'
  BY <1>0, <1>1 DEF Types, PruneKnows
<1>4. ASSUME Undisturbed' PROVE Settled' /\ Safe'
  <2>1. Settled /\ Safe
    BY <1>0, <1>4 DEF IInv, Safe, Undisturbed
  <2>2. \A h \in Groups : Listed'[h] = Listed[h]
    BY <1>0 DEF Types, Listed
  <2>3. Listed' = Listed
    BY <2>2 DEF Listed
  <2>4. Safe'
    BY <1>0, <2>1, <2>3, ClaimsStay
  <2> QED
    BY <1>0, <2>1, <2>4 DEF Settled, Types
<1> QED
  BY <1>0, <1>2, <1>3, <1>4 DEF IInv, Safe, Kept

-----------------------------------------------------------------------------
(* Theorems *)

LEMMA InitIInv == Init => IInv
<1> SUFFICES ASSUME Init PROVE IInv
  OBVIOUS
<1>1. /\ pruning = [g \in Groups |-> Idle] /\ Idle \in Idles
      /\ Idle.current = FALSE /\ Idle.held = FALSE
  BY IdleIsIdle DEF Init
<1>2. Types
  BY <1>1, APIsAssumption DEF Init, Types
<1>3. Observed /\ PruneKnows
  BY <1>1 DEF Init, Observed, PruneKnows
<1>4. Settled /\ OwnersAlone
  BY DEF Init, Settled, OwnersAlone
<1>5. ClaimsExclusive
  <2>1. \A g \in Groups : Listed[g] = og[g]
    BY DEF Init, Listed
  <2> QED
    BY <2>1, MeetSubset DEF Init, ClaimsExclusive
<1> QED
  BY <1>2, <1>3, <1>4, <1>5 DEF IInv

LEMMA Invariance ==
  ASSUME IInv, [Next]_vars
  PROVE  IInv' /\ [Kept]_vars
<1>1. CASE \E c \in CSVs : SyncCSV(c)
  BY <1>1, SyncCSVKeeps, UpdateProvidedAPIsKeeps DEF SyncCSV
<1>2. CASE \E g \in Groups : SyncGroup(g) \/ Resize(g) \/ ObserveGroup(g)
  BY <1>2, UpdateNamespacesKeeps, AnnotateCSVsKeeps, PruneKeeps, ResizeKeeps, ObserveGroupKeeps
     DEF SyncGroup
<1>3. CASE \/ Resync
           \/ \E c \in CSVs : \/ ObserveCSV(c) \/ HandleClusterServiceVersionDeletion(c)
                              \/ CreateCSV(c) \/ DeleteCSV(c)
  BY <1>3, OtherCSVStepsKeep
<1>4. CASE UNCHANGED vars
  <2>1. Quiet /\ lag' = lag /\ deployed' = deployed
    BY <1>4 DEF vars, Quiet
  <2> QED
    BY <1>4, <2>1, QuietKeeps DEF IInv, Types
<1> QED
  BY <1>1, <1>2, <1>3, <1>4 DEF Next, Observe

\* While every sync read the latest versions and no group was resized, of two
\* groups that meet at most one claims an API in what the lister has or is about
\* to have (unless users made both groups static), however claims, CSVs that come
\* and go, prunes and calls that fail after the lister's object was changed
\* interleave: what ReconcileAPIIntersection is for.
THEOREM OneClaim == Spec => [](Undisturbed => ClaimsExclusive)
<1>1. IInv /\ [Next]_vars => IInv'
  BY Invariance
<1>2. IInv => (Undisturbed => ClaimsExclusive)
  BY DEF IInv
<1> QED
  BY <1>1, <1>2, InitIInv, PTL DEF Spec

\* A newcomer never ousts an owner: in such a run a CSV whose group claims its
\* APIs loses its deployments only by being deleted, whatever APIs its
\* competitors in transitionCSVState ask for.
THEOREM OwnersKept == Spec => OwnerKept
<1>1. IInv /\ [Next]_vars => IInv' /\ [Kept]_vars
  BY Invariance
<1>2. IInv /\ [Next]_vars =>
        [lag' = 0 /\ resizes = 0 =>
           \A c \in deployed \ deployed' :
             csv'[c].exists => ~ (Provides[c] \subseteq ogCache[GroupOf[c]].provided)]_vars
  BY <1>1 DEF Kept
<1> QED
  BY <1>1, <1>2, InitIInv, PTL DEF Spec, OwnerKept
=============================================================================
