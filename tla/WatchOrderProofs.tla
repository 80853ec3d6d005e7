-------------------------- MODULE WatchOrderProofs --------------------------
(***************************************************************************)
(* The order in which the informer's cache learns of the CSVs, and why a   *)
(* sync that finds a CSV Replacing finds its replacement too.              *)
(*                                                                         *)
(* The API server forgets a replaced CSV before the one that replaced it,  *)
(* and the watch tells of writes in their order.  So a cache that has      *)
(* dropped the replacement has dropped what it replaced before; and what   *)
(* the cache has not shown yet, no sync has marked Replacing.              *)
(***************************************************************************)
EXTENDS CSVLifecycleProofs

-----------------------------------------------------------------------------
(* The order in which the cache learns *)

\* Events are about CSVs that were created.
EventsCreated == \A i \in DOMAIN watch : watch[i].csv \in created

\* The event that tells of the removal of a CSV is the last one about it.
AbsentLast ==
  \A i, j \in DOMAIN watch :
    i < j /\ watch[i].obj.phase = "Absent" => watch[j].csv # watch[i].csv

\* A CSV with events on the way has a last one, and that carries the stored
\* CSV.
LastCarried ==
  \A c \in CSVs : Behind(c) =>
    \E i \in DOMAIN watch :
      /\ watch[i].csv = c /\ watch[i].obj = api[c]
      /\ \A j \in DOMAIN watch : j > i => watch[j].csv # c

\* The cache learns that a CSV is gone only after it has learned that the
\* one it replaced is.
GoneInOrder ==
  \A i \in DOMAIN watch, c \in CSVs :
    watch[i].obj.phase = "Absent" /\ Replaces[watch[i].csv] = c
      => \/ ~Exists(cache, c) /\ ~Behind(c)
         \/ \E j \in DOMAIN watch :
              j < i /\ watch[j].csv = c /\ watch[j].obj.phase = "Absent"

\* Nobody has synced what the cache has not shown yet.
Unseen ==
  \A c \in CSVs : ~Exists(cache, c) => \A v \in Views(c) : v.phase \in {"None", "Absent"}

\* c is Replacing for someone, or is about to be.
Decided(c) ==
  \/ \E v \in Views(c) : v.phase = "Replacing"
  \/ c \in InFlight \ stale /\ out[c].phase = "Replacing"

\* The cache that shows such a CSV shows a replacement of it.
SeesReplacement ==
  \A c \in CSVs : Exists(cache, c) /\ Decided(c) => Replacements(cache, c) # {}

Order ==
  /\ EventsCreated
  /\ AbsentLast
  /\ LastCarried
  /\ GoneInOrder
  /\ Unseen
  /\ SeesReplacement

\* A step that writes c, which the cache shows or which is created here.
LEMMA OrderStore ==
  ASSUME IInv, Order, NEW c \in CSVs, NEW obj \in Object, Store(c, obj),
         \A d \in CSVs : Aspect(cache'[d]) = Aspect(cache[d]),
         created \subseteq created', c \in created',
         \/ Exists(api, c) /\ Exists(cache, c)
         \/ /\ c \notin created /\ obj.phase = "None"
            /\ \A d \in created : Replaces[d] # c,
         obj.phase = "Absent" => PredecessorGone(c),
         obj.phase = "Replacing" => Decided(c),
         \A d \in InFlight' \ stale' : d \in InFlight \ stale /\ out'[d] = out[d]
  PROVE  Order'
  <1> USE CSVsAssumption
  <1>1. /\ DOMAIN watch' = 1..(Len(watch) + 1)
        /\ DOMAIN watch = 1..Len(watch)
        /\ Len(watch) \in Nat
        /\ \A i \in DOMAIN watch : watch'[i] = watch[i]
        /\ watch'[Len(watch) + 1] = [csv |-> c, obj |-> obj]
    BY DEF Store, IInv, TypeOK
  <1>2. /\ api'[c] = obj
        /\ \A d \in CSVs : d # c => api'[d] = api[d]
    BY DEF Store, IInv, TypeOK
  <1>3. \A d \in CSVs : /\ Behind(d)' <=> (d = c \/ Behind(d))
                        /\ cache'[d].phase = cache[d].phase
                        /\ Exists(cache, d)' <=> Exists(cache, d)
    BY <1>1, StoreFresher DEF IInv, Aspect, Exists
  <1>4. \A d \in CSVs : Views(d)' \subseteq Views(d) \cup (IF d = c THEN {Aspect(obj)} ELSE {})
    BY StoreViews DEF IInv
  <1>5. Aspect(obj).phase = obj.phase
    BY DEF Aspect
  <1>6. EventsCreated'
    BY <1>1 DEF Order, EventsCreated
  <1>7. ASSUME NEW i \in DOMAIN watch, watch[i].obj.phase = "Absent"  PROVE watch[i].csv # c
    <2> SUFFICES ASSUME watch[i].csv = c  PROVE FALSE
      OBVIOUS
    <2>1. c \in created
      BY DEF Order, EventsCreated
    <2>2. \A j \in DOMAIN watch : j > i => watch[j].csv # c
      BY <1>7 DEF Order, AbsentLast
    <2>3. watch[i].obj = api[c]
      BY <2>2 DEF IInv, Fresher
    <2> QED BY <1>7, <2>1, <2>3 DEF Exists
  <1>8. AbsentLast'
    <2> SUFFICES ASSUME NEW i \in DOMAIN watch', NEW j \in DOMAIN watch', i < j,
                        watch'[i].obj.phase = "Absent"
                 PROVE  watch'[j].csv # watch'[i].csv
      BY DEF AbsentLast
    <2>1. i \in DOMAIN watch
      BY <1>1
    <2>2. CASE j \in DOMAIN watch
      BY <1>1, <2>1, <2>2 DEF Order, AbsentLast
    <2>3. CASE j = Len(watch) + 1
      BY <1>1, <1>7, <2>1, <2>3
    <2> QED BY <1>1, <2>2, <2>3
  <1>9. LastCarried'
    <2> SUFFICES ASSUME NEW d \in CSVs, Behind(d)'
                 PROVE  \E i \in DOMAIN watch' :
                          /\ watch'[i].csv = d /\ watch'[i].obj = api'[d]
                          /\ \A j \in DOMAIN watch' : j > i => watch'[j].csv # d
      BY DEF LastCarried
    <2>1. CASE d = c
      <3>1. Len(watch) + 1 \in DOMAIN watch' /\ \A j \in DOMAIN watch' : ~(j > Len(watch) + 1)
        BY <1>1
      <3> QED BY <1>1, <1>2, <2>1, <3>1
    <2>2. CASE d # c
      <3>1. PICK i \in DOMAIN watch :
              /\ watch[i].csv = d /\ watch[i].obj = api[d]
              /\ \A j \in DOMAIN watch : j > i => watch[j].csv # d
        BY <1>3, <2>2 DEF Order, LastCarried
      <3>2. \A j \in DOMAIN watch' : j > i => watch'[j].csv # d
        <4> SUFFICES ASSUME NEW j \in DOMAIN watch', j > i  PROVE watch'[j].csv # d
          OBVIOUS
        <4>1. CASE j \in DOMAIN watch
          BY <1>1, <3>1, <4>1
        <4>2. CASE j = Len(watch) + 1
          BY <1>1, <2>2, <4>2
        <4> QED BY <1>1, <4>1, <4>2
      <3> QED BY <1>1, <1>2, <2>2, <3>1, <3>2
    <2> QED BY <2>1, <2>2
  <1>10. GoneInOrder'
    <2> SUFFICES ASSUME NEW i \in DOMAIN watch', NEW d \in CSVs,
                        watch'[i].obj.phase = "Absent", Replaces[watch'[i].csv] = d
                 PROVE  \/ ~Exists(cache, d)' /\ ~Behind(d)'
                        \/ \E j \in DOMAIN watch' :
                             j < i /\ watch'[j].csv = d /\ watch'[j].obj.phase = "Absent"
      BY DEF GoneInOrder
    <2>1. CASE i \in DOMAIN watch
      <3>1. CASE \E j \in DOMAIN watch :
                   j < i /\ watch[j].csv = d /\ watch[j].obj.phase = "Absent"
        BY <1>1, <3>1
      <3>2. CASE ~Exists(cache, d) /\ ~Behind(d)
        <4>1. d # c
          <5> SUFFICES ASSUME d = c  PROVE FALSE
            OBVIOUS
          <5>1. \A e \in created : Replaces[e] # c
            BY <3>2
          <5>2. watch[i].csv \in created /\ Replaces[watch[i].csv] = c
            BY <1>1, <2>1 DEF Order, EventsCreated
          <5> QED BY <5>1, <5>2
        <4> QED BY <1>3, <3>2, <4>1
      <3> QED BY <1>1, <2>1, <3>1, <3>2 DEF Order, GoneInOrder
    <2>2. CASE i = Len(watch) + 1
      <3>1. d = Replaces[c] /\ d # c /\ ~Exists(api, d)
        BY <1>1, <2>2 DEF PredecessorGone
      <3>2. CASE ~Behind(d)
        <4>1. Aspect(cache[d]) = Aspect(api[d])
          BY <3>2 DEF IInv, Fresher
        <4> QED BY <1>3, <3>1, <3>2, <4>1 DEF Aspect, Exists
      <3>3. CASE Behind(d)
        <4>1. PICK j \in DOMAIN watch : watch[j].csv = d /\ watch[j].obj = api[d]
          BY <3>3 DEF Order, LastCarried
        <4> QED BY <1>1, <2>2, <3>1, <4>1 DEF Exists
      <3> QED BY <3>2, <3>3
    <2> QED BY <1>1, <2>1, <2>2
  <1>11. Unseen'
    <2> SUFFICES ASSUME NEW d \in CSVs, ~Exists(cache, d)', NEW v \in Views(d)'
                 PROVE  v.phase \in {"None", "Absent"}
      BY DEF Unseen
    <2>1. v \in Views(d) => v.phase \in {"None", "Absent"}
      BY <1>3 DEF Order, Unseen
    <2>2. d = c => obj.phase = "None"
      BY <1>3
    <2> QED BY <1>4, <1>5, <2>1, <2>2
  <1>12. SeesReplacement'
    <2> SUFFICES ASSUME NEW d \in CSVs, Exists(cache, d)', Decided(d)'
                 PROVE  Replacements(cache, d)' # {}
      BY DEF SeesReplacement
    <2>1. Decided(d)
      BY <1>4, <1>5 DEF Decided
    <2>2. Replacements(cache, d) # {}
      BY <1>3, <2>1 DEF Order, SeesReplacement
    <2>3. Replacements(cache, d)' = Replacements(cache, d)
      BY <1>3 DEF Replacements
    <2> QED BY <2>2, <2>3
  <1> QED BY <1>6, <1>8, <1>9, <1>10, <1>11, <1>12 DEF Order

\* A step that writes nothing: it may decide to, from what the cache shows.
LEMMA OrderKept ==
  ASSUME IInv, Order, UNCHANGED <<api, watch, created>>,
         \A d \in CSVs : Aspect(cache'[d]) = Aspect(cache[d]),
         \A d \in InFlight' \ stale' :
           \/ d \in InFlight \ stale /\ out'[d] = out[d]
           \/ out'[d].phase = "Replacing" => Replacements(cache, d) # {}
  PROVE  Order'
  <1>1. \A d \in CSVs : Views(d)' = Views(d)
    BY DEF Views
  <1>2. \A d \in CSVs : cache'[d].phase = cache[d].phase
    BY DEF Aspect
  <1>3. \A d \in CSVs : /\ Behind(d)' <=> Behind(d)
                        /\ Exists(cache, d)' <=> Exists(cache, d)
                        /\ Replacements(cache, d)' = Replacements(cache, d)
    BY <1>2 DEF Behind, Exists, Replacements
  <1>4. EventsCreated' /\ AbsentLast'
    BY DEF Order, EventsCreated, AbsentLast
  <1>5. LastCarried'
    BY <1>3 DEF Order, LastCarried
  <1>6. GoneInOrder'
    BY <1>3 DEF Order, GoneInOrder
  <1>7. Unseen'
    BY <1>1, <1>3 DEF Order, Unseen
  <1>8. SeesReplacement'
    BY <1>1, <1>3 DEF Order, SeesReplacement, Decided
  <1> QED BY <1>4, <1>5, <1>6, <1>7, <1>8 DEF Order

LEMMA OrderDeliver ==
  ASSUME IInv, Order, Deliver
  PROVE  Order'
  <1> USE CSVsAssumption
  <1>1. /\ watch # <<>> /\ watch \in Seq(Event)
        /\ DOMAIN watch = 1..Len(watch) /\ Len(watch) \in Nat \ {0}
        /\ DOMAIN watch' = 1..(Len(watch) - 1)
        /\ \A i \in DOMAIN watch' : watch'[i] = watch[i + 1] /\ i + 1 \in DOMAIN watch
        /\ \A i \in DOMAIN watch : i # 1 => i - 1 \in DOMAIN watch' /\ watch'[i - 1] = watch[i]
        /\ 1 \in DOMAIN watch /\ Head(watch) = watch[1]
        /\ watch[1] \in Event
    BY DEF IInv, TypeOK, Deliver
  <1> DEFINE x == watch[1].csv
  <1>2. /\ x \in CSVs
        /\ cache'[x] = watch[1].obj
        /\ \A d \in CSVs : d # x => cache'[d] = cache[d]
    BY <1>1 DEF Deliver, Event, IInv, TypeOK
  <1>3. UNCHANGED <<api, out, stale, created>> /\ InFlight' = InFlight
    BY DEF Deliver, InFlight
  <1>4. ASSUME NEW d \in CSVs  PROVE Views(d)' \subseteq Views(d)
    <2>1. Aspect(api'[d]) \in Views(d)
      BY <1>3 DEF Views
    <2>2. Aspect(cache'[d]) \in Views(d)
      BY <1>1, <1>2 DEF Views
    <2>3. ASSUME NEW i \in DOMAIN watch', watch'[i].csv = d
          PROVE  Aspect(watch'[i].obj) \in Views(d)
      BY <1>1, <2>3 DEF Views
    <2> QED BY <2>1, <2>2, <2>3 DEF Views
  <1>5. ASSUME NEW d \in CSVs, Behind(d)'  PROVE Behind(d)
    BY <1>1, <1>5 DEF Behind
  <1>6. EventsCreated'
    BY <1>1, <1>3 DEF Order, EventsCreated
  <1>7. AbsentLast'
    <2> SUFFICES ASSUME NEW i \in DOMAIN watch', NEW j \in DOMAIN watch', i < j,
                        watch'[i].obj.phase = "Absent"
                 PROVE  watch'[j].csv # watch'[i].csv
      BY DEF AbsentLast
    <2>1. i + 1 < j + 1
      BY <1>1
    <2> QED BY <1>1, <2>1 DEF Order, AbsentLast
  <1>8. ASSUME watch[1].obj.phase = "Absent"
        PROVE  \A i \in DOMAIN watch' : watch'[i].csv # x
    <2> SUFFICES ASSUME NEW i \in DOMAIN watch', watch'[i].csv = x  PROVE FALSE
      OBVIOUS
    <2>1. 1 < i + 1
      BY <1>1
    <2> QED BY <1>1, <1>8, <2>1 DEF Order, AbsentLast
  <1>9. LastCarried'
    <2> SUFFICES ASSUME NEW d \in CSVs, NEW k \in DOMAIN watch', watch'[k].csv = d
                 PROVE  \E i \in DOMAIN watch' :
                          /\ watch'[i].csv = d /\ watch'[i].obj = api'[d]
                          /\ \A j \in DOMAIN watch' : j > i => watch'[j].csv # d
      BY DEF LastCarried, Behind
    <2>1. k + 1 \in DOMAIN watch /\ watch[k + 1].csv = d /\ k \in Nat /\ k >= 1
      BY <1>1
    <2>2. PICK i \in DOMAIN watch :
            /\ watch[i].csv = d /\ watch[i].obj = api[d]
            /\ \A j \in DOMAIN watch : j > i => watch[j].csv # d
      BY <2>1 DEF Order, LastCarried, Behind
    <2>3. i \in Nat /\ i # 1
      BY <1>1, <2>1, <2>2
    <2>4. i - 1 \in DOMAIN watch' /\ watch'[i - 1] = watch[i]
      BY <1>1, <2>3
    <2>5. ASSUME NEW j \in DOMAIN watch', j > i - 1  PROVE watch'[j].csv # d
      <3>1. j + 1 > i
        BY <1>1, <2>3, <2>5
      <3> QED BY <1>1, <2>2, <3>1
    <2> QED BY <1>3, <2>2, <2>4, <2>5
  <1>10. GoneInOrder'
    <2> SUFFICES ASSUME NEW i \in DOMAIN watch', NEW d \in CSVs,
                        watch'[i].obj.phase = "Absent", Replaces[watch'[i].csv] = d
                 PROVE  \/ ~Exists(cache, d)' /\ ~Behind(d)'
                        \/ \E j \in DOMAIN watch' :
                             j < i /\ watch'[j].csv = d /\ watch'[j].obj.phase = "Absent"
      BY DEF GoneInOrder
    <2>1. CASE ~Exists(cache, d) /\ ~Behind(d)
      <3>1. d # x
        BY <1>1, <2>1 DEF Behind
      <3> QED BY <1>2, <1>5, <2>1, <3>1 DEF Exists
    <2>2. CASE \E j \in DOMAIN watch :
                 j < i + 1 /\ watch[j].csv = d /\ watch[j].obj.phase = "Absent"
      <3>1. PICK j \in DOMAIN watch :
              j < i + 1 /\ watch[j].csv = d /\ watch[j].obj.phase = "Absent"
        BY <2>2
      <3>2. CASE j = 1
        BY <1>2, <1>8, <3>1, <3>2 DEF Exists, Behind
      <3>3. CASE j # 1
        <4>1. j - 1 < i
          BY <1>1, <3>1
        <4> QED BY <1>1, <3>1, <3>3, <4>1
      <3> QED BY <3>2, <3>3
    <2>3. i + 1 \in DOMAIN watch /\ watch[i + 1] = watch'[i]
      BY <1>1
    <2> QED BY <2>1, <2>2, <2>3 DEF Order, GoneInOrder
  <1>11. Unseen'
    <2> SUFFICES ASSUME NEW d \in CSVs, ~Exists(cache, d)', NEW v \in Views(d)'
                 PROVE  v.phase \in {"None", "Absent"}
      BY DEF Unseen
    <2>1. CASE d = x
      <3>1. ~Behind(d)'
        BY <1>2, <1>8, <2>1 DEF Exists, Behind
      <3>2. Truthful'
        BY DeliverTrue DEF IInv, Copies
      <3>3. Aspect(cache'[d]) = Aspect(api'[d])
        BY <3>1, <3>2 DEF Truthful, Fresher
      <3>4. Views(d)' = {Aspect(cache'[d])}
        BY <3>1, <3>3 DEF Views, Behind
      <3> QED BY <3>4 DEF Aspect, Exists
    <2>2. CASE d # x
      <3>1. ~Exists(cache, d)
        BY <1>2, <2>2 DEF Exists
      <3> QED BY <1>4, <3>1 DEF Order, Unseen
    <2> QED BY <2>1, <2>2
  <1>12. SeesReplacement'
    <2> SUFFICES ASSUME NEW d \in CSVs, Exists(cache, d)', Decided(d)'
                 PROVE  Replacements(cache, d)' # {}
      BY DEF SeesReplacement
    <2>1. Decided(d)
      BY <1>3, <1>4 DEF Decided
    <2>2. Exists(cache, d)
      <3> SUFFICES ASSUME ~Exists(cache, d)  PROVE FALSE
        OBVIOUS
      <3>1. ~\E v \in Views(d) : v.phase = "Replacing"
        BY DEF Order, Unseen
      <3>2. d \in InFlight \ stale
        BY <2>1, <3>1 DEF Decided
      <3> QED BY <3>2 DEF IInv, InFlightFresh
    <2>3. PICK e \in CSVs : Exists(cache, e) /\ Replaces[e] = d
      BY <2>1, <2>2 DEF Order, SeesReplacement, Replacements
    <2>4. Exists(cache, e)'
      <3>1. CASE e # x
        BY <1>2, <2>3, <3>1 DEF Exists
      <3>2. CASE e = x
        <4>1. ~\E j \in DOMAIN watch : j < 1
          BY <1>1
        <4>2. watch[1].obj.phase # "Absent"
          <5> SUFFICES ASSUME watch[1].obj.phase = "Absent"  PROVE FALSE
            OBVIOUS
          <5>1. ~Exists(cache, d)
            BY <1>1, <2>3, <3>2, <4>1 DEF Order, GoneInOrder
          <5> QED BY <2>2, <5>1
        <4> QED BY <1>2, <3>2, <4>2 DEF Exists
      <3> QED BY <3>1, <3>2
    <2> QED BY <2>3, <2>4 DEF Replacements
  <1> QED BY <1>6, <1>7, <1>9, <1>10, <1>11, <1>12 DEF Order

LEMMA OrderRestart ==
  ASSUME IInv, Order, Restart
  PROVE  Order'
  <1>1. DOMAIN watch' = {}
    BY DEF Restart
  <1>2. \A d \in CSVs : ~Behind(d)'
    BY <1>1 DEF Behind
  <1>3. \A d \in CSVs : Views(d)' = {Aspect(api[d])} /\ (Exists(cache, d)' <=> Exists(api, d))
    BY <1>1 DEF Restart, Views, Exists
  <1>4. EventsCreated' /\ AbsentLast' /\ LastCarried' /\ GoneInOrder'
    BY <1>1, <1>2 DEF EventsCreated, AbsentLast, LastCarried, GoneInOrder
  <1>5. Unseen'
    BY <1>3 DEF Unseen, Aspect, Exists
  <1>6. InFlight' = {}
    BY DEF Restart, InFlight
  <1>7. SeesReplacement'
    <2> SUFFICES ASSUME NEW d \in CSVs, Exists(cache, d)', Decided(d)'
                 PROVE  Replacements(cache, d)' # {}
      BY DEF SeesReplacement
    <2>1. Exists(api, d) /\ Aspect(api[d]) \in Views(d) /\ Aspect(api[d]).phase = "Replacing"
      BY <1>3, <1>6 DEF Decided, Views
    <2>2. PICK e \in created : Replaces[e] = d
      BY <2>1 DEF IInv, ReplacedByCreated
    <2>3. e \in CSVs
      BY DEF IInv, TypeOK
    <2>4. Exists(api, e)
      BY <2>1, <2>2, <2>3, CSVsAssumption DEF IInv, DoomedLast, PredecessorGone
    <2> QED BY <1>3, <2>2, <2>3, <2>4 DEF Replacements
  <1> QED BY <1>4, <1>5, <1>7 DEF Order

LEMMA OrderFinish ==
  ASSUME IInv, Order, NEW c \in CSVs, c \notin InFlight, NEW s, Finish(c, s),
         s.phase = "Replacing" => Replacements(cache, c) # {}
  PROVE  Order'
  <1>1. /\ out'[c] = s \/ out'[c] = NoStatus
        /\ \A d \in CSVs : d # c => out'[d] = out[d]
    BY DEF Finish, IInv, TypeOK
  <1>2. \A d \in InFlight' \ stale' :
           \/ d \in InFlight \ stale /\ out'[d] = out[d]
           \/ out'[d].phase = "Replacing" => Replacements(cache, d) # {}
    BY <1>1 DEF Finish, InFlight, NoStatus
  <1> QED BY <1>2, OrderKept DEF Finish

\* Whatever a sync decides, it decides Replacing only of a CSV for which it
\* has found a replacement.
LEMMA OrderDecide ==
  ASSUME IInv, Order, NEW c \in CSVs, Take(c), NEW statuses,
         Healthy(c, statuses) \/ Unhealthy(c, statuses),
         \A s \in statuses : s.phase = "Replacing" => Replacements(cache, c) # {}
  PROVE  Order'
  <1>1. PICK s \in statuses : Finish(c, s)
    BY DEF Healthy, Unhealthy
  <1> QED BY <1>1, OrderFinish DEF Take

LEMMA ReplacingOutcomes ==
  /\ \A ph, r : S(ph, r).phase = ph
  /\ \A ph : \A s \in NotInstalled(ph) : s.phase \in {"Failed", "InstallReady", ph}
BY DEF S, NotInstalled

LEMMA OrderSync ==
  ASSUME IInv, Order, NEW c \in CSVs, Sync(c)
  PROVE  Order'
  <1> USE DEF Transition, InPhase
  <1>1. CASE SyncGroup(c)
    BY <1>1, OrderDecide, ReplacingOutcomes DEF SyncGroup
  <1>2. CASE SyncNone(c)
    BY <1>2, OrderDecide, ReplacingOutcomes DEF SyncNone
  <1>3. CASE SyncPending(c)
    BY <1>3, OrderDecide, ReplacingOutcomes DEF SyncPending
  <1>4. CASE SyncInstallReady(c)
    BY <1>4, OrderDecide, ReplacingOutcomes DEF SyncInstallReady
  <1>5. CASE SyncInstalling(c)
    BY <1>5, OrderDecide, ReplacingOutcomes DEF SyncInstalling
  <1>6. \A next \in IsBeingReplaced(c) : next # NoCSV => Replacements(cache, c) # {}
    BY DEF IsBeingReplaced
  <1>7. CASE SyncSucceeded(c)
    BY <1>6, <1>7, OrderDecide, ReplacingOutcomes DEF SyncSucceeded
  <1>8. CASE SyncFailed(c)
    BY <1>6, <1>8, OrderDecide, ReplacingOutcomes DEF SyncFailed
  <1>9. CASE SyncReplacing(c)
    <2>1. CASE Healthy(c, {S("Deleting", "Other")})
      BY <1>9, <2>1, OrderDecide, ReplacingOutcomes DEF SyncReplacing
    <2>2. CASE UNCHANGED <<api, cache, watch, out, stale, created, succeeded, faults>>
      BY <2>2, OrderKept DEF InFlight
    <2> QED BY <1>9, <2>1, <2>2 DEF SyncReplacing
  <1>10. CASE SyncDeleting(c)
    <2> DEFINE obj == Deleted(api[c])
    <2>1. api[c] \in Object /\ Take(c)
      BY <1>10 DEF IInv, TypeOK, SyncDeleting
    <2>2. /\ obj \in Object /\ Store(c, obj)
          /\ obj.phase = "Absent" \/ obj.phase = api[c].phase
      BY <1>10, <2>1, ObjectTypes DEF SyncDeleting, Deleted, Absent, Object
    <2>3. /\ c \in created /\ PredecessorGone(c) /\ Exists(api, c) /\ Exists(cache, c)
      BY <1>10, CachedView DEF SyncDeleting, Take
    <2>4. api[c].phase = "Replacing" => Decided(c)
      BY CachedView DEF Decided
    <2>5. UNCHANGED <<cache, out, stale, created>> /\ InFlight' = InFlight
      BY <1>10 DEF SyncDeleting, InFlight
    <2> HIDE DEF obj
    <2> QED BY <2>2, <2>3, <2>4, <2>5, OrderStore
  <1>11. CASE AddFinalizer(c)
    <2> DEFINE obj == [api[c] EXCEPT !.meta = "finalizer"]
    <2>1. api[c] \in Object /\ cache[c] \in Object /\ cache \in [CSVs -> Object]
      BY DEF IInv, TypeOK
    <2>2. \A d \in CSVs : Aspect(cache'[d]) = Aspect(cache[d])
      BY <1>11, <2>1, AspectOfMeta DEF AddFinalizer
    <2>3. UNCHANGED <<out, stale, created>> /\ InFlight' = InFlight
      BY <1>11 DEF AddFinalizer, InFlight
    <2>4. CASE ~Behind(c) /\ Store(c, obj)
      <3>1. obj \in Object /\ obj.phase = api[c].phase
        BY <2>1, ObjectTypes DEF Object
      <3>2. c \in created /\ Exists(api, c) /\ Exists(cache, c)
        BY <1>11, <2>4, CachedView DEF AddFinalizer, Take, Exists
      <3>3. api[c].phase = "Replacing" => Decided(c)
        BY CachedView DEF Decided
      <3> HIDE DEF obj
      <3> QED BY <2>2, <2>3, <2>4, <3>1, <3>2, <3>3, OrderStore DEF Exists
    <2>5. CASE UNCHANGED <<api, watch>>
      BY <2>2, <2>3, <2>5, OrderKept
    <2> QED BY <1>11, <2>4, <2>5 DEF AddFinalizer
  <1>12. CASE RemoveFinalizer(c)
    <2>1. cache[c] \in Object /\ cache \in [CSVs -> Object]
      BY DEF IInv, TypeOK
    <2>2. \A d \in CSVs : Aspect(cache'[d]) = Aspect(cache[d])
      BY <1>12, <2>1, AspectOfMeta DEF RemoveFinalizer
    <2>3. UNCHANGED <<out, stale, created>> /\ InFlight' = InFlight
      BY <1>12 DEF RemoveFinalizer, InFlight
    <2>4. CASE ~Behind(c) /\ Store(c, Absent)
      <3>1. Absent \in Object /\ Absent.phase = "Absent"
        BY ObjectTypes DEF Absent
      <3>2. c \in created /\ Exists(api, c) /\ Exists(cache, c) /\ PredecessorGone(c)
        BY <1>12, <2>4, CachedView DEF RemoveFinalizer, Take, Exists
      <3> QED BY <2>2, <2>3, <2>4, <3>1, <3>2, OrderStore
    <2>5. CASE UNCHANGED <<api, watch>>
      BY <2>2, <2>3, <2>5, OrderKept
    <2> QED BY <1>12, <2>4, <2>5 DEF RemoveFinalizer
  <1>13. CASE Annotate(c)
    <2> DEFINE obj == [api[c] EXCEPT !.meta = "member"]
    <2>1. api[c] \in Object
      BY DEF IInv, TypeOK
    <2>2. obj \in Object /\ Store(c, obj) /\ obj.phase = api[c].phase
      BY <1>13, <2>1, ObjectTypes DEF Annotate, Object
    <2>3. c \in created /\ Exists(api, c) /\ Exists(cache, c)
      BY <1>13, CachedView DEF Annotate, Exists
    <2>4. api[c].phase = "Replacing" => Decided(c)
      BY CachedView DEF Decided
    <2>5. /\ UNCHANGED <<cache, out, created>>
          /\ \A d \in InFlight' \ stale' : d \in InFlight \ stale
      BY <1>13 DEF Annotate, InFlight
    <2> HIDE DEF obj
    <2> QED BY <2>2, <2>3, <2>4, <2>5, OrderStore DEF Exists
  <1> QED BY <1>1, <1>2, <1>3, <1>4, <1>5, <1>7, <1>8, <1>9, <1>10, <1>11, <1>12, <1>13 DEF Sync

LEMMA OrderUpdateStatus ==
  ASSUME IInv, Order, NEW c \in CSVs, UpdateStatus(c)
  PROVE  Order'
  <1> DEFINE obj == WithStatus(api[c], out[c])
  <1>1. /\ api[c] \in Object /\ out[c] \in Status /\ c \in InFlight
        /\ out \in [CSVs -> Status \cup {NoStatus}]
    BY DEF IInv, TypeOK, UpdateStatus, InFlight
  <1>2. /\ \A d \in InFlight' \ stale' : d \in InFlight \ stale /\ out'[d] = out[d]
        /\ UNCHANGED <<cache, created>>
    BY <1>1 DEF UpdateStatus, InFlight
  <1>3. CASE c \notin stale /\ Store(c, obj)
    <2>1. obj \in Object /\ obj.phase = out[c].phase /\ obj.phase # "Absent"
      BY <1>1, ObjectTypes, AspectOfStatus DEF Status, Phases
    <2>2. Exists(api, c) /\ Exists(cache, c) /\ c \in created
      BY <1>1, <1>3, CachedView DEF IInv, InFlightFresh, Exists
    <2>3. out[c].phase = "Replacing" => Decided(c)
      BY <1>1, <1>3 DEF Decided
    <2> HIDE DEF obj
    <2> QED BY <1>2, <1>3, <2>1, <2>2, <2>3, OrderStore
  <1>4. CASE UNCHANGED <<api, watch>>
    BY <1>2, <1>4, OrderKept
  <1> QED BY <1>3, <1>4 DEF UpdateStatus

LEMMA OrderStep ==
  ASSUME ~UserDeletes, ~GetErrors, IInv, Order, [Next]_vars
  PROVE  Order'
  <1>1. ASSUME NEW c \in CSVs, Create(c)  PROVE Order'
    <2>1. Fresh \in Object /\ Fresh.phase = "None" /\ Store(c, Fresh)
      BY <1>1, ObjectTypes DEF Create, Fresh, Absent
    <2>2. UNCHANGED <<cache, out, stale>> /\ InFlight' = InFlight
      BY <1>1 DEF Create, InFlight
    <2> QED BY <1>1, <2>1, <2>2, OrderStore DEF Create
  <1>2. ASSUME NEW c \in CSVs, DetectedClusterChange(c)  PROVE Order'
    <2> DEFINE obj == WithStatus(api[c], S("Pending", "Other"))
    <2>1. /\ S("Pending", "Other") \in Status /\ S("Pending", "Other").phase = "Pending"
          /\ api[c] \in Object
      BY Outcomes DEF S, Phases, Reasons, IInv, TypeOK
    <2>2. obj \in Object /\ Store(c, obj) /\ obj.phase = "Pending"
      BY <1>2, <2>1, ObjectTypes, AspectOfStatus DEF DetectedClusterChange
    <2>3. Exists(api, c) /\ Exists(cache, c) /\ c \in created
      BY <1>2, CachedView DEF DetectedClusterChange, Exists
    <2>4. /\ UNCHANGED <<cache, out, created>>
          /\ \A d \in InFlight' \ stale' : d \in InFlight \ stale
      BY <1>2 DEF DetectedClusterChange, InFlight
    <2> HIDE DEF obj
    <2> QED BY <2>2, <2>3, <2>4, OrderStore
  <1>3. ASSUME UNCHANGED vars  PROVE Order'
    BY <1>3, OrderKept DEF vars, InFlight
  <1>4. \A c \in CSVs : ~UserDelete(c)
    BY DEF UserDelete
  <1> QED BY <1>1, <1>2, <1>3, <1>4, OrderSync, OrderUpdateStatus, OrderDeliver, OrderRestart
         DEF Next

LEMMA OrderInit == Init => Order
  <1> SUFFICES ASSUME Init  PROVE Order
    OBVIOUS
  <1>1. DOMAIN watch = {} /\ \A c \in CSVs : ~Behind(c) /\ ~Exists(cache, c)
    BY DEF Init, Behind, Exists, Absent
  <1>2. \A c \in CSVs : Views(c) = {Aspect(Absent)}
    BY DEF Init, Views
  <1>3. Aspect(Absent).phase = "Absent"
    BY DEF Aspect, Absent
  <1> QED BY <1>1, <1>2, <1>3 DEF Order, EventsCreated, AbsentLast, LastCarried, GoneInOrder,
             Unseen, SeesReplacement

\* The sync of a Replacing CSV never dereferences a replacement that is not
\* there: however the cache lags and whenever the process restarts, a cache
\* that shows a CSV as Replacing shows a CSV that replaces it.
THEOREM ReplacementSeen ==
  ASSUME ~UserDeletes, ~GetErrors
  PROVE  Spec => []NoPanic
  <1> DEFINE Inv == IInv /\ Order /\ NoPanic
  <1>1. Init => Inv
    BY InitInd, OrderInit DEF Init, NoPanic
  <1>2. ASSUME Inv, [Next]_vars  PROVE Inv'
    <2>1. IInv' /\ Order'
      BY <1>2, StepInd, OrderStep
    <2>2. ASSUME NEW c \in CSVs, SyncReplacing(c)  PROVE NoPanic'
      <3>1. Exists(cache, c) /\ cache[c].phase = "Replacing"
        BY <2>2 DEF SyncReplacing, InPhase, Transition, Take
      <3>2. Decided(c)
        BY <1>2, <3>1, CachedView DEF Decided
      <3>3. Replacements(cache, c) # {}
        BY <1>2, <3>1, <3>2 DEF Order, SeesReplacement
      <3>4. NoCSV \notin IsBeingReplaced(c)
        BY <3>3, CSVsAssumption DEF IsBeingReplaced, Replacements
      <3> QED BY <1>2, <2>2, <3>4 DEF SyncReplacing, Healthy, Finish, NoPanic
    <2>3. ASSUME NEW c \in CSVs, Sync(c), ~SyncReplacing(c)  PROVE NoPanic'
      BY <1>2, <2>3 DEF Sync, AddFinalizer, RemoveFinalizer, Annotate, SyncGroup, SyncNone,
         SyncPending, SyncInstallReady, SyncInstalling, SyncSucceeded, SyncFailed,
         SyncDeleting, Healthy, Unhealthy, Finish, NoPanic
    <2>4. NoPanic'
      BY <1>2, <2>2, <2>3 DEF Next, Create, UserDelete, DetectedClusterChange, UpdateStatus,
         Deliver, Restart, vars, NoPanic
    <2> QED BY <2>1, <2>4
  <1> QED BY <1>1, <1>2, PTL DEF Spec

=============================================================================
