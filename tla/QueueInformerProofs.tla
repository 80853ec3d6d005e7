------------------------- MODULE QueueInformerProofs -------------------------
(***************************************************************************)
(* For any number of keys, workers, versions and failures: the types, one  *)
(* worker per key, no version missed, no wake-up lost.                     *)
(*                                                                         *)
(* OneWorkerPerKey is not inductive: a worker takes the head of the queue, *)
(* and that no one holds it follows from what the queue holds (Queued)     *)
(* and from the keys in the workers' hands being in the processing set     *)
(* (Held).  NothingMissed and NoLostWakeup need to know that no worker has *)
(* anything before the workers start (OffAtFirst).                         *)
(*                                                                         *)
(* From the same invariant, step by step: the implementation of            *)
(* SyncService.                                                            *)
(***************************************************************************)
EXTENDS QueueInformer, TLAPS

WorkerState == [at : Places, key : Keys \cup {NoKey}, version : 0..MaxVersion]

Distinct(q) == \A i, j \in 1..Len(q) : q[i] = q[j] => i = j

\* Every queued key is queued once, is dirty and is not being processed.
Queued ==
  /\ \A i \in 1..Len(queue) : queue[i] \in dirty /\ queue[i] \notin processing
  /\ Distinct(queue)

\* What a busy worker holds is being processed.
Held == \A w \in Workers : Busy(w) => worker[w].key \in processing

OffAtFirst ==
  run \in {"Starting", "CacheSync"} => \A w \in Workers : worker[w].at = "Off"

IInv ==
  /\ TypeOK /\ Queued /\ Held /\ OneWorkerPerKey
  /\ OffAtFirst /\ NothingMissed /\ NoLostWakeup

-----------------------------------------------------------------------------
(* Sequences without repetition *)

\* Appending an element that is not in the sequence.
LEMMA AppendDistinct ==
  ASSUME NEW S, NEW q \in Seq(S), NEW x \in S, Distinct(q), \A i \in 1..Len(q) : q[i] # x
  PROVE  /\ Append(q, x) \in Seq(S)
         /\ Distinct(Append(q, x))
         /\ \A i \in 1..Len(Append(q, x)) :
              Append(q, x)[i] = x \/ \E j \in 1..Len(q) : Append(q, x)[i] = q[j]
<1> DEFINE r == Append(q, x)
<1>1. r \in Seq(S) /\ Len(r) = Len(q) + 1 /\ Len(q) \in Nat
  OBVIOUS
<1>2. r[Len(q) + 1] = x /\ \A i \in 1..Len(q) : r[i] = q[i]
  OBVIOUS
<1>3. \A i \in 1..Len(r) : i \in 1..Len(q) \/ i = Len(q) + 1
  BY <1>1
<1> HIDE DEF r
<1>4. \A i \in 1..Len(r) : r[i] = x \/ \E j \in 1..Len(q) : r[i] = q[j]
  BY <1>2, <1>3
<1>5. ASSUME NEW i \in 1..Len(r), NEW j \in 1..Len(r), r[i] = r[j]
      PROVE  i = j
  BY <1>2, <1>3, <1>5 DEF Distinct
<1>6. Distinct(r)
  BY <1>5 DEF Distinct
<1> QED
  BY <1>1, <1>4, <1>6 DEF r

\* Taking the head: it does not occur in what is left.
LEMMA TailDistinct ==
  ASSUME NEW S, NEW q \in Seq(S), q # <<>>, Distinct(q)
  PROVE  /\ Head(q) \in S /\ Tail(q) \in Seq(S)
         /\ Distinct(Tail(q))
         /\ \E i \in 1..Len(q) : Head(q) = q[i]
         /\ \A i \in 1..Len(Tail(q)) :
              Tail(q)[i] # Head(q) /\ \E j \in 1..Len(q) : Tail(q)[i] = q[j]
<1>1. Len(q) \in Nat \ {0} /\ Head(q) = q[1] /\ Tail(q) \in Seq(S) /\ Len(Tail(q)) = Len(q) - 1
  OBVIOUS
<1>2. \A i \in 1..Len(Tail(q)) : Tail(q)[i] = q[i + 1] /\ i + 1 \in 1..Len(q) /\ i + 1 # 1
  BY <1>1
<1>3. 1 \in 1..Len(q) /\ q[1] \in S
  BY <1>1
<1>4. \A i \in 1..Len(Tail(q)) : Tail(q)[i] # Head(q)
  BY <1>1, <1>2, <1>3 DEF Distinct
<1>5. ASSUME NEW i \in 1..Len(Tail(q)), NEW j \in 1..Len(Tail(q)), Tail(q)[i] = Tail(q)[j]
      PROVE  i = j
  <2>1. i + 1 = j + 1
    BY <1>2, <1>5 DEF Distinct
  <2> QED
    BY <1>1, <2>1
<1>6. Distinct(Tail(q))
  BY <1>5 DEF Distinct
<1> QED
  BY <1>1, <1>2, <1>3, <1>4, <1>6

-----------------------------------------------------------------------------
(* The work queue *)

\* Signal changes nothing but where one sleeping worker is, and leaves a
\* worker that is awake.
LEMMA SignalWakes ==
  ASSUME NEW ws \in [Workers -> WorkerState], NEW x \in Signalled(ws)
  PROVE  /\ x \in [Workers -> WorkerState]
         /\ \A w \in Workers : x[w].key = ws[w].key
         /\ \A w \in Workers : x[w].at = ws[w].at \/ (ws[w].at = "Waiting" /\ x[w].at = "Getting")
         /\ \E w \in Workers : x[w].at # "Waiting"
<1> DEFINE asleep == {w \in Workers : ws[w].at = "Waiting"}
<1>1. CASE asleep = {}
  <2>1. x = ws
    BY <1>1 DEF Signalled
  <2>2. PICK w \in Workers : TRUE
    BY WorkersAssumption
  <2>3. ws[w].at # "Waiting"
    BY <1>1
  <2> QED
    BY <2>1, <2>3
<1>2. CASE asleep # {}
  <2>1. PICK v \in asleep : x = [ws EXCEPT ![v].at = "Getting"]
    BY <1>2 DEF Signalled
  <2>2. "Getting" \in Places
    BY DEF Places
  <2>3. x \in [Workers -> WorkerState] /\ x[v].at = "Getting" /\ v \in Workers
    BY <2>1, <2>2 DEF WorkerState
  <2>4. \A w \in Workers : w # v => x[w] = ws[w]
    BY <2>1
  <2>5. x[v].key = ws[v].key /\ ws[v].at = "Waiting"
    BY <2>1 DEF WorkerState
  <2> QED
    BY <2>3, <2>4, <2>5
<1> QED
  BY <1>1, <1>2

\* What workers see of an action that at most wakes one of them.
Woken ==
  /\ worker' \in [Workers -> WorkerState]
  /\ \A w \in Workers : worker'[w].key = worker[w].key
  /\ \A w \in Workers : \/ worker'[w].at = worker[w].at
                        \/ worker[w].at = "Waiting" /\ worker'[w].at = "Getting"

\* Add keeps the queue in order, notes the key unless the queue is shut down,
\* and leaves a worker awake when it pushes it.
LEMMA AddEffect ==
  ASSUME TypeOK, Queued, NEW k \in Keys, Add(k), processing' = processing
  PROVE  /\ queue' \in Seq(Keys) /\ dirty' \subseteq Keys
         /\ Queued'
         /\ dirty \subseteq dirty' /\ (~ shutting => k \in dirty')
         /\ Woken
         /\ queue' = queue \/ \E w \in Workers : worker'[w].at # "Waiting"
<1> USE DEF TypeOK
<1>0. worker \in [Workers -> WorkerState]
  BY DEF WorkerState
<1>1. CASE shutting \/ k \in dirty
  BY <1>0, <1>1 DEF Add, Woken, Queued
<1>2. CASE ~ (shutting \/ k \in dirty)
  <2>1. dirty' = dirty \cup {k}
    BY <1>2 DEF Add
  <2>2. CASE k \in processing
    BY <1>0, <1>2, <2>1, <2>2 DEF Add, Woken, Queued
  <2>3. CASE k \notin processing
    <3>1. queue' = Append(queue, k) /\ worker' \in Signalled(worker)
      BY <1>2, <2>3 DEF Add
    <3>2. \A i \in 1..Len(queue) : queue[i] # k
      BY <1>2 DEF Queued
    <3>3. Distinct(queue)
      BY DEF Queued
    <3>4. /\ queue' \in Seq(Keys) /\ Distinct(queue')
          /\ \A i \in 1..Len(queue') : queue'[i] = k \/ \E j \in 1..Len(queue) : queue'[i] = queue[j]
      BY <3>1, <3>2, <3>3, AppendDistinct
    <3>5. Queued'
      BY <2>1, <2>3, <3>4 DEF Queued
    <3>6. Woken /\ \E w \in Workers : worker'[w].at # "Waiting"
      BY <1>0, <3>1, SignalWakes DEF Woken
    <3> QED
      BY <2>1, <3>4, <3>5, <3>6
  <2> QED
    BY <2>2, <2>3
<1> QED
  BY <1>1, <1>2

-----------------------------------------------------------------------------
(* Every step keeps the invariant *)

LEMMA InitIInv == Init => IInv
<1> SUFFICES ASSUME Init PROVE IInv
  OBVIOUS
<1>0. 0 \in 0..MaxVersion /\ 0 \in 0..MaxRequeues /\ 0 \in 0..MaxFailures
  BY BoundsAssumption
<1>1. TypeOK
  <2>1. [version |-> 0, exists |-> FALSE] \in Object
    BY <1>0 DEF Object
  <2>2. Off \in WorkerState
    BY <1>0 DEF Off, WorkerState, Places
  <2>3. worker \in [Workers -> WorkerState] /\ cache \in [Keys -> Object]
    BY <2>1, <2>2 DEF Init
  <2>4. /\ requeues \in [Keys -> 0..MaxRequeues] /\ failures \in 0..MaxFailures
        /\ seen \in [Keys -> 0..MaxVersion] /\ good \in [Keys -> 0..MaxVersion]
    BY <1>0 DEF Init
  <2>5. /\ events \subseteq Keys /\ dirty \subseteq Keys /\ processing \subseteq Keys
        /\ waiting \subseteq Keys /\ queue \in Seq(Keys) /\ run \in Stages
    BY DEF Init, Stages
  <2>6. shutting \in BOOLEAN /\ cancelled \in BOOLEAN
    BY Zenon DEF Init
  <2> QED
    BY <2>3, <2>4, <2>5, <2>6 DEF TypeOK, WorkerState
<1>2. Queued
  BY DEF Init, Queued, Distinct
<1>3. \A w \in Workers : worker[w].at = "Off"
  BY DEF Init, Off
<1>4. Held /\ OneWorkerPerKey /\ OffAtFirst
  BY <1>3 DEF Held, OneWorkerPerKey, OffAtFirst, Busy
<1>5. NothingMissed /\ NoLostWakeup
  BY DEF Init, NothingMissed, NoLostWakeup
<1> QED
  BY <1>1, <1>2, <1>4, <1>5 DEF IInv

\* A step that at most wakes workers up keeps what they hold.
LEMMA WokenKeeps ==
  ASSUME Woken, Held, OneWorkerPerKey, OffAtFirst, processing' = processing, run' = run
  PROVE  Held' /\ OneWorkerPerKey' /\ OffAtFirst'
<1>1. \A w \in Workers : /\ worker'[w].key = worker[w].key
                         /\ Busy(w)' = Busy(w)
                         /\ worker[w].at = "Off" => worker'[w].at = "Off"
  BY DEF Woken, Busy
<1> QED
  BY <1>1 DEF Held, OneWorkerPerKey, OffAtFirst

\* The steps that add a key: the end of a delay, an event, a requeue.
LEMMA AddKeeps ==
  ASSUME IInv, NEW k \in Keys, Add(k),
         events' \in {events, events \ {k}}, waiting' \in {waiting, waiting \ {k}},
         UNCHANGED <<cache, processing, requeues, shutting, run, cancelled, seen, good, failures>>
  PROVE  IInv'
<1>1. /\ queue' \in Seq(Keys) /\ dirty' \subseteq Keys
      /\ Queued'
      /\ dirty \subseteq dirty' /\ (~ shutting => k \in dirty')
      /\ Woken
      /\ queue' = queue \/ \E w \in Workers : worker'[w].at # "Waiting"
  BY AddEffect DEF IInv
<1>2. TypeOK'
  BY <1>1 DEF IInv, TypeOK, Woken, WorkerState
<1>3. Held' /\ OneWorkerPerKey' /\ OffAtFirst'
  BY <1>1, WokenKeeps DEF IInv
<1>4. \A w \in Workers : /\ worker'[w].key = worker[w].key
                         /\ worker[w].at = "Got" => worker'[w].at = "Got"
                         /\ worker[w].at # "Waiting" => worker'[w].at # "Waiting"
  BY <1>1 DEF Woken
<1>5. NothingMissed'
  BY <1>1, <1>4 DEF IInv, NothingMissed
<1>6. NoLostWakeup'
  BY <1>1, <1>4 DEF IInv, NoLostWakeup
<1> QED
  BY <1>1, <1>2, <1>3, <1>5, <1>6 DEF IInv

\* The informer's own steps touch neither the queue nor the workers.
LEMMA InformerKeeps ==
  ASSUME IInv, Resync \/ \E k \in Keys : Change(k) \/ Delete(k)
  PROVE  IInv'
<1>1. UNCHANGED <<queueVars, worker, run, seen>>
  BY DEF Resync, Change, Delete
<1>2. Queued' /\ Held' /\ OneWorkerPerKey' /\ OffAtFirst' /\ NoLostWakeup'
  BY <1>1 DEF IInv, Queued, Held, OneWorkerPerKey, OffAtFirst, NoLostWakeup, Busy, queueVars
<1>3. cache \in [Keys -> Object]
  BY DEF IInv, TypeOK
<1>4. CASE Resync
  BY <1>1, <1>2, <1>4 DEF IInv, TypeOK, Resync, NothingMissed, queueVars
<1>5. ASSUME NEW k \in Keys, Change(k) PROVE IInv'
  <2>1. [version |-> cache[k].version + 1, exists |-> TRUE] \in Object
    BY <1>3, <1>5, BoundsAssumption DEF Change, Object
  <2>2. /\ cache' \in [Keys -> Object]
        /\ events' = events \cup {k}
        /\ \A j \in Keys : j # k => cache'[j] = cache[j]
    BY <1>3, <1>5, <2>1 DEF Change
  <2>3. TypeOK'
    BY <1>5, <2>2 DEF IInv, TypeOK, Change, queueVars
  <2>4. NothingMissed'
    BY <1>1, <2>2 DEF IInv, NothingMissed, queueVars
  <2> QED
    BY <1>2, <2>3, <2>4 DEF IInv
<1>6. ASSUME NEW k \in Keys, Delete(k) PROVE IInv'
  <2>1. /\ cache' \in [Keys -> Object]
        /\ ~ cache'[k].exists
        /\ \A j \in Keys : j # k => cache'[j] = cache[j]
    BY <1>3, <1>6 DEF Delete, Object
  <2>2. TypeOK'
    BY <1>6, <2>1 DEF IInv, TypeOK, Delete, queueVars
  <2>3. NothingMissed'
    BY <1>1, <1>6, <2>1 DEF IInv, NothingMissed, Delete, queueVars
  <2> QED
    BY <1>2, <2>2, <2>3 DEF IInv
<1> QED
  BY <1>4, <1>5, <1>6

\* A step of one worker, which leaves the others alone.
Moves(w) == \A v \in Workers : v # w => worker'[v] = worker[v]

LEMMA GetKeeps ==
  ASSUME IInv, NEW w \in Workers, Get(w)
  PROVE  IInv'
<1>0. worker \in [Workers -> WorkerState]
  BY DEF IInv, TypeOK, WorkerState
<1>1. UNCHANGED <<cache, events, waiting, requeues, shutting, run, cancelled, seen, good, failures>>
  BY DEF Get
<1>2. CASE queue = <<>>
  <2>1. /\ worker' \in [Workers -> WorkerState] /\ Moves(w)
        /\ worker'[w].at \in {"Stopped", "Waiting"}
        /\ UNCHANGED <<queue, dirty, processing>>
    BY <1>0, <1>2 DEF Get, WorkerState, Places, Moves
  <2>2. TypeOK'
    BY <1>1, <2>1 DEF IInv, TypeOK, WorkerState
  <2>3. Queued' /\ NoLostWakeup'
    BY <1>2, <2>1 DEF IInv, Queued, NoLostWakeup
  <2>4. ~ Busy(w)' /\ \A v \in Workers : v # w => Busy(v)' = Busy(v)
    BY <2>1 DEF Busy, Moves
  <2>5. Held' /\ OneWorkerPerKey'
    BY <2>1, <2>4 DEF IInv, Held, OneWorkerPerKey, Moves
  <2>6. worker[w].at = "Getting"
    BY DEF Get
  <2>7. OffAtFirst' /\ NothingMissed'
    BY <1>1, <2>1, <2>6 DEF IInv, OffAtFirst, NothingMissed, Moves
  <2> QED
    BY <2>2, <2>3, <2>5, <2>7 DEF IInv
<1>3. CASE queue # <<>>
  <2> DEFINE k == Head(queue)
  <2>1. /\ k \in Keys /\ Tail(queue) \in Seq(Keys) /\ Distinct(Tail(queue))
        /\ \E i \in 1..Len(queue) : k = queue[i]
        /\ \A i \in 1..Len(Tail(queue)) :
             Tail(queue)[i] # k /\ \E j \in 1..Len(queue) : Tail(queue)[i] = queue[j]
    <3>1. queue \in Seq(Keys) /\ Distinct(queue)
      BY DEF IInv, TypeOK, Queued
    <3> QED
      BY <1>3, <3>1, TailDistinct
  <2>2. /\ worker' = [worker EXCEPT ![w].at = "Got", ![w].key = k]
        /\ queue' = Tail(queue)
        /\ processing' = processing \cup {k}
        /\ dirty' = dirty \ {k}
        /\ worker[w].at = "Getting"
    BY <1>3 DEF Get
  <2>3. k \in dirty /\ k \notin processing
    BY <2>1 DEF IInv, Queued
  <2> HIDE DEF k
  <2>4. /\ worker' \in [Workers -> WorkerState] /\ Moves(w)
        /\ worker'[w].at = "Got" /\ worker'[w].key = k
    BY <1>0, <2>1, <2>2 DEF WorkerState, Places, Moves
  <2>5. TypeOK'
    BY <1>1, <2>1, <2>2, <2>4 DEF IInv, TypeOK, WorkerState
  <2>6. Queued'
    BY <2>1, <2>2 DEF IInv, Queued
  <2>7. Busy(w)' /\ \A v \in Workers : v # w => Busy(v)' = Busy(v)
    BY <2>4 DEF Busy, Moves
  <2>8. Held'
    BY <2>2, <2>4, <2>7 DEF IInv, Held, Moves
  <2>9. \A v \in Workers : v # w /\ Busy(v)' => worker'[v].key # k
    BY <2>3, <2>4, <2>7 DEF IInv, Held, Moves
  <2>10. OneWorkerPerKey'
    BY <2>4, <2>7, <2>9 DEF IInv, OneWorkerPerKey, Moves
  <2>11. OffAtFirst' /\ NoLostWakeup'
    BY <1>1, <2>2, <2>4 DEF IInv, OffAtFirst, NoLostWakeup
  <2>12. NothingMissed'
    BY <1>1, <2>2, <2>4 DEF IInv, NothingMissed, Moves
  <2> QED
    BY <2>5, <2>6, <2>8, <2>10, <2>11, <2>12 DEF IInv
<1> QED
  BY <1>2, <1>3

\* A worker that holds a key goes on to the next step of its handling: what it
\* holds and what is queued stay, and only a lookup stops it being "Got".
LEMMA HandlingKeeps ==
  ASSUME IInv, TypeOK', NEW w \in Workers, Busy(w), Moves(w),
         worker'[w].at \in {"Syncing", "Reporting", "Finishing"},
         worker'[w].key = worker[w].key,
         \/ worker[w].at # "Got" /\ seen' = seen
         \/ seen' = [seen EXCEPT ![worker[w].key] = cache[worker[w].key].version]
         \/ ~ cache[worker[w].key].exists /\ seen' = seen,
         UNCHANGED <<cache, events, queue, dirty, processing, shutting, run>>
  PROVE  IInv'
<1>1. /\ \A v \in Workers : Busy(v)' = Busy(v)
      /\ \A v \in Workers : worker'[v].key = worker[v].key
  BY DEF Busy, Moves
<1>2. Queued' /\ Held' /\ OneWorkerPerKey'
  BY <1>1 DEF IInv, Queued, Held, OneWorkerPerKey
<1>3. OffAtFirst' /\ NoLostWakeup'
  BY DEF IInv, OffAtFirst, NoLostWakeup, Busy
<1>4. NothingMissed'
  <2> SUFFICES ASSUME ~ shutting, NEW j \in Keys, cache[j].exists, seen'[j] # cache[j].version
               PROVE  \/ j \in events \cup dirty
                      \/ \E v \in Workers : worker'[v].at = "Got" /\ worker'[v].key = j
    BY DEF NothingMissed
  <2>1. seen \in [Keys -> 0..MaxVersion]
    BY DEF IInv, TypeOK
  <2>2. seen'[j] = seen[j] /\ (worker[w].at # "Got" \/ worker[w].key # j)
    BY <2>1
  <2> QED
    BY <2>2 DEF IInv, NothingMissed, Moves
<1> QED
  BY <1>2, <1>3, <1>4 DEF IInv

LEMMA LookupKeeps ==
  ASSUME IInv, NEW w \in Workers, Lookup(w)
  PROVE  IInv'
<1> DEFINE k == worker[w].key
<1>0. /\ worker \in [Workers -> WorkerState] /\ cache \in [Keys -> Object]
      /\ processing \subseteq Keys /\ requeues \in [Keys -> 0..MaxRequeues]
      /\ seen \in [Keys -> 0..MaxVersion]
  BY DEF IInv, TypeOK, WorkerState
<1>1. worker[w].at = "Got" /\ Busy(w)
  BY DEF Lookup, Busy
<1>2. k \in Keys
  BY <1>0, <1>1 DEF IInv, Held
<1>3. cache[k].version \in 0..MaxVersion
  BY <1>0, <1>2 DEF Object
<1>4. UNCHANGED <<cache, events, queue, dirty, processing, shutting, run, cancelled, good, failures>>
  BY DEF Lookup
<1>5. CASE cache[k].exists
  <2>1. /\ worker' = [worker EXCEPT ![w].at = "Syncing", ![w].version = cache[k].version]
        /\ seen' = [seen EXCEPT ![k] = cache[k].version]
        /\ UNCHANGED <<requeues, waiting>>
    BY <1>5 DEF Lookup
  <2> HIDE DEF k
  <2>2. /\ worker' \in [Workers -> WorkerState] /\ Moves(w)
        /\ worker'[w].at = "Syncing" /\ worker'[w].key = worker[w].key
    BY <1>0, <1>3, <2>1 DEF WorkerState, Places, Moves
  <2>3. seen' \in [Keys -> 0..MaxVersion]
    BY <1>0, <1>2, <1>3, <2>1
  <2>4. TypeOK'
    BY <1>4, <2>1, <2>2, <2>3 DEF IInv, TypeOK, WorkerState
  <2> QED
    BY <1>1, <1>4, <2>1, <2>2, <2>4, HandlingKeeps DEF k
<1>6. CASE ~ cache[k].exists
  <2>1. /\ worker' = [worker EXCEPT ![w].at = "Finishing"]
        /\ seen' = seen
        /\ requeues' = [requeues EXCEPT ![k] = 0] /\ waiting' = waiting
    BY <1>6 DEF Lookup, Forget
  <2> HIDE DEF k
  <2>2. /\ worker' \in [Workers -> WorkerState] /\ Moves(w)
        /\ worker'[w].at = "Finishing" /\ worker'[w].key = worker[w].key
    BY <1>0, <2>1 DEF WorkerState, Places, Moves
  <2>3. requeues' \in [Keys -> 0..MaxRequeues]
    BY <1>0, <1>2, <2>1, BoundsAssumption
  <2>4. TypeOK'
    BY <1>4, <2>1, <2>2, <2>3 DEF IInv, TypeOK, WorkerState
  <2> QED
    BY <1>1, <1>4, <1>6, <2>1, <2>2, <2>4, HandlingKeeps DEF k
<1> QED
  BY <1>5, <1>6

\* The sync itself: what is counted and what is put off.
LEMMA SyncKeeps ==
  ASSUME IInv, NEW w \in Workers, SyncSucceeds(w) \/ SyncFails(w)
  PROVE  IInv'
<1> DEFINE k == worker[w].key
<1>0. /\ worker \in [Workers -> WorkerState] /\ good \in [Keys -> 0..MaxVersion]
      /\ processing \subseteq Keys /\ requeues \in [Keys -> 0..MaxRequeues]
      /\ waiting \subseteq Keys /\ failures \in 0..MaxFailures
  BY DEF IInv, TypeOK, WorkerState
<1>1. worker[w].at = "Syncing" /\ Busy(w)
  BY DEF SyncSucceeds, SyncFails, Busy
<1>2. k \in Keys /\ worker[w].version \in 0..MaxVersion
  BY <1>0, <1>1 DEF IInv, Held, WorkerState
<1>3. UNCHANGED <<cache, events, queue, dirty, processing, shutting, run, cancelled, seen>>
  BY DEF SyncSucceeds, SyncFails
<1>4. PICK p \in {"Reporting", "Finishing"} : worker' = [worker EXCEPT ![w].at = p]
  BY DEF SyncSucceeds, SyncFails
<1>5. /\ worker' \in [Workers -> WorkerState] /\ Moves(w)
      /\ worker'[w].at = p /\ worker'[w].key = worker[w].key
  BY <1>0, <1>4 DEF WorkerState, Places, Moves
<1>6. good' \in [Keys -> 0..MaxVersion]
  BY <1>0, <1>2 DEF SyncSucceeds, SyncFails
<1>7. failures' \in 0..MaxFailures
  BY <1>0, BoundsAssumption DEF SyncSucceeds, SyncFails
<1>8. requeues' \in [Keys -> 0..MaxRequeues] /\ waiting' \subseteq Keys
  <2>1. \/ Forget(k)
        \/ AddRateLimited(k) /\ requeues[k] < MaxRequeues
    BY DEF SyncSucceeds, SyncFails
  <2> HIDE DEF k
  <2> QED
    BY <1>0, <1>2, <2>1, BoundsAssumption DEF Forget, AddRateLimited
<1>9. TypeOK'
  BY <1>3, <1>5, <1>6, <1>7, <1>8 DEF IInv, TypeOK, WorkerState
<1> QED
  BY <1>1, <1>3, <1>5, <1>9, HandlingKeeps

LEMMA ReportKeeps ==
  ASSUME IInv, NEW w \in Workers, Report(w)
  PROVE  IInv'
<1>0. worker \in [Workers -> WorkerState]
  BY DEF IInv, TypeOK, WorkerState
<1>1. /\ worker[w].at = "Reporting" /\ Busy(w)
      /\ UNCHANGED <<cache, events, queueVars, cancelled, seen, good, failures>>
  BY DEF Report, Busy
<1>2. CASE run' = "Crashed" /\ UNCHANGED worker
  <2>1. TypeOK'
    BY <1>1, <1>2 DEF IInv, TypeOK, Stages, queueVars
  <2> QED
    BY <1>1, <1>2, <2>1 DEF IInv, Queued, Held, OneWorkerPerKey, OffAtFirst, NothingMissed,
       NoLostWakeup, Busy, queueVars
<1>3. CASE worker' = [worker EXCEPT ![w].at = "Finishing"] /\ UNCHANGED run
  <2>1. /\ worker' \in [Workers -> WorkerState] /\ Moves(w)
        /\ worker'[w].at = "Finishing" /\ worker'[w].key = worker[w].key
    BY <1>0, <1>3 DEF WorkerState, Places, Moves
  <2>2. TypeOK'
    BY <1>1, <1>3, <2>1 DEF IInv, TypeOK, WorkerState, queueVars
  <2> QED
    BY <1>1, <1>3, <2>1, <2>2, HandlingKeeps DEF queueVars
<1> QED
  BY <1>2, <1>3 DEF Report

\* The key that is done is in no one else's hands, and is not queued, so it
\* may be pushed again.
LEMMA DoneKeeps ==
  ASSUME IInv, NEW w \in Workers, Done(w)
  PROVE  IInv'
<1> DEFINE k == worker[w].key
           free == [worker EXCEPT ![w] = [Off EXCEPT !.at = "Getting"]]
<1>0. /\ worker \in [Workers -> WorkerState] /\ queue \in Seq(Keys)
      /\ processing \subseteq Keys /\ dirty \subseteq Keys
  BY DEF IInv, TypeOK, WorkerState
<1>1. /\ worker[w].at = "Finishing" /\ Busy(w)
      /\ processing' = processing \ {k}
      /\ queue' = IF k \in dirty THEN Append(queue, k) ELSE queue
      /\ worker' \in Signalled(free) \/ worker' = free
      /\ UNCHANGED <<cache, events, dirty, waiting, requeues, shutting, run, cancelled, seen, good,
                     failures>>
  BY DEF Done, Busy
<1>2. k \in Keys /\ k \in processing
  BY <1>0, <1>1 DEF IInv, Held
<1>3. /\ free \in [Workers -> WorkerState] /\ free[w].at = "Getting"
      /\ \A v \in Workers : v # w => free[v] = worker[v]
  <2>1. 0 \in 0..MaxVersion
    BY BoundsAssumption
  <2>2. [Off EXCEPT !.at = "Getting"] = [at |-> "Getting", key |-> NoKey, version |-> 0]
    BY DEF Off
  <2>3. [Off EXCEPT !.at = "Getting"] \in WorkerState
    BY <2>1, <2>2 DEF WorkerState, Places
  <2> QED
    BY <1>0, <2>2, <2>3
<1>4. k \in Keys /\ (\A v \in Workers : v # w /\ Busy(v) => worker[v].key # k)
  BY <1>1, <1>2 DEF IInv, OneWorkerPerKey
<1> HIDE DEF k, free
<1>5. /\ worker' \in [Workers -> WorkerState]
      /\ worker'[w].at = "Getting"
      /\ \A v \in Workers : v # w => worker'[v].key = worker[v].key
      /\ \A v \in Workers : v # w => \/ worker'[v].at = worker[v].at
                                     \/ worker[v].at = "Waiting" /\ worker'[v].at = "Getting"
  <2>1. CASE worker' = free
    BY <1>3, <2>1
  <2>2. CASE worker' \in Signalled(free)
    BY <1>3, <2>2, SignalWakes
  <2> QED
    BY <1>1, <2>1, <2>2
<1>6. queue' \in Seq(Keys) /\ Queued'
  <2>1. CASE k \notin dirty
    BY <1>0, <1>1, <2>1 DEF IInv, Queued
  <2>2. CASE k \in dirty
    <3>1. \A i \in 1..Len(queue) : queue[i] # k
      BY <1>2 DEF IInv, Queued
    <3>2. Distinct(queue) /\ queue' = Append(queue, k)
      BY <1>1, <2>2 DEF IInv, Queued
    <3>3. /\ queue' \in Seq(Keys) /\ Distinct(queue')
          /\ \A i \in 1..Len(queue') : queue'[i] = k \/ \E j \in 1..Len(queue) : queue'[i] = queue[j]
      BY <1>0, <1>2, <3>1, <3>2, AppendDistinct
    <3> QED
      BY <1>1, <2>2, <3>3 DEF IInv, Queued
  <2> QED
    BY <2>1, <2>2
<1>7. TypeOK'
  BY <1>0, <1>1, <1>5, <1>6 DEF IInv, TypeOK, WorkerState
<1>8. ~ Busy(w)' /\ \A v \in Workers : v # w => Busy(v)' = Busy(v)
  BY <1>5 DEF Busy
<1>9. Held' /\ OneWorkerPerKey'
  BY <1>1, <1>4, <1>5, <1>8 DEF IInv, Held, OneWorkerPerKey
<1>10. OffAtFirst' /\ NoLostWakeup'
  BY <1>1, <1>5 DEF IInv, OffAtFirst, NoLostWakeup
<1>11. NothingMissed'
  BY <1>1, <1>5 DEF IInv, NothingMissed
<1> QED
  BY <1>6, <1>7, <1>9, <1>10, <1>11 DEF IInv

\* Run and the cancellation of its context.
LEMMA RunKeeps ==
  ASSUME IInv, Runner \/ Cancel
  PROVE  IInv'
<1>0. worker \in [Workers -> WorkerState]
  BY DEF IInv, TypeOK, WorkerState
<1>1. CASE ServerVersion \/ Stop \/ CloseLevel \/ CloseDone \/ Cancel
  <2>1. /\ UNCHANGED <<queueVars, worker, cache, events, seen, good, failures>>
        /\ run' = "Running" => run = "Running"
        /\ run' \in {"Starting", "CacheSync"} => run \in {"Starting", "CacheSync"}
        /\ run' \in Stages
        /\ cancelled' \in BOOLEAN
    BY <1>1 DEF IInv, TypeOK, Stages, ServerVersion, Stop, CloseLevel, CloseDone, Cancel, UnchangedByRun
  <2>2. TypeOK'
    BY <2>1 DEF IInv, TypeOK, queueVars
  <2> QED
    BY <2>1, <2>2 DEF IInv, Queued, Held, OneWorkerPerKey, OffAtFirst, NothingMissed, NoLostWakeup,
       Busy, queueVars
<1>2. CASE StartWorkers
  <2>1. /\ run = "CacheSync" /\ run' = "Running"
        /\ UNCHANGED <<queueVars, cancelled, cache, events, seen, good, failures>>
    BY <1>2 DEF StartWorkers, UnchangedByRun
  <2>2. [Off EXCEPT !.at = "Getting"] = [at |-> "Getting", key |-> NoKey, version |-> 0]
    BY DEF Off
  <2>3. [Off EXCEPT !.at = "Getting"] \in WorkerState
    BY <2>2, BoundsAssumption DEF WorkerState, Places
  <2>4. /\ worker' \in [Workers -> WorkerState]
        /\ \A w \in Workers : worker'[w].at = "Getting"
    BY <1>2, <2>2, <2>3 DEF StartWorkers
  <2>5. TypeOK'
    BY <2>1, <2>4 DEF IInv, TypeOK, WorkerState, Stages, queueVars
  <2>6. Queued' /\ Held' /\ OneWorkerPerKey' /\ OffAtFirst'
    BY <2>1, <2>4 DEF IInv, Queued, Held, OneWorkerPerKey, OffAtFirst, Busy, queueVars
  <2>7. NothingMissed'
    BY <2>1 DEF IInv, OffAtFirst, NothingMissed, queueVars
  <2>8. NoLostWakeup'
    BY <2>4, WorkersAssumption DEF NoLostWakeup
  <2> QED
    BY <2>5, <2>6, <2>7, <2>8 DEF IInv
<1>3. CASE ShutDown
  <2>1. /\ run' = "ShutDown" /\ shutting' = TRUE
        /\ worker' = Broadcast(worker)
        /\ UNCHANGED <<queue, dirty, processing, waiting, requeues, cancelled>>
        /\ UNCHANGED <<cache, events, seen, good, failures>>
    BY <1>3 DEF ShutDown, UnchangedByRun
  <2>2. \A w \in Workers : /\ worker'[w] \in WorkerState
                           /\ worker'[w].key = worker[w].key
                           /\ \/ worker'[w].at = worker[w].at
                              \/ worker[w].at = "Waiting" /\ worker'[w].at = "Getting"
    BY <1>0, <2>1 DEF Broadcast, WorkerState, Places
  <2>3. worker' \in [Workers -> WorkerState]
    BY <2>1, <2>2 DEF Broadcast
  <2>4. TypeOK'
    BY <2>1, <2>3 DEF IInv, TypeOK, WorkerState, Stages
  <2>5. \A w \in Workers : Busy(w)' = Busy(w)
    BY <2>2 DEF Busy
  <2>6. Queued' /\ Held' /\ OneWorkerPerKey'
    BY <2>1, <2>2, <2>5 DEF IInv, Queued, Held, OneWorkerPerKey
  <2>7. OffAtFirst' /\ NothingMissed' /\ NoLostWakeup'
    BY <2>1 DEF OffAtFirst, NothingMissed, NoLostWakeup
  <2> QED
    BY <2>4, <2>6, <2>7 DEF IInv
<1> QED
  BY <1>1, <1>2, <1>3 DEF Runner

LEMMA NextIInv == IInv /\ [Next]_vars => IInv'
<1> SUFFICES ASSUME IInv, [Next]_vars PROVE IInv'
  OBVIOUS
<1>1. CASE UNCHANGED vars
  <2>1. TypeOK'
    BY <1>1 DEF IInv, TypeOK, vars, queueVars
  <2> QED
    BY <1>1, <2>1 DEF IInv, Queued, Held, OneWorkerPerKey, OffAtFirst, NothingMissed, NoLostWakeup,
       Busy, vars, queueVars
<1>2. ASSUME NEW k \in Keys, Expire(k) \/ Notify(k) \/ Requeue(k) PROVE IInv'
  <2>1. /\ Add(k)
        /\ events' \in {events, events \ {k}} /\ waiting' \in {waiting, waiting \ {k}}
        /\ UNCHANGED <<cache, processing, requeues, shutting, run, cancelled, seen, good, failures>>
    BY <1>2 DEF Expire, Notify, Requeue
  <2> QED
    BY <2>1, AddKeeps
<1>3. ASSUME NEW w \in Workers, Worker(w) PROVE IInv'
  BY <1>3, GetKeeps, LookupKeeps, SyncKeeps, ReportKeeps, DoneKeeps DEF Worker
<1> QED
  BY <1>1, <1>2, <1>3, InformerKeeps, RunKeeps DEF Next

-----------------------------------------------------------------------------
(* The theorems *)

LEMMA Invariance == Spec => []IInv
  BY InitIInv, NextIInv, PTL DEF Spec

\* The work queue, the workers and Run keep their types; a key is requeued at
\* most MaxRequeues times in a row (processNextWorkItem).
THEOREM WellTyped == Spec => []TypeOK
<1>1. IInv => TypeOK
  BY DEF IInv
<1> QED
  BY <1>1, Invariance, PTL

\* For any number of workers, two of them never sync the same key at once: the
\* promise of worker, on which every sync handler of OLM relies.
THEOREM Exclusive == Spec => []OneWorkerPerKey
<1>1. IInv => OneWorkerPerKey
  BY DEF IInv
<1> QED
  BY <1>1, Invariance, PTL

\* Until the queue is shut down, a cached version no sync was called with is
\* announced, queued or held by a worker that will look it up.
THEOREM Complete == Spec => []NothingMissed
<1>1. IInv => NothingMissed
  BY DEF IInv
<1> QED
  BY <1>1, Invariance, PTL

\* Waking one worker for each key that is pushed is enough: while the operator
\* runs, the workers are never all asleep over a queued key.
THEOREM Awake == Spec => []NoLostWakeup
<1>1. IInv => NoLostWakeup
  BY DEF IInv
<1> QED
  BY <1>1, Invariance, PTL

-----------------------------------------------------------------------------
(* The service the handlers see *)

owedKeys == events \cup dirty \cup waiting

\* A step in which no worker takes a key, looks one up or is done with one.
LEMMA SameStage ==
  ASSUME processing' = processing,
         \A w \in Workers : /\ worker'[w].at = "Got" <=> worker[w].at = "Got"
                            /\ worker[w].at = "Got" => worker'[w].key = worker[w].key
  PROVE  Stage' = Stage
<1>1. ASSUME NEW k \in Keys
      PROVE  (\E w \in Workers : worker'[w].at = "Got" /\ worker'[w].key = k)
               <=> (\E w \in Workers : worker[w].at = "Got" /\ worker[w].key = k)
  OBVIOUS
<1> QED
  BY <1>1 DEF Stage

\* Adding a key drops nothing that is owed before the shutdown.
LEMMA AddServes ==
  ASSUME IInv, NEW k \in Keys, Expire(k) \/ Notify(k) \/ Requeue(k)
  PROVE  [Service!Next]_(Service!serviceVars)
<1>0. TypeOK /\ Queued
  BY DEF IInv
<1>1. Add(k) /\ UNCHANGED <<cache, processing, shutting, seen>>
  BY DEF Expire, Notify, Requeue
<1>2. Woken /\ dirty' \in {dirty, dirty \cup {k}} /\ (~ shutting => k \in dirty')
  <2>1. Woken /\ (~ shutting => k \in dirty')
    BY <1>0, <1>1, AddEffect
  <2>2. dirty' \in {dirty, dirty \cup {k}}
    BY <1>1 DEF Add
  <2> QED
    BY <2>1, <2>2
<1>3. Stage' = Stage
  BY <1>1, <1>2, SameStage DEF Woken
<1>4. CASE owedKeys' = owedKeys
  BY <1>1, <1>3, <1>4 DEF Service!serviceVars, owedKeys
<1>5. CASE owedKeys' = owedKeys \cup {k}
  <2>1. Service!Ask({k})
    BY <1>1, <1>3, <1>5 DEF Service!Ask, owedKeys
  <2> QED
    BY <2>1 DEF Service!Next
<1>6. CASE shutting /\ owedKeys' = owedKeys \ {k}
  <2>1. Service!Drop(k)
    BY <1>1, <1>3, <1>6 DEF Service!Drop, owedKeys
  <2> QED
    BY <2>1 DEF Service!Next
<1>7. CASE Expire(k)
  <2>1. owedKeys' = owedKeys
    BY <1>2, <1>7 DEF Expire, owedKeys
  <2> QED
    BY <1>4, <2>1
<1>8. CASE Notify(k)
  <2>1. /\ ~ shutting => owedKeys' = owedKeys
        /\ shutting => owedKeys' \in {owedKeys, owedKeys \ {k}}
    <3>1. k \in events /\ events' = events \ {k} /\ waiting' = waiting
      BY <1>8 DEF Notify
    <3>2. shutting => dirty' = dirty
      BY <1>1 DEF Add
    <3> QED
      BY <1>2, <3>1, <3>2 DEF owedKeys
  <2> QED
    BY <1>4, <1>6, <2>1
<1>9. CASE Requeue(k)
  <2>1. owedKeys' \in {owedKeys, owedKeys \cup {k}}
    BY <1>2, <1>9 DEF Requeue, owedKeys
  <2> QED
    BY <1>4, <1>5, <2>1
<1> QED
  BY <1>7, <1>8, <1>9

LEMMA InformerServes ==
  ASSUME IInv, Resync \/ \E k \in Keys : Change(k) \/ Delete(k)
  PROVE  [Service!Next]_(Service!serviceVars)
<1>1. UNCHANGED <<dirty, waiting, processing, shutting, worker, seen>>
  BY DEF Resync, Change, Delete, queueVars
<1>2. Stage' = Stage
  BY <1>1, SameStage
<1>3. CASE Resync
  <2> DEFINE K == {k \in Keys : cache[k].exists}
  <2>1. Service!Ask(K) /\ K \in SUBSET Keys
    BY <1>1, <1>2, <1>3 DEF Resync, Service!Ask
  <2> QED
    BY <2>1 DEF Service!Next
<1>4. ASSUME NEW k \in Keys, Change(k)  PROVE Service!Change(k)
  BY <1>1, <1>2, <1>4 DEF Change, Service!Change
<1>5. ASSUME NEW k \in Keys, Delete(k)  PROVE Service!Delete(k)
  BY <1>1, <1>2, <1>5 DEF Delete, Service!Delete
<1> QED
  BY <1>3, <1>4, <1>5 DEF Service!Next

\* A worker takes the key at the head of the queue, which no one holds.
LEMMA GetServes ==
  ASSUME IInv, NEW w \in Workers, Get(w)
  PROVE  [Service!Next]_(Service!serviceVars)
<1>0. worker \in [Workers -> WorkerState] /\ queue \in Seq(Keys) /\ worker[w].at = "Getting"
  BY DEF IInv, TypeOK, WorkerState, Get
<1>1. UNCHANGED <<cache, events, waiting, shutting, seen>>
  BY DEF Get
<1>2. CASE queue = <<>>
  <2>1. /\ UNCHANGED <<dirty, processing>> /\ Moves(w) /\ worker'[w].at # "Got"
    BY <1>0, <1>2 DEF Get, Moves, WorkerState
  <2>2. Stage' = Stage
    BY <1>0, <2>1, SameStage DEF Moves
  <2> QED
    BY <1>1, <2>1, <2>2 DEF Service!serviceVars
<1>3. CASE queue # <<>>
  <2> DEFINE k == Head(queue)
  <2>1. /\ worker' = [worker EXCEPT ![w].at = "Got", ![w].key = k]
        /\ processing' = processing \cup {k}
        /\ dirty' = dirty \ {k}
    BY <1>3 DEF Get
  <2>2. k \in Keys /\ k \in dirty /\ k \notin processing
    <3>1. Distinct(queue)
      BY DEF IInv, Queued
    <3>2. k \in Keys /\ \E i \in 1..Len(queue) : k = queue[i]
      BY <1>0, <1>3, <3>1, TailDistinct
    <3> QED
      BY <3>2 DEF IInv, Queued
  <2> HIDE DEF k
  <2>3. Moves(w) /\ worker'[w].at = "Got" /\ worker'[w].key = k
    BY <1>0, <2>1, <2>2 DEF WorkerState, Moves
  <2>4. Stage[k] = "idle" /\ Stage'[k] = "taken"
    BY <2>1, <2>2, <2>3 DEF Stage
  <2>5. ASSUME NEW j \in Keys, j # k  PROVE Stage'[j] = Stage[j]
    <3>1. (\E v \in Workers : worker'[v].at = "Got" /\ worker'[v].key = j)
             <=> (\E v \in Workers : worker[v].at = "Got" /\ worker[v].key = j)
      BY <1>0, <2>3, <2>5 DEF Moves
    <3> QED
      BY <2>1, <2>5, <3>1 DEF Stage
  <2>6. Stage' = [Stage EXCEPT ![k] = "taken"]
    <3>1. Stage' = [j \in Keys |-> Stage'[j]] /\ Stage = [j \in Keys |-> Stage[j]]
      BY DEF Stage
    <3> HIDE DEF Stage
    <3> QED
      BY <2>2, <2>4, <2>5, <3>1
  <2>7. k \in owedKeys /\ owedKeys' \in {owedKeys, owedKeys \ {k}}
    BY <1>1, <2>1, <2>2 DEF owedKeys
  <2>8. Service!Take(k)
    BY <1>1, <2>4, <2>6, <2>7 DEF Service!Take, owedKeys
  <2> QED
    BY <2>2, <2>8 DEF Service!Next
<1> QED
  BY <1>2, <1>3

\* The look-up: the worker is alone with its key, so the key is no longer
\* merely taken, and what is handed over is cached now.
LEMMA LookupServes ==
  ASSUME IInv, NEW w \in Workers, Lookup(w)
  PROVE  [Service!Next]_(Service!serviceVars)
<1> DEFINE k == worker[w].key
<1>0. worker \in [Workers -> WorkerState]
  BY DEF IInv, TypeOK, WorkerState
<1>1. worker[w].at = "Got" /\ Busy(w)
  BY DEF Lookup, Busy
<1>2. k \in Keys /\ k \in processing
  BY <1>1 DEF IInv, Held, TypeOK
<1>3. /\ UNCHANGED <<cache, events, dirty, processing, waiting, shutting>>
      /\ seen' = IF cache[k].exists THEN [seen EXCEPT ![k] = cache[k].version] ELSE seen
  BY DEF Lookup, Forget
<1>4. Moves(w) /\ worker'[w].at \in {"Syncing", "Finishing"}
  BY <1>0 DEF Lookup, Moves, WorkerState
<1>5. \A v \in Workers : v # w /\ worker[v].at = "Got" => worker[v].key # k
  BY <1>1 DEF IInv, OneWorkerPerKey, Busy
<1>6. Stage[k] = "taken" /\ Stage'[k] = "syncing"
  BY <1>1, <1>2, <1>3, <1>4, <1>5 DEF Stage, Moves
<1>7. ASSUME NEW j \in Keys, j # k  PROVE Stage'[j] = Stage[j]
  <2>1. (\E v \in Workers : worker'[v].at = "Got" /\ worker'[v].key = j)
           <=> (\E v \in Workers : worker[v].at = "Got" /\ worker[v].key = j)
    BY <1>4, <1>7 DEF Moves
  <2> QED
    BY <1>3, <1>7, <2>1 DEF Stage
<1>8. Stage' = [Stage EXCEPT ![k] = "syncing"]
  <2>1. Stage' = [j \in Keys |-> Stage'[j]] /\ Stage = [j \in Keys |-> Stage[j]]
    BY DEF Stage
  <2> HIDE DEF Stage, k
  <2> QED
    BY <1>2, <1>6, <1>7, <2>1
<1>9. Service!Hand(k)
  BY <1>3, <1>6, <1>8 DEF Service!Hand
<1> QED
  BY <1>2, <1>9 DEF Service!Next

\* A failed sync asks for another one; the rest of the handling is not seen.
LEMMA SyncServes ==
  ASSUME IInv, NEW w \in Workers, SyncSucceeds(w) \/ SyncFails(w) \/ Report(w)
  PROVE  [Service!Next]_(Service!serviceVars)
<1> DEFINE k == worker[w].key
<1>0. worker \in [Workers -> WorkerState]
  BY DEF IInv, TypeOK, WorkerState
<1>1. /\ Busy(w) /\ worker[w].at # "Got"
      /\ UNCHANGED <<cache, events, dirty, processing, shutting, seen>>
  BY DEF SyncSucceeds, SyncFails, Report, Busy, queueVars
<1>2. k \in Keys
  BY <1>1 DEF IInv, Held, TypeOK
<1>3. worker' = worker \/ \E p \in {"Reporting", "Finishing"} : worker' = [worker EXCEPT ![w].at = p]
  BY DEF SyncSucceeds, SyncFails, Report
<1>4. Moves(w) /\ worker'[w].at # "Got"
  BY <1>0, <1>1, <1>3 DEF Moves, WorkerState
<1>5. Stage' = Stage
  BY <1>1, <1>4, SameStage DEF Moves
<1>6. waiting' \in {waiting, waiting \cup {k}}
  BY DEF SyncSucceeds, SyncFails, Report, Forget, AddRateLimited, queueVars
<1>7. CASE waiting' = waiting
  BY <1>1, <1>5, <1>7 DEF Service!serviceVars
<1>8. CASE waiting' = waiting \cup {k}
  <2>1. Service!Ask({k})
    BY <1>1, <1>5, <1>8 DEF Service!Ask
  <2> QED
    BY <1>2, <2>1 DEF Service!Next
<1> QED
  BY <1>6, <1>7, <1>8

\* Done: no other worker has taken the key.
LEMMA DoneServes ==
  ASSUME IInv, NEW w \in Workers, Done(w)
  PROVE  [Service!Next]_(Service!serviceVars)
<1> DEFINE k == worker[w].key
           free == [worker EXCEPT ![w] = [Off EXCEPT !.at = "Getting"]]
<1>0. worker \in [Workers -> WorkerState]
  BY DEF IInv, TypeOK, WorkerState
<1>1. /\ worker[w].at = "Finishing" /\ Busy(w)
      /\ processing' = processing \ {k}
      /\ worker' \in Signalled(free) \/ worker' = free
      /\ UNCHANGED <<cache, events, dirty, waiting, shutting, seen>>
  BY DEF Done, Busy
<1>2. k \in Keys /\ k \in processing
  BY <1>1 DEF IInv, Held, TypeOK
<1>3. /\ free \in [Workers -> WorkerState] /\ free[w].at = "Getting"
      /\ \A v \in Workers : v # w => free[v] = worker[v]
  <2>1. 0 \in 0..MaxVersion
    BY BoundsAssumption
  <2>2. [Off EXCEPT !.at = "Getting"] = [at |-> "Getting", key |-> NoKey, version |-> 0]
    BY DEF Off
  <2>3. [Off EXCEPT !.at = "Getting"] \in WorkerState
    BY <2>1, <2>2 DEF WorkerState, Places
  <2> QED
    BY <1>0, <2>2, <2>3
<1>4. \A v \in Workers : worker[v].at = "Got" => worker[v].key # k
  BY <1>1 DEF IInv, OneWorkerPerKey, Busy
<1> HIDE DEF k, free
<1>5. \A v \in Workers : /\ worker'[v].at = "Got" <=> worker[v].at = "Got"
                         /\ worker[v].at = "Got" => worker'[v].key = worker[v].key
  <2>1. CASE worker' = free
    BY <1>1, <1>3, <2>1
  <2>2. CASE worker' \in Signalled(free)
    BY <1>1, <1>3, <2>2, SignalWakes
  <2> QED
    BY <1>1, <2>1, <2>2
<1>6. Stage[k] = "syncing" /\ Stage'[k] = "idle"
  BY <1>1, <1>2, <1>4 DEF Stage
<1>7. ASSUME NEW j \in Keys, j # k  PROVE Stage'[j] = Stage[j]
  <2>1. (\E v \in Workers : worker'[v].at = "Got" /\ worker'[v].key = j)
           <=> (\E v \in Workers : worker[v].at = "Got" /\ worker[v].key = j)
    BY <1>5
  <2> QED
    BY <1>1, <1>7, <2>1 DEF Stage
<1>8. Stage' = [Stage EXCEPT ![k] = "idle"]
  <2>1. Stage' = [j \in Keys |-> Stage'[j]] /\ Stage = [j \in Keys |-> Stage[j]]
    BY DEF Stage
  <2> HIDE DEF Stage
  <2> QED
    BY <1>2, <1>6, <1>7, <2>1
<1>9. Service!Finish(k)
  BY <1>1, <1>6, <1>8 DEF Service!Finish
<1> QED
  BY <1>2, <1>9 DEF Service!Next

\* The workers start with nothing in their hands, and the shutdown wakes those
\* that have nothing.
LEMMA RunServes ==
  ASSUME IInv, Runner \/ Cancel
  PROVE  [Service!Next]_(Service!serviceVars)
<1>0. worker \in [Workers -> WorkerState]
  BY DEF IInv, TypeOK, WorkerState
<1>1. UNCHANGED <<cache, events, dirty, processing, waiting, seen>>
  BY DEF Runner, Cancel, ServerVersion, StartWorkers, Stop, ShutDown, CloseLevel, CloseDone,
         UnchangedByRun, queueVars
<1>2. CASE ServerVersion \/ Stop \/ CloseLevel \/ CloseDone \/ Cancel
  <2>1. UNCHANGED <<worker, shutting>>
    BY <1>2 DEF Cancel, ServerVersion, Stop, CloseLevel, CloseDone, queueVars
  <2>2. Stage' = Stage
    BY <1>1, <2>1, SameStage
  <2> QED
    BY <1>1, <2>1, <2>2 DEF Service!serviceVars
<1>3. CASE StartWorkers
  <2>1. /\ shutting' = shutting
        /\ \A w \in Workers : worker[w].at = "Off" /\ worker'[w].at = "Getting"
    BY <1>3 DEF StartWorkers, Off, IInv, OffAtFirst, queueVars
  <2>2. Stage' = Stage
    BY <1>1, <2>1, SameStage
  <2> QED
    BY <1>1, <2>1, <2>2 DEF Service!serviceVars
<1>4. CASE ShutDown
  <2>1. shutting' = TRUE /\ worker' = Broadcast(worker)
    BY <1>4 DEF ShutDown
  <2>2. \A w \in Workers : /\ worker'[w].key = worker[w].key
                           /\ \/ worker'[w].at = worker[w].at
                              \/ worker[w].at = "Waiting" /\ worker'[w].at = "Getting"
    BY <1>0, <2>1 DEF Broadcast, WorkerState, Places
  <2>3. Stage' = Stage
    BY <1>1, <2>2, SameStage
  <2>4. Service!Close
    BY <1>1, <2>1, <2>3 DEF Service!Close
  <2> QED
    BY <2>4 DEF Service!Next
<1> QED
  BY <1>2, <1>3, <1>4 DEF Runner

LEMMA ServiceStep == IInv /\ [Next]_vars => [Service!Next]_(Service!serviceVars)
<1> SUFFICES ASSUME IInv, [Next]_vars PROVE [Service!Next]_(Service!serviceVars)
  OBVIOUS
<1>1. CASE UNCHANGED vars
  <2>1. UNCHANGED <<cache, events, dirty, waiting, processing, shutting, worker, seen>>
    BY <1>1 DEF vars, queueVars
  <2>2. Stage' = Stage
    BY <2>1, SameStage
  <2> QED
    BY <2>1, <2>2 DEF Service!serviceVars
<1>2. ASSUME NEW w \in Workers, Worker(w) PROVE [Service!Next]_(Service!serviceVars)
  BY <1>2, GetServes, LookupServes, SyncServes, DoneServes DEF Worker
<1> QED
  BY <1>1, <1>2, AddServes, InformerServes, RunServes DEF Next

\* For any number of keys, workers, versions and failures, the informer, the
\* work queue with its delays and the workers of processNextWorkItem implement
\* the service a sync handler relies on: what is owed is not lost before the
\* shutdown, no key is synced twice at once, and every sync sees an object
\* that is cached after its key was taken.
THEOREM Serves == Spec => ImplementsService
<1>1. Init => Service!Init
  BY DEF Init, Service!Init, Stage
<1> QED
  BY <1>1, ServiceStep, Invariance, PTL DEF Spec, ImplementsService, Service!Spec

=============================================================================
