---------------------------- MODULE QueueInformer ----------------------------
(***************************************************************************)
(* The control loop every OLM controller is built on: a QueueInformer of   *)
(* lib/queueinformer, the operator that runs its workers, and the rate     *)
(* limiting work queue of client-go between the two.                       *)
(*                                                                         *)
(* An informer changes the cached object first and tells the handlers      *)
(* later; the handlers add the object's key to the queue.  A worker takes  *)
(* a key, reads the object that is cached by then, and calls the sync      *)
(* handler; a key whose sync failed comes back after a delay, up to        *)
(* MaxRequeues times.                                                      *)
(***************************************************************************)
EXTENDS Naturals, Sequences

CONSTANTS
  Keys,          \* keys of the cached objects
  NoKey,         \* what an idle worker holds
  Workers,       \* numWorkers goroutines
  MaxRequeues,   \* retries of a failing key: 8 in processNextWorkItem
  MaxVersion,    \* bound: versions of each object
  MaxFailures,   \* bound: failing syncs,
  Failing,       \*   which are of these keys
  Stops          \* the operator may fail to start, and may be stopped

ASSUME NoKeyAssumption == NoKey \notin Keys
ASSUME WorkersAssumption == Workers # {}
ASSUME BoundsAssumption == {MaxRequeues, MaxVersion, MaxFailures} \subseteq Nat
ASSUME StopsAssumption == Stops \in BOOLEAN

VARIABLES
  cache,       \* the informer's store: the version and whether it exists
  events,      \* keys the handlers have not been told of yet
  queue,       \* the work queue: keys in order,
  dirty,       \*   keys to be processed,
  processing,  \*   keys being processed,
  waiting,     \*   keys to be added after a delay,
  requeues,    \*   failures of each key,
  shutting,    \*   and whether it has been shut down
  worker,      \* where each worker is, its key, the version it syncs
  run,         \* where the goroutine of Run is
  cancelled,   \* the context is done
  seen,        \* history: the last version handed to the sync handler
  good,        \* history: the last version synced without an error
  failures     \* failing syncs so far

queueVars == <<queue, dirty, processing, waiting, requeues, shutting>>
vars == <<cache, events, queueVars, worker, run, cancelled, seen, good, failures>>

Places == {"Off", "Getting", "Waiting", "Got", "Syncing", "Reporting", "Finishing", "Stopped"}

\* Starting, then waiting for the caches; Running; then ShutDown, close of
\* atLevel, close of done.  Crashed: a goroutine panicked.
Stages == {"Starting", "CacheSync", "Running", "Stopping", "ShutDown", "LevelClosed",
           "Done", "Crashed"}

Object == [version : 0..MaxVersion, exists : BOOLEAN]

TypeOK ==
  /\ cache \in [Keys -> Object]
  /\ events \subseteq Keys
  /\ queue \in Seq(Keys)
  /\ dirty \subseteq Keys
  /\ processing \subseteq Keys
  /\ waiting \subseteq Keys
  /\ requeues \in [Keys -> 0..MaxRequeues]
  /\ shutting \in BOOLEAN
  /\ worker \in [Workers -> [at : Places, key : Keys \cup {NoKey}, version : 0..MaxVersion]]
  /\ run \in Stages
  /\ cancelled \in BOOLEAN
  /\ seen \in [Keys -> 0..MaxVersion]
  /\ good \in [Keys -> 0..MaxVersion]
  /\ failures \in 0..MaxFailures

Off == [at |-> "Off", key |-> NoKey, version |-> 0]

Init ==
  /\ cache = [k \in Keys |-> [version |-> 0, exists |-> FALSE]]
  /\ events = {}
  /\ queue = <<>> /\ dirty = {} /\ processing = {} /\ waiting = {}
  /\ requeues = [k \in Keys |-> 0]
  /\ shutting = FALSE
  /\ worker = [w \in Workers |-> Off]
  /\ run = "Starting"
  /\ cancelled = FALSE
  /\ seen = [k \in Keys |-> 0]
  /\ good = [k \in Keys |-> 0]
  /\ failures = 0

-----------------------------------------------------------------------------
(* The work queue *)

\* cond.Signal: one of the workers in cond.Wait, if there is one, wakes up.
Signalled(ws) ==
  LET asleep == {w \in Workers : ws[w].at = "Waiting"}
  IN IF asleep = {} THEN {ws} ELSE {[ws EXCEPT ![w].at = "Getting"] : w \in asleep}

\* cond.Broadcast.
Broadcast(ws) ==
  [w \in Workers |-> IF ws[w].at = "Waiting" THEN [ws[w] EXCEPT !.at = "Getting"] ELSE ws[w]]

\* Mutant: a key that is being processed is pushed all the same.
AddTwice(k) ==
  IF shutting \/ k \in dirty
  THEN UNCHANGED <<queue, dirty, worker>>
  ELSE dirty' = dirty \cup {k} /\ queue' = Append(queue, k) /\ worker' \in Signalled(worker)

\* Mutant: nobody is woken up.
AddQuietly(k) ==
  /\ UNCHANGED worker
  /\ IF shutting \/ k \in dirty THEN UNCHANGED <<queue, dirty>>
     ELSE /\ dirty' = dirty \cup {k}
          /\ queue' = IF k \in processing THEN queue ELSE Append(queue, k)

\* Mutant: a key that is being processed is not noted.
AddIgnored(k) ==
  IF shutting \/ k \in dirty \/ k \in processing
  THEN UNCHANGED <<queue, dirty, worker>>
  ELSE dirty' = dirty \cup {k} /\ queue' = Append(queue, k) /\ worker' \in Signalled(worker)

\* Add: a key that is dirty already is there, one that is being processed is
\* pushed when that is done.
Add(k) ==
  IF shutting \/ k \in dirty
  THEN UNCHANGED <<queue, dirty, worker>>
  ELSE /\ dirty' = dirty \cup {k}
       /\ IF k \in processing THEN UNCHANGED <<queue, worker>>
          ELSE queue' = Append(queue, k) /\ worker' \in Signalled(worker)

\* AddRateLimited.
AddRateLimited(k) ==
  /\ requeues' = [requeues EXCEPT ![k] = @ + 1]
  /\ waiting' = IF shutting THEN waiting ELSE waiting \cup {k}

Forget(k) == requeues' = [requeues EXCEPT ![k] = 0] /\ UNCHANGED waiting

\* Mutant: a delayed key that is being processed is dropped.
ExpireDrops(k) ==
  /\ k \in waiting /\ ~ shutting
  /\ waiting' = waiting \ {k}
  /\ IF k \in processing THEN UNCHANGED <<queue, dirty, worker>> ELSE Add(k)
  /\ UNCHANGED <<cache, events, processing, requeues, shutting, run, cancelled, seen, good, failures>>

\* The waiting loop: the delay of a key is over.
Expire(k) ==
  /\ k \in waiting /\ ~ shutting
  /\ waiting' = waiting \ {k}
  /\ Add(k)
  /\ UNCHANGED <<cache, events, processing, requeues, shutting, run, cancelled, seen, good, failures>>

-----------------------------------------------------------------------------
(* The informer *)

\* The watch brings a new version, or a deletion.  The store has it first.
Change(k) ==
  /\ ~ cancelled /\ cache[k].version < MaxVersion
  /\ cache' = [cache EXCEPT ![k] = [version |-> @.version + 1, exists |-> TRUE]]
  /\ events' = events \cup {k}
  /\ UNCHANGED <<queueVars, worker, run, cancelled, seen, good, failures>>

\* DeleteFunc calls onDelete; nothing is queued.
Delete(k) ==
  /\ ~ cancelled /\ cache[k].exists
  /\ cache' = [cache EXCEPT ![k].exists = FALSE]
  /\ UNCHANGED <<events, queueVars, worker, run, cancelled, seen, good, failures>>

\* AddFunc, UpdateFunc: Enqueue.
Notify(k) ==
  /\ k \in events
  /\ events' = events \ {k}
  /\ Add(k)
  /\ UNCHANGED <<cache, processing, waiting, requeues, shutting, run, cancelled, seen, good,
                 failures>>

\* The resync period: every cached object is announced again.
Resync ==
  /\ ~ cancelled
  /\ events' = events \cup {k \in Keys : cache[k].exists}
  /\ UNCHANGED <<cache, queueVars, worker, run, cancelled, seen, good, failures>>

\* Another handler requeues the key: ResourceQueueSet.Requeue.
Requeue(k) ==
  /\ Add(k)
  /\ UNCHANGED <<cache, events, processing, waiting, requeues, shutting, run, cancelled, seen,
                 good, failures>>

-----------------------------------------------------------------------------
(* processNextWorkItem *)

\* Get: wait while the queue is empty, quit when it is empty and shut down.
Get(w) ==
  /\ worker[w].at = "Getting"
  /\ IF queue = <<>>
     THEN /\ worker' = [worker EXCEPT ![w].at = IF shutting THEN "Stopped" ELSE "Waiting"]
          /\ UNCHANGED <<queue, dirty, processing>>
     ELSE /\ worker' = [worker EXCEPT ![w].at = "Got", ![w].key = Head(queue)]
          /\ queue' = Tail(queue)
          /\ processing' = processing \cup {Head(queue)}
          /\ dirty' = dirty \ {Head(queue)}
  /\ UNCHANGED <<cache, events, waiting, requeues, shutting, run, cancelled, seen, good, failures>>

\* GetByKey: the version cached now; a key that is not cached is forgotten.
Lookup(w) ==
  LET k == worker[w].key IN
  /\ worker[w].at = "Got"
  /\ IF cache[k].exists
     THEN /\ worker' = [worker EXCEPT ![w].at = "Syncing", ![w].version = cache[k].version]
          /\ seen' = [seen EXCEPT ![k] = cache[k].version]
          /\ UNCHANGED <<requeues, waiting>>
     ELSE /\ worker' = [worker EXCEPT ![w].at = "Finishing"]
          /\ Forget(k) /\ UNCHANGED seen
  /\ UNCHANGED <<cache, events, queue, dirty, processing, shutting, run, cancelled, good, failures>>

\* Sync returns without an error ...
SyncSucceeds(w) ==
  LET k == worker[w].key IN
  /\ worker[w].at = "Syncing"
  /\ Forget(k)
  /\ good' = [good EXCEPT ![k] = worker[w].version]
  /\ worker' = [worker EXCEPT ![w].at = "Reporting"]
  /\ UNCHANGED <<cache, events, queue, dirty, processing, shutting, run, cancelled, seen, failures>>

\* Mutant: a key that failed is not queued again.
SyncFailsForGood(w) ==
  LET k == worker[w].key IN
  /\ worker[w].at = "Syncing"
  /\ k \in Failing /\ failures < MaxFailures /\ failures' = failures + 1
  /\ Forget(k)
  /\ worker' = [worker EXCEPT ![w].at = "Reporting"]
  /\ UNCHANGED <<cache, events, queue, dirty, processing, shutting, run, cancelled, seen, good>>

\* Mutant: one requeue too many.
SyncFailsOften(w) ==
  LET k == worker[w].key IN
  /\ worker[w].at = "Syncing"
  /\ k \in Failing /\ failures < MaxFailures /\ failures' = failures + 1
  /\ AddRateLimited(k)
  /\ worker' = [worker EXCEPT ![w].at = "Finishing"]
  /\ UNCHANGED <<cache, events, queue, dirty, processing, shutting, run, cancelled, seen, good>>

\* ... or with one: the key is queued again, or given up.
SyncFails(w) ==
  LET k == worker[w].key IN
  /\ worker[w].at = "Syncing"
  /\ k \in Failing /\ failures < MaxFailures /\ failures' = failures + 1
  /\ IF requeues[k] < MaxRequeues
     THEN AddRateLimited(k) /\ worker' = [worker EXCEPT ![w].at = "Finishing"]
     ELSE Forget(k) /\ worker' = [worker EXCEPT ![w].at = "Reporting"]
  /\ UNCHANGED <<cache, events, queue, dirty, processing, shutting, run, cancelled, seen, good>>

\* The send on syncCh, without blocking; on a closed channel it panics.
Report(w) ==
  /\ worker[w].at = "Reporting"
  /\ IF run \in {"LevelClosed", "Done"}
     THEN run' = "Crashed" /\ UNCHANGED worker
     ELSE worker' = [worker EXCEPT ![w].at = "Finishing"] /\ UNCHANGED run
  /\ UNCHANGED <<cache, events, queueVars, cancelled, seen, good, failures>>

\* queue.Done, and back to Get.
Done(w) ==
  LET k == worker[w].key
      free == [worker EXCEPT ![w] = [Off EXCEPT !.at = "Getting"]]
  IN /\ worker[w].at = "Finishing"
     /\ processing' = processing \ {k}
     /\ queue' = IF k \in dirty THEN Append(queue, k) ELSE queue
     /\ worker' \in IF k \in dirty \/ processing' = {} THEN Signalled(free) ELSE {free}
     /\ UNCHANGED <<cache, events, dirty, waiting, requeues, shutting, run, cancelled, seen, good,
                    failures>>

-----------------------------------------------------------------------------
(* Run and start *)

UnchangedByRun == UNCHANGED <<cache, events, seen, good, failures>>

\* ServerVersion answers, or fails twice.
ServerVersion ==
  /\ run = "Starting"
  /\ \/ run' = "CacheSync"
     \/ Stops /\ run' = "Stopping"
  /\ UNCHANGED <<queueVars, worker, cancelled>> /\ UnchangedByRun

\* The caches have synced: the workers start.
StartWorkers ==
  /\ run = "CacheSync"
  /\ run' = "Running"
  /\ worker' = [w \in Workers |-> [Off EXCEPT !.at = "Getting"]]
  /\ UNCHANGED <<queueVars, cancelled>> /\ UnchangedByRun

Cancel ==
  /\ Stops /\ ~ cancelled /\ cancelled' = TRUE
  /\ UNCHANGED <<queueVars, worker, run>> /\ UnchangedByRun

\* The context is done, at whatever point Run waits for it.
Stop ==
  /\ cancelled /\ run \in {"Starting", "CacheSync", "Running"}
  /\ run' = "Stopping"
  /\ UNCHANGED <<queueVars, worker, cancelled>> /\ UnchangedByRun

\* Mutant: the queue is shut down and nobody is told.
ShutDownQuietly ==
  /\ run = "Stopping" /\ run' = "ShutDown" /\ shutting' = TRUE
  /\ UNCHANGED <<queue, dirty, processing, waiting, requeues, worker, cancelled>>
  /\ UnchangedByRun

\* The deferred function: ShutDown of the queue, ...
ShutDown ==
  /\ run = "Stopping" /\ run' = "ShutDown"
  /\ shutting' = TRUE
  /\ worker' = Broadcast(worker)
  /\ UNCHANGED <<queue, dirty, processing, waiting, requeues, cancelled>> /\ UnchangedByRun

\* ... close(o.atLevel), ...
CloseLevel ==
  /\ run = "ShutDown" /\ run' = "LevelClosed"
  /\ UNCHANGED <<queueVars, worker, cancelled>> /\ UnchangedByRun

\* ... close(o.done).
CloseDone ==
  /\ run = "LevelClosed" /\ run' = "Done"
  /\ UNCHANGED <<queueVars, worker, cancelled>> /\ UnchangedByRun

-----------------------------------------------------------------------------
Worker(w) ==
  Get(w) \/ Lookup(w) \/ SyncSucceeds(w) \/ SyncFails(w) \/ Report(w) \/ Done(w)

Runner ==
  ServerVersion \/ StartWorkers \/ Stop \/ ShutDown \/ CloseLevel \/ CloseDone

Next ==
  /\ run # "Crashed"
  /\ \/ \E w \in Workers : Worker(w)
     \/ \E k \in Keys : Expire(k) \/ Notify(k) \/ Requeue(k) \/ Change(k) \/ Delete(k)
     \/ Resync
     \/ Runner
     \/ Cancel

Spec == Init /\ [][Next]_vars

\* Fairness: the goroutines of the workers, the waiting loop, the informer and
\* Run are scheduled, and syncs return.
Fairness ==
  /\ \A w \in Workers : WF_vars(run # "Crashed" /\ Worker(w))
  /\ WF_vars(run # "Crashed" /\ \E k \in Keys : Expire(k))
  /\ \A k \in Keys : WF_vars(run # "Crashed" /\ Notify(k))
  /\ WF_vars(run # "Crashed" /\ Runner)

FairSpec == Spec /\ Fairness

-----------------------------------------------------------------------------
(* Properties *)

Busy(w) == worker[w].at \in {"Got", "Syncing", "Reporting", "Finishing"}

\* "It enforces that the syncHandler is never invoked concurrently with the
\* same key" (worker): no two workers hold one key, however often it is added
\* while it is processed.
OneWorkerPerKey ==
  \A v, w \in Workers : Busy(v) /\ Busy(w) /\ worker[v].key = worker[w].key => v = w

\* A version the sync handler has not been called with is on its way there:
\* announced, queued, or in the hands of a worker that has yet to look it up.
NothingMissed ==
  ~ shutting =>
    \A k \in Keys : cache[k].exists /\ seen[k] # cache[k].version =>
      \/ k \in events \cup dirty
      \/ \E w \in Workers : worker[w].at = "Got" /\ worker[w].key = k

\* Signal wakes one worker and Done may signal with nothing to do, yet the
\* workers are never all asleep over a key that is queued.
NoLostWakeup ==
  (queue # <<>> /\ run = "Running") => \E w \in Workers : worker[w].at # "Waiting"

\* What the queue and the workers make of a key: a sync is owed while it is
\* announced, dirty or delayed, and it is in one worker's hands until Done.
Stage ==
  [k \in Keys |->
     IF k \notin processing THEN "idle"
     ELSE IF \E w \in Workers : worker[w].at = "Got" /\ worker[w].key = k THEN "taken"
     ELSE "syncing"]

Service == INSTANCE SyncService WITH
  object <- cache, owed <- events \cup dirty \cup waiting, stage <- Stage, handed <- seen,
  open <- ~ shutting

\* The queue with its three sets, the delays and the sleeping workers serves
\* each key as the abstract specification says: nothing owed is dropped before
\* the shutdown, no key is in two hands, and each sync is given the object as
\* it is cached after the key was taken (processNextWorkItem).
ImplementsService == Service!Spec

\* While it runs, every cached version is synced without an error in the end,
\* unless there were more failures than processNextWorkItem retries.
EventuallySynced ==
  \A k \in Keys :
    cache[k].exists /\ good[k] # cache[k].version
      ~> \/ good[k] = cache[k].version \/ ~ cache[k].exists
         \/ run \notin {"Starting", "CacheSync", "Running"}
         \/ failures > MaxRequeues

\* Once the context is done every worker returns, unless one panics.
WorkersReturn ==
  cancelled ~> run = "Crashed" \/ \A w \in Workers : worker[w].at \in {"Off", "Stopped"}

\* "Done returns a channel that is closed when the Operator is done running."
DoneMeansIdle ==
  run = "Done" => \A w \in Workers : worker[w].at # "Syncing"

=============================================================================
