----------------------------- MODULE ResolverCache -----------------------------
(***************************************************************************)
(* The resolver's cache of catalog contents,                               *)
(* pkg/controller/registry/resolver/cache/cache.go, with the sources that  *)
(* fill it and the channels that invalidate it, source_registry.go.        *)
(*                                                                         *)
(* A resolution calls Namespaced, which looks each catalog up under the    *)
(* cache's read lock, takes the write lock for the ones it misses, and     *)
(* starts one goroutine per miss that lists the catalog while holding the  *)
(* write lock of the new header.  Whoever asks that header anything waits  *)
(* for the goroutine: in Namespaced, with the cache's own lock held.       *)
(*                                                                         *)
(* A catalog's content is a version number; entries, properties and        *)
(* predicates are left out.  Who holds which lock follows from the program *)
(* counters, see ReadLocked, WriteLocked and Populating.                   *)
(***************************************************************************)
EXTENDS Naturals, FiniteSets

CONSTANTS
  Keys,            \* catalog sources
  Callers,         \* goroutines that resolve
  Capacity,        \* MaxConcurrentSnapshotUpdates
  MaxHeaders,      \* header addresses of a key, reused when free
  MaxChannels,     \* channel addresses of a key, reused likewise
  MaxReconnects,   \* bound: reconnections to registries
  MaxFaults        \* bound: failed snapshots

ASSUME BoundsAssumption ==
  {Capacity, MaxHeaders, MaxChannels, MaxReconnects, MaxFaults} \subseteq Nat

Headers == 1..MaxHeaders
Channels == 1..MaxChannels
Versions == 0..(MaxReconnects + 1)

VARIABLES
  call,         \* per caller: program counter and locals of Namespaced
  snapshots,    \* Cache.snapshots: the header of each key, 0 if none
  header,       \* the headers of each key, with the goroutine that fills them
  validChans,   \* sourceInvalidator.validChans, 0 if none
  closed,       \* channels that have been closed
  timers,       \* goroutines of GetValidChannel that wait for the ttl
  panic,        \* a channel was closed twice
  content,      \* what the registry of each catalog serves
  ready,        \* a connection became ready and the store's loop knows
  reconnects, faults

cacheVars == <<snapshots, header>>
invalidator == <<validChans, closed, timers, panic>>
registries == <<content, ready, reconnects>>
vars == <<call, snapshots, header, validChans, closed, timers, panic,
          content, ready, reconnects, faults>>

Call == [pc : {"idle", "rlock", "scan", "lock", "expire", "use"},
         todo : SUBSET Keys, misses : SUBSET Keys,
         result : [Keys -> 0..MaxHeaders]]

(* snapshotHeader.  pc is the goroutine's: "free" when the address is not  *)
(* in use, "done" once it has unlocked the header.  version 0 is a header  *)
(* without snapshot, whose err is set once done.                           *)
Header == [pc : {"free", "sem", "list", "chan", "done"},
           version : Versions, valid : 0..MaxChannels]

Free == [pc |-> "free", version |-> 0, valid |-> 0]
Returned == [pc |-> "idle", todo |-> {}, misses |-> {},
             result |-> [k \in Keys |-> 0]]

(* One invariant on the types of all variables; a snapshot that was filled *)
(* has its channel.                                                        *)
TypeOK ==
  /\ call \in [Callers -> Call]
  /\ snapshots \in [Keys -> 0..MaxHeaders]
  /\ header \in [Keys -> [Headers -> Header]]
  /\ \A k \in Keys, h \in Headers :
       header[k][h].pc = "done" /\ header[k][h].version # 0 => header[k][h].valid # 0
  /\ validChans \in [Keys -> 0..MaxChannels]
  /\ closed \in [Keys -> SUBSET Channels]
  /\ timers \in [Keys -> SUBSET Channels]
  /\ panic \in BOOLEAN
  /\ content \in [Keys -> Versions \ {0}]
  /\ ready \in [Keys -> BOOLEAN]
  /\ reconnects \in 0..MaxReconnects /\ faults \in 0..MaxFaults

Init ==
  /\ call = [r \in Callers |-> Returned]
  /\ snapshots = [k \in Keys |-> 0]
  /\ header = [k \in Keys |-> [h \in Headers |-> Free]]
  /\ validChans = [k \in Keys |-> 0]
  /\ closed = [k \in Keys |-> {}]
  /\ timers = [k \in Keys |-> {}]
  /\ panic = FALSE
  /\ content = [k \in Keys |-> 1]
  /\ ready = [k \in Keys |-> FALSE]
  /\ reconnects = 0 /\ faults = 0

----------------------------------------------------------------------------
(* Locks.  c.m is a sync.RWMutex: a writer that waits keeps new readers    *)
(* out.  hdr.m is write locked from before the header is published until   *)
(* its goroutine ends, and only read locked after that.                    *)

ReadLocked == {r \in Callers : call[r].pc = "scan"}
WriteLocked == {r \in Callers : call[r].pc = "expire"}
WriterWaits == \E r \in Callers : call[r].pc = "lock"
Populating(k, h) == h # 0 /\ header[k][h].pc \in {"sem", "list", "chan"}
HoldsSem == {x \in Keys \X Headers : header[x[1]][x[2]].pc \in {"list", "chan"}}

(* snapshotHeader.Valid, once its read lock is granted.                    *)
Valid(k, h) ==
  h # 0 /\ header[k][h].version # 0 /\ header[k][h].valid \notin closed[k]

(* The garbage collector: headers that neither the map, a caller nor a     *)
(* goroutine refers to, and closed channels without header or timer.       *)
Referenced(k, snaps, cs) ==
  {snaps[k]} \cup {cs[r].result[k] : r \in Callers}
  \cup {h \in Headers : Populating(k, h)}
Collected(snaps, cs) ==
  [k \in Keys |-> [h \in Headers |->
     IF h \in Referenced(k, snaps, cs) THEN header[k][h] ELSE Free]]
Tidied(cl, hdrs, tms) ==
  [k \in Keys |-> cl[k] \cap (tms[k] \cup {hdrs[k][h].valid : h \in Headers})]

FirstFree(S, used) ==
  {c \in S \ used : \A d \in S \ used : c <= d}

----------------------------------------------------------------------------
(* Namespaced *)

(* The sources are those of the namespaces' catalogs; one without client   *)
(* becomes a source that fails.                                            *)
Namespaced(r) ==
  /\ call[r].pc = "idle"
  /\ call' = [call EXCEPT ![r].pc = "rlock", ![r].todo = Keys]
  /\ UNCHANGED <<cacheVars, invalidator, registries, faults>>

ReadLock(r) ==
  /\ call[r].pc = "rlock"
  /\ WriteLocked = {} /\ ~WriterWaits
  /\ call' = [call EXCEPT ![r].pc = "scan"]
  /\ UNCHANGED <<cacheVars, invalidator, registries, faults>>

(* One turn of the loop: a valid snapshot is taken, anything else missed.  *)
(* After the last the lock is released.                                    *)
Scan(r, k) ==
  LET hit == Valid(k, snapshots[k])
      left == call[r].todo \ {k}
      misses == IF hit THEN call[r].misses ELSE call[r].misses \cup {k}
  IN
  /\ call[r].pc = "scan" /\ k \in call[r].todo
  /\ ~Populating(k, snapshots[k])
  /\ call' = [call EXCEPT
       ![r].todo = left, ![r].misses = misses,
       ![r].result[k] = IF hit THEN snapshots[k] ELSE 0,
       ![r].pc = IF left # {} THEN "scan" ELSE IF misses = {} THEN "use" ELSE "lock"]
  /\ UNCHANGED <<cacheVars, invalidator, registries, faults>>

WriteLock(r) ==
  /\ call[r].pc = "lock"
  /\ ReadLocked = {} /\ WriteLocked = {}
  /\ call' = [call EXCEPT ![r].pc = "expire",
                          ![r].todo = {k \in Keys : snapshots[k] # 0}]
  /\ UNCHANGED <<cacheVars, invalidator, registries, faults>>

(* Mutant: a header that is being filled is not waited for.                *)
ExpireUnlocked(r, k) ==
  /\ call[r].pc = "expire" /\ k \in call[r].todo
  /\ snapshots' = IF Valid(k, snapshots[k]) THEN snapshots
                  ELSE [snapshots EXCEPT ![k] = 0]
  /\ call' = [call EXCEPT ![r].todo = @ \ {k}]
  /\ header' = Collected(snapshots', call)
  /\ closed' = Tidied(closed, header', timers)
  /\ UNCHANGED <<validChans, timers, panic, registries, faults>>

(* One turn of the loop that clears expired snapshots.                     *)
Expire(r, k) ==
  /\ call[r].pc = "expire" /\ k \in call[r].todo
  /\ ~Populating(k, snapshots[k])
  /\ snapshots' = IF Valid(k, snapshots[k]) THEN snapshots
                  ELSE [snapshots EXCEPT ![k] = 0]
  /\ call' = [call EXCEPT ![r].todo = @ \ {k}]
  /\ header' = Collected(snapshots', call)
  /\ closed' = Tidied(closed, header', timers)
  /\ UNCHANGED <<validChans, timers, panic, registries, faults>>

(* The misses that are left once the lock is held.  Each gets a header of  *)
(* its own, locked, with a goroutine that waits for the semaphore.         *)
Missing(r) == {k \in call[r].misses : ~Valid(k, snapshots[k])}
NewHeader(k) == FirstFree(Headers, Referenced(k, snapshots, call))
Filled(r) ==
  [k \in Keys |-> IF k \in Missing(r) THEN CHOOSE h \in NewHeader(k) : TRUE ELSE snapshots[k]]

Filling(r) ==
  /\ call[r].pc = "expire" /\ call[r].todo = {}
  /\ \A k \in Missing(r) : NewHeader(k) # {}

(* What Fill does to the cache, with the callers as they are after it.     *)
StartPopulating(r) ==
  /\ snapshots' = Filled(r)
  /\ header' = [k \in Keys |-> [h \in Headers |->
       IF k \in Missing(r) /\ h = Filled(r)[k] THEN [Free EXCEPT !.pc = "sem"]
       ELSE Collected(Filled(r), call')[k][h]]]
  /\ closed' = Tidied(closed, header', timers)
  /\ UNCHANGED <<validChans, timers, panic, registries, faults>>

(* Mutants: the snapshots found while waiting for the lock are forgotten;  *)
(* a caller that started a population looks everything up again.           *)
FillForgetsFound(r) ==
  /\ Filling(r)
  /\ call' = [call EXCEPT ![r].pc = "use", ![r].misses = {},
       ![r].result = [k \in Keys |-> IF k \in Missing(r) THEN Filled(r)[k] ELSE @[k]]]
  /\ StartPopulating(r)

FillAndRetry(r) ==
  /\ Filling(r)
  /\ call' = [call EXCEPT ![r] = [Returned EXCEPT !.pc = "rlock", !.todo = Keys]]
  /\ StartPopulating(r)

(* The caller takes the headers of its misses, the new ones and the ones   *)
(* found while it waited for the lock, which it releases.                  *)
Fill(r) ==
  /\ Filling(r)
  /\ call' = [call EXCEPT ![r].pc = "use", ![r].misses = {},
       ![r].result = [k \in Keys |-> IF k \in call[r].misses THEN Filled(r)[k] ELSE @[k]]]
  /\ StartPopulating(r)

(* The resolution asks for errors and entries, and waits for every header. *)
Use(r) ==
  /\ call[r].pc = "use"
  /\ \A k \in Keys : ~Populating(k, call[r].result[k])
  /\ call' = [call EXCEPT ![r] = Returned]
  /\ header' = Collected(snapshots, call')
  /\ closed' = Tidied(closed, header', timers)
  /\ UNCHANGED <<snapshots, validChans, timers, panic, registries, faults>>

----------------------------------------------------------------------------
(* The goroutine of a header *)

Acquire(k, h) ==
  /\ header[k][h].pc = "sem"
  /\ Cardinality(HoldsSem) < Capacity
  /\ header' = [header EXCEPT ![k][h].pc = "list"]
  /\ UNCHANGED <<call, snapshots, invalidator, registries, faults>>

(* registrySource.Snapshot: list the bundles ...                           *)
List(k, h) ==
  /\ header[k][h].pc = "list"
  /\ header' = [header EXCEPT ![k][h].pc = "chan", ![k][h].version = content[k]]
  /\ UNCHANGED <<call, snapshots, invalidator, registries, faults>>

(* (a source without client fails here too)                                *)
ListFails(k, h) ==
  /\ header[k][h].pc = "list"
  /\ faults < MaxFaults
  /\ faults' = faults + 1
  /\ header' = [header EXCEPT ![k][h].pc = "done"]
  /\ UNCHANGED <<call, snapshots, invalidator, registries>>

(* ... then GetValidChannel, which starts the timer of a new channel.  The *)
(* header is unlocked and the semaphore released.                          *)
ChannelsInUse(k) ==
  {validChans[k]} \cup timers[k] \cup {header[k][h].valid : h \in Headers}

GetValidChannel(k, h) ==
  /\ header[k][h].pc = "chan"
  /\ \/ /\ validChans[k] # 0
        /\ header' = [header EXCEPT ![k][h].pc = "done", ![k][h].valid = validChans[k]]
        /\ UNCHANGED <<validChans, timers>>
     \/ /\ validChans[k] = 0
        /\ \E c \in FirstFree(Channels, ChannelsInUse(k)) :
             /\ validChans' = [validChans EXCEPT ![k] = c]
             /\ timers' = [timers EXCEPT ![k] = @ \cup {c}]
             /\ header' = [header EXCEPT ![k][h].pc = "done", ![k][h].valid = c]
  /\ UNCHANGED <<call, snapshots, closed, panic, registries, faults>>

----------------------------------------------------------------------------
(* sourceInvalidator *)

(* Mutants: the closed channel stays in the map; the timer closes nothing. *)
InvalidateKeeps(k) ==
  /\ ready[k]
  /\ ready' = [ready EXCEPT ![k] = FALSE]
  /\ \/ /\ validChans[k] = 0
        /\ UNCHANGED <<closed, panic>>
     \/ /\ validChans[k] # 0
        /\ panic' = (panic \/ validChans[k] \in closed[k])
        /\ closed' = [closed EXCEPT ![k] = @ \cup {validChans[k]}]
  /\ UNCHANGED <<call, cacheVars, validChans, timers, content, reconnects, faults>>

TtlForgets(k, c) ==
  /\ c \in timers[k]
  /\ timers' = [timers EXCEPT ![k] = @ \ {c}]
  /\ closed' = Tidied(closed, header, timers')
  /\ UNCHANGED <<call, cacheVars, validChans, panic, registries, faults>>

(* syncSourceState for a ready connection.                                 *)
Invalidate(k) ==
  /\ ready[k]
  /\ ready' = [ready EXCEPT ![k] = FALSE]
  /\ \/ /\ validChans[k] = 0
        /\ UNCHANGED <<validChans, closed, panic>>
     \/ /\ validChans[k] # 0
        /\ panic' = (panic \/ validChans[k] \in closed[k])
        /\ closed' = [closed EXCEPT ![k] = @ \cup {validChans[k]}]
        /\ validChans' = [validChans EXCEPT ![k] = 0]
  /\ UNCHANGED <<call, cacheVars, timers, content, reconnects, faults>>

(* The end of the ttl: only the channel that is still saved is closed.     *)
Ttl(k, c) ==
  /\ c \in timers[k]
  /\ timers' = [timers EXCEPT ![k] = @ \ {c}]
  /\ \/ /\ validChans[k] = c
        /\ panic' = (panic \/ c \in closed[k])
        /\ closed' = Tidied([closed EXCEPT ![k] = @ \cup {c}], header, timers')
        /\ validChans' = [validChans EXCEPT ![k] = 0]
     \/ /\ validChans[k] # c
        /\ closed' = Tidied(closed, header, timers')
        /\ UNCHANGED <<validChans, panic>>
  /\ UNCHANGED <<call, cacheVars, registries, faults>>

(* A registry is replaced, by one with the same or with new content, and   *)
(* the connection becomes ready again.                                     *)
Reconnect(k) ==
  /\ reconnects < MaxReconnects
  /\ reconnects' = reconnects + 1
  /\ ready' = [ready EXCEPT ![k] = TRUE]
  /\ content' \in {content, [content EXCEPT ![k] = @ + 1]}
  /\ UNCHANGED <<call, cacheVars, invalidator, faults>>

----------------------------------------------------------------------------
Resolve(r) ==
  \/ Namespaced(r) \/ ReadLock(r) \/ WriteLock(r) \/ Fill(r) \/ Use(r)
  \/ \E k \in Keys : Scan(r, k) \/ Expire(r, k)

Populate(k, h) == Acquire(k, h) \/ List(k, h) \/ ListFails(k, h) \/ GetValidChannel(k, h)

Next ==
  \/ \E r \in Callers : Resolve(r)
  \/ \E k \in Keys :
       \/ \E h \in Headers : Populate(k, h)
       \/ Invalidate(k) \/ Reconnect(k)
       \/ \E c \in Channels : Ttl(k, c)

Spec == Init /\ [][Next]_vars

(* Goroutines run and time passes; a mutex and a semaphore let everyone in *)
(* that waits (a RWMutex keeps new readers out while a writer waits, and   *)
(* lets the readers in before the next writer).                            *)
FairSpec ==
  /\ Spec
  /\ \A r \in Callers :
       /\ WF_vars(Resolve(r))
       /\ SF_vars(ReadLock(r)) /\ SF_vars(WriteLock(r))
  /\ \A k \in Keys :
       /\ WF_vars(\E h \in Headers : Populate(k, h))
       /\ SF_vars(\E h \in Headers : Acquire(k, h))
       /\ WF_vars(Invalidate(k))
       /\ WF_vars(\E c \in Channels : Ttl(k, c))

----------------------------------------------------------------------------
(* No catalog is listed twice at the same time: a header is replaced only  *)
(* after whoever replaces it has waited for its goroutine.                 *)
OneFetchPerCatalog ==
  \A k \in Keys : \A h, i \in Headers :
    Populating(k, h) /\ Populating(k, i) => h = i

(* A caller that leaves Namespaced has a header for every catalog; no      *)
(* header is dropped under a caller that was told it was found.            *)
ResultComplete ==
  \A r \in Callers : call[r].pc = "use" => \A k \in Keys : call[r].result[k] # 0

(* The timer and Invalidate never close the same channel (closing twice    *)
(* panics).                                                                *)
NoDoubleClose == ~panic

(* Waiting for headers with the cache's lock held never blocks for good:   *)
(* every call returns and every resolution gets its entries.               *)
CallsReturn == \A r \in Callers : (call[r].pc # "idle") ~> (call[r].pc = "idle")

(* Once registries stop changing, every resolution ends up using what they *)
(* serve, including when the invalidation came before the channel.         *)
EventuallyCurrent ==
  <>[](\A r \in Callers : call[r].pc = "use" => \A k \in Keys :
         LET h == call[r].result[k] IN
         ~Populating(k, h) => header[k][h].version = content[k])

(* "Unless closed, the Snapshot is valid."  A snapshot with an open        *)
(* channel is not older than what the registry served at the last          *)
(* invalidation.                                                           *)
OpenMeansCurrent ==
  \A k \in Keys : \A h \in Headers :
    header[k][h].pc = "done" /\ Valid(k, h) /\ ~ready[k] =>
      header[k][h].version = content[k]
================================================================================
