----------------------------- MODULE PackageServer -----------------------------
(***************************************************************************)
(* The package server's view of the catalogs,                              *)
(* pkg/package-server/provider/registry.go, over its store of connections. *)
(*                                                                         *)
(* Three kinds of goroutine share the cache of PackageManifests of one     *)
(* catalog: the queue worker that syncs the CatalogSource, the loop of the *)
(* store that handles connection states (one for all catalogs), and the    *)
(* informer's handler of deletions.  A refresh is the same code in the     *)
(* first two: list the packages, fetch each, add it, then remove what was  *)
(* not added.  A manifest is the version of the package it was made from;  *)
(* its channels, labels and icons are left out.                            *)
(***************************************************************************)
EXTENDS SourceStore, FiniteSets

CONSTANTS
  Packages,      \* package names
  Gone,          \* a CatalogSource that does not exist
  MaxAddress,    \* addresses are 1..MaxAddress
  MaxChanges,    \* bound: changes made to catalogs and their content
  Deletes,       \* catalogs may be deleted
  Recreates      \* deleted catalogs may come back, changed addresses too

VARIABLES
  catsrc,    \* the lister's CatalogSource: Gone, 0 without address, or address
  queued,    \* keys in the CatalogSource queue
  content,   \* what the registry of a catalog serves: 0, or a version
  cache,     \* the indexer of PackageManifests: 0, or the version it shows
  changes    \* changes so far

vars == <<sources, conns, watchers, proc, faults,
          catsrc, queued, content, cache, changes>>

Addresses == 1..MaxAddress
Versions == 0..(MaxChanges + 1)

Workers == {<<"worker", k>> : k \in Keys}
Deleters == {<<"deleter", k>> : k \in Keys}
Subscriber == <<"subscriber">>
Procs == Workers \cup Deleters \cup {Subscriber}
SomeKey == CHOOSE k \in Keys : TRUE

(* The locals of a goroutine: todo are the packages whose goroutine has    *)
(* not fetched yet, got the manifests fetched and not yet in the cache.    *)
Local == [pc : {"idle", "meta", "remove", "delete", "close", "dial",
                "client", "list", "fetch", "gc"},
          ret : {"idle", "dial", "gc"},
          key : Keys, conn : 0..MaxConns, addr : 0..MaxAddress,
          todo : SUBSET Packages, got : [Packages -> Versions],
          added : SUBSET Packages]

Idle(k) ==
  [pc |-> "idle", ret |-> "idle", key |-> k, conn |-> 0, addr |-> 0,
   todo |-> {}, got |-> [x \in Packages |-> 0], added |-> {}]

(* One invariant on types, of the store's variables and of these.          *)
TypeOK ==
  /\ sources \in [Keys -> {NoSource} \cup SourceConn]
  /\ \A c \in 1..Len(conns) :
       /\ conns[c].key \in Keys /\ conns[c].address \in Addresses
       /\ conns[c].state \in ConnStates /\ conns[c].cancelled \in BOOLEAN
       /\ watchers[c] \in Watcher
  /\ Len(watchers) = Len(conns) /\ Len(conns) <= MaxConns
  /\ proc \in [Procs -> Local]
  /\ faults \in 0..MaxFaults /\ changes \in 0..MaxChanges
  /\ catsrc \in [Keys -> {Gone} \cup 0..MaxAddress]
  /\ queued \in [Keys -> BOOLEAN]
  /\ content \in [Keys -> [Packages -> Versions]]
  /\ cache \in [Keys -> [Packages -> Versions]]

Init ==
  /\ StoreInit
  /\ proc = [p \in Procs |-> Idle(IF p = Subscriber THEN SomeKey ELSE p[2])]
  /\ catsrc = [k \in Keys |-> 0]
  /\ queued = [k \in Keys |-> TRUE]
  /\ content = [k \in Keys |-> [x \in Packages |-> 1]]
  /\ cache = [k \in Keys |-> [x \in Packages |-> 0]]
  /\ changes = 0

objects == <<catsrc, content, changes>>
store == <<sources, conns, watchers, faults>>

(* The goroutine ends its handler; a worker whose handler failed puts its  *)
(* key back.                                                               *)
Return(p) == proc' = [proc EXCEPT ![p] = Idle(proc[p].key)]
Succeed(p) == Return(p) /\ UNCHANGED queued
Fail(p) ==
  /\ Return(p)
  /\ queued' = IF p \in Workers THEN [queued EXCEPT ![proc[p].key] = TRUE] ELSE queued

----------------------------------------------------------------------------
(* syncCatalogSource *)

(* The worker takes the key and finds the object as the lister has it.     *)
SyncCatalogSource(p) ==
  LET k == proc[p].key IN
  /\ p \in Workers /\ proc[p].pc = "idle" /\ queued[k]
  /\ queued' = [queued EXCEPT ![k] = FALSE]
  /\ \/ /\ catsrc[k] \in {Gone, 0}
        /\ UNCHANGED proc
     \/ /\ catsrc[k] \in Addresses
        /\ proc' = [proc EXCEPT ![p].pc = "meta", ![p].addr = catsrc[k]]
  /\ UNCHANGED <<store, objects, cache>>

(* GetMeta: a source with this address is refreshed, anything else is      *)
(* replaced by a new connection.                                           *)
Connected(k, a) == sources[k] # NoSource /\ conns[sources[k].conn].address = a

CheckMeta(p) ==
  /\ proc[p].pc = "meta"
  /\ \/ /\ Connected(proc[p].key, proc[p].addr)
        /\ Goto(p, "client")
     \/ /\ ~Connected(proc[p].key, proc[p].addr)
        /\ proc' = [proc EXCEPT ![p].pc = "remove", ![p].ret = "dial"]
  /\ UNCHANGED <<store, objects, queued, cache>>

AddSource(p) == AddStore(p) /\ Succeed(p) /\ UNCHANGED <<objects, cache>>

DialFails(p) ==
  /\ proc[p].pc = "dial"
  /\ Fault
  /\ Fail(p)
  /\ UNCHANGED <<sources, conns, watchers, objects, cache>>

----------------------------------------------------------------------------
(* refreshCache and gcPackages *)

(* registryClient: the connection in the map, and the catalog itself.      *)
RegistryClient(p) ==
  LET k == proc[p].key IN
  /\ proc[p].pc = "client"
  /\ \/ /\ sources[k] = NoSource \/ catsrc[k] = Gone
        /\ Fail(p)
     \/ /\ sources[k] # NoSource /\ catsrc[k] # Gone
        /\ proc' = [proc EXCEPT ![p].pc = "list", ![p].conn = sources[k].conn]
        /\ UNCHANGED queued
  /\ UNCHANGED <<store, objects, cache>>

Served(k) == {x \in Packages : content[k][x] # 0}

(* ListBundles and ListPackages.  A call on an idle channel connects it;   *)
(* one on a failed or closed channel fails, and so may any other: the      *)
(* handler then ends without an error, so that nothing is retried.  A      *)
(* stream that breaks off leaves the packages received before.             *)
ListPackages(p) ==
  LET k == proc[p].key  c == proc[p].conn IN
  /\ proc[p].pc = "list"
  /\ \/ /\ conns[c].state = "Idle"
        /\ conns' = [conns EXCEPT ![c].state = "Connecting"]
        /\ UNCHANGED <<proc, queued, faults>>
     \/ /\ conns[c].state \in {"TransientFailure", "Shutdown"}
        /\ Succeed(p)
        /\ UNCHANGED <<conns, faults>>
     \/ /\ conns[c].state = "Ready"
        /\ proc' = [proc EXCEPT ![p].pc = "fetch", ![p].todo = Served(k)]
        /\ UNCHANGED <<conns, queued, faults>>
     \/ /\ conns[c].state = "Ready"
        /\ Fault
        /\ \E part \in SUBSET Served(k) :
             proc' = [proc EXCEPT ![p].pc = "fetch", ![p].todo = part]
        /\ UNCHANGED <<conns, queued>>
     \/ /\ Fault
        /\ Succeed(p)
        /\ UNCHANGED conns
  /\ UNCHANGED <<sources, watchers, objects, cache>>

(* The goroutine of one package: GetPackage and newPackageManifest ...     *)
GetPackage(p, x) ==
  LET k == proc[p].key
      reply == IF conns[proc[p].conn].state = "Ready" THEN content[k][x] ELSE 0
  IN
  /\ proc[p].pc = "fetch" /\ x \in proc[p].todo
  /\ \/ /\ proc' = [proc EXCEPT ![p].todo = @ \ {x}, ![p].got[x] = reply]
        /\ UNCHANGED faults
     \/ /\ Fault
        /\ proc' = [proc EXCEPT ![p].todo = @ \ {x}]
  /\ UNCHANGED <<sources, conns, watchers, objects, queued, cache>>

(* ... then the Add to the cache.                                          *)
CachePackage(p, x) ==
  /\ proc[p].pc = "fetch" /\ proc[p].got[x] # 0
  /\ cache' = [cache EXCEPT ![proc[p].key][x] = proc[p].got[x]]
  /\ proc' = [proc EXCEPT ![p].got[x] = 0, ![p].added = @ \cup {x}]
  /\ UNCHANGED <<store, objects, queued>>

(* Mutant: nothing is collected.                                           *)
GcNothing(p) ==
  /\ \/ proc[p].pc = "gc"
     \/ /\ proc[p].pc = "fetch"
        /\ proc[p].todo = {} /\ \A x \in Packages : proc[p].got[x] = 0
  /\ Succeed(p)
  /\ UNCHANGED <<store, objects, cache>>

(* gcPackages, after wg.Wait for all of those goroutines where a refresh   *)
(* calls it: what the index lists for the catalog and is not to be kept is *)
(* deleted.  A key added while the loop runs is as one added after it.     *)
GcPackages(p) ==
  /\ \/ proc[p].pc = "gc"
     \/ /\ proc[p].pc = "fetch"
        /\ proc[p].todo = {} /\ \A x \in Packages : proc[p].got[x] = 0
  /\ cache' = [cache EXCEPT ![proc[p].key] =
                 [x \in Packages |-> IF x \in proc[p].added THEN @[x] ELSE 0]]
  /\ Succeed(p)
  /\ UNCHANGED <<store, objects>>

----------------------------------------------------------------------------
(* Mutant: a notification about a removed source is not received.          *)
SyncKnownSourceState(c) ==
  LET k == conns[c].key  state == watchers[c].seen IN
  /\ proc[Subscriber].pc = "idle" /\ watchers[c].pc = "send"
  /\ sources[k] # NoSource
  /\ Notified(c)
  /\ proc' = [proc EXCEPT ![Subscriber] =
       [Idle(k) EXCEPT !.pc = CASE state = "Ready" -> "client"
                                [] state \in {"TransientFailure", "Shutdown"} -> "gc"
                                [] OTHER -> "idle"]]
  /\ UNCHANGED <<sources, conns, faults, objects, queued, cache>>

(* syncSourceState, called by the loop of Start for each notification.     *)
SyncSourceState(c) ==
  LET k == conns[c].key  state == watchers[c].seen IN
  /\ proc[Subscriber].pc = "idle" /\ watchers[c].pc = "send"
  /\ Notified(c)
  /\ proc' = [proc EXCEPT ![Subscriber] =
       [Idle(k) EXCEPT !.pc = CASE state = "Ready" -> "client"
                                [] state \in {"TransientFailure", "Shutdown"} -> "gc"
                                [] OTHER -> "idle"]]
  /\ UNCHANGED <<sources, conns, faults, objects, queued, cache>>

(* catalogSourceDeleted: the informer has dropped the object and calls the *)
(* handler, which removes the source and then the packages.                *)
CatalogSourceDeleted(k) ==
  LET p == <<"deleter", k>> IN
  /\ Deletes /\ catsrc[k] # Gone /\ proc[p].pc = "idle"
  /\ changes < MaxChanges
  /\ changes' = changes + 1
  /\ catsrc' = [catsrc EXCEPT ![k] = Gone]
  /\ proc' = [proc EXCEPT ![p].pc = "remove", ![p].ret = "gc"]
  /\ UNCHANGED <<store, content, queued, cache>>

----------------------------------------------------------------------------
(* The cluster *)

(* The catalog operator writes the address of the registry to the status,  *)
(* or a user sets another one: each change queues the catalog.  Addresses  *)
(* are numbered in the order in which they are first used.                 *)
SetAddress(k, a) ==
  /\ catsrc[k] # a
  /\ catsrc[k] \in {Gone, 0} \cup Addresses
  /\ catsrc[k] = Gone => Recreates
  /\ catsrc[k] = 0 => a = 1
  /\ catsrc[k] \in Addresses => Recreates \/ a = catsrc[k] + 1
  /\ IF catsrc[k] = 0 THEN UNCHANGED changes
     ELSE changes < MaxChanges /\ changes' = changes + 1
  /\ catsrc' = [catsrc EXCEPT ![k] = a]
  /\ queued' = [queued EXCEPT ![k] = TRUE]
  /\ UNCHANGED <<store, proc, content, cache>>

(* The registry serves something else: a package goes, or changes.         *)
Publish(k, x, v) ==
  /\ changes < MaxChanges
  /\ changes' = changes + 1
  /\ v \in {0, changes + 2}
  /\ content[k][x] # v
  /\ content' = [content EXCEPT ![k][x] = v]
  /\ UNCHANGED <<store, proc, catsrc, queued, cache>>

(* The informer's periodic resync.                                         *)
Resync(k) ==
  /\ catsrc[k] # Gone
  /\ ~queued[k]
  /\ queued' = [queued EXCEPT ![k] = TRUE]
  /\ UNCHANGED <<store, proc, objects, cache>>

provider == <<objects, queued, cache>>

Handler(p) ==
  \/ SyncCatalogSource(p) \/ CheckMeta(p) \/ AddSource(p) \/ DialFails(p)
  \/ RegistryClient(p) \/ ListPackages(p) \/ GcPackages(p)
  \/ \E x \in Packages : GetPackage(p, x) \/ CachePackage(p, x)
  \/ StoreStep(p) /\ UNCHANGED provider

Next ==
  \/ \E p \in Procs : Handler(p)
  \/ \E c \in 1..Len(conns) :
       \/ SyncSourceState(c)
       \/ (WatchStep(c) \/ ChannelStep(c) \/ ChannelFails(c) \/ ChannelLost(c))
            /\ UNCHANGED provider
  \/ \E k \in Keys :
       \/ CatalogSourceDeleted(k)
       \/ Resync(k)
       \/ \E a \in Addresses : SetAddress(k, a)
       \/ \E x \in Packages, v \in Versions : Publish(k, x, v)

Spec == Init /\ [][Next]_vars

(* Goroutines run, the library keeps trying to connect, the informer       *)
(* resyncs, and the operator publishes an address.  Go hands an unbuffered *)
(* channel's senders their turn in the order they blocked.                 *)
FairSpec ==
  /\ Spec
  /\ \A p \in Procs : WF_vars(Handler(p))
  /\ \A k \in Keys : WF_vars(Resync(k)) /\ WF_vars(catsrc[k] = 0 /\ SetAddress(k, 1))
  /\ \A c \in ConnIds :
       /\ WF_vars(c <= Len(conns) /\ WatchStep(c) /\ UNCHANGED provider)
       /\ WF_vars(c <= Len(conns) /\ ChannelStep(c) /\ UNCHANGED provider)
       /\ SF_vars(c <= Len(conns) /\ SyncSourceState(c))

----------------------------------------------------------------------------
(* A watcher has read the entry of its key, which was then removed or      *)
(* replaced, and is about to write it back.                                *)
StaleWriteBack ==
  \E c \in 1..Len(conns) :
    LET source == sources[conns[c].key] IN
    /\ watchers[c].pc = "put"
    /\ source # NoSource => source.conn # watchers[c].src

(* Once catalogs and registries stop changing, what the server lists for a *)
(* catalog becomes and stays what its registry serves, whatever refreshes  *)
(* overlapped, calls failed and connections were lost or replaced on the   *)
(* way, unless a watcher wrote a removed connection back into the store.   *)
CacheConverges ==
  \/ <>StaleWriteBack
  \/ <>[](\A k \in Keys : catsrc[k] \in Addresses => cache[k] = content[k])

(* The same without the exception.                                         *)
CacheAlwaysConverges ==
  <>[](\A k \in Keys : catsrc[k] \in Addresses => cache[k] = content[k])

(* A watcher whose source was removed ends: neither the blocking send nor  *)
(* the loop around it keeps the goroutine.                                 *)
RemovedWatcherExits ==
  \A c \in ConnIds :
    (c <= Len(conns) /\ conns[c].cancelled) ~> (c <= Len(conns) /\ watchers[c].pc = "done")

(* A catalog that is gone and stays gone ends without packages.            *)
DeletedIsEmpty ==
  <>[](\A k \in Keys : catsrc[k] = Gone => \A x \in Packages : cache[k][x] = 0)
================================================================================
