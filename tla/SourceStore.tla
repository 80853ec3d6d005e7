------------------------------ MODULE SourceStore ------------------------------
(***************************************************************************)
(* The store of gRPC connections to registry servers,                      *)
(* pkg/controller/registry/grpc/source.go.  One store is kept by the       *)
(* catalog operator and one by the package server; the modules that extend *)
(* this one are those users.                                               *)
(*                                                                         *)
(* sources is the map under sourcesLock.  Every operation takes that lock  *)
(* for one read or one write, so that each such section is one step here   *)
(* and what lies between two of them is where other goroutines run.  Each  *)
(* Add makes a connection and starts a goroutine that watches it: conns    *)
(* and watchers are numbered alike.  proc holds the program counters and   *)
(* locals of the goroutines that call the store.                           *)
(***************************************************************************)
EXTENDS Naturals, Sequences

CONSTANTS
  Keys,        \* catalog sources
  NoSource,    \* a key that is not in the map
  MaxConns,    \* bound: connections ever made
  MaxFaults    \* bound: connection losses, failed calls

VARIABLES
  sources,     \* [Keys -> NoSource or a SourceConn]
  conns,       \* the grpc.ClientConns ever made, each with its context
  watchers,    \* the goroutine that watches each of them
  proc,        \* the callers' program counters and locals
  faults       \* faults so far

storeVars == <<sources, conns, watchers, proc, faults>>

(* connectivity.State of the gRPC library. *)
ConnStates == {"Idle", "Connecting", "Ready", "TransientFailure", "Shutdown"}

ConnIds == 1..MaxConns

(* SourceConn: which connection, with its address and cancel function, and *)
(* the state last written beside it.                                       *)
SourceConn == [conn : ConnIds, state : ConnStates]

Watcher == [pc : {"wait", "get", "put", "send", "done"},
            seen : ConnStates, src : 0..MaxConns]

StoreInit ==
  /\ sources = [k \in Keys |-> NoSource]
  /\ conns = <<>>
  /\ watchers = <<>>
  /\ faults = 0

Fault ==
  /\ faults < MaxFaults
  /\ faults' = faults + 1

Goto(p, l) == proc' = [proc EXCEPT ![p].pc = l]

----------------------------------------------------------------------------
(* Remove, called by p for its key: a read, a delete under a second        *)
(* acquisition, then cancel and Close of what the read returned.           *)

RemoveRead(p) ==
  LET k == proc[p].key IN
  /\ proc[p].pc = "remove"
  /\ \/ /\ sources[k] = NoSource
        /\ Goto(p, proc[p].ret)
     \/ /\ sources[k] # NoSource
        /\ proc' = [proc EXCEPT ![p].pc = "delete", ![p].conn = sources[k].conn]
  /\ UNCHANGED <<sources, conns, watchers, faults>>

RemoveDelete(p) ==
  /\ proc[p].pc = "delete"
  /\ sources' = [sources EXCEPT ![proc[p].key] = NoSource]
  /\ Goto(p, "close")
  /\ UNCHANGED <<conns, watchers, faults>>

RemoveClose(p) ==
  /\ proc[p].pc = "close"
  /\ conns' = [conns EXCEPT ![proc[p].conn].cancelled = TRUE,
                            ![proc[p].conn].state = "Shutdown"]
  /\ Goto(p, proc[p].ret)
  /\ UNCHANGED <<sources, watchers, faults>>

(* Add, after its call of Remove: dial, put the connection in the map and  *)
(* start its watcher.  Dialling does not wait for the server; it fails     *)
(* only on an address it cannot parse.                                     *)
AddStore(p) ==
  /\ proc[p].pc = "dial"
  /\ Len(conns) < MaxConns
  /\ conns' = Append(conns, [key |-> proc[p].key, address |-> proc[p].addr,
                             state |-> "Connecting", cancelled |-> FALSE])
  /\ watchers' = Append(watchers, [pc |-> "wait", seen |-> "Idle", src |-> 0])
  /\ sources' = [sources EXCEPT ![proc[p].key] =
                   [conn |-> Len(conns) + 1, state |-> "Idle"]]
  /\ UNCHANGED faults

----------------------------------------------------------------------------
(* watch: wait for a change of state, read the entry of the key, write it  *)
(* back with the new state, reconnect, notify.                             *)

(* The head of the loop: a cancelled context ends the goroutine.           *)
LoopHead(c) == IF conns[c].cancelled THEN "done" ELSE "wait"

WatchCancelled(c) ==
  /\ watchers[c].pc = "wait"
  /\ conns[c].cancelled
  /\ watchers' = [watchers EXCEPT ![c].pc = "done"]
  /\ UNCHANGED <<sources, conns, proc, faults>>

WatchChange(c) ==
  /\ watchers[c].pc = "wait"
  /\ conns[c].state # watchers[c].seen
  /\ watchers' = [watchers EXCEPT ![c].pc = "get", ![c].seen = conns[c].state]
  /\ UNCHANGED <<sources, conns, proc, faults>>

WatchGet(c) ==
  LET source == sources[conns[c].key] IN
  /\ watchers[c].pc = "get"
  /\ \/ /\ source = NoSource
        /\ watchers' = [watchers EXCEPT ![c].pc = LoopHead(c)]
     \/ /\ source # NoSource
        /\ watchers' = [watchers EXCEPT ![c].pc = "put", ![c].src = source.conn]
  /\ UNCHANGED <<sources, conns, proc, faults>>

(* Connect is part of the step: it wakes an idle connection and returns.   *)
WatchPut(c) ==
  /\ watchers[c].pc = "put"
  /\ sources' = [sources EXCEPT ![conns[c].key] =
                   [conn |-> watchers[c].src, state |-> watchers[c].seen]]
  /\ conns' = [conns EXCEPT ![c].state = IF @ = "Idle" THEN "Connecting" ELSE @]
  /\ watchers' = [watchers EXCEPT ![c].pc = "send", ![c].src = 0]
  /\ UNCHANGED <<proc, faults>>

(* The channel is unbuffered: the send ends when Start's loop receives.    *)
Notified(c) == watchers' = [watchers EXCEPT ![c].pc = LoopHead(c)]

----------------------------------------------------------------------------
(* The gRPC library: the channel's state moves by itself.                  *)

ChannelReady(c) ==
  /\ conns[c].state = "Connecting"
  /\ conns' = [conns EXCEPT ![c].state = "Ready"]
  /\ UNCHANGED <<sources, watchers, proc, faults>>

ChannelFails(c) ==
  /\ conns[c].state = "Connecting"
  /\ Fault
  /\ conns' = [conns EXCEPT ![c].state = "TransientFailure"]
  /\ UNCHANGED <<sources, watchers, proc>>

ChannelBackoff(c) ==
  /\ conns[c].state = "TransientFailure"
  /\ conns' = [conns EXCEPT ![c].state = "Connecting"]
  /\ UNCHANGED <<sources, watchers, proc, faults>>

ChannelLost(c) ==
  /\ conns[c].state = "Ready"
  /\ Fault
  /\ conns' = [conns EXCEPT ![c].state = "Idle"]
  /\ UNCHANGED <<sources, watchers, proc>>

WatchStep(c) ==
  WatchCancelled(c) \/ WatchChange(c) \/ WatchGet(c) \/ WatchPut(c)

ChannelStep(c) == ChannelReady(c) \/ ChannelBackoff(c)

StoreStep(p) == RemoveRead(p) \/ RemoveDelete(p) \/ RemoveClose(p)
================================================================================
