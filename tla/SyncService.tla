----------------------------- MODULE SyncService -----------------------------
(***************************************************************************)
(* What a sync handler of OLM may rely on, whatever queues, delays and     *)
(* goroutines there are in between: a key that a sync is owed for keeps    *)
(* being owed one until it is taken, a change of its object while it is    *)
(* synced makes it owed again, no key is synced twice at once, and the     *)
(* handler is given the object as it is cached after the key was taken.    *)
(* QueueInformer implements this specification.                            *)
(***************************************************************************)
EXTENDS Naturals

CONSTANTS
  Keys,         \* keys of the cached objects
  MaxVersion    \* bound: versions of each object

VARIABLES
  object,   \* the cached objects: [version, exists]
  owed,     \* keys a sync is owed for
  stage,    \* of each key: "idle", "taken" or "syncing"
  handed,   \* the version last handed to the handler
  open      \* the operator has not shut its queue down

serviceVars == <<object, owed, stage, handed, open>>

Init ==
  /\ object = [k \in Keys |-> [version |-> 0, exists |-> FALSE]]
  /\ owed = {}
  /\ stage = [k \in Keys |-> "idle"]
  /\ handed = [k \in Keys |-> 0]
  /\ open = TRUE

\* The object changes: a sync is owed.
Change(k) ==
  /\ object[k].version < MaxVersion
  /\ object' = [object EXCEPT ![k] = [version |-> @.version + 1, exists |-> TRUE]]
  /\ owed' = owed \cup {k}
  /\ UNCHANGED <<stage, handed, open>>

Delete(k) ==
  /\ object' = [object EXCEPT ![k].exists = FALSE]
  /\ UNCHANGED <<owed, stage, handed, open>>

\* A resync, a requeue or a failed sync asks for more.
Ask(K) ==
  /\ owed' = owed \cup K
  /\ UNCHANGED <<object, stage, handed, open>>

\* Requests for one key may count as one, or not.
Take(k) ==
  /\ k \in owed /\ stage[k] = "idle"
  /\ stage' = [stage EXCEPT ![k] = "taken"]
  /\ owed' \in {owed, owed \ {k}}
  /\ UNCHANGED <<object, handed, open>>

\* The handler is called with the object that is cached by now, if there is one.
Hand(k) ==
  /\ stage[k] = "taken"
  /\ stage' = [stage EXCEPT ![k] = "syncing"]
  /\ handed' = IF object[k].exists THEN [handed EXCEPT ![k] = object[k].version] ELSE handed
  /\ UNCHANGED <<object, owed, open>>

Finish(k) ==
  /\ stage[k] = "syncing"
  /\ stage' = [stage EXCEPT ![k] = "idle"]
  /\ UNCHANGED <<object, owed, handed, open>>

\* After the shutdown, and only then, what is owed may be dropped.
Close ==
  /\ open' = FALSE
  /\ UNCHANGED <<object, owed, stage, handed>>

Drop(k) ==
  /\ ~ open
  /\ owed' = owed \ {k}
  /\ UNCHANGED <<object, stage, handed, open>>

Next ==
  \/ \E k \in Keys : Change(k) \/ Delete(k) \/ Take(k) \/ Hand(k) \/ Finish(k) \/ Drop(k)
  \/ \E K \in SUBSET Keys : Ask(K)
  \/ Close

Spec == Init /\ [][Next]_serviceVars

=============================================================================
