------------------------- MODULE ResolverCacheProofs -------------------------
(***************************************************************************)
(* For any number of catalogs, resolutions, headers and channels: the      *)
(* types, one listing of a catalog at a time, complete results, and no     *)
(* channel closed twice.                                                   *)
(*                                                                         *)
(* OneFetchPerCatalog follows from PopulatesCurrent, the header being      *)
(* filled is the one in the map.  That holds when Fill puts a new header   *)
(* there, because the write lock is exclusive (OneWriter) and its holder   *)
(* has waited for every header in the map (Waited).  ResultComplete rests  *)
(* on the keys without header being remembered as misses (Accounted), and  *)
(* NoDoubleClose on a closed channel not being handed out again            *)
(* (ClosedInUse), nor left in validChans (OpenWhileSaved).                 *)
(***************************************************************************)
EXTENDS ResolverCache, TLAPS

Filled_pcs == {"sem", "list", "chan"}

\* A registry changes its content with a reconnection.
ContentBound == \A k \in Keys : content[k] <= reconnects + 1

\* The write lock of the cache is exclusive.
OneWriter ==
  \A r, q \in Callers : call[r].pc = "expire" /\ call[q].pc = "expire" => r = q

PopulatesCurrent ==
  \A k \in Keys, h \in Headers : header[k][h].pc \in Filled_pcs => snapshots[k] = h

\* The writer has waited for what it has ticked off.
Waited ==
  \A r \in Callers, k \in Keys :
    call[r].pc = "expire" /\ k \notin call[r].todo => ~Populating(k, snapshots[k])

\* A look-up starts with every key.
FromTheStart == \A r \in Callers : call[r].pc = "rlock" => call[r].todo = Keys

\* A key that a caller has looked up has a header or is a miss.
Accounted ==
  \A r \in Callers, k \in Keys :
    \/ call[r].pc \in {"idle", "rlock"}
    \/ call[r].pc = "scan" /\ k \in call[r].todo
    \/ call[r].result[k] # 0
    \/ call[r].pc # "use" /\ k \in call[r].misses

\* A saved channel has its timer and is open.
OpenWhileSaved ==
  \A k \in Keys : validChans[k] # 0 => /\ validChans[k] \in timers[k]
                                       /\ validChans[k] \notin closed[k]

\* The address of a closed channel is in use as long as it counts as closed.
ClosedInUse ==
  \A k \in Keys : closed[k] \subseteq timers[k] \cup {header[k][h].valid : h \in Headers}

\* A header gets its channel last.
ChannelLast ==
  \A k \in Keys, h \in Headers : header[k][h].pc # "done" => header[k][h].valid = 0

-----------------------------------------------------------------------------
(* The garbage collector *)

\* Collecting keeps a header as it is or frees it, and keeps those being filled.
LEMMA CollectedKeeps ==
  ASSUME NEW snaps, NEW cs, NEW k \in Keys, NEW h \in Headers
  PROVE  /\ Collected(snaps, cs)[k][h] \in {header[k][h], Free}
         /\ Populating(k, h) => Collected(snaps, cs)[k][h] = header[k][h]
BY DEF Collected, Referenced

\* Tidying forgets closed channels, and leaves only those in use.
LEMMA TidiedKeeps ==
  ASSUME NEW cl, NEW hdrs, NEW tms, NEW k \in Keys
  PROVE  /\ Tidied(cl, hdrs, tms)[k] \subseteq cl[k]
         /\ Tidied(cl, hdrs, tms)[k] \subseteq tms[k] \cup {hdrs[k][h].valid : h \in Headers}
BY DEF Tidied

\* The conjunct of TypeOK on headers, and that a header is empty until it is
\* listed, so that one whose listing failed stays without snapshot.
HeaderOK(hdr) ==
  /\ hdr.pc = "done" /\ hdr.version # 0 => hdr.valid # 0
  /\ hdr.pc \in {"sem", "list"} => hdr.version = 0
HeadersOK(hdrs) ==
  /\ hdrs \in [Keys -> [Headers -> Header]]
  /\ \A k \in Keys, h \in Headers : HeaderOK(hdrs[k][h])

\* A collected or tidied state has the types of the one before.
LEMMA CollectedType ==
  ASSUME HeadersOK(header), NEW snaps, NEW cs
  PROVE  HeadersOK(Collected(snaps, cs))
<1>1. Free \in Header
  BY BoundsAssumption DEF Free, Header, Versions
<1>2. \A k \in Keys, h \in Headers : header[k][h] \in Header
  BY DEF HeadersOK
<1>3. Collected(snaps, cs) \in [Keys -> [Headers -> Header]]
  BY <1>1, <1>2 DEF Collected
<1>4. ASSUME NEW k \in Keys, NEW h \in Headers
      PROVE  HeaderOK(Collected(snaps, cs)[k][h])
  <2>1. HeaderOK(header[k][h])
    BY DEF HeadersOK
  <2>2. HeaderOK(Free)
    BY DEF Free, HeaderOK
  <2>3. Collected(snaps, cs)[k][h] \in {header[k][h], Free}
    BY CollectedKeeps
  <2> QED
    BY <2>1, <2>2, <2>3
<1> QED
  BY <1>3, <1>4 DEF HeadersOK

LEMMA TidiedType ==
  ASSUME NEW cl \in [Keys -> SUBSET Channels], NEW hdrs, NEW tms
  PROVE  Tidied(cl, hdrs, tms) \in [Keys -> SUBSET Channels]
BY DEF Tidied

\* A header for a miss is one of the headers.
LEMMA FilledType ==
  ASSUME TypeOK, NEW r \in Callers, Filling(r)
  PROVE  /\ Filled(r) \in [Keys -> 0..MaxHeaders]
         /\ \A k \in Missing(r) \cap Keys : Filled(r)[k] \in Headers
         /\ \A k \in Keys \ Missing(r) : Filled(r)[k] = snapshots[k]
<1>1. ASSUME NEW k \in Missing(r)
      PROVE  (CHOOSE h \in NewHeader(k) : TRUE) \in Headers
  <2>1. NewHeader(k) # {} /\ NewHeader(k) \subseteq Headers
    BY DEF Filling, NewHeader, FirstFree
  <2> QED
    BY <2>1
<1>2. Headers \subseteq 0..MaxHeaders
  BY BoundsAssumption DEF Headers
<1>3. \A k \in Keys : snapshots[k] \in 0..MaxHeaders
  BY DEF TypeOK
<1> QED
  BY <1>1, <1>2, <1>3 DEF Filled

-----------------------------------------------------------------------------
(* Types *)

LEMMA CallTypes ==
  ASSUME TypeOK, NEW r \in Callers, Resolve(r)
  PROVE  call' \in [Callers -> Call]
<1>1. /\ call[r] \in Call /\ call \in [Callers -> Call]
      /\ snapshots \in [Keys -> 0..MaxHeaders]
  BY DEF TypeOK
<1>2. Returned \in Call
  BY BoundsAssumption DEF Returned, Call
<1>3. CASE Namespaced(r)
  BY <1>1, <1>3 DEF Namespaced, Call
<1>4. CASE ReadLock(r)
  BY <1>1, <1>4 DEF ReadLock, Call
<1>5. CASE WriteLock(r)
  BY <1>1, <1>5 DEF WriteLock, Call
<1>6. CASE Use(r)
  BY <1>1, <1>2, <1>6 DEF Use
<1>7. CASE Fill(r)
  <2> DEFINE res == [k \in Keys |-> IF k \in call[r].misses THEN Filled(r)[k] ELSE call[r].result[k]]
  <2>1. Filled(r) \in [Keys -> 0..MaxHeaders]
    BY <1>7, FilledType DEF Fill
  <2>2. res \in [Keys -> 0..MaxHeaders]
    BY <1>1, <2>1 DEF Call
  <2>3. call' = [call EXCEPT ![r] = [call[r] EXCEPT !.pc = "use", !.misses = {}, !.result = res]]
    BY <1>1, <1>7 DEF Fill, Call
  <2> HIDE DEF res
  <2> QED
    BY <1>1, <2>2, <2>3 DEF Call
<1>8. ASSUME NEW k \in Keys, Scan(r, k) PROVE call' \in [Callers -> Call]
  <2> DEFINE hit == Valid(k, snapshots[k])
             left == call[r].todo \ {k}
             misses == IF hit THEN call[r].misses ELSE call[r].misses \cup {k}
             res == [call[r].result EXCEPT ![k] = IF hit THEN snapshots[k] ELSE 0]
             pc == IF left # {} THEN "scan" ELSE IF misses = {} THEN "use" ELSE "lock"
  <2>1. /\ left \in SUBSET Keys /\ misses \in SUBSET Keys
        /\ res \in [Keys -> 0..MaxHeaders] /\ pc \in {"scan", "use", "lock"}
    BY <1>1, BoundsAssumption DEF Call
  <2>2. call' = [call EXCEPT ![r] = [call[r] EXCEPT !.todo = left, !.misses = misses,
                                                    !.result = res, !.pc = pc]]
    BY <1>1, <1>8 DEF Scan, Call
  <2> HIDE DEF left, misses, res, pc
  <2> QED
    BY <1>1, <2>1, <2>2 DEF Call
<1>9. ASSUME NEW k \in Keys, Expire(r, k) PROVE call' \in [Callers -> Call]
  BY <1>1, <1>9 DEF Expire, Call
<1> QED
  BY <1>3, <1>4, <1>5, <1>6, <1>7, <1>8, <1>9 DEF Resolve

LEMMA ResolveTypes ==
  ASSUME TypeOK, HeadersOK(header), NEW r \in Callers, Resolve(r)
  PROVE  TypeOK' /\ HeadersOK(header')
<1>1. call' \in [Callers -> Call]
  BY CallTypes
<1>2. CASE UNCHANGED <<cacheVars, invalidator, registries, faults>>
  BY <1>1, <1>2 DEF TypeOK, cacheVars, invalidator, registries
<1>3. ASSUME UNCHANGED <<validChans, timers, panic, registries, faults>>,
             HeadersOK(header'), snapshots' \in [Keys -> 0..MaxHeaders],
             closed' = Tidied(closed, header', timers)
      PROVE  TypeOK' /\ HeadersOK(header')
  <2>1. closed' \in [Keys -> SUBSET Channels]
    BY <1>3, TidiedType DEF TypeOK
  <2> QED
    BY <1>1, <1>3, <2>1 DEF TypeOK, HeadersOK, HeaderOK, registries
<1>4. CASE Use(r)
  <2>1. HeadersOK(header') /\ snapshots' \in [Keys -> 0..MaxHeaders]
    BY <1>4, CollectedType DEF Use, TypeOK
  <2> QED
    BY <1>3, <1>4, <2>1 DEF Use
<1>5. ASSUME NEW k \in Keys, Expire(r, k) PROVE TypeOK' /\ HeadersOK(header')
  <2>1. snapshots' \in [Keys -> 0..MaxHeaders]
    BY <1>5, BoundsAssumption DEF Expire, TypeOK
  <2>2. HeadersOK(header')
    BY <1>5, CollectedType DEF Expire
  <2> QED
    BY <1>3, <1>5, <2>1, <2>2 DEF Expire
<1>6. CASE Fill(r)
  <2> DEFINE col == Collected(Filled(r), call')
             new == [Free EXCEPT !.pc = "sem"]
  <2>1. Filled(r) \in [Keys -> 0..MaxHeaders]
    BY <1>6, FilledType DEF Fill
  <2>2. new \in Header /\ new.pc = "sem" /\ new.version = 0
    BY BoundsAssumption DEF Free, Header, Versions
  <2>3. HeadersOK(col)
    BY CollectedType
  <2>4. header' = [k \in Keys |-> [h \in Headers |->
                     IF k \in Missing(r) /\ h = Filled(r)[k] THEN new ELSE col[k][h]]]
    BY <1>6 DEF Fill, StartPopulating
  <2> HIDE DEF col, new
  <2>5. HeadersOK(header')
    BY <2>2, <2>3, <2>4 DEF HeadersOK, HeaderOK
  <2> QED
    BY <1>3, <1>6, <2>1, <2>5 DEF Fill, StartPopulating
<1> QED
  BY <1>2, <1>4, <1>5, <1>6 DEF Resolve, Namespaced, ReadLock, WriteLock, Scan

\* What a goroutine of a header changes is its header, and at its end the channels.
LEMMA PopulateTypes ==
  ASSUME TypeOK, HeadersOK(header), NEW k \in Keys, NEW h \in Headers, Populate(k, h)
  PROVE  TypeOK' /\ HeadersOK(header')
<1>1. header \in [Keys -> [Headers -> Header]] /\ header[k][h] \in Header
  BY DEF TypeOK
<1>3. CASE Acquire(k, h)
  <2>1. HeadersOK(header')
    BY <1>1, <1>3 DEF Acquire, HeadersOK, HeaderOK, TypeOK, Header
  <2> QED
    BY <1>3, <2>1 DEF Acquire, HeadersOK, HeaderOK, TypeOK, invalidator, registries
<1>4. CASE List(k, h)
  <2>1. content[k] \in Versions
    BY DEF TypeOK
  <2>2. HeadersOK(header')
    BY <1>1, <1>4, <2>1 DEF List, HeadersOK, HeaderOK, TypeOK, Header
  <2> QED
    BY <1>4, <2>2 DEF List, HeadersOK, HeaderOK, TypeOK, invalidator, registries
<1>5. CASE ListFails(k, h)
  <2>1. faults' \in 0..MaxFaults
    BY <1>5, BoundsAssumption DEF ListFails, TypeOK
  <2>2. HeadersOK(header')
    BY <1>1, <1>5 DEF ListFails, HeadersOK, HeaderOK, TypeOK, Header
  <2> QED
    BY <1>5, <2>1, <2>2 DEF ListFails, HeadersOK, HeaderOK, TypeOK, invalidator, registries
<1>6. ASSUME NEW c \in Channels, GetValidChannel(k, h),
             header' = [header EXCEPT ![k][h].pc = "done", ![k][h].valid = c],
             validChans' \in [Keys -> 0..MaxChannels], timers' \in [Keys -> SUBSET Channels]
      PROVE  TypeOK' /\ HeadersOK(header')
  <2>1. c \in 0..MaxChannels /\ c # 0
    BY BoundsAssumption DEF Channels
  <2>2. HeadersOK(header')
    BY <1>1, <1>6, <2>1 DEF HeadersOK, HeaderOK, TypeOK, Header
  <2> QED
    BY <1>6, <2>2 DEF GetValidChannel, HeadersOK, HeaderOK, TypeOK, registries
<1>7. CASE GetValidChannel(k, h)
  <2>1. CASE validChans[k] # 0
    <3>1. validChans[k] \in Channels
      BY <2>1, BoundsAssumption DEF TypeOK, Channels
    <3> QED
      BY <1>6, <1>7, <2>1, <3>1 DEF GetValidChannel, TypeOK
  <2>2. CASE validChans[k] = 0
    <3>1. PICK c \in FirstFree(Channels, ChannelsInUse(k)) :
            /\ validChans' = [validChans EXCEPT ![k] = c]
            /\ timers' = [timers EXCEPT ![k] = @ \cup {c}]
            /\ header' = [header EXCEPT ![k][h].pc = "done", ![k][h].valid = c]
      BY <1>7, <2>2 DEF GetValidChannel
    <3>2. c \in Channels /\ c \in 0..MaxChannels
      BY BoundsAssumption DEF FirstFree, Channels
    <3>3. validChans' \in [Keys -> 0..MaxChannels] /\ timers' \in [Keys -> SUBSET Channels]
      BY <3>1, <3>2 DEF TypeOK
    <3> QED
      BY <1>6, <1>7, <3>1, <3>2, <3>3
  <2> QED
    BY <2>1, <2>2
<1> QED
  BY <1>3, <1>4, <1>5, <1>7 DEF Populate

LEMMA ChannelTypes ==
  ASSUME TypeOK, HeadersOK(header), NEW k \in Keys,
         Invalidate(k) \/ \E c \in Channels : Ttl(k, c)
  PROVE  TypeOK' /\ HeadersOK(header')
<1>1. 0 \in 0..MaxChannels
  BY BoundsAssumption
<1>2. CASE Invalidate(k)
  <2>1. ready' \in [Keys -> BOOLEAN] /\ panic' \in BOOLEAN
    BY <1>2 DEF Invalidate, TypeOK
  <2>2. validChans[k] # 0 => validChans[k] \in Channels
    BY BoundsAssumption DEF TypeOK, Channels
  <2>3. validChans' \in [Keys -> 0..MaxChannels]
    BY <1>1, <1>2 DEF Invalidate, TypeOK
  <2>4. validChans[k] # 0 => [closed EXCEPT ![k] = @ \cup {validChans[k]}] \in [Keys -> SUBSET Channels]
    BY <2>2 DEF TypeOK
  <2>5. closed' \in [Keys -> SUBSET Channels]
    BY <1>2, <2>4 DEF Invalidate, TypeOK
  <2> QED
    BY <1>2, <2>1, <2>3, <2>5 DEF Invalidate, TypeOK, cacheVars
<1>3. ASSUME NEW c \in Channels, Ttl(k, c) PROVE TypeOK' /\ HeadersOK(header')
  <2>1. panic' \in BOOLEAN
    BY <1>3 DEF Ttl, TypeOK
  <2>2. [closed EXCEPT ![k] = @ \cup {c}] \in [Keys -> SUBSET Channels]
    BY DEF TypeOK
  <2>3. closed' \in [Keys -> SUBSET Channels]
    <3>1. PICK cl \in [Keys -> SUBSET Channels] : closed' = Tidied(cl, header, timers')
      BY <1>3, <2>2 DEF Ttl, TypeOK
    <3> QED
      BY <3>1, TidiedType
  <2>4. validChans' \in [Keys -> 0..MaxChannels] /\ timers' \in [Keys -> SUBSET Channels]
    BY <1>1, <1>3 DEF Ttl, TypeOK
  <2> QED
    BY <1>3, <2>1, <2>3, <2>4 DEF Ttl, TypeOK, cacheVars, registries
<1> QED
  BY <1>2, <1>3

\* Contents stay within the bound on reconnections.
LEMMA ContentTypes ==
  ASSUME TypeOK, HeadersOK(header), ContentBound, [Next]_vars
  PROVE  /\ ContentBound'
         /\ \A k \in Keys : Reconnect(k) => TypeOK' /\ HeadersOK(header')
<1>1. ASSUME NEW k \in Keys, Reconnect(k) PROVE ContentBound' /\ TypeOK' /\ HeadersOK(header')
  <2>1. /\ reconnects' \in 0..MaxReconnects /\ reconnects' = reconnects + 1
        /\ reconnects \in Nat
    BY <1>1, BoundsAssumption DEF Reconnect, TypeOK
  <2>2. /\ DOMAIN content' = Keys
        /\ \A j \in Keys : content'[j] \in {content[j], content[j] + 1}
    BY <1>1 DEF Reconnect, TypeOK, Versions
  <2>3. \A j \in Keys : content[j] \in Nat \ {0} /\ content[j] <= reconnects + 1
    BY BoundsAssumption DEF TypeOK, ContentBound, Versions
  <2>4. \A j \in Keys : content'[j] \in Nat \ {0} /\ content'[j] <= reconnects' + 1
    BY <2>1, <2>2, <2>3
  <2>5. \A j \in Keys : content'[j] \in Versions \ {0}
    BY <2>1, <2>4, BoundsAssumption DEF Versions
  <2>6. content' \in [Keys -> Versions \ {0}]
    BY <1>1, <2>2, <2>5 DEF Reconnect, TypeOK
  <2>7. ready' \in [Keys -> BOOLEAN]
    BY <1>1 DEF Reconnect, TypeOK
  <2> QED
    BY <1>1, <2>1, <2>4, <2>6, <2>7 DEF Reconnect, TypeOK, ContentBound, cacheVars, invalidator
<1>2. ASSUME UNCHANGED <<content, reconnects>> PROVE ContentBound'
  BY <1>2 DEF ContentBound
<1>3. UNCHANGED <<content, reconnects>> \/ \E k \in Keys : Reconnect(k)
  <2>1. ASSUME NEW r \in Callers, Resolve(r) PROVE UNCHANGED <<content, reconnects>>
    BY <2>1 DEF Resolve, Namespaced, ReadLock, Scan, WriteLock, Expire, Fill, StartPopulating, Use,
       registries
  <2>2. ASSUME NEW k \in Keys, NEW h \in Headers, Populate(k, h)
        PROVE  UNCHANGED <<content, reconnects>>
    BY <2>2 DEF Populate, Acquire, List, ListFails, GetValidChannel, registries
  <2>3. ASSUME NEW k \in Keys, Invalidate(k) \/ \E c \in Channels : Ttl(k, c)
        PROVE  UNCHANGED <<content, reconnects>>
    BY <2>3 DEF Invalidate, Ttl, registries
  <2>4. CASE UNCHANGED vars
    BY <2>4 DEF vars
  <2> QED
    BY <2>1, <2>2, <2>3, <2>4 DEF Next
<1> QED
  BY <1>1, <1>2, <1>3

TypeInv == TypeOK /\ HeadersOK(header) /\ ContentBound

LEMMA NextTypes == TypeInv /\ [Next]_vars => TypeInv'
<1> SUFFICES ASSUME TypeOK, HeadersOK(header), ContentBound, [Next]_vars
             PROVE  TypeOK' /\ HeadersOK(header') /\ ContentBound'
  BY DEF TypeInv, HeadersOK, HeaderOK
<1>1. CASE UNCHANGED vars
  BY <1>1 DEF TypeOK, ContentBound, vars
<1> QED
  BY <1>1, ResolveTypes, PopulateTypes, ChannelTypes, ContentTypes DEF Next

-----------------------------------------------------------------------------
(* One listing of a catalog at a time *)

Exclusion == OneWriter /\ PopulatesCurrent /\ Waited

\* Steps that leave the map alone, and start no listing, of callers that do
\* not take the lock.
LEMMA ExclusionStays ==
  ASSUME Exclusion, snapshots' = snapshots,
         \A k \in Keys, h \in Headers :
           header'[k][h].pc \in Filled_pcs => header[k][h].pc \in Filled_pcs,
         \A r \in Callers :
           call'[r].pc = "expire" => call[r].pc = "expire" /\ call'[r].todo = call[r].todo,
         snapshots \in [Keys -> 0..MaxHeaders]
  PROVE  Exclusion'
<1>1. OneWriter' /\ PopulatesCurrent'
  BY DEF Exclusion, OneWriter, PopulatesCurrent
<1>2. \A k \in Keys : snapshots[k] # 0 => snapshots[k] \in Headers
  BY BoundsAssumption DEF Headers
<1>3. \A k \in Keys : Populating(k, snapshots[k])' => Populating(k, snapshots[k])
  BY <1>2 DEF Populating, Filled_pcs
<1>4. Waited'
  BY <1>3 DEF Exclusion, Waited
<1> QED
  BY <1>1, <1>4 DEF Exclusion

LEMMA ExclusionExpire ==
  ASSUME TypeInv, Exclusion, NEW r \in Callers, NEW k \in Keys, Expire(r, k)
  PROVE  Exclusion'
<1>1. /\ call \in [Callers -> Call] /\ call[r] \in Call
      /\ snapshots \in [Keys -> 0..MaxHeaders]
  BY DEF TypeInv, TypeOK
<1>2. /\ call[r].pc = "expire" /\ k \in call[r].todo /\ ~Populating(k, snapshots[k])
      /\ snapshots' \in {snapshots, [snapshots EXCEPT ![k] = 0]}
      /\ call' = [call EXCEPT ![r].todo = @ \ {k}]
      /\ header' = Collected(snapshots', call)
  BY DEF Expire
<1>3. /\ \A q \in Callers : call'[q].pc = call[q].pc
      /\ \A q \in Callers : q # r => call'[q].todo = call[q].todo
      /\ call'[r].todo = call[r].todo \ {k}
  BY <1>1, <1>2 DEF Call
<1>4. \A j \in Keys, h \in Headers :
        header'[j][h].pc \in Filled_pcs =>
          header'[j][h] = header[j][h] /\ header[j][h].pc \in Filled_pcs
  BY <1>2, CollectedKeeps DEF Free, Filled_pcs
<1>5. \A j \in Keys : snapshots'[j] \in {snapshots[j], 0} /\ (j # k => snapshots'[j] = snapshots[j])
  BY <1>1, <1>2
<1>6. \A j \in Keys : snapshots[j] # 0 => snapshots[j] \in Headers
  BY <1>1, BoundsAssumption DEF Headers
<1>7. OneWriter'
  BY <1>3 DEF Exclusion, OneWriter
<1>8. ASSUME NEW j \in Keys, NEW h \in Headers, header'[j][h].pc \in Filled_pcs
      PROVE  snapshots'[j] = h
  <2>1. header[j][h].pc \in Filled_pcs /\ snapshots[j] = h /\ h # 0
    BY <1>4, <1>8, BoundsAssumption DEF Exclusion, PopulatesCurrent, Headers
  <2>2. j # k
    BY <1>2, <2>1 DEF Populating, Filled_pcs
  <2> QED
    BY <1>5, <2>1, <2>2
<1>9. \A j \in Keys : Populating(j, snapshots[j])' => Populating(j, snapshots[j])
  BY <1>4, <1>5, <1>6 DEF Populating, Filled_pcs
<1>10. Waited'
  BY <1>2, <1>3, <1>9 DEF Exclusion, Waited, OneWriter
<1> QED
  BY <1>7, <1>8, <1>10 DEF Exclusion, PopulatesCurrent

LEMMA ExclusionFill ==
  ASSUME TypeInv, Exclusion, NEW r \in Callers, Fill(r)
  PROVE  Exclusion'
<1>1. /\ call \in [Callers -> Call] /\ call[r] \in Call
      /\ snapshots \in [Keys -> 0..MaxHeaders]
  BY DEF TypeInv, TypeOK
<1>2. /\ Filling(r) /\ snapshots' = Filled(r)
      /\ header' = [k \in Keys |-> [h \in Headers |->
           IF k \in Missing(r) /\ h = Filled(r)[k] THEN [Free EXCEPT !.pc = "sem"]
           ELSE Collected(Filled(r), call')[k][h]]]
      /\ \A q \in Callers : q # r => call'[q] = call[q]
      /\ call'[r].pc = "use"
  BY <1>1 DEF Fill, StartPopulating, Call
<1>3. \A q \in Callers : call'[q].pc # "expire"
  BY <1>2 DEF Exclusion, OneWriter, Filling
<1>4. OneWriter' /\ Waited'
  BY <1>3 DEF OneWriter, Waited
<1>5. \A k \in Keys : ~Populating(k, snapshots[k])
  BY <1>2 DEF Exclusion, Waited, Filling
<1>6. ASSUME NEW k \in Keys, NEW h \in Headers, header'[k][h].pc \in Filled_pcs
      PROVE  snapshots'[k] = h
  <2>1. header[k][h].pc \notin Filled_pcs
    BY <1>5, BoundsAssumption DEF Exclusion, PopulatesCurrent, Populating, Filled_pcs, Headers
  <2>2. Collected(Filled(r), call')[k][h] \in {header[k][h], Free}
    BY CollectedKeeps
  <2>3. Collected(Filled(r), call')[k][h].pc \notin Filled_pcs
    BY <2>1, <2>2 DEF Free, Filled_pcs
  <2> QED
    BY <1>2, <1>6, <2>3
<1> QED
  BY <1>4, <1>6 DEF Exclusion, PopulatesCurrent

LEMMA ExclusionWriteLock ==
  ASSUME TypeInv, Exclusion, NEW r \in Callers, WriteLock(r)
  PROVE  Exclusion'
<1>1. call \in [Callers -> Call] /\ call[r] \in Call
  BY DEF TypeInv, TypeOK
<1>2. /\ \A q \in Callers : call[q].pc # "expire" /\ (q # r => call'[q] = call[q])
      /\ call'[r].todo = {k \in Keys : snapshots[k] # 0}
      /\ snapshots' = snapshots /\ header' = header
  BY <1>1 DEF WriteLock, WriteLocked, Call, cacheVars
<1> QED
  BY <1>2 DEF Exclusion, OneWriter, PopulatesCurrent, Waited, Populating

LEMMA NextExclusion == TypeInv /\ Exclusion /\ [Next]_vars => Exclusion'
<1> SUFFICES ASSUME TypeInv, Exclusion, [Next]_vars PROVE Exclusion'
  OBVIOUS
<1>0. /\ call \in [Callers -> Call] /\ snapshots \in [Keys -> 0..MaxHeaders]
      /\ header \in [Keys -> [Headers -> Header]]
  BY DEF TypeInv, TypeOK
<1>1. CASE UNCHANGED <<call, snapshots, header>>
  BY <1>0, <1>1, ExclusionStays
<1>2. ASSUME NEW r \in Callers,
             Namespaced(r) \/ ReadLock(r) \/ \E k \in Keys : Scan(r, k)
      PROVE  Exclusion'
  <2>1. snapshots' = snapshots /\ header' = header
    BY <1>2 DEF Namespaced, ReadLock, Scan, cacheVars
  <2>2. /\ \A q \in Callers : q # r => call'[q] = call[q]
        /\ call'[r].pc # "expire"
    <3>1. CASE Namespaced(r) \/ ReadLock(r)
      BY <1>0, <3>1 DEF Namespaced, ReadLock, Call
    <3>2. ASSUME NEW k \in Keys, Scan(r, k)
          PROVE  (\A q \in Callers : q # r => call'[q] = call[q]) /\ call'[r].pc # "expire"
      BY <1>0, <3>2 DEF Scan, Call
    <3> QED
      BY <1>2, <3>1, <3>2
  <2> QED
    BY <1>0, <2>1, <2>2, ExclusionStays
<1>3. ASSUME NEW r \in Callers, Use(r) PROVE Exclusion'
  <2>1. snapshots' = snapshots /\ header' = Collected(snapshots, call')
    BY <1>3 DEF Use
  <2>2. \A k \in Keys, h \in Headers :
          header'[k][h].pc \in Filled_pcs => header[k][h].pc \in Filled_pcs
    BY <2>1, CollectedKeeps DEF Free, Filled_pcs
  <2>3. /\ \A q \in Callers : q # r => call'[q] = call[q]
        /\ call'[r].pc # "expire"
    BY <1>0, <1>3 DEF Use, Returned
  <2> QED
    BY <1>0, <2>1, <2>2, <2>3, ExclusionStays
<1>4. ASSUME NEW k \in Keys, NEW h \in Headers, Populate(k, h) PROVE Exclusion'
  <2>1. snapshots' = snapshots /\ call' = call
    BY <1>4 DEF Populate, Acquire, List, ListFails, GetValidChannel
  <2>2. /\ header[k][h].pc \in Filled_pcs
        /\ \A j \in Keys, i \in Headers : j # k \/ i # h => header'[j][i] = header[j][i]
    <3>1. CASE Acquire(k, h) \/ List(k, h) \/ ListFails(k, h)
      BY <1>0, <3>1 DEF Acquire, List, ListFails, Filled_pcs
    <3>2. CASE GetValidChannel(k, h)
      BY <1>0, <3>2 DEF GetValidChannel, Filled_pcs
    <3> QED
      BY <1>4, <3>1, <3>2 DEF Populate
  <2> QED
    BY <1>0, <2>1, <2>2, ExclusionStays
<1>5. ASSUME NEW k \in Keys,
             Invalidate(k) \/ Reconnect(k) \/ \E c \in Channels : Ttl(k, c)
      PROVE  UNCHANGED <<call, snapshots, header>>
  BY <1>5 DEF Invalidate, Reconnect, Ttl, cacheVars
<1>6. CASE UNCHANGED vars
  BY <1>1, <1>6 DEF vars
<1> QED
  BY <1>1, <1>2, <1>3, <1>4, <1>5, <1>6, ExclusionExpire, ExclusionFill, ExclusionWriteLock
  DEF Next, Resolve

-----------------------------------------------------------------------------
(* Complete results *)

Lookups == FromTheStart /\ Accounted

\* The last turn of the loop leaves a header or a miss for every key.
LEMMA LookupsScan ==
  ASSUME TypeInv, Lookups, NEW r \in Callers, NEW k \in Keys, Scan(r, k)
  PROVE  Lookups'
<1>1. call \in [Callers -> Call] /\ call[r] \in Call
  BY DEF TypeInv, TypeOK
<1>2. /\ call[r].pc = "scan"
      /\ call'[r].todo = call[r].todo \ {k}
      /\ call'[r].misses \in {call[r].misses, call[r].misses \cup {k}}
      /\ call'[r].result[k] # 0 \/ k \in call'[r].misses
      /\ \A j \in Keys : j # k => call'[r].result[j] = call[r].result[j]
      /\ \/ call'[r].pc = "scan"
         \/ call'[r].pc = "use" /\ call'[r].todo = {} /\ call'[r].misses = {}
         \/ call'[r].pc = "lock" /\ call'[r].todo = {}
  BY <1>1 DEF Scan, Valid, Call
<1>3. \A q \in Callers : q # r => call'[q] = call[q]
  BY <1>1 DEF Scan
<1> QED
  BY <1>2, <1>3 DEF Lookups, FromTheStart, Accounted

LEMMA LookupsFill ==
  ASSUME TypeInv, Lookups, NEW r \in Callers, Fill(r)
  PROVE  Lookups'
<1>1. call \in [Callers -> Call] /\ call[r] \in Call
  BY DEF TypeInv, TypeOK
<1>2. /\ Filling(r) /\ call[r].pc = "expire" /\ call'[r].pc = "use"
      /\ \A q \in Callers : q # r => call'[q] = call[q]
      /\ \A k \in Keys : call'[r].result[k] =
           IF k \in call[r].misses THEN Filled(r)[k] ELSE call[r].result[k]
  BY <1>1 DEF Fill, Filling, Call
<1>3. ASSUME NEW k \in Keys, k \in call[r].misses PROVE Filled(r)[k] # 0
  <2>1. CASE k \in Missing(r)
    BY <1>2, <2>1, FilledType, BoundsAssumption DEF TypeInv, Headers
  <2>2. CASE k \notin Missing(r)
    BY <1>2, <1>3, <2>2, FilledType DEF TypeInv, Missing, Valid
  <2> QED
    BY <2>1, <2>2
<1> QED
  BY <1>2, <1>3 DEF Lookups, FromTheStart, Accounted

LEMMA NextLookups == TypeInv /\ Lookups /\ [Next]_vars => Lookups'
<1> SUFFICES ASSUME TypeInv, Lookups, [Next]_vars PROVE Lookups'
  OBVIOUS
<1>0. call \in [Callers -> Call]
  BY DEF TypeInv, TypeOK
<1>1. CASE call' = call
  BY <1>1 DEF Lookups, FromTheStart, Accounted
<1>2. ASSUME NEW r \in Callers, Namespaced(r) \/ Use(r) PROVE Lookups'
  <2>1. /\ \A q \in Callers : q # r => call'[q] = call[q]
        /\ call'[r].pc = "idle" \/ (call'[r].pc = "rlock" /\ call'[r].todo = Keys)
    <3>1. CASE Namespaced(r)
      BY <1>0, <3>1 DEF Namespaced, Call
    <3>2. CASE Use(r)
      BY <1>0, <3>2 DEF Use, Returned
    <3> QED
      BY <1>2, <3>1, <3>2
  <2> QED
    BY <2>1 DEF Lookups, FromTheStart, Accounted
<1>3. ASSUME NEW r \in Callers, ReadLock(r) PROVE Lookups'
  <2>1. /\ \A q \in Callers : q # r => call'[q] = call[q]
        /\ call[r].pc = "rlock" /\ call'[r].pc = "scan" /\ call'[r].todo = call[r].todo
    BY <1>0, <1>3 DEF ReadLock, Call
  <2> QED
    BY <2>1 DEF Lookups, FromTheStart, Accounted
<1>4. ASSUME NEW r \in Callers, WriteLock(r) \/ \E k \in Keys : Expire(r, k) PROVE Lookups'
  <2>1. /\ \A q \in Callers : q # r => call'[q] = call[q]
        /\ call[r].pc \in {"lock", "expire"} /\ call'[r].pc = "expire"
        /\ call'[r].misses = call[r].misses /\ call'[r].result = call[r].result
    <3>1. CASE WriteLock(r)
      BY <1>0, <3>1 DEF WriteLock, Call
    <3>2. CASE \E k \in Keys : Expire(r, k)
      BY <1>0, <3>2 DEF Expire, Call
    <3> QED
      BY <1>4, <3>1, <3>2
  <2> QED
    BY <2>1 DEF Lookups, FromTheStart, Accounted
<1>5. ASSUME NEW k \in Keys, NEW h \in Headers, Populate(k, h) PROVE call' = call
  BY <1>5 DEF Populate, Acquire, List, ListFails, GetValidChannel
<1>6. ASSUME NEW k \in Keys,
             Invalidate(k) \/ Reconnect(k) \/ \E c \in Channels : Ttl(k, c)
      PROVE  call' = call
  BY <1>6 DEF Invalidate, Reconnect, Ttl
<1>7. CASE UNCHANGED vars
  BY <1>1, <1>7 DEF vars
<1> QED
  BY <1>1, <1>2, <1>3, <1>4, <1>5, <1>6, <1>7, LookupsScan, LookupsFill DEF Next, Resolve

-----------------------------------------------------------------------------
(* No channel is closed twice *)

Closing == OpenWhileSaved /\ ClosedInUse /\ ChannelLast /\ NoDoubleClose

\* Collecting headers and tidying channels opens nothing and loses nothing.
LEMMA ClosingCollect ==
  ASSUME Closing, closed' = Tidied(closed, header', timers),
         UNCHANGED <<validChans, timers, panic>>,
         \A k \in Keys, h \in Headers : header'[k][h].pc # "done" => header'[k][h].valid = 0
  PROVE  Closing'
<1>1. \A k \in Keys : /\ closed'[k] \subseteq closed[k]
                      /\ closed'[k] \subseteq timers[k] \cup {header'[k][h].valid : h \in Headers}
  BY TidiedKeeps
<1> QED
  BY <1>1 DEF Closing, OpenWhileSaved, ClosedInUse, ChannelLast, NoDoubleClose

LEMMA ClosingResolve ==
  ASSUME TypeInv, Closing, NEW r \in Callers, Resolve(r)
  PROVE  Closing'
<1>1. CASE UNCHANGED <<header, validChans, closed, timers, panic>>
  BY <1>1 DEF Closing, OpenWhileSaved, ClosedInUse, ChannelLast, NoDoubleClose
<1>2. \A snaps, cs : \A k \in Keys, h \in Headers :
        Collected(snaps, cs)[k][h].pc # "done" => Collected(snaps, cs)[k][h].valid = 0
  <2> SUFFICES ASSUME NEW snaps, NEW cs, NEW k \in Keys, NEW h \in Headers,
                      Collected(snaps, cs)[k][h].pc # "done"
               PROVE  Collected(snaps, cs)[k][h].valid = 0
    OBVIOUS
  <2>1. Collected(snaps, cs)[k][h] \in {header[k][h], Free}
    BY CollectedKeeps
  <2>2. header[k][h].pc # "done" => header[k][h].valid = 0
    BY DEF Closing, ChannelLast
  <2> QED
    BY <2>1, <2>2 DEF Free
<1>3. CASE Use(r) \/ \E k \in Keys : Expire(r, k)
  <2>1. \E snaps, cs : header' = Collected(snaps, cs)
    BY <1>3 DEF Use, Expire
  <2>2. /\ closed' = Tidied(closed, header', timers)
        /\ UNCHANGED <<validChans, timers, panic>>
    BY <1>3 DEF Use, Expire
  <2> QED
    BY <1>2, <2>1, <2>2, ClosingCollect
<1>4. CASE Fill(r)
  <2>1. /\ closed' = Tidied(closed, header', timers)
        /\ UNCHANGED <<validChans, timers, panic>>
        /\ header' = [k \in Keys |-> [h \in Headers |->
             IF k \in Missing(r) /\ h = Filled(r)[k] THEN [Free EXCEPT !.pc = "sem"]
             ELSE Collected(Filled(r), call')[k][h]]]
    BY <1>4 DEF Fill, StartPopulating
  <2>2. [Free EXCEPT !.pc = "sem"].valid = 0
    BY DEF Free
  <2>3. \A k \in Keys, h \in Headers : header'[k][h].pc # "done" => header'[k][h].valid = 0
    BY <1>2, <2>1, <2>2
  <2> QED
    BY <2>1, <2>3, ClosingCollect
<1>5. CASE Namespaced(r) \/ ReadLock(r) \/ WriteLock(r) \/ \E k \in Keys : Scan(r, k)
  BY <1>1, <1>5 DEF Namespaced, ReadLock, WriteLock, Scan, cacheVars, invalidator
<1> QED
  BY <1>3, <1>4, <1>5 DEF Resolve

\* A new channel has an address that no closed channel keeps in use.
LEMMA ClosingPopulate ==
  ASSUME TypeInv, Closing, NEW k \in Keys, NEW h \in Headers, Populate(k, h)
  PROVE  Closing'
<1>0. /\ header \in [Keys -> [Headers -> Header]] /\ header[k][h] \in Header
      /\ validChans \in [Keys -> 0..MaxChannels]
      /\ closed \in [Keys -> SUBSET Channels] /\ timers \in [Keys -> SUBSET Channels]
  BY DEF TypeInv, TypeOK
<1>1. CASE Acquire(k, h) \/ List(k, h) \/ ListFails(k, h)
  <2>1. UNCHANGED <<validChans, closed, timers, panic>>
    BY <1>1 DEF Acquire, List, ListFails, invalidator
  <2>2. header[k][h].pc # "done" /\ header[k][h].valid = 0
    BY <1>1 DEF Acquire, List, ListFails, Closing, ChannelLast
  <2>3. \A j \in Keys, i \in Headers :
          /\ header'[j][i].valid = header[j][i].valid
          /\ j # k \/ i # h => header'[j][i] = header[j][i]
    BY <1>0, <1>1 DEF Acquire, List, ListFails, Header
  <2>4. ChannelLast'
    BY <2>2, <2>3 DEF Closing, ChannelLast
  <2>5. ClosedInUse'
    BY <2>1, <2>3 DEF Closing, ClosedInUse
  <2> QED
    BY <2>1, <2>4, <2>5 DEF Closing, OpenWhileSaved, NoDoubleClose
<1>2. ASSUME NEW c, GetValidChannel(k, h),
             header' = [header EXCEPT ![k][h].pc = "done", ![k][h].valid = c],
             \A j \in Keys : timers[j] \subseteq timers'[j]
      PROVE  ClosedInUse' /\ ChannelLast' /\ NoDoubleClose'
  <2>1. closed' = closed /\ panic' = panic /\ header[k][h].pc = "chan"
    BY <1>2 DEF GetValidChannel
  <2>2. header[k][h].valid = 0
    BY <2>1 DEF Closing, ChannelLast
  <2>3. /\ \A j \in Keys, i \in Headers : j # k \/ i # h => header'[j][i] = header[j][i]
        /\ header'[k][h].pc = "done"
    BY <1>0, <1>2 DEF Header
  <2>4. \A j \in Keys : 0 \notin closed[j]
    BY <1>0, BoundsAssumption DEF Channels
  <2>5. ASSUME NEW j \in Keys, NEW d \in closed[j], d \notin timers[j]
        PROVE  \E i \in Headers : d = header'[j][i].valid
    <3>1. PICK i \in Headers : d = header[j][i].valid
      BY <2>5 DEF Closing, ClosedInUse
    <3>2. j # k \/ i # h
      BY <2>2, <2>4, <3>1
    <3> QED
      BY <2>3, <3>1, <3>2
  <2>6. ClosedInUse'
    BY <1>2, <2>1, <2>5 DEF ClosedInUse
  <2> QED
    BY <2>1, <2>3, <2>6 DEF Closing, ChannelLast, NoDoubleClose
<1>3. CASE GetValidChannel(k, h)
  <2>1. CASE validChans[k] # 0
    <3>1. /\ UNCHANGED <<validChans, timers, closed>>
          /\ header' = [header EXCEPT ![k][h].pc = "done", ![k][h].valid = validChans[k]]
      BY <1>3, <2>1 DEF GetValidChannel
    <3> QED
      BY <1>2, <1>3, <3>1 DEF Closing, OpenWhileSaved
  <2>2. CASE validChans[k] = 0
    <3>1. PICK c \in FirstFree(Channels, ChannelsInUse(k)) :
            /\ validChans' = [validChans EXCEPT ![k] = c]
            /\ timers' = [timers EXCEPT ![k] = @ \cup {c}]
            /\ header' = [header EXCEPT ![k][h].pc = "done", ![k][h].valid = c]
      BY <1>3, <2>2 DEF GetValidChannel
    <3>2. c \notin timers[k] /\ \A i \in Headers : c # header[k][i].valid
      BY DEF FirstFree, ChannelsInUse
    <3>3. c \notin closed[k] /\ closed' = closed
      BY <1>3, <3>2 DEF Closing, ClosedInUse, GetValidChannel
    <3>4. OpenWhileSaved'
      BY <1>0, <3>1, <3>3 DEF Closing, OpenWhileSaved
    <3>5. \A j \in Keys : timers[j] \subseteq timers'[j]
      BY <1>0, <3>1
    <3> QED
      BY <1>2, <1>3, <3>1, <3>4, <3>5 DEF Closing
  <2> QED
    BY <2>1, <2>2
<1> QED
  BY <1>1, <1>3 DEF Populate

LEMMA ClosingInvalidate ==
  ASSUME TypeInv, Closing, NEW k \in Keys, Invalidate(k)
  PROVE  Closing'
<1>0. validChans \in [Keys -> 0..MaxChannels] /\ closed \in [Keys -> SUBSET Channels]
  BY DEF TypeInv, TypeOK
<1>1. header' = header /\ timers' = timers
  BY DEF Invalidate, cacheVars
<1>2. CASE validChans[k] = 0
  BY <1>1, <1>2 DEF Invalidate, Closing, OpenWhileSaved, ClosedInUse, ChannelLast, NoDoubleClose
<1>3. CASE validChans[k] # 0
  <2>1. validChans[k] \in timers[k] /\ validChans[k] \notin closed[k]
    BY <1>3 DEF Closing, OpenWhileSaved
  <2>2. /\ panic' = (panic \/ validChans[k] \in closed[k])
        /\ closed' = [closed EXCEPT ![k] = @ \cup {validChans[k]}]
        /\ validChans' = [validChans EXCEPT ![k] = 0]
    BY <1>3 DEF Invalidate
  <2>3. NoDoubleClose'
    BY <2>1, <2>2 DEF Closing, NoDoubleClose
  <2>4. OpenWhileSaved' /\ ClosedInUse' /\ ChannelLast'
    BY <1>0, <1>1, <2>1, <2>2 DEF Closing, OpenWhileSaved, ClosedInUse, ChannelLast
  <2> QED
    BY <2>3, <2>4 DEF Closing
<1> QED
  BY <1>2, <1>3

\* The timer closes the channel it was started for, or none.
LEMMA ClosingTtl ==
  ASSUME TypeInv, Closing, NEW k \in Keys, NEW c \in Channels, Ttl(k, c)
  PROVE  Closing'
<1>0. /\ validChans \in [Keys -> 0..MaxChannels]
      /\ closed \in [Keys -> SUBSET Channels] /\ timers \in [Keys -> SUBSET Channels]
  BY DEF TypeInv, TypeOK
<1>1. header' = header /\ timers' = [timers EXCEPT ![k] = @ \ {c}] /\ c \in timers[k]
  BY DEF Ttl, cacheVars
<1>2. ASSUME NEW cl, closed' = Tidied(cl, header, timers') PROVE ClosedInUse' /\ ChannelLast'
  <2>1. \A j \in Keys : closed'[j] \subseteq timers'[j] \cup {header[j][h].valid : h \in Headers}
    BY <1>2, TidiedKeeps
  <2> QED
    BY <1>1, <2>1 DEF Closing, ClosedInUse, ChannelLast
<1>3. CASE validChans[k] = c
  <2> DEFINE cl == [closed EXCEPT ![k] = @ \cup {c}]
  <2>1. /\ panic' = (panic \/ c \in closed[k])
        /\ closed' = Tidied(cl, header, timers')
        /\ validChans' = [validChans EXCEPT ![k] = 0]
    BY <1>3 DEF Ttl
  <2>2. c # 0
    BY BoundsAssumption DEF Channels
  <2>3. NoDoubleClose'
    BY <1>3, <2>1, <2>2 DEF Closing, NoDoubleClose, OpenWhileSaved
  <2>4. \A j \in Keys : closed'[j] \subseteq cl[j]
    BY <2>1, TidiedKeeps
  <2>5. \A j \in Keys : j # k => /\ closed'[j] \subseteq closed[j] /\ timers'[j] = timers[j]
                                 /\ validChans'[j] = validChans[j]
    BY <1>0, <1>1, <2>1, <2>4
  <2>6. OpenWhileSaved'
    BY <1>0, <2>1, <2>5 DEF Closing, OpenWhileSaved
  <2> QED
    BY <1>2, <2>1, <2>3, <2>6 DEF Closing
<1>4. CASE validChans[k] # c
  <2>1. UNCHANGED <<validChans, panic>> /\ closed' = Tidied(closed, header, timers')
    BY <1>4 DEF Ttl
  <2>2. \A j \in Keys : closed'[j] \subseteq closed[j]
    BY <2>1, TidiedKeeps
  <2>3. OpenWhileSaved' /\ NoDoubleClose'
    BY <1>0, <1>1, <1>4, <2>1, <2>2 DEF Closing, OpenWhileSaved, NoDoubleClose
  <2> QED
    BY <1>2, <2>1, <2>3 DEF Closing
<1> QED
  BY <1>3, <1>4

LEMMA NextClosing == TypeInv /\ Closing /\ [Next]_vars => Closing'
<1> SUFFICES ASSUME TypeInv, Closing, [Next]_vars PROVE Closing'
  OBVIOUS
<1>1. ASSUME UNCHANGED <<header, validChans, closed, timers, panic>> PROVE Closing'
  BY <1>1 DEF Closing, OpenWhileSaved, ClosedInUse, ChannelLast, NoDoubleClose
<1>2. ASSUME NEW k \in Keys, Reconnect(k) PROVE Closing'
  BY <1>1, <1>2 DEF Reconnect, cacheVars, invalidator
<1>3. CASE UNCHANGED vars
  BY <1>1, <1>3 DEF vars
<1> QED
  BY <1>2, <1>3, ClosingResolve, ClosingPopulate, ClosingInvalidate, ClosingTtl DEF Next

-----------------------------------------------------------------------------
(* The theorems *)

IInv == TypeInv /\ Exclusion /\ Lookups /\ Closing

LEMMA InitIInv == Init => IInv
<1> SUFFICES ASSUME Init PROVE IInv
  OBVIOUS
<1>1. /\ Free \in Header /\ HeaderOK(Free) /\ Free.pc = "free" /\ Free.valid = 0
      /\ Returned \in Call /\ Returned.pc = "idle"
  BY BoundsAssumption DEF Free, Header, Versions, HeaderOK, Returned, Call
<1>2. HeadersOK(header)
  BY <1>1 DEF Init, HeadersOK
<1>3. call \in [Callers -> Call] /\ \A r \in Callers : call[r].pc = "idle"
  BY <1>1 DEF Init
<1>4. content \in [Keys -> Versions \ {0}] /\ ContentBound
  BY BoundsAssumption DEF Init, Versions, ContentBound
<1>5. TypeInv
  <2>1. /\ snapshots \in [Keys -> 0..MaxHeaders] /\ validChans \in [Keys -> 0..MaxChannels]
        /\ reconnects \in 0..MaxReconnects /\ faults \in 0..MaxFaults
    BY BoundsAssumption DEF Init
  <2>2. /\ closed \in [Keys -> SUBSET Channels] /\ timers \in [Keys -> SUBSET Channels]
        /\ panic \in BOOLEAN /\ ready \in [Keys -> BOOLEAN]
    BY DEF Init
  <2>3. \A k \in Keys, h \in Headers :
          header[k][h].pc = "done" /\ header[k][h].version # 0 => header[k][h].valid # 0
    BY <1>2 DEF HeadersOK, HeaderOK
  <2>4. header \in [Keys -> [Headers -> Header]]
    BY <1>2 DEF HeadersOK
  <2> QED
    BY <1>2, <1>3, <1>4, <2>1, <2>2, <2>3, <2>4 DEF TypeInv, TypeOK
<1>6. \A k \in Keys, h \in Headers : header[k][h] = Free
  BY DEF Init
<1>7. Exclusion
  BY <1>1, <1>3, <1>6 DEF Exclusion, OneWriter, PopulatesCurrent, Waited, Filled_pcs
<1>8. Lookups
  BY <1>3 DEF Lookups, FromTheStart, Accounted
<1>9. Closing
  BY <1>1, <1>6 DEF Init, Closing, OpenWhileSaved, ClosedInUse, ChannelLast, NoDoubleClose
<1> QED
  BY <1>5, <1>7, <1>8, <1>9 DEF IInv

LEMMA Invariance == Spec => []IInv
<1>1. IInv /\ [Next]_vars => IInv'
  BY NextTypes, NextExclusion, NextLookups, NextClosing DEF IInv
<1> QED
  BY <1>1, InitIInv, PTL DEF Spec

\* The cache, its headers and the channels keep their types, and a header that
\* a goroutine filled has its channel.
THEOREM WellTyped == Spec => []TypeOK
<1>1. IInv => TypeOK
  BY DEF IInv, TypeInv
<1> QED
  BY <1>1, Invariance, PTL

\* For any number of resolutions at once, Namespaced never has two goroutines
\* list the same catalog at the same time.
THEOREM SingleFetch == Spec => []OneFetchPerCatalog
<1>1. IInv => OneFetchPerCatalog
  BY DEF IInv, Exclusion, PopulatesCurrent, OneFetchPerCatalog, Populating, Filled_pcs
<1> QED
  BY <1>1, Invariance, PTL

\* Whatever other resolutions expire or fill between its two locks, a call of
\* Namespaced returns a header for each of its catalogs.
THEOREM CompleteResult == Spec => []ResultComplete
<1>1. IInv => ResultComplete
  BY DEF IInv, Lookups, Accounted, ResultComplete
<1> QED
  BY <1>1, Invariance, PTL

\* sourceInvalidator never closes a closed channel, whichever of the timer,
\* Invalidate and a new channel at the same address comes first.
THEOREM ClosedOnce == Spec => []NoDoubleClose
<1>1. IInv => NoDoubleClose
  BY DEF IInv, Closing
<1> QED
  BY <1>1, Invariance, PTL
=============================================================================
