---------------------------- MODULE EntitiesProofs ----------------------------
(***************************************************************************)
(* Proofs about the entities of Home Assistant and the display's alarm page *)
(* and messages, for every value of their bounds: the stored items, the    *)
(* notifications of the display, the alarm commands, the audio codec, what *)
(* the agent posts, and the switches with the volume and the forwarding.   *)
(***************************************************************************)
EXTENDS StoredItems, DisplayNotifications, AlarmCommands, CodecSelect, PushEvents,
        SwitchEntities, FiniteSums, TLAPS

(***************************************************************************)
(* Stored items.                                                           *)
(***************************************************************************)
Stored == [items : SUBSET (1 .. MaxItems), version : 1 .. MaxVersion]
Cached == [listed : SUBSET (1 .. MaxItems), known : BOOLEAN, available : BOOLEAN, as : 0 .. MaxVersion]
Unlocked == {NoFetch} \cup [stage : {"queued"}, runtime : 0 .. MaxRuntimes, forced : BOOLEAN]
Asking == [stage : {"asks"}, runtime : 0 .. MaxRuntimes, forced : BOOLEAN]
Answering == [stage : {"answered"}, runtime : 0 .. MaxRuntimes, forced : BOOLEAN, got : Stored]

ItemsTyped ==
    /\ memory \in Stored /\ events \in SUBSET (1 .. MaxVersion)
    /\ current \in 0 .. MaxRuntimes
    /\ listening \in BOOLEAN /\ fresh \in BOOLEAN /\ sensorsUp \in BOOLEAN
    /\ flagged \in BOOLEAN /\ missed \in BOOLEAN /\ quiet \in BOOLEAN
    /\ press.stage \in {"idle", "looks", "deletes", "refetches"}
    /\ reads \in 0 .. MaxReads

\* No fetch is of a runtime to come, and the one that has its answer has it
\* from after the payload that its runtime shows.
AnswersFit ==
    /\ cache \in Cached /\ cache.as <= memory.version
    /\ fetch \in [Caller -> Unlocked \cup Asking \cup Answering]
    /\ \A c \in Caller : fetch[c] # NoFetch => fetch[c].runtime <= current
    /\ \A c \in Caller : AgentAnswered(c) =>
          /\ fetch[c].got.version <= memory.version
          /\ fetch[c].runtime = current => cache.as <= fetch[c].got.version

ItemsInv == ItemsTyped /\ AnswersFit /\ OneFetch /\ RefreshOwned

\* Fetches that begin or end: nobody takes a lock, and what is stored is the
\* answer of a fetch of the current runtime, which ends.
Released ==
    /\ fetch' \in [Caller -> Unlocked \cup Asking \cup Answering]
    /\ \A c \in Caller : fetch'[c] = fetch[c] \/ fetch'[c] \in Unlocked
    /\ \A c \in Caller : fetch'[c] # NoFetch => fetch'[c] = fetch[c] \/ fetch'[c].runtime = current'
    /\ cache' \in Cached /\ memory' \in Stored /\ memory'.version >= memory.version
CacheMoves ==
    \/ current' = current /\ cache'.as = cache.as
    \/ /\ current' = current /\ memory' = memory
       /\ \E c \in Caller : Accepted(c) /\ cache'.as = fetch[c].got.version /\ fetch'[c] \in Unlocked
    \/ current' = current + 1 /\ cache' = Nothing

LEMMA StageOf ==
  /\ \A f \in Unlocked : f.stage \in {"none", "queued"}
  /\ \A f \in Asking : f # NoFetch /\ f.stage = "asks" /\ f.runtime \in 0 .. MaxRuntimes
  /\ \A f \in Answering : f # NoFetch /\ f.stage = "answered" /\ f.got \in Stored
                       /\ f.runtime \in 0 .. MaxRuntimes
<1>1. \A f \in Unlocked : f.stage \in {"none", "queued"}
  BY DEF Unlocked, NoFetch
<1>2. NoFetch.stage = "none"
  BY DEF NoFetch
<1>3. \A f \in Asking : f.stage = "asks" /\ f.runtime \in 0 .. MaxRuntimes
  BY DEF Asking
<1>4. \A f \in Answering : f.stage = "answered" /\ f.got \in Stored /\ f.runtime \in 0 .. MaxRuntimes
  BY DEF Answering
<1> QED
  BY <1>1, <1>2, <1>3, <1>4

LEMMA ReleasedKeeps ==
  ASSUME ItemsInv, Released, CacheMoves, current' \in 0 .. MaxRuntimes
  PROVE  /\ AnswersFit' /\ OneFetch'
         /\ IF current' = current THEN cache'.as >= cache.as ELSE cache' = Nothing
<1> USE DEF ItemsInv, ItemsTyped, AnswersFit, Released
<1>0. /\ cache.as \in Nat /\ cache'.as \in Nat /\ memory.version \in Nat /\ memory'.version \in Nat
      /\ \A c \in Caller : AgentAnswered(c) => fetch[c].got.version \in Nat
  BY StageOf, StoredItemsAssumption DEF Cached, Stored, AgentAnswered
<1>1. \A c \in Caller : AgentAnswered(c)' => AgentAnswered(c) /\ fetch'[c] = fetch[c]
  BY StageOf DEF AgentAnswered
<1>2. \A c \in Caller : \A r : Holds(c, r)' => Holds(c, r) /\ fetch'[c] = fetch[c]
  BY StageOf DEF Holds
<1>3. OneFetch'
  BY <1>2 DEF OneFetch
<1>9. \A c \in Caller : fetch'[c] # NoFetch => fetch'[c].runtime <= current'
  <2> TAKE c \in Caller
  <2> HAVE fetch'[c] # NoFetch
  <2>1. fetch'[c] = fetch[c] \/ fetch'[c].runtime = current'
    OBVIOUS
  <2>2. current' \in Nat /\ current \in Nat /\ current' >= current
    BY DEF CacheMoves
  <2>3. fetch'[c].runtime \in Nat
    BY StageOf DEF Unlocked
  <2> QED
    BY <2>1, <2>2, <2>3
<1>4. CASE current' = current /\ cache'.as = cache.as
  <2>1. cache'.as <= memory'.version
    BY <1>0, <1>4, StoredItemsAssumption
  <2>2. \A c \in Caller : AgentAnswered(c)' =>
          /\ fetch'[c].got.version <= memory'.version
          /\ fetch'[c].runtime = current' => cache'.as <= fetch'[c].got.version
    BY <1>0, <1>1, <1>4
  <2> QED
    BY <1>0, <1>3, <1>4, <1>9, <2>1, <2>2
<1>5. CASE /\ current' = current /\ memory' = memory
           /\ \E c \in Caller : Accepted(c) /\ cache'.as = fetch[c].got.version /\ fetch'[c] \in Unlocked
  <2>1. PICK c \in Caller : Accepted(c) /\ cache'.as = fetch[c].got.version /\ fetch'[c] \in Unlocked
    BY <1>5
  <2>2. AgentAnswered(c) /\ fetch[c].runtime = current
    BY <2>1 DEF Accepted, Stores
  <2>3. \A d \in Caller : d # c => ~(AgentAnswered(d) /\ fetch[d].runtime = current)
    BY <2>2 DEF OneFetch, Holds, AgentAnswered
  <2>4. ~AgentAnswered(c)'
    BY <2>1, StageOf DEF AgentAnswered
  <2> QED
    BY <1>0, <1>1, <1>3, <1>5, <2>1, <2>2, <2>3, <2>4
<1>6. CASE current' = current + 1 /\ cache' = Nothing
  <2>1. \A c \in Caller : AgentAnswered(c)' => fetch'[c].runtime <= current /\ fetch'[c].runtime \in Nat
    BY <1>1, StageOf DEF AgentAnswered
  <2>2. cache'.as = 0
    BY <1>6 DEF Nothing
  <2>3. \A c \in Caller : AgentAnswered(c)' =>
          fetch'[c].got.version <= memory'.version /\ fetch'[c].runtime # current'
    BY <1>0, <1>1, <1>6, <2>1
  <2>4. current' # current
    BY <1>6
  <2> QED
    BY <1>0, <1>3, <1>6, <1>9, <2>2, <2>3, <2>4
<1> QED
  BY <1>4, <1>5, <1>6 DEF CacheMoves

LEMMA FetchSet ==
  ASSUME ItemsInv, NEW c \in Caller, NEW x \in Unlocked, x = NoFetch \/ x.runtime = current',
         fetch' = [fetch EXCEPT ![c] = x]
  PROVE  /\ fetch' \in [Caller -> Unlocked \cup Asking \cup Answering]
         /\ fetch'[c] = x /\ fetch'[c] \in Unlocked
         /\ \A d \in Caller : d # c => fetch'[d] = fetch[d]
         /\ \A d \in Caller : fetch'[d] = fetch[d] \/ fetch'[d] \in Unlocked
         /\ \A d \in Caller : fetch'[d] # NoFetch => fetch'[d] = fetch[d] \/ fetch'[d].runtime = current'
BY DEF ItemsInv, AnswersFit

LEMMA FetchBegins ==
  ASSUME ItemsInv, NEW forced \in BOOLEAN
  PROVE  Fetch(forced) \in Unlocked /\ Fetch(forced) # NoFetch /\ Fetch(forced).runtime = current
BY DEF ItemsInv, ItemsTyped, Unlocked, Fetch, NoFetch

LEMMA PayloadStored ==
  ASSUME ItemsInv, NEW c \in Caller, Accepted(c), StorePayload(c)
  PROVE  cache' \in Cached /\ cache'.as = fetch[c].got.version /\ fresh' = TRUE
<1>1. fetch[c].got \in Stored
  BY StageOf DEF Accepted, Stores, AgentAnswered, ItemsInv, AnswersFit
<1>2. fetch[c].got.items \in SUBSET (1 .. MaxItems) /\ fetch[c].got.version \in 0 .. MaxVersion
  BY <1>1 DEF Stored
<1>3. Cardinality(fetch[c].got.items) \in Nat
  <2>1. IsFiniteSet(1 .. MaxItems)
    BY FS_Interval, StoredItemsAssumption
  <2>2. IsFiniteSet(fetch[c].got.items)
    BY <1>2, <2>1, FS_Subset
  <2> QED
    BY <2>2, FS_CardinalityType
<1>4. cache' = Payload(fetch[c].got) /\ fresh' = TRUE
  BY DEF StorePayload
<1> QED
  BY <1>2, <1>3, <1>4 DEF Payload, Cached

LEMMA MarkedCached ==
  ASSUME ItemsInv, MarkedUnavailable PROVE cache' \in Cached /\ cache'.as = cache.as /\ fresh' = TRUE
BY DEF ItemsInv, AnswersFit, MarkedUnavailable, Cached

LEMMA RoundBegins ==
  ASSUME ItemsInv, NextRound, current' = current
  PROVE  /\ flagged' \in BOOLEAN /\ (flagged' => fetch'["task"] # NoFetch)
         /\ fetch' \in [Caller -> Unlocked \cup Asking \cup Answering]
         /\ fetch'["task"] \in Unlocked
         /\ \A d \in Caller : fetch'[d] = fetch[d] \/ fetch'[d] \in Unlocked
         /\ \A d \in Caller : fetch'[d] # NoFetch => fetch'[d] = fetch[d] \/ fetch'[d].runtime = current'
<1>0. "task" \in Caller /\ flagged \in BOOLEAN
  BY DEF Caller, ItemsInv, ItemsTyped
<1>1. CASE flagged
  <2>1. fetch' = [fetch EXCEPT !["task"] = Fetch(TRUE)] /\ flagged' = FALSE
    BY <1>1 DEF NextRound
  <2> QED
    BY <1>0, <2>1, FetchBegins, FetchSet
<1>2. CASE ~flagged
  <2>1. fetch' = [fetch EXCEPT !["task"] = NoFetch] /\ flagged' = flagged
    BY <1>2 DEF NextRound
  <2>2. NoFetch \in Unlocked
    BY DEF Unlocked
  <2> QED
    BY <1>0, <1>2, <2>1, <2>2, FetchSet
<1> QED
  BY <1>1, <1>2

LEMMA RefreshScheduled ==
  ASSUME ItemsInv, ScheduleRefresh, current' = current
  PROVE  /\ flagged' \in BOOLEAN /\ (flagged' => fetch'["task"] # NoFetch)
         /\ fetch' \in [Caller -> Unlocked \cup Asking \cup Answering]
         /\ \A d \in Caller : fetch'[d] = fetch[d] \/ fetch'[d] \in Unlocked
         /\ \A d \in Caller : fetch'[d] # NoFetch => fetch'[d] = fetch[d] \/ fetch'[d].runtime = current'
<1>0. "task" \in Caller /\ flagged \in BOOLEAN
  BY DEF Caller, ItemsInv, ItemsTyped
<1>1. CASE fetch["task"] = NoFetch
  <2>1. fetch' = [fetch EXCEPT !["task"] = Fetch(TRUE)] /\ flagged' = flagged
    BY <1>1 DEF ScheduleRefresh
  <2> QED
    BY <1>0, <2>1, FetchBegins, FetchSet
<1>2. CASE fetch["task"] # NoFetch
  <2>1. fetch' = fetch /\ flagged' = TRUE
    BY <1>2 DEF ScheduleRefresh, FlagSet
  <2> QED
    BY <1>0, <1>2, <2>1 DEF ItemsInv, AnswersFit
<1> QED
  BY <1>1, <1>2

LEMMA ItemsInitInv == ItemsInit => ItemsInv
<1> SUFFICES ASSUME ItemsInit PROVE ItemsInv
  OBVIOUS
<1> USE StoredItemsAssumption DEF ItemsInit
<1>1. memory \in Stored /\ cache \in Cached /\ cache.as <= memory.version
  BY DEF Stored, Cached, Nothing
<1>2. fetch \in [Caller -> Unlocked \cup Asking \cup Answering]
  BY DEF Unlocked
<1>3. \A c \in Caller : fetch[c].stage \in {"none", "queued"} /\ (fetch[c] # NoFetch => fetch[c].runtime = 0)
  BY DEF NoFetch
<1>4. ItemsTyped
  <2>1. press.stage = "idle" /\ current \in 0 .. MaxRuntimes /\ reads \in 0 .. MaxReads
    OBVIOUS
  <2>2. events \in SUBSET (1 .. MaxVersion)
    OBVIOUS
  <2> QED
    BY <1>1, <2>1, <2>2 DEF ItemsTyped
<1> QED
  BY <1>1, <1>2, <1>3, <1>4 DEF ItemsInv, AnswersFit, OneFetch, RefreshOwned, Holds, AgentAnswered

LEMMA ItemsStep ==
  ItemsInv /\ [ItemsNext]_itemVars =>
    ItemsInv' /\ (IF current' = current THEN cache'.as >= cache.as ELSE cache' = Nothing)
<1> SUFFICES ASSUME ItemsInv, [ItemsNext]_itemVars
             PROVE  ItemsInv' /\ (IF current' = current THEN cache'.as >= cache.as ELSE cache' = Nothing)
  OBVIOUS
<1> DEFINE Goal == ItemsInv' /\ (IF current' = current THEN cache'.as >= cache.as ELSE cache' = Nothing)
<1>0. /\ ItemsTyped /\ RefreshOwned /\ cache \in Cached
      /\ fetch \in [Caller -> Unlocked \cup Asking \cup Answering]
      /\ memory.version >= memory.version /\ cache.as >= cache.as /\ Caller = {"task", "button", "reader"}
  BY DEF ItemsInv, ItemsTyped, AnswersFit, Stored, Cached, Caller
<1>a. ASSUME ItemsTyped', RefreshOwned', Released, CacheMoves PROVE Goal
  BY <1>a, ReleasedKeeps DEF ItemsInv, ItemsTyped
<1>b. NoFetch \in Unlocked
  BY DEF Unlocked
<1>1. ASSUME NEW c \in Caller, LockTaken(c) PROVE Goal
  <2>1. /\ fetch[c] # NoFetch /\ fetch[c].stage = "queued" /\ fetch[c].runtime = current /\ LockFree(current)
        /\ fetch' = [fetch EXCEPT ![c].stage = "asks"]
        /\ UNCHANGED <<memory, events, current, listening, cache, fresh, sensorsUp, flagged, press, reads,
                       missed, quiet>>
    BY <1>1 DEF LockTaken
  <2>2. fetch[c] \in [stage : {"queued"}, runtime : 0 .. MaxRuntimes, forced : BOOLEAN]
    BY <1>0, <2>1, StageOf DEF Unlocked
  <2>3. [fetch[c] EXCEPT !.stage = "asks"] \in Asking
        /\ [fetch[c] EXCEPT !.stage = "asks"].runtime = current
    BY <2>1, <2>2 DEF Asking
  <2>4. /\ fetch' \in [Caller -> Unlocked \cup Asking \cup Answering]
        /\ fetch'[c] \in Asking /\ fetch'[c].runtime = current
        /\ \A d \in Caller : d # c => fetch'[d] = fetch[d]
    BY <1>0, <2>1, <2>3
  <2>5. AnswersFit'
    BY <2>1, <2>4, StageOf DEF AnswersFit, AgentAnswered, ItemsInv, ItemsTyped
  <2>6. OneFetch'
    BY <2>1, <2>4 DEF OneFetch, Holds, LockFree, ItemsInv
  <2>7. RefreshOwned'
    BY <2>1, <2>4, StageOf DEF RefreshOwned, ItemsInv
  <2> QED
    BY <1>0, <2>1, <2>5, <2>6, <2>7 DEF ItemsInv, ItemsTyped
<1>2. ASSUME NEW c \in Caller, AgentLists(c) PROVE Goal
  <2>1. /\ fetch[c] # NoFetch /\ fetch[c].stage = "asks"
        /\ fetch' = [fetch EXCEPT ![c] = [stage |-> "answered", runtime |-> fetch[c].runtime,
                                      forced |-> fetch[c].forced, got |-> memory]]
        /\ UNCHANGED <<memory, events, current, listening, cache, fresh, sensorsUp, flagged, press, reads,
                       missed, quiet>>
    BY <1>2 DEF AgentLists
  <2>2. fetch[c] \in Asking
    BY <1>0, <2>1, StageOf DEF Unlocked
  <2>3. [stage |-> "answered", runtime |-> fetch[c].runtime,
         forced |-> fetch[c].forced, got |-> memory] \in Answering
    BY <1>0, <2>2 DEF Asking, Answering, ItemsTyped
  <2>4. /\ fetch' \in [Caller -> Unlocked \cup Asking \cup Answering]
        /\ fetch'[c] \in Answering /\ fetch'[c].runtime = fetch[c].runtime /\ fetch'[c].got = memory
        /\ \A d \in Caller : d # c => fetch'[d] = fetch[d]
    BY <1>0, <2>1, <2>3
  <2>5. AnswersFit'
    BY <1>0, <2>1, <2>4, StageOf DEF AnswersFit, AgentAnswered, ItemsInv
  <2>6. OneFetch'
    BY <2>1, <2>4, StageOf DEF OneFetch, Holds, ItemsInv
  <2>7. RefreshOwned'
    BY <2>1, <2>4, StageOf DEF RefreshOwned, ItemsInv
  <2> QED
    BY <1>0, <2>1, <2>5, <2>6, <2>7 DEF ItemsInv, ItemsTyped
<1>3. CASE TaskRefreshed
  <2>1. /\ Accepted("task") /\ StorePayload("task") /\ NextRound
        /\ UNCHANGED <<memory, events, current, listening, press, reads, missed, quiet>>
        /\ sensorsUp' \in BOOLEAN
    BY <1>0, <1>3 DEF TaskRefreshed, ItemsTyped
  <2>2. Released /\ CacheMoves /\ fresh' = TRUE /\ flagged' \in BOOLEAN /\ RefreshOwned'
    BY <1>0, <2>1, RoundBegins, PayloadStored DEF Released, CacheMoves, RefreshOwned, ItemsTyped
  <2> QED
    BY <1>0, <1>a, <2>1, <2>2 DEF ItemsTyped
<1>4. CASE TaskFailed
  <2>1. /\ MarkedUnavailable /\ NextRound
        /\ UNCHANGED <<memory, events, current, listening, press, reads, missed, quiet>>
        /\ sensorsUp' \in BOOLEAN
    BY <1>0, <1>4 DEF TaskFailed, ItemsTyped
  <2>2. Released /\ CacheMoves /\ fresh' = TRUE /\ flagged' \in BOOLEAN /\ RefreshOwned'
    BY <1>0, <2>1, RoundBegins, MarkedCached DEF Released, CacheMoves, RefreshOwned, ItemsTyped
  <2> QED
    BY <1>0, <1>a, <2>1, <2>2 DEF ItemsTyped
<1>c. ASSUME NEW c \in {"reader", "button"}, fetch' = [fetch EXCEPT ![c] = NoFetch],
             flagged' = flagged, current' = current
      PROVE  /\ fetch' \in [Caller -> Unlocked \cup Asking \cup Answering] /\ fetch'[c] \in Unlocked
             /\ \A d \in Caller : fetch'[d] = fetch[d] \/ fetch'[d] \in Unlocked
             /\ \A d \in Caller : fetch'[d] # NoFetch => fetch'[d] = fetch[d] \/ fetch'[d].runtime = current'
             /\ RefreshOwned'
  <2>1. c \in Caller /\ c # "task"
    BY DEF Caller
  <2> QED
    BY <1>0, <1>b, <1>c, <2>1, FetchSet DEF RefreshOwned
<1>d. ASSUME NEW c \in {"reader", "button"}, NEW b \in BOOLEAN, fetch' = [fetch EXCEPT ![c] = Fetch(b)],
             flagged' = flagged, current' = current
      PROVE  /\ fetch' \in [Caller -> Unlocked \cup Asking \cup Answering]
             /\ \A d \in Caller : fetch'[d] = fetch[d] \/ fetch'[d] \in Unlocked
             /\ \A d \in Caller : fetch'[d] # NoFetch => fetch'[d] = fetch[d] \/ fetch'[d].runtime = current'
             /\ RefreshOwned'
  <2>1. c \in Caller /\ c # "task"
    BY DEF Caller
  <2> QED
    BY <1>0, <1>d, <2>1, FetchBegins, FetchSet DEF RefreshOwned
<1>e. ASSUME fetch' = fetch, flagged' = flagged, current' = current
      PROVE  /\ fetch' \in [Caller -> Unlocked \cup Asking \cup Answering]
             /\ \A d \in Caller : fetch'[d] = fetch[d] \/ fetch'[d] \in Unlocked
             /\ \A d \in Caller : fetch'[d] # NoFetch => fetch'[d] = fetch[d] \/ fetch'[d].runtime = current'
             /\ RefreshOwned'
  BY <1>0, <1>e DEF RefreshOwned
<1>5. CASE Read
  <2>1. /\ UNCHANGED <<memory, events, current, flagged, press, reads, missed, quiet>>
        /\ fetch' = [fetch EXCEPT !["reader"] = NoFetch]
        /\ sensorsUp' = cache'.available /\ listening' = TRUE
    BY <1>5 DEF Read
  <2>2. CASE Accepted("reader") /\ StorePayload("reader")
    <3>1. "reader" \in Caller
      BY DEF Caller
    <3>2. cache' \in Cached /\ cache'.as = fetch["reader"].got.version /\ fresh' = TRUE
      BY <2>2, <3>1, PayloadStored
    <3>3. Released /\ CacheMoves /\ RefreshOwned'
      BY <1>0, <1>c, <2>1, <2>2, <3>1, <3>2 DEF Released, CacheMoves, ItemsTyped
    <3>4. sensorsUp' \in BOOLEAN
      BY <2>1, <3>2 DEF Cached
    <3> QED
      BY <1>0, <1>a, <2>1, <3>2, <3>3, <3>4 DEF ItemsTyped
  <2>3. CASE fresh' = TRUE /\ UNCHANGED cache
    <3>1. Released /\ CacheMoves /\ RefreshOwned'
      BY <1>0, <1>c, <2>1, <2>3 DEF Released, CacheMoves, ItemsTyped
    <3>2. sensorsUp' \in BOOLEAN
      BY <1>0, <2>1, <2>3 DEF Cached
    <3> QED
      BY <1>0, <1>a, <2>1, <2>3, <3>1, <3>2 DEF ItemsTyped
  <2> QED
    BY <1>5, <2>2, <2>3 DEF Read
<1>6. CASE ReadFailed
  <2>1. /\ UNCHANGED <<memory, events, current, flagged, press, reads, missed, quiet>>
        /\ fetch' = [fetch EXCEPT !["reader"] = NoFetch]
        /\ sensorsUp' = FALSE
        /\ \/ UNCHANGED <<cache, fresh, listening>>
           \/ MarkedUnavailable /\ listening' = TRUE
    BY <1>6 DEF ReadFailed
  <2>2. cache' \in Cached /\ cache'.as = cache.as /\ fresh' \in BOOLEAN /\ listening' \in BOOLEAN
    BY <1>0, <2>1, MarkedCached DEF ItemsTyped
  <2>3. Released /\ CacheMoves /\ RefreshOwned'
    BY <1>0, <1>c, <2>1, <2>2 DEF Released, CacheMoves, ItemsTyped
  <2> QED
    BY <1>0, <1>a, <2>1, <2>2, <2>3 DEF ItemsTyped
<1>7. CASE UpdateAsked
  <2>1. /\ reads < MaxReads /\ reads' = reads + 1
        /\ fetch' = [fetch EXCEPT !["reader"] = Fetch(FALSE)]
        /\ UNCHANGED <<memory, events, current, listening, cache, fresh, sensorsUp, flagged, press, missed,
                   quiet>>
    BY <1>7 DEF UpdateAsked
  <2>2. reads' \in 0 .. MaxReads
    BY <1>0, <2>1, StoredItemsAssumption DEF ItemsTyped
  <2>3. Released /\ CacheMoves /\ RefreshOwned'
    BY <1>0, <1>d, <2>1 DEF Released, CacheMoves, ItemsTyped
  <2> QED
    BY <1>0, <1>a, <2>1, <2>2, <2>3 DEF ItemsTyped
<1>8. CASE PressBegins
  <2>1. /\ reads < MaxReads /\ reads' = reads + 1
        /\ \/ press' = [stage |-> "deletes", id |-> Latest(cache.listed)] /\ UNCHANGED fetch
           \/ press' = [stage |-> "looks"] /\ fetch' = [fetch EXCEPT !["button"] = Fetch(TRUE)]
        /\ UNCHANGED <<memory, events, current, listening, cache, fresh, sensorsUp, flagged, missed, quiet>>
    BY <1>8, Zenon DEF PressBegins
  <2>4. press'.stage \in {"deletes", "looks"}
    <3>1. CASE press' = [stage |-> "deletes", id |-> Latest(cache.listed)]
      BY <3>1
    <3>2. CASE press' = [stage |-> "looks"]
      BY <3>2
    <3> QED
      BY <2>1, <3>1, <3>2
  <2>2. reads' \in 0 .. MaxReads
    BY <1>0, <2>1, StoredItemsAssumption DEF ItemsTyped
  <2>3. Released /\ CacheMoves /\ RefreshOwned'
    BY <1>0, <1>d, <1>e, <2>1 DEF Released, CacheMoves, ItemsTyped
  <2> QED
    BY <1>0, <1>a, <2>1, <2>2, <2>3, <2>4 DEF ItemsTyped
<1>9. CASE PressLooked \/ PressRefetched
  <2>1. /\ Accepted("button") /\ StorePayload("button")
        /\ fetch' = [fetch EXCEPT !["button"] = NoFetch]
        /\ sensorsUp' = TRUE /\ press'.stage \in {"idle", "deletes"}
        /\ UNCHANGED <<memory, events, current, listening, flagged, reads, missed, quiet>>
    BY <1>9 DEF PressLooked, PressRefetched
  <2>2. cache' \in Cached /\ cache'.as = fetch["button"].got.version /\ fresh' = TRUE
    BY <1>0, <2>1, PayloadStored
  <2>3. Released /\ CacheMoves /\ RefreshOwned'
    BY <1>0, <1>c, <2>1, <2>2 DEF Released, CacheMoves, ItemsTyped
  <2> QED
    BY <1>0, <1>a, <2>1, <2>2, <2>3 DEF ItemsTyped
<1>10. CASE PressDeletes
  <2>1. /\ UNCHANGED <<current, listening, cache, fresh, sensorsUp, flagged, reads, quiet>>
        /\ press' = [stage |-> "idle"] \/ press' = [stage |-> "refetches"]
        /\ missed' = FALSE \/ missed' = missed
        /\ UNCHANGED fetch \/ fetch' = [fetch EXCEPT !["button"] = Fetch(TRUE)]
    BY <1>10, Zenon DEF PressDeletes
  <2>4. press'.stage \in {"idle", "refetches"}
    BY <2>1
  <2>2. /\ memory' \in Stored /\ events' \in SUBSET (1 .. MaxVersion) /\ memory'.version >= memory.version
    <3>1. CASE /\ memory.version < MaxVersion
               /\ memory' = [items |-> memory.items \ {press.id}, version |-> memory.version + 1]
               /\ events' = events \cup {memory.version + 1}
      <4>1. /\ memory.items \ {press.id} \in SUBSET (1 .. MaxItems) /\ memory.version + 1 \in 1 .. MaxVersion
            /\ memory.version + 1 >= memory.version
        BY <1>0, <3>1, StoredItemsAssumption DEF ItemsTyped, Stored
      <4> QED
        BY <1>0, <3>1, <4>1 DEF ItemsTyped, Stored
    <3>2. CASE UNCHANGED <<memory, events>>
      BY <1>0, <3>2 DEF ItemsTyped
    <3> QED
      BY <1>10, <3>1, <3>2 DEF PressDeletes
  <2>3. Released /\ CacheMoves /\ RefreshOwned'
    BY <1>0, <1>d, <1>e, <2>1, <2>2 DEF Released, CacheMoves
  <2> QED
    BY <1>0, <1>a, <2>1, <2>2, <2>3, <2>4 DEF ItemsTyped
<1>11. CASE PressFailed
  <2>1. /\ fetch' = [fetch EXCEPT !["button"] = NoFetch] /\ press'.stage = "idle"
        /\ UNCHANGED <<memory, events, current, listening, cache, fresh, sensorsUp, flagged, reads, missed,
                   quiet>>
    BY <1>11 DEF PressFailed
  <2>2. Released /\ CacheMoves /\ RefreshOwned'
    BY <1>0, <1>c, <2>1 DEF Released, CacheMoves, ItemsTyped
  <2> QED
    BY <1>0, <1>a, <2>1, <2>2 DEF ItemsTyped
<1>12. CASE ItemStored
  <2>1. /\ memory.version < MaxVersion
        /\ \E i \in 1 .. MaxItems \ memory.items :
              memory' = [items |-> memory.items \cup {i}, version |-> memory.version + 1]
        /\ events' = events \cup {memory.version + 1}
        /\ missed' = FALSE
        /\ UNCHANGED <<current, listening, cache, fresh, sensorsUp, flagged, fetch, press, reads, quiet>>
    BY <1>12 DEF ItemStored
  <2>2. /\ memory' \in Stored /\ events' \in SUBSET (1 .. MaxVersion) /\ memory'.version >= memory.version
    <3>1. PICK i \in 1 .. MaxItems \ memory.items :
              memory' = [items |-> memory.items \cup {i}, version |-> memory.version + 1]
      BY <2>1
    <3>2. /\ memory.items \cup {i} \in SUBSET (1 .. MaxItems) /\ memory.version + 1 \in 1 .. MaxVersion
          /\ memory.version + 1 >= memory.version
      BY <1>0, <2>1, StoredItemsAssumption DEF ItemsTyped, Stored
    <3> QED
      BY <1>0, <2>1, <3>1, <3>2 DEF ItemsTyped, Stored
  <2>3. Released /\ CacheMoves /\ RefreshOwned'
    BY <1>0, <1>e, <2>1, <2>2 DEF Released, CacheMoves
  <2> QED
    BY <1>0, <1>a, <2>1, <2>2, <2>3 DEF ItemsTyped
<1>13. CASE EventArrives
  <2>1. PICK v \in events :
          /\ events' = events \ {v} /\ UNCHANGED <<memory, current, listening, press, reads, quiet>>
          /\ \/ Counted /\ sensorsUp' = TRUE /\ ScheduleRefresh /\ UNCHANGED missed
             \/ /\ missed' = (missed \/ v = memory.version)
                /\ UNCHANGED <<cache, fresh, sensorsUp, flagged, fetch>>
    BY <1>13 DEF EventArrives
  <2>2. CASE Counted /\ sensorsUp' = TRUE /\ ScheduleRefresh /\ UNCHANGED missed
    <3>1. cache' \in Cached /\ cache'.as = cache.as /\ fresh' = TRUE
      BY <1>0, <2>2 DEF Counted, Cached
    <3>2. Released /\ CacheMoves /\ RefreshOwned' /\ flagged' \in BOOLEAN
      BY <1>0, <2>1, <2>2, <3>1, RefreshScheduled DEF Released, CacheMoves, ItemsTyped, RefreshOwned
    <3> QED
      BY <1>0, <1>a, <2>1, <2>2, <3>1, <3>2 DEF ItemsTyped
  <2>3. CASE missed' = (missed \/ v = memory.version) /\ UNCHANGED <<cache, fresh, sensorsUp, flagged, fetch>>
    <3>1. Released /\ CacheMoves /\ RefreshOwned'
      BY <1>0, <1>e, <2>1, <2>3 DEF Released, CacheMoves, ItemsTyped
    <3>2. missed' \in BOOLEAN
      BY <2>3
    <3> QED
      BY <1>0, <1>a, <2>1, <2>3, <3>1, <3>2 DEF ItemsTyped
  <2> QED
    BY <2>1, <2>2, <2>3
<1>18. CASE EventLost
  <2>1. PICK v \in events :
          /\ events' = events \ {v} /\ missed' = (missed \/ v = memory.version)
          /\ UNCHANGED <<memory, current, listening, cache, fresh, sensorsUp, flagged, fetch, press, reads,
                         quiet>>
    BY <1>18 DEF EventLost
  <2>2. Released /\ CacheMoves /\ RefreshOwned'
    BY <1>0, <1>e, <2>1 DEF Released, CacheMoves, ItemsTyped
  <2>3. missed' \in BOOLEAN
    BY <2>1
  <2> QED
    BY <1>0, <1>a, <2>1, <2>2, <2>3 DEF ItemsTyped
<1>19. CASE SnapshotArrives
  <2>1. /\ Counted /\ UNCHANGED <<memory, events, current, listening, flagged, fetch, press, reads, quiet>>
        /\ \/ sensorsUp' = TRUE /\ missed' = (missed \/ ~sensorsUp)
           \/ UNCHANGED <<sensorsUp, missed>>
    BY <1>19 DEF SnapshotArrives
  <2>2. cache' \in Cached /\ cache'.as = cache.as /\ fresh' = TRUE
    BY <1>0, <2>1 DEF Counted, Cached
  <2>3. Released /\ CacheMoves /\ RefreshOwned'
    BY <1>0, <1>e, <2>1, <2>2 DEF Released, CacheMoves, ItemsTyped
  <2>4. sensorsUp' \in BOOLEAN /\ missed' \in BOOLEAN
    BY <1>0, <2>1 DEF ItemsTyped
  <2> QED
    BY <1>0, <1>a, <2>1, <2>2, <2>3, <2>4 DEF ItemsTyped
<1>14. CASE CacheAges
  <2>1. Released /\ CacheMoves /\ RefreshOwned'
    BY <1>0, <1>e, <1>14 DEF CacheAges, Released, CacheMoves, ItemsTyped
  <2> QED
    BY <1>0, <1>a, <1>14, <2>1 DEF ItemsTyped, CacheAges
<1>15. CASE RuntimeReplaced
  <2>1. /\ current < MaxRuntimes /\ current' = current + 1 /\ listening' = FALSE
        /\ cache' = Nothing /\ fresh' = FALSE /\ sensorsUp' = TRUE /\ flagged' = FALSE
        /\ fetch' = [fetch EXCEPT !["task"] = NoFetch,
                              !["reader"] = [stage |-> "queued", runtime |-> current + 1,
                                             forced |-> TRUE]]
        /\ UNCHANGED <<memory, events, press, reads, missed, quiet>>
    BY <1>15 DEF RuntimeReplaced
  <2>2. current' \in 0 .. MaxRuntimes
    BY <1>0, <2>1, StoredItemsAssumption DEF ItemsTyped
  <2>3. cache' \in Cached
    BY <2>1, StoredItemsAssumption DEF Cached, Nothing
  <2>4. [stage |-> "queued", runtime |-> current + 1, forced |-> TRUE] \in Unlocked
    BY <2>1, <2>2 DEF Unlocked
  <2>5. /\ fetch' \in [Caller -> Unlocked \cup Asking \cup Answering]
        /\ fetch'["task"] = NoFetch
        /\ fetch'["reader"] = [stage |-> "queued", runtime |-> current + 1, forced |-> TRUE]
        /\ fetch'["button"] = fetch["button"]
    BY <1>0, <1>b, <2>1, <2>4
  <2>6. Released /\ CacheMoves /\ RefreshOwned'
    BY <1>0, <1>b, <2>1, <2>3, <2>4, <2>5 DEF Released, CacheMoves, RefreshOwned, ItemsTyped
  <2> QED
    BY <1>0, <1>a, <2>1, <2>2, <2>6 DEF ItemsTyped
<1>16. CASE FallsQuiet
  <2>1. Released /\ CacheMoves /\ RefreshOwned'
    BY <1>0, <1>e, <1>16 DEF FallsQuiet, Released, CacheMoves, ItemsTyped
  <2> QED
    BY <1>0, <1>a, <1>16, <2>1 DEF ItemsTyped, FallsQuiet
<1>17. CASE UNCHANGED itemVars
  <2>1. Released /\ CacheMoves /\ RefreshOwned'
    BY <1>0, <1>e, <1>17 DEF itemVars, Released, CacheMoves, ItemsTyped
  <2> QED
    BY <1>0, <1>a, <1>17, <2>1 DEF ItemsTyped, itemVars
<1> HIDE DEF Goal
<1> QED
  BY <1>1, <1>2, <1>3, <1>4, <1>5, <1>6, <1>7, <1>8, <1>9, <1>10, <1>11, <1>12, <1>13, <1>14, <1>15,
     <1>16, <1>17, <1>18, <1>19 DEF ItemsNext, Progress, Ends, Goal

\* What the invariant says of the fetches.
LEMMA InvIsConsistent == ItemsInv => ItemsConsistent
<1> SUFFICES ASSUME ItemsInv PROVE ItemsConsistent
  OBVIOUS
<1>1. \A c \in Caller : fetch[c] = NoFetch \/ fetch[c].stage \in {"queued", "asks", "answered"}
  BY StageOf DEF ItemsInv, AnswersFit, Unlocked
<1>2. /\ memory.items \subseteq 1 .. MaxItems /\ memory.version \in 1 .. MaxVersion
      /\ cache.listed \subseteq 1 .. MaxItems /\ cache.as \in 0 .. MaxVersion
  BY DEF ItemsInv, ItemsTyped, AnswersFit, Stored, Cached
<1>3. {listening, fresh, sensorsUp, flagged, missed, quiet} \subseteq BOOLEAN
  BY DEF ItemsInv, ItemsTyped
<1> QED
  BY <1>1, <1>2, <1>3 DEF ItemsInv, ItemsTyped, ItemsTypeOK, ItemsConsistent

\* At most one fetch of a runtime is under way, and a refresh that was asked
\* for is always some running task's (message_refresh.py, stored_items.py).
THEOREM ItemsConsistentHolds == ItemsSpec => []ItemsConsistent
BY ItemsInitInv, ItemsStep, InvIsConsistent, PTL DEF ItemsSpec

\* A list that is shown is never replaced by an older one: neither by a slower
\* fetch nor by one that a reloaded entry began (stored_items.py).
THEOREM NeverOlderHolds == ItemsSpec => NeverOlder
<1> DEFINE Newer == IF current' = current THEN cache'.as >= cache.as ELSE cache' = Nothing
<1>1. ItemsInv /\ [ItemsNext]_itemVars => ItemsInv' /\ [Newer]_itemVars
  BY ItemsStep
<1>2. NeverOlder <=> [][Newer]_itemVars
  BY DEF NeverOlder
<1> HIDE DEF Newer
<1> QED
  BY ItemsInitInv, <1>1, <1>2, PTL DEF ItemsSpec

\* Both together (message_refresh.py, stored_items.py), for any number of
\* items, changes, reads and reloads.
THEOREM ItemsKeptHolds == ItemsSpec => ItemsKept
BY ItemsConsistentHolds, NeverOlderHolds, PTL DEF ItemsKept

\* The weight of a queue is such a sum.
LEMMA WeightIsSum ==
  ASSUME NEW f, IsFiniteSet(DOMAIN f)
  PROVE  \E g : SumBy([k \in DOMAIN f |-> f[k].weight], DOMAIN f, g) /\ Weight(f) = g[DOMAIN f]
<1> DEFINE w == [k \in DOMAIN f |-> f[k].weight]
           Folds(g) == g = [s \in SUBSET DOMAIN f |->
                              IF s = {} THEN 0 ELSE f[First(s)].weight + g[s \ {First(s)}]]
<1>1. Weight(f) = (CHOOSE g : Folds(g))[DOMAIN f]
  BY Zenon DEF Weight, MapThenSumSet, MapThenFoldSet, First
<1>2. \A s \in SUBSET DOMAIN f : s # {} => w[First(s)] = f[First(s)].weight
  BY FirstIsOne
<1>3. \A g : SumBy(w, DOMAIN f, g) <=> Folds(g)
  <2> TAKE g
  <2> HIDE DEF w
  <2> QED
    BY <1>2 DEF SumBy
<1>4. \E g : Folds(g)
  <2> HIDE DEF w, Folds
  <2> QED
    BY <1>3, SumExists
<1>5. Folds(CHOOSE g : Folds(g))
  <2> HIDE DEF Folds
  <2> QED
    BY <1>4, Zenon
<1> HIDE DEF w, Folds
<1>6. SumBy(w, DOMAIN f, CHOOSE g : Folds(g))
  BY <1>3, <1>5
<1>7. \E g : SumBy(w, DOMAIN f, g) /\ Weight(f) = g[DOMAIN f]
  BY <1>1, <1>6
<1> QED
  BY <1>7 DEF w

LEMMA WeightShrinks ==
  ASSUME NEW f, IsFiniteSet(DOMAIN f), \A k \in DOMAIN f : f[k].weight \in Nat,
         NEW h, DOMAIN h \subseteq DOMAIN f, \A k \in DOMAIN h : h[k] = f[k]
  PROVE  Weight(h) <= Weight(f) /\ Weight(h) \in Nat /\ Weight(f) \in Nat
<1> DEFINE w == [k \in DOMAIN f |-> f[k].weight]
           v == [k \in DOMAIN h |-> h[k].weight]
<1>1. w \in [DOMAIN f -> Nat] /\ \A x \in DOMAIN h : v[x] = w[x]
  OBVIOUS
<1>2. IsFiniteSet(DOMAIN h)
  BY FS_Subset
<1>3. PICK g : SumBy(w, DOMAIN f, g) /\ Weight(f) = g[DOMAIN f]
  BY WeightIsSum
<1>4. PICK e : SumBy(v, DOMAIN h, e) /\ Weight(h) = e[DOMAIN h]
  BY <1>2, WeightIsSum
<1> HIDE DEF w, v
<1>5. e[DOMAIN h] = g[DOMAIN h]
  <2>1. DOMAIN h \in SUBSET (DOMAIN h \cap DOMAIN f)
    OBVIOUS
  <2> QED
    BY <1>1, <1>2, <1>3, <1>4, <2>1, SumSame
<1>6. g[DOMAIN h] \in Nat /\ g[DOMAIN f] \in Nat /\ g[DOMAIN h] <= g[DOMAIN f]
  BY <1>1, <1>3, SumTyped, SumMonotone
<1> QED
  BY <1>3, <1>4, <1>5, <1>6

(***************************************************************************)
(* Display notifications.                                                  *)
(***************************************************************************)
\* The queue: typed, within its budget, numbered by the calls of show so far,
\* covered by the timer, and gone with the entry.
QueueInv ==
    /\ DOMAIN items \subseteq Message /\ \A k \in DOMAIN items : items[k] \in Item
    /\ sequence \in 0 .. MaxShows /\ expiry \in 1 .. Never
    /\ QueueCovered
    /\ \A k \in DOMAIN items : items[k].sequence <= sequence
    /\ closed => expiry = Never

WakeupTyped ==
    /\ wakeAsked \in BOOLEAN /\ dirty \in BOOLEAN /\ messages \in BOOLEAN /\ owed \in BOOLEAN
    /\ job \in {"none", "waits", "posts"}

NotificationInv ==
    /\ QueueInv /\ WakeupTyped /\ JobCovers
    /\ clock \in 0 .. Horizon /\ busy \in SUBSET Message
    /\ closed \in BOOLEAN /\ displayUp \in BOOLEAN

LEMMA ScheduledCovers ==
  ASSUME NEW f, \A k \in DOMAIN f : f[k].deadline \in 1 .. Horizon
  PROVE  Scheduled(f) \in 1 .. Never /\ \A k \in DOMAIN f : Scheduled(f) <= f[k].deadline
<1>1. CASE DOMAIN f = {}
  BY <1>1, NotificationAssumption DEF Scheduled, Never
<1>2. CASE DOMAIN f # {}
  <2> DEFINE S == {f[k].deadline : k \in DOMAIN f}
  <2>1. S \in SUBSET Nat /\ S # {} /\ S \subseteq 1 .. Horizon
    BY <1>2
  <2>2. Scheduled(f) = Min(S)
    BY <1>2 DEF Scheduled
  <2>3. Min(S) \in S /\ \A n \in S : Min(S) <= n
    <3> HIDE DEF S
    <3> QED
      BY <2>1, LeastOf
  <2>4. \A k \in DOMAIN f : f[k].deadline \in S
    OBVIOUS
  <2>5. 1 .. Horizon \subseteq 1 .. Never
    BY NotificationAssumption DEF Never
  <2> HIDE DEF S
  <2> QED
    BY <2>1, <2>2, <2>3, <2>4, <2>5
<1> QED
  BY <1>1, <1>2

LEMMA ItemFields ==
  \A i \in Item : /\ i.rank \in Rank /\ i.sequence \in 1 .. MaxShows /\ i.weight \in Nat
                  /\ i.deadline \in 1 .. Horizon
BY NotificationAssumption DEF Item, Rank

\* A queue that only loses messages stays within its budget.
LEMMA FitsShrinks ==
  ASSUME NotificationInv, NEW S \in SUBSET DOMAIN items PROVE Fits(Restrict(items, S))
<1> DEFINE h == Restrict(items, S)
<1>1. DOMAIN h = S /\ \A k \in S : h[k] = items[k]
  BY DEF Restrict
<1>2. IsFiniteSet(DOMAIN items)
  BY NotificationAssumption, FS_Subset DEF NotificationInv, QueueInv
<1>3. Cardinality(S) <= Cardinality(DOMAIN items) /\ Cardinality(S) \in Nat
      /\ Cardinality(DOMAIN items) \in Nat
  BY <1>2, FS_Subset, FS_CardinalityType
<1>4. Cardinality(DOMAIN items) <= MaxNotifications /\ Weight(items) <= MaxWeight
  BY DEF NotificationInv, QueueInv, QueueCovered, Fits
<1>5. \A k \in DOMAIN items : items[k].weight \in Nat
  BY ItemFields DEF NotificationInv, QueueInv
<1> HIDE DEF h
<1>6. Weight(h) <= Weight(items) /\ Weight(h) \in Nat /\ Weight(items) \in Nat
  BY <1>1, <1>2, <1>5, WeightShrinks
<1>7. Cardinality(DOMAIN h) <= MaxNotifications /\ Weight(h) <= MaxWeight
  BY <1>1, <1>3, <1>4, <1>6, NotificationAssumption
<1> QED
  BY <1>7 DEF Fits, h

LEMMA QueueShrinks ==
  ASSUME NotificationInv, ~closed, closed' = closed, NEW S \in SUBSET DOMAIN items,
         items' = Restrict(items, S), sequence' = sequence,
         expiry' = expiry \/ expiry' = Scheduled(items')
  PROVE  QueueInv'
<1>1. DOMAIN items' = S /\ \A k \in S : items'[k] = items[k]
  BY DEF Restrict
<1>2. Fits(items')
  BY FitsShrinks
<1>3. \A k \in DOMAIN items' : /\ items'[k] \in Item /\ items'[k].sequence <= sequence
                               /\ items'[k].deadline \in 1 .. Horizon /\ expiry <= items'[k].deadline
  BY <1>1, ItemFields DEF NotificationInv, QueueInv, QueueCovered
<1>4. expiry' \in 1 .. Never /\ \A k \in DOMAIN items' : expiry' <= items'[k].deadline
  BY <1>3, ScheduledCovers DEF NotificationInv, QueueInv
<1>5. DOMAIN items' \subseteq Message /\ sequence' \in 0 .. MaxShows
  BY <1>1 DEF NotificationInv, QueueInv
<1> QED
  BY <1>2, <1>3, <1>4, <1>5 DEF QueueInv, QueueCovered

LEMMA WakeupKept ==
  ASSUME NotificationInv, ~closed \/ UNCHANGED wakeup, closed' = closed, NEW b \in BOOLEAN,
         Schedule(b) \/ UNCHANGED wakeup
  PROVE  WakeupTyped' /\ JobCovers'
<1>1. CASE UNCHANGED wakeup
  BY <1>1 DEF wakeup, NotificationInv, WakeupTyped, JobCovers
<1>2. CASE ~closed /\ displayUp /\ Schedule(b)
  <2>1. /\ dirty' = TRUE /\ owed' = TRUE /\ messages' = (messages \/ b) /\ wakeAsked' = TRUE
        /\ job' = IF wakeAsked THEN job ELSE "waits"
    BY <1>2 DEF Schedule
  <2>2. messages' \in BOOLEAN
    BY <2>1
  <2> QED
    BY <1>2, <2>1, <2>2 DEF NotificationInv, WakeupTyped, JobCovers
<1> QED
  BY <1>1, <1>2 DEF Schedule

\* The loop of show stops with the least victims there can be.
LEMMA EvictedIsEviction ==
  ASSUME NEW f, IsFiniteSet(DOMAIN f), NEW new, Evictions(f, new) # {}
  PROVE  Evicted(f, new) \in Evictions(f, new)
<1> DEFINE B == Evictions(f, new)
<1>1. \A s \in B : IsFiniteSet(s)
  <2>1. \A s \in B : s \subseteq DOMAIN f
    BY DEF Evictions, Victims
  <2> HIDE DEF B
  <2> QED
    BY <2>1, FS_Subset
<1>2. \E m \in B : \A s \in B : Cardinality(m) <= Cardinality(s)
  <2> HIDE DEF B
  <2>1. B # {}
    BY DEF B
  <2> QED
    BY <1>1, <2>1, SmallestSet
<1>3. Evicted(f, new) = CHOOSE m \in B : \A s \in B : Cardinality(m) <= Cardinality(s)
  BY DEF Evicted
<1> HIDE DEF B
<1>4. Evicted(f, new) \in B
  BY <1>2, <1>3
<1> QED
  BY <1>4 DEF B

\* What show does with a message: it is refused, or it takes its place.
Placed(k, new, out) ==
    LET candidate == [j \in Live \cup {k} |-> IF j = k THEN new ELSE items[j]]
    IN  /\ out \in Evictions(candidate, k)
        /\ items' = Without(candidate, out)
        /\ sequence' = sequence + 1 /\ expiry' = Scheduled(items') /\ Schedule(TRUE)
TurnedAway ==
    /\ items' = Restrict(items, Live) /\ UNCHANGED <<sequence, expiry>>
    /\ Schedule(TRUE) \/ UNCHANGED wakeup

LEMMA ShowPlacesOrRefuses ==
  ASSUME NotificationInv, NEW k \in Message, Show(k)
  PROVE  /\ ~closed /\ sequence < MaxShows /\ UNCHANGED <<clock, closed, busy, displayUp>>
         /\ \/ TurnedAway
            \/ \E s \in Sample : \E out :
                  /\ clock + s.life <= Horizon
                  /\ Placed(k, [rank |-> s.rank, sequence |-> sequence + 1, weight |-> s.weight,
                                deadline |-> clock + s.life], out)
<1>1. ~closed /\ sequence < MaxShows /\ UNCHANGED <<clock, closed, busy, displayUp>>
  BY DEF Show
<1> DEFINE New(s) == [rank |-> s.rank, sequence |-> sequence + 1, weight |-> s.weight,
                      deadline |-> clock + s.life]
           Cand(s) == [j \in Live \cup {k} |-> IF j = k THEN New(s) ELSE items[j]]
<1>2. PICK s \in Sample :
        /\ clock + s.life <= Horizon
        /\ IF Evictions(Cand(s), k) = {}
           THEN /\ items' = Restrict(items, Live)
                /\ UNCHANGED <<sequence, expiry>>
                /\ IF Live # DOMAIN items THEN Schedule(TRUE) ELSE Silent
           ELSE /\ items' = Without(Cand(s), Evicted(Cand(s), k))
                /\ sequence' = sequence + 1
                /\ expiry' = Scheduled(items')
                /\ Schedule(TRUE)
  BY Zenon DEF Show
<1>3. IsFiniteSet(DOMAIN Cand(s))
  <2>1. DOMAIN Cand(s) \subseteq Message
    BY DEF NotificationInv, QueueInv, Live
  <2> QED
    BY <2>1, NotificationAssumption, FS_Subset
<1>4. CASE Evictions(Cand(s), k) = {}
  <2>1. TurnedAway
    <3> HIDE DEF Cand
    <3> QED
      BY <1>2, <1>4, Zenon DEF TurnedAway, Silent
  <2> QED
    BY <1>1, <2>1
<1>5. CASE Evictions(Cand(s), k) # {}
  <2> DEFINE out == Evicted(Cand(s), k)
  <2>1. out \in Evictions(Cand(s), k)
    <3> HIDE DEF Cand
    <3> QED
      BY <1>3, <1>5, EvictedIsEviction
  <2>2. items' = Without(Cand(s), out) /\ sequence' = sequence + 1 /\ expiry' = Scheduled(items')
        /\ Schedule(TRUE)
    <3> HIDE DEF Cand
    <3> QED
      BY <1>2, <1>5, Zenon
  <2>3. Placed(k, New(s), out)
    <3> HIDE DEF out
    <3> QED
      BY <2>1, <2>2, Zenon DEF Placed
  <2> HIDE DEF out
  <2> QED
    BY <1>1, <1>2, <2>3
<1> QED
  BY <1>4, <1>5

\* A message that takes its place keeps the queue, and makes only those give
\* way that should go first.
LEMMA PlacedKeeps ==
  ASSUME NotificationInv, ~closed, closed' = closed, sequence < MaxShows, NEW k \in Message,
         NEW s \in Sample, clock + s.life <= Horizon, NEW new,
         new = [rank |-> s.rank, sequence |-> sequence + 1, weight |-> s.weight,
                deadline |-> clock + s.life],
         NEW out, Placed(k, new, out)
  PROVE  /\ QueueInv'
         /\ \A m \in Live, other \in DOMAIN items' \cap DOMAIN items :
              m \notin DOMAIN items' =>
                \/ items[m].rank < items[other].rank
                \/ items[m].rank = items[other].rank /\ items[m].sequence < items[other].sequence
                \/ items'[other] # items[other]
                \/ \E n \in DOMAIN items' :
                      items'[n].sequence = sequence' /\ items[other].rank > items'[n].rank
<1> DEFINE c == [j \in Live \cup {k} |-> IF j = k THEN new ELSE items[j]]
<1>1. /\ out \in SUBSET Victims(c, k) /\ Fits(Without(c, out))
      /\ \A a \in out, b \in Victims(c, k) \ out : GivesWay(c[a], c[b])
      /\ items' = Without(c, out) /\ sequence' = sequence + 1 /\ expiry' = Scheduled(items')
  BY DEF Placed, Evictions
<1>2. /\ DOMAIN c = Live \cup {k} /\ c[k] = new /\ Live \subseteq DOMAIN items
      /\ \A j \in Live : j # k => c[j] = items[j]
  BY DEF Live
<1>3. Victims(c, k) = {j \in DOMAIN c \ {k} : c[j].rank <= c[k].rank}
  BY DEF Victims
<1> HIDE DEF c
<1>4. /\ DOMAIN items' = DOMAIN c \ out /\ \A j \in DOMAIN c \ out : items'[j] = c[j]
  BY <1>1 DEF Without, Restrict
<1>5. k \in DOMAIN items' /\ items'[k] = new /\ k \notin out /\ new.sequence = sequence + 1
      /\ new.rank = s.rank
  BY <1>1, <1>2, <1>3, <1>4
<1>6. sequence + 1 \in 0 .. MaxShows /\ sequence + 1 \in 1 .. MaxShows /\ sequence \in Nat
  BY NotificationAssumption DEF NotificationInv, QueueInv
<1>7. new \in Item
  <2>1. s.rank \in Rank /\ s.weight \in {t.weight : t \in Sample} /\ s.life \in Nat \ {0}
    BY NotificationAssumption DEF Rank
  <2>2. clock + s.life \in 1 .. Horizon
    BY <2>1, NotificationAssumption DEF NotificationInv
  <2> QED
    BY <1>6, <2>1, <2>2 DEF Item
<1>8. \A j \in DOMAIN items' : j = k \/ (j \in Live /\ items'[j] = items[j])
  BY <1>2, <1>4
<1>9. \A j \in DOMAIN items : items[j] \in Item /\ items[j].sequence <= sequence
                              /\ items[j].sequence \in Nat /\ items[j].rank \in Nat
  BY ItemFields, NotificationAssumption DEF NotificationInv, QueueInv, Item, Rank
<1>10. QueueInv'
  <2>1. \A j \in DOMAIN items' : items'[j] \in Item /\ items'[j].sequence <= sequence'
    <3> TAKE j \in DOMAIN items'
    <3>1. CASE j = k
      BY <1>1, <1>5, <1>6, <1>7, <3>1
    <3>2. CASE j # k
      BY <1>1, <1>2, <1>6, <1>8, <1>9, <3>2
    <3> QED
      BY <3>1, <3>2
  <2>2. \A j \in DOMAIN items' : items'[j].deadline \in 1 .. Horizon
    BY <2>1, ItemFields
  <2>3. expiry' \in 1 .. Never /\ \A j \in DOMAIN items' : expiry' <= items'[j].deadline
    BY <1>1, <2>2, ScheduledCovers
  <2>4. DOMAIN items' \subseteq Message
    BY <1>2, <1>8 DEF NotificationInv, QueueInv
  <2>5. Fits(items')
    BY <1>1
  <2> QED
    BY <1>1, <1>6, <2>1, <2>3, <2>4, <2>5 DEF QueueInv, QueueCovered
<1>11. ASSUME NEW m \in Live, NEW other \in DOMAIN items' \cap DOMAIN items, m \notin DOMAIN items'
       PROVE  \/ items[m].rank < items[other].rank
              \/ items[m].rank = items[other].rank /\ items[m].sequence < items[other].sequence
              \/ items'[other] # items[other]
              \/ \E n \in DOMAIN items' :
                    items'[n].sequence = sequence' /\ items[other].rank > items'[n].rank
  <2>1. m # k /\ m \in out /\ c[m] = items[m]
    BY <1>2, <1>4, <1>5, <1>11
  <2>2. CASE other = k
    BY <1>5, <1>6, <1>9, <2>2
  <2>3. CASE other # k /\ other \in Victims(c, k)
    <3>1. other \in Live /\ c[other] = items[other] /\ other \notin out
      BY <1>2, <1>4, <1>8, <2>3
    <3>2. GivesWay(c[m], c[other])
      BY <1>1, <2>1, <2>3, <3>1
    <3> QED
      BY <2>1, <3>1, <3>2 DEF GivesWay
  <2>4. CASE other # k /\ other \notin Victims(c, k)
    <3>1. other \in DOMAIN c /\ c[other] = items[other]
      BY <1>2, <1>4, <1>8, <2>4
    <3>2. ~(c[other].rank <= c[k].rank)
      BY <1>3, <2>4, <3>1
    <3>3. items[other].rank > s.rank
      <4>1. items[other].rank \in Nat /\ s.rank \in Nat
        BY <1>9, NotificationAssumption
      <4> QED
        BY <1>2, <1>5, <3>1, <3>2, <4>1
    <3> QED
      BY <1>1, <1>5, <3>3
  <2> QED
    BY <2>2, <2>3, <2>4
<1> QED
  BY <1>10, <1>11

LEMMA NotificationInitInv == NotificationInit => NotificationInv
<1> SUFFICES ASSUME NotificationInit PROVE NotificationInv
  OBVIOUS
<1> USE DEF NotificationInit
<1>1. DOMAIN items = {}
  OBVIOUS
<1>2. IsFiniteSet(DOMAIN items) /\ Cardinality(DOMAIN items) = 0
  BY <1>1, FS_EmptySet
<1>3. Weight(items) = 0
  <2>1. PICK g : SumBy([k \in DOMAIN items |-> items[k].weight], DOMAIN items, g)
                 /\ Weight(items) = g[DOMAIN items]
    BY <1>2, WeightIsSum
  <2> DEFINE w == [k \in DOMAIN items |-> items[k].weight]
  <2>2. g[{}] = 0
    <3>1. SumBy(w, DOMAIN items, g) /\ {} \in SUBSET DOMAIN items
      BY <2>1
    <3> HIDE DEF w
    <3> QED
      BY <3>1, SumUnfolds
  <2> QED
    BY <1>1, <2>1, <2>2
<1>4. Fits(items)
  BY <1>2, <1>3, NotificationAssumption DEF Fits
<1>5. QueueInv
  BY <1>1, <1>4, NotificationAssumption DEF QueueInv, QueueCovered, Never
<1> QED
  <2>1. WakeupTyped /\ JobCovers
    BY DEF WakeupTyped, JobCovers
  <2>2. clock \in 0 .. Horizon /\ busy \in SUBSET Message /\ closed \in BOOLEAN /\ displayUp \in BOOLEAN
    <3>1. clock = 0 /\ busy = {} /\ closed = FALSE /\ displayUp = TRUE
      OBVIOUS
    <3>2. 0 \in 0 .. Horizon
      BY NotificationAssumption
    <3> HIDE DEF NotificationInit
    <3> QED
      BY <3>1, <3>2
  <2> QED
    BY <1>5, <2>1, <2>2 DEF NotificationInv

LEMMA NotificationStep ==
  NotificationInv /\ [NotificationNext]_notificationVars =>
    /\ NotificationInv'
    /\ \A m \in Live, other \in DOMAIN items' \cap DOMAIN items :
         m \notin DOMAIN items' /\ sequence' > sequence =>
           \/ items[m].rank < items[other].rank
           \/ items[m].rank = items[other].rank /\ items[m].sequence < items[other].sequence
           \/ items'[other] # items[other]
           \/ \E n \in DOMAIN items' :
                 items'[n].sequence = sequence' /\ items[other].rank > items'[n].rank
<1> DEFINE Goal ==
      \A m \in Live, other \in DOMAIN items' \cap DOMAIN items :
         m \notin DOMAIN items' /\ sequence' > sequence =>
           \/ items[m].rank < items[other].rank
           \/ items[m].rank = items[other].rank /\ items[m].sequence < items[other].sequence
           \/ items'[other] # items[other]
           \/ \E n \in DOMAIN items' :
                 items'[n].sequence = sequence' /\ items[other].rank > items'[n].rank
<1> SUFFICES ASSUME NotificationInv, [NotificationNext]_notificationVars
             PROVE  NotificationInv' /\ Goal
  OBVIOUS
<1>0. /\ QueueInv /\ WakeupTyped /\ JobCovers /\ clock \in 0 .. Horizon /\ busy \in SUBSET Message
      /\ closed \in BOOLEAN /\ displayUp \in BOOLEAN /\ sequence \in Nat /\ Live \subseteq DOMAIN items
      /\ DOMAIN items \subseteq Message
  BY DEF NotificationInv, QueueInv, Live
<1>a. ASSUME UNCHANGED sequence PROVE Goal
  BY <1>0, <1>a
<1>b. ASSUME UNCHANGED <<queue, closed>> PROVE QueueInv'
  <2>1. items' = items /\ sequence' = sequence /\ expiry' = expiry /\ closed' = closed
    BY <1>b DEF queue
  <2>2. Fits(items')
    BY <1>0, <2>1 DEF QueueInv, QueueCovered
  <2> QED
    BY <1>0, <2>1, <2>2 DEF QueueInv, QueueCovered
<1> HIDE DEF Goal
<1>c. ASSUME ~closed, closed' = closed, Purge, sequence' = sequence,
             expiry' = expiry \/ expiry' = Scheduled(items')
      PROVE  QueueInv' /\ WakeupTyped' /\ JobCovers'
  <2>1. items' = Restrict(items, Live) /\ (Schedule(TRUE) \/ UNCHANGED wakeup)
    BY <1>c DEF Purge, Silent
  <2> QED
    BY <1>0, <1>c, <2>1, QueueShrinks, WakeupKept
<1>1. ASSUME NEW k \in Message, Show(k) PROVE NotificationInv' /\ Goal
  <2>1. ~closed /\ sequence < MaxShows /\ UNCHANGED <<clock, closed, busy, displayUp>>
    BY <1>1, ShowPlacesOrRefuses
  <2>2. CASE TurnedAway
    <3>1. QueueInv' /\ WakeupTyped' /\ JobCovers' /\ UNCHANGED sequence
      BY <1>0, <2>1, <2>2, QueueShrinks, WakeupKept DEF TurnedAway
    <3> QED
      BY <1>0, <1>a, <2>1, <3>1 DEF NotificationInv
  <2>3. ASSUME NEW s \in Sample, NEW out, clock + s.life <= Horizon,
               Placed(k, [rank |-> s.rank, sequence |-> sequence + 1, weight |-> s.weight,
                          deadline |-> clock + s.life], out)
        PROVE  NotificationInv' /\ Goal
    <3>1. QueueInv' /\ Goal
      BY <2>1, <2>3, PlacedKeeps DEF Goal
    <3>2. Schedule(TRUE)
      BY <2>3 DEF Placed
    <3> QED
      BY <1>0, <2>1, <3>1, <3>2, WakeupKept DEF NotificationInv
  <2> QED
    BY <1>1, <2>2, <2>3, ShowPlacesOrRefuses
<1>2. ASSUME NEW k \in Message, Dismiss(k) PROVE NotificationInv' /\ Goal
  <2>1. /\ k \in DOMAIN items /\ items' = Restrict(items, DOMAIN items \ {k})
        /\ expiry' = Scheduled(items') /\ Schedule(TRUE)
        /\ UNCHANGED <<sequence, clock, closed, busy, displayUp>>
    BY <1>2 DEF Dismiss
  <2>2. ~closed
    BY <1>0, <2>1 DEF QueueInv, QueueCovered
  <2>3. QueueInv' /\ WakeupTyped' /\ JobCovers'
    BY <2>1, <2>2, QueueShrinks, WakeupKept
  <2> QED
    BY <1>0, <1>a, <2>1, <2>3 DEF NotificationInv
<1>3. ASSUME NEW k \in Message, ActionStarts(k) PROVE NotificationInv' /\ Goal
  <2>1. /\ k \in DOMAIN items /\ busy' = busy \cup {k} /\ Purge
        /\ UNCHANGED <<sequence, expiry, clock, closed, displayUp>>
    BY <1>0, <1>3 DEF ActionStarts
  <2>2. ~closed
    BY <1>0, <2>1 DEF QueueInv, QueueCovered
  <2> QED
    BY <1>0, <1>a, <1>c, <2>1, <2>2 DEF NotificationInv
<1>4. ASSUME NEW k \in Message, ActionEnds(k) PROVE NotificationInv' /\ Goal
  BY <1>0, <1>a, <1>b, <1>4 DEF ActionEnds, NotificationInv, wakeup, queue, WakeupTyped, JobCovers
<1>5. CASE PayloadRead
  <2>1. ~closed
    <3>1. closed => DOMAIN items = {}
      BY <1>0 DEF QueueInv, QueueCovered
    <3>2. Live # DOMAIN items
      BY <1>5 DEF PayloadRead
    <3> QED
      BY <1>0, <3>1, <3>2
  <2> QED
    BY <1>0, <1>a, <1>c, <1>5, <2>1 DEF PayloadRead, NotificationInv
<1>6. CASE Expires
  <2>1. ~closed
    BY <1>0, <1>6, NotificationAssumption DEF Expires, QueueInv, Never
  <2> QED
    BY <1>0, <1>a, <1>c, <1>6, <2>1 DEF Expires, NotificationInv
<1>7. CASE EntityChanges
  <2>1. WakeupTyped' /\ JobCovers'
    BY <1>7, WakeupKept DEF EntityChanges
  <2> QED
    BY <1>0, <1>a, <1>b, <1>7, <2>1 DEF EntityChanges, NotificationInv, queue
<1>8. CASE WakeupStep
  <2>1. UNCHANGED <<queue, clock, closed, busy, displayUp>>
    BY <1>8 DEF WakeupStep, CallBegins, CallSucceeds, CallFails, RuntimeGone
  <2>2. WakeupTyped' /\ JobCovers'
    <3>1. CASE CallBegins
      BY <1>0, <3>1 DEF CallBegins, WakeupTyped, JobCovers
    <3>2. CASE CallSucceeds
      BY <1>0, <3>2 DEF CallSucceeds, WakeupTyped, JobCovers, DirtyAgain, ClearsDirty
    <3>3. CASE CallFails \/ RuntimeGone
      BY <1>0, <3>3 DEF CallFails, RuntimeGone, Finished, ClearsDirty, WakeupTyped, JobCovers
    <3> QED
      BY <1>8, <3>1, <3>2, <3>3 DEF WakeupStep
  <2> QED
    BY <1>0, <1>a, <1>b, <2>1, <2>2 DEF NotificationInv, queue
<1>9. CASE ConnectionChanges
  <2>1. WakeupTyped' /\ JobCovers'
    BY <1>0, <1>9 DEF ConnectionChanges, wakeup, WakeupTyped, JobCovers
  <2> QED
    BY <1>0, <1>a, <1>b, <1>9, <2>1 DEF ConnectionChanges, NotificationInv, queue
<1>10. CASE Tick
  <2>1. WakeupTyped' /\ JobCovers'
    BY <1>0, <1>10 DEF Tick, wakeup, WakeupTyped, JobCovers
  <2>2. clock' \in 0 .. Horizon
    BY <1>0, <1>10, NotificationAssumption DEF Tick
  <2> QED
    BY <1>0, <1>a, <1>b, <1>10, <2>1, <2>2 DEF Tick, NotificationInv, queue
<1>11. CASE Close
  <2>1. WakeupTyped' /\ JobCovers'
    BY <1>0, <1>11 DEF Close, WakeupTyped, JobCovers
  <2>2. items' = << >> /\ DOMAIN items' = {} /\ expiry' = Never
    BY <1>11 DEF Close
  <2>3. Fits(items')
    <3>1. \A k \in DOMAIN items' : items'[k] = items[k]
      BY <2>2
    <3>2. IsFiniteSet(DOMAIN items) /\ \A k \in DOMAIN items : items[k].weight \in Nat
      BY <1>0, NotificationAssumption, FS_Subset, ItemFields DEF QueueInv
    <3>3. Weight(items') <= Weight(items) /\ Weight(items') \in Nat /\ Weight(items) \in Nat
      BY <2>2, <3>1, <3>2, WeightShrinks
    <3>4. Cardinality(DOMAIN items') = 0
      BY <2>2, FS_EmptySet
    <3>5. Weight(items') <= MaxWeight
      <4>1. Weight(items) <= MaxWeight
        BY <1>0 DEF QueueInv, QueueCovered, Fits
      <4> QED
        BY <3>3, <4>1, NotificationAssumption
    <3> QED
      BY <3>4, <3>5, NotificationAssumption DEF Fits
  <2>4. QueueInv'
    BY <1>0, <1>11, <2>2, <2>3, NotificationAssumption DEF Close, QueueInv, QueueCovered, Never
  <2> QED
    BY <1>0, <1>a, <1>11, <2>1, <2>4 DEF Close, NotificationInv
<1>12. CASE UNCHANGED notificationVars
  BY <1>0, <1>a, <1>b, <1>12 DEF notificationVars, wakeup, queue, NotificationInv, WakeupTyped, JobCovers
<1> QED
  BY <1>1, <1>2, <1>3, <1>4, <1>5, <1>6, <1>7, <1>8, <1>9, <1>10, <1>11, <1>12 DEF NotificationNext

\* The queue keeps its budget, the timer covers every message, and every change
\* is some wake-up job's (display_notifications.py, runtime_manager.py).
THEOREM NotificationsConsistentHolds == NotificationSpec => []NotificationsConsistent
<1>1. NotificationInv => NotificationsConsistent
  BY DEF NotificationInv, QueueInv, WakeupTyped, NotificationsConsistent, NotificationTypeOK
<1> QED
  BY NotificationInitInv, NotificationStep, <1>1, PTL DEF NotificationSpec

\* No message gives way while one that should go before it stays (show and its
\* loop in display_notifications.py).
THEOREM LowestGivesWayHolds == NotificationSpec => LowestGivesWay
<1> DEFINE GoesFirst ==
      \A k \in Live, other \in DOMAIN items' \cap DOMAIN items :
          k \notin DOMAIN items' /\ sequence' > sequence
              => \/ items[k].rank < items[other].rank
                 \/ items[k].rank = items[other].rank /\ items[k].sequence < items[other].sequence
                 \/ items'[other] # items[other]
                 \/ \E n \in DOMAIN items' :
                       items'[n].sequence = sequence' /\ items[other].rank > items'[n].rank
<1>1. NotificationInv /\ [NotificationNext]_notificationVars
        => NotificationInv' /\ [GoesFirst]_notificationVars
  BY NotificationStep
<1>2. LowestGivesWay <=> [][GoesFirst]_notificationVars
  BY DEF LowestGivesWay
<1> HIDE DEF GoesFirst
<1> QED
  BY NotificationInitInv, <1>1, <1>2, PTL DEF NotificationSpec

\* Both together (display_notifications.py, runtime_manager.py), for any
\* messages, weights, ranks and times.
THEOREM NotificationsKeptHolds == NotificationSpec => NotificationsKept
BY NotificationsConsistentHolds, LowestGivesWayHolds, PTL DEF NotificationsKept

(***************************************************************************)
(* Alarm commands.                                                         *)
(***************************************************************************)
Query == [step : {"none", "calling", "waiting"}, command : Command, code : {"none", "right", "wrong"},
          forced : BOOLEAN, accepted : BOOLEAN, meddled : BOOLEAN, before : PanelState]

Says == {"nothing", "ok", "not_ready", "rejected", "invalid_code", "unchanged"}
Reply == [says : Says, command : Command, before : PanelState, accepted : BOOLEAN, meddled : BOOLEAN]

AlarmTyped ==
    /\ query \in Query
    /\ reply \in Reply

\* While nobody else moves the panel it stays where the command found it, or
\* where the command brought it, which the poll takes for a proof.
PanelFollowsQuery ==
    query.step # "none" /\ ~query.meddled =>
       IF query.accepted THEN panel \in Proves(query.command) ELSE panel = query.before

AlarmInv == AlarmTrue /\ AlarmTyped /\ PanelFollowsQuery

\* The display leaves out motion sensors only, so what blocks a command it
\* shows as ready is motion.
LEMMA MotionOnly == ShownAgrees
BY DEF ShownAgrees, ShownBlocking, CommandBlocking, Validated

\* A move of the panel marks the command that is under way, and changes
\* nothing else of it.
LEMMA MeddledQuery ==
  ASSUME query \in Query, Meddled
  PROVE  /\ query' \in Query /\ query'.step = query.step
         /\ query'.step # "none" => query'.meddled
<1>1. CASE query.step = "none"
  <2>1. query' = [query EXCEPT !.meddled = FALSE]
    BY <1>1 DEF Meddled
  <2> QED
    BY <1>1, <2>1 DEF Query
<1>2. CASE query.step # "none"
  <2>1. query' = [query EXCEPT !.meddled = TRUE]
    BY <1>2 DEF Meddled
  <2> QED
    BY <2>1 DEF Query
<1> QED
  BY <1>1, <1>2

\* What is said of a command.
LEMMA SaidOf ==
  ASSUME NEW q \in Query, NEW says \in Says
  PROVE  /\ Said(says, q) \in Reply /\ Said(says, q).says = says /\ Said(says, q).command = q.command
         /\ Said(says, q).before = q.before /\ Said(says, q).accepted = q.accepted
         /\ Said(says, q).meddled = q.meddled
BY DEF Said, Reply, Query

LEMMA Idle == NoQuery \in Query /\ NoQuery.step = "none"
BY DEF NoQuery, Query, Command, PanelState, Armed

\* An answer that is true keeps everything: no command is left that the panel
\* is to follow.
LEMMA AnswerKeeps ==
  ASSUME AlarmInv, NEW says \in Says, Answer(says), UNCHANGED <<panel, exitDelay, open, commands, moves>>,
         query.step # "none",
         says = "ok" /\ ~query.meddled /\ query.before # "absent" =>
            query.accepted \/ query.before \in Proves(query.command),
         says \in {"invalid_code", "unchanged"} /\ ~query.meddled => ~query.accepted
  PROVE  AlarmInv'
<1>0. query \in Query /\ reply' = Said(says, query) /\ query' = NoQuery
  BY DEF Answer, AlarmInv, AlarmTyped
<1>1. /\ reply' \in Reply /\ reply'.says = says /\ reply'.command = query.command
      /\ reply'.before = query.before /\ reply'.accepted = query.accepted
      /\ reply'.meddled = query.meddled
  BY <1>0, SaidOf
<1>2. late' \subseteq Command
  BY <1>0 DEF Answer, AlarmInv, AlarmTrue, AlarmTypeOK, Query
<1>3. AlarmTyped' /\ AlarmTypeOK'
  BY <1>0, <1>1, <1>2, Idle DEF AlarmTyped, AlarmInv, AlarmTrue, AlarmTypeOK, Query, Reply, Says
<1>4. OkIsTrue' /\ FailureIsTrue'
  BY <1>1 DEF OkIsTrue, FailureIsTrue, Quietly, Proves, AlarmTarget
<1>5. PanelFollowsQuery'
  BY <1>0, Idle DEF PanelFollowsQuery
<1>6. ShownAgrees'
  BY DEF ShownAgrees, ShownBlocking, CommandBlocking, Validated
<1> QED
  BY <1>3, <1>4, <1>5, <1>6 DEF AlarmInv, AlarmTrue

\* A step that leaves the answer alone, and a command that the panel follows.
LEMMA QuietAlarm ==
  ASSUME AlarmInv, UNCHANGED <<exitDelay, reply, commands>>, open' \subseteq Sensor, moves' \in 0 .. MaxMoves,
         query' \in Query, panel' \in PanelState, late' \subseteq Command, PanelFollowsQuery'
  PROVE  AlarmInv'
<1>1. AlarmTyped' /\ AlarmTypeOK'
  BY DEF AlarmTyped, AlarmInv, AlarmTrue, AlarmTypeOK, Query
<1>2. OkIsTrue' /\ FailureIsTrue'
  BY DEF OkIsTrue, FailureIsTrue, Quietly, AlarmInv, AlarmTrue, Proves, AlarmTarget
<1>3. ShownAgrees'
  BY DEF ShownAgrees, ShownBlocking, CommandBlocking, Validated
<1> QED
  BY <1>1, <1>2, <1>3 DEF AlarmInv, AlarmTrue

LEMMA AlarmInitInv == AlarmInit => AlarmInv
<1> SUFFICES ASSUME AlarmInit PROVE AlarmInv
  OBVIOUS
<1>1. query = NoQuery /\ query \in Query /\ query.step = "none"
  BY Idle DEF AlarmInit
<1>2. reply \in Reply /\ reply.says = "nothing"
  BY Idle, SaidOf DEF AlarmInit, NoReply, Says
<1>3. AlarmTyped /\ AlarmTypeOK
  BY <1>1, <1>2, AlarmAssumption DEF AlarmTyped, AlarmTypeOK, AlarmInit, PanelState, Armed, Query, Reply, Says
<1>4. OkIsTrue /\ FailureIsTrue /\ PanelFollowsQuery
  BY <1>1, <1>2 DEF OkIsTrue, FailureIsTrue, PanelFollowsQuery
<1> QED
  BY <1>3, <1>4, MotionOnly DEF AlarmInv, AlarmTrue

LEMMA AlarmCommandedKeeps ==
  ASSUME AlarmInv, NEW c \in Command, NEW code \in {"none", "right", "wrong"}, NEW forced \in BOOLEAN,
         AlarmCommanded(c, code, forced)
  PROVE  AlarmInv'
<1> DEFINE q == [step |-> "calling", command |-> c, code |-> code, forced |-> forced,
                 accepted |-> FALSE, meddled |-> FALSE, before |-> panel]
<1>1. /\ query.step = "none" /\ query \in Query /\ panel \in PanelState /\ commands < MaxCommands
      /\ commands' = commands + 1 /\ commands \in 0 .. MaxCommands
      /\ UNCHANGED <<panel, exitDelay, open, late, moves>>
      /\ \/ reply' = Said("not_ready", q) /\ query' = query
         \/ query' = q /\ reply' = NoReply
  BY DEF AlarmCommanded, AlarmInv, AlarmTrue, AlarmTypeOK, AlarmTyped
<1>2. /\ q \in Query /\ q.step = "calling" /\ q.before = panel /\ ~q.accepted
  BY <1>1 DEF Query
<1> HIDE DEF q
<1>3. reply' \in Reply /\ reply'.says \in {"nothing", "not_ready"}
  BY <1>1, <1>2, Idle, SaidOf DEF NoReply, Says
<1>4. commands' \in 0 .. MaxCommands
  BY <1>1, AlarmAssumption
<1>5. AlarmTyped' /\ AlarmTypeOK'
  BY <1>1, <1>2, <1>3, <1>4 DEF AlarmTyped, AlarmInv, AlarmTrue, AlarmTypeOK, Query, Reply, Says
<1>6. OkIsTrue' /\ FailureIsTrue'
  BY <1>3 DEF OkIsTrue, FailureIsTrue
<1>7. PanelFollowsQuery'
  BY <1>1, <1>2 DEF PanelFollowsQuery
<1>8. ShownAgrees'
  BY DEF ShownAgrees, ShownBlocking, CommandBlocking, Validated
<1> QED
  BY <1>5, <1>6, <1>7, <1>8 DEF AlarmInv, AlarmTrue

LEMMA PanelObeysKeeps == ASSUME AlarmInv, PanelObeys PROVE AlarmInv'
<1>0. /\ query \in Query /\ panel \in PanelState /\ exitDelay \in BOOLEAN /\ open \subseteq Sensor
      /\ late \subseteq Command /\ moves \in 0 .. MaxMoves
  BY DEF AlarmInv, AlarmTrue, AlarmTypeOK, AlarmTyped
<1>1. query' = [query EXCEPT !.accepted = TRUE] /\ UNCHANGED <<exitDelay, open, late, reply, commands, moves>>
  BY DEF PanelObeys
<1>2. /\ query' \in Query /\ query'.step = query.step /\ query'.command = query.command
      /\ query'.accepted /\ query'.meddled = query.meddled
  BY <1>0, <1>1 DEF Query
<1>3. query.command \in Command
  BY <1>0 DEF Query
<1>4. AlarmTarget(query.command) \in Armed \cup {"disarmed"}
  BY <1>3 DEF AlarmTarget, Armed, Command
<1>5. panel' \in Proves(query.command) /\ panel' \in PanelState
  <2>1. panel' = AlarmTarget(query.command) \/ panel' = Reached(query.command)
    BY DEF PanelObeys
  <2>2. Reached(query.command) \in Proves(query.command)
        /\ AlarmTarget(query.command) \in Proves(query.command)
    BY DEF Reached, Proves
  <2>3. Reached(query.command) \in PanelState /\ AlarmTarget(query.command) \in PanelState
    BY <1>4 DEF Reached, PanelState
  <2> QED
    BY <2>1, <2>2, <2>3
<1>6. PanelFollowsQuery'
  BY <1>2, <1>5 DEF PanelFollowsQuery, Proves, AlarmTarget
<1> QED
  BY <1>0, <1>1, <1>2, <1>5, <1>6, QuietAlarm

\* The panel moves for another reason: the command that is under way is marked.
LEMMA MovedKeeps ==
  ASSUME AlarmInv, Meddled, panel' \in PanelState, late' \subseteq Command, moves' \in 0 .. MaxMoves,
         UNCHANGED <<exitDelay, open, reply, commands>>
  PROVE  AlarmInv'
<1>0. query \in Query /\ open \subseteq Sensor
  BY DEF AlarmInv, AlarmTrue, AlarmTypeOK, AlarmTyped
<1>1. /\ query' \in Query /\ (query'.step # "none" => query'.meddled)
  BY <1>0, MeddledQuery
<1>2. PanelFollowsQuery'
  BY <1>1 DEF PanelFollowsQuery
<1> QED
  BY <1>0, <1>1, <1>2, QuietAlarm

LEMMA AlarmStep == AlarmInv /\ [AlarmNext]_alarmVars => AlarmInv'
<1> SUFFICES ASSUME AlarmInv, [AlarmNext]_alarmVars PROVE AlarmInv'
  OBVIOUS
<1>0. /\ query \in Query /\ panel \in PanelState /\ exitDelay \in BOOLEAN /\ open \subseteq Sensor
      /\ late \subseteq Command /\ moves \in 0 .. MaxMoves /\ PanelFollowsQuery
  BY DEF AlarmInv, AlarmTrue, AlarmTypeOK, AlarmTyped
<1>1. ASSUME NEW c \in Command, NEW code \in {"none", "right", "wrong"}, NEW forced \in BOOLEAN,
             AlarmCommanded(c, code, forced)
      PROVE  AlarmInv'
  BY <1>1, AlarmCommandedKeeps
<1>2. CASE ServiceReturns
  <2>1. CASE query.before = "absent"
    BY <1>2, <2>1, AnswerKeeps DEF ServiceReturns, Says
  <2>2. CASE query.before # "absent"
    <3>1. /\ query' = [query EXCEPT !.step = "waiting"] /\ query.step = "calling"
          /\ UNCHANGED <<panel, exitDelay, open, late, reply, commands, moves>>
      BY <1>2, <2>2 DEF ServiceReturns
    <3>2. /\ query' \in Query /\ query'.command = query.command /\ query'.before = query.before
          /\ query'.accepted = query.accepted /\ query'.meddled = query.meddled
      BY <1>0, <3>1 DEF Query
    <3>3. PanelFollowsQuery'
      BY <1>0, <3>1, <3>2 DEF PanelFollowsQuery, Proves, AlarmTarget
    <3> QED
      BY <1>0, <3>1, <3>2, <3>3, QuietAlarm
  <2> QED
    BY <2>1, <2>2
<1>3. CASE PanelRefuses
  <2>1. PICK says \in {"not_ready", "rejected"} : Answer(says)
    BY <1>3 DEF PanelRefuses
  <2> QED
    BY <1>3, <2>1, AnswerKeeps DEF PanelRefuses, Says
<1>4. CASE PanelObeys
  BY <1>4, PanelObeysKeeps
<1>5. CASE PanelMoves
  <2>1. /\ Meddled /\ panel' \in PanelState /\ moves' \in 0 .. MaxMoves
        /\ UNCHANGED <<exitDelay, open, late, reply, commands>>
    BY <1>0, <1>5, AlarmAssumption DEF PanelMoves, PanelState, Armed
  <2> QED
    BY <1>0, <2>1, MovedKeeps
<1>6. CASE OtherOperates
  <2>1. /\ Meddled /\ panel' \in PanelState /\ moves' \in 0 .. MaxMoves
        /\ UNCHANGED <<exitDelay, open, late, reply, commands>>
    BY <1>0, <1>6, AlarmAssumption DEF OtherOperates, PanelState, Armed
  <2> QED
    BY <1>0, <2>1, MovedKeeps
<1>7. ASSUME NEW c \in Command, ObeysLate(c) PROVE AlarmInv'
  <2>1. panel' \in PanelState
    BY <1>7 DEF ObeysLate, Reached, AlarmTarget, PanelState, Armed, Command
  <2> QED
    BY <1>0, <1>7, <2>1, MovedKeeps DEF ObeysLate
<1>8. ASSUME NEW s \in Sensor, SensorChanges(s) PROVE AlarmInv'
  <2>1. /\ open' \subseteq Sensor /\ moves' \in 0 .. MaxMoves
        /\ UNCHANGED <<panel, exitDelay, query, late, reply, commands>>
    BY <1>0, <1>8, AlarmAssumption DEF SensorChanges
  <2>2. PanelFollowsQuery'
    BY <1>0, <2>1 DEF PanelFollowsQuery, Proves, AlarmTarget
  <2> QED
    BY <1>0, <2>1, <2>2, QuietAlarm
<1>9. CASE Proven
  BY <1>0, <1>9, AnswerKeeps DEF Proven, PanelFollowsQuery, Says
<1>10. CASE NotProven
  <2>1. PICK says \in {"not_ready", "invalid_code", "unchanged"} : Answer(says)
    BY <1>10 DEF NotProven
  <2> QED
    BY <1>0, <1>10, <2>1, AnswerKeeps DEF NotProven, Deadline, PanelFollowsQuery, Says
<1>11. CASE UNCHANGED alarmVars
  <2>1. PanelFollowsQuery'
    BY <1>0, <1>11 DEF alarmVars, PanelFollowsQuery, Proves, AlarmTarget
  <2> QED
    BY <1>0, <1>11, <2>1, QuietAlarm DEF alarmVars
<1> QED
  BY <1>1, <1>2, <1>3, <1>4, <1>5, <1>6, <1>7, <1>8, <1>9, <1>10, <1>11 DEF AlarmNext

\* AlarmTrue of module AlarmCommands, for any sensors and any number of
\* commands and moves of the panel: an ok is of a command the panel has carried
\* out or that was already done, unless the panel had no state, no command it
\* has carried out by then is called a wrong code or unchanged, and a refusal
\* the display did not announce is for motion (executor.py).
THEOREM AlarmTrueHolds == AlarmSpec => []AlarmTrue
<1>1. AlarmInv => AlarmTrue
  BY DEF AlarmInv
<1> QED
  BY AlarmInitInv, AlarmStep, <1>1, PTL DEF AlarmSpec

(***************************************************************************)
(* The codec select.                                                       *)
(***************************************************************************)
\* An answer under way says what the device ran and was set to when it was
\* asked, which a choice or a restart may have changed since; a choice that was
\* made is on the disk.
AnswerIsRecent ==
    /\ resolving.step = "answered" =>
          /\ resolving.answer \in [running : Codec, onDisk : Codec]
          /\ reboots = 0 => resolving.answer.running = running
          /\ ~crossed /\ ~lost /\ asked.step # "made" => resolving.answer.onDisk = onDisk
    /\ asked.step # "no" => asked.option \in Codec
    /\ asked.step = "made" => /\ asked.option = onDisk
                              /\ reboots = 0 => (asked.restart <=> onDisk # running)

CodecInv ==
    /\ CodecTrue /\ AnswerIsRecent
    /\ asked \in Choice
    /\ resolving \in [step : Resolve, answer : [running : Codec \cup {"unknown"},
                                              onDisk : Codec \cup {"unknown"}]]
    /\ newAgent \in BOOLEAN /\ crossed \in BOOLEAN /\ lost \in BOOLEAN /\ reboots \in Nat

LEMMA NobodyChooses == NoChoice \in Choice /\ NoChoice.step = "no"
BY DEF NoChoice, Choice, Codec

LEMMA CodecInitInv == CodecInit => CodecInv
<1> SUFFICES ASSUME CodecInit PROVE CodecInv
  OBVIOUS
<1>1. asked \in Choice /\ asked.step = "no"
  BY NobodyChooses DEF CodecInit
<1>2. resolving \in [step : Resolve, answer : [running : Codec \cup {"unknown"},
                                              onDisk : Codec \cup {"unknown"}]]
      /\ resolving.step = "no"
  BY DEF CodecInit, Resolve, NoAnswer
<1>3. /\ codecShown = running /\ published = running /\ onDisk = running /\ running \in Codec
      /\ newAgent \in BOOLEAN /\ crossed \in BOOLEAN /\ lost \in BOOLEAN /\ reboots \in Nat
      /\ pending = "none"
  BY DEF CodecInit
<1> QED
  BY <1>1, <1>2, <1>3 DEF CodecInv, CodecTrue, CodecTypeOK, ShowsRunning, ChoiceIsPending,
       AnswerIsRecent, Resolve

LEMMA CodecStep == CodecInv /\ [CodecNext]_codecVars => CodecInv'
<1> SUFFICES ASSUME CodecInv, [CodecNext]_codecVars PROVE CodecInv'
  OBVIOUS
<1> USE DEF CodecInv, CodecTrue, CodecTypeOK, ShowsRunning, ChoiceIsPending,
            AnswerIsRecent, Codec, Resolve, Choice
<1>1. ASSUME NEW c \in Codec, ChoiceSent(c) PROVE CodecInv'
  <2>1. /\ asked' = [NoChoice EXCEPT !.step = "sent", !.option = c]
        /\ UNCHANGED <<running, onDisk, newAgent, codecShown, pending, resolving, published, crossed,
                       lost, reboots>>
    BY <1>1 DEF ChoiceSent
  <2>2. asked' \in Choice /\ asked'.step = "sent" /\ asked'.option = c /\ asked = NoChoice
    BY <1>1, <2>1 DEF NoChoice, ChoiceSent
  <2> QED
    BY <2>1, <2>2, NobodyChooses
<1>2. CASE ChoiceMade
  <2>1. /\ asked' = [asked EXCEPT !.step = "made", !.restart = asked.option # running]
        /\ asked.step = "sent" /\ onDisk' = asked.option
        /\ UNCHANGED <<running, newAgent, reachable, codecShown, pending, gap, resolving, codecUp,
                       published, crossed, lost, choices, reboots, failures>>
    BY <1>2 DEF ChoiceMade
  <2>2. (asked.option # running) \in BOOLEAN /\ asked.option \in Codec
    BY <2>1
  <2>3. /\ asked' \in Choice /\ asked'.step = "made" /\ asked'.option = asked.option
        /\ asked'.restart = (asked.option # running)
    BY <2>1, <2>2
  <2>4. asked'.restart <=> onDisk' # running'
    BY <2>1, <2>3
  <2> HIDE DEF Choice
  <2> QED
    BY <2>1, <2>2, <2>3, <2>4
<1>3. CASE ChoiceAnswered
  <2>1. CASE asked.restart
    BY <1>3, <2>1 DEF ChoiceAnswered, NoChoice
  <2>2. CASE ~asked.restart
    BY <1>3, <2>2 DEF ChoiceAnswered, NoChoice, Records
  <2> QED
    BY <2>1, <2>2
<1>4. CASE ChoiceFails
  <2>1. /\ asked' = NoChoice /\ lost' = (lost \/ asked.step = "made") /\ asked.step # "no"
        /\ UNCHANGED <<running, onDisk, newAgent, codecShown, pending, resolving, published, crossed, reboots>>
    BY <1>4 DEF ChoiceFails
  <2>2. lost' \in BOOLEAN /\ (lost => lost') /\ (asked.step = "made" => lost')
    BY <2>1
  <2> HIDE DEF Choice
  <2> QED
    BY <2>1, <2>2, NobodyChooses
<1>5. CASE CaptureRecords
  BY <1>5 DEF CaptureRecords, Records
<1>6. ASSUME NEW up \in BOOLEAN, Signal(up) PROVE CodecInv'
  BY <1>6 DEF Signal, OnSignal
<1>7. CASE Reboots
  BY <1>7 DEF Reboots
<1>8. CASE CodecAnswered
  BY <1>8 DEF CodecAnswered
<1>9. CASE CodecFails
  BY <1>9 DEF CodecFails
<1>10. CASE Resolved
  BY <1>10 DEF Resolved, Applies, Records, NoAnswer
<1>11. CASE UNCHANGED codecVars
  BY <1>11 DEF codecVars
<1> QED
  BY <1>1, <1>2, <1>3, <1>4, <1>5, <1>6, <1>7, <1>8, <1>9, <1>10, <1>11 DEF CodecNext

\* CodecTrue of module CodecSelect, for any number of choices, restarts and
\* failures: what the select shows and shares ran when the device was asked, and
\* a choice the device does not run yet is pending, unless its answer was lost or
\* crossed another (select.py, _apply_action_result, _apply_status).
THEOREM CodecTrueHolds == CodecSpec => []CodecTrue
<1>1. CodecInv => CodecTrue
  BY DEF CodecInv
<1> QED
  BY CodecInitInv, CodecStep, <1>1, PTL DEF CodecSpec

(***************************************************************************)
(* Pushed events.                                                          *)
(***************************************************************************)
Post == {p \in [event : Event, snapshot : BOOLEAN, picture : Picture] :
            /\ p.snapshot => p.event = "memos_changed"
            /\ p.event = "doorbell_media_closed" => p.picture = "off"}
Runtimes == 1 .. (MaxReloads + 1)
HeardState == [available : BOOLEAN, window : BOOLEAN, last : Event \cup {"none"}]
RequestFor(r) == [event : Event, snapshot : BOOLEAN, picture : Picture, state : 1 .. r]

PushTyped ==
    /\ picture \in Picture /\ homeCall \in Phase /\ sensor \in Phase
    /\ posts \in Seq(Post)
    /\ request = NoRequest \/ request \in RequestFor(loaded)
    /\ request.snapshot => request.event = "memos_changed"
    /\ request.event = "doorbell_media_closed" => request.picture = "off"
    /\ stage \in {"prepared", "loaded", "leaving", "unloaded"}
    /\ loaded \in Runtimes
    /\ stage \in {"leaving", "unloaded"} => loaded <= MaxReloads
    /\ heard \in [Runtimes -> HeardState]
    /\ \A r \in Runtimes : r > loaded => heard[r] = Unheard
    /\ shownEvent \in Event \cup {"none"}
    /\ stage # "loaded" => shownEvent = "none"
    /\ behind \in SUBSET {"video", "call", "last"}

\* What the device is in after it posted an event, and a state that says so.
PhaseAfter(e) ==
    CASE e = "home_call_started" -> "ringing" [] e = "home_call_answered" -> "answered" [] OTHER -> "idle"
Depicts(state, p) == state.available = (p = "shown") /\ state.window = (p = "shown")

NonePosted(k) == \A i \in 1 .. Len(posts) : KindOf(posts[i].event) # k
LastPosted(k, i) ==
    /\ i \in 1 .. Len(posts) /\ KindOf(posts[i].event) = k
    /\ \A j \in 1 .. Len(posts) : j > i => KindOf(posts[j].event) # k
Requested(k) == request # NoRequest /\ KindOf(request.event) = k

\* The last event of a kind on its way says what the device is in; when none
\* is on its way, what was heard last says it.
VideoFollows ==
    /\ \A i \in 1 .. Len(posts) : LastPosted("video", i) => picture = posts[i].picture
    /\ NonePosted("video") /\ Requested("video") => picture = request.picture
    /\ NonePosted("video") /\ ~Requested("video") /\ "video" \notin behind => Depicts(heard[loaded], picture)
CallFollows ==
    /\ \A i \in 1 .. Len(posts) : LastPosted("call", i) => homeCall = PhaseAfter(posts[i].event)
    /\ NonePosted("call") /\ Requested("call") => homeCall = PhaseAfter(request.event)
    /\ NonePosted("call") /\ ~Requested("call") /\ "call" \notin behind => sensor = homeCall

PushInv == PushTyped /\ VideoFollows /\ CallFollows /\ OneLastEvent

LEMMA KindsOf ==
  /\ \A e \in Event : KindOf(e) \in {"video", "call", "other"}
  /\ \A e \in VideoEvent : KindOf(e) = "video" /\ e \in Event /\ e \notin CallEvent
  /\ \A e \in CallEvent : KindOf(e) = "call" /\ e \in Event /\ e \notin VideoEvent
  /\ KindOf("memos_changed") = "other" /\ "memos_changed" \in Event
  /\ \A e \in Event : KindOf(e) = "video" => e \in VideoEvent
  /\ \A e \in Event : KindOf(e) = "call" => e \in CallEvent
BY DEF Event, VideoEvent, CallEvent, KindOf

\* What an event is about, of the kinds of state there are.
LEMMA Abouts ==
  ASSUME NEW e \in Event
  PROVE  /\ About(e) \subseteq {"video", "call"}
         /\ \A k \in {"video", "call"} : k \in About(e) <=> KindOf(e) = k
BY DEF About

\* A post goes to the end of those on their way.
LEMMA Posted ==
  ASSUME PushTyped, NEW p \in Post, posts' = Append(posts, p), request' = request, NEW k
  PROVE  /\ posts' \in Seq(Post) /\ Requested(k)' = Requested(k)
         /\ KindOf(p.event) = k => ~NonePosted(k)' /\ \A i : LastPosted(k, i)' => posts'[i] = p
         /\ KindOf(p.event) # k =>
               /\ NonePosted(k)' <=> NonePosted(k)
               /\ \A i : LastPosted(k, i)' => LastPosted(k, i) /\ posts'[i] = posts[i]
<1>1. /\ posts' \in Seq(Post) /\ Len(posts') = Len(posts) + 1 /\ Len(posts) \in Nat
      /\ posts'[Len(posts) + 1] = p /\ \A i \in 1 .. Len(posts) : posts'[i] = posts[i]
  BY DEF PushTyped
<1>2. Requested(k)' = Requested(k)
  BY DEF Requested
<1>3. ASSUME KindOf(p.event) = k
      PROVE  ~NonePosted(k)' /\ \A i : LastPosted(k, i)' => posts'[i] = p
  BY <1>1, <1>3 DEF NonePosted, LastPosted
<1>4. ASSUME KindOf(p.event) # k
      PROVE  /\ NonePosted(k)' <=> NonePosted(k)
             /\ \A i : LastPosted(k, i)' => LastPosted(k, i) /\ posts'[i] = posts[i]
  BY <1>1, <1>4 DEF NonePosted, LastPosted
<1> QED
  BY <1>1, <1>2, <1>3, <1>4

\* The first of those on their way leaves.
LEMMA Taken ==
  ASSUME PushTyped, posts # <<>>, posts' = Tail(posts), NEW k
  PROVE  /\ posts' \in Seq(Post) /\ Head(posts) \in Post
         /\ \A i : LastPosted(k, i)' => LastPosted(k, i + 1) /\ posts'[i] = posts[i + 1]
                                        /\ i \in Nat /\ i + 1 \in 1 .. Len(posts)
         /\ NonePosted(k)' => NonePosted(k) \/ LastPosted(k, 1)
         /\ NonePosted(k) => NonePosted(k)'
         /\ Head(posts) = posts[1] /\ 1 \in 1 .. Len(posts)
         /\ NonePosted(k) => KindOf(Head(posts).event) # k
         /\ NonePosted(k)' /\ ~NonePosted(k) => LastPosted(k, 1) /\ KindOf(Head(posts).event) = k
<1>1. /\ posts' \in Seq(Post) /\ Len(posts) \in Nat /\ Len(posts) >= 1 /\ Len(posts') = Len(posts) - 1
      /\ \A i \in 1 .. Len(posts) - 1 : posts'[i] = posts[i + 1]
      /\ Head(posts) = posts[1] /\ posts[1] \in Post
  BY DEF PushTyped
<1>2. \A i : LastPosted(k, i)' => LastPosted(k, i + 1) /\ posts'[i] = posts[i + 1]
                                  /\ i \in Nat /\ i + 1 \in 1 .. Len(posts)
  <2> TAKE i
  <2> HAVE LastPosted(k, i)'
  <2>1. i \in 1 .. Len(posts) - 1 /\ KindOf(posts'[i].event) = k
        /\ \A j \in 1 .. Len(posts) - 1 : j > i => KindOf(posts'[j].event) # k
    BY <1>1 DEF LastPosted
  <2>2. \A j \in 1 .. Len(posts) : j > i + 1 => j - 1 \in 1 .. Len(posts) - 1 /\ j - 1 > i
                                                /\ posts'[j - 1] = posts[j]
    BY <1>1, <2>1
  <2> QED
    BY <1>1, <2>1, <2>2 DEF LastPosted
<1>3. \A j \in 1 .. Len(posts) : j > 1 => j - 1 \in 1 .. Len(posts') /\ posts'[j - 1] = posts[j]
  BY <1>1
<1>4. ASSUME NonePosted(k)', ~NonePosted(k) PROVE LastPosted(k, 1)
  <2>1. \A j \in 1 .. Len(posts) : j > 1 => KindOf(posts[j].event) # k
    <3> TAKE j \in 1 .. Len(posts)
    <3> HAVE j > 1
    <3>1. KindOf(posts'[j - 1].event) # k
      BY <1>3, <1>4 DEF NonePosted
    <3> QED
      BY <1>3, <3>1
  <2>2. \E j \in 1 .. Len(posts) : KindOf(posts[j].event) = k
    BY <1>4 DEF NonePosted
  <2>3. KindOf(posts[1].event) = k /\ 1 \in 1 .. Len(posts)
    <3>1. PICK j \in 1 .. Len(posts) : KindOf(posts[j].event) = k
      BY <2>2
    <3>2. j = 1
      BY <2>1, <3>1
    <3> QED
      BY <3>1, <3>2
  <2> QED
    BY <2>1, <2>3 DEF LastPosted
<1>5. NonePosted(k) => NonePosted(k)'
  BY <1>1 DEF NonePosted
<1>6. NonePosted(k) => KindOf(Head(posts).event) # k
  BY <1>1 DEF NonePosted
<1>7. LastPosted(k, 1) => KindOf(posts[1].event) = k
  BY DEF LastPosted
<1> QED
  <2>1. 1 \in 1 .. Len(posts) /\ Head(posts) \in Post
    BY <1>1
  <2> QED
    BY <1>1, <1>2, <1>4, <1>5, <1>6, <1>7, <2>1

LEMMA PushInitInv == PushInit => PushInv
<1> SUFFICES ASSUME PushInit PROVE PushInv
  OBVIOUS
<1> USE DEF PushInit
<1>1. Len(posts) = 0 /\ posts \in Seq(Post) /\ request = NoRequest
  OBVIOUS
<1>2. PushTyped
  <2>1. loaded \in Runtimes
    BY PushBounds DEF Runtimes
  <2>2. heard \in [Runtimes -> HeardState] /\ \A r \in Runtimes : heard[r] = Unheard
    BY DEF Runtimes, Unheard, HeardState
  <2> QED
    <3>1. request.snapshot = FALSE /\ request.event = "none"
      BY <1>1 DEF NoRequest
    <3>2. /\ picture = "off" /\ homeCall = "idle" /\ sensor = "idle" /\ shownEvent = "none" /\ behind = {}
          /\ stage = "prepared"
      OBVIOUS
    <3> HIDE DEF PushInit
    <3> QED
      BY <1>1, <2>1, <2>2, <3>1, <3>2 DEF PushTyped, Phase, Picture
<1>3. heard[loaded] = Unheard
  BY PushBounds
<1>4. Depicts(heard[loaded], picture) /\ heard[loaded].last = shownEvent /\ sensor = homeCall
  <2>1. heard[loaded].available = FALSE /\ heard[loaded].window = FALSE /\ heard[loaded].last = "none"
    BY <1>3 DEF Unheard
  <2>2. picture = "off" /\ shownEvent = "none" /\ sensor = homeCall
    OBVIOUS
  <2> HIDE DEF PushInit
  <2> QED
    BY <2>1, <2>2 DEF Depicts
<1>5. \A k : ~Requested(k) /\ \A i \in 1 .. Len(posts) : FALSE
  BY <1>1 DEF Requested
<1>6. VideoFollows /\ CallFollows /\ OneLastEvent
  BY <1>4, <1>5 DEF VideoFollows, CallFollows, OneLastEvent
<1> QED
  BY <1>2, <1>6 DEF PushInv

\* A post of the device names what it then is in.
LEMMA PostKeeps ==
  ASSUME PushInv, NEW e \in Event, NEW b \in BOOLEAN, Posts(e, b), b => e = "memos_changed",
         picture' \in Picture, homeCall' \in Phase,
         e = "doorbell_media_closed" => picture' = "off",
         e \notin VideoEvent => UNCHANGED picture,
         IF e \in CallEvent THEN homeCall' = PhaseAfter(e) ELSE UNCHANGED homeCall
  PROVE  PushInv'
<1> DEFINE p == [event |-> e, snapshot |-> b, picture |-> picture']
<1>1. /\ posts' = Append(posts, p) /\ p \in Post /\ p.event = e /\ p.picture = picture'
      /\ UNCHANGED <<request, stage, loaded, listed, heard, sensor, shownEvent, behind>>
  BY DEF Posts, Post
<1> HIDE DEF p
<1>2. posts' \in Seq(Post) /\ PushTyped
  BY <1>1, Posted DEF PushInv
<1>3. PushTyped'
  BY <1>1, <1>2 DEF PushTyped
<1>4. VideoFollows'
  <2>1. CASE e \in VideoEvent
    <3>1. KindOf(p.event) = "video"
      BY <1>1, <2>1, KindsOf
    <3>2. ~NonePosted("video")' /\ \A i : LastPosted("video", i)' => posts'[i] = p
      BY <1>1, <1>2, <3>1, Posted
    <3> QED
      BY <1>1, <3>2 DEF VideoFollows
  <2>2. CASE e \notin VideoEvent
    <3>1. KindOf(p.event) # "video"
      BY <1>1, <2>2, KindsOf
    <3>2. /\ NonePosted("video")' <=> NonePosted("video")
          /\ \A i : LastPosted("video", i)' => LastPosted("video", i) /\ posts'[i] = posts[i]
          /\ Requested("video")' = Requested("video")
      BY <1>1, <1>2, <3>1, Posted
    <3>3. \A i \in 1 .. Len(posts') : LastPosted("video", i)' => i \in 1 .. Len(posts)
      BY <3>2 DEF LastPosted
    <3>4. Depicts(heard[loaded], picture)' = Depicts(heard[loaded], picture)
      BY <1>1, <2>2 DEF Depicts
    <3> QED
      BY <1>1, <2>2, <3>2, <3>3, <3>4 DEF VideoFollows, PushInv
  <2> QED
    BY <2>1, <2>2
<1>5. CallFollows'
  <2>1. CASE e \in CallEvent
    <3>1. KindOf(p.event) = "call"
      BY <1>1, <2>1, KindsOf
    <3>2. ~NonePosted("call")' /\ \A i : LastPosted("call", i)' => posts'[i] = p
      BY <1>1, <1>2, <3>1, Posted
    <3> QED
      BY <1>1, <2>1, <3>2 DEF CallFollows
  <2>2. CASE e \notin CallEvent
    <3>1. KindOf(p.event) # "call"
      BY <1>1, <2>2, KindsOf
    <3>2. /\ NonePosted("call")' <=> NonePosted("call")
          /\ \A i : LastPosted("call", i)' => LastPosted("call", i) /\ posts'[i] = posts[i]
          /\ Requested("call")' = Requested("call")
      BY <1>1, <1>2, <3>1, Posted
    <3>3. \A i \in 1 .. Len(posts') : LastPosted("call", i)' => i \in 1 .. Len(posts)
      BY <3>2 DEF LastPosted
    <3> QED
      BY <1>1, <2>2, <3>2, <3>3 DEF CallFollows, PushInv
  <2> QED
    BY <2>1, <2>2
<1>6. OneLastEvent'
  BY <1>1 DEF OneLastEvent, PushInv
<1> QED
  BY <1>3, <1>4, <1>5, <1>6 DEF PushInv

LEMMA LossKeeps == ASSUME PushInv, PostLost PROVE PushInv'
<1>1. /\ request = NoRequest /\ posts # <<>> /\ posts' = Tail(posts)
      /\ behind' = behind \cup About(Head(posts).event)
      /\ UNCHANGED <<picture, homeCall, request, stage, loaded, listed, heard, sensor, shownEvent, posted>>
  BY DEF PostLost
<1>2. PushTyped /\ VideoFollows /\ CallFollows /\ OneLastEvent
  BY DEF PushInv
<1>3. posts' \in Seq(Post) /\ Head(posts) \in Post /\ Head(posts).event \in Event
  <2>1. posts' \in Seq(Post) /\ Head(posts) \in Post
    BY <1>1, <1>2, Taken
  <2> QED
    BY <2>1 DEF Post
<1>4. /\ About(Head(posts).event) \subseteq {"video", "call"}
      /\ \A k \in {"video", "call"} : k \in About(Head(posts).event) <=> KindOf(Head(posts).event) = k
  BY <1>3, Abouts
<1>5. PushTyped'
  BY <1>1, <1>2, <1>3, <1>4 DEF PushTyped
<1>6. \A k : ~Requested(k) /\ ~Requested(k)'
  BY <1>1 DEF Requested
<1>7. ASSUME NEW k \in {"video", "call"}
      PROVE  /\ \A i : LastPosted(k, i)' => LastPosted(k, i + 1) /\ posts'[i] = posts[i + 1]
                                            /\ i + 1 \in 1 .. Len(posts)
             /\ NonePosted(k)' /\ ~NonePosted(k) => k \in behind'
  BY <1>1, <1>2, <1>4, Taken
<1>8. VideoFollows'
  BY <1>1, <1>2, <1>6, <1>7 DEF VideoFollows, Depicts
<1>9. CallFollows'
  BY <1>1, <1>2, <1>6, <1>7 DEF CallFollows
<1>10. OneLastEvent'
  BY <1>1, <1>2 DEF OneLastEvent
<1> QED
  BY <1>5, <1>8, <1>9, <1>10 DEF PushInv

LEMMA RequestKeeps == ASSUME PushInv, RequestTaken PROVE PushInv'
<1>1. /\ request = NoRequest /\ posts # <<>> /\ posts' = Tail(posts)
      /\ request' = [event |-> Head(posts).event, snapshot |-> Head(posts).snapshot,
                     picture |-> Head(posts).picture, state |-> loaded]
      /\ UNCHANGED <<picture, homeCall, stage, loaded, listed, heard, sensor, shownEvent, behind, posted>>
  BY DEF RequestTaken
<1>2. PushTyped /\ VideoFollows /\ CallFollows /\ OneLastEvent
  BY DEF PushInv
<1>3. posts' \in Seq(Post) /\ Head(posts) \in Post
  BY <1>1, <1>2, Taken
<1>4. request' \in RequestFor(loaded') /\ request' # NoRequest
      /\ (request'.snapshot => request'.event = "memos_changed")
      /\ (request'.event = "doorbell_media_closed" => request'.picture = "off")
      /\ request'.event = Head(posts).event /\ request'.picture = Head(posts).picture
  <2>1. loaded \in 1 .. loaded
    BY <1>2 DEF PushTyped, Runtimes
  <2>2. "none" \notin Event
    BY DEF Event, VideoEvent, CallEvent
  <2> QED
    BY <1>1, <1>3, <2>1, <2>2 DEF Post, NoRequest, RequestFor
<1>5. PushTyped'
  BY <1>1, <1>2, <1>3, <1>4 DEF PushTyped
<1>6. \A k : ~Requested(k) /\ (Requested(k)' <=> KindOf(Head(posts).event) = k)
  BY <1>1, <1>4 DEF Requested
<1>7. ASSUME NEW k
      PROVE  /\ \A i : LastPosted(k, i)' => LastPosted(k, i + 1) /\ posts'[i] = posts[i + 1]
                                            /\ i + 1 \in 1 .. Len(posts)
             /\ NonePosted(k)' /\ Requested(k)' => LastPosted(k, 1) /\ request'.event = posts[1].event
                                                   /\ request'.picture = posts[1].picture
                                                   /\ 1 \in 1 .. Len(posts)
             /\ NonePosted(k)' /\ ~Requested(k)' => NonePosted(k)
  BY <1>1, <1>2, <1>4, <1>6, Taken
<1>8. VideoFollows'
  BY <1>1, <1>2, <1>6, <1>7 DEF VideoFollows, Depicts
<1>9. CallFollows'
  BY <1>1, <1>2, <1>6, <1>7 DEF CallFollows
<1>10. OneLastEvent'
  BY <1>1, <1>2 DEF OneLastEvent
<1> QED
  BY <1>5, <1>8, <1>9, <1>10 DEF PushInv

\* The posts stay, the request ends: only what is said of its kind changes.
LEMMA RequestEnds ==
  ASSUME PushInv, request # NoRequest, request' = NoRequest, UNCHANGED <<picture, homeCall, posts>>,
         PushTyped',
         KindOf(request.event) = "video"
           \/ (Depicts(heard[loaded], picture)' = Depicts(heard[loaded], picture)
               /\ ("video" \in behind' <=> "video" \in behind)),
         KindOf(request.event) = "call"
           \/ (sensor' = sensor /\ ("call" \in behind' <=> "call" \in behind)),
         KindOf(request.event) = "video" => "video" \in behind' \/ Depicts(heard'[loaded'], request.picture),
         KindOf(request.event) = "call" => "call" \in behind' \/ sensor' = PhaseAfter(request.event)
  PROVE  VideoFollows' /\ CallFollows'
<1>1. PushTyped /\ VideoFollows /\ CallFollows
  BY DEF PushInv
<1>2. \A k : ~Requested(k)' /\ (Requested(k) <=> KindOf(request.event) = k)
  BY DEF Requested
<1>3. \A k : (NonePosted(k)' <=> NonePosted(k)) /\ \A i : LastPosted(k, i)' <=> LastPosted(k, i)
  BY DEF NonePosted, LastPosted
<1>4. VideoFollows'
  <2>1. \A i \in 1 .. Len(posts') : LastPosted("video", i)' => picture' = posts'[i].picture
    BY <1>1, <1>3 DEF VideoFollows
  <2>2. CASE KindOf(request.event) = "video"
    <3>1. NonePosted("video")' => picture' = request.picture
      BY <1>1, <1>2, <1>3, <2>2 DEF VideoFollows
    <3>2. NonePosted("video")' /\ "video" \notin behind' => Depicts(heard[loaded], picture)'
      BY <2>2, <3>1 DEF Depicts
    <3> QED
      BY <1>2, <2>1, <3>2 DEF VideoFollows
  <2>3. CASE KindOf(request.event) # "video"
    BY <1>1, <1>2, <1>3, <2>1, <2>3 DEF VideoFollows
  <2> QED
    BY <2>2, <2>3
<1>5. CallFollows'
  BY <1>1, <1>2, <1>3 DEF CallFollows
<1> QED
  BY <1>4, <1>5

LEMMA UnusableKeeps == ASSUME PushInv, BodyUnusable PROVE PushInv'
<1>1. /\ request # NoRequest /\ request' = NoRequest
      /\ behind' = behind \cup About(request.event)
      /\ UNCHANGED <<picture, homeCall, posts, stage, loaded, listed, heard, sensor, shownEvent, posted>>
  BY DEF BodyUnusable
<1>2. PushTyped /\ OneLastEvent
  BY DEF PushInv
<1>3. /\ About(request.event) \subseteq {"video", "call"}
      /\ \A k \in {"video", "call"} : k \in About(request.event) <=> KindOf(request.event) = k
  <2>1. request.event \in Event
    BY <1>1, <1>2 DEF PushTyped, RequestFor
  <2> QED
    BY <2>1, Abouts
<1>4. PushTyped'
  BY <1>1, <1>2, <1>3 DEF PushTyped, NoRequest
<1>5. VideoFollows' /\ CallFollows'
  <2>1. Depicts(heard[loaded], picture)' = Depicts(heard[loaded], picture)
    BY <1>1 DEF Depicts
  <2> QED
    BY <1>1, <1>3, <1>4, <2>1, RequestEnds
<1>6. OneLastEvent'
  BY <1>1, <1>2 DEF OneLastEvent
<1> QED
  BY <1>4, <1>5, <1>6 DEF PushInv

\* What the handlers make of a state.
LEMMA HandledState ==
  ASSUME NEW state \in HeardState, NEW e \in Event, NEW p \in Picture, NEW b \in BOOLEAN,
         e = "doorbell_media_closed" => p = "off"
  PROVE  LET n == Noted(VideoAfter(state, e, Told(p)), e, b) IN
         /\ n \in HeardState
         /\ e \in VideoEvent => Depicts(n, p)
         /\ e \notin VideoEvent => n.available = state.available /\ n.window = state.window
         /\ n.last = IF b THEN state.last ELSE e
<1> DEFINE v == VideoAfter(state, e, Told(p))
<1>1. /\ v \in HeardState /\ v.last = state.last
      /\ e \in VideoEvent => v.available = (p = "shown") /\ v.window = (p = "shown")
      /\ e \notin VideoEvent => v.available = state.available /\ v.window = state.window
  <2>1. CASE e \in {"doorbell_pressed", "doorbell_view_requested"}
    <3>1. v = [state EXCEPT !.available = Told(p).available /\ ~Told(p).external,
                            !.window = Told(p).window /\ ~Told(p).external]
      BY <2>1 DEF VideoAfter
    <3>2. (Told(p).available /\ ~Told(p).external) = (p = "shown")
          /\ (Told(p).window /\ ~Told(p).external) = (p = "shown")
      BY DEF Told
    <3> QED
      BY <2>1, <3>1, <3>2 DEF HeardState, VideoEvent
  <2>2. CASE e = "doorbell_media_closed"
    <3>1. v = [state EXCEPT !.available = FALSE, !.window = FALSE]
      BY <2>2 DEF VideoAfter
    <3> QED
      BY <2>2, <3>1 DEF HeardState, VideoEvent
  <2>3. CASE e \notin VideoEvent
    <3>1. v = state
      BY <2>3 DEF VideoAfter, VideoEvent
    <3> QED
      BY <2>3, <3>1
  <2> QED
    BY <2>1, <2>2, <2>3 DEF VideoEvent
<1> HIDE DEF v
<1>2. CASE b
  BY <1>1, <1>2 DEF Noted, Depicts, v
<1>3. CASE ~b
  <2>1. Noted(v, e, b) = [v EXCEPT !.last = e]
    BY <1>3 DEF Noted
  <2> QED
    BY <1>1, <1>3, <2>1 DEF HeardState, Depicts, v
<1> QED
  BY <1>2, <1>3

\* What is behind after an event.
LEMMA BehindOf ==
  ASSUME NEW e \in Event, NEW b \in BOOLEAN, NEW c \in BOOLEAN,
         behind \in SUBSET {"video", "call", "last"}
  PROVE  LET after == BehindAfter(e, b, c) IN
         /\ after \in SUBSET {"video", "call", "last"}
         /\ KindOf(e) = "video" /\ ~c => "video" \in after
         /\ KindOf(e) = "call" /\ ~Listens(e) => "call" \in after
         /\ KindOf(e) # "video" => ("video" \in after <=> "video" \in behind)
         /\ KindOf(e) # "call" => ("call" \in after <=> "call" \in behind)
         /\ b => ("last" \in after <=> "last" \in behind)
         /\ ~b /\ ~c /\ ~Listens(e) => ("last" \in after <=> "last" \in behind)
         /\ ~b /\ (c # Listens(e)) => "last" \in after
<1> DEFINE kept == CASE e \in VideoEvent -> c [] e \in CallEvent -> Listens(e) [] OTHER -> TRUE
           told == IF kept THEN behind \ About(e) ELSE behind \cup About(e)
           after == BehindAfter(e, b, c)
<1>1. /\ About(e) \subseteq {"video", "call"}
      /\ \A k \in {"video", "call"} : k \in About(e) <=> KindOf(e) = k
  BY Abouts
<1>0. Listens(e) \in BOOLEAN
  BY DEF Listens
<1>2. /\ KindOf(e) = "video" /\ ~c => ~kept
      /\ KindOf(e) = "call" /\ ~Listens(e) => ~kept
  BY KindsOf
<1> HIDE DEF kept
<1>3. /\ told \in SUBSET {"video", "call", "last"}
      /\ KindOf(e) = "video" /\ ~c => "video" \in told
      /\ KindOf(e) = "call" /\ ~Listens(e) => "call" \in told
      /\ KindOf(e) # "video" => ("video" \in told <=> "video" \in behind)
      /\ KindOf(e) # "call" => ("call" \in told <=> "call" \in behind)
      /\ "last" \in told <=> "last" \in behind
  BY <1>1, <1>2
<1>4. /\ b => after = told
      /\ ~b /\ c /\ Listens(e) => after = told \ {"last"}
      /\ ~b /\ (c # Listens(e)) => after = told \cup {"last"}
      /\ ~b /\ ~c /\ ~Listens(e) => after = told
  BY <1>0 DEF BehindAfter, kept
<1> HIDE DEF told, after
<1>5. CASE b
  BY <1>3, <1>4, <1>5 DEF after
<1>6. CASE ~b /\ c /\ Listens(e)
  BY <1>3, <1>4, <1>6 DEF after
<1>7. CASE ~b /\ (c # Listens(e))
  BY <1>3, <1>4, <1>7 DEF after
<1>8. CASE ~b /\ ~c /\ ~Listens(e)
  BY <1>3, <1>4, <1>8 DEF after
<1> QED
  BY <1>0, <1>5, <1>6, <1>7, <1>8

LEMMA ReadKeeps == ASSUME PushInv, BodyRead PROVE PushInv'
<1> DEFINE e == request.event
           r == request.state
           b == request.snapshot
           p == request.picture
<1>1. /\ request # NoRequest /\ request' = NoRequest
      /\ heard' = [heard EXCEPT ![r] = Noted(VideoAfter(heard[r], e, Told(p)), e, b)]
      /\ IF ~b /\ Listens(e) THEN sensor' = SensorAfter(e) /\ shownEvent' = e
         ELSE UNCHANGED <<sensor, shownEvent>>
      /\ behind' = BehindAfter(e, b, r = loaded)
      /\ UNCHANGED <<picture, homeCall, posts, stage, loaded, listed, posted>>
  BY DEF BodyRead
<1>2. PushTyped /\ VideoFollows /\ CallFollows /\ OneLastEvent
  BY DEF PushInv
<1>3. e \in Event /\ r \in 1 .. loaded /\ r \in Runtimes /\ loaded \in Runtimes /\ b \in BOOLEAN
      /\ p \in Picture /\ (e = "doorbell_media_closed" => p = "off") /\ (b => e = "memos_changed")
  <2>1. request \in RequestFor(loaded) /\ loaded \in Runtimes
    BY <1>1, <1>2 DEF PushTyped
  <2>2. 1 .. loaded \subseteq Runtimes
    BY <2>1, PushBounds DEF Runtimes
  <2> QED
    BY <1>2, <2>1, <2>2 DEF RequestFor, PushTyped
<1>4. request.event = e /\ request.picture = p
  OBVIOUS
<1> HIDE DEF e, r, b, p
<1>5. Listens(e) \in BOOLEAN /\ heard[r] \in HeardState /\ behind \in SUBSET {"video", "call", "last"}
  BY <1>2, <1>3 DEF PushTyped, Listens
<1>6. /\ heard'[r] \in HeardState
      /\ e \in VideoEvent => Depicts(heard'[r], p)
      /\ e \notin VideoEvent => heard'[r].available = heard[r].available /\ heard'[r].window = heard[r].window
      /\ heard'[r].last = IF b THEN heard[r].last ELSE e
  <2>1. heard'[r] = Noted(VideoAfter(heard[r], e, Told(p)), e, b)
    BY <1>1, <1>2, <1>3 DEF PushTyped
  <2> QED
    BY <1>3, <1>5, <2>1, HandledState
<1>7. heard' \in [Runtimes -> HeardState] /\ \A q \in Runtimes : q # r => heard'[q] = heard[q]
  BY <1>1, <1>2, <1>6 DEF PushTyped
<1>8. LET after == behind' IN
      /\ after \in SUBSET {"video", "call", "last"}
      /\ KindOf(e) = "video" /\ ~(r = loaded) => "video" \in after
      /\ KindOf(e) = "call" /\ ~Listens(e) => "call" \in after
      /\ KindOf(e) # "video" => ("video" \in after <=> "video" \in behind)
      /\ KindOf(e) # "call" => ("call" \in after <=> "call" \in behind)
      /\ b => ("last" \in after <=> "last" \in behind)
      /\ ~b /\ ~(r = loaded) /\ ~Listens(e) => ("last" \in after <=> "last" \in behind)
      /\ ~b /\ ((r = loaded) # Listens(e)) => "last" \in after
  BY <1>1, <1>3, <1>5, BehindOf
<1>9. sensor' \in Phase /\ shownEvent' \in Event \cup {"none"} /\ (stage' # "loaded" => shownEvent' = "none")
  <2>1. SensorAfter(e) \in Phase
    BY <1>2 DEF PushTyped, SensorAfter, Phase
  <2> QED
    BY <1>1, <1>2, <1>3, <2>1 DEF PushTyped, Listens
<1>10. PushTyped'
  <2>1. \A q \in Runtimes : q > loaded' => heard'[q] = Unheard
    BY <1>1, <1>2, <1>3, <1>7 DEF PushTyped, Runtimes
  <2> QED
    BY <1>1, <1>2, <1>7, <1>8, <1>9, <2>1 DEF PushTyped, NoRequest
<1>11. KindOf(e) = "call" => sensor' = PhaseAfter(e) \/ "call" \in behind'
  <2>1. KindOf(e) = "call" => e \in CallEvent /\ e # "memos_changed"
    BY <1>3, KindsOf DEF CallEvent
  <2>2. KindOf(e) = "call" => SensorAfter(e) = PhaseAfter(e)
    BY <2>1 DEF CallEvent, SensorAfter, PhaseAfter
  <2> QED
    BY <1>1, <1>3, <1>8, <2>1, <2>2
<1>12. KindOf(e) # "call" => sensor' = sensor
  <2>1. KindOf(e) # "call" => SensorAfter(e) = sensor
    BY <1>3 DEF KindOf, CallEvent, VideoEvent, SensorAfter
  <2> QED
    BY <1>1, <2>1
<1>13. KindOf(e) = "video" => "video" \in behind' \/ Depicts(heard'[loaded'], p)
  BY <1>1, <1>3, <1>6, <1>8, KindsOf
<1>14. KindOf(e) # "video" => Depicts(heard[loaded], picture)' = Depicts(heard[loaded], picture)
  BY <1>1, <1>3, <1>6, <1>7, KindsOf DEF Depicts
<1>15. VideoFollows' /\ CallFollows'
  BY <1>1, <1>4, <1>8, <1>10, <1>11, <1>12, <1>13, <1>14, RequestEnds
<1>16. OneLastEvent'
  <2>1. CASE b
    <3>1. heard'[loaded'].last = heard[loaded].last /\ shownEvent' = shownEvent
      BY <1>1, <1>3, <1>6, <1>7, <2>1
    <3> QED
      BY <1>2, <1>8, <2>1, <3>1 DEF OneLastEvent
  <2>2. CASE ~b /\ ((r = loaded) # Listens(e))
    BY <1>8, <2>2 DEF OneLastEvent
  <2>3. CASE ~b /\ r = loaded /\ Listens(e)
    BY <1>1, <1>6, <2>3 DEF OneLastEvent
  <2>4. CASE ~b /\ r # loaded /\ ~Listens(e)
    <3>1. heard'[loaded'].last = heard[loaded].last /\ shownEvent' = shownEvent
      BY <1>1, <1>3, <1>7, <2>4
    <3> QED
      BY <1>2, <1>8, <2>4, <3>1 DEF OneLastEvent
  <2> QED
    BY <1>3, <1>5, <2>1, <2>2, <2>3, <2>4
<1> QED
  BY <1>10, <1>15, <1>16 DEF PushInv

\* What neither the device's states, nor the posts, nor the request are part
\* of keeps what is said of them, when it only makes more of them behind.
LEMMA LoadingKeeps ==
  ASSUME PushInv, UNCHANGED <<picture, homeCall, posts, request>>, PushTyped', OneLastEvent',
         "video" \in behind => "video" \in behind', "call" \in behind => "call" \in behind',
         "video" \in behind' \/ Depicts(heard[loaded], picture)' = Depicts(heard[loaded], picture)
           \/ Depicts(heard[loaded], picture)',
         "call" \in behind' \/ sensor' = sensor \/ sensor' = homeCall
  PROVE  PushInv'
<1>1. PushTyped /\ VideoFollows /\ CallFollows
  BY DEF PushInv
<1>2. \A k : /\ (NonePosted(k)' <=> NonePosted(k)) /\ \A i : LastPosted(k, i)' <=> LastPosted(k, i)
             /\ Requested(k)' <=> Requested(k)
  BY DEF NonePosted, LastPosted, Requested
<1>3. VideoFollows'
  BY <1>1, <1>2 DEF VideoFollows
<1>4. CallFollows'
  BY <1>1, <1>2 DEF CallFollows
<1> QED
  BY <1>3, <1>4 DEF PushInv

LEMMA ActionKeeps == ASSUME PushInv, ActionFired PROVE PushInv'
<1>1. /\ shownEvent' = "door_unlock_started" /\ stage = "loaded" /\ behind' = behind \cup {"last"}
      /\ UNCHANGED <<picture, homeCall, posts, request, stage, loaded, listed, heard, sensor, posted>>
  BY DEF ActionFired, Listens
<1>2. PushTyped
  BY DEF PushInv
<1>3. PushTyped'
  BY <1>1, <1>2 DEF PushTyped, Event
<1>4. OneLastEvent'
  BY <1>1 DEF OneLastEvent
<1>5. Depicts(heard[loaded], picture)' = Depicts(heard[loaded], picture)
  BY <1>1 DEF Depicts
<1> QED
  BY <1>1, <1>3, <1>4, <1>5, LoadingKeeps

LEMMA RemovedKeeps == ASSUME PushInv, EntitiesRemoved PROVE PushInv'
<1>1. /\ stage' = "leaving" /\ loaded <= MaxReloads /\ sensor' = "idle" /\ shownEvent' = "none"
      /\ behind' = behind \cup {"last"} \cup (IF homeCall # "idle" THEN {"call"} ELSE {})
      /\ UNCHANGED <<picture, homeCall, posts, request, loaded, listed, heard, posted>>
  BY DEF EntitiesRemoved
<1>2. PushTyped
  BY DEF PushInv
<1>3. behind' \in SUBSET {"video", "call", "last"}
  BY <1>1, <1>2 DEF PushTyped
<1>4. PushTyped'
  BY <1>1, <1>2, <1>3 DEF PushTyped, Phase
<1>5. OneLastEvent'
  BY <1>1 DEF OneLastEvent
<1>6. Depicts(heard[loaded], picture)' = Depicts(heard[loaded], picture)
  BY <1>1 DEF Depicts
<1>7. "call" \in behind' \/ sensor' = homeCall
  BY <1>1
<1>8. ("video" \in behind => "video" \in behind') /\ ("call" \in behind => "call" \in behind')
  BY <1>1
<1> QED
  BY <1>1, <1>4, <1>5, <1>6, <1>7, <1>8, LoadingKeeps

LEMMA StageKeeps == ASSUME PushInv, WebhookRemoved \/ EntitiesAdded PROVE PushInv'
<1>1. /\ (stage = "leaving" /\ stage' = "unloaded") \/ (stage = "prepared" /\ stage' = "loaded")
      /\ UNCHANGED <<picture, homeCall, posts, request, loaded, listed, heard, sensor, shownEvent,
                     behind, posted>>
  BY DEF WebhookRemoved, EntitiesAdded
<1>2. PushTyped /\ OneLastEvent
  BY DEF PushInv
<1>3. PushTyped'
  BY <1>1, <1>2 DEF PushTyped
<1>4. OneLastEvent'
  BY <1>1, <1>2 DEF OneLastEvent
<1>5. Depicts(heard[loaded], picture)' = Depicts(heard[loaded], picture)
  BY <1>1 DEF Depicts
<1> QED
  BY <1>1, <1>3, <1>4, <1>5, LoadingKeeps

LEMMA PreparedKeeps == ASSUME PushInv, RuntimePrepared PROVE PushInv'
<1>1. /\ stage = "unloaded" /\ stage' = "prepared" /\ loaded' = loaded + 1
      /\ behind' = (behind \ {"last"}) \cup (IF picture = "shown" THEN {"video"} ELSE {})
      /\ UNCHANGED <<picture, homeCall, posts, request, heard, sensor, shownEvent, posted>>
  BY DEF RuntimePrepared
<1>2. PushTyped
  BY DEF PushInv
<1>3. loaded' \in Runtimes /\ loaded' > loaded /\ loaded \in Nat /\ 1 .. loaded \subseteq 1 .. loaded'
  BY <1>1, <1>2, PushBounds DEF PushTyped, Runtimes
<1>4. heard'[loaded'].available = FALSE /\ heard'[loaded'].window = FALSE /\ heard'[loaded'].last = "none"
  <2>1. heard'[loaded'] = Unheard
    BY <1>1, <1>2, <1>3 DEF PushTyped
  <2> QED
    BY <2>1 DEF Unheard
<1>5. behind' \in SUBSET {"video", "call", "last"} /\ (picture = "shown" => "video" \in behind')
      /\ ("video" \in behind => "video" \in behind') /\ ("call" \in behind => "call" \in behind')
  BY <1>1, <1>2 DEF PushTyped
<1>6. PushTyped'
  <2>1. \A q \in Runtimes : q > loaded' => heard'[q] = Unheard
    BY <1>1, <1>2, <1>3 DEF PushTyped, Runtimes
  <2>2. request' = NoRequest \/ request' \in RequestFor(loaded')
    BY <1>1, <1>2, <1>3 DEF PushTyped, RequestFor
  <2> QED
    BY <1>1, <1>2, <1>3, <1>5, <2>1, <2>2 DEF PushTyped
<1>7. "video" \in behind' \/ Depicts(heard[loaded], picture)'
  BY <1>1, <1>4, <1>5 DEF Depicts
<1>8. OneLastEvent'
  BY <1>1, <1>2, <1>4 DEF OneLastEvent, PushTyped
<1> QED
  BY <1>1, <1>5, <1>6, <1>7, <1>8, LoadingKeeps

LEMMA PushStep == PushInv /\ [PushNext]_pushVars => PushInv'
<1> SUFFICES ASSUME PushInv, [PushNext]_pushVars PROVE PushInv'
  OBVIOUS
<1>0. PushTyped /\ VideoFollows /\ CallFollows /\ OneLastEvent
  BY DEF PushInv
<1>1. CASE RingOrView
  <2>1. PICK e \in {"doorbell_pressed", "doorbell_view_requested"} : Posts(e, FALSE)
    BY <1>1 DEF RingOrView
  <2>2. picture' \in Picture /\ homeCall' = homeCall
    BY <1>1 DEF RingOrView
  <2>3. e \in Event /\ e \in VideoEvent /\ e \notin CallEvent
    BY DEF Event, VideoEvent, CallEvent
  <2> QED
    BY <1>0, <2>1, <2>2, <2>3, PostKeeps DEF PushTyped
<1>2. CASE MediaClosed
  <2>1. picture' = "off" /\ homeCall' = homeCall /\ Posts("doorbell_media_closed", FALSE)
    BY <1>2 DEF MediaClosed
  <2>2. "doorbell_media_closed" \in VideoEvent /\ "doorbell_media_closed" \notin CallEvent
        /\ "doorbell_media_closed" \in Event /\ "off" \in Picture
    BY DEF Event, VideoEvent, CallEvent, Picture
  <2> QED
    BY <1>0, <2>1, <2>2, PostKeeps DEF PushTyped
<1>3. CASE HomeCallMoves
  <2>1. picture' = picture /\ picture \in Picture
    BY <1>0, <1>3 DEF HomeCallMoves, PushTyped
  <2>2. PICK e \in CallEvent : homeCall' = PhaseAfter(e) /\ Posts(e, FALSE)
    BY <1>3 DEF HomeCallMoves, CallEvent, PhaseAfter
  <2>3. homeCall' \in Phase /\ e \in Event /\ e \notin VideoEvent /\ e # "doorbell_media_closed"
    BY <2>2 DEF PhaseAfter, Phase, Event, CallEvent, VideoEvent
  <2> QED
    BY <2>1, <2>2, <2>3, PostKeeps
<1>4. CASE DoorUnlocks \/ SnapshotPosted
  <2>1. UNCHANGED <<picture, homeCall>> /\ \E e \in {"door_unlock_started", "memos_changed"} :
            \E b \in BOOLEAN : Posts(e, b) /\ (b => e = "memos_changed")
    BY <1>4 DEF DoorUnlocks, SnapshotPosted
  <2>2. PICK e \in {"door_unlock_started", "memos_changed"}, b \in BOOLEAN :
            Posts(e, b) /\ (b => e = "memos_changed")
    BY <2>1
  <2>3. e \in Event /\ e \notin VideoEvent /\ e \notin CallEvent /\ e # "doorbell_media_closed"
    BY DEF Event, CallEvent, VideoEvent
  <2> QED
    BY <1>0, <2>1, <2>2, <2>3, PostKeeps DEF PushTyped
<1>5. CASE RuntimePrepared
  BY <1>5, PreparedKeeps
<1>6. CASE UNCHANGED pushVars
  <2>1. UNCHANGED <<picture, homeCall, posts, request, stage, loaded, listed, heard, sensor, shownEvent, behind>>
    BY <1>6 DEF pushVars
  <2>2. PushTyped'
    BY <1>0, <2>1 DEF PushTyped
  <2>3. OneLastEvent'
    BY <1>0, <2>1 DEF OneLastEvent
  <2>4. Depicts(heard[loaded], picture)' = Depicts(heard[loaded], picture)
    BY <2>1 DEF Depicts
  <2> QED
    BY <2>1, <2>2, <2>3, <2>4, LoadingKeeps
<1>7. CASE WebhookRemoved \/ EntitiesAdded
  BY <1>7, StageKeeps
<1> QED
  BY <1>1, <1>2, <1>3, <1>4, <1>5, <1>6, <1>7, LossKeeps, RequestKeeps, UnusableKeeps, ReadKeeps,
     ActionKeeps, RemovedKeeps
  DEF PushNext

THEOREM PushedTrueHolds == PushSpec => []PushedTrue
<1>1. PushInv => PushedTrue
  <2> SUFFICES ASSUME PushInv PROVE PushedTrue
    OBVIOUS
  <2>1. PushTypeOK
    BY DEF PushInv, PushTyped, PushTypeOK, NoRequest, Runtimes, RequestFor
  <2>2. Delivered => \A k : NonePosted(k) /\ ~Requested(k)
    BY DEF Delivered, NonePosted, Requested
  <2>3. PushedStateIsTrue
    BY <2>2 DEF PushInv, VideoFollows, CallFollows, PushedStateIsTrue, Depicts
  <2> QED
    BY <2>1, <2>3 DEF PushInv, PushedTrue
<1> QED
  BY PushInitInv, PushStep, <1>1, PTL DEF PushSpec

(***************************************************************************)
(* Switches, volume and forwarding.                                        *)
(***************************************************************************)
Status == [Setting -> BOOLEAN]
Request == [of : Entity \cup {"none"}, want : {"on", "off", "read", "none"},
            step : {"free", "enable", "sent", "fallback", "diagnose"},
            ack : {"none", "ok", "failed"}, snap : Status]
Report == [of : Pushed, value : {"on", "off"}]

\* What a request of a platform can be.
RequestWell(p, o) ==
    /\ o.of = "none" <=> o.step = "free"
    /\ o.of = "none" => o.ack = "none"
    /\ o.of # "none" => /\ o.of \in fitted /\ PlatformOf(o.of) = p /\ entities = "live"
                        /\ o.want # "none"
    /\ o.step = "enable" => o.of = "firewall" /\ o.want = "on"
    /\ o.step = "fallback" => o.of = "firewall" /\ o.want = "read"
    /\ o.step = "diagnose" => o.of \in Bridges /\ o.ack = "ok" /\ o.want # "read"

SwitchTyped ==
    /\ fitted \in Kits /\ excuse \subseteq fitted
    /\ device \in Status
    /\ display \in [Entity -> {"none", "on", "off"}] /\ avail \in [Entity -> BOOLEAN]
    /\ store \in [Pushed -> {"none", "on", "off"}]
    /\ op \in [Platform -> Request] /\ push \in Seq(Report)
    /\ entities \in {"new", "read", "live"}
    /\ \A p \in Platform : RequestWell(p, op[p])
    /\ \A s \in Entity \ fitted : display[s] = "none"
    /\ \A i \in DOMAIN push : push[i].of \in fitted

\* The last event of a setting that is under way has the setting's value.
LastIsTrue ==
    \A i \in DOMAIN push :
        (\A j \in DOMAIN push : j > i => push[j].of # push[i].of)
            => push[i].value = Word(device[push[i].of])

\* The entities an answer will be applied to, or a command that goes on.
Covers(o) ==
    IF o.of = "firewall" /\ o.want = "on"
    THEN {"firewall"} \cup (IF o.step = "enable" /\ o.ack = "ok" THEN Auth ELSE {})
    ELSE IF o.ack # "ok" THEN {}
    ELSE IF o.of \in Bridges /\ o.want # "read" THEN Bridges
    ELSE IF o.step = "fallback" THEN Auth \cup {"firewall"}
    ELSE Hearers(o.of, o.want)

Right(s) == display[s] = Reading(s, device) /\ (s = "forward" => store[s] = Reading(s, device))
Pending(s) == entities = "live" /\ \E i \in DOMAIN push : push[i].of = s
Answers(s) == \A p \in Platform : s \in Awaiting(op[p]) /\ op[p].ack = "ok"
                                      => Reading(s, op[p].snap) = Reading(s, device)
Shows(s) == avail[s] => Right(s) \/ Pending(s) \/ \E p \in Platform : s \in Covers(op[p])

\* An entity without an excuse shows the device or is about to.
Settled(s) == s \notin excuse /\ entities # "new" => Answers(s) /\ Shows(s)

SwitchInv == SwitchTyped /\ LastIsTrue /\ \A s \in fitted : Settled(s)

USE DEF Platform

LEMMA FittedShape ==
  ASSUME fitted \in Kits
  PROVE  /\ fitted \subseteq Entity /\ "none" \notin fitted
         /\ \A a, b \in fitted : PlatformOf(a) # PlatformOf(b) =>
               /\ a \notin Auth \cup Bridges \cup {"firewall"}
               /\ b \notin Auth \cup Bridges \cup {"firewall"} /\ a # b
<1>1. fitted \subseteq Entity /\ "none" \notin fitted
  BY DEF Kits, Entity, Auth, Bridges, Pushed
<1>2. ASSUME NEW a \in fitted, NEW b \in fitted, PlatformOf(a) # PlatformOf(b)
      PROVE  /\ a \notin Auth \cup Bridges \cup {"firewall"}
             /\ b \notin Auth \cup Bridges \cup {"firewall"} /\ a # b
  <2>1. CASE fitted = {"muted", "volume"} \/ fitted = {"plain", "forward"}
    BY <1>2, <2>1 DEF Auth, Bridges
  <2>2. CASE fitted = Auth \cup {"firewall"} \/ fitted = Bridges
    BY <1>2, <2>2 DEF Auth, Bridges, PlatformOf
  <2> QED
    BY <2>1, <2>2 DEF Kits
<1> QED
  BY <1>1, <1>2

\* Requests of two platforms wait for different entities.
LEMMA PlatformsApart ==
  ASSUME SwitchTyped, NEW p \in Platform, NEW q \in Platform, p # q,
         op[p].of # "none", op[q].of # "none", NEW s \in Awaiting(op[p])
  PROVE  s \notin Awaiting(op[q])
<1>1. op[p].of \in fitted /\ op[q].of \in fitted /\ PlatformOf(op[p].of) # PlatformOf(op[q].of)
  BY DEF SwitchTyped, RequestWell
<1>2. /\ op[p].of \notin Auth \cup Bridges \cup {"firewall"}
      /\ op[q].of \notin Auth \cup Bridges \cup {"firewall"} /\ op[p].of # op[q].of
  BY <1>1, FittedShape DEF SwitchTyped
<1> QED
  BY <1>2 DEF Awaiting

LEMMA ReadingIsWord ==
  ASSUME NEW s \in Entity, NEW d \in Status
  PROVE  /\ Reading(s, d) \in {"on", "off"}
         /\ s \in Pushed => Reading(s, d) = Word(d[s])
  BY DEF Reading, Word, Status, Entity, Setting, Pushed

LEMMA ChangedStatus ==
  ASSUME NEW s \in Setting, NEW b \in BOOLEAN, NEW d \in Status
  PROVE  Changed(s, b, d) \in Status
  BY DEF Changed, Status, Setting, Entity, Auth, Bridges, Pushed

\* A change spares what no request about the same setting waits for.
LEMMA ChangeSpares ==
  ASSUME NEW o, o.of \in Entity, NEW b \in BOOLEAN, NEW d \in Status,
         NEW s \in Entity, s \notin Awaiting(o)
  PROVE  Reading(s, Changed(o.of, b, d)) = Reading(s, d)
<1>1. s # o.of
  BY DEF Awaiting
<1>2. CASE o.of = "noAuth"
  BY <1>1, <1>2 DEF Awaiting, Changed, Reading, Status, Setting, Entity, Auth, Bridges, Pushed
<1>3. CASE o.of \in Bridges
  BY <1>1, <1>3 DEF Awaiting, Changed, Reading, Status, Setting, Entity, Auth, Bridges, Pushed
<1>4. CASE o.of \notin Bridges \cup {"noAuth"}
  <2>1. Changed(o.of, b, d) = [d EXCEPT ![o.of] = b]
    BY <1>4 DEF Changed, Bridges
  <2> QED
    BY <1>1, <1>4, <2>1 DEF Reading, Status, Setting, Entity, Auth, Bridges, Pushed
<1> QED
  BY <1>2, <1>3, <1>4

\* Who leaves the excuses is right and waits for nothing.
LEMMA Excused ==
  ASSUME NEW new, Excuse(new), fitted' = fitted, NEW s \in fitted,
         s \notin excuse /\ s \notin new /\ s \notin excuse' => Settled(s)'
  PROVE  Settled(s)'
<1> SUFFICES ASSUME s \notin excuse', s \in excuse \/ s \in new
             PROVE  Settled(s)'
  BY DEF Settled
<1>1. ~Busy(s, op') /\ display'[s] = Reading(s, device') /\ (s = "forward" => store'[s] = Reading(s, device'))
  BY DEF Excuse
<1> QED
  BY <1>1 DEF Settled, Answers, Shows, Right, Busy, Excuse

LEMMA SwitchInitInv == SwitchInit => SwitchInv
<1> SUFFICES ASSUME SwitchInit PROVE SwitchInv
  OBVIOUS
<1>1. Free \in Request /\ Free.of = "none" /\ Free.step = "free" /\ Free.ack = "none"
  BY DEF Free, Request, Status
<1>2. op \in [Platform -> Request] /\ \A p \in Platform : RequestWell(p, op[p])
  BY <1>1 DEF SwitchInit, RequestWell
<1>3. device \in Status /\ push \in Seq(Report) /\ LastIsTrue
  BY DEF SwitchInit, Status, LastIsTrue
<1>4. SwitchTyped
  BY <1>2, <1>3 DEF SwitchInit, SwitchTyped
<1> QED
  BY <1>3, <1>4 DEF SwitchInv, SwitchInit, Settled

\* Nothing is asked for before the entities live.
LEMMA NobodyAsks ==
  ASSUME SwitchTyped, entities # "live", NEW p \in Platform
  PROVE  op[p].of = "none" /\ op[p].ack = "none" /\ Awaiting(op[p]) = {"none"} /\ Covers(op[p]) = {}
<1>1. op[p].of = "none" /\ op[p].ack = "none"
  BY DEF SwitchTyped, RequestWell
<1> QED
  BY <1>1 DEF Awaiting, Covers, Auth, Bridges

LEMMA SetupReadsKeeps == ASSUME SwitchInv, SetupReads PROVE SwitchInv'
<1>0. SwitchTyped /\ LastIsTrue /\ fitted \subseteq Entity
  BY FittedShape DEF SwitchInv, SwitchTyped
<1>1. PICK failed \in SUBSET fitted :
         /\ display' = [s \in Entity |-> IF s \in fitted \ failed THEN Reading(s, device)
                                        ELSE IF s \in failed \cap Bridges THEN "off" ELSE display[s]]
         /\ avail' = [s \in Entity |-> s \notin failed]
         /\ store' = IF "forward" \in fitted \ failed
                      THEN [store EXCEPT !["forward"] = Reading("forward", device)] ELSE store
  BY DEF SetupReads
<1>2. /\ entities = "new" /\ entities' = "read" /\ UNCHANGED <<fitted, device, op, push>>
      /\ excuse' \subseteq fitted
  BY DEF SetupReads, Excuse
<1>3. display' \in [Entity -> {"none", "on", "off"}]
  BY <1>0, <1>1, ReadingIsWord DEF SwitchTyped
<1>4. store' \in [Pushed -> {"none", "on", "off"}]
  <2>1. Reading("forward", device) \in {"on", "off"}
    BY <1>0, ReadingIsWord DEF SwitchTyped, Entity, Pushed
  <2> QED
    BY <1>0, <1>1, <2>1 DEF SwitchTyped
<1>5. \A p \in Platform : op[p].of = "none"
  BY <1>0, <1>2, NobodyAsks
<1>6. \A p \in Platform : RequestWell(p, op[p])'
  BY <1>0, <1>2, <1>5 DEF SwitchTyped, RequestWell
<1>7. SwitchTyped'
  BY <1>0, <1>1, <1>2, <1>3, <1>4, <1>6 DEF SwitchTyped
<1>8. ASSUME NEW s \in fitted PROVE Settled(s)'
  <2>1. Answers(s)'
    BY <1>0, <1>2, NobodyAsks DEF Answers
  <2>2. Shows(s)'
    <3> SUFFICES ASSUME avail'[s] PROVE Right(s)'
      BY DEF Shows
    <3>1. s \notin failed
      BY <1>0, <1>1, <1>8
    <3>2. display'[s] = Reading(s, device)
      BY <1>0, <1>1, <1>8, <3>1
    <3>3. s = "forward" => store'[s] = Reading(s, device)
      BY <1>0, <1>1, <1>8, <3>1 DEF SwitchTyped, Pushed
    <3> QED
      BY <1>2, <3>2, <3>3 DEF Right
  <2> QED
    BY <2>1, <2>2 DEF Settled
<1> QED
  BY <1>0, <1>2, <1>7, <1>8 DEF SwitchInv, LastIsTrue

LEMMA AddedKeeps == ASSUME SwitchInv, Added PROVE SwitchInv'
<1>1. /\ entities = "read" /\ entities' = "live"
      /\ UNCHANGED <<fitted, device, display, avail, op, push, store, excuse>>
  BY DEF Added
<1>2. SwitchTyped' /\ LastIsTrue'
  BY <1>1 DEF SwitchInv, SwitchTyped, RequestWell, LastIsTrue
<1>3. ASSUME NEW s \in fitted PROVE Settled(s)'
  BY <1>1, <1>3 DEF SwitchInv, Settled, Answers, Shows, Right, Pending
<1> QED
  BY <1>1, <1>2, <1>3 DEF SwitchInv

LEMMA EventsOf ==
  ASSUME NEW q \in Seq(Report), NEW i \in DOMAIN q
  PROVE  q[i] \in Report /\ q[i].of \in Pushed
<1>1. q[i] \in Report
  OBVIOUS
<1> QED
  BY <1>1 DEF Report

\* An event that is appended with the value its setting has now.
LEMMA LastAppended ==
  ASSUME SwitchTyped, LastIsTrue, NEW s \in Pushed, NEW b \in BOOLEAN,
         push' = Append(push, [of |-> s, value |-> Word(b)]),
         device' = [device EXCEPT ![s] = b]
  PROVE  /\ push' \in Seq(Report) /\ LastIsTrue'
         /\ \A t \in Entity : (\E i \in DOMAIN push : push[i].of = t)
                                => \E i \in DOMAIN push' : push'[i].of = t
         /\ \E i \in DOMAIN push' : push'[i].of = s
         /\ \A i \in DOMAIN push' : push'[i].of \in fitted \cup {s}
<1> DEFINE e == [of |-> s, value |-> Word(b)]
<1>1. e \in Report /\ e.of = s /\ e.value = Word(b)
  BY DEF Report, Word
<1>2. push \in Seq(Report) /\ device \in Status /\ s \in Setting
  BY DEF SwitchTyped, Pushed, Setting, Entity
<1>3. /\ push' \in Seq(Report) /\ DOMAIN push = 1 .. Len(push) /\ DOMAIN push' = 1 .. Len(push) + 1
      /\ Len(push) \in Nat /\ push'[Len(push) + 1] = e
      /\ \A i \in 1 .. Len(push) : push'[i] = push[i]
  BY <1>1, <1>2
<1> HIDE DEF e
<1>4. \A i \in DOMAIN push : push[i].of \in Setting
  BY <1>2, EventsOf DEF Pushed, Setting, Entity
<1>5. LastIsTrue'
  <2> SUFFICES ASSUME NEW i \in DOMAIN push', \A j \in DOMAIN push' : j > i => push'[j].of # push'[i].of
               PROVE  push'[i].value = Word(device'[push'[i].of])
    BY DEF LastIsTrue
  <2>1. CASE i = Len(push) + 1
    BY <1>1, <1>2, <1>3, <2>1 DEF Status
  <2>2. CASE i # Len(push) + 1
    <3>1. i \in DOMAIN push /\ push'[i] = push[i] /\ push[i].of # s
      BY <1>1, <1>3, <2>2
    <3>2. push[i].value = Word(device[push[i].of])
      BY <1>3, <3>1 DEF LastIsTrue
    <3> QED
      BY <1>2, <1>4, <3>1, <3>2 DEF Status
  <2> QED
    BY <2>1, <2>2
<1>6. \A i \in DOMAIN push' : push'[i].of \in fitted \cup {s}
  BY <1>1, <1>3 DEF SwitchTyped
<1> QED
  BY <1>1, <1>3, <1>5, <1>6

\* A change of what no event is about.
LEMMA LastKept ==
  ASSUME SwitchTyped, LastIsTrue, push' = push, \A t \in Pushed : device'[t] = device[t]
  PROVE  LastIsTrue'
<1>1. \A i \in DOMAIN push : push[i].of \in Pushed
  BY EventsOf DEF SwitchTyped
<1> QED
  BY <1>1 DEF LastIsTrue

\* The first event goes.
LEMMA LastTail ==
  ASSUME SwitchTyped, LastIsTrue, push # <<>>, push' = Tail(push), device' = device
  PROVE  /\ push' \in Seq(Report) /\ LastIsTrue' /\ Head(push) \in Report
         /\ \A t : (\E i \in DOMAIN push : push[i].of = t) /\ t # Head(push).of
                       => \E i \in DOMAIN push' : push'[i].of = t
         /\ \/ \E i \in DOMAIN push' : push'[i].of = Head(push).of
            \/ Head(push).value = Word(device[Head(push).of])
         /\ \A i \in DOMAIN push' : push'[i].of \in fitted
         /\ Head(push).of \in fitted \cap Pushed
<1>1. push \in Seq(Report)
  BY DEF SwitchTyped
<1>2. /\ push' \in Seq(Report) /\ DOMAIN push = 1 .. Len(push) /\ DOMAIN push' = 1 .. Len(push) - 1
      /\ Len(push) \in Nat \ {0} /\ \A i \in 1 .. Len(push) - 1 : push'[i] = push[i + 1]
      /\ Head(push) = push[1] /\ push[1] \in Report
  BY <1>1
<1>3. LastIsTrue'
  <2> SUFFICES ASSUME NEW i \in DOMAIN push', \A j \in DOMAIN push' : j > i => push'[j].of # push'[i].of
               PROVE  push'[i].value = Word(device'[push'[i].of])
    BY DEF LastIsTrue
  <2>1. i + 1 \in DOMAIN push /\ push'[i] = push[i + 1]
    BY <1>2
  <2>2. \A j \in DOMAIN push : j > i + 1 => push[j].of # push[i + 1].of
    <3> SUFFICES ASSUME NEW j \in DOMAIN push, j > i + 1 PROVE push[j].of # push[i + 1].of
      OBVIOUS
    <3>1. j - 1 \in DOMAIN push' /\ j - 1 > i /\ push'[j - 1] = push[j]
      BY <1>2
    <3> QED
      BY <2>1, <3>1
  <2> QED
    BY <2>1, <2>2 DEF LastIsTrue
<1>4. ASSUME NEW t, NEW i \in DOMAIN push, push[i].of = t, t # Head(push).of
      PROVE  \E k \in DOMAIN push' : push'[k].of = t
  <2>1. i - 1 \in DOMAIN push' /\ push'[i - 1] = push[i]
    BY <1>2, <1>4
  <2> QED
    BY <1>4, <2>1
<1>5. \/ \E i \in DOMAIN push' : push'[i].of = Head(push).of
      \/ Head(push).value = Word(device[Head(push).of])
  <2> SUFFICES ASSUME \A i \in DOMAIN push' : push'[i].of # Head(push).of
               PROVE  push[1].value = Word(device[push[1].of])
    BY <1>2
  <2>1. \A j \in DOMAIN push : j > 1 => push[j].of # push[1].of
    <3> SUFFICES ASSUME NEW j \in DOMAIN push, j > 1 PROVE push[j].of # push[1].of
      OBVIOUS
    <3>1. j - 1 \in DOMAIN push' /\ push'[j - 1] = push[j]
      BY <1>2
    <3> QED
      BY <1>2, <3>1
  <2> QED
    BY <1>2, <2>1 DEF LastIsTrue
<1>6. (\A i \in DOMAIN push' : push'[i].of \in fitted) /\ Head(push).of \in fitted
  BY <1>2 DEF SwitchTyped
<1>7. Head(push).of \in Pushed
  BY <1>2 DEF Report
<1> QED
  BY <1>2, <1>3, <1>4, <1>5, <1>6, <1>7

\* What a step about one request has to show of an entity without an excuse.
AnswerFits(s, p) ==
    s \in Awaiting(op'[p]) /\ op'[p].ack = "ok" => Reading(s, op'[p].snap) = Reading(s, device)
StillShows(s, p) ==
    avail'[s] =>
        \/ display'[s] = Reading(s, device) /\ (s = "forward" => store'[s] = Reading(s, device))
        \/ /\ avail[s] /\ display'[s] = display[s] /\ (s = "forward" => store'[s] = store[s])
           /\ s \in Covers(op[p]) => s \in Covers(op'[p])

\* A step about one request, which leaves the device and the events alone.
RequestStep(p) ==
    /\ \A q \in Platform : q # p => op'[q] = op[q]
    /\ op' \in [Platform -> Request]
    /\ UNCHANGED <<fitted, device, push, entities>>

LEMMA OneRequestKeeps ==
  ASSUME SwitchInv, NEW p \in Platform, RequestStep(p), NEW new, Excuse(new),
         display' \in [Entity -> {"none", "on", "off"}], avail' \in [Entity -> BOOLEAN],
         store' \in [Pushed -> {"none", "on", "off"}],
         \A s \in Entity \ fitted : display'[s] = display[s],
         RequestWell(p, op'[p]),
         \A s \in fitted : s \notin excuse /\ s \notin new /\ Answers(s) => AnswerFits(s, p) /\ StillShows(s, p)
  PROVE  SwitchInv'
<1>0. /\ SwitchTyped /\ LastIsTrue /\ \A s \in fitted : Settled(s)
      /\ op \in [Platform -> Request]
  BY DEF SwitchInv, SwitchTyped
<1>1. \A q \in Platform : RequestWell(q, op[q])'
  <2> SUFFICES ASSUME NEW q \in Platform PROVE RequestWell(q, op[q])'
    OBVIOUS
  <2>1. CASE q = p
    BY <2>1 DEF RequestWell, RequestStep
  <2>2. CASE q # p
    BY <1>0, <2>2 DEF RequestWell, RequestStep, SwitchTyped
  <2> QED
    BY <2>1, <2>2
<1>2. excuse' \subseteq fitted /\ UNCHANGED <<fitted, device, push, entities>>
  BY DEF Excuse, RequestStep
<1>3. SwitchTyped'
  BY <1>0, <1>1, <1>2 DEF SwitchTyped, RequestStep
<1>4. LastIsTrue'
  BY <1>0, <1>2 DEF LastIsTrue
<1>5. ASSUME NEW s \in fitted PROVE Settled(s)'
  <2> SUFFICES ASSUME s \notin excuse, s \notin new, entities # "new"
               PROVE  Answers(s)' /\ Shows(s)'
    BY <1>2, <1>5, Excused DEF Settled
  <2>1. Answers(s) /\ Shows(s)
    BY <1>0, <1>5 DEF Settled
  <2>2. AnswerFits(s, p) /\ StillShows(s, p)
    BY <1>5, <2>1
  <2>3. Answers(s)'
    <3> SUFFICES ASSUME NEW q \in Platform, s \in Awaiting(op'[q]), op'[q].ack = "ok"
                 PROVE  Reading(s, op'[q].snap) = Reading(s, device)
      BY <1>2 DEF Answers
    <3>1. CASE q = p
      BY <2>2, <3>1 DEF AnswerFits
    <3>2. CASE q # p
      BY <2>1, <3>2 DEF Answers, RequestStep
    <3> QED
      BY <3>1, <3>2
  <2>4. Shows(s)'
    <3> SUFFICES ASSUME avail'[s], ~Right(s)'
                 PROVE  Pending(s)' \/ \E q \in Platform : s \in Covers(op'[q])
      BY DEF Shows
    <3>1. /\ avail[s] /\ display'[s] = display[s] /\ (s = "forward" => store'[s] = store[s])
          /\ s \in Covers(op[p]) => s \in Covers(op'[p])
      BY <1>2, <2>2 DEF StillShows, Right
    <3>2. ~Right(s)
      BY <1>2, <3>1 DEF Right
    <3>3. CASE Pending(s)
      BY <1>2, <3>3 DEF Pending
    <3>4. CASE \E q \in Platform : s \in Covers(op[q])
      <4>1. PICK q \in Platform : s \in Covers(op[q])
        BY <3>4
      <4>2. CASE q = p
        BY <3>1, <4>1, <4>2
      <4>3. CASE q # p
        BY <4>1, <4>3 DEF RequestStep
      <4> QED
        BY <4>2, <4>3
    <3> QED
      BY <2>1, <3>1, <3>2, <3>3, <3>4 DEF Shows
  <2> QED
    BY <2>3, <2>4
<1> QED
  BY <1>3, <1>4, <1>5, <1>2 DEF SwitchInv

LEMMA RefusedKeeps == ASSUME SwitchInv, NEW p \in Platform, Refused(p) PROVE SwitchInv'
<1>0. SwitchTyped /\ op[p] \in Request /\ RequestWell(p, op[p])
  BY DEF SwitchInv, SwitchTyped
<1>1. /\ op' = [op EXCEPT ![p].ack = "failed"] /\ Excuse({}) /\ Asked(op[p])
      /\ UNCHANGED <<fitted, device, display, avail, push, store, entities>>
  BY DEF Refused
<1>2. /\ op'[p] \in Request /\ op'[p].of = op[p].of /\ op'[p].step = op[p].step /\ op'[p].ack = "failed"
      /\ op'[p].want = op[p].want
  BY <1>0, <1>1 DEF SwitchTyped, Request
<1>3. RequestStep(p) /\ RequestWell(p, op'[p])
  BY <1>0, <1>1, <1>2 DEF SwitchTyped, RequestStep, RequestWell, Asked
<1>4. Covers(op[p]) \subseteq Covers(op'[p])
  BY <1>1, <1>2 DEF Covers, Asked
<1>5. ASSUME NEW s \in fitted PROVE AnswerFits(s, p) /\ StillShows(s, p)
  BY <1>1, <1>2, <1>4 DEF AnswerFits, StillShows
<1> QED
  BY <1>0, <1>1, <1>3, <1>5, OneRequestKeeps DEF SwitchTyped

LEMMA StartKeeps ==
  ASSUME SwitchInv, NEW s0 \in Entity, NEW want \in {"on", "off", "read"}, Start(s0, want)
  PROVE  SwitchInv'
<1> DEFINE p == PlatformOf(s0)
           r == [Free EXCEPT !.of = s0, !.want = want,
                             !.step = IF s0 = "firewall" /\ want = "on" THEN "enable" ELSE "sent"]
<1>0. SwitchTyped /\ p \in Platform /\ \A s \in fitted : Settled(s)
  BY DEF SwitchInv, PlatformOf
<1>1. /\ op' = [op EXCEPT ![p] = r] /\ op[p] = Free /\ entities = "live" /\ s0 \in fitted
      /\ UNCHANGED <<fitted, device, display, avail, push, store, entities, excuse>>
  BY DEF Start
<1>2. /\ r \in Request /\ r.of = s0 /\ r.want = want /\ r.ack = "none"
      /\ r.step = IF s0 = "firewall" /\ want = "on" THEN "enable" ELSE "sent"
  BY DEF Free, Request, Status
<1>3. Covers(op[p]) = {} /\ s0 # "none"
  <2>1. Free.of = "none" /\ Free.ack = "none"
    BY DEF Free
  <2> QED
    BY <1>0, <1>1, <2>1, FittedShape DEF Covers, SwitchTyped
<1> HIDE DEF r
<1>4. op'[p] = r /\ (\A q \in Platform : q # p => op'[q] = op[q]) /\ op' \in [Platform -> Request]
  BY <1>0, <1>1, <1>2 DEF SwitchTyped
<1>5. RequestWell(p, r)
  BY <1>1, <1>2, <1>3 DEF RequestWell
<1> HIDE DEF p
<1>6. \A q \in Platform : RequestWell(q, op[q])'
  BY <1>0, <1>1, <1>4, <1>5 DEF SwitchTyped, RequestWell
<1>7. SwitchTyped' /\ LastIsTrue'
  BY <1>1, <1>4, <1>6 DEF SwitchInv, SwitchTyped, LastIsTrue
<1>8. ASSUME NEW s \in fitted, s \notin excuse PROVE Settled(s)'
  <2>1. Answers(s) /\ Shows(s)
    BY <1>0, <1>1, <1>8 DEF Settled
  <2>2. Answers(s)'
    BY <1>1, <1>2, <1>4, <2>1 DEF Answers
  <2>3. Shows(s)'
    BY <1>1, <1>3, <1>4, <2>1 DEF Shows, Right, Pending
  <2> QED
    BY <2>2, <2>3 DEF Settled
<1> QED
  BY <1>1, <1>7, <1>8 DEF SwitchInv, Settled

LEMMA CommandFailsKeeps == ASSUME SwitchInv, NEW p \in Platform, CommandFails(p) PROVE SwitchInv'
<1> DEFINE o == op[p]
<1>0. SwitchTyped /\ o \in Request /\ RequestWell(p, o)
  BY DEF SwitchInv, SwitchTyped
<1>1. /\ o.ack = "failed" /\ o.want # "read" /\ Excuse({o.of})
      /\ UNCHANGED <<fitted, device, display, avail, push, store, entities>>
      /\ op' = [op EXCEPT ![p] = IF o.of = "volume"
                                 THEN [@ EXCEPT !.step = "sent", !.ack = "none", !.want = "read"]
                                 ELSE Free]
  BY DEF CommandFails
<1>2. /\ op'[p] \in Request /\ op'[p].ack = "none"
      /\ \/ op'[p].of = o.of /\ op'[p].step = "sent" /\ op'[p].want = "read" /\ o.of = "volume"
         \/ op'[p].of = "none" /\ op'[p].step = "free"
  <2>1. CASE o.of = "volume"
    BY <1>0, <1>1, <2>1 DEF SwitchTyped, Request
  <2>2. CASE o.of # "volume"
    BY <1>0, <1>1, <2>2 DEF SwitchTyped, Request, Free, Status
  <2> QED
    BY <2>1, <2>2
<1>3. o.of # "none" /\ \A s : s # o.of => s \notin Covers(o)
  BY <1>0, <1>1 DEF RequestWell, Covers
<1>4. RequestStep(p)
  <2>1. (\A q \in Platform : q # p => op'[q] = op[q]) /\ op' \in [Platform -> Request]
    BY <1>0, <1>1, <1>2 DEF SwitchTyped
  <2> QED
    BY <1>1, <2>1 DEF RequestStep
<1>5. RequestWell(p, op'[p])
  BY <1>0, <1>2, <1>3 DEF RequestWell
<1>6. ASSUME NEW s \in fitted, s \notin {o.of} PROVE AnswerFits(s, p) /\ StillShows(s, p)
  BY <1>1, <1>2, <1>3, <1>6 DEF AnswerFits, StillShows
<1> HIDE DEF o
<1> QED
  BY <1>0, <1>1, <1>4, <1>5, <1>6, OneRequestKeeps DEF SwitchTyped

LEMMA ReadFailsKeeps == ASSUME SwitchInv, NEW p \in Platform, ReadFails(p) PROVE SwitchInv'
<1> DEFINE o == op[p]
<1>0. SwitchTyped /\ o \in Request /\ RequestWell(p, o)
  BY DEF SwitchInv, SwitchTyped
<1>1. o.ack = "failed" /\ o.want = "read" /\ Excuse({}) /\ UNCHANGED <<fitted, device, push, store, entities>>
  BY DEF ReadFails
<1>2. o.of \in fitted /\ o.of \in Entity /\ Covers(o) = {}
  BY <1>0, <1>1, FittedShape DEF RequestWell, Covers, SwitchTyped
<1>3. CASE o.of = "firewall" /\ o.step = "sent"
  <2>1. op' = [op EXCEPT ![p].step = "fallback", ![p].ack = "none"] /\ UNCHANGED <<display, avail>>
    BY <1>3 DEF ReadFails
  <2>2. /\ op'[p] \in Request /\ op'[p].of = o.of /\ op'[p].step = "fallback" /\ op'[p].ack = "none"
        /\ op'[p].want = o.want
    BY <1>0, <2>1 DEF SwitchTyped, Request
  <2>3. RequestStep(p)
    BY <1>0, <1>1, <2>1, <2>2 DEF SwitchTyped, RequestStep
  <2>4. RequestWell(p, op'[p])
    BY <1>0, <1>1, <1>3, <2>2 DEF RequestWell
  <2>5. ASSUME NEW s \in fitted PROVE AnswerFits(s, p) /\ StillShows(s, p)
    BY <1>1, <1>2, <2>1, <2>2 DEF AnswerFits, StillShows
  <2> QED
    BY <1>0, <1>1, <2>1, <2>3, <2>4, <2>5, OneRequestKeeps DEF SwitchTyped
<1>4. CASE ~(o.of = "firewall" /\ o.step = "sent")
  <2>1. /\ op' = [op EXCEPT ![p] = Free] /\ avail' = [avail EXCEPT ![o.of] = FALSE]
        /\ display' = display \/ display' = [display EXCEPT ![o.of] = "off"]
    BY <1>4 DEF ReadFails
  <2>2. op'[p] \in Request /\ op'[p].of = "none" /\ op'[p].step = "free" /\ op'[p].ack = "none"
    BY <1>0, <2>1 DEF SwitchTyped, Request, Free, Status
  <2>3. RequestStep(p)
    <3>1. (\A q \in Platform : q # p => op'[q] = op[q]) /\ op' \in [Platform -> Request]
      BY <1>0, <2>1, <2>2 DEF SwitchTyped
    <3> QED
      BY <1>1, <3>1 DEF RequestStep
  <2>4. RequestWell(p, op'[p])
    BY <2>2 DEF RequestWell
  <2>5. /\ display' \in [Entity -> {"none", "on", "off"}] /\ avail' \in [Entity -> BOOLEAN]
        /\ \A s \in Entity : s # o.of => display'[s] = display[s] /\ avail'[s] = avail[s]
        /\ ~avail'[o.of]
    BY <1>0, <1>2, <2>1 DEF SwitchTyped
  <2>6. ASSUME NEW s \in fitted PROVE AnswerFits(s, p) /\ StillShows(s, p)
    <3>1. s \in Entity
      BY <1>0, FittedShape DEF SwitchTyped
    <3> QED
      BY <1>1, <1>2, <2>2, <2>5, <3>1 DEF AnswerFits, StillShows
  <2>7. \A s \in Entity \ fitted : display'[s] = display[s]
    BY <1>2, <2>5
  <2> HIDE DEF o
  <2> QED
    BY <1>0, <1>1, <2>3, <2>4, <2>5, <2>6, <2>7, OneRequestKeeps DEF SwitchTyped
<1> QED
  BY <1>3, <1>4

\* A status that is applied to some entities: what is shown of them fits it.
LEMMA AppliedShows ==
  ASSUME SwitchTyped, NEW those \in SUBSET Entity, NEW d \in Status, Applied(those, d)
  PROVE  /\ display' \in [Entity -> {"none", "on", "off"}] /\ avail' \in [Entity -> BOOLEAN]
         /\ \A s \in Entity \ fitted : display'[s] = display[s]
         /\ \A s \in fitted \cap those : display'[s] = Reading(s, d)
         /\ \A s \in fitted \ those : display'[s] = display[s] /\ avail'[s] = avail[s]
<1>1. fitted \subseteq Entity /\ \A s \in Entity : Reading(s, d) \in {"on", "off"}
  BY FittedShape, ReadingIsWord DEF SwitchTyped
<1>2. display' \in [Entity -> {"none", "on", "off"}]
  BY <1>1 DEF Applied, SwitchTyped
<1>3. avail' \in [Entity -> BOOLEAN]
  <2>1. \A s \in Entity : (s \in those \cap fitted \/ avail[s]) \in BOOLEAN
    OBVIOUS
  <2> QED
    BY <2>1 DEF Applied
<1>4. \A s \in fitted \ those : avail'[s] = avail[s]
  BY <1>1 DEF Applied, SwitchTyped
<1> QED
  BY <1>1, <1>2, <1>3, <1>4 DEF Applied

LEMMA EnableAnsweredKeeps == ASSUME SwitchInv, NEW p \in Platform, EnableAnswered(p) PROVE SwitchInv'
<1> DEFINE o == op[p]
<1>0. SwitchTyped /\ o \in Request /\ RequestWell(p, o) /\ o.snap \in Status
  BY DEF SwitchInv, SwitchTyped, Request
<1>1. /\ o.step = "enable" /\ o.ack = "ok" /\ Applied(Auth, o.snap) /\ Excuse({})
      /\ op' = [op EXCEPT ![p].step = "sent", ![p].ack = "none"]
      /\ UNCHANGED <<fitted, device, push, store, entities>>
  BY DEF EnableAnswered
<1>2. /\ op'[p] \in Request /\ op'[p].of = o.of /\ op'[p].step = "sent" /\ op'[p].ack = "none"
      /\ op'[p].want = o.want
  BY <1>0, <1>1 DEF SwitchTyped, Request
<1>3. o.of = "firewall" /\ o.want = "on"
  BY <1>0, <1>1 DEF RequestWell
<1>4. RequestStep(p)
  BY <1>0, <1>1, <1>2 DEF SwitchTyped, RequestStep
<1>5. RequestWell(p, op'[p])
  BY <1>0, <1>2, <1>3 DEF RequestWell
<1>6. Awaiting(o) = Auth \cup {"firewall"} /\ Auth \subseteq Entity /\ "forward" \notin Auth
  <2>1. Awaiting(o) = Auth \cup {o.of}
    <3>1. o.of \in Auth \cup {"firewall"} /\ o.of \notin Bridges
      BY <1>3 DEF Bridges
    <3> QED
      BY <3>1 DEF Awaiting
  <2> QED
    BY <1>3, <2>1 DEF Auth, Entity
<1>7. Covers(o) = {"firewall"} \cup Auth /\ Covers(op'[p]) = {"firewall"}
  BY <1>1, <1>2, <1>3 DEF Covers
<1> HIDE DEF o
<1>8. ASSUME NEW s \in fitted, Answers(s) PROVE AnswerFits(s, p) /\ StillShows(s, p)
  <2>1. AnswerFits(s, p)
    BY <1>2 DEF AnswerFits
  <2>2. CASE s \in Auth
    <3>1. display'[s] = Reading(s, o.snap)
      <4>1. Auth \in SUBSET Entity /\ o.snap \in Status /\ Applied(Auth, o.snap)
        BY <1>0, <1>1, <1>6
      <4>2. \A t \in fitted \cap Auth : display'[t] = Reading(t, o.snap)
        BY <1>0, <4>1, AppliedShows
      <4> QED
        BY <1>8, <2>2, <4>2
    <3>2. Reading(s, o.snap) = Reading(s, device) /\ s # "forward"
      BY <1>1, <1>6, <1>8, <2>2 DEF Answers, o
    <3> QED
      BY <2>1, <3>1, <3>2 DEF StillShows
  <2>3. CASE s \notin Auth
    BY <1>0, <1>1, <1>6, <1>7, <2>1, <2>3, AppliedShows DEF StillShows, o
  <2> QED
    BY <2>2, <2>3, <2>1
<1>9. /\ display' \in [Entity -> {"none", "on", "off"}] /\ avail' \in [Entity -> BOOLEAN]
      /\ \A s \in Entity \ fitted : display'[s] = display[s]
  BY <1>0, <1>1, <1>6, AppliedShows
<1> QED
  BY <1>0, <1>1, <1>4, <1>5, <1>8, <1>9, OneRequestKeeps DEF SwitchTyped

LEMMA AnsweredKeeps == ASSUME SwitchInv, NEW p \in Platform, Answered(p) PROVE SwitchInv'
<1> DEFINE o == op[p]
           those == Hearers(o.of, o.want)
           more == o.of \in Bridges /\ o.want # "read"
<1>0. SwitchTyped /\ o \in Request /\ RequestWell(p, o) /\ o.snap \in Status
  BY DEF SwitchInv, SwitchTyped, Request
<1>1. /\ o.step = "sent" /\ o.ack = "ok" /\ Applied(those, o.snap) /\ Excuse({})
      /\ store' = IF o.of = "forward" THEN [store EXCEPT !["forward"] = Reading("forward", o.snap)]
                  ELSE store
      /\ op' = [op EXCEPT ![p] = IF more THEN [@ EXCEPT !.step = "diagnose"] ELSE Free]
      /\ UNCHANGED <<fitted, device, push, entities>>
  BY DEF Answered
<1>2. o.of \in fitted /\ o.of \in Entity /\ o.of # "none"
  BY <1>0, <1>1, FittedShape DEF RequestWell, SwitchTyped
<1>3. those \subseteq Entity /\ those \subseteq Awaiting(o) /\ o.of \in those
      /\ ("forward" \in those <=> o.of = "forward")
  <2>1. CASE o.of \in Auth
    <3>1. Awaiting(o) = Auth \cup {o.of} /\ those \in {Auth, {o.of}}
      <4>1. o.of \in Auth \cup {"firewall"} /\ o.of \notin Bridges
        BY <2>1 DEF Auth, Bridges
      <4>2. Awaiting(o) = Auth \cup {o.of}
        BY <4>1 DEF Awaiting
      <4> QED
        BY <2>1, <4>2 DEF Hearers
    <3>2. o.of \in those /\ those \subseteq Auth
      BY <2>1, <3>1
    <3>3. "forward" \notin Auth /\ Auth \subseteq Entity
      BY DEF Auth, Entity
    <3> QED
      BY <2>1, <3>1, <3>2, <3>3
  <2>2. CASE o.of \notin Auth
    <3>1. those = {o.of}
      BY <2>2 DEF Hearers
    <3>2. o.of \in Awaiting(o)
      BY <2>2 DEF Awaiting
    <3> QED
      BY <1>2, <3>1, <3>2
  <2> QED
    BY <2>1, <2>2
<1>4. /\ op'[p] \in Request
      /\ more => /\ op'[p].of = o.of /\ op'[p].step = "diagnose" /\ op'[p].ack = "ok"
                 /\ op'[p].want = o.want /\ op'[p].snap = o.snap
      /\ ~more => op'[p].of = "none" /\ op'[p].step = "free" /\ op'[p].ack = "none"
  <2>1. CASE more
    BY <1>0, <1>1, <2>1 DEF SwitchTyped, Request
  <2>2. CASE ~more
    BY <1>0, <1>1, <2>2 DEF SwitchTyped, Request, Free, Status
  <2> QED
    BY <2>1, <2>2
<1>5. RequestWell(p, op'[p])
  <2>1. CASE more
    <3>1. /\ op'[p].of = o.of /\ op'[p].step = "diagnose" /\ op'[p].ack = "ok" /\ op'[p].want = o.want
          /\ o.of \in Bridges /\ o.want # "read"
      BY <1>4, <2>1
    <3> QED
      BY <1>0, <1>2, <3>1 DEF RequestWell
  <2>2. CASE ~more
    <3>1. op'[p].of = "none" /\ op'[p].step = "free" /\ op'[p].ack = "none"
      BY <1>4, <2>2
    <3> QED
      BY <3>1 DEF RequestWell
  <2> QED
    BY <2>1, <2>2
<1>6. RequestStep(p)
  <2>1. (\A q \in Platform : q # p => op'[q] = op[q]) /\ op' \in [Platform -> Request]
    BY <1>0, <1>1, <1>4 DEF SwitchTyped
  <2> QED
    BY <1>1, <2>1 DEF RequestStep
<1>7. /\ display' \in [Entity -> {"none", "on", "off"}] /\ avail' \in [Entity -> BOOLEAN]
      /\ \A s \in Entity \ fitted : display'[s] = display[s]
      /\ \A s \in fitted \cap those : display'[s] = Reading(s, o.snap)
      /\ \A s \in fitted \ those : display'[s] = display[s] /\ avail'[s] = avail[s]
  <2>1. those \in SUBSET Entity /\ o.snap \in Status /\ Applied(those, o.snap)
    BY <1>0, <1>1, <1>3
  <2> HIDE DEF those, o
  <2> QED
    BY <1>0, <2>1, AppliedShows
<1>8. store' \in [Pushed -> {"none", "on", "off"}]
  <2>1. Reading("forward", o.snap) \in {"on", "off"}
    BY <1>0, ReadingIsWord DEF Entity, Pushed
  <2> QED
    BY <1>0, <1>1, <2>1 DEF SwitchTyped
<1>9. more => Awaiting(op'[p]) = Awaiting(o) /\ Covers(op'[p]) = Bridges
  BY <1>4 DEF Awaiting, Covers, Bridges
<1>10. \A s : s \in Covers(o) => s \in those \/ (more /\ s \in Bridges)
  BY <1>1 DEF Covers, Hearers, Auth
<1>11. ASSUME NEW s \in fitted, Answers(s) PROVE AnswerFits(s, p)
  <2>1. CASE more
    BY <1>1, <1>4, <1>9, <1>11, <2>1 DEF AnswerFits, Answers
  <2>2. CASE ~more
    BY <1>4, <2>2 DEF AnswerFits
  <2> QED
    BY <2>1, <2>2
<1>12. ASSUME NEW s \in fitted, Answers(s) PROVE StillShows(s, p)
  <2>1. CASE s \in those
    <3>1. display'[s] = Reading(s, o.snap) /\ Reading(s, o.snap) = Reading(s, device)
      BY <1>1, <1>3, <1>7, <1>12, <2>1 DEF Answers
    <3>2. s = "forward" => store'[s] = Reading(s, o.snap)
      BY <1>0, <1>1, <1>3, <2>1 DEF SwitchTyped, Pushed
    <3> QED
      BY <3>1, <3>2 DEF StillShows
  <2>2. CASE s \notin those
    <3>1. display'[s] = display[s] /\ avail'[s] = avail[s]
      BY <1>7, <1>12, <2>2
    <3>2. s = "forward" => store'[s] = store[s]
      BY <1>1, <1>3, <2>2
    <3>3. s \in Covers(o) => s \in Covers(op'[p])
      BY <1>9, <1>10, <2>2
    <3> QED
      BY <3>1, <3>2, <3>3 DEF StillShows
  <2> QED
    BY <2>1, <2>2
<1> HIDE DEF o, those, more
<1> QED
  BY <1>1, <1>5, <1>6, <1>7, <1>8, <1>11, <1>12, OneRequestKeeps

LEMMA DispatchedKeeps == ASSUME SwitchInv, NEW p \in Platform, Dispatched(p) PROVE SwitchInv'
<1> DEFINE o == op[p]
<1>0. SwitchTyped /\ o \in Request /\ RequestWell(p, o) /\ o.snap \in Status /\ fitted \subseteq Entity
  BY FittedShape DEF SwitchInv, SwitchTyped, Request
<1>1. /\ o.step = "diagnose" /\ Excuse({})
      /\ display' = [s \in Entity |-> IF s \in Bridges \cap fitted THEN Reading(s, o.snap) ELSE display[s]]
      /\ op' = [op EXCEPT ![p] = Free]
      /\ UNCHANGED <<fitted, device, avail, push, store, entities>>
  BY DEF Dispatched
<1>2. o.of \in Bridges /\ o.ack = "ok" /\ o.want # "read"
  BY <1>0, <1>1 DEF RequestWell
<1>3. op'[p] \in Request /\ op'[p].of = "none" /\ op'[p].step = "free" /\ op'[p].ack = "none"
  BY <1>0, <1>1 DEF SwitchTyped, Request, Free, Status
<1>4. RequestStep(p)
  <2>1. (\A q \in Platform : q # p => op'[q] = op[q]) /\ op' \in [Platform -> Request]
    BY <1>0, <1>1, <1>3 DEF SwitchTyped
  <2> QED
    BY <1>1, <2>1 DEF RequestStep
<1>5. RequestWell(p, op'[p])
  BY <1>3 DEF RequestWell
<1>6. display' \in [Entity -> {"none", "on", "off"}]
  BY <1>0, <1>1, ReadingIsWord DEF SwitchTyped
<1>7. Awaiting(o) = Bridges /\ Covers(o) = Bridges /\ "forward" \notin Bridges
  BY <1>2 DEF Awaiting, Covers, Auth, Bridges
<1>8. ASSUME NEW s \in fitted, Answers(s) PROVE AnswerFits(s, p) /\ StillShows(s, p)
  <2>1. AnswerFits(s, p)
    BY <1>3 DEF AnswerFits
  <2>2. CASE s \in Bridges
    <3>1. display'[s] = Reading(s, o.snap) /\ Reading(s, o.snap) = Reading(s, device)
      BY <1>0, <1>1, <1>2, <1>7, <1>8, <2>2 DEF Answers
    <3> QED
      BY <1>7, <2>1, <2>2, <3>1 DEF StillShows
  <2>3. CASE s \notin Bridges
    BY <1>0, <1>1, <1>7, <2>1, <2>3 DEF StillShows
  <2> QED
    BY <2>2, <2>3
<1>9. \A s \in Entity \ fitted : display'[s] = display[s]
  BY <1>1
<1> HIDE DEF o
<1> QED
  BY <1>0, <1>1, <1>4, <1>5, <1>6, <1>8, <1>9, OneRequestKeeps DEF SwitchTyped

LEMMA FallbackAnsweredKeeps == ASSUME SwitchInv, NEW p \in Platform, FallbackAnswered(p) PROVE SwitchInv'
<1> DEFINE o == op[p]
<1>0. SwitchTyped /\ o \in Request /\ RequestWell(p, o) /\ o.snap \in Status /\ fitted \subseteq Entity
  BY FittedShape DEF SwitchInv, SwitchTyped, Request
<1>1. /\ o.step = "fallback" /\ o.ack = "ok" /\ Excuse({})
      /\ op' = [op EXCEPT ![p] = Free]
      /\ UNCHANGED <<fitted, device, push, store, entities>>
  BY DEF FallbackAnswered
<1>2. o.of = "firewall" /\ o.want = "read"
  BY <1>0, <1>1 DEF RequestWell
<1>3. op'[p] \in Request /\ op'[p].of = "none" /\ op'[p].step = "free" /\ op'[p].ack = "none"
  BY <1>0, <1>1 DEF SwitchTyped, Request, Free, Status
<1>4. RequestStep(p)
  <2>1. (\A q \in Platform : q # p => op'[q] = op[q]) /\ op' \in [Platform -> Request]
    BY <1>0, <1>1, <1>3 DEF SwitchTyped
  <2> QED
    BY <1>1, <2>1 DEF RequestStep
<1>5. RequestWell(p, op'[p])
  BY <1>3 DEF RequestWell
<1>6. /\ Awaiting(o) = Auth \cup {"firewall"} /\ Covers(o) = Auth \cup {"firewall"}
      /\ Auth \cup {"firewall"} \subseteq Entity /\ "forward" \notin Auth \cup {"firewall"}
  <2>1. Awaiting(o) = Auth \cup {o.of}
    <3>1. o.of \in Auth \cup {"firewall"} /\ o.of \notin Bridges
      BY <1>2 DEF Bridges
    <3> QED
      BY <3>1 DEF Awaiting
  <2>2. Covers(o) = Auth \cup {"firewall"}
    BY <1>1, <1>2 DEF Covers, Bridges
  <2> QED
    BY <1>2, <2>1, <2>2 DEF Auth, Entity
<1>7. /\ display' \in [Entity -> {"none", "on", "off"}] /\ avail' \in [Entity -> BOOLEAN]
      /\ \A s \in Entity \ fitted : display'[s] = display[s]
      /\ \A s \in fitted \cap (Auth \cup {"firewall"}) : avail'[s] => display'[s] = Reading(s, o.snap)
      /\ \A s \in fitted \ (Auth \cup {"firewall"}) : display'[s] = display[s] /\ avail'[s] = avail[s]
  <2>1. CASE o.snap["endpoint"]
    <3>1. /\ display' = [s \in Entity |-> IF s \in Auth THEN Reading(s, o.snap) ELSE display[s]]
          /\ avail' = [s \in Entity |-> (avail[s] \/ s \in Auth) /\ s # "firewall"]
      BY <2>1 DEF FallbackAnswered
    <3>2. Auth \subseteq fitted
      BY <1>0, <1>1, <1>2 DEF RequestWell, SwitchTyped, Kits, Bridges, Auth
    <3>3. display' \in [Entity -> {"none", "on", "off"}]
      BY <1>0, <3>1, ReadingIsWord DEF SwitchTyped
    <3>4. avail' \in [Entity -> BOOLEAN]
      <4>1. \A s \in Entity : ((avail[s] \/ s \in Auth) /\ s # "firewall") \in BOOLEAN
        OBVIOUS
      <4> QED
        BY <3>1, <4>1
    <3>5. \A s \in fitted \ (Auth \cup {"firewall"}) : avail'[s] = avail[s]
      BY <1>0, <3>1 DEF SwitchTyped
    <3> QED
      BY <1>0, <3>1, <3>2, <3>3, <3>4, <3>5
  <2>2. CASE ~o.snap["endpoint"]
    <3>1. Applied(Auth \cup {"firewall"}, o.snap)
      BY <2>2 DEF FallbackAnswered
    <3>2. Auth \cup {"firewall"} \in SUBSET Entity
      BY <1>6
    <3> DEFINE those == Auth \cup {"firewall"}
    <3>3. those \in SUBSET Entity /\ Applied(those, o.snap)
      BY <3>1, <3>2
    <3> HIDE DEF o, those
    <3>4. /\ display' \in [Entity -> {"none", "on", "off"}] /\ avail' \in [Entity -> BOOLEAN]
          /\ \A s \in Entity \ fitted : display'[s] = display[s]
          /\ \A s \in fitted \cap those : display'[s] = Reading(s, o.snap)
          /\ \A s \in fitted \ those : display'[s] = display[s] /\ avail'[s] = avail[s]
      BY <1>0, <3>3, AppliedShows
    <3> QED
      BY <3>4 DEF those
  <2> QED
    BY <2>1, <2>2
<1>8. ASSUME NEW s \in fitted, Answers(s) PROVE AnswerFits(s, p) /\ StillShows(s, p)
  <2>1. AnswerFits(s, p)
    BY <1>3 DEF AnswerFits
  <2>2. CASE s \in Auth \cup {"firewall"}
    <3>1. Reading(s, o.snap) = Reading(s, device) /\ s # "forward"
      BY <1>1, <1>6, <1>8, <2>2 DEF Answers
    <3> QED
      BY <1>7, <2>1, <2>2, <3>1 DEF StillShows
  <2>3. CASE s \notin Auth \cup {"firewall"}
    BY <1>1, <1>6, <1>7, <2>1, <2>3 DEF StillShows
  <2> QED
    BY <2>2, <2>3
<1> HIDE DEF o
<1> QED
  BY <1>0, <1>1, <1>4, <1>5, <1>7, <1>8, OneRequestKeeps DEF SwitchTyped
\* What a change of a setting does to the settings that are reported.
LEMMA ChangedPushed ==
  ASSUME NEW s \in Setting, NEW b \in BOOLEAN, NEW d \in Status
  PROVE  /\ s \in Pushed => Changed(s, b, d) = [d EXCEPT ![s] = b]
         /\ \A t \in Pushed : t # s => Changed(s, b, d)[t] = d[t]
         /\ s = "firewall" => \A t \in Entity : t # s => Reading(t, Changed(s, b, d)) = Reading(t, d)
<1>1. CASE s \in {"noAuth", "native", "legacy"}
  BY <1>1 DEF Changed, Status, Setting, Entity, Auth, Bridges, Pushed
<1>2. CASE s \notin {"noAuth", "native", "legacy"}
  <2>1. Changed(s, b, d) = [d EXCEPT ![s] = b]
    BY <1>2 DEF Changed
  <2>2. \A t \in Pushed : t # s => Changed(s, b, d)[t] = d[t]
    BY <2>1 DEF Status, Setting, Entity, Pushed
  <2>3. s = "firewall" => \A t \in Entity : t # s => Reading(t, Changed(s, b, d)) = Reading(t, d)
    BY <2>1 DEF Reading, Status, Setting, Entity, Auth, Bridges, Pushed
  <2> QED
    BY <2>1, <2>2, <2>3
<1> QED
  BY <1>1, <1>2

\* A step of the device or the events: what is shown and asked stays.
LEMMA DeviceStepKeeps ==
  ASSUME SwitchInv, NEW new, Excuse(new),
         UNCHANGED <<fitted, display, avail, op, store, entities>>,
         device' \in Status, push' \in Seq(Report), LastIsTrue',
         \A i \in DOMAIN push' : push'[i].of \in fitted,
         \A s \in fitted : s \notin new /\ entities # "new" =>
            \/ /\ Reading(s, device') = Reading(s, device)
               /\ (\E i \in DOMAIN push : push[i].of = s) => \E i \in DOMAIN push' : push'[i].of = s
            \/ Pending(s)' /\ ~Busy(s, op)
  PROVE  SwitchInv'
<1>0. SwitchTyped /\ \A s \in fitted : Settled(s)
  BY DEF SwitchInv
<1>1. excuse' \subseteq fitted
  BY DEF Excuse
<1>2. \A p \in Platform : RequestWell(p, op[p])'
  BY <1>0 DEF SwitchTyped, RequestWell
<1>3. SwitchTyped'
  BY <1>0, <1>1, <1>2 DEF SwitchTyped
<1>4. ASSUME NEW s \in fitted PROVE Settled(s)'
  <2> SUFFICES ASSUME s \notin excuse, s \notin new, entities # "new"
               PROVE  Answers(s)' /\ Shows(s)'
    BY <1>4, Excused DEF Settled
  <2>1. Answers(s) /\ Shows(s)
    BY <1>0, <1>4 DEF Settled
  <2>2. CASE /\ Reading(s, device') = Reading(s, device)
             /\ (\E i \in DOMAIN push : push[i].of = s) => \E i \in DOMAIN push' : push'[i].of = s
    <3>1. Answers(s)'
      BY <2>1, <2>2 DEF Answers
    <3>2. Shows(s)'
      BY <2>1, <2>2 DEF Shows, Right, Pending
    <3> QED
      BY <3>1, <3>2
  <2>3. CASE Pending(s)' /\ ~Busy(s, op)
    BY <2>3 DEF Answers, Shows, Busy
  <2> QED
    BY <1>4, <2>2, <2>3
<1> QED
  BY <1>3, <1>4 DEF SwitchInv

LEMMA ElsewhereKeeps ==
  ASSUME SwitchInv, NEW s \in Setting, NEW b \in BOOLEAN, Elsewhere(s, b)
  PROVE  SwitchInv'
<1> DEFINE new == {e \in fitted : Reading(e, device') # Reading(e, device)
                              /\ (e \notin Pushed \/ Busy(e, op) \/ entities = "read")}
<1>0. SwitchTyped /\ LastIsTrue /\ device \in Status /\ fitted \subseteq Entity
  BY FittedShape DEF SwitchInv, SwitchTyped
<1>1. /\ UNCHANGED <<fitted, display, avail, op, store, entities>>
      /\ s \in fitted \/ s = "endpoint"
      /\ device' = Changed(s, b, device)
      /\ push' = IF s \in Pushed THEN Append(push, [of |-> s, value |-> Word(b)]) ELSE push
      /\ Excuse(new)
  BY DEF Elsewhere
<1>2. /\ device' \in Status
      /\ s \in Pushed => device' = [device EXCEPT ![s] = b]
      /\ \A t \in Pushed : t # s => device'[t] = device[t]
  BY <1>0, <1>1, ChangedStatus, ChangedPushed
<1>3. /\ push' \in Seq(Report) /\ LastIsTrue' /\ \A i \in DOMAIN push' : push'[i].of \in fitted
      /\ \A t \in Entity : (\E i \in DOMAIN push : push[i].of = t) => \E i \in DOMAIN push' : push'[i].of = t
      /\ s \in Pushed => \E i \in DOMAIN push' : push'[i].of = s
  <2>1. CASE s \in Pushed
    <3>1. s \in fitted
      BY <1>1, <2>1 DEF Pushed
    <3>2. push' = Append(push, [of |-> s, value |-> Word(b)]) /\ device' = [device EXCEPT ![s] = b]
      BY <1>1, <1>2, <2>1
    <3> QED
      BY <1>0, <2>1, <3>1, <3>2, LastAppended
  <2>2. CASE s \notin Pushed
    <3>1. push' = push /\ \A t \in Pushed : device'[t] = device[t]
      BY <1>1, <1>2, <2>2
    <3>2. LastIsTrue'
      BY <1>0, <3>1, LastKept
    <3> QED
      BY <1>0, <2>2, <3>1, <3>2 DEF SwitchTyped
  <2> QED
    BY <2>1, <2>2
<1>4. ASSUME NEW t \in fitted, t \notin new, entities # "new", Reading(t, device') # Reading(t, device)
      PROVE  Pending(t)' /\ ~Busy(t, op)
  <2>1. t \in Pushed /\ ~Busy(t, op) /\ entities # "read"
    BY <1>4
  <2>2. entities' = "live"
    BY <1>0, <1>1, <1>4, <2>1 DEF SwitchTyped
  <2>3. t = s
    <3> SUFFICES ASSUME t # s PROVE FALSE
      OBVIOUS
    <3>1. device'[t] = device[t]
      BY <1>2, <2>1
    <3>2. Reading(t, device') = Word(device'[t]) /\ Reading(t, device) = Word(device[t])
      BY <1>0, <1>2, <2>1, ReadingIsWord
    <3> QED
      BY <1>4, <3>1, <3>2
  <2> QED
    BY <1>3, <2>1, <2>2, <2>3 DEF Pending
<1>5. \A t \in fitted : t \notin new /\ entities # "new" =>
            \/ /\ Reading(t, device') = Reading(t, device)
               /\ (\E i \in DOMAIN push : push[i].of = t) => \E i \in DOMAIN push' : push'[i].of = t
            \/ Pending(t)' /\ ~Busy(t, op)
  BY <1>0, <1>3, <1>4
<1> HIDE DEF new
<1> QED
  BY <1>1, <1>2, <1>3, <1>5, DeviceStepKeeps

LEMMA PushLostKeeps == ASSUME SwitchInv, PushLost PROVE SwitchInv'
<1>0. SwitchTyped /\ LastIsTrue /\ device \in Status
  BY DEF SwitchInv, SwitchTyped
<1>1. /\ UNCHANGED <<fitted, device, display, avail, op, store, entities>>
      /\ push # <<>> /\ push' = Tail(push) /\ Excuse({Head(push).of})
  BY DEF PushLost
<1>2. /\ push' \in Seq(Report) /\ LastIsTrue'
      /\ \A t : (\E i \in DOMAIN push : push[i].of = t) /\ t # Head(push).of
                       => \E i \in DOMAIN push' : push'[i].of = t
      /\ \A i \in DOMAIN push' : push'[i].of \in fitted
  BY <1>0, <1>1, LastTail
<1>3. \A t \in fitted : t \notin {Head(push).of} /\ entities # "new" =>
            \/ /\ Reading(t, device') = Reading(t, device)
               /\ (\E i \in DOMAIN push : push[i].of = t) => \E i \in DOMAIN push' : push'[i].of = t
            \/ Pending(t)' /\ ~Busy(t, op)
  BY <1>1, <1>2
<1>4. device' \in Status
  BY <1>0, <1>1
<1> QED
  BY <1>1, <1>2, <1>3, <1>4, DeviceStepKeeps

LEMMA PushArrivesKeeps == ASSUME SwitchInv, PushArrives PROVE SwitchInv'
<1> DEFINE e == Head(push)
<1>0. SwitchTyped /\ LastIsTrue /\ device \in Status /\ fitted \subseteq Entity /\ \A s \in fitted : Settled(s)
  BY FittedShape DEF SwitchInv, SwitchTyped
<1>1. /\ UNCHANGED <<fitted, device, op, entities>>
      /\ push # <<>> /\ push' = Tail(push)
      /\ Excuse(IF entities = "live" THEN {} ELSE {e.of})
      /\ store' = [store EXCEPT ![e.of] = e.value]
      /\ display' = IF entities = "live" THEN [display EXCEPT ![e.of] = e.value] ELSE display
      /\ avail' = IF entities = "live" THEN [avail EXCEPT ![e.of] = TRUE] ELSE avail
  BY DEF PushArrives
<1>2. /\ push' \in Seq(Report) /\ LastIsTrue' /\ e \in Report
      /\ \A t : (\E i \in DOMAIN push : push[i].of = t) /\ t # e.of
                       => \E i \in DOMAIN push' : push'[i].of = t
      /\ \/ \E i \in DOMAIN push' : push'[i].of = e.of
         \/ e.value = Word(device[e.of])
      /\ \A i \in DOMAIN push' : push'[i].of \in fitted
      /\ e.of \in fitted \cap Pushed
  BY <1>0, <1>1, LastTail
<1>3. e.value \in {"on", "off"} /\ e.of \in Entity
  BY <1>0, <1>2 DEF Report
<1> HIDE DEF e
<1>4. /\ store' \in [Pushed -> {"none", "on", "off"}] /\ store'[e.of] = e.value
      /\ \A t \in Pushed : t # e.of => store'[t] = store[t]
  BY <1>0, <1>1, <1>2, <1>3 DEF SwitchTyped
<1>5. /\ display' \in [Entity -> {"none", "on", "off"}] /\ avail' \in [Entity -> BOOLEAN]
      /\ \A t \in Entity : t # e.of => display'[t] = display[t] /\ avail'[t] = avail[t]
      /\ entities = "live" => display'[e.of] = e.value
  BY <1>0, <1>1, <1>2, <1>3 DEF SwitchTyped
<1>6. excuse' \subseteq fitted
  BY <1>1 DEF Excuse
<1>7. \A p \in Platform : RequestWell(p, op[p])'
  BY <1>0, <1>1 DEF SwitchTyped, RequestWell
<1>8. SwitchTyped'
  BY <1>0, <1>1, <1>2, <1>4, <1>5, <1>6, <1>7 DEF SwitchTyped
<1>9. ASSUME NEW s \in fitted, s \notin excuse, entities # "new", s # e.of \/ entities = "live"
      PROVE  Answers(s)' /\ Shows(s)'
  <2>1. Answers(s) /\ Shows(s)
    BY <1>0, <1>9 DEF Settled
  <2>2. Answers(s)'
    BY <1>1, <2>1 DEF Answers
  <2>3. CASE s # e.of
    <3>1. display'[s] = display[s] /\ avail'[s] = avail[s] /\ (s = "forward" => store'[s] = store[s])
      BY <1>0, <1>4, <1>5, <1>9, <2>3 DEF Pushed
    <3>2. Pending(s) => Pending(s)'
      BY <1>1, <1>2, <2>3 DEF Pending
    <3> QED
      BY <1>1, <2>1, <2>2, <3>1, <3>2 DEF Shows, Right
  <2>4. CASE s = e.of
    <3>1. CASE \E i \in DOMAIN push' : push'[i].of = e.of
      BY <1>1, <1>9, <2>2, <2>4, <3>1 DEF Shows, Pending
    <3>2. CASE e.value = Word(device[e.of])
      <4>1. Reading(s, device) = e.value
        BY <1>0, <1>2, <1>3, <2>4, <3>2, ReadingIsWord
      <4> QED
        BY <1>1, <1>4, <1>5, <1>9, <2>2, <2>4, <4>1 DEF Shows, Right
    <3> QED
      BY <1>2, <3>1, <3>2
  <2> QED
    BY <2>3, <2>4
<1>10. ASSUME NEW s \in fitted PROVE Settled(s)'
  <2> DEFINE new == IF entities = "live" THEN {} ELSE {e.of}
  <2>1. s \notin excuse /\ s \notin new /\ s \notin excuse' => Settled(s)'
    BY <1>1, <1>9, <1>10 DEF Settled
  <2>2. Excuse(new) /\ fitted' = fitted
    BY <1>1
  <2> HIDE DEF new
  <2> QED
    BY <1>10, <2>1, <2>2, Excused
<1> QED
  BY <1>1, <1>2, <1>8, <1>10 DEF SwitchInv

\* What the agent does for a request: which readings it changes, and that
\* an answer about it covers them.
Done(o) ==
    CASE o.step = "enable" -> [device EXCEPT !["endpoint"] = TRUE]
      [] o.step = "sent" /\ o.want # "read" -> Changed(o.of, o.want = "on", device)
      [] OTHER -> device

LEMMA DoneSpares ==
  ASSUME device \in Status, NEW o \in Request, o.of \in Entity, o.of # "none", o.want # "none", Asked(o),
         o.step = "enable" => o.of = "firewall" /\ o.want = "on"
  PROVE  /\ Done(o) \in Status
         /\ \A s \in Entity : s \notin Awaiting(o) => Reading(s, Done(o)) = Reading(s, device)
         /\ o.of \in Pushed /\ Done(o) # device =>
               Done(o) = [device EXCEPT ![o.of] = (o.want = "on")] /\ o.want \in {"on", "off"}
         /\ o.of \notin Pushed => \A t \in Pushed : Done(o)[t] = device[t]
         /\ \A r \in Request : r.of = o.of /\ r.step = o.step /\ r.want = o.want /\ r.ack = "ok" =>
               \A s \in Entity : s \notin Covers(r) => Reading(s, Done(o)) = Reading(s, device)
<1> DEFINE b == (o.want = "on")
<1>0. o.of \in Setting /\ b \in BOOLEAN
  BY DEF Setting
<1>1. CASE o.step = "enable"
  <2>1. Done(o) = [device EXCEPT !["endpoint"] = TRUE] /\ o.of = "firewall" /\ o.want = "on"
    BY <1>1 DEF Done
  <2>2. Done(o) \in Status /\ \A t \in Pushed : Done(o)[t] = device[t]
    BY <2>1 DEF Status, Pushed, Setting, Entity
  <2>3. \A s \in Entity : s # "firewall" => Reading(s, Done(o)) = Reading(s, device)
    BY <2>1 DEF Reading, Status, Setting, Entity, Auth, Bridges, Pushed
  <2>4. "firewall" \in Awaiting(o) /\ o.of \notin Pushed
    BY <2>1 DEF Awaiting, Bridges, Pushed
  <2>5. \A r \in Request : r.of = o.of /\ r.want = o.want => "firewall" \in Covers(r)
    BY <2>1 DEF Covers
  <2> QED
    BY <2>2, <2>3, <2>4, <2>5
<1>2. CASE o.step = "sent" /\ o.want # "read"
  <2>1. Done(o) = Changed(o.of, b, device)
    BY <1>2 DEF Done
  <2>2. /\ Done(o) \in Status
        /\ \A s \in Entity : s \notin Awaiting(o) => Reading(s, Done(o)) = Reading(s, device)
        /\ o.of \in Pushed => Done(o) = [device EXCEPT ![o.of] = b]
        /\ \A t \in Pushed : t # o.of => Done(o)[t] = device[t]
        /\ o.of = "firewall" => \A t \in Entity : t # o.of => Reading(t, Done(o)) = Reading(t, device)
    <3>1. Done(o) \in Status
      BY <1>0, <2>1, ChangedStatus
    <3>2. \A s \in Entity : s \notin Awaiting(o) => Reading(s, Done(o)) = Reading(s, device)
      <4>1. \A s \in Entity : s \notin Awaiting(o) => Reading(s, Changed(o.of, b, device)) = Reading(s, device)
        <5> HIDE DEF b
        <5> QED
          BY <1>0, ChangeSpares
      <4> QED
        BY <2>1, <4>1
    <3>3. /\ o.of \in Pushed => Done(o) = [device EXCEPT ![o.of] = b]
          /\ \A t \in Pushed : t # o.of => Done(o)[t] = device[t]
          /\ o.of = "firewall" => \A t \in Entity : t # o.of => Reading(t, Done(o)) = Reading(t, device)
      <4> HIDE DEF b
      <4> QED
        BY <1>0, <2>1, ChangedPushed
    <3> QED
      BY <3>1, <3>2, <3>3
  <2>3. ASSUME o.of \in Pushed PROVE o.want \in {"on", "off"}
    BY <1>2, <2>3 DEF Request
  <2>4. ASSUME NEW r \in Request, r.of = o.of, r.step = o.step, r.want = o.want, r.ack = "ok",
               NEW s \in Entity, s \notin Covers(r)
        PROVE  Reading(s, Done(o)) = Reading(s, device)
    <3>1. CASE o.of = "firewall"
      <4>1. "firewall" \in Covers(r)
        BY <1>2, <2>4, <3>1 DEF Covers, Hearers, Auth, Bridges
      <4> QED
        BY <2>2, <2>4, <3>1, <4>1
    <3>2. CASE o.of # "firewall"
      <4>1. Awaiting(o) \subseteq Covers(r)
        <5>1. CASE o.of \in Auth
          <6>1. o.of \in Auth \cup {"firewall"} /\ o.of \notin Bridges
            BY <5>1 DEF Auth, Bridges
          <6>2. Awaiting(o) = Auth \cup {o.of} /\ Hearers(o.of, o.want) = Auth
            BY <1>2, <5>1, <6>1 DEF Awaiting, Hearers
          <6>3. Covers(r) = Hearers(o.of, o.want)
            BY <1>2, <2>4, <3>2, <6>1 DEF Covers
          <6> QED
            BY <5>1, <6>2, <6>3
        <5>2. CASE o.of \in Bridges
          <6>1. o.of \notin Auth \cup {"firewall"}
            BY <5>2 DEF Auth, Bridges
          <6> QED
            BY <1>2, <2>4, <3>2, <5>2, <6>1 DEF Awaiting, Covers
        <5>3. CASE o.of \notin Auth \cup Bridges
          BY <1>2, <2>4, <3>2, <5>3 DEF Awaiting, Covers, Hearers
        <5> QED
          BY <5>1, <5>2, <5>3
      <4> QED
        BY <2>2, <2>4, <4>1
    <3> QED
      BY <3>1, <3>2
  <2> QED
    BY <2>2, <2>3, <2>4
<1>3. CASE o.step # "enable" /\ ~(o.step = "sent" /\ o.want # "read")
  <2>1. Done(o) = device
    BY <1>3 DEF Done
  <2> QED
    BY <2>1
<1> QED
  BY <1>1, <1>2, <1>3

LEMMA ExecutesKeeps == ASSUME SwitchInv, NEW p \in Platform, Executes(p) PROVE SwitchInv'
<1> DEFINE o == op[p]
<1>0. /\ SwitchTyped /\ LastIsTrue /\ device \in Status /\ fitted \subseteq Entity
      /\ o \in Request /\ RequestWell(p, o) /\ \A s \in fitted : Settled(s)
  BY FittedShape DEF SwitchInv, SwitchTyped
<1>1. PICK gone \in BOOLEAN :
         /\ op' = [op EXCEPT ![p].ack = IF gone THEN "failed" ELSE "ok", ![p].snap = device']
         /\ Excuse(IF gone THEN {e \in fitted : Reading(e, device') # Reading(e, device)} ELSE {})
  BY DEF Executes
<1>2. /\ Asked(o) /\ device' = Done(o)
      /\ push' = IF o.of \in Pushed /\ device' # device
                 THEN Append(push, [of |-> o.of, value |-> o.want]) ELSE push
      /\ UNCHANGED <<fitted, display, avail, store, entities>>
  BY DEF Executes, Done
<1>3. o.of \in fitted /\ o.of \in Entity /\ o.of # "none" /\ o.ack = "none"
  <2>1. o.step # "free"
    BY <1>2 DEF Asked
  <2> QED
    BY <1>0, <1>2, <2>1 DEF RequestWell, Asked
<1>4. /\ device' \in Status
      /\ \A s \in Entity : s \notin Awaiting(o) => Reading(s, device') = Reading(s, device)
      /\ o.of \in Pushed /\ device' # device =>
               device' = [device EXCEPT ![o.of] = (o.want = "on")] /\ o.want \in {"on", "off"}
      /\ o.of \notin Pushed => \A t \in Pushed : device'[t] = device[t]
      /\ \A r \in Request : r.of = o.of /\ r.step = o.step /\ r.want = o.want /\ r.ack = "ok" =>
               \A s \in Entity : s \notin Covers(r) => Reading(s, device') = Reading(s, device)
  <2>1. (o.step = "enable" => o.of = "firewall" /\ o.want = "on") /\ o.want # "none"
    BY <1>0, <1>3 DEF RequestWell
  <2> HIDE DEF o
  <2> QED
    BY <1>0, <1>2, <1>3, <2>1, DoneSpares
<1>5. /\ op'[p] \in Request /\ op'[p].of = o.of /\ op'[p].step = o.step /\ op'[p].want = o.want
      /\ op'[p].ack = (IF gone THEN "failed" ELSE "ok") /\ op'[p].snap = device'
      /\ \A q \in Platform : q # p => op'[q] = op[q]
      /\ op' \in [Platform -> Request]
  <2>1. op'[p] = [o EXCEPT !.ack = IF gone THEN "failed" ELSE "ok", !.snap = device']
    BY <1>0, <1>1 DEF SwitchTyped
  <2>2. op'[p] \in Request /\ op'[p].snap = device'
    BY <1>0, <1>4, <2>1 DEF Request
  <2>3. op'[p].of = o.of /\ op'[p].step = o.step /\ op'[p].want = o.want
    BY <1>0, <2>1 DEF Request
  <2>4. op'[p].ack = IF gone THEN "failed" ELSE "ok"
    BY <1>0, <2>1 DEF Request
  <2>5. (\A q \in Platform : q # p => op'[q] = op[q]) /\ op' \in [Platform -> Request]
    BY <1>0, <1>1, <2>2 DEF SwitchTyped
  <2> QED
    BY <2>2, <2>3, <2>4, <2>5
<1>6. \A q \in Platform : RequestWell(q, op[q])'
  <2> SUFFICES ASSUME NEW q \in Platform PROVE RequestWell(q, op[q])'
    OBVIOUS
  <2>1. CASE q = p
    <3>1. op'[p].ack # "none" /\ o.step # "diagnose"
      BY <1>2, <1>5 DEF Asked
    <3> QED
      BY <1>0, <1>2, <1>3, <1>5, <2>1, <3>1 DEF RequestWell
  <2>2. CASE q # p
    BY <1>0, <1>2, <1>5, <2>2 DEF RequestWell, SwitchTyped
  <2> QED
    BY <2>1, <2>2
<1>7. /\ push' \in Seq(Report) /\ LastIsTrue' /\ \A i \in DOMAIN push' : push'[i].of \in fitted
      /\ \A t \in Entity : (\E i \in DOMAIN push : push[i].of = t) => \E i \in DOMAIN push' : push'[i].of = t
  <2>1. CASE o.of \in Pushed /\ device' # device
    <3> DEFINE b == (o.want = "on")
    <3>1. b \in BOOLEAN /\ o.want = Word(b) /\ device' = [device EXCEPT ![o.of] = b]
      BY <1>4, <2>1 DEF Word
    <3>2. push' = Append(push, [of |-> o.of, value |-> Word(b)])
      BY <1>2, <2>1, <3>1
    <3> DEFINE s == o.of
    <3>3. s \in Pushed /\ push' = Append(push, [of |-> s, value |-> Word(b)]) /\ device' = [device EXCEPT ![s] = b]
      BY <2>1, <3>1, <3>2
    <3> HIDE DEF b, o, s
    <3>4. /\ push' \in Seq(Report) /\ LastIsTrue' /\ \A i \in DOMAIN push' : push'[i].of \in fitted \cup {s}
          /\ \A t \in Entity : (\E i \in DOMAIN push : push[i].of = t) => \E i \in DOMAIN push' : push'[i].of = t
      BY <1>0, <3>1, <3>3, LastAppended
    <3> QED
      BY <1>3, <3>4 DEF s
  <2>2. CASE ~(o.of \in Pushed /\ device' # device)
    <3>1. push' = push /\ \A t \in Pushed : device'[t] = device[t]
      BY <1>2, <1>4, <2>2
    <3>2. LastIsTrue'
      BY <1>0, <3>1, LastKept
    <3> QED
      BY <1>0, <3>1, <3>2 DEF SwitchTyped
  <2> QED
    BY <2>1, <2>2
<1>8. excuse' \subseteq fitted
  BY <1>1 DEF Excuse
<1>9. SwitchTyped'
  BY <1>0, <1>2, <1>4, <1>5, <1>6, <1>7, <1>8 DEF SwitchTyped
<1>10. Awaiting(op'[p]) = Awaiting(o) /\ Covers(o) \subseteq Covers(op'[p])
  BY <1>3, <1>5 DEF Awaiting, Covers
<1>11. ASSUME NEW s \in fitted, NEW q \in Platform, q # p, s \in Awaiting(op[q]), op[q].ack = "ok", Answers(s)
       PROVE  Reading(s, op[q].snap) = Reading(s, device')
  <2>1. op[q].of # "none"
    BY <1>0, <1>11 DEF SwitchTyped, RequestWell
  <2>2. s \notin Awaiting(o)
    BY <1>0, <1>3, <1>11, <2>1, PlatformsApart
  <2>3. Reading(s, device') = Reading(s, device)
    BY <1>0, <1>4, <1>11, <2>2
  <2> QED
    BY <1>11, <2>3 DEF Answers
<1>12. ASSUME NEW s \in fitted, Answers(s) PROVE Answers(s)'
  <2> SUFFICES ASSUME NEW q \in Platform, s \in Awaiting(op'[q]), op'[q].ack = "ok"
               PROVE  Reading(s, op'[q].snap) = Reading(s, device')
    BY DEF Answers
  <2>1. CASE q = p
    BY <1>5, <2>1
  <2>2. CASE q # p
    BY <1>5, <1>11, <1>12, <2>2
  <2> QED
    BY <2>1, <2>2
<1>13. ASSUME NEW s \in fitted, Shows(s), gone => Reading(s, device') = Reading(s, device)
       PROVE  Shows(s)'
  <2> SUFFICES ASSUME avail'[s], \A q \in Platform : s \notin Covers(op'[q]), ~Pending(s)'
               PROVE  Right(s)'
    BY DEF Shows
  <2>1. \A q \in Platform : s \notin Covers(op[q])
    BY <1>5, <1>10
  <2>2. ~Pending(s)
    BY <1>0, <1>2, <1>7, <1>13 DEF Pending
  <2>3. Right(s)
    BY <1>2, <1>13, <2>1, <2>2 DEF Shows
  <2>4. Reading(s, device') = Reading(s, device)
    <3>1. CASE gone
      BY <1>13, <3>1
    <3>2. CASE ~gone
      <4>1. op'[p].ack = "ok" /\ s \notin Covers(op'[p]) /\ s \in Entity
        BY <1>0, <1>5, <1>13, <3>2
      <4> QED
        BY <1>4, <1>5, <4>1
    <3> QED
      BY <3>1, <3>2
  <2> QED
    BY <1>2, <2>3, <2>4 DEF Right
<1>14. ASSUME NEW s \in fitted PROVE Settled(s)'
  <2> DEFINE new == IF gone THEN {e \in fitted : Reading(e, device') # Reading(e, device)} ELSE {}
  <2>1. ASSUME s \notin excuse, s \notin new, s \notin excuse', entities # "new"
        PROVE  Answers(s)' /\ Shows(s)'
    <3>1. Answers(s) /\ Shows(s)
      BY <1>0, <1>14, <2>1 DEF Settled
    <3>2. gone => Reading(s, device') = Reading(s, device)
      BY <1>14, <2>1
    <3> QED
      BY <1>12, <1>13, <1>14, <3>1, <3>2
  <2>2. s \notin excuse /\ s \notin new /\ s \notin excuse' => Settled(s)'
    BY <1>2, <2>1 DEF Settled
  <2>3. Excuse(new) /\ fitted' = fitted
    BY <1>1, <1>2
  <2> HIDE DEF new
  <2> QED
    BY <1>14, <2>2, <2>3, Excused
<1> QED
  BY <1>2, <1>7, <1>9, <1>14 DEF SwitchInv
LEMMA SwitchStep == SwitchInv /\ [SwitchNext]_switchVars => SwitchInv'
<1> SUFFICES ASSUME SwitchInv, [SwitchNext]_switchVars PROVE SwitchInv'
  OBVIOUS
<1>1. CASE SetupReads
  BY <1>1, SetupReadsKeeps
<1>2. CASE Added
  BY <1>2, AddedKeeps
<1>3. CASE \E s \in Setting, b \in BOOLEAN : Elsewhere(s, b)
  BY <1>3, ElsewhereKeeps
<1>4. CASE PushArrives
  BY <1>4, PushArrivesKeeps
<1>5. CASE PushLost
  BY <1>5, PushLostKeeps
<1>6. CASE \E s \in Entity, want \in {"on", "off", "read"} : Start(s, want)
  BY <1>6, StartKeeps
<1>7. ASSUME NEW p \in Platform,
             \/ Executes(p) \/ Refused(p) \/ EnableAnswered(p) \/ Answered(p) \/ Dispatched(p)
             \/ CommandFails(p) \/ ReadFails(p) \/ FallbackAnswered(p)
      PROVE  SwitchInv'
  BY <1>7, ExecutesKeeps, RefusedKeeps, EnableAnsweredKeeps, AnsweredKeeps, DispatchedKeeps,
     CommandFailsKeeps, ReadFailsKeeps, FallbackAnsweredKeeps
<1>8. CASE UNCHANGED switchVars
  BY <1>8 DEF switchVars, SwitchInv, SwitchTyped, RequestWell, LastIsTrue, Settled, Answers, Shows,
              Right, Pending
<1> QED
  BY <1>1, <1>2, <1>3, <1>4, <1>5, <1>6, <1>7, <1>8 DEF SwitchNext

LEMMA SwitchInvImplies == SwitchInv => SwitchesTrue
<1> SUFFICES ASSUME SwitchInv PROVE SwitchesTrue
  OBVIOUS
<1>0. SwitchTyped /\ \A s \in fitted : Settled(s)
  BY DEF SwitchInv
<1>1. SwitchTypeOK
  BY <1>0 DEF SwitchTyped, SwitchTypeOK, Status
<1>2. ASSUME NEW s \in fitted, AtRest(s), avail[s], s \notin excuse PROVE Right(s)
  <2>1. Shows(s) /\ entities = "live"
    BY <1>0, <1>2 DEF Settled, AtRest
  <2>2. ~Pending(s)
    BY <1>0, <1>2 DEF Pending, AtRest, SwitchTyped
  <2>3. ASSUME NEW p \in Platform PROVE s \notin Covers(op[p])
    BY <1>2 DEF AtRest, Covers, Free
  <2> QED
    BY <1>2, <2>1, <2>2, <2>3 DEF Shows
<1>3. ShowsDevice
  BY <1>2 DEF ShowsDevice, Right
<1>4. OneBridge
  <2> SUFFICES ASSUME AtRest("native"), Bridges \cap excuse = {}, avail["native"], avail["legacy"],
                      display["native"] = "on", display["legacy"] = "on"
               PROVE  FALSE
    BY DEF OneBridge
  <2>1. "native" \in fitted /\ "legacy" \in fitted /\ "native" \notin excuse /\ "legacy" \notin excuse
    BY <1>0 DEF SwitchTyped, Entity, Bridges
  <2>2. AtRest("legacy")
    <3>1. \A i \in DOMAIN push : push[i].of # "legacy"
      BY <1>0, EventsOf DEF SwitchTyped, Pushed
    <3> QED
      BY <1>0, <3>1 DEF AtRest, SwitchTyped
  <2>3. Right("native") /\ Right("legacy")
    BY <1>2, <2>1, <2>2
  <2>4. Reading("native", device) = "on" /\ Reading("legacy", device) = "on"
    BY <2>3 DEF Right
  <2> QED
    BY <2>4 DEF Reading, Word
<1>5. StoreAgrees
  BY <1>2 DEF StoreAgrees, Right
<1> QED
  BY <1>1, <1>3, <1>4, <1>5 DEF SwitchesTrue

\* Whatever the capabilities, the commands, the other clients of the device
\* and the answers and pushes that are lost: a switch, the volume or the
\* forwarding that is at rest, available and not excused shows the device,
\* no two bridges are shown on, and the stored mode is the one shown
\* (switch.py, number.py, select.py and their companions).
THEOREM SwitchesTrueHolds == SwitchSpec => []SwitchesTrue
<1>1. SwitchInit => SwitchInv
  BY SwitchInitInv
<1>2. SwitchInv /\ [SwitchNext]_switchVars => SwitchInv'
  BY SwitchStep
<1>3. SwitchInv => SwitchesTrue
  BY SwitchInvImplies
<1> QED
  BY <1>1, <1>2, <1>3, PTL DEF SwitchSpec
=============================================================================
