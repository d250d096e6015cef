------------------------------ MODULE StoredItems ------------------------------
(***************************************************************************)
(* custom_components/bticino_c300x/message_refresh.py with the sensors,    *)
(* buttons and services around it: Home Assistant's copy of the messages   *)
(* (or memos) stored on the device.  A payload is cached for some seconds  *)
(* and fetched under a lock of the entry; an event of the agent brings the *)
(* new counters and makes a refresh run; a reload of the entry replaces    *)
(* the runtime data and drops the locks.                                   *)
(*                                                                         *)
(* Fetches run for the refresh task, for the delete button, and for a      *)
(* reader: the first refresh of the platform, or an update of a sensor.    *)
(* An item is a number, the latest one the greatest.                       *)
(***************************************************************************)
EXTENDS Naturals, FiniteSets, FiniteSetsExt

CONSTANTS MaxItems,   \* bound on the items ever stored
          MaxVersion, \* bound on changes of the store
          MaxRuntimes, \* bound on reloads of the entry
          MaxReads    \* bound on updates and presses

ASSUME StoredItemsAssumption ==
    MaxItems \in Nat \ {0} /\ MaxVersion \in Nat \ {0} /\ MaxRuntimes \in Nat /\ MaxReads \in Nat

VARIABLES
    memory,    \* the device: its items, and how often they changed
    events,    \* change events on their way, by their version
    current,    \* which runtime_data is current
    listening, \* the sensors have subscribed to the events
    cache,     \* the payload of the current runtime data
    fresh,     \* it is younger than its time to live
    sensorsUp, \* the sensors are available
    flagged,   \* the flag in pending_message_refreshes
    fetch,     \* the calls of _async_cached_payload
    press,     \* where async_press of the delete button is
    reads,     \* updates and presses so far
    missed,    \* history: nothing was made of what told the latest change
    quiet      \* from some time on nothing changes and calls succeed

itemVars == <<memory, events, current, listening, cache, fresh, sensorsUp, flagged, fetch, press,
              reads, missed, quiet>>

Caller == {"task", "button", "reader"}
NoFetch == [stage |-> "none"]
Nothing == [listed |-> {}, known |-> FALSE, available |-> TRUE, as |-> 0]

ItemsTypeOK ==
    /\ memory.items \subseteq 1 .. MaxItems /\ memory.version \in 1 .. MaxVersion
    /\ events \subseteq 1 .. MaxVersion
    /\ current \in 0 .. MaxRuntimes
    /\ {listening, fresh, sensorsUp, flagged, missed, quiet} \subseteq BOOLEAN
    /\ cache.listed \subseteq 1 .. MaxItems /\ cache.as \in 0 .. MaxVersion
    /\ \A c \in Caller : fetch[c] = NoFetch \/ fetch[c].stage \in {"queued", "asks", "answered"}
    /\ press.stage \in {"idle", "looks", "deletes", "refetches"}
    /\ reads \in 0 .. MaxReads

ItemsInit ==
    /\ memory = [items |-> {1}, version |-> 1]
    /\ events = {}
    /\ current = 0 /\ listening = FALSE
    /\ cache = Nothing /\ fresh = FALSE /\ sensorsUp = TRUE
    /\ flagged = FALSE
    /\ fetch = [c \in Caller |-> IF c = "reader"
                    THEN [stage |-> "queued", runtime |-> 0, forced |-> TRUE]
                    ELSE NoFetch]
    /\ press = [stage |-> "idle"]
    /\ reads = 0 /\ missed = FALSE /\ quiet = FALSE

-----------------------------------------------------------------------------
(* _async_cached_payload.                                                   *)

Fetch(forced) == [stage |-> "queued", runtime |-> current, forced |-> forced]
Holds(c, r) == fetch[c] # NoFetch /\ fetch[c].stage \in {"asks", "answered"} /\ fetch[c].runtime = r
LockFree(r) == \A c \in Caller : ~Holds(c, r)

\* The lock of the entry is held by one fetch; a reload gave the next runtime
\* a lock of its own.  A cached payload that is fresh by now is not fetched.
LockTaken(c) ==
    /\ fetch[c] # NoFetch /\ fetch[c].stage = "queued"
    /\ fetch[c].runtime = current
    /\ LockFree(current)
    /\ fetch[c].forced \/ ~(fresh /\ cache.known)
    /\ fetch' = [fetch EXCEPT ![c].stage = "asks"]
    /\ UNCHANGED <<memory, events, current, listening, cache, fresh, sensorsUp, flagged, press, reads,
                   missed, quiet>>

AgentLists(c) ==
    /\ fetch[c] # NoFetch /\ fetch[c].stage = "asks"
    /\ fetch' = [fetch EXCEPT ![c] = [stage |-> "answered", runtime |-> fetch[c].runtime,
                                      forced |-> fetch[c].forced, got |-> memory]]
    /\ UNCHANGED <<memory, events, current, listening, cache, fresh, sensorsUp, flagged, press, reads,
                   missed, quiet>>

\* What a fetch ends with: a payload to store, the fresh one, or an error.
AgentAnswered(c) == fetch[c] # NoFetch /\ fetch[c].stage = "answered"
Stores(c) == AgentAnswered(c) /\ fetch[c].runtime = current
FromCache(c) ==
    /\ fetch[c] # NoFetch /\ fetch[c].stage = "queued" /\ ~fetch[c].forced
    /\ fetch[c].runtime = current /\ fresh /\ cache.known
Fails(c) ==
    /\ fetch[c] # NoFetch
    /\ \/ fetch[c].runtime # current /\ fetch[c].stage \in {"queued", "answered"}
       \/ fetch[c].stage = "asks" /\ (~quiet \/ fetch[c].runtime # current)

\* _require_current_runtime after the await, then _store_payload.
StoresStale(c) == AgentAnswered(c)  \* variant: the runtime is not compared after the await
Accepted(c) == Stores(c)
Payload(got) == [listed |-> got.items, known |-> TRUE, available |-> TRUE, as |-> got.version]
StorePayload(c) == cache' = Payload(fetch[c].got) /\ fresh' = TRUE

\* {**payload, "available": False}.
MarkedUnavailable == cache' = [cache EXCEPT !.known = TRUE, !.available = FALSE] /\ fresh' = TRUE

-----------------------------------------------------------------------------
(* The refresh task: _schedule_single_refresh.                              *)

\* The flag is set; a task that is not there is started, and its first step
\* takes the flag.
FlagDropped == flagged' = flagged  \* variant: a running task is taken to be enough
FlagSet == flagged' = TRUE
ScheduleRefresh ==
    IF fetch["task"] = NoFetch
    THEN fetch' = [fetch EXCEPT !["task"] = Fetch(TRUE)] /\ UNCHANGED flagged
    ELSE FlagSet /\ UNCHANGED fetch

\* The loop of refresh_pending, after one refresh.
NextRound ==
    IF flagged
    THEN fetch' = [fetch EXCEPT !["task"] = Fetch(TRUE)] /\ flagged' = FALSE
    ELSE fetch' = [fetch EXCEPT !["task"] = NoFetch] /\ UNCHANGED flagged

\* _async_refresh_memos_from_agent: the signal makes the sensors look.
TaskRefreshed ==
    /\ Accepted("task")
    /\ StorePayload("task")
    /\ sensorsUp' = IF listening THEN TRUE ELSE sensorsUp
    /\ NextRound
    /\ UNCHANGED <<memory, events, current, listening, press, reads, missed, quiet>>

TaskFailed ==
    /\ Fails("task")
    /\ MarkedUnavailable
    /\ sensorsUp' = IF listening THEN FALSE ELSE sensorsUp
    /\ NextRound
    /\ UNCHANGED <<memory, events, current, listening, press, reads, missed, quiet>>

-----------------------------------------------------------------------------
(* The reader.                                                              *)

UpdateAsked ==
    /\ listening /\ fetch["reader"] = NoFetch /\ reads < MaxReads
    /\ reads' = reads + 1
    /\ fetch' = [fetch EXCEPT !["reader"] = Fetch(FALSE)]
    /\ UNCHANGED <<memory, events, current, listening, cache, fresh, sensorsUp, flagged, press, missed,
                   quiet>>

\* async_update and _apply_items: also a cached payload counts as new.  After
\* its first refresh the platform adds the sensors.
Read ==
    /\ \/ Accepted("reader") /\ StorePayload("reader")
       \/ FromCache("reader") /\ fresh' = TRUE /\ UNCHANGED cache
    /\ sensorsUp' = cache'.available
    /\ listening' = TRUE
    /\ fetch' = [fetch EXCEPT !["reader"] = NoFetch]
    /\ UNCHANGED <<memory, events, current, flagged, press, reads, missed, quiet>>

ReadFailed ==
    /\ Fails("reader")
    /\ fetch' = [fetch EXCEPT !["reader"] = NoFetch]
    /\ IF listening
       THEN sensorsUp' = FALSE /\ UNCHANGED <<cache, fresh, listening>>
       ELSE MarkedUnavailable /\ sensorsUp' = FALSE /\ listening' = TRUE
    /\ UNCHANGED <<memory, events, current, flagged, press, reads, missed, quiet>>

-----------------------------------------------------------------------------
(* The delete button: C300XDeleteLatestStoredItemButton.async_press.        *)

Latest(items) == Max(items)

PressBegins ==
    /\ listening /\ press.stage = "idle" /\ reads < MaxReads
    /\ reads' = reads + 1
    /\ IF cache.listed # {}
       THEN press' = [stage |-> "deletes", id |-> Latest(cache.listed)] /\ UNCHANGED fetch
       ELSE press' = [stage |-> "looks"] /\ fetch' = [fetch EXCEPT !["button"] = Fetch(TRUE)]
    /\ UNCHANGED <<memory, events, current, listening, cache, fresh, sensorsUp, flagged, missed, quiet>>

\* Without an item there is nothing to delete.
PressLooked ==
    /\ press.stage = "looks" /\ Accepted("button")
    /\ StorePayload("button")
    /\ fetch' = [fetch EXCEPT !["button"] = NoFetch]
    /\ press' = IF fetch["button"].got.items = {} THEN [stage |-> "idle"]
                ELSE [stage |-> "deletes", id |-> Latest(fetch["button"].got.items)]
    /\ sensorsUp' = TRUE
    /\ UNCHANGED <<memory, events, current, listening, flagged, reads, missed, quiet>>

\* The agent deletes the item and tells everybody, or has no such item.
PressDeletes ==
    /\ press.stage = "deletes"
    /\ IF press.id \in memory.items
       THEN /\ memory.version < MaxVersion
            /\ memory' = [items |-> memory.items \ {press.id}, version |-> memory.version + 1]
            /\ events' = events \cup {memory.version + 1}
            /\ missed' = FALSE
            /\ \/ press' = [stage |-> "refetches"]
                  /\ fetch' = [fetch EXCEPT !["button"] = Fetch(TRUE)]
               \/ ~quiet /\ press' = [stage |-> "idle"] /\ UNCHANGED fetch
       ELSE press' = [stage |-> "idle"] /\ UNCHANGED <<memory, events, fetch, missed>>
    /\ UNCHANGED <<current, listening, cache, fresh, sensorsUp, flagged, reads, quiet>>

PressRefetched ==
    /\ press.stage = "refetches" /\ Accepted("button")
    /\ StorePayload("button")
    /\ fetch' = [fetch EXCEPT !["button"] = NoFetch]
    /\ press' = [stage |-> "idle"]
    /\ sensorsUp' = TRUE
    /\ UNCHANGED <<memory, events, current, listening, flagged, reads, missed, quiet>>

PressFailed ==
    /\ Fails("button")
    /\ fetch' = [fetch EXCEPT !["button"] = NoFetch]
    /\ press' = [stage |-> "idle"]
    /\ UNCHANGED <<memory, events, current, listening, cache, fresh, sensorsUp, flagged, reads, missed,
                   quiet>>

-----------------------------------------------------------------------------
(* The device and its events.                                               *)

ItemStored ==
    /\ ~quiet /\ memory.version < MaxVersion
    /\ \E i \in 1 .. MaxItems \ memory.items :
          memory' = [items |-> memory.items \cup {i}, version |-> memory.version + 1]
    /\ events' = events \cup {memory.version + 1}
    /\ missed' = FALSE
    /\ UNCHANGED <<current, listening, cache, fresh, sensorsUp, flagged, fetch, press, reads, quiet>>

\* The post found nobody, or no answer, and is not repeated.
EventLost ==
    /\ ~quiet
    /\ \E v \in events :
          /\ events' = events \ {v}
          /\ missed' = (missed \/ v = memory.version)
    /\ UNCHANGED <<memory, current, listening, cache, fresh, sensorsUp, flagged, fetch, press, reads,
                   quiet>>

\* New counters with the list there was; the counters are left out here.
Counted == cache' = [cache EXCEPT !.known = TRUE, !.available = TRUE] /\ fresh' = TRUE

\* _handle_agent_event: the counters, then a refresh.
EventArrives ==
    \E v \in events :
        /\ events' = events \ {v}
        /\ IF listening
           THEN /\ Counted /\ sensorsUp' = TRUE
                /\ ScheduleRefresh
                /\ UNCHANGED missed
           ELSE /\ missed' = (missed \/ v = memory.version)
                /\ UNCHANGED <<cache, fresh, sensorsUp, flagged, fetch>>
        /\ UNCHANGED <<memory, current, listening, press, reads, quiet>>

\* What greets a new subscription: counters with the list there was.  The
\* sensors are available again and nothing is fetched.
SnapshotArrives ==
    /\ Counted
    /\ IF listening
       THEN sensorsUp' = TRUE /\ missed' = (missed \/ ~sensorsUp)
       ELSE UNCHANGED <<sensorsUp, missed>>
    /\ UNCHANGED <<memory, events, current, listening, flagged, fetch, press, reads, quiet>>

\* The time to live is over.
CacheAges ==
    /\ fresh
    /\ fresh' = FALSE
    /\ UNCHANGED <<memory, events, current, listening, cache, sensorsUp, flagged, fetch, press, reads,
                   missed, quiet>>

\* The entry is reloaded: C300XRuntimeResources.close cancels the task, the
\* locks are dropped, the new platform makes its first refresh.
RuntimeReplaced ==
    /\ ~quiet /\ current < MaxRuntimes
    /\ fetch["reader"] = NoFetch
    /\ current' = current + 1
    /\ listening' = FALSE
    /\ cache' = Nothing /\ fresh' = FALSE /\ sensorsUp' = TRUE
    /\ flagged' = FALSE
    /\ fetch' = [fetch EXCEPT !["task"] = NoFetch,
                              !["reader"] = [stage |-> "queued", runtime |-> current + 1,
                                             forced |-> TRUE]]
    /\ UNCHANGED <<memory, events, press, reads, missed, quiet>>

FallsQuiet ==
    /\ ~quiet
    /\ quiet' = TRUE
    /\ UNCHANGED <<memory, events, current, listening, cache, fresh, sensorsUp, flagged, fetch, press,
                   reads, missed>>

Progress(c) == LockTaken(c) \/ AgentLists(c)
Ends == TaskRefreshed \/ TaskFailed \/ Read \/ ReadFailed \/ PressLooked \/ PressDeletes
        \/ PressRefetched \/ PressFailed
ItemsNext ==
    \/ \E c \in Caller : Progress(c)
    \/ Ends \/ EventArrives \/ EventLost \/ SnapshotArrives
    \/ UpdateAsked \/ PressBegins \/ ItemStored \/ CacheAges \/ RuntimeReplaced \/ FallsQuiet

\* The lock is fair: a waiter is woken when its turn comes.
ItemsFairness ==
    /\ \A c \in Caller : SF_itemVars(LockTaken(c)) /\ WF_itemVars(AgentLists(c))
    /\ WF_itemVars(Ends) /\ WF_itemVars(EventArrives) /\ WF_itemVars(FallsQuiet)

ItemsSpec == ItemsInit /\ [][ItemsNext]_itemVars /\ ItemsFairness

-----------------------------------------------------------------------------
(* At most one fetch of a runtime is under way, and a refresh that was     *)
(* asked for is always some running task's.                                *)
OneFetch == \A c, d \in Caller : c # d => \A r \in 0 .. MaxRuntimes : ~(Holds(c, r) /\ Holds(d, r))
RefreshOwned == flagged => fetch["task"] # NoFetch

ItemsConsistent == ItemsTypeOK /\ OneFetch /\ RefreshOwned

(* A list Home Assistant shows is never replaced by an older one: neither  *)
(* by a slower fetch nor by one that a reloaded entry began.               *)
NeverOlder ==
    [][IF current' = current THEN cache'.as >= cache.as ELSE cache' = Nothing]_itemVars

(* Once nothing changes any more the list is that of the device, or the    *)
(* sensors say it is not, or what told the latest change was lost: its     *)
(* post, on the way or before the sensors listened, or the failure of its  *)
(* refresh, which a snapshot covered up.                                   *)
CatchesUp == <>[](quiet => cache.as = memory.version \/ ~sensorsUp \/ missed)
(* One fetch at a time, every refresh owned, and the list goes forward     *)
(* only, through reloads of the entry.                                     *)
ItemsKept == []ItemsConsistent /\ NeverOlder
=============================================================================
