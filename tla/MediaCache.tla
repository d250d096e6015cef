------------------------------- MODULE MediaCache -------------------------------
(***************************************************************************)
(* custom_components/bticino_c300x/media_cache.py and the views of         *)
(* media.py that read stored recordings through it: viewers of one         *)
(* recording share one load, loads run one at a time, and what is kept for *)
(* a short while is bounded by entries and bytes.                          *)
(*                                                                         *)
(* A key stands for an entry, a recording and the time of the list it is   *)
(* in.  A viewer that goes away changes nothing: its load is shielded.     *)
(***************************************************************************)
EXTENDS Integers, FiniteSets, FiniteSetsExt, Functions, SequencesExt

CONSTANTS Recording,   \* keys
          SizeOf,      \* the length of what the agent and the conversion give
          MaxBytes,    \* MAX_MEDIA_BYTES
          MaxEntries,  \* _MAX_ENTRIES
          MaxPending   \* _MAX_PENDING

ASSUME MediaCacheAssumption ==
    /\ SizeOf \in [Recording -> Nat]
    /\ MaxBytes \in Nat /\ MaxEntries \in Nat \ {0} /\ MaxPending \in Nat \ {0}

VARIABLES
    cached,  \* _cached: the keys, the least recently used first
    bytes,   \* _bytes
    loads,   \* _pending: "waits" for the semaphore, "loads", "loaded" or "failed"
    queue,   \* the loads that wait for the semaphore, the first one first
    timers,  \* the keys whose expiry is armed
    reply    \* the last response: a status and the first and last byte of it

cacheVars == <<cached, bytes, loads, queue, timers, reply>>

NoReply == [status |-> 0]
Cached == ToSet(cached)

CacheTypeOK ==
    /\ Cached \subseteq Recording /\ IsInjective(cached)
    /\ bytes \in Nat
    /\ DOMAIN loads \subseteq Recording
    /\ Range(loads) \subseteq {"waits", "loads", "loaded", "failed"}
    /\ ToSet(queue) = {k \in DOMAIN loads : loads[k] = "waits"} /\ IsInjective(queue)
    /\ timers \subseteq Recording
    /\ reply.status \in {0, 200, 206, 416, 502, 503}

CacheInit ==
    /\ cached = << >> /\ bytes = 0
    /\ loads = << >> /\ queue = << >> /\ timers = {}
    /\ reply = NoReply

-----------------------------------------------------------------------------
(* The response: _media_response.                                           *)

\* A range is a start and a stop; a negative start counts from the end.
ToEnd == -1
Whole == [whole |-> TRUE]
Ranges == {Whole} \cup [start: {-2, 0, 1}, stop: {ToEnd, 1, 3}]
FirstByte(r, size) == IF r.start >= 0 THEN r.start ELSE IF size + r.start > 0 THEN size + r.start ELSE 0
Stop(r, size) == IF r.stop = ToEnd \/ r.stop > size THEN size ELSE r.stop

Response(r, size) ==
    IF r = Whole THEN [status |-> 200]
    ELSE LET first == FirstByte(r, size)
             stop == Stop(r, size)
         IN  IF first >= size \/ stop <= first THEN [status |-> 416]
             ELSE [status |-> 206, first |-> first, last |-> stop - 1, size |-> size, asked |-> r]

\* What was loaded with the key, to whoever waits for it.
Serve(k) == \E r \in Ranges : reply' = Response(r, SizeOf[k])

-----------------------------------------------------------------------------
(* get: C300XVideoMessageMediaView.get, C300XVoiceMemoMediaView.get.        *)

Moved(k) == Append(RemoveFirst(cached, k), k)

ViewCached(k) ==
    /\ k \in Cached
    /\ cached' = Moved(k)
    /\ Serve(k)
    /\ UNCHANGED <<bytes, loads, queue, timers>>

ViewBusy(k) ==
    /\ k \notin Cached \cup DOMAIN loads
    /\ Cardinality(DOMAIN loads) >= MaxPending
    /\ reply' = [status |-> 503]
    /\ UNCHANGED <<cached, bytes, loads, queue, timers>>

\* A second viewer of a pending key waits for the same load.
ViewLoads(k) ==
    /\ k \notin Cached \cup DOMAIN loads
    /\ Cardinality(DOMAIN loads) < MaxPending
    /\ loads' = [j \in DOMAIN loads \cup {k} |-> IF j = k THEN "waits" ELSE loads[j]]
    /\ queue' = Append(queue, k)
    /\ UNCHANGED <<cached, bytes, timers, reply>>

-----------------------------------------------------------------------------
(* _load.                                                                   *)

\* The waiters of the semaphore are woken in their order.
SerialIgnored == TRUE  \* variant: no semaphore
SerialFree == \A j \in DOMAIN loads : loads[j] # "loads"

LoadBegins(k) ==
    /\ queue # << >> /\ k = Head(queue)
    /\ SerialFree
    /\ queue' = Tail(queue)
    /\ loads' = [loads EXCEPT ![k] = "loads"]
    /\ UNCHANGED <<cached, bytes, timers, reply>>

\* The loop: the oldest entries are expired until the new one fits, the
\* shortest such beginning of the order.
SumOf(keys) == MapThenSumSet(LAMBDA j : SizeOf[j], keys)
Room(n, size) ==
    LET kept == SubSeq(cached, n + 1, Len(cached))
    IN  Len(kept) = 0 \/ (SumOf(ToSet(kept)) + size <= MaxBytes /\ Len(kept) < MaxEntries)
Outdated(size) == Min({n \in 0 .. Len(cached) : Room(n, size)})

LoadEnds(k) ==
    /\ k \in DOMAIN loads /\ loads[k] = "loads"
    /\ SizeOf[k] <= MaxBytes
    /\ LET n == Outdated(SizeOf[k])
           out == ToSet(SubSeq(cached, 1, n))
       IN  /\ cached' = Append(SubSeq(cached, n + 1, Len(cached)), k)
           /\ bytes' = bytes - SumOf(out) + SizeOf[k]
           /\ timers' = (timers \ out) \cup {k}
    /\ loads' = [loads EXCEPT ![k] = "loaded"]
    /\ UNCHANGED <<queue, reply>>

\* The agent or the conversion fails, or the result is too large.
LoadFails(k) ==
    /\ k \in DOMAIN loads /\ loads[k] = "loads"
    /\ loads' = [loads EXCEPT ![k] = "failed"]
    /\ UNCHANGED <<cached, bytes, queue, timers, reply>>

\* The callback of the task, and the viewers that waited.
FailureKept(k) ==  \* variant: a failed load stays pending
    /\ k \in DOMAIN loads /\ loads[k] \in {"loaded", "failed"}
    /\ loads' = IF loads[k] = "loaded" THEN Restrict(loads, DOMAIN loads \ {k}) ELSE loads
    /\ IF loads[k] = "loaded" THEN Serve(k) ELSE reply' = [status |-> 502]
    /\ UNCHANGED <<cached, bytes, queue, timers>>

LoadFinished(k) ==
    /\ k \in DOMAIN loads /\ loads[k] \in {"loaded", "failed"}
    /\ loads' = Restrict(loads, DOMAIN loads \ {k})
    /\ IF loads[k] = "loaded" THEN Serve(k) ELSE reply' = [status |-> 502]
    /\ UNCHANGED <<cached, bytes, queue, timers>>

\* _expire, by the timer.
BytesWithout(k) == bytes - SizeOf[k]
EntryExpires(k) ==
    /\ k \in timers
    /\ timers' = timers \ {k}
    /\ cached' = RemoveFirst(cached, k)
    /\ bytes' = BytesWithout(k)
    /\ UNCHANGED <<loads, queue, reply>>

LoadStep(k) == LoadBegins(k) \/ LoadEnds(k) \/ LoadFails(k) \/ LoadFinished(k)
CacheNext ==
    \E k \in Recording : ViewCached(k) \/ ViewBusy(k) \/ ViewLoads(k) \/ LoadStep(k) \/ EntryExpires(k)

\* The agent and the conversion answer or time out.
CacheFairness == \A k \in Recording : WF_cacheVars(LoadStep(k))

CacheSpec == CacheInit /\ [][CacheNext]_cacheVars /\ CacheFairness

-----------------------------------------------------------------------------
(* What is kept never exceeds the bounds, is what the byte count says, and *)
(* all of it has a timer that will drop it.                                *)
CacheBounded ==
    /\ bytes = SumOf(Cached) /\ bytes <= MaxBytes
    /\ Len(cached) <= MaxEntries
    /\ timers = Cached
    /\ Cardinality(DOMAIN loads) <= MaxPending

(* The agent and the converter are asked for one recording at a time, and  *)
(* never for one that is at hand.                                          *)
OneLoad ==
    /\ \A j, k \in DOMAIN loads : loads[j] = "loads" /\ loads[k] = "loads" => j = k
    /\ \A k \in DOMAIN loads : loads[k] \in {"waits", "loads"} => k \notin Cached

(* A partial response holds bytes there are, and exactly those asked for.  *)
RangeExact ==
    reply.status = 206 =>
        LET r == reply.asked
            wanted == {b \in 0 .. reply.size - 1 :
                          /\ IF r.start >= 0 THEN b >= r.start ELSE b >= reply.size + r.start
                          /\ r.stop = ToEnd \/ b < r.stop}
        IN  reply.first .. reply.last = wanted

CacheConsistent == CacheTypeOK /\ CacheBounded /\ OneLoad /\ RangeExact

(* Whoever waits for a recording gets it, or an error.                     *)
Answered(k) == k \notin DOMAIN loads
ViewersAnswered == \A k \in Recording : []<>Answered(k)
=============================================================================
