-------------------------- MODULE RecallTextEmbed --------------------------
(***************************************************************************)
(* How a recall request gets its query vector (app/recall-text-embed.ts):  *)
(* from the LRU+TTL cache (util/lru_ttl_cache.ts), by joining a flight for *)
(* the same text, or by a flight of its own through the batcher, whose     *)
(* items are the flights.                                                  *)
(***************************************************************************)
EXTENDS EmbedQueryBatcher

CONSTANTS Requests, TextAsked, MaxEntries

NoFlight == "no flight"

ASSUME RecallConstants ==
  /\ TextAsked \in [Requests -> Keys]
  /\ MaxEntries \in Nat \ {0}
  /\ NoFlight \notin Items

VARIABLES
  batcherOn, cacheOn,  \* RECALL_TEXT_EMBED_{BATCH,CACHE}_ENABLED
  cache,               \* LruTtlCache.map, least recently used text first
  stale,               \* the cached texts whose expiresAtMs has passed
  flightOf,            \* recallTextEmbedInflight
  phase, joined        \* each request's progress and the flight it awaits

recallVars == <<batcherOn, cacheOn, cache, stale, flightOf, phase, joined>>
vars == <<batcherVars, recallVars>>

Settled == {"resolved", "rejected", "queue_timeout", "queue_full"}
Cached == {cache[k] : k \in 1..Len(cache)}

Init ==
  /\ BatcherInit
  /\ batcherOn \in BOOLEAN /\ cacheOn \in BOOLEAN
  /\ cache = <<>> /\ stale = {}
  /\ flightOf = [t \in Keys |-> NoFlight]
  /\ phase = [q \in Requests |-> "new"]
  /\ joined = [q \in Requests |-> NoFlight]

\* LruTtlCache.set(): a fresh entry at the end, the oldest one evicted.
CacheSet(t) ==
  LET grown == Append(RemoveFirst(cache, t), t)
  IN  /\ cache' = IF Len(grown) > MaxEntries THEN Tail(grown) ELSE grown
      /\ stale' = {u \in stale : Contains(cache', u)} \ {t}

\* An entry's time to live runs out; it stays in the map until it is read.
Expire(t) ==
  /\ t \in Cached \ stale
  /\ stale' = stale \cup {t}
  /\ UNCHANGED <<batcherVars, batcherOn, cacheOn, cache, flightOf, phase, joined>>

\* LruTtlCache.get() with a live entry: move it to the end and answer.
AskHit(q) ==
  LET t == TextAsked[q]
  IN  /\ phase[q] = "new" /\ t \in Cached \ stale
      /\ cache' = Append(RemoveFirst(cache, t), t)
      /\ phase' = [phase EXCEPT ![q] = "answered"]
      /\ UNCHANGED <<batcherVars, batcherOn, cacheOn, stale, flightOf, joined>>

\* LruTtlCache.get() without one: an expired entry is deleted.
CacheMiss(t) ==
  /\ t \notin Cached \ stale
  /\ cache' = RemoveFirst(cache, t)
  /\ stale' = stale \ {t}

\* Another request's flight for the text is under way: await it.
AskJoins(q) ==
  LET t == TextAsked[q]
  IN  /\ phase[q] = "new" /\ flightOf[t] # NoFlight
      /\ CacheMiss(t)
      /\ joined' = [joined EXCEPT ![q] = flightOf[t]]
      /\ phase' = [phase EXCEPT ![q] = "waiting"]
      /\ UNCHANGED <<batcherVars, batcherOn, cacheOn, flightOf>>

\* The flight's first synchronous stretch: enqueue(), or the provider call.
TakeOff(i) ==
  \/ batcherOn /\ Enqueue(i)
  \/ /\ ~batcherOn /\ state[i] = "new"
     /\ state' = [state EXCEPT ![i] = "embedding"]
     /\ UNCHANGED <<queue, expired, timer, inflight, batches, vector>>

NewFlights(t) == {i \in Items : KeyOf[i] = t /\ state[i] = "new"}

\* The map of flights is not consulted (a mutation of AskFlies).
AskFliesAlways(q) ==
  LET t == TextAsked[q]
  IN  /\ phase[q] = "new"
      /\ CacheMiss(t)
      /\ NewFlights(t) # {}
      /\ LET i == CHOOSE i \in NewFlights(t) : TRUE
         IN  /\ TakeOff(i)
             /\ flightOf' = [flightOf EXCEPT ![t] = i]
             /\ joined' = [joined EXCEPT ![q] = i]
      /\ phase' = [phase EXCEPT ![q] = "waiting"]
      /\ UNCHANGED <<batcherOn, cacheOn>>

\* No flight for the text: start one and publish it.
AskFlies(q) ==
  LET t == TextAsked[q]
  IN  /\ phase[q] = "new" /\ flightOf[t] = NoFlight
      /\ CacheMiss(t)
      /\ NewFlights(t) # {}
      /\ LET i == CHOOSE i \in NewFlights(t) : TRUE
         IN  /\ TakeOff(i)
             /\ flightOf' = [flightOf EXCEPT ![t] = i]
             /\ joined' = [joined EXCEPT ![q] = i]
      /\ phase' = [phase EXCEPT ![q] = "waiting"]
      /\ UNCHANGED <<batcherOn, cacheOn>>

\* Without a batcher the flight's own provider call returns or throws.
DirectCallEnds(i) ==
  /\ ~batcherOn /\ state[i] = "embedding"
  /\ \/ /\ state' = [state EXCEPT ![i] = "resolved"]
        /\ vector' = [vector EXCEPT ![i] = KeyOf[i]]
     \/ /\ state' = [state EXCEPT ![i] = "rejected"]
        /\ UNCHANGED vector
  /\ UNCHANGED <<queue, expired, timer, inflight, batches, recallVars>>

\* Whoever awaits flight i continues with its vector or its error.
AnswerWaiters(i) ==
  phase' = [q \in Requests |->
              IF phase[q] = "waiting" /\ joined[q] = i
              THEN IF state[i] = "resolved" THEN "answered" ELSE "failed"
              ELSE phase[q]]

\* Failures are cached too (a mutation of CacheAnswer).
CacheAnswerAlways(i) ==
  IF cacheOn THEN CacheSet(KeyOf[i]) ELSE UNCHANGED <<cache, stale>>

\* recallTextEmbedCache?.set() after the await.
CacheAnswer(i) ==
  IF cacheOn /\ state[i] = "resolved"
  THEN CacheSet(KeyOf[i]) ELSE UNCHANGED <<cache, stale>>

\* A failed flight stays published (a mutation of Lands).
LandsIfResolved(i) ==
  /\ state[i] \in Settled /\ flightOf[KeyOf[i]] = i
  /\ CacheAnswer(i)
  /\ flightOf' = [flightOf EXCEPT ![KeyOf[i]] =
                    IF state[i] = "resolved" THEN NoFlight ELSE i]
  /\ AnswerWaiters(i)
  /\ UNCHANGED <<batcherVars, batcherOn, cacheOn, joined>>

\* The microtasks after a flight has settled: cache the vector, finally()
\* takes the flight off the map, and its waiters, which await the promise
\* returned by finally(), continue.
Lands(i) ==
  /\ state[i] \in Settled /\ flightOf[KeyOf[i]] = i
  /\ CacheAnswer(i)
  /\ flightOf' = [flightOf EXCEPT ![KeyOf[i]] = NoFlight]
  /\ AnswerWaiters(i)
  /\ UNCHANGED <<batcherVars, batcherOn, cacheOn, joined>>

BatcherWorks ==
  /\ Age \/ Flush \/ BatchSettlesSomehow \/ SomeBatchEnds
  /\ UNCHANGED recallVars

Next ==
  \/ BatcherWorks
  \/ \E t \in Keys : Expire(t)
  \/ \E q \in Requests : AskHit(q) \/ AskJoins(q) \/ AskFlies(q)
  \/ \E i \in Items : DirectCallEnds(i) \/ Lands(i)

Spec == Init /\ [][Next]_vars

\* As for the batcher; microtasks run, and a direct call settles too.
Fairness ==
  /\ WF_vars(Flush /\ UNCHANGED recallVars)
  /\ WF_vars(BatchSettlesSomehow /\ UNCHANGED recallVars)
  /\ WF_vars(SomeBatchEnds /\ UNCHANGED recallVars)
  /\ \A i \in Items : WF_vars(DirectCallEnds(i)) /\ WF_vars(Lands(i))

LiveSpec == Spec /\ Fairness

----------------------------------------------------------------------------
\* Types of the batcher, the cache, the flights and the requests; the cache never
\* exceeds maxEntries, holds a text twice, or holds one whose flight failed.
RecallTypeOK ==
  /\ TypeOK
  /\ cache \in Seq(Keys) /\ Len(cache) <= MaxEntries
  /\ Cardinality(Cached) = Len(cache)
  /\ stale \subseteq Cached
  /\ \A t \in Cached : \E i \in Items : KeyOf[i] = t /\ vector[i] = t
  /\ flightOf \in [Keys -> Items \cup {NoFlight}]
  /\ phase \in [Requests -> {"new", "waiting", "answered", "failed"}]
  /\ joined \in [Requests -> Items \cup {NoFlight}]

\* At most one provider request for a text is pending at any time.
OneFlightPerText ==
  \A i, j \in Items :
    /\ KeyOf[i] = KeyOf[j]
    /\ {state[i], state[j]} \subseteq {"queued", "embedding"}
    => i = j

\* Every request that waits gets its vector or an error, and a failed flight
\* does not fail the requests that ask for its text later.
RequestsAreAnswered ==
  \A q \in Requests : phase[q] = "waiting" ~> phase[q] \in {"answered", "failed"}
============================================================================
