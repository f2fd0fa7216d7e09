------------------------- MODULE EmbedQueryBatcher -------------------------
(***************************************************************************)
(* The queue that turns single query embeddings into provider batches      *)
(* (util/embed_query_batcher.ts).  flush() runs without an await up to the *)
(* provider call, so one Flush step is the whole loop; a batch then        *)
(* settles in two microtasks, its then/catch and its finally.              *)
(***************************************************************************)
EXTENDS Naturals, Sequences, SequencesExt, FiniteSets

CONSTANTS
  Items,              \* calls of enqueue
  KeyOf,              \* the key (one text each) of every item
  MaxBatchSize, MaxInflightBatches, MaxQueue

ASSUME BatcherConstants ==
  {MaxBatchSize, MaxInflightBatches, MaxQueue} \subseteq Nat \ {0}

VARIABLES
  queue,     \* EmbedQueryBatcher.queue
  expired,   \* how many items at its head have waited over queueTimeoutMs
  timer,     \* flushTimer # null
  inflight,  \* inflightBatches
  batches,   \* the provider calls whose finally has not run
  state,     \* where each item's promise is
  vector     \* the text whose vector each resolved item was given

batcherVars == <<queue, expired, timer, inflight, batches, state, vector>>

States == {"new", "queue_full", "queued", "queue_timeout", "embedding",
           "resolved", "rejected"}
NoVector == "no vector"
Keys == {KeyOf[i] : i \in Items}

BatcherInit ==
  /\ queue = <<>> /\ expired = 0
  /\ timer = FALSE
  /\ inflight = 0 /\ batches = {}
  /\ state = [i \in Items |-> "new"]
  /\ vector = [i \in Items |-> NoVector]

\* enqueue(): throw when full, else queue the item and see that a flush comes.
Enqueue(i) ==
  /\ state[i] = "new"
  /\ \/ /\ Len(queue) >= MaxQueue
        /\ state' = [state EXCEPT ![i] = "queue_full"]
        /\ UNCHANGED <<queue, timer>>
     \/ /\ Len(queue) < MaxQueue
        /\ state' = [state EXCEPT ![i] = "queued"]
        /\ queue' = Append(queue, i)
        /\ timer' = TRUE
  /\ UNCHANGED <<expired, inflight, batches, vector>>

\* The clock passes enqueuedAtMs + queueTimeoutMs of the oldest fresh item.
Age ==
  /\ expired < Len(queue)
  /\ expired' = expired + 1
  /\ UNCHANGED <<queue, timer, inflight, batches, state, vector>>

\* One batch more than maxInflightBatches (a mutation of Room).
RoomOneMore == MaxInflightBatches + 1 - inflight

\* How many batches the loop of flush() may still start.
Room == MaxInflightBatches - inflight

\* The items flush() may pick, oldest first.
Fresh == SubSeq(queue, expired + 1, Len(queue))

\* How many fresh items the loop picks when it runs.
Picked ==
  IF Len(Fresh) < Room * MaxBatchSize THEN Len(Fresh) ELSE Room * MaxBatchSize

\* The b-th batch the loop cuts off the fresh items.
Batch(b) ==
  LET last == IF b * MaxBatchSize < Picked THEN b * MaxBatchSize ELSE Picked
  IN  SubSeq(Fresh, (b - 1) * MaxBatchSize + 1, last)

NewBatches ==
  {[items |-> Batch(b), settled |-> FALSE] :
     b \in {b \in 1..Room : Batch(b) # <<>>}}

\* A timer callback runs only after the microtasks of a settled batch.
MicrotasksDone == \A b \in batches : ~b.settled

\* The timer with every batch slot taken: try again later if items wait.
FlushBusy ==
  /\ timer /\ MicrotasksDone /\ inflight >= MaxInflightBatches
  /\ timer' = (queue # <<>>)
  /\ UNCHANGED <<queue, expired, inflight, batches, state, vector>>

\* The timer with a free slot: reject the expired items, batch fresh ones.
FlushRuns ==
  /\ timer /\ MicrotasksDone /\ inflight < MaxInflightBatches
  /\ LET late  == {queue[k] : k \in 1..expired}
         taken == {Fresh[k] : k \in 1..Picked}
     IN  state' = [i \in Items |-> IF i \in late  THEN "queue_timeout" ELSE
                                   IF i \in taken THEN "embedding" ELSE state[i]]
  /\ queue' = SubSeq(Fresh, Picked + 1, Len(Fresh))
  /\ expired' = 0
  /\ batches' = batches \cup NewBatches
  /\ inflight' = inflight + Cardinality(NewBatches)
  /\ timer' = (queue' # <<>>)
  /\ UNCHANGED vector

Flush == FlushBusy \/ FlushRuns

\* The distinct texts of a batch in the order flush() meets them.
Texts(items) ==
  FoldLeft(LAMBDA acc, i : IF Contains(acc, KeyOf[i]) THEN acc
                                                      ELSE Append(acc, KeyOf[i]),
           <<>>, items)

\* idx is never advanced (a mutation of VectorIndex).
VectorIndexFirst(items, i) == 1

\* The index `idx` that flush() uses for the group of item i.
VectorIndex(items, i) ==
  CHOOSE g \in 1..Len(Texts(items)) : Texts(items)[g] = KeyOf[i]

\* then(): the first `good` vectors are sound, and the groups they belong to
\* resolve; at the first bad one, or when the call fails or returns another
\* number of vectors (good = 0), catch() rejects what is still pending.
BatchSettles(b, good) ==
  /\ ~b.settled
  /\ LET of(i)     == VectorIndex(b.items, i)
         served(i) == Contains(b.items, i) /\ of(i) <= good
     IN  /\ state' = [i \in Items |->
                        IF served(i) THEN "resolved" ELSE
                        IF Contains(b.items, i) THEN "rejected" ELSE state[i]]
         /\ vector' = [i \in Items |->
                        IF served(i) THEN Texts(b.items)[of(i)] ELSE vector[i]]
  /\ batches' = (batches \ {b}) \cup {[b EXCEPT !.settled = TRUE]}
  /\ UNCHANGED <<queue, expired, timer, inflight>>

\* finally() gives no slot back when the batch failed (a mutation of
\* BatchEnds).
BatchEndsIfGood(b) ==
  /\ b.settled
  /\ batches' = batches \ {b}
  /\ inflight' = IF \E i \in Items : Contains(b.items, i) /\ state[i] = "resolved"
                 THEN inflight - 1 ELSE inflight
  /\ timer' = (timer \/ queue # <<>>)
  /\ UNCHANGED <<queue, expired, state, vector>>

\* finally(): give the slot back and flush at once if items wait.
BatchEnds(b) ==
  /\ b.settled
  /\ batches' = batches \ {b}
  /\ inflight' = IF inflight > 0 THEN inflight - 1 ELSE 0
  /\ timer' = (timer \/ queue # <<>>)
  /\ UNCHANGED <<queue, expired, state, vector>>

BatchSettlesSomehow ==
  \E b \in batches : \E good \in 0..Len(Texts(b.items)) : BatchSettles(b, good)
SomeBatchEnds == \E b \in batches : BatchEnds(b)

BatcherNext ==
  \/ \E i \in Items : Enqueue(i)
  \/ Age \/ Flush \/ BatchSettlesSomehow \/ SomeBatchEnds

----------------------------------------------------------------------------
\* Types of the batcher's fields; the queue never exceeds maxQueue.
TypeOK ==
  /\ queue \in Seq(Items) /\ Len(queue) <= MaxQueue
  /\ expired \in 0..Len(queue)
  /\ timer \in BOOLEAN
  /\ inflight \in 0..MaxInflightBatches
  /\ \A b \in batches : /\ b.items \in Seq(Items) /\ b.settled \in BOOLEAN
                        /\ Len(b.items) \in 1..MaxBatchSize
  /\ state \in [Items -> States]
  /\ vector \in [Items -> Keys \cup {NoVector}]

\* Each resolved item has the vector of its own text, whatever duplicates its
\* batch held and however much of the answer was unusable.
OwnVector ==
  \A i \in Items : vector[i] = IF state[i] = "resolved" THEN KeyOf[i] ELSE NoVector
============================================================================
