---------------------------- MODULE SeriesLookup ----------------------------
(***************************************************************************)
(* The way from a channel's properties to its series id: a batcher         *)
(* (batchtools/src/batcher.rs) collects queries, workers                   *)
(* (dbpg/src/seriesbychannel.rs) look the batches up, insert what is       *)
(* missing, and answer.  A key stands for backend, channel name, type and  *)
(* shape.  The database and the receivers of the answers may fail.         *)
(***************************************************************************)
EXTENDS Naturals, Sequences, FiniteSets, SequencesExt

CONSTANTS Queries, Keys, Series, KeyOf, NoSeries,
          Workers,
          InpCap,    \* inp_cap, 128 in the code
          OutCap,    \* batch_out_cap, 4 in the code
          Limit,     \* batch_limit, equal to inp_cap in the code
          MaxFaults  \* how often the database or a receiver fails

ASSUME LookupAssumption ==
  /\ KeyOf \in [Queries -> Keys]
  /\ NoSeries \notin Series
  /\ {InpCap, OutCap, Limit} \subseteq Nat \ {0}
  /\ MaxFaults \in Nat
  /\ Workers # {}

VARIABLES
  asked,   \* history: the queries sent so far
  open,    \* some sender of the query queue is left
  input,   \* query_tx, query_rx
  all,     \* what the batcher has collected
  batcher, \* "recv", "emit" while it sends a batch, "done"
  batches, \* batch_tx, batch_rx
  wk,      \* per worker its place in work, the queries it looks up and the
           \* queries it has found, in order
  table,   \* series_by_channel
  answer,  \* what each query was answered
  faults

askVars   == <<asked, open>>
batchVars == <<all, batcher>>
vars == <<askVars, input, batchVars, batches, wk, table, answer, faults>>

At(pc, batch, found) == [pc |-> pc, batch |-> batch, found |-> found]

Idle == At("idle", <<>>, <<>>)

Ended == At("ended", <<>>, <<>>)

Init ==
  /\ asked = {} /\ open = TRUE
  /\ input = <<>> /\ all = <<>> /\ batcher = "recv" /\ batches = <<>>
  /\ wk = [w \in Workers |-> Idle]
  /\ table \in [Keys -> Series \cup {NoSeries}]
  /\ \A j, k \in Keys : table[j] = table[k] => j = k \/ table[j] = NoSeries
  /\ answer = [q \in Queries |-> NoSeries]
  /\ faults = 0

AllEnded == \A w \in Workers : wk[w].pc = "ended"

-----------------------------------------------------------------------------
(* Whoever asks *)

Ask == \E q \in Queries \ asked :
  /\ open /\ batcher # "done" /\ Len(input) < InpCap
  /\ input' = Append(input, q)
  /\ asked' = asked \cup {q}
  /\ UNCHANGED <<open, batchVars, batches, wk, table, answer, faults>>

Close ==
  /\ open
  /\ open' = FALSE
  /\ UNCHANGED <<asked, input, batchVars, batches, wk, table, answer, faults>>

-----------------------------------------------------------------------------
(* The batcher *)

TakeQuery ==
  /\ batcher = "recv" /\ input # <<>>
  /\ input' = Tail(input)
  /\ all' = Append(all, Head(input))
  /\ batcher' = IF Len(all') >= Limit THEN "emit" ELSE "recv"
  /\ UNCHANGED <<askVars, batches, wk, table, answer, faults>>

\* Mutant: only the limit sends a batch.
TimesOutNever == FALSE

\* tokio polls the receive before the timeout.
TimesOut ==
  /\ batcher = "recv" /\ input = <<>> /\ all # <<>>
  /\ batcher' = "emit"
  /\ UNCHANGED <<askVars, input, all, batches, wk, table, answer, faults>>

EmitBatch ==
  /\ batcher = "emit" /\ ~AllEnded /\ Len(batches) < OutCap
  /\ batches' = Append(batches, all)
  /\ all' = <<>> /\ batcher' = "recv"
  /\ UNCHANGED <<askVars, input, wk, table, answer, faults>>

\* No receiver is left: the batch comes back and is kept.
EmitFails ==
  /\ batcher = "emit" /\ AllEnded
  /\ batcher' = "recv"
  /\ UNCHANGED <<askVars, input, all, batches, wk, table, answer, faults>>

\* What was collected so far goes with the batcher.
InputEnds ==
  /\ batcher = "recv" /\ input = <<>> /\ ~open
  /\ batcher' = "done" /\ all' = <<>>
  /\ UNCHANGED <<askVars, input, batches, wk, table, answer, faults>>

-----------------------------------------------------------------------------
(* A worker *)

\* The places of the batch that the select has a row for.
Rows(batch) == {i \in 1 .. Len(batch) : table[KeyOf[batch[i]]] # NoSeries}

\* The number of a row in `order by q1.rid'.
RowNo(batch, i) == Cardinality({j \in Rows(batch) : j <= i})

(* The queries and the rows are gone through side by side, one row per query: *)
(* a query that meets the row of another one is dropped.  No query behind it  *)
(* meets its own row any more, so that those that do are the first ones.      *)
Meets(batch) == {i \in Rows(batch) : RowNo(batch, i) = i}

Found(batch) ==
  [i \in Meets(batch) |-> [q |-> batch[i], series |-> table[KeyOf[batch[i]]]]]

\* Mutant: the row is advanced before the query is given up.
MissingTooFew(batch) == SubSeq(batch, Cardinality(Rows(batch)) + 2, Len(batch))

\* Once the rows are used up, whatever is left counts as missing.
Missing(batch) == SubSeq(batch, Cardinality(Rows(batch)) + 1, Len(batch))

RecvBatch(w) ==
  /\ wk[w].pc = "idle" /\ batches # <<>>
  /\ wk' = [wk EXCEPT ![w] = At("select", Head(batches), <<>>)]
  /\ batches' = Tail(batches)
  /\ UNCHANGED <<askVars, input, batchVars, table, answer, faults>>

WorkerDone(w) ==
  /\ wk[w].pc = "idle" /\ batches = <<>> /\ batcher = "done"
  /\ wk' = [wk EXCEPT ![w] = Ended]
  /\ UNCHANGED <<askVars, input, batchVars, batches, table, answer, faults>>

\* If some are missing, what was found is dropped.
Select(w) ==
  /\ wk[w].pc = "select"
  /\ LET b == wk[w].batch IN
     wk' = [wk EXCEPT ![w] =
              IF Missing(b) # <<>>
              THEN At("insert", Missing(b), <<>>)
              ELSE At("reply", <<>>, Found(b))]
  /\ UNCHANGED <<askVars, input, batchVars, batches, table, answer, faults>>

Taken == {table[k] : k \in Keys} \ {NoSeries}

\* Mutant: the insert updates the row that is there.
InsertOverwrites(w) ==
  /\ wk[w].pc = "insert"
  /\ LET new == {KeyOf[q] : q \in ToSet(wk[w].batch)} IN
     \E ids \in [new -> Series \ Taken] :
        table' = [k \in Keys |-> IF k \in new THEN ids[k] ELSE table[k]]
  /\ wk' = [wk EXCEPT ![w] = At("reselect", @.batch, <<>>)]
  /\ UNCHANGED <<askVars, input, batchVars, batches, answer, faults>>

\* One statement, which leaves alone the keys that are there already.  A series
\* id that is in use fails its row without a word.
Insert(w) ==
  /\ wk[w].pc = "insert"
  /\ LET new == {KeyOf[q] : q \in ToSet(wk[w].batch)} IN
     \E ids \in [{k \in new : table[k] = NoSeries} -> Series] :
        /\ \A j, k \in DOMAIN ids : ids[j] = ids[k] => j = k
        /\ LET good == {k \in DOMAIN ids : ids[k] \notin Taken} IN
           /\ table' = [k \in Keys |-> IF k \in good THEN ids[k] ELSE table[k]]
           /\ IF good = DOMAIN ids THEN UNCHANGED faults
              ELSE faults < MaxFaults /\ faults' = faults + 1
  /\ wk' = [wk EXCEPT ![w] = At("reselect", @.batch, <<>>)]
  /\ UNCHANGED <<askVars, input, batchVars, batches, answer>>

\* A series that is still missing ends the worker.
Reselect(w) ==
  /\ wk[w].pc = "reselect"
  /\ LET b == wk[w].batch IN
     wk' = [wk EXCEPT ![w] =
              IF Missing(b) # <<>> THEN Ended
              ELSE At("reply", <<>>, Found(b))]
  /\ UNCHANGED <<askVars, input, batchVars, batches, table, answer, faults>>

Reply(w) ==
  /\ wk[w].pc = "reply"
  /\ LET r == Head(wk[w].found)
         rest == Tail(wk[w].found) IN
     /\ answer' = [answer EXCEPT ![r.q] = r.series]
     /\ wk' = [wk EXCEPT ![w] = IF rest = <<>> THEN Idle ELSE At("reply", <<>>, rest)]
  /\ UNCHANGED <<askVars, input, batchVars, batches, table, faults>>

\* A database error, or an answer to a receiver that is gone, ends the worker.
WorkerFails(w) ==
  /\ wk[w].pc \in {"select", "insert", "reselect", "reply"}
  /\ faults < MaxFaults /\ faults' = faults + 1
  /\ wk' = [wk EXCEPT ![w] = Ended]
  /\ UNCHANGED <<askVars, input, batchVars, batches, table, answer>>

-----------------------------------------------------------------------------
BatcherStep == TakeQuery \/ TimesOut \/ EmitBatch \/ EmitFails \/ InputEnds

WorkerStep(w) ==
  RecvBatch(w) \/ WorkerDone(w) \/ Select(w) \/ Insert(w) \/ Reselect(w) \/ Reply(w)

Next == \/ Ask \/ Close \/ BatcherStep
        \/ \E w \in Workers : WorkerStep(w) \/ WorkerFails(w)

\* The tasks are scheduled, the database answers, receivers take their answers.
Spec == /\ Init /\ [][Next]_vars
        /\ WF_vars(BatcherStep)
        /\ \A w \in Workers : WF_vars(WorkerStep(w))

-----------------------------------------------------------------------------
(* Where a query can be *)

InWorker(w) == ToSet(wk[w].batch) \cup {r.q : r \in ToSet(wk[w].found)}

InBatches == UNION {ToSet(b) : b \in ToSet(batches)}

Pending == IF AllEnded THEN {}
           ELSE ToSet(input) \cup ToSet(all) \cup InBatches
                  \cup UNION {InWorker(w) : w \in Workers}

Answered == {q \in Queries : answer[q] # NoSeries}

Lost == asked \ (Pending \cup Answered)

Lookup == INSTANCE LookupService WITH pending <- Pending, lost <- Lost

-----------------------------------------------------------------------------
(* To whoever asks, batcher and workers are a LookupService: each answer is *)
(* the series of the query's own key, which is no other key's and does not  *)
(* change, no query is answered twice, none comes back after it was lost.   *)
ImplementsLookup == Lookup!Spec

(* As long as the database works and the input is open, a query is lost     *)
(* only by a worker that finds some keys of its batch known and others not: *)
(* in work, `res1' is dropped, and in select the queries next to the rows   *)
(* of others.                                                               *)
Mixed(w) ==
  /\ wk[w].pc = "select"
  /\ \E p, q \in ToSet(wk[w].batch) : /\ table[KeyOf[p]] # NoSeries
                                      /\ table[KeyOf[q]] = NoSeries

LossNeedsFault ==
  [][Lost' # Lost => \/ faults' > 0 \/ ~open
                     \/ \E w \in Workers : Mixed(w) /\ wk'[w].pc = "insert"]_vars

(* Nothing stays in the pipeline, not even when all workers have ended and  *)
(* a batch is left with the batcher: a query is answered or lost.           *)
QueriesSettle == \A q \in Queries : q \in Pending ~> q \notin Pending
=============================================================================
