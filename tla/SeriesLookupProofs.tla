------------------------- MODULE SeriesLookupProofs -------------------------
(***************************************************************************)
(* Proofs about the series lookup for every set of queries, keys, series   *)
(* and workers, every capacity and any number of faults.                   *)
(***************************************************************************)
EXTENDS SeriesLookup, FiniteSetTheorems, WellFoundedInduction, TLAPS

\* A set of natural numbers that is not empty has a least element.
LEMMA LeastNatural ==
  ASSUME NEW S, S \subseteq Nat, S # {}
  PROVE  \E n \in S : \A m \in S : n <= m
<1> DEFINE less == {p \in Nat \X Nat : p[1] < p[2]}
<1>1. IsWellFoundedOn(less, Nat)
  BY NatLessThanWellFounded DEF OpToRel
<1>2. \A m, n \in Nat : <<m, n>> \notin less => n <= m
  OBVIOUS
<1> HIDE DEF less
<1>3. PICK n \in S : \A m \in S : <<m, n>> \notin less
  BY <1>1, WFMin
<1>4. QED
  BY <1>2, <1>3

(***************************************************************************)
(* What a select makes of a batch.                                         *)
(***************************************************************************)

\* How many rows there can be.
LEMMA RowsType ==
  ASSUME NEW b \in Seq(Queries)
  PROVE  /\ Rows(b) \subseteq 1 .. Len(b) /\ IsFiniteSet(Rows(b))
         /\ Cardinality(Rows(b)) \in 0 .. Len(b)
         /\ Cardinality(Rows(b)) = Len(b) => Rows(b) = 1 .. Len(b)
<1>1. Len(b) \in Nat /\ Rows(b) \subseteq 1 .. Len(b)
  BY DEF Rows
<1> DEFINE n == Len(b)
<1> HIDE DEF n
<1>2. IsFiniteSet(1 .. n) /\ Cardinality(1 .. n) = n
  <2>1. n \in Nat
    BY <1>1 DEF n
  <2>2. QED
    BY <2>1, FS_Interval
<1>3. /\ IsFiniteSet(Rows(b)) /\ Cardinality(Rows(b)) <= Len(b)
      /\ Cardinality(Rows(b)) = Len(b) => Rows(b) = 1 .. Len(b)
  <2>1. Rows(b) \in SUBSET (1 .. Len(b))
    BY <1>1
  <2>2. QED
    BY <1>2, <2>1, FS_Subset DEF n
<1>4. Cardinality(Rows(b)) \in Nat
  BY <1>3, FS_CardinalityType
<1>5. QED
  BY <1>1, <1>3, <1>4

(* A query meets its own row just when it and all queries before it have   *)
(* one.                                                                    *)
LEMMA MeetsFirst ==
  ASSUME NEW b \in Seq(Queries), NEW i \in 1 .. Len(b)
  PROVE  i \in Meets(b) <=> 1 .. i \subseteq Rows(b)
<1> DEFINE upto == {j \in Rows(b) : j <= i}
<1>1. Len(b) \in Nat /\ i \in Nat /\ i >= 1 /\ i <= Len(b)
  OBVIOUS
<1>2. IsFiniteSet(1 .. i) /\ Cardinality(1 .. i) = i
  BY <1>1, FS_Interval
<1>3. upto \in SUBSET (1 .. i)
  BY RowsType
<1>4. Cardinality(upto) = i => upto = 1 .. i
  BY <1>2, <1>3, FS_Subset
<1>5. 1 .. i \subseteq Rows(b) <=> upto = 1 .. i
  BY <1>1, <1>3
<1>6. upto = 1 .. i => i \in Rows(b)
  BY <1>1
<1>7. i \in Meets(b) <=> i \in Rows(b) /\ Cardinality(upto) = i
  BY DEF Meets, RowNo
<1>8. QED
  BY <1>2, <1>4, <1>5, <1>6, <1>7

\* So the queries that do are the first ones: what is found is a sequence.
LEMMA MeetsInterval ==
  ASSUME NEW b \in Seq(Queries)
  PROVE  \E n \in 0 .. Len(b) : Meets(b) = 1 .. n
<1>1. Len(b) \in Nat /\ Rows(b) \subseteq 1 .. Len(b) /\ Meets(b) \subseteq 1 .. Len(b)
  BY RowsType DEF Meets
<1> DEFINE S == {i \in Nat \ {0} : i \notin Rows(b)}
<1>2. S \subseteq Nat /\ Len(b) + 1 \in S
  BY <1>1
<1>3. PICK m \in S : \A i \in S : m <= i
  BY <1>2, LeastNatural
<1>4. m \in Nat \ {0} /\ m \notin Rows(b) /\ m <= Len(b) + 1
  BY <1>2, <1>3
<1>5. 1 .. (m - 1) \subseteq Rows(b)
  <2>1. ASSUME NEW i \in 1 .. (m - 1), i \notin Rows(b) PROVE FALSE
    <3>1. i \in S /\ i < m
      BY <1>4, <2>1
    <3>2. QED
      BY <1>3, <1>4, <3>1
  <2>2. QED
    BY <2>1
<1>6. ASSUME NEW i \in 1 .. Len(b)
      PROVE  i \in Meets(b) <=> i <= m - 1
  <2>1. 1 .. i \subseteq Rows(b) <=> i <= m - 1
    BY <1>4, <1>5
  <2>2. QED
    BY <2>1, MeetsFirst
<1>7. m - 1 \in 0 .. Len(b)
  BY <1>1, <1>4
<1>8. \A i \in 1 .. (m - 1) : i \in 1 .. Len(b) /\ i <= m - 1
  BY <1>1, <1>4
<1>9. \A i \in 1 .. Len(b) : i <= m - 1 => i \in 1 .. (m - 1)
  BY <1>1, <1>4
<1>10. Meets(b) = 1 .. (m - 1)
  BY <1>1, <1>6, <1>8, <1>9
<1>11. QED
  BY <1>7, <1>10

\* What was found is the queries of a first part of the batch, with their series.
LEMMA FoundIsFirst ==
  ASSUME NEW b \in Seq(Queries), table \in [Keys -> Series \cup {NoSeries}]
  PROVE  /\ Found(b) \in Seq([q : Queries, series : Series])
         /\ DOMAIN Found(b) \subseteq DOMAIN b
         /\ \A i \in DOMAIN Found(b) : /\ Found(b)[i].q = b[i]
                                        /\ Found(b)[i].series = table[KeyOf[b[i]]]
         /\ Missing(b) = <<>> => DOMAIN Found(b) = DOMAIN b
<1>1. PICK n \in 0 .. Len(b) : Meets(b) = 1 .. n
  BY MeetsInterval
<1>2. /\ DOMAIN b = 1 .. Len(b) /\ Len(b) \in Nat
      /\ DOMAIN Found(b) = Meets(b)
      /\ \A i \in Meets(b) : Found(b)[i] = [q |-> b[i], series |-> table[KeyOf[b[i]]]]
  BY DEF Found
<1>3. ASSUME NEW i \in Meets(b)
      PROVE  /\ i \in 1 .. Len(b) /\ b[i] \in Queries
             /\ table[KeyOf[b[i]]] \in Series
  <2>1. i \in Rows(b) /\ i \in 1 .. Len(b)
    BY RowsType DEF Meets
  <2>2. b[i] \in Queries /\ KeyOf[b[i]] \in Keys
    BY <2>1, LookupAssumption
  <2>3. table[KeyOf[b[i]]] # NoSeries
    BY <2>1 DEF Rows
  <2>4. QED
    BY <2>1, <2>2, <2>3
<1>4. Found(b) \in Seq([q : Queries, series : Series])
  <2>1. Found(b) \in [1 .. n -> [q : Queries, series : Series]]
    BY <1>1, <1>3 DEF Found
  <2>2. n \in Nat
    BY <1>2
  <2>3. \A S : \A f \in [1 .. n -> S] : f \in Seq(S)
    BY ONLY <2>2
  <2>4. QED
    BY <2>1, <2>3
<1>5. ASSUME Missing(b) = <<>>
      PROVE  Meets(b) = 1 .. Len(b)
  <2>1. Cardinality(Rows(b)) \in 0 .. Len(b)
    BY RowsType
  <2>2. Len(Missing(b)) = Len(b) - Cardinality(Rows(b))
    BY <1>2, <2>1 DEF Missing
  <2>3. Len(Missing(b)) = 0
    BY <1>5
  <2>4. Rows(b) = 1 .. Len(b)
    BY <1>2, <2>1, <2>2, <2>3, RowsType
  <2>5. \A i \in 1 .. Len(b) : i \in Meets(b)
    BY <1>2, <2>4, MeetsFirst
  <2>6. QED
    BY <1>3, <2>5
<1>6. QED
  BY <1>2, <1>3, <1>4, <1>5

\* What is missing is the last part of the batch, all of it if there is no row.
LEMMA MissingIsLast ==
  ASSUME NEW b \in Seq(Queries)
  PROVE  /\ Missing(b) \in Seq(Queries)
         /\ \E m \in Nat : \A i \in DOMAIN Missing(b) :
                             i + m \in DOMAIN b /\ Missing(b)[i] = b[i + m]
         /\ Rows(b) = {} => Missing(b) = b
         /\ Missing(b) # <<>> => Rows(b) # DOMAIN b
<1> DEFINE m == Cardinality(Rows(b))
<1>1. m \in 0 .. Len(b) /\ Len(b) \in Nat
  BY RowsType
<1>2. Missing(b) = SubSeq(b, m + 1, Len(b))
  BY DEF Missing
<1> HIDE DEF m
<1>3. /\ Missing(b) \in Seq(Queries)
      /\ DOMAIN Missing(b) = 1 .. (Len(b) - m)
      /\ \A i \in 1 .. (Len(b) - m) : Missing(b)[i] = b[i + m]
  BY <1>1, <1>2
<1>4. \A i \in DOMAIN Missing(b) : i + m \in DOMAIN b
  BY <1>1, <1>3
<1>5. ASSUME Rows(b) = {} PROVE Missing(b) = b
  <2>1. m = 0
    BY <1>5, FS_EmptySet DEF m
  <2>2. QED
    BY <1>2, <2>1
<1>6. ASSUME Missing(b) # <<>> PROVE Rows(b) # DOMAIN b
  <2>1. m # Len(b)
    BY <1>2, <1>6
  <2>2. \A n \in Nat : Cardinality(1 .. n) = n
    BY FS_Interval
  <2>3. DOMAIN b = 1 .. Len(b)
    BY <1>1
  <2>4. QED
    BY <1>1, <2>1, <2>2, <2>3 DEF m
<1>7. m \in Nat
  BY <1>1
<1>8. QED
  BY <1>3, <1>4, <1>5, <1>6, <1>7

-----------------------------------------------------------------------------
(* Queues: the types, what a worker has, and what is in the table.         *)

Reply_ == [q : Queries, series : Series]

Places == {"idle", "select", "insert", "reselect", "reply", "ended"}

WorkerState == [pc : Places, batch : Seq(Queries), found : Seq(Reply_)]

TypeOK ==
  /\ asked \in SUBSET Queries
  /\ open \in BOOLEAN
  /\ input \in Seq(Queries)
  /\ all \in Seq(Queries)
  /\ batcher \in {"recv", "emit", "done"}
  /\ batches \in Seq(Seq(Queries))
  /\ wk \in [Workers -> WorkerState]
  /\ table \in [Keys -> Series \cup {NoSeries}]
  /\ answer \in [Queries -> Series \cup {NoSeries}]
  /\ faults \in Nat

\* No two keys have the same series.
Apart(t) == \A j, k \in Keys : t[j] = t[k] => j = k \/ t[j] = NoSeries

\* What a worker has is what its place says.
Fits(pc, batch, found) ==
  /\ pc \in {"idle", "ended"} => batch = <<>> /\ found = <<>>
  /\ pc \in {"select", "insert", "reselect"} => batch # <<>> /\ found = <<>>
  /\ pc = "reply" => batch = <<>> /\ found # <<>>

\* What a worker found is what the table says.
Known(found, t) == \A i \in DOMAIN found : found[i].series = t[KeyOf[found[i].q]]

\* A batch that is sent is not empty.
BatchesFull ==
  /\ batcher = "emit" => all # <<>>
  /\ \A i \in DOMAIN batches : batches[i] # <<>>

WorkInv ==
  /\ Apart(table) /\ BatchesFull
  /\ \A w \in Workers : /\ Fits(wk[w].pc, wk[w].batch, wk[w].found)
                        /\ Known(wk[w].found, table)

\* A worker's state has the parts that it was made of.
LEMMA AtFields ==
  ASSUME NEW pc, NEW b, NEW f
  PROVE  /\ At(pc, b, f).pc = pc /\ At(pc, b, f).batch = b /\ At(pc, b, f).found = f
         /\ pc \in Places /\ b \in Seq(Queries) /\ f \in Seq(Reply_) => At(pc, b, f) \in WorkerState
BY DEF At, WorkerState

\* The types of a worker's parts.
LEMMA WorkerField ==
  ASSUME TypeOK, NEW w \in Workers
  PROVE  /\ wk[w] = At(wk[w].pc, wk[w].batch, wk[w].found)
         /\ wk[w].pc \in Places /\ wk[w].batch \in Seq(Queries) /\ wk[w].found \in Seq(Reply_)
<1>1. wk[w] \in WorkerState
  BY DEF TypeOK
<1>2. QED
  BY <1>1 DEF WorkerState, At

\* What a worker has found is the series of some query's key.
LEMMA ReplyField ==
  ASSUME NEW f \in Seq(Reply_), NEW i \in DOMAIN f
  PROVE  f[i].q \in Queries /\ f[i].series \in Series /\ KeyOf[f[i].q] \in Keys
<1>1. f[i] \in Reply_
  OBVIOUS
<1>2. f[i].q \in Queries /\ f[i].series \in Series
  BY <1>1 DEF Reply_
<1>3. QED
  BY <1>2, LookupAssumption

\* Rows with ids of their own, for keys that have none, leave the others alone.
LEMMA NewRows ==
  ASSUME NEW t \in [Keys -> Series \cup {NoSeries}], Apart(t),
         NEW fresh, NEW ids \in [fresh -> Series], NEW good \in SUBSET fresh,
         \A k \in good : \A j \in Keys : ids[k] # t[j],
         \A k \in fresh : t[k] = NoSeries,
         \A j, k \in fresh : ids[j] = ids[k] => j = k,
         NEW t2 \in [Keys -> Series \cup {NoSeries}],
         \A k \in Keys : t2[k] = IF k \in good THEN ids[k] ELSE t[k]
  PROVE  Apart(t2) /\ \A k \in Keys : t[k] # NoSeries => t2[k] = t[k]
BY DEF Apart

\* An insert adds rows, changes none, gives no series to two keys, and without a fault
\* leaves no key of its batch without one.
LEMMA InsertTable ==
  ASSUME TypeOK, Apart(table), NEW w \in Workers, Insert(w)
  PROVE  /\ table' \in [Keys -> Series \cup {NoSeries}]
         /\ \A k \in Keys : table[k] # NoSeries => table'[k] = table[k]
         /\ Apart(table')
         /\ faults' \in Nat
         /\ faults' = 0 => /\ faults = 0
                           /\ \A i \in DOMAIN wk[w].batch : table'[KeyOf[wk[w].batch[i]]] # NoSeries
<1> DEFINE new == {KeyOf[q] : q \in ToSet(wk[w].batch)}
           fresh == {k \in new : table[k] = NoSeries}
<1>1. PICK ids \in [fresh -> Series] :
        /\ \A j, k \in DOMAIN ids : ids[j] = ids[k] => j = k
        /\ LET good == {k \in DOMAIN ids : ids[k] \notin Taken} IN
           /\ table' = [k \in Keys |-> IF k \in good THEN ids[k] ELSE table[k]]
           /\ IF good = DOMAIN ids THEN UNCHANGED faults
              ELSE faults < MaxFaults /\ faults' = faults + 1
  BY DEF Insert
<1> DEFINE good == {k \in fresh : ids[k] \notin Taken}
<1>2. /\ table' = [k \in Keys |-> IF k \in good THEN ids[k] ELSE table[k]]
      /\ IF good = fresh THEN faults' = faults ELSE faults' = faults + 1
      /\ \A j, k \in fresh : ids[j] = ids[k] => j = k
  BY <1>1
<1>3. \A i \in DOMAIN wk[w].batch : KeyOf[wk[w].batch[i]] \in new
  BY DEF ToSet
<1>4. \A i \in DOMAIN wk[w].batch : KeyOf[wk[w].batch[i]] \in Keys
  BY WorkerField, LookupAssumption
<1>5. \A k \in new : k \in fresh \/ table[k] # NoSeries
  OBVIOUS
<1>6. \A k \in fresh : table[k] = NoSeries /\ ids[k] \in Series
  OBVIOUS
<1> HIDE DEF new, fresh
<1>7. \A k \in good : k \in fresh /\ ids[k] \notin Taken
  OBVIOUS
<1> HIDE DEF good
<1>8. table \in [Keys -> Series \cup {NoSeries}] /\ faults \in Nat /\ NoSeries \notin Series
  BY LookupAssumption DEF TypeOK
<1>9. \A k \in good : \A j \in Keys : ids[k] # table[j]
  BY <1>6, <1>7, <1>8 DEF Taken
<1>10. /\ table' \in [Keys -> Series \cup {NoSeries}]
       /\ \A k \in Keys : table[k] # NoSeries => table'[k] = table[k]
       /\ Apart(table')
  <2> DEFINE t2 == table'
  <2>1. /\ t2 \in [Keys -> Series \cup {NoSeries}]
        /\ \A k \in Keys : t2[k] = IF k \in good THEN ids[k] ELSE table[k]
    BY <1>2, <1>6, <1>7, <1>8
  <2>2. good \in SUBSET fresh /\ ids \in [fresh -> Series]
    BY <1>7
  <2>3. \A j, k \in fresh : ids[j] = ids[k] => j = k
    BY <1>2
  <2>4. \A k \in fresh : table[k] = NoSeries
    BY <1>6
  <2> HIDE DEF t2
  <2>5. Apart(t2) /\ \A k \in Keys : table[k] # NoSeries => t2[k] = table[k]
    BY <1>8, <1>9, <2>1, <2>2, <2>3, <2>4, NewRows
  <2>6. QED
    BY <2>1, <2>5 DEF t2
<1>11. faults' \in Nat /\ (faults' = 0 => faults = 0 /\ good = fresh)
  BY <1>2, <1>8
<1>12. ASSUME good = fresh, NEW i \in DOMAIN wk[w].batch
       PROVE  table'[KeyOf[wk[w].batch[i]]] # NoSeries
  <2>1. KeyOf[wk[w].batch[i]] \in new /\ KeyOf[wk[w].batch[i]] \in Keys
    BY <1>3, <1>4
  <2>2. CASE KeyOf[wk[w].batch[i]] \in fresh
    <3>1. table'[KeyOf[wk[w].batch[i]]] = ids[KeyOf[wk[w].batch[i]]]
      BY <1>2, <1>12, <2>1, <2>2
    <3>2. QED
      BY <1>6, <1>8, <2>2, <3>1
  <2>3. CASE table[KeyOf[wk[w].batch[i]]] # NoSeries
    BY <1>10, <2>1, <2>3
  <2>4. QED
    BY <1>5, <2>1, <2>2, <2>3
<1>13. QED
  BY <1>10, <1>11, <1>12

(* What a step of a worker leaves alone, and where the worker is after it. *)
LEMMA WorkerTouches ==
  ASSUME NEW w \in Workers, WorkerStep(w) \/ WorkerFails(w)
  PROVE  UNCHANGED <<asked, open, input, all, batcher>>
BY DEF WorkerStep, WorkerFails, RecvBatch, WorkerDone, Select, Insert, Reselect, Reply, askVars, batchVars

\* Only the worker that steps changes.
LEMMA WorkerGoes ==
  ASSUME TypeOK, NEW w \in Workers, NEW pc, NEW b, NEW f,
         wk' = [wk EXCEPT ![w] = At(pc, b, f)]
  PROVE  /\ wk'[w].pc = pc /\ wk'[w].batch = b /\ wk'[w].found = f
         /\ \A v \in Workers : v # w => wk'[v] = wk[v]
         /\ pc \in Places /\ b \in Seq(Queries) /\ f \in Seq(Reply_) => wk' \in [Workers -> WorkerState]
<1> DEFINE s == At(pc, b, f)
<1>1. s.pc = pc /\ s.batch = b /\ s.found = f
  BY AtFields
<1>2. pc \in Places /\ b \in Seq(Queries) /\ f \in Seq(Reply_) => s \in WorkerState
  BY AtFields
<1> HIDE DEF s
<1>3. wk' = [wk EXCEPT ![w] = s] /\ wk \in [Workers -> WorkerState]
  BY DEF s, TypeOK
<1>4. QED
  BY <1>1, <1>2, <1>3

\* A worker that has taken a batch, looked it up or answered leaves the table alone.
LEMMA WorkerKeepsInv ==
  ASSUME TypeOK, WorkInv, NEW w \in Workers,
         NEW pc \in Places, NEW b \in Seq(Queries), NEW f \in Seq(Reply_),
         wk' = [wk EXCEPT ![w] = At(pc, b, f)], Fits(pc, b, f), Known(f, table),
         UNCHANGED <<asked, open, input, all, batcher, table>>,
         batches' \in Seq(Seq(Queries)), \A i \in DOMAIN batches' : batches'[i] # <<>>,
         answer' \in [Queries -> Series \cup {NoSeries}], faults' \in Nat
  PROVE  TypeOK' /\ WorkInv'
<1>1. TypeOK'
  BY WorkerGoes DEF TypeOK
<1>2. Apart(table)' /\ BatchesFull'
  BY DEF WorkInv, Apart, BatchesFull
<1>3. Fits(wk[w].pc, wk[w].batch, wk[w].found)' /\ Known(wk[w].found, table)'
  <2>1. wk'[w].pc = pc /\ wk'[w].batch = b /\ wk'[w].found = f
    BY WorkerGoes
  <2>2. QED
    BY <2>1 DEF Fits, Known
<1>4. ASSUME NEW v \in Workers, v # w
      PROVE  Fits(wk[v].pc, wk[v].batch, wk[v].found)' /\ Known(wk[v].found, table)'
  <2>1. wk'[v] = wk[v]
    BY <1>4, WorkerGoes
  <2>2. Fits(wk[v].pc, wk[v].batch, wk[v].found) /\ Known(wk[v].found, table)
    BY DEF WorkInv
  <2>3. QED
    BY <2>1, <2>2 DEF Fits, Known
<1>5. QED
  BY <1>1, <1>2, <1>3, <1>4 DEF WorkInv

\* What is left of a queue, and where.
LEMMA QueueTail ==
  ASSUME NEW S, NEW s \in Seq(S), s # <<>>
  PROVE  /\ Head(s) \in S /\ Tail(s) \in Seq(S)
         /\ Len(s) \in Nat \ {0} /\ DOMAIN s = 1 .. Len(s) /\ Head(s) = s[1]
         /\ DOMAIN Tail(s) = 1 .. (Len(s) - 1)
         /\ \A i \in DOMAIN Tail(s) : i + 1 \in DOMAIN s /\ Tail(s)[i] = s[i + 1]
OBVIOUS

\* What an appended queue holds, and where.
LEMMA QueueAppend ==
  ASSUME NEW S, NEW s \in Seq(S), NEW x \in S
  PROVE  /\ Append(s, x) \in Seq(S) /\ Append(s, x) # <<>>
         /\ DOMAIN Append(s, x) = DOMAIN s \cup {Len(s) + 1}
         /\ Len(s) + 1 \notin DOMAIN s
         /\ Append(s, x)[Len(s) + 1] = x
         /\ \A i \in DOMAIN s : Append(s, x)[i] = s[i]
OBVIOUS

\* The initial state.
LEMMA InitWork == Init => TypeOK /\ WorkInv
<1> SUFFICES ASSUME Init PROVE TypeOK /\ WorkInv
  OBVIOUS
<1>1. Idle \in WorkerState /\ Idle.pc = "idle" /\ Idle.batch = <<>> /\ Idle.found = <<>>
  BY DEF Idle, At, WorkerState, Places
<1>2. wk \in [Workers -> WorkerState] /\ \A w \in Workers : wk[w] = Idle
  BY <1>1 DEF Init
<1>3. answer \in [Queries -> Series \cup {NoSeries}] /\ table \in [Keys -> Series \cup {NoSeries}]
  BY DEF Init
<1>4. TypeOK
  BY <1>2, <1>3 DEF Init, TypeOK
<1>5. \A w \in Workers : Fits(wk[w].pc, wk[w].batch, wk[w].found) /\ Known(wk[w].found, table)
  BY <1>1, <1>2 DEF Fits, Known
<1>6. QED
  BY <1>4, <1>5 DEF WorkInv, Init, Apart, BatchesFull

\* Whoever asks, and the batcher.
LEMMA QueueWork ==
  ASSUME TypeOK, WorkInv, Ask \/ Close \/ BatcherStep \/ UNCHANGED vars
  PROVE  TypeOK' /\ WorkInv'
<1>1. UNCHANGED <<wk, table, answer, faults>>
  BY DEF Ask, Close, BatcherStep, TakeQuery, TimesOut, EmitBatch, EmitFails, InputEnds, askVars, vars
<1>2. asked' \in SUBSET Queries /\ open' \in BOOLEAN
  <2>1. CASE Ask
    BY <2>1 DEF Ask, TypeOK
  <2>2. CASE Close
    BY <2>2 DEF Close, TypeOK
  <2>3. CASE UNCHANGED <<asked, open>>
    BY <2>3 DEF TypeOK
  <2>4. QED
    BY <2>1, <2>2, <2>3
      DEF BatcherStep, TakeQuery, TimesOut, EmitBatch, EmitFails, InputEnds, askVars, vars
<1>3. input' \in Seq(Queries)
  <2>1. CASE Ask
    BY <2>1, QueueAppend DEF Ask, TypeOK
  <2>2. CASE TakeQuery
    BY <2>2, QueueTail DEF TakeQuery, TypeOK
  <2>3. CASE UNCHANGED input
    BY <2>3 DEF TypeOK
  <2>4. QED
    BY <2>1, <2>2, <2>3
      DEF Close, BatcherStep, TimesOut, EmitBatch, EmitFails, InputEnds, vars
<1>4. all' \in Seq(Queries) /\ (batcher' = "emit" => all' # <<>>)
  <2>1. CASE TakeQuery
    BY <2>1, QueueTail, QueueAppend DEF TakeQuery, TypeOK
  <2>2. CASE TimesOut
    BY <2>2 DEF TimesOut, TypeOK
  <2>3. CASE all' = <<>> /\ batcher' # "emit"
    BY <2>3
  <2>4. CASE UNCHANGED all /\ (batcher' = batcher \/ batcher' = "recv")
    BY <2>4 DEF TypeOK, WorkInv, BatchesFull
  <2>5. QED
    BY <2>1, <2>2, <2>3, <2>4
      DEF Ask, Close, BatcherStep, EmitBatch, EmitFails, InputEnds, batchVars, vars
<1>5. batcher' \in {"recv", "emit", "done"}
  BY DEF Ask, Close, BatcherStep, TakeQuery, TimesOut, EmitBatch, EmitFails, InputEnds, batchVars, vars,
         TypeOK
<1>6. batches' \in Seq(Seq(Queries)) /\ \A i \in DOMAIN batches' : batches'[i] # <<>>
  <2>1. batches \in Seq(Seq(Queries)) /\ all \in Seq(Queries) /\ \A i \in DOMAIN batches : batches[i] # <<>>
    BY DEF TypeOK, WorkInv, BatchesFull
  <2>2. CASE EmitBatch
    <3>1. batches' = Append(batches, all) /\ all # <<>>
      BY <2>2 DEF EmitBatch, WorkInv, BatchesFull
    <3>2. QED
      BY <2>1, <3>1, QueueAppend
  <2>3. CASE UNCHANGED batches
    BY <2>1, <2>3
  <2>4. QED
    BY <2>2, <2>3
      DEF Ask, Close, BatcherStep, TakeQuery, TimesOut, EmitFails, InputEnds, vars
<1>7. TypeOK'
  BY <1>1, <1>2, <1>3, <1>4, <1>5, <1>6 DEF TypeOK
<1>8. QED
  BY <1>1, <1>4, <1>6, <1>7 DEF WorkInv, Apart, Fits, Known, BatchesFull

\* The workers.
LEMMA RecvBatchWork ==
  ASSUME TypeOK, WorkInv, NEW w \in Workers, RecvBatch(w)
  PROVE  TypeOK' /\ WorkInv'
<1>1. /\ batches # <<>> /\ batches' = Tail(batches)
      /\ wk' = [wk EXCEPT ![w] = At("select", Head(batches), <<>>)]
      /\ UNCHANGED <<table, answer, faults>>
  BY DEF RecvBatch
<1>2. batches \in Seq(Seq(Queries)) /\ \A i \in DOMAIN batches : batches[i] # <<>>
  BY DEF TypeOK, WorkInv, BatchesFull
<1>3. Head(batches) \in Seq(Queries) /\ Head(batches) # <<>>
  BY <1>1, <1>2, QueueTail
<1>4. batches' \in Seq(Seq(Queries)) /\ \A i \in DOMAIN batches' : batches'[i] # <<>>
  BY <1>1, <1>2, QueueTail
<1>5. /\ "select" \in Places /\ <<>> \in Seq(Reply_)
      /\ Fits("select", Head(batches), <<>>) /\ Known(<<>>, table)
  BY <1>3 DEF Places, Fits, Known
<1>6. answer' \in [Queries -> Series \cup {NoSeries}] /\ faults' \in Nat
  BY <1>1 DEF TypeOK
<1>7. UNCHANGED <<asked, open, input, all, batcher, table>>
  BY <1>1, WorkerTouches DEF WorkerStep
<1>8. QED
  BY <1>1, <1>3, <1>4, <1>5, <1>6, <1>7, WorkerKeepsInv

\* A worker that ends has nothing found.
LEMMA EndWork ==
  ASSUME TypeOK, WorkInv, NEW w \in Workers, WorkerDone(w) \/ WorkerFails(w)
  PROVE  TypeOK' /\ WorkInv'
<1>1. /\ wk' = [wk EXCEPT ![w] = At("ended", <<>>, <<>>)]
      /\ UNCHANGED <<table, answer, batches>>
  BY DEF WorkerDone, WorkerFails, Ended
<1>2. faults' \in Nat
  BY DEF WorkerDone, WorkerFails, TypeOK
<1>3. /\ batches' \in Seq(Seq(Queries)) /\ answer' \in [Queries -> Series \cup {NoSeries}]
      /\ \A i \in DOMAIN batches' : batches'[i] # <<>>
  BY <1>1 DEF TypeOK, WorkInv, BatchesFull
<1>4. /\ "ended" \in Places /\ <<>> \in Seq(Reply_) /\ <<>> \in Seq(Queries)
      /\ Fits("ended", <<>>, <<>>) /\ Known(<<>>, table)
  BY DEF Places, Fits, Known
<1>5. UNCHANGED <<asked, open, input, all, batcher, table>>
  BY <1>1, WorkerTouches DEF WorkerStep
<1>6. QED
  BY <1>1, <1>2, <1>3, <1>4, <1>5, WorkerKeepsInv

\* What a select finds is what the table says.
LEMMA SelectWork ==
  ASSUME TypeOK, WorkInv, NEW w \in Workers, Select(w) \/ Reselect(w)
  PROVE  TypeOK' /\ WorkInv'
<1> DEFINE b == wk[w].batch
<1>1. b \in Seq(Queries) /\ b # <<>>
  BY WorkerField DEF Select, Reselect, WorkInv, Fits
<1>2. PICK pc, n, f : /\ wk' = [wk EXCEPT ![w] = At(pc, n, f)]
                      /\ \/ pc = "ended" /\ n = <<>> /\ f = <<>>
                         \/ Missing(b) # <<>> /\ pc = "insert" /\ n = Missing(b) /\ f = <<>>
                         \/ Missing(b) = <<>> /\ pc = "reply" /\ n = <<>> /\ f = Found(b)
  <2>1. \/ wk' = [wk EXCEPT ![w] = At("ended", <<>>, <<>>)]
        \/ Missing(b) # <<>> /\ wk' = [wk EXCEPT ![w] = At("insert", Missing(b), <<>>)]
        \/ Missing(b) = <<>> /\ wk' = [wk EXCEPT ![w] = At("reply", <<>>, Found(b))]
    BY DEF Select, Reselect, Ended
  <2>2. QED
    BY <2>1
<1>3. UNCHANGED <<asked, open, input, all, batcher, table, answer, batches, faults>>
  <2>1. UNCHANGED <<table, answer, batches, faults>>
    BY DEF Select, Reselect
  <2>2. QED
    BY <2>1, WorkerTouches DEF WorkerStep
<1> HIDE DEF b
<1>4. Missing(b) \in Seq(Queries) /\ Found(b) \in Seq(Reply_) /\ Known(Found(b), table)
  <2>1. table \in [Keys -> Series \cup {NoSeries}]
    BY DEF TypeOK
  <2>2. Missing(b) \in Seq(Queries) /\ Found(b) \in Seq(Reply_)
    BY <1>1, <2>1, MissingIsLast, FoundIsFirst DEF Reply_
  <2>3. QED
    BY <1>1, <2>1, <2>2, FoundIsFirst DEF Known
<1>5. Missing(b) = <<>> => Found(b) # <<>>
  <2>1. table \in [Keys -> Series \cup {NoSeries}]
    BY DEF TypeOK
  <2>2. 1 \in DOMAIN b
    BY <1>1, QueueTail
  <2>3. QED
    BY <1>1, <2>1, <2>2, FoundIsFirst
<1>6. /\ pc \in Places /\ n \in Seq(Queries) /\ f \in Seq(Reply_)
      /\ Fits(pc, n, f) /\ Known(f, table)
  <2>1. <<>> \in Seq(Queries) /\ <<>> \in Seq(Reply_) /\ Known(<<>>, table)
    BY DEF Known
  <2>2. QED
    BY <1>2, <1>4, <1>5, <2>1 DEF Places, Fits
<1>7. /\ batches' \in Seq(Seq(Queries)) /\ answer' \in [Queries -> Series \cup {NoSeries}]
      /\ faults' \in Nat /\ \A i \in DOMAIN batches' : batches'[i] # <<>>
  BY <1>3 DEF TypeOK, WorkInv, BatchesFull
<1>8. QED
  BY <1>2, <1>3, <1>6, <1>7, WorkerKeepsInv

\* A reply takes its query from what the worker has found.
LEMMA ReplyWork ==
  ASSUME TypeOK, WorkInv, NEW w \in Workers, Reply(w)
  PROVE  TypeOK' /\ WorkInv'
<1> DEFINE f == wk[w].found
<1>1. f \in Seq(Reply_) /\ f # <<>> /\ Known(f, table)
  BY WorkerField DEF Reply, WorkInv, Fits
<1>2. PICK pc : /\ wk' = [wk EXCEPT ![w] = At(pc, <<>>, Tail(f))]
                /\ IF Tail(f) = <<>> THEN pc = "idle" ELSE pc = "reply"
  <2>1. wk' = [wk EXCEPT ![w] = IF Tail(f) = <<>> THEN At("idle", <<>>, <<>>)
                                ELSE At("reply", <<>>, Tail(f))]
    BY DEF Reply, Idle
  <2>2. QED
    BY <2>1
<1>3. answer' = [answer EXCEPT ![Head(f).q] = Head(f).series]
  BY DEF Reply
<1>4. UNCHANGED <<asked, open, input, all, batcher, table, batches, faults>>
  <2>1. UNCHANGED <<table, batches, faults>>
    BY DEF Reply
  <2>2. QED
    BY <2>1, WorkerTouches DEF WorkerStep
<1> HIDE DEF f
<1>5. Head(f) \in Reply_ /\ Tail(f) \in Seq(Reply_)
  BY <1>1, QueueTail
<1>6. answer' \in [Queries -> Series \cup {NoSeries}]
  BY <1>3, <1>5 DEF TypeOK, Reply_
<1>7. Known(Tail(f), table)
  BY <1>1, QueueTail DEF Known
<1>8. pc \in Places /\ <<>> \in Seq(Queries) /\ Fits(pc, <<>>, Tail(f))
  BY <1>2 DEF Places, Fits
<1>9. /\ batches' \in Seq(Seq(Queries)) /\ faults' \in Nat
      /\ \A i \in DOMAIN batches' : batches'[i] # <<>>
  BY <1>4 DEF TypeOK, WorkInv, BatchesFull
<1>10. QED
  BY <1>2, <1>4, <1>5, <1>6, <1>7, <1>8, <1>9, WorkerKeepsInv

\* After an insert the worker selects again, with the same batch.
LEMMA InsertGoes ==
  ASSUME TypeOK, NEW w \in Workers, Insert(w)
  PROVE  /\ wk'[w].pc = "reselect" /\ wk'[w].batch = wk[w].batch /\ wk'[w].found = <<>>
         /\ \A v \in Workers : v # w => wk'[v] = wk[v]
<1>1. wk' = [wk EXCEPT ![w] = At("reselect", wk[w].batch, <<>>)]
  BY DEF Insert
<1>2. QED
  BY <1>1, WorkerGoes

\* An insert leaves what other workers have found true, as it changes no row.
LEMMA InsertWork ==
  ASSUME TypeOK, WorkInv, NEW w \in Workers, Insert(w)
  PROVE  TypeOK' /\ WorkInv'
<1>1. /\ wk[w].pc = "insert" /\ wk' = [wk EXCEPT ![w] = At("reselect", wk[w].batch, <<>>)]
      /\ UNCHANGED <<batches, answer>>
  BY DEF Insert
<1>2. UNCHANGED <<asked, open, input, all, batcher, batches, answer>>
  BY <1>1, WorkerTouches DEF WorkerStep
<1>3. /\ table' \in [Keys -> Series \cup {NoSeries}]
      /\ \A k \in Keys : table[k] # NoSeries => table'[k] = table[k]
      /\ Apart(table') /\ faults' \in Nat
  BY InsertTable DEF WorkInv
<1>4. "reselect" \in Places /\ wk[w].batch \in Seq(Queries) /\ <<>> \in Seq(Reply_)
  BY WorkerField DEF Places
<1>5. wk' \in [Workers -> WorkerState]
  BY <1>1, <1>4, WorkerGoes
<1>6. TypeOK'
  BY <1>2, <1>3, <1>5 DEF TypeOK
<1>7. Fits(wk[w].pc, wk[w].batch, wk[w].found)' /\ Known(wk[w].found, table)'
  <2>1. wk[w].batch # <<>>
    BY <1>1 DEF WorkInv, Fits
  <2>2. wk'[w].pc = "reselect" /\ wk'[w].batch = wk[w].batch /\ wk'[w].found = <<>>
    BY InsertGoes
  <2>3. QED
    BY <2>1, <2>2 DEF Fits, Known
<1>8. ASSUME NEW v \in Workers, v # w
      PROVE  Fits(wk[v].pc, wk[v].batch, wk[v].found)' /\ Known(wk[v].found, table)'
  <2>1. wk'[v] = wk[v] /\ wk[v].found \in Seq(Reply_)
    BY <1>8, InsertGoes, WorkerField
  <2>2. Fits(wk[v].pc, wk[v].batch, wk[v].found) /\ Known(wk[v].found, table)
    BY DEF WorkInv
  <2>3. ASSUME NEW i \in DOMAIN wk[v].found
        PROVE  wk[v].found[i].series = table'[KeyOf[wk[v].found[i].q]]
    <3>1. /\ wk[v].found[i].series \in Series /\ KeyOf[wk[v].found[i].q] \in Keys
          /\ wk[v].found[i].series = table[KeyOf[wk[v].found[i].q]]
      BY <2>1, <2>2, ReplyField DEF Known
    <3>2. QED
      BY <1>3, <3>1, LookupAssumption
  <2>4. QED
    BY <2>1, <2>2, <2>3 DEF Fits, Known
<1>9. BatchesFull'
  BY <1>2 DEF WorkInv, BatchesFull
<1>10. QED
  BY <1>3, <1>6, <1>7, <1>8, <1>9 DEF WorkInv

(* A type for every variable; no two keys have the same series; each worker  *)
(* holds what its place says, and what it found is what the table says, and  *)
(* no batch is empty.                                                        *)
THEOREM TypeCorrect == Spec => [](TypeOK /\ WorkInv)
<1>1. TypeOK /\ WorkInv /\ [Next]_vars => (TypeOK /\ WorkInv)'
  BY QueueWork, RecvBatchWork, EndWork, SelectWork, InsertWork, ReplyWork DEF Next, WorkerStep
<1>2. QED
  BY <1>1, InitWork, PTL DEF Spec

-----------------------------------------------------------------------------
(* A query is in one place only.                                           *)

NoRepeat(s) == \A i, j \in DOMAIN s : s[i] = s[j] => i = j

OnceFound(f) == \A i, j \in DOMAIN f : f[i].q = f[j].q => i = j

Holds(batch, found) == ToSet(batch) \cup {r.q : r \in ToSet(found)}

Held == ToSet(input) \cup ToSet(all) \cup InBatches \cup UNION {InWorker(w) : w \in Workers}

BatchesApart(bs) ==
  /\ \A i \in DOMAIN bs : NoRepeat(bs[i])
  /\ \A i, j \in DOMAIN bs : i # j => ToSet(bs[i]) \cap ToSet(bs[j]) = {}

Singly ==
  /\ NoRepeat(input) /\ NoRepeat(all) /\ BatchesApart(batches)
  /\ \A w \in Workers : NoRepeat(wk[w].batch) /\ OnceFound(wk[w].found)
  /\ ToSet(input) \cap ToSet(all) = {}
  /\ (ToSet(input) \cup ToSet(all)) \cap InBatches = {}
  /\ \A w \in Workers : InWorker(w) \cap (ToSet(input) \cup ToSet(all) \cup InBatches) = {}
  /\ \A v, w \in Workers : v # w => InWorker(v) \cap InWorker(w) = {}

\* Only what was asked is held or answered, and what is answered is held no more.
History == Held \subseteq asked /\ Answered \subseteq asked /\ Held \cap Answered = {}

\* The head taken from a sequence without repetitions is not in the rest.
LEMMA TailSet ==
  ASSUME NEW S, NEW s \in Seq(S), s # <<>>
  PROVE  /\ ToSet(s) = ToSet(Tail(s)) \cup {Head(s)}
         /\ NoRepeat(s) => NoRepeat(Tail(s)) /\ Head(s) \notin ToSet(Tail(s))
<1> DEFINE t == Tail(s)
<1>1. /\ Len(s) \in Nat \ {0} /\ DOMAIN s = 1 .. Len(s) /\ Head(s) = s[1]
      /\ DOMAIN t = 1 .. (Len(s) - 1)
      /\ \A i \in DOMAIN t : i + 1 \in DOMAIN s /\ t[i] = s[i + 1]
  BY QueueTail
<1> HIDE DEF t
<1>2. \A i \in DOMAIN s : i = 1 \/ (i - 1 \in DOMAIN t /\ t[i - 1] = s[i])
  BY <1>1
<1>3. ToSet(s) = ToSet(t) \cup {Head(s)}
  BY <1>1, <1>2 DEF ToSet
<1>4. ASSUME NoRepeat(s) PROVE NoRepeat(t) /\ Head(s) \notin ToSet(t)
  BY <1>1, <1>4 DEF NoRepeat, ToSet
<1>5. QED
  BY <1>3, <1>4 DEF t

\* What is appended joins the set of the elements.
LEMMA AppendSet ==
  ASSUME NEW S, NEW s \in Seq(S), NEW x \in S
  PROVE  /\ ToSet(Append(s, x)) = ToSet(s) \cup {x}
         /\ NoRepeat(s) /\ x \notin ToSet(s) => NoRepeat(Append(s, x))
<1> DEFINE t == Append(s, x)
           n == Len(s) + 1
<1>1. /\ DOMAIN t = DOMAIN s \cup {n} /\ n \notin DOMAIN s
      /\ t[n] = x /\ \A i \in DOMAIN s : t[i] = s[i]
  BY QueueAppend
<1> HIDE DEF t, n
<1>2. ToSet(t) = ToSet(s) \cup {x}
  BY <1>1 DEF ToSet
<1>3. ASSUME NoRepeat(s), x \notin ToSet(s) PROVE NoRepeat(t)
  BY <1>1, <1>3 DEF NoRepeat, ToSet
<1>4. QED
  BY <1>2, <1>3 DEF t

InAll(bs) == UNION {ToSet(b) : b \in ToSet(bs)}

\* What is in any of the batches.
LEMMA InAllOf == \A bs : InAll(bs) = UNION {ToSet(bs[i]) : i \in DOMAIN bs}
BY DEF InAll, ToSet

\* The batch taken shares nothing with those that stay.
LEMMA BatchesTail ==
  ASSUME NEW bs \in Seq(Seq(Queries)), bs # <<>>, BatchesApart(bs)
  PROVE  /\ BatchesApart(Tail(bs)) /\ NoRepeat(Head(bs))
         /\ InAll(bs) = InAll(Tail(bs)) \cup ToSet(Head(bs))
         /\ InAll(Tail(bs)) \cap ToSet(Head(bs)) = {}
<1> DEFINE t == Tail(bs)
<1>1. /\ Len(bs) \in Nat \ {0} /\ DOMAIN bs = 1 .. Len(bs) /\ Head(bs) = bs[1]
      /\ DOMAIN t = 1 .. (Len(bs) - 1)
      /\ \A i \in DOMAIN t : i + 1 \in DOMAIN bs /\ t[i] = bs[i + 1]
  BY QueueTail
<1>2. ToSet(bs) = ToSet(t) \cup {Head(bs)}
  BY TailSet
<1> HIDE DEF t
<1>3. /\ 1 \in DOMAIN bs
      /\ \A i \in DOMAIN t : i + 1 \in DOMAIN bs /\ i + 1 # 1 /\ t[i] = bs[i + 1]
      /\ \A i, j \in DOMAIN t : i # j => i + 1 # j + 1
  BY <1>1
<1>4. \A i \in DOMAIN t : NoRepeat(t[i])
  BY <1>3 DEF BatchesApart
<1>5. NoRepeat(Head(bs))
  BY <1>1, <1>3 DEF BatchesApart
<1>6. ASSUME NEW i \in DOMAIN t, NEW j \in DOMAIN t, i # j
      PROVE  ToSet(t[i]) \cap ToSet(t[j]) = {}
  <2>1. i + 1 \in DOMAIN bs /\ j + 1 \in DOMAIN bs /\ i + 1 # j + 1
    BY <1>3, <1>6
  <2>2. ToSet(bs[i + 1]) \cap ToSet(bs[j + 1]) = {}
    BY <2>1 DEF BatchesApart
  <2>3. QED
    BY <1>3, <2>2
<1>7. BatchesApart(t)
  BY <1>4, <1>6 DEF BatchesApart
<1>8. InAll(bs) = InAll(t) \cup ToSet(Head(bs))
  BY <1>2 DEF InAll
<1>9. ASSUME NEW i \in DOMAIN t PROVE ToSet(t[i]) \cap ToSet(Head(bs)) = {}
  <2>1. ToSet(bs[i + 1]) \cap ToSet(bs[1]) = {}
    BY <1>3 DEF BatchesApart
  <2>2. QED
    BY <1>1, <1>3, <2>1
<1>10. InAll(t) \cap ToSet(Head(bs)) = {}
  BY <1>9, InAllOf
<1>11. QED
  BY <1>5, <1>7, <1>8, <1>10 DEF t

\* A batch that shares nothing with the others can join them.
LEMMA BatchesAppend ==
  ASSUME NEW bs \in Seq(Seq(Queries)), BatchesApart(bs),
         NEW b \in Seq(Queries), NoRepeat(b), ToSet(b) \cap InAll(bs) = {}
  PROVE  /\ BatchesApart(Append(bs, b))
         /\ InAll(Append(bs, b)) = InAll(bs) \cup ToSet(b)
<1> DEFINE t == Append(bs, b)
           n == Len(bs) + 1
<1>1. /\ DOMAIN t = DOMAIN bs \cup {n} /\ n \notin DOMAIN bs
      /\ t[n] = b /\ \A i \in DOMAIN bs : t[i] = bs[i]
  BY QueueAppend
<1>2. ToSet(t) = ToSet(bs) \cup {b}
  BY AppendSet
<1> HIDE DEF t, n
<1>3. \A i \in DOMAIN bs : ToSet(bs[i]) \cap ToSet(b) = {}
  BY InAllOf
<1>4. BatchesApart(t)
  BY <1>1, <1>3 DEF BatchesApart
<1>5. InAll(t) = InAll(bs) \cup ToSet(b)
  BY <1>2 DEF InAll
<1>6. QED
  BY <1>4, <1>5 DEF t

\* Looking a batch up: nothing comes in, nothing comes twice.
LEMMA LookedUp ==
  ASSUME NEW b \in Seq(Queries), table \in [Keys -> Series \cup {NoSeries}], NoRepeat(b)
  PROVE  /\ NoRepeat(Missing(b)) /\ OnceFound(Found(b))
         /\ Holds(Missing(b), <<>>) \subseteq ToSet(b)
         /\ Holds(<<>>, Found(b)) \subseteq ToSet(b)
         /\ Missing(b) = <<>> => Holds(<<>>, Found(b)) = ToSet(b)
<1>1. ToSet(<<>>) = {}
  BY DEF ToSet
<1>2. PICK m \in Nat : \A i \in DOMAIN Missing(b) : i + m \in DOMAIN b /\ Missing(b)[i] = b[i + m]
  BY MissingIsLast
<1>3. Missing(b) \in Seq(Queries) /\ \A i \in DOMAIN Missing(b) : i \in Nat
  BY MissingIsLast
<1>4. NoRepeat(Missing(b))
  <2> SUFFICES ASSUME NEW i \in DOMAIN Missing(b), NEW j \in DOMAIN Missing(b),
                      Missing(b)[i] = Missing(b)[j]
               PROVE  i = j
    BY DEF NoRepeat
  <2>1. i + m = j + m
    BY <1>2 DEF NoRepeat
  <2>2. QED
    BY <1>3, <2>1
<1>5. ToSet(Missing(b)) \subseteq ToSet(b)
  BY <1>2 DEF ToSet
<1> DEFINE f == Found(b)
<1>6. /\ DOMAIN f \subseteq DOMAIN b
      /\ \A i \in DOMAIN f : f[i].q = b[i]
      /\ Missing(b) = <<>> => DOMAIN f = DOMAIN b
  BY FoundIsFirst
<1> HIDE DEF f
<1>7. OnceFound(f)
  BY <1>6 DEF OnceFound, NoRepeat
<1>8. {r.q : r \in ToSet(f)} = {b[i] : i \in DOMAIN f}
  <2>1. {r.q : r \in ToSet(f)} = {f[i].q : i \in DOMAIN f}
    BY DEF ToSet
  <2>2. QED
    BY <1>6, <2>1
<1>9. Holds(<<>>, f) \subseteq ToSet(b) /\ (Missing(b) = <<>> => Holds(<<>>, f) = ToSet(b))
  BY <1>1, <1>6, <1>8 DEF Holds, ToSet
<1>10. Holds(Missing(b), <<>>) \subseteq ToSet(b)
  BY <1>1, <1>5 DEF Holds
<1>11. QED
  BY <1>4, <1>7, <1>9, <1>10 DEF f

\* An answer takes its query along.
LEMMA FoundTail ==
  ASSUME NEW f \in Seq(Reply_), f # <<>>, OnceFound(f)
  PROVE  /\ OnceFound(Tail(f))
         /\ Holds(<<>>, f) = Holds(<<>>, Tail(f)) \cup {Head(f).q}
         /\ Head(f).q \notin Holds(<<>>, Tail(f))
<1> DEFINE t == Tail(f)
<1>1. /\ Len(f) \in Nat \ {0} /\ DOMAIN f = 1 .. Len(f) /\ Head(f) = f[1]
      /\ DOMAIN t = 1 .. (Len(f) - 1)
      /\ \A i \in DOMAIN t : i + 1 \in DOMAIN f /\ t[i] = f[i + 1]
  BY QueueTail
<1>2. ToSet(f) = ToSet(t) \cup {Head(f)}
  BY TailSet
<1> HIDE DEF t
<1>3. ToSet(<<>>) = {}
  BY DEF ToSet
<1>4. OnceFound(t)
  <2> SUFFICES ASSUME NEW i \in DOMAIN t, NEW j \in DOMAIN t, t[i].q = t[j].q PROVE i = j
    BY DEF OnceFound
  <2>1. i + 1 = j + 1
    BY <1>1 DEF OnceFound
  <2>2. i \in Nat /\ j \in Nat
    BY <1>1
  <2>3. QED
    BY <2>1, <2>2
<1>5. Holds(<<>>, f) = Holds(<<>>, t) \cup {Head(f).q}
  BY <1>2, <1>3 DEF Holds
<1>6. ASSUME NEW r \in ToSet(t), r.q = Head(f).q PROVE FALSE
  <2>1. PICK i \in DOMAIN t : r = t[i]
    BY DEF ToSet
  <2>2. f[i + 1].q = f[1].q /\ i + 1 \in DOMAIN f /\ 1 \in DOMAIN f /\ i \in Nat /\ i >= 1
    BY <1>1, <1>6, <2>1
  <2>3. QED
    BY <2>2 DEF OnceFound
<1>7. Head(f).q \notin Holds(<<>>, t)
  BY <1>3, <1>6 DEF Holds
<1>8. QED
  BY <1>4, <1>5, <1>7 DEF t

\* Only an error ends a worker as long as somebody can ask.
WithoutFault ==
  /\ batcher = "done" => ~open
  /\ faults = 0 =>
       \A w \in Workers :
         /\ open => wk[w].pc # "ended"
         /\ wk[w].pc = "reselect" =>
              \A i \in DOMAIN wk[w].batch : table[KeyOf[wk[w].batch[i]]] # NoSeries

LookupInv == TypeOK /\ WorkInv /\ Singly /\ History /\ WithoutFault

\* What is held is in the batches or with a worker.
LEMMA HeldParts ==
  /\ InBatches = InAll(batches)
  /\ \A w \in Workers : InWorker(w) = Holds(wk[w].batch, wk[w].found)
BY DEF InBatches, InAll, InWorker, Holds

\* The same after a step.
LEMMA HeldPartsNext ==
  /\ InBatches' = InAll(batches')
  /\ \A w \in Workers : InWorker(w)' = Holds(wk'[w].batch, wk'[w].found)
BY DEF InBatches, InAll, InWorker, Holds

\* An empty batch and nothing found hold no query.
LEMMA NothingHeld == Holds(<<>>, <<>>) = {} /\ ToSet(<<>>) = {} /\ InAll(<<>>) = {}
BY DEF Holds, ToSet, InAll

\* What a worker holds when it has taken, looked up, or answered.
LEMMA WorkerHolds ==
  ASSUME TypeOK, NEW w \in Workers, NEW pc, NEW b, NEW f,
         wk' = [wk EXCEPT ![w] = At(pc, b, f)]
  PROVE  /\ InWorker(w)' = Holds(b, f)
         /\ \A v \in Workers : v # w => InWorker(v)' = InWorker(v)
<1>1. /\ wk'[w].batch = b /\ wk'[w].found = f
      /\ \A v \in Workers : v # w => wk'[v] = wk[v]
  BY WorkerGoes
<1>2. QED
  BY <1>1, HeldParts, HeldPartsNext

\* A worker that comes to hold less keeps all queries at one place.
LEMMA WorkerSingly ==
  ASSUME TypeOK, Singly, NEW w \in Workers, NEW pc, NEW b, NEW f,
         wk' = [wk EXCEPT ![w] = At(pc, b, f)], NoRepeat(b), OnceFound(f),
         Holds(b, f) \subseteq InWorker(w), UNCHANGED <<input, all, batches>>
  PROVE  Singly' /\ Held' = Held \ (InWorker(w) \ Holds(b, f))
<1>1. /\ InWorker(w)' = Holds(b, f)
      /\ \A v \in Workers : v # w => InWorker(v)' = InWorker(v)
  BY WorkerHolds
<1>2. /\ wk'[w].batch = b /\ wk'[w].found = f
      /\ \A v \in Workers : v # w => wk'[v] = wk[v]
  BY WorkerGoes
<1>3. \A v \in Workers : NoRepeat(wk'[v].batch) /\ OnceFound(wk'[v].found)
  BY <1>2 DEF Singly
<1>4. \A v \in Workers : InWorker(v)' \subseteq InWorker(v)
  BY <1>1
<1>5. InBatches' = InBatches
  BY HeldParts, HeldPartsNext
<1>6. /\ \A v \in Workers : InWorker(v)' \cap (ToSet(input) \cup ToSet(all) \cup InBatches) = {}
      /\ \A u, v \in Workers : u # v => InWorker(u)' \cap InWorker(v)' = {}
  BY <1>4 DEF Singly
<1>7. (\A v \in Workers : NoRepeat(wk[v].batch) /\ OnceFound(wk[v].found))'
  BY <1>3
<1>8. Singly'
  BY <1>5, <1>6, <1>7 DEF Singly, NoRepeat, BatchesApart
<1>9. Held' = Held \ (InWorker(w) \ Holds(b, f))
  BY <1>1, <1>5 DEF Held, Singly
<1>10. QED
  BY <1>8, <1>9

\* A query that is asked is held from then on, in the input.
LEMMA AskHeld ==
  ASSUME TypeOK, Singly, History, Ask
  PROVE  /\ Singly'
         /\ \E q \in Queries \ asked : asked' = asked \cup {q} /\ Held' = Held \cup {q}
<1>1. PICK q \in Queries \ asked : input' = Append(input, q) /\ asked' = asked \cup {q}
  BY DEF Ask
<1>2. UNCHANGED <<all, batches, wk>>
  BY DEF Ask, batchVars
<1>3. q \notin Held
  BY <1>1 DEF History
<1>4. /\ q \notin ToSet(input) /\ q \notin ToSet(all) /\ q \notin InBatches
      /\ \A w \in Workers : q \notin InWorker(w)
  BY <1>3 DEF Held
<1>5. ToSet(input') = ToSet(input) \cup {q} /\ NoRepeat(input')
  BY <1>1, <1>4, AppendSet DEF TypeOK, Singly
<1>6. InBatches' = InBatches /\ \A w \in Workers : InWorker(w)' = InWorker(w)
  BY <1>2, HeldParts, HeldPartsNext
<1>7. ToSet(input)' = ToSet(input') /\ ToSet(all)' = ToSet(all) /\ NoRepeat(input)' /\ NoRepeat(all)'
  BY <1>2, <1>5 DEF ToSet, NoRepeat, Singly
<1>8. BatchesApart(batches)' /\ (\A w \in Workers : NoRepeat(wk[w].batch) /\ OnceFound(wk[w].found))'
  BY <1>2 DEF Singly, BatchesApart, NoRepeat, OnceFound
<1>9. Held' = Held \cup {q}
  BY <1>5, <1>6, <1>7 DEF Held
<1>10. Singly'
  BY <1>4, <1>5, <1>6, <1>7, <1>8 DEF Singly
<1>11. QED
  BY <1>1, <1>9, <1>10

\* What the batcher does to the queues.
LEMMA QueueSingly ==
  ASSUME Singly, UNCHANGED wk, NEW I, NEW A, NEW B,
         ToSet(input') = I, ToSet(all') = A, InAll(batches') = B,
         NoRepeat(input'), NoRepeat(all'), BatchesApart(batches'),
         I \cap A = {}, (I \cup A) \cap B = {},
         I \cup A \cup B \subseteq ToSet(input) \cup ToSet(all) \cup InBatches
  PROVE  /\ Singly'
         /\ Held' \subseteq Held
         /\ I \cup A \cup B = ToSet(input) \cup ToSet(all) \cup InBatches => Held' = Held
<1>1. InBatches' = B /\ \A w \in Workers : InWorker(w)' = InWorker(w)
  BY HeldParts, HeldPartsNext
<1>2. ToSet(input)' = I /\ ToSet(all)' = A
  BY DEF ToSet
<1>3. NoRepeat(input)' /\ NoRepeat(all)' /\ BatchesApart(batches)'
  BY DEF NoRepeat, BatchesApart
<1>4. (\A w \in Workers : NoRepeat(wk[w].batch) /\ OnceFound(wk[w].found))'
  BY DEF Singly, NoRepeat, OnceFound
<1>5. \A w \in Workers : InWorker(w) \cap (I \cup A \cup B) = {}
  BY DEF Singly
<1>6. \A v, w \in Workers : v # w => InWorker(v) \cap InWorker(w) = {}
  BY DEF Singly
<1>7. Singly'
  BY <1>1, <1>2, <1>3, <1>4, <1>5, <1>6 DEF Singly
<1>8. Held' \subseteq Held /\ (I \cup A \cup B = ToSet(input) \cup ToSet(all) \cup InBatches => Held' = Held)
  BY <1>1, <1>2 DEF Held
<1>9. QED
  BY <1>7, <1>8

\* The batcher takes it from the input into the batch it fills.
LEMMA TakeQueryHeld ==
  ASSUME TypeOK, Singly, TakeQuery
  PROVE  Singly' /\ Held' = Held
<1>1. input # <<>> /\ input' = Tail(input) /\ all' = Append(all, Head(input)) /\ UNCHANGED <<batches, wk>>
  BY DEF TakeQuery
<1>2. input \in Seq(Queries) /\ all \in Seq(Queries) /\ NoRepeat(input) /\ NoRepeat(all)
  BY DEF TypeOK, Singly
<1>3. /\ ToSet(input) = ToSet(Tail(input)) \cup {Head(input)}
      /\ NoRepeat(Tail(input)) /\ Head(input) \notin ToSet(Tail(input))
      /\ Head(input) \in Queries
  BY <1>1, <1>2, TailSet, QueueTail
<1>4. Head(input) \notin ToSet(all)
  BY <1>3 DEF Singly
<1>5. ToSet(all') = ToSet(all) \cup {Head(input)} /\ NoRepeat(all')
  BY <1>1, <1>2, <1>3, <1>4, AppendSet
<1>6. /\ ToSet(input') = ToSet(Tail(input)) /\ NoRepeat(input')
      /\ InAll(batches') = InBatches /\ BatchesApart(batches')
  BY <1>1, <1>3, HeldParts DEF Singly
<1>7. /\ ToSet(Tail(input)) \cap (ToSet(all) \cup {Head(input)}) = {}
      /\ (ToSet(Tail(input)) \cup (ToSet(all) \cup {Head(input)})) \cap InBatches = {}
      /\ ToSet(Tail(input)) \cup (ToSet(all) \cup {Head(input)}) \cup InBatches
           = ToSet(input) \cup ToSet(all) \cup InBatches
  BY <1>3 DEF Singly
<1>8. QED
  BY <1>1, <1>5, <1>6, <1>7, QueueSingly

\* The batch goes on, as it is, to the workers.
LEMMA EmitBatchHeld ==
  ASSUME TypeOK, Singly, EmitBatch
  PROVE  Singly' /\ Held' = Held
<1>1. batches' = Append(batches, all) /\ all' = <<>> /\ UNCHANGED <<input, wk>>
  BY DEF EmitBatch
<1>2. /\ batches \in Seq(Seq(Queries)) /\ all \in Seq(Queries)
      /\ NoRepeat(input) /\ NoRepeat(all) /\ BatchesApart(batches)
  BY DEF TypeOK, Singly
<1>3. ToSet(all) \cap InAll(batches) = {}
  BY HeldParts DEF Singly
<1>4. BatchesApart(batches') /\ InAll(batches') = InBatches \cup ToSet(all)
  BY <1>1, <1>2, <1>3, BatchesAppend, HeldParts
<1>5. /\ ToSet(all') = {} /\ NoRepeat(all')
      /\ ToSet(input') = ToSet(input) /\ NoRepeat(input')
  BY <1>1, <1>2, NothingHeld DEF NoRepeat
<1>6. /\ ToSet(input) \cap {} = {}
      /\ (ToSet(input) \cup {}) \cap (InBatches \cup ToSet(all)) = {}
      /\ ToSet(input) \cup {} \cup (InBatches \cup ToSet(all)) = ToSet(input) \cup ToSet(all) \cup InBatches
  BY DEF Singly
<1>7. QED
  BY <1>1, <1>4, <1>5, <1>6, QueueSingly

\* When the input ends the batcher drops nothing but the rest of it.
LEMMA InputEndsHeld ==
  ASSUME TypeOK, Singly, InputEnds
  PROVE  Singly' /\ Held' \subseteq Held
<1>1. all' = <<>> /\ UNCHANGED <<input, batches, wk>>
  BY DEF InputEnds
<1>2. ToSet(all') = {} /\ NoRepeat(all') /\ ToSet(input') = ToSet(input) /\ NoRepeat(input')
  BY <1>1, NothingHeld DEF NoRepeat, Singly
<1>3. InAll(batches') = InBatches /\ BatchesApart(batches')
  BY <1>1, HeldParts DEF Singly
<1>4. /\ ToSet(input) \cap {} = {}
      /\ (ToSet(input) \cup {}) \cap InBatches = {}
      /\ ToSet(input) \cup {} \cup InBatches \subseteq ToSet(input) \cup ToSet(all) \cup InBatches
  BY DEF Singly
<1>5. QED
  BY <1>1, <1>2, <1>3, <1>4, QueueSingly

\* A step that moves no query holds the same ones.
LEMMA RestHeld ==
  ASSUME Singly, UNCHANGED <<input, all, batches, wk>>
  PROVE  Singly' /\ Held' = Held
<1>1. InBatches' = InBatches /\ \A w \in Workers : InWorker(w)' = InWorker(w)
  BY HeldParts, HeldPartsNext
<1>2. Singly'
  BY <1>1 DEF Singly, NoRepeat, OnceFound, BatchesApart
<1>3. QED
  BY <1>1, <1>2 DEF Held

\* A batch goes from the queue to a worker that held nothing.
LEMMA RecvBatchHeld ==
  ASSUME TypeOK, WorkInv, Singly, NEW w \in Workers, RecvBatch(w)
  PROVE  Singly' /\ Held' = Held
<1> DEFINE h == Head(batches)
<1>1. /\ batches # <<>> /\ batches' = Tail(batches) /\ wk[w].pc = "idle"
      /\ wk' = [wk EXCEPT ![w] = At("select", h, <<>>)]
      /\ UNCHANGED <<input, all>>
  BY DEF RecvBatch, batchVars
<1>2. /\ BatchesApart(Tail(batches)) /\ NoRepeat(h)
      /\ InAll(batches) = InAll(Tail(batches)) \cup ToSet(h)
      /\ InAll(Tail(batches)) \cap ToSet(h) = {}
  BY <1>1, BatchesTail DEF TypeOK, Singly
<1>3. InWorker(w) = {}
  BY <1>1, HeldParts, NothingHeld DEF WorkInv, Fits
<1>4. Holds(h, <<>>) = ToSet(h)
  BY NothingHeld DEF Holds
<1> HIDE DEF h
<1>5. /\ InWorker(w)' = ToSet(h)
      /\ \A v \in Workers : v # w => InWorker(v)' = InWorker(v)
  BY <1>1, <1>4, WorkerHolds
<1>6. /\ wk'[w].batch = h /\ wk'[w].found = <<>>
      /\ \A v \in Workers : v # w => wk'[v] = wk[v]
  BY <1>1, WorkerGoes
<1>7. InBatches = InBatches' \cup ToSet(h) /\ InBatches' \cap ToSet(h) = {}
  BY <1>1, <1>2, HeldParts, HeldPartsNext
<1>8. (\A v \in Workers : NoRepeat(wk[v].batch) /\ OnceFound(wk[v].found))'
  <2>1. OnceFound(<<>>)
    BY DEF OnceFound
  <2>2. \A v \in Workers : NoRepeat(wk'[v].batch) /\ OnceFound(wk'[v].found)
    BY <1>2, <1>6, <2>1 DEF Singly
  <2>3. QED
    BY <2>2
<1>9. (NoRepeat(input) /\ NoRepeat(all) /\ BatchesApart(batches))'
  BY <1>1, <1>2 DEF Singly, NoRepeat, BatchesApart
<1>10. /\ \A v \in Workers : InWorker(v)' \cap (ToSet(input) \cup ToSet(all) \cup InBatches') = {}
       /\ \A u, v \in Workers : u # v => InWorker(u)' \cap InWorker(v)' = {}
  <2>1. \A v \in Workers : v # w => InWorker(v)' \cap ToSet(h) = {}
    BY <1>5, <1>7 DEF Singly
  <2>2. \A v \in Workers : InWorker(v)' \cap (ToSet(input) \cup ToSet(all) \cup InBatches') = {}
    BY <1>5, <1>7 DEF Singly
  <2>3. \A u, v \in Workers : u # v /\ u # w /\ v # w => InWorker(u)' \cap InWorker(v)' = {}
    BY <1>5 DEF Singly
  <2>4. QED
    BY <1>5, <2>1, <2>2, <2>3
<1>11. ToSet(input)' = ToSet(input) /\ ToSet(all)' = ToSet(all)
  BY <1>1 DEF ToSet
<1>12. Singly'
  BY <1>7, <1>8, <1>9, <1>10, <1>11 DEF Singly
<1>13. Held' = Held
  BY <1>3, <1>5, <1>7, <1>11 DEF Held
<1>14. QED
  BY <1>12, <1>13

\* A worker that ends drops what it holds.
LEMMA EndHeld ==
  ASSUME TypeOK, Singly, NEW w \in Workers, WorkerDone(w) \/ WorkerFails(w)
  PROVE  Singly' /\ Held' \subseteq Held
<1>1. wk' = [wk EXCEPT ![w] = At("ended", <<>>, <<>>)] /\ UNCHANGED <<input, all, batches>>
  BY DEF WorkerDone, WorkerFails, Ended, batchVars
<1>2. Holds(<<>>, <<>>) \subseteq InWorker(w) /\ NoRepeat(<<>>) /\ OnceFound(<<>>)
  BY NothingHeld DEF NoRepeat, OnceFound
<1>3. Singly' /\ Held' = Held \ (InWorker(w) \ Holds(<<>>, <<>>))
  BY <1>1, <1>2, WorkerSingly
<1>4. QED
  BY <1>3

\* An insert keeps the batch.
LEMMA InsertHeld ==
  ASSUME TypeOK, WorkInv, Singly, NEW w \in Workers, Insert(w)
  PROVE  Singly' /\ Held' = Held
<1> DEFINE b == wk[w].batch
<1>1. /\ wk' = [wk EXCEPT ![w] = At("reselect", b, <<>>)]
      /\ wk[w].pc = "insert" /\ UNCHANGED <<input, all, batches>>
  BY DEF Insert, batchVars
<1>2. InWorker(w) = Holds(b, <<>>)
  BY <1>1, HeldParts DEF WorkInv, Fits
<1>3. NoRepeat(b) /\ OnceFound(<<>>)
  BY DEF Singly, OnceFound
<1> HIDE DEF b
<1>4. Singly' /\ Held' = Held \ (InWorker(w) \ Holds(b, <<>>))
  <2>1. Holds(b, <<>>) \subseteq InWorker(w)
    BY <1>2
  <2>2. QED
    BY <1>1, <1>3, <2>1, WorkerSingly
<1>5. QED
  BY <1>2, <1>4

\* A batch that is all found, or all missing, is kept.
LEMMA SelectHeld ==
  ASSUME TypeOK, WorkInv, Singly, NEW w \in Workers, Select(w) \/ Reselect(w)
  PROVE  /\ Singly' /\ Held' \subseteq Held
         /\ Missing(wk[w].batch) = <<>> => Held' = Held
         /\ Select(w) /\ Rows(wk[w].batch) = {} => Held' = Held
         /\ Select(w) /\ Missing(wk[w].batch) # <<>> => wk'[w].pc = "insert"
         /\ Missing(wk[w].batch) = <<>> => wk'[w].pc = "reply"
<1> DEFINE b == wk[w].batch
<1>1. /\ b \in Seq(Queries) /\ NoRepeat(b) /\ InWorker(w) = Holds(b, <<>>)
      /\ table \in [Keys -> Series \cup {NoSeries}]
  BY WorkerField, HeldParts DEF Select, Reselect, TypeOK, WorkInv, Fits, Singly
<1>2. UNCHANGED <<input, all, batches>>
  BY DEF Select, Reselect, batchVars
<1>3. \/ wk' = [wk EXCEPT ![w] = At("ended", <<>>, <<>>)] /\ Reselect(w) /\ Missing(b) # <<>>
      \/ Missing(b) # <<>> /\ wk' = [wk EXCEPT ![w] = At("insert", Missing(b), <<>>)]
      \/ Missing(b) = <<>> /\ wk' = [wk EXCEPT ![w] = At("reply", <<>>, Found(b))]
  BY DEF Select, Reselect, Ended
<1>4. Select(w) => ~Reselect(w)
  BY DEF Select, Reselect
<1> DEFINE S == Select(w)
           R == Reselect(w)
<1> HIDE DEF b, S, R
<1>5. Holds(b, <<>>) = ToSet(b)
  BY NothingHeld DEF Holds
<1>6. NoRepeat(<<>>) /\ OnceFound(<<>>) /\ Rows(b) = {} => Missing(b) = b
  BY <1>1, MissingIsLast
<1>7. NoRepeat(<<>>) /\ OnceFound(<<>>)
  BY DEF NoRepeat, OnceFound
<1>8. /\ NoRepeat(Missing(b)) /\ OnceFound(Found(b))
      /\ Holds(Missing(b), <<>>) \subseteq InWorker(w)
      /\ Holds(<<>>, Found(b)) \subseteq InWorker(w)
      /\ Missing(b) = <<>> => Holds(<<>>, Found(b)) = InWorker(w)
  BY <1>1, <1>5, LookedUp
<1>9. CASE wk' = [wk EXCEPT ![w] = At("ended", <<>>, <<>>)] /\ Reselect(w) /\ Missing(b) # <<>>
  <2>1. Holds(<<>>, <<>>) \subseteq InWorker(w)
    BY NothingHeld
  <2>2. Singly' /\ Held' = Held \ (InWorker(w) \ Holds(<<>>, <<>>))
    BY <1>2, <1>7, <1>9, <2>1, WorkerSingly
  <2>3. QED
    BY <1>4, <1>9, <2>2 DEF b
<1>10. CASE Missing(b) # <<>> /\ wk' = [wk EXCEPT ![w] = At("insert", Missing(b), <<>>)]
  <2>1. Singly' /\ Held' = Held \ (InWorker(w) \ Holds(Missing(b), <<>>))
    BY <1>2, <1>7, <1>8, <1>10, WorkerSingly
  <2>2. wk'[w].pc = "insert"
    BY <1>10, WorkerGoes
  <2>3. Rows(b) = {} => Held' = Held
    BY <1>1, <1>6, <1>7, <2>1
  <2>4. QED
    BY <1>10, <2>1, <2>2, <2>3 DEF b
<1>11. CASE Missing(b) = <<>> /\ wk' = [wk EXCEPT ![w] = At("reply", <<>>, Found(b))]
  <2>1. Singly' /\ Held' = Held \ (InWorker(w) \ Holds(<<>>, Found(b)))
    BY <1>2, <1>7, <1>8, <1>11, WorkerSingly
  <2>2. Held' = Held
    BY <1>8, <1>11, <2>1
  <2>3. wk'[w].pc = "reply"
    BY <1>11, WorkerGoes
  <2>4. QED
    BY <1>11, <2>1, <2>2, <2>3 DEF b
<1>12. QED
  BY <1>3, <1>9, <1>10, <1>11

\* The answer is the one that the query's own key has in the table.
LEMMA ReplyHeld ==
  ASSUME TypeOK, WorkInv, Singly, NEW w \in Workers, Reply(w)
  PROVE  /\ Singly'
         /\ \E q \in Held \cap Queries :
              /\ Held' = Held \ {q}
              /\ table[KeyOf[q]] \in Series
              /\ answer' = [answer EXCEPT ![q] = table[KeyOf[q]]]
         /\ wk'[w].pc # "ended"
<1> DEFINE f == wk[w].found
           r == Head(f)
<1>1. /\ f \in Seq(Reply_) /\ f # <<>> /\ Known(f, table) /\ OnceFound(f)
      /\ InWorker(w) = Holds(<<>>, f)
  BY WorkerField, HeldParts DEF Reply, WorkInv, Fits, Singly
<1>2. PICK pc \in {"idle", "reply"} : wk' = [wk EXCEPT ![w] = At(pc, <<>>, Tail(f))]
  <2>1. wk' = [wk EXCEPT ![w] = IF Tail(f) = <<>> THEN At("idle", <<>>, <<>>)
                                ELSE At("reply", <<>>, Tail(f))]
    BY DEF Reply, Idle
  <2>2. QED
    BY <2>1
<1>3. answer' = [answer EXCEPT ![r.q] = r.series] /\ UNCHANGED <<input, all, batches>>
  BY DEF Reply, batchVars
<1> HIDE DEF f
<1>4. r.q \in Queries /\ r.series \in Series /\ r.series = table[KeyOf[r.q]]
  <2>1. 1 \in DOMAIN f /\ r = f[1]
    BY <1>1, QueueTail
  <2>2. QED
    BY <1>1, <2>1, ReplyField DEF Known
<1>5. /\ OnceFound(Tail(f))
      /\ Holds(<<>>, f) = Holds(<<>>, Tail(f)) \cup {r.q}
      /\ r.q \notin Holds(<<>>, Tail(f))
  BY <1>1, FoundTail
<1> HIDE DEF r
<1>6. NoRepeat(<<>>)
  BY DEF NoRepeat
<1>7. Singly' /\ Held' = Held \ (InWorker(w) \ Holds(<<>>, Tail(f)))
  <2>1. Holds(<<>>, Tail(f)) \subseteq InWorker(w)
    BY <1>1, <1>5
  <2> DEFINE t == Tail(f)
  <2>2. /\ wk' = [wk EXCEPT ![w] = At(pc, <<>>, t)] /\ UNCHANGED <<input, all, batches>>
        /\ OnceFound(t) /\ Holds(<<>>, t) \subseteq InWorker(w)
    BY <1>2, <1>3, <1>5, <2>1
  <2> HIDE DEF t
  <2>3. Singly' /\ Held' = Held \ (InWorker(w) \ Holds(<<>>, t))
    BY <1>6, <2>2, WorkerSingly
  <2>4. QED
    BY <2>3 DEF t
<1>8. r.q \in Held /\ Held' = Held \ {r.q}
  BY <1>1, <1>5, <1>7 DEF Held
<1>9. wk'[w].pc # "ended"
  <2>1. wk'[w].pc = pc
    BY <1>2, WorkerGoes
  <2>2. QED
    BY <1>2, <2>1
<1>10. QED
  BY <1>3, <1>4, <1>7, <1>8, <1>9

-----------------------------------------------------------------------------
(* What a step does to the queries that are held.                          *)

Asks == \E q \in Queries \ asked :
  /\ asked' = asked \cup {q} /\ Held' = Held \cup {q}
  /\ UNCHANGED <<wk, answer, table>>

Moves == Held' = Held /\ UNCHANGED <<asked, answer, table>> /\ (AllEnded' <=> AllEnded)

Registers ==
  /\ Held' = Held /\ UNCHANGED <<asked, answer>> /\ ~AllEnded /\ ~AllEnded'
  /\ table' \in [Keys -> Series \cup {NoSeries}] /\ Apart(table')
  /\ \A k \in Keys : table[k] # NoSeries => table'[k] = table[k]

Answers == \E q \in Held \cap Queries :
  /\ Held' = Held \ {q}
  /\ table[KeyOf[q]] \in Series
  /\ answer' = [answer EXCEPT ![q] = table[KeyOf[q]]]
  /\ UNCHANGED <<asked, table>> /\ ~AllEnded /\ ~AllEnded'

Excused == \/ faults' > 0 \/ ~open
           \/ \E w \in Workers : Mixed(w) /\ wk'[w].pc = "insert"

Loses ==
  /\ Held' \subseteq Held /\ UNCHANGED <<asked, answer, table>> /\ (AllEnded => AllEnded')
  /\ Excused

Effect == Singly' /\ (Asks \/ Moves \/ Registers \/ Answers \/ Loses)

\* That all workers have ended, after a step.
LEMMA AllEndedNext == AllEnded' <=> \A w \in Workers : wk'[w].pc = "ended"
BY DEF AllEnded

\* Asking, closing and the batcher have one of the effects that the service allows.
LEMMA QueueEffect ==
  ASSUME LookupInv, Ask \/ Close \/ BatcherStep \/ UNCHANGED vars
  PROVE  Effect
<1> USE DEF LookupInv
<1>1. UNCHANGED <<wk, answer, table>> /\ (AllEnded' <=> AllEnded)
  <2>1. UNCHANGED <<wk, answer, table>>
    BY DEF Ask, Close, BatcherStep, TakeQuery, TimesOut, EmitBatch, EmitFails, InputEnds, vars
  <2>2. QED
    BY <2>1, AllEndedNext DEF AllEnded
<1>2. CASE Ask
  BY <1>1, <1>2, AskHeld DEF Effect, Asks
<1>3. CASE InputEnds
  <2>1. ~open /\ UNCHANGED asked
    BY <1>3 DEF InputEnds, askVars
  <2>2. QED
    BY <1>1, <1>3, <2>1, InputEndsHeld DEF Effect, Loses, Excused
<1>4. CASE TakeQuery \/ EmitBatch
  <2>1. UNCHANGED asked
    BY <1>4 DEF TakeQuery, EmitBatch, askVars
  <2>2. QED
    BY <1>1, <1>4, <2>1, TakeQueryHeld, EmitBatchHeld DEF Effect, Moves
<1>5. CASE Close \/ TimesOut \/ EmitFails \/ UNCHANGED vars
  <2>1. UNCHANGED <<asked, input, all, batches, wk>>
    BY <1>5 DEF Close, TimesOut, EmitFails, vars, askVars, batchVars
  <2>2. QED
    BY <1>1, <2>1, RestHeld DEF Effect, Moves
<1>6. QED
  BY <1>2, <1>3, <1>4, <1>5 DEF BatcherStep

\* A worker that does not end, or had not ended, shows that not all have.
LEMMA OneHasNotEnded ==
  ASSUME NEW w \in Workers
  PROVE  /\ wk[w].pc # "ended" => ~AllEnded
         /\ wk'[w].pc # "ended" => ~AllEnded'
BY AllEndedNext DEF AllEnded

\* A lookup that drops some of the batch has found some.
LEMMA SelectExcused ==
  ASSUME LookupInv, NEW w \in Workers, Select(w) \/ Reselect(w), Missing(wk[w].batch) # <<>>
  PROVE  (Select(w) /\ Rows(wk[w].batch) = {}) \/ Excused
<1> DEFINE b == wk[w].batch
<1>1. /\ b \in Seq(Queries) /\ UNCHANGED faults /\ faults \in Nat
  BY WorkerField DEF LookupInv, TypeOK, Select, Reselect
<1>2. Rows(b) \subseteq DOMAIN b /\ Rows(b) # DOMAIN b
  <2>1. DOMAIN b = 1 .. Len(b)
    BY <1>1
  <2>2. QED
    BY <1>1, <2>1, RowsType, MissingIsLast
<1>3. PICK i \in DOMAIN b : i \notin Rows(b)
  BY <1>2
<1>4. \A j \in DOMAIN b : j \in Rows(b) <=> table[KeyOf[b[j]]] # NoSeries
  BY <1>1 DEF Rows
<1>5. CASE Reselect(w) /\ faults = 0
  <2>1. table[KeyOf[b[i]]] # NoSeries
    BY <1>5 DEF LookupInv, WithoutFault, Reselect
  <2>2. QED
    BY <1>3, <1>4, <2>1
<1>6. CASE faults # 0
  BY <1>1, <1>6 DEF Excused
<1>7. CASE Select(w) /\ Rows(b) # {}
  <2>1. PICK j \in DOMAIN b : j \in Rows(b)
    BY <1>2, <1>7
  <2>2. b[i] \in ToSet(b) /\ b[j] \in ToSet(b)
    BY DEF ToSet
  <2>3. wk[w].pc = "select" /\ wk'[w].pc = "insert"
    BY <1>7, SelectHeld DEF LookupInv, Select
  <2>4. Mixed(w)
    BY <1>3, <1>4, <2>1, <2>2, <2>3 DEF Mixed
  <2>5. QED
    BY <2>3, <2>4 DEF Excused
<1>8. QED
  BY <1>5, <1>6, <1>7

\* So have the workers.
LEMMA WorkerEffect ==
  ASSUME LookupInv, NEW w \in Workers, WorkerStep(w) \/ WorkerFails(w)
  PROVE  Effect
<1> USE DEF LookupInv
<1>1. UNCHANGED <<asked, open>>
  BY WorkerTouches
<1>2. CASE RecvBatch(w)
  <2>1. wk[w].pc = "idle" /\ wk'[w].pc = "select" /\ UNCHANGED <<answer, table>>
    BY <1>2, WorkerGoes DEF RecvBatch
  <2>2. QED
    BY <1>1, <1>2, <2>1, RecvBatchHeld, OneHasNotEnded DEF Effect, Moves
<1>3. CASE WorkerDone(w) \/ WorkerFails(w)
  <2>1. wk[w].pc # "ended" /\ UNCHANGED <<answer, table>>
    BY <1>3 DEF WorkerDone, WorkerFails
  <2>2. ~open \/ faults' > 0
    BY <1>3 DEF WorkerDone, WorkerFails, WithoutFault, TypeOK
  <2>3. QED
    BY <1>1, <1>3, <2>1, <2>2, EndHeld, OneHasNotEnded DEF Effect, Loses, Excused
<1>4. CASE Select(w) \/ Reselect(w)
  <2>1. wk[w].pc # "ended" /\ UNCHANGED <<answer, table>>
    BY <1>4 DEF Select, Reselect
  <2>2. ~AllEnded
    BY <2>1, OneHasNotEnded
  <2>3. /\ Singly' /\ Held' \subseteq Held
        /\ Missing(wk[w].batch) = <<>> => Held' = Held /\ wk'[w].pc = "reply"
        /\ Select(w) /\ Rows(wk[w].batch) = {} => Held' = Held
        /\ Select(w) /\ Missing(wk[w].batch) # <<>> => wk'[w].pc = "insert"
    BY <1>4, SelectHeld
  <2>4. CASE Missing(wk[w].batch) = <<>>
    <3>1. ~AllEnded'
      BY <2>3, <2>4, OneHasNotEnded
    <3>2. QED
      BY <1>1, <2>1, <2>2, <2>3, <2>4, <3>1 DEF Effect, Moves
  <2>5. CASE Missing(wk[w].batch) # <<>> /\ Select(w) /\ Rows(wk[w].batch) = {}
    <3>1. ~AllEnded'
      BY <2>3, <2>5, OneHasNotEnded
    <3>2. QED
      BY <1>1, <2>1, <2>2, <2>3, <2>5, <3>1 DEF Effect, Moves
  <2>6. CASE Excused
    BY <1>1, <2>1, <2>2, <2>3, <2>6 DEF Effect, Loses
  <2>7. QED
    BY <1>4, <2>4, <2>5, <2>6, SelectExcused
<1>5. CASE Insert(w)
  <2>1. wk[w].pc = "insert" /\ wk'[w].pc = "reselect" /\ UNCHANGED answer
    BY <1>5, WorkerGoes DEF Insert
  <2>2. ~AllEnded /\ ~AllEnded'
    BY <2>1, OneHasNotEnded
  <2>3. Singly' /\ Held' = Held
    BY <1>5, InsertHeld
  <2>4. /\ table' \in [Keys -> Series \cup {NoSeries}] /\ Apart(table')
        /\ \A k \in Keys : table[k] # NoSeries => table'[k] = table[k]
    BY <1>5, InsertTable DEF WorkInv
  <2>5. QED
    BY <1>1, <2>1, <2>2, <2>3, <2>4 DEF Effect, Registers
<1>6. CASE Reply(w)
  <2>1. wk[w].pc = "reply" /\ UNCHANGED table
    BY <1>6 DEF Reply
  <2>2. /\ Singly' /\ wk'[w].pc # "ended"
        /\ \E q \in Held \cap Queries :
              /\ Held' = Held \ {q}
              /\ table[KeyOf[q]] \in Series
              /\ answer' = [answer EXCEPT ![q] = table[KeyOf[q]]]
    BY <1>6, ReplyHeld
  <2>3. ~AllEnded /\ ~AllEnded'
    BY <2>1, <2>2, OneHasNotEnded
  <2>4. QED
    BY <1>1, <2>1, <2>2, <2>3 DEF Effect, Answers
<1>7. QED
  BY <1>2, <1>3, <1>4, <1>5, <1>6 DEF WorkerStep

\* So every step has such an effect.
LEMMA StepEffect == LookupInv /\ [Next]_vars => Effect
BY QueueEffect, WorkerEffect DEF Next

\* At first nothing is asked, held or answered.
LEMMA InitHeld == Init => Singly /\ History /\ WithoutFault /\ Held = {} /\ Answered = {}
<1> SUFFICES ASSUME Init PROVE Singly /\ History /\ WithoutFault /\ Held = {} /\ Answered = {}
  OBVIOUS
<1>1. /\ input = <<>> /\ all = <<>> /\ batches = <<>> /\ batcher = "recv"
      /\ \A w \in Workers : wk[w].pc = "idle" /\ wk[w].batch = <<>> /\ wk[w].found = <<>>
  BY DEF Init, Idle, At
<1>2. InBatches = {} /\ \A w \in Workers : InWorker(w) = {}
  BY <1>1, HeldParts, NothingHeld
<1>3. Held = {} /\ ToSet(input) = {} /\ ToSet(all) = {}
  BY <1>1, <1>2, NothingHeld DEF Held
<1>4. Answered = {}
  BY DEF Init, Answered
<1>5. Singly
  BY <1>1, <1>2, <1>3 DEF Singly, NoRepeat, OnceFound, BatchesApart
<1>6. QED
  BY <1>1, <1>3, <1>4, <1>5 DEF History, WithoutFault

\* An answer makes its query an answered one.
LEMMA AnsweredIs ==
  ASSUME TypeOK, NEW q \in Queries, NEW s \in Series, answer' = [answer EXCEPT ![q] = s]
  PROVE  Answered' = Answered \cup {q}
BY LookupAssumption DEF Answered, TypeOK

\* What is held was asked and is not answered, through every effect.
LEMMA HistoryStep ==
  ASSUME LookupInv, Effect
  PROVE  History'
<1>1. Held \subseteq asked /\ Answered \subseteq asked /\ Held \cap Answered = {} /\ TypeOK
  BY DEF LookupInv, History
<1>2. UNCHANGED answer => Answered' = Answered
  BY DEF Answered
<1>3. CASE Asks
  BY <1>1, <1>2, <1>3 DEF Asks, History
<1>4. CASE Moves \/ Registers \/ Loses
  BY <1>1, <1>2, <1>4 DEF Moves, Registers, Loses, History
<1>5. CASE Answers
  <2>1. PICK q \in Held \cap Queries :
          /\ Held' = Held \ {q} /\ Answered' = Answered \cup {q} /\ UNCHANGED asked
    BY <1>1, <1>5, AnsweredIs DEF Answers
  <2>2. QED
    BY <1>1, <2>1 DEF History
<1>6. QED
  BY <1>3, <1>4, <1>5 DEF Effect

\* Queues leave the workers alone, and the batcher is done only when closed.
LEMMA QueueFault ==
  ASSUME LookupInv, Ask \/ Close \/ BatcherStep \/ UNCHANGED vars
  PROVE  WithoutFault'
<1>1. UNCHANGED <<wk, table, faults>>
  BY DEF Ask, Close, BatcherStep, TakeQuery, TimesOut, EmitBatch, EmitFails, InputEnds, vars
<1>2. open' => open
  BY DEF Ask, Close, BatcherStep, TakeQuery, TimesOut, EmitBatch, EmitFails, InputEnds, vars, askVars
<1>3. batcher' = "done" => ~open'
  <2>1. CASE TakeQuery \/ TimesOut \/ EmitBatch \/ EmitFails
    BY <2>1 DEF TakeQuery, TimesOut, EmitBatch, EmitFails
  <2>2. CASE InputEnds
    BY <2>2 DEF InputEnds, askVars
  <2>3. CASE UNCHANGED batcher
    BY <1>2, <2>3 DEF LookupInv, WithoutFault
  <2>4. QED
    BY <2>1, <2>2, <2>3 DEF Ask, Close, BatcherStep, vars, batchVars
<1>4. QED
  BY <1>1, <1>2, <1>3 DEF LookupInv, WithoutFault

\* A worker ends, or a query is lost by it, only for one of the causes.
LEMMA WorkerFault ==
  ASSUME LookupInv, NEW w \in Workers, WorkerStep(w) \/ WorkerFails(w)
  PROVE  WithoutFault'
<1>1. UNCHANGED <<open, batcher>>
  BY WorkerTouches
<1>2. faults \in Nat /\ table \in [Keys -> Series \cup {NoSeries}] /\ TypeOK /\ WorkInv /\ WithoutFault
  BY DEF LookupInv, TypeOK
<1>3. SUFFICES ASSUME faults' = 0, NEW v \in Workers
               PROVE  /\ open => wk'[v].pc # "ended"
                      /\ wk'[v].pc = "reselect" =>
                           \A i \in DOMAIN wk'[v].batch : table'[KeyOf[wk'[v].batch[i]]] # NoSeries
  BY <1>1, <1>2 DEF WithoutFault
<1>4. CASE Insert(w)
  <2>1. /\ \A k \in Keys : table[k] # NoSeries => table'[k] = table[k]
        /\ faults = 0
        /\ \A i \in DOMAIN wk[w].batch : table'[KeyOf[wk[w].batch[i]]] # NoSeries
    BY <1>2, <1>3, <1>4, InsertTable DEF WorkInv
  <2>2. /\ wk'[w].pc = "reselect" /\ wk'[w].batch = wk[w].batch
        /\ \A u \in Workers : u # w => wk'[u] = wk[u]
    BY <1>2, <1>4, InsertGoes
  <2>3. CASE v = w
    BY <2>1, <2>2, <2>3
  <2>4. CASE v # w
    <3>1. wk[v].batch \in Seq(Queries) /\ wk'[v] = wk[v]
      BY <1>2, <2>2, <2>4, WorkerField
    <3>2. \A i \in DOMAIN wk[v].batch : KeyOf[wk[v].batch[i]] \in Keys
      BY <3>1, LookupAssumption
    <3>3. QED
      BY <1>2, <2>1, <3>1, <3>2 DEF WithoutFault
  <2>5. QED
    BY <2>3, <2>4
<1>5. CASE ~Insert(w)
  <2>1. UNCHANGED table
    BY <1>5 DEF WorkerStep, WorkerFails, RecvBatch, WorkerDone, Select, Reselect, Reply
  <2>2. faults = 0 /\ ~WorkerFails(w)
    BY <1>2, <1>3, <1>5 DEF WorkerStep, WorkerFails, RecvBatch, WorkerDone, Select, Reselect, Reply
  <2>3. \/ wk' = [wk EXCEPT ![w] = At("select", Head(batches), <<>>)]
        \/ wk' = [wk EXCEPT ![w] = At("insert", Missing(wk[w].batch), <<>>)]
        \/ wk' = [wk EXCEPT ![w] = At("reply", <<>>, Found(wk[w].batch))]
        \/ wk' = [wk EXCEPT ![w] = At("idle", <<>>, <<>>)]
        \/ wk' = [wk EXCEPT ![w] = At("reply", <<>>, Tail(wk[w].found))]
        \/ wk' = [wk EXCEPT ![w] = At("ended", <<>>, <<>>)] /\ ~open
    <3>1. CASE RecvBatch(w)
      BY <3>1 DEF RecvBatch
    <3>2. CASE WorkerDone(w)
      BY <1>2, <3>2 DEF WorkerDone, Ended, WithoutFault
    <3>3. CASE Reply(w)
      BY <3>3 DEF Reply, Idle
    <3>4. CASE Select(w) \/ Reselect(w)
      <4>1. \/ /\ wk' = [wk EXCEPT ![w] = At("ended", <<>>, <<>>)]
               /\ Reselect(w) /\ Missing(wk[w].batch) # <<>>
            \/ wk' = [wk EXCEPT ![w] = At("insert", Missing(wk[w].batch), <<>>)]
            \/ wk' = [wk EXCEPT ![w] = At("reply", <<>>, Found(wk[w].batch))]
        BY <3>4 DEF Select, Reselect, Ended
      <4>2. ~(Reselect(w) /\ Missing(wk[w].batch) # <<>>)
        <5> SUFFICES ASSUME Reselect(w), Missing(wk[w].batch) # <<>> PROVE FALSE
          OBVIOUS
        <5>1. wk[w].pc = "reselect" /\ wk[w].batch \in Seq(Queries)
          BY <1>2, WorkerField DEF Reselect
        <5>2. DOMAIN wk[w].batch = 1 .. Len(wk[w].batch)
          BY <5>1
        <5>3. Rows(wk[w].batch) = DOMAIN wk[w].batch
          BY <1>2, <2>2, <5>1, <5>2 DEF Rows, WithoutFault
        <5>4. QED
          BY <5>1, <5>3, MissingIsLast
      <4>3. QED
        BY <4>1, <4>2
    <3>5. QED
      BY <1>5, <2>2, <3>1, <3>2, <3>3, <3>4 DEF WorkerStep
  <2>4. /\ wk'[w].pc # "reselect" /\ (wk'[w].pc = "ended" => ~open)
        /\ \A u \in Workers : u # w => wk'[u] = wk[u]
    BY <1>2, <2>3, WorkerGoes
  <2>5. QED
    BY <1>2, <2>1, <2>2, <2>4 DEF WithoutFault
<1>6. QED
  BY <1>4, <1>5

(* Where the queries are: none is held twice, what is held was asked and not *)
(* answered; and only an error ends a worker while somebody can ask.         *)
THEOREM HeldOnceCorrect == Spec => []LookupInv
<1>1. Init => LookupInv
  BY InitWork, InitHeld DEF LookupInv
<1>2. LookupInv /\ [Next]_vars => LookupInv'
  <2> SUFFICES ASSUME LookupInv, [Next]_vars PROVE LookupInv'
    OBVIOUS
  <2>1. TypeOK' /\ WorkInv'
    BY QueueWork, RecvBatchWork, EndWork, SelectWork, InsertWork, ReplyWork
       DEF LookupInv, Next, WorkerStep
  <2>2. Effect
    BY StepEffect
  <2>3. Singly' /\ History'
    BY <2>2, HistoryStep DEF Effect
  <2>4. WithoutFault'
    BY QueueFault, WorkerFault DEF Next
  <2>5. QED
    BY <2>1, <2>3, <2>4 DEF LookupInv
<1>3. QED
  BY <1>1, <1>2, PTL DEF Spec

-----------------------------------------------------------------------------
(* What the lookup promises.                                               *)

\* The queries pending at the service, now and after a step.
LEMMA PendingIs ==
  /\ Pending = IF AllEnded THEN {} ELSE Held
  /\ Pending' = IF AllEnded' THEN {} ELSE Held'
BY DEF Pending, Held

\* How a step changes what is pending and what is lost.
LEMMA PendingStep ==
  ASSUME LookupInv, Effect
  PROVE  \/ \E q \in Queries \ asked :
              /\ UNCHANGED <<answer, table>>
              /\ \/ AllEnded /\ Pending' = Pending /\ Lost' = Lost \cup {q}
                 \/ ~AllEnded /\ Pending' = Pending \cup {q} /\ Lost' = Lost
         \/ Pending' = Pending /\ Lost' = Lost /\ UNCHANGED <<answer, table>>
         \/ Registers /\ Pending' = Pending /\ Lost' = Lost
         \/ Lost' = Lost /\ UNCHANGED table
              /\ \E q \in Pending \cap Queries :
                   /\ Pending' = Pending \ {q} /\ table[KeyOf[q]] \in Series
                   /\ answer' = [answer EXCEPT ![q] = table[KeyOf[q]]]
         \/ /\ Excused /\ UNCHANGED <<answer, table>>
            /\ Pending' \subseteq Pending /\ Lost' = Lost \cup (Pending \ Pending')
<1>1. /\ Held \subseteq asked /\ Answered \subseteq asked /\ Held \cap Answered = {} /\ TypeOK
      /\ UNCHANGED answer => Answered' = Answered
  BY DEF LookupInv, History, Answered
<1>2. Lost = asked \ (Pending \cup Answered) /\ Lost' = asked' \ (Pending' \cup Answered')
  BY DEF Lost
<1>3. CASE Asks
  <2>1. AllEnded' <=> AllEnded
    BY <1>3, AllEndedNext DEF Asks, AllEnded
  <2>2. PICK q \in Queries \ asked :
          asked' = asked \cup {q} /\ Held' = Held \cup {q} /\ UNCHANGED <<answer, table>>
    BY <1>3 DEF Asks
  <2>3. CASE AllEnded
    BY <1>1, <1>2, <2>1, <2>2, <2>3, PendingIs
  <2>4. CASE ~AllEnded
    BY <1>1, <1>2, <2>1, <2>2, <2>4, PendingIs
  <2>5. QED
    BY <2>3, <2>4
<1>4. CASE Moves
  BY <1>1, <1>2, <1>4, PendingIs DEF Moves
<1>5. CASE Registers
  BY <1>1, <1>2, <1>5, PendingIs DEF Registers
<1>6. CASE Answers
  <2>1. PICK q \in Held \cap Queries :
          /\ Held' = Held \ {q} /\ Answered' = Answered \cup {q} /\ UNCHANGED <<asked, table>>
          /\ table[KeyOf[q]] \in Series /\ answer' = [answer EXCEPT ![q] = table[KeyOf[q]]]
          /\ ~AllEnded /\ ~AllEnded'
    BY <1>1, <1>6, AnsweredIs DEF Answers
  <2>2. Pending = Held /\ Pending' = Held'
    BY <2>1, PendingIs
  <2>3. Lost' = Lost
    BY <1>2, <2>1, <2>2
  <2>4. QED
    BY <2>1, <2>2, <2>3
<1>7. CASE Loses
  <2>1. Pending' \subseteq Pending /\ UNCHANGED <<asked, answer, table>> /\ Excused
    BY <1>7, PendingIs DEF Loses
  <2>2. Pending \subseteq asked /\ Pending \cap Answered = {}
    BY <1>1, PendingIs
  <2>3. Lost' = Lost \cup (Pending \ Pending')
    BY <1>1, <1>2, <2>1, <2>2
  <2>4. QED
    BY <2>1, <2>3
<1>8. QED
  BY <1>3, <1>4, <1>5, <1>6, <1>7 DEF Effect

(* Batcher and workers are a LookupService: each query is answered at most   *)
(* once, with the series of its own key, or it is lost for good.             *)
THEOREM LookupRefines == Spec => ImplementsLookup
<1>1. Init => Lookup!Init
  <2> SUFFICES ASSUME Init PROVE Lookup!Init
    OBVIOUS
  <2>1. Held = {} /\ Answered = {} /\ asked = {}
    BY InitHeld DEF Init
  <2>2. Pending = {} /\ Lost = {}
    BY <2>1, PendingIs DEF Lost
  <2>3. QED
    BY <2>2 DEF Init, Lookup!Init
<1>2. LookupInv /\ [Next]_vars => [Lookup!Next]_(Lookup!vars)
  <2> SUFFICES ASSUME LookupInv, [Next]_vars PROVE [Lookup!Next]_(Lookup!vars)
    OBVIOUS
  <2>1. Effect
    BY StepEffect
  <2>2. ASSUME NEW q \in Queries \ asked,
               UNCHANGED <<answer, table>>,
               \/ AllEnded /\ Pending' = Pending /\ Lost' = Lost \cup {q}
               \/ ~AllEnded /\ Pending' = Pending \cup {q} /\ Lost' = Lost
        PROVE  Lookup!Next
    <3>1. q \notin Pending \cup Lost /\ answer[q] = NoSeries
      BY PendingIs DEF LookupInv, History, Lost, Answered
    <3>2. q \in Lookup!New
      BY <3>1 DEF Lookup!New
    <3>3. Lookup!Ask \/ Lookup!AskInVain
      BY <2>2, <3>2 DEF Lookup!Ask, Lookup!AskInVain
    <3>4. QED
      BY <3>3 DEF Lookup!Next
  <2>3. CASE Pending' = Pending /\ Lost' = Lost /\ UNCHANGED <<answer, table>>
    BY <2>3 DEF Lookup!vars
  <2>4. CASE Registers /\ Pending' = Pending /\ Lost' = Lost
    <3>1. Lookup!Register
      BY <2>4 DEF Registers, Apart, Lookup!Register
    <3>2. QED
      BY <3>1 DEF Lookup!Next
  <2>5. ASSUME NEW q \in Pending \cap Queries, Lost' = Lost, UNCHANGED table,
               Pending' = Pending \ {q}, table[KeyOf[q]] \in Series,
               answer' = [answer EXCEPT ![q] = table[KeyOf[q]]]
        PROVE  Lookup!Next
    <3>1. Lookup!Answer
      BY <2>5, LookupAssumption DEF Lookup!Answer
    <3>2. QED
      BY <3>1 DEF Lookup!Next
  <2>6. CASE UNCHANGED <<answer, table>> /\ Pending' \subseteq Pending
             /\ Lost' = Lost \cup (Pending \ Pending')
    <3>1. Lookup!Lose
      BY <2>6 DEF Lookup!Lose
    <3>2. QED
      BY <3>1 DEF Lookup!Next
  <2>7. QED
    BY <2>1, <2>2, <2>3, <2>4, <2>5, <2>6, PendingStep
<1>3. QED
  BY <1>1, <1>2, HeldOnceCorrect, PTL DEF Spec, ImplementsLookup, Lookup!Spec

\* A fault is not forgotten.
LEMMA FaultsGrow ==
  ASSUME TypeOK, WorkInv, [Next]_vars
  PROVE  faults # 0 => faults' > 0
<1>1. faults \in Nat
  BY DEF TypeOK
<1>2. ASSUME NEW w \in Workers, Insert(w)
      PROVE  faults # 0 => faults' > 0
  <2>1. faults' \in Nat /\ (faults' = 0 => faults = 0)
    BY <1>2, InsertTable DEF WorkInv
  <2>2. QED
    BY <1>1, <2>1
<1>3. ASSUME NEW w \in Workers, WorkerFails(w)
      PROVE  faults' > 0
  BY <1>1, <1>3 DEF WorkerFails
<1>4. ASSUME NEW w \in Workers, WorkerStep(w), ~Insert(w)
      PROVE  UNCHANGED faults
  BY <1>4 DEF WorkerStep, RecvBatch, WorkerDone, Select, Reselect, Reply
<1>5. CASE Ask \/ Close \/ BatcherStep \/ UNCHANGED vars
  <2>1. UNCHANGED faults
    BY <1>5 DEF Ask, Close, BatcherStep, TakeQuery, TimesOut, EmitBatch, EmitFails, InputEnds, vars
  <2>2. QED
    BY <1>1, <2>1
<1>6. QED
  BY <1>1, <1>2, <1>3, <1>4, <1>5 DEF Next

(* A query is lost only by an error, after the input was closed, or by a     *)
(* worker that found some keys of its batch known and others not.            *)
THEOREM LossNeedsFaultCorrect == Spec => LossNeedsFault
<1>1. LookupInv /\ [Next]_vars =>
        [Lost' # Lost => \/ faults' > 0 \/ ~open
                         \/ \E w \in Workers : Mixed(w) /\ wk'[w].pc = "insert"]_vars
  <2> SUFFICES ASSUME LookupInv, [Next]_vars, Lost' # Lost PROVE Excused
    BY DEF Excused
  <2>1. Effect
    BY StepEffect
  <2>2. CASE AllEnded
    <3>1. PICK w \in Workers : wk[w].pc = "ended"
      BY <2>2, LookupAssumption DEF AllEnded
    <3>2. ~open \/ faults # 0
      BY <3>1 DEF LookupInv, WithoutFault
    <3>3. faults' > 0 \/ ~open
      BY <3>2, FaultsGrow DEF LookupInv
    <3>4. QED
      BY <3>3 DEF Excused
  <2>3. CASE ~AllEnded
    BY <2>1, <2>3, PendingStep
  <2>4. QED
    BY <2>2, <2>3
<1>2. QED
  BY <1>1, HeldOnceCorrect, PTL DEF Spec, LossNeedsFault
=============================================================================
