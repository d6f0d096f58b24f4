---------------------------- MODULE EventInsert ----------------------------
(***************************************************************************)
(* The events of one channel on their way into the store: when a CaConn    *)
(* takes an event or drops it, into which partition (ts_msp) and grid cell *)
(* it goes, and the rows that the insert workers write for it              *)
(* (netfetch/src/ca/conn.rs, scywr/src/insertworker.rs).                   *)
(* A partition is found only through its row in ts_msp, a channel active   *)
(* in a grid cell only through its row in series_by_ts_msp: one item, the  *)
(* first, has the duty to write them, and a worker may fail at that.       *)
(***************************************************************************)
EXTENDS Integers, Sequences

CONSTANTS Times,      \* the times the IOC gives its events, in any order
          Div,        \* a partition starts at a multiple of 10 s
          Hour,       \* a partition is taken up to one hour
          MaxInMsp,   \* and up to 64000 events
          GridLen,    \* TS_MSP_GRID_UNIT * TS_MSP_GRID_SPACING
          Wrap,       \* 2^64
          Copies,     \* extra_inserts_conf: [m, l], an extra insert at each
                      \* m-th event
          MaxPause,   \* the longest that events are left out
          IvlEvery,   \* 10 s
          InsertWorkers,
          MaxNow, MaxEvents

\* Times are decades after the epoch: each copy has one, too, and no partition
\* and no grid cell is the first one.
ASSUME EventAssumption ==
  /\ {Div, Hour, MaxInMsp, GridLen, Wrap} \subseteq Nat \ {0}
  /\ Div <= Hour /\ MaxInMsp < Wrap
  /\ \A t \in Times : t \in Nat /\ t < Wrap /\ t - Len(Copies) >= Div + Hour + GridLen
  /\ Copies \in Seq([m : Nat \ {0}, l : Nat])
  /\ {MaxPause, IvlEvery, MaxNow, MaxEvents} \subseteq Nat

VARIABLES
  st,      \* of CreatedState: ts_msp_last, inserted_in_ts_msp, ts_msp_grid_last
  counter, \* inserts_counter
  now, insertNextEarliest, insertRecvIvlLast,
  queue,   \* of the items for the workers
  work,    \* per worker the item and the row it is at
  rows,    \* in the store: ts_msp, series_by_ts_msp, and the events
  lost,    \* history: partitions and cells whose row was not written
  made     \* history: the items made

connVars == <<st, counter, now, insertNextEarliest, insertRecvIvlLast>>
vars == <<connVars, queue, work, rows, lost, made>>

NoGrid == 0

Idle == [at |-> "idle", item |-> [kind |-> "none"]]

Init ==
  /\ st = [ts_msp_last |-> 0, inserted_in_ts_msp |-> Wrap - 1, ts_msp_grid_last |-> NoGrid]
  /\ counter = 0 /\ now = 0 /\ insertNextEarliest = 0 /\ insertRecvIvlLast = 0
  /\ queue = <<>> /\ work = [w \in InsertWorkers |-> Idle]
  /\ rows = [msp |-> {}, grid |-> {}, data |-> {}]
  /\ lost = [msp |-> {}, grid |-> {}]
  /\ made = <<>>

-----------------------------------------------------------------------------
\* Mutant: a full partition is not left.
PartitionEndsByTime(s, ts) == s.ts_msp_last + Hour <= ts

PartitionEnds(s, ts) == s.inserted_in_ts_msp >= MaxInMsp \/ s.ts_msp_last + Hour <= ts

PartitionStart(ts) == (ts \div Div) * Div

\* Mutant: an earlier partition is not announced.
IsNewOnlyLater(s, msp) == msp > s.ts_msp_last

IsNew(s, msp) == msp # s.ts_msp_last

Open(s, msp) == [s EXCEPT !.ts_msp_last = msp, !.inserted_in_ts_msp = 1]

\* What an insert at ts does to r, a state with the items so far.  captured is
\* ts_msp_last as it was before the event's copies.
EventAddInsert(r, ts, captured, grid) ==
  LET ends    == PartitionEnds(r.st, ts)
      msp     == IF ends THEN PartitionStart(ts) ELSE captured
      changed == ends /\ IsNew(r.st, msp)
  IN [st    |-> IF changed THEN Open(r.st, msp)
                ELSE IF ends THEN r.st ELSE [r.st EXCEPT !.inserted_in_ts_msp = @ + 1],
      items |-> Append(r.items, [kind |-> "Insert", n |-> counter, ts |-> ts, ts_msp |-> msp,
                                 ts_lsp |-> (ts - msp) % Wrap, msp_bump |-> changed,
                                 ts_msp_grid |-> grid])]

GridOf(ts) == (ts \div GridLen) * GridLen

\* The copies of an event are each due now and then, the event itself always.
Due(i) == i = 0 \/ counter % Copies[i].m = Copies[i].l

\* The inserts for an event at ts: its copies, the last one first and the i-th one
\* i earlier, then itself.  At i it is what they have come to with the i-th.
Inserts(ts) ==
  LET grid == IF st.ts_msp_grid_last # GridOf(ts) THEN GridOf(ts) ELSE NoGrid
      upTo[i \in 0 .. Len(Copies) + 1] ==
        IF i = Len(Copies) + 1
        THEN [st |-> [st EXCEPT !.ts_msp_grid_last = GridOf(ts)], items |-> <<>>]
        ELSE IF Due(i) THEN EventAddInsert(upTo[i + 1], ts - i, st.ts_msp_last, grid)
        ELSE upTo[i + 1]
  IN  upTo

DoEventInsert(ts) ==
  LET r == Inserts(ts)[0] IN
  /\ st' = r.st
  /\ queue' = queue \o r.items
  /\ made' = made \o r.items
  /\ \E pause \in 0 .. MaxPause : insertNextEarliest' = now + pause
  /\ counter' = counter + 1

HandleEventAddRes ==
  /\ counter < MaxEvents /\ now >= insertNextEarliest
  /\ \E ts \in Times : DoEventInsert(ts)
  /\ UNCHANGED <<now, insertRecvIvlLast, work, rows, lost>>

\* The event comes too soon after the last one: it is left out.
EventDropped ==
  /\ now < insertNextEarliest
  /\ now - insertRecvIvlLast >= IvlEvery
  /\ insertRecvIvlLast' = now
  /\ queue' = Append(queue, [kind |-> "Ivl"])
  /\ UNCHANGED <<st, counter, now, insertNextEarliest, work, rows, lost, made>>

Tick ==
  /\ now < MaxNow
  /\ now' = now + 1
  /\ UNCHANGED <<st, counter, insertNextEarliest, insertRecvIvlLast, queue, work, rows, lost, made>>

-----------------------------------------------------------------------------
(* The insert workers.  Queue, hook and their capacities are in InsertPipe. *)

Losing(item) ==
  [msp  |-> lost.msp \cup (IF item.msp_bump THEN {item.ts_msp} ELSE {}),
   grid |-> lost.grid \cup ({item.ts_msp_grid} \ {NoGrid})]

\* A worker takes the next item; insert_frac may have it drop the item.
WorkerTakes(w) ==
  /\ work[w] = Idle /\ queue # <<>>
  /\ queue' = Tail(queue)
  /\ IF Head(queue).kind = "Ivl" THEN UNCHANGED <<work, lost>>
     ELSE \/ work' = [work EXCEPT ![w] = [at |-> "msp", item |-> Head(queue)]] /\ UNCHANGED lost
          \/ lost' = Losing(Head(queue)) /\ UNCHANGED work
  /\ UNCHANGED <<connVars, rows, made>>

\* Mutant: the data goes first.
WorkerWritesMspLate(w) ==
  /\ work[w].at = "msp"
  /\ rows' = [rows EXCEPT !.data = @ \cup {work[w].item}]
  /\ work' = [work EXCEPT ![w].at = "grid"]
  /\ UNCHANGED <<connVars, queue, lost, made>>

WorkerWritesMsp(w) ==
  /\ work[w].at = "msp"
  /\ rows' = IF work[w].item.msp_bump THEN [rows EXCEPT !.msp = @ \cup {work[w].item.ts_msp}]
             ELSE rows
  /\ work' = [work EXCEPT ![w].at = "grid"]
  /\ UNCHANGED <<connVars, queue, lost, made>>

WorkerWritesGrid(w) ==
  /\ work[w].at = "grid"
  /\ rows' = [rows EXCEPT !.grid = @ \cup ({work[w].item.ts_msp_grid} \ {NoGrid})]
  /\ work' = [work EXCEPT ![w].at = "data"]
  /\ UNCHANGED <<connVars, queue, lost, made>>

WorkerWritesData(w) ==
  /\ work[w].at = "data"
  /\ rows' = [rows EXCEPT !.data = @ \cup {work[w].item}]
  /\ work' = [work EXCEPT ![w] = Idle]
  /\ UNCHANGED <<connVars, queue, lost, made>>

\* An error at one row leaves out the rows after it.
WorkerFails(w) ==
  /\ \/ work[w].at = "msp" /\ work[w].item.msp_bump /\ lost' = Losing(work[w].item)
     \/ /\ work[w].at = "grid" /\ work[w].item.ts_msp_grid # NoGrid
        /\ lost' = [lost EXCEPT !.grid = @ \cup {work[w].item.ts_msp_grid}]
     \/ work[w].at = "data" /\ UNCHANGED lost
  /\ work' = [work EXCEPT ![w] = Idle]
  /\ UNCHANGED <<connVars, queue, rows, made>>

WorkerStep(w) == \/ WorkerTakes(w) \/ WorkerWritesMsp(w) \/ WorkerWritesGrid(w)
                 \/ WorkerWritesData(w) \/ WorkerFails(w)

Next == HandleEventAddRes \/ EventDropped \/ Tick \/ \E w \in InsertWorkers : WorkerStep(w)

Spec == Init /\ [][Next]_vars

-----------------------------------------------------------------------------
Items == [kind : {"Insert"}, n : Nat, ts : Nat, ts_msp : Nat, ts_lsp : 0 .. Wrap - 1,
          msp_bump : BOOLEAN, ts_msp_grid : Nat]

TypeOK ==
  /\ st \in [ts_msp_last : Nat, inserted_in_ts_msp : 0 .. Wrap - 1, ts_msp_grid_last : Nat]
  /\ {counter, now, insertNextEarliest, insertRecvIvlLast} \subseteq Nat
  /\ queue \in Seq(Items \cup {[kind |-> "Ivl"]}) /\ made \in Seq(Items)
  /\ \A w \in InsertWorkers :
       work[w] = Idle \/ (work[w].at \in {"msp", "grid", "data"} /\ work[w].item \in Items)
  /\ rows.msp \subseteq Nat /\ rows.grid \subseteq Nat /\ rows.data \subseteq Items
  /\ lost.msp \subseteq Nat /\ lost.grid \subseteq Nat

\* The partition that the items up to the k-th have announced last.
Announced(k) ==
  LET bumps == {i \in 1 .. k : made[i].msp_bump}
  IN IF bumps = {} THEN {} ELSE {made[CHOOSE i \in bumps : \A j \in bumps : j <= i].ts_msp}

\* An extra insert of the same event has opened a partition just before.
OpenedByCopy(k) == \E j \in 1 .. k - 1 : made[j].n = made[k].n /\ made[j].msp_bump

(* Each item is in the partition announced last, whatever the IOC's clock   *)
(* does.  Only the insert for an event whose extra insert has opened one is *)
(* left in the partition before it (of the first event: in partition 0).    *)
InAnnouncedPartition ==
  /\ TypeOK
  /\ \A k \in DOMAIN made : Announced(k) = {made[k].ts_msp} \/ OpenedByCopy(k)

(* A partition is left in time: an event is less than an hour into it, or   *)
(* the clock has run backwards beyond its start, and then ts_lsp wraps      *)
(* around; and it takes more than MaxInMsp events only while the IOC's time *)
(* is within the ten seconds it starts with.                                *)
PartitionIsLeft ==
  \A k \in DOMAIN made :
    /\ made[k].ts_lsp >= Hour => made[k].ts < made[k].ts_msp \/ OpenedByCopy(k)
    /\ k > MaxInMsp /\ (\A j \in k - MaxInMsp .. k :
                            made[j].ts_msp = made[k].ts_msp /\ ~OpenedByCopy(j))
         => PartitionStart(made[k].ts) = made[k].ts_msp

\* Some worker still holds an item that is to write this row.
WithWorker(msp) == \E w \in InsertWorkers :
  work[w].at = "msp" /\ work[w].item.msp_bump /\ work[w].item.ts_msp = msp

CellWithWorker(cell) == \E w \in InsertWorkers :
  work[w].at \in {"msp", "grid"} /\ work[w].item.ts_msp_grid = cell

(* Whatever is in the store can be found there, by its partition and by the *)
(* cell of its time, unless the row for that was lost; with several workers *)
(* the row may come later than the events.                                  *)
StoredIsFound ==
  \A d \in rows.data :
    /\ \/ d.ts_msp \in rows.msp \cup lost.msp \/ WithWorker(d.ts_msp)
       \/ \E k \in DOMAIN made : made[k] = d /\ OpenedByCopy(k)
    /\ \/ GridOf(d.ts) \in rows.grid \cup lost.grid \/ CellWithWorker(GridOf(d.ts))
       \/ \E e \in Times : e > d.ts /\ e - d.ts <= Len(Copies)
=============================================================================
