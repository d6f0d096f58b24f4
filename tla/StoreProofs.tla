---------------------------- MODULE StoreProofs ----------------------------
(***************************************************************************)
(* What is proved of the Scylla store: of the schema that the daemons make *)
(* when they start (Migrate), of the rows of events that a channel and the *)
(* insert workers put there (EventInsert), and of the rows of time bins    *)
(* (TimeBin).                                                              *)
(***************************************************************************)
EXTENDS EventInsert, Migrate, TimeBin, SequenceTheorems, WellFoundedInduction, TLAPS

(***************************************************************************)
(* The schema.                                                             *)
(***************************************************************************)

\* What a running daemon, and one that is past the constraint, has achieved.
Behind ==
  \A d \in Daemons :
    /\ phase[d] = "running" => at[d] = Last + 1
    /\ \A i \in 1 .. at[d] - 1 :
         Objects[i] = Constraint => Constraint \in have \/ duplicates \/ unnoticed

SchemaInv == SchemaTypeOK /\ MadeInOrder /\ Behind

-----------------------------------------------------------------------------
(* The objects are a sequence without repetitions that has the constraint.  *)
LEMMA ObjectsFacts ==
  /\ Last \in Nat \ {0}
  /\ \A i, j \in 1 .. Last : Objects[i] = Objects[j] => i = j
  /\ \E i \in 1 .. Last : Objects[i] = Constraint
BY MigrateAssumption DEF Last

(* With the next object a daemon has that one more behind it.               *)
LEMMA DoneNext ==
  ASSUME NEW n \in 1 .. Last
  PROVE  Done(n + 1) = Done(n) \cup ({Objects[n]} \ {Constraint})
<1>1. 1 .. (n + 1) - 1 = (1 .. n - 1) \cup {n}
  BY ObjectsFacts
<1>. QED BY <1>1 DEF Done

\* No daemon has passed an object at first.
LEMMA InitSchemaInv == SchemaInit => SchemaInv
<1>. SUFFICES ASSUME SchemaInit PROVE SchemaInv
  OBVIOUS
<1>1. SchemaTypeOK
  <2>1. faults \in 0 .. MaxFaults
    BY MigrateAssumption DEF SchemaInit
  <2>2. at \in [Daemons -> 1 .. Last + 1] /\ \A d \in Daemons : at[d] <= Last
    BY ObjectsFacts DEF SchemaInit
  <2>. QED BY <2>1, <2>2 DEF SchemaInit, SchemaTypeOK
<1>2. Done(1) = {}
  BY DEF Done
<1>3. MadeInOrder /\ Behind
  BY <1>2 DEF SchemaInit, MadeInOrder, Behind
<1>. QED BY <1>1, <1>3 DEF SchemaInv

(* A daemon may go on to the next object once this one is there, or, if it  *)
(* is the constraint, is known to be missing.  What comes to be there must  *)
(* be the object of its place.                                              *)
LEMMA GoOnKeeps ==
  ASSUME SchemaInv, NEW d \in Daemons, phase[d] \in {"check", "make"}, GoOn(d),
         have' \in {have, have \cup {Objects[at[d]]}},
         UNCHANGED duplicates, faults' \in 0 .. MaxFaults,
         unnoticed' \in BOOLEAN, unnoticed => unnoticed',
         Objects[at[d]] \in have' \/ Objects[at[d]] = Constraint,
         Objects[at[d]] = Constraint => Constraint \in have' \/ duplicates \/ unnoticed'
  PROVE  SchemaInv'
<1>1. at[d] \in 1 .. Last /\ Done(at[d]) \subseteq have /\ have \subseteq have'
  BY DEF SchemaInv, SchemaTypeOK, MadeInOrder
<1>2. /\ at' = [at EXCEPT ![d] = @ + 1] /\ at'[d] = at[d] + 1
      /\ \A e \in Daemons \ {d} : at'[e] = at[e] /\ phase'[e] = phase[e]
      /\ phase'[d] = IF at[d] = Last THEN "running" ELSE "check"
  BY DEF GoOn, SchemaInv, SchemaTypeOK
<1>3. SchemaTypeOK'
  <2>1. at' \in [Daemons -> 1 .. Last + 1]
    BY <1>1, <1>2, ObjectsFacts DEF SchemaInv, SchemaTypeOK
  <2>2. phase' \in [Daemons -> {"check", "make", "running", "down"}]
    BY DEF GoOn, SchemaInv, SchemaTypeOK
  <2>3. \A e \in Daemons : phase'[e] \in {"check", "make"} => at'[e] <= Last
    BY <1>1, <1>2, ObjectsFacts DEF SchemaInv, SchemaTypeOK
  <2>4. have' \subseteq {Objects[i] : i \in 1 .. Last}
    BY <1>1 DEF SchemaInv, SchemaTypeOK
  <2>. QED BY <2>1, <2>2, <2>3, <2>4 DEF SchemaInv, SchemaTypeOK
<1>4. MadeInOrder'
  <2>1. Done(at'[d]) \subseteq have'
    BY <1>1, <1>2, DoneNext
  <2>2. ASSUME NEW e \in Daemons \ {d} PROVE Done(at'[e]) \subseteq have'
    BY <1>1, <1>2 DEF SchemaInv, MadeInOrder
  <2>3. ASSUME NEW i \in 1 .. Last, Objects[i] \in have' PROVE Done(i) \subseteq have'
    <3>1. CASE Objects[i] \in have
      BY <3>1, <1>1 DEF SchemaInv, MadeInOrder
    <3>2. CASE Objects[i] = Objects[at[d]]
      BY <3>2, <1>1, ObjectsFacts
    <3>. QED BY <3>1, <3>2, <2>3
  <2>. QED BY <2>1, <2>2, <2>3 DEF MadeInOrder, Done, Last
<1>5. Behind'
  <2>1. ASSUME NEW e \in Daemons PROVE phase'[e] = "running" => at'[e] = Last + 1
    BY <1>2 DEF SchemaInv, Behind
  <2>2. ASSUME NEW e \in Daemons, NEW i \in 1 .. at'[e] - 1, Objects[i] = Constraint
        PROVE  Constraint \in have' \/ duplicates' \/ unnoticed'
    <3>1. CASE e # d
      BY <3>1, <2>2, <1>1, <1>2 DEF SchemaInv, Behind
    <3>2. CASE e = d /\ i = at[d]
      BY <3>2, <2>2
    <3>3. CASE e = d /\ i # at[d]
      <4>1. i \in 1 .. at[d] - 1
        BY <3>3, <2>2, <1>1, <1>2
      <4>. QED BY <4>1, <2>2, <1>1 DEF SchemaInv, Behind
    <3>. QED BY <3>1, <3>2, <3>3
  <2>. QED BY <2>1, <2>2 DEF Behind, Last
<1>. QED BY <1>3, <1>4, <1>5 DEF SchemaInv

(* A daemon that goes down, or stays where it is, takes nothing away.       *)
LEMMA FailKeeps ==
  ASSUME SchemaInv, NEW d \in Daemons,
         \/ phase' = [phase EXCEPT ![d] = "down"] /\ UNCHANGED at
         \/ phase[d] = "check" /\ phase' = [phase EXCEPT ![d] = "make"] /\ UNCHANGED at
         \/ phase' = [phase EXCEPT ![d] = "check"] /\ at' = [at EXCEPT ![d] = 1],
         UNCHANGED <<duplicates, have, unnoticed>>, faults' \in 0 .. MaxFaults
  PROVE  SchemaInv'
<1>1. \A e \in Daemons : /\ at'[e] \in {1, at[e]} /\ at[e] \in 1 .. Last + 1
                         /\ phase'[e] = "running" => phase[e] = "running" /\ at'[e] = at[e]
  BY DEF SchemaInv, SchemaTypeOK
<1>2. SchemaTypeOK'
  <2>1. at' \in [Daemons -> 1 .. Last + 1]
    BY ObjectsFacts DEF SchemaInv, SchemaTypeOK
  <2>2. phase' \in [Daemons -> {"check", "make", "running", "down"}]
    BY DEF SchemaInv, SchemaTypeOK
  <2>3. \A e \in Daemons : phase'[e] \in {"check", "make"} => at'[e] <= Last
    BY ObjectsFacts DEF SchemaInv, SchemaTypeOK
  <2>. QED BY <2>1, <2>2, <2>3 DEF SchemaInv, SchemaTypeOK
<1>3. MadeInOrder'
  <2>1. Done(1) = {}
    BY DEF Done
  <2>2. \A e \in Daemons : Done(at'[e]) \subseteq have'
    BY <1>1, <2>1 DEF SchemaInv, MadeInOrder
  <2>. QED BY <2>2 DEF SchemaInv, MadeInOrder, Done, Last
<1>4. Behind'
  BY <1>1 DEF SchemaInv, Behind
<1>. QED BY <1>2, <1>3, <1>4 DEF SchemaInv

\* A daemon goes past an object that it has found or made, and none is ever removed.
LEMMA NextSchemaInv == SchemaInv /\ [SchemaNext]_schemaVars => SchemaInv'
<1>. SUFFICES ASSUME SchemaInv, [SchemaNext]_schemaVars PROVE SchemaInv'
  OBVIOUS
<1>f. faults \in 0 .. MaxFaults /\ MaxFaults \in Nat /\ unnoticed \in BOOLEAN
  BY MigrateAssumption DEF SchemaInv, SchemaTypeOK
<1>1. ASSUME NEW d \in Daemons, Check(d) PROVE SchemaInv'
  <2>1. CASE Objects[at[d]] \in have /\ Objects[at[d]] # Constraint
    BY <2>1, <1>1, <1>f, GoOnKeeps DEF Check
  <2>2. CASE ~(Objects[at[d]] \in have /\ Objects[at[d]] # Constraint)
    BY <2>2, <1>1, <1>f, FailKeeps DEF Check
  <2>. QED BY <2>1, <2>2
<1>2. ASSUME NEW d \in Daemons, Make(d) PROVE SchemaInv'
  <2>1. CASE Objects[at[d]] \in have
    BY <2>1, <1>2, <1>f, FailKeeps DEF Make, Fail
  <2>2. CASE Objects[at[d]] \notin have
    BY <2>2, <1>2, <1>f, GoOnKeeps DEF Make
  <2>. QED BY <2>1, <2>2
<1>3. ASSUME NEW d \in Daemons, TryConstraint(d) PROVE SchemaInv'
  BY <1>3, <1>f, GoOnKeeps DEF TryConstraint
<1>4. ASSUME NEW d \in Daemons, DbError(d) PROVE SchemaInv'
  <2>1. faults' \in 0 .. MaxFaults
    BY <1>4, <1>f DEF DbError
  <2>2. CASE Objects[at[d]] = Constraint
    BY <2>1, <2>2, <1>4, <1>f, GoOnKeeps DEF DbError
  <2>3. CASE Objects[at[d]] # Constraint
    BY <2>1, <2>3, <1>4, <1>f, FailKeeps DEF DbError, Fail
  <2>. QED BY <2>2, <2>3
<1>5. ASSUME NEW d \in Daemons, Crash(d) PROVE SchemaInv'
  <2>1. faults' \in 0 .. MaxFaults
    BY <1>5, <1>f DEF Crash
  <2>. QED BY <2>1, <1>5, FailKeeps DEF Crash, Fail
<1>6. ASSUME NEW d \in Daemons, Restart(d) PROVE SchemaInv'
  BY <1>6, <1>f, FailKeeps DEF Restart
<1>7. CASE UNCHANGED schemaVars
  BY <1>7 DEF SchemaInv, SchemaTypeOK, MadeInOrder, Behind, Done, Last, schemaVars
<1>. QED BY <1>1, <1>2, <1>3, <1>4, <1>5, <1>6, <1>7 DEF SchemaNext, Step

(* SchemaInv says what is wanted: a daemon that runs has all behind it.          *)
LEMMA RunningIsComplete == SchemaInv => RunsWithSchema
<1>. SUFFICES ASSUME SchemaInv, NEW d \in Daemons, phase[d] = "running"
              PROVE  /\ Done(Last + 1) \subseteq have
                     /\ Constraint \in have \/ duplicates \/ unnoticed
  BY DEF RunsWithSchema
<1>1. at[d] = Last + 1
  BY DEF SchemaInv, Behind
<1>2. PICK i \in 1 .. Last : Objects[i] = Constraint
  BY ObjectsFacts
<1>3. i \in 1 .. at[d] - 1
  BY <1>1, <1>2, ObjectsFacts
<1>4. Constraint \in have \/ duplicates \/ unnoticed
  BY <1>2, <1>3 DEF SchemaInv, Behind
<1>. QED BY <1>1, <1>4 DEF SchemaInv, MadeInOrder

-----------------------------------------------------------------------------
(* The variables of the migration keep their types: no daemon looks for an  *)
(* object past the last one.                                                *)
THEOREM SchemaTypeCorrect == SchemaSpec => []SchemaTypeOK
<1>1. SchemaInv => SchemaTypeOK
  BY DEF SchemaInv
<1>. QED BY InitSchemaInv, NextSchemaInv, <1>1, PTL DEF SchemaSpec

(* Objects are made in their order, and what a daemon has passed is there.  *)
THEOREM MadeInOrderCorrect == SchemaSpec => []MadeInOrder
<1>1. SchemaInv => MadeInOrder
  BY DEF SchemaInv
<1>. QED BY InitSchemaInv, NextSchemaInv, <1>1, PTL DEF SchemaSpec

(* A daemon that runs has all tables, and the unique constraint unless it   *)
(* could not be made.                                                       *)
THEOREM RunsWithSchemaCorrect == SchemaSpec => []RunsWithSchema
BY InitSchemaInv, NextSchemaInv, RunningIsComplete, PTL DEF SchemaSpec

(***************************************************************************)
(* The events.  Inserts is a recursive function; that it says what each    *)
(* insert does, and what is handed down from one to the next, comes from   *)
(* the least number principle.                                             *)
(***************************************************************************)

(* A nonempty set of naturals has a least element.                          *)
LEMMA LeastNatural ==
  ASSUME NEW S, S \subseteq Nat, S # {}
  PROVE  \E n \in S : \A m \in S : n <= m
<1> DEFINE less == {p \in Nat \X Nat : p[1] < p[2]}
<1>1. IsWellFoundedOn(less, Nat)
  BY NatLessThanWellFounded DEF OpToRel
<1>2. \A m, n \in Nat : <<m, n>> \notin less => n <= m
  OBVIOUS
<1> HIDE DEF less
<1>3. PICK n \in S : \A m \in S : <<m, n>> \notin less
  BY <1>1, WFMin
<1>. QED BY <1>2, <1>3

(* What is handed down from n + 1 comes to 0.                               *)
LEMMA DownToZero ==
  ASSUME NEW n \in Nat, NEW S, n + 1 \in S, \A i \in 0 .. n : i + 1 \in S => i \in S
  PROVE  \A i \in 0 .. n + 1 : i \in S
<1> DEFINE Bad == {j \in 0 .. n + 1 : (n + 1) - j \notin S}
<1>1. Bad = {}
  <2>. SUFFICES ASSUME Bad # {} PROVE FALSE
    OBVIOUS
  <2>1. PICK j \in Bad : \A k \in Bad : j <= k
    <3>1. Bad \subseteq Nat
      OBVIOUS
    <3>. HIDE DEF Bad
    <3>. QED BY <3>1, LeastNatural
  <2>2. j # 0
    BY <2>1
  <2>3. j - 1 \in 0 .. n + 1 /\ j - 1 \notin Bad
    BY <2>1, <2>2
  <2>4. ((n + 1) - j) + 1 = (n + 1) - (j - 1) /\ (n + 1) - j \in 0 .. n
    BY <2>1, <2>2
  <2>. QED BY <2>1, <2>3, <2>4
<1>2. \A i \in 0 .. n + 1 : (n + 1) - i \in 0 .. n + 1 /\ (n + 1) - ((n + 1) - i) = i
  OBVIOUS
<1>. QED BY <1>1, <1>2

-----------------------------------------------------------------------------
\* The state an event starts from, and what the insert number i does.
EventGrid(ts) == IF st.ts_msp_grid_last # GridOf(ts) THEN GridOf(ts) ELSE NoGrid

Started(ts) == [st |-> [st EXCEPT !.ts_msp_grid_last = GridOf(ts)], items |-> <<>>]

NextInsert(ts, i, r) ==
  IF Due(i) THEN EventAddInsert(r, ts - i, st.ts_msp_last, EventGrid(ts)) ELSE r

N == Len(Copies)

\* f is what the inserts have come to, down to the one number a.
InsertsDownTo(ts, a, f) ==
  /\ f = [i \in a .. N + 1 |-> f[i]]
  /\ f[N + 1] = Started(ts)
  /\ \A i \in a .. N : f[i] = NextInsert(ts, i, f[i + 1])

\* The inserts of an event can be found, from the last copy down to the event.
LEMMA InsertsExist ==
  ASSUME NEW ts
  PROVE  \E f : InsertsDownTo(ts, 0, f)
<1>. DEFINE S == {a \in 0 .. N + 1 : \E f : InsertsDownTo(ts, a, f)}
<1>1. N \in Nat
  BY EventAssumption DEF N
<1>2. N + 1 \in S
  <2>1. InsertsDownTo(ts, N + 1, [i \in N + 1 .. N + 1 |-> Started(ts)])
    BY <1>1 DEF InsertsDownTo
  <2>. QED BY <1>1, <2>1
<1>3. ASSUME NEW a \in 0 .. N, a + 1 \in S PROVE a \in S
  <2>1. PICK f : InsertsDownTo(ts, a + 1, f)
    BY <1>3
  <2>. DEFINE g == [i \in a .. N + 1 |-> IF i = a THEN NextInsert(ts, a, f[a + 1]) ELSE f[i]]
  <2>2. g[N + 1] = Started(ts) /\ g[a] = NextInsert(ts, a, g[a + 1])
    BY <1>1, <2>1 DEF InsertsDownTo
  <2>3. \A i \in a + 1 .. N : g[i] = NextInsert(ts, i, g[i + 1])
    <3>1. \A i \in a + 1 .. N : g[i] = f[i] /\ g[i + 1] = f[i + 1]
      BY <1>1
    <3>. QED BY <3>1, <2>1 DEF InsertsDownTo
  <2>4. \A i \in a .. N : i = a \/ i \in a + 1 .. N
    BY <1>1
  <2>5. g = [i \in a .. N + 1 |-> g[i]]
    OBVIOUS
  <2>. HIDE DEF g
  <2>6. InsertsDownTo(ts, a, g)
    BY <2>2, <2>3, <2>4, <2>5 DEF InsertsDownTo
  <2>. QED BY <1>1, <2>6
<1>. HIDE DEF S
<1>4. 0 \in S
  BY <1>1, <1>2, <1>3, DownToZero
<1>. QED BY <1>4 DEF S

(* The recursive function that Inserts is says what each insert does.       *)
LEMMA InsertsAre ==
  ASSUME NEW ts
  PROVE  InsertsDownTo(ts, 0, Inserts(ts))
<1>. DEFINE grid == IF st.ts_msp_grid_last # GridOf(ts) THEN GridOf(ts) ELSE NoGrid
            Eq(f) == f = [i \in 0 .. Len(Copies) + 1 |->
                       IF i = Len(Copies) + 1
                       THEN [st |-> [st EXCEPT !.ts_msp_grid_last = GridOf(ts)], items |-> <<>>]
                       ELSE IF Due(i) THEN EventAddInsert(f[i + 1], ts - i, st.ts_msp_last, grid)
                       ELSE f[i + 1]]
<1>1. N \in Nat /\ N = Len(Copies)
  BY EventAssumption DEF N
<1>2. PICK f : InsertsDownTo(ts, 0, f)
  BY InsertsExist
<1>3. \A i \in 0 .. N + 1 : f[i] = IF i = N + 1 THEN Started(ts) ELSE NextInsert(ts, i, f[i + 1])
  BY <1>1, <1>2 DEF InsertsDownTo
<1>4. f = [i \in 0 .. N + 1 |-> f[i]]
  BY <1>2 DEF InsertsDownTo
<1>5. Eq(f)
  <2>1. f = [i \in 0 .. N + 1 |-> IF i = N + 1 THEN Started(ts) ELSE NextInsert(ts, i, f[i + 1])]
    BY <1>3, <1>4
  <2>. QED BY <2>1, <1>1 DEF Started, NextInsert, EventGrid
<1>6. Eq(Inserts(ts))
  BY <1>5 DEF Inserts
<1>7. Inserts(ts) = [i \in 0 .. N + 1 |->
                       IF i = N + 1 THEN Started(ts) ELSE NextInsert(ts, i, Inserts(ts)[i + 1])]
  BY <1>6, <1>1 DEF Started, NextInsert, EventGrid
<1>8. Inserts(ts) = [i \in 0 .. N + 1 |-> Inserts(ts)[i]]
  BY ONLY <1>7
<1>9. \A i \in 0 .. N + 1 :
        Inserts(ts)[i] = IF i = N + 1 THEN Started(ts) ELSE NextInsert(ts, i, Inserts(ts)[i + 1])
  BY ONLY <1>7
<1>. HIDE DEF Eq
<1>. QED BY <1>1, <1>8, <1>9 DEF InsertsDownTo

-----------------------------------------------------------------------------
(* The partitions.  s is the state of the channel, m the items so far.      *)
ChannelStates ==
  [ts_msp_last : Nat, inserted_in_ts_msp : 0 .. Wrap - 1, ts_msp_grid_last : Nat]

\* The items there are: none is made for a time in the first cell.
LateItems == {x \in Items : x.ts >= GridLen}

Opened(m, k) == \E j \in 1 .. k - 1 : m[j].n = m[k].n /\ m[j].msp_bump

\* The i-th is the last item up to the k-th that announces a partition.
AnnouncedAt(m, k, i) == /\ i \in 1 .. k /\ m[i].msp_bump
                        /\ \A j \in i + 1 .. k : ~m[j].msp_bump

\* The j-th to the k-th are in this partition, and no copy opened it for them.
InARow(m, j, k, msp) == \A i \in j .. k : m[i].ts_msp = msp /\ ~Opened(m, i)

InPartition(m, k) ==
  \E i \in 1 .. k : AnnouncedAt(m, k, i) /\ (m[i].ts_msp = m[k].ts_msp \/ Opened(m, k))

LeftInTime(m, k) ==
  /\ m[k].ts_lsp >= Hour => m[k].ts < m[k].ts_msp \/ Opened(m, k)
  /\ k > MaxInMsp /\ InARow(m, k - MaxInMsp, k, m[k].ts_msp)
       => PartitionStart(m[k].ts) = m[k].ts_msp

\* The channel knows the partition announced last; at first it believes to be in a
\* full one.
Knows(s, m) ==
  IF m = <<>> THEN s.ts_msp_last = 0 /\ s.inserted_in_ts_msp = Wrap - 1
  ELSE \E i \in 1 .. Len(m) : AnnouncedAt(m, Len(m), i) /\ m[i].ts_msp = s.ts_msp_last

\* It has counted all the items since it has opened it.
Counts(s, m) == \A q \in 1 .. MaxInMsp :
  q <= Len(m) /\ InARow(m, Len(m) + 1 - q, Len(m), s.ts_msp_last) => q <= s.inserted_in_ts_msp

PartitionInv(s, m) ==
  /\ s \in ChannelStates /\ m \in Seq(LateItems)
  /\ Knows(s, m) /\ Counts(s, m)
  /\ \A k \in 1 .. Len(m) : InPartition(m, k) /\ LeftInTime(m, k)

\* While an event's items are made: if the partition is not the one from before
\* the event, one of them has opened it.
SinceCaptured(s, m, captured) ==
  s.ts_msp_last = captured \/ \E j \in 1 .. Len(m) : m[j].n = counter /\ m[j].msp_bump

\* What an insert of an item x, from the state s, comes to.
Opens(s, s2, x) ==
  /\ x.msp_bump /\ x.ts_msp = PartitionStart(x.ts) /\ x.ts_msp # s.ts_msp_last
  /\ s2 = Open(s, x.ts_msp)

StaysFull(s, s2, x) ==
  /\ ~x.msp_bump /\ x.ts_msp = PartitionStart(x.ts) /\ x.ts_msp = s.ts_msp_last
  /\ PartitionEnds(s, x.ts) /\ s2 = s

GoesOn(s, s2, x, captured) ==
  /\ ~x.msp_bump /\ x.ts_msp = captured /\ ~PartitionEnds(s, x.ts)
  /\ s2 = [s EXCEPT !.inserted_in_ts_msp = @ + 1]

Effect(s, s2, x, captured) ==
  /\ x \in LateItems /\ x.n = counter /\ x.ts_lsp = (x.ts - x.ts_msp) % Wrap
  /\ x.ts >= Div
  /\ s2 \in ChannelStates /\ s2.ts_msp_grid_last = s.ts_msp_grid_last
  /\ Opens(s, s2, x) \/ StaysFull(s, s2, x) \/ GoesOn(s, s2, x, captured)

(* A partition starts at most Div before the time, and not at 0.            *)
LEMMA StartFacts ==
  ASSUME NEW t \in Nat, t >= Div
  PROVE  PartitionStart(t) \in Nat \ {0} /\ PartitionStart(t) <= t /\ t - PartitionStart(t) < Div
<1>1. Div \in Nat \ {0}
  BY EventAssumption
<1>2. t \div Div \in Nat /\ t % Div \in 0 .. Div - 1 /\ t = Div * (t \div Div) + (t % Div)
  BY <1>1
<1>3. PartitionStart(t) = t - (t % Div)
  BY <1>1, <1>2 DEF PartitionStart
<1>. QED BY <1>1, <1>2, <1>3

\* The times of events and of their copies.
IsTime(t) == t \in Nat /\ t >= Div + Hour + GridLen /\ t < Wrap

\* An insert at t that comes from r to r2 and makes the item x.
MakesItem(r, r2, x, t, captured, grid) ==
  /\ r2.items = Append(r.items, x) /\ Effect(r.st, r2.st, x, captured)
  /\ x.ts = t /\ x.ts_msp_grid = grid

(* An insert makes one item and has one of three effects.                   *)
LEMMA InsertEffect ==
  ASSUME counter \in Nat, NEW r, r.st \in ChannelStates, NEW t, IsTime(t), NEW captured \in Nat, NEW grid \in Nat,
         NEW r2, r2 = EventAddInsert(r, t, captured, grid)
  PROVE  \E x : MakesItem(r, r2, x, t, captured, grid)
<1>. DEFINE ends    == PartitionEnds(r.st, t)
            msp     == IF ends THEN PartitionStart(t) ELSE captured
            changed == ends /\ IsNew(r.st, msp)
            x == [kind |-> "Insert", n |-> counter, ts |-> t, ts_msp |-> msp,
                  ts_lsp |-> (t - msp) % Wrap, msp_bump |-> changed, ts_msp_grid |-> grid]
            s2 == r2.st
<1>1. {Div, Hour, MaxInMsp, GridLen, Wrap} \subseteq Nat \ {0} /\ MaxInMsp < Wrap
  BY EventAssumption
<1>2. r2.items = Append(r.items, x)
  BY DEF EventAddInsert
<1>3. s2 = IF changed THEN Open(r.st, msp)
           ELSE IF ends THEN r.st ELSE [r.st EXCEPT !.inserted_in_ts_msp = @ + 1]
  BY DEF EventAddInsert
<1>4. t \in Nat /\ t >= Div /\ t >= GridLen
  BY <1>1 DEF IsTime
<1>5. msp \in Nat
  BY <1>4, StartFacts
<1>6. (t - msp) % Wrap \in 0 .. Wrap - 1
  BY <1>1, <1>4, <1>5
<1>7. changed \in BOOLEAN
  OBVIOUS
<1>8. /\ x.n = counter /\ x.ts = t /\ x.ts_msp = msp /\ x.ts_lsp = (t - msp) % Wrap
      /\ x.ts_msp_grid = grid
  OBVIOUS
<1>9. x.msp_bump <=> changed
  OBVIOUS
<1>10. x \in LateItems
  <2>. HIDE DEF msp, changed
  <2>1. x \in Items
    BY <1>4, <1>5, <1>6, <1>7 DEF Items
  <2>. QED BY <2>1, <1>4, <1>8 DEF LateItems
<1>. HIDE DEF x, s2, changed, msp, ends
<1>11. CASE changed
  <2>1. ends /\ msp = PartitionStart(t) /\ msp # r.st.ts_msp_last
    BY <1>11 DEF changed, msp, IsNew
  <2>2. s2 = Open(r.st, msp)
    BY <1>3, <1>11
  <2>3. s2 \in ChannelStates /\ s2.ts_msp_grid_last = r.st.ts_msp_grid_last
    <3>1. 1 \in 0 .. Wrap - 1
      BY <1>1
    <3>. QED BY <2>2, <3>1, <1>5 DEF ChannelStates, Open
  <2>4. Opens(r.st, s2, x)
    BY <1>8, <1>9, <1>11, <2>1, <2>2 DEF Opens
  <2>. QED BY <1>2, <1>4, <1>8, <1>10, <2>3, <2>4 DEF Effect, MakesItem, s2
<1>12. CASE ~changed /\ ends
  <2>1. msp = PartitionStart(t) /\ msp = r.st.ts_msp_last
    BY <1>12 DEF changed, msp, IsNew
  <2>2. s2 = r.st
    BY <1>3, <1>12
  <2>3. StaysFull(r.st, s2, x)
    BY <1>8, <1>9, <1>12, <2>1, <2>2 DEF StaysFull, ends
  <2>. QED BY <1>2, <1>4, <1>8, <1>10, <2>2, <2>3 DEF Effect, MakesItem, s2
<1>13. CASE ~changed /\ ~ends
  <2>1. msp = captured
    BY <1>13 DEF msp
  <2>2. s2 = [r.st EXCEPT !.inserted_in_ts_msp = @ + 1]
    BY <1>3, <1>13
  <2>3. r.st.inserted_in_ts_msp \in Nat /\ r.st.inserted_in_ts_msp < MaxInMsp
    BY <1>13, <1>1 DEF ends, PartitionEnds, ChannelStates
  <2>4. s2 \in ChannelStates /\ s2.ts_msp_grid_last = r.st.ts_msp_grid_last
    BY <2>2, <2>3, <1>1 DEF ChannelStates
  <2>5. GoesOn(r.st, s2, x, captured)
    BY <1>8, <1>9, <1>13, <2>1, <2>2 DEF GoesOn, ends
  <2>. QED BY <1>2, <1>4, <1>8, <1>10, <2>4, <2>5 DEF Effect, MakesItem, s2
<1>. QED BY <1>11, <1>12, <1>13

(* The j-th of the items with one more are the j-th of the items; what is   *)
(* said of them stays true.                                                 *)
LEMMA AppendKeeps ==
  ASSUME NEW m \in Seq(LateItems), NEW x \in LateItems
  PROVE  /\ Append(m, x) \in Seq(LateItems) /\ Len(Append(m, x)) = Len(m) + 1 /\ Len(m) \in Nat
         /\ Append(m, x)[Len(m) + 1] = x /\ Append(m, x) # <<>>
         /\ \A k \in 1 .. Len(m) : /\ Append(m, x)[k] = m[k]
                                   /\ Opened(Append(m, x), k) <=> Opened(m, k)
                                   /\ InPartition(m, k) => InPartition(Append(m, x), k)
                                   /\ LeftInTime(m, k) => LeftInTime(Append(m, x), k)
<1>. DEFINE m2 == Append(m, x)
<1>1. /\ m2 \in Seq(LateItems) /\ Len(m2) = Len(m) + 1 /\ Len(m) \in Nat
      /\ m2[Len(m) + 1] = x /\ m2 # <<>>
  OBVIOUS
<1>2. \A k \in 1 .. Len(m) : m2[k] = m[k]
  OBVIOUS
<1>. HIDE DEF m2
<1>3. \A k \in 1 .. Len(m) : \A j \in 1 .. k : j \in 1 .. Len(m)
  BY <1>1
<1>4. ASSUME NEW k \in 1 .. Len(m) PROVE Opened(m2, k) <=> Opened(m, k)
  <2>1. \A j \in 1 .. k - 1 : j \in 1 .. Len(m)
    BY <1>1
  <2>. QED BY <2>1, <1>2 DEF Opened
<1>5. ASSUME NEW k \in 1 .. Len(m), InPartition(m, k) PROVE InPartition(m2, k)
  <2>1. PICK i \in 1 .. k : AnnouncedAt(m, k, i) /\ (m[i].ts_msp = m[k].ts_msp \/ Opened(m, k))
    BY <1>5 DEF InPartition
  <2>2. \A j \in i + 1 .. k : j \in 1 .. Len(m)
    BY <1>1, <2>1
  <2>3. AnnouncedAt(m2, k, i)
    BY <2>1, <2>2, <1>2, <1>3 DEF AnnouncedAt
  <2>. QED BY <2>1, <2>3, <1>2, <1>3, <1>4 DEF InPartition
<1>6. ASSUME NEW k \in 1 .. Len(m), LeftInTime(m, k) PROVE LeftInTime(m2, k)
  <2>1. CASE k > MaxInMsp
    <3>1. \A i \in k - MaxInMsp .. k : i \in 1 .. Len(m)
      BY <2>1, <1>1, EventAssumption
    <3>2. \A i \in k - MaxInMsp .. k : m2[i] = m[i] /\ (Opened(m2, i) <=> Opened(m, i))
      BY <3>1, <1>2, <1>4
    <3>3. InARow(m2, k - MaxInMsp, k, m2[k].ts_msp) => InARow(m, k - MaxInMsp, k, m[k].ts_msp)
      BY <3>2, <1>2 DEF InARow
    <3>. QED BY <3>3, <1>2, <1>4, <1>6 DEF LeftInTime
  <2>. QED BY <2>1, <1>2, <1>4, <1>6 DEF LeftInTime
<1>. QED BY <1>1, <1>2, <1>4, <1>5, <1>6 DEF m2

(* At first the partition is full, and not one in which a time is.  Later,  *)
(* only if it opens a partition is an item in another than the last one,    *)
(* unless a copy has opened that.                                           *)
LEMMA EffectCases ==
  ASSUME NEW s, NEW m, PartitionInv(s, m), NEW captured \in Nat, SinceCaptured(s, m, captured),
         NEW s2, NEW x, Effect(s, s2, x, captured)
  PROVE  /\ m = <<>> => Opens(s, s2, x)
         /\ Opens(s, s2, x) \/ x.ts_msp = s.ts_msp_last \/ Opened(Append(m, x), Len(m) + 1)
         /\ s2.ts_msp_last = IF Opens(s, s2, x) THEN x.ts_msp ELSE s.ts_msp_last
         /\ x.msp_bump <=> Opens(s, s2, x)
<1>. DEFINE m2 == Append(m, x)
            n  == Len(m) + 1
<1>1. /\ {Div, Hour, MaxInMsp, GridLen, Wrap} \subseteq Nat \ {0} /\ MaxInMsp < Wrap /\ Div <= Hour
  BY EventAssumption
<1>2. m \in Seq(LateItems) /\ x \in LateItems
  BY DEF PartitionInv, Effect
<1>3. Len(m) \in Nat /\ m2[n] = x /\ \A k \in 1 .. Len(m) : m2[k] = m[k]
  BY <1>2, AppendKeeps
<1>. HIDE DEF m2
<1>4. x.ts \in Nat /\ x.ts >= Div /\ x.n = counter
  BY DEF Effect, LateItems, Items
<1>5. s.ts_msp_last \in Nat /\ s.inserted_in_ts_msp \in 0 .. Wrap - 1
  BY DEF PartitionInv, ChannelStates
<1>6. PartitionStart(x.ts) \in Nat \ {0}
  BY <1>4, StartFacts
<1>7. m = <<>> => Opens(s, s2, x)
  <2>. SUFFICES ASSUME m = <<>> PROVE Opens(s, s2, x)
    OBVIOUS
  <2>1. s.ts_msp_last = 0 /\ s.inserted_in_ts_msp = Wrap - 1
    BY DEF PartitionInv, Knows
  <2>2. PartitionEnds(s, x.ts)
    BY <2>1, <1>1 DEF PartitionEnds
  <2>. QED BY <2>1, <2>2, <1>6 DEF Effect, StaysFull, GoesOn
<1>8. Opens(s, s2, x) \/ x.ts_msp = s.ts_msp_last \/ Opened(m2, n)
  <2>1. CASE GoesOn(s, s2, x, captured) /\ captured # s.ts_msp_last
    <3>1. PICK j \in 1 .. Len(m) : m[j].n = counter /\ m[j].msp_bump
      BY <2>1 DEF SinceCaptured
    <3>2. j \in 1 .. n - 1 /\ m2[j] = m[j]
      BY <1>3
    <3>. QED BY <3>1, <3>2, <1>3, <1>4 DEF Opened
  <2>. QED BY <2>1 DEF Effect, StaysFull, GoesOn
<1>9. s2.ts_msp_last = IF Opens(s, s2, x) THEN x.ts_msp ELSE s.ts_msp_last
  BY <1>5 DEF Effect, Opens, StaysFull, GoesOn, Open, ChannelStates, PartitionInv
<1>10. x.msp_bump <=> Opens(s, s2, x)
  BY DEF Effect, Opens, StaysFull, GoesOn
<1>. QED BY <1>7, <1>8, <1>9, <1>10 DEF m2

(* What is needed of an item that was just appended.                        *)
LEMMA PartitionStep ==
  ASSUME NEW s, NEW m, PartitionInv(s, m), NEW captured \in Nat, SinceCaptured(s, m, captured),
         NEW s2, NEW x, Effect(s, s2, x, captured)
  PROVE  PartitionInv(s2, Append(m, x)) /\ SinceCaptured(s2, Append(m, x), captured)
<1>. DEFINE m2 == Append(m, x)
            n  == Len(m) + 1
<1>1. /\ {Div, Hour, MaxInMsp, GridLen, Wrap} \subseteq Nat \ {0} /\ MaxInMsp < Wrap /\ Div <= Hour
  BY EventAssumption
<1>2. m \in Seq(LateItems) /\ x \in LateItems
  BY DEF PartitionInv, Effect
<1>3. /\ m2 \in Seq(LateItems) /\ Len(m2) = n /\ Len(m) \in Nat /\ m2[n] = x /\ m2 # <<>>
      /\ \A k \in 1 .. Len(m) : /\ m2[k] = m[k] /\ (Opened(m2, k) <=> Opened(m, k))
                                /\ InPartition(m, k) => InPartition(m2, k)
                                /\ LeftInTime(m, k) => LeftInTime(m2, k)
  BY <1>2, AppendKeeps
<1>. HIDE DEF m2
<1>4. /\ x.ts \in Nat /\ x.ts >= Div /\ x.ts_msp \in Nat /\ x.ts_lsp = (x.ts - x.ts_msp) % Wrap
      /\ x.n = counter
  BY DEF Effect, LateItems, Items
<1>5. /\ s.ts_msp_last \in Nat /\ s.inserted_in_ts_msp \in 0 .. Wrap - 1
      /\ s2 \in ChannelStates
  BY DEF PartitionInv, ChannelStates, Effect
<1>6. PartitionStart(x.ts) \in Nat \ {0} /\ PartitionStart(x.ts) <= x.ts /\ x.ts - PartitionStart(x.ts) < Div
  BY <1>4, StartFacts
<1>7. /\ m = <<>> => Opens(s, s2, x)
      /\ Opens(s, s2, x) \/ x.ts_msp = s.ts_msp_last \/ Opened(m2, n)
      /\ s2.ts_msp_last = IF Opens(s, s2, x) THEN x.ts_msp ELSE s.ts_msp_last
      /\ x.msp_bump <=> Opens(s, s2, x)
  BY EffectCases DEF m2
<1>11. AnnouncedAt(m2, n, n) \/ ~Opens(s, s2, x)
  BY <1>3, <1>7 DEF AnnouncedAt
<1>12. ASSUME ~Opens(s, s2, x)
       PROVE  \E i \in 1 .. n : AnnouncedAt(m2, n, i) /\ m2[i].ts_msp = s.ts_msp_last
  <2>1. m # <<>>
    BY <1>7, <1>12
  <2>2. PICK i \in 1 .. Len(m) : AnnouncedAt(m, Len(m), i) /\ m[i].ts_msp = s.ts_msp_last
    BY <2>1 DEF PartitionInv, Knows
  <2>3. \A j \in i + 1 .. n : j \in i + 1 .. Len(m) \/ j = n
    BY <1>3, <2>2
  <2>4. \A j \in i + 1 .. n : ~m2[j].msp_bump
    <3>. TAKE j \in i + 1 .. n
    <3>1. CASE j = n
      BY <3>1, <1>3, <1>7, <1>12
    <3>2. CASE j \in i + 1 .. Len(m)
      <4>1. j \in 1 .. Len(m)
        BY <3>2, <2>2
      <4>. QED BY <4>1, <3>2, <1>3, <2>2 DEF AnnouncedAt
    <3>. QED BY <3>1, <3>2, <2>3
  <2>5. AnnouncedAt(m2, n, i) /\ i \in 1 .. n
    BY <2>2, <2>4, <1>3 DEF AnnouncedAt
  <2>. QED BY <2>2, <2>5, <1>3
<1>13. InPartition(m2, n)
  <2>1. CASE Opens(s, s2, x)
    BY <2>1, <1>3, <1>11 DEF InPartition
  <2>2. CASE ~Opens(s, s2, x)
    BY <2>2, <1>3, <1>7, <1>12 DEF InPartition
  <2>. QED BY <2>1, <2>2
<1>14. Knows(s2, m2)
  <2>1. CASE Opens(s, s2, x)
    BY <2>1, <1>3, <1>7, <1>11 DEF Knows
  <2>2. CASE ~Opens(s, s2, x)
    BY <2>2, <1>3, <1>7, <1>12 DEF Knows
  <2>. QED BY <2>1, <2>2
<1>15. x.ts_lsp >= Hour => x.ts < x.ts_msp \/ Opened(m2, n)
  <2>. SUFFICES ASSUME x.ts >= x.ts_msp, ~Opened(m2, n) PROVE x.ts_lsp < Hour
    <3>1. x.ts_lsp \in Nat
      BY DEF Effect, LateItems, Items
    <3>. QED BY <1>1, <1>4, <3>1
  <2>1. x.ts - x.ts_msp \in Nat /\ x.ts - x.ts_msp < Hour
    <3>1. CASE x.ts_msp = PartitionStart(x.ts)
      BY <3>1, <1>1, <1>4, <1>6
    <3>2. CASE GoesOn(s, s2, x, captured)
      <4>1. x.ts_msp = s.ts_msp_last
        BY <3>2, <1>7 DEF GoesOn, Opens
      <4>2. x.ts < s.ts_msp_last + Hour
        BY <3>2, <1>1, <1>4, <1>5 DEF GoesOn, PartitionEnds
      <4>3. x.ts \in Nat /\ x.ts_msp \in Nat /\ Hour \in Nat /\ x.ts < x.ts_msp + Hour
        BY <4>1, <4>2, <1>1, <1>4
      <4>4. \A a, b, c \in Nat : a >= b /\ a < b + c => a - b \in Nat /\ a - b < c
        OBVIOUS
      <4>. QED BY <4>3, <4>4
    <3>3. x.ts_msp = PartitionStart(x.ts) \/ GoesOn(s, s2, x, captured)
      BY DEF Effect, Opens, StaysFull
    <3>. QED BY <3>1, <3>2, <3>3
  <2>2. (x.ts - x.ts_msp) % Wrap <= x.ts - x.ts_msp
    BY <2>1, <1>1
  <2>3. (x.ts - x.ts_msp) % Wrap \in Nat
    BY <2>1, <1>1
  <2>. QED BY <2>1, <2>2, <2>3, <1>1, <1>4
<1>16. n > MaxInMsp /\ InARow(m2, n - MaxInMsp, n, x.ts_msp) => PartitionStart(x.ts) = x.ts_msp
  <2>. SUFFICES ASSUME n > MaxInMsp, InARow(m2, n - MaxInMsp, n, x.ts_msp),
                       GoesOn(s, s2, x, captured)
                PROVE  FALSE
    BY DEF Effect, Opens, StaysFull
  <2>1. ~Opened(m2, n) /\ x.ts_msp = s.ts_msp_last
    BY <1>1, <1>3, <1>7 DEF InARow, Opens, GoesOn
  <2>2. \A i \in Len(m) + 1 - MaxInMsp .. Len(m) : i \in n - MaxInMsp .. n /\ i \in 1 .. Len(m)
    BY <1>1, <1>3
  <2>3. InARow(m, Len(m) + 1 - MaxInMsp, Len(m), s.ts_msp_last)
    BY <2>1, <2>2, <1>3 DEF InARow
  <2>4. MaxInMsp <= s.inserted_in_ts_msp
    BY <2>3, <1>1, <1>3 DEF PartitionInv, Counts
  <2>. QED BY <2>4 DEF GoesOn, PartitionEnds
<1>17. LeftInTime(m2, n)
  BY <1>3, <1>15, <1>16 DEF LeftInTime
<1>18. Counts(s2, m2)
  <2>. SUFFICES ASSUME NEW q \in 1 .. MaxInMsp, q <= n, InARow(m2, n + 1 - q, n, s2.ts_msp_last)
                PROVE  q <= s2.inserted_in_ts_msp
    BY <1>3 DEF Counts
  <2>0. q \in Nat \ {0} /\ q <= MaxInMsp
    BY <1>1
  <2>1. x.ts_msp = s2.ts_msp_last /\ ~Opened(m2, n)
    BY <1>1, <1>3 DEF InARow
  <2>2. CASE Opens(s, s2, x)
    <3>1. s2.inserted_in_ts_msp = 1
      BY <2>2, <1>5 DEF Opens, Open, PartitionInv, ChannelStates
    <3>2. CASE q = 1
      BY <3>1, <3>2
    <3>3. CASE q # 1
      <4>1. Len(m) \in n + 1 - q .. n /\ Len(m) \in 1 .. Len(m)
        BY <2>0, <3>3, <1>3
      <4>2. m[Len(m)].ts_msp = x.ts_msp /\ ~Opened(m, Len(m)) /\ m # <<>>
        BY <4>1, <2>1, <1>3 DEF InARow
      <4>3. PICK i \in 1 .. Len(m) : AnnouncedAt(m, Len(m), i) /\ m[i].ts_msp = m[Len(m)].ts_msp
        BY <4>1, <4>2 DEF PartitionInv, InPartition
      <4>4. PICK j \in 1 .. Len(m) : AnnouncedAt(m, Len(m), j) /\ m[j].ts_msp = s.ts_msp_last
        BY <4>2 DEF PartitionInv, Knows
      <4>5. i = j
        BY <4>3, <4>4, <1>3 DEF AnnouncedAt
      <4>. QED BY <4>2, <4>3, <4>4, <4>5, <2>2 DEF Opens
    <3>. QED BY <3>2, <3>3
  <2>3. CASE StaysFull(s, s2, x)
    <3>1. s.inserted_in_ts_msp >= MaxInMsp
      BY <2>3, <1>1, <1>4, <1>5, <1>6 DEF StaysFull, PartitionEnds
    <3>. QED BY <3>1, <2>3, <2>0, <1>1, <1>5 DEF StaysFull
  <2>4. CASE GoesOn(s, s2, x, captured)
    <3>1. s2.inserted_in_ts_msp = s.inserted_in_ts_msp + 1 /\ s2.ts_msp_last = s.ts_msp_last
      BY <2>4, <1>5 DEF GoesOn, PartitionInv, ChannelStates
    <3>2. CASE q = 1
      BY <3>1, <3>2, <1>5
    <3>3. CASE q # 1
      <4>1. q - 1 \in 1 .. MaxInMsp /\ q - 1 <= Len(m)
        BY <2>0, <3>3, <1>1, <1>3
      <4>2. \A i \in Len(m) + 1 - (q - 1) .. Len(m) : i \in n + 1 - q .. n /\ i \in 1 .. Len(m)
        BY <4>1, <1>3, <2>0
      <4>3. InARow(m, Len(m) + 1 - (q - 1), Len(m), s.ts_msp_last)
        BY <4>2, <3>1, <1>3 DEF InARow
      <4>4. q - 1 <= s.inserted_in_ts_msp
        BY <4>1, <4>3 DEF PartitionInv, Counts
      <4>. QED BY <4>4, <3>1, <2>0, <1>5
    <3>. QED BY <3>2, <3>3
  <2>. QED BY <2>2, <2>3, <2>4 DEF Effect
<1>19. \A k \in 1 .. Len(m2) : InPartition(m2, k) /\ LeftInTime(m2, k)
  <2>1. \A k \in 1 .. n : k \in 1 .. Len(m) \/ k = n
    BY <1>3
  <2>. QED BY <2>1, <1>3, <1>13, <1>17 DEF PartitionInv
<1>20. SinceCaptured(s2, m2, captured)
  <2>1. CASE Opens(s, s2, x)
    <3>1. n \in 1 .. Len(m2) /\ m2[n].n = counter /\ m2[n].msp_bump
      BY <2>1, <1>3, <1>4, <1>7
    <3>. QED BY <3>1 DEF SinceCaptured
  <2>2. CASE ~Opens(s, s2, x)
    <3>1. s2.ts_msp_last = s.ts_msp_last /\ \A j \in 1 .. Len(m) : j \in 1 .. Len(m2) /\ m2[j] = m[j]
      BY <2>2, <1>3, <1>7
    <3>. QED BY <3>1 DEF SinceCaptured
  <2>. QED BY <2>1, <2>2
<1>. QED BY <1>3, <1>5, <1>14, <1>18, <1>19, <1>20 DEF PartitionInv, m2

(* No time that is not before the second cell is in cell NoGrid.            *)
LEMMA GridNotZero ==
  ASSUME NEW t \in Nat
  PROVE  GridOf(t) \in Nat /\ (t >= GridLen => GridOf(t) # NoGrid)
<1>1. GridLen \in Nat \ {0}
  BY EventAssumption
<1>2. t \div GridLen \in Nat /\ t % GridLen \in 0 .. GridLen - 1 /\ t = GridLen * (t \div GridLen) + (t % GridLen)
  BY <1>1
<1>3. GridOf(t) = t - (t % GridLen)
  BY <1>1, <1>2 DEF GridOf
<1>4. GridOf(t) \in Nat
  BY <1>1, <1>2 DEF GridOf
<1>. QED BY <1>1, <1>2, <1>3, <1>4 DEF NoGrid

-----------------------------------------------------------------------------
(* What makes an item found: that the row for its partition is in the       *)
(* store, or lost, or with a worker (msps), or that a copy has opened it;   *)
(* and the same of its cell (cells), copies of an event apart.              *)
QueueItems == LateItems \cup {[kind |-> "Ivl"]}

PartitionFound(m, x, msps) ==
  x.ts_msp \in msps \/ \E k \in 1 .. Len(m) : m[k] = x /\ Opened(m, k)

IsCopy(x) == \E e \in Times : e > x.ts /\ e - x.ts <= Len(Copies)

CellFound(x, cells) == GridOf(x.ts) \in cells \/ IsCopy(x)

\* One of the first p in the queue q is to write the row.
MspQueued(q, p, msp) ==
  \E i \in 1 .. p : q[i].kind = "Insert" /\ q[i].msp_bump /\ q[i].ts_msp = msp

CellQueued(q, p, cell) == \E i \in 1 .. p : q[i].kind = "Insert" /\ q[i].ts_msp_grid = cell

\* Each item in the queue is found, or will be by what is before it.
QueueInv(m, q, msps, cells) ==
  /\ q \in Seq(QueueItems)
  /\ \A p \in 1 .. Len(q) : q[p].kind = "Insert" =>
       /\ PartitionFound(m, q[p], msps) \/ MspQueued(q, p, q[p].ts_msp)
       /\ CellFound(q[p], cells) \/ CellQueued(q, p, GridOf(q[p].ts))

\* And so is the partition, and the cell, that the channel is in.
LastMspInv(s, m, q, msps) ==
  m = <<>> \/ s.ts_msp_last \in msps \/ MspQueued(q, Len(q), s.ts_msp_last)

CellInv(cell, q, cells) == cell = NoGrid \/ cell \in cells \/ CellQueued(q, Len(q), cell)

\* Of what is queued, the items of events are those of kind Insert.
LEMMA ItemKinds == \A x \in QueueItems : x.kind = "Insert" <=> x \in LateItems
BY DEF QueueItems, LateItems, Items

(* What the queue has ahead it has with one more behind.                    *)
LEMMA QueueAppend ==
  ASSUME NEW q \in Seq(QueueItems), NEW y \in QueueItems
  PROVE  /\ Append(q, y) \in Seq(QueueItems) /\ Len(q) \in Nat /\ Len(Append(q, y)) = Len(q) + 1
         /\ Append(q, y)[Len(q) + 1] = y /\ \A p \in 1 .. Len(q) : Append(q, y)[p] = q[p]
         /\ \A p, c : p \in 1 .. Len(q) => /\ MspQueued(q, p, c) => MspQueued(Append(q, y), p, c)
                                           /\ CellQueued(q, p, c) => CellQueued(Append(q, y), p, c)
         /\ \A c : /\ MspQueued(q, Len(q), c) => MspQueued(Append(q, y), Len(q) + 1, c)
                   /\ CellQueued(q, Len(q), c) => CellQueued(Append(q, y), Len(q) + 1, c)
<1>. DEFINE q2 == Append(q, y)
<1>1. /\ q2 \in Seq(QueueItems) /\ Len(q) \in Nat /\ Len(q2) = Len(q) + 1 /\ q2[Len(q) + 1] = y
      /\ \A p \in 1 .. Len(q) : q2[p] = q[p]
  OBVIOUS
<1>. HIDE DEF q2
<1>2. /\ \A p \in 1 .. Len(q) : \A i \in 1 .. p : i \in 1 .. Len(q)
      /\ \A i \in 1 .. Len(q) : i \in 1 .. Len(q) + 1
  BY <1>1
<1>3. \A p, c : p \in 1 .. Len(q) => /\ MspQueued(q, p, c) => MspQueued(q2, p, c)
                                     /\ CellQueued(q, p, c) => CellQueued(q2, p, c)
  BY <1>1, <1>2 DEF MspQueued, CellQueued
<1>4. \A c : /\ MspQueued(q, Len(q), c) => MspQueued(q2, Len(q) + 1, c)
             /\ CellQueued(q, Len(q), c) => CellQueued(q2, Len(q) + 1, c)
  BY <1>1, <1>2 DEF MspQueued, CellQueued
<1>. QED BY <1>1, <1>3, <1>4 DEF q2

(* A partition found stays found with more items and more rows.             *)
LEMMA FoundKept ==
  ASSUME NEW m \in Seq(LateItems), NEW x \in LateItems, NEW y, NEW msps, PartitionFound(m, y, msps)
  PROVE  PartitionFound(Append(m, x), y, msps)
<1>1. /\ Len(m) \in Nat /\ Len(Append(m, x)) = Len(m) + 1
      /\ \A k \in 1 .. Len(m) : /\ Append(m, x)[k] = m[k] /\ (Opened(Append(m, x), k) <=> Opened(m, k))
                                /\ k \in 1 .. Len(m) + 1
  BY AppendKeeps
<1>. QED BY <1>1 DEF PartitionFound

(* An insert's item goes to the end of the queue.                           *)
LEMMA QueueStep ==
  ASSUME NEW s, NEW m, PartitionInv(s, m), NEW captured \in Nat, SinceCaptured(s, m, captured),
         NEW s2, NEW x, Effect(s, s2, x, captured),
         NEW q, NEW msps, NEW cells, QueueInv(m, q, msps, cells), LastMspInv(s, m, q, msps),
         \/ IsCopy(x) \/ x.ts_msp_grid = GridOf(x.ts) \/ GridOf(x.ts) \in cells
         \/ CellQueued(q, Len(q), GridOf(x.ts))
  PROVE  /\ QueueInv(Append(m, x), Append(q, x), msps, cells)
         /\ LastMspInv(s2, Append(m, x), Append(q, x), msps)
         /\ \A c : c = x.ts_msp_grid \/ CellInv(c, q, cells) => CellInv(c, Append(q, x), cells)
<1>. DEFINE m2 == Append(m, x)
            q2 == Append(q, x)
            n  == Len(q) + 1
<1>1. m \in Seq(LateItems) /\ x \in LateItems /\ x \in QueueItems /\ q \in Seq(QueueItems)
  BY DEF PartitionInv, Effect, QueueInv, QueueItems
<1>2. /\ q2 \in Seq(QueueItems) /\ Len(q) \in Nat /\ Len(q2) = n /\ q2[n] = x
      /\ \A p \in 1 .. Len(q) : q2[p] = q[p]
      /\ \A p, c : p \in 1 .. Len(q) => /\ MspQueued(q, p, c) => MspQueued(q2, p, c)
                                        /\ CellQueued(q, p, c) => CellQueued(q2, p, c)
      /\ \A c : /\ MspQueued(q, Len(q), c) => MspQueued(q2, n, c)
                /\ CellQueued(q, Len(q), c) => CellQueued(q2, n, c)
  BY <1>1, QueueAppend
<1>3. /\ m = <<>> => Opens(s, s2, x)
      /\ Opens(s, s2, x) \/ x.ts_msp = s.ts_msp_last \/ Opened(m2, Len(m) + 1)
      /\ s2.ts_msp_last = IF Opens(s, s2, x) THEN x.ts_msp ELSE s.ts_msp_last
      /\ x.msp_bump <=> Opens(s, s2, x)
  BY EffectCases
<1>4. \A y : PartitionFound(m, y, msps) => PartitionFound(m2, y, msps)
  BY <1>1, FoundKept
<1>5. Len(m2) = Len(m) + 1 /\ Len(m) \in Nat /\ m2[Len(m) + 1] = x
  BY <1>1, AppendKeeps
<1>. HIDE DEF m2, q2
<1>6. x.kind = "Insert"
  BY <1>1, ItemKinds
<1>7. Opens(s, s2, x) => MspQueued(q2, n, x.ts_msp)
  BY <1>2, <1>3, <1>6 DEF MspQueued
<1>8. ~Opens(s, s2, x) => s.ts_msp_last \in msps \/ MspQueued(q2, n, s.ts_msp_last)
  BY <1>2, <1>3 DEF LastMspInv
<1>9. Opened(m2, Len(m) + 1) => PartitionFound(m2, x, msps)
  BY <1>5 DEF PartitionFound
<1>10. PartitionFound(m2, x, msps) \/ MspQueued(q2, n, x.ts_msp)
  BY <1>3, <1>7, <1>8, <1>9 DEF PartitionFound
<1>11. CellQueued(q2, n, x.ts_msp_grid)
  BY <1>2, <1>6 DEF CellQueued
<1>12. CellFound(x, cells) \/ CellQueued(q2, n, GridOf(x.ts))
  BY <1>2, <1>11 DEF CellFound
<1>13. QueueInv(m2, q2, msps, cells)
  <2>. SUFFICES ASSUME NEW p \in 1 .. n, q2[p].kind = "Insert"
                PROVE  /\ PartitionFound(m2, q2[p], msps) \/ MspQueued(q2, p, q2[p].ts_msp)
                       /\ CellFound(q2[p], cells) \/ CellQueued(q2, p, GridOf(q2[p].ts))
    BY <1>2 DEF QueueInv
  <2>1. CASE p = n
    BY <2>1, <1>2, <1>10, <1>12
  <2>2. CASE p \in 1 .. Len(q)
    <3>1. q2[p] = q[p] /\ q[p].kind = "Insert"
      BY <2>2, <1>2
    <3>2. /\ PartitionFound(m, q[p], msps) \/ MspQueued(q, p, q[p].ts_msp)
          /\ CellFound(q[p], cells) \/ CellQueued(q, p, GridOf(q[p].ts))
      BY <2>2, <3>1 DEF QueueInv
    <3>. QED BY <2>2, <3>1, <3>2, <1>2, <1>4
  <2>. QED BY <2>1, <2>2, <1>2
<1>14. LastMspInv(s2, m2, q2, msps)
  BY <1>2, <1>3, <1>7, <1>8 DEF LastMspInv
<1>15. \A c : c = x.ts_msp_grid \/ CellInv(c, q, cells) => CellInv(c, q2, cells)
  BY <1>2, <1>11 DEF CellInv
<1>. QED BY <1>13, <1>14, <1>15 DEF m2, q2

(* The head of the queue is taken, and its rows with it.                    *)
LEMMA QueueTail ==
  ASSUME NEW m, NEW q, NEW msps, NEW cells, QueueInv(m, q, msps, cells), q # <<>>,
         NEW msps2, NEW cells2, msps \subseteq msps2, cells \subseteq cells2,
         Head(q).kind = "Insert" =>
           /\ Head(q).msp_bump => Head(q).ts_msp \in msps2
           /\ Head(q).ts_msp_grid # NoGrid => Head(q).ts_msp_grid \in cells2
  PROVE  /\ QueueInv(m, Tail(q), msps2, cells2)
         /\ Head(q).kind = "Insert" => PartitionFound(m, Head(q), msps2) /\ CellFound(Head(q), cells2)
         /\ \A s : LastMspInv(s, m, q, msps) => LastMspInv(s, m, Tail(q), msps2)
         /\ \A c : CellInv(c, q, cells) => CellInv(c, Tail(q), cells2)
<1>. DEFINE r == Tail(q)
<1>1. /\ q \in Seq(QueueItems) /\ r \in Seq(QueueItems) /\ Len(q) \in Nat \ {0} /\ Len(r) = Len(q) - 1
      /\ q[1] = Head(q) /\ \A p \in 1 .. Len(r) : r[p] = q[p + 1]
  BY DEF QueueInv
<1>. HIDE DEF r
<1>2. \A p \in 1 .. Len(q) : \A c : MspQueued(q, p, c) => c \in msps2 \/ MspQueued(r, p - 1, c)
  <2>. SUFFICES ASSUME NEW p \in 1 .. Len(q), NEW c, NEW i \in 1 .. p,
                       q[i].kind = "Insert", q[i].msp_bump, q[i].ts_msp = c
                PROVE  c \in msps2 \/ MspQueued(r, p - 1, c)
    BY DEF MspQueued
  <2>1. CASE i = 1
    BY <2>1, <1>1
  <2>2. CASE i # 1
    <3>1. i - 1 \in 1 .. p - 1 /\ i - 1 \in 1 .. Len(r) /\ (i - 1) + 1 = i
      BY <2>2, <1>1
    <3>2. r[i - 1] = q[i]
      BY <3>1, <1>1
    <3>. QED BY <3>1, <3>2 DEF MspQueued
  <2>. QED BY <2>1, <2>2
<1>3. \A p \in 1 .. Len(q) : \A c : CellQueued(q, p, c) => c = NoGrid \/ c \in cells2 \/ CellQueued(r, p - 1, c)
  <2>. SUFFICES ASSUME NEW p \in 1 .. Len(q), NEW c, NEW i \in 1 .. p,
                       q[i].kind = "Insert", q[i].ts_msp_grid = c
                PROVE  c = NoGrid \/ c \in cells2 \/ CellQueued(r, p - 1, c)
    BY DEF CellQueued
  <2>1. CASE i = 1
    BY <2>1, <1>1
  <2>2. CASE i # 1
    <3>1. i - 1 \in 1 .. p - 1 /\ i - 1 \in 1 .. Len(r) /\ (i - 1) + 1 = i
      BY <2>2, <1>1
    <3>2. r[i - 1] = q[i]
      BY <3>1, <1>1
    <3>. QED BY <3>1, <3>2 DEF CellQueued
  <2>. QED BY <2>1, <2>2
<1>4. \A p \in 1 .. Len(q) : q[p].kind = "Insert" => GridOf(q[p].ts) # NoGrid
  <2>. SUFFICES ASSUME NEW p \in 1 .. Len(q), q[p].kind = "Insert" PROVE GridOf(q[p].ts) # NoGrid
    OBVIOUS
  <2>1. q[p] \in LateItems
    BY <1>1, ItemKinds
  <2>. QED BY <2>1, GridNotZero DEF LateItems, Items
<1>5. \A p \in 1 .. Len(q) : q[p].kind = "Insert" =>
         /\ PartitionFound(m, q[p], msps2) \/ MspQueued(r, p - 1, q[p].ts_msp)
         /\ CellFound(q[p], cells2) \/ CellQueued(r, p - 1, GridOf(q[p].ts))
  <2>. SUFFICES ASSUME NEW p \in 1 .. Len(q), q[p].kind = "Insert"
                PROVE  /\ PartitionFound(m, q[p], msps2) \/ MspQueued(r, p - 1, q[p].ts_msp)
                       /\ CellFound(q[p], cells2) \/ CellQueued(r, p - 1, GridOf(q[p].ts))
    OBVIOUS
  <2>1. /\ PartitionFound(m, q[p], msps) \/ MspQueued(q, p, q[p].ts_msp)
        /\ CellFound(q[p], cells) \/ CellQueued(q, p, GridOf(q[p].ts))
    BY DEF QueueInv
  <2>2. PartitionFound(m, q[p], msps2) \/ MspQueued(r, p - 1, q[p].ts_msp)
    BY <2>1, <1>2 DEF PartitionFound
  <2>3. CellFound(q[p], cells2) \/ CellQueued(r, p - 1, GridOf(q[p].ts))
    BY <2>1, <1>3, <1>4 DEF CellFound
  <2>. QED BY <2>2, <2>3
<1>6. QueueInv(m, r, msps2, cells2)
  <2>. SUFFICES ASSUME NEW p \in 1 .. Len(r), r[p].kind = "Insert"
                PROVE  /\ PartitionFound(m, r[p], msps2) \/ MspQueued(r, p, r[p].ts_msp)
                       /\ CellFound(r[p], cells2) \/ CellQueued(r, p, GridOf(r[p].ts))
    BY <1>1 DEF QueueInv
  <2>1. p + 1 \in 1 .. Len(q) /\ (p + 1) - 1 = p /\ r[p] = q[p + 1]
    BY <1>1
  <2>. QED BY <2>1, <1>5
<1>7. Head(q).kind = "Insert" => PartitionFound(m, Head(q), msps2) /\ CellFound(Head(q), cells2)
  <2>1. 1 \in 1 .. Len(q) /\ 1 .. 1 - 1 = {}
    BY <1>1
  <2>2. ~MspQueued(r, 1 - 1, Head(q).ts_msp) /\ ~CellQueued(r, 1 - 1, GridOf(Head(q).ts))
    BY <2>1 DEF MspQueued, CellQueued
  <2>. QED BY <2>1, <2>2, <1>1, <1>5
<1>8. Len(q) \in 1 .. Len(q) /\ Len(q) - 1 = Len(r)
  BY <1>1
<1>9. \A s : LastMspInv(s, m, q, msps) => LastMspInv(s, m, r, msps2)
  BY <1>2, <1>8 DEF LastMspInv
<1>10. \A c : CellInv(c, q, cells) => CellInv(c, r, cells2)
  BY <1>3, <1>8 DEF CellInv
<1>. QED BY <1>6, <1>7, <1>9, <1>10 DEF r

-----------------------------------------------------------------------------
(* The inductive invariant.  The rows that are in the store, lost, or with  *)
(* a worker that is about to write them:                                    *)
MspRows == rows.msp \cup lost.msp \cup {msp \in Nat : WithWorker(msp)}

CellRows == (rows.grid \cup lost.grid \cup {c \in Nat : CellWithWorker(c)}) \ {NoGrid}

Working == [at : {"msp", "grid", "data"}, item : LateItems]

StoreTypeInv ==
  /\ counter \in Nat /\ now \in Nat /\ insertNextEarliest \in Nat /\ insertRecvIvlLast \in Nat
  /\ work \in [InsertWorkers -> {Idle} \cup Working]
  /\ rows \in [msp : SUBSET Nat, grid : SUBSET Nat, data : SUBSET LateItems]
  /\ lost \in [msp : SUBSET Nat, grid : SUBSET Nat]

ItemFound(m, x, msps, cells) == PartitionFound(m, x, msps) /\ CellFound(x, cells)

AllFound ==
  /\ \A w \in InsertWorkers : work[w] # Idle => ItemFound(made, work[w].item, MspRows, CellRows)
  /\ \A d \in rows.data : ItemFound(made, d, MspRows, CellRows)

StoreInv ==
  /\ StoreTypeInv /\ PartitionInv(st, made)
  /\ QueueInv(made, queue, MspRows, CellRows)
  /\ LastMspInv(st, made, queue, MspRows)
  /\ CellInv(st.ts_msp_grid_last, queue, CellRows)
  /\ AllFound

\* What holds when the inserts of an event have come down to number i, with r.
EventSoFar(ts, i, r) ==
  LET m == made \o r.items
      q == queue \o r.items
  IN /\ r.items \in Seq(LateItems) /\ r.st.ts_msp_grid_last = GridOf(ts)
     /\ PartitionInv(r.st, m) /\ SinceCaptured(r.st, m, st.ts_msp_last)
     /\ QueueInv(m, q, MspRows, CellRows) /\ LastMspInv(r.st, m, q, MspRows)
     /\ CellInv(st.ts_msp_grid_last, q, CellRows)
     /\ i = 0 => CellInv(GridOf(ts), q, CellRows)
     /\ \A y : PartitionFound(made, y, MspRows) => PartitionFound(m, y, MspRows)

\* Appending to the second part of a concatenation.
LEMMA AppendConcat ==
  ASSUME NEW S, NEW T, S \subseteq T, NEW a \in Seq(T), NEW b \in Seq(S), NEW x \in S
  PROVE  a \o Append(b, x) = Append(a \o b, x)
OBVIOUS

(* An event starts with the state as it is, the cell apart.                 *)
LEMMA EventStarts ==
  ASSUME StoreInv, NEW ts \in Times
  PROVE  EventSoFar(ts, N + 1, Started(ts))
<1>. DEFINE r == Started(ts)
<1>1. GridOf(ts) \in Nat /\ N + 1 # 0
  <2>1. ts \in Nat /\ N \in Nat
    BY EventAssumption DEF N
  <2>. QED BY <2>1, GridNotZero
<1>2. st \in ChannelStates /\ made \in Seq(LateItems) /\ queue \in Seq(QueueItems)
  BY DEF StoreInv, PartitionInv, QueueInv
<1>3. r.items = <<>> /\ r.items \in Seq(LateItems) /\ made \o r.items = made /\ queue \o r.items = queue
  BY <1>2 DEF Started
<1>4. /\ r.st \in ChannelStates /\ r.st.ts_msp_last = st.ts_msp_last
      /\ r.st.inserted_in_ts_msp = st.inserted_in_ts_msp /\ r.st.ts_msp_grid_last = GridOf(ts)
  BY <1>1, <1>2 DEF Started, ChannelStates
<1>. HIDE DEF r
<1>5. PartitionInv(r.st, made)
  BY <1>4 DEF StoreInv, PartitionInv, Knows, Counts
<1>6. SinceCaptured(r.st, made, st.ts_msp_last) /\ LastMspInv(r.st, made, queue, MspRows)
  BY <1>4 DEF StoreInv, SinceCaptured, LastMspInv
<1>7. EventSoFar(ts, N + 1, r)
  BY <1>1, <1>3, <1>4, <1>5, <1>6 DEF StoreInv, EventSoFar
<1>. QED BY <1>7 DEF r

(* Each insert keeps it.                                                    *)
LEMMA EventGoesOn ==
  ASSUME StoreInv, NEW ts \in Times, NEW i \in 0 .. N, NEW r, EventSoFar(ts, i + 1, r)
  PROVE  EventSoFar(ts, i, NextInsert(ts, i, r))
<1>1. N = Len(Copies) /\ N \in Nat /\ {Div, Hour, GridLen, Wrap} \subseteq Nat \ {0}
  BY EventAssumption DEF N
<1>2. ts \in Nat /\ ts - i \in Nat /\ ts - i >= Div + Hour + GridLen /\ ts - i < Wrap /\ ts >= GridLen
  <2>1. ts \in Nat /\ ts < Wrap /\ ts - N >= Div + Hour + GridLen
    BY <1>1, EventAssumption
  <2>. QED BY <2>1, <1>1
<1>3. GridOf(ts) \in Nat /\ GridOf(ts) # NoGrid
  BY <1>2, GridNotZero
<1>. DEFINE m == made \o r.items
            q == queue \o r.items
            captured == st.ts_msp_last
            grid == EventGrid(ts)
<1>4. /\ r.items \in Seq(LateItems) /\ r.st.ts_msp_grid_last = GridOf(ts)
      /\ PartitionInv(r.st, m) /\ SinceCaptured(r.st, m, captured)
      /\ QueueInv(m, q, MspRows, CellRows) /\ LastMspInv(r.st, m, q, MspRows)
      /\ CellInv(st.ts_msp_grid_last, q, CellRows)
      /\ \A y : PartitionFound(made, y, MspRows) => PartitionFound(m, y, MspRows)
  BY DEF EventSoFar
<1>5. grid \in Nat /\ (grid = GridOf(ts) \/ st.ts_msp_grid_last = GridOf(ts))
  BY <1>3 DEF EventGrid, NoGrid
<1>6. /\ made \in Seq(LateItems) /\ queue \in Seq(QueueItems) /\ counter \in Nat
      /\ captured \in Nat /\ r.st \in ChannelStates /\ m \in Seq(LateItems)
  <2>1. r.st \in ChannelStates /\ m \in Seq(LateItems)
    BY <1>4 DEF PartitionInv
  <2>. QED BY <2>1 DEF StoreInv, StoreTypeInv, PartitionInv, QueueInv, ChannelStates
<1>7. CASE ~Due(i)
  <2>1. NextInsert(ts, i, r) = r /\ i # 0
    BY <1>7 DEF NextInsert, Due
  <2>. QED BY <2>1, <1>4 DEF EventSoFar
<1>8. CASE Due(i)
  <2>. DEFINE r2 == NextInsert(ts, i, r)
  <2>1. r2 = EventAddInsert(r, ts - i, captured, grid)
    BY <1>8 DEF NextInsert
  <2>. HIDE DEF r2, captured, grid
  <2>2. PICK x : MakesItem(r, r2, x, ts - i, captured, grid)
    <3>1. IsTime(ts - i)
      BY <1>2 DEF IsTime
    <3>2. captured \in Nat
      BY <1>6 DEF captured
    <3>. HIDE DEF m, q
    <3>. QED BY <1>5, <1>6, <2>1, <3>1, <3>2, InsertEffect
  <2>3. x \in LateItems /\ r2.st.ts_msp_grid_last = GridOf(ts)
    BY <2>2, <1>4 DEF Effect, MakesItem
  <2>4. /\ r2.items \in Seq(LateItems)
        /\ made \o r2.items = Append(m, x) /\ queue \o r2.items = Append(q, x)
    <3>1. made \o Append(r.items, x) = Append(m, x)
      <4>1. LateItems \subseteq LateItems
        OBVIOUS
      <4>2. made \in Seq(LateItems) /\ r.items \in Seq(LateItems)
        BY <1>4, <1>6
      <4>3. made \o Append(r.items, x) = Append(made \o r.items, x)
        BY <4>1, <4>2, <2>3, AppendConcat
      <4>. QED BY <4>3
    <3>2. LateItems \subseteq QueueItems
      BY DEF QueueItems
    <3>3. queue \o Append(r.items, x) = Append(q, x)
      BY <2>3, <3>2, <1>4, <1>6, AppendConcat
    <3>. QED BY <2>2, <2>3, <3>1, <3>3, <1>4 DEF MakesItem
  <2>. HIDE DEF m, q
  <2>5. PartitionInv(r2.st, Append(m, x)) /\ SinceCaptured(r2.st, Append(m, x), captured)
    BY <2>2, <1>4, <1>6, PartitionStep DEF MakesItem
  <2>6. \/ IsCopy(x) \/ x.ts_msp_grid = GridOf(x.ts) \/ GridOf(x.ts) \in CellRows
        \/ CellQueued(q, Len(q), GridOf(x.ts))
    <3>1. CASE i # 0
      <4>1. ts > x.ts /\ ts - x.ts <= Len(Copies)
        BY <3>1, <2>2, <1>1, <1>2 DEF MakesItem
      <4>. QED BY <4>1 DEF IsCopy
    <3>2. CASE i = 0
      <4>1. x.ts = ts
        BY <3>2, <2>2, <1>2 DEF MakesItem
      <4>. QED BY <4>1, <2>2, <1>3, <1>4, <1>5 DEF CellInv, MakesItem
    <3>. QED BY <3>1, <3>2
  <2>7. /\ QueueInv(Append(m, x), Append(q, x), MspRows, CellRows)
        /\ LastMspInv(r2.st, Append(m, x), Append(q, x), MspRows)
        /\ \A c : c = x.ts_msp_grid \/ CellInv(c, q, CellRows) => CellInv(c, Append(q, x), CellRows)
    BY <2>2, <2>6, <1>4, <1>6, QueueStep DEF MakesItem
  <2>8. \A y : PartitionFound(made, y, MspRows) => PartitionFound(Append(m, x), y, MspRows)
    BY <2>3, <1>4, <1>6, FoundKept
  <2>9. /\ CellInv(st.ts_msp_grid_last, Append(q, x), CellRows)
        /\ CellInv(GridOf(ts), Append(q, x), CellRows)
    BY <2>2, <2>7, <1>4, <1>5 DEF MakesItem
  <2>10. EventSoFar(ts, i, r2)
    BY <2>3, <2>4, <2>5, <2>7, <2>8, <2>9 DEF EventSoFar, captured
  <2>. QED BY <2>10 DEF r2
<1>. QED BY <1>7, <1>8

\* After the last insert, of the event itself, all has been handed down.
LEMMA EventDone ==
  ASSUME StoreInv, NEW ts \in Times
  PROVE  EventSoFar(ts, 0, Inserts(ts)[0])
<1>. DEFINE S == {i \in 0 .. N + 1 : EventSoFar(ts, i, Inserts(ts)[i])}
<1>1. N \in Nat
  BY EventAssumption DEF N
<1>2. /\ Inserts(ts)[N + 1] = Started(ts)
      /\ \A i \in 0 .. N : Inserts(ts)[i] = NextInsert(ts, i, Inserts(ts)[i + 1])
  BY InsertsAre DEF InsertsDownTo
<1>3. N + 1 \in S
  BY <1>1, <1>2, EventStarts
<1>4. ASSUME NEW i \in 0 .. N, i + 1 \in S PROVE i \in S
  <2>1. EventSoFar(ts, i + 1, Inserts(ts)[i + 1])
    BY <1>4
  <2>2. EventSoFar(ts, i, NextInsert(ts, i, Inserts(ts)[i + 1]))
    BY <2>1, EventGoesOn
  <2>. QED BY <2>2, <1>1, <1>2
<1>. HIDE DEF S
<1>5. 0 \in S
  BY <1>1, <1>3, <1>4, DownToZero
<1>. QED BY <1>5 DEF S

(* More rows find no less.                                                  *)
LEMMA MoreRows ==
  ASSUME NEW msps, NEW cells, NEW msps2, NEW cells2, msps \subseteq msps2, cells \subseteq cells2,
         NEW m, NEW q
  PROVE  /\ QueueInv(m, q, msps, cells) => QueueInv(m, q, msps2, cells2)
         /\ \A s : LastMspInv(s, m, q, msps) => LastMspInv(s, m, q, msps2)
         /\ \A c : CellInv(c, q, cells) => CellInv(c, q, cells2)
         /\ \A x : ItemFound(m, x, msps, cells) => ItemFound(m, x, msps2, cells2)
<1>1. \A x : PartitionFound(m, x, msps) => PartitionFound(m, x, msps2)
  BY DEF PartitionFound
<1>2. \A x : CellFound(x, cells) => CellFound(x, cells2)
  BY DEF CellFound
<1>3. QueueInv(m, q, msps, cells) => QueueInv(m, q, msps2, cells2)
  BY <1>1, <1>2 DEF QueueInv
<1>4. \A s : LastMspInv(s, m, q, msps) => LastMspInv(s, m, q, msps2)
  BY DEF LastMspInv
<1>5. \A c : CellInv(c, q, cells) => CellInv(c, q, cells2)
  BY DEF CellInv
<1>6. \A x : ItemFound(m, x, msps, cells) => ItemFound(m, x, msps2, cells2)
  BY <1>1, <1>2 DEF ItemFound
<1>. QED BY <1>3, <1>4, <1>5, <1>6

\* Nothing is made, queued or stored at first.
LEMMA StoreInit == Init => StoreInv
<1>. SUFFICES ASSUME Init PROVE StoreInv
  OBVIOUS
<1>1. {Div, Hour, MaxInMsp, GridLen, Wrap} \subseteq Nat \ {0}
  BY EventAssumption
<1>2. StoreTypeInv
  BY DEF Init, StoreTypeInv
<1>3. made = <<>> /\ made \in Seq(LateItems) /\ Len(made) = 0 /\ queue = <<>> /\ queue \in Seq(QueueItems) /\ Len(queue) = 0
  BY DEF Init
<1>4. PartitionInv(st, made)
  <2>1. st \in ChannelStates
    BY <1>1 DEF Init, ChannelStates, NoGrid
  <2>2. Knows(st, made)
    BY <1>3 DEF Init, Knows
  <2>3. Counts(st, made)
    BY <1>1, <1>3 DEF Counts
  <2>. QED BY <1>3, <2>1, <2>2, <2>3 DEF PartitionInv
<1>5. QueueInv(made, queue, MspRows, CellRows) /\ LastMspInv(st, made, queue, MspRows)
  BY <1>3 DEF QueueInv, LastMspInv
<1>6. CellInv(st.ts_msp_grid_last, queue, CellRows)
  BY DEF Init, CellInv
<1>7. AllFound
  BY DEF Init, AllFound
<1>. QED BY <1>2, <1>4, <1>5, <1>6, <1>7 DEF StoreInv

\* An event, with all its inserts, keeps the invariant.
LEMMA EventKeeps ==
  ASSUME StoreInv, HandleEventAddRes
  PROVE  StoreInv'
<1>1. PICK ts \in Times : DoEventInsert(ts)
  BY DEF HandleEventAddRes
<1>. DEFINE r == Inserts(ts)[0]
<1>2. /\ st' = r.st /\ queue' = queue \o r.items /\ made' = made \o r.items
      /\ counter' = counter + 1 /\ \E pause \in 0 .. MaxPause : insertNextEarliest' = now + pause
  BY <1>1 DEF DoEventInsert
<1>3. EventSoFar(ts, 0, r)
  BY EventDone
<1>. HIDE DEF r
<1>4. UNCHANGED <<now, insertRecvIvlLast, work, rows, lost>>
  BY DEF HandleEventAddRes
<1>5. MspRows' = MspRows /\ CellRows' = CellRows
  BY <1>4 DEF MspRows, CellRows, WithWorker, CellWithWorker
<1>6. StoreTypeInv'
  <2>1. insertNextEarliest' \in Nat
    <3>1. now \in Nat /\ MaxPause \in Nat
      BY EventAssumption DEF StoreInv, StoreTypeInv
    <3>2. PICK pause \in 0 .. MaxPause : insertNextEarliest' = now + pause
      BY <1>2
    <3>. QED BY <3>1, <3>2
  <2>. QED BY <2>1, <1>2, <1>4 DEF StoreInv, StoreTypeInv
<1>7. AllFound'
  <2>1. \A y : PartitionFound(made, y, MspRows) => PartitionFound(made', y, MspRows)
    BY <1>2, <1>3 DEF EventSoFar
  <2>2. \A y : ItemFound(made, y, MspRows, CellRows) => ItemFound(made', y, MspRows', CellRows')
    BY <2>1, <1>5 DEF ItemFound
  <2>. QED BY <2>2, <1>4 DEF StoreInv, AllFound
<1>8. PartitionInv(st', made') /\ QueueInv(made', queue', MspRows', CellRows') /\ LastMspInv(st', made', queue', MspRows')
  BY <1>2, <1>3, <1>5 DEF EventSoFar
<1>9. CellInv(st'.ts_msp_grid_last, queue', CellRows')
  BY <1>2, <1>3, <1>5 DEF EventSoFar
<1>. QED BY <1>6, <1>7, <1>8, <1>9 DEF StoreInv

\* So does an event that is left out.
LEMMA DropKeeps ==
  ASSUME StoreInv, EventDropped
  PROVE  StoreInv'
<1>. DEFINE ivl == [kind |-> "Ivl"]
<1>1. /\ insertRecvIvlLast' = now /\ queue' = Append(queue, ivl)
      /\ UNCHANGED <<st, counter, now, insertNextEarliest, work, rows, lost, made>>
  BY DEF EventDropped
<1>2. MspRows' = MspRows /\ CellRows' = CellRows
  BY <1>1 DEF MspRows, CellRows, WithWorker, CellWithWorker
<1>3. StoreTypeInv' /\ PartitionInv(st', made') /\ AllFound'
  BY <1>1, <1>2 DEF StoreInv, StoreTypeInv, AllFound
<1>4. queue \in Seq(QueueItems) /\ ivl \in QueueItems /\ ivl.kind # "Insert"
  BY DEF StoreInv, QueueInv, QueueItems
<1>. HIDE DEF ivl
<1>5. /\ queue' \in Seq(QueueItems) /\ Len(queue) \in Nat /\ Len(queue') = Len(queue) + 1
      /\ queue'[Len(queue) + 1] = ivl /\ \A p \in 1 .. Len(queue) : queue'[p] = queue[p]
      /\ \A p, c : p \in 1 .. Len(queue) =>
           /\ MspQueued(queue, p, c) => MspQueued(queue', p, c)
           /\ CellQueued(queue, p, c) => CellQueued(queue', p, c)
      /\ \A c : /\ MspQueued(queue, Len(queue), c) => MspQueued(queue', Len(queue'), c)
                /\ CellQueued(queue, Len(queue), c) => CellQueued(queue', Len(queue'), c)
  BY <1>1, <1>4, QueueAppend
<1>6. QueueInv(made', queue', MspRows', CellRows')
  <2>. SUFFICES ASSUME NEW p \in 1 .. Len(queue'), queue'[p].kind = "Insert"
                PROVE  /\ PartitionFound(made, queue'[p], MspRows) \/ MspQueued(queue', p, queue'[p].ts_msp)
                       /\ CellFound(queue'[p], CellRows) \/ CellQueued(queue', p, GridOf(queue'[p].ts))
    BY <1>1, <1>2, <1>5 DEF QueueInv
  <2>1. p \in 1 .. Len(queue) /\ queue'[p] = queue[p]
    BY <1>4, <1>5
  <2>2. /\ PartitionFound(made, queue[p], MspRows) \/ MspQueued(queue, p, queue[p].ts_msp)
        /\ CellFound(queue[p], CellRows) \/ CellQueued(queue, p, GridOf(queue[p].ts))
    BY <2>1 DEF StoreInv, QueueInv
  <2>. QED BY <2>1, <2>2, <1>5
<1>7. LastMspInv(st', made', queue', MspRows') /\ CellInv(st'.ts_msp_grid_last, queue', CellRows')
  BY <1>1, <1>2, <1>5 DEF StoreInv, LastMspInv, CellInv
<1>. QED BY <1>3, <1>6, <1>7 DEF StoreInv

(* A worker that lets go of an item has written, or lost, its rows.         *)
LEMMA RowsGrow ==
  ASSUME StoreTypeInv, StoreTypeInv', NEW w \in InsertWorkers,
         \A v \in InsertWorkers \ {w} : work'[v] = work[v],
         rows.msp \subseteq rows'.msp, lost.msp \subseteq lost'.msp,
         rows.grid \subseteq rows'.grid, lost.grid \subseteq lost'.grid,
         work[w].at = "msp" /\ work[w].item.msp_bump =>
            work[w].item.ts_msp \in rows'.msp \cup lost'.msp,
         work[w].at \in {"msp", "grid"} /\ work[w].item.ts_msp_grid # NoGrid =>
            \/ work[w].item.ts_msp_grid \in rows'.grid \cup lost'.grid
            \/ work'[w].at \in {"msp", "grid"} /\ work'[w].item = work[w].item
  PROVE  MspRows \subseteq MspRows' /\ CellRows \subseteq CellRows'
<1>1. ASSUME NEW msp \in Nat, WithWorker(msp) PROVE msp \in MspRows'
  <2>1. PICK v \in InsertWorkers : work[v].at = "msp" /\ work[v].item.msp_bump /\ work[v].item.ts_msp = msp
    BY <1>1 DEF WithWorker
  <2>2. CASE v = w
    BY <2>1, <2>2 DEF MspRows
  <2>3. CASE v # w
    <3>1. WithWorker(msp)'
      BY <2>1, <2>3 DEF WithWorker
    <3>. QED BY <3>1 DEF MspRows
  <2>. QED BY <2>2, <2>3
<1>2. ASSUME NEW c \in Nat, CellWithWorker(c), c # NoGrid PROVE c \in CellRows'
  <2>1. PICK v \in InsertWorkers : work[v].at \in {"msp", "grid"} /\ work[v].item.ts_msp_grid = c
    BY <1>2 DEF CellWithWorker
  <2>2. c \in rows'.grid \cup lost'.grid \/ CellWithWorker(c)'
    BY <2>1, <1>2 DEF CellWithWorker
  <2>. QED BY <2>2, <1>2 DEF CellRows
<1>3. MspRows \subseteq MspRows'
  BY <1>1 DEF MspRows
<1>4. CellRows \subseteq CellRows'
  BY <1>2 DEF CellRows
<1>. QED BY <1>3, <1>4

(* A worker past its taking: it writes or fails.                            *)
LEMMA WorkerKeeps ==
  ASSUME StoreInv, StoreTypeInv', MspRows \subseteq MspRows', CellRows \subseteq CellRows',
         UNCHANGED <<st, queue, made>>, NEW w \in InsertWorkers, work[w] # Idle,
         \A v \in InsertWorkers \ {w} : work'[v] = work[v],
         work'[w] = Idle \/ work'[w].item = work[w].item,
         rows'.data \subseteq rows.data \cup {work[w].item}
  PROVE  StoreInv'
<1>1. /\ QueueInv(made, queue, MspRows', CellRows')
      /\ LastMspInv(st, made, queue, MspRows')
      /\ CellInv(st.ts_msp_grid_last, queue, CellRows')
      /\ \A x : ItemFound(made, x, MspRows, CellRows) => ItemFound(made, x, MspRows', CellRows')
  BY MoreRows DEF StoreInv
<1>2. AllFound'
  <2>1. ItemFound(made, work[w].item, MspRows', CellRows')
    BY <1>1 DEF StoreInv, AllFound
  <2>2. \A v \in InsertWorkers : work'[v] # Idle => ItemFound(made', work'[v].item, MspRows', CellRows')
    BY <2>1, <1>1 DEF StoreInv, AllFound
  <2>3. \A d \in rows'.data : ItemFound(made', d, MspRows', CellRows')
    BY <2>1, <1>1 DEF StoreInv, AllFound
  <2>. QED BY <2>2, <2>3 DEF AllFound
<1>. QED BY <1>1, <1>2 DEF StoreInv

\* A worker is idle, or at one of the writes of its item.
LEMMA WorkTypes ==
  ASSUME StoreTypeInv, NEW w \in InsertWorkers
  PROVE  /\ work[w] = Idle \/ (work[w] \in Working /\ work[w] # Idle)
         /\ work[w].at \in {"msp", "grid", "data"} => work[w] \in Working /\ work[w] # Idle
         /\ Idle.at = "idle"
         /\ work[w] \in Working =>
              /\ work[w].at \in {"msp", "grid", "data"}
              /\ work[w].item \in LateItems /\ work[w].item.ts_msp \in Nat
              /\ work[w].item.ts_msp_grid \in Nat /\ work[w].item.ts \in Nat
BY DEF StoreTypeInv, Idle, Working, LateItems, Items

\* The item that a worker takes goes from the queue to it.
LEMMA TakeKeeps ==
  ASSUME StoreInv, NEW w \in InsertWorkers, WorkerTakes(w)
  PROVE  StoreInv'
<1>. DEFINE item == Head(queue)
<1>1. /\ work[w] = Idle /\ queue # <<>> /\ queue' = Tail(queue)
      /\ UNCHANGED <<st, counter, now, insertNextEarliest, insertRecvIvlLast, rows, made>>
  BY DEF WorkerTakes, connVars
<1>2. queue \in Seq(QueueItems) /\ item \in QueueItems
  BY <1>1 DEF StoreInv, QueueInv
<1>3. \/ item.kind # "Insert" /\ UNCHANGED <<work, lost>>
      \/ item \in LateItems /\ work' = [work EXCEPT ![w] = [at |-> "msp", item |-> item]] /\ UNCHANGED lost
      \/ item \in LateItems /\ lost' = Losing(item) /\ UNCHANGED work
  <2>1. item.kind = "Ivl" \/ item \in LateItems
    BY <1>2 DEF QueueItems
  <2>. QED BY <2>1 DEF WorkerTakes
<1>. HIDE DEF item
<1>4. item \in LateItems => /\ item.kind = "Insert" /\ item.ts_msp \in Nat /\ item.ts_msp_grid \in Nat
  BY DEF LateItems, Items
<1>5. StoreTypeInv /\ work \in [InsertWorkers -> {Idle} \cup Working] /\ lost \in [msp : SUBSET Nat, grid : SUBSET Nat]
  BY DEF StoreInv, StoreTypeInv
<1>6. item \in LateItems => [at |-> "msp", item |-> item] \in Working /\ [at |-> "msp", item |-> item] # Idle
  BY DEF Working, Idle
<1>7. item \in LateItems => /\ Losing(item) \in [msp : SUBSET Nat, grid : SUBSET Nat]
                            /\ lost.msp \subseteq Losing(item).msp /\ lost.grid \subseteq Losing(item).grid
                            /\ item.msp_bump => item.ts_msp \in Losing(item).msp
                            /\ item.ts_msp_grid # NoGrid => item.ts_msp_grid \in Losing(item).grid
  BY <1>4, <1>5 DEF Losing
<1>8. StoreTypeInv'
  BY <1>1, <1>3, <1>5, <1>6, <1>7 DEF StoreTypeInv
<1>9. lost.msp \subseteq lost'.msp /\ lost.grid \subseteq lost'.grid
  BY <1>3, <1>7
<1>10. \A v \in InsertWorkers \ {w} : work'[v] = work[v]
  BY <1>3, <1>5
<1>11. MspRows \subseteq MspRows' /\ CellRows \subseteq CellRows'
  <2>1. work[w].at = "idle"
    BY <1>1 DEF Idle
  <2>. QED BY <2>1, <1>1, <1>5, <1>8, <1>9, <1>10, RowsGrow
<1>12. item.kind = "Insert" => /\ item.msp_bump => item.ts_msp \in MspRows'
                               /\ item.ts_msp_grid # NoGrid => item.ts_msp_grid \in CellRows'
  <2>. SUFFICES ASSUME item.kind = "Insert"
                PROVE  /\ item.msp_bump => item.ts_msp \in MspRows'
                       /\ item.ts_msp_grid # NoGrid => item.ts_msp_grid \in CellRows'
    OBVIOUS
  <2>0. item \in LateItems
    BY <1>3
  <2>1. CASE work' = [work EXCEPT ![w] = [at |-> "msp", item |-> item]]
    <3>1. work'[w].at = "msp" /\ work'[w].item = item
      BY <2>1, <1>5
    <3>2. item.msp_bump => item.ts_msp \in MspRows'
      BY <3>1, <2>0, <1>4 DEF MspRows, WithWorker
    <3>3. item.ts_msp_grid # NoGrid => item.ts_msp_grid \in CellRows'
      BY <3>1, <2>0, <1>4 DEF CellRows, CellWithWorker
    <3>. QED BY <3>2, <3>3
  <2>2. CASE lost' = Losing(item)
    BY <2>2, <2>0, <1>7 DEF MspRows, CellRows
  <2>. QED BY <2>1, <2>2, <1>3
<1>13. /\ QueueInv(made, queue', MspRows', CellRows')
       /\ item.kind = "Insert" => PartitionFound(made, item, MspRows') /\ CellFound(item, CellRows')
       /\ LastMspInv(st, made, queue', MspRows')
       /\ CellInv(st.ts_msp_grid_last, queue', CellRows')
  BY <1>1, <1>11, <1>12, QueueTail DEF StoreInv, item
<1>14. AllFound'
  <2>1. \A x : ItemFound(made, x, MspRows, CellRows) => ItemFound(made, x, MspRows', CellRows')
    BY <1>11, MoreRows
  <2>2. ASSUME NEW v \in InsertWorkers, work'[v] # Idle
        PROVE  ItemFound(made, work'[v].item, MspRows', CellRows')
    <3>1. CASE work'[v] = work[v]
      BY <3>1, <2>1, <2>2 DEF StoreInv, AllFound
    <3>2. CASE item \in LateItems /\ work'[v] = [at |-> "msp", item |-> item]
      BY <3>2, <1>4, <1>13 DEF ItemFound
    <3>. QED BY <3>1, <3>2, <1>3, <1>5
  <2>3. \A d \in rows.data : ItemFound(made, d, MspRows', CellRows')
    BY <2>1 DEF StoreInv, AllFound
  <2>. QED BY <2>2, <2>3, <1>1 DEF AllFound
<1>. QED BY <1>1, <1>8, <1>13, <1>14 DEF StoreInv

\* The row of the partition, if the item opens one, is written first.
LEMMA WritesMspKeeps ==
  ASSUME StoreInv, NEW w \in InsertWorkers, WorkerWritesMsp(w)
  PROVE  StoreInv'
<1>. DEFINE item == work[w].item
<1>1. /\ work[w].at = "msp" /\ work' = [work EXCEPT ![w].at = "grid"]
      /\ rows' = IF item.msp_bump THEN [rows EXCEPT !.msp = @ \cup {item.ts_msp}] ELSE rows
      /\ UNCHANGED <<st, counter, now, insertNextEarliest, insertRecvIvlLast, queue, lost, made>>
  BY DEF WorkerWritesMsp, connVars
<1>2. StoreTypeInv
  BY DEF StoreInv
<1>3. /\ work[w] \in Working /\ work[w] # Idle /\ item \in LateItems /\ item.ts_msp \in Nat
  BY <1>1, <1>2, WorkTypes
<1>4. /\ work' \in [InsertWorkers -> {Idle} \cup Working] /\ work'[w].at = "grid" /\ work'[w].item = item
      /\ \A v \in InsertWorkers \ {w} : work'[v] = work[v]
  BY <1>1, <1>2, <1>3 DEF StoreTypeInv, Working
<1>5. /\ rows' \in [msp : SUBSET Nat, grid : SUBSET Nat, data : SUBSET LateItems]
      /\ rows.msp \subseteq rows'.msp /\ rows'.grid = rows.grid /\ rows'.data = rows.data
      /\ item.msp_bump => item.ts_msp \in rows'.msp
  BY <1>1, <1>2, <1>3 DEF StoreTypeInv
<1>6. StoreTypeInv'
  BY <1>1, <1>2, <1>4, <1>5 DEF StoreTypeInv
<1>7. MspRows \subseteq MspRows' /\ CellRows \subseteq CellRows'
  BY <1>1, <1>2, <1>4, <1>5, <1>6, RowsGrow
<1>. QED BY <1>1, <1>3, <1>4, <1>5, <1>6, <1>7, WorkerKeeps

\* The row of the cell, if there is one, is written next.
LEMMA WritesGridKeeps ==
  ASSUME StoreInv, NEW w \in InsertWorkers, WorkerWritesGrid(w)
  PROVE  StoreInv'
<1>. DEFINE item == work[w].item
<1>1. /\ work[w].at = "grid" /\ work' = [work EXCEPT ![w].at = "data"]
      /\ rows' = [rows EXCEPT !.grid = @ \cup ({item.ts_msp_grid} \ {NoGrid})]
      /\ UNCHANGED <<st, counter, now, insertNextEarliest, insertRecvIvlLast, queue, lost, made>>
  BY DEF WorkerWritesGrid, connVars
<1>2. StoreTypeInv
  BY DEF StoreInv
<1>3. /\ work[w] \in Working /\ work[w] # Idle /\ item \in LateItems /\ item.ts_msp_grid \in Nat
  BY <1>1, <1>2, WorkTypes
<1>4. /\ work' \in [InsertWorkers -> {Idle} \cup Working] /\ work'[w].item = item
      /\ \A v \in InsertWorkers \ {w} : work'[v] = work[v]
  BY <1>1, <1>2, <1>3 DEF StoreTypeInv, Working
<1>5. /\ rows' \in [msp : SUBSET Nat, grid : SUBSET Nat, data : SUBSET LateItems]
      /\ rows'.msp = rows.msp /\ rows.grid \subseteq rows'.grid /\ rows'.data = rows.data
      /\ item.ts_msp_grid # NoGrid => item.ts_msp_grid \in rows'.grid
  BY <1>1, <1>2, <1>3 DEF StoreTypeInv
<1>6. StoreTypeInv'
  BY <1>1, <1>2, <1>4, <1>5 DEF StoreTypeInv
<1>7. MspRows \subseteq MspRows' /\ CellRows \subseteq CellRows'
  BY <1>1, <1>2, <1>4, <1>5, <1>6, RowsGrow
<1>. QED BY <1>1, <1>3, <1>4, <1>5, <1>6, <1>7, WorkerKeeps

\* The event is written last, when both are there or lost.
LEMMA WritesDataKeeps ==
  ASSUME StoreInv, NEW w \in InsertWorkers, WorkerWritesData(w)
  PROVE  StoreInv'
<1>. DEFINE item == work[w].item
<1>1. /\ work[w].at = "data" /\ work' = [work EXCEPT ![w] = Idle]
      /\ rows' = [rows EXCEPT !.data = @ \cup {item}]
      /\ UNCHANGED <<st, counter, now, insertNextEarliest, insertRecvIvlLast, queue, lost, made>>
  BY DEF WorkerWritesData, connVars
<1>2. StoreTypeInv
  BY DEF StoreInv
<1>3. work[w] \in Working /\ work[w] # Idle /\ item \in LateItems
  BY <1>1, <1>2, WorkTypes
<1>4. /\ work' \in [InsertWorkers -> {Idle} \cup Working] /\ work'[w] = Idle
      /\ \A v \in InsertWorkers \ {w} : work'[v] = work[v]
  BY <1>1, <1>2 DEF StoreTypeInv
<1>5. /\ rows' \in [msp : SUBSET Nat, grid : SUBSET Nat, data : SUBSET LateItems]
      /\ rows'.msp = rows.msp /\ rows'.grid = rows.grid /\ rows'.data = rows.data \cup {item}
  BY <1>1, <1>2, <1>3 DEF StoreTypeInv
<1>6. StoreTypeInv'
  BY <1>1, <1>2, <1>4, <1>5 DEF StoreTypeInv
<1>7. MspRows \subseteq MspRows' /\ CellRows \subseteq CellRows'
  BY <1>1, <1>2, <1>4, <1>5, <1>6, RowsGrow
<1>. QED BY <1>1, <1>3, <1>4, <1>5, <1>6, <1>7, WorkerKeeps

\* A worker that fails loses the row that it was at, and what came after.
LEMMA FailsKeeps ==
  ASSUME StoreInv, NEW w \in InsertWorkers, WorkerFails(w)
  PROVE  StoreInv'
<1>. DEFINE item == work[w].item
<1>1. /\ \/ work[w].at = "msp" /\ item.msp_bump /\ lost' = Losing(item)
         \/ /\ work[w].at = "grid" /\ item.ts_msp_grid # NoGrid
            /\ lost' = [lost EXCEPT !.grid = @ \cup {item.ts_msp_grid}]
         \/ work[w].at = "data" /\ UNCHANGED lost
      /\ work' = [work EXCEPT ![w] = Idle]
      /\ UNCHANGED <<st, counter, now, insertNextEarliest, insertRecvIvlLast, queue, rows, made>>
  BY DEF WorkerFails, connVars
<1>2. StoreTypeInv /\ lost \in [msp : SUBSET Nat, grid : SUBSET Nat]
  BY DEF StoreInv, StoreTypeInv
<1>3. /\ work[w] \in Working /\ work[w] # Idle /\ item \in LateItems
      /\ item.ts_msp \in Nat /\ item.ts_msp_grid \in Nat
  BY <1>1, <1>2, WorkTypes
<1>. HIDE DEF item
<1>4. /\ work' \in [InsertWorkers -> {Idle} \cup Working] /\ work'[w] = Idle
      /\ \A v \in InsertWorkers \ {w} : work'[v] = work[v]
  BY <1>1, <1>2 DEF StoreTypeInv
<1>5. /\ lost' \in [msp : SUBSET Nat, grid : SUBSET Nat]
      /\ lost.msp \subseteq lost'.msp /\ lost.grid \subseteq lost'.grid
      /\ work[w].at = "msp" /\ item.msp_bump => item.ts_msp \in lost'.msp
      /\ work[w].at \in {"msp", "grid"} /\ item.ts_msp_grid # NoGrid => item.ts_msp_grid \in lost'.grid
  <2>1. CASE lost' = Losing(item)
    BY <2>1, <1>2, <1>3 DEF Losing
  <2>2. CASE work[w].at = "grid" /\ lost' = [lost EXCEPT !.grid = @ \cup {item.ts_msp_grid}]
    BY <2>2, <1>2, <1>3
  <2>3. CASE work[w].at = "data" /\ UNCHANGED lost
    BY <2>3, <1>2
  <2>. QED BY <2>1, <2>2, <2>3, <1>1
<1>6. StoreTypeInv'
  BY <1>1, <1>2, <1>4, <1>5 DEF StoreTypeInv
<1>7. MspRows \subseteq MspRows' /\ CellRows \subseteq CellRows'
  BY <1>1, <1>2, <1>4, <1>5, <1>6, RowsGrow DEF item
<1>. QED BY <1>1, <1>3, <1>4, <1>6, <1>7, WorkerKeeps

\* So every step keeps the invariant.
LEMMA StoreStep == StoreInv /\ [Next]_vars => StoreInv'
<1>. SUFFICES ASSUME StoreInv, [Next]_vars PROVE StoreInv'
  OBVIOUS
<1>1. CASE HandleEventAddRes
  BY <1>1, EventKeeps
<1>2. CASE EventDropped
  BY <1>2, DropKeeps
<1>3. CASE Tick
  <2>1. /\ now' = now + 1
        /\ UNCHANGED <<st, counter, insertNextEarliest, insertRecvIvlLast, queue, work, rows, lost, made>>
    BY <1>3 DEF Tick
  <2>2. MspRows' = MspRows /\ CellRows' = CellRows
    BY <2>1 DEF MspRows, CellRows, WithWorker, CellWithWorker
  <2>. QED BY <2>1, <2>2 DEF StoreInv, StoreTypeInv, AllFound
<1>4. ASSUME NEW w \in InsertWorkers, WorkerStep(w) PROVE StoreInv'
  BY <1>4, TakeKeeps, WritesMspKeeps, WritesGridKeeps, WritesDataKeeps, FailsKeeps DEF WorkerStep
<1>5. CASE UNCHANGED vars
  <2>1. UNCHANGED <<st, counter, now, insertNextEarliest, insertRecvIvlLast, queue, work, rows, lost, made>>
    BY <1>5 DEF vars, connVars
  <2>2. MspRows' = MspRows /\ CellRows' = CellRows
    BY <2>1 DEF MspRows, CellRows, WithWorker, CellWithWorker
  <2>. QED BY <2>1, <2>2 DEF StoreInv, StoreTypeInv, AllFound
<1>. QED BY <1>1, <1>2, <1>3, <1>4, <1>5 DEF Next

\* And it holds always.
LEMMA StoreInvCorrect == Spec => []StoreInv
BY StoreInit, StoreStep, PTL DEF Spec

-----------------------------------------------------------------------------
(* What the runs check follows from the invariant.                          *)
LEMMA StoreInvTypes == StoreInv => TypeOK
<1>. SUFFICES ASSUME StoreInv PROVE TypeOK
  OBVIOUS
<1>1. LateItems \subseteq Items /\ QueueItems \subseteq Items \cup {[kind |-> "Ivl"]}
  BY DEF LateItems, QueueItems
<1>2. \A S, T : S \subseteq T => \A q \in Seq(S) : q \in Seq(T)
  OBVIOUS
<1>3. queue \in Seq(Items \cup {[kind |-> "Ivl"]}) /\ made \in Seq(Items)
  BY <1>1, <1>2 DEF StoreInv, PartitionInv, QueueInv
<1>4. st \in [ts_msp_last : Nat, inserted_in_ts_msp : 0 .. Wrap - 1, ts_msp_grid_last : Nat]
  BY DEF StoreInv, PartitionInv, ChannelStates
<1>5. \A w \in InsertWorkers :
        work[w] = Idle \/ (work[w].at \in {"msp", "grid", "data"} /\ work[w].item \in Items)
  BY <1>1, WorkTypes DEF StoreInv
<1>6. /\ rows.msp \subseteq Nat /\ rows.grid \subseteq Nat /\ rows.data \subseteq Items
      /\ lost.msp \subseteq Nat /\ lost.grid \subseteq Nat
  BY <1>1 DEF StoreInv, StoreTypeInv
<1>7. {counter, now, insertNextEarliest, insertRecvIvlLast} \subseteq Nat
  BY DEF StoreInv, StoreTypeInv
<1>. QED BY <1>3, <1>4, <1>5, <1>6, <1>7 DEF TypeOK

\* The state knows the partition announced last, so items are in that one.
LEMMA StoreInvAnnounced == StoreInv => InAnnouncedPartition
<1>. SUFFICES ASSUME StoreInv, NEW k \in DOMAIN made
              PROVE  Announced(k) = {made[k].ts_msp} \/ OpenedByCopy(k)
  BY StoreInvTypes DEF InAnnouncedPartition
<1>1. k \in 1 .. Len(made) /\ Len(made) \in Nat
  BY DEF StoreInv, PartitionInv
<1>2. PICK i \in 1 .. k : AnnouncedAt(made, k, i) /\ (made[i].ts_msp = made[k].ts_msp \/ Opened(made, k))
  BY <1>1 DEF StoreInv, PartitionInv, InPartition
<1>. DEFINE bumps == {j \in 1 .. k : made[j].msp_bump}
            last == CHOOSE j \in bumps : \A l \in bumps : l <= j
<1>3. i \in bumps /\ \A j \in bumps : j <= i
  BY <1>1, <1>2 DEF AnnouncedAt
<1>4. bumps \subseteq Nat
  BY <1>1
<1>5. Announced(k) = {made[last].ts_msp}
  BY <1>3 DEF Announced
<1>. HIDE DEF bumps
<1>6. last \in bumps /\ \A j \in bumps : j <= last
  BY <1>3
<1>7. last = i
  <2>1. \A a, b \in Nat : a <= b /\ b <= a => a = b
    OBVIOUS
  <2>. HIDE DEF last
  <2>. QED BY <2>1, <1>3, <1>4, <1>6
<1>. QED BY <1>2, <1>5, <1>7 DEF Opened, OpenedByCopy

\* It counts the items of a partition, so a full one is left.
LEMMA StoreInvLeft == StoreInv => PartitionIsLeft
<1>. SUFFICES ASSUME StoreInv, NEW k \in DOMAIN made
              PROVE  /\ made[k].ts_lsp >= Hour => made[k].ts < made[k].ts_msp \/ OpenedByCopy(k)
                     /\ k > MaxInMsp /\ (\A j \in k - MaxInMsp .. k :
                                           made[j].ts_msp = made[k].ts_msp /\ ~OpenedByCopy(j))
                          => PartitionStart(made[k].ts) = made[k].ts_msp
  BY DEF PartitionIsLeft
<1>1. LeftInTime(made, k)
  BY DEF StoreInv, PartitionInv
<1>. QED BY <1>1 DEF LeftInTime, InARow, Opened, OpenedByCopy

\* And the row for what is stored is in the store, lost, or with a worker.
LEMMA StoreInvFound == StoreInv => StoredIsFound
<1>. SUFFICES ASSUME StoreInv, NEW d \in rows.data
              PROVE  /\ \/ d.ts_msp \in rows.msp \cup lost.msp \/ WithWorker(d.ts_msp)
                        \/ \E k \in DOMAIN made : made[k] = d /\ OpenedByCopy(k)
                     /\ \/ GridOf(d.ts) \in rows.grid \cup lost.grid \/ CellWithWorker(GridOf(d.ts))
                        \/ \E e \in Times : e > d.ts /\ e - d.ts <= Len(Copies)
  BY DEF StoredIsFound
<1>1. PartitionFound(made, d, MspRows) /\ CellFound(d, CellRows)
  BY DEF StoreInv, AllFound, ItemFound
<1>2. DOMAIN made = 1 .. Len(made)
  BY DEF StoreInv, PartitionInv
<1>3. \/ d.ts_msp \in rows.msp \cup lost.msp \/ WithWorker(d.ts_msp)
      \/ \E k \in DOMAIN made : made[k] = d /\ OpenedByCopy(k)
  BY <1>1, <1>2 DEF PartitionFound, MspRows, Opened, OpenedByCopy
<1>4. \/ GridOf(d.ts) \in rows.grid \cup lost.grid \/ CellWithWorker(GridOf(d.ts))
      \/ \E e \in Times : e > d.ts /\ e - d.ts <= Len(Copies)
  BY <1>1 DEF CellFound, CellRows, IsCopy
<1>. QED BY <1>3, <1>4

(* Each item is in the partition announced last, whatever the IOC's clock   *)
(* does, or a copy of its event has just opened the next one (the types of  *)
(* the variables are part of it): DoEventInsert in conn.rs.                 *)
THEOREM InAnnouncedPartitionCorrect == Spec => []InAnnouncedPartition
BY StoreInvCorrect, StoreInvAnnounced, PTL

(* A partition is left after an hour and, unless the IOC's time is still    *)
(* within its first ten seconds, with MaxInMsp events.                      *)
THEOREM PartitionIsLeftCorrect == Spec => []PartitionIsLeft
BY StoreInvCorrect, StoreInvLeft, PTL

(* What insert workers have stored is found through the rows of ts_msp and  *)
(* series_by_ts_msp, or a worker is at them, or they were lost.             *)
THEOREM StoredIsFoundCorrect == Spec => []StoredIsFound
BY StoreInvCorrect, StoreInvFound, PTL

(***************************************************************************)
(* The time bins.                                                          *)
(***************************************************************************)

(* The edges of patches are the multiples of BinCount.                      *)
LEMMA EdgeFacts ==
  /\ StartsPatch(0) /\ StartsPatch(BinCount)
  /\ \A x \in Nat : StartsPatch(x) <=> \E k \in Nat : x = k * BinCount
  /\ \A x \in Nat : EndsPatch(x) <=> StartsPatch(x + 1)
<1>. DEFINE B == BinCount
<1>1. B \in Nat /\ B > 0
  BY PatchAssumption
<1>2. \A x \in Nat : x % B = 0 <=> \E k \in Nat : x = k * B
  <2>1. \A x \in Nat : x % B = 0 => x \div B \in Nat /\ x = (x \div B) * B
    BY <1>1
  <2>2. \A k \in Nat : (k * B) % B = 0
    BY <1>1
  <2>. QED BY <2>1, <2>2
<1>3. 0 = 0 * B /\ B = 1 * B
  BY <1>1
<1>. QED BY <1>1, <1>2, <1>3 DEF StartsPatch, EndsPatch

(* Between two edges lies a whole patch, and what they are apart is whole.  *)
LEMMA EdgesApart ==
  ASSUME NEW a \in Nat, NEW e \in Nat, StartsPatch(a), StartsPatch(e), a < e
  PROVE  a + BinCount <= e /\ StartsPatch(e - a) /\ e - a \in Nat
<1>. DEFINE B == BinCount
<1>1. B \in Nat /\ B > 0
  BY PatchAssumption
<1>2. PICK k \in Nat : a = k * B
  BY EdgeFacts
<1>3. PICK j \in Nat : e = j * B
  BY EdgeFacts
<1>4. k < j
  <2>. SUFFICES ASSUME j <= k PROVE FALSE
    OBVIOUS
  <2>1. j * B <= k * B
    BY <1>1
  <2>. QED BY <2>1, <1>1, <1>2, <1>3
<1>5. PICK d \in Nat : j = k + 1 + d
  <2>1. j - k - 1 \in Nat /\ j = k + 1 + (j - k - 1)
    BY <1>4
  <2>. QED BY <2>1
<1>6. j * B = k * B + B + d * B /\ d * B \in Nat /\ d * B >= 0
  BY <1>1, <1>5
<1>7. e - a = (1 + d) * B /\ 1 + d \in Nat
  BY <1>1, <1>2, <1>3, <1>6
<1>8. StartsPatch(e - a) /\ e - a \in Nat
  <2>1. e - a \in Nat
    OBVIOUS
  <2>. QED BY <2>1, <1>7, EdgeFacts
<1>9. a + B <= e
  <2>. DEFINE u == k * B
              v == j * B
              w == d * B
  <2>1. u \in Nat /\ v \in Nat
    BY <1>1
  <2>. HIDE DEF u, v, w
  <2>2. \A x, y, z, b \in Nat : y = x + b + z => x + b <= y
    OBVIOUS
  <2>. QED BY <2>1, <2>2, <1>1, <1>2, <1>3, <1>6 DEF u, v, w
<1>. QED BY <1>8, <1>9

(* A patch after an edge is the next one.                                   *)
LEMMA NextEdge ==
  ASSUME NEW a \in Nat, StartsPatch(a)
  PROVE  StartsPatch(a + BinCount)
<1>1. BinCount \in Nat /\ BinCount > 0
  BY PatchAssumption
<1>2. PICK k \in Nat : a = k * BinCount
  BY EdgeFacts
<1>3. a + BinCount = (k + 1) * BinCount /\ k + 1 \in Nat
  BY <1>1, <1>2
<1>4. a + BinCount \in Nat
  BY <1>1
<1>. QED BY <1>3, <1>4, EdgeFacts

-----------------------------------------------------------------------------
(* Bins that follow each other.                                             *)
LEMMA BinsType ==
  ASSUME NEW a \in Nat, NEW b \in Nat, a <= b
  PROVE  /\ Bins(a, b) \in Seq(Nat) /\ Len(Bins(a, b)) = b - a /\ DOMAIN Bins(a, b) = 1 .. b - a
         /\ \A i \in 1 .. b - a : Bins(a, b)[i] = a + i - 1
         /\ Bins(a, b) \in Seq(a .. b)
<1>1. b - a \in Nat /\ \A i \in 1 .. b - a : a + i - 1 \in Nat /\ a + i - 1 \in a .. b
  OBVIOUS
<1>. QED BY <1>1 DEF Bins

(* Sequences with the same elements at the same places are one.             *)
LEMMA SameSeq ==
  ASSUME NEW S, NEW s \in Seq(S), NEW T, NEW t \in Seq(T), Len(s) = Len(t),
         \A i \in 1 .. Len(s) : s[i] = t[i]
  PROVE  s = t
OBVIOUS

(* From a bin up to itself there is none.                                   *)
LEMMA NoBins == ASSUME NEW a \in Nat PROVE Bins(a, a) = <<>>
<1>1. Bins(a, a) \in Seq(Nat) /\ Len(Bins(a, a)) = 0
  BY BinsType
<1>. QED BY <1>1

(* From a bin up to a later one it is the first.                            *)
LEMMA SomeBins ==
  ASSUME NEW a \in Nat, NEW b \in Nat, a < b
  PROVE  Bins(a, b) # <<>> /\ Bins(a, b)[1] = a
<1>1. Bins(a, b) \in Seq(Nat) /\ Len(Bins(a, b)) = b - a
  BY BinsType
<1>2. 1 \in 1 .. b - a /\ a + 1 - 1 = a
  OBVIOUS
<1>3. Bins(a, b)[1] = a
  <2>1. \A i \in 1 .. b - a : Bins(a, b)[i] = a + i - 1
    BY BinsType
  <2>. QED BY <2>1, <1>2
<1>. QED BY <1>1, <1>3

(* Bins up to b, and the ones from b on.                                    *)
LEMMA BinsConcat ==
  ASSUME NEW a \in Nat, NEW b \in Nat, NEW c \in Nat, a <= b, b <= c
  PROVE  Bins(a, b) \o Bins(b, c) = Bins(a, c)
<1>. DEFINE s == Bins(a, b)
            t == Bins(b, c)
            u == Bins(a, c)
<1>1. /\ s \in Seq(Nat) /\ Len(s) = b - a /\ \A i \in 1 .. b - a : s[i] = a + i - 1
      /\ t \in Seq(Nat) /\ Len(t) = c - b /\ \A i \in 1 .. c - b : t[i] = b + i - 1
      /\ u \in Seq(Nat) /\ Len(u) = c - a /\ \A i \in 1 .. c - a : u[i] = a + i - 1
  <2>1. a <= c
    OBVIOUS
  <2>2. s \in Seq(Nat) /\ Len(s) = b - a /\ \A i \in 1 .. b - a : s[i] = a + i - 1
    BY BinsType
  <2>3. t \in Seq(Nat) /\ Len(t) = c - b /\ \A i \in 1 .. c - b : t[i] = b + i - 1
    BY BinsType
  <2>4. u \in Seq(Nat) /\ Len(u) = c - a /\ \A i \in 1 .. c - a : u[i] = a + i - 1
    BY <2>1, BinsType
  <2>. QED BY <2>2, <2>3, <2>4
<1>. HIDE DEF s, t, u
<1>2. /\ s \o t \in Seq(Nat) /\ Len(s \o t) = Len(s) + Len(t)
      /\ \A i \in 1 .. Len(s) + Len(t) : (s \o t)[i] = IF i <= Len(s) THEN s[i] ELSE t[i - Len(s)]
  BY <1>1, ConcatProperties
<1>3. \A i \in 1 .. c - a : (s \o t)[i] = u[i]
  <2>. SUFFICES ASSUME NEW i \in 1 .. c - a PROVE (s \o t)[i] = a + i - 1
    BY <1>1
  <2>1. CASE i <= b - a
    BY <2>1, <1>1, <1>2
  <2>2. CASE ~(i <= b - a)
    <3>1. i - (b - a) \in 1 .. c - b /\ b + (i - (b - a)) - 1 = a + i - 1
      BY <2>2
    <3>2. i \in 1 .. Len(s) + Len(t) /\ ~(i <= Len(s)) /\ Len(s) = b - a
      BY <2>2, <1>1
    <3>3. (s \o t)[i] = t[i - (b - a)]
      BY <3>2, <1>2
    <3>. QED BY <3>1, <3>3, <1>1
  <2>. QED BY <2>1, <2>2
<1>4. Len(s \o t) = Len(u) /\ Len(u) = c - a
  BY <1>1, <1>2
<1>5. s \o t = u
  BY <1>1, <1>2, <1>3, <1>4, SameSeq
<1>. QED BY <1>5 DEF s, t, u

(* The bins from a up to c, split at b.                                     *)
LEMMA BinsSplit ==
  ASSUME NEW a \in Nat, NEW b \in Nat, NEW c \in Nat, a <= b, b <= c
  PROVE  Take(Bins(a, c), b - a) = Bins(a, b) /\ Drop(Bins(a, c), b - a) = Bins(b, c)
<1>. DEFINE s == Bins(a, b)
            t == Bins(b, c)
            u == Bins(a, c)
            n == b - a
            m == c - a
<1>1. /\ s \in Seq(Nat) /\ Len(s) = b - a /\ \A i \in 1 .. b - a : s[i] = a + i - 1
      /\ t \in Seq(Nat) /\ Len(t) = c - b /\ \A i \in 1 .. c - b : t[i] = b + i - 1
      /\ u \in Seq(Nat) /\ Len(u) = c - a /\ \A i \in 1 .. c - a : u[i] = a + i - 1
  <2>1. a <= c
    OBVIOUS
  <2>2. s \in Seq(Nat) /\ Len(s) = b - a /\ \A i \in 1 .. b - a : s[i] = a + i - 1
    BY BinsType
  <2>3. t \in Seq(Nat) /\ Len(t) = c - b /\ \A i \in 1 .. c - b : t[i] = b + i - 1
    BY BinsType
  <2>4. u \in Seq(Nat) /\ Len(u) = c - a /\ \A i \in 1 .. c - a : u[i] = a + i - 1
    BY <2>1, BinsType
  <2>. QED BY <2>2, <2>3, <2>4
<1>. HIDE DEF s, t, u
<1>2. /\ SubSeq(u, 1, n) \in Seq(Nat) /\ Len(SubSeq(u, 1, n)) = n
      /\ \A i \in 1 .. n : SubSeq(u, 1, n)[i] = u[i]
  <2>1. n \in Nat /\ \A i \in 1 .. n : i \in 1 .. Len(u) /\ 1 + i - 1 = i /\ u[i] \in Nat
    <3>1. n \in Nat /\ \A i \in 1 .. n : i \in 1 .. c - a /\ 1 + i - 1 = i
      OBVIOUS
    <3>2. \A i \in 1 .. Len(u) : u[i] \in Nat
      BY <1>1, ElementOfSeq
    <3>. QED BY <3>1, <3>2, <1>1
  <2>2. (IF 1 <= n THEN n - 1 + 1 ELSE 0) = n /\ n - 1 + 1 = n /\ 1 \in Int /\ n \in Int
    BY <2>1
  <2>3. /\ SubSeq(u, 1, n) \in Seq(Nat) /\ Len(SubSeq(u, 1, n)) = IF 1 <= n THEN n - 1 + 1 ELSE 0
        /\ \A i \in 1 .. n - 1 + 1 : SubSeq(u, 1, n)[i] = u[1 + i - 1]
    BY <2>1, <2>2, SubSeqProperties
  <2>. HIDE DEF n
  <2>. QED BY <2>1, <2>2, <2>3
<1>3. /\ SubSeq(u, n + 1, m) \in Seq(Nat) /\ Len(SubSeq(u, n + 1, m)) = m - n
      /\ \A i \in 1 .. m - n : SubSeq(u, n + 1, m)[i] = u[n + i]
  <2>1. n + 1 \in 1 .. Len(u) + 1 /\ m \in n .. Len(u) /\ m = Len(u)
    BY <1>1
  <2>. QED BY <2>1, <1>1
<1>4. SubSeq(u, 1, n) = s
  <2>1. \A i \in 1 .. n : SubSeq(u, 1, n)[i] = s[i]
    BY <1>1, <1>2
  <2>. QED BY <2>1, <1>1, <1>2, SameSeq
<1>5. SubSeq(u, n + 1, m) = t
  <2>1. \A i \in 1 .. c - b : n + i \in 1 .. c - a /\ a + (n + i) - 1 = b + i - 1 /\ m - n = c - b
    OBVIOUS
  <2>2. \A i \in 1 .. c - b : SubSeq(u, n + 1, m)[i] = t[i]
    BY <2>1, <1>1, <1>3
  <2>3. Len(SubSeq(u, n + 1, m)) = Len(t) /\ Len(t) = c - b
    BY <1>1, <1>3
  <2>. QED BY <2>2, <2>3, <1>1, <1>3, SameSeq
<1>. QED BY <1>1, <1>4, <1>5 DEF Take, Drop, s, t, u
-----------------------------------------------------------------------------
(* The passes over the bins of a tick.  A locked collector holds the bins   *)
(* from an edge a up to x; the bins from x up to y come in.                 *)
Coll(a, x, q) == Collector(Bins(a, x), TRUE, q)

Passing(x, y, c) == [item |-> Bins(x, y), c |-> c]

\* The largest of some places in an item.
LEMMA LargestPlace ==
  ASSUME NEW n \in Nat, NEW S, S \subseteq 1 .. n, S # {}
  PROVE  Max(S) \in S /\ \A i \in S : i <= Max(S)
<1>. DEFINE D == {n - i : i \in S}
<1>1. D \subseteq Nat /\ D # {}
  <2>1. PICK i : i \in S
    OBVIOUS
  <2>2. n - i \in D /\ \A j \in S : n - j \in Nat
    BY <2>1
  <2>. QED BY <2>2
<1>2. PICK d \in D : \A e \in D : d <= e
  <2>. HIDE DEF D
  <2>. QED BY <1>1, LeastNatural
<1>3. PICK m \in S : d = n - m
  BY <1>2
<1>4. \A i \in S : m >= i
  <2>. SUFFICES ASSUME NEW i \in S PROVE m >= i
    OBVIOUS
  <2>1. n - i \in D
    OBVIOUS
  <2>. QED BY <2>1, <1>2, <1>3
<1>5. Max(S) \in S /\ \A i \in S : Max(S) >= i
  BY <1>3, <1>4 DEF Max
<1>. QED BY <1>5

\* The smallest of some places.
LEMMA SmallestPlace ==
  ASSUME NEW S, S \subseteq Nat, S # {}
  PROVE  Min(S) \in S /\ \A i \in S : Min(S) <= i
<1>1. PICK m \in S : \A i \in S : m <= i
  BY LeastNatural
<1>. QED BY <1>1 DEF Min

(* What an item has at its places.                                          *)
LEMMA PlacesOf ==
  ASSUME NEW x \in Nat, NEW y \in Nat, x <= y
  PROVE  /\ Ends(Bins(x, y)) = {i \in 1 .. y - x : StartsPatch(x + i)}
         /\ Begins(Bins(x, y)) = {i \in 1 .. y - x : StartsPatch(x + i - 1)}
<1>1. DOMAIN Bins(x, y) = 1 .. y - x
  BY BinsType
<1>2. \A i \in 1 .. y - x : Bins(x, y)[i] = x + i - 1
  BY BinsType
<1>3. \A i \in 1 .. y - x : x + i - 1 \in Nat /\ (x + i - 1) + 1 = x + i
  OBVIOUS
<1>4. \A i \in 1 .. y - x : EndsPatch(x + i - 1) <=> StartsPatch(x + i)
  <2>. SUFFICES ASSUME NEW i \in 1 .. y - x PROVE EndsPatch(x + i - 1) <=> StartsPatch(x + i)
    OBVIOUS
  <2>. QED BY <1>3, EdgeFacts
<1>. QED BY <1>1, <1>2, <1>4 DEF Ends, Begins

(* A pass without an edge ahead collects all there is.                      *)
LEMMA PassCollects ==
  ASSUME NEW a \in Nat, NEW x \in Nat, NEW y \in Nat, a <= x, x <= y, NEW q,
         \A e \in x + 1 .. y : ~StartsPatch(e)
  PROVE  Pass(Passing(x, y, Coll(a, x, q))) = Passing(y, y, Coll(a, y, q))
<1>. DEFINE p == Passing(x, y, Coll(a, x, q))
<1>1. p.item = Bins(x, y) /\ p.c = Coll(a, x, q) /\ p.c.locked = TRUE /\ p.c.coll = Bins(a, x)
      /\ p.c.outq = q
  BY DEF Passing, Coll, Collector
<1>2. Bins(y, y) = <<>> /\ Bins(a, x) \o Bins(x, y) = Bins(a, y)
  BY NoBins, BinsConcat
<1>3. CASE Bins(x, y) = <<>>
  <2>1. x = y
    BY <1>3, SomeBins
  <2>. QED BY <2>1, <1>1, <1>3 DEF Pass
<1>4. CASE Bins(x, y) # <<>>
  <2>1. Ends(Bins(x, y)) = {}
    <3>1. \A i \in 1 .. y - x : x + i \in x + 1 .. y
      OBVIOUS
    <3>. QED BY <3>1, PlacesOf
  <2>2. Pass(p) = [item |-> <<>>, c |-> Collector(Bins(a, x) \o Bins(x, y), TRUE, q)]
    BY <2>1, <1>1, <1>4 DEF Pass, PassLocked
  <2>. QED BY <2>2, <1>2 DEF Passing, Coll
<1>. QED BY <1>3, <1>4

(* A pass with an edge ahead makes one patch up to the last one.            *)
LEMMA PassMakesPatch ==
  ASSUME NEW a \in Nat, NEW x \in Nat, NEW y \in Nat, a <= x, x <= y, NEW q,
         \E e \in x + 1 .. y : StartsPatch(e)
  PROVE  \E e \in x + 1 .. y :
           /\ StartsPatch(e) /\ \A f \in e + 1 .. y : ~StartsPatch(f)
           /\ Pass(Passing(x, y, Coll(a, x, q)))
                = Passing(e, y, Coll(e, e, Append(q, Bins(a, e))))
<1>. DEFINE p == Passing(x, y, Coll(a, x, q))
            S == Ends(Bins(x, y))
            i == Max(S)
<1>1. /\ p.item = Bins(x, y) /\ p.c = Coll(a, x, q) /\ p.c.locked = TRUE /\ p.c.coll = Bins(a, x)
      /\ p.c.outq = q
  BY DEF Passing, Coll, Collector
<1>2. S = {j \in 1 .. y - x : StartsPatch(x + j)}
  BY PlacesOf
<1>3. S \subseteq 1 .. y - x /\ y - x \in Nat
  BY <1>2
<1>4. S # {}
  <2>1. PICK e \in x + 1 .. y : StartsPatch(e)
    OBVIOUS
  <2>2. e - x \in 1 .. y - x /\ x + (e - x) = e
    OBVIOUS
  <2>. QED BY <2>1, <2>2, <1>2
<1>5. i \in S /\ \A j \in S : j <= i
  <2>. HIDE DEF S
  <2>. QED BY <1>3, <1>4, LargestPlace
<1>. HIDE DEF i
<1>6. i \in 1 .. y - x /\ StartsPatch(x + i) /\ x + i \in x + 1 .. y /\ x + i \in Nat
  BY <1>2, <1>5
<1>7. \A f \in x + i + 1 .. y : ~StartsPatch(f)
  <2>. SUFFICES ASSUME NEW f \in x + i + 1 .. y, StartsPatch(f) PROVE FALSE
    OBVIOUS
  <2>1. f - x \in 1 .. y - x /\ x + (f - x) = f /\ ~(f - x <= i)
    BY <1>6
  <2>. QED BY <2>1, <1>2, <1>5
<1>8. Bins(x, y) # <<>>
  <2>1. x < y
    BY <1>6
  <2>. QED BY <2>1, SomeBins
<1>9. Take(Bins(x, y), i) = Bins(x, x + i) /\ Drop(Bins(x, y), i) = Bins(x + i, y)
  <2>1. (x + i) - x = i /\ x <= x + i /\ x + i <= y
    BY <1>6
  <2>. QED BY <2>1, <1>6, BinsSplit
<1>10. Bins(a, x) \o Bins(x, x + i) = Bins(a, x + i) /\ Bins(x + i, x + i) = <<>>
  <2>1. x <= x + i
    BY <1>6
  <2>. QED BY <2>1, <1>6, BinsConcat, NoBins
<1>11. Pass(p) = [item |-> Drop(Bins(x, y), i),
                  c |-> Collector(<<>>, TRUE, Append(q, Bins(a, x) \o Take(Bins(x, y), i)))]
  BY <1>1, <1>4, <1>8 DEF Pass, PassLocked, i
<1>12. Pass(p) = Passing(x + i, y, Coll(x + i, x + i, Append(q, Bins(a, x + i))))
  BY <1>9, <1>10, <1>11 DEF Passing, Coll
<1>. QED BY <1>6, <1>7, <1>12

(* A pass that is not locked drops what comes before the first edge E.      *)
LEMMA PassBeforeEdge ==
  ASSUME NEW x \in Nat, NEW y \in Nat, NEW E \in Nat, x <= y, y <= E,
         \A e \in x .. E - 1 : ~StartsPatch(e)
  PROVE  Pass(Passing(x, y, NewCollect)) = Passing(y, y, NewCollect)
<1>. DEFINE p == Passing(x, y, NewCollect)
<1>1. p.item = Bins(x, y) /\ p.c = NewCollect /\ ~p.c.locked
  BY DEF Passing, NewCollect, Collector
<1>2. Bins(y, y) = <<>>
  BY NoBins
<1>3. CASE Bins(x, y) = <<>>
  <2>1. x = y
    BY <1>3, SomeBins
  <2>. QED BY <2>1, <1>1, <1>3 DEF Pass
<1>4. CASE Bins(x, y) # <<>>
  <2>1. Begins(Bins(x, y)) = {}
    <3>1. \A i \in 1 .. y - x : x + i - 1 \in x .. E - 1
      OBVIOUS
    <3>. QED BY <3>1, PlacesOf
  <2>. QED BY <2>1, <1>1, <1>2, <1>4 DEF Pass, PassUnlocked, Passing
<1>. QED BY <1>3, <1>4

(* A pass that is not locked goes on from the first edge E.                 *)
LEMMA PassFindsEdge ==
  ASSUME NEW x \in Nat, NEW y \in Nat, NEW E \in Nat, x <= E, E < y, StartsPatch(E),
         \A e \in x .. E - 1 : ~StartsPatch(e)
  PROVE  Pass(Passing(x, y, NewCollect)) = Passing(E, y, Coll(E, E, <<>>))
<1>. DEFINE p == Passing(x, y, NewCollect)
            S == Begins(Bins(x, y))
            i == Min(S)
<1>1. p.item = Bins(x, y) /\ p.c = NewCollect /\ ~p.c.locked /\ p.c.outq = <<>>
  BY DEF Passing, NewCollect, Collector
<1>2. S = {j \in 1 .. y - x : StartsPatch(x + j - 1)}
  BY PlacesOf
<1>3. E - x + 1 \in 1 .. y - x /\ x + (E - x + 1) - 1 = E
  OBVIOUS
<1>4. E - x + 1 \in S
  BY <1>2, <1>3
<1>5. i \in S /\ \A j \in S : i <= j
  <2>1. S \subseteq Nat
    BY <1>2
  <2>. HIDE DEF S
  <2>. QED BY <2>1, <1>4, SmallestPlace
<1>. HIDE DEF i
<1>6. i = E - x + 1
  <2>1. i \in 1 .. y - x /\ StartsPatch(x + i - 1) /\ i <= E - x + 1
    BY <1>2, <1>4, <1>5
  <2>2. x + i - 1 \notin x .. E - 1
    BY <2>1
  <2>. QED BY <2>1, <2>2
<1>7. Bins(x, y) # <<>> /\ Bins(E, E) = <<>>
  <2>1. x < y
    OBVIOUS
  <2>. QED BY <2>1, SomeBins, NoBins
<1>8. Drop(Bins(x, y), i - 1) = Bins(E, y)
  <2>1. i - 1 = E - x /\ E <= y
    BY <1>6
  <2>. QED BY <2>1, BinsSplit
<1>9. Pass(p) = [item |-> Drop(Bins(x, y), i - 1), c |-> Collector(<<>>, TRUE, <<>>)]
  BY <1>1, <1>4, <1>7 DEF Pass, PassUnlocked, i
<1>. QED BY <1>7, <1>8, <1>9 DEF Passing, Coll

-----------------------------------------------------------------------------
\* f has the first n passes over an item.
PassesUpTo(c, item, n, f) ==
  /\ f = [k \in 0 .. n |-> f[k]]
  /\ f[0] = [item |-> item, c |-> c]
  /\ \A k \in 1 .. n : f[k] = Pass(f[k - 1])

(* The passes that ingest makes exist, for any number of them.              *)
LEMMA PassesExist ==
  ASSUME NEW c, NEW item, NEW n \in Nat
  PROVE  \E f : PassesUpTo(c, item, n, f)
<1>. DEFINE Bad == {m \in Nat : ~\E f : PassesUpTo(c, item, m, f)}
<1>. SUFFICES ASSUME Bad # {} PROVE FALSE
  OBVIOUS
<1>1. PICK m \in Bad : \A l \in Bad : m <= l
  <2>1. Bad \subseteq Nat
    OBVIOUS
  <2>. HIDE DEF Bad
  <2>. QED BY <2>1, LeastNatural
<1>2. CASE m = 0
  <2>1. PassesUpTo(c, item, 0, [k \in 0 .. 0 |-> [item |-> item, c |-> c]])
    BY DEF PassesUpTo
  <2>. QED BY <2>1, <1>1, <1>2
<1>3. CASE m # 0
  <2>1. m - 1 \in Nat /\ m - 1 \notin Bad
    BY <1>1, <1>3
  <2>2. PICK f : PassesUpTo(c, item, m - 1, f)
    BY <2>1
  <2>. DEFINE g == [k \in 0 .. m |-> IF k = m THEN Pass(f[m - 1]) ELSE f[k]]
  <2>3. g[0] = [item |-> item, c |-> c]
    BY <1>3, <2>1, <2>2 DEF PassesUpTo
  <2>4. \A k \in 1 .. m : g[k] = Pass(g[k - 1])
    <3>1. \A k \in 1 .. m : k = m \/ k \in 1 .. m - 1
      BY <2>1
    <3>2. g[m] = Pass(f[m - 1]) /\ \A k \in 0 .. m - 1 : g[k] = f[k]
      BY <2>1
    <3>3. \A k \in 1 .. m : k - 1 \in 0 .. m - 1
      BY <2>1
    <3>4. \A k \in 1 .. m - 1 : k \in 0 .. m - 1
      BY <2>1
    <3>. HIDE DEF g
    <3>. QED BY <3>1, <3>2, <3>3, <3>4, <2>2 DEF PassesUpTo
  <2>5. g = [k \in 0 .. m |-> g[k]]
    OBVIOUS
  <2>. HIDE DEF g
  <2>. QED BY <2>3, <2>4, <2>5, <1>1 DEF PassesUpTo
<1>. QED BY <1>2, <1>3

(* What ingest does is what its passes do.                                  *)
LEMMA IngestIs ==
  ASSUME NEW c, NEW item
  PROVE  \E f : /\ PassesUpTo(c, item, PassLimit, f)
                /\ Ingest(c, item) = [item |-> f[PassLimit - 1].item, c |-> f[PassLimit].c]
<1>. DEFINE Start == [item |-> item, c |-> c]
            Eq(f) == f = [k \in 0 .. PassLimit |-> IF k = 0 THEN Start ELSE Pass(f[k - 1])]
            passes == CHOOSE f : Eq(f)
<1>1. PassLimit \in Nat
  BY PatchAssumption
<1>2. PICK f : PassesUpTo(c, item, PassLimit, f)
  BY <1>1, PassesExist
<1>3. Eq(f)
  <2>1. \A k \in 0 .. PassLimit : f[k] = IF k = 0 THEN Start ELSE Pass(f[k - 1])
    <3>1. \A k \in 0 .. PassLimit : k # 0 => k \in 1 .. PassLimit
      BY <1>1
    <3>2. f[0] = Start /\ \A k \in 1 .. PassLimit : f[k] = Pass(f[k - 1])
      BY <1>2 DEF PassesUpTo
    <3>. HIDE DEF Start
    <3>. QED BY <3>1, <3>2
  <2>. HIDE DEF Start
  <2>2. f = [k \in 0 .. PassLimit |-> f[k]]
    BY <1>2 DEF PassesUpTo
  <2>. QED BY <2>1, <2>2
<1>4. Eq(passes)
  <2>. HIDE DEF Eq
  <2>. QED BY <1>3
<1>5. PassesUpTo(c, item, PassLimit, passes)
  <2>1. passes = [k \in 0 .. PassLimit |-> IF k = 0 THEN Start ELSE Pass(passes[k - 1])]
    BY <1>4
  <2>. HIDE DEF passes
  <2>2. passes = [k \in 0 .. PassLimit |-> passes[k]]
    BY ONLY <2>1
  <2>3. \A k \in 0 .. PassLimit : passes[k] = IF k = 0 THEN Start ELSE Pass(passes[k - 1])
    BY ONLY <2>1
  <2>4. 0 \in 0 .. PassLimit /\ \A k \in 1 .. PassLimit : k \in 0 .. PassLimit /\ k # 0
    BY <1>1
  <2>5. passes[0] = Start /\ \A k \in 1 .. PassLimit : passes[k] = Pass(passes[k - 1])
    <3>. HIDE DEF Start
    <3>. QED BY <2>3, <2>4
  <2>. QED BY <2>2, <2>5 DEF PassesUpTo
<1>6. Ingest(c, item) = [item |-> passes[PassLimit - 1].item, c |-> passes[PassLimit].c]
  BY DEF Ingest
<1>. HIDE DEF passes
<1>. QED BY <1>5, <1>6

(* When an item is used up, the other passes change nothing.                *)
LEMMA PassesRest ==
  ASSUME NEW c, NEW item, NEW n \in Nat, NEW f, PassesUpTo(c, item, n, f),
         NEW j \in 0 .. n, f[j].item = <<>>
  PROVE  \A k \in j .. n : f[k] = f[j]
<1>. DEFINE Bad == {k \in j .. n : f[k] # f[j]}
<1>. SUFFICES ASSUME Bad # {} PROVE FALSE
  OBVIOUS
<1>1. PICK k \in Bad : \A l \in Bad : k <= l
  <2>1. Bad \subseteq Nat
    OBVIOUS
  <2>. HIDE DEF Bad
  <2>. QED BY <2>1, LeastNatural
<1>2. k # j
  BY <1>1
<1>3. k - 1 \in j .. n /\ k - 1 \notin Bad /\ k \in 1 .. n
  BY <1>1, <1>2
<1>4. f[k] = Pass(f[k - 1]) /\ f[k - 1] = f[j]
  BY <1>3 DEF PassesUpTo
<1>. QED BY <1>1, <1>4 DEF Pass

\* What ingest leaves: the bins from the edge e up to y are in the collector, those
\* from a up to e in a patch.
Settled(a, e, y) == Coll(e, y, IF e = a THEN <<>> ELSE <<Bins(a, e)>>)

(* Two passes of a locked collector take in all bins.                       *)
LEMMA TwoPasses ==
  ASSUME NEW c, NEW item, NEW f, PassesUpTo(c, item, PassLimit, f), NEW j \in 0 .. 1,
         NEW a \in Nat, NEW x \in Nat, NEW y \in Nat, StartsPatch(a),
         a <= x, x <= y, x < a + BinCount,
         f[j] = Passing(x, y, Coll(a, x, <<>>))
  PROVE  \E e \in a .. y : /\ StartsPatch(e) /\ y < e + BinCount
                           /\ f[PassLimit - 1] = Passing(y, y, Settled(a, e, y))
                           /\ f[PassLimit] = Passing(y, y, Settled(a, e, y))
<1>1. /\ PassLimit \in Nat /\ PassLimit >= 4 /\ BinCount \in Nat /\ BinCount > 0
      /\ \A k \in 1 .. PassLimit : f[k] = Pass(f[k - 1])
  <2>1. PassLimit \in Nat /\ PassLimit >= 4 /\ BinCount \in Nat /\ BinCount > 0
    BY PatchAssumption
  <2>2. \A k \in 1 .. PassLimit : f[k] = Pass(f[k - 1])
    BY DEF PassesUpTo
  <2>. QED BY <2>1, <2>2
<1>2. /\ f[j + 1] = Pass(f[j]) /\ f[j + 2] = Pass(f[j + 1])
      /\ PassLimit - 1 \in j + 2 .. PassLimit /\ PassLimit \in j + 2 .. PassLimit
      /\ j + 2 \in 0 .. PassLimit
  <2>1. j + 1 \in 1 .. PassLimit /\ j + 2 \in 1 .. PassLimit /\ (j + 1) - 1 = j /\ (j + 2) - 1 = j + 1
    BY <1>1
  <2>2. /\ PassLimit - 1 \in j + 2 .. PassLimit /\ PassLimit \in j + 2 .. PassLimit
        /\ j + 2 \in 0 .. PassLimit
    BY <1>1
  <2>. QED BY <2>1, <2>2, <1>1
<1>3. ASSUME NEW r, f[j + 2] = Passing(y, y, r)
      PROVE  f[PassLimit - 1] = Passing(y, y, r) /\ f[PassLimit] = Passing(y, y, r)
  <2>1. f[j + 2].item = <<>>
    BY <1>3, NoBins DEF Passing
  <2>2. \A k \in j + 2 .. PassLimit : f[k] = f[j + 2]
    <3>. DEFINE m == j + 2
    <3>1. m \in 0 .. PassLimit /\ f[m].item = <<>> /\ PassLimit \in Nat
      BY <2>1, <1>1, <1>2
    <3>. HIDE DEF m
    <3>2. \A k \in m .. PassLimit : f[k] = f[m]
      BY <3>1, PassesRest
    <3>. QED BY <3>2 DEF m
  <2>. QED BY <2>2, <1>2, <1>3
<1>4. CASE \A e \in x + 1 .. y : ~StartsPatch(e)
  <2>1. f[j + 1] = Passing(y, y, Coll(a, y, <<>>))
    BY <1>2, <1>4, PassCollects
  <2>2. f[j + 2] = Passing(y, y, Coll(a, y, <<>>))
    <3>1. Passing(y, y, Coll(a, y, <<>>)).item = <<>>
      BY NoBins DEF Passing
    <3>. QED BY <3>1, <2>1, <1>2 DEF Pass
  <2>3. y < a + BinCount
    <3>1. StartsPatch(a + BinCount) /\ a + BinCount \in Nat
      BY <1>1, NextEdge
    <3>2. a + BinCount \notin x + 1 .. y
      BY <3>1, <1>4
    <3>. QED BY <3>2, <1>1
  <2>4. Settled(a, a, y) = Coll(a, y, <<>>) /\ a \in a .. y
    BY DEF Settled
  <2>. QED BY <2>2, <2>3, <2>4, <1>3
<1>5. CASE \E e \in x + 1 .. y : StartsPatch(e)
  <2>1. PICK e \in x + 1 .. y :
          /\ StartsPatch(e) /\ \A g \in e + 1 .. y : ~StartsPatch(g)
          /\ Pass(Passing(x, y, Coll(a, x, <<>>)))
               = Passing(e, y, Coll(e, e, Append(<<>>, Bins(a, e))))
    <3>. DEFINE q == <<>>
    <3>. HIDE DEF q
    <3>1. \E e \in x + 1 .. y :
            /\ StartsPatch(e) /\ \A g \in e + 1 .. y : ~StartsPatch(g)
            /\ Pass(Passing(x, y, Coll(a, x, q))) = Passing(e, y, Coll(e, e, Append(q, Bins(a, e))))
      BY <1>5, PassMakesPatch
    <3>. QED BY <3>1 DEF q
  <2>2. e \in Nat /\ e <= y /\ a < e /\ e \in a .. y
    BY <2>1
  <2>3. f[j + 2] = Passing(y, y, Coll(e, y, <<Bins(a, e)>>))
    <3>1. Append(<<>>, Bins(a, e)) = <<Bins(a, e)>>
      OBVIOUS
    <3>2. f[j + 1] = Passing(e, y, Coll(e, e, <<Bins(a, e)>>))
      BY <3>1, <2>1, <1>2
    <3>3. Pass(Passing(e, y, Coll(e, e, <<Bins(a, e)>>)))
            = Passing(y, y, Coll(e, y, <<Bins(a, e)>>))
      BY <2>1, <2>2, PassCollects
    <3>. QED BY <3>2, <3>3, <1>2
  <2>4. y < e + BinCount
    <3>1. StartsPatch(e + BinCount) /\ e + BinCount \in Nat
      BY <2>1, <2>2, <1>1, NextEdge
    <3>2. e + BinCount \notin e + 1 .. y
      BY <3>1, <2>1
    <3>. QED BY <3>2, <2>2, <1>1
  <2>5. Settled(a, e, y) = Coll(e, y, <<Bins(a, e)>>)
    BY <2>2 DEF Settled
  <2>. QED BY <2>1, <2>2, <2>3, <2>4, <2>5, <1>3
<1>. QED BY <1>4, <1>5

(* A tick of a locked collector.                                            *)
LEMMA IngestLocked ==
  ASSUME NEW a \in Nat, NEW x \in Nat, NEW y \in Nat, StartsPatch(a),
         a <= x, x <= y, x < a + BinCount
  PROVE  \E e \in a .. y :
           /\ StartsPatch(e) /\ y < e + BinCount
           /\ Ingest(Coll(a, x, <<>>), Bins(x, y)) = [item |-> <<>>, c |-> Settled(a, e, y)]
<1>1. PICK f : /\ PassesUpTo(Coll(a, x, <<>>), Bins(x, y), PassLimit, f)
               /\ Ingest(Coll(a, x, <<>>), Bins(x, y))
                    = [item |-> f[PassLimit - 1].item, c |-> f[PassLimit].c]
  BY IngestIs
<1>2. f[0] = Passing(x, y, Coll(a, x, <<>>))
  BY <1>1 DEF PassesUpTo, Passing
<1>3. PICK e \in a .. y : /\ StartsPatch(e) /\ y < e + BinCount
                          /\ f[PassLimit - 1] = Passing(y, y, Settled(a, e, y))
                          /\ f[PassLimit] = Passing(y, y, Settled(a, e, y))
  BY <1>1, <1>2, TwoPasses
<1>4. Passing(y, y, Settled(a, e, y)).item = <<>> /\ Passing(y, y, Settled(a, e, y)).c = Settled(a, e, y)
  BY NoBins DEF Passing
<1>. QED BY <1>1, <1>3, <1>4

(* A tick before the first edge E is reached, and the one that reaches it.  *)
LEMMA IngestFirst ==
  ASSUME NEW x \in Nat, NEW y \in Nat, NEW E \in Nat, x <= E, x <= y, StartsPatch(E),
         \A e \in x .. E - 1 : ~StartsPatch(e)
  PROVE  \/ y <= E /\ Ingest(NewCollect, Bins(x, y)) = [item |-> <<>>, c |-> NewCollect]
         \/ \E e \in E .. y :
              /\ StartsPatch(e) /\ y < e + BinCount
              /\ Ingest(NewCollect, Bins(x, y)) = [item |-> <<>>, c |-> Settled(E, e, y)]
<1>1. PICK f : /\ PassesUpTo(NewCollect, Bins(x, y), PassLimit, f)
               /\ Ingest(NewCollect, Bins(x, y))
                    = [item |-> f[PassLimit - 1].item, c |-> f[PassLimit].c]
  BY IngestIs
<1>2. /\ PassLimit \in Nat /\ PassLimit >= 4 /\ BinCount \in Nat /\ BinCount > 0
      /\ f[0] = Passing(x, y, NewCollect) /\ f[1] = Pass(f[0])
  <2>1. PassLimit \in Nat /\ PassLimit >= 4 /\ BinCount \in Nat /\ BinCount > 0
    BY PatchAssumption
  <2>2. 1 \in 1 .. PassLimit /\ 1 - 1 = 0
    BY <2>1
  <2>3. f[0] = Passing(x, y, NewCollect)
    BY <1>1 DEF PassesUpTo, Passing
  <2>. QED BY <2>1, <2>2, <2>3, <1>1 DEF PassesUpTo
<1>3. CASE y <= E
  <2>1. f[1] = Passing(y, y, NewCollect)
    BY <1>2, <1>3, PassBeforeEdge
  <2>2. f[1].item = <<>> /\ f[1].c = NewCollect
    BY <2>1, NoBins DEF Passing
  <2>3. \A k \in 1 .. PassLimit : f[k] = f[1]
    <3>. DEFINE m == 1
    <3>1. m \in 0 .. PassLimit /\ f[m].item = <<>> /\ PassLimit \in Nat
      BY <1>2, <2>2
    <3>. HIDE DEF m
    <3>2. \A k \in m .. PassLimit : f[k] = f[m]
      BY <3>1, <1>1, PassesRest
    <3>. QED BY <3>2 DEF m
  <2>4. PassLimit - 1 \in 1 .. PassLimit /\ PassLimit \in 1 .. PassLimit
    BY <1>2
  <2>. QED BY <2>2, <2>3, <2>4, <1>1, <1>3
<1>4. CASE E < y
  <2>1. f[1] = Passing(E, y, Coll(E, E, <<>>))
    BY <1>2, <1>4, PassFindsEdge
  <2>2. E <= y /\ E < E + BinCount /\ 1 \in 0 .. 1
    BY <1>2, <1>4
  <2>3. PICK e \in E .. y : /\ StartsPatch(e) /\ y < e + BinCount
                            /\ f[PassLimit - 1] = Passing(y, y, Settled(E, e, y))
                            /\ f[PassLimit] = Passing(y, y, Settled(E, e, y))
    BY <2>1, <2>2, <1>1, TwoPasses
  <2>4. Passing(y, y, Settled(E, e, y)).item = <<>> /\ Passing(y, y, Settled(E, e, y)).c = Settled(E, e, y)
    BY NoBins DEF Passing
  <2>. QED BY <2>3, <2>4, <1>1
<1>. QED BY <1>3, <1>4

-----------------------------------------------------------------------------
(* The rows, and the bins in them.                                          *)
PatchRows == [off_msp : Nat, off_lsp : 0 .. OffMax - 1, bins : Seq(Nat)]

\* r is a row of whole patches at its place.
WholeRow(r) == \E s, e \in Nat : s < e /\ StartsPatch(s) /\ StartsPatch(e) /\ r = Row(Bins(s, e))

(* A row of bins has the place of its first bin.                            *)
LEMMA RowType ==
  ASSUME NEW s \in Nat, NEW e \in Nat, s < e
  PROVE  /\ Row(Bins(s, e)) \in PatchRows /\ Row(Bins(s, e)).bins = Bins(s, e)
         /\ Row(Bins(s, e)).off_msp = (s \div BinCount) \div OffMax
         /\ Row(Bins(s, e)).off_lsp = (s \div BinCount) % OffMax
<1>1. BinCount \in Nat \ {0} /\ OffMax \in Nat \ {0}
  BY PatchAssumption, TimeBinAssumption
<1>2. Bins(s, e)[1] = s /\ Bins(s, e) \in Seq(Nat)
  BY SomeBins, BinsType
<1>3. \A k \in Nat, m \in Nat \ {0} : k \div m \in Nat /\ k % m \in 0 .. m - 1
  OBVIOUS
<1>4. s \div BinCount \in Nat
  BY <1>1, <1>3
<1>5. (s \div BinCount) \div OffMax \in Nat /\ (s \div BinCount) % OffMax \in 0 .. OffMax - 1
  BY <1>1, <1>3, <1>4
<1>. QED BY <1>2, <1>5 DEF Row, PatchRows

(* The place of a row of whole patches is the place of its first bin.       *)
LEMMA WholeRowPlace ==
  ASSUME NEW r, WholeRow(r)
  PROVE  r.bins[1] = (r.off_msp * OffMax + r.off_lsp) * BinCount
<1>1. PICK s, e \in Nat : s < e /\ StartsPatch(s) /\ StartsPatch(e) /\ r = Row(Bins(s, e))
  BY DEF WholeRow
<1>2. BinCount \in Nat /\ BinCount > 0 /\ OffMax \in Nat /\ OffMax > 0
  BY PatchAssumption, TimeBinAssumption
<1>3. PICK k \in Nat : s = k * BinCount
  BY <1>1, EdgeFacts
<1>4. s \div BinCount = k
  BY <1>2, <1>3
<1>5. \A d, m \in Nat : m > 0 => (d \div m) * m + (d % m) = d
  OBVIOUS
<1>6. r.off_msp * OffMax + r.off_lsp = k
  <2>1. r.off_msp = k \div OffMax /\ r.off_lsp = k % OffMax
    BY <1>1, <1>4, RowType
  <2>. QED BY <2>1, <1>2, <1>5
<1>7. r.bins = Bins(s, e) /\ Bins(s, e)[1] = s
  <2>1. Row(Bins(s, e)).bins = Bins(s, e)
    BY <1>1, RowType
  <2>2. Bins(s, e)[1] = s
    BY <1>1, SomeBins
  <2>. QED BY <1>1, <2>1, <2>2
<1>. QED BY <1>3, <1>6, <1>7

\* f has the bins of the first rows of rs.
BinsUpTo(rs, n, f) ==
  /\ f \in [0 .. n -> Seq(Nat)]
  /\ f[0] = <<>>
  /\ \A i \in 1 .. n : f[i] = f[i - 1] \o rs[i].bins

(* The bins of the first rows can be put together row by row.               *)
LEMMA BinsUpToExists ==
  ASSUME NEW rs \in Seq(PatchRows), NEW n \in 0 .. Len(rs)
  PROVE  \E f : BinsUpTo(rs, n, f)
<1>. DEFINE Bad == {m \in 0 .. Len(rs) : ~\E f : BinsUpTo(rs, m, f)}
<1>. SUFFICES ASSUME Bad # {} PROVE FALSE
  OBVIOUS
<1>0. Len(rs) \in Nat /\ \A i \in 1 .. Len(rs) : rs[i] \in PatchRows
  BY ElementOfSeq
<1>1. PICK m \in Bad : \A l \in Bad : m <= l
  <2>1. Bad \subseteq Nat
    BY <1>0
  <2>. HIDE DEF Bad
  <2>. QED BY <2>1, LeastNatural
<1>2. CASE m = 0
  <2>1. BinsUpTo(rs, 0, [i \in 0 .. 0 |-> <<>>])
    BY DEF BinsUpTo
  <2>. QED BY <2>1, <1>1, <1>2
<1>3. CASE m # 0
  <2>1. m - 1 \in Nat /\ m - 1 \in 0 .. Len(rs) /\ m - 1 \notin Bad /\ m \in 1 .. Len(rs)
    BY <1>0, <1>1, <1>3
  <2>2. PICK f : BinsUpTo(rs, m - 1, f)
    BY <2>1
  <2>3. f[m - 1] \in Seq(Nat) /\ rs[m].bins \in Seq(Nat)
    <3>1. m - 1 \in 0 .. m - 1
      BY <2>1
    <3>2. f[m - 1] \in Seq(Nat)
      BY <2>2, <3>1 DEF BinsUpTo
    <3>3. rs[m] \in PatchRows
      BY <2>1, <1>0
    <3>. QED BY <3>2, <3>3 DEF PatchRows
  <2>4. f[m - 1] \o rs[m].bins \in Seq(Nat)
    BY <2>3, ConcatProperties
  <2>. DEFINE g == [i \in 0 .. m |-> IF i = m THEN f[m - 1] \o rs[m].bins ELSE f[i]]
  <2>5. \A i \in 0 .. m : i = m \/ i \in 0 .. m - 1
    BY <2>1
  <2>6. g \in [0 .. m -> Seq(Nat)]
    BY <2>2, <2>4, <2>5 DEF BinsUpTo
  <2>7. g[0] = <<>> /\ g[m] = f[m - 1] \o rs[m].bins /\ \A i \in 0 .. m - 1 : g[i] = f[i]
    <3>1. /\ 0 \in 0 .. m /\ 0 \in 0 .. m - 1 /\ m \in 0 .. m /\ 0 # m
          /\ \A i \in 0 .. m - 1 : i \in 0 .. m /\ i # m
      BY <2>1
    <3>2. f[0] = <<>>
      BY <2>2 DEF BinsUpTo
    <3>. QED BY <3>1, <3>2
  <2>8. \A i \in 1 .. m : i - 1 \in 0 .. m - 1 /\ (i = m \/ i \in 1 .. m - 1)
    BY <2>1
  <2>9. \A i \in 1 .. m - 1 : i \in 0 .. m - 1
    BY <2>1
  <2>. HIDE DEF g
  <2>10. \A i \in 1 .. m : g[i] = g[i - 1] \o rs[i].bins
    BY <2>2, <2>7, <2>8, <2>9 DEF BinsUpTo
  <2>. QED BY <2>6, <2>7, <2>10, <1>1 DEF BinsUpTo
<1>. QED BY <1>2, <1>3

(* They depend on these rows alone.                                         *)
LEMMA BinsUpToUnique ==
  ASSUME NEW rs, NEW qs, NEW n \in Nat, NEW f, NEW g, BinsUpTo(rs, n, f), BinsUpTo(qs, n, g),
         \A i \in 1 .. n : rs[i] = qs[i]
  PROVE  f[n] = g[n]
<1>. DEFINE Bad == {m \in 0 .. n : f[m] # g[m]}
<1>1. Bad = {}
  <2>. SUFFICES ASSUME Bad # {} PROVE FALSE
    OBVIOUS
  <2>1. PICK m \in Bad : \A l \in Bad : m <= l
    <3>1. Bad \subseteq Nat
      OBVIOUS
    <3>. HIDE DEF Bad
    <3>. QED BY <3>1, LeastNatural
  <2>2. m # 0
    BY <2>1 DEF BinsUpTo
  <2>3. m \in 1 .. n /\ m - 1 \in 0 .. n /\ m - 1 \notin Bad
    BY <2>1, <2>2
  <2>4. f[m] = f[m - 1] \o rs[m].bins /\ g[m] = g[m - 1] \o qs[m].bins
    BY <2>3 DEF BinsUpTo
  <2>. QED BY <2>1, <2>3, <2>4
<1>2. n \in 0 .. n
  OBVIOUS
<1>. QED BY <1>1, <1>2

(* AllBins is what one gets at the last row.                                *)
LEMMA AllBinsIs ==
  ASSUME NEW rs \in Seq(PatchRows)
  PROVE  \E f : BinsUpTo(rs, Len(rs), f) /\ AllBins(rs) = f[Len(rs)]
<1>. DEFINE n == Len(rs)
            Eq(f) == f = [i \in 0 .. n |-> IF i = 0 THEN <<>> ELSE f[i - 1] \o rs[i].bins]
            g == CHOOSE f : Eq(f)
<1>1. n \in Nat
  OBVIOUS
<1>2. PICK f : BinsUpTo(rs, n, f)
  BY <1>1, BinsUpToExists
<1>3. \A i \in 0 .. n : i # 0 => i \in 1 .. n
  BY <1>1
<1>4. Eq(f)
  <2>1. \A i \in 0 .. n : f[i] = IF i = 0 THEN <<>> ELSE f[i - 1] \o rs[i].bins
    BY <1>2, <1>3 DEF BinsUpTo
  <2>2. f = [i \in 0 .. n |-> f[i]]
    BY <1>2 DEF BinsUpTo
  <2>. QED BY <2>1, <2>2
<1>5. Eq(g)
  <2>. HIDE DEF Eq
  <2>. QED BY <1>4
<1>6. g = [i \in 0 .. n |-> IF i = 0 THEN <<>> ELSE g[i - 1] \o rs[i].bins]
  BY <1>5
<1>7. AllBins(rs) = g[n]
  BY DEF AllBins
<1>. HIDE DEF g
<1>8. \A i \in 0 .. n : g[i] = IF i = 0 THEN <<>> ELSE g[i - 1] \o rs[i].bins
  BY ONLY <1>6
<1>9. g = [i \in 0 .. n |-> g[i]]
  BY ONLY <1>6
<1>10. g[0] = <<>> /\ \A i \in 1 .. n : g[i] = g[i - 1] \o rs[i].bins
  <2>1. 0 \in 0 .. n /\ \A i \in 1 .. n : i \in 0 .. n /\ i # 0
    BY <1>1
  <2>. QED BY <2>1, <1>8
<1>11. \A i \in 0 .. n : g[i] = f[i]
  <2>. DEFINE Bad == {i \in 0 .. n : g[i] # f[i]}
  <2>. SUFFICES ASSUME Bad # {} PROVE FALSE
    OBVIOUS
  <2>1. PICK m \in Bad : \A l \in Bad : m <= l
    <3>1. Bad \subseteq Nat
      BY <1>1
    <3>. HIDE DEF Bad
    <3>. QED BY <3>1, LeastNatural
  <2>2. m # 0
    BY <2>1, <1>2, <1>10 DEF BinsUpTo
  <2>3. m \in 1 .. n /\ m - 1 \in 0 .. n /\ m - 1 \notin Bad
    BY <2>1, <2>2, <1>1
  <2>4. f[m] = f[m - 1] \o rs[m].bins /\ g[m] = g[m - 1] \o rs[m].bins
    BY <2>3, <1>2, <1>10 DEF BinsUpTo
  <2>. QED BY <2>1, <2>3, <2>4
<1>12. n \in 0 .. n
  BY <1>1
<1>. QED BY <1>2, <1>7, <1>11, <1>12

(* A row more has its bins behind the others.                               *)
LEMMA AllBinsAppend ==
  ASSUME NEW rs \in Seq(PatchRows), NEW r \in PatchRows
  PROVE  AllBins(Append(rs, r)) = AllBins(rs) \o r.bins
<1>. DEFINE n == Len(rs)
            qs == Append(rs, r)
<1>1. /\ n \in Nat /\ qs \in Seq(PatchRows) /\ Len(qs) = n + 1 /\ qs[n + 1] = r
      /\ \A i \in 1 .. n : qs[i] = rs[i]
  BY AppendProperties
<1>. HIDE DEF qs
<1>2. PICK f : BinsUpTo(rs, n, f) /\ AllBins(rs) = f[n]
  BY AllBinsIs
<1>3. PICK g : BinsUpTo(qs, n + 1, g) /\ AllBins(qs) = g[n + 1]
  BY <1>1, AllBinsIs
<1>. DEFINE h == [i \in 0 .. n |-> g[i]]
<1>4. BinsUpTo(qs, n, h)
  <2>1. \A i \in 0 .. n : i \in 0 .. n + 1 /\ h[i] = g[i]
    BY <1>1
  <2>2. \A i \in 1 .. n : i \in 1 .. n + 1 /\ i \in 0 .. n /\ i - 1 \in 0 .. n
    BY <1>1
  <2>3. h \in [0 .. n -> Seq(Nat)] /\ h[0] = <<>>
    BY <2>1, <1>1, <1>3 DEF BinsUpTo
  <2>4. \A i \in 1 .. n : h[i] = h[i - 1] \o qs[i].bins
    <3>. HIDE DEF h
    <3>. QED BY <2>1, <2>2, <1>3 DEF BinsUpTo
  <2>. HIDE DEF h
  <2>. QED BY <2>3, <2>4 DEF BinsUpTo
<1>5. h[n] = f[n] /\ h[n] = g[n]
  <2>1. h[n] = g[n]
    BY <1>1
  <2>. HIDE DEF h
  <2>. QED BY <2>1, <1>1, <1>2, <1>4, BinsUpToUnique
<1>6. g[n + 1] = g[n] \o r.bins
  <2>1. n + 1 \in 1 .. n + 1 /\ (n + 1) - 1 = n
    BY <1>1
  <2>. QED BY <2>1, <1>1, <1>3 DEF BinsUpTo
<1>. QED BY <1>2, <1>3, <1>5, <1>6 DEF qs

(* No rows, no bins.                                                        *)
LEMMA NoRows == AllBins(<<>>) = <<>>
<1>1. <<>> \in Seq(PatchRows) /\ Len(<<>>) = 0
  OBVIOUS
<1>2. PICK f : BinsUpTo(<<>>, 0, f) /\ AllBins(<<>>) = f[0]
  BY <1>1, AllBinsIs
<1>. QED BY <1>2 DEF BinsUpTo

-----------------------------------------------------------------------------
(* What the collector c and the rows rs have of the bins up to x, where E   *)
(* is the first edge: nothing, or the rows have all from E up to an edge a  *)
(* and the collector less than a patch, from a on.                          *)
Kept(c, rs, E, x) ==
  /\ rs \in Seq(PatchRows) /\ \A i \in DOMAIN rs : WholeRow(rs[i])
  /\ \/ c = NewCollect /\ rs = <<>> /\ x <= E
     \/ \E a \in Nat : /\ StartsPatch(a) /\ E <= a /\ a <= x /\ x < a + BinCount
                       /\ c = Coll(a, x, <<>>) /\ AllBins(rs) = Bins(E, a)

\* At bin x the patch that is not complete is the one from a on.
OpenAt(a, E, x) == (a <= x /\ x < a + BinCount) \/ (a = E /\ x <= E)

\* What the bins from x up to y make of them.
TakenIn(p, c, rs, E, x, y) ==
  \/ y <= E /\ c = NewCollect /\ rs = <<>> /\ p = [item |-> <<>>, c |-> NewCollect]
  \/ \E a, e \in Nat : /\ StartsPatch(a) /\ StartsPatch(e) /\ E <= a /\ a <= e /\ e <= y
                       /\ y < e + BinCount /\ AllBins(rs) = Bins(E, a) /\ OpenAt(a, E, x)
                       /\ p = [item |-> <<>>, c |-> Settled(a, e, y)]

(* The passes over the bins of a tick leave nothing of them.                *)
LEMMA TakesIn ==
  ASSUME NEW c, NEW rs, NEW E \in Nat, NEW x \in Nat, NEW y \in Nat, x <= y, StartsPatch(E),
         \A e \in x .. E - 1 : ~StartsPatch(e), Kept(c, rs, E, x)
  PROVE  TakenIn(Ingest(c, Bins(x, y)), c, rs, E, x, y)
<1>1. BinCount \in Nat /\ BinCount > 0
  BY PatchAssumption
<1>2. CASE c = NewCollect /\ rs = <<>> /\ x <= E
  <2>1. CASE y <= E /\ Ingest(NewCollect, Bins(x, y)) = [item |-> <<>>, c |-> NewCollect]
    BY <1>2, <2>1 DEF TakenIn
  <2>2. ASSUME NEW e \in E .. y, StartsPatch(e), y < e + BinCount,
               Ingest(NewCollect, Bins(x, y)) = [item |-> <<>>, c |-> Settled(E, e, y)]
        PROVE  TakenIn(Ingest(c, Bins(x, y)), c, rs, E, x, y)
    <3>1. e \in Nat /\ E <= e /\ e <= y /\ E <= E
      OBVIOUS
    <3>2. AllBins(rs) = Bins(E, E)
      BY <1>2, NoRows, NoBins
    <3>. QED BY <1>2, <2>2, <3>1, <3>2 DEF TakenIn, OpenAt
  <2>3. \/ y <= E /\ Ingest(NewCollect, Bins(x, y)) = [item |-> <<>>, c |-> NewCollect]
        \/ \E e \in E .. y :
             /\ StartsPatch(e) /\ y < e + BinCount
             /\ Ingest(NewCollect, Bins(x, y)) = [item |-> <<>>, c |-> Settled(E, e, y)]
    BY <1>2, IngestFirst
  <2>. QED BY <2>1, <2>2, <2>3
<1>3. ASSUME NEW a \in Nat, StartsPatch(a), E <= a, a <= x, x < a + BinCount,
             c = Coll(a, x, <<>>), AllBins(rs) = Bins(E, a)
      PROVE  TakenIn(Ingest(c, Bins(x, y)), c, rs, E, x, y)
  <2>1. PICK e \in a .. y :
          /\ StartsPatch(e) /\ y < e + BinCount
          /\ Ingest(Coll(a, x, <<>>), Bins(x, y)) = [item |-> <<>>, c |-> Settled(a, e, y)]
    BY <1>3, IngestLocked
  <2>2. e \in Nat /\ a <= e /\ e <= y
    OBVIOUS
  <2>. QED BY <1>3, <2>1, <2>2 DEF TakenIn, OpenAt
<1>. QED BY <1>2, <1>3 DEF Kept

\* The rows after a tick.
RowsWith(rs, a, e) == IF e = a THEN rs ELSE Append(rs, Row(Bins(a, e)))

(* The tick keeps what is taken in.                                         *)
LEMMA KeptOn ==
  ASSUME NEW c, NEW rs, NEW E \in Nat, NEW x \in Nat, NEW y \in Nat, Kept(c, rs, E, x),
         NEW a \in Nat, NEW e \in Nat, StartsPatch(a), StartsPatch(e),
         E <= a, a <= e, e <= y, y < e + BinCount, AllBins(rs) = Bins(E, a)
  PROVE  Kept(Coll(e, y, <<>>), RowsWith(rs, a, e), E, y)
<1>1. rs \in Seq(PatchRows) /\ \A i \in DOMAIN rs : WholeRow(rs[i])
  BY DEF Kept
<1>2. E <= e
  OBVIOUS
<1>3. CASE e = a
  BY <1>1, <1>2, <1>3 DEF Kept, RowsWith
<1>4. CASE e # a
  <2>. DEFINE r == Row(Bins(a, e))
  <2>1. a < e
    BY <1>4
  <2>2. r \in PatchRows /\ r.bins = Bins(a, e)
    BY <2>1, RowType
  <2>3. WholeRow(r)
    BY <2>1 DEF WholeRow
  <2>. HIDE DEF r
  <2>4. /\ Append(rs, r) \in Seq(PatchRows)
        /\ \A i \in DOMAIN Append(rs, r) : Append(rs, r)[i] = r \/ (i \in DOMAIN rs /\ Append(rs, r)[i] = rs[i])
    BY <1>1, <2>2, AppendProperties
  <2>5. \A i \in DOMAIN Append(rs, r) : WholeRow(Append(rs, r)[i])
    BY <1>1, <2>3, <2>4
  <2>6. AllBins(Append(rs, r)) = Bins(E, e)
    <3>1. AllBins(Append(rs, r)) = Bins(E, a) \o Bins(a, e)
      BY <1>1, <2>2, AllBinsAppend
    <3>2. Bins(E, a) \o Bins(a, e) = Bins(E, e)
      BY <2>1, BinsConcat
    <3>. QED BY <3>1, <3>2
  <2>7. RowsWith(rs, a, e) = Append(rs, r)
    BY <1>4 DEF RowsWith, r
  <2>. QED BY <1>2, <2>4, <2>5, <2>6, <2>7 DEF Kept
<1>. QED BY <1>3, <1>4

\* Row i holds the patches from a up to e, tk the ticks: the patch before a and the
\* one from e on end at other ticks than the one that made the row, and no tick came
\* between the ends of the patches in it.
RowOf(rs, E, x, tk, i, a, e) ==
  /\ StartsPatch(a) /\ StartsPatch(e) /\ E <= a /\ a < e /\ e <= x
  /\ rs[i] = Row(Bins(a, e))
  /\ a = E \/ \E m \in tk : a <= m /\ m < a + BinCount
  /\ \E m \in tk : e <= m /\ m < e + BinCount
  /\ \A m \in tk : m < a + BinCount \/ e <= m

\* Every row is as the ticks made it, and every complete patch is in a row.
RowsByTick(rs, E, x, tk) ==
  /\ tk \subseteq 0 .. x /\ x \in tk
  /\ \A i \in DOMAIN rs : \E a, e \in Nat : RowOf(rs, E, x, tk, i, a, e)
  /\ \A s \in Nat : StartsPatch(s) /\ E <= s /\ s + BinCount <= x =>
       \E i \in DOMAIN rs : \E a, e \in Nat : RowOf(rs, E, x, tk, i, a, e) /\ a <= s /\ s < e

(* A tick before the first edge makes no row.                               *)
LEMMA RowsBeforeEdge ==
  ASSUME NEW E \in Nat, NEW x \in Nat, NEW y \in Nat, x <= y, y <= E, NEW tk, RowsByTick(<<>>, E, x, tk)
  PROVE  RowsByTick(<<>>, E, y, tk \cup {y})
<1>1. BinCount \in Nat /\ BinCount > 0
  BY PatchAssumption
<1>2. tk \cup {y} \subseteq 0 .. y
  BY DEF RowsByTick
<1>3. \A s \in Nat : ~(E <= s /\ s + BinCount <= y)
  BY <1>1
<1>4. DOMAIN <<>> = {}
  OBVIOUS
<1>. QED BY <1>2, <1>3, <1>4 DEF RowsByTick

(* A tick that goes on from a, where the last patch is open, up to bin y    *)
(* and completes the patches before e makes one row of them.                *)
LEMMA RowsByTickOn ==
  ASSUME NEW rs \in Seq(PatchRows), NEW E \in Nat, NEW x \in Nat, NEW y \in Nat, x <= y,
         NEW tk, RowsByTick(rs, E, x, tk),
         NEW a \in Nat, NEW e \in Nat, StartsPatch(a), StartsPatch(e),
         E <= a, a <= e, e <= y, y < e + BinCount, OpenAt(a, E, x)
  PROVE  RowsByTick(RowsWith(rs, a, e), E, y, tk \cup {y})
<1>. DEFINE qs == RowsWith(rs, a, e)
            tl == tk \cup {y}
<1>1. BinCount \in Nat /\ BinCount > 0
  BY PatchAssumption
<1>2. tk \subseteq 0 .. x /\ x \in tk /\ tl \subseteq 0 .. y /\ y \in tl
  BY DEF RowsByTick
<1>3. /\ \A i \in DOMAIN rs : i \in DOMAIN qs /\ qs[i] = rs[i]
      /\ \A i \in DOMAIN qs : i \in DOMAIN rs \/ (a < e /\ qs[i] = Row(Bins(a, e)))
      /\ a < e => \E i \in DOMAIN qs : qs[i] = Row(Bins(a, e))
  <2>1. CASE e = a
    BY <2>1 DEF RowsWith
  <2>2. CASE e # a
    <3>. DEFINE r == Row(Bins(a, e))
    <3>1. a < e
      BY <2>2
    <3>2. r \in PatchRows
      BY <3>1, RowType
    <3>3. qs = Append(rs, r)
      BY <2>2 DEF RowsWith
    <3>. HIDE DEF r, qs
    <3>4. /\ DOMAIN rs = 1 .. Len(rs) /\ Len(rs) \in Nat /\ DOMAIN qs = 1 .. Len(rs) + 1
          /\ \A i \in 1 .. Len(rs) : qs[i] = rs[i]
          /\ qs[Len(rs) + 1] = r
      BY <3>2, <3>3, AppendProperties
    <3>5. \A i \in 1 .. Len(rs) + 1 : i \in 1 .. Len(rs) \/ i = Len(rs) + 1
      BY <3>4
    <3>6. Len(rs) + 1 \in DOMAIN qs /\ \A i \in 1 .. Len(rs) : i \in DOMAIN qs
      BY <3>4
    <3>. QED BY <3>1, <3>4, <3>5, <3>6 DEF r
  <2>. QED BY <2>1, <2>2
<1>. HIDE DEF qs, tl
<1>4. \A i \in DOMAIN rs : \A b, f \in Nat : RowOf(rs, E, x, tk, i, b, f) => RowOf(qs, E, y, tl, i, b, f)
  <2>. SUFFICES ASSUME NEW i \in DOMAIN rs, NEW b \in Nat, NEW f \in Nat, RowOf(rs, E, x, tk, i, b, f)
                PROVE  RowOf(qs, E, y, tl, i, b, f)
    OBVIOUS
  <2>1. f <= x /\ f <= y
    BY DEF RowOf
  <2>2. tk \subseteq tl /\ \A m \in tl : m \in tk \/ m = y
    BY DEF tl
  <2>3. \A m \in tl : m < b + BinCount \/ f <= m
    BY <2>1, <2>2 DEF RowOf
  <2>4. qs[i] = Row(Bins(b, f))
    BY <1>3 DEF RowOf
  <2>. QED BY <2>1, <2>2, <2>3, <2>4 DEF RowOf
<1>5. ASSUME a < e, NEW i \in DOMAIN qs, qs[i] = Row(Bins(a, e)) PROVE RowOf(qs, E, y, tl, i, a, e)
  <2>1. a = E \/ \E m \in tl : a <= m /\ m < a + BinCount
    BY <1>2 DEF OpenAt, tl
  <2>2. \E m \in tl : e <= m /\ m < e + BinCount
    BY <1>2
  <2>3. x < a + BinCount
    BY <1>1 DEF OpenAt
  <2>4. \A m \in tl : m < a + BinCount \/ e <= m
    <3>1. \A m \in tk : m \in Nat /\ m <= x
      BY <1>2
    <3>2. \A m \in tk : m < a + BinCount
      BY <2>3, <3>1, <1>1
    <3>. QED BY <3>2 DEF tl
  <2>. QED BY <1>5, <2>1, <2>2, <2>4 DEF RowOf
<1>6. \A i \in DOMAIN qs : \E b, f \in Nat : RowOf(qs, E, y, tl, i, b, f)
  <2>. SUFFICES ASSUME NEW i \in DOMAIN qs PROVE \E b, f \in Nat : RowOf(qs, E, y, tl, i, b, f)
    OBVIOUS
  <2>1. CASE i \in DOMAIN rs
    BY <2>1, <1>4 DEF RowsByTick
  <2>2. CASE a < e /\ qs[i] = Row(Bins(a, e))
    BY <2>2, <1>5
  <2>. QED BY <2>1, <2>2, <1>3
<1>7. ASSUME NEW s \in Nat, StartsPatch(s), E <= s, s + BinCount <= y
      PROVE  \E i \in DOMAIN qs : \E b, f \in Nat : RowOf(qs, E, y, tl, i, b, f) /\ b <= s /\ s < f
  <2>1. CASE s + BinCount <= x
    <3>1. PICK i \in DOMAIN rs : \E b, f \in Nat : RowOf(rs, E, x, tk, i, b, f) /\ b <= s /\ s < f
      BY <1>7, <2>1 DEF RowsByTick
    <3>2. i \in DOMAIN qs
      BY <1>3
    <3>. QED BY <3>1, <3>2, <1>4
  <2>2. CASE x < s + BinCount
    <3>1. s < e
      BY <1>1, <1>7
    <3>2. a <= s
      <4>1. CASE a = E
        BY <4>1, <1>7
      <4>2. CASE a <= x /\ s < a
        <5>1. s + BinCount <= a
          BY <4>2, <1>7, EdgesApart
        <5>. QED BY <5>1, <4>2, <2>2, <1>1
      <4>. QED BY <4>1, <4>2 DEF OpenAt
    <3>3. PICK i \in DOMAIN qs : qs[i] = Row(Bins(a, e))
      BY <3>1, <3>2, <1>3
    <3>4. RowOf(qs, E, y, tl, i, a, e)
      BY <3>1, <3>2, <3>3, <1>5
    <3>. QED BY <3>1, <3>2, <3>4
  <2>3. s + BinCount <= x \/ x < s + BinCount
    BY <1>1
  <2>. QED BY <2>1, <2>2, <2>3
<1>8. RowsByTick(qs, E, y, tl)
  BY <1>2, <1>6, <1>7 DEF RowsByTick
<1>. QED BY <1>8 DEF qs, tl

(* A patch that is stored is a row more, and none is empty.                 *)
LEMMA StoresPatch ==
  ASSUME NEW a \in Nat, NEW e \in Nat, NEW y \in Nat, a <= e, e <= y,
         NEW p, p.c = Settled(a, e, y), StorePatch(p), patches \in Seq(PatchRows)
  PROVE  failed' = failed /\ patches' = RowsWith(patches, a, e)
<1>1. p.c.outq = IF e = a THEN <<>> ELSE <<Bins(a, e)>>
  BY DEF Settled, Coll, Collector
<1>. DEFINE q == p.c.outq
            new == [i \in DOMAIN q |-> Row(q[i])]
<1>2. CASE e = a
  <2>1. q = <<>> /\ DOMAIN q = {}
    BY <1>1, <1>2
  <2>2. failed' = failed /\ patches' = patches \o new
    BY <2>1 DEF StorePatch
  <2>3. new = <<>>
    BY <2>1
  <2>4. patches \o <<>> = patches
    BY ConcatProperties, EmptySeq
  <2>. QED BY <1>2, <2>2, <2>3, <2>4 DEF RowsWith
<1>3. CASE e # a
  <2>1. a < e
    BY <1>3
  <2>2. Bins(a, e) # <<>>
    BY <2>1, SomeBins
  <2>3. q = <<Bins(a, e)>> /\ DOMAIN q = {1} /\ q[1] = Bins(a, e)
    BY <1>1, <1>3
  <2>4. failed' = failed /\ patches' = patches \o new
    BY <2>2, <2>3 DEF StorePatch
  <2>5. new = <<Row(Bins(a, e))>>
    BY <2>3
  <2>6. Row(Bins(a, e)) \in PatchRows
    BY <2>1, RowType
  <2>7. patches \o <<Row(Bins(a, e))>> = Append(patches, Row(Bins(a, e)))
    BY <2>6
  <2>. QED BY <1>3, <2>4, <2>5, <2>7 DEF RowsWith
<1>. QED BY <1>2, <1>3

-----------------------------------------------------------------------------
(* The inductive invariant: types, that the binner is not before the first  *)
(* bin, Kept, and RowsByTick.                                               *)
BinInv ==
  /\ did_setup \in BOOLEAN /\ acc \in BOOLEAN /\ failed \in BOOLEAN
  /\ first \in 0 .. BinCount - 1 /\ next \in 0 .. MaxBin /\ first <= next
  /\ Kept(pc, patches, FirstEdge, next)
  /\ RowsByTick(patches, FirstEdge, next, ticks)

(* No edge is passed over before the first one.                             *)
LEMMA FirstEdgeFacts ==
  ASSUME BinInv
  PROVE  FirstEdge \in Nat /\ StartsPatch(FirstEdge) /\ \A e \in next .. FirstEdge - 1 : ~StartsPatch(e)
<1>1. BinCount \in Nat /\ BinCount > 0
  BY PatchAssumption
<1>2. FirstEdge \in Nat /\ StartsPatch(FirstEdge)
  BY <1>1, EdgeFacts DEF FirstEdge
<1>3. ASSUME NEW e \in next .. FirstEdge - 1, StartsPatch(e) PROVE FALSE
  <2>1. next \in Nat /\ first \in Nat /\ first <= next /\ MaxBin \in Nat
    BY TimeBinAssumption, <1>1 DEF BinInv
  <2>2. first # 0 /\ FirstEdge = BinCount
    BY <2>1 DEF FirstEdge
  <2>3. 0 < e /\ e < BinCount /\ e \in Nat
    BY <2>1, <2>2, <1>1
  <2>4. 0 + BinCount <= e
    BY <1>3, <2>3, EdgesApart, EdgeFacts
  <2>. QED BY <2>3, <2>4, <1>1
<1>. QED BY <1>2, <1>3

(* The inductive invariant holds at first, ...                              *)
LEMMA BinInvInit == BinInit => BinInv
<1>. SUFFICES ASSUME BinInit PROVE BinInv
  OBVIOUS
<1>1. BinCount \in Nat /\ BinCount > 0 /\ MaxBin \in Nat /\ BinCount <= MaxBin
  BY PatchAssumption, TimeBinAssumption
<1>2. next \in 0 .. MaxBin /\ next <= FirstEdge
  BY <1>1 DEF BinInit, FirstEdge
<1>3. Kept(pc, patches, FirstEdge, next)
  BY <1>2 DEF BinInit, Kept
<1>4. first \in 0 .. BinCount - 1 /\ first <= next
  BY <1>1 DEF BinInit
<1>5. did_setup \in BOOLEAN /\ acc \in BOOLEAN /\ failed \in BOOLEAN
  BY DEF BinInit
<1>6. RowsByTick(<<>>, FirstEdge, next, {next})
  <2>1. next \in Nat /\ FirstEdge \in Nat
    BY <1>1 DEF BinInit, FirstEdge
  <2>2. \A s \in Nat : ~(FirstEdge <= s /\ s + BinCount <= next)
    BY <2>1, <1>1, <1>2
  <2>3. DOMAIN <<>> = {} /\ {next} \subseteq 0 .. next /\ next \in {next}
    BY <2>1
  <2>. HIDE DEF FirstEdge
  <2>. QED BY <2>2, <2>3 DEF RowsByTick
<1>7. patches = <<>> /\ ticks = {next}
  BY DEF BinInit
<1>. QED BY <1>2, <1>3, <1>4, <1>5, <1>6, <1>7 DEF BinInv

(* A tick: nothing fails, and what was kept is kept.                        *)
LEMMA TickKeeps ==
  ASSUME BinInv, BinTick
  PROVE  failed' = failed /\ BinInv'
<1>1. BinCount \in Nat /\ BinCount > 0 /\ MaxBin \in Nat /\ MaxReady \in Nat
  BY PatchAssumption, TimeBinAssumption
<1>2. /\ next \in Nat /\ Kept(pc, patches, FirstEdge, next) /\ patches \in Seq(PatchRows)
      /\ RowsByTick(patches, FirstEdge, next, ticks)
  BY <1>1 DEF BinInv, Kept
<1>3. FirstEdge \in Nat /\ StartsPatch(FirstEdge) /\ \A e \in next .. FirstEdge - 1 : ~StartsPatch(e)
  BY FirstEdgeFacts
<1>4. PICK n \in 0 .. MaxReady :
        /\ next + n <= MaxBin /\ next' = next + n /\ ticks' = ticks \cup {next + n}
        /\ LET p == Ingest(pc, Bins(next, next + n)) IN
           IF p.item # <<>> THEN failed' = TRUE /\ pc' = p.c /\ UNCHANGED patches
           ELSE StorePatch(p) /\ pc' = WithoutOutq(p.c)
  BY DEF BinTick
<1>. DEFINE y == next + n
            p == Ingest(pc, Bins(next, y))
<1>5. y \in Nat /\ next <= y /\ y \in 0 .. MaxBin /\ y = next' /\ ticks' = ticks \cup {y}
  BY <1>1, <1>2, <1>4
<1>6. TakenIn(p, pc, patches, FirstEdge, next, y)
  <2>. HIDE DEF y
  <2>. QED BY <1>2, <1>3, <1>5, TakesIn
<1>7. IF p.item # <<>> THEN failed' = TRUE /\ pc' = p.c /\ UNCHANGED patches
      ELSE StorePatch(p) /\ pc' = WithoutOutq(p.c)
  BY <1>4
<1>8. first' = first /\ did_setup' = did_setup /\ acc' = FALSE /\ FirstEdge' = FirstEdge
  BY DEF BinTick, FirstEdge
<1>. HIDE DEF p, y
<1>9. failed' = failed /\ Kept(pc', patches', FirstEdge, y) /\ RowsByTick(patches', FirstEdge, y, ticks')
  <2>1. CASE y <= FirstEdge /\ pc = NewCollect /\ patches = <<>> /\ p = [item |-> <<>>, c |-> NewCollect]
    <3>1. p.item = <<>> /\ p.c = NewCollect /\ p.c.outq = <<>> /\ WithoutOutq(p.c) = NewCollect
      BY <2>1 DEF NewCollect, WithoutOutq, Collector
    <3>2. StorePatch(p) /\ pc' = NewCollect
      BY <3>1, <1>7
    <3>3. failed' = failed /\ patches' = patches \o [i \in DOMAIN p.c.outq |-> Row(p.c.outq[i])]
      BY <3>1, <3>2 DEF StorePatch
    <3>4. [i \in DOMAIN p.c.outq |-> Row(p.c.outq[i])] = <<>>
      BY <3>1
    <3>5. <<>> \o <<>> = <<>>
      OBVIOUS
    <3>6. patches' = <<>>
      BY <2>1, <3>3, <3>4, <3>5
    <3>7. RowsByTick(<<>>, FirstEdge, y, ticks \cup {y})
      BY <2>1, <1>2, <1>3, <1>5, RowsBeforeEdge
    <3>8. Kept(NewCollect, <<>>, FirstEdge, y)
      BY <2>1 DEF Kept
    <3>9. RowsByTick(patches', FirstEdge, y, ticks')
      BY <3>6, <3>7, <1>5
    <3>10. Kept(pc', patches', FirstEdge, y)
      BY <3>2, <3>6, <3>8
    <3>. QED BY <3>3, <3>9, <3>10
  <2>2. ASSUME NEW a \in Nat, NEW e \in Nat, StartsPatch(a), StartsPatch(e), FirstEdge <= a, a <= e, e <= y,
               y < e + BinCount, AllBins(patches) = Bins(FirstEdge, a), OpenAt(a, FirstEdge, next),
               p = [item |-> <<>>, c |-> Settled(a, e, y)]
        PROVE  failed' = failed /\ Kept(pc', patches', FirstEdge, y) /\ RowsByTick(patches', FirstEdge, y, ticks')
    <3>1. p.item = <<>> /\ p.c = Settled(a, e, y)
      BY <2>2
    <3>2. StorePatch(p) /\ pc' = WithoutOutq(Settled(a, e, y))
      BY <3>1, <1>7
    <3>3. failed' = failed /\ patches' = RowsWith(patches, a, e)
      BY <3>1, <3>2, <2>2, <1>2, <1>5, StoresPatch
    <3>4. pc' = Coll(e, y, <<>>)
      BY <3>2 DEF WithoutOutq, Settled, Coll, Collector
    <3>5. Kept(Coll(e, y, <<>>), RowsWith(patches, a, e), FirstEdge, y)
      BY <2>2, <1>2, <1>3, <1>5, KeptOn
    <3>6. RowsByTick(RowsWith(patches, a, e), FirstEdge, y, ticks \cup {y})
      BY <2>2, <1>2, <1>3, <1>5, RowsByTickOn
    <3>. QED BY <3>3, <3>4, <3>5, <3>6, <1>5
  <2>. QED BY <1>6, <2>1, <2>2 DEF TakenIn
<1>10. first <= y
  BY <1>1, <1>5 DEF BinInv
<1>. QED BY <1>5, <1>8, <1>9, <1>10 DEF BinInv

(* ... every step keeps it, ...                                             *)
LEMMA BinInvNext == BinInv /\ [BinNext]_binVars => BinInv'
<1>. SUFFICES ASSUME BinInv, [BinNext]_binVars PROVE BinInv'
  OBVIOUS
<1>1. CASE SetupFor
  BY <1>1 DEF SetupFor, BinInv, FirstEdge
<1>2. CASE Push
  BY <1>2 DEF Push, BinInv, FirstEdge
<1>3. CASE BinTick
  BY <1>3, TickKeeps
<1>4. CASE UNCHANGED binVars
  BY <1>4 DEF binVars, BinInv, FirstEdge
<1>. QED BY <1>1, <1>2, <1>3, <1>4 DEF BinNext

(* ... so that it always holds.                                             *)
LEMMA BinInvAlways == BinSpec => []BinInv
BY BinInvInit, BinInvNext, PTL DEF BinSpec

(* It has the types in it.                                                  *)
LEMMA BinInvTypes == BinInv => BinTypeOK
<1>. SUFFICES ASSUME BinInv PROVE BinTypeOK
  OBVIOUS
<1>1. BinCount \in Nat /\ BinCount > 0 /\ MaxBin \in Nat
  BY PatchAssumption, TimeBinAssumption
<1>2. pc.locked \in BOOLEAN /\ pc.coll \in Seq(0 .. MaxBin) /\ pc.outq \in Seq({})
  <2>1. CASE pc = NewCollect
    BY <2>1 DEF NewCollect, Collector
  <2>2. ASSUME NEW a \in Nat, a <= next, pc = Coll(a, next, <<>>)
        PROVE  pc.locked \in BOOLEAN /\ pc.coll \in Seq(0 .. MaxBin) /\ pc.outq \in Seq({})
    <3>1. pc.locked = TRUE /\ pc.coll = Bins(a, next) /\ pc.outq = <<>>
      BY <2>2 DEF Coll, Collector
    <3>2. next \in Nat /\ next <= MaxBin
      BY <1>1 DEF BinInv
    <3>3. Bins(a, next) \in Seq(a .. next)
      BY <2>2, <3>2, BinsType
    <3>4. a .. next \subseteq 0 .. MaxBin
      BY <3>2, <1>1
    <3>5. Bins(a, next) \in Seq(0 .. MaxBin)
      <4>. DEFINE S == a .. next
                  T == 0 .. MaxBin
      <4>1. S \subseteq T
        BY <3>4
      <4>. HIDE DEF S, T
      <4>2. \A q \in Seq(S) : q \in Seq(T)
        BY <4>1
      <4>. QED BY <3>3, <4>2 DEF S, T
    <3>6. <<>> \in Seq({})
      OBVIOUS
    <3>. QED BY <3>1, <3>5, <3>6
  <2>. QED BY <2>1, <2>2 DEF BinInv, Kept
<1>3. \A i \in DOMAIN patches : patches[i].off_msp \in Nat /\ patches[i].off_lsp \in 0 .. OffMax - 1
  <2>1. patches \in Seq(PatchRows)
    BY DEF BinInv, Kept
  <2>2. \A i \in DOMAIN patches : patches[i] \in PatchRows
    BY <2>1, ElementOfSeq
  <2>. QED BY <2>2 DEF PatchRows
<1>4. ticks \subseteq 0 .. next
  BY DEF BinInv, RowsByTick
<1>. QED BY <1>1, <1>2, <1>3, <1>4 DEF BinInv, BinTypeOK

(* Types of the time bins.                                                  *)
THEOREM BinTypeCorrect == BinSpec => []BinTypeOK
BY BinInvAlways, BinInvTypes, PTL

(* From the first patch edge on, the rows and the collector have every bin  *)
(* that the binner has finished, once and in order.                         *)
THEOREM NoBinLostCorrect == BinSpec => []NoBinLost
<1>1. BinInv => NoBinLost
  <2>. SUFFICES ASSUME BinInv PROVE NoBinLost
    OBVIOUS
  <2>1. BinTypeOK
    BY BinInvTypes
  <2>2. next \in Nat /\ FirstEdge \in Nat
    BY FirstEdgeFacts, TimeBinAssumption DEF BinInv
  <2>3. IF pc.locked THEN AllBins(patches) \o pc.coll = Bins(FirstEdge, next) ELSE next <= FirstEdge
    <3>1. CASE pc = NewCollect /\ next <= FirstEdge
      BY <3>1 DEF NewCollect, Collector
    <3>2. ASSUME NEW a \in Nat, FirstEdge <= a, a <= next,
                 pc = Coll(a, next, <<>>), AllBins(patches) = Bins(FirstEdge, a)
          PROVE  pc.locked /\ AllBins(patches) \o pc.coll = Bins(FirstEdge, next)
      <4>1. pc.locked = TRUE /\ pc.coll = Bins(a, next)
        BY <3>2 DEF Coll, Collector
      <4>2. Bins(FirstEdge, a) \o Bins(a, next) = Bins(FirstEdge, next)
        BY <2>2, <3>2, BinsConcat
      <4>. QED BY <3>2, <4>1, <4>2
    <3>. QED BY <3>1, <3>2 DEF BinInv, Kept
  <2>. QED BY <2>1, <2>3 DEF NoBinLost
<1>. QED BY <1>1, BinInvAlways, PTL

(* A patch has a row of its own bins at its place if and only if no other   *)
(* was finished at the same tick, for any patch size, number of bins and    *)
(* ticks (store_patch; patchcollect.rs:95-104).                             *)
THEOREM FoundUnlessJoinedCorrect == BinSpec => []FoundUnlessJoined
<1>1. BinInv => FoundUnlessJoined
  <2>. SUFFICES ASSUME BinInv, NEW s \in FirstEdge .. next, StartsPatch(s), s + BinCount <= next
                PROVE  Found(s) <=> EndsAlone(s)
    BY DEF FoundUnlessJoined
  <2>1. BinCount \in Nat /\ BinCount > 0 /\ next \in Nat /\ FirstEdge \in Nat /\ s \in Nat
    BY FirstEdgeFacts, PatchAssumption, TimeBinAssumption DEF BinInv
  <2>2. FirstEdge <= s
    BY <2>1
  <2>3. /\ \A i \in DOMAIN patches : WholeRow(patches[i])
        /\ RowsByTick(patches, FirstEdge, next, ticks)
    BY DEF BinInv, Kept
  <2>4. ticks \subseteq Nat
    BY <2>1, <2>3 DEF RowsByTick
  <2>5. \A i \in DOMAIN patches :
          patches[i].bins[1] = (patches[i].off_msp * OffMax + patches[i].off_lsp) * BinCount
    BY <2>3, WholeRowPlace
  <2>6. ASSUME NEW i \in DOMAIN patches, NEW a \in Nat, NEW e \in Nat,
               RowOf(patches, FirstEdge, next, ticks, i, a, e)
        PROVE  /\ a < e /\ patches[i].bins = Bins(a, e)
               /\ Bins(a, e)[1] = a /\ Len(Bins(a, e)) = e - a
    <3>1. a < e /\ a <= e /\ patches[i] = Row(Bins(a, e))
      BY <2>6 DEF RowOf
    <3>2. Row(Bins(a, e)).bins = Bins(a, e)
      BY <3>1, RowType
    <3>3. Bins(a, e)[1] = a
      BY <3>1, SomeBins
    <3>4. Len(Bins(a, e)) = e - a
      BY <3>1, BinsType
    <3>. QED BY <3>1, <3>2, <3>3, <3>4
  <2>7. ASSUME Found(s) PROVE EndsAlone(s)
    <3>1. PICK i \in DOMAIN patches :
            /\ (patches[i].off_msp * OffMax + patches[i].off_lsp) * BinCount = s
            /\ patches[i].bins = Bins(s, s + BinCount)
      BY <2>7 DEF Found
    <3>2. PICK a, e \in Nat : RowOf(patches, FirstEdge, next, ticks, i, a, e)
      BY <2>3 DEF RowsByTick
    <3>3. patches[i].bins = Bins(a, e) /\ Bins(a, e)[1] = a /\ Len(Bins(a, e)) = e - a
      BY <2>6, <3>2
    <3>4. a = s
      BY <3>1, <3>3, <2>5
    <3>5. Len(Bins(s, s + BinCount)) = (s + BinCount) - s
      BY <2>1, BinsType
    <3>6. e - a = (s + BinCount) - s
      BY <3>1, <3>3, <3>5
    <3>7. e = s + BinCount
      BY <2>1, <3>4, <3>6
    <3>8. e + BinCount = s + 2 * BinCount
      BY <2>1, <3>7
    <3>. QED BY <3>2, <3>4, <3>7, <3>8 DEF RowOf, EndsAlone
  <2>8. ASSUME EndsAlone(s) PROVE Found(s)
    <3>1. PICK i \in DOMAIN patches : \E a, e \in Nat :
            RowOf(patches, FirstEdge, next, ticks, i, a, e) /\ a <= s /\ s < e
      BY <2>2, <2>3, <2>1 DEF RowsByTick
    <3>2. PICK a, e \in Nat : RowOf(patches, FirstEdge, next, ticks, i, a, e) /\ a <= s /\ s < e
      BY <3>1
    <3>3. StartsPatch(a) /\ StartsPatch(e) /\ FirstEdge <= a /\ \A m \in ticks : m < a + BinCount \/ e <= m
      BY <3>2 DEF RowOf
    <3>4. s + BinCount <= e
      BY <3>2, <3>3, EdgesApart
    <3>5. a = s
      <4>. SUFFICES ASSUME a < s PROVE FALSE
        BY <3>2
      <4>1. a + BinCount <= s
        BY <3>3, EdgesApart
      <4>2. s # FirstEdge
        BY <3>3, <2>1
      <4>3. PICK m \in ticks : s <= m /\ m < s + BinCount
        BY <2>8, <4>2 DEF EndsAlone
      <4>. QED BY <4>1, <4>3, <3>3, <3>4, <2>1, <2>4
    <3>6. e = s + BinCount
      <4>. SUFFICES ASSUME s + BinCount < e PROVE FALSE
        BY <3>2, <3>4, <2>1
      <4>0. s + BinCount \in Nat
        BY <2>1
      <4>1. StartsPatch(s + BinCount)
        <5>1. PICK k \in Nat : s = k * BinCount
          BY <2>1, EdgeFacts
        <5>2. s + BinCount = (k + 1) * BinCount /\ k + 1 \in Nat
          BY <2>1, <5>1
        <5>. QED BY <4>0, <5>2, EdgeFacts
      <4>2. (s + BinCount) + BinCount <= e
        BY <4>0, <4>1, <3>3, EdgesApart
      <4>3. PICK m \in ticks : s + BinCount <= m /\ m < s + 2 * BinCount
        BY <2>8 DEF EndsAlone
      <4>. QED BY <4>2, <4>3, <3>3, <3>5, <2>1, <2>4
    <3>7. patches[i].bins = Bins(s, s + BinCount) /\ patches[i].bins[1] = s
      BY <2>6, <3>2, <3>5, <3>6
    <3>. QED BY <3>7, <2>5 DEF Found
  <2>. QED BY <2>7, <2>8
<1>. QED BY <1>1, BinInvAlways, PTL

(* The passes of ingest always suffice and no patch is empty: a tick never  *)
(* makes the CaConn shut down.                                              *)
THEOREM TicksSucceed == BinSpec => [][BinTick => failed' = failed]_binVars
<1>1. BinInv /\ [BinNext]_binVars => [BinTick => failed' = failed]_binVars
  BY TickKeeps
<1>. QED BY <1>1, BinInvAlways, PTL DEF BinSpec
=============================================================================
