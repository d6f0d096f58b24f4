---------------------------- MODULE CaProtoProofs ----------------------------
(***************************************************************************)
(* Proofs about the Channel Access protocol stream for every input, every  *)
(* way the socket cuts it, and every size of the buffers.                  *)
(***************************************************************************)
EXTENDS CaProto, WellFoundedInduction, TLAPS

\* A set of natural numbers that is not empty has a least element.
LEMMA LeastNatural ==
  ASSUME NEW S, S \subseteq Nat, S # {}
  PROVE  \E n \in S : \A m \in S : n <= m
<1> DEFINE less == {p \in Nat \X Nat : p[1] < p[2]}
<1>1. IsWellFoundedOn(less, Nat)
  BY NatLessThanWellFounded DEF OpToRel
<1>2. \A m, n \in Nat : <<m, n>> \notin less => n <= m
  OBVIOUS
<1> HIDE DEF less
<1>3. PICK n \in S : \A m \in S : <<m, n>> \notin less
  BY <1>1, WFMin
<1>4. QED
  BY <1>2, <1>3

(***************************************************************************)
(* Where the messages end.                                                 *)
(***************************************************************************)

StreamType == stream \in Seq(Kinds)

\* A message has a head and a length, which a standard one has from its head.
LEMMA LengthType ==
  ASSUME NEW k \in Kinds
  PROVE  /\ Length(k) \in Nat /\ Length(k) > 0
         /\ k.ext \in BOOLEAN /\ k.size \in Nat /\ k.good \in BOOLEAN
         /\ ~k.ext => Length(k) = HeadLen + k.size
<1>1. k.ext \in BOOLEAN /\ k.size \in Nat /\ k.good \in BOOLEAN
  BY ProtoAssumption
<1>2. HeadLen \in Nat \ {0} /\ ExtLen \in Nat
  BY ProtoAssumption
<1>3. CASE k.ext
  BY <1>1, <1>2, <1>3 DEF Length
<1>4. CASE ~k.ext
  BY <1>1, <1>2, <1>4 DEF Length
<1>5. QED
  BY <1>1, <1>3, <1>4

\* e gives the ends of the first n messages.
EndsUpTo(n, e) ==
  /\ e \in [0 .. n -> Nat]
  /\ e[0] = 0
  /\ \A i \in 1 .. n : e[i] = e[i - 1] + Length(stream[i])

\* The ends of the first n messages can be found one after the other.
LEMMA EndsExist ==
  ASSUME StreamType, NEW n \in 0 .. Len(stream)
  PROVE  \E e : EndsUpTo(n, e)
<1> DEFINE Bad == {m \in 0 .. Len(stream) : ~\E e : EndsUpTo(m, e)}
<1>1. Len(stream) \in Nat /\ \A i \in 1 .. Len(stream) : Length(stream[i]) \in Nat
  BY LengthType DEF StreamType
<1> SUFFICES ASSUME Bad # {} PROVE FALSE
  OBVIOUS
<1>2. PICK m \in Bad : \A l \in Bad : m <= l
  <2>1. Bad \subseteq Nat
    BY <1>1
  <2> HIDE DEF Bad
  <2>2. QED
    BY <2>1, LeastNatural
<1>3. CASE m = 0
  <2> DEFINE e == [i \in 0 .. 0 |-> 0]
  <2>1. EndsUpTo(0, e)
    BY DEF EndsUpTo
  <2>2. QED
    BY <1>2, <1>3, <2>1
<1>4. CASE m # 0
  <2>1. m \in Nat /\ m - 1 \in 0 .. Len(stream) /\ m \in 1 .. Len(stream)
    BY <1>1, <1>2, <1>4
  <2>2. m - 1 \notin Bad
    BY <1>2, <2>1
  <2>3. PICK d : EndsUpTo(m - 1, d)
    BY <2>1, <2>2
  <2> DEFINE e == [i \in 0 .. m |-> IF i = m THEN d[m - 1] + Length(stream[m]) ELSE d[i]]
  <2>4. d[m - 1] + Length(stream[m]) \in Nat
    BY <1>1, <2>1, <2>3 DEF EndsUpTo
  <2>5. e \in [0 .. m -> Nat] /\ e[0] = 0
    BY <2>1, <2>3, <2>4 DEF EndsUpTo
  <2>6. \A i \in 1 .. m : e[i] = e[i - 1] + Length(stream[i])
    BY <2>1, <2>3 DEF EndsUpTo
  <2>7. EndsUpTo(m, e)
    BY <2>5, <2>6 DEF EndsUpTo
  <2>8. QED
    BY <1>2, <2>7
<1>5. QED
  BY <1>3, <1>4

\* End is where the messages of the stream end.
LEMMA EndIs ==
  ASSUME StreamType
  PROVE  EndsUpTo(Len(stream), End)
<1> DEFINE n == Len(stream)
           Eq(f) == f = [i \in 0 .. n |-> IF i = 0 THEN 0 ELSE f[i - 1] + Length(stream[i])]
<1>1. n \in Nat /\ \A i \in 1 .. n : Length(stream[i]) \in Nat
  BY LengthType DEF StreamType
<1>2. PICK e : EndsUpTo(n, e)
  BY <1>1, EndsExist
<1>3. e = [i \in 0 .. n |-> e[i]]
  BY <1>2 DEF EndsUpTo
<1>4. \A i \in 0 .. n : e[i] = IF i = 0 THEN 0 ELSE e[i - 1] + Length(stream[i])
  BY <1>1, <1>2 DEF EndsUpTo
<1>5. Eq(e)
  BY <1>3, <1>4
<1>6. Eq(End)
  BY <1>5 DEF End
<1> HIDE DEF Eq
<1> DEFINE Bad == {i \in 0 .. n : End[i] \notin Nat}
<1>7. /\ DOMAIN End = 0 .. n /\ End = [i \in 0 .. n |-> End[i]] /\ End[0] = 0
      /\ \A i \in 1 .. n : End[i] = End[i - 1] + Length(stream[i])
  <2>1. End = [i \in 0 .. n |-> IF i = 0 THEN 0 ELSE End[i - 1] + Length(stream[i])]
    BY <1>6 DEF Eq
  <2>2. DOMAIN End = 0 .. n /\ \A i \in 0 .. n : End[i] = IF i = 0 THEN 0 ELSE End[i - 1] + Length(stream[i])
    BY ONLY <2>1
  <2>3. End = [i \in 0 .. n |-> End[i]]
    BY ONLY <2>1
  <2>4. QED
    BY <1>1, <2>2, <2>3
<1>8. Bad = {}
  <2> SUFFICES ASSUME Bad # {} PROVE FALSE
    OBVIOUS
  <2>1. PICK i \in Bad : \A j \in Bad : i <= j
    <3>1. Bad \subseteq Nat
      BY <1>1
    <3> HIDE DEF Bad
    <3>2. QED
      BY <3>1, LeastNatural
  <2>2. i # 0
    BY <1>7, <2>1
  <2>3. i \in 1 .. n /\ i - 1 \in 0 .. n /\ i - 1 \notin Bad
    BY <1>1, <2>1, <2>2
  <2>4. End[i - 1] \in Nat /\ End[i] = End[i - 1] + Length(stream[i])
    BY <1>7, <2>3
  <2>5. QED
    BY <1>1, <2>1, <2>3, <2>4
<1>9. End \in [0 .. n -> Nat]
  BY <1>7, <1>8
<1>10. QED
  BY <1>7, <1>9 DEF EndsUpTo

\* What the proofs need to know of the ends.
LEMMA EndType ==
  ASSUME StreamType
  PROVE  /\ Len(stream) \in Nat
         /\ \A i \in 0 .. Len(stream) : End[i] \in Nat
         /\ End[0] = 0
         /\ \A i \in 1 .. Len(stream) : End[i] = End[i - 1] + Length(stream[i])
         /\ Total \in Nat
<1>1. Len(stream) \in Nat
  BY DEF StreamType
<1>2. QED
  BY <1>1, EndIs DEF EndsUpTo, Total

\* Each message takes room, so no two end at the same place.
LEMMA EndsIncrease ==
  ASSUME StreamType, NEW i \in 0 .. Len(stream), NEW j \in 0 .. Len(stream), i < j
  PROVE  End[i] < End[j]
<1> DEFINE n == Len(stream)
           Bad == {m \in 0 .. n : i < m /\ ~(End[i] < End[m])}
<1>1. /\ n \in Nat /\ \A l \in 0 .. n : End[l] \in Nat
      /\ \A l \in 1 .. n : End[l] = End[l - 1] + Length(stream[l])
  BY EndType
<1>2. \A l \in 1 .. n : Length(stream[l]) \in Nat /\ Length(stream[l]) > 0
  BY LengthType DEF StreamType
<1> SUFFICES ASSUME Bad # {} PROVE FALSE
  OBVIOUS
<1>3. PICK m \in Bad : \A l \in Bad : m <= l
  <2>1. Bad \subseteq Nat
    BY <1>1
  <2> HIDE DEF Bad
  <2>2. QED
    BY <2>1, LeastNatural
<1>4. m \in 1 .. n /\ m - 1 \in 0 .. n /\ m - 1 \notin Bad
  BY <1>1, <1>3
<1>5. CASE m - 1 = i
  BY <1>1, <1>2, <1>3, <1>4, <1>5
<1>6. CASE m - 1 # i
  <2>1. i < m - 1 /\ End[i] < End[m - 1]
    BY <1>3, <1>4, <1>6
  <2>2. End[m] = End[m - 1] + Length(stream[m]) /\ Length(stream[m]) \in Nat /\ Length(stream[m]) > 0
    BY <1>1, <1>2, <1>4
  <2>3. End[i] \in Nat /\ End[m - 1] \in Nat
    BY <1>1, <1>4
  <2>4. End[i] < End[m]
    BY <2>1, <2>2, <2>3
  <2>5. QED
    BY <1>3, <2>4
<1>7. QED
  BY <1>5, <1>6

(***************************************************************************)
(* The types                                                               *)
(***************************************************************************)

States == {"StdHead", "ExtHead", "Payload", "Done"}

Heads == [ext : BOOLEAN, size : Nat, good : BOOLEAN, of : 0 .. Len(stream)]

InType ==
  /\ StreamType
  /\ arrived \in 0 .. Total /\ taken \in 0 .. arrived /\ pos \in 0 .. taken
  /\ taken - pos <= BufCap
  /\ state \in States /\ head \in Heads
  /\ yielded \in Seq(0 .. Len(stream))

OutType ==
  /\ out \in 0 .. MaxOut /\ outbuf \in 0 .. BufCap /\ room \in 0 .. SockCap
  /\ pushed \in out .. MaxOut

FlagType ==
  /\ task \in {"out", "place", "flush", "read", "ended"}
  /\ eof \in BOOLEAN /\ woken \in BOOLEAN /\ readWaker \in BOOLEAN
  /\ writeWaker \in BOOLEAN /\ blocked \in BOOLEAN /\ failed \in BOOLEAN

TypeInv == InType /\ OutType /\ FlagType

\* What parsing may give.
Results(p, t) == [pos : p .. t, state : States, head : Heads, item : {"none", "msg", "err"}]

\* What need_min is in each state.
LEMMA NeedType ==
  ASSUME NEW st \in States, NEW h \in Heads
  PROVE  /\ NeedMin(st, h) \in Nat
         /\ NeedMin("StdHead", h) = HeadLen /\ NeedMin("ExtHead", h) = ExtLen
         /\ NeedMin("Payload", h) = IF h.ext THEN ExtMark ELSE h.size
<1>1. {HeadLen, ExtLen, ExtMark, DoneNeed} \subseteq Nat /\ h.size \in Nat
  BY ProtoAssumption DEF Heads
<1>2. QED
  BY <1>1 DEF NeedMin, States

\* What can be read as a head at a position is a head.
LEMMA HeadsAtType ==
  ASSUME StreamType, NEW p \in Nat
  PROVE  HeadsAt(p) \subseteq Heads
<1> DEFINE here == {i \in 1 .. Len(stream) : End[i - 1] = p}
           With(k, i) == [ext |-> k.ext, size |-> k.size, good |-> k.good, of |-> i]
<1>1. \A k \in Kinds : \A i \in 0 .. Len(stream) : With(k, i) \in Heads
  BY LengthType DEF Heads
<1>2. Len(stream) \in Nat /\ \A i \in 1 .. Len(stream) : stream[i] \in Kinds
  BY DEF StreamType
<1>3. HeadsAt(p) = IF here # {} THEN {With(stream[i], i) : i \in here} ELSE {With(k, 0) : k \in Kinds}
  BY DEF HeadsAt
<1> HIDE DEF With
<1>4. here \subseteq 1 .. Len(stream) /\ 0 \in 0 .. Len(stream)
  BY <1>2
<1> HIDE DEF here
<1>5. QED
  BY <1>1, <1>2, <1>3, <1>4

\* The outcome of one call of parse_item, by the state it finds.
LEMMA ParseCases ==
  ASSUME NEW p, NEW t, NEW st \in States, NEW h, NEW r \in ParseItem(p, t, st, h)
  PROVE  \/ t - p < NeedMin(st, h) /\ r = At(p, st, h)
         \/ /\ ~(t - p < NeedMin(st, h))
            /\ \/ /\ st = "StdHead"
                  /\ \E g \in HeadsAt(p) :
                       r = IF g.ext THEN At(p + HeadLen, "ExtHead", g)
                           ELSE IF g.size = 0 THEN Msg(p + HeadLen, g, "StdHead")
                           ELSE At(p + HeadLen, "Payload", g)
               \/ /\ st = "ExtHead"
                  /\ r = IF h.size <= MaxStd THEN Msg(p + ExtLen, h, "ExtHead")
                         ELSE At(p + ExtLen, "Payload", h)
               \/ st = "Payload" /\ r = Msg(p + NeedMin(st, h), h, "Payload")
               \/ st = "Done" /\ r = [At(p, st, h) EXCEPT !.item = "err"]
<1>1. CASE t - p < NeedMin(st, h)
  BY <1>1 DEF ParseItem
<1>2. CASE ~(t - p < NeedMin(st, h))
  <2>1. CASE st = "StdHead"
    BY <1>2, <2>1 DEF ParseItem
  <2>2. CASE st = "ExtHead"
    BY <1>2, <2>2 DEF ParseItem
  <2>3. CASE st = "Payload"
    BY <1>2, <2>3 DEF ParseItem
  <2>4. CASE st = "Done"
    BY <1>2, <2>4 DEF ParseItem
  <2>5. QED
    BY <2>1, <2>2, <2>3, <2>4 DEF States
<1>3. QED
  BY <1>1, <1>2

\* The results that parse_item makes are among those of its type.
LEMMA MadeResult ==
  ASSUME NEW p \in Nat, NEW t \in Nat, NEW q \in p .. t, NEW st \in States, NEW h \in Heads
  PROVE  /\ At(q, st, h) \in Results(p, t) /\ At(q, st, h).item = "none"
         /\ Msg(q, h, st) \in Results(p, t) /\ Msg(q, h, st).item # "none"
         /\ [At(q, st, h) EXCEPT !.item = "err"] \in Results(p, t)
BY DEF At, Msg, Results, States

\* What is parsed was there.
LEMMA ParseType ==
  ASSUME StreamType, NEW p \in Nat, NEW t \in Nat, p <= t,
         NEW st \in States, NEW h \in Heads, NEW r \in ParseItem(p, t, st, h)
  PROVE  r \in Results(p, t)
<1>1. NeedMin(st, h) \in Nat
  BY NeedType
<1>2. CASE t - p < NeedMin(st, h)
  <2>1. r = At(p, st, h) /\ p \in p .. t
    BY <1>2, ParseCases
  <2>2. QED
    BY <2>1, MadeResult
<1>3. CASE ~(t - p < NeedMin(st, h))
  <2>1. CASE st = "StdHead"
    <3>1. PICK g \in HeadsAt(p) : r = IF g.ext THEN At(p + HeadLen, "ExtHead", g)
                                      ELSE IF g.size = 0 THEN Msg(p + HeadLen, g, "StdHead")
                                      ELSE At(p + HeadLen, "Payload", g)
      BY <1>3, <2>1, ParseCases
    <3>2. g \in Heads
      BY HeadsAtType
    <3>3. p + HeadLen \in p .. t
      BY <1>3, <2>1, NeedType, ProtoAssumption
    <3>4. QED
      BY <3>1, <3>2, <3>3, MadeResult DEF States
  <2>2. CASE st = "ExtHead"
    <3>1. r = IF h.size <= MaxStd THEN Msg(p + ExtLen, h, "ExtHead") ELSE At(p + ExtLen, "Payload", h)
      BY <1>3, <2>2, ParseCases
    <3>2. p + ExtLen \in p .. t
      BY <1>3, <2>2, NeedType, ProtoAssumption
    <3>3. QED
      BY <3>1, <3>2, MadeResult DEF States
  <2>3. CASE st = "Payload"
    <3>1. r = Msg(p + NeedMin(st, h), h, "Payload")
      BY <1>3, <2>3, ParseCases
    <3>2. p + NeedMin(st, h) \in p .. t
      BY <1>1, <1>3
    <3>3. QED
      BY <3>1, <3>2, MadeResult DEF States
  <2>4. CASE st = "Done"
    BY <1>3, <2>4, ParseCases, MadeResult
  <2>5. QED
    BY <2>1, <2>2, <2>3, <2>4 DEF States
<1>4. QED
  BY <1>2, <1>3

\* The result of parsing r from the input up to t.
LEMMA ParsedInType ==
  ASSUME InType, NEW t \in taken .. arrived, t - pos <= BufCap, NEW r \in Results(pos, t),
         taken' = t, UNCHANGED <<stream, arrived>>,
         pos' = r.pos, state' = r.state, head' = r.head,
         yielded' = IF r.item = "msg" THEN Append(yielded, r.head.of) ELSE yielded
  PROVE  InType'
<1>1. /\ arrived \in Nat /\ taken \in Nat /\ pos \in Nat /\ t \in Nat /\ BufCap \in Nat
      /\ Total \in Nat /\ arrived <= Total /\ taken <= arrived /\ pos <= taken
  BY EndType, ProtoAssumption DEF InType
<1>2. r.pos \in pos .. t /\ r.state \in States /\ r.head \in Heads
  BY DEF Results
<1>3. StreamType' /\ Total' = Total /\ Heads' = Heads
  BY DEF InType, StreamType, Total, End, Heads, Length
<1>4. /\ arrived' \in 0 .. Total' /\ taken' \in 0 .. arrived' /\ pos' \in 0 .. taken'
      /\ taken' - pos' <= BufCap
  BY <1>1, <1>2, <1>3 DEF InType
<1>5. (yielded \in Seq(0 .. Len(stream)))'
  <2>1. r.head.of \in 0 .. Len(stream) /\ yielded \in Seq(0 .. Len(stream))
    BY <1>2 DEF InType, Heads
  <2>2. \A S : \A q \in Seq(S) : \A x \in S : Append(q, x) \in Seq(S)
    OBVIOUS
  <2>3. Append(yielded, r.head.of) \in Seq(0 .. Len(stream))
    BY <2>1, <2>2
  <2>4. yielded' = yielded \/ yielded' = Append(yielded, r.head.of)
    OBVIOUS
  <2>5. QED
    BY <2>1, <2>3, <2>4
<1>6. QED
  BY <1>2, <1>3, <1>4, <1>5 DEF InType

\* More input at the socket leaves the types of the input alone.
LEMMA UnreadInType ==
  ASSUME InType, UNCHANGED <<stream, inVars, yielded>>, arrived' \in arrived .. Total
  PROVE  InType'
<1>1. /\ arrived \in Nat /\ taken \in Nat /\ Total \in Nat /\ taken <= arrived
  BY EndType DEF InType
<1>2. StreamType' /\ Total' = Total /\ Heads' = Heads
  BY DEF InType, StreamType, Total, End, Heads, Length
<1>3. arrived' \in 0 .. Total' /\ taken' \in 0 .. arrived'
  BY <1>1, <1>2 DEF InType, inVars
<1>4. (pos \in 0 .. taken /\ taken - pos <= BufCap /\ state \in States /\ head \in Heads)'
  BY <1>2 DEF InType, inVars
<1>5. (yielded \in Seq(0 .. Len(stream)))'
  BY DEF InType
<1>6. QED
  BY <1>2, <1>3, <1>4, <1>5 DEF InType

\* A turn that reads or has input in the buffer parses once.
Parses(t, r, st, pending) ==
  /\ task = "read"
  /\ t \in taken .. arrived /\ t - pos <= BufCap /\ taken' = t
  /\ r \in ParseItem(pos, t, st, head)
  /\ Result(r, pending)
  /\ UNCHANGED <<peerVars, arrived, outVars, writeWaker, blocked>>

\* Whatever a turn of the input does.
LEMMA InputParses ==
  ASSUME InType, NoRead \/ Read \/ ReadEof \/ ReadPending
  PROVE  \E t \in taken .. arrived : \E r \in Results(pos, t) : \E st \in States :
           /\ \/ /\ st = state
                 /\ \/ Parses(t, r, st, FALSE) /\ UNCHANGED readWaker
                    \/ /\ Parses(t, r, st, TRUE) /\ readWaker'
                       /\ t = taken /\ arrived = taken /\ ~eof /\ ~Buffered
                       /\ r = At(pos, state, head)
              \/ st = "Done" /\ Parses(t, r, st, FALSE) /\ UNCHANGED readWaker
<1>1. /\ arrived \in Nat /\ taken \in Nat /\ pos \in Nat /\ BufCap \in Nat /\ Total \in Nat
      /\ taken <= arrived /\ pos <= taken /\ taken - pos <= BufCap
      /\ StreamType /\ state \in States /\ head \in Heads
  BY EndType, ProtoAssumption DEF InType
<1>2. \A t \in taken .. arrived, st \in States : \A r \in ParseItem(pos, t, st, head) : r \in Results(pos, t)
  BY <1>1, ParseType
<1>3. taken \in taken .. arrived /\ "Done" \in States
  BY <1>1 DEF States
<1>4. CASE NoRead
  <2>1. PICK r \in ParseItem(pos, taken, state, head) : Result(r, FALSE)
    BY <1>4 DEF NoRead
  <2>2. Parses(taken, r, state, FALSE) /\ UNCHANGED readWaker
    BY <1>1, <1>3, <1>4, <2>1 DEF NoRead, Parses
  <2>3. QED
    BY <1>1, <1>2, <1>3, <2>1, <2>2
<1>5. CASE Read
  <2>1. PICK t \in taken + 1 .. arrived :
          t - pos <= BufCap /\ taken' = t /\ \E r \in ParseItem(pos, t, state, head) : Result(r, FALSE)
    BY <1>5 DEF Read
  <2>2. PICK r \in ParseItem(pos, t, state, head) : Result(r, FALSE)
    BY <2>1
  <2>3. t \in taken .. arrived
    BY <1>1
  <2>4. Parses(t, r, state, FALSE) /\ UNCHANGED readWaker
    BY <1>5, <2>1, <2>2, <2>3 DEF Read, Parses
  <2>5. QED
    BY <1>1, <1>2, <2>2, <2>3, <2>4
<1>6. CASE ReadEof
  <2>1. PICK r \in ParseItem(pos, taken, "Done", head) : Result(r, FALSE)
    BY <1>6 DEF ReadEof
  <2>2. Parses(taken, r, "Done", FALSE) /\ UNCHANGED readWaker
    BY <1>1, <1>3, <1>6, <2>1 DEF ReadEof, Parses
  <2>3. QED
    BY <1>1, <1>2, <1>3, <2>1, <2>2
<1>7. CASE ReadPending
  <2> DEFINE r == At(pos, state, head)
  <2>1. NeedMin(state, head) \in Nat /\ ~Buffered
    BY <1>1, <1>7, NeedType DEF ReadPending
  <2>2. r \in ParseItem(pos, taken, state, head) /\ Result(r, TRUE)
    <3>1. taken - pos < NeedMin(state, head)
      BY <1>1, <2>1 DEF Buffered
    <3>2. ParseItem(pos, taken, state, head) = {At(pos, state, head)}
      BY <3>1 DEF ParseItem
    <3>3. QED
      BY <1>7, <3>2 DEF ReadPending
  <2> HIDE DEF r
  <2>3. Parses(taken, r, state, TRUE)
    BY <1>1, <1>3, <1>7, <2>2 DEF ReadPending, Parses
  <2>4. readWaker' /\ arrived = taken /\ ~eof /\ ~Buffered
    BY <1>7 DEF ReadPending
  <2>5. r \in Results(pos, taken)
    BY <1>1, <1>2, <1>3, <2>2
  <2>6. QED
    BY <1>1, <1>3, <2>3, <2>4, <2>5 DEF r
<1>8. QED
  BY <1>4, <1>5, <1>6, <1>7

\* The wakers and the end of the input stay flags when the input is parsed.
LEMMA InputFlags ==
  ASSUME FlagType, NEW r, NEW t, NEW st, NEW pending, Parses(t, r, st, pending),
         readWaker' \in BOOLEAN
  PROVE  FlagType'
<1>1. task' \in {"out", "place", "flush", "read", "ended"}
  BY DEF Parses, Result
<1>2. (eof \in BOOLEAN /\ writeWaker \in BOOLEAN /\ blocked \in BOOLEAN)'
  BY DEF FlagType, Parses, peerVars
<1>3. woken' \in BOOLEAN /\ failed' \in BOOLEAN
  BY DEF FlagType, Parses, Result
<1>4. QED
  BY <1>1, <1>2, <1>3 DEF FlagType

\* Some number of messages is the most that fits.
LEMMA FittingIs ==
  ASSUME OutType
  PROVE  /\ Fitting \in 0 .. out
         /\ outbuf + Fitting * OutLen \in 0 .. BufCap
         /\ Fitting < out => outbuf + (Fitting + 1) * OutLen > BufCap
<1> DEFINE Full == {n \in 0 .. out : n < out => outbuf + (n + 1) * OutLen > BufCap}
<1>1. out \in Nat /\ outbuf \in Nat /\ OutLen \in Nat /\ BufCap \in Nat /\ outbuf <= BufCap
  BY ProtoAssumption DEF OutType
<1>2. PICK n \in Full : \A m \in Full : n <= m
  <2>1. Full \subseteq Nat /\ out \in Full
    BY <1>1
  <2> HIDE DEF Full
  <2>2. QED
    BY <2>1, LeastNatural
<1>3. outbuf + n * OutLen <= BufCap
  <2>1. CASE n = 0
    BY <1>1, <2>1
  <2>2. CASE n # 0
    <3>1. n - 1 \in 0 .. out /\ n - 1 \notin Full
      BY <1>1, <1>2, <2>2
    <3>2. ~(outbuf + ((n - 1) + 1) * OutLen > BufCap)
      BY <3>1
    <3>3. (n - 1) + 1 = n /\ n * OutLen \in Nat
      BY <1>1, <1>2
    <3>4. QED
      BY <1>1, <3>2, <3>3
  <2>3. QED
    BY <2>1, <2>2
<1>4. \E m \in 0 .. out : outbuf + m * OutLen <= BufCap /\ (m < out => outbuf + (m + 1) * OutLen > BufCap)
  BY <1>2, <1>3
<1>5. /\ Fitting \in 0 .. out
      /\ outbuf + Fitting * OutLen <= BufCap
      /\ Fitting < out => outbuf + (Fitting + 1) * OutLen > BufCap
  BY <1>4 DEF Fitting
<1>6. Fitting * OutLen \in Nat
  BY <1>1, <1>5
<1>7. QED
  BY <1>1, <1>5, <1>6

\* Placing and flushing messages keeps the output's positions within its buffer.
LEMMA OutputTypes ==
  ASSUME OutType, FlagType, Place \/ Flush \/ FlushPending \/ FlushDone
  PROVE  OutType' /\ FlagType'
<1>1. /\ out \in Nat /\ outbuf \in Nat /\ room \in Nat /\ pushed \in Nat
      /\ {MaxOut, BufCap, SockCap} \subseteq Nat
  BY ProtoAssumption DEF OutType
<1>2. CASE Place
  <2>1. /\ outbuf' = outbuf + Fitting * OutLen /\ out' = out - Fitting /\ task' = "flush"
        /\ UNCHANGED <<room, pushed, wakeVars, blocked, eof, failed>>
    BY <1>2 DEF Place, peerVars, resVars
  <2>2. OutType'
    BY <1>1, <2>1, FittingIs DEF OutType
  <2>3. QED
    BY <2>1, <2>2 DEF FlagType, wakeVars
<1>3. CASE Flush
  <2>1. PICK n \in 1 .. outbuf : n <= room /\ outbuf' = outbuf - n /\ room' = room - n
    BY <1>3 DEF Flush
  <2>2. UNCHANGED <<out, pushed, task, wakeVars, blocked, eof, failed>>
    BY <1>3 DEF Flush, peerVars, resVars
  <2>3. OutType'
    BY <1>1, <2>1, <2>2 DEF OutType
  <2>4. QED
    BY <2>2, <2>3 DEF FlagType, wakeVars
<1>4. CASE FlushPending
  BY <1>4 DEF FlushPending, OutType, FlagType, peerVars, resVars, outVars
<1>5. CASE FlushDone
  BY <1>5 DEF FlushDone, OutType, FlagType, peerVars, resVars, outVars, wakeVars
<1>6. QED
  BY <1>2, <1>3, <1>4, <1>5

\* Every step keeps the types and the bounds of the buffers.
LEMMA TypeStep ==
  ASSUME TypeInv, [Next]_vars
  PROVE  TypeInv'
<1>1. InType /\ OutType /\ FlagType
  BY DEF TypeInv
<1>2. /\ arrived \in Nat /\ Total \in Nat /\ arrived <= Total
      /\ {MaxOut, BufCap, SockCap} \subseteq Nat
  BY <1>1, EndType, ProtoAssumption DEF InType
<1>3. arrived \in arrived .. Total
  BY <1>2
<1>4. CASE Arrive
  <2>1. PICK n \in arrived + 1 .. Total : arrived' = n
    BY <1>4 DEF Arrive
  <2>2. arrived' \in arrived .. Total
    BY <1>2, <2>1
  <2>3. UNCHANGED <<stream, inVars, yielded>>
    BY <1>4 DEF Arrive, peerVars, resVars
  <2>4. InType'
    BY <1>1, <2>2, <2>3, UnreadInType
  <2>5. OutType'
    BY <1>1, <1>4 DEF Arrive, OutType, outVars
  <2>6. FlagType'
    BY <1>1, <1>4 DEF Arrive, FlagType, peerVars, resVars
  <2>7. QED
    BY <2>4, <2>5, <2>6 DEF TypeInv
<1>5. CASE PeerCloses \/ PeerReads \/ PushOut \/ Tick \/ Poll \/ UNCHANGED vars
  <2>1. UNCHANGED <<stream, inVars, yielded, arrived>>
    BY <1>5 DEF PeerCloses, PeerReads, PushOut, Tick, Poll, vars, peerVars, resVars
  <2>2. InType'
    BY <1>1, <1>3, <2>1, UnreadInType
  <2>3. OutType'
    <3>1. CASE PushOut
      BY <1>1, <1>2, <3>1 DEF PushOut, OutType
    <3>2. CASE PeerReads
      BY <1>1, <1>2, <3>2 DEF PeerReads, OutType
    <3>3. CASE PeerCloses \/ Tick \/ Poll \/ UNCHANGED vars
      BY <1>1, <3>3 DEF PeerCloses, Tick, Poll, OutType, outVars, vars
    <3>4. QED
      BY <1>5, <3>1, <3>2, <3>3
  <2>4. FlagType'
    <3>1. CASE PeerCloses \/ PeerReads
      BY <1>1, <3>1 DEF PeerCloses, PeerReads, FlagType, peerVars, resVars
    <3>2. CASE PushOut \/ Tick \/ Poll
      BY <1>1, <3>2 DEF PushOut, Tick, Poll, FlagType, peerVars, resVars
    <3>3. CASE UNCHANGED vars
      BY <1>1, <3>3 DEF FlagType, vars, peerVars, resVars, wakeVars
    <3>4. QED
      BY <1>5, <3>1, <3>2, <3>3
  <2>5. QED
    BY <2>2, <2>3, <2>4 DEF TypeInv
<1>6. CASE Place \/ Flush \/ FlushPending \/ FlushDone
  <2>1. UNCHANGED <<stream, inVars, yielded, arrived>>
    BY <1>6 DEF Place, Flush, FlushPending, FlushDone, peerVars, resVars
  <2>2. QED
    BY <1>1, <1>3, <1>6, <2>1, UnreadInType, OutputTypes DEF TypeInv
<1>7. CASE NoRead \/ Read \/ ReadEof \/ ReadPending
  <2>1. PICK t \in taken .. arrived : \E r \in Results(pos, t) : \E st \in States :
          \E pending \in BOOLEAN : Parses(t, r, st, pending) /\ readWaker' \in BOOLEAN
    BY <1>1, <1>7, InputParses DEF FlagType
  <2>2. PICK r \in Results(pos, t) : \E st \in States :
          \E pending \in BOOLEAN : Parses(t, r, st, pending) /\ readWaker' \in BOOLEAN
    BY <2>1
  <2>3. PICK st \in States, pending \in BOOLEAN : Parses(t, r, st, pending) /\ readWaker' \in BOOLEAN
    BY <2>2
  <2>4. InType'
    BY <1>1, <2>3, ParsedInType DEF Parses, Result, peerVars
  <2>5. OutType'
    BY <1>1, <2>3 DEF Parses, OutType, outVars
  <2>6. FlagType'
    BY <1>1, <2>3, InputFlags
  <2>7. QED
    BY <2>4, <2>5, <2>6 DEF TypeInv
<1>8. CASE IoFails
  <2>1. /\ UNCHANGED <<stream, inVars, yielded, arrived, outVars, eof, wakeVars, blocked>>
        /\ task' = "ended" /\ failed' = TRUE
    BY <1>8 DEF IoFails, peerVars
  <2>2. InType'
    BY <1>1, <1>3, <2>1, UnreadInType
  <2>3. OutType'
    BY <1>1, <2>1 DEF OutType, outVars
  <2>4. FlagType'
    BY <1>1, <2>1 DEF FlagType, wakeVars
  <2>5. QED
    BY <2>2, <2>3, <2>4 DEF TypeInv
<1>9. QED
  BY <1>4, <1>5, <1>6, <1>7, <1>8 DEF Next, ProtoStep

\* They hold at first, when nothing has come.
LEMMA TypeInit == Init => TypeInv
<1> SUFFICES ASSUME Init PROVE TypeInv
  OBVIOUS
<1>1. StreamType
  <2>1. PICK n \in 0 .. MaxMsgs : stream \in [1 .. n -> Kinds]
    BY DEF Init
  <2>2. n \in Nat /\ \A S : \A f \in [1 .. n -> S] : f \in Seq(S)
    <3>1. n \in Nat
      BY ProtoAssumption
    <3>2. QED
      BY ONLY <3>1
  <2>3. QED
    BY <2>1, <2>2 DEF StreamType
<1>2. Total \in Nat /\ Len(stream) \in Nat
  BY <1>1, EndType
<1>3. {MaxOut, BufCap, SockCap} \subseteq Nat
  BY ProtoAssumption
<1>4. NoHead \in Heads
  BY <1>2 DEF NoHead, Heads
<1>5. InType
  BY <1>1, <1>2, <1>3, <1>4 DEF Init, InType, States
<1>6. OutType
  BY <1>3 DEF Init, OutType
<1>7. FlagType
  BY DEF Init, FlagType
<1>8. QED
  BY <1>5, <1>6, <1>7 DEF TypeInv

\* So they hold always.
LEMMA TypeInvCorrect == Spec => []TypeInv
BY TypeInit, TypeStep, PTL DEF Spec

(* No more is read than has come, no more is parsed than was read, and      *)
(* neither buffer gets more than it has room for, for any input and however *)
(* it is cut.                                                               *)
THEOREM TypeCorrect == Spec => []TypeOK
<1>1. TypeInv => TypeOK
  BY DEF TypeInv, InType, OutType, FlagType, TypeOK, States
<1>2. QED
  BY <1>1, TypeInvCorrect, PTL

(***************************************************************************)
(* The wakers                                                              *)
(***************************************************************************)

\* A turn that goes on with its input although the socket took no more has left
\* a waker there, or was woken already.
SleepInv ==
  /\ task = "read" /\ blocked => woken \/ (writeWaker /\ room = 0)
  /\ SleepsOnlyWaiting

\* A poll that finds no input left has its waker at the socket.
LEMMA SleepParsed ==
  ASSUME SleepInv, NEW r, NEW t, NEW st, Parses(t, r, st, TRUE), readWaker',
         t = taken, arrived = taken, ~eof, ~Buffered, r = At(pos, state, head)
  PROVE  SleepInv'
<1>1. /\ UNCHANGED <<pos, state, head, taken, arrived, eof, room, writeWaker>> /\ readWaker'
      /\ task' = "out"
  BY DEF Parses, Result, At, peerVars, outVars
<1>2. ~Buffered'
  BY <1>1 DEF Buffered, NeedMin
<1>3. QED
  BY <1>1, <1>2 DEF SleepInv, SleepsOnlyWaiting

\* A poll that has found something takes another turn and does not sleep.
LEMMA SleepTurn ==
  ASSUME SleepInv, NEW r, NEW t, NEW st, Parses(t, r, st, FALSE)
  PROVE  SleepInv'
<1>1. UNCHANGED <<room, writeWaker, blocked>> /\ task = "read"
  BY DEF Parses, outVars
<1>2. /\ r.item = "msg" => woken'
      /\ r.item # "msg" /\ woken => woken'
  BY DEF Parses, Result
<1>3. r.item # "msg" /\ task' = "out" => blocked
  <2>1. task' = CASE r.item = "err" -> "ended"
                  [] r.item = "msg" \/ (r.item = "none" /\ (blocked \/ FALSE)) -> "out"
                  [] OTHER -> IF r.state = "Done" THEN "ended" ELSE "place"
    BY DEF Parses, Result
  <2>2. ASSUME r.item # "msg", r.item # "err", ~blocked PROVE task' # "out"
    BY ONLY <2>1, <2>2
  <2>3. r.item = "err" => task' # "out"
    BY ONLY <2>1
  <2>4. QED
    BY <2>2, <2>3
<1>4. CASE r.item = "msg"
  BY <1>2, <1>4, <1>1 DEF SleepInv, SleepsOnlyWaiting
<1>5. CASE r.item # "msg" /\ task' = "out"
  <2>1. blocked /\ (woken => woken')
    BY <1>2, <1>3, <1>5
  <2>2. QED
    BY <1>1, <1>5, <2>1 DEF SleepInv, SleepsOnlyWaiting
<1>6. CASE r.item # "msg" /\ task' # "out"
  <2>1. task' # "read"
    BY DEF Parses, Result
  <2>2. QED
    BY <1>6, <2>1 DEF SleepInv, SleepsOnlyWaiting
<1>7. QED
  BY <1>4, <1>5, <1>6

\* No step lets the task sleep with nobody to wake it.
LEMMA SleepStep ==
  ASSUME TypeInv, SleepInv, [Next]_vars
  PROVE  SleepInv'
<1> USE DEF SleepInv, SleepsOnlyWaiting
<1>1. CASE Arrive \/ PeerCloses
  <2>1. UNCHANGED <<task, blocked, room, writeWaker>> /\ woken' = (woken \/ readWaker)
    BY <1>1 DEF Arrive, PeerCloses, outVars
  <2>2. QED
    BY <2>1
<1>2. CASE PeerReads
  <2>1. /\ UNCHANGED <<task, blocked, readWaker, arrived, taken, eof, pos, state, head>>
        /\ woken' = (woken \/ writeWaker)
    BY <1>2 DEF PeerReads, inVars, peerVars
  <2>2. Buffered' = Buffered
    BY <2>1 DEF Buffered, NeedMin
  <2>3. QED
    BY <2>1, <2>2
<1>3. CASE PushOut \/ Tick
  <2>1. woken' /\ task' = "out"
    BY <1>3 DEF PushOut, Tick
  <2>2. QED
    BY <2>1
<1>4. CASE Poll \/ Place \/ Flush
  <2>1. task' \in {"ended", "place", "flush"}
    BY <1>4 DEF Poll, Place, Flush
  <2>2. QED
    BY <2>1
<1>5. CASE FlushPending
  <2>1. task' = "read" /\ writeWaker' /\ room' = 0
    BY <1>5 DEF FlushPending, outVars
  <2>2. QED
    BY <2>1
<1>6. CASE FlushDone
  <2>1. ~blocked' /\ task' \in {"place", "read"}
    BY <1>6 DEF FlushDone
  <2>2. QED
    BY <2>1
<1>7. CASE NoRead \/ Read \/ ReadEof \/ ReadPending
  BY <1>7, InputParses, SleepParsed, SleepTurn DEF TypeInv
<1>8. CASE UNCHANGED vars
  <2>1. UNCHANGED <<task, blocked, woken, writeWaker, room, readWaker, arrived, taken, eof, pos, state, head>>
    BY <1>8 DEF vars, wakeVars, outVars, inVars, peerVars
  <2>2. Buffered' = Buffered
    BY <2>1 DEF Buffered, NeedMin
  <2>3. QED
    BY <2>1, <2>2
<1>9. CASE IoFails
  <2>1. task' = "ended"
    BY <1>9 DEF IoFails
  <2>2. QED
    BY <2>1
<1>10. QED
  BY <1>1, <1>2, <1>3, <1>4, <1>5, <1>6, <1>7, <1>8, <1>9 DEF Next, ProtoStep

(* A task that sleeps waits for the socket, in one direction or the other,  *)
(* and has a waker there; unless the output holds it up no complete message *)
(* is left in the buffer.                                                   *)
THEOREM SleepsCorrect == Spec => []SleepsOnlyWaiting
<1>1. Init => SleepInv
  BY DEF Init, SleepInv, SleepsOnlyWaiting
<1>2. TypeInv /\ SleepInv /\ [Next]_vars => SleepInv'
  BY SleepStep
<1>3. SleepInv => SleepsOnlyWaiting
  BY DEF SleepInv
<1>4. QED
  BY <1>1, <1>2, <1>3, TypeInvCorrect, PTL DEF Spec

(***************************************************************************)
(* The framing                                                             *)
(***************************************************************************)

\* The first n messages and the one after them have a standard head.
Clean(n) == \A i \in 1 .. Len(stream) : i <= n + 1 => ~stream[i].ext

\* Parsing, n messages done, is at the next one or after its head.
AtPlace(n, p, st, h) ==
  \/ st = "StdHead" /\ p = End[n]
  \/ /\ st = "Payload" /\ n < Len(stream)
     /\ h.of = n + 1 /\ ~h.ext /\ h.size = stream[n + 1].size
     /\ p = End[n] + HeadLen
  \/ st = "Done"

FramingInv ==
  /\ Clean(Len(yielded)) =>
       /\ Len(yielded) <= Len(stream)
       /\ yielded = [i \in 1 .. Len(yielded) |-> i]
       /\ ~failed => AtPlace(Len(yielded), pos, state, head)
  /\ failed => task = "ended"
  /\ state = "Done" => task \in {"out", "ended"}

\* Where n messages end the head of the next one is found.
LEMMA HeadFound ==
  ASSUME StreamType, NEW n \in 0 .. Len(stream), Clean(n), NEW t \in Nat, t <= Total,
         ~(t - End[n] < HeadLen), NEW g \in HeadsAt(End[n])
  PROVE  /\ n < Len(stream) /\ n + 1 \in 1 .. Len(stream)
         /\ g.of = n + 1 /\ ~g.ext /\ g.size = stream[n + 1].size
         /\ End[n + 1] = End[n] + HeadLen + stream[n + 1].size
<1> DEFINE here == {i \in 1 .. Len(stream) : End[i - 1] = End[n]}
           With(k, i) == [ext |-> k.ext, size |-> k.size, good |-> k.good, of |-> i]
<1>1. /\ Len(stream) \in Nat /\ HeadLen \in Nat \ {0}
      /\ \A i \in 0 .. Len(stream) : End[i] \in Nat
      /\ \A i \in 1 .. Len(stream) : End[i] = End[i - 1] + Length(stream[i])
      /\ Total = End[Len(stream)]
  BY EndType, ProtoAssumption DEF Total
<1>2. n # Len(stream)
  BY <1>1
<1>3. n < Len(stream) /\ n + 1 \in 1 .. Len(stream) /\ (n + 1) - 1 = n
  BY <1>1, <1>2
<1>4. \A i \in here : i = n + 1
  <2> SUFFICES ASSUME NEW i \in 1 .. Len(stream), End[i - 1] = End[n] PROVE i = n + 1
    OBVIOUS
  <2>1. i - 1 \in 0 .. Len(stream) /\ n \in 0 .. Len(stream) /\ End[i - 1] \in Nat /\ End[n] \in Nat
    BY <1>1
  <2>2. ~(i - 1 < n) /\ ~(n < i - 1)
    <3>1. i - 1 < n => End[i - 1] < End[n]
      BY <2>1, EndsIncrease
    <3>2. n < i - 1 => End[n] < End[i - 1]
      BY <2>1, EndsIncrease
    <3>3. QED
      BY <2>1, <3>1, <3>2
  <2>3. QED
    BY <1>1, <2>2
<1>5. n + 1 \in here
  BY <1>3
<1>6. HeadsAt(End[n]) = {With(stream[i], i) : i \in here}
  BY <1>5 DEF HeadsAt
<1>7. g = With(stream[n + 1], n + 1)
  BY <1>4, <1>6
<1>8. g.of = n + 1 /\ g.ext = stream[n + 1].ext /\ g.size = stream[n + 1].size
  BY <1>7
<1>9. stream[n + 1] \in Kinds /\ ~stream[n + 1].ext
  BY <1>3 DEF StreamType, Clean
<1>10. Length(stream[n + 1]) = HeadLen + stream[n + 1].size
  BY <1>9, LengthType
<1>11. End[n + 1] = End[n] + Length(stream[n + 1])
  BY <1>1, <1>3
<1>12. stream[n + 1].size \in Nat /\ End[n] \in Nat
  BY <1>1, <1>9, LengthType
<1>13. QED
  BY <1>1, <1>3, <1>8, <1>9, <1>10, <1>11, <1>12

\* At the place of a message, parse_item yields nothing, an error, or this message,
\* whole, and then stands where it ends.
LEMMA ParseFrames ==
  ASSUME StreamType, NEW n \in 0 .. Len(stream), Clean(n),
         NEW p \in Nat, NEW t \in Nat, p <= t, t <= Total,
         NEW st \in States, NEW h \in Heads, AtPlace(n, p, st, h),
         NEW r \in ParseItem(p, t, st, h)
  PROVE  \/ r.item = "none" /\ AtPlace(n, r.pos, r.state, r.head)
         \/ r.item = "err"
         \/ /\ r.item = "msg" /\ r.head.of = n + 1 /\ n < Len(stream)
            /\ r.state = "StdHead" /\ r.pos = End[n + 1]
<1>1. CASE t - p < NeedMin(st, h)
  <2>1. r = At(p, st, h)
    BY <1>1, NeedType, ParseCases
  <2>2. QED
    BY <2>1 DEF At
<1>2. CASE ~(t - p < NeedMin(st, h)) /\ st = "StdHead"
  <2>1. p = End[n] /\ ~(t - End[n] < HeadLen)
    BY <1>2, NeedType DEF AtPlace
  <2>2. PICK g \in HeadsAt(p) : r = IF g.ext THEN At(p + HeadLen, "ExtHead", g)
                                    ELSE IF g.size = 0 THEN Msg(p + HeadLen, g, "StdHead")
                                    ELSE At(p + HeadLen, "Payload", g)
    BY <1>2, ParseCases
  <2>3. /\ n < Len(stream) /\ g.of = n + 1 /\ ~g.ext /\ g.size = stream[n + 1].size
        /\ End[n + 1] = End[n] + HeadLen + stream[n + 1].size
    BY <2>1, <2>2, HeadFound
  <2>4. CASE g.size = 0
    <3>1. r = Msg(p + HeadLen, g, "StdHead")
      BY <2>2, <2>3, <2>4
    <3>2. End[n + 1] = p + HeadLen
      BY <2>1, <2>3, <2>4, ProtoAssumption
    <3>3. QED
      BY <2>3, <3>1, <3>2 DEF Msg
  <2>5. CASE g.size # 0
    <3>1. r = At(p + HeadLen, "Payload", g)
      BY <2>2, <2>3, <2>5
    <3>2. QED
      BY <2>1, <2>3, <3>1 DEF At, AtPlace
  <2>6. QED
    BY <2>4, <2>5
<1>3. CASE ~(t - p < NeedMin(st, h)) /\ st = "Payload"
  <2>1. /\ n < Len(stream) /\ h.of = n + 1 /\ ~h.ext /\ h.size = stream[n + 1].size
        /\ p = End[n] + HeadLen
    BY <1>3 DEF AtPlace
  <2>2. r = Msg(p + h.size, h, "Payload")
    BY <1>3, <2>1, NeedType, ParseCases
  <2>3. p + h.size = End[n + 1]
    <3>1. /\ n + 1 \in 1 .. Len(stream) /\ (n + 1) - 1 = n
          /\ End[n] \in Nat /\ HeadLen \in Nat
      BY <2>1, EndType, ProtoAssumption
    <3>2. stream[n + 1] \in Kinds /\ ~stream[n + 1].ext
      BY <2>1, <3>1 DEF StreamType, Clean
    <3>3. Length(stream[n + 1]) = HeadLen + stream[n + 1].size /\ stream[n + 1].size \in Nat
      BY <3>2, LengthType
    <3>4. End[n + 1] = End[n] + Length(stream[n + 1])
      BY <3>1, EndType
    <3>5. QED
      BY <2>1, <3>1, <3>3, <3>4
  <2>4. QED
    BY <2>1, <2>2, <2>3 DEF Msg
<1>4. CASE ~(t - p < NeedMin(st, h)) /\ st = "Done"
  <2>1. r = [At(p, st, h) EXCEPT !.item = "err"]
    BY <1>4, ParseCases
  <2>2. QED
    BY <2>1 DEF At
<1>5. st # "ExtHead"
  BY DEF AtPlace
<1>6. QED
  BY <1>1, <1>2, <1>3, <1>4, <1>5 DEF States

\* A step that parses nothing keeps the framing.
LEMMA SameFraming ==
  ASSUME FramingInv, UNCHANGED <<stream, yielded, pos, state, head>>,
         \/ failed' /\ task' = "ended"
         \/ failed' = failed /\ (task' # task => ~failed /\ (state = "Done" => task' \in {"out", "ended"}))
  PROVE  FramingInv'
<1>1. End' = End /\ \A n : Clean(n)' = Clean(n)
  BY DEF End, Length, Clean
<1>2. AtPlace(Len(yielded), pos, state, head)' = AtPlace(Len(yielded), pos, state, head)
  BY <1>1 DEF AtPlace
<1>3. Clean(Len(yielded))' = Clean(Len(yielded))
  BY DEF Clean
<1>4. QED
  BY <1>2, <1>3 DEF FramingInv

\* Neither does a step that parses break it: the message yielded is the next one.
LEMMA FramingParsed ==
  ASSUME TypeInv, FramingInv, NEW t \in taken .. arrived, NEW r \in Results(pos, t),
         NEW st \in {state, "Done"}, NEW pending \in BOOLEAN, Parses(t, r, st, pending)
  PROVE  FramingInv'
<1> DEFINE n == Len(yielded)
           m == Len(yielded')
<1>1. /\ task = "read" /\ r \in ParseItem(pos, t, st, head) /\ stream' = stream
      /\ pos' = r.pos /\ state' = r.state /\ head' = r.head
      /\ yielded' = IF r.item = "msg" THEN Append(yielded, r.head.of) ELSE yielded
      /\ failed' = (failed \/ r.item = "err")
  BY DEF Parses, Result, peerVars
<1>2. /\ StreamType /\ pos \in Nat /\ t \in Nat /\ pos <= t /\ t <= Total
      /\ head \in Heads /\ st \in States /\ yielded \in Seq(0 .. Len(stream)) /\ Len(stream) \in Nat
  BY EndType DEF TypeInv, InType, States
<1>3. End' = End /\ \A i : Clean(i)' = Clean(i)
  BY <1>1 DEF End, Length, Clean
<1>4. ~failed /\ state # "Done"
  BY <1>1 DEF FramingInv
<1>5. (failed => task = "ended")'
  <2>1. CASE r.item = "err"
    BY <2>1 DEF Parses, Result
  <2>2. CASE r.item # "err"
    BY <1>1, <1>4, <2>2
  <2>3. QED
    BY <2>1, <2>2
<1>6. (state = "Done" => task \in {"out", "ended"})'
  BY <1>1 DEF Parses, Result
<1>7. n \in Nat /\ m \in {n, n + 1} /\ (m = n + 1 => r.item = "msg") /\ (r.item = "msg" => m = n + 1)
  BY <1>1, <1>2
<1>8. ASSUME Clean(m)
      PROVE  /\ m <= Len(stream) /\ yielded' = [i \in 1 .. m |-> i]
             /\ ~failed' => AtPlace(Len(yielded), pos, state, head)'
  <2>1. Clean(n)
    BY <1>2, <1>7, <1>8 DEF Clean
  <2>2. /\ n \in 0 .. Len(stream) /\ yielded = [i \in 1 .. n |-> i]
        /\ AtPlace(n, pos, st, head)
    BY <1>2, <1>4, <1>7, <2>1 DEF FramingInv, AtPlace
  <2>3. \/ r.item = "none" /\ AtPlace(n, r.pos, r.state, r.head)
        \/ r.item = "err"
        \/ /\ r.item = "msg" /\ r.head.of = n + 1 /\ n < Len(stream)
           /\ r.state = "StdHead" /\ r.pos = End[n + 1]
    BY <1>1, <1>2, <2>1, <2>2, ParseFrames
  <2>4. AtPlace(Len(yielded), pos, state, head)' <=> AtPlace(m, r.pos, r.state, r.head)
    BY <1>1, <1>3 DEF AtPlace
  <2>5. CASE r.item = "none"
    <3>1. yielded' = yielded /\ m = n
      BY <1>1, <2>5
    <3>2. AtPlace(m, r.pos, r.state, r.head)
      BY <2>3, <2>5, <3>1
    <3>3. QED
      BY <2>2, <2>4, <3>1, <3>2
  <2>6. CASE r.item = "err"
    <3>1. yielded' = yielded /\ m = n /\ failed'
      BY <1>1, <2>6
    <3>2. QED
      BY <2>2, <3>1
  <2>7. CASE r.item = "msg"
    <3>1. m = n + 1 /\ r.head.of = n + 1 /\ n < Len(stream) /\ yielded' = Append(yielded, n + 1)
      BY <1>1, <1>7, <2>3, <2>7
    <3>2. yielded' = [i \in 1 .. n + 1 |-> i]
      BY <1>7, <2>2, <3>1
    <3>3. AtPlace(n + 1, r.pos, r.state, r.head)
      BY <2>3, <2>7 DEF AtPlace
    <3>4. QED
      BY <1>2, <1>7, <2>4, <3>1, <3>2, <3>3
  <2>8. QED
    BY <2>3, <2>5, <2>6, <2>7
<1>9. Clean(Len(yielded))' <=> Clean(m)
  BY <1>1 DEF Clean
<1>10. QED
  BY <1>1, <1>5, <1>6, <1>8, <1>9 DEF FramingInv

\* So every step keeps the framing.
LEMMA FramingStep ==
  ASSUME TypeInv, FramingInv, [Next]_vars
  PROVE  FramingInv'
<1>1. CASE Arrive \/ PeerCloses \/ PeerReads \/ PushOut \/ Tick \/ UNCHANGED vars
  <2>1. UNCHANGED <<stream, yielded, pos, state, head, failed, task>>
    BY <1>1 DEF Arrive, PeerCloses, PeerReads, PushOut, Tick, vars, peerVars, inVars, resVars
  <2>2. QED
    BY <2>1, SameFraming
<1>2. CASE Poll
  <2>1. UNCHANGED <<stream, yielded, pos, state, head, failed>> /\ task = "out"
        /\ (state = "Done" => task' = "ended")
    BY <1>2 DEF Poll, peerVars, inVars, resVars
  <2>2. ~failed
    BY <2>1 DEF FramingInv
  <2>3. QED
    BY <2>1, <2>2, SameFraming
<1>3. CASE Place \/ Flush \/ FlushPending \/ FlushDone
  <2>1. UNCHANGED <<stream, yielded, pos, state, head, failed>> /\ task \in {"place", "flush"}
    BY <1>3 DEF Place, Flush, FlushPending, FlushDone, peerVars, inVars, resVars
  <2>2. ~failed /\ state # "Done"
    BY <2>1 DEF FramingInv
  <2>3. QED
    BY <2>1, <2>2, SameFraming
<1>4. CASE NoRead \/ Read \/ ReadEof \/ ReadPending
  <2>1. PICK t \in taken .. arrived : \E r \in Results(pos, t) : \E st \in {state, "Done"} :
          \E pending \in BOOLEAN : Parses(t, r, st, pending)
    BY <1>4, InputParses DEF TypeInv
  <2>2. QED
    BY <2>1, FramingParsed
<1>5. CASE IoFails
  <2>1. UNCHANGED <<stream, yielded, pos, state, head>> /\ failed' /\ task' = "ended"
    BY <1>5 DEF IoFails, peerVars, inVars
  <2>2. QED
    BY <2>1, SameFraming
<1>6. QED
  BY <1>1, <1>2, <1>3, <1>4, <1>5 DEF Next, ProtoStep

(* Standard messages come out complete, in order and once each, however the *)
(* socket cuts the input, for any messages, any lengths of the heads and    *)
(* any buffers; after the last one parsing is where it ended.               *)
THEOREM FramingCorrect == Spec => []FramingKept
<1>1. Init => FramingInv
  <2> SUFFICES ASSUME Init PROVE FramingInv
    OBVIOUS
  <2>1. StreamType
    BY TypeInit DEF TypeInv, InType
  <2>2. yielded = <<>> /\ pos = 0 /\ state = "StdHead" /\ ~failed
    BY DEF Init
  <2>3. End[0] = 0 /\ Len(stream) \in Nat
    BY <2>1, EndType
  <2>4. Len(yielded) = 0 /\ yielded = [i \in 1 .. 0 |-> i]
    BY <2>2
  <2>5. QED
    BY <2>2, <2>3, <2>4 DEF FramingInv, AtPlace
<1>2. TypeInv /\ FramingInv /\ [Next]_vars => FramingInv'
  BY FramingStep
<1>3. TypeInv /\ TypeOK /\ FramingInv => FramingKept
  <2> SUFFICES ASSUME TypeInv, TypeOK, FramingInv PROVE FramingKept
    OBVIOUS
  <2> DEFINE n == Len(yielded)
  <2>1. n \in Nat /\ Len(stream) \in Nat
    BY EndType DEF TypeInv, InType
  <2>2. StdOnly(IF n < Len(stream) THEN n + 1 ELSE n) => Clean(n)
    BY <2>1 DEF StdOnly, Clean
  <2>3. Clean(n) /\ state = "StdHead" /\ ~failed => pos = End[n]
    BY DEF FramingInv, AtPlace
  <2>4. QED
    BY <2>2, <2>3 DEF FramingKept, FramingInv
<1>4. QED
  BY <1>1, <1>2, <1>3, TypeInvCorrect, TypeCorrect, PTL DEF Spec
=============================================================================
