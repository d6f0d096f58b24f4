--------------------------- MODULE FindIocProofs ---------------------------
(***************************************************************************)
(* Proofs about FindIoc for every set of channels and every number of      *)
(* targets, size of a batch and of a datagram, and bound on the batches.   *)
(***************************************************************************)
EXTENDS FindIoc, FiniteSetTheorems, SequenceTheorems, TLAPS

\* A datagram is handled in one go, and only channels of a batch have answers.
Handling ==
  /\ task # "result" => spent = {} /\ packet = <<>>
  /\ \A c \in Input : c \notin spent /\ c \notin answered
  /\ \A c \in spent : ~Open(c)

\* What is left of a datagram is about other channels than what was handled.
NoRepeat ==
  ~Repeats => Distinct(packet) /\ \A i \in DOMAIN packet : packet[i] \notin spent

Accounted == IndexExact /\ NoneLost

Once == NoRepeat /\ ReportedOnce

IInv == TypeOK /\ Handling /\ Accounted /\ Once /\ EndsComplete

-----------------------------------------------------------------------------
\* The facts about empty sets and sequences that the initial state needs.
LEMMA EmptyBatches ==
  /\ Cardinality({}) = 0
  /\ 0 <= InFlightMax
  /\ \A S : <<>> \in Seq(S) /\ <<>> \in [1 .. 0 -> S] /\ DOMAIN <<>> = {}
<1>1. Cardinality({}) = 0
  BY FS_EmptySet
<1>2. \A S : <<>> \in Seq(S) /\ <<>> \in [1 .. 0 -> S] /\ DOMAIN <<>> = {}
  OBVIOUS
<1>3. QED
  BY <1>1, <1>2, SearchAssumption

\* A function from 1 .. n is a sequence of that length.
LEMMA FunctionIsSequence ==
  \A S : \A n \in Nat : \A f \in [1 .. n -> S] : f \in Seq(S) /\ Len(f) = n
OBVIOUS

\* At first every channel waits and nothing is in flight.
LEMMA InitInv == Init => IInv
<1> SUFFICES ASSUME Init PROVE IInv
  OBVIOUS
<1>1. buf \in Seq(0 .. made)
  BY DEF Init, Zeros
<1>2. left \in [1 .. made -> 0 .. NumTargets]
  BY EmptyBatches DEF Init
<1>3. sendq \in Seq(1 .. made) /\ packet \in Seq(Channels)
  BY EmptyBatches DEF Init
<1>4. TypeOK
  <2>1. /\ task = "out" /\ again \in BOOLEAN /\ writable \in BOOLEAN /\ made \in Nat
        /\ inFlight = {} /\ answered = {} /\ index = {} /\ spent = {} /\ asked = {}
    BY DEF Init
  <2>2. /\ batchOf \in [Channels -> 0 .. made]
        /\ out \in [Channels -> Nat] /\ yielded \in [Channels -> Nat]
    BY DEF Init
  <2>3. Cardinality(inFlight) <= InFlightMax
    BY <2>1, EmptyBatches
  <2>4. QED
    BY <1>1, <1>2, <1>3, <2>1, <2>2, <2>3 DEF TypeOK
<1>5. Handling /\ Once
  BY EmptyBatches DEF Init, Handling, Input, Once, NoRepeat, ReportedOnce, Reports, Distinct
<1>6. Accounted /\ EndsComplete
  BY DEF Init, Accounted, IndexExact, NoneLost, Open, Input, Reports, EndsComplete
<1>7. QED
  BY <1>4, <1>5, <1>6 DEF IInv

(* Removing batches from those in flight keeps their number in bounds.     *)
LEMMA FewerInFlight ==
  ASSUME TypeOK, NEW S \in SUBSET inFlight
  PROVE  S \in SUBSET (1 .. made) /\ IsFiniteSet(S) /\ Cardinality(S) <= InFlightMax
<1>1. IsFiniteSet(1 .. made)
  BY FS_Interval DEF TypeOK
<1>2. IsFiniteSet(inFlight)
  BY <1>1, FS_Subset DEF TypeOK
<1>3. IsFiniteSet(S) /\ Cardinality(S) <= Cardinality(inFlight)
  BY <1>2, FS_Subset
<1>4. Cardinality(S) \in Nat /\ Cardinality(inFlight) \in Nat
  BY <1>2, <1>3, FS_CardinalityType
<1>5. QED
  BY <1>3, <1>4, SearchAssumption DEF TypeOK

(* One more batch is created only below the bound.                         *)
LEMMA OneMoreInFlight ==
  ASSUME TypeOK, MayCreate
  PROVE  Cardinality(inFlight \cup {made + 1}) <= InFlightMax
<1>1. IsFiniteSet(inFlight)
  BY FewerInFlight
<1>2. made + 1 \notin inFlight
  BY DEF TypeOK
<1>3. Cardinality(inFlight \cup {made + 1}) = Cardinality(inFlight) + 1
  BY <1>1, <1>2, FS_AddElement
<1>4. Cardinality(inFlight) \in Nat
  BY <1>1, FS_CardinalityType
<1>5. QED
  BY <1>3, <1>4, SearchAssumption DEF MayCreate

-----------------------------------------------------------------------------
\* A new batch has a number of its own and its place in the send queue.
LEMMA CreateType ==
  ASSUME TypeOK, CreateInFlight
  PROVE  TypeOK'
<1>1. made \in Nat /\ made' = made + 1 /\ made' \in Nat
  BY DEF CreateInFlight, TypeOK
<1>2. batchOf' \in [Channels -> 0 .. made'] /\ index' \in SUBSET Channels
  BY <1>1 DEF CreateInFlight, TypeOK, Input
<1>3. inFlight' \in SUBSET (1 .. made') /\ Cardinality(inFlight') <= InFlightMax
  BY <1>1, OneMoreInFlight DEF CreateInFlight, TypeOK
<1>4. left' \in [1 .. made' -> 0 .. NumTargets]
  <2>1. left \in Seq(0 .. NumTargets) /\ Len(left) = made
    BY <1>1, FunctionIsSequence DEF TypeOK
  <2>2. NumTargets \in 0 .. NumTargets
    BY SearchAssumption
  <2>3. left' \in Seq(0 .. NumTargets) /\ Len(left') = made'
    BY <1>1, <2>1, <2>2 DEF CreateInFlight
  <2>4. QED
    BY <2>3, LenProperties
<1>5. sendq' \in Seq(1 .. made')
  <2>1. sendq \in Seq(1 .. made')
    BY <1>1, SeqMonotonic DEF TypeOK
  <2>2. QED
    BY <1>1, <2>1 DEF CreateInFlight
<1>6. buf' \in Seq(0 .. made')
  BY <1>1, SeqMonotonic DEF CreateInFlight, TypeOK, sockVars
<1>7. QED
  BY <1>1, <1>2, <1>3, <1>4, <1>5, <1>6
     DEF CreateInFlight, TypeOK, sockVars, replyVars, resultVars

\* Filling the socket only takes batches from the send queue, or moves them.
LEMMA FillType ==
  ASSUME TypeOK, Fill
  PROVE  TypeOK'
<1> DEFINE b == Head(sendq)
<1>1. b \in 1 .. made /\ Tail(sendq) \in Seq(1 .. made)
  BY HeadTailProperties DEF Fill, TypeOK
<1>2. sendq' \in Seq(1 .. made)
  <2>1. sendq' \in {Tail(sendq), Append(Tail(sendq), b)}
    BY DEF Fill, Requeued
  <2> HIDE DEF b
  <2>2. Append(Tail(sendq), b) \in Seq(1 .. made)
    BY <1>1
  <2>3. QED
    BY <1>1, <2>1, <2>2
<1>3. buf' \in Seq(0 .. made)
  <2>1. CASE b \in inFlight /\ left[b] > 0
    <3>1. b \in 0 .. made
      BY <1>1 DEF TypeOK
    <3>2. <<b>> \in Seq(0 .. made)
      BY <3>1
    <3>3. QED
      BY <2>1, <3>2 DEF Fill
  <2>2. CASE ~(b \in inFlight /\ left[b] > 0)
    BY <2>2 DEF Fill, TypeOK
  <2>3. QED
    BY <2>1, <2>2
<1>4. left' \in [1 .. made -> 0 .. NumTargets]
  <2>1. CASE b \in inFlight /\ left[b] > 0
    <3>1. left[b] \in 0 .. NumTargets
      BY <1>1 DEF TypeOK
    <3>2. left[b] - 1 \in 0 .. NumTargets
      BY <2>1, <3>1, SearchAssumption
    <3>3. left' = [left EXCEPT ![b] = left[b] - 1]
      BY <2>1 DEF Fill
    <3> HIDE DEF b
    <3>4. QED
      BY <3>2, <3>3 DEF TypeOK
  <2>2. CASE ~(b \in inFlight /\ left[b] > 0)
    BY <2>2 DEF Fill, TypeOK
  <2>3. QED
    BY <2>1, <2>2
<1>5. QED
  BY <1>2, <1>3, <1>4 DEF Fill, TypeOK, batchVars, replyVars, resultVars

\* A datagram holds channels, none twice unless it may repeat them.
LEMMA PacketType ==
  ASSUME TypeOK, Read
  PROVE  packet' \in Seq(Channels) /\ (~Repeats => Distinct(packet'))
<1>1. PICK n \in 0 .. AnswerMax : packet' \in [1 .. n -> asked]
  BY DEF Read, Packets
<1>2. n \in Nat /\ packet' \in [1 .. n -> Channels]
  BY <1>1, SearchAssumption DEF TypeOK
<1>3. packet' \in Seq(Channels)
  BY <1>2
<1>4. QED
  BY <1>3 DEF Read, Packets

\* Handling an answer takes it from the datagram.
LEMMA HandleType ==
  ASSUME TypeOK, HandleResult
  PROVE  TypeOK'
<1> DEFINE c == Head(packet)
<1>1. c \in Channels /\ Tail(packet) \in Seq(Channels)
  BY HeadTailProperties DEF HandleResult, TypeOK
<1>2. packet' \in Seq(Channels)
  BY <1>1 DEF HandleResult
<1>3. spent' \in SUBSET Channels /\ answered' \in SUBSET Channels
  BY <1>1 DEF HandleResult, TypeOK
<1>4. out' \in [Channels -> Nat]
  <2>1. out[c] + 1 \in Nat
    BY <1>1 DEF TypeOK
  <2>2. out' = out \/ out' = [out EXCEPT ![c] = out[c] + 1]
    BY DEF HandleResult
  <2> HIDE DEF c
  <2>3. QED
    BY <2>1, <2>2 DEF TypeOK
<1>5. inFlight' \in SUBSET inFlight
  BY DEF HandleResult
<1>6. QED
  BY <1>2, <1>3, <1>4, <1>5, FewerInFlight DEF HandleResult, TypeOK, batchVars, sockVars

\* Every step keeps the types and the bound on the batches in flight.
LEMMA TypeStep ==
  ASSUME TypeOK, [Next]_vars
  PROVE  TypeOK'
<1>1. ASSUME NEW cut \in 0 .. made, Poll(cut) PROVE TypeOK'
  <2>1. inFlight' \in SUBSET inFlight
    BY <1>1 DEF Poll
  <2>2. out' \in [Channels -> Nat] /\ index' \in SUBSET Channels
    BY <1>1 DEF Poll, TypeOK
  <2>3. QED
    BY <1>1, <2>1, <2>2, FewerInFlight
       DEF Poll, TypeOK, batchVars, sockVars, replyVars
<1>2. CASE Yield \/ NothingToYield
  <2>1. CASE Yield
    <3>1. out' \in [Channels -> Nat] /\ yielded' \in [Channels -> Nat]
      BY <2>1 DEF Yield, TypeOK
    <3>2. QED
      BY <2>1, <3>1 DEF Yield, TypeOK, batchVars, searchVars, sockVars, replyVars
  <2>2. CASE NothingToYield
    BY <2>2 DEF NothingToYield, TypeOK, batchVars, searchVars, sockVars, replyVars,
       resultVars
  <2>3. QED
    BY <1>2, <2>1, <2>2
<1>3. CASE Sent
  <2>1. asked' \in SUBSET Channels
    BY <1>3 DEF Sent, TypeOK, Members
  <2>2. buf' \in Seq(0 .. made)
    BY <1>3, EmptyBatches DEF Sent
  <2>3. QED
    BY <1>3, <2>1, <2>2 DEF Sent, TypeOK, batchVars, searchVars, replyVars, resultVars
<1>4. CASE WouldBlock \/ NotSent \/ Filled \/ Created
  BY <1>4 DEF WouldBlock, NotSent, Filled, Created, TypeOK, batchVars, searchVars,
     sockVars, replyVars, resultVars
<1>5. CASE Fill
  BY <1>5, FillType
<1>6. CASE CreateInFlight
  BY <1>6, CreateType
<1>7. CASE Read
  BY <1>7, PacketType DEF Read, TypeOK, batchVars, searchVars, sockVars, resultVars
<1>8. CASE ReadFails \/ ReadPanics \/ NothingToRead
  BY <1>8 DEF ReadFails, ReadPanics, NothingToRead, TypeOK, batchVars, searchVars, sockVars,
     replyVars, resultVars
<1>9. CASE HandleResult
  BY <1>9, HandleType
<1>10. CASE ResultsHandled
  BY <1>10 DEF ResultsHandled, IndexAfter, TypeOK, batchVars, sockVars, resultVars
<1>11. CASE SocketWritable
  BY <1>11 DEF SocketWritable, TypeOK, batchVars, searchVars, replyVars, resultVars
<1>12. CASE UNCHANGED vars
  BY <1>12 DEF vars, TypeOK, batchVars, searchVars, sockVars, replyVars, resultVars
<1>13. QED
  BY <1>1, <1>2, <1>3, <1>4, <1>5, <1>6, <1>7, <1>8, <1>9, <1>10, <1>11, <1>12
     DEF Next, Turn

-----------------------------------------------------------------------------
(* The steps that neither make a batch nor handle or yield results.        *)
Aside ==
  \/ NothingToYield \/ Sent \/ WouldBlock \/ NotSent \/ Fill \/ Filled \/ Created
  \/ ReadFails \/ ReadPanics \/ NothingToRead \/ SocketWritable \/ UNCHANGED vars

\* What the steps that are set aside leave alone.
LEMMA AsideKeeps ==
  ASSUME Aside
  PROVE  /\ UNCHANGED <<batchOf, made, inFlight, answered, index, packet, spent, out,
                        yielded>>
         /\ task' = "result" <=> task = "result"
         /\ task' = "ended" => task = "ended" \/ MayEnd
BY DEF Aside, NothingToYield, Sent, WouldBlock, NotSent, Fill, Filled, Created,
   ReadFails, ReadPanics, NothingToRead, SocketWritable, vars, batchVars, searchVars, sockVars,
   replyVars, resultVars

\* All steps: those that are set aside, and those that move channels.
LEMMA NextCases ==
  ASSUME [Next]_vars
  PROVE  \/ Aside \/ (\E cut \in 0 .. made : Poll(cut)) \/ Yield \/ CreateInFlight
         \/ Read \/ HandleResult \/ ResultsHandled
BY DEF Next, Turn, Aside

\* The steps that are set aside keep the invariant.
LEMMA AsideInv ==
  ASSUME IInv, Aside
  PROVE  Handling' /\ Accounted' /\ Once' /\ EndsComplete'
<1>1. Handling' /\ Accounted' /\ Once'
  BY AsideKeeps DEF IInv, Handling, Accounted, IndexExact, NoneLost, Once, NoRepeat,
     ReportedOnce, Reports, Open, Input
<1>2. EndsComplete'
  <2>1. CASE task = "ended"
    BY <2>1, AsideKeeps DEF IInv, EndsComplete
  <2>2. CASE MayEnd
    <3>1. \A c \in Channels : out[c] = 0 /\ Reports(c) # 0
      BY <2>2 DEF MayEnd, Quiet, IInv, Accounted, NoneLost, Open
    <3>2. \A c \in Channels : yielded[c] >= 1
      BY <3>1 DEF Reports, IInv, TypeOK
    <3>3. QED
      BY <3>2, AsideKeeps DEF EndsComplete
  <2>3. QED
    BY <2>1, <2>2, AsideKeeps DEF EndsComplete
<1>3. QED
  BY <1>1, <1>2

\* A channel in flight belongs to a batch.
LEMMA OpenHasBatch ==
  ASSUME TypeOK, NEW c \in Channels, batchOf[c] \in inFlight
  PROVE  c \notin Input /\ batchOf[c] # 0
BY DEF TypeOK, Input

\* A poll puts the channels of the batches that have timed out among the results.
LEMMA PollInv ==
  ASSUME IInv, NEW cut \in 0 .. made, Poll(cut)
  PROVE  Handling' /\ Accounted' /\ Once' /\ EndsComplete'
<1>1. spent = {} /\ spent' = {} /\ packet = <<>> /\ packet' = <<>>
      /\ batchOf' = batchOf /\ answered' = answered /\ yielded' = yielded
  BY DEF Poll, IInv, Handling, batchVars, replyVars
<1>2. Handling' /\ EndsComplete'
  BY <1>1 DEF Poll, Handling, Input, IInv, EndsComplete
<1>3. \A c \in Channels : Open(c)' <=> Open(c) /\ c \notin TimedOut(cut)
  BY <1>1 DEF Poll, Open, TimedOut
<1>4. \A c \in TimedOut(cut) : Open(c) /\ c \in Channels
  BY DEF TimedOut, Expired, Open
<1>5. IndexExact'
  BY <1>1, <1>3, <1>4 DEF Poll, IInv, Accounted, IndexExact
<1>6. \A c \in Channels :
        Reports(c)' = IF c \in TimedOut(cut) THEN Reports(c) + 1 ELSE Reports(c)
  BY <1>1 DEF Poll, Reports, IInv, TypeOK
<1>7. \A c \in Channels : Reports(c) \in Nat
  BY DEF Reports, IInv, TypeOK
<1>8. \A c \in TimedOut(cut) : Reports(c) = 0
  BY <1>4 DEF IInv, Accounted, NoneLost
<1>9. \A c \in TimedOut(cut) : c \notin Input
  BY <1>4, OpenHasBatch DEF Open, IInv
<1>10. NoneLost'
  BY <1>1, <1>3, <1>4, <1>6, <1>7, <1>8, <1>9
     DEF IInv, Accounted, NoneLost, Input
<1>11. Once'
  BY <1>1, <1>6, <1>7, <1>8 DEF IInv, Once, NoRepeat, ReportedOnce
<1>12. QED
  BY <1>2, <1>5, <1>10, <1>11 DEF Accounted

\* What is yielded goes from the results found to those reported.
LEMMA YieldInv ==
  ASSUME IInv, Yield
  PROVE  Handling' /\ Accounted' /\ Once' /\ EndsComplete'
<1>1. UNCHANGED <<batchOf, inFlight, answered, index, packet, spent>>
  BY DEF Yield, batchVars, searchVars, replyVars
<1>2. \A c \in Channels : Reports(c)' = Reports(c)
  BY DEF Yield, Reports, IInv, TypeOK
<1>3. Handling' /\ EndsComplete'
  BY <1>1 DEF Yield, IInv, Handling, Input, Open, EndsComplete
<1>4. Accounted'
  BY <1>1, <1>2 DEF IInv, Accounted, IndexExact, NoneLost, Open, Input
<1>5. Once'
  BY <1>1, <1>2 DEF IInv, Once, NoRepeat, ReportedOnce
<1>6. QED
  BY <1>3, <1>4, <1>5

\* A new batch takes channels that wait, and gives each an id.
LEMMA CreateInv ==
  ASSUME IInv, CreateInFlight
  PROVE  Handling' /\ Accounted' /\ Once' /\ EndsComplete'
<1>1. PICK members \in SUBSET Input :
        /\ batchOf' = [c \in Channels |-> IF c \in members THEN made' ELSE batchOf[c]]
        /\ index' = index \cup members
  BY DEF CreateInFlight
<1>2. /\ UNCHANGED <<answered, packet, spent, out, yielded, task>>
      /\ made' = made + 1 /\ inFlight' = inFlight \cup {made + 1}
  BY DEF CreateInFlight, replyVars, resultVars
<1>3. made \in Nat /\ \A c \in Channels : batchOf[c] \in 0 .. made
  BY DEF IInv, TypeOK
<1>4. \A c \in Channels : c \in Input' <=> c \in Input \ members
  BY <1>1, <1>2, <1>3 DEF Input
<1>5. \A c \in Channels : c \in members => c \notin answered /\ c \notin spent
  BY DEF IInv, Handling
<1>6. \A c \in Channels : Open(c)' <=> Open(c) \/ c \in members
  <2>1. \A c \in Channels : c \in members => batchOf'[c] \in inFlight' /\ c \notin answered'
    BY <1>1, <1>2, <1>5
  <2>2. \A c \in Channels : c \notin members =>
          batchOf'[c] = batchOf[c] /\ batchOf[c] # made + 1
    BY <1>1, <1>3
  <2>3. QED
    BY <1>2, <2>1, <2>2 DEF Open
<1>7. Handling' /\ EndsComplete'
  <2>1. spent = {} /\ task = "create"
    BY DEF CreateInFlight, IInv, Handling
  <2>2. spent' = {} /\ task' = "create" /\ packet' = <<>>
    BY <1>2, <2>1 DEF IInv, Handling
  <2>3. \A c \in Input' : c \in Input
    BY <1>4 DEF Input
  <2>4. \A c \in Input' : c \notin spent' /\ c \notin answered'
    BY <1>2, <2>2, <2>3 DEF IInv, Handling
  <2>5. QED
    BY <2>2, <2>4 DEF Handling, EndsComplete
<1>8. Accounted'
  BY <1>1, <1>2, <1>4, <1>6 DEF IInv, Accounted, IndexExact, NoneLost, Reports
<1>9. Once'
  BY <1>2 DEF IInv, Once, NoRepeat, ReportedOnce, Reports
<1>10. QED
  BY <1>7, <1>8, <1>9

\* A datagram is read whole before its answers are handled.
LEMMA ReadInv ==
  ASSUME IInv, Read
  PROVE  Handling' /\ Accounted' /\ Once' /\ EndsComplete'
<1>1. /\ UNCHANGED <<batchOf, inFlight, answered, index, spent, out, yielded>>
      /\ task' = "result" /\ task = "read"
  BY DEF Read, batchVars, searchVars, resultVars
<1>2. Handling' /\ EndsComplete'
  BY <1>1 DEF IInv, Handling, Input, Open, EndsComplete
<1>3. Accounted'
  BY <1>1 DEF IInv, Accounted, IndexExact, NoneLost, Open, Input, Reports
<1>4. spent' = {}
  BY <1>1 DEF IInv, Handling
<1>5. Once'
  BY <1>1, <1>4, PacketType DEF IInv, Once, NoRepeat, ReportedOnce, Reports
<1>6. QED
  BY <1>2, <1>3, <1>5

\* When a datagram is handled, the ids answered leave the index.
LEMMA ResultsHandledInv ==
  ASSUME IInv, ResultsHandled
  PROVE  Handling' /\ Accounted' /\ Once' /\ EndsComplete'
<1>1. /\ UNCHANGED <<batchOf, inFlight, answered, packet, out, yielded>>
      /\ spent' = {} /\ index' = index \ spent /\ packet = <<>>
      /\ task' = "yield"
  BY DEF ResultsHandled, IndexAfter, batchVars, resultVars
<1>2. Handling' /\ EndsComplete'
  BY <1>1 DEF IInv, Handling, Input, Open, EndsComplete
<1>3. \A c \in Channels : Open(c)' <=> Open(c)
  BY <1>1 DEF Open
<1>4. Accounted'
  BY <1>1, <1>3 DEF IInv, Handling, Accounted, IndexExact, NoneLost, Reports, Input
<1>5. Once'
  BY <1>1 DEF IInv, Once, NoRepeat, ReportedOnce, Reports
<1>6. QED
  BY <1>2, <1>4, <1>5

(* What handling the first answer of a datagram leaves of it.              *)
LEMMA TailOfPacket ==
  ASSUME NEW S, NEW p \in Seq(S), p # <<>>
  PROVE  /\ Head(p) \in S
         /\ \A i \in DOMAIN Tail(p) : i + 1 \in DOMAIN p /\ Tail(p)[i] = p[i + 1]
         /\ Distinct(p) => /\ Distinct(Tail(p))
                           /\ \A i \in DOMAIN Tail(p) : Tail(p)[i] # Head(p)
<1>1. Len(p) \in Nat \ {0} /\ DOMAIN p = 1 .. Len(p) /\ Head(p) = p[1]
  BY EmptySeq, LenProperties
<1>2. \A i \in DOMAIN Tail(p) :
        i \in Nat \ {0} /\ i + 1 \in DOMAIN p /\ Tail(p)[i] = p[i + 1]
  BY <1>1
<1>3. ASSUME Distinct(p)
      PROVE  Distinct(Tail(p)) /\ \A i \in DOMAIN Tail(p) : Tail(p)[i] # Head(p)
  <2>1. \A i, j \in DOMAIN Tail(p) : Tail(p)[i] = Tail(p)[j] => i = j
    <3>1. \A i, j \in DOMAIN Tail(p) : p[i + 1] = p[j + 1] => i + 1 = j + 1
      BY <1>2, <1>3 DEF Distinct
    <3>2. QED
      BY <1>2, <3>1
  <2>2. \A i \in DOMAIN Tail(p) : p[i + 1] # p[1]
    <3>1. 1 \in DOMAIN p
      BY <1>1
    <3>2. \A i \in DOMAIN Tail(p) : i + 1 # 1
      BY <1>2
    <3>3. QED
      BY <1>2, <1>3, <3>1, <3>2 DEF Distinct
  <2>3. QED
    BY <1>1, <1>2, <2>1, <2>2 DEF Distinct
<1>4. QED
  BY <1>1, <1>2, <1>3, HeadTailProperties

\* An answer reports the channel of its id, if its batch is still in flight.
LEMMA HandleInv ==
  ASSUME IInv, HandleResult
  PROVE  Handling' /\ Accounted' /\ Once' /\ EndsComplete'
<1>1. packet \in Seq(Channels) /\ packet # <<>>
  BY DEF HandleResult, IInv, TypeOK
<1>2. PICK c \in Channels : c = Head(packet)
  BY <1>1, TailOfPacket
<1> DEFINE known == c \in index
           open == known /\ batchOf[c] \in inFlight
<1>3. /\ UNCHANGED <<task, batchOf, index, yielded>>
      /\ task = "result" /\ packet' = Tail(packet)
      /\ spent' = IF known THEN spent \cup {c} ELSE spent
      /\ answered' = IF open THEN answered \cup {c} ELSE answered
      /\ out' = IF open THEN [out EXCEPT ![c] = out[c] + 1] ELSE out
      /\ inFlight' = IF open /\ AllDone(batchOf[c], answered')
                     THEN inFlight \ {batchOf[c]} ELSE inFlight
  BY <1>2 DEF HandleResult, batchVars
<1>4. known <=> Open(c) \/ c \in spent
  BY <1>2 DEF IInv, Accounted, IndexExact
<1>5. Open(c) => open
  BY <1>4 DEF Open
<1>6. \A d \in Channels : Open(d)' <=> Open(d) /\ ~(open /\ d = c)
  <2>1. \A d \in Channels : AllDone(batchOf[c], answered') /\ batchOf[d] = batchOf[c]
          => d \in answered'
    BY DEF AllDone, Members
  <2>2. QED
    BY <1>3, <2>1 DEF Open
<1>7. \A d \in Channels :
        Reports(d)' = IF open /\ d = c THEN Reports(d) + 1 ELSE Reports(d)
  BY <1>2, <1>3 DEF Reports, IInv, TypeOK
<1>8. \A d \in Channels : Reports(d) \in Nat
  BY DEF Reports, IInv, TypeOK
<1>9. known => c \notin Input
  <2>1. c \in spent => c \notin Input
    BY DEF IInv, Handling
  <2>2. Open(c) => c \notin Input
    BY <1>2, OpenHasBatch DEF IInv, Open
  <2>3. QED
    BY <1>4, <2>1, <2>2
<1>10. known => ~Open(c)'
  BY <1>2, <1>5, <1>6
<1>11. \A d \in Channels : d \in spent' <=> d \in spent \/ (known /\ d = c)
  BY <1>3
<1>12. Handling'
  <2>1. Input' = Input
    BY <1>3 DEF Input
  <2>2. \A d \in Input : d \in Channels /\ d \notin spent' /\ d \notin answered'
    BY <1>3, <1>9 DEF Input, IInv, Handling
  <2>3. \A d \in spent' : ~Open(d)'
    <3>1. \A d \in spent : d \in Channels /\ ~Open(d)
      BY DEF IInv, TypeOK, Handling
    <3>2. \A d \in spent' : d \in spent \/ (known /\ d = c)
      BY <1>3
    <3>3. QED
      BY <1>6, <1>10, <3>1, <3>2
  <2>4. QED
    BY <1>3, <2>1, <2>2, <2>3 DEF Handling
<1>13. Accounted'
  <2>1. IndexExact'
    BY <1>3, <1>4, <1>6, <1>11 DEF IInv, Accounted, IndexExact
  <2>2. NoneLost'
    <3>1. \A d \in Channels : d \in Input' <=> d \in Input
      BY <1>3 DEF Input
    <3>2. \A d \in Channels : Reports(d)' = 0 <=> Reports(d) = 0 /\ ~(open /\ d = c)
      BY <1>7, <1>8
    <3>3. QED
      BY <1>6, <1>9, <3>1, <3>2 DEF IInv, Accounted, NoneLost
  <2>3. QED
    BY <2>1, <2>2 DEF Accounted
<1>14. Once'
  <2> SUFFICES ASSUME ~Repeats PROVE NoRepeat' /\ ReportedOnce'
    BY DEF Once, NoRepeat, ReportedOnce
  <2>1. Distinct(packet) /\ \A i \in DOMAIN packet : packet[i] \notin spent
    BY DEF IInv, Once, NoRepeat
  <2>2. NoRepeat'
    BY <1>1, <1>2, <1>3, <2>1, TailOfPacket DEF NoRepeat
  <2>3. c \notin spent
    <3>1. 1 \in DOMAIN packet /\ c = packet[1]
      BY <1>1, <1>2, EmptySeq, LenProperties
    <3>2. QED
      BY <2>1, <3>1
  <2>4. open => Reports(c) = 0
    BY <1>2, <1>4, <2>3 DEF IInv, Accounted, NoneLost
  <2>5. ReportedOnce'
    BY <1>7, <1>8, <2>4 DEF IInv, Once, ReportedOnce
  <2>6. QED
    BY <2>2, <2>5
<1>15. EndsComplete'
  BY <1>3 DEF EndsComplete
<1>16. QED
  BY <1>12, <1>13, <1>14, <1>15

\* So every step keeps the invariant.
LEMMA NextInv ==
  ASSUME IInv, [Next]_vars
  PROVE  IInv'
<1>1. TypeOK'
  BY TypeStep DEF IInv
<1>2. Handling' /\ Accounted' /\ Once' /\ EndsComplete'
  BY NextCases, AsideInv, PollInv, YieldInv, CreateInv, ReadInv, HandleInv,
     ResultsHandledInv
<1>3. QED
  BY <1>1, <1>2 DEF IInv

\* And it holds always.
LEMMA InvCorrect == Spec => []IInv
<1>1. Init => IInv
  BY InitInv
<1>2. IInv /\ [Next]_vars => IInv'
  BY NextInv
<1>3. QED
  BY <1>1, <1>2, PTL DEF Spec

-----------------------------------------------------------------------------
(* The variables have their types in every behaviour, and never more than  *)
(* in_flight_max batches are in flight.                                    *)
THEOREM TypeCorrect == Spec => []TypeOK
<1>1. IInv => TypeOK
  BY DEF IInv
<1>2. QED
  BY <1>1, InvCorrect, PTL

(* bid_by_sid has the ids of the channels in flight without an answer and  *)
(* of those answered by the datagram at hand, and no others.               *)
THEOREM IndexCorrect == Spec => []IndexExact
<1>1. IInv => IndexExact
  BY DEF IInv, Accounted
<1>2. QED
  BY <1>1, InvCorrect, PTL

(* A channel is waiting to be searched, in flight without an answer, or    *)
(* reported.                                                               *)
THEOREM NoneLostCorrect == Spec => []NoneLost
<1>1. IInv => NoneLost
  BY DEF IInv, Accounted
<1>2. QED
  BY <1>1, InvCorrect, PTL

(* As long as no datagram has an id twice, no channel is reported twice.   *)
THEOREM ReportedOnceCorrect == Spec => []ReportedOnce
<1>1. IInv => ReportedOnce
  BY DEF IInv, Once
<1>2. QED
  BY <1>1, InvCorrect, PTL

(* When the stream ends, it has yielded a result of every channel.         *)
THEOREM EndsCompleteCorrect == Spec => []EndsComplete
<1>1. IInv => EndsComplete
  BY DEF IInv
<1>2. QED
  BY <1>1, InvCorrect, PTL

-----------------------------------------------------------------------------
(* The send queue *)

(* Moving the head of a queue to its end keeps its elements.               *)
\* r is q with its first element at the end.
Rotated(n, q, r) ==
  /\ n \in Nat \ {0} /\ DOMAIN q = 1 .. n /\ DOMAIN r = 1 .. n
  /\ r[n] = q[1] /\ \A i \in 1 .. n - 1 : r[i] = q[i + 1]

\* Moving the head to the end keeps every element, once.
LEMMA RotationKeeps ==
  ASSUME NEW n, NEW q, NEW r, Rotated(n, q, r), Distinct(q)
  PROVE  /\ Distinct(r)
         /\ \A i \in DOMAIN q : \E j \in DOMAIN r : r[j] = q[i]
<1>0. /\ n \in Nat \ {0} /\ DOMAIN q = 1 .. n /\ DOMAIN r = 1 .. n
      /\ r[n] = q[1] /\ \A i \in 1 .. n - 1 : r[i] = q[i + 1]
  BY DEF Rotated
<1>1. ASSUME NEW i \in 1 .. n, NEW j \in 1 .. n, r[i] = r[j]
      PROVE  i = j
  <2>1. CASE i = n /\ j = n
    BY <1>0, <2>1
  <2>2. CASE i # n /\ j # n
    <3>1. i \in 1 .. n - 1 /\ j \in 1 .. n - 1
      BY <1>0, <2>2
    <3>2. q[i + 1] = q[j + 1] /\ i + 1 \in 1 .. n /\ j + 1 \in 1 .. n
      BY <1>0, <1>1, <3>1
    <3>3. i + 1 = j + 1
      BY <1>0, <3>2 DEF Distinct
    <3>4. QED
      BY <3>3
  <2>3. ASSUME NEW k \in 1 .. n, k # n PROVE r[k] # r[n]
    <3>1. k \in 1 .. n - 1 /\ k + 1 \in 1 .. n /\ 1 \in 1 .. n /\ k + 1 # 1
      BY <1>0, <2>3
    <3>2. q[k + 1] # q[1]
      BY <1>0, <3>1 DEF Distinct
    <3>3. QED
      BY <1>0, <3>1, <3>2
  <2>4. QED
    BY <1>0, <1>1, <2>1, <2>2, <2>3
<1>2. ASSUME NEW i \in 1 .. n PROVE \E j \in 1 .. n : r[j] = q[i]
  <2>1. CASE i = 1
    BY <1>0, <2>1
  <2>2. CASE i # 1
    <3>1. i - 1 \in 1 .. n - 1 /\ i - 1 \in 1 .. n /\ (i - 1) + 1 = i
      BY <1>0, <2>2
    <3>2. r[i - 1] = q[i]
      BY <1>0, <3>1
    <3>3. QED
      BY <1>0, <3>1, <3>2
  <2>3. QED
    BY <1>0, <2>1, <2>2
<1>3. QED
  BY <1>0, <1>1, <1>2 DEF Distinct

\* Append(Tail, Head) is such a move.
LEMMA RequeueKeeps ==
  ASSUME NEW S, NEW q \in Seq(S), q # <<>>, Distinct(q)
  PROVE  LET r == Append(Tail(q), Head(q)) IN
           /\ Distinct(r)
           /\ \A i \in DOMAIN q : \E j \in DOMAIN r : r[j] = q[i]
<1> DEFINE n == Len(q)
           r == Append(Tail(q), Head(q))
<1>1. n \in Nat \ {0} /\ DOMAIN q = 1 .. n /\ Head(q) = q[1]
  BY EmptySeq, LenProperties
<1>2. /\ Tail(q) \in Seq(S) /\ Len(Tail(q)) = n - 1 /\ Head(q) \in S
      /\ \A i \in 1 .. n - 1 : Tail(q)[i] = q[i + 1]
  BY <1>1, HeadTailProperties
<1>3. /\ r \in Seq(S) /\ Len(r) = n /\ r[n] = Head(q)
      /\ \A i \in 1 .. n - 1 : r[i] = Tail(q)[i]
  BY <1>1, <1>2, AppendProperties
<1>4. DOMAIN r = 1 .. n
  BY <1>3, LenProperties
<1>5. r[n] = q[1] /\ \A i \in 1 .. n - 1 : r[i] = q[i + 1]
  BY <1>1, <1>2, <1>3
<1> HIDE DEF n, r
<1>6. Rotated(n, q, r)
  BY <1>1, <1>4, <1>5 DEF Rotated
<1>7. Distinct(r) /\ \A i \in DOMAIN q : \E j \in DOMAIN r : r[j] = q[i]
  BY <1>6, RotationKeeps
<1>8. QED
  BY <1>7 DEF r

\* Dropping the head loses no other element.
LEMMA TailKeeps ==
  ASSUME NEW S, NEW q \in Seq(S), q # <<>>, Distinct(q)
  PROVE  /\ Distinct(Tail(q))
         /\ \A i \in DOMAIN q :
              q[i] # Head(q) => \E j \in DOMAIN Tail(q) : Tail(q)[j] = q[i]
<1>1. Len(q) \in Nat \ {0} /\ DOMAIN q = 1 .. Len(q) /\ Head(q) = q[1]
  BY EmptySeq, LenProperties
<1>2. DOMAIN Tail(q) = 1 .. Len(q) - 1 /\ \A i \in 1 .. Len(q) - 1 : Tail(q)[i] = q[i + 1]
  BY <1>1, HeadTailProperties, LenProperties
<1>3. ASSUME NEW i \in DOMAIN q, q[i] # Head(q)
      PROVE  \E j \in DOMAIN Tail(q) : Tail(q)[j] = q[i]
  <2>1. i - 1 \in 1 .. Len(q) - 1 /\ (i - 1) + 1 = i
    BY <1>1, <1>3
  <2>2. QED
    BY <1>2, <2>1
<1>4. QED
  BY <1>3, TailOfPacket

\* Fill drops a batch from the send queue only if it is not in flight any more or all
\* targets have got it.
LEMMA FillForgetsNone ==
  ASSUME TypeOK, NoneForgotten, Fill
  PROVE  NoneForgotten'
<1> DEFINE b == Head(sendq)
<1>1. sendq \in Seq(1 .. made) /\ sendq # <<>> /\ b \in 1 .. made /\ Distinct(sendq)
  BY HeadTailProperties DEF Fill, TypeOK, NoneForgotten
<1>2. inFlight' = inFlight
  BY DEF Fill
<1>3. CASE b \in inFlight /\ left[b] > 0
  <2>1. sendq' = Append(Tail(sendq), Head(sendq)) /\ left' = [left EXCEPT ![b] = left[b] - 1]
    BY <1>3 DEF Fill, Requeued
  <2>2. \A d \in inFlight : d # b => left'[d] = left[d]
    BY <2>1 DEF TypeOK
  <2>3. Distinct(sendq') /\ \A i \in DOMAIN sendq : \E j \in DOMAIN sendq' : sendq'[j] = sendq[i]
    BY <1>1, <2>1, RequeueKeeps
  <2>4. 1 \in DOMAIN sendq /\ sendq[1] = b
    BY <1>1, EmptySeq, LenProperties
  <2> HIDE DEF b
  <2>5. ASSUME NEW d \in inFlight', left'[d] > 0
        PROVE  \E j \in DOMAIN sendq' : sendq'[j] = d
    <3>1. \E i \in DOMAIN sendq : sendq[i] = d
      BY <1>2, <2>2, <2>4, <2>5 DEF NoneForgotten
    <3>2. QED
      BY <2>3, <3>1
  <2>6. QED
    BY <2>3, <2>5 DEF NoneForgotten
<1>4. CASE ~(b \in inFlight /\ left[b] > 0)
  <2>1. sendq' = Tail(sendq) /\ left' = left
    BY <1>4 DEF Fill
  <2>2. /\ Distinct(sendq')
        /\ \A i \in DOMAIN sendq :
             sendq[i] # Head(sendq) => \E j \in DOMAIN sendq' : sendq'[j] = sendq[i]
    BY <1>1, <2>1, TailKeeps
  <2> HIDE DEF b
  <2>3. ASSUME NEW d \in inFlight', left'[d] > 0
        PROVE  \E j \in DOMAIN sendq' : sendq'[j] = d
    <3>1. d # Head(sendq) /\ \E i \in DOMAIN sendq : sendq[i] = d
      BY <1>2, <1>4, <2>1, <2>3 DEF NoneForgotten, b
    <3>2. QED
      BY <2>2, <3>1
  <2>4. QED
    BY <2>2, <2>3 DEF NoneForgotten
<1>5. QED
  BY <1>3, <1>4

\* A new batch is put into the send queue.
LEMMA CreateForgetsNone ==
  ASSUME TypeOK, NoneForgotten, CreateInFlight
  PROVE  NoneForgotten'
<1>1. /\ made' = made + 1 /\ inFlight' = inFlight \cup {made + 1}
      /\ sendq' = Append(sendq, made + 1) /\ left' = Append(left, NumTargets)
  BY DEF CreateInFlight
<1>2. /\ sendq \in Seq(1 .. made) /\ made \in Nat /\ inFlight \subseteq 1 .. made
      /\ left \in Seq(0 .. NumTargets) /\ Len(left) = made
  BY FunctionIsSequence DEF TypeOK
<1>3. /\ DOMAIN sendq' = 1 .. Len(sendq) + 1 /\ DOMAIN sendq = 1 .. Len(sendq)
      /\ \A i \in DOMAIN sendq : sendq'[i] = sendq[i] /\ sendq[i] \in 1 .. made
      /\ sendq'[Len(sendq) + 1] = made + 1 /\ Len(sendq) \in Nat
  BY <1>1, <1>2
<1>4. Distinct(sendq')
  <2>1. Distinct(sendq)
    BY DEF NoneForgotten
  <2>2. \A i \in DOMAIN sendq : sendq'[i] # made + 1
    BY <1>2, <1>3
  <2>3. QED
    BY <1>3, <2>1, <2>2 DEF Distinct
<1>5. \A d \in inFlight : left'[d] = left[d]
  BY <1>1, <1>2
<1>6. ASSUME NEW d \in inFlight', left'[d] > 0
      PROVE  \E j \in DOMAIN sendq' : sendq'[j] = d
  <2>1. CASE d = made + 1
    BY <1>3, <2>1
  <2>2. CASE d \in inFlight
    <3>1. \E i \in DOMAIN sendq : sendq[i] = d
      BY <1>5, <1>6, <2>2 DEF NoneForgotten
    <3>2. QED
      BY <1>3, <3>1
  <2>3. QED
    BY <1>1, <2>1, <2>2
<1>7. QED
  BY <1>4, <1>6 DEF NoneForgotten

\* So a batch that some target has not got waits there through every step.
LEMMA NextForgetsNone ==
  ASSUME TypeOK, NoneForgotten, [Next]_vars
  PROVE  NoneForgotten'
<1>1. CASE Fill
  BY <1>1, FillForgetsNone
<1>2. CASE CreateInFlight
  BY <1>2, CreateForgetsNone
<1>3. CASE inFlight' \subseteq inFlight /\ UNCHANGED <<left, sendq>>
  BY <1>3 DEF NoneForgotten
<1>4. \/ Fill \/ CreateInFlight \/ (inFlight' \subseteq inFlight /\ UNCHANGED <<left, sendq>>)
  BY DEF Next, Turn, Poll, Yield, NothingToYield, Sent, WouldBlock, NotSent, Filled, Created,
     Read, ReadFails, ReadPanics, NothingToRead, HandleResult, ResultsHandled, SocketWritable, vars,
     searchVars
<1>5. QED
  BY <1>1, <1>2, <1>3, <1>4

(* A batch in flight that some target has not got yet waits in the send    *)
(* queue, in which no batch is twice.                                      *)
THEOREM NoneForgottenCorrect == Spec => []NoneForgotten
<1>1. Init => NoneForgotten
  BY EmptyBatches DEF Init, NoneForgotten, Distinct
<1>2. IInv /\ NoneForgotten /\ [Next]_vars => NoneForgotten'
  BY NextForgetsNone DEF IInv
<1>3. QED
  BY <1>1, <1>2, InvCorrect, PTL DEF Spec
=============================================================================
