---------------------------- MODULE DaemonProofs ----------------------------
(***************************************************************************)
(* Proofs about Daemon for any number of insert workers, any capacity of   *)
(* the queues and any number of posts and items.                           *)
(***************************************************************************)
EXTENDS Daemon, FiniteSetTheorems, SequenceTheorems, TLAPS

Inserting == {w \in InsertWorkers : inserter[w] = "insert"}

\* Every item that the set has passed on is at one place.
Balance ==
  stored = inserted + dropped + insertq + hookq
             + (IF hook = "send" THEN 1 ELSE 0) + Cardinality(Inserting)

\* A stage has ended only if nothing can come from the one before any more.
EndInOrder ==
  /\ hook = "ended" => set = "done" /\ insertq = 0
  /\ \A w \in InsertWorkers : inserter[w] = "ended" => hook = "ended" /\ hookq = 0
  /\ loop = "done" => \A w \in InsertWorkers : inserter[w] = "ended"

\* A Shutdown event is there only after a signal.
ShutdownBySignal ==
  /\ ticker = "shutdown" => signal
  /\ \A i \in DOMAIN eventq : eventq[i] = "Shutdown" => signal
  /\ shutting => signal
  /\ loop = "join" /\ ~shutting => set = "done"
  /\ loop = "done" /\ ~shutting => set = "done"

IInv == TypeOK /\ OneTickAround /\ Balance /\ EndInOrder /\ ShutdownBySignal

-----------------------------------------------------------------------------
\* Nothing is queued, stored or held at first.
LEMMA InitInv == Init => IInv
<1> SUFFICES ASSUME Init PROVE IInv
  OBVIOUS
<1>1. PipeTypeOK /\ Inserting = {}
  BY PipeAssumption DEF Init, PipeInit, PipeTypeOK, Inserting
<1>2. QueueTypeOK
  <2>1. 0 <= DaemonCap /\ 0 <= SetCap /\ 0 \in 0 .. OutCap
    BY DaemonAssumption
  <2>2. left \in [post : 0 .. MaxPosts, item : 0 .. MaxItems]
    BY DaemonAssumption DEF Init
  <2>3. \A S : <<>> \in Seq(S) /\ Len(<<>>) = 0
    OBVIOUS
  <2>4. eventq = <<>> /\ tosend = <<>> /\ setq = <<>> /\ outq = 0 /\ tokens = 0
    BY DEF Init
  <2>5. QED
    BY <2>1, <2>2, <2>3, <2>4 DEF QueueTypeOK
<1>6. TaskTypeOK
  BY Zenon DEF Init, TaskTypeOK
<1>3. OneTickAround
  BY DEF Init, OneTickAround, Ticks, HandlesTick
<1>4. Balance
  BY <1>1, FS_EmptySet DEF Init, PipeInit, Balance
<1>5. EndInOrder /\ ShutdownBySignal
  BY DEF Init, PipeInit, EndInOrder, ShutdownBySignal
<1>7. QED
  BY <1>1, <1>2, <1>3, <1>4, <1>5, <1>6, Zenon DEF IInv, TypeOK

-----------------------------------------------------------------------------
(* The insert pipe *)

(* A worker that takes an item is one more that inserts, and it is one less *)
(* when it is done with it.                                                 *)
LEMMA InsertingCounts ==
  ASSUME PipeTypeOK, NEW w \in InsertWorkers
  PROVE  /\ Cardinality(Inserting) \in Nat
         /\ w \notin Inserting =>
              Cardinality(Inserting \cup {w}) = Cardinality(Inserting) + 1
         /\ w \in Inserting =>
              Cardinality(Inserting \ {w}) = Cardinality(Inserting) - 1
<1>1. IsFiniteSet(Inserting)
  BY PipeAssumption, FS_Subset DEF Inserting
<1>2. QED
  BY <1>1, FS_AddElement, FS_RemoveElement, FS_CardinalityType

\* The stages between the set and the workers pass each item on, whole.
LEMMA HookKeeps ==
  ASSUME PipeTypeOK, Balance, NEW gone \in BOOLEAN, Store \/ HookStep(gone)
  PROVE  PipeTypeOK' /\ Balance'
<1>1. Inserting' = Inserting
  BY DEF Store, HookStep, HookRecv, HookSend, HookEnds, Inserting
<1>2. Cardinality(Inserting) \in Nat
  BY InsertingCounts, PipeAssumption
<1>3. CASE Store
  BY <1>1, <1>2, <1>3, PipeAssumption DEF Store, PipeTypeOK, Balance
<1>4. CASE HookRecv
  BY <1>1, <1>2, <1>4, PipeAssumption DEF HookRecv, PipeTypeOK, Balance
<1>5. CASE HookSend
  BY <1>1, <1>2, <1>5, PipeAssumption DEF HookSend, PipeTypeOK, Balance
<1>6. CASE HookEnds(gone)
  BY <1>1, <1>2, <1>6, PipeAssumption DEF HookEnds, PipeTypeOK, Balance
<1>7. QED
  BY <1>3, <1>4, <1>5, <1>6 DEF HookStep

\* A worker takes one item, which it inserts or gives up.
LEMMA WorkerKeeps ==
  ASSUME PipeTypeOK, Balance, NEW w \in InsertWorkers, InserterStep(w)
  PROVE  PipeTypeOK' /\ Balance'
<1>0. Cardinality(Inserting) \in Nat
  BY InsertingCounts
<1>1. CASE WorkerRecv(w)
  <2>1. Inserting' = Inserting \cup {w} /\ w \notin Inserting
    BY <1>1 DEF WorkerRecv, Inserting, PipeTypeOK
  <2>2. Cardinality(Inserting') = Cardinality(Inserting) + 1
    BY <2>1, InsertingCounts
  <2>3. PipeTypeOK'
    BY <1>1, PipeAssumption DEF WorkerRecv, PipeTypeOK
  <2>4. QED
    BY <1>0, <1>1, <2>2, <2>3 DEF WorkerRecv, PipeTypeOK, Balance
<1>2. CASE WorkerInserts(w)
  <2>1. Inserting' = Inserting \ {w} /\ w \in Inserting
    BY <1>2 DEF WorkerInserts, Inserting, PipeTypeOK
  <2>2. Cardinality(Inserting') = Cardinality(Inserting) - 1
    BY <2>1, InsertingCounts
  <2>3. PipeTypeOK'
    BY <1>2 DEF WorkerInserts, PipeTypeOK
  <2>4. QED
    BY <1>0, <1>2, <2>2, <2>3 DEF WorkerInserts, PipeTypeOK, Balance
<1>3. CASE WorkerWakes(w) \/ WorkerEnds(w)
  <2>1. Inserting' = Inserting
    BY <1>3 DEF WorkerWakes, WorkerEnds, Inserting, PipeTypeOK
  <2>2. QED
    BY <1>3, <2>1 DEF WorkerWakes, WorkerEnds, PipeTypeOK, Balance
<1>4. QED
  BY <1>1, <1>2, <1>3 DEF InserterStep

\* A step that is none of the pipe's.
LEMMA PipeAside ==
  ASSUME UNCHANGED pipeVars
  PROVE  (PipeTypeOK => PipeTypeOK') /\ (Balance => Balance')
BY DEF pipeVars, PipeTypeOK, Balance, Inserting

-----------------------------------------------------------------------------
(* Types *)

Event == Posts \cup {"TimerTick", "CaConnSetItem", "Shutdown"}

Order == Posts \cup {"CheckHealth", "Shutdown"}

\* A post puts one event behind those in the queue, which has room for it.
LEMMA PostKeeps ==
  ASSUME QueueTypeOK, NEW e \in Event, Post(e)
  PROVE  /\ eventq' \in Seq(Event)
         /\ Len(eventq') <= DaemonCap
         /\ Len(eventq') = Len(eventq) + 1
         /\ \A i \in DOMAIN eventq' :
              eventq'[i] = IF i \in DOMAIN eventq THEN eventq[i] ELSE e
BY DaemonAssumption DEF QueueTypeOK, Post, Room, Event

\* What HandleEvent takes away, and what it leaves to send.
LEMMA HandleFacts ==
  ASSUME QueueTypeOK, HandleEvent
  PROVE  /\ eventq' \in Seq(Event) /\ Len(eventq') = Len(eventq) - 1
         /\ \A i \in DOMAIN eventq' : i + 1 \in DOMAIN eventq /\ eventq'[i] = eventq[i + 1]
         /\ 1 \in DOMAIN eventq /\ Head(eventq) = eventq[1] /\ Head(eventq) \in Event
         /\ tosend' \in Seq(Order)
<1>1. eventq \in Seq(Event) /\ eventq # <<>> /\ eventq' = Tail(eventq)
  BY DEF QueueTypeOK, HandleEvent, Event
<1>2. /\ eventq' \in Seq(Event) /\ Len(eventq') = Len(eventq) - 1
      /\ \A i \in DOMAIN eventq' : i + 1 \in DOMAIN eventq /\ eventq'[i] = eventq[i + 1]
      /\ 1 \in DOMAIN eventq /\ Head(eventq) = eventq[1] /\ Head(eventq) \in Event
  BY <1>1
<1>3. tosend \in Seq(Order)
  BY DEF QueueTypeOK, Order
<1>4. CASE Head(eventq) = "TimerTick"
  <2>1. PICK n \in 0 .. 2 : tosend' = [i \in 1 .. n |-> "CheckHealth"]
    BY <1>4 DEF HandleEvent, HandleTimerTick, Posts
  <2>2. tosend' \in [1 .. n -> Order]
    BY <2>1 DEF Order
  <2>3. \A f \in [1 .. n -> Order] : f \in Seq(Order)
    OBVIOUS
  <2>4. QED
    BY <1>2, <2>2, <2>3
<1>5. CASE Head(eventq) \in Posts
  <2>1. tosend' = <<Head(eventq)>>
    BY <1>5 DEF HandleEvent, HandleChannel, Posts
  <2>2. <<Head(eventq)>> \in Seq(Order)
    BY <1>5 DEF Order
  <2>3. QED
    BY <1>2, <2>1, <2>2
<1>6. CASE Head(eventq) = "CaConnSetItem"
  <2>1. tosend' = tosend
    BY <1>6 DEF HandleEvent, HandleCaConnSetItem, Posts
  <2>2. QED
    BY <1>2, <1>3, <2>1
<1>7. CASE Head(eventq) = "Shutdown"
  <2>1. tosend' = tosend \/ tosend' = <<"Shutdown">>
    BY <1>7 DEF HandleEvent, HandleShutdown, Posts
  <2>2. <<"Shutdown">> \in Seq(Order)
    BY DEF Order
  <2>3. QED
    BY <1>2, <1>3, <2>1, <2>2
<1>8. QED
  BY <1>2, <1>4, <1>5, <1>6, <1>7 DEF Event

\* Those who post to the daemon's queue, and the ticker, keep the types.
LEMMA TickerTypes ==
  ASSUME QueueTypeOK, TaskTypeOK, PostEvent \/ Signal \/ TickerStep \/ AdapterStep
  PROVE  QueueTypeOK' /\ TaskTypeOK'
<1> USE DEF loopVars, tickerVars, setVars, reportVars
<1>1. CASE PostEvent
  <2>1. PICK e \in Posts : Post(e)
    BY <1>1 DEF PostEvent
  <2>2. left' \in [post : 0 .. MaxPosts, item : 0 .. MaxItems]
    BY <1>1, DaemonAssumption DEF PostEvent, QueueTypeOK
  <2>3. eventq' \in Seq(Event) /\ Len(eventq') <= DaemonCap
    BY <2>1, PostKeeps DEF Event
  <2>4. QED
    BY <1>1, <2>2, <2>3 DEF PostEvent, QueueTypeOK, TaskTypeOK, Event
<1>2. CASE Signal
  BY <1>2 DEF Signal, QueueTypeOK, TaskTypeOK
<1>3. CASE TickerWakes
  BY <1>3 DEF TickerWakes, QueueTypeOK, TaskTypeOK
<1>4. CASE TickerShutdown
  <2>1. eventq' \in Seq(Event) /\ Len(eventq') <= DaemonCap
    BY <1>4, PostKeeps DEF Event, TickerShutdown
  <2>2. QED
    BY <1>4, <2>1 DEF TickerShutdown, QueueTypeOK, TaskTypeOK, Event
<1>5. CASE TickerTick
  <2>1. eventq' \in Seq(Event) /\ Len(eventq') <= DaemonCap
    BY <1>5, PostKeeps DEF Event, TickerTick
  <2>2. QED
    BY <1>5, <2>1 DEF TickerTick, QueueTypeOK, TaskTypeOK, Event
<1>6. CASE TickerToken
  BY <1>6 DEF TickerToken, QueueTypeOK, TaskTypeOK
<1>7. CASE AdapterRecv
  BY <1>7, DaemonAssumption DEF AdapterRecv, QueueTypeOK, TaskTypeOK
<1>8. CASE AdapterSend
  <2>1. eventq' \in Seq(Event) /\ Len(eventq') <= DaemonCap
    BY <1>8, PostKeeps DEF Event, AdapterSend
  <2>2. QED
    BY <1>8, <2>1 DEF AdapterSend, QueueTypeOK, TaskTypeOK, Event
<1>9. QED
  BY <1>1, <1>2, <1>3, <1>4, <1>5, <1>6, <1>7, <1>8 DEF TickerStep, AdapterStep

\* So does the loop: the token it gives back always finds room.
LEMMA LoopTypes ==
  ASSUME QueueTypeOK, TaskTypeOK, OneTickAround, LoopStep
  PROVE  QueueTypeOK' /\ TaskTypeOK'
<1> USE DEF loopVars, tickerVars, setVars, reportVars
<1>1. CASE HandleEvent
  <2>1. /\ eventq' \in Seq(Event) /\ Len(eventq') <= DaemonCap
        /\ tosend' \in Seq(Order)
    BY <1>1, HandleFacts, DaemonAssumption DEF QueueTypeOK
  <2>2. QueueTypeOK'
    BY <1>1, <2>1 DEF HandleEvent, QueueTypeOK, Event, Order
  <2>3. ticked' \in BOOLEAN
    BY <1>1 DEF HandleEvent
  <2>4. /\ loop' \in {"recv", "send"}
        /\ shutting' \in BOOLEAN
    BY <1>1, Zenon DEF HandleEvent, HandleTimerTick, HandleChannel, HandleCaConnSetItem,
       HandleShutdown, TaskTypeOK
  <2>5. TaskTypeOK'
    BY <1>1, <2>3, <2>4 DEF HandleEvent, TaskTypeOK
  <2>6. QED
    BY <2>2, <2>5
<1>2. CASE SendToSet
  <2>1. tosend \in Seq(Order) /\ tosend # <<>>
    BY <1>2 DEF SendToSet, QueueTypeOK, Order
  <2>2. Head(tosend) \in Order /\ tosend' \in Seq(Order)
    BY <1>2, <2>1 DEF SendToSet
  <2>3. /\ setq' \in Seq(Posts \cup {"CheckHealth", "Shutdown", "QueryItem"})
        /\ Len(setq') <= SetCap
    BY <1>2, <2>2, DaemonAssumption DEF SendToSet, QueueTypeOK, Order
  <2>4. QED
    BY <1>2, <2>2, <2>3 DEF SendToSet, QueueTypeOK, TaskTypeOK, Order
<1>3. CASE SendFails
  <2>1. tokens' \in 0 .. 1
    BY <1>3 DEF SendFails, QueueTypeOK, OneTickAround, HandlesTick
  <2>2. tosend' \in Seq(Posts \cup {"CheckHealth", "Shutdown"})
    BY <1>3 DEF SendFails
  <2>3. QED
    BY <1>3, <2>1, <2>2 DEF SendFails, QueueTypeOK, TaskTypeOK
<1>4. CASE Handled
  <2>1. tokens' \in 0 .. 1
    BY <1>4 DEF Handled, QueueTypeOK
  <2>2. QED
    BY <1>4, <2>1 DEF Handled, QueueTypeOK, TaskTypeOK
<1>5. CASE Joins
  BY <1>5 DEF Joins, QueueTypeOK, TaskTypeOK
<1>6. QED
  BY <1>1, <1>2, <1>3, <1>4, <1>5 DEF LoopStep

\* And so does the set.
LEMMA SetTypes ==
  ASSUME QueueTypeOK, TaskTypeOK, SetStep \/ SetError \/ ConnItem
  PROVE  QueueTypeOK' /\ TaskTypeOK'
<1> USE DEF loopVars, tickerVars, setVars, reportVars
<1>1. CASE SetEvent
  <2>1. /\ setq' \in Seq(Posts \cup {"CheckHealth", "Shutdown", "QueryItem"})
        /\ Len(setq') <= SetCap
    BY <1>1, DaemonAssumption DEF SetEvent, QueueTypeOK
  <2>2. set' \in {"recv", "report", "store", "done"}
    BY <1>1 DEF SetEvent
  <2>3. QED
    BY <1>1, <2>1, <2>2 DEF SetEvent, QueueTypeOK, TaskTypeOK
<1>2. CASE SetReports
  BY <1>2, DaemonAssumption DEF SetReports, QueueTypeOK, TaskTypeOK
<1>3. CASE SetStores
  BY <1>3 DEF SetStores, QueueTypeOK, TaskTypeOK
<1>4. CASE SetError
  <2>1. /\ setq' \in Seq(Posts \cup {"CheckHealth", "Shutdown", "QueryItem"})
        /\ Len(setq') <= SetCap
    BY <1>4, DaemonAssumption DEF SetError
  <2>2. QED
    BY <1>4, <2>1 DEF SetError, QueueTypeOK, TaskTypeOK
<1>5. CASE ConnItem
  <2>1. /\ setq' \in Seq(Posts \cup {"CheckHealth", "Shutdown", "QueryItem"})
        /\ Len(setq') <= SetCap
    BY <1>5, DaemonAssumption DEF ConnItem, QueueTypeOK
  <2>2. left' \in [post : 0 .. MaxPosts, item : 0 .. MaxItems]
    <3>1. left \in [post : 0 .. MaxPosts, item : 0 .. MaxItems] /\ left.item > 0
      BY <1>5 DEF ConnItem, QueueTypeOK
    <3>2. left' = [left EXCEPT !.item = left.item - 1]
      BY <1>5 DEF ConnItem
    <3>3. left.item - 1 \in 0 .. MaxItems
      BY <3>1, DaemonAssumption
    <3>4. QED
      BY <3>1, <3>2, <3>3
  <2>3. QED
    BY <1>5, <2>1, <2>2 DEF ConnItem, QueueTypeOK, TaskTypeOK
<1>6. QED
  BY <1>1, <1>2, <1>3, <1>4, <1>5 DEF SetStep

-----------------------------------------------------------------------------
(* The tick *)

\* Posting a tick is the only way that one comes into the queue.
LEMMA PostTicks ==
  ASSUME QueueTypeOK, NEW e \in Event, Post(e)
  PROVE  Ticks' = IF e = "TimerTick" THEN Ticks \cup {Len(eventq) + 1} ELSE Ticks
<1>1. eventq \in Seq(Event) /\ eventq' = Append(eventq, e)
  BY DEF QueueTypeOK, Post, Event
<1>2. DOMAIN eventq' = DOMAIN eventq \cup {Len(eventq) + 1}
  BY <1>1
<1>3. /\ \A i \in DOMAIN eventq : eventq'[i] = eventq[i]
      /\ eventq'[Len(eventq) + 1] = e
      /\ Len(eventq) + 1 \notin DOMAIN eventq
  BY <1>1
<1>4. QED
  BY <1>2, <1>3 DEF Ticks

\* A step that has nothing to do with ticks leaves them as they are.
LEMMA TickAside ==
  ASSUME OneTickAround, Ticks' = Ticks, HandlesTick' => HandlesTick, tokens' = tokens,
         ticker' = ticker \/ ticker # "token"
  PROVE  OneTickAround'
BY DEF OneTickAround

\* Every step passes the tick on, or leaves it where it is.
LEMMA TickKept ==
  ASSUME QueueTypeOK, TaskTypeOK, OneTickAround, Next
  PROVE  OneTickAround'
<1> USE DEF loopVars, tickerVars, setVars, reportVars
<1>1. CASE PostEvent
  <2>1. PICK e \in Posts : Post(e)
    BY <1>1 DEF PostEvent
  <2>2. Ticks' = Ticks
    BY <2>1, PostTicks DEF Event, Posts
  <2>3. QED
    BY <1>1, <2>2, TickAside DEF PostEvent, HandlesTick
<1>2. CASE TickerShutdown
  <2>1. Ticks' = Ticks
    BY <1>2, PostTicks DEF Event, TickerShutdown
  <2>2. QED
    BY <1>2, <2>1, TickAside DEF TickerShutdown, HandlesTick
<1>3. CASE TickerTick
  <2>1. Ticks' = Ticks \cup {Len(eventq) + 1}
    BY <1>3, PostTicks DEF Event, TickerTick
  <2>2. Ticks = {} /\ ~HandlesTick /\ ~(tokens > 0)
    BY <1>3 DEF TickerTick, OneTickAround
  <2>3. ticker' = "token" /\ tokens' = 0 /\ HandlesTick' = HandlesTick
    BY <1>3, <2>2 DEF TickerTick, HandlesTick, QueueTypeOK
  <2>4. QED
    BY <2>1, <2>2, <2>3 DEF OneTickAround
<1>4. CASE AdapterSend
  <2>1. Ticks' = Ticks
    BY <1>4, PostTicks DEF Event, AdapterSend
  <2>2. QED
    BY <1>4, <2>1, TickAside DEF AdapterSend, HandlesTick
<1>5. CASE TickerToken
  BY <1>5 DEF TickerToken, OneTickAround, Ticks, HandlesTick
<1>6. CASE HandleEvent
  <2>1. \A i \in Ticks' : i + 1 \in Ticks
    BY <1>6, HandleFacts DEF Ticks
  <2>2. \A i \in Ticks' : i \in Nat
    BY <1>6, HandleFacts DEF Ticks
  <2>3. \A i, j \in Ticks' : i = j
    BY <2>1, <2>2 DEF OneTickAround
  <2>4. CASE Head(eventq) = "TimerTick"
    <3>1. 1 \in Ticks
      BY <1>6, <2>4, HandleFacts DEF Ticks
    <3>2. \A i \in Ticks' : i + 1 = 1 /\ 1 \in DOMAIN eventq'
      BY <2>1, <3>1, <1>6, HandleFacts DEF OneTickAround, Ticks
    <3>3. Ticks' = {}
      BY <1>6, <2>2, <3>2, HandleFacts DEF Ticks
    <3>4. ticker' = "token" /\ tokens' = 0
      BY <1>6, <3>1 DEF HandleEvent, OneTickAround
    <3>5. QED
      BY <3>3, <3>4 DEF OneTickAround
  <2>5. CASE Head(eventq) # "TimerTick"
    <3>1. ~HandlesTick' /\ ticker' = ticker /\ tokens' = tokens
      BY <1>6, <2>5 DEF HandleEvent, HandlesTick
    <3>2. Ticks' # {} => Ticks # {}
      BY <2>1
    <3>3. QED
      BY <2>3, <3>1, <3>2 DEF OneTickAround
  <2>6. QED
    BY <2>4, <2>5
<1>7. CASE SendFails \/ Handled
  <2>1. Ticks' = Ticks /\ ticker' = ticker
    BY <1>7 DEF SendFails, Handled, Ticks
  <2>2. ~HandlesTick'
    BY <1>7 DEF SendFails, Handled, HandlesTick
  <2>3. CASE ticked
    <3>1. HandlesTick
      BY <1>7, <2>3 DEF SendFails, Handled, HandlesTick
    <3>2. Ticks = {} /\ ticker = "token"
      BY <3>1 DEF OneTickAround
    <3>3. QED
      BY <2>1, <2>2, <3>2 DEF OneTickAround
  <2>4. CASE ~ticked
    <3>1. tokens' = tokens
      BY <1>7, <2>4 DEF SendFails, Handled
    <3>2. QED
      BY <2>1, <2>2, <3>1 DEF OneTickAround
  <2>5. QED
    BY <2>3, <2>4
<1>8. CASE SendToSet \/ Joins
  BY <1>8, TickAside DEF SendToSet, Joins, Ticks, HandlesTick
<1>9. CASE Signal \/ TickerWakes \/ AdapterRecv
  BY <1>9, TickAside DEF Signal, TickerWakes, AdapterRecv, Ticks, HandlesTick
<1>10. CASE SetStep \/ SetError \/ ConnItem
  BY <1>10, TickAside DEF SetStep, SetEvent, SetReports, SetStores, SetError, ConnItem, Ticks,
     HandlesTick
<1>11. CASE Aside
  BY <1>11, TickAside DEF Aside, Ticks, HandlesTick
<1>12. QED
  BY <1>1, <1>2, <1>3, <1>4, <1>5, <1>6, <1>7, <1>8, <1>9, <1>10, <1>11
  DEF Next, TickerStep, LoopStep, AdapterStep

-----------------------------------------------------------------------------
(* The end *)

\* Through every step, what shuts the daemon down comes from a signal or from the end
\* of the set.
LEMMA CauseKept ==
  ASSUME QueueTypeOK, TaskTypeOK, ShutdownBySignal, Next
  PROVE  ShutdownBySignal'
<1> USE DEF loopVars, tickerVars, setVars, reportVars
<1>1. ASSUME NEW e \in Event, Post(e), e = "Shutdown" => signal, signal' = signal
      PROVE  \A i \in DOMAIN eventq' : eventq'[i] = "Shutdown" => signal'
  <2>1. \A i \in DOMAIN eventq' : eventq'[i] = IF i \in DOMAIN eventq THEN eventq[i] ELSE e
    BY <1>1, PostKeeps
  <2>2. QED
    BY <1>1, <2>1 DEF ShutdownBySignal
<1>2. CASE PostEvent
  <2>1. PICK e \in Posts : Post(e)
    BY <1>2 DEF PostEvent
  <2>2. \A i \in DOMAIN eventq' : eventq'[i] = "Shutdown" => signal'
    BY <1>1, <1>2, <2>1 DEF Event, Posts, PostEvent
  <2>3. QED
    BY <1>2, <2>2 DEF PostEvent, ShutdownBySignal
<1>3. CASE TickerShutdown
  <2>1. signal /\ signal' = signal
    BY <1>3 DEF TickerShutdown, ShutdownBySignal
  <2>2. QED
    BY <1>3, <2>1 DEF TickerShutdown, ShutdownBySignal
<1>4. CASE TickerTick
  <2>1. \A i \in DOMAIN eventq' : eventq'[i] = "Shutdown" => signal'
    BY <1>1, <1>4 DEF Event, TickerTick
  <2>2. QED
    BY <1>4, <2>1 DEF TickerTick, ShutdownBySignal
<1>5. CASE AdapterSend
  <2>1. \A i \in DOMAIN eventq' : eventq'[i] = "Shutdown" => signal'
    BY <1>1, <1>5 DEF Event, AdapterSend
  <2>2. QED
    BY <1>5, <2>1 DEF AdapterSend, ShutdownBySignal
<1>6. CASE HandleEvent
  <2>1. \A i \in DOMAIN eventq' : eventq'[i] = "Shutdown" => signal
    BY <1>6, HandleFacts DEF ShutdownBySignal
  <2>2. /\ loop' \in {"recv", "send"} /\ signal' = signal /\ ticker' = ticker
        /\ shutting' => shutting \/ Head(eventq) = "Shutdown"
    BY <1>6 DEF HandleEvent, HandleTimerTick, HandleChannel, HandleCaConnSetItem,
       HandleShutdown
  <2>3. shutting' => signal
    BY <1>6, <2>2, HandleFacts DEF ShutdownBySignal
  <2>4. QED
    BY <2>1, <2>2, <2>3 DEF ShutdownBySignal
<1>7. CASE Signal \/ TickerWakes \/ TickerToken \/ AdapterRecv
  BY <1>7 DEF Signal, TickerWakes, TickerToken, AdapterRecv, ShutdownBySignal
<1>8. CASE SendToSet \/ SendFails \/ Handled \/ Joins
  BY <1>8 DEF SendToSet, SendFails, Handled, Joins, ShutdownBySignal
<1>9. CASE SetStep \/ SetError \/ ConnItem
  BY <1>9 DEF SetStep, SetEvent, SetReports, SetStores, SetError, ConnItem, ShutdownBySignal
<1>10. CASE Aside
  BY <1>10 DEF Aside, ShutdownBySignal
<1>11. QED
  BY <1>2, <1>3, <1>4, <1>5, <1>6, <1>7, <1>8, <1>9, <1>10
  DEF Next, TickerStep, LoopStep, AdapterStep

\* Once the set has ended it stays so, and stores nothing.
LEMMA SetEndsOnce ==
  ASSUME Next, set = "done"
  PROVE  set' = "done" /\ ~SetStores
BY DEF Next, PostEvent, Signal, TickerStep, TickerWakes, TickerShutdown, TickerTick, TickerToken,
   LoopStep, HandleEvent, SendToSet, SendFails, Handled, Joins, SetStep, SetEvent, SetReports,
   SetStores, SetError, ConnItem, AdapterStep, AdapterRecv, AdapterSend, Aside, setVars

\* What a step does to the insert pipe, and that only Joins ends the daemon.
LEMMA DaemonStep ==
  ASSUME Next
  PROVE  \/ UNCHANGED pipeVars /\ (loop' = "done" => loop = "done" \/ Joins)
         \/ SetStores /\ loop' = loop
         \/ HookStep(set = "done") /\ loop' = loop
         \/ (\E w \in InsertWorkers : InserterStep(w)) /\ loop' = loop
BY DEF Next, PostEvent, Signal, TickerStep, TickerWakes, TickerShutdown, TickerTick, TickerToken,
   LoopStep, HandleEvent, HandleTimerTick, HandleChannel, HandleCaConnSetItem, HandleShutdown,
   SendToSet, SendFails, Handled, Joins, SetStep, SetEvent, SetReports,
   SetStores, SetError, ConnItem, AdapterStep, AdapterRecv, AdapterSend, Aside, loopVars

\* No stage ends before the one that fills its queue.
LEMMA EndKept ==
  ASSUME PipeTypeOK, EndInOrder, Next
  PROVE  EndInOrder'
<1>1. CASE UNCHANGED pipeVars /\ (loop' = "done" => loop = "done" \/ Joins)
  BY <1>1, SetEndsOnce DEF pipeVars, EndInOrder, Joins
<1>2. CASE SetStores /\ loop' = loop
  BY <1>2, SetEndsOnce DEF SetStores, Store, EndInOrder
<1>3. CASE HookStep(set = "done") /\ loop' = loop
  BY <1>3, SetEndsOnce DEF HookStep, HookRecv, HookSend, HookEnds, EndInOrder
<1>4. CASE (\E w \in InsertWorkers : InserterStep(w)) /\ loop' = loop
  <2>1. PICK w \in InsertWorkers : InserterStep(w)
    BY <1>4
  <2>2. CASE WorkerRecv(w)
    BY <1>4, <2>2, SetEndsOnce DEF WorkerRecv, EndInOrder, PipeTypeOK
  <2>3. CASE WorkerInserts(w)
    BY <1>4, <2>3, SetEndsOnce DEF WorkerInserts, EndInOrder, PipeTypeOK
  <2>4. CASE WorkerWakes(w) \/ WorkerEnds(w)
    BY <1>4, <2>4, SetEndsOnce DEF WorkerWakes, WorkerEnds, EndInOrder, PipeTypeOK
  <2>5. QED
    BY <2>1, <2>2, <2>3, <2>4 DEF InserterStep
<1>5. QED
  BY <1>1, <1>2, <1>3, <1>4, DaemonStep

\* Every item stays accounted for.
LEMMA PipeKept ==
  ASSUME PipeTypeOK, Balance, Next
  PROVE  PipeTypeOK' /\ Balance'
<1>1. (set = "done") \in BOOLEAN
  OBVIOUS
<1>2. QED
  BY <1>1, DaemonStep, PipeAside, HookKeeps, WorkerKeeps DEF SetStores

\* Every step keeps the types of the daemon.
LEMMA TypeKept ==
  ASSUME QueueTypeOK, TaskTypeOK, OneTickAround, Next
  PROVE  QueueTypeOK' /\ TaskTypeOK'
<1>1. Aside => QueueTypeOK' /\ TaskTypeOK'
  BY DEF Aside, loopVars, tickerVars, setVars, reportVars, QueueTypeOK, TaskTypeOK
<1>2. QED
  BY <1>1, TickerTypes, LoopTypes, SetTypes DEF Next

\* All of it together is kept by every step.
LEMMA NextKeeps == IInv /\ [Next]_vars => IInv'
<1>1. CASE IInv /\ Next
  BY <1>1, TypeKept, TickKept, PipeKept, EndKept, CauseKept DEF IInv, TypeOK
<1>2. CASE IInv /\ UNCHANGED vars
  BY <1>2 DEF vars, loopVars, tickerVars, setVars, reportVars, pipeVars, IInv, TypeOK, QueueTypeOK,
     TaskTypeOK, PipeTypeOK, OneTickAround, Ticks, HandlesTick, Balance, Inserting, EndInOrder,
     ShutdownBySignal
<1>3. QED
  BY <1>1, <1>2

\* So it holds always.
LEMMA InvHolds == Spec => []IInv
BY InitInv, NextKeeps, PTL DEF Spec

-----------------------------------------------------------------------------
(* Every variable keeps its type, every queue its capacity, and the ticker *)
(* is never owed more than one token.                                      *)
THEOREM TypeCorrect == Spec => []TypeOK
<1>1. IInv => TypeOK
  BY DEF IInv
<1>2. QED
  BY <1>1, InvHolds, PTL

(* There is one tick around at a time, so the send of a token back to the  *)
(* ticker, at the end of a tick's handler, finds room.                     *)
THEOREM OneTickCorrect == Spec => []OneTickAround
<1>1. IInv => OneTickAround
  BY DEF IInv
<1>2. QED
  BY <1>1, InvHolds, PTL

(* The daemon leaves its loop only after a signal or because the set is    *)
(* gone.                                                                   *)
THEOREM LeavesForCauseCorrect == Spec => []LeavesForCause
<1>1. IInv => LeavesForCause
  BY DEF IInv, ShutdownBySignal, LeavesForCause
<1>2. QED
  BY <1>1, InvHolds, PTL

(* When the daemon has ended, every item that the set has passed on is     *)
(* accounted for.                                                          *)
THEOREM DrainedCorrect == Spec => []DrainedAtEnd
<1>1. IInv => DrainedAtEnd
  <2> SUFFICES ASSUME IInv, loop = "done" PROVE set = "done" /\ stored = inserted + dropped
    BY DEF DrainedAtEnd
  <2>1. \A w \in InsertWorkers : inserter[w] = "ended"
    BY DEF IInv, EndInOrder
  <2>2. hook = "ended" /\ hookq = 0
    BY <2>1, PipeAssumption DEF IInv, EndInOrder
  <2>3. set = "done" /\ insertq = 0
    BY <2>2 DEF IInv, EndInOrder
  <2>4. Inserting = {}
    BY <2>1 DEF Inserting
  <2>5. Cardinality(Inserting) = 0
    BY <2>4, FS_EmptySet
  <2>6. QED
    BY <2>2, <2>3, <2>5 DEF IInv, Balance, TypeOK, PipeTypeOK
<1>2. QED
  BY <1>1, InvHolds, PTL
=============================================================================
