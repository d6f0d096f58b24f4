--------------------------- MODULE ConnSetProofs ---------------------------
(***************************************************************************)
(* Proofs about the CaConnSet task for every set of channels and           *)
(* addresses and every capacity of the queues.                             *)
(***************************************************************************)
EXTENDS ConnSet, FiniteSetTheorems, WellFoundedInduction, TLAPS

\* A send never reports the end of a CaConn, and goes to a CaConn in the map.
OutOK ==
  \A p \in out : /\ p.op = "self" => p.ev.kind # "EndOfStream"
                 /\ p.op = "cmd" => p.addr \in ress

\* At most one end-of-stream event of `a' is queued.
Uniq(a) == \A i, j \in DOMAIN evq : evq[i] = Eos(a) /\ evq[j] = Eos(a) => i = j

\* EosAccountsForEnd for one address.
EosAcc(a) ==
  /\ EosQueued(a) <=> (a \in ress /\ phase[a] \in {"signaled", "ended"})
  /\ Uniq(a)
  /\ phase[a] \in {"run", "stop", "eos"} => a \in ress
  /\ a \in ress => phase[a] # "none"
  /\ a \notin ress => \/ phase[a] \in {"none", "ended"}
                      \/ [op |-> "join", addr |-> a] \in out

IInv == setpc = "run" => (\A a \in Addrs : EosAcc(a)) /\ OutOK

\* What becomes of the queue of events: unchanged, emptied, popped, extended.
LEMMA TakeType ==
  ASSUME TypeOK, NEW k, Take(k)
  PROVE  /\ evq' \in Seq(Event)
         /\ Head(evq) \in Event /\ Head(evq).kind = k
         /\ setpc = "run" /\ out = {}
  BY DEF TypeOK, Take

\* The daemon's events are events of the set's queue, and end no task.
LEMMA CtrlEventType ==
  \A ev \in CtrlEvent : ev \in Event /\ ev.kind # "EndOfStream"
BY DEF CtrlEvent, Event

\* What CaConnSetCtrl makes is such an event.
LEMMA CtrlSendType ==
  /\ \A c \in Channels : /\ [kind |-> "ChannelAdd", ch |-> c] \in CtrlEvent
                         /\ [kind |-> "ChannelRemove", ch |-> c] \in CtrlEvent
  /\ [kind |-> "CheckHealth"] \in CtrlEvent /\ [kind |-> "Shutdown"] \in CtrlEvent
BY DEF CtrlEvent

\* All that a step of the daemon does to the set is to queue such an event.
LEMMA CtrlStep ==
  ASSUME TypeOK, Ctrl
  PROVE  /\ \/ evq' = evq
            \/ setpc = "run" /\ \E ev \in CtrlEvent : evq' = Append(evq, ev)
         /\ UNCHANGED <<setVars, out, connVars, pipeVars, sent>>
<1>1. ASSUME NEW ev \in CtrlEvent, NEW b, CtrlSend(ev, b)
      PROVE  /\ \/ evq' = evq
                \/ setpc = "run" /\ \E e \in CtrlEvent : evq' = Append(evq, e)
             /\ UNCHANGED <<setVars, out, connVars, pipeVars, sent>>
  BY <1>1 DEF CtrlSend, Passes
<1>2. CASE CtrlAddChannel \/ CtrlRemoveChannel \/ CtrlCheckHealth \/ CtrlShutdown
  BY <1>1, <1>2, CtrlSendType
  DEF CtrlAddChannel, CtrlRemoveChannel, CtrlCheckHealth, CtrlShutdown
<1>3. ASSUME NEW ev \in sending, CtrlSent(ev)
      PROVE  /\ setpc = "run" /\ \E e \in CtrlEvent : evq' = Append(evq, e)
             /\ UNCHANGED <<setVars, out, connVars, pipeVars, sent>>
  BY <1>3 DEF CtrlSent, Passes, TypeOK
<1>4. CASE CtrlSendFails \/ CtrlCrowds \/ CtrlReceive
  BY <1>4 DEF CtrlSendFails, CtrlCrowds, CtrlReceive
<1>5. QED
  BY <1>2, <1>3, <1>4 DEF Ctrl

\* The set types every value that handle_event and the other tasks compute.
THEOREM TypeCorrect == Spec => []TypeOK
<1>1. Init => TypeOK
  <2> SUFFICES ASSUME Init PROVE TypeOK
    OBVIOUS
  <2>1. evq \in Seq(Event) /\ cmdq \in [Addrs -> Seq(Command)]
        /\ sent \in [Channels -> Seq(Addrs)]
    BY DEF Init
  <2>2. chst \in [Channels -> ChannelState]
    BY DEF Init, ChannelState, ChannelSt, AddrOrNone
  <2>3. budget \in [Inputs -> Nat]
    BY SetAssumption DEF Init
  <2>4. QED
    BY <2>1, <2>2, <2>3 DEF Init, TypeOK, Phase
<1>2. TypeOK /\ [Next]_vars => TypeOK'
  <2> SUFFICES ASSUME TypeOK, [Next]_vars PROVE TypeOK'
    OBVIOUS
  <2> USE DEF ctrlVars
  <2>1. CASE HandleAddChannel
    <3>1. Head(evq) \in Event /\ evq' \in Seq(Event) /\ Head(evq).ch \in Channels
      BY <2>1, TakeType DEF HandleAddChannel, Event
    <3>2. chst' \in [Channels -> ChannelState]
      BY <2>1, <3>1 DEF HandleAddChannel, TypeOK, ChannelStTo, ChannelState, ChannelSt
    <3>3. out' \in SUBSET Pending
      BY <2>1, <3>1 DEF HandleAddChannel, Pending
    <3>4. QED
      BY <2>1, <3>1, <3>2, <3>3 DEF HandleAddChannel, TypeOK, connVars, pipeVars
  <2>2. CASE HandleSeriesLookupResult
    <3>1. Head(evq) \in Event /\ evq' \in Seq(Event) /\ Head(evq).ch \in Channels
      BY <2>2, TakeType DEF HandleSeriesLookupResult, Event
    <3>2. [kind |-> "ChannelAddWithStatusId", ch |-> Head(evq).ch] \in Event
      BY <3>1 DEF Event
    <3>3. out' \in SUBSET Pending
      BY <2>2, <3>2 DEF HandleSeriesLookupResult, Pending
    <3>4. QED
      BY <2>2, <3>1, <3>3 DEF HandleSeriesLookupResult, TypeOK, setVars, connVars, pipeVars
  <2>3. CASE HandleAddChannelWithStatusId
    <3>1. Head(evq) \in Event /\ evq' \in Seq(Event) /\ Head(evq).ch \in Channels
      BY <2>3, TakeType DEF HandleAddChannelWithStatusId, Event
    <3>2. chst' \in [Channels -> ChannelState]
      <4>1. ChannelStTo(Head(evq).ch, "searchPending") \in [Channels -> ChannelState]
        BY <3>1 DEF TypeOK, ChannelStTo, ChannelState, ChannelSt
      <4>2. QED
        BY <2>3, <4>1 DEF HandleAddChannelWithStatusId, TypeOK
    <3>3. out' \in SUBSET Pending
      BY <2>3, <3>1 DEF HandleAddChannelWithStatusId, TypeOK, Pending
    <3>4. QED
      BY <2>3, <3>1, <3>2, <3>3 DEF HandleAddChannelWithStatusId, TypeOK, connVars, pipeVars
  <2>4. CASE HandleAddChannelWithAddr
    <3>1. /\ Head(evq) \in Event /\ evq' \in Seq(Event)
          /\ Head(evq).ch \in Channels /\ Head(evq).addr \in Addrs
      BY <2>4, TakeType DEF HandleAddChannelWithAddr, Event
    <3>2. ress' \in SUBSET Addrs
      BY <2>4, <3>1 DEF HandleAddChannelWithAddr, TypeOK
    <3>3. phase' \in [Addrs -> Phase] /\ cmdq' \in [Addrs -> Seq(Command)]
      BY <2>4, <3>1 DEF HandleAddChannelWithAddr, TypeOK, Phase
    <3>4. [cmd |-> "ChannelAdd", ch |-> Head(evq).ch] \in Command
      BY <3>1 DEF Command
    <3>5. out' \in SUBSET Pending
      BY <2>4, <3>1, <3>4 DEF HandleAddChannelWithAddr, Pending
    <3>6. QED
      BY <2>4, <3>1, <3>2, <3>3, <3>5 DEF HandleAddChannelWithAddr, TypeOK, pipeVars
  <2>5. CASE HandleRemoveChannel
    <3>1. Head(evq) \in Event /\ evq' \in Seq(Event) /\ Head(evq).ch \in Channels
      BY <2>5, TakeType DEF HandleRemoveChannel, Event
    <3>2. chst' \in [Channels -> ChannelState]
      BY <2>5, <3>1 DEF HandleRemoveChannel, TypeOK, ChannelStTo, ChannelState, ChannelSt
    <3>3. QED
      BY <2>5, <3>1, <3>2 DEF HandleRemoveChannel, TypeOK, connVars, pipeVars
  <2>6. CASE HandleIocQueryResult
    <3> DEFINE res == Head(evq).res
               found == Found(res)
    <3>1. Head(evq) \in Event /\ evq' \in Seq(Event) /\ res \in SearchResult
      BY <2>6, TakeType DEF HandleIocQueryResult, Event
    <3>2. PICK batch \in SUBSET Channels : res \in [batch -> AddrOrNone]
      BY <3>1 DEF SearchResult
    <3>3. chst' \in [Channels -> ChannelState]
      BY <2>6, <3>2 DEF HandleIocQueryResult, TypeOK, ChannelState, ChannelSt, AddrOrNone
    <3>4. \A c \in found : [kind |-> "ChannelAddWithAddr", ch |-> c, addr |-> res[c]] \in Event
      BY <3>2 DEF Event, AddrOrNone, Found
    <3>5. out' \in SUBSET Pending
      <4>1. out' = {[op |-> "self", ev |-> [kind |-> "ChannelAddWithAddr",
                                            ch |-> c, addr |-> res[c]]] : c \in found}
        BY <2>6 DEF HandleIocQueryResult
      <4> HIDE DEF res, found
      <4>2. QED
        BY <3>4, <4>1 DEF Pending
    <3>6. QED
      BY <2>6, <3>1, <3>3, <3>5 DEF HandleIocQueryResult, TypeOK, connVars, pipeVars
  <2>7. CASE HandleCheckHealth
    BY <2>7, TakeType DEF HandleCheckHealth, TypeOK, Pending, setVars, connVars, pipeVars
  <2>8. CASE HandleShutdown
    <3>1. [cmd |-> "Shutdown"] \in Command
      BY DEF Command
    <3>2. out' \in SUBSET Pending
      BY <2>8, <3>1 DEF HandleShutdown, ShutdownTargets, TypeOK, Pending
    <3>3. QED
      BY <2>8, <3>2, TakeType DEF HandleShutdown, TypeOK, connVars, pipeVars
  <2>9. CASE HandleQueryItem
    BY <2>9, TakeType DEF HandleQueryItem, TypeOK, setVars, connVars, pipeVars
  <2>10. CASE HandleCaConnEos
    <3>1. Head(evq) \in Event /\ evq' \in Seq(Event) /\ Head(evq).addr \in Addrs
      BY <2>10, TakeType DEF HandleCaConnEos, Event
    <3>2. out' \in SUBSET Pending
      BY <2>10, <3>1 DEF HandleCaConnEos, Pending
    <3>3. QED
      BY <2>10, <3>1, <3>2 DEF HandleCaConnEos, AfterEos, TypeOK, connVars, pipeVars
  <2>11. ASSUME NEW p \in out, Await(p) PROVE TypeOK'
    <3>1. p \in Pending /\ out' \in SUBSET Pending
      BY <2>11 DEF TypeOK, Await, SendSelf, SendLookup, SendSearch, SendHealthy,
                   SendCommand, SendCommandFails, Join
    <3>2. CASE SendSelf(p)
      <4>1. p.ev \in Event
        BY <3>1, <3>2 DEF SendSelf, Pending
      <4>2. QED
        BY <3>1, <3>2, <4>1 DEF SendSelf, TypeOK, setVars, connVars, pipeVars
    <3>3. CASE SendLookup(p)
      <4>1. p.ch \in Channels
        BY <3>1, <3>3 DEF SendLookup, Pending
      <4>2. QED
        BY <3>1, <3>3, <4>1 DEF SendLookup, TypeOK, setVars, connVars
    <3>4. CASE SendSearch(p)
      <4>1. p.ch \in Channels
        BY <3>1, <3>4 DEF SendSearch, Pending
      <4>2. QED
        BY <3>1, <3>4, <4>1 DEF SendSearch, TypeOK, setVars, connVars
    <3>5. CASE SendHealthy(p)
      BY <3>1, <3>5 DEF SendHealthy, TypeOK, setVars, connVars, pipeVars
    <3>6. CASE SendCommand(p)
      <4>1. p.addr \in Addrs /\ p.cmd \in Command
        BY <3>1, <3>6 DEF SendCommand, Pending
      <4>2. p.cmd.cmd = "ChannelAdd" => p.cmd.ch \in Channels
        BY <4>1 DEF Command
      <4>3. sent' \in [Channels -> Seq(Addrs)] /\ cmdq' \in [Addrs -> Seq(Command)]
        BY <3>6, <4>1, <4>2 DEF SendCommand, TypeOK
      <4>4. QED
        BY <3>1, <3>6, <4>3 DEF SendCommand, TypeOK, setVars, pipeVars
    <3>7. CASE SendCommandFails(p)
      BY <3>1, <3>7 DEF SendCommandFails, TypeOK, connVars, pipeVars
    <3>8. CASE Join(p)
      BY <3>1, <3>8 DEF Join, TypeOK, setVars, connVars, pipeVars
    <3>9. QED
      BY <2>11, <3>2, <3>3, <3>4, <3>5, <3>6, <3>7, <3>8 DEF Await
  <2>12. CASE RunEnds
    BY <2>12 DEF RunEnds, TypeOK, connVars, pipeVars
  <2>13. ASSUME NEW a \in Addrs, Conn(a) PROVE TypeOK'
    <3> USE DEF TypeOK, setVars, pipeVars, Phase, Inputs
    <3>1. CASE ConnCommand(a)
      BY <3>1 DEF ConnCommand
    <3>2. CASE ConnItem(a)
      BY <3>2 DEF ConnItem
    <3>3. CASE ConnItemSent(a)
      BY <3>3 DEF ConnItemSent, Event
    <3>4. CASE ConnStreamEnds(a)
      BY <3>4 DEF ConnStreamEnds
    <3>5. CASE ConnEosSent(a)
      BY <3>5 DEF ConnEosSent, Event, Eos
    <3>6. CASE ConnDropped(a)
      BY <3>6 DEF ConnDropped
    <3>7. CASE ConnSendFails(a)
      BY <3>7 DEF ConnSendFails
    <3>8. QED
      BY <2>13, <3>1, <3>2, <3>3, <3>4, <3>5, <3>6, <3>7 DEF Conn
  <2>14. CASE Lookup
    <3>1. ASSUME NEW c \in Channels, LookupAnswered(c) PROVE TypeOK'
      BY <3>1 DEF LookupAnswered, TypeOK, Event, setVars, connVars
    <3>2. ASSUME NEW c \in Channels, LookupLost(c) PROVE TypeOK'
      BY <3>2 DEF LookupLost, TypeOK, setVars, connVars
    <3>3. QED
      BY <2>14, <3>1, <3>2 DEF Lookup
  <2>15. CASE Finder
    <3>1. ASSUME NEW batch \in SUBSET searchq, FinderTakes(batch) PROVE TypeOK'
      BY <3>1 DEF FinderTakes, TypeOK, setVars, connVars
    <3>2. ASSUME NEW batch \in finding, FinderAnswers(batch) PROVE TypeOK'
      <4>1. PICK res \in [batch -> AddrOrNone] :
              evq' = Append(evq, [kind |-> "IocAddrQueryResult", res |-> res])
        BY <3>2 DEF FinderAnswers
      <4>2. batch \in SUBSET Channels
        BY <3>2 DEF TypeOK
      <4>3. res \in SearchResult
        BY <4>1, <4>2 DEF SearchResult
      <4>4. [kind |-> "IocAddrQueryResult", res |-> res] \in Event
        BY <4>3 DEF Event
      <4>5. evq' \in Seq(Event)
        BY <4>1, <4>4 DEF TypeOK
      <4>6. QED
        BY <3>2, <4>5 DEF FinderAnswers, TypeOK, setVars, connVars
    <3>3. ASSUME NEW batch \in finding, FinderLoses(batch) PROVE TypeOK'
      BY <3>3 DEF FinderLoses, TypeOK, setVars, connVars
    <3>4. QED
      BY <2>15, <3>1, <3>2, <3>3 DEF Finder
  <2>16. CASE Ctrl
    <3>1. /\ evq' \in Seq(Event)
          /\ UNCHANGED <<setVars, out, connVars, pipeVars, sent>>
      <4>1. evq \in Seq(Event)
        BY DEF TypeOK
      <4>2. ASSUME NEW ev \in CtrlEvent, evq' = Append(evq, ev) PROVE evq' \in Seq(Event)
        BY <4>1, <4>2, CtrlEventType
      <4>3. QED
        BY <2>16, <4>1, <4>2, CtrlStep
    <3>2. /\ outq' \in Nat /\ budget' \in [Inputs -> Nat]
          /\ sending' \in SUBSET CtrlEvent /\ gone' \in BOOLEAN /\ crowded' \in BOOLEAN
      <4> DEFINE Typed == /\ outq' \in Nat /\ budget' \in [Inputs -> Nat]
                          /\ sending' \in SUBSET CtrlEvent
                          /\ gone' \in BOOLEAN /\ crowded' \in BOOLEAN
      <4> SUFFICES Typed
        OBVIOUS
      <4>0. ASSUME NEW ev, Passes(ev)
            PROVE  sending' = {} /\ gone' \in BOOLEAN /\ crowded' \in BOOLEAN
        BY <4>0, Zenon DEF Passes
      <4>1. ASSUME NEW ev \in CtrlEvent, NEW b \in {"add", "remove", "health", "shutdown"},
                   CtrlSend(ev, b)
            PROVE  Typed
        <5>1. outq' \in Nat /\ budget' \in [Inputs -> Nat]
          BY <4>1 DEF CtrlSend, Inputs, TypeOK
        <5>2. CASE Passes(ev)
          BY <4>0, <5>1, <5>2
        <5>3. CASE ~Passes(ev)
          BY <4>1, <5>1, <5>3 DEF CtrlSend, TypeOK
        <5>4. QED
          BY <5>2, <5>3
      <4>2. CASE CtrlAddChannel \/ CtrlRemoveChannel \/ CtrlCheckHealth \/ CtrlShutdown
        <5> HIDE DEF Typed
        <5>1. QED
          BY <4>1, <4>2, CtrlSendType
          DEF CtrlAddChannel, CtrlRemoveChannel, CtrlCheckHealth, CtrlShutdown
      <4>3. ASSUME NEW ev \in sending, CtrlSent(ev) PROVE Typed
        BY <4>0, <4>3 DEF CtrlSent, TypeOK
      <4>4. CASE CtrlSendFails \/ CtrlCrowds \/ CtrlReceive
        <5>1. /\ outq \in Nat /\ budget \in [Inputs -> Nat] /\ sending \in SUBSET CtrlEvent
              /\ gone \in BOOLEAN /\ crowded \in BOOLEAN
          BY DEF TypeOK
        <5>2. CASE CtrlReceive
          BY <5>1, <5>2 DEF CtrlReceive
        <5>3. CASE CtrlSendFails
          BY <5>1, <5>3 DEF CtrlSendFails
        <5>4. CASE CtrlCrowds
          BY <5>1, <5>4 DEF CtrlCrowds
        <5>5. QED
          BY <4>4, <5>2, <5>3, <5>4
      <4>5. QED
        <5> HIDE DEF Typed
        <5>1. QED
          BY <2>16, <4>2, <4>3, <4>4 DEF Ctrl
    <3>3. QED
      BY <3>1, <3>2 DEF TypeOK, setVars, connVars, pipeVars
  <2>17. CASE UNCHANGED vars
    BY <2>17 DEF vars, TypeOK, setVars, connVars, pipeVars
  <2>18. QED
    BY <2>1, <2>2, <2>3, <2>4, <2>5, <2>6, <2>7, <2>8, <2>9, <2>10, <2>11, <2>12,
       <2>13, <2>14, <2>15, <2>16, <2>17
    DEF Next, SetStep, Handle
<1>3. QED
  BY <1>1, <1>2, PTL DEF Spec

-----------------------------------------------------------------------------
(* The queue of events and the CaConn tasks.                               *)

\* Appending an event that is not an end-of-stream event moves no such event.
LEMMA AppendOther ==
  ASSUME TypeOK, NEW ev \in Event, ev.kind # "EndOfStream", evq' = Append(evq, ev),
         NEW a \in Addrs
  PROVE  /\ EosQueued(a)' <=> EosQueued(a)
         /\ Uniq(a) => Uniq(a)'
<1>1. /\ DOMAIN evq = 1..Len(evq) /\ DOMAIN evq' = 1..(Len(evq) + 1)
      /\ Len(evq) \in Nat
      /\ \A i \in 1..Len(evq) : evq'[i] = evq[i]
      /\ evq'[Len(evq) + 1] = ev
  BY DEF TypeOK
<1>2. ev # Eos(a)
  BY DEF Eos
<1>3. \A i \in DOMAIN evq' : evq'[i] = Eos(a) => i \in DOMAIN evq /\ evq[i] = Eos(a)
  BY <1>1, <1>2
<1>4. \A i \in DOMAIN evq : evq[i] = Eos(a) => i \in DOMAIN evq' /\ evq'[i] = Eos(a)
  BY <1>1
<1>5. EosQueued(a)' <=> EosQueued(a)
  BY <1>3, <1>4 DEF EosQueued, Eos
<1>6. QED
  BY <1>3, <1>5 DEF Eos, Uniq

\* Taking an event that is not the end of `a' moves no end-of-stream event of `a'.
LEMMA TakeOther ==
  ASSUME TypeOK, NEW k, Take(k), NEW a \in Addrs, Head(evq) # Eos(a)
  PROVE  /\ EosQueued(a)' <=> EosQueued(a)
         /\ Uniq(a) => Uniq(a)'
<1>1. /\ DOMAIN evq = 1..Len(evq) /\ DOMAIN evq' = 1..(Len(evq) - 1)
      /\ Len(evq) \in Nat
      /\ \A i \in 1..(Len(evq) - 1) : evq'[i] = evq[i + 1]
      /\ Len(evq) > 0
      /\ evq[1] = Head(evq)
  BY DEF TypeOK, Take
<1>2. \A i \in DOMAIN evq' : i + 1 \in DOMAIN evq /\ evq'[i] = evq[i + 1]
  BY <1>1
<1>3. \A i \in DOMAIN evq : evq[i] = Eos(a) => i - 1 \in DOMAIN evq' /\ evq'[i - 1] = Eos(a)
  BY <1>1
<1>4. EosQueued(a)' <=> EosQueued(a)
  BY <1>2, <1>3 DEF EosQueued, Eos
<1>5. ASSUME Uniq(a),
             NEW i \in DOMAIN evq', NEW j \in DOMAIN evq',
             evq'[i] = Eos(a), evq'[j] = Eos(a)
      PROVE  i = j
  BY <1>1, <1>2, <1>5 DEF Uniq
<1>6. QED
  BY <1>4, <1>5 DEF Eos, Uniq

\* Taking the end-of-stream event of `a' leaves none of `a' in the queue.
LEMMA TakeEos ==
  ASSUME TypeOK, Take("EndOfStream"), NEW a \in Addrs, Head(evq) = Eos(a),
         Uniq(a)
  PROVE  ~EosQueued(a)' /\ EosQueued(a)
<1>1. /\ DOMAIN evq = 1..Len(evq) /\ DOMAIN evq' = 1..(Len(evq) - 1)
      /\ Len(evq) \in Nat
      /\ \A i \in 1..(Len(evq) - 1) : evq'[i] = evq[i + 1]
      /\ Len(evq) > 0
      /\ evq[1] = Head(evq)
  BY DEF TypeOK, Take
<1>2. ASSUME NEW i \in DOMAIN evq', evq'[i] = Eos(a) PROVE FALSE
  <2>1. i + 1 \in DOMAIN evq /\ 1 \in DOMAIN evq /\ i + 1 # 1
    BY <1>1, <1>2
  <2>2. QED
    BY <1>1, <1>2, <2>1 DEF Uniq
<1>3. QED
  BY <1>1, <1>2 DEF EosQueued, Eos

\* An address that a step does not concern keeps its part of the invariant.
LEMMA KeepsAcc ==
  ASSUME NEW a \in Addrs, EosAcc(a),
         EosQueued(a)' <=> EosQueued(a), Uniq(a) => Uniq(a)',
         a \in ress' <=> a \in ress, phase'[a] = phase[a],
         [op |-> "join", addr |-> a] \in out => \/ [op |-> "join", addr |-> a] \in out'
                                                \/ phase[a] = "ended"
  PROVE  EosAcc(a)'
BY DEF EosAcc

\* A handler that leaves the CaConn tasks alone.
LEMMA HandlerKeeps ==
  ASSUME TypeOK, IInv, NEW k, Take(k), k # "EndOfStream", UNCHANGED <<ress, phase>>
  PROVE  \A a \in Addrs : EosAcc(a)'
<1> SUFFICES ASSUME NEW a \in Addrs PROVE EosAcc(a)'
  OBVIOUS
<1>1. Head(evq) # Eos(a) /\ setpc = "run" /\ out = {}
  BY TakeType DEF Eos, Take
<1>2. QED
  BY <1>1, TakeOther, KeepsAcc DEF IInv

\* A step that queues an event other than the end of a CaConn.
LEMMA AppendKeeps ==
  ASSUME TypeOK, IInv, setpc = "run", NEW ev \in Event, ev.kind # "EndOfStream",
         evq' = Append(evq, ev), UNCHANGED <<ress, phase>>,
         \A p \in out : p.op = "join" => p \in out'
  PROVE  \A a \in Addrs : EosAcc(a)'
<1> SUFFICES ASSUME NEW a \in Addrs PROVE EosAcc(a)'
  OBVIOUS
<1>1. QED
  BY AppendOther, KeepsAcc DEF IInv

\* A step that leaves the event queue and the task of this address alone.
LEMMA OtherKeeps ==
  ASSUME IInv, setpc = "run", NEW a \in Addrs, UNCHANGED <<evq, ress>>, phase'[a] = phase[a],
         [op |-> "join", addr |-> a] \in out => \/ [op |-> "join", addr |-> a] \in out'
                                                \/ phase[a] = "ended"
  PROVE  EosAcc(a)'
BY KeepsAcc DEF IInv, EosQueued, Uniq, Eos

\* A step of the CaConn task between two phases that the set can not tell apart.
LEMMA PhaseKeeps ==
  ASSUME TypeOK, IInv, setpc = "run", UNCHANGED <<evq, ress, out>>, NEW b \in Addrs, NEW q,
         phase' = [phase EXCEPT ![b] = q],
         \/ phase[b] \in {"run", "stop"} /\ q \in {"stop", "eos"}
         \/ phase[b] = "signaled" /\ q = "ended"
  PROVE  \A a \in Addrs : EosAcc(a)'
<1> SUFFICES ASSUME NEW a \in Addrs PROVE EosAcc(a)'
  OBVIOUS
<1>1. CASE a # b
  BY <1>1, OtherKeeps DEF TypeOK
<1>2. CASE a = b
  BY <1>2 DEF IInv, EosAcc, EosQueued, Uniq, Eos, TypeOK
<1>3. QED
  BY <1>1, <1>2

\* The inductive invariant holds in every reachable state.
LEMMA IInvCorrect == Spec => []IInv
<1>1. Init => IInv
  BY DEF Init, IInv, EosAcc, OutOK, EosQueued, Uniq
<1>2. TypeOK /\ IInv /\ [Next]_vars => IInv'
  <2> SUFFICES ASSUME TypeOK, IInv, [Next]_vars, setpc' = "run"
               PROVE  (\A a \in Addrs : EosAcc(a)') /\ OutOK'
    BY DEF IInv
  <2>1. CASE HandleAddChannel
    BY <2>1, HandlerKeeps DEF HandleAddChannel, connVars, OutOK
  <2>2. CASE HandleSeriesLookupResult
    BY <2>2, HandlerKeeps DEF HandleSeriesLookupResult, setVars, connVars, OutOK
  <2>3. CASE HandleAddChannelWithStatusId
    BY <2>3, HandlerKeeps DEF HandleAddChannelWithStatusId, Take, connVars, OutOK
  <2>4. CASE HandleAddChannelWithAddr
    <3> DEFINE b == Head(evq).addr
    <3>1. Head(evq) \in Event /\ b \in Addrs /\ setpc = "run" /\ out = {}
      BY <2>4, TakeType DEF HandleAddChannelWithAddr, Event
    <3>2. Take("ChannelAddWithAddr")
      BY <2>4 DEF HandleAddChannelWithAddr
    <3>3. ress' = ress \cup {b}
          /\ phase' = IF b \notin ress THEN [phase EXCEPT ![b] = "run"] ELSE phase
      BY <2>4 DEF HandleAddChannelWithAddr
    <3> HIDE DEF b
    <3>4. ASSUME NEW a \in Addrs PROVE EosAcc(a)'
      <4>1. Head(evq) # Eos(a)
        BY <3>2, TakeType DEF Eos
      <4>2. (EosQueued(a)' <=> EosQueued(a)) /\ (Uniq(a) => Uniq(a)')
        BY <3>2, <4>1, TakeOther
      <4>3. EosAcc(a)
        BY <3>1 DEF IInv
      <4>4. CASE a # b \/ b \in ress
        BY <3>1, <3>3, <4>2, <4>3, <4>4, KeepsAcc DEF TypeOK
      <4>5. CASE a = b /\ b \notin ress
        BY <3>1, <3>3, <4>2, <4>3, <4>5 DEF EosAcc, TypeOK
      <4>6. QED
        BY <4>4, <4>5
    <3>5. OutOK'
      BY <2>4 DEF HandleAddChannelWithAddr, OutOK
    <3>6. QED
      BY <3>4, <3>5
  <2>5. CASE HandleRemoveChannel
    BY <2>5, HandlerKeeps DEF HandleRemoveChannel, Take, connVars, OutOK
  <2>6. CASE HandleIocQueryResult
    BY <2>6, HandlerKeeps DEF HandleIocQueryResult, connVars, OutOK
  <2>7. CASE HandleCheckHealth
    BY <2>7, HandlerKeeps DEF HandleCheckHealth, setVars, connVars, OutOK
  <2>8. CASE HandleShutdown
    BY <2>8, HandlerKeeps DEF HandleShutdown, ShutdownTargets, connVars, OutOK
  <2>9. CASE HandleQueryItem
    BY <2>9, HandlerKeeps DEF HandleQueryItem, Take, setVars, connVars, OutOK
  <2>10. CASE HandleCaConnEos
    <3> DEFINE b == Head(evq).addr
    <3>1. /\ Head(evq) \in Event /\ Head(evq).kind = "EndOfStream"
          /\ setpc = "run" /\ out = {} /\ Take("EndOfStream")
      BY <2>10, TakeType DEF HandleCaConnEos
    <3>2. b \in Addrs /\ Head(evq) = Eos(b)
      BY <3>1 DEF Event, Eos
    <3>3. EosQueued(b)
      BY <3>1, <3>2, TakeEos DEF IInv, EosAcc
    <3>4. b \in ress
      BY <3>1, <3>2, <3>3 DEF IInv, EosAcc
    <3>5. ress' = ress \ {b} /\ phase' = phase /\ out' = {[op |-> "join", addr |-> b]}
      BY <2>10, <3>4 DEF HandleCaConnEos, AfterEos, connVars
    <3> HIDE DEF b
    <3>6. ASSUME NEW a \in Addrs PROVE EosAcc(a)'
      <4>1. EosAcc(a)
        BY <3>1 DEF IInv
      <4>2. CASE a # b
        <5>1. Head(evq) # Eos(a)
          BY <3>2, <4>2 DEF Eos
        <5>2. (EosQueued(a)' <=> EosQueued(a)) /\ (Uniq(a) => Uniq(a)')
          BY <3>1, <5>1, TakeOther
        <5>3. QED
          BY <3>1, <3>5, <4>1, <4>2, <5>2, KeepsAcc
      <4>3. CASE a = b
        <5>1. ~EosQueued(a)'
          BY <3>1, <3>2, <4>1, <4>3, TakeEos DEF EosAcc
        <5>2. Uniq(a)'
          BY <5>1 DEF EosQueued, Uniq, Eos
        <5>3. phase[a] \in {"signaled", "ended"}
          BY <3>3, <4>1, <4>3 DEF EosAcc
        <5>4. QED
          BY <3>5, <4>3, <5>1, <5>2, <5>3 DEF EosAcc
      <4>4. QED
        BY <4>2, <4>3
    <3>7. QED
      BY <3>5, <3>6 DEF OutOK
  <2>11. ASSUME NEW p \in out, Await(p) PROVE (\A a \in Addrs : EosAcc(a)') /\ OutOK'
    <3>1. p \in Pending
      BY DEF TypeOK
    <3>2. setpc = "run" /\ OutOK
      BY <2>11 DEF Await, SendSelf, SendLookup, SendSearch, SendHealthy, SendCommand,
                   SendCommandFails, Join, setVars, IInv
    <3>3. CASE SendSelf(p)
      <4>1. p.ev \in Event /\ p.ev.kind # "EndOfStream"
        BY <3>1, <3>2, <3>3 DEF SendSelf, Pending, OutOK
      <4>2. \A q \in out : q.op = "join" => q \in out'
        BY <3>3 DEF SendSelf
      <4>3. QED
        BY <3>2, <3>3, <4>1, <4>2, AppendKeeps DEF SendSelf, setVars, connVars, OutOK
    <3>0. ASSUME p.op # "join", out' = out \ {p}, UNCHANGED <<evq, ress, phase>>
          PROVE  (\A a \in Addrs : EosAcc(a)') /\ OutOK'
      <4>1. \A a \in Addrs : [op |-> "join", addr |-> a] # p
        BY <3>0
      <4>2. ASSUME NEW a \in Addrs PROVE EosAcc(a)'
        BY <3>0, <3>2, <4>1, OtherKeeps
      <4>3. QED
        BY <3>0, <3>2, <4>2 DEF OutOK
    <3>4. CASE SendLookup(p)
      BY <3>0, <3>4 DEF SendLookup, setVars, connVars
    <3>5. CASE SendSearch(p)
      BY <3>0, <3>5 DEF SendSearch, setVars, connVars
    <3>6. CASE SendHealthy(p)
      BY <3>0, <3>6 DEF SendHealthy, setVars, connVars
    <3>7. CASE SendCommand(p)
      BY <3>0, <3>7 DEF SendCommand, setVars
    <3>8. CASE SendCommandFails(p)
      BY <3>8 DEF SendCommandFails
    <3>9. CASE Join(p)
      <4>1. out' = out \ {p} /\ phase[p.addr] = "ended" /\ UNCHANGED <<evq, ress, phase>>
        BY <3>9 DEF Join, setVars, connVars
      <4>2. ASSUME NEW a \in Addrs PROVE EosAcc(a)'
        <5>1. [op |-> "join", addr |-> a] = p => phase[a] = "ended"
          BY <4>1
        <5>2. QED
          BY <3>2, <4>1, <5>1, OtherKeeps
      <4>3. QED
        BY <3>2, <4>1, <4>2 DEF OutOK
    <3>10. QED
      BY <2>11, <3>3, <3>4, <3>5, <3>6, <3>7, <3>8, <3>9 DEF Await
  <2>12. CASE RunEnds
    BY <2>12 DEF RunEnds
  <2>13. ASSUME NEW b \in Addrs, Conn(b) PROVE (\A a \in Addrs : EosAcc(a)') /\ OutOK'
    <3>1. /\ setpc = "run" /\ OutOK /\ UNCHANGED <<ress, out>>
          /\ OutOK'
      BY <2>13 DEF Conn, ConnCommand, ConnItem, ConnItemSent, ConnStreamEnds, ConnEosSent,
                   ConnDropped, ConnSendFails, setVars, IInv, OutOK
    <3>2. CASE ConnCommand(b)
      <4>1. CASE phase' = phase
        BY <3>1, <3>2, <4>1, OtherKeeps DEF ConnCommand
      <4>2. CASE phase' # phase
        BY <3>1, <3>2, <4>2, PhaseKeeps DEF ConnCommand, Serving
      <4>3. QED
        BY <4>1, <4>2
    <3>3. CASE ConnItem(b)
      BY <3>1, <3>3, OtherKeeps DEF ConnItem
    <3>4. CASE ConnItemSent(b)
      <4>1. [kind |-> "QueryItem", addr |-> b] \in Event
        BY DEF Event
      <4>2. QED
        BY <3>1, <3>4, <4>1, AppendKeeps DEF ConnItemSent
    <3>5. CASE ConnStreamEnds(b)
      BY <3>1, <3>5, PhaseKeeps DEF ConnStreamEnds, Serving
    <3>6. CASE ConnEosSent(b)
      <4>1. /\ evq' = Append(evq, Eos(b)) /\ phase' = [phase EXCEPT ![b] = "signaled"]
            /\ phase[b] = "eos" /\ b \in ress /\ ~EosQueued(b)
        BY <3>1, <3>6 DEF ConnEosSent, IInv, EosAcc
      <4>2. /\ DOMAIN evq = 1..Len(evq) /\ DOMAIN evq' = 1..(Len(evq) + 1)
            /\ Len(evq) \in Nat
            /\ \A i \in 1..Len(evq) : evq'[i] = evq[i]
            /\ evq'[Len(evq) + 1] = Eos(b)
        BY <4>1 DEF TypeOK
      <4>3. ASSUME NEW a \in Addrs PROVE EosAcc(a)'
        <5>1. EosAcc(a)
          BY <3>1 DEF IInv
        <5>2. CASE a # b
          <6>1. Eos(a) # Eos(b)
            BY <5>2 DEF Eos
          <6>2. EosQueued(a)' <=> EosQueued(a)
            BY <4>2, <6>1 DEF EosQueued, Eos
          <6>3. Uniq(a) => Uniq(a)'
            BY <4>2, <6>1 DEF Uniq, Eos
          <6>4. QED
            BY <3>1, <4>1, <5>1, <5>2, <6>2, <6>3, KeepsAcc DEF TypeOK
        <5>3. CASE a = b
          <6>1. EosQueued(a)'
            BY <4>2, <5>3 DEF EosQueued, Eos
          <6>2. Uniq(a)'
            BY <4>1, <4>2, <5>3 DEF EosQueued, Uniq, Eos
          <6>3. QED
            BY <3>1, <4>1, <5>3, <6>1, <6>2 DEF EosAcc, TypeOK
        <5>4. QED
          BY <5>2, <5>3
      <4>4. QED
        BY <3>1, <4>3
    <3>7. CASE ConnDropped(b)
      BY <3>1, <3>7, PhaseKeeps DEF ConnDropped
    <3>8. CASE ConnSendFails(b)
      BY <3>1, <3>8 DEF ConnSendFails
    <3>9. QED
      BY <2>13, <3>2, <3>3, <3>4, <3>5, <3>6, <3>7, <3>8 DEF Conn
  <2>14. CASE Lookup
    <3>1. ASSUME NEW c \in Channels, LookupAnswered(c)
          PROVE  (\A a \in Addrs : EosAcc(a)') /\ OutOK'
      <4>1. [kind |-> "SeriesLookupResult", ch |-> c] \in Event
        BY DEF Event
      <4>2. QED
        BY <3>1, <4>1, AppendKeeps DEF LookupAnswered, setVars, connVars, OutOK, IInv
    <3>2. ASSUME NEW c \in Channels, LookupLost(c)
          PROVE  (\A a \in Addrs : EosAcc(a)') /\ OutOK'
      BY <3>2, OtherKeeps DEF LookupLost, setVars, connVars, OutOK, IInv
    <3>3. QED
      BY <2>14, <3>1, <3>2 DEF Lookup
  <2>15. CASE Finder
    <3>1. ASSUME NEW batch \in SUBSET searchq, FinderTakes(batch)
          PROVE  (\A a \in Addrs : EosAcc(a)') /\ OutOK'
      BY <3>1, OtherKeeps DEF FinderTakes, setVars, connVars, OutOK, IInv
    <3>2. ASSUME NEW batch \in finding, FinderAnswers(batch)
          PROVE  (\A a \in Addrs : EosAcc(a)') /\ OutOK'
      <4>1. PICK res \in [batch -> AddrOrNone] :
              evq' = Append(evq, [kind |-> "IocAddrQueryResult", res |-> res])
        BY <3>2 DEF FinderAnswers
      <4>2. batch \in SUBSET Channels
        BY <3>2 DEF TypeOK
      <4>3. [kind |-> "IocAddrQueryResult", res |-> res] \in Event
        BY <4>1, <4>2 DEF SearchResult, Event
      <4>4. QED
        BY <3>2, <4>1, <4>3, AppendKeeps DEF FinderAnswers, setVars, connVars, OutOK, IInv
    <3>3. ASSUME NEW batch \in finding, FinderLoses(batch)
          PROVE  (\A a \in Addrs : EosAcc(a)') /\ OutOK'
      BY <3>3, OtherKeeps DEF FinderLoses, setVars, connVars, OutOK, IInv
    <3>4. QED
      BY <2>15, <3>1, <3>2, <3>3 DEF Finder
  <2>16. CASE Ctrl
    <3>1. UNCHANGED <<setpc, ress, phase, out>>
      BY <2>16, CtrlStep DEF setVars, connVars
    <3>2. OutOK'
      BY <3>1 DEF OutOK, IInv
    <3>3. CASE evq' = evq
      BY <3>1, <3>2, <3>3, OtherKeeps DEF IInv
    <3>4. ASSUME setpc = "run", NEW ev \in CtrlEvent, evq' = Append(evq, ev)
          PROVE  \A a \in Addrs : EosAcc(a)'
      BY <3>1, <3>4, CtrlEventType, AppendKeeps
    <3>5. QED
      BY <2>16, <3>2, <3>3, <3>4, CtrlStep
  <2>17. CASE UNCHANGED vars
    BY <2>17, OtherKeeps DEF vars, setVars, connVars, OutOK, IInv
  <2>18. QED
    BY <2>1, <2>2, <2>3, <2>4, <2>5, <2>6, <2>7, <2>8, <2>9, <2>10, <2>11, <2>12,
       <2>13, <2>14, <2>15, <2>16, <2>17
    DEF Next, SetStep, Handle
<1>3. QED
  BY <1>1, <1>2, TypeCorrect, PTL DEF Spec

(* The map of CaConn tasks, the tasks and the queued end-of-stream events  *)
(* agree, so that handle_ca_conn_eos joins exactly the tasks that ended.   *)
THEOREM EosAccountsCorrect == Spec => []EosAccountsForEnd
<1>1. IInv => EosAccountsForEnd
  BY DEF IInv, EosAcc, Uniq, EosAccountsForEnd
<1>2. QED
  BY <1>1, IInvCorrect, PTL

(* The only error that ends CaConnSet::run is a command sent to a CaConn   *)
(* whose EndOfStream event the set has not handled yet.                    *)
THEOREM FailureIsEosRace == Spec => FailsOnlyByEosRace
<1>1. TypeOK /\ IInv /\ [Next]_vars =>
        [setpc' = "failed" /\ setpc # "failed" =>
           \E p \in out : p.op = "cmd" /\ EosQueued(p.addr)]_vars
  <2> SUFFICES ASSUME TypeOK, IInv, Next, setpc' = "failed", setpc # "failed"
               PROVE  \E p \in out : p.op = "cmd" /\ EosQueued(p.addr)
    OBVIOUS
  <2>1. ASSUME NEW p \in out, setpc = "run", SendCommandFails(p)
        PROVE  p.op = "cmd" /\ EosQueued(p.addr)
    <3>1. p \in Pending /\ p.op = "cmd" /\ phase[p.addr] = "ended"
      BY <2>1 DEF TypeOK, SendCommandFails
    <3>2. p.addr \in Addrs
      BY <3>1 DEF Pending
    <3>3. QED
      BY <2>1, <3>1, <3>2 DEF IInv, OutOK, EosAcc
  <2>2. \E p \in out : setpc = "run" /\ SendCommandFails(p)
    <3> USE DEF setVars
    <3>1. ~Handle
      BY DEF Handle, HandleAddChannel, HandleSeriesLookupResult, HandleAddChannelWithStatusId,
             HandleAddChannelWithAddr, HandleRemoveChannel, HandleIocQueryResult,
             HandleCheckHealth, HandleShutdown, HandleQueryItem, HandleCaConnEos
    <3>2. ~RunEnds
      BY DEF RunEnds
    <3>3. \A a \in Addrs : ~Conn(a)
      BY DEF Conn, ConnCommand, ConnItem, ConnItemSent, ConnStreamEnds, ConnEosSent,
             ConnDropped, ConnSendFails
    <3>4. ~Lookup /\ ~Finder
      BY DEF Lookup, LookupAnswered, LookupLost, Finder, FinderTakes, FinderAnswers, FinderLoses
    <3>5. ~Ctrl
      BY CtrlStep
    <3>6. PICK p \in out : Await(p)
      BY <3>1, <3>2, <3>3, <3>4, <3>5 DEF Next, SetStep
    <3>7. QED
      BY <3>6 DEF Await, SendSelf, SendLookup, SendSearch, SendHealthy, SendCommand, Join
  <2>3. QED
    BY <2>1, <2>2
<1>2. QED
  BY <1>1, IInvCorrect, TypeCorrect, PTL DEF Spec, FailsOnlyByEosRace

-----------------------------------------------------------------------------
(* The way of a channel from the search for its address to the CaConn.     *)

\* The messages that stand for the search of `c', its answer, or its address.
EventCarries(ev, c) ==
  \/ ev.kind = "IocAddrQueryResult" /\ c \in DOMAIN ev.res
  \/ ev.kind = "ChannelAddWithAddr" /\ ev.ch = c

PendingCarries(p, c) ==
  \/ p.op = "self" /\ EventCarries(p.ev, c)
  \/ p.op = "search" /\ p.ch = c
  \/ p.op = "cmd" /\ p.cmd.cmd = "ChannelAdd" /\ p.cmd.ch = c

InOut(c)    == \E p \in out : PendingCarries(p, c)
InFinder(c) == \E batch \in finding : c \in batch
InQueue(c)  == \E i \in DOMAIN evq : EventCarries(evq[i], c)

OutOnce(c) ==
  \A p, q \in out : PendingCarries(p, c) /\ PendingCarries(q, c) => p = q

FinderOnce(c) == \A x, y \in finding : c \in x /\ c \in y => x = y

QueueOnce(c) ==
  \A i, j \in DOMAIN evq : EventCarries(evq[i], c) /\ EventCarries(evq[j], c) => i = j

Idle(c) ==
  ~InOut(c) /\ c \notin searchq /\ ~InFinder(c) /\ ~InQueue(c) /\ sent[c] = <<>>

\* The channel is at one place of its way at a time, and there once.
OnePlace(c) ==
  /\ OutOnce(c) /\ FinderOnce(c) /\ QueueOnce(c)
  /\ InOut(c) => c \notin searchq /\ ~InFinder(c) /\ ~InQueue(c) /\ sent[c] = <<>>
  /\ c \in searchq => ~InFinder(c) /\ ~InQueue(c) /\ sent[c] = <<>>
  /\ InFinder(c) => ~InQueue(c) /\ sent[c] = <<>>
  /\ InQueue(c) => sent[c] = <<>>

Searched(c) == chst[c].st \in {"searchPending", "toRemove"}

PlacedAt(c, a) == chst[c].st \in {"withAddress", "toRemove"} /\ chst[c].addr = a

EventFits(ev, c) ==
  /\ ev.kind = "IocAddrQueryResult" /\ c \in DOMAIN ev.res => Searched(c)
  /\ ev.kind = "ChannelAddWithAddr" /\ ev.ch = c => PlacedAt(c, ev.addr)

PendingFits(p, c) ==
  /\ p.op = "self" => EventFits(p.ev, c)
  /\ p.op = "search" /\ p.ch = c => Searched(c)
  /\ p.op = "cmd" /\ p.cmd.cmd = "ChannelAdd" /\ p.cmd.ch = c => PlacedAt(c, p.addr)

\* The state kept for the channel is that of the place it is at.
Fits(c) ==
  /\ \A p \in out : PendingFits(p, c)
  /\ c \in searchq \/ InFinder(c) => Searched(c)
  /\ \A i \in DOMAIN evq : EventFits(evq[i], c)
  /\ sent[c] # <<>> => PlacedAt(c, chst[c].addr) /\ sent[c] = <<chst[c].addr>>

Journey(c) == OnePlace(c) /\ Fits(c)

JourneyInv == \A c \in Channels : Journey(c)

\* A channel in one of these states is nowhere on its way.
LEMMA BeforeSearch ==
  ASSUME NEW c \in Channels, Journey(c),
         chst[c].st \in {"absent", "waitStatusId", "unknownAddress"}
  PROVE  Idle(c)
<1>1. ~InOut(c)
  BY DEF Journey, Fits, InOut, PendingFits, PendingCarries, EventFits, EventCarries,
         Searched, PlacedAt
<1>2. ~InQueue(c)
  BY DEF Journey, Fits, InQueue, EventFits, EventCarries, Searched, PlacedAt
<1>3. QED
  BY <1>1, <1>2 DEF Journey, Fits, Idle, Searched, PlacedAt

\* A channel that is nowhere on its way makes no claim.
LEMMA IdleJourney ==
  ASSUME NEW c \in Channels, Idle(c)' PROVE Journey(c)'
<1>1. OnePlace(c)'
  BY DEF Idle, OnePlace, InOut, InFinder, InQueue, OutOnce, FinderOnce, QueueOnce
<1>2. Fits(c)'
  BY DEF Idle, Fits, InOut, InQueue, PendingFits, PendingCarries, EventFits, EventCarries
<1>3. QED
  BY <1>1, <1>2 DEF Journey

\* No event that carries the channel comes into the queue.
QueueKept(c) ==
  /\ \A i \in DOMAIN evq' :
       EventCarries(evq'[i], c) => \E j \in DOMAIN evq : evq[j] = evq'[i]
  /\ QueueOnce(c) => QueueOnce(c)'

\* An event that does not carry the channel adds no place to it.
LEMMA QueueAppended ==
  ASSUME TypeOK, NEW ev \in Event, evq' = Append(evq, ev), NEW c, ~EventCarries(ev, c)
  PROVE  QueueKept(c)
<1>1. /\ DOMAIN evq = 1..Len(evq) /\ DOMAIN evq' = 1..(Len(evq) + 1)
      /\ Len(evq) \in Nat
      /\ \A i \in 1..Len(evq) : evq'[i] = evq[i]
      /\ evq'[Len(evq) + 1] = ev
  BY DEF TypeOK
<1>2. \A i \in DOMAIN evq' :
        EventCarries(evq'[i], c) => i \in DOMAIN evq /\ evq'[i] = evq[i]
  BY <1>1
<1>3. QED
  BY <1>2 DEF QueueKept, QueueOnce

\* Taking an event adds no place to any channel.
LEMMA QueueTaken ==
  ASSUME TypeOK, NEW k, Take(k), NEW c
  PROVE  QueueKept(c)
<1>1. /\ DOMAIN evq = 1..Len(evq) /\ DOMAIN evq' = 1..(Len(evq) - 1)
      /\ Len(evq) \in Nat
      /\ \A i \in 1..(Len(evq) - 1) : evq'[i] = evq[i + 1]
  BY DEF TypeOK, Take
<1>2. \A i \in DOMAIN evq' : i + 1 \in DOMAIN evq /\ evq'[i] = evq[i + 1]
  BY <1>1
<1>3. ASSUME QueueOnce(c), NEW i \in DOMAIN evq', NEW j \in DOMAIN evq',
             EventCarries(evq'[i], c), EventCarries(evq'[j], c)
      PROVE  i = j
  BY <1>1, <1>2, <1>3 DEF QueueOnce
<1>4. QED
  BY <1>2, <1>3 DEF QueueKept, QueueOnce

\* The event that carries the channel is taken: none is left.
LEMMA CarrierTaken ==
  ASSUME TypeOK, NEW k, Take(k), NEW c \in Channels, Journey(c), EventCarries(Head(evq), c)
  PROVE  /\ ~InQueue(c)' /\ EventFits(Head(evq), c)
         /\ ~InFinder(c) /\ c \notin searchq /\ sent[c] = <<>>
<1>1. /\ DOMAIN evq = 1..Len(evq) /\ DOMAIN evq' = 1..(Len(evq) - 1)
      /\ Len(evq) \in Nat
      /\ \A i \in 1..(Len(evq) - 1) : evq'[i] = evq[i + 1]
      /\ Len(evq) > 0
      /\ evq[1] = Head(evq)
  BY DEF TypeOK, Take
<1>2. 1 \in DOMAIN evq
  BY <1>1
<1>3. InQueue(c) /\ EventFits(Head(evq), c)
  BY <1>1, <1>2 DEF InQueue, Journey, Fits
<1>4. ASSUME NEW i \in DOMAIN evq', EventCarries(evq'[i], c) PROVE FALSE
  <2>1. i + 1 \in DOMAIN evq /\ i + 1 # 1
    BY <1>1
  <2>2. QED
    BY <1>1, <1>2, <1>4, <2>1 DEF Journey, OnePlace, QueueOnce
<1>5. ~InQueue(c)'
  BY <1>4 DEF InQueue, EventCarries
<1>6. QED
  BY <1>3, <1>5 DEF Journey, OnePlace

\* An event that carries the channel is appended where there was none.
LEMMA CarrierAppended ==
  ASSUME TypeOK, NEW ev \in Event, evq' = Append(evq, ev), NEW c \in Channels, ~InQueue(c)
  PROVE  /\ QueueOnce(c)'
         /\ \A i \in DOMAIN evq' : EventCarries(evq'[i], c) => evq'[i] = ev
<1>1. /\ DOMAIN evq = 1..Len(evq) /\ DOMAIN evq' = 1..(Len(evq) + 1)
      /\ Len(evq) \in Nat
      /\ \A i \in 1..Len(evq) : evq'[i] = evq[i]
      /\ evq'[Len(evq) + 1] = ev
  BY DEF TypeOK
<1>2. \A i \in DOMAIN evq' : EventCarries(evq'[i], c) => i = Len(evq) + 1
  BY <1>1 DEF InQueue
<1>3. QED
  BY <1>1, <1>2 DEF QueueOnce, EventCarries

(* What a step may do to a channel whose way it does not touch: messages   *)
(* that do not carry the channel come and go.                              *)
Untouched(c) ==
  /\ \A p \in out' : PendingCarries(p, c) => p \in out
  /\ c \in searchq' => c \in searchq
  /\ \A batch \in finding' : c \in batch => batch \in finding
  /\ QueueKept(c)
  /\ sent'[c] = sent[c]

\* A channel that is nowhere stays so if no step touches it.
LEMMA IdleKept ==
  ASSUME NEW c \in Channels, Idle(c), Untouched(c) PROVE Idle(c)'
<1>1. ~InOut(c)' /\ ~InFinder(c)'
  BY DEF Idle, Untouched, InOut, InFinder, PendingCarries, EventCarries
<1>2. ~InQueue(c)'
  BY DEF Idle, Untouched, InQueue, QueueKept, EventCarries
<1>3. QED
  BY <1>1, <1>2 DEF Idle, Untouched

\* One that is on its way stays where it is, also if it is removed meanwhile.
LEMMA JourneyKept ==
  ASSUME NEW c \in Channels, Journey(c), Untouched(c),
         chst'[c].addr = chst[c].addr,
         chst'[c].st \in {chst[c].st, "toRemove"}
  PROVE  Journey(c)'
<1>1. OnePlace(c)'
  <2>1. OutOnce(c)' /\ FinderOnce(c)' /\ QueueOnce(c)'
    BY DEF Journey, OnePlace, Untouched, OutOnce, FinderOnce, QueueKept, PendingCarries,
           EventCarries
  <2>2. (InOut(c)' => InOut(c)) /\ (InFinder(c)' => InFinder(c)) /\ (InQueue(c)' => InQueue(c))
    BY DEF Untouched, InOut, InFinder, InQueue, QueueKept, PendingCarries, EventCarries
  <2>3. QED
    BY <2>1, <2>2 DEF Journey, OnePlace, Untouched
<1>2. Fits(c)'
  <2>1. (Searched(c) => Searched(c)') /\ (\A a : PlacedAt(c, a) => PlacedAt(c, a)')
    BY DEF Searched, PlacedAt
  <2>2. \A ev : EventFits(ev, c) => EventFits(ev, c)'
    BY <2>1 DEF EventFits
  <2>3. \A p \in out' : PendingFits(p, c)'
    <3>1. SUFFICES ASSUME NEW p \in out' PROVE PendingFits(p, c)'
      OBVIOUS
    <3>2. CASE PendingCarries(p, c)
      BY <2>1, <2>2, <3>2 DEF PendingFits, Untouched, Journey, Fits
    <3>3. CASE ~PendingCarries(p, c)
      BY <3>3 DEF PendingFits, PendingCarries, EventFits, EventCarries
    <3>4. QED
      BY <3>2, <3>3
  <2>4. (\A i \in DOMAIN evq : EventFits(evq[i], c))'
    <3>1. SUFFICES ASSUME NEW i \in DOMAIN evq' PROVE EventFits(evq[i], c)'
      OBVIOUS
    <3>2. CASE EventCarries(evq'[i], c)
      BY <2>2, <3>2 DEF Untouched, QueueKept, Journey, Fits
    <3>3. CASE ~EventCarries(evq'[i], c)
      BY <3>3 DEF EventFits, EventCarries
    <3>4. QED
      BY <3>2, <3>3
  <2>5. (c \in searchq' \/ InFinder(c)') => Searched(c)'
    BY <2>1 DEF Untouched, Journey, Fits, InFinder
  <2>6. (sent[c] # <<>> => PlacedAt(c, chst[c].addr) /\ sent[c] = <<chst[c].addr>>)'
    BY <2>1 DEF Untouched, Journey, Fits
  <2>7. QED
    BY <2>3, <2>4, <2>5, <2>6 DEF Fits
<1>3. QED
  BY <1>1, <1>2 DEF Journey

\* A handler that takes an event and leaves the way of the channel alone.
LEMMA HandlerUntouched ==
  ASSUME TypeOK, NEW k, Take(k), NEW c \in Channels,
         \A p \in out' : ~PendingCarries(p, c), UNCHANGED <<pipeVars, sent>>
  PROVE  Untouched(c)
BY QueueTaken DEF Untouched, pipeVars

\* A step that appends an event about something else.
LEMMA AppendUntouched ==
  ASSUME TypeOK, NEW ev \in Event, evq' = Append(evq, ev), NEW c \in Channels,
         ~EventCarries(ev, c), out' \subseteq out,
         searchq' \subseteq searchq, finding' \subseteq finding, sent' = sent
  PROVE  Untouched(c)
BY QueueAppended DEF Untouched

\* A step that leaves the queue of events alone, or empties it.
LEMMA AsideUntouched ==
  ASSUME evq' \in {evq, <<>>}, NEW c \in Channels, out' \subseteq out,
         searchq' \subseteq searchq, finding' \subseteq finding, sent'[c] = sent[c]
  PROVE  Untouched(c)
BY DEF Untouched, QueueKept, QueueOnce

\* A channel that is added has not begun its way.
LEMMA JourneyAddChannel ==
  ASSUME TypeOK, JourneyInv, HandleAddChannel, NEW c \in Channels
  PROVE  Journey(c)'
<1>1. /\ Head(evq) \in Event /\ Head(evq).ch \in Channels
      /\ Journey(c)
  BY TakeType DEF HandleAddChannel, Event, JourneyInv
<1>2. Untouched(c)
  BY HandlerUntouched DEF HandleAddChannel, PendingCarries
<1>3. CASE chst' = chst
  BY <1>1, <1>2, <1>3, JourneyKept
<1>4. CASE chst' # chst
  <2> DEFINE b == Head(evq).ch
  <2>1. chst[b].st = "absent" /\ chst' = ChannelStTo(b, "waitStatusId")
    BY <1>4 DEF HandleAddChannel
  <2>2. CASE c = b
    BY <1>1, <1>2, <2>1, <2>2, BeforeSearch, IdleKept, IdleJourney
  <2>3. CASE c # b
    BY <1>1, <1>2, <2>1, <2>3, JourneyKept DEF ChannelStTo, TypeOK
  <2>4. QED
    BY <2>2, <2>3
<1>5. QED
  BY <1>3, <1>4

\* Its way begins with one search, as only a channel that waits for its id starts one.
LEMMA JourneyAddChannelWithStatusId ==
  ASSUME TypeOK, JourneyInv, HandleAddChannelWithStatusId, NEW c \in Channels
  PROVE  Journey(c)'
<1> DEFINE b == Head(evq).ch
<1>1. /\ Head(evq) \in Event /\ b \in Channels /\ out = {} /\ Take("ChannelAddWithStatusId")
      /\ Journey(c)
  BY TakeType DEF HandleAddChannelWithStatusId, Event, JourneyInv
<1>2. UNCHANGED <<pipeVars, sent>>
  BY DEF HandleAddChannelWithStatusId
<1>3. CASE ~MayStartSearch(b) \/ c # b
  <2>1. \A p \in out' : ~PendingCarries(p, c)
    BY <1>1, <1>3 DEF HandleAddChannelWithStatusId, PendingCarries
  <2>2. chst'[c] = chst[c]
    BY <1>1, <1>3 DEF HandleAddChannelWithStatusId, ChannelStTo, TypeOK
  <2>3. QED
    BY <1>1, <1>2, <2>1, <2>2, HandlerUntouched, JourneyKept
<1>4. CASE MayStartSearch(b) /\ c = b
  <2>1. /\ chst'[c].st = "searchPending" /\ out' = {[op |-> "search", ch |-> c]}
        /\ chst[c].st = "waitStatusId"
    BY <1>1, <1>4 DEF HandleAddChannelWithStatusId, ChannelStTo, MayStartSearch, TypeOK
  <2>2. Idle(c)
    BY <1>1, <2>1, BeforeSearch
  <2>3. searchq' = searchq /\ finding' = finding /\ sent' = sent
    BY <1>2 DEF pipeVars
  <2>4. ~InQueue(c)' /\ ~InFinder(c)' /\ c \notin searchq' /\ sent'[c] = <<>>
    BY <1>1, <2>2, <2>3, QueueTaken DEF Idle, InQueue, InFinder, QueueKept, EventCarries
  <2>5. OnePlace(c)'
    BY <2>1, <2>4 DEF OnePlace, OutOnce, FinderOnce, QueueOnce, InQueue, InFinder
  <2>6. Searched(c)'
    BY <2>1 DEF Searched
  <2>7. (\A p \in out : PendingFits(p, c))'
    BY <2>1, <2>6 DEF PendingFits
  <2>8. (\A i \in DOMAIN evq : EventFits(evq[i], c))'
    BY <2>4 DEF InQueue, EventFits, EventCarries
  <2>9. QED
    BY <2>4, <2>5, <2>6, <2>7, <2>8 DEF Journey, Fits
<1>5. QED
  BY <1>3, <1>4

\* The event of its address becomes the command to that address.
LEMMA JourneyAddChannelWithAddr ==
  ASSUME TypeOK, JourneyInv, HandleAddChannelWithAddr, NEW c \in Channels
  PROVE  Journey(c)'
<1> DEFINE b == Head(evq).ch
           a == Head(evq).addr
<1>1. /\ Head(evq) \in Event /\ b \in Channels /\ out = {} /\ Take("ChannelAddWithAddr")
      /\ Head(evq).kind = "ChannelAddWithAddr"
      /\ Journey(c)
  BY TakeType DEF HandleAddChannelWithAddr, Event, JourneyInv
<1>2. UNCHANGED <<chst, pipeVars, sent>>
      /\ out' = {[op |-> "cmd", addr |-> a, cmd |-> [cmd |-> "ChannelAdd", ch |-> b]]}
  BY DEF HandleAddChannelWithAddr
<1>3. CASE c # b
  <2>1. \A p \in out' : ~PendingCarries(p, c)
    BY <1>2, <1>3 DEF PendingCarries
  <2>3. QED
    BY <1>1, <1>2, <2>1, HandlerUntouched, JourneyKept
<1>4. CASE c = b
  <2>1. EventCarries(Head(evq), c)
    BY <1>1, <1>4 DEF EventCarries
  <2>2. /\ ~InQueue(c)' /\ EventFits(Head(evq), c)
        /\ ~InFinder(c) /\ c \notin searchq /\ sent[c] = <<>>
    BY <1>1, <2>1, CarrierTaken
  <2>3. searchq' = searchq /\ finding' = finding /\ sent' = sent /\ chst' = chst
    BY <1>2 DEF pipeVars
  <2>4. ~InFinder(c)' /\ c \notin searchq' /\ sent'[c] = <<>>
    BY <2>2, <2>3 DEF InFinder
  <2>5. OnePlace(c)'
    BY <1>2, <2>2, <2>4 DEF OnePlace, OutOnce, FinderOnce, QueueOnce, InQueue, InFinder
  <2>6. chst'[c].st \in {"withAddress", "toRemove"} /\ chst'[c].addr = a
    BY <1>1, <1>4, <2>2, <2>3 DEF PlacedAt, EventFits
  <2>7. (\A p \in out : PendingFits(p, c))'
    BY <1>2, <2>6 DEF PendingFits, PlacedAt
  <2>8. (\A i \in DOMAIN evq : EventFits(evq[i], c))'
    BY <2>2 DEF InQueue, EventFits, EventCarries
  <2>9. QED
    BY <2>4, <2>5, <2>7, <2>8 DEF Journey, Fits
<1>5. QED
  BY <1>3, <1>4

\* A removal leaves it where it is.
LEMMA JourneyRemoveChannel ==
  ASSUME TypeOK, JourneyInv, HandleRemoveChannel, NEW c \in Channels
  PROVE  Journey(c)'
<1>1. /\ Head(evq) \in Event /\ Head(evq).ch \in Channels /\ Take("ChannelRemove") /\ out = {}
      /\ Journey(c)
  BY TakeType DEF HandleRemoveChannel, Event, JourneyInv
<1>2. Untouched(c)
  BY <1>1, HandlerUntouched DEF HandleRemoveChannel
<1>3. chst'[c].addr = chst[c].addr /\ chst'[c].st \in {chst[c].st, "toRemove"}
  BY <1>1 DEF HandleRemoveChannel, ChannelStTo, TypeOK
<1>4. QED
  BY <1>1, <1>2, <1>3, JourneyKept

\* Of an answer, the event of the address goes on for each channel that awaits one.
LEMMA JourneyIocQueryResult ==
  ASSUME TypeOK, JourneyInv, HandleIocQueryResult, NEW c \in Channels
  PROVE  Journey(c)'
<1> DEFINE res == Head(evq).res
           found == Found(res)
<1>1. /\ Take("IocAddrQueryResult") /\ Head(evq).kind = "IocAddrQueryResult"
      /\ Journey(c)
  BY TakeType DEF HandleIocQueryResult, JourneyInv
<1>2. UNCHANGED <<pipeVars, sent>>
      /\ out' = {[op |-> "self", ev |-> [kind |-> "ChannelAddWithAddr",
                                         ch |-> d, addr |-> res[d]]] : d \in found}
  BY DEF HandleIocQueryResult
<1>3. chst'[c] = IF ~(c \in DOMAIN res /\ AwaitsAddress(c)) THEN chst[c]
                 ELSE IF res[c] = NoAddr
                      THEN [st |-> "unknownAddress", addr |-> NoAddr]
                      ELSE [st |-> "withAddress", addr |-> res[c]]
  BY DEF HandleIocQueryResult
<1>4. c \in found <=> c \in DOMAIN res /\ AwaitsAddress(c) /\ res[c] # NoAddr
  BY DEF Found
<1>5. searchq' = searchq /\ finding' = finding /\ sent' = sent
  BY <1>2 DEF pipeVars
<1>6. EventCarries(Head(evq), c) <=> c \in DOMAIN res
  BY <1>1 DEF EventCarries
<1> HIDE DEF res, found
<1>7. ASSUME NEW p \in out', PendingCarries(p, c)
      PROVE  /\ c \in found
             /\ p = [op |-> "self", ev |-> [kind |-> "ChannelAddWithAddr",
                                            ch |-> c, addr |-> res[c]]]
  BY <1>2, <1>7 DEF PendingCarries, EventCarries
<1>8. CASE c \notin DOMAIN res
  BY <1>1, <1>2, <1>3, <1>4, <1>7, <1>8, HandlerUntouched, JourneyKept
<1>9. CASE c \in DOMAIN res
  <2>1. ~InQueue(c)' /\ ~InFinder(c) /\ c \notin searchq /\ sent[c] = <<>>
    BY <1>1, <1>6, <1>9, CarrierTaken
  <2>2. ~InFinder(c)' /\ c \notin searchq' /\ sent'[c] = <<>>
    BY <1>5, <2>1 DEF InFinder
  <2>3. CASE c \notin found
    <3>1. ~InOut(c)'
      BY <1>7, <2>3 DEF InOut, PendingCarries, EventCarries
    <3>2. Idle(c)'
      BY <2>1, <2>2, <3>1 DEF Idle
    <3>3. QED
      BY <3>2, IdleJourney
  <2>4. CASE c \in found
    <3>1. chst'[c].st = "withAddress" /\ chst'[c].addr = res[c]
      BY <1>3, <1>4, <2>4
    <3>2. (\A p \in out : PendingFits(p, c))'
      <4>1. SUFFICES ASSUME NEW p \in out' PROVE PendingFits(p, c)'
        OBVIOUS
      <4>2. CASE PendingCarries(p, c)
        BY <1>7, <3>1, <4>2 DEF PendingFits, EventFits, PlacedAt
      <4>3. CASE ~PendingCarries(p, c)
        BY <4>3 DEF PendingFits, PendingCarries, EventFits, EventCarries
      <4>4. QED
        BY <4>2, <4>3
    <3>3. (\A i \in DOMAIN evq : EventFits(evq[i], c))'
      BY <2>1 DEF InQueue, EventFits, EventCarries
    <3>4. OutOnce(c)'
      BY <1>7 DEF OutOnce, PendingCarries, EventCarries
    <3>5. OnePlace(c)'
      BY <2>1, <2>2, <3>4 DEF OnePlace, FinderOnce, QueueOnce, InQueue, InFinder
    <3>6. QED
      BY <2>2, <3>2, <3>3, <3>5 DEF Journey, Fits
  <2>5. QED
    BY <2>3, <2>4
<1>10. QED
  BY <1>8, <1>9

\* What is sent changes its place, and the command arrives at the address known.
LEMMA JourneyAwait ==
  ASSUME TypeOK, JourneyInv, NEW p \in out, Await(p), NEW c \in Channels
  PROVE  Journey(c)'
<1>1. p \in Pending /\ Journey(c)
  BY DEF TypeOK, JourneyInv
<1>2. chst' = chst /\ finding' = finding
  BY DEF Await, SendSelf, SendLookup, SendSearch, SendHealthy, SendCommand,
         SendCommandFails, Join, setVars, pipeVars
\* A message that carries the channel was the only one, wherever it goes.
<1>3. ASSUME PendingCarries(p, c), out' = out \ {p}
      PROVE  /\ ~InOut(c)' /\ ~InFinder(c)' /\ PendingFits(p, c)
             /\ c \notin searchq /\ ~InQueue(c) /\ sent[c] = <<>>
  <2>1. InOut(c) /\ PendingFits(p, c)
    BY <1>1, <1>3 DEF InOut, Journey, Fits
  <2>2. ~InOut(c)'
    BY <1>1, <1>3 DEF InOut, Journey, OnePlace, OutOnce, PendingCarries, EventCarries
  <2>3. QED
    BY <1>1, <1>2, <2>1, <2>2 DEF Journey, OnePlace, InFinder
<1>4. CASE SendSelf(p)
  <2>1. /\ p.op = "self" /\ p.ev \in Event /\ evq' = Append(evq, p.ev) /\ out' = out \ {p}
        /\ UNCHANGED <<searchq, finding, sent>>
    BY <1>1, <1>4 DEF SendSelf, Pending, pipeVars
  <2>2. CASE ~EventCarries(p.ev, c)
    BY <1>1, <1>2, <2>1, <2>2, AppendUntouched, JourneyKept
  <2>3. CASE EventCarries(p.ev, c)
    <3>1. /\ ~InOut(c)' /\ ~InFinder(c)' /\ PendingFits(p, c)
          /\ c \notin searchq' /\ ~InQueue(c) /\ sent'[c] = <<>>
      BY <1>3, <2>1, <2>3 DEF PendingCarries
    <3>2. /\ QueueOnce(c)'
          /\ \A i \in DOMAIN evq' : EventCarries(evq'[i], c) => evq'[i] = p.ev
      BY <2>1, <3>1, CarrierAppended
    <3>3. OnePlace(c)'
      BY <3>1, <3>2 DEF OnePlace, OutOnce, FinderOnce, InOut, InFinder
    <3>4. EventFits(p.ev, c)'
      BY <1>2, <2>1, <3>1 DEF PendingFits, EventFits, Searched, PlacedAt
    <3>5. (\A i \in DOMAIN evq : EventFits(evq[i], c))'
      BY <3>2, <3>4 DEF EventFits, EventCarries
    <3>6. (\A q \in out : PendingFits(q, c))'
      BY <3>1 DEF InOut, PendingFits, PendingCarries, EventFits, EventCarries
    <3>7. QED
      BY <3>1, <3>3, <3>5, <3>6 DEF Journey, Fits
  <2>4. QED
    BY <2>2, <2>3
<1>5. CASE SendSearch(p)
  <2>1. /\ p.op = "search" /\ searchq' = searchq \cup {p.ch} /\ out' = out \ {p}
        /\ UNCHANGED <<evq, finding, sent>>
    BY <1>5 DEF SendSearch
  <2>2. CASE p.ch # c
    <3>1. Untouched(c)
      BY <2>1, <2>2 DEF Untouched, QueueKept, QueueOnce
    <3>2. QED
      BY <1>1, <1>2, <3>1, JourneyKept
  <2>3. CASE p.ch = c
    <3>1. /\ ~InOut(c)' /\ ~InFinder(c)' /\ PendingFits(p, c)
          /\ ~InQueue(c) /\ sent'[c] = <<>>
      BY <1>3, <2>1, <2>3 DEF PendingCarries
    <3>2. ~InQueue(c)'
      BY <2>1, <3>1 DEF InQueue, EventCarries
    <3>3. OnePlace(c)'
      BY <3>1, <3>2 DEF OnePlace, OutOnce, FinderOnce, QueueOnce, InOut, InFinder, InQueue
    <3>4. Searched(c)'
      BY <1>2, <2>1, <2>3, <3>1 DEF PendingFits, Searched
    <3>5. (\A i \in DOMAIN evq : EventFits(evq[i], c))'
      BY <3>2 DEF InQueue, EventFits, EventCarries
    <3>6. (\A q \in out : PendingFits(q, c))'
      BY <3>1 DEF InOut, PendingFits, PendingCarries, EventFits, EventCarries
    <3>7. QED
      BY <3>1, <3>3, <3>4, <3>5, <3>6 DEF Journey, Fits
  <2>4. QED
    BY <2>2, <2>3
<1>6. CASE SendCommand(p)
  <2>1. /\ p.op = "cmd" /\ p.addr \in Addrs /\ p.cmd \in Command /\ out' = out \ {p}
        /\ sent' = IF p.cmd.cmd = "ChannelAdd"
                   THEN [sent EXCEPT ![p.cmd.ch] = Append(@, p.addr)] ELSE sent
        /\ UNCHANGED <<evq, searchq, finding>>
    BY <1>1, <1>6 DEF SendCommand, Pending, pipeVars
  <2>2. CASE ~(p.cmd.cmd = "ChannelAdd" /\ p.cmd.ch = c)
    <3>1. sent'[c] = sent[c]
      BY <2>1, <2>2 DEF TypeOK
    <3>2. Untouched(c)
      BY <2>1, <3>1, AsideUntouched
    <3>3. QED
      BY <1>1, <1>2, <3>2, JourneyKept
  <2>3. CASE p.cmd.cmd = "ChannelAdd" /\ p.cmd.ch = c
    <3>1. /\ ~InOut(c)' /\ ~InFinder(c)' /\ PendingFits(p, c)
          /\ c \notin searchq' /\ ~InQueue(c) /\ sent[c] = <<>>
      BY <1>3, <2>1, <2>3 DEF PendingCarries
    <3>2. ~InQueue(c)'
      BY <2>1, <3>1 DEF InQueue, EventCarries
    <3>3. sent'[c] = <<p.addr>>
      <4>1. sent'[c] = Append(sent[c], p.addr)
        BY <2>1, <2>3 DEF TypeOK
      <4>2. QED
        BY <3>1, <4>1
    <3>4. OnePlace(c)'
      BY <3>1, <3>2 DEF OnePlace, OutOnce, FinderOnce, QueueOnce, InOut, InFinder, InQueue
    <3>5. chst'[c].st \in {"withAddress", "toRemove"} /\ chst'[c].addr = p.addr
      BY <1>2, <2>1, <2>3, <3>1 DEF PendingFits, PlacedAt
    <3>6. (\A i \in DOMAIN evq : EventFits(evq[i], c))'
      BY <3>2 DEF InQueue, EventFits, EventCarries
    <3>7. (\A q \in out : PendingFits(q, c))'
      BY <3>1 DEF InOut, PendingFits, PendingCarries, EventFits, EventCarries
    <3>8. QED
      BY <3>1, <3>3, <3>4, <3>5, <3>6, <3>7 DEF Journey, Fits, PlacedAt
  <2>4. QED
    BY <2>2, <2>3
<1>7. CASE SendLookup(p) \/ SendHealthy(p) \/ SendCommandFails(p) \/ Join(p)
  <2>1. Untouched(c)
    BY <1>7, AsideUntouched DEF SendLookup, SendHealthy, SendCommandFails, Join, pipeVars
  <2>2. QED
    BY <1>1, <1>2, <2>1, JourneyKept
<1>8. QED
  BY <1>4, <1>5, <1>6, <1>7 DEF Await

\* The finder takes it from the search queue and answers for it once.
LEMMA JourneyFinder ==
  ASSUME TypeOK, JourneyInv, Finder, NEW c \in Channels
  PROVE  Journey(c)'
<1>1. Journey(c)
  BY DEF JourneyInv
<1>2. ASSUME NEW batch \in SUBSET searchq, FinderTakes(batch) PROVE Journey(c)'
  <2>1. /\ searchq' = searchq \ batch /\ finding' = finding \cup {batch}
        /\ UNCHANGED <<evq, out, chst, sent>>
    BY <1>2 DEF FinderTakes, setVars
  <2>2. CASE c \notin batch
    <3>1. Untouched(c)
      BY <2>1, <2>2 DEF Untouched, QueueKept, QueueOnce
    <3>2. QED
      BY <1>1, <2>1, <3>1, JourneyKept
  <2>3. CASE c \in batch
    <3>1. c \in searchq
      BY <2>3
    <3>2. ~InOut(c) /\ ~InFinder(c) /\ ~InQueue(c) /\ sent[c] = <<>> /\ Searched(c)
      BY <1>1, <3>1 DEF Journey, OnePlace, Fits
    <3>3. ~InOut(c)' /\ ~InQueue(c)' /\ sent'[c] = <<>> /\ Searched(c)' /\ c \notin searchq'
      BY <2>1, <2>3, <3>2 DEF InOut, InQueue, PendingCarries, EventCarries, Searched
    <3>4. FinderOnce(c)'
      BY <2>1, <3>2 DEF FinderOnce, InFinder
    <3>5. OnePlace(c)'
      BY <3>3, <3>4 DEF OnePlace, OutOnce, QueueOnce, InOut, InQueue
    <3>6. (\A p \in out : PendingFits(p, c))'
      BY <3>3 DEF InOut, PendingFits, PendingCarries, EventFits, EventCarries
    <3>7. (\A i \in DOMAIN evq : EventFits(evq[i], c))'
      BY <3>3 DEF InQueue, EventFits, EventCarries
    <3>8. QED
      BY <3>3, <3>5, <3>6, <3>7 DEF Journey, Fits
  <2>4. QED
    BY <2>2, <2>3
<1>3. ASSUME NEW batch \in finding, FinderAnswers(batch) PROVE Journey(c)'
  <2>1. PICK res \in [batch -> AddrOrNone] :
          evq' = Append(evq, [kind |-> "IocAddrQueryResult", res |-> res])
    BY <1>3 DEF FinderAnswers
  <2>2. batch \in SUBSET Channels
    BY DEF TypeOK
  <2>3. finding' = finding \ {batch} /\ UNCHANGED <<out, chst, searchq, sent>>
    BY <1>3 DEF FinderAnswers, setVars
  <2> DEFINE ev == [kind |-> "IocAddrQueryResult", res |-> res]
  <2>4. ev \in Event
    BY <2>1, <2>2 DEF SearchResult, Event
  <2>5. EventCarries(ev, c) <=> c \in batch
    BY <2>1 DEF EventCarries
  <2>6. ev.kind = "IocAddrQueryResult" /\ evq' = Append(evq, ev)
    BY <2>1
  <2> HIDE DEF ev
  <2>7. CASE c \notin batch
    <3>1. Untouched(c)
      BY <2>3, <2>4, <2>5, <2>6, <2>7, AppendUntouched
    <3>2. QED
      BY <1>1, <2>3, <3>1, JourneyKept
  <2>8. CASE c \in batch
    <3>1. InFinder(c)
      BY <2>8 DEF InFinder
    <3>2. ~InOut(c) /\ c \notin searchq /\ ~InQueue(c) /\ sent[c] = <<>> /\ Searched(c)
      BY <1>1, <3>1 DEF Journey, OnePlace, Fits
    <3>3. ~InOut(c)' /\ c \notin searchq' /\ sent'[c] = <<>> /\ Searched(c)'
      BY <2>3, <3>2 DEF InOut, PendingCarries, EventCarries, Searched
    <3>4. ~InFinder(c)'
      BY <1>1, <2>3, <2>8 DEF InFinder, Journey, OnePlace, FinderOnce
    <3>5. /\ QueueOnce(c)'
          /\ \A i \in DOMAIN evq' : EventCarries(evq'[i], c) => evq'[i] = ev
      BY <2>4, <2>6, <3>2, CarrierAppended
    <3>6. OnePlace(c)'
      BY <3>3, <3>4, <3>5 DEF OnePlace, OutOnce, FinderOnce, InOut, InFinder
    <3>7. (\A p \in out : PendingFits(p, c))'
      BY <3>3 DEF InOut, PendingFits, PendingCarries, EventFits, EventCarries
    <3>8. (\A i \in DOMAIN evq : EventFits(evq[i], c))'
      BY <2>6, <3>3, <3>5 DEF EventFits, EventCarries
    <3>9. QED
      BY <3>3, <3>4, <3>6, <3>7, <3>8 DEF Journey, Fits
  <2>9. QED
    BY <2>7, <2>8
<1>4. ASSUME NEW batch \in finding, FinderLoses(batch) PROVE Journey(c)'
  <2>1. Untouched(c) /\ chst' = chst
    BY <1>4, AsideUntouched DEF FinderLoses, setVars
  <2>2. QED
    BY <1>1, <2>1, JourneyKept
<1>5. QED
  BY <1>2, <1>3, <1>4 DEF Finder

\* The invariant about the way of every channel holds in every reachable state.
LEMMA JourneyCorrect == Spec => []JourneyInv
<1>1. Init => JourneyInv
  BY DEF Init, JourneyInv, Journey, OnePlace, Fits, OutOnce, FinderOnce, QueueOnce, InOut,
         InFinder, InQueue
<1>2. TypeOK /\ JourneyInv /\ [Next]_vars => JourneyInv'
  <2> SUFFICES ASSUME TypeOK, JourneyInv, [Next]_vars, NEW c \in Channels
               PROVE  Journey(c)'
    BY DEF JourneyInv
  <2>0. Journey(c)
    BY DEF JourneyInv
  <2>1. CASE HandleSeriesLookupResult \/ HandleCheckHealth \/ HandleShutdown
             \/ HandleQueryItem \/ HandleCaConnEos
    <3>1. chst' = chst /\ UNCHANGED <<pipeVars, sent>>
      BY <2>1 DEF HandleSeriesLookupResult, HandleCheckHealth, HandleShutdown,
                  HandleQueryItem, HandleCaConnEos, setVars
    <3>2. PICK k : Take(k)
      BY <2>1 DEF HandleSeriesLookupResult, HandleCheckHealth, HandleShutdown,
                  HandleQueryItem, HandleCaConnEos
    <3>3. \A p \in out' : ~PendingCarries(p, c)
      BY <2>1 DEF HandleSeriesLookupResult, HandleCheckHealth, HandleShutdown,
                  HandleQueryItem, HandleCaConnEos, Take, PendingCarries, EventCarries
    <3>4. QED
      BY <2>0, <3>1, <3>2, <3>3, HandlerUntouched, JourneyKept
  <2>2. CASE Handle
    BY <2>1, <2>2, JourneyAddChannel, JourneyAddChannelWithStatusId, JourneyAddChannelWithAddr,
       JourneyRemoveChannel, JourneyIocQueryResult DEF Handle
  <2>3. CASE \E p \in out : Await(p)
    BY <2>3, JourneyAwait
  <2>4. CASE RunEnds
    BY <2>0, <2>4, AsideUntouched, JourneyKept DEF RunEnds, pipeVars
  <2>5. ASSUME NEW a \in Addrs, Conn(a) PROVE Journey(c)'
    <3>1. UNCHANGED <<chst, out, searchq, finding, sent>>
      BY <2>5 DEF Conn, ConnCommand, ConnItem, ConnItemSent, ConnStreamEnds, ConnEosSent,
                  ConnDropped, ConnSendFails, setVars, pipeVars
    <3>2. CASE ConnItemSent(a)
      <4>1. [kind |-> "QueryItem", addr |-> a] \in Event
            /\ ~EventCarries([kind |-> "QueryItem", addr |-> a], c)
        BY DEF Event, EventCarries
      <4>2. QED
        BY <2>0, <3>1, <3>2, <4>1, AppendUntouched, JourneyKept DEF ConnItemSent
    <3>3. CASE ConnEosSent(a)
      <4>1. Eos(a) \in Event /\ ~EventCarries(Eos(a), c)
        BY DEF Event, EventCarries, Eos
      <4>2. QED
        BY <2>0, <3>1, <3>3, <4>1, AppendUntouched, JourneyKept DEF ConnEosSent
    <3>4. CASE evq' = evq
      BY <2>0, <3>1, <3>4, AsideUntouched, JourneyKept
    <3>5. QED
      BY <2>5, <3>2, <3>3, <3>4 DEF Conn, ConnCommand, ConnItem, ConnStreamEnds, ConnDropped,
                                    ConnSendFails
  <2>6. ASSUME NEW b \in Channels, LookupAnswered(b) PROVE Journey(c)'
    <3>1. [kind |-> "SeriesLookupResult", ch |-> b] \in Event
          /\ ~EventCarries([kind |-> "SeriesLookupResult", ch |-> b], c)
      BY DEF Event, EventCarries
    <3>2. QED
      BY <2>0, <2>6, <3>1, AppendUntouched, JourneyKept DEF LookupAnswered, setVars
  <2>7. ASSUME NEW b \in Channels, LookupLost(b) PROVE Journey(c)'
    BY <2>0, <2>7, AsideUntouched, JourneyKept DEF LookupLost, setVars
  <2>8. CASE Finder
    BY <2>8, JourneyFinder
  <2>10. CASE Ctrl
    <3>1. UNCHANGED <<chst, out, searchq, finding, sent>>
      BY <2>10, CtrlStep DEF setVars, pipeVars
    <3>2. CASE evq' = evq
      BY <2>0, <3>1, <3>2, AsideUntouched, JourneyKept
    <3>3. ASSUME NEW ev \in CtrlEvent, evq' = Append(evq, ev)
          PROVE  Journey(c)'
      <4>1. ev \in Event /\ ~EventCarries(ev, c)
        BY CtrlEventType DEF CtrlEvent, EventCarries
      <4>2. QED
        BY <2>0, <3>1, <3>3, <4>1, AppendUntouched, JourneyKept
    <3>4. QED
      BY <2>10, <3>2, <3>3, CtrlStep
  <2>11. CASE UNCHANGED vars
    BY <2>0, <2>11, AsideUntouched, JourneyKept DEF vars, setVars, pipeVars
  <2>12. QED
    BY <2>2, <2>3, <2>4, <2>5, <2>6, <2>7, <2>8, <2>10, <2>11 DEF Next, SetStep, Lookup
<1>3. QED
  BY <1>1, <1>2, TypeCorrect, PTL DEF Spec

(* A channel is handed to at most one CaConn, at most once, and the state  *)
(* that the set keeps of it names that address, however searches, lookups, *)
(* removals and repeated adds interleave.                                  *)
THEOREM AddedOnceCorrect == Spec => []AddedOnceWhereKnown
<1>1. JourneyInv => AddedOnceWhereKnown
  BY DEF JourneyInv, Journey, Fits, PlacedAt, AddedOnceWhereKnown
<1>2. QED
  BY <1>1, JourneyCorrect, PTL

(* No event that was under way when a channel was removed, and no repeated *)
(* add, takes the channel out of ToRemove again.                           *)
THEOREM RemovalIsFinalCorrect == Spec => RemovalIsFinal
<1>1. TypeOK /\ [Next]_vars =>
        [\A c \in Channels : chst[c].st = "toRemove" => chst'[c].st = "toRemove"]_vars
  <2> SUFFICES ASSUME TypeOK, Next, NEW c \in Channels, chst[c].st = "toRemove"
               PROVE  chst'[c].st = "toRemove"
    OBVIOUS
  <2>1. CASE HandleAddChannel
    BY <2>1 DEF HandleAddChannel, ChannelStTo, TypeOK
  <2>2. CASE HandleAddChannelWithStatusId
    BY <2>2 DEF HandleAddChannelWithStatusId, MayStartSearch, ChannelStTo, TypeOK
  <2>3. CASE HandleRemoveChannel
    BY <2>3 DEF HandleRemoveChannel, ChannelStTo, TypeOK
  <2>4. CASE HandleIocQueryResult
    BY <2>4 DEF HandleIocQueryResult, AwaitsAddress, WithStatusSeriesId, TypeOK
  <2>5. CASE chst' = chst
    BY <2>5
  <2>6. QED
    <3>1. CASE SetStep
      BY <2>1, <2>2, <2>3, <2>4, <2>5, <3>1 DEF SetStep, Handle, HandleSeriesLookupResult,
         HandleAddChannelWithAddr, HandleCheckHealth, HandleShutdown, HandleQueryItem,
         HandleCaConnEos, RunEnds, Await, SendSelf, SendLookup, SendSearch, SendHealthy,
         SendCommand, SendCommandFails, Join, setVars
    <3>2. CASE \E a \in Addrs : Conn(a)
      BY <2>5, <3>2 DEF Conn, ConnCommand, ConnItem, ConnItemSent, ConnStreamEnds, ConnEosSent,
         ConnDropped, ConnSendFails, setVars
    <3>3. CASE Lookup \/ Finder
      BY <2>5, <3>3 DEF Lookup, LookupAnswered, LookupLost, Finder, FinderTakes, FinderAnswers,
         FinderLoses, setVars
    <3>4. CASE Ctrl
      BY <2>5, <3>4, CtrlStep DEF setVars
    <3>5. QED
      BY <3>1, <3>2, <3>3, <3>4 DEF Next
<1>2. QED
  BY <1>1, TypeCorrect, PTL DEF Spec, RemovalIsFinal

-----------------------------------------------------------------------------
(* The shutdown of the CaConn tasks.                                       *)

\* The CaConn has the Shutdown command queued, or the handler awaits its send.
Told(a) == \E i \in DOMAIN cmdq[a] : cmdq[a][i].cmd = "Shutdown"

Telling(a) == [op |-> "cmd", addr |-> a, cmd |-> [cmd |-> "Shutdown"]] \in out

ShutdownInv ==
  \A a \in Addrs :
    phase[a] = "run" => /\ setpc = "run" => (stopping => Told(a) \/ Telling(a))
                        /\ setpc = "done" => Told(a)

\* What an appended command leaves in the queue.
LEMMA ToldAppended ==
  ASSUME NEW q \in Seq(Command), NEW cmd \in Command
  PROVE  /\ cmd.cmd = "Shutdown" =>
              \E i \in DOMAIN Append(q, cmd) : Append(q, cmd)[i].cmd = "Shutdown"
         /\ (\E i \in DOMAIN q : q[i].cmd = "Shutdown") =>
              \E i \in DOMAIN Append(q, cmd) : Append(q, cmd)[i].cmd = "Shutdown"
<1>1. /\ DOMAIN q = 1..Len(q) /\ Len(q) \in Nat
      /\ DOMAIN Append(q, cmd) = 1..(Len(q) + 1)
      /\ \A i \in 1..Len(q) : Append(q, cmd)[i] = q[i]
      /\ Append(q, cmd)[Len(q) + 1] = cmd
  OBVIOUS
<1>2. Len(q) + 1 \in DOMAIN Append(q, cmd) /\ DOMAIN q \subseteq DOMAIN Append(q, cmd)
  BY <1>1
<1>3. QED
  BY <1>1, <1>2

\* Taking a command that is not Shutdown leaves the Shutdown command queued.
LEMMA ToldTaken ==
  ASSUME NEW q \in Seq(Command), q # <<>>, Head(q).cmd # "Shutdown",
         \E i \in DOMAIN q : q[i].cmd = "Shutdown"
  PROVE  \E i \in DOMAIN Tail(q) : Tail(q)[i].cmd = "Shutdown"
<1>1. /\ DOMAIN q = 1..Len(q) /\ Len(q) \in Nat \ {0}
      /\ DOMAIN Tail(q) = 1..(Len(q) - 1)
      /\ \A i \in 1..(Len(q) - 1) : Tail(q)[i] = q[i + 1]
      /\ Head(q) = q[1]
  OBVIOUS
<1>2. PICK i \in DOMAIN q : q[i].cmd = "Shutdown"
  OBVIOUS
<1>3. i - 1 \in DOMAIN Tail(q) /\ Tail(q)[i - 1] = q[i]
  BY <1>1, <1>2
<1>4. QED
  BY <1>2, <1>3

\* A step that keeps what the CaConn in service has been told, or is being told.
LEMMA ShutdownKept ==
  ASSUME ShutdownInv, setpc' = setpc, stopping' = stopping, NEW a \in Addrs,
         phase'[a] = "run" => phase[a] = "run",
         phase'[a] = "run" => (Told(a) => Told(a)'),
         Telling(a) => Telling(a)' \/ Told(a)'
  PROVE  (phase[a] = "run" => /\ setpc = "run" => (stopping => Told(a) \/ Telling(a))
                              /\ setpc = "done" => Told(a))'
BY DEF ShutdownInv

\* The invariant about the shutdown holds in every reachable state.
LEMMA ShutdownInvCorrect == Spec => []ShutdownInv
<1>1. Init => ShutdownInv
  BY DEF Init, ShutdownInv
<1>2. TypeOK /\ IInv /\ ShutdownInv /\ [Next]_vars => ShutdownInv'
  <2> SUFFICES ASSUME TypeOK, IInv, ShutdownInv, [Next]_vars, NEW a \in Addrs
               PROVE  (phase[a] = "run" => /\ setpc = "run" => (stopping => Told(a) \/ Telling(a))
                                           /\ setpc = "done" => Told(a))'
    BY DEF ShutdownInv
  \* Before the shutdown, and once the set has failed, nothing is claimed.
  <2>1. CASE setpc = "run" /\ setpc' = "run" /\ ~stopping'
    BY <2>1
  <2>2. CASE Handle /\ ~HandleShutdown
    <3>1. setpc = "run" /\ setpc' = "run" /\ ~stopping'
      BY <2>2 DEF Handle, HandleAddChannel, HandleSeriesLookupResult,
         HandleAddChannelWithStatusId, HandleAddChannelWithAddr, HandleRemoveChannel,
         HandleIocQueryResult, HandleCheckHealth, HandleQueryItem, HandleCaConnEos, Take, setVars
    <3>2. QED
      BY <2>1, <3>1
  <2>3. CASE HandleShutdown
    <3>1. setpc = "run" /\ setpc' = "run" /\ phase' = phase
      BY <2>3 DEF HandleShutdown, Take, connVars
    <3>2. phase[a] = "run" => a \in ress
      BY <3>1 DEF IInv, EosAcc
    <3>3. phase[a] = "run" => Telling(a)'
      BY <2>3, <3>2 DEF HandleShutdown, ShutdownTargets, Telling
    <3>4. QED
      BY <3>1, <3>3
  <2>4. ASSUME NEW p \in out, Await(p)
        PROVE  (phase[a] = "run" => /\ setpc = "run" => (stopping => Told(a) \/ Telling(a))
                                    /\ setpc = "done" => Told(a))'
    <3>1. p \in Pending
      BY DEF TypeOK
    <3>2. CASE SendCommandFails(p)
      BY <3>2 DEF SendCommandFails
    <3>3. CASE SendCommand(p)
      <4>1. p.op = "cmd" /\ p.addr \in Addrs /\ p.cmd \in Command
        BY <3>1, <3>3 DEF SendCommand, Pending
      <4>2. /\ cmdq' = [cmdq EXCEPT ![p.addr] = Append(@, p.cmd)]
            /\ out' = out \ {p} /\ UNCHANGED <<setpc, stopping, phase>>
        BY <3>3 DEF SendCommand, setVars
      <4>3. Told(a) => Told(a)'
        <5>1. CASE a # p.addr
          BY <4>1, <4>2, <5>1 DEF Told, TypeOK
        <5>2. CASE a = p.addr
          <6>1. cmdq'[a] = Append(cmdq[a], p.cmd) /\ cmdq[a] \in Seq(Command)
            BY <4>1, <4>2, <5>2 DEF TypeOK
          <6>2. QED
            BY <4>1, <6>1, ToldAppended DEF Told
        <5>3. QED
          BY <5>1, <5>2
      <4>4. Telling(a) => Telling(a)' \/ Told(a)'
        <5>1. CASE p # [op |-> "cmd", addr |-> a, cmd |-> [cmd |-> "Shutdown"]]
          BY <4>2, <5>1 DEF Telling
        <5>2. CASE p = [op |-> "cmd", addr |-> a, cmd |-> [cmd |-> "Shutdown"]]
          <6>1. /\ cmdq'[a] = Append(cmdq[a], p.cmd) /\ cmdq[a] \in Seq(Command)
                /\ p.cmd.cmd = "Shutdown"
            BY <4>1, <4>2, <5>2 DEF TypeOK
          <6>2. QED
            BY <4>1, <6>1, ToldAppended DEF Told
        <5>3. QED
          BY <5>1, <5>2
      <4>5. QED
        BY <4>2, <4>3, <4>4, ShutdownKept
    <3>4. CASE SendSelf(p) \/ SendLookup(p) \/ SendSearch(p) \/ SendHealthy(p) \/ Join(p)
      <4>1. /\ p.op # "cmd" /\ out' = out \ {p}
            /\ UNCHANGED <<setpc, stopping, phase, cmdq>>
        BY <3>4 DEF SendSelf, SendLookup, SendSearch, SendHealthy, Join, setVars, connVars
      <4>2. Telling(a) => Telling(a)'
        BY <4>1 DEF Telling
      <4>3. Told(a) => Told(a)'
        BY <4>1 DEF Told
      <4>4. QED
        BY <4>1, <4>2, <4>3, ShutdownKept
    <3>5. QED
      BY <2>4, <3>2, <3>3, <3>4 DEF Await
  <2>5. CASE RunEnds
    <3>1. setpc = "run" /\ stopping /\ out = {} /\ phase' = phase /\ cmdq' = cmdq
          /\ setpc' = "done"
      BY <2>5 DEF RunEnds, connVars
    <3>2. phase[a] = "run" => Told(a)
      BY <3>1 DEF ShutdownInv, Telling
    <3>3. QED
      BY <3>1, <3>2 DEF Told
  <2>6. ASSUME NEW b \in Addrs, Conn(b)
        PROVE  (phase[a] = "run" => /\ setpc = "run" => (stopping => Told(a) \/ Telling(a))
                                    /\ setpc = "done" => Told(a))'
    <3>1. UNCHANGED <<setpc, stopping, out>>
      BY <2>6 DEF Conn, ConnCommand, ConnItem, ConnItemSent, ConnStreamEnds, ConnEosSent,
                  ConnDropped, ConnSendFails, setVars
    <3>2. phase'[a] = "run" => phase[a] = "run"
      BY <2>6 DEF Conn, ConnCommand, ConnItem, ConnItemSent, ConnStreamEnds, ConnEosSent,
                  ConnDropped, ConnSendFails, TypeOK
    <3>3. phase'[a] = "run" => (Told(a) => Told(a)')
      <4>1. CASE cmdq'[a] = cmdq[a]
        BY <4>1 DEF Told
      <4>2. CASE cmdq'[a] # cmdq[a]
        <5>1. ConnCommand(b)
          BY <2>6, <4>2 DEF Conn, ConnItem, ConnItemSent, ConnStreamEnds, ConnEosSent,
                            ConnDropped, ConnSendFails
        <5>2. /\ a = b /\ cmdq[a] # <<>> /\ cmdq'[a] = Tail(cmdq[a])
              /\ cmdq[a] \in Seq(Command)
          BY <4>2, <5>1 DEF ConnCommand, TypeOK
        <5>3. phase'[a] = "run" => Head(cmdq[a]).cmd # "Shutdown"
          BY <5>1, <5>2 DEF ConnCommand, TypeOK
        <5>4. QED
          BY <5>2, <5>3, ToldTaken DEF Told
      <4>3. QED
        BY <4>1, <4>2
    <3>4. Telling(a) => Telling(a)'
      BY <3>1 DEF Telling
    <3>5. QED
      BY <3>1, <3>2, <3>3, <3>4, ShutdownKept
  <2>7. CASE UNCHANGED <<setpc, stopping, phase, cmdq, out>>
    BY <2>7, ShutdownKept DEF Told, Telling
  <2>8. CASE Lookup \/ Finder \/ Ctrl \/ UNCHANGED vars
    <3>1. CASE Ctrl
      BY <2>7, <3>1, CtrlStep DEF setVars, connVars
    <3>2. CASE Lookup \/ Finder \/ UNCHANGED vars
      BY <2>7, <3>2 DEF Lookup, LookupAnswered, LookupLost, Finder, FinderTakes, FinderAnswers,
         FinderLoses, vars, setVars, connVars
    <3>3. QED
      BY <2>8, <3>1, <3>2
  <2>9. QED
    BY <2>2, <2>3, <2>4, <2>5, <2>6, <2>8 DEF Next, SetStep
<1>3. QED
  BY <1>1, <1>2, TypeCorrect, IInvCorrect, PTL DEF Spec

(* When CaConnSet::run has ended well, every CaConn that is still in       *)
(* service has the Shutdown command in its queue: the map that the handler *)
(* of Shutdown goes through has every task that lives.                     *)
THEOREM ShutdownReachesEveryConnCorrect == Spec => []ShutdownReachesEveryConn
<1>1. ShutdownInv => ShutdownReachesEveryConn
  BY DEF ShutdownInv, Told, ShutdownReachesEveryConn
<1>2. QED
  BY <1>1, ShutdownInvCorrect, PTL

-----------------------------------------------------------------------------
(* The standstills.                                                        *)

(* A set of numbers that is not empty has a least one.                      *)
LEMMA LeastNatural ==
  ASSUME NEW S, S \subseteq Nat, S # {}
  PROVE  \E n \in S : \A m \in S : n <= m
<1> DEFINE less == {p \in Nat \X Nat : p[1] < p[2]}
<1>1. IsWellFoundedOn(less, Nat)
  BY NatLessThanWellFounded DEF OpToRel
<1>2. \A m, n \in Nat : <<m, n>> \notin less => n <= m
  OBVIOUS
<1> HIDE DEF less
<1>3. PICK n \in S : \A m \in S : <<m, n>> \notin less
  BY <1>1, WFMin
<1>. QED BY <1>2, <1>3

\* The guards of what may happen while the set awaits: the send or the join
\* itself, and the steps of the tasks that can make room for it or end.
AwaitPossible(p) ==
  /\ setpc = "run"
  /\ \/ p.op = "self" /\ Room
     \/ p.op = "lookup" /\ LookupsHeld < LookupCap
     \/ p.op = "search" /\ Cardinality(searchq) < SearchCap
     \/ p.op = "healthy" /\ outq < OutCap
     \/ p.op = "cmd" /\ (phase[p.addr] = "ended" \/ Len(cmdq[p.addr]) < CmdCap)
     \/ p.op = "join" /\ phase[p.addr] = "ended"

ConnPossible(a) ==
  \/ Serving(a) /\ cmdq[a] # <<>>
  \/ hold[a] /\ setpc = "run" /\ Room
  \/ phase[a] = "eos" /\ setpc = "run" /\ Room
  \/ phase[a] = "signaled"

StepPossible ==
  \/ \E p \in out : AwaitPossible(p)
  \/ \E a \in Addrs : ConnPossible(a)
  \/ \E c \in Channels : lookups[c] > 0 /\ setpc = "run" /\ Room
  \/ \E batch \in SUBSET searchq : batch # {}
  \/ outq > 0 /\ ~crowded
  \/ sending # {} /\ setpc = "run" /\ Room

Joining(a) == [op |-> "join", addr |-> a] \in out

\* Only the handler of a set that runs awaits, and it joins no task that has
\* not told its end.
AwaitInv ==
  /\ out # {} => setpc = "run"
  /\ setpc = "run" => \A a \in Addrs : Joining(a) => phase[a] \in {"signaled", "ended"}

\* A task that has told its end does nothing but end.
LEMMA EndedStays ==
  ASSUME TypeOK, IInv, NEW a \in Addrs, phase[a] \in {"signaled", "ended"}, setpc = "run",
         NEW b \in Addrs, Conn(b)
  PROVE  phase'[a] \in {"signaled", "ended"}
<1>1. phase \in [Addrs -> Phase]
  BY DEF TypeOK
<1>2. CASE ConnCommand(b) \/ ConnItem(b) \/ ConnItemSent(b)
  BY <1>1, <1>2 DEF ConnCommand, ConnItem, ConnItemSent, Serving
<1>3. CASE ConnStreamEnds(b)
  BY <1>1, <1>3 DEF ConnStreamEnds, Serving
<1>4. CASE ConnEosSent(b) \/ ConnDropped(b) \/ ConnSendFails(b)
  BY <1>1, <1>4 DEF ConnEosSent, ConnDropped, ConnSendFails
<1>5. QED
  BY <1>2, <1>3, <1>4 DEF Conn

\* The end-of-stream event is only queued by a task that goes on to end, so
\* AwaitInv holds in every reachable state.
LEMMA AwaitInvCorrect == Spec => []AwaitInv
<1>1. Init => AwaitInv
  BY DEF Init, AwaitInv, Joining
<1>2. TypeOK /\ IInv /\ AwaitInv /\ [Next]_vars => AwaitInv'
  <2> SUFFICES ASSUME TypeOK, IInv, AwaitInv, [Next]_vars PROVE AwaitInv'
    OBVIOUS
  <2>1. ASSUME setpc = "run", setpc' = "run", \A p \in out' : p.op # "join" PROVE AwaitInv'
    BY <2>1 DEF AwaitInv, Joining
  <2>2. ASSUME setpc' = setpc, out' \subseteq out, phase' = phase PROVE AwaitInv'
    BY <2>2 DEF AwaitInv, Joining
  <2>3. CASE Handle /\ ~HandleCaConnEos
    <3>1. setpc = "run" /\ setpc' = "run" /\ out = {}
      BY <2>3 DEF Handle, HandleAddChannel, HandleSeriesLookupResult,
         HandleAddChannelWithStatusId, HandleAddChannelWithAddr, HandleRemoveChannel,
         HandleIocQueryResult, HandleCheckHealth, HandleShutdown, HandleQueryItem, Take, setVars
    <3>2. \A p \in out' : p.op # "join"
      BY <2>3, <3>1 DEF Handle, HandleAddChannel, HandleSeriesLookupResult,
         HandleAddChannelWithStatusId, HandleAddChannelWithAddr, HandleRemoveChannel,
         HandleIocQueryResult, HandleCheckHealth, HandleShutdown, HandleQueryItem, setVars
    <3>3. QED
      BY <3>1, <3>2, <2>1
  <2>4. CASE HandleCaConnEos
    <3>1. /\ Take("EndOfStream") /\ setpc = "run" /\ setpc' = "run" /\ phase' = phase
          /\ out' \subseteq {[op |-> "join", addr |-> Head(evq).addr]}
      BY <2>4 DEF HandleCaConnEos, Take, connVars
    <3>2. Head(evq) \in Event /\ Head(evq).kind = "EndOfStream" /\ evq # <<>> /\ evq \in Seq(Event)
      BY <3>1, TakeType DEF Take, TypeOK
    <3>3. Head(evq).addr \in Addrs /\ Head(evq) = Eos(Head(evq).addr)
      BY <3>2 DEF Event, Eos
    <3>4. EosQueued(Head(evq).addr)
      <4>1. 1 \in DOMAIN evq /\ evq[1] = Head(evq)
        BY <3>2
      <4>2. QED
        BY <3>3, <4>1 DEF EosQueued
    <3>5. phase[Head(evq).addr] \in {"signaled", "ended"}
      BY <3>1, <3>3, <3>4 DEF IInv, EosAcc
    <3>6. \A a \in Addrs : Joining(a)' => a = Head(evq).addr
      BY <3>1 DEF Joining
    <3>7. QED
      BY <3>1, <3>5, <3>6 DEF AwaitInv
  <2>5. ASSUME NEW p \in out, Await(p) PROVE AwaitInv'
    <3>1. CASE SendCommandFails(p)
      BY <3>1 DEF SendCommandFails, AwaitInv
    <3>2. CASE ~SendCommandFails(p)
      <4>1. setpc' = setpc /\ out' \subseteq out /\ phase' = phase
        BY <2>5, <3>2 DEF Await, SendSelf, SendLookup, SendSearch, SendHealthy, SendCommand, Join,
                          setVars, connVars
      <4>2. QED
        BY <4>1, <2>2
    <3>3. QED
      BY <3>1, <3>2
  <2>6. CASE RunEnds
    BY <2>6 DEF RunEnds, AwaitInv
  <2>7. ASSUME NEW b \in Addrs, Conn(b) PROVE AwaitInv'
    <3>1. UNCHANGED <<setpc, out>>
      BY <2>7 DEF Conn, ConnCommand, ConnItem, ConnItemSent, ConnStreamEnds, ConnEosSent,
                  ConnDropped, ConnSendFails, setVars
    <3>2. ASSUME setpc = "run", NEW a \in Addrs, Joining(a)
          PROVE  phase'[a] \in {"signaled", "ended"}
      BY <2>7, <3>2, EndedStays DEF AwaitInv
    <3>3. QED
      BY <3>1, <3>2 DEF AwaitInv, Joining
  <2>8. CASE Lookup \/ Finder \/ Ctrl \/ UNCHANGED vars
    <3>1. UNCHANGED <<setpc, phase, out>>
      BY <2>8, CtrlStep DEF Lookup, LookupAnswered, LookupLost, Finder, FinderTakes,
         FinderAnswers, FinderLoses, vars, setVars, connVars
    <3>2. QED
      BY <3>1, <2>2
  <2>9. QED
    BY <2>3, <2>4, <2>5, <2>6, <2>7, <2>8 DEF Next, SetStep
<1>3. QED
  BY <1>1, <1>2, TypeCorrect, IInvCorrect, PTL DEF Spec

\* Where no lookup is held their number is 0.
LEMMA NoLookups ==
  ASSUME lookups \in [Channels -> Nat], \A c \in Channels : lookups[c] = 0
  PROVE  LookupsHeld = 0
<1> DEFINE Eq(f) == f = [s \in SUBSET Channels |->
                           IF s = {} THEN 0
                           ELSE lookups[CHOOSE x \in s : TRUE] + f[s \ {CHOOSE x \in s : TRUE}]]
           g == CHOOSE f : Eq(f)
<1>1. LookupsHeld = g[Channels]
  <2>1. DOMAIN lookups = Channels
    OBVIOUS
  <2>2. QED
    BY <2>1 DEF LookupsHeld, FoldFunction, FoldFunctionOnSet, MapThenFoldSet
<1>2. \A s \in SUBSET Channels :
        s # {} => (CHOOSE x \in s : TRUE) \in s /\ lookups[CHOOSE x \in s : TRUE] = 0
  OBVIOUS
<1>3. Eq([s \in SUBSET Channels |-> 0])
  BY <1>2
<1>4. Eq(g)
  <2> HIDE DEF Eq
  <2>1. QED
    BY <1>3
<1> HIDE DEF g
<1>5. \A s \in SUBSET Channels :
        g[s] = IF s = {} THEN 0
               ELSE lookups[CHOOSE x \in s : TRUE] + g[s \ {CHOOSE x \in s : TRUE}]
  BY <1>4
<1> HIDE DEF Eq
<1> DEFINE Bad == {s \in SUBSET Channels : g[s] # 0}
           sizes == {Cardinality(s) : s \in Bad}
<1>6. \A s \in SUBSET Channels : IsFiniteSet(s) /\ Cardinality(s) \in Nat
  BY SetAssumption, FS_Subset, FS_CardinalityType
<1>7. Bad = {}
  <2> SUFFICES ASSUME Bad # {} PROVE FALSE
    OBVIOUS
  <2>1. PICK s \in Bad : \A t \in Bad : Cardinality(s) <= Cardinality(t)
    <3>1. sizes \subseteq Nat /\ sizes # {}
      BY <1>6
    <3> HIDE DEF sizes
    <3>2. PICK n \in sizes : \A m \in sizes : n <= m
      BY <3>1, LeastNatural
    <3>3. QED
      BY <3>2 DEF sizes
  <2>2. s \in SUBSET Channels /\ g[s] # 0
    BY <2>1
  <2>3. s # {}
    BY <1>5, <2>2
  <2> DEFINE x == CHOOSE y \in s : TRUE
  <2>4. x \in s /\ lookups[x] = 0
    BY <1>2, <2>2, <2>3
  <2>5. g[s] = lookups[x] + g[s \ {x}]
    BY <1>5, <2>2, <2>3
  <2> HIDE DEF x
  <2>6. Cardinality(s \ {x}) = Cardinality(s) - 1
    BY <1>6, <2>2, <2>4, FS_RemoveElement
  <2>7. s \ {x} \notin Bad
    <3>1. Cardinality(s) \in Nat
      BY <1>6, <2>2
    <3>2. ~(Cardinality(s) <= Cardinality(s \ {x}))
      BY <3>1, <2>6
    <3>3. QED
      BY <3>2, <2>1
  <2>8. g[s \ {x}] = 0
    BY <2>2, <2>7
  <2>9. QED
    BY <2>2, <2>4, <2>5, <2>8
<1>8. QED
  BY <1>1, <1>7

\* The daemon's queue fills up only while its loop does not take from it, a
\* daemon that has left its loop sends nothing, and the report is all that the
\* handler of CheckHealth awaits.
DaemonInv ==
  /\ crowded => sending # {} \/ gone
  /\ gone => sending = {}
  /\ outq <= OutCap
  /\ \A p \in out : p.op = "healthy" => out = {p}

\* DaemonInv holds in every reachable state.
LEMMA DaemonInvCorrect == Spec => []DaemonInv
<1>1. Init => DaemonInv
  BY SetAssumption DEF Init, DaemonInv
<1>2. TypeOK /\ DaemonInv /\ [Next]_vars => DaemonInv'
  <2> SUFFICES ASSUME TypeOK, DaemonInv, [Next]_vars PROVE DaemonInv'
    OBVIOUS
  <2>0. outq \in Nat /\ OutCap \in Nat
    BY SetAssumption DEF TypeOK
  <2>1. ASSUME UNCHANGED <<outq, ctrlVars>>, out' \subseteq out \/ \A p \in out' : p.op # "healthy"
        PROVE  DaemonInv'
    BY <2>1 DEF DaemonInv, ctrlVars
  <2>2. CASE Handle /\ ~HandleCheckHealth
    <3>1. UNCHANGED <<outq, ctrlVars>> /\ out = {}
      BY <2>2 DEF Handle, HandleAddChannel, HandleSeriesLookupResult,
         HandleAddChannelWithStatusId, HandleAddChannelWithAddr, HandleRemoveChannel,
         HandleIocQueryResult, HandleShutdown, HandleQueryItem, HandleCaConnEos, Take
    <3>2. \A p \in out' : p.op # "healthy"
      BY <2>2, <3>1 DEF Handle, HandleAddChannel, HandleSeriesLookupResult,
         HandleAddChannelWithStatusId, HandleAddChannelWithAddr, HandleRemoveChannel,
         HandleIocQueryResult, HandleShutdown, HandleQueryItem, HandleCaConnEos
    <3>3. QED
      BY <2>1, <3>1, <3>2
  <2>3. CASE HandleCheckHealth
    BY <2>3 DEF HandleCheckHealth, DaemonInv, ctrlVars
  <2>4. ASSUME NEW p \in out, Await(p) PROVE DaemonInv'
    <3>1. CASE SendHealthy(p)
      BY <2>0, <3>1 DEF SendHealthy, DaemonInv, ctrlVars
    <3>2. CASE ~SendHealthy(p)
      <4>1. UNCHANGED <<outq, ctrlVars>> /\ out' \subseteq out
        BY <2>4, <3>2 DEF Await, SendSelf, SendLookup, SendSearch, SendCommand,
                          SendCommandFails, Join
      <4>2. QED
        BY <2>1, <4>1
    <3>3. QED
      BY <3>1, <3>2
  <2>5. CASE RunEnds
    BY <2>1, <2>5 DEF RunEnds
  <2>6. ASSUME NEW a \in Addrs, Conn(a) PROVE DaemonInv'
    <3>1. UNCHANGED <<outq, sending, gone, crowded, out>>
      BY <2>6 DEF Conn, ConnCommand, ConnItem, ConnItemSent, ConnStreamEnds, ConnEosSent,
                  ConnDropped, ConnSendFails, ctrlVars
    <3>2. QED
      BY <3>1 DEF DaemonInv
  <2>7. CASE Lookup \/ Finder \/ UNCHANGED vars
    BY <2>1, <2>7 DEF Lookup, LookupAnswered, LookupLost, Finder, FinderTakes, FinderAnswers,
                      FinderLoses, vars
  <2>8. CASE Ctrl
    <3>1. out' = out
      BY <2>8, CtrlStep
    <3>2. CASE CtrlAddChannel \/ CtrlRemoveChannel \/ CtrlCheckHealth \/ CtrlShutdown
      <4>1. ASSUME NEW ev, NEW b, CtrlSend(ev, b) PROVE DaemonInv'
        <5>1. sending = {} /\ ~gone /\ ~crowded /\ outq' = outq
          BY <4>1 DEF CtrlSend, DaemonInv
        <5>2. (crowded' => sending' # {} \/ gone') /\ (gone' => sending' = {})
          <6>1. ASSUME Passes(ev) PROVE sending' = {} /\ ~crowded'
            BY <5>1, <6>1, Zenon DEF Passes
          <6>2. CASE ~Passes(ev)
            BY <4>1, <5>1, <6>2 DEF CtrlSend
          <6>3. QED
            BY <6>1, <6>2
        <5>3. QED
          BY <3>1, <5>1, <5>2 DEF DaemonInv
      <4>2. QED
        BY <3>2, <4>1 DEF CtrlAddChannel, CtrlRemoveChannel, CtrlCheckHealth, CtrlShutdown
    <3>3. ASSUME NEW ev \in sending, CtrlSent(ev) PROVE DaemonInv'
      BY <3>1, <3>3 DEF CtrlSent, Passes, DaemonInv
    <3>4. CASE CtrlSendFails \/ CtrlCrowds
      BY <3>1, <3>4 DEF CtrlSendFails, CtrlCrowds, DaemonInv
    <3>5. CASE CtrlReceive
      BY <2>0, <3>1, <3>5 DEF CtrlReceive, ctrlVars, DaemonInv
    <3>6. QED
      BY <2>8, <3>2, <3>3, <3>4, <3>5 DEF Ctrl
  <2>9. QED
    BY <2>2, <2>3, <2>4, <2>5, <2>6, <2>7, <2>8 DEF Next, SetStep
<1>3. QED
  BY <1>1, <1>2, TypeCorrect, PTL DEF Spec

(* While the set awaits something, and neither is its own event queue full *)
(* nor does a report wait for a daemon that has left its loop, some step   *)
(* is possible, by its guard, without any new request to the daemon: no    *)
(* other queue can bring the tasks to a standstill, whatever the           *)
(* capacities.  It is what StandstillCauses says, without ENABLED.         *)
THEOREM StandstillsNamed ==
  Spec => [](out # {} /\ Len(evq) < QueueCap /\ ~Backlog => StepPossible)
<1>1. TypeOK /\ IInv /\ AwaitInv /\ DaemonInv
        => (out # {} /\ Len(evq) < QueueCap /\ ~Backlog => StepPossible)
  <2> SUFFICES ASSUME TypeOK, IInv, AwaitInv, DaemonInv, out # {}, Len(evq) < QueueCap, ~Backlog
               PROVE  StepPossible
    OBVIOUS
  <2>1. setpc = "run" /\ Room
    BY DEF AwaitInv, Room
  <2>2. PICK p \in out : TRUE
    OBVIOUS
  <2>3. p \in Pending
    BY DEF TypeOK
  <2>4. /\ LookupCap \in Nat \ {0} /\ SearchCap \in Nat \ {0} /\ CmdCap \in Nat \ {0}
        /\ OutCap \in Nat \ {0}
    BY SetAssumption
  <2>5. CASE p.op = "self"
    BY <2>1, <2>5 DEF StepPossible, AwaitPossible
  <2>6. CASE p.op = "lookup"
    <3>1. CASE LookupsHeld < LookupCap
      BY <2>1, <2>6, <3>1 DEF StepPossible, AwaitPossible
    <3>2. CASE ~(LookupsHeld < LookupCap)
      <4>1. lookups \in [Channels -> Nat]
        BY DEF TypeOK
      <4>2. LookupsHeld # 0
        BY <2>4, <3>2
      <4>3. PICK c \in Channels : lookups[c] # 0
        BY <4>1, <4>2, NoLookups
      <4>4. lookups[c] > 0
        BY <4>1, <4>3
      <4>5. QED
        BY <2>1, <4>4 DEF StepPossible
    <3>3. QED
      BY <3>1, <3>2
  <2>7. CASE p.op = "search"
    <3>1. CASE searchq = {}
      <4>1. Cardinality(searchq) = 0
        BY <3>1, FS_EmptySet
      <4>2. QED
        BY <2>1, <2>4, <2>7, <4>1 DEF StepPossible, AwaitPossible
    <3>2. CASE searchq # {}
      BY <3>2 DEF StepPossible
    <3>3. QED
      BY <3>1, <3>2
  <2>8. CASE p.op = "healthy"
    <3>1. outq \in Nat /\ outq <= OutCap /\ (crowded => sending # {} \/ gone)
      BY DEF TypeOK, DaemonInv
    <3>2. CASE outq < OutCap
      BY <2>1, <2>8, <3>2 DEF StepPossible, AwaitPossible
    <3>3. CASE outq = OutCap
      <4>1. p = [op |-> "healthy"]
        BY <2>3, <2>8 DEF Pending
      <4>2. ~crowded \/ sending # {}
        BY <3>1, <3>3, <4>1 DEF Backlog
      <4>3. outq > 0
        BY <2>4, <3>3
      <4>4. QED
        BY <2>1, <4>2, <4>3 DEF StepPossible
    <3>4. QED
      BY <2>4, <3>1, <3>2, <3>3
  <2>9. CASE p.op = "cmd"
    <3>1. p.addr \in Addrs /\ p.addr \in ress
      BY <2>1, <2>3, <2>9 DEF Pending, IInv, OutOK
    <3>2. phase[p.addr] \in Phase \ {"none"}
      BY <2>1, <3>1 DEF IInv, EosAcc, TypeOK
    <3>3. CASE phase[p.addr] = "ended" \/ Len(cmdq[p.addr]) < CmdCap
      BY <2>1, <2>9, <3>3 DEF StepPossible, AwaitPossible
    <3>4. CASE ~(Len(cmdq[p.addr]) < CmdCap) /\ phase[p.addr] # "ended"
      <4>1. cmdq[p.addr] # <<>>
        <5>1. Len(<<>>) = 0
          OBVIOUS
        <5>2. QED
          BY <5>1, <2>4, <3>4
      <4>2. CASE phase[p.addr] \in {"run", "stop"}
        <5>1. hold[p.addr] \/ Serving(p.addr)
          BY <4>2 DEF Serving
        <5>2. ConnPossible(p.addr)
          BY <2>1, <4>1, <5>1 DEF ConnPossible
        <5>3. QED
          BY <3>1, <5>2 DEF StepPossible
      <4>3. CASE phase[p.addr] \in {"eos", "signaled"}
        <5>1. ConnPossible(p.addr)
          BY <2>1, <4>3 DEF ConnPossible
        <5>2. QED
          BY <3>1, <5>1 DEF StepPossible
      <4>4. QED
        BY <3>2, <3>4, <4>2, <4>3 DEF Phase
    <3>5. QED
      BY <3>3, <3>4
  <2>10. CASE p.op = "join"
    <3>1. p.addr \in Addrs /\ p = [op |-> "join", addr |-> p.addr]
      BY <2>3, <2>10 DEF Pending
    <3>2. phase[p.addr] \in {"signaled", "ended"}
      BY <2>1, <3>1 DEF AwaitInv, Joining
    <3>3. CASE phase[p.addr] = "ended"
      BY <2>1, <2>10, <3>3 DEF StepPossible, AwaitPossible
    <3>4. CASE phase[p.addr] = "signaled"
      BY <3>1, <3>4 DEF StepPossible, ConnPossible
    <3>5. QED
      BY <3>2, <3>3, <3>4
  <2>11. p.op \in {"self", "lookup", "search", "healthy", "cmd", "join"}
    BY <2>3 DEF Pending
  <2>12. QED
    BY <2>5, <2>6, <2>7, <2>8, <2>9, <2>10, <2>11
<1>2. QED
  BY <1>1, TypeCorrect, IInvCorrect, AwaitInvCorrect, DaemonInvCorrect, PTL

(* A backlog is for good: the set never gets to its next event.            *)
THEOREM BacklogStays == Spec => [][Backlog => Backlog']_vars
<1>1. TypeOK /\ DaemonInv /\ [Next]_vars => [Backlog => Backlog']_vars
  <2> SUFFICES ASSUME TypeOK, DaemonInv, Backlog, [Next]_vars PROVE Backlog'
    OBVIOUS
  <2>1. out = {[op |-> "healthy"]} /\ outq = OutCap /\ crowded /\ gone
    BY DEF Backlog, DaemonInv
  <2>2. UNCHANGED <<out, outq, crowded, gone>> => Backlog'
    BY DEF Backlog
  <2>3. ~SetStep \/ RunEnds
    <3>1. ~Handle
      BY <2>1 DEF Handle, HandleAddChannel, HandleSeriesLookupResult,
         HandleAddChannelWithStatusId, HandleAddChannelWithAddr, HandleRemoveChannel,
         HandleIocQueryResult, HandleCheckHealth, HandleShutdown, HandleQueryItem,
         HandleCaConnEos, Take
    <3>2. \A p \in out : ~Await(p)
      <4>1. OutCap \in Nat
        BY SetAssumption
      <4>2. QED
        BY <2>1, <4>1 DEF Await, SendSelf, SendLookup, SendSearch, SendHealthy, SendCommand,
                          SendCommandFails, Join
    <3>3. QED
      BY <3>1, <3>2 DEF SetStep
  <2>4. ~RunEnds
    BY <2>1 DEF RunEnds
  <2>5. ASSUME NEW a \in Addrs, Conn(a) PROVE Backlog'
    BY <2>2, <2>5 DEF Conn, ConnCommand, ConnItem, ConnItemSent, ConnStreamEnds, ConnEosSent,
                      ConnDropped, ConnSendFails, ctrlVars
  <2>6. CASE Lookup \/ Finder \/ UNCHANGED vars
    BY <2>2, <2>6 DEF Lookup, LookupAnswered, LookupLost, Finder, FinderTakes, FinderAnswers,
                      FinderLoses, vars, ctrlVars
  <2>7. CASE Ctrl
    <3>1. out' = out
      BY <2>7, CtrlStep
    <3>2. sending = {} /\ ~(outq > 0 /\ ~crowded)
      BY <2>1 DEF DaemonInv
    <3>3. UNCHANGED <<outq, crowded, gone>>
      BY <2>1, <2>7, <3>2 DEF Ctrl, CtrlAddChannel, CtrlRemoveChannel, CtrlCheckHealth,
         CtrlShutdown, CtrlSend, CtrlSendFails, CtrlCrowds, CtrlReceive
    <3>4. QED
      BY <2>2, <3>1, <3>3
  <2>8. QED
    BY <2>3, <2>4, <2>5, <2>6, <2>7 DEF Next
<1>2. QED
  BY <1>1, TypeCorrect, DaemonInvCorrect, PTL DEF Spec
=============================================================================
