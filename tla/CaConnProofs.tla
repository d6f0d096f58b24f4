---------------------------- MODULE CaConnProofs ----------------------------
(***************************************************************************)
(* Proofs about CaConn for every set of channels, every capacity of the    *)
(* queues and every number of repeated adds and answers.                   *)
(***************************************************************************)
EXTENDS CaConn, FiniteSetTheorems, SequenceTheorems, TLAPS

(* The connection exists exactly in the states between connect and         *)
(* shutdown, and channels that the IOC knows exist in PeerReady only.      *)
ConnectionInv ==
  /\ proto <=> state \in {"Init", "Listen", "PeerReady"}
  /\ task = "poll" => state = "PeerReady"
  /\ \A c \in Channels :
       chan[c] \in {"Creating", "FetchingSeriesId", "Created"}
         => state = "PeerReady"
  /\ task # "panicked"

IInv == TypeOK /\ ConnectionInv /\ InitCountExact

\* The channels in a state are finitely many, so counting them makes sense.
LEMMA InStateFinite ==
  ASSUME NEW s
  PROVE  /\ IsFiniteSet(InState(s))
         /\ Cardinality(InState(s)) \in Nat
<1>1. InState(s) \in SUBSET Channels
  BY DEF InState
<1>2. IsFiniteSet(InState(s))
  BY <1>1, ConnAssumption, FS_Subset
<1>3. QED
  BY <1>2, FS_CardinalityType

\* Control values stay within their types in every step.
LEMMA ControlTypeStep ==
  ASSUME ControlType, [Next]_vars
  PROVE  ControlType'
<1>1. CASE TickStep
  BY <1>1 DEF TickStep, PollTicker, Tick, TickFails, ControlType, TriggerShutdown,
     RearmedTicker, CaConnState, chanVars, wakeVars, outVars, netVars, setVars
<1>2. CASE OutStep
  BY <1>2 DEF OutStep, Yield, FlushQuery, Flushed, ControlType, wakeVars, netVars,
     setVars
<1>3. CASE CmdStep
  BY <1>3 DEF CmdStep, NoCommand, TakeCommand, CmdChannelAdd, CmdSeriesLookupResult,
     CmdShutdown, Unwrapped, TriggerShutdown, ControlType, CaConnState, netVars, setVars
<1>4. CASE StateStep
  BY <1>4 DEF StateStep, ShutdownRound, BeginConnect, FutPending, Connected,
     ConnectFailed, WaitOver, Greet, InInner, AfterShutdown, Unwrapped, ControlType,
     CaConnState, wakeVars, netVars, setVars
<1>5. CASE ListenStep
  BY <1>5 DEF ListenStep, ListenPending, ListenVersion, ListenOther, ListenError,
     ListenEof, InInner, Unwrapped, ControlType, CaConnState, wakeVars, netVars, setVars
<1>6. CASE PeerStep
  BY <1>6 DEF PeerStep, CreateChannels, PollPending, PollCreated, PollCreatedFails,
     PollEvent, PollEventDropped, PollOther, PollError, PollEof, InInner, Unwrapped,
     TriggerShutdown, AfterShutdown, ControlType, CaConnState, wakeVars, netVars, setVars
<1>7. CASE ItemSent \/ Wake \/ TickerElapses \/ FutCompletes
  BY <1>7 DEF ItemSent, Wake, TickerElapses, FutCompletes, ControlType, wakeVars,
     netVars, setVars
<1>8. CASE Environment
  BY <1>8 DEF Environment, Lookup, LookupAnswered, LookupLost, Set, SetAdds, SetStops,
     SetSends, Ioc, IocGreets, IocAnswers, IocRepeats, IocEvent, ConnectionEnds,
     IocSends, ControlType, wakeVars, netVars, setVars
<1>9. CASE UNCHANGED vars
  BY <1>9 DEF vars, ControlType, wakeVars, netVars, setVars
<1>10. QED
  BY <1>1, <1>2, <1>3, <1>4, <1>5, <1>6, <1>7, <1>8, <1>9 DEF Next, ConnStep

\* trigger_shutdown reports Closed once per Created channel.
LEMMA ShutdownItems ==
  ASSUME QueueType, TriggerShutdown
  PROVE  iiq' \in Seq(QueryItem) /\ inq' = <<>>
<1>1. Cardinality(InState("Created")) \in Nat
  BY InStateFinite
<1>2. ClosedItems \in Seq(QueryItem)
  <2>1. ClosedItems \in [1 .. Cardinality(InState("Created")) -> QueryItem]
    BY DEF ClosedItems, QueryItem
  <2>2. \A n \in Nat : [1 .. n -> QueryItem] \subseteq Seq(QueryItem)
    OBVIOUS
  <2>3. QED
    BY <1>1, <2>1, <2>2
<1>3. QED
  BY <1>2, ConcatProperties DEF TriggerShutdown, QueueType

\* What TakeCommand takes is a command of its kind, and the rest are commands.
LEMMA TakeType ==
  ASSUME QueueType, NEW k, TakeCommand(k)
  PROVE  cmdq' \in Seq(Command) /\ Head(cmdq) \in Command /\ Head(cmdq).cmd = k
  BY DEF QueueType, TakeCommand

\* What NextMessage takes is a message of its type, and the rest are messages.
LEMMA MessageType ==
  ASSUME QueueType, NEW k, NextMessage(k)
  PROVE  inq' \in Seq(Message) /\ Head(inq) \in Message /\ Head(inq).ty = k
  BY DEF QueueType, NextMessage

\* A sequence without one of its elements is one of the same set.
LEMMA WithoutType ==
  ASSUME NEW S, NEW seq \in Seq(S), NEW i \in 1 .. Len(seq)
  PROVE  Without(seq, i) \in Seq(S)
<1>1. Len(seq) \in Nat /\ \A j \in 1 .. Len(seq) : seq[j] \in S
  OBVIOUS
<1>2. SubSeq(seq, 1, i - 1) \in Seq(S) /\ SubSeq(seq, i + 1, Len(seq)) \in Seq(S)
  BY <1>1, SubSeqProperties
<1>3. QED
  BY <1>2, ConcatProperties DEF Without

\* The queues hold what their readers expect in every step.
LEMMA QueueTypeStep ==
  ASSUME QueueType, ChannelType, [Next]_vars
  PROVE  QueueType'
<1>1. CASE TickStep
  <2>1. CASE PollTicker
    BY <2>1 DEF PollTicker, QueueType, outVars, netVars
  <2>2. CASE Tick
    BY <2>2 DEF Tick, QueueType, QueryItem, netVars
  <2>3. CASE TickFails
    BY <2>3, ShutdownItems DEF TickFails, QueueType
  <2>4. QED
    BY <1>1, <2>1, <2>2, <2>3 DEF TickStep
<1>2. CASE OutStep
  <2>1. CASE Yield
    BY <2>1 DEF Yield, MustYield, QueueType, netVars
  <2>2. CASE FlushQuery
    BY <2>2 DEF FlushQuery, QueueType, netVars
  <2>3. CASE Flushed
    BY <2>3 DEF Flushed, QueueType, outVars, netVars
  <2>4. QED
    BY <1>2, <2>1, <2>2, <2>3 DEF OutStep
<1>3. CASE CmdStep
  <2>1. CASE NoCommand
    BY <2>1 DEF NoCommand, QueueType, outVars, netVars
  <2>2. CASE CmdChannelAdd
    BY <2>2, TakeType DEF CmdChannelAdd, QueueType, outVars, netVars
  <2>3. CASE CmdSeriesLookupResult
    BY <2>3, TakeType DEF CmdSeriesLookupResult, QueueType, QueryItem, netVars
  <2>4. CASE CmdShutdown
    BY <2>4, TakeType, ShutdownItems DEF CmdShutdown, QueueType
  <2>5. QED
    BY <1>3, <2>1, <2>2, <2>3, <2>4 DEF CmdStep
<1>4. CASE StateStep
  <2>1. CASE Connected \/ ConnectFailed
    <3>1. /\ iiq' = Append(iiq, "connection")
          /\ UNCHANGED <<cmdq, infoq, lookups, inq>>
      BY <2>1 DEF Connected, ConnectFailed, netVars
    <3>2. QED
      BY <3>1 DEF QueueType, QueryItem
  <2>2. CASE ShutdownRound \/ BeginConnect \/ FutPending \/ WaitOver \/ Greet
    BY <2>2 DEF ShutdownRound, BeginConnect, FutPending, WaitOver, Greet, QueueType,
       outVars, netVars
  <2>3. QED
    BY <1>4, <2>1, <2>2 DEF StateStep
<1>5. CASE ListenStep
  BY <1>5, MessageType DEF ListenStep, ListenPending, ListenVersion, ListenOther,
     ListenError, ListenEof, QueueType, outVars, netVars
<1>6. CASE PeerStep
  <2>1. CASE CreateChannels \/ PollPending
    BY <2>1 DEF CreateChannels, PollPending, QueueType, outVars, netVars
  <2>2. CASE PollCreated
    <3>1. Head(inq).ch \in Channels
      BY <2>2, MessageType DEF PollCreated, Message
    <3>2. QED
      BY <2>2, <3>1, MessageType DEF PollCreated, QueueType
  <2>3. CASE PollCreatedFails \/ PollEventDropped \/ PollOther
    BY <2>3, MessageType DEF PollCreatedFails, PollEventDropped, PollOther,
       QueueType, outVars
  <2>4. CASE PollEvent
    BY <2>4, MessageType DEF PollEvent, QueueType, QueryItem
  <2>5. CASE PollError \/ PollEof
    <3>1. TriggerShutdown /\ UNCHANGED <<cmdq, infoq, lookups>>
      BY <2>5 DEF PollError, PollEof
    <3>2. QED
      BY <3>1, ShutdownItems DEF QueueType
  <2>6. QED
    BY <1>6, <2>1, <2>2, <2>3, <2>4, <2>5 DEF PeerStep
<1>7. CASE ItemSent \/ Wake \/ TickerElapses \/ FutCompletes
  BY <1>7 DEF ItemSent, Wake, TickerElapses, FutCompletes, QueueType, outVars, netVars
<1>8. CASE Environment
  <2>1. CASE LookupAnswered
    <3>1. PICK i \in 1 .. Len(lookups) :
            /\ cmdq' = Append(cmdq, [cmd |-> "SeriesLookupResult", ch |-> lookups[i]])
            /\ lookups' = Without(lookups, i)
      BY <2>1 DEF LookupAnswered
    <3>2. lookups[i] \in Channels /\ lookups' \in Seq(Channels)
      BY <3>1, WithoutType DEF QueueType
    <3>3. [cmd |-> "SeriesLookupResult", ch |-> lookups[i]] \in Command
      BY <3>2 DEF Command
    <3>4. cmdq' \in Seq(Command)
      BY <3>1, <3>3 DEF QueueType
    <3>5. QED
      BY <2>1, <3>2, <3>4 DEF LookupAnswered, QueueType, netVars
  <2>2. CASE LookupLost
    BY <2>2, WithoutType DEF LookupLost, QueueType, netVars
  <2>3. CASE SetAdds
    BY <2>3 DEF SetAdds, SetSends, QueueType, Command, outVars, netVars
  <2>4. CASE SetStops
    BY <2>4 DEF SetStops, SetSends, QueueType, Command, outVars, netVars
  <2>5. CASE IocGreets
    BY <2>5 DEF IocGreets, IocSends, QueueType, Message, outVars
  <2>6. CASE IocAnswers
    <3>1. PICK c \in asked :
            \/ IocSends([ty |-> "CreateChanRes", ch |-> c])
            \/ \E ty \in {"unknownType", "other"} : IocSends([ty |-> ty])
      BY <2>6 DEF IocAnswers
    <3>2. c \in Channels
      BY DEF ChannelType
    <3>3. CASE IocSends([ty |-> "CreateChanRes", ch |-> c])
      BY <3>2, <3>3 DEF IocSends, QueueType, Message, outVars
    <3>4. CASE \E ty \in {"unknownType", "other"} : IocSends([ty |-> ty])
      BY <3>4 DEF IocSends, QueueType, Message, outVars
    <3>5. QED
      BY <3>1, <3>3, <3>4
  <2>7. CASE IocRepeats
    BY <2>7 DEF IocRepeats, IocSends, InState, QueueType, Message, outVars
  <2>8. CASE IocEvent
    BY <2>8 DEF IocEvent, IocSends, InState, QueueType, Message, outVars
  <2>9. CASE ConnectionEnds
    BY <2>9 DEF ConnectionEnds, IocSends, QueueType, Message, outVars
  <2>10. QED
    BY <1>8, <2>1, <2>2, <2>3, <2>4, <2>5, <2>6, <2>7, <2>8, <2>9
       DEF Environment, Lookup, Set, Ioc
<1>9. CASE UNCHANGED vars
  BY <1>9 DEF vars, QueueType, outVars, netVars
<1>10. QED
  BY <1>1, <1>2, <1>3, <1>4, <1>5, <1>6, <1>7, <1>8, <1>9 DEF Next, ConnStep

\* The environment touches the queues only.
LEMMA EnvironmentOutside ==
  ASSUME Environment
  PROVE  UNCHANGED <<task, state, proto, fut, chan, initCount, binned>>
BY DEF Environment, Lookup, LookupAnswered, LookupLost, Set, SetAdds, SetStops,
   SetSends, Ioc, IocGreets, IocAnswers, IocRepeats, IocEvent, ConnectionEnds,
   IocSends, chanVars

\* init_state_count keeps up with the channels in Init, and with that stays a
\* natural number.
LEMMA ChannelTypeStep ==
  ASSUME ControlType, QueueType, ChannelType, InitCountExact, [Next]_vars
  PROVE  ChannelType' /\ InitCountExact'
<1>1. ASSUME chan' = chan, initCount' = initCount
      PROVE  InState("Init")' = InState("Init")
  BY <1>1 DEF InState
<1>2. ASSUME NEW c \in Channels, chan[c] # "Init", NEW s \in ChannelState \ {"Init"},
             chan' = [chan EXCEPT ![c] = s]
      PROVE  InState("Init")' = InState("Init") /\ chan' \in [Channels -> ChannelState]
  BY <1>2 DEF InState, ChannelType
<1>3. ASSUME TriggerShutdown
      PROVE  /\ chan' \in [Channels -> ChannelState]
             /\ state' = "Shutdown" /\ asked' = {}
  BY <1>3 DEF TriggerShutdown, EndedChannels, ChannelState
<1>4. CASE TickStep
  BY <1>4, <1>1, <1>3 DEF TickStep, PollTicker, Tick, TickFails, ChannelType,
     InitCountExact, chanVars, netVars, setVars
<1>5. CASE OutStep
  BY <1>5, <1>1 DEF OutStep, Yield, FlushQuery, Flushed, ChannelType,
     InitCountExact, chanVars, netVars, setVars
<1>6. CASE CmdStep
  <2>1. CASE NoCommand
    BY <2>1, <1>1 DEF NoCommand, ChannelType, InitCountExact, chanVars, netVars, setVars
  <2>2. CASE CmdChannelAdd
    <3> DEFINE c == Head(cmdq).ch
    <3>1. c \in Channels
      BY <2>2, TakeType DEF CmdChannelAdd, Command
    <3>2. CASE chan[c] = "absent"
      <4>1. InState("Init")' = InState("Init") \cup {c} /\ c \notin InState("Init")
        BY <2>2, <3>1, <3>2 DEF CmdChannelAdd, InState, ChannelType
      <4>2. Cardinality(InState("Init"))' = Cardinality(InState("Init")) + 1
        BY <4>1, InStateFinite, FS_AddElement
      <4>3. chan' \in [Channels -> ChannelState] /\ initCount' = initCount + 1
        BY <2>2, <3>1, <3>2 DEF CmdChannelAdd, InitCountWith, ChannelType, ChannelState
      <4>4. QED
        BY <2>2, <4>2, <4>3 DEF CmdChannelAdd, ChannelType, InitCountExact, netVars, setVars
    <3>3. CASE chan[c] # "absent"
      BY <2>2, <1>1, <3>3 DEF CmdChannelAdd, InitCountWith, ChannelType,
         InitCountExact, netVars, setVars
    <3>4. QED
      BY <3>2, <3>3
  <2>3. CASE CmdSeriesLookupResult
    <3> DEFINE c == Head(cmdq).ch
    <3>1. c \in Channels
      BY <2>3, TakeType DEF CmdSeriesLookupResult, Command
    <3>2. CASE chan[c] = "FetchingSeriesId"
      BY <2>3, <1>2, <3>1, <3>2 DEF CmdSeriesLookupResult, ChannelType, ChannelState,
         InitCountExact, netVars, setVars
    <3>3. CASE chan[c] # "FetchingSeriesId"
      BY <2>3, <1>1, <3>3 DEF CmdSeriesLookupResult, ChannelType, InitCountExact,
         netVars, setVars
    <3>4. QED
      BY <3>2, <3>3
  <2>4. CASE CmdShutdown
    BY <2>4, <1>3 DEF CmdShutdown, ChannelType, InitCountExact, setVars
  <2>5. QED
    BY <1>6, <2>1, <2>2, <2>3, <2>4 DEF CmdStep
<1>7. CASE StateStep
  BY <1>7, <1>1 DEF StateStep, ShutdownRound, BeginConnect, FutPending, Connected,
     ConnectFailed, WaitOver, Greet, InInner, ChannelType, InitCountExact, chanVars,
     netVars, setVars
<1>8. CASE ListenStep
  BY <1>8, <1>1 DEF ListenStep, ListenPending, ListenVersion, ListenOther,
     ListenError, ListenEof, InInner, ChannelType, InitCountExact, chanVars, netVars,
     setVars
<1>9. CASE PeerStep
  <2>1. CASE CreateChannels
    <3> DEFINE created == IF initCount = 0 THEN {} ELSE InState("Init")
    <3>1. /\ state = "PeerReady" /\ state' = "PeerReady"
          /\ chan' = [c \in Channels |-> IF c \in created THEN "Creating" ELSE chan[c]]
          /\ initCount' = initCount - Cardinality(created)
          /\ asked' = asked \cup created
      BY <2>1 DEF CreateChannels, InInner, InitCountAfter
    <3>2. initCount = Cardinality(InState("Init")) /\ IsFiniteSet(InState("Init"))
      BY <3>1, InStateFinite DEF InitCountExact
    <3>3. created = InState("Init")
      BY <3>2, FS_EmptySet
    <3> HIDE DEF created
    <3>4. InState("Init")' = {} /\ initCount' = 0
      <4>1. \A c \in Channels : chan'[c] # "Init"
        BY <3>1, <3>3 DEF InState
      <4>2. initCount' = 0
        BY <3>1, <3>2, <3>3, InStateFinite
      <4>3. QED
        BY <4>1, <4>2 DEF InState
    <3>5. chan' \in [Channels -> ChannelState] /\ asked' \in SUBSET Channels
      BY <3>1, <3>3 DEF InState, ChannelType, ChannelState
    <3>6. QED
      BY <2>1, <3>4, <3>5, FS_EmptySet DEF CreateChannels, ChannelType,
         InitCountExact, setVars
  <2>2. CASE PollCreated
    <3> DEFINE c == Head(inq).ch
    <3>1. c \in Channels
      BY <2>2, MessageType DEF PollCreated, Message
    <3>2. chan[c] = "Creating"
      BY <2>2 DEF PollCreated, AwaitsCreation
    <3>3. chan' = [chan EXCEPT ![c] = "FetchingSeriesId"]
      BY <2>2 DEF PollCreated
    <3>4. QED
      BY <2>2, <1>2, <3>1, <3>2, <3>3 DEF PollCreated, ChannelType, ChannelState,
         InitCountExact, setVars
  <2>3. CASE PollPending \/ PollCreatedFails \/ PollEventDropped \/ PollOther
    BY <2>3, <1>1 DEF PollPending, PollCreatedFails, PollEventDropped, PollOther,
       ChannelType, InitCountExact, chanVars, netVars, setVars
  <2>4. CASE PollEvent
    <3>1. Head(inq).ch \in Channels
      BY <2>4, MessageType DEF PollEvent, Message
    <3>2. QED
      BY <2>4, <1>1, <3>1 DEF PollEvent, ChannelType, InitCountExact, setVars
  <2>5. CASE PollError \/ PollEof
    BY <2>5, <1>3 DEF PollError, PollEof, ChannelType, InitCountExact, setVars
  <2>6. QED
    BY <1>9, <2>1, <2>2, <2>3, <2>4, <2>5 DEF PeerStep
<1>10. CASE ItemSent \/ Wake \/ TickerElapses \/ FutCompletes
  BY <1>10, <1>1 DEF ItemSent, Wake, TickerElapses, FutCompletes, ChannelType,
     InitCountExact, chanVars, netVars, setVars
<1>11. CASE Environment
  <2>1. InitCountExact'
    BY <1>11, <1>1, EnvironmentOutside DEF InitCountExact
  <2>2. /\ asked' \in SUBSET Channels
        /\ adds' \in [Channels -> Nat]
        /\ repeats' \in Nat
    <3>1. CASE Lookup
      BY <3>1 DEF Lookup, LookupAnswered, LookupLost, ChannelType, netVars, setVars
    <3>2. CASE Set
      <4>1. asked' = asked /\ repeats' = repeats
        BY <3>2 DEF Set, SetAdds, SetStops, SetSends, netVars
      <4>2. \/ adds' = adds
            \/ \E c \in Channels : adds' = [adds EXCEPT ![c] = adds[c] + 1]
        BY <3>2 DEF Set, SetAdds, SetStops
      <4>3. QED
        BY <4>1, <4>2 DEF ChannelType
    <3>3. CASE IocGreets \/ IocEvent \/ ConnectionEnds
      BY <3>3 DEF IocGreets, IocEvent, ConnectionEnds, IocSends, ChannelType, setVars
    <3>4. CASE IocAnswers
      BY <3>4 DEF IocAnswers, IocSends, ChannelType, setVars
    <3>5. CASE IocRepeats
      BY <3>5 DEF IocRepeats, IocSends, ChannelType, setVars
    <3>6. QED
      BY <1>11, <3>1, <3>2, <3>3, <3>4, <3>5 DEF Environment, Ioc
  <2>3. QED
    BY <1>11, <2>1, <2>2, EnvironmentOutside DEF ChannelType
<1>12. CASE UNCHANGED vars
  BY <1>12, <1>1 DEF vars, ChannelType, InitCountExact, chanVars, netVars, setVars
<1>13. QED
  BY <1>4, <1>5, <1>6, <1>7, <1>8, <1>9, <1>10, <1>11, <1>12 DEF Next, ConnStep

\* The connection is made and dropped together with the states that use it.
LEMMA ConnectionStep ==
  ASSUME TypeOK, ConnectionInv, [Next]_vars
  PROVE  ConnectionInv'
<1> USE DEF ConnectionInv
<1>1. ASSUME TriggerShutdown
      PROVE  /\ state' = "Shutdown" /\ proto' = FALSE
             /\ \A c \in Channels : chan'[c] \in {"absent", "Ended"}
  BY <1>1 DEF TriggerShutdown, EndedChannels
<1>2. chan \in [Channels -> ChannelState] /\ proto \in BOOLEAN
  BY DEF TypeOK, ChannelType, ControlType
<1>3. CASE TickStep
  <2>1. CASE PollTicker
    BY <2>1 DEF PollTicker, chanVars
  <2>2. CASE Tick
    BY <2>2 DEF Tick
  <2>3. CASE TickFails
    <3>1. TriggerShutdown /\ task' = "tick"
      BY <2>3 DEF TickFails
    <3>2. QED
      BY <3>1, <1>1
  <2>4. QED
    BY <1>3, <2>1, <2>2, <2>3 DEF TickStep
<1>4. CASE OutStep
  BY <1>4 DEF OutStep, Yield, FlushQuery, Flushed, chanVars
<1>5. CASE CmdStep
  <2>1. CASE NoCommand \/ CmdChannelAdd
    BY <2>1, <1>2 DEF NoCommand, CmdChannelAdd, TakeCommand, chanVars
  <2>2. CASE CmdSeriesLookupResult
    <3>1. Head(cmdq).ch \in Channels
      BY <2>2, TakeType DEF CmdSeriesLookupResult, Command, TypeOK
    <3>2. QED
      BY <2>2, <1>2, <3>1 DEF CmdSeriesLookupResult, Unwrapped
  <2>3. CASE CmdShutdown
    BY <2>3, <1>1 DEF CmdShutdown
  <2>4. QED
    BY <1>5, <2>1, <2>2, <2>3 DEF CmdStep
<1>6. CASE StateStep
  BY <1>6, <1>2 DEF StateStep, ShutdownRound, BeginConnect, FutPending, Connected,
     ConnectFailed, WaitOver, Greet, InInner, AfterShutdown, Unwrapped, chanVars
<1>7. CASE ListenStep
  BY <1>7, <1>2 DEF ListenStep, ListenPending, ListenVersion, ListenOther,
     ListenError, ListenEof, InInner, Unwrapped, chanVars
<1>8. CASE PeerStep
  <2>1. CASE CreateChannels
    BY <2>1, <1>2 DEF CreateChannels, InInner, Unwrapped
  <2>2. CASE PollCreated
    BY <2>2, <1>2 DEF PollCreated
  <2>3. CASE PollPending \/ PollCreatedFails \/ PollEvent \/ PollEventDropped \/ PollOther
    BY <2>3 DEF PollPending, PollCreatedFails, PollEvent, PollEventDropped,
       PollOther, chanVars
  <2>4. CASE PollError \/ PollEof
    BY <2>4, <1>1 DEF PollError, PollEof, AfterShutdown
  <2>5. QED
    BY <1>8, <2>1, <2>2, <2>3, <2>4 DEF PeerStep
<1>9. CASE ItemSent \/ Wake \/ TickerElapses \/ FutCompletes
  <2>1. UNCHANGED <<state, proto, chan>> /\ task' \in {task, "tick"}
    BY <1>9 DEF ItemSent, Wake, TickerElapses, FutCompletes, chanVars
  <2>2. QED
    BY <2>1
<1>10. CASE Environment
  BY <1>10, EnvironmentOutside
<1>11. CASE UNCHANGED vars
  BY <1>11 DEF vars, chanVars
<1>12. QED
  BY <1>3, <1>4, <1>5, <1>6, <1>7, <1>8, <1>9, <1>10, <1>11 DEF Next, ConnStep

\* The inductive invariant holds in every reachable state.
LEMMA IInvCorrect == Spec => []IInv
<1>1. Init => IInv
  <2> SUFFICES ASSUME Init PROVE IInv
    OBVIOUS
  <2>1. InState("Init") = {}
    BY DEF Init, InState
  <2>2. ControlType
    BY DEF Init, ControlType, CaConnState
  <2>3. QueueType
    BY DEF Init, QueueType
  <2>4. ChannelType
    BY DEF Init, ChannelType, ChannelState
  <2>5. ConnectionInv
    BY DEF Init, ConnectionInv
  <2>6. InitCountExact
    BY <2>1, FS_EmptySet DEF Init, InitCountExact
  <2>7. QED
    BY <2>2, <2>3, <2>4, <2>5, <2>6 DEF IInv, TypeOK
<1>2. IInv /\ [Next]_vars => IInv'
  BY ControlTypeStep, QueueTypeStep, ChannelTypeStep, ConnectionStep DEF IInv, TypeOK
<1>3. QED
  BY <1>1, <1>2, PTL DEF Spec

(* Every variable keeps its type; in particular init_state_count is never  *)
(* decremented below zero in check_channels_state_init.                    *)
THEOREM TypeCorrect == Spec => []TypeOK
<1>1. IInv => TypeOK
  BY DEF IInv
<1>2. QED
  BY <1>1, IInvCorrect, PTL

(* No unwrap of self.proto meets None, whatever the order of commands,     *)
(* lookup results, messages and failures.                                  *)
THEOREM NeverUnwrapsNoneCorrect == Spec => []NeverUnwrapsNone
<1>1. IInv => NeverUnwrapsNone
  BY DEF IInv, ConnectionInv, NeverUnwrapsNone
<1>2. QED
  BY <1>1, IInvCorrect, PTL

(* A connection that has announced channels is not given up for a new one. *)
THEOREM NeverReconnectsCorrect == Spec => NeverReconnectsWithChannels
<1>1. IInv /\ [Next]_vars
        => [state = "PeerReady" => state' \in {"PeerReady", "Shutdown"}]_vars
  <2> SUFFICES ASSUME IInv, [Next]_vars, state = "PeerReady"
               PROVE  state' \in {"PeerReady", "Shutdown"}
    OBVIOUS
  <2>1. CASE TickStep \/ CmdStep
    BY <2>1 DEF TickStep, PollTicker, Tick, TickFails, CmdStep, NoCommand,
       CmdChannelAdd, CmdSeriesLookupResult, CmdShutdown, TriggerShutdown
  <2>2. CASE OutStep \/ ItemSent \/ Wake \/ TickerElapses \/ FutCompletes
    BY <2>2 DEF OutStep, Yield, FlushQuery, Flushed, ItemSent, Wake, TickerElapses,
       FutCompletes
  <2>3. CASE StateStep \/ ListenStep
    BY <2>3 DEF StateStep, ShutdownRound, BeginConnect, FutPending, Connected,
       ConnectFailed, WaitOver, Greet, ListenStep, ListenPending, ListenVersion,
       ListenOther, ListenError, ListenEof, InInner
  <2>4. CASE PeerStep
    BY <2>4 DEF PeerStep, CreateChannels, PollPending, PollCreated,
       PollCreatedFails, PollEvent, PollEventDropped, PollOther, PollError, PollEof,
       TriggerShutdown
  <2>5. CASE Environment
    BY <2>5, EnvironmentOutside
  <2>6. CASE UNCHANGED vars
    BY <2>6 DEF vars
  <2>7. QED
    BY <2>1, <2>2, <2>3, <2>4, <2>5, <2>6 DEF Next, ConnStep
<1>2. QED
  BY <1>1, IInvCorrect, PTL DEF Spec, NeverReconnectsWithChannels

(* The count by which handle_peer_ready skips its channels is exact until  *)
(* the shutdown of the connection.                                         *)
THEOREM InitCountCorrect == Spec => []InitCountExact
<1>1. IInv => InitCountExact
  BY DEF IInv
<1>2. QED
  BY <1>1, IInvCorrect, PTL

-----------------------------------------------------------------------------
(* The way of a series lookup through the three queues.                    *)

Has(s, x) == \E i \in DOMAIN s : s[i] = x

Once(s, x) == \A i, j \in DOMAIN s : s[i] = x /\ s[j] = x => i = j

Result(c) == [cmd |-> "SeriesLookupResult", ch |-> c]

UnderWay(c) == Has(infoq, c) \/ Has(lookups, c) \/ Has(cmdq, Result(c))

(* In one of the queues at most, once at most, and if so for a channel that *)
(* waits for it or has been ended.                                          *)
OneLookup(c) ==
  /\ Once(infoq, c) /\ Once(lookups, c) /\ Once(cmdq, Result(c))
  /\ ~(Has(infoq, c) /\ Has(lookups, c))
  /\ ~(Has(infoq, c) /\ Has(cmdq, Result(c)))
  /\ ~(Has(lookups, c) /\ Has(cmdq, Result(c)))
  /\ UnderWay(c) => chan[c] \in {"FetchingSeriesId", "Ended"}

\* What is left after the head is taken, and that an element there once is then gone.
LEMMA TailHas ==
  ASSUME NEW S, NEW s \in Seq(S), s # <<>>, NEW x
  PROVE  /\ Has(Tail(s), x) => Has(s, x)
         /\ Once(s, x) => Once(Tail(s), x)
         /\ Once(s, x) /\ Head(s) = x => ~Has(Tail(s), x)
         /\ Has(s, Head(s))
<1> DEFINE t == Tail(s)
<1>1. /\ Len(s) \in Nat \ {0} /\ DOMAIN s = 1 .. Len(s) /\ Head(s) = s[1]
      /\ DOMAIN t = 1 .. (Len(s) - 1)
      /\ \A i \in DOMAIN t : t[i] = s[i + 1]
  OBVIOUS
<1> HIDE DEF t
<1>2. \A i \in DOMAIN t : i \in Nat /\ i + 1 \in DOMAIN s /\ i + 1 # 1 /\ t[i] = s[i + 1]
  BY <1>1
<1>3. 1 \in DOMAIN s
  BY <1>1
<1>4. Has(t, x) => Has(s, x)
  BY <1>2 DEF Has
<1>5. ASSUME Once(s, x) PROVE Once(t, x)
  <2> SUFFICES ASSUME NEW i \in DOMAIN t, NEW j \in DOMAIN t, t[i] = x, t[j] = x PROVE i = j
    BY DEF Once
  <2>1. i + 1 = j + 1
    BY <1>2, <1>5 DEF Once
  <2>2. QED
    BY <1>2, <2>1
<1>6. ASSUME Once(s, x), Head(s) = x PROVE ~Has(t, x)
  BY <1>1, <1>2, <1>3, <1>6 DEF Once, Has
<1>7. Has(s, Head(s))
  BY <1>1, <1>3 DEF Has
<1>8. QED
  BY <1>4, <1>5, <1>6, <1>7 DEF t

\* An appended element is there, and once if it was not there before.
LEMMA AppendHas ==
  ASSUME NEW S, NEW s \in Seq(S), NEW y \in S, NEW x
  PROVE  /\ Has(Append(s, y), x) <=> Has(s, x) \/ x = y
         /\ Once(s, x) /\ (x # y \/ ~Has(s, x)) => Once(Append(s, y), x)
<1> DEFINE t == Append(s, y)
           n == Len(s) + 1
<1>1. /\ DOMAIN t = DOMAIN s \cup {n} /\ t[n] = y
      /\ \A i \in DOMAIN s : t[i] = s[i]
  OBVIOUS
<1> HIDE DEF t, n
<1>2. Has(t, x) <=> Has(s, x) \/ x = y
  BY <1>1 DEF Has
<1>3. ASSUME Once(s, x), x # y \/ ~Has(s, x) PROVE Once(t, x)
  BY <1>1, <1>3 DEF Once, Has
<1>4. QED
  BY <1>2, <1>3 DEF t

\* What is where in a sequence without its element i.
LEMMA WithoutAt ==
  ASSUME NEW S, NEW s \in Seq(S), NEW i \in 1 .. Len(s)
  PROVE  /\ DOMAIN Without(s, i) = 1 .. (Len(s) - 1)
         /\ \A j \in 1 .. (Len(s) - 1) : Without(s, i)[j] = IF j < i THEN s[j] ELSE s[j + 1]
<1>1. Len(s) \in Nat /\ i \in Nat /\ i >= 1 /\ i <= Len(s) /\ \A j \in 1 .. Len(s) : s[j] \in S
  OBVIOUS
<1> DEFINE a == SubSeq(s, 1, i - 1)
           b == SubSeq(s, i + 1, Len(s))
<1>2. /\ a \in Seq(S) /\ Len(a) = i - 1
      /\ \A j \in 1 .. (i - 1) : a[j] = s[j]
  BY <1>1
<1>3. /\ b \in Seq(S) /\ Len(b) = Len(s) - i
      /\ \A j \in 1 .. (Len(s) - i) : b[j] = s[i + j]
  BY <1>1
<1> HIDE DEF a, b
<1> DEFINE t == a \o b
<1>4. /\ t \in Seq(S) /\ Len(t) = Len(a) + Len(b)
      /\ \A j \in 1 .. Len(a) + Len(b) : t[j] = IF j <= Len(a) THEN a[j] ELSE b[j - Len(a)]
  BY <1>2, <1>3, ConcatProperties
<1>5. t = Without(s, i)
  BY DEF Without, a, b
<1> HIDE DEF t
<1>6. Len(t) = Len(s) - 1 /\ DOMAIN t = 1 .. (Len(s) - 1)
  BY <1>1, <1>2, <1>3, <1>4
<1>7. ASSUME NEW j \in 1 .. (Len(s) - 1)
      PROVE  t[j] = IF j < i THEN s[j] ELSE s[j + 1]
  <2>1. CASE j < i
    BY <1>1, <1>2, <1>3, <1>4, <2>1
  <2>2. CASE j >= i
    <3>1. j - (i - 1) \in 1 .. (Len(s) - i) /\ i + (j - (i - 1)) = j + 1
      BY <1>1, <2>2
    <3>2. t[j] = b[j - (i - 1)]
      <4>1. j \in 1 .. Len(a) + Len(b) /\ ~(j <= Len(a)) /\ Len(a) = i - 1
        BY <1>1, <1>2, <1>3, <2>2
      <4>2. t[j] = b[j - Len(a)]
        BY <1>4, <4>1
      <4>3. QED
        BY <4>1, <4>2
    <3>3. QED
      BY <1>1, <1>3, <2>2, <3>1, <3>2
  <2>3. QED
    BY <1>1, <2>1, <2>2
<1>8. QED
  BY <1>5, <1>6, <1>7

\* Taking element i away adds nothing, and takes an element that is there once.
LEMMA WithoutHas ==
  ASSUME NEW S, NEW s \in Seq(S), NEW i \in 1 .. Len(s), NEW x
  PROVE  /\ Has(Without(s, i), x) => Has(s, x)
         /\ Once(s, x) => Once(Without(s, i), x)
         /\ Once(s, x) /\ s[i] = x => ~Has(Without(s, i), x)
         /\ Has(s, s[i])
<1> DEFINE t == Without(s, i)
           At(j) == IF j < i THEN j ELSE j + 1
<1>1. Len(s) \in Nat /\ i \in Nat /\ DOMAIN s = 1 .. Len(s) /\ i \in DOMAIN s
  OBVIOUS
<1>2. DOMAIN t = 1 .. (Len(s) - 1) /\ \A j \in DOMAIN t : t[j] = IF j < i THEN s[j] ELSE s[j + 1]
  BY WithoutAt
<1> HIDE DEF t
<1>3. \A j \in DOMAIN t : t[j] = s[At(j)]
  BY <1>2
<1>4. \A j \in DOMAIN t : At(j) \in DOMAIN s /\ At(j) # i
  BY <1>1, <1>2
<1>5. \A j, k \in DOMAIN t : At(j) = At(k) => j = k
  BY <1>1, <1>2
<1> HIDE DEF At
<1>6. Has(t, x) => Has(s, x)
  BY <1>3, <1>4 DEF Has
<1>7. ASSUME Once(s, x) PROVE Once(t, x)
  BY <1>3, <1>4, <1>5, <1>7 DEF Once
<1>8. ASSUME Once(s, x), s[i] = x PROVE ~Has(t, x)
  BY <1>1, <1>3, <1>4, <1>8 DEF Once, Has
<1>9. Has(s, s[i])
  BY <1>1 DEF Has
<1>10. QED
  BY <1>6, <1>7, <1>8, <1>9 DEF t

\* A step that leaves the queues alone and gives no channel with a lookup back.
LEMMA LookupUntouched ==
  ASSUME NEW c \in Channels, OneLookup(c), UNCHANGED <<infoq, lookups, cmdq>>,
         chan[c] \in {"FetchingSeriesId", "Ended"} => chan'[c] \in {"FetchingSeriesId", "Ended"}
  PROVE  OneLookup(c)'
BY DEF OneLookup, UnderWay, Has, Once, Result

\* trigger_shutdown ends every channel that is there.
LEMMA ShutdownEnds ==
  ASSUME NEW c \in Channels, TriggerShutdown, chan[c] # "absent"
  PROVE  chan'[c] = "Ended"
BY DEF TriggerShutdown, EndedChannels

\* A command that was taken off the queue.
LEMMA LookupTaken ==
  ASSUME NEW c \in Channels, QueueType, OneLookup(c),
         cmdq # <<>>, cmdq' = Tail(cmdq), UNCHANGED <<infoq, lookups>>,
         \/ chan[c] \in {"FetchingSeriesId", "Ended"} => chan'[c] \in {"FetchingSeriesId", "Ended"}
         \/ Head(cmdq) = Result(c)
  PROVE  OneLookup(c)'
<1> DEFINE q == Tail(cmdq)
           r == Result(c)
<1>1. cmdq \in Seq(Command) /\ Once(cmdq, r)
  BY DEF QueueType, OneLookup
<1>2. /\ Has(q, r) => Has(cmdq, r)
      /\ Once(q, r)
      /\ Head(cmdq) = r => ~Has(q, r) /\ Has(cmdq, r)
  BY <1>1, TailHas
<1>3. cmdq' = q /\ Result(c)' = r
  BY DEF Result
<1> HIDE DEF q, r
<1>4. /\ Has(cmdq, Result(c))' <=> Has(q, r)
      /\ Once(cmdq, Result(c))' <=> Once(q, r)
      /\ Has(infoq, c)' = Has(infoq, c) /\ Has(lookups, c)' = Has(lookups, c)
      /\ Once(infoq, c)' = Once(infoq, c) /\ Once(lookups, c)' = Once(lookups, c)
  BY <1>3 DEF Has, Once
<1>5. QED
  BY <1>2, <1>4 DEF OneLookup, UnderWay, r

\* A command that is none of the results for c.
LEMMA LookupCommandSent ==
  ASSUME NEW c \in Channels, QueueType, OneLookup(c), NEW m \in Command, m # Result(c),
         cmdq' = Append(cmdq, m), UNCHANGED <<infoq, lookups, chan>>
  PROVE  OneLookup(c)'
<1> DEFINE q == Append(cmdq, m)
           r == Result(c)
<1>1. cmdq \in Seq(Command) /\ Once(cmdq, r)
  BY DEF QueueType, OneLookup
<1>2. (Has(q, r) <=> Has(cmdq, r)) /\ Once(q, r)
  BY <1>1, AppendHas
<1>3. cmdq' = q /\ Result(c)' = r
  BY DEF Result
<1> HIDE DEF q, r
<1>4. /\ Has(cmdq, Result(c))' <=> Has(q, r)
      /\ Once(cmdq, Result(c))' <=> Once(q, r)
      /\ Has(infoq, c)' = Has(infoq, c) /\ Has(lookups, c)' = Has(lookups, c)
      /\ Once(infoq, c)' = Once(infoq, c) /\ Once(lookups, c)' = Once(lookups, c)
  BY <1>3 DEF Has, Once
<1>5. QED
  BY <1>2, <1>4 DEF OneLookup, UnderWay, r

\* A lookup result is told by its channel.
LEMMA ResultIs ==
  ASSUME NEW m \in Command, NEW c
  PROVE  m = Result(c) <=> m.cmd = "SeriesLookupResult" /\ m.ch = c
BY DEF Command, Result

\* A query goes to the workers.
LEMMA LookupFlushed ==
  ASSUME NEW c \in Channels, QueueType, OneLookup(c), FlushQuery
  PROVE  OneLookup(c)'
<1> DEFINE h == Head(infoq)
           a == Tail(infoq)
           b == Append(lookups, h)
<1>1. /\ infoq # <<>> /\ infoq' = a /\ lookups' = b /\ UNCHANGED <<cmdq, chan>>
      /\ infoq \in Seq(Channels) /\ lookups \in Seq(Channels)
  BY DEF FlushQuery, QueueType, chanVars
<1>2. h \in Channels
  BY <1>1
<1>3. /\ Has(a, c) => Has(infoq, c)
      /\ Once(infoq, c) => Once(a, c)
      /\ Once(infoq, c) /\ h = c => ~Has(a, c) /\ Has(infoq, c)
  BY <1>1, TailHas
<1>4. /\ Has(b, c) <=> Has(lookups, c) \/ c = h
      /\ Once(lookups, c) /\ (c # h \/ ~Has(lookups, c)) => Once(b, c)
  BY <1>1, <1>2, AppendHas
<1> HIDE DEF a, b, h
<1>5. /\ Has(infoq, c)' <=> Has(a, c)
      /\ Once(infoq, c)' <=> Once(a, c)
      /\ Has(lookups, c)' <=> Has(b, c)
      /\ Once(lookups, c)' <=> Once(b, c)
      /\ Has(cmdq, Result(c))' <=> Has(cmdq, Result(c))
      /\ Once(cmdq, Result(c))' <=> Once(cmdq, Result(c))
  BY <1>1 DEF Has, Once, Result
<1>6. QED
  BY <1>1, <1>3, <1>4, <1>5 DEF OneLookup, UnderWay

\* The workers answer, or lose a query.
LEMMA LookupsLeave ==
  ASSUME NEW c \in Channels, QueueType, OneLookup(c), LookupAnswered \/ LookupLost
  PROVE  OneLookup(c)'
<1>1. PICK i \in 1 .. Len(lookups) :
        /\ lookups' = Without(lookups, i)
        /\ \/ cmdq' = Append(cmdq, Result(lookups[i]))
           \/ UNCHANGED cmdq
  BY DEF LookupAnswered, LookupLost, Result
<1>2. UNCHANGED <<infoq, chan>> /\ lookups \in Seq(Channels) /\ cmdq \in Seq(Command)
  BY DEF LookupAnswered, LookupLost, QueueType, chanVars
<1> DEFINE h == lookups[i]
           b == Without(lookups, i)
           r == Result(c)
           q == Append(cmdq, Result(h))
<1>3. h \in Channels
  BY <1>2
<1>4. Result(h) \in Command /\ (Result(h) = r <=> h = c)
  BY <1>3 DEF Result, Command
<1>5. /\ Has(b, c) => Has(lookups, c)
      /\ Once(lookups, c) => Once(b, c)
      /\ Once(lookups, c) /\ h = c => ~Has(b, c) /\ Has(lookups, c)
  BY <1>2, WithoutHas
<1>6. /\ Has(q, r) <=> Has(cmdq, r) \/ r = Result(h)
      /\ Once(cmdq, r) /\ (r # Result(h) \/ ~Has(cmdq, r)) => Once(q, r)
  BY <1>2, <1>4, AppendHas
<1>7. lookups' = b /\ (cmdq' = q \/ cmdq' = cmdq) /\ Result(c)' = r
  BY <1>1 DEF Result
<1> HIDE DEF h, b, q, r
<1>8. /\ Has(lookups, c)' <=> Has(b, c)
      /\ Once(lookups, c)' <=> Once(b, c)
      /\ Has(infoq, c)' <=> Has(infoq, c)
      /\ Once(infoq, c)' <=> Once(infoq, c)
  BY <1>2, <1>7 DEF Has, Once
<1>9. \/ /\ Has(cmdq, Result(c))' <=> Has(q, r)
         /\ Once(cmdq, Result(c))' <=> Once(q, r)
      \/ /\ Has(cmdq, Result(c))' <=> Has(cmdq, r)
         /\ Once(cmdq, Result(c))' <=> Once(cmdq, r)
  BY <1>7 DEF Has, Once
<1>10. QED
  BY <1>2, <1>4, <1>5, <1>6, <1>8, <1>9 DEF OneLookup, UnderWay, r

\* Only a channel that has no lookup under way awaits its creation.
LEMMA LookupBegins ==
  ASSUME NEW c \in Channels, QueueType, ChannelType, OneLookup(c), PollCreated
  PROVE  OneLookup(c)'
<1> DEFINE d == Head(inq).ch
           a == Append(infoq, d)
<1>1. /\ d \in Channels /\ chan[d] = "Creating" /\ infoq' = a
      /\ chan' = [chan EXCEPT ![d] = "FetchingSeriesId"] /\ UNCHANGED <<cmdq, lookups>>
  BY MessageType DEF PollCreated, AwaitsCreation, Message
<1>2. infoq \in Seq(Channels) /\ chan \in [Channels -> ChannelState]
  BY DEF QueueType, ChannelType
<1>3. /\ Has(a, c) <=> Has(infoq, c) \/ c = d
      /\ Once(infoq, c) /\ (c # d \/ ~Has(infoq, c)) => Once(a, c)
  BY <1>1, <1>2, AppendHas
<1>4. IF c = d THEN chan[c] = "Creating" /\ chan'[c] = "FetchingSeriesId" ELSE chan'[c] = chan[c]
  BY <1>1, <1>2
<1> HIDE DEF a, d
<1>5. /\ Has(infoq, c)' <=> Has(a, c)
      /\ Once(infoq, c)' <=> Once(a, c)
      /\ Has(lookups, c)' <=> Has(lookups, c)
      /\ Once(lookups, c)' <=> Once(lookups, c)
      /\ Has(cmdq, Result(c))' <=> Has(cmdq, Result(c))
      /\ Once(cmdq, Result(c))' <=> Once(cmdq, Result(c))
  BY <1>1 DEF Has, Once, Result
<1>6. QED
  BY <1>3, <1>4, <1>5 DEF OneLookup, UnderWay

\* What the set sends is no answer of a lookup.
LEMMA SetAppends ==
  ASSUME Set
  PROVE  \E m \in Command : m.cmd # "SeriesLookupResult" /\ cmdq' = Append(cmdq, m)
<1>1. CASE SetAdds
  <2>1. PICK c \in Channels : cmdq' = Append(cmdq, [cmd |-> "ChannelAdd", ch |-> c])
    BY <1>1 DEF SetAdds, SetSends
  <2> DEFINE m == [cmd |-> "ChannelAdd", ch |-> c]
  <2>2. m \in Command /\ m.cmd # "SeriesLookupResult"
    BY DEF Command
  <2>3. QED
    BY <2>1, <2>2
<1>2. CASE SetStops
  <2> DEFINE m == [cmd |-> "Shutdown"]
  <2>1. cmdq' = Append(cmdq, m)
    BY <1>2 DEF SetStops, SetSends
  <2>2. m \in Command /\ m.cmd # "SeriesLookupResult"
    BY DEF Command
  <2>3. QED
    BY <2>1, <2>2
<1>3. QED
  BY <1>1, <1>2 DEF Set

\* No step gives a channel a second place in the lookup: one that fetches its series
\* asks once, and each place passes the query on.
LEMMA OneLookupStep ==
  ASSUME TypeOK, NEW c \in Channels, OneLookup(c), [Next]_vars
  PROVE  OneLookup(c)'
<1>1. QueueType /\ ChannelType /\ chan \in [Channels -> ChannelState]
  BY DEF TypeOK, ChannelType
<1>2. ASSUME TriggerShutdown
      PROVE  chan[c] \in {"FetchingSeriesId", "Ended"} => chan'[c] \in {"FetchingSeriesId", "Ended"}
  BY <1>2, ShutdownEnds
<1>3. CASE PollTicker \/ Tick \/ Yield \/ Flushed \/ NoCommand \/ StateStep \/ ListenStep
           \/ PollPending \/ PollCreatedFails \/ PollEvent \/ PollEventDropped \/ PollOther
           \/ ItemSent \/ Wake \/ TickerElapses \/ FutCompletes \/ UNCHANGED vars
  <2>1. UNCHANGED <<infoq, lookups, cmdq, chan>>
    BY <1>3 DEF PollTicker, Tick, Yield, Flushed, NoCommand, StateStep, ShutdownRound, BeginConnect,
       FutPending, Connected, ConnectFailed, WaitOver, Greet, ListenStep, ListenPending,
       ListenVersion, ListenOther, ListenError, ListenEof, PollPending, PollCreatedFails, PollEvent,
       PollEventDropped, PollOther, ItemSent, Wake, TickerElapses, FutCompletes, vars, chanVars,
       outVars
  <2>2. QED
    BY <2>1, LookupUntouched
<1>4. CASE TickFails \/ PollError \/ PollEof
  <2>1. TriggerShutdown /\ UNCHANGED <<infoq, lookups, cmdq>>
    BY <1>4 DEF TickFails, PollError, PollEof
  <2>2. QED
    BY <1>2, <2>1, LookupUntouched
<1>5. CASE CreateChannels
  <2>1. UNCHANGED <<infoq, lookups, cmdq>>
    BY <1>5 DEF CreateChannels, outVars
  <2>2. chan[c] # "Init" => chan'[c] = chan[c]
    BY <1>5 DEF CreateChannels, InState
  <2>3. QED
    BY <2>1, <2>2, LookupUntouched
<1>6. CASE CmdChannelAdd
  <2>1. /\ cmdq # <<>> /\ cmdq' = Tail(cmdq) /\ UNCHANGED <<infoq, lookups>>
        /\ chan' = IF chan[Head(cmdq).ch] = "absent" THEN [chan EXCEPT ![Head(cmdq).ch] = "Init"] ELSE chan
    BY <1>6 DEF CmdChannelAdd, TakeCommand, outVars
  <2>2. chan[c] # "absent" => chan'[c] = chan[c]
    BY <1>1, <2>1
  <2>3. QED
    BY <1>1, <2>1, <2>2, LookupTaken
<1>7. CASE CmdSeriesLookupResult
  <2>1. /\ cmdq # <<>> /\ cmdq' = Tail(cmdq) /\ UNCHANGED <<infoq, lookups>>
        /\ \/ chan' = [chan EXCEPT ![Head(cmdq).ch] = "Created"]
           \/ chan' = chan
    BY <1>7 DEF CmdSeriesLookupResult, TakeCommand
  <2>2. Head(cmdq) = Result(Head(cmdq).ch)
    BY <1>1, <1>7, TakeType, ResultIs DEF CmdSeriesLookupResult
  <2>3. chan'[c] = chan[c] \/ Head(cmdq) = Result(c)
    BY <1>1, <2>1, <2>2
  <2>4. QED
    BY <1>1, <2>1, <2>3, LookupTaken
<1>8. CASE CmdShutdown
  <2>1. cmdq # <<>> /\ cmdq' = Tail(cmdq) /\ UNCHANGED <<infoq, lookups>> /\ TriggerShutdown
    BY <1>8 DEF CmdShutdown, TakeCommand
  <2>2. QED
    BY <1>1, <1>2, <2>1, LookupTaken
<1>9. CASE Environment /\ Set
  <2>1. PICK m \in Command : m.cmd # "SeriesLookupResult" /\ cmdq' = Append(cmdq, m)
    BY <1>9, SetAppends
  <2>2. m # Result(c) /\ UNCHANGED <<infoq, lookups, chan>>
    BY <1>9, <2>1, ResultIs DEF Set, SetAdds, SetStops, SetSends, outVars, chanVars
  <2>3. QED
    BY <1>1, <2>1, <2>2, LookupCommandSent
<1>10. CASE Environment /\ Ioc
  <2>1. UNCHANGED <<infoq, lookups, cmdq, chan>>
    BY <1>10 DEF Ioc, IocGreets, IocAnswers, IocRepeats, IocEvent, ConnectionEnds, IocSends, outVars,
       chanVars
  <2>2. QED
    BY <2>1, LookupUntouched
<1>11. QED
  BY <1>1, <1>3, <1>4, <1>5, <1>6, <1>7, <1>8, <1>9, <1>10, LookupFlushed, LookupsLeave, LookupBegins
     DEF Next, ConnStep, TickStep, OutStep, CmdStep, PeerStep, Environment, Lookup

\* So there is at most one place at any time.
LEMMA OneLookupCorrect == Spec => [](\A c \in Channels : OneLookup(c))
<1>1. Init => \A c \in Channels : OneLookup(c)
  BY DEF Init, OneLookup, UnderWay, Has, Once
<1>2. IInv /\ (\A c \in Channels : OneLookup(c)) /\ [Next]_vars => (\A c \in Channels : OneLookup(c))'
  BY OneLookupStep DEF IInv
<1>3. QED
  BY <1>1, <1>2, IInvCorrect, PTL DEF Spec

\* How often something occurs that occurs at most once.
LEMMA AtMostOne ==
  ASSUME NEW n \in Nat, NEW P \in SUBSET (1 .. n), \A i, j \in P : i = j
  PROVE  Cardinality(P) = IF P = {} THEN 0 ELSE 1
<1>1. CASE P = {}
  BY <1>1, FS_EmptySet
<1>2. CASE P # {}
  <2>1. PICK i \in P : P = {i}
    BY <1>2
  <2>2. QED
    BY <2>1, FS_Singleton
<1>3. QED
  BY <1>1, <1>2

\* Being at one place, once, is being counted once by OpenLookups.
LEMMA OpenLookupsCount ==
  ASSUME QueueType, NEW c \in Channels, OneLookup(c)
  PROVE  OpenLookups(c) = IF UnderWay(c) THEN 1 ELSE 0
<1> DEFINE I == {i \in 1 .. Len(infoq) : infoq[i] = c}
           L == {i \in 1 .. Len(lookups) : lookups[i] = c}
           R == {i \in 1 .. Len(cmdq) : cmdq[i].cmd = "SeriesLookupResult" /\ cmdq[i].ch = c}
<1>1. OpenLookups(c) = Cardinality(I) + Cardinality(L) + Cardinality(R)
  BY DEF OpenLookups, Occurrences
<1>2. /\ Len(infoq) \in Nat /\ DOMAIN infoq = 1 .. Len(infoq)
      /\ Len(lookups) \in Nat /\ DOMAIN lookups = 1 .. Len(lookups)
      /\ Len(cmdq) \in Nat /\ DOMAIN cmdq = 1 .. Len(cmdq)
  BY DEF QueueType
<1>3. \A i \in 1 .. Len(cmdq) : cmdq[i] \in Command
  BY DEF QueueType
<1>4. R = {i \in 1 .. Len(cmdq) : cmdq[i] = Result(c)}
  BY <1>3, ResultIs
<1>5. Cardinality(I) = IF Has(infoq, c) THEN 1 ELSE 0
  <2>1. (\A i, j \in I : i = j) /\ (I # {} <=> Has(infoq, c))
    BY <1>2 DEF OneLookup, Once, Has
  <2>2. QED
    BY <1>2, <2>1, AtMostOne
<1>6. Cardinality(L) = IF Has(lookups, c) THEN 1 ELSE 0
  <2>1. (\A i, j \in L : i = j) /\ (L # {} <=> Has(lookups, c))
    BY <1>2 DEF OneLookup, Once, Has
  <2>2. QED
    BY <1>2, <2>1, AtMostOne
<1>7. Cardinality(R) = IF Has(cmdq, Result(c)) THEN 1 ELSE 0
  <2>1. (\A i, j \in R : i = j) /\ (R # {} <=> Has(cmdq, Result(c)))
    BY <1>2, <1>4 DEF OneLookup, Once, Has
  <2>2. QED
    BY <1>2, <2>1, AtMostOne
<1> HIDE DEF I, L, R
<1>8. QED
  BY <1>1, <1>5, <1>6, <1>7 DEF OneLookup, UnderWay

(* A channel has at most one lookup under way, and only while it fetches   *)
(* its series or after it has ended, for any channels and capacities and   *)
(* however often the IOC repeats its answers.                              *)
THEOREM LookupAnswersCorrect == Spec => []LookupAnswersItsChannel
<1>1. TypeOK /\ (\A c \in Channels : OneLookup(c)) => LookupAnswersItsChannel
  BY OpenLookupsCount DEF LookupAnswersItsChannel, TypeOK, OneLookup
<1>2. QED
  BY <1>1, TypeCorrect, OneLookupCorrect, PTL

-----------------------------------------------------------------------------
(* What is left in the stream's queue along one iteration of poll_next.    *)

Trailing(s) == \A i \in 1 .. Len(s) : s[i] \in {"closed", "opened"}

\* Items go first; what a command or the end of the connection adds to the
\* empty queue may be left behind.
YieldedInv ==
  /\ task = "cmd" => iiq = <<>>
  /\ task \in {"inner", "poll", "done"} => Trailing(iiq)
  /\ task = "done" => infoq = <<>>

\* trigger_shutdown adds nothing to the queue but channels that were closed.
LEMMA TrailingShutdown ==
  ASSUME QueueType, Trailing(iiq), TriggerShutdown
  PROVE  Trailing(iiq')
<1> DEFINE n == Cardinality(InState("Created"))
<1>1. n \in Nat
  BY InStateFinite
<1>2. iiq \in Seq(QueryItem) /\ iiq' = iiq \o ClosedItems
  BY DEF QueueType, TriggerShutdown
<1>3. ClosedItems = [i \in 1 .. n |-> "closed"]
  BY DEF ClosedItems
<1> HIDE DEF n
<1>4. ClosedItems \in Seq(QueryItem) /\ Len(ClosedItems) = n /\ \A i \in 1 .. n : ClosedItems[i] = "closed"
  <2>1. ClosedItems \in [1 .. n -> QueryItem]
    BY <1>3 DEF QueryItem
  <2>2. \A S : \A f \in [1 .. n -> S] : f \in Seq(S) /\ Len(f) = n
    BY ONLY <1>1
  <2>3. QED
    BY <1>3, <2>1, <2>2
<1> DEFINE k == ClosedItems
           t == iiq \o k
<1>5. /\ Len(t) = Len(iiq) + n /\ Len(iiq) \in Nat
      /\ \A i \in 1 .. Len(iiq) + n : t[i] = IF i <= Len(iiq) THEN iiq[i] ELSE k[i - Len(iiq)]
  <2>1. iiq \in Seq(QueryItem) /\ k \in Seq(QueryItem) /\ Len(k) = n
    BY <1>2, <1>4
  <2> HIDE DEF k
  <2>2. /\ Len(t) = Len(iiq) + Len(k)
        /\ \A i \in 1 .. Len(iiq) + Len(k) : t[i] = IF i <= Len(iiq) THEN iiq[i] ELSE k[i - Len(iiq)]
    BY <2>1, ConcatProperties
  <2> HIDE DEF t
  <2>3. QED
    BY <2>1, <2>2
<1> HIDE DEF t
<1>6. ASSUME NEW i \in 1 .. Len(t) PROVE t[i] \in {"closed", "opened"}
  <2>1. CASE i <= Len(iiq)
    BY <1>5, <2>1 DEF Trailing
  <2>2. CASE i > Len(iiq)
    <3>1. i - Len(iiq) \in 1 .. n /\ t[i] = ClosedItems[i - Len(iiq)]
      BY <1>1, <1>5, <2>2
    <3>2. QED
      BY <1>4, <3>1
  <2>3. QED
    BY <1>5, <2>1, <2>2
<1>7. QED
  BY <1>2, <1>6 DEF Trailing, t

\* Each position in the loop of poll_next keeps what is yielded before the next.
LEMMA YieldedStep ==
  ASSUME TypeOK, YieldedInv, [Next]_vars
  PROVE  YieldedInv'
<1> USE DEF YieldedInv
<1>1. QueueType
  BY DEF TypeOK
<1>2. CASE TickStep \/ Yield \/ FlushQuery \/ ItemSent \/ Wake
  BY <1>2 DEF TickStep, PollTicker, Tick, TickFails, Yield, FlushQuery, ItemSent, Wake
<1>3. CASE Flushed
  BY <1>3 DEF Flushed, MustYield, outVars
<1>4. CASE NoCommand \/ CmdChannelAdd
  BY <1>4 DEF NoCommand, CmdChannelAdd, TakeCommand, outVars, Trailing
<1>5. CASE CmdSeriesLookupResult
  <2>1. iiq = <<>> /\ iiq' = Append(iiq, "opened") /\ task' \in {"inner", "panicked"}
    BY <1>5 DEF CmdSeriesLookupResult, TakeCommand, Unwrapped
  <2>2. Trailing(iiq')
    BY <2>1 DEF Trailing
  <2>3. QED
    BY <2>1, <2>2 DEF Trailing
<1>6. CASE CmdShutdown
  <2>1. iiq = <<>> /\ TriggerShutdown /\ task' = "inner"
    BY <1>6 DEF CmdShutdown, TakeCommand
  <2>2. Trailing(iiq)
    BY <2>1 DEF Trailing
  <2>3. Trailing(iiq')
    BY <1>1, <2>1, <2>2, TrailingShutdown
  <2>4. QED
    BY <2>1, <2>3 DEF Trailing
<1>7. CASE StateStep
  BY <1>7 DEF StateStep, ShutdownRound, BeginConnect, FutPending, Connected, ConnectFailed, WaitOver,
     Greet, InInner, AfterShutdown, Unwrapped, outVars, Trailing
<1>8. CASE ListenStep
  BY <1>8 DEF ListenStep, ListenPending, ListenVersion, ListenOther, ListenError, ListenEof, InInner,
     Unwrapped, outVars, Trailing
<1>9. CASE CreateChannels \/ PollPending \/ PollCreated \/ PollCreatedFails \/ PollEvent
           \/ PollEventDropped \/ PollOther \/ PollError
  BY <1>9 DEF CreateChannels, PollPending, PollCreated, PollCreatedFails, PollEvent, PollEventDropped,
     PollOther, PollError, InInner, Unwrapped, outVars, Trailing
<1>10. CASE PollEof
  <2>1. TriggerShutdown /\ Trailing(iiq) /\ task' \in {"done", "tick"} /\ UNCHANGED infoq
        /\ (task' = "done" => infoq = <<>>)
    BY <1>10 DEF PollEof, AfterShutdown
  <2>2. Trailing(iiq')
    BY <1>1, <2>1, TrailingShutdown
  <2>3. QED
    BY <2>1, <2>2 DEF Trailing
<1>11. CASE TickerElapses \/ FutCompletes \/ UNCHANGED vars
  BY <1>11 DEF TickerElapses, FutCompletes, vars, outVars, Trailing
<1>12. CASE Environment
  <2>1. UNCHANGED <<task, iiq, infoq>>
    BY <1>12 DEF Environment, Lookup, LookupAnswered, LookupLost, Set, SetAdds, SetStops, SetSends, Ioc,
       IocGreets, IocAnswers, IocRepeats, IocEvent, ConnectionEnds, IocSends, outVars
  <2>2. QED
    BY <2>1 DEF Trailing
<1>13. QED
  BY <1>2, <1>3, <1>4, <1>5, <1>6, <1>7, <1>8, <1>9, <1>10, <1>11, <1>12
     DEF Next, ConnStep, OutStep, CmdStep, PeerStep

(* When the stream ends every event, time bin and connection status has    *)
(* been yielded and every lookup query has been sent.                      *)
THEOREM DataYieldedCorrect == Spec => []DataYieldedBeforeEnd
<1>1. Init => YieldedInv
  BY DEF Init, YieldedInv
<1>2. IInv /\ YieldedInv /\ [Next]_vars => YieldedInv'
  BY YieldedStep DEF IInv
<1>3. YieldedInv => DataYieldedBeforeEnd
  BY DEF YieldedInv, DataYieldedBeforeEnd, Trailing
<1>4. QED
  BY <1>1, <1>2, <1>3, IInvCorrect, PTL DEF Spec

-----------------------------------------------------------------------------
(* The stream that the CaConnSet relies on, apart from its fairness.       *)

\* The phase of the abstract stream, now and after a step.
LEMMA PhaseIs ==
  /\ Phase = IF task = "done" THEN "eos" ELSE IF state = "Shutdown" THEN "stop" ELSE "run"
  /\ Phase' = IF task' = "done" THEN "eos" ELSE IF state' = "Shutdown" THEN "stop" ELSE "run"
BY DEF Phase

(* Each command is taken once, in order, and only Shutdown or the loss of   *)
(* the connection stops a CaConn; it ends after it has been stopped, or at  *)
(* once with the connection.                                                *)
THEOREM StreamSafety == Spec => Stream!Spec
<1>1. Init => Stream!Init
  BY PhaseIs DEF Init, Stream!Init
<1>2. IInv /\ [Next]_vars => [Stream!Next]_(Stream!vars)
  <2> SUFFICES ASSUME IInv, [Next]_vars PROVE [Stream!Next]_(Stream!vars)
    OBVIOUS
  <2>1. QueueType
    BY DEF IInv, TypeOK
  <2>2. ASSUME UNCHANGED <<cmdq, task, state>> PROVE UNCHANGED Stream!vars
    BY <2>2, PhaseIs DEF Stream!vars
  <2>3. ASSUME UNCHANGED <<cmdq, state>>, task # "done", task' # "done" PROVE UNCHANGED Stream!vars
    BY <2>3, PhaseIs DEF Stream!vars
  <2>4. ASSUME UNCHANGED cmdq, task # "done", state' = "Shutdown" PROVE [Stream!Next]_(Stream!vars)
    <3>1. CASE state = "Shutdown"
      BY <2>4, <3>1, PhaseIs DEF Stream!vars, Stream!Next, Stream!End
    <3>2. CASE state # "Shutdown"
      BY <2>4, <3>2, PhaseIs DEF Stream!vars, Stream!Next, Stream!LoseConnection
    <3>3. QED
      BY <3>1, <3>2
  <2>5. CASE TickStep
    <3>1. CASE TickFails
      BY <3>1, <2>4 DEF TickFails, TriggerShutdown
    <3>2. CASE PollTicker \/ Tick
      BY <3>2, <2>3 DEF PollTicker, Tick
    <3>3. QED
      BY <2>5, <3>1, <3>2 DEF TickStep
  <2>6. CASE OutStep \/ NoCommand \/ ItemSent \/ Wake \/ TickerElapses \/ FutCompletes \/ UNCHANGED vars
    <3>1. CASE OutStep \/ NoCommand \/ ItemSent
      <4>1. UNCHANGED <<cmdq, state>> /\ task # "done" /\ task' # "done"
        BY <3>1 DEF OutStep, Yield, FlushQuery, Flushed, NoCommand, ItemSent
      <4>2. QED
        BY <2>3, <4>1
    <3>2. CASE Wake
      <4>1. UNCHANGED <<cmdq, state>> /\ task # "done" /\ task' # "done"
        BY <3>2 DEF Wake
      <4>2. QED
        BY <2>3, <4>1
    <3>3. CASE TickerElapses \/ FutCompletes \/ UNCHANGED vars
      <4>1. UNCHANGED <<cmdq, task, state>>
        BY <3>3 DEF TickerElapses, FutCompletes, vars
      <4>2. QED
        BY <2>2, <4>1
    <3>4. QED
      BY <2>6, <3>1, <3>2, <3>3
  <2>7. CASE CmdChannelAdd \/ CmdSeriesLookupResult
    <3>1. /\ task = "cmd" /\ task' # "done" /\ UNCHANGED state
          /\ cmdq # <<>> /\ cmdq' = Tail(cmdq) /\ Head(cmdq).cmd # "Shutdown"
      BY <2>7 DEF CmdChannelAdd, CmdSeriesLookupResult, TakeCommand, Unwrapped
    <3>2. Stream!Take
      BY <3>1, PhaseIs DEF Stream!Take, Stream!IsStop
    <3>3. QED
      BY <3>2 DEF Stream!Next
  <2>8. CASE CmdShutdown
    <3>1. /\ task = "cmd" /\ task' = "inner" /\ state' = "Shutdown"
          /\ cmdq # <<>> /\ cmdq' = Tail(cmdq) /\ Head(cmdq).cmd = "Shutdown"
      BY <2>8 DEF CmdShutdown, TakeCommand, TriggerShutdown
    <3>2. Stream!Take
      BY <3>1, PhaseIs DEF Stream!Take, Stream!IsStop
    <3>3. QED
      BY <3>2 DEF Stream!Next
  <2>9. CASE StateStep
    <3>1. CASE ShutdownRound
      BY <3>1, <2>4 DEF ShutdownRound, InInner
    <3>2. CASE ~ShutdownRound
      <4>1. /\ task = "inner" /\ task' # "done" /\ UNCHANGED cmdq
            /\ state # "Shutdown" /\ state' # "Shutdown"
        BY <2>9, <3>2 DEF StateStep, BeginConnect, FutPending, Connected, ConnectFailed, WaitOver,
           Greet, InInner, Unwrapped
      <4>2. QED
        BY <4>1, PhaseIs DEF Stream!vars
    <3>3. QED
      BY <3>1, <3>2
  <2>10. CASE ListenStep
    <3>1. /\ task = "inner" /\ task' # "done" /\ UNCHANGED cmdq
          /\ state # "Shutdown" /\ state' # "Shutdown"
      BY <2>10 DEF ListenStep, ListenPending, ListenVersion, ListenOther, ListenError, ListenEof,
         InInner, Unwrapped
    <3>2. QED
      BY <3>1, PhaseIs DEF Stream!vars
  <2>11. CASE PeerStep
    <3>1. CASE PollError \/ PollEof
      BY <3>1, <2>4 DEF PollError, PollEof, TriggerShutdown
    <3>2. CASE ~(PollError \/ PollEof)
      <4>1. UNCHANGED <<cmdq, state>> /\ task # "done" /\ task' # "done"
        BY <2>11, <3>2 DEF PeerStep, CreateChannels, PollPending, PollCreated, PollCreatedFails,
           PollEvent, PollEventDropped, PollOther, InInner, Unwrapped
      <4>2. QED
        BY <2>3, <4>1
    <3>3. QED
      BY <3>1, <3>2
  <2>12. CASE Environment
    <3>1. UNCHANGED <<task, state>>
      BY <2>12, EnvironmentOutside
    <3>2. CASE UNCHANGED cmdq
      BY <2>2, <3>1, <3>2
    <3>3. CASE \E m \in Command : cmdq' = Append(cmdq, m)
      <4>1. Stream!Arrive
        BY <3>1, <3>3, PhaseIs DEF Stream!Arrive
      <4>2. QED
        BY <4>1 DEF Stream!Next
    <3>4. CASE LookupAnswered
      <4>1. PICK i \in 1 .. Len(lookups) : cmdq' = Append(cmdq, Result(lookups[i]))
        BY <3>4 DEF LookupAnswered, Result
      <4>2. Result(lookups[i]) \in Command
        BY <2>1 DEF QueueType, Result, Command
      <4>3. QED
        BY <3>3, <4>1, <4>2
    <3>5. CASE SetAdds \/ SetStops
      BY <3>3, <3>5 DEF SetAdds, SetStops, SetSends, Command
    <3>6. QED
      BY <2>12, <3>2, <3>4, <3>5 DEF Environment, Lookup, LookupLost, Set, Ioc, IocGreets, IocAnswers,
         IocRepeats, IocEvent, ConnectionEnds, IocSends
  <2>13. QED
    BY <2>5, <2>6, <2>7, <2>8, <2>9, <2>10, <2>11, <2>12 DEF Next, ConnStep, CmdStep
<1>3. QED
  BY <1>1, <1>2, IInvCorrect, PTL DEF Spec, Stream!Spec
=============================================================================
