------------------------------- MODULE CaConn -------------------------------
(***************************************************************************)
(* One CaConn (netfetch/src/ca/conn.rs): the stream that owns the TCP      *)
(* connection to one IOC, polled by the task CaConnSet::ca_conn_item_merge *)
(* which forwards what it yields to the CaConnSet.  One iteration of the   *)
(* loop in poll_next is cut at the points where other threads' effects can *)
(* come in between:                                                        *)
(*    "tick" own ticker, "out" yield an item or flush the lookup queries,  *)
(*    "cmd" take one command, "inner" advance the connection state,        *)
(*    "poll" poll the protocol of an established connection.               *)
(* "send" is the merge task awaiting room for a yielded item, "sleep" the  *)
(* task with its wakers registered, "done" the end of the stream.          *)
(***************************************************************************)
EXTENDS Naturals, Sequences, FiniteSets

CONSTANTS Channels,   \* channel names; the Cid of a name is left out
          CmdCap,     \* the command queue, 32 in the code
          LookupCap,  \* channel_info_query_tx and what its workers hold
          NetCap,     \* messages of the IOC on the wire
          AddBound,   \* how often the set sends ChannelAdd for a channel
          RepeatBound \* how many CreateChanRes the IOC repeats

ASSUME ConnAssumption ==
  /\ IsFiniteSet(Channels)
  /\ {CmdCap, LookupCap, NetCap} \subseteq Nat \ {0}
  /\ AddBound \in [Channels -> Nat] /\ RepeatBound \in Nat

ChannelState == {"absent", "Init", "Creating", "FetchingSeriesId", "Created",
                 "Ended"}

CaConnState == {"Unconnected", "Connecting", "Init", "Listen", "PeerReady",
                "Wait", "Shutdown"}

Command == [cmd : {"ChannelAdd", "SeriesLookupResult"}, ch : Channels]
           \cup [cmd : {"Shutdown"}]

\* What CaProto yields: CaItem::Msg of some type, an error, or the end.
\* "unknownType" is a CreateChanRes with a data type from_ca_id rejects.
Message == [ty : {"VersionRes", "otherVersion", "unknownType", "other", "error",
                  "eof"}]
           \cup [ty : {"CreateChanRes", "EventAddRes"}, ch : Channels]

QueryItem == {"connection", "opened", "closed", "event", "bin"}

VARIABLES
  task,       \* where the task is, see above
  state,      \* self.state; EndOfStream is task = "done"
  proto,      \* self.proto is Some
  fut,        \* the connect future or the timer of Connecting and Wait
  chan,       \* self.channels, by name
  initCount,  \* self.init_state_count
  binned,     \* channels whose time binner holds events
  cmdq,       \* conn_command_rx
  cmdWaker,   \* the task is registered as waker at conn_command_rx
  selfWoken,  \* wake_by_ref was called during the current poll
  ticker,     \* "armed", "elapsed", or "spent": elapsed and polled
  iiq,        \* insert_item_queue
  infoq,      \* channel_info_query_queue and the query being sent
  lookups,    \* the series lookups under way
  inq,        \* what the IOC has sent and proto has not yet yielded
  greeted,    \* the IOC has sent its version on this connection
  asked,      \* the CreateChan requests the IOC has not yet answered
  adds,       \* per channel, how often the set has sent ChannelAdd
  stopSent,   \* the set has sent Shutdown
  repeats     \* how many CreateChanRes the IOC has repeated

netVars  == <<inq, greeted, asked, repeats>>
setVars  == <<adds, stopSent>>
wakeVars == <<cmdWaker, selfWoken, ticker>>
chanVars == <<chan, initCount, binned>>
outVars  == <<iiq, infoq, lookups>>
vars == <<task, state, proto, fut, chanVars, cmdq, wakeVars, outVars, netVars,
          setVars>>

Init ==
  /\ task = "tick" /\ state = "Unconnected" /\ proto = FALSE /\ fut = "none"
  /\ chan = [c \in Channels |-> "absent"]
  /\ initCount = 0
  /\ binned = {}
  /\ cmdq = <<>>
  /\ cmdWaker = FALSE /\ selfWoken = FALSE /\ ticker = "armed"
  /\ iiq = <<>> /\ infoq = <<>> /\ lookups = <<>>
  /\ inq = <<>> /\ greeted = FALSE /\ asked = {} /\ repeats = 0
  /\ adds = [c \in Channels |-> 0] /\ stopSent = FALSE

InState(s) == {c \in Channels : chan[c] = s}

-----------------------------------------------------------------------------
(* trigger_shutdown with channel_state_on_shutdown: the connection is      *)
(* dropped, every channel ends, and each Created one reports Closed.       *)

EndedChannels == [c \in Channels |-> IF chan[c] = "absent" THEN "absent"
                                     ELSE "Ended"]

ClosedItems == [i \in 1 .. Cardinality(InState("Created")) |-> "closed"]

TriggerShutdown ==
  /\ state' = "Shutdown" /\ proto' = FALSE /\ fut' = "none"
  /\ chan' = EndedChannels
  /\ iiq' = iiq \o ClosedItems
  /\ inq' = <<>> /\ asked' = {}

\* The end of an iteration in Shutdown: with the lookup queries flushed the
\* stream ends, otherwise the loop goes round without returning Pending.
AfterShutdown == IF infoq = <<>> THEN "done" ELSE "tick"

\* Unwrapping self.proto panics when it is None.
Unwrapped(next) == IF proto THEN next ELSE "panicked"

-----------------------------------------------------------------------------
(* handle_own_ticker: the ticker is armed anew unless in Shutdown, where   *)
(* it is left spent: every iteration ticks the time binners again, but no  *)
(* wake-up comes of it.                                                    *)

TickerDue == ticker \in {"elapsed", "spent"}

\* Mutant: the ticker is not armed anew.
RearmedTickerSpent == "spent"

RearmedTicker == IF state = "Shutdown" THEN "spent" ELSE "armed"

PollTicker ==
  /\ task = "tick" /\ ~TickerDue
  /\ task' = "out"
  /\ UNCHANGED <<state, proto, fut, chanVars, cmdq, wakeVars, outVars, netVars,
                 setVars>>

\* Every time binner takes in its events; some yield a patch of bins.
Tick ==
  /\ task = "tick" /\ TickerDue
  /\ \/ iiq' = iiq
     \/ binned # {} /\ iiq' = Append(iiq, "bin")
  /\ binned' = {}
  /\ ticker' = RearmedTicker
  /\ task' = "out"
  /\ UNCHANGED <<state, proto, fut, chan, initCount, cmdq, cmdWaker, selfWoken,
                 infoq, lookups, netVars, setVars>>

\* A time binner fails after some others have had their turn; it has dropped
\* its events before.  The error is yielded, and the merge task polls on.
TickFails ==
  /\ task = "tick" /\ TickerDue
  /\ \E served \in SUBSET binned \ {{}} :
       /\ binned' = binned \ served
       /\ TriggerShutdown
  /\ ticker' = "spent"
  /\ UNCHANGED <<task, initCount, cmdq, cmdWaker, selfWoken, infoq, lookups,
                 greeted, repeats, setVars>>

-----------------------------------------------------------------------------
(* An item of insert_item_queue leaves poll_next before anything else is   *)
(* done; then attempt_flush_channel_info_query.                            *)

\* Mutant: a waiting command goes first.
MustYieldIdle == iiq # <<>> /\ cmdq = <<>>

MustYield == iiq # <<>>

Yield ==
  /\ task = "out" /\ MustYield
  /\ iiq' = Tail(iiq)
  /\ task' = "send"
  /\ UNCHANGED <<state, proto, fut, chanVars, cmdq, wakeVars, infoq, lookups,
                 netVars, setVars>>

\* The merge task has passed the item on to the set and polls again; a wake-up
\* of the last poll is spent if the merge task had to wait.
ItemSent ==
  /\ task = "send"
  /\ task' = "tick"
  /\ selfWoken' \in {selfWoken, FALSE}
  /\ UNCHANGED <<state, proto, fut, chanVars, cmdq, cmdWaker, ticker, outVars,
                 netVars, setVars>>

\* One turn of the flush loop: the query goes to the lookup workers.
FlushQuery ==
  /\ task = "out" /\ ~MustYield
  /\ infoq # <<>> /\ Len(lookups) < LookupCap
  /\ lookups' = Append(lookups, Head(infoq))
  /\ infoq' = Tail(infoq)
  /\ UNCHANGED <<task, state, proto, fut, chanVars, cmdq, wakeVars, iiq,
                 netVars, setVars>>

Flushed ==
  /\ task = "out" /\ ~MustYield
  /\ infoq = <<>> \/ Len(lookups) = LookupCap
  /\ task' = "cmd"
  /\ UNCHANGED <<state, proto, fut, chanVars, cmdq, wakeVars, outVars, netVars,
                 setVars>>

-----------------------------------------------------------------------------
(* handle_conn_command takes at most one command per iteration; the task   *)
(* registers as waker only when it finds none.                             *)

NoCommand ==
  /\ task = "cmd" /\ cmdq = <<>>
  /\ cmdWaker' = TRUE
  /\ task' = "inner"
  /\ UNCHANGED <<state, proto, fut, chanVars, cmdq, selfWoken, ticker, outVars,
                 netVars, setVars>>

TakeCommand(kind) ==
  /\ task = "cmd" /\ cmdq # <<>> /\ Head(cmdq).cmd = kind
  /\ cmdq' = Tail(cmdq)
  /\ cmdWaker' = FALSE

\* Mutant: a channel is only counted if it can be created at once.
InitCountWithReady(c) ==
  IF chan[c] = "absent" /\ state = "PeerReady" THEN initCount + 1 ELSE initCount

\* Mutant: a channel already known is counted again.
InitCountWithRepeated(c) == initCount + 1

InitCountWith(c) == IF chan[c] = "absent" THEN initCount + 1 ELSE initCount

CmdChannelAdd ==
  /\ TakeCommand("ChannelAdd")
  /\ LET c == Head(cmdq).ch IN
       /\ chan' = IF chan[c] = "absent" THEN [chan EXCEPT ![c] = "Init"] ELSE chan
       /\ initCount' = InitCountWith(c)
  /\ task' = "inner"
  /\ UNCHANGED <<state, proto, fut, binned, selfWoken, ticker, outVars, netVars,
                 setVars>>

\* handle_series_lookup_result: Opened is reported whatever the channel's state;
\* channel_to_evented subscribes to the channel's events.
CmdSeriesLookupResult ==
  /\ TakeCommand("SeriesLookupResult")
  /\ iiq' = Append(iiq, "opened")
  /\ LET c == Head(cmdq).ch IN
       IF chan[c] = "FetchingSeriesId"
       THEN /\ chan' = [chan EXCEPT ![c] = "Created"]
            /\ task' = Unwrapped("inner")
       ELSE /\ chan' = chan
            /\ task' = "inner"
  /\ UNCHANGED <<state, proto, fut, initCount, binned, selfWoken, ticker, infoq,
                 lookups, netVars, setVars>>

CmdShutdown ==
  /\ TakeCommand("Shutdown")
  /\ TriggerShutdown
  /\ task' = "inner"
  /\ UNCHANGED <<initCount, binned, selfWoken, ticker, infoq, lookups, greeted,
                 repeats, setVars>>

-----------------------------------------------------------------------------
(* loop_inner and handle_conn_state.  The limit insert_queue_max is left   *)
(* out: `iiq' is empty when the commands are served and holds at most one  *)
(* item here.                                                              *)

InInner(s) == task = "inner" /\ state = s

ShutdownRound ==
  /\ InInner("Shutdown")
  /\ task' = AfterShutdown
  /\ UNCHANGED <<state, proto, fut, chanVars, cmdq, wakeVars, outVars, netVars,
                 setVars>>

BeginConnect ==
  /\ InInner("Unconnected")
  /\ state' = "Connecting" /\ fut' = "pending"
  /\ task' = "tick"
  /\ UNCHANGED <<proto, chanVars, cmdq, wakeVars, outVars, netVars, setVars>>

FutPending ==
  /\ task = "inner" /\ state \in {"Connecting", "Wait"} /\ fut = "pending"
  /\ task' = "sleep"
  /\ UNCHANGED <<state, proto, fut, chanVars, cmdq, wakeVars, outVars, netVars,
                 setVars>>

Connected ==
  /\ InInner("Connecting") /\ fut = "ok"
  /\ iiq' = Append(iiq, "connection")
  /\ state' = "Init" /\ proto' = TRUE /\ fut' = "none"
  /\ greeted' = FALSE
  /\ task' = "tick"
  /\ UNCHANGED <<chanVars, cmdq, wakeVars, infoq, lookups, inq, asked, repeats,
                 setVars>>

\* Refused, or not connected within a second.
ConnectFailed ==
  /\ InInner("Connecting") /\ fut = "failed"
  /\ iiq' = Append(iiq, "connection")
  /\ state' = "Wait" /\ proto' = FALSE /\ fut' = "pending"
  /\ task' = "tick"
  /\ UNCHANGED <<chanVars, cmdq, wakeVars, infoq, lookups, netVars, setVars>>

WaitOver ==
  /\ InInner("Wait") /\ fut = "ok"
  /\ state' = "Unconnected" /\ proto' = FALSE /\ fut' = "none"
  /\ task' = "tick"
  /\ UNCHANGED <<chanVars, cmdq, wakeVars, outVars, netVars, setVars>>

\* The client's version, name and host name are queued for sending.
Greet ==
  /\ InInner("Init")
  /\ state' = "Listen"
  /\ task' = Unwrapped("tick")
  /\ UNCHANGED <<proto, fut, chanVars, cmdq, wakeVars, outVars, netVars, setVars>>

-----------------------------------------------------------------------------
(* handle_conn_listen.  There is no timeout: the task stays in Listen      *)
(* until the IOC has sent a version it likes or the connection ends.       *)

NextMessage(ty) ==
  /\ inq # <<>> /\ Head(inq).ty = ty
  /\ inq' = Tail(inq)

ListenPending ==
  /\ InInner("Listen") /\ inq = <<>>
  /\ task' = Unwrapped("sleep")
  /\ UNCHANGED <<state, proto, fut, chanVars, cmdq, wakeVars, outVars, netVars,
                 setVars>>

ListenVersion ==
  /\ InInner("Listen") /\ NextMessage("VersionRes")
  /\ state' = "PeerReady"
  /\ task' = Unwrapped("inner")
  /\ UNCHANGED <<proto, fut, chanVars, cmdq, wakeVars, outVars, greeted, asked,
                 repeats, setVars>>

ListenOther ==
  /\ InInner("Listen")
  /\ \E ty \in {"otherVersion", "other"} : NextMessage(ty)
  /\ task' = Unwrapped("inner")
  /\ UNCHANGED <<state, proto, fut, chanVars, cmdq, wakeVars, outVars, greeted,
                 asked, repeats, setVars>>

\* The error is yielded, the state is left alone.
ListenError ==
  /\ InInner("Listen") /\ NextMessage("error")
  /\ task' = Unwrapped("tick")
  /\ UNCHANGED <<state, proto, fut, chanVars, cmdq, wakeVars, outVars, greeted,
                 asked, repeats, setVars>>

ListenEof ==
  /\ InInner("Listen") /\ NextMessage("eof")
  /\ state' = "Wait" /\ proto' = FALSE /\ fut' = "pending"
  /\ task' = Unwrapped("tick")
  /\ UNCHANGED <<chanVars, cmdq, wakeVars, outVars, greeted, asked, repeats,
                 setVars>>

-----------------------------------------------------------------------------
(* handle_peer_ready: check_channels_state_init, then one item of proto.   *)

InitCountAfter(created) == initCount - Cardinality(created)

\* With a count of zero the channels are not even looked at.
CreateChannels ==
  /\ InInner("PeerReady")
  /\ LET created == IF initCount = 0 THEN {} ELSE InState("Init") IN
       /\ chan' = [c \in Channels |-> IF c \in created THEN "Creating"
                                      ELSE chan[c]]
       /\ initCount' = InitCountAfter(created)
       /\ asked' = asked \cup created
       /\ selfWoken' = (selfWoken \/ created # {})
  /\ task' = Unwrapped("poll")
  /\ UNCHANGED <<state, proto, fut, binned, cmdq, cmdWaker, ticker, outVars, inq,
                 greeted, repeats, setVars>>

PollPending ==
  /\ task = "poll" /\ inq = <<>>
  /\ task' = "sleep"
  /\ UNCHANGED <<state, proto, fut, chanVars, cmdq, wakeVars, outVars, netVars,
                 setVars>>

\* Mutant: any channel that has not ended fetches its series.
AwaitsCreationLoose(c) == chan[c] \in {"Creating", "FetchingSeriesId"}

AwaitsCreation(c) == chan[c] = "Creating"

\* CreateChanRes: the series lookup of the channel is queued.
PollCreated ==
  /\ task = "poll" /\ NextMessage("CreateChanRes")
  /\ LET c == Head(inq).ch IN
       /\ AwaitsCreation(c)
       /\ chan' = [chan EXCEPT ![c] = "FetchingSeriesId"]
       /\ infoq' = Append(infoq, c)
  /\ selfWoken' = TRUE
  /\ task' = "tick"
  /\ UNCHANGED <<state, proto, fut, initCount, binned, cmdq, cmdWaker, ticker,
                 iiq, lookups, greeted, asked, repeats, setVars>>

\* An unknown type or an answer nobody waits for: the error is yielded, the
\* channel and the connection stay what they are.
PollCreatedFails ==
  /\ task = "poll"
  /\ \/ NextMessage("unknownType")
     \/ NextMessage("CreateChanRes") /\ ~AwaitsCreation(Head(inq).ch)
  /\ task' = "tick"
  /\ UNCHANGED <<state, proto, fut, chanVars, cmdq, wakeVars, outVars, greeted,
                 asked, repeats, setVars>>

\* handle_event_add_res with an event to insert.
PollEvent ==
  /\ task = "poll" /\ NextMessage("EventAddRes")
  /\ chan[Head(inq).ch] = "Created"
  /\ iiq' = Append(iiq, "event")
  /\ binned' = binned \cup {Head(inq).ch}
  /\ task' = "tick"
  /\ UNCHANGED <<state, proto, fut, chan, initCount, cmdq, wakeVars, infoq,
                 lookups, greeted, asked, repeats, setVars>>

\* The event comes too soon after the last one, or its value is not of the
\* time binner's type and an error is yielded.
PollEventDropped ==
  /\ task = "poll" /\ NextMessage("EventAddRes")
  /\ task' = "tick"
  /\ UNCHANGED <<state, proto, fut, chanVars, cmdq, wakeVars, outVars, greeted,
                 asked, repeats, setVars>>

\* Echo, Error, AccessRightsRes, CreateChanFail and the unexpected ones.
PollOther ==
  /\ task = "poll"
  /\ \E ty \in {"VersionRes", "otherVersion", "other"} : NextMessage(ty)
  /\ task' = "tick"
  /\ UNCHANGED <<state, proto, fut, chanVars, cmdq, wakeVars, outVars, greeted,
                 asked, repeats, setVars>>

PollError ==
  /\ task = "poll" /\ inq # <<>> /\ Head(inq).ty = "error"
  /\ TriggerShutdown
  /\ task' = "tick"
  /\ UNCHANGED <<initCount, binned, cmdq, wakeVars, infoq, lookups, greeted,
                 repeats, setVars>>

\* Mutant: the connection is made anew, as handle_conn_listen does.
PollEofReconnects ==
  /\ task = "poll" /\ NextMessage("eof")
  /\ state' = "Wait" /\ proto' = FALSE /\ fut' = "pending"
  /\ task' = "tick"
  /\ UNCHANGED <<chanVars, cmdq, wakeVars, outVars, greeted, asked, repeats,
                 setVars>>

PollEof ==
  /\ task = "poll" /\ inq # <<>> /\ Head(inq).ty = "eof"
  /\ TriggerShutdown
  /\ task' = AfterShutdown
  /\ UNCHANGED <<initCount, binned, cmdq, wakeVars, infoq, lookups, greeted,
                 repeats, setVars>>

-----------------------------------------------------------------------------
(* What wakes the sleeping task.                                           *)

Woken ==
  \/ selfWoken
  \/ cmdWaker /\ cmdq # <<>>
  \/ ticker = "elapsed"
  \/ state \in {"Connecting", "Wait"} /\ fut # "pending"
  \/ state \in {"Listen", "PeerReady"} /\ inq # <<>>
  \/ infoq # <<>> /\ Len(lookups) < LookupCap

Wake ==
  /\ task = "sleep" /\ Woken
  /\ task' = "tick"
  /\ selfWoken' = FALSE
  /\ UNCHANGED <<state, proto, fut, chanVars, cmdq, cmdWaker, ticker, outVars,
                 netVars, setVars>>

TickerElapses ==
  /\ task \notin {"done", "panicked"}
  /\ ticker = "armed"
  /\ ticker' = "elapsed"
  /\ UNCHANGED <<task, state, proto, fut, chanVars, cmdq, cmdWaker, selfWoken,
                 outVars, netVars, setVars>>

\* The timer of Wait is over, the connect has an outcome.
FutCompletes ==
  /\ fut = "pending"
  /\ \/ fut' = "ok"
     \/ state = "Connecting" /\ fut' = "failed"
  /\ UNCHANGED <<task, state, proto, chanVars, cmdq, wakeVars, outVars, netVars,
                 setVars>>

-----------------------------------------------------------------------------
(* The series lookup workers (dbpg/src/seriesbychannel.rs): answers come   *)
(* as commands, in any order, and may be missing for good.                 *)

Without(seq, i) == SubSeq(seq, 1, i - 1) \o SubSeq(seq, i + 1, Len(seq))

LookupAnswered ==
  /\ Len(cmdq) < CmdCap
  /\ \E i \in 1 .. Len(lookups) :
       /\ cmdq' = Append(cmdq, [cmd |-> "SeriesLookupResult", ch |-> lookups[i]])
       /\ lookups' = Without(lookups, i)
  /\ UNCHANGED <<task, state, proto, fut, chanVars, wakeVars, iiq, infoq,
                 netVars, setVars>>

LookupLost ==
  /\ \E i \in 1 .. Len(lookups) : lookups' = Without(lookups, i)
  /\ UNCHANGED <<task, state, proto, fut, chanVars, cmdq, wakeVars, iiq, infoq,
                 netVars, setVars>>

(* The CaConnSet: it sends nothing after Shutdown.                         *)

SetSends(command) ==
  /\ ~stopSent /\ Len(cmdq) < CmdCap
  /\ cmdq' = Append(cmdq, command)
  /\ UNCHANGED <<task, state, proto, fut, chanVars, wakeVars, outVars, netVars>>

SetAdds ==
  \E c \in Channels :
    /\ adds[c] < AddBound[c]
    /\ SetSends([cmd |-> "ChannelAdd", ch |-> c])
    /\ adds' = [adds EXCEPT ![c] = adds[c] + 1]
    /\ UNCHANGED stopSent

SetStops ==
  /\ SetSends([cmd |-> "Shutdown"])
  /\ stopSent' = TRUE
  /\ UNCHANGED adds

(* The IOC, which answers what it was asked, once or now and then twice,   *)
(* and the network, which can end or garble the connection at any time.    *)

IocSends(message) ==
  /\ proto
  /\ Len(inq) < NetCap
  /\ \A i \in 1 .. Len(inq) : inq[i].ty # "eof"
  /\ inq' = Append(inq, message)
  /\ UNCHANGED <<task, state, proto, fut, chanVars, cmdq, wakeVars, outVars,
                 setVars>>

IocGreets ==
  /\ ~greeted
  /\ greeted' = TRUE
  /\ \E ty \in {"VersionRes", "otherVersion"} : IocSends([ty |-> ty])
  /\ UNCHANGED <<asked, repeats>>

IocAnswers ==
  \E c \in asked :
    /\ \/ IocSends([ty |-> "CreateChanRes", ch |-> c])
       \/ \E ty \in {"unknownType", "other"} : IocSends([ty |-> ty])
    /\ asked' = asked \ {c}
    /\ UNCHANGED <<greeted, repeats>>

IocRepeats ==
  /\ repeats < RepeatBound
  /\ repeats' = repeats + 1
  /\ \E c \in InState("FetchingSeriesId") \cup InState("Created") :
       IocSends([ty |-> "CreateChanRes", ch |-> c])
  /\ UNCHANGED <<greeted, asked>>

IocEvent ==
  /\ \E c \in InState("Created") : IocSends([ty |-> "EventAddRes", ch |-> c])
  /\ UNCHANGED <<greeted, asked, repeats>>

ConnectionEnds ==
  /\ \E ty \in {"error", "eof"} : IocSends([ty |-> ty])
  /\ UNCHANGED <<greeted, asked, repeats>>

-----------------------------------------------------------------------------
TickStep == PollTicker \/ Tick \/ TickFails
OutStep == Yield \/ FlushQuery \/ Flushed
CmdStep == NoCommand \/ CmdChannelAdd \/ CmdSeriesLookupResult \/ CmdShutdown
StateStep == \/ ShutdownRound \/ BeginConnect \/ FutPending \/ Connected
             \/ ConnectFailed \/ WaitOver \/ Greet
ListenStep == \/ ListenPending \/ ListenVersion \/ ListenOther \/ ListenError
              \/ ListenEof
PeerStep == \/ CreateChannels \/ PollPending \/ PollCreated \/ PollCreatedFails
            \/ PollEvent \/ PollEventDropped \/ PollOther \/ PollError \/ PollEof

ConnStep == TickStep \/ OutStep \/ CmdStep \/ StateStep \/ ListenStep \/ PeerStep

Lookup == LookupAnswered \/ LookupLost
Set == SetAdds \/ SetStops
Ioc == IocGreets \/ IocAnswers \/ IocRepeats \/ IocEvent \/ ConnectionEnds

\* The environment goes on until the stream has ended and CaConn is dropped.
Environment == /\ task # "done"
               /\ Lookup \/ Set \/ Ioc

Next == ConnStep \/ ItemSent \/ Wake \/ TickerElapses \/ FutCompletes
        \/ Environment

Spec == Init /\ [][Next]_vars

(* The runtime polls a woken task and lets timers elapse, a connect ends   *)
(* within a second, the set takes what the merge task sends, and a lookup  *)
(* is answered or dropped.  Nothing is assumed of the IOC or of the set's  *)
(* commands.                                                               *)
Fairness ==
  /\ WF_vars(ConnStep)
  /\ WF_vars(ItemSent)
  /\ WF_vars(Wake)
  /\ WF_vars(TickerElapses)
  /\ WF_vars(FutCompletes)
  /\ WF_vars(task # "done" /\ Lookup)

FairSpec == Spec /\ Fairness

-----------------------------------------------------------------------------
ControlType ==
  /\ task \in {"tick", "out", "send", "cmd", "inner", "poll", "sleep", "done",
               "panicked"}
  /\ state \in CaConnState
  /\ proto \in BOOLEAN
  /\ fut \in {"none", "pending", "ok", "failed"}
  /\ cmdWaker \in BOOLEAN /\ selfWoken \in BOOLEAN
  /\ ticker \in {"armed", "elapsed", "spent"}
  /\ greeted \in BOOLEAN /\ stopSent \in BOOLEAN

QueueType ==
  /\ cmdq \in Seq(Command)
  /\ inq \in Seq(Message)
  /\ iiq \in Seq(QueryItem)
  /\ infoq \in Seq(Channels)
  /\ lookups \in Seq(Channels)

ChannelType ==
  /\ chan \in [Channels -> ChannelState]
  /\ binned \in SUBSET Channels
  /\ asked \in SUBSET Channels
  /\ adds \in [Channels -> Nat]
  /\ repeats \in Nat
  /\ initCount \in Nat

(* The type of every variable; that init_state_count is a natural number   *)
(* means that its decrement never underflows the u64.                      *)
TypeOK == ControlType /\ QueueType /\ ChannelType

(* self.proto is unwrapped in five places (983, 1281, 1379, 1386, 1593),   *)
(* one of them the handler of a command that may come in any state of the  *)
(* connection: none of them ever finds None.                               *)
NeverUnwrapsNone == task # "panicked"

(* init_state_count, which lets handle_peer_ready skip the channels, is    *)
(* the number of channels in Init for as long as the connection may still  *)
(* get to PeerReady: no channel is overlooked.                             *)
InitCountExact ==
  state # "Shutdown" => initCount = Cardinality(InState("Init"))

Occurrences(seq, Test(_)) == Cardinality({i \in 1 .. Len(seq) : Test(seq[i])})

\* The lookups of channel c anywhere between its CreateChanRes and the handling
\* of the result.
OpenLookups(c) ==
  LET IsC(x) == x = c
      IsResult(m) == m.cmd = "SeriesLookupResult" /\ m.ch = c
  IN Occurrences(infoq, IsC) + Occurrences(lookups, IsC)
     + Occurrences(cmdq, IsResult)

(* A channel has at most one series lookup under way, and only while it is *)
(* fetching its series or after it has been ended, however often the IOC   *)
(* repeats its answers: a result never meets a channel that has not asked. *)
LookupAnswersItsChannel ==
  \A c \in Channels :
    /\ OpenLookups(c) <= 1
    /\ OpenLookups(c) = 1 => chan[c] \in {"FetchingSeriesId", "Ended"}

(* The stream does not end with an event, a time bin or a connection       *)
(* status unyielded, nor with a lookup query unsent.  (Closed and Opened   *)
(* items may be left behind: the round that ends the connection also ends  *)
(* the stream.)                                                            *)
DataYieldedBeforeEnd ==
  task = "done" =>
    /\ infoq = <<>>
    /\ \A i \in 1 .. Len(iiq) : iiq[i] \in {"closed", "opened"}

(* The connection is never given up for a new one once the channels have   *)
(* been announced on it: the IOC's view of them would be lost.             *)
NeverReconnectsWithChannels ==
  [][state = "PeerReady" => state' \in {"PeerReady", "Shutdown"}]_vars

Phase == CASE task = "done" -> "eos"
           [] task # "done" /\ state = "Shutdown" -> "stop"
           [] OTHER -> "run"

Stream == INSTANCE ConnStream WITH phase <- Phase, queue <- cmdq,
                                   Commands <- Command

(* The CaConn is the stream the CaConnSet relies on.  It takes each        *)
(* command although a poll that has taken one and left another in the      *)
(* queue sleeps without a waker for it: the 500 ms ticker makes up for     *)
(* that.  Once stopped it ends, although the round in Shutdown goes on     *)
(* without returning Pending while the lookup queue is full, and does not  *)
(* arm the ticker anew.                                                    *)
ImplementsStream == Stream!FairSpec

(* A channel in Init does not stay there on an established connection.     *)
ChannelsAnnounced ==
  \A c \in Channels :
    (state = "PeerReady" /\ chan[c] = "Init") ~> (chan[c] # "Init")

=============================================================================
