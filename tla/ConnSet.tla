------------------------------ MODULE ConnSet ------------------------------
(***************************************************************************)
(* The CaConnSet task (netfetch/src/ca/connset.rs): one task that owns the *)
(* state of every channel and the map of CaConn tasks, and handles one     *)
(* event at a time from a bounded FIFO queue.  The daemon, the series      *)
(* lookup workers, the address finder, the CaConn tasks and the set itself *)
(* all send into that queue; the set sends to all of them.  An await on a  *)
(* send is the only place where a handler can be suspended: a handler is   *)
(* one action that leaves the sends it awaits in `out', and no further     *)
(* event is taken before `out' is empty.                                   *)
(***************************************************************************)
EXTENDS Naturals, Sequences, FiniteSets, Functions

CONSTANTS Channels,   \* channel names
          Addrs,      \* addresses of IOCs
          NoAddr,     \* Option::None in place of an address
          QueueCap,   \* connset_tx, 10000 in the code
          LookupCap,  \* channel_info_query_tx and what its workers hold
          SearchCap,  \* search_tx, 1024 in the code
          CmdCap,     \* the command queue of a CaConn, 32 in the code
          OutCap,     \* connset_out_tx, 256 in the code, and the adapter's one report
          Lossy,      \* whether lookups and searches may get lost
          InputBound  \* how many inputs of each kind may be made

Inputs == {"add", "remove", "health", "shutdown", "item"}

ASSUME SetAssumption ==
  /\ NoAddr \notin Addrs /\ IsFiniteSet(Channels)
  /\ {QueueCap, LookupCap, SearchCap, CmdCap, OutCap} \subseteq Nat \ {0}
  /\ InputBound \in [Inputs -> Nat]
  /\ Lossy \in BOOLEAN

AddrOrNone == Addrs \cup {NoAddr}

ChannelSt == {"absent", "waitStatusId", "searchPending", "unknownAddress",
              "withAddress", "toRemove"}

\* ActiveChannelState::WithStatusSeriesId, whatever its inner state.
WithStatusSeriesId == {"searchPending", "unknownAddress", "withAddress"}

ChannelState == [st : ChannelSt, addr : AddrOrNone]

SearchResult == UNION {[batch -> AddrOrNone] : batch \in SUBSET Channels}

Event == [kind : {"ChannelAdd", "ChannelRemove", "SeriesLookupResult",
                  "ChannelAddWithStatusId"}, ch : Channels]
         \cup [kind : {"ChannelAddWithAddr"}, ch : Channels, addr : Addrs]
         \cup [kind : {"IocAddrQueryResult"}, res : SearchResult]
         \cup [kind : {"CheckHealth", "Shutdown"}]
         \cup [kind : {"QueryItem", "EndOfStream"}, addr : Addrs]

\* What the daemon sends.
CtrlEvent == [kind : {"ChannelAdd", "ChannelRemove"}, ch : Channels]
             \cup [kind : {"CheckHealth", "Shutdown"}]

Command == [cmd : {"ChannelAdd"}, ch : Channels] \cup [cmd : {"Shutdown"}]

\* What a handler still has to await.
Pending == [op : {"self"}, ev : Event]
           \cup [op : {"lookup", "search"}, ch : Channels]
           \cup [op : {"cmd"}, addr : Addrs, cmd : Command]
           \cup [op : {"join"}, addr : Addrs]
           \cup [op : {"healthy"}]

(* "run" serves commands, "stop" has got Shutdown, "eos" has ended its     *)
(* stream but not yet told the set, "signaled" has told it, "ended" has    *)
(* dropped the CaConn and with it the receiver of the commands.            *)
Phase == {"none", "run", "stop", "eos", "signaled", "ended"}

VARIABLES
  evq,        \* the event queue connset_tx / connset_rx
  setpc,      \* "run" until CaConnSet::run returns: "done" (Ok) or "failed" (Err)
  stopping,   \* shutdown_stopping
  chst,       \* channel_states
  ress,       \* the keys of ca_conn_ress
  out,        \* the sends and joins the current handler still awaits
  phase,      \* per address, the life of the CaConn task
  cmdq,       \* per address, the CaConn's command queue
  hold,       \* per address, the CaConn task awaits the send of a query item
  lookups,    \* per channel, the status series lookups in the pipeline
  searchq,    \* search_tx
  finding,    \* batches of names the finder's workers query for
  outq,       \* the reports in connset_out_tx and with the adapter
  sent,       \* history: per channel, the addresses it was added at
  sending,    \* the event that a handler of the daemon awaits to send, if any
  gone,       \* the daemon has left its loop
  crowded,    \* the daemon's own queue is full
  budget      \* how many inputs of each kind may still be made

setVars  == <<setpc, stopping, chst, ress>>
connVars == <<phase, cmdq, hold>>
pipeVars == <<lookups, searchq, finding>>
ctrlVars == <<sending, gone, crowded, budget>>
vars == <<evq, setVars, out, connVars, pipeVars, outq, sent, ctrlVars>>

Init ==
  /\ evq = <<>>
  /\ setpc = "run"
  /\ stopping = FALSE
  /\ chst = [c \in Channels |-> [st |-> "absent", addr |-> NoAddr]]
  /\ ress = {}
  /\ out = {}
  /\ phase = [a \in Addrs |-> "none"]
  /\ cmdq = [a \in Addrs |-> <<>>]
  /\ hold = [a \in Addrs |-> FALSE]
  /\ lookups = [c \in Channels |-> 0]
  /\ searchq = {}
  /\ finding = {}
  /\ outq = 0
  /\ sent = [c \in Channels |-> <<>>]
  /\ sending = {} /\ gone = FALSE /\ crowded = FALSE
  /\ budget = InputBound

Room == Len(evq) < QueueCap

Eos(a) == [kind |-> "EndOfStream", addr |-> a]

-----------------------------------------------------------------------------
(* The handlers of CaConnSet::handle_event.  The handlers of ChannelAdd... *)
(* also return early when shutdown_stopping is set; that branch is dead,   *)
(* since the loop of `run' ends right after the Shutdown event.            *)

\* `run' takes the next event, of kind k.
Take(k) ==
  /\ setpc = "run" /\ ~stopping /\ out = {}
  /\ evq # <<>> /\ Head(evq).kind = k
  /\ evq' = Tail(evq)

\* The channel's state with the address it may have kept.
ChannelStTo(c, s) == [chst EXCEPT ![c] = [st |-> s, addr |-> chst[c].addr]]

HandleAddChannel ==
  /\ Take("ChannelAdd")
  /\ LET c == Head(evq).ch IN
       /\ chst' = IF chst[c].st = "absent"
                  THEN ChannelStTo(c, "waitStatusId")
                  ELSE chst
       /\ out' = {[op |-> "lookup", ch |-> c]}
  /\ UNCHANGED <<setpc, stopping, ress, connVars, pipeVars, outq, sent, ctrlVars>>

HandleSeriesLookupResult ==
  /\ Take("SeriesLookupResult")
  /\ out' = {[op |-> "self",
              ev |-> [kind |-> "ChannelAddWithStatusId", ch |-> Head(evq).ch]]}
  /\ UNCHANGED <<setVars, connVars, pipeVars, outq, sent, ctrlVars>>

\* Mutant: any active channel is searched.
MayStartSearchActive(c) == chst[c].st \notin {"absent", "toRemove"}

MayStartSearch(c) == chst[c].st = "waitStatusId"

HandleAddChannelWithStatusId ==
  /\ Take("ChannelAddWithStatusId")
  /\ LET c == Head(evq).ch IN
       IF MayStartSearch(c)
       THEN /\ chst' = ChannelStTo(c, "searchPending")
            /\ out' = {[op |-> "search", ch |-> c]}
       ELSE UNCHANGED <<chst, out>>
  /\ UNCHANGED <<setpc, stopping, ress, connVars, pipeVars, outq, sent, ctrlVars>>

(* create_ca_conn spawns the CaConn task when the map has none for the     *)
(* address; the channel goes to the CaConn whether or not it is still      *)
(* wanted.                                                                 *)
HandleAddChannelWithAddr ==
  /\ Take("ChannelAddWithAddr")
  /\ LET c == Head(evq).ch
         a == Head(evq).addr
         fresh == a \notin ress
     IN /\ ress'  = ress \cup {a}
        /\ phase' = IF fresh THEN [phase EXCEPT ![a] = "run"] ELSE phase
        /\ cmdq'  = IF fresh THEN [cmdq EXCEPT ![a] = <<>>] ELSE cmdq
        /\ out' = {[op |-> "cmd", addr |-> a,
                    cmd |-> [cmd |-> "ChannelAdd", ch |-> c]]}
  /\ UNCHANGED <<setpc, stopping, chst, hold, pipeVars, outq, sent, ctrlVars>>

HandleRemoveChannel ==
  /\ Take("ChannelRemove")
  /\ LET c == Head(evq).ch IN
       chst' = IF chst[c].st = "absent" THEN chst
               ELSE ChannelStTo(c, "toRemove")
  /\ UNCHANGED <<setpc, stopping, ress, out, connVars, pipeVars, outq, sent, ctrlVars>>

\* Mutant: the answer is used for channels that were removed meanwhile, too.
AwaitsAddressAlways(c) == chst[c].st # "absent"

AwaitsAddress(c) == chst[c].st \in WithStatusSeriesId

Found(res) == {c \in DOMAIN res : AwaitsAddress(c) /\ res[c] # NoAddr}

(* One ChannelAddWithAddr to the own queue per address found, in the order *)
(* of the database rows, which is any order.                               *)
HandleIocQueryResult ==
  /\ Take("IocAddrQueryResult")
  /\ LET res == Head(evq).res
         used == {c \in DOMAIN res : AwaitsAddress(c)}
     IN /\ chst' = [c \in Channels |->
                     IF c \notin used THEN chst[c]
                     ELSE IF res[c] = NoAddr
                          THEN [st |-> "unknownAddress", addr |-> NoAddr]
                          ELSE [st |-> "withAddress", addr |-> res[c]]]
        /\ out' = {[op |-> "self", ev |-> [kind |-> "ChannelAddWithAddr",
                                           ch |-> c, addr |-> res[c]]] :
                     c \in Found(res)}
  /\ UNCHANGED <<setpc, stopping, ress, connVars, pipeVars, outq, sent, ctrlVars>>

HandleCheckHealth ==
  /\ Take("CheckHealth")
  /\ out' = {[op |-> "healthy"]}
  /\ UNCHANGED <<setVars, connVars, pipeVars, outq, sent, ctrlVars>>

\* Mutant: a CaConn that still has commands to work on is skipped.
ShutdownTargetsIdle == {a \in ress : cmdq[a] = <<>>}

ShutdownTargets == ress

(* The map is sorted by address; which of the sends comes first makes no   *)
(* difference to where they end.                                           *)
HandleShutdown ==
  /\ Take("Shutdown")
  /\ stopping' = TRUE
  /\ out' = {[op |-> "cmd", addr |-> a, cmd |-> [cmd |-> "Shutdown"]] :
               a \in ShutdownTargets}
  /\ UNCHANGED <<setpc, chst, ress, connVars, pipeVars, outq, sent, ctrlVars>>

\* CaConnEventValue::QueryItem goes on to storage_insert_tx.
HandleQueryItem ==
  /\ Take("QueryItem")
  /\ UNCHANGED <<setVars, out, connVars, pipeVars, outq, sent, ctrlVars>>

\* Mutant: the entry stays in the map.
AfterEosKept(a) == ress

AfterEos(a) == ress \ {a}

HandleCaConnEos ==
  /\ Take("EndOfStream")
  /\ LET a == Head(evq).addr IN
       /\ ress' = AfterEos(a)
       /\ out' = IF a \in ress THEN {[op |-> "join", addr |-> a]} ELSE {}
  /\ UNCHANGED <<setpc, stopping, chst, connVars, pipeVars, outq, sent, ctrlVars>>

Handle ==
  \/ HandleAddChannel
  \/ HandleSeriesLookupResult
  \/ HandleAddChannelWithStatusId
  \/ HandleAddChannelWithAddr
  \/ HandleRemoveChannel
  \/ HandleIocQueryResult
  \/ HandleCheckHealth
  \/ HandleShutdown
  \/ HandleQueryItem
  \/ HandleCaConnEos

-----------------------------------------------------------------------------
(* The awaits of the handlers.                                             *)

LookupsHeld == FoldFunction(LAMBDA n, m : n + m, 0, lookups)

\* connset_tx is the set's own queue: nobody but the set makes room in it.
SendSelf(p) ==
  /\ p.op = "self" /\ Room
  /\ evq' = Append(evq, p.ev)
  /\ out' = out \ {p}
  /\ UNCHANGED <<setVars, connVars, pipeVars, outq, sent, ctrlVars>>

SendLookup(p) ==
  /\ p.op = "lookup" /\ LookupsHeld < LookupCap
  /\ lookups' = [lookups EXCEPT ![p.ch] = @ + 1]
  /\ out' = out \ {p}
  /\ UNCHANGED <<evq, setVars, connVars, searchq, finding, outq, sent, ctrlVars>>

SendSearch(p) ==
  /\ p.op = "search" /\ Cardinality(searchq) < SearchCap
  /\ searchq' = searchq \cup {p.ch}
  /\ out' = out \ {p}
  /\ UNCHANGED <<evq, setVars, connVars, lookups, finding, outq, sent, ctrlVars>>

SendHealthy(p) ==
  /\ p.op = "healthy" /\ outq < OutCap
  /\ outq' = outq + 1
  /\ out' = out \ {p}
  /\ UNCHANGED <<evq, setVars, connVars, pipeVars, sent, ctrlVars>>

SendCommand(p) ==
  /\ p.op = "cmd" /\ phase[p.addr] # "ended" /\ Len(cmdq[p.addr]) < CmdCap
  /\ cmdq' = [cmdq EXCEPT ![p.addr] = Append(@, p.cmd)]
  /\ sent' = IF p.cmd.cmd = "ChannelAdd"
             THEN [sent EXCEPT ![p.cmd.ch] = Append(@, p.addr)] ELSE sent
  /\ out' = out \ {p}
  /\ UNCHANGED <<evq, setVars, phase, hold, pipeVars, outq, ctrlVars>>

(* The receiver is gone: the send fails, `?' ends the handler and `run',   *)
(* and dropping the set closes its event queue.                            *)
SendCommandFails(p) ==
  /\ p.op = "cmd" /\ phase[p.addr] = "ended"
  /\ setpc' = "failed"
  /\ evq' = <<>>
  /\ out' = {}
  /\ UNCHANGED <<stopping, chst, ress, connVars, pipeVars, outq, sent, ctrlVars>>

\* handle_ca_conn_eos awaits the join handle of the task.
Join(p) ==
  /\ p.op = "join" /\ phase[p.addr] = "ended"
  /\ out' = out \ {p}
  /\ UNCHANGED <<evq, setVars, connVars, pipeVars, outq, sent, ctrlVars>>

Await(p) ==
  /\ setpc = "run"
  /\ \/ SendSelf(p) \/ SendLookup(p) \/ SendSearch(p) \/ SendHealthy(p)
     \/ SendCommand(p) \/ SendCommandFails(p) \/ Join(p)

\* `run' leaves its loop and closes the queues.
RunEnds ==
  /\ setpc = "run" /\ stopping /\ out = {}
  /\ setpc' = "done"
  /\ evq' = <<>>
  /\ UNCHANGED <<stopping, chst, ress, out, connVars, pipeVars, outq, sent, ctrlVars>>

SetStep == Handle \/ (\E p \in out : Await(p)) \/ RunEnds

-----------------------------------------------------------------------------
(* The CaConn tasks (ca_conn_item_merge around the CaConn stream), as far  *)
(* as the set can see them; CaConn.tla has what happens inside.            *)

Serving(a) == phase[a] \in {"run", "stop"} /\ ~hold[a]

ConnCommand(a) ==
  /\ Serving(a) /\ cmdq[a] # <<>>
  /\ cmdq' = [cmdq EXCEPT ![a] = Tail(@)]
  /\ phase' = IF Head(cmdq[a]).cmd = "Shutdown" THEN [phase EXCEPT ![a] = "stop"]
              ELSE phase
  /\ UNCHANGED <<evq, setVars, out, hold, pipeVars, outq, sent, ctrlVars>>

\* The stream yields a query item; the task awaits its send.
ConnItem(a) ==
  /\ Serving(a) /\ budget["item"] > 0
  /\ hold' = [hold EXCEPT ![a] = TRUE]
  /\ budget' = [budget EXCEPT !["item"] = @ - 1]
  /\ UNCHANGED <<evq, setVars, out, phase, cmdq, pipeVars, outq, sent,
                 sending, gone, crowded>>

ConnItemSent(a) ==
  /\ hold[a] /\ setpc = "run" /\ Room
  /\ hold' = [hold EXCEPT ![a] = FALSE]
  /\ evq' = Append(evq, [kind |-> "QueryItem", addr |-> a])
  /\ UNCHANGED <<setVars, out, phase, cmdq, pipeVars, outq, sent, ctrlVars>>

\* The stream ends: because of the IOC, or because of the Shutdown command.
ConnStreamEnds(a) ==
  /\ Serving(a)
  /\ phase' = [phase EXCEPT ![a] = "eos"]
  /\ UNCHANGED <<evq, setVars, out, cmdq, hold, pipeVars, outq, sent, ctrlVars>>

\* Mutant: the task drops the CaConn without a word to the set.
ConnEosSentSilent(a) ==
  /\ phase[a] = "eos" /\ setpc = "run" /\ Room
  /\ phase' = [phase EXCEPT ![a] = "signaled"]
  /\ UNCHANGED <<evq, setVars, out, cmdq, hold, pipeVars, outq, sent, ctrlVars>>

ConnEosSent(a) ==
  /\ phase[a] = "eos" /\ setpc = "run" /\ Room
  /\ phase' = [phase EXCEPT ![a] = "signaled"]
  /\ evq' = Append(evq, Eos(a))
  /\ UNCHANGED <<setVars, out, cmdq, hold, pipeVars, outq, sent, ctrlVars>>

\* Mutant: the task works off its commands before it drops the receiver.
ConnDroppedDrained(a) ==
  /\ phase[a] = "signaled" /\ cmdq[a] = <<>>
  /\ phase' = [phase EXCEPT ![a] = "ended"]
  /\ UNCHANGED <<evq, setVars, out, cmdq, hold, pipeVars, outq, sent, ctrlVars>>

\* The task returns and drops the CaConn with the command receiver.
ConnDropped(a) ==
  /\ phase[a] = "signaled"
  /\ phase' = [phase EXCEPT ![a] = "ended"]
  /\ UNCHANGED <<evq, setVars, out, cmdq, hold, pipeVars, outq, sent, ctrlVars>>

\* Once the set is gone, the next send fails and the task returns early.
ConnSendFails(a) ==
  /\ setpc # "run"
  /\ hold[a] \/ phase[a] = "eos"
  /\ phase' = [phase EXCEPT ![a] = "ended"]
  /\ hold' = [hold EXCEPT ![a] = FALSE]
  /\ UNCHANGED <<evq, setVars, out, cmdq, pipeVars, outq, sent, ctrlVars>>

Conn(a) == ConnCommand(a) \/ ConnItem(a) \/ ConnItemSent(a) \/ ConnStreamEnds(a)
           \/ ConnEosSent(a) \/ ConnDropped(a) \/ ConnSendFails(a)

-----------------------------------------------------------------------------
(* The lookup workers and the finder's workers.                            *)

LookupAnswered(c) ==
  /\ lookups[c] > 0 /\ setpc = "run" /\ Room
  /\ lookups' = [lookups EXCEPT ![c] = @ - 1]
  /\ evq' = Append(evq, [kind |-> "SeriesLookupResult", ch |-> c])
  /\ UNCHANGED <<setVars, out, connVars, searchq, finding, outq, sent, ctrlVars>>

\* A database error ends the worker with its batch; see SeriesLookup.tla.
LookupLost(c) ==
  /\ Lossy /\ lookups[c] > 0
  /\ lookups' = [lookups EXCEPT ![c] = @ - 1]
  /\ UNCHANGED <<evq, setVars, out, connVars, searchq, finding, outq, sent, ctrlVars>>

FinderTakes(batch) ==
  /\ batch # {}
  /\ searchq' = searchq \ batch
  /\ finding' = finding \cup {batch}
  /\ UNCHANGED <<evq, setVars, out, connVars, lookups, outq, sent, ctrlVars>>

\* Every name of the batch is answered, with an address or without.
FinderAnswers(batch) ==
  /\ setpc = "run" /\ Room
  /\ \E res \in [batch -> AddrOrNone] :
       evq' = Append(evq, [kind |-> "IocAddrQueryResult", res |-> res])
  /\ finding' = finding \ {batch}
  /\ UNCHANGED <<setVars, out, connVars, lookups, searchq, outq, sent, ctrlVars>>

\* The query failed: finder_worker_single drops the batch and goes on.
FinderLoses(batch) ==
  /\ Lossy
  /\ finding' = finding \ {batch}
  /\ UNCHANGED <<evq, setVars, out, connVars, lookups, searchq, outq, sent, ctrlVars>>

Lookup == \E c \in Channels : LookupAnswered(c) \/ LookupLost(c)

Finder == \/ \E batch \in SUBSET searchq : FinderTakes(batch)
          \/ \E batch \in finding : FinderAnswers(batch) \/ FinderLoses(batch)

-----------------------------------------------------------------------------
(* The daemon, through CaConnSetCtrl.  Its loop handles one event at a     *)
(* time.  While a handler awaits a send to the set, and once the loop has  *)
(* ended, nobody takes from the daemon's own bounded queue, and an adapter *)
(* task puts the set's reports into that queue.  Module Daemon has the     *)
(* queue itself; here it is full or not.                                   *)

\* Back in its loop the daemon takes from its queue; after Shutdown it leaves.
Passes(ev) ==
  /\ setpc = "run" /\ Room
  /\ evq' = Append(evq, ev)
  /\ sending' = {}
  /\ gone' = (ev.kind = "Shutdown")
  /\ crowded' = (crowded /\ gone')

\* A send that finds room is done at once, any other is awaited.
CtrlSend(ev, b) ==
  /\ sending = {} /\ ~gone
  /\ budget[b] > 0
  /\ budget' = [budget EXCEPT ![b] = @ - 1]
  /\ \/ Passes(ev)
     \/ /\ setpc # "run" \/ ~Room
        /\ sending' = {ev}
        /\ UNCHANGED <<evq, gone, crowded>>
  /\ UNCHANGED <<setVars, out, connVars, pipeVars, outq, sent>>

CtrlAddChannel == \E c \in Channels : CtrlSend([kind |-> "ChannelAdd", ch |-> c], "add")

CtrlRemoveChannel ==
  \E c \in Channels : CtrlSend([kind |-> "ChannelRemove", ch |-> c], "remove")

CtrlCheckHealth == CtrlSend([kind |-> "CheckHealth"], "health")

CtrlShutdown == CtrlSend([kind |-> "Shutdown"], "shutdown")

CtrlSent(ev) ==
  /\ Passes(ev)
  /\ UNCHANGED <<setVars, out, connVars, pipeVars, outq, sent, budget>>

\* The set has closed its queue; the handler fails and the loop ends.
CtrlSendFails ==
  /\ sending # {} /\ setpc # "run"
  /\ sending' = {} /\ gone' = TRUE
  /\ UNCHANGED <<evq, setVars, out, connVars, pipeVars, outq, sent, crowded, budget>>

\* Ticks, requests and reports fill the daemon's queue while nobody takes.
CtrlCrowds ==
  /\ ~crowded /\ (sending # {} \/ gone)
  /\ crowded' = TRUE
  /\ UNCHANGED <<evq, setVars, out, connVars, pipeVars, outq, sent, sending, gone, budget>>

\* The adapter puts a report into the daemon's queue.
CtrlReceive ==
  /\ outq > 0 /\ ~crowded
  /\ outq' = outq - 1
  /\ UNCHANGED <<evq, setVars, out, connVars, pipeVars, sent, ctrlVars>>

Ctrl == \/ CtrlAddChannel \/ CtrlRemoveChannel \/ CtrlCheckHealth \/ CtrlShutdown
        \/ (\E ev \in sending : CtrlSent(ev)) \/ CtrlSendFails
        \/ CtrlCrowds \/ CtrlReceive

-----------------------------------------------------------------------------
Next == SetStep \/ (\E a \in Addrs : Conn(a)) \/ Lookup \/ Finder \/ Ctrl

Spec == Init /\ [][Next]_vars

(* Every task of the runtime is scheduled again and again, and async_channel *)
(* serves its waiting senders in order, so that a step that stays possible   *)
(* is taken.  The inputs (Ctrl's sends), a CaConn that yields items and one  *)
(* that ends by itself are not obliged to happen; a CaConn that was told to  *)
(* shut down does end.                                                       *)
ConnStopped(a) == phase[a] = "stop" /\ ConnStreamEnds(a)

Fairness ==
  /\ WF_vars(SetStep) /\ WF_vars(CtrlReceive) /\ WF_vars(\E ev \in sending : CtrlSent(ev))
  /\ \A a \in Addrs : /\ WF_vars(ConnCommand(a)) /\ WF_vars(ConnItemSent(a))
                      /\ WF_vars(ConnStopped(a)) /\ WF_vars(ConnEosSent(a))
                      /\ WF_vars(ConnDropped(a)) /\ WF_vars(ConnSendFails(a))
  /\ \A c \in Channels : WF_vars(LookupAnswered(c))
  /\ WF_vars(\E batch \in SUBSET searchq : FinderTakes(batch))
  /\ WF_vars(\E batch \in finding : FinderAnswers(batch))

FairSpec == Spec /\ Fairness

-----------------------------------------------------------------------------
(* Properties.                                                             *)

TypeOK ==
  /\ evq \in Seq(Event)
  /\ setpc \in {"run", "done", "failed"}
  /\ stopping \in BOOLEAN
  /\ chst \in [Channels -> ChannelState]
  /\ ress \in SUBSET Addrs
  /\ out \in SUBSET Pending
  /\ phase \in [Addrs -> Phase]
  /\ cmdq \in [Addrs -> Seq(Command)]
  /\ hold \in [Addrs -> BOOLEAN]
  /\ lookups \in [Channels -> Nat]
  /\ searchq \in SUBSET Channels
  /\ finding \in SUBSET (SUBSET Channels)
  /\ outq \in Nat
  /\ sent \in [Channels -> Seq(Addrs)]
  /\ sending \in SUBSET CtrlEvent /\ gone \in BOOLEAN /\ crowded \in BOOLEAN
  /\ budget \in [Inputs -> Nat]

EosQueued(a) == \E i \in DOMAIN evq : evq[i] = Eos(a)

(* The end-of-stream events in the queue and the map of CaConn tasks agree *)
(* with the tasks: a task that has signaled its end and is still in the    *)
(* map has exactly one such event queued, every event is for a task in the *)
(* map that has signaled, and a task that lives is in the map.  So         *)
(* handle_ca_conn_eos never meets a missing entry, never joins a task that *)
(* still runs, and no task is ever replaced before it has been joined.     *)
EosAccountsForEnd ==
  setpc = "run" =>
    \A a \in Addrs :
      /\ EosQueued(a) <=> (a \in ress /\ phase[a] \in {"signaled", "ended"})
      /\ \A i, j \in DOMAIN evq : evq[i] = Eos(a) /\ evq[j] = Eos(a) => i = j
      /\ phase[a] \in {"run", "stop", "eos"} => a \in ress
      /\ a \in ress => phase[a] # "none"
      /\ a \notin ress => \/ phase[a] \in {"none", "ended"}
                          \/ [op |-> "join", addr |-> a] \in out

(* A channel is given to at most one CaConn, once, and the state that the  *)
(* set keeps for it, ToRemove included, names that address: no channel is  *)
(* recorded twice, and a channel removed before its address was known is   *)
(* never recorded.                                                         *)
AddedOnceWhereKnown ==
  \A c \in Channels :
    sent[c] # <<>> => /\ chst[c].st \in {"withAddress", "toRemove"}
                      /\ sent[c] = <<chst[c].addr>>

(* A removed channel stays removed: no lookup result, search answer or     *)
(* repeated add that was under way brings it back.                         *)
RemovalIsFinal ==
  [][\A c \in Channels : chst[c].st = "toRemove" => chst'[c].st = "toRemove"]_vars

(* `run' ends with an error only when it sends a command to a CaConn whose *)
(* EndOfStream event waits unhandled in the set's own queue.               *)
FailsOnlyByEosRace ==
  [][setpc' = "failed" /\ setpc # "failed" =>
       \E p \in out : p.op = "cmd" /\ EosQueued(p.addr)]_vars

(* When `run' has ended well, every CaConn that is still in service has    *)
(* the Shutdown command in its queue.                                      *)
ShutdownReachesEveryConn ==
  setpc = "done" =>
    \A a \in Addrs :
      phase[a] = "run" =>
        \E i \in DOMAIN cmdq[a] : cmdq[a][i].cmd = "Shutdown"

(* The set awaits the send of a report, connset_out_tx is full, and the    *)
(* daemon, which has left its loop, will never make room.                  *)
Backlog ==
  /\ [op |-> "healthy"] \in out /\ outq = OutCap
  /\ crowded /\ gone

(* The set waits for something that never happens in two cases only: in a  *)
(* circle through its own full event queue (itself, a CaConn, a worker or  *)
(* the daemon waiting for room in it), or with its report to a daemon that *)
(* has left its loop.  The queues of the CaConns, of the lookup and of the *)
(* search never bring the tasks to a standstill.                           *)
StandstillCauses ==
  out # {} /\ ~ENABLED Next => Len(evq) = QueueCap \/ Backlog

(* A shutdown request that got into the queue ends `run', unless reports   *)
(* are so far behind that the set never gets to it.                        *)
ShutdownCompletes ==
  (\E i \in DOMAIN evq : evq[i].kind = "Shutdown") ~> setpc # "run" \/ Backlog

(* After `run' has ended well, every CaConn task ends.                     *)
ConnsEnd ==
  \A a \in Addrs : setpc = "done" ~> phase[a] \in {"none", "ended"}

(* With no lookup and no search lost, an added channel ends up at a CaConn *)
(* or is known to have no address, unless it is removed, the set ends, or  *)
(* nobody takes the set's reports any more.                                *)
ChannelGetsPlaced ==
  \A c \in Channels :
    chst[c].st # "absent"
      ~> \/ chst[c].st \in {"unknownAddress", "toRemove"}
         \/ sent[c] # <<>>
         \/ setpc # "run" \/ Backlog
=============================================================================
