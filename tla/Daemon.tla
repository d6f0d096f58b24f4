------------------------------- MODULE Daemon -------------------------------
(***************************************************************************)
(* The daemon (daqingest/src/daemon.rs): its event loop, the ticker, the   *)
(* task that forwards the set's reports, those who post events (`run' with *)
(* the configured channels, HTTP), signals, shutdown.  Of the CaConnSet    *)
(* only its queue is here, and that each event is handled at some time,    *)
(* which module ConnSet is about.                                          *)
(***************************************************************************)
EXTENDS InsertPipe, Sequences

CONSTANTS DaemonCap, \* of the daemon's queue, 32 in the code
          SetCap,    \* of the set's queue, 10000
          OutCap,    \* of connset_out, 256
          MaxPosts,  \* events posted from outside
          MaxItems,  \* items that CaConns send
          SetFails   \* whether the set may end with an error

ASSUME DaemonAssumption ==
  /\ {DaemonCap, SetCap, OutCap} \subseteq Nat \ {0}
  /\ {MaxPosts, MaxItems} \subseteq Nat
  /\ SetFails \in BOOLEAN

VARIABLES
  eventq,   \* tx, rx
  loop,     \* "recv", "send" in a handler, "token", "join" after the loop, "done"
  tosend,   \* what the handler still has to send to the set
  ticked,   \* the event handled is a TimerTick
  shutting, \* shutting_down
  ticker,   \* "sleep", "shutdown" and "tick" while it sends one, "token"
  tokens,   \* in the channel ticker_inp
  signal, shutdownSent,
  setq,     \* connset_tx, connset_rx
  set,      \* "recv", "report" and "store" while a send is awaited, "done"
  outq,     \* how many reports are in connset_out
  adapter,  \* the forwarding task holds a report
  left      \* how many posts and items may still come

loopVars   == <<loop, tosend, ticked, shutting>>
tickerVars == <<ticker, shutdownSent>>
reportVars == <<outq, adapter>>
setVars    == <<setq, set>>
vars == <<eventq, loopVars, tickerVars, tokens, signal, setVars, reportVars, left, pipeVars>>

Posts == {"ChannelAdd", "ChannelRemove"}

Init ==
  /\ eventq = <<>>
  /\ loop = "recv" /\ tosend = <<>> /\ ticked = FALSE /\ shutting = FALSE
  /\ ticker = "sleep" /\ tokens = 0 /\ signal = FALSE /\ shutdownSent = FALSE
  /\ setq = <<>> /\ set = "recv" /\ outq = 0 /\ adapter = FALSE
  /\ left = [post |-> MaxPosts, item |-> MaxItems]
  /\ PipeInit

Room == Len(eventq) < DaemonCap

\* The receiver lives as long as the daemon.
Post(e) == loop # "done" /\ Room /\ eventq' = Append(eventq, e)

PostEvent ==
  /\ left.post > 0 /\ left' = [left EXCEPT !.post = @ - 1]
  /\ \E e \in Posts : Post(e)
  /\ UNCHANGED <<loopVars, tickerVars, tokens, signal, setVars, reportVars, pipeVars>>

\* handler_sigint, handler_sigterm
Signal ==
  /\ ~signal
  /\ signal' = TRUE
  /\ UNCHANGED <<eventq, loopVars, tickerVars, tokens, setVars, reportVars, left, pipeVars>>

-----------------------------------------------------------------------------
(* The ticker: one TimerTick, then it waits for the token.                  *)

TickerWakes ==
  /\ ticker = "sleep"
  /\ ticker' = IF signal /\ ~shutdownSent THEN "shutdown" ELSE "tick"
  /\ UNCHANGED <<eventq, loopVars, tokens, signal, shutdownSent, setVars, reportVars, left,
                 pipeVars>>

TickerShutdown ==
  /\ ticker = "shutdown" /\ Post("Shutdown")
  /\ shutdownSent' = TRUE
  /\ ticker' = "tick"
  /\ UNCHANGED <<loopVars, tokens, signal, setVars, reportVars, left, pipeVars>>

TickerTick ==
  /\ ticker = "tick" /\ Post("TimerTick")
  /\ ticker' = "token"
  /\ UNCHANGED <<loopVars, tokens, signal, shutdownSent, setVars, reportVars, left, pipeVars>>

TickerToken ==
  /\ ticker = "token" /\ tokens > 0
  /\ tokens' = 0
  /\ ticker' = "sleep"
  /\ UNCHANGED <<eventq, loopVars, signal, shutdownSent, setVars, reportVars, left, pipeVars>>

TickerStep == TickerWakes \/ TickerShutdown \/ TickerTick \/ TickerToken

-----------------------------------------------------------------------------
(* The loop *)

\* handle_timer_tick asks for the set's health if the last report is more than
\* two seconds old, and check_caconn_chans every five seconds.
HandleTimerTick ==
  /\ \E n \in 0 .. 2 : tosend' = [i \in 1 .. n |-> "CheckHealth"]
  /\ loop' = "send"
  /\ UNCHANGED shutting

HandleChannel(e) ==
  /\ tosend' = <<e>>
  /\ loop' = "send"
  /\ UNCHANGED shutting

\* Healthy sets connset_status_last.
HandleCaConnSetItem ==
  /\ loop' = "recv"
  /\ UNCHANGED <<tosend, shutting>>

HandleShutdown ==
  \/ shutting /\ loop' = "recv" /\ UNCHANGED <<tosend, shutting>>
  \/ ~shutting /\ shutting' = TRUE /\ tosend' = <<"Shutdown">> /\ loop' = "send"

HandleEvent ==
  /\ loop = "recv" /\ ~shutting /\ eventq # <<>>
  /\ eventq' = Tail(eventq)
  /\ LET e == Head(eventq) IN
     /\ ticked' = (e = "TimerTick")
     /\ \/ e = "TimerTick" /\ HandleTimerTick
        \/ e \in Posts /\ HandleChannel(e)
        \/ e = "CaConnSetItem" /\ HandleCaConnSetItem
        \/ e = "Shutdown" /\ HandleShutdown
  /\ UNCHANGED <<tickerVars, tokens, signal, setVars, reportVars, left, pipeVars>>

\* Two seconds after the last report a tick asks for the health.
AsksHealth == HandleEvent /\ Head(eventq) = "TimerTick" /\ tosend' # <<>>

\* A send to the set's queue, awaited by the handler.
SendToSet ==
  /\ loop = "send" /\ tosend # <<>> /\ set # "done" /\ Len(setq) < SetCap
  /\ setq' = Append(setq, Head(tosend)) /\ tosend' = Tail(tosend)
  /\ UNCHANGED <<eventq, loop, ticked, shutting, tickerVars, tokens, signal, set, reportVars,
                 left, pipeVars>>

\* Mutant: the error is dropped.
SendFailsUnnoticed ==
  /\ loop = "send" /\ tosend # <<>> /\ set = "done"
  /\ tosend' = <<>>
  /\ UNCHANGED <<eventq, loop, ticked, shutting, tickerVars, tokens, signal, setVars,
                 reportVars, left, pipeVars>>

\* The set is gone: the handler fails and the loop ends, but a tick gives its
\* token back first.
SendFails ==
  /\ loop = "send" /\ tosend # <<>> /\ set = "done"
  /\ tosend' = <<>>
  /\ tokens' = IF ticked THEN tokens + 1 ELSE tokens
  /\ loop' = "join"
  /\ UNCHANGED <<eventq, ticked, shutting, tickerVars, signal, setVars, reportVars, left,
                 pipeVars>>

Handled ==
  /\ loop = "send" /\ tosend = <<>>
  /\ IF ticked THEN tokens = 0 /\ tokens' = 1 ELSE UNCHANGED tokens
  /\ loop' = IF shutting THEN "join" ELSE "recv"
  /\ UNCHANGED <<eventq, tosend, ticked, shutting, tickerVars, signal, setVars, reportVars,
                 left, pipeVars>>

Joins ==
  /\ loop = "join" /\ \A w \in InsertWorkers : inserter[w] = "ended"
  /\ loop' = "done"
  /\ UNCHANGED <<eventq, tosend, ticked, shutting, tickerVars, tokens, signal, setVars,
                 reportVars, left, pipeVars>>

LoopStep == HandleEvent \/ SendToSet \/ SendFails \/ Handled \/ Joins

-----------------------------------------------------------------------------
(* The set and the adapter *)

\* Mutant: the set goes on after Shutdown until its queue is closed.
SetEventNoStop ==
  /\ set = "recv" /\ setq # <<>>
  /\ setq' = Tail(setq)
  /\ set' = CASE Head(setq) = "CheckHealth" -> "report"
              [] Head(setq) = "QueryItem"   -> "store"
              [] OTHER -> "recv"
  /\ UNCHANGED <<eventq, loopVars, tickerVars, tokens, signal, reportVars, left, pipeVars>>

SetEvent ==
  /\ set = "recv" /\ setq # <<>>
  /\ set' = CASE Head(setq) = "CheckHealth" -> "report"
              [] Head(setq) = "QueryItem"   -> "store"
              [] Head(setq) = "Shutdown"    -> "done"
              [] OTHER -> "recv"
  /\ setq' = IF Head(setq) = "Shutdown" THEN <<>> ELSE Tail(setq)
  /\ UNCHANGED <<eventq, loopVars, tickerVars, tokens, signal, reportVars, left, pipeVars>>

SetReports ==
  /\ set = "report" /\ outq < OutCap
  /\ outq' = outq + 1
  /\ set' = "recv"
  /\ UNCHANGED <<eventq, loopVars, tickerVars, tokens, signal, setq, adapter, left, pipeVars>>

SetStores ==
  /\ set = "store" /\ Store
  /\ set' = "recv"
  /\ UNCHANGED <<eventq, loopVars, tickerVars, tokens, signal, setq, reportVars, left>>

\* A command to a CaConn that has just ended fails, and the set with it.
SetError ==
  /\ SetFails /\ set = "recv"
  /\ set' = "done" /\ setq' = <<>>
  /\ UNCHANGED <<eventq, loopVars, tickerVars, tokens, signal, reportVars, left, pipeVars>>

\* The merge task of a CaConn passes an item on.
ConnItem ==
  /\ left.item > 0 /\ set # "done" /\ Len(setq) < SetCap
  /\ setq' = Append(setq, "QueryItem")
  /\ left' = [left EXCEPT !.item = @ - 1]
  /\ UNCHANGED <<eventq, loopVars, tickerVars, tokens, signal, set, reportVars, pipeVars>>

AdapterRecv ==
  /\ ~adapter /\ outq > 0
  /\ outq' = outq - 1 /\ adapter' = TRUE
  /\ UNCHANGED <<eventq, loopVars, tickerVars, tokens, signal, setVars, left, pipeVars>>

AdapterSend ==
  /\ adapter /\ Post("CaConnSetItem")
  /\ adapter' = FALSE
  /\ UNCHANGED <<loopVars, tickerVars, tokens, signal, setVars, outq, left, pipeVars>>

SetStep == SetEvent \/ SetReports \/ SetStores

AdapterStep == AdapterRecv \/ AdapterSend

Aside == UNCHANGED <<eventq, loopVars, tickerVars, tokens, signal, setVars, reportVars, left>>

-----------------------------------------------------------------------------
Next == \/ PostEvent \/ Signal \/ TickerStep \/ LoopStep
        \/ SetStep \/ SetError \/ ConnItem \/ AdapterStep
        \/ HookStep(set = "done") /\ Aside
        \/ \E w \in InsertWorkers : InserterStep(w) /\ Aside

\* The tasks are scheduled, the set gets on with its events, the database
\* answers.  A channel serves the senders that wait for room in their order,
\* hence SF for them.  Time passes, so the daemon does ask for the health.
\* Nobody need send a signal, post events or yield items.
Spec == /\ Init /\ [][Next]_vars
        /\ WF_vars(TickerWakes) /\ SF_vars(TickerShutdown) /\ SF_vars(TickerTick)
        /\ WF_vars(TickerToken)
        /\ WF_vars(HandleEvent) /\ SF_vars(AsksHealth) /\ SF_vars(SendToSet) /\ WF_vars(SendFails)
        /\ WF_vars(Handled) /\ WF_vars(Joins)
        /\ WF_vars(SetStep) /\ WF_vars(AdapterRecv) /\ SF_vars(AdapterSend)
        /\ WF_vars(HookStep(set = "done") /\ Aside)
        /\ \A w \in InsertWorkers : WF_vars(InserterStep(w) /\ Aside)

-----------------------------------------------------------------------------
QueueTypeOK ==
  /\ eventq \in Seq(Posts \cup {"TimerTick", "CaConnSetItem", "Shutdown"})
  /\ Len(eventq) <= DaemonCap
  /\ tosend \in Seq(Posts \cup {"CheckHealth", "Shutdown"})
  /\ setq \in Seq(Posts \cup {"CheckHealth", "Shutdown", "QueryItem"})
  /\ Len(setq) <= SetCap
  /\ outq \in 0 .. OutCap /\ tokens \in 0 .. 1
  /\ left \in [post : 0 .. MaxPosts, item : 0 .. MaxItems]

TaskTypeOK ==
  /\ loop \in {"recv", "send", "join", "done"}
  /\ ticked \in BOOLEAN /\ shutting \in BOOLEAN
  /\ ticker \in {"sleep", "shutdown", "tick", "token"}
  /\ signal \in BOOLEAN /\ shutdownSent \in BOOLEAN
  /\ set \in {"recv", "report", "store", "done"} /\ adapter \in BOOLEAN

(* The type of every variable; no queue has more than its capacity, and    *)
(* never more than one token is on its way to the ticker.                  *)
TypeOK == QueueTypeOK /\ TaskTypeOK /\ PipeTypeOK

Ticks == {i \in DOMAIN eventq : eventq[i] = "TimerTick"}

HandlesTick == loop = "send" /\ ticked

(* There is one tick at a time, in the queue, in the handler or on its way  *)
(* back as a token, so the daemon never waits to give a token back, and     *)
(* none at all unless the ticker waits for the token.                       *)
OneTickAround ==
  /\ \A i, j \in Ticks : i = j
  /\ Ticks # {} => ~HandlesTick /\ tokens = 0
  /\ HandlesTick => tokens = 0
  /\ Ticks # {} \/ HandlesTick \/ tokens > 0 => ticker = "token"

(* When the daemon ends, each item that the set has passed on is in the     *)
(* database, or has failed or been left out: nothing is left in a queue, in *)
(* the hook or with a worker, and no more will come.                        *)
DrainedAtEnd == loop = "done" => set = "done" /\ stored = inserted + dropped

(* The daemon leaves its loop only for a shutdown that a signal asked for,  *)
(* or because the set is gone.                                              *)
LeavesForCause == loop \in {"join", "done"} => (shutting /\ signal) \/ set = "done"

(* The daemon is not there to take the set's reports, and all there is room *)
(* for is full of them.                                                     *)
Backlog ==
  /\ loop \in {"send", "join"} /\ set = "report"
  /\ outq = OutCap /\ adapter /\ ~Room

(* A signal ends the daemon, with the set and the insert workers ended      *)
(* before, unless so many reports are outstanding that the set cannot get   *)
(* to its Shutdown event, because the daemon does not take reports while it *)
(* shuts down.                                                              *)
SignalEndsDaemon == signal ~> (loop = "done" \/ []Backlog)

(* An error in the set ends the daemon without a signal, too: it is found   *)
(* at the latest at the next health check.                                  *)
SetErrorIsNoticed == set = "done" ~> loop = "done"
=============================================================================
