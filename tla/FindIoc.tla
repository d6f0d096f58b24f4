------------------------------ MODULE FindIoc ------------------------------
(***************************************************************************)
(* The broadcast search for the IOCs of channels (FindIocStream in         *)
(* netfetch/src/ca/findioc.rs, polled by ca_search in search.rs).  The     *)
(* channels are pushed before the first poll.  They are put into batches;  *)
(* a batch goes to one target after the other, as a datagram with a search *)
(* id per channel, until every channel is answered or its time is over.    *)
(* `task' is the place in poll_next: "yield", "send", "fill", "create" and *)
(* "read" in each turn of its loop, "result" while a datagram is handled,  *)
(* "out" between two polls, "ended" after the stream has ended and         *)
(* "panicked" after the task has died.                                     *)
(***************************************************************************)
EXTENDS Naturals, Sequences, FiniteSets

CONSTANTS Channels,    \* a channel stands for its search id as well
          NumTargets,  \* broadcast addresses
          BatchSize,   \* channels_per_batch, 4 in the code
          InFlightMax, \* in_flight_max, 20 in the code
          AnswerMax,   \* the most answers in a datagram that are looked at
          Repeats      \* whether a datagram may answer a channel twice

ASSUME SearchAssumption ==
  /\ IsFiniteSet(Channels)
  /\ {BatchSize, InFlightMax} \subseteq Nat \ {0}
  /\ {NumTargets, AnswerMax} \subseteq Nat
  /\ Repeats \in BOOLEAN

VARIABLES
  task,
  again,     \* loop_again
  batchOf,   \* the batch of a channel, 0 while it is in channels_input
  made,      \* the number of batches made; their ids are 1 .. made
  inFlight,  \* the keys of in_flight
  left,      \* per batch, how many targets it still has to be sent to
  answered,  \* the channels that are `done' in their batch
  index,     \* the keys of bid_by_sid
  sendq,     \* batch_send_queue
  buf,       \* the batch in buf1, <<0>> for the zeros it has at the start
  writable,  \* the readiness of the socket for sending
  packet,    \* the answers of a datagram not yet handled
  spent,     \* sids_remove
  out,       \* out_queue, as the number of results per channel
  yielded,   \* history: the results that the stream has yielded
  asked      \* history: the channels some datagram has asked for

batchVars  == <<batchOf, made>>
searchVars == <<inFlight, left, answered, index, sendq>>
sockVars   == <<buf, writable, asked>>
replyVars  == <<packet, spent>>
resultVars == <<out, yielded>>
vars == <<task, again, batchVars, searchVars, sockVars, replyVars, resultVars>>

Zeros == 0

Input == {c \in Channels : batchOf[c] = 0}

Members(b) == {c \in Channels : batchOf[c] = b}

Init ==
  /\ task = "out" /\ again = FALSE
  /\ batchOf = [c \in Channels |-> 0] /\ made = 0
  /\ inFlight = {} /\ left = <<>> /\ answered = {} /\ index = {}
  /\ sendq = <<>>
  /\ buf = <<Zeros>> /\ writable = TRUE /\ asked = {}
  /\ packet = <<>> /\ spent = {}
  /\ out = [c \in Channels |-> 0] /\ yielded = [c \in Channels |-> 0]

-----------------------------------------------------------------------------
(* A poll begins with clear_timed_out.  The batches were made in the order *)
(* of their ids, so those out of time are the first ones.                  *)

\* Mutant: the newest batch is never out of time.
ExpiredButLast(cut) == {b \in inFlight : b < cut}

Expired(cut) == {b \in inFlight : b <= cut}

\* Mutant: channels that have been answered are reported again.
TimedOutWithAnswered(cut) == {c \in Channels : batchOf[c] \in Expired(cut)}

TimedOut(cut) == {c \in Channels : batchOf[c] \in Expired(cut)} \ answered

Poll(cut) ==
  /\ task = "out"
  /\ out' = [c \in Channels |-> IF c \in TimedOut(cut) THEN out[c] + 1 ELSE out[c]]
  /\ index' = index \ TimedOut(cut)
  /\ inFlight' = inFlight \ Expired(cut)
  /\ task' = "yield"
  /\ UNCHANGED <<again, batchVars, left, answered, sendq, sockVars, replyVars,
                 yielded>>

-----------------------------------------------------------------------------
(* A turn of the loop.                                                     *)

Quiet == \A c \in Channels : out[c] = 0

Yield ==
  /\ task = "yield" /\ ~Quiet
  /\ yielded' = [c \in Channels |-> yielded[c] + out[c]]
  /\ out' = [c \in Channels |-> 0]
  /\ task' = "out" /\ again' = FALSE
  /\ UNCHANGED <<batchVars, searchVars, sockVars, replyVars>>

NothingToYield ==
  /\ task = "yield" /\ Quiet
  /\ task' = "send" /\ again' = FALSE
  /\ UNCHANGED <<batchVars, searchVars, sockVars, replyVars, resultVars>>

Sent ==
  /\ task = "send" /\ buf # <<>> /\ writable
  /\ asked' = IF Head(buf) = Zeros THEN asked ELSE asked \cup Members(Head(buf))
  /\ buf' = <<>>
  /\ task' = "fill" /\ again' = TRUE
  /\ UNCHANGED <<batchVars, searchVars, writable, replyVars, resultVars>>

\* The socket seemed ready, but is not.
WouldBlock ==
  /\ task = "send" /\ buf # <<>> /\ writable
  /\ writable' = FALSE
  /\ task' = "fill" /\ again' = TRUE
  /\ UNCHANGED <<batchVars, searchVars, buf, asked, replyVars, resultVars>>

\* There is nothing to send, the socket is not ready, or sending fails: then
\* the datagram stays in the buffer.
NotSent ==
  /\ task = "send"
  /\ task' = "fill"
  /\ UNCHANGED <<again, batchVars, searchVars, sockVars, replyVars, resultVars>>

\* Mutant: a batch is not queued for its next target.
RequeuedNever(b) == Tail(sendq)

Requeued(b) == Append(Tail(sendq), b)

\* The next batch of the send queue is written to the buffer, answered channels
\* included; a batch not in flight any more or without targets is dropped.
Fill ==
  /\ task = "fill" /\ buf = <<>> /\ sendq # <<>>
  /\ LET b == Head(sendq) IN
       IF b \in inFlight /\ left[b] > 0
       THEN /\ buf' = <<b>>
            /\ left' = [left EXCEPT ![b] = left[b] - 1]
            /\ sendq' = Requeued(b)
       ELSE /\ sendq' = Tail(sendq)
            /\ UNCHANGED <<buf, left>>
  /\ again' = TRUE
  /\ UNCHANGED <<task, batchVars, inFlight, answered, index, writable, asked,
                 replyVars, resultVars>>

Filled ==
  /\ task = "fill" /\ (buf # <<>> \/ sendq = <<>>)
  /\ task' = "create"
  /\ UNCHANGED <<again, batchVars, searchVars, sockVars, replyVars, resultVars>>

MayCreate == Input # {} /\ Cardinality(inFlight) < InFlightMax

\* create_in_flight with as many channels as there are and a batch takes.  Which
\* ones makes no difference.
CreateInFlight ==
  /\ task = "create" /\ MayCreate
  /\ made' = made + 1
  /\ \E members \in SUBSET Input :
       /\ members # {}
       /\ \/ Cardinality(members) = BatchSize
          \/ members = Input /\ Cardinality(Input) < BatchSize
       /\ batchOf' = [c \in Channels |-> IF c \in members THEN made' ELSE batchOf[c]]
       /\ index' = index \cup members
  /\ inFlight' = inFlight \cup {made'}
  /\ left' = Append(left, NumTargets)
  /\ sendq' = Append(sendq, made')
  /\ again' = TRUE
  /\ UNCHANGED <<task, answered, sockVars, replyVars, resultVars>>

Created ==
  /\ task = "create" /\ ~MayCreate
  /\ task' = "read"
  /\ UNCHANGED <<again, batchVars, searchVars, sockVars, replyVars, resultVars>>

-----------------------------------------------------------------------------
(* Reading.  An IOC may answer late, more than once or not at all, and     *)
(* several times in a datagram since it may get the same datagram over     *)
(* several broadcast addresses.                                            *)

Distinct(seq) == \A i, j \in DOMAIN seq : seq[i] = seq[j] => i = j

Packets == {p \in UNION {[1 .. n -> asked] : n \in 0 .. AnswerMax} :
              Repeats \/ Distinct(p)}

\* A datagram with at least one whole message; `packet' has the answers among
\* the messages after the first one, none if that one has a bad version.
Read ==
  /\ task = "read"
  /\ packet' \in Packets
  /\ task' = "result"
  /\ UNCHANGED <<again, batchVars, searchVars, sockVars, spent, resultVars>>

\* A datagram shorter than a head, or with the payload of its first message
\* missing, gives no message at all, and try_read indexes the first one.
ReadPanics ==
  /\ task = "read"
  /\ task' = "panicked"
  /\ UNCHANGED <<again, batchVars, searchVars, sockVars, replyVars, resultVars>>

\* The socket fails, or a head or a payload can not be parsed.  The error is
\* yielded; ca_search polls again.
ReadFails ==
  /\ task = "read"
  /\ task' = "out"
  /\ UNCHANGED <<again, batchVars, searchVars, sockVars, replyVars, resultVars>>

MayEnd == Input = {} /\ inFlight = {} /\ Quiet

NothingToRead ==
  /\ task = "read"
  /\ task' = CASE again -> "yield"
               [] ~again /\ MayEnd -> "ended"
               [] ~again /\ ~MayEnd -> "out"
  /\ UNCHANGED <<again, batchVars, searchVars, sockVars, replyVars, resultVars>>

\* Mutant: a batch is done with its first answer.
AllDoneAtFirst(b, done) == Members(b) \cap done # {}

AllDone(b, done) == Members(b) \subseteq done

\* One result of handle_result.
HandleResult ==
  /\ task = "result" /\ packet # <<>>
  /\ packet' = Tail(packet)
  /\ LET c == Head(packet)
         b == batchOf[c]
         known == c \in index
         open == known /\ b \in inFlight
     IN /\ spent' = IF known THEN spent \cup {c} ELSE spent
        /\ answered' = IF open THEN answered \cup {c} ELSE answered
        /\ out' = IF open THEN [out EXCEPT ![c] = out[c] + 1] ELSE out
        /\ inFlight' = IF open /\ AllDone(b, answered')
                       THEN inFlight \ {b} ELSE inFlight
  /\ UNCHANGED <<task, again, batchVars, left, index, sendq, sockVars, yielded>>

IndexAfter == index \ spent

ResultsHandled ==
  /\ task = "result" /\ packet = <<>>
  /\ index' = IndexAfter
  /\ spent' = {}
  /\ task' = "yield"
  /\ UNCHANGED <<again, batchVars, inFlight, left, answered, sendq, sockVars,
                 packet, resultVars>>

\* The socket becomes ready while the task sleeps.
SocketWritable ==
  /\ task = "out" /\ ~writable
  /\ writable' = TRUE
  /\ UNCHANGED <<task, again, batchVars, searchVars, buf, asked, replyVars,
                 resultVars>>

-----------------------------------------------------------------------------
Turn == \/ Yield \/ NothingToYield \/ Sent \/ WouldBlock \/ NotSent \/ Fill
        \/ Filled \/ CreateInFlight \/ Created \/ Read \/ ReadFails
        \/ NothingToRead \/ HandleResult \/ ResultsHandled

Next == (\E cut \in 0 .. made : Poll(cut)) \/ Turn \/ ReadPanics \/ SocketWritable

Spec == Init /\ [][Next]_vars

(* ca_search polls again after each item, and the ping wakes it every      *)
(* 200 ms otherwise; at some poll the last batch made is out of time, too. *)
(* Every datagram is answered a finite number of times, so the socket has  *)
(* nothing to read again and again, also in turns in which nothing else    *)
(* was done (reading does not fail in each of those).  Nothing is assumed  *)
(* of the sending, and no datagram need come that kills the task.          *)
Fairness ==
  /\ WF_vars(\E cut \in 0 .. made : Poll(cut))
  /\ SF_vars(Poll(made))
  /\ WF_vars(Turn)
  /\ SF_vars(NothingToRead)
  /\ SF_vars(~again /\ NothingToRead)

FairSpec == Spec /\ Fairness

-----------------------------------------------------------------------------
(* The type of every variable; never more than in_flight_max batches are   *)
(* in flight.                                                              *)
TypeOK ==
  /\ task \in {"out", "yield", "send", "fill", "create", "read", "result", "ended",
             "panicked"}
  /\ again \in BOOLEAN /\ writable \in BOOLEAN
  /\ made \in Nat
  /\ batchOf \in [Channels -> 0 .. made]
  /\ inFlight \in SUBSET (1 .. made) /\ Cardinality(inFlight) <= InFlightMax
  /\ left \in [1 .. made -> 0 .. NumTargets]
  /\ answered \in SUBSET Channels /\ index \in SUBSET Channels
  /\ sendq \in Seq(1 .. made) /\ buf \in Seq(0 .. made)
  /\ packet \in Seq(Channels) /\ spent \in SUBSET Channels
  /\ out \in [Channels -> Nat] /\ yielded \in [Channels -> Nat]
  /\ asked \in SUBSET Channels

Open(c) == batchOf[c] \in inFlight /\ c \notin answered

(* bid_by_sid has the ids of the channels in flight that are not answered, *)
(* and those answered by the datagram at hand: no late or repeated answer  *)
(* finds an id, whether its batch was answered or ran out of time.         *)
IndexExact == \A c \in Channels : c \in index <=> (Open(c) \/ c \in spent)

Reports(c) == out[c] + yielded[c]

(* Every channel is either still to be searched, or in flight without an   *)
(* answer, or has been reported: none is lost between the input, the       *)
(* batches and the results.                                                *)
NoneLost ==
  \A c \in Channels : Reports(c) = 0 <=> (c \in Input \/ Open(c))

(* No channel is reported twice: neither answered late after it was        *)
(* reported as not found, nor answered by two targets.  (handle_result     *)
(* removes the ids after the whole datagram, so that one that has the same *)
(* id twice does report it twice.)                                         *)
ReportedOnce == ~Repeats => \A c \in Channels : Reports(c) <= 1

(* A batch in flight that has not been sent to every target waits in the   *)
(* send queue, and no batch is in the queue twice.                         *)
NoneForgotten ==
  /\ \A b \in inFlight : left[b] > 0 => \E i \in DOMAIN sendq : sendq[i] = b
  /\ Distinct(sendq)

(* When the stream ends, the result of every channel has been yielded.     *)
EndsComplete == task = "ended" => \A c \in Channels : yielded[c] >= 1

(* The search ends with a result for every channel, even if the socket     *)
(* never takes a datagram and nobody answers, unless a datagram without a  *)
(* whole message kills its task.                                           *)
SearchEnds ==
  <>\/ task = "ended" /\ \A c \in Channels : yielded[c] >= 1
    \/ task = "panicked"
=============================================================================
