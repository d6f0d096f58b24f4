------------------------------ MODULE CaProto ------------------------------
(***************************************************************************)
(* The Channel Access protocol stream (netfetch/src/ca/proto.rs) between a *)
(* TCP socket and the CaConn that polls it.  Bytes are counted, not looked *)
(* at: the input is a stream of messages, each a head and a payload, cut   *)
(* anywhere by the socket, and positions in it are numbers of bytes.       *)
(* `task' is the place in a turn of loop_body: "place" and "flush" the     *)
(* output, "read" and parse; "out" between two polls.                      *)
(***************************************************************************)
EXTENDS Naturals, Sequences, FiniteSets

CONSTANTS
  HeadLen, ExtLen,  \* 16 and 8 in the code
  MaxStd,           \* the longest payload of a standard head, 16368
  ExtMark,          \* the payload_size that announces an ExtHead, 0xffff
  DoneNeed,         \* need_min in state Done, 123
  BufCap,           \* of buf and outbuf, 128 KiB
  OutLen,           \* the length of a message to be sent
  MaxOut,           \* how many messages are pushed
  SockCap,          \* what the socket takes unless the peer reads
  Kinds,            \* the messages that the peer may send: whether the head
                    \* is extended, the payload, whether it can be decoded
  MaxMsgs           \* how many it sends

ASSUME ProtoAssumption ==
  /\ {HeadLen, ExtLen, ExtMark, OutLen, SockCap} \subseteq Nat \ {0}
  /\ {MaxStd, DoneNeed, MaxOut, MaxMsgs} \subseteq Nat
  /\ BufCap \in Nat /\ OutLen <= BufCap
  \* Less than need_min is in the buffer when room for need_min is asked for.
  /\ HeadLen <= ExtMark /\ ExtLen <= ExtMark /\ 2 * ExtMark <= BufCap + 1
  /\ MaxStd < ExtMark
  /\ Kinds \subseteq [ext : BOOLEAN, size : Nat, good : BOOLEAN]
  /\ \A k \in Kinds : ~k.ext => k.size <= MaxStd

VARIABLES
  stream,   \* the messages the peer sends, in order
  arrived,  \* how much of it has come to the socket
  eof,      \* the peer sends nothing more
  taken,    \* how much of it has been read into buf
  pos,      \* how much of it has been parsed
  state,    \* CaState, with the head in
  head,     \* HeadInfo and, as `of', the message it belongs to
  out,      \* how many messages wait in `out'
  outbuf,   \* bytes in outbuf
  room,     \* what the socket takes at the moment
  pushed,   \* history: how many messages were pushed
  task, woken, readWaker, writeWaker,
  blocked,  \* output_res_2 is Pending
  yielded,  \* history: the messages yielded, by their number
  failed    \* history: an error was yielded

peerVars == <<stream, eof>>
inVars   == <<taken, pos, state, head>>
outVars  == <<out, outbuf, room, pushed>>
wakeVars == <<woken, readWaker, writeWaker>>
resVars  == <<yielded, failed>>
vars == <<peerVars, arrived, inVars, outVars, task, wakeVars, blocked, resVars>>

Length(k) == HeadLen + k.size + (IF k.ext THEN ExtLen ELSE 0)

\* Where message i of the stream ends.
End ==
  LET f[i \in 0 .. Len(stream)] == IF i = 0 THEN 0 ELSE f[i - 1] + Length(stream[i])
  IN  f

Total == End[Len(stream)]

NoHead == [ext |-> FALSE, size |-> 0, good |-> TRUE, of |-> 0]

Init ==
  /\ stream \in UNION {[1 .. n -> Kinds] : n \in 0 .. MaxMsgs}
  /\ arrived = 0 /\ eof = FALSE
  /\ taken = 0 /\ pos = 0 /\ state = "StdHead" /\ head = NoHead
  /\ out = 0 /\ outbuf = 0 /\ room = SockCap /\ pushed = 0
  /\ task = "out" /\ woken = TRUE /\ readWaker = FALSE /\ writeWaker = FALSE
  /\ blocked = FALSE
  /\ yielded = <<>> /\ failed = FALSE

-----------------------------------------------------------------------------
(* The peer and the socket *)

Arrive == \E n \in arrived + 1 .. Total :
  /\ ~eof
  /\ arrived' = n
  /\ woken' = (woken \/ readWaker) /\ readWaker' = FALSE
  /\ UNCHANGED <<peerVars, inVars, outVars, task, writeWaker, blocked, resVars>>

\* The peer closes, maybe in the middle of a message.
PeerCloses ==
  /\ ~eof
  /\ eof' = TRUE
  /\ woken' = (woken \/ readWaker) /\ readWaker' = FALSE
  /\ UNCHANGED <<stream, arrived, inVars, outVars, task, writeWaker, blocked, resVars>>

PeerReads ==
  /\ room = 0
  /\ room' = SockCap
  /\ woken' = (woken \/ writeWaker) /\ writeWaker' = FALSE
  /\ UNCHANGED <<peerVars, arrived, inVars, out, outbuf, pushed, task, readWaker, blocked,
                 resVars>>

-----------------------------------------------------------------------------
(* CaConn, which polls again after it has pushed something or got an item, *)
(* and whenever its ticker has elapsed                                     *)

PushOut ==
  /\ task = "out" /\ pushed < MaxOut
  /\ out' = out + 1 /\ pushed' = pushed + 1
  /\ woken' = TRUE
  /\ UNCHANGED <<peerVars, arrived, inVars, outbuf, room, task, readWaker, writeWaker,
                 blocked, resVars>>

\* Mutant: nothing wakes the task but what it waits for.
TickNever == FALSE

Tick ==
  /\ task = "out" /\ ~woken
  /\ woken' = TRUE
  /\ UNCHANGED <<peerVars, arrived, inVars, outVars, task, readWaker, writeWaker, blocked,
                 resVars>>

Poll ==
  /\ task = "out" /\ woken
  /\ woken' = FALSE
  /\ task' = IF state = "Done" THEN "ended" ELSE "place"
  /\ UNCHANGED <<peerVars, arrived, inVars, outVars, readWaker, writeWaker, blocked, resVars>>

-----------------------------------------------------------------------------
(* Output: messages are placed into outbuf as long as there is room for    *)
(* them, and written until the socket takes no more.                       *)

Fitting == CHOOSE n \in 0 .. out :
             /\ outbuf + n * OutLen <= BufCap
             /\ n < out => outbuf + (n + 1) * OutLen > BufCap

\* Mutant: without a new message, what is left in outbuf is not written.
PlaceOrNothing ==
  /\ task = "place"
  /\ outbuf' = outbuf + Fitting * OutLen
  /\ out' = out - Fitting
  /\ task' = IF out = 0 THEN "read" ELSE "flush"
  /\ UNCHANGED <<peerVars, arrived, inVars, room, pushed, wakeVars, blocked, resVars>>

Place ==
  /\ task = "place"
  /\ outbuf' = outbuf + Fitting * OutLen
  /\ out' = out - Fitting
  /\ task' = "flush"
  /\ UNCHANGED <<peerVars, arrived, inVars, room, pushed, wakeVars, blocked, resVars>>

\* attempt_output
Flush ==
  /\ task = "flush" /\ outbuf > 0 /\ room > 0
  /\ \E n \in 1 .. outbuf :
       /\ n <= room
       /\ outbuf' = outbuf - n /\ room' = room - n
  /\ UNCHANGED <<peerVars, arrived, inVars, out, pushed, task, wakeVars, blocked, resVars>>

FlushPending ==
  /\ task = "flush" /\ outbuf > 0 /\ room = 0
  /\ writeWaker' = TRUE
  /\ blocked' = TRUE /\ task' = "read"
  /\ UNCHANGED <<peerVars, arrived, inVars, outVars, woken, readWaker, resVars>>

FlushDone ==
  /\ task = "flush" /\ outbuf = 0
  /\ blocked' = FALSE
  /\ task' = IF out > 0 THEN "place" ELSE "read"
  /\ UNCHANGED <<peerVars, arrived, inVars, outVars, wakeVars, resVars>>

-----------------------------------------------------------------------------
(* Input *)

\* Mutant: one byte more than the payload is read.
NeedMinMore(st, h) == CASE st = "StdHead" -> HeadLen
                        [] st = "ExtHead" -> ExtLen
                        [] st = "Payload" -> IF h.ext THEN ExtMark ELSE h.size + 1
                        [] st = "Done"    -> DoneNeed

NeedMin(st, h) == CASE st = "StdHead" -> HeadLen
                    [] st = "ExtHead" -> ExtLen
                    [] st = "Payload" -> IF h.ext THEN ExtMark ELSE h.size
                    [] st = "Done"    -> DoneNeed

\* What from_netbuf finds at a position: the head of a message, or, once the
\* framing is lost, anything.
HeadsAt(p) ==
  LET here == {i \in 1 .. Len(stream) : End[i - 1] = p}
      With(k, i) == [ext |-> k.ext, size |-> k.size, good |-> k.good, of |-> i]
  IN  IF here # {} THEN {With(stream[i], i) : i \in here}
      ELSE {With(k, 0) : k \in Kinds}

At(p, st, h) == [pos |-> p, state |-> st, head |-> h, item |-> "none"]

\* A message comes out if from_proto_infos can decode it; otherwise an error,
\* and the state is left as it was.
Msg(p, h, before) ==
  IF h.good THEN [pos |-> p, state |-> "StdHead", head |-> h, item |-> "msg"]
  ELSE [pos |-> p, state |-> before, head |-> h, item |-> "err"]

\* parse_item, from position p with the input up to t in the buffer.  An
\* extended payload of up to MaxStd is taken for empty; a longer one is read
\* with the length that the standard head gives, which is the mark.
ParseItem(p, t, st, h) ==
  IF t - p < NeedMin(st, h) THEN {At(p, st, h)}
  ELSE CASE st = "StdHead" ->
              {IF g.ext THEN At(p + HeadLen, "ExtHead", g)
               ELSE IF g.size = 0 THEN Msg(p + HeadLen, g, "StdHead")
               ELSE At(p + HeadLen, "Payload", g) : g \in HeadsAt(p)}
         [] st = "ExtHead" ->
              {IF h.size <= MaxStd THEN Msg(p + ExtLen, h, "ExtHead")
               ELSE At(p + ExtLen, "Payload", h)}
         [] st = "Payload" -> {Msg(p + NeedMin(st, h), h, "Payload")}
         [] st = "Done" -> {[At(p, st, h) EXCEPT !.item = "err"]}

\* Mutant: the task is suspended after every read.
ResultSleeps(r, readPending) ==
  /\ pos' = r.pos /\ state' = r.state /\ head' = r.head
  /\ yielded' = IF r.item = "msg" THEN Append(yielded, r.head.of) ELSE yielded
  /\ failed' = (failed \/ r.item = "err")
  /\ task' = IF r.item = "err" THEN "ended" ELSE "out"
  /\ woken' = (woken \/ r.item = "msg")

\* An item is yielded, whatever else; then a Pending output or input suspends
\* the task; otherwise there is another turn, unless the input is done.
Result(r, readPending) ==
  /\ pos' = r.pos /\ state' = r.state /\ head' = r.head
  /\ yielded' = IF r.item = "msg" THEN Append(yielded, r.head.of) ELSE yielded
  /\ failed' = (failed \/ r.item = "err")
  /\ task' = CASE r.item = "err" -> "ended"
               [] r.item = "msg" \/ (r.item = "none" /\ (blocked \/ readPending)) -> "out"
               [] OTHER -> IF r.state = "Done" THEN "ended" ELSE "place"
  /\ woken' = (woken \/ r.item = "msg")

Buffered == taken - pos >= NeedMin(state, head)

NoRead ==
  /\ task = "read" /\ Buffered
  /\ \E r \in ParseItem(pos, taken, state, head) : Result(r, FALSE)
  /\ UNCHANGED <<peerVars, arrived, taken, outVars, readWaker, writeWaker, blocked>>

Read ==
  /\ task = "read" /\ ~Buffered
  /\ \E t \in taken + 1 .. arrived :
       /\ t - pos <= BufCap
       /\ taken' = t
       /\ \E r \in ParseItem(pos, t, state, head) : Result(r, FALSE)
  /\ UNCHANGED <<peerVars, arrived, outVars, readWaker, writeWaker, blocked>>

ReadEof ==
  /\ task = "read" /\ ~Buffered /\ taken = arrived /\ eof
  /\ \E r \in ParseItem(pos, taken, "Done", head) : Result(r, FALSE)
  /\ UNCHANGED <<peerVars, arrived, taken, outVars, readWaker, writeWaker, blocked>>

ReadPending ==
  /\ task = "read" /\ ~Buffered /\ taken = arrived /\ ~eof
  /\ readWaker' = TRUE
  /\ Result(At(pos, state, head), TRUE)
  /\ UNCHANGED <<peerVars, arrived, taken, outVars, writeWaker, blocked>>

\* The socket fails when it is written to or read, and the stream ends with the error.
IoFails ==
  /\ (task = "flush" /\ outbuf > 0) \/ (task = "read" /\ ~Buffered)
  /\ task' = "ended" /\ failed' = TRUE
  /\ UNCHANGED <<peerVars, arrived, inVars, outVars, wakeVars, blocked, yielded>>

-----------------------------------------------------------------------------
ProtoStep == Place \/ Flush \/ FlushPending \/ FlushDone
             \/ NoRead \/ Read \/ ReadEof \/ ReadPending

Next == Arrive \/ PeerCloses \/ PeerReads \/ PushOut \/ Tick \/ Poll \/ ProtoStep \/ IoFails

\* CaConn's ticker elapses every 500 ms, a woken task is polled, and a poll
\* goes on to its end.  The peer need neither send nor read, nor the socket fail.
Spec == /\ Init /\ [][Next]_vars
        /\ WF_vars(Tick) /\ WF_vars(Poll) /\ WF_vars(ProtoStep)

-----------------------------------------------------------------------------
TypeOK ==
  /\ arrived \in 0 .. Total /\ taken \in 0 .. arrived /\ pos \in 0 .. taken
  /\ taken - pos <= BufCap
  /\ state \in {"StdHead", "ExtHead", "Payload", "Done"}
  /\ out \in 0 .. MaxOut /\ outbuf \in 0 .. BufCap /\ room \in 0 .. SockCap
  /\ pushed \in out .. MaxOut
  /\ task \in {"out", "place", "flush", "read", "ended"}
  /\ {eof, woken, readWaker, writeWaker, blocked, failed} \subseteq BOOLEAN
  /\ yielded \in Seq(0 .. Len(stream))

\* Messages before the first extended one.
StdOnly(n) == \A i \in 1 .. n : ~stream[i].ext

(* Standard messages come out complete, in order and once each, however the *)
(* input is cut, and parsing goes on exactly where the last one ended.  (It *)
(* does not after an extended one: its payload stays in the stream, or is   *)
(* read with the wrong length.)  No buffer gets too much, see TypeOK.       *)
FramingKept ==
  LET n == Len(yielded) IN
  /\ TypeOK
  /\ StdOnly(IF n < Len(stream) THEN n + 1 ELSE n) =>
       /\ yielded = [i \in 1 .. n |-> i]
       /\ state = "StdHead" /\ ~failed => pos = End[n]

(* A task that sleeps is woken by what it waits for: the socket takes       *)
(* output again, or more input comes; and if no output holds it up, no      *)
(* complete message is left in the buffer.                                  *)
SleepsOnlyWaiting ==
  task = "out" /\ ~woken =>
    \/ writeWaker /\ room = 0
    \/ readWaker /\ arrived = taken /\ ~eof /\ ~Buffered

(* Each message that has come to the socket is yielded, also while the peer *)
(* does not read (a blocked output does not hold up the input for longer    *)
(* than the ticker), and also if the peer has closed after it.              *)
InputGetsThrough == \A i \in 1 .. MaxMsgs :
  (i <= Len(stream) /\ StdOnly(i) /\ End[i] <= arrived)
     ~> (Len(yielded) >= i \/ failed)

(* What is pushed is written, if the peer goes on reading and the           *)
(* connection lasts.                                                        *)
OutputGetsThrough ==
  []<>(room > 0) => (out + outbuf > 0 ~> (out + outbuf = 0 \/ task = "ended"))
=============================================================================
