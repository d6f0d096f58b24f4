-------------------------------- MODULE Zmtp --------------------------------
(***************************************************************************)
(* The ZMTP stream of the BSREAD client                                    *)
(* (ingest-bsread/src/zmtp/zmtpproto.rs): the greeting, then frames, which *)
(* make up messages and commands.  Bytes are counted, not looked at.  The  *)
(* output is a slide buffer with its two positions: what room there is     *)
(* depends on where the data lies in it.                                   *)
(***************************************************************************)
EXTENDS Naturals, Sequences, FiniteSets

CONSTANTS
  Need,      \* need_min of each state but ReadFrameBody
  PutLen,    \* the bytes put out at InitSend, InitRecv3, InitRecv5, and
             \* as "Ping"
  PingMin,   \* the shortest PING, 7
  PingMax,   \* the longest that is answered, 32
  PingRoom,  \* the room asked for before an own PING, 32
  BufCap,    \* of buf and outbuf, 128 KiB
  SockCap,   \* what the socket takes unless the peer reads
  Streams,   \* the sequences of frames that the peer may send
  Rejects    \* at which states the peer's greeting may be found bad

Greeting == <<"InitRecv1", "InitRecv2", "InitRecv3", "InitRecv4", "InitRecv5">>

FrameStates == {"ReadFrameFlags", "ReadFrameShort", "ReadFrameLong"}

\* long: the length takes eight bytes; more: the message goes on.
Kinds == [cmd : BOOLEAN, more : BOOLEAN, long : BOOLEAN, ping : BOOLEAN, size : Nat]

GreetingLen == Need["InitRecv1"] + Need["InitRecv2"] + Need["InitRecv3"]
                + Need["InitRecv4"] + Need["InitRecv5"]

ASSUME ZmtpAssumption ==
  /\ Need \in [{Greeting[i] : i \in 1 .. 5} \cup FrameStates -> Nat \ {0}]
  /\ \A s \in DOMAIN Need : 2 * Need[s] <= BufCap
  /\ PutLen \in [{"InitSend", "InitRecv3", "InitRecv5", "Ping"} -> Nat \ {0}]
  /\ PutLen["InitSend"] + PutLen["InitRecv3"] + PutLen["InitRecv5"] <= BufCap
  /\ {PingMin, PingMax, PingRoom, BufCap, SockCap} \subseteq Nat \ {0}
  /\ PutLen["Ping"] <= PingRoom
  /\ Streams \subseteq Seq(Kinds)
  /\ Rejects \subseteq {Greeting[i] : i \in 1 .. 5} \cup {"none"}

VARIABLES
  stream,  \* the frames that the peer sends
  reject,  \* the state in which its greeting is found bad
  arrived, eof,   \* what has come to the socket, and whether that was all
  taken, pos,     \* what of it is read into buf, and what is parsed
  inpEof,  \* inp_eof
  conn,    \* conn_state, the frame's head, has_more, frames
  out,     \* outbuf: rp, wp
  room,    \* what the socket takes at the moment
  task,    \* "out" between polls, "turn" in loop_body, "ended"
  done, woken, readWaker, writeWaker,
  yielded  \* history: the frames of each event yielded

inVars   == <<taken, pos, inpEof, conn>>
wakeVars == <<woken, readWaker, writeWaker>>
zmtpVars == <<stream, reject, arrived, eof, inVars, out, room, task, done, wakeVars, yielded>>

Length(k) == Need["ReadFrameFlags"]
              + Need[IF k.long THEN "ReadFrameLong" ELSE "ReadFrameShort"] + k.size

\* Where frame i ends.
End == LET f[i \in 0 .. Len(stream)] ==
             IF i = 0 THEN GreetingLen ELSE f[i - 1] + Length(stream[i])
       IN  f

Total == End[Len(stream)]

\* What is known of the frame being read, which is number of, and the frames of
\* the message so far.
Conn(state, of, hasMore, frames) ==
  [state |-> state, of |-> of, hasMore |-> hasMore, frames |-> frames]

OutBuf(r, w) == [rp |-> r, wp |-> w]

ZmtpInit ==
  /\ stream \in Streams
  /\ reject \in Rejects
  /\ arrived = 0 /\ eof = FALSE /\ taken = 0 /\ pos = 0 /\ inpEof = FALSE
  /\ conn = Conn("InitSend", 0, FALSE, <<>>)
  /\ out = OutBuf(0, 0) /\ room = SockCap
  /\ task = "out" /\ done = FALSE
  /\ woken = TRUE /\ readWaker = FALSE /\ writeWaker = FALSE
  /\ yielded = <<>>

-----------------------------------------------------------------------------
(* The peer and the socket *)

Arrive == \E n \in arrived + 1 .. Total :
  /\ ~eof
  /\ arrived' = n
  /\ woken' = (woken \/ readWaker) /\ readWaker' = FALSE
  /\ UNCHANGED <<stream, reject, eof, inVars, out, room, task, done, writeWaker, yielded>>

PeerCloses ==
  /\ ~eof
  /\ eof' = TRUE
  /\ woken' = (woken \/ readWaker) /\ readWaker' = FALSE
  /\ UNCHANGED <<stream, reject, arrived, inVars, out, room, task, done, writeWaker, yielded>>

PeerReads ==
  /\ room < SockCap
  /\ room' = SockCap
  /\ woken' = (woken \/ writeWaker) /\ writeWaker' = FALSE
  /\ UNCHANGED <<stream, reject, arrived, eof, inVars, out, task, done, readWaker, yielded>>

-----------------------------------------------------------------------------
(* outbuf, as SlideBuf has it *)

Filled(o) == o.wp - o.rp
WCap(o)   == BufCap - o.wp

\* put_slice of n bytes for which there is room: an empty buffer starts again.
PutOut(o, n) ==
  IF o.rp # 0 /\ o.rp = o.wp THEN OutBuf(0, n)
  ELSE IF o.wp + n <= BufCap THEN OutBuf(o.rp, o.wp + n)
  ELSE OutBuf(0, Filled(o) + n)

-----------------------------------------------------------------------------
(* parse_item: from outbuf (o) it makes pos, conn and outbuf, and the frames *)
(* of the event yielded, none if <<>>.                                        *)

Parsed(upto, c, o, item) == [pos |-> upto, conn |-> c, out |-> o, item |-> item]

NeedMin(c) == CASE c.state = "InitSend"      -> 0
                [] c.state = "ReadFrameBody" -> stream[c.of].size
                [] OTHER -> Need[c.state]

\* Where the bytes end that the state needs.
Behind == pos + NeedMin(conn)

\* What is bad in the state's bytes is an error.
ParseFails == \/ conn.state = reject
              \/ /\ conn.state \in {"ReadFrameShort", "ReadFrameLong"}
                 /\ stream[conn.of].size > BufCap \div 2

AfterGreeting(state) ==
  CASE state = "InitSend"  -> "InitRecv1" [] state = "InitRecv1" -> "InitRecv2"
    [] state = "InitRecv2" -> "InitRecv3" [] state = "InitRecv3" -> "InitRecv4"
    [] state = "InitRecv4" -> "InitRecv5" [] OTHER -> "ReadFrameFlags"

ParseGreeting(o) ==
  LET st == conn.state IN
  Parsed(Behind, Conn(IF st = reject THEN st ELSE AfterGreeting(st), 0, FALSE, <<>>),
         IF st # reject /\ st \in DOMAIN PutLen THEN PutOut(o, PutLen[st]) ELSE o, <<>>)

SizeState(k) == IF k.long THEN "ReadFrameLong" ELSE "ReadFrameShort"

ParseFlags(o) ==
  LET k == stream[conn.of + 1] IN
  Parsed(Behind, Conn(SizeState(k), conn.of + 1, IF k.cmd THEN conn.hasMore ELSE k.more,
                      conn.frames), o, <<>>)

ParseLength(o) ==
  Parsed(Behind, Conn("ReadFrameBody", conn.of, conn.hasMore, conn.frames), o, <<>>)

\* A PING is answered by a PONG of its length and an own PING, if they fit behind
\* the write position: wcap does not count the room before the read position.
Answer(o, size) ==
  LET pong == IF WCap(o) < size THEN o ELSE PutOut(o, size)
  IN  IF WCap(pong) < PingRoom THEN pong ELSE PutOut(pong, PutLen["Ping"])

ParseCommand(o) ==
  LET k == stream[conn.of] IN
  Parsed(Behind, Conn("ReadFrameFlags", conn.of, conn.hasMore, conn.frames),
         IF k.ping /\ k.size \in PingMin .. PingMax THEN Answer(o, k.size) ELSE o, <<conn.of>>)

\* Mutant: the frames of the message are kept.
ParseFrameKeeps(o) ==
  LET frames == Append(conn.frames, conn.of)
  IN  Parsed(Behind, Conn("ReadFrameFlags", conn.of, conn.hasMore, frames), o,
             IF conn.hasMore THEN <<>> ELSE frames)

ParseFrame(o) ==
  LET frames == Append(conn.frames, conn.of)
  IN  Parsed(Behind,
             Conn("ReadFrameFlags", conn.of, conn.hasMore, IF conn.hasMore THEN frames ELSE <<>>),
             o, IF conn.hasMore THEN <<>> ELSE frames)

ParseItem(o) ==
  CASE conn.state = "ReadFrameFlags" -> ParseFlags(o)
    [] conn.state \in {"ReadFrameShort", "ReadFrameLong"} -> ParseLength(o)
    [] conn.state = "ReadFrameBody" ->
         IF stream[conn.of].cmd THEN ParseCommand(o) ELSE ParseFrame(o)
    [] OTHER -> ParseGreeting(o)

-----------------------------------------------------------------------------
(* loop_body.  The parts report NoWork, Pend, Done (no more is to come),     *)
(* Empty (progress) or an item.  The channel of messages to be sent stays    *)
(* empty, nobody has its sender: it adds NoWork or Pend.                     *)

WriteResults ==
  IF Filled(out) = 0 THEN {[res |-> "NoWork", n |-> 0]}
  ELSE IF room = 0 THEN {[res |-> "Pend", n |-> 0]}
  ELSE {[res |-> "Empty", n |-> n] : n \in {k \in 1 .. Filled(out) : k <= room}}

Buffered == taken - pos >= NeedMin(conn)

ReadResults ==
  IF inpEof \/ Buffered THEN {[res |-> "NoWork", upto |-> taken]}
  ELSE IF taken < arrived
  THEN {[res |-> "Empty", upto |-> t] : t \in {k \in taken + 1 .. arrived : k - pos <= BufCap}}
  ELSE {[res |-> IF eof THEN "Done" ELSE "Pend", upto |-> taken]}

\* Some part has made progress, which makes another turn.
\* Mutant: not if only the state has changed.
GoesOnWithIo(write, read, parses) == write = "Empty" \/ read = "Empty"

GoesOn(write, read, parses) == write = "Empty" \/ read = "Empty" \/ parses

Turn ==
  /\ task = "turn"
  /\ \E w \in WriteResults : \E r \in ReadResults :
       LET parses == r.upto - pos >= NeedMin(conn)
           fails  == parses /\ ParseFails
           o      == OutBuf(out.rp + w.n, out.wp)
           p      == IF parses THEN ParseItem(o) ELSE Parsed(pos, conn, o, <<>>)
           yields == p.item # <<>>
       IN /\ room' = room - w.n /\ out' = p.out
          /\ taken' = r.upto /\ inpEof' = (inpEof \/ r.res = "Done")
          /\ pos' = p.pos /\ conn' = p.conn
          /\ writeWaker' = (writeWaker \/ w.res = "Pend")
          /\ readWaker' = (readWaker \/ r.res = "Pend")
          /\ done' = fails
          /\ yielded' = IF yields THEN Append(yielded, p.item) ELSE yielded
          /\ task' = IF ~yields /\ ~fails /\ GoesOn(w.res, r.res, parses) THEN "turn" ELSE "out"
          /\ woken' = (woken \/ yields \/ fails)
  /\ UNCHANGED <<stream, reject, arrived, eof>>

\* The socket fails.
TurnFails ==
  /\ task = "turn"
  /\ done' = TRUE /\ woken' = TRUE /\ task' = "out"
  /\ UNCHANGED <<stream, reject, arrived, eof, inVars, out, room, readWaker, writeWaker,
                 yielded>>

Poll ==
  /\ task = "out" /\ woken
  /\ woken' = FALSE
  /\ task' = IF done THEN "ended" ELSE "turn"
  /\ UNCHANGED <<stream, reject, arrived, eof, inVars, out, room, done, readWaker, writeWaker,
                 yielded>>

ZmtpNext == Arrive \/ PeerCloses \/ PeerReads \/ Turn \/ TurnFails \/ Poll

\* A woken task is polled, and a poll goes on to its end.
ZmtpSpec == ZmtpInit /\ [][ZmtpNext]_zmtpVars /\ WF_zmtpVars(Poll) /\ WF_zmtpVars(Turn)

-----------------------------------------------------------------------------
States == DOMAIN Need \cup {"InitSend", "ReadFrameBody"}

ZmtpTypeOK ==
  /\ arrived \in 0 .. Total /\ taken \in 0 .. arrived /\ pos \in 0 .. taken
  /\ taken - pos <= BufCap
  /\ conn.state \in States /\ conn.of \in 0 .. Len(stream) /\ conn.hasMore \in BOOLEAN
  /\ out.wp \in 0 .. BufCap /\ out.rp \in 0 .. out.wp /\ room \in 0 .. SockCap
  /\ task \in {"out", "turn", "ended"}
  /\ {eof, inpEof, done, woken, readWaker, writeWaker} \subseteq BOOLEAN

\* Which of the first frames of s belong to messages.
DataUpto(s) ==
  LET f[i \in 0 .. Len(s)] == IF i = 0 THEN <<>>
                              ELSE IF s[i].cmd THEN f[i - 1] ELSE Append(f[i - 1], i)
  IN  f

IsMessage(s, e) == ~s[e[1]].cmd

\* The frames of all messages among the events.
InMessages(s, events) ==
  LET f[i \in 0 .. Len(events)] == IF i = 0 THEN <<>>
                                   ELSE IF IsMessage(s, events[i]) THEN f[i - 1] \o events[i]
                                   ELSE f[i - 1]
  IN  f[Len(events)]

\* How many frames have been parsed to their end.
FramesParsed == IF conn.state = "ReadFrameFlags" \/ conn.of = 0 THEN conn.of ELSE conn.of - 1

(* Messages are yielded whole: each ends with the first frame that has no   *)
(* more flag, all frames are there in order, and a command that comes       *)
(* between two frames of a message does no harm to it.  No buffer gets too  *)
(* much, see ZmtpTypeOK.                                                    *)
MessagesWhole ==
  /\ ZmtpTypeOK
  /\ InMessages(stream, yielded) \o conn.frames = DataUpto(stream)[FramesParsed]
  /\ \A i \in DOMAIN yielded :
       LET m == yielded[i] IN
       IsMessage(stream, m) => \A j \in DOMAIN m : stream[m[j]].more <=> j < Len(m)

\* Frame i is among the first n bytes.
Upto(i, n) == i <= Len(stream) /\ n >= End[i]

(* Each frame that has come is handled, whether the peer reads or not: the  *)
(* task never sleeps on what is buffered, and there is always room for the  *)
(* rest of a frame, as bodies are limited to half the buffer.  (After the   *)
(* end of the input the task sleeps for ever: it neither ends nor fails.)   *)
FramesGetThrough ==
  \A i \in UNION {DOMAIN s : s \in Streams} : Upto(i, arrived) ~> (Upto(i, pos) \/ done)
=============================================================================
