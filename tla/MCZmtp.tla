------------------------------- MODULE MCZmtp -------------------------------
(* Model-checking instances of Zmtp.                                        *)
EXTENDS Zmtp, TLC

\* The lengths scaled down: in the code 1, 9, 1, 1, 52, then 1, 1, 8.
Needs == [s \in {"InitRecv1", "InitRecv2", "InitRecv3", "InitRecv4", "InitRecv5",
                 "ReadFrameFlags", "ReadFrameShort", "ReadFrameLong"} |->
            IF s \in {"InitRecv5", "ReadFrameLong"} THEN 2 ELSE 1]

Puts == [s \in {"InitSend", "InitRecv3", "InitRecv5", "Ping"} |-> 1]

Frame(cmd, more, long, ping, size) ==
  [cmd |-> cmd, more |-> more, long |-> long, ping |-> ping, size |-> size]

\* Frames of a message, the first as long as may be, an empty one; a PING, which
\* is a command; and a frame that is too long, which is the last one read.
Long    == Frame(FALSE, TRUE, FALSE, FALSE, 3)
Empty   == Frame(FALSE, FALSE, TRUE, FALSE, 0)
Ping    == Frame(TRUE, FALSE, FALSE, TRUE, 2)
TooLong == Frame(FALSE, FALSE, TRUE, FALSE, 4)

\* A message of two frames with a PING between them.
Interrupted == <<Frame(FALSE, TRUE, FALSE, FALSE, 1), Ping, Frame(FALSE, FALSE, FALSE, FALSE, 0)>>

SomeStreams == {<<f, g>> : f \in {Long, Ping}, g \in {Long, Empty, TooLong}}
               \cup {<<Long, Ping>>, <<Empty, Ping>>, Interrupted}
=============================================================================
