----------------------------- MODULE ConnStream -----------------------------
(***************************************************************************)
(* What the CaConnSet relies on in a CaConn (the stream polled by          *)
(* ca_conn_item_merge in netfetch/src/ca/connset.rs): it takes its         *)
(* commands in order, stops on Shutdown or when it loses its connection,   *)
(* and once it stops it ends.                                              *)
(***************************************************************************)
EXTENDS Sequences

CONSTANT Commands

VARIABLES phase,  \* "run", "stop" or "eos"
          queue   \* the commands sent and not yet taken

vars == <<phase, queue>>

IsStop(command) == command.cmd = "Shutdown"

Init == phase = "run" /\ queue = <<>>

Arrive ==
  /\ \E command \in Commands : queue' = Append(queue, command)
  /\ UNCHANGED phase

Take ==
  /\ phase # "eos" /\ queue # <<>>
  /\ queue' = Tail(queue)
  /\ phase' = IF IsStop(Head(queue)) THEN "stop" ELSE phase

LoseConnection ==
  /\ phase = "run"
  /\ phase' \in {"stop", "eos"}
  /\ UNCHANGED queue

End ==
  /\ phase = "stop"
  /\ phase' = "eos"
  /\ UNCHANGED queue

Next == Arrive \/ Take \/ LoseConnection \/ End

Spec == Init /\ [][Next]_vars

FairSpec == Spec /\ WF_vars(Take) /\ WF_vars(End)
=============================================================================
