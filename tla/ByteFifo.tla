------------------------------ MODULE ByteFifo ------------------------------
(***************************************************************************)
(* What SlideBuf promises its users: a FIFO of at most Cap bytes.  Bytes   *)
(* that were read may be put back as long as nothing was written since.    *)
(* A writer fills the writable area first and commits what it wrote later. *)
(***************************************************************************)
EXTENDS Naturals, Sequences

CONSTANTS Byte, Cap

VARIABLES past,     \* bytes that were read and can still be put back
          content,  \* bytes that were written and not yet read
          filled    \* bytes in the writable area, not yet committed

vars == <<past, content, filled>>

\* What a single call can write or read.
Strings == UNION {[1 .. n -> Byte] : n \in 0 .. Cap}

Init == past = <<>> /\ content = <<>> /\ filled = <<>>

Put(bytes) ==
  /\ Len(content) + Len(bytes) <= Cap
  /\ content' = content \o bytes
  /\ past' \in {past, <<>>}

Write == /\ \E bytes \in Strings : Put(bytes)
         /\ filled' = <<>>

Fill == /\ filled' \in Strings /\ Len(content) + Len(filled') <= Cap
        /\ past' \in {past, <<>>}
        /\ UNCHANGED content

Commit == Put(filled) /\ filled' = <<>>

\* The first bytes of the content are read.
Read == /\ \E bytes \in Strings : /\ content = bytes \o content'
                                 /\ past' = past \o bytes
        /\ filled' = <<>>

\* The last bytes that were read are put back.
Unread == /\ \E bytes \in Strings : /\ past = past' \o bytes
                                   /\ content' = bytes \o content
          /\ filled' = <<>>

\* A write that found no room leaves the content alone.
Refuse == past' \in {past, <<>>} /\ filled' = <<>> /\ UNCHANGED content

Reset == past' = <<>> /\ content' = <<>> /\ filled' = <<>>

Next == Write \/ Fill \/ Commit \/ Read \/ Unread \/ Refuse \/ Reset

Spec == Init /\ [][Next]_vars
=============================================================================
