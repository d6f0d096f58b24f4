------------------------------ MODULE SlideBuf ------------------------------
(***************************************************************************)
(* The byte buffer of the protocols (slidebuf/src/slidebuf.rs): a fixed    *)
(* array with a read and a write position, whose content slides to the     *)
(* front when the writer needs room.  CaProto and the ZMTP connection read *)
(* from the socket into the writable area and commit with wadv.            *)
(***************************************************************************)
EXTENDS Naturals, Sequences

CONSTANTS Byte,   \* byte values
          NoByte, \* the initial value of the array
          Cap,    \* its length, 128 KiB in the code
          MaxLen  \* the longest single access that is looked at

ASSUME BufAssumption == NoByte \in Byte /\ Cap \in Nat /\ MaxLen \in Nat

VARIABLES buf, rp, wp,
          filled, \* what the caller has written to the writable area
          last    \* the last call, how many bytes it asked for, its result

vars == <<buf, rp, wp, filled, last>>

Calls == [call : {"write", "read", "seek"}, n : Nat,
          res : {"Ok", "NotEnoughBytes", "NotEnoughSpace"}]

Strings == UNION {[1 .. n -> Byte] : n \in 0 .. MaxLen}

Init ==
  /\ buf = [i \in 1 .. Cap |-> NoByte]
  /\ rp = 0 /\ wp = 0
  /\ filled = <<>>
  /\ last = [call |-> "seek", n |-> 0, res |-> "Ok"]

\* A buffer as a value, for the helpers that are called from several methods.
Buffer(array, r, w) == [array |-> array, rp |-> r, wp |-> w]

Current == Buffer(buf, rp, wp)

Become(b) == buf' = b.array /\ rp' = b.rp /\ wp' = b.wp

Returns(call, n, result) == last' = [call |-> call, n |-> n, res |-> result]

Overwritten(array, at, bytes) ==
  [i \in 1 .. Cap |-> IF i \in at + 1 .. at + Len(bytes) THEN bytes[i - at]
                      ELSE array[i]]

-----------------------------------------------------------------------------
\* Mutant: the content stays where it is.
RewindUnmoved(b) == Buffer(b.array, 0, b.wp - b.rp)

\* copy_within moves the content to the front; what lies behind it stays.
Rewind(b) ==
  Buffer([i \in 1 .. Cap |-> IF i <= b.wp - b.rp THEN b.array[b.rp + i]
                             ELSE b.array[i]],
         0, b.wp - b.rp)

\* The room that is compared is the one behind the read position.
RewindIfNeeded(b, need) ==
  IF b.rp # 0 /\ b.rp = b.wp THEN Buffer(b.array, 0, 0)
  ELSE IF Cap < b.rp + need THEN Rewind(b)
  ELSE b

\* Mutant: the caller relies on rewind_if_needed alone.
MakeRoomOnce(b, need) == RewindIfNeeded(b, need)

\* What every writing method does first.
MakeRoom(b, need) ==
  LET r == RewindIfNeeded(b, need)
  IN IF Cap - r.wp < need THEN Rewind(r) ELSE r

-----------------------------------------------------------------------------
\* put_slice, put_u8, put_u16_be, ...; the buffer may have slid even if the
\* bytes do not fit.
Put ==
  \E bytes \in Strings :
    LET room == MakeRoom(Current, Len(bytes)) IN
      /\ IF Cap - room.wp < Len(bytes)
         THEN /\ Become(room)
              /\ Returns("write", Len(bytes), "NotEnoughSpace")
         ELSE /\ Become(Buffer(Overwritten(room.array, room.wp, bytes), room.rp,
                               room.wp + Len(bytes)))
              /\ Returns("write", Len(bytes), "Ok")
      /\ filled' = <<>>

\* available_writable_area, and the caller's bytes in the area it returns.
AvailableWritableArea ==
  \E need \in 0 .. MaxLen :
    LET room == MakeRoom(Current, need) IN
      IF Cap - room.wp < need
      THEN /\ Become(room)
           /\ Returns("write", need, "NotEnoughSpace")
           /\ filled' = <<>>
      ELSE \E bytes \in Strings :
             /\ Len(bytes) <= Cap - room.wp
             /\ Become(Buffer(Overwritten(room.array, room.wp, bytes), room.rp,
                              room.wp))
             /\ filled' = bytes
             /\ Returns("write", need, "Ok")

\* wadv right after the area was filled; its rewind is never taken then.
Wadv ==
  /\ filled # <<>>
  /\ LET room == IF Cap - wp < Len(filled) THEN Rewind(Current) ELSE Current IN
       IF Cap - room.wp < Len(filled)
       THEN Become(room) /\ Returns("write", Len(filled), "NotEnoughSpace")
       ELSE /\ Become(Buffer(room.array, room.rp, room.wp + Len(filled)))
            /\ Returns("write", Len(filled), "Ok")
  /\ filled' = <<>>

HasBytes(n) == n <= wp - rp

\* adv, read_bytes, read_u8, read_u16_be, ...
Read ==
  \E n \in 0 .. MaxLen :
    /\ IF HasBytes(n)
       THEN rp' = rp + n /\ Returns("read", n, "Ok")
       ELSE rp' = rp /\ Returns("read", n, "NotEnoughBytes")
    /\ filled' = <<>>
    /\ UNCHANGED <<buf, wp>>

\* set_rp, to any position.
SetRp ==
  \E to \in 0 .. Cap :
    /\ IF to > wp
       THEN rp' = rp /\ Returns("seek", to, "NotEnoughBytes")
       ELSE rp' = to /\ Returns("seek", to, "Ok")
    /\ filled' = <<>>
    /\ UNCHANGED <<buf, wp>>

RewindRp ==
  \E n \in 0 .. MaxLen :
    /\ IF rp < n
       THEN rp' = rp /\ Returns("seek", n, "NotEnoughBytes")
       ELSE rp' = rp - n /\ Returns("seek", n, "Ok")
    /\ filled' = <<>>
    /\ UNCHANGED <<buf, wp>>

Reset ==
  /\ rp' = 0 /\ wp' = 0
  /\ Returns("seek", 0, "Ok")
  /\ filled' = <<>>
  /\ UNCHANGED buf

Next == \/ Put \/ AvailableWritableArea \/ Wadv \/ Read \/ SetRp \/ RewindRp
        \/ Reset

Spec == Init /\ [][Next]_vars

-----------------------------------------------------------------------------
(* The type of every variable; rp <= wp <= capacity is what the disabled   *)
(* check_invariants would test on every call.                              *)
TypeOK ==
  /\ buf \in [1 .. Cap -> Byte]
  /\ wp \in 0 .. Cap /\ rp \in 0 .. wp
  /\ filled \in Seq(Byte)
  /\ last \in Calls

Content == [i \in 1 .. wp - rp |-> buf[rp + i]]

Past == [i \in 1 .. rp |-> buf[i]]

Fifo == INSTANCE ByteFifo WITH past <- Past, content <- Content

(* The buffer is a FIFO: whatever slides, resets and failed calls come in  *)
(* between, the bytes read are the bytes written, in order, each once, and *)
(* those committed by wadv are those the caller put into the area.         *)
ImplementsFifo == Fifo!Spec

(* A call is refused only if the bytes really do not fit behind the        *)
(* content, or are not there: room in front of the content is always used. *)
RefusesOnlyWhenFull ==
  /\ last.call = "write" /\ last.res # "Ok" => wp - rp + last.n > Cap
  /\ last.call = "read" /\ last.res # "Ok" => last.n > wp - rp
=============================================================================
