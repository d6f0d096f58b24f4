--------------------------- MODULE SlideBufProofs ---------------------------
(***************************************************************************)
(* Proofs about the byte buffer and the ZMTP stream, which reads into one  *)
(* and writes from another.  SlideBuf, for every capacity and every set of *)
(* bytes: the positions stay within the array, a call is refused only for  *)
(* lack of room, and the buffer implements ByteFifo.  Zmtp, for all frames *)
(* and however the socket cuts them: messages are yielded whole.           *)
(***************************************************************************)
EXTENDS SlideBuf, Zmtp, SequenceTheorems, WellFoundedInduction, TLAPS

IsBuffer(b) ==
  /\ b.array \in [1 .. Cap -> Byte]
  /\ b.wp \in 0 .. Cap /\ b.rp \in 0 .. b.wp

ContentOf(b) == [i \in 1 .. b.wp - b.rp |-> b.array[b.rp + i]]

PastOf(b) == [i \in 1 .. b.rp |-> b.array[i]]

\* b holds the content of a, in another place; the past may be gone.
Same(a, b) ==
  /\ IsBuffer(b)
  /\ ContentOf(b) = ContentOf(a)
  /\ PastOf(b) \in {PastOf(a), <<>>}

\* What the caller has filled in lies behind the write position.
FilledInPlace ==
  /\ wp + Len(filled) <= Cap
  /\ \A i \in 1 .. Len(filled) : buf[wp + i] = filled[i]

IInv == TypeOK /\ FilledInPlace

-----------------------------------------------------------------------------
(* Sliding keeps the content and frees the room in front of it.            *)
LEMMA RewindKeeps ==
  ASSUME NEW b, IsBuffer(b)
  PROVE  /\ Same(b, Rewind(b))
         /\ Rewind(b).rp = 0 /\ Rewind(b).wp = b.wp - b.rp
<1> DEFINE r == Rewind(b)
<1>1. r.array = [i \in 1 .. Cap |-> IF i <= b.wp - b.rp THEN b.array[b.rp + i]
                                    ELSE b.array[i]]
      /\ r.rp = 0 /\ r.wp = b.wp - b.rp
  BY DEF Rewind, Buffer
<1> HIDE DEF r
<1>2. Cap \in Nat /\ b.wp \in Nat /\ b.rp \in Nat /\ b.rp <= b.wp /\ b.wp <= Cap
  BY BufAssumption DEF IsBuffer
<1>3. IsBuffer(r)
  BY <1>1, <1>2 DEF IsBuffer
<1>4. ContentOf(r) = ContentOf(b)
  BY <1>1, <1>2 DEF ContentOf
<1>5. PastOf(r) = <<>>
  BY <1>1 DEF PastOf
<1>6. QED
  BY <1>1, <1>3, <1>4, <1>5 DEF r, Same

(* Making room keeps the content, and when it does not make enough room    *)
(* the bytes asked for do not fit at all.                                  *)
LEMMA MakeRoomKeeps ==
  ASSUME NEW b, IsBuffer(b), NEW need \in Nat
  PROVE  /\ Same(b, MakeRoom(b, need))
         /\ MakeRoom(b, need).wp - MakeRoom(b, need).rp = b.wp - b.rp
         /\ Cap - MakeRoom(b, need).wp < need => b.wp - b.rp + need > Cap
<1> DEFINE r == RewindIfNeeded(b, need)
<1>1. Cap \in Nat /\ b.wp \in Nat /\ b.rp \in Nat /\ b.rp <= b.wp /\ b.wp <= Cap
  BY BufAssumption DEF IsBuffer
<1>2. Same(b, b)
  BY DEF Same
<1>3. Same(b, r) /\ r.wp - r.rp = b.wp - b.rp
  <2>1. CASE b.rp # 0 /\ b.rp = b.wp
    <3>1. r = Buffer(b.array, 0, 0)
      BY <2>1 DEF RewindIfNeeded
    <3>2. r.array = b.array /\ r.rp = 0 /\ r.wp = 0
      BY <3>1 DEF Buffer
    <3> HIDE DEF r
    <3>3. IsBuffer(r) /\ PastOf(r) = <<>>
      BY <1>1, <3>2 DEF IsBuffer, PastOf
    <3>4. ContentOf(r) = ContentOf(b)
      BY <1>1, <2>1, <3>2 DEF ContentOf
    <3>5. QED
      BY <1>1, <2>1, <3>2, <3>3, <3>4 DEF Same
  <2>2. CASE ~(b.rp # 0 /\ b.rp = b.wp) /\ Cap < b.rp + need
    BY <1>1, <2>2, RewindKeeps DEF RewindIfNeeded
  <2>3. CASE ~(b.rp # 0 /\ b.rp = b.wp) /\ ~(Cap < b.rp + need)
    BY <1>2, <2>3 DEF RewindIfNeeded
  <2>4. QED
    BY <2>1, <2>2, <2>3
<1> HIDE DEF r
<1>4. MakeRoom(b, need) = IF Cap - r.wp < need THEN Rewind(r) ELSE r
  BY DEF MakeRoom, r
<1>5. IsBuffer(r) /\ r.wp \in Nat /\ r.rp \in Nat
  BY <1>1, <1>3 DEF Same, IsBuffer
<1>6. Same(r, Rewind(r)) /\ Rewind(r).rp = 0 /\ Rewind(r).wp = r.wp - r.rp
  BY <1>5, RewindKeeps
<1>7. Same(b, Rewind(r))
  BY <1>3, <1>6 DEF Same
<1>8. QED
  BY <1>1, <1>3, <1>4, <1>5, <1>6, <1>7

(* Writing behind the content leaves the content and the past alone; what  *)
(* was written is there.                                                   *)
LEMMA OverwriteKeeps ==
  ASSUME NEW b, IsBuffer(b), NEW bytes \in Seq(Byte), b.wp + Len(bytes) <= Cap,
         NEW array, array = Overwritten(b.array, b.wp, bytes)
  PROVE  /\ array \in [1 .. Cap -> Byte]
         /\ \A i \in 1 .. b.wp : array[i] = b.array[i]
         /\ \A i \in 1 .. Len(bytes) : array[b.wp + i] = bytes[i]
<1>1. Cap \in Nat /\ b.wp \in Nat /\ b.wp <= Cap /\ Len(bytes) \in Nat
  BY BufAssumption DEF IsBuffer
<1>2. \A i \in 1 .. Len(bytes) : bytes[i] \in Byte
  OBVIOUS
<1>3. QED
  BY <1>1, <1>2 DEF Overwritten, IsBuffer

\* What a caller writes or reads is a sequence of bytes.
LEMMA StringsAreSequences ==
  \A s \in Strings : s \in Seq(Byte) /\ Len(s) \in Nat
<1>1. \A n \in 0 .. MaxLen : [1 .. n -> Byte] \subseteq Seq(Byte)
  BY BufAssumption
<1>2. QED
  BY <1>1 DEF Strings

-----------------------------------------------------------------------------
\* The variables make up a buffer with their content and their past.
LEMMA CurrentIsBuffer ==
  ASSUME TypeOK
  PROVE  /\ IsBuffer(Current) /\ Current.array = buf
         /\ Current.rp = rp /\ Current.wp = wp
         /\ ContentOf(Current) = Content /\ PastOf(Current) = Past
BY DEF TypeOK, IsBuffer, Current, Buffer, ContentOf, PastOf, Content, Past

\* The buffer is empty at first.
LEMMA InitInv == Init => IInv
<1> SUFFICES ASSUME Init PROVE IInv
  OBVIOUS
<1>1. Len(filled) = 0 /\ filled \in Seq(Byte)
  BY DEF Init
<1>2. last \in Calls
  BY DEF Init, Calls
<1>3. QED
  BY <1>1, <1>2, BufAssumption DEF Init, IInv, TypeOK, FilledInPlace

\* No bytes are a sequence of bytes.
LEMMA EmptyIsSequence == <<>> \in Seq(Byte) /\ Len(<<>>) = 0
OBVIOUS

(* The state that a call leaves when nothing is in the writable area.      *)
LEMMA EmptyArea ==
  ASSUME filled' = <<>>, buf' \in [1 .. Cap -> Byte], wp' \in 0 .. Cap,
         rp' \in 0 .. wp', last' \in Calls
  PROVE  IInv'
<1>1. \A s : s = <<>> => Len(s) = 0 /\ s \in Seq(Byte)
  BY EmptyIsSequence
<1>2. Len(filled') = 0 /\ filled' \in Seq(Byte)
  BY <1>1
<1>3. TypeOK'
  BY <1>2 DEF TypeOK
<1>4. Cap \in Nat
  BY BufAssumption
<1>5. \A n \in 0 .. Cap : \A k : k = 0 => n + k <= Cap
  BY <1>4
<1>6. \A k : k = 0 => 1 .. k = {}
  OBVIOUS
<1>7. wp' + Len(filled') <= Cap
  BY <1>2, <1>5
<1>8. FilledInPlace'
  BY <1>2, <1>6, <1>7 DEF FilledInPlace
<1>9. QED
  BY <1>3, <1>8 DEF IInv

\* What a call reports has its type.
LEMMA ReturnsType ==
  \A call \in {"write", "read", "seek"}, n \in Nat,
     res \in {"Ok", "NotEnoughBytes", "NotEnoughSpace"} :
       Returns(call, n, res) => last' \in Calls
BY DEF Returns, Calls

(* Each call keeps the invariant.                                          *)
LEMMA StepInv == IInv /\ [Next]_vars => IInv'
<1> SUFFICES ASSUME IInv, [Next]_vars PROVE IInv'
  OBVIOUS
<1>1. /\ Cap \in Nat /\ MaxLen \in Nat /\ wp \in Nat /\ rp \in Nat /\ rp <= wp
      /\ wp <= Cap /\ filled \in Seq(Byte) /\ Len(filled) \in Nat
      /\ wp + Len(filled) <= Cap /\ TypeOK
  BY BufAssumption DEF IInv, TypeOK, FilledInPlace
<1>2. CASE Put
  <2>1. PICK bytes \in Strings :
          LET slid == MakeRoom(Current, Len(bytes)) IN
            /\ IF Cap - slid.wp < Len(bytes)
               THEN /\ Become(slid)
                    /\ Returns("write", Len(bytes), "NotEnoughSpace")
               ELSE /\ Become(Buffer(Overwritten(slid.array, slid.wp, bytes),
                                     slid.rp, slid.wp + Len(bytes)))
                    /\ Returns("write", Len(bytes), "Ok")
            /\ filled' = <<>>
    BY <1>2 DEF Put
  <2> DEFINE slid == MakeRoom(Current, Len(bytes))
             array == Overwritten(slid.array, slid.wp, bytes)
  <2>2. bytes \in Seq(Byte) /\ Len(bytes) \in Nat
    BY StringsAreSequences
  <2>3. IsBuffer(slid)
    BY <1>1, <2>2, CurrentIsBuffer, MakeRoomKeeps DEF Same
  <2>4. last' \in Calls
    BY <2>1, <2>2, ReturnsType
  <2> HIDE DEF slid
  <2>5. CASE Cap - slid.wp < Len(bytes)
    <3>1. Become(slid) /\ filled' = <<>>
      BY <2>1, <2>5 DEF slid
    <3>2. QED
      BY <2>3, <2>4, <3>1, EmptyArea DEF Become, IsBuffer
  <2>6. CASE ~(Cap - slid.wp < Len(bytes))
    <3>1. Become(Buffer(array, slid.rp, slid.wp + Len(bytes))) /\ filled' = <<>>
      BY <2>1, <2>6 DEF slid
    <3>2. buf' = array /\ rp' = slid.rp /\ wp' = slid.wp + Len(bytes)
      BY <3>1 DEF Become, Buffer
    <3>3. slid.wp \in Nat /\ slid.rp \in 0 .. slid.wp /\ slid.wp + Len(bytes) <= Cap
      BY <1>1, <2>2, <2>3, <2>6 DEF IsBuffer
    <3>4. array \in [1 .. Cap -> Byte]
      BY <2>2, <2>3, <3>3, OverwriteKeeps
    <3> HIDE DEF array
    <3>5. QED
      BY <1>1, <2>2, <2>4, <3>1, <3>2, <3>3, <3>4, EmptyArea
  <2>7. QED
    BY <2>5, <2>6
<1>3. CASE AvailableWritableArea
  <2>1. PICK need \in 0 .. MaxLen :
          LET slid == MakeRoom(Current, need) IN
            IF Cap - slid.wp < need
            THEN /\ Become(slid)
                 /\ Returns("write", need, "NotEnoughSpace")
                 /\ filled' = <<>>
            ELSE \E bytes \in Strings :
                   /\ Len(bytes) <= Cap - slid.wp
                   /\ Become(Buffer(Overwritten(slid.array, slid.wp, bytes),
                                    slid.rp, slid.wp))
                   /\ filled' = bytes
                   /\ Returns("write", need, "Ok")
    BY <1>3 DEF AvailableWritableArea
  <2> DEFINE slid == MakeRoom(Current, need)
  <2>2. need \in Nat
    BY <1>1
  <2>3. IsBuffer(slid)
    BY <1>1, <2>2, CurrentIsBuffer, MakeRoomKeeps DEF Same
  <2>4. last' \in Calls
    BY <2>1, <2>2, ReturnsType
  <2> HIDE DEF slid
  <2>5. CASE Cap - slid.wp < need
    <3>1. Become(slid) /\ filled' = <<>>
      BY <2>1, <2>5 DEF slid
    <3>2. QED
      BY <2>3, <2>4, <3>1, EmptyArea DEF Become, IsBuffer
  <2>6. CASE ~(Cap - slid.wp < need)
    <3>1. PICK bytes \in Strings :
            /\ Len(bytes) <= Cap - slid.wp
            /\ Become(Buffer(Overwritten(slid.array, slid.wp, bytes), slid.rp, slid.wp))
            /\ filled' = bytes
      BY <2>1, <2>6 DEF slid
    <3> DEFINE array == Overwritten(slid.array, slid.wp, bytes)
    <3>2. bytes \in Seq(Byte) /\ Len(bytes) \in Nat
      BY StringsAreSequences
    <3>3. buf' = array /\ rp' = slid.rp /\ wp' = slid.wp
      BY <3>1 DEF Become, Buffer
    <3>4. slid.wp \in Nat /\ slid.rp \in 0 .. slid.wp /\ slid.wp + Len(bytes) <= Cap
      BY <1>1, <2>3, <3>1, <3>2 DEF IsBuffer
    <3>5. array \in [1 .. Cap -> Byte] /\ \A i \in 1 .. Len(bytes) : array[slid.wp + i] = bytes[i]
      BY <2>3, <3>2, <3>4, OverwriteKeeps
    <3> HIDE DEF array
    <3>6. TypeOK'
      BY <1>1, <2>4, <3>1, <3>2, <3>3, <3>4, <3>5 DEF TypeOK
    <3>7. FilledInPlace'
      BY <3>1, <3>3, <3>4, <3>5 DEF FilledInPlace
    <3>8. QED
      BY <3>6, <3>7 DEF IInv
  <2>7. QED
    BY <2>5, <2>6
<1>4. CASE Wadv
  <2>1. /\ buf' = buf /\ rp' = rp /\ wp' = wp + Len(filled) /\ filled' = <<>>
        /\ Returns("write", Len(filled), "Ok")
    BY <1>1, <1>4 DEF Wadv, Become, Buffer, Current
  <2>2. last' \in Calls
    BY <1>1, <2>1, ReturnsType
  <2>3. QED
    BY <1>1, <2>1, <2>2, EmptyArea DEF TypeOK
<1>5. CASE Read
  <2>1. PICK n \in 0 .. MaxLen :
          /\ IF HasBytes(n)
             THEN rp' = rp + n /\ Returns("read", n, "Ok")
             ELSE rp' = rp /\ Returns("read", n, "NotEnoughBytes")
          /\ filled' = <<>> /\ UNCHANGED <<buf, wp>>
    BY <1>5 DEF Read
  <2>2. last' \in Calls
    BY <1>1, <2>1, ReturnsType
  <2>3. QED
    BY <1>1, <2>1, <2>2, EmptyArea DEF TypeOK, HasBytes
<1>6. CASE SetRp
  <2>1. PICK to \in 0 .. Cap :
          /\ IF to > wp
             THEN rp' = rp /\ Returns("seek", to, "NotEnoughBytes")
             ELSE rp' = to /\ Returns("seek", to, "Ok")
          /\ filled' = <<>> /\ UNCHANGED <<buf, wp>>
    BY <1>6 DEF SetRp
  <2>2. last' \in Calls
    BY <1>1, <2>1, ReturnsType
  <2>3. QED
    BY <1>1, <2>1, <2>2, EmptyArea DEF TypeOK
<1>7. CASE RewindRp
  <2>1. PICK n \in 0 .. MaxLen :
          /\ IF rp < n
             THEN rp' = rp /\ Returns("seek", n, "NotEnoughBytes")
             ELSE rp' = rp - n /\ Returns("seek", n, "Ok")
          /\ filled' = <<>> /\ UNCHANGED <<buf, wp>>
    BY <1>7 DEF RewindRp
  <2>2. last' \in Calls
    BY <1>1, <2>1, ReturnsType
  <2>3. QED
    BY <1>1, <2>1, <2>2, EmptyArea DEF TypeOK
<1>8. CASE Reset
  <2>1. last' \in Calls
    BY <1>8, ReturnsType DEF Reset
  <2>2. QED
    BY <1>1, <1>8, <2>1, EmptyArea DEF TypeOK, Reset
<1>9. CASE UNCHANGED vars
  BY <1>9 DEF IInv, TypeOK, FilledInPlace, vars
<1>10. QED
  BY <1>2, <1>3, <1>4, <1>5, <1>6, <1>7, <1>8, <1>9 DEF Next

(* The positions never leave the array and never cross, in any sequence of *)
(* calls: what check_invariants would test.                                *)
THEOREM TypeCorrect == Spec => []TypeOK
<1>1. Spec => []IInv
  BY InitInv, StepInv, PTL DEF Spec
<1>2. IInv => TypeOK
  BY DEF IInv
<1>3. QED
  BY <1>1, <1>2, PTL

-----------------------------------------------------------------------------
(* The sequences of at most Cap bytes are the strings of ByteFifo.         *)
LEMMA BoundedIsString ==
  ASSUME NEW s \in Seq(Byte), Len(s) <= Cap PROVE s \in Fifo!Strings
<1>1. s \in [1 .. Len(s) -> Byte] /\ Len(s) \in 0 .. Cap
  BY BufAssumption
<1>2. QED
  BY <1>1 DEF Fifo!Strings

(* The content and the past are windows of the array.                      *)

Window(array, lo, hi) == [i \in 1 .. hi - lo |-> array[lo + i]]

\* A window of the array is a sequence of its bytes.
LEMMA WindowType ==
  ASSUME NEW array \in [1 .. Cap -> Byte], NEW lo \in Nat, NEW hi \in Nat,
         lo <= hi, hi <= Cap
  PROVE  /\ Window(array, lo, hi) \in Seq(Byte)
         /\ Len(Window(array, lo, hi)) = hi - lo
         /\ \A i \in 1 .. hi - lo : Window(array, lo, hi)[i] = array[lo + i]
<1>1. Cap \in Nat /\ hi - lo \in Nat /\ \A i \in 1 .. hi - lo : lo + i \in 1 .. Cap
  BY BufAssumption
<1>2. Window(array, lo, hi) \in [1 .. hi - lo -> Byte]
  BY <1>1 DEF Window
<1>3. \A n \in Nat : \A f \in [1 .. n -> Byte] : f \in Seq(Byte) /\ Len(f) = n
  OBVIOUS
<1>4. QED
  BY <1>1, <1>2, <1>3 DEF Window

(* Adjacent windows.                                                       *)
LEMMA WindowConcat ==
  ASSUME NEW array \in [1 .. Cap -> Byte], NEW lo \in Nat, NEW mid \in Nat,
         NEW hi \in Nat, lo <= mid, mid <= hi, hi <= Cap,
         NEW s \in Seq(Byte), Len(s) = hi - mid,
         \A i \in 1 .. hi - mid : s[i] = array[mid + i]
  PROVE  Window(array, lo, hi) = Window(array, lo, mid) \o s
<1> DEFINE a == Window(array, lo, mid)
           t == Window(array, lo, hi)
           u == a \o s
<1>1. Cap \in Nat /\ mid <= Cap /\ lo <= hi
  BY BufAssumption
<1>2. /\ a \in Seq(Byte) /\ Len(a) = mid - lo
      /\ \A i \in 1 .. mid - lo : a[i] = array[lo + i]
  BY <1>1, WindowType
<1>3. /\ t \in Seq(Byte) /\ Len(t) = hi - lo
      /\ \A i \in 1 .. hi - lo : t[i] = array[lo + i]
  BY <1>1, WindowType
<1> HIDE DEF a, t
<1>4. /\ u \in Seq(Byte) /\ Len(u) = Len(a) + Len(s)
      /\ \A i \in 1 .. Len(a) + Len(s) :
           u[i] = IF i <= Len(a) THEN a[i] ELSE s[i - Len(a)]
  BY <1>2, ConcatProperties
<1> HIDE DEF u
<1>5. Len(t) = Len(u)
  BY <1>2, <1>3, <1>4
<1>6. ASSUME NEW i \in 1 .. Len(t) PROVE t[i] = u[i]
  <2>1. i \in 1 .. hi - lo /\ i \in 1 .. Len(a) + Len(s)
    BY <1>2, <1>3
  <2>2. t[i] = array[lo + i]
    BY <1>3, <2>1
  <2>3. CASE i <= mid - lo
    <3>1. u[i] = a[i] /\ i \in 1 .. mid - lo
      BY <1>2, <1>4, <2>1, <2>3
    <3>2. QED
      BY <1>2, <2>2, <3>1
  <2>4. CASE ~(i <= mid - lo)
    <3>1. i - (mid - lo) \in 1 .. hi - mid /\ mid + (i - (mid - lo)) = lo + i
      BY <2>1, <2>4
    <3>2. u[i] = s[i - (mid - lo)]
      BY <1>2, <1>4, <2>1, <2>4
    <3>3. s[i - (mid - lo)] = array[mid + (i - (mid - lo))]
      BY <3>1
    <3>4. QED
      BY <2>2, <3>1, <3>2, <3>3
  <2>5. QED
    BY <2>3, <2>4
<1>7. t = u
  BY <1>3, <1>4, <1>5, <1>6, SeqEqual
<1>8. QED
  BY <1>7 DEF a, t, u

\* A window is its two parts, one after the other.
LEMMA WindowSplit ==
  ASSUME NEW array \in [1 .. Cap -> Byte], NEW lo \in Nat, NEW mid \in Nat,
         NEW hi \in Nat, lo <= mid, mid <= hi, hi <= Cap
  PROVE  Window(array, lo, hi) = Window(array, lo, mid) \o Window(array, mid, hi)
<1> DEFINE s == Window(array, mid, hi)
<1>1. /\ s \in Seq(Byte) /\ Len(s) = hi - mid
      /\ \A i \in 1 .. hi - mid : s[i] = array[mid + i]
  BY WindowType
<1> HIDE DEF s
<1>2. Window(array, lo, hi) = Window(array, lo, mid) \o s
  BY <1>1, WindowConcat
<1>3. QED
  BY <1>2 DEF s

(* The content and the past as sequences.                                  *)
LEMMA ContentType ==
  ASSUME NEW b, IsBuffer(b)
  PROVE  /\ ContentOf(b) = Window(b.array, b.rp, b.wp)
         /\ PastOf(b) = Window(b.array, 0, b.rp)
         /\ ContentOf(b) \in Seq(Byte) /\ PastOf(b) \in Seq(Byte)
         /\ Len(ContentOf(b)) = b.wp - b.rp /\ Len(PastOf(b)) = b.rp
<1>1. /\ Cap \in Nat /\ b.rp \in Nat /\ b.wp \in Nat /\ b.rp <= b.wp
      /\ b.wp <= Cap /\ b.rp <= Cap /\ 0 <= b.rp /\ b.rp - 0 = b.rp
      /\ b.array \in [1 .. Cap -> Byte]
  BY BufAssumption DEF IsBuffer
<1>2. ContentOf(b) = Window(b.array, b.rp, b.wp)
  BY DEF ContentOf, Window
<1>3. PastOf(b) = Window(b.array, 0, b.rp)
  BY <1>1 DEF PastOf, Window
<1> DEFINE p == b.rp
           w == b.wp
           arr == b.array
<1>4. Window(arr, p, w) \in Seq(Byte) /\ Len(Window(arr, p, w)) = w - p
  <2> HIDE DEF p, w, arr
  <2>1. QED
    BY <1>1, WindowType DEF p, w, arr
<1>5. Window(arr, 0, p) \in Seq(Byte) /\ Len(Window(arr, 0, p)) = p - 0
  <2> HIDE DEF p, w, arr
  <2>1. QED
    BY <1>1, WindowType DEF p, w, arr
<1>6. QED
  BY <1>1, <1>2, <1>3, <1>4, <1>5

(* Bytes written behind the content are appended to it.                    *)
LEMMA Appended ==
  ASSUME NEW b, NEW c, NEW bytes \in Seq(Byte), IsBuffer(b), IsBuffer(c),
         c.rp = b.rp, c.wp = b.wp + Len(bytes),
         \A i \in 1 .. b.wp : c.array[i] = b.array[i],
         \A i \in 1 .. Len(bytes) : c.array[b.wp + i] = bytes[i]
  PROVE  ContentOf(c) = ContentOf(b) \o bytes /\ PastOf(c) = PastOf(b)
<1>1. /\ Cap \in Nat /\ b.rp \in Nat /\ b.wp \in Nat /\ b.rp <= b.wp
      /\ c.wp \in Nat /\ c.wp <= Cap /\ c.wp - b.wp = Len(bytes) /\ b.wp <= c.wp
      /\ c.array \in [1 .. Cap -> Byte]
  BY BufAssumption DEF IsBuffer
<1>2. Window(c.array, b.rp, c.wp) = Window(c.array, b.rp, b.wp) \o bytes
  <2>1. PICK arr \in [1 .. Cap -> Byte], p \in Nat, w \in Nat, v \in Nat :
          arr = c.array /\ p = b.rp /\ w = b.wp /\ v = c.wp
    BY <1>1
  <2>2. /\ p <= w /\ w <= v /\ v <= Cap /\ Len(bytes) = v - w
        /\ \A i \in 1 .. v - w : bytes[i] = arr[w + i]
    BY <1>1, <2>1
  <2>3. Window(arr, p, v) = Window(arr, p, w) \o bytes
    BY <2>2, WindowConcat
  <2>4. QED
    BY <2>1, <2>3
<1>3. Window(c.array, b.rp, b.wp) = Window(b.array, b.rp, b.wp)
  <2>1. \A i \in 1 .. b.wp - b.rp : b.rp + i \in 1 .. b.wp
    BY <1>1
  <2>2. QED
    BY <2>1 DEF Window
<1>4. PastOf(c) = PastOf(b)
  BY <1>1 DEF PastOf
<1>5. QED
  BY <1>2, <1>3, <1>4, ContentType

(* Between two read positions in the same array lie the bytes that are     *)
(* read going forward and put back going backward.                         *)
LEMMA Between ==
  ASSUME NEW b, NEW c, IsBuffer(b), IsBuffer(c), c.array = b.array,
         c.wp = b.wp, b.rp <= c.rp
  PROVE  \E bytes \in Fifo!Strings : /\ PastOf(c) = PastOf(b) \o bytes
                                    /\ ContentOf(b) = bytes \o ContentOf(c)
<1>1. PICK p \in Nat, q \in Nat, w \in Nat, arr \in [1 .. Cap -> Byte] :
        p = b.rp /\ q = c.rp /\ w = b.wp /\ arr = b.array
  BY BufAssumption DEF IsBuffer
<1>2. /\ ContentOf(b) = Window(arr, p, w) /\ PastOf(b) = Window(arr, 0, p)
      /\ ContentOf(c) = Window(arr, q, w) /\ PastOf(c) = Window(arr, 0, q)
  BY <1>1, ContentType
<1>3. Cap \in Nat /\ 0 <= p /\ p <= q /\ q <= w /\ w <= Cap /\ q <= Cap
  BY <1>1, BufAssumption DEF IsBuffer
<1>4. Window(arr, 0, q) = Window(arr, 0, p) \o Window(arr, p, q)
  BY <1>3, WindowSplit
<1>5. Window(arr, p, w) = Window(arr, p, q) \o Window(arr, q, w)
  BY <1>3, WindowSplit
<1>6. Window(arr, p, q) \in Fifo!Strings
  BY <1>3, WindowType, BoundedIsString
<1>7. QED
  BY <1>2, <1>4, <1>5, <1>6

-----------------------------------------------------------------------------
(* The buffer after the step.                                              *)
After == Buffer(buf', rp', wp')

\* The same of the variables after a step.
LEMMA AfterIsBuffer ==
  ASSUME TypeOK'
  PROVE  /\ IsBuffer(After) /\ After.array = buf'
         /\ After.rp = rp' /\ After.wp = wp'
         /\ ContentOf(After) = Content' /\ PastOf(After) = Past'
BY DEF TypeOK, IsBuffer, After, Buffer, ContentOf, PastOf, Content, Past

(* Storing bytes that fit, after making room, is a Put of ByteFifo.        *)
LEMMA StorePuts ==
  ASSUME TypeOK, TypeOK', NEW slid, Same(Current, slid), NEW bytes \in Seq(Byte),
         slid.wp + Len(bytes) <= Cap,
         rp' = slid.rp, wp' = slid.wp + Len(bytes),
         \A i \in 1 .. slid.wp : buf'[i] = slid.array[i],
         \A i \in 1 .. Len(bytes) : buf'[slid.wp + i] = bytes[i]
  PROVE  Fifo!Put(bytes)
<1>1. IsBuffer(slid) /\ ContentOf(slid) = Content /\ PastOf(slid) \in {Past, <<>>}
  BY CurrentIsBuffer DEF Same
<1>2. Content' = ContentOf(slid) \o bytes /\ Past' = PastOf(slid)
  BY <1>1, AfterIsBuffer, Appended
<1>3. Len(ContentOf(slid)) + Len(bytes) <= Cap
  <2>1. /\ Len(ContentOf(slid)) = slid.wp - slid.rp /\ slid.wp \in Nat
        /\ slid.rp \in Nat /\ Cap \in Nat /\ Len(bytes) \in Nat
    BY <1>1, ContentType, BufAssumption DEF IsBuffer
  <2>2. QED
    BY <2>1
<1>4. QED
  BY <1>1, <1>2, <1>3 DEF Fifo!Put

(* Moving within the array and refusing to write is a Refuse of ByteFifo.  *)
LEMMA RoomRefuses ==
  ASSUME TypeOK, TypeOK', NEW slid, Same(Current, slid), Become(slid), filled' = <<>>
  PROVE  Fifo!Refuse
<1>1. ContentOf(slid) = Content /\ PastOf(slid) \in {Past, <<>>}
  BY CurrentIsBuffer DEF Same
<1>2. ContentOf(slid) = Content' /\ PastOf(slid) = Past'
  BY DEF Become, ContentOf, PastOf, Content, Past
<1>3. QED
  BY <1>1, <1>2 DEF Fifo!Refuse

(* Moving the read position alone is a Read, an Unread or nothing.         *)
LEMMA MovesRead ==
  ASSUME TypeOK, TypeOK', filled' = <<>>, UNCHANGED <<buf, wp>>
  PROVE  Fifo!Read \/ Fifo!Unread
<1>1. rp \in Nat /\ rp' \in Nat
  BY BufAssumption DEF TypeOK
<1>2. /\ IsBuffer(Current) /\ IsBuffer(After) /\ After.array = Current.array
      /\ After.wp = Current.wp /\ Current.rp = rp /\ After.rp = rp'
      /\ ContentOf(Current) = Content /\ PastOf(Current) = Past
      /\ ContentOf(After) = Content' /\ PastOf(After) = Past'
  BY CurrentIsBuffer, AfterIsBuffer
<1>3. CASE rp <= rp'
  BY <1>2, <1>3, Between DEF Fifo!Read
<1>4. CASE rp' <= rp
  BY <1>2, <1>4, Between DEF Fifo!Unread
<1>5. QED
  BY <1>1, <1>3, <1>4

(* Every call of the buffer is a step of ByteFifo.                         *)
LEMMA FifoStep == IInv /\ IInv' /\ [Next]_vars => [Fifo!Next]_(Fifo!vars)
<1> SUFFICES ASSUME IInv, IInv', [Next]_vars PROVE [Fifo!Next]_(Fifo!vars)
  OBVIOUS
<1> USE DEF Fifo!Next
<1>1. /\ Cap \in Nat /\ MaxLen \in Nat /\ wp \in Nat /\ filled \in Seq(Byte)
      /\ Len(filled) \in Nat /\ wp + Len(filled) <= Cap /\ TypeOK /\ TypeOK'
  BY BufAssumption DEF IInv, TypeOK, FilledInPlace
<1>2. CASE Put
  <2>1. PICK bytes \in Strings :
          LET slid == MakeRoom(Current, Len(bytes)) IN
            /\ IF Cap - slid.wp < Len(bytes)
               THEN /\ Become(slid)
                    /\ Returns("write", Len(bytes), "NotEnoughSpace")
               ELSE /\ Become(Buffer(Overwritten(slid.array, slid.wp, bytes),
                                     slid.rp, slid.wp + Len(bytes)))
                    /\ Returns("write", Len(bytes), "Ok")
            /\ filled' = <<>>
    BY <1>2 DEF Put
  <2> DEFINE slid == MakeRoom(Current, Len(bytes))
             array == Overwritten(slid.array, slid.wp, bytes)
  <2>2. bytes \in Seq(Byte) /\ Len(bytes) \in Nat
    BY StringsAreSequences
  <2>3. Same(Current, slid) /\ IsBuffer(slid)
    BY <1>1, <2>2, CurrentIsBuffer, MakeRoomKeeps DEF Same
  <2> HIDE DEF slid
  <2>4. CASE Cap - slid.wp < Len(bytes)
    <3>1. Become(slid) /\ filled' = <<>>
      BY <2>1, <2>4 DEF slid
    <3>2. QED
      BY <1>1, <2>3, <3>1, RoomRefuses
  <2>5. CASE ~(Cap - slid.wp < Len(bytes))
    <3>1. Become(Buffer(array, slid.rp, slid.wp + Len(bytes))) /\ filled' = <<>>
      BY <2>1, <2>5 DEF slid
    <3>2. buf' = array /\ rp' = slid.rp /\ wp' = slid.wp + Len(bytes)
      BY <3>1 DEF Become, Buffer
    <3>3. slid.wp \in Nat /\ slid.wp + Len(bytes) <= Cap /\ Len(bytes) <= Cap
      BY <1>1, <2>2, <2>3, <2>5 DEF IsBuffer
    <3>4. /\ \A i \in 1 .. slid.wp : array[i] = slid.array[i]
          /\ \A i \in 1 .. Len(bytes) : array[slid.wp + i] = bytes[i]
      BY <2>2, <2>3, <3>3, OverwriteKeeps
    <3> HIDE DEF array
    <3>5. Fifo!Put(bytes)
      BY <1>1, <2>2, <2>3, <3>2, <3>3, <3>4, StorePuts
    <3>6. bytes \in Fifo!Strings
      BY <2>2, <3>3, BoundedIsString
    <3>7. QED
      BY <3>1, <3>5, <3>6 DEF Fifo!Write
  <2>6. QED
    BY <2>4, <2>5
<1>3. CASE AvailableWritableArea
  <2>1. PICK need \in 0 .. MaxLen :
          LET slid == MakeRoom(Current, need) IN
            IF Cap - slid.wp < need
            THEN /\ Become(slid)
                 /\ Returns("write", need, "NotEnoughSpace")
                 /\ filled' = <<>>
            ELSE \E bytes \in Strings :
                   /\ Len(bytes) <= Cap - slid.wp
                   /\ Become(Buffer(Overwritten(slid.array, slid.wp, bytes),
                                    slid.rp, slid.wp))
                   /\ filled' = bytes
                   /\ Returns("write", need, "Ok")
    BY <1>3 DEF AvailableWritableArea
  <2> DEFINE slid == MakeRoom(Current, need)
  <2>2. Same(Current, slid) /\ IsBuffer(slid)
    <3>1. need \in Nat
      BY <1>1
    <3>2. QED
      BY <1>1, <3>1, CurrentIsBuffer, MakeRoomKeeps DEF Same
  <2> HIDE DEF slid
  <2>3. CASE Cap - slid.wp < need
    <3>1. Become(slid) /\ filled' = <<>>
      BY <2>1, <2>3 DEF slid
    <3>2. QED
      BY <1>1, <2>2, <3>1, RoomRefuses
  <2>4. CASE ~(Cap - slid.wp < need)
    <3>1. PICK bytes \in Strings :
            /\ Len(bytes) <= Cap - slid.wp
            /\ Become(Buffer(Overwritten(slid.array, slid.wp, bytes), slid.rp, slid.wp))
            /\ filled' = bytes
      BY <2>1, <2>4 DEF slid
    <3> DEFINE array == Overwritten(slid.array, slid.wp, bytes)
    <3>2. bytes \in Seq(Byte) /\ Len(bytes) \in Nat
      BY StringsAreSequences
    <3>3. buf' = array /\ rp' = slid.rp /\ wp' = slid.wp
      BY <3>1 DEF Become, Buffer
    <3>4. /\ slid.wp \in Nat /\ slid.rp \in Nat /\ slid.wp + Len(bytes) <= Cap
          /\ Len(bytes) <= Cap /\ (slid.wp - slid.rp) + Len(bytes) <= Cap
      BY <1>1, <2>2, <3>1, <3>2 DEF IsBuffer
    <3>5. \A i \in 1 .. slid.wp : array[i] = slid.array[i]
      BY <2>2, <3>2, <3>4, OverwriteKeeps
    <3> HIDE DEF array
    <3>6. Content' = ContentOf(slid) /\ Past' = PastOf(slid)
      <4>1. /\ \A i \in 1 .. slid.wp - slid.rp : slid.rp + i \in 1 .. slid.wp
            /\ \A i \in 1 .. slid.rp : i \in 1 .. slid.wp
        BY <2>2, <3>4 DEF IsBuffer
      <4>2. QED
        BY <3>3, <3>5, <4>1 DEF Content, Past, ContentOf, PastOf
    <3>7. ContentOf(slid) = Content /\ PastOf(slid) \in {Past, <<>>}
      BY <1>1, <2>2, CurrentIsBuffer DEF Same
    <3>8. Len(Content) + Len(filled') <= Cap
      BY <2>2, <3>1, <3>4, <3>7, ContentType
    <3>9. filled' \in Fifo!Strings
      BY <3>1, <3>2, <3>4, BoundedIsString
    <3>10. Fifo!Fill
      BY <3>6, <3>7, <3>8, <3>9 DEF Fifo!Fill
    <3>11. QED
      BY <3>10
  <2>5. QED
    BY <2>3, <2>4
<1>4. CASE Wadv
  <2>1. /\ buf' = buf /\ rp' = rp /\ wp' = wp + Len(filled) /\ filled' = <<>>
    BY <1>1, <1>4 DEF Wadv, Become, Buffer, Current
  <2>2. Same(Current, Current) /\ Current.wp = wp /\ Current.rp = rp /\ Current.array = buf
    BY <1>1, CurrentIsBuffer DEF Same
  <2>3. \A i \in 1 .. Len(filled) : buf'[wp + i] = filled[i]
    BY <2>1 DEF IInv, FilledInPlace
  <2>4. Fifo!Put(filled)
    BY <1>1, <2>1, <2>2, <2>3, StorePuts
  <2>5. QED
    BY <2>1, <2>4 DEF Fifo!Commit
<1>5. CASE Read \/ SetRp \/ RewindRp
  BY <1>1, <1>5, MovesRead DEF Read, SetRp, RewindRp
<1>6. CASE Reset
  <2>1. Past' = <<>> /\ Content' = <<>> /\ filled' = <<>>
    BY <1>6 DEF Reset, Past, Content
  <2>2. QED
    BY <2>1 DEF Fifo!Reset
<1>7. CASE UNCHANGED vars
  BY <1>7 DEF vars, Fifo!vars, Content, Past
<1>8. QED
  BY <1>2, <1>3, <1>4, <1>5, <1>6, <1>7 DEF Next

\* The empty buffer is the empty FIFO.
LEMMA FifoInit == Init => Fifo!Init
BY DEF Init, Fifo!Init, Content, Past

(* The buffer implements the FIFO: the bytes read are the bytes written,   *)
(* in order and each once, however the content slides.                     *)
THEOREM FifoCorrect == Spec => ImplementsFifo
<1>1. Spec => []IInv
  BY InitInv, StepInv, PTL DEF Spec
<1>2. Spec => Fifo!Spec
  BY <1>1, FifoInit, FifoStep, PTL DEF Spec, Fifo!Spec
<1>3. QED
  BY <1>2 DEF ImplementsFifo

-----------------------------------------------------------------------------
(* A refused write would not have fitted: making room uses all of it.      *)
LEMMA RefuseStep == IInv /\ [Next]_vars /\ RefusesOnlyWhenFull => RefusesOnlyWhenFull'
<1> SUFFICES ASSUME IInv, [Next]_vars, RefusesOnlyWhenFull
             PROVE  RefusesOnlyWhenFull'
  OBVIOUS
<1>1. /\ Cap \in Nat /\ MaxLen \in Nat /\ wp \in Nat /\ rp \in Nat /\ TypeOK
      /\ wp + Len(filled) <= Cap /\ Len(filled) \in Nat /\ filled \in Seq(Byte)
  BY BufAssumption DEF IInv, TypeOK, FilledInPlace
<1>2. \A need \in Nat : LET slid == MakeRoom(Current, need) IN
        Cap - slid.wp < need /\ Become(slid) /\ Returns("write", need, "NotEnoughSpace")
          => RefusesOnlyWhenFull'
  <2> TAKE need \in Nat
  <2> DEFINE slid == MakeRoom(Current, need)
  <2>1. /\ slid.wp - slid.rp = wp - rp
        /\ Cap - slid.wp < need => wp - rp + need > Cap
    BY <1>1, CurrentIsBuffer, MakeRoomKeeps
  <2> HIDE DEF slid
  <2>2. ASSUME Cap - slid.wp < need, Become(slid), Returns("write", need, "NotEnoughSpace")
        PROVE  RefusesOnlyWhenFull'
    BY <2>1, <2>2 DEF RefusesOnlyWhenFull, Become, Returns
  <2>3. QED
    BY <2>2 DEF slid
<1>3. ASSUME NEW call, NEW n, Returns(call, n, "Ok") PROVE RefusesOnlyWhenFull'
  BY <1>3 DEF Returns, RefusesOnlyWhenFull
<1>4. ASSUME NEW n, NEW result, Returns("seek", n, result) PROVE RefusesOnlyWhenFull'
  BY <1>4 DEF Returns, RefusesOnlyWhenFull
<1>5. CASE Put
  <2>1. \A s \in Strings : Len(s) \in Nat
    BY StringsAreSequences
  <2>2. QED
    BY <1>2, <1>3, <1>5, <2>1 DEF Put
<1>6. CASE AvailableWritableArea
  <2>1. 0 .. MaxLen \subseteq Nat
    BY <1>1
  <2>2. QED
    BY <1>2, <1>3, <1>6, <2>1 DEF AvailableWritableArea
<1>7. CASE Wadv
  <2>1. ~(Cap - wp < Len(filled))
    BY <1>1
  <2>2. Returns("write", Len(filled), "Ok")
    BY <1>7, <2>1 DEF Wadv, Current, Buffer
  <2>3. QED
    BY <1>3, <2>2
<1>8. CASE Read
  <2>1. PICK n \in 0 .. MaxLen :
          /\ IF HasBytes(n)
             THEN rp' = rp + n /\ Returns("read", n, "Ok")
             ELSE rp' = rp /\ Returns("read", n, "NotEnoughBytes")
          /\ wp' = wp
    BY <1>8 DEF Read
  <2>2. CASE HasBytes(n)
    BY <1>3, <2>1, <2>2
  <2>3. CASE ~HasBytes(n)
    BY <1>1, <2>1, <2>3 DEF HasBytes, Returns, RefusesOnlyWhenFull
  <2>4. QED
    BY <2>2, <2>3
<1>9. CASE SetRp \/ RewindRp \/ Reset
  BY <1>4, <1>9 DEF SetRp, RewindRp, Reset
<1>10. CASE UNCHANGED vars
  BY <1>10 DEF vars, RefusesOnlyWhenFull
<1>11. QED
  BY <1>5, <1>6, <1>7, <1>8, <1>9, <1>10 DEF Next

(* Only lack of room or of bytes makes a call fail, in any sequence of     *)
(* calls.                                                                  *)
THEOREM RefusalsCorrect == Spec => []RefusesOnlyWhenFull
<1>1. Spec => []IInv
  BY InitInv, StepInv, PTL DEF Spec
<1>2. Init => RefusesOnlyWhenFull
  BY DEF Init, RefusesOnlyWhenFull
<1>3. QED
  BY <1>1, <1>2, RefuseStep, PTL DEF Spec

-----------------------------------------------------------------------------
(***************************************************************************)
(* The ZMTP stream.                                                        *)
(***************************************************************************)

(* A set of numbers that is not empty has a least one.                      *)
LEMMA LeastNatural ==
  ASSUME NEW S, S \subseteq Nat, S # {}
  PROVE  \E n \in S : \A m \in S : n <= m
<1> DEFINE less == {p \in Nat \X Nat : p[1] < p[2]}
<1>1. IsWellFoundedOn(less, Nat)
  BY NatLessThanWellFounded DEF OpToRel
<1>2. \A m, n \in Nat : <<m, n>> \notin less => n <= m
  OBVIOUS
<1> HIDE DEF less
<1>3. PICK n \in S : \A m \in S : <<m, n>> \notin less
  BY <1>1, WFMin
<1>. QED BY <1>2, <1>3

GreetingStates == {"InitSend", "InitRecv1", "InitRecv2", "InitRecv3", "InitRecv4", "InitRecv5"}

\* The states of a frame whose flags are read.
InFrame == {"ReadFrameShort", "ReadFrameLong", "ReadFrameBody"}

(* The states of the greeting and of a frame, and that each needs bytes,    *)
(* never more than the buffer holds.                                        *)
LEMMA StatesAre ==
  /\ DOMAIN Need = {"InitRecv1", "InitRecv2", "InitRecv3", "InitRecv4", "InitRecv5",
                    "ReadFrameFlags", "ReadFrameShort", "ReadFrameLong"}
  /\ \A s \in DOMAIN Need : Need[s] \in Nat \ {0} /\ Need[s] <= BufCap
  /\ States = GreetingStates \cup InFrame \cup {"ReadFrameFlags"}
<1>1. {Greeting[i] : i \in 1 .. 5} = {"InitRecv1", "InitRecv2", "InitRecv3", "InitRecv4", "InitRecv5"}
  <2>1. \A i \in 1 .. 5 : i = 1 \/ i = 2 \/ i = 3 \/ i = 4 \/ i = 5
    OBVIOUS
  <2>2. /\ Greeting[1] = "InitRecv1" /\ Greeting[2] = "InitRecv2" /\ Greeting[3] = "InitRecv3"
        /\ Greeting[4] = "InitRecv4" /\ Greeting[5] = "InitRecv5"
    BY DEF Greeting
  <2>3. 1 \in 1 .. 5 /\ 2 \in 1 .. 5 /\ 3 \in 1 .. 5 /\ 4 \in 1 .. 5 /\ 5 \in 1 .. 5
    OBVIOUS
  <2>. QED BY <2>1, <2>2, <2>3
<1>2. DOMAIN Need = {Greeting[i] : i \in 1 .. 5} \cup FrameStates
  BY ZmtpAssumption
<1>3. \A s \in DOMAIN Need : Need[s] \in Nat \ {0} /\ 2 * Need[s] <= BufCap
  BY ZmtpAssumption
<1>4. BufCap \in Nat
  BY ZmtpAssumption
<1>. QED BY <1>1, <1>2, <1>3, <1>4 DEF States, GreetingStates, InFrame, FrameStates

-----------------------------------------------------------------------------
(* Where frames end.                                                        *)
StreamType == stream \in Seq(Kinds) /\ reject \in Rejects

(* A frame is its flags, its length field and its body.                     *)
LEMMA LengthType ==
  ASSUME NEW k \in Kinds
  PROVE  Length(k) \in Nat /\ k.size \in Nat /\ k.cmd \in BOOLEAN /\ k.more \in BOOLEAN
         /\ Length(k) = Need["ReadFrameFlags"] + Need[SizeState(k)] + k.size
         /\ SizeState(k) \in {"ReadFrameShort", "ReadFrameLong"}
<1>1. k \in [cmd : BOOLEAN, more : BOOLEAN, long : BOOLEAN, ping : BOOLEAN, size : Nat]
  BY DEF Kinds
<1>2. SizeState(k) \in {"ReadFrameShort", "ReadFrameLong"}
  BY DEF SizeState
<1>3. Need["ReadFrameFlags"] \in Nat /\ Need[SizeState(k)] \in Nat
  BY <1>2, StatesAre
<1>4. Length(k) = Need["ReadFrameFlags"] + Need[SizeState(k)] + k.size
  BY DEF Length, SizeState
<1>. QED BY <1>1, <1>2, <1>3, <1>4

EndsUpTo(n, e) ==
  /\ e \in [0 .. n -> Nat]
  /\ e[0] = GreetingLen
  /\ \A i \in 1 .. n : e[i] = e[i - 1] + Length(stream[i])

(* The ends of the first frames can be found one after the other.           *)
LEMMA EndsExist ==
  ASSUME StreamType, NEW n \in 0 .. Len(stream)
  PROVE  \E e : EndsUpTo(n, e)
<1>. DEFINE Bad == {m \in 0 .. Len(stream) : ~\E e : EndsUpTo(m, e)}
<1>1. Len(stream) \in Nat /\ \A i \in 1 .. Len(stream) : stream[i] \in Kinds
  BY ElementOfSeq DEF StreamType
<1>2. \A i \in 1 .. Len(stream) : Length(stream[i]) \in Nat
  BY <1>1, LengthType
<1>3. GreetingLen \in Nat
  BY StatesAre DEF GreetingLen
<1>. SUFFICES ASSUME Bad # {} PROVE FALSE
  OBVIOUS
<1>4. PICK m \in Bad : \A l \in Bad : m <= l
  <2>1. Bad \subseteq Nat
    BY <1>1
  <2>. HIDE DEF Bad
  <2>. QED BY <2>1, LeastNatural
<1>5. CASE m = 0
  <2>1. EndsUpTo(0, [i \in 0 .. 0 |-> GreetingLen])
    BY <1>3 DEF EndsUpTo
  <2>. QED BY <1>4, <1>5, <2>1
<1>6. CASE m # 0
  <2>1. m \in Nat /\ m - 1 \in 0 .. Len(stream) /\ m \in 1 .. Len(stream) /\ m - 1 \notin Bad
    BY <1>1, <1>4, <1>6
  <2>2. PICK d : EndsUpTo(m - 1, d)
    BY <2>1
  <2>. DEFINE x == d[m - 1] + Length(stream[m])
              e == [i \in 0 .. m |-> IF i = m THEN x ELSE d[i]]
  <2>3. d[m - 1] \in Nat
    <3>1. m - 1 \in 0 .. m - 1
      BY <2>1
    <3>. QED BY <2>2, <3>1 DEF EndsUpTo
  <2>4. x \in Nat
    BY <1>2, <2>1, <2>3
  <2>. HIDE DEF x
  <2>5. /\ \A i \in 0 .. m : i = m \/ i \in 0 .. m - 1
        /\ 0 \in 0 .. m /\ 0 \in 0 .. m - 1 /\ m \in 0 .. m /\ 0 # m
        /\ \A i \in 0 .. m - 1 : i \in 0 .. m /\ i # m
        /\ \A i \in 1 .. m : i - 1 \in 0 .. m - 1 /\ (i = m \/ i \in 1 .. m - 1)
        /\ \A i \in 1 .. m - 1 : i \in 0 .. m - 1
    BY <2>1
  <2>6. e \in [0 .. m -> Nat]
    BY <2>2, <2>4, <2>5 DEF EndsUpTo
  <2>7. e[m] = x /\ \A i \in 0 .. m - 1 : e[i] = d[i]
    BY <2>5
  <2>. HIDE DEF e
  <2>8. e[0] = GreetingLen
    BY <2>2, <2>5, <2>7 DEF EndsUpTo
  <2>9. \A i \in 1 .. m : e[i] = e[i - 1] + Length(stream[i])
    BY <2>2, <2>5, <2>7 DEF EndsUpTo, x
  <2>10. EndsUpTo(m, e)
    BY <2>6, <2>8, <2>9 DEF EndsUpTo
  <2>. QED BY <1>4, <2>10
<1>. QED BY <1>5, <1>6

(* Where frames end, and where the stream does.                             *)
LEMMA EndType ==
  ASSUME StreamType
  PROVE  /\ Len(stream) \in Nat /\ Total \in Nat
         /\ \A i \in 0 .. Len(stream) : End[i] \in Nat
         /\ End[0] = GreetingLen
         /\ \A i \in 1 .. Len(stream) : End[i] = End[i - 1] + Length(stream[i])
<1>. DEFINE n == Len(stream)
            Eq(f) == f = [i \in 0 .. n |-> IF i = 0 THEN GreetingLen
                                           ELSE f[i - 1] + Length(stream[i])]
            g == CHOOSE f : Eq(f)
<1>1. n \in Nat
  BY DEF StreamType
<1>2. PICK e : EndsUpTo(n, e)
  BY <1>1, EndsExist
<1>3. \A i \in 0 .. n : i # 0 => i \in 1 .. n
  BY <1>1
<1>4. Eq(e)
  <2>1. \A i \in 0 .. n : e[i] = IF i = 0 THEN GreetingLen ELSE e[i - 1] + Length(stream[i])
    BY <1>2, <1>3 DEF EndsUpTo
  <2>2. e = [i \in 0 .. n |-> e[i]]
    BY <1>2 DEF EndsUpTo
  <2>. QED BY <2>1, <2>2
<1>5. Eq(g)
  <2>. HIDE DEF Eq
  <2>. QED BY <1>4
<1>6. g = [i \in 0 .. n |-> IF i = 0 THEN GreetingLen ELSE g[i - 1] + Length(stream[i])]
  BY <1>5
<1>7. End = g
  BY DEF End
<1>. HIDE DEF g
<1>8. \A i \in 0 .. n : g[i] = IF i = 0 THEN GreetingLen ELSE g[i - 1] + Length(stream[i])
  BY ONLY <1>6
<1>9. g[0] = GreetingLen /\ \A i \in 1 .. n : g[i] = g[i - 1] + Length(stream[i])
  <2>1. 0 \in 0 .. n /\ \A i \in 1 .. n : i \in 0 .. n /\ i # 0
    BY <1>1
  <2>. QED BY <2>1, <1>8
<1>10. \A i \in 0 .. n : g[i] \in Nat
  <2>. DEFINE Bad == {i \in 0 .. n : g[i] \notin Nat}
  <2>. SUFFICES ASSUME Bad # {} PROVE FALSE
    OBVIOUS
  <2>1. PICK i \in Bad : \A j \in Bad : i <= j
    <3>1. Bad \subseteq Nat
      BY <1>1
    <3>. HIDE DEF Bad
    <3>. QED BY <3>1, LeastNatural
  <2>2. GreetingLen \in Nat
    BY StatesAre DEF GreetingLen
  <2>3. i # 0
    BY <2>1, <2>2, <1>9
  <2>4. i \in 1 .. n /\ i - 1 \in 0 .. n /\ i - 1 \notin Bad
    BY <1>1, <2>1, <2>3
  <2>5. stream[i] \in Kinds
    BY <2>4, ElementOfSeq DEF StreamType
  <2>6. Length(stream[i]) \in Nat
    BY <2>5, LengthType
  <2>7. g[i - 1] \in Nat /\ g[i] = g[i - 1] + Length(stream[i])
    BY <1>9, <2>4
  <2>. QED BY <2>1, <2>6, <2>7
<1>11. n \in 0 .. n
  BY <1>1
<1>. QED BY <1>1, <1>7, <1>9, <1>10, <1>11 DEF Total

-----------------------------------------------------------------------------
(* The frames that belong to messages.                                      *)
DataOf(s, n, f) ==
  /\ f[0] = <<>> /\ DOMAIN f = 0 .. n
  /\ \A i \in 1 .. n : f[i] = IF s[i].cmd THEN f[i - 1] ELSE Append(f[i - 1], i)

\* One by one they can be put together.
LEMMA DataExist ==
  ASSUME NEW s \in Seq(Kinds), NEW n \in 0 .. Len(s)
  PROVE  \E f : DataOf(s, n, f)
<1>. DEFINE Bad == {m \in 0 .. Len(s) : ~\E f : DataOf(s, m, f)}
<1>. SUFFICES ASSUME Bad # {} PROVE FALSE
  OBVIOUS
<1>1. PICK m \in Bad : \A l \in Bad : m <= l
  <2>1. Bad \subseteq Nat
    OBVIOUS
  <2>. HIDE DEF Bad
  <2>. QED BY <2>1, LeastNatural
<1>2. CASE m = 0
  <2>1. DataOf(s, 0, [i \in 0 .. 0 |-> <<>>])
    BY DEF DataOf
  <2>. QED BY <1>1, <1>2, <2>1
<1>3. CASE m # 0
  <2>1. m \in Nat /\ m - 1 \in 0 .. Len(s) /\ m - 1 \notin Bad
    BY <1>1, <1>3
  <2>2. PICK d : DataOf(s, m - 1, d)
    BY <2>1
  <2>. DEFINE x == IF s[m].cmd THEN d[m - 1] ELSE Append(d[m - 1], m)
              e == [i \in 0 .. m |-> IF i = m THEN x ELSE d[i]]
  <2>3. /\ 0 \in 0 .. m /\ 0 \in 0 .. m - 1 /\ m \in 0 .. m
        /\ \A i \in 0 .. m - 1 : i \in 0 .. m /\ i # m
        /\ \A i \in 1 .. m : i - 1 \in 0 .. m - 1 /\ (i = m \/ i \in 1 .. m - 1)
        /\ \A i \in 1 .. m - 1 : i \in 0 .. m - 1
    BY <1>1, <1>3, <2>1
  <2>. HIDE DEF x
  <2>4. DOMAIN e = 0 .. m /\ e[m] = x /\ \A i \in 0 .. m - 1 : e[i] = d[i]
    BY <2>3
  <2>. HIDE DEF e
  <2>5. e[0] = <<>>
    BY <2>2, <2>3, <2>4 DEF DataOf
  <2>6. \A i \in 1 .. m : e[i] = IF s[i].cmd THEN e[i - 1] ELSE Append(e[i - 1], i)
    <3>1. e[m] = IF s[m].cmd THEN e[m - 1] ELSE Append(e[m - 1], m)
      <4>1. m - 1 \in 0 .. m - 1
        BY <2>1
      <4>. QED BY <4>1, <2>4 DEF x
    <3>2. ASSUME NEW i \in 1 .. m - 1
          PROVE  e[i] = IF s[i].cmd THEN e[i - 1] ELSE Append(e[i - 1], i)
      <4>1. i \in 0 .. m - 1 /\ i - 1 \in 0 .. m - 1
        BY <2>1
      <4>. QED BY <4>1, <2>2, <2>4 DEF DataOf
    <3>. QED BY <2>3, <3>1, <3>2
  <2>7. DataOf(s, m, e)
    BY <2>4, <2>5, <2>6 DEF DataOf
  <2>. QED BY <1>1, <2>7
<1>. QED BY <1>2, <1>3

\* What the frames of messages are among the first ones.
LEMMA DataIs ==
  ASSUME NEW s \in Seq(Kinds)
  PROVE  DataOf(s, Len(s), DataUpto(s))
<1>. DEFINE n == Len(s)
            Eq(f) == f = [i \in 0 .. n |-> IF i = 0 THEN <<>>
                                           ELSE IF s[i].cmd THEN f[i - 1] ELSE Append(f[i - 1], i)]
            g == CHOOSE f : Eq(f)
<1>1. n \in Nat
  OBVIOUS
<1>2. PICK e : DataOf(s, n, e)
  BY <1>1, DataExist
<1>3. \A i \in 0 .. n : i # 0 => i \in 1 .. n
  BY <1>1
<1>4. \E f : Eq(f)
  <2>. DEFINE f == [i \in 0 .. n |-> e[i]]
  <2>1. \A i \in 0 .. n : e[i] = IF i = 0 THEN <<>>
                                ELSE IF s[i].cmd THEN e[i - 1] ELSE Append(e[i - 1], i)
    BY <1>2, <1>3 DEF DataOf
  <2>2. \A i \in 0 .. n : f[i] = e[i] /\ (i # 0 => f[i - 1] = e[i - 1])
    <3>1. \A i \in 0 .. n : i # 0 => i - 1 \in 0 .. n
      BY <1>1
    <3>. QED BY <3>1
  <2>3. f = [i \in 0 .. n |-> f[i]]
    OBVIOUS
  <2>. HIDE DEF f
  <2>4. \A i \in 0 .. n : f[i] = IF i = 0 THEN <<>>
                                ELSE IF s[i].cmd THEN f[i - 1] ELSE Append(f[i - 1], i)
    BY <2>1, <2>2
  <2>5. Eq(f)
    BY <2>3, <2>4
  <2>. HIDE DEF Eq
  <2>. QED BY <2>5
<1>5. Eq(g)
  <2>. HIDE DEF Eq
  <2>. QED BY <1>4
<1>6. g = [i \in 0 .. n |-> IF i = 0 THEN <<>>
                            ELSE IF s[i].cmd THEN g[i - 1] ELSE Append(g[i - 1], i)]
  BY <1>5
<1>7. DataUpto(s) = g
  BY DEF DataUpto
<1>. HIDE DEF g
<1>8. /\ DOMAIN g = 0 .. n
      /\ \A i \in 0 .. n : g[i] = IF i = 0 THEN <<>>
                                  ELSE IF s[i].cmd THEN g[i - 1] ELSE Append(g[i - 1], i)
  BY ONLY <1>6
<1>9. 0 \in 0 .. n /\ \A i \in 1 .. n : i \in 0 .. n /\ i # 0
  BY <1>1
<1>. QED BY <1>7, <1>8, <1>9 DEF DataOf

\* Events: each some frames.
Events == Seq(Seq(Nat))

InMessagesOf(s, events, n, f) ==
  /\ f \in [0 .. n -> Seq(Nat)]
  /\ f[0] = <<>>
  /\ \A i \in 1 .. n :
       f[i] = IF IsMessage(s, events[i]) THEN f[i - 1] \o events[i] ELSE f[i - 1]

(* The frames of the messages among some events can be put together.        *)
LEMMA InMessagesExist ==
  ASSUME NEW s, NEW events \in Events, NEW n \in 0 .. Len(events)
  PROVE  \E f : InMessagesOf(s, events, n, f)
<1>. DEFINE Bad == {m \in 0 .. Len(events) : ~\E f : InMessagesOf(s, events, m, f)}
<1>. SUFFICES ASSUME Bad # {} PROVE FALSE
  OBVIOUS
<1>0. Len(events) \in Nat /\ \A i \in 1 .. Len(events) : events[i] \in Seq(Nat)
  BY ElementOfSeq DEF Events
<1>1. PICK m \in Bad : \A l \in Bad : m <= l
  <2>1. Bad \subseteq Nat
    BY <1>0
  <2>. HIDE DEF Bad
  <2>. QED BY <2>1, LeastNatural
<1>2. CASE m = 0
  <2>1. InMessagesOf(s, events, 0, [i \in 0 .. 0 |-> <<>>])
    BY DEF InMessagesOf
  <2>. QED BY <2>1, <1>1, <1>2
<1>3. CASE m # 0
  <2>1. m - 1 \in Nat /\ m - 1 \in 0 .. Len(events) /\ m - 1 \notin Bad /\ m \in 1 .. Len(events)
    <3>1. m \in 0 .. Len(events)
      BY <1>1
    <3>2. m - 1 \in Nat /\ m - 1 \in 0 .. Len(events) /\ m \in 1 .. Len(events) /\ ~(m <= m - 1)
      BY <3>1, <1>0, <1>3
    <3>. HIDE DEF Bad
    <3>. QED BY <3>2, <1>1
  <2>2. PICK d : InMessagesOf(s, events, m - 1, d)
    BY <2>1
  <2>. DEFINE x == IF IsMessage(s, events[m]) THEN d[m - 1] \o events[m] ELSE d[m - 1]
              g == [i \in 0 .. m |-> IF i = m THEN x ELSE d[i]]
  <2>3. x \in Seq(Nat)
    <3>1. m - 1 \in 0 .. m - 1
      BY <2>1
    <3>2. d[m - 1] \in Seq(Nat)
      BY <2>2, <3>1 DEF InMessagesOf
    <3>3. events[m] \in Seq(Nat)
      BY <2>1, <1>0
    <3>4. d[m - 1] \o events[m] \in Seq(Nat)
      BY <3>2, <3>3, ConcatProperties
    <3>. QED BY <3>2, <3>4
  <2>. HIDE DEF x
  <2>4. /\ \A i \in 0 .. m : i = m \/ i \in 0 .. m - 1
        /\ 0 \in 0 .. m /\ 0 \in 0 .. m - 1 /\ m \in 0 .. m
        /\ \A i \in 0 .. m - 1 : i \in 0 .. m /\ i # m
        /\ \A i \in 1 .. m : i - 1 \in 0 .. m - 1 /\ (i = m \/ i \in 1 .. m - 1)
        /\ \A i \in 1 .. m - 1 : i \in 0 .. m - 1
    BY <2>1
  <2>5. g \in [0 .. m -> Seq(Nat)]
    BY <2>2, <2>3, <2>4 DEF InMessagesOf
  <2>6. g[m] = x /\ \A i \in 0 .. m - 1 : g[i] = d[i]
    BY <2>4
  <2>. HIDE DEF g
  <2>7. g[0] = <<>>
    BY <2>2, <2>4, <2>6 DEF InMessagesOf
  <2>8. g[m] = IF IsMessage(s, events[m]) THEN g[m - 1] \o events[m] ELSE g[m - 1]
    <3>1. m - 1 \in 0 .. m - 1
      BY <2>1
    <3>. QED BY <3>1, <2>6 DEF x
  <2>9. ASSUME NEW i \in 1 .. m - 1
        PROVE  g[i] = IF IsMessage(s, events[i]) THEN g[i - 1] \o events[i] ELSE g[i - 1]
    <3>1. i \in 0 .. m - 1 /\ i - 1 \in 0 .. m - 1
      BY <2>1
    <3>. QED BY <3>1, <2>2, <2>6 DEF InMessagesOf
  <2>10. \A i \in 1 .. m :
           g[i] = IF IsMessage(s, events[i]) THEN g[i - 1] \o events[i] ELSE g[i - 1]
    BY <2>4, <2>8, <2>9
  <2>. QED BY <2>5, <2>7, <2>10, <1>1 DEF InMessagesOf
<1>. QED BY <1>2, <1>3

(* They depend on these events alone.                                       *)
LEMMA InMessagesUnique ==
  ASSUME NEW s, NEW xs, NEW ys, NEW n \in Nat, NEW f, NEW g,
         InMessagesOf(s, xs, n, f), InMessagesOf(s, ys, n, g),
         \A i \in 1 .. n : xs[i] = ys[i]
  PROVE  f[n] = g[n]
<1>. DEFINE Bad == {m \in 0 .. n : f[m] # g[m]}
<1>1. Bad = {}
  <2>. SUFFICES ASSUME Bad # {} PROVE FALSE
    OBVIOUS
  <2>1. PICK m \in Bad : \A l \in Bad : m <= l
    <3>1. Bad \subseteq Nat
      OBVIOUS
    <3>. HIDE DEF Bad
    <3>. QED BY <3>1, LeastNatural
  <2>2. m # 0
    BY <2>1 DEF InMessagesOf
  <2>3. m \in 1 .. n /\ m - 1 \in 0 .. n /\ m - 1 \notin Bad
    BY <2>1, <2>2
  <2>4. xs[m] = ys[m] /\ f[m - 1] = g[m - 1]
    BY <2>3
  <2>5. f[m] = IF IsMessage(s, xs[m]) THEN f[m - 1] \o xs[m] ELSE f[m - 1]
    BY <2>3 DEF InMessagesOf
  <2>6. g[m] = IF IsMessage(s, ys[m]) THEN g[m - 1] \o ys[m] ELSE g[m - 1]
    BY <2>3 DEF InMessagesOf
  <2>. QED BY <2>1, <2>4, <2>5, <2>6
<1>2. n \in 0 .. n
  OBVIOUS
<1>. QED BY <1>1, <1>2

(* InMessages is what one gets at the last event.                           *)
LEMMA InMessagesIs ==
  ASSUME NEW s, NEW events \in Events
  PROVE  \E f : InMessagesOf(s, events, Len(events), f) /\ InMessages(s, events) = f[Len(events)]
<1>. DEFINE n == Len(events)
            Eq(f) == f = [i \in 0 .. n |-> IF i = 0 THEN <<>>
                                           ELSE IF IsMessage(s, events[i]) THEN f[i - 1] \o events[i]
                                           ELSE f[i - 1]]
            g == CHOOSE f : Eq(f)
<1>1. n \in Nat
  BY DEF Events
<1>2. PICK f : InMessagesOf(s, events, n, f)
  <2>1. n \in 0 .. Len(events)
    BY <1>1
  <2>. HIDE DEF n
  <2>. QED BY <2>1, InMessagesExist
<1>3. \A i \in 0 .. n : i # 0 => i \in 1 .. n
  BY <1>1
<1>4. Eq(f)
  <2>1. \A i \in 0 .. n : f[i] = IF i = 0 THEN <<>>
                                ELSE IF IsMessage(s, events[i]) THEN f[i - 1] \o events[i]
                                ELSE f[i - 1]
    BY <1>2, <1>3 DEF InMessagesOf
  <2>2. f = [i \in 0 .. n |-> f[i]]
    BY <1>2 DEF InMessagesOf
  <2>. QED BY <2>1, <2>2
<1>5. Eq(g)
  <2>. HIDE DEF Eq
  <2>. QED BY <1>4
<1>6. g = [i \in 0 .. n |-> IF i = 0 THEN <<>>
                            ELSE IF IsMessage(s, events[i]) THEN g[i - 1] \o events[i]
                            ELSE g[i - 1]]
  BY <1>5
<1>7. InMessages(s, events) = g[n]
  BY DEF InMessages
<1>. HIDE DEF g
<1>8. \A i \in 0 .. n : g[i] = IF i = 0 THEN <<>>
                              ELSE IF IsMessage(s, events[i]) THEN g[i - 1] \o events[i]
                              ELSE g[i - 1]
  BY ONLY <1>6
<1>9. g[0] = <<>> /\ \A i \in 1 .. n : g[i] = IF IsMessage(s, events[i]) THEN g[i - 1] \o events[i]
                                             ELSE g[i - 1]
  <2>1. 0 \in 0 .. n /\ \A i \in 1 .. n : i \in 0 .. n /\ i # 0
    BY <1>1
  <2>. QED BY <2>1, <1>8
<1>10. \A i \in 0 .. n : g[i] = f[i]
  <2>. DEFINE Bad == {i \in 0 .. n : g[i] # f[i]}
  <2>. SUFFICES ASSUME Bad # {} PROVE FALSE
    OBVIOUS
  <2>1. PICK m \in Bad : \A l \in Bad : m <= l
    <3>1. Bad \subseteq Nat
      BY <1>1
    <3>. HIDE DEF Bad
    <3>. QED BY <3>1, LeastNatural
  <2>2. m # 0
    BY <2>1, <1>2, <1>9 DEF InMessagesOf
  <2>3. m \in 1 .. n /\ m - 1 \in 0 .. n /\ m - 1 \notin Bad
    BY <2>1, <2>2, <1>1
  <2>4. f[m - 1] = g[m - 1]
    BY <2>3
  <2>5. f[m] = IF IsMessage(s, events[m]) THEN f[m - 1] \o events[m] ELSE f[m - 1]
    BY <2>3, <1>2 DEF InMessagesOf
  <2>6. g[m] = IF IsMessage(s, events[m]) THEN g[m - 1] \o events[m] ELSE g[m - 1]
    BY <2>3, <1>9
  <2>. QED BY <2>1, <2>4, <2>5, <2>6
<1>11. n \in 0 .. n
  BY <1>1
<1>. QED BY <1>2, <1>7, <1>10, <1>11

(* They are frames.                                                         *)
LEMMA InMessagesType ==
  ASSUME NEW s, NEW events \in Events
  PROVE  InMessages(s, events) \in Seq(Nat)
<1>1. PICK f : InMessagesOf(s, events, Len(events), f) /\ InMessages(s, events) = f[Len(events)]
  BY InMessagesIs
<1>2. Len(events) \in 0 .. Len(events)
  BY DEF Events
<1>. QED BY <1>1, <1>2 DEF InMessagesOf

\* To append to the second of two sequences is to append to both.
LEMMA AppendConcat ==
  ASSUME NEW x \in Seq(Nat), NEW y \in Seq(Nat), NEW z \in Nat
  PROVE  x \o Append(y, z) = Append(x \o y, z)
OBVIOUS

(* An event more puts its frames behind the others, if it is a message.     *)
LEMMA InMessagesAppend ==
  ASSUME NEW s, NEW events \in Events, NEW m \in Seq(Nat)
  PROVE  InMessages(s, Append(events, m))
           = IF IsMessage(s, m) THEN InMessages(s, events) \o m ELSE InMessages(s, events)
<1>. DEFINE n == Len(events)
            more == Append(events, m)
<1>1. /\ n \in Nat /\ more \in Events /\ Len(more) = n + 1 /\ more[n + 1] = m
      /\ \A i \in 1 .. n : more[i] = events[i]
  BY AppendProperties DEF Events
<1>. HIDE DEF more
<1>2. PICK f : InMessagesOf(s, events, n, f) /\ InMessages(s, events) = f[n]
  BY InMessagesIs
<1>3. PICK g : InMessagesOf(s, more, n + 1, g) /\ InMessages(s, more) = g[n + 1]
  BY <1>1, InMessagesIs
<1>. DEFINE h == [i \in 0 .. n |-> g[i]]
<1>4. InMessagesOf(s, more, n, h)
  <2>1. \A i \in 0 .. n : i \in 0 .. n + 1 /\ h[i] = g[i]
    BY <1>1
  <2>2. 0 \in 0 .. n
    BY <1>1
  <2>3. h \in [0 .. n -> Seq(Nat)] /\ h[0] = <<>>
    BY <2>1, <2>2, <1>1, <1>3 DEF InMessagesOf
  <2>. HIDE DEF h
  <2>4. ASSUME NEW i \in 1 .. n
        PROVE  h[i] = IF IsMessage(s, more[i]) THEN h[i - 1] \o more[i] ELSE h[i - 1]
    <3>1. i \in 1 .. n + 1 /\ i \in 0 .. n /\ i - 1 \in 0 .. n
      BY <1>1
    <3>2. h[i] = g[i] /\ h[i - 1] = g[i - 1]
      BY <2>1, <3>1
    <3>. QED BY <3>1, <3>2, <1>3 DEF InMessagesOf
  <2>. QED BY <2>3, <2>4 DEF InMessagesOf
<1>5. h[n] = f[n] /\ h[n] = g[n]
  <2>1. h[n] = g[n]
    BY <1>1
  <2>. HIDE DEF h
  <2>2. InMessagesOf(s, events, n, f) /\ InMessagesOf(s, more, n, h) /\ n \in Nat
    BY <1>1, <1>2, <1>4
  <2>3. \A i \in 1 .. n : more[i] = events[i]
    BY <1>1
  <2>. HIDE DEF n
  <2>4. h[n] = f[n]
    BY <2>2, <2>3, InMessagesUnique
  <2>. QED BY <2>1, <2>4
<1>6. g[n + 1] = IF IsMessage(s, more[n + 1]) THEN g[n] \o more[n + 1] ELSE g[n]
  <2>1. n + 1 \in 1 .. n + 1 /\ (n + 1) - 1 = n
    BY <1>1
  <2>. QED BY <2>1, <1>1, <1>3 DEF InMessagesOf
<1>. QED BY <1>1, <1>2, <1>3, <1>5, <1>6 DEF more

(* No events have no frames.                                                *)
LEMMA NoMessages == ASSUME NEW s PROVE InMessages(s, <<>>) = <<>>
<1>1. <<>> \in Events /\ Len(<<>>) = 0
  BY DEF Events
<1>2. PICK f : InMessagesOf(s, <<>>, 0, f) /\ InMessages(s, <<>>) = f[0]
  BY <1>1, InMessagesIs
<1>. QED BY <1>2 DEF InMessagesOf

-----------------------------------------------------------------------------
(* The inductive invariant.  s is stream, e is End.                         *)

\* Where in the stream, and with which output buffer, a state is reached.
GreetingPlace(c, upto) ==
  upto = CASE c.state = "InitSend"  -> 0
           [] c.state = "InitRecv1" -> 0
           [] c.state = "InitRecv2" -> Need["InitRecv1"]
           [] c.state = "InitRecv3" -> Need["InitRecv1"] + Need["InitRecv2"]
           [] c.state = "InitRecv4" -> Need["InitRecv1"] + Need["InitRecv2"] + Need["InitRecv3"]
           [] OTHER -> Need["InitRecv1"] + Need["InitRecv2"] + Need["InitRecv3"] + Need["InitRecv4"]

GreetingOut(c, o) ==
  o.wp <= CASE c.state = "InitSend" -> 0
            [] c.state \in {"InitRecv1", "InitRecv2", "InitRecv3"} -> PutLen["InitSend"]
            [] OTHER -> PutLen["InitSend"] + PutLen["InitRecv3"]

\* The position in the input is where the state begins.
InPlace(s, e, c, o, upto) ==
  /\ c.state \in GreetingStates =>
       GreetingPlace(c, upto) /\ GreetingOut(c, o) /\ c.of = 0 /\ c.frames = <<>>
  /\ c.state = "ReadFrameFlags" => upto = e[c.of]
  /\ c.state \in InFrame => c.of # 0
  /\ c.state \in {"ReadFrameShort", "ReadFrameLong"} =>
       c.state = SizeState(s[c.of]) /\ upto = e[c.of - 1] + Need["ReadFrameFlags"]
  /\ c.state = "ReadFrameBody" => upto + s[c.of].size = e[c.of]

\* What is kept of the message being read is frames of messages that are not the last.
Unfinished(s, c) ==
  /\ c.frames \in Seq(1 .. Len(s))
  /\ \A j \in 1 .. Len(c.frames) : ~s[c.frames[j]].cmd /\ s[c.frames[j]].more
  /\ c.state \in InFrame /\ c.of # 0 /\ ~s[c.of].cmd => (c.hasMore <=> s[c.of].more)

\* A message ends with its first frame that has no more flag.
Whole(s, m) == IsMessage(s, m) => \A j \in DOMAIN m : s[m[j]].more <=> j < Len(m)

\* How many frames are parsed to their end, as FramesParsed.
ParsedOf(c) == IF c.state = "ReadFrameFlags" \/ c.of = 0 THEN c.of ELSE c.of - 1

\* What was yielded and what is kept are all frames of messages, in order.
Complete(s, c, events) ==
  /\ events \in Events
  /\ \A i \in 1 .. Len(events) : Whole(s, events[i])
  /\ InMessages(s, events) \o c.frames = DataUpto(s)[ParsedOf(c)]

ZmtpInv ==
  /\ StreamType /\ ZmtpTypeOK
  /\ task = "turn" => ~done
  /\ ~done => InPlace(stream, End, conn, out, pos)
  /\ Unfinished(stream, conn) /\ Complete(stream, conn, yielded)

\* What parse_item must do to the state.
Good(p) ==
  /\ p.pos = Behind
  /\ p.conn.state \in States /\ p.conn.of \in 0 .. Len(stream) /\ p.conn.hasMore \in BOOLEAN
  /\ p.out.wp \in 0 .. BufCap /\ p.out.rp \in 0 .. p.out.wp
  /\ ~ParseFails => InPlace(stream, End, p.conn, p.out, p.pos)
  /\ Unfinished(stream, p.conn)
  /\ Complete(stream, p.conn, IF p.item # <<>> THEN Append(yielded, p.item) ELSE yielded)

\* What it works on: outbuf after a write, and the bytes that the state needs.
Ready(o) ==
  /\ ZmtpInv /\ ~done
  /\ o.wp \in 0 .. out.wp /\ o.rp \in 0 .. o.wp
  /\ Behind <= Total

(* What is put out by itself fits an empty buffer.                          *)
LEMMA PutLens ==
  /\ BufCap \in Nat /\ PingRoom \in Nat /\ PutLen["Ping"] \in Nat /\ PutLen["Ping"] <= PingRoom
  /\ DOMAIN PutLen = {"InitSend", "InitRecv3", "InitRecv5", "Ping"}
  /\ PutLen["InitSend"] \in Nat /\ PutLen["InitRecv3"] \in Nat /\ PutLen["InitRecv5"] \in Nat
  /\ PutLen["InitSend"] + PutLen["InitRecv3"] + PutLen["InitRecv5"] <= BufCap
<1>1. PutLen \in [{"InitSend", "InitRecv3", "InitRecv5", "Ping"} -> Nat \ {0}]
  BY ZmtpAssumption
<1>2. BufCap \in Nat /\ PingRoom \in Nat /\ PutLen["Ping"] <= PingRoom
      /\ PutLen["InitSend"] + PutLen["InitRecv3"] + PutLen["InitRecv5"] <= BufCap
  BY ZmtpAssumption
<1>. QED BY <1>1, <1>2

(* Bytes that fit behind the write position are put there, or at the front. *)
LEMMA PutOutKeeps ==
  ASSUME NEW o, o.wp \in 0 .. BufCap, o.rp \in 0 .. o.wp, NEW n \in Nat, n <= BufCap - o.wp
  PROVE  /\ PutOut(o, n).wp \in 0 .. BufCap /\ PutOut(o, n).rp \in 0 .. PutOut(o, n).wp
         /\ PutOut(o, n).wp <= o.wp + n
<1>1. BufCap \in Nat
  BY PutLens
<1>. QED BY <1>1 DEF PutOut, OutBuf

(* A PONG and an own PING do not overrun the output buffer, whatever the    *)
(* length of the PING.                                                      *)
LEMMA AnswerKeeps ==
  ASSUME NEW o, o.wp \in 0 .. BufCap, o.rp \in 0 .. o.wp, NEW size \in Nat
  PROVE  /\ Answer(o, size).wp \in 0 .. BufCap /\ Answer(o, size).rp \in 0 .. Answer(o, size).wp
<1>. DEFINE pong == IF WCap(o) < size THEN o ELSE PutOut(o, size)
<1>1. pong.wp \in 0 .. BufCap /\ pong.rp \in 0 .. pong.wp
  <2>1. CASE WCap(o) < size
    BY <2>1
  <2>2. CASE ~(WCap(o) < size)
    <3>1. size <= BufCap - o.wp
      BY <2>2, PutLens DEF WCap
    <3>2. PutOut(o, size).wp \in 0 .. BufCap /\ PutOut(o, size).rp \in 0 .. PutOut(o, size).wp
      BY <3>1, PutOutKeeps
    <3>. QED BY <2>2, <3>2
  <2>. QED BY <2>1, <2>2
<1>2. Answer(o, size) = IF WCap(pong) < PingRoom THEN pong ELSE PutOut(pong, PutLen["Ping"])
  BY DEF Answer
<1>. HIDE DEF pong
<1>3. CASE WCap(pong) < PingRoom
  BY <1>1, <1>2, <1>3
<1>4. CASE ~(WCap(pong) < PingRoom)
  <2>1. PutLen["Ping"] \in Nat /\ PutLen["Ping"] <= BufCap - pong.wp
    BY <1>1, <1>4, PutLens DEF WCap
  <2>2. /\ PutOut(pong, PutLen["Ping"]).wp \in 0 .. BufCap
        /\ PutOut(pong, PutLen["Ping"]).rp \in 0 .. PutOut(pong, PutLen["Ping"]).wp
    BY <1>1, <2>1, PutOutKeeps
  <2>. QED BY <1>2, <1>4, <2>2
<1>. QED BY <1>3, <1>4

(* The facts about the state before.                                        *)
LEMMA ReadyFacts ==
  ASSUME NEW o, Ready(o)
  PROVE  /\ o.wp \in 0 .. BufCap /\ o.rp \in 0 .. o.wp /\ o.wp <= out.wp
         /\ pos \in Nat /\ Total \in Nat /\ Len(stream) \in Nat
         /\ conn.state \in States /\ conn.of \in 0 .. Len(stream) /\ conn.hasMore \in BOOLEAN
         /\ conn.frames \in Seq(1 .. Len(stream)) /\ conn.frames \in Seq(Nat)
         /\ InPlace(stream, End, conn, out, pos)
         /\ Unfinished(stream, conn) /\ Complete(stream, conn, yielded)
         /\ StreamType
<1>1. ZmtpInv /\ StreamType
  BY DEF Ready, ZmtpInv
<1>2. Total \in Nat /\ Len(stream) \in Nat
  BY <1>1, EndType
<1>3. conn.state \in States /\ conn.of \in 0 .. Len(stream) /\ conn.hasMore \in BOOLEAN
  BY <1>1 DEF ZmtpInv, ZmtpTypeOK
<1>4. arrived \in Nat /\ taken \in Nat /\ pos \in Nat
  BY <1>1, <1>2 DEF ZmtpInv, ZmtpTypeOK
<1>5. out.wp \in 0 .. BufCap
  BY <1>1 DEF ZmtpInv, ZmtpTypeOK
<1>6. o.wp \in 0 .. BufCap /\ o.rp \in 0 .. o.wp /\ o.wp <= out.wp
  BY <1>5, PutLens DEF Ready
<1>7. /\ InPlace(stream, End, conn, out, pos)
      /\ Unfinished(stream, conn) /\ Complete(stream, conn, yielded)
  BY DEF Ready, ZmtpInv
<1>8. conn.frames \in Seq(1 .. Len(stream))
  BY <1>7 DEF Unfinished
<1>9. conn.frames \in Seq(Nat)
  <2>. DEFINE S == 1 .. Len(stream)
  <2>1. S \subseteq Nat
    OBVIOUS
  <2>2. conn.frames \in Seq(S)
    BY <1>8
  <2>. HIDE DEF S
  <2>. QED BY <2>1, <2>2, SeqMonotonic
<1>. QED BY <1>1, <1>2, <1>3, <1>4, <1>6, <1>7, <1>8, <1>9

(* The greeting: its own lines always find room, as outbuf is empty at      *)
(* first, and no frame is known yet.                                        *)
LEMMA GreetingKeeps ==
  ASSUME NEW o, Ready(o), conn.state \in GreetingStates
  PROVE  Good(ParseGreeting(o))
<1>. DEFINE st == conn.state
            c == Conn(IF st = reject THEN st ELSE AfterGreeting(st), 0, FALSE, <<>>)
            q == IF st # reject /\ st \in DOMAIN PutLen THEN PutOut(o, PutLen[st]) ELSE o
            p == ParseGreeting(o)
<1>1. p.pos = Behind /\ p.conn = c /\ p.out = q /\ p.item = <<>>
  BY DEF ParseGreeting, Parsed
<1>2. c.state = (IF st = reject THEN st ELSE AfterGreeting(st)) /\ c.of = 0 /\ c.frames = <<>>
  BY DEF Conn
<1>3. c.hasMore = FALSE
  BY DEF Conn
<1>4. /\ o.wp \in 0 .. BufCap /\ o.rp \in 0 .. o.wp /\ o.wp <= out.wp /\ pos \in Nat
      /\ GreetingPlace(conn, pos) /\ GreetingOut(conn, out) /\ conn.of = 0 /\ conn.frames = <<>>
      /\ Complete(stream, conn, yielded) /\ StreamType
  BY ReadyFacts DEF InPlace
<1>. HIDE DEF p, c
<1>0. /\ st = "InitSend" => o.wp = 0
      /\ st \in {"InitRecv1", "InitRecv2", "InitRecv3"} => o.wp <= PutLen["InitSend"]
      /\ st \in {"InitRecv4", "InitRecv5"} => o.wp <= PutLen["InitSend"] + PutLen["InitRecv3"]
  <2>1. o.wp \in Nat /\ out.wp \in Nat
    BY <1>4, PutLens DEF Ready, ZmtpInv, ZmtpTypeOK
  <2>2. /\ st = "InitSend" => out.wp <= 0
        /\ st \in {"InitRecv1", "InitRecv2", "InitRecv3"} => out.wp <= PutLen["InitSend"]
        /\ st \in {"InitRecv4", "InitRecv5"} => out.wp <= PutLen["InitSend"] + PutLen["InitRecv3"]
    BY <1>4 DEF GreetingOut
  <2>. HIDE DEF st
  <2>. QED BY <2>1, <2>2, <1>4, PutLens
<1>5. c.state \in States /\ c.of \in 0 .. Len(stream) /\ c.hasMore \in BOOLEAN
  <2>1. AfterGreeting(st) \in States
    BY StatesAre DEF AfterGreeting, GreetingStates
  <2>2. st \in States /\ 0 \in 0 .. Len(stream)
    BY StatesAre, <1>4, EndType
  <2>. QED BY <1>2, <1>3, <2>1, <2>2
<1>6. q.wp \in 0 .. BufCap /\ q.rp \in 0 .. q.wp /\ (st # reject /\ st # "InitRecv5" => GreetingOut(c, q))
  <2>1. CASE st # reject /\ st = "InitSend"
    <3>1. o.wp = 0 /\ PutLen[st] \in Nat /\ PutLen[st] <= BufCap - o.wp /\ q = PutOut(o, PutLen[st])
      <4>1. o.wp = 0 /\ st \in DOMAIN PutLen
        BY <1>0, <2>1, PutLens
      <4>2. PutLen["InitSend"] \in Nat /\ PutLen["InitSend"] <= BufCap - 0
        BY PutLens
      <4>. QED BY <2>1, <4>1, <4>2
    <3>2. q.wp \in 0 .. BufCap /\ q.rp \in 0 .. q.wp /\ q.wp <= o.wp + PutLen[st]
      <4>. HIDE DEF q, st
      <4>1. /\ PutOut(o, PutLen[st]).wp \in 0 .. BufCap
            /\ PutOut(o, PutLen[st]).rp \in 0 .. PutOut(o, PutLen[st]).wp
            /\ PutOut(o, PutLen[st]).wp <= o.wp + PutLen[st]
        BY <1>4, <3>1, PutOutKeeps
      <4>. QED BY <3>1, <4>1
    <3>3. c.state = "InitRecv1"
      BY <1>2, <2>1 DEF AfterGreeting
    <3>. HIDE DEF q
    <3>. QED BY <3>1, <3>2, <3>3, <2>1 DEF GreetingOut
  <2>2. CASE st # reject /\ st = "InitRecv3"
    <3>1. o.wp <= PutLen["InitSend"] /\ PutLen[st] \in Nat /\ PutLen[st] <= BufCap - o.wp /\ q = PutOut(o, PutLen[st])
      <4>1. o.wp <= PutLen["InitSend"] /\ st \in DOMAIN PutLen
        BY <1>0, <2>2, PutLens
      <4>2. PutLen["InitRecv3"] \in Nat /\ PutLen["InitRecv3"] <= BufCap - o.wp
        <5>. HIDE DEF st, q
        <5>. QED BY <4>1, <1>4, PutLens
      <4>. QED BY <2>2, <4>1, <4>2
    <3>2. q.wp \in 0 .. BufCap /\ q.rp \in 0 .. q.wp /\ q.wp <= o.wp + PutLen[st]
      <4>. HIDE DEF q, st
      <4>1. /\ PutOut(o, PutLen[st]).wp \in 0 .. BufCap
            /\ PutOut(o, PutLen[st]).rp \in 0 .. PutOut(o, PutLen[st]).wp
            /\ PutOut(o, PutLen[st]).wp <= o.wp + PutLen[st]
        BY <1>4, <3>1, PutOutKeeps
      <4>. QED BY <3>1, <4>1
    <3>3. c.state = "InitRecv4"
      BY <1>2, <2>2 DEF AfterGreeting
    <3>. HIDE DEF q
    <3>4. q.wp <= PutLen["InitSend"] + PutLen["InitRecv3"]
      BY <3>1, <3>2, <2>2, <1>4, PutLens
    <3>. QED BY <3>2, <3>3, <3>4 DEF GreetingOut
  <2>3. CASE st # reject /\ st = "InitRecv5"
    <3>1. PutLen[st] \in Nat /\ PutLen[st] <= BufCap - o.wp /\ q = PutOut(o, PutLen[st])
      <4>1. o.wp <= PutLen["InitSend"] + PutLen["InitRecv3"] /\ st \in DOMAIN PutLen
        BY <1>0, <2>3, PutLens
      <4>2. PutLen["InitRecv5"] \in Nat /\ PutLen["InitRecv5"] <= BufCap - o.wp
        <5>. HIDE DEF st, q
        <5>. QED BY <4>1, <1>4, PutLens
      <4>. QED BY <2>3, <4>1, <4>2
    <3>2. q.wp \in 0 .. BufCap /\ q.rp \in 0 .. q.wp
      <4>. HIDE DEF q, st
      <4>1. /\ PutOut(o, PutLen[st]).wp \in 0 .. BufCap
            /\ PutOut(o, PutLen[st]).rp \in 0 .. PutOut(o, PutLen[st]).wp
        BY <1>4, <3>1, PutOutKeeps
      <4>. QED BY <3>1, <4>1
    <3>. QED BY <3>2, <2>3
  <2>4. CASE st = reject \/ st \in {"InitRecv1", "InitRecv2", "InitRecv4"}
    <3>1. q = o
      BY <2>4, PutLens
    <3>2. st # reject => c.state = AfterGreeting(st)
      BY <1>2
    <3>3. st # reject => GreetingOut(c, o)
      <4>. SUFFICES ASSUME st # reject PROVE GreetingOut(c, o)
        OBVIOUS
      <4>1. CASE st = "InitRecv1" \/ st = "InitRecv2"
        <5>1. c.state \in {"InitRecv2", "InitRecv3"}
          BY <3>2, <4>1 DEF AfterGreeting
        <5>2. o.wp <= PutLen["InitSend"]
          BY <1>0, <4>1
        <5>. QED BY <5>1, <5>2 DEF GreetingOut
      <4>2. CASE st = "InitRecv4"
        <5>1. c.state = "InitRecv5"
          BY <3>2, <4>2 DEF AfterGreeting
        <5>2. o.wp <= PutLen["InitSend"] + PutLen["InitRecv3"]
          BY <1>0, <4>2
        <5>. QED BY <5>1, <5>2 DEF GreetingOut
      <4>. QED BY <2>4, <4>1, <4>2
    <3>. QED BY <1>4, <3>1, <3>3
  <2>. QED BY <2>1, <2>2, <2>3, <2>4 DEF GreetingStates
<1>7. ~ParseFails => InPlace(stream, End, c, q, Behind)
  <2>. SUFFICES ASSUME ~ParseFails PROVE InPlace(stream, End, c, q, Behind)
    OBVIOUS
  <2>1. st # reject /\ c.state = AfterGreeting(st)
    BY <1>2 DEF ParseFails
  <2>2. NeedMin(conn) = IF st = "InitSend" THEN 0 ELSE Need[st]
    BY DEF NeedMin, GreetingStates
  <2>3. CASE st = "InitRecv5"
    <3>1. c.state = "ReadFrameFlags"
      BY <2>1, <2>3 DEF AfterGreeting
    <3>2. Behind = GreetingLen
      BY <2>2, <2>3, <1>4, StatesAre DEF GreetingPlace, Behind, GreetingLen
    <3>3. End[0] = GreetingLen
      BY <1>4, EndType
    <3>. QED BY <3>1, <3>2, <3>3, <1>2 DEF InPlace, GreetingStates, InFrame
  <2>4. CASE st # "InitRecv5"
    <3>1. c.state \in GreetingStates \ {"InitSend"}
      BY <2>1, <2>4 DEF AfterGreeting, GreetingStates
    <3>2. GreetingPlace(c, Behind)
      BY <2>1, <2>2, <2>4, <1>4, StatesAre DEF GreetingPlace, Behind, AfterGreeting, GreetingStates
    <3>3. GreetingOut(c, q)
      BY <1>6, <2>1, <2>4
    <3>. HIDE DEF q
    <3>. QED BY <3>1, <3>2, <3>3, <1>2 DEF InPlace, GreetingStates, InFrame
  <2>. QED BY <2>3, <2>4
<1>8. Unfinished(stream, c)
  BY <1>2 DEF Unfinished
<1>9. Complete(stream, c, yielded)
  <2>1. ParsedOf(c) = 0 /\ ParsedOf(conn) = 0
    BY <1>2, <1>4 DEF ParsedOf
  <2>. QED BY <2>1, <1>2, <1>4 DEF Complete
<1>. HIDE DEF q
<1>. QED BY <1>1, <1>5, <1>6, <1>7, <1>8, <1>9 DEF Good, p

(* What is known of a frame, and where the bytes of its parts end.          *)
LEMMA FrameFacts ==
  ASSUME NEW o, Ready(o), NEW i \in 1 .. Len(stream)
  PROVE  /\ stream[i] \in Kinds /\ stream[i].size \in Nat
         /\ stream[i].cmd \in BOOLEAN /\ stream[i].more \in BOOLEAN
         /\ SizeState(stream[i]) \in {"ReadFrameShort", "ReadFrameLong"}
         /\ End[i - 1] \in Nat /\ End[i] \in Nat
         /\ Need["ReadFrameFlags"] \in Nat \ {0} /\ Need[SizeState(stream[i])] \in Nat
         /\ End[i] = End[i - 1] + Need["ReadFrameFlags"] + Need[SizeState(stream[i])] + stream[i].size
<1>1. StreamType /\ Len(stream) \in Nat
  BY ReadyFacts
<1>2. stream[i] \in Kinds
  BY <1>1, ElementOfSeq DEF StreamType
<1>3. /\ stream[i].size \in Nat /\ stream[i].cmd \in BOOLEAN /\ stream[i].more \in BOOLEAN
      /\ SizeState(stream[i]) \in {"ReadFrameShort", "ReadFrameLong"}
      /\ Length(stream[i]) = Need["ReadFrameFlags"] + Need[SizeState(stream[i])] + stream[i].size
  BY <1>2, LengthType
<1>4. Need["ReadFrameFlags"] \in Nat \ {0} /\ Need[SizeState(stream[i])] \in Nat
  BY <1>3, StatesAre
<1>5. i - 1 \in 0 .. Len(stream) /\ i \in 0 .. Len(stream)
  BY <1>1
<1>6. End[i - 1] \in Nat /\ End[i] \in Nat /\ End[i] = End[i - 1] + Length(stream[i])
  BY <1>1, <1>5, EndType
<1>. QED BY <1>2, <1>3, <1>4, <1>6

(* The flags of a frame: a command leaves has_more as it is.                *)
LEMMA FlagsKeeps ==
  ASSUME NEW o, Ready(o), conn.state = "ReadFrameFlags"
  PROVE  Good(ParseFlags(o))
<1>. DEFINE n == conn.of
            k == stream[n + 1]
            c == Conn(SizeState(k), n + 1, IF k.cmd THEN conn.hasMore ELSE k.more, conn.frames)
            p == ParseFlags(o)
<1>1. p.pos = Behind /\ p.conn = c /\ p.out = o /\ p.item = <<>>
  BY DEF ParseFlags, Parsed
<1>2. /\ c.state = SizeState(k) /\ c.of = n + 1 /\ c.frames = conn.frames
  BY DEF Conn
<1>3. c.hasMore = (IF k.cmd THEN conn.hasMore ELSE k.more)
  BY DEF Conn
<1>4. /\ o.wp \in 0 .. BufCap /\ o.rp \in 0 .. o.wp /\ pos = End[n] /\ n \in 0 .. Len(stream)
      /\ Unfinished(stream, conn) /\ Complete(stream, conn, yielded) /\ Len(stream) \in Nat
      /\ StreamType /\ conn.hasMore \in BOOLEAN
  BY ReadyFacts DEF InPlace
<1>. HIDE DEF p, c
<1>5. Behind = End[n] + Need["ReadFrameFlags"]
  BY <1>4 DEF Behind, NeedMin
<1>6. n + 1 \in 1 .. Len(stream)
  <2>1. Behind <= End[Len(stream)] /\ End[n] \in Nat /\ Need["ReadFrameFlags"] \in Nat \ {0}
    BY <1>4, EndType, StatesAre DEF Ready, Total
  <2>2. n # Len(stream)
    BY <2>1, <1>5
  <2>. QED BY <2>2, <1>4
<1>7. /\ k.cmd \in BOOLEAN /\ k.more \in BOOLEAN
      /\ SizeState(k) \in {"ReadFrameShort", "ReadFrameLong"}
  BY <1>6, FrameFacts
<1>8. c.state \in States /\ c.of \in 0 .. Len(stream) /\ c.hasMore \in BOOLEAN
  <2>1. SizeState(k) \in States
    BY <1>7, StatesAre DEF InFrame
  <2>2. n + 1 \in 0 .. Len(stream)
    BY <1>6
  <2>3. c.hasMore \in BOOLEAN
    BY <1>3, <1>4, <1>7
  <2>. QED BY <1>2, <2>1, <2>2, <2>3
<1>9. InPlace(stream, End, c, o, Behind)
  <2>1. (n + 1) - 1 = n /\ n + 1 # 0
    BY <1>4
  <2>. QED BY <2>1, <1>2, <1>5, <1>7 DEF InPlace, GreetingStates, InFrame
<1>10. Unfinished(stream, c)
  <2>1. ~stream[c.of].cmd => (c.hasMore <=> stream[c.of].more)
    BY <1>2, <1>3
  <2>. QED BY <2>1, <1>2, <1>4 DEF Unfinished
<1>11. Complete(stream, c, yielded)
  <2>1. ParsedOf(conn) = n /\ ParsedOf(c) = n
    BY <1>2, <1>4, <1>7 DEF ParsedOf
  <2>. QED BY <2>1, <1>2, <1>4 DEF Complete
<1>. QED BY <1>1, <1>4, <1>8, <1>9, <1>10, <1>11 DEF Good, p

(* The length field of a frame.                                             *)
LEMMA LengthKeeps ==
  ASSUME NEW o, Ready(o), conn.state \in {"ReadFrameShort", "ReadFrameLong"}
  PROVE  Good(ParseLength(o))
<1>. DEFINE n == conn.of
            c == Conn("ReadFrameBody", n, conn.hasMore, conn.frames)
            p == ParseLength(o)
<1>1. p.pos = Behind /\ p.conn = c /\ p.out = o /\ p.item = <<>>
  BY DEF ParseLength, Parsed
<1>2. c.state = "ReadFrameBody" /\ c.of = n /\ c.frames = conn.frames
  BY DEF Conn
<1>3. c.hasMore = conn.hasMore
  BY DEF Conn
<1>4. /\ o.wp \in 0 .. BufCap /\ o.rp \in 0 .. o.wp /\ n \in 0 .. Len(stream) /\ n # 0
      /\ conn.state = SizeState(stream[n]) /\ pos = End[n - 1] + Need["ReadFrameFlags"]
      /\ Unfinished(stream, conn) /\ Complete(stream, conn, yielded) /\ Len(stream) \in Nat
      /\ StreamType /\ conn.hasMore \in BOOLEAN
  BY ReadyFacts DEF InPlace, InFrame
<1>. HIDE DEF p, c
<1>5. Behind = pos + Need[conn.state]
  BY DEF Behind, NeedMin
<1>6. n \in 1 .. Len(stream)
  BY <1>4
<1>7. Behind + stream[n].size = End[n]
  <2>1. /\ End[n] = End[n - 1] + Need["ReadFrameFlags"] + Need[SizeState(stream[n])] + stream[n].size
        /\ stream[n].size \in Nat /\ End[n - 1] \in Nat /\ Need["ReadFrameFlags"] \in Nat
        /\ Need[SizeState(stream[n])] \in Nat
    BY <1>6, FrameFacts
  <2>. QED BY <2>1, <1>4, <1>5
<1>8. c.state \in States /\ c.of \in 0 .. Len(stream) /\ c.hasMore \in BOOLEAN
  BY <1>2, <1>3, <1>4, StatesAre DEF InFrame
<1>9. InPlace(stream, End, c, o, Behind)
  BY <1>2, <1>4, <1>7 DEF InPlace, GreetingStates, InFrame
<1>10. Unfinished(stream, c)
  BY <1>2, <1>3, <1>4 DEF Unfinished, InFrame
<1>11. Complete(stream, c, yielded)
  <2>1. ParsedOf(c) = ParsedOf(conn)
    BY <1>2 DEF ParsedOf
  <2>. QED BY <2>1, <1>2, <1>4 DEF Complete
<1>. QED BY <1>1, <1>4, <1>8, <1>9, <1>10, <1>11 DEF Good, p

(* When a frame is read to its end the next one begins there.               *)
LEMMA BodyEnds ==
  ASSUME NEW o, Ready(o), conn.state = "ReadFrameBody"
  PROVE  /\ conn.of \in 1 .. Len(stream) /\ Behind = End[conn.of]
         /\ ParsedOf(conn) = conn.of - 1
         /\ \A c, q : c.state = "ReadFrameFlags" /\ c.of = conn.of =>
              InPlace(stream, End, c, q, Behind) /\ ParsedOf(c) = conn.of
<1>1. /\ conn.of \in 0 .. Len(stream) /\ conn.of # 0 /\ Len(stream) \in Nat
      /\ pos + stream[conn.of].size = End[conn.of]
  BY ReadyFacts DEF InPlace, InFrame
<1>2. conn.of \in 1 .. Len(stream)
  BY <1>1
<1>3. Behind = End[conn.of]
  BY <1>1 DEF Behind, NeedMin
<1>4. ParsedOf(conn) = conn.of - 1
  BY <1>1 DEF ParsedOf
<1>5. ASSUME NEW c, NEW q, c.state = "ReadFrameFlags", c.of = conn.of
      PROVE  InPlace(stream, End, c, q, Behind) /\ ParsedOf(c) = conn.of
  BY <1>3, <1>5 DEF InPlace, ParsedOf, GreetingStates, InFrame
<1>. QED BY <1>2, <1>3, <1>4, <1>5

\* The frames of messages, up to the one that is read.
LEMMA DataStep ==
  ASSUME StreamType, NEW n \in 1 .. Len(stream)
  PROVE  DataUpto(stream)[n] = IF stream[n].cmd THEN DataUpto(stream)[n - 1]
                               ELSE Append(DataUpto(stream)[n - 1], n)
BY DataIs DEF DataOf, StreamType

(* The body of a command, which is yielded alone: the frames of a message   *)
(* that it comes between stay.                                              *)
LEMMA CommandKeeps ==
  ASSUME NEW o, Ready(o), conn.state = "ReadFrameBody", stream[conn.of].cmd
  PROVE  Good(ParseCommand(o))
<1>. DEFINE n == conn.of
            k == stream[n]
            c == Conn("ReadFrameFlags", n, conn.hasMore, conn.frames)
            q == IF k.ping /\ k.size \in PingMin .. PingMax THEN Answer(o, k.size) ELSE o
            p == ParseCommand(o)
<1>1. p.pos = Behind /\ p.conn = c /\ p.out = q /\ p.item = <<n>>
  BY DEF ParseCommand, Parsed
<1>2. c.state = "ReadFrameFlags" /\ c.of = n /\ c.frames = conn.frames
  BY DEF Conn
<1>3. c.hasMore = conn.hasMore
  BY DEF Conn
<1>. HIDE DEF p, c
<1>4. /\ o.wp \in 0 .. BufCap /\ o.rp \in 0 .. o.wp
      /\ Unfinished(stream, conn) /\ Complete(stream, conn, yielded) /\ Len(stream) \in Nat
      /\ StreamType /\ conn.hasMore \in BOOLEAN
  BY ReadyFacts
<1>5. /\ n \in 1 .. Len(stream) /\ ParsedOf(conn) = n - 1
      /\ InPlace(stream, End, c, q, Behind) /\ ParsedOf(c) = n
  BY <1>2, BodyEnds
<1>6. q.wp \in 0 .. BufCap /\ q.rp \in 0 .. q.wp
  <2>1. k.size \in Nat
    BY <1>5, FrameFacts
  <2>2. Answer(o, k.size).wp \in 0 .. BufCap /\ Answer(o, k.size).rp \in 0 .. Answer(o, k.size).wp
    BY <2>1, <1>4, AnswerKeeps
  <2>. QED BY <2>2, <1>4
<1>. HIDE DEF q
<1>7. c.state \in States /\ c.of \in 0 .. Len(stream) /\ c.hasMore \in BOOLEAN
  BY <1>2, <1>3, <1>4, <1>5, StatesAre
<1>8. Unfinished(stream, c)
  BY <1>2, <1>4 DEF Unfinished, InFrame
<1>9. <<n>> # <<>> /\ <<n>> \in Seq(Nat) /\ <<n>>[1] = n /\ ~IsMessage(stream, <<n>>)
  BY <1>5 DEF IsMessage
<1>10. Complete(stream, c, Append(yielded, <<n>>))
  <2>1. /\ yielded \in Events /\ \A i \in 1 .. Len(yielded) : Whole(stream, yielded[i])
        /\ InMessages(stream, yielded) \o conn.frames = DataUpto(stream)[n - 1]
    BY <1>4, <1>5 DEF Complete
  <2>2. InMessages(stream, Append(yielded, <<n>>)) = InMessages(stream, yielded)
    BY <2>1, <1>9, InMessagesAppend
  <2>3. DataUpto(stream)[n] = DataUpto(stream)[n - 1]
    BY <1>4, <1>5, DataStep
  <2>4. /\ Append(yielded, <<n>>) \in Events
        /\ \A i \in 1 .. Len(Append(yielded, <<n>>)) :
             \/ i \in 1 .. Len(yielded) /\ Append(yielded, <<n>>)[i] = yielded[i]
             \/ Append(yielded, <<n>>)[i] = <<n>>
    <3>. DEFINE m == <<n>>
    <3>1. m \in Seq(Nat)
      BY <1>9
    <3>. HIDE DEF m
    <3>2. /\ Append(yielded, m) \in Events
          /\ \A i \in 1 .. Len(Append(yielded, m)) :
             \/ i \in 1 .. Len(yielded) /\ Append(yielded, m)[i] = yielded[i]
             \/ Append(yielded, m)[i] = m
      BY <3>1, <2>1, AppendProperties DEF Events
    <3>. QED BY <3>2 DEF m
  <2>5. Whole(stream, <<n>>)
    BY <1>9 DEF Whole
  <2>. QED BY <2>1, <2>2, <2>3, <2>4, <2>5, <1>2, <1>5 DEF Complete
<1>. QED BY <1>1, <1>5, <1>6, <1>7, <1>8, <1>9, <1>10 DEF Good, p

(* The body of a frame of a message, which is kept, or yielded with what    *)
(* was kept if it is the last.                                              *)
LEMMA FrameKeeps ==
  ASSUME NEW o, Ready(o), conn.state = "ReadFrameBody", ~stream[conn.of].cmd
  PROVE  Good(ParseFrame(o))
<1>. DEFINE n == conn.of
            frames == Append(conn.frames, n)
            c == Conn("ReadFrameFlags", n, conn.hasMore, IF conn.hasMore THEN frames ELSE <<>>)
            p == ParseFrame(o)
<1>1. p.pos = Behind /\ p.conn = c /\ p.out = o /\ p.item = (IF conn.hasMore THEN <<>> ELSE frames)
  BY DEF ParseFrame, Parsed
<1>2. c.state = "ReadFrameFlags" /\ c.of = n /\ c.frames = (IF conn.hasMore THEN frames ELSE <<>>)
  BY DEF Conn
<1>3. c.hasMore = conn.hasMore
  BY DEF Conn
<1>. HIDE DEF p, c
<1>4. /\ o.wp \in 0 .. BufCap /\ o.rp \in 0 .. o.wp
      /\ Unfinished(stream, conn) /\ Complete(stream, conn, yielded) /\ Len(stream) \in Nat
      /\ StreamType /\ conn.hasMore \in BOOLEAN
      /\ conn.frames \in Seq(1 .. Len(stream)) /\ conn.frames \in Seq(Nat)
  BY ReadyFacts
<1>5. /\ n \in 1 .. Len(stream) /\ ParsedOf(conn) = n - 1
      /\ InPlace(stream, End, c, o, Behind) /\ ParsedOf(c) = n
  BY <1>2, BodyEnds
<1>6. c.state \in States /\ c.of \in 0 .. Len(stream) /\ c.hasMore \in BOOLEAN
  BY <1>2, <1>3, <1>4, <1>5, StatesAre
<1>7. conn.hasMore <=> stream[n].more
  BY <1>4, <1>5 DEF Unfinished, InFrame
<1>8. /\ frames \in Seq(1 .. Len(stream)) /\ frames # <<>> /\ Len(frames) = Len(conn.frames) + 1
      /\ frames[Len(frames)] = n /\ Len(conn.frames) \in Nat
      /\ \A j \in 1 .. Len(frames) : j = Len(frames) \/ (j \in 1 .. Len(conn.frames) /\ frames[j] = conn.frames[j])
  <2>. DEFINE S == 1 .. Len(stream)
              y == conn.frames
  <2>1. y \in Seq(S) /\ n \in S
    BY <1>4, <1>5
  <2>. HIDE DEF S, y
  <2>2. /\ Append(y, n) \in Seq(S) /\ Append(y, n) # <<>> /\ Len(Append(y, n)) = Len(y) + 1
        /\ Append(y, n)[Len(y) + 1] = n /\ Len(y) \in Nat
        /\ \A j \in 1 .. Len(y) : Append(y, n)[j] = y[j]
    BY <2>1, AppendProperties
  <2>3. \A j \in 1 .. Len(y) + 1 : j = Len(y) + 1 \/ j \in 1 .. Len(y)
    BY <2>2
  <2>. QED BY <2>2, <2>3 DEF S, y
<1>9. frames \in Seq(Nat)
  <2>1. n \in Nat
    BY <1>5
  <2>. QED BY <2>1, <1>4, AppendProperties
<1>10. \A j \in 1 .. Len(conn.frames) : ~stream[conn.frames[j]].cmd /\ stream[conn.frames[j]].more
  BY <1>4 DEF Unfinished
<1>11. /\ yielded \in Events /\ \A i \in 1 .. Len(yielded) : Whole(stream, yielded[i])
       /\ InMessages(stream, yielded) \o conn.frames = DataUpto(stream)[n - 1]
  BY <1>4, <1>5 DEF Complete
<1>12. DataUpto(stream)[n] = Append(DataUpto(stream)[n - 1], n)
  BY <1>4, <1>5, DataStep
<1>13. InMessages(stream, yielded) \o frames = DataUpto(stream)[n]
  <2>1. InMessages(stream, yielded) \in Seq(Nat)
    BY <1>11, InMessagesType
  <2>2. \A x, y \in Seq(Nat) : \A z \in Nat : x \o Append(y, z) = Append(x \o y, z)
    BY AppendConcat
  <2>3. n \in Nat
    BY <1>5
  <2>. QED BY <2>1, <2>2, <2>3, <1>4, <1>11, <1>12
<1>. HIDE DEF frames
<1>14. CASE conn.hasMore
  <2>1. p.item = <<>> /\ c.frames = frames
    BY <1>1, <1>2, <1>14
  <2>2. Unfinished(stream, c)
    <3>1. \A j \in 1 .. Len(frames) : ~stream[frames[j]].cmd /\ stream[frames[j]].more
      BY <1>7, <1>8, <1>10, <1>14
    <3>. QED BY <3>1, <2>1, <1>2, <1>8 DEF Unfinished, InFrame
  <2>3. Complete(stream, c, yielded)
    BY <2>1, <1>5, <1>11, <1>13 DEF Complete
  <2>. QED BY <2>1, <2>2, <2>3, <1>1, <1>4, <1>5, <1>6 DEF Good, p
<1>15. CASE ~conn.hasMore
  <2>1. p.item = frames /\ c.frames = <<>>
    BY <1>1, <1>2, <1>15
  <2>2. Unfinished(stream, c)
    BY <2>1, <1>2 DEF Unfinished, InFrame
  <2>3. \A j \in 1 .. Len(frames) : ~stream[frames[j]].cmd
    BY <1>8, <1>10
  <2>4. 1 \in 1 .. Len(frames) /\ DOMAIN frames = 1 .. Len(frames)
    BY <1>8
  <2>5. IsMessage(stream, frames)
    BY <2>3, <2>4 DEF IsMessage
  <2>6. Whole(stream, frames)
    <3>1. \A j \in 1 .. Len(frames) : stream[frames[j]].more <=> j < Len(frames)
      <4>1. ASSUME NEW j \in 1 .. Len(frames), j = Len(frames)
            PROVE  ~stream[frames[j]].more /\ ~(j < Len(frames))
        BY <4>1, <1>7, <1>8, <1>15
      <4>2. ASSUME NEW j \in 1 .. Len(frames), j \in 1 .. Len(conn.frames), frames[j] = conn.frames[j]
            PROVE  stream[frames[j]].more /\ j < Len(frames)
        BY <4>2, <1>8, <1>10
      <4>. QED BY <4>1, <4>2, <1>8
    <3>. QED BY <3>1, <2>4 DEF Whole
  <2>7. Complete(stream, c, Append(yielded, frames))
    <3>1. InMessages(stream, Append(yielded, frames)) = InMessages(stream, yielded) \o frames
      BY <2>5, <1>9, <1>11, InMessagesAppend
    <3>2. /\ Append(yielded, frames) \in Events
          /\ \A i \in 1 .. Len(Append(yielded, frames)) :
               \/ i \in 1 .. Len(yielded) /\ Append(yielded, frames)[i] = yielded[i]
               \/ Append(yielded, frames)[i] = frames
      BY <1>9, <1>11, AppendProperties DEF Events
    <3>3. InMessages(stream, yielded) \o frames \in Seq(Nat)
      BY <1>9, <1>11, InMessagesType, ConcatProperties
    <3>4. (InMessages(stream, yielded) \o frames) \o <<>> = InMessages(stream, yielded) \o frames
      BY <3>3
    <3>. QED BY <3>1, <3>2, <3>4, <2>1, <2>6, <1>5, <1>11, <1>13 DEF Complete
  <2>. QED BY <2>1, <2>2, <2>7, <1>1, <1>4, <1>5, <1>6, <1>8 DEF Good, p
<1>. QED BY <1>4, <1>14, <1>15

(* Whatever parse_item does to a state, it does it well.                    *)
LEMMA ParseKeeps ==
  ASSUME NEW o, Ready(o)
  PROVE  Good(ParseItem(o))
<1>1. conn.state \in GreetingStates \cup InFrame \cup {"ReadFrameFlags"}
  BY ReadyFacts, StatesAre
<1>2. CASE conn.state \in GreetingStates
  <2>1. ParseItem(o) = ParseGreeting(o)
    BY <1>2 DEF ParseItem, GreetingStates
  <2>. QED BY <2>1, <1>2, GreetingKeeps
<1>3. CASE conn.state = "ReadFrameFlags"
  <2>1. ParseItem(o) = ParseFlags(o)
    BY <1>3 DEF ParseItem
  <2>. QED BY <2>1, <1>3, FlagsKeeps
<1>4. CASE conn.state \in {"ReadFrameShort", "ReadFrameLong"}
  <2>1. ParseItem(o) = ParseLength(o)
    BY <1>4 DEF ParseItem
  <2>. QED BY <2>1, <1>4, LengthKeeps
<1>5. CASE conn.state = "ReadFrameBody" /\ stream[conn.of].cmd
  <2>1. ParseItem(o) = ParseCommand(o)
    BY <1>5 DEF ParseItem
  <2>. QED BY <2>1, <1>5, CommandKeeps
<1>6. CASE conn.state = "ReadFrameBody" /\ ~stream[conn.of].cmd
  <2>1. ParseItem(o) = ParseFrame(o)
    BY <1>6 DEF ParseItem
  <2>. QED BY <2>1, <1>6, FrameKeeps
<1>. QED BY <1>1, <1>2, <1>3, <1>4, <1>5, <1>6 DEF InFrame

-----------------------------------------------------------------------------
(* Nothing has come and nothing is known.                                   *)
LEMMA ZmtpInitInv == ZmtpInit => ZmtpInv
<1>. SUFFICES ASSUME ZmtpInit PROVE ZmtpInv
  OBVIOUS
<1>1. StreamType
  <2>1. stream \in Seq(Kinds)
    BY ZmtpAssumption DEF ZmtpInit
  <2>. QED BY <2>1 DEF ZmtpInit, StreamType
<1>2. Total \in Nat /\ Len(stream) \in Nat
  BY <1>1, EndType
<1>3. /\ conn.state = "InitSend" /\ conn.of = 0 /\ conn.frames = <<>>
      /\ out.rp = 0 /\ out.wp = 0
  BY DEF ZmtpInit, Conn, OutBuf
<1>4. conn.hasMore = FALSE
  BY DEF ZmtpInit, Conn
<1>5. BufCap \in Nat /\ SockCap \in Nat
  BY ZmtpAssumption
<1>6. ZmtpTypeOK
  <2>1. arrived \in 0 .. Total /\ taken \in 0 .. arrived /\ pos \in 0 .. taken /\ taken - pos <= BufCap
    BY <1>2, <1>5 DEF ZmtpInit
  <2>2. conn.state \in States /\ conn.of \in 0 .. Len(stream) /\ conn.hasMore \in BOOLEAN
    <3>1. "InitSend" \in States
      BY StatesAre DEF GreetingStates
    <3>2. 0 \in 0 .. Len(stream)
      BY <1>2
    <3>. QED BY <3>1, <3>2, <1>3, <1>4
  <2>3. out.wp \in 0 .. BufCap /\ out.rp \in 0 .. out.wp /\ room \in 0 .. SockCap
    BY <1>3, <1>5 DEF ZmtpInit
  <2>4. task \in {"out", "turn", "ended"} /\ {eof, inpEof, done, woken, readWaker, writeWaker} \subseteq BOOLEAN
    BY DEF ZmtpInit
  <2>. QED BY <2>1, <2>2, <2>3, <2>4 DEF ZmtpTypeOK
<1>7. InPlace(stream, End, conn, out, pos)
  <2>1. pos = 0
    BY DEF ZmtpInit
  <2>2. GreetingPlace(conn, pos) /\ GreetingOut(conn, out)
    BY <2>1, <1>3 DEF GreetingPlace, GreetingOut
  <2>. QED BY <2>2, <1>3 DEF InPlace, InFrame
<1>8. Unfinished(stream, conn)
  BY <1>3 DEF Unfinished, InFrame
<1>9. Complete(stream, conn, yielded)
  <2>1. yielded = <<>> /\ <<>> \in Events /\ Len(<<>>) = 0 /\ <<>> \o <<>> = <<>>
    BY DEF ZmtpInit, Events
  <2>2. DataUpto(stream)[0] = <<>> /\ ParsedOf(conn) = 0
    BY <1>1, <1>3, DataIs DEF DataOf, ParsedOf, StreamType
  <2>3. InMessages(stream, <<>>) = <<>>
    BY NoMessages
  <2>. QED BY <2>1, <2>2, <2>3, <1>3 DEF Complete
<1>10. task # "turn"
  BY DEF ZmtpInit
<1>. QED BY <1>1, <1>6, <1>7, <1>8, <1>9, <1>10 DEF ZmtpInv

(* What output and input do before parse_item.                              *)
LEMMA IoResults ==
  ASSUME ZmtpInv, NEW w \in WriteResults, NEW r \in ReadResults
  PROVE  /\ w.n \in Nat /\ out.rp + w.n \in 0 .. out.wp /\ room - w.n \in 0 .. SockCap
         /\ r.upto \in taken .. arrived /\ r.upto - pos <= BufCap
<1>1. /\ StreamType /\ out.wp \in 0 .. BufCap /\ out.rp \in 0 .. out.wp /\ room \in 0 .. SockCap
      /\ arrived \in 0 .. Total /\ taken \in 0 .. arrived /\ pos \in 0 .. taken /\ taken - pos <= BufCap
  BY DEF ZmtpInv, ZmtpTypeOK
<1>2. BufCap \in Nat /\ SockCap \in Nat /\ Total \in Nat
  BY <1>1, ZmtpAssumption, EndType
<1>3. w.n \in Nat /\ w.n <= Filled(out) /\ w.n <= room
  <2>1. Filled(out) \in Nat /\ room \in Nat
    BY <1>1, <1>2 DEF Filled
  <2>2. w.n = 0 \/ w.n \in {k \in 1 .. Filled(out) : k <= room}
    BY DEF WriteResults
  <2>. QED BY <2>1, <2>2
<1>4. out.rp + w.n \in 0 .. out.wp /\ room - w.n \in 0 .. SockCap
  BY <1>1, <1>2, <1>3 DEF Filled
<1>5. r.upto = taken \/ r.upto \in {k \in taken + 1 .. arrived : k - pos <= BufCap}
  BY DEF ReadResults
<1>6. r.upto \in taken .. arrived /\ r.upto - pos <= BufCap
  BY <1>1, <1>2, <1>5
<1>. QED BY <1>3, <1>4, <1>6

(* A state needs some number of bytes.                                      *)
LEMMA NeedMinType ==
  ASSUME StreamType, ZmtpTypeOK, InPlace(stream, End, conn, out, pos)
  PROVE  NeedMin(conn) \in Nat
<1>1. conn.state \in States /\ conn.of \in 0 .. Len(stream) /\ Len(stream) \in Nat
  BY DEF ZmtpTypeOK, StreamType
<1>2. CASE conn.state = "ReadFrameBody"
  <2>1. conn.of \in 1 .. Len(stream)
    BY <1>1, <1>2 DEF InPlace, InFrame
  <2>2. stream[conn.of] \in Kinds
    BY <2>1, ElementOfSeq DEF StreamType
  <2>3. stream[conn.of].size \in Nat
    BY <2>2, LengthType
  <2>. QED BY <1>2, <2>3 DEF NeedMin
<1>3. CASE conn.state = "InitSend"
  BY <1>3 DEF NeedMin
<1>4. CASE conn.state \in DOMAIN Need
  <2>1. conn.state # "ReadFrameBody" /\ conn.state # "InitSend"
    BY <1>4, StatesAre
  <2>2. Need[conn.state] \in Nat
    BY <1>4, StatesAre
  <2>. QED BY <2>1, <2>2 DEF NeedMin
<1>. QED BY <1>1, <1>2, <1>3, <1>4 DEF States

(* A turn of loop_body: input, output and one parse_item.                   *)
LEMMA TurnKeeps ==
  ASSUME ZmtpInv, Turn
  PROVE  ZmtpInv'
<1>1. task = "turn" /\ ~done /\ stream' = stream /\ reject' = reject /\ arrived' = arrived /\ eof' = eof
  BY DEF Turn, ZmtpInv
<1>2. StreamType /\ ZmtpTypeOK /\ InPlace(stream, End, conn, out, pos)
      /\ Unfinished(stream, conn) /\ Complete(stream, conn, yielded)
  BY <1>1 DEF ZmtpInv
<1>3. End' = End /\ Total' = Total /\ StreamType'
  BY <1>1, <1>2 DEF End, Total, StreamType
<1>4. PICK w \in WriteResults, r \in ReadResults :
       LET parses == r.upto - pos >= NeedMin(conn)
           fails  == parses /\ ParseFails
           o      == OutBuf(out.rp + w.n, out.wp)
           p      == IF parses THEN ParseItem(o) ELSE Parsed(pos, conn, o, <<>>)
           yields == p.item # <<>>
       IN /\ room' = room - w.n /\ out' = p.out
          /\ taken' = r.upto /\ inpEof' = (inpEof \/ r.res = "Done")
          /\ pos' = p.pos /\ conn' = p.conn
          /\ writeWaker' = (writeWaker \/ w.res = "Pend")
          /\ readWaker' = (readWaker \/ r.res = "Pend")
          /\ done' = fails
          /\ yielded' = IF yields THEN Append(yielded, p.item) ELSE yielded
          /\ task' = IF ~yields /\ ~fails /\ GoesOn(w.res, r.res, parses) THEN "turn" ELSE "out"
          /\ woken' = (woken \/ yields \/ fails)
  BY DEF Turn
<1>. DEFINE parses == r.upto - pos >= NeedMin(conn)
            fails  == parses /\ ParseFails
            o      == OutBuf(out.rp + w.n, out.wp)
            p      == IF parses THEN ParseItem(o) ELSE Parsed(pos, conn, o, <<>>)
            yields == p.item # <<>>
<1>5. /\ w.n \in Nat /\ out.rp + w.n \in 0 .. out.wp /\ room - w.n \in 0 .. SockCap
      /\ r.upto \in taken .. arrived /\ r.upto - pos <= BufCap
  BY IoResults
<1>6. o.wp = out.wp /\ o.rp = out.rp + w.n
  BY DEF OutBuf
<1>7. /\ Total \in Nat /\ BufCap \in Nat /\ arrived \in 0 .. Total /\ taken \in 0 .. arrived
      /\ pos \in 0 .. taken /\ out.wp \in 0 .. BufCap
  BY <1>2, EndType, PutLens DEF ZmtpTypeOK
<1>8. /\ p.pos \in pos .. r.upto
      /\ p.conn.state \in States /\ p.conn.of \in 0 .. Len(stream) /\ p.conn.hasMore \in BOOLEAN
      /\ p.out.wp \in 0 .. BufCap /\ p.out.rp \in 0 .. p.out.wp
      /\ ~fails => InPlace(stream, End, p.conn, p.out, p.pos)
      /\ Unfinished(stream, p.conn)
      /\ Complete(stream, p.conn, IF yields THEN Append(yielded, p.item) ELSE yielded)
  <2>1. CASE parses
    <3>1. NeedMin(conn) \in Nat
      BY <1>2, NeedMinType
    <3>2. Behind <= r.upto /\ Behind \in pos .. r.upto /\ Behind <= Total
      BY <2>1, <3>1, <1>5, <1>7 DEF Behind
    <3>. HIDE DEF parses
    <3>3. p = ParseItem(o)
      BY <2>1
    <3>4. Ready(o)
      <4>. HIDE DEF o, p
      <4>1. o.wp \in 0 .. out.wp /\ o.rp \in 0 .. o.wp
        BY <1>5, <1>6, <1>7
      <4>. QED BY <4>1, <1>1, <3>2 DEF Ready
    <3>. HIDE DEF o, p
    <3>5. Good(p)
      BY <3>3, <3>4, ParseKeeps
    <3>. QED BY <3>2, <3>5, <2>1 DEF Good
  <2>2. CASE ~parses
    <3>. HIDE DEF o, parses
    <3>1. p.pos = pos /\ p.conn = conn /\ p.out = o /\ p.item = <<>>
      BY <2>2 DEF Parsed
    <3>2. InPlace(stream, End, conn, o, pos)
      BY <1>2, <1>6 DEF InPlace, GreetingOut
    <3>3. o.wp \in 0 .. BufCap /\ o.rp \in 0 .. o.wp
      BY <1>5, <1>6, <1>7
    <3>4. conn.state \in States /\ conn.of \in 0 .. Len(stream) /\ conn.hasMore \in BOOLEAN
      BY <1>2 DEF ZmtpTypeOK
    <3>5. pos \in pos .. r.upto
      BY <1>5, <1>7
    <3>. HIDE DEF p
    <3>. QED BY <3>1, <3>2, <3>3, <3>4, <3>5, <1>2
  <2>. QED BY <2>1, <2>2
<1>9. /\ room' = room - w.n /\ out' = p.out /\ taken' = r.upto /\ pos' = p.pos /\ conn' = p.conn
      /\ yielded' = IF yields THEN Append(yielded, p.item) ELSE yielded
  BY <1>4
<1>10. /\ inpEof' \in BOOLEAN /\ writeWaker' \in BOOLEAN /\ readWaker' \in BOOLEAN
       /\ woken' \in BOOLEAN /\ done' \in BOOLEAN
       /\ task' \in {"out", "turn", "ended"} /\ (task' = "turn" => ~done') /\ (~done' => ~fails)
  BY <1>4
<1>. HIDE DEF p, o, fails, parses
<1>11. ZmtpTypeOK'
  <2>1. arrived' \in 0 .. Total' /\ taken' \in 0 .. arrived' /\ pos' \in 0 .. taken' /\ taken' - pos' <= BufCap
    <3>1. p.pos \in 0 .. r.upto /\ r.upto \in 0 .. arrived /\ r.upto - p.pos <= BufCap
      BY <1>5, <1>7, <1>8
    <3>. QED BY <3>1, <1>1, <1>3, <1>7, <1>9
  <2>2. conn'.state \in States /\ conn'.of \in 0 .. Len(stream') /\ conn'.hasMore \in BOOLEAN
    BY <1>1, <1>8, <1>9
  <2>3. out'.wp \in 0 .. BufCap /\ out'.rp \in 0 .. out'.wp /\ room' \in 0 .. SockCap
    BY <1>5, <1>8, <1>9
  <2>4. eof' \in BOOLEAN
    BY <1>1, <1>2 DEF ZmtpTypeOK
  <2>. QED BY <2>1, <2>2, <2>3, <2>4, <1>10 DEF ZmtpTypeOK
<1>12. ~done' => InPlace(stream', End', conn', out', pos')
  BY <1>1, <1>3, <1>8, <1>9, <1>10
<1>13. Unfinished(stream', conn') /\ Complete(stream', conn', yielded')
  BY <1>1, <1>8, <1>9
<1>. QED BY <1>3, <1>10, <1>11, <1>12, <1>13 DEF ZmtpInv

(* What the peer and the poll do leaves the parser alone.                   *)
LEMMA ZmtpNextInv == ZmtpInv /\ [ZmtpNext]_zmtpVars => ZmtpInv'
<1>. SUFFICES ASSUME ZmtpInv, [ZmtpNext]_zmtpVars PROVE ZmtpInv'
  OBVIOUS
<1>1. CASE Turn
  BY <1>1, TurnKeeps
<1>2. ASSUME UNCHANGED <<stream, reject, taken, pos, inpEof, conn, out, yielded>>,
             arrived' \in arrived .. Total, room' \in 0 .. SockCap,
             {eof', done', woken', readWaker', writeWaker'} \subseteq BOOLEAN,
             task' \in {"out", "turn", "ended"}, task' = "turn" => ~done', done => done'
      PROVE  ZmtpInv'
  <2>1. StreamType /\ ZmtpTypeOK
    BY DEF ZmtpInv
  <2>2. End' = End /\ Total' = Total /\ StreamType' /\ Total \in Nat
    BY <1>2, <2>1, EndType DEF End, Total, StreamType
  <2>3. arrived' \in 0 .. Total /\ taken \in 0 .. arrived'
    BY <1>2, <2>1, <2>2 DEF ZmtpTypeOK
  <2>4. ZmtpTypeOK'
    BY <1>2, <2>1, <2>2, <2>3 DEF ZmtpTypeOK
  <2>5. ~done' => InPlace(stream', End', conn', out', pos')
    BY <1>2, <2>2 DEF ZmtpInv
  <2>6. Unfinished(stream', conn') /\ Complete(stream', conn', yielded')
    BY <1>2 DEF ZmtpInv
  <2>. QED BY <1>2, <2>2, <2>4, <2>5, <2>6 DEF ZmtpInv
<1>3. /\ ZmtpTypeOK /\ Total \in Nat /\ SockCap \in Nat /\ (task = "turn" => ~done)
  BY EndType, ZmtpAssumption DEF ZmtpInv
<1>4. /\ arrived \in arrived .. Total /\ room \in 0 .. SockCap /\ SockCap \in 0 .. SockCap
      /\ {eof, done, woken, readWaker, writeWaker} \subseteq BOOLEAN
      /\ task \in {"out", "turn", "ended"}
  BY <1>3 DEF ZmtpTypeOK
<1>5. CASE Arrive
  <2>1. PICK n \in arrived + 1 .. Total : arrived' = n
    BY <1>5 DEF Arrive
  <2>2. arrived' \in arrived .. Total
    BY <2>1, <1>3 DEF ZmtpTypeOK
  <2>3. UNCHANGED <<stream, reject, taken, pos, inpEof, conn, out, yielded, eof, done, room, task, writeWaker>>
        /\ readWaker' = FALSE /\ woken' = (woken \/ readWaker)
    BY <1>5 DEF Arrive, inVars
  <2>. QED BY <2>2, <2>3, <1>2, <1>3, <1>4
<1>6. CASE PeerCloses
  <2>1. UNCHANGED <<stream, reject, taken, pos, inpEof, conn, out, yielded, arrived, done, room, task, writeWaker>>
        /\ eof' = TRUE /\ readWaker' = FALSE /\ woken' = (woken \/ readWaker)
    BY <1>6 DEF PeerCloses, inVars
  <2>. QED BY <2>1, <1>2, <1>3, <1>4
<1>7. CASE PeerReads
  <2>1. UNCHANGED <<stream, reject, taken, pos, inpEof, conn, out, yielded, arrived, done, eof, task, readWaker>>
        /\ room' = SockCap /\ writeWaker' = FALSE /\ woken' = (woken \/ writeWaker)
    BY <1>7 DEF PeerReads, inVars
  <2>. QED BY <2>1, <1>2, <1>3, <1>4
<1>8. CASE TurnFails
  <2>1. UNCHANGED <<stream, reject, taken, pos, inpEof, conn, out, yielded, arrived, eof, room, readWaker, writeWaker>>
        /\ done' = TRUE /\ woken' = TRUE /\ task' = "out"
    BY <1>8 DEF TurnFails, inVars
  <2>. QED BY <2>1, <1>2, <1>3, <1>4
<1>9. CASE Poll
  <2>1. UNCHANGED <<stream, reject, taken, pos, inpEof, conn, out, yielded, arrived, eof, room, done, readWaker, writeWaker>>
        /\ woken' = FALSE /\ task' = IF done THEN "ended" ELSE "turn"
    BY <1>9 DEF Poll, inVars
  <2>. QED BY <2>1, <1>2, <1>3, <1>4
<1>10. CASE UNCHANGED zmtpVars
  <2>1. UNCHANGED <<stream, reject, taken, pos, inpEof, conn, out, yielded, arrived, eof, room, done, task,
                    woken, readWaker, writeWaker>>
    BY <1>10 DEF zmtpVars, inVars, wakeVars
  <2>. QED BY <2>1, <1>2, <1>3, <1>4
<1>. QED BY <1>1, <1>5, <1>6, <1>7, <1>8, <1>9, <1>10 DEF ZmtpNext

(* So the invariant holds always.                                           *)
LEMMA ZmtpInvAlways == ZmtpSpec => []ZmtpInv
BY ZmtpInitInv, ZmtpNextInv, PTL DEF ZmtpSpec

(* No more is parsed than was read, no more is read than has come, and      *)
(* neither buffer gets more than it has room for.                           *)
THEOREM ZmtpTypeCorrect == ZmtpSpec => []ZmtpTypeOK
<1>1. ZmtpInv => ZmtpTypeOK
  BY DEF ZmtpInv
<1>. QED BY <1>1, ZmtpInvAlways, PTL

(* parse_item yields messages whole and in order, a command between two     *)
(* frames of a message notwithstanding, however the socket cuts the input.  *)
THEOREM MessagesWholeCorrect == ZmtpSpec => []MessagesWhole
<1>1. ZmtpInv => MessagesWhole
  <2>. SUFFICES ASSUME ZmtpInv PROVE MessagesWhole
    OBVIOUS
  <2>1. ZmtpTypeOK /\ Complete(stream, conn, yielded)
    BY DEF ZmtpInv
  <2>2. FramesParsed = ParsedOf(conn)
    BY DEF FramesParsed, ParsedOf
  <2>3. DOMAIN yielded = 1 .. Len(yielded)
    BY <2>1 DEF Complete, Events
  <2>4. \A i \in DOMAIN yielded : Whole(stream, yielded[i])
    BY <2>1, <2>3 DEF Complete
  <2>. QED BY <2>1, <2>2, <2>4 DEF Complete, Whole, MessagesWhole
<1>. QED BY <1>1, ZmtpInvAlways, PTL
=============================================================================
