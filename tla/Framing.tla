------------------------------- MODULE Framing -------------------------------
(***************************************************************************)
(* The frames on a named pipe: writeLenPrefixed of the connector (write.go)*)
(* and the reader of handleEventPipe in the DLL (main.go).  A frame is its *)
(* length, modulo LenMod, followed by its bytes; the reader has a buffer   *)
(* of BufSize bytes and takes a frame for an event only if the bytes it    *)
(* read decode, which no proper prefix of a JSON object does.              *)
(***************************************************************************)
EXTENDS Naturals, Sequences, SequencesExt

CONSTANTS
  LenMod,   \* the lengths a header can announce (2^16 in the code)
  BufSize   \* the buffer of handleEventPipe (16384 in the code)

ASSUME FramingAssumption == BufSize \in Nat \ {0} /\ LenMod \in Nat /\ BufSize < LenMod

(* Broken variant: the header announces the whole frame, itself included.  *)
HeaderOfWhole(i, n) == [frame |-> i, at |-> 0, val |-> (n + 1) % LenMod]

(* A byte on the pipe: of which frame it is, and the number a header is.   *)
Header(i, n) == [frame |-> i, at |-> 0, val |-> n % LenMod]
Data(i, n)   == [j \in 1..n |-> [frame |-> i, at |-> j, val |-> 0]]

(* writeLenPrefixed, for frames with the given lengths one after the other. *)
Written(lens) ==
  FlattenSeq([i \in DOMAIN lens |-> <<Header(i, lens[i])>> \o Data(i, lens[i])])

(* json.Unmarshal accepts a whole frame and nothing else. *)
Decodes(lens, bytes) ==
  bytes # <<>> /\ bytes = Data(bytes[1].frame, lens[bytes[1].frame])

(* handleEventPipe: the frames it handles of these bytes before it returns *)
(* an error or waits for more.                                             *)
Handled(lens, bytes) ==
  LET from[p \in 1..Len(bytes) + 1] ==
        IF p > Len(bytes) THEN <<>>
        ELSE LET size == bytes[p].val
                 msg  == SubSeq(bytes, p + 1, p + size)
             IN IF size <= BufSize /\ p + size <= Len(bytes) /\ Decodes(lens, msg)
                THEN <<msg[1].frame>> \o from[p + size + 1]
                ELSE <<>>
  IN from[1]

(* Frames that fit the buffer arrive whole and in order, however many of   *)
(* their bytes got through before the pipe broke; a frame that does not    *)
(* fit ends the connection, and no part of it or of what follows is taken  *)
(* for an event, although its header may announce any smaller length.      *)
ReadBack(lens) ==
  LET bytes == Written(lens)
      arrived(cut, k) == /\ \A i \in 1..k : lens[i] <= BufSize
                         /\ Len(Written(SubSeq(lens, 1, k))) <= cut
  IN \A cut \in 0..Len(bytes) :
       LET got == Handled(lens, SubSeq(bytes, 1, cut)) IN
         /\ got = [i \in 1..Len(got) |-> i]
         /\ \A k \in 1..Len(lens) : k <= Len(got) <=> arrived(cut, k)
=============================================================================
