------------------------------ MODULE SKBuffer ------------------------------
(***************************************************************************)
(* MySKBuffer (net/buffer/MySKBuffer.h): one malloc'ed block holding a     *)
(* packed head (capacity_, readable_, writeable_) and the data.  Bytes     *)
(* between readable_ and writeable_ are unread.  When an append does not   *)
(* fit, sort() moves the unread bytes to the front or incr() moves them    *)
(* to a block twice as large.                                              *)
(*                                                                         *)
(* Bytes are abstracted to their number in the stream: the k-th byte ever  *)
(* appended is k, and Blank stands for a byte that holds no appended data  *)
(* (zeroed, or not initialised: InitHead leaves the last 12 bytes so).     *)
(* `written` and `consumed` only count; the code has no such counters.     *)
(* What a write past the block destroys is undefined: the run ends there.  *)
(***************************************************************************)
EXTENDS Integers

CONSTANTS
  InitCapacity, \* the constructor's argument
  HeadTail,     \* sizeof(readable_) + sizeof(writeable_): 8 in the code
  Requests,     \* the lengths callers ask for
  MaxWritten    \* bound on the bytes appended in one behaviour

ASSUME BufferAssumption ==
  /\ HeadTail \in Nat
  /\ InitCapacity \in Nat \ {0}
  /\ Requests \subseteq Nat \ {0}  \* 1024 and 1500 to read, and a reply's length
  /\ MaxWritten \in Nat

Blank == 0

VARIABLES
  capacity,     \* head_->capacity_
  readable,     \* head_->readable_
  writeable,    \* head_->writeable_
  minCapacity,  \* min_capacity_
  data,         \* data_[0 .. capacity - 1]
  reserved,     \* length handed out by writeable() and not yet moved over
  overrun,      \* the length asked for by the append that left the block
  written,      \* bytes appended so far
  consumed      \* bytes taken out so far

vars == <<capacity, readable, writeable, minCapacity, data, reserved,
          overrun, written, consumed>>

ReadableLength == writeable - readable
WriteableLength == capacity - ReadableLength

Init ==
  /\ capacity = InitCapacity
  /\ readable = 0 /\ writeable = 0
  /\ minCapacity = InitCapacity
  /\ data = [i \in 0 .. InitCapacity - 1 |-> Blank]
  /\ reserved = 0 /\ overrun = 0
  /\ written = 0 /\ consumed = 0

-----------------------------------------------------------------------------
(* The layouts an append can find or make: a record of the three head      *)
(* fields, min_capacity_ and the data.                                     *)

Current == [cap |-> capacity, r |-> readable, w |-> writeable,
            min |-> minCapacity, bytes |-> data]

(* An empty buffer starts again at offset 0. *)
Rewound(b) == IF b.r = b.w THEN [b EXCEPT !.r = 0, !.w = 0] ELSE b

(* Mutant: sort() that moves one byte too few. *)
SortedShort(b) ==
  IF b.r = 0 THEN b
  ELSE [b EXCEPT !.r = 0, !.w = b.w - b.r,
                 !.bytes = [i \in 0 .. b.cap - 1 |->
                              IF i < b.w - b.r - 1 THEN b.bytes[i + b.r] ELSE Blank]]

(* sort(): the unread bytes move to the front, the rest is zeroed. *)
Sorted(b) ==
  IF b.r = 0
  THEN b
  ELSE [b EXCEPT !.r = 0,
                 !.w = b.w - b.r,
                 !.bytes = [i \in 0 .. b.cap - 1 |->
                              IF i < b.w - b.r THEN b.bytes[i + b.r] ELSE Blank]]

(* incr() before its final sort(): InitHead allocates capacity_ +          *)
(* min_capacity_ and makes that the new min_capacity_; the memcpy takes    *)
(* capacity_ bytes starting at readable_, of which HeadTail are the head.  *)
Extended(b) ==
  [cap   |-> b.cap + b.min,
   r     |-> b.r,
   w     |-> b.w,
   min   |-> b.cap + b.min,
   bytes |-> [i \in 0 .. (b.cap + b.min) - 1 |->
                IF i < b.cap - HeadTail THEN b.bytes[i] ELSE Blank]]

Grown(b) == Sorted(Extended(b))

(* The first step of writeable() and getWriteableAndMove().  One growth is *)
(* all there is, however long n.                                           *)
MadeRoom(b, n) ==
  IF b.w + n <= b.cap THEN b
  ELSE IF b.cap - (b.w - b.r) >= n THEN Sorted(b)
  ELSE Grown(b)

SetLayout(b) ==
  /\ capacity' = b.cap
  /\ readable' = b.r
  /\ minCapacity' = b.min

(* n bytes of the stream stored from offset at. *)
Stored(bytes, at, n) ==
  [i \in DOMAIN bytes |-> IF i \in at .. at + n - 1 THEN written + 1 + i - at
                                                    ELSE bytes[i]]

Leaves(at, n, cap, asked) == overrun' = IF at + n > cap THEN asked ELSE 0
-----------------------------------------------------------------------------
(* writeable(n): room for n bytes, writeable_ stays where it is. *)
Writeable(n) ==
  LET b == MadeRoom(Rewound(Current), n)
  IN  /\ reserved = 0
      /\ written + n <= MaxWritten
      /\ SetLayout(b)
      /\ writeable' = b.w
      /\ data' = b.bytes
      /\ reserved' = n
      /\ UNCHANGED <<overrun, written, consumed>>

(* The caller fills m <= reserved bytes and calls moveWriteable(m); a read *)
(* that returned nothing moves nothing (m = 0).                            *)
MoveWriteable(m) ==
  /\ reserved > 0 /\ m <= reserved
  /\ data' = Stored(data, writeable, m)
  /\ Leaves(writeable, m, capacity, reserved)
  /\ writeable' = writeable + m
  /\ written' = written + m
  /\ reserved' = 0
  /\ UNCHANGED <<capacity, readable, minCapacity, consumed>>

(* getWriteableAndMove(n), and the caller's copy of n bytes. *)
GetWriteableAndMove(n) ==
  LET b == MadeRoom(Rewound(Current), n)
  IN  /\ reserved = 0
      /\ written + n <= MaxWritten
      /\ SetLayout(b)
      /\ writeable' = b.w + n
      /\ data' = Stored(b.bytes, b.w, n)
      /\ Leaves(b.w, n, b.cap, n)
      /\ written' = written + n
      /\ UNCHANGED <<reserved, consumed>>

(* getReadableAndMove(&n): at most the unread bytes; nothing when empty. *)
GetReadableAndMove(n) ==
  LET len == IF n > ReadableLength THEN ReadableLength ELSE n
  IN  /\ reserved = 0
      /\ ReadableLength # 0
      /\ readable' = readable + len
      /\ consumed' = consumed + len
      /\ UNCHANGED <<capacity, writeable, minCapacity, data, reserved, overrun, written>>

(* moveReadable(n): no check in the code; onWrite and handlers pass a      *)
(* length that readable() returned.                                        *)
MoveReadable(n) ==
  /\ reserved = 0
  /\ n <= ReadableLength
  /\ readable' = readable + n
  /\ consumed' = consumed + n
  /\ UNCHANGED <<capacity, writeable, minCapacity, data, reserved, overrun, written>>

(* reset() (MyClient::disconnect): the unread bytes are dropped. *)
Reset ==
  /\ reserved = 0
  /\ readable' = 0 /\ writeable' = 0
  /\ data' = [i \in DOMAIN data |-> Blank]
  /\ consumed' = written
  /\ UNCHANGED <<capacity, minCapacity, reserved, overrun, written>>

Next ==
  /\ overrun = 0
  /\ \/ \E n \in Requests : Writeable(n)
     \/ \E m \in 0 .. reserved : MoveWriteable(m)
     \/ \E n \in Requests : GetWriteableAndMove(n)
     \/ \E n \in Requests : GetReadableAndMove(n)
     \/ \E n \in Requests : MoveReadable(n)
     \/ Reset

Spec == Init /\ [][Next]_vars
-----------------------------------------------------------------------------
TypeOK ==
  /\ capacity \in Nat \ {0}
  /\ readable \in Nat
  /\ writeable \in Nat
  /\ minCapacity \in Nat \ {0}
  /\ data \in [0 .. capacity - 1 -> Nat]
  /\ reserved \in Nat /\ overrun \in Nat
  /\ written \in Nat
  /\ consumed \in Nat

(* What a single growth cannot make room for: more than the buffer was     *)
(* made for, and more than half of what it has grown to.                   *)
TooLong(n) == n > InitCapacity /\ 2 * n > capacity

(* No append is given memory past the block but one that is too long: a    *)
(* single doubling in incr() is enough for every other one, because        *)
(* min_capacity_ grows with capacity_.  Reads are shorter than the block;  *)
(* replies need not be.                                                    *)
InBounds ==
  /\ readable <= writeable
  /\ overrun = 0 /\ writeable + reserved > capacity => TooLong(reserved)
  /\ overrun # 0 => TooLong(overrun)

(* No byte is lost from or added to the unread window: the window is as    *)
(* long as what was appended and not yet taken.                            *)
NothingDropped == written - consumed = writeable - readable

Expected(i) == consumed + 1 + (i - readable)

(* sort() and incr() never put a byte in another byte's place: an unread   *)
(* position holds its byte of the stream or was blanked.                   *)
NoByteMisplaced ==
  overrun = 0 =>
    \A i \in readable .. writeable - 1 : data[i] \in {Expected(i), Blank}

(* Until the block has been reallocated, a reader gets exactly the bytes   *)
(* that were appended, in order.                                           *)
IntactUntilGrown ==
  overrun = 0 /\ capacity = InitCapacity =>
    \A i \in readable .. writeable - 1 : data[i] = Expected(i)

(* However appends, reads, sort() and incr() alternate, no call but a too  *)
(* long one leaves the block, and the unread window is that of the stream, *)
(* byte by byte, but for the bytes a reallocation leaves blank.            *)
StreamKept == InBounds /\ NothingDropped /\ NoByteMisplaced /\ IntactUntilGrown

(* What the class comment promises of the automatic extension: the unread  *)
(* bytes survive it.                                                       *)
StreamIntact ==
  overrun = 0 => \A i \in readable .. writeable - 1 : data[i] = Expected(i)
=============================================================================
