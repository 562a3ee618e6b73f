----------------------------- MODULE DataProofs -----------------------------
(***************************************************************************)
(* Proofs about the parts that only hold data: SKBuffer, Framing,          *)
(* TimeoutMap, Database, Redis, PropertyTree and ConfigParser.             *)
(*                                                                         *)
(* SKBuffer, for every capacity, head size and set of request lengths.     *)
(* sort() and incr() are shown to preserve what a layout promises          *)
(* (LayoutOK); the inductive invariant Inv says that the current fields    *)
(* form such a layout and that min_capacity_ follows capacity_, without    *)
(* which InBounds is not inductive: it is the reason why the one growth    *)
(* step of incr() is enough for every request but those that are TooLong.  *)
(*                                                                         *)
(* Framing, for packets of any number and any lengths that hold a head,    *)
(* and pieces of any size (StreamInv).                                     *)
(*                                                                         *)
(* TimeoutMap: the values and the slices agree (Agree), for any keys,      *)
(* values, timeout and movements of the clock, and so what DoTimeout takes *)
(* by slices is what is too old by values (TimeoutsRight).                 *)
(*                                                                         *)
(* Database, for any statements: CallInv adds to Reported what each step of*)
(* a call has done so far.                                                 *)
(*                                                                         *)
(* Redis, for any finite number of clients: RedisInv says where a list     *)
(* element can be (Apart), which of the places a push has spoken of (Told),*)
(* and what a client has left behind at each step (Progress).  The number  *)
(* of places Conserved counts does not bound itself: a pop adds a place    *)
(* and takes another away.                                                 *)
(*                                                                         *)
(* PropertyTree, for any paths, keys and bases: TreeInv restates what is   *)
(* read after the calls made so far as what the nodes hold (SetHeld,       *)
(* PushesHeld).  What a push onto a node nobody touched by hand does needs *)
(* to know all children of that node, not only the elements read.          *)
(*                                                                         *)
(* ConfigParser, for documents of any shape and any size: ParseInv says    *)
(* what was filed lies behind the pass and still has its node (Found), and *)
(* that every text is filed, lost for a cause, or still ahead (Ahead).     *)
(***************************************************************************)
EXTENDS SKBuffer, Framing, TimeoutMap, Database, Redis, ConfigParser,
        FiniteSetTheorems, WellFoundedInduction, TLAPS

(* The unread window r .. w - 1 of a block: it lies in the block and holds  *)
(* the bytes that follow byte number c of the stream, none in another's    *)
(* place, and none blank in a block that was never reallocated.            *)
Window(bytes, cap, r, w, c) ==
  /\ cap \in Nat /\ r \in Nat /\ w \in Nat
  /\ r <= w /\ w <= cap
  /\ bytes \in [0 .. cap - 1 -> Nat]
  /\ \A i \in r .. w - 1 : bytes[i] \in {c + 1 + (i - r), Blank}
  /\ cap = InitCapacity => \A i \in r .. w - 1 : bytes[i] = c + 1 + (i - r)

(* What a layout promises besides. *)
LayoutOK(b, c) ==
  /\ b = [cap |-> b.cap, r |-> b.r, w |-> b.w, min |-> b.min, bytes |-> b.bytes]
  /\ b.cap >= InitCapacity
  /\ b.min = b.cap
  /\ Window(b.bytes, b.cap, b.r, b.w, c)

Inv ==
  /\ capacity \in Nat /\ readable \in Nat /\ writeable \in Nat
  /\ capacity >= InitCapacity
  /\ minCapacity = capacity
  /\ data \in [0 .. capacity - 1 -> Nat]
  /\ reserved \in Nat /\ overrun \in Nat
  /\ written \in Nat /\ consumed \in Nat
  /\ overrun = 0 => writeable <= capacity
  /\ InBounds
  /\ NothingDropped
  /\ NoByteMisplaced
  /\ IntactUntilGrown

(* The current fields form a layout that keeps its promise. *)
LEMMA CurrentOK ==
  ASSUME Inv, overrun = 0
  PROVE  LayoutOK(Current, consumed)
BY DEF Inv, LayoutOK, Window, Current, InBounds, NoByteMisplaced, IntactUntilGrown,
       Expected

(* An empty buffer rewound to offset 0 keeps its promise. *)
LEMMA RewoundOK ==
  ASSUME NEW b, NEW c \in Nat, LayoutOK(b, c)
  PROVE  /\ LayoutOK(Rewound(b), c)
         /\ Rewound(b).w - Rewound(b).r = b.w - b.r
<1>1. CASE b.r # b.w
  BY <1>1 DEF Rewound
<1>2. CASE b.r = b.w
  <2>1. Rewound(b) = [cap |-> b.cap, r |-> 0, w |-> 0, min |-> b.min,
                      bytes |-> b.bytes]
    BY <1>2 DEF Rewound, LayoutOK, Window
  <2> QED BY <1>2, <2>1, BufferAssumption DEF LayoutOK, Window
<1> QED BY <1>1, <1>2

(* sort() keeps the promise and the length of the unread window, and       *)
(* leaves all the free room behind it.                                     *)
LEMMA SortedOK ==
  ASSUME NEW b, NEW c \in Nat, LayoutOK(b, c)
  PROVE  /\ LayoutOK(Sorted(b), c)
         /\ Sorted(b).w - Sorted(b).r = b.w - b.r
         /\ Sorted(b).w = b.w - b.r
         /\ Sorted(b).cap = b.cap
<1>1. CASE b.r = 0
  BY <1>1 DEF Sorted, LayoutOK, Window
<1>2. CASE b.r # 0
  <2> DEFINE moved == [i \in 0 .. b.cap - 1 |->
                         IF i < b.w - b.r THEN b.bytes[i + b.r] ELSE Blank]
  <2>1. Sorted(b) = [cap |-> b.cap, r |-> 0, w |-> b.w - b.r, min |-> b.min,
                     bytes |-> moved]
    BY <1>2 DEF Sorted, LayoutOK, Window
  <2>2. moved \in [0 .. b.cap - 1 -> Nat]
    <3>1. SUFFICES ASSUME NEW i \in 0 .. b.cap - 1, i < b.w - b.r
                   PROVE  b.bytes[i + b.r] \in Nat
      BY DEF Blank
    <3>2. i + b.r \in 0 .. b.cap - 1
      BY <3>1 DEF LayoutOK, Window
    <3> QED BY <3>2 DEF LayoutOK, Window
  <2>3. \A i \in 0 .. (b.w - b.r) - 1 :
          /\ i + b.r \in b.r .. b.w - 1
          /\ moved[i] = b.bytes[i + b.r]
    BY DEF LayoutOK, Window
  <2>4. ASSUME NEW i \in 0 .. (b.w - b.r) - 1
        PROVE  /\ moved[i] \in {c + 1 + (i - 0), Blank}
               /\ b.cap = InitCapacity => moved[i] = c + 1 + (i - 0)
    <3> DEFINE j == i + b.r
    <3>1. j \in b.r .. b.w - 1 /\ moved[i] = b.bytes[j]
      BY <2>3
    <3>2. c + 1 + (j - b.r) = c + 1 + (i - 0)
      BY DEF LayoutOK, Window
    <3> HIDE DEF j
    <3> QED BY <3>1, <3>2 DEF LayoutOK, Window
  <2> HIDE DEF moved
  <2> QED BY <2>1, <2>2, <2>4 DEF LayoutOK, Window
<1> QED BY <1>1, <1>2

(* Before its sort(), incr() keeps the promise (a byte it fails to copy is *)
(* blank, never another byte) in a block twice as large.                   *)
LEMMA ExtendedOK ==
  ASSUME NEW b, NEW c \in Nat, LayoutOK(b, c)
  PROVE  /\ LayoutOK(Extended(b), c)
         /\ Extended(b).w - Extended(b).r = b.w - b.r
         /\ Extended(b).cap = b.cap + b.cap
<1> DEFINE cap2 == b.cap + b.min
<1> DEFINE copied == [i \in 0 .. cap2 - 1 |->
                        IF i < b.cap - HeadTail THEN b.bytes[i] ELSE Blank]
<1>1. Extended(b) = [cap |-> cap2, r |-> b.r, w |-> b.w, min |-> cap2,
                     bytes |-> copied]
  BY DEF Extended
<1>2. copied \in [0 .. cap2 - 1 -> Nat]
  <2>1. SUFFICES ASSUME NEW i \in 0 .. cap2 - 1, i < b.cap - HeadTail
                 PROVE  b.bytes[i] \in Nat
    BY DEF Blank
  <2>2. i \in 0 .. b.cap - 1
    BY <2>1, BufferAssumption DEF LayoutOK, Window
  <2> QED BY <2>2 DEF LayoutOK, Window
<1>3. \A i \in b.r .. b.w - 1 : copied[i] \in {c + 1 + (i - b.r), Blank}
  <2>1. TAKE i \in b.r .. b.w - 1
  <2>2. i \in 0 .. cap2 - 1
    BY DEF LayoutOK, Window
  <2>3. copied[i] \in {b.bytes[i], Blank}
    BY <2>2
  <2> QED BY <2>3 DEF LayoutOK, Window
<1>4. cap2 # InitCapacity /\ cap2 >= InitCapacity /\ cap2 \in Nat /\ b.w <= cap2
  BY BufferAssumption DEF LayoutOK, Window
<1>5. cap2 = b.cap + b.cap
  BY DEF LayoutOK, Window
<1> HIDE DEF cap2, copied
<1> QED BY <1>1, <1>2, <1>3, <1>4, <1>5 DEF LayoutOK, Window

(* Whatever path an append takes, the unread window keeps its length and   *)
(* content, and there are n bytes behind it unless n is too long.          *)
LEMMA MadeRoomOK ==
  ASSUME NEW b, NEW c \in Nat, LayoutOK(b, c), NEW n \in Requests
  PROVE  /\ LayoutOK(MadeRoom(b, n), c)
         /\ MadeRoom(b, n).w - MadeRoom(b, n).r = b.w - b.r
         /\ \/ MadeRoom(b, n).w + n <= MadeRoom(b, n).cap
            \/ n > InitCapacity /\ 2 * n > MadeRoom(b, n).cap
<1>0. n \in Nat /\ InitCapacity \in Nat
  BY BufferAssumption
<1>1. CASE b.w + n <= b.cap
  BY <1>1 DEF MadeRoom
<1>2. CASE ~(b.w + n <= b.cap) /\ b.cap - (b.w - b.r) >= n
  <2>1. MadeRoom(b, n) = Sorted(b)
    BY <1>2 DEF MadeRoom
  <2>2. b.cap \in Nat /\ b.w \in Nat /\ b.r \in Nat
    BY DEF LayoutOK, Window
  <2> QED BY <1>0, <1>2, <2>1, <2>2, SortedOK
<1>3. CASE ~(b.w + n <= b.cap) /\ ~(b.cap - (b.w - b.r) >= n)
  <2> DEFINE e == Extended(b)
  <2>1. LayoutOK(e, c) /\ e.w - e.r = b.w - b.r /\ e.cap = b.cap + b.cap
    BY ExtendedOK
  <2> HIDE DEF e
  <2>2. /\ LayoutOK(Sorted(e), c)
        /\ Sorted(e).w - Sorted(e).r = b.w - b.r
        /\ Sorted(e).w = b.w - b.r
        /\ Sorted(e).cap = b.cap + b.cap
    BY <2>1, SortedOK
  <2>3. MadeRoom(b, n) = Sorted(e)
    BY <1>3 DEF MadeRoom, Grown, e
  <2>4. b.w - b.r <= b.cap /\ InitCapacity <= b.cap /\ b.cap \in Nat
        /\ b.w - b.r \in Nat
    BY <1>0 DEF LayoutOK, Window
  <2> QED BY <1>0, <2>2, <2>3, <2>4
<1> QED BY <1>1, <1>2, <1>3

(* An append starts from a rewound layout. *)
LEMMA AppendOK ==
  ASSUME Inv, overrun = 0, NEW n \in Requests, NEW b,
         b = MadeRoom(Rewound(Current), n)
  PROVE  /\ LayoutOK(b, consumed)
         /\ b.w - b.r = writeable - readable
         /\ b.w + n <= b.cap \/ (n > InitCapacity /\ 2 * n > b.cap)
<1>1. LayoutOK(Current, consumed) /\ consumed \in Nat
  BY CurrentOK DEF Inv
<1>2. /\ LayoutOK(Rewound(Current), consumed)
      /\ Rewound(Current).w - Rewound(Current).r = Current.w - Current.r
  BY <1>1, RewoundOK
<1>3. Current.w = writeable /\ Current.r = readable
  BY DEF Current
<1> DEFINE x == Rewound(Current)
<1> HIDE DEF x
<1>4. LayoutOK(x, consumed) /\ x.w - x.r = writeable - readable
  BY <1>2, <1>3 DEF x
<1>5. b = MadeRoom(x, n)
  BY DEF x
<1> QED BY <1>1, <1>4, <1>5, MadeRoomOK

(* Bytes of the stream are stored, wherever that is. *)
LEMMA StoredType ==
  ASSUME NEW cap \in Nat, NEW bytes \in [0 .. cap - 1 -> Nat],
         NEW w \in Nat, NEW n \in Nat, written \in Nat
  PROVE  Stored(bytes, w, n) \in [0 .. cap - 1 -> Nat]
<1>1. \A i \in 0 .. cap - 1 : i \in w .. w + n - 1 => written + 1 + i - w \in Nat
  OBVIOUS
<1> QED BY <1>1 DEF Stored

(* n bytes stored behind the unread window extend it in stream order. *)
LEMMA StoredOK ==
  ASSUME NEW bytes, NEW cap, NEW r, NEW w, NEW n \in Nat,
         Window(bytes, cap, r, w, consumed),
         w + n <= cap,
         consumed \in Nat, written \in Nat,
         written - consumed = w - r
  PROVE  Window(Stored(bytes, w, n), cap, r, w + n, consumed)
<1> USE DEF Window
<1> DEFINE s == Stored(bytes, w, n)
<1>1. s = [i \in 0 .. cap - 1 |-> IF i \in w .. w + n - 1
                                   THEN written + 1 + i - w ELSE bytes[i]]
  BY DEF Stored
<1>2. ASSUME NEW i \in 0 .. cap - 1
      PROVE  (IF i \in w .. w + n - 1 THEN written + 1 + i - w
                                      ELSE bytes[i]) \in Nat
  OBVIOUS
<1> HIDE DEF s
<1>3. s \in [0 .. cap - 1 -> Nat]
  BY <1>1, <1>2
<1>4. ASSUME NEW i \in r .. (w + n) - 1
      PROVE  /\ s[i] \in {consumed + 1 + (i - r), Blank}
             /\ cap = InitCapacity => s[i] = consumed + 1 + (i - r)
  <2>1. i \in 0 .. cap - 1
    OBVIOUS
  <2>2. CASE i >= w
    BY <1>1, <2>1, <2>2
  <2>3. CASE i < w
    <3>1. i \in r .. w - 1 /\ s[i] = bytes[i]
      BY <1>1, <2>1, <2>3
    <3> QED BY <3>1
  <2> QED BY <2>2, <2>3
<1> QED BY <1>3, <1>4 DEF s

LEMMA InitInv == Init => Inv
BY BufferAssumption
   DEF Init, Inv, InBounds, NoByteMisplaced, IntactUntilGrown, NothingDropped,
       Blank, TooLong

(* Taking k unread bytes shortens the window from its front. *)
LEMMA ReadStep ==
  ASSUME Inv, NEW k \in Nat, k <= writeable - readable,
         readable' = readable + k, consumed' = consumed + k,
         UNCHANGED <<capacity, writeable, minCapacity, data, reserved, overrun, written>>
  PROVE  Inv'
<1>1. \A i \in readable' .. writeable - 1 :
        /\ i \in readable .. writeable - 1
        /\ consumed' + 1 + (i - readable') = consumed + 1 + (i - readable)
  BY DEF Inv
<1>2. NoByteMisplaced' /\ IntactUntilGrown'
  BY <1>1 DEF Inv, NoByteMisplaced, IntactUntilGrown, Expected
<1> QED BY <1>2 DEF Inv, InBounds, TooLong, NothingDropped

LEMMA NextInv == Inv /\ [Next]_vars => Inv'
<1> SUFFICES ASSUME Inv, [Next]_vars PROVE Inv'
  OBVIOUS
<1> USE DEF NothingDropped
<1>1. CASE UNCHANGED vars
  BY <1>1 DEF vars, Inv, InBounds, TooLong, NoByteMisplaced, IntactUntilGrown,
              Expected
<1>2. ASSUME overrun = 0, NEW n \in Requests, Writeable(n) PROVE Inv'
  <2> DEFINE b == MadeRoom(Rewound(Current), n)
  <2>1. /\ LayoutOK(b, consumed) /\ b.w - b.r = writeable - readable
        /\ b.w + n <= b.cap \/ (n > InitCapacity /\ 2 * n > b.cap)
    BY <1>2, AppendOK
  <2>2. /\ capacity' = b.cap /\ readable' = b.r /\ writeable' = b.w
        /\ minCapacity' = b.min /\ data' = b.bytes /\ reserved' = n
        /\ consumed' = consumed /\ written' = written /\ overrun' = 0
    BY <1>2 DEF Writeable, SetLayout
  <2> HIDE DEF b
  <2>3. n \in Nat
    BY BufferAssumption
  <2>4. /\ capacity' \in Nat /\ readable' \in Nat /\ writeable' \in Nat
        /\ capacity' >= InitCapacity /\ minCapacity' = capacity'
        /\ data' \in [0 .. capacity' - 1 -> Nat]
        /\ readable' <= writeable' /\ writeable' <= capacity'
    BY <2>1, <2>2, <2>3 DEF LayoutOK, Window
  <2>5. NoByteMisplaced' /\ IntactUntilGrown'
    BY <2>1, <2>2 DEF LayoutOK, Window, NoByteMisplaced, IntactUntilGrown, Expected
  <2>6. writeable' + reserved' > capacity' => TooLong(reserved)'
    <3>1. b.w \in Nat /\ b.cap \in Nat /\ InitCapacity \in Nat
      BY <2>1, BufferAssumption DEF LayoutOK, Window
    <3> QED BY <2>1, <2>2, <2>3, <3>1 DEF TooLong
  <2>7. written' - consumed' = writeable' - readable'
    BY <2>1, <2>2 DEF Inv
  <2>8. InBounds'
    BY <2>2, <2>4, <2>6 DEF InBounds
  <2> QED BY <2>2, <2>3, <2>4, <2>5, <2>7, <2>8 DEF Inv
<1>3. ASSUME overrun = 0, NEW m \in 0 .. reserved, MoveWriteable(m) PROVE Inv'
  <2>1. /\ m \in Nat /\ m <= reserved /\ reserved \in Nat
        /\ capacity' = capacity /\ readable' = readable
        /\ writeable' = writeable + m /\ minCapacity' = minCapacity
        /\ data' = Stored(data, writeable, m)
        /\ overrun' = IF writeable + m > capacity THEN reserved ELSE 0
        /\ reserved' = 0 /\ written' = written + m /\ consumed' = consumed
        /\ reserved > 0
    BY <1>3 DEF MoveWriteable, Leaves, Inv
  <2>2. Window(data, capacity, readable, writeable, consumed)
    BY <1>3, CurrentOK DEF LayoutOK, Current
  <2>3. /\ consumed \in Nat /\ written \in Nat
        /\ written - consumed = writeable - readable
        /\ capacity \in Nat /\ writeable \in Nat /\ readable \in Nat
        /\ readable <= writeable
        /\ writeable + reserved > capacity => TooLong(reserved)
    BY <1>3 DEF Inv, InBounds
  <2>4. CASE writeable + m <= capacity
    <3>1. overrun' = 0
      BY <2>1, <2>3, <2>4
    <3>2. Window(data', capacity, readable, writeable + m, consumed)
      BY <2>1, <2>2, <2>3, <2>4, StoredOK
    <3>3. NoByteMisplaced' /\ IntactUntilGrown' /\ data' \in [0 .. capacity' - 1 -> Nat]
      BY <2>1, <3>2 DEF Window, NoByteMisplaced, IntactUntilGrown, Expected
    <3>4. InBounds'
      BY <2>1, <2>3, <2>4, <3>1 DEF InBounds
    <3> QED BY <2>1, <2>3, <2>4, <3>1, <3>3, <3>4 DEF Inv
  <2>5. CASE ~(writeable + m <= capacity)
    <3>1. overrun' = reserved /\ overrun' # 0
      BY <2>1, <2>3, <2>5
    <3>2. TooLong(reserved) /\ (TooLong(overrun))'
      BY <2>1, <2>3, <2>5, <3>1 DEF TooLong
    <3>3. data' \in [0 .. capacity' - 1 -> Nat]
      BY <2>1, <2>3, StoredType DEF Inv
    <3>4. NoByteMisplaced' /\ IntactUntilGrown' /\ InBounds'
      BY <2>1, <2>3, <3>1, <3>2 DEF NoByteMisplaced, IntactUntilGrown, InBounds
    <3> QED BY <2>1, <2>3, <3>1, <3>3, <3>4 DEF Inv
  <2> QED BY <2>4, <2>5
<1>4. ASSUME overrun = 0, NEW n \in Requests, GetWriteableAndMove(n) PROVE Inv'
  <2> DEFINE b == MadeRoom(Rewound(Current), n)
  <2>1. /\ LayoutOK(b, consumed) /\ b.w - b.r = writeable - readable
        /\ b.w + n <= b.cap \/ (n > InitCapacity /\ 2 * n > b.cap)
    BY <1>4, AppendOK
  <2>2. /\ capacity' = b.cap /\ readable' = b.r /\ writeable' = b.w + n
        /\ minCapacity' = b.min /\ data' = Stored(b.bytes, b.w, n)
        /\ overrun' = IF b.w + n > b.cap THEN n ELSE 0
        /\ reserved = 0 /\ reserved' = reserved
        /\ consumed' = consumed /\ written' = written + n
    BY <1>4 DEF GetWriteableAndMove, Leaves, SetLayout
  <2> HIDE DEF b
  <2>3. n \in Nat /\ n # 0 /\ InitCapacity \in Nat
    BY BufferAssumption
  <2>4. /\ consumed \in Nat /\ written \in Nat
        /\ written - consumed = b.w - b.r
        /\ Window(b.bytes, b.cap, b.r, b.w, consumed)
        /\ b.cap \in Nat /\ b.r \in Nat /\ b.w \in Nat /\ b.r <= b.w
        /\ b.cap >= InitCapacity /\ b.min = b.cap
        /\ b.bytes \in [0 .. b.cap - 1 -> Nat]
    BY <2>1 DEF Inv, LayoutOK, Window
  <2>5. /\ capacity' \in Nat /\ readable' \in Nat /\ writeable' \in Nat
        /\ capacity' >= InitCapacity /\ minCapacity' = capacity'
        /\ readable' <= writeable' /\ reserved' = 0 /\ overrun' \in Nat
        /\ written' \in Nat /\ consumed' \in Nat
        /\ written' - consumed' = writeable' - readable'
    <3> DEFINE w == b.w
               r == b.r
    <3>1. w \in Nat /\ r \in Nat /\ written - consumed = w - r /\ r <= w
      BY <2>4
    <3>2. /\ writeable' = w + n /\ readable' = r
          /\ consumed' = consumed /\ written' = written + n
      BY <2>2
    <3>7. consumed \in Nat /\ written \in Nat
      BY <2>4
    <3> HIDE DEF w, r
    <3>3. (written + n) - consumed = (w + n) - r /\ r <= w + n
      BY <2>3, <2>4, <3>1
    <3>4. /\ writeable' \in Nat /\ readable' \in Nat /\ readable' <= writeable'
          /\ written' \in Nat /\ consumed' \in Nat
          /\ written' - consumed' = writeable' - readable'
      BY <2>3, <3>1, <3>2, <3>3, <3>7
    <3>5. capacity' \in Nat /\ capacity' >= InitCapacity /\ minCapacity' = capacity'
      BY <2>2, <2>4
    <3>6. reserved' = 0 /\ overrun' \in Nat
      BY <2>2, <2>3
    <3> QED BY <3>4, <3>5, <3>6
  <2>6. CASE b.w + n <= b.cap
    <3>1. overrun' = 0 /\ writeable' <= capacity'
      BY <2>2, <2>3, <2>4, <2>6
    <3>2. Window(data', b.cap, b.r, b.w + n, consumed)
      BY <2>2, <2>3, <2>4, <2>6, StoredOK
    <3>3. NoByteMisplaced' /\ IntactUntilGrown' /\ data' \in [0 .. capacity' - 1 -> Nat]
      BY <2>2, <3>2 DEF Window, NoByteMisplaced, IntactUntilGrown, Expected
    <3>4. InBounds'
      <4>1. ~((b.w + n) + 0 > b.cap) /\ b.r <= b.w + n
        BY <2>3, <2>4, <2>6
      <4>2. ~(writeable' + reserved' > capacity') /\ readable' <= writeable'
        BY <2>2, <4>1
      <4> QED BY <3>1, <4>2 DEF InBounds
    <3> QED BY <2>5, <3>1, <3>3, <3>4 DEF Inv
  <2>7. CASE ~(b.w + n <= b.cap)
    <3>1. overrun' = n /\ overrun' # 0
      BY <2>2, <2>3, <2>4, <2>7
    <3>2. (TooLong(overrun))'
      BY <2>1, <2>2, <2>7, <3>1 DEF TooLong
    <3>3. data' \in [0 .. capacity' - 1 -> Nat]
      BY <2>2, <2>3, <2>4, StoredType
    <3>4. NoByteMisplaced' /\ IntactUntilGrown' /\ InBounds'
      BY <2>5, <3>1, <3>2 DEF NoByteMisplaced, IntactUntilGrown, InBounds
    <3> QED BY <2>5, <3>1, <3>3, <3>4 DEF Inv
  <2> QED BY <2>6, <2>7
<1>5. ASSUME overrun = 0, NEW n \in Requests, GetReadableAndMove(n) PROVE Inv'
  <2> DEFINE k == IF n > ReadableLength THEN ReadableLength ELSE n
  <2>1. k \in Nat /\ k <= writeable - readable
    BY BufferAssumption DEF ReadableLength, Inv, InBounds
  <2>2. /\ readable' = readable + k /\ consumed' = consumed + k
        /\ UNCHANGED <<capacity, writeable, minCapacity, data, reserved, overrun, written>>
    BY <1>5 DEF GetReadableAndMove
  <2> HIDE DEF k
  <2> QED BY <2>1, <2>2, ReadStep
<1>6. ASSUME overrun = 0, NEW n \in Requests, MoveReadable(n) PROVE Inv'
  <2>1. /\ n \in Nat /\ n <= writeable - readable
        /\ readable' = readable + n /\ consumed' = consumed + n
        /\ UNCHANGED <<capacity, writeable, minCapacity, data, reserved, overrun, written>>
    BY <1>6, BufferAssumption DEF MoveReadable, ReadableLength
  <2> QED BY <2>1, ReadStep
<1>7. ASSUME overrun = 0, Reset PROVE Inv'
  <2>1. data' \in [0 .. capacity - 1 -> Nat]
    BY <1>7 DEF Reset, Inv, Blank
  <2>2. NoByteMisplaced' /\ IntactUntilGrown'
    BY <1>7 DEF Reset, NoByteMisplaced, IntactUntilGrown
  <2> QED BY <1>7, <2>1, <2>2 DEF Reset, Inv, InBounds, TooLong
<1> QED BY <1>1, <1>2, <1>3, <1>4, <1>5, <1>6, <1>7 DEF Next

(* What holds of every behaviour of the buffer. *)
LEMMA InvHolds == Spec => []Inv
BY InitInv, NextInv, PTL DEF Spec

(* The fields keep their types. *)
THEOREM TypeCorrect == Spec => []TypeOK
<1>1. Inv => TypeOK
  BY BufferAssumption DEF Inv, TypeOK
<1> QED BY <1>1, InvHolds, PTL

(* Only an append that asked for more than the buffer was made for, and    *)
(* than half of the block, goes past the block, whatever its capacity.     *)
THEOREM AlwaysInBounds == Spec => []InBounds
<1>1. Inv => InBounds
  BY DEF Inv
<1> QED BY <1>1, InvHolds, PTL

(* The unread window is as long as what was appended and not taken. *)
THEOREM AlwaysNothingDropped == Spec => []NothingDropped
<1>1. Inv => NothingDropped
  BY DEF Inv
<1> QED BY <1>1, InvHolds, PTL

(* No byte takes another byte's place, even across sort() and incr(). *)
THEOREM AlwaysNoByteMisplaced == Spec => []NoByteMisplaced
<1>1. Inv => NoByteMisplaced
  BY DEF Inv
<1> QED BY <1>1, InvHolds, PTL

(* Without a reallocation the reader gets exactly the appended stream. *)
THEOREM AlwaysIntactUntilGrown == Spec => []IntactUntilGrown
<1>1. Inv => IntactUntilGrown
  BY DEF Inv
<1> QED BY <1>1, InvHolds, PTL

(* All together: what the buffer promises its readers. *)
THEOREM AlwaysStreamKept == Spec => []StreamKept
BY AlwaysInBounds, AlwaysNothingDropped, AlwaysNoByteMisplaced,
   AlwaysIntactUntilGrown, PTL DEF StreamKept

-----------------------------------------------------------------------------
(* Framing. *)

(* The packets fetched are the first of those sent, and nothing but them   *)
(* has been taken out of the read buffer. *)
Fetched ==
  /\ Len(got) <= sent
  /\ cut = Start[Len(got) + 1]

(* A byte is sent, then taken, then arrived, then fetched. *)
Ordered == cut <= arrived /\ arrived <= taken /\ taken <= Start[sent + 1]

(* Whose stream can tear, and what is fetched of one that did not.         *)
StreamInv ==
  /\ StreamTypeOK
  /\ Fetched /\ Ordered
  /\ receiver = "client" => tear = Total
  /\ InOrder /\ TornByClientOnly

LEMMA LeastNumber ==
  ASSUME NEW T, T \subseteq Nat, T # {}
  PROVE  \E x \in T : \A y \in T : x <= y
<1>1. PICK x \in T : \A y \in T : ~(<<y, x>> \in OpToRel(<, Nat))
  BY WFMin, NatLessThanWellFounded
<1>2. ASSUME NEW y \in T PROVE x <= y
  <2>1. ~(<<y, x>> \in {ss \in Nat \X Nat : ss[1] < ss[2]})
    BY <1>1 DEF OpToRel
  <2>2. x \in Nat /\ y \in Nat
    OBVIOUS
  <2>3. ~(y < x)
    BY <2>1, <2>2
  <2> QED BY <2>2, <2>3
<1> QED BY <1>2

(* A later packet starts at a later place: PacketLength's CHOOSE has one   *)
(* packet to choose. *)
LEMMA StartsRise ==
  ASSUME NEW p \in 1 .. NumPackets + 1, NEW q \in 1 .. NumPackets + 1, p < q
  PROVE  Start[p] < Start[q]
<1> DEFINE T == {x \in 1 .. NumPackets + 1 : p < x /\ ~(Start[p] < Start[x])}
<1> SUFFICES ASSUME T # {} PROVE FALSE
  OBVIOUS
<1>1. NumPackets \in Nat
  BY FramingAssumption
<1>2. T \subseteq Nat
  BY <1>1
<1>3. PICK x \in T : \A y \in T : x <= y
  BY <1>2, LeastNumber
<1>4. x - 1 \in Packets /\ x - 1 >= p
  BY <1>1, <1>3 DEF Packets
<1>5. Start[p] <= Start[x - 1]
  <2>1. ~(x - 1 \in T)
    BY <1>1, <1>3
  <2>2. Start[x - 1] \in Nat /\ Start[p] \in Nat
    BY <1>1, <1>4, FramingAssumption DEF Packets
  <2> QED BY <1>1, <1>4, <2>1, <2>2 DEF Packets
<1>6. Start[x - 1] < Start[x]
  <2>1. PacketLen(x - 1) >= HeadLen /\ HeadLen > 0
    BY <1>4, FramingAssumption
  <2>2. /\ x - 1 + 1 = x /\ x \in 1 .. NumPackets + 1
        /\ Start[x] \in Nat /\ Start[x - 1] \in Nat /\ HeadLen \in Nat
    BY <1>1, <1>3, <1>4, FramingAssumption DEF Packets
  <2> QED BY <2>1, <2>2 DEF PacketLen
<1>7. Start[x] \in Nat /\ Start[x - 1] \in Nat /\ Start[p] \in Nat
  BY <1>1, <1>3, <1>4, FramingAssumption DEF Packets
<1> QED BY <1>3, <1>5, <1>6, <1>7

(* What the proofs below use of the packets. *)
LEMMA Places ==
  /\ NumPackets \in Nat /\ PrefixLen \in Nat /\ HeadLen \in Nat
  /\ \A p \in 1 .. NumPackets + 1 : Start[p] \in Nat
  /\ \A p, q \in 1 .. NumPackets + 1 : p <= q => Start[p] <= Start[q]
  /\ Total \in Nat
  /\ Start[1] = 0
<1>1. /\ NumPackets \in Nat /\ PrefixLen \in Nat /\ HeadLen \in Nat
      /\ \A p \in 1 .. NumPackets + 1 : Start[p] \in Nat
      /\ Start[1] = 0
  BY FramingAssumption
<1>2. ASSUME NEW p \in 1 .. NumPackets + 1, NEW q \in 1 .. NumPackets + 1, p <= q
      PROVE  Start[p] <= Start[q]
  <2>1. CASE p = q
    BY <2>1, <1>1
  <2>2. CASE p # q
    <3>1. p < q
      BY <2>2, <1>1, <1>2
    <3> QED BY <3>1, <1>1, StartsRise
  <2> QED BY <2>1, <2>2
<1> QED BY <1>1, <1>2 DEF Total

(* A packet that starts at place s is the one the length is read of. *)
LEMMA LengthOf ==
  ASSUME NEW p \in Packets, Start[p] = cut
  PROVE  PacketLength = IF Unread <= PrefixLen THEN 0 ELSE PacketLen(p)
<1>1. ASSUME NEW q \in Packets, Start[q] = cut PROVE q = p
  <2>1. /\ p \in 1 .. NumPackets + 1 /\ q \in 1 .. NumPackets + 1
        /\ p \in Int /\ q \in Int
        /\ Start[p] \in Nat /\ Start[q] \in Nat
    BY Places DEF Packets
  <2>2. ~(p < q) /\ ~(q < p)
    BY <1>1, <2>1, StartsRise
  <2> QED BY <2>1, <2>2
<1>2. (CHOOSE q \in Packets : Start[q] = cut) = p
  BY <1>1
<1> QED BY <1>2 DEF PacketLength

LEMMA StreamInvInit == StreamInit => StreamInv
<1> SUFFICES ASSUME StreamInit PROVE StreamInv
  OBVIOUS
<1> USE Places DEF StreamInit
<1>1. StreamTypeOK
  <2>1. got \in Seq(Nat \X Nat) /\ sent \in 0 .. NumPackets
    OBVIOUS
  <2> QED BY <2>1 DEF StreamTypeOK
<1>2. Len(got) = 0 /\ DOMAIN got = {}
  OBVIOUS
<1>3. Fetched
  BY <1>2 DEF Fetched
<1>4. Ordered
  BY DEF Ordered
<1>5. InOrder /\ TornByClientOnly
  BY <1>2 DEF InOrder, TornByClientOnly
<1> QED BY <1>1, <1>3, <1>4, <1>5 DEF StreamInv

(* Bytes behind the place of the last fetch are those of the next packet. *)
LEMMA NextPacket ==
  ASSUME StreamInv, Unread > 0
  PROVE  /\ Len(got) + 1 \in 1 .. sent
         /\ Len(got) + 1 \in Packets
         /\ Start[Len(got) + 1] = cut
         /\ arrived <= Total
<1>1. /\ sent \in 0 .. NumPackets /\ Len(got) \in Nat /\ Len(got) <= sent
      /\ cut \in Nat /\ arrived \in Nat /\ taken \in Nat
      /\ cut = Start[Len(got) + 1]
      /\ arrived <= taken /\ taken <= Start[sent + 1]
  BY DEF StreamInv, StreamTypeOK, Fetched, Ordered
<1>2. cut < arrived
  BY <1>1 DEF Unread
<1>3. /\ sent + 1 \in 1 .. NumPackets + 1 /\ NumPackets + 1 \in 1 .. NumPackets + 1
      /\ sent + 1 <= NumPackets + 1
  BY <1>1, Places
<1>4. Start[sent + 1] \in Nat /\ Start[sent + 1] <= Total /\ Total \in Nat
  BY <1>3, Places DEF Total
<1>5. Len(got) # sent
  BY <1>1, <1>2, <1>4
<1>6. Len(got) + 1 \in 1 .. sent
  BY <1>1, <1>5
<1>7. Len(got) + 1 \in Packets
  BY <1>1, <1>6, Places DEF Packets
<1>8. arrived <= Total
  BY <1>1, <1>4
<1> QED BY <1>1, <1>6, <1>7, <1>8

LEMMA StreamInvStep == StreamInv /\ [StreamNext]_streamVars => StreamInv'
<1> SUFFICES ASSUME StreamInv, [StreamNext]_streamVars PROVE StreamInv'
  OBVIOUS
<1>0. /\ StreamTypeOK /\ Fetched /\ Ordered /\ InOrder /\ TornByClientOnly
      /\ receiver = "client" => tear = Total
  BY DEF StreamInv
<1>1. CASE Send
  <2>1. sent + 1 \in 0 .. NumPackets /\ sent \in Nat /\ NumPackets \in Nat
    BY <1>0, <1>1, Places DEF Send, StreamTypeOK
  <2>2. StreamTypeOK'
    BY <1>0, <1>1, <2>1 DEF Send, StreamTypeOK
  <2>3. Fetched'
    BY <1>0, <1>1, <2>1 DEF Send, Fetched, StreamTypeOK
  <2>4. Start[sent + 1] <= Start[sent + 2] /\ Start[sent + 1] \in Nat /\ Start[sent + 2] \in Nat
    BY <2>1, Places
  <2>5. Ordered'
    BY <1>0, <1>1, <2>1, <2>4 DEF Send, Ordered, StreamTypeOK
  <2>6. InOrder' /\ TornByClientOnly'
    BY <1>0, <1>1, <2>1 DEF Send, InOrder, TornByClientOnly, StreamTypeOK
  <2> QED BY <1>0, <1>1, <2>2, <2>3, <2>5, <2>6 DEF Send, StreamInv
<1>2. CASE ClientWrite
  <2>0. PICK p \in 1 .. sent :
          /\ Start[p] = taken
          /\ taken' = Start[p + 1]
          /\ \E k \in 0 .. PacketLen(p) :
               tear' = IF k < PacketLen(p) /\ tear = Total THEN Start[p] + k ELSE tear
    BY <1>2 DEF ClientWrite
  <2>1. PICK k \in 0 .. PacketLen(p) :
          /\ Start[p] = taken
          /\ taken' = Start[p + 1]
          /\ tear' = IF k < PacketLen(p) /\ tear = Total THEN Start[p] + k ELSE tear
    BY <2>0
  <2>2. /\ UNCHANGED <<receiver, sent, hungUp, arrived, cut, got, mode>>
        /\ receiver = "server"
    BY <1>2 DEF ClientWrite
  <2>3. /\ p \in 1 .. NumPackets + 1 /\ p + 1 \in 1 .. NumPackets + 1
        /\ sent + 1 \in 1 .. NumPackets + 1 /\ NumPackets + 1 \in 1 .. NumPackets + 1
        /\ p <= p + 1 /\ p + 1 <= sent + 1 /\ p + 1 <= NumPackets + 1
    BY <1>0, Places DEF StreamTypeOK
  <2>4. /\ Start[p] \in Nat /\ Start[p + 1] \in Nat /\ Start[sent + 1] \in Nat /\ Total \in Nat
        /\ Start[p] <= Start[p + 1] /\ Start[p + 1] <= Start[sent + 1]
        /\ Start[p + 1] <= Total
    BY <2>3, Places DEF Total
  <2>5. k \in Nat /\ (k < PacketLen(p) => Start[p] + k < Total)
    BY <2>4 DEF PacketLen
  <2>6. tear' \in Nat /\ (tear < Total => tear' < Total)
    BY <1>0, <2>1, <2>4, <2>5 DEF StreamTypeOK
  <2>7. StreamTypeOK'
    BY <1>0, <2>1, <2>2, <2>4, <2>6 DEF StreamTypeOK
  <2>8. Fetched' /\ InOrder'
    BY <1>0, <2>2 DEF Fetched, InOrder
  <2>9. Ordered'
    BY <1>0, <2>1, <2>2, <2>4 DEF Ordered, StreamTypeOK
  <2>10. TornByClientOnly'
    BY <1>0, <2>2, <2>6 DEF TornByClientOnly
  <2> QED BY <2>2, <2>7, <2>8, <2>9, <2>10 DEF StreamInv
<1>3. CASE ServerWrite
  <2>1. PICK k \in 0 .. Unwritten : taken' = taken + k /\ hungUp' = (k < Unwritten)
    BY <1>3 DEF ServerWrite
  <2>2. /\ UNCHANGED <<receiver, sent, tear, arrived, cut, got, mode>>
    BY <1>3 DEF ServerWrite
  <2>3. /\ Start[sent + 1] \in Nat /\ taken \in Nat
    BY <1>0, Places DEF StreamTypeOK
  <2>4. taken' \in Nat /\ taken <= taken' /\ taken' <= Start[sent + 1]
    BY <2>1, <2>3 DEF Unwritten
  <2>5. StreamTypeOK'
    BY <1>0, <2>1, <2>2, <2>4 DEF StreamTypeOK
  <2>6. Fetched' /\ InOrder' /\ TornByClientOnly'
    BY <1>0, <2>2 DEF Fetched, InOrder, TornByClientOnly
  <2>7. Ordered'
    BY <1>0, <2>2, <2>3, <2>4 DEF Ordered, StreamTypeOK
  <2> QED BY <1>0, <2>2, <2>5, <2>6, <2>7 DEF StreamInv
<1>4. CASE HangUp
  BY <1>0, <1>4 DEF HangUp, StreamInv, StreamTypeOK, Fetched, Ordered,
     InOrder, TornByClientOnly
<1>5. CASE Read
  <2>1. PICK k \in 1 .. taken - arrived : arrived' = arrived + k /\ mode' = "cut"
    BY <1>5 DEF Read
  <2>2. UNCHANGED <<receiver, sent, taken, tear, hungUp, cut, got>>
    BY <1>5 DEF Read, senderVars
  <2>3. arrived' \in Nat /\ arrived <= arrived' /\ arrived' <= taken
    BY <1>0, <2>1 DEF StreamTypeOK
  <2>4. StreamTypeOK'
    BY <1>0, <2>1, <2>2, <2>3 DEF StreamTypeOK
  <2>5. Fetched' /\ InOrder' /\ TornByClientOnly'
    BY <1>0, <2>1, <2>2 DEF Fetched, InOrder, TornByClientOnly
  <2>6. Ordered'
    BY <1>0, <2>2, <2>3 DEF Ordered, StreamTypeOK
  <2> QED BY <1>0, <2>2, <2>4, <2>5, <2>6 DEF StreamInv
<1>6. CASE ReadEnd
  <2>1. arrived' = taken /\ mode' = "closed"
    BY <1>6 DEF ReadEnd
  <2>2. UNCHANGED <<receiver, sent, taken, tear, hungUp, cut, got>>
    BY <1>6 DEF ReadEnd, senderVars
  <2>3. StreamTypeOK'
    BY <1>0, <2>1, <2>2 DEF StreamTypeOK
  <2>4. Fetched' /\ InOrder' /\ TornByClientOnly'
    BY <1>0, <2>1, <2>2 DEF Fetched, InOrder, TornByClientOnly
  <2>5. /\ Start[sent + 1] \in Nat
    BY <1>0, Places DEF StreamTypeOK
  <2>6. Ordered'
    BY <1>0, <2>1, <2>2, <2>5 DEF Ordered, StreamTypeOK
  <2> QED BY <1>0, <2>2, <2>3, <2>4, <2>6 DEF StreamInv
<1>7. CASE CutDone \/ CutNothing
  <2>1. /\ UNCHANGED <<receiver, sent, taken, tear, hungUp, arrived, cut, got>>
        /\ mode' \in {"wait", "spin"}
    BY <1>7 DEF CutDone, CutNothing, senderVars
  <2>2. StreamTypeOK'
    BY <1>0, <2>1 DEF StreamTypeOK
  <2> QED BY <1>0, <2>1, <2>2 DEF StreamInv, Fetched, Ordered,
             InOrder, TornByClientOnly
<1>8. CASE CutPacket
  <2> DEFINE n == Len(got) + 1
  <2>1. /\ UNCHANGED <<receiver, sent, taken, tear, hungUp, arrived, mode>>
        /\ PacketLength > 0 /\ PacketLength <= Unread
        /\ got' = Append(got, <<cut, cut + PacketLength>>)
        /\ cut' = cut + PacketLength
    BY <1>8 DEF CutPacket, senderVars
  <2>2. Unread \in Int /\ cut \in Nat /\ arrived \in Nat /\ PrefixLen \in Nat /\ sent \in Nat
    BY <1>0, Places DEF StreamTypeOK, Unread
  <2>3. Unread > PrefixLen
    BY <2>1, <2>2 DEF PacketLength
  <2>4. /\ n \in 1 .. sent /\ n \in Packets /\ Start[n] = cut
    BY <2>2, <2>3, NextPacket
  <2>5. PacketLength = PacketLen(n)
    BY <2>2, <2>3, <2>4, LengthOf
  <2>6. Start[n] \in Nat /\ Start[n + 1] \in Nat
    BY <2>4, Places DEF Packets
  <2>7. cut' = Start[n + 1] /\ cut' <= arrived
    <3>1. PacketLength = Start[n + 1] - Start[n]
      BY <2>5 DEF PacketLen
    <3>2. cut' = Start[n] + PacketLength /\ PacketLength <= arrived - Start[n]
      BY <2>1, <2>4 DEF Unread
    <3> HIDE DEF n
    <3> QED BY <2>2, <2>6, <3>1, <3>2
  <2>8. got' = Append(got, <<Start[n], Start[n + 1]>>)
    BY <2>1, <2>4, <2>7
  <2>9. /\ got \in Seq(Nat \X Nat) /\ <<Start[n], Start[n + 1]>> \in Nat \X Nat
    BY <1>0, <2>6 DEF StreamTypeOK
  <2>10. /\ got' \in Seq(Nat \X Nat) /\ Len(got') = n
         /\ DOMAIN got' = 1 .. n /\ DOMAIN got = 1 .. n - 1
         /\ \A i \in 1 .. n - 1 : got'[i] = got[i]
         /\ got'[n] = <<Start[n], Start[n + 1]>>
    BY <2>8, <2>9
  <2>11. StreamTypeOK'
    BY <1>0, <2>1, <2>6, <2>7, <2>10 DEF StreamTypeOK
  <2>12. Fetched'
    BY <2>1, <2>4, <2>7, <2>10 DEF Fetched
  <2>13. Ordered'
    BY <1>0, <2>1, <2>7 DEF Ordered
  <2>14. ASSUME NEW i \in DOMAIN got' PROVE i <= sent /\ got'[i] = <<Start[i], Start[i + 1]>>
    <3>1. CASE i = n
      BY <3>1, <2>2, <2>4, <2>10
    <3>2. CASE i # n
      <4>1. i \in 1 .. n - 1
        BY <3>2, <2>4, <2>10
      <4> QED BY <4>1, <1>0, <2>10 DEF InOrder
    <3> QED BY <3>1, <3>2
  <2>15. InOrder'
    BY <2>1, <2>14 DEF InOrder
  <2>16. TornByClientOnly'
    BY <1>0, <2>1 DEF TornByClientOnly
  <2> QED BY <1>0, <2>1, <2>11, <2>12, <2>13, <2>15, <2>16 DEF StreamInv
<1>9. CASE Misread
  <2>1. /\ UNCHANGED <<receiver, sent, taken, tear, hungUp, arrived, cut, got>>
        /\ Unread > PrefixLen
        /\ \/ ~Whole(cut + PrefixLen)
           \/ PacketLength <= Unread /\ ~Whole(cut + PacketLength)
        /\ mode' = "torn"
    BY <1>9 DEF Misread, senderVars
  <2>2. /\ Unread \in Int /\ cut \in Nat /\ arrived \in Nat /\ PrefixLen \in Nat
        /\ tear \in Nat /\ Total \in Nat
    BY <1>0, Places DEF StreamTypeOK, Unread
  <2>3. arrived <= Total
    BY <2>1, <2>2, NextPacket
  <2>4. ASSUME ~Whole(cut + PrefixLen) PROVE tear < Total
    BY <2>1, <2>2, <2>3, <2>4 DEF Whole, Unread
  <2>5. ASSUME PacketLength <= Unread, ~Whole(cut + PacketLength) PROVE tear < Total
    <3>1. PICK p \in Packets : Start[p] = cut
      BY <2>1, <2>2, NextPacket
    <3>2. PacketLength \in Int
      <4>1. PacketLength = IF Unread <= PrefixLen THEN 0 ELSE PacketLen(p)
        BY <3>1, LengthOf
      <4>2. PacketLen(p) \in Int
        <5>1. Start[p] \in Nat /\ Start[p + 1] \in Nat
          BY Places DEF Packets
        <5> QED BY <5>1 DEF PacketLen
      <4> QED BY <4>1, <4>2
    <3> QED BY <2>2, <2>3, <2>5, <3>2 DEF Whole, Unread
  <2>6. tear < Total
    BY <2>1, <2>4, <2>5
  <2>7. receiver = "server"
    BY <1>0, <2>2, <2>6 DEF StreamTypeOK
  <2>8. TornByClientOnly'
    BY <2>1, <2>6, <2>7 DEF TornByClientOnly, Total
  <2>9. StreamTypeOK'
    BY <1>0, <2>1 DEF StreamTypeOK
  <2> QED BY <1>0, <2>1, <2>8, <2>9 DEF StreamInv, Fetched, Ordered, InOrder
<1>10. CASE UNCHANGED streamVars
  BY <1>0, <1>10 DEF streamVars, StreamInv, StreamTypeOK, Fetched, Ordered,
     InOrder, TornByClientOnly
<1> QED BY <1>1, <1>2, <1>3, <1>4, <1>5, <1>6, <1>7, <1>8, <1>9, <1>10
        DEF StreamNext, Cut

LEMMA StreamInvHolds == StreamSpec => []StreamInv
BY StreamInvInit, StreamInvStep, PTL DEF StreamSpec

(* The stream's state has its types: no more packets are sent than there   *)
(* are, and a fetch is from one byte number to another.                    *)
THEOREM StreamTypeCorrect == StreamSpec => []StreamTypeOK
<1>1. StreamInv => StreamTypeOK
  BY DEF StreamInv
<1> QED BY <1>1, StreamInvHolds, PTL

(* A packet has more bytes than its length field. *)
LEMMA LongerThanPrefix ==
  ASSUME NEW p \in Packets
  PROVE  /\ Start[p] \in Nat /\ Start[p + 1] \in Nat
         /\ PacketLen(p) = Start[p + 1] - Start[p]
         /\ PacketLen(p) > PrefixLen
<1>1. Start[p] \in Nat /\ Start[p + 1] \in Nat
  BY Places DEF Packets
<1>2. PacketLen(p) >= HeadLen /\ PrefixLen < HeadLen
  BY FramingAssumption
<1>3. PrefixLen \in Nat /\ HeadLen \in Nat
  BY Places
<1> QED BY <1>1, <1>2, <1>3 DEF PacketLen

(* What the receiver makes of bytes it has not fetched. *)
LEMMA LooksAt ==
  ASSUME StreamInv, Unread > 0
  PROVE  LET n == Len(got) + 1 IN
         /\ n \in Packets /\ arrived = Start[n] + Unread
         /\ Unread \in Nat
         /\ PacketLength = IF Unread <= PrefixLen THEN 0 ELSE PacketLen(n)
<1> DEFINE n == Len(got) + 1
<1>1. n \in Packets /\ Start[n] = cut
  BY NextPacket
<1>2. arrived \in Nat /\ cut \in Nat
  BY DEF StreamInv, StreamTypeOK
<1>3. Unread \in Nat /\ arrived = cut + Unread
  BY <1>2 DEF Unread
<1>4. PacketLength = IF Unread <= PrefixLen THEN 0 ELSE PacketLen(n)
  BY <1>1, LengthOf
<1> QED BY <1>1, <1>3, <1>4

Noticed == NoneOverlooked /\ SpinsOnShortOnly

LEMMA NoticedInit == StreamInit => Noticed
<1> SUFFICES ASSUME StreamInit PROVE Noticed
  OBVIOUS
<1>1. Len(got) = 0 /\ arrived = 0 /\ mode = "wait"
  BY DEF StreamInit
<1>2. ASSUME NumPackets # 0 PROVE 0 < Start[2]
  <2>1. 1 \in Packets
    BY <1>2, Places DEF Packets
  <2>2. Start[1 + 1] \in Nat /\ PacketLen(1) > PrefixLen
        /\ PacketLen(1) = Start[1 + 1] - Start[1]
    BY <2>1, LongerThanPrefix
  <2> QED BY <2>2, Places
<1> QED BY <1>1, <1>2 DEF Noticed, NoneOverlooked, SpinsOnShortOnly

(* The loop over the packets ends with less than one, though it is told by *)
(* one number, the length, whether there is one.                           *)
LEMMA DoneMeansShort ==
  ASSUME StreamInv, CutDone, Len(got) # NumPackets
  PROVE  arrived < Start[Len(got) + 2]
<1> DEFINE n == Len(got) + 1
<1>1. /\ sent \in 0 .. NumPackets /\ Len(got) \in Nat /\ Len(got) <= sent
      /\ cut = Start[n] /\ cut \in Nat /\ arrived \in Nat
      /\ PrefixLen \in Nat /\ NumPackets \in Nat
  BY Places DEF StreamInv, StreamTypeOK, Fetched
<1>2. n \in Packets /\ n + 1 = Len(got) + 2
  BY <1>1 DEF Packets
<1>3. /\ Start[n] \in Nat /\ Start[n + 1] \in Nat
      /\ PacketLen(n) = Start[n + 1] - Start[n] /\ PacketLen(n) > PrefixLen
  BY <1>2, LongerThanPrefix
<1> HIDE DEF n
<1>4. Unread \in Nat /\ arrived = Start[n] + Unread
  <2>1. Unread > 0 => Unread \in Nat /\ arrived = Start[n] + Unread
    BY LooksAt DEF n
  <2>2. Unread = 0 => arrived = cut
    BY <1>1 DEF Unread
  <2>3. Unread = 0 \/ Unread > 0
    BY DEF CutDone
  <2> QED BY <1>1, <1>3, <2>1, <2>2, <2>3
<1>5. Unread < PacketLen(n)
  <2>1. CASE Unread = 0
    BY <1>1, <1>3, <2>1
  <2>2. CASE Unread > 0
    <3>1. PacketLength = IF Unread <= PrefixLen THEN 0 ELSE PacketLen(n)
      BY <2>2, LooksAt DEF n
    <3>2. PacketLength > Unread \/ PacketLength = 0
      BY <1>4, <2>2 DEF CutDone
    <3> QED BY <1>1, <1>3, <1>4, <3>1, <3>2
  <2> QED BY <1>4, <2>1, <2>2
<1>6. arrived < Start[n + 1]
  BY <1>3, <1>4, <1>5
<1> QED BY <1>2, <1>6

LEMMA NoticedStep ==
  ASSUME StreamInv, Noticed, [StreamNext]_streamVars
  PROVE  Noticed'
<1>1. CASE UNCHANGED <<receiver, arrived, cut, got, mode>>
  BY <1>1 DEF Noticed, NoneOverlooked, SpinsOnShortOnly, Unread
<1>2. CASE Send \/ ClientWrite \/ ServerWrite \/ HangUp \/ UNCHANGED streamVars
  BY <1>1, <1>2 DEF Send, ClientWrite, ServerWrite, HangUp, streamVars
<1>3. ASSUME mode' \in {"cut", "closed", "torn"} PROVE Noticed'
  BY <1>3 DEF Noticed, NoneOverlooked, SpinsOnShortOnly
<1>4. CASE Read \/ ReadEnd \/ CutPacket \/ Misread
  BY <1>3, <1>4 DEF Read, ReadEnd, CutPacket, Misread
<1>5. CASE CutDone
  <2>1. mode' = "wait" /\ UNCHANGED <<arrived, got>>
    BY <1>5 DEF CutDone
  <2>2. Len(got) = NumPackets \/ arrived < Start[Len(got) + 2]
    BY <1>5, DoneMeansShort
  <2> QED BY <2>1, <2>2 DEF Noticed, NoneOverlooked, SpinsOnShortOnly
<1>6. CASE CutNothing
  <2>1. /\ mode' = "spin" /\ UNCHANGED <<receiver, arrived, cut>>
        /\ receiver = "server" /\ Unread > 0 /\ PacketLength = 0
    BY <1>6 DEF CutNothing
  <2> DEFINE n == Len(got) + 1
  <2>2. /\ n \in Packets /\ Unread \in Nat
        /\ PacketLength = IF Unread <= PrefixLen THEN 0 ELSE PacketLen(n)
    BY <2>1, LooksAt
  <2>3. PacketLen(n) > PrefixLen /\ PacketLen(n) \in Int /\ PrefixLen \in Nat
    BY <2>2, LongerThanPrefix, Places
  <2> HIDE DEF n
  <2>4. Unread \in 1 .. PrefixLen
    BY <2>1, <2>2, <2>3
  <2>5. Unread' = Unread
    BY <2>1 DEF Unread
  <2> QED BY <2>1, <2>4, <2>5 DEF Noticed, NoneOverlooked, SpinsOnShortOnly
<1> QED BY <1>2, <1>4, <1>5, <1>6 DEF StreamNext, Cut

(* MyServant::handlePackets and MyProxy::onRead fetch the packets that were*)
(* sent, whole, in order and each once, however many there are, whatever   *)
(* their lengths and however the kernel cuts the stream; none that is      *)
(* whole is overlooked; and only a server is led off the stream, by a      *)
(* client that wrote a packet in part, or kept busy for ever, by a piece   *)
(* that is no longer than the length field.                                *)
THEOREM AlwaysPacketsWhole == StreamSpec => []PacketsWhole
<1>1. StreamInv /\ Noticed => PacketsWhole
  BY DEF StreamInv, Noticed, PacketsWhole
<1> QED BY <1>1, NoticedInit, NoticedStep, StreamInvHolds, PTL DEF StreamSpec

-----------------------------------------------------------------------------
(* TimeoutMap. *)

(* What the two maps are, without the clock's bound and the values' types. *)
MapInv ==
  /\ \A k \in DOMAIN values : values[k].ts \in Int
  /\ DOMAIN slices \subseteq Int
  /\ now \in Int
  /\ Agree

(* Agree with SliceAt expanded. *)
InSlice == \A k \in DOMAIN values :
             values[k].ts \in DOMAIN slices /\ k \in slices[values[k].ts]
OfValue == \A s \in DOMAIN slices : \A k \in slices[s] \ again :
             k \in DOMAIN values /\ values[k].ts = s

LEMMA AgreeExpanded == Agree <=> InSlice /\ OfValue
BY DEF Agree, InSlice, OfValue, SliceAt

LEMMA SecondsAreIntegers == Seconds \subseteq Int
BY TimeoutMapAssumption DEF Seconds

-----------------------------------------------------------------------------
(* The steps that change the maps, one by one. *)

LEMMA InsertKeeps ==
  ASSUME MapInv, NEW k, NEW v, Insert(k, v)
  PROVE  MapInv'
<1>1. InSlice /\ OfValue
  BY AgreeExpanded DEF MapInv
<1>2. /\ DOMAIN values' = DOMAIN values \cup {k}
      /\ values'[k].ts = now
      /\ \A z \in DOMAIN values : z # k => values'[z] = values[z]
  BY DEF Insert, Put
<1>3. /\ DOMAIN slices' = DOMAIN slices \cup {now}
      /\ slices'[now] = SliceAt(now) \cup {k}
      /\ \A z \in DOMAIN slices : z # now => slices'[z] = slices[z]
  BY DEF Insert, Put
<1>4. InSlice'
  BY <1>1, <1>2, <1>3 DEF InSlice, SliceAt
<1>5. ASSUME NEW s \in DOMAIN slices', NEW j \in slices'[s] \ again'
      PROVE  j \in DOMAIN values' /\ values'[j].ts = s
  <2>1. CASE s = now /\ j = k
    BY <2>1, <1>2
  <2>2. CASE s = now /\ j # k
    <3>1. j \in slices'[now] /\ j \in SliceAt(now)
      BY <1>3, <1>5, <2>2
    <3>2. now \in DOMAIN slices /\ j \in slices[now]
      BY <3>1 DEF SliceAt
    <3>3. j \notin again
      BY <1>5 DEF Insert
    <3>4. j \in DOMAIN values /\ values[j].ts = now
      BY <3>2, <3>3, <1>1 DEF OfValue
    <3> QED BY <1>2, <2>2, <3>4
  <2>3. CASE s # now
    BY <2>3, <1>1, <1>2, <1>3, <1>5 DEF OfValue, Insert
  <2> QED BY <2>1, <2>2, <2>3
<1>6. OfValue'
  BY <1>5 DEF OfValue
<1>7. Agree'
  BY <1>4, <1>6 DEF Agree, InSlice, OfValue, SliceAt
<1> QED BY <1>2, <1>3, <1>7 DEF MapInv, Insert

LEMMA UpdateKeeps ==
  ASSUME MapInv, NEW k, NEW v, Update(k, v)
  PROVE  MapInv'
<1> DEFINE old == values[k].ts
           out == Put(slices, old, SliceAt(old) \ {k})
<1>1. InSlice /\ OfValue /\ k \in DOMAIN values
  BY AgreeExpanded DEF MapInv, Update
<1>2. /\ DOMAIN values' = DOMAIN values
      /\ values'[k].ts = now
      /\ \A z \in DOMAIN values : z # k => values'[z] = values[z]
  BY DEF Update, Put
<1>3. old \in DOMAIN slices /\ k \in slices[old] /\ SliceAt(old) = slices[old]
  BY <1>1 DEF InSlice, SliceAt
<1>4. /\ DOMAIN out = DOMAIN slices
      /\ out[old] = slices[old] \ {k}
      /\ \A z \in DOMAIN slices : z # old => out[z] = slices[z]
  BY <1>3 DEF Put
<1>5. /\ DOMAIN slices' = DOMAIN slices \cup {now}
      /\ slices'[now] = (IF now \in DOMAIN out THEN out[now] ELSE {}) \cup {k}
      /\ \A z \in DOMAIN slices : z # now => slices'[z] = out[z]
  <2>1. slices' = Put(out, now, (IF now \in DOMAIN out THEN out[now] ELSE {}) \cup {k})
    BY DEF Update, Moved
  <2> HIDE DEF out
  <2> QED BY <2>1, <1>4 DEF Put
<1> HIDE DEF out
<1>6. \A s \in DOMAIN slices : \A j : j # k => (j \in slices'[s] <=> j \in slices[s])
  BY <1>4, <1>5
<1>7. InSlice'
  BY <1>1, <1>2, <1>5, <1>6 DEF InSlice
<1>8. ASSUME NEW s \in DOMAIN slices', NEW j \in slices'[s] \ again'
      PROVE  j \in DOMAIN values' /\ values'[j].ts = s
  <2>0. again' = again
    BY DEF Update
  <2>1. CASE s = now /\ j = k
    BY <2>1, <1>1, <1>2
  <2>2. CASE j # k
    <3>1. s \in DOMAIN slices
      BY <2>2, <1>4, <1>5, <1>8
    <3> QED BY <2>0, <2>2, <3>1, <1>1, <1>2, <1>6, <1>8 DEF OfValue
  <2>3. CASE s # now /\ j = k
    <3>1. s \in DOMAIN slices /\ k \in out[s]
      BY <2>3, <1>5, <1>8
    <3>2. s # old /\ k \in slices[s]
      BY <3>1, <1>4
    <3> QED BY <2>0, <2>3, <3>1, <3>2, <1>1, <1>8 DEF OfValue
  <2> QED BY <2>1, <2>2, <2>3
<1>9. OfValue'
  BY <1>8 DEF OfValue
<1>10. Agree'
  BY <1>7, <1>9 DEF Agree, InSlice, OfValue, SliceAt
<1> QED BY <1>2, <1>5, <1>10 DEF MapInv, Update

(* Without a key: its slice loses it too, and goes when it is empty. *)
LEMMA ErasedKeeps ==
  ASSUME MapInv, NEW k \in DOMAIN values, Erased(k), UNCHANGED <<now, again>>
  PROVE  MapInv'
<1> DEFINE old == values[k].ts
<1>1. InSlice /\ OfValue
  BY AgreeExpanded DEF MapInv
<1>2. /\ DOMAIN values' = DOMAIN values \ {k}
      /\ \A z \in DOMAIN values' : values'[z] = values[z]
  BY DEF Erased, Without
<1>3. old \in DOMAIN slices /\ k \in slices[old] /\ SliceAt(old) = slices[old]
  BY <1>1 DEF InSlice, SliceAt
<1>4. /\ DOMAIN slices' \subseteq DOMAIN slices
      /\ old \in DOMAIN slices' => slices'[old] = slices[old] \ {k}
      /\ \A z \in DOMAIN slices : z # old =>
           z \in DOMAIN slices' /\ slices'[z] = slices[z]
      /\ slices[old] \ {k} # {} => old \in DOMAIN slices'
  BY <1>3 DEF Erased, Without, Put
<1>5. InSlice'
  BY <1>1, <1>2, <1>3, <1>4 DEF InSlice
<1>6. ASSUME NEW s \in DOMAIN slices', NEW j \in slices'[s] \ again'
      PROVE  j \in DOMAIN values' /\ values'[j].ts = s
  <2>1. s \in DOMAIN slices /\ j \in slices[s] \ again
    BY <1>4, <1>6
  <2>2. j \in DOMAIN values /\ values[j].ts = s
    BY <2>1, <1>1 DEF OfValue
  <2>3. j # k
    BY <2>2, <1>4, <1>6
  <2> QED BY <2>2, <2>3, <1>2
<1>7. OfValue'
  BY <1>6 DEF OfValue
<1>8. Agree'
  BY <1>5, <1>7 DEF Agree, InSlice, OfValue, SliceAt
<1> QED BY <1>2, <1>4, <1>8 DEF MapInv

(* movefirst() that misses the key in its slice. *)
LEMMA MoveFirstKeeps ==
  ASSUME MapInv, MoveFirst
  PROVE  MapInv'
<1>1. PICK k \in DOMAIN values :
        \/ Erased(k) /\ UNCHANGED again
        \/ /\ values' = Without(values, {k})
           /\ slices' = Put(slices, values[k].ts, SliceAt(values[k].ts))
           /\ again' = again \cup {k}
  BY DEF MoveFirst
<1>2. UNCHANGED now
  BY DEF MoveFirst
<1>3. CASE Erased(k) /\ UNCHANGED again
  BY <1>2, <1>3, ErasedKeeps
<1>4. CASE /\ values' = Without(values, {k})
           /\ slices' = Put(slices, values[k].ts, SliceAt(values[k].ts))
           /\ again' = again \cup {k}
  <2>1. InSlice /\ OfValue
    BY AgreeExpanded DEF MapInv
  <2>2. /\ DOMAIN values' = DOMAIN values \ {k}
        /\ \A z \in DOMAIN values' : values'[z] = values[z]
    BY <1>4 DEF Without
  <2>3. /\ DOMAIN slices' = DOMAIN slices
        /\ \A z \in DOMAIN slices : slices'[z] = slices[z]
    BY <1>4, <2>1 DEF Put, InSlice, SliceAt
  <2>4. InSlice'
    BY <2>1, <2>2, <2>3 DEF InSlice
  <2>5. OfValue'
    BY <1>4, <2>1, <2>2, <2>3 DEF OfValue
  <2>6. Agree'
    BY <2>4, <2>5 DEF Agree, InSlice, OfValue, SliceAt
  <2> QED BY <1>2, <2>2, <2>3, <2>6 DEF MapInv
<1> QED BY <1>1, <1>3, <1>4

(* What DoTimeout takes: a value goes with the slice it is in. *)
LEMMA TimeoutTakes ==
  ASSUME MapInv, DoTimeout, NEW k \in DOMAIN values
  PROVE  /\ k \in DOMAIN values' =>
              values[k].ts >= now - Timeout /\ values'[k] = values[k]
         /\ k \notin DOMAIN values' /\ k \notin again =>
              values[k].ts < now - Timeout
<1> DEFINE old == {s \in DOMAIN slices : s < now - Timeout}
           outdated == UNION {slices[s] : s \in old}
<1>1. InSlice /\ OfValue
  BY AgreeExpanded DEF MapInv
<1>2. /\ DOMAIN values' = DOMAIN values \ outdated
      /\ \A z \in DOMAIN values' : values'[z] = values[z]
  BY DEF DoTimeout, Without
<1>3. values[k].ts \in DOMAIN slices /\ k \in slices[values[k].ts]
  BY <1>1 DEF InSlice
<1>4. values[k].ts \in Int /\ now - Timeout \in Int
  BY TimeoutMapAssumption DEF MapInv
<1>5. ASSUME k \notin outdated PROVE values[k].ts >= now - Timeout
  <2>1. values[k].ts \notin old
    BY <1>3, <1>5
  <2> QED BY <2>1, <1>3, <1>4
<1>6. ASSUME k \in outdated, k \notin again PROVE values[k].ts < now - Timeout
  <2>1. PICK s \in old : k \in slices[s]
    BY <1>6
  <2>2. values[k].ts = s
    BY <2>1, <1>1, <1>6 DEF OfValue
  <2> QED BY <2>1, <2>2
<1> QED BY <1>2, <1>5, <1>6

LEMMA DoTimeoutKeeps ==
  ASSUME MapInv, DoTimeout
  PROVE  MapInv'
<1> DEFINE old == {s \in DOMAIN slices : s < now - Timeout}
           outdated == UNION {slices[s] : s \in old}
<1>1. InSlice /\ OfValue
  BY AgreeExpanded DEF MapInv
<1>2. /\ DOMAIN values' = DOMAIN values \ outdated
      /\ \A z \in DOMAIN values' : values'[z] = values[z]
      /\ DOMAIN slices' = DOMAIN slices \ old
      /\ \A z \in DOMAIN slices' : slices'[z] = slices[z]
      /\ UNCHANGED <<now, again>>
  BY DEF DoTimeout, Without
<1>3. InSlice'
  BY <1>1, <1>2 DEF InSlice
<1>4. ASSUME NEW s \in DOMAIN slices', NEW j \in slices'[s] \ again'
      PROVE  j \in DOMAIN values' /\ values'[j].ts = s
  <2>1. s \in DOMAIN slices /\ s \notin old /\ j \in slices[s] \ again
    BY <1>2, <1>4
  <2>2. j \in DOMAIN values /\ values[j].ts = s
    BY <2>1, <1>1 DEF OfValue
  <2>3. \A r \in old : j \notin slices[r]
    BY <2>1, <2>2, <1>1 DEF OfValue
  <2>4. j \notin outdated
    BY <2>3
  <2> QED BY <2>2, <2>4, <1>2
<1>5. OfValue'
  BY <1>4 DEF OfValue
<1>6. Agree'
  BY <1>3, <1>5 DEF Agree, InSlice, OfValue, SliceAt
<1> QED BY <1>2, <1>6 DEF MapInv

-----------------------------------------------------------------------------
LEMMA MapInvInit == MapInit => MapInv
BY TimeoutMapAssumption DEF MapInit, MapInv, Agree, SliceAt

LEMMA MapInvStep == MapInv /\ [MapNext]_mapVars => MapInv'
<1> SUFFICES ASSUME MapInv, [MapNext]_mapVars PROVE MapInv'
  OBVIOUS
<1>1. CASE Clock
  BY <1>1, SecondsAreIntegers DEF Clock, MapInv, Agree, SliceAt
<1>2. CASE MoveFirst
  BY <1>2, MoveFirstKeeps
<1>3. CASE Random
  BY <1>3 DEF Random, MapInv, Agree, SliceAt
<1>4. CASE Clear
  BY <1>4 DEF Clear, MapInv, Agree, SliceAt
<1>5. CASE DoTimeout
  BY <1>5, DoTimeoutKeeps
<1>6. ASSUME NEW k \in Keys, Erase(k) PROVE MapInv'
  BY <1>6, ErasedKeeps DEF Erase
<1>7. ASSUME NEW k \in Keys, NEW v \in Values, Insert(k, v) PROVE MapInv'
  BY <1>7, InsertKeeps
<1>8. ASSUME NEW k \in Keys, NEW v \in Values, Update(k, v) PROVE MapInv'
  BY <1>8, UpdateKeeps
<1>9. CASE UNCHANGED mapVars
  BY <1>9 DEF mapVars, MapInv, Agree, SliceAt
<1> QED BY <1>1, <1>2, <1>3, <1>4, <1>5, <1>6, <1>7, <1>8, <1>9 DEF MapNext

(* The two maps agree in every reachable state. *)
THEOREM AlwaysAgree == MapSpec => []Agree
<1>1. MapInv => Agree
  BY DEF MapInv
<1> QED BY <1>1, MapInvInit, MapInvStep, PTL DEF MapSpec

(* Types, in every reachable state, for any keys, values and clock. *)
THEOREM MapTypeCorrect == MapSpec => []MapTypeOK
<1>1. MapInit => MapTypeOK
  <2>1. Timeout \in Seconds
    BY TimeoutMapAssumption DEF Seconds
  <2> SUFFICES ASSUME MapInit PROVE MapTypeOK
    OBVIOUS
  <2>2. DOMAIN values = {} /\ DOMAIN slices = {} /\ again = {} /\ off = FALSE
    BY DEF MapInit
  <2>3. now \in Seconds
    BY <2>1 DEF MapInit
  <2> QED BY <2>2, <2>3 DEF MapTypeOK
<1>2. ASSUME MapTypeOK, NEW k \in DOMAIN values, Erased(k)
      PROVE  /\ DOMAIN values' \subseteq Keys
             /\ \A j \in DOMAIN values' : values'[j] \in [v : Values, ts : Seconds]
             /\ DOMAIN slices' \subseteq Seconds
             /\ \A s \in DOMAIN slices' : slices'[s] \subseteq Keys
  <2>1. values[k].ts \in Seconds /\ SliceAt(values[k].ts) \subseteq Keys
    BY <1>2 DEF MapTypeOK, SliceAt
  <2>2. /\ DOMAIN values' \subseteq Keys
        /\ \A j \in DOMAIN values' : values'[j] \in [v : Values, ts : Seconds]
    BY <1>2 DEF Erased, Without, MapTypeOK
  <2>3. CASE SliceAt(values[k].ts) \ {k} = {}
    BY <1>2, <2>2, <2>3 DEF Erased, Without, MapTypeOK
  <2>4. CASE SliceAt(values[k].ts) \ {k} # {}
    BY <1>2, <2>1, <2>2, <2>4 DEF Erased, Put, MapTypeOK
  <2> QED BY <2>3, <2>4
<1>3. MapTypeOK /\ [MapNext]_mapVars => MapTypeOK'
  <2> SUFFICES ASSUME MapTypeOK, [MapNext]_mapVars PROVE MapTypeOK'
    OBVIOUS
  <2>1. CASE Clock
    BY <2>1 DEF Clock, MapTypeOK
  <2>2. CASE MoveFirst
    <3>1. PICK k \in DOMAIN values :
            \/ Erased(k) /\ UNCHANGED again
            \/ /\ values' = Without(values, {k})
               /\ slices' = Put(slices, values[k].ts, SliceAt(values[k].ts))
               /\ again' = again \cup {k}
      BY <2>2 DEF MoveFirst
    <3>2. UNCHANGED <<now, off>>
      BY <2>2 DEF MoveFirst
    <3>3. CASE Erased(k) /\ UNCHANGED again
      BY <1>2, <3>2, <3>3 DEF MapTypeOK
    <3>4. CASE /\ values' = Without(values, {k})
               /\ slices' = Put(slices, values[k].ts, SliceAt(values[k].ts))
               /\ again' = again \cup {k}
      <4>1. values[k].ts \in Seconds /\ SliceAt(values[k].ts) \subseteq Keys /\ k \in Keys
        BY DEF MapTypeOK, SliceAt
      <4> QED BY <3>2, <3>4, <4>1 DEF MapTypeOK, Without, Put
    <3> QED BY <3>1, <3>3, <3>4
  <2>3. CASE Random
    <3>1. off' \in BOOLEAN
      BY <2>3, Zenon DEF Random, MapTypeOK
    <3> QED BY <2>3, <3>1 DEF Random, MapTypeOK
  <2>4. CASE Clear
    BY <2>4 DEF Clear, MapTypeOK
  <2>5. CASE DoTimeout
    BY <2>5 DEF DoTimeout, Without, MapTypeOK
  <2>6. ASSUME NEW k \in Keys, Erase(k) PROVE MapTypeOK'
    BY <1>2, <2>6 DEF Erase, MapTypeOK
  <2>7. ASSUME NEW k \in Keys, NEW v \in Values, Insert(k, v) PROVE MapTypeOK'
    <3>1. SliceAt(now) \subseteq Keys /\ now \in Seconds
      BY DEF MapTypeOK, SliceAt
    <3> QED BY <2>7, <3>1 DEF Insert, Put, MapTypeOK
  <2>8. ASSUME NEW k \in Keys, NEW v \in Values, Update(k, v) PROVE MapTypeOK'
    <3>1. /\ values[k].ts \in Seconds /\ now \in Seconds
          /\ SliceAt(values[k].ts) \subseteq Keys
      BY <2>8 DEF Update, MapTypeOK, SliceAt
    <3> DEFINE out == Put(slices, values[k].ts, SliceAt(values[k].ts) \ {k})
    <3>2. DOMAIN out \subseteq Seconds /\ \A s \in DOMAIN out : out[s] \subseteq Keys
      BY <3>1 DEF Put, MapTypeOK
    <3>3. slices' = Put(out, now, (IF now \in DOMAIN out THEN out[now] ELSE {}) \cup {k})
      BY <2>8 DEF Update, Moved
    <3> HIDE DEF out
    <3>4. /\ DOMAIN slices' \subseteq Seconds
          /\ \A s \in DOMAIN slices' : slices'[s] \subseteq Keys
      BY <3>1, <3>2, <3>3 DEF Put
    <3>5. /\ DOMAIN values' \subseteq Keys
          /\ \A j \in DOMAIN values' : values'[j] \in [v : Values, ts : Seconds]
      BY <2>8, <3>1 DEF Update, Put, MapTypeOK
    <3> QED BY <2>8, <3>4, <3>5 DEF Update, MapTypeOK
  <2>9. CASE UNCHANGED mapVars
    BY <2>9 DEF mapVars, MapTypeOK
  <2> QED BY <2>1, <2>2, <2>3, <2>4, <2>5, <2>6, <2>7, <2>8, <2>9 DEF MapNext
<1> QED BY <1>1, <1>3, PTL DEF MapSpec

(* DoTimeout leaves nothing that is too old, and takes nothing else but    *)
(* what was inserted over an older value or met movefirst()'s bug.         *)
THEOREM TimeoutsAlwaysRight == MapSpec => TimeoutsRight
<1>1. MapInv /\ [MapNext]_mapVars =>
        [DoTimeout => \A k \in DOMAIN values' : values'[k].ts >= now - Timeout]_mapVars
  <2> SUFFICES ASSUME MapInv, DoTimeout, NEW k \in DOMAIN values'
               PROVE  values'[k].ts >= now - Timeout
    OBVIOUS
  <2>1. k \in DOMAIN values
    BY DEF DoTimeout, Without
  <2> QED BY <2>1, TimeoutTakes
<1>2. MapInv /\ [MapNext]_mapVars =>
        [DoTimeout =>
           \A k \in DOMAIN values \ again :
             values[k].ts >= now - Timeout =>
               k \in DOMAIN values' /\ values'[k] = values[k]]_mapVars
  <2> SUFFICES ASSUME MapInv, DoTimeout, NEW k \in DOMAIN values \ again,
                      values[k].ts >= now - Timeout
               PROVE  k \in DOMAIN values' /\ values'[k] = values[k]
    OBVIOUS
  <2>1. values[k].ts \in Int /\ now - Timeout \in Int
    BY TimeoutMapAssumption DEF MapInv
  <2> QED BY <2>1, TimeoutTakes
<1>3. MapSpec => OnTime
  BY <1>1, MapInvInit, MapInvStep, PTL DEF MapSpec, OnTime
<1>4. MapSpec => NeverEarly
  BY <1>2, MapInvInit, MapInvStep, PTL DEF MapSpec, NeverEarly
<1> QED BY <1>3, <1>4 DEF TimeoutsRight
-----------------------------------------------------------------------------
(* Database. *)

(* What is known of the statement in progress at each place of its call:   *)
(* it was not run before its first try, it is tried again only if it was   *)
(* not run or its answer was lost, and it has results only if it was run.  *)
InProgress ==
  /\ stmt # NoStatement => kind[stmt] # "none" /\ dbResult[stmt] = "none"
  /\ dbStep \in {"build", "execute"} => applied[stmt] = 0
  /\ dbStep \in {"again", "second"} => applied[stmt] <= 1
  /\ dbStep \in {"again", "second", "failed"} => applied[stmt] = 0 \/ stmt \in lost
  /\ dbStep = "results" => applied[stmt] >= 1

(* And of one that was not given yet. *)
NotGiven ==
  \A s \in Statements : kind[s] = "none" => applied[s] = 0 /\ dbResult[s] = "none"

CallInv == MysqlTypeOK /\ InProgress /\ NotGiven /\ Reported

LEMMA CallInvInit == MysqlConstants /\ MysqlInit => CallInv
<1> SUFFICES ASSUME MysqlConstants, MysqlInit PROVE CallInv
  OBVIOUS
<1>1. MysqlTypeOK
  <2>1. /\ kind \in [Statements -> Kinds \cup {"none"}]
        /\ applied \in [Statements -> 0 .. 2]
        /\ dbResult \in [Statements -> {"none", "thrown", "affected", "rows"}]
    BY DEF MysqlInit
  <2>2. connected \in BOOLEAN /\ stmt = NoStatement /\ dbStep = "idle" /\ lost = {}
    BY DEF MysqlInit
  <2> QED BY <2>1, <2>2 DEF MysqlTypeOK
<1>2. InProgress
  BY DEF MysqlInit, InProgress
<1>3. NotGiven
  BY DEF MysqlInit, NotGiven
<1>4. Reported
  BY DEF MysqlInit, Reported, Finished
<1> QED BY <1>1, <1>2, <1>3, <1>4 DEF CallInv

(* A call that ends, without another run of its statement. *)
LEMMA EndKeeps ==
  ASSUME MysqlConstants, CallInv, stmt # NoStatement,
         NEW r \in {"thrown", "affected", "rows"}, CallEnds(r),
         UNCHANGED <<kind, lost, applied>>, connected' \in BOOLEAN,
         r # "thrown" => applied[stmt] >= 1,
         r = "thrown" /\ stmt \notin lost /\ kind[stmt] # "read" => applied[stmt] = 0
  PROVE  CallInv'
<1>1. /\ stmt \in Statements /\ kind[stmt] # "none"
      /\ dbResult'[stmt] = r
      /\ \A s \in Statements : s # stmt => dbResult'[s] = dbResult[s]
      /\ dbStep' = "idle" /\ stmt' = NoStatement
  BY DEF CallInv, MysqlTypeOK, InProgress, CallEnds
<1>2. MysqlTypeOK'
  BY <1>1 DEF CallInv, MysqlTypeOK, CallEnds
<1>3. InProgress'
  BY <1>1 DEF InProgress
<1>4. NotGiven'
  BY <1>1 DEF CallInv, NotGiven
<1>5. Reported'
  BY <1>1 DEF CallInv, Reported, Finished
<1> QED BY <1>2, <1>3, <1>4, <1>5 DEF CallInv

(* A call that goes on, its statement run once more or not. *)
LEMMA GoKeeps ==
  ASSUME MysqlConstants, CallInv, stmt # NoStatement, NEW p,
         p \in {"execute", "again", "second", "failed", "results"},
         Go(p), UNCHANGED kind, connected' \in BOOLEAN,
         lost' \in {lost, lost \cup {stmt}},
         UNCHANGED applied \/ (Applied /\ applied[stmt] <= 1),
         applied'[stmt] = 2 => stmt \in lost',
         p = "execute" => applied'[stmt] = 0,
         p \in {"again", "second"} => applied'[stmt] <= 1,
         p \in {"again", "second", "failed"} => applied'[stmt] = 0 \/ stmt \in lost',
         p = "results" => applied'[stmt] >= 1
  PROVE  CallInv'
<1>1. /\ stmt \in Statements /\ kind[stmt] # "none" /\ dbResult[stmt] = "none"
      /\ applied[stmt] \in 0 .. 2
      /\ stmt' = stmt /\ dbResult' = dbResult /\ dbStep' = p
      /\ \A s \in Statements : s # stmt => applied'[s] = applied[s]
      /\ applied' \in [Statements -> 0 .. 2]
  BY DEF CallInv, MysqlTypeOK, InProgress, Go, Applied
<1>2. MysqlTypeOK'
  BY <1>1 DEF CallInv, MysqlTypeOK
<1>3. InProgress'
  BY <1>1 DEF InProgress
<1>4. NotGiven'
  BY <1>1 DEF CallInv, NotGiven
<1>5. Reported'
  <2> SUFFICES ASSUME NEW s \in Statements
               PROVE  /\ Finished(s)' => applied'[s] >= 1
                      /\ dbResult'[s] = "thrown" /\ s \notin lost' /\ kind'[s] # "read"
                           => applied'[s] = 0
                      /\ applied'[s] = 2 => s \in lost'
    BY DEF Reported
  <2>1. CASE s = stmt
    BY <1>1, <2>1 DEF Finished
  <2>2. CASE s # stmt
    BY <1>1, <2>2 DEF CallInv, Reported, Finished
  <2> QED BY <2>1, <2>2
<1> QED BY <1>2, <1>3, <1>4, <1>5 DEF CallInv

LEMMA CallInvStep == MysqlConstants /\ CallInv /\ [MysqlNext]_dbVars => CallInv'
<1> SUFFICES ASSUME MysqlConstants, CallInv, [MysqlNext]_dbVars PROVE CallInv'
  OBVIOUS
<1>0. MysqlTypeOK /\ InProgress /\ NotGiven /\ Reported
  BY DEF CallInv
<1>1. ASSUME dbStep # "idle"
      PROVE  stmt # NoStatement /\ stmt \in Statements /\ applied[stmt] \in 0 .. 2
             /\ (applied[stmt] = 2 => stmt \in lost)
  BY <1>0, <1>1 DEF MysqlTypeOK, Reported
<1>2. ASSUME NEW s \in Statements, Call(s) PROVE CallInv'
  <2>1. /\ dbStep = "idle" /\ kind[s] = "none" /\ stmt' = s
        /\ dbStep' \in {"build", "execute"}
        /\ UNCHANGED <<connected, lost, applied, dbResult>>
    BY <1>2 DEF Call
  <2>2. PICK k \in Kinds : kind' = [kind EXCEPT ![s] = k]
    BY <1>2 DEF Call
  <2>3. k # "none" /\ kind'[s] = k /\ \A t \in Statements : t # s => kind'[t] = kind[t]
    BY <1>0, <2>2 DEF MysqlTypeOK, Kinds
  <2>4. applied[s] = 0 /\ dbResult[s] = "none"
    BY <1>0, <2>1 DEF NotGiven
  <2>5. MysqlTypeOK'
    BY <1>0, <2>1, <2>2 DEF MysqlTypeOK, MysqlConstants
  <2>6. InProgress'
    BY <2>1, <2>3, <2>4 DEF InProgress
  <2>7. NotGiven'
    BY <1>0, <2>1, <2>3 DEF NotGiven
  <2>8. Reported'
    BY <1>0, <2>1, <2>3, <2>4 DEF Reported, Finished
  <2> QED BY <2>5, <2>6, <2>7, <2>8 DEF CallInv
<1>3. CASE Disconnect
  BY <1>0, <1>3 DEF Disconnect, CallInv, MysqlTypeOK, InProgress, NotGiven, Reported, Finished
<1>4. ASSUME NEW p \in {"execute", "second"}, Connect(p),
             p = "execute" => dbStep \in {"build", "execute"},
             p = "second" => dbStep = "again",
             UNCHANGED <<kind, lost, applied>>
      PROVE  CallInv'
  <2>1. dbStep # "idle"
    BY <1>4
  <2>2. CASE connected' = TRUE /\ Go(p)
    BY <1>0, <1>1, <1>4, <2>1, <2>2, GoKeeps DEF InProgress
  <2>3. CASE connected' = FALSE /\ CallEnds("thrown")
    BY <1>0, <1>1, <1>4, <2>1, <2>3, EndKeeps DEF InProgress
  <2> QED BY <1>4, <2>2, <2>3 DEF Connect
<1>5. CASE Build \/ ConnectFirst \/ ConnectAgain
  <2>1. CASE Build /\ connected
    BY <1>0, <1>1, <2>1, GoKeeps DEF Build, InProgress
  <2>2. CASE ~(Build /\ connected)
    BY <1>4, <1>5, <2>2 DEF Build, ConnectFirst, ConnectAgain
  <2> QED BY <2>1, <2>2
<1>6. CASE FirstTry
  <2>1. dbStep = "execute" /\ UNCHANGED <<kind, connected>> /\ connected \in BOOLEAN
    BY <1>0, <1>6 DEF FirstTry, MysqlTypeOK
  <2>2. applied[stmt] = 0 /\ (Applied => applied'[stmt] = 1)
    BY <1>0, <1>1, <2>1 DEF InProgress, Applied, MysqlTypeOK
  <2>3. CASE Answered("results")
    BY <1>1, <2>1, <2>2, <2>3, GoKeeps DEF Answered
  <2>4. CASE Refused
    BY <1>1, <2>1, <2>2, <2>4, EndKeeps DEF Refused
  <2>5. CASE NoConnection("again")
    BY <1>1, <2>1, <2>2, <2>5, GoKeeps DEF NoConnection
  <2>6. CASE ConnectionLost("again")
    BY <1>1, <2>1, <2>2, <2>6, GoKeeps DEF ConnectionLost
  <2> QED BY <1>6, <2>3, <2>4, <2>5, <2>6 DEF FirstTry
<1>7. CASE SecondTry
  <2>1. dbStep = "second" /\ UNCHANGED <<kind, connected>> /\ connected \in BOOLEAN
    BY <1>0, <1>7 DEF SecondTry, MysqlTypeOK
  <2>2. /\ applied[stmt] <= 1 /\ (applied[stmt] = 0 \/ stmt \in lost)
        /\ Applied => applied'[stmt] = applied[stmt] + 1
    BY <1>0, <1>1, <2>1 DEF InProgress, Applied, MysqlTypeOK
  <2>3. CASE Answered("results")
    BY <1>1, <2>1, <2>2, <2>3, GoKeeps DEF Answered
  <2>4. CASE Refused
    BY <1>1, <2>1, <2>2, <2>4, EndKeeps DEF Refused
  <2>5. CASE NoConnection("failed")
    BY <1>1, <2>1, <2>2, <2>5, GoKeeps DEF NoConnection
  <2>6. CASE ConnectionLost("failed")
    BY <1>1, <2>1, <2>2, <2>6, GoKeeps DEF ConnectionLost
  <2> QED BY <1>7, <2>3, <2>4, <2>5, <2>6 DEF SecondTry
<1>8. CASE Throw
  <2>1. dbStep = "failed" /\ (applied[stmt] = 0 \/ stmt \in lost) /\ connected \in BOOLEAN
    BY <1>0, <1>8 DEF Throw, InProgress, MysqlTypeOK
  <2> QED BY <1>1, <1>8, <2>1, EndKeeps DEF Throw
<1>9. CASE Results
  <2>1. dbStep = "results" /\ applied[stmt] >= 1 /\ connected \in BOOLEAN
        /\ UNCHANGED <<kind, connected, lost, applied>>
    BY <1>0, <1>9 DEF Results, InProgress, MysqlTypeOK
  <2>2. CASE kind[stmt] = "read" /\ CallEnds("thrown")
    BY <1>1, <2>1, <2>2, EndKeeps
  <2>3. CASE CallEnds("rows")
    BY <1>1, <2>1, <2>3, EndKeeps
  <2>4. CASE CallEnds("affected")
    BY <1>1, <2>1, <2>4, EndKeeps
  <2> QED BY <1>9, <2>2, <2>3, <2>4 DEF Results
<1>10. CASE UNCHANGED dbVars
  BY <1>0, <1>10 DEF dbVars, CallInv, MysqlTypeOK, InProgress, NotGiven, Reported, Finished
<1> QED BY <1>2, <1>3, <1>5, <1>6, <1>7, <1>8, <1>9, <1>10 DEF MysqlNext

(* DCMysql runs a statement a second time only after an answer was lost,   *)
(* and what it reports of a statement is what the server did with it, for  *)
(* any statements and any losses. *)
THEOREM AlwaysReported == ASSUME MysqlConstants PROVE MysqlSpec => []Reported
<1>1. MysqlInit => CallInv
  BY CallInvInit
<1>2. CallInv /\ [MysqlNext]_dbVars => CallInv'
  BY CallInvStep
<1>3. CallInv => Reported
  BY DEF CallInv
<1> QED BY <1>1, <1>2, <1>3, PTL DEF MysqlSpec

(* Types of the one call DCMysql makes at a time and of what the server did.*)
THEOREM MysqlTypeCorrect == ASSUME MysqlConstants PROVE MysqlSpec => []MysqlTypeOK
<1>1. MysqlInit => CallInv
  BY CallInvInit
<1>2. CallInv /\ [MysqlNext]_dbVars => CallInv'
  BY CallInvStep
<1>3. CallInv => MysqlTypeOK
  BY DEF CallInv
<1> QED BY <1>1, <1>2, <1>3, PTL DEF MysqlSpec
-----------------------------------------------------------------------------
(* Redis. *)

Answers == RedisClients \cup Int \cup {Nothing}

Commands ==
  {"get", "mget", "hget", "hmget", "lrange", "llen", "set", "mset", "append",
   "getset", "incrby", "push", "pop", "lset", "lrem", "hmset", "hdel", "del",
   "expireat", "hset", "expire"}

RedisTypes ==
  /\ redisCall \in [RedisClients -> Calls \cup {"none"}]
  /\ step \in [RedisClients -> {"call", "expire", "del", "done", "dead"}]
  /\ result \in [RedisClients -> Seq(Answers)]
  /\ failed \in [RedisClients -> SUBSET (Commands \X Replies)]
  /\ db \in [string : RedisClients \cup {Nothing}, number : Int,
             list : Seq(RedisClients), hash : SUBSET RedisClients,
             limited : BOOLEAN]
  /\ gone \in SUBSET RedisClients

(* Where an element can be: in the list, in the hands of the client whose  *)
(* pop returned it, or lost.                                               *)
There(p) == \E i \in DOMAIN db.list : db.list[i] = p
Hands(c, p) == redisCall[c] = "pop" /\ Returned(c, p)
Somewhere(p) == There(p) \/ p \in gone \/ \E c \in RedisClients : Hands(c, p)

(* A client that has made no call has left no trace; only hset() with a    *)
(* limit is on its way for longer; a call that is done has one result.     *)
Progress ==
  \A c \in RedisClients :
    /\ step[c] = "call" =>
         /\ redisCall[c] = "none" /\ result[c] = <<>>
         /\ ~Somewhere(c) /\ c \notin db.hash
    /\ step[c] \in {"expire", "del"} =>
         redisCall[c] \in {"hset limit", "hset short"} /\ result[c] = <<>>
    /\ step[c] = "done" => Len(result[c]) = 1
    /\ step[c] = "dead" => result[c] = <<>>

(* No element is in two places. *)
Apart ==
  /\ \A i, j \in DOMAIN db.list : db.list[i] = db.list[j] => i = j
  /\ \A p \in gone : ~There(p)
  /\ \A p, c \in RedisClients : Hands(c, p) =>
       /\ ~There(p) /\ p \notin gone
       /\ \A d \in RedisClients : Hands(d, p) => d = c

(* What a push returned says whether its element is somewhere. *)
Told ==
  \A p \in RedisClients, n \in Int :
    redisCall[p] = "push" /\ Returned(p, n) =>
      (n > 0 => Somewhere(p)) /\ (n = 0 => ~Somewhere(p))

RedisInv == RedisTypes /\ Progress /\ Apart /\ Told /\ LimitHonoured

DbType ==
  [string : RedisClients \cup {Nothing}, number : Int,
   list : Seq(RedisClients), hash : SUBSET RedisClients, limited : BOOLEAN]

LEMMA ReturnIs ==
  ASSUME RedisTypes, NEW c \in RedisClients, NEW v \in Answers, Gives(c, v)
  PROVE  /\ step' \in [RedisClients -> {"call", "expire", "del", "done", "dead"}]
         /\ result' \in [RedisClients -> Seq(Answers)]
         /\ step'[c] = "done" /\ result'[c] = <<v>>
         /\ \A d \in RedisClients \ {c} :
              step'[d] = step[d] /\ result'[d] = result[d]
<1>1. <<v>> \in Seq(Answers)
  OBVIOUS
<1> QED BY <1>1 DEF RedisTypes, Gives

LEMMA MakeIs ==
  ASSUME RedisTypes, NEW c \in RedisClients, NEW k \in Calls, Make(c, k)
  PROVE  /\ redisCall' \in [RedisClients -> Calls \cup {"none"}]
         /\ redisCall'[c] = k /\ step[c] = "call"
         /\ \A d \in RedisClients \ {c} : redisCall'[d] = redisCall[d]
BY DEF RedisTypes, Make

LEMMA ExecIs ==
  ASSUME RedisTypes, NEW c \in RedisClients, NEW command \in Commands,
         NEW after \in DbType, NEW r \in Replies, Exec(c, command, after, r)
  PROVE  /\ db' \in {db, after} /\ db' \in DbType
         /\ r = "reply" => db' = after
         /\ r = "error" => db' = db
         /\ failed' \in [RedisClients -> SUBSET (Commands \X Replies)]
         /\ \A d \in RedisClients : failed[d] \subseteq failed'[d]
         /\ HasError(r) => <<command, r>> \in failed'[c]
<1>0. db \in DbType
  BY DEF RedisTypes, DbType
<1>1. CASE r = "reply"
  BY <1>0, <1>1 DEF RedisTypes, Exec, HasError
<1>2. CASE r # "reply"
  <2>1. failed' = [failed EXCEPT ![c] = failed[c] \cup {<<command, r>>}]
    BY <1>2 DEF Exec
  <2>2. /\ <<command, r>> \in Commands \X Replies
        /\ failed \in [RedisClients -> SUBSET (Commands \X Replies)]
    BY DEF RedisTypes
  <2>3. /\ failed' \in [RedisClients -> SUBSET (Commands \X Replies)]
        /\ \A d \in RedisClients : failed[d] \subseteq failed'[d]
        /\ <<command, r>> \in failed'[c]
    BY <2>1, <2>2
  <2>4. /\ db' \in {db, after}
        /\ r = "error" => db' = db
    BY <1>2 DEF Exec, Replies
  <2> QED BY <1>0, <1>2, <2>3, <2>4 DEF HasError
<1> QED BY <1>1, <1>2

(* What a step of one client leaves alone of the others'.                  *)
Others(c) ==
  \A d \in RedisClients \ {c} :
    /\ redisCall'[d] = redisCall[d] /\ step'[d] = step[d] /\ result'[d] = result[d]
    /\ failed[d] \subseteq failed'[d]

Goes(c) ==
  \/ step'[c] = "done" /\ Len(result'[c]) = 1
  \/ step'[c] = "dead" /\ result'[c] = <<>>
  \/ /\ step'[c] \in {"expire", "del"} /\ result'[c] = <<>>
     /\ redisCall'[c] \in {"hset limit", "hset short"}

(* The hash gains the client's own field at most; a limit on it stays, or  *)
(* goes with the whole of it.                                              *)
HashStep(c) ==
  /\ db'.hash \subseteq db.hash \cup {c}
  /\ db'.limited = db.limited \/ db'.limited = (db'.hash # {})

LimitTold(c) ==
  redisCall[c] = "hset limit" /\ step[c] = "done" /\ c \in db.hash /\ ~db.limited
    => /\ Returned(c, Truth(FALSE))
       /\ \/ <<"hset", "null">> \in failed[c]
          \/ \E r \in Replies : <<"del", r>> \in failed[c]

LEMMA LimitKept ==
  ASSUME RedisInv, NEW c \in RedisClients, Others(c), HashStep(c), LimitTold(c)'
  PROVE  LimitHonoured'
<1> SUFFICES ASSUME NEW d \in RedisClients PROVE LimitTold(d)'
  BY DEF LimitHonoured, LimitTold
<1>1. CASE d = c
  BY <1>1
<1>2. CASE d # c
  <2>1. /\ redisCall'[d] = redisCall[d] /\ step'[d] = step[d] /\ result'[d] = result[d]
        /\ failed[d] \subseteq failed'[d]
    BY <1>2 DEF Others
  <2>2. d \in db'.hash /\ ~db'.limited => d \in db.hash /\ ~db.limited
    BY <1>2 DEF HashStep, RedisInv, RedisTypes
  <2>3. LimitTold(d)
    BY DEF RedisInv, LimitHonoured, LimitTold
  <2> QED BY <2>1, <2>2, <2>3 DEF LimitTold, Returned
<1> QED BY <1>1, <1>2

(* Elements move from the list to a hand or to what is lost, and only the  *)
(* client whose step it is brings one in.                                  *)
Moves(c) ==
  /\ \A i, j \in DOMAIN db'.list : db'.list[i] = db'.list[j] => i = j
  /\ gone \subseteq gone' /\ gone' \subseteq RedisClients
  /\ \A p \in gone' \ gone : There(p) /\ ~There(p)'
  /\ \A p \in RedisClients :
       /\ There(p)' => There(p) \/ (p = c /\ step[c] = "call")
       /\ There(p) => There(p)' \/ p \in gone' \/ Hands(c, p)'
       /\ Hands(c, p)' => There(p) /\ ~There(p)' /\ p \notin gone'
  /\ redisCall'[c] = "push" =>
       /\ step[c] = "call"
       /\ \A n \in Int : Returned(c, n)' =>
            (n > 0 => There(c)') /\ (n = 0 => ~There(c)')

LEMMA PlacesKept ==
  ASSUME RedisInv, NEW c \in RedisClients, step[c] # "done", Others(c), Moves(c)
  PROVE  /\ Apart' /\ Told'
         /\ \A d \in RedisClients \ {c} : Somewhere(d)' => Somewhere(d)
<1>0. /\ Apart /\ Told /\ gone \subseteq RedisClients
      /\ \A p \in RedisClients : ~Hands(c, p)
      /\ step[c] = "call" => ~Somewhere(c)
  <2>1. step[c] \in {"call", "expire", "del", "dead"}
    BY DEF RedisInv, RedisTypes
  <2>2. result[c] = <<>>
    BY <2>1 DEF RedisInv, Progress
  <2>3. ASSUME NEW p \in RedisClients PROVE ~Hands(c, p)
    <3>1. <<>> # <<p>>
      OBVIOUS
    <3> QED BY <2>2, <3>1 DEF Hands, Returned
  <2> QED BY <2>3 DEF RedisInv, RedisTypes, Progress
<1>1. \A p : \A d \in RedisClients \ {c} : Hands(d, p)' <=> Hands(d, p)
  BY DEF Others, Hands, Returned
<1>2. \A p \in RedisClients : There(p)' =>
        There(p) \/ (p = c /\ ~Somewhere(c))
  BY <1>0 DEF Moves
<1>3. Apart'
  <2>1. \A p \in gone' : ~There(p)'
    BY <1>0, <1>2 DEF Moves, Apart, Somewhere
  <2>2. ASSUME NEW p \in RedisClients, NEW d \in RedisClients, Hands(d, p)'
        PROVE  /\ ~There(p)' /\ p \notin gone'
               /\ \A e \in RedisClients : Hands(e, p)' => e = d
    <3>1. CASE d = c
      <4>1. There(p) /\ ~There(p)' /\ p \notin gone'
        BY <2>2, <3>1 DEF Moves
      <4>2. ASSUME NEW e \in RedisClients, Hands(e, p)' PROVE e = c
        BY <1>0, <1>1, <4>1, <4>2 DEF Apart
      <4> QED BY <3>1, <4>1, <4>2
    <3>2. CASE d # c
      <4>1. Hands(d, p)
        BY <1>1, <2>2, <3>2
      <4>2. ~There(p) /\ p \notin gone
        BY <1>0, <4>1 DEF Apart
      <4>3. ~There(p)' /\ p \notin gone'
        BY <1>2, <4>1, <4>2 DEF Moves, Somewhere
      <4>4. ASSUME NEW e \in RedisClients, Hands(e, p)' PROVE e = d
        <5>1. e # c
          BY <4>2, <4>4 DEF Moves
        <5> QED BY <1>0, <1>1, <4>1, <4>4, <5>1 DEF Apart
      <4> QED BY <4>3, <4>4
    <3> QED BY <3>1, <3>2
  <2>3. \A i, j \in DOMAIN db'.list : db'.list[i] = db'.list[j] => i = j
    BY DEF Moves
  <2> QED BY <2>1, <2>2, <2>3 DEF Apart
<1>4. ASSUME NEW p \in RedisClients, p # c
      PROVE  Somewhere(p)' <=> Somewhere(p)
  <2>1. Somewhere(p)' => Somewhere(p)
    BY <1>1, <1>2, <1>4 DEF Moves, Somewhere
  <2>2. Somewhere(p) => Somewhere(p)'
    BY <1>0, <1>1 DEF Moves, Somewhere
  <2> QED BY <2>1, <2>2
<1>5. Told'
  <2> SUFFICES ASSUME NEW p \in RedisClients, NEW n \in Int,
                      redisCall'[p] = "push", Returned(p, n)'
      PROVE (n > 0 => Somewhere(p)') /\ (n = 0 => ~Somewhere(p)')
    BY DEF Told
  <2>1. CASE p # c
    <3>1. redisCall[p] = "push" /\ Returned(p, n)
      BY <2>1 DEF Others, Returned
    <3> QED BY <1>0, <1>4, <2>1, <3>1 DEF Told
  <2>2. CASE p = c
    <3>1. /\ n > 0 => There(c)'
          /\ n = 0 => ~There(c)'
          /\ ~Somewhere(c)
      BY <1>0, <2>2 DEF Moves
    <3>2. c \notin gone' /\ \A d \in RedisClients : ~Hands(d, c)'
      BY <1>1, <3>1 DEF Moves, Somewhere
    <3> QED BY <2>2, <3>1, <3>2 DEF Somewhere
  <2> QED BY <2>1, <2>2
<1> QED BY <1>3, <1>4, <1>5

LEMMA StepKeeps ==
  ASSUME RedisInv, RedisTypes', NEW c \in RedisClients, step[c] # "done",
         Others(c), Goes(c), HashStep(c), Moves(c), LimitTold(c)'
  PROVE  RedisInv'
<1>1. /\ Apart' /\ Told' /\ LimitHonoured'
      /\ \A d \in RedisClients \ {c} : Somewhere(d)' => Somewhere(d)
  BY PlacesKept, LimitKept
<1>2. Progress'
  <2> SUFFICES ASSUME NEW d \in RedisClients
      PROVE /\ step'[d] = "call" =>
                 /\ redisCall'[d] = "none" /\ result'[d] = <<>>
                 /\ ~Somewhere(d)' /\ d \notin db'.hash
            /\ step'[d] \in {"expire", "del"} =>
                 redisCall'[d] \in {"hset limit", "hset short"} /\ result'[d] = <<>>
            /\ step'[d] = "done" => Len(result'[d]) = 1
            /\ step'[d] = "dead" => result'[d] = <<>>
    BY DEF Progress
  <2>1. CASE d = c
    BY <2>1 DEF Goes
  <2>2. CASE d # c
    <3>1. redisCall'[d] = redisCall[d] /\ step'[d] = step[d] /\ result'[d] = result[d]
      BY <2>2 DEF Others
    <3>2. d \in db'.hash => d \in db.hash
      BY <2>2 DEF HashStep
    <3> QED BY <1>1, <2>2, <3>1, <3>2 DEF RedisInv, Progress
  <2> QED BY <2>1, <2>2
<1> QED BY <1>1, <1>2 DEF RedisInv

(* A step that leaves the list alone moves nothing.                        *)
LEMMA StillMoves ==
  ASSUME RedisInv, NEW c \in RedisClients, db'.list = db.list, gone' = gone,
         \A p \in RedisClients : ~Hands(c, p)',
         redisCall'[c] = "push" => step[c] = "call" /\ result'[c] \in {<<-1>>, << 0 >>}
  PROVE  Moves(c)
<1>1. \A p : There(p)' <=> There(p)
  BY DEF There
<1>2. redisCall'[c] = "push" => ~There(c)
  BY DEF RedisInv, Progress, Somewhere
<1>3. redisCall'[c] = "push" =>
       \A n \in Int : Returned(c, n)' => (n > 0 => There(c)') /\ (n = 0 => ~There(c)')
  BY <1>1, <1>2 DEF Returned
<1>4. /\ \A i, j \in DOMAIN db'.list : db'.list[i] = db'.list[j] => i = j
      /\ gone \subseteq gone' /\ gone' \subseteq RedisClients /\ gone' \ gone = {}
  BY DEF RedisInv, RedisTypes, Apart
<1>5. \A p \in RedisClients : There(p)' <=> There(p)
  BY <1>1
<1>6. \A p \in RedisClients :
        /\ There(p)' => There(p) \/ (p = c /\ step[c] = "call")
        /\ There(p) => There(p)' \/ p \in gone' \/ Hands(c, p)'
        /\ Hands(c, p)' => There(p) /\ ~There(p)' /\ p \notin gone'
  BY <1>5
<1>7. \A p \in gone' \ gone : There(p) /\ ~There(p)'
  BY <1>4
<1>8. redisCall'[c] = "push" =>
        /\ step[c] = "call"
        /\ \A n \in Int : Returned(c, n)' =>
             (n > 0 => There(c)') /\ (n = 0 => ~There(c)')
  BY <1>3
<1> QED BY <1>4, <1>6, <1>7, <1>8 DEF Moves

(* A call of one command that leaves the list alone.                       *)
LEMMA StillCall ==
  ASSUME RedisConstants, RedisInv, NEW c \in RedisClients,
         NEW k \in Calls \ {"hset limit"}, Make(c, k),
         NEW command \in Commands, NEW after \in DbType, NEW r \in Replies,
         Exec(c, command, after, r),
         NEW v \in Answers, Gives(c, v),
         after.list = db.list, gone' = gone,
         after.hash \subseteq db.hash \cup {c},
         after.limited = db.limited \/ after.limited = (after.hash # {}),
         k = "pop" => v = Nothing, k = "push" => v \in {-1, 0}
  PROVE  RedisInv'
<1>0. RedisTypes
  BY DEF RedisInv
<1>1. /\ step' \in [RedisClients -> {"call", "expire", "del", "done", "dead"}]
      /\ result' \in [RedisClients -> Seq(Answers)]
      /\ step'[c] = "done" /\ result'[c] = <<v>>
      /\ \A d \in RedisClients \ {c} :
           step'[d] = step[d] /\ result'[d] = result[d]
  BY <1>0, ReturnIs
<1>2. /\ redisCall' \in [RedisClients -> Calls \cup {"none"}]
      /\ redisCall'[c] = k /\ step[c] = "call"
      /\ \A d \in RedisClients \ {c} : redisCall'[d] = redisCall[d]
  BY <1>0, MakeIs
<1>3. /\ db' \in {db, after} /\ db' \in DbType
      /\ failed' \in [RedisClients -> SUBSET (Commands \X Replies)]
      /\ \A d \in RedisClients : failed[d] \subseteq failed'[d]
  BY <1>0, ExecIs
<1>4. RedisTypes'
  BY <1>0, <1>1, <1>2, <1>3 DEF RedisTypes, DbType
<1>5. Others(c)
  BY <1>1, <1>2, <1>3 DEF Others
<1>6. Goes(c)
  BY <1>1 DEF Goes
<1>7. HashStep(c)
  BY <1>3 DEF HashStep
<1>8. \A p \in RedisClients : ~Hands(c, p)'
  <2> SUFFICES ASSUME NEW p \in RedisClients, redisCall'[c] = "pop", Returned(c, p)'
      PROVE FALSE
    BY DEF Hands
  <2>1. v = Nothing /\ result'[c] = <<v>> /\ result'[c] = <<p>>
    BY <1>1, <1>2 DEF Returned
  <2>2. <<v>> = <<p>>
    BY <2>1
  <2>3. v = p
    BY <2>2
  <2> QED BY <2>1, <2>3 DEF RedisConstants
<1>9. Moves(c)
  <2>1. db'.list = db.list
    BY <1>3
  <2>2. redisCall'[c] = "push" => step[c] = "call" /\ result'[c] \in {<<-1>>, <<0>>}
    BY <1>1, <1>2
  <2> QED BY <1>8, <2>1, <2>2, StillMoves
<1>10. LimitTold(c)'
  BY <1>2 DEF LimitTold
<1> QED BY <1>2, <1>4, <1>5, <1>6, <1>7, <1>9, <1>10, StepKeeps

LEMMA ReadsKeep ==
  ASSUME RedisConstants, RedisInv, NEW c \in RedisClients, Reads(c)
  PROVE  RedisInv'
<1>0. /\ db \in DbType /\ "read" \in Calls \ {"hset limit"} /\ gone' = gone
      /\ db.list \in Seq(RedisClients) /\ db.hash \subseteq RedisClients
      /\ db.string \in Answers /\ Int \subseteq Answers /\ Nothing \in Answers
      /\ RedisClients \subseteq Answers
      /\ {"get", "mget", "hget", "hmget", "lrange", "llen"} \subseteq Commands
  BY DEF Commands, RedisInv, RedisTypes, DbType, Calls, Answers, Reads, ReadString,
         ReadKeys, ReadField, ReadFields, ReadList, ReadLength
<1>1. ASSUME NEW command \in Commands, NEW r \in Replies, NEW v \in Answers,
             Make(c, "read"), Exec(c, command, db, r), Gives(c, v)
      PROVE  RedisInv'
  BY <1>0, <1>1, StillCall
<1>2. CASE ReadString(c)
  <2>1. PICK r \in Replies :
          /\ Exec(c, "get", db, r)
          /\ Gives(c, IF HasError(r) THEN Nothing ELSE db.string)
    BY <1>2 DEF ReadString
  <2> DEFINE v == IF HasError(r) THEN Nothing ELSE db.string
  <2>2. v \in Answers /\ Make(c, "read")
    BY <1>0, <1>2 DEF ReadString
  <2> HIDE DEF v
  <2> QED BY <1>0, <1>1, <2>1, <2>2 DEF v
<1>3. CASE ReadKeys(c)
  <2>1. PICK r \in Replies :
          /\ Exec(c, "mget", db, r)
          /\ Gives(c, Truth(~HasError(r) /\ db.string # Nothing))
    BY <1>3 DEF ReadKeys
  <2> DEFINE v == Truth(~HasError(r) /\ db.string # Nothing)
  <2>2. v \in Answers /\ Make(c, "read")
    BY <1>0, <1>3 DEF Truth, ReadKeys
  <2>3. Gives(c, v)
    BY <2>1
  <2> HIDE DEF v
  <2> QED BY <1>0, <1>1, <2>1, <2>2, <2>3
<1>4. CASE ReadField(c)
  <2>1. PICK r \in Replies : \E field \in RedisClients :
          /\ Exec(c, "hget", db, r)
          /\ Gives(c, IF HasError(r) \/ field \notin db.hash
                       THEN Nothing ELSE field)
    BY <1>4 DEF ReadField
  <2>2. PICK field \in RedisClients :
          /\ Exec(c, "hget", db, r)
          /\ Gives(c, IF HasError(r) \/ field \notin db.hash
                       THEN Nothing ELSE field)
    BY <2>1
  <2> DEFINE v == IF HasError(r) \/ field \notin db.hash THEN Nothing ELSE field
  <2>3. v \in Answers /\ Make(c, "read")
    BY <1>0, <1>4 DEF ReadField
  <2>4. Gives(c, v)
    BY <2>2
  <2> HIDE DEF v
  <2> QED BY <1>0, <1>1, <2>2, <2>3, <2>4
<1>5. CASE ReadFields(c)
  <2>1. PICK r \in Replies : \E fields \in SUBSET RedisClients :
          /\ Exec(c, "hmget", db, r)
          /\ Gives(c, IF HasError(r) THEN 0 ELSE Cardinality(fields \cap db.hash))
    BY <1>5 DEF ReadFields
  <2>2. PICK fields \in SUBSET RedisClients :
          /\ Exec(c, "hmget", db, r)
          /\ Gives(c, IF HasError(r) THEN 0 ELSE Cardinality(fields \cap db.hash))
    BY <2>1
  <2>3. Cardinality(fields \cap db.hash) \in Nat
    BY FS_Subset, FS_CardinalityType DEF RedisConstants
  <2> DEFINE v == IF HasError(r) THEN 0 ELSE Cardinality(fields \cap db.hash)
  <2>4. v \in Answers /\ Make(c, "read")
    BY <1>0, <1>5, <2>3 DEF ReadFields
  <2>5. Gives(c, v)
    BY <2>2
  <2> HIDE DEF v
  <2> QED BY <1>0, <1>1, <2>2, <2>4, <2>5
<1>6. CASE ReadList(c)
  <2>1. PICK r \in Replies : \E i, j \in 1 .. Len(db.list) :
          /\ Exec(c, "lrange", db, r)
          /\ Gives(c, IF HasError(r) THEN 0 ELSE Len(SubSeq(db.list, i, j)))
    BY <1>6 DEF ReadList
  <2>2. PICK i \in 1 .. Len(db.list) : \E j \in 1 .. Len(db.list) :
          /\ Exec(c, "lrange", db, r)
          /\ Gives(c, IF HasError(r) THEN 0 ELSE Len(SubSeq(db.list, i, j)))
    BY <2>1
  <2>3. PICK j \in 1 .. Len(db.list) :
          /\ Exec(c, "lrange", db, r)
          /\ Gives(c, IF HasError(r) THEN 0 ELSE Len(SubSeq(db.list, i, j)))
    BY <2>2
  <2>4. Len(SubSeq(db.list, i, j)) \in Nat
    BY <1>0
  <2> DEFINE v == IF HasError(r) THEN 0 ELSE Len(SubSeq(db.list, i, j))
  <2>5. v \in Answers /\ Make(c, "read")
    BY <1>0, <1>6, <2>4 DEF ReadList
  <2>6. Gives(c, v)
    BY <2>3
  <2> HIDE DEF v
  <2> QED BY <1>0, <1>1, <2>3, <2>5, <2>6
<1>7. CASE ReadLength(c)
  <2>1. PICK r \in Replies :
          /\ Exec(c, "llen", db, r)
          /\ Gives(c, IF HasError(r) THEN -1 ELSE Len(db.list))
    BY <1>7 DEF ReadLength
  <2>2. Len(db.list) \in Int /\ -1 \in Int
    BY <1>0
  <2> DEFINE v == IF HasError(r) THEN -1 ELSE Len(db.list)
  <2>3. v \in Answers /\ Make(c, "read")
    BY <1>0, <1>7, <2>2 DEF ReadLength
  <2>4. Gives(c, v)
    BY <2>1
  <2> HIDE DEF v
  <2> QED BY <1>0, <1>1, <2>1, <2>3, <2>4
<1> QED BY <1>2, <1>3, <1>4, <1>5, <1>6, <1>7 DEF Reads

LEMMA WritesKeep ==
  ASSUME RedisConstants, RedisInv, NEW c \in RedisClients,
         Set(c) \/ SetAll(c) \/ SetPart(c) \/ GetSet(c) \/ Add(c) \/ PushNowhere(c)
  PROVE  RedisInv'
<1>0. /\ db \in DbType /\ gone' = gone
      /\ {"set", "add", "push"} \subseteq Calls \ {"hset limit"}
      /\ db.number \in Int
      /\ db.string \in Answers /\ Int \subseteq Answers /\ Nothing \in Answers
      /\ {"set", "mset", "append", "getset", "incrby", "push"} \subseteq Commands
  BY DEF Commands, RedisInv, RedisTypes, DbType, Calls, Answers, Set, SetAll, SetPart,
         GetSet, Add, PushNowhere
<1>1. ASSUME NEW k \in {"set", "add", "push"}, NEW command \in Commands,
             NEW s \in RedisClients \cup {Nothing}, NEW n \in Int,
             NEW after, after = [db EXCEPT !.string = s, !.number = n],
             NEW r \in Replies, NEW v \in Answers, k = "push" => v \in {-1, 0},
             Make(c, k), Exec(c, command, after, r), Gives(c, v)
      PROVE  RedisInv'
  <2>1. /\ after \in DbType /\ after.list = db.list
        /\ after.hash = db.hash /\ after.limited = db.limited
    BY <1>0, <1>1 DEF DbType
  <2>2. k \in Calls \ {"hset limit"} /\ k # "pop"
    BY <1>0, <1>1
  <2> QED BY <1>0, <1>1, <2>1, <2>2, StillCall
<1>2. /\ \A s : [db EXCEPT !.string = s] = [db EXCEPT !.string = s, !.number = db.number]
      /\ \A n : [db EXCEPT !.number = n] = [db EXCEPT !.string = db.string, !.number = n]
      /\ db = [db EXCEPT !.string = db.string, !.number = db.number]
      /\ db.string \in RedisClients \cup {Nothing}
      /\ c \in RedisClients \cup {Nothing}
  BY <1>0 DEF DbType
<1>3. CASE Set(c)
  <2>1. PICK r \in Replies : \E create \in BOOLEAN :
          LET done == create \/ db.string # Nothing
          IN /\ Exec(c, "set", IF done THEN [db EXCEPT !.string = c] ELSE db, r)
             /\ Gives(c, Truth(~HasError(r) /\ done))
    BY <1>3 DEF Set
  <2>2. PICK done \in BOOLEAN :
          /\ Exec(c, "set", IF done THEN [db EXCEPT !.string = c] ELSE db, r)
          /\ Gives(c, Truth(~HasError(r) /\ done))
    BY <2>1
  <2> DEFINE v == Truth(~HasError(r) /\ done)
             s == IF done THEN c ELSE db.string
             after == [db EXCEPT !.string = s, !.number = db.number]
  <2>3. v \in Answers /\ Make(c, "set") /\ Gives(c, v)
    BY <1>0, <1>3, <2>2 DEF Truth, Set
  <2>4. s \in RedisClients \cup {Nothing}
    BY <1>2
  <2>5. (IF done THEN [db EXCEPT !.string = c] ELSE db) = after
    BY <1>2
  <2>6. Exec(c, "set", after, r)
    BY <2>2, <2>5
  <2> HIDE DEF v, s
  <2> QED BY <1>0, <1>1, <2>3, <2>4, <2>6
<1>4. CASE SetAll(c)
  <2>1. PICK r \in Replies :
          /\ Exec(c, "mset", [db EXCEPT !.string = c, !.number = 0], r)
          /\ Gives(c, Truth(~HasError(r)))
    BY <1>4 DEF SetAll
  <2> DEFINE v == Truth(~HasError(r))
  <2>2. v \in Answers /\ Make(c, "set") /\ Gives(c, v)
    BY <1>0, <1>4, <2>1 DEF Truth, SetAll
  <2>3. Exec(c, "mset", [db EXCEPT !.string = c, !.number = 0], r) /\ 0 \in Int
    BY <2>1
  <2> HIDE DEF v
  <2> QED BY <1>0, <1>1, <1>2, <2>2, <2>3
<1>5. CASE SetPart(c)
  <2>1. PICK r \in Replies :
          /\ Exec(c, "append", [db EXCEPT !.string = c], r)
          /\ Gives(c, Truth(~HasError(r)))
    BY <1>5 DEF SetPart
  <2> DEFINE v == Truth(~HasError(r))
  <2>2. v \in Answers /\ Make(c, "set") /\ Gives(c, v)
    BY <1>0, <1>5, <2>1 DEF Truth, SetPart
  <2>3. Exec(c, "append", [db EXCEPT !.string = c, !.number = db.number], r)
    BY <1>2, <2>1
  <2> HIDE DEF v
  <2> QED BY <1>0, <1>1, <1>2, <2>2, <2>3
<1>6. CASE GetSet(c)
  <2>1. PICK r \in Replies :
          /\ Exec(c, "getset", [db EXCEPT !.string = c], r)
          /\ Gives(c, IF HasError(r) THEN Nothing ELSE db.string)
    BY <1>6 DEF GetSet
  <2> DEFINE v == IF HasError(r) THEN Nothing ELSE db.string
  <2>2. v \in Answers /\ Make(c, "set") /\ Gives(c, v)
    BY <1>0, <1>6, <2>1 DEF GetSet
  <2>3. Exec(c, "getset", [db EXCEPT !.string = c, !.number = db.number], r)
    BY <1>2, <2>1
  <2> HIDE DEF v
  <2> QED BY <1>0, <1>1, <1>2, <2>2, <2>3
<1>7. CASE Add(c)
  <2>1. PICK r \in Replies : \E by \in {1, -1} :
          /\ Exec(c, "incrby", [db EXCEPT !.number = db.number + by], r)
          /\ Gives(c, IF HasError(r) THEN -1 ELSE db.number + by)
    BY <1>7 DEF Add
  <2>2. PICK by \in {1, -1} :
          /\ Exec(c, "incrby", [db EXCEPT !.number = db.number + by], r)
          /\ Gives(c, IF HasError(r) THEN -1 ELSE db.number + by)
    BY <2>1
  <2> DEFINE n == db.number + by
             v == IF HasError(r) THEN -1 ELSE n
  <2>3. n \in Int /\ -1 \in Int
    BY <1>0
  <2>4. v \in Answers /\ Make(c, "add") /\ Gives(c, v)
    BY <1>0, <1>7, <2>2, <2>3 DEF Add
  <2> HIDE DEF n
  <2>5. Exec(c, "incrby", [db EXCEPT !.string = db.string, !.number = n], r)
    BY <1>2, <2>2 DEF n
  <2> HIDE DEF v
  <2> QED BY <1>0, <1>1, <1>2, <2>3, <2>4, <2>5
<1>8. CASE PushNowhere(c)
  <2>1. PICK r \in Replies :
          /\ Exec(c, "push", db, r)
          /\ Gives(c, IF HasError(r) \/ db.list # <<>> THEN -1 ELSE 0)
    BY <1>8 DEF PushNowhere
  <2> DEFINE v == IF HasError(r) \/ db.list # <<>> THEN -1 ELSE 0
  <2>2. v \in Answers /\ v \in {-1, 0} /\ Make(c, "push") /\ Gives(c, v)
    BY <1>0, <1>8, <2>1 DEF PushNowhere
  <2>3. Exec(c, "push", [db EXCEPT !.string = db.string, !.number = db.number], r)
    BY <1>2, <2>1
  <2> HIDE DEF v
  <2> QED BY <1>0, <1>1, <1>2, <2>2, <2>3
<1> QED BY <1>3, <1>4, <1>5, <1>6, <1>7, <1>8

LEMMA HashCallsKeep ==
  ASSUME RedisConstants, RedisInv, NEW c \in RedisClients,
         SetFields(c) \/ DelFields(c) \/ DelKeys(c) \/ ExpireAt(c)
  PROVE  RedisInv'
<1>0. /\ db \in DbType /\ gone' = gone
      /\ {"hset", "hdel"} \subseteq Calls \ {"hset limit"}
      /\ {"hmset", "hdel", "del", "expireat"} \subseteq Commands
      /\ Int \subseteq Answers
  BY DEF Commands, RedisInv, RedisTypes, DbType, Calls, Answers, SetFields,
         DelFields, DelKeys, ExpireAt
<1>1. ASSUME NEW k \in {"hset", "hdel"}, NEW command \in Commands,
             NEW h \in SUBSET RedisClients, NEW l \in BOOLEAN,
             h \subseteq db.hash \cup {c}, l = db.limited \/ l = (h # {}),
             NEW after, after = [db EXCEPT !.hash = h, !.limited = l],
             NEW r \in Replies, NEW v \in Answers,
             Make(c, k), Exec(c, command, after, r), Gives(c, v)
      PROVE  RedisInv'
  <2>1. /\ after \in DbType /\ after.list = db.list
        /\ after.hash = h /\ after.limited = l
    BY <1>0, <1>1 DEF DbType
  <2>2. k \in Calls \ {"hset limit"} /\ k # "pop" /\ k # "push"
    BY <1>0, <1>1
  <2>3. /\ after.hash \subseteq db.hash \cup {c}
        /\ after.limited = db.limited \/ after.limited = (after.hash # {})
    <3>1. CASE l = db.limited
      BY <1>1, <2>1, <3>1
    <3>2. CASE l = (h # {})
      BY <1>1, <2>1, <3>2
    <3> QED BY <1>1, <3>1, <3>2
  <2>4. gone' = gone /\ after.list = db.list /\ after \in DbType
    BY <1>0, <2>1
  <2>5. Make(c, k) /\ Exec(c, command, after, r) /\ Gives(c, v)
    BY <1>1
  <2> QED BY <2>2, <2>3, <2>4, <2>5, StillCall
<1>2. /\ \A h : [db EXCEPT !.hash = h] = [db EXCEPT !.hash = h, !.limited = db.limited]
      /\ \A l : [db EXCEPT !.limited = l] = [db EXCEPT !.hash = db.hash, !.limited = l]
      /\ Deleted = [db EXCEPT !.hash = {}, !.limited = FALSE]
      /\ db.hash \in SUBSET RedisClients /\ db.limited \in BOOLEAN
  BY <1>0 DEF DbType, Deleted
<1>3. CASE SetFields(c)
  <2>1. PICK r \in Replies :
          /\ Exec(c, "hmset", [db EXCEPT !.hash = db.hash \cup {c}], r)
          /\ Gives(c, Truth(~HasError(r)))
    BY <1>3 DEF SetFields
  <2> DEFINE v == Truth(~HasError(r))
             h == db.hash \cup {c}
  <2>2. v \in Answers /\ Make(c, "hset") /\ Gives(c, v)
    BY <1>0, <1>3, <2>1 DEF Truth, SetFields
  <2>3. Exec(c, "hmset", [db EXCEPT !.hash = h, !.limited = db.limited], r)
    BY <1>2, <2>1
  <2>4. h \in SUBSET RedisClients /\ h \subseteq db.hash \cup {c}
    BY <1>2
  <2> HIDE DEF v, h
  <2> QED BY <1>0, <1>1, <1>2, <2>2, <2>3, <2>4
<1>4. CASE DelFields(c)
  <2>1. PICK r \in Replies : \E fields \in SUBSET RedisClients \ {{}} :
          /\ Exec(c, "hdel", IF db.hash \subseteq fields THEN Deleted
                             ELSE [db EXCEPT !.hash = db.hash \ fields], r)
          /\ Gives(c, IF HasError(r) THEN 0 ELSE Cardinality(fields \cap db.hash))
    BY <1>4 DEF DelFields
  <2>2. PICK fields \in SUBSET RedisClients :
          /\ Exec(c, "hdel", IF db.hash \subseteq fields THEN Deleted
                             ELSE [db EXCEPT !.hash = db.hash \ fields], r)
          /\ Gives(c, IF HasError(r) THEN 0 ELSE Cardinality(fields \cap db.hash))
    BY <2>1
  <2> DEFINE v == IF HasError(r) THEN 0 ELSE Cardinality(fields \cap db.hash)
             h == db.hash \ fields
             l == IF db.hash \subseteq fields THEN FALSE ELSE db.limited
  <2>3. Cardinality(fields \cap db.hash) \in Nat
    BY FS_Subset, FS_CardinalityType DEF RedisConstants
  <2>4. v \in Answers /\ Make(c, "hdel") /\ Gives(c, v)
    BY <1>0, <1>4, <2>2, <2>3 DEF DelFields
  <2>5. /\ h \in SUBSET RedisClients /\ h \subseteq db.hash \cup {c}
        /\ l \in BOOLEAN /\ (l = db.limited \/ l = (h # {}))
    BY <1>2
  <2>6. (IF db.hash \subseteq fields THEN Deleted
         ELSE [db EXCEPT !.hash = db.hash \ fields])
        = [db EXCEPT !.hash = h, !.limited = l]
    <3>1. CASE db.hash \subseteq fields
      BY <1>2, <3>1
    <3>2. CASE ~(db.hash \subseteq fields)
      BY <1>2, <3>2
    <3> QED BY <3>1, <3>2
  <2>7. Exec(c, "hdel", [db EXCEPT !.hash = h, !.limited = l], r)
    BY <2>2, <2>6
  <2> HIDE DEF v, h, l
  <2> QED BY <1>0, <1>1, <2>4, <2>5, <2>7
<1>5. CASE DelKeys(c)
  <2>1. PICK r \in Replies :
          /\ Exec(c, "del", Deleted, r)
          /\ Gives(c, Truth(~HasError(r) /\ db.hash # {}))
    BY <1>5 DEF DelKeys
  <2> DEFINE v == Truth(~HasError(r) /\ db.hash # {})
  <2>2. v \in Answers /\ Make(c, "hdel") /\ Gives(c, v)
    BY <1>0, <1>5, <2>1 DEF Truth, DelKeys
  <2>3. Exec(c, "del", [db EXCEPT !.hash = {}, !.limited = FALSE], r)
    BY <1>2, <2>1
  <2>4. {} \in SUBSET RedisClients /\ FALSE \in BOOLEAN /\ FALSE = ({} # {})
    OBVIOUS
  <2> HIDE DEF v
  <2> QED BY <1>0, <1>1, <2>2, <2>3, <2>4
<1>6. CASE ExpireAt(c)
  <2>1. PICK r \in Replies :
          /\ Exec(c, "expireat", [db EXCEPT !.limited = (db.hash # {})], r)
          /\ Gives(c, Truth(~HasError(r) /\ db.hash # {}))
    BY <1>6 DEF ExpireAt
  <2> DEFINE v == Truth(~HasError(r) /\ db.hash # {})
             l == (db.hash # {})
  <2>2. v \in Answers /\ Make(c, "hdel") /\ Gives(c, v)
    BY <1>0, <1>6, <2>1 DEF Truth, ExpireAt
  <2>3. Exec(c, "expireat", [db EXCEPT !.hash = db.hash, !.limited = l], r)
    BY <1>2, <2>1
  <2>4. l \in BOOLEAN
    OBVIOUS
  <2>5. l = (db.hash # {})
    OBVIOUS
  <2> HIDE DEF v, l
  <2> QED BY <1>0, <1>1, <1>2, <2>2, <2>3, <2>4, <2>5
<1> QED BY <1>3, <1>4, <1>5, <1>6

(* hset() with a limit, and the steps after it.                            *)
LEMMA StillStep ==
  ASSUME RedisInv, RedisTypes', NEW c \in RedisClients, step[c] # "done",
         Others(c), Goes(c), HashStep(c), LimitTold(c)',
         db'.list = db.list, gone' = gone,
         redisCall'[c] \in {"hset", "hset limit", "hset short"}
  PROVE  RedisInv'
<1>1. /\ \A p \in RedisClients : ~Hands(c, p)'
      /\ redisCall'[c] # "push"
  BY DEF Hands
<1> QED BY <1>1, StillMoves, StepKeeps

LEMMA HSetKeeps ==
  ASSUME RedisConstants, RedisInv, NEW c \in RedisClients, HSet(c)
  PROVE  RedisInv'
<1>0. /\ RedisTypes /\ db \in DbType /\ gone' = gone /\ "hset" \in Commands
      /\ {"hset", "hset limit", "hset short"} \subseteq Calls
      /\ db.hash \in SUBSET RedisClients
  BY DEF Commands, RedisInv, RedisTypes, DbType, Calls, HSet
<1>a. 0 \in Answers /\ 1 \in Answers
  BY DEF Answers
<1>1. PICK r \in Replies : \E k \in {"hset", "hset limit", "hset short"} :
        /\ Make(c, k)
        /\ Exec(c, "hset", [db EXCEPT !.hash = db.hash \cup {c}], r)
        /\ IF HasError(r) \/ k = "hset"
           THEN Gives(c, Truth(~HasError(r)))
           ELSE step' = [step EXCEPT ![c] = "expire"] /\ UNCHANGED result
  BY DEF HSet
<1>2. PICK k \in {"hset", "hset limit", "hset short"} :
        /\ Make(c, k)
        /\ Exec(c, "hset", [db EXCEPT !.hash = db.hash \cup {c}], r)
        /\ IF HasError(r) \/ k = "hset"
           THEN Gives(c, Truth(~HasError(r)))
           ELSE step' = [step EXCEPT ![c] = "expire"] /\ UNCHANGED result
  BY <1>1
<1> DEFINE after == [db EXCEPT !.hash = db.hash \cup {c}]
<1>3. /\ redisCall' \in [RedisClients -> Calls \cup {"none"}]
      /\ redisCall'[c] = k /\ step[c] = "call"
      /\ \A d \in RedisClients \ {c} : redisCall'[d] = redisCall[d]
  BY <1>0, <1>2, MakeIs
<1>4. /\ after \in DbType /\ after.list = db.list
      /\ after.hash = db.hash \cup {c} /\ after.limited = db.limited
  BY <1>0 DEF DbType
<1>5. Exec(c, "hset", after, r)
  BY <1>2
<1> HIDE DEF after
<1>6. /\ db' \in {db, after} /\ db' \in DbType
      /\ r = "error" => db' = db
      /\ failed' \in [RedisClients -> SUBSET (Commands \X Replies)]
      /\ \A d \in RedisClients : failed[d] \subseteq failed'[d]
      /\ HasError(r) => <<"hset", r>> \in failed'[c]
  BY <1>0, <1>4, <1>5, ExecIs
<1>7. HashStep(c) /\ db'.list = db.list
  BY <1>4, <1>6 DEF HashStep
<1>8. CASE HasError(r) \/ k = "hset"
  <2> DEFINE v == Truth(~HasError(r))
  <2>1. Gives(c, v)
    BY <1>2, <1>8
  <2>a. v \in Answers
    BY <1>a DEF Truth
  <2> HIDE DEF v
  <2>2. /\ step' \in [RedisClients -> {"call", "expire", "del", "done", "dead"}]
        /\ result' \in [RedisClients -> Seq(Answers)]
        /\ step'[c] = "done" /\ result'[c] = <<v>>
        /\ \A d \in RedisClients \ {c} :
             step'[d] = step[d] /\ result'[d] = result[d]
    BY <1>0, <2>1, <2>a, ReturnIs
  <2>3. RedisTypes' /\ Others(c) /\ Goes(c)
    BY <1>0, <1>3, <1>6, <2>2 DEF RedisTypes, DbType, Others, Goes
  <2>4. LimitTold(c)'
    <3> SUFFICES ASSUME redisCall'[c] = "hset limit", c \in db'.hash
        PROVE  /\ Returned(c, Truth(FALSE))'
               /\ <<"hset", "null">> \in failed'[c]
      BY DEF LimitTold
    <3>1. HasError(r)
      BY <1>3, <1>8
    <3>2. r # "error"
      BY <1>3, <1>6 DEF RedisInv, Progress
    <3>3. r = "null" /\ v = Truth(FALSE)
      BY <3>1, <3>2 DEF Replies, HasError, v
    <3> QED BY <1>6, <2>2, <3>1, <3>3 DEF Returned
  <2> QED BY <1>0, <1>3, <1>7, <2>3, <2>4, StillStep
<1>9. CASE ~(HasError(r) \/ k = "hset")
  <2>1. step' = [step EXCEPT ![c] = "expire"] /\ result' = result
    BY <1>2, <1>9
  <2>2. /\ step'[c] = "expire" /\ result'[c] = <<>>
        /\ \A d \in RedisClients \ {c} : step'[d] = step[d]
    BY <1>3, <2>1 DEF RedisInv, RedisTypes, Progress
  <2>3. RedisTypes'
    BY <1>0, <1>3, <1>6, <2>1 DEF RedisTypes, DbType
  <2>4. Others(c) /\ Goes(c)
    BY <1>3, <1>6, <1>9, <2>1, <2>2 DEF Others, Goes
  <2>5. LimitTold(c)'
    BY <2>2 DEF LimitTold
  <2> QED BY <1>0, <1>3, <1>7, <2>3, <2>4, <2>5, StillStep
<1> QED BY <1>8, <1>9

LEMMA ExpireKeeps ==
  ASSUME RedisConstants, RedisInv, NEW c \in RedisClients, ExpireKey(c)
  PROVE  RedisInv'
<1>0. /\ RedisTypes /\ db \in DbType /\ gone' = gone /\ redisCall' = redisCall
      /\ "expire" \in Commands /\ step[c] = "expire"
      /\ redisCall[c] \in {"hset limit", "hset short"} /\ result[c] = <<>>
  BY DEF Commands, RedisInv, RedisTypes, DbType, Progress, ExpireKey
<1> DEFINE after == IF redisCall[c] = "hset short" THEN Deleted
                    ELSE [db EXCEPT !.limited = (db.hash # {})]
<1>1. PICK r \in Replies :
        /\ Exec(c, "expire", after, r)
        /\ IF ~HasError(r) /\ db.hash # {}
           THEN Gives(c, Truth(TRUE))
           ELSE step' = [step EXCEPT ![c] = "del"] /\ UNCHANGED result
  BY DEF ExpireKey
<1>2. /\ after \in DbType /\ after.list = db.list
      /\ after.hash \subseteq db.hash /\ after.limited = (after.hash # {})
      /\ redisCall[c] = "hset limit" => after.hash = db.hash
  <2>1. CASE redisCall[c] = "hset short"
    <3>1. after = [db EXCEPT !.hash = {}, !.limited = FALSE]
      BY <2>1 DEF Deleted
    <3> HIDE DEF after
    <3> QED BY <1>0, <2>1, <3>1 DEF DbType
  <2>2. CASE redisCall[c] = "hset limit"
    <3> DEFINE l == (db.hash # {})
    <3>1. after = [db EXCEPT !.limited = l]
      BY <2>2
    <3>2. l \in BOOLEAN
      OBVIOUS
    <3> HIDE DEF after, l
    <3>3. /\ after \in DbType /\ after.list = db.list
          /\ after.hash = db.hash /\ after.limited = l
      BY <1>0, <3>1, <3>2 DEF DbType
    <3> QED BY <3>3 DEF l
  <2> QED BY <1>0, <2>1, <2>2
<1> HIDE DEF after
<1>3. /\ db' \in {db, after} /\ db' \in DbType
      /\ r = "reply" => db' = after
      /\ failed' \in [RedisClients -> SUBSET (Commands \X Replies)]
      /\ \A d \in RedisClients : failed[d] \subseteq failed'[d]
  BY <1>0, <1>1, <1>2, ExecIs
<1>4. HashStep(c) /\ db'.list = db.list
  BY <1>2, <1>3 DEF HashStep
<1>5. CASE ~HasError(r) /\ db.hash # {}
  <2> DEFINE v == Truth(TRUE)
  <2>1. Gives(c, v)
    BY <1>1, <1>5
  <2>2. v \in Answers
    BY DEF Truth, Answers
  <2> HIDE DEF v
  <2>3. /\ step' \in [RedisClients -> {"call", "expire", "del", "done", "dead"}]
        /\ result' \in [RedisClients -> Seq(Answers)]
        /\ step'[c] = "done" /\ result'[c] = <<v>>
        /\ \A d \in RedisClients \ {c} :
             step'[d] = step[d] /\ result'[d] = result[d]
    BY <1>0, <2>1, <2>2, ReturnIs
  <2>4. RedisTypes' /\ Others(c) /\ Goes(c)
    BY <1>0, <1>3, <2>3 DEF RedisTypes, DbType, Others, Goes
  <2>5. LimitTold(c)'
    <3>1. db' = after
      BY <1>3, <1>5 DEF HasError
    <3>2. redisCall[c] = "hset limit" => db'.limited
      BY <1>2, <1>5, <3>1
    <3> QED BY <1>0, <3>2 DEF LimitTold
  <2> QED BY <1>0, <1>4, <2>4, <2>5, StillStep
<1>6. CASE ~(~HasError(r) /\ db.hash # {})
  <2>1. step' = [step EXCEPT ![c] = "del"] /\ result' = result
    BY <1>1, <1>6
  <2>2. step'[c] = "del" /\ \A d \in RedisClients \ {c} : step'[d] = step[d]
    BY <1>0, <2>1 DEF RedisTypes
  <2>3. RedisTypes'
    BY <1>0, <1>3, <2>1 DEF RedisTypes, DbType
  <2>4. Others(c) /\ Goes(c)
    BY <1>0, <1>3, <2>1, <2>2 DEF Others, Goes
  <2>5. LimitTold(c)'
    BY <2>2 DEF LimitTold
  <2> QED BY <1>0, <1>4, <2>3, <2>4, <2>5, StillStep
<1> QED BY <1>5, <1>6

LEMMA DelKeeps ==
  ASSUME RedisConstants, RedisInv, NEW c \in RedisClients, Del(c)
  PROVE  RedisInv'
<1>0. /\ RedisTypes /\ db \in DbType /\ gone' = gone /\ redisCall' = redisCall
      /\ "del" \in Commands /\ step[c] = "del"
      /\ redisCall[c] \in {"hset limit", "hset short"}
  BY DEF Commands, RedisInv, RedisTypes, DbType, Progress, Del
<1> DEFINE v == Truth(FALSE)
<1>1. PICK r \in Replies : Exec(c, "del", Deleted, r) /\ Gives(c, v)
  BY DEF Del
<1>2. /\ Deleted \in DbType /\ Deleted.list = db.list
      /\ Deleted.hash = {} /\ Deleted.limited = FALSE
  BY <1>0 DEF DbType, Deleted
<1>3. /\ db' \in {db, Deleted} /\ db' \in DbType
      /\ r = "reply" => db' = Deleted
      /\ failed' \in [RedisClients -> SUBSET (Commands \X Replies)]
      /\ \A d \in RedisClients : failed[d] \subseteq failed'[d]
      /\ HasError(r) => <<"del", r>> \in failed'[c]
  BY <1>0, <1>1, <1>2, ExecIs
<1>4. HashStep(c) /\ db'.list = db.list
  BY <1>2, <1>3 DEF HashStep
<1>5. v \in Answers
  BY DEF Truth, Answers
<1> HIDE DEF v
<1>6. /\ step' \in [RedisClients -> {"call", "expire", "del", "done", "dead"}]
      /\ result' \in [RedisClients -> Seq(Answers)]
      /\ step'[c] = "done" /\ result'[c] = <<v>>
      /\ \A d \in RedisClients \ {c} :
           step'[d] = step[d] /\ result'[d] = result[d]
  BY <1>0, <1>1, <1>5, ReturnIs
<1>7. RedisTypes' /\ Others(c) /\ Goes(c)
  BY <1>0, <1>3, <1>6 DEF RedisTypes, DbType, Others, Goes
<1>8. LimitTold(c)'
  <2> SUFFICES ASSUME c \in db'.hash
      PROVE  Returned(c, Truth(FALSE))' /\ \E x \in Replies : <<"del", x>> \in failed'[c]
    BY DEF LimitTold
  <2>1. HasError(r)
    BY <1>2, <1>3 DEF HasError
  <2> QED BY <1>3, <1>6, <2>1 DEF Returned, v
<1> QED BY <1>0, <1>4, <1>7, <1>8, StillStep

LEMMA DiesKeeps ==
  ASSUME RedisInv, NEW c \in RedisClients, Dies(c)
  PROVE  RedisInv'
<1>1. /\ step[c] \in {"call", "del"} /\ result[c] = <<>>
      /\ redisCall[c] \notin {"push", "pop"}
      /\ step' = [step EXCEPT ![c] = "dead"]
      /\ UNCHANGED <<redisCall, result, failed, db, gone>>
  BY DEF RedisInv, Progress, Dies
<1>2. RedisTypes' /\ step'[c] = "dead" /\ \A d \in RedisClients \ {c} : step'[d] = step[d]
  BY <1>1 DEF RedisInv, RedisTypes
<1>3. Others(c) /\ Goes(c) /\ HashStep(c) /\ LimitTold(c)'
  BY <1>1, <1>2 DEF Others, Goes, HashStep, LimitTold
<1>4. Moves(c)
  <2>1. \A p \in RedisClients : ~Hands(c, p)'
    BY <1>1 DEF Hands
  <2> QED BY <1>1, <2>1, StillMoves
<1> QED BY <1>1, <1>2, <1>3, <1>4, StepKeeps

LEMMA TimeIsUpKeeps ==
  ASSUME RedisInv, TimeIsUp
  PROVE  RedisInv'
<1>0. /\ db' = Deleted /\ UNCHANGED <<redisCall, step, result, failed, gone>>
      /\ db \in DbType
  BY DEF TimeIsUp, RedisInv, RedisTypes, DbType
<1>1. /\ Deleted \in DbType /\ Deleted.list = db.list /\ Deleted.hash = {}
  BY <1>0 DEF DbType, Deleted
<1>2. RedisTypes'
  BY <1>0, <1>1 DEF RedisInv, RedisTypes, DbType
<1>3. /\ \A p : There(p)' <=> There(p)
      /\ \A c, p : Hands(c, p)' <=> Hands(c, p)
  BY <1>0, <1>1 DEF There, Hands, Returned
<1>4. \A p : Somewhere(p)' <=> Somewhere(p)
  BY <1>0, <1>3 DEF Somewhere
<1>5. Progress'
  BY <1>0, <1>1, <1>4 DEF RedisInv, Progress
<1>6. Apart'
  BY <1>0, <1>1, <1>3 DEF RedisInv, Apart
<1>7. Told'
  BY <1>0, <1>4 DEF RedisInv, Told, Returned
<1>8. LimitHonoured'
  BY <1>0, <1>1 DEF LimitHonoured
<1> QED BY <1>2, <1>5, <1>6, <1>7, <1>8 DEF RedisInv

(* Sequences joined, with an element more and with an element less.        *)
LEMMA Joined ==
  ASSUME NEW S, NEW m \in Seq(S), NEW z \in Seq(S)
  PROVE  /\ m \o z \in Seq(S) /\ Len(m \o z) = Len(m) + Len(z)
         /\ \A k \in 1 .. Len(m) + Len(z) :
              (m \o z)[k] = IF k <= Len(m) THEN m[k] ELSE z[k - Len(m)]
<1>1. m \o z \in Seq(S) /\ Len(m \o z) = Len(m) + Len(z)
  OBVIOUS
<1>2. Len(m) \in Nat /\ Len(z) \in Nat
  OBVIOUS
<1>3. ASSUME NEW k \in 1 .. Len(m) + Len(z), k <= Len(m) PROVE (m \o z)[k] = m[k]
  BY <1>2, <1>3
<1>4. ASSUME NEW k \in 1 .. Len(m) + Len(z), ~(k <= Len(m))
      PROVE  (m \o z)[k] = z[k - Len(m)]
  BY <1>2, <1>4
<1> QED BY <1>1, <1>3, <1>4

\* p is the sequence q over S with e put in at place i.
IsInserted(p, S, q, i, e) ==
  /\ p \in Seq(S)
  /\ Len(p) = Len(q) + 1
  /\ \A k \in 1 .. Len(q) + 1 :
       p[k] = IF k < i THEN q[k] ELSE IF k = i THEN e ELSE q[k - 1]

LEMMA Inserted ==
  ASSUME NEW S, NEW q \in Seq(S), NEW i \in 1 .. Len(q) + 1, NEW e \in S
  PROVE  IsInserted(InsertAt(q, i, e), S, q, i, e)
<1> DEFINE a == SubSeq(q, 1, i - 1)
           z == SubSeq(q, i, Len(q))
           m == a \o <<e>>
<1>0. Len(q) \in Nat /\ i \in Nat
  OBVIOUS
<1>1. /\ a \in Seq(S) /\ Len(a) = i - 1
      /\ \A k \in 1 .. i - 1 : a[k] = q[k]
  BY <1>0
<1>2. /\ z \in Seq(S) /\ Len(z) = Len(q) + 1 - i
      /\ \A k \in 1 .. Len(q) + 1 - i : z[k] = q[i + k - 1]
  BY <1>0
<1>3. InsertAt(q, i, e) = m \o z
  BY DEF InsertAt
<1> HIDE DEF a, z
<1>4. /\ m \in Seq(S) /\ Len(m) = i
      /\ \A k \in 1 .. i : m[k] = IF k < i THEN q[k] ELSE e
  BY <1>0, <1>1
<1> HIDE DEF m
<1>a. m \in Seq(S) /\ z \in Seq(S) /\ Len(m) = i /\ Len(z) = Len(q) + 1 - i
  BY <1>2, <1>4
<1>b. /\ m \o z \in Seq(S) /\ Len(m \o z) = Len(m) + Len(z)
      /\ \A k \in 1 .. Len(m) + Len(z) :
           (m \o z)[k] = IF k <= Len(m) THEN m[k] ELSE z[k - Len(m)]
  BY <1>a, Joined
<1>c. i + (Len(q) + 1 - i) = Len(q) + 1
  BY <1>0
<1>5. /\ m \o z \in Seq(S) /\ Len(m \o z) = Len(q) + 1
      /\ \A k \in 1 .. Len(q) + 1 :
           (m \o z)[k] = IF k <= i THEN m[k] ELSE z[k - i]
  BY <1>a, <1>b, <1>c
<1>6. ASSUME NEW k \in 1 .. Len(q) + 1
      PROVE  (m \o z)[k] = IF k < i THEN q[k]
                           ELSE IF k = i THEN e ELSE q[k - 1]
  <2>1. CASE k <= i
    BY <1>0, <1>4, <1>5, <2>1
  <2>2. CASE ~(k <= i)
    <3>1. k - i \in 1 .. Len(q) + 1 - i /\ i + (k - i) - 1 = k - 1
      BY <1>0, <2>2
    <3>2. z[k - i] = q[k - 1]
      BY <1>2, <3>1
    <3>3. ~(k < i) /\ k # i
      BY <1>0, <2>2
    <3> QED BY <1>5, <2>2, <3>2, <3>3
  <2> QED BY <2>1, <2>2
<1>7. IsInserted(m \o z, S, q, i, e)
  BY <1>5, <1>6 DEF IsInserted
<1> QED BY <1>3, <1>7

LEMMA WithoutOne ==
  ASSUME NEW S, NEW q \in Seq(S), NEW i \in DOMAIN q
  PROVE  /\ RemoveAt(q, i) \in Seq(S)
         /\ Len(RemoveAt(q, i)) = Len(q) - 1
         /\ \A k \in 1 .. Len(q) - 1 :
              RemoveAt(q, i)[k] = IF k < i THEN q[k] ELSE q[k + 1]
<1> DEFINE a == SubSeq(q, 1, i - 1)
           z == SubSeq(q, i + 1, Len(q))
<1>0. Len(q) \in Nat /\ i \in 1 .. Len(q)
  OBVIOUS
<1>1. /\ a \in Seq(S) /\ Len(a) = i - 1
      /\ \A k \in 1 .. i - 1 : a[k] = q[k]
  BY <1>0
<1>2. /\ z \in Seq(S) /\ Len(z) = Len(q) - i
      /\ \A k \in 1 .. Len(q) - i : z[k] = q[i + k]
  BY <1>0
<1>3. RemoveAt(q, i) = a \o z
  BY DEF RemoveAt
<1> HIDE DEF a, z
<1>a. a \in Seq(S) /\ z \in Seq(S) /\ Len(a) = i - 1 /\ Len(z) = Len(q) - i
  BY <1>1, <1>2
<1>b. /\ a \o z \in Seq(S) /\ Len(a \o z) = Len(a) + Len(z)
      /\ \A k \in 1 .. Len(a) + Len(z) :
           (a \o z)[k] = IF k <= Len(a) THEN a[k] ELSE z[k - Len(a)]
  BY <1>a, Joined
<1>c. /\ (i - 1) + (Len(q) - i) = Len(q) - 1
      /\ \A k \in 1 .. Len(q) - 1 : k <= i - 1 <=> k < i
  BY <1>0
<1>4. /\ a \o z \in Seq(S) /\ Len(a \o z) = Len(q) - 1
      /\ \A k \in 1 .. Len(q) - 1 :
           (a \o z)[k] = IF k < i THEN a[k] ELSE z[k - (i - 1)]
  BY <1>a, <1>b, <1>c
<1>5. ASSUME NEW k \in 1 .. Len(q) - 1
      PROVE  (a \o z)[k] = IF k < i THEN q[k] ELSE q[k + 1]
  <2>1. CASE k < i
    BY <1>0, <1>1, <1>4, <2>1
  <2>2. CASE ~(k < i)
    <3>1. k - (i - 1) \in 1 .. Len(q) - i /\ i + (k - (i - 1)) = k + 1
      BY <1>0, <2>2
    <3>2. z[k - (i - 1)] = q[k + 1]
      BY <1>2, <3>1
    <3> QED BY <1>4, <2>2, <3>2
  <2> QED BY <2>1, <2>2
<1> QED BY <1>3, <1>4, <1>5

(* A call k of c has been made: the list is as before or q, and v returned. *)
ListCalled(c, k, q, r, v) ==
  /\ db'.list \in {db.list, q}
  /\ r = "reply" => db'.list = q
  /\ r = "error" => db'.list = db.list
  /\ redisCall'[c] = k /\ step[c] = "call" /\ result'[c] = <<v>>
  /\ Moves(c) => RedisInv'

(* A call of one command that works on the list.                           *)
LEMMA ListCall ==
  ASSUME RedisInv, NEW c \in RedisClients,
         NEW k \in Calls \ {"hset limit"}, Make(c, k),
         NEW command \in Commands, NEW q \in Seq(RedisClients),
         NEW after, after = [db EXCEPT !.list = q],
         NEW r \in Replies, Exec(c, command, after, r),
         NEW v \in Answers, Gives(c, v)
  PROVE  ListCalled(c, k, q, r, v)
<1>0. RedisTypes
  BY DEF RedisInv
<1>1. /\ step' \in [RedisClients -> {"call", "expire", "del", "done", "dead"}]
      /\ result' \in [RedisClients -> Seq(Answers)]
      /\ step'[c] = "done" /\ result'[c] = <<v>>
      /\ \A d \in RedisClients \ {c} :
           step'[d] = step[d] /\ result'[d] = result[d]
  BY <1>0, ReturnIs
<1>2. /\ redisCall' \in [RedisClients -> Calls \cup {"none"}]
      /\ redisCall'[c] = k /\ step[c] = "call"
      /\ \A d \in RedisClients \ {c} : redisCall'[d] = redisCall[d]
  BY <1>0, MakeIs
<1>3. /\ after \in DbType /\ after.list = q
      /\ after.hash = db.hash /\ after.limited = db.limited
  BY <1>0 DEF RedisTypes, DbType
<1>5. /\ db' \in {db, after} /\ db' \in DbType
      /\ r = "reply" => db' = after
      /\ r = "error" => db' = db
      /\ failed' \in [RedisClients -> SUBSET (Commands \X Replies)]
      /\ \A d \in RedisClients : failed[d] \subseteq failed'[d]
  BY <1>0, <1>3, ExecIs
<1>6. /\ db'.list \in {db.list, q}
      /\ r = "reply" => db'.list = q
      /\ r = "error" => db'.list = db.list
  BY <1>3, <1>5
<1>7. ASSUME Moves(c) PROVE RedisInv'
  <2>1. RedisTypes'
    <3>1. gone' \in SUBSET RedisClients
      BY <1>7 DEF Moves
    <3> QED BY <1>0, <1>1, <1>2, <1>5, <3>1 DEF RedisTypes, DbType
  <2>2. Others(c) /\ Goes(c)
    BY <1>1, <1>2, <1>5 DEF Others, Goes
  <2>3. HashStep(c)
    BY <1>3, <1>5 DEF HashStep
  <2>4. LimitTold(c)'
    BY <1>2 DEF LimitTold
  <2> QED BY <1>2, <1>7, <2>1, <2>2, <2>3, <2>4, StepKeeps
<1> QED BY <1>1, <1>2, <1>6, <1>7 DEF ListCalled

LEMMA PushKeeps ==
  ASSUME RedisInv, NEW c \in RedisClients, Push(c)
  PROVE  RedisInv'
<1>a. /\ db.list \in Seq(RedisClients) /\ gone' = gone /\ Make(c, "push")
      /\ "push" \in Calls \ {"hset limit"} /\ "push" \in Commands
  BY DEF RedisInv, RedisTypes, Calls, Commands, Push
<1>b. Len(db.list) \in Nat /\ DOMAIN db.list = 1 .. Len(db.list)
  BY <1>a
<1>0. /\ db.list \in Seq(RedisClients) /\ gone' = gone /\ Make(c, "push")
      /\ "push" \in Calls \ {"hset limit"} /\ "push" \in Commands
      /\ Len(db.list) \in Nat /\ DOMAIN db.list = 1 .. Len(db.list)
  BY <1>a, <1>b
<1>1. PICK r \in Replies : \E i \in 1 .. Len(db.list) + 1 :
        LET longer == InsertAt(db.list, i, c)
        IN /\ Exec(c, "push", [db EXCEPT !.list = longer], r)
           /\ Gives(c, IF HasError(r) THEN -1 ELSE Len(longer))
  BY DEF Push
<1>2. PICK i \in 1 .. Len(db.list) + 1 :
        LET longer == InsertAt(db.list, i, c)
        IN /\ Exec(c, "push", [db EXCEPT !.list = longer], r)
           /\ Gives(c, IF HasError(r) THEN -1 ELSE Len(longer))
  BY <1>1
<1> DEFINE n == Len(db.list)
           q == InsertAt(db.list, i, c)
           v == IF HasError(r) THEN -1 ELSE Len(q)
           after == [db EXCEPT !.list = q]
           list == db.list
<1>3. Exec(c, "push", after, r) /\ Gives(c, v)
  BY <1>2
<1>4. /\ q \in Seq(RedisClients) /\ Len(q) = n + 1
      /\ \A k \in 1 .. n + 1 :
           q[k] = IF k < i THEN db.list[k] ELSE IF k = i THEN c ELSE db.list[k - 1]
  <2>1. list \in Seq(RedisClients) /\ i \in 1 .. Len(list) + 1
    BY <1>0
  <2> HIDE DEF list
  <2>2. IsInserted(InsertAt(list, i, c), RedisClients, list, i, c)
    BY <2>1, Inserted
  <2> QED BY <2>2 DEF IsInserted, list
<1> HIDE DEF q
<1>5. /\ DOMAIN q = 1 .. n + 1 /\ v \in Int
      /\ HasError(r) => v = -1
      /\ ~HasError(r) => v > 0
  <2>1. n \in Nat /\ n + 1 \in Nat /\ n + 1 > 0 /\ -1 \in Int
    BY <1>0
  <2>2. q \in Seq(RedisClients) /\ Len(q) = n + 1
    BY <1>4
  <2>3. v = IF HasError(r) THEN -1 ELSE n + 1
    BY <2>2
  <2>4. DOMAIN q = 1 .. n + 1
    BY <2>2
  <2> HIDE DEF n, v
  <2>5. v \in Int /\ (~HasError(r) => v > 0)
    BY <2>1, <2>3
  <2> QED BY <2>3, <2>4, <2>5
<1>6. v \in Answers
  BY <1>5 DEF Answers
<1> HIDE DEF v
<1>7. /\ db'.list \in {db.list, q}
      /\ r = "reply" => db'.list = q
      /\ redisCall'[c] = "push" /\ step[c] = "call" /\ result'[c] = <<v>>
      /\ Moves(c) => RedisInv'
  <2>1. after = [db EXCEPT !.list = q]
    OBVIOUS
  <2> HIDE DEF after
  <2>2. /\ "push" \in Calls \ {"hset limit"} /\ "push" \in Commands
        /\ Make(c, "push") /\ q \in Seq(RedisClients) /\ v \in Answers
        /\ Exec(c, "push", after, r) /\ Gives(c, v)
    BY <1>0, <1>3, <1>4, <1>6
  <2>3. ListCalled(c, "push", q, r, v)
    BY <2>1, <2>2, ListCall
  <2> QED BY <2>3 DEF ListCalled
<1>8. ~There(c)
  BY <1>7 DEF RedisInv, Progress, Somewhere
<1>9. /\ \A p \in RedisClients : ~Hands(c, p)'
      /\ \A x \in Int : Returned(c, x)' => x = v
  BY <1>7 DEF Hands, Returned
<1>10. CASE db'.list = q
  <2>1. \A p : (\E k \in 1 .. n + 1 : q[k] = p) <=> (There(p) \/ p = c)
    <3>1. ASSUME NEW k \in 1 .. n + 1 PROVE There(q[k]) \/ q[k] = c
      <4>1. k < i => k \in DOMAIN db.list
        BY <1>0
      <4>2. k > i => k - 1 \in DOMAIN db.list
        BY <1>0
      <4>3. CASE k < i
        <5>1. q[k] = db.list[k] /\ k \in DOMAIN db.list
          BY <1>4, <4>1, <4>3
        <5> QED BY <5>1 DEF There
      <4>4. CASE k = i
        BY <1>4, <4>4
      <4>5. CASE k > i
        <5>1. q[k] = db.list[k - 1] /\ k - 1 \in DOMAIN db.list
          BY <1>4, <4>2, <4>5
        <5> QED BY <5>1 DEF There
      <4> QED BY <4>3, <4>4, <4>5
    <3>2. \E k \in 1 .. n + 1 : q[k] = c
      <4>1. i \in 1 .. n + 1 /\ ~(i < i)
        BY <1>0
      <4>2. q[i] = c
        BY <1>4, <4>1
      <4> QED BY <4>1, <4>2
    <3>3. ASSUME NEW j \in DOMAIN db.list
          PROVE  \E k \in 1 .. n + 1 : q[k] = db.list[j]
      <4>1. CASE j < i
        BY <1>0, <1>4, <4>1
      <4>2. CASE j >= i
        <5>1. j + 1 \in 1 .. n + 1 /\ q[j + 1] = db.list[j]
          BY <1>0, <1>4, <4>2
        <5> QED BY <5>1
      <4> QED BY <1>0, <4>1, <4>2
    <3> QED BY <3>1, <3>2, <3>3 DEF There
  <2>2. \A p : There(p)' <=> (There(p) \/ p = c)
    BY <1>5, <1>10, <2>1 DEF There
  <2>3. ASSUME NEW j \in DOMAIN q, NEW k \in DOMAIN q, q[j] = q[k]
        PROVE  j = k
    <3>1. \A x \in DOMAIN db.list : db.list[x] # c
      BY <1>8 DEF There
    <3>2. \A x, y \in DOMAIN db.list : db.list[x] = db.list[y] => x = y
      BY DEF RedisInv, Apart
    <3>3. j \in 1 .. n + 1 /\ k \in 1 .. n + 1 /\ i \in 1 .. n + 1 /\ n \in Nat
      BY <1>0, <1>5, <2>3
    <3>4. \A x \in 1 .. n + 1 : /\ x < i => x \in DOMAIN db.list
                                /\ x > i => x - 1 \in DOMAIN db.list
      BY <1>0
    <3>a. ASSUME NEW x \in 1 .. n + 1, q[x] = c PROVE x = i
      <4>1. CASE x < i
        <5>1. q[x] = db.list[x] /\ x \in DOMAIN db.list
          BY <1>4, <3>4, <4>1
        <5> QED BY <3>1, <3>a, <5>1
      <4>2. CASE x > i
        <5>1. q[x] = db.list[x - 1] /\ x - 1 \in DOMAIN db.list
          BY <1>4, <3>3, <3>4, <4>2
        <5> QED BY <3>1, <3>a, <5>1
      <4> QED BY <3>3, <4>1, <4>2
    <3>b. q[i] = c
      BY <1>4, <3>3
    <3>5. /\ j = i => k = i
          /\ k = i => j = i
      BY <2>3, <3>3, <3>a, <3>b
    <3>6. j < i /\ k < i => j = k
      BY <1>4, <2>3, <3>2, <3>3, <3>4
    <3>7. j > i /\ k > i => j = k
      <4> SUFFICES ASSUME j > i, k > i PROVE j - 1 = k - 1
        BY <3>3
      <4> QED BY <1>4, <2>3, <3>2, <3>3, <3>4
    <3>8. ~(j < i /\ k > i)
      <4> SUFFICES ASSUME j < i, k > i PROVE j = k - 1
        BY <3>3
      <4> QED BY <1>4, <2>3, <3>2, <3>3, <3>4
    <3>9. ~(j > i /\ k < i)
      <4> SUFFICES ASSUME j > i, k < i PROVE j - 1 = k
        BY <3>3
      <4> QED BY <1>4, <2>3, <3>2, <3>3, <3>4
    <3> QED BY <3>3, <3>5, <3>6, <3>7, <3>8, <3>9
  <2>4. gone \subseteq gone' /\ gone' \subseteq RedisClients /\ gone' \ gone = {}
    BY <1>0 DEF RedisInv, RedisTypes
  <2>5. \A x \in Int : Returned(c, x)' =>
          (x > 0 => There(c)') /\ (x = 0 => ~There(c)')
    <3>1. v # 0
      BY <1>5
    <3> QED BY <1>9, <2>2, <3>1
  <2>6. \A p \in RedisClients :
          /\ There(p)' => There(p) \/ (p = c /\ step[c] = "call")
          /\ There(p) => There(p)' \/ p \in gone' \/ Hands(c, p)'
          /\ Hands(c, p)' => There(p) /\ ~There(p)' /\ p \notin gone'
    BY <1>7, <1>9, <2>2
  <2>7. Moves(c)
    BY <1>7, <1>10, <2>3, <2>4, <2>5, <2>6 DEF Moves
  <2> QED BY <1>7, <2>7
<1>11. CASE db'.list # q
  <2>1. db'.list = db.list /\ HasError(r)
    BY <1>7, <1>11 DEF HasError
  <2>2. v = -1
    BY <1>5, <2>1
  <2>3. result'[c] \in {<<-1>>, <<0>>}
    BY <1>7, <2>2
  <2>4. Moves(c)
    BY <1>0, <1>7, <1>9, <2>1, <2>3, StillMoves
  <2> QED BY <1>7, <2>4
<1> QED BY <1>10, <1>11

LEMMA PopKeeps ==
  ASSUME RedisConstants, RedisInv, NEW c \in RedisClients, Pop(c)
  PROVE  RedisInv'
<1>a. /\ db.list \in Seq(RedisClients) /\ Make(c, "pop") /\ db \in DbType
      /\ "pop" \in Calls \ {"hset limit"} /\ "pop" \in Commands
      /\ Nothing \in Answers /\ RedisClients \subseteq Answers
  BY DEF RedisInv, RedisTypes, Calls, Commands, Pop, Answers, DbType
<1>b. Len(db.list) \in Nat /\ DOMAIN db.list = 1 .. Len(db.list)
  BY <1>a
<1>1. PICK r \in Replies :
        IF db.list = <<>>
        THEN Exec(c, "pop", db, r) /\ Gives(c, Nothing) /\ UNCHANGED gone
        ELSE \E i \in {1, Len(db.list)} :
               LET rest == RemoveAt(db.list, i)
               IN /\ Exec(c, "pop", [db EXCEPT !.list = rest], r)
                  /\ Gives(c, IF HasError(r) THEN Nothing ELSE db.list[i])
                  /\ gone' = IF HasError(r) /\ db'.list = rest
                             THEN gone \cup {db.list[i]} ELSE gone
  BY DEF Pop
<1>2. CASE db.list = <<>>
  <2>1. Exec(c, "pop", db, r) /\ Gives(c, Nothing) /\ gone' = gone
    BY <1>1, <1>2
  <2> QED BY <1>a, <2>1, StillCall
<1>3. CASE db.list # <<>>
  <2>1. PICK i \in {1, Len(db.list)} :
          LET rest == RemoveAt(db.list, i)
          IN /\ Exec(c, "pop", [db EXCEPT !.list = rest], r)
             /\ Gives(c, IF HasError(r) THEN Nothing ELSE db.list[i])
             /\ gone' = IF HasError(r) /\ db'.list = rest
                        THEN gone \cup {db.list[i]} ELSE gone
    BY <1>1, <1>3
  <2> DEFINE list == db.list
             n == Len(list)
             x == list[i]
             q == RemoveAt(list, i)
             v == IF HasError(r) THEN Nothing ELSE x
             after == [db EXCEPT !.list = q]
  <2>2. /\ Exec(c, "pop", after, r) /\ Gives(c, v)
        /\ gone' = IF HasError(r) /\ db'.list = q THEN gone \cup {x} ELSE gone
        /\ after = [db EXCEPT !.list = q]
    BY <2>1
  <2>3. i \in DOMAIN list /\ x \in RedisClients /\ v \in Answers
    BY <1>a, <1>b, <1>3
  <2>4. /\ q \in Seq(RedisClients) /\ Len(q) = n - 1
        /\ \A k \in 1 .. n - 1 : q[k] = IF k < i THEN list[k] ELSE list[k + 1]
    <3>1. list \in Seq(RedisClients)
      BY <1>a
    <3> HIDE DEF list, x
    <3> QED BY <2>3, <3>1, WithoutOne
  <2>5. /\ DOMAIN q = 1 .. n - 1 /\ n \in Nat /\ i \in 1 .. n /\ q # list
        /\ DOMAIN list = 1 .. n
    <3>1. n \in Nat /\ DOMAIN list = 1 .. n /\ i \in 1 .. n
      BY <1>b, <2>3
    <3> HIDE DEF q, list
    <3>2. DOMAIN q = 1 .. n - 1 /\ Len(q) # Len(list)
      BY <2>4, <3>1
    <3> QED BY <3>1, <3>2
  <2> HIDE DEF q, v, after, x
  <2>6. /\ db'.list \in {list, q}
        /\ r = "reply" => db'.list = q
        /\ redisCall'[c] = "pop" /\ step[c] = "call" /\ result'[c] = <<v>>
        /\ Moves(c) => RedisInv'
    <3>1. /\ "pop" \in Calls \ {"hset limit"} /\ "pop" \in Commands
          /\ Make(c, "pop") /\ q \in Seq(RedisClients) /\ v \in Answers
          /\ Exec(c, "pop", after, r) /\ Gives(c, v)
      BY <1>a, <2>2, <2>3, <2>4
    <3>2. ListCalled(c, "pop", q, r, v)
      BY <2>2, <3>1, ListCall
    <3> QED BY <3>2 DEF ListCalled
  <2>7. \A p \in RedisClients : Hands(c, p)' => v = p
    <3> SUFFICES ASSUME NEW p \in RedisClients, Hands(c, p)' PROVE v = p
      OBVIOUS
    <3>1. <<v>> = <<p>>
      BY <2>6 DEF Hands, Returned
    <3> QED BY <3>1
  <2>8. CASE db'.list = q
    <3>1. \A j, k \in 1 .. n : list[j] = list[k] => j = k
      BY <2>5 DEF RedisInv, Apart
    <3>2. ASSUME NEW p
          PROVE  (\E k \in 1 .. n - 1 : q[k] = p)
                   <=> (\E k \in 1 .. n : list[k] = p) /\ p # x
      <4>1. ASSUME NEW k \in 1 .. n - 1
            PROVE  (\E j \in 1 .. n : list[j] = q[k]) /\ q[k] # x
        <5>1. k \in 1 .. n /\ k + 1 \in 1 .. n
          BY <2>5
        <5>2. CASE k < i
          <6>1. q[k] = list[k] /\ k # i
            BY <2>4, <2>5, <5>2
          <6> QED BY <2>5, <3>1, <5>1, <6>1 DEF x
        <5>3. CASE ~(k < i)
          <6>1. q[k] = list[k + 1] /\ k + 1 # i
            BY <2>4, <2>5, <5>3
          <6> QED BY <2>5, <3>1, <5>1, <6>1 DEF x
        <5> QED BY <5>2, <5>3
      <4>2. ASSUME NEW j \in 1 .. n, list[j] # x
            PROVE  \E k \in 1 .. n - 1 : q[k] = list[j]
        <5>1. j # i
          BY <4>2 DEF x
        <5>2. CASE j < i
          <6>1. j \in 1 .. n - 1
            BY <2>5, <5>2
          <6>2. q[j] = list[j]
            BY <2>4, <5>2, <6>1
          <6> QED BY <6>1, <6>2
        <5>3. CASE j > i
          <6>1. j - 1 \in 1 .. n - 1 /\ ~(j - 1 < i) /\ (j - 1) + 1 = j
            BY <2>5, <5>3
          <6>2. q[j - 1] = list[(j - 1) + 1]
            BY <2>4, <6>1
          <6>3. q[j - 1] = list[j]
            BY <6>1, <6>2
          <6> QED BY <6>1, <6>3
        <5>4. j < i \/ j > i
          BY <2>5, <5>1
        <5> QED BY <5>2, <5>3, <5>4
      <4> QED BY <4>1, <4>2
    <3>3. \A p : There(p)' <=> There(p) /\ p # x
      <4>1. \A p : There(p)' <=> \E k \in 1 .. n - 1 : q[k] = p
        BY <2>5, <2>8 DEF There
      <4>2. \A p : There(p) <=> \E k \in 1 .. n : list[k] = p
        BY <2>5 DEF There
      <4> QED BY <3>2, <4>1, <4>2
    <3>4. There(x)
      BY <2>3 DEF There, x
    <3>5. x \notin gone
      BY <3>4 DEF RedisInv, Apart
    <3>6. \A j, k \in DOMAIN q : q[j] = q[k] => j = k
      <4> SUFFICES ASSUME NEW j \in 1 .. n - 1, NEW k \in 1 .. n - 1, q[j] = q[k]
          PROVE j = k
        BY <2>5
      <4>1. /\ j \in 1 .. n /\ j + 1 \in 1 .. n
            /\ k \in 1 .. n /\ k + 1 \in 1 .. n
        BY <2>5
      <4>2. /\ q[j] = IF j < i THEN list[j] ELSE list[j + 1]
            /\ q[k] = IF k < i THEN list[k] ELSE list[k + 1]
        BY <2>4
      <4>3. CASE j < i /\ k < i
        BY <3>1, <4>1, <4>2, <4>3
      <4>4. CASE j < i /\ ~(k < i)
        <5>1. j = k + 1
          BY <3>1, <4>1, <4>2, <4>4
        <5> QED BY <2>5, <4>4, <5>1
      <4>5. CASE ~(j < i) /\ k < i
        <5>1. j + 1 = k
          BY <3>1, <4>1, <4>2, <4>5
        <5> QED BY <2>5, <4>5, <5>1
      <4>6. CASE ~(j < i) /\ ~(k < i)
        <5>1. j + 1 = k + 1
          BY <3>1, <4>1, <4>2, <4>6
        <5> QED BY <5>1
      <4> QED BY <4>3, <4>4, <4>5, <4>6
    <3>7. CASE HasError(r)
      <4>1. gone' = gone \cup {x} /\ v = Nothing
        BY <2>2, <2>8, <3>7 DEF v
      <4>2. \A p \in RedisClients : ~Hands(c, p)'
        BY <2>7, <4>1 DEF RedisConstants
      <4>3. gone \subseteq gone' /\ gone' \subseteq RedisClients
        BY <2>3, <4>1 DEF RedisInv, RedisTypes
      <4>4. \A p \in gone' \ gone : There(p) /\ ~There(p)'
        BY <3>3, <3>4, <4>1
      <4>5. \A p \in RedisClients :
              /\ There(p)' => There(p) \/ (p = c /\ step[c] = "call")
              /\ There(p) => There(p)' \/ p \in gone' \/ Hands(c, p)'
              /\ Hands(c, p)' => There(p) /\ ~There(p)' /\ p \notin gone'
        BY <3>3, <4>1, <4>2
      <4>6. Moves(c)
        BY <2>6, <2>8, <3>6, <4>3, <4>4, <4>5 DEF Moves
      <4> QED BY <2>6, <4>6
    <3>8. CASE ~HasError(r)
      <4>1. gone' = gone /\ v = x
        BY <2>2, <3>8 DEF v
      <4>2. \A p \in RedisClients : p = x => Hands(c, p)'
        <5>1. result'[c] = <<x>>
          BY <2>6, <4>1
        <5> QED BY <2>6, <5>1 DEF Hands, Returned
      <4>3. gone \subseteq gone' /\ gone' \subseteq RedisClients /\ gone' \ gone = {}
        BY <4>1 DEF RedisInv, RedisTypes
      <4>4. \A p \in gone' \ gone : There(p) /\ ~There(p)'
        BY <4>3
      <4>5. \A p \in RedisClients :
              /\ There(p)' => There(p) \/ (p = c /\ step[c] = "call")
              /\ There(p) => There(p)' \/ p \in gone' \/ Hands(c, p)'
              /\ Hands(c, p)' => There(p) /\ ~There(p)' /\ p \notin gone'
        <5> SUFFICES ASSUME NEW p \in RedisClients
            PROVE /\ There(p)' => There(p) \/ (p = c /\ step[c] = "call")
                  /\ There(p) => There(p)' \/ p \in gone' \/ Hands(c, p)'
                  /\ Hands(c, p)' => There(p) /\ ~There(p)' /\ p \notin gone'
          OBVIOUS
        <5>1. There(p)' <=> There(p) /\ p # x
          BY <3>3
        <5>2. Hands(c, p)' => p = x
          BY <2>7, <4>1
        <5>3. There(p) => There(p)' \/ Hands(c, p)'
          <6>1. CASE p = x
            BY <4>2, <6>1
          <6>2. CASE p # x
            BY <5>1, <6>2
          <6> QED BY <6>1, <6>2
        <5>4. Hands(c, p)' => There(p) /\ ~There(p)' /\ p \notin gone'
          <6> SUFFICES ASSUME Hands(c, p)' PROVE There(p) /\ ~There(p)' /\ p \notin gone'
            OBVIOUS
          <6>1. p = x
            BY <5>2
          <6> QED BY <3>4, <3>5, <4>1, <5>1, <6>1
        <5> QED BY <5>1, <5>3, <5>4
      <4>6. Moves(c)
        BY <2>6, <2>8, <3>6, <4>3, <4>4, <4>5 DEF Moves
      <4> QED BY <2>6, <4>6
    <3> QED BY <3>7, <3>8
  <2>9. CASE db'.list # q
    <3>1. db'.list = db.list /\ HasError(r) /\ gone' = gone
      BY <2>2, <2>6, <2>9 DEF HasError
    <3>2. \A p \in RedisClients : ~Hands(c, p)'
      BY <2>7, <3>1 DEF RedisConstants, v
    <3>3. redisCall'[c] # "push"
      BY <2>6
    <3>4. Moves(c)
      BY <3>1, <3>2, <3>3, StillMoves
    <3> QED BY <2>6, <3>4
  <2> QED BY <2>8, <2>9
<1> QED BY <1>2, <1>3

(* What is cut out of the list is lost.                                    *)
LEMMA CutMoves ==
  ASSUME RedisInv, NEW c \in RedisClients, step[c] = "call", redisCall'[c] = "cut",
         \A i, j \in DOMAIN db'.list : db'.list[i] = db'.list[j] => i = j,
         \A p \in RedisClients : There(p)' => There(p) \/ p = c,
         gone' = gone \cup (ToSet(db.list) \ ToSet(db'.list))
  PROVE  Moves(c)
<1>1. \A p : p \in ToSet(db.list) <=> There(p)
  BY DEF ToSet, There
<1>2. \A p : p \in ToSet(db'.list) <=> There(p)'
  BY DEF ToSet, There
<1>3. ToSet(db.list) \subseteq RedisClients
  BY DEF RedisInv, RedisTypes, ToSet
<1>4. /\ \A p \in gone' \ gone : There(p) /\ ~There(p)'
      /\ gone \subseteq gone' /\ gone' \subseteq RedisClients
  BY <1>1, <1>2, <1>3 DEF RedisInv, RedisTypes
<1>5. \A p \in RedisClients : ~Hands(c, p)'
  BY DEF Hands
<1>6. \A p \in RedisClients :
        /\ There(p)' => There(p) \/ (p = c /\ step[c] = "call")
        /\ There(p) => There(p)' \/ p \in gone' \/ Hands(c, p)'
        /\ Hands(c, p)' => There(p) /\ ~There(p)' /\ p \notin gone'
  BY <1>1, <1>2, <1>5
<1> QED BY <1>4, <1>6 DEF Moves

LEMMA CutsKeep ==
  ASSUME RedisInv, NEW c \in RedisClients, Replace(c) \/ CutList(c)
  PROVE  RedisInv'
<1> DEFINE list == db.list
<1>0. /\ list \in Seq(RedisClients) /\ Make(c, "cut")
      /\ "cut" \in Calls \ {"hset limit"} /\ {"lset", "lrem"} \subseteq Commands
      /\ 0 \in Answers /\ 1 \in Answers
      /\ \A i, j \in DOMAIN list : list[i] = list[j] => i = j
      /\ gone' = gone \cup (ToSet(list) \ ToSet(db'.list))
  <2>1. list \in Seq(RedisClients)
    BY DEF RedisInv, RedisTypes
  <2>2. \A i, j \in DOMAIN list : list[i] = list[j] => i = j
    BY DEF RedisInv, Apart
  <2>3. Make(c, "cut")
    BY DEF Replace, CutList
  <2>4. gone' = gone \cup (ToSet(list) \ ToSet(db'.list))
    <3>1. CASE Replace(c)
      BY <3>1 DEF Replace
    <3>2. CASE CutList(c)
      BY <3>2 DEF CutList
    <3> QED BY <3>1, <3>2
  <2>5. /\ "cut" \in Calls \ {"hset limit"}
        /\ {"lset", "lrem"} \subseteq Commands
    BY DEF Calls, Commands
  <2>6. 0 \in Answers /\ 1 \in Answers
    BY DEF Answers
  <2> QED BY <2>1, <2>2, <2>3, <2>4, <2>5, <2>6
<1>1. ASSUME NEW command \in Commands, NEW q \in Seq(RedisClients),
             NEW after, after = [db EXCEPT !.list = q],
             NEW r \in Replies, Exec(c, command, after, r),
             NEW v \in Answers, Gives(c, v),
             \A i, j \in DOMAIN q : q[i] = q[j] => i = j,
             \A i \in DOMAIN q : There(q[i]) \/ q[i] = c
      PROVE  RedisInv'
  <2>1. /\ db'.list \in {db.list, q}
        /\ redisCall'[c] = "cut" /\ step[c] = "call"
        /\ Moves(c) => RedisInv'
    <3>1. ListCalled(c, "cut", q, r, v)
      BY <1>0, <1>1, ListCall
    <3> QED BY <3>1 DEF ListCalled
  <2>2. \A i, j \in DOMAIN db'.list : db'.list[i] = db'.list[j] => i = j
    BY <1>0, <1>1, <2>1
  <2>3. \A p \in RedisClients : There(p)' => There(p) \/ p = c
    BY <1>1, <2>1 DEF There
  <2>4. Moves(c)
    BY <1>0, <2>1, <2>2, <2>3, CutMoves
  <2> QED BY <2>1, <2>4
<1>2. CASE Replace(c)
  <2>1. PICK r \in Replies : \E i \in DOMAIN db.list :
          /\ Exec(c, "lset", [db EXCEPT !.list[i] = c], r)
          /\ Gives(c, Truth(~HasError(r)))
    BY <1>2 DEF Replace
  <2>2. PICK i \in DOMAIN db.list :
          /\ Exec(c, "lset", [db EXCEPT !.list[i] = c], r)
          /\ Gives(c, Truth(~HasError(r)))
    BY <2>1
  <2> DEFINE q == [db.list EXCEPT ![i] = c]
             after == [db EXCEPT !.list = q]
             v == Truth(~HasError(r))
  <2>3. /\ Exec(c, "lset", after, r) /\ Gives(c, v)
        /\ after = [db EXCEPT !.list = q]
    BY <2>2
  <2>4. v \in Answers
    BY <1>0 DEF Truth
  <2>5. ~There(c)
    BY <1>0 DEF RedisInv, Progress, Somewhere, Make
  <2>6. /\ q \in Seq(RedisClients) /\ DOMAIN q = DOMAIN list
        /\ \A k \in DOMAIN list : q[k] = IF k = i THEN c ELSE list[k]
    BY <1>0
  <2> HIDE DEF q, after, v
  <2>7. \A j, k \in DOMAIN q : q[j] = q[k] => j = k
    <3>1. \A k \in DOMAIN list : list[k] # c
      BY <2>5 DEF There
    <3> QED BY <1>0, <2>6, <3>1
  <2>8. \A k \in DOMAIN q : There(q[k]) \/ q[k] = c
    BY <2>6 DEF There
  <2>9. "lset" \in Commands
    BY <1>0
  <2> QED BY <1>1, <2>3, <2>4, <2>6, <2>7, <2>8, <2>9
<1>3. CASE CutList(c)
  <2>1. PICK r \in Replies : \E n \in 0 .. Len(db.list) :
          \E at \in [1 .. n -> DOMAIN db.list] :
            /\ \A i, j \in 1 .. n : i < j => at[i] < at[j]
            /\ Exec(c, "lrem", [db EXCEPT !.list = [i \in 1 .. n |-> db.list[at[i]]]], r)
            /\ Gives(c, Truth(~HasError(r)))
    BY <1>3 DEF CutList
  <2>2. PICK n \in 0 .. Len(db.list) :
          \E at \in [1 .. n -> DOMAIN db.list] :
            /\ \A i, j \in 1 .. n : i < j => at[i] < at[j]
            /\ Exec(c, "lrem", [db EXCEPT !.list = [i \in 1 .. n |-> db.list[at[i]]]], r)
            /\ Gives(c, Truth(~HasError(r)))
    BY <2>1
  <2>3. PICK at \in [1 .. n -> DOMAIN db.list] :
            /\ \A i, j \in 1 .. n : i < j => at[i] < at[j]
            /\ Exec(c, "lrem", [db EXCEPT !.list = [i \in 1 .. n |-> db.list[at[i]]]], r)
            /\ Gives(c, Truth(~HasError(r)))
    BY <2>2
  <2> DEFINE q == [i \in 1 .. n |-> db.list[at[i]]]
             after == [db EXCEPT !.list = q]
             v == Truth(~HasError(r))
  <2>4. /\ Exec(c, "lrem", after, r) /\ Gives(c, v)
        /\ after = [db EXCEPT !.list = q]
    BY <2>3
  <2>5. v \in Answers
    BY <1>0 DEF Truth
  <2>6. /\ DOMAIN q = 1 .. n /\ n \in Nat
        /\ \A k \in 1 .. n : q[k] = list[at[k]] /\ at[k] \in DOMAIN list
    BY <1>0
  <2>7. q \in Seq(RedisClients)
    <3>1. \A k \in 1 .. n : list[at[k]] \in RedisClients
      BY <1>0, <2>6
    <3> QED BY <2>6, <3>1
  <2>8. \A j, k \in 1 .. n : at[j] = at[k] => j = k
    <3> SUFFICES ASSUME NEW j \in 1 .. n, NEW k \in 1 .. n, at[j] = at[k], j # k
        PROVE FALSE
      OBVIOUS
    <3>1. at[j] \in Int /\ at[k] \in Int
      BY <1>0, <2>6
    <3>2. j < k \/ k < j
      BY <2>6
    <3> QED BY <2>3, <3>1, <3>2
  <2> HIDE DEF q, after, v
  <2>9. \A j, k \in DOMAIN q : q[j] = q[k] => j = k
    BY <1>0, <2>6, <2>8
  <2>10. \A k \in DOMAIN q : There(q[k]) \/ q[k] = c
    BY <2>6 DEF There
  <2>11. "lrem" \in Commands
    BY <1>0
  <2> QED BY <1>1, <2>4, <2>5, <2>7, <2>9, <2>10, <2>11
<1> QED BY <1>2, <1>3

LEMMA RedisStarts == ASSUME RedisInit PROVE RedisInv
<1>1. RedisTypes
  <2>1. <<>> \in Seq(Answers) /\ <<>> \in Seq(RedisClients)
    OBVIOUS
  <2> QED BY <2>1 DEF RedisInit, RedisTypes
<1>2. /\ db.list = <<>> /\ gone = {} /\ db.hash = {}
      /\ \A c \in RedisClients :
           redisCall[c] = "none" /\ step[c] = "call" /\ result[c] = <<>>
  BY DEF RedisInit
<1>3. DOMAIN db.list = {}
  BY <1>2
<1>4. \A p : ~There(p) /\ \A c \in RedisClients : ~Hands(c, p)
  BY <1>2, <1>3 DEF There, Hands
<1>5. Progress /\ Apart /\ Told /\ LimitHonoured
  <2>1. Progress
    BY <1>2, <1>4 DEF Progress, Somewhere
  <2>2. Apart
    BY <1>2, <1>3, <1>4 DEF Apart
  <2>3. Told /\ LimitHonoured
    BY <1>2 DEF Told, LimitHonoured
  <2> QED BY <2>1, <2>2, <2>3
<1> QED BY <1>1, <1>5 DEF RedisInv

LEMMA RedisStill == ASSUME RedisInv, UNCHANGED redisVars PROVE RedisInv'
<1>1. /\ redisCall' = redisCall /\ step' = step /\ result' = result
      /\ failed' = failed /\ db' = db /\ gone' = gone
  BY DEF redisVars
<1>2. /\ \A p : There(p)' <=> There(p)
      /\ \A c, p : Hands(c, p)' <=> Hands(c, p)
  BY <1>1 DEF There, Hands, Returned
<1>3. \A p : Somewhere(p)' <=> Somewhere(p)
  BY <1>1, <1>2 DEF Somewhere
<1>4. RedisTypes' /\ LimitHonoured'
  BY <1>1 DEF RedisInv, RedisTypes, LimitHonoured, Returned
<1>5. Progress'
  BY <1>1, <1>3 DEF RedisInv, Progress
<1>6. Apart'
  BY <1>1, <1>2 DEF RedisInv, Apart
<1>7. Told'
  BY <1>1, <1>3 DEF RedisInv, Told, Returned
<1> QED BY <1>4, <1>5, <1>6, <1>7 DEF RedisInv

LEMMA RedisInvHolds == ASSUME RedisConstants PROVE RedisSpec => []RedisInv
<1>1. RedisInit => RedisInv
  BY RedisStarts
<1>2. RedisInv /\ [RedisNext]_redisVars => RedisInv'
  <2> SUFFICES ASSUME RedisInv, [RedisNext]_redisVars PROVE RedisInv'
    OBVIOUS
  <2>1. CASE TimeIsUp
    BY <2>1, TimeIsUpKeeps
  <2>2. ASSUME NEW c \in RedisClients, Client(c) PROVE RedisInv'
    <3>1. CASE Reads(c)
      BY <3>1, ReadsKeep
    <3>2. CASE Set(c) \/ SetAll(c) \/ SetPart(c) \/ GetSet(c) \/ Add(c) \/ PushNowhere(c)
      BY <3>2, WritesKeep
    <3>3. CASE Push(c)
      BY <3>3, PushKeeps
    <3>4. CASE Pop(c)
      BY <3>4, PopKeeps
    <3>5. CASE Replace(c) \/ CutList(c)
      BY <3>5, CutsKeep
    <3>6. CASE SetFields(c) \/ DelFields(c) \/ DelKeys(c) \/ ExpireAt(c)
      BY <3>6, HashCallsKeep
    <3>7. CASE HSet(c)
      BY <3>7, HSetKeeps
    <3>8. CASE ExpireKey(c)
      BY <3>8, ExpireKeeps
    <3>9. CASE Del(c)
      BY <3>9, DelKeeps
    <3>10. CASE Dies(c)
      BY <3>10, DiesKeeps
    <3> QED BY <2>2, <3>1, <3>2, <3>3, <3>4, <3>5, <3>6, <3>7, <3>8, <3>9, <3>10 DEF Client
  <2>3. CASE UNCHANGED redisVars
    BY <2>3, RedisStill
  <2> QED BY <2>1, <2>2, <2>3 DEF RedisNext
<1> QED BY <1>1, <1>2, PTL DEF RedisSpec

(* A field set with a time limit does not stay without one unless its      *)
(* caller was told FALSE, whatever other clients' calls come between HSET, *)
(* EXPIRE and DEL, and whichever of the replies are errors or are lost.    *)
THEOREM AlwaysLimitHonoured ==
  ASSUME RedisConstants PROVE RedisSpec => []LimitHonoured
<1>1. RedisInv => LimitHonoured
  BY DEF RedisInv
<1> QED BY <1>1, RedisInvHolds, PTL

(* A set without two elements has at most one.                             *)
LEMMA OneAtMost ==
  ASSUME NEW S, \A x, y \in S : x = y
  PROVE  /\ Cardinality(S) = IF S = {} THEN 0 ELSE 1
<1>1. CASE S = {}
  BY <1>1, FS_EmptySet
<1>2. CASE S # {}
  <2>1. PICK x \in S : TRUE
    BY <1>2
  <2>2. S = {x}
    BY <2>1
  <2> QED BY <1>2, <2>2, FS_Singleton
<1> QED BY <1>1, <1>2

LEMMA PlacesCounted == ASSUME RedisConstants, RedisInv PROVE Conserved
<1> SUFFICES ASSUME NEW p \in RedisClients, redisCall[p] = "push"
    PROVE LET inHand == {c \in RedisClients : redisCall[c] = "pop" /\ Returned(c, p)}
              places == Cardinality({i \in DOMAIN db.list : db.list[i] = p})
                        + Cardinality(inHand) + (IF p \in gone THEN 1 ELSE 0)
          IN /\ places <= 1
             /\ (\E n \in 1 .. Cardinality(RedisClients) : Returned(p, n)) => places = 1
             /\ Returned(p, 0) => places = 0
  BY DEF Conserved
<1> DEFINE inList == {i \in DOMAIN db.list : db.list[i] = p}
           inHands == {c \in RedisClients : redisCall[c] = "pop" /\ Returned(c, p)}
           l == Cardinality(inList)
           h == Cardinality(inHands)
           g == IF p \in gone THEN 1 ELSE 0
<1>1. /\ inList # {} <=> There(p)
      /\ inHands # {} <=> \E c \in RedisClients : Hands(c, p)
  BY DEF There, Hands
<1>2. \A i, j \in inList : i = j
  BY DEF RedisInv, Apart
<1>3. \A c, d \in inHands : c = d
  BY DEF RedisInv, Apart, Hands
<1> HIDE DEF inList, inHands
<1>4. /\ l = IF There(p) THEN 1 ELSE 0
      /\ h = IF \E c \in RedisClients : Hands(c, p) THEN 1 ELSE 0
  BY <1>1, <1>2, <1>3, OneAtMost
<1> HIDE DEF l, h
<1>5. /\ ~(There(p) /\ p \in gone)
      /\ \A c \in RedisClients : Hands(c, p) => ~There(p) /\ p \notin gone
  BY DEF RedisInv, Apart
<1>6. l + h + g = IF Somewhere(p) THEN 1 ELSE 0
  BY <1>4, <1>5 DEF Somewhere
<1>7. (\E n \in 1 .. Cardinality(RedisClients) : Returned(p, n)) => Somewhere(p)
  <2> SUFFICES ASSUME NEW n \in 1 .. Cardinality(RedisClients), Returned(p, n)
      PROVE Somewhere(p)
    OBVIOUS
  <2>1. n \in Int /\ n > 0
    BY FS_CardinalityType DEF RedisConstants
  <2> QED BY <2>1 DEF RedisInv, Told
<1>8. Returned(p, 0) => ~Somewhere(p)
  BY DEF RedisInv, Told
<1>9. /\ l + h + g <= 1
      /\ (\E n \in 1 .. Cardinality(RedisClients) : Returned(p, n)) => l + h + g = 1
      /\ Returned(p, 0) => l + h + g = 0
  BY <1>6, <1>7, <1>8
<1> QED BY <1>9 DEF l, h, inList, inHands

(* No list element is duplicated, and what a push returned tells whether   *)
(* its element is in the list, was handed out by one pop, or was lost with *)
(* a pop's reply: any mix of pushes, pops, lset, lrem and lost replies.    *)
THEOREM AlwaysConserved == ASSUME RedisConstants PROVE RedisSpec => []Conserved
BY RedisInvHolds, PlacesCounted, PTL

(* Types of the server's data and of the clients' calls; a call that is    *)
(* done has one result, and no other has any.                              *)
THEOREM RedisTypeCorrect == ASSUME RedisConstants PROVE RedisSpec => []RedisTypeOK
<1>1. RedisInv => RedisTypeOK
  <2> SUFFICES ASSUME RedisInv PROVE RedisTypeOK
    OBVIOUS
  <2>1. /\ redisCall \in [RedisClients -> Calls \cup {"none"}]
        /\ step \in [RedisClients -> {"call", "expire", "del", "done", "dead"}]
        /\ db.list \in Seq(RedisClients) /\ db.hash \subseteq RedisClients
        /\ db.number \in Int /\ db.limited \in BOOLEAN
        /\ gone \subseteq RedisClients
    BY DEF RedisInv, RedisTypes
  <2>2. ASSUME NEW c \in RedisClients
        PROVE  Len(result[c]) = (IF step[c] = "done" THEN 1 ELSE 0)
    <3>1. CASE step[c] = "done"
      BY <3>1 DEF RedisInv, Progress
    <3>2. CASE step[c] # "done"
      <4>1. result[c] = <<>>
        BY <2>1, <3>2 DEF RedisInv, Progress
      <4> QED BY <3>2, <4>1
    <3> QED BY <3>1, <3>2
  <2> QED BY <2>1, <2>2 DEF RedisTypeOK
<1> QED BY <1>1, RedisInvHolds, PTL
-----------------------------------------------------------------------------
(* PropertyTree. *)

Paths == Seq(Strings)

(* Prefixes, for sequences of anything. *)
LEMMA PrefixIs ==
  ASSUME NEW S, NEW s \in Seq(S), NEW t \in Seq(S)
  PROVE  IsPrefix(s, t) <=> Len(s) <= Len(t) /\ \A i \in 1 .. Len(s) : s[i] = t[i]
<1>1. Len(s) \in Nat /\ Len(t) \in Nat
  OBVIOUS
<1>2. CASE Len(s) <= Len(t)
  <2>1. /\ Len(SubSeq(s, 1, Len(s))) = Len(s)
        /\ \A i \in 1 .. Len(s) : SubSeq(s, 1, Len(s))[i] = s[i]
        /\ SubSeq(s, 1, Len(s)) \in Seq(S)
    BY <1>1
  <2>2. /\ Len(SubSeq(t, 1, Len(s))) = Len(s)
        /\ \A i \in 1 .. Len(s) : SubSeq(t, 1, Len(s))[i] = t[i]
        /\ SubSeq(t, 1, Len(s)) \in Seq(S)
    BY <1>1, <1>2
  <2> DEFINE a == SubSeq(s, 1, Len(s))
             b == SubSeq(t, 1, Len(s))
  <2>3. IsPrefix(s, t) <=> a = b
    BY <1>2 DEF IsPrefix
  <2> HIDE DEF a, b
  <2>4. a = b <=> \A i \in 1 .. Len(s) : a[i] = b[i]
    <3>1. a \in Seq(S) /\ b \in Seq(S) /\ Len(a) = Len(s) /\ Len(b) = Len(s)
      BY <2>1, <2>2 DEF a, b
    <3> QED BY <1>1, <3>1
  <2>5. \A i \in 1 .. Len(s) : a[i] = s[i] /\ b[i] = t[i]
    BY <2>1, <2>2 DEF a, b
  <2> QED BY <1>2, <2>3, <2>4, <2>5
<1>3. CASE ~(Len(s) <= Len(t))
  BY <1>3 DEF IsPrefix
<1> QED BY <1>2, <1>3

LEMMA PrefixLaws ==
  ASSUME NEW S, NEW a \in Seq(S), NEW b \in Seq(S), NEW c \in Seq(S)
  PROVE  /\ IsPrefix(a, a) /\ IsPrefix(<<>>, a)
         /\ IsPrefix(a, b) /\ IsPrefix(b, c) => IsPrefix(a, c)
         /\ IsPrefix(a, b) /\ IsPrefix(b, a) => a = b
         /\ IsPrefix(a, c) /\ IsPrefix(b, c) => IsPrefix(a, b) \/ IsPrefix(b, a)
         /\ IsPrefix(a, <<>>) => a = <<>>
<1>1. <<>> \in Seq(S) /\ Len(<<>>) = 0
  OBVIOUS
<1>2. /\ Len(a) \in Nat /\ Len(b) \in Nat /\ Len(c) \in Nat
      /\ IsPrefix(a, a)
      /\ IsPrefix(<<>>, a)
      /\ IsPrefix(a, <<>>) => Len(a) <= 0
      /\ IsPrefix(a, b) <=> Len(a) <= Len(b) /\ \A i \in 1 .. Len(a) : a[i] = b[i]
      /\ IsPrefix(b, a) <=> Len(b) <= Len(a) /\ \A i \in 1 .. Len(b) : b[i] = a[i]
      /\ IsPrefix(b, c) <=> Len(b) <= Len(c) /\ \A i \in 1 .. Len(b) : b[i] = c[i]
      /\ IsPrefix(a, c) <=> Len(a) <= Len(c) /\ \A i \in 1 .. Len(a) : a[i] = c[i]
  <2>1. Len(a) \in Nat /\ Len(b) \in Nat /\ Len(c) \in Nat
    OBVIOUS
  <2>2. \A s, t \in Seq(S) :
          IsPrefix(s, t) <=> Len(s) <= Len(t) /\ \A i \in 1 .. Len(s) : s[i] = t[i]
    BY PrefixIs
  <2>3. IsPrefix(a, a) /\ IsPrefix(<<>>, a) /\ (IsPrefix(a, <<>>) => Len(a) <= 0)
    <3> DEFINE e == <<>>
    <3>1. e \in Seq(S) /\ Len(e) = 0
      OBVIOUS
    <3> HIDE DEF e
    <3>2. IsPrefix(a, a)
      BY <2>1, <2>2
    <3>3. IsPrefix(e, a) <=> Len(e) <= Len(a) /\ \A i \in 1 .. Len(e) : e[i] = a[i]
      BY <2>2, <3>1
    <3>4. IsPrefix(a, e) => Len(a) <= Len(e)
      BY <2>2, <3>1
    <3> QED BY <2>1, <3>1, <3>2, <3>3, <3>4 DEF e
  <2> QED BY <2>1, <2>2, <2>3
<1>3. IsPrefix(a, b) /\ IsPrefix(b, c) => IsPrefix(a, c)
  BY <1>2
<1>4. IsPrefix(a, b) /\ IsPrefix(b, a) => a = b
  BY <1>2
<1>5. IsPrefix(a, c) /\ IsPrefix(b, c) => IsPrefix(a, b) \/ IsPrefix(b, a)
  BY <1>2
<1>6. IsPrefix(a, <<>>) => a = <<>>
  BY <1>2
<1> QED BY <1>2, <1>3, <1>4, <1>5, <1>6

LEMMA PrefixAppend ==
  ASSUME NEW S, NEW a \in Seq(S), NEW p \in Seq(S), NEW k \in S
  PROVE  /\ Append(p, k) \in Seq(S) /\ Append(p, k) # <<>> /\ Append(p, k) # p
         /\ Front(Append(p, k)) = p /\ Last(Append(p, k)) = k
         /\ IsPrefix(p, Append(p, k))
         /\ IsPrefix(a, Append(p, k)) <=> IsPrefix(a, p) \/ a = Append(p, k)
         /\ ~IsPrefix(Append(p, k), p)
<1> DEFINE r == Append(p, k)
<1>1. /\ r \in Seq(S) /\ Len(r) = Len(p) + 1 /\ Len(p) \in Nat /\ Len(a) \in Nat
      /\ \A i \in 1 .. Len(p) : r[i] = p[i]
      /\ r[Len(p) + 1] = k
      /\ SubSeq(r, 1, Len(r) - 1) = p
  OBVIOUS
<1> HIDE DEF r
<1>2. r # <<>> /\ r # p
  BY <1>1
<1>3. Front(r) = p /\ Last(r) = k
  BY <1>1 DEF Front, Last
<1>4. /\ IsPrefix(p, r) <=> Len(p) <= Len(r) /\ \A i \in 1 .. Len(p) : p[i] = r[i]
      /\ IsPrefix(a, r) <=> Len(a) <= Len(r) /\ \A i \in 1 .. Len(a) : a[i] = r[i]
      /\ IsPrefix(a, p) <=> Len(a) <= Len(p) /\ \A i \in 1 .. Len(a) : a[i] = p[i]
      /\ IsPrefix(r, p) => Len(r) <= Len(p)
  BY <1>1, PrefixIs
<1>5. IsPrefix(a, r) => IsPrefix(a, p) \/ a = r
  <2>1. CASE Len(a) <= Len(p)
    BY <1>1, <1>4, <2>1
  <2>2. CASE Len(a) = Len(r)
    BY <1>1, <1>4, <2>2
  <2> QED BY <1>1, <1>4, <2>1, <2>2
<1>6. IsPrefix(a, p) \/ a = r => IsPrefix(a, r)
  BY <1>1, <1>4
<1>7. /\ r \in Seq(S) /\ r # <<>> /\ r # p /\ Front(r) = p /\ Last(r) = k
      /\ IsPrefix(p, r) /\ ~IsPrefix(r, p)
      /\ IsPrefix(a, r) <=> IsPrefix(a, p) \/ a = r
  BY <1>1, <1>2, <1>3, <1>4, <1>5, <1>6
<1> QED BY <1>7 DEF r

LEMMA FrontLast ==
  ASSUME NEW S, NEW r \in Seq(S), r # <<>>
  PROVE  /\ Front(r) \in Seq(S) /\ Last(r) \in S /\ r = Append(Front(r), Last(r))
         /\ Len(Front(r)) = Len(r) - 1
         /\ \A i \in 1 .. Len(r) - 1 : Front(r)[i] = r[i]
<1>1. Len(r) \in Nat \ {0} /\ DOMAIN r = 1 .. Len(r)
  OBVIOUS
<1>2. /\ Front(r) \in Seq(S) /\ Len(Front(r)) = Len(r) - 1
      /\ \A i \in 1 .. Len(r) - 1 : Front(r)[i] = r[i]
  BY <1>1 DEF Front
<1>3. Last(r) \in S
  BY <1>1 DEF Last
<1>4. r = Append(Front(r), Last(r))
  <2> DEFINE f == Front(r)
             x == Last(r)
             g == Append(f, x)
  <2>1. x = r[Len(r)]
    BY DEF Last
  <2> HIDE DEF f, x
  <2>2. /\ g \in Seq(S) /\ Len(g) = Len(f) + 1 /\ g[Len(f) + 1] = x
        /\ \A i \in 1 .. Len(f) : g[i] = f[i]
    BY <1>2, <1>3 DEF f, x
  <2>3. Len(f) = Len(r) - 1 /\ \A i \in 1 .. Len(r) - 1 : f[i] = r[i]
    BY <1>2 DEF f
  <2> HIDE DEF g
  <2>4. Len(g) = Len(r) /\ \A i \in 1 .. Len(r) : g[i] = r[i]
    BY <1>1, <2>1, <2>2, <2>3
  <2>5. r = g
    BY <2>2, <2>4
  <2> QED BY <2>5 DEF g, f, x
<1> QED BY <1>2, <1>3, <1>4

(* The nodes along a path are its prefixes, but for the root.              *)
LEMMA Along ==
  ASSUME NEW S, NEW path \in Seq(S), NEW q \in Seq(S)
  PROVE  q \in {SubSeq(path, 1, i) : i \in DOMAIN path} <=> q # <<>> /\ IsPrefix(q, path)
<1>1. DOMAIN path = 1 .. Len(path) /\ Len(path) \in Nat /\ Len(q) \in Nat
  OBVIOUS
<1>2. IsPrefix(q, path) <=> Len(q) <= Len(path) /\ \A i \in 1 .. Len(q) : q[i] = path[i]
  BY PrefixIs
<1>3. ASSUME NEW i \in DOMAIN path, q = SubSeq(path, 1, i)
      PROVE  q # <<>> /\ IsPrefix(q, path)
  BY <1>1, <1>2, <1>3
<1>4. ASSUME q # <<>>, IsPrefix(q, path)
      PROVE  q = SubSeq(path, 1, Len(q)) /\ Len(q) \in DOMAIN path
  BY <1>1, <1>2, <1>4
<1> QED BY <1>3, <1>4

(* A strict prefix is one with the next key.                               *)
LEMMA StrictIs ==
  ASSUME NEW S, NEW a \in Seq(S), NEW p \in Seq(S)
  PROVE  /\ IsStrictPrefix(a, p) =>
              /\ p[Len(a) + 1] \in S
              /\ IsPrefix(Append(a, p[Len(a) + 1]), p)
         /\ \A k \in S : IsPrefix(Append(a, k), p) =>
              IsStrictPrefix(a, p) /\ p[Len(a) + 1] = k
<1>1. Len(a) \in Nat /\ Len(p) \in Nat /\ DOMAIN p = 1 .. Len(p)
  OBVIOUS
<1>2. IsPrefix(a, p) <=> Len(a) <= Len(p) /\ \A i \in 1 .. Len(a) : a[i] = p[i]
  BY PrefixIs
<1>3. ASSUME NEW k \in S
      PROVE  /\ IsPrefix(Append(a, k), p) <=>
                  Len(a) + 1 <= Len(p) /\ \A i \in 1 .. Len(a) + 1 : Append(a, k)[i] = p[i]
             /\ Append(a, k)[Len(a) + 1] = k
             /\ \A i \in 1 .. Len(a) : Append(a, k)[i] = a[i]
  <2> DEFINE r == Append(a, k)
  <2>1. r \in Seq(S) /\ Len(r) = Len(a) + 1
        /\ r[Len(a) + 1] = k /\ \A i \in 1 .. Len(a) : r[i] = a[i]
    OBVIOUS
  <2> HIDE DEF r
  <2>2. IsPrefix(r, p) <=> Len(r) <= Len(p) /\ \A i \in 1 .. Len(r) : r[i] = p[i]
    BY <2>1, PrefixIs
  <2> QED BY <2>1, <2>2 DEF r
<1>4. ASSUME IsStrictPrefix(a, p)
      PROVE  p[Len(a) + 1] \in S /\ IsPrefix(Append(a, p[Len(a) + 1]), p)
  <2>1. Len(a) < Len(p)
    <3>1. ~(Len(a) = Len(p))
      BY <1>1, <1>2, <1>4 DEF IsStrictPrefix
    <3> QED BY <1>1, <1>2, <1>4, <3>1 DEF IsStrictPrefix
  <2>2. p[Len(a) + 1] \in S
    BY <1>1, <2>1
  <2> QED BY <1>1, <1>2, <1>3, <1>4, <2>1, <2>2 DEF IsStrictPrefix
<1>5. ASSUME NEW k \in S, IsPrefix(Append(a, k), p)
      PROVE  IsStrictPrefix(a, p) /\ p[Len(a) + 1] = k
  BY <1>1, <1>2, <1>3, <1>5 DEF IsStrictPrefix
<1> QED BY <1>4, <1>5
-----------------------------------------------------------------------------
NodeType == [type : {"leaf", "trunk", "array"}, v : Nat]
CallType == [op : {"set", "push"}, at : Paths \ {Root}]

TreeTypes ==
  /\ DOMAIN nodes \subseteq Paths
  /\ nodes \in [DOMAIN nodes -> NodeType]
  /\ calls \in Seq(CallType) /\ Len(calls) <= MaxCalls
  /\ TreeTypeOK

(* No node has more children than there were calls.                        *)
Few ==
  \A p \in Paths : /\ IsFiniteSet(Children(nodes, p))
                   /\ Cardinality(Children(nodes, p)) <= Len(calls)

(* The model's operators on the history, with the history as an argument.  *)
LaterIn(cs, p, i) ==
  \E j \in i + 1 .. Len(cs) : cs[j].op = "set" /\ IsPrefix(cs[j].at, p)

Over(c, p) ==
  c.op = "push" /\ IsStrictPrefix(c.at, p) /\ p[Len(c.at) + 1] \in IndexKeys

OverIn(cs, p, i) == \E j \in i + 1 .. Len(cs) : Over(cs[j], p)

Onto(p) == [op |-> "push", at |-> p]

PushesIn(cs, p) == {i \in DOMAIN cs : cs[i] = Onto(p) /\ ~LaterIn(cs, p, i)}

BeforeIn(cs, p, i) == Cardinality({j \in PushesIn(cs, p) : j < i})

ByHand(c, p) == IsStrictPrefix(p, c.at) \/ (c.op = "set" /\ c.at = p)

HandIn(cs, p) == (\E j \in DOMAIN cs : ByHand(cs[j], p)) \/ OverIn(cs, p, 0)

(* What SetIsRead and PushedIsRead say of a node, in terms of the node.    *)
SetHeld ==
  \A i \in DOMAIN calls :
    LET p == calls[i].at
    IN calls[i].op = "set" /\ ~LaterIn(calls, p, i) /\ ~OverIn(calls, p, i)
         => p \in DOMAIN nodes /\ nodes[p] = Leaf(i)

Elements(tree, cs, p) ==
  LET pushes == PushesIn(cs, p)
  IN /\ tree[p].type = "array"
     /\ Children(tree, p) = {IndexKey(m) : m \in 0 .. Cardinality(pushes) - 1}
     /\ \A i \in pushes : tree[Append(p, IndexKey(BeforeIn(cs, p, i)))] = Leaf(i)

PushesHeld ==
  \A p \in Paths \ {Root} : ~HandIn(calls, p) =>
    /\ p \in DOMAIN nodes <=> PushesIn(calls, p) # {}
    /\ PushesIn(calls, p) # {} => Elements(nodes, calls, p)

TreeInv == TreeTypes /\ Few /\ SetHeld /\ PushesHeld

LEMMA PathsAre ==
  /\ Root \in Paths
  /\ \A path \in CallPaths, k \in CallKeys :
       path \in Paths /\ k \in Strings /\ Append(path, k) \in Paths \ {Root}
  /\ \A k \in Appended : k \in Strings /\ <<k>> \in Paths \ {Root}
  /\ \A n \in Nat : IndexKey(n) \in Strings
<1>1. Root \in Paths
  BY DEF Root, Paths
<1>2. ASSUME NEW path \in CallPaths, NEW k \in CallKeys
      PROVE  path \in Paths /\ k \in Strings /\ Append(path, k) \in Paths \ {Root}
  <2>1. path \in Paths /\ k \in Strings
    BY TreeAssumption DEF Paths
  <2> QED BY <2>1, PrefixAppend DEF Paths, Root
<1>3. ASSUME NEW k \in Appended
      PROVE  k \in Strings /\ <<k>> \in Paths \ {Root}
  BY TreeAssumption DEF Paths, Root
<1>4. ASSUME NEW n \in Nat PROVE IndexKey(n) \in Strings
  <2>1. n \div Base \in Nat /\ n % Base \in Nat
    BY TreeAssumption
  <2> QED BY <2>1 DEF IndexKey, Strings
<1> QED BY <1>1, <1>2, <1>3, <1>4

LEMMA IndexKeyOnce ==
  ASSUME NEW m \in Nat, NEW n \in Nat, IndexKey(m) = IndexKey(n)
  PROVE  m = n
<1>1. /\ Base \in Nat \ {0}
      /\ m \div Base \in Nat /\ m % Base \in Nat
      /\ n \div Base \in Nat /\ n % Base \in Nat
  BY TreeAssumption
<1>2. CASE m < Base /\ n < Base
  BY <1>2 DEF IndexKey
<1>3. CASE m >= Base /\ n >= Base
  <2>1. m \div Base = n \div Base /\ m % Base = n % Base
    BY <1>1, <1>3 DEF IndexKey
  <2>2. Base \in Nat \ {0}
    BY <1>1
  <2> QED BY <2>1, <2>2
<1>4. CASE m < Base /\ n >= Base
  BY <1>1, <1>4 DEF IndexKey
<1>5. CASE m >= Base /\ n < Base
  BY <1>1, <1>5 DEF IndexKey
<1> QED BY <1>1, <1>2, <1>3, <1>4, <1>5

LEMMA InitTree == TreeInit => TreeInv
<1> SUFFICES ASSUME TreeInit PROVE TreeInv
  OBVIOUS
<1>1. /\ DOMAIN nodes = {Root} /\ nodes[Root] = Trunk /\ nodes = [p \in {Root} |-> Trunk]
      /\ calls = <<>> /\ DOMAIN calls = {} /\ Len(calls) = 0
  BY DEF TreeInit
<1>2. TreeTypes
  <2>1. TreeTypeOK
    BY <1>1 DEF TreeTypeOK, Trunk
  <2>2. calls \in Seq(CallType)
    BY <1>1
  <2>3. nodes \in [DOMAIN nodes -> NodeType]
    BY <1>1 DEF NodeType, Trunk
  <2> QED BY <1>1, <2>1, <2>2, <2>3, PathsAre, TreeAssumption DEF TreeTypes
<1>3. Few
  <2>1. \A p : Children(nodes, p) = {}
    BY <1>1 DEF Children
  <2> QED BY <1>1, <2>1, FS_EmptySet DEF Few
<1>4. SetHeld
  BY <1>1 DEF SetHeld
<1>5. PushesHeld
  <2>1. \A p : PushesIn(calls, p) = {}
    BY <1>1 DEF PushesIn
  <2> QED BY <1>1, <2>1 DEF PushesHeld
<1> QED BY <1>2, <1>3, <1>4, <1>5 DEF TreeInv
-----------------------------------------------------------------------------
LEMMA ChildrenIs ==
  ASSUME NEW tree, DOMAIN tree \subseteq Paths, NEW p \in Paths
  PROVE  /\ Children(tree, p) \subseteq Strings
         /\ \A k \in Strings : k \in Children(tree, p) <=> Append(p, k) \in DOMAIN tree
<1>1. ASSUME NEW r \in DOMAIN tree \ {Root}, Front(r) = p
      PROVE  Last(r) \in Strings /\ Append(p, Last(r)) = r
  BY <1>1, FrontLast DEF Paths, Root
<1>2. ASSUME NEW k \in Strings, Append(p, k) \in DOMAIN tree
      PROVE  k \in Children(tree, p)
  <2>1. Append(p, k) # Root /\ Front(Append(p, k)) = p /\ Last(Append(p, k)) = k
    BY PrefixAppend DEF Paths, Root
  <2> QED BY <1>2, <2>1 DEF Children
<1>3. ASSUME NEW k \in Children(tree, p)
      PROVE  k \in Strings /\ Append(p, k) \in DOMAIN tree
  <2>1. PICK r \in DOMAIN tree \ {Root} : Front(r) = p /\ k = Last(r)
    BY DEF Children
  <2> QED BY <1>1, <2>1
<1> QED BY <1>2, <1>3

LEMMA OpenedIs ==
  ASSUME TreeTypes, NEW path \in Paths
  PROVE  /\ DOMAIN Opened(nodes, path) \subseteq Paths
         /\ \A q \in Paths : q \in DOMAIN Opened(nodes, path)
              <=> q \in DOMAIN nodes \/ (q # Root /\ IsPrefix(q, path))
         /\ \A q \in DOMAIN Opened(nodes, path) :
              Opened(nodes, path)[q] = IF q \in DOMAIN nodes THEN nodes[q] ELSE Trunk
<1> DEFINE along == {SubSeq(path, 1, i) : i \in DOMAIN path}
<1>1. along \subseteq Paths
  <2>1. ASSUME NEW i \in DOMAIN path PROVE SubSeq(path, 1, i) \in Paths
    <3>1. i \in 1 .. Len(path) /\ Len(path) \in Nat
      BY DEF Paths
    <3> QED BY <3>1 DEF Paths
  <2> QED BY <2>1
<1>2. \A q \in Paths : q \in along <=> q # Root /\ IsPrefix(q, path)
  BY Along DEF Paths, Root
<1> HIDE DEF along
<1>3. Opened(nodes, path) =
        [q \in DOMAIN nodes \cup along |-> IF q \in DOMAIN nodes THEN nodes[q] ELSE Trunk]
  BY DEF Opened, along
<1>4. DOMAIN Opened(nodes, path) = DOMAIN nodes \cup along
  BY <1>3
<1> QED BY <1>1, <1>2, <1>3, <1>4 DEF TreeTypes

(* What set() and append() leave.                                          *)
LeftBySet(at, v) ==
  /\ DOMAIN nodes' \subseteq Paths /\ at \in DOMAIN nodes'
  /\ \A q \in Paths \ {at} : q \in DOMAIN nodes'
       <=> ~IsPrefix(at, q) /\ (q \in DOMAIN nodes \/ (q # Root /\ IsPrefix(q, at)))
  /\ nodes'[at] = Leaf(v)
  /\ \A q \in DOMAIN nodes' \ {at} :
       nodes'[q] = IF q \in DOMAIN nodes THEN nodes[q] ELSE Trunk
  /\ nodes' \in [DOMAIN nodes' -> NodeType]

LEMMA PlacedIs ==
  ASSUME NEW tree, DOMAIN tree \subseteq Paths, NEW at \in Paths, NEW node
  PROVE  /\ DOMAIN Placed(tree, at, node) \subseteq Paths
         /\ at \in DOMAIN Placed(tree, at, node)
         /\ Placed(tree, at, node)[at] = node
         /\ \A q \in Paths \ {at} :
              q \in DOMAIN Placed(tree, at, node) <=> q \in DOMAIN tree /\ ~IsPrefix(at, q)
         /\ \A q \in DOMAIN Placed(tree, at, node) \ {at} :
              Placed(tree, at, node)[q] = tree[q]
         /\ Placed(tree, at, node) = [q \in DOMAIN Placed(tree, at, node) |->
                                        Placed(tree, at, node)[q]]
BY DEF Placed

LEMMA AfterSet ==
  ASSUME TreeTypes, NEW at \in Paths \ {Root}, NEW v \in Nat,
         nodes' = Placed(Opened(nodes, Front(at)), at, Leaf(v))
  PROVE  LeftBySet(at, v)
<1> DEFINE path == Front(at)
           T == Opened(nodes, path)
<1>1. path \in Paths /\ Last(at) \in Strings /\ at = Append(path, Last(at))
  BY FrontLast DEF Paths, Root
<1>2. \A q \in Paths : /\ IsPrefix(q, at) <=> IsPrefix(q, path) \/ q = at
                       /\ IsPrefix(at, at)
  <2>1. IsPrefix(at, at)
    BY PrefixLaws DEF Paths
  <2> DEFINE k == Last(at)
  <2>2. path \in Paths /\ k \in Strings /\ at = Append(path, k)
    BY <1>1
  <2> HIDE DEF path, k
  <2>3. \A q \in Paths : IsPrefix(q, Append(path, k)) <=> IsPrefix(q, path) \/ q = Append(path, k)
    BY <2>2, PrefixAppend DEF Paths
  <2> QED BY <2>1, <2>2, <2>3
<1> HIDE DEF path
<1>3. /\ DOMAIN T \subseteq Paths
      /\ \A q \in Paths : q \in DOMAIN T <=> q \in DOMAIN nodes \/ (q # Root /\ IsPrefix(q, path))
      /\ \A q \in DOMAIN T : T[q] = IF q \in DOMAIN nodes THEN nodes[q] ELSE Trunk
  BY <1>1, OpenedIs
<1>4. nodes' = Placed(T, at, Leaf(v))
  BY DEF path
<1> HIDE DEF T
<1>5. /\ DOMAIN nodes' \subseteq Paths /\ at \in DOMAIN nodes' /\ nodes'[at] = Leaf(v)
      /\ \A q \in Paths \ {at} : q \in DOMAIN nodes' <=> q \in DOMAIN T /\ ~IsPrefix(at, q)
      /\ \A q \in DOMAIN nodes' \ {at} : nodes'[q] = T[q]
      /\ nodes' = [q \in DOMAIN nodes' |-> nodes'[q]]
  BY <1>3, <1>4, PlacedIs
<1>6. \A q \in DOMAIN nodes' \ {at} :
        nodes'[q] = IF q \in DOMAIN nodes THEN nodes[q] ELSE Trunk
  BY <1>3, <1>5
<1>7. \A q \in Paths \ {at} : q \in DOMAIN nodes'
       <=> ~IsPrefix(at, q) /\ (q \in DOMAIN nodes \/ (q # Root /\ IsPrefix(q, at)))
  BY <1>2, <1>3, <1>5
<1>8. nodes' \in [DOMAIN nodes' -> NodeType]
  <2>1. \A q \in DOMAIN nodes : nodes[q] \in NodeType
    BY DEF TreeTypes
  <2>2. Leaf(v) \in NodeType /\ Trunk \in NodeType
    BY DEF Leaf, Trunk, NodeType
  <2>3. \A q \in DOMAIN nodes' : nodes'[q] \in NodeType
    BY <1>5, <1>6, <2>1, <2>2
  <2> QED BY <1>5, <2>3
<1> QED BY <1>5, <1>6, <1>7, <1>8 DEF LeftBySet

(* What push_back() leaves: a value takes no elements, anything else the   *)
(* one whose index is the number of children.                              *)
LeftByPush(at, v) ==
  LET el == Append(at, IndexKey(Cardinality(Children(nodes, at))))
      full == at \in DOMAIN nodes /\ nodes[at].type = "leaf"
  IN /\ DOMAIN nodes' \subseteq Paths /\ at \in DOMAIN nodes'
     /\ full => /\ \A q \in Paths : q \in DOMAIN nodes'
                     <=> q \in DOMAIN nodes \/ (q # Root /\ IsPrefix(q, at))
                /\ \A q \in DOMAIN nodes' :
                     nodes'[q] = IF q \in DOMAIN nodes THEN nodes[q] ELSE Trunk
     /\ ~full => /\ el \in DOMAIN nodes'
                 /\ \A q \in Paths \ {el} : q \in DOMAIN nodes'
                      <=> /\ ~IsPrefix(el, q)
                          /\ q \in DOMAIN nodes \/ (q # Root /\ IsPrefix(q, at))
                 /\ nodes'[el] = Leaf(v) /\ nodes'[at] = Array
                 /\ \A q \in DOMAIN nodes' \ {el, at} :
                      nodes'[q] = IF q \in DOMAIN nodes THEN nodes[q] ELSE Trunk
     /\ nodes' \in [DOMAIN nodes' -> NodeType]

LEMMA AfterPush ==
  ASSUME TreeTypes, Few, NEW at \in Paths \ {Root}, NEW v \in Nat,
         nodes' = Added(Opened(nodes, at), at, v)
  PROVE  LeftByPush(at, v)
<1> DEFINE T == Opened(nodes, at)
           full == at \in DOMAIN nodes /\ nodes[at].type = "leaf"
           key == IndexKey(Cardinality(Children(nodes, at)))
           el == Append(at, key)
<1>1. \A k \in Strings :
        /\ Append(at, k) \in Paths /\ ~IsPrefix(Append(at, k), at) /\ Append(at, k) # at
        /\ Append(at, k) # Root
  BY PrefixAppend DEF Paths, Root
<1>2. IsPrefix(at, at)
  BY PrefixLaws DEF Paths
<1>3. /\ DOMAIN T \subseteq Paths
      /\ \A q \in Paths : q \in DOMAIN T <=> q \in DOMAIN nodes \/ (q # Root /\ IsPrefix(q, at))
      /\ \A q \in DOMAIN T : T[q] = IF q \in DOMAIN nodes THEN nodes[q] ELSE Trunk
  BY OpenedIs
<1>4. nodes' = Added(T, at, v)
  OBVIOUS
<1> HIDE DEF T
<1>5. at \in DOMAIN T /\ (T[at].type = "leaf" <=> full)
  BY <1>2, <1>3 DEF Trunk
<1>6. Children(T, at) = Children(nodes, at)
  <2>1. /\ Children(T, at) \subseteq Strings /\ Children(nodes, at) \subseteq Strings
        /\ \A k \in Strings : k \in Children(T, at) <=> Append(at, k) \in DOMAIN T
        /\ \A k \in Strings : k \in Children(nodes, at) <=> Append(at, k) \in DOMAIN nodes
    BY <1>3, ChildrenIs DEF TreeTypes
  <2>2. \A k \in Strings : Append(at, k) \in DOMAIN T <=> Append(at, k) \in DOMAIN nodes
    BY <1>1, <1>3
  <2> QED BY <2>1, <2>2
<1>7. key \in Strings /\ el \in Paths /\ el # at /\ ~IsPrefix(el, at)
  <2>1. Cardinality(Children(nodes, at)) \in Nat
    BY FS_CardinalityType DEF Few
  <2> QED BY <1>1, <2>1, PathsAre
<1>8. \A q \in DOMAIN T : T[q] \in NodeType
  BY <1>3 DEF TreeTypes, NodeType, Trunk
<1>9. CASE full
  <2>1. nodes' = T
    BY <1>4, <1>5, <1>9 DEF Added
  <2>2. T = [q \in DOMAIN T |-> T[q]]
    BY DEF T, Opened
  <2>3. nodes' \in [DOMAIN nodes' -> NodeType]
    BY <1>8, <2>1, <2>2
  <2> QED BY <1>3, <1>5, <1>9, <2>1, <2>3 DEF LeftByPush
<1>10. CASE ~full
  <2> DEFINE W == Placed(T, el, Leaf(v))
  <2>1. nodes' = [W EXCEPT ![at] = Array]
    BY <1>4, <1>5, <1>6, <1>10 DEF Added
  <2>2. /\ DOMAIN W \subseteq Paths /\ el \in DOMAIN W /\ W[el] = Leaf(v)
        /\ \A q \in Paths \ {el} : q \in DOMAIN W <=> q \in DOMAIN T /\ ~IsPrefix(el, q)
        /\ \A q \in DOMAIN W \ {el} : W[q] = T[q]
    <3>1. DOMAIN T \subseteq Paths /\ el \in Paths
      BY <1>3, <1>7
    <3> HIDE DEF el
    <3> QED BY <3>1, PlacedIs
  <2> HIDE DEF W, el, key
  <2>3. at \in DOMAIN W
    BY <1>5, <1>7, <2>2
  <2>4. /\ DOMAIN nodes' = DOMAIN W /\ nodes'[at] = Array
        /\ \A q \in DOMAIN W \ {at} : nodes'[q] = W[q]
        /\ nodes' = [q \in DOMAIN nodes' |-> nodes'[q]]
    BY <2>1, <2>3
  <2>5. \A q \in DOMAIN nodes' : nodes'[q] \in NodeType
    <3>1. Leaf(v) \in NodeType /\ Array \in NodeType
      BY DEF Leaf, Array, NodeType
    <3> QED BY <1>8, <2>2, <2>4, <3>1
  <2>6. \A q \in Paths \ {el} : q \in DOMAIN nodes'
          <=> ~IsPrefix(el, q) /\ (q \in DOMAIN nodes \/ (q # Root /\ IsPrefix(q, at)))
    BY <1>3, <2>2, <2>4
  <2>7. \A q \in DOMAIN nodes' \ {el, at} :
          nodes'[q] = IF q \in DOMAIN nodes THEN nodes[q] ELSE Trunk
    BY <1>3, <2>2, <2>4
  <2>8. el \in DOMAIN nodes' /\ nodes'[el] = Leaf(v)
    BY <1>7, <2>2, <2>4
  <2>9. nodes' \in [DOMAIN nodes' -> NodeType]
    BY <2>4, <2>5
  <2> QED BY <1>10, <2>2, <2>3, <2>4, <2>6, <2>7, <2>8, <2>9 DEF LeftByPush, el, key
<1> QED BY <1>9, <1>10
-----------------------------------------------------------------------------
(* A call more.                                                            *)
LEMMA HistoryGrows ==
  ASSUME TreeTypes, Len(calls) < MaxCalls, NEW c \in CallType,
         calls' = Append(calls, c), NEW n, n = Value
  PROVE  /\ calls' \in Seq(CallType) /\ Len(calls') = n
         /\ n \in Nat /\ n <= MaxCalls /\ Len(calls) \in Nat /\ n = Len(calls) + 1
         /\ DOMAIN calls = 1 .. Len(calls) /\ DOMAIN calls' = DOMAIN calls \cup {n}
         /\ calls'[n] = c
         /\ \A i \in DOMAIN calls : calls'[i] = calls[i]
         /\ \A p : \A i \in 0 .. Len(calls) :
              /\ LaterIn(calls', p, i) <=> LaterIn(calls, p, i) \/ (c.op = "set" /\ IsPrefix(c.at, p))
              /\ OverIn(calls', p, i) <=> OverIn(calls, p, i) \/ Over(c, p)
         /\ \A p : ~LaterIn(calls', p, n) /\ ~OverIn(calls', p, n)
         /\ \A p : HandIn(calls', p) <=> HandIn(calls, p) \/ ByHand(c, p) \/ Over(c, p)
<1>1. /\ calls \in Seq(CallType) /\ calls' = Append(calls, c)
      /\ n = Len(calls) + 1 /\ MaxCalls \in Nat
  BY TreeAssumption DEF TreeTypes, Value
<1>2. /\ calls' \in Seq(CallType) /\ Len(calls') = n /\ Len(calls) \in Nat
      /\ DOMAIN calls = 1 .. Len(calls) /\ DOMAIN calls' = 1 .. n
      /\ calls'[n] = c
      /\ \A i \in 1 .. Len(calls) : calls'[i] = calls[i]
  BY <1>1
<1>3. /\ n \in Nat /\ n <= MaxCalls /\ DOMAIN calls' = DOMAIN calls \cup {n}
  BY <1>1, <1>2
<1>4. ASSUME NEW p, NEW i \in 0 .. Len(calls)
      PROVE  /\ LaterIn(calls', p, i) <=> LaterIn(calls, p, i) \/ (c.op = "set" /\ IsPrefix(c.at, p))
             /\ OverIn(calls', p, i) <=> OverIn(calls, p, i) \/ Over(c, p)
  <2>1. LaterIn(calls', p, i) <=> LaterIn(calls, p, i) \/ (c.op = "set" /\ IsPrefix(c.at, p))
    BY <1>1, <1>2 DEF LaterIn
  <2>2. OverIn(calls', p, i) <=> OverIn(calls, p, i) \/ Over(c, p)
    BY <1>1, <1>2 DEF OverIn
  <2> QED BY <2>1, <2>2
<1>5. ASSUME NEW p PROVE ~LaterIn(calls', p, n) /\ ~OverIn(calls', p, n)
  BY <1>1, <1>2 DEF LaterIn, OverIn
<1>6. ASSUME NEW p
      PROVE  HandIn(calls', p) <=> HandIn(calls, p) \/ ByHand(c, p) \/ Over(c, p)
  <2>1. OverIn(calls', p, 0) <=> OverIn(calls, p, 0) \/ Over(c, p)
    BY <1>2, <1>4
  <2>2. (\E j \in DOMAIN calls' : ByHand(calls'[j], p))
          <=> (\E j \in DOMAIN calls : ByHand(calls[j], p)) \/ ByHand(c, p)
    BY <1>1, <1>2
  <2> QED BY <2>1, <2>2 DEF HandIn
<1> QED BY <1>1, <1>2, <1>3, <1>4, <1>5, <1>6

LEMMA PushesGrow ==
  ASSUME TreeTypes, Len(calls) < MaxCalls, NEW c \in CallType,
         calls' = Append(calls, c), NEW n, n = Value, NEW p
  PROVE  /\ PushesIn(calls, p) \subseteq 1 .. Len(calls)
         /\ Cardinality(PushesIn(calls, p)) \in Nat
         /\ Cardinality(PushesIn(calls, p)) <= Len(calls)
         /\ c.op = "set" /\ IsPrefix(c.at, p) => PushesIn(calls', p) = {}
         /\ c = Onto(p) =>
              /\ PushesIn(calls', p) = PushesIn(calls, p) \cup {n}
              /\ n \notin PushesIn(calls, p)
              /\ Cardinality(PushesIn(calls', p)) = Cardinality(PushesIn(calls, p)) + 1
              /\ BeforeIn(calls', p, n) = Cardinality(PushesIn(calls, p))
         /\ c # Onto(p) /\ ~(c.op = "set" /\ IsPrefix(c.at, p))
              => PushesIn(calls', p) = PushesIn(calls, p)
         /\ PushesIn(calls', p) # {} =>
              \A i \in PushesIn(calls, p) : BeforeIn(calls', p, i) = BeforeIn(calls, p, i)
<1> DEFINE P == PushesIn(calls, p)
           Q == PushesIn(calls', p)
           erased == c.op = "set" /\ IsPrefix(c.at, p)
<1>1. /\ n \in Nat /\ n = Len(calls) + 1 /\ Len(calls) \in Nat
      /\ DOMAIN calls = 1 .. Len(calls) /\ DOMAIN calls' = DOMAIN calls \cup {n}
      /\ calls'[n] = c
      /\ \A i \in DOMAIN calls : calls'[i] = calls[i]
      /\ \A i \in 0 .. Len(calls) : LaterIn(calls', p, i) <=> LaterIn(calls, p, i) \/ erased
      /\ ~LaterIn(calls', p, n)
  BY HistoryGrows
<1>2. /\ P \subseteq DOMAIN calls /\ Q \subseteq DOMAIN calls'
      /\ \A i \in DOMAIN calls' : i \in Q <=> calls'[i] = Onto(p) /\ ~LaterIn(calls', p, i)
      /\ \A i \in DOMAIN calls : i \in P <=> calls[i] = Onto(p) /\ ~LaterIn(calls, p, i)
  BY DEF PushesIn
<1>3. IsFiniteSet(P) /\ Cardinality(P) \in Nat /\ Cardinality(P) <= Len(calls)
  <2> DEFINE m == Len(calls)
  <2>1. m \in Nat /\ P \subseteq 1 .. m
    BY <1>1, <1>2
  <2> HIDE DEF m, P
  <2>2. IsFiniteSet(1 .. m) /\ Cardinality(1 .. m) = m
    BY SMTT(30), <2>1, FS_Interval
  <2>3. IsFiniteSet(P) /\ Cardinality(P) <= m
    BY <2>1, <2>2, FS_Subset
  <2> QED BY <2>3, FS_CardinalityType DEF m
<1> HIDE DEF P, Q
<1>4. n \notin P /\ \A i \in P : i < n
  BY <1>1, <1>2
<1>5. ASSUME erased PROVE Q = {}
  <2>1. c # Onto(p)
    BY <1>5 DEF Onto
  <2> QED BY <1>1, <1>2, <1>5, <2>1
<1>6. ASSUME c = Onto(p) PROVE Q = P \cup {n}
  <2>1. ~erased
    BY <1>6 DEF Onto
  <2> QED BY <1>1, <1>2, <1>6, <2>1
<1>7. ASSUME c # Onto(p), ~erased PROVE Q = P
  <2>1. n \notin Q
    BY <1>1, <1>2, <1>7
  <2>2. \A i \in DOMAIN calls : i \in Q <=> i \in P
    BY <1>1, <1>2, <1>7
  <2> QED BY <1>1, <1>2, <2>1, <2>2
<1>8. /\ BeforeIn(calls', p, n) = Cardinality({j \in Q : j < n})
      /\ \A i : /\ BeforeIn(calls', p, i) = Cardinality({j \in Q : j < i})
               /\ BeforeIn(calls, p, i) = Cardinality({j \in P : j < i})
  BY DEF BeforeIn, P, Q
<1>9. ASSUME c = Onto(p)
      PROVE  Cardinality(Q) = Cardinality(P) + 1 /\ BeforeIn(calls', p, n) = Cardinality(P)
  <2>1. {j \in Q : j < n} = P
    BY <1>1, <1>4, <1>6, <1>9
  <2>2. Cardinality(P \cup {n}) = Cardinality(P) + 1
    BY <1>3, <1>4, FS_AddElement
  <2> QED BY <1>6, <1>8, <1>9, <2>1, <2>2
<1>10. ASSUME Q # {}, NEW i \in P
       PROVE  BeforeIn(calls', p, i) = BeforeIn(calls, p, i)
  <2>1. Q = P \/ Q = P \cup {n}
    BY <1>5, <1>6, <1>7, <1>10
  <2>2. ~(n < i)
    BY <1>1, <1>2
  <2>3. {j \in Q : j < i} = {j \in P : j < i}
    BY <2>1, <2>2
  <2> QED BY <1>8, <2>3
<1> QED BY <1>1, <1>2, <1>3, <1>4, <1>5, <1>6, <1>7, <1>9, <1>10 DEF P, Q

LEMMA BeforeIs ==
  ASSUME TreeTypes, NEW p, NEW i \in PushesIn(calls, p)
  PROVE  /\ Cardinality(PushesIn(calls, p)) \in Nat
         /\ BeforeIn(calls, p, i) \in 0 .. Cardinality(PushesIn(calls, p)) - 1
<1> DEFINE P == PushesIn(calls, p)
           B == {j \in P : j < i}
           m == Len(calls)
<1>1. m \in Nat /\ P \subseteq 1 .. m /\ i \in P
  BY DEF TreeTypes, PushesIn
<1>2. B \subseteq P \ {i}
  BY <1>1
<1>3. BeforeIn(calls, p, i) = Cardinality(B)
  BY DEF BeforeIn
<1> HIDE DEF P, B, m
<1>4. IsFiniteSet(P)
  <2>1. IsFiniteSet(1 .. m)
    BY <1>1, FS_Interval
  <2> QED BY <1>1, <2>1, FS_Subset
<1>5. IsFiniteSet(P \ {i}) /\ Cardinality(P \ {i}) = Cardinality(P) - 1
  BY <1>1, <1>4, FS_RemoveElement
<1>6. IsFiniteSet(B) /\ Cardinality(B) <= Cardinality(P \ {i})
  BY <1>2, <1>5, FS_Subset
<1>7. Cardinality(P) \in Nat /\ Cardinality(B) \in Nat
  BY <1>4, <1>6, FS_CardinalityType
<1> QED BY <1>3, <1>5, <1>6, <1>7 DEF P

(* A call that leaves p's children as they are leaves its elements.        *)
LEMMA StillThere ==
  ASSUME TreeTypes, DOMAIN nodes' \subseteq Paths, NEW p \in Paths,
         PushesIn(calls', p) = PushesIn(calls, p),
         \A i \in PushesIn(calls, p) : BeforeIn(calls', p, i) = BeforeIn(calls, p, i),
         Elements(nodes, calls, p), nodes'[p] = nodes[p],
         \A k \in Strings :
           /\ Append(p, k) \in DOMAIN nodes' <=> Append(p, k) \in DOMAIN nodes
           /\ Append(p, k) \in DOMAIN nodes => nodes'[Append(p, k)] = nodes[Append(p, k)]
  PROVE  Elements(nodes', calls', p)
<1> DEFINE P == PushesIn(calls, p)
<1>1. /\ DOMAIN nodes \subseteq Paths
      /\ nodes[p].type = "array"
      /\ Children(nodes, p) = {IndexKey(m) : m \in 0 .. Cardinality(P) - 1}
      /\ \A i \in P : nodes[Append(p, IndexKey(BeforeIn(calls, p, i)))] = Leaf(i)
  BY DEF Elements, TreeTypes
<1>2. /\ Children(nodes, p) \subseteq Strings /\ Children(nodes', p) \subseteq Strings
      /\ \A k \in Strings : k \in Children(nodes, p) <=> Append(p, k) \in DOMAIN nodes
      /\ \A k \in Strings : k \in Children(nodes', p) <=> Append(p, k) \in DOMAIN nodes'
  BY <1>1, ChildrenIs
<1>3. Children(nodes', p) = Children(nodes, p)
  BY <1>2
<1>4. ASSUME NEW i \in P
      PROVE  nodes'[Append(p, IndexKey(BeforeIn(calls', p, i)))] = Leaf(i)
  <2> DEFINE k == IndexKey(BeforeIn(calls, p, i))
  <2>1. BeforeIn(calls, p, i) \in 0 .. Cardinality(P) - 1
    BY BeforeIs
  <2>2. k \in Children(nodes, p)
    BY <1>1, <2>1
  <2>3. nodes[Append(p, k)] = Leaf(i) /\ BeforeIn(calls', p, i) = BeforeIn(calls, p, i)
    BY <1>1
  <2>4. IndexKey(BeforeIn(calls', p, i)) = k
    BY <2>3
  <2> HIDE DEF k
  <2>5. nodes'[Append(p, k)] = nodes[Append(p, k)]
    BY <1>2, <2>2
  <2> QED BY <2>3, <2>4, <2>5
<1> QED BY <1>1, <1>3, <1>4 DEF Elements

LEMMA OneMore ==
  ASSUME NEW A, NEW B, NEW x, IsFiniteSet(A), B \subseteq A \cup {x}, NEW m \in Nat,
         Cardinality(A) <= m
  PROVE  IsFiniteSet(B) /\ Cardinality(B) <= m + 1
<1>1. IsFiniteSet(A \cup {x}) /\ Cardinality(A \cup {x}) <= Cardinality(A) + 1
  <2>1. Cardinality(A) \in Nat
    BY FS_CardinalityType
  <2>2. /\ IsFiniteSet(A \cup {x})
        /\ \/ Cardinality(A \cup {x}) = Cardinality(A)
           \/ Cardinality(A \cup {x}) = Cardinality(A) + 1
    <3>1. CASE x \in A
      <4>1. A \cup {x} = A
        BY <3>1
      <4> QED BY <4>1
    <3>2. CASE x \notin A
      BY <3>2, FS_AddElement
    <3> QED BY <3>1, <3>2
  <2> QED BY <2>1, <2>2
<1>2. IsFiniteSet(B) /\ Cardinality(B) <= Cardinality(A \cup {x})
  BY <1>1, FS_Subset
<1> QED BY <1>1, <1>2, FS_CardinalityType

LEMMA SetInv ==
  ASSUME TreeInv, Len(calls) < MaxCalls, NEW at \in Paths \ {Root}, NEW n, n = Value,
         calls' = Append(calls, [op |-> "set", at |-> at]), LeftBySet(at, n)
  PROVE  TreeInv'
<1> DEFINE c == [op |-> "set", at |-> at]
<1>1. c \in CallType /\ c.op = "set" /\ c.at = at /\ calls' = Append(calls, c)
      /\ \A p : c # Onto(p)
  BY DEF CallType, Onto
<1> HIDE DEF c
<1>2. /\ calls' \in Seq(CallType) /\ Len(calls') = n /\ n <= MaxCalls
      /\ n = Len(calls) + 1 /\ Len(calls) \in Nat
      /\ DOMAIN calls = 1 .. Len(calls) /\ DOMAIN calls' = DOMAIN calls \cup {n}
      /\ calls'[n] = c /\ \A i \in DOMAIN calls : calls'[i] = calls[i]
      /\ \A p : \A i \in 0 .. Len(calls) :
           /\ LaterIn(calls', p, i) <=> LaterIn(calls, p, i) \/ IsPrefix(at, p)
           /\ OverIn(calls', p, i) <=> OverIn(calls, p, i)
      /\ \A p : HandIn(calls', p) <=> HandIn(calls, p) \/ ByHand(c, p)
  <2>1. \A p : ~Over(c, p)
    BY <1>1 DEF Over
  <2>2. TreeTypes
    BY DEF TreeInv
  <2> QED BY <1>1, <2>1, <2>2, HistoryGrows
<1>3. /\ DOMAIN nodes' \subseteq Paths /\ at \in DOMAIN nodes'
      /\ \A q \in Paths \ {at} : q \in DOMAIN nodes'
           <=> ~IsPrefix(at, q) /\ (q \in DOMAIN nodes \/ (q # Root /\ IsPrefix(q, at)))
      /\ nodes'[at] = Leaf(n)
      /\ \A q \in DOMAIN nodes' \ {at} :
           nodes'[q] = IF q \in DOMAIN nodes THEN nodes[q] ELSE Trunk
      /\ nodes' \in [DOMAIN nodes' -> NodeType]
  BY DEF LeftBySet
<1>4. TreeTypeOK'
  <2>1. Root \in DOMAIN nodes'
    <3>1. ~IsPrefix(at, Root) /\ Root \in Paths /\ Root \in DOMAIN nodes
      BY PathsAre, PrefixLaws DEF Paths, Root, TreeInv, TreeTypes, TreeTypeOK
    <3> QED BY <1>3, <3>1
  <2>2. ASSUME NEW q \in DOMAIN nodes' \ {Root} PROVE Front(q) \in DOMAIN nodes'
    <3> DEFINE f == Front(q)
    <3>1. q \in Paths /\ f \in Paths /\ IsPrefix(f, q) /\ ~IsPrefix(q, f)
      <4>1. q \in Paths /\ f \in Paths /\ Last(q) \in Strings /\ q = Append(f, Last(q))
        BY <1>3, FrontLast DEF Paths, Root
      <4> DEFINE k == Last(q)
      <4> HIDE DEF f, k
      <4>2. IsPrefix(f, Append(f, k)) /\ ~IsPrefix(Append(f, k), f)
        BY <4>1, PrefixAppend DEF Paths, k
      <4> QED BY <4>1, <4>2 DEF k
    <3>2. q \in DOMAIN nodes => f \in DOMAIN nodes
      BY DEF TreeInv, TreeTypes, TreeTypeOK
    <3> HIDE DEF f
    <3>3. /\ IsPrefix(f, q) /\ IsPrefix(q, at) => IsPrefix(f, at)
          /\ IsPrefix(at, f) /\ IsPrefix(f, q) => IsPrefix(at, q)
          /\ IsPrefix(at, at)
      BY <3>1, PrefixLaws DEF Paths
    <3>4. CASE f = Root
      BY <2>1, <3>4 DEF f
    <3>5. CASE f # Root /\ q = at
      BY <1>3, <3>1, <3>3, <3>5 DEF f
    <3>6. CASE f # Root /\ q # at
      <4>1. ~IsPrefix(at, q) /\ (q \in DOMAIN nodes \/ IsPrefix(q, at))
        BY <1>3, <3>1, <3>6
      <4>2. ~IsPrefix(at, f) /\ f # at
        BY <3>1, <3>3, <4>1
      <4> QED BY <1>3, <3>1, <3>2, <3>3, <3>6, <4>1, <4>2 DEF f
    <3> QED BY <3>4, <3>5, <3>6
  <2>3. \A q \in DOMAIN nodes' : nodes'[q].type \in {"leaf", "trunk", "array"}
    BY <1>3 DEF NodeType
  <2> QED BY <2>1, <2>2, <2>3 DEF TreeTypeOK
<1>5. TreeTypes'
  BY <1>2, <1>3, <1>4 DEF TreeTypes
<1>6. Few'
  <2>1. SUFFICES ASSUME NEW p \in Paths
                 PROVE  /\ IsFiniteSet(Children(nodes', p))
                        /\ Cardinality(Children(nodes', p)) <= Len(calls) + 1
    BY <1>2 DEF Few
  <2>2. Children(nodes', p) \subseteq Children(nodes, p) \cup {at[Len(p) + 1]}
    <3>1. SUFFICES ASSUME NEW k \in Children(nodes', p)
                   PROVE  k \in Children(nodes, p) \/ k = at[Len(p) + 1]
      OBVIOUS
    <3>2. k \in Strings /\ Append(p, k) \in DOMAIN nodes'
      BY <1>3, ChildrenIs
    <3>3. Append(p, k) \in DOMAIN nodes => k \in Children(nodes, p)
      BY <3>2, ChildrenIs DEF TreeInv, TreeTypes
    <3>4. IsPrefix(Append(p, k), at) => k = at[Len(p) + 1]
      BY <3>2, StrictIs DEF Paths
    <3>5. Append(p, k) = at => IsPrefix(Append(p, k), at)
      BY PrefixLaws DEF Paths
    <3> QED BY <1>3, <3>2, <3>3, <3>4, <3>5
  <2>3. IsFiniteSet(Children(nodes, p)) /\ Cardinality(Children(nodes, p)) <= Len(calls)
    BY DEF TreeInv, Few
  <2> QED BY <1>2, <2>2, <2>3, OneMore
<1>7. SetHeld'
  <2>1. SUFFICES ASSUME NEW i \in DOMAIN calls', calls'[i].op = "set",
                        ~LaterIn(calls', calls'[i].at, i), ~OverIn(calls', calls'[i].at, i)
                 PROVE  calls'[i].at \in DOMAIN nodes' /\ nodes'[calls'[i].at] = Leaf(i)
    BY DEF SetHeld
  <2>2. CASE i = n
    BY <1>1, <1>2, <1>3, <2>2
  <2>3. CASE i \in DOMAIN calls
    <3> DEFINE p == calls[i].at
    <3>1. calls'[i] = calls[i] /\ p \in Paths \ {Root} /\ i \in 0 .. Len(calls)
      <4>1. calls[i] \in CallType
        BY <1>2, <2>3 DEF TreeInv, TreeTypes
      <4> QED BY <1>2, <2>3, <4>1 DEF CallType
    <3>2. ~LaterIn(calls, p, i) /\ ~IsPrefix(at, p) /\ ~OverIn(calls, p, i)
      BY <1>2, <2>1, <3>1
    <3>3. p \in DOMAIN nodes /\ nodes[p] = Leaf(i)
      BY <2>1, <2>3, <3>1, <3>2 DEF TreeInv, SetHeld
    <3>4. p # at
      BY <3>2, PrefixLaws DEF Paths
    <3> HIDE DEF p
    <3>5. p \in DOMAIN nodes' /\ nodes'[p] = nodes[p]
      BY <1>3, <3>1, <3>2, <3>3, <3>4
    <3> QED BY <3>1, <3>3, <3>5 DEF p
  <2> QED BY <1>2, <2>2, <2>3
<1>8. PushesHeld'
  <2>1. SUFFICES ASSUME NEW p \in Paths \ {Root}, ~HandIn(calls', p)
                 PROVE  /\ p \in DOMAIN nodes' <=> PushesIn(calls', p) # {}
                        /\ PushesIn(calls', p) # {} => Elements(nodes', calls', p)
    BY DEF PushesHeld
  <2>2. ~HandIn(calls, p) /\ ~IsStrictPrefix(p, at) /\ at # p
    BY <1>1, <1>2, <2>1 DEF ByHand
  <2>3. /\ p \in DOMAIN nodes <=> PushesIn(calls, p) # {}
        /\ PushesIn(calls, p) # {} => Elements(nodes, calls, p)
    BY <2>2 DEF TreeInv, PushesHeld
  <2>4. /\ IsPrefix(at, p) => PushesIn(calls', p) = {}
        /\ ~IsPrefix(at, p) => PushesIn(calls', p) = PushesIn(calls, p)
        /\ PushesIn(calls', p) # {} =>
              \A i \in PushesIn(calls, p) : BeforeIn(calls', p, i) = BeforeIn(calls, p, i)
    BY <1>1, PushesGrow DEF TreeInv
  <2>5. CASE IsPrefix(at, p)
    BY <1>3, <2>2, <2>4, <2>5
  <2>6. CASE ~IsPrefix(at, p)
    <3>1. ~IsPrefix(p, at)
      BY <2>2 DEF IsStrictPrefix
    <3>2. p \in DOMAIN nodes' <=> p \in DOMAIN nodes
      BY <1>3, <2>2, <2>6, <3>1
    <3>3. ASSUME NEW k \in Strings
          PROVE  /\ Append(p, k) \in DOMAIN nodes' <=> Append(p, k) \in DOMAIN nodes
                 /\ Append(p, k) \in DOMAIN nodes => nodes'[Append(p, k)] = nodes[Append(p, k)]
      <4> DEFINE q == Append(p, k)
      <4>1. /\ q \in Paths /\ IsPrefix(p, q)
            /\ IsPrefix(at, q) <=> IsPrefix(at, p) \/ at = q
        BY PrefixAppend DEF Paths
      <4> HIDE DEF q
      <4>2. ~IsPrefix(q, at)
        BY <3>1, <4>1, PrefixLaws DEF Paths
      <4>3. q # at
        BY <4>2, PrefixLaws DEF Paths
      <4>4. q \in DOMAIN nodes' <=> q \in DOMAIN nodes
        BY <1>3, <2>6, <4>1, <4>2, <4>3
      <4>5. q \in DOMAIN nodes => nodes'[q] = nodes[q]
        BY <1>3, <4>3, <4>4
      <4> QED BY <4>4, <4>5 DEF q
    <3>4. ASSUME PushesIn(calls, p) # {} PROVE Elements(nodes', calls', p)
      <4>1. nodes'[p] = nodes[p]
        BY <1>3, <2>2, <2>3, <3>2, <3>4
      <4>2. TreeTypes /\ p \in Paths
        BY DEF TreeInv
      <4>3. /\ PushesIn(calls', p) = PushesIn(calls, p)
            /\ \A i \in PushesIn(calls, p) : BeforeIn(calls', p, i) = BeforeIn(calls, p, i)
        BY <2>4, <2>6, <3>4
      <4>4. Elements(nodes, calls, p)
        BY <2>3, <3>4
      <4> QED BY <1>3, <3>3, <4>1, <4>2, <4>3, <4>4, StillThere
    <3> QED BY <2>3, <2>4, <2>6, <3>2, <3>4
  <2> QED BY <2>5, <2>6
<1> QED BY <1>5, <1>6, <1>7, <1>8 DEF TreeInv

(* As many keys as indices.                                                *)
KeysBelow(m) == {IndexKey(j) : j \in 0 .. m - 1}

LEMMA CountKeys ==
  ASSUME NEW m \in Nat
  PROVE  IsFiniteSet(KeysBelow(m)) /\ Cardinality(KeysBelow(m)) = m
<1> DEFINE S == 0 .. m - 1
           f == [j \in S |-> IndexKey(j)]
<1>1. f \in Bijection(S, KeysBelow(m))
  <2>1. \A i, j \in S : f[i] = f[j] => i = j
    BY IndexKeyOnce
  <2> QED BY <2>1 DEF Bijection, Injection, Surjection, IsInjective, KeysBelow
<1>2. IsFiniteSet(S) /\ Cardinality(S) = m
  BY FS_Interval
<1>3. ExistsBijection(S, KeysBelow(m))
  BY <1>1 DEF ExistsBijection
<1> HIDE DEF S, f
<1> QED BY <1>2, <1>3, FS_Bijection

LEMMA PushInv ==
  ASSUME TreeInv, Len(calls) < MaxCalls, NEW at \in Paths \ {Root}, NEW n, n = Value,
         calls' = Append(calls, [op |-> "push", at |-> at]), LeftByPush(at, n)
  PROVE  TreeInv'
<1> DEFINE c == [op |-> "push", at |-> at]
           key == IndexKey(Cardinality(Children(nodes, at)))
           el == Append(at, key)
           full == at \in DOMAIN nodes /\ nodes[at].type = "leaf"
<1>1. /\ c \in CallType /\ c.op = "push" /\ c.at = at /\ calls' = Append(calls, c)
      /\ \A p : c = Onto(p) <=> p = at
  BY DEF CallType, Onto
<1> HIDE DEF c
<1>2. /\ calls' \in Seq(CallType) /\ Len(calls') = n /\ n <= MaxCalls
      /\ n = Len(calls) + 1 /\ Len(calls) \in Nat /\ n \in Nat
      /\ DOMAIN calls = 1 .. Len(calls) /\ DOMAIN calls' = DOMAIN calls \cup {n}
      /\ calls'[n] = c /\ \A i \in DOMAIN calls : calls'[i] = calls[i]
      /\ \A p : \A i \in 0 .. Len(calls) :
           /\ LaterIn(calls', p, i) <=> LaterIn(calls, p, i)
           /\ OverIn(calls', p, i) <=> OverIn(calls, p, i) \/ Over(c, p)
      /\ \A p : HandIn(calls', p) <=> HandIn(calls, p) \/ ByHand(c, p) \/ Over(c, p)
  <2>1. TreeTypes
    BY DEF TreeInv
  <2> QED BY <1>1, <2>1, HistoryGrows
<1>3. /\ DOMAIN nodes' \subseteq Paths /\ at \in DOMAIN nodes'
      /\ full => /\ \A q \in Paths : q \in DOMAIN nodes'
                      <=> q \in DOMAIN nodes \/ (q # Root /\ IsPrefix(q, at))
                 /\ \A q \in DOMAIN nodes' :
                      nodes'[q] = IF q \in DOMAIN nodes THEN nodes[q] ELSE Trunk
      /\ ~full => /\ el \in DOMAIN nodes'
                  /\ \A q \in Paths \ {el} : q \in DOMAIN nodes'
                       <=> /\ ~IsPrefix(el, q)
                           /\ q \in DOMAIN nodes \/ (q # Root /\ IsPrefix(q, at))
                  /\ nodes'[el] = Leaf(n) /\ nodes'[at] = Array
                  /\ \A q \in DOMAIN nodes' \ {el, at} :
                       nodes'[q] = IF q \in DOMAIN nodes THEN nodes[q] ELSE Trunk
      /\ nodes' \in [DOMAIN nodes' -> NodeType]
  BY DEF LeftByPush
<1>4. /\ Cardinality(Children(nodes, at)) \in 0 .. MaxCalls
      /\ key \in Strings /\ key \in IndexKeys
  <2>1. /\ Cardinality(Children(nodes, at)) \in Nat
        /\ Cardinality(Children(nodes, at)) <= Len(calls) /\ MaxCalls \in Nat
    BY FS_CardinalityType, TreeAssumption DEF TreeInv, Few
  <2> QED BY <1>2, <2>1, PathsAre DEF IndexKeys
<1>5. \A k \in Strings :
        /\ Append(at, k) \in Paths \ {Root, at} /\ IsPrefix(at, Append(at, k))
        /\ ~IsPrefix(Append(at, k), at)
        /\ Append(at, k) = el <=> k = key
        /\ Front(Append(at, k)) = at
  <2>1. \A k \in Strings :
          /\ Append(at, k) \in Paths \ {Root, at} /\ IsPrefix(at, Append(at, k))
          /\ ~IsPrefix(Append(at, k), at)
          /\ Last(Append(at, k)) = k /\ Front(Append(at, k)) = at
    BY PrefixAppend DEF Paths, Root
  <2> HIDE DEF key
  <2> QED BY <1>4, <2>1
<1>6. \A p \in Paths : IsPrefix(el, p) => Over(c, p)
  <2> HIDE DEF key
  <2>1. \A p \in Paths : IsPrefix(el, p) => IsStrictPrefix(at, p) /\ p[Len(at) + 1] = key
    BY <1>4, StrictIs DEF Paths
  <2> QED BY <1>1, <1>4, <2>1 DEF Over
<1>7. el \in Paths \ {Root, at} /\ Front(el) = at /\ IsPrefix(el, el) /\ IsPrefix(at, at)
      /\ IsPrefix(at, el)
  BY <1>4, <1>5, PrefixLaws DEF Paths
<1> HIDE DEF key, el
<1>8. TreeTypeOK'
  <2>1. Root \in DOMAIN nodes'
    <3>1. ~IsPrefix(el, Root) /\ Root \in Paths /\ Root \in DOMAIN nodes
      BY <1>7, PathsAre, PrefixLaws DEF Paths, Root, TreeInv, TreeTypes, TreeTypeOK
    <3> QED BY <1>3, <1>7, <3>1
  <2>2. ASSUME NEW q \in DOMAIN nodes' \ {Root} PROVE Front(q) \in DOMAIN nodes'
    <3> DEFINE f == Front(q)
    <3>1. q \in Paths /\ f \in Paths /\ IsPrefix(f, q) /\ ~IsPrefix(q, f)
      <4>1. q \in Paths /\ f \in Paths /\ Last(q) \in Strings /\ q = Append(f, Last(q))
        BY <1>3, FrontLast DEF Paths, Root
      <4> DEFINE k == Last(q)
      <4> HIDE DEF f, k
      <4>2. IsPrefix(f, Append(f, k)) /\ ~IsPrefix(Append(f, k), f)
        BY <4>1, PrefixAppend DEF Paths, k
      <4> QED BY <4>1, <4>2 DEF k
    <3>2. q \in DOMAIN nodes => f \in DOMAIN nodes
      BY DEF TreeInv, TreeTypes, TreeTypeOK
    <3> HIDE DEF f
    <3>3. /\ IsPrefix(f, q) /\ IsPrefix(q, at) => IsPrefix(f, at)
          /\ IsPrefix(el, f) /\ IsPrefix(f, q) => IsPrefix(el, q)
      BY <1>7, <3>1, PrefixLaws DEF Paths
    <3>4. CASE f = Root
      BY <2>1, <3>4 DEF f
    <3>5. CASE f # Root /\ q = el
      BY <1>3, <1>7, <3>5 DEF f
    <3>6. CASE f # Root /\ q # el /\ ~full
      <4>1. ~IsPrefix(el, q) /\ (q \in DOMAIN nodes \/ IsPrefix(q, at))
        BY <1>3, <3>1, <3>6
      <4>2. ~IsPrefix(el, f) /\ f # el
        BY <3>1, <3>3, <4>1
      <4> QED BY <1>3, <3>1, <3>2, <3>3, <3>6, <4>1, <4>2 DEF f
    <3>7. CASE f # Root /\ full
      <4>1. q \in DOMAIN nodes \/ IsPrefix(q, at)
        BY <1>3, <3>1, <3>7
      <4> QED BY <1>3, <3>1, <3>2, <3>3, <3>7, <4>1 DEF f
    <3> QED BY <3>4, <3>5, <3>6, <3>7
  <2>3. \A q \in DOMAIN nodes' : nodes'[q].type \in {"leaf", "trunk", "array"}
    BY <1>3 DEF NodeType
  <2> QED BY <2>1, <2>2, <2>3 DEF TreeTypeOK
<1>9. TreeTypes'
  BY <1>2, <1>3, <1>8 DEF TreeTypes
<1>10. Few'
  <2>1. SUFFICES ASSUME NEW p \in Paths
                 PROVE  /\ IsFiniteSet(Children(nodes', p))
                        /\ Cardinality(Children(nodes', p)) <= Len(calls) + 1
    BY <1>2 DEF Few
  <2> DEFINE x == IF p = at THEN key ELSE at[Len(p) + 1]
  <2>2. Children(nodes', p) \subseteq Children(nodes, p) \cup {x}
    <3>1. SUFFICES ASSUME NEW k \in Children(nodes', p)
                   PROVE  k \in Children(nodes, p) \/ k = x
      OBVIOUS
    <3>2. k \in Strings /\ Append(p, k) \in DOMAIN nodes'
      BY <1>3, ChildrenIs
    <3>3. Append(p, k) \in DOMAIN nodes => k \in Children(nodes, p)
      BY <3>2, ChildrenIs DEF TreeInv, TreeTypes
    <3>4. IsPrefix(Append(p, k), at) => k = at[Len(p) + 1] /\ p # at
      BY <1>5, <3>2, StrictIs DEF Paths
    <3>5. Append(p, k) = el => p = at /\ k = key
      <4>1. Front(Append(p, k)) = p
        BY <3>2, PrefixAppend DEF Paths
      <4> QED BY <1>5, <1>7, <3>2, <4>1
    <3> QED BY <1>3, <3>2, <3>3, <3>4, <3>5
  <2>3. IsFiniteSet(Children(nodes, p)) /\ Cardinality(Children(nodes, p)) <= Len(calls)
    BY DEF TreeInv, Few
  <2> HIDE DEF x
  <2> QED BY <1>2, <2>2, <2>3, OneMore
<1>11. SetHeld'
  <2>1. SUFFICES ASSUME NEW i \in DOMAIN calls', calls'[i].op = "set",
                        ~LaterIn(calls', calls'[i].at, i), ~OverIn(calls', calls'[i].at, i)
                 PROVE  calls'[i].at \in DOMAIN nodes' /\ nodes'[calls'[i].at] = Leaf(i)
    BY DEF SetHeld
  <2>2. i \in DOMAIN calls
    BY <1>1, <1>2, <2>1
  <2> DEFINE p == calls[i].at
  <2>3. calls'[i] = calls[i] /\ p \in Paths \ {Root} /\ i \in 0 .. Len(calls)
    <3>1. calls[i] \in CallType
      BY <1>2, <2>2 DEF TreeInv, TreeTypes
    <3> QED BY <1>2, <2>2, <3>1 DEF CallType
  <2>4. ~LaterIn(calls, p, i) /\ ~Over(c, p) /\ ~OverIn(calls, p, i)
    BY <1>2, <2>1, <2>3
  <2>5. p \in DOMAIN nodes /\ nodes[p] = Leaf(i)
    BY <2>1, <2>2, <2>3, <2>4 DEF TreeInv, SetHeld
  <2>6. p = at => full
    BY <2>5 DEF Leaf
  <2> HIDE DEF p
  <2>7. ~IsPrefix(el, p) /\ p # el
    BY <1>6, <1>7, <2>3, <2>4
  <2>8. p \in DOMAIN nodes' /\ nodes'[p] = nodes[p]
    <3>1. CASE full
      BY <1>3, <2>3, <2>5, <3>1
    <3>2. CASE ~full
      BY <1>3, <2>3, <2>5, <2>6, <2>7, <3>2
    <3> QED BY <3>1, <3>2
  <2> QED BY <2>3, <2>5, <2>8 DEF p
<1>12. PushesHeld'
  <2>1. SUFFICES ASSUME NEW p \in Paths \ {Root}, ~HandIn(calls', p)
                 PROVE  /\ p \in DOMAIN nodes' <=> PushesIn(calls', p) # {}
                        /\ PushesIn(calls', p) # {} => Elements(nodes', calls', p)
    BY DEF PushesHeld
  <2>2. ~HandIn(calls, p) /\ ~IsStrictPrefix(p, at) /\ ~Over(c, p)
    BY <1>1, <1>2, <2>1 DEF ByHand
  <2>3. /\ p \in DOMAIN nodes <=> PushesIn(calls, p) # {}
        /\ PushesIn(calls, p) # {} => Elements(nodes, calls, p)
    BY <2>2 DEF TreeInv, PushesHeld
  <2> DEFINE P == PushesIn(calls, p)
             Q == PushesIn(calls', p)
  <2>4. /\ Cardinality(P) \in Nat
        /\ p = at => /\ Q = P \cup {n} /\ n \notin P
                     /\ Cardinality(Q) = Cardinality(P) + 1
                     /\ BeforeIn(calls', p, n) = Cardinality(P)
        /\ p # at => Q = P
        /\ Q # {} => \A i \in P : BeforeIn(calls', p, i) = BeforeIn(calls, p, i)
    BY <1>1, PushesGrow DEF TreeInv
  <2>5. ~IsPrefix(el, p) /\ p # el
    BY <1>6, <1>7, <2>2
  <2> HIDE DEF P, Q
  <2>6. CASE p # at
    <3>1. ~IsPrefix(p, at)
      BY <2>2, <2>6 DEF IsStrictPrefix
    <3>2. p \in DOMAIN nodes' <=> p \in DOMAIN nodes
      <4>1. CASE full
        BY <1>3, <3>1, <4>1
      <4>2. CASE ~full
        BY <1>3, <2>5, <3>1, <4>2
      <4> QED BY <4>1, <4>2
    <3>3. ASSUME NEW k \in Strings
          PROVE  /\ Append(p, k) \in DOMAIN nodes' <=> Append(p, k) \in DOMAIN nodes
                 /\ Append(p, k) \in DOMAIN nodes => nodes'[Append(p, k)] = nodes[Append(p, k)]
      <4> DEFINE q == Append(p, k)
      <4>1. /\ q \in Paths /\ IsPrefix(p, q) /\ Front(q) = p
            /\ IsPrefix(el, q) <=> IsPrefix(el, p) \/ el = q
        BY <1>7, PrefixAppend DEF Paths
      <4> HIDE DEF q
      <4>2. ~IsPrefix(q, at) /\ q # at
        BY <1>7, <3>1, <4>1, PrefixLaws DEF Paths
      <4>3. q # el
        BY <1>7, <2>6, <4>1
      <4>4. CASE full
        BY <1>3, <4>1, <4>2, <4>4 DEF q
      <4>5. CASE ~full
        <5>1. q \in DOMAIN nodes' <=> q \in DOMAIN nodes
          BY <1>3, <2>5, <4>1, <4>2, <4>3, <4>5
        <5>2. q \in DOMAIN nodes => nodes'[q] = nodes[q]
          BY <1>3, <4>2, <4>3, <4>5, <5>1
        <5> QED BY <5>1, <5>2 DEF q
      <4> QED BY <4>4, <4>5
    <3>4. ASSUME P # {} PROVE Elements(nodes', calls', p)
      <4>1. nodes'[p] = nodes[p]
        <5>1. p \in DOMAIN nodes /\ p \in DOMAIN nodes'
          BY <2>3, <3>2, <3>4 DEF P
        <5>2. CASE full
          BY <1>3, <5>1, <5>2
        <5>3. CASE ~full
          BY <1>3, <2>5, <2>6, <5>1, <5>3
        <5> QED BY <5>2, <5>3
      <4>2. TreeTypes /\ p \in Paths
        BY DEF TreeInv
      <4>3. /\ PushesIn(calls', p) = PushesIn(calls, p)
            /\ \A i \in PushesIn(calls, p) : BeforeIn(calls', p, i) = BeforeIn(calls, p, i)
        BY <2>4, <2>6, <3>4 DEF P, Q
      <4>4. Elements(nodes, calls, p)
        BY <2>3, <3>4 DEF P
      <4> QED BY <1>3, <3>3, <4>1, <4>2, <4>3, <4>4, StillThere
    <3> QED BY <2>3, <2>4, <2>6, <3>2, <3>4 DEF P, Q
  <2>7. CASE p = at
    <3> DEFINE m == Cardinality(P)
    <3>1. Children(nodes, at) = KeysBelow(m)
      <4>1. CASE P = {}
        <5>1. at \notin DOMAIN nodes
          BY <2>3, <2>7, <4>1 DEF P
        <5>2. Children(nodes, at) = {}
          BY <5>1 DEF Children, TreeInv, TreeTypes, TreeTypeOK
        <5>3. m = 0
          BY <4>1, FS_EmptySet
        <5> QED BY <5>2, <5>3 DEF KeysBelow
      <4>2. CASE P # {}
        BY <2>3, <2>7, <4>2 DEF P, Elements, KeysBelow
      <4> QED BY <4>1, <4>2
    <3>2. key = IndexKey(m) /\ m \in Nat
      BY <2>4, <3>1, CountKeys DEF key
    <3>3. ~full
      <4>1. SUFFICES ASSUME at \in DOMAIN nodes PROVE nodes[at].type = "array"
        OBVIOUS
      <4> QED BY <2>3, <2>7, <4>1 DEF Elements
    <3>4. nodes'[at].type = "array" /\ at \in DOMAIN nodes'
      BY <1>3, <3>3 DEF Array
    <3>5. ASSUME NEW k \in Strings
          PROVE  /\ Append(at, k) \in DOMAIN nodes' <=> Append(at, k) \in DOMAIN nodes \/ k = key
                 /\ Append(at, k) \in DOMAIN nodes /\ k # key
                      => nodes'[Append(at, k)] = nodes[Append(at, k)]
      <4> DEFINE q == Append(at, k)
      <4>1. /\ q \in Paths \ {Root, at} /\ ~IsPrefix(q, at) /\ (q = el <=> k = key)
            /\ IsPrefix(el, q) <=> IsPrefix(el, at) \/ el = q
        BY <1>5, <1>7, PrefixAppend DEF Paths
      <4>2. ~IsPrefix(el, at)
        BY <2>5, <2>7
      <4> HIDE DEF q
      <4>3. q \in DOMAIN nodes' <=> q \in DOMAIN nodes \/ k = key
        BY <1>3, <3>3, <4>1, <4>2
      <4>4. q \in DOMAIN nodes /\ k # key => nodes'[q] = nodes[q]
        BY <1>3, <3>3, <4>1, <4>3
      <4> QED BY <4>3, <4>4 DEF q
    <3>6. Children(nodes', at) = KeysBelow(m + 1)
      <4>1. /\ Children(nodes, at) \subseteq Strings /\ Children(nodes', at) \subseteq Strings
            /\ \A k \in Strings : k \in Children(nodes, at) <=> Append(at, k) \in DOMAIN nodes
            /\ \A k \in Strings : k \in Children(nodes', at) <=> Append(at, k) \in DOMAIN nodes'
        BY <1>3, ChildrenIs DEF TreeInv, TreeTypes
      <4>2. Children(nodes', at) = Children(nodes, at) \cup {key}
        BY <1>4, <3>5, <4>1
      <4>3. KeysBelow(m + 1) = KeysBelow(m) \cup {IndexKey(m)}
        <5>1. 0 .. (m + 1) - 1 = (0 .. m - 1) \cup {m}
          BY <3>2
        <5> QED BY <5>1 DEF KeysBelow
      <4> QED BY <3>1, <3>2, <4>2, <4>3
    <3>7. ASSUME NEW i \in Q
          PROVE  nodes'[Append(at, IndexKey(BeforeIn(calls', p, i)))] = Leaf(i)
      <4>1. CASE i = n
        BY <1>3, <2>4, <2>7, <3>2, <3>3, <4>1 DEF el
      <4>2. CASE i \in P
        <5> DEFINE j == BeforeIn(calls, p, i)
                   k == IndexKey(j)
        <5>1. j \in 0 .. m - 1
          BY <4>2, BeforeIs DEF P, TreeInv
        <5>2. k \in Children(nodes, at) /\ k # key
          BY <3>1, <3>2, <5>1, IndexKeyOnce DEF KeysBelow
        <5>3. k \in Strings /\ Append(at, k) \in DOMAIN nodes
          BY <5>2, ChildrenIs DEF TreeInv, TreeTypes
        <5>4. nodes[Append(at, k)] = Leaf(i)
          BY <2>3, <2>7, <4>2 DEF P, Elements
        <5>5. BeforeIn(calls', p, i) = j
          BY <2>4, <4>2
        <5>6. IndexKey(BeforeIn(calls', p, i)) = k
          BY <5>5
        <5> HIDE DEF k
        <5> QED BY <3>5, <5>2, <5>3, <5>4, <5>6
      <4> QED BY <2>4, <2>7, <4>1, <4>2
    <3>8. Cardinality(Q) = m + 1 /\ Q # {}
      BY <2>4, <2>7
    <3>9. Elements(nodes', calls', p)
      <4>1. Children(nodes', p) = {IndexKey(j) : j \in 0 .. Cardinality(Q) - 1}
        BY <2>7, <3>6, <3>8 DEF KeysBelow
      <4> QED BY <2>7, <3>4, <3>7, <4>1 DEF Elements, Q
    <3> QED BY <2>7, <3>4, <3>8, <3>9 DEF Q
  <2> QED BY <2>6, <2>7
<1> QED BY <1>9, <1>10, <1>11, <1>12 DEF TreeInv

LEMMA TreeStep == TreeInv /\ [TreeNext]_treeVars => TreeInv'
<1> SUFFICES ASSUME TreeInv, [TreeNext]_treeVars PROVE TreeInv'
  OBVIOUS
<1>1. ASSUME NEW at \in Paths \ {Root}, Len(calls) < MaxCalls, Recording("set", at),
             nodes' = Placed(Opened(nodes, Front(at)), at, Leaf(Value))
      PROVE  TreeInv'
  <2> DEFINE n == Len(calls) + 1
  <2>1. n = Value /\ n \in Nat /\ TreeTypes
    BY DEF Value, TreeInv, TreeTypes
  <2>2. PICK v : v = Value
    OBVIOUS
  <2>3. LeftBySet(at, v)
    BY <1>1, <2>1, <2>2, AfterSet
  <2>4. calls' = Append(calls, [op |-> "set", at |-> at])
    BY <1>1 DEF Recording
  <2> QED BY <1>1, <2>2, <2>3, <2>4, SetInv
<1>2. ASSUME NEW at \in Paths \ {Root}, Len(calls) < MaxCalls, Recording("push", at),
             nodes' = Added(Opened(nodes, at), at, Value)
      PROVE  TreeInv'
  <2>1. Value \in Nat /\ TreeTypes /\ Few
    BY DEF Value, TreeInv, TreeTypes
  <2>2. PICK v : v = Value
    OBVIOUS
  <2>3. LeftByPush(at, v)
    BY <1>2, <2>1, <2>2, AfterPush
  <2>4. calls' = Append(calls, [op |-> "push", at |-> at])
    BY <1>2 DEF Recording
  <2> QED BY <1>2, <2>2, <2>3, <2>4, PushInv
<1>3. CASE TreeNext
  <2>1. Len(calls) < MaxCalls
    BY <1>3 DEF TreeNext
  <2>2. ASSUME NEW path \in CallPaths, NEW k \in CallKeys,
               nodes' = SetValue(path, k, Value), Recording("set", Append(path, k))
        PROVE  TreeInv'
    <3>1. path \in Paths /\ k \in Strings /\ Append(path, k) \in Paths \ {Root}
      BY PathsAre
    <3>2. Front(Append(path, k)) = path
      BY <3>1, PrefixAppend DEF Paths
    <3> QED BY <1>1, <2>1, <2>2, <3>1, <3>2 DEF SetValue
  <2>3. ASSUME NEW path \in CallPaths, NEW k \in CallKeys,
               nodes' = PushedBack(path, k, Value), Recording("push", Append(path, k))
        PROVE  TreeInv'
    <3>1. Append(path, k) \in Paths \ {Root}
      BY PathsAre
    <3> QED BY <1>2, <2>1, <2>3, <3>1 DEF PushedBack
  <2>4. ASSUME NEW k \in Appended,
               nodes' = Appending(Root, k, Value), Recording("set", <<k>>)
        PROVE  TreeInv'
    <3>1. k \in Strings /\ <<k>> \in Paths \ {Root}
      BY PathsAre
    <3>2. Front(<<k>>) = Root /\ <<k>> = Append(Root, k)
      <4>1. <<k>> = Append(Root, k)
        BY DEF Root
      <4>2. Front(Append(Root, k)) = Root
        BY <3>1, PathsAre, PrefixAppend DEF Paths
      <4> QED BY <4>1, <4>2
    <3>3. Opened(nodes, Root) = nodes
      <4>1. {SubSeq(Root, 1, i) : i \in DOMAIN Root} = {}
        BY DEF Root
      <4> QED BY <4>1 DEF Opened, TreeInv, TreeTypes
    <3> QED BY <1>1, <2>1, <2>4, <3>1, <3>2, <3>3 DEF Appending
  <2> QED BY <1>3, <2>2, <2>3, <2>4 DEF TreeNext
<1>4. CASE UNCHANGED treeVars
  <2>1. nodes' = nodes /\ calls' = calls
    BY <1>4 DEF treeVars
  <2> QED BY <2>1 DEF TreeInv, TreeTypes, TreeTypeOK, Few, SetHeld, PushesHeld
<1> QED BY <1>3, <1>4

LEMMA TreeAlways == TreeSpec => []TreeInv
BY InitTree, TreeStep, PTL DEF TreeSpec

LEMMA ReadsSet == TreeInv => SetIsRead
<1> SUFFICES ASSUME TreeInv, NEW i \in DOMAIN calls, calls[i].op = "set",
                    ~SetLater(calls[i].at, i), ~PushedOver(calls[i].at, i)
             PROVE  Get(Front(calls[i].at), Last(calls[i].at), 0) = i
  BY DEF SetIsRead
<1> DEFINE p == calls[i].at
<1>1. p \in Paths \ {Root}
  <2>1. calls[i] \in CallType
    BY DEF TreeInv, TreeTypes
  <2> QED BY <2>1 DEF CallType
<1>2. ~LaterIn(calls, p, i) /\ ~OverIn(calls, p, i)
  BY DEF SetLater, PushedOver, LaterIn, OverIn, Over
<1>3. p \in DOMAIN nodes /\ nodes[p].v = i
  <2>1. p \in DOMAIN nodes /\ nodes[p] = Leaf(i)
    BY <1>2 DEF TreeInv, SetHeld
  <2>2. Leaf(i).v = i
    BY DEF Leaf
  <2> QED BY <2>1, <2>2
<1> HIDE DEF p
<1>4. Append(Front(p), Last(p)) = p
  BY <1>1, FrontLast DEF Paths, Root
<1>5. Get(Front(p), Last(p), 0) = i
  BY <1>3, <1>4 DEF Get, Find
<1> QED BY <1>5 DEF p

(* One digit: the order of the strings is that of the numbers.             *)
LEMMA DigitsInOrder ==
  ASSUME NEW m \in Nat, m <= Base
  PROVE  /\ \A j \in 0 .. m - 1 : IndexKey(j) = <<j>>
         /\ \A i, j \in 0 .. m - 1 : Less(IndexKey(i), IndexKey(j)) <=> i < j
         /\ \A j \in 0 .. m - 1 :
              {l \in KeysBelow(m) : Less(l, IndexKey(j))} = KeysBelow(j)
<1>1. \A j \in 0 .. m - 1 : IndexKey(j) = <<j>>
  BY TreeAssumption DEF IndexKey
<1>2. ASSUME NEW i \in Nat, NEW j \in Nat PROVE Less(<<i>>, <<j>>) <=> i < j
  <2> DEFINE s == <<i>>
             t == <<j>>
  <2>1. ~IsStrictPrefix(s, t)
    BY DEF IsStrictPrefix, IsPrefix
  <2>2. DOMAIN s = {1} /\ DOMAIN t = {1} /\ s[1] = i /\ t[1] = j
    OBVIOUS
  <2>3. SubSeq(s, 1, 1 - 1) = SubSeq(t, 1, 1 - 1)
    OBVIOUS
  <2> HIDE DEF s, t
  <2>4. Less(s, t) <=> i < j
    BY <2>1, <2>2, <2>3 DEF Less
  <2> QED BY <2>4 DEF s, t
<1>3. \A i, j \in 0 .. m - 1 : Less(IndexKey(i), IndexKey(j)) <=> i < j
  BY <1>1, <1>2
<1>4. ASSUME NEW j \in 0 .. m - 1
      PROVE  {l \in KeysBelow(m) : Less(l, IndexKey(j))} = KeysBelow(j)
  <2>1. \A i \in 0 .. m - 1 : i \in 0 .. j - 1 <=> Less(IndexKey(i), IndexKey(j))
    BY <1>3
  <2>2. \A i \in 0 .. j - 1 : i \in 0 .. m - 1
    OBVIOUS
  <2> QED BY <2>1, <2>2 DEF KeysBelow
<1> QED BY <1>1, <1>3, <1>4

LEMMA ReadsPushed == TreeInv => PushedIsRead
<1> SUFFICES ASSUME TreeInv, NEW path \in CallPaths, NEW k \in CallKeys,
                    Pushes(Append(path, k)) # {}, ~HandMade(Append(path, k))
             PROVE  LET p == Append(path, k)
                        n == Cardinality(Pushes(p))
                    IN /\ ArraySize(p) = n
                       /\ \A i \in Pushes(p) : At(path, k, PushesBefore(p, i)) = i
                       /\ At(path, k, n) = Thrown
                       /\ n <= Base =>
                            /\ Len(GetArray(path, k)) = n
                            /\ \A i \in Pushes(p) :
                                 GetArray(path, k)[PushesBefore(p, i) + 1] = i
  BY DEF PushedIsRead
<1> DEFINE p == Append(path, k)
           P == Pushes(p)
           n == Cardinality(P)
<1>1. p \in Paths \ {Root}
  BY PathsAre
<1>2. P = PushesIn(calls, p) /\ \A i : PushesBefore(p, i) = BeforeIn(calls, p, i)
  BY DEF Pushes, PushesBefore, PushesIn, BeforeIn, Onto, SetLater, LaterIn
<1>3. ~HandIn(calls, p)
  BY DEF HandMade, HandIn, PushedOver, OverIn, Over, ByHand
<1>4. p \in DOMAIN nodes /\ Elements(nodes, calls, p)
  BY <1>1, <1>2, <1>3 DEF TreeInv, PushesHeld
<1>5. /\ n \in Nat
      /\ \A i \in P : PushesBefore(p, i) \in 0 .. n - 1
  BY <1>2, BeforeIs DEF TreeInv
<1>6. /\ nodes[p].type = "array" /\ Children(nodes, p) = KeysBelow(n)
      /\ \A i \in P : nodes[Append(p, IndexKey(PushesBefore(p, i)))] = Leaf(i)
  BY <1>2, <1>4 DEF Elements, KeysBelow
<1> HIDE DEF p, P, n
<1>7. IsArray(p) /\ Cardinality(Children(nodes, p)) = n
  BY <1>4, <1>5, <1>6, CountKeys DEF IsArray, Find
<1>8. \A j \in 0 .. n - 1 : Append(p, IndexKey(j)) \in DOMAIN nodes
  <2>1. \A j \in 0 .. n - 1 : IndexKey(j) \in Children(nodes, p)
    BY <1>6 DEF KeysBelow
  <2> QED BY <1>1, <2>1, ChildrenIs DEF TreeInv, TreeTypes
<1>9. ArraySize(p) = n
  BY <1>7 DEF ArraySize
<1>10. ASSUME NEW i \in P PROVE At(path, k, PushesBefore(p, i)) = i
  <2>1. Append(p, IndexKey(PushesBefore(p, i))) \in DOMAIN nodes
    BY <1>5, <1>8
  <2>2. nodes[Append(p, IndexKey(PushesBefore(p, i)))] = Leaf(i) /\ Leaf(i).v = i
    BY <1>6 DEF Leaf
  <2> HIDE DEF p
  <2>3. At(path, k, PushesBefore(p, i)) = nodes[Append(p, IndexKey(PushesBefore(p, i)))].v
    BY <1>7, <2>1 DEF At, Find, p
  <2> QED BY <2>2, <2>3
<1>11. At(path, k, n) = Thrown
  <2>1. IndexKey(n) \notin Children(nodes, p)
    BY <1>5, <1>6, IndexKeyOnce DEF KeysBelow
  <2>2. Append(p, IndexKey(n)) \notin DOMAIN nodes
    BY <1>1, <1>5, <2>1, PathsAre, ChildrenIs DEF TreeInv, TreeTypes
  <2> QED BY <2>2 DEF At, Find, p
<1>12. ASSUME n <= Base
       PROVE  /\ Len(GetArray(path, k)) = n
              /\ \A i \in P : GetArray(path, k)[PushesBefore(p, i) + 1] = i
  <2> DEFINE keys == Children(nodes, p)
             Nth(j) == CHOOSE l \in keys : Cardinality({m \in keys : Less(m, l)}) = j - 1
  <2>1. GetArray(path, k) = [j \in 1 .. n |-> nodes[Append(p, Nth(j))].v]
    BY <1>7 DEF GetArray, p
  <2>2. ASSUME NEW j \in 1 .. n PROVE Nth(j) = IndexKey(j - 1)
    <3>1. ASSUME NEW m \in 0 .. n - 1
          PROVE  Cardinality({l \in keys : Less(l, IndexKey(m))}) = m
      <4>1. {l \in KeysBelow(n) : Less(l, IndexKey(m))} = KeysBelow(m)
        BY <1>5, <1>12, DigitsInOrder
      <4>2. Cardinality(KeysBelow(m)) = m
        BY <1>5, CountKeys
      <4> QED BY <1>6, <4>1, <4>2
    <3>2. \A l \in keys : \E m \in 0 .. n - 1 : l = IndexKey(m)
      BY <1>6 DEF KeysBelow
    <3>3. j - 1 \in 0 .. n - 1 /\ IndexKey(j - 1) \in keys
      BY <1>5, <1>6 DEF KeysBelow
    <3> HIDE DEF keys
    <3>4. \A l \in keys : Cardinality({m \in keys : Less(m, l)}) = j - 1 <=> l = IndexKey(j - 1)
      BY <3>1, <3>2, <3>3
    <3> QED BY <3>3, <3>4
  <2> HIDE DEF Nth, keys
  <2>3. Len(GetArray(path, k)) = n
    BY <1>5, <2>1
  <2>4. ASSUME NEW i \in P PROVE GetArray(path, k)[PushesBefore(p, i) + 1] = i
    <3> DEFINE j == PushesBefore(p, i)
    <3>1. j \in 0 .. n - 1 /\ j + 1 \in 1 .. n /\ (j + 1) - 1 = j
      BY <1>5
    <3>2. Nth(j + 1) = IndexKey(j)
      BY <2>2, <3>1
    <3>3. nodes[Append(p, IndexKey(j))].v = i
      <4>1. nodes[Append(p, IndexKey(j))] = Leaf(i) /\ Leaf(i).v = i
        BY <1>6 DEF Leaf
      <4> QED BY <4>1
    <3> QED BY <2>1, <3>1, <3>2, <3>3
  <2> QED BY <2>3, <2>4
<1> QED BY <1>9, <1>10, <1>11, <1>12 DEF p, P, n

(* A tree's parents are there: a node is reached from the root.            *)
THEOREM TreeTypeCorrect == TreeSpec => []TreeTypeOK
<1>1. TreeInv => TreeTypeOK
  BY DEF TreeInv, TreeTypes
<1> QED BY <1>1, TreeAlways, PTL

(* What was set is read, and what was pushed, as the value, by index and as*)
(* an array (MyPropertyTree's set, push_back, append and its reads).       *)
THEOREM AlwaysTreeRemembers == TreeSpec => []TreeRemembers
<1>1. TreeInv => TreeRemembers
  BY ReadsSet, ReadsPushed DEF TreeRemembers
<1> QED BY <1>1, TreeAlways, PTL
-----------------------------------------------------------------------------
(* The parser: the model's operators, with the document as an argument.    *)
Spots == Seq(Nat \ {0})

NameIn(d, e) == <<Base + (IF d.alike THEN 0 ELSE Last(e))>>
PathIn(d, e) == [i \in DOMAIN e |-> NameIn(d, SubSeq(e, 1, i))]
After(e) == Append(Front(e), Last(e) + 1)
NextIn(d, e) == IF After(e) \in DOMAIN d.kind THEN After(e) ELSE NoPlace
ReplacedIn(d, x) ==
  \E e \in DOMAIN d.kind : Before(x, e) /\ IsPrefix(PathIn(d, e), PathIn(d, x))
LosesIn(d, x, e) ==
  /\ Before(x, e)
  /\ CASE d.kind[x] = "other" -> TRUE
       [] d.kind[x] = "element" -> FALSE
       [] d.kind[x] = "empty" ->
            Len(x) = 1 \/ IsPrefix(Front(x), e) \/ NextIn(d, Front(x)) = NoPlace
       [] d.kind[x] = "text" ->
            \/ IsStrictPrefix(x, e)
            \/ Len(x) > 1 /\ NextIn(d, x) = NoPlace /\ NextIn(d, Front(x)) = NoPlace

(* Where the pass is, what was filed before it, and what is still to come. *)
AtPlace ==
  /\ doc = NoDocument \/ doc \in Documents
  /\ doc = NoDocument => place = NoPlace /\ filed = <<>>
  /\ place # NoPlace => /\ place \in DOMAIN doc.kind
                        /\ parent \in DOMAIN nodes /\ parent = PathIn(doc, Front(place))
  /\ DOMAIN nodes \subseteq Paths /\ TreeTypeOK
  /\ filed \in Seq(DOMAIN doc.kind)
  /\ \A i \in DOMAIN filed : doc.kind[filed[i]] = "text"

Behind == place # NoPlace => \A i \in DOMAIN filed : Before(filed[i], place)

Found ==
  \A i \in DOMAIN filed :
    LET p == PathIn(doc, filed[i])
    IN (p \in DOMAIN nodes /\ nodes[p] = Leaf(i)) \/ ReplacedIn(doc, filed[i])

Accounted(d, fs, x, e) ==
  \/ \E i \in DOMAIN fs : fs[i] = e
  \/ \E y \in DOMAIN d.kind : LosesIn(d, y, e)
  \/ x # NoPlace /\ (e = x \/ Before(x, e))

Ahead ==
  doc \in Documents =>
    \A e \in DOMAIN doc.kind : doc.kind[e] = "text" => Accounted(doc, filed, place, e)

ParseInv == AtPlace /\ Behind /\ Found /\ Ahead

(* The order of a document.                                                *)
LEMMA BeforeMeans ==
  ASSUME NEW x \in Spots, NEW e \in Spots
  PROVE  Before(x, e) <=>
           \/ Len(x) < Len(e) /\ \A j \in 1 .. Len(x) : x[j] = e[j]
           \/ \E i \in 1 .. Len(x) : /\ i <= Len(e) /\ x[i] < e[i]
                                    /\ \A j \in 1 .. i - 1 : x[j] = e[j]
<1>1. /\ Len(x) \in Nat /\ DOMAIN x = 1 .. Len(x)
      /\ Len(e) \in Nat /\ DOMAIN e = 1 .. Len(e)
  BY DEF Spots
<1> DEFINE same == \A j \in 1 .. Len(x) : x[j] = e[j]
<1>2. IsStrictPrefix(x, e) <=> Len(x) < Len(e) /\ same
  <2>1. IsPrefix(x, e) <=> Len(x) <= Len(e) /\ same
    BY SMTT(30), PrefixIs DEF Spots
  <2>2. IsPrefix(x, e) /\ Len(x) = Len(e) => x = e
    BY <1>1, <2>1 DEF Spots
  <2>3. IsStrictPrefix(x, e) <=> IsPrefix(x, e) /\ x # e
    BY DEF IsStrictPrefix
  <2>4. x = e => Len(x) = Len(e)
    OBVIOUS
  <2> HIDE DEF same
  <2>5. Len(x) \in Nat /\ Len(e) \in Nat
    BY <1>1
  <2> QED BY <2>1, <2>2, <2>3, <2>4, <2>5
<1>3. ASSUME NEW i \in 1 .. Len(x), i <= Len(e)
      PROVE  SubSeq(x, 1, i - 1) = SubSeq(e, 1, i - 1) <=> \A j \in 1 .. i - 1 : x[j] = e[j]
  <2> DEFINE a == SubSeq(x, 1, i - 1)
             b == SubSeq(e, 1, i - 1)
  <2>1. /\ a \in Spots /\ b \in Spots /\ Len(a) = i - 1 /\ Len(b) = i - 1
        /\ \A j \in 1 .. i - 1 : a[j] = x[j] /\ b[j] = e[j]
    BY <1>1, <1>3 DEF Spots
  <2> HIDE DEF a, b
  <2>2. a = b <=> \A j \in 1 .. i - 1 : a[j] = b[j]
    BY SMTT(30), <1>1, <1>3, <2>1 DEF Spots
  <2>3. a = b <=> \A j \in 1 .. i - 1 : x[j] = e[j]
    BY <2>1, <2>2
  <2> QED BY <2>3 DEF a, b
<1>4. Before(x, e) <=>
        \/ IsStrictPrefix(x, e)
        \/ \E i \in 1 .. Len(x) : /\ i <= Len(e) /\ x[i] < e[i]
                                 /\ SubSeq(x, 1, i - 1) = SubSeq(e, 1, i - 1)
  <2>1. \A i : i \in DOMAIN x \cap DOMAIN e <=> i \in 1 .. Len(x) /\ i <= Len(e)
    BY <1>1
  <2> QED BY <2>1 DEF Before
<1> QED BY <1>2, <1>3, <1>4

LEMMA BeforeTransitive ==
  ASSUME NEW x \in Spots, NEW y \in Spots, NEW z \in Spots, Before(x, y), Before(y, z)
  PROVE  Before(x, z)
<1>1. /\ Len(x) \in Nat /\ Len(y) \in Nat /\ Len(z) \in Nat
      /\ \A i \in 1 .. Len(x) : x[i] \in Nat
      /\ \A i \in 1 .. Len(y) : y[i] \in Nat
      /\ \A i \in 1 .. Len(z) : z[i] \in Nat
  BY DEF Spots
<1> DEFINE In(s, t) == Len(s) < Len(t) /\ \A j \in 1 .. Len(s) : s[j] = t[j]
           At1(s, t, i) == i <= Len(t) /\ s[i] < t[i] /\ \A j \in 1 .. i - 1 : s[j] = t[j]
<1>2. /\ In(x, y) \/ \E i \in 1 .. Len(x) : At1(x, y, i)
      /\ In(y, z) \/ \E i \in 1 .. Len(y) : At1(y, z, i)
      /\ In(x, z) \/ (\E i \in 1 .. Len(x) : At1(x, z, i)) => Before(x, z)
  BY BeforeMeans
<1>3. CASE In(x, y) /\ In(y, z)
  BY <1>1, <1>2, <1>3
<1>4. ASSUME In(x, y), NEW i \in 1 .. Len(y), At1(y, z, i) PROVE Before(x, z)
  <2>1. CASE i <= Len(x)
    <3>1. At1(x, z, i)
      BY <1>1, <1>4, <2>1
    <3> QED BY <1>1, <1>2, <2>1, <3>1
  <2>2. CASE i > Len(x)
    <3>1. In(x, z)
      BY <1>1, <1>4, <2>2
    <3> QED BY <1>2, <3>1
  <2> QED BY <1>1, <2>1, <2>2
<1>5. ASSUME In(y, z), NEW i \in 1 .. Len(x), At1(x, y, i) PROVE Before(x, z)
  <2>1. At1(x, z, i)
    BY <1>1, <1>5
  <2> QED BY <1>2, <2>1
<1>6. ASSUME NEW i \in 1 .. Len(x), At1(x, y, i), NEW k \in 1 .. Len(y), At1(y, z, k)
      PROVE  Before(x, z)
  <2>1. CASE i <= k
    <3>1. At1(x, z, i)
      BY SMTT(30), <1>1, <1>6, <2>1
    <3> QED BY <1>2, <3>1
  <2>2. CASE i > k
    <3>1. k \in 1 .. Len(x) /\ At1(x, z, k)
      BY <1>1, <1>6, <2>2
    <3> QED BY <1>2, <3>1
  <2> QED BY <1>1, <2>1, <2>2
<1> QED BY <1>2, <1>3, <1>4, <1>5, <1>6

LEMMA SpotsAre ==
  ASSUME NEW d \in Documents
  PROVE  /\ DOMAIN d.kind \subseteq Spots \ {<<>>} /\ NoPlace \notin DOMAIN d.kind
         /\ <<1>> \in DOMAIN d.kind
         /\ \A e \in DOMAIN d.kind :
              /\ d.kind[e] \in {"text", "element", "empty", "other"}
              /\ d.kind[e] = "element" => Append(e, 1) \in DOMAIN d.kind
              /\ \A i \in 1 .. Len(e) - 1 : SubSeq(e, 1, i) \in DOMAIN d.kind
              /\ \A n \in 1 .. Last(e) - 1 : Append(Front(e), n) \in DOMAIN d.kind
         /\ d # NoDocument
<1>1. <<1>> \in DOMAIN d.kind
  BY DocumentAssumption
<1>2. d # NoDocument
  BY <1>1 DEF NoDocument
<1> QED BY <1>1, <1>2, DocumentAssumption DEF Spots

(* The names around a place.                                               *)
LEMMA PathIs ==
  ASSUME NEW d, d \in Documents, NEW e \in Spots
  PROVE  /\ PathIn(d, e) \in Paths
         /\ e = <<>> => PathIn(d, e) = Root
         /\ e # <<>> => /\ NameIn(d, e) \in Strings
                       /\ PathIn(d, e) = Append(PathIn(d, Front(e)), NameIn(d, e))
<1>1. Len(e) \in Nat /\ DOMAIN e = 1 .. Len(e) /\ \A i \in 1 .. Len(e) : e[i] \in Nat \ {0}
  BY DEF Spots
<1>2. ASSUME NEW f \in Spots, f # <<>> PROVE NameIn(d, f) \in Strings
  <2>1. Last(f) \in Nat
    BY <1>2, FrontLast DEF Spots
  <2>2. Base + (IF d.alike THEN 0 ELSE Last(f)) \in Nat
    BY <2>1, TreeAssumption
  <2> QED BY <2>2 DEF NameIn, Strings
<1>3. \A i \in 1 .. Len(e) : SubSeq(e, 1, i) \in Spots /\ SubSeq(e, 1, i) # <<>>
  <2>1. SUFFICES ASSUME NEW i \in 1 .. Len(e)
                 PROVE  SubSeq(e, 1, i) \in Spots /\ SubSeq(e, 1, i) # <<>>
    OBVIOUS
  <2>2. SubSeq(e, 1, i) \in Spots /\ Len(SubSeq(e, 1, i)) = i
    BY <1>1 DEF Spots
  <2> QED BY <2>2
<1>4. PathIn(d, e) \in Paths
  <2>1. \A i \in 1 .. Len(e) : NameIn(d, SubSeq(e, 1, i)) \in Strings
    BY <1>2, <1>3
  <2>2. PathIn(d, e) = [i \in 1 .. Len(e) |-> NameIn(d, SubSeq(e, 1, i))]
    BY <1>1 DEF PathIn
  <2> QED BY <1>1, <2>1, <2>2 DEF Paths
<1>5. CASE e = <<>>
  <2> DEFINE p == PathIn(d, e)
  <2>1. p \in Seq(Strings) /\ DOMAIN p = {}
    BY <1>4, <1>5 DEF Paths, PathIn
  <2> HIDE DEF p
  <2>2. p = <<>>
    BY <2>1
  <2> QED BY <1>4, <1>5, <2>2 DEF p, Root
<1>6. CASE e # <<>>
  <2> DEFINE f == Front(e)
             m == Len(e) - 1
             a == PathIn(d, f)
             b == NameIn(d, e)
             c == PathIn(d, e)
             g == Append(a, b)
  <2>1. /\ f \in Spots /\ Len(f) = m /\ m \in Nat
        /\ \A i \in 1 .. m : f[i] = e[i]
    <3>1. /\ f \in Seq(Nat \ {0}) /\ Len(f) = Len(e) - 1
          /\ \A i \in 1 .. Len(e) - 1 : f[i] = e[i]
      BY <1>6, FrontLast DEF Spots
    <3>2. Len(e) - 1 \in Nat
      BY <1>1, <1>6
    <3> HIDE DEF f
    <3> QED BY <3>1, <3>2 DEF Spots
  <2>2. b \in Strings
    BY <1>2, <1>6
  <2>3. SubSeq(e, 1, Len(e)) = e
    BY <1>1 DEF Spots
  <2>4. \A i \in 1 .. m : SubSeq(e, 1, i) = SubSeq(f, 1, i)
    <3>1. SUFFICES ASSUME NEW i \in 1 .. m PROVE SubSeq(e, 1, i) = SubSeq(f, 1, i)
      OBVIOUS
    <3> DEFINE s == SubSeq(e, 1, i)
               t == SubSeq(f, 1, i)
    <3>2. /\ s \in Spots /\ Len(s) = i /\ \A j \in 1 .. i : s[j] = e[j]
      BY <1>1, <3>1 DEF Spots
    <3> HIDE DEF f
    <3>3. /\ t \in Spots /\ Len(t) = i /\ \A j \in 1 .. i : t[j] = f[j]
      BY <2>1, <3>1 DEF Spots
    <3> HIDE DEF s, t
    <3>4. s = t
      <4>1. \A j \in 1 .. i : s[j] = t[j]
        <5>1. \A j \in 1 .. i : j \in 1 .. m
          BY <2>1, <3>1
        <5> QED BY <2>1, <3>2, <3>3, <5>1
      <4>2. s \in Seq(Nat \ {0}) /\ t \in Seq(Nat \ {0}) /\ Len(s) = i /\ Len(t) = i
        BY <3>2, <3>3 DEF Spots
      <4> QED BY <4>1, <4>2
    <3> QED BY <3>4 DEF s, t
  <2> HIDE DEF f
  <2>5. a = [i \in 1 .. m |-> NameIn(d, SubSeq(f, 1, i))]
    BY <2>1 DEF PathIn, Spots
  <2>6. c = [i \in 1 .. Len(e) |-> NameIn(d, SubSeq(e, 1, i))]
    BY <1>1 DEF PathIn
  <2>7. a \in Seq(Strings) /\ Len(a) = m
    <3>1. \A i \in 1 .. m : NameIn(d, SubSeq(f, 1, i)) \in Strings
      <4>1. \A i \in 1 .. m : i \in 1 .. Len(e)
        BY <1>1
      <4> QED BY <1>2, <1>3, <2>4, <4>1
    <3> HIDE DEF a
    <3> QED BY <2>1, <2>5, <3>1
  <2>8. c \in Seq(Strings) /\ Len(c) = Len(e)
    <3> HIDE DEF c
    <3>1. c \in Seq(Strings)
      BY <1>4 DEF Paths, c
    <3> QED BY <1>1, <2>6, <3>1
  <2>9. \A i \in 1 .. m : c[i] = a[i]
    <3> HIDE DEF a, c
    <3>1. \A i \in 1 .. m : i \in 1 .. Len(e)
      BY <1>1
    <3> QED BY <2>4, <2>5, <2>6, <3>1
  <2>10. c[Len(e)] = b
    <3>1. Len(e) \in 1 .. Len(e)
      BY <1>1, <2>1
    <3> HIDE DEF c
    <3> QED BY <2>3, <2>6, <3>1
  <2> HIDE DEF a, b, c
  <2>11. /\ g \in Seq(Strings) /\ Len(g) = Len(e)
         /\ g[Len(e)] = b /\ \A i \in 1 .. m : g[i] = a[i]
    <3>1. /\ g \in Seq(Strings) /\ Len(g) = Len(a) + 1 /\ g[Len(a) + 1] = b
          /\ \A i \in 1 .. Len(a) : g[i] = a[i]
      BY <2>2, <2>7
    <3>2. Len(a) = m /\ Len(a) + 1 = Len(e)
      BY <1>1, <2>7
    <3> HIDE DEF g
    <3> QED BY <3>1, <3>2
  <2> HIDE DEF g
  <2>12. \A i \in 1 .. Len(e) : c[i] = g[i]
    BY <1>1, <2>1, <2>9, <2>10, <2>11
  <2>13. c = g
    BY <1>1, <2>8, <2>11, <2>12
  <2> QED BY <1>4, <1>6, <2>2, <2>13 DEF a, b, c, f, g
<1> QED BY <1>4, <1>5, <1>6

(* The next place, and what lies behind it.                                *)
LEMMA AfterIs ==
  ASSUME NEW x \in Spots, x # <<>>
  PROVE  /\ After(x) \in Spots /\ After(x) # <<>> /\ Front(After(x)) = Front(x)
         /\ Len(After(x)) = Len(x) /\ After(x)[Len(x)] = x[Len(x)] + 1
         /\ \A i \in 1 .. Len(x) - 1 : After(x)[i] = x[i]
         /\ Before(x, After(x))
<1> DEFINE f == Front(x)
           k == Last(x) + 1
           n == Append(f, k)
<1>1. /\ f \in Spots /\ Len(f) = Len(x) - 1 /\ k \in Nat \ {0} /\ k = x[Len(x)] + 1
      /\ \A i \in 1 .. Len(x) - 1 : f[i] = x[i]
      /\ Len(x) \in Nat \ {0} /\ x[Len(x)] \in Nat
  <2>1. /\ f \in Spots /\ Len(f) = Len(x) - 1 /\ Last(x) \in Nat \ {0}
        /\ \A i \in 1 .. Len(x) - 1 : f[i] = x[i]
    BY FrontLast DEF Spots
  <2>2. Len(x) \in Nat \ {0}
    BY DEF Spots
  <2> QED BY <2>1, <2>2 DEF Last
<1> HIDE DEF f, k
<1>2. n \in Spots /\ n # <<>> /\ Front(n) = f
  BY <1>1, PrefixAppend DEF Spots
<1>3. /\ Len(n) = Len(x) /\ n[Len(x)] = x[Len(x)] + 1
      /\ \A i \in 1 .. Len(x) - 1 : n[i] = x[i]
  BY <1>1 DEF Spots
<1> HIDE DEF n
<1>4. Before(x, n)
  <2>1. \E i \in 1 .. Len(x) : /\ i <= Len(n) /\ x[i] < n[i]
                             /\ \A j \in 1 .. i - 1 : x[j] = n[j]
    <3> WITNESS Len(x) \in 1 .. Len(x)
    <3> QED BY <1>1, <1>3
  <2> QED BY <1>2, <2>1, BeforeMeans
<1> QED BY <1>2, <1>3, <1>4 DEF After, n, f, k

LEMMA SameSequence ==
  ASSUME NEW S, NEW a \in Seq(S), NEW b \in Seq(S), Len(a) = Len(b),
         \A i \in 1 .. Len(a) : a[i] = b[i]
  PROVE  a = b
OBVIOUS

(* Where x and e part, after which x is followed by After(x).              *)
LEMMA PartsAt ==
  ASSUME NEW x \in Spots, NEW e \in Spots, NEW i \in 1 .. Len(x),
         i <= Len(e), x[i] < e[i], \A j \in 1 .. i - 1 : x[j] = e[j]
  PROVE  /\ i < Len(x) => /\ ~IsPrefix(Front(x), e) /\ Before(Front(x), e)
                          /\ Before(After(x), e)
         /\ i = Len(x) => /\ IsPrefix(Front(x), e) /\ Len(x) <= Len(e)
                          /\ e = After(x) \/ Before(After(x), e)
<1> DEFINE f == Front(x)
           n == After(x)
           m == Len(x)
<1>1. /\ m \in Nat \ {0} /\ Len(e) \in Nat
      /\ \A j \in 1 .. m : x[j] \in Nat
      /\ \A j \in 1 .. Len(e) : e[j] \in Nat
  BY DEF Spots
<1>2. x # <<>>
  BY <1>1
<1>3. /\ f \in Spots /\ Len(f) = m - 1 /\ \A j \in 1 .. m - 1 : f[j] = x[j]
  BY <1>2, FrontLast DEF Spots
<1>4. /\ n \in Spots /\ Len(n) = m /\ n[m] = x[m] + 1
      /\ \A j \in 1 .. m - 1 : n[j] = x[j]
  BY <1>2, AfterIs
<1>5. IsPrefix(f, e) <=> Len(f) <= Len(e) /\ \A j \in 1 .. Len(f) : f[j] = e[j]
  <2>1. f \in Seq(Nat \ {0}) /\ e \in Seq(Nat \ {0})
    BY <1>3 DEF Spots
  <2> HIDE DEF f
  <2> QED BY <2>1, PrefixIs
<1>6. /\ (\E j \in 1 .. Len(f) : /\ j <= Len(e) /\ f[j] < e[j]
                                /\ \A k \in 1 .. j - 1 : f[k] = e[k]) => Before(f, e)
      /\ (\E j \in 1 .. Len(n) : /\ j <= Len(e) /\ n[j] < e[j]
                                /\ \A k \in 1 .. j - 1 : n[k] = e[k]) => Before(n, e)
      /\ Len(n) < Len(e) /\ (\A j \in 1 .. Len(n) : n[j] = e[j]) => Before(n, e)
  BY <1>3, <1>4, BeforeMeans
<1> HIDE DEF f, n, m
<1>7. i \in 1 .. m /\ m = Len(x)
  BY DEF m
<1>8. ASSUME i < m PROVE ~IsPrefix(f, e) /\ Before(f, e) /\ Before(n, e)
  <2>1. i \in 1 .. Len(f) /\ f[i] < e[i] /\ \A k \in 1 .. i - 1 : f[k] = e[k]
    BY <1>1, <1>3, <1>7, <1>8
  <2>2. f[i] # e[i]
    BY <1>1, <1>3, <1>7, <1>8, <2>1
  <2>3. ~IsPrefix(f, e) /\ Before(f, e)
    BY <1>5, <1>6, <2>1, <2>2
  <2>4. i \in 1 .. Len(n) /\ n[i] < e[i] /\ \A k \in 1 .. i - 1 : n[k] = e[k]
    BY <1>1, <1>4, <1>7, <1>8
  <2>5. Before(n, e)
    BY <1>6, <2>4
  <2> QED BY <2>3, <2>5
<1>9. ASSUME i = m PROVE IsPrefix(f, e) /\ m <= Len(e) /\ (e = n \/ Before(n, e))
  <2>1. IsPrefix(f, e) /\ m <= Len(e)
    BY <1>1, <1>3, <1>5, <1>7, <1>9
  <2>2. \A k \in 1 .. m - 1 : n[k] = e[k]
    BY <1>1, <1>4, <1>7, <1>9
  <2>3. x[m] \in Nat /\ e[m] \in Nat /\ x[m] < e[m]
    BY <1>1, <1>7, <1>9
  <2>4. CASE e[m] > x[m] + 1
    <3>1. m \in 1 .. Len(n) /\ m <= Len(e) /\ n[m] < e[m]
      BY <1>1, <1>4, <2>1, <2>3, <2>4
    <3> QED BY <1>6, <2>1, <2>2, <3>1
  <2>5. CASE e[m] = x[m] + 1
    <3>1. \A k \in 1 .. m : n[k] = e[k]
      BY <1>1, <1>4, <2>2, <2>3, <2>5
    <3>2. CASE m = Len(e)
      <4>1. /\ n \in Seq(Nat \ {0}) /\ e \in Seq(Nat \ {0}) /\ Len(n) = Len(e)
            /\ \A k \in 1 .. Len(n) : n[k] = e[k]
        BY <1>4, <3>1, <3>2 DEF Spots
      <4>2. n = e
        BY <4>1, SameSequence
      <4> QED BY <2>1, <4>2
    <3>3. CASE m < Len(e)
      BY <1>4, <1>6, <2>1, <3>1, <3>3
    <3> QED BY <1>1, <2>1, <3>2, <3>3
  <2> QED BY <2>3, <2>4, <2>5
<1> QED BY <1>8, <1>9 DEF f, n, m

(* What comes after x, but not below it, comes with the next sibling of x, *)
(* or after the parent.                                                    *)
LEMMA Onward ==
  ASSUME NEW d, d \in Documents, NEW x \in DOMAIN d.kind, NEW e \in DOMAIN d.kind,
         Before(x, e), ~IsPrefix(x, e)
  PROVE  /\ NextIn(d, x) # NoPlace => e = NextIn(d, x) \/ Before(NextIn(d, x), e)
         /\ NextIn(d, x) = NoPlace => /\ Len(x) > 1 /\ ~IsPrefix(Front(x), e)
                                      /\ Before(Front(x), e)
<1> DEFINE n == After(x)
           f == Front(x)
           m == Len(x)
<1>1. /\ x \in Spots /\ e \in Spots /\ x # <<>> /\ e # <<>>
      /\ m \in Nat \ {0} /\ Len(e) \in Nat
  <2>1. x \in Spots /\ e \in Spots /\ x # <<>> /\ e # <<>>
    BY SpotsAre
  <2> QED BY <2>1 DEF Spots
<1>2. PICK i \in 1 .. Len(x) : i <= Len(e) /\ x[i] < e[i] /\ \A j \in 1 .. i - 1 : x[j] = e[j]
  <2>1. IsPrefix(x, e) <=> Len(x) <= Len(e) /\ \A j \in 1 .. Len(x) : x[j] = e[j]
    BY <1>1, PrefixIs DEF Spots
  <2>2. \/ Len(x) < Len(e) /\ \A j \in 1 .. Len(x) : x[j] = e[j]
        \/ \E i \in 1 .. Len(x) : /\ i <= Len(e) /\ x[i] < e[i]
                                 /\ \A j \in 1 .. i - 1 : x[j] = e[j]
    BY <1>1, BeforeMeans
  <2> QED BY <1>1, <2>1, <2>2
<1>3. /\ i < m => ~IsPrefix(f, e) /\ Before(f, e) /\ Before(n, e)
      /\ i = m => e = n \/ Before(n, e)
  BY <1>1, <1>2, PartsAt
<1>4. i = m => n \in DOMAIN d.kind
  <2> SUFFICES ASSUME i = m PROVE n \in DOMAIN d.kind
    OBVIOUS
  <2> DEFINE g == SubSeq(e, 1, m)
  <2>1. /\ g \in Spots /\ Len(g) = m /\ \A j \in 1 .. m : g[j] = e[j]
    BY <1>1, <1>2 DEF Spots
  <2>2. g \in DOMAIN d.kind
    <3>1. CASE m = Len(e)
      <4>1. g = e
        BY <1>1, <3>1 DEF Spots
      <4> QED BY <4>1
    <3>2. CASE m < Len(e)
      <4>1. m \in 1 .. Len(e) - 1
        BY <1>1, <3>2
      <4> QED BY <4>1, SpotsAre
    <3> QED BY <1>1, <1>2, <3>1, <3>2
  <2> HIDE DEF g
  <2>3. /\ Front(g) \in Spots /\ Len(Front(g)) = m - 1
        /\ \A j \in 1 .. m - 1 : Front(g)[j] = g[j]
        /\ g = Append(Front(g), Last(g))
    <3>1. g # <<>>
      BY <1>1, <2>1
    <3> QED BY <2>1, <3>1, FrontLast DEF Spots
  <2>4. /\ f \in Spots /\ Len(f) = m - 1
        /\ \A j \in 1 .. m - 1 : f[j] = x[j]
    BY <1>1, FrontLast DEF Spots
  <2>5. Front(g) = f
    <3> DEFINE h == Front(g)
    <3>1. h \in Seq(Nat \ {0}) /\ Len(h) = m - 1 /\ \A j \in 1 .. m - 1 : h[j] = g[j]
      BY <2>3 DEF Spots
    <3> HIDE DEF h, f
    <3>2. \A j \in 1 .. m - 1 : h[j] = f[j]
      BY <1>1, <1>2, <2>1, <2>4, <3>1
    <3>3. h = f
      <4>1. /\ f \in Seq(Nat \ {0}) /\ Len(h) = Len(f)
            /\ \A j \in 1 .. Len(h) : h[j] = f[j]
        BY <2>4, <3>1, <3>2 DEF Spots
      <4> QED BY <3>1, <4>1
    <3> QED BY <3>3 DEF h
  <2>6. Last(g) = e[m] /\ Last(x) = x[m] /\ e[m] \in Nat /\ x[m] \in Nat
    BY <1>1, <1>2, <2>1 DEF Spots, Last
  <2>7. n = Append(f, x[m] + 1)
    BY <2>6 DEF After
  <2>8. CASE e[m] = x[m] + 1
    BY <2>2, <2>3, <2>5, <2>6, <2>7, <2>8
  <2>9. CASE e[m] > x[m] + 1
    <3>1. x[m] + 1 \in 1 .. Last(g) - 1
      BY <2>6, <2>9
    <3>2. Append(Front(g), x[m] + 1) \in DOMAIN d.kind
      BY <2>2, <3>1, SpotsAre
    <3> QED BY <2>5, <2>7, <3>2
  <2> QED BY <1>2, <2>6, <2>8, <2>9
<1>5. NextIn(d, x) # NoPlace => NextIn(d, x) = n
  BY DEF NextIn
<1>6. NextIn(d, x) = NoPlace => n \notin DOMAIN d.kind
  BY SpotsAre DEF NextIn
<1>7. CASE i = m
  BY <1>3, <1>4, <1>5, <1>6, <1>7
<1>8. CASE i < m
  <2>1. Len(x) > 1
    BY <1>1, <1>2, <1>8
  <2> QED BY <1>3, <1>5, <1>8, <2>1
<1> HIDE DEF n, f
<1> QED BY <1>1, <1>2, <1>7, <1>8

LEMMA FirstIs ==
  ASSUME NEW x \in Spots, NEW e \in Spots
  PROVE  /\ Append(x, 1) \in Spots /\ Append(x, 1) # <<>> /\ Front(Append(x, 1)) = x
         /\ Before(x, Append(x, 1))
         /\ Before(x, e) => e = Append(x, 1) \/ Before(Append(x, 1), e)
<1> DEFINE c == Append(x, 1)
<1>1. c \in Spots /\ c # <<>> /\ Front(c) = x
  BY PrefixAppend DEF Spots
<1>2. /\ Len(c) = Len(x) + 1 /\ Len(x) \in Nat /\ Len(e) \in Nat
      /\ c[Len(x) + 1] = 1 /\ \A i \in 1 .. Len(x) : c[i] = x[i]
      /\ \A i \in 1 .. Len(e) : e[i] \in Nat \ {0}
  BY DEF Spots
<1> HIDE DEF c
<1>3. Before(x, c)
  BY <1>1, <1>2, BeforeMeans
<1>4. /\ (\E j \in 1 .. Len(c) : /\ j <= Len(e) /\ c[j] < e[j]
                                /\ \A k \in 1 .. j - 1 : c[k] = e[k]) => Before(c, e)
      /\ Len(c) < Len(e) /\ (\A j \in 1 .. Len(c) : c[j] = e[j]) => Before(c, e)
  BY <1>1, BeforeMeans
<1>5. ASSUME Len(x) < Len(e), \A j \in 1 .. Len(x) : x[j] = e[j]
      PROVE  e = c \/ Before(c, e)
  <2> DEFINE m == Len(x) + 1
  <2>1. m \in 1 .. Len(c) /\ m <= Len(e) /\ e[m] \in Nat \ {0} /\ c[m] = 1
        /\ \A k \in 1 .. m - 1 : c[k] = e[k]
    BY <1>2, <1>5
  <2> HIDE DEF m
  <2>2. CASE e[m] > 1
    BY <1>4, <2>1, <2>2
  <2>3. CASE e[m] = 1
    <3>1. Len(c) <= Len(e) /\ \A k \in 1 .. Len(c) : c[k] = e[k]
      <4>1. m = Len(c) /\ m \in Nat
        BY <1>2 DEF m
      <4> QED BY <2>1, <2>3, <4>1
    <3>2. CASE Len(c) = Len(e)
      <4>1. c \in Seq(Nat \ {0}) /\ e \in Seq(Nat \ {0})
        BY <1>1 DEF Spots
      <4> QED BY <3>1, <3>2, <4>1, SameSequence
    <3> QED BY <1>2, <1>4, <3>1, <3>2
  <2> QED BY <2>1, <2>2, <2>3
<1>6. ASSUME NEW i \in 1 .. Len(x), i <= Len(e), x[i] < e[i], \A j \in 1 .. i - 1 : x[j] = e[j]
      PROVE  Before(c, e)
  <2>1. i \in 1 .. Len(c) /\ c[i] < e[i] /\ \A j \in 1 .. i - 1 : c[j] = e[j]
    BY <1>2, <1>6
  <2> QED BY <1>4, <1>6, <2>1
<1>7. Before(x, e) => e = c \/ Before(c, e)
  BY <1>5, <1>6, BeforeMeans
<1> QED BY <1>1, <1>3, <1>7 DEF c

LEMMA FrontThere ==
  ASSUME NEW d, d \in Documents, NEW x \in DOMAIN d.kind, Len(x) > 1
  PROVE  Front(x) \in DOMAIN d.kind
<1>1. x \in Spots
  BY SpotsAre
<1>2. Len(x) - 1 \in 1 .. Len(x) - 1
  BY <1>1 DEF Spots
<1>3. SubSeq(x, 1, Len(x) - 1) \in DOMAIN d.kind
  BY <1>2, SpotsAre
<1> QED BY <1>3 DEF Front

LEMMA PastParent ==
  ASSUME NEW x \in Spots, NEW e \in Spots, Before(x, e), x # <<>>, ~IsPrefix(Front(x), e)
  PROVE  Before(Front(x), e)
<1>1. Len(x) \in Nat /\ Len(e) \in Nat
  BY DEF Spots
<1>2. CASE Len(x) < Len(e) /\ \A j \in 1 .. Len(x) : x[j] = e[j]
  <2> DEFINE f == Front(x)
  <2>1. f \in Seq(Nat \ {0}) /\ Len(f) = Len(x) - 1 /\ \A j \in 1 .. Len(x) - 1 : f[j] = x[j]
    BY FrontLast DEF Spots
  <2>2. e \in Seq(Nat \ {0})
    BY DEF Spots
  <2> HIDE DEF f
  <2>3. IsPrefix(f, e) <=> Len(f) <= Len(e) /\ \A j \in 1 .. Len(f) : f[j] = e[j]
    BY <2>1, <2>2, PrefixIs
  <2>4. Len(f) <= Len(e) /\ \A j \in 1 .. Len(f) : f[j] = e[j]
    BY <1>1, <1>2, <2>1
  <2>5. IsPrefix(f, e)
    BY <2>3, <2>4
  <2> QED BY <2>5 DEF f
<1>3. ASSUME NEW i \in 1 .. Len(x), i <= Len(e), x[i] < e[i], \A j \in 1 .. i - 1 : x[j] = e[j]
      PROVE  Before(Front(x), e)
  <2>1. i < Len(x) => Before(Front(x), e)
    BY <1>3, PartsAt
  <2>2. i = Len(x) => IsPrefix(Front(x), e)
    BY <1>3, PartsAt
  <2> QED BY <1>1, <2>1, <2>2
<1> QED BY <1>2, <1>3, BeforeMeans

(* Where visit() goes from x: to the next sibling, or past the parent.     *)
UpIn(d, x) == IF Len(x) = 1 THEN NoPlace ELSE NextIn(d, Front(x))
OnIn(d, x) == IF NextIn(d, x) # NoPlace THEN NextIn(d, x) ELSE UpIn(d, x)

LEMMA Going ==
  ASSUME NEW d, d \in Documents, NEW x \in DOMAIN d.kind, NEW y \in {UpIn(d, x), OnIn(d, x)},
         y # NoPlace
  PROVE  /\ y \in DOMAIN d.kind /\ Before(x, y)
         /\ y = NextIn(d, x) => Front(y) = Front(x)
         /\ y # NextIn(d, x) \/ y = UpIn(d, x) =>
              Front(x) # <<>> /\ Front(y) = Front(Front(x))
<1> DEFINE f == Front(x)
<1>1. /\ x \in Spots /\ x # <<>> /\ Len(x) \in Nat \ {0}
      /\ \A i \in 1 .. Len(x) : x[i] \in Nat
  <2>1. x \in Spots /\ x # <<>>
    BY SpotsAre
  <2> QED BY <2>1 DEF Spots
<1>2. f \in Spots /\ Len(f) = Len(x) - 1 /\ \A i \in 1 .. Len(x) - 1 : f[i] = x[i]
  BY <1>1, FrontLast DEF Spots
<1>3. CASE y = NextIn(d, x) /\ y # UpIn(d, x)
  <2>1. y = After(x) /\ After(x) \in DOMAIN d.kind
    BY <1>3 DEF NextIn
  <2> QED BY <1>1, <1>3, <2>1, AfterIs
<1>4. CASE y = UpIn(d, x)
  <2> HIDE DEF f
  <2>1. Len(x) # 1 /\ y = NextIn(d, f)
    BY <1>4 DEF UpIn, f
  <2>2. y = After(f) /\ After(f) \in DOMAIN d.kind
    BY <2>1 DEF NextIn
  <2>3. Len(f) \in Nat /\ Len(f) >= 1
    BY <1>1, <1>2, <2>1
  <2>4. f # <<>>
    BY <2>3
  <2>5. /\ y \in Spots /\ Front(y) = Front(f) /\ Len(y) = Len(f)
        /\ y[Len(f)] = f[Len(f)] + 1
        /\ \A i \in 1 .. Len(f) - 1 : y[i] = f[i]
    BY <1>2, <2>2, <2>4, AfterIs
  <2>6. Before(x, y)
    <3>1. /\ Len(f) \in 1 .. Len(x) /\ Len(f) <= Len(y) /\ x[Len(f)] < y[Len(f)]
          /\ \A j \in 1 .. Len(f) - 1 : x[j] = y[j]
      <4> DEFINE n == Len(x)
                 m == Len(f)
      <4>1. n \in Nat /\ m \in Nat /\ m >= 1 /\ n = m + 1 /\ Len(y) = m
        BY <1>1, <1>2, <2>3, <2>5
      <4>2. x[m] \in Nat /\ f[m] = x[m] /\ y[m] = f[m] + 1
        BY <1>1, <1>2, <2>5, <4>1
      <4>3. \A j \in 1 .. m - 1 : f[j] = x[j] /\ y[j] = f[j]
        BY <1>2, <2>5, <4>1
      <4> HIDE DEF n, m
      <4>4. m \in 1 .. n /\ m <= Len(y) /\ x[m] < y[m] /\ \A j \in 1 .. m - 1 : x[j] = y[j]
        BY <4>1, <4>2, <4>3
      <4> QED BY <4>4 DEF n, m
    <3> QED BY <1>1, <2>5, <3>1, BeforeMeans
  <2>7. y # NextIn(d, x)
    <3>1. y = NextIn(d, x) => Len(y) = Len(x)
      BY <1>1, AfterIs DEF NextIn
    <3> QED BY <1>1, <1>2, <2>3, <2>5, <3>1
  <2> QED BY <2>2, <2>4, <2>5, <2>6, <2>7 DEF f
<1> QED BY <1>3, <1>4 DEF OnIn

(* The tree stays a tree when a child of one of its nodes is placed.       *)
LEMMA PlacedChild ==
  ASSUME DOMAIN nodes \subseteq Paths, TreeTypeOK, NEW p \in DOMAIN nodes, NEW k \in Strings,
         NEW node, node.type \in {"leaf", "trunk", "array"},
         nodes' = Placed(nodes, Append(p, k), node)
  PROVE  /\ DOMAIN nodes' \subseteq Paths /\ TreeTypeOK'
         /\ Append(p, k) \in DOMAIN nodes' /\ nodes'[Append(p, k)] = node
         /\ p \in DOMAIN nodes' /\ (p # Root => Front(p) \in DOMAIN nodes')
         /\ \A q \in DOMAIN nodes : \/ IsPrefix(Append(p, k), q)
                                    \/ q \in DOMAIN nodes' /\ nodes'[q] = nodes[q]
<1> DEFINE at == Append(p, k)
<1>1. p \in Paths /\ at \in Paths /\ at # Root /\ at # p /\ Front(at) = p /\ ~IsPrefix(at, p)
  BY PrefixAppend DEF Paths, Root
<1> HIDE DEF at
<1>2. nodes' = Placed(nodes, at, node)
  BY DEF at
<1>3. /\ DOMAIN nodes' \subseteq Paths
      /\ at \in DOMAIN nodes' /\ nodes'[at] = node
      /\ \A q \in Paths \ {at} : q \in DOMAIN nodes' <=> q \in DOMAIN nodes /\ ~IsPrefix(at, q)
      /\ \A q \in DOMAIN nodes' \ {at} : nodes'[q] = nodes[q]
  BY <1>1, <1>2, PlacedIs
<1>4. IsPrefix(at, at) /\ ~IsPrefix(at, Root)
  BY <1>1, PathsAre, PrefixLaws DEF Paths, Root
<1>5. \A q \in DOMAIN nodes : \/ IsPrefix(at, q)
                              \/ q \in DOMAIN nodes' /\ nodes'[q] = nodes[q]
  BY <1>3, <1>4
<1>6. ASSUME NEW q \in DOMAIN nodes, q # Root, ~IsPrefix(at, q)
      PROVE  Front(q) \in DOMAIN nodes'
  <2>1. Front(q) \in DOMAIN nodes
    BY <1>6 DEF TreeTypeOK
  <2>2. q \in Paths /\ IsPrefix(Front(q), q)
    <3>1. q \in Paths /\ Front(q) \in Paths /\ Last(q) \in Strings /\ q = Append(Front(q), Last(q))
      BY <1>6, FrontLast DEF Paths, Root
    <3> DEFINE f == Front(q)
               l == Last(q)
    <3>2. f \in Seq(Strings) /\ l \in Strings /\ q = Append(f, l)
      BY <3>1 DEF Paths
    <3> HIDE DEF f, l
    <3>3. IsPrefix(f, Append(f, l))
      BY <3>2, PrefixAppend
    <3> QED BY <3>1, <3>2, <3>3 DEF f
  <2>3. ~IsPrefix(at, Front(q))
    <3> DEFINE f == Front(q)
    <3>1. at \in Seq(Strings) /\ f \in Seq(Strings) /\ q \in Seq(Strings) /\ IsPrefix(f, q)
      BY <1>1, <2>1, <2>2 DEF Paths
    <3> HIDE DEF f
    <3>2. IsPrefix(at, f) /\ IsPrefix(f, q) => IsPrefix(at, q)
      BY <3>1, PrefixLaws
    <3> QED BY <1>6, <3>1, <3>2 DEF f
  <2> QED BY <1>5, <2>1, <2>3
<1>7. p \in DOMAIN nodes' /\ (p # Root => Front(p) \in DOMAIN nodes')
  BY <1>1, <1>5, <1>6
<1>8. TreeTypeOK'
  <2>1. Root \in DOMAIN nodes'
    BY <1>4, <1>5 DEF TreeTypeOK
  <2>2. ASSUME NEW q \in DOMAIN nodes', q # Root
        PROVE  Front(q) \in DOMAIN nodes'
    <3>1. CASE q = at
      BY <1>1, <1>7, <3>1
    <3>2. CASE q # at
      BY <1>3, <1>6, <2>2, <3>2
    <3> QED BY <3>1, <3>2
  <2>3. ASSUME NEW q \in DOMAIN nodes'
        PROVE  nodes'[q].type \in {"leaf", "trunk", "array"}
    <3>1. CASE q = at
      BY <1>3, <3>1
    <3>2. CASE q # at
      BY <1>3, <2>3, <3>2 DEF TreeTypeOK
    <3> QED BY <3>1, <3>2
  <2> QED BY <2>1, <2>2, <2>3 DEF TreeTypeOK
<1> QED BY <1>3, <1>5, <1>7, <1>8 DEF at

LEMMA InitParse == TreeInit /\ ParseInit => ParseInv
<1> SUFFICES ASSUME TreeInit, ParseInit PROVE ParseInv
  OBVIOUS
<1>1. /\ DOMAIN nodes = {Root} /\ nodes[Root] = Trunk
      /\ doc = NoDocument /\ place = NoPlace /\ filed = <<>> /\ DOMAIN filed = {}
  BY DEF TreeInit, ParseInit
<1>2. AtPlace
  <2>1. TreeTypeOK
    BY <1>1 DEF TreeTypeOK, Trunk
  <2>2. DOMAIN nodes \subseteq Paths
    BY <1>1, PathsAre
  <2>3. filed \in Seq(DOMAIN doc.kind)
    BY <1>1
  <2> QED BY <1>1, <2>1, <2>2, <2>3 DEF AtPlace
<1>3. Behind /\ Found
  BY <1>1 DEF Behind, Found
<1>4. Ahead
  BY <1>1, SpotsAre DEF Ahead
<1> QED BY <1>2, <1>3, <1>4 DEF ParseInv

LEMMA AtIt ==
  ASSUME ParseInv, place # NoPlace
  PROVE  /\ doc \in Documents /\ place \in DOMAIN doc.kind
         /\ place \in Spots /\ place # <<>> /\ Front(place) \in Spots
         /\ parent \in DOMAIN nodes /\ parent = PathIn(doc, Front(place))
         /\ Name(place) \in Strings
         /\ Append(parent, Name(place)) = PathIn(doc, place)
<1>1. /\ doc \in Documents /\ place \in DOMAIN doc.kind
      /\ parent \in DOMAIN nodes /\ parent = PathIn(doc, Front(place))
  BY DEF ParseInv, AtPlace
<1>2. place \in Spots /\ place # <<>>
  BY <1>1, SpotsAre
<1>3. Front(place) \in Spots
  BY <1>2, FrontLast DEF Spots
<1>4. Name(place) = NameIn(doc, place)
  BY DEF Name, NameIn
<1>5. /\ NameIn(doc, place) \in Strings
      /\ PathIn(doc, place) = Append(PathIn(doc, Front(place)), NameIn(doc, place))
  BY <1>1, <1>2, PathIs
<1> QED BY <1>1, <1>2, <1>3, <1>4, <1>5

(* What a visit has to leave behind.                                       *)
LEMMA Visited ==
  ASSUME ParseInv, place # NoPlace, doc' = doc,
         place' # NoPlace => /\ place' \in DOMAIN doc.kind /\ Before(place, place')
                             /\ parent' \in DOMAIN nodes'
                             /\ parent' = PathIn(doc, Front(place')),
         DOMAIN nodes' \subseteq Paths, TreeTypeOK',
         \/ filed' = filed
         \/ /\ filed' = Append(filed, place) /\ doc.kind[place] = "text"
            /\ PathIn(doc, place) \in DOMAIN nodes'
            /\ nodes'[PathIn(doc, place)] = Leaf(Len(filed) + 1),
         \A q \in DOMAIN nodes : \/ IsPrefix(PathIn(doc, place), q)
                                 \/ q \in DOMAIN nodes' /\ nodes'[q] = nodes[q],
         \A e \in DOMAIN doc.kind :
           doc.kind[e] = "text" /\ (e = place \/ Before(place, e))
             => Accounted(doc, filed', place', e)
  PROVE  ParseInv'
<1>1. /\ doc \in Documents /\ place \in DOMAIN doc.kind /\ doc # NoDocument
      /\ DOMAIN doc.kind \subseteq Spots
  BY AtIt, SpotsAre
<1>2. filed \in Seq(DOMAIN doc.kind) /\ \A i \in DOMAIN filed : doc.kind[filed[i]] = "text"
  BY DEF ParseInv, AtPlace
<1>3. /\ filed' \in Seq(DOMAIN doc.kind)
      /\ DOMAIN filed \subseteq DOMAIN filed' /\ \A i \in DOMAIN filed : filed'[i] = filed[i]
      /\ \A i \in DOMAIN filed' :
           \/ i \in DOMAIN filed
           \/ /\ i = Len(filed) + 1 /\ filed'[i] = place /\ doc.kind[place] = "text"
              /\ PathIn(doc, place) \in DOMAIN nodes'
              /\ nodes'[PathIn(doc, place)] = Leaf(Len(filed) + 1)
  <2>1. CASE filed' = filed
    BY <1>2, <2>1
  <2>2. CASE /\ filed' = Append(filed, place) /\ doc.kind[place] = "text"
             /\ PathIn(doc, place) \in DOMAIN nodes'
             /\ nodes'[PathIn(doc, place)] = Leaf(Len(filed) + 1)
    <3>1. /\ Len(filed) \in Nat /\ DOMAIN filed = 1 .. Len(filed)
          /\ DOMAIN Append(filed, place) = 1 .. Len(filed) + 1
          /\ Append(filed, place) \in Seq(DOMAIN doc.kind)
          /\ \A i \in 1 .. Len(filed) : Append(filed, place)[i] = filed[i]
          /\ Append(filed, place)[Len(filed) + 1] = place
      BY <1>1, <1>2
    <3>2. \A i \in 1 .. Len(filed) + 1 : i \in 1 .. Len(filed) \/ i = Len(filed) + 1
      BY <3>1
    <3> DEFINE fs == Append(filed, place)
               n == Len(filed)
    <3>3. /\ filed' = fs /\ DOMAIN fs = 1 .. n + 1 /\ DOMAIN filed = 1 .. n
          /\ fs \in Seq(DOMAIN doc.kind) /\ fs[n + 1] = place
          /\ \A i \in 1 .. n : fs[i] = filed[i]
      BY <2>2, <3>1
    <3>4. 1 .. n \subseteq 1 .. n + 1
      BY <3>1
    <3> HIDE DEF fs
    <3>5. \A i \in 1 .. n + 1 :
            \/ i \in 1 .. n
            \/ /\ i = n + 1 /\ filed'[i] = place /\ doc.kind[place] = "text"
               /\ PathIn(doc, place) \in DOMAIN nodes'
               /\ nodes'[PathIn(doc, place)] = Leaf(n + 1)
      BY <2>2, <3>2, <3>3
    <3> QED BY <3>3, <3>4, <3>5
  <2> QED BY <2>1, <2>2
<1>4. AtPlace'
  <2>1. \A i \in DOMAIN filed' : doc.kind[filed'[i]] = "text"
    BY <1>2, <1>3
  <2> QED BY <1>1, <1>3, <2>1 DEF AtPlace
<1>5. Behind'
  <2>1. SUFFICES ASSUME place' # NoPlace, NEW i \in DOMAIN filed'
                 PROVE  Before(filed'[i], place')
    BY DEF Behind
  <2>2. CASE i \in DOMAIN filed
    <3>1. Before(filed[i], place)
      BY <2>2 DEF ParseInv, Behind
    <3>2. filed[i] \in Spots /\ place \in Spots /\ place' \in Spots /\ Before(place, place')
      BY <1>1, <1>2, <2>1, <2>2
    <3> QED BY <1>3, <2>2, <3>1, <3>2, BeforeTransitive
  <2>3. CASE filed'[i] = place
    BY <2>1, <2>3
  <2> QED BY <1>3, <2>2, <2>3
<1>6. Found'
  <2>1. SUFFICES ASSUME NEW i \in DOMAIN filed'
                 PROVE  \/ /\ PathIn(doc, filed'[i]) \in DOMAIN nodes'
                           /\ nodes'[PathIn(doc, filed'[i])] = Leaf(i)
                        \/ ReplacedIn(doc, filed'[i])
    BY DEF Found
  <2>2. CASE i \in DOMAIN filed
    <3> DEFINE p == PathIn(doc, filed[i])
    <3>1. (p \in DOMAIN nodes /\ nodes[p] = Leaf(i)) \/ ReplacedIn(doc, filed[i])
      BY <2>2 DEF ParseInv, Found
    <3>2. filed'[i] = filed[i]
      BY <1>3, <2>2
    <3>3. CASE p \in DOMAIN nodes /\ nodes[p] = Leaf(i) /\ IsPrefix(PathIn(doc, place), p)
      <4>1. Before(filed[i], place)
        BY <2>2 DEF ParseInv, Behind
      <4> QED BY <1>1, <3>2, <3>3, <4>1 DEF ReplacedIn
    <3>4. CASE p \in DOMAIN nodes /\ nodes[p] = Leaf(i) /\ ~IsPrefix(PathIn(doc, place), p)
      BY <3>2, <3>4
    <3> QED BY <3>1, <3>2, <3>3, <3>4
  <2>3. CASE i \notin DOMAIN filed
    BY <1>3, <2>3
  <2> QED BY <2>2, <2>3
<1>7. Ahead'
  <2>1. SUFFICES ASSUME NEW e \in DOMAIN doc.kind, doc.kind[e] = "text"
                 PROVE  Accounted(doc, filed', place', e)
    BY DEF Ahead
  <2>2. Accounted(doc, filed, place, e)
    BY <1>1, <2>1 DEF ParseInv, Ahead
  <2>3. CASE \E i \in DOMAIN filed : filed[i] = e
    BY <1>3, <2>3 DEF Accounted
  <2>4. CASE \E y \in DOMAIN doc.kind : LosesIn(doc, y, e)
    BY <2>4 DEF Accounted
  <2>5. CASE e = place \/ Before(place, e)
    BY <2>1, <2>5
  <2> QED BY <2>2, <2>3, <2>4, <2>5 DEF Accounted
<1> QED BY <1>4, <1>5, <1>6, <1>7 DEF ParseInv

LEMMA GoesUp ==
  ASSUME ParseInv, place # NoPlace, VisitParentsSibling(place)
  PROVE  /\ place' = UpIn(doc, place)
         /\ place' # NoPlace => /\ parent # Root /\ parent' = Front(parent)
                                /\ parent' = PathIn(doc, Front(place'))
<1> DEFINE f == Front(place)
<1>1. /\ doc \in Documents /\ place \in DOMAIN doc.kind
      /\ f \in Spots /\ parent = PathIn(doc, f)
  BY AtIt
<1>2. place' = UpIn(doc, place) /\ (Len(place) # 1 => parent' = Front(parent))
  BY DEF VisitParentsSibling, Visit, NextSibling, UpIn, NextIn, After
<1>3. ASSUME place' # NoPlace
      PROVE  parent # Root /\ parent' = Front(parent) /\ parent' = PathIn(doc, Front(place'))
  <2>1. f # <<>> /\ Front(place') = Front(f)
    BY <1>1, <1>2, <1>3, Going
  <2>2. parent' = Front(parent)
    BY <1>2, <1>3 DEF UpIn
  <2> HIDE DEF f
  <2> DEFINE g == PathIn(doc, Front(f))
             k == NameIn(doc, f)
  <2>3. Front(f) \in Spots
    BY <1>1, <2>1, FrontLast DEF Spots
  <2>4. parent = Append(g, k) /\ g \in Paths /\ k \in Strings
    BY <1>1, <2>1, <2>3, PathIs
  <2>5. PathIn(doc, Front(place')) = g
    BY <2>1
  <2> HIDE DEF g, k
  <2>6. Front(Append(g, k)) = g /\ Append(g, k) # <<>>
    BY <2>4, PrefixAppend DEF Paths
  <2> QED BY <2>2, <2>4, <2>5, <2>6 DEF Root
<1> QED BY <1>2, <1>3


LEMMA TextFiled == ParseInv /\ VisitText => ParseInv'
<1> SUFFICES ASSUME ParseInv, VisitText PROVE ParseInv'
  OBVIOUS
<1> DEFINE x == place
           k == Len(filed) + 1
           at == Append(parent, Name(place))
<1>1. /\ place # NoPlace /\ doc.kind[x] = "text" /\ doc' = doc
      /\ filed' = Append(filed, x) /\ nodes' = Placed(nodes, at, Leaf(k))
      /\ \/ /\ NextIn(doc, x) # NoPlace /\ place' = NextIn(doc, x) /\ parent' = parent
         \/ /\ NextIn(doc, x) = NoPlace /\ VisitParentsSibling(place)
  BY DEF VisitText, Visiting, Visit, NextSibling, NextIn, After
<1>2. /\ doc \in Documents /\ x \in DOMAIN doc.kind /\ x \in Spots /\ x # <<>>
      /\ Front(x) \in Spots
      /\ parent \in DOMAIN nodes /\ parent = PathIn(doc, Front(x))
      /\ Name(x) \in Strings /\ at = PathIn(doc, x)
  BY <1>1, AtIt
<1>3. /\ DOMAIN nodes' \subseteq Paths /\ TreeTypeOK'
      /\ at \in DOMAIN nodes' /\ nodes'[at] = Leaf(k)
      /\ parent \in DOMAIN nodes' /\ (parent # Root => Front(parent) \in DOMAIN nodes')
      /\ \A q \in DOMAIN nodes : IsPrefix(at, q) \/ (q \in DOMAIN nodes' /\ nodes'[q] = nodes[q])
  <2>1. DOMAIN nodes \subseteq Paths /\ TreeTypeOK
    BY DEF ParseInv, AtPlace
  <2>2. Leaf(k).type \in {"leaf", "trunk", "array"}
    BY DEF Leaf
  <2> DEFINE node == Leaf(k)
  <2>3. nodes' = Placed(nodes, Append(parent, Name(place)), node)
    BY <1>1
  <2>4. node.type \in {"leaf", "trunk", "array"}
    BY <2>2
  <2> HIDE DEF node
  <2>5. /\ DOMAIN nodes' \subseteq Paths /\ TreeTypeOK'
        /\ Append(parent, Name(place)) \in DOMAIN nodes'
        /\ nodes'[Append(parent, Name(place))] = node
        /\ parent \in DOMAIN nodes' /\ (parent # Root => Front(parent) \in DOMAIN nodes')
        /\ \A q \in DOMAIN nodes : \/ IsPrefix(Append(parent, Name(place)), q)
                                   \/ q \in DOMAIN nodes' /\ nodes'[q] = nodes[q]
    <3>1. parent \in DOMAIN nodes /\ Name(place) \in Strings
      BY <1>2
    <3> QED BY <2>1, <2>3, <2>4, <3>1, PlacedChild
  <2> QED BY <2>5 DEF node
<1> HIDE DEF at
<1>4. place' = OnIn(doc, x)
  BY <1>1, GoesUp DEF OnIn
<1>5. ASSUME place' # NoPlace
      PROVE  /\ place' \in DOMAIN doc.kind /\ Before(place, place')
             /\ parent' \in DOMAIN nodes' /\ parent' = PathIn(doc, Front(place'))
  <2>1. place' \in DOMAIN doc.kind /\ Before(place, place')
    BY <1>2, <1>4, <1>5, Going
  <2>2. CASE NextIn(doc, x) # NoPlace
    <3>1. place' = NextIn(doc, x) /\ parent' = parent
      BY <1>1, <2>2
    <3>2. Front(place') = Front(x)
      <4>1. place' \in {UpIn(doc, x), OnIn(doc, x)}
        BY <1>4
      <4> HIDE DEF x
      <4>2. \A y \in {UpIn(doc, x), OnIn(doc, x)} :
              y # NoPlace /\ y = NextIn(doc, x) => Front(y) = Front(x)
        BY <1>2, Going
      <4> QED BY <1>5, <3>1, <4>1, <4>2
    <3> QED BY <1>2, <1>3, <2>1, <3>1, <3>2
  <2>3. CASE NextIn(doc, x) = NoPlace
    <3>1. parent # Root /\ parent' = Front(parent) /\ parent' = PathIn(doc, Front(place'))
      BY <1>1, <1>5, <2>3, GoesUp
    <3> QED BY <1>3, <2>1, <3>1
  <2> QED BY <2>2, <2>3
<1>6. ASSUME NEW e \in DOMAIN doc.kind, e = x \/ Before(x, e)
      PROVE  Accounted(doc, filed', place', e)
  <2>1. CASE e = x
    <3>1. filed \in Seq(DOMAIN doc.kind)
      BY DEF ParseInv, AtPlace
    <3>2. k \in DOMAIN filed' /\ filed'[k] = x
      BY <1>1, <1>2, <3>1
    <3> QED BY <2>1, <3>2 DEF Accounted
  <2>2. CASE Before(x, e) /\ IsStrictPrefix(x, e)
    <3>1. LosesIn(doc, x, e)
      BY <1>1, <2>2 DEF LosesIn
    <3> QED BY <1>2, <3>1 DEF Accounted
  <2>3. CASE Before(x, e) /\ ~IsPrefix(x, e)
    <3>1. CASE NextIn(doc, x) # NoPlace
      <4>1. e = NextIn(doc, x) \/ Before(NextIn(doc, x), e)
        BY <1>2, <2>3, <3>1, Onward
      <4>2. place' = NextIn(doc, x)
        BY <1>1, <3>1
      <4> QED BY <3>1, <4>1, <4>2 DEF Accounted
    <3>2. CASE NextIn(doc, x) = NoPlace
      <4>1. Len(x) > 1 /\ ~IsPrefix(Front(x), e) /\ Before(Front(x), e)
        BY <1>2, <2>3, <3>2, Onward
      <4>2. CASE NextIn(doc, Front(x)) = NoPlace
        <5>1. LosesIn(doc, x, e)
          BY <1>1, <2>3, <3>2, <4>1, <4>2 DEF LosesIn
        <5> QED BY <1>2, <5>1 DEF Accounted
      <4>3. CASE NextIn(doc, Front(x)) # NoPlace
        <5>1. Front(x) \in DOMAIN doc.kind
          BY <1>2, <4>1, FrontThere
        <5>2. e = NextIn(doc, Front(x)) \/ Before(NextIn(doc, Front(x)), e)
          BY <1>2, <4>1, <4>3, <5>1, Onward
        <5>3. place' = NextIn(doc, Front(x))
          <6>1. Len(x) # 1
            <7>1. x \in Seq(Nat \ {0})
              BY <1>2 DEF Spots
            <7>2. Len(x) \in Nat /\ Len(x) > 1
              BY <4>1, <7>1
            <7> DEFINE m == Len(x)
            <7>3. m \in Nat /\ m > 1
              BY <7>2
            <7> HIDE DEF m
            <7>4. m # 1
              BY <7>3
            <7> QED BY <7>4 DEF m
          <6> QED BY <1>4, <3>2, <6>1 DEF OnIn, UpIn
        <5> QED BY <4>3, <5>2, <5>3 DEF Accounted
      <4> QED BY <4>2, <4>3
    <3> QED BY <3>1, <3>2
  <2>4. IsPrefix(x, e) /\ x # e => IsStrictPrefix(x, e)
    BY DEF IsStrictPrefix
  <2> QED BY <1>6, <2>1, <2>2, <2>3, <2>4
<1> HIDE DEF x, k
<1>7. ParseInv'
  <2>1. \A q \in DOMAIN nodes : \/ IsPrefix(PathIn(doc, place), q)
                                \/ q \in DOMAIN nodes' /\ nodes'[q] = nodes[q]
    BY <1>2, <1>3 DEF x
  <2>2. /\ filed' = Append(filed, place) /\ doc.kind[place] = "text"
        /\ PathIn(doc, place) \in DOMAIN nodes'
        /\ nodes'[PathIn(doc, place)] = Leaf(Len(filed) + 1)
    BY <1>1, <1>2, <1>3 DEF x, k
  <2>3. \A e \in DOMAIN doc.kind :
          doc.kind[e] = "text" /\ (e = place \/ Before(place, e))
            => Accounted(doc, filed', place', e)
    BY <1>6 DEF x
  <2> QED BY <1>1, <1>3, <1>5, <2>1, <2>2, <2>3, Visited
<1> QED BY <1>7

LEMMA EmptyPassed == ParseInv /\ VisitEmpty => ParseInv'
<1> SUFFICES ASSUME ParseInv, VisitEmpty PROVE ParseInv'
  OBVIOUS
<1>1. /\ place # NoPlace /\ doc.kind[place] = "empty" /\ doc' = doc
      /\ filed' = filed /\ nodes' = nodes /\ VisitParentsSibling(place)
  BY DEF VisitEmpty, Visiting
<1>2. /\ doc \in Documents /\ place \in DOMAIN doc.kind /\ place \in Spots /\ place # <<>>
      /\ Front(place) \in Spots /\ parent \in DOMAIN nodes
  BY <1>1, AtIt
<1>3. DOMAIN nodes \subseteq Paths /\ TreeTypeOK
  BY DEF ParseInv, AtPlace
<1>4. DOMAIN nodes' \subseteq Paths /\ TreeTypeOK'
  BY <1>1, <1>3 DEF TreeTypeOK
<1>5. place' = UpIn(doc, place)
  BY <1>1, GoesUp
<1>6. ASSUME place' # NoPlace
      PROVE  /\ place' \in DOMAIN doc.kind /\ Before(place, place')
             /\ parent' \in DOMAIN nodes' /\ parent' = PathIn(doc, Front(place'))
  <2>1. place' \in DOMAIN doc.kind /\ Before(place, place')
    BY <1>2, <1>5, <1>6, Going
  <2>2. parent # Root /\ parent' = Front(parent) /\ parent' = PathIn(doc, Front(place'))
    BY <1>1, <1>6, GoesUp
  <2>3. Front(parent) \in DOMAIN nodes
    BY <1>2, <1>3, <2>2 DEF TreeTypeOK
  <2> QED BY <1>1, <2>1, <2>2, <2>3
<1>7. ASSUME NEW e \in DOMAIN doc.kind, doc.kind[e] = "text", e = place \/ Before(place, e)
      PROVE  Accounted(doc, filed', place', e)
  <2>1. Before(place, e) /\ e \in Spots
    BY <1>1, <1>2, <1>7, SpotsAre
  <2>2. CASE Len(place) = 1 \/ IsPrefix(Front(place), e) \/ NextIn(doc, Front(place)) = NoPlace
    <3>1. LosesIn(doc, place, e)
      BY <1>1, <2>1, <2>2 DEF LosesIn
    <3> QED BY <1>2, <3>1 DEF Accounted
  <2>3. CASE /\ Len(place) # 1 /\ ~IsPrefix(Front(place), e)
             /\ NextIn(doc, Front(place)) # NoPlace
    <3>1. Len(place) > 1
      <4>1. place \in Seq(Nat \ {0})
        BY <1>2 DEF Spots
      <4>2. Len(place) \in Nat /\ Len(place) # 0
        BY <1>2, <4>1
      <4> QED BY <2>3, <4>2
    <3>2. Front(place) \in DOMAIN doc.kind
      BY <1>2, <3>1, FrontThere
    <3>3. Before(Front(place), e)
      BY <1>2, <2>1, <2>3, PastParent
    <3>4. e = NextIn(doc, Front(place)) \/ Before(NextIn(doc, Front(place)), e)
      BY <1>2, <2>3, <3>2, <3>3, Onward
    <3>5. place' = NextIn(doc, Front(place))
      BY <1>5, <2>3 DEF UpIn
    <3> QED BY <2>3, <3>4, <3>5 DEF Accounted
  <2> QED BY <2>2, <2>3
<1>8. \A q \in DOMAIN nodes : \/ IsPrefix(PathIn(doc, place), q)
                              \/ q \in DOMAIN nodes' /\ nodes'[q] = nodes[q]
  BY <1>1
<1>9. \A e \in DOMAIN doc.kind :
        doc.kind[e] = "text" /\ (e = place \/ Before(place, e))
          => Accounted(doc, filed', place', e)
  BY <1>7
<1> QED BY <1>1, <1>4, <1>6, <1>8, <1>9, Visited

LEMMA ElementEntered == ParseInv /\ VisitElement => ParseInv'
<1> SUFFICES ASSUME ParseInv, VisitElement PROVE ParseInv'
  OBVIOUS
<1> DEFINE at == Append(parent, Name(place))
<1>1. /\ place # NoPlace /\ doc.kind[place] = "element" /\ doc' = doc /\ filed' = filed
      /\ nodes' = Placed(nodes, at, Trunk)
      /\ place' = Append(place, 1) /\ parent' = at
  BY DEF VisitElement, Visiting, Visit, FirstChild
<1>2. /\ doc \in Documents /\ place \in DOMAIN doc.kind /\ place \in Spots
      /\ parent \in DOMAIN nodes /\ Name(place) \in Strings /\ at = PathIn(doc, place)
  BY <1>1, AtIt
<1>3. /\ DOMAIN nodes' \subseteq Paths /\ TreeTypeOK' /\ at \in DOMAIN nodes'
      /\ \A q \in DOMAIN nodes : IsPrefix(at, q) \/ (q \in DOMAIN nodes' /\ nodes'[q] = nodes[q])
  <2>1. DOMAIN nodes \subseteq Paths /\ TreeTypeOK
    BY DEF ParseInv, AtPlace
  <2> DEFINE node == Trunk
  <2>2. node.type \in {"leaf", "trunk", "array"}
    BY DEF Trunk
  <2>3. parent \in DOMAIN nodes /\ Name(place) \in Strings
    BY <1>2
  <2>4. nodes' = Placed(nodes, Append(parent, Name(place)), node)
    BY <1>1
  <2> HIDE DEF node
  <2> QED BY <2>1, <2>2, <2>3, <2>4, PlacedChild
<1> HIDE DEF at
<1>4. /\ place' \in DOMAIN doc.kind /\ Before(place, place') /\ Front(place') = place
      /\ \A e \in DOMAIN doc.kind : Before(place, e) => e = place' \/ Before(place', e)
  <2>1. Append(place, 1) \in DOMAIN doc.kind /\ \A e \in DOMAIN doc.kind : e \in Spots
    BY <1>1, <1>2, SpotsAre
  <2>2. Before(place, Append(place, 1)) /\ Front(Append(place, 1)) = place
    BY <1>2, FirstIs
  <2>3. ASSUME NEW e \in DOMAIN doc.kind, Before(place, e)
        PROVE  e = Append(place, 1) \/ Before(Append(place, 1), e)
    BY <1>2, <2>1, <2>3, FirstIs
  <2> QED BY <1>1, <2>1, <2>2, <2>3
<1>5. \A e \in DOMAIN doc.kind :
        doc.kind[e] = "text" /\ (e = place \/ Before(place, e))
          => Accounted(doc, filed', place', e)
  <2>1. place' # NoPlace
    BY <1>2, <1>4, SpotsAre
  <2> QED BY <1>1, <1>4, <2>1 DEF Accounted
<1>6. parent' \in DOMAIN nodes' /\ parent' = PathIn(doc, Front(place'))
  BY <1>1, <1>2, <1>3, <1>4
<1>7. \A q \in DOMAIN nodes : \/ IsPrefix(PathIn(doc, place), q)
                              \/ q \in DOMAIN nodes' /\ nodes'[q] = nodes[q]
  BY <1>2, <1>3
<1> QED BY <1>1, <1>3, <1>4, <1>5, <1>6, <1>7, Visited

LEMMA OtherEndsIt == ParseInv /\ VisitOther => ParseInv'
<1> SUFFICES ASSUME ParseInv, VisitOther PROVE ParseInv'
  OBVIOUS
<1>1. /\ place # NoPlace /\ doc.kind[place] = "other" /\ doc' = doc
      /\ filed' = filed /\ nodes' = nodes /\ place' = NoPlace
  BY DEF VisitOther, Visiting, Visit
<1>2. place \in DOMAIN doc.kind
  BY <1>1, AtIt
<1>3. DOMAIN nodes' \subseteq Paths /\ TreeTypeOK'
  BY <1>1 DEF ParseInv, AtPlace, TreeTypeOK
<1>4. ASSUME NEW e \in DOMAIN doc.kind, doc.kind[e] = "text", e = place \/ Before(place, e)
      PROVE  Accounted(doc, filed', place', e)
  <2>1. Before(place, e)
    BY <1>1, <1>4
  <2>2. LosesIn(doc, place, e)
    BY <1>1, <2>1 DEF LosesIn
  <2> QED BY <1>2, <2>2 DEF Accounted
<1>5. \A e \in DOMAIN doc.kind :
        doc.kind[e] = "text" /\ (e = place \/ Before(place, e))
          => Accounted(doc, filed', place', e)
  BY <1>4
<1>6. \A q \in DOMAIN nodes : \/ IsPrefix(PathIn(doc, place), q)
                              \/ q \in DOMAIN nodes' /\ nodes'[q] = nodes[q]
  BY <1>1
<1> QED BY <1>1, <1>3, <1>5, <1>6, Visited

LEMMA FileLoaded == ParseInv /\ LoadFile => ParseInv'
<1> SUFFICES ASSUME ParseInv, LoadFile PROVE ParseInv'
  OBVIOUS
<1>1. /\ filed = <<>> /\ DOMAIN nodes \subseteq Paths /\ TreeTypeOK
  BY DEF LoadFile, ParseInv, AtPlace
<1>2. /\ doc' \in Documents /\ place' = <<1>> /\ parent' = Root
      /\ nodes' = nodes /\ filed' = <<>>
  BY <1>1 DEF LoadFile
<1> DEFINE one == <<1>>
<1>3. /\ doc' # NoDocument /\ one \in DOMAIN doc'.kind /\ one # NoPlace
      /\ \A e \in DOMAIN doc'.kind : e \in Spots /\ e # <<>>
  BY <1>2, SpotsAre
<1>4. one \in Spots /\ Len(one) = 1 /\ one[1] = 1 /\ Front(one) = <<>> /\ <<>> \in Spots
  BY DEF Spots, Front
<1> HIDE DEF one
<1>5. PathIn(doc', Front(place')) = Root
  BY <1>2, <1>4, PathIs DEF one
<1>6. AtPlace'
  <2>1. TreeTypeOK'
    BY <1>1, <1>2 DEF TreeTypeOK
  <2>2. Root \in DOMAIN nodes'
    BY <1>1, <1>2 DEF TreeTypeOK
  <2>3. filed' \in Seq(DOMAIN doc'.kind) /\ DOMAIN filed' = {}
    BY <1>2
  <2> QED BY <1>1, <1>2, <1>3, <1>5, <2>1, <2>2, <2>3 DEF AtPlace, one
<1>7. Behind' /\ Found'
  <2>1. DOMAIN filed' = {}
    BY <1>2
  <2> QED BY <2>1 DEF Behind, Found
<1>8. Ahead'
  <2>1. SUFFICES ASSUME NEW e \in DOMAIN doc'.kind
                 PROVE  Accounted(doc', filed', place', e)
    BY DEF Ahead
  <2>2. /\ e \in Seq(Nat \ {0}) /\ e # <<>> /\ e \in Spots
    BY <1>3 DEF Spots
  <2>3. Len(e) \in Nat \ {0} /\ e[1] \in Nat \ {0}
    BY <2>2
  <2>4. CASE e[1] > 1
    <3>1. 1 \in 1 .. Len(one) /\ 1 <= Len(e) /\ one[1] < e[1]
          /\ \A j \in 1 .. 1 - 1 : one[j] = e[j]
      BY <1>4, <2>3, <2>4
    <3>2. Before(one, e)
      BY <1>4, <2>2, <3>1, BeforeMeans
    <3> QED BY <1>2, <1>3, <3>2 DEF Accounted, one
  <2>5. CASE e[1] = 1 /\ Len(e) > 1
    <3>1. Len(one) < Len(e) /\ \A j \in 1 .. Len(one) : one[j] = e[j]
      BY <1>4, <2>5
    <3>2. Before(one, e)
      BY <1>4, <2>2, <3>1, BeforeMeans
    <3> QED BY <1>2, <1>3, <3>2 DEF Accounted, one
  <2>6. CASE e[1] = 1 /\ Len(e) = 1
    <3>1. /\ one \in Seq(Nat \ {0}) /\ Len(e) = Len(one)
          /\ \A j \in 1 .. Len(e) : e[j] = one[j]
      BY <1>4, <2>6 DEF Spots
    <3>2. e = one
      BY <2>2, <3>1, SameSequence
    <3> QED BY <1>2, <1>3, <3>2 DEF Accounted, one
  <2>7. \/ e[1] > 1
        \/ e[1] = 1 /\ Len(e) > 1
        \/ e[1] = 1 /\ Len(e) = 1
    <3> DEFINE v == e[1]
               m == Len(e)
    <3>1. v \in Nat \ {0} /\ m \in Nat \ {0}
      BY <2>3
    <3> HIDE DEF v, m
    <3>2. v > 1 \/ (v = 1 /\ m > 1) \/ (v = 1 /\ m = 1)
      BY <3>1
    <3> QED BY <3>2 DEF v, m
  <2> QED BY <2>4, <2>5, <2>6, <2>7
<1> QED BY <1>6, <1>7, <1>8 DEF ParseInv

LEMMA ParseStep == ParseInv /\ [ParseNext]_<<treeVars, parseVars>> => ParseInv'
<1> SUFFICES ASSUME ParseInv, [ParseNext]_<<treeVars, parseVars>> PROVE ParseInv'
  OBVIOUS
<1>1. CASE LoadFile
  BY <1>1, FileLoaded
<1>2. CASE VisitText
  BY <1>2, TextFiled
<1>3. CASE VisitEmpty
  BY <1>3, EmptyPassed
<1>4. CASE VisitElement
  BY <1>4, ElementEntered
<1>5. CASE VisitOther
  BY <1>5, OtherEndsIt
<1>6. CASE UNCHANGED <<treeVars, parseVars>>
  <2>1. /\ nodes' = nodes /\ doc' = doc /\ place' = place /\ parent' = parent /\ filed' = filed
    BY <1>6 DEF treeVars, parseVars
  <2> QED BY <2>1 DEF ParseInv, AtPlace, Behind, Found, Ahead, TreeTypeOK
<1> QED BY <1>1, <1>2, <1>3, <1>4, <1>5, <1>6 DEF ParseNext

LEMMA ParseInvMeans == ParseInv => ParseTypeOK /\ TreeTypeOK /\ ParsedInPlace
<1> SUFFICES ASSUME ParseInv PROVE ParseTypeOK /\ TreeTypeOK /\ ParsedInPlace
  OBVIOUS
<1>1. ParseTypeOK /\ TreeTypeOK
  BY DEF ParseInv, AtPlace, ParseTypeOK
<1>2. \A e : TreePath(e) = PathIn(doc, e)
  BY DEF TreePath, PathIn, Name, NameIn
<1>3. place # NoPlace => parent = TreePath(Front(place))
  BY <1>2 DEF ParseInv, AtPlace
<1>4. ASSUME doc # NoDocument, NEW i \in DOMAIN filed
      PROVE  Get(TreePath(Front(filed[i])), Name(filed[i]), 0) = i \/ Replaced(filed[i])
  <2>1. doc \in Documents /\ filed[i] \in DOMAIN doc.kind
    BY <1>4 DEF ParseInv, AtPlace
  <2>2. filed[i] \in Spots /\ filed[i] # <<>>
    BY <2>1, SpotsAre
  <2>3. Append(TreePath(Front(filed[i])), Name(filed[i])) = PathIn(doc, filed[i])
    BY <1>2, <2>1, <2>2, PathIs DEF Name, NameIn
  <2>4. \/ PathIn(doc, filed[i]) \in DOMAIN nodes /\ nodes[PathIn(doc, filed[i])] = Leaf(i)
        \/ ReplacedIn(doc, filed[i])
    BY <1>4 DEF ParseInv, Found
  <2>5. ReplacedIn(doc, filed[i]) => Replaced(filed[i])
    BY <1>2 DEF ReplacedIn, Replaced
  <2> QED BY <2>3, <2>4, <2>5 DEF Get, Find, Leaf
<1>5. ASSUME doc # NoDocument, place = NoPlace, NEW e \in DOMAIN doc.kind, doc.kind[e] = "text"
      PROVE  \/ \E i \in DOMAIN filed : filed[i] = e
             \/ \E x \in DOMAIN doc.kind : Loses(x, e)
  <2>1. Accounted(doc, filed, place, e)
    BY <1>5 DEF ParseInv, AtPlace, Ahead
  <2>2. \A x : LosesIn(doc, x, e) <=> Loses(x, e)
    <3>1. \A x : NextIn(doc, x) = NextSibling(x)
      BY DEF NextIn, NextSibling, After
    <3> QED BY <3>1 DEF LosesIn, Loses, IsLast
  <2> QED BY <1>5, <2>1, <2>2 DEF Accounted
<1> QED BY <1>1, <1>3, <1>4, <1>5 DEF ParsedInPlace

THEOREM ParserTypeCorrect == ParseSpec => [](ParseTypeOK /\ TreeTypeOK)
<1>1. ParseSpec => []ParseInv
  BY InitParse, ParseStep, PTL DEF ParseSpec
<1> QED BY <1>1, ParseInvMeans, PTL

THEOREM AlwaysParsedInPlace == ParseSpec => []ParsedInPlace
<1>1. ParseSpec => []ParseInv
  BY InitParse, ParseStep, PTL DEF ParseSpec
<1> QED BY <1>1, ParseInvMeans, PTL
=============================================================================
