----------------------------- MODULE Streams_proofs ----------------------------
(***************************************************************************)
(* Proofs about the byte streams of a connection.                          *)
(*                                                                         *)
(* Buffer, for any first block, any bytes written and any arguments: the   *)
(* cursors stay in the block, what is written always fits, and the buffer  *)
(* is a queue of bytes.                                                    *)
(*                                                                         *)
(* RapidStream, for any frames, any chunk and any room in the kernel: what *)
(* is decoded is what was sent, in order, and no complete frame waits,     *)
(* unless the sender tore one.                                             *)
(***************************************************************************)
EXTENDS Buffer, RapidStream, SequenceTheorems, WellFoundedInduction, TLAPS

CursorsInBlock ==
    /\ block \in Seq(Byte) /\ pos_reading_ \in Nat /\ pos_writing_ \in Nat
    /\ pos_reading_ <= pos_writing_ /\ pos_writing_ <= Len(block)

----------------------------------------------------------------------------
(* The loop that doubles a size ends.                                      *)

LEMMA LeastNatural ==
    ASSUME NEW T, T \subseteq Nat, T # {}
    PROVE  \E x \in T : \A y \in T : x <= y
<1> DEFINE Less == {pair \in Nat \X Nat : pair[1] < pair[2]}
<1>1. IsWellFoundedOn(Less, Nat)
    BY NatLessThanWellFounded DEF OpToRel
<1>2. \A x, y \in Nat : y < x => <<y, x>> \in Less
    OBVIOUS
<1> HIDE DEF Less
<1>3. PICK x \in T : \A y \in T : ~ (<<y, x>> \in Less)
    BY <1>1, WFMin, Zenon
<1>4. \A y \in T : y \in Nat /\ x \in Nat /\ ~ (y < x)
    BY <1>2, <1>3
<1> QED
    BY <1>4

(* The lengths from which at most d doublings are left, and the loop on    *)
(* them. *)
Lengths == Nat \ {0}
Near(n, d) == {len \in Lengths : len + d >= n}
Doubles(double, S, n) == double = [len \in S |-> IF len < n THEN double[2 * len] ELSE len]

LEMMA DoublesNear ==
    ASSUME NEW n \in Nat, NEW d \in Nat
    PROVE  \E double : Doubles(double, Near(n, d), n)
<1> DEFINE Bad == {e \in Nat : ~ \E double : Doubles(double, Near(n, e), n)}
<1>1. SUFFICES ASSUME Bad # {} PROVE FALSE
    OBVIOUS
<1>2. PICK e \in Bad : \A k \in Bad : e <= k
    BY <1>1, LeastNatural
<1>3. CASE e = 0
  <2> DEFINE double == [len \in Near(n, e) |-> len]
  <2>1. \A len \in Near(n, e) : ~ (len < n)
      BY <1>3 DEF Near, Lengths
  <2>2. double = [len \in Near(n, e) |-> IF len < n THEN double[2 * len] ELSE len]
      BY <2>1
  <2>3. Doubles(double, Near(n, e), n)
      BY <2>2 DEF Doubles
  <2> QED
      BY <1>2, <2>3
<1>4. CASE e # 0
  <2>1. e - 1 \in Nat /\ e - 1 \notin Bad
      BY <1>2, <1>4
  <2>2. PICK f : Doubles(f, Near(n, e - 1), n)
      BY <2>1
  <2> DEFINE Old == Near(n, e - 1)
             New == Near(n, e)
             double == [len \in New |-> IF len \in Old THEN f[len] ELSE f[2 * len]]
  <2>3. /\ Old \subseteq New /\ New \subseteq Lengths
        /\ \A len \in New : len \in Nat /\ 2 * len \in Old /\ 2 * len \in New
        /\ \A len \in New : len \notin Old => len < n
      BY <2>1 DEF Near, Lengths
  <2>4. \A len \in Old : f[len] = IF len < n THEN f[2 * len] ELSE len
      BY <2>2 DEF Doubles
  <2> HIDE DEF Old, New
  <2>5. \A len \in Old : double[len] = f[len]
      BY <2>3
  <2>6. ASSUME NEW len \in New
        PROVE  double[len] = IF len < n THEN double[2 * len] ELSE len
    <3>1. double[2 * len] = f[2 * len]
        BY <2>3, <2>5
    <3>2. CASE len \in Old
        BY <2>4, <2>5, <3>1, <3>2
    <3>3. CASE len \notin Old
      <4>1. double[len] = f[2 * len] /\ len < n
          BY <2>3, <3>3
      <4> QED
          BY <3>1, <4>1
    <3> QED
        BY <3>2, <3>3
  <2>7. double = [len \in New |-> IF len < n THEN double[2 * len] ELSE len]
    <3> DEFINE g == [len \in New |-> IF len < n THEN double[2 * len] ELSE len]
    <3>1. \A len \in New : double[len] = g[len]
        BY <2>6
    <3> QED
        BY <3>1
  <2>8. Doubles(double, New, n)
      BY <2>7 DEF Doubles
  <2> QED
      BY <1>2, <2>8 DEF New
<1> QED
    BY <1>3, <1>4

LEMMA DoubledFacts ==
    ASSUME NEW n \in Nat, NEW size \in Nat \ {0}
    PROVE  Doubled(size, n) \in Nat /\ Doubled(size, n) >= n
<1>1. Near(n, n) = Lengths
    BY DEF Near, Lengths
<1>2. \E double : Doubles(double, Lengths, n)
    BY <1>1, DoublesNear
<1> DEFINE double == CHOOSE double : double = [len \in Lengths |-> IF len < n THEN double[2 * len] ELSE len]
<1>3. double = [len \in Lengths |-> IF len < n THEN double[2 * len] ELSE len]
    BY <1>2 DEF Doubles
<1>4. Doubled(size, n) = double[size]
    BY DEF Doubled, Lengths
<1> HIDE DEF double
<1>5. \A len \in Lengths : double[len] = IF len < n THEN double[2 * len] ELSE len
    BY <1>3
<1> DEFINE Bad == {d \in Nat : \E len \in Near(n, d) : ~ (double[len] \in Nat /\ double[len] >= n)}
<1>6. Bad = {}
  <2> SUFFICES ASSUME Bad # {} PROVE FALSE
      OBVIOUS
  <2>1. PICK d \in Bad : \A k \in Bad : d <= k
      BY LeastNatural
  <2>2. PICK len \in Near(n, d) : ~ (double[len] \in Nat /\ double[len] >= n)
      BY <2>1
  <2>3. len \in Lengths /\ len \in Nat /\ len # 0 /\ len + d >= n /\ d \in Nat
      BY <2>1, <2>2 DEF Near, Lengths
  <2>4. len < n
      BY <1>5, <2>2, <2>3
  <2>5. double[len] = double[2 * len]
      BY <1>5, <2>3, <2>4
  <2>6. d - 1 \in Nat /\ 2 * len \in Near(n, d - 1)
      BY <2>3, <2>4 DEF Near, Lengths
  <2>7. d - 1 \in Bad
      BY <2>2, <2>5, <2>6
  <2>8. d <= d - 1
      BY <2>1, <2>7
  <2> QED
      BY <2>3, <2>8
<1>7. size \in Near(n, n)
    BY DEF Near, Lengths
<1> QED
    BY <1>4, <1>6, <1>7

----------------------------------------------------------------------------
(* Blocks of memory, and the bytes between two cursors.                    *)

Cut(b, r, w) == SubSeq(b, r + 1, w)

LEMMA MadeSeq ==
    ASSUME NEW n \in Nat, NEW f \in [1 .. n -> Byte]
    PROVE  f \in Seq(Byte) /\ Len(f) = n
<1>1. f \in Seq(Byte)
    BY SeqDef
<1>2. Len(f) \in Nat /\ DOMAIN f = 1 .. Len(f) /\ DOMAIN f = 1 .. n
    BY <1>1, LenProperties
<1>3. 1 .. Len(f) = 1 .. n => Len(f) = n
    BY <1>2
<1> QED
    BY <1>1, <1>2, <1>3

LEMMA CutFacts ==
    ASSUME NEW b \in Seq(Byte), NEW r \in Nat, NEW w \in Nat, r <= w, w <= Len(b)
    PROVE  /\ Cut(b, r, w) \in Seq(Byte)
           /\ Len(Cut(b, r, w)) = w - r
           /\ \A i \in 1 .. w - r : Cut(b, r, w)[i] = b[r + i]
<1>1. \A i \in r + 1 .. w : b[i] \in Byte
    BY LenProperties
<1>2. /\ SubSeq(b, r + 1, w) \in Seq(Byte)
      /\ Len(SubSeq(b, r + 1, w)) = IF r + 1 <= w THEN w - (r + 1) + 1 ELSE 0
      /\ \A i \in 1 .. w - (r + 1) + 1 : SubSeq(b, r + 1, w)[i] = b[r + 1 + i - 1]
    BY <1>1, SubSeqProperties
<1> DEFINE s == SubSeq(b, r + 1, w)
<1> HIDE DEF s
<1>3. Len(s) = w - r
    BY <1>2 DEF s
<1>4. ASSUME NEW i \in 1 .. w - r
      PROVE  s[i] = b[r + i]
  <2>1. r + 1 + i - 1 = r + i /\ i \in 1 .. w - (r + 1) + 1
      OBVIOUS
  <2> QED
      BY <1>2, <2>1 DEF s
<1> QED
    BY <1>2, <1>3, <1>4 DEF s, Cut

(* Two blocks hold the same data between their cursors. *)
LEMMA CutSame ==
    ASSUME NEW b \in Seq(Byte), NEW r \in Nat, NEW w \in Nat, r <= w, w <= Len(b),
           NEW s \in Seq(Byte), Len(s) = w - r,
           \A i \in 1 .. w - r : s[i] = b[r + i]
    PROVE  Cut(b, r, w) = s
<1> DEFINE c == Cut(b, r, w)
<1>1. /\ c \in Seq(Byte) /\ Len(c) = w - r
      /\ \A i \in 1 .. w - r : c[i] = b[r + i]
    BY CutFacts
<1> HIDE DEF c
<1>2. Len(c) = Len(s) /\ \A i \in 1 .. Len(c) : c[i] = s[i]
    BY <1>1
<1>3. c = s
    BY <1>1, <1>2, SeqEqual
<1> QED
    BY <1>3 DEF c

LEMMA ContentFacts ==
    ASSUME CursorsInBlock
    PROVE  /\ Content = Cut(block, pos_reading_, pos_writing_)
           /\ Content \in Seq(Byte)
           /\ ReadingSize \in Nat /\ Len(Content) = ReadingSize
           /\ \A i \in 1 .. ReadingSize : Content[i] = block[pos_reading_ + i]
<1>1. Content = Cut(block, pos_reading_, pos_writing_)
    BY DEF Content, Cut
<1>2. ReadingSize \in Nat /\ ReadingSize = pos_writing_ - pos_reading_
    BY DEF CursorsInBlock, ReadingSize
<1> QED
    BY ONLY <1>1, <1>2, CutFacts, CursorsInBlock DEF CursorsInBlock

LEMMA FreshFacts ==
    ASSUME NEW size \in Nat, NEW bytes \in Seq(Byte), Len(bytes) <= size
    PROVE  /\ Fresh(size, bytes) \in Seq(Byte)
           /\ Len(Fresh(size, bytes)) = size
           /\ \A i \in 1 .. Len(bytes) : Fresh(size, bytes)[i] = bytes[i]
<1>1. \A i \in 1 .. Len(bytes) : bytes[i] \in Byte
    BY ElementOfSeq
<1>2. Len(bytes) \in Nat
    BY LenProperties
<1>3. Fresh(size, bytes) \in [1 .. size -> Byte]
    BY <1>1, <1>2 DEF Fresh, AnyByte, Byte
<1>4. \A i \in 1 .. Len(bytes) : Fresh(size, bytes)[i] = bytes[i]
    BY <1>2 DEF Fresh
<1> QED
    BY ONLY <1>3, <1>4, MadeSeq, size \in Nat

LEMMA BetweenFacts ==
    ASSUME CursorsInBlock, NEW from \in Nat, NEW to \in Nat
    PROVE  /\ Between(from, to) \in Seq(Byte)
           /\ Len(Between(from, to)) = Len(block)
           /\ \A i \in from + 1 .. to : i <= Len(block) => Between(from, to)[i] = block[i]
<1>1. Len(block) \in Nat /\ DOMAIN block = 1 .. Len(block)
    BY LenProperties DEF CursorsInBlock
<1>2. \A i \in 1 .. Len(block) : block[i] \in Byte
    BY ElementOfSeq DEF CursorsInBlock
<1>3. Between(from, to) \in [1 .. Len(block) -> Byte]
  <2>1. ASSUME NEW i \in DOMAIN block
        PROVE  (IF i \in from + 1 .. to THEN block[i] ELSE AnyByte) \in Byte
    <3>1. block[i] \in Byte
        BY <1>1, <1>2, Zenon
    <3>2. AnyByte \in Byte
        BY DEF AnyByte, Byte
    <3> QED
        BY <3>1, <3>2, Zenon
  <2> QED
      BY <1>1, <2>1, Zenon DEF Between
<1>4. \A i \in from + 1 .. to : i <= Len(block) => Between(from, to)[i] = block[i]
    BY <1>1 DEF Between
<1> QED
    BY ONLY <1>1, <1>3, <1>4, MadeSeq

(* The data stays in place, or is moved, when room is made; and there is   *)
(* room for what was asked. *)
LEMMA EnsuredFacts ==
    ASSUME CursorsInBlock, BufferAssumption, NEW need \in Nat
    PROVE  /\ Ensured(need).mem \in Seq(Byte) /\ Ensured(need).from \in Nat
           /\ Ensured(need).from + ReadingSize + need <= Len(Ensured(need).mem)
           /\ \A i \in 1 .. ReadingSize : Ensured(need).mem[Ensured(need).from + i] = Content[i]
<1> DEFINE room == Ensured(need)
<1>1. /\ Content \in Seq(Byte) /\ ReadingSize \in Nat /\ Len(Content) = ReadingSize
      /\ \A i \in 1 .. ReadingSize : Content[i] = block[pos_reading_ + i]
    BY ContentFacts
<1>2. /\ block \in Seq(Byte) /\ Capacity \in Nat /\ pos_reading_ \in Nat /\ pos_writing_ \in Nat
      /\ pos_writing_ <= Capacity /\ ReadingSize = pos_writing_ - pos_reading_
      /\ FirstSize \in Nat \ {0} /\ (block # <<>> => Capacity \in Nat \ {0})
      /\ (block = <<>> => Capacity = 0) /\ Capacity = Len(block)
    BY LenProperties, EmptySeq DEF CursorsInBlock, Capacity, ReadingSize, BufferAssumption
<1>3. CASE block = <<>>
  <2> DEFINE size == Doubled(FirstSize, need)
  <2>1. size \in Nat /\ size >= need
      BY <1>2, DoubledFacts
  <2>2. room.mem = Fresh(size, <<>>) /\ room.from = 0
      BY <1>3 DEF Ensured
  <2>3. <<>> \in Seq(Byte) /\ Len(<<>>) = 0
      BY EmptySeq
  <2> HIDE DEF size, room
  <2>4. ReadingSize = 0
    <3>1. /\ Capacity = 0 /\ pos_writing_ <= Capacity /\ pos_writing_ \in Nat /\ pos_reading_ \in Nat
          /\ ReadingSize \in Nat /\ ReadingSize = pos_writing_ - pos_reading_
        BY <1>1, <1>2, <1>3, Zenon
    <3> QED
        BY ONLY <3>1
  <2>5. Fresh(size, <<>>) \in Seq(Byte) /\ Len(Fresh(size, <<>>)) = size
    <3>1. Len(<<>>) <= size
        BY <2>1, <2>3
    <3> QED
        BY <2>1, <2>3, <3>1, FreshFacts, Zenon
  <2>6. room.mem \in Seq(Byte) /\ room.from \in Nat /\ room.from + ReadingSize + need <= Len(room.mem)
      BY <2>1, <2>2, <2>4, <2>5
  <2>7. \A i \in 1 .. ReadingSize : room.mem[room.from + i] = Content[i]
      BY <2>4
  <2> QED
      BY <2>6, <2>7 DEF room
<1>4. CASE block # <<>> /\ Capacity >= pos_writing_ + need
  <2>1. room.mem = block /\ room.from = pos_reading_
      BY <1>4 DEF Ensured
  <2> HIDE DEF room
  <2> QED
      BY <1>1, <1>2, <1>4, <2>1 DEF room
<1>5. CASE block # <<>> /\ ~ (Capacity >= pos_writing_ + need)
  <2>1. PICK size \in Nat : room = [mem |-> Fresh(size, Content), from |-> 0] /\ ReadingSize + need <= size
    <3> DEFINE free == Capacity - ReadingSize
    <3>1. CASE free < need \/ free * 4 < ReadingSize
      <4> DEFINE size == Doubled(Capacity * 2, ReadingSize + need)
      <4>1. size \in Nat /\ size >= ReadingSize + need
        <5>1. Capacity * 2 \in Nat \ {0} /\ ReadingSize + need \in Nat
            BY <1>1, <1>2, <1>5
        <5> QED
            BY ONLY <5>1, DoubledFacts
      <4>2. room = [mem |-> Fresh(size, Content), from |-> 0]
          BY <1>5, <3>1 DEF Ensured
      <4> HIDE DEF size
      <4> QED
          BY <1>1, <4>1, <4>2
    <3>2. CASE ~ (free < need \/ free * 4 < ReadingSize)
      <4>1. room = [mem |-> Fresh(Capacity, Content), from |-> 0]
          BY <1>5, <3>2 DEF Ensured
      <4>2. ReadingSize + need <= Capacity
          BY <1>1, <1>2, <3>2
      <4> QED
          BY <1>2, <4>1, <4>2
    <3> QED
        BY <3>1, <3>2
  <2>2. room.mem = Fresh(size, Content) /\ room.from = 0
      BY <2>1
  <2> HIDE DEF room
  <2>3. /\ Fresh(size, Content) \in Seq(Byte) /\ Len(Fresh(size, Content)) = size
        /\ \A i \in 1 .. Len(Content) : Fresh(size, Content)[i] = Content[i]
    <3>1. Len(Content) <= size
        BY <1>1, <2>1
    <3> QED
        BY ONLY <1>1, <3>1, FreshFacts, size \in Nat
  <2>4. \A i \in 1 .. ReadingSize : room.from + i = i
      BY <1>1, <2>2
  <2> QED
      BY <1>1, <2>1, <2>2, <2>3, <2>4 DEF room
<1> QED
    BY <1>3, <1>4, <1>5

----------------------------------------------------------------------------
(* Every call keeps the cursors in the block and is a call of the queue.   *)

LEMMA WriteAppends ==
    ASSUME CursorsInBlock, BufferAssumption, NEW data \in Data, Write(data)
    PROVE  CursorsInBlock' /\ BytesInOrder!Append_(data)
<1> DEFINE room == Ensured(Len(data))
           at == room.from + ReadingSize
           d == Len(data)
           mem == room.mem
<1>1. data \in Seq(Byte) /\ d \in Nat /\ \A j \in 1 .. d : data[j] \in Byte
  <2>1. data \in Seq(Byte)
      BY DEF BufferAssumption
  <2> QED
      BY <2>1, LenProperties, ElementOfSeq
<1>2. /\ mem \in Seq(Byte) /\ room.from \in Nat /\ at + d <= Len(mem)
      /\ \A i \in 1 .. ReadingSize : mem[room.from + i] = Content[i]
    BY <1>1, EnsuredFacts
<1>3. Content \in Seq(Byte) /\ ReadingSize \in Nat /\ Len(Content) = ReadingSize
    BY ContentFacts
<1>4. Len(mem) \in Nat /\ DOMAIN mem = 1 .. Len(mem) /\ \A i \in 1 .. Len(mem) : mem[i] \in Byte
    BY <1>2, LenProperties, ElementOfSeq
<1>5. /\ called' = <<"Write", d>>
      /\ block' = [i \in DOMAIN mem |-> IF i \in at + 1 .. at + d THEN data[i - at] ELSE mem[i]]
      /\ pos_reading_' = room.from
      /\ pos_writing_' = IF at + d <= Len(mem) THEN at + d ELSE at
    BY Zenon DEF Write
<1>6. at \in Nat /\ at = room.from + ReadingSize
    BY <1>2, <1>3
<1>7. \A i \in 1 .. d : at + i \in 1 .. Len(mem)
    BY <1>1, <1>2, <1>4, <1>6
<1>8. \A i \in 1 .. ReadingSize : room.from + i \in 1 .. Len(mem)
    BY <1>1, <1>2, <1>3, <1>4, <1>6
<1> DEFINE from == room.from
<1> HIDE DEF room, d, mem, at, from
<1>9. block' \in Seq(Byte) /\ Len(block') = Len(mem)
  <2>1. ASSUME NEW i \in DOMAIN mem
        PROVE  (IF i \in at + 1 .. at + d THEN data[i - at] ELSE mem[i]) \in Byte
    <3>1. mem[i] \in Byte
        BY <1>4, Zenon
    <3>2. i \in at + 1 .. at + d => i - at \in 1 .. d
        BY <1>1, <1>4, <1>6
    <3> QED
        BY <1>1, <3>1, <3>2, Zenon
  <2>2. block' \in [1 .. Len(mem) -> Byte]
      BY <1>4, <1>5, <2>1, Zenon
  <2> QED
      BY ONLY <1>4, <2>2, MadeSeq
<1>b. \A k \in DOMAIN mem :
          block'[k] = IF k \in at + 1 .. at + d THEN data[k - at] ELSE mem[k]
    BY <1>5
<1>10. \A i \in 1 .. d : block'[at + i] = data[i]
  <2> SUFFICES ASSUME NEW i \in 1 .. d PROVE block'[at + i] = data[i]
      OBVIOUS
  <2>1. at + i \in at + 1 .. at + d /\ at + i - at = i
      BY <1>1, <1>6
  <2>2. at + i \in DOMAIN mem
      BY <1>4, <1>7
  <2> DEFINE k == at + i
  <2>3. k \in DOMAIN mem /\ k \in at + 1 .. at + d
      BY <2>1, <2>2
  <2>4. k - at = i
      BY <1>1, <1>6
  <2> HIDE DEF k
  <2>5. block'[k] = data[k - at]
      BY <1>b, <2>3, Zenon
  <2>6. block'[k] = data[i]
      BY <2>4, <2>5, Zenon
  <2> QED
      BY <2>6, Zenon DEF k
<1>11. \A i \in 1 .. ReadingSize : block'[from + i] = Content[i]
  <2> SUFFICES ASSUME NEW i \in 1 .. ReadingSize PROVE block'[from + i] = Content[i]
      OBVIOUS
  <2>1. from + i \notin at + 1 .. at + d
      BY <1>1, <1>2, <1>3, <1>6 DEF from
  <2>2. from + i \in DOMAIN mem
      BY <1>4, <1>8 DEF from
  <2>3. block'[from + i] = mem[from + i]
      BY ONLY <1>5, <2>1, <2>2
  <2> QED
      BY <1>2, <2>3, Zenon DEF from
<1> DEFINE w == at + d
<1>12. /\ pos_reading_' = from /\ pos_writing_' = w
       /\ from \in Nat /\ w \in Nat /\ from <= w /\ w <= Len(block')
       /\ w - from = ReadingSize + d
  <2>1. pos_reading_' = from /\ pos_writing_' = w
      BY <1>2, <1>5, Zenon DEF from
  <2>2. from \in Nat /\ at = from + ReadingSize /\ ReadingSize \in Nat /\ d \in Nat
      BY <1>1, <1>2, <1>3, <1>6, Zenon DEF from
  <2>3. w \in Nat /\ from <= w /\ w - from = ReadingSize + d
      BY ONLY <2>2
  <2>4. w <= Len(block')
      BY <1>2, <1>9, Zenon
  <2> QED
      BY <2>1, <2>2, <2>3, <2>4, Zenon
<1> HIDE DEF w
<1>13. CursorsInBlock'
    BY <1>9, <1>12 DEF CursorsInBlock
<1> DEFINE s == Content \o data
<1>14. /\ s \in Seq(Byte) /\ Len(s) = ReadingSize + d
       /\ \A i \in 1 .. ReadingSize + d :
              s[i] = IF i <= ReadingSize THEN Content[i] ELSE data[i - ReadingSize]
    BY <1>1, <1>3, ConcatProperties DEF d
<1> HIDE DEF s
<1>15. \A i \in 1 .. w - from : s[i] = block'[from + i]
  <2> SUFFICES ASSUME NEW i \in 1 .. ReadingSize + d PROVE s[i] = block'[from + i]
      BY <1>12
  <2>1. CASE i <= ReadingSize
    <3>1. i \in 1 .. ReadingSize
        BY <1>3, <2>1
    <3>2. s[i] = Content[i]
        BY <1>14, <2>1
    <3> QED
        BY <1>11, <3>1, <3>2
  <2>2. CASE ~ (i <= ReadingSize)
    <3>1. i - ReadingSize \in 1 .. d /\ at + (i - ReadingSize) = from + i
        BY <1>1, <1>2, <1>3, <1>6, <2>2 DEF from
    <3>2. s[i] = data[i - ReadingSize]
        BY <1>14, <2>2
    <3>3. block'[at + (i - ReadingSize)] = data[i - ReadingSize]
        BY <1>10, <3>1, Zenon
    <3> QED
        BY <3>1, <3>2, <3>3
  <2> QED
      BY <2>1, <2>2
<1>16. Cut(block', from, w) = s
  <2>1. Len(s) = w - from
      BY <1>12, <1>14
  <2> QED
    BY ONLY <2>1, <1>9, <1>12, <1>14, <1>15, CutSame
<1>17. Content' = s
    BY <1>12, <1>16 DEF Content, Cut
<1> QED
    BY <1>5, <1>13, <1>17 DEF s, d, BytesInOrder!Append_

(* The cursors afterwards lie between the old ones, and the bytes between  *)
(* them are untouched: the content is a piece of the old content. *)
LEMMA Narrowed ==
    ASSUME CursorsInBlock, NEW r \in Nat, NEW w \in Nat,
           pos_reading_ <= r, r <= w, w <= pos_writing_,
           block' = Between(r, w), pos_reading_' = r, pos_writing_' = w
    PROVE  CursorsInBlock' /\ Content' = Cut(Content, r - pos_reading_, w - pos_reading_)
<1>1. /\ block \in Seq(Byte) /\ pos_reading_ \in Nat /\ pos_writing_ \in Nat
      /\ Len(block) \in Nat /\ pos_writing_ <= Len(block)
    BY LenProperties DEF CursorsInBlock
<1>2. /\ block' \in Seq(Byte) /\ Len(block') = Len(block)
      /\ \A i \in r + 1 .. w : i <= Len(block) => block'[i] = block[i]
    BY BetweenFacts
<1>3. CursorsInBlock'
    BY <1>1, <1>2 DEF CursorsInBlock
<1>4. /\ Content \in Seq(Byte) /\ Len(Content) = pos_writing_ - pos_reading_
      /\ \A i \in 1 .. pos_writing_ - pos_reading_ : Content[i] = block[pos_reading_ + i]
  <2>1. ReadingSize = pos_writing_ - pos_reading_
      BY DEF ReadingSize
  <2> QED
      BY <2>1, ContentFacts
<1> DEFINE lo == r - pos_reading_
           hi == w - pos_reading_
           s == Cut(Content, lo, hi)
<1>5. lo \in Nat /\ hi \in Nat /\ lo <= hi /\ hi <= pos_writing_ - pos_reading_ /\ hi - lo = w - r
    BY <1>1
<1>6. /\ s \in Seq(Byte) /\ Len(s) = w - r
      /\ \A i \in 1 .. w - r : s[i] = Content[lo + i]
  <2> HIDE DEF lo, hi
  <2>1. /\ s \in Seq(Byte) /\ Len(s) = hi - lo
        /\ \A i \in 1 .. hi - lo : s[i] = Content[lo + i]
      BY <1>4, <1>5, CutFacts
  <2> QED
      BY <1>5, <2>1
<1> HIDE DEF s
<1>7. ASSUME NEW i \in 1 .. w - r
      PROVE  s[i] = block'[r + i]
  <2>1. lo + i \in 1 .. pos_writing_ - pos_reading_ /\ pos_reading_ + (lo + i) = r + i
      BY <1>1
  <2>2. r + i \in r + 1 .. w /\ r + i <= Len(block)
      BY <1>1
  <2> HIDE DEF lo
  <2>3. Content[lo + i] = block[pos_reading_ + (lo + i)]
      BY <1>4, <2>1, Zenon
  <2>4. block'[r + i] = block[r + i]
      BY <1>2, <2>2, Zenon
  <2> QED
      BY <1>6, <2>1, <2>3, <2>4
<1>8. w <= Len(block')
    BY <1>1, <1>2
<1>9. Cut(block', r, w) = s
    BY <1>2, <1>6, <1>7, <1>8, CutSame
<1>10. Content' = s
    BY <1>9 DEF Content, Cut
<1> QED
    BY <1>3, <1>10 DEF s

LEMMA EmptyCut ==
    ASSUME NEW b, NEW r \in Nat
    PROVE  Cut(b, r, r) = <<>>
<1>1. r + 1 \in Int /\ r \in Int /\ r < r + 1
    OBVIOUS
<1> QED
    BY ONLY <1>1, SubSeqEmpty DEF Cut

(* An empty buffer, whatever its block. *)
LEMMA Emptied ==
    ASSUME pos_reading_' = 0, pos_writing_' = 0, block' \in Seq(Byte)
    PROVE  CursorsInBlock' /\ Content' = <<>>
<1>1. CursorsInBlock'
    BY LenProperties DEF CursorsInBlock
<1>2. Cut(block', 0, 0) = <<>>
    BY EmptyCut
<1> QED
    BY <1>1, <1>2 DEF Content, Cut

LEMMA DrainReadingDrains ==
    ASSUME CursorsInBlock, NEW n \in Nat, DrainReading(n)
    PROVE  CursorsInBlock' /\ BytesInOrder!DrainFront(n)
<1>1. /\ pos_reading_ \in Nat /\ pos_writing_ \in Nat /\ pos_reading_ <= pos_writing_
      /\ Len(Content) = pos_writing_ - pos_reading_ /\ Content \in Seq(Byte)
    BY ContentFacts DEF CursorsInBlock, ReadingSize
<1>2. called' = <<"DrainReading", n>>
    BY DEF DrainReading
<1>3. CASE pos_reading_ + n >= pos_writing_
  <2>1. pos_reading_' = 0 /\ pos_writing_' = 0 /\ block' = Between(0, 0)
      BY <1>3 DEF DrainReading
  <2>2. block' \in Seq(Byte)
      BY <2>1, BetweenFacts
  <2>3. CursorsInBlock' /\ Content' = <<>>
      BY <2>1, <2>2, Emptied
  <2>4. ~ (n < Len(Content))
      BY <1>1, <1>3
  <2> QED
      BY <1>2, <2>3, <2>4, Zenon DEF BytesInOrder!DrainFront
<1>4. CASE ~ (pos_reading_ + n >= pos_writing_)
  <2> DEFINE r == pos_reading_ + n
  <2>1. pos_reading_' = r /\ pos_writing_' = pos_writing_ /\ block' = Between(r, pos_writing_)
      BY <1>4 DEF DrainReading
  <2>2. /\ r \in Nat /\ pos_reading_ <= r /\ r <= pos_writing_ /\ pos_writing_ <= pos_writing_
        /\ n < Len(Content) /\ r - pos_reading_ = n
      BY <1>1, <1>4
  <2> HIDE DEF r
  <2>3. /\ CursorsInBlock'
        /\ Content' = Cut(Content, r - pos_reading_, pos_writing_ - pos_reading_)
      BY <1>1, <2>1, <2>2, Narrowed
  <2>4. Content' = Cut(Content, n, Len(Content))
      BY <1>1, <2>2, <2>3, Zenon
  <2> QED
      BY <1>2, <2>2, <2>3, <2>4, Zenon DEF BytesInOrder!DrainFront, Cut
<1> QED
    BY <1>3, <1>4

LEMMA StripWritingStrips ==
    ASSUME CursorsInBlock, NEW n \in Nat, StripWriting(n)
    PROVE  CursorsInBlock' /\ BytesInOrder!StripEnd(n)
<1>1. /\ pos_reading_ \in Nat /\ pos_writing_ \in Nat /\ pos_reading_ <= pos_writing_
      /\ Len(Content) = pos_writing_ - pos_reading_ /\ Content \in Seq(Byte)
    BY ContentFacts DEF CursorsInBlock, ReadingSize
<1> DEFINE w == IF pos_writing_ >= pos_reading_ + n THEN pos_writing_ - n ELSE pos_writing_
           length == w - pos_reading_
<1>2. /\ called' = <<"StripWriting", n>>
      /\ pos_reading_' = pos_reading_ /\ pos_writing_' = w /\ block' = Between(pos_reading_, w)
    BY DEF StripWriting
<1>3. /\ w \in Nat /\ pos_reading_ <= w /\ w <= pos_writing_ /\ pos_reading_ <= pos_reading_
      /\ pos_reading_ - pos_reading_ = 0
      /\ length = IF n <= Len(Content) THEN Len(Content) - n ELSE Len(Content)
    BY <1>1
<1> HIDE DEF w
<1>4. CursorsInBlock' /\ Content' = Cut(Content, pos_reading_ - pos_reading_, length)
    BY <1>1, <1>2, <1>3, Narrowed
<1> HIDE DEF length
<1>5. Content' = SubSeq(Content, 1, length)
    BY <1>3, <1>4 DEF Cut
<1>6. SubSeq(Content, 1, Len(Content)) = Content
    BY <1>1, SubSeqFull
<1> QED
    BY <1>2, <1>3, <1>4, <1>5, <1>6, Zenon DEF BytesInOrder!StripEnd

LEMMA ShrinkSpaceKeeps ==
    ASSUME CursorsInBlock, NEW n \in Nat, ShrinkSpace(n)
    PROVE  CursorsInBlock' /\ BytesInOrder!Keep(n)
<1>1. called' = <<"ShrinkSpace", n>>
    BY DEF ShrinkSpace
<1>2. CASE block = <<>> \/ Capacity < n \/ ReadingSize > n
  <2>1. block' = block /\ pos_reading_' = pos_reading_ /\ pos_writing_' = pos_writing_
      BY <1>2 DEF ShrinkSpace, bufferBytes
  <2> QED
      BY <1>1, <2>1 DEF CursorsInBlock, Content, BytesInOrder!Keep
<1>3. CASE ~ (block = <<>> \/ Capacity < n \/ ReadingSize > n)
  <2>1. block' = Fresh(n, Content) /\ pos_reading_' = 0 /\ pos_writing_' = ReadingSize
      BY <1>3 DEF ShrinkSpace
  <2>2. Content \in Seq(Byte) /\ ReadingSize \in Nat /\ Len(Content) = ReadingSize
      BY ContentFacts
  <2>3. Len(Content) <= n
      BY <1>3, <2>2
  <2>4. /\ block' \in Seq(Byte) /\ Len(block') = n
        /\ \A i \in 1 .. Len(Content) : block'[i] = Content[i]
      BY <2>1, <2>2, <2>3, FreshFacts
  <2>5. CursorsInBlock'
      BY <2>1, <2>2, <2>3, <2>4 DEF CursorsInBlock
  <2>6. /\ 0 <= ReadingSize /\ ReadingSize <= Len(block') /\ Len(Content) = ReadingSize - 0
        /\ \A i \in 1 .. ReadingSize - 0 : Content[i] = block'[0 + i]
      BY <2>2, <2>3, <2>4
  <2>7. Cut(block', 0, ReadingSize) = Content
      BY ONLY <2>2, <2>4, <2>6, CutSame
  <2>8. Content' = Content
      BY <2>1, <2>7 DEF Content, Cut
  <2> QED
      BY <1>1, <2>5, <2>8 DEF BytesInOrder!Keep
<1> QED
    BY <1>2, <1>3

LEMMA ClearClears ==
    ASSUME CursorsInBlock, ResetAll \/ DestroyAll
    PROVE  CursorsInBlock' /\ BytesInOrder!Clear
<1>1. called' = <<"Clear", 0>> /\ pos_reading_' = 0 /\ pos_writing_' = 0
    BY DEF ResetAll, DestroyAll
<1>2. block' = Between(0, 0) \/ block' = <<>>
    BY DEF ResetAll, DestroyAll
<1>3. block' \in Seq(Byte)
    BY <1>2, BetweenFacts, EmptySeq
<1>4. CursorsInBlock' /\ Content' = <<>>
    BY <1>1, <1>3, Emptied
<1> QED
    BY <1>1, <1>4 DEF BytesInOrder!Clear

LEMMA BufferStart ==
    ASSUME BufferInit
    PROVE  CursorsInBlock /\ BytesInOrder!QueueInit
<1>1. block = <<>> /\ pos_reading_ = 0 /\ pos_writing_ = 0 /\ called = <<"none", 0>>
    BY DEF BufferInit
<1>2. <<>> \in Seq(Byte) /\ Len(<<>>) = 0
    BY EmptySeq
<1>3. CursorsInBlock
    BY <1>1, <1>2 DEF CursorsInBlock
<1>4. Cut(block, 0, 0) = <<>>
    BY EmptyCut
<1>5. Content = <<>>
    BY <1>1, <1>4 DEF Content, Cut
<1> QED
    BY <1>1, <1>3, <1>5 DEF BytesInOrder!QueueInit

LEMMA BufferStep ==
    ASSUME CursorsInBlock, BufferAssumption, [BufferNext]_bufferState
    PROVE  CursorsInBlock' /\ [BytesInOrder!QueueNext]_<<Content, called>>
<1> USE DEF BytesInOrder!QueueNext
<1>1. ASSUME NEW data \in Data, Write(data)
      PROVE  CursorsInBlock' /\ BytesInOrder!QueueNext
    BY <1>1, WriteAppends
<1>2. ASSUME NEW n \in Count, DrainReading(n) \/ StripWriting(n) \/ ShrinkSpace(n)
      PROVE  CursorsInBlock' /\ BytesInOrder!QueueNext
  <2>1. n \in Nat
      BY DEF BufferAssumption
  <2> QED
      BY <1>2, <2>1, DrainReadingDrains, StripWritingStrips, ShrinkSpaceKeeps
<1>3. CASE ResetAll \/ DestroyAll
    BY <1>3, ClearClears
<1>4. CASE UNCHANGED bufferState
    BY <1>4 DEF bufferState, bufferBytes, CursorsInBlock, Content
<1> QED
    BY <1>1, <1>2, <1>3, <1>4 DEF BufferNext

(* The cursors are in order and never leave the block, whatever it was     *)
(* enlarged, moved, shrunk or given back to: Write, DrainReading,          *)
(* StripWriting, ShrinkSpace, ResetAll and DestroyAll of common/buffer. *)
THEOREM BufferCursors == BufferSpec => []CursorsInBlock
<1>1. BufferInit => CursorsInBlock
    BY BufferStart
<1>2. CursorsInBlock /\ [BufferNext]_bufferState => CursorsInBlock'
    BY BufferAssumption, BufferStep
<1> QED
    BY <1>1, <1>2, PTL DEF BufferSpec

(* The buffer is the queue of bytes that OnRead, Encode and the parsers    *)
(* take it for: EnsureSize and ShrinkSpace move the bytes, but never lose, *)
(* repeat or reorder one, and what is written always fits. *)
THEOREM BufferImplementsQueue == BufferSpec => BufferIsQueue
<1>1. BufferInit => BytesInOrder!QueueInit
    BY BufferStart
<1>2. CursorsInBlock /\ [BufferNext]_bufferState => [BytesInOrder!QueueNext]_<<Content, called>>
    BY BufferAssumption, BufferStep
<1>3. BufferSpec => []CursorsInBlock
    BY BufferCursors
<1> QED
    BY <1>1, <1>2, <1>3, PTL DEF BufferSpec, BufferIsQueue, BytesInOrder!QueueSpec

----------------------------------------------------------------------------
(* The pieces of frames, and lines of them in which a frame is whole and   *)
(* the frames follow each other in the order in which they were sent: only *)
(* at the front and at the end may a part be missing.                      *)
Piece == {p \in (DOMAIN FrameSize) \X Nat : p[2] \in 1 .. FrameSize[p[1]]}

Follows(a, b) ==
    \/ b[1] = a[1] /\ b[2] = a[2] + 1
    \/ a[2] = FrameSize[a[1]] /\ b[2] = 1 /\ a[1] < b[1]

Chained(q) == q \in Seq(Piece) /\ \A i \in 1 .. Len(q) - 1 : Follows(q[i], q[i + 1])

(* No frame is cut after the first p pieces. *)
Boundary(q, p) == p = 0 \/ q[p][2] = FrameSize[q[p][1]]

LEMMA PieceFacts ==
    ASSUME StreamAssumption, NEW b \in Piece
    PROVE  /\ b[1] \in DOMAIN FrameSize /\ b[1] \in Nat \ {0} /\ b[2] \in Nat \ {0}
           /\ FrameSize[b[1]] \in Nat \ {0} /\ b[2] <= FrameSize[b[1]] /\ b = <<b[1], b[2]>>
           /\ HeadSize <= FrameSize[b[1]]
<1>1. FrameSize \in Seq(Nat) /\ HeadSize \in Nat \ {0}
    BY DEF StreamAssumption
<1>2. DOMAIN FrameSize = 1 .. Len(FrameSize) /\ Len(FrameSize) \in Nat
    BY <1>1, LenProperties
<1>3. b \in (DOMAIN FrameSize) \X Nat /\ b[2] \in 1 .. FrameSize[b[1]]
    BY DEF Piece
<1>4. b[1] \in DOMAIN FrameSize /\ b[2] \in Nat /\ b = <<b[1], b[2]>>
    BY <1>3
<1>5. FrameSize[b[1]] \in Nat /\ FrameSize[b[1]] >= HeadSize
    BY <1>1, <1>2, <1>4, ElementOfSeq DEF StreamAssumption
<1>6. b[1] \in Nat \ {0}
    BY <1>2, <1>4
<1>7. FrameSize[b[1]] \in Nat \ {0}
    BY <1>1, <1>5
<1> QED
    BY <1>1, <1>3, <1>4, <1>5, <1>6, <1>7

LEMMA PartFacts ==
    ASSUME NEW S, NEW q \in Seq(S), NEW a \in Nat, NEW b \in Nat, a <= b, b <= Len(q)
    PROVE  /\ SubSeq(q, a + 1, b) \in Seq(S) /\ Len(SubSeq(q, a + 1, b)) = b - a
           /\ \A i \in 1 .. b - a : SubSeq(q, a + 1, b)[i] = q[a + i]
<1>1. \A i \in a + 1 .. b : q[i] \in S
    BY ElementOfSeq
<1>2. /\ SubSeq(q, a + 1, b) \in Seq(S)
      /\ Len(SubSeq(q, a + 1, b)) = IF a + 1 <= b THEN b - (a + 1) + 1 ELSE 0
      /\ \A i \in 1 .. b - (a + 1) + 1 : SubSeq(q, a + 1, b)[i] = q[a + 1 + i - 1]
    BY <1>1, SubSeqProperties
<1> DEFINE s == SubSeq(q, a + 1, b)
<1> HIDE DEF s
<1>3. Len(s) = b - a
    BY <1>2 DEF s
<1>4. ASSUME NEW i \in 1 .. b - a
      PROVE  s[i] = q[a + i]
  <2>1. a + 1 + i - 1 = a + i /\ i \in 1 .. b - (a + 1) + 1
      OBVIOUS
  <2> QED
      BY <1>2, <2>1 DEF s
<1> QED
    BY <1>2, <1>3, <1>4 DEF s

LEMMA DropFacts ==
    ASSUME NEW S, NEW q \in Seq(S), NEW n \in Nat, n <= Len(q)
    PROVE  /\ DropFront(q, n) \in Seq(S) /\ Len(DropFront(q, n)) = Len(q) - n
           /\ \A i \in 1 .. Len(q) - n : DropFront(q, n)[i] = q[n + i]
<1>1. Len(q) \in Nat
    BY LenProperties
<1> QED
    BY <1>1, PartFacts DEF DropFront

LEMMA TakeFacts ==
    ASSUME NEW S, NEW q \in Seq(S), NEW n \in Nat, n <= Len(q)
    PROVE  /\ SubSeq(q, 1, n) \in Seq(S) /\ Len(SubSeq(q, 1, n)) = n
           /\ \A i \in 1 .. n : SubSeq(q, 1, n)[i] = q[i]
<1>1. /\ SubSeq(q, 0 + 1, n) \in Seq(S) /\ Len(SubSeq(q, 0 + 1, n)) = n - 0
      /\ \A i \in 1 .. n - 0 : SubSeq(q, 0 + 1, n)[i] = q[0 + i]
    BY PartFacts
<1>2. 0 + 1 = 1 /\ n - 0 = n /\ \A i \in 1 .. n : 0 + i = i
    OBVIOUS
<1> QED
    BY <1>1, <1>2

LEMMA TakeDrop ==
    ASSUME NEW S, NEW q \in Seq(S), NEW n \in Nat, n <= Len(q)
    PROVE  SubSeq(q, 1, n) \o DropFront(q, n) = q
<1>1. Len(q) \in Nat
    BY LenProperties
<1>2. 1 \in 1 .. Len(q) + 1 /\ n \in 1 - 1 .. Len(q) /\ Len(q) \in n .. Len(q)
    BY <1>1
<1>3. SubSeq(q, 1, n) \o SubSeq(q, n + 1, Len(q)) = SubSeq(q, 1, Len(q))
    BY <1>2, ConcatAdjacentSubSeq
<1> QED
    BY <1>3, SubSeqFull DEF DropFront

(* What is dropped off the front of s \o t is dropped off s. *)
LEMMA DropOfConcat ==
    ASSUME NEW S, NEW s \in Seq(S), NEW t \in Seq(S), NEW n \in Nat, n <= Len(s)
    PROVE  DropFront(s \o t, n) = DropFront(s, n) \o t
<1> DEFINE u == DropFront(s, n)
           v == SubSeq(s, 1, n)
<1>1. u \in Seq(S) /\ v \in Seq(S) /\ Len(v) = n /\ Len(u) = Len(s) - n
    BY DropFacts, TakeFacts
<1>2. s = v \o u
    BY TakeDrop
<1>3. Len(s) \in Nat /\ Len(t) \in Nat
    BY LenProperties
<1> HIDE DEF u, v
<1> DEFINE w == s \o t
           x == u \o t
<1>4. /\ w \in Seq(S) /\ Len(w) = Len(s) + Len(t)
      /\ \A i \in 1 .. Len(s) + Len(t) : w[i] = IF i <= Len(s) THEN s[i] ELSE t[i - Len(s)]
    BY ConcatProperties
<1>5. /\ x \in Seq(S) /\ Len(x) = Len(u) + Len(t)
      /\ \A i \in 1 .. Len(u) + Len(t) : x[i] = IF i <= Len(u) THEN u[i] ELSE t[i - Len(u)]
    BY <1>1, ConcatProperties
<1> HIDE DEF w, x
<1>6. /\ DropFront(w, n) \in Seq(S) /\ Len(DropFront(w, n)) = Len(w) - n
      /\ \A i \in 1 .. Len(w) - n : DropFront(w, n)[i] = w[n + i]
  <2>1. n <= Len(w)
      BY <1>3, <1>4
  <2> QED
      BY <1>4, <2>1, DropFacts
<1>7. \A i \in 1 .. Len(s) - n : u[i] = s[n + i]
    BY DropFacts DEF u
<1>8. ASSUME NEW i \in 1 .. Len(x)
      PROVE  x[i] = DropFront(w, n)[i]
  <2>1. i \in 1 .. Len(w) - n /\ n + i \in 1 .. Len(s) + Len(t) /\ i \in 1 .. Len(u) + Len(t)
      BY <1>1, <1>3, <1>4, <1>5
  <2>2. DropFront(w, n)[i] = IF n + i <= Len(s) THEN s[n + i] ELSE t[n + i - Len(s)]
      BY <1>4, <1>6, <2>1
  <2>3. x[i] = IF i <= Len(u) THEN u[i] ELSE t[i - Len(u)]
      BY <1>5, <2>1
  <2>4. CASE i <= Len(u)
    <3>1. i \in 1 .. Len(s) - n /\ n + i <= Len(s)
        BY <1>1, <1>3, <2>4
    <3> QED
        BY <1>7, <2>2, <2>3, <2>4, <3>1
  <2>5. CASE ~ (i <= Len(u))
    <3>1. ~ (n + i <= Len(s)) /\ n + i - Len(s) = i - Len(u)
        BY <1>1, <1>3, <2>5
    <3> QED
        BY <2>2, <2>3, <2>5, <3>1
  <2> QED
      BY <2>4, <2>5
<1>9. Len(x) = Len(DropFront(w, n))
    BY <1>1, <1>3, <1>4, <1>5, <1>6
<1>10. x = DropFront(w, n)
    BY <1>5, <1>6, <1>8, <1>9, SeqEqual
<1> QED
    BY <1>10 DEF w, x, u

LEMMA ChainedTake ==
    ASSUME NEW q, Chained(q), NEW n \in Nat, n <= Len(q)
    PROVE  Chained(SubSeq(q, 1, n))
<1> DEFINE s == SubSeq(q, 1, n)
<1>1. q \in Seq(Piece) /\ Len(q) \in Nat /\ \A i \in 1 .. Len(q) - 1 : Follows(q[i], q[i + 1])
    BY LenProperties DEF Chained
<1>2. s \in Seq(Piece) /\ Len(s) = n /\ \A i \in 1 .. n : s[i] = q[i]
    BY <1>1, TakeFacts
<1> HIDE DEF s
<1>3. ASSUME NEW i \in 1 .. Len(s) - 1
      PROVE  Follows(s[i], s[i + 1])
  <2>1. i \in 1 .. n /\ i + 1 \in 1 .. n /\ i \in 1 .. Len(q) - 1
      BY <1>1, <1>2
  <2>2. s[i] = q[i] /\ s[i + 1] = q[i + 1]
      BY <1>2, <2>1
  <2> QED
      BY <1>1, <2>1, <2>2, Zenon
<1> QED
    BY <1>2, <1>3 DEF Chained, s

LEMMA ChainedDrop ==
    ASSUME NEW q, Chained(q), NEW n \in Nat, n <= Len(q)
    PROVE  Chained(DropFront(q, n))
<1> DEFINE s == DropFront(q, n)
<1>1. q \in Seq(Piece) /\ Len(q) \in Nat /\ \A i \in 1 .. Len(q) - 1 : Follows(q[i], q[i + 1])
    BY LenProperties DEF Chained
<1>2. s \in Seq(Piece) /\ Len(s) = Len(q) - n /\ \A i \in 1 .. Len(q) - n : s[i] = q[n + i]
    BY <1>1, DropFacts
<1> HIDE DEF s
<1>3. ASSUME NEW i \in 1 .. Len(s) - 1
      PROVE  Follows(s[i], s[i + 1])
  <2>1. /\ i \in 1 .. Len(q) - n /\ i + 1 \in 1 .. Len(q) - n
        /\ n + i \in 1 .. Len(q) - 1 /\ n + (i + 1) = n + i + 1
      BY <1>1, <1>2
  <2>2. s[i] = q[n + i] /\ s[i + 1] = q[n + i + 1]
    <3>1. s[i + 1] = q[n + (i + 1)]
        BY <1>2, <2>1, Zenon
    <3> QED
        BY <1>2, <2>1, <3>1
  <2> QED
      BY <1>1, <2>1, <2>2, Zenon
<1> QED
    BY <1>2, <1>3 DEF Chained, s

LEMMA ChainedJoin ==
    ASSUME NEW s, NEW t, Chained(s), Chained(t),
           s # <<>> /\ t # <<>> => Follows(s[Len(s)], t[1])
    PROVE  Chained(s \o t)
<1> DEFINE q == s \o t
<1>1. /\ s \in Seq(Piece) /\ Len(s) \in Nat /\ \A i \in 1 .. Len(s) - 1 : Follows(s[i], s[i + 1])
      /\ t \in Seq(Piece) /\ Len(t) \in Nat /\ \A i \in 1 .. Len(t) - 1 : Follows(t[i], t[i + 1])
    BY LenProperties DEF Chained
<1>2. /\ q \in Seq(Piece) /\ Len(q) = Len(s) + Len(t)
      /\ \A i \in 1 .. Len(s) + Len(t) : q[i] = IF i <= Len(s) THEN s[i] ELSE t[i - Len(s)]
    BY <1>1, ConcatProperties
<1>3. (s = <<>> => Len(s) = 0) /\ (t = <<>> => Len(t) = 0)
    BY EmptySeq
<1> HIDE DEF q
<1>4. ASSUME NEW i \in 1 .. Len(q) - 1
      PROVE  Follows(q[i], q[i + 1])
  <2>1. i \in 1 .. Len(s) + Len(t) /\ i + 1 \in 1 .. Len(s) + Len(t)
      BY <1>1, <1>2
  <2>2. /\ q[i] = IF i <= Len(s) THEN s[i] ELSE t[i - Len(s)]
        /\ q[i + 1] = IF i + 1 <= Len(s) THEN s[i + 1] ELSE t[i + 1 - Len(s)]
      BY <1>2, <2>1
  <2>3. CASE i + 1 <= Len(s)
    <3>1. i <= Len(s) /\ i \in 1 .. Len(s) - 1
        BY <1>1, <2>3
    <3> QED
        BY <1>1, <2>2, <2>3, <3>1, Zenon
  <2>4. CASE i = Len(s)
    <3>1. ~ (i + 1 <= Len(s)) /\ i <= Len(s) /\ i + 1 - Len(s) = 1 /\ Len(s) # 0 /\ Len(t) # 0
        BY <1>1, <1>2, <2>4
    <3>2. q[i] = s[Len(s)] /\ q[i + 1] = t[1]
        BY <2>2, <2>4, <3>1
    <3> QED
        BY <1>3, <3>1, <3>2
  <2>5. CASE i > Len(s)
    <3>1. ~ (i + 1 <= Len(s)) /\ ~ (i <= Len(s)) /\ i - Len(s) \in 1 .. Len(t) - 1
          /\ i + 1 - Len(s) = (i - Len(s)) + 1
        BY <1>1, <1>2, <2>5
    <3>2. q[i] = t[i - Len(s)] /\ q[i + 1] = t[(i - Len(s)) + 1]
        BY <2>2, <3>1
    <3> QED
        BY <1>1, <3>1, <3>2, Zenon
  <2> QED
      BY <1>1, <2>3, <2>4, <2>5
<1> QED
    BY <1>2, <1>4 DEF Chained, q

LEMMA PiecesFacts ==
    ASSUME StreamAssumption, NEW f \in DOMAIN FrameSize
    PROVE  /\ Chained(Pieces(f)) /\ Len(Pieces(f)) = FrameSize[f] /\ FrameSize[f] \in Nat \ {0}
           /\ \A i \in 1 .. FrameSize[f] : Pieces(f)[i] = <<f, i>>
           /\ f \in Nat \ {0}
<1>1. FrameSize \in Seq(Nat) /\ HeadSize \in Nat \ {0} /\ FrameSize[f] >= HeadSize
    BY DEF StreamAssumption
<1>2. DOMAIN FrameSize = 1 .. Len(FrameSize) /\ Len(FrameSize) \in Nat
    BY <1>1, LenProperties
<1>3. FrameSize[f] \in Nat
    BY <1>1, <1>2, ElementOfSeq
<1>4. FrameSize[f] \in Nat \ {0} /\ f \in Nat \ {0}
    BY <1>1, <1>2, <1>3
<1> DEFINE n == FrameSize[f]
           q == Pieces(f)
<1>5. \A i \in 1 .. n : <<f, i>> \in Piece
    BY <1>4 DEF Piece
<1>6. q = [i \in 1 .. n |-> <<f, i>>]
    BY DEF Pieces
<1> HIDE DEF q, n
<1>7. q \in [1 .. n -> Piece]
    BY <1>5, <1>6
<1>8. n \in Nat
    BY <1>4 DEF n
<1>9. q \in Seq(Piece)
    BY <1>7, <1>8, SeqDef
<1>10. Len(q) = n
  <2>1. Len(q) \in Nat /\ DOMAIN q = 1 .. Len(q) /\ DOMAIN q = 1 .. n
      BY <1>7, <1>9, LenProperties
  <2>2. \A k, m \in Nat : 1 .. k = 1 .. m => k = m
      OBVIOUS
  <2> QED
      BY <1>8, <2>1, <2>2, Zenon
<1>11. \A i \in 1 .. n : q[i] = <<f, i>>
    BY <1>6
<1>12. ASSUME NEW i \in 1 .. Len(q) - 1
       PROVE  Follows(q[i], q[i + 1])
  <2>1. i \in 1 .. n /\ i + 1 \in 1 .. n
      BY <1>8, <1>10
  <2>2. q[i] = <<f, i>> /\ q[i + 1] = <<f, i + 1>>
      BY <1>11, <2>1
  <2> QED
      BY <2>2 DEF Follows
<1> QED
    BY <1>4, <1>9, <1>10, <1>11, <1>12 DEF Chained, q, n

----------------------------------------------------------------------------
(* Decode of a chained buffer.                                             *)

(* What follows a frame that is whole is the beginning of another.         *)
LEMMA FrameBegins ==
    ASSUME StreamAssumption, NEW q, Chained(q), NEW p \in Nat \ {0}, p < Len(q), Boundary(q, p)
    PROVE  q[p + 1][2] = 1 /\ q[p][1] < q[p + 1][1]
<1>1. q \in Seq(Piece) /\ Len(q) \in Nat
    BY LenProperties DEF Chained
<1>2. p \in 1 .. Len(q) - 1 /\ p \in 1 .. Len(q) /\ p + 1 \in 1 .. Len(q)
    BY <1>1
<1>3. q[p] \in Piece /\ q[p + 1] \in Piece
    BY <1>1, <1>2, ElementOfSeq
<1> DEFINE a == q[p]
           b == q[p + 1]
<1>4. Follows(a, b) /\ a[2] = FrameSize[a[1]]
    BY <1>2 DEF Chained, Boundary
<1>5. /\ FrameSize[b[1]] \in Nat \ {0} /\ b[2] <= FrameSize[b[1]]
      /\ FrameSize[a[1]] \in Nat /\ a[2] \in Nat /\ b[2] \in Nat
    BY <1>3, PieceFacts
<1> HIDE DEF a, b
<1>6. b[2] = 1 /\ a[1] < b[1]
    BY <1>4, <1>5 DEF Follows
<1> QED
    BY <1>6 DEF a, b

(* A decoded frame is one of those that were sent.                         *)
LEMMA DecodeFacts ==
    ASSUME StreamAssumption, NEW q, Chained(q), NEW p \in 0 .. Len(q)
    PROVE  /\ DecodeFrame(q, p) \in Int
           /\ DecodeFrame(q, p) > 0 =>
                 /\ p + DecodeFrame(q, p) \in p + 1 .. Len(q)
                 /\ q[p + 1][1] \in DOMAIN FrameSize
                 /\ DecodeFrame(q, p) = FrameSize[q[p + 1][1]]
                 /\ q[p + DecodeFrame(q, p)][1] = q[p + 1][1]
                 /\ SubSeq(q, p + 1, p + DecodeFrame(q, p)) = Pieces(q[p + 1][1])
                 /\ Boundary(q, p + DecodeFrame(q, p))
<1>1. q \in Seq(Piece) /\ Len(q) \in Nat /\ HeadSize \in Nat \ {0} /\ p \in Nat
    BY LenProperties DEF Chained, StreamAssumption
<1> DEFINE f == q[p + 1][1]
           total == Len(q) - p
           d == DecodeFrame(q, p)
<1>2. d = IF total < HeadSize THEN 0
          ELSE IF \E i \in 1 .. HeadSize : q[p + i] # <<f, i>> THEN -1
          ELSE IF total < FrameSize[f] THEN -1
          ELSE FrameSize[f]
    BY DEF DecodeFrame
<1> HIDE DEF d
<1>3. CASE total < HeadSize
    BY <1>2, <1>3 DEF d
<1>4. CASE ~ (total < HeadSize)
  <2>1. p + 1 \in 1 .. Len(q)
      BY <1>1, <1>4
  <2>2. q[p + 1] \in Piece
      BY <1>1, <2>1, ElementOfSeq
  <2>3. /\ f \in DOMAIN FrameSize /\ FrameSize[f] \in Nat \ {0} /\ f \in Nat \ {0}
        /\ HeadSize <= FrameSize[f]
      BY <2>2, PieceFacts
  <2> HIDE DEF f
  <2>4. d \in Int
      BY <1>2, <2>3
  <2>5. ASSUME d > 0
        PROVE  /\ p + d \in p + 1 .. Len(q) /\ d = FrameSize[f]
               /\ q[p + d][1] = f
               /\ SubSeq(q, p + 1, p + d) = Pieces(f) /\ Boundary(q, p + d)
    <3>1. /\ d = FrameSize[f] /\ ~ (total < FrameSize[f])
          /\ \A i \in 1 .. HeadSize : q[p + i] = <<f, i>>
      <4> DEFINE Other == \E i \in 1 .. HeadSize : q[p + i] # <<f, i>>
      <4>1. d = IF Other THEN -1 ELSE IF total < FrameSize[f] THEN -1 ELSE FrameSize[f]
          BY <1>2, <1>4, Zenon DEF f
      <4>2. Other => \E i \in 1 .. HeadSize : q[p + i] # <<f, i>>
          OBVIOUS
      <4>3. ~Other => \A i \in 1 .. HeadSize : q[p + i] = <<f, i>>
          OBVIOUS
      <4> HIDE DEF Other
      <4>4. ~Other /\ d = FrameSize[f] /\ ~ (total < FrameSize[f])
          BY <2>5, <4>1
      <4> QED
          BY <4>3, <4>4, Zenon
    <3>2. p + d \in Nat /\ p <= p + d /\ p + d <= Len(q) /\ d \in Nat \ {0} /\ p + d - p = d
        BY <1>1, <2>3, <3>1
    <3> DEFINE Bad == {i \in 1 .. d : q[p + i] # <<f, i>>}
    <3>3. Bad = {}
      <4> SUFFICES ASSUME Bad # {} PROVE FALSE
          OBVIOUS
      <4>1. Bad \subseteq Nat
          OBVIOUS
      <4>2. PICK i \in Bad : \A j \in Bad : i <= j
          BY <4>1, LeastNatural
      <4>3. i \in 1 .. d /\ q[p + i] # <<f, i>>
          OBVIOUS
      <4>4. i \notin 1 .. HeadSize
          BY <3>1, <4>3
      <4>5. i - 1 \in 1 .. d /\ ~ (i <= i - 1)
          BY <1>1, <3>2, <4>3, <4>4
      <4>6. i - 1 \notin Bad
          BY <4>2, <4>5
      <4>7. q[p + (i - 1)] = <<f, i - 1>>
          BY <4>5, <4>6
      <4>8. /\ p + (i - 1) \in 1 .. Len(q) - 1 /\ p + (i - 1) + 1 = p + i /\ p + i \in 1 .. Len(q)
            /\ i - 1 < d /\ i - 1 + 1 = i
          BY <1>1, <3>2, <4>3, <4>5
      <4> DEFINE b == q[p + i]
      <4>9. Follows(<<f, i - 1>>, b)
        <5>1. Follows(q[p + (i - 1)], q[p + (i - 1) + 1])
            BY <4>8 DEF Chained
        <5> QED
            BY <4>7, <4>8, <5>1
      <4>10. b \in Piece
          BY <1>1, <4>8, ElementOfSeq
      <4>11. b = <<b[1], b[2]>>
          BY <4>10, PieceFacts
      <4> HIDE DEF b
      <4>12. b[1] = f /\ b[2] = i - 1 + 1
          BY <3>1, <4>8, <4>9 DEF Follows
      <4>13. b = <<f, i>>
          BY <4>8, <4>11, <4>12
      <4> QED
          BY <4>3, <4>13 DEF b
    <3>4. \A i \in 1 .. d : q[p + i] = <<f, i>>
        BY <3>3
    <3> HIDE DEF Bad
    <3> DEFINE s == SubSeq(q, p + 1, p + d)
               t == Pieces(f)
    <3>5. s \in Seq(Piece) /\ Len(s) = d /\ \A i \in 1 .. d : s[i] = q[p + i]
      <4>1. /\ s \in Seq(Piece) /\ Len(s) = p + d - p
            /\ \A i \in 1 .. p + d - p : s[i] = q[p + i]
          BY <1>1, <3>2, PartFacts
      <4> QED
          BY <3>2, <4>1
    <3>6. t \in Seq(Piece) /\ Len(t) = d /\ \A i \in 1 .. d : t[i] = <<f, i>>
        BY <2>3, <3>1, PiecesFacts DEF Chained
    <3> HIDE DEF s, t
    <3>7. s = t
      <4>1. Len(s) = Len(t) /\ \A i \in 1 .. Len(s) : s[i] = t[i]
          BY <3>4, <3>5, <3>6
      <4> QED
          BY <3>5, <3>6, <4>1, SeqEqual
    <3>8. q[p + d] = <<f, d>>
      <4>1. d \in 1 .. d
          BY <3>2
      <4> QED
          BY ONLY <3>4, <4>1, Zenon
    <3>9. Boundary(q, p + d) /\ q[p + d][1] = f
        BY <3>1, <3>8 DEF Boundary
    <3>10. p + d \in p + 1 .. Len(q)
        BY <1>1, <3>2
    <3> QED
        BY <3>1, <3>7, <3>9, <3>10 DEF s, t
  <2> QED
      BY <2>3, <2>4, <2>5 DEF d, f
<1> QED
    BY <1>1, <1>3, <1>4

(* What is decoded at p does not depend on what was decoded before it.     *)
LEMMA DecodeOfRest ==
    ASSUME StreamAssumption, NEW q, Chained(q), NEW p \in 0 .. Len(q)
    PROVE  DecodeFrame(DropFront(q, p), 0) = DecodeFrame(q, p)
<1> DEFINE s == DropFront(q, p)
           total == Len(q) - p
<1>1. q \in Seq(Piece) /\ Len(q) \in Nat /\ HeadSize \in Nat \ {0} /\ p \in Nat /\ p <= Len(q)
    BY LenProperties DEF Chained, StreamAssumption
<1>2. s \in Seq(Piece) /\ Len(s) = total /\ \A i \in 1 .. total : s[i] = q[p + i]
    BY <1>1, DropFacts
<1> HIDE DEF s
<1>3. Len(s) - 0 = total /\ total \in Nat
    BY <1>1, <1>2
<1>4. CASE total < HeadSize
    BY <1>3, <1>4 DEF DecodeFrame, s
<1>5. CASE ~ (total < HeadSize)
  <2>1. 1 \in 1 .. total /\ 0 + 1 = 1 /\ \A i \in 1 .. HeadSize : i \in 1 .. total /\ 0 + i = i
      BY <1>1, <1>3, <1>5
  <2>2. s[0 + 1][1] = q[p + 1][1]
      BY <1>2, <2>1
  <2>3. \A i \in 1 .. HeadSize : s[0 + i] = q[p + i]
      BY <1>2, <2>1
  <2> DEFINE f == q[p + 1][1]
  <2> DEFINE OtherQ == \E i \in 1 .. HeadSize : q[p + i] # <<f, i>>
             OtherS == \E i \in 1 .. HeadSize : s[0 + i] # <<f, i>>
  <2>4. DecodeFrame(q, p) = IF OtherQ THEN -1 ELSE IF total < FrameSize[f] THEN -1 ELSE FrameSize[f]
      BY <1>5 DEF DecodeFrame
  <2>5. DecodeFrame(s, 0) = IF OtherS THEN -1 ELSE IF total < FrameSize[f] THEN -1 ELSE FrameSize[f]
      BY <1>3, <1>5, <2>2, Zenon DEF DecodeFrame
  <2> HIDE DEF f
  <2>6. OtherS <=> OtherQ
      BY <2>3
  <2> HIDE DEF OtherQ, OtherS
  <2>7. DecodeFrame(s, 0) = DecodeFrame(q, p)
      BY <2>4, <2>5, <2>6
  <2> QED
      BY <2>7 DEF s
<1> QED
    BY <1>4, <1>5

----------------------------------------------------------------------------
(* The loop of DecodeMsg.                                                  *)

ParseStep(buffer, p, parse) ==
    IF DecodeFrame(buffer, p) <= 0
    THEN [msgs |-> <<>>, at |-> p, failed |-> DecodeFrame(buffer, p) = -1]
    ELSE [parse[p + DecodeFrame(buffer, p)] EXCEPT
              !.msgs = <<SubSeq(buffer, p + 1, p + DecodeFrame(buffer, p))>> \o @]

Parses(buffer, S, parse) == parse = [p \in S |-> ParseStep(buffer, p, parse)]

(* The loop ends: the results from the last k places on exist.             *)
LEMMA ParseExists ==
    ASSUME StreamAssumption, NEW q, Chained(q), NEW k \in 0 .. Len(q)
    PROVE  \E parse : Parses(q, Len(q) - k .. Len(q), parse)
<1>1. q \in Seq(Piece) /\ Len(q) \in Nat
    BY LenProperties DEF Chained
<1> DEFINE From(e) == Len(q) - e .. Len(q)
           Bad == {e \in 0 .. Len(q) : ~ \E parse : Parses(q, From(e), parse)}
<1>2. SUFFICES ASSUME Bad # {} PROVE FALSE
    BY DEF Bad
<1>3. Bad \subseteq Nat
    BY <1>1
<1>4. PICK e \in Bad : \A j \in Bad : e <= j
    BY <1>2, <1>3, LeastNatural
<1>5. e \in 0 .. Len(q) /\ e \in Nat
    BY <1>1
<1>6. PICK old : e # 0 => Parses(q, From(e - 1), old)
  <2>1. CASE e = 0
      BY <2>1
  <2>2. CASE e # 0
    <3>1. e - 1 \in 0 .. Len(q) /\ ~ (e <= e - 1)
        BY <1>5, <2>2
    <3>2. e - 1 \notin Bad
        BY <1>4, <3>1
    <3> QED
        BY <3>1, <3>2
  <2> QED
      BY <2>1, <2>2
<1> DEFINE lo == Len(q) - e
           new == [p \in From(e) |-> IF p = lo THEN ParseStep(q, p, old) ELSE old[p]]
<1>7. /\ \A p \in From(e) : p = lo \/ (e # 0 /\ p \in From(e - 1))
      /\ lo \in From(e) /\ lo \in 0 .. Len(q)
      /\ e # 0 => From(e - 1) \subseteq From(e)
      /\ \A p \in From(e) : p \in 0 .. Len(q) /\ lo <= p
    BY <1>1, <1>5
<1> HIDE DEF lo
(* The next place is one of the old ones. *)
<1>8. ASSUME NEW p \in From(e), DecodeFrame(q, p) > 0
      PROVE  /\ p + DecodeFrame(q, p) # lo /\ p + DecodeFrame(q, p) \in From(e)
             /\ new[p + DecodeFrame(q, p)] = old[p + DecodeFrame(q, p)]
  <2> DEFINE d == DecodeFrame(q, p)
  <2>1. p \in 0 .. Len(q) /\ lo <= p /\ lo \in 0 .. Len(q)
      BY <1>7
  <2>2. d \in Int /\ d > 0 /\ p + d \in p + 1 .. Len(q)
      BY <1>8, <2>1, DecodeFacts
  <2> HIDE DEF d
  <2>3. p + d # lo /\ p + d \in From(e)
      BY <1>1, <1>5, <2>1, <2>2 DEF lo
  <2> QED
      BY <2>3 DEF d
<1>9. ASSUME NEW p \in From(e)
      PROVE  new[p] = ParseStep(q, p, new)
  <2>1. ParseStep(q, p, new) = ParseStep(q, p, old)
    <3>1. CASE DecodeFrame(q, p) <= 0
        BY <3>1 DEF ParseStep
    <3>2. CASE ~ (DecodeFrame(q, p) <= 0)
      <4>1. DecodeFrame(q, p) \in Int
          BY <1>7, DecodeFacts
      <4>2. DecodeFrame(q, p) > 0
          BY <3>2, <4>1
      <4>3. new[p + DecodeFrame(q, p)] = old[p + DecodeFrame(q, p)]
          BY <1>8, <4>2
      <4> HIDE DEF new
      <4> QED
          BY <3>2, <4>3, Zenon DEF ParseStep
    <3> QED
        BY <3>1, <3>2
  <2>2. CASE p = lo
    <3>1. new[p] = ParseStep(q, p, old)
        BY <2>2
    <3> QED
        BY <2>1, <3>1
  <2>3. CASE p # lo
    <3>1. e # 0 /\ p \in From(e - 1) /\ new[p] = old[p]
        BY <1>7, <2>3
    <3>2. old[p] = ParseStep(q, p, old)
        BY <1>6, <3>1 DEF Parses
    <3> QED
        BY <2>1, <3>1, <3>2
  <2> QED
      BY <2>2, <2>3
<1>10. new = [p \in From(e) |-> ParseStep(q, p, new)]
  <2> DEFINE same == [p \in From(e) |-> ParseStep(q, p, new)]
  <2>1. \A p \in From(e) : new[p] = same[p]
      BY <1>9, Zenon
  <2>2. DOMAIN new = From(e) /\ DOMAIN same = From(e)
      OBVIOUS
  <2>3. new = [p \in From(e) |-> new[p]] /\ same = [p \in From(e) |-> same[p]]
      OBVIOUS
  <2> HIDE DEF new, same
  <2>4. new = same
      BY <2>1, <2>3
  <2> QED
      BY <2>4 DEF same
<1>11. Parses(q, From(e), new)
    BY <1>10 DEF Parses
<1> QED
    BY <1>4, <1>11

LEMMA ParsedIsParse ==
    ASSUME StreamAssumption, NEW q, Chained(q)
    PROVE  \E parse : Parses(q, 0 .. Len(q), parse) /\ Parsed(q) = parse[0]
<1>1. Len(q) \in Nat
    BY LenProperties DEF Chained
<1>2. Len(q) \in 0 .. Len(q) /\ Len(q) - Len(q) = 0
    BY <1>1
<1>3. \E parse : Parses(q, 0 .. Len(q), parse)
    BY <1>2, ParseExists
<1> DEFINE parse == CHOOSE parse : parse = [p \in 0 .. Len(q) |-> ParseStep(q, p, parse)]
<1>4. Parses(q, 0 .. Len(q), parse)
    BY <1>3 DEF Parses
<1>5. Parsed(q) = parse[0]
    BY DEF Parsed, ParseStep
<1> QED
    BY <1>4, <1>5

FrameOf(msg) == msg[1][1]
IsFrame(msg) == FrameOf(msg) \in DOMAIN FrameSize /\ msg = Pieces(FrameOf(msg))

(* What DecodeMsg does from the boundary p on: it decodes whole frames, in *)
(* the order of the line, and stops at a boundary, where it can decode     *)
(* nothing more. *)
DecodesWell(q, p, r) ==
    /\ r.at \in p .. Len(q) /\ DecodeFrame(q, r.at) <= 0 /\ Boundary(q, r.at)
    /\ r.msgs \in Seq(Seq(Piece))
    /\ r.at > p => q[p + 1][1] <= q[r.at][1]
    /\ \A i \in 1 .. Len(r.msgs) :
          /\ IsFrame(r.msgs[i]) /\ r.at > p
          /\ q[p + 1][1] <= FrameOf(r.msgs[i]) /\ FrameOf(r.msgs[i]) <= q[r.at][1]
    /\ \A i, j \in 1 .. Len(r.msgs) : i < j => FrameOf(r.msgs[i]) < FrameOf(r.msgs[j])

LEMMA PiecesIsFrame ==
    ASSUME StreamAssumption, NEW f \in DOMAIN FrameSize
    PROVE  FrameOf(Pieces(f)) = f /\ IsFrame(Pieces(f)) /\ Pieces(f) \in Seq(Piece)
<1>1. 1 \in 1 .. FrameSize[f] /\ Pieces(f)[1] = <<f, 1>> /\ Pieces(f) \in Seq(Piece)
  <2>1. 1 \in 1 .. FrameSize[f]
      BY PiecesFacts
  <2> QED
      BY <2>1, PiecesFacts DEF Chained
<1>2. FrameOf(Pieces(f)) = f
    BY <1>1 DEF FrameOf
<1> QED
    BY <1>1, <1>2 DEF IsFrame

(* One frame, and what is decoded after it. *)
LEMMA DecodesOneMore ==
    ASSUME StreamAssumption, NEW q, Chained(q), NEW p \in 0 .. Len(q), DecodeFrame(q, p) > 0,
           NEW more, DecodesWell(q, p + DecodeFrame(q, p), more),
           NEW r, r = [more EXCEPT !.msgs =
                           <<SubSeq(q, p + 1, p + DecodeFrame(q, p))>> \o @],
           {"msgs", "at"} \subseteq DOMAIN more
    PROVE  DecodesWell(q, p, r) /\ {"msgs", "at"} \subseteq DOMAIN r
<1> DEFINE to == p + DecodeFrame(q, p)
           f == q[p + 1][1]
           msg == SubSeq(q, p + 1, to)
           tail == more.msgs
           at == more.at
<1>1. q \in Seq(Piece) /\ Len(q) \in Nat /\ p \in Nat
    BY LenProperties DEF Chained
<1>2. /\ to \in p + 1 .. Len(q) /\ f \in DOMAIN FrameSize /\ q[to][1] = f /\ msg = Pieces(f)
      /\ Boundary(q, to)
    BY DecodeFacts
<1>3. r.msgs = <<msg>> \o tail /\ r.at = at /\ {"msgs", "at"} \subseteq DOMAIN r
    OBVIOUS
<1>4. FrameOf(msg) = f /\ IsFrame(msg) /\ msg \in Seq(Piece) /\ f \in Nat
    BY <1>2, PiecesIsFrame, PiecesFacts
<1>5. /\ at \in to .. Len(q) /\ DecodeFrame(q, at) <= 0 /\ Boundary(q, at)
      /\ tail \in Seq(Seq(Piece))
      /\ at > to => q[to + 1][1] <= q[at][1]
      /\ \A i \in 1 .. Len(tail) :
            /\ IsFrame(tail[i]) /\ at > to
            /\ q[to + 1][1] <= FrameOf(tail[i]) /\ FrameOf(tail[i]) <= q[at][1]
      /\ \A i, j \in 1 .. Len(tail) : i < j => FrameOf(tail[i]) < FrameOf(tail[j])
    BY DEF DecodesWell
<1> HIDE DEF to, msg, tail, at, f
<1>6. /\ to \in Nat \ {0} /\ at \in Nat \ {0} /\ at > p /\ at \in p .. Len(q) /\ Len(tail) \in Nat
      /\ at > to => to < Len(q) /\ to + 1 \in 1 .. Len(q)
  <2>1. Len(tail) \in Nat
      BY <1>5, LenProperties
  <2>2. to \in p + 1 .. Len(q) /\ at \in to .. Len(q) /\ Len(q) \in Nat /\ p \in Nat
      BY <1>1, <1>2, <1>5, Zenon
  <2> QED
      BY ONLY <2>1, <2>2
<1>7. \A k \in 1 .. Len(q) : q[k][1] \in Nat
    BY <1>1, ElementOfSeq, PieceFacts
<1>8. at > to => f < q[to + 1][1]
    BY <1>2, <1>6, FrameBegins
<1>9. f <= q[at][1]
  <2>1. at \in 1 .. Len(q) /\ (at = to \/ at > to)
      BY <1>1, <1>2, <1>5, <1>6
  <2>2. CASE at = to
      BY <1>2, <1>4, <2>2
  <2>3. CASE at > to
    <3>1. q[to + 1][1] \in Nat /\ q[at][1] \in Nat /\ q[to + 1][1] <= q[at][1] /\ f < q[to + 1][1]
        BY <1>5, <1>6, <1>7, <1>8, <2>1, <2>3, Zenon
    <3> QED
        BY ONLY <1>4, <3>1
  <2> QED
      BY <2>1, <2>2, <2>3
<1>10. \A i \in 1 .. Len(tail) : f < FrameOf(tail[i])
  <2> SUFFICES ASSUME NEW i \in 1 .. Len(tail) PROVE f < FrameOf(tail[i])
      OBVIOUS
  <2>1. /\ at > to /\ q[to + 1][1] <= FrameOf(tail[i]) /\ FrameOf(tail[i]) \in DOMAIN FrameSize
      BY <1>5 DEF IsFrame
  <2>2. q[to + 1][1] \in Nat /\ f < q[to + 1][1] /\ FrameOf(tail[i]) \in Nat
    <3>1. q[to + 1][1] \in Nat /\ f < q[to + 1][1]
        BY <1>6, <1>7, <1>8, <2>1, Zenon
    <3>2. FrameOf(tail[i]) \in Nat
        BY <2>1, PiecesFacts
    <3> QED
        BY <3>1, <3>2
  <2> QED
      BY ONLY <1>4, <2>1, <2>2
<1> DEFINE msgs == r.msgs
           n == Len(tail)
<1>11. /\ msgs \in Seq(Seq(Piece)) /\ Len(msgs) = n + 1 /\ msgs[1] = msg
       /\ \A i \in 1 .. n : msgs[i + 1] = tail[i]
  <2>1. <<msg>> \in Seq(Seq(Piece)) /\ Len(<<msg>>) = 1 /\ <<msg>>[1] = msg
      BY <1>4
  <2> DEFINE one == <<msg>>
  <2> HIDE DEF one
  <2>2. /\ one \o tail \in Seq(Seq(Piece)) /\ Len(one \o tail) = Len(one) + n
        /\ \A i \in 1 .. Len(one) + n :
              (one \o tail)[i] = IF i <= Len(one) THEN one[i] ELSE tail[i - Len(one)]
      BY <1>5, <2>1, ConcatProperties DEF one
  <2>3. msgs = one \o tail /\ Len(one) = 1 /\ one[1] = msg
      BY <1>3, <2>1 DEF one
  <2> HIDE DEF msgs
  <2>4. \A i \in 1 .. 1 + n : msgs[i] = IF i <= 1 THEN one[i] ELSE tail[i - 1]
      BY <2>2, <2>3
  <2>5. \A i \in 1 .. n : i + 1 \in 1 .. 1 + n /\ ~ (i + 1 <= 1) /\ i + 1 - 1 = i
      BY <1>6
  <2>6. 1 \in 1 .. 1 + n
      BY <1>6
  <2>7. \A i \in 1 .. n : msgs[i + 1] = tail[i]
    <3> SUFFICES ASSUME NEW i \in 1 .. n PROVE msgs[i + 1] = tail[i]
        OBVIOUS
    <3> DEFINE k == i + 1
    <3>2. k \in 1 .. 1 + n /\ ~ (k <= 1) /\ k - 1 = i
        BY <2>5
    <3> HIDE DEF k
    <3>3. msgs[k] = tail[k - 1]
        BY <2>4, <3>2, Zenon
    <3>1. msgs[i + 1] = tail[i]
        BY <3>2, <3>3, Zenon DEF k
    <3> QED
        BY <3>1
  <2>8. msgs[1] = msg
    <3>1. 1 <= 1 /\ one[1] = msg
        BY <2>3
    <3> QED
        BY <2>4, <2>6, <3>1, Zenon
  <2>9. Len(msgs) = n + 1
      BY <1>6, <2>2, <2>3
  <2> QED
      BY <2>2, <2>3, <2>7, <2>8, <2>9, Zenon
<1> HIDE DEF msgs, n
<1>12. ASSUME NEW i \in 1 .. Len(msgs)
       PROVE  i = 1 \/ (i - 1 \in 1 .. n /\ msgs[i] = tail[i - 1])
  <2>1. i = 1 \/ (i - 1 \in 1 .. n /\ i - 1 + 1 = i)
    <3>1. n \in Nat /\ Len(msgs) = n + 1
        BY <1>6, <1>11, Zenon DEF n
    <3> QED
        BY ONLY <3>1, i \in 1 .. Len(msgs)
  <2>2. CASE i = 1
      BY <2>2
  <2>3. CASE i - 1 \in 1 .. n /\ i - 1 + 1 = i
    <3>1. msgs[i - 1 + 1] = tail[i - 1]
        BY <1>11, <2>3, Zenon
    <3> QED
        BY <2>3, <3>1, Zenon
  <2> QED
      BY <2>1, <2>2, <2>3
<1>13. ASSUME NEW i \in 1 .. Len(msgs)
       PROVE  IsFrame(msgs[i]) /\ f <= FrameOf(msgs[i]) /\ FrameOf(msgs[i]) <= q[at][1]
  <2>1. CASE i = 1
      BY <1>4, <1>9, <1>11, <2>1
  <2>2. CASE i - 1 \in 1 .. n /\ msgs[i] = tail[i - 1]
    <3>1. IsFrame(tail[i - 1]) /\ FrameOf(tail[i - 1]) <= q[at][1] /\ f < FrameOf(tail[i - 1])
        BY <1>5, <1>10, <2>2 DEF n
    <3>2. FrameOf(tail[i - 1]) \in Nat
        BY <3>1, PiecesFacts DEF IsFrame
    <3> QED
        BY <1>4, <2>2, <3>1, <3>2
  <2> QED
      BY <1>12, <2>1, <2>2
<1>14. ASSUME NEW i \in 1 .. Len(msgs), NEW j \in 1 .. Len(msgs), i < j
       PROVE  FrameOf(msgs[i]) < FrameOf(msgs[j])
  <2>1. j - 1 \in 1 .. n /\ msgs[j] = tail[j - 1]
      BY <1>12, <1>14
  <2>2. CASE i = 1
      BY <1>4, <1>10, <1>11, <2>1, <2>2 DEF n
  <2>3. CASE i - 1 \in 1 .. n /\ msgs[i] = tail[i - 1]
    <3>1. i - 1 < j - 1
        BY <1>14
    <3> QED
        BY <1>5, <2>1, <2>3, <3>1 DEF n
  <2> QED
      BY <1>12, <2>2, <2>3
<1> QED
    BY <1>3, <1>5, <1>6, <1>9, <1>11, <1>13, <1>14 DEF DecodesWell, msgs, f

LEMMA DecodesWellFrom ==
    ASSUME StreamAssumption, NEW q, Chained(q), NEW parse, Parses(q, 0 .. Len(q), parse),
           NEW p \in 0 .. Len(q), Boundary(q, p)
    PROVE  DecodesWell(q, p, parse[p]) /\ {"msgs", "at"} \subseteq DOMAIN parse[p]
<1>1. q \in Seq(Piece) /\ Len(q) \in Nat
    BY LenProperties DEF Chained
<1> DEFINE OK(k) == DecodesWell(q, k, parse[k]) /\ {"msgs", "at"} \subseteq DOMAIN parse[k]
           Bad == {e \in 0 .. Len(q) : Boundary(q, Len(q) - e) /\ ~OK(Len(q) - e)}
<1>2. Bad = {}
  <2> SUFFICES ASSUME Bad # {} PROVE FALSE
      OBVIOUS
  <2>1. Bad \subseteq Nat
      BY <1>1
  <2>2. PICK e \in Bad : \A j \in Bad : e <= j
      BY <2>1, LeastNatural
  <2> DEFINE k == Len(q) - e
             d == DecodeFrame(q, k)
  <2>3. e \in 0 .. Len(q) /\ Boundary(q, k) /\ ~OK(k)
      OBVIOUS
  <2>4. k \in 0 .. Len(q)
      BY <1>1, <2>3
  <2> HIDE DEF k, Bad
  <2>5. parse[k] = ParseStep(q, k, parse)
      BY <2>4 DEF Parses
  <2>6. d \in Int
      BY <2>4, DecodeFacts
  <2>7. CASE d <= 0
    <3>1. parse[k] = [msgs |-> <<>>, at |-> k, failed |-> d = -1]
        BY <2>5, <2>7 DEF ParseStep
    <3>2. k \in k .. Len(q) /\ ~ (k > k)
        BY <1>1, <2>4
    <3>3. <<>> \in Seq(Seq(Piece)) /\ Len(<<>>) = 0
        BY EmptySeq
    <3>4. DecodesWell(q, k, parse[k])
      <4> DEFINE r == parse[k]
      <4>1. r.at = k /\ r.msgs = <<>>
          BY <3>1
      <4> HIDE DEF r
      <4>2. r.msgs \in Seq(Seq(Piece)) /\ 1 .. Len(r.msgs) = {}
          BY <3>3, <4>1
      <4>3. DecodesWell(q, k, r)
          BY <2>3, <2>7, <3>2, <4>1, <4>2 DEF DecodesWell
      <4> QED
          BY <4>3 DEF r
    <3> QED
        BY <2>3, <3>1, <3>4
  <2>8. CASE d > 0
    <3>1. k + d \in k + 1 .. Len(q) /\ Boundary(q, k + d)
        BY <2>4, <2>8, DecodeFacts
    <3> DEFINE b == Len(q) - (k + d)
    <3>2. b \in 0 .. Len(q) /\ ~ (e <= b) /\ Len(q) - b = k + d
        BY <1>1, <2>3, <2>4, <2>6, <2>8, <3>1 DEF k
    <3>3. b \notin Bad
        BY <2>2, <3>2
    <3>4. OK(k + d)
        BY <3>1, <3>2, <3>3 DEF Bad
    <3>5. parse[k] = [parse[k + d] EXCEPT !.msgs = <<SubSeq(q, k + 1, k + d)>> \o @]
        BY <2>5, <2>6, <2>8 DEF ParseStep
    <3>6. OK(k)
      <4> DEFINE more == parse[k + d]
                 r == parse[k]
      <4>1. DecodesWell(q, k + d, more) /\ {"msgs", "at"} \subseteq DOMAIN more
          BY <3>4
      <4>2. r = [more EXCEPT !.msgs = <<SubSeq(q, k + 1, k + d)>> \o @]
          BY <3>5
      <4> HIDE DEF more, r
      <4>3. DecodesWell(q, k, r) /\ {"msgs", "at"} \subseteq DOMAIN r
          BY <2>4, <2>8, <4>1, <4>2, DecodesOneMore
      <4> QED
          BY <4>3 DEF r
    <3> QED
        BY <2>3, <3>6
  <2> QED
      BY <2>6, <2>7, <2>8
<1>3. Len(q) - p \in 0 .. Len(q) /\ Len(q) - (Len(q) - p) = p
    BY <1>1
<1>4. OK(p)
    BY <1>2, <1>3
<1> QED
    BY <1>4

LEMMA ParsedFacts ==
    ASSUME StreamAssumption, NEW q, Chained(q)
    PROVE  /\ DecodesWell(q, 0, Parsed(q))
           /\ DecodeFrame(q, 0) <= 0 => Parsed(q).msgs = <<>>
           /\ Parsed(DropFront(q, Parsed(q).at)).msgs = <<>>
<1>1. \A s : Chained(s) => /\ DecodesWell(s, 0, Parsed(s))
                           /\ DecodeFrame(s, 0) <= 0 => Parsed(s).msgs = <<>>
  <2> SUFFICES ASSUME NEW s, Chained(s)
               PROVE  /\ DecodesWell(s, 0, Parsed(s))
                      /\ DecodeFrame(s, 0) <= 0 => Parsed(s).msgs = <<>>
      OBVIOUS
  <2>1. PICK parse : Parses(s, 0 .. Len(s), parse) /\ Parsed(s) = parse[0]
      BY ParsedIsParse
  <2>2. 0 \in 0 .. Len(s) /\ Boundary(s, 0)
      BY LenProperties DEF Chained, Boundary
  <2>3. DecodesWell(s, 0, Parsed(s))
      BY <2>1, <2>2, DecodesWellFrom
  <2>4. parse[0] = ParseStep(s, 0, parse)
      BY <2>1, <2>2 DEF Parses
  <2> QED
      BY <2>1, <2>3, <2>4 DEF ParseStep
<1>2. Parsed(q).at \in 0 .. Len(q) /\ DecodeFrame(q, Parsed(q).at) <= 0
    BY <1>1 DEF DecodesWell
<1> DEFINE at == Parsed(q).at
<1> HIDE DEF at
<1>3. at \in Nat /\ at <= Len(q) /\ at \in 0 .. Len(q) /\ DecodeFrame(q, at) <= 0
    BY <1>2, LenProperties DEF Chained, at
<1>4. Chained(DropFront(q, at)) /\ DecodeFrame(DropFront(q, at), 0) <= 0
    BY <1>3, ChainedDrop, DecodeOfRest
<1>5. Parsed(DropFront(q, at)).msgs = <<>>
    BY <1>1, <1>4
<1> QED
    BY <1>1, <1>5 DEF at

----------------------------------------------------------------------------
(* The invariant.                                                          *)

(* What has not been decoded: all of it, while the sender may still send   *)
(* the rest of a frame. *)
Line == incoming \o network \o (IF closed THEN <<>> ELSE outgoing)

(* A line of frames that were sent, all of them after those decoded.       *)
Ordered(q, nextFrame, msgs) ==
    /\ Chained(q)
    /\ \A i \in 1 .. Len(q) : q[i][1] < nextFrame
    /\ q # <<>> => \A i \in 1 .. Len(msgs) : FrameOf(msgs[i]) < q[1][1]

MessagesOK(msgs, nextFrame) ==
    /\ msgs \in Seq(Seq(Piece))
    /\ \A i \in 1 .. Len(msgs) : IsFrame(msgs[i]) /\ FrameOf(msgs[i]) < nextFrame
    /\ \A i, j \in 1 .. Len(msgs) : i < j => FrameOf(msgs[i]) < FrameOf(msgs[j])

LineOK ==
    /\ incoming \in Seq(Piece) /\ network \in Seq(Piece) /\ outgoing \in Seq(Piece)
    /\ Len(network) <= Room
    /\ Ordered(Line, next, decoded)
    /\ ~closed => Boundary(Line, Len(Line))
    /\ MessagesOK(decoded, next)
    /\ ~unread => Parsed(incoming).msgs = <<>>

StreamInv == next \in Nat \ {0} /\ (~torn => LineOK)

LEMMA OrderedTake ==
    ASSUME NEW q, NEW nextFrame, NEW msgs, Ordered(q, nextFrame, msgs), NEW n \in Nat, n <= Len(q)
    PROVE  Ordered(SubSeq(q, 1, n), nextFrame, msgs)
<1> DEFINE s == SubSeq(q, 1, n)
<1>1. q \in Seq(Piece) /\ Len(q) \in Nat
    BY LenProperties DEF Ordered, Chained
<1>2. Chained(s)
    BY ChainedTake DEF Ordered
<1>3. s \in Seq(Piece) /\ Len(s) = n /\ \A i \in 1 .. n : s[i] = q[i]
    BY <1>1, TakeFacts
<1>4. q = <<>> => Len(q) = 0
    BY EmptySeq
<1>5. s # <<>> => Len(s) \in Nat \ {0}
    BY <1>3, EmptySeq
<1> HIDE DEF s
<1>6. \A i \in 1 .. Len(s) : i \in 1 .. Len(q) /\ s[i] = q[i]
    BY <1>1, <1>3
<1>7. s # <<>> => q # <<>> /\ s[1] = q[1]
    BY <1>1, <1>3, <1>4, <1>5
<1> QED
    BY <1>2, <1>6, <1>7 DEF Ordered, s

(* The buffers in the line: taking the end away, moving bytes, dropping    *)
(* the front. *)
LEMMA LineParts ==
    ASSUME NEW a \in Seq(Piece), NEW b \in Seq(Piece), NEW c \in Seq(Piece)
    PROVE  /\ a \o b \o c \in Seq(Piece) /\ Len(a \o b \o c) = Len(a) + Len(b) + Len(c)
           /\ SubSeq(a \o b \o c, 1, Len(a) + Len(b)) = a \o b
           /\ SubSeq(a \o b \o c, 1, Len(a)) = a
           /\ a \o b \o <<>> = a \o b
           /\ a \o b \o c = a \o (b \o c)
<1>0. \A s, t \in Seq(Piece) : SubSeq(s \o t, 1, Len(s)) = s
  <2> SUFFICES ASSUME NEW s \in Seq(Piece), NEW t \in Seq(Piece) PROVE SubSeq(s \o t, 1, Len(s)) = s
      OBVIOUS
  <2> DEFINE u == s \o t
  <2>1. /\ u \in Seq(Piece) /\ Len(u) = Len(s) + Len(t)
        /\ \A i \in 1 .. Len(s) + Len(t) : u[i] = IF i <= Len(s) THEN s[i] ELSE t[i - Len(s)]
      BY ConcatProperties
  <2> HIDE DEF u
  <2>2. Len(s) \in Nat /\ Len(t) \in Nat
      BY LenProperties
  <2>3. \A i \in 1 .. Len(s) : u[i] = s[i]
      BY <2>1, <2>2
  <2> DEFINE v == SubSeq(u, 1, Len(s))
  <2>4. v \in Seq(Piece) /\ Len(v) = Len(s) /\ \A i \in 1 .. Len(s) : v[i] = u[i]
      BY <2>1, <2>2, TakeFacts
  <2> HIDE DEF v
  <2>5. \A i \in 1 .. Len(v) : v[i] = s[i]
      BY <2>3, <2>4
  <2>6. v = s
      BY <2>4, <2>5, SeqEqual
  <2> QED
      BY <2>6 DEF u, v
<1>1. /\ a \o b \in Seq(Piece) /\ Len(a \o b) = Len(a) + Len(b)
      /\ b \o c \in Seq(Piece)
    BY ConcatProperties
<1>2. a \o b \o c \in Seq(Piece) /\ Len(a \o b \o c) = Len(a \o b) + Len(c)
    BY <1>1, ConcatProperties
<1>3. a \o b \o c = a \o (b \o c)
    BY ConcatAssociative
<1>4. SubSeq((a \o b) \o c, 1, Len(a \o b)) = a \o b
    BY <1>0, <1>1
<1>5. SubSeq(a \o (b \o c), 1, Len(a)) = a
    BY <1>0, <1>1
<1>6. (a \o b) \o <<>> = a \o b
    BY <1>1, ConcatEmptySeq
<1> QED
    BY <1>1, <1>2, <1>3, <1>4, <1>5, <1>6

----------------------------------------------------------------------------
(* The sender.                                                             *)

(* The line with the next frame at its end.                                *)
LEMMA NextFrameFits ==
    ASSUME StreamAssumption, NEW q, NEW nextFrame \in DOMAIN FrameSize, NEW msgs,
           Ordered(q, nextFrame, msgs), MessagesOK(msgs, nextFrame), Boundary(q, Len(q))
    PROVE  /\ Ordered(q \o Pieces(nextFrame), nextFrame + 1, msgs)
           /\ Boundary(q \o Pieces(nextFrame), Len(q \o Pieces(nextFrame)))
<1> DEFINE t == Pieces(nextFrame)
           w == q \o t
           n == FrameSize[nextFrame]
<1>1. q \in Seq(Piece) /\ Len(q) \in Nat /\ Chained(q)
    BY LenProperties DEF Ordered, Chained
<1>2. /\ Chained(t) /\ t \in Seq(Piece) /\ Len(t) = n /\ n \in Nat \ {0} /\ nextFrame \in Nat \ {0}
      /\ \A i \in 1 .. n : t[i] = <<nextFrame, i>>
    BY PiecesFacts DEF Chained
<1>3. /\ w \in Seq(Piece) /\ Len(w) = Len(q) + n
      /\ \A i \in 1 .. Len(q) + n : w[i] = IF i <= Len(q) THEN q[i] ELSE t[i - Len(q)]
  <2> HIDE DEF t, n
  <2>1. /\ w \in Seq(Piece) /\ Len(w) = Len(q) + Len(t)
        /\ \A i \in 1 .. Len(q) + Len(t) : w[i] = IF i <= Len(q) THEN q[i] ELSE t[i - Len(q)]
      BY <1>1, <1>2, ConcatProperties
  <2> HIDE DEF w
  <2> QED
      BY <1>2, <2>1
<1>4. q = <<>> <=> Len(q) = 0
    BY <1>1, EmptySeq
<1>5. Chained(w)
  <2>1. q # <<>> => Follows(q[Len(q)], t[1])
    <3> SUFFICES ASSUME q # <<>> PROVE Follows(q[Len(q)], t[1])
        OBVIOUS
    <3>1. Len(q) \in 1 .. Len(q) /\ Len(q) # 0
        BY <1>1, <1>4
    <3>2. q[Len(q)][1] < nextFrame /\ q[Len(q)][2] = FrameSize[q[Len(q)][1]]
        BY <3>1 DEF Ordered, Boundary
    <3>3. t[1] = <<nextFrame, 1>>
        BY <1>2
    <3> QED
        BY <3>2, <3>3 DEF Follows
  <2> QED
      BY <1>1, <1>2, <2>1, ChainedJoin
<1> HIDE DEF t, w, n
<1>6. ASSUME NEW i \in 1 .. Len(w)
      PROVE  w[i][1] < nextFrame + 1
  <2>1. i \in 1 .. Len(q) + n
      BY <1>3
  <2>2. CASE i <= Len(q)
    <3>1. i \in 1 .. Len(q) /\ w[i] = q[i]
        BY <1>1, <1>3, <2>1, <2>2
    <3>2. q[i] \in Piece /\ q[i][1] < nextFrame
        BY <1>1, <3>1, ElementOfSeq DEF Ordered
    <3>3. q[i][1] \in Nat
        BY <3>2, PieceFacts
    <3> QED
        BY <1>2, <3>1, <3>2, <3>3
  <2>3. CASE ~ (i <= Len(q))
    <3>1. i - Len(q) \in 1 .. n /\ w[i] = t[i - Len(q)]
        BY <1>1, <1>2, <1>3, <2>1, <2>3
    <3>2. w[i][1] = nextFrame
        BY <1>2, <3>1
    <3> QED
        BY <1>2, <3>2
  <2> QED
      BY <2>2, <2>3
<1>7. ASSUME NEW i \in 1 .. Len(msgs)
      PROVE  FrameOf(msgs[i]) < w[1][1]
  <2>1. 1 \in 1 .. Len(q) + n
      BY <1>1, <1>2
  <2>2. CASE q = <<>>
    <3>1. 1 - Len(q) = 1 /\ ~ (1 <= Len(q)) /\ 1 \in 1 .. n
        BY <1>2, <1>4, <2>2
    <3>2. w[1] = <<nextFrame, 1>>
        BY <1>2, <1>3, <2>1, <3>1
    <3> QED
        BY <3>2 DEF MessagesOK
  <2>3. CASE q # <<>>
    <3>1. 1 <= Len(q)
        BY <1>1, <1>4, <2>3
    <3>2. w[1] = q[1]
        BY <1>3, <2>1, <3>1
    <3> QED
        BY <2>3, <3>2 DEF Ordered
  <2> QED
      BY <2>2, <2>3
<1>8. Boundary(w, Len(w))
  <2>1. /\ Len(w) \in 1 .. Len(q) + n /\ ~ (Len(w) <= Len(q)) /\ Len(w) - Len(q) = n
        /\ n \in 1 .. n
      BY <1>1, <1>2, <1>3
  <2>2. w[Len(w)] = t[n] /\ t[n] = <<nextFrame, n>>
      BY <1>2, <1>3, <2>1
  <2> QED
      BY <2>2 DEF Boundary, n
<1> QED
    BY <1>5, <1>6, <1>7, <1>8 DEF Ordered, w, t

(* Moving the brackets: the line and the next frame, and the buffers when  *)
(* a part of one goes over to the next. *)
Associates(a, b, c) == (a \o b) \o c = a \o (b \o c)
LineAndNew(a, b, c, d) == (a \o b \o c) \o d = a \o b \o (c \o d)
PartMoves(a, b, s, r) == a \o (b \o s) \o r = a \o b \o (s \o r)
LineIs(a, b, c) ==
    /\ a \o b \o c \in Seq(Piece) /\ Len(a \o b \o c) = Len(a) + Len(b) + Len(c)
    /\ SubSeq(a \o b \o c, 1, Len(a) + Len(b)) = a \o b
    /\ SubSeq(a \o b \o c, 1, Len(a)) = a
    /\ a \o b \o <<>> = a \o b

LEMMA PartsMove ==
    /\ \A a, b, c, d \in Seq(Piece) : LineAndNew(a, b, c, d)
    /\ \A a, b, s, r \in Seq(Piece) : PartMoves(a, b, s, r)
    /\ \A a, b, c \in Seq(Piece) : LineIs(a, b, c)
<1>0. \A a, b, c \in Seq(Piece) : a \o b \in Seq(Piece) /\ Associates(a, b, c)
  <2> SUFFICES ASSUME NEW a \in Seq(Piece), NEW b \in Seq(Piece), NEW c \in Seq(Piece)
               PROVE  a \o b \in Seq(Piece) /\ Associates(a, b, c)
      OBVIOUS
  <2> QED
      BY ConcatProperties, ConcatAssociative DEF Associates
<1>1. ASSUME NEW a \in Seq(Piece), NEW b \in Seq(Piece), NEW c \in Seq(Piece), NEW d \in Seq(Piece)
      PROVE  LineAndNew(a, b, c, d)
  <2> DEFINE ab == a \o b
  <2>1. ab \in Seq(Piece)
      BY <1>0
  <2> HIDE DEF ab
  <2>2. Associates(ab, c, d)
      BY ONLY <1>0, <2>1, c \in Seq(Piece), d \in Seq(Piece), Zenon
  <2> QED
      BY ONLY <2>2, Zenon DEF ab, Associates, LineAndNew
<1>2. ASSUME NEW a \in Seq(Piece), NEW b \in Seq(Piece), NEW s \in Seq(Piece), NEW r \in Seq(Piece)
      PROVE  PartMoves(a, b, s, r)
  <2> DEFINE bs == b \o s
             sr == s \o r
  <2>1. bs \in Seq(Piece) /\ sr \in Seq(Piece) /\ bs \o r = b \o sr
      BY <1>0 DEF Associates
  <2> HIDE DEF bs, sr
  <2>2. Associates(a, bs, r)
      BY ONLY <1>0, <2>1, a \in Seq(Piece), r \in Seq(Piece), Zenon
  <2>3. Associates(a, b, sr)
      BY ONLY <1>0, <2>1, a \in Seq(Piece), b \in Seq(Piece), Zenon
  <2>4. (a \o bs) \o r = (a \o b) \o sr
      BY ONLY <2>1, <2>2, <2>3, Zenon DEF Associates
  <2> QED
      BY ONLY <2>4, Zenon DEF bs, sr, PartMoves
<1>3. ASSUME NEW a \in Seq(Piece), NEW b \in Seq(Piece), NEW c \in Seq(Piece)
      PROVE  LineIs(a, b, c)
    BY LineParts DEF LineIs
<1> QED
    BY <1>1, <1>2, <1>3

(* OnWrite of what waited and the next frame. *)
LEMMA SendKeepsLine ==
    ASSUME StreamAssumption, StreamInv, SendFrame, ~torn'
    PROVE  StreamInv'
<1>1. /\ next \in DOMAIN FrameSize /\ ~closed /\ next' = next + 1 /\ next \in Nat \ {0}
      /\ incoming' = incoming /\ shutdown' = shutdown /\ decoded' = decoded /\ unread' = unread
    BY DEF SendFrame, StreamInv
<1>2. ~torn
    BY DEF SendFrame, OnWrite
<1>3. /\ incoming \in Seq(Piece) /\ network \in Seq(Piece) /\ outgoing \in Seq(Piece)
      /\ Len(network) <= Room /\ Ordered(Line, next, decoded) /\ Boundary(Line, Len(Line))
      /\ MessagesOK(decoded, next) /\ (~unread => Parsed(incoming).msgs = <<>>)
    BY <1>1, <1>2 DEF StreamInv, LineOK
<1> DEFINE new == Pieces(next)
           buffer == outgoing \o new
           q == incoming \o network \o buffer
<1>4. new \in Seq(Piece)
    BY <1>1, PiecesFacts DEF Chained
<1>5. buffer \in Seq(Piece)
    BY <1>3, <1>4, ConcatProperties
<1>6. incoming \o network \in Seq(Piece)
    BY <1>3, ConcatProperties
<1>7. Ordered(q, next + 1, decoded) /\ Boundary(q, Len(q))
  <2>1. Ordered(Line \o new, next + 1, decoded) /\ Boundary(Line \o new, Len(Line \o new))
      BY <1>1, <1>3, NextFrameFits
  <2>2. Line \o new = q
    <3>1. Line = (incoming \o network) \o outgoing
        BY <1>1 DEF Line
    <3> HIDE DEF new
    <3>2. LineAndNew(incoming, network, outgoing, new)
        BY ONLY <1>3, <1>4, PartsMove, Zenon
    <3> QED
        BY ONLY <3>1, <3>2, Zenon DEF LineAndNew, q, buffer
  <2> QED
      BY <2>1, <2>2
<1>8. q \in Seq(Piece) /\ Len(q) = Len(incoming) + Len(network) + Len(buffer)
    BY <1>3, <1>5, LineParts
<1>9. MessagesOK(decoded', next')
  <2>1. \A i \in 1 .. Len(decoded) : FrameOf(decoded[i]) \in Nat
    <3> SUFFICES ASSUME NEW i \in 1 .. Len(decoded) PROVE FrameOf(decoded[i]) \in Nat
        OBVIOUS
    <3>1. FrameOf(decoded[i]) \in DOMAIN FrameSize
        BY <1>3, Zenon DEF MessagesOK, IsFrame
    <3> QED
        BY <3>1, PiecesFacts
  <2>2. \A i \in 1 .. Len(decoded) : FrameOf(decoded[i]) < next + 1
    <3> SUFFICES ASSUME NEW i \in 1 .. Len(decoded) PROVE FrameOf(decoded[i]) < next + 1
        OBVIOUS
    <3> DEFINE k == FrameOf(decoded[i])
    <3>1. k \in Nat /\ k < next
        BY <1>3, <2>1 DEF MessagesOK
    <3> HIDE DEF k
    <3>2. k < next + 1
        BY <1>1, <3>1
    <3> QED
        BY <3>2 DEF k
  <2> QED
      BY <1>1, <1>3, <2>2 DEF MessagesOK
<1>10. next' \in Nat \ {0}
    BY <1>1
<1>11. Len(incoming) \in Nat /\ Len(network) \in Nat /\ Len(buffer) \in Nat
    BY <1>3, <1>5, LenProperties
<1> HIDE DEF new, buffer, q
<1>12. CASE shutdown
  <2>1. outgoing' = buffer /\ closed' = TRUE /\ network' = network
      BY <1>12 DEF SendFrame, buffer, new
  <2>2. Line' = SubSeq(q, 1, Len(incoming) + Len(network))
    <3>1. Line' = incoming \o network \o <<>>
        BY <1>1, <2>1 DEF Line
    <3>2. LineIs(incoming, network, buffer)
        BY ONLY <1>3, <1>5, PartsMove, Zenon
    <3> QED
        BY ONLY <3>1, <3>2, Zenon DEF LineIs, q
  <2>3. Ordered(Line', next', decoded')
    <3>1. Len(incoming) + Len(network) \in Nat /\ Len(incoming) + Len(network) <= Len(q)
        BY <1>8, <1>11
    <3> QED
        BY <1>1, <1>7, <2>2, <3>1, OrderedTake
  <2>4. LineOK'
      BY <1>1, <1>3, <1>5, <1>9, <2>1, <2>3 DEF LineOK
  <2> QED
      BY <1>10, <2>4 DEF StreamInv
<1>13. CASE ~shutdown
  <2> DEFINE room == Room - Len(network)
             size == IF Len(buffer) < room THEN Len(buffer) ELSE room
             rest == DropFront(buffer, size)
             kept == IF size > 0 /\ Len(rest) <= max_send_buf_failed_size THEN rest ELSE <<>>
             sent == SubSeq(buffer, 1, size)
  <2>1. /\ network' = network \o sent /\ outgoing' = kept /\ closed' = closed
        /\ torn' = (torn \/ (rest # <<>> /\ kept = <<>> /\ rest[1][2] # 1))
      BY <1>13 DEF SendFrame, OnWrite, buffer, new
  <2>2. size \in Nat /\ size <= Len(buffer) /\ size <= room /\ Room \in Nat
      BY <1>3, <1>11 DEF StreamAssumption
  <2> HIDE DEF size
  <2>3. /\ rest \in Seq(Piece) /\ Len(rest) = Len(buffer) - size
        /\ \A i \in 1 .. Len(buffer) - size : rest[i] = buffer[size + i]
      BY <1>5, <2>2, DropFacts
  <2>4. sent \in Seq(Piece) /\ Len(sent) = size /\ sent \o rest = buffer
      BY <1>5, <2>2, TakeFacts, TakeDrop
  <2>5. kept = rest \/ kept = <<>>
      OBVIOUS
  <2> HIDE DEF rest, sent, kept
  <2>6. network' \in Seq(Piece) /\ Len(network') = Len(network) + size
    <3>1. /\ network \o sent \in Seq(Piece)
          /\ Len(network \o sent) = Len(network) + Len(sent)
        BY <1>3, <2>4, ConcatProperties
    <3> QED
        BY <2>1, <2>4, <3>1
  <2>7. Len(network') <= Room
      BY <1>11, <2>2, <2>6
  <2>8. (incoming \o network') \o rest = q
    <3>1. PartMoves(incoming, network, sent, rest)
        BY ONLY <1>3, <2>3, <2>4, PartsMove, Zenon
    <3> QED
        BY ONLY <2>1, <2>4, <3>1, Zenon DEF q, PartMoves
  <2>9. Line' = incoming \o network' \o kept
      BY <1>1, <2>1 DEF Line
  <2>10. CASE kept = rest
    <3>1. Line' = q
        BY <2>8, <2>9, <2>10
    <3>2. LineOK'
        BY <1>1, <1>3, <1>7, <1>9, <2>1, <2>3, <2>6, <2>7, <2>10, <3>1 DEF LineOK
    <3> QED
        BY <1>10, <3>2 DEF StreamInv
  <2>11. CASE kept = <<>>
    <3> DEFINE n == Len(incoming) + Len(network')
    <3>1. Line' = SubSeq(q, 1, n)
      <4>1. LineIs(incoming, network', rest)
          BY ONLY <1>3, <2>3, <2>6, PartsMove, Zenon
      <4>2. Line' = incoming \o network'
          BY ONLY <2>9, <2>11, <4>1, Zenon DEF LineIs
      <4>3. SubSeq(incoming \o network' \o rest, 1, n) = incoming \o network'
          BY ONLY <4>1, Zenon DEF LineIs, n
      <4> QED
          BY ONLY <2>8, <4>2, <4>3, Zenon
    <3>2. n \in Nat /\ n <= Len(q) /\ Len(q) = n + Len(rest) /\ Len(q) \in Nat /\ Len(rest) \in Nat
        BY <1>8, <1>11, <2>2, <2>3, <2>6
    <3> HIDE DEF n
    <3>3. Ordered(Line', next', decoded')
        BY <1>1, <1>7, <3>1, <3>2, OrderedTake
    <3>4. Len(Line') = n /\ \A i \in 1 .. n : Line'[i] = q[i]
        BY <1>8, <3>1, <3>2, TakeFacts
    <3>5. Boundary(Line', Len(Line'))
      <4>1. CASE n = 0
          BY <3>4, <4>1 DEF Boundary
      <4>2. CASE n # 0 /\ n = Len(q)
        <5>1. n \in 1 .. n
            BY <3>2, <4>2
        <5>2. Line'[n] = q[n] /\ Boundary(q, n)
            BY <1>7, <3>4, <4>2, <5>1
        <5> QED
            BY <3>4, <4>2, <5>2 DEF Boundary
      <4>3. CASE n # 0 /\ n # Len(q)
        <5>1. /\ n \in 1 .. n /\ n \in 1 .. Len(q) - 1 /\ n + 1 \in 1 .. Len(q)
              /\ n \in 1 .. Len(q) /\ Len(rest) # 0 /\ 1 \in 1 .. Len(rest)
            BY <3>2, <4>3
        <5>2. rest[1] = q[n + 1]
          <6> DEFINE a == incoming \o network'
          <6>1. a \in Seq(Piece) /\ Len(a) = n
              BY <1>3, <2>6, ConcatProperties DEF n
          <6> HIDE DEF a
          <6>2. Len(rest) \in Nat
              BY <3>2
          <6>3. \A i \in 1 .. Len(a) + Len(rest) :
                    (a \o rest)[i] = IF i <= Len(a) THEN a[i] ELSE rest[i - Len(a)]
              BY <2>3, <6>1, ConcatProperties
          <6>4. n + 1 \in 1 .. Len(a) + Len(rest) /\ ~ (n + 1 <= Len(a)) /\ n + 1 - Len(a) = 1
              BY <3>2, <5>1, <6>1
          <6>5. (a \o rest)[n + 1] = rest[1]
            <7> DEFINE k == n + 1
            <7>1. k \in 1 .. Len(a) + Len(rest) /\ ~ (k <= Len(a)) /\ k - Len(a) = 1
                BY <3>2, <5>1, <6>1
            <7> HIDE DEF k
            <7>2. (a \o rest)[k] = rest[k - Len(a)]
                BY <6>3, <7>1, Zenon
            <7>3. (a \o rest)[k] = rest[1]
                BY <7>1, <7>2, Zenon
            <7> QED
                BY <7>3, Zenon DEF k
          <6> QED
              BY <2>8, <6>5 DEF a
        <5>3. rest # <<>>
            BY <5>1, EmptySeq
        <5>4. rest[1][2] = 1
            BY <2>1, <2>11, <5>3
        <5>5. Follows(q[n], q[n + 1]) /\ q[n] \in Piece
            BY <1>7, <1>8, <5>1, ElementOfSeq DEF Ordered, Chained
        <5>6. q[n][2] \in Nat \ {0}
            BY <5>5, PieceFacts
        <5>7. q[n][2] = FrameSize[q[n][1]]
            BY <5>2, <5>4, <5>5, <5>6 DEF Follows
        <5>8. Line'[n] = q[n]
            BY <3>4, <5>1
        <5> QED
            BY <3>4, <5>7, <5>8 DEF Boundary
      <4> QED
          BY <4>1, <4>2, <4>3
    <3>6. <<>> \in Seq(Piece)
        BY EmptySeq
    <3>7. LineOK'
        BY <1>1, <1>3, <1>9, <2>1, <2>6, <2>7, <2>11, <3>3, <3>5, <3>6 DEF LineOK
    <3> QED
        BY <1>10, <3>7 DEF StreamInv
  <2> QED
      BY <2>5, <2>10, <2>11
<1> QED
    BY <1>12, <1>13

----------------------------------------------------------------------------
(* The receiver.                                                           *)

(* What one read decodes of the front of the line. *)
LEMMA ReadAndDecode ==
    ASSUME StreamAssumption, NEW b \in Seq(Piece), NEW rest \in Seq(Piece),
           NEW nextFrame \in Nat, NEW msgs,
           Ordered(b \o rest, nextFrame, msgs), MessagesOK(msgs, nextFrame)
    PROVE  /\ DropFront(b, Parsed(b).at) \in Seq(Piece)
           /\ Ordered(DropFront(b, Parsed(b).at) \o rest, nextFrame, msgs \o Parsed(b).msgs)
           /\ MessagesOK(msgs \o Parsed(b).msgs, nextFrame)
           /\ Parsed(DropFront(b, Parsed(b).at)).msgs = <<>>
           /\ Boundary(b \o rest, Len(b \o rest)) =>
                  Boundary(DropFront(b, Parsed(b).at) \o rest,
                           Len(DropFront(b, Parsed(b).at) \o rest))
<1> DEFINE line == b \o rest
           r == Parsed(b)
           at == r.at
           got == r.msgs
           left == DropFront(line, at)
           all == msgs \o got
<1>1. /\ line \in Seq(Piece) /\ Len(line) = Len(b) + Len(rest)
      /\ \A i \in 1 .. Len(b) + Len(rest) : line[i] = IF i <= Len(b) THEN b[i] ELSE rest[i - Len(b)]
    BY ConcatProperties
<1>2. Len(b) \in Nat /\ Len(rest) \in Nat
    BY LenProperties
<1>3. Chained(line) /\ (\A i \in 1 .. Len(line) : line[i][1] < nextFrame)
      /\ (line # <<>> => \A i \in 1 .. Len(msgs) : FrameOf(msgs[i]) < line[1][1])
    BY Zenon DEF Ordered
<1>4. Chained(b)
  <2>1. SubSeq(line, 1, Len(b)) = b
    <3>1. <<>> \in Seq(Piece)
        BY EmptySeq
    <3>2. LineIs(b, rest, <<>>)
        BY <3>1, PartsMove
    <3> QED
        BY ONLY <3>2, Zenon DEF LineIs
  <2>2. Len(b) <= Len(line)
      BY <1>1, <1>2
  <2> HIDE DEF line
  <2>3. Chained(SubSeq(line, 1, Len(b)))
      BY <1>2, <1>3, <2>2, ChainedTake
  <2> QED
      BY <2>1, <2>3
<1>5. DecodesWell(b, 0, r) /\ Parsed(DropFront(b, at)).msgs = <<>>
    BY <1>4, ParsedFacts
<1> HIDE DEF r
<1>6. /\ at \in 0 .. Len(b) /\ Boundary(b, at) /\ got \in Seq(Seq(Piece))
      /\ (at > 0 => b[0 + 1][1] <= b[at][1])
      /\ \A i \in 1 .. Len(got) : /\ IsFrame(got[i]) /\ at > 0
                                  /\ b[0 + 1][1] <= FrameOf(got[i]) /\ FrameOf(got[i]) <= b[at][1]
      /\ \A i, j \in 1 .. Len(got) : i < j => FrameOf(got[i]) < FrameOf(got[j])
    BY <1>5, Zenon DEF DecodesWell
<1>7. at \in Nat /\ at <= Len(b) /\ at <= Len(line) /\ Len(line) \in Nat
    BY <1>1, <1>2, <1>6
<1>8. left = DropFront(b, at) \o rest
  <2> HIDE DEF at
  <2> QED
      BY <1>7, DropOfConcat
<1>9. DropFront(b, at) \in Seq(Piece)
  <2> HIDE DEF at
  <2> QED
      BY <1>7, DropFacts
<1> HIDE DEF at, line, got
<1>10. Chained(left)
    BY <1>3, <1>7, ChainedDrop
<1>11. /\ left \in Seq(Piece) /\ Len(left) = Len(line) - at
       /\ \A i \in 1 .. Len(line) - at : left[i] = line[at + i]
    BY <1>1, <1>7, DropFacts
<1> HIDE DEF left
<1>12. msgs \in Seq(Seq(Piece)) /\ Len(msgs) \in Nat /\ Len(got) \in Nat
    BY <1>6, LenProperties DEF MessagesOK
<1>13. /\ all \in Seq(Seq(Piece)) /\ Len(all) = Len(msgs) + Len(got)
       /\ \A i \in 1 .. Len(msgs) + Len(got) :
             all[i] = IF i <= Len(msgs) THEN msgs[i] ELSE got[i - Len(msgs)]
    BY <1>6, <1>12, ConcatProperties
<1> HIDE DEF all
<1>14. line = <<>> <=> Len(line) = 0
    BY <1>1, EmptySeq
<1>15. \A i \in 1 .. Len(line) : line[i][1] \in Nat /\ line[i] \in Piece
    BY <1>1, ElementOfSeq, PieceFacts
<1>16. ASSUME at > 0
       PROVE  /\ line # <<>> /\ 1 \in 1 .. Len(line) /\ at \in 1 .. Len(line)
              /\ line[1] = b[0 + 1] /\ line[at] = b[at] /\ line[1][1] <= line[at][1]
  <2>1. 1 \in 1 .. Len(b) + Len(rest) /\ at \in 1 .. Len(b) + Len(rest) /\ 1 <= Len(b) /\ at <= Len(b)
      BY <1>2, <1>7, <1>16
  <2>2. line[1] = b[1] /\ line[at] = b[at]
      BY ONLY <1>1, <2>1, Zenon
  <2>3. line # <<>>
      BY <1>1, <1>14, <2>1, <1>2
  <2> QED
      BY <1>1, <1>6, <1>16, <2>1, <2>2, <2>3
(* The messages, the old ones and the new. *)
<1>17. ASSUME NEW i \in 1 .. Len(all)
       PROVE  \/ i \in 1 .. Len(msgs) /\ all[i] = msgs[i]
              \/ i - Len(msgs) \in 1 .. Len(got) /\ all[i] = got[i - Len(msgs)] /\ ~ (i <= Len(msgs))
  <2>1. i \in 1 .. Len(msgs) + Len(got)
      BY <1>13
  <2>2. CASE i <= Len(msgs)
      BY <1>12, <1>13, <2>1, <2>2
  <2>3. CASE ~ (i <= Len(msgs))
      BY <1>12, <1>13, <2>1, <2>3
  <2> QED
      BY <2>2, <2>3
<1>18. ASSUME NEW i \in 1 .. Len(msgs)
       PROVE  /\ IsFrame(msgs[i]) /\ FrameOf(msgs[i]) < nextFrame /\ FrameOf(msgs[i]) \in Nat
              /\ line # <<>> => FrameOf(msgs[i]) < line[1][1]
  <2>1. IsFrame(msgs[i]) /\ FrameOf(msgs[i]) < nextFrame
      BY Zenon DEF MessagesOK
  <2>2. FrameOf(msgs[i]) \in DOMAIN FrameSize
      BY <2>1, Zenon DEF IsFrame
  <2>3. FrameOf(msgs[i]) \in Nat
      BY <2>2, PiecesFacts
  <2> QED
      BY <1>3, <2>1, <2>3
<1>19. ASSUME NEW i \in 1 .. Len(got)
       PROVE  /\ IsFrame(got[i]) /\ FrameOf(got[i]) < nextFrame /\ FrameOf(got[i]) \in Nat
              /\ at > 0 /\ line # <<>> /\ line[1][1] <= FrameOf(got[i])
              /\ FrameOf(got[i]) <= line[at][1]
  <2>1. IsFrame(got[i]) /\ at > 0 /\ b[0 + 1][1] <= FrameOf(got[i]) /\ FrameOf(got[i]) <= b[at][1]
      BY <1>6, Zenon
  <2>2. FrameOf(got[i]) \in DOMAIN FrameSize
      BY <2>1, Zenon DEF IsFrame
  <2>3. FrameOf(got[i]) \in Nat
      BY <2>2, PiecesFacts
  <2>4. /\ line # <<>> /\ at \in 1 .. Len(line) /\ line[1][1] <= FrameOf(got[i])
        /\ FrameOf(got[i]) <= line[at][1]
      BY ONLY <1>16, <2>1, Zenon
  <2>5. line[at][1] < nextFrame /\ line[at][1] \in Nat
      BY ONLY <1>3, <1>15, <2>4, Zenon
  <2> DEFINE k == FrameOf(got[i])
             e == line[at][1]
  <2>6. k \in Nat /\ e \in Nat /\ k <= e /\ e < nextFrame
      BY <2>3, <2>4, <2>5
  <2> HIDE DEF k, e
  <2>7. k < nextFrame
      BY <2>6
  <2> QED
      BY <2>1, <2>3, <2>4, <2>7 DEF k
<1>20. MessagesOK(all, nextFrame)
  <2>1. \A i \in 1 .. Len(all) : IsFrame(all[i]) /\ FrameOf(all[i]) < nextFrame
    <3> SUFFICES ASSUME NEW i \in 1 .. Len(all)
                 PROVE  IsFrame(all[i]) /\ FrameOf(all[i]) < nextFrame
        OBVIOUS
    <3>1. CASE i \in 1 .. Len(msgs) /\ all[i] = msgs[i]
        BY <1>18, <3>1
    <3> DEFINE k == i - Len(msgs)
    <3>2. CASE k \in 1 .. Len(got) /\ all[i] = got[k]
      <4> HIDE DEF k
      <4> QED
          BY <1>19, <3>2
    <3> QED
        BY <1>17, <3>1, <3>2
  <2>2. \A i, j \in 1 .. Len(all) : i < j => FrameOf(all[i]) < FrameOf(all[j])
    <3> SUFFICES ASSUME NEW i \in 1 .. Len(all), NEW j \in 1 .. Len(all), i < j
                 PROVE  FrameOf(all[i]) < FrameOf(all[j])
        OBVIOUS
    <3> DEFINE k == i - Len(msgs)
               m == j - Len(msgs)
    <3>1. i \in Nat /\ j \in Nat
        BY <1>12, <1>13
    <3>2. CASE i \in 1 .. Len(msgs) /\ j \in 1 .. Len(msgs) /\ all[i] = msgs[i] /\ all[j] = msgs[j]
      <4>1. FrameOf(msgs[i]) < FrameOf(msgs[j])
          BY <3>2, Zenon DEF MessagesOK
      <4> QED
          BY <3>2, <4>1
    <3>3. CASE i \in 1 .. Len(msgs) /\ all[i] = msgs[i] /\ m \in 1 .. Len(got) /\ all[j] = got[m]
      <4> HIDE DEF m
      <4>1. FrameOf(msgs[i]) \in Nat /\ FrameOf(got[m]) \in Nat /\ line # <<>>
            /\ FrameOf(msgs[i]) < line[1][1] /\ line[1][1] <= FrameOf(got[m])
          BY ONLY <1>18, <1>19, <3>3, Zenon
      <4>2. line[1][1] \in Nat
        <5>1. 1 \in 1 .. Len(line)
            BY <1>7, <1>14, <4>1
        <5> QED
            BY <1>15, <5>1
      <4> DEFINE x == FrameOf(msgs[i])
                 y == line[1][1]
                 z == FrameOf(got[m])
      <4>3. x \in Nat /\ y \in Nat /\ z \in Nat /\ x < y /\ y <= z
          BY <4>1, <4>2
      <4> HIDE DEF x, y, z
      <4>4. x < z
          BY <4>3
      <4> QED
          BY <3>3, <4>4 DEF x, z
    <3>4. CASE k \in 1 .. Len(got) /\ all[i] = got[k] /\ m \in 1 .. Len(got) /\ all[j] = got[m]
      <4>1. k < m
          BY <1>12, <3>1
      <4> HIDE DEF k, m
      <4>2. FrameOf(got[k]) < FrameOf(got[m])
          BY ONLY <1>6, <3>4, <4>1, Zenon
      <4> QED
          BY <3>4, <4>2
    <3>5. ~ (~ (i <= Len(msgs)) /\ j \in 1 .. Len(msgs))
        BY <1>12, <3>1
    <3> QED
        BY ONLY <1>17, <3>2, <3>3, <3>4, <3>5, Zenon
  <2> QED
      BY <1>13, <2>1, <2>2 DEF MessagesOK
(* The line that is left. *)
<1>21. \A i \in 1 .. Len(left) : left[i][1] < nextFrame
  <2> SUFFICES ASSUME NEW i \in 1 .. Len(left) PROVE left[i][1] < nextFrame
      OBVIOUS
  <2> DEFINE k == at + i
  <2>1. i \in 1 .. Len(line) - at /\ k \in 1 .. Len(line)
      BY <1>7, <1>11
  <2>2. left[i] = line[k]
      BY <1>11, <2>1
  <2> HIDE DEF k
  <2> QED
      BY <1>3, <2>1, <2>2
<1>22. ASSUME left # <<>>, NEW i \in 1 .. Len(all)
       PROVE  FrameOf(all[i]) < left[1][1]
  <2>1. Len(left) # 0 /\ Len(left) \in Nat
      BY <1>11, <1>22, EmptySeq, LenProperties
  <2>2. /\ 1 \in 1 .. Len(line) - at /\ at < Len(line) /\ at + 1 \in 1 .. Len(line)
        /\ 1 \in 1 .. Len(line)
      BY <1>7, <1>11, <2>1
  <2>3. line # <<>>
      BY <1>7, <1>14, <2>2
  <2>4. left[1] = line[at + 1]
      BY <1>11, <2>2
  <2>5. CASE at = 0
    <3>1. left[1] = line[1]
        BY <2>4, <2>5
    <3>2. i \in 1 .. Len(msgs) /\ all[i] = msgs[i]
      <4> DEFINE k == i - Len(msgs)
      <4>1. ~ (at > 0)
          BY <2>5
      <4>2. ~ (k \in 1 .. Len(got))
        <5> HIDE DEF k
        <5> QED
            BY ONLY <1>19, <4>1, Zenon
      <4> QED
          BY <1>17, <4>2
    <3> QED
        BY <1>18, <2>3, <3>1, <3>2
  <2>6. CASE at > 0
    <3>1. Boundary(line, at)
      <4>1. line[at] = b[at] /\ at # 0
          BY <1>16, <2>6
      <4> QED
          BY <1>6, <4>1 DEF Boundary
    <3>2. line[at][1] < line[at + 1][1]
      <4>1. at \in Nat \ {0}
          BY <1>7, <2>6
      <4> QED
          BY <1>3, <2>2, <3>1, <4>1, FrameBegins
    <3>3. at \in 1 .. Len(line) /\ line[1][1] <= line[at][1]
        BY <1>16, <2>6
    <3>4. FrameOf(all[i]) <= line[at][1] /\ FrameOf(all[i]) \in Nat
      <4>1. CASE i \in 1 .. Len(msgs) /\ all[i] = msgs[i]
        <5> DEFINE x == FrameOf(msgs[i])
                   y == line[1][1]
                   z == line[at][1]
        <5>1. x \in Nat /\ y \in Nat /\ z \in Nat /\ x < y /\ y <= z
            BY <1>15, <1>18, <2>2, <2>3, <3>3, <4>1
        <5> HIDE DEF x, y, z
        <5>2. x <= z
            BY <5>1
        <5> QED
            BY <4>1, <5>1, <5>2 DEF x, z
      <4> DEFINE k == i - Len(msgs)
      <4>2. CASE k \in 1 .. Len(got) /\ all[i] = got[k]
        <5> HIDE DEF k
        <5> QED
            BY <1>19, <4>2
      <4> QED
          BY <1>17, <4>1, <4>2
    <3> DEFINE x == FrameOf(all[i])
               y == line[at][1]
               z == line[at + 1][1]
    <3>5. x \in Nat /\ y \in Nat /\ z \in Nat /\ x <= y /\ y < z
        BY <1>15, <2>2, <3>2, <3>3, <3>4
    <3> HIDE DEF x, y, z
    <3>6. x < z
        BY <3>5
    <3> QED
        BY <2>4, <3>6 DEF x, z
  <2> QED
      BY <1>7, <2>5, <2>6
<1>23. ASSUME Boundary(line, Len(line))
       PROVE  Boundary(left, Len(left))
  <2>1. CASE Len(left) = 0
      BY <2>1 DEF Boundary
  <2>2. CASE Len(left) # 0
    <3> DEFINE n == Len(left)
               k == at + n
    <3>1. n \in 1 .. Len(line) - at /\ k = Len(line) /\ Len(line) # 0
        BY <1>7, <1>11, <2>2
    <3>2. left[n] = line[k]
        BY <1>11, <3>1
    <3> HIDE DEF n, k
    <3>3. left[n] = line[Len(line)]
        BY ONLY <3>1, <3>2, Zenon
    <3> QED
        BY <1>23, <3>1, <3>3 DEF Boundary, n
  <2> QED
      BY <2>1, <2>2
<1>24. Ordered(left, nextFrame, all)
    BY ONLY <1>10, <1>21, <1>22, Zenon DEF Ordered
<1> QED
    BY ONLY <1>5, <1>8, <1>9, <1>20, <1>23, <1>24, Zenon DEF r, at, got, line, all

(* A read that ends the stream after a full chunk only moves bytes; any    *)
(* other decodes them.                                                     *)
LEMMA ReadKeepsLine ==
    ASSUME StreamAssumption, StreamInv, NEW n \in 0 .. Room, n <= Len(network), OnRead(n), ~torn'
    PROVE  StreamInv'
<1>1. /\ next' = next /\ outgoing' = outgoing /\ closed' = closed /\ torn' = torn
      /\ next \in Nat \ {0} /\ ~torn /\ n \in Nat
    BY DEF OnRead, StreamInv, StreamAssumption
<1>2. LineOK
    BY <1>1 DEF StreamInv
<1> DEFINE taken == SubSeq(network, 1, n)
           left == DropFront(network, n)
           buffer == incoming \o taken
           tail == IF closed THEN <<>> ELSE outgoing
           rest == left \o tail
           result == Parsed(buffer)
<1>3. incoming \in Seq(Piece) /\ network \in Seq(Piece) /\ outgoing \in Seq(Piece)
    BY <1>2 DEF LineOK
<1>4. taken \in Seq(Piece) /\ left \in Seq(Piece) /\ taken \o left = network
    BY <1>1, <1>3, TakeFacts, DropFacts, TakeDrop
<1>5. left \in Seq(Piece) /\ Len(left) <= Room
  <2>1. Len(left) = Len(network) - n /\ Len(network) <= Room /\ Len(network) \in Nat
      BY <1>1, <1>2, <1>3, DropFacts, LenProperties DEF LineOK
  <2> QED
      BY <1>1, <1>4, <2>1 DEF StreamAssumption
<1>6. tail \in Seq(Piece)
    BY <1>3, EmptySeq
<1> HIDE DEF taken, left, tail
<1>7. buffer \in Seq(Piece) /\ rest \in Seq(Piece)
    BY <1>3, <1>4, <1>6, ConcatProperties
<1>8. buffer \o left \o tail = buffer \o rest
  <2>1. \A a, b, c \in Seq(Piece) : Associates(a, b, c)
      BY ConcatAssociative DEF Associates
  <2> HIDE DEF buffer
  <2> QED
      BY ONLY <1>4, <1>6, <1>7, <2>1, Zenon DEF Associates, rest
<1>9. Line = buffer \o left \o tail
  <2>1. \A a, b, c \in Seq(Piece) : Associates(a, b, c)
      BY ConcatAssociative DEF Associates
  <2>2. Associates(incoming, taken, left)
      BY ONLY <1>3, <1>4, <2>1, Zenon
  <2>3. incoming \o network = buffer \o left
      BY ONLY <1>4, <2>2, Zenon DEF Associates, buffer
  <2>4. Line = (incoming \o network) \o tail
      BY DEF Line, tail
  <2> QED
      BY ONLY <2>3, <2>4, Zenon
<1>10. network' = left /\ tail' = tail
    BY <1>1 DEF OnRead, left, tail
<1>11. CASE closed /\ n = Len(network) /\ n % Chunk = 0
  <2>1. incoming' = buffer /\ unread' = (result.msgs # <<>>) /\ decoded' = decoded
      BY <1>11 DEF OnRead, buffer, taken
  <2>2. Line' = Line
    <3>1. Line' = buffer \o left \o tail
        BY <1>10, <2>1 DEF Line, tail
    <3> QED
        BY <1>9, <3>1
  <2>3. ~unread' => Parsed(incoming').msgs = <<>>
      BY <2>1
  <2>4. LineOK'
      BY <1>1, <1>2, <1>3, <1>5, <1>7, <1>10, <2>1, <2>2, <2>3 DEF LineOK
  <2> QED
      BY <1>1, <2>4 DEF StreamInv
<1>12. CASE ~ (closed /\ n = Len(network) /\ n % Chunk = 0)
  <2>1. /\ incoming' = DropFront(buffer, result.at) /\ decoded' = decoded \o result.msgs
        /\ unread' = unread
      BY <1>12 DEF OnRead, buffer, taken
  <2>2. Ordered(buffer \o rest, next, decoded) /\ MessagesOK(decoded, next)
    <3>1. Ordered(Line, next, decoded) /\ MessagesOK(decoded, next)
        BY <1>2 DEF LineOK
    <3> QED
        BY ONLY <1>8, <1>9, <3>1, Zenon
  <2> HIDE DEF buffer, rest
  <2>3. /\ DropFront(buffer, result.at) \in Seq(Piece)
        /\ Ordered(DropFront(buffer, result.at) \o rest, next, decoded \o result.msgs)
        /\ MessagesOK(decoded \o result.msgs, next)
        /\ Parsed(DropFront(buffer, result.at)).msgs = <<>>
        /\ Boundary(buffer \o rest, Len(buffer \o rest)) =>
               Boundary(DropFront(buffer, result.at) \o rest,
                        Len(DropFront(buffer, result.at) \o rest))
      BY <1>1, <1>7, <2>2, ReadAndDecode
  <2> DEFINE kept == DropFront(buffer, result.at)
  <2> HIDE DEF kept
  <2>4. Line' = kept \o rest
    <3>1. Line' = kept \o left \o tail
        BY <1>10, <2>1 DEF Line, tail, kept
    <3>2. \A a, b, c \in Seq(Piece) : Associates(a, b, c)
        BY ConcatAssociative DEF Associates
    <3>3. kept \in Seq(Piece)
        BY <2>3 DEF kept
    <3>4. Associates(kept, left, tail)
        BY ONLY <1>4, <1>6, <3>2, <3>3, Zenon
    <3> QED
        BY ONLY <3>1, <3>4, Zenon DEF Associates, rest
  <2>5. /\ Ordered(Line', next', decoded') /\ MessagesOK(decoded', next')
        /\ incoming' \in Seq(Piece) /\ Parsed(incoming').msgs = <<>>
    <3>1. Ordered(kept \o rest, next, decoded \o result.msgs)
        BY <2>3 DEF kept
    <3> QED
        BY <1>1, <2>1, <2>3, <2>4, <3>1
  <2>6. ~closed' => Boundary(Line', Len(Line'))
    <3> SUFFICES ASSUME ~closed' PROVE Boundary(Line', Len(Line'))
        OBVIOUS
    <3>1. Boundary(Line, Len(Line))
        BY <1>1, <1>2 DEF LineOK
    <3>2. Line = buffer \o rest
        BY <1>8, <1>9
    <3>3. Boundary(kept \o rest, Len(kept \o rest))
        BY ONLY <2>3, <3>1, <3>2, Zenon DEF kept
    <3> QED
        BY ONLY <2>4, <3>3, Zenon
  <2>7. LineOK'
      BY <1>1, <1>3, <1>5, <1>10, <2>5, <2>6 DEF LineOK
  <2> QED
      BY <1>1, <2>7 DEF StreamInv
<1> QED
    BY <1>11, <1>12

(* What the sender kept is lost with the connection. *)
LEMMA CloseKeepsLine ==
    ASSUME StreamInv, CloseSend, ~torn'
    PROVE  StreamInv'
<1>1. /\ ~closed /\ closed' = TRUE /\ outgoing' = <<>> /\ next' = next /\ network' = network
      /\ torn' = torn /\ incoming' = incoming /\ decoded' = decoded /\ unread' = unread
      /\ next \in Nat \ {0} /\ ~torn
    BY DEF CloseSend, StreamInv
<1>2. LineOK
    BY <1>1 DEF StreamInv
<1>3. /\ incoming \in Seq(Piece) /\ network \in Seq(Piece) /\ outgoing \in Seq(Piece)
      /\ Ordered(Line, next, decoded)
    BY <1>2 DEF LineOK
<1>4. LineIs(incoming, network, outgoing)
    BY <1>3, PartsMove
<1>5. Line = incoming \o network \o outgoing /\ Line' = incoming \o network \o <<>>
    BY <1>1 DEF Line
<1> DEFINE n == Len(incoming) + Len(network)
<1>6. Line' = SubSeq(Line, 1, n)
    BY ONLY <1>4, <1>5, Zenon DEF LineIs
<1>7. n \in Nat /\ n <= Len(Line)
  <2>1. Len(Line) = Len(incoming) + Len(network) + Len(outgoing)
      BY ONLY <1>4, <1>5, Zenon DEF LineIs
  <2> QED
      BY <1>3, <2>1, LenProperties
<1> HIDE DEF n
<1>8. Ordered(Line', next, decoded)
    BY <1>3, <1>6, <1>7, OrderedTake
<1>9. <<>> \in Seq(Piece)
    BY EmptySeq
<1>10. LineOK'
    BY <1>1, <1>2, <1>8, <1>9 DEF LineOK
<1> QED
    BY <1>1, <1>10 DEF StreamInv

LEMMA StreamStarts ==
    ASSUME StreamAssumption, StreamInit
    PROVE  StreamInv
<1>1. /\ next = 1 /\ outgoing = <<>> /\ network = <<>> /\ closed = FALSE
      /\ incoming = <<>> /\ decoded = <<>>
    BY DEF StreamInit
<1>2. /\ <<>> \in Seq(Piece) /\ <<>> \in Seq(Seq(Piece)) /\ Len(<<>>) = 0
    BY EmptySeq
<1>3. Line = <<>>
  <2>1. LineIs(<<>>, <<>>, <<>>)
      BY <1>2, PartsMove
  <2>2. SubSeq(<<>> \o <<>> \o <<>>, 1, Len(<<>>)) = <<>>
      BY ONLY <2>1, Zenon DEF LineIs
  <2>3. <<>> \o <<>> = <<>>
      BY <1>2, ConcatEmptySeq
  <2> QED
      BY <1>1, <2>3 DEF Line
<1>4. Chained(<<>>)
    BY <1>2 DEF Chained
<1>5. Ordered(Line, next, decoded) /\ Boundary(Line, Len(Line))
    BY <1>2, <1>3, <1>4 DEF Ordered, Boundary
<1>6. MessagesOK(decoded, next)
    BY <1>1, <1>2 DEF MessagesOK
<1>7. Parsed(incoming).msgs = <<>>
  <2>1. DecodeFrame(<<>>, 0) <= 0
      BY <1>2 DEF DecodeFrame, StreamAssumption
  <2> QED
      BY <1>1, <1>4, <2>1, ParsedFacts
<1>8. Len(network) <= Room
    BY <1>1, <1>2 DEF StreamAssumption
<1> QED
    BY <1>1, <1>2, <1>5, <1>6, <1>7, <1>8 DEF StreamInv, LineOK

(* Over a connection whose sender has not torn a frame, what has not been  *)
(* decoded is a line of the frames that were sent after those decoded, in  *)
(* order and uncut, except at the receiver's front and where the sender's  *)
(* end took the rest away; and what was decoded was sent (net/connect's    *)
(* OnWrite and OnRead, RapidProtocol::Encode and Decode). *)
THEOREM StreamInvariant == StreamSpec => []StreamInv
<1> USE StreamAssumption
<1>1. StreamInit => StreamInv
    BY StreamStarts
<1>2. StreamInv /\ [StreamNext]_streamVars => StreamInv'
  <2> SUFFICES ASSUME StreamInv, [StreamNext]_streamVars PROVE StreamInv'
      OBVIOUS
  <2>1. CASE torn'
    <3>1. next \in Nat \ {0} /\ (next' = next \/ next' = next + 1)
        BY DEF StreamInv, StreamNext, SendFrame, CloseSend, OnRead, streamVars
    <3> QED
        BY <2>1, <3>1 DEF StreamInv
  <2>2. CASE ~torn'
    <3>1. CASE SendFrame
        BY <2>2, <3>1, SendKeepsLine
    <3>2. CASE CloseSend
        BY <2>2, <3>2, CloseKeepsLine
    <3>3. CASE \E n \in 0 .. Room : n <= Len(network) /\ OnRead(n)
        BY <2>2, <3>3, ReadKeepsLine
    <3>4. CASE UNCHANGED streamVars
        BY <3>4 DEF StreamInv, LineOK, Line, streamVars
    <3> QED
        BY <3>1, <3>2, <3>3, <3>4 DEF StreamNext
  <2> QED
      BY <2>1, <2>2
<1> QED
    BY <1>1, <1>2, PTL DEF StreamSpec

(* What is decoded of a stream of frames is what was sent, whole and in    *)
(* order, and no complete frame waits in the receiver's buffer, whatever   *)
(* the sizes of the frames, of the chunks and of what the kernel takes     *)
(* (Connect::OnRead, Connect::OnWrite, RapidProtocol::DecodeMsg). *)
THEOREM StreamCorrect == StreamSpec => []StreamInOrder
<1>1. ASSUME StreamAssumption, StreamInv
      PROVE  StreamInOrder
  <2>1. CASE torn
      BY <2>1 DEF StreamInOrder, DecodedIsSent, NothingLeftBehind
  <2>2. CASE ~torn
    <3>1. MessagesOK(decoded, next) /\ (~unread => Parsed(incoming).msgs = <<>>)
        BY <1>1, <2>2 DEF StreamInv, LineOK
    <3>2. DOMAIN decoded = 1 .. Len(decoded)
        BY <3>1, LenProperties DEF MessagesOK
    <3>3. ASSUME NEW i \in DOMAIN decoded
          PROVE  \E f \in DOMAIN FrameSize : decoded[i] = Pieces(f)
        BY ONLY <3>1, <3>2, <3>3, Zenon DEF MessagesOK, IsFrame
    <3>4. ASSUME NEW i \in DOMAIN decoded, NEW j \in DOMAIN decoded, i < j
          PROVE  decoded[i][1][1] < decoded[j][1][1]
        BY ONLY <3>1, <3>2, <3>4, Zenon DEF MessagesOK, FrameOf
    <3> QED
        BY <3>1, <3>3, <3>4 DEF StreamInOrder, DecodedIsSent, NothingLeftBehind
  <2> QED
      BY <2>1, <2>2
<1> QED
    BY <1>1, StreamAssumption, StreamInvariant, PTL
==============================================================================
