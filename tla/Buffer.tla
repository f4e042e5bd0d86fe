-------------------------------- MODULE Buffer --------------------------------
(***************************************************************************)
(* common/buffer: the bytes of a connection, between two cursors into a    *)
(* block of memory that is enlarged, moved to the front and given back.    *)
(* A pointer is its distance from pos_begin_; block = <<>> is NULL.  The   *)
(* bytes outside the cursors, which nobody reads, are AnyByte.             *)
(***************************************************************************)
EXTENDS Integers, Sequences

CONSTANTS
    FirstSize,      \* the first block's size (256)
    Data,           \* what is written at a time: sequences of bytes
    Count,          \* arguments of the other calls
    MaxContent      \* bound: bytes in the buffer

Byte == 0 .. 255

ASSUME BufferAssumption ==
    /\ FirstSize \in Nat \ {0} /\ Count \subseteq Nat /\ MaxContent \in Nat
    /\ \A data \in Data : data \in Seq(Byte)

VARIABLES
    block,                      \* the memory, from pos_begin_ to pos_end_
    pos_reading_, pos_writing_,
    called                      \* the last call and its argument

bufferBytes == <<block, pos_reading_, pos_writing_>>
bufferState == <<bufferBytes, called>>

AnyByte == 0
Capacity == Len(block)
ReadingSize == pos_writing_ - pos_reading_
Content == SubSeq(block, pos_reading_ + 1, pos_writing_)

BufferInit ==
    /\ block = <<>> /\ pos_reading_ = 0 /\ pos_writing_ = 0 /\ called = <<"none", 0>>

(* The least of size, 2 * size, 4 * size, ... that holds n. *)
Doubled(size, n) ==
    LET double[len \in Nat \ {0}] == IF len < n THEN double[2 * len] ELSE len
    IN  double[size]

Fresh(size, bytes) == [i \in 1 .. size |-> IF i <= Len(bytes) THEN bytes[i] ELSE AnyByte]

(* Slip: the free bytes before and after the data are taken for one piece. *)
EnsuredInPlace(need) ==
    IF block = <<>> THEN [mem |-> Fresh(Doubled(FirstSize, need), <<>>), from |-> 0]
    ELSE IF Capacity - ReadingSize >= need THEN [mem |-> block, from |-> pos_reading_]
    ELSE [mem |-> Fresh(Doubled(Capacity * 2, ReadingSize + need), Content), from |-> 0]

(* EnsureSize: the block afterwards, and where its data begins.  It is     *)
(* enlarged if it is too small or less than a fifth of it is free.         *)
Ensured(need) ==
    LET free == Capacity - ReadingSize IN
    IF block = <<>> THEN [mem |-> Fresh(Doubled(FirstSize, need), <<>>), from |-> 0]
    ELSE IF Capacity >= pos_writing_ + need THEN [mem |-> block, from |-> pos_reading_]
    ELSE IF free < need \/ free * 4 < ReadingSize
         THEN [mem |-> Fresh(Doubled(Capacity * 2, ReadingSize + need), Content), from |-> 0]
         ELSE [mem |-> Fresh(Capacity, Content), from |-> 0]

(* Write; and what OnRead and Encode do: EnsureSize, memcpy to GetWriting, *)
(* PourWriting, which refuses to move the cursor past the end. *)
Write(data) ==
    LET room == Ensured(Len(data))
        at == room.from + ReadingSize
        fits == at + Len(data) <= Len(room.mem) IN
    /\ ReadingSize + Len(data) <= MaxContent
    /\ called' = <<"Write", Len(data)>>
    /\ block' = [i \in DOMAIN room.mem |->
                    IF i \in at + 1 .. at + Len(data) THEN data[i - at] ELSE room.mem[i]]
    /\ pos_reading_' = room.from
    /\ pos_writing_' = IF fits THEN at + Len(data) ELSE at

(* What is left of the block between two cursors. *)
Between(from, to) == [i \in DOMAIN block |-> IF i \in from + 1 .. to THEN block[i] ELSE AnyByte]

DrainReading(n) ==
    /\ called' = <<"DrainReading", n>>
    /\ IF pos_reading_ + n >= pos_writing_
       THEN pos_reading_' = 0 /\ pos_writing_' = 0
       ELSE pos_reading_' = pos_reading_ + n /\ UNCHANGED pos_writing_
    /\ block' = Between(pos_reading_', pos_writing_')

StripWriting(n) ==
    /\ called' = <<"StripWriting", n>>
    /\ pos_writing_' = IF pos_writing_ >= pos_reading_ + n THEN pos_writing_ - n ELSE pos_writing_
    /\ block' = Between(pos_reading_, pos_writing_') /\ UNCHANGED pos_reading_

(* ShrinkSpace: to max_size, if the block is larger and the data smaller.  *)
(* (A block of no bytes is one that EnsureSize would double for ever.)     *)
ShrinkSpace(max_size) ==
    /\ max_size > 0
    /\ called' = <<"ShrinkSpace", max_size>>
    /\ IF block = <<>> \/ Capacity < max_size \/ ReadingSize > max_size
       THEN UNCHANGED bufferBytes
       ELSE /\ block' = Fresh(max_size, Content)
            /\ pos_reading_' = 0 /\ pos_writing_' = ReadingSize

ResetAll ==
    /\ called' = <<"Clear", 0>>
    /\ pos_reading_' = 0 /\ pos_writing_' = 0 /\ block' = Between(0, 0)

DestroyAll ==
    /\ called' = <<"Clear", 0>>
    /\ pos_reading_' = 0 /\ pos_writing_' = 0 /\ block' = <<>>

BufferNext ==
    \/ \E data \in Data : Write(data)
    \/ \E n \in Count : DrainReading(n) \/ StripWriting(n) \/ ShrinkSpace(n)
    \/ ResetAll \/ DestroyAll

BufferSpec == BufferInit /\ [][BufferNext]_bufferState

----------------------------------------------------------------------------
(* Properties.                                                             *)

(* However the block is enlarged, compacted, shrunk and given back between *)
(* the calls, the buffer is a queue of bytes.                              *)
BytesInOrder == INSTANCE ByteQueue WITH content <- Content
BufferIsQueue == BytesInOrder!QueueSpec
=============================================================================
