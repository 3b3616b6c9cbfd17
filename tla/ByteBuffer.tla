----------------------------- MODULE ByteBuffer -----------------------------
(***************************************************************************)
(* The ByteBuffer extension (lua-executor/Extensions/ByteBuffer): memory   *)
(* of a fixed capacity with a read and a write offset, into which values   *)
(* are written in a byte order.  A byte is the part of a value it holds,   *)
(* part 1 being the most significant one; a value is a number, and the     *)
(* functions for the types differ in the width only.                       *)
(***************************************************************************)
EXTENDS Naturals, Sequences

CONSTANT MachineOrder   \* the byte order of the machine

ASSUME ByteBufferAssumption == MachineOrder \in {"Big", "Little"}

Endians == {"Big", "Little", "Machine"}
Blank   == [value |-> 0, part |-> 0]   \* a byte nothing was written to
Garbage == 0                           \* the value of bytes that hold none

(* Mutant: big is taken for the order of the machine.                      *)
ByteOrderBig(endian) == IF endian = "Machine" THEN "Big" ELSE endian

ByteOrder(endian) == IF endian = "Machine" THEN MachineOrder ELSE endian

Encode(value, width, endian) ==
    [i \in 1 .. width |->
        [value |-> value, part |-> IF ByteOrder(endian) = "Big" THEN i ELSE width + 1 - i]]

Decode(bytes, endian) ==
    IF bytes = Encode(bytes[1].value, Len(bytes), endian) THEN bytes[1].value ELSE Garbage

byte_buffer_allocate(endian, capacity) ==
    [endian |-> endian, bytes |-> [i \in 1 .. capacity |-> Blank], read |-> 0, write |-> 0]

(* No buffer: the functions answer it like one that holds nothing.         *)
nullptr == byte_buffer_allocate("Machine", 0)

byte_buffer_get_capacity(buffer) == Len(buffer.bytes)

byte_buffer_set_read_offset(buffer, value)  == [buffer EXCEPT !.read = value]
byte_buffer_set_write_offset(buffer, value) == [buffer EXCEPT !.write = value]

-----------------------------------------------------------------------------
(* Writing appends at the write offset and fails when it does not fit.     *)

Fits(buffer, size) == buffer.write + size <= byte_buffer_get_capacity(buffer)

(* What a caller does who got the address of the memory.                   *)
Put(buffer, offset, bytes) ==
    [buffer EXCEPT !.bytes = [i \in DOMAIN @ |->
        IF i \in offset + 1 .. offset + Len(bytes) THEN bytes[i - offset] ELSE @[i]]]

Appended(buffer, bytes) ==
    IF Fits(buffer, Len(bytes))
    THEN byte_buffer_set_write_offset(Put(buffer, buffer.write, bytes), buffer.write + Len(bytes))
    ELSE buffer

byte_buffer_write(buffer, other, size) == Appended(buffer, SubSeq(other.bytes, 1, size))

byte_buffer_write_value(buffer, value, width) ==
    Appended(buffer, Encode(value, width, buffer.endian))

-----------------------------------------------------------------------------
(* Reading takes what lies behind the read offset and advances it.         *)

Ahead(buffer, size) == SubSeq(buffer.bytes, buffer.read + 1, buffer.read + size)

ReadOn(buffer, size) == byte_buffer_set_read_offset(buffer, buffer.read + size)

(* What was read becomes a new buffer, whose write offset stays at 0.      *)
byte_buffer_read(buffer, size) ==
    Put(byte_buffer_allocate(buffer.endian, size), 0, Ahead(buffer, size))

byte_buffer_read_value(buffer, width) == Decode(Ahead(buffer, width), buffer.endian)
=============================================================================
