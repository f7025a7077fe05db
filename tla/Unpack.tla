------------------------------- MODULE Unpack -------------------------------
(***************************************************************************)
(* Cutting a byte stream into packets (event/unpack.c), in the read buffer *)
(* of one connection: nio_read appends what the socket has,                *)
(* hio_handle_read hands the buffer to hio_unpack and resizes it.  Reads   *)
(* return any number of bytes, so a packet, a delimiter or a length field  *)
(* may be split anywhere.  Sizes are scaled down: a byte has two bits.     *)
(***************************************************************************)
EXTENDS Integers, Sequences, SequencesExt, FiniteSetsExt

CONSTANTS
    Settings,      \* the unpack_setting_t to try, with the bytes the peer sends, at most `most'
    MaxLength,     \* package_max_length
    BufSize,       \* HLOOP_READ_BUFSIZE
    HighWater,     \* READ_BUFSIZE_HIGH_WATER
    VarintMax      \* bytes a varint may have

ASSUME UnpackAssumption ==
    /\ {MaxLength, BufSize, HighWater, VarintMax} \subseteq Nat \ {0}
    /\ \A s \in Settings :
          /\ s.mode = "fixed" => s.fixed_length \in 1 .. MaxLength
          /\ s.mode = "length" => s.body_offset >= s.length_field_offset + s.length_field_bytes

VARIABLES
    setting,
    buf,           \* readbuf[head .. tail); head is 0 between reads
    len,           \* readbuf.len
    small_readbytes_cnt,
    closed,
    got, packets   \* ghost: the bytes received and the packets handed up

upvars == << setting, buf, len, small_readbytes_cnt, closed, got, packets >>

Drop(s, n) == SubSeq(s, n + 1, Len(s))
MinOf(a, b) == IF a <= b THEN a ELSE b
LimitTo(lower, v, upper) == IF v < lower THEN lower ELSE MinOf(v, upper)

\* hio_set_unpack on a connection that has read nothing.
UpInit ==
    /\ setting \in Settings
    /\ buf = << >> /\ got = << >> /\ packets = << >>
    /\ len = IF setting.mode = "fixed" THEN setting.fixed_length ELSE MinOf(BufSize, MaxLength)
    /\ small_readbytes_cnt = 0 /\ closed = FALSE

(***************************************************************************)
(* The three ways of cutting: each gives the packets found in s and the    *)
(* number of bytes left.                                                   *)
(***************************************************************************)
UnpackByFixedLength(s) ==
    LET n == setting.fixed_length
        count == Len(s) \div n
    IN  [found |-> [i \in 1 .. count |-> SubSeq(s, (i - 1) * n + 1, i * n)], left |-> Len(s) % n]

IsDelimiterAt(s, p) ==
    /\ p + Len(setting.delimiter) <= Len(s)
    /\ SubSeq(s, p + 1, p + Len(setting.delimiter)) = setting.delimiter

\* The loop of hio_unpack_by_delimiter from p on, the packet having begun at sp.
RECURSIVE ScanDelimiter(_, _, _)
ScanDelimiter(s, sp, p) ==
    LET q == p + Len(setting.delimiter) IN
    IF q > Len(s) THEN [found |-> << >>, left |-> Len(s) - sp]
    ELSE IF IsDelimiterAt(s, p)
      THEN LET rest == ScanDelimiter(s, q, q)
           IN  [rest EXCEPT !.found = << SubSeq(s, sp + 1, q) >> \o @]
      ELSE ScanDelimiter(s, sp, p + 1)

\* Mutant: the search starts at the new bytes.
UnpackByDelimiterLate(s, old) == ScanDelimiter(s, 0, old)

\* The search starts where the new bytes could complete a delimiter.
UnpackByDelimiter(s, old) == ScanDelimiter(s, 0, Max({0, old - Len(setting.delimiter) + 1}))

\* varint_decode: bytes used (0: more are needed, -1: too long) and value, two bits a byte.
VarintDecode(s) ==
    LET ends == {i \in 1 .. MinOf(Len(s), VarintMax) : s[i] < 2}
        n == Min(ends)
    IN  IF ends # {} THEN [bytes |-> n, value |-> SumSet({2^(i - 1) : i \in {j \in 1 .. n : s[j] % 2 = 1}})]
        ELSE [bytes |-> IF Len(s) >= VarintMax THEN -1 ELSE 0, value |-> 0]

\* asn1_decode: short form, or a count of length bytes (at most 1 here).
Asn1Decode(s) ==
    CASE s[1] < 2  -> [bytes |-> 1, value |-> s[1]]
      [] s[1] = 2  -> [bytes |-> -1, value |-> 0]
      [] OTHER     -> IF Len(s) = 1 THEN [bytes |-> 0, value |-> 0] ELSE [bytes |-> 2, value |-> s[2]]

BigEndian(s) == FoldFunctionOnSet(LAMBDA b, v : v + b, 0, [i \in 1 .. Len(s) |-> s[i] * 4^(Len(s) - i)], 1 .. Len(s))

LengthField(s) ==
    LET lp == Drop(s, setting.length_field_offset) IN
    CASE setting.coding = "varint" -> VarintDecode(lp)
      [] setting.coding = "asn1"   -> Asn1Decode(lp)
      [] setting.coding = "big"    -> [bytes |-> setting.length_field_bytes,
                                       value |-> BigEndian(SubSeq(lp, 1, setting.length_field_bytes))]
      [] setting.coding = "little" -> [bytes |-> setting.length_field_bytes,
                                       value |-> BigEndian(Reverse(SubSeq(lp, 1, setting.length_field_bytes)))]

PackageLen(f) ==
    setting.body_offset + f.bytes - setting.length_field_bytes + f.value + setting.length_adjustment

\* The loop of hio_unpack_by_length_field; package_len is the last one computed.
RECURSIVE ScanLength(_, _)
ScanLength(s, package_len) ==
    IF Len(s) < setting.body_offset
      THEN [found |-> << >>, left |-> Len(s), need |-> package_len, bad |-> FALSE]
    ELSE LET f == LengthField(s) IN
    IF f.bytes <= 0
      THEN [found |-> << >>, left |-> Len(s), need |-> package_len, bad |-> f.bytes < 0]
    ELSE LET n == PackageLen(f) IN
    IF Len(s) < n THEN [found |-> << >>, left |-> Len(s), need |-> n, bad |-> FALSE]
    ELSE LET rest == ScanLength(Drop(s, n), n)
         IN  [rest EXCEPT !.found = << SubSeq(s, 1, n) >> \o @]

(***************************************************************************)
(* What follows the loop: close on a packet too long, or make room for it. *)
(* r is the outcome of the loop; the result is the new length, 0 to close. *)
(***************************************************************************)
RoomAfter(r) ==
    CASE setting.mode = "fixed" -> len
      [] setting.mode = "delim" ->
           IF r.left # len THEN len ELSE IF len >= MaxLength THEN 0 ELSE MinOf(len * 2, MaxLength)
      [] setting.mode = "length" ->
           IF r.bad THEN 0
           ELSE IF r.left = 0 \/ r.need <= len THEN len
           ELSE IF r.need > MaxLength THEN 0
           ELSE LimitTo(r.need, len * 2, MaxLength)

UnpackIt(s) ==
    CASE setting.mode = "fixed"  -> UnpackByFixedLength(s)
      [] setting.mode = "delim"  -> UnpackByDelimiter(s, Len(buf))
      [] setting.mode = "length" -> ScanLength(s, setting.body_offset)

\* hio_read_cb counts small packets in a large buffer.
SmallCount(found) ==
    FoldLeft(LAMBDA n, p : IF len <= HighWater THEN n ELSE IF Len(p) < len \div 2 THEN n + 1 ELSE 0,
             small_readbytes_cnt, found)

(***************************************************************************)
(* nio_read, hio_handle_read: c is what the socket had.                    *)
(***************************************************************************)
ReadAndUnpack(c) ==
    LET s == buf \o c
        r == UnpackIt(s)
        room == RoomAfter(r)
        cnt == IF room = len THEN SmallCount(r.found) ELSE 0
        full == r.left = room                               \* readbuf autosize
        shrink == ~full /\ r.left < room \div 2 /\ cnt >= 3
    IN  /\ ~closed
        /\ Len(c) <= len - Len(buf)
        /\ got' = got \o c
        /\ packets' = packets \o r.found
        /\ buf' = Drop(s, Len(s) - r.left)
        /\ closed' = (room = 0 \/ (full /\ room * 2 > MaxLength))
        /\ len' = IF closed' THEN len ELSE IF full THEN room * 2 ELSE IF shrink THEN room \div 2 ELSE room
        /\ small_readbytes_cnt' = IF full \/ shrink THEN 0 ELSE MinOf(cnt, 3)
        /\ UNCHANGED setting

\* The peer closes, or the application in a callback or elsewhere.
UnpackClose ==
    /\ ~closed /\ closed' = TRUE
    /\ buf' = << >> /\ got' = FlattenSeq(packets)
    /\ UNCHANGED << setting, len, small_readbytes_cnt, packets >>

UpNext ==
    \/ \E n \in 1 .. setting.most - Len(got) : \E c \in [1 .. n -> setting.bytes] : ReadAndUnpack(c)
    \/ UnpackClose

UpSpec == UpInit /\ [][UpNext]_upvars

(***************************************************************************)
(* A whole packet by the setting's definition (hloop.h:505-537), and       *)
(* nothing more.                                                           *)
(***************************************************************************)
IsPacket(p) ==
    CASE setting.mode = "fixed"  -> Len(p) = setting.fixed_length
      [] setting.mode = "delim"  -> {i \in 0 .. Len(p) : IsDelimiterAt(p, i)} = {Len(p) - Len(setting.delimiter)}
      [] setting.mode = "length" ->
           /\ Len(p) >= setting.body_offset
           /\ LET f == LengthField(p) IN
              /\ f.bytes > 0
              /\ Len(p) = setting.body_offset + f.bytes - setting.length_field_bytes + f.value
                          + setting.length_adjustment

(***************************************************************************)
(* However the reads split the stream, the packets handed up are exactly   *)
(* the stream cut at its packet boundaries: no byte lost, repeated or      *)
(* moved, each piece one whole packet, and no whole packet kept back.      *)
(***************************************************************************)
PacketsExact ==
    /\ FlattenSeq(packets) \o buf = got
    /\ \A i \in 1 .. Len(packets) : IsPacket(packets[i])
    /\ ~closed => \A n \in 1 .. Len(buf) : ~IsPacket(SubSeq(buf, 1, n))

(***************************************************************************)
(* The buffer of an open connection always has room for the next read, as  *)
(* nio_read asserts (nio.c:318), and never outgrows package_max_length;    *)
(* the unpacker closes only on a packet that is longer than that, or whose *)
(* length cannot be read (ERR_OVER_LIMIT, unpack.c:97, 140, 152, 184).     *)
(***************************************************************************)
TooLong(s) ==
    \/ setting.mode = "delim" /\ Len(s) >= MaxLength
    \/ setting.mode = "length" /\ LET f == LengthField(s) IN f.bytes < 0 \/ PackageLen(f) > MaxLength

RoomForRead ==
    /\ ~closed => Len(buf) < len /\ len <= MaxLength
    /\ closed /\ buf # << >> => TooLong(buf)
=============================================================================
