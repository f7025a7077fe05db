----------------------------- MODULE ReadUntil ------------------------------
(***************************************************************************)
(* Reading on request (event/hevent.c): in its read callback the           *)
(* application asks for so many bytes (hio_read_until_length), for bytes   *)
(* up to a delimiter (hio_read_until_delim: hio_readline, hio_readstring), *)
(* for what is left (hio_read_remain), or for whatever comes next          *)
(* (hio_read_once, hio_read).  What was received but not asked for stays in the read *)
(* buffer.  The buffer is modelled byte by byte, with what lies beyond its *)
(* tail, since hio_read_until_delim looks one byte too far.                *)
(***************************************************************************)
EXTENDS Integers, Sequences, SequencesExt, FiniteSetsExt

CONSTANTS
    Byte,          \* 0 \in Byte: nio_read puts a 0 behind what it read
    Lengths,       \* lengths asked for
    Delims,        \* delimiters asked for
    ReadBufSize,   \* HLOOP_READ_BUFSIZE
    MaxBufSize,    \* max_read_bufsize
    MaxBytes,      \* bytes the peer sends
    FullReads      \* a read may fill the buffer to its end

ASSUME ReadUntilAssumption ==
    /\ 0 \in Byte /\ Delims \subseteq Byte /\ Lengths \subseteq Nat
    /\ {ReadBufSize, MaxBufSize, MaxBytes} \subseteq Nat \ {0} /\ FullReads \in BOOLEAN

VARIABLES
    rb,            \* readbuf: base (the bytes), head, tail, own (not the loop's buffer)
    flag,          \* read_flags: "none", "length" or "delim"
    until,         \* read_until_length, read_until_delim
    once,          \* HIO_READ_ONCE is set: a request is open
    reading,       \* HV_READ is set
    caller,        \* in a callback, called from: "handler" (hio_handle_read then resizes),
                   \* "return" (it returns); else "none"
    over,          \* hio_alloc_readbuf refused: closed
    taken, out     \* ghost: the bytes received and the pieces handed up

ruvars == << rb, flag, until, once, reading, caller, over, taken, out >>

Size == Len(rb.base)
Data(b) == SubSeq(b.base, b.head + 1, b.tail)
Zeros(n) == [i \in 1 .. n |-> 0]

RuInit ==
    /\ rb = [base |-> Zeros(ReadBufSize), head |-> 0, tail |-> 0, own |-> FALSE]
    /\ flag = "none" /\ until = 0 /\ once = FALSE /\ reading = FALSE
    /\ caller = "return"                      \* on_accept or on_connect
    /\ over = FALSE /\ taken = << >> /\ out = << >>

Rewound(b) == IF b.head = b.tail THEN [b EXCEPT !.head = 0, !.tail = 0] ELSE b

\* hio_memmove_readbuf: the bytes behind the new tail stay what they were.
Moved(b) ==
    IF b.tail <= b.head THEN Rewound(b)
    ELSE LET n == b.tail - b.head IN
         [b EXCEPT !.base = Data(b) \o SubSeq(@, n + 1, Len(@)), !.head = 0, !.tail = n]

\* hio_alloc_readbuf, when n is allowed; a fresh buffer is zeroed, not copied.
Resized(b, n) ==
    [b EXCEPT !.base = IF ~b.own THEN Zeros(n)
                       ELSE [i \in 1 .. n |-> IF i <= Len(@) THEN @[i] ELSE 0],
              !.own = TRUE]

Alloc(b, n) ==
    IF n > MaxBufSize THEN rb' = b /\ over' = TRUE
    ELSE rb' = Resized(b, n) /\ UNCHANGED over

\* Mutant: the bytes handed up stay in the buffer.
HandUpKeepsHead(b, p, from) ==
    /\ out' = Append(out, p)
    /\ rb' = IF b.head + Len(p) = b.tail THEN Rewound([b EXCEPT !.head = @ + Len(p)]) ELSE b
    /\ reading' = (reading /\ ~once) /\ once' = FALSE
    /\ caller' = from

(***************************************************************************)
(* hio_read_cb: the bytes p from the head on are handed up; HIO_READ_ONCE  *)
(* stops reading.                                                          *)
(***************************************************************************)
HandUp(b, p, from) ==
    /\ out' = Append(out, p)
    /\ rb' = Rewound([b EXCEPT !.head = @ + Len(p)])
    /\ reading' = (reading /\ ~once) /\ once' = FALSE
    /\ caller' = from

(***************************************************************************)
(* Requests, made in a callback, one at a time.                            *)
(***************************************************************************)
Buffered == rb.tail - rb.head
MayAsk == caller # "none" /\ ~once
Asks == once' = TRUE /\ reading' = TRUE

ReadUntilLength(n) ==
    /\ MayAsk
    /\ IF Buffered >= n
         THEN HandUp(rb, SubSeq(Data(rb), 1, n), caller) /\ UNCHANGED << flag, until, over >>
         ELSE LET b == Moved(rb) IN     \* the lengths here are all below 1024
              /\ flag' = "length" /\ until' = n /\ Asks
              /\ IF ~b.own \/ Len(b.base) < b.head + n THEN Alloc(b, b.head + n)
                                                       ELSE rb' = b /\ UNCHANGED over
              /\ UNCHANGED << out, caller >>
    /\ UNCHANGED taken

\* The scan looks at the buffered bytes and at the one behind the tail, x.
Behind == IF rb.tail < Size THEN {rb.base[rb.tail + 1]} ELSE Byte

ReadUntilDelim(d, x) ==
    LET s == IF Buffered > 0 THEN Append(Data(rb), x) ELSE << >>
        hits == {i \in 1 .. Len(s) : s[i] = d}
    IN  /\ MayAsk
        /\ IF hits # {}
             THEN /\ HandUp(rb, SubSeq(s, 1, Min(hits)), caller)
                  /\ UNCHANGED << flag, until, over >>
             ELSE /\ flag' = "delim" /\ until' = d /\ Asks
                  /\ IF ~rb.own \/ Size < ReadBufSize THEN Alloc(rb, ReadBufSize) ELSE UNCHANGED << rb, over >>
                  /\ UNCHANGED << out, caller >>
        /\ UNCHANGED taken

ReadRemain ==
    /\ MayAsk /\ Buffered > 0
    /\ HandUp(rb, Data(rb), caller)
    /\ UNCHANGED << flag, until, over, taken >>

ReadOnce ==
    /\ MayAsk
    /\ Asks
    /\ UNCHANGED << rb, flag, until, caller, over, taken, out >>

\* hio_read: reading goes on; what is left is handed up at once.
ReadStart ==
    /\ MayAsk /\ flag = "none" /\ (Buffered > 0 \/ ~reading)
    /\ reading' = TRUE
    /\ IF Buffered > 0
         THEN /\ out' = Append(out, Data(rb)) /\ rb' = [rb EXCEPT !.head = 0, !.tail = 0]
         ELSE UNCHANGED << out, rb >>
    /\ UNCHANGED << flag, until, once, caller, over, taken >>

(***************************************************************************)
(* nio_read: the bytes c arrive, with a 0 behind them if there is room,    *)
(* and hio_handle_read looks whether the request is met.                   *)
(***************************************************************************)
Room == IF flag = "length" THEN until - Buffered ELSE Size - rb.tail

Received(c) ==
    [rb EXCEPT !.tail = @ + Len(c),
               !.base = [i \in 1 .. Size |-> IF i - rb.tail \in 1 .. Len(c) THEN c[i - rb.tail]
                                             ELSE IF i = rb.tail + Len(c) + 1 /\ Len(c) < Room THEN 0
                                             ELSE rb.base[i]]]

\* readbuf autosize; the branch that shrinks large buffers is left to Unpack.
Autosize(b) ==
    LET r == Rewound(b) IN
    IF r.tail # Len(r.base) THEN rb' = r /\ UNCHANGED over
    ELSE IF r.head = 0 THEN Alloc(r, Len(r.base) * 2)
    ELSE rb' = Moved(r) /\ UNCHANGED over

NioRead(c) ==
    LET b == Received(c)
        n == b.tail - b.head
        hits == {i \in 1 .. n : i > n - Len(c) /\ Data(b)[i] = until}
    IN  /\ reading /\ caller = "none" /\ ~over
        /\ Len(c) <= Room
        /\ (flag # "length" /\ ~FullReads) => Len(c) < Room
        /\ taken' = taken \o c
        /\ \/ /\ flag = "length" /\ n >= until
              /\ HandUp(b, SubSeq(Data(b), 1, until), "handler") /\ flag' = "none" /\ UNCHANGED over
           \/ /\ flag = "delim" /\ hits # {}
              /\ HandUp(b, SubSeq(Data(b), 1, Min(hits)), "return")
              /\ flag' = "none" /\ UNCHANGED over
           \/ /\ flag = "none"
              /\ HandUp(b, Data(b), "handler") /\ UNCHANGED << flag, over >>
           \/ /\ \/ flag = "length" /\ n < until
                 \/ flag = "delim" /\ hits = {}
              /\ Autosize(b) /\ UNCHANGED << flag, once, reading, caller, out >>
        /\ UNCHANGED until

\* The callback returns to hio_handle_read, or to the caller of the request.
Returned ==
    /\ caller # "none" /\ reading
    /\ caller' = "none"
    /\ IF caller = "handler" THEN Autosize(rb) ELSE UNCHANGED << rb, over >>
    /\ UNCHANGED << flag, until, once, reading, taken, out >>

RuNext ==
    \/ \E n \in Lengths : ReadUntilLength(n)
    \/ \E d \in Delims, x \in Behind : ReadUntilDelim(d, x)
    \/ ReadRemain \/ ReadOnce \/ ReadStart \/ Returned
    \/ \E n \in 1 .. MaxBytes - Len(taken) : \E c \in [1 .. n -> Byte] : NioRead(c)

RuSpec == RuInit /\ [][RuNext]_ruvars

(***************************************************************************)
(* Whatever is asked for and however the reads split the stream, the       *)
(* application sees the stream: what was handed up, followed by what is    *)
(* buffered, is what was received (hio_read_until_length,                  *)
(* hio_read_until_delim, hio_read_remain, hio_handle_read).                *)
(***************************************************************************)
StreamExact == FlattenSeq(out) \o Data(rb) = taken

(***************************************************************************)
(* Whenever a read is due there is room for it, as nio_read's              *)
(* assert(len > 0) has it (nio.c:318), and inside the buffer.              *)
(***************************************************************************)
ReadHasRoom == reading /\ caller = "none" /\ ~over => Room > 0 /\ rb.tail + Room <= Size

(***************************************************************************)
(* The pieces that reads until a length or a delimiter hand up, and what   *)
(* is left in the buffer, are the stream in order, and nio_read always     *)
(* finds room (hevent.c:758-824).                                          *)
(***************************************************************************)
PiecesExact == StreamExact /\ ReadHasRoom
=============================================================================
