------------------------------ MODULE Streams -------------------------------
(* What is read through an open probe while it arrives: SWO, RTT, power      *)
(* trace, high-speed sampling and the TRACE buffer. The DLL collects in the  *)
(* background; a read asks, takes and acknowledges in up to three calls, and *)
(* more may arrive between any two of them.                                  *)
(*                                                                           *)
(* The readers share no state (each object holds its link and little else),  *)
(* so a behaviour is about one of them, chosen at the start.                 *)
EXTENDS Link, Integers, SequencesExt, FiniteSetsExt

CONSTANTS
  Packets,      \* ITM packets the target may send
  BlockLists,   \* sizes of the memory blocks a script may sample together
  MaxPackets,   \* bound: SWO packets the target sends
  HostBytes,    \* bytes the DLL buffers for SWO, RTT and power trace
  Chunk,        \* largest read
  Readers,      \* Hss objects: every use of JLink.hss makes a new one
  MaxSamples,   \* bound: whole samples of the memory blocks
  MaxTrace,     \* bound: samples of the trace
  TraceRoom     \* capacity of the TRACE buffer

ASSUME StreamsAssumption ==
  {MaxPackets, HostBytes, Chunk, MaxSamples, MaxTrace, TraceRoom} \subseteq Nat

VARIABLES
  kind,      \* which reader this behaviour is about
  sent,      \* the packets the target sends
  arrived,   \* how many of their bytes, or whole samples, the DLL has been sent
  buffer,    \* what the DLL holds: indices of bytes, sampled bytes, samples
  got,       \* what the reader has returned
  gone,      \* indices lost because the DLL was full, or flushed on request
  reading,   \* the read in progress
  line,      \* "off", "half" (started, nothing comes yet) or "up"
  deadline,  \* of a call that polls: "ahead", "past" or "never"; "none" of no call
  hss,       \* high-speed sampling: see HssOff
  walk       \* read_all() of the TRACE buffer

dataVars == <<kind, sent, arrived, buffer, got, gone, reading, line>>
streamVars == <<dataVars, deadline, hss, walk>>

Resting == [op |-> "none", n |-> 0]

------------------------------------------------------------------------------
(* ITM packets and decode_itm. A packet is the bytes the target sends for it *)
(* and, if it is a stimulus write, the port and the data it carries.         *)

Stimulus(port, size, payload) ==
  [bytes |-> <<8 * port + size>> \o payload,
   means |-> <<[port |-> port, data |-> payload]>>]
Skipped(bytes) == [bytes |-> bytes, means |-> <<>>]

\* By the ITM protocol a header names a port or a DWT source, and how many
\* bytes follow; a synchronisation is a run of zero bytes and 128; of the other
\* packets every byte but the last has the continuation bit.
PayloadBytes == <<1, 2, 4>>

IsStimulus(p) ==
  \E port \in 0..31, size \in 1..3 :
    /\ p = Stimulus(port, size, Tail(p.bytes))
    /\ Len(p.bytes) = 1 + PayloadBytes[size]
IsHardware(p) ==
  \E source \in 0..31, size \in 1..3 :
    /\ p.bytes[1] = 8 * source + 4 + size
    /\ Len(p.bytes) = 1 + PayloadBytes[size]
IsSynchronisation(p) ==
  /\ Len(p.bytes) > 1
  /\ \A k \in 1..Len(p.bytes) : p.bytes[k] = IF k < Len(p.bytes) THEN 0 ELSE 128
IsProtocol(p) ==
  /\ p.bytes[1] # 0 /\ p.bytes[1] % 4 = 0
  /\ \A k \in 1..Len(p.bytes) : p.bytes[k] >= 128 <=> k < Len(p.bytes)

ASSUME PacketsAssumption ==
  \A p \in Packets :
    /\ p.bytes \in Seq(0..255) /\ Len(p.bytes) > 0
    /\ \/ IsStimulus(p)
       \/ /\ p = Skipped(p.bytes)
          /\ IsHardware(p) \/ IsSynchronisation(p) \/ IsProtocol(p)

SizeBits(header) == header % 4

\* Mutant: the size bits are the number of bytes.
PayloadLengthBySizeBits(header) == SizeBits(header)

PayloadLength(header) ==
  CASE SizeBits(header) = 1 -> 1
    [] SizeBits(header) = 2 -> 2
    [] SizeBits(header) = 3 -> 4
IsSource(header) == (header \div 4) % 2 = 0

\* First position from i on whose byte is no continuation, or past the end.
PastContinuation(data, i) ==
  Min({j \in i..Len(data) : data[j] < 128} \union {Len(data)}) + 1
PastZeros(data, i) ==
  Min({j \in i..Len(data) : data[j] # 0} \union {Len(data) + 1})

\* Where the synchronisation or protocol packet that starts at i ends.
AfterProtocol(data, i) ==
  IF data[i] = 0
  THEN LET j == PastZeros(data, i)
       IN  IF j <= Len(data) /\ data[j] = 128 THEN j + 1 ELSE j
  ELSE IF data[i] >= 128 THEN PastContinuation(data, i + 1) ELSE i + 1

Fits(data, i) == i + PayloadLength(data[i]) <= Len(data)

DecodeItm(data) ==
  LET decode[i \in 1..Len(data) + 1] ==
        IF i > Len(data) THEN <<>>
        ELSE IF SizeBits(data[i]) = 0 THEN decode[AfterProtocol(data, i)]
        ELSE IF ~Fits(data, i) THEN <<>>
        ELSE LET size == PayloadLength(data[i])
                 packet == [port |-> data[i] \div 8,
                            data |-> SubSeq(data, i + 1, i + size)]
             IN  (IF IsSource(data[i]) THEN <<packet>> ELSE <<>>)
                   \o decode[i + 1 + size]
  IN  decode[1]

BytesOf(packets) == FlattenSeq([p \in 1..Len(packets) |-> packets[p].bytes])

\* What the packets mean that end within the first n bytes.
Whole(packets, n) ==
  FlattenSeq([p \in 1..Len(packets) |->
    IF Len(BytesOf(SubSeq(packets, 1, p))) <= n
    THEN packets[p].means ELSE <<>>])

------------------------------------------------------------------------------
(* The bytes of SWO, RTT and power trace, as they arrive.                    *)

BufferKinds == {"swo", "rtt", "power"}
Bytes == BytesOf(sent)

\* layout is what is being sampled, ran what was sampled last, into how many
\* bytes of the sample in progress the DLL has been sent, and blocks what each
\* object goes by. History: owner is who started the sampling if nobody else
\* has read since, readBy who read last, taken how many bytes reads have taken
\* of the first sample that is not wholly taken, and from what taken was when
\* the last read began.
HssOff ==
  [layout |-> None, ran |-> None, owner |-> None, readBy |-> None,
   into |-> 0, taken |-> 0, from |-> 0, blocks |-> [o \in Readers |-> None]]

StreamsInit ==
  /\ kind \in BufferKinds \union {"hss", "trace"}
  /\ sent \in IF kind = "swo"
              THEN UNION {[1..n -> Packets] : n \in 1..MaxPackets}
              ELSE {<<Skipped([i \in 1..HostBytes + 2 |-> i])>>}
  /\ arrived = 0 /\ buffer = <<>> /\ got = <<>> /\ gone = {}
  /\ reading = Resting
  /\ line = "off" /\ deadline = "none"
  /\ hss = HssOff
  /\ walk = [total |-> 0, shifted |-> FALSE, short |-> FALSE, on |-> FALSE]

\* start(): SWO is started on the host, then enabled on the target, which may
\* fail and leaves the host collecting; RTT runs once the target has set up its
\* control block. A start that fails before changes nothing.
Start ==
  /\ kind \in BufferKinds /\ reading = Resting /\ deadline = "none"
  /\ line' \in CASE kind = "swo" -> {"up", "half"}
                  [] kind = "rtt" -> {"half"}
                  [] kind = "power" -> {"up"}
  /\ UNCHANGED <<kind, sent, arrived, buffer, got, gone, reading, deadline, hss,
                 walk>>

TargetReady ==
  /\ kind = "rtt" /\ line = "half" /\ line' = "up"
  /\ UNCHANGED <<kind, sent, arrived, buffer, got, gone, reading, deadline, hss,
                 walk>>

\* stop() never raises, and the probe may have refused it.
Stop ==
  /\ kind \in BufferKinds /\ reading = Resting /\ deadline = "none"
  /\ line # "off" /\ line' = "off"
  /\ UNCHANGED <<kind, sent, arrived, buffer, got, gone, reading, deadline, hss,
                 walk>>

\* A byte that finds the DLL's buffer full is lost.
Arrive ==
  /\ kind \in BufferKinds /\ line = "up" /\ arrived < Len(Bytes)
  /\ arrived' = arrived + 1
  /\ IF Len(buffer) < HostBytes
     THEN buffer' = Append(buffer, arrived + 1) /\ gone' = gone
     ELSE gone' = gone \union {arrived + 1} /\ buffer' = buffer
  /\ UNCHANGED <<kind, sent, line, got, reading, deadline, hss, walk>>

StreamOver == deadline = "past"

MayRead == reading = Resting /\ ~StreamOver

Take(n) == got' = got \o SubSeq(buffer, 1, n)
Drop(n) == buffer' = SubSeq(buffer, n + 1, Len(buffer))

\* Swo.read(): copy what is there, then flush as many bytes as were copied.
SwoRead ==
  /\ kind = "swo" /\ MayRead
  /\ LET n == Min({Len(buffer), Chunk})
     IN  reading' = IF n = 0 THEN Resting ELSE [op |-> "read", n |-> n]
  /\ UNCHANGED <<kind, sent, line, arrived, buffer, got, gone, deadline, hss, walk>>

\* Mutant: flush() without a number.
ReadFlushesAll == Len(buffer)

ReadFlushes == reading.n

SwoReadFlush ==
  /\ reading.op = "read"
  /\ Take(reading.n) /\ Drop(ReadFlushes)
  /\ reading' = Resting
  /\ UNCHANGED <<kind, sent, line, arrived, gone, deadline, hss, walk>>

\* flush(): without a number, as many bytes as were pending when it asked.
SwoFlush ==
  /\ kind = "swo" /\ reading = Resting /\ deadline = "none"
  /\ reading' = [op |-> "flush", n |-> Len(buffer)]
  /\ UNCHANGED <<kind, sent, line, arrived, buffer, got, gone, deadline, hss, walk>>

SwoFlushed ==
  /\ reading.op = "flush"
  /\ gone' = gone \union {buffer[i] : i \in 1..reading.n}
  /\ Drop(reading.n)
  /\ reading' = Resting
  /\ UNCHANGED <<kind, sent, line, arrived, got, deadline, hss, walk>>

\* A FLUSH command the DLL refuses raises: what was copied is not returned,
\* and it ends a stream().
ReadRaises ==
  /\ reading.op # "none"
  /\ reading' = Resting
  /\ deadline' = "none"
  /\ UNCHANGED <<kind, sent, line, arrived, buffer, got, gone, hss, walk>>

\* Rtt.read(): one call, which takes what it returns.
RttRead ==
  /\ kind = "rtt" /\ MayRead
  /\ LET n == Min({Len(buffer), Chunk}) IN Take(n) /\ Drop(n)
  /\ UNCHANGED <<kind, sent, line, arrived, gone, reading, deadline, hss, walk>>

\* PowerTrace.read(): ask how many there are, then take as many.
PowerCount ==
  /\ kind = "power" /\ MayRead
  /\ reading' = IF buffer = <<>> THEN Resting
                ELSE [op |-> "items", n |-> Len(buffer)]
  /\ UNCHANGED <<kind, sent, line, arrived, buffer, got, gone, deadline, hss, walk>>

PowerRead ==
  /\ reading.op = "items"
  /\ Take(reading.n) /\ Drop(reading.n)
  /\ reading' = Resting
  /\ UNCHANGED <<kind, sent, line, arrived, gone, deadline, hss, walk>>

\* Rtt.wait_until_running(): poll until up-buffers are seen.
RttWait ==
  /\ kind = "rtt" /\ reading = Resting /\ deadline = "none"
  /\ reading' = [op |-> "wait", n |-> 0] /\ deadline' = "ahead"
  /\ UNCHANGED <<kind, sent, line, arrived, buffer, got, gone, hss, walk>>

RttWaitEnds ==
  /\ reading.op = "wait" /\ (StreamOver \/ line = "up")
  /\ reading' = Resting /\ deadline' = "none"
  /\ UNCHANGED <<kind, sent, line, arrived, buffer, got, gone, hss, walk>>

\* stream() of SWO and RTT, a generator: each iteration is a read, until the
\* deadline has passed. RTT's has no deadline unless it is given one. What the
\* script does with what is yielded calls nothing on the object.
StreamDeadlines == IF kind = "rtt" THEN {"ahead", "never"} ELSE {"ahead"}

StreamStart ==
  /\ kind \in {"swo", "rtt"} /\ reading = Resting /\ deadline = "none"
  /\ deadline' \in StreamDeadlines
  /\ UNCHANGED <<dataVars, hss, walk>>

\* The script may leave the loop.
StreamLeft ==
  /\ kind \in {"swo", "rtt"} /\ reading = Resting /\ deadline # "none"
  /\ deadline' = "none"
  /\ UNCHANGED <<dataVars, hss, walk>>

DeadlinePasses ==
  /\ deadline = "ahead" /\ deadline' = "past"
  /\ UNCHANGED <<dataVars, hss, walk>>

StreamEnds ==
  /\ StreamOver /\ reading = Resting
  /\ deadline' = "none"
  /\ UNCHANGED <<dataVars, hss, walk>>

------------------------------------------------------------------------------
(* High-speed sampling. A layout is the sizes of the blocks and whether each *)
(* sample is stamped; a byte is named by sample, block (0 the stamp), place. *)

\* The sampled blocks together are never empty: a sample of no bytes would
\* make read() divide by zero.
ASSUME BlocksAssumption ==
  \A sizes \in BlockLists :
    sizes \in Seq(Nat) /\ \E b \in 1..Len(sizes) : sizes[b] > 0

StampBytes == 4
Layouts == [sizes : BlockLists, stamped : BOOLEAN]

HssField(s, block, size) == [k \in 1..size |-> <<s, block, k>>]
Stamp(s, layout) ==
  IF layout.stamped THEN HssField(s, 0, StampBytes) ELSE <<>>
Blocks(s, layout) ==
  [b \in 1..Len(layout.sizes) |-> HssField(s, b, layout.sizes[b])]
SampleBytes(s, layout) == Stamp(s, layout) \o FlattenSeq(Blocks(s, layout))
AsTaken(s, layout) ==
  [stamp |-> Stamp(s, layout), blocks |-> Blocks(s, layout)]

BytesBefore(layout, b) ==
  LET before[n \in 1..b] ==
        IF n = 1 THEN IF layout.stamped THEN StampBytes ELSE 0
        ELSE before[n - 1] + layout.sizes[n - 1]
  IN  before[b]
SampleSize(layout) == BytesBefore(layout, Len(layout.sizes) + 1)

WholeSamples(count, stride) == count \div stride

HssDecode(blob, layout) ==
  LET stride == SampleSize(layout)
      at(base, from, size) == SubSeq(blob, base + from + 1, base + from + size)
  IN  [i \in 1..WholeSamples(Len(blob), stride) |->
        LET base == (i - 1) * stride
        IN  [stamp |-> IF layout.stamped THEN at(base, 0, StampBytes) ELSE <<>>,
             blocks |-> [b \in 1..Len(layout.sizes) |->
               at(base, BytesBefore(layout, b), layout.sizes[b])]]]

\* Mutant: the object keeps the blocks of its first start.
RememberedFirst(o, layout) ==
  [hss.blocks EXCEPT ![o] = IF @ = None THEN layout ELSE @]

Remembered(o, layout) == [hss.blocks EXCEPT ![o] = layout]

\* A start the probe refuses changes nothing; one it takes replaces whatever
\* was sampled before. The object remembers the blocks after the DLL has them.
HssStart(o) ==
  /\ kind = "hss"
  /\ \E layout \in Layouts :
       hss' = [layout |-> layout, ran |-> layout, owner |-> o, readBy |-> None,
               into |-> 0, taken |-> 0, from |-> 0, blocks |-> Remembered(o, layout)]
  /\ buffer' = <<>> /\ got' = <<>> /\ arrived' = 0
  /\ UNCHANGED <<kind, sent, line, gone, reading, deadline, walk>>

\* What is sampled reaches the DLL in pieces, and where they end is nobody's
\* business here: a read may come in the middle of a sample. The target may go
\* away at any time, and then no more comes.
HssSample ==
  /\ kind = "hss" /\ hss.layout # None /\ arrived < MaxSamples
  /\ \E upTo \in hss.into + 1..SampleSize(hss.layout) :
       /\ buffer' = buffer \o
            SubSeq(SampleBytes(arrived + 1, hss.layout), hss.into + 1, upTo)
       /\ IF upTo = SampleSize(hss.layout)
          THEN arrived' = arrived + 1 /\ hss' = [hss EXCEPT !.into = 0]
          ELSE arrived' = arrived /\ hss' = [hss EXCEPT !.into = upTo]
  /\ UNCHANGED <<kind, sent, line, got, gone, reading, deadline, walk>>

HssStop(o) ==
  /\ kind = "hss"
  /\ hss' = [hss EXCEPT !.layout = None, !.blocks = [@ EXCEPT ![o] = None]]
  /\ UNCHANGED <<dataVars, deadline, walk>>

\* Hss.read() decodes by what its own object has started last. The DLL counts
\* bytes: if they end in a part of a sample, that is taken from the DLL like the
\* rest, and dropped.
HssRead(o) ==
  /\ kind = "hss" /\ hss.blocks[o] # None
  /\ LET stride == SampleSize(hss.blocks[o])
         count == Min({Len(buffer), stride * Chunk})
     IN  /\ got' = HssDecode(SubSeq(buffer, 1, count), hss.blocks[o])
         /\ Drop(count)
         /\ hss' = [hss EXCEPT !.readBy = o, !.owner = IF @ = o THEN @ ELSE None,
                               !.from = hss.taken, !.taken = (@ + count) % stride]
  /\ UNCHANGED <<kind, sent, line, arrived, gone, reading, deadline, walk>>

------------------------------------------------------------------------------
(* The TRACE buffer. Reading takes nothing out; capture goes on meanwhile,   *)
(* and in a full buffer the oldest samples fall out and offsets shift.       *)

TraceSample ==
  /\ kind = "trace" /\ arrived < MaxTrace
  /\ arrived' = arrived + 1
  /\ LET grown == Append(buffer, arrived + 1)
     IN  /\ buffer' = IF Len(grown) > TraceRoom THEN Tail(grown) ELSE grown
         /\ walk' = [walk EXCEPT !.shifted = @ \/ Len(grown) > TraceRoom]
  /\ UNCHANGED <<kind, sent, line, got, gone, reading, deadline, hss>>

TraceFlush ==
  /\ kind = "trace" /\ ~walk.on /\ buffer # <<>>
  /\ buffer' = <<>> /\ got' = <<>>
  /\ walk' = [walk EXCEPT !.total = 0]
  /\ UNCHANGED <<kind, sent, line, arrived, gone, reading, deadline, hss>>

\* read_all(): as many as there are now, however many more come.
WalkStart ==
  /\ kind = "trace" /\ ~walk.on
  /\ walk' = [total |-> Len(buffer), shifted |-> FALSE, short |-> FALSE,
              on |-> TRUE]
  /\ got' = <<>> /\ reading' = Resting
  /\ UNCHANGED <<kind, sent, line, arrived, buffer, gone, deadline, hss>>

\* Mutant: the walk advances by what it asked for.
WalkAdvanceAsked(asked, batch) == asked

WalkAdvance(asked, batch) == batch

\* One read(offset, chunk) of the walk; reading.n is the offset. The DLL may
\* return fewer than it is asked for; none at all ends the walk.
WalkRead ==
  /\ walk.on /\ reading.n < walk.total
  /\ LET asked == Min({Chunk, walk.total - reading.n, Len(buffer) - reading.n})
     IN  \E n \in 0..asked :
           /\ got' = got \o SubSeq(buffer, reading.n + 1, reading.n + n)
           /\ reading' = IF n = 0 THEN Resting
                         ELSE [reading EXCEPT !.n = @ + WalkAdvance(asked, n)]
           /\ walk' = [walk EXCEPT !.on = n > 0, !.short = n = 0]
  /\ UNCHANGED <<kind, sent, line, arrived, buffer, gone, deadline, hss>>

\* A TRACE_Read that fails: the caller gets nothing of what was read before.
WalkRaises ==
  /\ walk.on /\ reading.n < walk.total
  /\ got' = <<>> /\ reading' = Resting
  /\ walk' = [walk EXCEPT !.on = FALSE, !.short = TRUE]
  /\ UNCHANGED <<kind, sent, line, arrived, buffer, gone, deadline, hss>>

WalkEnd ==
  /\ walk.on /\ reading.n >= walk.total
  /\ walk' = [walk EXCEPT !.on = FALSE]
  /\ reading' = Resting
  /\ UNCHANGED <<kind, sent, line, arrived, buffer, got, gone, deadline, hss>>

StreamsNext ==
  \/ Start \/ TargetReady \/ Stop \/ RttWait \/ RttWaitEnds
  \/ Arrive \/ SwoRead \/ SwoReadFlush \/ SwoFlush \/ SwoFlushed \/ ReadRaises
  \/ RttRead \/ PowerCount \/ PowerRead
  \/ StreamStart \/ StreamLeft \/ DeadlinePasses \/ StreamEnds
  \/ \E o \in Readers : HssStart(o) \/ HssStop(o) \/ HssRead(o)
  \/ HssSample
  \/ TraceSample \/ TraceFlush \/ WalkStart \/ WalkRead
  \/ WalkRaises \/ WalkEnd

------------------------------------------------------------------------------
Increasing(s) == \A i \in 1..Len(s) - 1 : s[i] < s[i + 1]

(* Whatever arrives between the steps of a read, each byte is returned once  *)
(* and in order, is still with the DLL, or was lost or flushed there and is  *)
(* never returned (swo.py:141, rtt.py:134, powertrace.py:83).                *)
EachByteOnce ==
  kind \in BufferKinds =>
    /\ Increasing(got \o buffer)
    /\ ToSet(got) \intersect gone = {} /\ ToSet(buffer) \intersect gone = {}
    /\ ToSet(got) \union ToSet(buffer) \union gone = 1..arrived

(* Of a plain ITM stream decode_itm gives exactly the stimulus packets that  *)
(* lie whole in what has been read of it, as long as nothing was lost,       *)
(* wherever the reads have cut the stream and whatever the packets' data     *)
(* looks like (swo.py:183-229). That the bytes of Swo.read() are such a      *)
(* stream is a premise: read()'s own comment calls them "still TPIU-framed,  *)
(* not yet ITM packets" (swo.py:142), decode_itm's says it decodes "a raw    *)
(* SWO byte stream" (183), and no code of the package takes the frames off.  *)
(* With a formatter on the line decode_itm would take its bytes for packets. *)
PacketsDecoded ==
  kind = "swo" /\ gone = {} =>
    DecodeItm([i \in 1..Len(got) |-> Bytes[got[i]]]) = Whole(sent, Len(got))

(* A read that begins with a sample gets the samples as they were taken, one *)
(* after the other, and nothing of the piece of a sample it may end in, by   *)
(* an object that has started the sampling and is the only one to read:      *)
(* whenever it reads, and after restarts with other blocks (hss.py:99-124).  *)
(* A read that ends in such a piece takes it and drops it, so the next one   *)
(* begins inside a sample and decodes bytes of two samples as one: nothing   *)
(* is claimed of it, nor of those that follow until reads have again taken   *)
(* whole samples in sum, or sampling is started again.                       *)
SamplesDecodeAsTaken ==
  kind = "hss" /\ hss.owner # None /\ hss.readBy = hss.owner /\ hss.from = 0 =>
    \A i \in 1..Len(got) :
      \E s \in 1..arrived :
        /\ got[i] = AsTaken(s, hss.ran)
        /\ i > 1 => got[i - 1] = AsTaken(s - 1, hss.ran)

(* While nothing falls out of the buffer, read_all() returns its samples     *)
(* from the first on without a hole, and all that were there when it began   *)
(* unless the DLL stops answering (tracebuf.py:191).                         *)
WalkIsPrefix ==
  kind = "trace" /\ ~walk.shifted =>
    /\ got = SubSeq(buffer, 1, Len(got))
    /\ walk.on \/ walk.short \/ Len(got) = walk.total
==============================================================================
