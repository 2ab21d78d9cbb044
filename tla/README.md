# Verification of the LZ4 compressor, HMAC and the stream utilities

This directory holds TLA+ specifications of the LZ4 compression engine of the
repository (`src/data_compression/L1/include/hw/lz4_compress.hpp` and the files
it is built from), of the HMAC network over SHA-256
(`src/security/L1/include/xf_security/`), and of the utilities that deal a stream
to several lanes and merge it again (`src/utils/L1/include/xf_utils_hw/`), TLC
configurations that check them on small instances, and proofs checked by TLAPS.
Line numbers below refer to files under `src/`; `hw/` stands for
`data_compression/L1/include/hw/`, `sec/` for `security/L1/include/xf_security/`,
`ut/` for `utils/L1/include/xf_utils_hw/`.

## 1. The system

The repository is a set of hardware libraries written in C++ for high-level
synthesis: compression, hashing and cryptography, linear algebra, and stream
utilities. The work on top of them tunes four kernels: LZ4 compression,
SHA-256 in HMAC, the Cholesky decomposition and an unscented Kalman filter.

A function under `#pragma HLS dataflow` becomes a network of concurrent
processes joined by FIFOs of fixed depth. Reading an empty FIFO or writing a
full one blocks the process, unless it asks `empty()` or `full()` first. A loop
under `#pragma HLS pipeline` starts an iteration every cycle, and a
`dependence ... false` pragma lets the accesses of neighbouring iterations pass
each other. C simulation runs the processes of a network one after the other
with unbounded FIFOs. It therefore never shows a deadlock, a race between a
poll and a write, or a stale read, and these are the errors to look for here.

### Components

| Component | State | Operations | What makes it correct | Status |
|---|---|---|---|---|
| LZ4 encoder: `lz4CompressPart1`, `lz4CompressPart2` | literal FIFO, sequence FIFO, position counters, limit flag | split records into literals and sequences; write token, lengths, literals, offset | no deadlock for the chosen depths; the output decodes to the block; the reported size is exact or says "store it"; nothing is left for the next block | modelled; safety proved |
| LZ4 match finder: `lzCompress`, `lzBestMatchFilter`, `lzBooster` | dictionary, sliding windows, ring buffer of the booster | look up, filter, extend | every record is true of the text whatever the pipeline delays; the records tile the block and end in literals | LZ4 instance modelled; safety proved |
| LZ4 engine: `hlsLz4Core` | the FIFOs between finder and encoder | one call per block | finder and encoder agree on positions; compression is lossless | modelled; safety proved |
| Memory reader: `mm2multStreamSize` | read positions, word and size FIFOs | burst reads in turn, downsizing to bytes | each engine gets exactly its block; serving the others never stops | LZ4 instance modelled; safety proved |
| Memory writer: `multStream2MM` | word buffers, word and size FIFOs, write positions | upsizing to words, burst writes on demand | outputs do not mix; no blocking inside a burst | LZ4 instance modelled; safety proved |
| Block driver: `hlsLz4`, `lz4CompressMM` | per-slot arrays that live across batches | cut, call, collect sizes | blocks tile the input; sizes are true of the output | modelled; safety proved |
| Frame packing: `lz4Base::writeCompressedBlock`, `mm2slz4Packer`, `blockPacker` | output position, byte realignment buffer | choose stored or compressed, write size field and data | the frame read back is the input | block choice modelled; host's frame proved |
| LZ4 decompressor: `lz4HeaderProcessing`, `lz4Decompress`, `lzDecompress` | parser state, history, low-offset registers | parse, copy | gives back the text; low offsets hide the write latency | result modelled, pipeline not |
| LZ4 host application | file, buffers, OpenCL queue | chunk, run, pack | every chunk is packed in order | not modelled: sequential I/O |
| HMAC: `hmacDataflow` | FIFOs between key pads, inner and outer hash | pad, merge with the message, merge with the inner digest | each MAC is of its own key and message, whatever overlaps | modelled |
| SHA-224/256 | block FIFO, schedule ring, chaining value | pad, announce blocks, schedule, digest | padding at block boundaries; the announced blocks come | padding and control modelled, rounds not |
| Stream distribution: N to 1, 1 to N | word buffers, rings, end flags | collect, deal, by load, in turn or by tag | no element lost, duplicated or passed by its end flag; it ends | modelled but for one overload; safety proved but for two properties of the scattering side |
| Other stream utilities (reorder, sync, dup, ...) | order table | copy, reorder | same elements out | not modelled: sequential adapters |
| Memory utilities, read cache | burst buffers, cached line | burst access | cached data is that of memory | not modelled |
| Snappy, Zlib/Gzip, Zstandard | entropy tables, FIFOs | encode, decode | lossless | not modelled: not changed here, dominated by table construction |
| Other security primitives | wide words | arithmetic | algebraic identities | not modelled: arithmetic, little control |
| Solver: Cholesky, UKF, QR, SVD | matrices | numerical loops | accuracy | not modelled: numerical |
| Vendored code, generated projects, test benches | | | | not modelled |

### How the LZ4 components interact

    lz4CompressMM --batches of NUM_BLOCK blocks--> hlsLz4
      memory -> mm2multStreamSimple =(words, sizes)=> downsizer b -> inStream[b]
        inStream[b] -> lzCompress -> lzBestMatchFilter -> lzBooster -> boosterStream
        boosterStream -> Part1 =(literals, sequences)=> Part2 -> outStream[b], outStreamEos[b], size[b]
      outStream[b], outStreamEos[b] -> upsizer b =(words, sizes)=> multStream2mmSize -> memory
    sizes, memory -> host or packer kernel -> frame -> decompressor

    key -> kpad -> mergeKipad -> SHA-256 (msg) -> mergeKopad -> SHA-256 (res) -> MAC
    stream -> 1 to N -> units -> N to 1 -> stream

All processes of one `hlsLz4` call run concurrently; a call returns when all of
them have. Between calls only FIFOs, memory and the driver's arrays persist.

### What is hard

`PROJECT.json` lists the hazards one by one, with their line. In short:

* **Cyclic waiting.** Part1 pushes a run of literals first and announces it
  afterwards; Part2 reads in the opposite order. Only `MAX_LIT_COUNT`, used both
  as limit and as FIFO depth, keeps them from waiting for each other.
* **One server, many clients.** One reader and one writer serve all engines by
  polling and then block inside a burst.
* **Agreement by counting.** Processes end on their own count of bytes, in
  different units: records, literals, words, bytes. An off-by-one leaves
  something for the next block or waits for ever.
* **Declared independence.** The dictionary is read while older writes may still be
  on their way, and the booster's memory when the store of a later iteration may
  already have landed.
* **State across batches.** The driver's arrays keep the values of earlier
  batches, and one of them is read without ever having been assigned.
* **Two FIFOs for one thing.** Elements and their end flags travel apart; a merge
  that polls tests them at different moments.
* **Overlapping calls.** The HMAC network holds blocks of several messages at
  once, and the digest counts blocks, not messages.
* **Edges.** Lengths at the limits of a nibble and of a byte, literal runs at the
  limit, blocks that do not shrink, words and bursts not filled, sizes of zero.

## 2. Modules

### Format and promises

`Lz4Format` holds what the other modules share: records (a literal, or a match
with length and offset) and two decoders. `Text` expands records like
`lzDecompress` (`hw/lz_decompress.hpp:49-106`); `Decoded` reads bytes like the
state machine of `lz4Decompress` (`hw/lz4_decompress.hpp:202-264`). The decoder
comes from other code than the encoder, so that an error of the encoder does not
cancel out. Bytes and nibbles have the constant ranges `0..ByteMax` and
`0..NibbleMax`, which in the code are 255 and 15.

`LzParse` and `Lz4Service` are the abstract specifications.
`LzParse`: the records come one by one, each encodable and true of the text, and
the last `LeftBytes` bytes are literals. `Lz4Service`: the blocks of a session
are answered in order, each with its own size (meaning "store it") or with a
shorter string that decodes to the block.

### Lz4Compress: the encoder

| TLA+ | Code |
|---|---|
| `recQ`, `litQ`, `lenQ`, `outQ`, `eosQ`, `sizeQ` | `boosterStream`, `lit_outStream`, `lenOffset_Stream`, `outStream`, `outStreamEos`, `compressdSizeStream` |
| `p1.i`, `litCount`, `flag`, `next`, `tmp` | Part1's `i`, `lit_count`, `lit_count_flag`, `nextEncodedValue`, `tmpEncodedValue` |
| `p2.inIdx`, `st`, `litLen`, `matchLen`, `writeLit`, `off`, `ending`, `extra`, `fresh`, `csize`, `out` | Part2's `inIdx`, `next_state`, `lit_length`, `match_length`, `write_lit_length`, `match_offset`, `lit_ending`, `extra_match_len`, `readOffsetFlag`, `compressedSize`, `outValue` |
| `limit` | `max_lit_limit[index]` |
| `P1First` ... `P1Finish` | `hw/lz4_compress.hpp:45-102`, one action per path through an iteration |
| `WriteToken` ... `WriteMatchLen` | the states of `hw/lz4_compress.hpp:125-219` |
| `OutByte`, `OutEos`, `OutSize`, `OutPad`, `OutEnd` | `hw/lz4_compress.hpp:220-231`, one action per FIFO access |
| `Sink...` | the consumer, as `stream2mmUpsizer` and `multStream2mmSize` read it |
| `Call`, `Return` | `lz4CompressMM` around an engine |

`pushed`, `upto` in `p1`, `p2` and in a sequence are history variables that
number the literals; no guard reads them. In this module the records of a block
are put into `recQ` at once, that is, the finder is arbitrarily fast; `Lz4Core`
lifts this. `Lz4Records` holds the record FIFO and the type of a record, which the
encoder and the finder share.

### LzMatchFinder: lzCompress, lzBestMatchFilter, lzBooster

One action is one iteration of a pipelined loop. `dict` is the dictionary as the
lookups see it and `late` the writes that have not landed: a lookup sees any
prefix of the writes that leaves at most `MaxLag` out, the choice that the pragma
of `hw/lz_compress.hpp:90` leaves to the scheduler. Writes land in order, each
with the bucket contents its own iteration computed, so that an update can also be
lost. A dictionary entry that has never been written is left out, because its
position of -1 can never be before the current one. The booster's memory starts
with an arbitrary byte everywhere.

`hw/lz_optional.hpp:581` also declares the accesses of different iterations to the
booster's own memory independent. An iteration stores its byte at the start (592) and
prefetches at the end (619), from an address that depends on its comparison, so two
orders have to be told apart. Stores land in order, and the iteration's own store and
all older ones precede its prefetch: a schedule has no reason to start a prefetch,
which waits for the comparison, before a store that needs nothing but the byte read.
The store of a *later* iteration, however, may land before the prefetch. `Overtaking`
is the set of bytes that up to `BoostLag` such stores can have left in the place the
prefetch looks at, and `Prefetched` takes either the byte in its turn or one of these.
Only a match of the window's length less at most `BoostLag` meets them, so
`PrefetchFresh` promises the right byte at every distance that leaves room,
`off + BoostLag < BoostWindow`, and says nothing about the rest of the window. There the
code is not safe unless the tool schedules the accesses in order: with `BoostLag = 1`
TLC finds a record at distance `BoostWindow - 1` that is false of the text. The history
variable `overtaken` records that an open match has been compared with such a byte;
`ImplementsParse` and `AllParsed` speak of the records until then.
Which schedule a build has is not in the source. `MIN_OFFSET >= 1`, an assumption of
the module, keeps the prefetch from depending on the store of its own iteration.

### Lz4Core: the engine

`Lz4Core` extends `Lz4Compress` and `LzMatchFinder`, whose definitions of the same
kind have the prefix `Finder`; `recQ` is one variable of both. It has its own call,
which starts all processes on the bytes of a block, and every other step is one of
the two halves. A session gives each block as plain bytes, so the property is
end to end: bytes in, an answer that decodes to these bytes or says "store". It is
stated under the assumption `BoosterInOrder`: no boosted match is so far away that a
later store can overtake its prefetch. With the code's values, a window of 16 K and
offsets up to the block length, this means a schedule with `BoostLag = 0`.

### Lz4Reader and Lz4Writer

`Lz4Reader` is `mm2multStreamSimple` (`hw/mm2s.hpp:183-225`) and one
`mm2multStreamDownSizer` per engine (`hw/mm2s.hpp:243-261`). A byte is its
address, so loss, duplication and mixing are visible. `Lz4Writer` is
`stream2mmUpsizer` per engine and `multStream2mmSize` (`hw/s2mm.hpp:166-260`); its
producer is the output side of Part2 (`hw/lz4_compress.hpp:220-231`). A word
keeps the bytes of the word before, as the code's buffer does, so the rest of the
last word is junk of the right kind. Both poll: a visit of a block that cannot be
served is a step of its own.

### Lz4Blocks and Lz4Frame

`Lz4Blocks` is the driver `lz4CompressMM` (`hw/lz4_compress.hpp:376-444`), with
unsigned arithmetic modulo `WordMod`. Unassigned elements are `Junk`. The engines
are abstract and answer anything `Lz4Service` allows, plus the limit flag; what
they wrote is remembered per place of the output memory. `Lz4Frame` packs the
blocks, by the host (`lz4Base.hpp:104-153`) or by the packer kernel
(`hw/lz4_packer.hpp:77-120`), and reads the size fields like
`lz4HeaderProcessing` (`hw/lz4_decompress.hpp:124-148`). The top function of the
kernel the host runs is not in the repository; `lz4CompressMM` stands for it.

Input sizes are `1 .. WordMod - BlockLength`. Outside this range the code does
what nobody wants: size 0 is taken for 65536 empty blocks (line 379) and a size
within one block of 2^32 wraps in line 406. The host passes neither
(`lz4OCLHost.cpp:188-225`).

`WordBursts` holds what reader and writer share: how many words a number of bytes
takes and how many words a FIFO of sizes announces.

### StreamScatter, StreamGather, StreamPool: the stream utilities

`StreamScatter` is `streamOneToN` under load balancing with width conversion
(`ut/stream_one_to_n/load_balance.hpp`). The process that deals sees how full its
lanes were two iterations earlier; what it dealt to a lane that has filled since
waits in a ring whose index wraps without a test. At the end the rings, the
double buffer, the register and the last chunk are drained by loops of their own.
The two processes in front of it wait for nothing but each other, so what they
hand on is a function of the input: the operators `Read` and `Reduce`.

`StreamGather` is `streamNToOne` under load balancing
(`ut/stream_n_to_one/load_balance.hpp:133-360`): it polls its lanes, an element
and its end flag at two moments, and packs what it gets; `Collect` and
`Distribute` are the deterministic processes behind it.

`StreamPool` composes both directions for element types, with units of arbitrary
speed in between, under the three selectors, as
`utils/L1/examples/load_balance_processing/code.cpp` does.

### Hmac and Sha256Padding

`Sha256Padding` is `preProcessing` of `sec/sha224_256.hpp:72-500` in both word
widths as a function from a message to blocks of bytes, and next to it the
standard's padding in its own words. `Hmac` is the network of `sec/hmac.hpp`: key
pads, the two merges, and three SHA-256 units (for a long key, the message and the
result), each with its own FIFOs and its own count of announced blocks. A process
takes what one step needs from all its inputs at once. The processes are
deterministic and only block, so neither the results nor whether the network stops
depends on how the steps are cut or interleaved; TLC explores the interleavings
that are left. A digest is opaque: its bytes are named by the unit and its number,
and the history variable `hashed` remembers the blocks it was made of. `dup_strm`,
the schedule and the rounds are abstracted with it.

### Which module composes which

    Lz4Format <- LzParse, Lz4Service            (abstract)
    Lz4Format <- Lz4Records                     (the FIFO between the halves)
    Lz4Records <- LzMatchFinder -- implements --> LzParse
    Lz4Records <- Lz4Compress   -- implements --> Lz4Service
    Lz4Compress + LzMatchFinder <- Lz4Core -- implements --> Lz4Service
    WordBursts <- Lz4Reader, Lz4Writer          (around the engines)
    Lz4Blocks (engines as in Lz4Service) <- Lz4Frame
    StreamScatter, StreamGather, StreamPool
    Sha256Padding <- Hmac

The `MC...` modules define the instances for TLC, the `...Proofs` modules hold
theorems about the module they are named for; `Lz4MemoryProofs` those about the reader
and the writer, `Lz4CoreProofs` those about the match finder too.

## 3. What TLC checks

Each run's properties are defined at the end of its module, with a comment that
says what they mean for the code.

| Run | Instance | Shows |
|---|---|---|
| `encoder` | every parse of 0 to 11 bytes in one call, and two calls with all pairs of five kinds of block | no deadlock and no cross wait; exact sizes; `Lz4Compress` implements `Lz4Service`; every call returns; the first call leaves nothing behind |
| `finder` | every block of 4 to 9 bytes over two byte values, up to renaming them, and the empty one; lookups that miss up to one write, prefetches that up to one store overtakes | records from the filter stay true and aligned; the prefetched byte is right at all distances but the last of the window; until one that came too early is compared, `LzMatchFinder` implements `LzParse` and covers the block; it ends |
| `core` | two calls, blocks that compress, overflow the literal limit, do not shrink, or are empty; the booster's memory accessed in program order | the engine implements `Lz4Service` from bytes to answer; finder and encoder stay aligned; nothing is left in a FIFO |
| `reader` | two engines, all pairs of the sizes 0, 1, 4, 7 and 15 bytes, words of 2 bytes, bursts of 2 words | each engine gets exactly its block, in order; words and sizes agree; the reader finishes |
| `writer` | two engines, all pairs of the output sizes 0, 1, 4 and 9 bytes | outputs end in their places; no wait inside a burst; no word written twice |
| `frame_host` | inputs of 1 to 17 bytes, blocks of 4, batches of 2, every answer of the engines | blocks tile the input, reported sizes are true, the frame gives the input back |
| `frame_kernel` | inputs of 1 to 7 bytes | the first disagreement of section 5 |
| `scatter` | two lanes of depth 1, words of 3 units to elements of 2, rings of 3, calls of 0, 1, 3, 6 and 8 words | each element comes out once, none is left anywhere, no ring fills, it ends |
| `gather` | two lanes of depth 2, elements of 1 unit to words of 2, 0 to 3 elements each | no flag before its element, all elements in the order of their lane, it ends |
| `gather_words` | three lanes, words as wide as an element | the second disagreement of section 5 |
| `pool` | two units, FIFOs of depth 2; up to five elements by load and in turn, every tagging of up to three, and taggings of up to twelve with runs of one lane | each element once, in the order of the input where the selector promises it, no flag ahead; by load and in turn it ends, by tags exactly when the runs fit |
| `hmac` | words of 4 and 8 bytes, one message of every length to a block and a byte, pairs at the edge of the padding with a hashed key, three overlapping empty messages | every MAC is of its own key and message, padded as the standard says; pads stay in step; nothing is left; no deadlock |

### Bounds and why they are enough

* **Field widths.** `NibbleMax = ByteMax = 3` instead of 15 and 255. The encoder
  compares lengths with these two numbers and subtracts them, nothing else. The
  instances contain lengths below, at and above the nibble, with zero, one and
  two extension bytes, the last of them zero or full.
* **Literal limit.** `MaxLit = 6`; blocks of up to 11 bytes have runs one below,
  at and one above it, in the middle and at the end, before and after matches.
  The sequence FIFO and the byte FIFO have depth 2 and the flag and size FIFOs
  depth 1, below the code's 32, 32, 2 and 2, so that all of them fill up.
* **Offsets.** Two-byte offsets carry at `ByteBase = 4`, and distances reach from
  the smallest allowed to the whole block, which crosses the carry.
* **Finder.** Windows of 3 bytes, two per bucket, a booster memory of 4 bytes,
  boosted matches of at most 4 and blocks of up to 9: windows share buckets, fall out of them, and matches lie inside
  and outside the booster's memory and reach the maximal length. With `BoostLag = 1` the
  distances 1 and 2 leave room for an overtaking store, 3 does not, and 4 and more are
  not boosted. The offset limit never
  bites, as in the code, where it is the block length. FIFOs have depth 1, the tightest case.
* **Reader and writer.** Blocks go from nothing over a broken word to a few full
  bursts; the word FIFO holds two bursts as in the code.
* **Driver.** 17 bytes in blocks of 4 are five blocks in three batches of two: full
  and partial batches, last blocks full, broken, and too small to compress. All
  slots see all kinds one after the other.

* **Scatter and gather.** The widths 3 and 2 have a common multiple that is neither,
  so that a chunk straddles words; lanes of depth 1 fill all the time. The totals
  end with an empty, a partial and a full chunk, below and above what the double
  buffer takes. Rings of 3 are the least that suffice (`StreamScatterProofs`); the
  code has 8. With deeper lanes fewer elements wait, never more.
* **Pool.** Two lanes of depth 2 hold four elements on each side, so five reach
  back-pressure through a unit. The tags run out at the end on one side or on
  both. A lane, its unit and the FIFO behind it take `LaneRoom = 2 * Depth + 1 = 5`
  entries; the runs of one lane have 4 to 6 elements (`MaxRun = 6`) and one of any lane
  behind them, and in a second family two lanes take turns, so that the pool
  stops in some of them and ends in others. With `LaneRoom` one more or one less
  `Ends` is violated.
* **HMAC.** A block has 16 bytes and a digest 8, but the length field its 8 bytes: the padding
  changes at lengths 7 and 8 modulo 16 as in the code at 55 and 56 modulo 64. FIFOs
  of depth 1, words of depth 2: the tightest. Three messages overlap
  in the network. Keys are shorter than, as long as and longer than a block;
  a short key is a whole number of words, as in every instance of the repository.

Everything the instances bound is finite by the code itself: no state constraint
is used. Deadlock is checked in every run but `pool`; a run that may stop has an explicit
`Rest` step in its end state only. The pool by tags really stops on some taggings, and
`Ends` says on which: all others, and all calls without tags, reach their end.

### Fairness

Every dataflow process is a piece of hardware that makes its next step as soon as
its FIFOs let it: weak fairness of each process (in `Lz4Core`, of the engine as
a whole, which is weaker). The polling reader and writer are processes too: the
`for` loop visits all engines in turn, so fairness of the process is enough and
nothing is assumed about one engine's visit. The consumer of the encoder is the
upsizer and the writer, which are always willing (`Lz4Writer` shows it).
`AllAnswered`, `AllParsed`, `AllDelivered`, `AllWritten` and the three `Ends` are
the liveness properties (`Ends` of the pool also says when the merge does *not* end,
which needs no fairness). In the stream utilities the dealing and the merging
process, the units and the readers of the lanes are processes in the same sense:
none of them ever rests while it can go on, and nothing is assumed about which
lane is served. `Hmac` states no liveness: each of its processes consumes a
bounded input, so absence of deadlock in every interleaving is termination. `Lz4Frame` has no concurrency and needs none.

Every property has a mutant, a plausible bug such as a dropped condition or an
off-by-one in a definition that models code, for which the same run reports the
property violated. They are the operators with a second name, next to the original.

## 4. What is proved

`Lz4CompressProofs` proves, with TLAPS and for all sessions, field widths, limits
and FIFO depths that satisfy the assumptions of `Lz4Format` and `Lz4Compress`:

| Theorem | Statement |
|---|---|
| `TypeCorrect` | `Spec => []TypeOK`: lengths that Part2 counts down stay natural, the literal FIFO never holds more than `MaxLit`, the sequence FIFO never more than `LenDepth` |
| `AccountingInvariant` | `Spec => []Accounting` |
| `LiteralsPresent` | `Spec => []AnnouncedLiteralsPresent`: Part2 never waits for a literal of a sequence it has read |
| `NeverCrossWait` | `Spec => []NoCrossWait`: Part1 is never stuck at a full FIFO while Part2 is stuck at an empty one |

The last one is the important one. `NoCrossWait` relates two program counters and
two FIFOs and is not inductive: a step of Part2 can only be judged if one knows
how many literals the sequences in `lenQ` stand for. The argument is bookkeeping.
Literals are numbered by two history variables, `pushed` in Part1 and `upto` in
each sequence and in Part2. `Accounting` then says

* `Balance`: the literal FIFO holds the literals from the one Part2 needs next up
  to the last one pushed;
* `Chain`: the sequences in `lenQ` announce consecutive ranges of literals,
  starting where Part2's ends, none beyond what has been pushed;
* the last announcement ends where Part1's unannounced run begins;
* `Part2Control`: Part2 owes literals exactly in the states that lead to writing
  them, and is about to read a sequence exactly at a token.

If Part2 waited for a literal, `Balance` would give it one. If it waits for a
sequence, nothing is announced, so the FIFO holds exactly the run Part1 is
counting; if that FIFO were full the run would have reached `MaxLit`, and then
Part1 drops records and writes to no FIFO. The proof uses that the depth of the
literal FIFO *is* the limit (`hw/lz4_compress.hpp:68,268`); it fails for a smaller
depth. It depends on neither the records' content nor the other depths.

### The encoder's output

Five more theorems of `Lz4CompressProofs` are about what the encoder writes:

| Theorem | Statement |
|---|---|
| `EncoderInvariant` | `Spec => []EncoderInv` |
| `AlwaysDrained` | `Spec => []StreamsDrained`: a finished call leaves nothing in any FIFO |
| `EncoderImplementsService` | `Spec => ImplementsService`: every call is answered in its order with the block's own size or with a shorter string that decodes to the block |
| `SizeInvariant` | `Spec => []SizeInv` |
| `AnswerSizes` | `Spec => []SizeDetermined`: the size of an answer is a function of the block: its own size if a run of literals reaches the limit or LZ4 would not shrink it, and otherwise the sum over its sequences |

They hold for all field widths, limits, depths and blocks. Of a block the proof
assumes what `LzParse` promises (`SessionAssumption`, `IsParse`): the records spell a
text of the size of the block, a match copies what is there and is followed by
something, and none of them reads as one of the two marks of Part2's last
sequence. The marks are `(0, 0)` and `(777, 777)` after the subtraction of the
least match length; the code's finder never makes the first, because its distances
are at least `MIN_OFFSET = 1`, nor the second, because its matches have at most 255
bytes.

`EncoderInv` says of a call in progress on a block with text t, with the literals L
pushed so far (both are quantified, not variables), that

* the records Part1 has not treated are a *path* in t from Part1's position to the
  end: each leads from where its predecessor led to (`Ahead`);
* the sequences in `lenQ`, with their literals in L, are a path in t from Part2's
  position to where Part1's unannounced run begins (`Queued`);
* `litQ` is L from where Part2 stopped reading (`LiteralsIn`);
* a decoder, the state machine of `lz4Decompress`, that is fed with the bytes written
  so far is in the state of the same name as Part2. Between two sequences it has put
  out t up to Part2's position; inside one, what it knows of the sequence and what
  Part2 has still to write of it add up to the sequence (`InStep`);
* these bytes are the ones in `outQ` and with the consumer, one end flag for each
  (`Pipe`).

`InStep` is only claimed as long as the output is shorter than the input and no
literal was dropped; otherwise the answer is "store it" and the bytes do not matter.
The heart of the proof is one lemma per state of Part2: the byte it writes takes
the decoder from in step to in step, through the nibbles of the token, the
extension bytes with their full-byte marks, the literals, the two bytes of the
distance, and the copy of the match.

`SizeInv` says what the sizes need on top of it. The steps of the parse are named by
their places, so that Part1 stands at one record m of the block (`InPlace`), and
there, for a run of literals that has not reached the limit:

* Part1's count is the number of literals since the last match before m (`Counts`);
  once the run was too long the block has such a run, and without one the flag that
  Part1 leaves behind is false;
* the sequences announced up to m have `BytesUpto(m)` bytes, those still in `lenQ` being
  a path of byte counts from where Part2 stands (`Adding`);
* of the bytes up to where Part2 stands it has written all but those it still owes for
  the sequence it is in, cut at the size of the block (`Written`, `Owed`).

At the end of the block `BytesUpto` and the last run of literals are `EncodedSize`. That
the two agree needs the library's sum over a set not to depend on the order it
takes: `SumOver` is shown to satisfy its own recursion for any element taken out, by
well-foundedness on the number of elements. `Written` is what a test hardly reaches:
the lengths that Part2 counts down by 255, an extension byte of zero included, add
up to the quotient in the formula of the format.

### Match finder

`Lz4CoreProofs` proves, in its first part, about the match finder alone, for every
block, hash function, window, bucket size, dictionary delay, booster memory, number of
stores that may overtake a prefetch, and FIFO depth:

| Theorem | Statement |
|---|---|
| `FinderInvAlways` | `FinderSpec => []FinderInv` |
| `RecordsTrueAlways` | `FinderSpec => []RecordsTrue`: every record on its way is a literal of the text or a match that copies it |
| `PrefetchFreshAlways` | `FinderSpec => []PrefetchFresh`: the byte of its memory that the booster has fetched for an open match is the one at the match's source, at every distance that leaves room for the stores that may overtake the fetch |
| `FinderImplementsParse` | `FinderSpec => ImplementsParse`: until an open match is compared with a byte that came too early, what reaches the encoder is a parse of a prefix of the text that can be completed |

`FinderInv` fixes for each of the three processes a position, the bytes or records it
has read, and says that its window ends there, that the FIFO behind it continues
there, and that every record is true at the position where it will be read. For the
dictionary it says only that each entry, written or late, is a window of the text
(`TrueEntry`): this survives any order and any loss of updates, so no delay can make
a record false. The booster's part is the difficult one. `Remembers` says which
bytes of its memory are those of the text. `Sourced` follows the address of the prefetch:
while a match is extended, the slot is the one of its source, and what has been fetched
is the byte there or one an overtaking store has left. It holds whatever has happened
before, and with room in the window no store of the next `BoostLag` positions has that
slot (`NoneOvertakes`), which gives `PrefetchFresh`. As long as nothing
has been `overtaken`, every byte compared equal makes the match one longer (`Extending`),
and after the match the booster skips the records the match has swallowed (`Passing`).

### The engine

The second part of `Lz4CoreProofs` puts the two together, for every block, dictionary,
window, limit and depth:

| Theorem | Statement |
|---|---|
| `CoreInvariant` | `CoreSpec => [](TypeOK /\ Accounting /\ CoreInv)` |
| `AlwaysAligned` | `CoreSpec => []Aligned`: the record Part1 takes is true at the position Part1 has counted to |
| `CoreAlwaysDrained` | `CoreSpec => []CoreDrained`: a finished call leaves no FIFO filled, and the records sent cover the block |
| `CoreAnswers` | `CoreSpec => CoreImplementsService`: bytes in, the size of the block or fewer bytes that decode to it out |

The encoder's invariant is written once, as `Working(t, L, E, S, end)`, for any set S of
steps that the records ahead of Part1 may take through the text t and any position
`end` that they lead to. `EncoderInv` uses it with all steps of a parse and the end of
the block. `CoreInv` contains that the booster has never
been overtaken, which `BoosterInOrder` gives (`BoosterKeepsOrder`), and uses `Working` with
`TrueSteps(text)`, the records that fit the text by the
finder's standard, and with `SizeOf(bst.sent)`, the position up to which the booster has
sent records. A step of the encoder keeps it for every S and `end` (`StepWorking`), so
the lemmas of the encoder are used as they are. A step of the finder that sends a record
moves `end` on by this record (`SupplyMore`), because the booster sends the record for
the position it has reached (`BoosterSends`). That every record the finder may send is
one the encoder can write is `TrueStepsAllowed`: distances of two bytes, no match that
reads as a mark (`CoreAssumption`: 64 KB and 255 - 4 < 777 in the code), and every
match before the last bytes of the block. Where Part1 stops reading, its position is the
length of the text, and since each record is a step within the text nothing can be left
in the FIFO (`NoMoreRecords`); this is the agreement of two counts in different units
that `CoreDrained` is about. A session consists of blocks given as plain bytes, empty
or at least as long as a block may be that the driver hands to an engine
(`PlainSessions`).

### Reader and writer

`Lz4MemoryProofs` proves for every number of engines, width of a word, length of a
burst and depth of a FIFO:

| Theorem | Statement |
|---|---|
| `ReaderWordsAndSizesAgree` | `RdSpec => []WordsMatchSizes`: the words in the FIFO to a downsizer are those the sizes announce, those left of the size read last, and those of the burst not announced yet, so a downsizer never waits for a word |
| `BlocksInOrder` | `RdSpec => []InOrder`: each engine gets the bytes of its own block, in order, none skipped and none twice |
| `WriterWordsAndSizesAgree` | `WrSpec => []WordsMatchBursts`: the same agreement between upsizer and writer |
| `WriterNeverWaits` | `WrSpec => []ReadingNeverBlocks`: inside a burst the writer always finds the next word |
| `WriterNeverOverwrites` | `WrSpec => WritesOnceInRegion`: no word is written twice, and each within the span of its block |

What the sizes in a FIFO announce is a recursive sum over a sequence. The
invariants therefore do not use the sum but say that partial sums *exist*
(`Announces`): a function on the positions that ends in 0 and grows
by the words of each size. Adding and removing a size then shifts or extends a
witness (`AnnounceMore`, `AnnounceLess`). That these witnesses are the recursive
function of the property (`AnnouncedIsSum`) is induction over a sequence, done with
the least position at which two such functions differ (`Smallest`, from
well-foundedness of the naturals). The reader's part rests on arithmetic about
rounding up: a burst of as many words as are due has as many words as the bytes it
is announced with (`BurstWords`), and a byte more makes a word more exactly where a
word begins (`ByteMore`).

`BlocksInOrder` assumes blocks that start at a word (`ReaderAssumption`), which the
driver guarantees: it places them `max_block_size` apart. The invariant numbers
the words: the FIFO to a downsizer holds consecutive words of the block that end
where the reader stands, and the byte a downsizer gives next follows the last one in
the FIFO behind it. `WriterNeverOverwrites` assumes that the spans of the blocks are
disjoint (`WriterAssumption`), for the same reason; a block the batch does not
have has size 0, hence an empty span. The invariant says that the words of a burst go
to where the words written before them end, and that the padding byte, which is not
counted in a size, never completes a word of its own.

### Driver and frame

`Lz4FrameProofs` proves for every input size the driver accepts, every number of
engines, block length and least block:

| Theorem | Statement |
|---|---|
| `BlocksTile` | `HostSpec => []SlicesTile` |
| `ReportsAlwaysTrue` | `HostSpec => []ReportsTrue` |
| `FrameAlwaysGivesBack` | `HostSpec => []FrameGivesBack`: the frame the host packs, read by `lz4HeaderProcessing`, gives back the blocks of the input, whatever the engines answered |
| `WritesApart` | `HostSpec => WritesOwnPlace`: nothing is ever written where another block has been |

`DriverInv` adds to the properties what the counters mean at each point of the
loops (`Counters`: the bytes read are the place of the next block, as long as there
is one), what a prepared slot holds (`Ready`), and what an answered slot means
(`Answered`: stored, or the encoding of this very block stands at its place). The
arithmetic is in `BlocksOfInput`, `Places` and `NextBlock`: blocks start inside the
input, their places are a block apart, so that two slots never write to the same
place, and the sum of line 406 does not wrap under `DriverAssumption`. `WritesApart`
needs one more conjunct (`Fresh`): at a place whose batch has not been called nothing
stands yet, although the slots still hold the indexes of the batch before.

### Stream utilities

| Theorem | Statement |
|---|---|
| `StreamPoolProofs!TypeCorrect` | `Spec => []TypeOK`: no side of the pool names a lane that does not exist |
| `StreamPoolProofs!NoElementBehindEnd` | `Spec => []NothingBehindEnd` under all three selectors |
| `StreamPoolProofs!PlacesAlways` | `Spec => []Places`, the inductive invariant of the next two |
| `StreamPoolProofs!MergedInInputOrder` | `Spec => []InputOrder`: going round or by tags the merge gives back the order of the input |
| `StreamPoolProofs!EverythingMerged` | `Spec => []AllMerged`: a merge that ends has merged every element once |
| `StreamGatherProofs!EndsBehindElements` | `Spec => []FlagNotAhead` |
| `StreamGatherProofs!GatheredInOrder` | `Spec => []KeptInOrder`: elements of a lane come out in their order, without gap or repetition |
| `StreamGatherProofs!GatheredAll` | `Spec => []ReadAll`: at the end no element is left in a lane |
| `StreamScatterProofs!RingsNeverFill` | `Spec => []RingFits` for rings of three places or more |
| `StreamScatterProofs!DealtAlways` | `Spec => []DealInv`, the inductive invariant of the next two |
| `StreamScatterProofs!NoneTwice` | `Spec => []EachOnce`: what comes out is elements of the input, none twice |
| `StreamScatterProofs!AllOut` | `Spec => []NothingLost`: when the lanes are ended, every element has come out |

All are for every number of lanes, depth and input.

*Flags.* `NoElementBehindEnd`, `EndsBehindElements` and `TypeCorrect` count per lane: a
unit writes each flag after its element, and one TRUE flag after all of them; the reader
has read at most one flag more than it has taken elements, and none more while it stands
between the test for an element and the test for its flag; so the only TRUE flag is the
one after those of all elements.

*The pool.* Of a lane the invariant looks at everything between the side that deals and
the side that merges, the FIFO, the element in the unit and the FIFO behind it, as one
sequence (`Trail`): it is in the order of the input, with the end behind it. An element
that has been dealt and not merged is in exactly one place of one trail (`Covered`). Which
lane that is follows from the selector: by turns the number of the element decides
(`Turns`), by tag its tag. So the element the merge looks for next is the
first of the trail it looks at. When the merge ends nothing is left, and since no element
was merged twice, counting gives that all were merged.

*Gathering.* What the merge has written and what it still buffers, flattened, contains
for each lane its first elements in their order, as many as have been taken from it
(`KeptUpTo`). A pass takes at most one element per lane (`OneOfEach`), and a word that
leaves and the rest that stays join to what was there. The library defines flattening by a
fold; the proofs use that the flattened sequence exists, is unique and grows at
the end, from the smallest counterexample.

*Rings.* A lane seen full takes nothing: at most two elements are dealt to it between the
moment it fills and the moment it is seen full, and any other lane has at most one waiting.

*Scattering.* `EachOnce` and `NothingLost` speak of what the lanes gave out; what has not
come out yet may be in a ring, in `buf_arr`, in the register `buff_r` or in a word not read.
`DealInv` says where: for some `D` the first `D` elements of the input are each in one ring
or at one lane and in no second place (`Spread`), and the phase says where the rest begins.
In the loop (`Looping`) the first `L` groups have been put into the two halves of
`buf_arr`, one more is in `buff_r` while `new_r`, and element `x` of those not dealt is at
place `(x - 1) % (2 * NStrm)` (`Holds`). The code keeps no such `D` or `L`, only counters
`ld`, `ld2`, `rn` of what it has loaded and dealt, so the heart of the proof is about those:
`Counts` shows that no half is refilled while it holds an undealt element, that no group is
fetched while one waits, and that one is always fetched when too little is left for a round
in which every lane takes an element. The three clean-up phases (`Arrayed`, `Registered`,
`Lasting`) deal out the rest of the buffer, the register and the last, partial word;
each starts where the one before ended. That regrouping the words by the common multiple of
the widths neither drops nor moves an element is a lemma of its own (`ChunksAre`), with the
same fact about flattening as for gathering.

### HMAC

`HmacProofs` proves for any number of messages of any lengths, keys longer than a block
or shorter ones of whole words, words of four or eight bytes, any block and digest size
and FIFOs of any depth (`BlockAssumption`, `HmacAssumption`):

| Theorem | Statement |
|---|---|
| `NetworkInvariant` | `Spec => []IInv` |
| `MacsAreRight` | `Spec => []MacsRight`: the m-th MAC is the hash of the outer pad of key m and of the hash of its inner pad and message m, each padded as the standard says |
| `OuterPadsInStep` | `Spec => []PadsInStep`: the outer pads that wait are those of the messages whose inner digests come next |
| `NothingIsLeft` | `Spec => []NothingLeft`: with the end flag every message has its MAC, and no FIFO holds anything |
| `BlockRight` | the blocks `preProcessing` makes of the words of a message are those of the standard's padding |
| `LongKeyRight`, `ShortKeyRight` | `k1`, from the hash of a long key or from the words of a short one, is the padded key |

The three properties relate FIFOs that are far apart in a network of ten processes, the caller
among them, and twenty-eight FIFOs, and none is near inductive. The invariant uses that the network is
deterministic in the sense of Kahn. A FIFO has one process that writes it and one that
reads it, and no process asks whether a FIFO is empty; so what goes through each FIFO in a
whole call, its *stream*, can be written down from the call alone (`Streams`). A state is
then known by how many elements of each stream have been written, `w`, and read, `r`:

* each FIFO holds the elements of its stream from `r + 1` to `w` (`Flow`), and the
  caller's have been written in whole (`Given`);
* each process stands where the numbers of its own FIFOs say, and what it keeps is what it
  has read: the words of the block `preProcessing` is collecting (`PreAt`), the blocks of
  the digest in progress (`DigAt`), the rest of the pad and the words of text still to
  pass in `mergeKipad` (`MkAt`), of the inner digest in `mergeKopad` (`MoAt`), the flags
  of `kpad` (`KpAt`) and the MACs the caller has taken (`OutAt`).

`IInv` says that such `r` and `w` exist. What the depths are does not matter: they only
decide when a process waits.

The proof has three parts. *Data*: what the units are given is what the streams say.
`BlockRight` takes each case of the code, a whole block, the last one with the bit and the
length field in it, the one with the bit alone and the one with the length alone, and finds
the same bytes in the standard's padding cut at the block; `ShortKeyRight` follows the key
through `k1` word by word, `WordsSplit` and its relatives show that a pad cut into words,
and the text behind it, are the words of the two together. From there on the processes are
reasoned about from the few facts of `NetData`, not from bytes. *Processes*: one lemma per
step, from where a process stands to where it stands then, with the FIFOs as numbers
(`PreReadAt`, `DigBlockAt`, `MkMsgAt`, ...). *Wiring*: no FIFO has two readers or two
writers (`WiringOfGets`, `WiringOfPuts`), so a step of one process leaves the numbers of
the others alone and their part of the invariant stays (`Arrive`). The properties follow:
`MacsAreRight` from what `OutAt` and `DigAt` say of results; `OuterPadsInStep` because
`mergeKopad` has read as many outer pads as inner digests; `NothingIsLeft` backwards from
the caller, who can have the end flag only if the unit in front has written it, hence read
its own, and so on up to the input (`UnitDone`, `AllRead`), while the unit for long keys,
if the key is short, was never sent anything (`KeyUnitIdle`).

### Only model-checked

Liveness and the absence of deadlock, out of the prover's reach.

`EncoderInv`, `CoreInv` and the `IInv` of `HmacProofs` quantify over infinite sets, so
TLC cannot evaluate them: it checks the properties they imply, TLAPS the invariants
themselves.

Induction over data, which the library's induction theorems do not give, is done
where it is needed by well-foundedness: the least position at which a claim fails.

## 5. Where documentation and code disagree

* `hw/lz4_specs.hpp:54-60` says that the fourth byte of an uncompressed block's
  size is always 128. The host writes it (`lz4Base.hpp:134-148`); the packer kernel
  copies the data of such a block from the input but writes its plain size
  (`hw/lz4_packer.hpp:95,105-110`), which `lz4HeaderProcessing` takes for a
  compressed block. Run `frame_kernel`.
* `stream_n_to_one_distribute_lb` (`ut/stream_n_to_one/load_balance.hpp:321-334`)
  leaves its loop in the iteration that reads the last buffer, so of that buffer
  only one output word is written, while the comment in front of it (292-293)
  announces `buf_width/_WOutStrm` words per buffer and the one at 277 says that the
  data that comes with `last` is valid. Where a buffer makes one word nothing is
  lost, and this is what `gather` and the repository's tests have; where it makes
  several, elements are. Run `gather_words`.

Two more observations that no run states as a disagreement:

* `hw/mm2s.hpp:270-271` calls writing to the streams non-blocking. The code asks only
  whether the size FIFO is full and then writes up to a burst of words with blocking
  writes (lines 195-207), so one slow engine can keep the others waiting, for a
  while: nothing is lost and it always goes on (`AllDelivered`).
* The merge by tag (`ut/stream_n_to_one/tag_select.hpp:169-172`) reads one flag of
  every lane before it looks at a tag, and later waits for the lane whose element it has
  just taken. If meanwhile another lane is dealt more than its FIFOs and its unit
  take, the dealing side waits too and the pool stops. `RunsFit` states the
  condition, and `Ends` in run `pool` that it is exact for FIFOs of two places or
  more. (With one place the dropping at the end stops as well where two elements of a
  lane are left, because it reads the next flag before the element,
  lines 183-187.) Nothing in the repository says that the pool ends on every tagging.

## 6. Not modelled

* Byte values beyond small ranges, the hash function (any function to buckets
  will do; TLC uses the first byte) and the exclusion of matches of length 3
  (`hw/lz_compress.hpp:137`), which needs `MIN_MATCH = 3`.
* Timing: a FIFO access takes one step and the speeds of the processes are
  arbitrary, which covers every schedule.
* `max_lit_limit` is one element per engine; the whole array is in `Lz4Blocks`.
* The host's second condition for storing a block, `perc_cal >= 10`
  (`lz4Base.hpp:124-128`): the input is never smaller than its block, so it always
  holds unless the multiplication by 10 overflows, which `PROJECT.json` lists.
* The frame header, its hash, and the byte realignment of `blockPacker`, which only
  the packer kernel uses.
* HMAC keys that are shorter than a block and no whole number of words: `kpad` shifts
  whole words into `k1` (`sec/hmac.hpp:122-124`), so their bytes would not stand where
  the pads expect them. No instance of the repository has such a key.
* The message schedule and the rounds of SHA-256, and whether a pipelined schedule
  respects the dependences that `sec/sha224_256.hpp:552-553` declares away: this is
  decided by the tool's schedule, which is not in the source. For the same reason
  the pipeline of the decompressor.
* The width converting overloads of the round robin utilities.
* Most of the repository by size is entropy coders, fixed point arithmetic, linear
  algebra, vendored libraries and generated files. They are loops over numbers, to be
  tested and not explored: what could go wrong in them is a value, which a small
  instance does not show. The components marked so in section 1, for the reasons
  given there and in `PROJECT.json`.

## 7. Plan

Done: the encoder with its abstract service; the finder; the two together; reader
and writer; driver and frame; the stream utilities; HMAC and the padding; the proofs
of section 4, which cover every invariant, action property and refinement that a
passing run checks; its liveness stays with TLC.

Left, most important first:

1. `BlockPacker`: byte realignment against concatenation, and the packer kernel as a
   second way to a frame.
2. The parser of the decompressor as a process, composed with `Lz4Frame`.
3. The width converting round robin, the read cache, and the burst adapters.
