# Formal models of the assertion codec (`src/asserts/asserts.go`)

This directory holds TLA+ models of the assertion codec: the streaming
decoder, the one-shot decoder, the header grammar and the canonical encoder.
It also holds TLC configurations that model-check them, and TLAPS proofs about
the streaming decoder.

## The system

An assertion is a header block, an optional body and a signature. On the
wire these are `content "\n\n" signature`. The content is the headers,
followed by `"\n\n" body` when the body is not empty.

The parts of `asserts.go` and how they interact:

- **Header codec.**
  - `writeHeader` (520-532) writes one entry. A value that holds `'\n'` goes
    on 1-space-indented lines after `name:`.
  - `parseHeaders` (160-215) splits on `'\n'` and checks each name against
    `headerNameSanity` (157). It joins multi-line values and lets the last
    entry of a name win.
- **Registry and validator.**
  - `typeRegistry` (45-71) maps type names to primary keys.
  - `Assemble` (470-518) and `checkRevision` (458-467) check body-length,
    authority-id, type, primary key, revision and a non-empty signature.
- **Encoders.**
  - `assembleAndSign` (534-627) builds the canonical content: type,
    authority-id, revision, the primary key, the other headers sorted,
    body-length and the body. It signs the content and appends `'\n'` to the
    signature.
  - `Encode` (630-638) concatenates the parts.
  - `Encoder.append` (652-677) puts a `'\n'` before every assertion but the
    first, and after one that does not end in `'\n'`. It does this in up to
    three `Write`s to its `io.Writer`, and sets `nextSep` only when all of
    them succeed.
- **One-shot `Decode`** (253-282) splits a whole buffer. The signature is
  after the *last* `"\n\n"`; the body is after the *first* `"\n\n"` of the
  content.
- **Streaming `Decoder`** (285-456) reads from an `io.Reader` through a
  `bufio.Reader`. It has three helpers:
  - `peek` (322-337) regrows the buffer when a peek exceeds it, and keeps
    the first read error in `d.err`.
  - `readExact` (342-352) reads a fixed number of bytes.
  - `readUntil` (354-374) doubles its peek size until it finds `"\n\n"`, hits
    an error, or exceeds its cap.

  `Decode` reads, in order:
  1. the headers, up to `"\n\n"` and capped by `maxHeadersSize`;
  2. the body, by `body-length` and capped by `maxBodySize`;
  3. the trailer;
  4. the signature.

  If there is no body, the trailer read may return the signature itself.
  After the reads, `Decode` trims one `'\n'` off a signature ending in
  `"\n\n"` and calls `Assemble`.

## Modules

| module | models | state and actions |
|---|---|---|
| `AssertsWire` | the data operators shared by all decoders and encoders | pure operators: `ParseHeaders`, `AssembleErr`, `AssembleAndSign`, `Encode`, `EncoderStream`, ... |
| `StreamDecoder` | `Decoder` and `Decoder.Decode` | see below |
| `HeaderCodec` | `writeHeader` and `parseHeaders` on characters | `Write`, `Parse` |
| `SingleShot` | `assembleAndSign`, `Encode` and one-shot `Decode` | `Sign`, `EncodeStep`, `DecodeStep` |
| `StreamEncoder` | `NewEncoder`, `Encoder.Encode` and `append` against a failing writer | `Call`, `WriteSep`, `WriteEnc`, `WriteNL` |
| `StreamSink` | what the Encoder promises: an abstract specification | `Emit`, `Fail` |
| `MCStreamDecoder`, `MCHeaderCodec`, `MCSingleShot`, `MCStreamEncoder` | the instances TLC checks | — |
| `StreamDecoderProofs` | TLAPS proofs about `StreamDecoder`: types and the buffer bound | — |
| `StreamDecoderCapsProofs` | TLAPS proof that returned assertions respect the caps | — |
| `StreamEncoderProofs` | TLAPS proof that `StreamEncoder` implements `StreamSink` | — |
| `StreamDecoderStreamProofs` | TLAPS proofs that `StreamDecoder` reads the stream in order: decoded assertions are stream segments, and EOF comes only at the end | — |
| `StreamDecoderOrderProofs` | TLAPS proofs that successive calls return disjoint segments in call order | — |

**Data abstraction.** In `AssertsWire` a byte stream is a sequence of tokens:

- `NL` is `'\n'`;
- `BodyByte` is another body byte;
- `SigByte` is a byte of the signer's output;
- `HeaderLine(n, v)` stands for the whole single-line entry `n: v`.

Lengths and caps count tokens, except in one place. `make`'s capacity
`len(headAndSep)+length` (407) is compared with 0 on bytes: `WireLen`
counts a header line as `Len(n) + 2 + Len(v)` bytes and every other token
as one byte.

`HeaderCodec` shows what this abstraction rests on. It spells entries out
character by character: `SP`, `COLON`, `DASH`, letters, and `UPPER` (a byte
the name regex refuses). Multi-line values are included.

Names the code keeps are kept. `checkInteger`, `checkNotEmpty` and
`checkPrimaryKey` are not under `src/`; `IntOK`, `IntOf`, `NotEmpty`,
`PrimaryKeyOK`, `Atoi`, `IntStrings` and `SlashValues` model them from the
spec (4.3).

**StreamDecoder.** The variables map onto the code as follows:

- `source`: the bytes an Encoder wrote, cut after `cut` bytes and ending in
  `io.EOF` or in another error.
- `src`: what the reader still holds.
- `buf`, `bcap`: `d.b`'s buffered bytes and its size.
- `derr`: `d.err`.
- `pc`: where `Decode` is.
- `last`, `size`: `readUntil`'s locals.
- `ret`, `rerr`: what `readUntil` returned.
- `headAndSep`, `content`: `Decode`'s locals.
- `start`, `results`: the history of calls.

One step is one iteration of `readUntil`'s loop (`ReadUntil`, with its
`peek`) or one `readExact` (`ReadBody`), followed by the code of `Decode` up
to its next read:

- `AfterHead` covers 381-417;
- `AfterTrailer` covers 421-439;
- `AfterSig` and `Finish` cover 429-455.

How many bytes bufio's fill loop gets from the reader is a nondeterministic
`k \in FillCounts(n)`. This covers every short-read pattern of the reader.
The first peek that exceeds `bcap` rebuilds the buffer with the size code
330 computes.

**StreamEncoder.** The variables map onto the code as follows:

- `nextSep`: `enc.nextSep`;
- `written`: the bytes the writer holds;
- `cur`: `append`'s `encoded`;
- `pc`: the `Write` that `append` is at;
- `todo`: the assertions the caller still has to encode.

`sent`, `base` and `failures` are history variables. They record the accepted
assertions, the stream when the call began, and the failed calls.

Each `Write` of `append` is one step. It succeeds, or it fails having written
a prefix of its buffer, as the `io.Writer` contract allows; `AtomicWriter`
restricts failures to writes of nothing. After an error the caller retries,
skips the assertion or stops, as `OnError` allows.

`StreamSink` is the Encoder's contract, with one atomic step per call. A call
that succeeds appends its whole *frame*: the separator if an earlier call
succeeded, the encoded assertion, and a `'\n'` if it lacks one. A call that
fails appends a prefix of its frame. The refinement mapping shows the sink
the stream as it was when the call began (`SinkOut`), and maps `started` to
`nextSep = <<NL>>`.

## Runs

### Passing runs

| run | cfg | checks | shows |
|---|---|---|---|
| `roundtrip` | `roundtrip.cfg` | `TypeOK`, `RoundTrip` | On the Encoder's bytes for 3 sequences of 2 assertions, ending in EOF or an error, and for every reader read pattern, the calls return each assertion byte for byte, then EOF or the error. The assertions have no body, a body `"\n\n"`, and a body `"\n"`. |
| `adversarial` | `adversarial.cfg` | `DecodedIsStreamSegment`, `DecodedInStreamOrder`, `CapsRespected`, `BufferBounded`, `CleanEOFAtBoundary`, `DecodeTerminates` | The inputs are six crafted frames (negative or oversized body-length, a missing separator, a garbled first line, over-long headers and signature) and every prefix of a two-assertion stream. On them, results come from the stream, and successive assertions are disjoint segments in call order, so no byte is handed out twice. Results respect the caps and the buffer stays bounded. EOF is reported only at the end, and every call returns. |
| `header_roundtrip` | `header_roundtrip.cfg` | `HeaderRoundTrip` | `parseHeaders` reads back two headers with every pair of values of up to 3 characters over a letter, `'\n'`, `' '` and `':'` (7225 blocks). |
| `encoder_refinement` | `encoder_refinement.cfg` | `SinkRefinement` | Batches of 2 or 3 assertions, with signatures that end in `'\n'` or not. The writer fails with any prefix written, up to 2 failed calls, and the caller retries, skips or stops. The Encoder implements `StreamSink`. |
| `single_shot_roundtrip` | `single_shot_roundtrip.cfg` | `SingleShotRoundTrip` | One-shot `Decode` of `Encode` of every account assertion is the assertion itself. The bodies are all bodies of up to 3 bytes over `'\n'` and another byte; the headers have a revision or none; the inputs include headers `assembleAndSign` refuses. |

### Violation runs

Each violation run is a disagreement with the spec found while modelling.

| run | property | what TLC shows |
|---|---|---|
| `negative_body_length` | `NoPanic` | `body-length: -99` after a 32-byte header block passes the cap check (401), and `make` (407) panics with the negative capacity 32 - 99. A value such as `-9`, smaller than any header block that holds it, only gives a length-mismatch error; the `adversarial` run has that frame and does not panic. |
| `errors_not_sticky` | `ErrorsSticky` | After "body length exceeds maximum" the stream sits inside the body. The next call decodes an assertion smuggled in that body. Spec 7 says subsequent calls return the same error. |
| `truncated_signature` | `NoTruncatedAssertion` | A stream cut inside a signature yields an assertion with a shortened signature (428-429 accept EOF). |
| `unaligned_caps` | `RoundTrip` (`MaxHeadersSize = 12`) | `readUntil` fails once the doubled size exceeds the cap (369-370). Headers of 9 bytes, within the cap of 12, are refused. The effective cap is `initialBufSize * 2^k`. |
| `unsanitized_header_names` | `HeaderRoundTrip` | `assembleAndSign` writes names such as `b`, `b-` and `bA`, which `parseHeaders` refuses (174). |
| `encoder_retry` | `StreamOfSent` | The writer writes nothing on failure, and still a failed `Encode` leaves part of its frame. In the trace, the trailing `'\n'` of an assertion fails after the assertion was written, and the next call adds no separator. A retry after a failed assertion `Write` repeats the separator (`"\n\n\n"`). Spec 4.8 and 8 say the stream is the accepted assertions joined by `'\n'`. |
| `leading_newline_signature` | `SingleShotRoundTrip` | A signer output starting with `'\n'` moves the last `"\n\n"` into the signature, and one-shot `Decode` fails on what was just encoded. The streaming decoder reads the same bytes correctly. |

### Mutants

Every property of a passing run has a mutant in `PROJECT.json`. The mutant
is a plausible bug in the mapped code, and the property must catch it:

- `Peek` without regrowth;
- the error reported before the buffer is drained;
- the content not truncated;
- no body cap;
- no `readUntil` cap;
- EOF whatever was read;
- size not doubled;
- `readUntil` leaving the delimiter in the buffer (`DecodedInStreamOrder`);
- values written unescaped;
- `Index` for `LastIndex`;
- `nextSep` set before the trailing `'\n'` is written.

### Bounds

Sizes are tiny but keep the code's relations:

- `InitialBufSize = 2` against caps of 4 to 16 tokens, so every `readUntil`
  doubles several times;
- `MinReadBufferSize = 4`, so bufio's minimum matters;
- `MaxCalls` of 3 or 4, enough for two assertions and the EOF call.

Header entries are single tokens, so a header block of 5 to 9 tokens
exercises the regrowth paths that 4 KiB buffers exercise on real data.

The Encoder runs bound the failed calls by `MaxFailures = 2`. That is enough
for a failure at each of the three `Write`s, followed by a retry or a skip.
Without a bound, retries would be unbounded.

## Fairness

`Spec` assumes weak fairness of `DecodeStep` only. Once `Decode` is called
it runs to its return without waiting on anything but the reader, and the
reader's data (including its end) is all present in the model. The client's
`Call` is not fair: the client may stop calling. `DecodeTerminates`
(`~>`) says every call returns.

## Proofs (TLAPS)

### Types and the buffer (`StreamDecoderProofs`)

- `TypeCorrect == Spec => []TypeOK`.
- `BufferIsBounded == Spec => []BufferBounded`: `bcap` never exceeds
  `CapBound` (the largest cap, rounded up as `peek` rounds at 330), and the
  buffered bytes fit in `bcap`.

They hold for every value of the constants that satisfies `SizesAssumption`
(all sizes positive naturals) and `SourcesAssumption` (the reader's data are
bytes and end in EOF or an error).

Both follow from `InvInductive == Spec => []IInv`. `IInv` is `TypeOK`, with
these strengthenings:

- `PhaseCapOK`: in a `readUntil`, `size` is `InitialBufSize` or at most the
  phase's cap. In the body read, body-length is in `1..MaxBodySize`.
  Without it, `peek`'s new size (`PeekCap`) could not be bounded by
  `CapBound`.
- `Len(src) + Len(buf) <= Len(StreamOf(source))`, so bytes are never
  invented and `Consumed` (the `start` of a call) is a natural number.
- `Len(headAndSep) <= Len(content)`, which types the `Truncate(headLen)` and
  body slices of `Finish`.
- `bcap >= BufSize(InitialBufSize)`, `source \in Sources` and
  `BufferBounded` itself.

`InitIInv` and `NextIInv` give the induction. `NextIInv` has one lemma per
action. Each lemma uses lemmas on the operators: `PeekLemma`, `IterLemma`,
`PeekCapBound`, `RoundUpMono`, `DropType` and `SubSeqType`.

TLC checked `IInv` as an invariant of the `roundtrip` and `adversarial`
instances before the proof.

### The caps (`StreamDecoderCapsProofs`)

`CapsAreRespected == Spec => []CapsRespected`: every assertion `Decode`
returns has at most `MaxHeadersSize` header bytes, `MaxBodySize` body bytes
and `MaxSigSize` signature bytes. It rests on `IInv` and on `CInv`, which
follows a call through its phases:

- after the header read, `ret` is within the header cap; after the trailer
  and signature reads, within the signature cap;
- from the body read on, `headAndSep` is within the header cap and
  body-length within the body cap;
- `content` is `headAndSep` followed by exactly body-length bytes
  (`ReadBodyLen`), so `Finish`'s slices have the lengths the caps bound.

`CInv` is needed because `CapsRespected` only speaks of results. Without the
phase facts, the prover cannot tell how long the content and signature
`Finish` slices are. TLC checked `CInv` on the `roundtrip` and `adversarial`
instances before the proof.

This theorem needs one more assumption, `InitialSizeAssumption`:
`InitialBufSize` is at most the header and signature caps. Without it, the
first peek of `readUntil` (at `initialBufSize`, 356-358) could return more than
the cap before the check at 369. The assumption is justified because
`NewDecoder` (312-320) is the only constructor. It sets `initialBufSize` to
4096, and the caps are 128 KiB.

### The Encoder (`StreamEncoderProofs`)

`EncoderImplementsSink == ESpec => SinkRefinement`. It holds for every set
of assertions, every caller policy and every writer, under
`EncoderAssumption`: assertions are records of byte sequences, batches are
sequences of them, and `MaxFailures` is a natural number.

The inductive invariant `EInv` says what the writer holds in the middle of a
call, relative to `base`:

- `base` while the separator `Write` is pending;
- `base \o nextSep` while the assertion `Write` is pending;
- `base \o nextSep \o cur` while the trailing `Write` is pending, and then
  `cur` does not end in `'\n'`.

With `EInv`, `StepRefines` shows what each action is under the mapping:

- a successful `Write` that does not end the call is a stutter;
- the last `Write` of a successful call is `Emit`;
- a failed `Write` is `Fail`, with the prefix length `Len(nextSep) + k`, or
  `Len(nextSep \o cur) + k`.

The lemmas `PrefixOfConcat` and `ConcatPrefix` give the prefixes of a
concatenation.

### Reading the stream in order (`StreamDecoderStreamProofs`)

- `DecodedSegments == Spec => []DecodedIsStreamSegment`. Every assertion
  `Decode` returns is `content \o "\n\n" \o sig`, and that sequence is
  found in the stream at the offset where its call began. This holds
  whatever the reader's chunking, `peek`'s buffer regrowth (322-337) and the
  reader's final error.
- `CleanEOF == Spec => []CleanEOFAtBoundary`. io.EOF is reported only by a
  call that began at the end of the stream (382-387).

Both hold under the same assumptions as `InvInductive`. They follow from
`StreamAccounting == Spec => [](IInv /\ SInv)`. Neither property is
inductive by itself, since each speaks only of returned results. `SInv`
accounts for every byte of the current call. Let `Rest` be the stream from
`start`, and let `Unread` be `buf \o src`. Then:

- between calls, `Unread` is a suffix of the stream;
- in each phase, `Rest` is what the call has read so far, followed by
  `Unread`. What the call has read is one of:
  - `ret` after the header read;
  - `content` in the body and trailer reads;
  - `content \o ret` after the trailer read;
  - `content \o "\n\n"` in the signature read;
  - `content \o "\n\n" \o ret` after the signature read;
- `d.err` is set only once `src` is empty. Without this, a `peek` after a
  read error could not be placed in the stream;
- `readUntil` with a nil error returns bytes that end in `"\n\n"`. With a
  read error, it leaves nothing unread. This is what makes a header read
  that hits EOF with no bytes start at the end of the stream;
- from the body read on, the header block ends in `"\n\n"`. Without a
  body, `contentBuf` is that block. So `Truncate(headLen)` (438) removes
  exactly the separator that `AfterTrailer` matched.

`NextSInv` has one lemma per action. The lemmas rest on these:

- `PeekSplit` and `IterSplit`: a `peek` and a `readUntil` iteration move
  bytes from `src` to `buf`, and from `buf` to the result, without losing
  or reordering any;
- `ReadUntilSplit`: the same for a whole `readUntil` step;
- `FinishSInv`: the assertion `Finish` assembles is a prefix of `Rest`,
  with or without the signature's last `'\n'`;
- sequence lemmas (`SplitAt`, `SplitSuffix`, `SuffixFrom`,
  `PrefixOfFrame`).

TLC checked `SInv` as an invariant of the `roundtrip` and `adversarial`
instances before the proof.

### Calls in order (`StreamDecoderOrderProofs`)

- `DecodedInOrder == Spec => []DecodedInStreamOrder`. If call `i` returned
  an assertion and `j > i`, call `j` began at or after the end of that
  assertion's `content \o "\n\n" \o sig`. So the assertions are disjoint
  segments of the stream in the order of the calls. This holds for all
  caps, buffer sizes, chunkings and reader errors. Together with
  `DecodedSegments`, no byte of the stream is handed out twice.
`DecodedInStreamOrder` relates results of different calls, so it is not
inductive. The proof strengthens it to `OInv`. Let the read position
`Pos` be `Len(Stream) - Len(Unread)`, which equals `Consumed`. Then:

- every returned assertion ends at or before `Pos`. A step that does not
  return keeps this, because `Pos` never decreases (`ReadUntilUnread`,
  `ReadBodyUnread`);
- while a call runs, every returned assertion ends at or before `start`.
  This holds because `Call` sets `start` to `Consumed`, which is `Pos` by
  the first conjunct. It is what turns the first conjunct into the
  ordering when the call returns;
- `DecodedInStreamOrder` itself. An assertion `Finish` appends ends at
  `Pos` or one byte before it. By `SInv`, the bytes from `start` to `Pos`
  are the content, `"\n\n"` and the signature read (`FinishPos`), and
  `Finish` keeps all of the signature or all but its last `'\n'`.

`OrderAccounting == Spec => [](IInv /\ SInv /\ OInv)` has one lemma per
action for `OInv`, built on two shared lemmas:

- `KeepOInv`, for a step that returns nothing;
- `ReturnOInv`, for a step that appends a result beginning at `start`.

TLC checked `OInv` as an invariant of the `roundtrip` and `adversarial`
instances before the proof.

### What stays with TLC

- **Liveness.** `DecodeTerminates` uses fairness and `ENABLED`, which the
  prover does not handle.
- **The round-trip properties** (`RoundTrip`, `HeaderRoundTrip`,
  `SingleShotRoundTrip`). They say that decoding the encoding of any
  sequence of assertions gives them back. That is a statement about what
  header parsing and `EncoderStream` compute for every input, and it needs
  induction over the data. The installed provers cannot do that
  induction.
- **`HeaderCodec`.** It uses `RECURSIVE` operators (its parser loop), so it
  holds no theorems.

## Not modelled

- `src/partition/utils.go` (exec I/O), `src/store/userinfo.go` (HTTP and
  JSON), and `src/tests/main/unity/task.yaml` (an integration test).
- The `assertionBase` accessors, which return fields and change nothing.
- The per-type assemblers and `signContent`, which are external.
  - The signer's output is chosen from small sets.
  - Assemblers always succeed.
- `utf8.Valid` in `parseHeaders`: every modelled byte is ASCII.
