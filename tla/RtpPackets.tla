----------------------------- MODULE RtpPackets -----------------------------
(***************************************************************************)
(* The packetizer of the simulated device (media/rtp_ps.py): a fixture is  *)
(* played in a loop, each frame is muxed into one MPEG-PS unit and cut     *)
(* into RTP packets.                                                       *)
(*                                                                         *)
(* Bytes are numbers of bytes, except for the PTS, whose encoding is       *)
(* modelled bit by bit.  The widths of the fields are parameters: 16 bits  *)
(* for sequence and lengths, 32 for the timestamp, and a PTS of 3 + 8 + 7  *)
(* + 8 + 7 bits in the code.                                               *)
(***************************************************************************)
EXTENDS Naturals, Sequences

CONSTANTS
    FrameSizes,    \* sizes of a frame's video payload
    FixtureFrames, \* frames of the fixture
    Mtus,          \* values of gb_media_mtu
    AudioSizes,    \* lengths of the audio fixture; 0 without audio
    AudioStep,     \* audio bytes of a frame
    ClockStep,     \* 90 kHz divided by the frame rate
    SeqRange,      \* 2^16
    StampRange,    \* 2^32
    SizeRange,     \* 2^16
    Octet,         \* 2^8, the second and fourth field of a PTS
    Septet         \* 2^7, the third and fifth

ASSUME PacketAssumption ==
    /\ FrameSizes \subseteq Nat \ {0} /\ Mtus \subseteq Nat \ {0}
    \* The audio fixture has 8000 bytes, of which a frame takes 320.
    /\ AudioSizes \subseteq Nat /\ AudioStep \in Nat \ {0}
    /\ \A n \in AudioSizes : n = 0 \/ n >= AudioStep
    /\ FixtureFrames \in Nat \ {0} /\ ClockStep \in Nat \ {0}
    /\ SeqRange \in Nat \ {0} /\ StampRange \in Nat /\ SizeRange \in Nat
    /\ Octet \in Nat \ {0} /\ Septet \in Nat \ {0}

VARIABLES
    fixture,   \* the sizes of the fixture's frames
    mtu,
    audio,     \* length of the audio fixture
    sequence,  \* _sequence
    index,     \* frames yielded so far: frame_index of frame_iterator
    pts,
    sent,      \* the packets of the frame that was yielded last
    chunk,     \* the slices of the audio fixture in that frame
    overflow   \* did a value not fit in its field?

packetVars == <<fixture, mtu, audio, sequence, index, pts, sent, chunk, overflow>>

Packet == [seq : 0..SeqRange - 1, stamp : Nat, marker : BOOLEAN,
           from : Nat, to : Nat]

PacketTypeOK ==
    /\ fixture \in [1..FixtureFrames -> FrameSizes]
    /\ mtu \in Mtus /\ audio \in AudioSizes
    /\ sequence \in 0..SeqRange - 1
    /\ index \in Nat /\ pts \in Nat
    /\ sent \in Seq(Packet)
    /\ \A i \in DOMAIN chunk : chunk[i].to \in 0..audio
    /\ overflow \in BOOLEAN

PacketInit ==
    /\ fixture \in [1..FixtureFrames -> FrameSizes]
    /\ mtu \in Mtus /\ audio \in AudioSizes
    /\ sequence = 0 /\ index = 0 /\ pts = 0
    /\ sent = << >> /\ chunk = << >>
    /\ overflow = FALSE

-----------------------------------------------------------------------------
(* Cutting a frame *)

\* Mutation of After: no mask.
AfterUnmasked(seq, n) == seq + n

\* The sequence number n packets later.
After(seq, n) == (seq + n) % SeqRange

PacketCount(size) == (size + mtu - 1) \div mtu

Lesser(m, n) == IF m < n THEN m ELSE n

\* Mutation of IsLast: a frame that fills its packets has no last one.
IsLastUnlessFull(offset, size) == offset + mtu > size

IsLast(offset, size) == offset + mtu >= size

\* _packetize: packet i has the bytes from + 1 to to.
Packetize(size) ==
    [i \in 1..PacketCount(size) |->
        LET offset == (i - 1) * mtu
        IN  [seq |-> After(sequence, i - 1), stamp |-> pts,
             marker |-> IsLast(offset, size),
             from |-> offset, to |-> Lesser(offset + mtu, size)]]

-----------------------------------------------------------------------------
(* Audio *)

AudioStart(i) == (i * AudioStep) % audio

\* _mux_audio_pes: a slice of the fixture, and its beginning where that ends.
AudioSlices(i) ==
    IF audio = 0 THEN << >>
    ELSE LET start == AudioStart(i)
             first == [from |-> start, to |-> Lesser(start + AudioStep, audio)]
             short == AudioStep - (first.to - first.from)
         IN  IF short = 0 THEN <<first>>
             ELSE <<first, [from |-> 0, to |-> Lesser(short, audio)]>>

AudioBytes == IF audio = 0 THEN 0 ELSE AudioStep

-----------------------------------------------------------------------------
(* encode_pts *)

\* Where the fields begin, at the bits 7, 15, 22 and 30.
Unit1 == Septet
Unit2 == Unit1 * Octet
Unit3 == Unit2 * Septet
TopUnit == Unit3 * Octet

Field(n, unit, range) == (n \div unit) % range

\* Mutation of LowFields: the last two fields change places.
LowFieldsSwapped(n) ==
    <<Field(n, Unit3, Octet), Field(n, Unit2, Septet) * 2 + 1,
      Field(n, 1, Septet) * 2 + 1, Field(n, Unit1, Octet)>>

LowFields(n) ==
    <<Field(n, Unit3, Octet), Field(n, Unit2, Septet) * 2 + 1,
      Field(n, Unit1, Octet), Field(n, 1, Septet) * 2 + 1>>

EncodePts(n) == LET low == LowFields(n)
                IN  <<32 + Field(n, TopUnit, 8), low[1], low[2], low[3], low[4]>>

\* A demultiplexer reads three bits and a marker bit from the first byte.
ReadPts(b) == ((b[1] \div 2) % 8) * TopUnit
              + b[2] * Unit3 + (b[3] \div 2) * Unit2
              + b[4] * Unit1 + b[5] \div 2

-----------------------------------------------------------------------------
(* frame_iterator *)

FrameSize == fixture[(index % FixtureFrames) + 1]

\* Mutation of NextPts: the clock starts anew with the fixture.
NextPtsOfLoop == ((index + 1) % FixtureFrames) * ClockStep

NextPts == pts + ClockStep

Fits == FrameSize + 12 < SizeRange /\ pts < StampRange

YieldFrame ==
    /\ ~overflow /\ Fits
    /\ LET size == FrameSize + AudioBytes
       IN  /\ sent' = Packetize(size)
           /\ sequence' = After(sequence, PacketCount(size))
    /\ chunk' = AudioSlices(index)
    /\ pts' = NextPts
    /\ index' = index + 1
    /\ UNCHANGED <<fixture, mtu, audio, overflow>>

\* OverflowError: the length of a PES or a timestamp does not fit, and the
\* media task dies of it.
StreamDies ==
    /\ ~overflow /\ ~Fits
    /\ overflow' = TRUE
    /\ UNCHANGED <<fixture, mtu, audio, sequence, index, pts, sent, chunk>>

PacketNext == YieldFrame \/ StreamDies

PacketSpec == PacketInit /\ [][PacketNext]_packetVars

-----------------------------------------------------------------------------
(* Properties *)

\* A receiver can put the frame together: the packets cover it without gap or
\* overlap, none is empty or longer than the MTU, and the last one, and only
\* that, has the marker.
FrameIsWhole ==
    sent # << >> =>
        /\ sent[1].from = 0
        /\ \A i \in 1..Len(sent) :
             /\ sent[i].from < sent[i].to /\ sent[i].to <= sent[i].from + mtu
             /\ sent[i].marker <=> i = Len(sent)
             /\ i < Len(sent) => sent[i].to = sent[i + 1].from

\* What the demultiplexer reads from a PTS is the PTS, as long as its top
\* three bits are not used: the code puts them a bit too low.
PtsReadsBack == pts < TopUnit => ReadPts(EncodePts(pts)) = pts

\* Neither the end of a frame nor of the fixture is a gap for a receiver:
\* the sequence goes on by one, the clock moves forward, and the audio begins
\* where it ended in the frame before.
StreamGoesOn ==
    [][sent # << >> /\ index' # index =>
         /\ sent'[1].seq = (sent[Len(sent)].seq + 1) % SeqRange
         /\ sent'[1].stamp > sent[1].stamp
         /\ audio > 0 => chunk'[1].from = chunk[Len(chunk)].to % audio]_packetVars
=============================================================================
