---------------------------- MODULE MediaHeaders ----------------------------
(***************************************************************************)
(* modules/files/image-file.ts and video-file.ts, the header parsers that  *)
(* decide which uploads are stored.  A file is a sequence of cells and     *)
(* offsets count from 0, as in the code.  In an image a cell is a byte.    *)
(* In a video it is scaled down, so that files stay short: a cell holds 4  *)
(* bits; it stands for a 32-bit word of an ISO file and for a byte of a    *)
(* WebM or AVI file, where an integer of 4 bytes takes Narrow cells and    *)
(* one of 8 bytes Wide cells.  Lengths, offsets and sentinels follow.      *)
(*                                                                         *)
(* The iteration guards (10 000 boxes, 1000 elements) are left out: the    *)
(* files here have a few dozen cells.                                      *)
(***************************************************************************)
EXTENDS Integers, Sequences

Base == 16              \* values of a video cell
Narrow == 1
Wide == 2

\* What a parser says: a value as a fraction, null, or a RangeError thrown by
\* a numeric read past the end.
Read(n, d) == [is |-> "read", num |-> n, den |-> d]
Null == [is |-> "null", num |-> 0, den |-> 1]
RangeError == [is |-> "thrown", num |-> 0, den |-> 1]

At(f, o) == f[o + 1]
Has(f, o, n) == o + n <= Len(f)     \* the n cells from offset o are in the file
Ones(n) == Base^n - 1               \* the all-ones integer of n cells

\* readUIntBE and readUIntLE: n cells from offset o, in base b
BE(f, o, n, b) ==
  LET first[k \in 0..n] == IF k = 0 THEN 0 ELSE first[k - 1] * b + At(f, o + k - 1) IN first[n]
LE(f, o, n, b) == BE([i \in 1..n |-> At(f, o + n - i)], 0, n, b)

Slice(f, from, to) == SubSeq(f, from + 1, IF to < Len(f) THEN to ELSE Len(f))
Smaller(x, y) == IF x < y THEN x ELSE y

-----------------------------------------------------------------------------
(* MP4 and MOV: boxes of <<size, type, contents>>, in words.               *)

Ftyp == 9
Moov == 10
Mvhd == 11
QuickTime == 12     \* the major brand "qt  "

NoBox == [type |-> 0, dataStart |-> 0, next |-> -1]

\* A box of the given size whose contents begin at start, if it is in the file
BoxAt(f, o, start, size) ==
  IF size >= start - o /\ Has(f, o, size)
  THEN [type |-> At(f, o + 1), dataStart |-> start, next |-> o + size] ELSE NoBox

\* A size of 0 reaches to the end of the file, 1 announces a 64-bit size.
ReadIsoBox(f, o) ==
  CASE ~Has(f, o, 2) \/ (At(f, o) = 1 /\ ~Has(f, o, 4)) -> NoBox
    [] Has(f, o, 2) /\ At(f, o) = 0 -> BoxAt(f, o, o + 2, Len(f) - o)
    [] Has(f, o, 4) /\ At(f, o) = 1 -> BoxAt(f, o, o + 4, BE(f, o + 2, 2, Base))
    [] Has(f, o, 2) /\ At(f, o) > 1 -> BoxAt(f, o, o + 2, At(f, o))

Spans == Nat \X Nat               \* <<offset, end>>

\* The offset of the first mvhd in [span[1], span[2]), also inside moov boxes, or
\* -1; find is the same for the spans that come after.
MvhdIn(f, span, find) ==
  LET After(box, inside) == IF inside >= 0 THEN inside ELSE find[<<box.next, span[2]>>]
      Visit(box) ==
        IF box = NoBox \/ box.next > span[2] THEN -1
        ELSE IF box.type = Mvhd THEN box.dataStart - 2
        ELSE After(box, IF box.type = Moov THEN find[<<box.dataStart, box.next>>] ELSE -1)
  IN  IF span[1] + 2 > span[2] \/ ~Has(f, span[1], 2) THEN -1 ELSE Visit(ReadIsoBox(f, span[1]))

FindMvhd(f, start, end) ==
  LET find[span \in Spans] == MvhdIn(f, span, find) IN find[<<start, end>>]

\* Timescale and duration, the second of the given width, from offset o
TimesAt(f, o, width) ==
  IF \/ ~Has(f, o, 1 + width)
     \/ At(f, o) = 0 \/ BE(f, o + 1, width, Base) \in {0, Ones(width)}
  THEN Null
  ELSE Read(BE(f, o + 1, width, Base), At(f, o))

\* mvhd in version 0 or 1
MvhdDuration(f, mvhd) ==
  IF mvhd = -1 THEN Null
  ELSE IF Has(f, mvhd + 2, 1) /\ At(f, mvhd + 2) = 1 THEN TimesAt(f, mvhd + 7, 2)
  ELSE TimesAt(f, mvhd + 5, 1)

ReadIsoBmffDuration(f) == MvhdDuration(f, FindMvhd(f, 0, Len(f)))

-----------------------------------------------------------------------------
(* WebM: elements of <<id, size, contents>>; ids and sizes are integers of *)
(* variable length, whose first cell tells the length by its leading zeros.*)

Cells == 4                        \* bits of a cell
EbmlId == <<1, 10, 13, 15>>
SegmentId == <<1, 8, 5, 6>>
InfoId == <<1, 5, 4, 9>>
TimecodeScaleId == <<2, 10, 13>>
DocTypeId == <<4, 2>>
DurationId == <<4, 8>>
WebmText == <<7, 7>>              \* the DocType "webm"

LeadingZeroBits(v) == Cells - (CHOOSE n \in 0..Cells : 2^n > v /\ (n > 0 => 2^(n - 1) <= v))

NoSize == [value |-> 0, length |-> 0]

\* The value drops the marker bit of the first cell.
VintOf(f, o, length) ==
  IF length <= Cells /\ Has(f, o, length)
  THEN [value |-> BE(f, o, length, Base) - 2^(Cells - length) * Base^(length - 1),
        length |-> length]
  ELSE NoSize

ReadVintSize(f, o) == IF Has(f, o, 1) THEN VintOf(f, o, LeadingZeroBits(At(f, o)) + 1) ELSE NoSize

\* All value bits set, or too long for an exact integer.
IsUnknownVintSize(s) == s.length >= Cells - 1 \/ s.value = 2^((Cells - 1) * s.length) - 1

NoElement == [id |-> <<>>, dataStart |-> 0, next |-> 0]

\* The contents of an element of unknown size reach to the end of the file; a
\* known size is not checked against it.
Contents(f, id, start, size) ==
  IF size = NoSize THEN NoElement
  ELSE [id |-> id, dataStart |-> start + size.length,
        next |-> IF IsUnknownVintSize(size) THEN Len(f) ELSE start + size.length + size.value]

ElementAt(f, o, n) ==
  IF Has(f, o, n) THEN Contents(f, Slice(f, o, o + n), o + n, ReadVintSize(f, o + n)) ELSE NoElement

ReadEbmlElement(f, o) ==
  IF Has(f, o, 1) /\ At(f, o) # 0 THEN ElementAt(f, o, LeadingZeroBits(At(f, o)) + 1) ELSE NoElement

\* The first element with the given id in [o, end), or none; find is the same
\* for the offsets after o.
ElementFrom(f, id, o, end, find) ==
  LET Visit(element) ==
        IF element = NoElement \/ element.id = id THEN element ELSE find[element.next]
  IN  IF o + 2 > end \/ ~Has(f, o, 2) THEN NoElement ELSE Visit(ReadEbmlElement(f, o))

\* The loop of detectWebm, readWebmDuration and readSegmentDuration
FindElement(f, id, start, end) ==
  LET find[o \in Nat] == ElementFrom(f, id, o, end, find) IN find[start]

\* The first element with the given id among the contents of an element
FindIn(f, id, parent) ==
  IF parent = NoElement THEN NoElement
  ELSE FindElement(f, id, parent.dataStart, Smaller(parent.next, Len(f)))

\* What follows the EBML header that the file begins with
Header(f) == IF Slice(f, 0, 4) = EbmlId THEN ReadEbmlElement(f, 0) ELSE NoElement

IsWebmText(f, docType) ==
  docType # NoElement /\ Slice(f, docType.dataStart, docType.next) = WebmText

DetectWebm(f) == IsWebmText(f, FindIn(f, DocTypeId, Header(f)))

DefaultScale == 2
ScalesPerSecond == 4              \* nanoseconds in a second
NoDuration == {0, Ones(Narrow), Ones(Wide)}  \* absent, not positive or not finite

\* The contents of an element of Info are in the file.
IsThere(f, element) == element.next <= Len(f)

Progress == Nat \X Nat \X Nat      \* <<offset, scale, duration>> read so far

\* What the elements from p on give, up to the offset end; read is the same for
\* what comes after p.
InfoFrom(f, p, end, read) ==
  LET Number(element) == BE(f, element.dataStart, element.next - element.dataStart, Base)
      Visit(element, numeric) ==
        IF element = NoElement \/ ~IsThere(f, element) THEN Null
        ELSE IF numeric /\ element.next > Len(f) THEN RangeError
        ELSE read[<<element.next,
                    IF numeric /\ element.id = TimecodeScaleId THEN Number(element) ELSE p[2],
                    IF numeric /\ element.id = DurationId THEN Number(element) ELSE p[3]>>]
      Sort(element) ==
        Visit(element, /\ element.id \in {TimecodeScaleId, DurationId}
                       /\ element.next - element.dataStart \in {Narrow, Wide})
  IN  IF p[1] + 2 > end THEN
        IF p[3] \in NoDuration THEN Null ELSE Read(p[3] * p[2], ScalesPerSecond)
      ELSE Sort(ReadEbmlElement(f, p[1]))

ReadInfo(f, info) ==
  LET read[p \in Progress] == InfoFrom(f, p, Smaller(info.next, Len(f)), read)
  IN  IF info = NoElement THEN Null ELSE read[<<info.dataStart, DefaultScale, 0>>]

\* The rest of the file, after its EBML header, seen as one element
Body(f, header) == [id |-> header.id, dataStart |-> Smaller(header.next, Len(f)), next |-> Len(f)]

ReadWebmDuration(f) ==
  ReadInfo(f, FindIn(f, InfoId, FindIn(f, SegmentId, Body(f, Header(f)))))

-----------------------------------------------------------------------------
(* AVI: chunks of <<id, size, contents>>; an id and a size take Wide cells,*)
(* sizes are little-endian and chunks are padded to an even length.        *)

Riff == <<8, 1>>
AviTag == <<8, 2>>
List == <<8, 3>>
Hdrl == <<8, 4>>
Avih == <<8, 5>>
AvihMin == 5 * Wide               \* the five words of avih that are needed

Tag(f, o) == Slice(f, o, o + Wide)

DetectAvi(f) == Has(f, 0, 3 * Wide) /\ Tag(f, 0) = Riff /\ Tag(f, 2 * Wide) = AviTag

ParseAvih(f, start) ==
  LET perFrame == LE(f, start, Wide, Base)
      frames   == LE(f, start + 4 * Wide, Wide, Base)
  IN  IF ~Has(f, start, AvihMin) \/ perFrame = 0 \/ frames = 0 THEN Null
      ELSE Read(perFrame * frames, Base)

\* Mutant: the padding of an odd chunk is forgotten.
NextChunk_Unpadded(start, size) == start + size

NextChunk(start, size) == start + size + (size % 2)

Loops == Nat \X Nat \X BOOLEAN     \* <<offset, end, outer>>: at the top level

\* What the chunks from p on give: the loop over the top-level chunks and that of
\* parseHdrl, which looks into no LIST; read is the same for what comes after p.
ChunksFrom(f, p, read) ==
  LET data == p[1] + 2 * Wide
      IsHdrl == p[3] /\ Tag(f, p[1]) = List /\ Has(f, data, Wide) /\ Tag(f, data) = Hdrl
      After(found, size) ==
        IF found # Null \/ size = 0 THEN found ELSE read[<<NextChunk(data, size), p[2], p[3]>>]
      Visit(size) ==
        After(IF IsHdrl THEN read[<<data + Wide, Smaller(data + size, Len(f)), FALSE>>]
              ELSE IF Tag(f, p[1]) = Avih /\ size >= AvihMin THEN ParseAvih(f, data)
              ELSE Null, size)
  IN  IF data > p[2] THEN Null
      ELSE IF data > Len(f) THEN RangeError
      ELSE Visit(LE(f, p[1] + Wide, Wide, Base))

ReadAviDuration(f) ==
  LET read[p \in Loops] == ChunksFrom(f, p, read) IN read[<<3 * Wide, Len(f), TRUE>>]

-----------------------------------------------------------------------------
DetectVideoFormat(f) ==
  IF Has(f, 0, 3) /\ At(f, 1) = Ftyp
  THEN IF At(f, 2) = QuickTime THEN "mov" ELSE "mp4"
  ELSE IF DetectWebm(f) THEN "webm"
  ELSE IF DetectAvi(f) THEN "avi"
  ELSE "none"

ReadVideoDuration(f, format) ==
  CASE format \in {"mp4", "mov"} -> ReadIsoBmffDuration(f)
    [] format = "webm" -> ReadWebmDuration(f)
    [] format = "avi" -> ReadAviDuration(f)

-----------------------------------------------------------------------------
(* Images: what is read is a width and a height, in bytes.                 *)

Size(w, h) == [is |-> "read", num |-> w, den |-> h]
Sized(format, w, h) == [format |-> format, size |-> IF w = 0 \/ h = 0 THEN Null ELSE Size(w, h)]
NoImage == [format |-> "none", size |-> Null]

PngSignature == <<137, 80, 78, 71, 13, 10, 26, 10>>
GifSignature == <<71, 73, 70, 56, 57, 97>>
WebpTag == <<82, 73, 87, 80>>     \* "RIFF" and "WEBP" in one
Vp8x == 88
Vp8 == 32
Vp8l == 76                        \* the last letter of the chunk's tag
SyncCode == <<157, 1, 42>>

InspectPng(f) ==
  IF Has(f, 0, 24) /\ Slice(f, 0, 8) = PngSignature
  THEN Sized("png", BE(f, 16, 4, 256), BE(f, 20, 4, 256)) ELSE NoImage

InspectGif(f) ==
  IF Has(f, 0, 10) /\ Slice(f, 0, 6) = GifSignature
  THEN Sized("gif", LE(f, 6, 2, 256), LE(f, 8, 2, 256)) ELSE NoImage

\* Markers by their second byte: RST, SOI and EOI have no length, SOF carries
\* the size of the frame unless it is DHT, JPG or DAC.
IsStandalone(marker) == marker \in 208..217
IsStartOfFrame(marker) == marker \in (192..207) \ {196, 200, 204}
StartOfScan == 218

\* The walk over the marker segments from o on, up to the start of the frame.
MarkerAt(f, o, walk) ==
  LET marker == At(f, o + 1)
      Skip(length) == IF length < 2 THEN NoImage ELSE walk[o + 2 + length]
  IN  IF o + 9 >= Len(f) \/ (At(f, o) = 255 /\ marker = StartOfScan) THEN NoImage
      ELSE IF At(f, o) # 255 THEN walk[o + 1]
      ELSE IF IsStandalone(marker) THEN walk[o + 2]
      ELSE IF IsStartOfFrame(marker) THEN
             Sized("jpeg", BE(f, o + 7, 2, 256), BE(f, o + 5, 2, 256))
      ELSE Skip(BE(f, o + 2, 2, 256))

WalkJpeg(f, start) == LET walk[o \in Nat] == MarkerAt(f, o, walk) IN walk[start]

InspectJpeg(f) ==
  IF Has(f, 0, 4) /\ Slice(f, 0, 3) = <<255, 216, 255>> THEN WalkJpeg(f, 2) ELSE NoImage

\* Two dimensions of 14 bits, one after the other in the 4 bytes from o, plus d.
Packed(f, o, d) ==
  Sized("webp", d + At(f, o) + 256 * (At(f, o + 1) % 64),
        d + At(f, o + 1) \div 64 + 4 * At(f, o + 2) + 1024 * (At(f, o + 3) % 16))

WebpChunk(f, tag) ==
  IF tag = Vp8x /\ Has(f, 0, 30) THEN Sized("webp", 1 + LE(f, 24, 3, 256), 1 + LE(f, 27, 3, 256))
  ELSE IF tag = Vp8 /\ Has(f, 0, 30) /\ Slice(f, 23, 26) = SyncCode THEN Packed(f, 26, 0)
  ELSE IF tag = Vp8l /\ Has(f, 0, 25) THEN Packed(f, 21, 1)
  ELSE NoImage

InspectWebp(f) ==
  IF Has(f, 0, 16) /\ Slice(f, 0, 2) \o Slice(f, 8, 10) = WebpTag
  THEN WebpChunk(f, At(f, 15)) ELSE NoImage

OrElse(info, other) == IF info.size # Null THEN info ELSE other

InspectImageBuffer(f) ==
  OrElse(InspectPng(f), OrElse(InspectGif(f), OrElse(InspectJpeg(f), InspectWebp(f))))
=============================================================================
