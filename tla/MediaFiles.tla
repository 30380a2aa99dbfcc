----------------------------- MODULE MediaFiles -----------------------------
(***************************************************************************)
(* The files a client sends, written as the container formats lay them out *)
(* (ISO 14496-12, Matroska, RIFF AVI, PNG, GIF, JPEG, WebP with RFC 6386   *)
(* for its lossy frames), in the cells of MediaHeaders: the reference that *)
(* the parsers are held against.                                           *)
(*                                                                         *)
(* A medium is [format, x, y, long, extra, form]: x and y are the width    *)
(* and height of an image or the two numbers that give the duration of a   *)
(* video; long asks for the wide form of its numbers, extra for something  *)
(* a parser must skip, form for one of the layouts the format allows.      *)
(***************************************************************************)
EXTENDS MediaHeaders

ImageFormats == {"png", "gif", "jpeg", "vp8", "vp8l", "vp8x"}
VideoFormats == {"mp4", "mov", "webm", "avi"}

\* The n cells of v, big-endian and little-endian
Big(v, n, b) == [i \in 1..n |-> IF n - i > 3 THEN 0 ELSE (v \div b^(n - i)) % b]
Little(v, n, b) == [i \in 1..n |-> (v \div b^(i - 1)) % b]
When(p, s) == IF p THEN s ELSE <<>>

-----------------------------------------------------------------------------
Box(type, body) == <<Len(body) + 2, type>> \o body

IsoFile(m) ==
  LET mvhd == Box(Mvhd, IF m.long THEN <<1, 0, 0, 0, 0, m.y>> \o Big(m.x, 2, Base)
                        ELSE <<0, 0, 0, m.y, m.x>>)
      body == When(m.extra, Box(14, <<0>>)) \o mvhd
      moov == CASE m.form = "plain" -> Box(Moov, body)
                [] m.form = "open" -> <<0, Moov>> \o body
                [] m.form = "extended" -> <<1, Moov>> \o Big(Len(body) + 4, 2, Base) \o body
  IN  Box(Ftyp, <<IF m.format = "mov" THEN QuickTime ELSE 0>>) \o moov
      \o When(m.form # "open", Box(13, <<0>>))

Vint(n) == IF n < 7 THEN <<8 + n>> ELSE <<4 + n \div Base, n % Base>>
Element(id, body) == id \o Vint(Len(body)) \o body

\* The default scale may be left out; in form "late" it follows the duration.
WebmFile(m) ==
  LET width    == IF m.long THEN Wide ELSE Narrow
      scale    == When(m.y # DefaultScale \/ m.extra,
                       Element(TimecodeScaleId, Big(m.y, width, Base)))
      duration == Element(DurationId, Big(m.x, width, Base))
      info     == Element(InfoId, When(m.extra, Element(<<4, 13>>, <<0>>))
                     \o (IF m.form = "late" THEN duration \o scale ELSE scale \o duration))
  IN  Element(EbmlId, Element(DocTypeId, WebmText))
      \o When(m.extra, Element(<<14>>, <<0, 0>>))
      \o (IF m.form = "open" THEN SegmentId \o <<15>> \o info ELSE Element(SegmentId, info))

Chunk(tag, body) ==
  tag \o Little(Len(body), Wide, Base) \o body \o When(Len(body) % 2 = 1, <<0>>)

AviFile(m) ==
  LET avih == Chunk(Avih, Little(m.x, Wide, Base) \o Big(0, 3 * Wide, Base)
                          \o Little(m.y, Wide, Base))
      junk == When(m.extra, Chunk(<<8, 6>>, <<0, 0, 0>>))
  IN  Riff \o <<0, 0>> \o AviTag \o junk
      \o (IF m.form = "open" THEN avih ELSE Chunk(List, Hdrl \o junk \o avih))

-----------------------------------------------------------------------------
PngFile(m) == PngSignature \o Big(0, 8, 256) \o Big(m.x, 4, 256) \o Big(m.y, 4, 256)

GifFile(m) == GifSignature \o Little(m.x, 2, 256) \o Little(m.y, 2, 256)

\* A skipped APP0 or DHT segment, then a baseline or progressive frame header.
JpegFile(m) ==
  <<255, 216>>
  \o When(m.extra, <<255, IF m.long THEN 196 ELSE 224, 0, 4, 0, 0>>)
  \o <<255, IF m.long THEN 194 ELSE 192, 0, 11, 8>>
  \o Big(m.y, 2, 256) \o Big(m.x, 2, 256) \o <<1, 0, 0, 0>>

WebpHeader(tag) == <<82, 73, 0, 0, 0, 0, 0, 0, 87, 80, 0, 0, 0, 0, 0, tag, 0, 0, 0, 0>>

Vp8xFile(m) == WebpHeader(Vp8x) \o Big(0, 4, 256)
               \o Little(m.x - 1, 3, 256) \o Little(m.y - 1, 3, 256)

\* Two 14-bit fields, one right after the other
Vp8lFile(m) == WebpHeader(Vp8l) \o <<47>> \o Little((m.x - 1) + 16384 * (m.y - 1), 4, 256)

\* Two 16-bit fields, each a 14-bit dimension under a 2-bit scale
Vp8File(m) == WebpHeader(Vp8) \o <<0, 0, 0>> \o SyncCode
              \o Little(m.x, 2, 256) \o Little(m.y, 2, 256)

-----------------------------------------------------------------------------
Written(m) ==
  CASE m.format \in {"mp4", "mov"} -> IsoFile(m)
    [] m.format = "webm" -> WebmFile(m)
    [] m.format = "avi" -> AviFile(m)
    [] m.format = "png" -> PngFile(m)
    [] m.format = "gif" -> GifFile(m)
    [] m.format = "jpeg" -> JpegFile(m)
    [] m.format = "vp8x" -> Vp8xFile(m)
    [] m.format = "vp8l" -> Vp8lFile(m)
    [] m.format = "vp8" -> Vp8File(m)

\* The media that the fields of these layouts can hold. An all-ones duration
\* stands for none, and a time scale of WebM is positive. Left out are the two
\* that the parsers misread: a lossy WebP frame, and a scale after the duration.
Conforms(m) ==
  LET Width == IF m.long THEN Wide ELSE Narrow
      Within(S) == {m.x, m.y} \subseteq S
  IN  /\ m \in [format : ImageFormats \cup VideoFormats, x : Nat, y : Nat, long : BOOLEAN,
               extra : BOOLEAN, form : {"plain", "open", "extended"}]
      /\ m.format \in {"mp4", "mov"} => m.x < Ones(Width) /\ m.y < Base
      /\ m.format = "webm" =>
           /\ m.form # "extended" /\ Within(0..Ones(Width)) /\ m.y > 0
           /\ m.x \notin {Ones(Narrow), Ones(Wide)}
      /\ m.format = "avi" => m.form # "extended" /\ Within(0..Ones(Wide))
      /\ m.format = "png" => Within(0..2 * (2^30 - 1) + 1)
      /\ m.format \in {"gif", "jpeg"} => Within(0..2^16 - 1)
      /\ m.format = "vp8x" => Within(1..2^24)
      /\ m.format = "vp8l" => Within(1..2^14)
      /\ m.format # "vp8"

\* The duration in seconds that a video was written with
Duration(m) ==
  CASE m.format \in {"mp4", "mov"} -> Read(m.x, m.y)
    [] m.format = "webm" -> Read(m.x * m.y, ScalesPerSecond)
    [] m.format = "avi" -> Read(m.x * m.y, Base)
=============================================================================
