------------------------------- MODULE Uploads -------------------------------
(***************************************************************************)
(* POST /files/upload: files.controller.ts lets multer read the file, then *)
(* FilesService inspects its header and stores it.  The client's file is a *)
(* medium written in its container, possibly cut short on the way or with  *)
(* one cell altered.  One upload is a behaviour.                           *)
(***************************************************************************)
EXTENDS MediaFiles

CONSTANTS
  Media,         \* the media that clients send
  Damage,        \* bound: the values that an altered cell may take
  ImageMin, ImageMax, \* IMAGE_MIN_DIMENSION_PX, IMAGE_MAX_DIMENSION_PX
  MaxSeconds     \* VIDEO_MAX_DURATION_SECONDS

VARIABLES
  medium,   \* what the client meant to send
  file,     \* the cells that arrive
  damage,   \* how they differ from what was written
  request,  \* the rest of the request: its type, claimed MIME type, size
  outcome,  \* the answer
  stored    \* the MIME type of the attachment row, or "none"

vars == <<medium, file, damage, request, outcome, stored>>

\* The size of the whole file: within both caps, over IMAGE_MAX_SIZE_BYTES, or
\* over VIDEO_MAX_SIZE_BYTES too.
Requests == [type : {"image", "video"}, claim : {"media", "other"},
             size : {"fits", "overImage", "overVideo"}, dbUp : BOOLEAN]

Outcomes == {"pending", "OK", "FILE_REQUIRED", "FILE_TYPE_INVALID", "FILE_SIZE_EXCEEDED",
             "FILE_DIMENSIONS_INVALID", "VIDEO_DURATION_INVALID", "VIDEO_DURATION_EXCEEDED",
             "FILE_UPLOAD_FAILED", "RangeError"}

Plain == [type |-> "image", claim |-> "media", size |-> "fits", dbUp |-> TRUE]

TypeOK ==
  /\ medium \in Media
  /\ file \in Seq(0..255)
  /\ damage \in {"none", "cut", "altered"}
  /\ request \in Requests
  /\ outcome \in Outcomes
  /\ stored \in VideoFormats \cup {"png", "gif", "jpeg", "webp", "none"}
  /\ (stored # "none") = (outcome = "OK")

Init ==
  /\ medium \in Media
  /\ file = Written(medium)
  /\ damage = "none" /\ request = Plain
  /\ outcome = "pending" /\ stored = "none"

\* The connection ends early, or the file was never whole.
Cut ==
  /\ outcome = "pending" /\ damage = "none"
  /\ \E n \in 0..Len(file) - 1 : file' = SubSeq(file, 1, n)
  /\ damage' = "cut"
  /\ UNCHANGED <<medium, request, outcome, stored>>

Alter ==
  /\ outcome = "pending" /\ damage = "none"
  /\ \E i \in 1..Len(file), v \in Damage :
       /\ medium.format \in VideoFormats => v < Base
       /\ file' = [file EXCEPT ![i] = v]
  /\ damage' = "altered"
  /\ UNCHANGED <<medium, request, outcome, stored>>

OutOfBounds(size) ==
  \/ size.num < ImageMin \/ size.den < ImageMin
  \/ size.num > ImageMax \/ size.den > ImageMax

\* The checks of uploadImage, in their order
ImageVerdict(q, info) ==
  IF Len(file) = 0 THEN "FILE_REQUIRED"
  ELSE IF q.size # "fits" THEN "FILE_SIZE_EXCEEDED"
  ELSE IF info.size = Null THEN "FILE_TYPE_INVALID"
  ELSE IF OutOfBounds(info.size) THEN "FILE_DIMENSIONS_INVALID"
  ELSE "OK"

DurationVerdict(duration) ==
  IF duration = RangeError THEN "RangeError"
  ELSE IF duration = Null THEN "VIDEO_DURATION_INVALID"
  ELSE IF duration.num > MaxSeconds * duration.den THEN "VIDEO_DURATION_EXCEEDED"
  ELSE "OK"

\* The checks of uploadVideo, in their order
VideoVerdict(q, format) ==
  IF Len(file) = 0 THEN "FILE_REQUIRED"
  ELSE IF q.size = "overVideo" THEN "FILE_SIZE_EXCEEDED"
  ELSE IF format = "none" THEN "FILE_TYPE_INVALID"
  ELSE DurationVerdict(ReadVideoDuration(file, format))

\* What multer refuses before a handler runs: fileFilter, then its size limit,
\* which FileSizeExceptionFilter turns into the same error.
RouteVerdict(q) ==
  IF q.claim = "other" THEN "FILE_TYPE_INVALID"
  ELSE IF q.size = "overVideo" THEN "FILE_SIZE_EXCEEDED"
  ELSE "OK"

\* The answer to a file of this format whose checks came out so
Answer(q, verdict, format) ==
  /\ request' = q
  /\ outcome' = IF verdict = "OK" /\ ~q.dbUp THEN "FILE_UPLOAD_FAILED" ELSE verdict
  /\ stored' = IF verdict = "OK" /\ q.dbUp THEN format ELSE stored
  /\ UNCHANGED <<medium, file, damage>>

UploadImage(q, info) == Answer(q, ImageVerdict(q, info), info.format)

UploadVideo(q, format) == Answer(q, VideoVerdict(q, format), format)

\* A damaged file is sent with the plain rest: the bound keeps the two apart.
Upload(q) ==
  /\ outcome = "pending"
  /\ damage # "none" => q = [Plain EXCEPT !.type = q.type]
  /\ IF RouteVerdict(q) # "OK" THEN Answer(q, RouteVerdict(q), "none")
     ELSE IF q.type = "video" THEN UploadVideo(q, DetectVideoFormat(file))
     ELSE UploadImage(q, InspectImageBuffer(file))

Next == Cut \/ Alter \/ \E q \in Requests : Upload(q)

Spec == Init /\ [][Next]_vars

-----------------------------------------------------------------------------
IsVideo == medium.format \in VideoFormats

\* The format that an attachment of this medium is stored under
TrueFormat == IF medium.format \in {"vp8", "vp8l", "vp8x"} THEN "webp" ELSE medium.format

\* What the limits of the service say of the medium itself, not of its header
WithinLimits ==
  IF IsVideo THEN /\ Duration(medium).num > 0
                  /\ Duration(medium).num <= MaxSeconds * Duration(medium).den
  ELSE {medium.x, medium.y} \subseteq ImageMin..ImageMax

\* However its bytes were cut or altered, no file makes a parser read past its
\* end: the upload is answered with a validation error, never with a 500
\* (video-file.ts:328-333).
NothingThrows == outcome # "RangeError"

\* An intact file, in any layout its container allows, is judged by the medium
\* in it: it is stored exactly when it is sent as what it is and its true size
\* or duration is within the limits, and under its true format
\* (files.service.ts:41-153).
IntactIsJudgedRight ==
  outcome # "pending" /\ damage = "none" =>
    stored = IF /\ request.claim = "media" /\ request.dbUp
                /\ request.size = "fits" \/ (IsVideo /\ request.size = "overImage")
                /\ IsVideo = (request.type = "video")
                /\ WithinLimits
             THEN TrueFormat ELSE "none"

\* A file that lost its end is stored only if the limits allow the medium it
\* was cut from: no cut makes a video look shorter or an image smaller
\* (video-file.ts:24-27).
CutIsNotMisread == damage = "cut" /\ stored # "none" => WithinLimits
=============================================================================
