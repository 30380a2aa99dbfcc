------------------------------ MODULE Requests ------------------------------
(* One request from the client to the text on the screen: the rate limit in *)
(* front of every route, the session guard behind it, what the handler      *)
(* throws, the envelope the exception filters make of it, and what the      *)
(* client shows for that envelope.                                          *)
EXTENDS Naturals

CONSTANTS Users, Limit, Nobody, NoCode

VARIABLES spent,    \* the throttler's counters of the running window
          granted,  \* requests of each user that passed it in that window
          closed,   \* users whose account is deleted
          answer    \* the request at hand: whose it is, what it met, its text

vars == <<spent, granted, closed, answer>>

Routes == {"open", "guarded"}
\* A credential is a user's valid token, a broken or expired one, or none.
Broken == "broken"
Credentials == Users \cup {Broken, Nobody}
TheAddress == "address"
Trackers == Users \cup {TheAddress}

-----------------------------------------------------------------------------
(* ERROR_CODES: the codes of a status, and the codes of a cause.            *)
GenericCodes ==
  {"VALIDATION_ERROR", "UNAUTHORIZED", "FORBIDDEN", "NOT_FOUND", "CONFLICT",
   "RATE_LIMIT_EXCEEDED", "INTERNAL_ERROR"}

SpecificCodes ==
  {"VERIFICATION_TOKEN_INVALID", "EMAIL_ALREADY_REGISTERED", "EMAIL_NOT_VERIFIED", "INVALID_CREDENTIALS",
   "USERNAME_TAKEN", "PASSWORD_INCORRECT", "SEARCH_QUERY_REQUIRED", "SEARCH_QUERY_TOO_LONG",
   "CHAT_NOT_FOUND", "NOT_CHAT_PARTICIPANT", "MESSAGE_CONTENT_REQUIRED", "MESSAGE_CONTENT_TOO_LONG",
   "MESSAGE_TYPE_INVALID", "MESSAGE_MEDIA_NOT_ALLOWED", "CONTACT_REQUEST_DUPLICATE",
   "CONTACT_REQUEST_SELF_NOT_ALLOWED", "CONTACT_REQUEST_RECEIVER_NOT_FOUND", "CONTACT_REQUEST_NOT_FOUND",
   "CONTACT_REQUEST_NOT_RECEIVER", "CONTACT_REQUEST_ALREADY_RESPONDED", "CONTACT_RELATIONSHIP_REQUIRED",
   "FILE_REQUIRED", "FILE_TYPE_INVALID", "FILE_SIZE_EXCEEDED", "FILE_DIMENSIONS_INVALID",
   "VIDEO_DURATION_INVALID", "VIDEO_DURATION_EXCEEDED", "FILE_UPLOAD_FAILED", "ATTACHMENT_ID_INVALID",
   "ATTACHMENT_NOT_OWNER", "ATTACHMENT_ALREADY_LINKED", "IMAGE_MEDIA_URL_REQUIRED", "IMAGE_MEDIA_URL_INVALID",
   "VIDEO_MEDIA_URL_REQUIRED", "VIDEO_MEDIA_URL_INVALID", "MARK_READ_NOT_PARTICIPANT", "TOO_MANY_REQUESTS",
   "WS_CONNECTION_FAILED", "WS_UNAUTHORIZED", "WS_CHAT_UNAUTHORIZED"}

\* The codes the socket alone uses, and those no statement throws.
NeverThrown ==
  {"MESSAGE_CONTENT_TOO_LONG", "MESSAGE_TYPE_INVALID", "ATTACHMENT_ID_INVALID", "MARK_READ_NOT_PARTICIPANT",
   "TOO_MANY_REQUESTS", "WS_CONNECTION_FAILED", "WS_UNAUTHORIZED", "WS_CHAT_UNAUTHORIZED"}

\* The locale files carry a text for every code but these.
WithoutText ==
  {"ATTACHMENT_ID_INVALID", "ATTACHMENT_NOT_OWNER", "ATTACHMENT_ALREADY_LINKED", "MARK_READ_NOT_PARTICIPANT"}

AuthCodes ==
  {"EMAIL_NOT_VERIFIED", "INVALID_CREDENTIALS", "EMAIL_ALREADY_REGISTERED", "VERIFICATION_TOKEN_INVALID"}

-----------------------------------------------------------------------------
(* What a request meets. A thrown HttpException carries a status and a body *)
(* that is a string or a record, perhaps with a code of its own.            *)
Thrown(status, shape, code, message) ==
  [kind |-> "http", status |-> status, shape |-> shape, code |-> code, message |-> message]

TooManyRequests == Thrown(429, "string", NoCode, "text")
NotSignedIn     == Thrown(401, "record", NoCode, "text")
Invalid         == Thrown(400, "record", NoCode, "text")
MailNotSent     == Thrown(500, "record", "INTERNAL_ERROR", "EMAIL_SEND_FAILED")
FileTooLarge    == [Thrown(413, "record", NoCode, "text") EXCEPT !.kind = "multer"]
Unexpected      == [Thrown(500, "none", NoCode, "text") EXCEPT !.kind = "error"]
Unreachable     == [Thrown(0, "none", NoCode, "text") EXCEPT !.kind = "silence"]

\* The statuses the services and controllers throw a code with.
StatusesOf(code) ==
  CASE code \in {"EMAIL_NOT_VERIFIED", "INVALID_CREDENTIALS", "PASSWORD_INCORRECT"} -> {401}
    [] code \in {"CONTACT_RELATIONSHIP_REQUIRED", "CONTACT_REQUEST_NOT_RECEIVER", "ATTACHMENT_NOT_OWNER"} -> {403}
    [] code = "NOT_CHAT_PARTICIPANT" -> {403, 404}
    [] code \in {"CHAT_NOT_FOUND", "CONTACT_REQUEST_NOT_FOUND", "CONTACT_REQUEST_RECEIVER_NOT_FOUND"} -> {404}
    [] code \in {"USERNAME_TAKEN", "EMAIL_ALREADY_REGISTERED", "CONTACT_REQUEST_DUPLICATE",
                 "CONTACT_REQUEST_ALREADY_RESPONDED"} -> {409}
    [] code = "FILE_UPLOAD_FAILED" -> {500}
    [] OTHER -> {400}

Coded(codes) == UNION {{Thrown(s, "record", c, "text") : s \in StatusesOf(c)} : c \in codes}

HandlerFails(route) ==
  {Invalid, Unexpected, Unreachable}
    \cup (IF route = "open" THEN {MailNotSent} \cup Coded(AuthCodes)
          ELSE {FileTooLarge} \cup Coded(SpecificCodes \ (NeverThrown \cup AuthCodes)))

-----------------------------------------------------------------------------
(* HttpExceptionFilter, and FileSizeExceptionFilter in front of it on the   *)
(* routes that take a file.                                                 *)
CodeForStatus(status) ==
  CASE status = 400 -> "VALIDATION_ERROR"
    [] status = 401 -> "UNAUTHORIZED"
    [] status = 403 -> "FORBIDDEN"
    [] status = 404 -> "NOT_FOUND"
    [] status = 409 -> "CONFLICT"
    [] status = 429 -> "RATE_LIMIT_EXCEEDED"
    [] OTHER -> "INTERNAL_ERROR"

Nothing == <<>>
Envelope(status, code, message) == [status |-> status, code |-> code, message |-> message]

\* Mutant: a code of the exception is not looked for in its body.
ToError_ByStatus(e) ==
  IF e.kind = "error" THEN Envelope(500, "INTERNAL_ERROR", "text")
  ELSE Envelope(e.status, CodeForStatus(e.status), e.message)

ToError(e) ==
  IF e.kind = "error" THEN Envelope(500, "INTERNAL_ERROR", "text")
  ELSE Envelope(e.status,
                IF e.shape = "string" \/ e.code = NoCode THEN CodeForStatus(e.status) ELSE e.code,
                e.message)

Filtered(e) == IF e.kind = "multer" THEN Envelope(400, "FILE_SIZE_EXCEEDED", "text") ELSE ToError(e)

-----------------------------------------------------------------------------
(* The client. toApiRequestError runs where the request fails and again in  *)
(* the form or page that shows the error, and must not change it there. It  *)
(* knows its own errors by their code, message and status; the AxiosError   *)
(* of the installed axios has all three once there is a response.           *)
AxiosError(e) ==
  IF e.kind = "silence"
  THEN [code |-> "ERR_NETWORK", message |-> "text", response |-> Nothing]
  ELSE LET body == Filtered(e)
       IN  [code |-> IF body.status < 500 THEN "ERR_BAD_REQUEST" ELSE "ERR_BAD_RESPONSE",
            message |-> "text", status |-> body.status, response |-> body]

IsApiRequestError(error) == {"code", "message", "status"} \subseteq DOMAIN error

ToApiRequestError(error) ==
  CASE IsApiRequestError(error) -> error
    [] ~IsApiRequestError(error) /\ error.response = Nothing ->
         [code |-> "INTERNAL_ERROR", message |-> "unreachable", status |-> 0]
    [] OTHER -> error.response

Translated(code) ==
  IF code \in GenericCodes \cup SpecificCodes
  THEN IF code \in WithoutText THEN <<"key", code>> ELSE <<"errors", code>>
  ELSE <<"errors", "fallback">>

AuthErrorMessage(error) ==
  CASE error.code \in AuthCodes -> <<"auth", error.code>>
    [] error.code = "INTERNAL_ERROR" /\ error.message = "EMAIL_SEND_FAILED" -> <<"auth", "emailSendFailed">>
    [] OTHER -> Translated(error.code)

\* The forms of the open routes, and the pages behind the guard.
Text(route, e) ==
  LET error == ToApiRequestError(ToApiRequestError(AxiosError(e)))
  IN  IF route = "open" THEN AuthErrorMessage(error) ELSE Translated(error.code)

-----------------------------------------------------------------------------
(* AppThrottlerGuard and JwtStrategy each find the token on their own.      *)
Extracted(bearer, cookie) == IF bearer # Nobody THEN bearer ELSE cookie

\* Mutant: the guard of the rate limit reads the cookie first.
ResolveUserId_CookieFirst(bearer, cookie) ==
  LET token == IF cookie # Nobody THEN cookie ELSE bearer
  IN  IF token \in Users THEN token ELSE Nobody

ResolveUserId(bearer, cookie) ==
  LET token == Extracted(bearer, cookie)
  IN  IF token \in Users THEN token ELSE Nobody

Tracker(bearer, cookie) ==
  IF ResolveUserId(bearer, cookie) = Nobody THEN TheAddress ELSE ResolveUserId(bearer, cookie)

\* The user the passport strategy takes the request to be of.
Principal(bearer, cookie) ==
  IF bearer # Nobody THEN IF bearer \in Users THEN bearer ELSE Nobody
  ELSE IF cookie \in Users THEN cookie ELSE Nobody

Answered(route, user, e) ==
  [route |-> route, user |-> user, cause |-> e, text |-> IF e = Nothing THEN Nothing ELSE Text(route, e)]

Init ==
  /\ spent = [r \in Routes |-> [k \in Trackers |-> 0]]
  /\ granted = [r \in Routes |-> [u \in Users |-> 0]]
  /\ closed = {}
  /\ answer = Answered("open", Nobody, Unreachable)

Refused(route, user, key) ==
  /\ spent[route][key] = Limit[route]
  /\ answer' = Answered(route, user, TooManyRequests)
  /\ UNCHANGED <<spent, granted>>

Passed(route, user, key) ==
  /\ spent[route][key] < Limit[route]
  /\ spent' = [spent EXCEPT ![route][key] = @ + 1]
  /\ granted' = IF user = Nobody THEN granted ELSE [granted EXCEPT ![route][user] = @ + 1]
  /\ answer' = Answered(route, user,
       IF route = "guarded" /\ user \in closed \cup {Nobody} THEN NotSignedIn ELSE Nothing)

\* A request meets the rate limit first and, behind it, JwtAuthGuard.
Call(route, bearer, cookie) ==
  /\ answer.cause # Nothing
  /\ LET user == Principal(bearer, cookie)
         key == Tracker(bearer, cookie)
     IN  Refused(route, user, key) \/ Passed(route, user, key)
  /\ UNCHANGED closed

\* The pipe, the handler or the connection fails.
Fail ==
  /\ answer.cause = Nothing
  /\ \E e \in HandlerFails(answer.route): answer' = Answered(answer.route, answer.user, e)
  /\ UNCHANGED <<spent, granted, closed>>

\* deleteAccount ends the sessions of a user but not the user's tokens.
Close(u) ==
  /\ closed' = closed \cup {u}
  /\ UNCHANGED <<spent, granted, answer>>

\* The window of one counter ends.
WindowEnds(route, key) ==
  /\ spent' = [spent EXCEPT ![route][key] = 0]
  /\ granted' = IF key \in Users THEN [granted EXCEPT ![route][key] = 0] ELSE granted
  /\ UNCHANGED <<closed, answer>>

Next ==
  \/ Fail
  \/ \E r \in Routes, bearer, cookie \in Credentials: Call(r, bearer, cookie)
  \/ \E u \in Users \ closed: Close(u)
  \/ \E r \in Routes, k \in Trackers: spent[r][k] > 0 /\ WindowEnds(r, k)

Spec == Init /\ [][Next]_vars

-----------------------------------------------------------------------------
\* The budget of a signed-in user is the user's own: whichever of header and
\* cookie carries the session, no more than the limit passes in a window, and
\* nobody is turned away for the requests of others.
SpendsOwnBudget ==
  \A r \in Routes, u \in Users:
    /\ granted'[r][u] <= Limit[r]
    /\ answer' # answer /\ answer' = Answered(r, u, TooManyRequests) => granted[r][u] = Limit[r]
BudgetIsPersonal == [][SpendsOwnBudget]_vars

\* The code that names a cause: its own, or that of its kind, never a weaker one.
Key(e) ==
  CASE e = MailNotSent -> "emailSendFailed"
    [] e # MailNotSent /\ e.code # NoCode -> e.code
    [] e = TooManyRequests -> "RATE_LIMIT_EXCEEDED"
    [] e = NotSignedIn -> "UNAUTHORIZED"
    [] e = Invalid -> "VALIDATION_ERROR"
    [] e = FileTooLarge -> "FILE_SIZE_EXCEEDED"
    [] OTHER -> "INTERNAL_ERROR"

\* Whatever guard, pipe, interceptor or handler throws, and through whichever
\* filter, the envelope carries the code of the cause, and of the mail that was
\* not sent the message by which the client is to tell it from other failures.
EnvelopeNamesCause ==
  LET e == answer.cause
  IN  e # Nothing /\ e # Unreachable =>
        IF e = MailNotSent THEN Filtered(e).message = "EMAIL_SEND_FAILED" ELSE Filtered(e).code = Key(e)

\* client.ts: any failure is normalized into the shape of ApiRequestError, so
\* that the user reads the text of what went wrong (see Key).
TextNamesCause == answer.cause # Nothing => answer.text[2] = Key(answer.cause)
=============================================================================
