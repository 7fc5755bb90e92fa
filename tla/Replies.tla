------------------------------- MODULE Replies -------------------------------
(* From an answer of the exchange to the error, the outcome and the receipt   *)
(* of a send: internal/rest/client.go, internal/lterr/errors.go and the end   *)
(* of engine.go.                                                              *)
(*                                                                            *)
(* An answer over REST has a status, an envelope code and a hash; 0 is an     *)
(* absent code.  An answer over the WebSocket has the same envelope at the    *)
(* top or under data, or an error object.                                     *)
EXTENDS Integers, Sequences

CodeOK == 200
CodeInvalidNonce == 21104
CodeNonIncreasingNonce == 21105
MissingOrderCodes == {21600, 21700, 21707, 21709, 21715}
RateLimitCodes == {23000, 23001, 23002, 23003, 23004, 30009, 30010, 21506}

NoError == [kind |-> "none", status |-> 0, code |-> 0]
Failure(kind, status, code) == [kind |-> kind, status |-> status, code |-> code]
-----------------------------------------------------------------------------
(* Classification *)

Invalid(code) ==
  \/ code \in (21500..21516) \cup (21600..21626) \cup (21700..21706) \cup (60000..69999)
  \/ code \in {21710, 21711, 21713, 21714, 21727, 21728, 21729, 21741, 21742, 21743, 21744, 21745}

MapHTTPStatus(status) ==
  CASE status \in {429, 405} -> "RateLimit"
    [] status \in {401, 403} -> "Auth"
    [] status >= 500 -> "Network"
    [] status \in 400..499 \ {401, 403, 405, 429} -> "InvalidRequest"
    [] OTHER -> "Unknown"

\* The status decides before the code when it is about rate or authorisation,
\* and after it otherwise.
MapCode(status, code) ==
  IF status \in {429, 405} \/ code \in RateLimitCodes THEN "RateLimit"
  ELSE IF status \in {401, 403} \/ code \in (21100..21110) \cup {21120, 21121} THEN "Auth"
  ELSE IF Invalid(code) THEN "InvalidRequest"
  ELSE IF code \in 21700..21745 THEN "Exchange"
  ELSE IF status >= 500 THEN "Network"
  ELSE IF code \notin {0, CodeOK} THEN "Exchange"
  ELSE IF status >= 400 THEN "InvalidRequest"
  ELSE "Unknown"

FromExchange(status, code) == Failure(MapCode(status, code), status, code)
IsNonceError(e) == e.code \in {CodeInvalidNonce, CodeNonIncreasingNonce}
IsMissingOrder(e) == e.code \in MissingOrderCodes
-----------------------------------------------------------------------------
(* REST *)

\* rest.Client.do: the fate of the request is that it was lost, that the body
\* was cut, or that it was answered.
do(a) ==
  CASE a.fate = "lost" -> Failure("Network", 0, 0)
    [] a.fate = "cut" -> Failure("Network", a.status, 0)
    [] a.fate = "answered" /\ a.status # 200 /\ a.code # 0 -> FromExchange(a.status, a.code)
    [] a.fate = "answered" /\ a.status # 200 /\ a.code = 0 ->
         Failure(MapHTTPStatus(a.status), a.status, 0)
    [] a.fate = "answered" /\ a.status = 200 ->
         IF a.code \in {0, CodeOK} THEN NoError ELSE FromExchange(200, a.code)

\* A body that is no JSON is an error without a code.
decodeReceipt(body) ==
  IF ~body.json THEN Failure("Unknown", 0, 0)
  ELSE IF body.code \notin {0, CodeOK} THEN FromExchange(200, body.code)
  ELSE NoError

PostForm(a) == IF do(a) = NoError THEN decodeReceipt(a) ELSE do(a)
-----------------------------------------------------------------------------
(* WebSocket *)

\* The envelope is under data when that has a code or a hash of its own.
Payload(a) == IF a.data.code # 0 \/ a.data.hash = "string" THEN a.data ELSE a.top
postWS(a) ==
  CASE a.fate # "answered" -> Failure("Network", 0, 0)
    [] a.fate = "answered" /\ a.error # 0 -> FromExchange(0, a.error)
    [] a.fate = "answered" /\ a.error = 0 -> decodeReceipt(Payload(a))
-----------------------------------------------------------------------------
(* The verdict *)

outcomeOfStatus(e) ==
  CASE e = NoError -> "Accepted"
    [] e # NoError /\ IsNonceError(e) -> "NonceError"
    [] e # NoError /\ ~IsNonceError(e) ->
         IF e.code # 0 \/ e.status # 0 \/ e.kind = "InvalidRequest" THEN "Rejected" ELSE "Unknown"
outcomeOf(e) ==
  CASE e = NoError -> "Accepted"
    [] e # NoError /\ IsNonceError(e) -> "NonceError"
    [] e # NoError /\ ~IsNonceError(e) ->
         IF e.code # 0 \/ e.status \in {429, 405} \/ e.kind = "InvalidRequest"
         THEN "Rejected" ELSE "Unknown"

\* The hash of the receipt: the exchange's, or the one computed when it sent
\* none of the expected form (a string for a send, a list for a batch).
HashOf(body, batch) == IF body.hash = (IF batch THEN "list" ELSE "string") THEN "theirs" ELSE "ours"

\* The status the rate limiter is told.
statusOf(e) == IF e = NoError THEN 200 ELSE e.status
=============================================================================
