----------------------------- MODULE ApiClient -----------------------------
(***************************************************************************)
(* lib/api: what a page gets from a call.  A call ends in the data, or is  *)
(* thrown as an ApiError whose kind, status, code and retryable flag decide *)
(* what every page does next.  A response is its HTTP status and the sort  *)
(* of its body; texts, headers and messages are left out.                  *)
(***************************************************************************)
EXTENDS Naturals

CONSTANT None

(* What is left of a body: nothing, a text, one of the two JSON error       *)
(* formats, the data the caller parses, or other JSON.                     *)
Payload == {"empty", "text", "envelope", "detail", "data", "json"}

(* Markup, and JSON that does not parse, both stay text.                   *)
parseResponsePayload(body) ==
  IF body \in {"markup", "broken"} THEN "text" ELSE body

Error(kind, status, code, retryable) ==
  [kind |-> kind, status |-> status, code |-> code, retryable |-> retryable,
   value |-> None]
Data(value) ==
  [kind |-> "data", status |-> 200, code |-> None, retryable |-> FALSE,
   value |-> value]

networkApiError == Error("network", 0, "NETWORK_ERROR", TRUE)
unexpectedApiError == Error("unexpected", 0, "UNEXPECTED_RESPONSE", FALSE)

(* The application's envelope carries a code; FastAPI's 422 a detail list. *)
parseApiError(status, payload, code) ==
  CASE payload = "envelope" -> Error("application", status, code, status >= 500)
    [] payload = "detail" /\ status = 422 ->
         Error("validation", status, "REQUEST_VALIDATION_FAILED", FALSE)
    [] OTHER -> Error("unexpected", status, "UNEXPECTED_RESPONSE", FALSE)

(* A gateway's answer, or a server's without an envelope, tells nothing of *)
(* the application and counts as no answer.                                *)
ThrownAsNetwork(status, payload) ==
  \/ status \in {502, 503, 504}
  \/ status >= 500 /\ payload \in {"text", "empty"}

request(r) ==
  LET payload == parseResponsePayload(r.body)
  IN IF r.status >= 400
     THEN IF ThrownAsNetwork(r.status, payload) THEN networkApiError
          ELSE parseApiError(r.status, payload, r.code)
     ELSE IF payload = "data" THEN Data(r.value) ELSE unexpectedApiError

Response(status, body, code, value) ==
  [status |-> status, body |-> body, code |-> code, value |-> value]
(* The answers of the server: the data asked for, or an ErrorCodeError.    *)
Answered(value) == Response(200, "data", None, value)
Refused(status, code) == Response(status, "envelope", code, None)

(* fetch() may reject; a proxy may answer in the server's place; and the   *)
(* connection may end while the body is read, which request() does not     *)
(* catch and toApiError() then takes for a malformed answer.               *)
fetchResponse == networkApiError
toApiError == unexpectedApiError
Lost == {fetchResponse, toApiError, request(Response(503, "markup", None, None))}

(* What the page may get of a call the server answers with r.              *)
Outcomes(r) == {request(r)} \cup Lost

(* downloadCsv: no JSON is ever saved as the file, and no text is parsed.  *)
downloadCsv(r) ==
  IF r.status \in {502, 503, 504} THEN networkApiError
  ELSE IF r.body = "broken" THEN unexpectedApiError
  ELSE IF r.body \in {"envelope", "detail", "json"}
       THEN parseApiError(r.status, r.body, r.code)
  ELSE IF r.status >= 500 THEN networkApiError
  ELSE IF r.status < 400 /\ r.body = "csv" THEN Data(r.value)
  ELSE unexpectedApiError
=============================================================================
