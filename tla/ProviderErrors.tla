---------------------------- MODULE ProviderErrors ----------------------------
(***************************************************************************)
(* What a request answers when the model provider fails.  The SDK's error  *)
(* reaches the server inside layers that LangChain wraps around it; the    *)
(* layers are a sequence here, the outermost first, each the cause of the  *)
(* one before it.                                                          *)
(***************************************************************************)
EXTENDS Integers, Sequences, FiniteSetsExt

\* A layer that carries no HTTP status, or whose message does not lead with one.
NoStatus == 0

(* Own status, status its message leads with, a name RateLimit..., and     *)
(* overloaded_error in its body or message.                                *)
Layer == [status : Nat, text : Nat, limited : BOOLEAN, overloaded : BOOLEAN]

(* What a layer without a status of its own gives away. *)
Hint(layer) == IF layer.limited THEN 429 ELSE layer.text

(* The layers readStatus looks into. *)
Read(error) == SubSeq(error, 1, IF Len(error) < 4 THEN Len(error) ELSE 4)

\* Mutant: a layer's own name and message come before its cause.
ReadStatusOutermost(error) ==
    LET layers == Read(error)
        telling == {i \in DOMAIN layers :
                        layers[i].status # NoStatus \/ Hint(layers[i]) # NoStatus}
        layer == layers[Min(telling)]
    IN  CASE telling = {} -> NoStatus
          [] OTHER -> IF layer.status # NoStatus THEN layer.status ELSE Hint(layer)

(* readStatus: the outermost status; without any, the innermost hint.      *)
ReadStatus(error) ==
    LET layers == Read(error)
        known == {i \in DOMAIN layers : layers[i].status # NoStatus}
        hinted == {i \in DOMAIN layers : Hint(layers[i]) # NoStatus}
    IN  CASE known # {} -> layers[Min(known)].status
          [] known = {} /\ hinted # {} -> Hint(layers[Max(hinted)])
          [] OTHER -> NoStatus

(* normalizeProviderError, of an error that is not one of its own yet.     *)
NormalizeProviderError(error) ==
    LET status == ReadStatus(error)
    IN  CASE status \in {401, 403} -> "PROVIDER_AUTH_FAILED"
          [] status = 404 -> "PROVIDER_MODEL_UNAVAILABLE"
          [] status = 429 -> "PROVIDER_RATE_LIMITED"
          [] status >= 500 -> "PROVIDER_UNAVAILABLE"
          [] OTHER -> IF error[1].overloaded THEN "PROVIDER_UNAVAILABLE" ELSE "PROVIDER_ERROR"

(* PROVIDER_STATUS and toAppError: the HTTP status of an answer.           *)
HttpStatus ==
    [chat |-> 200, generation |-> 200,
     REVISION_CONFLICT |-> 409, GENERATION_INVALID |-> 422,
     PROVIDER_RATE_LIMITED |-> 429, PROVIDER_UNAVAILABLE |-> 503,
     PROVIDER_MODEL_UNAVAILABLE |-> 502, PROVIDER_OUTPUT_INVALID |-> 502,
     PROVIDER_AUTH_FAILED |-> 502, PROVIDER_ERROR |-> 502]
=============================================================================
