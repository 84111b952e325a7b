-------------------------- MODULE ResponseDecoding --------------------------
(***************************************************************************)
(* How a response becomes the outcome of a request (bmc-http/response.rs,  *)
(* and the handlers of bmc-http/reqwest.rs that call it).  Pure operators: *)
(* Transport applies them to what the service answers.                     *)
(*                                                                         *)
(* A response is a record                                                  *)
(*   status    the HTTP status code                                        *)
(*   location  what the Location header is: absent, text that is no text,  *)
(*             a reference to the response itself, unresolvable, on        *)
(*             another origin, or a resource of this origin                *)
(*   etag, token, retryAfter   the headers of these names                  *)
(*   body      Empty, NotJson or a JSON value                              *)
(* and a JSON value is a record that keeps of the document only what the   *)
(* code looks at: does it deserialize as the type T of the request, does   *)
(* it have an @odata.id, an @odata.etag, is it a Task and of which origin, *)
(* and the three places that can hold status codes and messages.           *)
(***************************************************************************)
EXTENDS Naturals, SequencesExt

CONSTANTS
    None,      \* Rust's None, an absent or null property or header
    Empty,     \* a body of no bytes
    NotJson,   \* a body serde cannot parse
    NotArray   \* an @Message.ExtendedInfo that is no array

IsSuccess(status) == status \in 200..299

-----------------------------------------------------------------------------
(* Success messages.                                                       *)

SuccessCodes == {"Success", "Created", "NoOperation", "ResetRequired"}

\* What is absent is neither a code nor what stands for another kind of value.
ASSUME AbsentAssumption ==
    None \notin SuccessCodes \cup {"not a success", NotArray}

\* The key counts whatever the registry, except for ResetRequired.
CodeOf(id) ==
    IF \/ id.key \in SuccessCodes \ {"ResetRequired"}
       \/ id.key = "ResetRequired" /\ id.registry = "Base"
    THEN id.key ELSE None

precedence == [c \in SuccessCodes |->
    CASE c = "NoOperation" -> 0 [] c = "Success" -> 1 [] c = "ResetRequired" -> 2 [] c = "Created" -> 3]

Allows(code, severity) ==
    \/ severity = "OK"
    \/ severity = "Warning" /\ code \in {"NoOperation", "ResetRequired"}

\* What status codes and messages name: Names::default().
NoNames == [listed |-> FALSE, code |-> None, no_operation |-> FALSE, other |-> FALSE]

Name(names, code) ==
    [names EXCEPT !.no_operation = @ \/ code = "NoOperation",
                  !.code = IF @ = None \/ precedence[@] < precedence[code] THEN code ELSE @]

Add(names, other) ==
    LET named == IF other.code = None THEN names ELSE Name(names, other.code)
    IN  [named EXCEPT !.no_operation = @ \/ other.no_operation,
                      !.other = @ \/ other.other]

NotSuccess == [NoNames EXCEPT !.other = TRUE, !.code = "not a success"]

Message(names, message) ==
    IF names = NotSuccess \/ "Critical" \in message.severities \/ message.id = None
    THEN NotSuccess
    ELSE LET code == CodeOf(message.id) IN
         IF code = None THEN [names EXCEPT !.other = TRUE]
         ELSE [Name(names, code) EXCEPT
                 !.other = @ \/ \E s \in message.severities : ~Allows(code, s)]

\* What the first n messages of a list name.
Reading(info) ==
    LET read[n \in 0 .. Len(info)] ==
            IF n = 0 THEN [NoNames EXCEPT !.listed = TRUE] ELSE Message(read[n - 1], info[n])
    IN  read

Messages(info) ==
    CASE info = None -> NoNames
      [] info = NotArray -> NotSuccess
      [] OTHER -> Reading(info)[Len(info)]

NoReport == [code |-> None, qualified |-> FALSE]

\* The status objects a body has.
Statuses(value) == {value.error, value.success} \ {None}
NameStatus(names, status) == IF status = None THEN names ELSE Name(names, CodeOf(status.code))
AddStatus(names, status) == IF status = None THEN names ELSE Add(names, Messages(status.info))

\* Messages or a status object without a code that is a success make the body no success.
IsFailure(value) ==
    \/ Messages(value.info) = NotSuccess
    \/ \E s \in Statuses(value) :
          Messages(s.info) = NotSuccess \/ s.code = None \/ CodeOf(s.code) = None

Report(value) ==
    LET body == Messages(value.info)
        codes == NameStatus(NameStatus(NoNames, value.error), value.success)
        named == Add(AddStatus(AddStatus(body, value.error), value.success), codes)
        code == IF codes.code # None THEN codes.code ELSE body.code
        mixed == IF code = "NoOperation" THEN named.code # "NoOperation" ELSE named.no_operation
    IN  IF IsFailure(value) \/ (codes.code = None /\ ~body.listed) THEN NoReport
        ELSE [code |-> IF code = None THEN "Success" ELSE code,
              qualified |-> code = None \/ named.other \/ mixed]

success_code(value) == Report(value).code

strict_success_code(value) ==
    IF Report(value).qualified THEN None ELSE Report(value).code

IsMessageEnvelope(value) == \E p \in {value.error, value.success, value.info} : p # None

-----------------------------------------------------------------------------
(* Headers and the outcome of a modification.                              *)

Failed(error) == [is |-> "Err", error |-> error]

\* The Location header: None, a resource of the response's origin, or an error.
BadLocations == {"not text", "self", "unresolvable", "foreign"}
LocationOf(response) == response.location
IsBad(location) == location \in BadLocations

\* The Task that a body represents, if its @odata.id stays on this origin.
TaskFromBody(body) ==
    IF body \in {Empty, NotJson} \/ body.task \in BadLocations THEN None ELSE body.task

EtagFromHeaders(response) == response.etag

InjectEtag(etag, value) == IF etag = None THEN value ELSE [value EXCEPT !.etag = etag]

Entity(value) == [is |-> "Entity", of |-> value.id, etag |-> value.etag]

\* A T that is only a reference to a resource, when T accepts one.
EntityReference(location) == [is |-> "Entity", of |-> location, etag |-> None]

Task(location, response) ==
    [is |-> "Task", location |-> location, retry_after |-> response.retryAfter,
     task |-> TaskFromBody(response.body)]

\* A 202: the task monitor that Location names, else the Task of the body.
Accepted(response) ==
    LET location == LocationOf(response)
        task == TaskFromBody(response.body)
    IN  IF IsBad(location) \/ (location = None /\ task = None) THEN Failed("InvalidResponse")
        ELSE Task(IF location # None THEN location ELSE task, response)

\* A 200 or 201 whose body is a JSON value.
Representation(response, takesReference) ==
    LET value == IF response.body.id = None THEN response.body
                 ELSE InjectEtag(EtagFromHeaders(response), response.body)
        location == LocationOf(response)
    IN  CASE value.fits -> Entity(value)
          [] ~value.fits /\ success_code(value) # None ->
               CASE IsBad(location) -> Failed("InvalidResponse")
                 [] location = None \/ (~IsBad(location) /\ ~takesReference) ->
                      [is |-> "Message", report |-> Report(value)]
                 [] OTHER -> EntityReference(location)
          [] ~value.fits /\ success_code(value) = None /\ IsMessageEnvelope(value) ->
               Failed("InvalidResponse")
          [] OTHER -> Failed("JsonError")

\* An empty 200 or 201, and a finished poll without content.
Referred(response, takesReference) ==
    LET location == LocationOf(response) IN
    CASE IsBad(location) -> Failed("InvalidResponse")
      [] location = None -> [is |-> "Empty"]
      [] OTHER -> IF takesReference THEN EntityReference(location) ELSE Failed("JsonError")

decode_modification(response, takesReference) ==
    CASE ~IsSuccess(response.status) -> Failed("InvalidResponse")
      [] response.status = 204 -> [is |-> "Empty"]
      [] response.status = 202 -> Accepted(response)
      [] response.status \in {200, 201} /\ response.body = Empty -> Referred(response, takesReference)
      [] response.status \in {200, 201} /\ response.body = NotJson -> Failed("DecodeError")
      [] response.status \in {200, 201} /\ response.body \notin {Empty, NotJson} ->
           Representation(response, takesReference)
      [] OTHER -> Failed("InvalidResponse")

\* Mutant: a pending answer without a Location has to name its Task.
decode_poll_anew(response, takesReference, polled) ==
    IF response.status = 204 THEN Referred(response, takesReference)
    ELSE decode_modification(response, takesReference)

\* Polling: a pending answer without a Location stays at the polled URI.
decode_poll(response, takesReference, polled) ==
    CASE response.status = 202 ->
           IF IsBad(LocationOf(response)) THEN Failed("InvalidResponse")
           ELSE Task(IF LocationOf(response) = None THEN polled ELSE LocationOf(response), response)
      [] response.status = 204 -> Referred(response, takesReference)
      [] OTHER -> decode_modification(response, takesReference)

-----------------------------------------------------------------------------
(* The handlers of the reqwest client.                                     *)

\* A GET: repaired, then the header's ETag goes in, then deserialized.
\* repairs says that the repair makes a document of T of one that is not.
handle_response(response, repairs) ==
    CASE ~IsSuccess(response.status) ->
           Failed(IF response.status = 304 THEN "NotModified" ELSE "InvalidResponse")
      [] IsSuccess(response.status) /\ response.body \in {Empty, NotJson} -> Failed("DecodeError")
      [] OTHER -> LET value == InjectEtag(EtagFromHeaders(response), response.body) IN
                  IF value.fits \/ repairs THEN Entity(value) ELSE Failed("JsonError")

\* The body as the modification handlers read it: nothing is read of a 204,
\* and of a 202 a body that fails to arrive is an empty one.
successful_response(response) ==
    IF response.status = 204 THEN [response EXCEPT !.body = Empty] ELSE response

\* The token and the place to delete the session are checked before the body.
SessionReadsBody(response) ==
    /\ response.status \in {200, 201}
    /\ response.token # None
    /\ ~IsBad(LocationOf(response)) /\ LocationOf(response) # None

handle_session_response(response) ==
    CASE ~SessionReadsBody(response) \/ response.body = Empty -> Failed("InvalidResponse")
      [] OTHER -> IF response.body = NotJson THEN Failed("DecodeError")
                  ELSE LET value == InjectEtag(EtagFromHeaders(response), response.body) IN
                       IF value.fits
                       THEN [is |-> "Session", of |-> value.id, etag |-> value.etag,
                             auth_token |-> response.token, location |-> LocationOf(response)]
                       ELSE Failed("JsonError")

\* BmcError::error_class, and what RepairError::from_transport tells apart.
ErrorClass(error) ==
    CASE error \in {"InvalidResponse", "NotModified"} -> "HttpResponse"
      [] error \in {"JsonError", "DecodeError"} -> "ResponseParse"
      [] error = "ReqwestError" -> "Transport"
      [] OTHER -> "Other"

IsCached(error) == error = "NotModified"
FromTransport(error) == IF error = "JsonError" THEN "Decode" ELSE "Transport"
=============================================================================
