----------------------------- MODULE Transport -----------------------------
(***************************************************************************)
(* One request of the reqwest client (bmc-http/reqwest.rs): it is built,   *)
(* sent, redirected within its origin, retried while the policy says so,   *)
(* and its last answer is decoded.  The service and the network are        *)
(* external: they may answer anything, redirect anywhere and fail.         *)
(***************************************************************************)
EXTENDS ResponseDecoding

CONSTANTS
    Requests,      \* the requests a caller may make
    Responses,     \* the responses the service may give to each operation
    MaxRetries,    \* RetryPolicy::max_retries; None without a policy
    MaxRedirects   \* ClientParams::max_redirects

ASSUME TransportAssumption ==
    /\ MaxRetries \in Nat \cup {None}
    /\ MaxRedirects \in Nat

\* A message list, a JSON value and an answer, as far as the code looks at them; no URI is
\* named like a kind of unusable Location.
IsInfo(info) ==
    info \in {None, NotArray} \/ (Len(info) \in Nat /\ DOMAIN info = 1 .. Len(info))
IsValue(v) ==
    /\ v = [fits |-> v.fits, id |-> v.id, etag |-> v.etag, task |-> v.task, error |-> v.error,
            success |-> v.success, info |-> v.info]
    /\ IsInfo(v.info) /\ \A s \in Statuses(v) : IsInfo(s.info)
IsAnswer(a) ==
    /\ a = [status |-> a.status, location |-> a.location, etag |-> a.etag, token |-> a.token,
            retryAfter |-> a.retryAfter, body |-> a.body]
    /\ a.body \in {Empty, NotJson} \/ IsValue(a.body)
ASSUME AnswerAssumption ==
    /\ None \notin BadLocations
    /\ \A r \in Requests :
          /\ r.polled \notin BadLocations \cup {None}
          /\ \A a \in Responses[r.op] : IsAnswer(a)

VARIABLES
    request,   \* the request
    phase,     \* build, send, classify, sleep, stream or done
    attempt,   \* attempts beyond the first
    hops,      \* redirects followed in this attempt
    wire,      \* history: where the request was sent, in order
    response,  \* the response that is being looked at
    outcome    \* what the caller gets, when done

transportVars == <<request, phase, attempt, hops, wire, response, outcome>>

Home == "home"       \* the origin of the BMC endpoint
Foreign == "foreign" \* any other origin

Modifications == {"post", "patch", "delete", "multipart_update", "http_push_uri_update"}

TransportInit ==
    /\ request \in Requests
    /\ phase = "build"
    /\ attempt = 0
    /\ hops = 0
    /\ wire = <<>>
    /\ response = None
    /\ outcome = None

Done(result) == phase' = "done" /\ outcome' = result

\* Multipart uploads check the names of their OEM parts and encode their
\* parameters, streams check the Last-Event-ID, before anything is sent.
\* Basic or token authentication is attached, except to session creation.
Build ==
    /\ phase = "build"
    /\ IF request.problem # None
       THEN Done(Failed(request.problem)) /\ UNCHANGED wire
       ELSE /\ phase' = "send"
            /\ wire' = Append(wire, [origin |-> Home, authenticated |-> request.op # "session"])
            /\ UNCHANGED outcome
    /\ UNCHANGED <<request, attempt, hops, response>>

\* reqwest reports a connection that failed, or a timeout; it is never retried.
ExecuteFails ==
    /\ phase = "send"
    /\ Done(Failed("ReqwestError"))
    /\ UNCHANGED <<request, attempt, hops, wire, response>>

\* same_origin_redirect_policy around RedirectPolicy::limited.
SameOriginRedirectPolicy(origin) == origin = Home /\ hops < MaxRedirects

Redirected(origin) ==
    /\ phase = "send"
    /\ IF SameOriginRedirectPolicy(origin)
       THEN /\ hops' = hops + 1
            /\ wire' = Append(wire, [origin |-> origin, authenticated |-> request.op # "session"])
            /\ UNCHANGED <<phase, outcome>>
       ELSE Done(Failed("ReqwestError")) /\ UNCHANGED <<hops, wire>>
    /\ UNCHANGED <<request, attempt, response>>

Answered(answer) ==
    /\ phase = "send"
    /\ response' = answer
    /\ phase' = "classify"
    /\ UNCHANGED <<request, attempt, hops, wire, outcome>>

\* Mutant: the clone is taken for granted.
HasNextAlways == MaxRetries # None /\ attempt < MaxRetries

\* There is a clone to send again: retries are left, and the body is no stream.
HasNext == MaxRetries # None /\ attempt < MaxRetries /\ ~request.streaming

\* The classifier is the user's; the delay may be none.
Retry(delayed) ==
    /\ phase = "classify"
    /\ HasNext
    /\ attempt' = attempt + 1
    /\ hops' = 0
    /\ phase' = IF delayed THEN "sleep" ELSE "send"
    /\ wire' = IF delayed THEN wire
               ELSE Append(wire, [origin |-> Home, authenticated |-> request.op # "session"])
    /\ response' = None
    /\ UNCHANGED <<request, outcome>>

Wake ==
    /\ phase = "sleep"
    /\ phase' = "send"
    /\ wire' = Append(wire, [origin |-> Home, authenticated |-> request.op # "session"])
    /\ UNCHANGED <<request, attempt, hops, response, outcome>>

\* What the handler of the operation makes of the response.
Decoded(answer) ==
    CASE request.op = "get" -> handle_response(answer, request.repairs)
      [] request.op = "poll" -> IF IsSuccess(answer.status)
            THEN decode_poll(successful_response(answer), request.takesReference, request.polled)
            ELSE Failed("InvalidResponse")
      [] request.op = "session" -> handle_session_response(answer)
      [] OTHER -> decode_modification(successful_response(answer), request.takesReference)

Finish ==
    /\ phase = "classify"
    /\ request.op # "sse"
    /\ Done(Decoded(response))
    /\ UNCHANGED <<request, attempt, hops, wire, response>>

\* The body of a successful answer breaks off.  A 204 has none to read, a 202
\* does without.
BodyFails ==
    /\ phase = "classify"
    /\ request.op # "sse"
    /\ IsSuccess(response.status)
    /\ request.op \in {"get", "session"} \/ response.status \notin {202, 204}
    /\ request.op = "session" => SessionReadsBody(response)
    /\ Done(Failed("ReqwestError"))
    /\ UNCHANGED <<request, attempt, hops, wire, response>>

AcceptedBodyFails ==
    /\ phase = "classify"
    /\ request.op \in Modifications \cup {"poll"}
    /\ response.status = 202
    /\ Done(Decoded([response EXCEPT !.body = Empty]))
    /\ UNCHANGED <<request, attempt, hops, wire, response>>

\* An event stream: EventStream goes on with the body.
OpenStream ==
    /\ phase = "classify"
    /\ request.op = "sse"
    /\ IF IsSuccess(response.status) THEN phase' = "stream" /\ UNCHANGED outcome
                                     ELSE Done(Failed("InvalidResponse"))
    /\ UNCHANGED <<request, attempt, hops, wire, response>>

TransportNext ==
    \/ Build \/ ExecuteFails \/ Wake \/ Finish \/ BodyFails \/ AcceptedBodyFails \/ OpenStream
    \/ \E origin \in {Home, Foreign} : Redirected(origin)
    \/ \E answer \in Responses[request.op] : Answered(answer)
    \/ \E delayed \in BOOLEAN : Retry(delayed)

-----------------------------------------------------------------------------
(* Properties.                                                             *)

\* However often the service redirects and the policy retries, a request
\* reaches the wire at most once per attempt and redirect allowed, in a single
\* attempt if its body is a stream, and only ever on the origin of the BMC.
WireBounded ==
    /\ \A i \in DOMAIN wire : wire[i].origin = Home
    /\ Len(wire) <= (1 + MaxRedirects)
         * (IF MaxRetries = None \/ request.streaming THEN 1 ELSE 1 + MaxRetries)

\* The documented reading of a success message (the comments on success_code
\* and strict_success_code), stated over the sets of what a body contains
\* instead of over the order in which report() folds it: a status object
\* decides, otherwise the messages; a Critical or nameless message spoils
\* everything; strict wants the outcome named, admits no other message, no
\* severity above the registry's, and no NoOperation beside Success or Created.
Infos(value) == {value.info} \cup {s.info : s \in {value.error, value.success} \ {None}}
AllMessages(value) ==
    UNION {{info[i] : i \in DOMAIN info} : info \in Infos(value) \ {None, NotArray}}
StatusCodes(value) ==
    {IF s.code = None THEN None ELSE CodeOf(s.code) : s \in {value.error, value.success} \ {None}}
MessageCodes(messages) == {CodeOf(m.id) : m \in messages} \ {None}
Worthiest(codes) == CHOOSE c \in codes : \A d \in codes : precedence[d] <= precedence[c]

DocumentedCode(value) ==
    IF \/ NotArray \in Infos(value) \/ None \in StatusCodes(value)
       \/ \E m \in AllMessages(value) : m.id = None \/ "Critical" \in m.severities
       \/ StatusCodes(value) = {} /\ value.info = None
    THEN None
    ELSE LET own == MessageCodes({value.info[i] : i \in DOMAIN value.info}) IN
         IF StatusCodes(value) # {} THEN Worthiest(StatusCodes(value))
         ELSE IF own # {} THEN Worthiest(own) ELSE "Success"

NamedCodes(value) == StatusCodes(value) \cup MessageCodes(AllMessages(value))
DocumentedStrict(value) ==
    IF /\ DocumentedCode(value) # None
       /\ DocumentedCode(value) \in NamedCodes(value)
       /\ \A m \in AllMessages(value) :
            CodeOf(m.id) # None /\ \A s \in m.severities : Allows(CodeOf(m.id), s)
       /\ "NoOperation" \in NamedCodes(value)
             => NamedCodes(value) \cap {"Success", "Created"} = {}
    THEN DocumentedCode(value) ELSE None

HasDocument == response # None /\ response.body \notin {Empty, NotJson}

\* Both readings are the documented ones, but for one body: the strict reading
\* also turns down NoOperation beside ResetRequired, which its comment allows.
AsksResetForNothing(value) ==
    DocumentedCode(value) # None /\ {"NoOperation", "ResetRequired"} \subseteq NamedCodes(value)
MessagesReadAsDocumented ==
    HasDocument =>
        /\ success_code(response.body) = DocumentedCode(response.body)
        /\ strict_success_code(response.body) =
              IF AsksResetForNothing(response.body) THEN None
              ELSE DocumentedStrict(response.body)

\* What a caller follows after a modification or a poll: every URI that the
\* client itself puts in an outcome, of a task or a reference, is one of the
\* BMC's origin (a document that is the requested representation is handed on
\* with the id the service gave it, which nothing checks); an operation that
\* the service accepted and that can be polled is never lost; and a Location
\* header that nobody needs does not turn a usable answer into an error.
IsRepresentation(answer, id) ==
    /\ answer.status \in {200, 201} /\ answer.body \notin {Empty, NotJson}
    /\ answer.body.fits /\ answer.body.id = id
Followable ==
    phase = "done" /\ response # None /\ request.op \in Modifications \cup {"poll"} =>
        /\ outcome.is = "Task" => outcome.location \notin BadLocations \cup {None}
        /\ outcome.is = "Entity" =>
              outcome.of \notin BadLocations \/ IsRepresentation(response, outcome.of)
        /\ (response.status = 202 /\ response.location = None /\ request.op = "poll"
              /\ outcome # Failed("ReqwestError")) => outcome.is = "Task"
        /\ (response.status \in {200, 201} /\ response.body \notin {Empty, NotJson}
              /\ outcome # Failed("ReqwestError") /\ response.body.fits) => outcome.is = "Entity"
        /\ outcome.is # "Err" => IsSuccess(response.status)

\* An answer is decoded faithfully: a body of messages means what they say,
\* and what the caller is given to follow can be followed (response.rs).
DecodedFaithfully == MessagesReadAsDocumented /\ Followable
=============================================================================
