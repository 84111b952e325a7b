---------------------------- MODULE MCTransport ----------------------------
(***************************************************************************)
(* The reqwest client: a request and its answer, and for an event stream   *)
(* the bytes or the frames of the body that follows; and the cache of the  *)
(* replies.  One of the two is the subject of a behaviour, the other stays *)
(* as it was built.                                                        *)
(***************************************************************************)
EXTENDS Transport, EventStream, CarCache

VARIABLE subject

Id(registry, name) == [registry |-> registry, key |-> name]
Ids == {Id("Base", k) : k \in {"Success", "Created", "NoOperation", "ResetRequired"}}
         \cup {Id("Vendor", "ResetRequired"), Id("Vendor", "Other"), None}
Mess == [id : Ids, severities : {{}, {"OK"}, {"Warning"}, {"Critical"}, {"OK", "Warning"}}]
FewMess == [id : {Id("Base", "NoOperation"), Id("Base", "ResetRequired"), Id("Vendor", "Other")},
            severities : {{}, {"Warning"}}]
Status == [code : Ids, info : {None, NotArray, <<>>} \cup {<<m>> : m \in FewMess}]

Value(fits, id, task, error, success, info) ==
    [fits |-> fits, id |-> id, etag |-> None, task |-> task,
     error |-> error, success |-> success, info |-> info]

\* Bodies that are status or message envelopes.
Envelopes ==
    {Value(FALSE, None, None, None, None, i) :
        i \in {NotArray, <<>>} \cup {<<m>> : m \in Mess} \cup {<<m, n>> : m, n \in Mess}}
    \cup {Value(FALSE, None, None, e, None, i) :
        e \in Status, i \in {None, NotArray} \cup {<<m>> : m \in FewMess}}
    \cup {Value(FALSE, None, None, e, s, None) :
        e \in Status, s \in [code : Ids, info : {None}]}

Answer(status, location, etag, token, body) ==
    [status |-> status, location |-> location, etag |-> etag, token |-> token,
     retryAfter |-> None, body |-> body]

OneMessage(name) == Value(FALSE, None, None, None, None, <<[id |-> Id("Base", name), severities |-> {}]>>)

Bodies ==
    {Empty, NotJson, OneMessage("Success"), OneMessage("Other"),
     Value(TRUE, "thing", None, None, None, None), Value(TRUE, "foreign", None, None, None, None)}
    \cup {Value(FALSE, "thing", t, None, None, None) : t \in {"task", "foreign"}}

MCResponses ==
    [op \in {"get", "poll", "post", "session", "multipart_update", "sse"} |->
        CASE op = "get" -> {Answer(s, None, e, None, b) :
                              s \in {200, 304, 503}, e \in {None, "tag"}, b \in Bodies}
          [] op = "session" -> {Answer(s, l, None, t, b) : s \in {201, 202, 503},
                              l \in {None, "place", "foreign"}, t \in {None, "token"}, b \in Bodies}
          [] op \in {"poll", "post"} -> {Answer(s, l, e, None, b) : s \in {200, 202, 204, 206, 503},
                              l \in {None, "place"} \cup BadLocations, e \in {None, "tag"}, b \in Bodies}
          [] op = "multipart_update" -> {Answer(200, None, None, None, b) : b \in Envelopes}
          [] op = "sse" -> {Answer(s, None, None, None, Empty) : s \in {200, 503}}]

Req(op, streaming, problem, takesReference, reads) ==
    [op |-> op, streaming |-> streaming, problem |-> problem, repairs |-> takesReference,
     takesReference |-> takesReference, polled |-> "monitor", reads |-> reads]

MCRequests ==
    {Req(op, FALSE, None, r, None) : op \in {"get", "poll", "post", "session"}, r \in BOOLEAN}
    \cup {Req("multipart_update", TRUE, e, TRUE, None) : e \in {None, "InvalidRequest", "EncodeError"}}
    \cup {Req("sse", FALSE, e, TRUE, b) : e \in {None, "InvalidRequest"}, b \in {"bytes", "frames"}}

httpVars == <<transportVars, byteVars, frameVars>>

HttpInit ==
    /\ Init /\ TransportInit /\ ByteInit /\ FrameInit
    /\ subject \in {"request", "cache"}
    /\ subject = "cache" => request = Req("get", FALSE, None, FALSE, None)

RequestNext ==
    \/ TransportNext /\ UNCHANGED <<byteVars, frameVars>>
    \/ /\ phase = "stream" /\ request.reads = "bytes"
       /\ ByteNext /\ UNCHANGED <<transportVars, frameVars>>
    \/ /\ phase = "stream" /\ request.reads = "frames"
       /\ FrameNext /\ UNCHANGED <<transportVars, byteVars>>

HttpNext ==
    \/ subject = "request" /\ RequestNext /\ UNCHANGED <<vars, subject>>
    \/ subject = "cache" /\ Next /\ UNCHANGED <<httpVars, subject>>

HttpSpec == HttpInit /\ [][HttpNext]_<<httpVars, vars, subject>>

(* Keys are interchangeable: a state of the cache is viewed as the pattern  *)
(* of its lists, each key standing for the first place where it occurs.     *)
Mentioned ==
    t1 \o t2 \o b1 \o b2 \o <<key, victim>>
    \o IF start = <<>> THEN <<>> ELSE start.t1 \o <<NoKey>> \o start.t2
Marks(k) ==
    <<IF k = NoKey THEN "None" ELSE index[k], k \in ref_bit, start # <<>> /\ k \in start.ref_bit>>
Pattern ==
    [i \in DOMAIN Mentioned |->
        <<CHOOSE j \in 1 .. i : Mentioned[j] = Mentioned[i] /\ \A h \in 1 .. j - 1 : Mentioned[h] # Mentioned[i],
          Marks(Mentioned[i])>>]
Elsewhere == Keys \ Range(Mentioned)
CacheView ==
    <<Len(t1), Len(t2), Len(b1), Len(b2), p, pc, Pattern,
      [m \in {Marks(k) : k \in Elsewhere} |-> Cardinality({k \in Elsewhere : Marks(k) = m})]>>
View == <<httpVars, subject, CacheView>>
=============================================================================
