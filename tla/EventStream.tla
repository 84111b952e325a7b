---------------------------- MODULE EventStream ----------------------------
(***************************************************************************)
(* Server-sent events (bmc-http/reqwest.rs).  Two layers: the adapter that *)
(* bounds the bytes of an event before the decoder (cap_event_bytes), over *)
(* a byte alphabet of CR, LF and everything else; and the frames that the  *)
(* decoder, an external crate, makes of them: ids are tracked across       *)
(* frames, data is decoded, errors end the stream or do not, and a         *)
(* consumer that reopens the stream hands back the last id it was given.   *)
(***************************************************************************)
EXTENDS Integers, FiniteSets, Sequences

CONSTANTS
    Limit,      \* SseOptions::max_event_bytes
    HasIdle,    \* is SseOptions::idle_timeout set
    MaxBytes,   \* bound: bytes read from one body
    MaxEvents   \* bound: events the service produces

ASSUME EventStreamAssumption ==
    /\ Limit \in Nat
    /\ HasIdle \in BOOLEAN
    /\ {MaxBytes, MaxEvents} \subseteq Nat

VARIABLES
    raw,      \* history: the bytes read so far
    count,    \* bytes of the event that has not ended
    delim,    \* DelimiterState
    tooLarge  \* the adapter has failed with EventTooLarge

byteVars == <<raw, count, delim, tooLarge>>

Bytes == {"cr", "lf", "x"}

ByteInit == raw = <<>> /\ count = 0 /\ delim = "LineStart" /\ tooLarge = FALSE

\* A CR on an empty line has ended the record unless an LF follows.
AtBoundary(b) == delim = "BoundaryCr" /\ b # "lf"
StateAt(b) == IF AtBoundary(b) THEN "LineStart" ELSE delim
CountAt(b) == IF AtBoundary(b) THEN 0 ELSE count

\* Mutant: a CR after a line is data of the next one until its LF comes.
NextDelimiterLfOnly(state, b) ==
    CASE state = "LineStart" /\ b = "cr" -> "BoundaryCr"
      [] state \in {"LineStart", "BoundaryCr"} /\ b = "lf" -> "LineStart"
      [] state \in {"Data", "Cr"} /\ b = "cr" -> "Cr"
      [] state \in {"Data", "Cr"} /\ b = "lf" -> "LineStart"
      [] OTHER -> "Data"

NextDelimiter(state, b) ==
    CASE state \in {"LineStart", "Cr"} /\ b = "cr" -> "BoundaryCr"
      [] state \in {"LineStart", "BoundaryCr"} /\ b = "lf" -> "LineStart"
      [] state = "Data" /\ b = "cr" -> "Cr"
      [] state \in {"Data", "Cr"} /\ b = "lf" -> "LineStart"
      [] OTHER -> "Data"

EndsRecord(state, b) == state \in {"LineStart", "BoundaryCr"} /\ b = "lf"

CapEventBytes(b) ==
    /\ ~tooLarge /\ Len(raw) < MaxBytes
    /\ raw' = Append(raw, b)
    /\ IF CountAt(b) >= Limit
       THEN tooLarge' = TRUE /\ count' = CountAt(b) /\ delim' = StateAt(b)
       ELSE /\ count' = IF EndsRecord(StateAt(b), b) THEN 0 ELSE CountAt(b) + 1
            /\ delim' = NextDelimiter(StateAt(b), b)
            /\ UNCHANGED tooLarge

ByteNext == \E b \in Bytes : CapEventBytes(b)

-----------------------------------------------------------------------------
VARIABLES
    log,       \* the events of the service: their id field and their data
    stream,    \* closed, open, or fatal: an error was returned, the end is next
    pos,       \* events of the log that this connection has sent
    last,      \* the id in effect on this stream (an event number, or 0)
    resume,    \* the id on the last event the consumer was given, or 0
    lastItem,  \* history: the last event the consumer was given, or 0
    received   \* history: events whose frames this connection has delivered, and
               \* those that the id it resumed after stands for

frameVars == <<log, stream, pos, last, resume, lastItem, received>>

Frames == [id : {"own", "none", "nul", "empty"}, data : {"ok", "bad", "none"}]

FrameInit ==
    /\ log = <<>> /\ stream = "closed"
    /\ pos = 0 /\ last = 0 /\ resume = 0 /\ lastItem = 0 /\ received = {}

\* External: the service has a new event.
Produce(frame) ==
    /\ Len(log) < MaxEvents
    /\ log' = Append(log, frame)
    /\ UNCHANGED <<stream, pos, last, resume, lastItem, received>>

\* Mutant: the id sent to resume is not in effect on the new stream.
StartsWithoutId(id) == 0

\* The id in effect when a stream is opened to resume after an event.
InEffectOnOpen(id) == id

\* sse_events: with an id the service replays what came after it; without one
\* it starts at its live position.  The consumer is external.
SseEvents ==
    /\ stream = "closed"
    /\ stream' = "open"
    /\ last' = InEffectOnOpen(resume)
    /\ pos' = IF resume # 0 THEN resume ELSE Len(log)
    /\ received' = {n \in received : n <= resume}
    /\ UNCHANGED <<log, resume, lastItem>>

\* event_to_item: an id field sets the id, an empty one clears it, one with a
\* NUL is ignored.
IdAfter(frame, n) ==
    CASE frame.id = "own" -> n [] frame.id = "empty" -> 0 [] OTHER -> last

\* decode_frame: a frame without data is no item, one whose data does not
\* decode is an error item that does not end the stream.
EventToItem ==
    LET n == pos + 1
        frame == log[n]
    IN  /\ stream = "open" /\ pos < Len(log)
        /\ pos' = n
        /\ last' = IdAfter(frame, n)
        /\ received' = received \cup {n}
        /\ IF frame.data = "ok" THEN resume' = IdAfter(frame, n) /\ lastItem' = n
                                ELSE UNCHANGED <<resume, lastItem>>
        /\ UNCHANGED <<log, stream>>

\* A transport error, an event that is too large: map_sse_error; fatal.
StreamBreaks ==
    /\ stream = "open"
    /\ stream' = "fatal"
    /\ UNCHANGED <<log, pos, last, resume, lastItem, received>>

\* No frame within the idle window, which only frames reset.
SseIdleTimeout ==
    /\ HasIdle /\ stream = "open" /\ pos = Len(log)
    /\ stream' = "fatal"
    /\ UNCHANGED <<log, pos, last, resume, lastItem, received>>

\* After a fatal error, or when the service is done, the stream ends.
StreamEnds ==
    /\ stream \in {"open", "fatal"}
    /\ stream' = "closed"
    /\ UNCHANGED <<log, pos, last, resume, lastItem, received>>

FrameNext ==
    \/ \E frame \in Frames : Produce(frame)
    \/ SseEvents \/ EventToItem \/ StreamBreaks \/ SseIdleTimeout \/ StreamEnds

-----------------------------------------------------------------------------
(* Properties.                                                             *)

\* Reference: a line ends at a CRLF, an LF or a CR without an LF; a record ends
\* with the terminator of an empty line.  LineEnds are the positions of the
\* last byte of each terminator, RecordEnds those that end a record.
LineEnds(s) == {i \in DOMAIN s : \/ s[i] = "lf"
                                 \/ s[i] = "cr" /\ (i = Len(s) \/ s[i + 1] # "lf")}
StartOfTerminator(s, i) == IF s[i] = "lf" /\ i > 1 /\ s[i - 1] = "cr" THEN i - 1 ELSE i
RecordEnds(s) ==
    {i \in LineEnds(s) : LET b == StartOfTerminator(s, i) IN b = 1 \/ b - 1 \in LineEnds(s)}
RecordSize(s, i) ==
    Cardinality({j \in 1..i : \A e \in RecordEnds(SubSeq(s, 1, i)) : e < i => j > e})

\* The byte budget is exact: the adapter fails at the first byte that makes a
\* record, with the blank line that ends it, larger than the limit, however the
\* lines end, and never before (cap_event_bytes).
CapExact ==
    tooLarge <=> \E i \in DOMAIN raw : RecordSize(raw, i) > Limit

\* The id to resume after: of the frames up to the last event the consumer was
\* given, the last one that set or cleared the id decides, over any number of
\* broken and reopened streams, also when the frames since the resumption carry
\* none.  So reopening never skips an event while an id is in effect
\* (event_to_item, sse_events).
ResumesAfterLastItem ==
    stream # "closed" /\ lastItem \in received =>
    LET deciding == {n \in received : n <= lastItem /\ log[n].id \in {"own", "empty"}}
        latest == CHOOSE n \in deciding : \A m \in deciding : m <= n
    IN  resume = IF deciding = {} \/ log[latest].id = "empty" THEN 0 ELSE latest
=============================================================================
