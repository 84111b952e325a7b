---------------------------- MODULE RedfishProofs ----------------------------
(***************************************************************************)
(* Proofs about the asynchronous actions, the account service and the      *)
(* typed resources of the redfish crate, and about the compatibility layer *)
(* of the quirks crate, for any number of moves, polls, clients, members   *)
(* and changes, and for every service root and event payload.              *)
(***************************************************************************)
EXTENDS Accounts, AsyncAction, CompatBmc, ResourceTree, SequenceFacts, FiniteSetTheorems, TLAPS

(***************************************************************************)
(* Asynchronous actions.                                                   *)
(***************************************************************************)
\* The action's own specification: the service may move and end the
\* operation, polls may fail or be dropped, and the task be taken up again.
AsyncSpec == AsyncInit /\ [][AsyncNext]_asyncVars

TaskStyles == {"task recorded", "task bare"}
MonitorStyles == {"monitor result", "monitor location", "monitor empty"}
Told == {"result", "unavailable", "task failed", "already finished"}
TaskPlace == <<"task", 0>>

\* Types; an operation shown at a monitor does not fail.
AsyncTypeOK ==
  /\ service \in [style : Styles, state : {"running", "completed", "failed"}, moves : Nat]
  /\ service.state = "failed" => service.style \in TaskStyles
  /\ returns \in {"unit", "value"}
  /\ handle.state \in {"unborn", "Pending", "Ready", "Finished", "Done"}

\* A place that the service really gave out: its task, a monitor it moved to,
\* or the place of a result that exists.
Given(place) ==
  \/ place = TaskPlace /\ service.style \in TaskStyles
  \/ /\ service.style \in MonitorStyles
     /\ \E n \in 0 .. service.moves : place = Monitor(n)
  \/ place = ResultPlace /\ service.state = "completed"

\* What is kept across polls, drops and restarts is such a place.
PlacesGiven ==
  /\ handle.state = "Pending" => handle = Pending(handle.at) /\ Given(handle.at)
  /\ saved # Nowhere => Given(saved)

\* A poll under way asks at the place the handle keeps, and asks again only
\* for the result itself.
PollExact ==
  poll # NoPoll =>
    /\ handle = Pending(poll.at)
    /\ \/ poll.followed = FALSE /\ poll.requests = 1
       \/ poll.followed = TRUE /\ poll.requests = 2 /\ poll.at = ResultPlace

\* A settled handle stands for an operation that completed; a finished one
\* has no result to give.
SettledTrue ==
  /\ handle.state \in {"Ready", "Finished"} => service.state = "completed"
  /\ handle.state = "Finished" => service.style = "monitor empty"

\* The handle is Done exactly when it has told its outcome.
DoneExact ==
  /\ handle.state = "Done" <=> outcomes # <<>>
  /\ handle.state = "unborn" => poll = NoPoll /\ saved = Nowhere

\* After the first outcome told, every poll says that it was told.
ToldOnce(told) == \A i \in 1 .. Len(told) : i > 1 => told[i] = "already finished"

\* An outcome that is the truth about the operation.
TrueOutcome(o) ==
  /\ o = "result" => service.state = "completed"
  /\ o = "task failed" => service.state = "failed"
  /\ o = "unavailable" => returns = "value" /\ service.style \in {"monitor empty", "task bare"}
  /\ o # "already finished"

\* What was told first is the truth.
OutcomesTrue ==
  /\ outcomes \in Seq(Told)
  /\ ToldOnce(outcomes)
  /\ outcomes # <<>> => TrueOutcome(outcomes[1])

AsyncInv ==
  /\ AsyncTypeOK
  /\ PlacesGiven
  /\ PollExact
  /\ SettledTrue
  /\ DoneExact
  /\ OutcomesTrue
-----------------------------------------------------------------------------
\* The four kinds of places differ, so that a reply tells what was asked.
LEMMA PlacesDiffer ==
  /\ TaskPlace # ResultPlace /\ TaskPlace # Nowhere /\ ResultPlace # Nowhere
  /\ TaskPlace[1] = "task" /\ ResultPlace[1] = "result"
  /\ \A n \in Nat : /\ Monitor(n)[1] = "monitor" /\ Monitor(n) # ResultPlace
                    /\ Monitor(n) # TaskPlace /\ Monitor(n) # Nowhere
  BY DEF TaskPlace, ResultPlace, Nowhere, Monitor

\* The state that a handle is given.
LEMMA HandleState ==
  /\ \A st : Settled(st).state = st
  /\ \A p : Pending(p).state = "Pending" /\ Pending(p).at = p
  BY DEF Settled, Pending

\* A place stays one the service gave out while the operation goes on.
LEMMA GivenKept ==
  ASSUME AsyncTypeOK, NEW p, Given(p),
         service'.style = service.style, service'.moves \in Nat,
         service.moves <= service'.moves,
         service.state = "completed" => service'.state = "completed"
  PROVE  Given(p)'
<1>1. CASE p = TaskPlace /\ service.style \in TaskStyles
  BY <1>1 DEF Given
<1>2. CASE service.style \in MonitorStyles /\ \E n \in 0 .. service.moves : p = Monitor(n)
  <2>1. PICK n \in 0 .. service.moves : p = Monitor(n)
    BY <1>2
  <2>2. n \in 0 .. service'.moves
    BY DEF AsyncTypeOK
  <2>3. QED
    BY <1>2, <2>1, <2>2 DEF Given, Monitor
<1>3. CASE p = ResultPlace /\ service.state = "completed"
  BY <1>3 DEF Given
<1>4. QED
  BY <1>1, <1>2, <1>3 DEF Given

\* Where the operation is shown is a place the service gave out.
LEMMA HereGiven ==
  ASSUME AsyncTypeOK
  PROVE  Given(Here) /\ Here # Nowhere /\ Here # ResultPlace
<1>1. CASE service.style \in TaskStyles
  BY <1>1, PlacesDiffer DEF Here, Given, TaskStyles, TaskPlace
<1>2. CASE service.style \in MonitorStyles
  <2>1. Here = Monitor(service.moves)
    BY <1>2 DEF Here, MonitorStyles
  <2>2. service.moves \in 0 .. service.moves /\ service.moves \in Nat
    BY DEF AsyncTypeOK
  <2>3. QED
    BY <1>2, <2>1, <2>2, PlacesDiffer DEF Given
<1>3. QED
  BY <1>1, <1>2 DEF AsyncTypeOK, Styles, TaskStyles, MonitorStyles

\* A sequence of one element, and one of which all but the first are x.
LEMMA OneElement ==
  ASSUME NEW S, NEW o \in S
  PROVE  /\ Append(<<>>, o) \in Seq(S) /\ Append(<<>>, o) # <<>>
         /\ Len(Append(<<>>, o)) = 1 /\ Append(<<>>, o)[1] = o
<1>1. <<>> \in Seq(S) /\ Len(<<>>) = 0
  OBVIOUS
<1>2. Append(<<>>, o) \in Seq(S) /\ Len(Append(<<>>, o)) = 1 /\ Append(<<>>, o)[1] = o
  BY <1>1, AppendProperties
<1>3. QED
  BY <1>2

LEMMA AllButFirst ==
  ASSUME NEW S, NEW x \in S, NEW s \in Seq(S), s # <<>>,
         \A i \in 1 .. Len(s) : i > 1 => s[i] = x
  PROVE  /\ Append(s, x) \in Seq(S) /\ Append(s, x) # <<>> /\ Append(s, x)[1] = s[1]
         /\ \A i \in 1 .. Len(Append(s, x)) : i > 1 => Append(s, x)[i] = x
<1> DEFINE t == Append(s, x)
<1>1. /\ t \in Seq(S) /\ Len(t) = Len(s) + 1
      /\ \A i \in 1 .. Len(s) : t[i] = s[i]
      /\ t[Len(s) + 1] = x
  BY AppendProperties
<1>2. Len(s) \in Nat /\ Len(s) > 0
  OBVIOUS
<1> HIDE DEF t
<1>3. ASSUME NEW i \in 1 .. Len(t), i > 1 PROVE t[i] = x
  <2>1. i \in 1 .. Len(s) \/ i = Len(s) + 1
    BY <1>1, <1>2
  <2>2. QED
    BY <1>1, <1>3, <2>1
<1>4. t # <<>> /\ t[1] = s[1]
  BY <1>1, <1>2
<1>5. QED
  BY <1>1, <1>3, <1>4 DEF t

\* One outcome told, and a poll after it.
LEMMA OneOutcome ==
  ASSUME NEW o \in Told
  PROVE  /\ Append(<<>>, o) \in Seq(Told) /\ Append(<<>>, o) # <<>>
         /\ ToldOnce(Append(<<>>, o)) /\ Append(<<>>, o)[1] = o
<1>1. \A i \in 1 .. 1 : ~(i > 1)
  OBVIOUS
<1>2. Len(Append(<<>>, o)) = 1
  BY OneElement
<1>3. ToldOnce(Append(<<>>, o))
  BY <1>1, <1>2, Zenon DEF ToldOnce
<1>4. QED
  BY <1>3, OneElement

LEMMA AnotherOutcome ==
  ASSUME NEW told \in Seq(Told), told # <<>>, ToldOnce(told)
  PROVE  LET longer == Append(told, "already finished")
         IN  longer \in Seq(Told) /\ longer # <<>> /\ ToldOnce(longer) /\ longer[1] = told[1]
<1>1. "already finished" \in Told
  BY DEF Told
<1>2. PICK x \in Told : x = "already finished"
  BY <1>1
<1>3. \A i \in 1 .. Len(told) : i > 1 => told[i] = x
  BY <1>2, Zenon DEF ToldOnce
<1>4. /\ Append(told, x) \in Seq(Told) /\ Append(told, x) # <<>> /\ Append(told, x)[1] = told[1]
      /\ \A i \in 1 .. Len(Append(told, x)) : i > 1 => Append(told, x)[i] = x
  BY <1>3, AllButFirst
<1>5. QED
  BY <1>2, <1>4, Zenon DEF ToldOnce

\* The first thing a handle tells.
LEMMA FirstTold ==
  ASSUME outcomes = <<>>, NEW o \in Told, outcomes' = Append(outcomes, o), TrueOutcome(o)'
  PROVE  OutcomesTrue' /\ outcomes' # <<>>
<1>1. /\ outcomes' \in Seq(Told) /\ outcomes' # <<>>
      /\ ToldOnce(outcomes') /\ outcomes'[1] = o
  BY OneOutcome, Zenon
<1>2. TrueOutcome(outcomes[1])'
  BY <1>1, Zenon DEF TrueOutcome
<1>3. QED
  BY <1>1, <1>2, Zenon DEF OutcomesTrue, ToldOnce

\* As long as nothing was told there is nothing to check.
LEMMA NothingTold ==
  ASSUME outcomes' = <<>>
  PROVE  OutcomesTrue'
<1>1. <<>> \in Seq(Told) /\ ToldOnce(<<>>)
  BY DEF ToldOnce
<1>2. QED
  BY <1>1, Zenon DEF OutcomesTrue, ToldOnce

\* A handle that is made pending at a place the service gave out.
LEMMA MadePending ==
  ASSUME NEW p, Given(p)', handle' = Pending(p), saved' = Nowhere \/ Given(saved)',
         outcomes' = <<>>
  PROVE  /\ PlacesGiven' /\ SettledTrue' /\ OutcomesTrue'
         /\ handle'.state = "Pending" /\ handle'.at = p /\ handle' = Pending(p)
         /\ handle'.state = "Done" <=> outcomes' # <<>>
<1>1. handle'.state = "Pending" /\ handle'.at = p
  BY DEF Pending
<1>2. (handle = Pending(handle.at) /\ Given(handle.at))'
  BY <1>1 DEF Given, Pending
<1>3. PlacesGiven'
  BY <1>1, <1>2 DEF PlacesGiven
<1>4. SettledTrue'
  BY <1>1 DEF SettledTrue
<1>5. OutcomesTrue'
  BY NothingTold
<1>6. QED
  BY <1>1, <1>3, <1>4, <1>5

\* An action that is answered with something leaves a true handle.
LEMMA StartInv ==
  ASSUME AsyncInv, Start
  PROVE  AsyncInv'
<1>1. /\ handle.state = "unborn" /\ poll = NoPoll /\ saved = Nowhere /\ outcomes = <<>>
      /\ UNCHANGED <<returns, poll, saved, outcomes, polls>>
  BY DEF Start, AsyncInv, DoneExact
<1>2. \/ handle' = Pending(Here) /\ UNCHANGED service
      \/ /\ service.style \in MonitorStyles
         /\ service' = [service EXCEPT !.state = "completed"]
         /\ \/ handle' = Settled("Ready")
            \/ handle' = Pending(ResultPlace)
            \/ service.style = "monitor empty" /\ handle' = Settled("Finished")
  BY DEF Start, MonitorStyles
<1>3. returns' \in {"unit", "value"} /\ PollExact'
  BY <1>1 DEF AsyncInv, AsyncTypeOK, PollExact
<1>4. ASSUME NEW p, handle' = Pending(p), Given(p)', AsyncTypeOK' PROVE AsyncInv'
  <2>1. PlacesGiven' /\ SettledTrue' /\ OutcomesTrue' /\ DoneExact'
    BY <1>1, <1>4, MadePending DEF DoneExact
  <2>2. QED
    BY <1>3, <1>4, <2>1 DEF AsyncInv
<1>5. CASE handle' = Pending(Here) /\ UNCHANGED service
  <2>1. AsyncTypeOK'
    BY <1>3, <1>5 DEF AsyncInv, AsyncTypeOK, Pending
  <2>2. PICK p : p = Here
    OBVIOUS
  <2>3. Given(p)'
    BY <1>5, <2>2, HereGiven DEF AsyncInv, Given
  <2>4. QED
    BY <1>4, <1>5, <2>1, <2>2, <2>3
<1>6. CASE /\ service.style \in MonitorStyles
           /\ service' = [service EXCEPT !.state = "completed"]
           /\ \/ handle' = Settled("Ready")
              \/ handle' = Pending(ResultPlace)
              \/ service.style = "monitor empty" /\ handle' = Settled("Finished")
  <2>1. /\ service' \in [style : Styles, state : {"running", "completed", "failed"}, moves : Nat]
        /\ service'.state = "completed" /\ service'.style = service.style
    BY <1>6 DEF AsyncInv, AsyncTypeOK
  <2>2. AsyncTypeOK'
    <3>1. handle'.state \in {"unborn", "Pending", "Ready", "Finished", "Done"}
      BY <1>6, HandleState
    <3>2. QED
      BY <1>3, <2>1, <3>1 DEF AsyncTypeOK
  <2>3. CASE handle' = Pending(ResultPlace)
    <3>1. Given(ResultPlace)'
      BY <2>1 DEF Given, ResultPlace
    <3>2. QED
      BY <1>4, <2>2, <2>3, <3>1
  <2>4. CASE \/ handle' = Settled("Ready")
             \/ service.style = "monitor empty" /\ handle' = Settled("Finished")
    <3>1. \/ handle'.state = "Ready"
          \/ handle'.state = "Finished" /\ service.style = "monitor empty"
      BY <2>4, HandleState
    <3>2. PlacesGiven'
      BY <1>1, <3>1 DEF PlacesGiven
    <3>3. SettledTrue'
      BY <2>1, <3>1 DEF SettledTrue
    <3>4. DoneExact'
      BY <1>1, <3>1 DEF DoneExact
    <3>5. OutcomesTrue'
      BY <1>1, NothingTold
    <3>6. QED
      BY <1>3, <2>2, <3>2, <3>3, <3>4, <3>5 DEF AsyncInv
  <2>5. QED
    BY <1>6, <2>3, <2>4
<1>7. QED
  BY <1>2, <1>5, <1>6

\* The operation goes on at the service: what was kept and told stays true.
LEMMA ServiceInv ==
  ASSUME AsyncInv, Move \/ Conclude
  PROVE  AsyncInv'
<1>1. UNCHANGED <<returns, handle, poll, saved, outcomes>>
  BY DEF Move, Conclude
<1>2. /\ service' \in [style : Styles, state : {"running", "completed", "failed"}, moves : Nat]
      /\ service'.style = service.style
      /\ service.moves <= service'.moves
      /\ service.state = "running"
      /\ service'.state = "failed" => Here[1] = "task"
  <2>1. service \in [style : Styles, state : {"running", "completed", "failed"}, moves : Nat]
    BY DEF AsyncInv, AsyncTypeOK
  <2>2. CASE Move
    BY <2>1, <2>2 DEF Move
  <2>3. CASE Conclude
    BY <2>1, <2>3 DEF Conclude
  <2>4. QED
    BY <2>2, <2>3
<1>3. Here[1] = "task" => service.style \in TaskStyles
  BY DEF Here, TaskStyles, Monitor
<1>4. AsyncTypeOK'
  BY <1>1, <1>2, <1>3 DEF AsyncInv, AsyncTypeOK
<1>5. \A p : Given(p) => Given(p)'
  BY <1>2, GivenKept DEF AsyncInv
<1>6. PlacesGiven'
  <2>1. Given(handle.at) => Given(handle.at)'
    BY <1>1, <1>5 DEF Given
  <2>2. Given(saved) => Given(saved)'
    BY <1>1, <1>5 DEF Given
  <2>3. QED
    BY <1>1, <2>1, <2>2 DEF AsyncInv, PlacesGiven
<1>7. PollExact' /\ DoneExact'
  BY <1>1 DEF AsyncInv, PollExact, DoneExact
<1>8. SettledTrue'
  BY <1>1, <1>2 DEF AsyncInv, SettledTrue
<1>9. OutcomesTrue'
  <2>1. TrueOutcome(outcomes[1]) => TrueOutcome(outcomes[1])'
    BY <1>1, <1>2 DEF TrueOutcome
  <2>2. QED
    BY <1>1, <2>1, Zenon DEF AsyncInv, OutcomesTrue, ToldOnce
<1>10. QED
  BY <1>4, <1>6, <1>7, <1>8, <1>9 DEF AsyncInv

\* What holds of a poll that ends and settles the handle.
LEMMA SettledByPoll ==
  ASSUME AsyncInv, handle' = Settled("Done"), poll' = NoPoll, OutcomesTrue', outcomes' # <<>>,
         UNCHANGED <<service, returns, saved>>
  PROVE  AsyncInv'
<1>1. handle'.state = "Done"
  BY HandleState
<1>2. AsyncTypeOK'
  BY <1>1 DEF AsyncInv, AsyncTypeOK
<1>3. PlacesGiven'
  BY <1>1 DEF AsyncInv, PlacesGiven, Given
<1>4. PollExact' /\ SettledTrue' /\ DoneExact'
  BY <1>1 DEF PollExact, SettledTrue, DoneExact
<1>5. QED
  BY <1>2, <1>3, <1>4 DEF AsyncInv

\* poll_result of a settled handle tells the outcome, and then that it was told.
LEMMA PollSettledInv ==
  ASSUME AsyncInv, PollSettled
  PROVE  AsyncInv'
<1>1. /\ poll = NoPoll /\ handle.state \in {"Ready", "Finished", "Done"}
      /\ outcomes' = Append(outcomes, Answer) /\ handle' = Settled("Done")
      /\ UNCHANGED <<service, returns, poll, saved>>
  BY DEF PollSettled, Idling
<1>2. OutcomesTrue' /\ outcomes' # <<>>
  <2>1. CASE handle.state = "Done"
    <3>1. Answer = "already finished"
      BY <2>1 DEF Answer
    <3>2. outcomes # <<>> /\ outcomes \in Seq(Told) /\ ToldOnce(outcomes) /\ TrueOutcome(outcomes[1])
      BY <2>1 DEF AsyncInv, DoneExact, OutcomesTrue
    <3>3. outcomes' = Append(outcomes, "already finished")
      BY <1>1, <3>1
    <3>4. outcomes' \in Seq(Told) /\ outcomes' # <<>> /\ ToldOnce(outcomes') /\ outcomes'[1] = outcomes[1]
      BY <3>2, <3>3, AnotherOutcome, Zenon
    <3>5. TrueOutcome(outcomes[1])'
      BY <1>1, <3>2, <3>4 DEF TrueOutcome
    <3>6. QED
      BY <3>4, <3>5, Zenon DEF OutcomesTrue, ToldOnce
  <2>2. CASE handle.state \in {"Ready", "Finished"}
    <3>1. outcomes = <<>>
      BY <2>2 DEF AsyncInv, DoneExact
    <3>2. Answer \in Told
      BY <2>2 DEF Answer, Told
    <3>3. service.state = "completed" /\ (handle.state = "Finished" => service.style = "monitor empty")
      BY <2>2 DEF AsyncInv, SettledTrue
    <3>4. Answer # "result" => Answer = "unavailable" /\ handle.state = "Finished" /\ returns # "unit"
      BY <2>2 DEF Answer, WithoutBody
    <3>5. TrueOutcome(Answer)
      BY <3>3, <3>4 DEF TrueOutcome, AsyncInv, AsyncTypeOK
    <3>6. PICK o : o = Answer
      OBVIOUS
    <3>7. TrueOutcome(o)'
      BY <1>1, <3>5, <3>6 DEF TrueOutcome
    <3>8. QED
      BY <1>1, <3>1, <3>2, <3>6, <3>7, FirstTold
  <2>3. QED
    BY <1>1, <2>1, <2>2
<1>3. QED
  BY <1>1, <1>2, SettledByPoll

\* poll_result begins at the place the handle keeps.
LEMMA PollPendingInv ==
  ASSUME AsyncInv, PollPending
  PROVE  AsyncInv'
<1>1. /\ handle.state = "Pending"
      /\ poll' = [at |-> handle.at, followed |-> FALSE, requests |-> 1]
      /\ UNCHANGED <<service, returns, handle, saved, outcomes>>
  BY DEF PollPending
<1>2. handle = Pending(handle.at)
  BY <1>1 DEF AsyncInv, PlacesGiven
<1>3. PollExact'
  <2>1. poll'.at = handle.at /\ poll'.followed = FALSE /\ poll'.requests = 1
    BY <1>1
  <2>2. QED
    BY <1>1, <1>2, <2>1 DEF PollExact, Pending
<1>4. AsyncTypeOK' /\ SettledTrue'
  BY <1>1 DEF AsyncInv, AsyncTypeOK, SettledTrue
<1>5. PlacesGiven'
  BY <1>1 DEF AsyncInv, PlacesGiven, Given
<1>6. DoneExact'
  BY <1>1 DEF AsyncInv, DoneExact
<1>7. OutcomesTrue'
  BY <1>1, Zenon DEF AsyncInv, OutcomesTrue, ToldOnce, TrueOutcome
<1>8. QED
  BY <1>3, <1>4, <1>5, <1>6, <1>7 DEF AsyncInv

\* A dropped or failed poll leaves the handle, and the place it keeps; so
\* does saving that place.
LEMMA InterruptedInv ==
  ASSUME AsyncInv, Interrupted \/ Save
  PROVE  AsyncInv'
<1>1. /\ UNCHANGED <<service, returns, handle, outcomes>>
      /\ poll' = NoPoll
      /\ saved' = saved \/ (saved' = handle.at /\ handle.state = "Pending")
      /\ handle.state = "unborn" => UNCHANGED saved
  BY DEF Interrupted, Save, Idling
<1>2. AsyncTypeOK' /\ SettledTrue' /\ PollExact'
  BY <1>1 DEF AsyncInv, AsyncTypeOK, SettledTrue, PollExact
<1>3. PlacesGiven'
  BY <1>1 DEF AsyncInv, PlacesGiven, Given
<1>4. DoneExact'
  BY <1>1 DEF AsyncInv, DoneExact
<1>5. OutcomesTrue'
  BY <1>1, Zenon DEF AsyncInv, OutcomesTrue, ToldOnce, TrueOutcome
<1>6. QED
  BY <1>2, <1>3, <1>4, <1>5 DEF AsyncInv

\* AsyncActionResult::resume starts again from the saved place, with nothing told.
LEMMA ResumeInv ==
  ASSUME AsyncInv, Resume
  PROVE  AsyncInv'
<1>1. /\ saved # Nowhere /\ handle' = Pending(saved) /\ poll' = NoPoll /\ outcomes' = <<>>
      /\ UNCHANGED <<service, returns, saved>>
  BY DEF Resume
<1>2. PICK p : p = saved
  OBVIOUS
<1>3. Given(p)'
  BY <1>1, <1>2 DEF AsyncInv, PlacesGiven, Given
<1>4. Given(saved)'
  BY <1>1 DEF AsyncInv, PlacesGiven, Given
<1>5. /\ PlacesGiven' /\ SettledTrue' /\ OutcomesTrue'
      /\ handle'.state = "Pending"
  BY <1>1, <1>2, <1>3, <1>4, MadePending
<1>6. AsyncTypeOK'
  BY <1>1, <1>5 DEF AsyncInv, AsyncTypeOK
<1>7. PollExact' /\ DoneExact'
  BY <1>1, <1>5 DEF PollExact, DoneExact
<1>8. QED
  BY <1>5, <1>6, <1>7 DEF AsyncInv

\* During a poll nothing was told, and it asks at a place that was given out.
LEMMA Polling ==
  ASSUME AsyncInv, poll # NoPoll
  PROVE  /\ handle = Pending(poll.at) /\ Given(poll.at) /\ outcomes = <<>>
         /\ poll.at # ResultPlace => poll.followed = FALSE /\ poll.requests = 1
<1>1. handle = Pending(poll.at) /\ handle.state = "Pending" /\ handle.at = poll.at
  BY HandleState DEF AsyncInv, PollExact
<1>2. Given(poll.at)
  BY <1>1 DEF AsyncInv, PlacesGiven
<1>3. outcomes = <<>>
  BY <1>1 DEF AsyncInv, DoneExact
<1>4. poll.at # ResultPlace => poll.followed = FALSE /\ poll.requests = 1
  BY DEF AsyncInv, PollExact
<1>5. QED
  BY <1>1, <1>2, <1>3, <1>4

\* A poll returns an outcome that is true.
LEMMA ReturnTold ==
  ASSUME AsyncInv, poll # NoPoll, NEW o \in Told, TrueOutcome(o),
         Return(o, Settled("Done")), UNCHANGED <<service, returns, saved>>
  PROVE  AsyncInv'
<1>1. o # "pending"
  BY DEF Told
<1>2. poll' = NoPoll /\ handle' = Settled("Done") /\ outcomes' = Append(outcomes, o)
  BY <1>1 DEF Return
<1>3. TrueOutcome(o)'
  BY DEF TrueOutcome
<1>4. OutcomesTrue' /\ outcomes' # <<>>
  BY <1>2, <1>3, Polling, FirstTold
<1>5. QED
  BY <1>2, <1>4, SettledByPoll

\* A poll returns that the operation is still running, now at place p.
LEMMA ReturnPending ==
  ASSUME AsyncInv, poll # NoPoll, NEW p, Given(p),
         Return("pending", Pending(p)), UNCHANGED <<service, returns, saved>>
  PROVE  AsyncInv'
<1>1. poll' = NoPoll /\ handle' = Pending(p) /\ outcomes' = <<>>
  BY Polling DEF Return
<1>2. Given(p)' /\ (saved' = Nowhere \/ Given(saved)')
  BY DEF AsyncInv, PlacesGiven, Given
<1>3. PlacesGiven' /\ SettledTrue' /\ OutcomesTrue' /\ handle'.state = "Pending"
  BY <1>1, <1>2, MadePending
<1>4. AsyncTypeOK'
  BY <1>3 DEF AsyncInv, AsyncTypeOK
<1>5. PollExact' /\ DoneExact'
  BY <1>1, <1>3 DEF PollExact, DoneExact
<1>6. QED
  BY <1>3, <1>4, <1>5 DEF AsyncInv

\* The operation finished: its result is told, followed to its place, which the
\* handle keeps before the request is made, or is nowhere.
LEMMA FinishAtInv ==
  ASSUME AsyncInv, poll # NoPoll, poll.at # ResultPlace, service.state = "completed",
         NEW place, FinishAt(place), UNCHANGED <<service, returns, saved>>,
         \/ place = ResultPlace
         \/ place = Nowhere /\ service.style \in {"monitor empty", "task bare"}
  PROVE  AsyncInv'
<1>1. poll.followed = FALSE /\ poll.requests = 1
  BY Polling
<1>2. CASE WithoutBody
  <2>1. Return("result", Settled("Done"))
    BY <1>2 DEF FinishAt
  <2>2. "result" \in Told /\ TrueOutcome("result")
    BY DEF Told, TrueOutcome
  <2>3. QED
    BY <2>1, <2>2, ReturnTold
<1>3. CASE ~WithoutBody /\ place = Nowhere
  <2>1. Return("unavailable", Settled("Done"))
    BY <1>3 DEF FinishAt, MayFollow
  <2>2. "unavailable" \in Told /\ TrueOutcome("unavailable")
    BY <1>3, PlacesDiffer DEF Told, TrueOutcome, WithoutBody, AsyncInv, AsyncTypeOK
  <2>3. QED
    BY <2>1, <2>2, ReturnTold
<1>4. CASE ~WithoutBody /\ place = ResultPlace
  <2>1. MayFollow(ResultPlace)
    BY <1>1, PlacesDiffer DEF MayFollow
  <2>2. /\ poll' = [at |-> ResultPlace, followed |-> TRUE, requests |-> 2]
        /\ handle' = Pending(ResultPlace) /\ UNCHANGED outcomes
    BY <1>1, <1>4, <2>1 DEF FinishAt
  <2>3. Given(ResultPlace)' /\ (saved' = Nowhere \/ Given(saved)')
    BY DEF AsyncInv, PlacesGiven, Given, ResultPlace
  <2>4. outcomes' = <<>>
    BY <2>2, Polling
  <2>5. PlacesGiven' /\ SettledTrue' /\ OutcomesTrue' /\ handle'.state = "Pending"
    BY <2>2, <2>3, <2>4, MadePending DEF ResultPlace
  <2>6. AsyncTypeOK'
    BY <2>5 DEF AsyncInv, AsyncTypeOK
  <2>7. poll'.at = ResultPlace /\ poll'.followed = TRUE /\ poll'.requests = 2
    BY <2>2
  <2>8. PollExact'
    BY <2>2, <2>7 DEF PollExact, Pending, ResultPlace
  <2>9. DoneExact'
    BY <2>4, <2>5 DEF DoneExact
  <2>10. QED
    BY <2>5, <2>6, <2>8, <2>9 DEF AsyncInv
<1>5. QED
  BY <1>2, <1>3, <1>4

\* The response to a poll's request, whichever it is.
LEMMA RespondsInv ==
  ASSUME AsyncInv, Responds
  PROVE  AsyncInv'
<1>1. poll # NoPoll /\ UNCHANGED <<service, returns, saved>>
  BY DEF Responds, Idling
<1>2. Given(poll.at)
  BY <1>1, Polling
<1>3. service.style \in Styles /\ service.state \in {"running", "completed", "failed"}
  BY DEF AsyncInv, AsyncTypeOK
<1>4. CASE poll.at = ResultPlace /\ service.state = "completed"
  <2>1. Reply(poll.at) = "Result"
    BY <1>4, PlacesDiffer DEF Reply
  <2>2. Return("result", Settled("Done"))
    BY <2>1 DEF Responds
  <2>3. "result" \in Told /\ TrueOutcome("result")
    BY <1>4 DEF Told, TrueOutcome
  <2>4. QED
    BY <1>1, <2>2, <2>3, ReturnTold
<1>5. CASE poll.at = TaskPlace /\ service.style \in TaskStyles
  <2>1. poll.at[1] = "task" /\ poll.at # ResultPlace
    BY <1>5, PlacesDiffer
  <2>2. Reply(poll.at) = "Task"
    BY <1>3, <2>1 DEF Reply
  <2>3. TaskRead
    BY <2>2 DEF Responds
  <2>4. CASE service.state = "completed"
    <3>1. FinishAt(RecordedLocation)
      BY <2>3, <2>4 DEF TaskRead
    <3>2. \/ RecordedLocation = ResultPlace
          \/ RecordedLocation = Nowhere /\ service.style \in {"monitor empty", "task bare"}
      BY <1>5 DEF RecordedLocation, TaskStyles
    <3>3. QED
      BY <1>1, <2>1, <2>4, <3>1, <3>2, FinishAtInv
  <2>5. CASE service.state = "failed"
    <3>1. Return("task failed", Settled("Done"))
      BY <2>3, <2>5 DEF TaskRead
    <3>2. "task failed" \in Told /\ TrueOutcome("task failed")
      BY <2>5 DEF Told, TrueOutcome
    <3>3. QED
      BY <1>1, <3>1, <3>2, ReturnTold
  <2>6. CASE service.state = "running"
    <3>1. Return("pending", Pending(poll.at))
      BY <2>3, <2>6 DEF TaskRead
    <3>2. QED
      BY <1>1, <1>2, <3>1, ReturnPending
  <2>7. QED
    BY <1>3, <2>4, <2>5, <2>6
<1>6. CASE service.style \in MonitorStyles /\ \E n \in 0 .. service.moves : poll.at = Monitor(n)
  <2>1. PICK n \in Nat : poll.at = Monitor(n)
    BY <1>6 DEF AsyncInv, AsyncTypeOK
  <2>2. poll.at[1] = "monitor" /\ poll.at # ResultPlace
    BY <2>1, PlacesDiffer
  <2>3. service.state # "failed"
    BY <1>6 DEF AsyncInv, AsyncTypeOK, MonitorStyles, TaskStyles
  <2>4. CASE service.state = "running"
    <3>1. Reply(poll.at) = "Accepted"
      BY <2>2, <2>4 DEF Reply
    <3>2. Return("pending", Pending(Here))
      BY <3>1 DEF Responds
    <3>3. Given(Here)
      BY HereGiven DEF AsyncInv
    <3>4. QED
      BY <1>1, <3>2, <3>3, ReturnPending
  <2>5. CASE service.state = "completed"
    <3>1. CASE service.style = "monitor result"
      <4>1. Reply(poll.at) = "Result"
        BY <2>2, <2>5, <3>1 DEF Reply
      <4>2. Return("result", Settled("Done"))
        BY <4>1 DEF Responds
      <4>3. "result" \in Told /\ TrueOutcome("result")
        BY <2>5 DEF Told, TrueOutcome
      <4>4. QED
        BY <1>1, <4>2, <4>3, ReturnTold
    <3>2. CASE service.style = "monitor location"
      <4>1. Reply(poll.at) = "Location"
        BY <2>2, <2>5, <3>2 DEF Reply
      <4>2. FinishAt(ResultPlace)
        BY <4>1 DEF Responds
      <4>3. QED
        BY <1>1, <2>2, <2>5, <4>2, FinishAtInv
    <3>3. CASE service.style = "monitor empty"
      <4>1. Reply(poll.at) = "Empty"
        BY <2>2, <2>5, <3>3 DEF Reply
      <4>2. FinishAt(Nowhere)
        BY <4>1 DEF Responds
      <4>3. QED
        BY <1>1, <2>2, <2>5, <3>3, <4>2, FinishAtInv
    <3>4. QED
      BY <1>6, <3>1, <3>2, <3>3 DEF MonitorStyles
  <2>6. QED
    BY <1>3, <2>3, <2>4, <2>5
<1>7. QED
  BY <1>2, <1>4, <1>5, <1>6 DEF Given

\* The places, the poll and the outcomes stay exact, whatever order the
\* service, the polls, their failures and the restarts come in.
THEOREM AsyncInvariance == AsyncSpec => []AsyncInv
<1>1. AsyncInit => AsyncInv
  <2> SUFFICES ASSUME AsyncInit PROVE AsyncInv
    OBVIOUS
  <2>1. /\ service \in [style : Styles, state : {"running"}, moves : {0}]
        /\ returns \in {"unit", "value"} /\ handle = Settled("unborn")
        /\ poll = NoPoll /\ saved = Nowhere /\ outcomes = <<>>
    BY DEF AsyncInit
  <2>2. handle.state = "unborn"
    BY <2>1, HandleState
  <2>3. AsyncTypeOK
    BY <2>1, <2>2 DEF AsyncTypeOK
  <2>4. PlacesGiven /\ PollExact /\ SettledTrue
    BY <2>1, <2>2 DEF PlacesGiven, PollExact, SettledTrue
  <2>5. DoneExact
    BY <2>1, <2>2 DEF DoneExact
  <2>6. <<>> \in Seq(Told) /\ ToldOnce(<<>>)
    BY DEF ToldOnce
  <2>7. OutcomesTrue
    BY <2>1, <2>6, Zenon DEF OutcomesTrue
  <2>8. QED
    BY <2>3, <2>4, <2>5, <2>7 DEF AsyncInv
<1>2. AsyncInv /\ [AsyncNext]_asyncVars => AsyncInv'
  <2> SUFFICES ASSUME AsyncInv, [AsyncNext]_asyncVars PROVE AsyncInv'
    OBVIOUS
  <2>1. CASE UNCHANGED asyncVars
    <3>1. UNCHANGED <<service, returns, handle, poll, saved, outcomes>>
      BY <2>1 DEF asyncVars
    <3>2. AsyncTypeOK' /\ PlacesGiven' /\ SettledTrue'
      BY <3>1 DEF AsyncInv, AsyncTypeOK, PlacesGiven, Given, SettledTrue
    <3>3. PollExact' /\ DoneExact'
      BY <3>1 DEF AsyncInv, PollExact, DoneExact
    <3>4. OutcomesTrue'
      BY <3>1, Zenon DEF AsyncInv, OutcomesTrue, ToldOnce, TrueOutcome
    <3>5. QED
      BY <3>2, <3>3, <3>4 DEF AsyncInv
  <2>2. QED
    BY <2>1, StartInv, ServiceInv, PollSettledInv, PollPendingInv, RespondsInv,
       InterruptedInv, ResumeInv DEF AsyncNext, AsyncSteps
<1>3. QED
  BY <1>1, <1>2, PTL DEF AsyncSpec

\* A handle tells the outcome of its operation once, and truly, whatever polls
\* failed, were dropped half way or were taken up by another process.
THEOREM OutcomeCorrect == AsyncSpec => []OutcomeOnceAndTrue
<1>1. AsyncInv => OutcomeOnceAndTrue
  <2> SUFFICES ASSUME AsyncInv PROVE OutcomeOnceAndTrue
    OBVIOUS
  <2>1. poll.requests <= 2
    <3>1. CASE poll = NoPoll
      BY <3>1 DEF NoPoll
    <3>2. CASE poll # NoPoll
      BY <3>2 DEF AsyncInv, PollExact
    <3>3. QED
      BY <3>1, <3>2
  <2>2. poll # NoPoll /\ poll.followed => handle = Pending(ResultPlace)
    BY DEF AsyncInv, PollExact
  <2>3. handle.state = "Pending" =>
          handle.at \in {<<"task", 0>>, ResultPlace} \cup {Monitor(n) : n \in 0 .. service.moves}
    BY DEF AsyncInv, PlacesGiven, Given, TaskPlace
  <2>4. StepKept
    BY <2>1, <2>2, <2>3 DEF StepKept
  <2>5. outcomes \in Seq(Told) /\ ToldOnce(outcomes)
    BY DEF AsyncInv, OutcomesTrue
  <2>6. DOMAIN outcomes = 1 .. Len(outcomes)
    BY <2>5
  <2>7. \A i \in DOMAIN outcomes : i > 1 => outcomes[i] = "already finished"
    BY <2>5, <2>6, Zenon DEF ToldOnce
  <2>8. outcomes # <<>> => TrueOutcome(outcomes[1])
    BY DEF AsyncInv, OutcomesTrue
  <2>9. QED
    BY <2>4, <2>7, <2>8, Zenon DEF OutcomeOnceAndTrue, TrueOutcome
<1>2. QED
  BY <1>1, AsyncInvariance, PTL
-----------------------------------------------------------------------------
(***************************************************************************)
(* Accounts.                                                               *)
(***************************************************************************)
\* Any number of clients use the account service at once.
AccountsSpec == AccountsInit /\ [][AccountsNext]_accountVars

Owners == Clients \cup {Nobody, "admin"}
Handles == [slot : Nat, etag : Nat \cup {Nobody}, owner : Owners]
Calls == [pc : {"idle", "holding", "scan", "patch"}, expanded : BOOLEAN,
          seen : [Members -> Owners], todo : SUBSET Members,
          candidates : SUBSET Members, target : Nat, etag : Nat,
          account : Handles, result : {"none", "created", "failed", "no slot"}]

AccountsTypeOK ==
  /\ behavior \in {"Standard", "FixedSlots"}
  /\ slot \in [Members -> [owner : Owners, version : Nat]]
  /\ client \in [Clients -> Calls]
  /\ wasBusy \in [Clients -> SUBSET Members]

\* Below, k is a client's call and busy what its history holds.

\* An account handle is of the past of its slot: while the version is still
\* the one it was read in, the owner is too.
HandleCurrent(h) ==
  h # NoHandle =>
    /\ h.slot \in Members
    /\ h.slot \in Untagged <=> h.etag = Nobody
    /\ h.slot \notin Untagged =>
         /\ h.etag \in Nat /\ h.etag <= slot[h.slot].version
         /\ h.etag = slot[h.slot].version => h.owner = slot[h.slot].owner

\* A slot about to be taken was free in the version the update names.
TargetFree(k) ==
  k.pc = "patch" =>
    /\ k.target \in Members \ Untagged
    /\ k.etag <= slot[k.target].version
    /\ k.etag = slot[k.target].version => ~Busy(k.target)

\* The history of a call holds every member that is busy, or was inlined as
\* busy, since its collection was read.
BusyNoted(k, busy) ==
  behavior = "FixedSlots" /\ k.pc # "idle" =>
    \A m \in Members : Busy(m) \/ (k.expanded /\ k.seen[m] # Nobody) => m \in busy

\* The usable slots that are not in the history.
Usable(busy) == {m \in Slots \cap Members : m \notin NotNumbered \cup Untagged \cup busy}

\* Such a slot is still to be looked at or is a candidate, until the call
\* takes one that is not above it, or says that there is none.
UsableKept(k, busy) ==
  /\ k.pc \in {"scan", "patch"} => behavior = "FixedSlots"
  /\ k.pc = "scan" => Usable(busy) \subseteq k.todo \cup k.candidates
  /\ k.pc = "patch" => \A m \in Usable(busy) : k.target <= m
  /\ k.result = "no slot" => k.pc = "idle" /\ Usable(busy) = {}

CallExact(k, busy) ==
  /\ HandleCurrent(k.account)
  /\ TargetFree(k)
  /\ BusyNoted(k, busy)
  /\ UsableKept(k, busy)

AccountsInv ==
  /\ AccountsTypeOK
  /\ \A c \in Clients : CallExact(client[c], wasBusy[c])

\* What a step may do to the slots: nothing, or one change by the device.
SlotStep == slot' = slot \/ \E m \in Members, o \in Owners : slot' = Changed(m, o)
-----------------------------------------------------------------------------
\* A change gives its slot a version that no handle and no update names yet.
LEMMA SlotStepEffect ==
  ASSUME AccountsTypeOK, SlotStep
  PROVE  /\ slot' \in [Members -> [owner : Owners, version : Nat]]
         /\ \A m \in Members : \/ slot'[m] = slot[m]
                               \/ slot'[m].version = slot[m].version + 1
<1>1. CASE slot' = slot
  BY <1>1 DEF AccountsTypeOK
<1>2. CASE \E m \in Members, o \in Owners : slot' = Changed(m, o)
  <2>1. PICK m \in Members, o \in Owners : slot' = Changed(m, o)
    BY <1>2
  <2>2. slot' = [slot EXCEPT ![m] = [owner |-> o, version |-> slot[m].version + 1]]
    BY <2>1 DEF Changed
  <2>3. slot[m].version + 1 \in Nat
    BY DEF AccountsTypeOK
  <2>4. QED
    BY <2>2, <2>3 DEF AccountsTypeOK
<1>3. QED
  BY <1>1, <1>2 DEF SlotStep

\* A handle stays one of the past of its slot.
LEMMA HandleKept ==
  ASSUME AccountsTypeOK, SlotStep, NEW h, HandleCurrent(h)
  PROVE  HandleCurrent(h)'
<1> SUFFICES ASSUME h # NoHandle
             PROVE  /\ h.slot \in Members
                    /\ h.slot \in Untagged <=> h.etag = Nobody
                    /\ h.slot \notin Untagged =>
                         /\ h.etag \in Nat /\ h.etag <= slot'[h.slot].version
                         /\ h.etag = slot'[h.slot].version => h.owner = slot'[h.slot].owner
  BY DEF HandleCurrent, NoHandle
<1>1. /\ h.slot \in Members /\ (h.slot \in Untagged <=> h.etag = Nobody)
      /\ h.slot \notin Untagged =>
           /\ h.etag \in Nat /\ h.etag <= slot[h.slot].version
           /\ h.etag = slot[h.slot].version => h.owner = slot[h.slot].owner
  BY DEF HandleCurrent
<1>2. slot[h.slot].version \in Nat
  BY <1>1 DEF AccountsTypeOK
<1>3. slot'[h.slot] = slot[h.slot] \/ slot'[h.slot].version = slot[h.slot].version + 1
  BY <1>1, SlotStepEffect
<1>4. QED
  BY <1>1, <1>2, <1>3

\* So does the target of an update.
LEMMA TargetKept ==
  ASSUME AccountsTypeOK, SlotStep, NEW k \in Calls, TargetFree(k)
  PROVE  TargetFree(k)'
<1> SUFFICES ASSUME k.pc = "patch"
             PROVE  /\ k.target \in Members \ Untagged
                    /\ k.etag <= slot'[k.target].version
                    /\ k.etag = slot'[k.target].version => slot'[k.target].owner = Nobody
  BY DEF TargetFree, Busy
<1>1. /\ k.target \in Members \ Untagged
      /\ k.etag <= slot[k.target].version
      /\ k.etag = slot[k.target].version => slot[k.target].owner = Nobody
  BY DEF TargetFree, Busy
<1>2. slot[k.target].version \in Nat /\ k.etag \in Nat
  BY <1>1 DEF AccountsTypeOK, Calls
<1>3. slot'[k.target] = slot[k.target] \/ slot'[k.target].version = slot[k.target].version + 1
  BY <1>1, SlotStepEffect
<1>4. QED
  BY <1>1, <1>2, <1>3

\* The call of a client that does not move, while its history takes in what
\* became busy.
LEMMA CallKept ==
  ASSUME AccountsTypeOK, SlotStep, UNCHANGED behavior, NEW k \in Calls, NEW busy, NEW later,
         CallExact(k, busy), busy \subseteq later,
         behavior = "FixedSlots" /\ k.pc # "idle" =>
           \A m \in Members : Busy(m)' => Busy(m) \/ m \in later
  PROVE  CallExact(k, later)'
<1>1. HandleCurrent(k.account)'
  BY HandleKept DEF CallExact
<1>2. TargetFree(k)'
  BY TargetKept DEF CallExact
<1>3. BusyNoted(k, later)'
  BY DEF CallExact, BusyNoted, Busy
<1>4. Usable(later) \subseteq Usable(busy)
  BY DEF Usable
<1>5. UsableKept(k, later)'
  BY <1>4 DEF CallExact, UsableKept, Usable
<1>6. QED
  BY <1>1, <1>2, <1>3, <1>5 DEF CallExact

\* One client moves, from its call to n.
LEMMA ClientStep ==
  ASSUME AccountsInv, NEW c \in Clients, NEW n \in Calls, UNCHANGED behavior,
         client' = [client EXCEPT ![c] = n], SlotStep,
         wasBusy' \in [Clients -> SUBSET Members],
         NEW noted, noted = wasBusy'[c], CallExact(n, noted)',
         \A d \in Clients \ {c} : wasBusy[d] \subseteq wasBusy'[d],
         behavior = "FixedSlots" =>
           \A d \in Clients \ {c} : client[d].pc # "idle" =>
             \A m \in Members : Busy(m)' => Busy(m) \/ m \in wasBusy'[d]
  PROVE  AccountsInv'
<1>1. /\ AccountsTypeOK
      /\ client'[c] = n /\ \A d \in Clients \ {c} : client'[d] = client[d]
      /\ client' \in [Clients -> Calls]
  BY DEF AccountsInv, AccountsTypeOK
<1>2. AccountsTypeOK'
  BY <1>1, SlotStepEffect DEF AccountsTypeOK
<1>3. ASSUME NEW d \in Clients PROVE CallExact(client[d], wasBusy[d])'
  <2>1. CASE d = c
    BY <1>1, <2>1 DEF CallExact, HandleCurrent, TargetFree, BusyNoted, UsableKept, Usable, Busy
  <2>2. CASE d # c
    <3>1. client[d] \in Calls /\ client'[d] = client[d] /\ CallExact(client[d], wasBusy[d])
      BY <1>1, <2>2 DEF AccountsInv, AccountsTypeOK
    <3>2. PICK k, busy, later :
            k \in Calls /\ k = client[d] /\ busy = wasBusy[d] /\ later = wasBusy'[d]
      BY <3>1
    <3>3. CallExact(k, later)'
      BY <1>1, <2>2, <3>1, <3>2, CallKept
    <3>4. QED
      BY <3>1, <3>2, <3>3 DEF CallExact, HandleCurrent, TargetFree, BusyNoted, UsableKept, Usable, Busy
  <2>3. QED
    BY <2>1, <2>2
<1>4. QED
  BY <1>2, <1>3 DEF AccountsInv

\* A step that leaves the slots alone.
LEMMA LocalStep ==
  ASSUME AccountsInv, NEW c \in Clients, NEW n \in Calls, NEW noted \in SUBSET Members,
         UNCHANGED <<behavior, slot>>, client' = [client EXCEPT ![c] = n],
         wasBusy' = [wasBusy EXCEPT ![c] = noted], CallExact(n, noted)
  PROVE  AccountsInv'
<1>1. /\ wasBusy' \in [Clients -> SUBSET Members] /\ wasBusy'[c] = noted
      /\ \A d \in Clients \ {c} : wasBusy'[d] = wasBusy[d]
  BY DEF AccountsInv, AccountsTypeOK
<1>2. CallExact(n, noted)'
  BY DEF CallExact, HandleCurrent, TargetFree, BusyNoted, UsableKept, Usable, Busy
<1>3. SlotStep /\ \A m \in Members : Busy(m)' => Busy(m)
  BY DEF SlotStep, Busy
<1>4. QED
  BY <1>1, <1>2, <1>3, ClientStep

\* The record of a client between calls.
LEMMA IdleType == Idle \in Calls /\ Idle.pc = "idle"
<1>1. [m \in Members |-> Nobody] \in [Members -> Owners]
  BY DEF Owners
<1>2. NoHandle \in Handles
  BY DEF NoHandle, Handles, Owners
<1>3. Idle \in Calls
  BY <1>1, <1>2 DEF Idle, Calls
<1>4. Idle.pc = "idle"
  BY DEF Idle
<1>5. QED
  BY <1>3, <1>4

\* An idle call is exact when its handle is, and when what it said is true.
LEMMA IdleExact ==
  ASSUME NEW n, n.pc = "idle", HandleCurrent(n.account), NEW busy,
         n.result = "no slot" => Usable(busy) = {}
  PROVE  CallExact(n, busy)
  BY DEF CallExact, TargetFree, BusyNoted, UsableKept

\* What the invariant says of one client.
LEMMA OneClient ==
  ASSUME AccountsInv, NEW c \in Clients
  PROVE  /\ AccountsTypeOK /\ client[c] \in Calls /\ wasBusy[c] \in SUBSET Members
         /\ client[c].account \in Handles
         /\ CallExact(client[c], wasBusy[c])
  BY DEF AccountsInv, AccountsTypeOK, Calls

\* A call that ends without a change of the slots, with its history dropped.
LEMMA EndsQuietly ==
  ASSUME AccountsInv, NEW c \in Clients, NEW r \in {"none", "created", "failed"},
         NEW h \in Handles, HandleCurrent(h),
         client' = Returned(c, r, h), wasBusy' = Forgotten(c), UNCHANGED <<behavior, slot>>
  PROVE  AccountsInv'
<1> DEFINE n == [Idle EXCEPT !.result = r, !.account = h]
<1>1. n \in Calls /\ CallExact(n, {})
  <2>1. n \in Calls /\ n.account = h /\ n.pc = "idle" /\ n.result = r
    BY IdleType DEF Calls
  <2> HIDE DEF n
  <2>2. QED
    BY <2>1, IdleExact
<1>2. client' = [client EXCEPT ![c] = n] /\ wasBusy' = [wasBusy EXCEPT ![c] = {}]
  BY DEF Returned, Forgotten
<1> HIDE DEF n
<1>3. QED
  BY <1>1, <1>2, LocalStep

\* AccountCollection::new: the history of the call begins.
LEMMA ReadCollectionInv ==
  ASSUME AccountsInv, NEW c \in Clients, ReadCollection(c)
  PROVE  AccountsInv'
<1> DEFINE k == client[c]
           noted == {m \in Members : Busy(m)}
<1>1. PICK expanded \in BOOLEAN :
         client' = [client EXCEPT ![c] = [k EXCEPT !.pc = "holding", !.expanded = expanded,
                      !.seen = IF expanded THEN [m \in Members |-> slot[m].owner] ELSE k.seen,
                      !.result = "none"]]
  BY DEF ReadCollection, GoesOn
<1> DEFINE seen == IF expanded THEN [m \in Members |-> slot[m].owner] ELSE k.seen
           n == [k EXCEPT !.pc = "holding", !.expanded = expanded, !.seen = seen, !.result = "none"]
<1>2. k \in Calls /\ CallExact(k, wasBusy[c]) /\ AccountsTypeOK
  BY OneClient
<1>3. seen \in [Members -> Owners]
  BY <1>2 DEF AccountsTypeOK, Calls
<1>4. expanded => \A m \in Members : seen[m] = slot[m].owner
  OBVIOUS
<1> HIDE DEF k, seen
<1>5. /\ n \in Calls /\ n.pc = "holding" /\ n.expanded = expanded /\ n.seen = seen
      /\ n.result = "none" /\ n.account = k.account
  BY <1>2, <1>3 DEF Calls
<1>6. client' = [client EXCEPT ![c] = n]
  BY <1>1 DEF seen, k
<1> HIDE DEF n
<1>7. BusyNoted(n, noted)
  BY <1>4, <1>5 DEF BusyNoted, Busy
<1>8. CallExact(n, noted)
  BY <1>2, <1>5, <1>7 DEF CallExact, TargetFree, UsableKept
<1>9. wasBusy' = [wasBusy EXCEPT ![c] = noted] /\ UNCHANGED <<behavior, slot>>
  BY DEF ReadCollection
<1> HIDE DEF noted
<1>10. noted \in SUBSET Members
  BY DEF noted
<1>11. QED
  BY <1>5, <1>6, <1>8, <1>9, <1>10, LocalStep

\* The history of c is left as it is.
LEMMA HistoryKept ==
  ASSUME AccountsInv, NEW c \in Clients, UNCHANGED wasBusy
  PROVE  wasBusy' = [wasBusy EXCEPT ![c] = wasBusy[c]]
  BY DEF AccountsInv, AccountsTypeOK

\* create_account begins its scan with all members to look at.
LEMMA CreateInSlotInv ==
  ASSUME AccountsInv, NEW c \in Clients, CreateInSlot(c)
  PROVE  AccountsInv'
<1> DEFINE k == client[c]
           n == [k EXCEPT !.pc = "scan", !.todo = Members]
<1>1. /\ k.pc = "holding" /\ behavior = "FixedSlots" /\ client' = [client EXCEPT ![c] = n]
      /\ UNCHANGED <<behavior, slot, wasBusy>>
  BY DEF CreateInSlot, GoesOn
<1>2. k \in Calls /\ CallExact(k, wasBusy[c]) /\ wasBusy[c] \in SUBSET Members
  BY OneClient
<1> HIDE DEF k
<1>3. /\ n \in Calls /\ n.pc = "scan" /\ n.todo = Members /\ n.account = k.account
      /\ n.expanded = k.expanded /\ n.seen = k.seen /\ n.result = k.result
  BY <1>2 DEF Calls
<1> HIDE DEF n
<1>4. BusyNoted(n, wasBusy[c])
  BY <1>1, <1>2, <1>3 DEF CallExact, BusyNoted
<1>5. UsableKept(n, wasBusy[c])
  BY <1>1, <1>2, <1>3 DEF CallExact, UsableKept, Usable
<1>6. CallExact(n, wasBusy[c])
  BY <1>2, <1>3, <1>4, <1>5 DEF CallExact, TargetFree
<1>7. QED
  BY <1>1, <1>2, <1>3, <1>6, HistoryKept, LocalStep

\* The least of some members is one of them.
LEMMA LowestMember ==
  ASSUME NEW S \in SUBSET Members, S # {}
  PROVE  Min(S) \in S /\ Min(S) \in Members /\ \A m \in S : Min(S) <= m
<1>1. S \in SUBSET Nat
  BY AccountsAssumption
<1>2. QED
  BY <1>1, MinOfNaturals

\* The scan drops no slot that stayed free: what it reads and does not keep as
\* a candidate was busy, inlined or now.
LEMMA ScanInv ==
  ASSUME AccountsInv, NEW c \in Clients, Scan(c)
  PROVE  AccountsInv'
<1> DEFINE k == client[c]
           batch == IF k.expanded THEN k.todo ELSE {Min(k.todo)}
           found == {m \in batch : IsCandidate(c, m)}
           n == [k EXCEPT !.todo = k.todo \ batch, !.seen = Idle.seen,
                          !.candidates = k.candidates \cup found]
<1>1. /\ k.pc = "scan" /\ k.todo # {} /\ client' = [client EXCEPT ![c] = n]
      /\ UNCHANGED <<behavior, slot, wasBusy>>
  BY DEF Scan, GoesOn
<1>2. k \in Calls /\ CallExact(k, wasBusy[c]) /\ wasBusy[c] \in SUBSET Members
  BY OneClient
<1>3. k.todo \in SUBSET Members /\ k.candidates \in SUBSET Members
  BY <1>2 DEF Calls
<1>4. batch \subseteq k.todo
  BY <1>1, <1>3, LowestMember
<1> HIDE DEF batch
<1>5. Idle.seen = [m \in Members |-> Nobody] /\ Idle.seen \in [Members -> Owners]
  <2>1. Idle.seen = [m \in Members |-> Nobody]
    BY DEF Idle
  <2>2. QED
    BY <2>1 DEF Owners
<1>6. found \in SUBSET Members
  BY <1>3, <1>4
<1>7. /\ behavior = "FixedSlots" /\ k.result # "no slot"
      /\ \A m \in Members : Busy(m) \/ (k.expanded /\ k.seen[m] # Nobody) => m \in wasBusy[c]
      /\ Usable(wasBusy[c]) \subseteq k.todo \cup k.candidates
  BY <1>1, <1>2 DEF CallExact, BusyNoted, UsableKept
<1>8. \A m \in Usable(wasBusy[c]) : m \in batch => m \in found
  <2> SUFFICES ASSUME NEW m \in Usable(wasBusy[c]), m \in batch PROVE IsCandidate(c, m)
    OBVIOUS
  <2>1. m \in Slots /\ m \in Members /\ m \notin NotNumbered /\ m \notin wasBusy[c]
    BY DEF Usable
  <2>2. View(c, m) = Nobody
    BY <1>7, <2>1 DEF View, Busy
  <2>3. QED
    BY <2>1, <2>2 DEF IsCandidate
<1> HIDE DEF k, found
<1>9. /\ n \in Calls /\ n.pc = k.pc /\ n.expanded = k.expanded /\ n.seen = Idle.seen
      /\ n.todo = k.todo \ batch /\ n.candidates = k.candidates \cup found
      /\ n.account = k.account /\ n.result = k.result
  BY <1>2, <1>3, <1>4, <1>5, <1>6 DEF Calls
<1> HIDE DEF n
<1>10. BusyNoted(n, wasBusy[c])
  BY <1>5, <1>7, <1>9 DEF BusyNoted
<1>11. UsableKept(n, wasBusy[c])
  BY <1>1, <1>7, <1>8, <1>9 DEF UsableKept
<1>12. CallExact(n, wasBusy[c])
  BY <1>1, <1>2, <1>9, <1>10, <1>11 DEF CallExact, TargetFree
<1>13. QED
  BY <1>1, <1>2, <1>9, <1>12, HistoryKept, LocalStep

\* A member that can not be batch is skipped and noted, or the call fails.
LEMMA ReadFailsInv ==
  ASSUME AccountsInv, NEW c \in Clients, ReadFails(c)
  PROVE  AccountsInv'
<1> DEFINE k == client[c]
           m == IF k.todo # {} THEN Min(k.todo) ELSE Lowest(k.candidates)
           n == [k EXCEPT !.todo = k.todo \ {m}, !.candidates = k.candidates \ {m}]
           noted == wasBusy[c] \cup {m}
<1>1. /\ k.pc = "scan" /\ (k.todo # {} \/ k.candidates # {})
      /\ \/ /\ client' = [client EXCEPT ![c] = n]
            /\ wasBusy' = [wasBusy EXCEPT ![c] = noted]
         \/ client' = Returned(c, "failed", k.account) /\ wasBusy' = Forgotten(c)
      /\ UNCHANGED <<behavior, slot>>
  BY DEF ReadFails, GoesOn
<1>2. /\ k \in Calls /\ CallExact(k, wasBusy[c]) /\ wasBusy[c] \in SUBSET Members
      /\ k.account \in Handles
  BY OneClient
<1>3. k.todo \in SUBSET Members /\ k.candidates \in SUBSET Members
  BY <1>2 DEF Calls
<1>4. m \in Members
  BY <1>1, <1>3, LowestMember DEF Lowest
<1>5. CASE client' = Returned(c, "failed", k.account) /\ wasBusy' = Forgotten(c)
  <2>1. HandleCurrent(k.account)
    BY <1>2 DEF CallExact
  <2> HIDE DEF k
  <2>2. QED
    BY <1>1, <1>2, <1>5, <2>1, EndsQuietly
<1>6. CASE client' = [client EXCEPT ![c] = n] /\ wasBusy' = [wasBusy EXCEPT ![c] = noted]
  <2> HIDE DEF k, m
  <2>1. /\ n \in Calls /\ n.pc = k.pc /\ n.expanded = k.expanded /\ n.seen = k.seen
        /\ n.todo = k.todo \ {m} /\ n.candidates = k.candidates \ {m}
        /\ n.account = k.account /\ n.result = k.result
    BY <1>2, <1>3 DEF Calls
  <2>2. noted \in SUBSET Members
    BY <1>2, <1>4
  <2> HIDE DEF n
  <2>3. BusyNoted(n, noted)
    BY <1>2, <2>1 DEF CallExact, BusyNoted
  <2>4. UsableKept(n, noted)
    BY <1>1, <1>2, <2>1 DEF CallExact, UsableKept, Usable
  <2>5. CallExact(n, noted)
    BY <1>1, <1>2, <2>1, <2>3, <2>4 DEF CallExact, TargetFree
  <2> HIDE DEF noted
  <2>6. QED
    BY <1>1, <1>6, <2>1, <2>2, <2>5, LocalStep
<1>7. QED
  BY <1>1, <1>5, <1>6

\* The lowest candidate is taken, or dropped because it is busy or has no ETag.
LEMMA RefetchInv ==
  ASSUME AccountsInv, NEW c \in Clients, Refetch(c)
  PROVE  AccountsInv'
<1> DEFINE k == client[c]
           m == Lowest(k.candidates)
           taken == [k EXCEPT !.pc = "patch", !.target = m, !.etag = slot[m].version]
           passed == [k EXCEPT !.candidates = k.candidates \ {m}]
<1>1. /\ k.pc = "scan" /\ k.todo = {} /\ k.candidates # {}
      /\ client' = [client EXCEPT ![c] = IF Takes(m) THEN taken ELSE passed]
      /\ UNCHANGED <<behavior, slot, wasBusy>>
  BY DEF Refetch, GoesOn
<1>2. /\ k \in Calls /\ CallExact(k, wasBusy[c]) /\ wasBusy[c] \in SUBSET Members
      /\ AccountsTypeOK
  BY OneClient
<1>3. k.candidates \in SUBSET Members
  BY <1>2 DEF Calls
<1>4. m \in Members /\ \A j \in k.candidates : m <= j
  BY <1>1, <1>3, LowestMember DEF Lowest
<1>5. m \in Nat /\ slot[m].version \in Nat
  BY <1>2, <1>4, AccountsAssumption DEF AccountsTypeOK
<1>6. /\ behavior = "FixedSlots" /\ k.result # "no slot"
      /\ \A j \in Members : Busy(j) \/ (k.expanded /\ k.seen[j] # Nobody) => j \in wasBusy[c]
      /\ Usable(wasBusy[c]) \subseteq k.candidates
  BY <1>1, <1>2 DEF CallExact, BusyNoted, UsableKept
<1> HIDE DEF k, m
<1>7. CASE Takes(m)
  <2>1. /\ taken \in Calls /\ taken.pc = "patch" /\ taken.target = m
        /\ taken.etag = slot[m].version /\ taken.expanded = k.expanded /\ taken.seen = k.seen
        /\ taken.account = k.account /\ taken.result = k.result
    BY <1>2, <1>5 DEF Calls
  <2>2. client' = [client EXCEPT ![c] = taken]
    BY <1>1, <1>7
  <2> HIDE DEF taken
  <2>3. TargetFree(taken)
    BY <1>4, <1>5, <1>7, <2>1 DEF TargetFree, Takes
  <2>4. BusyNoted(taken, wasBusy[c])
    BY <1>6, <2>1 DEF BusyNoted
  <2>5. UsableKept(taken, wasBusy[c])
    BY <1>4, <1>6, <2>1 DEF UsableKept
  <2>6. CallExact(taken, wasBusy[c])
    BY <1>2, <2>1, <2>3, <2>4, <2>5 DEF CallExact
  <2>7. QED
    BY <1>1, <1>2, <2>1, <2>2, <2>6, HistoryKept, LocalStep
<1>8. CASE ~Takes(m)
  <2>1. /\ passed \in Calls /\ passed.pc = k.pc /\ passed.todo = k.todo
        /\ passed.candidates = k.candidates \ {m}
        /\ passed.expanded = k.expanded /\ passed.seen = k.seen
        /\ passed.account = k.account /\ passed.result = k.result
    BY <1>2, <1>3 DEF Calls
  <2>2. client' = [client EXCEPT ![c] = passed]
    BY <1>1, <1>8
  <2> HIDE DEF passed
  <2>3. m \notin Usable(wasBusy[c])
    BY <1>4, <1>6, <1>8 DEF Usable, Takes
  <2>4. BusyNoted(passed, wasBusy[c])
    BY <1>6, <2>1 DEF BusyNoted
  <2>5. UsableKept(passed, wasBusy[c])
    BY <1>1, <1>6, <2>1, <2>3 DEF UsableKept
  <2>6. CallExact(passed, wasBusy[c])
    BY <1>1, <1>2, <2>1, <2>4, <2>5 DEF CallExact, TargetFree
  <2>7. QED
    BY <1>1, <1>2, <2>1, <2>2, <2>6, HistoryKept, LocalStep
<1>9. QED
  BY <1>7, <1>8

\* Error::AccountSlotNotAvailable is true: no usable slot stayed free.
LEMMA NoSlotFoundInv ==
  ASSUME AccountsInv, NEW c \in Clients, NoSlotFound(c)
  PROVE  AccountsInv'
<1> DEFINE k == client[c]
           n == [Idle EXCEPT !.result = "no slot", !.account = k.account]
<1>1. /\ k.pc = "scan" /\ k.todo = {} /\ k.candidates = {}
      /\ client' = [client EXCEPT ![c] = n]
      /\ UNCHANGED <<behavior, slot, wasBusy>>
  BY DEF NoSlotFound, Returned
<1>2. /\ k \in Calls /\ CallExact(k, wasBusy[c]) /\ wasBusy[c] \in SUBSET Members
      /\ k.account \in Handles /\ AccountsTypeOK
  BY OneClient
<1>3. Usable(wasBusy[c]) = {} /\ HandleCurrent(k.account)
  BY <1>1, <1>2 DEF CallExact, UsableKept
<1> HIDE DEF k
<1>4. n \in Calls /\ CallExact(n, wasBusy[c])
  <2>1. n \in Calls /\ n.account = k.account /\ n.pc = "idle" /\ n.result = "no slot"
    BY <1>2, IdleType DEF Calls
  <2> HIDE DEF n
  <2>2. QED
    BY <1>3, <2>1, IdleExact
<1> HIDE DEF n
<1>5. QED
  BY <1>1, <1>2, <1>4, HistoryKept, LocalStep

\* A call that ends with a change of a slot, or none.
LEMMA EndsWithChange ==
  ASSUME AccountsInv, NEW c \in Clients, NEW r \in {"none", "created", "failed"},
         NEW h \in Handles, HandleCurrent(h)', client' = Returned(c, r, h),
         UNCHANGED behavior, SlotStep,
         wasBusy' \in [Clients -> SUBSET Members], wasBusy'[c] = {},
         \A d \in Clients \ {c} : wasBusy[d] \subseteq wasBusy'[d],
         behavior = "FixedSlots" =>
           \A d \in Clients \ {c} : client[d].pc # "idle" =>
             \A m \in Members : Busy(m)' => Busy(m) \/ m \in wasBusy'[d]
  PROVE  AccountsInv'
<1>1. PICK n : n = [Idle EXCEPT !.result = r, !.account = h]
  OBVIOUS
<1>2. n \in Calls /\ n.account = h /\ n.pc = "idle" /\ n.result = r
  BY <1>1, IdleType DEF Calls
<1>3. CallExact(n, {})'
  BY <1>2 DEF CallExact, TargetFree, BusyNoted, UsableKept
<1>4. client' = [client EXCEPT ![c] = n]
  BY <1>1 DEF Returned
<1>5. PICK noted : noted = {}
  OBVIOUS
<1>6. CallExact(n, noted)' /\ noted = wasBusy'[c]
  BY <1>3, <1>5
<1>7. QED
  BY <1>2, <1>4, <1>6, ClientStep

\* The handle of an account that was just written, or just read.
LEMMA HandleType ==
  ASSUME NEW m \in Members, NEW o \in Owners, NEW v \in Nat
  PROVE  /\ Handle(m, o, v) \in Handles
         /\ Handle(m, o, v).slot = m /\ Handle(m, o, v).owner = o
         /\ Handle(m, o, v).etag = IF m \in Untagged THEN Nobody ELSE v
<1>1. m \in Nat
  BY AccountsAssumption
<1>2. QED
  BY <1>1 DEF Handle, Handles

LEMMA NewHandle ==
  ASSUME AccountsTypeOK, NEW m \in Members, NEW o \in Owners,
         slot' = Changed(m, o), NEW h, h = Handle(m, o, slot[m].version + 1)
  PROVE  h \in Handles /\ HandleCurrent(h)'
<1>1. slot[m].version + 1 \in Nat
  BY DEF AccountsTypeOK
<1>2. slot'[m] = [owner |-> o, version |-> slot[m].version + 1]
  BY DEF AccountsTypeOK, Changed
<1>3. /\ h \in Handles /\ h.slot = m /\ h.owner = o
      /\ h.etag = IF m \in Untagged THEN Nobody ELSE slot[m].version + 1
  BY <1>1, HandleType
<1>4. HandleCurrent(h)'
  BY <1>1, <1>2, <1>3, AccountsAssumption DEF HandleCurrent
<1>5. QED
  BY <1>3, <1>4

\* The update with the fresh ETag is applied to a slot that is still free, or
\* fails; the others note that the slot is busy now.
LEMMA TakeSlotInv ==
  ASSUME AccountsInv, NEW c \in Clients, TakeSlot(c)
  PROVE  AccountsInv'
<1> DEFINE k == client[c]
           m == k.target
<1>1. k.pc = "patch" /\ UNCHANGED behavior
  BY DEF TakeSlot
<1>2. /\ k \in Calls /\ CallExact(k, wasBusy[c]) /\ AccountsTypeOK /\ k.account \in Handles
  BY OneClient
<1>3. m \in Members /\ m \notin Untagged /\ HandleCurrent(k.account)
  BY <1>1, <1>2 DEF CallExact, TargetFree
<1>4. c \in Owners
  BY DEF Owners
<1>5. CASE client' = Returned(c, "failed", k.account) /\ wasBusy' = Forgotten(c) /\ UNCHANGED slot
  BY <1>1, <1>2, <1>3, <1>5, EndsQuietly
<1>6. CASE /\ slot' = Changed(m, c)
           /\ \E result \in {"created", "failed"} :
                 client' = Returned(c, result, IF result = "created"
                                               THEN Handle(m, c, slot[m].version + 1)
                                               ELSE k.account)
           /\ wasBusy' = [d \in Clients |-> CASE d = c -> {}
                                              [] client[d].pc = "idle" -> wasBusy[d]
                                              [] OTHER -> wasBusy[d] \cup {m}]
  <2>1. SlotStep
    BY <1>3, <1>4, <1>6 DEF SlotStep
  <2>2. PICK r, h :
           /\ r \in {"created", "failed"}
           /\ h = Handle(m, c, slot[m].version + 1) \/ h = k.account
           /\ client' = Returned(c, r, h)
    BY <1>6
  <2>3. h \in Handles /\ HandleCurrent(h)'
    BY <1>2, <1>3, <1>4, <1>6, <2>1, <2>2, NewHandle, HandleKept
  <2>4. k.pc # "idle"
    BY <1>1
  <2>5. wasBusy'[c] = {}
    BY <1>6, <2>4
  <2>6. \A d \in Clients \ {c} :
          /\ wasBusy[d] \in SUBSET Members
          /\ client[d].pc = "idle" => wasBusy'[d] = wasBusy[d]
          /\ client[d].pc # "idle" => wasBusy'[d] = wasBusy[d] \cup {m}
    BY <1>2, <1>6 DEF AccountsTypeOK
  <2>7. wasBusy' \in [Clients -> SUBSET Members]
    <3>1. \A d \in Clients : wasBusy'[d] \in SUBSET Members
      BY <1>3, <2>5, <2>6
    <3>2. QED
      BY <1>6, <3>1
  <2>8. \A j \in Members : Busy(j)' => Busy(j) \/ j = m
    BY <1>2, <1>6 DEF Busy, Changed, AccountsTypeOK
  <2> HIDE DEF m, k
  <2>9. QED
    BY <1>1, <2>1, <2>2, <2>3, <2>5, <2>6, <2>7, <2>8, EndsWithChange
<1>7. QED
  BY <1>5, <1>6 DEF TakeSlot

\* create_account where accounts are resources; nobody scans for slots there.
LEMMA PostInv ==
  ASSUME AccountsInv, NEW c \in Clients, Post(c)
  PROVE  AccountsInv'
<1>1. PICK m \in Members : /\ slot' = Changed(m, c)
                           /\ client' = Returned(c, "created", Handle(m, c, slot[m].version + 1))
  BY DEF Post
<1>2. behavior = "Standard" /\ UNCHANGED behavior /\ wasBusy' = [wasBusy EXCEPT ![c] = {}]
  BY DEF Post, Forgotten
<1>3. AccountsTypeOK /\ c \in Owners
  BY OneClient DEF Owners
<1>4. SlotStep
  BY <1>1, <1>3 DEF SlotStep
<1>5. PICK h : h = Handle(m, c, slot[m].version + 1)
  OBVIOUS
<1>6. h \in Handles /\ HandleCurrent(h)'
  BY <1>1, <1>3, <1>5, NewHandle
<1>7. /\ wasBusy' \in [Clients -> SUBSET Members] /\ wasBusy'[c] = {}
      /\ \A d \in Clients \ {c} : wasBusy'[d] = wasBusy[d]
  BY <1>2, <1>3 DEF AccountsTypeOK
<1>8. client' = Returned(c, "created", h)
  BY <1>1, <1>5
<1>9. QED
  BY <1>2, <1>4, <1>6, <1>7, <1>8, EndsWithChange

\* The caller keeps an account of the list: its owner in the version it has.
LEMMA ListInv ==
  ASSUME AccountsInv, NEW c \in Clients, List(c)
  PROVE  AccountsInv'
<1>1. PICK m \in Members :
         /\ client[c].expanded => client[c].seen[m] = slot[m].owner
         /\ client' = Returned(c, "none", Handle(m, View(c, m), slot[m].version))
  BY DEF List
<1>2. View(c, m) = slot[m].owner
  BY <1>1 DEF View
<1>3. slot[m].owner \in Owners /\ slot[m].version \in Nat
  BY OneClient DEF AccountsTypeOK
<1>4. PICK h : h = Handle(m, slot[m].owner, slot[m].version)
  OBVIOUS
<1>5. /\ h \in Handles /\ h.slot = m /\ h.owner = slot[m].owner
      /\ h.etag = IF m \in Untagged THEN Nobody ELSE slot[m].version
  BY <1>3, <1>4, HandleType
<1>6. HandleCurrent(h)
  BY <1>3, <1>5, AccountsAssumption DEF HandleCurrent
<1>7. client' = Returned(c, "none", h) /\ wasBusy' = Forgotten(c) /\ UNCHANGED <<behavior, slot>>
  BY <1>1, <1>2, <1>4 DEF List
<1>8. QED
  BY <1>5, <1>6, <1>7, EndsQuietly

\* A deletion frees the slot of the handle, if it is applied, and uses it up.
LEMMA DeleteEffect ==
  ASSUME AccountsInv, NEW c \in Clients, Delete(c)
  PROVE  LET h == client[c].account
         IN  /\ h # NoHandle /\ h.slot \in Members /\ HandleCurrent(h)
             /\ slot' = slot \/ (Deletes(h) /\ slot' = Changed(h.slot, Nobody))
             /\ client' = [client EXCEPT ![c].account = NoHandle]
             /\ UNCHANGED <<behavior, wasBusy>>
<1>1. client[c].account # NoHandle /\ HandleCurrent(client[c].account)
  BY OneClient DEF Delete, CallExact
<1>2. client[c].account.slot \in Members
  BY <1>1 DEF HandleCurrent
<1>3. QED
  BY <1>1, <1>2 DEF Delete

LEMMA DeleteInv ==
  ASSUME AccountsInv, NEW c \in Clients, Delete(c)
  PROVE  AccountsInv'
<1>1. PICK k, h, busy : k = client[c] /\ h = client[c].account /\ busy = wasBusy[c]
  OBVIOUS
<1>2. /\ h.slot \in Members
      /\ slot' = slot \/ slot' = Changed(h.slot, Nobody)
      /\ client' = [client EXCEPT ![c].account = NoHandle]
      /\ UNCHANGED <<behavior, wasBusy>>
  BY <1>1, DeleteEffect
<1>3. /\ AccountsTypeOK /\ k \in Calls /\ CallExact(k, busy) /\ busy \in SUBSET Members
      /\ wasBusy \in [Clients -> SUBSET Members]
  BY <1>1, OneClient DEF AccountsTypeOK
<1>4. Nobody \in Owners /\ NoHandle \in Handles
  BY DEF Owners, NoHandle, Handles
<1>5. SlotStep
  BY <1>2, <1>4 DEF SlotStep
<1>6. \A m \in Members : Busy(m)' => Busy(m)
  BY <1>2, <1>3 DEF Busy, Changed, AccountsTypeOK
<1>7. CallExact(k, busy)'
  BY <1>2, <1>3, <1>5, <1>6, CallKept
<1>8. PICK n : n = [k EXCEPT !.account = NoHandle]
  OBVIOUS
<1>9. /\ n \in Calls /\ n.account = NoHandle /\ n.pc = k.pc /\ n.result = k.result
      /\ n.target = k.target /\ n.etag = k.etag /\ n.expanded = k.expanded
      /\ n.seen = k.seen /\ n.todo = k.todo /\ n.candidates = k.candidates
  BY <1>3, <1>4, <1>8 DEF Calls
<1>10. client' = [client EXCEPT ![c] = n]
  BY <1>1, <1>2, <1>3, <1>8 DEF AccountsTypeOK
<1>11. HandleCurrent(n.account)' /\ TargetFree(n)'
  BY <1>7, <1>9 DEF CallExact, HandleCurrent, TargetFree, NoHandle, Busy
<1>12. BusyNoted(n, busy)' /\ UsableKept(n, busy)'
  BY <1>7, <1>9 DEF CallExact, BusyNoted, UsableKept, Busy, Usable
<1>13. CallExact(n, busy)'
  BY <1>11, <1>12 DEF CallExact
<1>14. QED
  BY <1>1, <1>2, <1>3, <1>5, <1>6, <1>9, <1>10, <1>13, ClientStep

\* Every call of every client, in whatever order, keeps the invariant.
LEMMA AccountsNextInv == AccountsInv /\ [AccountsNext]_accountVars => AccountsInv'
<1> SUFFICES ASSUME AccountsInv, [AccountsNext]_accountVars PROVE AccountsInv'
  OBVIOUS
<1>1. CASE UNCHANGED accountVars
  <2>1. UNCHANGED <<behavior, slot, client, wasBusy>>
    BY <1>1 DEF accountVars
  <2>2. AccountsTypeOK'
    BY <2>1 DEF AccountsInv, AccountsTypeOK
  <2>3. ASSUME NEW c \in Clients PROVE CallExact(client[c], wasBusy[c])'
    <3>1. CallExact(client[c], wasBusy[c])
      BY DEF AccountsInv
    <3>2. QED
      BY <2>1, <3>1
         DEF CallExact, HandleCurrent, TargetFree, BusyNoted, UsableKept, Usable, Busy
  <2>4. QED
    BY <2>2, <2>3 DEF AccountsInv
<1>2. CASE AccountsNext
  BY <1>2, ReadCollectionInv, CreateInSlotInv, ScanInv, ReadFailsInv, RefetchInv,
     NoSlotFoundInv, TakeSlotInv, PostInv, ListInv, DeleteInv DEF AccountsNext
<1>3. QED
  BY <1>1, <1>2

\* The handles, the targets and the histories stay exact for any number of
\* clients of one account service.
THEOREM AccountsInvariance == AccountsSpec => []AccountsInv
<1>1. AccountsInit => AccountsInv
  <2> SUFFICES ASSUME AccountsInit PROVE AccountsInv
    OBVIOUS
  <2>1. behavior \in {"Standard", "FixedSlots"}
    BY DEF AccountsInit, ConfigOf
  <2>2. slot \in [Members -> [owner : Owners, version : Nat]]
    BY DEF AccountsInit, Owners
  <2>3. client \in [Clients -> Calls] /\ wasBusy \in [Clients -> SUBSET Members]
    BY IdleType DEF AccountsInit
  <2>4. Idle.account = NoHandle /\ Idle.result = "none" /\ Idle.pc = "idle"
    BY DEF Idle
  <2>5. HandleCurrent(Idle.account)
    BY <2>4 DEF HandleCurrent
  <2>6. ASSUME NEW c \in Clients PROVE CallExact(client[c], wasBusy[c])
    <3>1. client[c] = Idle
      BY DEF AccountsInit
    <3>2. QED
      BY <2>4, <2>5, <3>1, IdleExact
  <2>7. QED
    BY <2>1, <2>2, <2>3, <2>6 DEF AccountsInv, AccountsTypeOK
<1>2. QED
  BY <1>1, AccountsNextInv, PTL DEF AccountsSpec

\* A usable slot that was free all through the call is found: AccountSlotNotAvailable
\* is only said, and a higher slot only taken, when there was no such slot.
THEOREM FreeSlotCorrect == AccountsSpec => []FreeSlotFound
<1>1. AccountsInv => FreeSlotFound
  <2> SUFFICES ASSUME AccountsInv, NEW c \in Clients
               PROVE  /\ client[c].result = "no slot" => Usable(wasBusy[c]) = {}
                      /\ client[c].pc = "patch" =>
                           \A m \in Usable(wasBusy[c]) : m >= client[c].target
    BY DEF FreeSlotFound, Usable
  <2>1. UsableKept(client[c], wasBusy[c]) /\ client[c] \in Calls
    BY OneClient DEF CallExact
  <2>2. client[c].target \in Nat /\ \A m \in Usable(wasBusy[c]) : m \in Nat
    BY <2>1, AccountsAssumption DEF Calls, Usable
  <2>3. QED
    BY <2>1, <2>2 DEF UsableKept
<1>2. QED
  BY <1>1, AccountsInvariance, PTL

\* Nobody loses an account to somebody else's call: a slot that has an owner is
\* freed only over a handle that stands for that owner's account, except where
\* the device gives no ETag or accounts are deleted as resources.
THEOREM AccountsKeptCorrect == AccountsSpec => AccountsKept
<1> DEFINE Kept(m) ==
      Busy(m) /\ slot'[m].owner # slot[m].owner =>
          /\ slot'[m].owner = Nobody
          /\ \E c \in Clients :
                /\ client[c].account.slot = m /\ client'[c].account = NoHandle
                /\ \/ client[c].account.owner = slot[m].owner
                   \/ behavior = "Standard" \/ m \in Untagged
           Step == \A m \in Members : Kept(m)
<1>1. AccountsInv /\ [AccountsNext]_accountVars => [Step]_accountVars
  <2> SUFFICES ASSUME AccountsInv, AccountsNext, NEW m \in Members,
                      Busy(m), slot'[m].owner # slot[m].owner
               PROVE  /\ slot'[m].owner = Nobody
                      /\ \E c \in Clients :
                            /\ client[c].account.slot = m /\ client'[c].account = NoHandle
                            /\ \/ client[c].account.owner = slot[m].owner
                               \/ behavior = "Standard" \/ m \in Untagged
    OBVIOUS
  <2>1. PICK c \in Clients : TakeSlot(c) \/ Post(c) \/ Delete(c)
    BY DEF AccountsNext, ReadCollection, CreateInSlot, Scan, ReadFails, Refetch, NoSlotFound, List
  <2>2. /\ AccountsTypeOK /\ client[c] \in Calls /\ CallExact(client[c], wasBusy[c])
    BY OneClient
  <2>3. \A j \in Members : \A o : slot' = Changed(j, o) => j = m /\ slot'[m].owner = o
    BY <2>2 DEF Changed, AccountsTypeOK
  <2>4. ~TakeSlot(c)
    <3> SUFFICES ASSUME TakeSlot(c) PROVE FALSE
      OBVIOUS
    <3>1. /\ client[c].pc = "patch"
          /\ client[c].etag = slot[client[c].target].version \/ client[c].target \in Untagged
          /\ slot' = Changed(client[c].target, c)
      BY DEF TakeSlot
    <3>2. client[c].target \in Members \ Untagged /\ ~Busy(client[c].target)
      BY <2>2, <3>1 DEF CallExact, TargetFree
    <3>3. QED
      BY <2>3, <3>1, <3>2
  <2>5. ~Post(c)
    BY <2>3 DEF Post
  <2>6. Delete(c)
    BY <2>1, <2>4, <2>5
  <2>7. PICK h : h = client[c].account
    OBVIOUS
  <2>8. /\ h # NoHandle /\ h.slot \in Members /\ HandleCurrent(h)
        /\ slot' = slot \/ (Deletes(h) /\ slot' = Changed(h.slot, Nobody))
        /\ client' = [client EXCEPT ![c].account = NoHandle]
    BY <2>6, <2>7, DeleteEffect
  <2>9. Deletes(h) /\ slot' = Changed(h.slot, Nobody)
    BY <2>8
  <2>10. h.slot = m /\ slot'[m].owner = Nobody
    BY <2>3, <2>8, <2>9
  <2>11. client'[c].account = NoHandle
    BY <2>2, <2>8 DEF AccountsTypeOK, Calls
  <2>12. behavior = "Standard" \/ m \in Untagged \/ h.owner = slot[m].owner
    BY <2>8, <2>9, <2>10 DEF Deletes, HandleCurrent
  <2>13. QED
    BY <2>7, <2>10, <2>11, <2>12
<1>2. QED
  BY <1>1, AccountsInvariance, PTL DEF AccountsSpec, AccountsKept

(***************************************************************************)
(* The compatibility layer: replies to writes and event records.           *)
(***************************************************************************)
\* The layer's own specification.  What is read and how it is repaired is left
\* open, so it covers every document and every rule of CompatReads.
AnyRead == MayCall /\ \E doc, result, rules : Reads(doc, result, rules)
CompatSpec == CompatInit /\ [][CompatStep \/ AnyRead]_compatVars

\* Only AMI services refuse their own ETags.
LEMMA OwnEtagVendors ==
  ASSUME NEW e, "RejectsOwnEtag" \in Classify(e)
  PROVE  e.vendor \in {"AMI", "Lenovo"}
<1>1. "RejectsOwnEtag" \notin ProductRules(e)
  BY DEF ProductRules, When
<1>2. "RejectsOwnEtag" \in VendorRules(e)
  BY <1>1 DEF Classify
<1>3. QED
  BY <1>2 DEF VendorRules, When

\* Only HPE refuses the wildcard.
LEMMA WildcardVendors ==
  ASSUME NEW e, "RejectsWildcardEtag" \in Classify(e)
  PROVE  e.vendor = "HPE"
<1>1. "RejectsWildcardEtag" \notin ProductRules(e)
  BY DEF ProductRules, When
<1>2. "RejectsWildcardEtag" \in VendorRules(e)
  BY <1>1 DEF Classify
<1>3. QED
  BY <1>2 DEF VendorRules, When

\* No service refuses both its own ETags and the wildcard.
LEMMA SomeEtagTaken ==
  ASSUME NEW e
  PROVE  ~("RejectsOwnEtag" \in Classify(e) /\ "RejectsWildcardEtag" \in Classify(e))
  BY OwnEtagVendors, WildcardVendors

\* The messages of a short list.
LEMMA ShortLists ==
  ASSUME NEW m, NEW n
  PROVE  Range(<<>>) = {} /\ Range(<<m>>) = {m} /\ Range(<<m, n>>) = {m, n}
  BY DEF Range

\* Every success of the device is read as one.
LEMMA SuccessRead ==
  ASSUME NEW quirks, NEW reply \in SuccessForms(quirks)
  PROVE  UpdateReply(quirks, reply) # "Error"
<1>1. CASE \E c \in {"Entity", "Empty", "Message", "Task"} : reply = [class |-> c]
  BY <1>1 DEF UpdateReply
<1>2. CASE "AcceptedUpdateWithoutTask" \in quirks /\ reply = FailureOf(202, Plain, <<>>)
  <2>1. reply.class = "Error" /\ reply.error.status = 202
    BY <1>2 DEF FailureOf
  <2>2. QED
    BY <1>2, <2>1 DEF UpdateReply
<1>3. CASE "AnnotationOnlyUpdateReply" \in quirks /\ reply = [class |-> "AnnotationsOnly"]
  BY <1>3 DEF UpdateReply
<1>4. ASSUME "SuccessAsExtendedInfoError" \in quirks, NEW messages,
             reply = FailureOf(200, IloCode, messages), IloSuccess(IloCode, messages)
      PROVE  UpdateReply(quirks, reply) # "Error"
  <2>1. /\ reply.class = "Error" /\ reply.error.status = 200 /\ reply.error.code = IloCode
        /\ reply.error.messages = messages
    BY <1>4 DEF FailureOf
  <2>2. FailedWrite(quirks, reply.error) = "Message"
    BY <1>4, <2>1 DEF FailedWrite
  <2>3. QED
    BY <2>1, <2>2 DEF UpdateReply
<1>5. IloSuccess(IloCode, <<<<"iLO", "SystemResetRequired", FALSE>>>>)
  <2>1. PICK m : m = <<"iLO", "SystemResetRequired", FALSE>>
    OBVIOUS
  <2>2. m[1] = "iLO" /\ m[2] = "SystemResetRequired" /\ ~m[3]
    BY <2>1
  <2>3. Range(<<m>>) = {m} /\ <<m>> # <<>> /\ IloCode[1] = "iLO" /\ IloCode[2] = "ExtendedInfo"
    BY ShortLists DEF IloCode
  <2>4. IloSuccess(IloCode, <<m>>)
    BY <2>2, <2>3 DEF IloSuccess, IloSuccessMessages, Outcomes
  <2>5. QED
    BY <2>1, <2>4
<1>6. IloSuccess(IloCode, <<<<"Base", "Success", FALSE>>, <<"Base", "PropertyValueModified", FALSE>>>>)
  <2>1. PICK m : m = <<"Base", "Success", FALSE>>
    OBVIOUS
  <2>2. PICK n : n = <<"Base", "PropertyValueModified", FALSE>>
    OBVIOUS
  <2>3. /\ m[1] = "Base" /\ m[2] = "Success" /\ ~m[3]
        /\ n[1] = "Base" /\ n[2] = "PropertyValueModified" /\ ~n[3]
    BY <2>1, <2>2
  <2>4. Range(<<m, n>>) = {m, n} /\ <<m, n>> # <<>> /\ IloCode[1] = "iLO" /\ IloCode[2] = "ExtendedInfo"
    BY ShortLists DEF IloCode
  <2>5. IloSuccess(IloCode, <<m, n>>)
    BY <2>3, <2>4 DEF IloSuccess, IloSuccessMessages, Outcomes
  <2>6. QED
    BY <2>1, <2>2, <2>5
<1>7. QED
  BY <1>1, <1>2, <1>3, <1>4, <1>5, <1>6 DEF SuccessForms

\* Every refusal of the device is read as one, and so is a failed precondition.
LEMMA RefusalRead ==
  ASSUME NEW quirks,
         NEW reply \in RefusalForms(quirks) \cup {FailureOf(412, Plain, <<>>)}
  PROVE  UpdateReply(quirks, reply) = "Error"
<1>1. ASSUME NEW status, NEW code, NEW messages, reply = FailureOf(status, code, messages),
             status # 202, status = 200 => ~IloSuccess(code, messages)
      PROVE  UpdateReply(quirks, reply) = "Error"
  <2>1. /\ reply.class = "Error" /\ reply.error.status = status /\ reply.error.code = code
        /\ reply.error.messages = messages
    BY <1>1 DEF FailureOf
  <2>2. FailedWrite(quirks, reply.error) = "Error"
    BY <1>1, <2>1 DEF FailedWrite
  <2>3. QED
    BY <1>1, <2>1, <2>2 DEF UpdateReply
<1>2. ~IloSuccess(IloCode, <<<<"iLO", "InvalidOperationForSystemState", FALSE>>>>)
  <2>1. PICK m : m = <<"iLO", "InvalidOperationForSystemState", FALSE>>
    OBVIOUS
  <2>2. m[1] = "iLO" /\ m[2] = "InvalidOperationForSystemState" /\ ~m[3]
    BY <2>1
  <2>3. Range(<<m>>) = {m} /\ <<m>> # <<>> /\ IloCode[1] = "iLO" /\ IloCode[2] = "ExtendedInfo"
    BY ShortLists DEF IloCode
  <2>4. ~IloSuccess(IloCode, <<m>>)
    BY <2>2, <2>3 DEF IloSuccess, IloSuccessMessages, Outcomes
  <2>5. QED
    BY <2>1, <2>4
<1>3. ~IloSuccess(IloCode, <<<<"iLO", "ResetRequired", FALSE>>, <<"Base", "InternalError", FALSE>>>>)
  <2>1. PICK m : m = <<"iLO", "ResetRequired", FALSE>>
    OBVIOUS
  <2>2. PICK n : n = <<"Base", "InternalError", FALSE>>
    OBVIOUS
  <2>3. /\ m[1] = "iLO" /\ m[2] = "ResetRequired" /\ ~m[3]
        /\ n[1] = "Base" /\ n[2] = "InternalError" /\ ~n[3]
    BY <2>1, <2>2
  <2>4. Range(<<m, n>>) = {m, n} /\ <<m, n>> # <<>> /\ IloCode[1] = "iLO" /\ IloCode[2] = "ExtendedInfo"
    BY ShortLists DEF IloCode
  <2>5. ~IloSuccess(IloCode, <<m, n>>)
    BY <2>3, <2>4 DEF IloSuccess, IloSuccessMessages, Outcomes
  <2>6. QED
    BY <2>1, <2>2, <2>5
<1>4. ~IloSuccess(IloCode, <<<<"Base", "Success", FALSE>>, <<"Base", "InternalError", TRUE>>>>)
  <2>1. PICK m : m = <<"Base", "Success", FALSE>>
    OBVIOUS
  <2>2. PICK n : n = <<"Base", "InternalError", TRUE>>
    OBVIOUS
  <2>3. /\ m[1] = "Base" /\ m[2] = "Success" /\ ~m[3]
        /\ n[1] = "Base" /\ n[2] = "InternalError" /\ n[3]
    BY <2>1, <2>2
  <2>4. Range(<<m, n>>) = {m, n} /\ <<m, n>> # <<>> /\ IloCode[1] = "iLO" /\ IloCode[2] = "ExtendedInfo"
    BY ShortLists DEF IloCode
  <2>5. ~IloSuccess(IloCode, <<m, n>>)
    BY <2>3, <2>4 DEF IloSuccess, IloSuccessMessages, Outcomes
  <2>6. QED
    BY <2>1, <2>2, <2>5
<1>5. ~IloSuccess(IloCode, <<>>)
  BY ShortLists DEF IloSuccess, IloCode, IloSuccessMessages, Outcomes
<1>6. QED
  BY <1>1, <1>2, <1>3, <1>4, <1>5 DEF RefusalForms

\* An update that was called, or whose ETag was read first: nothing it knows
\* of the resource is newer than the resource.
Asked(w) ==
  /\ w = [kind |-> "called", given |-> w.given, at |-> w.at]
  /\ w.given = NoEtag \/ \E v : w.given = EtagOf(v)
Looked(w) ==
  /\ w = [kind |-> "read", given |-> w.given, at |-> w.at, etag |-> w.etag]
  /\ w.given = NoEtag /\ w.etag \in {EtagOf(w.at), NoEtag}
  /\ "RejectsOwnEtag" \notin bmcQuirks /\ "RejectsWildcardEtag" \in bmcQuirks

\* What an update that ended must be: reported as it went, over the version
\* that was given, and turned down only over a change or for want of an ETag.
Went(w) ==
  /\ (w.result # "Error") <=> w.fate = "applied"
  /\ (/\ w.fate \in {"applied", "applied unheard"}
      /\ w.given # NoEtag /\ "RejectsOwnEtag" \notin bmcQuirks)
        => w.given = EtagOf(w.over)
  /\ w.fate = "precondition failed"
        => \/ w.given # NoEtag /\ w.given # EtagOf(w.over)
           \/ w.over # w.at
           \/ w.untagged /\ "RejectsWildcardEtag" \in bmcQuirks
WriteInv ==
  \/ write = Nothing
  \/ Asked(write)
  \/ Looked(write)
  \/ write.kind = "done" /\ Went(write)

\* The quirks are those of the service once the layer is ready, and nothing is
\* done before.
LayerInv ==
  \/ stage = "connect" /\ write = Nothing /\ sent = Nothing /\ read = Nothing
  \/ stage = "ready" /\ bmcQuirks = Classify(Evidence(root))

CompatInv == LayerInv /\ WriteInv

\* ETags of different versions differ, and from none and the wildcard.
LEMMA EtagsApart ==
  /\ NoEtag # Wildcard
  /\ \A v : EtagOf(v) # NoEtag /\ EtagOf(v) # Wildcard
  /\ \A v, w : EtagOf(v) = EtagOf(w) => v = w
  BY DEF NoEtag, Wildcard, EtagOf

\* The stages of an update tell themselves apart.
LEMMA WriteKinds ==
  /\ Nothing.kind = "nothing"
  /\ \A w : (Asked(w) => w.kind = "called") /\ (Looked(w) => w.kind = "read")
  BY DEF Nothing, Asked, Looked

\* What is sent with the PATCH, and when the device takes it.
LEMMA PatchCondition ==
  ASSUME CompatInv, write # Nothing, Patch
  PROVE  \/ "RejectsOwnEtag" \in bmcQuirks /\ Accepted(IfMatchSent)
         \/ write.given = NoEtag /\ Accepted(IfMatchSent)
         \/ /\ write.given # NoEtag
            /\ Accepted(IfMatchSent) <=> write.given = EtagOf(current)
         \/ write.given = NoEtag /\ (Accepted(IfMatchSent) <=> write.at = current)
         \/ /\ write.given = NoEtag /\ write.kind = "read" /\ write.etag = NoEtag
            /\ "RejectsWildcardEtag" \in bmcQuirks
<1>1. bmcQuirks = Classify(Evidence(root))
  BY DEF CompatInv, LayerInv
<1>2. ~("RejectsOwnEtag" \in bmcQuirks /\ "RejectsWildcardEtag" \in bmcQuirks)
  BY <1>1, SomeEtagTaken
<1>3. CASE Looked(write)
  <2>1. EtagSent = write.etag /\ write.kind = "read" /\ write.given = NoEtag
    BY <1>3, WriteKinds DEF EtagSent, Looked
  <2>2. CASE write.etag = NoEtag
    BY <1>3, <2>1, <2>2 DEF Looked
  <2>3. CASE write.etag = EtagOf(write.at)
    <3>1. IfMatchSent = EtagOf(write.at)
      BY <2>1, <2>3, EtagsApart DEF IfMatchSent
    <3>2. Accepted(IfMatchSent) <=> EtagOf(write.at) = EtagOf(current)
      BY <1>1, <1>3, <3>1, EtagsApart DEF Accepted, Looked
    <3>3. QED
      BY <2>1, <3>2, EtagsApart
  <2>4. QED
    BY <1>3, <2>2, <2>3 DEF Looked
<1>4. CASE Asked(write)
  <2>1. write.kind = "called" /\ EtagPlan(bmcQuirks, write.given) # "read"
    BY <1>4, WriteKinds DEF Patch
  <2>2. CASE "RejectsOwnEtag" \in bmcQuirks
    <3>1. IfMatchSent = Wildcard
      BY <2>1, <2>2 DEF IfMatchSent, EtagSent, EtagPlan
    <3>2. QED
      BY <1>1, <1>2, <2>2, <3>1 DEF Accepted
  <2>3. CASE "RejectsOwnEtag" \notin bmcQuirks /\ write.given = NoEtag
    <3>1. IfMatchSent = Wildcard /\ "RejectsWildcardEtag" \notin bmcQuirks
      BY <2>1, <2>3 DEF IfMatchSent, EtagSent, EtagPlan
    <3>2. QED
      BY <1>1, <2>3, <3>1 DEF Accepted
  <2>4. CASE "RejectsOwnEtag" \notin bmcQuirks /\ write.given # NoEtag
    <3>1. IfMatchSent = write.given
      BY <2>1, <2>4 DEF IfMatchSent, EtagSent, EtagPlan
    <3>2. write.given # Wildcard
      BY <1>4, <2>4, EtagsApart DEF Asked
    <3>3. QED
      BY <1>1, <2>4, <3>1, <3>2 DEF Accepted
  <2>5. QED
    BY <2>2, <2>3, <2>4
<1>5. QED
  <2>1. write.kind # "done"
    BY DEF Patch
  <2>2. QED
    BY <1>3, <1>4, <2>1 DEF CompatInv, WriteInv

\* The PATCH ends the update, and the end is reported as it went.
LEMMA PatchWent ==
  ASSUME CompatInv, write # Nothing, Patch
  PROVE  /\ LayerInv' /\ bmcQuirks' = bmcQuirks
         /\ write'.kind = "done" /\ Went(write')
<1>1. bmcQuirks = Classify(Evidence(root)) /\ stage = "ready"
  BY DEF CompatInv, LayerInv
<1>2. /\ root' = root /\ bmcQuirks' = bmcQuirks /\ stage' = stage
  BY DEF Patch
<1>3. UpdateReply(bmcQuirks, NoReply) = "Error"
  BY DEF UpdateReply, NoReply, FailureOf, FailedWrite
<1>4. PICK w : w = write'
  OBVIOUS
<1>5. /\ w.kind = "done" /\ w.given = write.given /\ w.at = write.at /\ w.over = current
      /\ w.untagged = (write.kind = "read" /\ write.etag = NoEtag)
      /\ (w.result # "Error") <=> w.fate = "applied"
      /\ w.fate \in {"applied", "applied unheard"} => Accepted(IfMatchSent)
      /\ w.fate = "precondition failed" => ~Accepted(IfMatchSent)
  <2>1. CASE Accepted(IfMatchSent) /\ PatchEnds("applied", SuccessForms(bmcQuirks))
    <3>1. PICK result : result # "Error" /\ write' = Ended("applied", result)
      BY <2>1, SuccessRead DEF PatchEnds
    <3>2. QED
      BY <1>4, <2>1, <3>1 DEF Ended
  <2>2. CASE Accepted(IfMatchSent) /\ PatchEnds("applied unheard", {NoReply})
    <3>1. write' = Ended("applied unheard", "Error")
      BY <1>3, <2>2 DEF PatchEnds
    <3>2. QED
      BY <1>4, <2>2, <3>1 DEF Ended
  <2>3. CASE PatchEnds("refused", RefusalForms(bmcQuirks))
    <3>1. write' = Ended("refused", "Error")
      BY <2>3, RefusalRead DEF PatchEnds
    <3>2. QED
      BY <1>4, <3>1 DEF Ended
  <2>4. CASE ~Accepted(IfMatchSent)
             /\ PatchEnds("precondition failed", {FailureOf(412, Plain, <<>>)})
    <3>1. write' = Ended("precondition failed", "Error")
      BY <2>4, RefusalRead DEF PatchEnds
    <3>2. QED
      BY <1>4, <2>4, <3>1 DEF Ended
  <2>5. CASE PatchEnds("lost", {NoReply})
    <3>1. write' = Ended("lost", "Error")
      BY <1>3, <2>5 DEF PatchEnds
    <3>2. QED
      BY <1>4, <3>1 DEF Ended
  <2>6. QED
    BY <2>1, <2>2, <2>3, <2>4, <2>5 DEF Patch
<1>6. Went(w)
  BY <1>5, PatchCondition DEF Went
<1>7. QED
  BY <1>1, <1>2, <1>4, <1>5, <1>6 DEF LayerInv, Went

\* Every step of the layer keeps its invariant.
LEMMA CompatStepInv ==
  ASSUME CompatInv, [CompatStep \/ AnyRead]_compatVars
  PROVE  CompatInv'
<1>1. CASE ClassifyEndpoint
  BY <1>1 DEF ClassifyEndpoint, CompatInv, LayerInv, WriteInv, Nothing
<1>2. CASE ReceiveEvent \/ AnyRead
  BY <1>2 DEF ReceiveEvent, AnyRead, Reads, MayCall, CompatInv, LayerInv, WriteInv, Nothing
<1>3. CASE UpdateCalled
  <2>1. PICK given : /\ given = NoEtag \/ \E v : given = EtagOf(v)
                     /\ write' = [kind |-> "called", given |-> given, at |-> current]
    BY <1>3 DEF UpdateCalled
  <2>2. PICK w : w = write'
    OBVIOUS
  <2>3. w.given = given /\ Asked(w)
    BY <2>1, <2>2 DEF Asked
  <2>4. Asked(write')
    BY <2>2, <2>3
  <2>5. WriteInv'
    BY <2>4 DEF WriteInv, Asked, NoEtag, EtagOf
  <2>6. LayerInv'
    BY <1>3 DEF UpdateCalled, MayCall, CompatInv, LayerInv
  <2>7. QED
    BY <2>5, <2>6 DEF CompatInv
<1>4. CASE write # Nothing /\ ReadEtag
  <2>1. /\ EtagPlan(bmcQuirks, write.given) = "read" /\ bmcQuirks' = bmcQuirks
        /\ \/ \E etag \in {EtagOf(current), NoEtag} :
                 write' = [kind |-> "read", given |-> write.given, at |-> current, etag |-> etag]
           \/ write' = Ended("read failed", "Error")
    BY <1>4 DEF ReadEtag
  <2>2. /\ write.given = NoEtag
        /\ "RejectsOwnEtag" \notin bmcQuirks /\ "RejectsWildcardEtag" \in bmcQuirks
    BY <2>1 DEF EtagPlan
  <2>3. PICK w : w = write'
    OBVIOUS
  <2>4. LayerInv'
    BY <1>4 DEF ReadEtag, CompatInv, LayerInv
  <2>5. WriteInv' => CompatInv'
    BY <2>4 DEF CompatInv
  <2>6. CASE write' = Ended("read failed", "Error")
    <3>1. w.kind = "done" /\ Went(w)
      BY <2>3, <2>6 DEF Ended, Went
    <3>2. write'.kind = "done" /\ Went(write')
      BY <2>3, <3>1
    <3>3. QED
      BY <2>1, <2>5, <3>2 DEF WriteInv, Went, NoEtag, EtagOf
  <2>7. CASE \E etag \in {EtagOf(current), NoEtag} :
                write' = [kind |-> "read", given |-> write.given, at |-> current, etag |-> etag]
    <3>1. Looked(w)
      BY <2>2, <2>3, <2>7 DEF Looked
    <3>2. Looked(write')
      BY <2>3, <3>1
    <3>3. QED
      BY <2>1, <2>5, <3>2 DEF WriteInv, Looked, NoEtag, EtagOf
  <2>8. QED
    BY <2>1, <2>6, <2>7
<1>5. CASE write # Nothing /\ Patch
  <2>1. LayerInv' /\ bmcQuirks' = bmcQuirks /\ write'.kind = "done" /\ Went(write')
    BY <1>5, PatchWent
  <2>2. WriteInv'
    BY <2>1 DEF WriteInv, Went, NoEtag, EtagOf
  <2>3. QED
    BY <2>1, <2>2 DEF CompatInv
<1>6. CASE ForeignChange
  BY <1>6 DEF ForeignChange, CompatInv, LayerInv, WriteInv, Nothing, Asked, Looked, Went, NoEtag, EtagOf
<1>7. CASE Forget
  BY <1>7 DEF Forget, CompatInv, LayerInv, WriteInv, Nothing
<1>8. CASE UNCHANGED compatVars
  BY <1>8 DEF compatVars, CompatInv, LayerInv, WriteInv, Nothing, Asked, Looked, Went, NoEtag, EtagOf
<1>9. QED
  BY <1>1, <1>2, <1>3, <1>4, <1>5, <1>6, <1>7, <1>8 DEF CompatStep

\* The layer's invariant, through every interleaving of updates with the
\* changes of other clients, whatever documents are read in between.
THEOREM CompatInvariance == CompatSpec => []CompatInv
<1>1. CompatInit => CompatInv
  BY DEF CompatInit, CompatInv, LayerInv, WriteInv
<1>2. CompatInv /\ [CompatStep \/ AnyRead]_compatVars => CompatInv'
  BY CompatStepInv
<1>3. QED
  BY <1>1, <1>2, PTL DEF CompatSpec

\* CompatBmc::update reports a write as it went and overwrites no version its
\* caller did not give: for every service root and any number of changes.
THEOREM WritesAreFaithful == CompatSpec => []WritesFaithful
<1>1. CompatInv => WritesFaithful
  BY WriteKinds DEF CompatInv, WriteInv, WritesFaithful, Went
<1>2. QED
  BY <1>1, CompatInvariance, PTL
\* A record of the given properties.
RecordOf(m, o, e, t, l, s) ==
  [memberId |-> m, odataId |-> o, eventId |-> e, eventType |-> t, logEntry |-> l, timestamp |-> s]
ReferenceOf(m, o, e, t, l, s) ==
  o # NoId /\ m = NoId /\ e = NoId /\ t = "absent" /\ l = "absent" /\ s = "absent"

\* The properties of a record, and when it is a reference.
LEMMA RecordFields ==
  ASSUME NEW m, NEW o, NEW e, NEW t, NEW l, NEW s, NEW r, r = RecordOf(m, o, e, t, l, s)
  PROVE  /\ r.memberId = m /\ r.odataId = o /\ r.eventId = e /\ r.eventType = t
         /\ r.logEntry = l /\ r.timestamp = s
         /\ IsReference(r) <=> ReferenceOf(m, o, e, t, l, s)
<1>1. /\ r.memberId = m /\ r.odataId = o /\ r.eventId = e /\ r.eventType = t
      /\ r.logEntry = l /\ r.timestamp = s
  BY DEF RecordOf
<1>2. QED
  BY <1>1 DEF IsReference, ReferenceOf

\* What each repair makes of a record.
LEMMA LinkRepaired ==
  ASSUME NEW m, NEW o, NEW e, NEW t, NEW l, NEW s, NEW index,
         NEW r, r = RecordOf(m, o, e, t, l, s)
  PROVE  empty_log_entry(r, index) = RecordOf(m, o, e, t, IF l = "empty" THEN "absent" ELSE l, s)
<1>1. r.logEntry = l
  BY RecordFields
<1>2. QED
  BY <1>1 DEF RecordOf, empty_log_entry

\* The MemberId is the EventId or the position, unless there is one.
LEMMA MemberIdRepaired ==
  ASSUME NEW m, NEW o, NEW e, NEW t, NEW l, NEW s, NEW index,
         NEW r, r = RecordOf(m, o, e, t, l, s)
  PROVE  \E n : /\ missing_record_member_id(r, index) = RecordOf(n, o, e, t, l, s)
                /\ m # NoId \/ ReferenceOf(m, o, e, t, l, s) => n = m
                /\ ~ReferenceOf(m, o, e, t, l, s) => n # NoId
<1>1. r.memberId = m /\ r.eventId = e /\ (IsReference(r) <=> ReferenceOf(m, o, e, t, l, s))
  BY RecordFields
<1>2. CASE m # NoId \/ ReferenceOf(m, o, e, t, l, s)
  <2>1. missing_record_member_id(r, index) = RecordOf(m, o, e, t, l, s)
    BY <1>1, <1>2 DEF missing_record_member_id
  <2>2. QED
    BY <1>2, <2>1 DEF ReferenceOf
<1>3. CASE ~(m # NoId \/ ReferenceOf(m, o, e, t, l, s))
  <2>1. PICK n : n = IF e # NoId THEN e ELSE PositionId(index)
    OBVIOUS
  <2>2. missing_record_member_id(r, index) = [r EXCEPT !.memberId = n]
    BY <1>1, <1>3, <2>1 DEF missing_record_member_id
  <2>3. [r EXCEPT !.memberId = n] = RecordOf(n, o, e, t, l, s)
    BY DEF RecordOf
  <2>4. n # NoId
    BY <2>1 DEF NoId, PositionId
  <2>5. QED
    BY <1>3, <2>2, <2>3, <2>4
<1>4. QED
  BY <1>2, <1>3

\* The EventType is Other, unless there is one.
LEMMA EventTypeRepaired ==
  ASSUME NEW m, NEW o, NEW e, NEW t, NEW l, NEW s, NEW index,
         NEW r, r = RecordOf(m, o, e, t, l, s)
  PROVE  missing_event_type_to_other(r, index) =
            RecordOf(m, o, e, IF ReferenceOf(m, o, e, t, l, s) \/ t # "absent" THEN t ELSE "Other", l, s)
<1>1. r.eventType = t /\ (IsReference(r) <=> ReferenceOf(m, o, e, t, l, s))
  BY RecordFields
<1>2. [r EXCEPT !.eventType = "Other"] = RecordOf(m, o, e, "Other", l, s)
  BY DEF RecordOf
<1>3. QED
  BY <1>1, <1>2 DEF missing_event_type_to_other

\* The `@odata.id` is made of the MemberId, where that is all there is.
LEMMA OdataIdRepaired ==
  ASSUME NEW m, NEW o, NEW e, NEW t, NEW l, NEW s, NEW index,
         NEW r, r = RecordOf(m, o, e, t, l, s)
  PROVE  missing_record_odata_id(r, index) =
            RecordOf(m, IF o # NoId \/ m = NoId THEN o ELSE m, e, t, l, s)
<1>1. r.odataId = o /\ r.memberId = m
  BY RecordFields
<1>2. [r EXCEPT !.odataId = m] = RecordOf(m, m, e, t, l, s)
  BY DEF RecordOf
<1>3. QED
  BY <1>1, <1>2 DEF missing_record_odata_id

\* A compact offset is spelled out.
LEMMA TimeRepaired ==
  ASSUME NEW m, NEW o, NEW e, NEW t, NEW l, NEW s, NEW index,
         NEW r, r = RecordOf(m, o, e, t, l, s)
  PROVE  compact_timestamp_offset(r, index) =
            RecordOf(m, o, e, t, l, IF s = "compact" THEN "valid" ELSE s)
<1>1. r.timestamp = s
  BY RecordFields
<1>2. [r EXCEPT !.timestamp = "valid"] = RecordOf(m, o, e, t, l, "valid")
  BY DEF RecordOf
<1>3. QED
  BY <1>1, <1>2 DEF compact_timestamp_offset

\* The repairs of one record in their order.
LEMMA RecordRepaired ==
  ASSUME NEW quirks, NEW old, IsRecord(old), NEW index
  PROVE  RecordReadable(quirks, old, RepairRecord(quirks, old, index))
<1>1. PICK m, o, e, t, l, s : old = RecordOf(m, o, e, t, l, s)
  BY DEF IsRecord, RecordOf
<1>2. PICK l1 : /\ l1 = IF "SseEmptyLogEntry" \in quirks /\ l = "empty" THEN "absent" ELSE l
  OBVIOUS
<1>3. PICK r1 : r1 = IF "SseEmptyLogEntry" \in quirks THEN empty_log_entry(old, index) ELSE old
  OBVIOUS
<1>4. r1 = RecordOf(m, o, e, t, l1, s)
  BY <1>1, <1>2, <1>3, LinkRepaired
<1>5. PICK r2 : r2 = IF "SseNoMemberId" \in quirks THEN missing_record_member_id(r1, index) ELSE r1
  OBVIOUS
<1>6. PICK m2 : /\ r2 = RecordOf(m2, o, e, t, l1, s)
                /\ m # NoId \/ ReferenceOf(m, o, e, t, l1, s) => m2 = m
                /\ "SseNoMemberId" \in quirks /\ ~ReferenceOf(m, o, e, t, l1, s) => m2 # NoId
                /\ "SseNoMemberId" \notin quirks => m2 = m
  BY <1>4, <1>5, MemberIdRepaired
<1>7. PICK r3 : r3 = IF "SseMissingEventType" \in quirks THEN missing_event_type_to_other(r2, index) ELSE r2
  OBVIOUS
<1>8. PICK t3 : t3 = IF /\ "SseMissingEventType" \in quirks
                        /\ ~ReferenceOf(m2, o, e, t, l1, s) /\ t = "absent" THEN "Other" ELSE t
  OBVIOUS
<1>9. r3 = RecordOf(m2, o, e, t3, l1, s)
  BY <1>6, <1>7, <1>8, EventTypeRepaired
<1>10. PICK r4 : r4 = missing_record_odata_id(r3, index)
  OBVIOUS
<1>11. PICK o4 : o4 = IF o # NoId \/ m2 = NoId THEN o ELSE m2
  OBVIOUS
<1>12. r4 = RecordOf(m2, o4, e, t3, l1, s)
  BY <1>9, <1>10, <1>11, OdataIdRepaired
<1>13. PICK s5 : s5 = IF "SseWrongTimestampOffset" \in quirks /\ s = "compact" THEN "valid" ELSE s
  OBVIOUS
<1>14. PICK r : r = RepairRecord(quirks, old, index)
  OBVIOUS
<1>15. r = RecordOf(m2, o4, e, t3, l1, s5)
  <2>1. r = IF "SseWrongTimestampOffset" \in quirks THEN compact_timestamp_offset(r4, index) ELSE r4
    BY <1>3, <1>5, <1>7, <1>10, <1>14 DEF RepairRecord
  <2>2. QED
    BY <1>12, <1>13, <2>1, TimeRepaired
<1>16. /\ r.memberId = m2 /\ r.odataId = o4 /\ r.eventId = e /\ r.eventType = t3
       /\ r.logEntry = l1 /\ r.timestamp = s5
       /\ IsReference(r) <=> ReferenceOf(m2, o4, e, t3, l1, s5)
  BY <1>15, RecordFields
<1>17. old.odataId = o /\ (IsReference(old) <=> ReferenceOf(m, o, e, t, l, s))
  BY <1>1, RecordFields
<1>18. IsReference(old) => r = old
  <2>1. ASSUME ReferenceOf(m, o, e, t, l, s)
        PROVE  m2 = m /\ o4 = o /\ t3 = t /\ l1 = l /\ s5 = s
    BY <1>2, <1>6, <1>8, <1>11, <1>13, <2>1 DEF ReferenceOf
  <2>2. QED
    BY <1>1, <1>15, <1>17, <2>1
<1>19. IsReference(r) => r = [old EXCEPT !.logEntry = "absent"]
  <2>1. ASSUME ReferenceOf(m2, o4, e, t3, l1, s5)
        PROVE  m2 = m /\ o4 = o /\ t3 = t /\ l1 = "absent" /\ s5 = s
    BY <1>2, <1>6, <1>8, <1>11, <1>13, <2>1 DEF ReferenceOf
  <2>2. [old EXCEPT !.logEntry = "absent"] = RecordOf(m, o, e, t, "absent", s)
    BY <1>1 DEF RecordOf
  <2>3. QED
    BY <1>15, <1>16, <2>1, <2>2
<1>20. ASSUME ~ReferenceOf(m2, o4, e, t3, l1, s5)
       PROVE  /\ "SseNoMemberId" \in quirks => m2 # NoId /\ o4 # NoId /\ (o = NoId => o4 = m2)
              /\ "SseMissingEventType" \in quirks => t3 # "absent"
  BY <1>2, <1>6, <1>8, <1>11, <1>13, <1>20 DEF ReferenceOf
<1>21. ("SseEmptyLogEntry" \in quirks => l1 # "empty")
       /\ ("SseWrongTimestampOffset" \in quirks => s5 # "compact")
  BY <1>2, <1>13
<1>22. QED
  BY <1>14, <1>16, <1>17, <1>18, <1>19, <1>20, <1>21 DEF RecordReadable

\* The identifiers of an envelope are filled in, and nothing else.
LEMMA EnvelopeKept ==
  ASSUME NEW quirks, NEW p, IsPayload(p), NEW id
  PROVE  \E a, b : EventIds(quirks, p, id) =
                     [type |-> p.type, id |-> a, odataId |-> b, records |-> p.records]
<1>1. PICK t, i, o, rs : p = [type |-> t, id |-> i, odataId |-> o, records |-> rs]
  BY DEF IsPayload
<1>2. p.type = t /\ p.records = rs
  BY <1>1
<1>3. PICK named : named = IF /\ "SseMissingEnvelopeIds" \in quirks /\ p.type = "Event"
                              /\ id # "absent" /\ p.id = "absent" /\ p.odataId = "absent"
                           THEN [p EXCEPT !.id = id] ELSE p
  OBVIOUS
<1>4. [p EXCEPT !.id = id] = [type |-> t, id |-> id, odataId |-> o, records |-> rs]
  BY <1>1
<1>5. PICK n : named = [type |-> t, id |-> n, odataId |-> o, records |-> rs]
  BY <1>1, <1>3, <1>4
<1>6. [named EXCEPT !.odataId = named.id] = [type |-> t, id |-> n, odataId |-> n, records |-> rs]
  BY <1>5
<1>7. EventIds(quirks, p, id) \in {named, [named EXCEPT !.odataId = named.id]}
  BY <1>3 DEF EventIds
<1>8. QED
  BY <1>2, <1>5, <1>6, <1>7

\* A payload is repaired record by record.
PayloadReadable(quirks, old, p) ==
  p.type = "Event" =>
    \A i \in DOMAIN old.records :
      i \in DOMAIN p.records /\ RecordReadable(quirks, old.records[i], p.records[i])

\* The records of a payload are read complete.
LEMMA PayloadRepaired ==
  ASSUME NEW quirks, NEW old, IsPayload(old), NEW id
  PROVE  PayloadReadable(quirks, old, RepairEvent(quirks, old, id))
<1>1. PICK p : p = RepairEvent(quirks, old, id)
  OBVIOUS
<1>2. CASE old.type \notin {"Event", "MetricReport"}
  <2>1. p = old
    BY <1>1, <1>2 DEF RepairEvent
  <2>2. QED
    BY <1>1, <1>2, <2>1 DEF PayloadReadable
<1>3. CASE old.type \in {"Event", "MetricReport"}
  <2>1. PICK rs : rs = [i \in DOMAIN old.records |-> RepairRecord(quirks, old.records[i], i - 1)]
    OBVIOUS
  <2>2. PICK q : q = EventIds(quirks, old, id)
    OBVIOUS
  <2>3. PICK a, b : q = [type |-> old.type, id |-> a, odataId |-> b, records |-> old.records]
    BY <2>2, EnvelopeKept
  <2>4. q.records = old.records
    BY <2>3
  <2>5. p = [q EXCEPT !.records = [i \in DOMAIN q.records |-> RepairRecord(quirks, q.records[i], i - 1)]]
    BY <1>1, <1>3, <2>2 DEF RepairEvent
  <2>6. p = [q EXCEPT !.records = rs]
    BY <2>1, <2>4, <2>5
  <2>7. p = [type |-> old.type, id |-> a, odataId |-> b, records |-> rs]
    BY <2>3, <2>6
  <2>8. p.records = rs
    BY <2>7
  <2>9. ASSUME NEW i \in DOMAIN old.records
        PROVE  i \in DOMAIN rs /\ RecordReadable(quirks, old.records[i], rs[i])
    <3>1. i \in DOMAIN rs /\ rs[i] = RepairRecord(quirks, old.records[i], i - 1)
      BY <2>1
    <3>2. IsRecord(old.records[i])
      BY DEF IsPayload
    <3>3. QED
      BY <3>1, <3>2, RecordRepaired
  <2>10. QED
    BY <1>1, <2>8, <2>9 DEF PayloadReadable
<1>4. QED
  BY <1>2, <1>3

\* What was read last is what the quirks of the service make of what was sent.
ReadInv ==
  \/ read.kind # "event"
  \/ stage = "ready" /\ PayloadReadable(bmcQuirks, sent.payload, read.payload)

\* Every step keeps what was read in accord with what was sent.
LEMMA ReadStepInv ==
  ASSUME CompatInv, ReadInv, [CompatStep \/ AnyRead]_compatVars
  PROVE  ReadInv'
<1>1. CASE ClassifyEndpoint
  <2>1. read' = Nothing
    BY <1>1 DEF ClassifyEndpoint, CompatInv, LayerInv
  <2>2. QED
    BY <2>1 DEF ReadInv, Nothing
<1>2. CASE ReceiveEvent
  <2>1. PICK payload \in Payloads, id \in {"absent", "17"} :
            /\ sent' = [kind |-> "event", payload |-> payload, id |-> id]
            /\ read' = [kind |-> "event", payload |-> RepairEvent(bmcQuirks, payload, id)]
    BY <1>2 DEF ReceiveEvent
  <2>2. stage' = "ready" /\ bmcQuirks' = bmcQuirks
    BY <1>2 DEF ReceiveEvent, MayCall
  <2>3. PICK p : p = RepairEvent(bmcQuirks, payload, id)
    OBVIOUS
  <2>4. sent'.payload = payload /\ read'.payload = p
    BY <2>1, <2>3
  <2>5. PayloadReadable(bmcQuirks, payload, p)
    BY <2>3, PayloadAssumption, PayloadRepaired
  <2>6. PayloadReadable(bmcQuirks', sent'.payload, read'.payload)
    BY <2>2, <2>4, <2>5
  <2>7. QED
    BY <2>2, <2>6 DEF ReadInv, PayloadReadable, RecordReadable, IsReference, NoId
<1>3. CASE AnyRead
  <2>1. PICK d, rules : read' = [kind |-> "document", doc |-> d, rules |-> rules]
    BY <1>3 DEF AnyRead, Reads
  <2>2. read'.kind = "document"
    BY <2>1
  <2>3. QED
    BY <2>2 DEF ReadInv
<1>4. CASE Forget
  BY <1>4 DEF Forget, ReadInv, Nothing
<1>5. CASE UpdateCalled \/ (write # Nothing /\ (ReadEtag \/ Patch)) \/ ForeignChange \/ UNCHANGED compatVars
  <2>1. read' = read /\ sent' = sent /\ stage' = stage /\ bmcQuirks' = bmcQuirks
    BY <1>5 DEF UpdateCalled, ReadEtag, Patch, ForeignChange, compatVars
  <2>2. QED
    BY <2>1 DEF ReadInv
<1>6. QED
  BY <1>1, <1>2, <1>3, <1>4, <1>5 DEF CompatStep

\* EventRepairs: the records of every event are read complete, references stay
\* references: for every service root and every payload.
THEOREM EventsAreReadable == CompatSpec => []EventsReadable
<1>1. CompatInit => ReadInv
  BY DEF CompatInit, ReadInv, Nothing
<1>2. CompatInv /\ ReadInv /\ [CompatStep \/ AnyRead]_compatVars => ReadInv'
  BY ReadStepInv
<1>3. ReadInv => EventsReadable
  BY DEF ReadInv, PayloadReadable, EventsReadable
<1>4. QED
  BY <1>1, <1>2, <1>3, CompatInvariance, PTL DEF CompatSpec

(***************************************************************************)
(* Walking the typed resources.                                            *)
(***************************************************************************)
\* The walk's own specification: the caller navigates and changes resources
\* through one handle after the other while the service changes.
WalkSpec == TreeInit /\ [][TreeNext]_treeVars

IsHandle(h) ==
  h = [type |-> h.type, is |-> h.is, link |-> h.link, asOf |-> h.asOf,
       features |-> h.features, listed |-> h.listed]

IsCall(c) ==
  /\ c = [op |-> c.op, left |-> c.left, asOf |-> c.asOf, since |-> c.since,
          listed |-> c.listed, todo |-> c.todo, got |-> c.got, gone |-> c.gone,
          reread |-> c.reread]
  /\ c.op = Operation(c.op.kind, c.op.hops, c.op.tail, c.op.to)
  /\ c.op.kind \in Kinds \ {"link"}

\* A handle's data were read by now; a handle whose root gave $expand up knows
\* of no $expand, and no request so far used it.
HandleInv ==
  /\ clock \in Nat /\ IsHandle(held) /\ held.asOf \in 0 .. clock
  /\ held.link \/ held.is = held.type
  /\ restricted => held.features = {}
  /\ NoExpandWhereGivenUp

\* What a navigation has read so far, it read since it was called.
NavigatesInTime(c, now) ==
  c.op.kind = "navigate" =>
    /\ ~c.reread
    /\ c.left \in Seq(HopNames)
    /\ c.asOf \in c.since .. now
    /\ \A m \in DOMAIN c.got : c.got[m] \in c.since .. now

\* A member that was listed is read, still to do, or may be passed over.
MembersKept(c) ==
  \A m \in DOMAIN c.listed :
    \/ m \in DOMAIN c.got \/ m \in c.todo
    \/ c.op.tail = "each present" /\ m \in c.gone

CallGood(c, now) ==
  IsCall(c) /\ c.since \in 0 .. now /\ NavigatesInTime(c, now) /\ MembersKept(c)
CallInv == call # NoCall => CallGood(call, clock)

TreeInv == HandleInv /\ CallInv

\* A handle that becomes another keeps only what its root can do.
LEMMA BecomesEffect ==
  ASSUME IsHandle(held), NEW type, NEW is, NEW link, NEW asOf, NEW listed,
         Becomes(type, is, link, asOf, listed)
  PROVE  /\ IsHandle(held') /\ held'.type = type /\ held'.is = is /\ held'.link = link
         /\ held'.asOf = asOf /\ held'.features = held.features
<1>1. PICK a, b, c, d, e, f :
         held = [type |-> a, is |-> b, link |-> c, asOf |-> d, features |-> e, listed |-> f]
  BY DEF IsHandle
<1>2. held' = [type |-> type, is |-> is, link |-> link, asOf |-> asOf, features |-> e,
               listed |-> listed]
  BY <1>1 DEF Becomes
<1>3. QED
  BY <1>1, <1>2 DEF IsHandle

\* The operations of any handle are ones that the walk knows of.
LEMMA OperationsKnown ==
  ASSUME NEW h, NEW name \in DOMAIN Operations(h)
  PROVE  IsOperation(Operations(h)[name])
<1>1. CASE h.link
  <2>1. name \in DOMAIN EntityLink(h.type) /\ Operations(h)[name] = EntityLink(h.type)[name]
    BY <1>1 DEF Operations
  <2>2. <<"fresh">> \in Seq(HopNames) /\ <<>> \in Seq(HopNames)
    BY DEF HopNames
  <2>3. \A o, k, hs, tl, to : o = Operation(k, hs, tl, to) /\ k \in Kinds /\ hs \in Seq(HopNames)
                                => IsOperation(o)
    BY DEF Operation, IsOperation
  <2>4. IsOperation(One(<<"fresh">>, h.type)) /\ IsOperation(DeleteSelf)
    BY <2>2, <2>3 DEF One, DeleteSelf, Kinds
  <2>5. QED
    BY <2>1, <2>4 DEF EntityLink
<1>2. CASE ~h.link /\ h.type \in DOMAIN Wrappers
  BY <1>2, TableAssumption DEF Operations
<1>3. CASE ~h.link /\ h.type \notin DOMAIN Wrappers
  <2>1. name \in DOMAIN <<>>
    BY <1>3 DEF Operations, Data
  <2>2. QED
    BY <2>1
<1>4. QED
  BY <1>1, <1>2, <1>3

\* Time passes: what was read by now was read by then.
LEMMA CallLater ==
  ASSUME NEW c, NEW now \in Nat, NEW then \in Nat, now <= then, CallGood(c, now)
  PROVE  CallGood(c, then)
<1>1. c.since \in 0 .. now /\ NavigatesInTime(c, now)
  BY DEF CallGood
<1>2. c.since \in 0 .. then
  BY <1>1
<1>3. NavigatesInTime(c, then)
  <2>1. \A x \in c.since .. now : x \in c.since .. then
    BY <1>1
  <2>2. QED
    BY <1>1, <2>1 DEF NavigatesInTime
<1>4. QED
  BY <1>2, <1>3 DEF CallGood

\* No call is of no kind.
LEMMA NoCallKind == NoCall.op.kind = "none"
  BY DEF NoCall, Operation

\* An operation that starts has read what its handle has.
LEMMA Begins ==
  ASSUME HandleInv, NEW op, IsOperation(op), op.kind # "link"
  PROVE  Begin(op) # NoCall /\ CallGood(Begin(op), clock)
<1>1. PICK b : b = Begin(op)
  OBVIOUS
<1>2. /\ b.op = op /\ b.left = op.hops /\ b.asOf = held.asOf /\ b.since = held.asOf
      /\ b.listed = held.listed /\ b.todo = DOMAIN held.listed /\ b.got = <<>>
      /\ b.gone = {} /\ b.reread = FALSE
      /\ b = [op |-> b.op, left |-> b.left, asOf |-> b.asOf, since |-> b.since,
               listed |-> b.listed, todo |-> b.todo, got |-> b.got, gone |-> b.gone,
               reread |-> b.reread]
  BY <1>1 DEF Begin
<1>3. held.asOf \in 0 .. clock /\ clock \in Nat
  BY DEF HandleInv
<1>4. IsCall(b)
  BY <1>2 DEF IsCall, IsOperation
<1>5. NavigatesInTime(b, clock)
  <2>1. DOMAIN b.got = {}
    BY <1>2
  <2>2. b.asOf \in b.since .. clock
    BY <1>2, <1>3
  <2>3. QED
    BY <1>2, <2>1, <2>2 DEF NavigatesInTime, IsOperation
<1>6. MembersKept(b)
  BY <1>2 DEF MembersKept
<1>7. b # NoCall
  BY <1>2, NoCallKind DEF IsOperation, Kinds
<1>8. QED
  BY <1>1, <1>2, <1>3, <1>4, <1>5, <1>6, <1>7 DEF CallGood

\* The call after a step of its loop.
Advance(c, left, asOf, listed, todo) == [c EXCEPT !.left = left, !.asOf = asOf, !.listed = listed, !.todo = todo]
TakeUp(c, todo, got) == [c EXCEPT !.todo = todo, !.got = got]
PassOver(c, todo) == [c EXCEPT !.todo = todo]
LoseMember(c, gone) == [c EXCEPT !.gone = gone]
ReadNext(c, since, is) == [c EXCEPT !.reread = TRUE, !.since = since, !.op.to = is]

\* The fields of a call after a step of its loop.
LEMMA Advanced ==
  ASSUME NEW c, IsCall(c), NEW left, NEW asOf, NEW listed, NEW todo,
         NEW d, d = Advance(c, left, asOf, listed, todo)
  PROVE  /\ IsCall(d) /\ d.op = c.op /\ d.left = left /\ d.asOf = asOf /\ d.since = c.since
         /\ d.listed = listed /\ d.todo = todo /\ d.got = c.got /\ d.gone = c.gone
         /\ d.reread = c.reread
<1>1. PICK e1, e2, e3, e4, e5, e6, e7, e8, e9 :
         c = [op |-> e1, left |-> e2, asOf |-> e3, since |-> e4, listed |-> e5, todo |-> e6,
              got |-> e7, gone |-> e8, reread |-> e9]
  BY DEF IsCall
<1>2. DOMAIN d = {"op", "left", "asOf", "since", "listed", "todo", "got", "gone", "reread"}
  BY <1>1 DEF Advance
<1>3. /\ d.op = e1 /\ d.left = left /\ d.asOf = asOf /\ d.since = e4 /\ d.listed = listed
      /\ d.todo = todo /\ d.got = e7 /\ d.gone = e8 /\ d.reread = e9
  BY <1>1 DEF Advance
<1>4. /\ c.op = e1 /\ c.since = e4 /\ c.got = e7 /\ c.gone = e8 /\ c.reread = e9
  BY <1>1
<1>5. IsCall(d)
  <2>1. d = [op |-> d.op, left |-> d.left, asOf |-> d.asOf, since |-> d.since,
             listed |-> d.listed, todo |-> d.todo, got |-> d.got, gone |-> d.gone,
             reread |-> d.reread]
    BY <1>1, <1>2, <1>3 DEF Advance
  <2>2. c.op = Operation(c.op.kind, c.op.hops, c.op.tail, c.op.to) /\ c.op.kind \in Kinds \ {"link"}
    BY DEF IsCall
  <2>3. d.op = c.op
    BY <1>3, <1>4
  <2>4. QED
    BY <2>1, <2>2, <2>3 DEF IsCall
<1>6. QED
  BY <1>3, <1>4, <1>5

\* A member was read.
LEMMA TookUp ==
  ASSUME NEW c, IsCall(c), NEW todo, NEW got,
         NEW d, d = TakeUp(c, todo, got)
  PROVE  /\ IsCall(d) /\ d.op = c.op /\ d.left = c.left /\ d.asOf = c.asOf
         /\ d.since = c.since /\ d.listed = c.listed /\ d.todo = todo /\ d.got = got
         /\ d.gone = c.gone /\ d.reread = c.reread
<1>1. PICK e1, e2, e3, e4, e5, e6, e7, e8, e9 :
         c = [op |-> e1, left |-> e2, asOf |-> e3, since |-> e4, listed |-> e5, todo |-> e6,
              got |-> e7, gone |-> e8, reread |-> e9]
  BY DEF IsCall
<1>2. DOMAIN d = {"op", "left", "asOf", "since", "listed", "todo", "got", "gone", "reread"}
  BY <1>1 DEF TakeUp
<1>3. /\ d.op = e1 /\ d.left = e2 /\ d.asOf = e3 /\ d.since = e4 /\ d.listed = e5
      /\ d.todo = todo /\ d.got = got /\ d.gone = e8 /\ d.reread = e9
  BY <1>1 DEF TakeUp
<1>4. /\ c.op = e1 /\ c.left = e2 /\ c.asOf = e3 /\ c.since = e4 /\ c.listed = e5
      /\ c.gone = e8 /\ c.reread = e9
  BY <1>1
<1>5. IsCall(d)
  <2>1. d = [op |-> d.op, left |-> d.left, asOf |-> d.asOf, since |-> d.since,
             listed |-> d.listed, todo |-> d.todo, got |-> d.got, gone |-> d.gone,
             reread |-> d.reread]
    BY <1>1, <1>2, <1>3 DEF TakeUp
  <2>2. c.op = Operation(c.op.kind, c.op.hops, c.op.tail, c.op.to) /\ c.op.kind \in Kinds \ {"link"}
    BY DEF IsCall
  <2>3. d.op = c.op
    BY <1>3, <1>4
  <2>4. QED
    BY <2>1, <2>2, <2>3 DEF IsCall
<1>6. QED
  BY <1>3, <1>4, <1>5

\* A member was passed over.
LEMMA PassedOver ==
  ASSUME NEW c, IsCall(c), NEW todo,
         NEW d, d = PassOver(c, todo)
  PROVE  /\ IsCall(d) /\ d.op = c.op /\ d.left = c.left /\ d.asOf = c.asOf
         /\ d.since = c.since /\ d.listed = c.listed /\ d.todo = todo /\ d.got = c.got
         /\ d.gone = c.gone /\ d.reread = c.reread
<1>1. PICK e1, e2, e3, e4, e5, e6, e7, e8, e9 :
         c = [op |-> e1, left |-> e2, asOf |-> e3, since |-> e4, listed |-> e5, todo |-> e6,
              got |-> e7, gone |-> e8, reread |-> e9]
  BY DEF IsCall
<1>2. d =
         [op |-> e1, left |-> e2, asOf |-> e3, since |-> e4, listed |-> e5, todo |-> todo,
          got |-> e7, gone |-> e8, reread |-> e9]
  BY <1>1 DEF PassOver
<1>3. e1 = Operation(e1.kind, e1.hops, e1.tail, e1.to) /\ e1.kind \in Kinds \ {"link"}
  BY <1>1 DEF IsCall
<1>4. QED
  BY <1>1, <1>2, <1>3 DEF IsCall

\* A member was deleted.
LEMMA MemberGone ==
  ASSUME NEW c, IsCall(c), NEW gone,
         NEW d, d = LoseMember(c, gone)
  PROVE  /\ IsCall(d) /\ d.op = c.op /\ d.left = c.left /\ d.asOf = c.asOf
         /\ d.since = c.since /\ d.listed = c.listed /\ d.todo = c.todo /\ d.got = c.got
         /\ d.gone = gone /\ d.reread = c.reread
<1>1. PICK e1, e2, e3, e4, e5, e6, e7, e8, e9 :
         c = [op |-> e1, left |-> e2, asOf |-> e3, since |-> e4, listed |-> e5, todo |-> e6,
              got |-> e7, gone |-> e8, reread |-> e9]
  BY DEF IsCall
<1>2. d =
         [op |-> e1, left |-> e2, asOf |-> e3, since |-> e4, listed |-> e5, todo |-> e6,
          got |-> e7, gone |-> gone, reread |-> e9]
  BY <1>1 DEF LoseMember
<1>3. e1 = Operation(e1.kind, e1.hops, e1.tail, e1.to) /\ e1.kind \in Kinds \ {"link"}
  BY <1>1 DEF IsCall
<1>4. QED
  BY <1>1, <1>2, <1>3 DEF IsCall

\* The entity is to be read yet.
LEMMA RereadNext ==
  ASSUME NEW c, IsCall(c), NEW since, NEW is,
         NEW d, d = ReadNext(c, since, is)
  PROVE  /\ IsCall(d) /\ d.op.kind = c.op.kind /\ d.op.tail = c.op.tail /\ d.op.to = is
         /\ d.since = since /\ d.listed = c.listed /\ d.todo = c.todo /\ d.got = c.got
         /\ d.gone = c.gone
<1>1. PICK e1, e2, e3, e4, e5, e6, e7, e8, e9 :
         c = [op |-> e1, left |-> e2, asOf |-> e3, since |-> e4, listed |-> e5, todo |-> e6,
              got |-> e7, gone |-> e8, reread |-> e9]
  BY DEF IsCall
<1>2. PICK o1, o2, o3, o4 : e1 = [kind |-> o1, hops |-> o2, tail |-> o3, to |-> o4]
  BY <1>1 DEF IsCall, Operation
<1>3. DOMAIN d = {"op", "left", "asOf", "since", "listed", "todo", "got", "gone", "reread"}
  BY <1>1 DEF ReadNext
<1>4. /\ d.op = [kind |-> o1, hops |-> o2, tail |-> o3, to |-> is] /\ d.left = e2
      /\ d.asOf = e3 /\ d.since = since /\ d.listed = e5 /\ d.todo = e6 /\ d.got = e7
      /\ d.gone = e8 /\ d.reread = TRUE
  BY <1>1, <1>2 DEF ReadNext
<1>5. /\ c.op = e1 /\ c.listed = e5 /\ c.todo = e6 /\ c.got = e7 /\ c.gone = e8
      /\ c.op.kind = o1 /\ c.op.tail = o3
  BY <1>1, <1>2
<1>6. /\ d.op.kind = o1 /\ d.op.hops = o2 /\ d.op.tail = o3 /\ d.op.to = is
      /\ d.op = Operation(d.op.kind, d.op.hops, d.op.tail, d.op.to)
  BY <1>4 DEF Operation
<1>7. IsCall(d)
  <2>1. d = [op |-> d.op, left |-> d.left, asOf |-> d.asOf, since |-> d.since,
             listed |-> d.listed, todo |-> d.todo, got |-> d.got, gone |-> d.gone,
             reread |-> d.reread]
    BY <1>1, <1>3, <1>4 DEF ReadNext
  <2>2. c.op.kind \in Kinds \ {"link"}
    BY DEF IsCall
  <2>3. QED
    BY <1>5, <1>6, <2>1, <2>2 DEF IsCall
<1>8. QED
  BY <1>4, <1>5, <1>6, <1>7

\* What no step of a call changes of a handle, and what a new handle needs.
Sendable(method) == restricted => method \notin {"no_links", "expand_all"}

\* The handle stays while time passes.
LEMMA SnapshotKept ==
  ASSUME HandleInv, held' = held, restricted' = restricted,
         clock' \in Nat, clock <= clock', Sendable(request')
  PROVE  HandleInv'
<1>1. held.asOf \in 0 .. clock'
  BY DEF HandleInv
<1>2. QED
  BY <1>1 DEF HandleInv, IsHandle, NoExpandWhereGivenUp, Sendable

\* A new handle of the kind its type says, read by now.
LEMMA HandleMade ==
  ASSUME HandleInv, restricted' = restricted, clock' \in Nat, Sendable(request'),
         NEW type, NEW is, NEW link, NEW asOf, NEW listed,
         Becomes(type, is, link, asOf, listed),
         link \/ is = type, asOf \in 0 .. clock'
  PROVE  HandleInv' /\ held'.asOf = asOf
<1>1. /\ IsHandle(held') /\ held'.type = type /\ held'.is = is /\ held'.link = link
      /\ held'.asOf = asOf /\ held'.features = held.features
  BY BecomesEffect DEF HandleInv
<1>2. QED
  BY <1>1 DEF HandleInv, IsHandle, NoExpandWhereGivenUp, Sendable

\* The call stays while time passes.
LEMMA WalkKept ==
  ASSUME HandleInv, CallInv, call' = call, clock' \in Nat, clock <= clock'
  PROVE  CallInv'
<1>1. clock \in Nat
  BY DEF HandleInv
<1>2. call # NoCall => CallGood(call, clock')
  BY <1>1, CallLater DEF CallInv
<1>3. QED
  BY <1>2 DEF CallInv, CallGood, IsCall, NavigatesInTime, MembersKept, NoCall, Operation

\* A call that is good is kept.
LEMMA CallMade ==
  ASSUME NEW c, call' = c, CallGood(c, clock')
  PROVE  CallInv'
  BY DEF CallInv, CallGood, IsCall, NavigatesInTime, MembersKept, NoCall, Operation

\* A call that ended leaves nothing.
LEMMA CallEnded ==
  ASSUME call' = NoCall
  PROVE  CallInv'
  BY DEF CallInv, NoCall, Operation

\* What a walk may never do: a handle that changes was read no earlier than
\* the one it was reached from, nor than the change the call made itself.
Forward == held' # held => held'.asOf >= (IF call = NoCall THEN held.asOf ELSE call.since)
Preserved == HandleInv' /\ CallInv' /\ Forward

\* Giving $expand up empties the features and changes nothing else.
LEMMA RestrictExpandPreserves ==
  ASSUME TreeInv, RestrictExpand
  PROVE  Preserved
<1>1. HandleInv /\ CallInv /\ clock \in Nat /\ clock' = clock /\ call' = call
      /\ request' = "none" /\ held' = [held EXCEPT !.features = {}] /\ call = NoCall
  BY DEF TreeInv, RestrictExpand, HandleInv
<1>2. PICK a, b, c, d, e, f :
         held = [type |-> a, is |-> b, link |-> c, asOf |-> d, features |-> e, listed |-> f]
  BY <1>1 DEF HandleInv, IsHandle
<1>3. held' = [type |-> a, is |-> b, link |-> c, asOf |-> d, features |-> {}, listed |-> f]
  BY <1>1, <1>2
<1>4. /\ IsHandle(held') /\ held'.type = held.type /\ held'.is = held.is /\ held'.link = held.link
      /\ held'.asOf = held.asOf /\ held'.features = {}
  BY <1>2, <1>3 DEF IsHandle
<1>5. HandleInv'
  BY <1>1, <1>4 DEF HandleInv, IsHandle, NoExpandWhereGivenUp
<1>6. CallInv'
  BY <1>1, WalkKept
<1>7. Forward
  BY <1>1, <1>4 DEF Forward, HandleInv
<1>8. QED
  BY <1>1, <1>5, <1>6, <1>7 DEF Preserved, RestrictExpand

\* An operation starts from the snapshot of its handle.
LEMMA BeginPreserves ==
  ASSUME TreeInv, NEW name \in DOMAIN Operations(held), Navigate(name) \/ Change(name)
  PROVE  Preserved
<1> DEFINE op == Operations(held)[name]
<1>1. /\ HandleInv /\ CallInv /\ clock \in Nat
  BY DEF TreeInv, HandleInv
<1>2. /\ call' = Begin(op) /\ op.kind # "link" /\ request' = "none" /\ clock' = clock
      /\ held' = held /\ restricted' = restricted
  BY DEF Navigate, Change
<1>3. CallGood(Begin(op), clock)
  BY <1>1, <1>2, OperationsKnown, Begins
<1>4. CallInv'
  BY <1>2, <1>3, CallMade
<1>5. HandleInv'
  BY <1>1, <1>2, SnapshotKept DEF Sendable
<1>6. QED
  BY <1>1, <1>2, <1>4, <1>5 DEF Preserved, Forward

\* A link to a task is as old as the handle it was made from.
LEMMA LinkPreserves ==
  ASSUME TreeInv, NEW name \in DOMAIN Operations(held), Link(name)
  PROVE  Preserved
<1> DEFINE to == Operations(held)[name].to
<1>1. /\ HandleInv /\ CallInv /\ clock \in Nat /\ held.asOf \in 0 .. clock
  BY DEF TreeInv, HandleInv
<1>2. /\ request' = request /\ clock' = clock /\ call' = call /\ call = NoCall
      /\ restricted' = restricted
  BY DEF Link
<1>3. PICK type, is, asOf, listed :
         asOf = held.asOf /\ Becomes(type, is, TRUE, asOf, listed)
  BY DEF Link, IsMemberLocation
<1>4. Sendable(request')
  BY <1>1, <1>2 DEF HandleInv, NoExpandWhereGivenUp, Sendable
<1>5. HandleInv' /\ held'.asOf = held.asOf
  <2>1. asOf \in 0 .. clock' /\ clock' \in Nat
    BY <1>1, <1>2, <1>3
  <2>2. /\ IsHandle(held') /\ held'.link = TRUE /\ held'.asOf = asOf
        /\ held'.features = held.features
    BY <1>1, <1>3, BecomesEffect DEF HandleInv
  <2>3. QED
    BY <1>1, <1>2, <1>3, <1>4, <2>1, <2>2 DEF HandleInv, IsHandle, NoExpandWhereGivenUp, Sendable
<1>6. CallInv'
  BY <1>1, <1>2, WalkKept
<1>7. Forward
  BY <1>1, <1>2, <1>5 DEF Forward
<1>8. QED
  BY <1>1, <1>2, <1>5, <1>6, <1>7 DEF Preserved

\* However a hop is taken, it sends no $expand where that was given up.
LEMMA WaysSendable ==
  ASSUME HandleInv, NEW hop \in HopNames, NEW type, NEW way \in Ways(hop, type)
  PROVE  Sendable(way.query)
<1>1. restricted => OptimalQuery(held.features) = "get"
  BY DEF HandleInv, OptimalQuery
<1>2. \A inlined : Sendable(Get(inlined).query)
  BY DEF Get, Sendable
<1>3. \A inlined, filters : Sendable(Expand(inlined, filters).query)
  BY <1>1 DEF Expand, Sendable
<1>4. \/ \E inlined : way = Get(inlined)
      \/ \E inlined, filters : way = Expand(inlined, filters)
  BY DEF Ways, HopNames
<1>5. QED
  BY <1>2, <1>3, <1>4

\* The document that a hop reaches was read since the call.
LEMMA ReachedGood ==
  ASSUME CallGood(call, clock), clock \in Nat, call.op.kind = "navigate", call.left # <<>>,
         NEW asOf \in call.since .. clock, NEW filters, Reached(asOf, filters)
  PROVE  CallGood(call', clock)
<1>1. PICK listed : call' = [call EXCEPT !.left = Tail(call.left), !.asOf = asOf,
                                         !.listed = listed, !.todo = DOMAIN listed]
  BY DEF Reached
<1>2. PICK c : c = call
  OBVIOUS
<1>3. PICK d : d = call'
  OBVIOUS
<1>4. IsCall(c)
  BY <1>2 DEF CallGood
<1>5. /\ IsCall(d) /\ d.op = c.op /\ d.left = Tail(c.left) /\ d.asOf = asOf /\ d.since = c.since
      /\ d.listed = listed /\ d.todo = DOMAIN listed /\ d.got = c.got /\ d.reread = c.reread
  <2>1. d = Advance(c, Tail(c.left), asOf, listed, DOMAIN listed)
    BY <1>1, <1>2, <1>3 DEF Advance
  <2>2. QED
    BY ONLY <1>4, <2>1, Advanced
<1>6. /\ c.since \in 0 .. clock /\ ~c.reread /\ c.left \in Seq(HopNames) /\ c.left # <<>>
      /\ \A m \in DOMAIN c.got : c.got[m] \in c.since .. clock
  BY <1>2 DEF CallGood, NavigatesInTime
<1>7. d.left \in Seq(HopNames)
  BY <1>5, <1>6
<1>8. NavigatesInTime(d, clock)
  BY <1>2, <1>5, <1>6, <1>7 DEF NavigatesInTime
<1>9. MembersKept(d)
  BY <1>5 DEF MembersKept
<1>10. QED
  BY <1>3, <1>5, <1>6, <1>8, <1>9 DEF CallGood

\* A hop, whether it is read, inlined or fails.
LEMMA HopPreserves ==
  ASSUME TreeInv, Hop
  PROVE  Preserved
<1>1. /\ HandleInv /\ CallInv /\ clock \in Nat
  BY DEF TreeInv, HandleInv
<1>2. /\ call # NoCall /\ call.op.kind = "navigate" /\ call.left # <<>>
      /\ clock' = clock /\ held' = held /\ restricted' = restricted
  BY DEF Hop, Reached, Fails
<1>3. CallGood(call, clock)
  BY <1>1, <1>2 DEF CallInv
<1>4. call.left \in Seq(HopNames) /\ call.asOf \in call.since .. clock /\ call.since \in 0 .. clock
  BY <1>2, <1>3 DEF CallGood, NavigatesInTime
<1>5. Head(call.left) \in HopNames
  BY <1>2, <1>4
<1>6. Sendable(request')
  <2>1. Sendable(request)
    BY <1>1 DEF HandleInv, NoExpandWhereGivenUp, Sendable
  <2>2. \/ request' = request
        \/ \E way \in Ways(Head(call.left), call.op.to) : request' = way.query
    BY DEF Hop
  <2>3. QED
    BY <1>1, <1>5, <2>1, <2>2, WaysSendable
<1>7. HandleInv'
  BY <1>1, <1>2, <1>6, SnapshotKept
<1>8. CallInv'
  <2>1. clock \in call.since .. clock
    BY <1>1, <1>4
  <2>2. call' = NoCall \/ \E asOf \in call.since .. clock : \E filters : Reached(asOf, filters)
    BY <1>4, <2>1 DEF Hop, Fails
  <2>3. ASSUME NEW asOf \in call.since .. clock, NEW filters, Reached(asOf, filters)
        PROVE  CallGood(call', clock')
    BY <1>1, <1>2, <1>3, <2>3, ReachedGood
  <2>4. QED
    BY <2>2, <2>3, CallMade, CallEnded
<1>9. QED
  BY <1>1, <1>2, <1>7, <1>8 DEF Preserved, Forward

\* One round of a list's loop keeps every member accounted for.
LEMMA TakenGood ==
  ASSUME CallGood(call, clock), clock \in Nat, NEW m,
         NEW asOf, call.op.kind = "navigate" => asOf \in call.since .. clock, Taken(m, asOf)
  PROVE  CallGood(call', clock)
<1>1. PICK c : c = call
  OBVIOUS
<1>2. PICK d : d = call'
  OBVIOUS
<1>3. PICK todo : todo = c.todo \ {m}
  OBVIOUS
<1>4. PICK got : got = [n \in DOMAIN c.got \cup {m} |-> IF n = m THEN asOf ELSE c.got[n]]
  OBVIOUS
<1>5. d = TakeUp(c, todo, got)
  BY <1>1, <1>2, <1>3, <1>4 DEF Taken, TakeUp
<1>6. IsCall(c) /\ c.since \in 0 .. clock /\ NavigatesInTime(c, clock) /\ MembersKept(c)
  BY <1>1 DEF CallGood
<1>7. /\ IsCall(d) /\ d.op = c.op /\ d.left = c.left /\ d.asOf = c.asOf /\ d.since = c.since
      /\ d.listed = c.listed /\ d.todo = todo /\ d.got = got /\ d.gone = c.gone
      /\ d.reread = c.reread
  BY ONLY <1>5, <1>6, TookUp
<1>8. DOMAIN got = DOMAIN c.got \cup {m} /\ \A n \in DOMAIN got : got[n] = IF n = m THEN asOf ELSE c.got[n]
  BY <1>4
<1>9. NavigatesInTime(d, clock)
  <2>1. SUFFICES ASSUME c.op.kind = "navigate"
                 PROVE  \A n \in DOMAIN got : got[n] \in c.since .. clock
    BY <1>6, <1>7 DEF NavigatesInTime
  <2>2. asOf \in c.since .. clock /\ \A n \in DOMAIN c.got : c.got[n] \in c.since .. clock
    BY <1>1, <1>6, <2>1 DEF NavigatesInTime
  <2>3. QED
    BY <1>8, <2>2
<1>10. MembersKept(d)
  BY <1>3, <1>6, <1>7, <1>8 DEF MembersKept
<1>11. QED
  BY <1>2, <1>6, <1>7, <1>9, <1>10 DEF CallGood

\* A member may be passed over only where it is gone and the list says so.
LEMMA SkippedGood ==
  ASSUME CallGood(call, clock), NEW m, m \in call.gone, SkipsGone(call.op),
         call' = [call EXCEPT !.todo = call.todo \ {m}]
  PROVE  CallGood(call', clock)
<1>1. PICK c : c = call
  OBVIOUS
<1>2. PICK d : d = call'
  OBVIOUS
<1>3. PICK todo : todo = c.todo \ {m}
  OBVIOUS
<1>4. d = PassOver(c, todo)
  BY <1>1, <1>2, <1>3 DEF PassOver
<1>5. IsCall(c) /\ c.since \in 0 .. clock /\ NavigatesInTime(c, clock) /\ MembersKept(c)
  BY <1>1 DEF CallGood
<1>6. /\ IsCall(d) /\ d.op = c.op /\ d.left = c.left /\ d.asOf = c.asOf /\ d.since = c.since
      /\ d.listed = c.listed /\ d.todo = todo /\ d.got = c.got /\ d.gone = c.gone
      /\ d.reread = c.reread
  BY ONLY <1>4, <1>5, PassedOver
<1>7. NavigatesInTime(d, clock)
  BY <1>5, <1>6 DEF NavigatesInTime
<1>8. MembersKept(d)
  BY <1>1, <1>3, <1>5, <1>6 DEF MembersKept, SkipsGone
<1>9. QED
  BY <1>2, <1>5, <1>6, <1>7, <1>8 DEF CallGood

\* One round of a list's loop.
LEMMA MemberPreserves ==
  ASSUME TreeInv, Member
  PROVE  Preserved
<1>1. /\ HandleInv /\ CallInv /\ clock \in Nat
  BY DEF TreeInv, HandleInv
<1>2. /\ call # NoCall /\ call.left = <<>>
      /\ clock' = clock /\ held' = held /\ restricted' = restricted
  BY DEF Member, IsList, Fails
<1>3. CallGood(call, clock)
  BY <1>1, <1>2 DEF CallInv
<1>4. /\ call.since \in 0 .. clock
      /\ call.op.kind = "navigate" => call.asOf \in call.since .. clock
  BY <1>3 DEF CallGood, NavigatesInTime
<1>5. Sendable(request')
  <2>1. request' = request \/ request' = "get"
    BY DEF Member
  <2>2. QED
    BY <1>1, <2>1 DEF HandleInv, NoExpandWhereGivenUp, Sendable
<1>6. HandleInv'
  BY <1>1, <1>2, <1>5, SnapshotKept
<1>7. CallInv'
  <2>1. clock \in call.since .. clock
    BY <1>1, <1>4
  <2>2. PICK m : \/ Taken(m, call.asOf) \/ Taken(m, clock) \/ call' = NoCall
                 \/ /\ m \in call.gone /\ SkipsGone(call.op)
                    /\ call' = [call EXCEPT !.todo = call.todo \ {m}]
    BY DEF Member, Fails
  <2>3. CASE Taken(m, call.asOf)
    BY <1>1, <1>2, <1>3, <1>4, <2>3, TakenGood, CallMade
  <2>4. CASE Taken(m, clock)
    BY <1>1, <1>2, <1>3, <2>1, <2>4, TakenGood, CallMade
  <2>5. CASE call' = NoCall
    BY <2>5, CallEnded
  <2>6. CASE /\ m \in call.gone /\ SkipsGone(call.op)
             /\ call' = [call EXCEPT !.todo = call.todo \ {m}]
    BY <1>2, <1>3, <2>6, SkippedGood, CallMade
  <2>7. QED
    BY <2>2, <2>3, <2>4, <2>5, <2>6
<1>8. QED
  BY <1>1, <1>2, <1>6, <1>7 DEF Preserved, Forward

\* A navigation returns what it read.
LEMMA ReturnPreserves ==
  ASSUME TreeInv, OperationReturns
  PROVE  Preserved
<1>1. /\ HandleInv /\ CallInv /\ clock \in Nat
  BY DEF TreeInv, HandleInv
<1>2. /\ call # NoCall /\ call.op.kind = "navigate" /\ call' = NoCall /\ request' = request
      /\ clock' = clock /\ restricted' = restricted
  BY DEF OperationReturns
<1>3. CallGood(call, clock)
  BY <1>1, <1>2 DEF CallInv
<1>4. /\ call.since \in 0 .. clock /\ call.asOf \in call.since .. clock
      /\ \A m \in DOMAIN call.got : call.got[m] \in call.since .. clock
  BY <1>2, <1>3 DEF CallGood, NavigatesInTime
<1>5. Sendable(request')
  BY <1>1, <1>2 DEF HandleInv, NoExpandWhereGivenUp, Sendable
<1>6. \/ held' = held
      \/ \E asOf \in call.since .. clock : \E link, listed :
            Becomes(call.op.to, call.op.to, link, asOf, listed)
  BY <1>4 DEF OperationReturns
<1>7. ASSUME NEW asOf \in call.since .. clock, NEW link, NEW listed,
             Becomes(call.op.to, call.op.to, link, asOf, listed)
      PROVE  HandleInv' /\ Forward
  <2>1. asOf \in 0 .. clock' /\ clock' \in Nat /\ asOf >= call.since
    BY <1>1, <1>2, <1>4
  <2>2. HandleInv' /\ held'.asOf = asOf
    BY ONLY <1>1, <1>2, <1>5, <1>7, <2>1, HandleMade
  <2>3. QED
    BY <1>2, <2>1, <2>2 DEF Forward
<1>8. ASSUME held' = held PROVE HandleInv' /\ Forward
  <2>1. clock' \in Nat /\ clock <= clock'
    BY <1>1, <1>2
  <2>2. QED
    BY <1>1, <1>2, <1>5, <1>8, <2>1, SnapshotKept DEF Forward
<1>9. CallInv'
  BY <1>2, CallEnded
<1>10. QED
  BY <1>1, <1>2, <1>6, <1>7, <1>8, <1>9 DEF Preserved

\* A call that was made is at a kind of operation, none of them a query.
LEMMA KindSendable ==
  ASSUME NEW c, IsCall(c)
  PROVE  Sendable(c.op.kind)
  BY DEF IsCall, Kinds, Sendable

\* The entity that a reply names is of the kind the operation returns.
LEMMA EntityNamed ==
  ASSUME NEW op, NEW is \in Named(op), IsEntity(op, is)
  PROVE  is = op.to
  BY DEF Named, IsEntity

\* A change that the service applied: done, or its entity at hand or to be read.
LEMMA AppliedPreserves ==
  ASSUME TreeInv, Applied
  PROVE  Preserved
<1>1. /\ HandleInv /\ CallInv /\ clock \in Nat
  BY DEF TreeInv, HandleInv
<1>2. /\ call # NoCall /\ call.op.kind # "navigate" /\ request' = call.op.kind
      /\ clock' = clock + 1 /\ restricted' = restricted
  BY DEF Applied
<1>3. CallGood(call, clock) /\ IsCall(call) /\ call.since \in 0 .. clock
  BY <1>1, <1>2 DEF CallInv, CallGood
<1>4. Sendable(request')
  BY <1>2, <1>3, KindSendable
<1>5. clock' \in Nat /\ clock <= clock' /\ clock + 1 \in 0 .. clock' /\ clock + 1 >= call.since
  BY <1>1, <1>2, <1>3
<1>6. \/ held' = held /\ call' = NoCall
      \/ call' = NoCall /\ Becomes(call.op.to, call.op.to, FALSE, clock + 1, <<>>)
      \/ \E is : held' = held /\ call' = [call EXCEPT !.reread = TRUE, !.since = clock + 1,
                                                      !.op.to = is]
  <2>1. CASE call' = NoCall /\ UNCHANGED held
    BY <2>1
  <2>2. CASE \E is \in Named(call.op), inlined \in BOOLEAN :
                IF ~IsEntity(call.op, is) THEN call' = NoCall /\ untouched' = FALSE /\ UNCHANGED held
                ELSE IF inlined
                THEN /\ Becomes(call.op.to, is, FALSE, clock + 1, <<>>)
                     /\ call' = NoCall /\ untouched' = TRUE
                ELSE /\ call' = [call EXCEPT !.reread = TRUE, !.since = clock + 1, !.op.to = is]
                     /\ untouched' = FALSE /\ UNCHANGED held
    <3>1. PICK is \in Named(call.op) :
            \/ call' = NoCall /\ held' = held
            \/ IsEntity(call.op, is) /\ Becomes(call.op.to, is, FALSE, clock + 1, <<>>) /\ call' = NoCall
            \/ call' = [call EXCEPT !.reread = TRUE, !.since = clock + 1, !.op.to = is] /\ held' = held
      BY <2>2
    <3>2. IsEntity(call.op, is) => is = call.op.to
      BY EntityNamed
    <3>3. QED
      BY <3>1, <3>2
  <2>3. QED
    BY <2>1, <2>2 DEF Applied
<1>7. CASE held' = held /\ call' = NoCall
  BY <1>1, <1>2, <1>4, <1>5, <1>7, SnapshotKept, CallEnded DEF Preserved, Forward
<1>8. CASE call' = NoCall /\ Becomes(call.op.to, call.op.to, FALSE, clock + 1, <<>>)
  <2>1. PICK type, link, asOf, listed : asOf = clock + 1 /\ Becomes(type, type, link, asOf, listed)
    BY <1>8
  <2>2. asOf \in 0 .. clock'
    BY <1>5, <2>1
  <2>3. HandleInv' /\ held'.asOf = asOf
    BY ONLY <1>1, <1>2, <1>4, <1>5, <2>1, <2>2, HandleMade
  <2>4. QED
    BY <1>2, <1>5, <1>8, <2>1, <2>3, CallEnded DEF Preserved, Forward
<1>9. ASSUME NEW is, held' = held,
              call' = [call EXCEPT !.reread = TRUE, !.since = clock + 1, !.op.to = is]
       PROVE  Preserved
  <2>1. PICK c : c = call
    OBVIOUS
  <2>2. PICK d : d = call'
    OBVIOUS
  <2>3. PICK since : since = clock + 1
    OBVIOUS
  <2>4. IsCall(c) /\ MembersKept(c) /\ c.op.kind # "navigate"
    BY <1>2, <1>3, <2>1 DEF CallGood
  <2>5. d = ReadNext(c, since, is)
    BY <1>9, <2>1, <2>2, <2>3 DEF ReadNext
  <2>6. /\ IsCall(d) /\ d.op.kind = c.op.kind /\ d.op.tail = c.op.tail /\ d.since = since
        /\ d.listed = c.listed /\ d.todo = c.todo /\ d.got = c.got /\ d.gone = c.gone
    BY ONLY <2>4, <2>5, RereadNext
  <2>7. NavigatesInTime(d, clock') /\ MembersKept(d)
    BY <2>4, <2>6 DEF NavigatesInTime, MembersKept
  <2>8. d.since \in 0 .. clock'
    BY <1>5, <2>3, <2>6
  <2>9. CallInv'
    BY <2>2, <2>6, <2>7, <2>8, CallMade DEF CallGood
  <2>10. HandleInv'
    BY <1>1, <1>2, <1>4, <1>5, <1>9, SnapshotKept
  <2>11. QED
    BY <1>9, <2>9, <2>10 DEF Preserved, Forward
<1>10. QED
  BY <1>6, <1>7, <1>8, <1>9

\* A change that was refused.
LEMMA RefusedPreserves ==
  ASSUME TreeInv, Refused
  PROVE  Preserved
<1>1. /\ HandleInv /\ CallInv /\ clock \in Nat
  BY DEF TreeInv, HandleInv
<1>2. /\ call # NoCall /\ call' = NoCall /\ request' \in {call.op.kind, request} /\ held' = held
      /\ clock' = clock /\ restricted' = restricted
  BY DEF Refused, Fails
<1>3. Sendable(call.op.kind) /\ Sendable(request)
  BY <1>1, <1>2, KindSendable DEF CallInv, CallGood, HandleInv, NoExpandWhereGivenUp, Sendable
<1>4. Sendable(request')
  BY <1>2, <1>3
<1>5. HandleInv' /\ CallInv'
  BY <1>1, <1>2, <1>4, SnapshotKept, CallEnded
<1>6. QED
  BY <1>1, <1>2, <1>5 DEF Preserved, Forward

\* The entity is read after the change that named it.
LEMMA RereadPreserves ==
  ASSUME TreeInv, Reread
  PROVE  Preserved
<1>1. /\ HandleInv /\ CallInv /\ clock \in Nat
  BY DEF TreeInv, HandleInv
<1>2. /\ call # NoCall /\ call' = NoCall /\ request' = "get"
      /\ clock' = clock /\ restricted' = restricted
      /\ held' = held \/ Becomes(call.op.to, call.op.to, FALSE, clock, <<>>)
  BY DEF Reread, Fails, EntityAsOf
<1>3. call.since \in 0 .. clock
  BY <1>1, <1>2 DEF CallInv, CallGood
<1>4. Sendable(request')
  BY <1>2 DEF Sendable
<1>5. clock' \in Nat /\ clock <= clock' /\ clock \in 0 .. clock' /\ clock >= call.since
  BY <1>1, <1>2, <1>3
<1>6. CASE held' = held
  BY <1>1, <1>2, <1>4, <1>5, <1>6, SnapshotKept, CallEnded
     DEF Preserved, Forward
<1>7. CASE Becomes(call.op.to, call.op.to, FALSE, clock, <<>>)
  <2>1. PICK type, link, asOf, listed : asOf = clock /\ Becomes(type, type, link, asOf, listed)
    BY <1>7
  <2>2. asOf \in 0 .. clock'
    BY <1>5, <2>1
  <2>3. HandleInv' /\ held'.asOf = asOf
    BY ONLY <1>1, <1>2, <1>4, <1>5, <2>1, <2>2, HandleMade
  <2>4. QED
    BY <1>1, <1>2, <1>5, <2>1, <2>3, CallEnded DEF Preserved, Forward
<1>8. QED
  BY <1>2, <1>6, <1>7

\* Others change the service in between.
LEMMA ServiceChangesPreserves ==
  ASSUME TreeInv, ServiceChanges
  PROVE  Preserved
<1>1. /\ HandleInv /\ CallInv /\ clock \in Nat
  BY DEF TreeInv, HandleInv
<1>2. /\ clock' = clock + 1 /\ held' = held /\ request' = request /\ restricted' = restricted
  BY DEF ServiceChanges
<1>3. clock' \in Nat /\ clock <= clock'
  BY <1>1, <1>2
<1>4. HandleInv'
  BY <1>1, <1>2, <1>3, SnapshotKept DEF HandleInv, NoExpandWhereGivenUp, Sendable
<1>5. CallInv'
  <2>1. CASE call' = call
    BY <1>1, <1>3, <2>1, WalkKept
  <2>2. ASSUME IsList, NEW m, call' = [call EXCEPT !.gone = call.gone \cup {m}]
        PROVE  CallInv'
    <3>1. PICK c : c = call
      OBVIOUS
    <3>2. PICK d : d = call'
      OBVIOUS
    <3>3. PICK gone : gone = c.gone \cup {m}
      OBVIOUS
    <3>4. CallGood(c, clock')
      BY <1>1, <1>3, <2>2, <3>1, CallLater DEF IsList, CallInv
    <3>5. IsCall(c) /\ c.since \in 0 .. clock' /\ NavigatesInTime(c, clock') /\ MembersKept(c)
      BY <3>4 DEF CallGood
    <3>6. d = LoseMember(c, gone)
      BY <2>2, <3>1, <3>2, <3>3 DEF LoseMember
    <3>7. /\ IsCall(d) /\ d.op = c.op /\ d.left = c.left /\ d.asOf = c.asOf
          /\ d.since = c.since /\ d.listed = c.listed /\ d.todo = c.todo /\ d.got = c.got
          /\ d.gone = gone /\ d.reread = c.reread
      BY ONLY <3>5, <3>6, MemberGone
    <3>8. NavigatesInTime(d, clock') /\ MembersKept(d)
      BY <3>3, <3>5, <3>7 DEF NavigatesInTime, MembersKept
    <3>9. QED
      BY <3>2, <3>5, <3>7, <3>8, CallMade DEF CallGood
  <2>3. QED
    BY <2>1, <2>2 DEF ServiceChanges
<1>6. QED
  BY <1>1, <1>2, <1>4, <1>5 DEF Preserved, Forward

\* Every step keeps the invariant and goes forward.
LEMMA StepPreserves ==
  ASSUME TreeInv, TreeNext
  PROVE  TreeInv' /\ Forward
<1>1. Preserved
  BY RestrictExpandPreserves, BeginPreserves, LinkPreserves, HopPreserves, MemberPreserves,
     ReturnPreserves, AppliedPreserves, RefusedPreserves, RereadPreserves,
     ServiceChangesPreserves DEF TreeNext
<1>2. QED
  BY <1>1 DEF Preserved, TreeInv

\* Nothing happens.
LEMMA StutterPreserves ==
  ASSUME TreeInv, UNCHANGED treeVars
  PROVE  TreeInv'
<1>1. HandleInv /\ CallInv
  BY DEF TreeInv
<1>2. held' = held /\ call' = call /\ clock' = clock /\ request' = request
      /\ restricted' = restricted
  BY DEF treeVars
<1>3. clock' \in Nat /\ clock <= clock'
  BY <1>1, <1>2 DEF HandleInv
<1>4. Sendable(request')
  BY <1>1, <1>2 DEF HandleInv, NoExpandWhereGivenUp, Sendable
<1>5. HandleInv' /\ CallInv'
  BY <1>1, <1>2, <1>3, <1>4, SnapshotKept, WalkKept
<1>6. QED
  BY <1>1, <1>2, <1>5 DEF TreeInv

\* A fresh root.
LEMMA TreeInitInv == TreeInit => TreeInv
<1> SUFFICES ASSUME TreeInit PROVE TreeInv
  OBVIOUS
<1>1. PICK declared \in SUBSET {"no_links", "expand_all"} :
         held = [type |-> "ServiceRoot", is |-> "ServiceRoot", link |-> FALSE, asOf |-> 0,
                 features |-> ProtocolFeatures(platform, declared), listed |-> <<>>]
  BY DEF TreeInit
<1>2. /\ restricted = ("ExpandIsNotWorkingProperly" \in platform) /\ clock = 0 /\ call = NoCall
      /\ request = "none"
  BY DEF TreeInit
<1>3. IsHandle(held) /\ held.asOf = 0 /\ held.type = "ServiceRoot" /\ held.is = "ServiceRoot"
      /\ held.features = ProtocolFeatures(platform, declared)
  BY <1>1 DEF IsHandle
<1>4. restricted => held.features = {}
  BY <1>2, <1>3 DEF ProtocolFeatures
<1>5. HandleInv
  BY <1>2, <1>3, <1>4 DEF HandleInv, NoExpandWhereGivenUp
<1>6. QED
  BY <1>2, <1>5 DEF TreeInv, CallInv

\* The invariant of a walk: the handle, the call in progress and the ETags.
THEOREM WalkInvariance == WalkSpec => []TreeInv
<1>1. TreeInv /\ [TreeNext]_treeVars => TreeInv'
  BY StepPreserves, StutterPreserves
<1>2. QED
  BY <1>1, TreeInitInv, PTL DEF WalkSpec

\* A handle stands for the kind of resource its type says, and sends no $expand
\* where its root gave that up: for any sequence of operations and changes.
THEOREM HandlesStayTrue == WalkSpec => []HandlesTrue
<1>1. TreeInv => HandlesTrue
  BY DEF TreeInv, HandleInv, HandlesTrue
<1>2. QED
  BY <1>1, WalkInvariance, PTL

\* A list that an operation returns has every member that its collection
\* listed, unless the operation passes over members that are gone.
THEOREM ListsAreWhole == WalkSpec => []ListsWhole
<1>1. TreeInv => ListsWhole
  BY DEF TreeInv, CallInv, CallGood, MembersKept, ListsWhole, IsList
<1>2. QED
  BY <1>1, WalkInvariance, PTL

\* No operation returns data that are older than the handle it was called on,
\* or than the change that it made itself.
THEOREM WalksGoForward == WalkSpec => NeverBackInTime
<1>1. TreeInv /\ [TreeNext]_treeVars => [Forward]_treeVars
  BY StepPreserves
<1>2. QED
  BY <1>1, WalkInvariance, PTL DEF WalkSpec, NeverBackInTime, Forward
=============================================================================
