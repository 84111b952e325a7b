----------------------------- MODULE AsyncAction -----------------------------
(***************************************************************************)
(* AsyncActionResult of the task service: an action that may complete      *)
(* later, followed over its Task Monitor or its Task by polls that can     *)
(* fail, be dropped half way, or be taken up again by another process from *)
(* a saved task.                                                           *)
(*                                                                         *)
(* The service (external) runs the operation, may move its monitor, and    *)
(* reports the end in one of the ways the code distinguishes.              *)
(***************************************************************************)
EXTENDS Naturals, Sequences

CONSTANTS MaxMoves,   \* bound on how often the monitor moves
          MaxPolls    \* bound on the calls of poll_result

VARIABLES service,   \* the operation at the service
          returns,   \* "unit" when the action returns nothing, else "value"
          handle,    \* AsyncActionResult: its State, and where it is pending
          poll,      \* the poll_result in progress
          saved,     \* the task the caller last persisted
          outcomes,  \* what calls of poll_result returned, by handle
          polls      \* number of calls

asyncVars == <<service, returns, handle, poll, saved, outcomes, polls>>

(* How the service shows operations: at a monitor, which at the end gives   *)
(* the result itself, a reference to it, or nothing; or at the Task, which  *)
(* records where the result is, or does not.                                *)
Styles == {"monitor result", "monitor location", "monitor empty", "task recorded", "task bare"}
Nowhere == <<"nowhere", 0>>
Pending(at) == [state |-> "Pending", at |-> at]
Settled(state) == [state |-> state, at |-> Nowhere]
NoPoll == [at |-> Nowhere, followed |-> FALSE, requests |-> 0]

AsyncInit ==
    /\ service \in [style : Styles, state : {"running"}, moves : {0}]
    /\ returns \in {"unit", "value"}
    /\ handle = Settled("unborn") /\ poll = NoPoll
    /\ saved = Nowhere /\ outcomes = <<>> /\ polls = 0

Monitor(n) == <<"monitor", n>>
Here == IF service.style \in {"task recorded", "task bare"} THEN <<"task", 0>>
        ELSE Monitor(service.moves)
ResultPlace == <<"result", 0>>

(* result_without_body. *)
WithoutBody == returns = "unit"

(* AsyncActionResult::start on what the action was answered with. *)
Start ==
    /\ handle.state = "unborn"
    /\ \/ handle' = Pending(Here) /\ UNCHANGED service
       \/ \* The result, or its place, at once.
          /\ service.style \in {"monitor result", "monitor location", "monitor empty"}
          /\ service' = [service EXCEPT !.state = "completed"]
          /\ handle' = CASE service.style = "monitor result" -> Settled("Ready")
                         [] service.style = "monitor location" ->
                              IF WithoutBody THEN Settled("Ready") ELSE Pending(ResultPlace)
                         [] OTHER -> Settled("Finished")
    /\ UNCHANGED <<returns, poll, saved, outcomes, polls>>

(* The operation at the service. *)
Move ==
    /\ service.state = "running" /\ Here[1] = "monitor" /\ service.moves < MaxMoves
    /\ handle.state # "unborn"
    /\ service' = [service EXCEPT !.moves = @ + 1]
    /\ UNCHANGED <<returns, handle, poll, saved, outcomes, polls>>
Conclude ==
    /\ service.state = "running" /\ handle.state # "unborn"
    /\ \E state \in {"completed", "failed"} :
          /\ state = "failed" => Here[1] = "task"
          /\ service' = [service EXCEPT !.state = state]
    /\ UNCHANGED <<returns, handle, poll, saved, outcomes, polls>>

(* What a request to a place is answered with. *)
Reply(place) ==
    CASE place = ResultPlace -> "Result"
      [] place[1] = "task" -> "Task"
      [] place[1] = "monitor" /\ service.state = "running" -> "Accepted"
      [] place[1] = "monitor" /\ service.state # "running" ->
            CASE service.style = "monitor result" -> "Result"
              [] service.style = "monitor location" -> "Location"
              [] OTHER -> "Empty"

----------------------------------------------------------------------------
Idling == poll = NoPoll

(* poll_result is called: a settled handle answers at once. *)
Answer == CASE handle.state = "Ready" -> "result"
            [] handle.state = "Finished" -> IF WithoutBody THEN "result" ELSE "unavailable"
            [] OTHER -> "already finished"
PollSettled ==
    /\ Idling /\ polls < MaxPolls /\ handle.state \in {"Ready", "Finished", "Done"}
    /\ outcomes' = Append(outcomes, Answer)
    /\ handle' = Settled("Done")
    /\ polls' = polls + 1
    /\ UNCHANGED <<service, returns, poll, saved>>
PollPending ==
    /\ Idling /\ polls < MaxPolls /\ handle.state = "Pending"
    /\ poll' = [at |-> handle.at, followed |-> FALSE, requests |-> 1]
    /\ polls' = polls + 1
    /\ UNCHANGED <<service, returns, handle, saved, outcomes>>

Return(outcome, h) ==
    /\ poll' = NoPoll /\ handle' = h
    /\ outcomes' = IF outcome = "pending" THEN outcomes ELSE Append(outcomes, outcome)

(* A result place is followed once in a poll. *)
MayFollow(place) == place # Nowhere /\ ~poll.followed

(* Mutant: the handle keeps pointing at the monitor while the result is     *)
(* read.                                                                    *)
FinishAtKeep(place) ==
    IF WithoutBody THEN Return("result", Settled("Done"))
    ELSE IF MayFollow(place)
    THEN /\ poll' = [at |-> place, followed |-> TRUE, requests |-> poll.requests + 1]
         /\ UNCHANGED <<handle, outcomes>>
    ELSE Return("unavailable", Settled("Done"))

(* The operation finished and its result is at a place, or nowhere. *)
FinishAt(place) ==
    IF WithoutBody THEN Return("result", Settled("Done"))
    ELSE IF MayFollow(place)
    THEN /\ poll' = [at |-> place, followed |-> TRUE, requests |-> poll.requests + 1]
         /\ handle' = Pending(place) /\ UNCHANGED outcomes
    ELSE Return("unavailable", Settled("Done"))

(* recorded_location of a completed Task. *)
RecordedLocation == IF service.style = "task recorded" THEN ResultPlace ELSE Nowhere

(* The Task itself was read. *)
TaskRead ==
    CASE service.state = "completed" -> FinishAt(RecordedLocation)
      [] service.state = "failed" -> Return("task failed", Settled("Done"))
      [] OTHER -> Return("pending", Pending(poll.at))

(* The response to the request in progress. *)
Responds ==
    /\ ~Idling
    /\ CASE Reply(poll.at) = "Accepted" -> Return("pending", Pending(Here))
         [] Reply(poll.at) = "Task" -> TaskRead
         [] Reply(poll.at) = "Result" -> Return("result", Settled("Done"))
         [] Reply(poll.at) = "Location" -> FinishAt(ResultPlace)
         [] OTHER -> FinishAt(Nowhere)
    /\ UNCHANGED <<service, returns, saved, polls>>

(* The request fails, or the caller drops the poll. *)
Interrupted ==
    /\ ~Idling /\ polls < MaxPolls
    /\ poll' = NoPoll
    /\ UNCHANGED <<service, returns, handle, saved, outcomes, polls>>

(* pending_task is persisted, and AsyncActionResult::resume in a process    *)
(* that lost the handle.                                                    *)
Save ==
    /\ Idling /\ handle.state = "Pending" /\ saved # handle.at
    /\ saved' = handle.at
    /\ UNCHANGED <<service, returns, handle, poll, outcomes, polls>>
Resume ==
    /\ saved # Nowhere /\ polls < MaxPolls
    /\ handle' = Pending(saved) /\ poll' = NoPoll /\ outcomes' = <<>>
    /\ UNCHANGED <<service, returns, saved, polls>>

AsyncSteps == Responds \/ PollSettled \/ PollPending
AsyncNext == Start \/ Move \/ Conclude \/ AsyncSteps \/ Interrupted \/ Save \/ Resume

----------------------------------------------------------------------------
(* A pending handle points at where the operation, or its result, is or     *)
(* was; once the result's place is known an interrupted poll does not       *)
(* forget it; and one poll makes at most two requests.                      *)
StepKept ==
    /\ poll.requests <= 2
    /\ poll # NoPoll /\ poll.followed => handle = Pending(ResultPlace)
    /\ handle.state = "Pending" =>
          handle.at \in {<<"task", 0>>, ResultPlace} \cup {Monitor(n) : n \in 0 .. service.moves}

(* A handle tells the outcome of its operation once, and truly: the first   *)
(* thing a poll returns other than "still running" is the outcome, every    *)
(* later one says that it was told; a result comes only from an operation   *)
(* that completed and a failure only from one that failed; and the result   *)
(* is missing only where the action returns a value and the service shows   *)
(* no place for it, whatever polls failed or were dropped before, which the *)
(* place a pending handle keeps makes sure of.                              *)
OutcomeOnceAndTrue ==
    /\ StepKept
    /\ \A i \in DOMAIN outcomes : i > 1 => outcomes[i] = "already finished"
    /\ outcomes # <<>> =>
          /\ outcomes[1] = "result" => service.state = "completed"
          /\ outcomes[1] = "task failed" => service.state = "failed"
          /\ outcomes[1] = "unavailable" =>
                returns = "value" /\ service.style \in {"monitor empty", "task bare"}
          /\ outcomes[1] # "already finished"
=============================================================================
