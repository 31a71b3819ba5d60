----------------------------- MODULE RunService -----------------------------
(***************************************************************************)
(* The web front end (ui/service.py, ui/app.py): a registry that runs one  *)
(* job at a time on a worker thread, parks a planned job in its review,    *)
(* and serves the review's requests, each on a thread of its own, until a  *)
(* terminal state, an abandon, or the shutdown of the server.              *)
(*                                                                         *)
(* A request reads the job's state before it takes the turn lock; what it  *)
(* does under the lock does not read that state again.  A streamed turn    *)
(* runs on one more thread, and the lock is given back by the response's   *)
(* generator, which ends when the turn does or when its reader goes away.  *)
(*                                                                         *)
(* Of the session (module ReviewSession) this keeps what the service can   *)
(* tell apart: whether an edit is pending, and how the session ended.      *)
(*                                                                         *)
(* A definition introduced as a fault is a plausible mistake in the one    *)
(* that follows it, and no part of the specification.                      *)
(***************************************************************************)
EXTENDS Naturals

CONSTANTS
    Jobs,              \* bound: the jobs ever started
    Requests,          \* bound: the requests in flight at once
    MaxToolCalls,      \* bound: the session tools one narrator turn may call
    None

ASSUME ServiceAssumption ==
    /\ None \notin Requests
    /\ MaxToolCalls \in Nat

VARIABLES
    state,      \* RunJob.state; approved_with_exclusions counts as approved
    worker,     \* where _execute is
    client,     \* the job's LaunchDarkly client
    closes,     \* how often client.close() was called
    review,     \* RunJob.review is set
    closed,     \* ReviewController._closed
    narrator,   \* ReviewController.narrator is set
    turnLock,   \* the request holding ReviewController.turn_lock, or None
    pending,    \* the session holds an edit back
    terminal,   \* the session's terminal state, "open" until it is recorded
    request,    \* each request: where it is, its kind and its job
    voice,      \* the narrator turn a request started: where, job, calls left
    shutdown    \* the server's shutdown hook has run

jobVars == <<state, worker, client, closes, review, closed, narrator>>
sessionVars == <<pending, terminal>>
vars == <<jobVars, turnLock, sessionVars, request, voice, shutdown>>

Ended == {"approved", "rejected", "abandoned", "finished", "failed"}
Kinds == {"edit", "confirm", "discard", "say", "stream", "approve", "reject", "abandon"}

Idle == [pc |-> "idle", kind |-> None, job |-> None]
Silent == [pc |-> "silent", job |-> None, left |-> 0]

Init ==
    /\ state = [j \in Jobs |-> "absent"]
    /\ worker = [j \in Jobs |-> "none"]
    /\ client = [j \in Jobs |-> "none"]
    /\ closes = [j \in Jobs |-> 0]
    /\ review = [j \in Jobs |-> FALSE]
    /\ closed = [j \in Jobs |-> FALSE]
    /\ narrator = [j \in Jobs |-> FALSE]
    /\ turnLock = [j \in Jobs |-> None]
    /\ pending = [j \in Jobs |-> FALSE]
    /\ terminal = [j \in Jobs |-> "open"]
    /\ request = [r \in Requests |-> Idle]
    /\ voice = [r \in Requests |-> Silent]
    /\ shutdown = FALSE
-----------------------------------------------------------------------------
(* Starting a job, and its worker thread.                                  *)

\* Fault: a parked review gives the slot up.
OccupiesWhilePlanning(j) == state[j] = "running"

\* Fault: a run that failed keeps the slot.
OccupiesWhenFailed(j) == state[j] \in {"running", "awaiting_review", "failed"}

OccupiesSlot(j) == state[j] \in {"running", "awaiting_review"}

\* RunService.start, whole under the registry's lock.
Start(j) ==
    /\ ~shutdown
    /\ state[j] = "absent"
    /\ \A i \in Jobs : ~OccupiesSlot(i)
    /\ state' = [state EXCEPT ![j] = "running"]
    /\ worker' = [worker EXCEPT ![j] = "open"]
    /\ UNCHANGED <<client, closes, review, closed, narrator,
                   turnLock, sessionVars, request, voice, shutdown>>

\* An exception anywhere in the worker; the finally clause comes after it.
Fail(j) ==
    /\ state' = [state EXCEPT ![j] = "failed"]
    /\ worker' = [worker EXCEPT ![j] = "finally"]

\* open_run: offline there is no client; a failure closes its own client.
OpenRun(j) ==
    /\ worker[j] = "open"
    /\ \/ /\ \E c \in {"none", "open"} : client' = [client EXCEPT ![j] = c]
          /\ worker' = [worker EXCEPT ![j] = "plan"]
          /\ UNCHANGED state
       \/ Fail(j) /\ UNCHANGED client
    /\ UNCHANGED <<closes, review, closed, narrator,
                   turnLock, sessionVars, request, voice, shutdown>>

\* run_with: a covering plan goes on to review, any other run is finished.
PlanRun(j) ==
    /\ worker[j] = "plan"
    /\ \/ worker' = [worker EXCEPT ![j] = "park"] /\ UNCHANGED state
       \/ /\ state' = [state EXCEPT ![j] = "finished"]
          /\ worker' = [worker EXCEPT ![j] = "finally"]
       \/ Fail(j)
    /\ UNCHANGED <<client, closes, review, closed, narrator,
                   turnLock, sessionVars, request, voice, shutdown>>

\* _park_for_review, up to the controller.  The narrator is best effort; its
\* opening turn has the session's tools, so an edit may already be pending.
BuildReview(j) ==
    /\ worker[j] = "park"
    /\ \/ /\ \E b \in BOOLEAN : narrator' = [narrator EXCEPT ![j] = b]
          /\ \E b \in BOOLEAN : pending' = [pending EXCEPT ![j] = b]
          /\ worker' = [worker EXCEPT ![j] = "publish"]
          /\ UNCHANGED state
       \/ Fail(j) /\ UNCHANGED <<narrator, pending>>
    /\ UNCHANGED <<client, closes, review, closed, turnLock,
                   terminal, request, voice, shutdown>>

PublishReview(j) ==
    /\ worker[j] = "publish"
    /\ review' = [review EXCEPT ![j] = TRUE]
    /\ worker' = [worker EXCEPT ![j] = "await"]
    /\ UNCHANGED <<state, client, closes, closed, narrator,
                   turnLock, sessionVars, request, voice, shutdown>>

\* Fault: the finally clause does not know that the client was handed over.
AwaitReviewUnaware(j) ==
    /\ worker[j] = "await"
    /\ state' = [state EXCEPT ![j] = "awaiting_review"]
    /\ worker' = [worker EXCEPT ![j] = "finally"]
    /\ UNCHANGED <<client, closes, review, closed, narrator,
                   turnLock, sessionVars, request, voice, shutdown>>

\* The client is the controller's from here: the finally clause skips it.
AwaitReview(j) ==
    /\ worker[j] = "await"
    /\ state' = [state EXCEPT ![j] = "awaiting_review"]
    /\ worker' = [worker EXCEPT ![j] = "done"]
    /\ UNCHANGED <<client, closes, review, closed, narrator,
                   turnLock, sessionVars, request, voice, shutdown>>

CloseClient(j) ==
    IF client[j] = "none" THEN UNCHANGED <<client, closes>>
    ELSE /\ client' = [client EXCEPT ![j] = "closed"]
         /\ closes' = [closes EXCEPT ![j] = @ + 1]

\* Fault: a run that failed counts as handed over.
FinallySkips(j) ==
    /\ worker[j] = "finally"
    /\ worker' = [worker EXCEPT ![j] = "done"]
    /\ UNCHANGED <<state, client, closes, review, closed, narrator,
                   turnLock, sessionVars, request, voice, shutdown>>

Finally(j) ==
    /\ worker[j] = "finally"
    /\ CloseClient(j)
    /\ worker' = [worker EXCEPT ![j] = "done"]
    /\ UNCHANGED <<state, review, closed, narrator,
                   turnLock, sessionVars, request, voice, shutdown>>

Worker(j) ==
    \/ OpenRun(j)
    \/ PlanRun(j)
    \/ BuildReview(j)
    \/ PublishReview(j)
    \/ AwaitReview(j)
    \/ Finally(j)
-----------------------------------------------------------------------------
(* Requests: admission, and the turn lock.                                 *)

At(r, pc) == request[r].pc = pc

Job(r) == request[r].job

Goto(r, pc) == request' = [request EXCEPT ![r].pc = pc]

\* _open_review: the job has a review and is awaiting it.  The streaming
\* route also asks for a narrator.  A request whose last narrator turn still
\* runs, its reader gone, is not used for another one.
Check(r, j, kind) ==
    /\ ~shutdown
    /\ At(r, "idle")
    /\ review[j] /\ state[j] = "awaiting_review"
    /\ kind = "stream" => narrator[j]
    /\ kind \in {"say", "stream"} => voice[r].pc = "silent"
    /\ request' = [request EXCEPT ![r] = [pc |-> "checked", kind |-> kind, job |-> j]]
    /\ UNCHANGED <<jobVars, turnLock, sessionVars, voice, shutdown>>

\* The lock is tried, never waited for: a busy one is answered with 409.
Acquire(r) ==
    /\ At(r, "checked")
    /\ IF turnLock[Job(r)] = None
       THEN turnLock' = [turnLock EXCEPT ![Job(r)] = r] /\ Goto(r, "acting")
       ELSE request' = [request EXCEPT ![r] = Idle] /\ UNCHANGED turnLock
    /\ UNCHANGED <<jobVars, sessionVars, voice, shutdown>>

Release(r) ==
    /\ At(r, "releasing")
    /\ turnLock' = [turnLock EXCEPT ![Job(r)] = None]
    /\ request' = [request EXCEPT ![r] = Idle]
    /\ UNCHANGED <<jobVars, sessionVars, voice, shutdown>>

Acting(r, kind) == At(r, "acting") /\ request[r].kind = kind
-----------------------------------------------------------------------------
(* Edits.  propose solves between reading the session and writing it, so   *)
(* it takes two steps.                                                     *)

\* The end of propose: refused or applied, or held back.
Proposed(j) ==
    \/ UNCHANGED pending
    \/ pending' = [pending EXCEPT ![j] = TRUE]

BeginEdit(r) ==
    /\ Acting(r, "edit")
    /\ Goto(r, IF terminal[Job(r)] = "open" THEN "proposing" ELSE "releasing")
    /\ UNCHANGED <<jobVars, turnLock, sessionVars, voice, shutdown>>

EndEdit(r) ==
    /\ At(r, "proposing")
    /\ Proposed(Job(r))
    /\ Goto(r, "releasing")
    /\ UNCHANGED <<jobVars, turnLock, terminal, voice, shutdown>>

\* confirm and discard both leave nothing pending.
DropPending(r) ==
    /\ Acting(r, "confirm") \/ Acting(r, "discard")
    /\ pending' = [pending EXCEPT ![Job(r)] = FALSE]
    /\ Goto(r, "releasing")
    /\ UNCHANGED <<jobVars, turnLock, terminal, voice, shutdown>>
-----------------------------------------------------------------------------
(* Narrator turns.                                                         *)

\* Narrator.say with the lock held: in the request itself, or on a thread
\* of its own while the response's generator drains its queue.
BeginTurn(r) ==
    /\ Acting(r, "say") \/ Acting(r, "stream")
    /\ IF narrator[Job(r)]
       THEN /\ voice' = [voice EXCEPT ![r] =
                            [pc |-> "talking", job |-> Job(r), left |-> MaxToolCalls]]
            /\ Goto(r, IF request[r].kind = "say" THEN "waiting" ELSE "draining")
       ELSE Goto(r, "releasing") /\ UNCHANGED voice
    /\ UNCHANGED <<jobVars, turnLock, sessionVars, shutdown>>

\* say returns, or the generator takes the turn's last event.
EndTurn(r) ==
    /\ At(r, "waiting") \/ At(r, "draining")
    /\ voice[r].pc = "silent"
    /\ Goto(r, "releasing")
    /\ UNCHANGED <<jobVars, turnLock, sessionVars, voice, shutdown>>

\* Fault: the generator has no finally clause.
DisconnectLocked(r) ==
    /\ At(r, "draining")
    /\ request' = [request EXCEPT ![r] = Idle]
    /\ UNCHANGED <<jobVars, turnLock, sessionVars, voice, shutdown>>

\* The reader goes away: the generator is closed, its turn runs on.
Disconnect(r) ==
    /\ At(r, "draining")
    /\ Goto(r, "releasing")
    /\ UNCHANGED <<jobVars, turnLock, sessionVars, voice, shutdown>>

\* One tool call; one the session refuses is reported to the model.
Call(r, pc) == voice' = [voice EXCEPT ![r].pc = pc, ![r].left = @ - 1]

VoiceBegins(r) ==
    LET j == voice[r].job
    IN  /\ voice[r].pc = "talking" /\ voice[r].left > 0
        /\ \/ terminal[j] = "open" /\ Call(r, "proposing") /\ UNCHANGED pending
           \/ Call(r, "talking") /\ pending' = [pending EXCEPT ![j] = FALSE]
           \/ Call(r, "talking") /\ UNCHANGED pending
        /\ UNCHANGED <<jobVars, turnLock, terminal, request, shutdown>>

VoiceEnds(r) ==
    /\ voice[r].pc = "proposing"
    /\ Proposed(voice[r].job)
    /\ voice' = [voice EXCEPT ![r].pc = "talking"]
    /\ UNCHANGED <<jobVars, turnLock, terminal, request, shutdown>>

\* The model answers, or is unavailable and the narrator is dropped.
VoiceStops(r) ==
    /\ voice[r].pc = "talking"
    /\ voice' = [voice EXCEPT ![r] = Silent]
    /\ \/ UNCHANGED narrator
       \/ narrator' = [narrator EXCEPT ![voice[r].job] = FALSE]
    /\ UNCHANGED <<state, worker, client, closes, review, closed,
                   turnLock, sessionVars, request, shutdown>>
-----------------------------------------------------------------------------
(* The end of a review.                                                    *)

\* Fault: a review that has ended can be approved.
CanApproveAgain(j) == ~pending[j]

CanApprove(j) == terminal[j] = "open" /\ ~pending[j]

\* ReviewSession.approve: the checks, the shipment rows ...
BeginApprove(r) ==
    /\ Acting(r, "approve")
    /\ \/ CanApprove(Job(r)) /\ Goto(r, "writing")
       \/ Goto(r, "releasing")
    /\ UNCHANGED <<jobVars, turnLock, sessionVars, voice, shutdown>>

\* ReviewSession._close.
Close(j, end) == terminal' = [terminal EXCEPT ![j] = end]

\* ... and the run record, unless an append fails.
EndApprove(r) ==
    /\ At(r, "writing")
    /\ \/ Close(Job(r), "approved") /\ Goto(r, "settling")
       \/ Goto(r, "releasing") /\ UNCHANGED terminal
    /\ UNCHANGED <<jobVars, turnLock, pending, voice, shutdown>>

\* Fault: the job does not learn that it was rejected.
RejectUnseen(r) ==
    /\ Acting(r, "reject")
    /\ \/ terminal[Job(r)] = "open" /\ Close(Job(r), "rejected") /\ Goto(r, "closing")
       \/ Goto(r, "releasing") /\ UNCHANGED terminal
    /\ UNCHANGED <<jobVars, turnLock, pending, voice, shutdown>>

Reject(r) ==
    /\ Acting(r, "reject")
    /\ \/ terminal[Job(r)] = "open" /\ Close(Job(r), "rejected") /\ Goto(r, "settling")
       \/ Goto(r, "releasing") /\ UNCHANGED terminal
    /\ UNCHANGED <<jobVars, turnLock, pending, voice, shutdown>>

\* job.state takes the session's terminal state.
Settle(r) ==
    /\ At(r, "settling")
    /\ state' = [state EXCEPT ![Job(r)] = terminal[Job(r)]]
    /\ Goto(r, "closing")
    /\ UNCHANGED <<worker, client, closes, review, closed, narrator,
                   turnLock, sessionVars, voice, shutdown>>

\* Fault: close does not remember that it was called.
CloseControllerAgain(j) == closed' = [closed EXCEPT ![j] = TRUE] /\ CloseClient(j)

\* ReviewController.close, idempotent under its own lock.
CloseController(j) ==
    IF closed[j] THEN UNCHANGED <<closed, client, closes>>
    ELSE closed' = [closed EXCEPT ![j] = TRUE] /\ CloseClient(j)

\* After Settle; and the first half of an abandon, before its state is set.
CloseReview(r) ==
    /\ At(r, "closing") \/ Acting(r, "abandon")
    /\ CloseController(Job(r))
    /\ Goto(r, IF At(r, "closing") THEN "releasing" ELSE "leaving")
    /\ UNCHANGED <<state, worker, review, narrator, turnLock, sessionVars, voice, shutdown>>

Leave(r) ==
    /\ At(r, "leaving")
    /\ state' = [state EXCEPT ![Job(r)] = "abandoned"]
    /\ Goto(r, "releasing")
    /\ UNCHANGED <<worker, client, closes, review, closed, narrator,
                   turnLock, sessionVars, voice, shutdown>>

\* RunService.close_all: every review there is at that moment.
Shutdown ==
    LET open == {j \in Jobs : review[j] /\ ~closed[j]}
        live == {j \in open : client[j] # "none"}
    IN  /\ ~shutdown
        /\ shutdown' = TRUE
        /\ closed' = [j \in Jobs |-> closed[j] \/ j \in open]
        /\ client' = [j \in Jobs |-> IF j \in live THEN "closed" ELSE client[j]]
        /\ closes' = [j \in Jobs |-> IF j \in live THEN closes[j] + 1 ELSE closes[j]]
        /\ UNCHANGED <<state, worker, review, narrator,
                       turnLock, sessionVars, request, voice>>
-----------------------------------------------------------------------------
Edits(r) == BeginEdit(r) \/ EndEdit(r) \/ DropPending(r)

Turn(r) == BeginTurn(r) \/ EndTurn(r)

Finish(r) ==
    \/ BeginApprove(r) \/ EndApprove(r) \/ Reject(r)
    \/ Settle(r) \/ CloseReview(r) \/ Leave(r)

\* What a request does once it is admitted.
Serve(r) == Acquire(r) \/ Edits(r) \/ Turn(r) \/ Finish(r) \/ Release(r)

Voice(r) == VoiceBegins(r) \/ VoiceEnds(r) \/ VoiceStops(r)

Next ==
    \/ \E j \in Jobs : Start(j) \/ Worker(j)
    \/ \E r \in Requests :
          \/ \E j \in Jobs, kind \in Kinds : Check(r, j, kind)
          \/ Serve(r)
          \/ Disconnect(r)
          \/ Voice(r)
    \/ Shutdown

Spec == Init /\ [][Next]_vars

\* Threads run: a worker, an admitted request and a narrator turn each take
\* their next step.  Operators, readers and the shutdown are free.
Fairness ==
    /\ \A j \in Jobs : WF_vars(Worker(j))
    /\ \A r \in Requests : WF_vars(Serve(r)) /\ WF_vars(Voice(r))

FairSpec == Spec /\ Fairness
-----------------------------------------------------------------------------
(* Properties.                                                             *)

States == {"absent", "running", "awaiting_review"} \cup Ended
Workers == {"none", "open", "plan", "park", "publish", "await", "finally", "done"}
Places == {"idle", "checked", "acting", "proposing", "waiting", "draining",
           "writing", "settling", "closing", "leaving", "releasing"}
Request == [pc : Places, kind : Kinds \cup {None}, job : Jobs \cup {None}]
VoicePlaces == {"silent", "talking", "proposing"}
VoiceTurn == [pc : VoicePlaces, job : Jobs \cup {None}, left : 0 .. MaxToolCalls]

TypeOK ==
    /\ state \in [Jobs -> States]
    /\ worker \in [Jobs -> Workers]
    /\ client \in [Jobs -> {"none", "open", "closed"}]
    /\ closes \in [Jobs -> Nat]
    /\ review \in [Jobs -> BOOLEAN]
    /\ closed \in [Jobs -> BOOLEAN]
    /\ narrator \in [Jobs -> BOOLEAN]
    /\ turnLock \in [Jobs -> Requests \cup {None}]
    /\ pending \in [Jobs -> BOOLEAN]
    /\ terminal \in [Jobs -> {"open", "approved", "rejected"}]
    /\ request \in [Requests -> Request]
    /\ voice \in [Requests -> VoiceTurn]
    /\ shutdown \in BOOLEAN

\* One run at a time, and no second life: a job holds the slot from its start
\* until its review or its run is over, no other job starts meanwhile, and no
\* late answer of a worker or a request gives a job the slot back
\* (RunService.start, RunJob.occupies_slot).
Slot == INSTANCE SlotLease WITH
            holder <- {j \in Jobs : state[j] \in {"running", "awaiting_review"}},
            served <- {j \in Jobs : state[j] # "absent"}

OneRunAtATime == Slot!Spec

\* The client is handed from the worker to the controller and closed by one
\* of them, once, whichever of a terminal state, an abandon, a late approval
\* of an abandoned review and the shutdown come together (handed_off,
\* ReviewController.close).
ClientClosedOnce == \A j \in Jobs : closes[j] =< 1

\* A review that is offered to the operator still has its client, unless the
\* server is going down or an abandon is half done.
ReviewKeepsItsClient ==
    \A j \in Jobs :
        state[j] = "awaiting_review" /\ client[j] = "closed" =>
            \/ shutdown
            \/ turnLock[j] # None /\ At(turnLock[j], "leaving")

\* What the page shows is what the ledger says: a job shown as approved or
\* rejected has that end recorded, and once an end is recorded and its turn
\* is over the review is no longer offered.
DecisionIsShown ==
    \A j \in Jobs :
        /\ state[j] \in {"approved", "rejected"} =>
              terminal[j] = state[j]
        /\ terminal[j] # "open" /\ turnLock[j] = None => state[j] # "awaiting_review"

\* A run is decided once.  Of the approvals and rejections that were admitted
\* while the review was open, and of those a reader left running, one writes
\* the run record and no other replaces it.
OneDecision ==
    [][\A j \in Jobs : terminal[j] # "open" => terminal'[j] = terminal[j]]_vars

\* Every turn ends: a busy review becomes free again, also when its narrator
\* fails, its edit is in error or its reader leaves.
TurnLockIsFreed ==
    \A j \in Jobs : turnLock[j] # None ~> turnLock[j] = None

\* No client is left open behind a run that is over: the SDK's thread would
\* keep the server alive.
EndedRunReleasesItsClient ==
    \A j \in Jobs : state[j] \in Ended ~> client[j] # "open"

\* "abandoned -- operator left the review; nothing recorded" (RunJob): once no
\* request is inside, a run shown as abandoned has no approval on record.  An
\* abandon admitted before an approval set the job's state acts after it.
AbandonedRecordsNothing ==
    \A j \in Jobs :
        state[j] = "abandoned" /\ turnLock[j] = None => terminal[j] # "approved"

\* "an overlapping turn is refused, not interleaved" (review_say_stream): at
\* most one request or narrator turn is at work on a session.
InSession(r, j) ==
    \/ voice[r].pc # "silent" /\ voice[r].job = j
    \/ Job(r) = j /\ request[r].pc \in {"acting", "proposing", "writing"}

NoInterleavedTurns ==
    \A j \in Jobs : \A r, q \in Requests :
        InSession(r, j) /\ InSession(q, j) => r = q
=============================================================================
