----------------------------- MODULE ServiceProofs -----------------------------
(***************************************************************************)
(* What the web service keeps for any number of jobs, requests and tool    *)
(* calls: first who has the slot, the client and the turn lock (IInv),     *)
(* then what a review on offer and a recorded end may rely on (OfferInv),  *)
(* then what a session driven through the service keeps (DriveInv),        *)
(* whatever is driven and whoever else uses the service.                   *)
(***************************************************************************)
EXTENDS Drive, TLAPS

\* The worker's place goes with the job's state and with whether its review
\* was published.
WorkerFits ==
    \A j \in Jobs :
        /\ worker[j] = "none" <=> state[j] = "absent"
        /\ worker[j] \in {"open", "plan", "park", "publish", "await"} <=> state[j] = "running"
        /\ review[j] => worker[j] \in {"await", "done"}

\* An admitted request is about a job whose review has been offered.
Admitted ==
    \A r \in Requests : ~At(r, "idle") =>
        /\ Job(r) \in Jobs
        /\ review[Job(r)]
        /\ state[Job(r)] \notin {"absent", "running"}

\* From the moment it acts until it releases, a request holds the turn lock.
HoldsLock ==
    \A r \in Requests : request[r].pc \notin {"idle", "checked"} => turnLock[Job(r)] = r

\* An approval writes while the session is open; a decision is settled after.
DecisionFits ==
    \A r \in Requests :
        /\ At(r, "writing") => terminal[Job(r)] = "open"
        /\ At(r, "settling") => terminal[Job(r)] # "open"

\* Who has the client: the worker until it hands it over, then the controller.
ClientFits ==
    \A j \in Jobs :
        /\ closed[j] => review[j]
        /\ closes[j] > 0 => closed[j] \/ (worker[j] = "done" /\ ~review[j])
        /\ closes[j] =< 1

\* The job that has the slot, and those that ever had it.
Holder == {j \in Jobs : state[j] \in {"running", "awaiting_review"}}
Served == {j \in Jobs : state[j] # "absent"}

\* No two jobs have the slot.
Exclusive ==
    \A i, j \in Jobs : OccupiesSlot(i) /\ OccupiesSlot(j) => i = j

IInv ==
    /\ TypeOK
    /\ WorkerFits
    /\ Admitted
    /\ HoldsLock
    /\ DecisionFits
    /\ ClientFits
    /\ Exclusive

\* Who has a job's turn lock acts on that job.
LockHeld ==
    \A j \in Jobs : turnLock[j] # None =>
        /\ Job(turnLock[j]) = j
        /\ request[turnLock[j]].pc \notin {"idle", "checked"}

\* A job whose worker or whose request is about to close the client is over.
OverBeforeClosing ==
    /\ \A j \in Jobs : worker[j] = "finally" => state[j] \in Ended
    /\ \A r \in Requests : At(r, "closing") => state[Job(r)] \in Ended

\* The request that has the job's lock is at that place.
Holding(j, pc) == turnLock[j] # None /\ At(turnLock[j], pc)

\* A closed client and a recorded end each have their reason: the job is
\* over, or the request that ends it is at the step before.
ClosedFits ==
    \A j \in Jobs : client[j] = "closed" =>
        shutdown \/ state[j] \in Ended \/ Holding(j, "leaving")

DecidedFits ==
    \A j \in Jobs :
        /\ terminal[j] # "open" => state[j] \in Ended \/ Holding(j, "settling")
        /\ state[j] \in {"approved", "rejected"} => terminal[j] = state[j]

OfferInv == LockHeld /\ OverBeforeClosing /\ ClosedFits /\ DecidedFits
-----------------------------------------------------------------------------
(* Moving a request, and starting or moving a narrator turn.               *)

\* A request that goes to a place stays a request.
LEMMA GotoType ==
  ASSUME request \in [Requests -> Request], NEW r \in Requests, NEW pc \in Places, Goto(r, pc)
  PROVE  request' \in [Requests -> Request]
<1>1. request[r] \in Request
  OBVIOUS
<1>2. [request[r] EXCEPT !.pc = pc] \in Request
  BY <1>1 DEF Request
<1> QED
  BY <1>2 DEF Goto

\* So does one that is admitted, and one that is over.
LEMMA FreshType ==
  /\ Idle \in Request
  /\ Silent \in VoiceTurn
  /\ \A kind \in Kinds, j \in Jobs : [pc |-> "checked", kind |-> kind, job |-> j] \in Request
BY ServiceAssumption DEF Idle, Silent, Request, VoiceTurn, Places, VoicePlaces

\* A narrator turn stays one, whatever it does next.
LEMMA CallType ==
  ASSUME voice \in [Requests -> VoiceTurn], NEW r \in Requests, NEW pc \in VoicePlaces
  PROVE  /\ [voice EXCEPT ![r].pc = pc] \in [Requests -> VoiceTurn]
         /\ voice[r].left > 0 /\ Call(r, pc) => voice' \in [Requests -> VoiceTurn]
<1>1. voice[r] \in VoiceTurn
  OBVIOUS
<1>2. [voice[r] EXCEPT !.pc = pc] \in VoiceTurn
  BY <1>1 DEF VoiceTurn
<1>3. ASSUME voice[r].left > 0
      PROVE  [voice[r] EXCEPT !.pc = pc, !.left = @ - 1] \in VoiceTurn
  <2>1. voice[r].left - 1 \in 0 .. MaxToolCalls
    BY <1>1, <1>3, ServiceAssumption DEF VoiceTurn
  <2> QED
    BY <1>1, <2>1 DEF VoiceTurn
<1> QED
  BY <1>2, <1>3 DEF Call

\* Everything holds at the start.
LEMMA InvInit == Init => IInv
<1> SUFFICES ASSUME Init PROVE IInv
  OBVIOUS
<1> USE DEF Init
<1>1. TypeOK
  <2>1. "absent" \in States /\ "none" \in Workers
    BY DEF States, Workers
  <2>2. Idle \in Request /\ Silent \in VoiceTurn
    BY FreshType
  <2> QED
    BY <2>1, <2>2 DEF TypeOK
<1>2. WorkerFits /\ ClientFits /\ Exclusive
  BY DEF WorkerFits, ClientFits, Exclusive, OccupiesSlot
<1>3. Admitted /\ HoldsLock /\ DecisionFits
  BY DEF Admitted, HoldsLock, DecisionFits, At, Idle
<1> QED
  BY <1>1, <1>2, <1>3 DEF IInv

\* A step keeps every variable's type.  Settle copies the session's terminal
\* state into the job, so this needs to know that it is set by then.
LEMMA TypeStep ==
  ASSUME IInv, [Next]_vars
  PROVE  TypeOK'
<1>i. TypeOK /\ Admitted /\ DecisionFits
  BY DEF IInv
<1> USE <1>i DEF TypeOK, jobVars, sessionVars
<1>s. {"running", "awaiting_review", "approved", "rejected", "abandoned", "finished", "failed"}
        \subseteq States
  BY DEF States, Ended
<1>w. {"open", "plan", "park", "publish", "await", "finally", "done"} \subseteq Workers
  BY DEF Workers
<1>p. {"acting", "proposing", "waiting", "draining", "writing", "settling", "closing",
       "leaving", "releasing"} \subseteq Places
  BY DEF Places
<1>g. \A r \in Requests : \A pc \in Places : Goto(r, pc) => request' \in [Requests -> Request]
  BY GotoType
<1>1. ASSUME NEW j \in Jobs, Start(j) PROVE TypeOK'
  BY <1>1, <1>s, <1>w DEF Start
<1>2. ASSUME NEW j \in Jobs, Worker(j) PROVE TypeOK'
  <2>1. CASE OpenRun(j) BY <2>1, <1>s, <1>w DEF OpenRun, Fail
  <2>2. CASE PlanRun(j) BY <2>2, <1>s, <1>w DEF PlanRun, Fail
  <2>3. CASE BuildReview(j) BY <2>3, <1>s, <1>w DEF BuildReview, Fail
  <2>4. CASE PublishReview(j) BY <2>4, <1>w DEF PublishReview
  <2>5. CASE AwaitReview(j) BY <2>5, <1>s, <1>w DEF AwaitReview
  <2>6. CASE Finally(j) BY <2>6, <1>w DEF Finally, CloseClient
  <2> QED BY <1>2, <2>1, <2>2, <2>3, <2>4, <2>5, <2>6 DEF Worker
<1>3. ASSUME NEW r \in Requests, NEW j \in Jobs, NEW kind \in Kinds, Check(r, j, kind)
      PROVE TypeOK'
  BY <1>3, FreshType DEF Check
<1>4. ASSUME NEW r \in Requests, Serve(r) PROVE TypeOK'
  <2>1. CASE Acquire(r)
    <3>1. request' \in [Requests -> Request]
      BY <2>1, <1>p, <1>g, FreshType DEF Acquire
    <3> QED
      BY <2>1, <3>1 DEF Acquire
  <2>2. CASE BeginEdit(r)
    BY <2>2, <1>p, <1>g DEF BeginEdit
  <2>3. CASE EndEdit(r)
    BY <2>3, <1>p, <1>g DEF EndEdit, Proposed
  <2>4. CASE DropPending(r)
    BY <2>4, <1>p, <1>g DEF DropPending
  <2>5. CASE BeginTurn(r)
    <3>1. request' \in [Requests -> Request]
      BY <2>5, <1>p, <1>g DEF BeginTurn
    <3>2. Job(r) \in Jobs \cup {None}
      BY DEF Job, Request
    <3>3. voice' \in [Requests -> VoiceTurn]
      BY <2>5, <3>2, ServiceAssumption DEF BeginTurn, VoiceTurn, VoicePlaces
    <3> QED
      BY <2>5, <3>1, <3>3 DEF BeginTurn
  <2>6. CASE EndTurn(r)
    BY <2>6, <1>p, <1>g DEF EndTurn
  <2>7. CASE BeginApprove(r)
    BY <2>7, <1>p, <1>g DEF BeginApprove
  <2>8. CASE EndApprove(r)
    BY <2>8, <1>p, <1>g DEF EndApprove, Close
  <2>9. CASE Reject(r)
    BY <2>9, <1>p, <1>g DEF Reject, Close
  <2>10. CASE Settle(r)
    <3>1. terminal[Job(r)] \in States
      BY <2>10, <1>s DEF Settle, Admitted, DecisionFits, At
    <3> QED
      BY <2>10, <3>1, <1>p, <1>g DEF Settle
  <2>11. CASE CloseReview(r)
    <3>1. request' \in [Requests -> Request]
      BY <2>11, <1>p, <1>g DEF CloseReview
    <3>2. CloseController(Job(r))
      BY <2>11 DEF CloseReview
    <3>3. client' \in [Jobs -> {"none", "open", "closed"}] /\ closes' \in [Jobs -> Nat]
      BY <3>2 DEF CloseController, CloseClient
    <3>4. closed' \in [Jobs -> BOOLEAN]
      BY <3>2, Zenon DEF CloseController
    <3> QED
      BY <2>11, <3>1, <3>3, <3>4 DEF CloseReview
  <2>12. CASE Leave(r)
    BY <2>12, <1>p, <1>g, <1>s DEF Leave
  <2>13. CASE Release(r)
    BY <2>13, FreshType DEF Release
  <2> QED BY <1>4, <2>1, <2>2, <2>3, <2>4, <2>5, <2>6, <2>7, <2>8, <2>9, <2>10,
             <2>11, <2>12, <2>13 DEF Serve, Edits, Turn, Finish
<1>5. ASSUME NEW r \in Requests, Disconnect(r) PROVE TypeOK'
  BY <1>5, <1>p, <1>g DEF Disconnect
<1>6. ASSUME NEW r \in Requests, Voice(r) PROVE TypeOK'
  <2>1. CASE VoiceBegins(r)
    <3>1. voice' \in [Requests -> VoiceTurn]
      BY <2>1, CallType DEF VoiceBegins, VoicePlaces
    <3> QED
      BY <2>1, <3>1 DEF VoiceBegins
  <2>2. CASE VoiceEnds(r)
    BY <2>2, CallType DEF VoiceEnds, Proposed, VoicePlaces
  <2>3. CASE VoiceStops(r)
    BY <2>3, FreshType DEF VoiceStops
  <2> QED BY <1>6, <2>1, <2>2, <2>3 DEF Voice
<1>7. CASE Shutdown
  BY <1>7 DEF Shutdown
<1>8. CASE UNCHANGED vars
  BY <1>8 DEF vars
<1> QED BY <1>1, <1>2, <1>3, <1>4, <1>5, <1>6, <1>7, <1>8 DEF Next
-----------------------------------------------------------------------------
(* What concerns jobs alone.                                               *)

\* Only five kinds of steps touch a job; an edit or a narrator turn does not.
LEMMA StepKinds ==
  ASSUME [Next]_vars
  PROVE  \/ \E j \in Jobs : Start(j)
         \/ \E j \in Jobs : Worker(j)
         \/ \E r \in Requests : Settle(r) \/ CloseReview(r) \/ Leave(r)
         \/ Shutdown
         \/ UNCHANGED <<state, worker, closes, review, closed>>
<1> USE DEF jobVars
<1>1. ASSUME NEW r \in Requests, NEW j \in Jobs, NEW kind \in Kinds, Check(r, j, kind)
      PROVE  UNCHANGED <<state, worker, closes, review, closed>>
  BY <1>1 DEF Check
<1>2. ASSUME NEW r \in Requests, Serve(r)
      PROVE  \/ Settle(r) \/ CloseReview(r) \/ Leave(r)
             \/ UNCHANGED <<state, worker, closes, review, closed>>
  <2>1. Acquire(r) \/ Release(r) => UNCHANGED <<state, worker, closes, review, closed>>
    BY DEF Acquire, Release
  <2>2. Edits(r) => UNCHANGED <<state, worker, closes, review, closed>>
    BY DEF Edits, BeginEdit, EndEdit, DropPending
  <2>3. Turn(r) => UNCHANGED <<state, worker, closes, review, closed>>
    BY DEF Turn, BeginTurn, EndTurn
  <2>4. BeginApprove(r) \/ EndApprove(r) \/ Reject(r)
          => UNCHANGED <<state, worker, closes, review, closed>>
    BY DEF BeginApprove, EndApprove, Reject
  <2> QED
    BY <1>2, <2>1, <2>2, <2>3, <2>4 DEF Serve, Finish
<1>3. ASSUME NEW r \in Requests, Disconnect(r)
      PROVE  UNCHANGED <<state, worker, closes, review, closed>>
  BY <1>3 DEF Disconnect
<1>4. ASSUME NEW r \in Requests, Voice(r)
      PROVE  UNCHANGED <<state, worker, closes, review, closed>>
  BY <1>4 DEF Voice, VoiceBegins, VoiceEnds, VoiceStops
<1>5. UNCHANGED vars => UNCHANGED <<state, worker, closes, review, closed>>
  BY DEF vars
<1> QED
  BY <1>1, <1>2, <1>3, <1>4, <1>5 DEF Next

\* A job is ended only by its worker or by a request that was admitted to its
\* review, so the worker's place keeps going with the state.
LEMMA WorkerFitsStep ==
  ASSUME IInv, [Next]_vars
  PROVE  WorkerFits'
<1> USE DEF IInv, TypeOK, WorkerFits
<1>1. ASSUME NEW j \in Jobs, Start(j) PROVE WorkerFits'
  BY <1>1 DEF Start
<1>2. ASSUME NEW j \in Jobs, Worker(j) PROVE WorkerFits'
  <2>1. CASE OpenRun(j) BY <2>1 DEF OpenRun, Fail
  <2>2. CASE PlanRun(j) BY <2>2 DEF PlanRun, Fail
  <2>3. CASE BuildReview(j) BY <2>3 DEF BuildReview, Fail
  <2>4. CASE PublishReview(j) BY <2>4 DEF PublishReview
  <2>5. CASE AwaitReview(j) BY <2>5 DEF AwaitReview
  <2>6. CASE Finally(j) BY <2>6 DEF Finally
  <2> QED BY <1>2, <2>1, <2>2, <2>3, <2>4, <2>5, <2>6 DEF Worker
<1>3. ASSUME NEW r \in Requests, Settle(r) \/ CloseReview(r) \/ Leave(r) PROVE WorkerFits'
  <2>1. CASE Settle(r)
    <3>1. /\ Job(r) \in Jobs
          /\ state[Job(r)] \notin {"absent", "running"}
          /\ terminal[Job(r)] \in {"approved", "rejected"}
      BY <2>1 DEF Settle, Admitted, DecisionFits, At
    <3> QED BY <2>1, <3>1 DEF Settle
  <2>2. CASE CloseReview(r) BY <2>2 DEF CloseReview
  <2>3. CASE Leave(r)
    <3>1. Job(r) \in Jobs /\ state[Job(r)] \notin {"absent", "running"}
      BY <2>3 DEF Leave, Admitted, At
    <3> QED BY <2>3, <3>1 DEF Leave
  <2> QED BY <1>3, <2>1, <2>2, <2>3
<1>4. CASE Shutdown
  BY <1>4 DEF Shutdown
<1>5. CASE UNCHANGED <<state, worker, closes, review, closed>>
  BY <1>5
<1> QED BY <1>1, <1>2, <1>3, <1>4, <1>5, StepKinds

\* The client has one owner at a time, and an owner closes it once.
LEMMA ClientFitsStep ==
  ASSUME IInv, [Next]_vars
  PROVE  ClientFits'
<1> USE DEF IInv, TypeOK, ClientFits
<1>1. ASSUME NEW j \in Jobs, Start(j) PROVE ClientFits'
  BY <1>1 DEF Start, WorkerFits
<1>2. ASSUME NEW j \in Jobs, Worker(j) PROVE ClientFits'
  <2>1. CASE OpenRun(j) BY <2>1 DEF OpenRun, Fail, WorkerFits
  <2>2. CASE PlanRun(j) BY <2>2 DEF PlanRun, Fail, WorkerFits
  <2>3. CASE BuildReview(j) BY <2>3 DEF BuildReview, Fail, WorkerFits
  <2>4. CASE PublishReview(j) BY <2>4 DEF PublishReview, WorkerFits
  <2>5. CASE AwaitReview(j) BY <2>5 DEF AwaitReview, WorkerFits
  <2>6. CASE Finally(j)
    <3>1. ~review[j] /\ ~closed[j] /\ closes[j] = 0
      BY <2>6 DEF Finally, WorkerFits
    <3> QED BY <2>6, <3>1 DEF Finally, CloseClient
  <2> QED BY <1>2, <2>1, <2>2, <2>3, <2>4, <2>5, <2>6 DEF Worker
<1>3. ASSUME NEW r \in Requests, Settle(r) \/ CloseReview(r) \/ Leave(r) PROVE ClientFits'
  <2>1. CASE Settle(r) BY <2>1 DEF Settle
  <2>2. CASE CloseReview(r)
    <3>1. Job(r) \in Jobs /\ review[Job(r)]
      BY <2>2 DEF CloseReview, Admitted, At, Acting
    <3>2. closed[Job(r)] => UNCHANGED <<state, worker, closes, review, closed>>
      BY <2>2 DEF CloseReview, CloseController
    <3>3. ASSUME ~closed[Job(r)] PROVE ClientFits'
      <4>1. closes[Job(r)] = 0
        BY <3>1, <3>3
      <4> QED BY <2>2, <3>1, <3>3, <4>1 DEF CloseReview, CloseController, CloseClient
    <3> QED BY <3>2, <3>3
  <2>3. CASE Leave(r) BY <2>3 DEF Leave
  <2> QED BY <1>3, <2>1, <2>2, <2>3
<1>4. CASE Shutdown
  <2>1. \A j \in Jobs : review[j] /\ ~closed[j] => closes[j] = 0
    OBVIOUS
  <2> QED BY <1>4, <2>1 DEF Shutdown
<1>5. CASE UNCHANGED <<state, worker, closes, review, closed>>
  BY <1>5
<1> QED BY <1>1, <1>2, <1>3, <1>4, <1>5, StepKinds

\* start looks at every job before it lets one run, and nothing else lets a
\* job into the slot.
LEMMA ExclusiveStep ==
  ASSUME IInv, [Next]_vars
  PROVE  Exclusive'
<1> USE DEF IInv, TypeOK, Exclusive, OccupiesSlot
<1>1. ASSUME NEW j \in Jobs, Start(j) PROVE Exclusive'
  BY <1>1 DEF Start
<1>2. ASSUME NEW j \in Jobs, Worker(j) PROVE Exclusive'
  <2>1. CASE OpenRun(j) BY <2>1 DEF OpenRun, Fail
  <2>2. CASE PlanRun(j) BY <2>2 DEF PlanRun, Fail
  <2>3. CASE BuildReview(j) BY <2>3 DEF BuildReview, Fail
  <2>4. CASE PublishReview(j) BY <2>4 DEF PublishReview
  <2>5. CASE AwaitReview(j)
    <3>1. state[j] = "running"
      BY <2>5 DEF AwaitReview, WorkerFits
    <3> QED BY <2>5, <3>1 DEF AwaitReview
  <2>6. CASE Finally(j) BY <2>6 DEF Finally
  <2> QED BY <1>2, <2>1, <2>2, <2>3, <2>4, <2>5, <2>6 DEF Worker
<1>3. ASSUME NEW r \in Requests, Settle(r) \/ CloseReview(r) \/ Leave(r) PROVE Exclusive'
  BY <1>3 DEF Settle, CloseReview, Leave
<1>4. CASE Shutdown
  BY <1>4 DEF Shutdown
<1>5. CASE UNCHANGED <<state, worker, closes, review, closed>>
  BY <1>5
<1> QED BY <1>1, <1>2, <1>3, <1>4, <1>5, StepKinds
-----------------------------------------------------------------------------
(* What concerns requests and the turn lock.                               *)

\* Goto moves one request, within its job.
LEMMA GotoEffect ==
  ASSUME TypeOK, NEW r \in Requests, NEW pc, Goto(r, pc)
  PROVE  \A q \in Requests :
            /\ request'[q].pc = IF q = r THEN pc ELSE request[q].pc
            /\ request'[q].job = request[q].job
            /\ request'[q].kind = request[q].kind
<1>1. \A q \in Requests : request[q] \in Request
  BY DEF TypeOK
<1>2. \A q \in Requests : request'[q] = IF q = r THEN [request[r] EXCEPT !.pc = pc] ELSE request[q]
  BY DEF Goto, TypeOK
<1> QED
  BY <1>1, <1>2 DEF Request

\* A job that was once offered for review has one for good.
LEMMA StaysOffered ==
  ASSUME IInv, [Next]_vars, NEW j \in Jobs,
         review[j], state[j] \notin {"absent", "running"}
  PROVE  review'[j] /\ state'[j] \notin {"absent", "running"}
<1> USE DEF IInv, TypeOK
<1>1. ASSUME NEW i \in Jobs, Start(i) PROVE review'[j] /\ state'[j] \notin {"absent", "running"}
  BY <1>1 DEF Start
<1>2. ASSUME NEW i \in Jobs, Worker(i)
      PROVE  review'[j] /\ state'[j] \notin {"absent", "running"}
  BY <1>2 DEF Worker, OpenRun, PlanRun, BuildReview, PublishReview, AwaitReview, Finally, Fail
<1>3. ASSUME NEW r \in Requests, Settle(r) \/ CloseReview(r) \/ Leave(r)
      PROVE  review'[j] /\ state'[j] \notin {"absent", "running"}
  <2>1. CASE Settle(r)
    <3>1. terminal[Job(r)] \in {"approved", "rejected"}
      BY <2>1 DEF Settle, Admitted, DecisionFits, At
    <3> QED BY <2>1, <3>1 DEF Settle
  <2> QED BY <1>3, <2>1 DEF CloseReview, Leave
<1>4. CASE Shutdown
  BY <1>4 DEF Shutdown
<1>5. CASE UNCHANGED <<state, worker, closes, review, closed>>
  BY <1>5
<1> QED BY <1>1, <1>2, <1>3, <1>4, <1>5, StepKinds

RequestsFit == Admitted /\ HoldsLock /\ DecisionFits

\* Of two requests that act on one job there is only one: both hold its lock.
LEMMA OneActs ==
  ASSUME HoldsLock, NEW q \in Requests, NEW r \in Requests, Job(q) = Job(r),
         request[q].pc \notin {"idle", "checked"}, request[r].pc \notin {"idle", "checked"}
  PROVE  q = r
BY DEF HoldsLock

\* A request that goes on within its turn, with the lock and the session's end
\* left alone, keeps what is known of requests.
LEMMA GoesOn ==
  ASSUME IInv, [Next]_vars, NEW r \in Requests, NEW pc, Goto(r, pc),
         ~At(r, "idle"), request[r].pc # "checked", UNCHANGED <<turnLock, terminal>>,
         pc = "writing" => terminal[Job(r)] = "open",
         pc = "settling" => terminal[Job(r)] # "open"
  PROVE  RequestsFit'
<1> USE DEF IInv
<1>1. \A q \in Requests :
        /\ request'[q].pc = IF q = r THEN pc ELSE request[q].pc
        /\ request'[q].job = request[q].job
  BY GotoEffect
<1>2. Admitted'
  BY <1>1, StaysOffered DEF Admitted, At, Job
<1>3. HoldsLock'
  BY <1>1 DEF HoldsLock, Job, At
<1>4. DecisionFits'
  BY <1>1 DEF DecisionFits, Job, At
<1> QED
  BY <1>2, <1>3, <1>4 DEF RequestsFit

\* So does a step that leaves requests, the lock and the session's end alone.
LEMMA StandsStill ==
  ASSUME IInv, [Next]_vars, UNCHANGED <<request, turnLock, terminal>>
  PROVE  RequestsFit'
<1> USE DEF IInv
<1>1. Admitted'
  BY StaysOffered DEF Admitted, At, Job
<1>2. HoldsLock' /\ DecisionFits'
  BY DEF HoldsLock, DecisionFits, Job, At
<1> QED
  BY <1>1, <1>2 DEF RequestsFit

\* The end of a session is written by a request that holds the lock of an
\* open session; no other approval is then between its checks and its record.
LEMMA Decides ==
  ASSUME IInv, [Next]_vars, NEW r \in Requests, NEW end \in {"approved", "rejected"},
         Goto(r, "settling"), Close(Job(r), end), UNCHANGED turnLock,
         request[r].pc \notin {"idle", "checked"}
  PROVE  RequestsFit'
<1> USE DEF IInv
<1>1. \A q \in Requests :
        /\ request'[q].pc = IF q = r THEN "settling" ELSE request[q].pc
        /\ request'[q].job = request[q].job
  BY GotoEffect
<1>2. Job(r) \in Jobs
  BY DEF Admitted, At
<1>3. Admitted'
  BY <1>1, StaysOffered DEF Admitted, At, Job
<1>4. HoldsLock'
  BY <1>1 DEF HoldsLock, Job, At
<1>5. terminal' = [terminal EXCEPT ![Job(r)] = end]
  BY DEF Close
<1>6. ASSUME NEW q \in Requests, q # r, At(q, "writing") PROVE terminal'[Job(q)] = "open"
  <2>1. Job(q) # Job(r)
    BY <1>6, OneActs DEF At
  <2>2. Job(q) \in Jobs /\ terminal[Job(q)] = "open"
    BY <1>6 DEF Admitted, DecisionFits, At
  <2> QED
    BY <1>5, <2>1, <2>2 DEF TypeOK
<1>7. ASSUME NEW q \in Requests, q = r \/ At(q, "settling") PROVE terminal'[Job(q)] # "open"
  <2>1. Job(q) \in Jobs /\ (Job(q) # Job(r) => terminal[Job(q)] # "open")
    BY <1>2, <1>7 DEF Admitted, DecisionFits, At
  <2> QED
    BY <1>2, <1>5, <2>1 DEF TypeOK
<1>8. DecisionFits'
  BY <1>1, <1>6, <1>7 DEF DecisionFits, Job, At
<1> QED
  BY <1>3, <1>4, <1>8 DEF RequestsFit

\* Every step keeps what is known of requests.
LEMMA RequestsStep ==
  ASSUME IInv, [Next]_vars
  PROVE  RequestsFit'
<1> USE DEF jobVars, sessionVars
<1>i. TypeOK /\ RequestsFit
  BY DEF IInv, RequestsFit
<1>1. ASSUME NEW j \in Jobs, Start(j) \/ Worker(j) PROVE RequestsFit'
  <2>1. UNCHANGED <<request, turnLock, terminal>>
    BY <1>1 DEF Start, Worker, OpenRun, PlanRun, BuildReview, PublishReview, AwaitReview, Finally
  <2> QED BY <2>1, StandsStill
<1>2. ASSUME NEW r \in Requests, NEW j \in Jobs, NEW kind \in Kinds, Check(r, j, kind)
      PROVE  RequestsFit'
  <2>1. /\ request' = [request EXCEPT ![r] = [pc |-> "checked", kind |-> kind, job |-> j]]
        /\ review[j] /\ state[j] = "awaiting_review"
        /\ UNCHANGED <<jobVars, turnLock, terminal>>
    BY <1>2 DEF Check
  <2>2. /\ request'[r].pc = "checked" /\ request'[r].job = j
        /\ \A q \in Requests : q # r => request'[q] = request[q]
    BY <1>i, <2>1 DEF TypeOK
  <2> QED
    BY <1>i, <2>1, <2>2 DEF RequestsFit, Admitted, HoldsLock, DecisionFits, At, Job
<1>3. ASSUME NEW r \in Requests, Serve(r) PROVE RequestsFit'
  <2>1. CASE Acquire(r)
    <3>1. UNCHANGED <<jobVars, terminal>> /\ At(r, "checked") /\ Job(r) \in Jobs
      BY <1>i, <2>1 DEF Acquire, RequestsFit, Admitted, At
    <3>2. CASE turnLock[Job(r)] = None
      <4>1. turnLock' = [turnLock EXCEPT ![Job(r)] = r] /\ Goto(r, "acting")
        BY <2>1, <3>2 DEF Acquire
      <4>2. \A q \in Requests :
              /\ request'[q].pc = IF q = r THEN "acting" ELSE request[q].pc
              /\ request'[q].job = request[q].job
        BY <1>i, <4>1, GotoEffect
      <4>3. Admitted' /\ DecisionFits'
        BY <1>i, <3>1, <4>2 DEF RequestsFit, Admitted, DecisionFits, At, Job
      <4>4. ASSUME NEW q \in Requests, request[q].pc \notin {"idle", "checked"}
            PROVE  Job(q) # Job(r)
        BY <1>i, <3>2, <4>4, ServiceAssumption DEF RequestsFit, HoldsLock
      <4>5. HoldsLock'
        BY <1>i, <3>1, <4>1, <4>2, <4>4 DEF RequestsFit, HoldsLock, At, Job, TypeOK
      <4> QED BY <4>3, <4>5 DEF RequestsFit
    <3>3. CASE turnLock[Job(r)] # None
      <4>1. request' = [request EXCEPT ![r] = Idle] /\ UNCHANGED turnLock
        BY <2>1, <3>3 DEF Acquire
      <4> QED
        BY <1>i, <3>1, <4>1 DEF RequestsFit, Admitted, HoldsLock, DecisionFits, At, Job, TypeOK, Idle
    <3> QED BY <3>2, <3>3
  <2>2. CASE Edits(r)
    <3>1. BeginEdit(r) => RequestsFit'
      BY GoesOn DEF BeginEdit, Acting, At
    <3>2. EndEdit(r) => RequestsFit'
      BY GoesOn DEF EndEdit, At
    <3>3. DropPending(r) => RequestsFit'
      BY GoesOn DEF DropPending, Acting, At
    <3> QED BY <2>2, <3>1, <3>2, <3>3 DEF Edits
  <2>3. CASE Turn(r)
    <3>1. ASSUME BeginTurn(r) PROVE RequestsFit'
      <4>1. \E pc \in {"waiting", "draining", "releasing"} : Goto(r, pc)
        BY <3>1 DEF BeginTurn
      <4> QED BY <3>1, <4>1, GoesOn DEF BeginTurn, Acting, At
    <3>2. EndTurn(r) => RequestsFit'
      BY GoesOn DEF EndTurn, At
    <3> QED BY <2>3, <3>1, <3>2 DEF Turn
  <2>4. CASE Finish(r)
    <3>1. BeginApprove(r) => RequestsFit'
      BY GoesOn DEF BeginApprove, CanApprove, Acting, At
    <3>2. EndApprove(r) => RequestsFit'
      BY GoesOn, Decides DEF EndApprove, At
    <3>3. Reject(r) => RequestsFit'
      BY GoesOn, Decides DEF Reject, Acting, At
    <3>4. Settle(r) => RequestsFit'
      BY GoesOn DEF Settle, At
    <3>5. CloseReview(r) => RequestsFit'
      BY GoesOn DEF CloseReview, Acting, At
    <3>6. Leave(r) => RequestsFit'
      BY GoesOn DEF Leave, At
    <3> QED BY <2>4, <3>1, <3>2, <3>3, <3>4, <3>5, <3>6 DEF Finish
  <2>5. CASE Release(r)
    <3>1. /\ request' = [request EXCEPT ![r] = Idle]
          /\ turnLock' = [turnLock EXCEPT ![Job(r)] = None]
          /\ UNCHANGED <<jobVars, terminal>>
      BY <2>5 DEF Release
    <3>2. request'[r].pc = "idle" /\ \A q \in Requests : q # r => request'[q] = request[q]
      BY <1>i, <3>1 DEF TypeOK, Idle
    <3>3. Admitted' /\ DecisionFits'
      BY <1>i, <3>1, <3>2 DEF RequestsFit, Admitted, DecisionFits, At, Job
    <3>4. ASSUME NEW q \in Requests, q # r, request[q].pc \notin {"idle", "checked"}
          PROVE  Job(q) # Job(r)
      BY <1>i, <2>5, <3>4, OneActs DEF Release, RequestsFit, At
    <3>5. HoldsLock'
      BY <1>i, <3>1, <3>2, <3>4 DEF RequestsFit, HoldsLock, Admitted, Job, At, TypeOK
    <3> QED BY <3>3, <3>5 DEF RequestsFit
  <2> QED BY <1>3, <2>1, <2>2, <2>3, <2>4, <2>5 DEF Serve
<1>4. ASSUME NEW r \in Requests, Disconnect(r) PROVE RequestsFit'
  BY <1>4, GoesOn DEF Disconnect, At
<1>5. ASSUME NEW r \in Requests, Voice(r) PROVE RequestsFit'
  BY <1>5, StandsStill DEF Voice, VoiceBegins, VoiceEnds, VoiceStops
<1>6. CASE Shutdown
  BY <1>6, StandsStill DEF Shutdown
<1>7. CASE UNCHANGED vars
  BY <1>7, StandsStill DEF vars
<1> QED BY <1>1, <1>2, <1>3, <1>4, <1>5, <1>6, <1>7 DEF Next
-----------------------------------------------------------------------------
(* The theorems.                                                           *)

\* The parts of the invariant hold together.
THEOREM Invariance == Spec => []IInv
<1>1. IInv /\ [Next]_vars => IInv'
  BY TypeStep, WorkerFitsStep, ClientFitsStep, ExclusiveStep, RequestsStep
     DEF IInv, RequestsFit
<1> QED BY InvInit, <1>1, PTL DEF Spec

\* Every variable keeps its type, for any number of jobs and requests.
THEOREM TypeCorrect == Spec => []TypeOK
<1>1. IInv => TypeOK
  BY DEF IInv
<1> QED BY <1>1, Invariance, PTL

\* No client is closed twice, whoever comes to close it and in what order.
THEOREM NeverClosedTwice == Spec => []ClientClosedOnce
<1>1. IInv => ClientClosedOnce
  BY DEF IInv, ClientFits, ClientClosedOnce
<1> QED BY <1>1, Invariance, PTL

-----------------------------------------------------------------------------
(* The lease of the slot.                                                  *)

\* A job that ends gives the slot up if it still had it; a late answer to one
\* that had ended before changes nothing.
LEMMA EndingGivesUp ==
  ASSUME IInv, NEW j \in Jobs, NEW end \in Ended, state[j] # "absent",
         state' = [state EXCEPT ![j] = end]
  PROVE  [Slot!Next]_<<Holder, Served>>
<1> USE DEF IInv, TypeOK, Holder, Served
<1>e. end \notin {"absent", "running", "awaiting_review"}
  BY DEF Ended
<1>1. Served' = Served
  BY <1>e
<1>2. CASE OccupiesSlot(j)
  <2>1. Holder = {j} /\ Holder' = {}
    BY <1>2, <1>e DEF Exclusive, OccupiesSlot
  <2> QED BY <1>1, <2>1 DEF Slot!Next, Slot!GiveUp
<1>3. CASE ~OccupiesSlot(j)
  <2>1. Holder' = Holder
    BY <1>3, <1>e DEF OccupiesSlot
  <2> QED BY <1>1, <2>1
<1> QED BY <1>2, <1>3

\* The web service implements the lease of its slot.
THEOREM ImplementsLease == Spec => OneRunAtATime
<1> USE DEF Holder, Served
<1>1. Init => Slot!Init
  BY DEF Init, Slot!Init
<1>2. IInv /\ [Next]_vars => [Slot!Next]_<<Holder, Served>>
  <2> SUFFICES ASSUME IInv, [Next]_vars PROVE [Slot!Next]_<<Holder, Served>>
    OBVIOUS
  <2>1. ASSUME NEW j \in Jobs, Start(j) PROVE [Slot!Next]_<<Holder, Served>>
    <3>1. Holder = {} /\ Holder' = {j} /\ j \notin Served /\ Served' = Served \cup {j}
      BY <2>1 DEF Start, OccupiesSlot, IInv, TypeOK
    <3> QED BY <3>1 DEF Slot!Next, Slot!Take
  <2>2. ASSUME NEW j \in Jobs, Worker(j) PROVE [Slot!Next]_<<Holder, Served>>
    <3>1. ASSUME Fail(j), worker[j] \in {"open", "plan", "park"}
          PROVE  [Slot!Next]_<<Holder, Served>>
      <4>1. state[j] # "absent" /\ "failed" \in Ended
        BY <3>1 DEF IInv, WorkerFits, Ended
      <4> QED BY <3>1, <4>1, EndingGivesUp DEF Fail
    <3>2. ASSUME PlanRun(j), state' = [state EXCEPT ![j] = "finished"]
          PROVE  [Slot!Next]_<<Holder, Served>>
      <4>1. state[j] # "absent" /\ "finished" \in Ended
        BY <3>2 DEF PlanRun, IInv, WorkerFits, Ended
      <4> QED BY <3>2, <4>1, EndingGivesUp
    <3>3. ASSUME AwaitReview(j) PROVE Holder' = Holder /\ Served' = Served
      <4>1. state[j] = "running"
        BY <3>3 DEF AwaitReview, IInv, WorkerFits
      <4> QED BY <3>3, <4>1 DEF AwaitReview, IInv, TypeOK
    <3>4. UNCHANGED state => Holder' = Holder /\ Served' = Served
      OBVIOUS
    <3> QED BY <2>2, <3>1, <3>2, <3>3, <3>4
            DEF Worker, OpenRun, PlanRun, BuildReview, PublishReview, Finally
  <2>3. ASSUME NEW r \in Requests, Settle(r) \/ CloseReview(r) \/ Leave(r)
        PROVE  [Slot!Next]_<<Holder, Served>>
    <3>1. Job(r) \in Jobs /\ state[Job(r)] # "absent"
      BY <2>3 DEF Settle, CloseReview, Leave, Acting, At, IInv, Admitted
    <3>2. ASSUME Settle(r) PROVE [Slot!Next]_<<Holder, Served>>
      <4>1. terminal[Job(r)] \in Ended
        BY <3>1, <3>2 DEF Settle, IInv, TypeOK, DecisionFits, Ended
      <4> QED BY <3>1, <3>2, <4>1, EndingGivesUp DEF Settle
    <3>3. ASSUME Leave(r) PROVE [Slot!Next]_<<Holder, Served>>
      <4>1. "abandoned" \in Ended
        BY DEF Ended
      <4> QED BY <3>1, <3>3, <4>1, EndingGivesUp DEF Leave
    <3>4. CloseReview(r) => UNCHANGED state
      BY DEF CloseReview
    <3> QED BY <2>3, <3>2, <3>3, <3>4
  <2>4. Shutdown => UNCHANGED state
    BY DEF Shutdown
  <2> QED BY <2>1, <2>2, <2>3, <2>4, StepKinds
<1> QED BY <1>1, <1>2, Invariance, PTL DEF Spec, OneRunAtATime, Slot!Spec
-----------------------------------------------------------------------------
(* A review on offer.                                                      *)

LEMMA InitOffer == Init => OfferInv
<1> SUFFICES ASSUME Init PROVE OfferInv
  OBVIOUS
<1> USE DEF Init
<1>1. LockHeld /\ OverBeforeClosing
  BY DEF LockHeld, OverBeforeClosing, At, Idle
<1>2. ClosedFits /\ DecidedFits
  BY DEF ClosedFits, DecidedFits
<1> QED BY <1>1, <1>2 DEF OfferInv

\* A job that is over stays over.
LEMMA OverStays ==
  ASSUME IInv, [Next]_vars, NEW j \in Jobs, state[j] \in Ended
  PROVE  state'[j] \in Ended
<1> USE DEF IInv, TypeOK
<1>e. /\ {"approved", "rejected", "abandoned", "finished", "failed"} \subseteq Ended
      /\ Ended \cap {"absent", "running", "awaiting_review"} = {}
  BY DEF Ended
<1>1. ASSUME NEW i \in Jobs, Start(i) PROVE state'[j] \in Ended
  BY <1>1, <1>e DEF Start
<1>2. ASSUME NEW i \in Jobs, Worker(i) PROVE state'[j] \in Ended
  <2>1. OpenRun(i) \/ PlanRun(i) \/ BuildReview(i) => state'[j] \in Ended
    BY <1>e DEF OpenRun, PlanRun, BuildReview, Fail
  <2>2. AwaitReview(i) => state'[j] \in Ended
    BY <1>e DEF AwaitReview, WorkerFits
  <2> QED BY <1>2, <2>1, <2>2 DEF Worker, PublishReview, Finally
<1>3. ASSUME NEW r \in Requests, Settle(r) \/ CloseReview(r) \/ Leave(r)
      PROVE  state'[j] \in Ended
  <2>1. CASE Settle(r)
    <3>1. terminal[Job(r)] \in {"approved", "rejected"}
      BY <2>1 DEF Settle, Admitted, DecisionFits, At
    <3> QED BY <2>1, <3>1, <1>e DEF Settle
  <2> QED BY <1>3, <1>e, <2>1 DEF CloseReview, Leave
<1>4. CASE Shutdown
  BY <1>4 DEF Shutdown
<1>5. CASE UNCHANGED <<state, worker, closes, review, closed>>
  BY <1>5
<1> QED BY <1>1, <1>2, <1>3, <1>4, <1>5, StepKinds

\* Every step is one of these, as far as requests and locks go: it admits a
\* request, moves one that has the lock, takes the lock or is answered that it
\* is busy, gives the lock back, or touches neither.
LEMMA RequestMoves ==
  ASSUME [Next]_vars
  PROVE  \/ UNCHANGED <<request, turnLock>>
         \/ \E r \in Requests, j \in Jobs, kind \in Kinds : Check(r, j, kind)
         \/ \E r \in Requests : Acquire(r) \/ Release(r)
         \/ \E r \in Requests : /\ \E pc : Goto(r, pc) /\ pc \notin {"idle", "checked"}
                                /\ request[r].pc \notin {"idle", "checked"}
                                /\ UNCHANGED turnLock
                                /\ At(r, "leaving") => Leave(r)
                                /\ At(r, "settling") => Settle(r)
<1> USE DEF At, Acting
<1>1. ASSUME NEW j \in Jobs, Start(j) \/ Worker(j) PROVE UNCHANGED <<request, turnLock>>
  BY <1>1 DEF Start, Worker, OpenRun, PlanRun, BuildReview, PublishReview, AwaitReview, Finally
<1> DEFINE Moves(r) == /\ \E pc : Goto(r, pc) /\ pc \notin {"idle", "checked"}
                       /\ request[r].pc \notin {"idle", "checked"}
                       /\ UNCHANGED turnLock
                       /\ At(r, "leaving") => Leave(r)
                       /\ At(r, "settling") => Settle(r)
<1>2. ASSUME NEW r \in Requests, Serve(r) PROVE Acquire(r) \/ Release(r) \/ Moves(r)
  <2>1. BeginEdit(r) \/ EndEdit(r) \/ DropPending(r) => Moves(r)
    BY DEF BeginEdit, EndEdit, DropPending
  <2>2. BeginTurn(r) \/ EndTurn(r) => Moves(r)
    BY DEF BeginTurn, EndTurn
  <2>3. BeginApprove(r) \/ EndApprove(r) \/ Reject(r) => Moves(r)
    BY DEF BeginApprove, EndApprove, Reject
  <2>4. Settle(r) \/ CloseReview(r) \/ Leave(r) => Moves(r)
    BY DEF Settle, CloseReview, Leave
  <2> QED BY <1>2, <2>1, <2>2, <2>3, <2>4 DEF Serve, Edits, Turn, Finish
<1>3. ASSUME NEW r \in Requests, Disconnect(r) PROVE Moves(r)
  BY <1>3 DEF Disconnect
<1>4. ASSUME NEW r \in Requests, Voice(r) PROVE UNCHANGED <<request, turnLock>>
  BY <1>4 DEF Voice, VoiceBegins, VoiceEnds, VoiceStops
<1>5. Shutdown \/ UNCHANGED vars => UNCHANGED <<request, turnLock>>
  BY DEF Shutdown, vars
<1> QED BY <1>1, <1>2, <1>3, <1>4, <1>5 DEF Next

\* The lock is handed to the request that acts, and given back by it.
LEMMA LockStep ==
  ASSUME IInv, LockHeld, [Next]_vars
  PROVE  LockHeld'
<1> USE DEF IInv, TypeOK, LockHeld
<1>1. CASE UNCHANGED <<request, turnLock>>
  BY <1>1 DEF Job
<1>2. ASSUME NEW r \in Requests, NEW j \in Jobs, NEW kind \in Kinds, Check(r, j, kind)
      PROVE  LockHeld'
  <2>1. /\ At(r, "idle") /\ UNCHANGED turnLock
        /\ \A q \in Requests : q # r => request'[q] = request[q]
    BY <1>2 DEF Check
  <2>2. \A i \in Jobs : turnLock[i] # r
    BY <2>1, ServiceAssumption DEF At
  <2> QED BY <2>1, <2>2 DEF Job
<1>3. ASSUME NEW r \in Requests, Acquire(r) PROVE LockHeld'
  <2>1. At(r, "checked") /\ Job(r) \in Jobs /\ \A i \in Jobs : turnLock[i] # r
    BY <1>3, ServiceAssumption DEF Acquire, At, Admitted
  <2>2. CASE turnLock[Job(r)] = None
    <3>1. turnLock' = [turnLock EXCEPT ![Job(r)] = r] /\ Goto(r, "acting")
      BY <1>3, <2>2 DEF Acquire
    <3>2. \A q \in Requests : /\ request'[q].pc = IF q = r THEN "acting" ELSE request[q].pc
                              /\ request'[q].job = request[q].job
      BY <3>1, GotoEffect
    <3> QED BY <2>1, <3>1, <3>2 DEF Job
  <2>3. CASE turnLock[Job(r)] # None
    <3>1. UNCHANGED turnLock /\ \A q \in Requests : q # r => request'[q] = request[q]
      BY <1>3, <2>3 DEF Acquire
    <3> QED BY <2>1, <3>1 DEF Job
  <2> QED BY <2>2, <2>3
<1>4. ASSUME NEW r \in Requests, Release(r) PROVE LockHeld'
  <2>1. /\ turnLock' = [turnLock EXCEPT ![Job(r)] = None] /\ Job(r) \in Jobs
        /\ \A q \in Requests : q # r => request'[q] = request[q]
    BY <1>4 DEF Release, Admitted, At
  <2>2. \A i \in Jobs : i # Job(r) => turnLock[i] # r
    BY ServiceAssumption
  <2> QED BY <2>1, <2>2 DEF Job
<1>5. ASSUME NEW r \in Requests, UNCHANGED turnLock,
             NEW pc, Goto(r, pc), pc \notin {"idle", "checked"}
      PROVE  LockHeld'
  <2>1. \A q \in Requests : /\ request'[q].pc = IF q = r THEN pc ELSE request[q].pc
                            /\ request'[q].job = request[q].job
    BY <1>5, GotoEffect
  <2> QED BY <1>5, <2>1 DEF Job
<1> QED BY <1>1, <1>2, <1>3, <1>4, <1>5, RequestMoves

\* A request that is about to end its job stays there, or has ended it.
LEMMA HoldingStays ==
  ASSUME IInv, LockHeld, [Next]_vars, NEW j \in Jobs, NEW pc \in {"leaving", "settling"},
         Holding(j, pc)
  PROVE  Holding(j, pc)' \/ state'[j] \in Ended
<1> USE DEF IInv, TypeOK, Holding
<1> DEFINE h == turnLock[j]
<1>1. h \in Requests /\ request[h].pc = pc /\ Job(h) = j
  BY DEF LockHeld, At
<1> HIDE DEF h
<1>2. ASSUME turnLock'[j] = h, request'[h] = request[h] PROVE Holding(j, pc)'
  BY <1>1, <1>2, ServiceAssumption DEF At
<1>3. CASE UNCHANGED <<request, turnLock>>
  BY <1>2, <1>3 DEF h
<1>4. ASSUME NEW r \in Requests, NEW i \in Jobs, NEW kind \in Kinds, Check(r, i, kind)
      PROVE  Holding(j, pc)'
  <2>1. r # h /\ UNCHANGED turnLock /\ (r # h => request'[h] = request[h])
    BY <1>1, <1>4 DEF Check, At
  <2> QED BY <1>2, <2>1 DEF h
<1>5. ASSUME NEW r \in Requests, Acquire(r) PROVE Holding(j, pc)'
  <2>1. r # h
    BY <1>1, <1>5 DEF Acquire, At
  <2>2. request'[h] = request[h]
    BY <1>1, <1>5, <2>1 DEF Acquire, Goto
  <2>3. turnLock'[j] = turnLock[j]
    <3>1. Job(r) # j \/ turnLock[Job(r)] # None
      BY <1>1, ServiceAssumption DEF h
    <3> QED BY <1>5, <3>1 DEF Acquire
  <2> QED BY <1>2, <2>2, <2>3 DEF h
<1>6. ASSUME NEW r \in Requests, Release(r) PROVE Holding(j, pc)'
  <2>1. r # h
    BY <1>1, <1>6 DEF Release, At
  <2>2. Job(r) # j
    BY <1>6, <2>1 DEF Release, At, HoldsLock, h
  <2>3. request'[h] = request[h] /\ turnLock'[j] = turnLock[j]
    BY <1>1, <1>6, <2>1, <2>2 DEF Release
  <2> QED BY <1>2, <2>3 DEF h
<1>7. ASSUME NEW r \in Requests, UNCHANGED turnLock, NEW to, Goto(r, to),
             At(r, "leaving") => Leave(r), At(r, "settling") => Settle(r)
      PROVE  Holding(j, pc)' \/ state'[j] \in Ended
  <2>1. CASE r = h
    <3>1. Leave(r) \/ Settle(r)
      BY <1>1, <1>7, <2>1 DEF At
    <3>2. Leave(r) => state'[j] = "abandoned"
      BY <1>1, <2>1 DEF Leave
    <3>3. Settle(r) => state'[j] = terminal[j] /\ terminal[j] \in {"approved", "rejected"}
      BY <1>1, <2>1 DEF Settle, DecisionFits, At
    <3> QED BY <3>1, <3>2, <3>3 DEF Ended
  <2>2. CASE r # h
    <3>1. request'[h] = request[h]
      BY <1>1, <1>7, <2>2 DEF Goto
    <3> QED BY <1>2, <1>7, <3>1 DEF h
  <2> QED BY <2>1, <2>2
<1> QED BY <1>3, <1>4, <1>5, <1>6, <1>7, RequestMoves

\* Only the end of its worker or of its review closes a job's client, or the
\* shutdown, or an abandon.
LEMMA ClosingHasAReason ==
  ASSUME IInv, OfferInv, [Next]_vars, NEW j \in Jobs,
         client[j] # "closed", client'[j] = "closed"
  PROVE  shutdown' \/ state'[j] \in Ended \/ Holding(j, "leaving")'
<1> USE DEF IInv, TypeOK, jobVars
<1>1. ASSUME NEW i \in Jobs, Start(i) \/ Worker(i) PROVE state'[j] \in Ended
  <2>1. Finally(i)
    BY <1>1 DEF Start, Worker, OpenRun, PlanRun, BuildReview, PublishReview, AwaitReview
  <2>2. worker[j] = "finally" /\ UNCHANGED state
    BY <2>1 DEF Finally, CloseClient
  <2> QED BY <2>2 DEF OfferInv, OverBeforeClosing
<1>2. ASSUME NEW r \in Requests, NEW i \in Jobs, NEW kind \in Kinds, Check(r, i, kind)
      PROVE  FALSE
  BY <1>2 DEF Check
<1>3. ASSUME NEW r \in Requests, Serve(r)
      PROVE  state'[j] \in Ended \/ Holding(j, "leaving")'
  <2>1. CloseReview(r)
    BY <1>3 DEF Serve, Acquire, Edits, BeginEdit, EndEdit, DropPending, Turn, BeginTurn, EndTurn,
                Finish, BeginApprove, EndApprove, Reject, Settle, Leave, Release
  <2>2. Job(r) = j /\ UNCHANGED <<state, turnLock>>
    BY <2>1 DEF CloseReview, CloseController, CloseClient
  <2>3. CASE At(r, "closing")
    BY <2>2, <2>3 DEF OfferInv, OverBeforeClosing
  <2>4. CASE ~At(r, "closing")
    <3>1. turnLock[j] = r /\ Goto(r, "leaving")
      BY <2>1, <2>2, <2>4 DEF CloseReview, Acting, At, HoldsLock
    <3>2. request'[r].pc = "leaving"
      BY <3>1, GotoEffect
    <3> QED BY <2>2, <3>1, <3>2, ServiceAssumption DEF Holding, At
  <2> QED BY <2>3, <2>4
<1>4. ASSUME NEW r \in Requests, Disconnect(r) \/ Voice(r) PROVE FALSE
  BY <1>4 DEF Disconnect, Voice, VoiceBegins, VoiceEnds, VoiceStops
<1>5. Shutdown => shutdown'
  BY DEF Shutdown
<1>6. ~(UNCHANGED vars)
  BY DEF vars
<1> QED BY <1>1, <1>2, <1>3, <1>4, <1>5, <1>6 DEF Next

\* A session ends in a request that has the lock and goes on to say so.
LEMMA EndIsSettled ==
  ASSUME IInv, [Next]_vars, NEW j \in Jobs
  PROVE  /\ terminal[j] # "open" => terminal'[j] = terminal[j]
         /\ terminal[j] = "open" /\ terminal'[j] # "open" => Holding(j, "settling")'
<1> USE DEF IInv, TypeOK, sessionVars
<1>1. ASSUME NEW i \in Jobs, Start(i) \/ Worker(i) PROVE UNCHANGED terminal
  BY <1>1 DEF Start, Worker, OpenRun, PlanRun, BuildReview, PublishReview, AwaitReview, Finally
<1>2. ASSUME NEW r \in Requests, NEW i \in Jobs, NEW kind \in Kinds, Check(r, i, kind)
      PROVE  UNCHANGED terminal
  BY <1>2 DEF Check
<1>3. ASSUME NEW r \in Requests, Serve(r), terminal' # terminal
      PROVE  /\ terminal[j] # "open" => terminal'[j] = terminal[j]
             /\ terminal[j] = "open" /\ terminal'[j] # "open" => Holding(j, "settling")'
  <2>1. EndApprove(r) \/ Reject(r)
    BY <1>3 DEF Serve, Acquire, Edits, BeginEdit, EndEdit, DropPending, Turn, BeginTurn, EndTurn,
                Finish, BeginApprove, Settle, CloseReview, Leave, Release
  <2>2. PICK end : terminal' = [terminal EXCEPT ![Job(r)] = end]
    BY <1>3, <2>1 DEF EndApprove, Reject, Close
  <2>3. /\ terminal[Job(r)] = "open" /\ Goto(r, "settling") /\ UNCHANGED turnLock
        /\ turnLock[Job(r)] = r
    BY <1>3, <2>1 DEF EndApprove, Reject, Acting, At, DecisionFits, HoldsLock
  <2>4. request'[r].pc = "settling"
    BY <2>3, GotoEffect
  <2> QED BY <2>2, <2>3, <2>4, ServiceAssumption DEF Holding, At
<1>4. ASSUME NEW r \in Requests, Disconnect(r) \/ Voice(r) PROVE UNCHANGED terminal
  BY <1>4 DEF Disconnect, Voice, VoiceBegins, VoiceEnds, VoiceStops
<1>5. Shutdown \/ UNCHANGED vars => UNCHANGED terminal
  BY DEF Shutdown, vars
<1> QED BY <1>1, <1>2, <1>3, <1>4, <1>5 DEF Next

\* A job is over before its worker goes to close, and before its request does.
LEMMA OverStep ==
  ASSUME IInv, OfferInv, [Next]_vars
  PROVE  OverBeforeClosing'
<1> USE DEF IInv, TypeOK
<1>1. ASSUME NEW j \in Jobs, worker'[j] = "finally" PROVE state'[j] \in Ended
  <2>1. CASE worker[j] = "finally"
    BY <2>1, OverStays DEF OfferInv, OverBeforeClosing
  <2>2. CASE worker[j] # "finally"
    <3>1. \E i \in Jobs : Worker(i)
      BY <1>1, <2>2, StepKinds DEF Start, Settle, CloseReview, Leave, Shutdown
    <3>2. state'[j] \in {"failed", "finished"}
      BY <1>1, <2>2, <3>1 DEF Worker, OpenRun, PlanRun, BuildReview, PublishReview, AwaitReview,
                              Finally, Fail
    <3> QED BY <3>2 DEF Ended
  <2> QED BY <2>1, <2>2
<1>2. ASSUME NEW r \in Requests, At(r, "closing")' PROVE (state[Job(r)] \in Ended)'
  <2>1. CASE At(r, "closing") /\ request'[r].job = request[r].job
    <3>1. Job(r) \in Jobs /\ state[Job(r)] \in Ended
      BY <2>1 DEF OfferInv, OverBeforeClosing, Admitted, At
    <3> QED BY <2>1, <3>1, OverStays DEF Job
  <2>2. CASE Settle(r)
    <3>1. /\ Job(r) \in Jobs /\ terminal[Job(r)] \in {"approved", "rejected"}
          /\ request'[r].job = request[r].job
      BY <2>2, GotoEffect DEF Settle, DecisionFits, Admitted, At
    <3> QED BY <2>2, <3>1 DEF Settle, Ended, Job
  <2>3. \/ At(r, "closing") /\ request'[r].job = request[r].job
        \/ Settle(r)
    <3> USE DEF At, Job
    <3>1. UNCHANGED request => At(r, "closing") /\ request'[r].job = request[r].job
      BY <1>2
    <3>2. ASSUME NEW q \in Requests, NEW pc, Goto(q, pc), pc # "closing"
          PROVE  At(r, "closing") /\ request'[r].job = request[r].job
      BY <1>2, <3>2, GotoEffect
    <3>3. ASSUME NEW q \in Requests, NEW i \in Jobs, NEW kind \in Kinds, Check(q, i, kind)
          PROVE  At(r, "closing") /\ request'[r].job = request[r].job
      BY <1>2, <3>3 DEF Check
    <3>4. ASSUME NEW q \in Requests, Acquire(q) \/ Release(q)
          PROVE  At(r, "closing") /\ request'[r].job = request[r].job
      <4>1. Goto(q, "acting") \/ request' = [request EXCEPT ![q] = Idle]
        BY <3>4 DEF Acquire, Release
      <4>2. CASE request' = [request EXCEPT ![q] = Idle]
        BY <1>2, <4>2 DEF Idle
      <4> QED BY <3>2, <4>1, <4>2
    <3>5. ASSUME NEW q \in Requests, Serve(q)
          PROVE  \/ At(r, "closing") /\ request'[r].job = request[r].job
                 \/ Settle(r)
      <4>1. CASE Settle(q)
        <5>1. CASE q = r
          BY <4>1, <5>1
        <5>2. CASE q # r
          BY <1>2, <4>1, <5>2, GotoEffect DEF Settle
        <5> QED BY <5>1, <5>2
      <4>2. CASE Edits(q) \/ Turn(q) \/ BeginApprove(q) \/ EndApprove(q) \/ Reject(q)
                 \/ CloseReview(q) \/ Leave(q)
        <5>1. \E pc : Goto(q, pc) /\ pc # "closing"
          BY <4>2 DEF Edits, BeginEdit, EndEdit, DropPending, Turn, BeginTurn, EndTurn,
                      BeginApprove, EndApprove, Reject, CloseReview, Leave
        <5> QED BY <3>2, <5>1
      <4> QED BY <3>4, <3>5, <4>1, <4>2 DEF Serve, Finish
    <3>6. ASSUME NEW i \in Jobs, Start(i) \/ Worker(i) PROVE UNCHANGED request
      BY <3>6 DEF Start, Worker, OpenRun, PlanRun, BuildReview, PublishReview, AwaitReview, Finally
    <3>7. ASSUME NEW q \in Requests, Voice(q) PROVE UNCHANGED request
      BY <3>7 DEF Voice, VoiceBegins, VoiceEnds, VoiceStops
    <3>8. ASSUME NEW q \in Requests, Disconnect(q) PROVE Goto(q, "releasing")
      BY <3>8 DEF Disconnect
    <3>9. Shutdown \/ UNCHANGED vars => UNCHANGED request
      BY DEF Shutdown, vars
    <3> QED BY <3>1, <3>2, <3>3, <3>5, <3>6, <3>7, <3>8, <3>9 DEF Next
  <2> QED BY <2>1, <2>2, <2>3
<1> QED BY <1>1, <1>2 DEF OverBeforeClosing

LEMMA OfferStep ==
  ASSUME IInv, OfferInv, [Next]_vars
  PROVE  OfferInv'
<1> USE DEF OfferInv
<1>1. LockHeld' /\ OverBeforeClosing'
  BY LockStep, OverStep
<1>2. ClosedFits'
  <2> SUFFICES ASSUME NEW j \in Jobs, client'[j] = "closed"
               PROVE  shutdown' \/ state'[j] \in Ended \/ Holding(j, "leaving")'
    BY DEF ClosedFits
  <2>1. CASE client[j] = "closed"
    <3>1. shutdown => shutdown'
      BY DEF Next, Start, Worker, OpenRun, PlanRun, BuildReview, PublishReview, AwaitReview,
             Finally, Check, Serve, Acquire, Edits, BeginEdit, EndEdit, DropPending, Turn,
             BeginTurn, EndTurn, Finish, BeginApprove, EndApprove, Reject, Settle, CloseReview,
             Leave, Release, Disconnect, Voice, VoiceBegins, VoiceEnds, VoiceStops, Shutdown, vars
    <3>2. shutdown \/ state[j] \in Ended \/ Holding(j, "leaving")
      BY <2>1 DEF ClosedFits
    <3> QED BY <3>1, <3>2, OverStays, HoldingStays
  <2>2. CASE client[j] # "closed"
    BY <2>2, ClosingHasAReason
  <2> QED BY <2>1, <2>2
<1>3. DecidedFits'
  <2> SUFFICES ASSUME NEW j \in Jobs
               PROVE  /\ terminal'[j] # "open" => state'[j] \in Ended \/ Holding(j, "settling")'
                      /\ state'[j] \in {"approved", "rejected"} => terminal'[j] = state'[j]
    BY DEF DecidedFits
  <2>1. terminal'[j] # "open" => state'[j] \in Ended \/ Holding(j, "settling")'
    <3>1. CASE terminal[j] # "open"
      <4>1. state[j] \in Ended \/ Holding(j, "settling")
        BY <3>1 DEF DecidedFits
      <4> QED BY <4>1, OverStays, HoldingStays
    <3>2. CASE terminal[j] = "open"
      BY <3>2, EndIsSettled
    <3> QED BY <3>1, <3>2
  <2>2. ASSUME state'[j] \in {"approved", "rejected"} PROVE terminal'[j] = state'[j]
    <3>1. CASE state'[j] = state[j]
      BY <2>2, <3>1, EndIsSettled DEF DecidedFits
    <3>2. CASE state'[j] # state[j]
      <4>1. PICK r \in Requests : Settle(r)
        <5> USE DEF IInv, TypeOK
        <5>1. ASSUME NEW i \in Jobs, Start(i) \/ Worker(i) PROVE FALSE
          BY <2>2, <3>2, <5>1 DEF Start, Worker, OpenRun, PlanRun, BuildReview, PublishReview,
                                  AwaitReview, Finally, Fail
        <5>2. ASSUME NEW r \in Requests, CloseReview(r) \/ Leave(r) PROVE FALSE
          BY <2>2, <3>2, <5>2 DEF CloseReview, Leave
        <5> QED BY <3>2, <5>1, <5>2, StepKinds DEF Shutdown
      <4>2. state'[j] = terminal[j] /\ UNCHANGED terminal
        BY <3>2, <4>1 DEF Settle, IInv, TypeOK, sessionVars
      <4> QED BY <4>2
    <3> QED BY <3>1, <3>2
  <2> QED BY <2>1, <2>2
<1> QED BY <1>1, <1>2, <1>3

LEMMA OfferInvariance == Spec => []OfferInv
BY InitOffer, OfferStep, Invariance, PTL DEF Spec

\* A review on offer has its client, whatever ends it and when.
THEOREM OfferHasItsClient == Spec => []ReviewKeepsItsClient
<1>1. OfferInv => ReviewKeepsItsClient
  BY DEF OfferInv, ClosedFits, Holding, ReviewKeepsItsClient, Ended
<1> QED BY <1>1, OfferInvariance, PTL

\* The page and the ledger agree, from the moment the lock is free again.
THEOREM PageShowsTheDecision == Spec => []DecisionIsShown
<1>1. OfferInv => DecisionIsShown
  BY DEF OfferInv, DecidedFits, Holding, DecisionIsShown, Ended
<1> QED BY <1>1, OfferInvariance, PTL

\* The end of a review is recorded once.
THEOREM DecidedOnce == Spec => OneDecision
<1>1. IInv /\ [Next]_vars => [\A j \in Jobs : terminal[j] # "open" => terminal'[j] = terminal[j]]_vars
  BY EndIsSettled
<1> QED BY <1>1, Invariance, PTL DEF Spec, OneDecision
-----------------------------------------------------------------------------
(* A driven session: its state, and what holds of it.                      *)

\* A run that finished or failed never had a review, so no request is about it.
StoppedFits ==
    \A j \in Jobs : state[j] \in {"finished", "failed"} => ~review[j]

\* What the report may say of a run.
Reports == States \cup {"unknown", "unwatched", None}

DriveInv ==
    /\ StoppedFits
    /\ attempts \in [Jobs -> Reports]
    /\ VerdictsStand
-----------------------------------------------------------------------------
(* Over the service.                                                       *)

\* A step of the session is a step of the service, or leaves it alone.
LEMMA ServiceSteps == [DriveNext]_allVars => [Next]_vars
<1> SUFFICES ASSUME DriveNext PROVE Next \/ UNCHANGED vars
  BY DEF allVars
<1>1. CASE Driver
  BY <1>1 DEF Driver, Poll, Break, Finished, Post, StartAt, Next
<1>2. CASE LoseSight \/ Refused \/ Interrupt
  BY <1>2 DEF LoseSight, Refused, Interrupt
<1>3. ASSUME NEW j \in Jobs, BrowserStarts(j) \/ Work(j) PROVE Next
  BY <1>3 DEF BrowserStarts, StartAt, Work, Next
<1>4. ASSUME NEW r \in Requests, Answer(r) \/ Ask(r) PROVE Next
  BY <1>4, DriveAssumption DEF Answer, Ask, Next
<1>5. CASE Stop
  BY <1>5 DEF Stop, Next
<1>6. QED
  BY <1>1, <1>2, <1>3, <1>4, <1>5 DEF DriveNext

\* A driver and a browser ask of the service nothing it does not do for its
\* own callers: what holds of RunService holds of it here.
THEOREM DriveIsTheService == DriveSpec => Spec
<1>1. DriveInit => Init
  BY DEF DriveInit
<1>2. QED
  BY <1>1, ServiceSteps, PTL DEF DriveSpec, Spec

\* However the driver's starts and the browser's meet, one run has the slot.
THEOREM DrivenSlotIsALease == DriveSpec => OneRunAtATime
BY DriveIsTheService, ImplementsLease, PTL
-----------------------------------------------------------------------------
(* The verdicts.                                                           *)

\* Once a run has finished or failed nothing changes its state.
LEMMA StoppedStays ==
  ASSUME IInv, StoppedFits, [Next]_vars
  PROVE  /\ StoppedFits'
         /\ \A j \in Jobs : state[j] \in {"finished", "failed"} => state'[j] = state[j]
<1> USE DEF IInv, TypeOK, StoppedFits
<1>1. ASSUME NEW i \in Jobs, Start(i)
      PROVE  /\ StoppedFits'
             /\ \A j \in Jobs : state[j] \in {"finished", "failed"} => state'[j] = state[j]
  BY <1>1 DEF Start
<1>2. ASSUME NEW i \in Jobs, Worker(i)
      PROVE  /\ StoppedFits'
             /\ \A j \in Jobs : state[j] \in {"finished", "failed"} => state'[j] = state[j]
  BY <1>2 DEF Worker, OpenRun, PlanRun, BuildReview, PublishReview, AwaitReview, Finally, Fail,
              WorkerFits
<1>3. ASSUME NEW r \in Requests, Settle(r) \/ CloseReview(r) \/ Leave(r)
      PROVE  /\ StoppedFits'
             /\ \A j \in Jobs : state[j] \in {"finished", "failed"} => state'[j] = state[j]
  <2>1. CASE Settle(r)
    <3>1. terminal[Job(r)] \in {"approved", "rejected"} /\ Job(r) \in Jobs /\ review[Job(r)]
      BY <2>1 DEF Settle, Admitted, DecisionFits, At
    <3> QED BY <2>1, <3>1 DEF Settle
  <2>2. CASE Leave(r)
    <3>1. Job(r) \in Jobs /\ review[Job(r)]
      BY <2>2 DEF Leave, Admitted, At
    <3> QED BY <2>2, <3>1 DEF Leave
  <2> QED BY <1>3, <2>1, <2>2 DEF CloseReview
<1>4. CASE Shutdown
  BY <1>4 DEF Shutdown
<1>5. CASE UNCHANGED <<state, worker, closes, review, closed>>
  BY <1>5
<1>6. QED
  BY <1>1, <1>2, <1>3, <1>4, <1>5, StepKinds

LEMMA InitDrive == DriveInit => DriveInv
<1> SUFFICES ASSUME DriveInit PROVE DriveInv
  OBVIOUS
<1>1. "running" \in States /\ "finished" \in States /\ "failed" \in States
  BY DEF States, Ended
<1>2. \A j \in Jobs : attempts[j] = None /\ state[j] = "absent"
  BY DEF DriveInit, Init
<1>3. attempts \in [Jobs -> Reports]
  BY DEF DriveInit, Reports
<1>4. StoppedFits /\ VerdictsStand
  BY <1>1, <1>2, DriveAssumption DEF StoppedFits, VerdictsStand
<1>5. QED
  BY <1>3, <1>4 DEF DriveInv

LEMMA DriveInvStep ==
  ASSUME IInv, DriveInv, [DriveNext]_allVars
  PROVE  DriveInv'
<1> USE DEF DriveInv
<1>1. /\ StoppedFits'
      /\ \A j \in Jobs : state[j] \in {"finished", "failed"} => state'[j] = state[j]
  BY StoppedStays, ServiceSteps
<1>2. CASE UNCHANGED attempts
  BY <1>1, <1>2 DEF VerdictsStand
<1>3. ASSUME NEW j \in Jobs, Post(j)
      PROVE  DriveInv'
  <2>1. PICK word \in {"unknown", "unwatched"} : attempts' = [attempts EXCEPT ![j] = word]
    BY <1>3 DEF Post
  <2>2. attempts' \in [Jobs -> Reports]
    BY <2>1 DEF Reports
  <2>3. QED
    BY <1>1, <2>1, <2>2 DEF VerdictsStand
<1>4. CASE Poll
  <2>1. state' = state /\ Stopped(driver.job)
    BY <1>4 DEF Poll, vars, jobVars
  <2>2. attempts' = [attempts EXCEPT ![driver.job] = state[driver.job]]
    BY <1>4 DEF Poll
  <2>3. \A j \in Jobs : attempts'[j] = IF j = driver.job THEN state[j] ELSE attempts[j]
    BY <2>2
  <2>4. attempts' \in [Jobs -> Reports]
    BY <2>2, <2>3 DEF IInv, TypeOK, Reports
  <2>5. VerdictsStand'
    BY <2>1, <2>3 DEF VerdictsStand, Stopped
  <2>6. QED
    BY <1>1, <2>4, <2>5
<1>5. CASE LoseSight
  <2>1. attempts' = [attempts EXCEPT ![driver.job] = "unwatched"]
    BY <1>5 DEF LoseSight
  <2>2. attempts' \in [Jobs -> Reports]
    BY <2>1 DEF Reports
  <2>3. QED
    BY <1>1, <2>1, <2>2 DEF VerdictsStand
<1>6. QED
  <2>1. \/ UNCHANGED attempts
        \/ \E j \in Jobs : Post(j)
        \/ Poll \/ LoseSight
    BY DEF DriveNext, Driver, Break, Finished, Refused, Interrupt, BrowserStarts, Work, Answer,
           Ask, Stop, driveVars, allVars
  <2>2. QED
    BY <1>2, <1>3, <1>4, <1>5, <2>1

\* The driver reports no run that still goes, and a run it reported as failed
\* or finished never becomes anything else (VerdictsStand).
THEOREM VerdictsAreFinal == DriveSpec => []VerdictsStand
<1>1. DriveSpec => []IInv
  BY DriveIsTheService, Invariance, PTL
<1>2. IInv /\ DriveInv /\ [DriveNext]_allVars => DriveInv'
  BY DriveInvStep
<1>3. DriveInv => VerdictsStand
  BY DEF DriveInv
<1>4. QED
  BY <1>1, <1>2, <1>3, InitDrive, PTL DEF DriveSpec
=============================================================================
