-------------------------------- MODULE Drive --------------------------------
(***************************************************************************)
(* A driving session against the web front end (drive.py), composed with   *)
(* the service it drives (module RunService): the driver posts a run, is   *)
(* refused while another one holds the slot, polls the run it started      *)
(* until that stops running, and posts the next.  Somebody may be using    *)
(* the browser meanwhile: starting runs of their own, and reviewing any    *)
(* run that parks, the driver's included.                                  *)
(*                                                                         *)
(* A refused start and a poll that finds the run still going change        *)
(* nothing but the time, and are not actions.                              *)
(***************************************************************************)
EXTENDS RunService, Sequences

CONSTANTS
    Runs,        \* DriveOptions.runs: how many to start, 0 for no end
    Sessions,    \* the sessions driven: their depth, whether images are offered
                 \* (or the session drives the roster alone), whether it waits
    DriverJobs,  \* bound: the jobs of the runs the driver starts, in their order
    BrowserJobs, \* bound: the jobs of the runs started from the browser
    Asked        \* bound: the kinds of requests the reviewers make

ASSUME DriveAssumption ==
    /\ Runs \in Nat
    /\ Sessions \subseteq [depth : {"plan", "extract", "mixed"}, images : BOOLEAN, wait : BOOLEAN]
    /\ DriverJobs \in Seq(Jobs \ BrowserJobs)
    /\ BrowserJobs \subseteq Jobs
    /\ Asked \subseteq Kinds
    /\ None \notin States

VARIABLES
    options,  \* DriveOptions: one of Sessions
    driver,   \* the loop: where it is, the run it is at, the job it watches
    depth,    \* RunOptions.depth of each job, None before it is started
    attempts  \* DriveReport.attempts, by job: what became of it

driveVars == <<options, driver, depth, attempts>>
allVars == <<vars, driveVars>>

DriveInit ==
    /\ Init
    /\ options \in Sessions
    /\ driver = [pc |-> "due", index |-> 0, job |-> None]
    /\ depth = [j \in Jobs |-> None]
    /\ attempts = [j \in Jobs |-> None]

\* _depth_for: mixed alternates.
DepthOf(index) ==
    IF options.depth = "mixed"
    THEN IF index % 2 = 1 THEN "extract" ELSE "plan"
    ELSE options.depth

\* plan_request refuses what _options_for would: nothing to extract from.
Plannable(index) == options.images \/ DepthOf(index) = "plan"

Wanted == Runs = 0 \/ driver.index < Runs

Due == driver.pc = "due" /\ Wanted
-----------------------------------------------------------------------------
(* Starting runs.                                                          *)

\* POST /runs, from either of them.
StartAt(j, d) ==
    /\ Start(j)
    /\ depth' = [depth EXCEPT ![j] = d]

BrowserStarts(j) ==
    /\ j \in BrowserJobs
    /\ \E d \in {"plan", "extract"} : StartAt(j, d)
    /\ UNCHANGED <<options, driver, attempts>>

\* The driver is done with the run it is at, and turns to the next.
Passed == [pc |-> "due", index |-> driver.index + 1, job |-> None]

\* The 303 brings the driver to the run it started.  A run without an id in
\* its address cannot be waited for.
Post(j) ==
    /\ driver.index < Len(DriverJobs) /\ j = DriverJobs[driver.index + 1]
    /\ Due /\ Plannable(driver.index)
    /\ StartAt(j, DepthOf(driver.index))
    /\ \/ /\ options.wait
          /\ driver' = [driver EXCEPT !.pc = "watching", !.job = j]
          /\ attempts' = [attempts EXCEPT ![j] = "unknown"]
       \/ /\ driver' = Passed
          /\ attempts' = [attempts EXCEPT ![j] = IF options.wait THEN "unwatched" ELSE "unknown"]
    /\ UNCHANGED options

\* The answer of GET /runs/{id}/state that ends the wait.
Stopped(j) == state[j] # "running"

\* Fault: the driver waits for the slot, not for the run.
PollForTheSlot ==
    /\ driver.pc = "watching" /\ ~shutdown
    /\ ~OccupiesSlot(driver.job)
    /\ attempts' = [attempts EXCEPT ![driver.job] = state[driver.job]]
    /\ driver' = Passed
    /\ UNCHANGED <<vars, options, depth>>

\* _await_finish, its last poll.
Poll ==
    /\ driver.pc = "watching" /\ ~shutdown
    /\ Stopped(driver.job)
    /\ attempts' = [attempts EXCEPT ![driver.job] = state[driver.job]]
    /\ driver' = Passed
    /\ UNCHANGED <<vars, options, depth>>

\* An answer other than 200 ends the wait, and the run may still be going.
LoseSight ==
    /\ driver.pc = "watching" /\ ~shutdown
    /\ attempts' = [attempts EXCEPT ![driver.job] = "unwatched"]
    /\ driver' = Passed
    /\ UNCHANGED <<vars, options, depth>>

\* DriveError: a start is answered with neither a run nor a 409.
Refused ==
    /\ Due /\ ~shutdown
    /\ driver' = [driver EXCEPT !.pc = "broken"]
    /\ UNCHANGED <<vars, options, depth, attempts>>

\* DriveError: the form cannot be composed, or the server cannot be reached.
Break ==
    /\ \/ Due /\ ~Plannable(driver.index)
       \/ Due /\ shutdown
       \/ driver.pc = "watching" /\ shutdown
    /\ driver' = [driver EXCEPT !.pc = "broken"]
    /\ UNCHANGED <<vars, options, depth, attempts>>

\* The count is reached.
Finished ==
    /\ driver.pc = "due"
    /\ ~Wanted
    /\ driver' = [driver EXCEPT !.pc = "over"]
    /\ UNCHANGED <<vars, options, depth, attempts>>

Interrupt ==
    /\ driver.pc \in {"due", "watching"}
    /\ driver' = [driver EXCEPT !.pc = "over"]
    /\ UNCHANGED <<vars, options, depth, attempts>>
-----------------------------------------------------------------------------
\* _execute: a run that stops after B1 has no manifest, and is never parked.
Work(j) ==
    /\ Worker(j)
    /\ depth[j] = "extract" => worker'[j] # "park"
    /\ UNCHANGED driveVars

\* The requests of reviews, and the shutdown, are RunService's.
Answer(r) == (Serve(r) \/ Voice(r)) /\ UNCHANGED driveVars

Ask(r) ==
    /\ Disconnect(r) \/ \E j \in Jobs, kind \in Asked : Check(r, j, kind)
    /\ UNCHANGED driveVars

Stop == Shutdown /\ UNCHANGED driveVars

Driver == Poll \/ Break \/ Finished \/ \E j \in Jobs : Post(j)

DriveNext ==
    \/ Driver
    \/ LoseSight \/ Refused \/ Interrupt
    \/ \E j \in Jobs : BrowserStarts(j) \/ Work(j)
    \/ \E r \in Requests : Answer(r) \/ Ask(r)
    \/ Stop

DriveSpec == DriveInit /\ [][DriveNext]_allVars

\* RunService's threads run, and so does the driver's loop.  No fault and no
\* interrupt need ever come.
DriveFairness ==
    /\ WF_allVars(Driver)
    /\ \A j \in Jobs : WF_allVars(Work(j))
    /\ \A r \in Requests :
          /\ WF_allVars(Serve(r) /\ UNCHANGED driveVars)
          /\ WF_allVars(Voice(r) /\ UNCHANGED driveVars)

FairDriveSpec == DriveSpec /\ DriveFairness
-----------------------------------------------------------------------------
(* Properties.                                                             *)

DriveTypeOK ==
    /\ TypeOK
    /\ options \in Sessions
    /\ driver \in [pc : {"due", "watching", "over", "broken"}, index : Nat,
                   job : Jobs \cup {None}]
    /\ depth \in [Jobs -> {"plan", "extract", None}]
    /\ attempts \in [Jobs -> States \cup {"unknown", "unwatched", None}]

\* A run the driver waits for is reported on in the end: a worker that raises,
\* a plan that parks and a server that goes down all end the wait
\* (_await_finish; _execute, "the page would sit on a spinner forever").
WaitsEnd == driver.pc = "watching" ~> driver.pc # "watching"

\* "Waiting is the only way the next start is not refused" (_await_finish)
\* holds up to what keeps the slot after the wait is over or takes it before
\* the next poll.  If every parked review is ended by somebody, and from some
\* time on nobody else starts runs, a start that is due is made or the session
\* is over, also behind a run the driver lost sight of.  A browser that takes
\* the slot between any two polls keeps the driver waiting for good.
DueStartsAreMade ==
    /\ \A j \in Jobs : []<>(state[j] # "awaiting_review")
    /\ <>[][\A j \in Jobs : ~BrowserStarts(j)]_allVars
    => (driver.pc = "due" ~> driver.pc # "due")

\* A verdict is final: a run reported as failed or finished has stopped, and
\* no late answer of its worker or of a request makes it anything else; and no
\* run is reported that still goes (drive._await_finish, RunJob.state).
VerdictsStand ==
    \A j \in Jobs :
        /\ attempts[j] # "running"
        /\ attempts[j] \in {"finished", "failed"} => state[j] = attempts[j]
=============================================================================
