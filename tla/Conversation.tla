---------------------------- MODULE Conversation ----------------------------
(***************************************************************************)
(* D2's voice over D2's session: the narrator (agents/narrator.py), its    *)
(* tools (agents/tools.py), the scope guard that judges its replies        *)
(* (agents/guard.py) and the model behind both (agents/model.py), composed *)
(* with the review session it talks about (module ReviewSession).          *)
(*                                                                         *)
(* A turn is a loop: the model is asked, its tool calls are run against    *)
(* the session, and it is asked again, until it answers, is unavailable,   *)
(* raises, or has used the loop up.  Then the guard judges the reply, and  *)
(* a reply out of scope is withheld and its exchange taken out of the      *)
(* messages.                                                               *)
(* A completion is kept to one tool call: a completion with several is the *)
(* same calls in the same order, with fewer questions in between.          *)
(*                                                                         *)
(* The operator acts between turns; and also during a streamed turn whose  *)
(* reader has left, because the lock was the reader's.  Module RunService  *)
(* has the lock, and two turns at once.                                    *)
(*                                                                         *)
(* `messages` keeps, of the messages of the conversation, the ones that    *)
(* report a change to the session, in their order.                         *)
(***************************************************************************)
EXTENDS ReviewSession

CONSTANTS
    MaxIterations, \* narrator.MAX_TOOL_ITERATIONS, 8 in the code
    MaxTurns       \* bound: the turns of one review, the opening one included

ASSUME ConversationAssumption ==
    /\ MaxIterations \in Nat \ {0}
    /\ MaxTurns \in Nat

VARIABLES
    narrator,  \* "new", "idle", "talking"; "gone": the review is button-driven;
               \* "failed": there is no review
    enforcing, \* the guard has a judge factory: there is a client to ask
    turn,      \* the turn in progress, or the last one
    messages,  \* Narrator.messages, those that report a change
    lines,     \* the invocation lines of the narrator
    raised,    \* history: the turns that ended in an exception
    changes,   \* history: every change to the session a tool made, and in which turn
    shown      \* history: the turns of which the operator has seen model text

voiceVars == <<narrator, enforcing, turn, messages, lines, raised, changes, shown>>
allVars == <<vars, voiceVars>>

\* No turn in progress after the n-th.
Quiet(n) == [n |-> n, before |-> 0, left |-> 0, called |-> {}, streamed |-> FALSE, read |-> FALSE]

\* narrator_for, and Narrator.__init__: no model, no key or no config is no
\* narrator.  Whether there is a client does not depend on either.
ConversationInit ==
    /\ Init
    /\ narrator \in {"new", "gone"}
    /\ enforcing \in BOOLEAN
    /\ turn = Quiet(0)
    /\ messages = <<>>
    /\ lines = {}
    /\ raised = {}
    /\ changes = {}
    /\ shown = {}
-----------------------------------------------------------------------------
(* A turn begins.                                                          *)

Begin(streamed) ==
    /\ turn.n < MaxTurns
    /\ narrator' = "talking"
    /\ turn' = [n |-> turn.n + 1, before |-> Len(messages), left |-> MaxIterations,
                called |-> {}, streamed |-> streamed, read |-> TRUE]
    /\ UNCHANGED <<vars, enforcing, messages, lines, raised, changes, shown>>

\* Narrator.open, on the worker, before the review is offered.
Open == narrator = "new" /\ Begin(FALSE)

\* Fault: the front end streams whenever it is asked to.
SayStreaming ==
    /\ narrator = "idle" /\ terminal = "open"
    /\ \E streamed \in BOOLEAN : Begin(streamed)

\* Narrator.say: what may yet be withheld is not streamed.
Say ==
    /\ narrator = "idle" /\ terminal = "open"
    /\ \E asked \in BOOLEAN : Begin(asked /\ ~enforcing)

\* The reader of a streamed turn leaves, and gives the turn lock back.
LeaveAlone ==
    /\ narrator = "talking" /\ turn.streamed /\ turn.read
    /\ turn' = [turn EXCEPT !.read = FALSE]
    /\ UNCHANGED <<vars, narrator, enforcing, messages, lines, raised, changes, shown>>
-----------------------------------------------------------------------------
(* The model calls a tool.                                                 *)

\* One completion with one call, up to the call: what was streamed is seen.
Calls(tool) ==
    /\ narrator = "talking" /\ turn.left > 0
    /\ turn' = [turn EXCEPT !.left = @ - 1, !.called = @ \cup {tool}]
    /\ shown' = IF turn.streamed THEN shown \cup {turn.n} ELSE shown
    /\ UNCHANGED <<narrator, enforcing, lines, raised>>

\* A tool changes the session, and its result goes back to the model.
Changed(tool, edit) ==
    LET change == [turn |-> turn.n, tool |-> tool, edit |-> edit]
    IN  /\ changes' = changes \cup {change}
        /\ messages' = Append(messages, change)

\* read_manifest; any tool whose call is an error the model is told of.
CallsForNothing(tool) ==
    /\ \/ tool = "read_manifest"
       \/ tool = "propose_edit" /\ \E e \in Edit :
             terminal # "open" \/ e.recipient \notin DOMAIN shipments
       \/ tool = "confirm_edit" /\ pending = {}
    /\ Calls(tool)
    /\ UNCHANGED <<vars, messages, changes>>

\* propose_edit: session.propose, with whatever it makes of the edit.
CallsPropose(e) ==
    /\ Calls("propose_edit")
    /\ Propose(e)
    /\ Changed("propose_edit", e)

\* confirm_edit: whatever is held back, by whomever it was proposed.
CallsConfirm ==
    /\ Calls("confirm_edit")
    /\ Confirm
    /\ \E p \in pending : Changed("confirm_edit", p.edit)
-----------------------------------------------------------------------------
(* A turn ends.                                                            *)

Line(outcome) ==
    /\ lines' = lines \cup {[turn |-> turn.n, outcome |-> outcome, called |-> turn.called]}
    /\ UNCHANGED raised

\* ScopeGuard.check: what the judge of this turn makes of the reply.  The
\* judge is asked for anew in every turn, and anything but a score below the
\* threshold passes.  The opening is not judged.
Verdicts == IF enforcing /\ turn.n > 1 THEN {"pass", "suppress"} ELSE {"pass"}

Delivered ==
    /\ "pass" \in Verdicts
    /\ UNCHANGED messages
    /\ shown' = shown \cup {turn.n}
    /\ Line(IF turn.called # {} THEN "findings" ELSE "clean")

\* Fault: a withheld turn takes the whole conversation with it.
WithheldWithAll ==
    /\ "suppress" \in Verdicts
    /\ messages' = <<>>
    /\ UNCHANGED shown
    /\ Line("suppressed")

\* The exchange is removed whole, from its prompt on; what its tools did to
\* the session stays done.
Withheld ==
    /\ "suppress" \in Verdicts
    /\ messages' = SubSeq(messages, 1, turn.before)
    /\ UNCHANGED shown
    /\ Line("suppressed")

Ends(state) ==
    /\ narrator' = state
    /\ turn' = Quiet(turn.n)
    /\ UNCHANGED <<vars, enforcing, changes>>

\* The reply is the model's last completion; of a turn whose loop is used up
\* it is Python's, and is judged like any other.
Answers ==
    /\ narrator = "talking"
    /\ Delivered \/ Withheld
    /\ Ends("idle")

\* Fault: only a turn that was answered is recorded.
ModelGoesUnrecorded ==
    /\ narrator = "talking" /\ turn.left > 0
    /\ shown' \in {shown} \cup (IF turn.streamed THEN {shown \cup {turn.n}} ELSE {})
    /\ Ends("gone")
    /\ UNCHANGED <<messages, lines, raised>>

\* ModelUnavailable, at any question of the turn and with any part of an
\* answer streamed: the front end drops the narrator.
ModelGoes ==
    /\ narrator = "talking" /\ turn.left > 0
    /\ Line("unavailable")
    /\ shown' \in {shown} \cup (IF turn.streamed THEN {shown \cup {turn.n}} ELSE {})
    /\ Ends("gone")
    /\ UNCHANGED messages

\* Anything else that is raised, by the transport, by a tool that quotes, by the
\* append of the line: the turn is lost and the narrator goes on.  The calls of
\* the completion in progress are not reported, and a withheld exchange may be
\* gone already.  In the opening it ends the run.
TurnRaises ==
    /\ narrator = "talking"
    /\ \E told \in turn.before .. Len(messages) : messages' = SubSeq(messages, 1, told)
    /\ shown' \in {shown} \cup (IF turn.streamed THEN {shown \cup {turn.n}} ELSE {})
    /\ raised' = raised \cup {turn.n}
    /\ Ends(IF turn.n = 1 THEN "failed" ELSE "idle")
    /\ UNCHANGED lines
-----------------------------------------------------------------------------
\* The operator's own moves: any step of the session, by a button.
Operator ==
    /\ narrator \in {"idle", "gone"} \/ (turn.streamed /\ ~turn.read)
    /\ Next
    /\ UNCHANGED voiceVars

Tools == {"read_manifest", "propose_edit", "confirm_edit"}

ConversationNext ==
    \/ Open \/ Say \/ LeaveAlone
    \/ \E tool \in Tools : CallsForNothing(tool)
    \/ \E e \in Edit : CallsPropose(e)
    \/ CallsConfirm
    \/ Answers \/ ModelGoes \/ TurnRaises
    \/ Operator

ConversationSpec == ConversationInit /\ [][ConversationNext]_allVars
-----------------------------------------------------------------------------
(* Properties.                                                             *)

Change == [turn : 1 .. MaxTurns, tool : Tools, edit : Edit]

ConversationTypeOK ==
    /\ TypeOK
    /\ narrator \in {"new", "idle", "talking", "gone", "failed"}
    /\ enforcing \in BOOLEAN
    /\ turn \in [n : 0 .. MaxTurns, before : Nat, left : 0 .. MaxIterations,
                 called : SUBSET Tools, streamed : BOOLEAN, read : BOOLEAN]
    /\ messages \in Seq(Change)
    /\ lines \subseteq [turn : 1 .. MaxTurns, called : SUBSET Tools,
                        outcome : {"findings", "clean", "suppressed", "unavailable"}]
    /\ raised \subseteq 1 .. MaxTurns
    /\ changes \subseteq Change
    /\ shown \subseteq 1 .. MaxTurns

Over(n) == n # turn.n \/ narrator # "talking"

\* Every change a tool made to the plan, a run-wide one the model confirmed on
\* its own included, can be told from the operator's afterwards: once its turn
\* is over the ledger has a line for that turn that names the tool, also when
\* the reply was withheld, the model died or the loop was used up; only a turn
\* that raised has none
\* (Narrator._record, "only a per-turn line can say which happened").
ToolsAreTraced ==
    \A c \in changes : Over(c.turn) =>
        \/ \E l \in lines : l.turn = c.turn /\ c.tool \in l.called
        \/ c.turn \in raised

\* A reply the guard withheld was not already on the operator's screen: the
\* choice to stream is made before the turn and the judge is looked up after
\* it (Narrator.say, ScopeGuard.enforcing).
NothingWithheldWasShown ==
    \A l \in lines : l.outcome = "suppressed" => l.turn \notin shown

\* The model knows of every change its tools made, whatever came of the turn,
\* except of those of a turn that was withheld or raised: neither takes anything
\* of an earlier turn with it, and the turn that follows is told the rest
\* (Narrator.say, `del self.messages[before:]`).
ForgetsOnlyWhatWasWithheld ==
    \A c \in changes :
        \/ \E i \in DOMAIN messages : messages[i] = c
        \/ \E l \in lines : l.turn = c.turn /\ l.outcome = "suppressed"
        \/ c.turn \in raised
=============================================================================
