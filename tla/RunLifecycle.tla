---------------------------- MODULE RunLifecycle ----------------------------
(***************************************************************************)
(* A run from A1 to its close, and what it leaves on disk: the snapshot of *)
(* the agents' instructions (agent_configs.py), the run row that opens at  *)
(* A1 and is completed append by append (run.py, plan.py, review.py), the  *)
(* capability evaluations (capabilities.py), and a line for every          *)
(* invocation of a model (B1, B3, D1, the narrator).                       *)
(*                                                                         *)
(* Runs follow each other on one snapshot, online or offline, and each may *)
(* break off anywhere: an append fails, a model is gone, the process dies. *)
(* A console may be edited at any time, so what LaunchDarkly serves is a   *)
(* new choice at every fetch and every evaluation.  A line carries its     *)
(* run's id and no later run touches it, so the ledger of this module is   *)
(* the one of the run in progress.                                         *)
(*                                                                         *)
(* Of a config the module keeps which text it has, and that the text       *)
(* belongs to a variation: two texts of one variation are that variation   *)
(* before and after an edit.  A config that cannot be used is taken to be  *)
(* a variation of its own, and one without a model in it is a model that   *)
(* cannot be invoked.  The lines of the scope guard's judge are left out:  *)
(* no config of the run is behind them.                                    *)
(***************************************************************************)
EXTENDS Integers, FiniteSets

CONSTANTS
    Texts,     \* the instruction templates that are served or cached
    Variation, \* the variation key of each
    Mistooled, \* those that declare a tool Python does not offer
    MaxImages, \* bound: the screenshots of a run
    Consoles,  \* bound: what LaunchDarkly serves to the fetches of one A1
    Off,       \* a config that is disabled, or has no instructions
    Missing,   \* LaunchDarkly's default, or no LaunchDarkly
    None

\* LD_CONFIGURED_KEYS: B1, B3, D1 and D2's voice.
Extraction == "screenshot-extraction"
Repairer == "address-repair"
Verifier == "manifest-verification"
Voice == "review-narrator"
AgentKeys == {Extraction, Repairer, Verifier, Voice}

\* CAPABILITIES: the values of each, and the one that stands in.
Modes == [planner |-> {"off", "shadow", "on"},
          validation |-> {"off", "standard", "strict"},
          verification |-> {"off", "on"}]
Default == [planner |-> "off", validation |-> "standard", verification |-> "off"]
Capabilities == DOMAIN Modes
Values == UNION {Modes[c] : c \in Capabilities}

Answers == Texts \cup {Off, Missing}
Console == [agents : [AgentKeys -> Answers], images : [1 .. MaxImages -> Answers]]

\* The value each capability was found to have, None before it is asked for.
Valuation == [Capabilities -> Values \cup {None}]

\* RunRecord, of the folded ledger: the keys of evaluation_reasons, those of
\* its `capabilities`, and cap_snapshot.
Row == [reasons : SUBSET {"kill_switch", "screenshots", "planning", "repair_unavailable",
                          "terminal_state"},
        known : SUBSET Capabilities,
        caps : Valuation \cup {None}]

ASSUME LifecycleAssumption ==
    /\ Mistooled \subseteq Texts
    /\ DOMAIN Variation = Texts
    /\ MaxImages \in Nat
    /\ Consoles \subseteq Console
    /\ {Off, Missing, None} \cap Texts = {}
    /\ Off # Missing
    /\ None \notin {Variation[t] : t \in Texts}
    /\ None \notin Values \cup Valuation \cup Row

VARIABLES
    snapshot,    \* the file's entries by agent key
    archive,     \* its entries `screenshot-extraction#variation`, by variation
    committed,   \* history: every entry that was ever in the file
    run,         \* the run in progress: how far it is and what it holds
    row,         \* its row in the folded ledger, None until it is opened
    evaluations, \* its capability lines: the values recorded for each
    lines        \* its invocation lines

vars == <<snapshot, archive, committed, run, row, evaluations, lines>>

\* An unreadable file reads as an empty one.
Empty(keys) == [k \in keys |-> None]

\* An AgentConfig: its text, None if it is not available; and what
\* LaunchDarkly answered to the fetch.
Config == [text : Texts \cup {None}, answer : Answers]
Available(config) == config.text # None

NoRun == [pc |-> "over", connected |-> FALSE, depth |-> "plan", images |-> 0, read |-> 0,
          agents |-> [k \in AgentKeys |-> [text |-> None, answer |-> Missing]],
          perImage |-> [i \in 1 .. MaxImages |-> [text |-> None, answer |-> Missing]],
          values |-> Empty(Capabilities), repair |-> "none"]

Init ==
    /\ snapshot = Empty(AgentKeys)
    /\ archive = Empty({Variation[t] : t \in Texts})
    /\ committed = {}
    /\ run = NoRun
    /\ row = None
    /\ evaluations = [c \in Capabilities |-> {}]
    /\ lines = {}
-----------------------------------------------------------------------------
(* A1.                                                                     *)

\* Fault: whatever is not usable falls through to the cache.
ChainedWhole(key, answer) ==
    [text |-> IF answer \in Texts THEN answer ELSE snapshot[key], answer |-> answer]

\* ChainedAgentConfigs.fetch: a disabled config is LaunchDarkly's answer, and
\* only its silence falls through to the cache.
Chained(key, answer) ==
    [text |-> IF answer \in Texts THEN answer ELSE IF answer = Off THEN None ELSE snapshot[key],
     answer |-> answer]

\* fetch_agent_configs, fetch_extraction_configs: offline nothing is served.
Fetched(console) ==
    LET served(answer) == IF run.connected THEN answer ELSE Missing
        image(i) == IF i =< run.images THEN served(console.images[i]) ELSE Missing
    IN  [run EXCEPT !.agents = [k \in AgentKeys |-> Chained(k, served(console.agents[k]))],
                    !.perImage = [i \in 1 .. MaxImages |-> Chained(Extraction, image(i))]]

VariationOf(config) == IF Available(config) THEN Variation[config.text] ELSE None

\* Fault: the run-wide config is the only one kept.
ArchivedNone(r) == {}

\* archived_variations: the images whose config the canonical entry does not
\* hold.  One entry per variation, and the last image has it.
Archived(r) ==
    {i \in 1 .. r.images :
        /\ Available(r.perImage[i])
        /\ VariationOf(r.perImage[i]) # VariationOf(r.agents[Extraction])
        /\ \A j \in i + 1 .. r.images : VariationOf(r.perImage[j]) # VariationOf(r.perImage[i])}

\* assert_tool_contract.
ContractHolds(r) ==
    /\ \A k \in AgentKeys : r.agents[k].text \notin Mistooled
    /\ \A i \in Archived(r) : r.perImage[i].text \notin Mistooled

AnyAvailable(r) == \E k \in AgentKeys : Available(r.agents[k])

\* open_run, up to the client: the options and the screenshots are settled.
Begin ==
    /\ run.pc = "over"
    /\ \E connected \in BOOLEAN, depth \in {"plan", "extract"}, images \in 0 .. MaxImages :
          run' = [NoRun EXCEPT !.pc = "fetch", !.connected = connected, !.depth = depth,
                               !.images = images]
    /\ row' = None
    /\ evaluations' = [c \in Capabilities |-> {}]
    /\ lines' = {}
    /\ UNCHANGED <<snapshot, archive, committed>>

\* initialize_run, up to its first write.  A kill switch that is on (BreaksOff)
\* and a tool contract that does not hold leave nothing behind.
Fetch ==
    /\ run.pc = "fetch"
    /\ \E console \in Consoles :
          LET fetched == Fetched(console)
          IN  run' = [fetched EXCEPT !.pc = IF ~ContractHolds(fetched) THEN "over"
                                            ELSE IF AnyAvailable(fetched) THEN "snapshot"
                                            ELSE "row"]
    /\ UNCHANGED <<snapshot, archive, committed, row, evaluations, lines>>

\* Fault: what came back unavailable is written like the rest.
MergedWhole == [k \in AgentKeys |-> run.agents[k].text]

\* write_snapshot: usable configs over the entries that are there.
Merged ==
    [k \in AgentKeys |-> IF Available(run.agents[k]) THEN run.agents[k].text ELSE snapshot[k]]

MergedArchive ==
    [v \in DOMAIN archive |->
        IF \E i \in Archived(run) : VariationOf(run.perImage[i]) = v
        THEN run.perImage[CHOOSE i \in Archived(run) : VariationOf(run.perImage[i]) = v].text
        ELSE archive[v]]

WriteSnapshot ==
    /\ run.pc = "snapshot"
    /\ snapshot' = Merged
    /\ archive' = MergedArchive
    /\ committed' = committed \cup {<<k, Merged[k]>> : k \in {k \in AgentKeys : Merged[k] # None}}
                              \cup {<<Extraction, MergedArchive[v]>> :
                                        v \in {v \in DOMAIN archive : MergedArchive[v] # None}}
    /\ run' = [run EXCEPT !.pc = "row"]
    /\ UNCHANGED <<row, evaluations, lines>>

\* The file is rewritten in place, and not at all if it would not change.
TearSnapshot ==
    /\ run.pc = "snapshot"
    /\ <<Merged, MergedArchive>> # <<snapshot, archive>>
    /\ snapshot' = Empty(AgentKeys)
    /\ archive' = Empty(DOMAIN archive)
    /\ run' = [run EXCEPT !.pc = "over"]
    /\ UNCHANGED <<committed, row, evaluations, lines>>

\* Run.evaluation_reasons: what A1 settled, and the capabilities known so far.
Known == {c \in Capabilities : run.values[c] # None}
Reasons(extra) == [row EXCEPT !.reasons = {"kill_switch"} \cup extra, !.known = Known]

\* The row is appended last.
OpenRow ==
    /\ run.pc = "row"
    /\ row' = [reasons |-> {"kill_switch"}, known |-> {}, caps |-> None]
    /\ run' = [run EXCEPT !.pc = "roster"]
    /\ UNCHANGED <<snapshot, archive, committed, evaluations, lines>>
-----------------------------------------------------------------------------
(* The stages.                                                             *)

\* record_agent_invocation, of the config captured at A1.
Invoked(key, config, image) ==
    /\ Available(config)
    /\ lines' = lines \cup {[agent |-> key, image |-> image, text |-> config.text,
                             answer |-> config.answer]}

\* B1 has read an image, or given it up as unreadable.
ReadImage ==
    /\ run.pc = "roster" /\ run.read < run.images
    /\ Invoked(Extraction, run.perImage[run.read + 1], run.read + 1)
    /\ run' = [run EXCEPT !.read = @ + 1]
    /\ UNCHANGED <<snapshot, archive, committed, row, evaluations>>

\* extract_with stops here; the row learns which screenshots were read.
Extracted ==
    /\ run.pc = "roster" /\ run.read = run.images /\ run.images > 0
    /\ run.depth = "extract"
    /\ row' = Reasons({"screenshots"})
    /\ run' = [run EXCEPT !.pc = "over"]
    /\ UNCHANGED <<snapshot, archive, committed, evaluations, lines>>

BuildRoster ==
    /\ run.pc = "roster" /\ run.read = run.images
    /\ run.depth = "plan"
    /\ run' = [run EXCEPT !.pc = "validation"]
    /\ UNCHANGED <<snapshot, archive, committed, row, evaluations, lines>>

\* evaluate_capability: what is served and is no value becomes the default,
\* and so does everything offline.
Evaluated(c) == IF run.connected THEN Modes[c] ELSE {Default[c]}

After(pc) ==
    CASE pc = "validation" -> "verification"
      [] pc = "verification" -> "planner"
      [] pc = "planner" -> "repair"

\* Fault: a value that could not be recorded is used all the same.
EvaluateQuietly(c) ==
    /\ run.pc = c
    /\ \E value \in Evaluated(c) :
          /\ evaluations' \in {evaluations, [evaluations EXCEPT ![c] = @ \cup {value}]}
          /\ run' = [run EXCEPT !.values[c] = value, !.pc = After(c)]
    /\ UNCHANGED <<snapshot, archive, committed, row, lines>>

\* Run._evaluate, where plan_with first asks: the later calls, plan_run's and
\* D1's, find the value cached.
Evaluate(c) ==
    /\ run.pc = c
    /\ \E value \in Evaluated(c) :
          /\ evaluations' = [evaluations EXCEPT ![c] = @ \cup {value}]
          /\ run' = [run EXCEPT !.values[c] = value, !.pc = After(c)]
    /\ UNCHANGED <<snapshot, archive, committed, row, lines>>

\* Asked: B3 has a mode, a model, and somebody to repair.
RepairAsked == run.values.planner # "off" /\ run.images > 0

Repair ==
    /\ run.pc = "repair" /\ RepairAsked
    /\ Invoked(Repairer, run.agents[Repairer], None)
    /\ run' = [run EXCEPT !.pc = "record", !.repair = "done"]
    /\ UNCHANGED <<snapshot, archive, committed, row, evaluations>>

\* There is nobody to repair, or B3 cannot finish.
NoRepair ==
    /\ run.pc = "repair"
    /\ \E outcome \in IF RepairAsked THEN {"none", "unavailable"} ELSE {"none"} :
          run' = [run EXCEPT !.pc = "record", !.repair = outcome]
    /\ UNCHANGED <<snapshot, archive, committed, row, evaluations, lines>>

\* _record_planning.
RecordPlanning ==
    /\ run.pc = "record"
    /\ row' = [Reasons({"planning"}
                       \cup (IF run.images > 0 THEN {"screenshots"} ELSE {})
                       \cup (IF run.repair = "unavailable" THEN {"repair_unavailable"} ELSE {}))
               EXCEPT !.caps = run.values]
    /\ run' = [run EXCEPT !.pc = "verify"]
    /\ UNCHANGED <<snapshot, archive, committed, evaluations, lines>>

\* verify_manifest, with an answer, parsed or not.
Verify ==
    /\ run.pc = "verify" /\ run.values.verification = "on"
    /\ Invoked(Verifier, run.agents[Verifier], None)
    /\ run' = [run EXCEPT !.pc = "review"]
    /\ UNCHANGED <<snapshot, archive, committed, row, evaluations>>

\* There is no manifest, and no review either; or D1 is off or unavailable.
NoVerify ==
    /\ run.pc = "verify"
    /\ \E pc \in {"over", "review"} : run' = [run EXCEPT !.pc = pc]
    /\ UNCHANGED <<snapshot, archive, committed, row, evaluations, lines>>

\* A turn of the narrator (module Conversation).
Narrate ==
    /\ run.pc = "review"
    /\ Invoked(Voice, run.agents[Voice], None)
    /\ UNCHANGED <<snapshot, archive, committed, run, row, evaluations>>

\* ReviewSession._close.
Close ==
    /\ run.pc = "review"
    /\ row' = Reasons({"terminal_state"})
    /\ run' = [run EXCEPT !.pc = "over"]
    /\ UNCHANGED <<snapshot, archive, committed, evaluations, lines>>

\* The kill switch, anything that raises, and a crash.  An append that fails
\* has left no line.
BreaksOff ==
    /\ run.pc # "over"
    /\ run' = [run EXCEPT !.pc = "over"]
    /\ UNCHANGED <<snapshot, archive, committed, row, evaluations, lines>>

Next ==
    \/ Begin \/ Fetch \/ WriteSnapshot \/ TearSnapshot \/ OpenRow
    \/ ReadImage \/ Extracted \/ BuildRoster
    \/ \E c \in Capabilities : Evaluate(c)
    \/ Repair \/ NoRepair \/ RecordPlanning \/ Verify \/ NoVerify
    \/ Narrate \/ Close \/ BreaksOff

Spec == Init /\ [][Next]_vars
-----------------------------------------------------------------------------
(* Properties.                                                             *)

Pcs == {"over", "fetch", "snapshot", "row", "roster", "repair", "record", "verify", "review"} \cup Capabilities

RunState ==
    [pc : Pcs, connected : BOOLEAN, depth : {"plan", "extract"},
     images : 0 .. MaxImages, read : 0 .. MaxImages,
     agents : [AgentKeys -> Config], perImage : [1 .. MaxImages -> Config],
     values : Valuation, repair : {"none", "done", "unavailable"}]

TypeOK ==
    /\ snapshot \in [AgentKeys -> Texts \cup {None}]
    /\ archive \in [{Variation[t] : t \in Texts} -> Texts \cup {None}]
    /\ committed \subseteq AgentKeys \X Texts
    /\ run \in RunState
    /\ row \in Row \cup {None}
    /\ evaluations \in [Capabilities -> SUBSET Values]
    /\ lines \subseteq [agent : AgentKeys, image : 1 .. MaxImages \cup {None},
                        text : Texts, answer : Answers]

\* The exceptions to HashesResolve, both of B1: no run-wide config of the run
\* was usable, so nothing was written; or the variation's text was changed
\* between two fetches of one A1, and the file holds the other one.
WithoutAnEntry(line) ==
    /\ line.agent = Extraction
    /\ \/ ~AnyAvailable(run)
       \/ \E other \in {run.agents[Extraction]} \cup {run.perImage[i] : i \in 1 .. run.images} :
             /\ other.text # line.text
             /\ VariationOf(other) = Variation[line.text]

\* Every invocation of one of the run's agents ran on a text that the committed
\* snapshot holds or held, whichever of several variations an image was served, online
\* or from the cache, also after the file was torn and written again
\* (archived_variations: "the instruction hash on a ledger line join[s] to the
\* committed snapshot with no network call").
HashesResolve ==
    \A l \in lines : <<l.agent, l.text>> \in committed \/ WithoutAnEntry(l)

\* An agent runs on what LaunchDarkly served at A1, and on a cached text only
\* if LaunchDarkly had nothing to say: one that was switched off is not
\* brought back by an older run's cache (ChainedAgentConfigs).
NothingIsRevived == \A l \in lines : l.answer \in {l.text, Missing}

\* The row accounts for the run.  No line is without a row; the row keeps what
\* A1 recorded through every later append; the capabilities on it are each the
\* one value that was evaluated; and D1 and B3 ran only if the recorded modes
\* let them (Run._evaluate, record_run_reasons, _record_planning, _close).
TheRowIsExplained ==
    /\ row = None => lines = {} /\ \A c \in Capabilities : evaluations[c] = {}
    /\ row # None => "kill_switch" \in row.reasons
    /\ row # None /\ row.caps # None =>
          /\ row.known = Capabilities
          /\ \A c \in Capabilities : evaluations[c] = {row.caps[c]}
    /\ \A l \in lines :
          /\ l.agent = Verifier => row.caps # None /\ row.caps.verification = "on"
          /\ l.agent = Repairer => evaluations.planner \notin {{}, {"off"}}

\* A fallback is never taken away by a run that came back with less: only the
\* tearing of the file loses an entry (write_snapshot, "would destroy the
\* fallback exactly when it is needed").
FallbackIsKept ==
    [][(\A k \in AgentKeys : snapshot[k] # None => snapshot'[k] # None) \/ TearSnapshot]_vars
=============================================================================
