------------------------- MODULE RunLifecycleProofs -------------------------
(***************************************************************************)
(* What a run leaves on disk, for any texts and variations, any number of  *)
(* screenshots and runs, and whatever LaunchDarkly serves to each fetch.   *)
(***************************************************************************)
EXTENDS RunLifecycle, WellFoundedInduction, TLAPS

\* A usable config is LaunchDarkly's answer, or the cache's for want of one.
Sound(config) == Available(config) => config.answer \in {config.text, Missing}

ConfigsAreSound ==
    /\ \A k \in AgentKeys : Sound(run.agents[k])
    /\ \A i \in 1 .. MaxImages : Sound(run.perImage[i])
    /\ NothingIsRevived

BeforeTheRow == {"fetch", "snapshot", "row"}
AfterTheRow == {"roster", "repair", "record", "verify", "review"} \cup Capabilities

\* What each evaluation has recorded is what the run holds.
RecordedIsHeld ==
    \A c \in Capabilities : evaluations[c] = IF run.values[c] = None THEN {} ELSE {run.values[c]}

\* The capabilities are asked for in turn, and each once.
AskedInTurn ==
    /\ run.pc \in BeforeTheRow \cup {"roster", "validation"} => Known = {}
    /\ run.pc = "verification" => Known = {"validation"}
    /\ run.pc = "planner" => Known = {"validation", "verification"}
    /\ run.pc \in {"repair", "record", "verify", "review"} => Known = Capabilities

RowFollows ==
    /\ run.pc \in BeforeTheRow => row = None
    /\ run.pc \in AfterTheRow => row # None
    /\ run.pc \in {"verify", "review"} => row.caps # None
    /\ row = None => lines = {} /\ Known = {}
    /\ row # None => "kill_switch" \in row.reasons
    /\ row # None /\ row.caps # None =>
          row.caps = run.values /\ row.known = Capabilities /\ Known = Capabilities

StagesAreGated ==
    \A l \in lines :
        /\ l.agent = Verifier => row.caps # None /\ row.caps.verification = "on"
        /\ l.agent = Repairer => run.values.planner \notin {"off", None}

RowInv == RecordedIsHeld /\ AskedInTurn /\ RowFollows /\ StagesAreGated

\* Every entry of the file has been in it.
FileIsCommitted ==
    /\ \A k \in AgentKeys : snapshot[k] # None => <<k, snapshot[k]>> \in committed
    /\ \A v \in DOMAIN archive : archive[v] # None => <<Extraction, archive[v]>> \in committed

\* Once the snapshot is written, so has what the run's agents run on.
CapturedIsCommitted ==
    run.pc \in AfterTheRow \cup {"row"} =>
        /\ \A k \in AgentKeys :
              Available(run.agents[k]) => <<k, run.agents[k].text>> \in committed
        /\ \A i \in 1 .. run.images : Available(run.perImage[i]) =>
              \/ <<Extraction, run.perImage[i].text>> \in committed
              \/ WithoutAnEntry([agent |-> Extraction, image |-> i,
                                 text |-> run.perImage[i].text,
                                 answer |-> run.perImage[i].answer])

TextInv == FileIsCommitted /\ CapturedIsCommitted /\ HashesResolve
-----------------------------------------------------------------------------
(* Types.                                                                  *)

\* The capabilities, by name.
LEMMA CapabilityNames ==
  /\ Capabilities = {"planner", "validation", "verification"}
  /\ Modes.planner = {"off", "shadow", "on"}
  /\ \A c \in Capabilities : Modes[c] \subseteq Values /\ Default[c] \in Values
BY DEF Capabilities, Modes, Values, Default

LEMMA Constants ==
  /\ None \notin Texts /\ None \notin Values /\ None \notin Valuation /\ None \notin Row
  /\ Off \notin Texts /\ Missing \notin Texts /\ Off # Missing
  /\ \A t \in Texts : Variation[t] # None
  /\ Consoles \subseteq Console /\ MaxImages \in Nat
BY LifecycleAssumption

\* The chain answers with a config.
LEMMA ChainedType ==
  ASSUME TypeOK, NEW k \in AgentKeys, NEW answer \in Answers
  PROVE  Chained(k, answer) \in Config /\ Sound(Chained(k, answer))
BY Constants DEF TypeOK, RunState, Chained, Config, Answers, Sound, Available

LEMMA FetchedType ==
  ASSUME TypeOK, NEW console \in Console
  PROVE  /\ Fetched(console).agents \in [AgentKeys -> Config]
         /\ Fetched(console).perImage \in [1 .. MaxImages -> Config]
         /\ \A k \in AgentKeys : Sound(Fetched(console).agents[k])
         /\ \A i \in 1 .. MaxImages : Sound(Fetched(console).perImage[i])
<1> DEFINE served(answer) == IF run.connected THEN answer ELSE Missing
           image(i) == IF i =< run.images THEN served(console.images[i]) ELSE Missing
           agents == [k \in AgentKeys |-> Chained(k, served(console.agents[k]))]
           perImage == [i \in 1 .. MaxImages |-> Chained(Extraction, image(i))]
<1>1. Fetched(console).agents = agents /\ Fetched(console).perImage = perImage
  BY DEF Fetched, TypeOK, RunState
<1>2. \A k \in AgentKeys : served(console.agents[k]) \in Answers
  BY DEF Console, Answers
<1>3. \A i \in 1 .. MaxImages : image(i) \in Answers
  BY DEF Console, Answers
<1>4. Extraction \in AgentKeys
  BY DEF AgentKeys
<1> HIDE DEF served, image
<1>5. QED
  BY <1>1, <1>2, <1>3, <1>4, ChainedType

\* The run Fetch leaves: the one it found, with the configs of one console.
LEMMA FetchLeaves ==
  ASSUME TypeOK, Fetch
  PROVE  \E console \in Console :
           \E pc \in {"over", "snapshot", "row"} :
             /\ run' = [Fetched(console) EXCEPT !.pc = pc]
             /\ run' = [run EXCEPT !.agents = Fetched(console).agents,
                                   !.perImage = Fetched(console).perImage, !.pc = pc]
             /\ pc = "row" => ~AnyAvailable(Fetched(console))
             /\ pc = "snapshot" => AnyAvailable(Fetched(console))
<1>1. PICK console \in Consoles :
        run' = [Fetched(console) EXCEPT !.pc = IF ~ContractHolds(Fetched(console)) THEN "over"
                                            ELSE IF AnyAvailable(Fetched(console)) THEN "snapshot"
                                            ELSE "row"]
  BY DEF Fetch
<1> DEFINE f == Fetched(console)
           pc == IF ~ContractHolds(f) THEN "over" ELSE IF AnyAvailable(f) THEN "snapshot" ELSE "row"
<1>2. console \in Console
  BY Constants
<1>3. f = [run EXCEPT !.agents = f.agents, !.perImage = f.perImage]
  BY DEF Fetched, TypeOK, RunState
<1>4. run' = [f EXCEPT !.pc = pc]
  BY <1>1
<1>5. pc \in {"over", "snapshot", "row"} /\ (pc = "row" => ~AnyAvailable(f))
      /\ (pc = "snapshot" => AnyAvailable(f))
  OBVIOUS
<1> HIDE DEF f, pc
<1>6. run' = [run EXCEPT !.agents = f.agents, !.perImage = f.perImage, !.pc = pc]
  BY <1>3, <1>4 DEF TypeOK, RunState
<1>7. QED
  BY <1>2, <1>4, <1>5, <1>6 DEF f
-----------------------------------------------------------------------------
(* The row.                                                                *)

IInv == TypeOK /\ RowInv

LEMMA NoRunType == NoRun \in RunState
BY CapabilityNames, Constants DEF NoRun, RunState, Empty, Pcs, Config, Answers, Valuation

LEMMA InitRow == Init => IInv
<1> SUFFICES ASSUME Init PROVE IInv
  OBVIOUS
<1> USE CapabilityNames, Constants DEF Init
<1>1. NoRun.values = [c \in Capabilities |-> None] /\ NoRun.pc = "over"
  BY DEF NoRun, Empty
<1>2. run \in RunState
  BY NoRunType
<1>3. TypeOK
  BY <1>2 DEF TypeOK, RunState, Empty
<1>4. Known = {}
  BY <1>1 DEF Known
<1>5. RowInv
  BY <1>1, <1>4 DEF RowInv, RecordedIsHeld, AskedInTurn, RowFollows, StagesAreGated,
                    BeforeTheRow, AfterTheRow
<1>6. QED
  BY <1>3, <1>5 DEF IInv

\* What the reasons of an append are, of a row that is open.
LEMMA ReasonsType ==
  ASSUME row \in Row,
         NEW extra \in SUBSET {"screenshots", "planning", "repair_unavailable", "terminal_state"}
  PROVE  /\ Reasons(extra) \in Row
         /\ Reasons(extra).caps = row.caps
         /\ Reasons(extra).known = Known
         /\ "kill_switch" \in Reasons(extra).reasons
BY DEF Reasons, Row, Known

\* A step that leaves the values and the evaluations alone.
LEMMA SameValues ==
  ASSUME RecordedIsHeld, run'.values = run.values, UNCHANGED evaluations
  PROVE  RecordedIsHeld' /\ Known' = Known
BY DEF RecordedIsHeld, Known

LEMMA BeginRow ==
  ASSUME IInv, Begin
  PROVE  IInv'
<1> USE CapabilityNames, Constants
<1>1. PICK connected \in BOOLEAN, depth \in {"plan", "extract"}, images \in 0 .. MaxImages :
        run' = [NoRun EXCEPT !.pc = "fetch", !.connected = connected, !.depth = depth,
                             !.images = images]
  BY DEF Begin
<1>2. run'.values = [c \in Capabilities |-> None] /\ run'.pc = "fetch"
  BY <1>1 DEF NoRun, Empty
<1>3. run' \in RunState
  BY <1>1, NoRunType, Zenon DEF RunState, Pcs
<1>4. TypeOK'
  BY <1>3 DEF IInv, TypeOK, Begin
<1>5. Known' = {}
  BY <1>2 DEF Known
<1>6. RowInv'
  BY <1>2, <1>5 DEF RowInv, RecordedIsHeld, AskedInTurn, RowFollows, StagesAreGated,
                    BeforeTheRow, AfterTheRow, Begin
<1>7. QED
  BY <1>4, <1>6 DEF IInv

LEMMA FetchRow ==
  ASSUME IInv, Fetch
  PROVE  IInv'
<1> USE DEF IInv
<1>1. PICK console \in Console, pc \in {"over", "snapshot", "row"} :
        run' = [run EXCEPT !.agents = Fetched(console).agents,
                           !.perImage = Fetched(console).perImage, !.pc = pc]
  BY FetchLeaves
<1>2. TypeOK'
  BY <1>1, FetchedType DEF TypeOK, RunState, Fetch, Pcs
<1>3. run'.values = run.values /\ run'.pc = pc /\ run.pc = "fetch"
  BY <1>1 DEF TypeOK, RunState, Fetch
<1>4. RecordedIsHeld' /\ Known' = Known
  BY <1>3, SameValues DEF RowInv, Fetch
<1>5. RowInv'
  BY <1>3, <1>4, CapabilityNames
     DEF RowInv, AskedInTurn, RowFollows, StagesAreGated, BeforeTheRow, AfterTheRow, Fetch
<1>6. QED
  BY <1>2, <1>5

\* The writes of the snapshot leave the row alone.
LEMMA SnapshotRow ==
  ASSUME IInv, WriteSnapshot \/ TearSnapshot
  PROVE  IInv'
<1> USE DEF IInv
<1>1. run' = [run EXCEPT !.pc = "row"] \/ run' = [run EXCEPT !.pc = "over"]
  BY DEF WriteSnapshot, TearSnapshot
<1>2. /\ run'.values = run.values /\ run'.pc \in {"row", "over"} /\ run.pc = "snapshot"
      /\ UNCHANGED <<row, evaluations, lines>>
  BY <1>1 DEF TypeOK, RunState, WriteSnapshot, TearSnapshot
<1>3. /\ Merged \in [AgentKeys -> Texts \cup {None}]
      /\ MergedArchive \in [DOMAIN archive -> Texts \cup {None}]
  <2>1. Merged \in [AgentKeys -> Texts \cup {None}]
    BY DEF TypeOK, RunState, Merged, Config
  <2>2. ASSUME NEW v \in DOMAIN archive
        PROVE  MergedArchive[v] \in Texts \cup {None}
    <3>1. CASE \E i \in Archived(run) : VariationOf(run.perImage[i]) = v
      <4>1. PICK i \in Archived(run) : MergedArchive[v] = run.perImage[i].text
        BY <3>1 DEF MergedArchive
      <4>2. i \in 1 .. MaxImages
        BY <4>1, Constants DEF Archived, TypeOK, RunState
      <4>3. QED
        BY <4>1, <4>2 DEF TypeOK, RunState, Config
    <3>2. CASE ~\E i \in Archived(run) : VariationOf(run.perImage[i]) = v
      BY <3>2 DEF MergedArchive, TypeOK, RunState
    <3>3. QED
      BY <3>1, <3>2
  <2>3. QED
    BY <2>1, <2>2 DEF MergedArchive
<1>4. /\ snapshot' \in [AgentKeys -> Texts \cup {None}]
      /\ archive' \in [{Variation[t] : t \in Texts} -> Texts \cup {None}]
  BY <1>3 DEF WriteSnapshot, TearSnapshot, Empty, TypeOK, RunState
<1>5. committed' \subseteq AgentKeys \X Texts
  <2>1. CASE WriteSnapshot
    BY <2>1, <1>3 DEF WriteSnapshot, TypeOK, RunState, AgentKeys
  <2>2. CASE TearSnapshot
    BY <2>2 DEF TearSnapshot, TypeOK, RunState
  <2>3. QED
    BY <2>1, <2>2
<1>6. TypeOK'
  BY <1>1, <1>2, <1>4, <1>5 DEF TypeOK, RunState, Pcs
<1>7. RecordedIsHeld' /\ Known' = Known
  BY <1>2, SameValues DEF RowInv
<1>8. RowInv'
  BY <1>2, <1>7, CapabilityNames
     DEF RowInv, AskedInTurn, RowFollows, StagesAreGated, BeforeTheRow, AfterTheRow
<1>9. QED
  BY <1>6, <1>8

\* A step that only moves on, with the lines or without: its type.
LEMMA StageType ==
  ASSUME IInv, UNCHANGED <<snapshot, archive, committed>>, run' \in RunState,
         row' \in Row \cup {None}, evaluations' \in [Capabilities -> SUBSET Values],
         lines' \subseteq [agent : AgentKeys, image : 1 .. MaxImages \cup {None},
                           text : Texts, answer : Answers]
  PROVE  TypeOK'
BY DEF IInv, TypeOK

\* An invocation adds a line of the captured config.
LEMMA InvokedType ==
  ASSUME TypeOK, NEW key \in AgentKeys, NEW config \in Config,
         NEW image \in 1 .. MaxImages \cup {None}, Invoked(key, config, image)
  PROVE  /\ lines' \subseteq [agent : AgentKeys, image : 1 .. MaxImages \cup {None},
                              text : Texts, answer : Answers]
         /\ \A l \in lines' : l \in lines \/ (l.agent = key /\ l.text = config.text
                                             /\ l.answer = config.answer /\ l.image = image)
BY DEF TypeOK, Invoked, Config, Available

LEMMA OpenRowRow ==
  ASSUME IInv, OpenRow
  PROVE  IInv'
<1> USE DEF IInv
<1>1. run' \in RunState /\ run'.values = run.values /\ run'.pc = "roster" /\ run.pc = "row"
  BY DEF TypeOK, RunState, Pcs, OpenRow
<1>2. row' \in Row /\ row'.caps = None /\ "kill_switch" \in row'.reasons
  BY DEF OpenRow, Row
<1>3. row' # None
  BY <1>2, Constants
<1>4. TypeOK'
  BY <1>1, <1>2, StageType DEF OpenRow, TypeOK
<1>5. RecordedIsHeld' /\ Known' = Known
  BY <1>1, SameValues DEF RowInv, OpenRow
<1>6. lines' = {} /\ Known' = {}
  BY <1>1, <1>5 DEF RowInv, RowFollows, OpenRow, BeforeTheRow
<1>7. RowInv'
  BY <1>1, <1>2, <1>3, <1>5, <1>6, CapabilityNames
     DEF RowInv, AskedInTurn, RowFollows, StagesAreGated, BeforeTheRow, AfterTheRow
<1>8. QED
  BY <1>4, <1>7

LEMMA ReadImageRow ==
  ASSUME IInv, ReadImage
  PROVE  IInv'
<1> USE DEF IInv
<1>1. /\ run.pc = "roster" /\ run.read + 1 \in 1 .. MaxImages
      /\ run' = [run EXCEPT !.read = @ + 1]
      /\ UNCHANGED <<snapshot, archive, committed, row, evaluations>>
  BY Constants DEF ReadImage, TypeOK, RunState
<1>2. run' \in RunState /\ run'.values = run.values /\ run'.pc = "roster"
  BY <1>1 DEF TypeOK, RunState
<1>3. /\ run.perImage[run.read + 1] \in Config /\ Extraction \in AgentKeys
      /\ Invoked(Extraction, run.perImage[run.read + 1], run.read + 1)
  BY <1>1 DEF TypeOK, RunState, AgentKeys, ReadImage
<1>4. /\ lines' \subseteq [agent : AgentKeys, image : 1 .. MaxImages \cup {None},
                           text : Texts, answer : Answers]
      /\ \A l \in lines' : l \in lines \/ l.agent = Extraction
  BY <1>1, <1>3, InvokedType
<1>5. TypeOK'
  BY <1>1, <1>2, <1>4, StageType DEF TypeOK
<1>6. RecordedIsHeld' /\ Known' = Known
  BY <1>1, <1>2, SameValues DEF RowInv
<1>7. Extraction # Verifier /\ Extraction # Repairer
  BY DEF Extraction, Verifier, Repairer
<1>8. row # None
  BY <1>1 DEF RowInv, RowFollows, AfterTheRow
<1>9. RowInv'
  BY <1>1, <1>2, <1>4, <1>6, <1>7, <1>8, CapabilityNames
     DEF RowInv, AskedInTurn, RowFollows, StagesAreGated, BeforeTheRow, AfterTheRow
<1>10. QED
  BY <1>5, <1>9

\* The three appends that rewrite the reasons of an open row.
LEMMA AppendRow ==
  ASSUME IInv, Extracted \/ Close \/ RecordPlanning
  PROVE  IInv'
<1> USE DEF IInv
<1>1. /\ run' = [run EXCEPT !.pc = "over"] \/ run' = [run EXCEPT !.pc = "verify"]
      /\ run.pc \in AfterTheRow
      /\ UNCHANGED <<snapshot, archive, committed, evaluations, lines>>
  BY DEF Extracted, Close, RecordPlanning, AfterTheRow
<1>2. /\ run' \in RunState /\ run'.values = run.values /\ run'.pc \in {"over", "verify"}
  BY <1>1 DEF TypeOK, RunState, Pcs
<1>3. row \in Row /\ row # None
  BY <1>1 DEF TypeOK, RowInv, RowFollows
<1>4. RecordedIsHeld' /\ Known' = Known
  BY <1>1, <1>2, SameValues DEF RowInv
<1>5. CASE Extracted \/ Close
  <2>1. PICK e \in {"screenshots", "terminal_state"} : row' = Reasons({e})
    BY <1>5 DEF Extracted, Close
  <2>2. /\ row' \in Row /\ row'.caps = row.caps /\ row'.known = Known
        /\ "kill_switch" \in row'.reasons
    BY <2>1, <1>3, ReasonsType
  <2>3. row' # None
    BY <2>2, Constants
  <2>4. run'.pc = "over"
    BY <1>5 DEF Extracted, Close, TypeOK, RunState
  <2>5. TypeOK'
    BY <1>1, <1>2, <2>2, StageType DEF TypeOK
  <2>6. RowInv'
    BY <1>1, <1>2, <1>3, <1>4, <2>2, <2>3, <2>4, CapabilityNames
       DEF RowInv, AskedInTurn, RowFollows, StagesAreGated, BeforeTheRow, AfterTheRow
  <2>7. QED
    BY <2>5, <2>6
<1>6. CASE RecordPlanning
  <2>1. PICK e \in SUBSET {"screenshots", "planning", "repair_unavailable", "terminal_state"} :
          row' = [Reasons(e) EXCEPT !.caps = run.values]
    BY <1>6 DEF RecordPlanning
  <2>2. Reasons(e) \in Row /\ Reasons(e).known = Known /\ "kill_switch" \in Reasons(e).reasons
    BY <1>3, ReasonsType
  <2>3. run.values \in Valuation
    BY DEF TypeOK, RunState
  <2>4. /\ row' \in Row /\ row'.caps = run.values /\ row'.known = Known
        /\ "kill_switch" \in row'.reasons
    BY <2>1, <2>2, <2>3 DEF Row
  <2>5. row' # None /\ row'.caps # None
    BY <2>3, <2>4, Constants
  <2>6. run'.pc = "verify" /\ run.pc = "record" /\ Known = Capabilities
    BY <1>6 DEF RecordPlanning, TypeOK, RunState, RowInv, AskedInTurn
  <2>7. TypeOK'
    BY <1>1, <1>2, <2>4, StageType DEF TypeOK
  <2>8. \A l \in lines : l.agent # Verifier \/ run.values.verification = "on"
    BY DEF RowInv, RowFollows, StagesAreGated
  <2>9. RowInv'
    BY <1>1, <1>2, <1>3, <1>4, <2>4, <2>5, <2>6, <2>8, CapabilityNames
       DEF RowInv, AskedInTurn, RowFollows, StagesAreGated, BeforeTheRow, AfterTheRow
  <2>10. QED
    BY <2>7, <2>9
<1>7. QED
  BY <1>5, <1>6

\* The steps that write nothing.
LEMMA QuietRow ==
  ASSUME IInv, BuildRoster \/ NoRepair \/ NoVerify \/ BreaksOff
  PROVE  IInv'
<1> USE DEF IInv
<1>1. UNCHANGED <<snapshot, archive, committed, row, evaluations, lines>>
  BY DEF BuildRoster, NoRepair, NoVerify, BreaksOff
<1>2. PICK pc \in Pcs, repair \in {"none", "done", "unavailable"} :
        /\ run' = [run EXCEPT !.pc = pc, !.repair = repair]
        /\ \/ pc = "over"
           \/ pc = "validation" /\ run.pc = "roster"
           \/ pc = "record" /\ run.pc = "repair"
           \/ pc = "review" /\ run.pc = "verify"
  <2>1. CASE BuildRoster
    <3>1. run' = [run EXCEPT !.pc = "validation", !.repair = run.repair]
      BY <2>1 DEF BuildRoster, TypeOK, RunState
    <3>2. QED
      BY <2>1, <3>1, CapabilityNames DEF BuildRoster, Pcs, TypeOK, RunState
  <2>2. CASE NoRepair
    BY <2>2 DEF NoRepair, Pcs
  <2>3. CASE NoVerify
    <3>1. PICK pc \in {"over", "review"} :
            run' = [run EXCEPT !.pc = pc, !.repair = run.repair]
      BY <2>3 DEF NoVerify, TypeOK, RunState
    <3>2. QED
      BY <2>3, <3>1 DEF NoVerify, Pcs, TypeOK, RunState
  <2>4. CASE BreaksOff
    <3>1. run' = [run EXCEPT !.pc = "over", !.repair = run.repair]
      BY <2>4 DEF BreaksOff, TypeOK, RunState
    <3>2. QED
      BY <3>1 DEF Pcs, TypeOK, RunState
  <2>5. QED
    BY <2>1, <2>2, <2>3, <2>4
<1>3. run' \in RunState /\ run'.values = run.values /\ run'.pc = pc
  BY <1>2 DEF TypeOK, RunState
<1>4. TypeOK'
  BY <1>1, <1>3, StageType DEF TypeOK
<1>5. RecordedIsHeld' /\ Known' = Known
  BY <1>1, <1>3, SameValues DEF RowInv
<1>6. RowInv'
  BY <1>1, <1>2, <1>3, <1>5, CapabilityNames
     DEF RowInv, AskedInTurn, RowFollows, StagesAreGated, BeforeTheRow, AfterTheRow
<1>7. QED
  BY <1>4, <1>6

LEMMA EvaluateRow ==
  ASSUME IInv, NEW c \in Capabilities, Evaluate(c)
  PROVE  IInv'
<1> USE DEF IInv
<1>1. PICK value \in Evaluated(c) :
        /\ run' = [run EXCEPT !.values[c] = value, !.pc = After(c)]
        /\ evaluations' = [evaluations EXCEPT ![c] = @ \cup {value}]
  BY DEF Evaluate
<1>2. run.pc = c /\ UNCHANGED <<snapshot, archive, committed, row, lines>>
  BY DEF Evaluate
<1>3. value \in Values /\ value # None
  BY CapabilityNames, Constants DEF Evaluated
<1>4. After(c) \in Pcs /\ After(c) # "over"
  BY CapabilityNames DEF After, Pcs
<1>5. /\ run' \in RunState /\ run'.pc = After(c)
      /\ run'.values = [run.values EXCEPT ![c] = value]
  BY <1>1, <1>3, <1>4 DEF TypeOK, RunState, Valuation
<1>6. evaluations' \in [Capabilities -> SUBSET Values]
  BY <1>1, <1>3 DEF TypeOK
<1>7. TypeOK'
  BY <1>2, <1>5, <1>6, StageType DEF TypeOK
<1>8. run.values[c] = None
  BY <1>2, CapabilityNames DEF RowInv, AskedInTurn, Known
<1>9. Known' = Known \cup {c}
  BY <1>3, <1>5 DEF Known, TypeOK, RunState, Valuation
<1>10. RecordedIsHeld'
  <2>1. evaluations[c] = {}
    BY <1>8 DEF RowInv, RecordedIsHeld
  <2>2. QED
    BY <1>1, <1>3, <1>5, <2>1 DEF RowInv, RecordedIsHeld, TypeOK, RunState, Valuation
<1>11. AskedInTurn'
  BY <1>2, <1>5, <1>9, CapabilityNames DEF RowInv, AskedInTurn, BeforeTheRow, After
<1>12. row # None /\ row.caps = None
  <2>1. row # None
    BY <1>2 DEF RowInv, RowFollows, AfterTheRow
  <2>2. c \notin Known
    BY <1>8 DEF Known
  <2>3. QED
    BY <2>1, <2>2 DEF RowInv, RowFollows
<1>13. After(c) \in {"verification", "planner", "repair"}
  BY CapabilityNames DEF After
<1>14. RowFollows'
  BY <1>2, <1>5, <1>12, <1>13 DEF RowInv, RowFollows, BeforeTheRow, AfterTheRow
<1>15. StagesAreGated'
  <2>1. \A l \in lines : l.agent # Verifier
    BY <1>12 DEF RowInv, StagesAreGated
  <2>2. \A l \in lines : l.agent = Repairer => c # "planner"
    BY <1>8 DEF RowInv, StagesAreGated
  <2>3. c # "planner" => run'.values.planner = run.values.planner
    BY <1>5, CapabilityNames DEF TypeOK, RunState, Valuation
  <2>4. QED
    BY <1>2, <2>1, <2>2, <2>3 DEF RowInv, StagesAreGated
<1>16. QED
  BY <1>7, <1>10, <1>11, <1>14, <1>15 DEF RowInv

\* The invocations after the roster: B3, D1 and the narrator.
LEMMA InvokeRow ==
  ASSUME IInv, Repair \/ Verify \/ Narrate
  PROVE  IInv'
<1> USE DEF IInv
<1>1. PICK key \in {Repairer, Verifier, Voice} :
        /\ Invoked(key, run.agents[key], None)
        /\ UNCHANGED <<snapshot, archive, committed, row, evaluations>>
        /\ \/ key = Repairer /\ Repair
           \/ key = Verifier /\ Verify
           \/ key = Voice /\ Narrate
  BY DEF Repair, Verify, Narrate
<1>2. key \in AgentKeys /\ run.agents[key] \in Config
  BY DEF AgentKeys, TypeOK, RunState
<1>3. /\ lines' \subseteq [agent : AgentKeys, image : 1 .. MaxImages \cup {None},
                           text : Texts, answer : Answers]
      /\ \A l \in lines' : l \in lines \/ l.agent = key
  BY <1>1, <1>2, InvokedType
<1>4. /\ run' \in RunState /\ run'.values = run.values
      /\ \/ run'.pc = "record" /\ run.pc = "repair"
         \/ run'.pc = "review" /\ run.pc \in {"verify", "review"}
  BY DEF Repair, Verify, Narrate, TypeOK, RunState, Pcs
<1>5. TypeOK'
  BY <1>1, <1>3, <1>4, StageType DEF TypeOK
<1>6. RecordedIsHeld' /\ Known' = Known
  BY <1>1, <1>4, SameValues DEF RowInv
<1>7. AskedInTurn'
  BY <1>4, <1>6, CapabilityNames DEF RowInv, AskedInTurn, BeforeTheRow
<1>8. row # None
  BY <1>4 DEF RowInv, RowFollows, AfterTheRow
<1>9. RowFollows'
  BY <1>1, <1>4, <1>6, <1>8, CapabilityNames DEF RowInv, RowFollows, BeforeTheRow, AfterTheRow
<1>10. key = Verifier => row.caps # None /\ row.caps.verification = "on"
  <2>1. SUFFICES ASSUME Verify PROVE row.caps # None /\ row.caps.verification = "on"
    BY <1>1 DEF Repairer, Verifier, Voice
  <2>2. QED
    BY <1>8, <2>1 DEF Verify, RowInv, RowFollows
<1>11. key = Repairer => run.values.planner \notin {"off", None}
  <2>1. SUFFICES ASSUME Repair PROVE run.values.planner \notin {"off", None}
    BY <1>1 DEF Repairer, Verifier, Voice
  <2>2. run.values.planner # "off" /\ run.values.planner # None
    BY <2>1, CapabilityNames DEF Repair, RepairAsked, RowInv, AskedInTurn, Known
  <2>3. QED
    BY <2>2
<1>12. StagesAreGated'
  BY <1>1, <1>3, <1>4, <1>10, <1>11 DEF RowInv, StagesAreGated
<1>13. QED
  BY <1>5, <1>6, <1>7, <1>9, <1>12 DEF RowInv

LEMMA NextRow == IInv /\ [Next]_vars => IInv'
<1>1. ASSUME IInv, Next PROVE IInv'
  BY <1>1, BeginRow, FetchRow, SnapshotRow, OpenRowRow, ReadImageRow, AppendRow, QuietRow,
     EvaluateRow, InvokeRow DEF Next
<1>2. ASSUME IInv, UNCHANGED vars PROVE IInv'
  BY <1>2 DEF vars, IInv, TypeOK, RowInv, RecordedIsHeld, AskedInTurn, RowFollows,
              StagesAreGated, Known
<1>3. QED
  BY <1>1, <1>2

LEMMA RowInvariant == Spec => []IInv
BY InitRow, NextRow, PTL DEF Spec

\* Every variable of a run's life keeps its type (TypeOK).
THEOREM LifecycleTypes == Spec => []TypeOK
<1>1. IInv => TypeOK
  BY DEF IInv
<1>2. QED
  BY <1>1, RowInvariant, PTL

\* The row accounts for the run, wherever it breaks off: what A1 recorded
\* stays, each capability on it is the one value that was evaluated, and no
\* agent ran that the recorded modes do not allow (TheRowIsExplained).
THEOREM RowExplains == Spec => []TheRowIsExplained
<1>1. IInv => TheRowIsExplained
  <2> SUFFICES ASSUME IInv PROVE TheRowIsExplained
    OBVIOUS
  <2> USE DEF IInv, RowInv
  <2>1. row = None => lines = {} /\ \A c \in Capabilities : evaluations[c] = {}
    BY DEF RowFollows, RecordedIsHeld, Known
  <2>2. row # None => "kill_switch" \in row.reasons
    BY DEF RowFollows
  <2>3. row # None /\ row.caps # None =>
          /\ row.known = Capabilities
          /\ \A c \in Capabilities : evaluations[c] = {row.caps[c]}
    BY DEF RowFollows, RecordedIsHeld, Known
  <2>4. ASSUME NEW l \in lines
        PROVE  /\ l.agent = Verifier => row.caps # None /\ row.caps.verification = "on"
               /\ l.agent = Repairer => evaluations.planner \notin {{}, {"off"}}
    <3>1. run.values.planner \notin {"off", None} => evaluations.planner = {run.values.planner}
      <4>1. "planner" \in Capabilities 
        BY CapabilityNames
      <4>2. QED
        BY <4>1, Constants DEF RecordedIsHeld
    <3>2. QED
      BY <3>1 DEF StagesAreGated
  <2>5. QED
    BY <2>1, <2>2, <2>3, <2>4 DEF TheRowIsExplained
<1>2. QED
  BY <1>1, RowInvariant, PTL
-----------------------------------------------------------------------------
(* Whose text an agent runs on.                                            *)

\* The steps that keep what A1 captured, and add lines only of it.
LEMMA Captured ==
  ASSUME IInv, [Next]_vars
  PROVE  \/ Begin
         \/ Fetch
         \/ /\ UNCHANGED <<run.agents, run.perImage, run.images>>
            /\ \A l \in lines' :
                 \/ l \in lines
                 \/ /\ \E k \in AgentKeys : /\ Available(run.agents[k])
                                           /\ l.agent = k
                                           /\ l.text = run.agents[k].text
                                           /\ l.answer = run.agents[k].answer
                    /\ run.pc \in AfterTheRow
                 \/ /\ \E i \in 1 .. run.images : /\ Available(run.perImage[i])
                                                /\ l.agent = Extraction
                                                /\ l.text = run.perImage[i].text
                                                /\ l.answer = run.perImage[i].answer
                    /\ run.pc \in AfterTheRow
<1> USE DEF IInv
<1>1. CASE WriteSnapshot \/ TearSnapshot \/ OpenRow \/ Extracted \/ BuildRoster \/ NoRepair
           \/ RecordPlanning \/ NoVerify \/ Close \/ BreaksOff
  BY <1>1 DEF WriteSnapshot, TearSnapshot, OpenRow, Extracted, BuildRoster, NoRepair,
              RecordPlanning, NoVerify, Close, BreaksOff, TypeOK, RunState
<1>2. ASSUME NEW c \in Capabilities, Evaluate(c)
      PROVE  UNCHANGED <<run.agents, run.perImage, run.images, lines>>
  BY <1>2 DEF Evaluate, TypeOK, RunState
<1>3. CASE Repair \/ Verify \/ Narrate
  <2>1. PICK key \in {Repairer, Verifier, Voice} : Invoked(key, run.agents[key], None)
    BY <1>3 DEF Repair, Verify, Narrate
  <2>2. key \in AgentKeys /\ run.agents[key] \in Config
    BY DEF AgentKeys, TypeOK, RunState
  <2>3. Available(run.agents[key])
    BY <2>1 DEF Invoked
  <2>4. \A l \in lines' : l \in lines \/ (l.agent = key /\ l.text = run.agents[key].text
                                       /\ l.answer = run.agents[key].answer)
    <3>1. PICK config \in Config : config = run.agents[key]
      BY <2>2
    <3>2. Invoked(key, config, None)
      BY <2>1, <3>1
    <3>3. \A l \in lines' : l \in lines \/ (l.agent = key /\ l.text = config.text
                                         /\ l.answer = config.answer)
      BY <3>2 DEF Invoked
    <3>4. QED
      BY <3>1, <3>3
  <2>5. run.pc \in AfterTheRow /\ UNCHANGED <<run.agents, run.perImage, run.images>>
    BY <1>3 DEF Repair, Verify, Narrate, AfterTheRow, TypeOK, RunState
  <2>6. QED
    BY <2>2, <2>3, <2>4, <2>5
<1>4. CASE ReadImage
  <2>1. /\ run.read + 1 \in 1 .. MaxImages /\ run.read + 1 \in 1 .. run.images
        /\ run.pc \in AfterTheRow /\ UNCHANGED <<run.agents, run.perImage, run.images>>
    BY <1>4, Constants DEF ReadImage, AfterTheRow, TypeOK, RunState
  <2> DEFINE i == run.read + 1
  <2>2. Invoked(Extraction, run.perImage[i], i) /\ Available(run.perImage[i])
    BY <1>4 DEF ReadImage, Invoked
  <2>3. run.perImage[i] \in Config /\ Extraction \in AgentKeys
    BY <2>1 DEF AgentKeys, TypeOK, RunState
  <2>4. \A l \in lines' : l \in lines \/ (l.agent = Extraction /\ l.text = run.perImage[i].text
                                       /\ l.answer = run.perImage[i].answer)
    BY <2>1, <2>2, <2>3, InvokedType
  <2>5. QED
    BY <2>1, <2>2, <2>4
<1>5. CASE UNCHANGED vars
  BY <1>5 DEF vars
<1>6. QED
  BY <1>1, <1>2, <1>3, <1>4, <1>5 DEF Next

\* The configs of a run that has not begun are none.
LEMMA NothingCaptured ==
  /\ \A k \in AgentKeys : ~Available(NoRun.agents[k])
  /\ \A i \in 1 .. MaxImages : ~Available(NoRun.perImage[i])
BY DEF NoRun, Available

LEMMA BeginCaptures ==
  ASSUME Begin
  PROVE  /\ run'.agents = NoRun.agents /\ run'.perImage = NoRun.perImage
         /\ run'.images \in 0 .. MaxImages /\ run'.pc = "fetch" /\ lines' = {}
BY DEF Begin, NoRun

LEMMA FetchCaptures ==
  ASSUME IInv, Fetch
  PROVE  /\ \A k \in AgentKeys : Sound(run'.agents[k])
         /\ \A i \in 1 .. MaxImages : Sound(run'.perImage[i])
         /\ lines' = {}
         /\ run'.pc \in {"over", "snapshot", "row"}
         /\ run'.pc = "row" => ~\E k \in AgentKeys : Available(run'.agents[k])
         /\ run'.pc = "snapshot" => \E k \in AgentKeys : Available(run'.agents[k])
<1> USE DEF IInv
<1>1. PICK console \in Console, pc \in {"over", "snapshot", "row"} :
             /\ run' = [run EXCEPT !.agents = Fetched(console).agents,
                                   !.perImage = Fetched(console).perImage, !.pc = pc]
             /\ pc = "row" => ~AnyAvailable(Fetched(console))
             /\ pc = "snapshot" => AnyAvailable(Fetched(console))
  BY FetchLeaves
<1>2. run'.agents = Fetched(console).agents /\ run'.perImage = Fetched(console).perImage
      /\ run'.pc = pc
  BY <1>1 DEF TypeOK, RunState
<1>3. lines' = {}
  BY DEF Fetch, RowInv, RowFollows, BeforeTheRow
<1>4. QED
  BY <1>1, <1>2, <1>3, FetchedType DEF AnyAvailable

\* A config that is switched off stays off, whatever older runs have cached:
\* an agent runs on what LaunchDarkly served to this run, or on the cache for
\* want of an answer (NothingIsRevived).
THEOREM OffStaysOff == Spec => []NothingIsRevived
<1>1. Init => ConfigsAreSound
  BY NothingCaptured DEF Init, ConfigsAreSound, NothingIsRevived, Sound
<1>2. IInv /\ ConfigsAreSound /\ [Next]_vars => ConfigsAreSound'
  <2> SUFFICES ASSUME IInv, ConfigsAreSound, [Next]_vars PROVE ConfigsAreSound'
    OBVIOUS
  <2>1. CASE Begin
    BY <2>1, BeginCaptures, NothingCaptured DEF ConfigsAreSound, NothingIsRevived, Sound
  <2>2. CASE Fetch
    BY <2>2, FetchCaptures DEF ConfigsAreSound, NothingIsRevived
  <2>3. CASE ~Begin /\ ~Fetch
    <3>1. 1 .. run.images \subseteq 1 .. MaxImages
      BY Constants DEF IInv, TypeOK, RunState
    <3>2. UNCHANGED <<run.agents, run.perImage>>
      BY <2>3, Captured
    <3>3. ASSUME NEW l \in lines' PROVE l.answer \in {l.text, Missing}
      BY <2>3, <3>1, Captured DEF ConfigsAreSound, NothingIsRevived, Sound
    <3>4. QED
      BY <3>2, <3>3 DEF ConfigsAreSound, NothingIsRevived
  <2>4. QED
    BY <2>1, <2>2, <2>3
<1>3. ConfigsAreSound => NothingIsRevived
  BY DEF ConfigsAreSound
<1>4. QED
  BY <1>1, <1>2, <1>3, RowInvariant, PTL DEF Spec
-----------------------------------------------------------------------------
(* What the file holds.                                                    *)

\* Only a torn write takes an entry away (FallbackIsKept).
THEOREM FallbackStays == Spec => FallbackIsKept
<1>1. IInv /\ [Next]_vars =>
        [(\A k \in AgentKeys : snapshot[k] # None => snapshot'[k] # None) \/ TearSnapshot]_vars
  <2> SUFFICES ASSUME IInv, Next, ~TearSnapshot, NEW k \in AgentKeys, snapshot[k] # None
               PROVE  snapshot'[k] # None
    OBVIOUS
  <2>1. CASE WriteSnapshot
    BY <2>1 DEF WriteSnapshot, Merged, Available
  <2>2. CASE ~WriteSnapshot
    BY <2>2 DEF Next, Begin, Fetch, OpenRow, ReadImage, Extracted, BuildRoster, Evaluate, Repair,
                NoRepair, RecordPlanning, Verify, NoVerify, Narrate, Close, BreaksOff
  <2>3. QED
    BY <2>1, <2>2
<1>2. QED
  BY <1>1, RowInvariant, PTL DEF Spec, FallbackIsKept

\* Of some images there is a last one.
LEMMA LastImage ==
  ASSUME NEW n \in Nat, NEW S \in SUBSET (1 .. n), S # {}
  PROVE  \E j \in S : \A i \in S : i =< j
<1> DEFINE T == {n - j : j \in S}
<1>1. T \subseteq Nat /\ T # {}
  <2>1. \A j \in S : n - j \in Nat
    OBVIOUS
  <2>2. QED
    BY <2>1
<1>2. PICK m \in T : \A x \in T : ~(<<x, m>> \in OpToRel(<, Nat))
  BY <1>1, NatLessThanWellFounded, WFMin
<1>3. \A x \in T : ~(x < m)
  BY <1>1, <1>2 DEF OpToRel
<1>4. PICK j \in S : m = n - j
  OBVIOUS
<1>5. ASSUME NEW i \in S PROVE i =< j
  <2>1. ~(n - i < n - j)
    BY <1>3, <1>4
  <2>2. QED
    BY <2>1
<1>6. QED
  BY <1>5

\* A variation the canonical entry does not hold is archived.
LEMMA ArchivedExists ==
  ASSUME TypeOK, NEW i \in 1 .. run.images, Available(run.perImage[i]),
         VariationOf(run.perImage[i]) # VariationOf(run.agents[Extraction])
  PROVE  \E j \in Archived(run) : VariationOf(run.perImage[j]) = VariationOf(run.perImage[i])
<1> DEFINE v == VariationOf(run.perImage[i])
           S == {j \in 1 .. run.images : VariationOf(run.perImage[j]) = v}
<1>1. run.images \in Nat /\ 1 .. run.images \subseteq 1 .. MaxImages
  BY Constants DEF TypeOK, RunState
<1>2. S \in SUBSET (1 .. run.images) /\ S # {}
  OBVIOUS
<1>3. PICK j \in S : \A x \in S : x =< j
  BY <1>1, <1>2, LastImage
<1>4. v # None
  <2>1. run.perImage[i].text \in Texts
    BY <1>1 DEF Available, TypeOK, RunState, Config
  <2>2. QED
    BY <2>1, Constants DEF VariationOf
<1>5. Available(run.perImage[j])
  BY <1>3, <1>4 DEF VariationOf
<1>6. \A x \in j + 1 .. run.images : VariationOf(run.perImage[x]) # v
  <2>1. SUFFICES ASSUME NEW x \in j + 1 .. run.images, VariationOf(run.perImage[x]) = v PROVE FALSE
    OBVIOUS
  <2>2. x \in S
    BY <2>1, <1>1
  <2>3. QED
    BY <2>2, <1>1, <1>3
<1>7. j \in Archived(run)
  BY <1>3, <1>5, <1>6 DEF Archived
<1>8. QED
  BY <1>3, <1>7

\* After the write, the file has what the agents run on.
LEMMA WriteCommits ==
  ASSUME IInv, WriteSnapshot
  PROVE  FileIsCommitted' /\ CapturedIsCommitted'
<1> USE DEF IInv
<1>1. /\ run' = [run EXCEPT !.pc = "row"]
      /\ UNCHANGED <<run.agents, run.perImage, run.images>>
  BY DEF WriteSnapshot, TypeOK, RunState
<1>2. /\ \A k \in AgentKeys : Merged[k] # None => <<k, Merged[k]>> \in committed'
      /\ \A v \in DOMAIN archive : MergedArchive[v] # None =>
            <<Extraction, MergedArchive[v]>> \in committed'
  BY DEF WriteSnapshot
<1>3. FileIsCommitted'
  <2>1. snapshot' = Merged /\ archive' = MergedArchive /\ DOMAIN MergedArchive = DOMAIN archive
    BY DEF WriteSnapshot, MergedArchive
  <2>2. QED
    BY <1>2, <2>1 DEF FileIsCommitted
<1>4. ASSUME NEW k \in AgentKeys, Available(run.agents[k])
      PROVE  <<k, run.agents[k].text>> \in committed'
  <2>1. Merged[k] = run.agents[k].text /\ Merged[k] # None
    BY <1>4 DEF Merged, Available
  <2>2. QED
    BY <1>2, <2>1
<1>5. ASSUME NEW i \in 1 .. run.images, Available(run.perImage[i]),
             <<Extraction, run.perImage[i].text>> \notin committed'
      PROVE  \E other \in {run.agents[Extraction]} \cup {run.perImage[j] : j \in 1 .. run.images} :
                /\ other.text # run.perImage[i].text
                /\ VariationOf(other) = Variation[run.perImage[i].text]
  <2> DEFINE v == VariationOf(run.perImage[i])
             own == run.agents[Extraction]
  <2>1. 1 .. run.images \subseteq 1 .. MaxImages
    BY Constants DEF TypeOK, RunState
  <2>2. run.perImage[i].text \in Texts /\ v = Variation[run.perImage[i].text]
    BY <1>5, <2>1 DEF TypeOK, RunState, Config, Available, VariationOf
  <2>3. v # None /\ v \in DOMAIN archive
    BY <2>2, Constants DEF TypeOK
  <2>4. CASE v = VariationOf(own)
    <3>1. Available(own) /\ Extraction \in AgentKeys
      BY <2>3, <2>4 DEF VariationOf, AgentKeys
    <3>2. own.text # run.perImage[i].text
      BY <1>4, <1>5, <3>1
    <3>3. QED
      BY <2>2, <2>4, <3>2
  <2>5. CASE v # VariationOf(own)
    <3>1. \E j \in Archived(run) : VariationOf(run.perImage[j]) = v
      BY <1>5, <2>5, ArchivedExists
    <3>2. PICK j \in Archived(run) : /\ VariationOf(run.perImage[j]) = v
                                     /\ MergedArchive[v] = run.perImage[j].text
      BY <2>3, <3>1 DEF MergedArchive
    <3>3. j \in 1 .. run.images /\ run.perImage[j].text # None
      BY <3>2 DEF Archived, Available
    <3>4. <<Extraction, run.perImage[j].text>> \in committed'
      BY <1>2, <2>3, <3>2, <3>3
    <3>5. run.perImage[j].text # run.perImage[i].text
      BY <1>5, <3>4
    <3>6. QED
      BY <2>2, <3>2, <3>3, <3>5
  <2>6. QED
    BY <2>4, <2>5
<1>6. CapturedIsCommitted'
  BY <1>1, <1>4, <1>5 DEF CapturedIsCommitted, WithoutAnEntry, Available, VariationOf
<1>7. QED
  BY <1>3, <1>6

\* The other steps leave the file, and do not enter the run from before it.
LEMMA OtherSteps ==
  ASSUME IInv, [Next]_vars, ~Begin, ~Fetch, ~WriteSnapshot, ~TearSnapshot
  PROVE  /\ UNCHANGED <<snapshot, archive, committed>>
         /\ run'.pc \in AfterTheRow \cup {"row"} => run.pc \in AfterTheRow \cup {"row"}
<1> USE DEF IInv
<1>1. CASE OpenRow \/ ReadImage \/ Extracted \/ BuildRoster \/ Repair \/ NoRepair
           \/ RecordPlanning \/ Verify \/ NoVerify \/ Narrate \/ Close
  BY <1>1 DEF OpenRow, ReadImage, Extracted, BuildRoster, Repair, NoRepair, RecordPlanning,
              Verify, NoVerify, Narrate, Close, AfterTheRow, TypeOK, RunState
<1>2. ASSUME NEW c \in Capabilities, Evaluate(c)
      PROVE  UNCHANGED <<snapshot, archive, committed>> /\ run.pc \in AfterTheRow
  BY <1>2 DEF Evaluate, AfterTheRow
<1>3. CASE BreaksOff
  BY <1>3, CapabilityNames DEF BreaksOff, AfterTheRow, TypeOK, RunState
<1>4. CASE UNCHANGED vars
  BY <1>4 DEF vars
<1>5. QED
  BY <1>1, <1>2, <1>3, <1>4 DEF Next

LEMMA NextText == IInv /\ TextInv /\ [Next]_vars => TextInv'
<1> SUFFICES ASSUME IInv, TextInv, [Next]_vars PROVE TextInv'
  OBVIOUS
<1> USE DEF IInv, TextInv
<1>1. CASE Begin
  <2>1. FileIsCommitted'
    BY <1>1 DEF Begin, FileIsCommitted
  <2>2. run'.pc \notin AfterTheRow \cup {"row"} /\ lines' = {}
    BY <1>1, BeginCaptures, CapabilityNames DEF AfterTheRow
  <2>3. QED
    BY <2>1, <2>2 DEF CapturedIsCommitted, HashesResolve
<1>2. CASE Fetch
  <2>1. FileIsCommitted'
    BY <1>2 DEF Fetch, FileIsCommitted
  <2>2. /\ lines' = {}
        /\ run'.pc \in AfterTheRow \cup {"row"} =>
              ~\E k \in AgentKeys : Available(run'.agents[k])
    BY <1>2, FetchCaptures, CapabilityNames DEF AfterTheRow
  <2>3. run'.pc \in AfterTheRow \cup {"row"} => ~AnyAvailable(run)'
    BY <2>2 DEF AnyAvailable, Available
  <2>4. CapturedIsCommitted'
    BY <2>2, <2>3 DEF CapturedIsCommitted, WithoutAnEntry, Available
  <2>5. QED
    BY <2>1, <2>2, <2>4 DEF HashesResolve
<1>3. CASE WriteSnapshot \/ TearSnapshot
  <2>1. lines' = {}
    BY <1>3 DEF WriteSnapshot, TearSnapshot, RowInv, RowFollows, BeforeTheRow
  <2>2. CASE WriteSnapshot
    BY <2>1, <2>2, WriteCommits DEF HashesResolve
  <2>3. CASE TearSnapshot
    <3>1. FileIsCommitted'
      BY <2>3 DEF TearSnapshot, Empty, FileIsCommitted
    <3>2. run'.pc = "over"
      BY <2>3 DEF TearSnapshot, TypeOK, RunState
    <3>3. QED
      BY <2>1, <3>1, <3>2, CapabilityNames DEF CapturedIsCommitted, AfterTheRow, HashesResolve
  <2>4. QED
    BY <1>3, <2>2, <2>3
<1>4. CASE ~Begin /\ ~Fetch /\ ~WriteSnapshot /\ ~TearSnapshot
  <2>1. /\ UNCHANGED <<snapshot, archive, committed>>
        /\ run'.pc \in AfterTheRow \cup {"row"} => run.pc \in AfterTheRow \cup {"row"}
    BY <1>4, OtherSteps
  <2>2. UNCHANGED <<run.agents, run.perImage, run.images>>
    BY <1>4, Captured
  <2>3. FileIsCommitted'
    BY <2>1 DEF FileIsCommitted
  <2>4. \A l : WithoutAnEntry(l)' <=> WithoutAnEntry(l)
    BY <2>2 DEF WithoutAnEntry, AnyAvailable, Available, VariationOf
  <2>5. CapturedIsCommitted'
    BY <2>1, <2>2, <2>4 DEF CapturedIsCommitted, Available, WithoutAnEntry, AnyAvailable, VariationOf
  <2>6. ASSUME NEW l \in lines'
        PROVE  <<l.agent, l.text>> \in committed \/ WithoutAnEntry(l)
    <3>1. CASE l \in lines
      BY <3>1 DEF HashesResolve
    <3>2. CASE l \notin lines
      BY <1>4, <3>2, Captured DEF CapturedIsCommitted, WithoutAnEntry
    <3>3. QED
      BY <3>1, <3>2
  <2>7. HashesResolve'
    BY <2>1, <2>4, <2>6 DEF HashesResolve
  <2>8. QED
    BY <2>3, <2>5, <2>7
<1>5. QED
  BY <1>1, <1>2, <1>3, <1>4

\* Every line joins to the committed snapshot, whatever was served, to how
\* many images and in however many runs, up to the two exceptions of B1 that
\* WithoutAnEntry names (HashesResolve).
THEOREM HashesJoin == Spec => []HashesResolve
<1>1. Init => TextInv
  BY CapabilityNames DEF Init, TextInv, FileIsCommitted, CapturedIsCommitted, HashesResolve,
     Empty, NoRun, AfterTheRow
<1>2. TextInv => HashesResolve
  BY DEF TextInv
<1>3. QED
  BY <1>1, <1>2, NextText, RowInvariant, PTL DEF Spec
=============================================================================
