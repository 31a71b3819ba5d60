------------------------------ MODULE Planning ------------------------------
(***************************************************************************)
(* Phase B of a run, as plan.py drives it: B2 validates every recipient    *)
(* (recipients/validation.py), B3 has an agent repair what B2 could not    *)
(* pass (recipients/repair.py), B4 keeps one parcel per doorstep           *)
(* (recipients/dedupe.py), and C6 publishes who ships, who is suppressed   *)
(* and who needs a human (planning/manifest.py).                           *)
(*                                                                         *)
(* A list of recipients is a set of records with their position in it.     *)
(* `id` says which entry of the input a record is: the code has only the   *)
(* key, which two entries may share.  An address stands for everything     *)
(* that makes two addresses different; `Door` is the part of it that is    *)
(* material.  What the solver makes of the shipments is left open, it is   *)
(* CarrierSolve's matter.                                                  *)
(*                                                                         *)
(* A definition introduced as a fault is a plausible mistake in the one    *)
(* that follows it, and no part of the specification.                      *)
(***************************************************************************)
EXTENDS Integers, FiniteSets, Sequences

CONSTANTS
    Keys,        \* recipient keys: slugify of a name
    Dates,       \* ship dates a roster may pin
    Addresses,
    Door,        \* _material_fields of each address
    Valid,       \* the addresses the validator finds valid
    Corrected,   \* what it returns for each
    Inputs,      \* the inputs of a run
    MaxReply,    \* bound: the repairs in one reply of the agent
    Incomplete,  \* a proposed address with a missing field
    None         \* Python's None: no pin, no repair, no manifest

Recipient == [id : Nat, at : Nat, key : Keys, address : Addresses, pin : Dates \cup {None}]
Excluded == [id : Nat, key : Keys]
Suppressed == [id : Nat, key : Keys, onto : Nat]

Person == [key : Keys, address : Addresses, pin : Dates \cup {None}]
Input == [people : Seq(Person), unresolved : Seq(Keys)]

\* load_roster refuses a key that appears twice.
Handwritten(input) ==
    /\ \A i, j \in DOMAIN input.people :
          input.people[i].key = input.people[j].key => i = j
    /\ input.unresolved = <<>>

\* _records_from: two screenshots may name one person, or two of one name.
Extracted(input) == \A i \in DOMAIN input.people : input.people[i].pin = None

ASSUME PlanningAssumption ==
    /\ Inputs \subseteq Input
    /\ \A input \in Inputs : Handwritten(input) \/ Extracted(input)
    /\ Valid \subseteq Addresses
    /\ Corrected \in [Addresses -> Addresses]
    /\ Incomplete \notin Addresses
    /\ MaxReply \in Nat
    /\ None \notin [repaired : SUBSET Recipient, escalated : SUBSET Excluded]

VARIABLES
    input,       \* the roster and B1's unresolved people
    fromImages,  \* whether B1 made it: only then is there a repairer
    mode,        \* run.validation()
    planner,     \* run.planner()
    stage,       \* the next stage, or how the run ended
    forRepair,   \* ValidationReport.for_repair; its escalated list is the same people
    repair,      \* RepairResult, None when B3 did not run or was unavailable
    eligible,    \* plan_run: eligible
    escalated,   \* plan_run: escalated
    shipping,    \* SuppressionReport.eligible
    suppressed,  \* SuppressionReport.suppressed
    manifest

vars == <<input, fromImages, mode, planner, stage, forRepair, repair,
          eligible, escalated, shipping, suppressed, manifest>>

\* What an exclusion keeps of a recipient.
ToExcluded(r) == [id |-> r.id, key |-> r.key]

Roster == {[id |-> i, at |-> i, key |-> input.people[i].key,
            address |-> input.people[i].address, pin |-> input.people[i].pin] :
              i \in DOMAIN input.people}

\* Fault: they reached neither the manifest nor its reader.
NoneUnresolved == {}

\* ExtractionResult.escalations
Unresolved == {[id |-> Len(input.people) + i, key |-> input.unresolved[i]] :
                  i \in DOMAIN input.unresolved}

Init ==
    /\ input \in Inputs
    /\ fromImages \in {b \in BOOLEAN : IF b THEN Extracted(input) ELSE Handwritten(input)}
    /\ mode \in {"off", "standard", "strict"}
    /\ planner \in {"off", "shadow", "on"}
    /\ stage = "B2"
    /\ forRepair = {} /\ eligible = {} /\ escalated = {}
    /\ shipping = {} /\ suppressed = {}
    /\ repair = None /\ manifest = None
-----------------------------------------------------------------------------
(* B2.                                                                     *)

Outcome(a) ==
    CASE a \notin Valid -> "failed"
      [] a \in Valid /\ Door[a] = Door[Corrected[a]] -> "clean"
      [] OTHER -> "correctable"

Escalates(a) ==
    /\ mode # "off"
    /\ \/ Outcome(a) = "failed"
       \/ mode = "strict" /\ Outcome(a) = "correctable"

\* ValidationResult.usable, or the address as supplied.
Usable(r) == IF mode = "off" THEN r ELSE [r EXCEPT !.address = Corrected[@]]

Validate ==
    /\ stage = "B2"
    /\ forRepair' = {r \in Roster : Escalates(r.address)}
    /\ eligible' = {Usable(r) : r \in Roster \ forRepair'}
    /\ escalated' = {ToExcluded(r) : r \in forRepair'}
    /\ stage' = "B3"
    /\ UNCHANGED <<input, fromImages, mode, planner, repair, shipping, suppressed, manifest>>
-----------------------------------------------------------------------------
(* B3.  A reply is its list of repairs: an escalation the agent asks for   *)
(* and a record it says nothing of end alike, and so does a proposal that  *)
(* the validator refuses or cannot check.                                  *)

Reply == UNION {[1 .. n -> [key : Keys, proposed : Addresses \cup {Incomplete}]] :
                   n \in 0 .. MaxReply}

KeysOf(list) == {r.key : r \in list}

\* originals[k]: of two records with one key the later one.
Original(k) == CHOOSE r \in forRepair : /\ r.key = k
                                        /\ \A s \in forRepair : s.key = k => s.at =< r.at

\* The entries that are adjudicated: one per key, the first that is complete.
Adjudicated(reply) ==
    {i \in DOMAIN reply :
        /\ reply[i].key \in KeysOf(forRepair)
        /\ reply[i].proposed # Incomplete
        /\ \A j \in 1 .. i - 1 : ~(reply[j].key = reply[i].key /\ reply[j].proposed # Incomplete)}

\* Fault: the agent's word is taken for it.
Claimed(reply) == Adjudicated(reply)

\* Those the validator accepts.
Accepted(reply) == {i \in Adjudicated(reply) : reply[i].proposed \in Valid}

\* The agent's repairs come after B2's eligible, in its order.
RepairOf(reply) ==
    [repaired |-> {[Original(reply[i].key) EXCEPT
                       !.address = Corrected[reply[i].proposed],
                       !.at = Len(input.people) + i] : i \in Accepted(reply)},
     escalated |-> {ToExcluded(Original(k)) :
                       k \in KeysOf(forRepair) \ {reply[i].key : i \in Accepted(reply)}}]

AskAgent == fromImages /\ planner # "off" /\ forRepair # {}

\* Only this planner mode acts on a repair.
Applies == planner = "on"

Repair(reply) ==
    /\ stage = "B3" /\ AskAgent
    /\ repair' = RepairOf(reply)
    /\ IF Applies
       THEN eligible' = eligible \cup repair'.repaired /\ escalated' = repair'.escalated
       ELSE UNCHANGED <<eligible, escalated>>
    /\ stage' = "B4"
    /\ UNCHANGED <<input, fromImages, mode, planner, forRepair, shipping, suppressed, manifest>>

\* B3 was not asked for, or RepairUnavailable: the set stays escalated.
NoRepair ==
    /\ stage = "B3"
    /\ stage' = "B4"
    /\ UNCHANGED <<input, fromImages, mode, planner, forRepair, repair, eligible,
                   escalated, shipping, suppressed, manifest>>
-----------------------------------------------------------------------------
(* B4.                                                                     *)

First(list) == CHOOSE r \in list : \A s \in list : r.at =< s.at

\* _drop_duplicate_keys: the first row with a key is kept.
SameKey(r) == {s \in eligible : s.key = r.key}
KeptRows == {r \in eligible : r = First(SameKey(r))}

Doorstep(r) == {s \in KeptRows : s.address = r.address}
Pins(r) == {s.pin : s \in Doorstep(r)} \ {None}

\* Fault: someone without a pin joins any of those at the doorstep.
AnyPin(r) ==
    IF r.pin = None /\ Pins(r) # {} THEN CHOOSE d \in Pins(r) : TRUE ELSE r.pin

\* _assign_holders.slot: no pin is satisfied by the only pin there is.
Slot(r) ==
    IF r.pin = None /\ Cardinality(Pins(r)) = 1 THEN CHOOSE d \in Pins(r) : TRUE ELSE r.pin

\* Fault: one parcel per doorstep, whatever the dates.
FirstAtTheDoor(r) == First(Doorstep(r))

\* A pin is held by the first who asked for it, also against an earlier row
\* that folds onto it.
Holder(r) == First({s \in Doorstep(r) : s.pin = Slot(r)})

\* Fault: a duplicate is dropped without a word.
FoldedOnly ==
    {[id |-> r.id, key |-> r.key, onto |-> Holder(r).id] : r \in {r \in KeptRows : Holder(r) # r}}

Folded ==
    {[id |-> r.id, key |-> r.key, onto |-> First(SameKey(r)).id] : r \in eligible \ KeptRows}
    \cup {[id |-> r.id, key |-> r.key, onto |-> Holder(r).id] :
             r \in {r \in KeptRows : Holder(r) # r}}

Dedupe ==
    /\ stage = "B4"
    /\ shipping' = {r \in KeptRows : Holder(r) = r}
    /\ suppressed' = Folded
    /\ stage' = "C"
    /\ UNCHANGED <<input, fromImages, mode, planner, forRepair, repair, eligible,
                   escalated, manifest>>
-----------------------------------------------------------------------------
(* C6.  No manifest when no carrier subset covers, or there is nothing to  *)
(* cover.                                                                  *)

Publish(infeasible) ==
    /\ stage = "C"
    /\ infeasible # shipping
    /\ escalated' = escalated \cup Unresolved
    /\ manifest' = [rows |-> shipping \ infeasible, infeasible |-> infeasible,
                    suppressed |-> suppressed, escalated |-> escalated']
    /\ stage' = "planned"
    /\ UNCHANGED <<input, fromImages, mode, planner, forRepair, repair, eligible,
                   shipping, suppressed>>

NoManifest ==
    /\ stage = "C"
    /\ escalated' = escalated \cup Unresolved
    /\ stage' = "planned"
    /\ UNCHANGED <<input, fromImages, mode, planner, forRepair, repair, eligible,
                   shipping, suppressed, manifest>>

\* Fault: the agent's list is shown although nothing acted on it.
WheneverRepaired ==
    IF repair # None THEN repair.escalated \cup Unresolved
    ELSE {ToExcluded(r) : r \in forRepair} \cup Unresolved

\* PlanResult.escalated, which the page and the summary read after the run.
ResultEscalated ==
    IF repair # None /\ Applies
    THEN repair.escalated \cup Unresolved
    ELSE {ToExcluded(r) : r \in forRepair} \cup Unresolved

\* Validation or quoting is unavailable: the exception stops the run.
Fail ==
    /\ \/ stage = "B2" /\ mode # "off"
       \/ stage = "C" /\ shipping # {}
    /\ stage' = "failed"
    /\ UNCHANGED <<input, fromImages, mode, planner, forRepair, repair, eligible,
                   escalated, shipping, suppressed, manifest>>

Next ==
    \/ Validate \/ NoRepair \/ Dedupe \/ NoManifest \/ Fail
    \/ \E reply \in Reply : Repair(reply)
    \/ \E infeasible \in SUBSET shipping : Publish(infeasible)

Spec == Init /\ [][Next]_vars
-----------------------------------------------------------------------------
(* Properties.                                                             *)

TypeOK ==
    /\ input \in Input
    /\ fromImages \in BOOLEAN
    /\ mode \in {"off", "standard", "strict"}
    /\ planner \in {"off", "shadow", "on"}
    /\ stage \in {"B2", "B3", "B4", "C", "planned", "failed"}
    /\ forRepair \subseteq Recipient
    /\ eligible \subseteq Recipient
    /\ escalated \subseteq Excluded
    /\ repair # None => repair.repaired \subseteq Recipient /\ repair.escalated \subseteq Excluded
    /\ shipping \subseteq eligible
    /\ suppressed \subseteq Suppressed
    /\ manifest # None =>
          /\ manifest.rows \subseteq shipping
          /\ manifest.escalated \subseteq Excluded

IdsOf(list) == {r.id : r \in list}

InputKeys == {input.people[i].key : i \in DOMAIN input.people}
             \cup {input.unresolved[i] : i \in DOMAIN input.unresolved}

\* Nobody the run was asked about is missing from the manifest: each key the
\* input names is a row, infeasible, suppressed or escalated, although two
\* entries share a key, the agent answers for some and invents others
\* (Manifest.accounted_for, _adjudicate).
EveryKeyIsAccountedFor ==
    manifest # None =>
        InputKeys \subseteq KeysOf(manifest.rows) \cup KeysOf(manifest.infeasible)
                            \cup KeysOf(manifest.suppressed) \cup KeysOf(manifest.escalated)

\* Design 4's first check, per entry: each entry of the input is on exactly one
\* list of the manifest.  The one exception is an entry that was given to an
\* agent that could act, beside a later one with the same key
\* (validate_recipients, _adjudicate, dedupe_recipients).
Shadowing(r) == \E s \in forRepair : s.key = r.key /\ s.at > r.at
EachEntryOnOneList ==
    manifest # None =>
        LET lists == <<IdsOf(manifest.rows), IdsOf(manifest.infeasible),
                       IdsOf(manifest.suppressed), IdsOf(manifest.escalated)>>
        IN  \A r \in Roster :
                \/ Cardinality({n \in 1 .. 4 : r.id \in lists[n]}) = 1
                \/ r \in forRepair /\ repair # None /\ Applies /\ Shadowing(r)

\* "Every distinct pinned date at an address is a real, separate delivery, so
\* each keeps a parcel", and those without a date get one of their own only
\* where there is no single date to join: what ships to a doorstep does not
\* depend on the order of the list (_assign_holders).
DoorstepKeepsEachPin ==
    stage \in {"C", "planned"} =>
        /\ \A r \in KeptRows :
              LET parcels == {s \in shipping : s.address = r.address}
                  unpinned == \E s \in Doorstep(r) : s.pin = None
              IN  {s.pin : s \in parcels} =
                      IF unpinned /\ Cardinality(Pins(r)) # 1 THEN Pins(r) \cup {None}
                                                              ELSE Pins(r)
        /\ \A r, s \in shipping : r.address = s.address /\ r.pin = s.pin => r = s

\* Nobody is folded onto a parcel that does not ship, goes elsewhere, or goes
\* on a date other than the one they were pinned to (_consolidate_addresses).
FoldedOntoAParcel ==
    stage \in {"C", "planned"} =>
        \A r \in KeptRows, e \in suppressed : e.id = r.id =>
            \E s \in shipping : /\ s.id = e.onto
                                /\ s.address = r.address
                                /\ r.pin \in {s.pin, None}

\* Unless validation is off, every parcel goes to an address in the form the
\* validator returned for a valid one; and to the one it returned for what was
\* submitted, unless an agent may act.  A shadow run ships what a run without
\* an agent ships (validate_recipients, _adjudicate, plan_run).
ShipsToCheckedAddresses ==
    mode # "off" =>
        \A r \in shipping : \E a \in Valid :
            /\ r.address = Corrected[a]
            /\ planner # "on" => a = input.people[r.id].address

\* The people the result page lists for a human are those on the manifest,
\* also when the agent ran in shadow or was not available
\* (PlanResult.escalated, plan_run).
EscalationsAgree == manifest # None => ResultEscalated = manifest.escalated

\* "Everyone given to this function comes back in exactly one of the two"
\* (repair_addresses).
RepairReturnsEveryone ==
    repair # None =>
        \A r \in forRepair : (r.id \in IdsOf(repair.repaired)) # (r.id \in IdsOf(repair.escalated))
=============================================================================
