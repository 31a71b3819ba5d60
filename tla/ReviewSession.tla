--------------------------- MODULE ReviewSession ---------------------------
(***************************************************************************)
(* D2, human review (review.py, ReviewSession).  The session holds the     *)
(* shipments still in the run, re-solves them on every edit, applies an    *)
(* edit that leaves the carrier set alone, refuses one the thermal gate    *)
(* forbids, and holds one that moves the carrier set back for the operator *)
(* to confirm.  It ends by writing the plan to the ledger, or by recording *)
(* that it was rejected.                                                   *)
(*                                                                         *)
(* `shipments` maps the key of each shipment to the date it is pinned to,  *)
(* or None.  Input[r] stands for C1 to C3: the configurations of r, on any *)
(* date, that pass the thermal gate.  It is fixed for a session, because   *)
(* the quoter answers every lane it has quoted from its cache and the      *)
(* thermal model is pure.                                                  *)
(* Keys are numbers in input order, the order rows are written in.         *)
(*                                                                         *)
(* As in CarrierSolve, a fault is a plausible mistake in the definition    *)
(* that follows it, and no part of the specification.                      *)
(***************************************************************************)
EXTENDS CarrierSolve, Sequences

CONSTANTS
    Eligible,   \* the recipients B4 let into the run
    Suppressed, \* the sequence of recipients B4 suppressed as duplicates
    Input,      \* the feasible configurations of each eligible recipient
    ShipDates,  \* the candidate ship dates of the run
    Pinned,     \* the date the roster pins each recipient to, or None
    MaxEdits    \* bound: the edits one review proposes

\* What C6 may make of a run of the shipments R.
ManifestOver(R) ==
    [rows : Rows(R), carriers : SUBSET Carriers, cost : Nat,
     runnersUp : SUBSET SUBSET Carriers, stranded : SUBSET R, infeasible : SUBSET R,
     forced : BOOLEAN, suppressed : Seq(Nat)]

ASSUME ReviewAssumption ==
    /\ Eligible \subseteq Nat
    /\ IsFiniteSet(Eligible)
    /\ Suppressed \in Seq(Nat \ Eligible)
    /\ Input \in [Eligible -> SUBSET Enumerable]
    /\ ShipDates \subseteq Dates
    /\ Pinned \in [Eligible -> Dates \cup {None}]
    /\ MaxEdits \in Nat
    /\ None \notin Dates
    /\ None \notin PlanOver(Eligible) \cup ManifestOver(Eligible)

VARIABLES
    shipments, \* _shipments
    excluded,  \* _excluded, which B4's suppressions seed
    pending,   \* _pending: empty, or the one edit held back with its candidate
    history,   \* every classified edit
    manifest,  \* the plan of the last committed solve, or None
    terminal,  \* "open", "approved" or "rejected"
    ledger,    \* the shipment rows on disk, the last one per recipient
    runRecord  \* the run records that carry completed_at

vars == <<shipments, excluded, pending, history, manifest, terminal, ledger, runRecord>>

Edit == [kind : {"ship_date"}, recipient : Eligible, date : ShipDates]
          \cup [kind : {"exclude"}, recipient : Eligible, date : {None}]

Pins == UNION {[R -> Dates \cup {None}] : R \in SUBSET Eligible}

\* solve.shipment_options for every shipment of a set: a pin takes the place
\* of the candidate dates, and need not be one of them.
Options(pins) ==
    [r \in DOMAIN pins |->
        {o \in Input[r] : IF pins[r] = None THEN o.date \in ShipDates ELSE o.date = pins[r]}]

CarriersOf(m) == IF m = None THEN {} ELSE m.carriers

Solved(pins, gone) == AssembleManifest(Options(pins), gone)

Init ==
    /\ shipments = Pinned
    /\ excluded = Suppressed
    /\ pending = {}
    /\ history = <<>>
    /\ manifest = Solved(shipments, excluded)
    /\ terminal = "open"
    /\ ledger = [r \in {} |-> None]
    /\ runRecord = {}
-----------------------------------------------------------------------------
(* Editing.                                                                *)

\* _apply; an edit of a recipient no longer in the run is an error.
Apply(e) ==
    IF e.kind = "exclude"
    THEN Restrict(shipments, DOMAIN shipments \ {e.recipient})
    ELSE [shipments EXCEPT ![e.recipient] = e.date]

\* Fault: the gate is asked about the shipments before the edit.
RefusalOfTheOld(e, pins) ==
    e.kind = "ship_date" /\ Options(shipments)[e.recipient] = {}

\* _thermal_refusal: only a pin can leave its own shipment with nothing.
ThermalRefusal(e, pins) ==
    e.kind = "ship_date" /\ Options(pins)[e.recipient] = {}

\* Fault: only the number of carriers is compared.
MovedInNumber(pins) ==
    LET after == Best(Options(pins))
    IN  Cardinality(CarriersOf(manifest))
          # IF after = None THEN 0 ELSE Cardinality(CarriersUsed(after.rows))

\* The solve of a candidate moves the carriers the session's plan uses.
Moved(pins) ==
    LET after == Best(Options(pins))
    IN  CarriersOf(manifest) # IF after = None THEN {} ELSE CarriersUsed(after.rows)

\* Fault: an edit that is held back is not remembered.
ClassifiedIfDecided(e, outcome) ==
    history' = IF outcome = "pair_moved" THEN history
               ELSE Append(history, [edit |-> e, outcome |-> outcome])

Classified(e, outcome) ==
    history' = Append(history, [edit |-> e, outcome |-> outcome])

\* Fault: the excluded shipment is looked up after it is gone.
CommitThenLookUp(e, pins) ==
    /\ excluded' = IF e.kind = "exclude" /\ e.recipient \in DOMAIN pins
                   THEN Append(excluded, e.recipient)
                   ELSE excluded
    /\ shipments' = pins
    /\ manifest' = Solved(pins, excluded')

\* _commit: the session takes the candidate whole, whatever it held before.
Commit(e, pins) ==
    /\ excluded' = IF e.kind = "exclude" /\ e.recipient \in DOMAIN shipments
                   THEN Append(excluded, e.recipient)
                   ELSE excluded
    /\ shipments' = pins
    /\ manifest' = Solved(pins, excluded')

CanPropose(e) ==
    /\ terminal = "open"
    /\ e.recipient \in DOMAIN shipments
    /\ Len(history) < MaxEdits

ProposeRefused(e) ==
    /\ CanPropose(e)
    /\ ThermalRefusal(e, Apply(e))
    /\ Classified(e, "refused")
    /\ UNCHANGED <<shipments, excluded, pending, manifest, terminal, ledger, runRecord>>

\* Applied at once.  An edit held back earlier stays held back.
ProposeUnchanged(e) ==
    /\ CanPropose(e)
    /\ ~ThermalRefusal(e, Apply(e))
    /\ ~Moved(Apply(e))
    /\ Commit(e, Apply(e))
    /\ Classified(e, "unchanged")
    /\ UNCHANGED <<pending, terminal, ledger, runRecord>>

\* Held back.  It takes the place of an edit held back earlier.
ProposeMoved(e) ==
    /\ CanPropose(e)
    /\ ~ThermalRefusal(e, Apply(e))
    /\ Moved(Apply(e))
    /\ pending' = {[edit |-> e, candidate |-> Apply(e)]}
    /\ Classified(e, "pair_moved")
    /\ UNCHANGED <<shipments, excluded, manifest, terminal, ledger, runRecord>>

\* confirm commits the candidate as it was built when the edit was proposed,
\* and looks at nothing else: not at edits applied since, not at `terminal`.
Confirm ==
    \E p \in pending :
        /\ pending' = {}
        /\ Commit(p.edit, p.candidate)
        /\ UNCHANGED <<history, terminal, ledger, runRecord>>

Discard ==
    /\ pending # {}
    /\ pending' = {}
    /\ UNCHANGED <<shipments, excluded, history, manifest, terminal, ledger, runRecord>>
-----------------------------------------------------------------------------
(* The terminal states.                                                    *)

\* Fault: an edit may be pending.
CanApproveAnyway == terminal = "open" /\ manifest # None

CanApprove ==
    /\ terminal = "open"
    /\ manifest # None
    /\ pending = {}

\* Fault: a retried approval skips the recipients that have a row.
AppendedOnce(W) ==
    [r \in DOMAIN ledger \cup W |-> IF r \in DOMAIN ledger THEN ledger[r] ELSE manifest.rows[r]]

\* The rows the ledger folds to once those of W have been appended.
Appended(W) ==
    [r \in DOMAIN ledger \cup W |-> IF r \in W THEN manifest.rows[r] ELSE ledger[r]]

\* _close.
Close(state) ==
    /\ runRecord' = runRecord \cup
         {[state    |-> state,
           carriers |-> CarriersOf(manifest),
           cost     |-> IF manifest = None THEN None ELSE manifest.cost,
           packets  |-> IF manifest = None THEN 0 ELSE Cardinality(DOMAIN manifest.rows),
           gone     |-> Len(excluded),
           edits    |-> history]}
    /\ terminal' = state

Approve ==
    /\ CanApprove
    /\ ledger' = Appended(DOMAIN manifest.rows)
    /\ Close("approved")
    /\ UNCHANGED <<shipments, excluded, pending, history, manifest>>

\* An append fails, of a row or of the run record: the rows up to k's are on
\* disk and the review has not ended.
ApproveFails(k) ==
    /\ CanApprove
    /\ ledger' = Appended({r \in DOMAIN manifest.rows : r =< k})
    /\ UNCHANGED <<shipments, excluded, pending, history, manifest, terminal, runRecord>>

Reject ==
    /\ terminal = "open"
    /\ Close("rejected")
    /\ UNCHANGED <<shipments, excluded, pending, history, manifest, ledger>>
-----------------------------------------------------------------------------
Propose(e) == ProposeRefused(e) \/ ProposeUnchanged(e) \/ ProposeMoved(e)

Next ==
    \/ \E e \in Edit : Propose(e)
    \/ Confirm
    \/ Discard
    \/ Approve
    \/ \E k \in Eligible : ApproveFails(k)
    \/ Reject

Spec == Init /\ [][Next]_vars
-----------------------------------------------------------------------------
(* Properties.                                                             *)

TypeOK ==
    /\ shipments \in Pins
    /\ excluded \in Seq(Nat)
    /\ pending \in SUBSET [edit : Edit, candidate : Pins]
    /\ \A p, q \in pending : p = q
    /\ history \in Seq([edit : Edit, outcome : {"refused", "unchanged", "pair_moved"}])
    /\ terminal \in {"open", "approved", "rejected"}
    /\ DOMAIN ledger \subseteq Eligible

\* However edits are proposed, applied, held back, overtaken and confirmed,
\* nobody drops out of the review without being listed as excluded.  A
\* candidate is built from the shipments of one moment and committed at
\* another (propose, confirm, _commit).
NoRecipientLost == Eligible \subseteq DOMAIN shipments \cup Range(excluded)

\* The thermal gate is not the operator's to override: no sequence of edits
\* leaves a shipment pinned to a date it cannot make, unless the roster did
\* (_thermal_refusal).
GateHolds ==
    \A r \in DOMAIN shipments :
        shipments[r] # Pinned[r] => Options(shipments)[r] # {}

\* The carriers of the whole run change only when the operator confirms the
\* edit that changes them, and then to the plan of that edit's candidate
\* (propose: "proposed, not applied").
CarriersMoveByConsent ==
    [][CarriersOf(manifest') # CarriersOf(manifest)
       => \E p \in pending : pending' = {} /\ shipments' = p.candidate]_vars

\* A review ends once: the recorded end, the run record and the shipment rows
\* stay what they were, and after an approval so do the shipments and the
\* plan behind them, although confirm asks nothing about the end of the
\* review (approve refuses while an edit is pending).
EndIsFinal ==
    [][/\ terminal # "open" => UNCHANGED <<terminal, ledger, runRecord>>
       /\ terminal = "approved" => UNCHANGED <<shipments, excluded, manifest>>]_vars

\* An approved plan is in the ledger whole: every row of the manifest, and a
\* run record whose cost and packet count are those of its rows, also when an
\* earlier approval broke off between two appends and edits followed it.
LedgerHoldsThePlan ==
    terminal = "approved" =>
        /\ manifest # None
        /\ \A r \in DOMAIN manifest.rows :
              r \in DOMAIN ledger /\ ledger[r] = manifest.rows[r]
        /\ \A rec \in runRecord :
              /\ rec.cost = TotalCost([r \in DOMAIN manifest.rows |-> ledger[r]])
              /\ rec.packets = Cardinality(DOMAIN manifest.rows)

\* Nobody is silently left out of an approved plan: every recipient B4 let in
\* has a shipment row, or is listed as excluded, or is one no configuration
\* can carry (assemble_manifest refuses a plan that covers less).
ApprovalIsComplete ==
    terminal = "approved" /\ manifest # None =>
        Eligible \subseteq DOMAIN ledger \cup Range(excluded) \cup manifest.infeasible

\* The recorded edits explain the plan: every exclusion made in the review,
\* and every date a shipment is pinned to that is not the roster's, was
\* proposed and not refused.
HistoryExplainsThePlan ==
    LET Asked(e) == \E i \in DOMAIN history :
                       history[i].edit = e /\ history[i].outcome # "refused"
    IN  /\ \A r \in Range(excluded) \cap Eligible :
              Asked([kind |-> "exclude", recipient |-> r, date |-> None])
        /\ \A r \in DOMAIN shipments : shipments[r] # Pinned[r] =>
              Asked([kind |-> "ship_date", recipient |-> r, date |-> shipments[r]])

\* What the manifest's documentation promises of every recipient: it is in
\* one of the plan and the excluded list, never in both
\* (planning/manifest.py accounted_for).  A confirmed candidate that predates
\* an exclusion brings the excluded shipment back.
EachRecipientOnce ==
    manifest # None => DOMAIN manifest.rows \cap Range(excluded) = {}
=============================================================================
