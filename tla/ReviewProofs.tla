----------------------------- MODULE ReviewProofs -----------------------------
(***************************************************************************)
(* What a review keeps for any number of recipients, dates and edits, and  *)
(* what a conversation over it keeps for any number of turns and of tool   *)
(* calls, whatever the model and the judge answer.  First the edits (IInv),*)
(* then the plan they lead to and its ledger rows (PlanInv), then the      *)
(* conversation (VoiceInv), every step of which is a step of the review.   *)
(***************************************************************************)
EXTENDS Conversation, CarrierSolveProofs

Outcomes == {"refused", "unchanged", "pair_moved"}
Classification == [edit : Edit, outcome : Outcomes]

SessionType ==
    /\ shipments \in Pins
    /\ excluded \in Seq(Nat)
    /\ pending \in SUBSET [edit : Edit, candidate : Pins]
    /\ history \in Seq(Classification)

\* Whom a candidate leaves out is excluded by now, or by the edit behind it.
Accounted(pins, e) ==
    \A r \in Eligible : \/ r \in DOMAIN pins
                        \/ r \in Range(excluded)
                        \/ e.kind = "exclude" /\ e.recipient = r /\ r \in DOMAIN shipments

Recoverable ==
    /\ NoRecipientLost
    /\ \A p \in pending : Accounted(p.candidate, p.edit)

Passes(pins) == \A r \in DOMAIN pins : pins[r] # Pinned[r] => Options(pins)[r] # {}

Gated == Passes(shipments) /\ \A p \in pending : Passes(p.candidate)

\* h is the history, now or after a step.
Asked(h, e) == \E i \in DOMAIN h : h[i].edit = e /\ h[i].outcome # "refused"

PinEdit(r, d) == [kind |-> "ship_date", recipient |-> r, date |-> d]
ExcludeEdit(r) == [kind |-> "exclude", recipient |-> r, date |-> None]

Explains(h, pins) == \A r \in DOMAIN pins : pins[r] # Pinned[r] => Asked(h, PinEdit(r, pins[r]))

Explained ==
    /\ \A r \in Range(excluded) \cap Eligible : Asked(history, ExcludeEdit(r))
    /\ Explains(history, shipments)
    /\ \A p \in pending : Asked(history, p.edit) /\ Explains(history, p.candidate)

Settled == terminal = "approved" => pending = {}

IInv ==
    /\ SessionType
    /\ Recoverable
    /\ Gated
    /\ Explained
    /\ Settled

\* The plan on show is the solve of what is in the run, whether an edit was
\* applied, held back or confirmed late, and a review has no record of its
\* end before it ends.
PlanInv ==
    /\ manifest = Solved(shipments, excluded)
    /\ terminal = "open" => runRecord = {}
    /\ LedgerHoldsThePlan
-----------------------------------------------------------------------------
(* The operators.                                                          *)

\* Appending to a sequence adds one element to it.
LEMMA AppendRange ==
  ASSUME NEW S, NEW s \in Seq(S), NEW x \in S
  PROVE  /\ Range(Append(s, x)) = Range(s) \cup {x}
         /\ \A i \in DOMAIN s : i \in DOMAIN Append(s, x) /\ Append(s, x)[i] = s[i]
         /\ Append(s, x) \in Seq(S)
         /\ \E i \in DOMAIN Append(s, x) : Append(s, x)[i] = x
<1>1. /\ DOMAIN s = 1 .. Len(s) /\ DOMAIN Append(s, x) = 1 .. Len(s) + 1
      /\ \A i \in 1 .. Len(s) : Append(s, x)[i] = s[i]
      /\ Append(s, x)[Len(s) + 1] = x /\ Len(s) \in Nat /\ Append(s, x) \in Seq(S)
  OBVIOUS
<1>2. 1 .. Len(s) + 1 = (1 .. Len(s)) \cup {Len(s) + 1}
  BY <1>1
<1> QED BY <1>1, <1>2 DEF Range

\* A set of shipments knows its pins.
LEMMA PinsType ==
  /\ \A pins \in Pins : /\ DOMAIN pins \subseteq Eligible
                        /\ \A r \in DOMAIN pins : pins[r] \in Dates \cup {None}
  /\ \A R \in SUBSET Eligible : [R -> Dates \cup {None}] \subseteq Pins
BY DEF Pins

\* What _apply does: an exclusion takes one shipment away, a pin sets the
\* date of one shipment, and both leave the others as they are.
LEMMA ApplyEffect ==
  ASSUME SessionType, NEW e \in Edit, e.recipient \in DOMAIN shipments
  PROVE  /\ Apply(e) \in Pins
         /\ e.kind = "exclude" =>
              /\ DOMAIN Apply(e) = DOMAIN shipments \ {e.recipient}
              /\ \A r \in DOMAIN Apply(e) : Apply(e)[r] = shipments[r]
              /\ e = ExcludeEdit(e.recipient)
         /\ e.kind # "exclude" =>
              /\ DOMAIN Apply(e) = DOMAIN shipments
              /\ \A r \in DOMAIN Apply(e) :
                    Apply(e)[r] = IF r = e.recipient THEN e.date ELSE shipments[r]
              /\ e = PinEdit(e.recipient, e.date) /\ e.date \in Dates
<1>1. shipments \in [DOMAIN shipments -> Dates \cup {None}] /\ DOMAIN shipments \in SUBSET Eligible
  BY DEF SessionType, Pins
<1>2. \/ e.kind = "ship_date" /\ e.date \in Dates /\ e = PinEdit(e.recipient, e.date)
      \/ e.kind = "exclude" /\ e = ExcludeEdit(e.recipient)
  BY ReviewAssumption DEF Edit, PinEdit, ExcludeEdit
<1>3. CASE e.kind = "exclude"
  <2> DEFINE R == DOMAIN shipments \ {e.recipient}
  <2>1. Apply(e) = [r \in R |-> shipments[r]]
    BY <1>3 DEF Apply, Restrict
  <2>2. Apply(e) \in [R -> Dates \cup {None}] /\ R \in SUBSET Eligible
    BY <1>1, <2>1
  <2> QED BY <1>2, <1>3, <2>1, <2>2, PinsType
<1>4. CASE e.kind # "exclude"
  <2>1. Apply(e) = [shipments EXCEPT ![e.recipient] = e.date]
    BY <1>4 DEF Apply
  <2>2. Apply(e) \in [DOMAIN shipments -> Dates \cup {None}]
    BY <1>1, <1>2, <1>4, <2>1
  <2> QED BY <1>1, <1>2, <1>4, <2>1, <2>2, PinsType
<1> QED BY <1>3, <1>4

\* The options of a shipment depend on its own pin alone.
LEMMA OptionsOfOne ==
  ASSUME NEW p, NEW q, NEW r \in DOMAIN p, r \in DOMAIN q, p[r] = q[r]
  PROVE  Options(p)[r] = Options(q)[r]
BY DEF Options

\* An edit that was not refused leaves every shipment it or an earlier one
\* pinned an option: an exclusion touches no pin, and a pin was put to the
\* gate.
LEMMA ApplyPasses ==
  ASSUME SessionType, Passes(shipments), NEW e \in Edit, e.recipient \in DOMAIN shipments,
         ~ThermalRefusal(e, Apply(e))
  PROVE  Passes(Apply(e))
<1> SUFFICES ASSUME NEW r \in DOMAIN Apply(e), Apply(e)[r] # Pinned[r]
             PROVE  Options(Apply(e))[r] # {}
  BY DEF Passes
<1>1. r \in DOMAIN shipments
  BY ApplyEffect
<1>2. CASE Apply(e)[r] = shipments[r]
  BY <1>1, <1>2, OptionsOfOne DEF Passes
<1>3. CASE Apply(e)[r] # shipments[r]
  <2>1. r = e.recipient /\ e.kind = "ship_date"
    <3>1. e.kind # "exclude"
      BY <1>3, ApplyEffect
    <3>2. r = e.recipient /\ e = PinEdit(e.recipient, e.date)
      BY <1>3, <3>1, ApplyEffect
    <3> QED BY <3>2 DEF PinEdit
  <2> QED BY <2>1 DEF ThermalRefusal
<1> QED BY <1>2, <1>3

\* Classifying an edit forgets nothing, and an edit that was not refused is
\* one that was asked for.
LEMMA ClassifiedEffect ==
  ASSUME SessionType, NEW e \in Edit, NEW outcome \in Outcomes, Classified(e, outcome)
  PROVE  /\ history' \in Seq(Classification)
         /\ \A d : Asked(history, d) => Asked(history', d)
         /\ outcome # "refused" => Asked(history', e)
<1> DEFINE x == [edit |-> e, outcome |-> outcome]
<1>1. x \in Classification /\ history \in Seq(Classification) /\ history' = Append(history, x)
  BY DEF SessionType, Classification, Classified
<1>2. /\ history' \in Seq(Classification)
      /\ \A i \in DOMAIN history : i \in DOMAIN history' /\ history'[i] = history[i]
      /\ \E i \in DOMAIN history' : history'[i] = x
  BY <1>1, AppendRange
<1> QED BY <1>2 DEF Asked

\* _commit lists the one it takes out, if it was still in, and nobody else.
LEMMA CommitEffect ==
  ASSUME SessionType, NEW e \in Edit, NEW pins \in Pins, Commit(e, pins)
  PROVE  /\ shipments' = pins
         /\ excluded' \in Seq(Nat)
         /\ Range(excluded') =
              IF e.kind = "exclude" /\ e.recipient \in DOMAIN shipments
              THEN Range(excluded) \cup {e.recipient} ELSE Range(excluded)
<1>1. excluded \in Seq(Nat) /\ e.recipient \in Nat
  BY ReviewAssumption DEF SessionType, Edit
<1>2. Range(Append(excluded, e.recipient)) = Range(excluded) \cup {e.recipient}
      /\ Append(excluded, e.recipient) \in Seq(Nat)
  BY <1>1, AppendRange
<1> QED BY <1>1, <1>2 DEF Commit
-----------------------------------------------------------------------------
(* The invariant.                                                          *)

LEMMA InvInit == Init => IInv
<1> SUFFICES ASSUME Init PROVE IInv
  OBVIOUS
<1>1. /\ shipments = Pinned /\ shipments \in Pins /\ pending = {}
      /\ excluded \in Seq(Nat) /\ Range(excluded) \cap Eligible = {}
  <2>1. shipments \in [Eligible -> Dates \cup {None}]
    BY ReviewAssumption DEF Init
  <2>2. Suppressed \in Seq(Nat \ Eligible)
    BY ReviewAssumption
  <2>3. \A i \in DOMAIN Suppressed : Suppressed[i] \in Nat \ Eligible
    BY <2>2
  <2>4. Suppressed \in Seq(Nat)
    BY <2>2
  <2>5. Range(Suppressed) \subseteq Nat \ Eligible
    BY <2>3 DEF Range
  <2> QED BY <2>1, <2>4, <2>5, PinsType DEF Init
<1>2. \A S : <<>> \in Seq(S)
  OBVIOUS
<1>3. history = <<>> /\ history \in Seq(Classification)
  BY <1>2, Zenon DEF Init
<1>4. SessionType
  BY <1>1, <1>3 DEF SessionType
<1>5. Recoverable
  <2>1. DOMAIN shipments = Eligible
    BY <1>1, ReviewAssumption
  <2> QED BY <1>1, <2>1 DEF Recoverable, NoRecipientLost
<1>6. Gated
  BY <1>1 DEF Gated, Passes
<1>7. Explained /\ Settled
  BY <1>1 DEF Explained, Explains, Settled
<1> QED BY <1>4, <1>5, <1>6, <1>7 DEF IInv

\* An edit that is applied at once.  An edit held back stays held back; if it
\* lacks the shipment this edit takes out, that one is listed now.
LEMMA UnchangedStep ==
  ASSUME IInv, NEW e \in Edit, ProposeUnchanged(e)
  PROVE  IInv'
<1> USE DEF IInv
<1>1. /\ e.recipient \in DOMAIN shipments /\ terminal = "open"
      /\ ~ThermalRefusal(e, Apply(e)) /\ Commit(e, Apply(e))
      /\ Classified(e, "unchanged") /\ UNCHANGED <<pending, terminal>>
  BY DEF ProposeUnchanged, CanPropose
<1>2. /\ Apply(e) \in Pins /\ shipments' = Apply(e) /\ excluded' \in Seq(Nat)
      /\ Range(excluded') = IF e.kind = "exclude" THEN Range(excluded) \cup {e.recipient}
                            ELSE Range(excluded)
  BY <1>1, ApplyEffect, CommitEffect
<1>3. /\ history' \in Seq(Classification) /\ Asked(history', e)
      /\ \A d : Asked(history, d) => Asked(history', d)
  BY <1>1, ClassifiedEffect DEF Outcomes
<1>4. SessionType'
  BY <1>1, <1>2, <1>3 DEF SessionType
<1>5. \A r \in DOMAIN shipments : r \in DOMAIN shipments' \/ r \in Range(excluded')
  BY <1>1, <1>2, ApplyEffect
<1>6. Range(excluded) \subseteq Range(excluded')
  BY <1>2
<1>7. Recoverable'
  <2>1. NoRecipientLost'
    BY <1>5, <1>6 DEF Recoverable, NoRecipientLost
  <2>2. \A p \in pending : Accounted(p.candidate, p.edit)'
    BY <1>5, <1>6 DEF Recoverable, Accounted
  <2> QED BY <1>1, <2>1, <2>2 DEF Recoverable
<1>8. Gated'
  <2>1. Passes(shipments')
    BY <1>1, <1>2, ApplyPasses DEF Gated
  <2> QED BY <1>1, <2>1 DEF Gated, Passes, Options
<1>9. Explained'
  <2>1. \A r \in Range(excluded') \cap Eligible : Asked(history', ExcludeEdit(r))
    BY <1>1, <1>2, <1>3, ApplyEffect DEF Explained
  <2>2. Explains(history', shipments')
    <3> SUFFICES ASSUME NEW r \in DOMAIN shipments', shipments'[r] # Pinned[r]
                 PROVE  Asked(history', PinEdit(r, shipments'[r]))
      BY DEF Explains
    <3>1. CASE r \in DOMAIN shipments /\ shipments'[r] = shipments[r]
      BY <1>3, <3>1 DEF Explained, Explains
    <3>2. CASE ~(r \in DOMAIN shipments /\ shipments'[r] = shipments[r])
      <4>1. e = PinEdit(r, shipments'[r])
        BY <1>1, <1>2, <3>2, ApplyEffect
      <4> QED BY <1>3, <4>1
    <3> QED BY <3>1, <3>2
  <2>3. \A p \in pending : Asked(history', p.edit) /\ Explains(history', p.candidate)
    BY <1>3 DEF Explained, Explains
  <2> QED BY <1>1, <2>1, <2>2, <2>3 DEF Explained
<1>10. Settled'
  BY <1>1 DEF Settled
<1> QED BY <1>4, <1>7, <1>8, <1>9, <1>10

\* An edit that is held back, with a candidate built from what is in the run.
LEMMA MovedStep ==
  ASSUME IInv, NEW e \in Edit, ProposeMoved(e)
  PROVE  IInv'
<1> USE DEF IInv
<1>1. /\ e.recipient \in DOMAIN shipments /\ terminal = "open"
      /\ ~ThermalRefusal(e, Apply(e)) /\ Classified(e, "pair_moved")
      /\ pending' = {[edit |-> e, candidate |-> Apply(e)]}
      /\ UNCHANGED <<shipments, excluded, terminal>>
  BY DEF ProposeMoved, CanPropose
<1>2. Apply(e) \in Pins /\ Passes(Apply(e))
  BY <1>1, ApplyEffect, ApplyPasses DEF Gated
<1>3. /\ history' \in Seq(Classification) /\ Asked(history', e)
      /\ \A d : Asked(history, d) => Asked(history', d)
  BY <1>1, ClassifiedEffect DEF Outcomes
<1>4. SessionType'
  BY <1>1, <1>2, <1>3 DEF SessionType
<1>5. Recoverable'
  <2>1. Accounted(Apply(e), e)
    BY <1>1, ApplyEffect DEF Accounted, Recoverable, NoRecipientLost
  <2> QED BY <1>1, <2>1 DEF Recoverable, NoRecipientLost, Accounted
<1>6. Gated'
  BY <1>1, <1>2 DEF Gated, Passes, Options
<1>7. Explained'
  <2>1. Explains(history', Apply(e))
    <3> SUFFICES ASSUME NEW r \in DOMAIN Apply(e), Apply(e)[r] # Pinned[r]
                 PROVE  Asked(history', PinEdit(r, Apply(e)[r]))
      BY DEF Explains
    <3>1. CASE r \in DOMAIN shipments /\ Apply(e)[r] = shipments[r]
      BY <1>3, <3>1 DEF Explained, Explains
    <3>2. CASE ~(r \in DOMAIN shipments /\ Apply(e)[r] = shipments[r])
      <4>1. e = PinEdit(r, Apply(e)[r])
        BY <1>1, <3>2, ApplyEffect
      <4> QED BY <1>3, <4>1
    <3> QED BY <3>1, <3>2
  <2>2. \A p \in pending' : Asked(history', p.edit) /\ Explains(history', p.candidate)
    BY <1>1, <1>3, <2>1
  <2>3. \A r \in Range(excluded') \cap Eligible : Asked(history', ExcludeEdit(r))
    BY <1>1, <1>3 DEF Explained
  <2>4. Explains(history', shipments')
    BY <1>1, <1>3 DEF Explained, Explains
  <2> QED BY <2>2, <2>3, <2>4 DEF Explained
<1>8. Settled'
  BY <1>1 DEF Settled
<1> QED BY <1>4, <1>5, <1>6, <1>7, <1>8

\* A candidate that is confirmed, at whatever time: whom it lacks is excluded
\* by now, or is the one its own edit takes out.
LEMMA ConfirmStep ==
  ASSUME IInv, Confirm
  PROVE  IInv'
<1> USE DEF IInv
<1>1. PICK p \in pending : pending' = {} /\ Commit(p.edit, p.candidate)
                           /\ UNCHANGED <<history, terminal>>
  BY DEF Confirm
<1>2. p.edit \in Edit /\ p.candidate \in Pins
  BY DEF SessionType
<1>3. /\ shipments' = p.candidate /\ excluded' \in Seq(Nat)
      /\ Range(excluded') =
           IF p.edit.kind = "exclude" /\ p.edit.recipient \in DOMAIN shipments
           THEN Range(excluded) \cup {p.edit.recipient} ELSE Range(excluded)
  BY <1>1, <1>2, CommitEffect
<1>4. SessionType'
  BY <1>1, <1>2, <1>3 DEF SessionType
<1>5. Recoverable'
  BY <1>1, <1>3 DEF Recoverable, NoRecipientLost, Accounted
<1>6. Gated'
  <2>1. Passes(shipments')
    BY <1>3 DEF Gated
  <2> QED BY <1>1, <2>1 DEF Gated, Passes, Options
<1>7. Explained'
  <2>1. \A d : Asked(history', d) <=> Asked(history, d)
    BY <1>1 DEF Asked
  <2>2. p.edit.kind = "exclude" => p.edit = ExcludeEdit(p.edit.recipient)
    BY <1>2 DEF Edit, ExcludeEdit
  <2> QED BY <1>1, <1>3, <2>1, <2>2 DEF Explained, Explains
<1>8. Settled'
  BY <1>1 DEF Settled
<1> QED BY <1>4, <1>5, <1>6, <1>7, <1>8

\* Every other step only classifies, drops the edit held back or ends the
\* review, and an approval ends it with nothing held back.
LEMMA OtherStep ==
  ASSUME IInv, \/ \E e \in Edit : ProposeRefused(e)
               \/ Discard \/ Approve \/ Reject \/ UNCHANGED vars
               \/ \E k \in Eligible : ApproveFails(k)
  PROVE  IInv'
<1> USE DEF IInv
<1>1. /\ UNCHANGED <<shipments, excluded>> /\ pending' \subseteq pending
      /\ history' \in Seq(Classification) /\ \A d : Asked(history, d) => Asked(history', d)
  <2>1. ASSUME NEW e \in Edit, ProposeRefused(e)
        PROVE  /\ UNCHANGED <<shipments, excluded, pending>>
               /\ history' \in Seq(Classification) /\ \A d : Asked(history, d) => Asked(history', d)
    BY <2>1, ClassifiedEffect DEF ProposeRefused, Outcomes
  <2>2. ASSUME UNCHANGED history PROVE \A d : Asked(history, d) => Asked(history', d)
    BY <2>2 DEF Asked
  <2> QED BY <2>1, <2>2 DEF SessionType, Discard, Approve, Reject, vars, ApproveFails
<1>2. Settled'
  BY DEF ProposeRefused, CanPropose, Discard, Approve, CanApprove, Close, Reject, vars,
         ApproveFails, Settled
<1>3. SessionType'
  BY <1>1 DEF SessionType
<1>4. Recoverable'
  BY <1>1 DEF Recoverable, NoRecipientLost, Accounted
<1>5. Gated'
  BY <1>1 DEF Gated, Passes, Options
<1>6. Explained'
  BY <1>1 DEF Explained, Explains
<1> QED BY <1>2, <1>3, <1>4, <1>5, <1>6
-----------------------------------------------------------------------------
(* The theorems.                                                           *)

\* The parts of the invariant hold together.
THEOREM Invariance == Spec => []IInv
<1>1. IInv /\ [Next]_vars => IInv'
  <2> SUFFICES ASSUME IInv, [Next]_vars PROVE IInv'
    OBVIOUS
  <2>1. ASSUME NEW e \in Edit, Propose(e) PROVE IInv'
    BY <2>1, UnchangedStep, MovedStep, OtherStep DEF Propose
  <2> QED BY <2>1, ConfirmStep, OtherStep DEF Next
<1> QED BY InvInit, <1>1, PTL DEF Spec

\* Nobody drops out of a review unlisted, whatever its length.
THEOREM NobodyLost == Spec => []NoRecipientLost
<1>1. IInv => NoRecipientLost
  BY DEF IInv, Recoverable
<1> QED BY <1>1, Invariance, PTL

\* No sequence of edits gets past the thermal gate.
THEOREM GateIsFinal == Spec => []GateHolds
<1>1. IInv => GateHolds
  BY DEF IInv, Gated, Passes, GateHolds
<1> QED BY <1>1, Invariance, PTL

\* The recorded edits account for every exclusion and every pin.
THEOREM HistoryIsComplete == Spec => []HistoryExplainsThePlan
<1>1. IInv => HistoryExplainsThePlan
  BY DEF IInv, Explained, Explains, Asked, PinEdit, ExcludeEdit, HistoryExplainsThePlan
<1> QED BY <1>1, Invariance, PTL

\* The end of a review is final, and an approved plan does not move again.
THEOREM EndStands == Spec => EndIsFinal
<1>1. IInv /\ [Next]_vars =>
        [/\ terminal # "open" => UNCHANGED <<terminal, ledger, runRecord>>
         /\ terminal = "approved" => UNCHANGED <<shipments, excluded, manifest>>]_vars
  <2> SUFFICES ASSUME IInv, [Next]_vars
               PROVE  /\ terminal # "open" => UNCHANGED <<terminal, ledger, runRecord>>
                      /\ terminal = "approved" => UNCHANGED <<shipments, excluded, manifest>>
    OBVIOUS
  <2>1. ASSUME NEW e \in Edit, Propose(e) PROVE terminal = "open"
    BY <2>1 DEF Propose, ProposeRefused, ProposeUnchanged, ProposeMoved, CanPropose
  <2>2. CASE Confirm
    <3>1. terminal # "approved"
      BY <2>2 DEF Confirm, IInv, Settled
    <3> QED BY <2>2, <3>1 DEF Confirm
  <2>3. CASE Discard
    BY <2>3 DEF Discard
  <2>4. Approve \/ Reject \/ (\E k \in Eligible : ApproveFails(k)) => terminal = "open"
    BY DEF Approve, Reject, ApproveFails, CanApprove
  <2>5. CASE UNCHANGED vars
    BY <2>5 DEF vars
  <2> QED BY <2>1, <2>2, <2>3, <2>4, <2>5 DEF Next
<1> QED BY <1>1, Invariance, PTL DEF Spec, EndIsFinal
-----------------------------------------------------------------------------
(* The plan.  What the solver finds is known from CarrierSolveProofs.      *)

\* What the session gives the solver is something it can solve.
LEMMA OptionsSolvable ==
  ASSUME NEW pins \in Pins
  PROVE  /\ Run(Options(pins)) /\ None \notin PlanOver(DOMAIN Options(pins))
         /\ DOMAIN Options(pins) = DOMAIN pins /\ DOMAIN pins \in SUBSET Eligible
<1>1. DOMAIN pins \in SUBSET Eligible /\ DOMAIN Options(pins) = DOMAIN pins
  BY PinsType DEF Options
<1>2. IsFiniteSet(DOMAIN pins)
  BY <1>1, ReviewAssumption, FS_Subset
<1>3. Options(pins) \in [DOMAIN pins -> SUBSET Option]
  <2>1. \A r \in DOMAIN pins : Input[r] \in SUBSET Option
    BY <1>1, ReviewAssumption DEF Enumerable
  <2> QED BY <2>1 DEF Options
<1>4. None \notin PlanOver(DOMAIN pins)
  BY <1>1, ReviewAssumption, PlanOverMonotonic
<1> QED BY <1>1, <1>2, <1>3, <1>4 DEF Run

\* A manifest is the best plan: there is one when there is the other, with
\* its rows, their carriers and their cost, and what is in no row is listed.
LEMMA SolvedFacts ==
  ASSUME NEW pins \in Pins, NEW gone \in Seq(Nat)
  PROVE  /\ CarriersOf(Solved(pins, gone)) =
              IF Best(Options(pins)) = None THEN {}
              ELSE CarriersUsed(Best(Options(pins)).rows)
         /\ Solved(pins, gone) # None =>
              LET m == Solved(pins, gone)
              IN  /\ m.rows \in [DOMAIN m.rows -> Option] /\ m.cost = TotalCost(m.rows)
                  /\ DOMAIN m.rows = DOMAIN pins \ m.infeasible
<1> DEFINE opts == Options(pins)
           best == Best(opts)
           m == Solved(pins, gone)
<1>1. /\ Run(opts) /\ None \notin PlanOver(DOMAIN opts)
      /\ DOMAIN opts = DOMAIN pins /\ DOMAIN pins \in SUBSET Eligible
  BY OptionsSolvable
<1>2. m = AssembleManifest(opts, gone)
  BY DEF Solved
<1> HIDE DEF opts
<1>3. CASE best = None
  <2>1. m = None
    BY <1>2, <1>3 DEF AssembleManifest
  <2>2. CarriersOf(m) = {}
    BY <2>1 DEF CarriersOf
  <2> QED BY <1>3, <2>1, <2>2 DEF opts
<1>4. CASE best # None
  <2>1. best \in Covering(opts)
    BY <1>1, <1>4, BestIs
  <2>2. /\ m.rows = best.rows /\ m.carriers = CarriersUsed(best.rows) /\ m.cost = best.cost
        /\ m.infeasible = Infeasible(opts)
        /\ m = [rows |-> best.rows, carriers |-> CarriersUsed(best.rows), cost |-> best.cost,
                runnersUp |-> {q.carriers : q \in RunnersUp(opts)},
                stranded |-> best.stranded, infeasible |-> Infeasible(opts),
                forced |-> best.forced, suppressed |-> gone]
    BY <1>2, <1>4 DEF AssembleManifest
  <2>3. {q.carriers : q \in RunnersUp(opts)} \in SUBSET SUBSET Carriers
    <3>1. ASSUME NEW q \in RunnersUp(opts) PROVE q.carriers \in SUBSET Carriers
      <4>1. q \in Covering(opts)
        BY <1>4 DEF RunnersUp
      <4>2. q \in PlanOver(DOMAIN opts)
        BY <1>1, <4>1, CoveringFacts
      <4> QED BY <4>2 DEF PlanOver
    <3> QED BY <3>1
  <2> HIDE DEF best, m
  <2>4. /\ best \in PlanOver(DOMAIN opts)
        /\ best.rows \in [DOMAIN opts \ Infeasible(opts) -> Option]
        /\ CarriersUsed(best.rows) \in SUBSET best.carriers
        /\ best.cost = TotalCost(best.rows)
    BY <1>1, <2>1, CoveringFacts
  <2>5. /\ best.rows \in Rows(Eligible) /\ best.stranded \in SUBSET Eligible
        /\ best.forced \in BOOLEAN /\ best.cost \in Nat /\ best.carriers \in SUBSET Carriers
    BY <1>1, <2>4, PlanOverMonotonic DEF PlanOver
  <2>6. Infeasible(opts) \in SUBSET Eligible
    BY <1>1 DEF Infeasible
  <2>7. m \in ManifestOver(Eligible)
    BY <2>2, <2>3, <2>4, <2>5, <2>6 DEF ManifestOver
  <2>8. m # None
    BY <2>7, ReviewAssumption
  <2>9. CarriersOf(m) = CarriersUsed(best.rows)
    BY <2>2, <2>8 DEF CarriersOf
  <2> QED BY <1>1, <1>4, <2>2, <2>4, <2>8, <2>9 DEF best, m, opts
<1> QED BY <1>3, <1>4

\* An approval writes the rows of the plan, and a record that agrees.
LEMMA ApproveWrites ==
  ASSUME IInv, PlanInv, Approve
  PROVE  PlanInv'
<1>1. /\ manifest # None /\ runRecord = {} /\ UNCHANGED <<manifest, shipments, excluded>>
      /\ terminal' = "approved" /\ ledger' = Appended(DOMAIN manifest.rows)
  BY DEF Approve, CanApprove, Close, PlanInv
<1>2. /\ manifest.rows \in [DOMAIN manifest.rows -> Option]
      /\ manifest.cost = TotalCost(manifest.rows)
  BY <1>1, SolvedFacts DEF PlanInv, IInv, SessionType
<1>3. \A r \in DOMAIN manifest.rows : r \in DOMAIN ledger' /\ ledger'[r] = manifest.rows[r]
  BY <1>1 DEF Appended
<1>4. manifest.rows = [r \in DOMAIN manifest.rows |-> ledger'[r]]
  BY <1>2, <1>3
<1>5. \A rec \in runRecord' : /\ rec.cost = manifest.cost
                              /\ rec.packets = Cardinality(DOMAIN manifest.rows)
  BY <1>1 DEF Approve, Close
<1>6. LedgerHoldsThePlan'
  BY <1>1, <1>2, <1>3, <1>4, <1>5 DEF LedgerHoldsThePlan
<1> QED BY <1>1, <1>6 DEF PlanInv

\* Every other step leaves the review open, or the end it has.
LEMMA PlanKept ==
  ASSUME IInv, PlanInv, [Next]_vars
  PROVE  PlanInv'
<1>1. ASSUME UNCHANGED <<manifest, shipments, excluded, terminal, runRecord>>,
             terminal = "open" \/ UNCHANGED ledger
      PROVE  PlanInv'
  BY <1>1 DEF PlanInv, LedgerHoldsThePlan
<1>2. ASSUME NEW e, NEW pins, Commit(e, pins), UNCHANGED <<terminal, runRecord>>,
             terminal # "approved"
      PROVE  PlanInv'
  BY <1>2 DEF Commit, PlanInv, LedgerHoldsThePlan
<1>3. ASSUME NEW e \in Edit, Propose(e) PROVE PlanInv'
  <2>1. terminal = "open"
    BY <1>3 DEF Propose, ProposeRefused, ProposeUnchanged, ProposeMoved, CanPropose
  <2> QED BY <1>1, <1>2, <1>3, <2>1 DEF Propose, ProposeRefused, ProposeUnchanged, ProposeMoved
<1>4. CASE Confirm
  <2>1. terminal # "approved"
    BY <1>4 DEF Confirm, IInv, Settled
  <2> QED BY <1>2, <1>4, <2>1 DEF Confirm
<1>5. CASE Discard
  BY <1>1, <1>5 DEF Discard
<1>6. CASE Approve
  BY <1>6, ApproveWrites
<1>7. ASSUME NEW k \in Eligible, ApproveFails(k) PROVE PlanInv'
  BY <1>1, <1>7 DEF ApproveFails, CanApprove
<1>8. CASE Reject
  BY <1>8 DEF Reject, Close, PlanInv, LedgerHoldsThePlan
<1>9. CASE UNCHANGED vars
  BY <1>1, <1>9 DEF vars
<1> QED BY <1>3, <1>4, <1>5, <1>6, <1>7, <1>8, <1>9 DEF Next

\* The plan on show, and the plan in the ledger.
LEMMA PlanInvariance == Spec => []PlanInv
<1>1. Init => PlanInv
  BY DEF Init, PlanInv, LedgerHoldsThePlan
<1> QED BY <1>1, PlanKept, Invariance, PTL DEF Spec

\* The variables keep their types.  A failed approval adds rows of recipients
\* only, for what it writes are rows of the plan on show.
THEOREM ReviewTypes == Spec => []TypeOK
<1> DEFINE Rest == /\ \A p, q \in pending : p = q
                   /\ terminal \in {"open", "approved", "rejected"}
                   /\ DOMAIN ledger \subseteq Eligible
<1>1. Init => Rest
  BY DEF Init
<1>2. IInv /\ PlanInv /\ Rest /\ [Next]_vars => Rest'
  <2> SUFFICES ASSUME IInv, PlanInv, Rest, [Next]_vars PROVE Rest'
    OBVIOUS
  <2>1. ASSUME NEW W \in SUBSET DOMAIN manifest.rows, CanApprove, ledger' = Appended(W)
        PROVE  DOMAIN ledger' \subseteq Eligible
    <3>1. DOMAIN manifest.rows \subseteq DOMAIN shipments
      BY <2>1, SolvedFacts DEF CanApprove, PlanInv, IInv, SessionType
    <3>2. DOMAIN shipments \subseteq Eligible
      BY PinsType DEF IInv, SessionType
    <3> QED BY <2>1, <3>1, <3>2 DEF Appended
  <2>2. ASSUME NEW e \in Edit, Propose(e) PROVE Rest'
    BY <2>2 DEF Propose, ProposeRefused, ProposeUnchanged, ProposeMoved
  <2>3. CASE Confirm \/ Discard \/ Reject
    BY <2>3 DEF Confirm, Discard, Reject, Close
  <2>4. CASE Approve
    BY <2>1, <2>4 DEF Approve, Close
  <2>5. ASSUME NEW k \in Eligible, ApproveFails(k) PROVE Rest'
    BY <2>1, <2>5 DEF ApproveFails
  <2>6. CASE UNCHANGED vars
    BY <2>6 DEF vars
  <2> QED BY <2>2, <2>3, <2>4, <2>5, <2>6 DEF Next
<1>3. IInv /\ Rest => TypeOK
  BY DEF IInv, SessionType, Classification, Outcomes, TypeOK
<1> QED BY <1>1, <1>2, <1>3, Invariance, PlanInvariance, PTL DEF Spec

\* An approved plan is in the ledger whole, and its record adds up.
THEOREM LedgerIsThePlan == Spec => []LedgerHoldsThePlan
<1>1. PlanInv => LedgerHoldsThePlan
  BY DEF PlanInv
<1> QED BY <1>1, PlanInvariance, PTL

\* Everyone let in is accounted for once a plan is approved.
THEOREM NobodyIsLeftOut == Spec => []ApprovalIsComplete
<1>1. IInv /\ PlanInv => ApprovalIsComplete
  <2> SUFFICES ASSUME IInv, PlanInv, terminal = "approved", manifest # None, NEW r \in Eligible
               PROVE  r \in DOMAIN ledger \cup Range(excluded) \cup manifest.infeasible
    BY DEF ApprovalIsComplete
  <2>1. r \in DOMAIN shipments \/ r \in Range(excluded)
    BY DEF IInv, Recoverable, NoRecipientLost
  <2>2. DOMAIN manifest.rows = DOMAIN shipments \ manifest.infeasible
    BY SolvedFacts DEF PlanInv, IInv, SessionType
  <2>3. DOMAIN manifest.rows \subseteq DOMAIN ledger
    BY DEF PlanInv, LedgerHoldsThePlan
  <2> QED BY <2>1, <2>2, <2>3
<1> QED BY <1>1, Invariance, PlanInvariance, PTL

\* Only a confirmed edit moves the carriers of the run.
THEOREM OnlyConsentMoves == Spec => CarriersMoveByConsent
<1> DEFINE Consented == CarriersOf(manifest') # CarriersOf(manifest)
                        => \E p \in pending : pending' = {} /\ shipments' = p.candidate
<1>1. IInv /\ IInv' /\ [Next]_vars => [Consented]_vars
  <2> SUFFICES ASSUME IInv, IInv', Next PROVE Consented
    OBVIOUS
  <2>1. ASSUME NEW e \in Edit, ProposeUnchanged(e)
        PROVE  CarriersOf(manifest') = CarriersOf(manifest)
    <3>1. /\ shipments' = Apply(e) /\ manifest' = Solved(shipments', excluded')
          /\ ~Moved(Apply(e))
      BY <2>1 DEF ProposeUnchanged, Commit
    <3>2. shipments' \in Pins /\ excluded' \in Seq(Nat)
      BY DEF IInv, SessionType
    <3>3. CarriersOf(manifest') = IF Best(Options(shipments')) = None THEN {}
                                  ELSE CarriersUsed(Best(Options(shipments')).rows)
      BY <3>1, <3>2, SolvedFacts
    <3> QED BY <3>1, <3>3 DEF Moved
  <2>2. ASSUME NEW e \in Edit, ProposeRefused(e) \/ ProposeMoved(e) PROVE UNCHANGED manifest
    BY <2>2 DEF ProposeRefused, ProposeMoved
  <2>3. CASE Confirm
    BY <2>3 DEF Confirm, Commit
  <2>4. Discard \/ Approve \/ Reject \/ (\E k \in Eligible : ApproveFails(k))
        => UNCHANGED manifest
    BY DEF Discard, Approve, Reject, ApproveFails
  <2> QED BY <2>1, <2>2, <2>3, <2>4 DEF Next, Propose
<1> QED BY <1>1, Invariance, PTL DEF Spec, CarriersMoveByConsent
-----------------------------------------------------------------------------
(* The conversation.  Its state, and what holds of its turns.              *)

TurnState == [n : Nat, before : Nat, left : Nat, called : SUBSET Tools,
              streamed : BOOLEAN, read : BOOLEAN]

Talking == narrator = "talking"

\* Only a turn that is judged too late to be taken back is streamed.
Shape ==
    /\ turn \in TurnState
    /\ enforcing \in BOOLEAN
    /\ messages \in Seq(changes)
    /\ Talking /\ turn.streamed => ~enforcing
    /\ Talking => turn.before =< Len(messages)

\* Nothing is of a turn that has not begun, and a turn has its line at its end.
TurnsInOrder ==
    /\ \A c \in changes : c.turn \in Nat /\ c.turn =< turn.n
    /\ \A l \in lines : l.turn \in Nat /\ l.turn =< turn.n /\ (Talking => l.turn # turn.n)
    /\ \A n \in shown : n \in Nat /\ n =< turn.n

CallsAreCounted ==
    \A c \in changes : Talking /\ c.turn = turn.n => c.tool \in turn.called

OnlyStreamedIsShown ==
    Talking /\ turn.n \in shown => turn.streamed

\* What is withheld at the end of the turn is of the turn.
TheRestIsOfTheTurn ==
    Talking => \A i \in DOMAIN messages : turn.before < i => messages[i].turn = turn.n

VoiceInv ==
    /\ Shape /\ TurnsInOrder /\ CallsAreCounted /\ OnlyStreamedIsShown /\ TheRestIsOfTheTurn
    /\ ToolsAreTraced /\ NothingWithheldWasShown /\ ForgetsOnlyWhatWasWithheld
-----------------------------------------------------------------------------
(* Over a review.                                                          *)

\* A step of the conversation is a step of the session, or leaves it alone.
LEMMA SessionSteps == [ConversationNext]_allVars => [Next]_vars
<1> SUFFICES ASSUME ConversationNext PROVE Next \/ UNCHANGED vars
  BY DEF allVars
<1>1. CASE Open \/ Say
  BY <1>1 DEF Open, Say, Begin
<1>2. CASE LeaveAlone \/ \E tool \in Tools : CallsForNothing(tool)
  BY <1>2 DEF LeaveAlone, CallsForNothing
<1>3. CASE \E e \in Edit : CallsPropose(e)
  BY <1>3 DEF CallsPropose, Next
<1>4. CASE CallsConfirm
  BY <1>4 DEF CallsConfirm, Next
<1>5. CASE Answers \/ ModelGoes \/ TurnRaises
  BY <1>5 DEF Answers, ModelGoes, TurnRaises, Ends
<1>6. CASE Operator
  BY <1>6 DEF Operator
<1>7. QED
  BY <1>1, <1>2, <1>3, <1>4, <1>5, <1>6 DEF ConversationNext

\* Whoever acts on the session, the narrator's tools or the operator's
\* buttons, in turns of any length: what holds of a review holds of it.
THEOREM ConversationIsAReview == ConversationSpec => Spec
<1>1. ConversationInit => Init
  BY DEF ConversationInit
<1>2. QED
  BY <1>1, SessionSteps, PTL DEF ConversationSpec, Spec

\* No turn, and no withheld turn, drops a recipient without listing it.
THEOREM VoiceLosesNobody == ConversationSpec => []NoRecipientLost
BY ConversationIsAReview, NobodyLost, PTL

\* The narrator cannot move the carriers of the run but by confirming an edit
\* that is held back, as the operator can (CarriersMoveByConsent).
THEOREM VoiceNeedsConsent == ConversationSpec => CarriersMoveByConsent
BY ConversationIsAReview, OnlyConsentMoves, PTL
-----------------------------------------------------------------------------
(* The turns.                                                              *)

LEMMA InitVoice == ConversationInit => VoiceInv
<1> SUFFICES ASSUME ConversationInit PROVE VoiceInv
  OBVIOUS
<1>1. messages \in Seq(changes) /\ Len(messages) = 0 /\ changes = {} /\ lines = {} /\ shown = {}
      /\ ~Talking
  BY DEF ConversationInit, Talking
<1>2. turn \in TurnState /\ enforcing \in BOOLEAN
  BY DEF ConversationInit, Quiet, TurnState
<1>3. QED
  BY <1>1, <1>2 DEF VoiceInv, Shape, TurnsInOrder, CallsAreCounted, OnlyStreamedIsShown,
     TheRestIsOfTheTurn, ToolsAreTraced, NothingWithheldWasShown, ForgetsOnlyWhatWasWithheld

LEMMA OpensTurn ==
  ASSUME VoiceInv, Open \/ Say
  PROVE  VoiceInv'
<1> USE DEF VoiceInv
<1>1. PICK streamed \in BOOLEAN : Begin(streamed) /\ (streamed => ~enforcing)
  BY DEF Open, Say, Shape
<1>2. narrator # "talking" /\ ~Talking /\ Talking'
  BY <1>1 DEF Open, Say, Begin, Talking
<1>3. /\ turn' = [n |-> turn.n + 1, before |-> Len(messages), left |-> MaxIterations,
                  called |-> {}, streamed |-> streamed, read |-> TRUE]
      /\ UNCHANGED <<enforcing, messages, lines, raised, changes, shown>>
  BY <1>1 DEF Begin
<1>4. /\ turn' \in TurnState /\ turn.n \in Nat /\ turn'.n = turn.n + 1
      /\ turn'.before = Len(messages) /\ turn'.streamed = streamed
  <2>1. Len(messages) \in Nat /\ MaxIterations \in Nat /\ turn.n \in Nat
    BY ConversationAssumption DEF Shape, TurnState
  <2>2. QED
    BY <1>3, <2>1 DEF TurnState
<1>5. Shape'
  BY <1>1, <1>3, <1>4 DEF Shape
<1>6. TurnsInOrder'
  BY <1>3, <1>4 DEF TurnsInOrder
<1>7. CallsAreCounted' /\ OnlyStreamedIsShown'
  BY <1>3, <1>4 DEF CallsAreCounted, OnlyStreamedIsShown, TurnsInOrder
<1>8. TheRestIsOfTheTurn'
  BY <1>3, <1>4 DEF TheRestIsOfTheTurn, Shape
<1>9. ToolsAreTraced'
  BY <1>2, <1>3 DEF ToolsAreTraced, Over
<1>10. NothingWithheldWasShown' /\ ForgetsOnlyWhatWasWithheld'
  BY <1>3 DEF NothingWithheldWasShown, ForgetsOnlyWhatWasWithheld
<1>11. QED
  BY <1>5, <1>6, <1>7, <1>8, <1>9, <1>10

LEMMA LeavesTurn ==
  ASSUME VoiceInv, LeaveAlone
  PROVE  VoiceInv'
<1> USE DEF VoiceInv
<1>1. /\ turn' \in TurnState
      /\ turn'.n = turn.n /\ turn'.before = turn.before /\ turn'.called = turn.called
      /\ turn'.streamed = turn.streamed
      /\ UNCHANGED <<narrator, enforcing, messages, lines, raised, changes, shown>>
  BY DEF LeaveAlone, Shape, TurnState
<1>2. QED
  BY <1>1 DEF Shape, TurnsInOrder, CallsAreCounted, OnlyStreamedIsShown, TheRestIsOfTheTurn,
     ToolsAreTraced, NothingWithheldWasShown, ForgetsOnlyWhatWasWithheld, Over, Talking

\* A call, whether it changes the session or not.
LEMMA CallsInTurn ==
  ASSUME VoiceInv, NEW tool \in Tools, Calls(tool),
         \/ UNCHANGED <<messages, changes>>
         \/ \E edit : Changed(tool, edit)
  PROVE  VoiceInv'
<1> USE DEF VoiceInv
<1>1. /\ Talking /\ Talking' /\ turn' \in TurnState
      /\ turn'.n = turn.n /\ turn'.before = turn.before
      /\ turn'.called = turn.called \cup {tool} /\ turn'.streamed = turn.streamed
      /\ UNCHANGED <<narrator, enforcing, lines, raised>>
      /\ shown' = IF turn.streamed THEN shown \cup {turn.n} ELSE shown
  <2>1. /\ turn \in TurnState /\ turn.left > 0
        /\ turn' = [turn EXCEPT !.left = @ - 1, !.called = @ \cup {tool}]
    BY DEF Calls, Shape
  <2>2. turn.left - 1 \in Nat /\ turn.called \cup {tool} \in SUBSET Tools
    BY <2>1 DEF TurnState
  <2>3. /\ turn' \in TurnState
        /\ turn'.n = turn.n /\ turn'.before = turn.before
        /\ turn'.called = turn.called \cup {tool} /\ turn'.streamed = turn.streamed
    BY <2>1, <2>2 DEF TurnState
  <2>4. QED
    BY <2>3 DEF Calls, Talking
<1>2. turn.n \in Nat /\ turn.before \in Nat /\ messages \in Seq(changes)
  BY DEF Shape, TurnState
<1>3. /\ messages' \in Seq(changes') /\ Len(messages) =< Len(messages')
      /\ \A i \in DOMAIN messages : i \in DOMAIN messages' /\ messages'[i] = messages[i]
      /\ \A i \in DOMAIN messages' :
            i \in DOMAIN messages \/ (messages'[i].turn = turn.n /\ messages'[i] \in changes')
      /\ changes \subseteq changes'
      /\ \A c \in changes' : c \in changes \/ (c.turn = turn.n /\ c.tool = tool
                                            /\ \E i \in DOMAIN messages' : messages'[i] = c)
  <2>1. CASE UNCHANGED <<messages, changes>>
    BY <1>2, <2>1
  <2>2. CASE \E edit : Changed(tool, edit)
    <3>1. PICK change : /\ change.turn = turn.n /\ change.tool = tool
                        /\ changes' = changes \cup {change}
                        /\ messages' = Append(messages, change)
      BY <2>2 DEF Changed
    <3>2. messages \in Seq(changes')
      BY <1>2, <3>1
    <3>3. /\ messages' \in Seq(changes') /\ Len(messages') = Len(messages) + 1
          /\ messages'[Len(messages) + 1] = change
          /\ \A i \in 1 .. Len(messages) : messages'[i] = messages[i]
      BY <3>1, <3>2
    <3>4. /\ Len(messages) =< Len(messages')
          /\ DOMAIN messages = 1 .. Len(messages) /\ DOMAIN messages' = 1 .. Len(messages) + 1
          /\ Len(messages) \in Nat
      BY <1>2, <3>3
    <3>5. \A i \in DOMAIN messages' : i \in DOMAIN messages \/ i = Len(messages) + 1
      BY <3>4
    <3>6. \A i \in DOMAIN messages : i \in DOMAIN messages' /\ messages'[i] = messages[i]
      BY <3>3, <3>4
    <3>7. change \in changes' /\ Len(messages) + 1 \in DOMAIN messages'
      <4>1. change \in changes'
        BY <3>1, Zenon
      <4>2. Len(messages) + 1 \in DOMAIN messages'
        BY <3>4
      <4>3. QED
        BY <4>1, <4>2
    <3>8. \A i \in DOMAIN messages' :
            i \in DOMAIN messages \/ (messages'[i].turn = turn.n /\ messages'[i] \in changes')
      BY <3>1, <3>3, <3>5, <3>7
    <3>9. \E i \in DOMAIN messages' : messages'[i] = change
      BY <3>3, <3>7
    <3>10. \A c \in changes' : c \in changes \/ (c.turn = turn.n /\ c.tool = tool
                                              /\ \E i \in DOMAIN messages' : messages'[i] = c)
      BY <3>1, <3>9
    <3>11. QED
      <4>1. changes \subseteq changes'
        BY <3>1
      <4>2. QED
        BY <3>3, <3>4, <3>6, <3>8, <3>10, <4>1, Zenon
  <2>3. QED
    BY <2>1, <2>2
<1>4. Shape'
  BY <1>1, <1>2, <1>3 DEF Shape
<1>5. TurnsInOrder'
  BY <1>1, <1>2, <1>3 DEF TurnsInOrder
<1>6. CallsAreCounted' /\ OnlyStreamedIsShown'
  BY <1>1, <1>3 DEF CallsAreCounted, OnlyStreamedIsShown
<1>7. TheRestIsOfTheTurn'
  BY <1>1, <1>3 DEF TheRestIsOfTheTurn
<1>8. ToolsAreTraced'
  BY <1>1, <1>3 DEF ToolsAreTraced, Over, Talking
<1>9. NothingWithheldWasShown'
  BY <1>1 DEF NothingWithheldWasShown, TurnsInOrder
<1>10. ForgetsOnlyWhatWasWithheld'
  BY <1>1, <1>3 DEF ForgetsOnlyWhatWasWithheld
<1>11. QED
  BY <1>4, <1>5, <1>6, <1>7, <1>8, <1>9, <1>10

\* The end of a turn: its line, and what the operator has seen of it.
LEMMA EndsTurn ==
  ASSUME VoiceInv, Talking, NEW outcome, Line(outcome), NEW state \in {"idle", "gone"}, Ends(state),
         messages' \in Seq(changes),
         \A i \in DOMAIN messages :
            \/ \E j \in DOMAIN messages' : messages'[j] = messages[i]
            \/ messages[i].turn = turn.n /\ outcome = "suppressed",
         shown \subseteq shown', shown' \subseteq shown \cup {turn.n},
         outcome = "suppressed" => turn.n \notin shown'
  PROVE  VoiceInv'
<1> USE DEF VoiceInv
<1>1. /\ ~Talking' /\ turn' \in TurnState /\ turn'.n = turn.n
      /\ UNCHANGED <<enforcing, changes>>
  BY DEF Ends, Talking, Quiet, TurnState, Shape
<1>2. turn.n \in Nat
  BY DEF Shape, TurnState
<1>3. PICK line : /\ line.turn = turn.n /\ line.outcome = outcome /\ line.called = turn.called
                  /\ lines' = lines \cup {line} /\ raised' = raised
  BY DEF Line
<1>4. Shape'
  BY <1>1 DEF Shape
<1>5. TurnsInOrder'
  BY <1>1, <1>2, <1>3 DEF TurnsInOrder
<1>6. CallsAreCounted' /\ OnlyStreamedIsShown' /\ TheRestIsOfTheTurn'
  BY <1>1 DEF CallsAreCounted, OnlyStreamedIsShown, TheRestIsOfTheTurn
<1>7. ToolsAreTraced'
  <2>1. ASSUME NEW c \in changes
        PROVE  \/ \E l \in lines' : l.turn = c.turn /\ c.tool \in l.called
               \/ c.turn \in raised'
    <3>1. CASE c.turn = turn.n
      BY <1>3, <3>1 DEF CallsAreCounted
    <3>2. CASE c.turn # turn.n
      BY <1>3, <3>2 DEF ToolsAreTraced, Over
    <3>3. QED
      BY <3>1, <3>2
  <2>2. QED
    BY <1>1, <2>1 DEF ToolsAreTraced
<1>8. NothingWithheldWasShown'
  <2>1. ASSUME NEW l \in lines', l.outcome = "suppressed" PROVE l.turn \notin shown'
    <3>1. CASE l \in lines
      BY <2>1, <3>1 DEF NothingWithheldWasShown, TurnsInOrder
    <3>2. CASE l = line
      BY <1>3, <2>1, <3>2
    <3>3. QED
      BY <1>3, <3>1, <3>2
  <2>2. QED
    BY <2>1 DEF NothingWithheldWasShown
<1>9. ForgetsOnlyWhatWasWithheld'
  <2>1. ASSUME NEW c \in changes
        PROVE  \/ \E i \in DOMAIN messages' : messages'[i] = c
               \/ \E l \in lines' : l.turn = c.turn /\ l.outcome = "suppressed"
               \/ c.turn \in raised'
    <3>1. CASE \/ \E l \in lines : l.turn = c.turn /\ l.outcome = "suppressed"
               \/ c.turn \in raised
      BY <1>3, <3>1
    <3>2. CASE \E i \in DOMAIN messages : messages[i] = c
      BY <1>3, <3>2
    <3>3. QED
      BY <3>1, <3>2 DEF ForgetsOnlyWhatWasWithheld
  <2>2. QED
    BY <1>1, <2>1 DEF ForgetsOnlyWhatWasWithheld
<1>10. QED
  BY <1>4, <1>5, <1>6, <1>7, <1>8, <1>9

LEMMA AnswersTurn ==
  ASSUME VoiceInv, Answers
  PROVE  VoiceInv'
<1>1. Talking /\ Ends("idle") /\ (Delivered \/ Withheld)
  BY DEF Answers, Talking
<1>2. Shape /\ TheRestIsOfTheTurn /\ OnlyStreamedIsShown
  BY DEF VoiceInv
<1>3. CASE Delivered
  <2>1. PICK outcome \in {"findings", "clean"} : Line(outcome)
    BY <1>3 DEF Delivered
  <2>2. messages' = messages /\ shown' = shown \cup {turn.n} /\ messages \in Seq(changes)
    BY <1>2, <1>3 DEF Delivered, Shape
  <2>3. QED
    BY <1>1, <2>1, <2>2, EndsTurn
<1>4. CASE Withheld
  <2>1. Line("suppressed") /\ shown' = shown /\ messages' = SubSeq(messages, 1, turn.before)
    BY <1>4 DEF Withheld
  <2>2. turn.n \notin shown
    <3>1. enforcing
      BY <1>4 DEF Withheld, Verdicts
    <3>2. QED
      BY <1>1, <1>2, <3>1 DEF Shape, OnlyStreamedIsShown
  <2>3. /\ messages \in Seq(changes) /\ turn.before \in Nat /\ turn.before =< Len(messages)
    BY <1>1, <1>2 DEF Shape, TurnState
  <2>4. /\ messages' \in Seq(changes) /\ Len(messages') = turn.before
        /\ \A i \in 1 .. turn.before : messages'[i] = messages[i]
    BY <2>1, <2>3
  <2>5. ASSUME NEW i \in DOMAIN messages
        PROVE  \/ \E j \in DOMAIN messages' : messages'[j] = messages[i]
               \/ messages[i].turn = turn.n
    <3>1. i \in 1 .. Len(messages)
      BY <2>3
    <3>2. CASE i =< turn.before
      <4>1. i \in 1 .. turn.before /\ i \in DOMAIN messages'
        BY <2>3, <2>4, <3>1, <3>2
      <4>2. QED
        BY <2>4, <4>1
    <3>3. CASE turn.before < i
      BY <1>1, <1>2, <3>3 DEF TheRestIsOfTheTurn
    <3>4. QED
      BY <2>3, <3>1, <3>2, <3>3
  <2>6. QED
    BY <1>1, <2>1, <2>2, <2>4, <2>5, EndsTurn
<1>5. QED
  BY <1>1, <1>3, <1>4

LEMMA LosesModel ==
  ASSUME VoiceInv, ModelGoes
  PROVE  VoiceInv'
<1>1. Talking /\ Ends("gone") /\ Line("unavailable") /\ messages' = messages
  BY DEF ModelGoes, Talking
<1>2. messages \in Seq(changes) /\ shown \subseteq shown' /\ shown' \subseteq shown \cup {turn.n}
  BY DEF VoiceInv, Shape, ModelGoes
<1>3. QED
  BY <1>1, <1>2, EndsTurn

LEMMA RaisesInTurn ==
  ASSUME VoiceInv, TurnRaises
  PROVE  VoiceInv'
<1> USE DEF VoiceInv
<1>1. /\ Talking /\ ~Talking' /\ turn' \in TurnState /\ turn'.n = turn.n
      /\ UNCHANGED <<enforcing, changes, lines>> /\ raised' = raised \cup {turn.n}
      /\ shown \subseteq shown' /\ shown' \subseteq shown \cup {turn.n}
  BY DEF TurnRaises, Ends, Talking, Quiet, TurnState, Shape
<1>2. turn.n \in Nat /\ turn.before \in Nat /\ messages \in Seq(changes)
  BY DEF Shape, TurnState
<1>3. PICK told \in turn.before .. Len(messages) : messages' = SubSeq(messages, 1, told)
  BY DEF TurnRaises
<1>4. /\ messages' \in Seq(changes) /\ Len(messages') = told
      /\ \A i \in 1 .. told : messages'[i] = messages[i]
  BY <1>2, <1>3
<1>5. Shape'
  BY <1>1, <1>4 DEF Shape
<1>6. TurnsInOrder'
  BY <1>1, <1>2 DEF TurnsInOrder
<1>7. CallsAreCounted' /\ OnlyStreamedIsShown' /\ TheRestIsOfTheTurn'
  BY <1>1 DEF CallsAreCounted, OnlyStreamedIsShown, TheRestIsOfTheTurn
<1>8. ToolsAreTraced'
  BY <1>1 DEF ToolsAreTraced, Over, Talking
<1>9. NothingWithheldWasShown'
  BY <1>1 DEF NothingWithheldWasShown, TurnsInOrder
<1>10. ForgetsOnlyWhatWasWithheld'
  <2>1. ASSUME NEW i \in DOMAIN messages
        PROVE  \/ \E j \in DOMAIN messages' : messages'[j] = messages[i]
               \/ messages[i].turn = turn.n
    <3>1. i \in 1 .. Len(messages)
      BY <1>2
    <3>2. CASE i =< told
      <4>1. i \in 1 .. told /\ i \in DOMAIN messages'
        BY <1>2, <1>3, <1>4, <3>1, <3>2
      <4>2. QED
        BY <1>4, <4>1
    <3>3. CASE told < i
      <4>1. turn.before < i
        BY <1>2, <1>3, <3>1, <3>3
      <4>2. QED
        BY <1>1, <4>1 DEF TheRestIsOfTheTurn
    <3>4. QED
      BY <1>3, <3>1, <3>2, <3>3
  <2>2. QED
    BY <1>1, <2>1 DEF ForgetsOnlyWhatWasWithheld
<1>11. QED
  BY <1>5, <1>6, <1>7, <1>8, <1>9, <1>10

LEMMA NextVoice == VoiceInv /\ [ConversationNext]_allVars => VoiceInv'
<1> SUFFICES ASSUME VoiceInv, [ConversationNext]_allVars PROVE VoiceInv'
  OBVIOUS
<1>1. CASE Open \/ Say
  BY <1>1, OpensTurn
<1>2. CASE LeaveAlone
  BY <1>2, LeavesTurn
<1>3. ASSUME NEW tool \in Tools, CallsForNothing(tool) PROVE VoiceInv'
  BY <1>3, CallsInTurn DEF CallsForNothing
<1>4. ASSUME NEW e \in Edit, CallsPropose(e) PROVE VoiceInv'
  BY <1>4, CallsInTurn DEF CallsPropose, Tools
<1>5. CASE CallsConfirm
  BY <1>5, CallsInTurn DEF CallsConfirm, Tools, Confirm
<1>6. CASE Answers
  BY <1>6, AnswersTurn
<1>7. CASE ModelGoes
  BY <1>7, LosesModel
<1>8. CASE TurnRaises
  BY <1>8, RaisesInTurn
<1>9. CASE UNCHANGED voiceVars
  BY <1>9 DEF voiceVars, VoiceInv, Shape, TurnsInOrder, CallsAreCounted, OnlyStreamedIsShown,
              TheRestIsOfTheTurn, ToolsAreTraced, NothingWithheldWasShown,
              ForgetsOnlyWhatWasWithheld, Over, Talking
<1>10. QED
  BY <1>1, <1>2, <1>3, <1>4, <1>5, <1>6, <1>7, <1>8, <1>9 DEF ConversationNext, Operator, allVars

LEMMA VoiceInvariant == ConversationSpec => []VoiceInv
BY InitVoice, NextVoice, PTL DEF ConversationSpec

\* Every change a tool made is on the ledger line of its turn, once the turn is
\* over, unless it raised, in a conversation of any length (ToolsAreTraced).
THEOREM EveryToolIsTraced == ConversationSpec => []ToolsAreTraced
<1>1. VoiceInv => ToolsAreTraced
  BY DEF VoiceInv
<1>2. QED
  BY <1>1, VoiceInvariant, PTL

\* No text the guard withholds has been streamed to the operator
\* (NothingWithheldWasShown).
THEOREM WithheldIsUnseen == ConversationSpec => []NothingWithheldWasShown
<1>1. VoiceInv => NothingWithheldWasShown
  BY DEF VoiceInv
<1>2. QED
  BY <1>1, VoiceInvariant, PTL

\* The model is told of every change but those of withheld turns and of turns
\* that raised
\* (ForgetsOnlyWhatWasWithheld).
THEOREM OnlyWithheldIsForgotten == ConversationSpec => []ForgetsOnlyWhatWasWithheld
<1>1. VoiceInv => ForgetsOnlyWhatWasWithheld
  BY DEF VoiceInv
<1>2. QED
  BY <1>1, VoiceInvariant, PTL
=============================================================================
