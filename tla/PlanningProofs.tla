--------------------------- MODULE PlanningProofs ---------------------------
(***************************************************************************)
(* What phase B promises for every list of recipients, every verdict of    *)
(* the validator and every reply of the agent, however long.  MaxReply is  *)
(* in no proof.                                                            *)
(***************************************************************************)
EXTENDS Planning, WellFoundedInduction, FiniteSetTheorems, TLAPS

RosterKeys == {input.people[i].key : i \in DOMAIN input.people}
UnresolvedKeys == {input.unresolved[i] : i \in DOMAIN input.unresolved}

\* What plan_run's `escalated` is until B1's people are added.
NeedHuman ==
    IF repair # None /\ Applies THEN repair.escalated ELSE {ToExcluded(r) : r \in forRepair}

\* Who is given to B3 is on the roster, and nothing is decided before its stage.
StageInv ==
    /\ forRepair \subseteq Roster
    /\ stage = "B2" => eligible = {}
    /\ stage \in {"B2", "B3"} => repair = None
    /\ stage \in {"B2", "B3", "B4"} => shipping = {}
    /\ stage # "planned" => manifest = None

\* Each stage hands on everyone it was handed.
KeysInv ==
    /\ stage \in {"B3", "B4"} => RosterKeys \subseteq KeysOf(eligible) \cup KeysOf(escalated)
    /\ stage = "C" =>
          RosterKeys \subseteq KeysOf(shipping) \cup KeysOf(suppressed) \cup KeysOf(escalated)

EscalatedInv == stage \in {"B3", "B4", "C"} => escalated = NeedHuman

Checked(r) ==
    \E a \in Valid : /\ r.address = Corrected[a]
                     /\ planner # "on" => a = input.people[r.id].address

CheckedInv == mode # "off" => \A r \in eligible : Checked(r)

IInv ==
    /\ TypeOK /\ StageInv /\ KeysInv /\ EscalatedInv /\ CheckedInv
    /\ EveryKeyIsAccountedFor /\ EscalationsAgree
-----------------------------------------------------------------------------
(* The operators.                                                          *)

LEMMA Constants ==
    /\ Inputs \subseteq Input
    /\ Valid \subseteq Addresses
    /\ Corrected \in [Addresses -> Addresses]
    /\ Incomplete \notin Addresses
    /\ None \notin [repaired : SUBSET Recipient, escalated : SUBSET Excluded]
BY PlanningAssumption

LEMMA RosterType ==
  ASSUME input \in Input
  PROVE  /\ Roster \subseteq Recipient
         /\ \A r \in Roster : /\ r.id \in DOMAIN input.people
                              /\ r.at = r.id
                              /\ r.address = input.people[r.id].address
         /\ KeysOf(Roster) = RosterKeys
<1>1. input.people \in Seq(Person)
  BY DEF Input
<1>2. \A i \in DOMAIN input.people : i \in Nat /\ input.people[i] \in Person
  BY <1>1
<1>3. Roster \subseteq Recipient
  BY <1>2 DEF Roster, Recipient, Person
<1>4. KeysOf(Roster) = RosterKeys
  <2> DEFINE rec(i) == [id |-> i, at |-> i, key |-> input.people[i].key,
                        address |-> input.people[i].address, pin |-> input.people[i].pin]
  <2>1. Roster = {rec(i) : i \in DOMAIN input.people}
    BY DEF Roster
  <2>2. \A i \in DOMAIN input.people : rec(i).key = input.people[i].key
    OBVIOUS
  <2> HIDE DEF rec
  <2> QED BY <2>1, <2>2 DEF KeysOf, RosterKeys
<1> QED BY <1>3, <1>4 DEF Roster

LEMMA UnresolvedType ==
  ASSUME input \in Input
  PROVE  /\ Unresolved \subseteq Excluded
         /\ KeysOf(Unresolved) = UnresolvedKeys
<1>1. input.people \in Seq(Person) /\ input.unresolved \in Seq(Keys)
  BY DEF Input
<1>2. Len(input.people) \in Nat
  BY <1>1
<1>3. \A i \in DOMAIN input.unresolved : i \in Nat /\ input.unresolved[i] \in Keys
  BY <1>1
<1>4. Unresolved \subseteq Excluded
  BY <1>2, <1>3 DEF Unresolved, Excluded
<1>5. KeysOf(Unresolved) = UnresolvedKeys
  <2> DEFINE rec(i) == [id |-> Len(input.people) + i, key |-> input.unresolved[i]]
  <2>1. Unresolved = {rec(i) : i \in DOMAIN input.unresolved}
    BY DEF Unresolved
  <2>2. \A i \in DOMAIN input.unresolved : rec(i).key = input.unresolved[i]
    OBVIOUS
  <2> HIDE DEF rec
  <2> QED BY <2>1, <2>2 DEF KeysOf, UnresolvedKeys
<1> QED BY <1>4, <1>5

LEMMA ExcludedType == \A r \in Recipient : ToExcluded(r) \in Excluded /\ ToExcluded(r).key = r.key
BY DEF Recipient, Excluded, ToExcluded

\* A list that is not empty has a first record.
LEMMA FirstExists ==
  ASSUME NEW list \in SUBSET Recipient, list # {}
  PROVE  First(list) \in list
<1> DEFINE T == {r.at : r \in list}
<1>1. T # {} /\ T \subseteq Nat
  BY DEF Recipient
<1>2. PICK m \in T : \A n \in T : ~(<<n, m>> \in OpToRel(<, Nat))
  BY <1>1, NatLessThanWellFounded, WFMin
<1>3. \A n \in T : ~(n < m)
  BY <1>1, <1>2 DEF OpToRel
<1>4. PICK r \in list : r.at = m
  BY <1>2
<1>5. \A s \in list : r.at =< s.at
  <2> SUFFICES ASSUME NEW s \in list PROVE r.at =< s.at
    OBVIOUS
  <2>1. ~(s.at < r.at)
    BY <1>3, <1>4
  <2>2. r.at \in Nat /\ s.at \in Nat
    BY <1>1
  <2> QED BY <2>1, <2>2
<1> QED BY <1>5 DEF First

\* originals has a record for every key that needs repair.
LEMMA OriginalExists ==
  ASSUME input \in Input, forRepair \subseteq Roster, NEW k \in KeysOf(forRepair)
  PROVE  Original(k) \in forRepair /\ Original(k).key = k
<1> DEFINE S == {r \in forRepair : r.key = k}
           n == Len(input.people)
           T == {n - r.at : r \in S}
<1>1. S # {}
  BY DEF KeysOf
<1>2. n \in Nat /\ DOMAIN input.people = 1 .. n
  BY DEF Input
<1>3. \A r \in S : r.at \in 1 .. n
  BY <1>2, RosterType
<1>4. T # {} /\ T \subseteq Nat
  BY <1>1, <1>2, <1>3
<1>5. PICK m \in T : \A t \in T : ~(<<t, m>> \in OpToRel(<, Nat))
  BY <1>4, NatLessThanWellFounded, WFMin
<1>6. \A t \in T : ~(t < m)
  BY <1>4, <1>5 DEF OpToRel
<1>7. PICK r \in S : m = n - r.at
  BY <1>5
<1>8. \A s \in S : s.at =< r.at
  <2> SUFFICES ASSUME NEW s \in S PROVE s.at =< r.at
    OBVIOUS
  <2>1. n - s.at \in T
    OBVIOUS
  <2>2. ~(n - s.at < n - r.at)
    BY <1>6, <1>7, <2>1
  <2>3. n \in Nat /\ s.at \in Nat /\ r.at \in Nat
    BY <1>2, <1>3
  <2> HIDE DEF n
  <2> QED BY <2>2, <2>3
<1> HIDE DEF n, T
<1>9. r \in forRepair /\ r.key = k /\ \A s \in forRepair : s.key = k => s.at =< r.at
  BY <1>7, <1>8
<1> QED BY <1>9 DEF Original

\* A fault-free repair returns records of the set it was given, at an address
\* the validator returned, and escalates the other keys.
LEMMA RepairType ==
  ASSUME input \in Input, forRepair \subseteq Roster, NEW reply \in Reply
  PROVE  /\ RepairOf(reply).repaired \subseteq Recipient
         /\ RepairOf(reply).escalated \subseteq Excluded
         /\ RepairOf(reply) # None
         /\ KeysOf(forRepair) \subseteq KeysOf(RepairOf(reply).repaired)
                                        \cup KeysOf(RepairOf(reply).escalated)
         /\ \A r \in RepairOf(reply).repaired :
               \E a \in Valid : r.address = Corrected[a]
<1> DEFINE acc == Accepted(reply)
           new(i) == [Original(reply[i].key) EXCEPT
                         !.address = Corrected[reply[i].proposed],
                         !.at = Len(input.people) + i]
           rest == KeysOf(forRepair) \ {reply[i].key : i \in acc}
<1>1. forRepair \subseteq Recipient
  BY RosterType
<1>2. \A k \in KeysOf(forRepair) : Original(k) \in forRepair /\ Original(k).key = k
  BY OriginalExists
<1>3. \A i \in acc : /\ i \in DOMAIN reply
                     /\ reply[i].key \in KeysOf(forRepair)
                     /\ reply[i].proposed \in Valid
  BY DEF Accepted, Adjudicated
<1>4. DOMAIN reply \subseteq Nat
  BY DEF Reply
<1>5. Len(input.people) \in Nat
  BY DEF Input
<1>6. \A i \in acc : /\ new(i) \in Recipient
                     /\ new(i).key = reply[i].key
                     /\ new(i).address = Corrected[reply[i].proposed]
  <2> SUFFICES ASSUME NEW i \in acc
               PROVE  /\ new(i) \in Recipient
                      /\ new(i).key = reply[i].key
                      /\ new(i).address = Corrected[reply[i].proposed]
    OBVIOUS
  <2>1. Original(reply[i].key) \in Recipient /\ Original(reply[i].key).key = reply[i].key
    BY <1>1, <1>2, <1>3
  <2>2. Corrected[reply[i].proposed] \in Addresses
    BY <1>3, Constants
  <2>3. Len(input.people) + i \in Nat
    BY <1>3, <1>4, <1>5
  <2> QED BY <2>1, <2>2, <2>3 DEF Recipient
<1>7. \A k \in rest : ToExcluded(Original(k)) \in Excluded /\ ToExcluded(Original(k)).key = k
  BY <1>1, <1>2, ExcludedType
<1>8. RepairOf(reply) = [repaired |-> {new(i) : i \in acc},
                         escalated |-> {ToExcluded(Original(k)) : k \in rest}]
  BY DEF RepairOf
<1> HIDE DEF acc, new, rest
<1>9. RepairOf(reply) \in [repaired : SUBSET Recipient, escalated : SUBSET Excluded]
  BY <1>6, <1>7, <1>8
<1>10. KeysOf(forRepair) \subseteq KeysOf(RepairOf(reply).repaired)
                                   \cup KeysOf(RepairOf(reply).escalated)
  <2> SUFFICES ASSUME NEW k \in KeysOf(forRepair)
               PROVE  k \in KeysOf(RepairOf(reply).repaired)
                            \cup KeysOf(RepairOf(reply).escalated)
    OBVIOUS
  <2>1. CASE k \in rest
    <3>1. ToExcluded(Original(k)) \in RepairOf(reply).escalated
      BY <1>8, <2>1
    <3> QED BY <1>7, <2>1, <3>1 DEF KeysOf
  <2>2. CASE k \notin rest
    <3>1. PICK i \in acc : reply[i].key = k
      BY <2>2 DEF rest
    <3>2. new(i) \in RepairOf(reply).repaired
      BY <1>8
    <3> QED BY <1>6, <3>1, <3>2 DEF KeysOf
  <2> QED BY <2>1, <2>2
<1>11. \A r \in RepairOf(reply).repaired : \E a \in Valid : r.address = Corrected[a]
  BY <1>3, <1>6, <1>8
<1> QED BY <1>9, <1>10, <1>11, Constants

\* The record that holds a slot stands at the same doorstep.
LEMMA HolderExists ==
  ASSUME eligible \subseteq Recipient, NEW r \in KeptRows
  PROVE  Holder(r) \in KeptRows
<1> DEFINE list == {s \in Doorstep(r) : s.pin = Slot(r)}
<1>1. r \in Doorstep(r)
  BY DEF Doorstep
<1>2. list # {}
  <2>1. CASE Slot(r) = r.pin
    BY <1>1, <2>1
  <2>2. CASE Slot(r) # r.pin
    <3>1. r.pin = None /\ Cardinality(Pins(r)) = 1 /\ Slot(r) = CHOOSE d \in Pins(r) : TRUE
      BY <2>2 DEF Slot
    <3>2. Pins(r) # {}
      <4>1. Cardinality({}) = 0
        BY FS_EmptySet
      <4> QED BY <3>1, <4>1
    <3>3. Slot(r) \in Pins(r)
      BY <3>1, <3>2
    <3> QED BY <3>3 DEF Pins
  <2> QED BY <2>1, <2>2
<1>3. list \subseteq KeptRows /\ list \subseteq Recipient
  BY DEF Doorstep, KeptRows
<1>4. First(list) \in list
  BY <1>2, <1>3, FirstExists
<1> QED BY <1>3, <1>4 DEF Holder

\* B4 lists everyone: as a parcel, as a repeated key or as folded.
LEMMA DedupeType ==
  ASSUME eligible \subseteq Recipient
  PROVE  /\ Folded \in SUBSET Suppressed
         /\ KeysOf(eligible) \subseteq KeysOf({r \in KeptRows : Holder(r) = r}) \cup KeysOf(Folded)
<1> DEFINE same(r) == [id |-> r.id, key |-> r.key, onto |-> First(SameKey(r)).id]
           onto(r) == [id |-> r.id, key |-> r.key, onto |-> Holder(r).id]
<1>1. KeptRows \subseteq eligible
  BY DEF KeptRows
<1>2. \A r \in eligible : First(SameKey(r)) \in Recipient
  <2> SUFFICES ASSUME NEW r \in eligible PROVE First(SameKey(r)) \in Recipient
    OBVIOUS
  <2>1. r \in SameKey(r) /\ SameKey(r) \subseteq Recipient
    BY DEF SameKey
  <2> QED BY <2>1, FirstExists
<1>3. \A r \in eligible : same(r) \in Suppressed /\ same(r).key = r.key
  BY <1>2 DEF Recipient, Suppressed
<1>4. \A r \in KeptRows : onto(r) \in Suppressed /\ onto(r).key = r.key
  BY <1>1, HolderExists DEF Recipient, Suppressed
<1>5. Folded = {same(r) : r \in eligible \ KeptRows}
               \cup {onto(r) : r \in {r \in KeptRows : Holder(r) # r}}
  BY DEF Folded
<1> HIDE DEF same, onto
<1>6. Folded \in SUBSET Suppressed
  BY <1>3, <1>4, <1>5
<1>7. ASSUME NEW r \in eligible
      PROVE  r.key \in KeysOf({s \in KeptRows : Holder(s) = s}) \cup KeysOf(Folded)
  <2>1. CASE r \notin KeptRows
    <3>1. same(r) \in Folded
      BY <1>5, <2>1
    <3> QED BY <1>3, <3>1 DEF KeysOf
  <2>2. CASE r \in KeptRows /\ Holder(r) # r
    <3>1. onto(r) \in Folded
      BY <1>5, <2>2
    <3> QED BY <1>4, <2>2, <3>1 DEF KeysOf
  <2>3. CASE r \in KeptRows /\ Holder(r) = r
    BY <2>3 DEF KeysOf
  <2> QED BY <2>1, <2>2, <2>3
<1> QED BY <1>6, <1>7 DEF KeysOf
-----------------------------------------------------------------------------
(* The invariant.                                                          *)

LEMMA InitInv == Init => IInv
<1> SUFFICES ASSUME Init PROVE IInv
  OBVIOUS
<1>1. input \in Input
  BY Constants DEF Init
<1>2. TypeOK
  BY <1>1 DEF Init, TypeOK
<1> QED BY <1>2 DEF Init, IInv, StageInv, KeysInv, EscalatedInv, CheckedInv,
                    EveryKeyIsAccountedFor, EscalationsAgree

\* The input does not change, and what is computed from it does not either.
Frame == UNCHANGED <<input, mode, planner>>

LEMMA FrameKeeps ==
  ASSUME Frame
  PROVE  /\ Roster' = Roster /\ RosterKeys' = RosterKeys
         /\ Unresolved' = Unresolved /\ InputKeys' = InputKeys
         /\ Applies' = Applies
         /\ \A r : Checked(r)' <=> Checked(r)
BY DEF Frame, Roster, RosterKeys, Unresolved, InputKeys, Applies, Checked

LEMMA ValidateInv == IInv /\ Validate => IInv'
<1> SUFFICES ASSUME IInv, Validate PROVE IInv'
  OBVIOUS
<1>1. Frame /\ input \in Input /\ stage = "B2" /\ stage' = "B3"
  BY DEF IInv, TypeOK, Validate, Frame
<1>2. Roster \subseteq Recipient
  BY <1>1, RosterType
<1>3. forRepair' \subseteq Roster
  BY DEF Validate
<1>4. \A r \in Recipient : Usable(r) \in Recipient /\ Usable(r).key = r.key
                           /\ Usable(r).id = r.id
  BY Constants DEF Usable, Recipient
<1>5. eligible' = {Usable(r) : r \in Roster \ forRepair'}
  BY DEF Validate
<1>6. escalated' = {ToExcluded(r) : r \in forRepair'}
  BY DEF Validate
<1>7. eligible' \subseteq Recipient /\ escalated' \subseteq Excluded
  BY <1>2, <1>3, <1>4, <1>5, <1>6, ExcludedType
<1>8. repair' = None /\ manifest' = None /\ shipping' = {} /\ suppressed' = suppressed
  BY <1>1 DEF IInv, StageInv, Validate
<1>9. TypeOK'
  BY <1>1, <1>2, <1>3, <1>7, <1>8 DEF IInv, TypeOK, Validate
<1>10. StageInv'
  BY <1>1, <1>3, <1>8, FrameKeeps DEF StageInv
<1>11. KeysInv'
  <2>1. ASSUME NEW r \in Roster PROVE r.key \in KeysOf(eligible') \cup KeysOf(escalated')
    <3>1. CASE r \in forRepair'
      <4>1. ToExcluded(r) \in escalated'
        BY <1>6, <3>1
      <4> QED BY <1>2, <4>1, ExcludedType DEF KeysOf
    <3>2. CASE r \notin forRepair'
      <4>1. Usable(r) \in eligible'
        BY <1>5, <3>2
      <4> QED BY <1>2, <1>4, <4>1 DEF KeysOf
    <3> QED BY <3>1, <3>2
  <2>2. KeysOf(Roster) \subseteq KeysOf(eligible') \cup KeysOf(escalated')
    BY <2>1 DEF KeysOf
  <2>3. RosterKeys' \subseteq KeysOf(eligible') \cup KeysOf(escalated')
    BY <1>1, <2>2, RosterType, FrameKeeps
  <2> QED BY <1>1, <2>3 DEF KeysInv, KeysOf
<1>12. EscalatedInv'
  BY <1>6, <1>8 DEF EscalatedInv, NeedHuman
<1>13. CheckedInv'
  <2> SUFFICES ASSUME mode # "off", NEW u \in eligible' PROVE Checked(u)
    BY <1>1, FrameKeeps DEF CheckedInv, Frame
  <2>1. PICK r \in Roster \ forRepair' : u = Usable(r)
    BY <1>5
  <2>2. ~Escalates(r.address)
    BY <2>1 DEF Validate
  <2>3. r.address \in Valid
    BY <2>2 DEF Escalates, Outcome
  <2>4. r.address = input.people[r.id].address
    BY <1>1, <2>1, RosterType
  <2>5. u.address = Corrected[r.address] /\ u.id = r.id
    BY <1>2, <2>1 DEF Usable, Recipient
  <2> QED BY <2>3, <2>4, <2>5 DEF Checked
<1>14. EveryKeyIsAccountedFor' /\ EscalationsAgree'
  BY <1>8 DEF EveryKeyIsAccountedFor, EscalationsAgree
<1> QED BY <1>9, <1>10, <1>11, <1>12, <1>13, <1>14 DEF IInv

LEMMA RepairInv ==
  ASSUME IInv, NEW reply \in Reply, Repair(reply)
  PROVE  IInv'
<1>1. Frame /\ input \in Input /\ stage = "B3" /\ stage' = "B4"
  BY DEF IInv, TypeOK, Repair, Frame
<1>2. forRepair \subseteq Roster /\ forRepair' = forRepair
  BY DEF IInv, StageInv, Repair
<1>3. repair' = RepairOf(reply)
  BY DEF Repair
<1>4. /\ repair'.repaired \subseteq Recipient
      /\ repair'.escalated \subseteq Excluded
      /\ repair' # None
      /\ KeysOf(forRepair) \subseteq KeysOf(repair'.repaired) \cup KeysOf(repair'.escalated)
      /\ \A r \in repair'.repaired : \E a \in Valid : r.address = Corrected[a]
  BY <1>1, <1>2, <1>3, RepairType
<1>5. repair = None /\ manifest' = None /\ shipping' = {} /\ suppressed' = suppressed
  BY <1>1 DEF IInv, StageInv, Repair
<1>6. escalated = {ToExcluded(r) : r \in forRepair}
  BY <1>1, <1>5 DEF IInv, EscalatedInv, NeedHuman
<1>7. KeysOf(escalated) = KeysOf(forRepair)
  <2>1. \A r \in forRepair : ToExcluded(r).key = r.key
    BY <1>1, <1>2, RosterType, ExcludedType
  <2> QED BY <1>6, <2>1 DEF KeysOf
<1>8. \/ Applies /\ eligible' = eligible \cup repair'.repaired /\ escalated' = repair'.escalated
      \/ ~Applies /\ eligible' = eligible /\ escalated' = escalated
  BY DEF Repair
<1>9. TypeOK'
  BY <1>1, <1>2, <1>4, <1>5, <1>8 DEF IInv, TypeOK, Repair
<1>10. StageInv'
  BY <1>1, <1>2, <1>5, FrameKeeps DEF StageInv
<1>11. KeysInv'
  <2>1. RosterKeys \subseteq KeysOf(eligible) \cup KeysOf(escalated)
    BY <1>1 DEF IInv, KeysInv
  <2>2. KeysOf(eligible \cup repair'.repaired) = KeysOf(eligible) \cup KeysOf(repair'.repaired)
    BY DEF KeysOf
  <2>3. RosterKeys \subseteq KeysOf(eligible') \cup KeysOf(escalated')
    BY <1>4, <1>7, <1>8, <2>1, <2>2
  <2> QED BY <1>1, <2>3, FrameKeeps DEF KeysInv, KeysOf
<1>12. EscalatedInv'
  <2>1. CASE Applies
    BY <1>1, <1>4, <1>8, <2>1, FrameKeeps DEF EscalatedInv, NeedHuman
  <2>2. CASE ~Applies
    BY <1>1, <1>2, <1>6, <1>8, <2>2, FrameKeeps DEF EscalatedInv, NeedHuman
  <2> QED BY <2>1, <2>2
<1>13. CheckedInv'
  <2> SUFFICES ASSUME mode # "off", NEW r \in eligible' PROVE Checked(r)
    BY <1>1, FrameKeeps DEF CheckedInv, Frame
  <2>1. CASE r \in eligible
    BY <2>1 DEF IInv, CheckedInv
  <2>2. CASE r \notin eligible
    BY <1>4, <1>8, <2>2 DEF Checked, Applies
  <2> QED BY <2>1, <2>2
<1>14. EveryKeyIsAccountedFor' /\ EscalationsAgree'
  BY <1>5 DEF EveryKeyIsAccountedFor, EscalationsAgree
<1> QED BY <1>9, <1>10, <1>11, <1>12, <1>13, <1>14 DEF IInv

LEMMA NoRepairInv == IInv /\ NoRepair => IInv'
<1> SUFFICES ASSUME IInv, NoRepair PROVE IInv'
  OBVIOUS
<1>1. /\ Frame /\ stage = "B3" /\ stage' = "B4"
      /\ UNCHANGED <<input, fromImages, mode, planner, forRepair, repair, eligible,
                     escalated, shipping, suppressed, manifest>>
  BY DEF NoRepair, Frame
<1>2. manifest' = None /\ repair' = None /\ shipping' = {}
  BY <1>1 DEF IInv, StageInv
<1>3. TypeOK'
  BY <1>1, <1>2 DEF IInv, TypeOK
<1>4. StageInv'
  BY <1>1, <1>2, FrameKeeps DEF IInv, StageInv
<1>5. KeysInv'
  BY <1>1, FrameKeeps DEF IInv, KeysInv, KeysOf
<1>6. EscalatedInv'
  BY <1>1, <1>2 DEF IInv, EscalatedInv, NeedHuman
<1>7. CheckedInv'
  BY <1>1, FrameKeeps DEF IInv, CheckedInv
<1>8. EveryKeyIsAccountedFor' /\ EscalationsAgree'
  BY <1>2 DEF EveryKeyIsAccountedFor, EscalationsAgree
<1> QED BY <1>3, <1>4, <1>5, <1>6, <1>7, <1>8 DEF IInv

LEMMA DedupeInv == IInv /\ Dedupe => IInv'
<1> SUFFICES ASSUME IInv, Dedupe PROVE IInv'
  OBVIOUS
<1>1. /\ Frame /\ stage = "B4" /\ stage' = "C"
      /\ UNCHANGED <<input, fromImages, mode, planner, forRepair, repair, eligible,
                     escalated, manifest>>
      /\ shipping' = {r \in KeptRows : Holder(r) = r}
      /\ suppressed' = Folded
  BY DEF Dedupe, Frame
<1>2. eligible \subseteq Recipient
  BY DEF IInv, TypeOK
<1>3. manifest' = None
  BY <1>1 DEF IInv, StageInv
<1>4. shipping' \subseteq eligible' /\ suppressed' \subseteq Suppressed
  BY <1>1, <1>2, DedupeType DEF KeptRows
<1>5. TypeOK'
  BY <1>1, <1>3, <1>4 DEF IInv, TypeOK
<1>6. StageInv'
  BY <1>1, <1>3, FrameKeeps DEF IInv, StageInv
<1>7. KeysInv'
  <2>1. RosterKeys \subseteq KeysOf(eligible) \cup KeysOf(escalated)
    BY <1>1 DEF IInv, KeysInv
  <2>2. KeysOf(eligible) \subseteq KeysOf(shipping') \cup KeysOf(suppressed')
    BY <1>1, <1>2, DedupeType
  <2>3. RosterKeys \subseteq KeysOf(shipping') \cup KeysOf(suppressed') \cup KeysOf(escalated')
    BY <1>1, <2>1, <2>2
  <2> QED BY <1>1, <2>3, FrameKeeps DEF KeysInv, KeysOf
<1>8. EscalatedInv'
  BY <1>1, FrameKeeps DEF IInv, EscalatedInv, NeedHuman
<1>9. CheckedInv'
  BY <1>1, FrameKeeps DEF IInv, CheckedInv
<1>10. EveryKeyIsAccountedFor' /\ EscalationsAgree'
  BY <1>3 DEF EveryKeyIsAccountedFor, EscalationsAgree
<1> QED BY <1>5, <1>6, <1>7, <1>8, <1>9, <1>10 DEF IInv

LEMMA PublishInv ==
  ASSUME IInv, NEW infeasible \in SUBSET shipping, Publish(infeasible)
  PROVE  IInv'
<1>1. /\ Frame /\ stage = "C" /\ stage' = "planned"
      /\ UNCHANGED <<input, fromImages, mode, planner, forRepair, repair, eligible,
                     shipping, suppressed>>
      /\ escalated' = escalated \cup Unresolved
      /\ manifest' = [rows |-> shipping \ infeasible, infeasible |-> infeasible,
                      suppressed |-> suppressed, escalated |-> escalated']
  BY DEF Publish, Frame
<1>2. input \in Input
  BY DEF IInv, TypeOK
<1>3. Unresolved \subseteq Excluded /\ KeysOf(Unresolved) = UnresolvedKeys
  BY <1>2, UnresolvedType
<1>4. /\ manifest'.rows \cup manifest'.infeasible = shipping
      /\ manifest'.rows \subseteq shipping
      /\ manifest'.suppressed = suppressed
      /\ manifest'.escalated = escalated'
  BY <1>1
<1>5. TypeOK'
  BY <1>1, <1>3, <1>4 DEF IInv, TypeOK
<1>6. StageInv'
  BY <1>1, FrameKeeps DEF IInv, StageInv
<1>7. KeysInv' /\ EscalatedInv'
  BY <1>1 DEF KeysInv, EscalatedInv
<1>8. CheckedInv'
  BY <1>1, FrameKeeps DEF IInv, CheckedInv
<1>9. EveryKeyIsAccountedFor'
  <2>1. RosterKeys \subseteq KeysOf(shipping) \cup KeysOf(suppressed) \cup KeysOf(escalated)
    BY <1>1 DEF IInv, KeysInv
  <2>2. KeysOf(escalated') = KeysOf(escalated) \cup UnresolvedKeys
    <3>1. KeysOf(escalated \cup Unresolved) = KeysOf(escalated) \cup KeysOf(Unresolved)
      BY DEF KeysOf
    <3> QED BY <1>1, <1>3, <3>1
  <2>3. KeysOf(shipping) = KeysOf(manifest'.rows) \cup KeysOf(manifest'.infeasible)
    BY <1>4 DEF KeysOf
  <2>4. InputKeys = RosterKeys \cup UnresolvedKeys
    BY DEF InputKeys, RosterKeys, UnresolvedKeys
  <2>5. InputKeys \subseteq KeysOf(manifest'.rows) \cup KeysOf(manifest'.infeasible)
                            \cup KeysOf(manifest'.suppressed) \cup KeysOf(manifest'.escalated)
    BY <1>4, <2>1, <2>2, <2>3, <2>4
  <2> QED BY <1>1, <2>5, FrameKeeps DEF EveryKeyIsAccountedFor, KeysOf
<1>10. EscalationsAgree'
  <2>1. escalated = NeedHuman
    BY <1>1 DEF IInv, EscalatedInv
  <2>2. ResultEscalated = NeedHuman \cup Unresolved
    BY DEF ResultEscalated, NeedHuman
  <2>3. ResultEscalated' = ResultEscalated
    BY <1>1, FrameKeeps DEF ResultEscalated
  <2> QED BY <1>1, <1>4, <2>1, <2>2, <2>3 DEF EscalationsAgree
<1> QED BY <1>5, <1>6, <1>7, <1>8, <1>9, <1>10 DEF IInv

LEMMA NoManifestInv == IInv /\ NoManifest => IInv'
<1> SUFFICES ASSUME IInv, NoManifest PROVE IInv'
  OBVIOUS
<1>1. /\ Frame /\ stage = "C" /\ stage' = "planned"
      /\ UNCHANGED <<input, fromImages, mode, planner, forRepair, repair, eligible,
                     shipping, suppressed, manifest>>
      /\ escalated' = escalated \cup Unresolved
  BY DEF NoManifest, Frame
<1>2. Unresolved \subseteq Excluded
  BY UnresolvedType DEF IInv, TypeOK
<1>3. manifest' = None
  BY <1>1 DEF IInv, StageInv
<1>4. TypeOK'
  BY <1>1, <1>2, <1>3 DEF IInv, TypeOK
<1>5. StageInv'
  BY <1>1, FrameKeeps DEF IInv, StageInv
<1>6. KeysInv' /\ EscalatedInv'
  BY <1>1 DEF KeysInv, EscalatedInv
<1>7. CheckedInv'
  BY <1>1, FrameKeeps DEF IInv, CheckedInv
<1>8. EveryKeyIsAccountedFor' /\ EscalationsAgree'
  BY <1>3 DEF EveryKeyIsAccountedFor, EscalationsAgree
<1> QED BY <1>4, <1>5, <1>6, <1>7, <1>8 DEF IInv

LEMMA FailInv == IInv /\ Fail => IInv'
<1> SUFFICES ASSUME IInv, Fail PROVE IInv'
  OBVIOUS
<1>1. /\ Frame /\ stage \in {"B2", "C"} /\ stage' = "failed"
      /\ UNCHANGED <<input, fromImages, mode, planner, forRepair, repair, eligible,
                     escalated, shipping, suppressed, manifest>>
  BY DEF Fail, Frame
<1>2. manifest' = None
  BY <1>1 DEF IInv, StageInv
<1>3. TypeOK'
  BY <1>1, <1>2 DEF IInv, TypeOK
<1>4. StageInv'
  BY <1>1, <1>2, FrameKeeps DEF IInv, StageInv
<1>5. KeysInv' /\ EscalatedInv'
  BY <1>1 DEF KeysInv, EscalatedInv
<1>6. CheckedInv'
  BY <1>1, FrameKeeps DEF IInv, CheckedInv
<1>7. EveryKeyIsAccountedFor' /\ EscalationsAgree'
  BY <1>2 DEF EveryKeyIsAccountedFor, EscalationsAgree
<1> QED BY <1>3, <1>4, <1>5, <1>6, <1>7 DEF IInv

LEMMA StutterInv == IInv /\ UNCHANGED vars => IInv'
<1> SUFFICES ASSUME IInv, UNCHANGED vars PROVE IInv'
  OBVIOUS
<1>1. Frame
  BY DEF vars, Frame
<1>2. TypeOK'
  BY DEF IInv, TypeOK, vars
<1>3. StageInv'
  BY <1>1, FrameKeeps DEF IInv, StageInv, vars
<1>4. KeysInv'
  BY <1>1, FrameKeeps DEF IInv, KeysInv, KeysOf, vars
<1>5. EscalatedInv'
  BY <1>1, FrameKeeps DEF IInv, EscalatedInv, NeedHuman, vars
<1>6. CheckedInv'
  BY <1>1, FrameKeeps DEF IInv, CheckedInv, vars, Frame
<1>7. EveryKeyIsAccountedFor'
  BY <1>1, FrameKeeps DEF IInv, EveryKeyIsAccountedFor, KeysOf, vars
<1>8. EscalationsAgree'
  BY <1>1, FrameKeeps DEF IInv, EscalationsAgree, ResultEscalated, vars
<1> QED BY <1>2, <1>3, <1>4, <1>5, <1>6, <1>7, <1>8 DEF IInv

LEMMA NextInv == IInv /\ [Next]_vars => IInv'
BY ValidateInv, RepairInv, NoRepairInv, DedupeInv, PublishInv, NoManifestInv, FailInv,
   StutterInv DEF Next

LEMMA Invariance == Spec => []IInv
BY InitInv, NextInv, PTL DEF Spec
-----------------------------------------------------------------------------
\* Every list and every record keeps its type (plan_run).
THEOREM PlanningTypes == Spec => []TypeOK
<1>1. IInv => TypeOK
  BY DEF IInv
<1> QED BY <1>1, Invariance, PTL

\* For any input, any verdicts and any reply, however long, every key of the
\* input is on the manifest (Manifest.accounted_for).
THEOREM NobodyUnaccounted == Spec => []EveryKeyIsAccountedFor
<1>1. IInv => EveryKeyIsAccountedFor
  BY DEF IInv
<1> QED BY <1>1, Invariance, PTL

\* The result lists for a human the people the manifest lists, in every planner
\* mode and whether or not B3 was available (PlanResult.escalated).
THEOREM ResultMatchesManifest == Spec => []EscalationsAgree
<1>1. IInv => EscalationsAgree
  BY DEF IInv
<1> QED BY <1>1, Invariance, PTL

\* Whatever an agent proposes, a parcel goes to an address the validator
\* returned, and without an agent that may act to the one it returned for what
\* was submitted (validate_recipients, _adjudicate).
THEOREM AddressesAreChecked == Spec => []ShipsToCheckedAddresses
<1>1. IInv => ShipsToCheckedAddresses
  BY DEF IInv, TypeOK, CheckedInv, Checked, ShipsToCheckedAddresses
<1> QED BY <1>1, Invariance, PTL
-----------------------------------------------------------------------------
(* The doorsteps.                                                          *)

\* Who holds a slot is pinned to it, and holds it for itself: two rows at one
\* doorstep with one slot have one holder.
LEMMA HolderHolds ==
  ASSUME eligible \subseteq Recipient, NEW r \in KeptRows
  PROVE  /\ Holder(r) \in KeptRows /\ Holder(r).address = r.address
         /\ Holder(r).pin = Slot(r)
         /\ Holder(Holder(r)) = Holder(r)
<1> DEFINE h == Holder(r)
           list(s) == {t \in Doorstep(s) : t.pin = Slot(s)}
<1>1. list(r) # {}
  <2>1. r \in Doorstep(r)
    BY DEF Doorstep
  <2>2. CASE Slot(r) = r.pin
    BY <2>1, <2>2
  <2>3. CASE Slot(r) # r.pin
    <3>1. Cardinality(Pins(r)) = 1 /\ Slot(r) = CHOOSE d \in Pins(r) : TRUE
      BY <2>3 DEF Slot
    <3>2. Pins(r) # {}
      BY <3>1, FS_EmptySet
    <3>3. Slot(r) \in Pins(r)
      BY <3>1, <3>2
    <3> QED BY <3>3 DEF Pins
  <2> QED BY <2>2, <2>3
<1>2. list(r) \subseteq Recipient
  BY DEF Doorstep, KeptRows
<1>3. h \in list(r)
  BY <1>1, <1>2, FirstExists DEF Holder
<1>4. h \in KeptRows /\ h.address = r.address /\ h.pin = Slot(r)
  BY <1>3 DEF Doorstep
<1>5. Doorstep(h) = Doorstep(r) /\ Pins(h) = Pins(r)
  BY <1>4 DEF Doorstep, Pins
<1>6. Slot(h) = Slot(r)
  BY <1>4, <1>5 DEF Slot
<1>7. Holder(h) = h
  BY <1>5, <1>6 DEF Holder
<1> QED BY <1>4, <1>7

\* One row per slot ships.
LEMMA OnePerSlot ==
  ASSUME NEW r, NEW s, r.address = s.address, Slot(r) = Slot(s)
  PROVE  Holder(r) = Holder(s)
BY DEF Holder, Doorstep

LEMMA SamePinSameSlot ==
  ASSUME NEW r, NEW s, r.address = s.address, r.pin = s.pin
  PROVE  Slot(r) = Slot(s)
<1>1. Pins(r) = Pins(s)
  BY DEF Pins, Doorstep
<1> QED BY <1>1 DEF Slot

\* What B4 has made of the eligible stays as it is.
DoorInv ==
    stage \in {"C", "planned"} => /\ shipping = {r \in KeptRows : Holder(r) = r}
                                  /\ suppressed = Folded

\* A record is told from any other by its entry, and before B3 nobody who
\* needs repair is eligible.
EntriesApart ==
    /\ \A r, s \in eligible : r.id = s.id => r = s
    /\ stage = "B3" => \A r \in eligible, s \in forRepair : r.id # s.id

\* An entry is eligible or escalated, and not both; the exception is one that
\* an agent with the right to act was given beside another with its key.
Shadowed(r) == r \in forRepair /\ repair # None /\ Applies /\ Shadowing(r)

EntriesListed ==
    stage \in {"B3", "B4", "C"} =>
        /\ \A r \in eligible, e \in escalated : r.id # e.id
        /\ \A r \in Roster : \/ r.id \in IdsOf(eligible) \cup IdsOf(escalated)
                             \/ Shadowed(r)

EntryInv == DoorInv /\ EntriesApart /\ EntriesListed /\ EachEntryOnOneList

\* An entry of the roster is told by its number.
LEMMA RosterApart ==
  ASSUME NEW r \in Roster, NEW s \in Roster, r.id = s.id
  PROVE  r = s
BY DEF Roster

LEMMA InitEntry == Init => EntryInv
BY DEF Init, EntryInv, DoorInv, EntriesApart, EntriesListed, EachEntryOnOneList

LEMMA ValidateEntry ==
  ASSUME IInv, EntryInv, Validate
  PROVE  EntryInv'
<1>1. Frame /\ stage' = "B3" /\ Roster' = Roster /\ manifest' = None /\ input \in Input
  <2>1. Frame /\ stage = "B2" /\ stage' = "B3"
    BY DEF Validate, Frame
  <2> QED BY <2>1, FrameKeeps DEF IInv, StageInv, TypeOK, Validate
<1>2. \A r \in Roster : Usable(r).id = r.id
  <2>1. Roster \subseteq Recipient
    BY <1>1, RosterType
  <2> QED BY <2>1 DEF Usable, Recipient
<1>3. /\ forRepair' = {r \in Roster : Escalates(r.address)}
      /\ eligible' = {Usable(r) : r \in Roster \ forRepair'}
      /\ escalated' = {ToExcluded(r) : r \in forRepair'}
  BY DEF Validate
<1>4. \A r \in forRepair' : ToExcluded(r).id = r.id
  BY DEF ToExcluded
<1>5. EntriesApart'
  <2>1. ASSUME NEW r \in eligible', NEW s \in eligible', r.id = s.id PROVE r = s
    <3>1. PICK x \in Roster : r = Usable(x)
      BY <1>3
    <3>2. PICK y \in Roster : s = Usable(y)
      BY <1>3
    <3>3. x = y
      BY <1>2, <2>1, <3>1, <3>2, RosterApart
    <3> QED BY <3>1, <3>2, <3>3
  <2>2. ASSUME NEW r \in eligible', NEW s \in forRepair' PROVE r.id # s.id
    <3>1. PICK x \in Roster \ forRepair' : r = Usable(x)
      BY <1>3
    <3>2. x # s /\ s \in Roster
      BY <1>3, <3>1
    <3> QED BY <1>2, <3>1, <3>2, RosterApart
  <2> QED BY <2>1, <2>2 DEF EntriesApart
<1>6. EntriesListed'
  <2>1. ASSUME NEW r \in eligible', NEW e \in escalated' PROVE r.id # e.id
    <3>1. PICK s \in forRepair' : e = ToExcluded(s)
      BY <1>3
    <3> QED BY <1>1, <1>4, <1>5, <3>1 DEF EntriesApart
  <2>2. ASSUME NEW r \in Roster PROVE r.id \in IdsOf(eligible') \cup IdsOf(escalated')
    <3>1. CASE r \in forRepair'
      <4>1. ToExcluded(r) \in escalated' /\ ToExcluded(r).id = r.id
        BY <1>3, <1>4, <3>1
      <4> QED BY <4>1 DEF IdsOf
    <3>2. CASE r \notin forRepair'
      <4>1. Usable(r) \in eligible' /\ Usable(r).id = r.id
        BY <1>2, <1>3, <3>2
      <4> QED BY <4>1 DEF IdsOf
    <3> QED BY <3>1, <3>2
  <2> QED BY <1>1, <2>1, <2>2 DEF EntriesListed, IdsOf
<1>7. DoorInv' /\ EachEntryOnOneList'
  BY <1>1 DEF DoorInv, EachEntryOnOneList
<1> QED BY <1>5, <1>6, <1>7 DEF EntryInv

\* A repair has the entry of the record it was made of, and no entry is
\* repaired twice or both repaired and escalated.
LEMMA RepairApart ==
  ASSUME input \in Input, forRepair \subseteq Roster, NEW reply \in Reply
  PROVE  LET repaired == RepairOf(reply).repaired
             left == RepairOf(reply).escalated
         IN  /\ \A r \in repaired : \E s \in forRepair : s.id = r.id
             /\ \A r, s \in repaired : r.id = s.id => r = s
             /\ \A r \in repaired, e \in left : r.id # e.id
             /\ \A e \in left : \E s \in forRepair : s.id = e.id
             /\ \A s \in forRepair : \/ s.id \in IdsOf(repaired) \cup IdsOf(left)
                                     \/ Shadowing(s)
<1> DEFINE new(i) == [Original(reply[i].key) EXCEPT !.address = Corrected[reply[i].proposed],
                                                    !.at = Len(input.people) + i]
           won == {reply[i].key : i \in Accepted(reply)}
           repaired == RepairOf(reply).repaired
           left == RepairOf(reply).escalated
<1>1. /\ repaired = {new(i) : i \in Accepted(reply)}
      /\ left = {ToExcluded(Original(k)) : k \in KeysOf(forRepair) \ won}
  BY DEF RepairOf
<1>2. Accepted(reply) \subseteq Adjudicated(reply)
  BY DEF Accepted
<1>3. won \subseteq KeysOf(forRepair)
  BY <1>2 DEF Adjudicated
<1>4. \A k \in KeysOf(forRepair) : Original(k) \in forRepair /\ Original(k).key = k
  BY OriginalExists
<1>5. \A k, l \in KeysOf(forRepair) : Original(k).id = Original(l).id => k = l
  BY <1>4, RosterApart
<1>6. \A i \in Accepted(reply) : /\ reply[i].key \in won
                                /\ new(i).id = Original(reply[i].key).id
  <2>1. Roster \subseteq Recipient
    BY RosterType
  <2> QED BY <1>3, <1>4, <2>1 DEF Recipient
<1>7. \A i, j \in Accepted(reply) : reply[i].key = reply[j].key => i = j
  <2> SUFFICES ASSUME NEW i \in Accepted(reply), NEW j \in Accepted(reply),
                      reply[i].key = reply[j].key, i < j
               PROVE  FALSE
    <3>1. DOMAIN reply \subseteq Nat
      BY DEF Reply
    <3>2. Accepted(reply) \subseteq Nat
      BY <1>2, <3>1 DEF Adjudicated
    <3> QED BY <3>2
  <2>1. i \in 1 .. j - 1 /\ reply[i].proposed # Incomplete
    <3>1. PICK n \in Nat : DOMAIN reply = 1 .. n
      BY DEF Reply
    <3> QED BY <1>2, <3>1 DEF Adjudicated
  <2> QED BY <1>2, <2>1 DEF Adjudicated
<1> HIDE DEF new
<1>8. ASSUME NEW r \in repaired
      PROVE  /\ \E s \in forRepair : s.id = r.id
             /\ \A s \in repaired : r.id = s.id => r = s
             /\ \A e \in left : r.id # e.id
  <2>1. PICK i \in Accepted(reply) : r = new(i)
    BY <1>1
  <2>2. ASSUME NEW s \in repaired, r.id = s.id PROVE r = s
    <3>1. PICK j \in Accepted(reply) : s = new(j)
      BY <1>1
    <3>2. reply[i].key = reply[j].key
      BY <1>3, <1>5, <1>6, <2>1, <2>2, <3>1
    <3> QED BY <1>7, <2>1, <3>1, <3>2
  <2>3. ASSUME NEW e \in left PROVE r.id # e.id
    <3>1. PICK k \in KeysOf(forRepair) \ won : e = ToExcluded(Original(k))
      BY <1>1
    <3>2. e.id = Original(k).id
      BY <3>1 DEF ToExcluded
    <3> QED BY <1>3, <1>5, <1>6, <2>1, <3>2
  <2> QED BY <1>3, <1>4, <1>6, <2>1, <2>2, <2>3
<1>9. ASSUME NEW s \in forRepair, ~Shadowing(s)
      PROVE  s.id \in IdsOf(repaired) \cup IdsOf(left)
  <2>1. s.key \in KeysOf(forRepair)
    BY DEF KeysOf
  <2>2. Original(s.key) = s
    <3>1. /\ Original(s.key) \in forRepair /\ Original(s.key).key = s.key
          /\ \A t \in forRepair : t.key = s.key => t.at =< Original(s.key).at
      <4>1. \E r \in forRepair : r.key = s.key /\ \A t \in forRepair : t.key = s.key => t.at =< r.at
        <5>1. \A t \in forRepair : t.at \in Nat
          <6>1. Roster \subseteq Recipient
            BY RosterType
          <6> QED BY <6>1 DEF Recipient
        <5> QED BY <1>9, <5>1 DEF Shadowing
      <4> QED BY <4>1 DEF Original
    <3>2. /\ s.at \in Nat /\ Original(s.key).at \in Nat
          /\ s.at = s.id /\ Original(s.key).at = Original(s.key).id
      BY <3>1, RosterType DEF Recipient
    <3>3. s.at = Original(s.key).at
      BY <1>9, <3>1, <3>2 DEF Shadowing
    <3> QED BY <3>1, <3>2, <3>3, RosterApart
  <2>3. CASE s.key \in won
    <3>1. PICK i \in Accepted(reply) : reply[i].key = s.key
      BY <2>3
    <3>2. new(i) \in repaired /\ new(i).id = s.id
      BY <1>1, <1>6, <2>2, <3>1
    <3> QED BY <3>2 DEF IdsOf
  <2>4. CASE s.key \notin won
    <3>1. ToExcluded(s) \in left /\ ToExcluded(s).id = s.id
      BY <1>1, <2>1, <2>2, <2>4 DEF ToExcluded
    <3> QED BY <3>1 DEF IdsOf
  <2> QED BY <2>3, <2>4
<1>10. \A e \in left : \E s \in forRepair : s.id = e.id
  BY <1>1, <1>4 DEF ToExcluded
<1> QED BY <1>8, <1>9, <1>10

LEMMA RepairEntry ==
  ASSUME IInv, EntryInv, NEW reply \in Reply, Repair(reply)
  PROVE  EntryInv'
<1> DEFINE repaired == RepairOf(reply).repaired
           left == RepairOf(reply).escalated
<1>1. /\ Frame /\ stage = "B3" /\ stage' = "B4" /\ forRepair' = forRepair
      /\ input \in Input /\ forRepair \subseteq Roster
      /\ repair = None /\ manifest' = None
  BY DEF IInv, TypeOK, StageInv, Repair, Frame
<1>2. Roster' = Roster /\ Applies' = Applies
  BY <1>1, FrameKeeps
<1>3. repair' = RepairOf(reply) /\ repair' # None
  BY <1>1, RepairType DEF Repair
<1>4. escalated = {ToExcluded(r) : r \in forRepair}
  BY <1>1 DEF IInv, EscalatedInv, NeedHuman
<1>5. /\ \A r \in eligible, s \in forRepair : r.id # s.id
      /\ \A r, s \in eligible : r.id = s.id => r = s
      /\ \A r \in eligible, e \in escalated : r.id # e.id
      /\ \A r \in Roster : r.id \in IdsOf(eligible) \cup IdsOf(escalated)
  BY <1>1 DEF EntryInv, EntriesApart, EntriesListed, Shadowed
<1>6. /\ \A r \in repaired : \E s \in forRepair : s.id = r.id
      /\ \A r, s \in repaired : r.id = s.id => r = s
      /\ \A r \in repaired, e \in left : r.id # e.id
      /\ \A e \in left : \E s \in forRepair : s.id = e.id
      /\ \A s \in forRepair : s.id \in IdsOf(repaired) \cup IdsOf(left) \/ Shadowing(s)
  BY <1>1, RepairApart
<1> HIDE DEF repaired, left
<1>7. CASE Applies
  <2>1. eligible' = eligible \cup repaired /\ escalated' = left
    BY <1>3, <1>7 DEF Repair, repaired, left
  <2>2. EntriesApart'
    BY <1>1, <1>5, <1>6, <2>1 DEF EntriesApart
  <2>3. \A r \in eligible', e \in escalated' : r.id # e.id
    BY <1>5, <1>6, <2>1
  <2>4. ASSUME NEW r \in Roster
        PROVE  r.id \in IdsOf(eligible') \cup IdsOf(escalated') \/ Shadowed(r)'
    <3>1. CASE r.id \in IdsOf(eligible)
      BY <2>1, <3>1 DEF IdsOf
    <3>2. CASE r.id \in IdsOf(escalated)
      <4>1. PICK s \in forRepair : r.id = s.id
        BY <1>4, <3>2 DEF IdsOf, ToExcluded
      <4>2. r \in forRepair
        BY <1>1, <4>1, RosterApart
      <4>3. CASE r.id \in IdsOf(repaired) \cup IdsOf(left)
        BY <2>1, <4>3 DEF IdsOf
      <4>4. CASE Shadowing(r)
        BY <1>1, <1>2, <1>3, <1>7, <4>2, <4>4 DEF Shadowed, Shadowing
      <4> QED BY <1>6, <4>2, <4>3, <4>4
    <3> QED BY <1>5, <3>1, <3>2
  <2> QED BY <1>1, <1>2, <2>2, <2>3, <2>4
          DEF EntryInv, DoorInv, EntriesListed, EachEntryOnOneList, IdsOf
<1>8. CASE ~Applies
  <2>1. eligible' = eligible /\ escalated' = escalated
    BY <1>8 DEF Repair
  <2> QED BY <1>1, <1>2, <1>5, <2>1
          DEF EntryInv, DoorInv, EntriesApart, EntriesListed, EachEntryOnOneList, IdsOf
<1> QED BY <1>7, <1>8

LEMMA NoRepairEntry == IInv /\ EntryInv /\ NoRepair => EntryInv'
<1> SUFFICES ASSUME IInv, EntryInv, NoRepair PROVE EntryInv'
  OBVIOUS
<1>1. /\ Frame /\ stage = "B3" /\ stage' = "B4" /\ repair = None /\ manifest' = None
      /\ UNCHANGED <<eligible, escalated, forRepair, repair>>
  BY DEF IInv, StageInv, NoRepair, Frame
<1>2. Roster' = Roster
  BY <1>1, FrameKeeps
<1>3. /\ \A r, s \in eligible : r.id = s.id => r = s
      /\ \A r \in eligible, e \in escalated : r.id # e.id
      /\ \A r \in Roster : r.id \in IdsOf(eligible) \cup IdsOf(escalated)
  BY <1>1 DEF EntryInv, EntriesApart, EntriesListed, Shadowed
<1> QED BY <1>1, <1>2, <1>3
        DEF EntryInv, DoorInv, EntriesApart, EntriesListed, EachEntryOnOneList, IdsOf

\* What B4 makes of the eligible depends on nothing else.
LEMMA DoorsFollow ==
  ASSUME UNCHANGED eligible
  PROVE  /\ KeptRows' = KeptRows /\ Folded' = Folded
         /\ {r \in KeptRows : Holder(r) = r}' = {r \in KeptRows : Holder(r) = r}
<1>1. \A r : SameKey(r)' = SameKey(r)
  BY DEF SameKey
<1>2. KeptRows' = KeptRows
  BY <1>1 DEF KeptRows, First
<1>3. \A r : Doorstep(r)' = Doorstep(r)
  BY <1>2 DEF Doorstep
<1>4. \A r : Pins(r)' = Pins(r)
  BY <1>3 DEF Pins
<1>5. \A r : Slot(r)' = Slot(r)
  <2> SUFFICES ASSUME NEW r PROVE Slot(r)' = Slot(r)
    OBVIOUS
  <2> DEFINE slot(pins) == IF r.pin = None /\ Cardinality(pins) = 1
                           THEN CHOOSE d \in pins : TRUE ELSE r.pin
  <2>1. Slot(r) = slot(Pins(r)) /\ Slot(r)' = slot(Pins(r)')
    BY DEF Slot
  <2> HIDE DEF slot
  <2> QED BY <1>4, <2>1
<1>6. \A r : Holder(r)' = Holder(r)
  BY <1>3, <1>5 DEF Holder, First
<1>7. Folded' = Folded
  BY <1>1, <1>2, <1>6 DEF Folded, First
<1> QED BY <1>2, <1>6, <1>7

\* The listing does not change while the lists do not.
LEMMA ListingFollows ==
  ASSUME Frame, UNCHANGED <<eligible, escalated, forRepair, repair>>, EntriesListed,
         stage \in {"B3", "B4", "C"}
  PROVE  EntriesListed'
BY FrameKeeps DEF EntriesListed, Shadowed, Shadowing, IdsOf

LEMMA DedupeEntry == IInv /\ EntryInv /\ Dedupe => EntryInv'
<1> SUFFICES ASSUME IInv, EntryInv, Dedupe PROVE EntryInv'
  OBVIOUS
<1>1. /\ Frame /\ stage = "B4" /\ stage' = "C" /\ manifest' = None
      /\ UNCHANGED <<eligible, escalated, forRepair, repair>>
      /\ shipping' = {r \in KeptRows : Holder(r) = r} /\ suppressed' = Folded
  BY DEF IInv, StageInv, Dedupe, Frame
<1>2. DoorInv'
  BY <1>1, DoorsFollow DEF DoorInv
<1>3. EntriesApart'
  BY <1>1 DEF EntryInv, EntriesApart
<1>4. EntriesListed'
  BY <1>1, ListingFollows DEF EntryInv
<1> QED BY <1>1, <1>2, <1>3, <1>4 DEF EntryInv, EachEntryOnOneList

LEMMA OneOfFour ==
  ASSUME NEW lists, NEW v, NEW m \in 1 .. 4,
         \A n \in 1 .. 4 : v \in lists[n] <=> n = m
  PROVE  Cardinality({n \in 1 .. 4 : v \in lists[n]}) = 1
<1>1. {n \in 1 .. 4 : v \in lists[n]} = {m}
  OBVIOUS
<1> QED BY <1>1, FS_Singleton

\* A record that is eligible and does not ship is suppressed, and no other is.
LEMMA FoldedIds ==
  IdsOf(Folded) = {r.id : r \in eligible \ {r \in KeptRows : Holder(r) = r}}
<1> DEFINE same(r) == [id |-> r.id, key |-> r.key, onto |-> First(SameKey(r)).id]
           onto(r) == [id |-> r.id, key |-> r.key, onto |-> Holder(r).id]
<1>1. Folded = {same(r) : r \in eligible \ KeptRows}
               \cup {onto(r) : r \in {r \in KeptRows : Holder(r) # r}}
  BY DEF Folded
<1>2. \A r : same(r).id = r.id /\ onto(r).id = r.id
  OBVIOUS
<1> HIDE DEF same, onto
<1>3. KeptRows \subseteq eligible
  BY DEF KeptRows
<1> QED BY <1>1, <1>2, <1>3 DEF IdsOf

LEMMA PublishEntry ==
  ASSUME IInv, EntryInv, NEW infeasible \in SUBSET shipping, Publish(infeasible)
  PROVE  EntryInv'
<1>1. /\ Frame /\ stage = "C" /\ stage' = "planned" /\ input \in Input
      /\ UNCHANGED <<eligible, forRepair, repair, shipping, suppressed>>
      /\ manifest'.rows = shipping \ infeasible /\ manifest'.infeasible = infeasible
      /\ manifest'.suppressed = suppressed
      /\ manifest'.escalated = escalated \cup Unresolved
  BY DEF IInv, TypeOK, Publish, Frame
<1>2. Roster' = Roster /\ Applies' = Applies
  BY <1>1, FrameKeeps
<1>3. /\ shipping = {r \in KeptRows : Holder(r) = r} /\ suppressed = Folded
      /\ \A r, s \in eligible : r.id = s.id => r = s
      /\ \A r \in eligible, e \in escalated : r.id # e.id
      /\ \A r \in Roster : r.id \in IdsOf(eligible) \cup IdsOf(escalated) \/ Shadowed(r)
  BY <1>1 DEF EntryInv, DoorInv, EntriesApart, EntriesListed
<1>4. DoorInv'
  BY <1>1, <1>3, DoorsFollow DEF DoorInv
<1>5. EntriesApart' /\ EntriesListed'
  BY <1>1, <1>3 DEF EntriesApart, EntriesListed
<1>6. shipping \subseteq eligible
  BY <1>3 DEF KeptRows
<1>7. IdsOf(suppressed) = {r.id : r \in eligible \ shipping}
  BY <1>3, FoldedIds
<1>8. \A r \in Roster, e \in Unresolved : r.id # e.id
  <2>1. PICK n \in Nat : DOMAIN input.people = 1 .. n /\ Len(input.people) = n
    BY <1>1 DEF Input
  <2>2. \A r \in Roster : r.id \in 1 .. n
    BY <2>1 DEF Roster
  <2>3. DOMAIN input.unresolved \subseteq Nat \ {0}
    BY <1>1 DEF Input
  <2>4. \A e \in Unresolved : \E i \in Nat \ {0} : e.id = n + i
    BY <2>1, <2>3 DEF Unresolved
  <2> QED BY <2>2, <2>4
<1>9. EachEntryOnOneList'
  <2> DEFINE lists == <<IdsOf(manifest'.rows), IdsOf(manifest'.infeasible),
                        IdsOf(manifest'.suppressed), IdsOf(manifest'.escalated)>>
  <2>1. /\ lists[1] = IdsOf(shipping \ infeasible) /\ lists[2] = IdsOf(infeasible)
        /\ lists[3] = IdsOf(suppressed) /\ lists[4] = IdsOf(escalated \cup Unresolved)
    BY <1>1
  <2> HIDE DEF lists
  <2>2. ASSUME NEW r \in Roster, ~Shadowed(r)
        PROVE  Cardinality({n \in 1 .. 4 : r.id \in lists[n]}) = 1
    <3>1. r.id \notin IdsOf(Unresolved)
      BY <1>8 DEF IdsOf
    <3>2. CASE r.id \in IdsOf(escalated)
      <4>1. r.id \notin IdsOf(eligible)
        BY <1>3, <3>2 DEF IdsOf
      <4>2. r.id \notin lists[1] /\ r.id \notin lists[2] /\ r.id \notin lists[3]
        BY <1>6, <1>7, <2>1, <4>1 DEF IdsOf
      <4>3. r.id \in lists[4]
        BY <2>1, <3>2 DEF IdsOf
      <4>4. \A n \in 1 .. 4 : r.id \in lists[n] <=> n = 4
        BY <4>2, <4>3
      <4> QED BY <4>4, OneOfFour
    <3>3. CASE r.id \notin IdsOf(escalated)
      <4>1. PICK x \in eligible : x.id = r.id
        BY <1>3, <2>2, <3>3 DEF IdsOf
      <4>2. r.id \notin lists[4]
        BY <2>1, <3>1, <3>3 DEF IdsOf
      <4>3. \A y \in eligible : y.id = r.id => y = x
        BY <1>3, <4>1
      <4>4. /\ r.id \in lists[1] <=> x \in shipping \ infeasible
            /\ r.id \in lists[2] <=> x \in infeasible
            /\ r.id \in lists[3] <=> x \notin shipping
        BY <1>6, <1>7, <2>1, <4>1, <4>3 DEF IdsOf
      <4>5. CASE x \in infeasible
        <5>1. \A n \in 1 .. 4 : r.id \in lists[n] <=> n = 2
          BY <4>2, <4>4, <4>5
        <5> QED BY <5>1, OneOfFour
      <4>6. CASE x \in shipping \ infeasible
        <5>1. \A n \in 1 .. 4 : r.id \in lists[n] <=> n = 1
          BY <4>2, <4>4, <4>6
        <5> QED BY <5>1, OneOfFour
      <4>7. CASE x \notin shipping
        <5>1. \A n \in 1 .. 4 : r.id \in lists[n] <=> n = 3
          BY <4>2, <4>4, <4>7
        <5> QED BY <5>1, OneOfFour
      <4> QED BY <4>5, <4>6, <4>7
    <3> QED BY <3>2, <3>3
  <2>3. \A r : Shadowing(r)' = Shadowing(r)
    BY <1>1 DEF Shadowing
  <2>4. ASSUME NEW r \in Roster
        PROVE  \/ Cardinality({n \in 1 .. 4 : r.id \in lists[n]}) = 1
               \/ r \in forRepair' /\ repair' # None /\ Applies' /\ Shadowing(r)'
    BY <1>1, <1>2, <2>2, <2>3 DEF Shadowed
  <2> QED BY <1>2, <2>4 DEF EachEntryOnOneList, lists, IdsOf
<1> QED BY <1>4, <1>5, <1>9 DEF EntryInv

LEMMA NoManifestEntry == IInv /\ EntryInv /\ NoManifest => EntryInv'
<1> SUFFICES ASSUME IInv, EntryInv, NoManifest PROVE EntryInv'
  OBVIOUS
<1>1. /\ stage = "C" /\ stage' = "planned" /\ manifest' = None
      /\ UNCHANGED <<eligible, shipping, suppressed>>
  BY DEF IInv, StageInv, NoManifest
<1>2. DoorInv'
  BY <1>1, DoorsFollow DEF EntryInv, DoorInv
<1> QED BY <1>1, <1>2 DEF EntryInv, EntriesApart, EntriesListed, EachEntryOnOneList

LEMMA FailEntry == IInv /\ EntryInv /\ Fail => EntryInv'
<1> SUFFICES ASSUME IInv, EntryInv, Fail PROVE EntryInv'
  OBVIOUS
<1>1. stage' = "failed" /\ manifest' = None /\ UNCHANGED eligible
  BY DEF IInv, StageInv, Fail
<1> QED BY <1>1 DEF EntryInv, DoorInv, EntriesApart, EntriesListed, EachEntryOnOneList

LEMMA StutterEntry == EntryInv /\ UNCHANGED vars => EntryInv'
<1> SUFFICES ASSUME EntryInv, UNCHANGED vars PROVE EntryInv'
  OBVIOUS
<1>1. Frame /\ UNCHANGED <<eligible, escalated, forRepair, repair, shipping, suppressed,
                           manifest, stage>>
  BY DEF vars, Frame
<1>2. DoorInv'
  BY <1>1, DoorsFollow DEF EntryInv, DoorInv
<1>3. EntriesApart'
  BY <1>1 DEF EntryInv, EntriesApart
<1>4. EntriesListed'
  BY <1>1, ListingFollows DEF EntryInv, EntriesListed
<1>5. EachEntryOnOneList'
  <2>1. Roster' = Roster /\ Applies' = Applies /\ \A r : Shadowing(r)' = Shadowing(r)
    BY <1>1, FrameKeeps DEF Shadowing
  <2> QED BY <1>1, <2>1 DEF EntryInv, EachEntryOnOneList
<1> QED BY <1>2, <1>3, <1>4, <1>5 DEF EntryInv

LEMMA NextEntry == IInv /\ EntryInv /\ [Next]_vars => EntryInv'
BY ValidateEntry, RepairEntry, NoRepairEntry, DedupeEntry, PublishEntry, NoManifestEntry,
   FailEntry, StutterEntry DEF Next

LEMMA EntriesInvariant == Spec => [](IInv /\ EntryInv)
<1>1. Init => IInv /\ EntryInv
  BY InitInv, InitEntry
<1>2. IInv /\ EntryInv /\ [Next]_vars => IInv' /\ EntryInv'
  BY NextInv, NextEntry
<1> QED BY <1>1, <1>2, PTL DEF Spec

\* For any input, any verdicts and any reply, each entry of the input is on one
\* list of the manifest and on no other, but for the one whose key another entry
\* has that was given to the same agent (validate_recipients, _adjudicate,
\* dedupe_recipients).
THEOREM OneListEach == Spec => []EachEntryOnOneList
<1>1. EntryInv => EachEntryOnOneList
  BY DEF EntryInv
<1> QED BY <1>1, EntriesInvariant, PTL

\* However many share a doorstep, each date somebody there is pinned to has one
\* parcel, and those without a date have one of their own unless there is a
\* single date to join (_assign_holders).
THEOREM EachPinShips == Spec => []DoorstepKeepsEachPin
<1>1. ASSUME IInv, EntryInv PROVE DoorstepKeepsEachPin
  <2> SUFFICES ASSUME stage \in {"C", "planned"} PROVE DoorstepKeepsEachPin
    BY DEF DoorstepKeepsEachPin
  <2>1. shipping = {r \in KeptRows : Holder(r) = r} /\ eligible \subseteq Recipient
    BY <1>1 DEF EntryInv, DoorInv, IInv, TypeOK
  <2>2. ASSUME NEW r \in shipping PROVE r.pin = Slot(r)
    BY <2>1, HolderHolds
  <2>3. ASSUME NEW r \in shipping, NEW s \in shipping, r.address = s.address, r.pin = s.pin
        PROVE  r = s
    BY <2>1, <2>2, <2>3, OnePerSlot
  <2>4. ASSUME NEW r \in KeptRows
        PROVE  LET parcels == {s \in shipping : s.address = r.address}
                   unpinned == \E s \in Doorstep(r) : s.pin = None
               IN  {s.pin : s \in parcels} =
                       IF unpinned /\ Cardinality(Pins(r)) # 1 THEN Pins(r) \cup {None}
                                                               ELSE Pins(r)
    <3> DEFINE parcels == {s \in shipping : s.address = r.address}
               unpinned == \E s \in Doorstep(r) : s.pin = None
               slots == {Slot(s) : s \in Doorstep(r)}
    <3>1. \A s \in Doorstep(r) : s \in KeptRows /\ s.address = r.address /\ Pins(s) = Pins(r)
      BY DEF Doorstep, Pins
    <3>2. {s.pin : s \in parcels} = slots
      <4>1. ASSUME NEW s \in parcels PROVE s.pin \in slots
        BY <2>1, <2>2 DEF Doorstep
      <4>2. ASSUME NEW s \in Doorstep(r) PROVE \E t \in parcels : t.pin = Slot(s)
        <5>1. Holder(s) \in parcels
          BY <2>1, <3>1, HolderHolds
        <5> QED BY <2>1, <3>1, <5>1, HolderHolds
      <4> QED BY <4>1, <4>2
    <3>3. \A s \in Doorstep(r) : s.pin # None => Slot(s) = s.pin /\ s.pin \in Pins(r)
      BY DEF Slot, Pins
    <3>4. \A d \in Pins(r) : \E s \in Doorstep(r) : s.pin = d /\ d # None
      BY DEF Pins
    <3>5. Pins(r) \subseteq slots
      BY <3>3, <3>4
    <3>6. CASE Cardinality(Pins(r)) # 1
      <4>1. \A s \in Doorstep(r) : Slot(s) = s.pin
        BY <3>1, <3>6 DEF Slot
      <4> QED BY <3>2, <3>3, <3>5, <3>6, <4>1
    <3>7. CASE Cardinality(Pins(r)) = 1
      <4>1. Pins(r) # {}
        BY <3>7, FS_EmptySet
      <4>2. \A s \in Doorstep(r) : s.pin = None => Slot(s) \in Pins(r)
        BY <3>1, <3>7, <4>1 DEF Slot
      <4> QED BY <3>2, <3>3, <3>5, <3>7, <4>2
    <3> QED BY <3>6, <3>7
  <2> QED BY <2>3, <2>4 DEF DoorstepKeepsEachPin
<1> QED BY <1>1, EntriesInvariant, PTL

\* Who is folded at a doorstep is folded onto a parcel that ships there, on their
\* own date or, if they have none, on whatever date it has (_consolidate_addresses).
THEOREM FoldsHaveParcels == Spec => []FoldedOntoAParcel
<1>1. ASSUME IInv, EntryInv PROVE FoldedOntoAParcel
  <2> SUFFICES ASSUME stage \in {"C", "planned"},
                      NEW r \in KeptRows, NEW e \in suppressed, e.id = r.id
               PROVE  \E s \in shipping : /\ s.id = e.onto /\ s.address = r.address
                                          /\ r.pin \in {s.pin, None}
    BY DEF FoldedOntoAParcel
  <2>1. /\ shipping = {x \in KeptRows : Holder(x) = x} /\ suppressed = Folded
        /\ eligible \subseteq Recipient
        /\ \A x, y \in eligible : x.id = y.id => x = y
    BY <1>1 DEF EntryInv, DoorInv, EntriesApart, IInv, TypeOK
  <2>2. KeptRows \subseteq eligible
    BY DEF KeptRows
  <2>3. e.onto = Holder(r).id
    <3> DEFINE same(x) == [id |-> x.id, key |-> x.key, onto |-> First(SameKey(x)).id]
               onto(x) == [id |-> x.id, key |-> x.key, onto |-> Holder(x).id]
    <3>1. Folded = {same(x) : x \in eligible \ KeptRows}
                   \cup {onto(x) : x \in {x \in KeptRows : Holder(x) # x}}
      BY DEF Folded
    <3>2. \A x : same(x).id = x.id /\ onto(x).id = x.id /\ onto(x).onto = Holder(x).id
      OBVIOUS
    <3> HIDE DEF same, onto
    <3>3. CASE e \in {same(x) : x \in eligible \ KeptRows}
      BY <2>1, <2>2, <3>2, <3>3
    <3>4. CASE e \in {onto(x) : x \in {x \in KeptRows : Holder(x) # x}}
      BY <2>1, <2>2, <3>2, <3>4
    <3> QED BY <2>1, <3>1, <3>3, <3>4
  <2>4. /\ Holder(r) \in shipping /\ Holder(r).address = r.address
        /\ Holder(r).pin = Slot(r)
    BY <2>1, HolderHolds
  <2>5. r.pin \in {Slot(r), None}
    BY DEF Slot
  <2> QED BY <2>3, <2>4, <2>5
<1> QED BY <1>1, EntriesInvariant, PTL
=============================================================================
