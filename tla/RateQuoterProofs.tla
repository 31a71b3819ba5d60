-------------------------- MODULE RateQuoterProofs --------------------------
(***************************************************************************)
(* What quoting a lane promises, for every number of carriers, parcels,    *)
(* attempts and runs and for every answer of the service.                  *)
(*                                                                         *)
(* The invariant ties three memories together: the pin is the carriers of  *)
(* the cached reference parcel, what the run was told is what is cached,   *)
(* and what is cached covers the pin.  So the reference parcel is never    *)
(* fetched twice, and neither is a variant.                                *)
(***************************************************************************)
EXTENDS RateQuoter, TLAPS

\* The pin is the reference parcel's, and comes first.
PinInv ==
    /\ pinned # {} => cache[Reference] # None /\ pinned = CarriersOf(cache[Reference])
    /\ pinned = {} => left = Parcels
    /\ \A p \in Parcels \ left : got[p] # None

\* What the run was told of a parcel is cached, and covers the pin.
GotInv ==
    \A p \in Parcels : got[p] # None =>
        /\ cache[p] = got[p]
        /\ cache[Reference] # None
        /\ CarriersOf(cache[Reference]) \subseteq CarriersOf(cache[p])
        /\ CarriersOf(cache[p]) # {}

\* A call is made only for what the cache could not answer.
CallInv ==
    call # None =>
        /\ call.parcel \in Wanted
        /\ ~Reusable(call.parcel)
        /\ call.attempt > 0 => call.best # None
        /\ call.last # None => call.attempt > 0

\* The file is the memory, as soon as there is something in it.
DiskInv == phase = "running" => disk = cache \/ (disk = Torn /\ cache = Empty)

\* What a finished run leaves behind answers every question of the next.
WarmInv ==
    warm =>
        /\ disk # Torn
        /\ \A p \in Parcels :
              disk[p] # None /\ CarriersOf(disk[Reference]) \subseteq CarriersOf(disk[p])
        /\ call = None
        /\ phase = "running" => cache = disk

Inv == TypeOK /\ PinInv /\ GotInv /\ CallInv /\ DiskInv /\ WarmInv

LEMMA Constants ==
    /\ Reference \in Parcels
    /\ Answers \subseteq Answer
    /\ MaxAttempts \in Nat \ {0}
    /\ MaxRuns \in Nat
    /\ None \notin Answer
    /\ Torn \notin [Parcels -> Answer \cup {None}]
BY QuoterAssumption

LEMMA EmptyType == Empty \in [Parcels -> Answer \cup {None}]
BY DEF Empty

LEMMA InitInv == Init => Inv
<1> SUFFICES ASSUME Init PROVE Inv
    OBVIOUS
<1>1. TypeOK
    <2>1. runs \in 0 .. MaxRuns
        BY Constants DEF Init
    <2> QED BY <2>1, EmptyType, Zenon DEF Init, TypeOK
<1>2. PinInv /\ GotInv /\ CallInv /\ DiskInv /\ WarmInv
    BY DEF Init, PinInv, GotInv, CallInv, DiskInv, WarmInv, Empty
<1> QED BY <1>1, <1>2 DEF Inv

\* A parcel that was quoted against the pin is answered from the cache.
LEMMA GotIsReusable ==
    ASSUME Inv, NEW p \in Parcels, got[p] # None
    PROVE  Reusable(p)
BY DEF Inv, PinInv, GotInv, Reusable, Missing

LEMMA StepInv == Inv /\ [Next]_vars => Inv'
<1> SUFFICES ASSUME Inv, [Next]_vars PROVE Inv'
    OBVIOUS
<1>1. ASSUME Start PROVE Inv'
    <2>1. TypeOK'
        <3>1. /\ cache' \in [Parcels -> Answer \cup {None}]
              /\ got' = Empty
            BY <1>1, EmptyType DEF Inv, TypeOK, Start
        <3>2. runs' \in 0 .. MaxRuns
            BY <1>1, Constants DEF Inv, TypeOK, Start
        <3> QED BY <1>1, <3>1, <3>2, EmptyType, Zenon DEF Inv, TypeOK, Start
    <2>2. PinInv' /\ GotInv' /\ CallInv' /\ DiskInv'
        BY <1>1 DEF Inv, PinInv, GotInv, CallInv, DiskInv, Start, Empty
    <2>3. WarmInv'
        BY <1>1 DEF Inv, WarmInv, Start
    <2> QED BY <2>1, <2>2, <2>3 DEF Inv
<1>2. ASSUME NEW p \in Parcels, Recall(p) PROVE Inv'
    <2>1. cache[p] \in Answer /\ pinned \subseteq CarriersOf(cache[p])
        BY <1>2 DEF Recall, Reusable, Missing, Inv, TypeOK
    <2>2. CASE pinned = {}
        <3>1. p = Reference /\ left = Parcels
            BY <1>2, <2>2 DEF Recall, Wanted, Inv, PinInv
        <3>2. /\ pinned' = CarriersOf(cache[Reference]) /\ call' = None
              /\ UNCHANGED <<disk, cache, phase, left, again, got, runs, warm, call>>
            BY <1>2, <2>2, <3>1 DEF Recall, Return
        <3>3. TypeOK'
            BY <3>2 DEF Inv, TypeOK, CarriersOf
        <3>4. PinInv' /\ CallInv'
            BY <2>1, <3>1, <3>2, Constants DEF Inv, PinInv, CallInv, CarriersOf
        <3>5. GotInv' /\ DiskInv' /\ WarmInv'
            BY <3>2 DEF Inv, GotInv, DiskInv, WarmInv, CarriersOf
        <3> QED BY <3>3, <3>4, <3>5 DEF Inv
    <2>3. CASE pinned # {}
        <3>1. /\ left' = left \ {p} /\ got' = [got EXCEPT ![p] = cache[p]]
              /\ call' = None
              /\ UNCHANGED <<disk, cache, phase, pinned, again, runs, warm, call>>
            BY <1>2, <2>3 DEF Recall, Return
        <3>2. TypeOK'
            BY <2>1, <3>1 DEF Inv, TypeOK
        <3>3. PinInv'
            BY <2>1, <2>3, <3>1, Constants DEF Inv, TypeOK, PinInv, CarriersOf
        <3>4. GotInv'
            <4> SUFFICES ASSUME NEW q \in Parcels, got'[q] # None
                         PROVE  /\ cache[q] = got'[q]
                                /\ cache[Reference] # None
                                /\ CarriersOf(cache[Reference]) \subseteq CarriersOf(cache[q])
                                /\ CarriersOf(cache[q]) # {}
                BY <3>1 DEF GotInv, CarriersOf
            <4>1. CASE q = p
                BY <4>1, <2>1, <2>3, <3>1 DEF Inv, TypeOK, PinInv
            <4>2. CASE q # p
                BY <4>2, <3>1 DEF Inv, TypeOK, GotInv
            <4> QED BY <4>1, <4>2
        <3>5. CallInv' /\ DiskInv' /\ WarmInv'
            BY <3>1 DEF Inv, CallInv, DiskInv, WarmInv, CarriersOf
        <3> QED BY <3>2, <3>3, <3>4, <3>5 DEF Inv
    <2> QED BY <2>2, <2>3
<1>3. ASSUME NEW p \in Parcels, Ask(p) PROVE Inv'
    <2>1. ~warm
        <3>1. warm => cache[p] # None /\ pinned \subseteq CarriersOf(cache[p])
            BY <1>3 DEF Ask, Inv, WarmInv, PinInv
        <3> QED BY <3>1, <1>3 DEF Ask, Reusable, Missing
    <2>2. TypeOK'
        BY <1>3, Constants DEF Ask, Inv, TypeOK, Call
    <2>3. CallInv'
        BY <1>3 DEF Ask, CallInv, Wanted, Reusable, Missing, CarriersOf
    <2>4. PinInv' /\ GotInv' /\ DiskInv' /\ WarmInv'
        BY <1>3, <2>1 DEF Ask, Inv, PinInv, GotInv, DiskInv, WarmInv, CarriersOf
    <2> QED BY <2>2, <2>3, <2>4 DEF Inv
<1>4. ASSUME NEW answer \in Answers, Fetch(answer) PROVE Inv'
    <2>1. call \in Call /\ answer \in Answer /\ call.attempt # MaxAttempts
        BY <1>4, Constants DEF Fetch, Settled, Inv, TypeOK
    <2>2. /\ call' \in Call /\ call'.parcel = call.parcel
          /\ call'.best # None /\ call'.attempt > 0
          /\ UNCHANGED <<disk, cache, phase, pinned, left, again, got, runs, warm>>
        <3> DEFINE better == call.best = None \/ Quotes(answer) > Quotes(call.best)
        <3>1. call' = [call EXCEPT !.attempt = call.attempt + 1, !.last = answer,
                                   !.best = IF better THEN answer ELSE @]
            BY <1>4 DEF Fetch, Counted
        <3>2. call'.best = (IF better THEN answer ELSE call.best)
            BY <3>1, <2>1 DEF Call
        <3>3. better \in BOOLEAN /\ (~better => call.best # None)
            OBVIOUS
        <3> HIDE DEF better
        <3>4. call'.best \in Answer
            BY <3>2, <3>3, <2>1 DEF Call
        <3>5. /\ call'.attempt = call.attempt + 1 /\ call'.attempt \in 1 .. MaxAttempts
              /\ call'.parcel = call.parcel /\ call'.last = answer
            BY <3>1, <2>1, Constants DEF Call
        <3>6. call' = [parcel |-> call.parcel, attempt |-> call'.attempt,
                       best |-> call'.best, last |-> answer]
            BY <3>1, <3>2, <3>5, <2>1 DEF Call
        <3>7. call' \in Call
            BY <3>4, <3>5, <3>6, <2>1 DEF Call
        <3> QED BY <3>4, <3>5, <3>7, <1>4, Constants DEF Fetch
    <2>3. TypeOK'
        BY <2>2 DEF Inv, TypeOK
    <2>4. CallInv'
        BY <1>4, <2>2 DEF Fetch, Inv, CallInv, Wanted, Reusable, Missing, CarriersOf
    <2>5. PinInv' /\ GotInv' /\ DiskInv' /\ WarmInv'
        BY <1>4, <2>2 DEF Fetch, Inv, PinInv, GotInv, DiskInv, WarmInv, CarriersOf
    <2> QED BY <2>3, <2>4, <2>5 DEF Inv
<1>5. ASSUME Keep PROVE Inv'
    <2> DEFINE p == call.parcel
               answer == call.best
    <2>1. /\ p \in Parcels /\ answer \in Answer /\ call # None
          /\ pinned \subseteq CarriersOf(answer) /\ CarriersOf(answer) # {}
          /\ ~warm /\ p \in Wanted /\ ~Reusable(p)
        <3>1. call # None /\ call \in Call /\ ~warm
            BY <1>5 DEF Keep, Inv, TypeOK, WarmInv
        <3>2. call.attempt > 0
            BY <1>5, <3>1, Constants DEF Keep, Settled, Inv, CallInv, Call, TypeOK
        <3> QED BY <1>5, <3>1, <3>2 DEF Keep, Sufficient, Missing, Inv, CallInv, Call
    <2>2. /\ cache' = [cache EXCEPT ![p] = answer] /\ disk' = cache' /\ call' = None
          /\ Return(p, answer)
          /\ UNCHANGED <<phase, again, runs, warm>>
        BY <1>5 DEF Keep, Kept, Flush
    <2>3. got[p] = None
        BY <2>1, GotIsReusable
    <2> HIDE DEF p, answer
    <2>4. cache' \in [Parcels -> Answer \cup {None}] /\ cache'[p] = answer
        BY <2>1, <2>2 DEF Inv, TypeOK
    <2>5. DiskInv' /\ CallInv' /\ WarmInv'
        BY <2>1, <2>2 DEF DiskInv, CallInv, WarmInv
    <2>6. CASE pinned = {}
        <3>1. p = Reference /\ cache[Reference] = None /\ left = Parcels
            BY <2>1, <2>6 DEF Wanted, Reusable, Missing, Inv, PinInv
        <3>2. pinned' = CarriersOf(answer) /\ UNCHANGED <<left, got>>
            BY <2>2, <2>6 DEF Return
        <3>3. \A q \in Parcels : got[q] = None
            BY <3>1 DEF Inv, GotInv
        <3>4. TypeOK'
            BY <2>2, <2>4, <3>2 DEF Inv, TypeOK, CarriersOf
        <3>5. PinInv' /\ GotInv'
            BY <2>1, <2>4, <3>1, <3>2, <3>3, Constants DEF PinInv, GotInv, CarriersOf
        <3> QED BY <2>5, <3>4, <3>5 DEF Inv
    <2>7. CASE pinned # {}
        <3>1. cache[Reference] # None /\ pinned = CarriersOf(cache[Reference])
            BY <2>7 DEF Inv, PinInv
        <3>2. p # Reference
            BY <2>1, <3>1 DEF Reusable, Missing
        <3>3. /\ left' = left \ {p} /\ got' = [got EXCEPT ![p] = answer]
              /\ pinned' = pinned
            BY <2>2, <2>7 DEF Return
        <3>4. cache'[Reference] = cache[Reference]
            BY <2>2, <3>2 DEF Inv, TypeOK
        <3>5. TypeOK'
            BY <2>1, <2>2, <2>4, <3>3 DEF Inv, TypeOK
        <3>6. PinInv'
            BY <2>1, <2>7, <3>1, <3>3, <3>4, Constants DEF Inv, TypeOK, PinInv, CarriersOf
        <3>7. GotInv'
            <4> SUFFICES ASSUME NEW q \in Parcels, got'[q] # None
                         PROVE  /\ cache'[q] = got'[q]
                                /\ cache'[Reference] # None
                                /\ CarriersOf(cache'[Reference]) \subseteq CarriersOf(cache'[q])
                                /\ CarriersOf(cache'[q]) # {}
                BY DEF GotInv, CarriersOf
            <4>1. CASE q = p
                BY <4>1, <2>1, <2>4, <3>1, <3>3, <3>4 DEF Inv, TypeOK
            <4>2. CASE q # p
                <5>1. got'[q] = got[q] /\ cache'[q] = cache[q]
                    BY <4>2, <2>2, <3>3 DEF Inv, TypeOK
                <5> QED BY <5>1, <3>4 DEF Inv, GotInv
            <4> QED BY <4>1, <4>2
        <3> QED BY <2>5, <3>5, <3>6, <3>7 DEF Inv
    <2> QED BY <2>6, <2>7
<1>6. ASSUME Remediate PROVE Inv'
    <2>1. TypeOK'
        BY <1>6 DEF Remediate, Inv, TypeOK
    <2>2. PinInv' /\ GotInv' /\ CallInv' /\ DiskInv' /\ WarmInv'
        BY <1>6 DEF Remediate, Inv, PinInv, GotInv, CallInv, DiskInv, WarmInv, CarriersOf
    <2> QED BY <2>1, <2>2 DEF Inv
<1>7. ASSUME Finish PROVE Inv'
    <2>1. /\ phase = "running" /\ call = None /\ pinned # {} /\ left = {}
          /\ phase' = "done" /\ warm' = TRUE
          /\ UNCHANGED <<disk, cache, pinned, left, again, call, got, runs>>
        BY <1>7 DEF Finish
    <2>2. cache[Reference] # None
        BY <2>1 DEF Inv, PinInv
    <2>3. disk = cache
        BY <2>1, <2>2, Constants DEF Inv, DiskInv, Empty
    <2>4. \A p \in Parcels :
             disk[p] # None /\ CarriersOf(disk[Reference]) \subseteq CarriersOf(disk[p])
        BY <2>1, <2>3 DEF Inv, PinInv, GotInv
    <2>5. WarmInv'
        BY <2>1, <2>3, <2>4, Constants DEF WarmInv, Inv, TypeOK, CarriersOf
    <2>6. TypeOK' /\ PinInv' /\ GotInv' /\ CallInv' /\ DiskInv'
        BY <2>1 DEF Inv, TypeOK, PinInv, GotInv, CallInv, DiskInv, CarriersOf
    <2> QED BY <2>5, <2>6 DEF Inv
<1>8. ASSUME Raise \/ Abort PROVE Inv'
    <2>1. /\ phase' \in {"down", "unavailable"}
          /\ UNCHANGED <<disk, cache, pinned, left, again, call, got, runs, warm>>
        BY <1>8 DEF Raise, Abort
    <2>2. TypeOK' /\ PinInv' /\ GotInv' /\ DiskInv' /\ WarmInv'
        BY <2>1 DEF Inv, TypeOK, PinInv, GotInv, DiskInv, WarmInv, CarriersOf
    <2>3. CallInv'
        BY <2>1 DEF Inv, CallInv, Wanted, Reusable, Missing, CarriersOf
    <2> QED BY <2>2, <2>3 DEF Inv
<1>9. ASSUME Tear PROVE Inv'
    <2>1. /\ phase' = "down" /\ disk' = Torn /\ warm' = FALSE
          /\ UNCHANGED <<cache, pinned, left, again, call, got, runs>>
        BY <1>9 DEF Tear
    <2>2. TypeOK' /\ PinInv' /\ GotInv' /\ DiskInv' /\ WarmInv'
        BY <2>1 DEF Inv, TypeOK, PinInv, GotInv, DiskInv, WarmInv, CarriersOf
    <2>3. CallInv'
        BY <2>1 DEF Inv, CallInv, Wanted, Reusable, Missing, CarriersOf
    <2> QED BY <2>2, <2>3 DEF Inv
<1>10. ASSUME UNCHANGED vars PROVE Inv'
    BY <1>10 DEF vars, Inv, TypeOK, PinInv, GotInv, CallInv, DiskInv, WarmInv,
                 Wanted, Reusable, Missing, CarriersOf
<1> QED
    BY <1>1, <1>2, <1>3, <1>4, <1>5, <1>6, <1>7, <1>8, <1>9, <1>10 DEF Next, Step

\* The invariant holds of every run of the quoter.
THEOREM QuoterInvariant == Spec => []Inv
BY InitInv, StepInv, PTL DEF Spec

\* Every variable keeps its type.
THEOREM QuoterTypes == Spec => []TypeOK
<1>1. Inv => TypeOK
    BY DEF Inv
<1> QED BY <1>1, QuoterInvariant, PTL

\* Whatever the service answers and whatever an earlier run left in the cache,
\* what planning reads of a variant has a quote of every pinned carrier.
THEOREM PinIsHonoured == Spec => []AnswersHonourThePin
<1>1. Inv => AnswersHonourThePin
    BY DEF Inv, AnswersHonourThePin, PinInv, GotInv
<1> QED BY <1>1, QuoterInvariant, PTL

\* A variant that is quoted again in the same run has the answer it had.
THEOREM AnswersAreStable == Spec => StableAnswers
<1> DEFINE Stable == \A p \in Parcels : got[p] # None /\ runs' = runs => got'[p] = got[p]
<1>1. Inv /\ [Next]_vars => [Stable]_vars
    <2> SUFFICES ASSUME Inv, [Next]_vars, NEW p \in Parcels, got[p] # None, runs' = runs
                 PROVE  got'[p] = got[p]
        OBVIOUS
    <2>1. CASE Start
        BY <2>1 DEF Start, Inv, TypeOK
    <2>2. ASSUME NEW q \in Parcels, Recall(q) PROVE got'[p] = got[p]
        BY <2>2 DEF Recall, Return, Inv, TypeOK, GotInv
    <2>3. CASE Keep
        <3>1. call.parcel # p
            BY <2>3, GotIsReusable DEF Keep, Inv, CallInv
        <3> QED BY <2>3, <3>1 DEF Keep, Return, Inv, TypeOK
    <2>4. CASE got' = got
        BY <2>4
    <2> QED
        BY <2>1, <2>2, <2>3, <2>4
        DEF Next, Step, Ask, Fetch, Raise, Remediate, Finish, Abort, Tear, vars
<1> QED BY <1>1, QuoterInvariant, PTL DEF Spec, StableAnswers

\* Once a run has got through, no later one calls the service for the lane.
THEOREM RerunsAreFree == Spec => RerunIsFree
<1>1. Inv /\ Inv' /\ [Next]_vars => [warm => call' = None]_vars
    <2> SUFFICES ASSUME Inv, Inv', [Next]_vars, warm PROVE call' = None
        OBVIOUS
    <2>1. CASE warm'
        BY <2>1 DEF Inv, WarmInv
    <2>2. CASE ~warm'
        BY <2>2 DEF Next, Step, Start, Recall, Ask, Fetch, Keep, Raise, Remediate,
                    Finish, Abort, Tear, vars, Inv, WarmInv
    <2> QED BY <2>1, <2>2
<1> QED BY <1>1, QuoterInvariant, PTL DEF Spec, RerunIsFree
=============================================================================
