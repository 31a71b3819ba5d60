----------------------------- MODULE RateQuoter -----------------------------
(***************************************************************************)
(* Quoting one lane (planning/rates.py, planning/configurations.py,        *)
(* planning/remediation.py): a run asks for every parcel variant of a      *)
(* shipment.  The heaviest one pins the carriers, the others are quoted    *)
(* against the pin.  ShippoQuoter retries what was rate limited, keeps its *)
(* best attempt and caches it, in memory and in a file that the next run   *)
(* starts from.  C4 enumerates a shipment a second time in the same run.   *)
(*                                                                         *)
(* Of an answer the model keeps how many services each carrier quoted and  *)
(* which carriers sent a message that is worth a retry.  The variants are  *)
(* quoted in any order.                                                    *)
(*                                                                         *)
(* A definition introduced as a fault is a plausible mistake in the one    *)
(* that follows it, and no part of the specification.                      *)
(***************************************************************************)
EXTENDS Integers, FiniteSets, Functions

CONSTANTS
    Carriers,
    Parcels,      \* parcel_variants: one box, each number of gel packs
    Reference,    \* heaviest_variant
    Answers,      \* what the quoting service may say of a parcel
    MaxAttempts,  \* DEFAULT_MAX_ATTEMPTS, or the command line's
    MaxRuns,      \* bound: the runs over the life of the cache file
    None,         \* Python's None: no answer, no call
    Torn          \* a cache file that does not parse

Answer == [services : [Carriers -> Nat], busy : SUBSET Carriers]

ASSUME QuoterAssumption ==
    /\ Reference \in Parcels
    /\ Answers \subseteq Answer
    /\ MaxAttempts \in Nat \ {0}
    /\ MaxRuns \in Nat
    /\ None \notin Answer
    /\ Torn \notin [Parcels -> Answer \cup {None}]

VARIABLES
    disk,    \* the cache file
    cache,   \* ShippoQuoter._cache
    phase,   \* of the run
    pinned,  \* enumerate_configurations: pinned, {} before pin_carriers returns
    left,    \* the variants this enumeration has still to quote
    again,   \* C4 has enumerated after C2
    call,    \* the locals of ShippoQuoter.quote, None outside of its loop
    got,     \* what quoting each parcel against the pin last returned in this run
    runs,    \* the runs so far
    warm     \* ghost: a run finished on this file, and nothing has torn it since

vars == <<disk, cache, phase, pinned, left, again, call, got, runs, warm>>

Empty == [p \in Parcels |-> None]

Call == [parcel : Parcels, attempt : 0 .. MaxAttempts,
         best : Answer \cup {None}, last : Answer \cup {None}]

Init ==
    /\ disk = Empty
    /\ cache = Empty
    /\ phase = "down"
    /\ pinned = {}
    /\ left = Parcels
    /\ again = FALSE
    /\ call = None
    /\ got = Empty
    /\ runs = 0
    /\ warm = FALSE
-----------------------------------------------------------------------------
(* QuoteResult.                                                            *)

CarriersOf(answer) == {c \in Carriers : answer.services[c] > 0}

\* len(result.quotes)
Quotes(answer) == FoldFunction(+, 0, answer.services)

Missing(answer, require) == require \ CarriersOf(answer)

\* `require` is the pin: pin_carriers asks without one, the variants with it.

\* A cached answer is reused when it satisfies the pin.
Reusable(p) == cache[p] # None /\ Missing(cache[p], pinned) = {}

\* The loop of attempts has ended.
Settled ==
    \/ call.attempt = MaxAttempts
    \/ /\ call.last # None
       /\ Missing(call.last, pinned) = {}
       /\ call.last.busy = {}

\* Fault: the last attempt replaces a better one in the cache.
LastAttempt == call.last

\* The answer that is cached is the one that is returned.
Kept == call.best

\* Fault: the file is written before the entry is made.
FlushOld(p, answer) == disk' = cache

\* _flush writes the whole cache.
Flush(p, answer) == disk' = [cache EXCEPT ![p] = answer]
-----------------------------------------------------------------------------
(* A run.                                                                  *)

\* A process starts: the quoter reads the file, C2 begins.
Start ==
    /\ phase # "running" /\ runs < MaxRuns
    /\ runs' = runs + 1
    /\ cache' = IF disk = Torn THEN Empty ELSE disk
    /\ phase' = "running"
    /\ pinned' = {}
    /\ left' = Parcels
    /\ again' = FALSE
    /\ call' = None
    /\ got' = Empty
    /\ UNCHANGED <<disk, warm>>

\* The parcels enumerate_configurations may ask for next.
Wanted == IF pinned = {} THEN {Reference} ELSE left

\* quote returns to pin_carriers or to the loop over the variants.
Return(p, answer) ==
    IF pinned = {}
    THEN pinned' = CarriersOf(answer) /\ UNCHANGED <<left, got>>
    ELSE left' = left \ {p} /\ got' = [got EXCEPT ![p] = answer] /\ UNCHANGED pinned

Recall(p) ==
    /\ phase = "running" /\ call = None /\ p \in Wanted
    /\ Reusable(p)
    /\ Return(p, cache[p])
    /\ UNCHANGED <<disk, cache, phase, again, call, runs, warm>>

Ask(p) ==
    /\ phase = "running" /\ call = None /\ p \in Wanted
    /\ ~Reusable(p)
    /\ call' = [parcel |-> p, attempt |-> 0, best |-> None, last |-> None]
    /\ UNCHANGED <<disk, cache, phase, pinned, left, again, got, runs, warm>>

\* Fault: an attempt that was rate limited is not counted.
Uncounted == IF call.last # None /\ call.last.busy # {} THEN call.attempt ELSE call.attempt + 1

Counted == call.attempt + 1

\* One attempt.  A later one is better only if it has more quotes.
Fetch(answer) ==
    /\ phase = "running" /\ call # None
    /\ ~Settled
    /\ LET better == \/ call.best = None
                     \/ Quotes(answer) > Quotes(call.best)
       IN  call' = [call EXCEPT !.attempt = Counted, !.last = answer,
                                !.best = IF better THEN answer ELSE @]
    /\ UNCHANGED <<disk, cache, phase, pinned, left, again, got, runs, warm>>

\* Fault: any carrier's quote will do.
SomebodyQuoted == CarriersOf(call.best) # {}

\* Neither of the two QuotingUnavailable.
Sufficient == Missing(call.best, pinned) = {} /\ CarriersOf(call.best) # {}

\* The answer is cached, in memory and on disk, and returned.
Keep ==
    /\ phase = "running" /\ call # None
    /\ Settled /\ Sufficient
    /\ cache' = [cache EXCEPT ![call.parcel] = Kept]
    /\ Flush(call.parcel, Kept)
    /\ Return(call.parcel, call.best)
    /\ call' = None
    /\ UNCHANGED <<phase, again, runs, warm>>

\* QuotingUnavailable stops the run.
Raise ==
    /\ phase = "running" /\ call # None
    /\ Settled /\ ~Sufficient
    /\ phase' = "unavailable"
    /\ UNCHANGED <<disk, cache, pinned, left, again, call, got, runs, warm>>

\* C4 enumerates the shipment that C3 left with nothing.
Remediate ==
    /\ phase = "running" /\ call = None
    /\ pinned # {} /\ left = {} /\ ~again
    /\ again' = TRUE
    /\ pinned' = {}
    /\ left' = Parcels
    /\ UNCHANGED <<disk, cache, phase, call, got, runs, warm>>

Finish ==
    /\ phase = "running" /\ call = None
    /\ pinned # {} /\ left = {}
    /\ phase' = "done"
    /\ warm' = TRUE
    /\ UNCHANGED <<disk, cache, pinned, left, again, call, got, runs>>

\* The client library raises, or the process dies between two steps.
Abort ==
    /\ phase = "running"
    /\ phase' = "down"
    /\ UNCHANGED <<disk, cache, pinned, left, again, call, got, runs, warm>>

\* It dies, or the disk is full, in the middle of _flush.
Tear ==
    /\ phase = "running" /\ call # None
    /\ Settled /\ Sufficient
    /\ phase' = "down"
    /\ disk' = Torn
    /\ warm' = FALSE
    /\ UNCHANGED <<cache, pinned, left, again, call, got, runs>>

Step ==
    \/ \E p \in Parcels : Recall(p) \/ Ask(p)
    \/ \E answer \in Answers : Fetch(answer)
    \/ Keep \/ Raise \/ Remediate \/ Finish

Next == Start \/ Step \/ Abort \/ Tear

\* The thread of the run goes on; each call to the service returns or raises.
Spec == Init /\ [][Next]_vars /\ WF_vars(Step)
-----------------------------------------------------------------------------
(* Properties.                                                             *)

TypeOK ==
    /\ disk \in [Parcels -> Answer \cup {None}] \cup {Torn}
    /\ cache \in [Parcels -> Answer \cup {None}]
    /\ phase \in {"down", "running", "done", "unavailable"}
    /\ pinned \subseteq Carriers
    /\ left \subseteq Parcels
    /\ again \in BOOLEAN
    /\ call \in Call \cup {None}
    /\ got \in [Parcels -> Answer \cup {None}]
    /\ runs \in 0 .. MaxRuns
    /\ warm \in BOOLEAN

\* "Everything else about the shipment is then quoted against this set": what
\* planning reads of a variant has a quote of every pinned carrier, whether it
\* was fetched, after attempts that fell short of the pin, or comes from the file
\* of an earlier run (ShippoQuoter.quote, pin_carriers).
AnswersHonourThePin ==
    \A p \in Parcels \ left : pinned # {} /\ got[p] # None =>
        /\ pinned \subseteq CarriersOf(got[p])
        /\ CarriersOf(got[p]) # {}

\* C4 is told what C2 was told: a variant quoted twice in a run has one answer,
\* so remediate never finds feasible what C3 found infeasible and never raises
\* for that (ShippoQuoter.quote, remediate).
StableAnswers ==
    [][\A p \in Parcels : got[p] # None /\ runs' = runs => got'[p] = got[p]]_vars

\* "The cache makes re-running a plan during development free": once a run has
\* got through, no later one calls the service for this lane, unless the
\* file is torn in between (ShippoQuoter._flush).
RerunIsFree == [][warm => call' = None]_vars

\* Rate limiting becomes latency and not a hang: a run that quotes comes to an
\* end whatever the service answers (ShippoQuoter.quote).
RunEnds == phase = "running" ~> phase # "running"

\* "An implementation should retry transient failures until every required
\* carrier has answered, and raise QuotingUnavailable if it cannot" (RateQuoter):
\* a call raises only if its last attempt, too, missed a required carrier.
RaisesOnlyIfMissing ==
    phase = "unavailable" =>
        Missing(call.last, pinned) # {} \/ CarriersOf(call.last) = {}
=============================================================================
