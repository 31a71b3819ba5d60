---------------------------- MODULE LedgerProofs ----------------------------
(***************************************************************************)
(* What one stream of the ledger keeps for any number of appenders, of     *)
(* entities and of lines.  MaxLines is in no proof but as a guard.         *)
(***************************************************************************)
EXTENDS Ledger, WellFoundedInduction, TLAPS

Mine(a, i) == i \in Parsed /\ Owner[lines[i].key] = a

\* The lines of one entity are numbered in the order they were written.
EntitiesOrdered ==
    \A i, j \in Parsed : i < j /\ lines[i].key = lines[j].key => lines[i].seq < lines[j].seq

\* A writer's cache is past every line its appender wrote.
CacheIsAhead ==
    \A a \in Appenders : next[a] # None =>
        \A i \in Parsed : Mine(a, i) => lines[i].seq < next[a]

\* So is a number that was claimed, and the cache is past it.
ClaimIsAhead ==
    \A a \in Appenders : flight[a] # None =>
        /\ next[a] # None /\ flight[a].seq < next[a]
        /\ Owner[flight[a].key] = a
        /\ \A i \in Parsed : Mine(a, i) => lines[i].seq < flight[a].seq

\* There is a highest number, which _scan_next_seq takes.
Bounded == \E b \in Nat : \A i \in Parsed : lines[i].seq =< b

AckedOrCorrupt == Garbage \in Range(lines) \/ acked \subseteq Range(lines)

IInv ==
    /\ TypeOK
    /\ EntitiesOrdered
    /\ CacheIsAhead
    /\ ClaimIsAhead
    /\ Bounded
    /\ AckedOrCorrupt
-----------------------------------------------------------------------------
\* A line that parses is a record.
LEMMA ParsedType ==
  ASSUME TypeOK
  PROVE  /\ Parsed \subseteq 1 .. Len(lines)
         /\ \A i \in Parsed : lines[i] \in Record
BY DEF TypeOK, Parsed

\* A bounded file has a line with the highest number, or no line at all.
LEMMA HighestExists ==
  ASSUME TypeOK, Bounded, Parsed # {}
  PROVE  \E i \in Parsed : \A j \in Parsed : lines[j].seq =< lines[i].seq
<1> DEFINE T == {b \in Nat : \A i \in Parsed : lines[i].seq =< b}
<1>1. \A i \in Parsed : lines[i].seq \in Nat
  BY ParsedType DEF Record
<1>2. T # {} /\ T \subseteq Nat
  BY DEF Bounded
<1>3. PICK m \in T : \A n \in T : ~(<<n, m>> \in OpToRel(<, Nat))
  BY <1>2, NatLessThanWellFounded, WFMin
<1>4. \A n \in T : ~(n < m)
  BY <1>2, <1>3 DEF OpToRel
<1>5. SUFFICES ASSUME \A i \in Parsed : ~(\A j \in Parsed : lines[j].seq =< lines[i].seq)
               PROVE  FALSE
  OBVIOUS
<1>6. \A i \in Parsed : lines[i].seq < m
  <2> SUFFICES ASSUME NEW i \in Parsed, ~(lines[i].seq < m) PROVE FALSE
    OBVIOUS
  <2>1. lines[i].seq = m
    BY <1>1, <1>2
  <2> QED BY <1>5, <2>1
<1>7. m > 0 /\ m - 1 \in T
  BY <1>1, <1>2, <1>6
<1> QED BY <1>2, <1>4, <1>7

\* What _scan_next_seq returns is past every line.
LEMMA ScanIsAhead ==
  ASSUME TypeOK, Bounded
  PROVE  ScanNextSeq \in Nat /\ \A i \in Parsed : lines[i].seq < ScanNextSeq
<1>1. CASE Parsed = {}
  BY <1>1 DEF ScanNextSeq
<1>2. CASE Parsed # {}
  <2> DEFINE top == CHOOSE i \in Parsed : \A j \in Parsed : lines[j].seq =< lines[i].seq
  <2>1. top \in Parsed /\ \A j \in Parsed : lines[j].seq =< lines[top].seq
    BY <1>2, HighestExists
  <2>2. ScanNextSeq = lines[top].seq + 1
    BY <1>2 DEF ScanNextSeq
  <2>3. \A i \in Parsed : lines[i].seq \in Nat
    BY ParsedType DEF Record
  <2> QED BY <2>1, <2>2, <2>3
<1> QED BY <1>1, <1>2

\* A write adds one line, and leaves every line in its place.
LEMMA WriteEffect ==
  ASSUME TypeOK, NEW a \in Appenders, Write(a)
  PROVE  LET n == Len(lines) + 1
         IN  /\ lines' \in Seq(Record \cup {Garbage})
             /\ Range(lines') = Range(lines) \cup {lines'[n]}
             /\ \A i \in 1 .. Len(lines) : lines'[i] = lines[i]
             /\ Parsed' = IF torn THEN Parsed ELSE Parsed \cup {n}
             /\ lines'[n] = IF torn THEN Garbage ELSE flight[a]
             /\ flight[a] \in Record
<1> DEFINE n == Len(lines) + 1
           rec == IF torn THEN Garbage ELSE flight[a]
<1>1. flight[a] \in Record /\ flight[a] # Garbage /\ lines \in Seq(Record \cup {Garbage})
  BY LedgerAssumption DEF TypeOK, Write
<1>2. /\ lines' = Append(lines, rec) /\ lines' \in Seq(Record \cup {Garbage})
      /\ Len(lines') = n /\ lines'[n] = rec
      /\ \A i \in 1 .. Len(lines) : lines'[i] = lines[i]
  BY <1>1 DEF Write
<1>3. DOMAIN lines' = DOMAIN lines \cup {n} /\ DOMAIN lines = 1 .. Len(lines)
  BY <1>1, <1>2
<1>4. Range(lines') = Range(lines) \cup {lines'[n]}
  BY <1>2, <1>3 DEF Range
<1>5. Parsed' = IF torn THEN Parsed ELSE Parsed \cup {n}
  BY <1>1, <1>2, <1>3 DEF Parsed
<1> QED BY <1>1, <1>2, <1>4, <1>5

\* A step that leaves the file alone leaves what parses alone.
LEMMA FileStays ==
  ASSUME UNCHANGED lines
  PROVE  Parsed' = Parsed /\ \A a, i : Mine(a, i)' <=> Mine(a, i)
BY DEF Parsed, Mine
-----------------------------------------------------------------------------
LEMMA InvInit == Init => IInv
<1> SUFFICES ASSUME Init PROVE IInv
  OBVIOUS
<1>1. TypeOK
  <2>1. \A S : <<>> \in Seq(S)
    OBVIOUS
  <2>2. lines \in Seq(Record \cup {Garbage})
    BY <2>1, Zenon DEF Init
  <2> QED BY <2>2 DEF Init, TypeOK
<1>2. Parsed = {}
  BY DEF Init, Parsed
<1>3. EntitiesOrdered /\ CacheIsAhead /\ ClaimIsAhead /\ AckedOrCorrupt
  BY <1>2 DEF Init, EntitiesOrdered, CacheIsAhead, ClaimIsAhead, AckedOrCorrupt
<1>4. Bounded
  BY <1>2 DEF Bounded
<1> QED BY <1>1, <1>3, <1>4 DEF IInv

\* A claim is past every line of its entity: the scan's because it is past
\* every line, the cache's because nobody else writes the appender's entities.
LEMMA ClaimStep ==
  ASSUME IInv, NEW a \in Appenders, NEW k \in Keys, NEW put \in Update, Claim(a, k, put)
  PROVE  IInv'
<1> USE DEF IInv
<1> DEFINE seq == IF next[a] = None THEN ScanNextSeq ELSE next[a]
<1>1. seq \in Nat /\ \A i \in Parsed : Mine(a, i) => lines[i].seq < seq
  BY ScanIsAhead DEF TypeOK, CacheIsAhead
<1>2. /\ flight' = [flight EXCEPT ![a] = [key |-> k, seq |-> seq, put |-> put]]
      /\ next' = [next EXCEPT ![a] = seq + 1]
      /\ Owner[k] = a
      /\ UNCHANGED <<lines, torn, acked>>
  BY DEF Claim
<1>3. [key |-> k, seq |-> seq, put |-> put] \in Record /\ seq + 1 \in Nat
  BY <1>1 DEF Record
<1>4. TypeOK'
  BY <1>2, <1>3 DEF TypeOK
<1>5. Parsed' = Parsed /\ \A b, i : Mine(b, i)' <=> Mine(b, i)
  BY <1>2, FileStays
<1>n. \A i \in Parsed : lines[i].seq \in Nat
  BY ParsedType DEF Record
<1>6. EntitiesOrdered' /\ Bounded' /\ AckedOrCorrupt'
  BY <1>2, <1>5 DEF EntitiesOrdered, Bounded, AckedOrCorrupt
<1>7. CacheIsAhead'
  BY <1>1, <1>2, <1>5, <1>n DEF CacheIsAhead, TypeOK
<1>8. ClaimIsAhead'
  BY <1>1, <1>2, <1>3, <1>5, LedgerAssumption DEF ClaimIsAhead, TypeOK
<1> QED BY <1>4, <1>6, <1>7, <1>8

\* The line that is written is the last of its entity and has its highest
\* number; glued to a torn tail it is no line of any entity.
LEMMA WriteStep ==
  ASSUME IInv, NEW a \in Appenders, Write(a)
  PROVE  IInv'
<1> USE DEF IInv
<1> DEFINE n == Len(lines) + 1
<1>1. /\ lines' \in Seq(Record \cup {Garbage})
      /\ Range(lines') = Range(lines) \cup {lines'[n]}
      /\ \A i \in 1 .. Len(lines) : lines'[i] = lines[i]
      /\ Parsed' = IF torn THEN Parsed ELSE Parsed \cup {n}
      /\ lines'[n] = IF torn THEN Garbage ELSE flight[a]
      /\ flight[a] \in Record
  BY WriteEffect
<1>2. /\ flight[a] # None /\ flight' = [flight EXCEPT ![a] = None]
      /\ acked' = acked \cup {flight[a]} /\ torn' = FALSE /\ UNCHANGED next
  BY DEF Write
<1>3. TypeOK'
  BY <1>1, <1>2 DEF TypeOK
<1>4. /\ Parsed \subseteq 1 .. Len(lines) /\ Len(lines) \in Nat
      /\ \A i \in Parsed : lines[i] \in Record /\ lines[i].seq \in Nat
      /\ flight[a].seq \in Nat /\ flight[a].key \in Keys /\ next[a] \in Nat
  BY <1>1, <1>2, ParsedType DEF Record, TypeOK, ClaimIsAhead
<1>5. /\ next[a] # None /\ flight[a].seq < next[a] /\ Owner[flight[a].key] = a
      /\ \A i \in Parsed : Mine(a, i) => lines[i].seq < flight[a].seq
  BY <1>2 DEF ClaimIsAhead
<1>6. \A i \in Parsed' : \/ i \in Parsed /\ lines'[i] = lines[i] /\ i < n
                         \/ i = n /\ lines'[i] = flight[a]
  BY <1>1, <1>4
<1>7. EntitiesOrdered'
  <2> SUFFICES ASSUME NEW i \in Parsed', NEW j \in Parsed', i < j,
                      lines'[i].key = lines'[j].key
               PROVE  lines'[i].seq < lines'[j].seq
    BY DEF EntitiesOrdered
  <2>1. CASE j = n
    <3>1. i \in Parsed /\ lines'[i] = lines[i] /\ lines'[j] = flight[a]
      BY <1>4, <1>6, <2>1
    <3>2. Mine(a, i)
      BY <1>5, <3>1 DEF Mine
    <3> QED BY <1>5, <3>1, <3>2
  <2>2. CASE j # n
    <3>1. j \in Parsed /\ lines'[j] = lines[j] /\ j < n
      BY <1>6, <2>2
    <3>2. i # n
      BY <1>4, <3>1
    <3>3. i \in Parsed /\ lines'[i] = lines[i]
      BY <1>6, <3>2
    <3> QED BY <3>1, <3>3 DEF EntitiesOrdered
  <2> QED BY <2>1, <2>2
<1>8. CacheIsAhead'
  <2> SUFFICES ASSUME NEW b \in Appenders, next'[b] # None, NEW i \in Parsed', Mine(b, i)'
               PROVE  lines'[i].seq < next'[b]
    BY DEF CacheIsAhead
  <2>1. CASE i = n /\ lines'[i] = flight[a]
    BY <1>2, <1>5, <2>1 DEF Mine
  <2>2. CASE i \in Parsed /\ lines'[i] = lines[i]
    BY <1>2, <2>2 DEF CacheIsAhead, Mine
  <2> QED BY <1>6, <2>1, <2>2
<1>9. ClaimIsAhead'
  <2> SUFFICES ASSUME NEW b \in Appenders, flight'[b] # None
               PROVE  /\ next'[b] # None /\ flight'[b].seq < next'[b]
                      /\ Owner[flight'[b].key] = b
                      /\ \A i \in Parsed' : Mine(b, i)' => lines'[i].seq < flight'[b].seq
    BY DEF ClaimIsAhead
  <2>1. b # a /\ flight'[b] = flight[b] /\ next'[b] = next[b]
    BY <1>2 DEF TypeOK
  <2>2. \A i \in Parsed' : Mine(b, i)' => i \in Parsed /\ lines'[i] = lines[i] /\ Mine(b, i)
    BY <1>5, <1>6, <2>1 DEF Mine
  <2> QED BY <2>1, <2>2 DEF ClaimIsAhead
<1>10. Bounded'
  <2>1. PICK b \in Nat : \A i \in Parsed : lines[i].seq =< b
    BY DEF Bounded
  <2>2. CASE b =< flight[a].seq
    <3>1. \A i \in Parsed : lines[i].seq =< flight[a].seq
      BY <1>4, <2>1, <2>2
    <3>2. flight[a].seq =< flight[a].seq
      BY <1>4
    <3>3. \A i \in Parsed' : lines'[i].seq =< flight[a].seq
      BY <1>6, <3>1, <3>2
    <3> QED BY <1>4, <3>3 DEF Bounded
  <2>3. CASE flight[a].seq < b
    <3>1. flight[a].seq =< b
      BY <1>4, <2>3
    <3>2. \A i \in Parsed' : lines'[i].seq =< b
      BY <1>6, <2>1, <3>1
    <3> QED BY <3>2 DEF Bounded
  <2> QED BY <1>4, <2>2, <2>3
<1>11. AckedOrCorrupt'
  BY <1>1, <1>2 DEF AckedOrCorrupt
<1> QED BY <1>3, <1>7, <1>8, <1>9, <1>10, <1>11

\* Opening a writer, an interruption and a repair give numbers up.
LEMMA OtherStep ==
  ASSUME IInv, \/ \E a \in Appenders : Open(a) \/ Interrupted(a)
               \/ Repair \/ UNCHANGED vars
  PROVE  IInv'
<1> USE DEF IInv
<1>1. PICK a \in Appenders \cup {None} :
        \/ a \in Appenders /\ (Open(a) \/ Interrupted(a))
        \/ Repair \/ UNCHANGED vars
  OBVIOUS
<1>2. /\ UNCHANGED <<lines, acked>> /\ torn' \in BOOLEAN
      /\ next' = next \/ next' = [next EXCEPT ![a] = None]
      /\ flight' = flight \/ flight' = [flight EXCEPT ![a] = None]
      /\ next' # next => flight'[a] = None
  BY <1>1 DEF Open, Interrupted, Repair, vars, TypeOK
<1>3. TypeOK'
  BY <1>2 DEF TypeOK
<1>4. Parsed' = Parsed /\ \A b, i : Mine(b, i)' <=> Mine(b, i)
  BY <1>2, FileStays
<1>5. EntitiesOrdered' /\ Bounded' /\ AckedOrCorrupt'
  BY <1>2, <1>4 DEF EntitiesOrdered, Bounded, AckedOrCorrupt
<1>6. CacheIsAhead'
  BY <1>2, <1>4 DEF CacheIsAhead, TypeOK
<1>7. ClaimIsAhead'
  BY <1>2, <1>4 DEF ClaimIsAhead, TypeOK
<1> QED BY <1>3, <1>5, <1>6, <1>7

\* The parts of the invariant hold together.
THEOREM Invariance == Spec => []IInv
<1>1. IInv /\ [Next]_vars => IInv'
  <2> SUFFICES ASSUME IInv, [Next]_vars PROVE IInv'
    OBVIOUS
  <2>1. ASSUME NEW a \in Appenders, NEW k \in Keys, NEW put \in Update, Claim(a, k, put)
        PROVE  IInv'
    BY <2>1, ClaimStep
  <2>2. ASSUME NEW a \in Appenders, Write(a) PROVE IInv'
    BY <2>2, WriteStep
  <2> QED BY <2>1, <2>2, OtherStep DEF Next
<1> QED BY InvInit, <1>1, PTL DEF Spec

\* Every variable keeps its type, for any number of appenders and lines.
THEOREM TypeCorrect == Spec => []TypeOK
<1>1. IInv => TypeOK
  BY DEF IInv
<1> QED BY <1>1, Invariance, PTL

\* The view of an entity is what was written to it last.
THEOREM FoldIsFaithful == Spec => []FoldIsLatest
<1>1. IInv => FoldIsLatest
  <2> SUFFICES ASSUME IInv, NEW k \in Keys, NEW f \in Fields
               PROVE  Folded(k, f) = Latest(k, f)
    BY DEF FoldIsLatest
  <2>1. \A i \in Parsed : i \in Nat /\ lines[i].seq \in Nat
    BY ParsedType DEF IInv, Record
  <2>2. \A i, j \in Parsed : Says(i, k, f) /\ Says(j, k, f) =>
            (lines[j].seq =< lines[i].seq <=> j =< i)
    <3> SUFFICES ASSUME NEW i \in Parsed, NEW j \in Parsed, Says(i, k, f), Says(j, k, f)
                 PROVE  lines[j].seq =< lines[i].seq <=> j =< i
      OBVIOUS
    <3>1. lines[i].key = lines[j].key
      BY DEF Says
    <3>2. /\ i < j => lines[i].seq < lines[j].seq
          /\ j < i => lines[j].seq < lines[i].seq
      BY <3>1 DEF IInv, EntitiesOrdered
    <3>3. CASE i = j
      BY <2>1, <3>3
    <3> QED BY <2>1, <3>2, <3>3
  <2>3. {i \in Parsed : Says(i, k, f) /\ \A j \in Parsed : Says(j, k, f) => lines[j].seq =< lines[i].seq}
        = {i \in Parsed : Says(i, k, f) /\ \A j \in Parsed : Says(j, k, f) => j =< i}
    BY <2>2
  <2> QED BY <2>3 DEF Folded, Latest
<1> QED BY <1>1, Invariance, PTL

\* What was acknowledged is on disk, or the log says that it is corrupt.
THEOREM NothingLostInSilence == Spec => []AcknowledgedIsKept
<1>1. IInv => AcknowledgedIsKept
  BY DEF IInv, AckedOrCorrupt, AcknowledgedIsKept, Corrupt
<1> QED BY <1>1, Invariance, PTL
=============================================================================
