------------------------------- MODULE Ledger -------------------------------
(***************************************************************************)
(* One stream of the ledger (ledger/writer.py, ledger/rebuild.py): a JSONL *)
(* file that is only ever appended to, in which a line is a partial update *)
(* of an entity, and the view that folds the lines into entities.  Streams *)
(* share nothing, so each of the four is an instance of this.              *)
(*                                                                         *)
(* An appender is a thread or a process with a LedgerWriter of its own: a  *)
(* request of the web service, the narrator turn a reader left behind, the *)
(* worker of the next run, a command line beside them.  Nothing locks the  *)
(* file.  Each entity is written by one appender (a run by the thread that *)
(* carries it), entities of several appenders share the file.              *)
(*                                                                         *)
(* An append reads the sequence number off the file, or off its writer's   *)
(* cache, and writes later, so it takes two steps.  A write of one line is *)
(* atomic; what an interrupted one leaves is a tail without a newline.     *)
(*                                                                         *)
(* A definition introduced as a fault is a plausible mistake in the one    *)
(* that follows it, and no part of the specification.                      *)
(***************************************************************************)
EXTENDS Integers, Sequences, Functions

CONSTANTS
    Appenders,  \* the threads and processes that append
    Keys,       \* the entities (merge keys) of the stream
    Owner,      \* the appender that writes each entity
    Fields,     \* the fields a line may carry besides its key
    Values,     \* what a field may hold
    MaxLines,   \* bound: the lines ever written to the file
    None,       \* Python's None: the field is absent, the writer has no cache
    Garbage     \* a line that does not parse

\* to_dict drops nulls: a field it does not carry is None.
Update == [Fields -> Values \cup {None}]
Record == [key : Keys, seq : Nat, put : Update]

ASSUME LedgerAssumption ==
    /\ Owner \in [Keys -> Appenders]
    /\ None \notin Values \cup Nat \cup Record
    /\ Garbage \notin Record
    /\ MaxLines \in Nat

VARIABLES
    lines,   \* the complete lines of the file
    torn,    \* after them comes a tail without a newline
    next,    \* LedgerWriter._next_seq of each appender's writer, None when new
    flight,  \* the record each appender has numbered and not yet written
    acked    \* the records whose append has returned

vars == <<lines, torn, next, flight, acked>>

Init ==
    /\ lines = <<>>
    /\ torn = FALSE
    /\ next = [a \in Appenders |-> None]
    /\ flight = [a \in Appenders |-> None]
    /\ acked = {}
-----------------------------------------------------------------------------
(* Reading.                                                                *)

\* Fault: a line that does not parse is skipped.
TornOnly == torn

\* iter_records raises LedgerCorruption.
Corrupt == torn \/ Garbage \in Range(lines)

\* The positions of the records.
Parsed == {i \in DOMAIN lines : lines[i] # Garbage}

\* Fault: the last line has the highest number.
AfterTheLast == IF lines = <<>> THEN 0 ELSE lines[Len(lines)].seq + 1

\* _scan_next_seq, of a file that is not corrupt.
ScanNextSeq ==
    IF Parsed = {} THEN 0
    ELSE LET top == CHOOSE i \in Parsed : \A j \in Parsed : lines[j].seq =< lines[i].seq
         IN  lines[top].seq + 1

Says(i, k, f) == lines[i].key = k /\ lines[i].put[f] # None

\* entity_view_ddl: arg_max(f, seq) over the lines of k that have an f.  It
\* may return any of these, so a tie is more than one.
Folded(k, f) ==
    {lines[i].put[f] : i \in {i \in Parsed :
        Says(i, k, f) /\ \A j \in Parsed : Says(j, k, f) => lines[j].seq =< lines[i].seq}}
-----------------------------------------------------------------------------
(* Appending.                                                              *)

\* LedgerWriter(root): a writer without a cache.
Open(a) ==
    /\ next[a] # None /\ flight[a] = None
    /\ next' = [next EXCEPT ![a] = None]
    /\ UNCHANGED <<lines, torn, flight, acked>>

\* append up to the write.  Only a writer without a cache reads the file,
\* and so only such a one refuses to extend a file that is corrupt.
Claim(a, k, put) ==
    /\ Owner[k] = a /\ flight[a] = None
    /\ next[a] = None => ~Corrupt
    /\ LET seq == IF next[a] = None THEN ScanNextSeq ELSE next[a]
       IN  /\ flight' = [flight EXCEPT ![a] = [key |-> k, seq |-> seq, put |-> put]]
           /\ next' = [next EXCEPT ![a] = seq + 1]
    /\ UNCHANGED <<lines, torn, acked>>

\* The write and the fsync.  After a torn tail the line is glued to it.
Write(a) ==
    /\ flight[a] # None
    /\ Len(lines) < MaxLines
    /\ lines' = Append(lines, IF torn THEN Garbage ELSE flight[a])
    /\ torn' = FALSE
    /\ acked' = acked \cup {flight[a]}
    /\ flight' = [flight EXCEPT ![a] = None]
    /\ UNCHANGED next

\* The write raises or the process dies, before a byte is on disk or in the
\* middle of the line.  Whoever retries does so with a new writer.
Interrupted(a) ==
    /\ flight[a] # None
    /\ torn' \in {torn, TRUE}
    /\ flight' = [flight EXCEPT ![a] = None]
    /\ next' = [next EXCEPT ![a] = None]
    /\ UNCHANGED <<lines, acked>>

\* "Inspect and repair the tail by hand": what was never acknowledged goes.
Repair ==
    /\ torn
    /\ torn' = FALSE
    /\ UNCHANGED <<lines, next, flight, acked>>

Next ==
    \/ \E a \in Appenders : Open(a) \/ Write(a) \/ Interrupted(a)
    \/ \E a \in Appenders, k \in Keys, put \in Update : Claim(a, k, put)
    \/ Repair

Spec == Init /\ [][Next]_vars
-----------------------------------------------------------------------------
(* Properties.                                                             *)

TypeOK ==
    /\ lines \in Seq(Record \cup {Garbage})
    /\ torn \in BOOLEAN
    /\ next \in [Appenders -> Nat \cup {None}]
    /\ flight \in [Appenders -> Record \cup {None}]
    /\ acked \subseteq Record

\* The last append to an entity that says something of a field.
Latest(k, f) ==
    {lines[i].put[f] : i \in {i \in Parsed :
        Says(i, k, f) /\ \A j \in Parsed : Says(j, k, f) => j =< i}}

\* "the last non-null value of each field in seq order" is the value written
\* last, although appenders that race number their lines alike and out of
\* order: a run that was closed never reads as the run that was opened
\* (entity_view_ddl, _claim_seq).
FoldIsLatest == \A k \in Keys, f \in Fields : Folded(k, f) = Latest(k, f)

\* What was acknowledged is never lost in silence.  As long as the log can be
\* read, every append that returned is one of its lines, also the append of a
\* writer that trusted its cache while another appender tore the tail
\* (_iter_lines, iter_records).
AcknowledgedIsKept == ~Corrupt => acked \subseteq Range(lines)
=============================================================================
