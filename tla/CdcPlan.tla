------------------------------- MODULE CdcPlan -------------------------------
(***************************************************************************)
(* plan_cdc_changes (src/filedge/cdc.py): the rows of a CDC File, read one *)
(* by one, collapse to the latest change of each business key.  The file   *)
(* is any sequence of rows; it is drawn as it is read.  The rows are what  *)
(* load_file's iterator yields, so an error here fails the whole File.     *)
(***************************************************************************)
EXTENDS Integers, Sequences

CONSTANTS
    Key,        \* business keys without a null column
    Sequence,   \* the values of sequence_by; they compare as integers
    Operation,  \* insert, update, delete
    Null,       \* a null key or sequence, an operation value not configured
    MaxRows     \* bound: rows of a file

ASSUME CdcPlanAssumption ==
    /\ Sequence \subseteq Int
    /\ Null \notin Key \cup Sequence \cup Operation
    /\ MaxRows \in Nat

Row == [operation : Operation \cup {Null},
        key : Key \cup {Null},
        sequence : Sequence \cup {Null}]

VARIABLES
    read,           \* the rows read so far
    latest_by_key,  \* key -> its latest row, for the keys seen so far
    outcome         \* "reading", "planned" or "error" (CdcError)

vars == <<read, latest_by_key, outcome>>

Init == read = <<>> /\ latest_by_key = <<>> /\ outcome = "reading"

-----------------------------------------------------------------------------
Seen == DOMAIN latest_by_key

\* "Multiple CDC rows for key ... have the same sequence"
IsTie(r) == r.key \in Seen /\ latest_by_key[r.key].sequence = r.sequence

IsInvalid(r) == Null \in {r.operation, r.key, r.sequence} \/ IsTie(r)

\* Variant: the comparison is the wrong way round.
IsNewOrOlder(r) ==
    r.key \in Seen => r.sequence < latest_by_key[r.key].sequence

IsLatest(r) ==
    r.key \in Seen => r.sequence > latest_by_key[r.key].sequence

WithLatest(r) ==
    [k \in Seen \cup {r.key} |-> IF k = r.key THEN r ELSE latest_by_key[k]]

ReadRow(r) ==
    /\ outcome = "reading" /\ Len(read) < MaxRows
    /\ read' = Append(read, r)
    /\ IF IsInvalid(r)
       THEN outcome' = "error" /\ UNCHANGED latest_by_key
       ELSE /\ latest_by_key' = IF IsLatest(r) THEN WithLatest(r) ELSE latest_by_key
            /\ UNCHANGED outcome

Plan ==
    /\ outcome = "reading"
    /\ outcome' = "planned"
    /\ UNCHANGED <<read, latest_by_key>>

Next == (\E r \in Row : ReadRow(r)) \/ Plan

Spec == Init /\ [][Next]_vars

-----------------------------------------------------------------------------
(***************************************************************************)
(* Properties.                                                             *)
(***************************************************************************)
RowsOf(k) == {i \in 1..Len(read) : read[i].key = k}

TypeOK ==
    /\ read \in Seq(Row)
    /\ outcome \in {"reading", "planned", "error"}
    /\ Seen \subseteq Key
    /\ \A k \in Seen : latest_by_key[k] \in Row /\ latest_by_key[k].key = k

\* The reference definition of the plan, over the whole file: a key has a
\* change if and only if it has a row, and the change is the row of the file
\* with the greatest sequence, whatever the order of the rows.
LatestPerKey ==
    outcome = "planned" =>
        /\ Seen = {read[i].key : i \in 1..Len(read)}
        /\ \A k \in Seen : \E i \in RowsOf(k) :
               /\ latest_by_key[k] = read[i]
               /\ \A j \in RowsOf(k) : read[j].sequence <= read[i].sequence

\* Two rows can not both be the latest of their key: a File with such a tie is
\* refused, because which of them wins would depend on the order of rows.
LatestIsUnique ==
    outcome = "planned" =>
        \A k \in Seen : \E i \in RowsOf(k) :
            \A j \in RowsOf(k) \ {i} : read[j].sequence < read[i].sequence

\* Violated: a File with two rows of one key and one sequence is refused
\* (CONTEXT.md: such ties are invalid, as row order is not a contract).
TiesAreInvalid ==
    outcome = "planned" =>
        \A i, j \in 1..Len(read) :
            read[i].key = read[j].key /\ read[i].sequence = read[j].sequence
                => i = j
=============================================================================
