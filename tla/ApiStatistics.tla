--------------------------- MODULE ApiStatistics ---------------------------
(***************************************************************************)
(* Table Statistics.Blocks and the api call that maintains it, one call    *)
(* for every block the core reports.  A call reads the row of the block's  *)
(* location and writes it back in two statements without a transaction,    *)
(* so the calls of concurrent blocks interleave between the two.           *)
(***************************************************************************)
EXTENDS Integers, SequencesExt, FiniteSetsExt

CONSTANTS
    Blocks,      \* blocks the core reports, each once
    Places,      \* locations of addresses: records with a country and a city
    None         \* null

\* What ApiHttps stores for an address of unknown location; ApiGRPC stores empty
\* names.  The ISP is one more column that is compared and not looked at here.
Nowhere == [country |-> None, city |-> None]

ASSUME BlocksAssumption == IsFiniteSet(Blocks)
ASSUME PlacesAssumption ==
    /\ Nowhere \in Places
    /\ \A p \in Places \ {Nowhere} : p.country # None /\ p.city # None

VARIABLES
    table,       \* rows of Statistics.Blocks in the order of their Id
    call,        \* "idle", "saving", "saved" or "failed"
    place,       \* the location in the request
    found,       \* the row the call read: its index and its Attempts, or <<>>
    overlapped   \* history: calls that overlapped another one for their place

statisticsVars == <<table, call, place, found, overlapped>>

----------------------------------------------------------------------------

\* The column Attempts.  Its comment in StatisticsBlocks.cs calls it an amount of
\* login attempts, but every call adds one, whatever the number of attempts that
\* led to the block: it counts blocks (BlockStatistics shows the difference).
Counts == [i \in DOMAIN table |-> table[i].attempts]

RowsOf(p) == {i \in DOMAIN table : table[i].place = p}

Saving(p) == {c \in Blocks : call[c] = "saving" /\ place[c] = p}

LookUpIn(b, p, i) ==
    /\ call[b] = "idle"
    /\ call' = [call EXCEPT ![b] = "saving"]
    /\ place' = [place EXCEPT ![b] = p]
    /\ found' = [found EXCEPT ![b] = IF i = 0 THEN <<>> ELSE <<i, table[i].attempts>>]
    /\ overlapped' = IF Saving(p) = {} THEN overlapped
                     ELSE overlapped \cup {b} \cup Saving(p)
    /\ UNCHANGED table

\* Mutant of LookUp: the country is not compared.
LookUpCity(b, p) ==
    LookUpIn(b, p, SelectInSeq(table, LAMBDA r : r.place.city = p.city))

\* FirstOrDefault: the first row with the same country and city, if any.
LookUp(b, p) == LookUpIn(b, p, SelectInSeq(table, LAMBDA r : r.place = p))

Written(b) ==
    IF found[b] = <<>>
    THEN Append(table, [place |-> place[b], attempts |-> 1])
    ELSE [table EXCEPT ![found[b][1]].attempts = found[b][2] + 1]

SaveWith(b, rows) ==
    /\ call[b] = "saving"
    /\ call' = [call EXCEPT ![b] = "saved"]
    /\ table' = rows
    /\ UNCHANGED <<place, found, overlapped>>

\* Mutant of SaveChanges: a new row starts with no attempt.
SaveChangesFromZero(b) ==
    SaveWith(b, IF found[b] = <<>> THEN Append(table, [place |-> place[b], attempts |-> 0])
                ELSE Written(b))

\* The row is inserted, or updated to the number read plus one.
SaveChanges(b) == SaveWith(b, Written(b))

\* The database raises an exception and the call fails.
SaveChangesFails(b) ==
    /\ call[b] = "saving"
    /\ call' = [call EXCEPT ![b] = "failed"]
    /\ UNCHANGED <<table, place, found, overlapped>>

StatisticsInit ==
    /\ table = <<>>
    /\ call = [b \in Blocks |-> "idle"]
    /\ place = [b \in Blocks |-> Nowhere]
    /\ found = [b \in Blocks |-> <<>>]
    /\ overlapped = {}

StatisticsUpdateBlocks(b) ==
    \/ \E p \in Places : LookUp(b, p)
    \/ SaveChanges(b)
    \/ SaveChangesFails(b)

----------------------------------------------------------------------------

StatisticsTypeOK ==
    /\ \A i \in DOMAIN table : table[i] \in [place : Places, attempts : 1..Cardinality(Blocks)]
    /\ call \in [Blocks -> {"idle", "saving", "saved", "failed"}]
    /\ place \in [Blocks -> Places]
    /\ \A b \in Blocks : found[b] = <<>> \/ found[b][1] \in DOMAIN table
    /\ overlapped \subseteq Blocks

Saved(p) == {b \in Blocks : call[b] = "saved" /\ place[b] = p}

Total(p) == SumFunctionOnSet(Counts, RowsOf(p))

\* Column Attempts counts blocks.  Concurrent calls may lose counts but never
\* invent one, and the location of a saved call is never missing from the table,
\* whatever interleaves.
CountsBounded ==
    \A p \in Places :
        /\ Total(p) <= Cardinality(Saved(p))
        /\ Saved(p) # {} => Total(p) > 0

\* Without overlapping calls for a location its count of blocks is exact and it
\* has one row, failed calls notwithstanding.
CountsExactWhenSerial ==
    \A p \in Places : Saved(p) \cap overlapped = {} =>
        /\ Total(p) = Cardinality(Saved(p))
        /\ Cardinality(RowsOf(p)) <= 1

=============================================================================
