------------------------ MODULE ApiStatisticsProofs ------------------------
(***************************************************************************)
(* The counts of table Statistics.Blocks, for any number of blocks and     *)
(* locations: an invariant of the calls that maintain the table.           *)
(***************************************************************************)
EXTENDS ApiStatistics, FiniteLemmas, SequenceTheorems

Row == [place : Places, attempts : Nat \ {0}]

TableInv ==
    /\ table \in Seq(Row)
    /\ call \in [Blocks -> {"idle", "saving", "saved", "failed"}]
    /\ place \in [Blocks -> Places]
    /\ found \in [Blocks -> {<<>>} \cup (Nat \X Nat)]
    /\ \A b \in Blocks : found[b] = <<>> \/ found[b][1] \in DOMAIN table
    /\ overlapped \in SUBSET Blocks

FirstRow(p, i) == i \in RowsOf(p) /\ \A j \in RowsOf(p) : i <= j

Others(p, i) == SumFunctionOnSet(Counts, RowsOf(p) \ {i})

\* A call that has read a row has read the first of its location, as no row is
\* ever inserted before another one.  The number it read, which may be larger or
\* smaller than the row has by now, does not exceed the blocks saved.
FoundInv ==
    \A b \in Blocks, p \in Places, i, m \in Nat :
        call[b] = "saving" /\ place[b] = p /\ found[b] = <<i, m>> =>
            /\ FirstRow(p, i)
            /\ m + Others(p, i) <= Cardinality(Saved(p))

SavedInv ==
    \A p \in Places :
        /\ Total(p) <= Cardinality(Saved(p))
        /\ Saved(p) # {} => RowsOf(p) # {}

\* A call that nobody overlaps finds the row as it leaves it.
SerialInv ==
    /\ CountsExactWhenSerial
    /\ \A b \in Blocks, p \in Places :
        call[b] = "saving" /\ place[b] = p /\ b \notin overlapped =>
            /\ Saving(p) = {b}
            /\ found[b] = <<>> => RowsOf(p) = {}
            /\ \A i, m \in Nat : found[b] = <<i, m>> => m = table[i].attempts
    /\ \A b \in overlapped : call[b] # "idle"

CountInv == TableInv /\ FoundInv /\ SavedInv /\ SerialInv

----------------------------------------------------------------------------
\* Sums over rows

LEMMA RowsFinite ==
    ASSUME TableInv
    PROVE  /\ DOMAIN table = 1..Len(table) /\ Len(table) \in Nat
           /\ \A i \in DOMAIN table : table[i] \in Row /\ Counts[i] \in Nat \ {0}
           /\ \A S \in SUBSET DOMAIN table :
                IsFiniteSet(S) /\ SumFunctionOnSet(Counts, S) \in Nat
           /\ \A p : RowsOf(p) \in SUBSET DOMAIN table
<1>1. DOMAIN table = 1..Len(table) /\ Len(table) \in Nat
  BY DEF TableInv
<1>2. \A i \in DOMAIN table : table[i] \in Row /\ Counts[i] \in Nat \ {0}
  <2>1. \A i \in DOMAIN table : table[i] \in Row
    BY <1>1 DEF TableInv
  <2>. QED
    BY <2>1 DEF Row, Counts
<1>3. IsFiniteSet(DOMAIN table)
  BY <1>1, FS_Interval
<1>4. ASSUME NEW S \in SUBSET DOMAIN table
      PROVE  IsFiniteSet(S) /\ SumFunctionOnSet(Counts, S) \in Nat
  <2>1. IsFiniteSet(S)
    BY <1>3, FS_Subset
  <2>. QED
    BY <1>2, <2>1, SumType
<1>. QED
  BY <1>1, <1>2, <1>4 DEF RowsOf

\* A total is that of one row and the others.
LEMMA TotalSplit ==
    ASSUME TableInv, NEW p, NEW i \in RowsOf(p)
    PROVE  Total(p) = Others(p, i) + table[i].attempts
<1>1. Counts[i] = table[i].attempts /\ \A j \in RowsOf(p) : Counts[j] \in Nat
  BY RowsFinite DEF RowsOf, Counts
<1>2. IsFiniteSet(RowsOf(p))
  BY RowsFinite
<1>. QED
  BY <1>1, <1>2, SumRemove DEF Total, Others

LEMMA SavedFinite ==
    ASSUME NEW p
    PROVE  IsFiniteSet(Saved(p)) /\ Cardinality(Saved(p)) \in Nat
           /\ Cardinality(Saved(p)) <= Cardinality(Blocks)
<1>1. Saved(p) \in SUBSET Blocks
  BY DEF Saved
<1>. QED
  BY <1>1, BlocksAssumption, FS_Subset, FS_CardinalityType

RowRead(p) == SelectInSeq(table, LAMBDA r : r.place = p)

\* The row a call reads is the first of its location, if there is one.
LEMMA FirstRowRead ==
    ASSUME TableInv, NEW p
    PROVE  IF RowsOf(p) = {} THEN RowRead(p) = 0 ELSE FirstRow(p, RowRead(p))
<1>. DEFINE I == {i \in 1..Len(table) : table[i].place = p}
<1>1. I = RowsOf(p) /\ I \in SUBSET Nat
  BY RowsFinite DEF RowsOf
<1>2. RowRead(p) = IF I # {} THEN Min(I) ELSE 0
  BY DEF RowRead, SelectInSeq
<1>3. I # {} => Min(I) \in I /\ \A j \in I : Min(I) <= j
  BY <1>1, LeastElement DEF Min
<1>. HIDE DEF I
<1>. QED
  BY <1>1, <1>2, <1>3 DEF FirstRow

----------------------------------------------------------------------------
\* The operations

\* A row is inserted: it joins the rows of its location with one attempt.
LEMMA Insertion ==
    ASSUME TableInv, NEW b \in Blocks, SaveChanges(b), found[b] = <<>>
    PROVE  /\ table' \in Seq(Row) /\ DOMAIN table \subseteq DOMAIN table'
           /\ \A p : RowsOf(p)' = IF p = place[b] THEN RowsOf(p) \cup {Len(table) + 1}
                                  ELSE RowsOf(p)
           /\ Len(table) + 1 \notin DOMAIN table
           /\ \A i \in DOMAIN table : table'[i] = table[i]
           /\ \A S \in SUBSET DOMAIN table :
                /\ SumFunctionOnSet(Counts', S) = SumFunctionOnSet(Counts, S)
                /\ SumFunctionOnSet(Counts', S \cup {Len(table) + 1})
                        = SumFunctionOnSet(Counts, S) + 1
<1>. DEFINE r == [place |-> place[b], attempts |-> 1]
            n == Len(table) + 1
<1>1. r \in Row
  BY DEF TableInv, Row
<1>2. table' = Append(table, r)
  BY DEF SaveChanges, SaveWith, Written
<1>3. table \in Seq(Row) /\ Len(table) \in Nat /\ DOMAIN table = 1..Len(table)
  BY DEF TableInv
<1>. HIDE DEF r
<1>4. /\ table' \in Seq(Row) /\ DOMAIN table' = 1..n
      /\ \A i \in DOMAIN table : table'[i] = table[i]
      /\ table'[n] = r
  BY <1>1, <1>2, <1>3, AppendProperties
<1>5. \A p : RowsOf(p)' = IF p = place[b] THEN RowsOf(p) \cup {n} ELSE RowsOf(p)
  BY <1>3, <1>4 DEF RowsOf, r
<1>6. n \notin DOMAIN table
  BY <1>3
<1>7. Counts'[n] = 1 /\ \A i \in DOMAIN table : Counts'[i] = Counts[i] /\ Counts[i] \in Nat
  BY <1>3, <1>4, RowsFinite DEF Counts, r
<1>8. ASSUME NEW S \in SUBSET DOMAIN table
      PROVE  /\ SumFunctionOnSet(Counts', S) = SumFunctionOnSet(Counts, S)
             /\ SumFunctionOnSet(Counts', S \cup {n}) = SumFunctionOnSet(Counts, S) + 1
  <2>1. IsFiniteSet(S) /\ n \notin S
    BY <1>6, RowsFinite
  <2>2. SumFunctionOnSet(Counts', S) = SumFunctionOnSet(Counts, S)
    BY <1>7, <2>1, SumAgree
  <2>3. \A y \in S \cup {n} : Counts'[y] \in Nat
    BY <1>7
  <2>4. SumFunctionOnSet(Counts', S \cup {n}) = SumFunctionOnSet(Counts', S) + Counts'[n]
    BY <2>1, <2>3, SumAdd
  <2>. QED
    BY <1>7, <2>2, <2>4
<1>9. DOMAIN table \subseteq DOMAIN table'
  BY <1>3, <1>4
<1>. QED
  BY <1>4, <1>5, <1>6, <1>8, <1>9

\* A row is updated: it has the number read plus one, and the others are as before.
LEMMA Update ==
    ASSUME TableInv, NEW b \in Blocks, SaveChanges(b), found[b] # <<>>,
           found[b][1] \in RowsOf(place[b])
    PROVE  /\ table' \in Seq(Row) /\ DOMAIN table \subseteq DOMAIN table'
           /\ \A p : RowsOf(p)' = RowsOf(p)
           /\ \A i \in DOMAIN table : i # found[b][1] => table'[i] = table[i]
           /\ table'[found[b][1]].attempts = found[b][2] + 1
           /\ \A S \in SUBSET DOMAIN table : found[b][1] \notin S =>
                SumFunctionOnSet(Counts', S) = SumFunctionOnSet(Counts, S)
<1>. DEFINE k == found[b][1]
            m == found[b][2] + 1
<1>1. k \in DOMAIN table /\ m \in Nat \ {0}
  BY DEF TableInv, RowsOf
<1>2. table' = [table EXCEPT ![k].attempts = m]
  BY DEF SaveChanges, SaveWith, Written
<1>3. table \in Seq(Row) /\ Len(table) \in Nat /\ DOMAIN table = 1..Len(table)
  BY DEF TableInv
<1>. HIDE DEF k, m
<1>4. /\ DOMAIN table' = DOMAIN table
      /\ \A i \in DOMAIN table : i # k => table'[i] = table[i]
      /\ table'[k] = [table[k] EXCEPT !.attempts = m]
  BY <1>1, <1>2, <1>3
<1>5. table[k] \in Row
  BY <1>1, <1>3
<1>6. table'[k] \in Row /\ table'[k].place = table[k].place /\ table'[k].attempts = m
  BY <1>1, <1>4, <1>5 DEF Row
<1>7. table' \in Seq(Row)
  <2>1. table' = [table EXCEPT ![k] = table'[k]]
    BY <1>1, <1>2, <1>3
  <2>. QED
    BY <1>1, <1>3, <1>6, <2>1, ExceptSeq
<1>8. \A i \in DOMAIN table : table'[i].place = table[i].place
  BY <1>4, <1>6
<1>9. \A p : RowsOf(p)' = RowsOf(p)
  BY <1>4, <1>8 DEF RowsOf
<1>10. \A i \in DOMAIN table : i # k => Counts'[i] = Counts[i]
  BY <1>4 DEF Counts
<1>11. \A S \in SUBSET DOMAIN table : k \notin S =>
            SumFunctionOnSet(Counts', S) = SumFunctionOnSet(Counts, S)
  BY <1>10, RowsFinite, SumAgree
<1>. QED
  BY <1>4, <1>6, <1>7, <1>9, <1>11 DEF k, m

\* The block of the call joins those saved for its location.
LEMMA Saves ==
    ASSUME TableInv, NEW b \in Blocks, SaveChanges(b)
    PROVE  /\ \A p : Saved(p)' = IF p = place[b] THEN Saved(p) \cup {b} ELSE Saved(p)
           /\ \A p : Cardinality(Saved(p)') =
                        Cardinality(Saved(p)) + (IF p = place[b] THEN 1 ELSE 0)
           /\ \A p : Saving(p)' = Saving(p) \ {b}
           /\ \A c \in Blocks : c # b => call'[c] = call[c]
           /\ call[b] = "saving" /\ call'[b] = "saved"
           /\ UNCHANGED <<place, found, overlapped>>
<1>1. /\ call[b] = "saving" /\ call' = [call EXCEPT ![b] = "saved"]
      /\ UNCHANGED <<place, found, overlapped>>
  BY DEF SaveChanges, SaveWith
<1>2. /\ call'[b] = "saved" /\ \A c \in Blocks : c # b => call'[c] = call[c]
  BY <1>1 DEF TableInv
<1>3. \A p : Saved(p)' = IF p = place[b] THEN Saved(p) \cup {b} ELSE Saved(p)
  BY <1>1, <1>2 DEF Saved
<1>4. b \notin Saved(place[b])
  BY <1>1 DEF Saved
<1>5. Cardinality(Saved(place[b]) \cup {b}) = Cardinality(Saved(place[b])) + 1
  BY <1>4, SavedFinite, FS_AddElement
<1>6. \A p : Cardinality(Saved(p)') = Cardinality(Saved(p)) + (IF p = place[b] THEN 1 ELSE 0)
  BY <1>3, <1>5, SavedFinite
<1>7. \A p : Saving(p)' = Saving(p) \ {b}
  BY <1>1, <1>2 DEF Saving
<1>. QED
  BY <1>1, <1>2, <1>3, <1>6, <1>7

----------------------------------------------------------------------------
\* The invariant

LEMMA InitCounts == StatisticsInit => CountInv
<1>. SUFFICES ASSUME StatisticsInit PROVE CountInv
  OBVIOUS
<1>1. TableInv
  BY PlacesAssumption DEF StatisticsInit, TableInv
<1>2. \A p : RowsOf(p) = {} /\ Saved(p) = {}
  BY DEF StatisticsInit, RowsOf, Saved
<1>3. \A p : Total(p) = 0
  BY <1>2, SumEmpty DEF Total
<1>4. FoundInv
  BY DEF StatisticsInit, FoundInv
<1>5. SavedInv
  BY <1>2, <1>3, FS_EmptySet DEF SavedInv
<1>6. CountsExactWhenSerial
  BY <1>2, <1>3, FS_EmptySet DEF CountsExactWhenSerial
<1>7. SerialInv
  BY <1>6 DEF StatisticsInit, SerialInv
<1>. QED
  BY <1>1, <1>4, <1>5, <1>7 DEF CountInv

\* What a call reads is what the table holds at that moment.
LEMMA LookUpCounts ==
    ASSUME CountInv, NEW b \in Blocks, NEW p \in Places, LookUp(b, p)
    PROVE  CountInv'
<1>. DEFINE i == RowRead(p)
            read == IF i = 0 THEN <<>> ELSE <<i, table[i].attempts>>
<1>0. TableInv /\ FoundInv /\ SavedInv /\ SerialInv
  BY DEF CountInv
<1>1. /\ call[b] = "idle" /\ call' = [call EXCEPT ![b] = "saving"]
      /\ place' = [place EXCEPT ![b] = p]
      /\ found' = [found EXCEPT ![b] = read]
      /\ overlapped' = IF Saving(p) = {} THEN overlapped
                       ELSE overlapped \cup {b} \cup Saving(p)
      /\ table' = table
  BY DEF LookUp, LookUpIn, RowRead
<1>2. IF RowsOf(p) = {} THEN i = 0 ELSE FirstRow(p, i)
  BY <1>0, FirstRowRead
<1>. HIDE DEF i
<1>3. IF RowsOf(p) = {} THEN read = <<>>
      ELSE /\ FirstRow(p, i) /\ i \in Nat \ {0} /\ table[i].attempts \in Nat
           /\ read = <<i, table[i].attempts>>
  <2>1. RowsOf(p) \in SUBSET (Nat \ {0}) /\ \A j \in RowsOf(p) : table[j].attempts \in Nat
    BY <1>0, RowsFinite DEF RowsOf, Row
  <2>. QED
    BY <1>2, <2>1 DEF FirstRow
<1>. HIDE DEF read
<1>4. /\ call'[b] = "saving" /\ place'[b] = p /\ found'[b] = read
      /\ \A c \in Blocks : c # b =>
            call'[c] = call[c] /\ place'[c] = place[c] /\ found'[c] = found[c]
  BY <1>0, <1>1 DEF TableInv
<1>5. \A q : /\ Saved(q)' = Saved(q)
             /\ Saving(q)' = IF q = p THEN Saving(q) \cup {b} ELSE Saving(q)
  BY <1>1, <1>4 DEF Saved, Saving
<1>6. \A q : RowsOf(q)' = RowsOf(q) /\ Total(q)' = Total(q)
  BY <1>1 DEF RowsOf, Total, Counts
<1>7. \A q, j : (FirstRow(q, j) => FirstRow(q, j)') /\ Others(q, j)' = Others(q, j)
  BY <1>1 DEF RowsOf, FirstRow, Others, Counts
<1>8. TableInv'
  <2>1. /\ read \in {<<>>} \cup (Nat \X Nat)
        /\ read = <<>> \/ read[1] \in DOMAIN table
    BY <1>3 DEF FirstRow, RowsOf
  <2>3. \A c \in Blocks : found'[c] = <<>> \/ found'[c][1] \in DOMAIN table'
    BY <1>0, <1>1, <1>4, <2>1 DEF TableInv
  <2>2. Saving(p) \in SUBSET Blocks
    BY DEF Saving
  <2>. QED
    BY <1>0, <1>1, <2>1, <2>2, <2>3 DEF TableInv
<1>9. FoundInv'
  <2>. SUFFICES ASSUME NEW c \in Blocks, NEW q \in Places, NEW j \in Nat, NEW m \in Nat,
                       call'[c] = "saving", place'[c] = q, found'[c] = <<j, m>>
                PROVE  FirstRow(q, j)' /\ m + Others(q, j)' <= Cardinality(Saved(q)')
    BY DEF FoundInv
  <2>1. CASE c # b
    <3>1. FirstRow(q, j) /\ m + Others(q, j) <= Cardinality(Saved(q))
      BY <1>0, <1>4, <2>1 DEF FoundInv
    <3>. QED
      BY <1>5, <1>7, <3>1
  <2>2. CASE c = b
    <3>1. q = p /\ FirstRow(p, j) /\ m = table[j].attempts
      BY <1>3, <1>4, <2>2
    <3>2. Total(p) = Others(p, j) + table[j].attempts /\ Total(p) <= Cardinality(Saved(p))
      BY <1>0, <3>1, TotalSplit DEF FirstRow, SavedInv
    <3>3. Others(p, j) \in Nat
      BY <1>0, RowsFinite DEF Others
    <3>4. m + Others(p, j) <= Cardinality(Saved(p))
      BY <3>1, <3>2, <3>3
    <3>. QED
      BY <1>5, <1>7, <3>1, <3>4
  <2>. QED
    BY <2>1, <2>2
<1>10. SavedInv'
  BY <1>0, <1>5, <1>6 DEF SavedInv
<1>11. overlapped \subseteq overlapped'
  BY <1>1
<1>12. CountsExactWhenSerial'
  BY <1>0, <1>5, <1>6, <1>11 DEF SerialInv, CountsExactWhenSerial
<1>13. ASSUME NEW c \in Blocks, NEW q \in Places,
              call'[c] = "saving", place'[c] = q, c \notin overlapped'
       PROVE  /\ Saving(q)' = {c}
              /\ found'[c] = <<>> => RowsOf(q)' = {}
              /\ \A j, m \in Nat : found'[c] = <<j, m>> => m = table'[j].attempts
  <2>1. CASE c = b
    <3>1. q = p /\ Saving(p) = {}
      BY <1>1, <1>4, <1>13, <2>1
    <3>2. Saving(q)' = {c} /\ RowsOf(q)' = RowsOf(p)
      BY <1>5, <1>6, <2>1, <3>1
    <3>3. found'[c] = read /\ table' = table
      BY <1>1, <1>4, <2>1
    <3>. QED
      <4>1. found'[c] = <<>> => RowsOf(q)' = {}
        BY <1>3, <3>2, <3>3
      <4>2. \A j, m \in Nat : found'[c] = <<j, m>> => m = table'[j].attempts
        BY <1>3, <3>3
      <4>. QED
        BY <3>2, <4>1, <4>2
  <2>2. CASE c # b
    <3>1. call[c] = "saving" /\ place[c] = q /\ c \notin overlapped /\ found'[c] = found[c]
      BY <1>4, <1>11, <1>13, <2>2
    <3>2. q # p
      BY <1>1, <1>13, <3>1 DEF Saving
    <3>3. /\ Saving(q) = {c}
          /\ found[c] = <<>> => RowsOf(q) = {}
          /\ \A j, m \in Nat : found[c] = <<j, m>> => m = table[j].attempts
      BY <1>0, <3>1 DEF SerialInv
    <3>. QED
      BY <1>1, <1>5, <1>6, <3>1, <3>2, <3>3
  <2>. QED
    BY <2>1, <2>2
<1>14. ASSUME NEW c \in overlapped' PROVE call'[c] # "idle"
  <2>1. c \in Blocks /\ (c = b \/ call[c] # "idle")
    BY <1>0, <1>1, <1>14 DEF SerialInv, TableInv, Saving
  <2>. QED
    BY <1>4, <2>1
<1>15. SerialInv'
  BY <1>12, <1>13, <1>14 DEF SerialInv
<1>. QED
  BY <1>8, <1>9, <1>10, <1>15 DEF CountInv

\* A call that saves leaves the calls that nobody overlapped alone: they are for
\* other locations.
LEMMA SaveSerial ==
    ASSUME CountInv, NEW b \in Blocks, SaveChanges(b), CountsExactWhenSerial',
           \A p : p # place[b] => RowsOf(p)' = RowsOf(p),
           \A i \in DOMAIN table : table[i].place # place[b] => table'[i] = table[i]
    PROVE  SerialInv'
<1>0. TableInv /\ FoundInv /\ SerialInv
  BY DEF CountInv
<1>1. ASSUME NEW c \in Blocks, NEW q \in Places,
             call'[c] = "saving", place'[c] = q, c \notin overlapped'
      PROVE  /\ Saving(q)' = {c}
             /\ found'[c] = <<>> => RowsOf(q)' = {}
             /\ \A i, m \in Nat : found'[c] = <<i, m>> => m = table'[i].attempts
  <2>1. /\ c # b /\ call[c] = "saving" /\ c \notin overlapped
        /\ place[c] = q /\ found'[c] = found[c]
    BY <1>0, <1>1, Saves
  <2>2. /\ Saving(q) = {c}
        /\ found[c] = <<>> => RowsOf(q) = {}
        /\ \A i, m \in Nat : found[c] = <<i, m>> => m = table[i].attempts
    BY <1>0, <2>1 DEF SerialInv
  <2>3. q # place[b]
    BY <1>0, <2>1, <2>2, Saves DEF Saving
  <2>4. Saving(q)' = {c} /\ RowsOf(q)' = RowsOf(q)
    BY <1>0, <2>1, <2>2, <2>3, Saves
  <2>5. ASSUME NEW i \in Nat, NEW m \in Nat, found[c] = <<i, m>> PROVE table'[i] = table[i]
    BY <1>0, <2>1, <2>3, <2>5 DEF FoundInv, FirstRow, RowsOf
  <2>. QED
    BY <2>1, <2>2, <2>4, <2>5
<1>2. ASSUME NEW c \in overlapped' PROVE call'[c] # "idle"
  <2>1. c \in Blocks /\ c \in overlapped
    BY <1>0, <1>2, Saves DEF TableInv
  <2>. QED
    BY <1>0, <2>1, Saves DEF SerialInv
<1>. QED
  BY <1>1, <1>2 DEF SerialInv

LEMMA InsertionCounts ==
    ASSUME CountInv, NEW b \in Blocks, SaveChanges(b), found[b] = <<>>
    PROVE  CountInv'
<1>. DEFINE n == Len(table) + 1
<1>0. TableInv /\ FoundInv /\ SavedInv /\ SerialInv
  BY DEF CountInv
<1>1. /\ Len(table) \in Nat /\ n \in Nat
      /\ \A q : RowsOf(q) \in SUBSET DOMAIN table
      /\ DOMAIN table = 1..Len(table)
  BY <1>0, RowsFinite
<1>2. PICK p \in Places : p = place[b]
  BY <1>0 DEF TableInv
<1>3. \A q : q # p => /\ RowsOf(q)' = RowsOf(q)
                      /\ Total(q)' = Total(q)
                      /\ \A i : Others(q, i)' = Others(q, i)
                      /\ \A i : FirstRow(q, i) => FirstRow(q, i)'
  <2>1. ASSUME NEW q, q # p
        PROVE  /\ RowsOf(q)' = RowsOf(q)
               /\ \A S \in SUBSET RowsOf(q) :
                    SumFunctionOnSet(Counts', S) = SumFunctionOnSet(Counts, S)
    BY <1>0, <1>1, <1>2, <2>1, Insertion
  <2>2. ASSUME NEW q, q # p PROVE Total(q)' = Total(q)
    BY <2>1, <2>2 DEF Total
  <2>3. ASSUME NEW q, q # p, NEW i PROVE Others(q, i)' = Others(q, i)
    BY <2>1, <2>3 DEF Others
  <2>4. ASSUME NEW q, q # p, NEW i, FirstRow(q, i) PROVE FirstRow(q, i)'
    BY <2>1, <2>4 DEF FirstRow
  <2>. QED
    BY <2>1, <2>2, <2>3, <2>4
<1>4. /\ RowsOf(p)' = RowsOf(p) \cup {n}
      /\ Total(p)' = Total(p) + 1
  BY <1>0, <1>1, <1>2, Insertion DEF Total
<1>5. ASSUME NEW i, FirstRow(p, i)
      PROVE  FirstRow(p, i)' /\ Others(p, i)' = Others(p, i) + 1
  <2>1. i \in RowsOf(p) /\ i \in 1..Len(table) /\ i # n
    BY <1>1, <1>5 DEF FirstRow
  <2>2. (RowsOf(p) \cup {n}) \ {i} = (RowsOf(p) \ {i}) \cup {n}
    BY <2>1
  <2>3. RowsOf(p) \ {i} \in SUBSET DOMAIN table
    BY <1>1
  <2>4. SumFunctionOnSet(Counts', (RowsOf(p) \ {i}) \cup {n})
            = SumFunctionOnSet(Counts, RowsOf(p) \ {i}) + 1
    BY <1>0, <2>3, Insertion
  <2>5. Others(p, i)' = Others(p, i) + 1
    BY <1>1, <1>4, <2>2, <2>4 DEF Others
  <2>6. FirstRow(p, i)'
    BY <1>1, <1>4, <1>5, <2>1 DEF FirstRow
  <2>. QED
    BY <2>5, <2>6
<1>6. FoundInv'
  <2>. SUFFICES ASSUME NEW c \in Blocks, NEW q \in Places, NEW i \in Nat, NEW m \in Nat,
                       call'[c] = "saving", place'[c] = q, found'[c] = <<i, m>>
                PROVE  FirstRow(q, i)' /\ m + Others(q, i)' <= Cardinality(Saved(q)')
    BY DEF FoundInv
  <2>1. call[c] = "saving" /\ found[c] = <<i, m>> /\ place[c] = q
    BY <1>0, <1>2, Saves
  <2>2. FirstRow(q, i) /\ m + Others(q, i) <= Cardinality(Saved(q))
    BY <1>0, <2>1 DEF FoundInv
  <2>3. Others(q, i) \in Nat /\ Cardinality(Saved(q)) \in Nat
    BY <1>0, RowsFinite, SavedFinite DEF Others
  <2>4. Cardinality(Saved(q)') = Cardinality(Saved(q)) + (IF q = p THEN 1 ELSE 0)
    BY <1>0, <1>2, Saves
  <2>5. FirstRow(q, i)' /\ Others(q, i)' = Others(q, i) + (IF q = p THEN 1 ELSE 0)
    <3>1. CASE q = p
      BY <1>5, <2>2, <3>1
    <3>2. CASE q # p
      <4>1. FirstRow(q, i)' /\ Others(q, i)' = Others(q, i)
        BY <1>3, <2>2, <3>2
      <4>. QED
        BY <2>3, <3>2, <4>1
    <3>. QED
      BY <3>1, <3>2
  <2>6. m + Others(q, i)' <= Cardinality(Saved(q)')
    BY <2>2, <2>3, <2>4, <2>5
  <2>. QED
    BY <2>5, <2>6
<1>7. \A q : /\ Total(q) \in Nat /\ Cardinality(Saved(q)) \in Nat
             /\ Total(q)' = Total(q) + (IF q = p THEN 1 ELSE 0)
             /\ Cardinality(Saved(q)') = Cardinality(Saved(q)) + (IF q = p THEN 1 ELSE 0)
  <2>1. \A q : Total(q) \in Nat /\ Cardinality(Saved(q)) \in Nat
    BY <1>0, RowsFinite, SavedFinite DEF Total
  <2>. QED
    BY <1>0, <1>2, <1>3, <1>4, <2>1, Saves
<1>8. SavedInv'
  <2>. SUFFICES ASSUME NEW q \in Places
                PROVE  /\ Total(q)' <= Cardinality(Saved(q)')
                       /\ Saved(q)' # {} => RowsOf(q)' # {}
    BY DEF SavedInv
  <2>1. Total(q) <= Cardinality(Saved(q)) /\ (Saved(q) # {} => RowsOf(q) # {})
    BY <1>0 DEF SavedInv
  <2>2. Total(q)' <= Cardinality(Saved(q)')
    BY <1>7, <2>1
  <2>. QED
    BY <1>0, <1>3, <1>4, <2>1, <2>2, <1>2, Saves
<1>9. CountsExactWhenSerial'
  <2>. SUFFICES ASSUME NEW q \in Places, Saved(q)' \cap overlapped' = {}
                PROVE  /\ Total(q)' = Cardinality(Saved(q)')
                       /\ Cardinality(RowsOf(q)') <= 1
    BY DEF CountsExactWhenSerial
  <2>1. Saved(q) \cap overlapped = {} /\ (q = p => b \notin overlapped)
    BY <1>0, <1>2, Saves
  <2>2. Total(q) = Cardinality(Saved(q)) /\ Cardinality(RowsOf(q)) <= 1
    BY <1>0, <2>1 DEF SerialInv, CountsExactWhenSerial
  <2>3. CASE q # p
    BY <1>3, <1>7, <2>2, <2>3
  <2>4. CASE q = p
    <3>1. RowsOf(p) = {}
      BY <1>0, <1>2, <2>1, <2>4, Saves DEF SerialInv
    <3>2. RowsOf(p)' = {n} /\ Cardinality({n}) = 1
      BY <1>4, <3>1, FS_Singleton
    <3>. QED
      BY <1>7, <2>2, <2>4, <3>2
  <2>. QED
    BY <2>3, <2>4
<1>10. TableInv'
  <2>1. table' \in Seq(Row) /\ DOMAIN table \subseteq DOMAIN table'
    BY <1>0, Insertion
  <2>. QED
    BY <1>0, <2>1 DEF TableInv, SaveChanges, SaveWith
<1>11. SerialInv'
  BY <1>0, <1>2, <1>3, <1>9, Insertion, SaveSerial
<1>. QED
  BY <1>6, <1>8, <1>10, <1>11 DEF CountInv

LEMMA UpdateCounts ==
    ASSUME CountInv, NEW b \in Blocks, SaveChanges(b), found[b] # <<>>
    PROVE  CountInv'
<1>0. TableInv /\ FoundInv /\ SavedInv /\ SerialInv
  BY DEF CountInv
<1>1. PICK p \in Places : p = place[b]
  BY <1>0 DEF TableInv
<1>2. PICK k \in Nat, m \in Nat : found[b] = <<k, m>>
  BY <1>0 DEF TableInv
<1>3. FirstRow(p, k) /\ m + Others(p, k) <= Cardinality(Saved(p))
  BY <1>0, <1>1, <1>2, Saves DEF FoundInv
<1>4. /\ k \in RowsOf(p) /\ found[b][1] = k /\ found[b][2] = m
      /\ found[b][1] \in RowsOf(place[b])
      /\ \A q : RowsOf(q) \in SUBSET DOMAIN table
  BY <1>0, <1>1, <1>2, <1>3, RowsFinite DEF FirstRow
<1>5. /\ table' \in Seq(Row) /\ DOMAIN table \subseteq DOMAIN table'
      /\ \A q : RowsOf(q)' = RowsOf(q)
      /\ \A i \in DOMAIN table : i # k => table'[i] = table[i]
      /\ table'[k].attempts = m + 1
      /\ \A S \in SUBSET DOMAIN table : k \notin S =>
            SumFunctionOnSet(Counts', S) = SumFunctionOnSet(Counts, S)
  BY <1>0, <1>4, Update
<1>6. TableInv'
  BY <1>0, <1>5 DEF TableInv, SaveChanges, SaveWith
<1>7. \A q, i : FirstRow(q, i) => FirstRow(q, i)'
  BY <1>5 DEF FirstRow
<1>8. Others(p, k)' = Others(p, k) /\ Others(p, k) \in Nat
  BY <1>0, <1>4, <1>5, RowsFinite DEF Others
<1>9. \A q : q # p => Total(q)' = Total(q) /\ \A i : Others(q, i)' = Others(q, i)
  <2>1. \A q : q # p => k \notin RowsOf(q)
    BY <1>4 DEF RowsOf
  <2>2. ASSUME NEW q, q # p PROVE Total(q)' = Total(q)
    BY <1>4, <1>5, <2>1, <2>2 DEF Total
  <2>3. ASSUME NEW q, q # p, NEW i PROVE Others(q, i)' = Others(q, i)
    BY <1>4, <1>5, <2>1, <2>3 DEF Others
  <2>. QED
    BY <2>2, <2>3
<1>10. Total(p)' = Others(p, k) + m + 1
  <2>1. \A i \in RowsOf(p)' : Counts'[i] \in Nat
    <3>1. \A i \in DOMAIN table' : table'[i] \in Row
      BY <1>5
    <3>. QED
      BY <3>1 DEF Row, Counts, RowsOf
  <2>2. IsFiniteSet(RowsOf(p)') /\ k \in RowsOf(p)'
    BY <1>0, <1>4, <1>5, RowsFinite
  <2>3. SumFunctionOnSet(Counts', RowsOf(p)')
            = SumFunctionOnSet(Counts', RowsOf(p)' \ {k}) + Counts'[k]
    BY <2>1, <2>2, SumRemove
  <2>4. Total(p)' = Others(p, k)' + Counts'[k]
    BY <2>3 DEF Total, Others
  <2>5. Counts'[k] = m + 1
    BY <1>5, <2>2 DEF Counts, RowsOf
  <2>. QED
    BY <1>8, <2>4, <2>5
<1>11. \A q : Cardinality(Saved(q)') = Cardinality(Saved(q)) + (IF q = p THEN 1 ELSE 0)
             /\ Cardinality(Saved(q)) \in Nat
  BY <1>0, <1>1, Saves, SavedFinite
<1>12. FoundInv'
  <2>. SUFFICES ASSUME NEW c \in Blocks, NEW q \in Places, NEW i \in Nat, NEW j \in Nat,
                       call'[c] = "saving", place'[c] = q, found'[c] = <<i, j>>
                PROVE  FirstRow(q, i)' /\ j + Others(q, i)' <= Cardinality(Saved(q)')
    BY DEF FoundInv
  <2>1. call[c] = "saving" /\ found[c] = <<i, j>> /\ place[c] = q
    BY <1>0, Saves
  <2>2. FirstRow(q, i) /\ j + Others(q, i) <= Cardinality(Saved(q))
    BY <1>0, <2>1 DEF FoundInv
  <2>3. Others(q, i) \in Nat
    BY <1>0, RowsFinite DEF Others
  <2>4. q = p => i = k
    BY <1>0, <1>3, <1>4, <2>2, RowsFinite DEF FirstRow
  <2>5. Others(q, i)' = Others(q, i)
    BY <1>8, <1>9, <2>4
  <2>6. j + Others(q, i)' <= Cardinality(Saved(q)')
    BY <1>11, <2>2, <2>3, <2>5
  <2>. QED
    BY <1>7, <2>2, <2>6
<1>13. SavedInv'
  <2>. SUFFICES ASSUME NEW q \in Places
                PROVE  /\ Total(q)' <= Cardinality(Saved(q)')
                       /\ Saved(q)' # {} => RowsOf(q)' # {}
    BY DEF SavedInv
  <2>1. Total(q) <= Cardinality(Saved(q)) /\ (Saved(q) # {} => RowsOf(q) # {})
    BY <1>0 DEF SavedInv
  <2>2. CASE q = p
    BY <1>3, <1>4, <1>5, <1>8, <1>10, <1>11, <2>2
  <2>3. CASE q # p
    BY <1>0, <1>1, <1>5, <1>9, <1>11, <2>1, <2>3, Saves
  <2>. QED
    BY <2>2, <2>3
<1>14. CountsExactWhenSerial'
  <2>. SUFFICES ASSUME NEW q \in Places, Saved(q)' \cap overlapped' = {}
                PROVE  /\ Total(q)' = Cardinality(Saved(q)')
                       /\ Cardinality(RowsOf(q)') <= 1
    BY DEF CountsExactWhenSerial
  <2>1. Saved(q) \cap overlapped = {} /\ (q = p => b \notin overlapped)
    BY <1>0, <1>1, Saves
  <2>2. Total(q) = Cardinality(Saved(q)) /\ Cardinality(RowsOf(q)) <= 1
    BY <1>0, <2>1 DEF SerialInv, CountsExactWhenSerial
  <2>3. CASE q # p
    BY <1>5, <1>9, <1>11, <2>2, <2>3
  <2>4. CASE q = p
    <3>1. m = table[k].attempts
      BY <1>0, <1>1, <1>2, <2>1, <2>4, Saves DEF SerialInv
    <3>2. Total(p) = Others(p, k) + m
      BY <1>0, <1>4, <3>1, TotalSplit
    <3>. QED
      BY <1>5, <1>8, <1>10, <1>11, <2>2, <2>4, <3>2
  <2>. QED
    BY <2>3, <2>4
<1>15. SerialInv'
  <2>1. \A i \in DOMAIN table : table[i].place # place[b] => table'[i] = table[i]
    BY <1>1, <1>4, <1>5 DEF RowsOf
  <2>. QED
    BY <1>5, <1>14, <2>1, SaveSerial
<1>. QED
  BY <1>6, <1>12, <1>13, <1>15 DEF CountInv

\* A call that fails leaves the table as it is and saves nothing.
LEMMA FailureCounts ==
    ASSUME CountInv, NEW b \in Blocks, SaveChangesFails(b)
    PROVE  CountInv'
<1>0. TableInv /\ FoundInv /\ SavedInv /\ SerialInv
  BY DEF CountInv
<1>1. /\ call[b] = "saving" /\ call' = [call EXCEPT ![b] = "failed"]
      /\ UNCHANGED <<table, place, found, overlapped>>
  BY DEF SaveChangesFails
<1>2. call'[b] = "failed" /\ \A c \in Blocks : c # b => call'[c] = call[c]
  BY <1>0, <1>1 DEF TableInv
<1>3. \A q : Saved(q)' = Saved(q) /\ Saving(q)' = Saving(q) \ {b}
  BY <1>1, <1>2 DEF Saved, Saving
<1>4. \A q : RowsOf(q)' = RowsOf(q) /\ Total(q)' = Total(q)
  BY <1>1 DEF RowsOf, Total, Counts
<1>5. \A q, i : (FirstRow(q, i) => FirstRow(q, i)') /\ Others(q, i)' = Others(q, i)
  BY <1>1 DEF RowsOf, FirstRow, Others, Counts
<1>6. TableInv'
  BY <1>0, <1>1 DEF TableInv
<1>7. FoundInv'
  <2>. SUFFICES ASSUME NEW c \in Blocks, NEW q \in Places, NEW i \in Nat, NEW m \in Nat,
                       call'[c] = "saving", place'[c] = q, found'[c] = <<i, m>>
                PROVE  FirstRow(q, i)' /\ m + Others(q, i)' <= Cardinality(Saved(q)')
    BY DEF FoundInv
  <2>1. call[c] = "saving" /\ found[c] = <<i, m>> /\ place[c] = q
    BY <1>1, <1>2
  <2>. QED
    BY <1>0, <1>3, <1>5, <2>1 DEF FoundInv
<1>8. SavedInv'
  BY <1>0, <1>3, <1>4 DEF SavedInv
<1>9. CountsExactWhenSerial'
  BY <1>0, <1>1, <1>3, <1>4 DEF SerialInv, CountsExactWhenSerial
<1>10. ASSUME NEW c \in Blocks, NEW q \in Places,
              call'[c] = "saving", place'[c] = q, c \notin overlapped'
       PROVE  /\ Saving(q)' = {c}
              /\ found'[c] = <<>> => RowsOf(q)' = {}
              /\ \A i, m \in Nat : found'[c] = <<i, m>> => m = table'[i].attempts
  <2>1. /\ c # b /\ call[c] = "saving" /\ c \notin overlapped
        /\ place[c] = q /\ found'[c] = found[c]
    BY <1>1, <1>2, <1>10
  <2>2. /\ Saving(q) = {c}
        /\ found[c] = <<>> => RowsOf(q) = {}
        /\ \A i, m \in Nat : found[c] = <<i, m>> => m = table[i].attempts
    BY <1>0, <2>1 DEF SerialInv
  <2>. QED
    BY <1>1, <1>3, <1>4, <2>1, <2>2
<1>11. ASSUME NEW c \in overlapped' PROVE call'[c] # "idle"
  BY <1>0, <1>1, <1>2, <1>11 DEF SerialInv, TableInv
<1>12. SerialInv'
  BY <1>9, <1>10, <1>11 DEF SerialInv
<1>. QED
  BY <1>6, <1>7, <1>8, <1>12 DEF CountInv

LEMMA UpdateBlocksCounts ==
    ASSUME CountInv, NEW b \in Blocks, StatisticsUpdateBlocks(b)
    PROVE  CountInv'
BY LookUpCounts, InsertionCounts, UpdateCounts, FailureCounts DEF StatisticsUpdateBlocks

LEMMA StillCounts ==
    ASSUME CountInv, UNCHANGED statisticsVars
    PROVE  CountInv'
<1>1. UNCHANGED <<table, call, place, found, overlapped>>
  BY DEF statisticsVars
<1>2. \A q : /\ RowsOf(q)' = RowsOf(q) /\ Total(q)' = Total(q)
             /\ Saved(q)' = Saved(q) /\ Saving(q)' = Saving(q)
  BY <1>1 DEF RowsOf, Total, Counts, Saved, Saving
<1>3. \A q, i : (FirstRow(q, i) => FirstRow(q, i)') /\ Others(q, i)' = Others(q, i)
  BY <1>1 DEF RowsOf, FirstRow, Others, Counts
<1>4. TableInv'
  BY <1>1 DEF CountInv, TableInv
<1>5. FoundInv'
  BY <1>1, <1>2, <1>3 DEF CountInv, FoundInv
<1>6. SavedInv'
  BY <1>2 DEF CountInv, SavedInv
<1>7. SerialInv'
  BY <1>1, <1>2 DEF CountInv, SerialInv, CountsExactWhenSerial
<1>. QED
  BY <1>4, <1>5, <1>6, <1>7 DEF CountInv

----------------------------------------------------------------------------
\* What the invariant implies

LEMMA CountsBound == CountInv => CountsBounded
<1>. SUFFICES ASSUME CountInv, NEW p \in Places
              PROVE  /\ Total(p) <= Cardinality(Saved(p))
                     /\ Saved(p) # {} => Total(p) > 0
  BY DEF CountsBounded
<1>0. TableInv /\ SavedInv
  BY DEF CountInv
<1>1. Total(p) <= Cardinality(Saved(p)) /\ (Saved(p) # {} => RowsOf(p) # {})
  BY <1>0 DEF SavedInv
<1>2. ASSUME NEW i \in RowsOf(p) PROVE Total(p) > 0
  <2>1. Total(p) = Others(p, i) + table[i].attempts
    BY <1>0, TotalSplit
  <2>2. Others(p, i) \in Nat /\ table[i].attempts \in Nat \ {0}
    BY <1>0, RowsFinite DEF Others, RowsOf, Row
  <2>. QED
    BY <2>1, <2>2
<1>. QED
  BY <1>1, <1>2

LEMMA CountTypes == CountInv => StatisticsTypeOK
<1>. SUFFICES ASSUME CountInv PROVE StatisticsTypeOK
  OBVIOUS
<1>0. TableInv /\ FoundInv /\ SavedInv
  BY DEF CountInv
<1>1. ASSUME NEW i \in DOMAIN table
      PROVE  table[i] \in [place : Places, attempts : 1..Cardinality(Blocks)]
  <2>. DEFINE p == table[i].place
  <2>1. table[i] \in Row /\ i \in RowsOf(p)
    BY <1>0, RowsFinite DEF RowsOf
  <2>2. Total(p) = Others(p, i) + table[i].attempts
    BY <1>0, <2>1, TotalSplit
  <2>3. Total(p) <= Cardinality(Saved(p))
    BY <1>0, <2>1 DEF SavedInv, Row
  <2>4. Others(p, i) \in Nat /\ Cardinality(Saved(p)) \in Nat
    BY <1>0, RowsFinite, SavedFinite DEF Others
  <2>5. Cardinality(Saved(p)) <= Cardinality(Blocks) /\ Cardinality(Blocks) \in Nat
    BY SavedFinite, BlocksAssumption, FS_CardinalityType
  <2>6. table[i].attempts \in Nat \ {0}
    BY <2>1 DEF Row
  <2>. HIDE DEF p
  <2>7. table[i].attempts \in 1..Cardinality(Blocks)
    BY <2>2, <2>3, <2>4, <2>5, <2>6
  <2>. QED
    BY <2>1, <2>7 DEF Row
<1>. QED
  BY <1>0, <1>1 DEF TableInv, StatisticsTypeOK

=============================================================================
