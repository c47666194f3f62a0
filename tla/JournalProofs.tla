--------------------------- MODULE JournalProofs ---------------------------
(***************************************************************************)
(* Proofs about Journal, for any number of transactions, entries, accounts *)
(* and periods.  The set-up the code does not enforce is an assumption of  *)
(* the theorems that need it: periods that do not overlap, and fiscal      *)
(* years that start in different calendar years.                           *)
(***************************************************************************)
EXTENDS Journal, TLAPS

(***************************************************************************)
(* Lines and rows, as in LedgerProofs.                                     *)
(***************************************************************************)

\* The mirror of a list of lines is a list of lines of the same length.
LEMMA MirrorType ==
  ASSUME NEW lines \in Seq(Line)
  PROVE  Mirror(lines) \in Seq(Line) /\ DOMAIN Mirror(lines) = DOMAIN lines
<1>1. \A i \in DOMAIN lines : lines[i] \in Line
  OBVIOUS
<1>2. Mirror(lines) \in [1 .. Len(lines) -> Line]
  BY <1>1 DEF Mirror, Line
<1>. QED
  BY <1>2 DEF Mirror

\* A row that is inserted, field by field.
LEMMA DraftType ==
  ASSUME NEW date \in Dates, NEW source \in Source, NEW lines \in Seq(Line)
  PROVE  /\ Draft(date, source, lines) \in Row
         /\ Draft(date, source, lines).status = "DRAFT"
         /\ Draft(date, source, lines).date = date
         /\ Draft(date, source, lines).source = source
         /\ Draft(date, source, lines).lines = lines
<1>1. (CHOOSE y \in Years : TRUE) \in Years
  BY BooksAssumption
<1>. QED
  BY <1>1 DEF Draft, Row, EntryStatus

\* A row that is posted, field by field.
LEMMA PostedType ==
  ASSUME NEW row \in Row, NEW y \in Years, NEW n \in Nat
  PROVE  /\ Posted(row, y, n) \in Row
         /\ Posted(row, y, n).status = "POSTED"
         /\ Posted(row, y, n).year = y /\ Posted(row, y, n).number = n
         /\ Posted(row, y, n).date = row.date
         /\ Posted(row, y, n).source = row.source
         /\ Posted(row, y, n).lines = row.lines
BY DEF Posted, Row, EntryStatus

PeriodsDisjoint ==
  \A p, q \in Periods : p # q => Covers[p] \intersect Covers[q] = {}

StartYearsDiffer == \A y, z \in Years : StartYear[y] = StartYear[z] => y = z

(***************************************************************************)
(* The inductive invariant.                                                *)
(***************************************************************************)

Late == {"inPeriod", "checked", "numbered"}

\* b is the draft a transaction on entry e and original o posts, and the rows
\* it has locked still allow it.
DraftFor(e, o, b) ==
  \/ o = NoEntry /\ entry[e].status = "DRAFT" /\ b = entry[e]
  \/ /\ o = NoEntry /\ entry[e].status = "ABSENT"
     /\ \E d \in Dates, l \in LineSets : b = Draft(d, "OPENING_BALANCE", l)
  \/ /\ o \in Entries \ {e} /\ entry[o].status = "POSTED"
     /\ entry[e].status = "ABSENT"
     /\ b = Draft(entry[o].date, "JOURNAL_REVERSAL", Mirror(entry[o].lines))

\* The uncommitted row: the draft, until it is given the next number.
Candidates(t) ==
  {entry[tx[t].entry], Draft(tx[t].row.date, tx[t].row.source, tx[t].row.lines)}

RowOf(t) ==
  IF tx[t].phase = "numbered"
  THEN \E b \in Candidates(t) :
         /\ DraftFor(tx[t].entry, tx[t].original, b)
         /\ tx[t].row = Posted(b, YearOf(t), NextNumber(YearOf(t)))
  ELSE DraftFor(tx[t].entry, tx[t].original, tx[t].row)

\* What an open transaction may rely on until it ends.
TxOK(t) ==
  /\ tx[t].phase = "idle" => tx[t] = Idle
  /\ tx[t].phase # "idle" => tx[t].entry \in Entries /\ RowOf(t)
  /\ tx[t].phase \in Late => /\ tx[t].period \in tx[t].locked
                             /\ tx[t].row.date \in Covers[tx[t].period]
                             /\ period[tx[t].period] = "OPEN"
  /\ tx[t].phase \in {"checked", "numbered"} => Postable(tx[t].row.lines)

Touched(t) == {tx[t].entry, tx[t].original} \ {NoEntry}

\* No two transactions hold the same row.
Apart(t, u) ==
  /\ Touched(t) \intersect Touched(u) = {}
  /\ tx[t].locked \intersect tx[u].locked = {}
  /\ tx[t].phase = "numbered" /\ tx[u].phase = "numbered" => YearOf(t) # YearOf(u)

\* Nothing transaction u relies on changes.
Unmoved(u) ==
  /\ tx'[u] = tx[u]
  /\ \A e \in Touched(u) : entry'[e] = entry[e]
  /\ tx[u].phase \in Late => period'[tx[u].period] = period[tx[u].period]
  /\ tx[u].phase = "numbered" => sequence'[YearOf(u)] = sequence[YearOf(u)]

JournalInv ==
  /\ TypeOK
  /\ \A t \in Txns : TxOK(t)
  /\ \A t, u \in Txns : t # u => Apart(t, u)

(***************************************************************************)
(* What holds of one transaction.                                          *)
(***************************************************************************)

LEMMA RowTypes ==
  /\ AbsentRow \in Row /\ AbsentRow.status = "ABSENT"
  /\ Idle \in Tx
  /\ Idle.phase = "idle" /\ Idle.entry = NoEntry /\ Idle.original = NoEntry
  /\ Idle.locked = {}
<1>1. (CHOOSE d \in Dates : TRUE) \in Dates
  BY BooksAssumption
<1>2. "MANUAL" \in Source /\ <<>> \in Seq(Line)
  BY DEF Source
<1>3. Draft(CHOOSE d \in Dates : TRUE, "MANUAL", <<>>) \in Row
  BY <1>1, <1>2, DraftType
<1>4. AbsentRow \in Row /\ AbsentRow.status = "ABSENT"
  BY <1>3 DEF AbsentRow, Row, EntryStatus
<1>. QED
  BY <1>4 DEF Idle, Tx, Phase

\* A freshly begun transaction.
LEMMA BegunType ==
  ASSUME NEW e \in Entries, NEW o \in Entries \union {NoEntry}, NEW row \in Row
  PROVE  /\ Begun(e, o, row) \in Tx
         /\ Begun(e, o, row).phase = "begun"
         /\ Begun(e, o, row).entry = e /\ Begun(e, o, row).original = o
         /\ Begun(e, o, row).row = row /\ Begun(e, o, row).locked = {}
BY RowTypes DEF Begun, Idle, Tx, Phase

\* The draft of a transaction is a row with the fields of the request.
LEMMA DraftForType ==
  ASSUME TypeOK, NEW e \in Entries, NEW o, NEW b, DraftFor(e, o, b)
  PROVE  /\ b \in Row
         /\ b = entry[e] \/ b = Draft(b.date, b.source, b.lines)
<1>1. CASE b = entry[e]
  BY <1>1 DEF TypeOK
<1>2. ASSUME NEW d \in Dates, NEW l \in LineSets, b = Draft(d, "OPENING_BALANCE", l)
      PROVE  b \in Row /\ b = Draft(b.date, b.source, b.lines)
  BY <1>2, DraftType, BooksAssumption DEF Source
<1>3. CASE /\ o \in Entries
           /\ b = Draft(entry[o].date, "JOURNAL_REVERSAL", Mirror(entry[o].lines))
  <2>1. entry[o].date \in Dates /\ entry[o].lines \in Seq(Line)
    BY <1>3 DEF TypeOK, Row
  <2>. QED
    BY <1>3, <2>1, MirrorType, DraftType DEF Source
<1>. QED
  BY <1>1, <1>2, <1>3 DEF DraftFor

LEMMA YearType ==
  ASSUME TypeOK, NEW t \in Txns, tx[t].period \in Periods
  PROVE  YearOf(t) \in Years /\ NextNumber(YearOf(t)) \in Nat
BY BooksAssumption DEF TypeOK, Tx, YearOf, NextNumber

\* A transaction stays sound as long as nothing it relies on changes.
LEMMA Frame ==
  ASSUME TypeOK, NEW u \in Txns, TxOK(u), Unmoved(u)
  PROVE  TxOK(u)'
<1>1. tx'[u] = tx[u]
  BY DEF Unmoved
<1>2. CASE tx[u].phase = "idle"
  BY <1>1, <1>2 DEF TxOK, Late
<1>3. CASE tx[u].phase # "idle"
  <2> DEFINE e == tx[u].entry
             o == tx[u].original
  <2>1. e \in Entries /\ RowOf(u)
    BY <1>3 DEF TxOK
  <2>2. entry'[e] = entry[e] /\ (o \in Entries => entry'[o] = entry[o])
    BY <2>1, JournalAssumption DEF Unmoved, Touched
  <2>3. \A b : DraftFor(e, o, b) <=> DraftFor(e, o, b)'
    BY <1>1, <2>2 DEF DraftFor
  <2>4. RowOf(u)'
    <3>1. CASE tx[u].phase = "numbered"
      <4>1. /\ YearOf(u)' = YearOf(u)
            /\ NextNumber(YearOf(u))' = NextNumber(YearOf(u))
        BY <1>1, <3>1 DEF Unmoved, YearOf, NextNumber
      <4>2. Candidates(u)' = Candidates(u)
        BY <1>1, <2>2 DEF Candidates
      <4>3. PICK b \in Candidates(u) :
              DraftFor(e, o, b) /\ tx[u].row = Posted(b, YearOf(u), NextNumber(YearOf(u)))
        BY <2>1, <3>1 DEF RowOf
      <4>. QED
        BY <1>1, <2>3, <3>1, <4>1, <4>2, <4>3 DEF RowOf
    <3>2. CASE tx[u].phase # "numbered"
      BY <1>1, <2>1, <2>3, <3>2 DEF RowOf
    <3>. QED
      BY <3>1, <3>2
  <2>. QED
    BY <1>1, <1>3, <2>1, <2>4 DEF TxOK, Unmoved
<1>. QED
  BY <1>2, <1>3

\* A step of one transaction that leaves alone what the others rely on.
LEMMA OneMoves ==
  ASSUME JournalInv, TypeOK', NEW t \in Txns, TxOK(t)',
         \A u \in Txns \ {t} : Unmoved(u) /\ Apart(t, u)'
  PROVE  JournalInv'
<1>1. \A u \in Txns : TxOK(u)'
  BY Frame DEF JournalInv
<1>2. \A u \in Txns \ {t} : tx'[u] = tx[u]
  BY DEF Unmoved
<1>3. ASSUME NEW u \in Txns, NEW v \in Txns, u # v
      PROVE  Apart(u, v)'
  <2>1. CASE u # t /\ v # t
    BY <1>2, <1>3, <2>1 DEF JournalInv, Apart, Touched, YearOf
  <2>2. CASE u = t
    BY <1>3, <2>2
  <2>3. CASE v = t
    <3>1. Apart(t, u)'
      BY <1>3, <2>3
    <3>. QED
      BY <2>3, <3>1 DEF Apart
  <2>. QED
    BY <2>1, <2>2, <2>3
<1>. QED
  BY <1>1, <1>3 DEF JournalInv

\* A step of none of them.
LEMMA NoneMoves ==
  ASSUME JournalInv, TypeOK', tx' = tx, \A u \in Txns : Unmoved(u)
  PROVE  JournalInv'
<1>1. \A u \in Txns : TxOK(u)'
  BY Frame DEF JournalInv
<1>2. \A u, v \in Txns : Apart(u, v) => Apart(u, v)'
  BY DEF Apart, Touched, YearOf
<1>. QED
  BY <1>1, <1>2 DEF JournalInv

(***************************************************************************)
(* Beginning a transaction.                                                *)
(***************************************************************************)

\* A transaction that begins on rows nobody holds.
LEMMA BeginKeeps ==
  ASSUME JournalInv, NEW t \in Txns, tx[t].phase = "idle",
         NEW e \in Entries, NEW o \in Entries \union {NoEntry}, NEW row,
         DraftFor(e, o, row), ~EntryHeld(e), o \in Entries => ~EntryHeld(o),
         Moved(t, Begun(e, o, row)),
         UNCHANGED <<account, period, entry, sequence, reversals>>
  PROVE  JournalInv'
<1> DEFINE x == Begun(e, o, row)
<1>1. TypeOK
  BY DEF JournalInv
<1>2. row \in Row
  BY <1>1, DraftForType
<1>3. /\ x \in Tx /\ x.phase = "begun" /\ x.entry = e /\ x.original = o
      /\ x.row = row /\ x.locked = {}
  BY <1>2, BegunType
<1>4. tx' = [tx EXCEPT ![t] = x] /\ tx'[t] = x
  BY <1>1 DEF Moved, TypeOK
<1>5. TypeOK'
  BY <1>1, <1>3, <1>4 DEF TypeOK
<1>6. TxOK(t)'
  <2>1. DraftFor(e, o, row)'
    BY DEF DraftFor
  <2>2. RowOf(t)'
    BY <1>3, <1>4, <2>1 DEF RowOf
  <2>. QED
    BY <1>3, <1>4, <2>2 DEF TxOK, Late
<1>7. ASSUME NEW u \in Txns \ {t}
      PROVE  Unmoved(u) /\ Apart(t, u)'
  <2>1. tx'[u] = tx[u]
    BY <1>1, <1>4 DEF TypeOK
  <2>2. Unmoved(u)
    BY <2>1 DEF Unmoved, YearOf
  <2>3. Touched(t)' = {e, o} \ {NoEntry} /\ Touched(u)' = Touched(u)
    BY <1>3, <1>4, <2>1 DEF Touched
  <2>4. e \notin Touched(u) /\ (o \in Entries => o \notin Touched(u))
    BY DEF EntryHeld, Touched
  <2>. QED
    BY <1>3, <1>4, <2>1, <2>2, <2>3, <2>4 DEF Apart
<1>. QED
  BY <1>5, <1>6, <1>7, OneMoves

LEMMA BeginPostKeeps ==
  ASSUME JournalInv, NEW t \in Txns, NEW e \in Entries, BeginPost(t, e)
  PROVE  JournalInv'
<1>1. DraftFor(e, NoEntry, entry[e])
  BY DEF BeginPost, DraftFor
<1>. QED
  BY <1>1, BeginKeeps, JournalAssumption DEF BeginPost

LEMMA BeginOpeningKeeps ==
  ASSUME JournalInv, NEW t \in Txns, NEW e \in Entries, NEW d \in Dates,
         NEW l \in LineSets, BeginOpening(t, e, d, l)
  PROVE  JournalInv'
<1>1. DraftFor(e, NoEntry, Draft(d, "OPENING_BALANCE", l))
  BY DEF BeginOpening, DraftFor
<1>. QED
  BY <1>1, BeginKeeps, JournalAssumption DEF BeginOpening

LEMMA BeginReverseKeeps ==
  ASSUME JournalInv, NEW t \in Txns, NEW o \in Entries, NEW e \in Entries,
         BeginReverse(t, o, e)
  PROVE  JournalInv'
<1>1. DraftFor(e, o, Draft(entry[o].date, "JOURNAL_REVERSAL", Mirror(entry[o].lines)))
  BY DEF BeginReverse, DraftFor
<1>. QED
  BY <1>1, BeginKeeps DEF BeginReverse

(***************************************************************************)
(* The steps of an open transaction.                                       *)
(***************************************************************************)

LEMMA LockPeriodKeeps ==
  ASSUME JournalInv, NEW t \in Txns, LockPeriod(t)
  PROVE  JournalInv'
<1> DEFINE date == tx[t].row.date
<1>1. TypeOK /\ TxOK(t) /\ tx[t] \in Tx
  BY DEF JournalInv, TypeOK
<1>2. PICK p \in Covering(date) :
        /\ period[p] = "OPEN"
        /\ Moved(t, [tx[t] EXCEPT !.phase = "inPeriod", !.period = p,
                                  !.locked = Covering(date)])
  BY DEF LockPeriod
<1>3. /\ tx' = [tx EXCEPT ![t] = tx'[t]]
      /\ tx'[t] = [tx[t] EXCEPT !.phase = "inPeriod", !.period = p,
                                !.locked = Covering(date)]
  BY <1>1, <1>2 DEF Moved, TypeOK
<1>4. /\ p \in Periods /\ date \in Covers[p] /\ Covering(date) \in SUBSET Periods
  BY DEF Covering
<1>5. /\ tx'[t] \in Tx /\ tx'[t].phase = "inPeriod" /\ tx'[t].period = p
      /\ tx'[t].locked = Covering(date) /\ tx'[t].row = tx[t].row
      /\ tx'[t].entry = tx[t].entry /\ tx'[t].original = tx[t].original
  BY <1>1, <1>3, <1>4 DEF Tx, Phase
<1>6. TypeOK'
  BY <1>1, <1>3, <1>5 DEF TypeOK, LockPeriod
<1>7. TxOK(t)'
  <2>1. tx[t].phase = "begun" /\ tx[t].entry \in Entries
    BY <1>1 DEF LockPeriod, TxOK
  <2>2. DraftFor(tx[t].entry, tx[t].original, tx[t].row)
    BY <1>1, <2>1 DEF TxOK, RowOf
  <2>3. RowOf(t)'
    BY <1>5, <2>2 DEF RowOf, DraftFor, LockPeriod
  <2>. QED
    BY <1>2, <1>4, <1>5, <2>1, <2>3 DEF TxOK, LockPeriod
<1>8. ASSUME NEW u \in Txns \ {t}
      PROVE  Unmoved(u) /\ Apart(t, u)'
  <2>1. tx'[u] = tx[u]
    BY <1>1, <1>3 DEF TypeOK
  <2>2. Unmoved(u)
    BY <2>1 DEF Unmoved, LockPeriod
  <2>3. Touched(t)' = Touched(t) /\ Touched(u)' = Touched(u)
    BY <1>5, <2>1 DEF Touched
  <2>4. Covering(date) \intersect tx[u].locked = {}
    BY DEF LockPeriod, PeriodsFree, PeriodHeld
  <2>. QED
    BY <1>5, <2>1, <2>2, <2>3, <2>4 DEF Apart, JournalInv
<1>. QED
  BY <1>6, <1>7, <1>8, OneMoves

LEMMA CheckLinesKeeps ==
  ASSUME JournalInv, NEW t \in Txns, CheckLines(t)
  PROVE  JournalInv'
<1>1. TypeOK /\ TxOK(t) /\ tx[t] \in Tx
  BY DEF JournalInv, TypeOK
<1>2. /\ tx' = [tx EXCEPT ![t] = tx'[t]]
      /\ tx'[t] = [tx[t] EXCEPT !.phase = "checked"]
  BY <1>1 DEF CheckLines, Moved, TypeOK
<1>3. /\ tx'[t] \in Tx /\ tx'[t].phase = "checked" /\ tx'[t].period = tx[t].period
      /\ tx'[t].locked = tx[t].locked /\ tx'[t].row = tx[t].row
      /\ tx'[t].entry = tx[t].entry /\ tx'[t].original = tx[t].original
  BY <1>1, <1>2 DEF Tx, Phase
<1>4. TypeOK'
  BY <1>1, <1>2, <1>3 DEF TypeOK, CheckLines
<1>5. TxOK(t)'
  <2>1. tx[t].phase = "inPeriod" /\ tx[t].phase \in Late /\ tx[t].entry \in Entries
    BY <1>1 DEF CheckLines, TxOK, Late
  <2>2. DraftFor(tx[t].entry, tx[t].original, tx[t].row)
    BY <1>1, <2>1 DEF TxOK, RowOf
  <2>3. RowOf(t)'
    BY <1>3, <2>2 DEF RowOf, DraftFor, CheckLines
  <2>4. /\ tx[t].period \in tx[t].locked /\ tx[t].row.date \in Covers[tx[t].period]
        /\ period[tx[t].period] = "OPEN"
    BY <1>1, <2>1 DEF TxOK
  <2>. QED
    BY <1>3, <2>1, <2>3, <2>4 DEF TxOK, CheckLines
<1>6. ASSUME NEW u \in Txns \ {t}
      PROVE  Unmoved(u) /\ Apart(t, u)'
  <2>1. tx'[u] = tx[u]
    BY <1>1, <1>2 DEF TypeOK
  <2>2. Unmoved(u)
    BY <2>1 DEF Unmoved, CheckLines
  <2>3. Touched(t)' = Touched(t) /\ Touched(u)' = Touched(u)
    BY <1>3, <2>1 DEF Touched
  <2>. QED
    BY <1>3, <2>1, <2>2, <2>3 DEF Apart, JournalInv
<1>. QED
  BY <1>4, <1>5, <1>6, OneMoves

LEMMA TakeNumberKeeps ==
  ASSUME JournalInv, NEW t \in Txns, TakeNumber(t)
  PROVE  JournalInv'
<1> DEFINE y == YearOf(t)
<1>0. PICK b : b = tx[t].row
  OBVIOUS
<1>1. TypeOK /\ TxOK(t) /\ tx[t] \in Tx /\ b \in Row
  BY <1>0 DEF JournalInv, TypeOK, Tx
<1>2. /\ tx[t].phase = "checked" /\ tx[t].phase \in Late /\ tx[t].entry \in Entries
      /\ DraftFor(tx[t].entry, tx[t].original, b)
      /\ tx[t].period \in tx[t].locked /\ b.date \in Covers[tx[t].period]
      /\ period[tx[t].period] = "OPEN" /\ Postable(b.lines)
  BY <1>0, <1>1 DEF TakeNumber, TxOK, RowOf, Late
<1>3. tx[t].period \in Periods
  BY <1>1, <1>2 DEF Tx
<1>4. y \in Years /\ NextNumber(y) \in Nat
  BY <1>1, <1>3, YearType
<1>5. /\ tx' = [tx EXCEPT ![t] = tx'[t]]
      /\ tx'[t] = [tx[t] EXCEPT !.phase = "numbered",
                                !.row = Posted(b, y, NextNumber(y))]
  BY <1>0, <1>1 DEF TakeNumber, Moved, TypeOK
<1>6. /\ Posted(b, y, NextNumber(y)) \in Row
      /\ Posted(b, y, NextNumber(y)).date = b.date
      /\ Posted(b, y, NextNumber(y)).source = b.source
      /\ Posted(b, y, NextNumber(y)).lines = b.lines
  BY <1>1, <1>4, PostedType
<1>7. /\ tx'[t] \in Tx /\ tx'[t].phase = "numbered" /\ tx'[t].period = tx[t].period
      /\ tx'[t].locked = tx[t].locked /\ tx'[t].row = Posted(b, y, NextNumber(y))
      /\ tx'[t].entry = tx[t].entry /\ tx'[t].original = tx[t].original
  BY <1>1, <1>5, <1>6 DEF Tx, Phase
<1>8. TypeOK'
  BY <1>1, <1>5, <1>7 DEF TypeOK, TakeNumber
<1>9. TxOK(t)'
  <2>1. b \in Candidates(t)'
    BY <1>1, <1>2, <1>6, <1>7, DraftForType DEF Candidates, TakeNumber
  <2>2. DraftFor(tx[t].entry, tx[t].original, b)'
    BY <1>2, <1>7 DEF DraftFor, TakeNumber
  <2>3. YearOf(t)' = y /\ NextNumber(YearOf(t))' = NextNumber(y)
    BY <1>7 DEF YearOf, NextNumber, TakeNumber
  <2>4. RowOf(t)'
    <3>1. tx'[t].row = Posted(b, YearOf(t), NextNumber(YearOf(t)))'
      BY <1>7, <2>3 DEF Posted
    <3>. QED
      BY <1>7, <2>1, <2>2, <3>1 DEF RowOf
  <2>. QED
    BY <1>2, <1>6, <1>7, <2>4 DEF TxOK, TakeNumber
<1>10. ASSUME NEW u \in Txns \ {t}
       PROVE  Unmoved(u) /\ Apart(t, u)'
  <2>1. tx'[u] = tx[u]
    BY <1>1, <1>5 DEF TypeOK
  <2>2. Unmoved(u)
    BY <2>1 DEF Unmoved, TakeNumber
  <2>3. Touched(t)' = Touched(t) /\ Touched(u)' = Touched(u)
    BY <1>7, <2>1 DEF Touched
  <2>4. YearOf(t)' = y /\ YearOf(u)' = YearOf(u)
    BY <1>7, <2>1 DEF YearOf
  <2>5. tx[u].phase = "numbered" => YearOf(u) # y
    BY DEF TakeNumber, SequenceHeld
  <2>. QED
    BY <1>7, <2>1, <2>2, <2>3, <2>4, <2>5 DEF Apart, JournalInv
<1>. QED
  BY <1>8, <1>9, <1>10, OneMoves

(***************************************************************************)
(* The ends of a transaction.                                              *)
(***************************************************************************)

LEMMA EndKeeps ==
  ASSUME JournalInv, TypeOK', NEW t \in Txns, Moved(t, Idle),
         \A u \in Txns \ {t} : tx'[u] = tx[u] => Unmoved(u)
  PROVE  JournalInv'
<1>1. tx' = [tx EXCEPT ![t] = Idle] /\ tx'[t] = Idle
  BY DEF JournalInv, TypeOK, Moved
<1>2. TxOK(t)'
  BY <1>1, RowTypes DEF TxOK, Late
<1>3. ASSUME NEW u \in Txns \ {t}
      PROVE  Unmoved(u) /\ Apart(t, u)'
  <2>1. tx'[u] = tx[u]
    BY <1>1 DEF JournalInv, TypeOK
  <2>2. Touched(t)' = {}
    BY <1>1, RowTypes DEF Touched
  <2>. QED
    BY <1>1, <2>1, <2>2, RowTypes DEF Apart
<1>. QED
  BY <1>2, <1>3, OneMoves

LEMMA RollBackKeeps ==
  ASSUME JournalInv, NEW t \in Txns, Refuse(t) \/ Crash(t)
  PROVE  JournalInv'
<1>1. /\ Moved(t, Idle)
      /\ UNCHANGED <<account, period, entry, sequence, reversals>>
  BY Zenon DEF Refuse, Crash
<1>2. TypeOK'
  BY <1>1, RowTypes DEF JournalInv, TypeOK, Moved
<1>3. \A u \in Txns \ {t} : tx'[u] = tx[u] => Unmoved(u)
  BY <1>1 DEF Unmoved
<1>. QED
  BY <1>1, <1>2, <1>3, EndKeeps

\* What a transaction that has its number knows of its row.
LEMMA NumberedFacts ==
  ASSUME JournalInv, NEW t \in Txns, tx[t].phase = "numbered"
  PROVE  LET e == tx[t].entry
             o == tx[t].original
             row == tx[t].row
             y == YearOf(t)
         IN  /\ e \in Entries /\ o \in Entries \union {NoEntry}
             /\ y \in Years /\ NextNumber(y) \in Nat
             /\ \E b \in Row : /\ DraftFor(e, o, b)
                               /\ row = Posted(b, y, NextNumber(y))
                               /\ row.date = b.date /\ row.lines = b.lines
                               /\ row.source = b.source
             /\ row \in Row /\ row.status = "POSTED"
             /\ row.year = y /\ row.number = NextNumber(y)
             /\ Postable(row.lines)
             /\ tx[t].period \in Periods /\ FiscalYear[tx[t].period] = y
             /\ row.date \in Covers[tx[t].period]
             /\ period[tx[t].period] = "OPEN"
             /\ o \in Entries => o # e
<1> DEFINE e == tx[t].entry
           o == tx[t].original
           row == tx[t].row
           y == YearOf(t)
<1>1. TypeOK /\ TxOK(t) /\ tx[t] \in Tx /\ tx[t].phase = "numbered"
  BY DEF JournalInv, TypeOK
<1>2. /\ e \in Entries /\ RowOf(t) /\ Postable(row.lines)
      /\ tx[t].period \in tx[t].locked /\ row.date \in Covers[tx[t].period]
      /\ period[tx[t].period] = "OPEN"
  BY <1>1 DEF TxOK, Late
<1>3. tx[t].period \in Periods /\ o \in Entries \union {NoEntry}
  BY <1>1, <1>2 DEF Tx
<1>4. y \in Years /\ NextNumber(y) \in Nat
  BY <1>1, <1>3, YearType
<1>5. PICK b : DraftFor(e, o, b) /\ row = Posted(b, y, NextNumber(y))
  BY <1>1, <1>2 DEF RowOf
<1>6. b \in Row
  BY <1>1, <1>2, <1>5, DraftForType
<1>7. /\ row \in Row /\ row.status = "POSTED"
      /\ row.year = y /\ row.number = NextNumber(y)
      /\ row.date = b.date /\ row.source = b.source /\ row.lines = b.lines
  BY <1>4, <1>5, <1>6, PostedType
<1>8. o \in Entries => o # e
  BY <1>5, JournalAssumption DEF DraftFor
<1>9. FiscalYear[tx[t].period] = y
  BY DEF YearOf
<1>. QED
  BY <1>2, <1>3, <1>4, <1>5, <1>6, <1>7, <1>8, <1>9

LEMMA CommitFacts ==
  ASSUME JournalInv, NEW t \in Txns, Commit(t)
  PROVE  LET e == tx[t].entry
             o == tx[t].original
             row == tx[t].row
             y == YearOf(t)
         IN  /\ e \in Entries /\ o \in Entries \union {NoEntry}
             /\ y \in Years /\ NextNumber(y) \in Nat
             /\ \E b \in Row : /\ DraftFor(e, o, b)
                               /\ row = Posted(b, y, NextNumber(y))
                               /\ row.date = b.date /\ row.lines = b.lines
                               /\ row.source = b.source
             /\ row \in Row /\ row.status = "POSTED"
             /\ row.year = y /\ row.number = NextNumber(y)
             /\ Postable(row.lines)
             /\ tx[t].period \in Periods /\ FiscalYear[tx[t].period] = y
             /\ row.date \in Covers[tx[t].period]
             /\ period[tx[t].period] = "OPEN"
             /\ o \in Entries => o # e
BY NumberedFacts DEF Commit

\* The rows after a commit.
LEMMA CommitEffect ==
  ASSUME JournalInv, NEW t \in Txns, Commit(t)
  PROVE  LET e == tx[t].entry
             o == tx[t].original
         IN  /\ sequence' = [sequence EXCEPT ![YearOf(t)] = tx[t].row.number + 1]
             /\ \/ /\ o = NoEntry
                   /\ entry' = [entry EXCEPT ![e] = tx[t].row]
                   /\ reversals' = reversals
                \/ /\ o \in Entries /\ o # e
                   /\ entry' = [entry EXCEPT ![e] = tx[t].row, ![o].status = "REVERSED"]
                   /\ reversals' = reversals \union {<<o, e>>}
BY CommitFacts DEF Commit

LEMMA CommitKeeps ==
  ASSUME JournalInv, NEW t \in Txns, Commit(t)
  PROVE  JournalInv'
<1> DEFINE e == tx[t].entry
           o == tx[t].original
           y == YearOf(t)
<1>1. /\ e \in Entries /\ o \in Entries \union {NoEntry} /\ y \in Years
      /\ tx[t].row \in Row /\ tx[t].row.number \in Nat
  BY CommitFacts
<1>2. TypeOK /\ tx[t].phase = "numbered"
      /\ Moved(t, Idle) /\ UNCHANGED <<account, period>>
  BY DEF JournalInv, Commit
<1>3. entry' \in [Entries -> Row]
  <2>1. \A f \in Entries : [entry[f] EXCEPT !.status = "REVERSED"] \in Row
    BY <1>2 DEF TypeOK, Row, EntryStatus
  <2>2. CASE o = NoEntry
    BY <1>1, <1>2, <2>2, CommitEffect, JournalAssumption DEF TypeOK
  <2>3. CASE o \in Entries
    <3>1. /\ entry' = [entry EXCEPT ![e] = tx[t].row, ![o].status = "REVERSED"]
          /\ o # e
      BY <2>3, CommitEffect, JournalAssumption
    <3>2. entry' = [[entry EXCEPT ![e] = tx[t].row]
                      EXCEPT ![o] = [entry[o] EXCEPT !.status = "REVERSED"]]
      BY <1>2, <3>1 DEF TypeOK
    <3>. QED
      BY <1>1, <1>2, <2>1, <2>3, <3>2 DEF TypeOK
  <2>. QED
    BY <1>1, <2>2, <2>3
<1>4. reversals' \in SUBSET (Entries \X Entries)
  <2>1. reversals' = reversals \/ (o \in Entries /\ reversals' = reversals \union {<<o, e>>})
    BY CommitEffect
  <2>. QED
    BY <1>1, <1>2, <2>1 DEF TypeOK
<1>5. sequence' \in [Years -> Nat]
  <2>1. sequence' = [sequence EXCEPT ![y] = tx[t].row.number + 1]
    BY CommitEffect
  <2>. QED
    BY <1>1, <1>2, <2>1 DEF TypeOK
<1>6. TypeOK'
  BY <1>2, <1>3, <1>4, <1>5, RowTypes DEF TypeOK, Moved
<1>7. ASSUME NEW u \in Txns \ {t}, tx'[u] = tx[u]
      PROVE  Unmoved(u)
  <2>1. Apart(t, u)
    BY DEF JournalInv
  <2>2. \A f \in Touched(u) : f # e /\ f # o
    BY <1>1, <2>1, JournalAssumption DEF Apart, Touched
  <2>3. \A f \in Touched(u) : entry'[f] = entry[f]
    <3>1. Touched(u) \subseteq Entries
      BY <1>2 DEF TypeOK, Tx, Touched
    <3>2. \/ entry' = [entry EXCEPT ![e] = tx[t].row]
          \/ entry' = [entry EXCEPT ![e] = tx[t].row, ![o].status = "REVERSED"]
      BY CommitEffect
    <3>3. \A f \in Entries : f # e /\ f # o => entry'[f] = entry[f]
      BY <1>2, <3>2 DEF TypeOK
    <3>. QED
      BY <2>2, <3>1, <3>3
  <2>4. tx[u].phase = "numbered" => sequence'[YearOf(u)] = sequence[YearOf(u)]
    <3>1. tx[u].phase = "numbered" => YearOf(u) # y
      BY <1>2, <2>1 DEF Apart
    <3>2. tx[u].phase = "numbered" => YearOf(u) \in Years
      <4>1. TxOK(u) /\ tx[u] \in Tx
        BY DEF JournalInv, TypeOK
      <4>2. tx[u].phase = "numbered" => tx[u].period \in Periods
        BY <4>1 DEF TxOK, Tx, Late
      <4>. QED
        BY <1>2, <4>2, YearType
    <3>. QED
      BY <1>2, <3>1, <3>2, CommitEffect DEF TypeOK
  <2>. QED
    BY <1>2, <1>7, <2>3, <2>4 DEF Unmoved
<1>. QED
  BY <1>2, <1>6, <1>7, EndKeeps

(***************************************************************************)
(* The other requests, and the invariant.                                  *)
(***************************************************************************)

LEMMA CreateDraftKeeps ==
  ASSUME JournalInv, NEW e \in Entries, NEW d \in Dates, NEW l \in LineSets,
         CreateDraft(e, d, l)
  PROVE  JournalInv'
<1>1. Draft(d, "MANUAL", l) \in Row
  BY DraftType, BooksAssumption DEF Source
<1>2. TypeOK'
  BY <1>1 DEF JournalInv, TypeOK, CreateDraft
<1>3. ASSUME NEW u \in Txns PROVE Unmoved(u)
  <2>1. Touched(u) \subseteq Entries
    BY DEF JournalInv, TypeOK, Tx, Touched
  <2>2. e \notin Touched(u)
    BY DEF CreateDraft, EntryHeld, Touched
  <2>. QED
    BY <2>1, <2>2 DEF CreateDraft, Unmoved, JournalInv, TypeOK
<1>. QED
  BY <1>2, <1>3, NoneMoves DEF CreateDraft

LEMMA SetAccountActiveKeeps ==
  ASSUME JournalInv, NEW a \in Accounts, SetAccountActive(a)
  PROVE  JournalInv'
<1>1. TypeOK'
  BY DEF JournalInv, TypeOK, SetAccountActive
<1>2. \A u \in Txns : Unmoved(u)
  BY DEF SetAccountActive, Unmoved
<1>. QED
  BY <1>1, <1>2, NoneMoves DEF SetAccountActive

\* A period row that no transaction holds, or that did not exist, changes.
LEMMA PeriodKeeps ==
  ASSUME JournalInv, NEW p \in Periods, NEW s \in PeriodStatus,
         period' = [period EXCEPT ![p] = s],
         period[p] = "ABSENT" \/ ~PeriodHeld(p),
         UNCHANGED <<account, entry, sequence, reversals, tx>>
  PROVE  JournalInv'
<1>1. TypeOK'
  BY DEF JournalInv, TypeOK
<1>2. ASSUME NEW u \in Txns PROVE Unmoved(u)
  <2>1. TxOK(u) /\ tx[u] \in Tx
    BY DEF JournalInv, TypeOK
  <2>2. tx[u].phase \in Late => tx[u].period # p /\ tx[u].period \in Periods
    BY <2>1 DEF TxOK, PeriodHeld, Tx
  <2>. QED
    BY <2>2 DEF Unmoved, JournalInv, TypeOK
<1>. QED
  BY <1>1, <1>2, NoneMoves

\* Every step keeps the invariant.
LEMMA StepKeeps == JournalInv /\ [Next]_vars => JournalInv'
<1> SUFFICES ASSUME JournalInv, [Next]_vars PROVE JournalInv'
  OBVIOUS
<1>1. ASSUME NEW t \in Txns, Begin(t) PROVE JournalInv'
  BY <1>1, BeginPostKeeps, BeginOpeningKeeps, BeginReverseKeeps DEF Begin
<1>2. ASSUME NEW t \in Txns, Step(t) \/ Crash(t) PROVE JournalInv'
  BY <1>2, LockPeriodKeeps, CheckLinesKeeps, TakeNumberKeeps, CommitKeeps,
     RollBackKeeps DEF Step
<1>3. ASSUME NEW e \in Entries, NEW d \in Dates, NEW l \in LineSets,
             CreateDraft(e, d, l)
      PROVE  JournalInv'
  BY <1>3, CreateDraftKeeps
<1>4. ASSUME NEW a \in Accounts, SetAccountActive(a) PROVE JournalInv'
  BY <1>4, SetAccountActiveKeeps
<1>5. ASSUME NEW p \in Periods, CreatePeriod(p) PROVE JournalInv'
  BY <1>5, PeriodKeeps DEF CreatePeriod, PeriodStatus
<1>6. ASSUME NEW p \in Periods, NEW s \in {"SOFT_CLOSED", "CLOSED"},
             SetPeriodStatus(p, s)
      PROVE  JournalInv'
  BY <1>6, PeriodKeeps DEF SetPeriodStatus, PeriodStatus
<1>7. ASSUME NEW p \in Periods, ReopenPeriod(p) PROVE JournalInv'
  BY <1>7, PeriodKeeps DEF ReopenPeriod, PeriodStatus
<1>8. ASSUME UNCHANGED vars PROVE JournalInv'
  <2>1. TypeOK'
    BY <1>8 DEF vars, JournalInv, TypeOK
  <2>2. \A u \in Txns : Unmoved(u)
    BY <1>8 DEF vars, Unmoved
  <2>. QED
    BY <1>8, <2>1, <2>2, NoneMoves DEF vars
<1>. QED
  BY <1>1, <1>2, <1>3, <1>4, <1>5, <1>6, <1>7, <1>8 DEF Next

LEMMA InitInv == Init => JournalInv
<1> SUFFICES ASSUME Init PROVE JournalInv
  OBVIOUS
<1>1. TypeOK
  BY RowTypes DEF Init, TypeOK, PeriodStatus
<1>2. \A t \in Txns : tx[t] = Idle
  BY DEF Init
<1>3. \A t \in Txns : TxOK(t) /\ Touched(t) = {} /\ tx[t].locked = {}
  BY <1>2, RowTypes DEF TxOK, Late, Touched
<1>4. \A t, u \in Txns : Apart(t, u)
  BY <1>2, <1>3, RowTypes DEF Apart
<1>. QED
  BY <1>1, <1>3, <1>4 DEF JournalInv

\* Row locks keep the open transactions apart, and what each has checked stays
\* true until it ends.
THEOREM JournalSound == Spec => []JournalInv
BY InitInv, StepKeeps, PTL DEF Spec

\* Every table and every open transaction keeps its shape.
THEOREM JournalTypeCorrect == Spec => []TypeOK
<1>1. JournalInv => TypeOK
  BY DEF JournalInv
<1>. QED
  BY <1>1, JournalSound, PTL

(***************************************************************************)
(* Journal implements Ledger.  The theorems of LedgerProofs are            *)
(* instantiated with the mapping of Promise, and L and Promise are shown   *)
(* to agree.                                                               *)
(***************************************************************************)
L == INSTANCE LedgerProofs WITH book <- entry, issued <- Issued

LEMMA SameAssumption == L!BooksAssumption
BY BooksAssumption DEF L!BooksAssumption, L!Line, Line, L!Amount, Amount

\* The helpers of Books mean the same in Ledger's instance.
LEMMA SameDraft ==
  \A d, s, l : /\ Promise!Draft(d, s, l) = Draft(d, s, l)
               /\ L!Draft(d, s, l) = Draft(d, s, l)
BY DEF Promise!Draft, L!Draft, Draft

LEMMA SamePosted ==
  \A r, y, n : /\ Promise!Posted(r, y, n) = Posted(r, y, n)
               /\ L!Posted(r, y, n) = Posted(r, y, n)
BY DEF Promise!Posted, L!Posted, Posted

LEMMA SameMirror ==
  \A l : Promise!Mirror(l) = Mirror(l) /\ L!Mirror(l) = Mirror(l)
BY DEF Promise!Mirror, L!Mirror, Mirror

LEMMA SamePostable ==
  \A l : /\ Promise!Postable(l) <=> Postable(l)
         /\ L!Postable(l) <=> Postable(l)
<1>1. \A l : Promise!Balanced(l) <=> Balanced(l)
  BY DEF Promise!Balanced, Balanced, Promise!DebitTotal, DebitTotal,
         Promise!CreditTotal, CreditTotal, Promise!Total, Total
<1>2. \A l : L!Balanced(l) <=> Balanced(l)
  BY DEF L!Balanced, Balanced, L!DebitTotal, DebitTotal,
         L!CreditTotal, CreditTotal, L!Total, Total
<1>3. \A x : /\ Promise!PostableLine(x) <=> PostableLine(x)
             /\ L!PostableLine(x) <=> PostableLine(x)
  BY DEF Promise!PostableLine, L!PostableLine, PostableLine,
         Promise!DraftLine, L!DraftLine, DraftLine
<1>. QED
  BY <1>1, <1>2, <1>3 DEF Promise!Postable, L!Postable, Postable

LEMMA SameAbsent == Promise!AbsentRow = AbsentRow /\ L!AbsentRow = AbsentRow
BY SameDraft DEF Promise!AbsentRow, L!AbsentRow, AbsentRow

LEMMA SameInit == Promise!LedgerInit <=> L!LedgerInit
BY SameAbsent DEF Promise!LedgerInit, L!LedgerInit

LEMMA SameNext == [Promise!LedgerNext]_(Promise!ledgerVars) <=> [L!LedgerNext]_(L!ledgerVars)
<1>1. \A e, d, l : Promise!CreateDraft(e, d, l) <=> L!CreateDraft(e, d, l)
  BY SameDraft DEF Promise!CreateDraft, L!CreateDraft
<1>2. \A d, y : Promise!OpenIn(d, y) <=> L!OpenIn(d, y)
  BY DEF Promise!OpenIn, L!OpenIn
<1>3. \A e, y : Promise!Post(e, y) <=> L!Post(e, y)
  BY <1>2, SamePosted, SamePostable DEF Promise!Post, L!Post
<1>4. \A e, d, l, y : Promise!PostOpening(e, d, l, y) <=> L!PostOpening(e, d, l, y)
  BY <1>2, SameDraft, SamePosted, SamePostable
     DEF Promise!PostOpening, L!PostOpening, Promise!NoOpeningOn, L!NoOpeningOn
<1>5. \A o, r, y : Promise!ReverseJournal(o, r, y) <=> L!ReverseJournal(o, r, y)
  BY <1>2, SameDraft, SamePosted, SameMirror DEF Promise!ReverseJournal, L!ReverseJournal
<1>6. \A p : Promise!ChangePeriod(p) <=> L!ChangePeriod(p)
  BY DEF Promise!ChangePeriod, L!ChangePeriod
<1>7. Promise!ledgerVars = L!ledgerVars
  BY DEF Promise!ledgerVars, L!ledgerVars
<1>8. Promise!LedgerNext <=> L!LedgerNext
  BY <1>1, <1>3, <1>4, <1>5, <1>6, Zenon DEF Promise!LedgerNext, L!LedgerNext
<1>9. UNCHANGED Promise!ledgerVars <=> UNCHANGED L!ledgerVars
  BY DEF Promise!ledgerVars, L!ledgerVars
<1>. QED
  BY <1>8, <1>9

LEMMA InitImplements == Init => Promise!LedgerInit
<1>1. Init => Issued = [y \in Years |-> 0]
  BY DEF Init, Issued
<1>. QED
  BY <1>1, SameAbsent DEF Init, Promise!LedgerInit

\* The period that the transaction holds is open for the date it posts to.
LEMMA CommitOpen ==
  ASSUME JournalInv, NEW t \in Txns, Commit(t)
  PROVE  Promise!OpenIn(tx[t].row.date, YearOf(t))
<1> DEFINE p == tx[t].period
<1>1. /\ p \in Periods /\ tx[t].row.date \in Covers[p]
      /\ FiscalYear[p] = YearOf(t) /\ period[p] = "OPEN"
  BY CommitFacts
<1>. QED
  BY <1>1 DEF Promise!OpenIn

\* A commit gives out the next number of its year.
LEMMA CommitIssues ==
  ASSUME JournalInv, NEW t \in Txns, Commit(t)
  PROVE  /\ Issued' = [Issued EXCEPT ![YearOf(t)] = @ + 1]
         /\ Issued'[YearOf(t)] = NextNumber(YearOf(t))
<1> DEFINE y == YearOf(t)
<1>1. y \in Years /\ tx[t].row.number = NextNumber(y) /\ NextNumber(y) \in Nat
  BY CommitFacts
<1>2. sequence' = [sequence EXCEPT ![y] = NextNumber(y) + 1]
  BY <1>1, CommitEffect
<1>3. sequence \in [Years -> Nat]
  BY DEF JournalInv, TypeOK
<1>4. /\ sequence'[y] = NextNumber(y) + 1
      /\ \A z \in Years \ {y} : sequence'[z] = sequence[z]
  BY <1>1, <1>2, <1>3
<1>5. Issued'[y] = NextNumber(y)
  BY <1>1, <1>4 DEF Issued
<1>6. Issued[y] + 1 = NextNumber(y)
  BY <1>1, <1>3 DEF Issued, NextNumber
<1>7. \A z \in Years \ {y} : Issued'[z] = Issued[z]
  BY <1>4 DEF Issued
<1>8. /\ Issued = [z \in Years |-> Issued[z]]
      /\ Issued' = [z \in Years |-> Issued'[z]]
  BY DEF Issued
<1>9. Issued' = [Issued EXCEPT ![y] = @ + 1]
  BY <1>1, <1>5, <1>6, <1>7, <1>8
<1>. QED
  BY <1>5, <1>9

\* A commit is a posting, an opening balance or a reversal of the ledger.
LEMMA CommitImplements ==
  ASSUME JournalInv, NEW t \in Txns, Commit(t)
  PROVE  Promise!LedgerNext
<1> DEFINE e == tx[t].entry
           o == tx[t].original
           row == tx[t].row
           y == YearOf(t)
<1>1. PICK b \in Row : /\ DraftFor(e, o, b)
                       /\ row = Posted(b, y, NextNumber(y))
                       /\ row.date = b.date /\ row.lines = b.lines
                       /\ row.source = b.source
  BY CommitFacts
<1>2. e \in Entries /\ y \in Years /\ Postable(row.lines)
  BY CommitFacts
<1>3. Promise!OpenIn(row.date, y)
  BY CommitOpen
<1>4. /\ Issued' = [Issued EXCEPT ![y] = @ + 1]
      /\ row = Posted(b, y, Issued'[y])
  BY <1>1, CommitIssues
<1>5. period' = period
  BY DEF Commit
<1>6. CASE o = NoEntry /\ entry[e].status = "DRAFT" /\ b = entry[e]
  <2>1. entry' = [entry EXCEPT ![e] = row] /\ reversals' = reversals
    BY <1>6, CommitEffect, JournalAssumption
  <2>2. Promise!Post(e, y)
    BY <1>1, <1>2, <1>3, <1>4, <1>5, <1>6, <2>1, SamePosted, SamePostable
       DEF Promise!Post
  <2>. QED
    BY <1>2, <2>2 DEF Promise!LedgerNext
<1>7. ASSUME o = NoEntry, entry[e].status = "ABSENT",
             NEW d \in Dates, NEW l \in LineSets, b = Draft(d, "OPENING_BALANCE", l)
      PROVE  Promise!LedgerNext
  <2>1. entry' = [entry EXCEPT ![e] = row] /\ reversals' = reversals
    BY <1>7, CommitEffect, JournalAssumption
  <2>2. row.date = d /\ row.lines = l /\ row.source = "OPENING_BALANCE"
    BY <1>1, <1>7, DraftType, BooksAssumption DEF Source
  <2>3. Promise!NoOpeningOn(d)
    BY <2>2 DEF Commit, DuplicateOpening, Promise!NoOpeningOn
  <2>4. Promise!PostOpening(e, d, l, y)
    BY <1>2, <1>3, <1>4, <1>5, <1>7, <2>1, <2>2, <2>3, SameDraft, SamePosted, SamePostable
       DEF Promise!PostOpening
  <2>. QED
    BY <1>2, <1>7, <2>4 DEF Promise!LedgerNext
<1>8. CASE /\ o \in Entries \ {e} /\ entry[o].status = "POSTED"
           /\ entry[e].status = "ABSENT"
           /\ b = Draft(entry[o].date, "JOURNAL_REVERSAL", Mirror(entry[o].lines))
  <2>1. /\ entry' = [entry EXCEPT ![e] = row, ![o].status = "REVERSED"]
        /\ reversals' = reversals \union {<<o, e>>}
    BY <1>8, CommitEffect, JournalAssumption
  <2>2. entry[o].date \in Dates /\ entry[o].lines \in Seq(Line)
    BY <1>8 DEF JournalInv, TypeOK, Row
  <2>3. row.date = entry[o].date
    BY <1>1, <1>8, <2>2, MirrorType, DraftType DEF Source
  <2>4. entry' = [entry EXCEPT ![o].status = "REVERSED", ![e] = row]
    BY <1>2, <1>8, <2>1 DEF JournalInv, TypeOK
  <2>5. Promise!ReverseJournal(o, e, y)
    BY <1>3, <1>4, <1>5, <1>8, <2>1, <2>3, <2>4, SameDraft, SamePosted, SameMirror
       DEF Promise!ReverseJournal
  <2>. QED
    BY <1>2, <1>8, <2>5 DEF Promise!LedgerNext
<1>. QED
  BY <1>1, <1>6, <1>7, <1>8 DEF DraftFor

\* Every step of Journal is a step of Ledger or leaves the books alone.
LEMMA StepImplements ==
  JournalInv /\ [Next]_vars => [Promise!LedgerNext]_(Promise!ledgerVars)
<1> SUFFICES ASSUME JournalInv, [Next]_vars
             PROVE  [Promise!LedgerNext]_(Promise!ledgerVars)
  OBVIOUS
<1>1. ASSUME UNCHANGED <<period, entry, sequence, reversals>>
      PROVE  UNCHANGED Promise!ledgerVars
  BY <1>1 DEF Promise!ledgerVars, Issued
<1>2. ASSUME NEW t \in Txns, Begin(t) PROVE UNCHANGED Promise!ledgerVars
  BY <1>1, <1>2 DEF Begin, BeginPost, BeginOpening, BeginReverse
<1>3. ASSUME NEW t \in Txns,
             LockPeriod(t) \/ CheckLines(t) \/ TakeNumber(t) \/ Refuse(t) \/ Crash(t)
      PROVE  UNCHANGED Promise!ledgerVars
  <2>1. UNCHANGED <<account, period, entry, sequence, reversals>>
    BY <1>3, Zenon DEF LockPeriod, CheckLines, TakeNumber, Refuse, Crash
  <2>. QED
    BY <1>1, <2>1
<1>4. ASSUME NEW t \in Txns, Commit(t) PROVE Promise!LedgerNext
  BY <1>4, CommitImplements
<1>5. ASSUME NEW e \in Entries, NEW d \in Dates, NEW l \in LineSets,
             CreateDraft(e, d, l)
      PROVE  Promise!LedgerNext
  <2>1. Issued' = Issued
    BY <1>5 DEF CreateDraft, Issued
  <2>2. Promise!CreateDraft(e, d, l)
    BY <1>5, <2>1, SameDraft DEF CreateDraft, Promise!CreateDraft
  <2>. QED
    BY <2>2 DEF Promise!LedgerNext
<1>6. ASSUME NEW a \in Accounts, SetAccountActive(a)
      PROVE  UNCHANGED Promise!ledgerVars
  BY <1>1, <1>6 DEF SetAccountActive
<1>7. ASSUME NEW p \in Periods,
             \/ CreatePeriod(p) \/ ReopenPeriod(p)
             \/ SetPeriodStatus(p, "SOFT_CLOSED") \/ SetPeriodStatus(p, "CLOSED")
      PROVE  Promise!LedgerNext
  <2>1. Issued' = Issued
    BY <1>7 DEF CreatePeriod, ReopenPeriod, SetPeriodStatus, Issued
  <2>2. Promise!ChangePeriod(p)
    BY <1>7, <2>1 DEF CreatePeriod, ReopenPeriod, SetPeriodStatus, Promise!ChangePeriod
  <2>. QED
    BY <2>2 DEF Promise!LedgerNext
<1>8. ASSUME UNCHANGED vars PROVE UNCHANGED Promise!ledgerVars
  BY <1>1, <1>8 DEF vars
<1>. QED
  BY <1>2, <1>3, <1>4, <1>5, <1>6, <1>7, <1>8 DEF Next, Step

(***************************************************************************)
(* The theorems.                                                           *)
(***************************************************************************)

\* Seen from outside every posting transaction is one atomic operation on the
\* books, however many of them interleave and whichever of them fail.
THEOREM JournalImplements == Spec => ImplementsLedger
<1>1. Init => Promise!LedgerInit
  BY InitImplements
<1>2. JournalInv /\ [Next]_vars => [Promise!LedgerNext]_(Promise!ledgerVars)
  BY StepImplements
<1>. QED
  BY <1>1, <1>2, JournalSound, PTL DEF Spec, ImplementsLedger, Promise!LedgerSpec

LEMMA JournalLedger == Spec => L!LedgerSpec
<1>1. Init => L!LedgerInit
  BY InitImplements, SameInit
<1>2. JournalInv /\ [Next]_vars => [L!LedgerNext]_(L!ledgerVars)
  BY StepImplements, SameNext
<1>. QED
  BY <1>1, <1>2, JournalSound, PTL DEF Spec, L!LedgerSpec

\* Concurrent postings, refusals and crashes leave neither gaps nor duplicates
\* in the numbers of a fiscal year.
THEOREM JournalGapless == Spec => []GaplessNumbers
<1>1. L!LedgerSpec => []L!GaplessNumbers
  BY L!LedgerGapless, SameAssumption
<1>2. L!GaplessNumbers => GaplessNumbers
  BY DEF GaplessNumbers, L!GaplessNumbers, Promise!GaplessNumbers,
         L!NumberedIn, Promise!NumberedIn, L!InBooks, Promise!InBooks
<1>. QED
  BY <1>1, <1>2, JournalLedger, PTL

\* Racing reversals of an entry leave exactly one mirror of it in the books.
THEOREM JournalReversals == Spec => []ReversalsMatch
<1>1. L!LedgerSpec => []L!ReversalsMatch
  BY L!LedgerReversals, SameAssumption
<1>2. L!ReversalsMatch => ReversalsMatch
  BY DEF ReversalsMatch, L!ReversalsMatch, Promise!ReversalsMatch,
         L!InBooks, Promise!InBooks, L!Mirror, Promise!Mirror
<1>. QED
  BY <1>1, <1>2, JournalLedger, PTL

\* Racing opening balances of a date leave at most one.
THEOREM JournalOpenings == Spec => []OneOpeningPerDate
<1>1. L!LedgerSpec => []L!OneOpeningPerDate
  BY L!LedgerOpenings, SameAssumption
<1>2. L!OneOpeningPerDate => OneOpeningPerDate
  BY DEF OneOpeningPerDate, L!OneOpeningPerDate, Promise!OneOpeningPerDate
<1>. QED
  BY <1>1, <1>2, JournalLedger, PTL

\* Racing requests never alter, renumber or remove what is in the books.
THEOREM JournalImmutable == Spec => BooksAreImmutable
<1>1. L!LedgerSpec => L!BooksAreImmutable
  BY L!LedgerImmutable, SameAssumption
<1>2. L!BooksAreImmutable => BooksAreImmutable
  BY DEF BooksAreImmutable, L!BooksAreImmutable, Promise!BooksAreImmutable,
         L!InBooks, Promise!InBooks, L!ledgerVars, Promise!ledgerVars
<1>. QED
  BY <1>1, <1>2, JournalLedger, PTL

\* Where periods do not overlap, no entry enters the books while a period of its
\* date is closed, not even one that is closed while the posting is under way.
THEOREM JournalPeriods ==
  ASSUME PeriodsDisjoint
  PROVE  Spec => NoPostingIntoClosedPeriod
<1> DEFINE Enters(e) == ~InBooks(entry[e]) /\ InBooks(entry'[e])
           Open(e) == \A p \in Covering(entry'[e].date) : period[p] = "OPEN"
<1>1. JournalInv /\ [Next]_vars => \A e \in Entries : Enters(e) => Open(e)
  <2> SUFFICES ASSUME JournalInv, [Next]_vars, NEW e \in Entries, Enters(e)
               PROVE  Open(e)
    OBVIOUS
  <2>1. ASSUME NEW t \in Txns, Commit(t) PROVE Open(e)
    <3> DEFINE row == tx[t].row
               o == tx[t].original
    <3>1. /\ tx[t].period \in Periods /\ row.date \in Covers[tx[t].period]
          /\ period[tx[t].period] = "OPEN"
      BY <2>1, CommitFacts
    <3>2. /\ entry \in [Entries -> Row] /\ tx[t].entry \in Entries
          /\ \/ o = NoEntry /\ entry' = [entry EXCEPT ![tx[t].entry] = row]
             \/ /\ o \in Entries /\ o # tx[t].entry
                /\ entry[o].status = "POSTED"
                /\ entry' = [entry EXCEPT ![tx[t].entry] = row, ![o].status = "REVERSED"]
      BY <2>1, CommitEffect, CommitFacts, JournalAssumption
         DEF JournalInv, TypeOK, DraftFor
    <3>3. e = tx[t].entry /\ entry'[e] = row
      BY <3>2 DEF InBooks
    <3>4. \A p \in Covering(row.date) : p = tx[t].period
      BY <3>1 DEF Covering, PeriodsDisjoint
    <3>. QED
      BY <3>1, <3>3, <3>4
  <2>2. ASSUME NEW f \in Entries, NEW d \in Dates, NEW l \in LineSets,
               CreateDraft(f, d, l)
        PROVE  FALSE
    <3>1. entry' = [entry EXCEPT ![f] = Draft(d, "MANUAL", l)]
      BY <2>2 DEF CreateDraft
    <3>2. ~InBooks(Draft(d, "MANUAL", l))
      BY DEF Draft, InBooks
    <3>. QED
      BY <3>1, <3>2 DEF JournalInv, TypeOK
  <2>3. entry' = entry => FALSE
    OBVIOUS
  <2>4. ASSUME NEW t \in Txns,
               \/ Begin(t) \/ LockPeriod(t) \/ CheckLines(t) \/ TakeNumber(t)
               \/ Refuse(t) \/ Crash(t)
        PROVE  entry' = entry
    BY <2>4, Zenon DEF Begin, BeginPost, BeginOpening, BeginReverse, LockPeriod,
       CheckLines, TakeNumber, Refuse, Crash
  <2>5. ASSUME \/ \E a \in Accounts : SetAccountActive(a)
               \/ \E p \in Periods : \/ CreatePeriod(p) \/ ReopenPeriod(p)
                                     \/ SetPeriodStatus(p, "SOFT_CLOSED")
                                     \/ SetPeriodStatus(p, "CLOSED")
               \/ UNCHANGED vars
        PROVE  entry' = entry
    BY <2>5 DEF SetAccountActive, CreatePeriod, ReopenPeriod, SetPeriodStatus, vars
  <2>. QED
    BY <2>1, <2>2, <2>3, <2>4, <2>5 DEF Next, Step
<1>2. JournalInv /\ [Next]_vars
        => [\A e \in Entries :
              ~InBooks(entry[e]) /\ InBooks(entry'[e]) =>
                \A p \in Covering(entry'[e].date) : period[p] = "OPEN"]_vars
  BY <1>1
<1>. QED
  BY <1>2, JournalSound, PTL DEF Spec, NoPostingIntoClosedPeriod

\* When fiscal years start in different calendar years, an entry that passed
\* every check of the posting flow is never refused for its number.
THEOREM JournalNumbers ==
  ASSUME StartYearsDiffer
  PROVE  Spec => []NumberIsFree
<1>1. JournalInv /\ GaplessNumbers => NumberIsFree
  <2> SUFFICES ASSUME JournalInv, GaplessNumbers,
                      NEW t \in Txns, tx[t].phase = "numbered",
                      NEW e \in Entries, InBooks(entry[e]),
                      EntryNumber(entry[e]) = EntryNumber(tx[t].row)
               PROVE  FALSE
    BY DEF NumberIsFree, DuplicateNumber
  <2> DEFINE y == YearOf(t)
  <2>1. /\ y \in Years /\ tx[t].row.year = y
        /\ tx[t].row.number = NextNumber(y) /\ NextNumber(y) \in Nat
    BY NumberedFacts
  <2>2. entry[e].year \in Years /\ sequence \in [Years -> Nat]
    BY DEF JournalInv, TypeOK, Row
  <2>3. entry[e].year = y /\ entry[e].number = NextNumber(y)
    BY <2>1, <2>2 DEF EntryNumber, StartYearsDiffer
  <2>4. entry[e].number \in 1 .. Issued[y]
    BY <2>1, <2>3 DEF GaplessNumbers, Promise!GaplessNumbers, Promise!NumberedIn,
       Promise!InBooks, InBooks
  <2>. QED
    BY <2>1, <2>2, <2>3, <2>4 DEF Issued, NextNumber
<1>. QED
  BY <1>1, JournalSound, JournalGapless, PTL
=============================================================================
