---------------------------- MODULE LedgerProofs ----------------------------
(***************************************************************************)
(* Proofs about Ledger, for every set of entries, accounts, dates, fiscal  *)
(* years and periods.                                                      *)
(***************************************************************************)
EXTENDS Ledger, TLAPS

(***************************************************************************)
(* Lines and rows.                                                         *)
(***************************************************************************)

\* The mirror of a list of lines is a list of lines of the same length.
LEMMA MirrorType ==
  ASSUME NEW lines \in Seq(Line)
  PROVE  Mirror(lines) \in Seq(Line) /\ DOMAIN Mirror(lines) = DOMAIN lines
<1>1. \A i \in DOMAIN lines : lines[i] \in Line
  OBVIOUS
<1>2. Mirror(lines) \in [1 .. Len(lines) -> Line]
  BY <1>1 DEF Mirror, Line
<1>. QED
  BY <1>2 DEF Mirror

\* Mirroring swaps the totals, so a list that may be posted has a mirror that
\* may be posted: a reversal never fails its own line checks.
LEMMA MirrorPostable ==
  ASSUME NEW lines \in Seq(Line), Postable(lines)
  PROVE  Postable(Mirror(lines))
<1> DEFINE m == Mirror(lines)
<1>1. /\ m \in Seq(Line) /\ DOMAIN m = DOMAIN lines /\ Len(m) = Len(lines)
  BY MirrorType
<1>2. \A i \in DOMAIN m : m[i].debit = lines[i].credit /\ m[i].credit = lines[i].debit
  BY DEF Mirror
<1>3. [i \in DOMAIN m |-> m[i].debit] = [i \in DOMAIN lines |-> lines[i].credit]
  BY <1>1, <1>2
<1>4. [i \in DOMAIN m |-> m[i].credit] = [i \in DOMAIN lines |-> lines[i].debit]
  BY <1>1, <1>2
<1>5. DebitTotal(m) = CreditTotal(lines) /\ CreditTotal(m) = DebitTotal(lines)
  BY <1>3, <1>4, Zenon DEF DebitTotal, CreditTotal
<1>6. Balanced(m)
  BY <1>1, <1>5 DEF Balanced, Postable
<1>7. \A i \in DOMAIN m : PostableLine(m[i])
  BY <1>1, <1>2 DEF Postable, PostableLine, DraftLine
<1>. QED
  BY <1>6, <1>7 DEF Postable

\* A row that is inserted, field by field.
LEMMA DraftType ==
  ASSUME NEW date \in Dates, NEW source \in Source, NEW lines \in Seq(Line)
  PROVE  /\ Draft(date, source, lines) \in Row
         /\ Draft(date, source, lines).status = "DRAFT"
         /\ Draft(date, source, lines).date = date
         /\ Draft(date, source, lines).source = source
         /\ Draft(date, source, lines).lines = lines
<1>1. (CHOOSE y \in Years : TRUE) \in Years
  BY BooksAssumption
<1>. QED
  BY <1>1 DEF Draft, Row, EntryStatus

\* A row that is posted, field by field.
LEMMA PostedType ==
  ASSUME NEW row \in Row, NEW y \in Years, NEW n \in Nat
  PROVE  /\ Posted(row, y, n) \in Row
         /\ Posted(row, y, n).status = "POSTED"
         /\ Posted(row, y, n).year = y /\ Posted(row, y, n).number = n
         /\ Posted(row, y, n).date = row.date
         /\ Posted(row, y, n).source = row.source
         /\ Posted(row, y, n).lines = row.lines
BY DEF Posted, Row, EntryStatus

(***************************************************************************)
(* Types.                                                                  *)
(***************************************************************************)

LEMMA AbsentRowType == AbsentRow \in Row /\ AbsentRow.status = "ABSENT"
<1>1. (CHOOSE d \in Dates : TRUE) \in Dates
  BY BooksAssumption
<1>2. /\ "MANUAL" \in Source
      /\ <<>> \in Seq(Line)
  BY DEF Source
<1>3. Draft(CHOOSE d \in Dates : TRUE, "MANUAL", <<>>) \in Row
  BY <1>1, <1>2, DraftType
<1>. QED
  BY <1>3 DEF AbsentRow, Row, EntryStatus

\* Every table of the ledger always holds rows of its own shape.
THEOREM LedgerTypeCorrect == LedgerSpec => []LedgerTypeOK
<1>1. LedgerInit => LedgerTypeOK
  BY AbsentRowType DEF LedgerInit, LedgerTypeOK, PeriodStatus
<1>2. LedgerTypeOK /\ [LedgerNext]_ledgerVars => LedgerTypeOK'
  <2> SUFFICES ASSUME LedgerTypeOK, [LedgerNext]_ledgerVars PROVE LedgerTypeOK'
    OBVIOUS
  <2> USE DEF LedgerTypeOK
  <2>1. ASSUME NEW e \in Entries, NEW d \in Dates, NEW l \in LineSets,
               CreateDraft(e, d, l)
        PROVE  LedgerTypeOK'
    <3>1. Draft(d, "MANUAL", l) \in Row
      BY DraftType, BooksAssumption DEF Source
    <3>. QED
      BY <2>1, <3>1 DEF CreateDraft
  <2>2. ASSUME NEW e \in Entries, NEW y \in Years, Post(e, y)
        PROVE  LedgerTypeOK'
    <3>1. issued' \in [Years -> Nat] /\ issued'[y] \in Nat
      BY <2>2 DEF Post
    <3>2. Posted(book[e], y, issued'[y]) \in Row
      BY <3>1, PostedType
    <3>. QED
      BY <2>2, <3>1, <3>2 DEF Post
  <2>3. ASSUME NEW e \in Entries, NEW d \in Dates, NEW l \in LineSets,
               NEW y \in Years, PostOpening(e, d, l, y)
        PROVE  LedgerTypeOK'
    <3>1. issued' \in [Years -> Nat] /\ issued'[y] \in Nat
      BY <2>3 DEF PostOpening
    <3>2. Draft(d, "OPENING_BALANCE", l) \in Row
      BY DraftType, BooksAssumption DEF Source
    <3>3. Posted(Draft(d, "OPENING_BALANCE", l), y, issued'[y]) \in Row
      BY <3>1, <3>2, PostedType
    <3>. QED
      BY <2>3, <3>1, <3>3 DEF PostOpening
  <2>4. ASSUME NEW o \in Entries, NEW r \in Entries, NEW y \in Years,
               ReverseJournal(o, r, y)
        PROVE  LedgerTypeOK'
    <3>1. issued' \in [Years -> Nat] /\ issued'[y] \in Nat
      BY <2>4 DEF ReverseJournal
    <3>2. book[o].date \in Dates /\ book[o].lines \in Seq(Line)
      BY DEF Row
    <3>3. Mirror(book[o].lines) \in Seq(Line)
      BY <3>2, MirrorType
    <3>4. Draft(book[o].date, "JOURNAL_REVERSAL", Mirror(book[o].lines)) \in Row
      BY <3>2, <3>3, DraftType DEF Source
    <3>5. Posted(Draft(book[o].date, "JOURNAL_REVERSAL", Mirror(book[o].lines)),
                 y, issued'[y]) \in Row
      BY <3>1, <3>4, PostedType
    <3>6. [book[o] EXCEPT !.status = "REVERSED"] \in Row
      BY DEF Row, EntryStatus
    <3>7. book' \in [Entries -> Row]
      BY <2>4, <3>5, <3>6 DEF ReverseJournal
    <3>. QED
      BY <2>4, <3>1, <3>7 DEF ReverseJournal
  <2>5. ASSUME NEW p \in Periods, ChangePeriod(p)
        PROVE  LedgerTypeOK'
    BY <2>5 DEF ChangePeriod, PeriodStatus
  <2>6. ASSUME UNCHANGED ledgerVars
        PROVE  LedgerTypeOK'
    BY <2>6 DEF ledgerVars
  <2>. QED
    BY <2>1, <2>2, <2>3, <2>4, <2>5, <2>6 DEF LedgerNext
<1>. QED
  BY <1>1, <1>2, PTL DEF LedgerSpec

(***************************************************************************)
(* Numbers.  Seen from the numbering a step either lets one entry enter    *)
(* the books with the next number of a year, or is quiet.                  *)
(***************************************************************************)
SameNumber(e) ==
  /\ InBooks(book'[e]) <=> InBooks(book[e])
  /\ InBooks(book[e]) =>
       book'[e].year = book[e].year /\ book'[e].number = book[e].number

Enters(e, y) ==
  /\ ~InBooks(book[e]) /\ InBooks(book'[e])
  /\ book'[e].year = y /\ book'[e].number = issued[y] + 1
  /\ issued' = [issued EXCEPT ![y] = @ + 1]
  /\ \A f \in Entries \ {e} : SameNumber(f)

Quiet == issued' = issued /\ \A f \in Entries : SameNumber(f)

\* Every step of the ledger is of one of the two kinds.
LEMMA StepKinds ==
  ASSUME LedgerTypeOK, [LedgerNext]_ledgerVars
  PROVE  Quiet \/ \E e \in Entries, y \in Years : Enters(e, y)
<1> USE DEF LedgerTypeOK
<1>1. ASSUME NEW e \in Entries, NEW d \in Dates, NEW l \in LineSets,
             CreateDraft(e, d, l)
      PROVE  Quiet
  <2>1. Draft(d, "MANUAL", l).status = "DRAFT"
    BY DEF Draft
  <2>. QED
    BY <1>1, <2>1 DEF CreateDraft, Quiet, SameNumber, InBooks
<1>2. ASSUME NEW e \in Entries, NEW y \in Years, Post(e, y)
      PROVE  Enters(e, y)
  <2>1. issued'[y] = issued[y] + 1 /\ issued'[y] \in Nat
    BY <1>2 DEF Post
  <2>2. book'[e] = Posted(book[e], y, issued'[y])
    BY <1>2 DEF Post
  <2>3. /\ book'[e].status = "POSTED" /\ book'[e].year = y
        /\ book'[e].number = issued[y] + 1
    BY <2>1, <2>2, PostedType
  <2>. QED
    BY <1>2, <2>3 DEF Post, Enters, SameNumber, InBooks
<1>3. ASSUME NEW e \in Entries, NEW d \in Dates, NEW l \in LineSets,
             NEW y \in Years, PostOpening(e, d, l, y)
      PROVE  Enters(e, y)
  <2>1. issued'[y] = issued[y] + 1 /\ issued'[y] \in Nat
    BY <1>3 DEF PostOpening
  <2>2. Draft(d, "OPENING_BALANCE", l) \in Row
    BY DraftType, BooksAssumption DEF Source
  <2>3. book'[e] = Posted(Draft(d, "OPENING_BALANCE", l), y, issued'[y])
    BY <1>3 DEF PostOpening
  <2>4. /\ book'[e].status = "POSTED" /\ book'[e].year = y
        /\ book'[e].number = issued[y] + 1
    BY <2>1, <2>2, <2>3, PostedType
  <2>. QED
    BY <1>3, <2>4 DEF PostOpening, Enters, SameNumber, InBooks
<1>4. ASSUME NEW o \in Entries, NEW r \in Entries, NEW y \in Years,
             ReverseJournal(o, r, y)
      PROVE  Enters(r, y)
  <2> DEFINE draft == Draft(book[o].date, "JOURNAL_REVERSAL", Mirror(book[o].lines))
  <2>1. issued'[y] = issued[y] + 1 /\ issued'[y] \in Nat
    BY <1>4 DEF ReverseJournal
  <2>2. book[o].date \in Dates /\ book[o].lines \in Seq(Line)
    BY DEF Row
  <2>3. draft \in Row
    BY <2>2, MirrorType, DraftType DEF Source
  <2>4. book'[r] = Posted(draft, y, issued'[y])
    BY <1>4 DEF ReverseJournal
  <2>5. /\ book'[r].status = "POSTED" /\ book'[r].year = y
        /\ book'[r].number = issued[y] + 1
    BY <2>1, <2>3, <2>4, PostedType
  <2>6. o # r /\ book'[o] = [book[o] EXCEPT !.status = "REVERSED"]
    BY <1>4 DEF ReverseJournal
  <2>7. SameNumber(o)
    BY <1>4, <2>6 DEF ReverseJournal, SameNumber, InBooks, Row
  <2>8. \A f \in Entries \ {o, r} : book'[f] = book[f]
    BY <1>4 DEF ReverseJournal
  <2>. QED
    BY <1>4, <2>5, <2>7, <2>8 DEF ReverseJournal, Enters, SameNumber, InBooks
<1>5. ASSUME NEW p \in Periods, ChangePeriod(p) PROVE Quiet
  BY <1>5 DEF ChangePeriod, Quiet, SameNumber
<1>6. ASSUME UNCHANGED ledgerVars PROVE Quiet
  BY <1>6 DEF ledgerVars, Quiet, SameNumber
<1>. QED
  BY <1>1, <1>2, <1>3, <1>4, <1>5, <1>6 DEF LedgerNext

LEMMA EntersKeepsNumbers ==
  ASSUME LedgerTypeOK, LedgerTypeOK', GaplessNumbers,
         NEW e \in Entries, NEW y \in Years, Enters(e, y)
  PROVE  GaplessNumbers'
<1>1. e \notin NumberedIn(y)
  BY DEF Enters, NumberedIn
<1>2. /\ issued[y] \in Nat /\ issued'[y] = issued[y] + 1
      /\ \A z \in Years \ {y} : issued'[z] = issued[z]
  BY DEF Enters, LedgerTypeOK
<1>3. NumberedIn(y)' = NumberedIn(y) \union {e}
  BY DEF Enters, NumberedIn, SameNumber
<1>4. \A z \in Years \ {y} : NumberedIn(z)' = NumberedIn(z)
  BY DEF Enters, NumberedIn, SameNumber
<1>5. \A z \in Years : \A f \in NumberedIn(z) : book'[f].number = book[f].number
  BY DEF Enters, NumberedIn, SameNumber
<1>6. ASSUME NEW z \in Years \ {y}
      PROVE  /\ {book'[f].number : f \in NumberedIn(z)'} = 1 .. issued'[z]
             /\ \A f, g \in NumberedIn(z)' :
                  book'[f].number = book'[g].number => f = g
  <2>1. {book'[f].number : f \in NumberedIn(z)'}
          = {book[f].number : f \in NumberedIn(z)}
    BY <1>4, <1>5
  <2>. QED
    BY <2>1, <1>2, <1>4, <1>5 DEF GaplessNumbers
<1>7. /\ {book'[f].number : f \in NumberedIn(y)'} = 1 .. issued'[y]
      /\ \A f, g \in NumberedIn(y)' : book'[f].number = book'[g].number => f = g
  <2>1. {book'[f].number : f \in NumberedIn(y)'}
          = {book[f].number : f \in NumberedIn(y)} \union {issued[y] + 1}
    BY <1>3, <1>5 DEF Enters
  <2>2. {book[f].number : f \in NumberedIn(y)} = 1 .. issued[y]
    BY DEF GaplessNumbers
  <2>3. \A f \in NumberedIn(y) : book[f].number \in 1 .. issued[y]
    BY <2>2
  <2>4. (1 .. issued[y]) \union {issued[y] + 1} = 1 .. (issued[y] + 1)
    BY <1>2
  <2>5. {book'[f].number : f \in NumberedIn(y)'} = 1 .. issued'[y]
    BY <2>1, <2>2, <2>4, <1>2
  <2>6. book'[e].number = issued[y] + 1
    BY DEF Enters
  <2>7. \A f \in NumberedIn(y) : book'[f].number # book'[e].number
    BY <2>3, <2>6, <1>2, <1>5
  <2>8. \A f, g \in NumberedIn(y) : book'[f].number = book'[g].number => f = g
    BY <1>5 DEF GaplessNumbers
  <2>. QED
    BY <2>5, <2>7, <2>8, <1>3
<1>. QED
  BY <1>6, <1>7 DEF GaplessNumbers

LEMMA QuietKeepsNumbers ==
  ASSUME GaplessNumbers, Quiet
  PROVE  GaplessNumbers'
<1>1. \A z \in Years : NumberedIn(z)' = NumberedIn(z)
  BY DEF Quiet, NumberedIn, SameNumber
<1>2. \A z \in Years : \A f \in NumberedIn(z) : book'[f].number = book[f].number
  BY DEF Quiet, NumberedIn, SameNumber
<1>3. ASSUME NEW z \in Years
      PROVE  {book'[f].number : f \in NumberedIn(z)'}
               = {book[f].number : f \in NumberedIn(z)}
  BY <1>1, <1>2
<1>. QED
  BY <1>1, <1>2, <1>3 DEF GaplessNumbers, Quiet

\* The entry numbers of every fiscal year are 1, 2, ... without a gap or a
\* duplicate, whatever is posted, reversed, opened and closed.
THEOREM LedgerGapless == LedgerSpec => []GaplessNumbers
<1>1. LedgerInit => GaplessNumbers
  <2> SUFFICES ASSUME LedgerInit PROVE GaplessNumbers
    OBVIOUS
  <2>1. \A y \in Years : NumberedIn(y) = {}
    BY AbsentRowType DEF LedgerInit, NumberedIn, InBooks
  <2>2. \A y \in Years : 1 .. issued[y] = {}
    BY DEF LedgerInit
  <2>3. \A y \in Years : {book[e].number : e \in NumberedIn(y)} = {}
    BY <2>1
  <2>. QED
    BY <2>1, <2>2, <2>3 DEF GaplessNumbers
<1>2. LedgerTypeOK /\ LedgerTypeOK' /\ GaplessNumbers /\ [LedgerNext]_ledgerVars
        => GaplessNumbers'
  BY StepKinds, EntersKeepsNumbers, QuietKeepsNumbers
<1>. QED
  BY <1>1, <1>2, LedgerTypeCorrect, PTL DEF LedgerSpec

(***************************************************************************)
(* Balance.                                                                *)
(***************************************************************************)

\* Whatever was posted or reversed may be posted: two lines or more, one side
\* per line, equal totals.
THEOREM LedgerBalanced == LedgerSpec => []PostedBalanced
<1>1. LedgerInit => PostedBalanced
  BY AbsentRowType DEF LedgerInit, PostedBalanced, InBooks
<1>2. LedgerTypeOK /\ PostedBalanced /\ [LedgerNext]_ledgerVars => PostedBalanced'
  <2> SUFFICES ASSUME LedgerTypeOK, PostedBalanced, [LedgerNext]_ledgerVars
               PROVE  PostedBalanced'
    OBVIOUS
  <2> USE DEF LedgerTypeOK, PostedBalanced
  <2>1. ASSUME NEW e \in Entries, NEW d \in Dates, NEW l \in LineSets,
               CreateDraft(e, d, l)
        PROVE  PostedBalanced'
    <3>1. ~InBooks(Draft(d, "MANUAL", l))
      BY DEF Draft, InBooks
    <3>. QED
      BY <2>1, <3>1 DEF CreateDraft
  <2>2. ASSUME NEW e \in Entries, NEW y \in Years, Post(e, y)
        PROVE  PostedBalanced'
    <3>1. issued'[y] \in Nat
      BY <2>2 DEF Post
    <3>2. book'[e].lines = book[e].lines
      BY <2>2, <3>1, PostedType DEF Post
    <3>. QED
      BY <2>2, <3>2 DEF Post
  <2>3. ASSUME NEW e \in Entries, NEW d \in Dates, NEW l \in LineSets,
               NEW y \in Years, PostOpening(e, d, l, y)
        PROVE  PostedBalanced'
    <3>1. issued'[y] \in Nat
      BY <2>3 DEF PostOpening
    <3>2. /\ Draft(d, "OPENING_BALANCE", l) \in Row
          /\ Draft(d, "OPENING_BALANCE", l).lines = l
      BY DraftType, BooksAssumption DEF Source
    <3>3. book'[e].lines = l
      BY <2>3, <3>1, <3>2, PostedType DEF PostOpening
    <3>. QED
      BY <2>3, <3>3 DEF PostOpening
  <2>4. ASSUME NEW o \in Entries, NEW r \in Entries, NEW y \in Years,
               ReverseJournal(o, r, y)
        PROVE  PostedBalanced'
    <3> DEFINE draft == Draft(book[o].date, "JOURNAL_REVERSAL", Mirror(book[o].lines))
    <3>1. issued'[y] \in Nat
      BY <2>4 DEF ReverseJournal
    <3>2. book[o].date \in Dates /\ book[o].lines \in Seq(Line)
      BY DEF Row
    <3>3. draft \in Row /\ draft.lines = Mirror(book[o].lines)
      BY <3>2, MirrorType, DraftType DEF Source
    <3>4. book'[r] = Posted(draft, y, issued'[y])
      BY <2>4 DEF ReverseJournal
    <3>5. book'[r].lines = Mirror(book[o].lines)
      BY <3>1, <3>3, <3>4, PostedType
    <3>6. Postable(book[o].lines)
      BY <2>4 DEF ReverseJournal, InBooks
    <3>7. Postable(book'[r].lines)
      BY <3>2, <3>5, <3>6, MirrorPostable
    <3>8. o # r /\ book'[o] = [book[o] EXCEPT !.status = "REVERSED"]
      BY <2>4 DEF ReverseJournal
    <3>9. book'[o].lines = book[o].lines
      BY <3>8 DEF Row
    <3>10. \A f \in Entries \ {o, r} : book'[f] = book[f]
      BY <2>4 DEF ReverseJournal
    <3>. QED
      BY <3>6, <3>7, <3>9, <3>10
  <2>5. ASSUME NEW p \in Periods, ChangePeriod(p) PROVE PostedBalanced'
    BY <2>5 DEF ChangePeriod
  <2>6. ASSUME UNCHANGED ledgerVars PROVE PostedBalanced'
    BY <2>6 DEF ledgerVars
  <2>. QED
    BY <2>1, <2>2, <2>3, <2>4, <2>5, <2>6 DEF LedgerNext
<1>. QED
  BY <1>1, <1>2, LedgerTypeCorrect, PTL DEF LedgerSpec

(***************************************************************************)
(* Immutability, reversals and opening balances.                           *)
(***************************************************************************)

Immutable(e) ==
  InBooks(book[e]) =>
    /\ InBooks(book'[e])
    /\ [book'[e] EXCEPT !.status = book[e].status] = book[e]
    /\ book[e].status = "REVERSED" => book'[e].status = "REVERSED"

\* What a reversal does to the two rows it touches.
LEMMA ReverseEffect ==
  ASSUME LedgerTypeOK, NEW o \in Entries, NEW r \in Entries, NEW y \in Years,
         ReverseJournal(o, r, y)
  PROVE  /\ o # r
         /\ book'[o] = [book[o] EXCEPT !.status = "REVERSED"]
         /\ book'[o].status = "REVERSED"
         /\ book'[o].date = book[o].date /\ book'[o].lines = book[o].lines
         /\ book'[r].status = "POSTED" /\ book'[r].source = "JOURNAL_REVERSAL"
         /\ book'[r].date = book[o].date
         /\ book'[r].lines = Mirror(book[o].lines)
         /\ \A f \in Entries \ {o, r} : book'[f] = book[f]
<1> USE DEF LedgerTypeOK
<1> DEFINE draft == Draft(book[o].date, "JOURNAL_REVERSAL", Mirror(book[o].lines))
<1>1. issued'[y] \in Nat
  BY DEF ReverseJournal
<1>2. book[o].date \in Dates /\ book[o].lines \in Seq(Line)
  BY DEF Row
<1>3. /\ draft \in Row /\ draft.lines = Mirror(book[o].lines)
      /\ draft.date = book[o].date /\ draft.source = "JOURNAL_REVERSAL"
  BY <1>2, MirrorType, DraftType DEF Source
<1>4. book'[r] = Posted(draft, y, issued'[y])
  BY DEF ReverseJournal
<1>5. o # r /\ book'[o] = [book[o] EXCEPT !.status = "REVERSED"]
  BY DEF ReverseJournal
<1>6. /\ book'[o].status = "REVERSED"
      /\ book'[o].date = book[o].date /\ book'[o].lines = book[o].lines
  BY <1>5 DEF Row
<1>7. /\ book'[r].status = "POSTED" /\ book'[r].source = "JOURNAL_REVERSAL"
      /\ book'[r].date = book[o].date /\ book'[r].lines = Mirror(book[o].lines)
  BY <1>1, <1>3, <1>4, PostedType
<1>8. \A f \in Entries \ {o, r} : book'[f] = book[f]
  BY DEF ReverseJournal
<1>. QED
  BY <1>5, <1>6, <1>7, <1>8

\* What every step but a reversal does to the rows: one row that is not in the
\* books may change, and the reversals do not.
LEMMA OtherEffect ==
  ASSUME LedgerTypeOK, [LedgerNext]_ledgerVars,
         ~ \E o, r \in Entries, y \in Years : ReverseJournal(o, r, y)
  PROVE  /\ reversals' = reversals
         /\ \/ book' = book
            \/ \E e \in Entries :
                 /\ ~InBooks(book[e]) /\ book'[e].status # "REVERSED"
                 /\ \A f \in Entries \ {e} : book'[f] = book[f]
                 /\ \/ book'[e].status = "DRAFT" /\ book'[e].source = "MANUAL"
                    \/ /\ book[e].status = "DRAFT"
                       /\ book'[e].source = book[e].source
                    \/ book'[e].status = "POSTED" /\ NoOpeningOn(book'[e].date)
<1> USE DEF LedgerTypeOK
<1>1. ASSUME NEW e \in Entries, NEW d \in Dates, NEW l \in LineSets,
             CreateDraft(e, d, l)
      PROVE  /\ reversals' = reversals
             /\ ~InBooks(book[e])
             /\ \A f \in Entries \ {e} : book'[f] = book[f]
             /\ book'[e].status = "DRAFT" /\ book'[e].source = "MANUAL"
  BY <1>1 DEF CreateDraft, Draft, InBooks
<1>2. ASSUME NEW e \in Entries, NEW y \in Years, Post(e, y)
      PROVE  /\ reversals' = reversals
             /\ ~InBooks(book[e])
             /\ \A f \in Entries \ {e} : book'[f] = book[f]
             /\ book[e].status = "DRAFT" /\ book'[e].status = "POSTED"
             /\ book'[e].source = book[e].source
  <2>1. issued'[y] \in Nat
    BY <1>2 DEF Post
  <2>. QED
    BY <1>2, <2>1, PostedType DEF Post, InBooks
<1>3. ASSUME NEW e \in Entries, NEW d \in Dates, NEW l \in LineSets,
             NEW y \in Years, PostOpening(e, d, l, y)
      PROVE  /\ reversals' = reversals
             /\ ~InBooks(book[e])
             /\ \A f \in Entries \ {e} : book'[f] = book[f]
             /\ book'[e].status = "POSTED"
             /\ NoOpeningOn(book'[e].date)
  <2>1. issued'[y] \in Nat
    BY <1>3 DEF PostOpening
  <2>2. /\ Draft(d, "OPENING_BALANCE", l) \in Row
        /\ Draft(d, "OPENING_BALANCE", l).date = d
    BY DraftType, BooksAssumption DEF Source
  <2>3. book'[e].status = "POSTED" /\ book'[e].date = d
    BY <1>3, <2>1, <2>2, PostedType DEF PostOpening
  <2>. QED
    BY <1>3, <2>3 DEF PostOpening, InBooks
<1>4. ASSUME NEW p \in Periods, ChangePeriod(p)
      PROVE  reversals' = reversals /\ book' = book
  BY <1>4 DEF ChangePeriod
<1>5. ASSUME UNCHANGED ledgerVars PROVE reversals' = reversals /\ book' = book
  BY <1>5 DEF ledgerVars
<1>. QED
  BY <1>1, <1>2, <1>3, <1>4, <1>5 DEF LedgerNext

\* What is in the books is never altered, renumbered or taken out again.
THEOREM LedgerImmutable == LedgerSpec => BooksAreImmutable
<1>1. LedgerTypeOK /\ [LedgerNext]_ledgerVars => \A e \in Entries : Immutable(e)
  <2> SUFFICES ASSUME LedgerTypeOK, [LedgerNext]_ledgerVars, NEW e \in Entries
               PROVE  Immutable(e)
    OBVIOUS
  <2>1. book[e] \in Row
    BY DEF LedgerTypeOK
  <2>2. book'[e] = book[e] => Immutable(e)
    BY <2>1 DEF Immutable, Row
  <2>3. ASSUME NEW o \in Entries, NEW r \in Entries, NEW y \in Years,
               ReverseJournal(o, r, y)
        PROVE  Immutable(e)
    <3>1. ~InBooks(book[r]) /\ book[o].status = "POSTED"
      BY <2>3 DEF ReverseJournal, InBooks
    <3>2. CASE e = o
      <4>1. /\ book'[e] = [book[e] EXCEPT !.status = "REVERSED"]
            /\ book'[e].status = "REVERSED"
        BY <2>3, <3>2, ReverseEffect
      <4>2. [book'[e] EXCEPT !.status = book[e].status] = book[e]
        BY <2>1, <4>1 DEF Row
      <4>. QED
        BY <4>1, <4>2 DEF Immutable, InBooks
    <3>3. CASE e = r
      BY <3>1, <3>3 DEF Immutable
    <3>4. CASE e \notin {o, r}
      <4>1. \A f \in Entries \ {o, r} : book'[f] = book[f]
        BY <2>3, ReverseEffect
      <4>. QED
        BY <2>2, <3>4, <4>1
    <3>. QED
      BY <3>2, <3>3, <3>4
  <2>4. CASE ~ \E o, r \in Entries, y \in Years : ReverseJournal(o, r, y)
    BY <2>2, <2>4, OtherEffect DEF Immutable
  <2>. QED
    BY <2>3, <2>4
<1>2. LedgerTypeOK /\ [LedgerNext]_ledgerVars
        => [\A e \in Entries :
              InBooks(book[e]) =>
                /\ InBooks(book'[e])
                /\ [book'[e] EXCEPT !.status = book[e].status] = book[e]
                /\ book[e].status = "REVERSED" => book'[e].status = "REVERSED"
           ]_ledgerVars
  BY <1>1 DEF Immutable
<1>. QED
  BY <1>2, LedgerTypeCorrect, PTL DEF LedgerSpec, BooksAreImmutable

\* Reversals pair the REVERSED entries one to one with posted mirrors of them.
THEOREM LedgerReversals == LedgerSpec => []ReversalsMatch
<1>1. LedgerInit => ReversalsMatch
  BY AbsentRowType DEF LedgerInit, ReversalsMatch
<1>2. LedgerTypeOK /\ ReversalsMatch /\ [LedgerNext]_ledgerVars => ReversalsMatch'
  <2> SUFFICES ASSUME LedgerTypeOK, ReversalsMatch, [LedgerNext]_ledgerVars
               PROVE  ReversalsMatch'
    OBVIOUS
  <2>1. \A x \in reversals : /\ x = <<x[1], x[2]>>
                             /\ x[1] \in Entries /\ x[2] \in Entries
    BY DEF LedgerTypeOK
  <2>2. ASSUME NEW o \in Entries, NEW r \in Entries, NEW y \in Years,
               ReverseJournal(o, r, y)
        PROVE  ReversalsMatch'
    <3>1. /\ reversals' = reversals \union {<<o, r>>}
          /\ book[o].status = "POSTED" /\ book[r].status = "ABSENT"
      BY <2>2 DEF ReverseJournal
    <3>2. /\ book'[o].date = book[o].date /\ book'[o].lines = book[o].lines
          /\ InBooks(book'[o])
      BY <2>2, ReverseEffect DEF InBooks
    <3>3. \A f \in Entries \ {o, r} : book'[f] = book[f]
      BY <2>2, ReverseEffect
    <3>4. \A x \in reversals : book[x[1]].status = "REVERSED" /\ InBooks(book[x[2]])
      BY <2>1 DEF ReversalsMatch
    <3>5. \A x \in reversals : x[1] \notin {o, r} /\ x[2] # r
      BY <3>1, <3>4 DEF InBooks
    <3>6. \A e \in Entries :
            book'[e].status = "REVERSED" <=> \E s \in Entries : <<e, s>> \in reversals'
      <4> SUFFICES ASSUME NEW e \in Entries
                   PROVE  book'[e].status = "REVERSED"
                            <=> \E s \in Entries : <<e, s>> \in reversals'
        OBVIOUS
      <4>1. CASE e = o
        BY <2>2, <3>1, <4>1, ReverseEffect
      <4>2. CASE e = r
        <5>1. o # r /\ book'[r].status = "POSTED"
          BY <2>2, ReverseEffect
        <5>2. \A s \in Entries : <<r, s>> \notin reversals
          BY <3>5
        <5>. QED
          BY <3>1, <4>2, <5>1, <5>2
      <4>3. CASE e \notin {o, r}
        <5>1. book'[e] = book[e]
          BY <3>3, <4>3
        <5>. QED
          BY <3>1, <4>3, <5>1 DEF ReversalsMatch
      <4>. QED
        BY <4>1, <4>2, <4>3
    <3>7. \A x, z \in reversals' : x[1] = z[1] <=> x[2] = z[2]
      BY <3>1, <3>5 DEF ReversalsMatch
    <3>8. ASSUME NEW x \in reversals'
          PROVE  /\ InBooks(book'[x[2]])
                 /\ book'[x[2]].date = book'[x[1]].date
                 /\ book'[x[2]].lines = Mirror(book'[x[1]].lines)
      <4>1. CASE x \in reversals
        <5>1. /\ InBooks(book[x[2]])
              /\ book[x[2]].date = book[x[1]].date
              /\ book[x[2]].lines = Mirror(book[x[1]].lines)
          BY <4>1 DEF ReversalsMatch
        <5>2. book'[x[1]] = book[x[1]]
          BY <2>1, <3>5, <3>3, <4>1
        <5>3. /\ InBooks(book'[x[2]])
              /\ book'[x[2]].date = book[x[2]].date
              /\ book'[x[2]].lines = book[x[2]].lines
          BY <2>1, <3>5, <3>2, <3>3, <4>1, <5>1
        <5>. QED
          BY <5>1, <5>2, <5>3
      <4>2. CASE x = <<o, r>>
        <5>1. x[1] = o /\ x[2] = r
          BY <4>2
        <5>2. /\ book'[r].status = "POSTED" /\ book'[r].date = book[o].date
              /\ book'[r].lines = Mirror(book[o].lines)
          BY <2>2, ReverseEffect
        <5>. QED
          BY <3>2, <5>1, <5>2 DEF InBooks
      <4>. QED
        BY <3>1, <4>1, <4>2
    <3>. QED
      BY <3>6, <3>7, <3>8 DEF ReversalsMatch
  <2>3. CASE ~ \E o, r \in Entries, y \in Years : ReverseJournal(o, r, y)
    <3>1. CASE book' = book /\ reversals' = reversals
      BY <3>1 DEF ReversalsMatch
    <3>2. ASSUME NEW e \in Entries, ~InBooks(book[e]),
                 book'[e].status # "REVERSED",
                 \A f \in Entries \ {e} : book'[f] = book[f],
                 reversals' = reversals
          PROVE  ReversalsMatch'
      <4>1. \A x \in reversals : x[1] # e /\ x[2] # e
        BY <2>1, <3>2 DEF ReversalsMatch, InBooks
      <4>2. \A x \in reversals : book'[x[1]] = book[x[1]] /\ book'[x[2]] = book[x[2]]
        BY <2>1, <3>2, <4>1
      <4>3. \A f \in Entries :
              book'[f].status = "REVERSED" <=> book[f].status = "REVERSED"
        BY <3>2 DEF InBooks
      <4>. QED
        BY <3>2, <4>2, <4>3 DEF ReversalsMatch
    <3>. QED
      BY <2>3, <3>1, <3>2, OtherEffect
  <2>. QED
    BY <2>2, <2>3
<1>. QED
  BY <1>1, <1>2, LedgerTypeCorrect, PTL DEF LedgerSpec

\* Only the opening-balance request inserts OPENING_BALANCE rows, and it posts
\* them at once: no draft carries that source.
DraftsAreManual ==
  \A e \in Entries : book[e].status = "DRAFT" => book[e].source = "MANUAL"

\* Two opening balances never stand on the same date.
THEOREM LedgerOpenings == LedgerSpec => []OneOpeningPerDate
<1> DEFINE Inv == DraftsAreManual /\ OneOpeningPerDate
<1>1. LedgerInit => Inv
  BY AbsentRowType DEF LedgerInit, DraftsAreManual, OneOpeningPerDate
<1>2. LedgerTypeOK /\ Inv /\ [LedgerNext]_ledgerVars => Inv'
  <2> SUFFICES ASSUME LedgerTypeOK, Inv, [LedgerNext]_ledgerVars PROVE Inv'
    OBVIOUS
  <2>1. ASSUME NEW o \in Entries, NEW r \in Entries, NEW y \in Years,
               ReverseJournal(o, r, y)
        PROVE  Inv'
    <3>1. /\ book'[o].status = "REVERSED"
          /\ book'[r].status = "POSTED" /\ book'[r].source = "JOURNAL_REVERSAL"
          /\ \A f \in Entries \ {o, r} : book'[f] = book[f]
      BY <2>1, ReverseEffect
    <3>. QED
      BY <3>1 DEF DraftsAreManual, OneOpeningPerDate
  <2>2. CASE ~ \E o, r \in Entries, y \in Years : ReverseJournal(o, r, y)
    <3>1. CASE book' = book
      BY <3>1 DEF DraftsAreManual, OneOpeningPerDate
    <3>2. ASSUME NEW e \in Entries,
                 \A f \in Entries \ {e} : book'[f] = book[f],
                 \/ book'[e].status = "DRAFT" /\ book'[e].source = "MANUAL"
                 \/ book[e].status = "DRAFT" /\ book'[e].source = book[e].source
                 \/ book'[e].status = "POSTED" /\ NoOpeningOn(book'[e].date)
          PROVE  Inv'
      BY <3>2 DEF DraftsAreManual, OneOpeningPerDate, NoOpeningOn
    <3>. QED
      BY <2>2, <3>1, <3>2, OtherEffect
  <2>. QED
    BY <2>1, <2>2
<1>. QED
  BY <1>1, <1>2, LedgerTypeCorrect, PTL DEF LedgerSpec
=============================================================================
