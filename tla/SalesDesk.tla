----------------------------- MODULE SalesDesk -----------------------------
(***************************************************************************)
(* The sales desk around the invoices of Settlement (services/             *)
(* salesService.ts, salesMath.ts, routes/sales.ts): drafts, the settings   *)
(* they need, the templates that generate an invoice for every period, and *)
(* sending invoices and reminders by e-mail.  Transactions are broken up   *)
(* where they wait for one another; a send is a chain of transactions      *)
(* around a call of the provider.                                          *)
(***************************************************************************)
EXTENDS Integers, Sequences, FiniteSets

CONSTANTS
  Requests,
  None,
  Templates,
  StartDays,  \* days of the month a template may start on
  Steps,      \* months between two runs: 1, 3 or 12
  MaxMonth,   \* bound on the months that pass
  MaxDocs,    \* bound on the documents
  MaxOps      \* bound on the requests served

\* recurring_invoice_templates: the next run, its frequency, is_active.
TemplateRow == [next : [m : Nat, d : 1..31], step : Steps, active : BOOLEAN]

ASSUME SalesDeskAssumption ==
  /\ Steps \subseteq Nat \ {0} /\ StartDays \subseteq 1..31
  /\ IsFiniteSet(Requests) /\ IsFiniteSet(Templates)
  /\ None \notin Requests \union Templates \union TemplateRow
  /\ MaxMonth \in Nat /\ MaxDocs \in Nat /\ MaxOps \in Nat

VARIABLES
  today,     \* the month that has ended, counted from January
  customer,  \* business_parties.is_active of the customer
  series,    \* the Default series: "none", its creator, "set" or "inactive"
  settings,  \* the row of sales_settings: "none", its creator, or "set"
  template,  \* the rows of recurring_invoice_templates, None without one
  locks,     \* the request that holds the row of each template
  docs,      \* invoices and reminders: the sends of each that have resolved
             \* and the rows of success in its send history
  phase, job, ops

deskRows == <<customer, series, settings>>
deskVars == <<today, deskRows, template, locks, docs, phase, job, ops>>

NoJob == [todo |-> <<>>, mine |-> {}, doc |-> 0]

DeskInit ==
  /\ today = 0
  /\ customer = TRUE /\ series = "none" /\ settings = "none"
  /\ template = [t \in Templates |-> None]
  /\ locks = [t \in Templates |-> None]
  /\ docs = <<>>
  /\ phase = [r \in Requests |-> "idle"]
  /\ job = [r \in Requests |-> NoJob]
  /\ ops = 0
-----------------------------------------------------------------------------
At(r, p) == phase[r] = p
GoTo(r, p) == phase' = [phase EXCEPT ![r] = p]
Served == ops < MaxOps /\ ops' = ops + 1
Begin(r, p) == At(r, "idle") /\ Served /\ GoTo(r, p)

\* The transaction of a request ends: what it has inserted is there for
\* everyone or, rolled back, for no one, and its locks are free.
Settled(value, r, done) ==
  IF value = r THEN (IF done THEN "set" ELSE "none") ELSE value

Released(r) == [t \in Templates |-> IF locks[t] = r THEN None ELSE locks[t]]

EndTx(r, done) ==
  /\ series' = Settled(series, r, done)
  /\ settings' = Settled(settings, r, done)
  /\ locks' = Released(r)
  /\ GoTo(r, "idle")
  /\ job' = [job EXCEPT ![r] = NoJob]

Refuse(r) ==
  /\ EndTx(r, FALSE)
  /\ UNCHANGED <<today, customer, template, docs, ops>>

Invoice(t, date, step) ==
  [kind |-> "INVOICE", template |-> t, date |-> date, step |-> step, of |-> 0,
   status |-> "DRAFT", state |-> "NOT_SENT", pdf |-> FALSE,
   confirmed |-> 0, told |-> 0]

\* What a mail may be sent of, and only once its PDF is there.
Mailable(d) == d.pdf /\ (d.kind = "INVOICE" => d.status \in {"ISSUED", "CREDITED"})
-----------------------------------------------------------------------------
\* createInvoiceDraft: the customer must be active ...
DraftBegin(r) ==
  /\ customer
  /\ Begin(r, IF settings = "set" THEN "draft" ELSE "series")
  /\ UNCHANGED <<today, deskRows, template, locks, docs, job>>

\* ... and ensureSalesSettingsRow creates what is not there yet: the series ...
EnsureSeries(r) ==
  /\ At(r, "series") /\ series \notin Requests
  /\ series' = IF series = "none" THEN r ELSE series
  /\ GoTo(r, "settings")
  /\ UNCHANGED <<today, customer, settings, template, locks, docs, job, ops>>

\* ... and the row, waiting for another transaction that is about to insert it
\* (ON CONFLICT DO NOTHING) and then reading that one.
EnsureSettings(r) ==
  /\ At(r, "settings") /\ settings \notin Requests
  /\ settings' = IF settings = "none" THEN r ELSE settings
  /\ GoTo(r, "draft")
  /\ UNCHANGED <<today, customer, series, template, locks, docs, job, ops>>

\* resolveSeries refuses a default series that has been made inactive.
Draft(r) ==
  /\ At(r, "draft") /\ Len(docs) < MaxDocs
  /\ series \in {r, "set"}
  /\ docs' = Append(docs, Invoice(None, [m |-> today, d |-> 1], 0))
  /\ EndTx(r, TRUE)
  /\ UNCHANGED <<today, customer, template, ops>>

DraftRefused(r) == At(r, "draft") /\ series = "inactive" /\ Refuse(r)

\* setCustomerActive and updateSeries.
SetActive ==
  /\ Served
  /\ \/ customer' = ~customer /\ UNCHANGED series
     \/ series = "set" /\ series' = "inactive" /\ UNCHANGED customer
     \/ series = "inactive" /\ series' = "set" /\ UNCHANGED customer
  /\ UNCHANGED <<today, settings, template, locks, docs, phase, job>>
-----------------------------------------------------------------------------
LastDay(m) == IF m % 12 = 1 THEN 28 ELSE IF m % 12 \in {3, 5, 8, 10} THEN 30 ELSE 31

Smaller(a, b) == IF a < b THEN a ELSE b

\* recurringNextRun; a day that has been cut stays cut.
NextRun(date, step) ==
  [m |-> date.m + step, d |-> Smaller(date.d, LastDay(date.m + step))]

\* createRecurringTemplate
CreateTemplate(t) ==
  /\ Served
  /\ template[t] = None
  /\ \E d \in StartDays, step \in Steps :
       template' = [template EXCEPT ![t] =
         [next |-> [m |-> 0, d |-> d], step |-> step, active |-> TRUE]]
  /\ UNCHANGED <<today, deskRows, locks, docs, phase, job>>

Exists(t) == template[t] # None /\ locks[t] = None

\* updateRecurringTemplate and setRecurringTemplateActive wait for the row.
UpdateTemplate(t) ==
  /\ Served
  /\ Exists(t)
  /\ \/ \E step \in Steps \ {template[t].step} :
          template' = [template EXCEPT ![t].step = step]
     \/ template' = [template EXCEPT ![t].active = ~@]
  /\ UNCHANGED <<today, deskRows, locks, docs, phase, job>>

\* deleteRecurringTemplate
DeleteTemplate(t) ==
  /\ Served
  /\ Exists(t)
  /\ \A i \in DOMAIN docs : docs[i].template # t
  /\ template' = [template EXCEPT ![t] = None]
  /\ UNCHANGED <<today, deskRows, locks, docs, phase, job>>

DueNow(t) == template[t] # None /\ template[t].active /\ template[t].next.m <= today

Earlier(a, b) == a.m < b.m \/ (a.m = b.m /\ a.d < b.d)

\* The orders in which SELECT ... ORDER BY next_run_date may return a set.
Orders(S) ==
  {q \in [1..Cardinality(S) -> S] :
     \A i, j \in 1..Cardinality(S) : i < j =>
       q[i] # q[j] /\ ~Earlier(template[q[j]].next, template[q[i]].next)}

\* generateDueRecurringInvoices: the templates due, as the statement starts ...
GenerateRead(r) ==
  /\ Begin(r, "lock")
  /\ \E q \in Orders({t \in Templates : DueNow(t)}) :
       job' = [job EXCEPT ![r].todo = q]
  /\ UNCHANGED <<today, deskRows, template, locks, docs>>

\* Mutant: a row that has waited for its lock is not looked at again.
GenerateLockMutant(r) ==
  /\ At(r, "lock") /\ job[r].todo # <<>>
  /\ LET t == Head(job[r].todo)
     IN /\ locks[t] = None
        /\ template[t] # None
        /\ locks' = [locks EXCEPT ![t] = r]
        /\ job' = [job EXCEPT ![r].todo = Tail(@), ![r].mine = @ \union {t}]
  /\ UNCHANGED <<today, deskRows, template, docs, phase, ops>>

\* ... are locked one by one, and left out when they are no longer due.
GenerateLock(r) ==
  /\ At(r, "lock") /\ job[r].todo # <<>>
  /\ LET t == Head(job[r].todo)
     IN /\ locks[t] = None
        /\ locks' = IF DueNow(t) THEN [locks EXCEPT ![t] = r] ELSE locks
        /\ job' = [job EXCEPT ![r].todo = Tail(@),
                              ![r].mine = IF DueNow(t) THEN @ \union {t} ELSE @]
  /\ UNCHANGED <<today, deskRows, template, docs, phase, ops>>

\* The invoice whose source_recurring_key is the template and its next run.
Generated(t) ==
  {i \in DOMAIN docs : docs[i].template = t /\ docs[i].date = template[t].next}

\* One invoice for each template and the next run with it; a template whose
\* key is taken is left as it is.
Generate(r) ==
  /\ At(r, "lock") /\ job[r].todo = <<>>
  /\ LET fresh == {t \in job[r].mine : Generated(t) = {}}
     IN /\ Len(docs) + Cardinality(fresh) <= MaxDocs
        /\ \E q \in Orders(fresh) :
             docs' = docs \o [i \in DOMAIN q |->
               Invoice(q[i], template[q[i]].next, template[q[i]].step)]
        /\ template' = [t \in Templates |->
             IF t \in fresh
             THEN [template[t] EXCEPT !.next = NextRun(@, template[t].step)]
             ELSE template[t]]
  /\ EndTx(r, TRUE)
  /\ UNCHANGED <<today, customer, ops>>

\* Two runs that wait for each other's rows; PostgreSQL ends one of them.
DeadlockAbort(r) ==
  /\ At(r, "lock") /\ job[r].todo # <<>>
  /\ \E q \in Requests \ {r} :
       /\ At(q, "lock") /\ job[q].todo # <<>>
       /\ locks[Head(job[r].todo)] = q /\ locks[Head(job[q].todo)] = r
  /\ Refuse(r)
-----------------------------------------------------------------------------
\* issueInvoice and cancelInvoiceDraft (Settlement has what else they do), and
\* the full credit of an issued invoice.
ChangeStatus(i) ==
  /\ Served
  /\ docs[i].kind = "INVOICE"
  /\ \/ docs[i].status = "DRAFT" /\ \E s \in {"ISSUED", "CANCELLED_DRAFT"} :
                                      docs' = [docs EXCEPT ![i].status = s]
     \/ docs[i].status = "ISSUED" /\ docs' = [docs EXCEPT ![i].status = "CREDITED"]
  /\ UNCHANGED <<today, deskRows, template, locks, phase, job>>

\* The worker has made the PDF (PdfDelivery).
PdfReady(i) ==
  /\ ~docs[i].pdf
  /\ docs[i].kind = "INVOICE" => docs[i].status # "DRAFT"
  /\ docs[i].status # "CANCELLED_DRAFT"
  /\ docs' = [docs EXCEPT ![i].pdf = TRUE]
  /\ UNCHANGED <<today, deskRows, template, locks, phase, job, ops>>

\* createSalesReminder
CreateReminder(i) ==
  /\ Served
  /\ docs[i].kind = "INVOICE" /\ docs[i].status = "ISSUED" /\ Len(docs) < MaxDocs
  /\ docs' = Append(docs, [Invoice(None, docs[i].date, 0) EXCEPT
                             !.kind = "REMINDER", !.of = i, !.state = "DRAFT"])
  /\ UNCHANGED <<today, deskRows, template, locks, phase, job>>

\* exportEInvoicePayload: the export is ready, nothing is sent.
ExportEInvoice(i) ==
  /\ Served
  /\ docs[i].kind = "INVOICE" /\ docs[i].status \in {"ISSUED", "CREDITED"}
  /\ docs' = [docs EXCEPT ![i].state = "EINVOICE_READY"]
  /\ UNCHANGED <<today, deskRows, template, locks, phase, job>>

SendBegin(r, i) ==
  /\ Mailable(docs[i])
  /\ Begin(r, "mail")
  /\ job' = [job EXCEPT ![r].doc = i]
  /\ UNCHANGED <<today, deskRows, template, locks, docs>>

\* An invoice enters the history first, a reminder takes its new state first.
FirstOf(r) == IF docs[job[r].doc].kind = "INVOICE" THEN "tell" ELSE "mark"
SecondOf(r) == IF docs[job[r].doc].kind = "INVOICE" THEN "mark" ELSE "tell"
FirstFailed(r) == IF FirstOf(r) = "tell" THEN "tell failure" ELSE "mark failure"

\* Mutant: the failure of a send is caught before the history hears of it.
MailMutant(r) ==
  /\ At(r, "mail")
  /\ \/ docs' = [docs EXCEPT ![job[r].doc].confirmed = @ + 1]
     \/ UNCHANGED docs
  /\ GoTo(r, FirstOf(r))
  /\ UNCHANGED <<today, deskRows, template, locks, job, ops>>

\* emailProvider.send resolves or throws, and no caller looks further: not
\* whether a mail is on its way that a throw has not confirmed, and not which
\* provider it is.  The noop driver, the only one outside development, always
\* resolves and takes no mail at all.
Mail(r) ==
  /\ At(r, "mail")
  /\ \/ /\ docs' = [docs EXCEPT ![job[r].doc].confirmed = @ + 1]
        /\ GoTo(r, FirstOf(r))
     \/ UNCHANGED docs /\ GoTo(r, FirstFailed(r))
  /\ UNCHANGED <<today, deskRows, template, locks, job, ops>>

\* appendSendHistory
Tell(r) ==
  /\ At(r, "tell")
  /\ docs' = [docs EXCEPT ![job[r].doc].told = @ + 1]
  /\ GoTo(r, IF FirstOf(r) = "tell" THEN "mark" ELSE "audit")
  /\ UNCHANGED <<today, deskRows, template, locks, job, ops>>

\* setInvoiceDeliveryState and markReminderSendResult
Mark(r) ==
  /\ At(r, "mark")
  /\ docs' = [docs EXCEPT ![job[r].doc].state = "SENT"]
  /\ GoTo(r, IF FirstOf(r) = "mark" THEN "tell" ELSE "audit")
  /\ UNCHANGED <<today, deskRows, template, locks, job, ops>>

SendDone(r) ==
  /\ At(r, "audit")
  /\ EndTx(r, TRUE)
  /\ UNCHANGED <<today, customer, template, docs, ops>>

\* The catch stands around all of it: whatever fails after the mail is out
\* ends in FAILED as well.
SendFails(r) ==
  /\ phase[r] \in {"tell", "mark", "audit"}
  /\ GoTo(r, FirstFailed(r))
  /\ UNCHANGED <<today, deskRows, template, locks, docs, job, ops>>

\* The row of the failure in the history only adds to the log.
TellFailure(r) ==
  /\ At(r, "tell failure")
  /\ IF SecondOf(r) = "mark"
     THEN GoTo(r, "mark failure") /\ UNCHANGED <<series, settings, locks, job>>
     ELSE EndTx(r, TRUE)
  /\ UNCHANGED <<today, customer, template, docs, ops>>

MarkFailure(r) ==
  /\ At(r, "mark failure")
  /\ docs' = [docs EXCEPT ![job[r].doc].state = "FAILED"]
  /\ IF SecondOf(r) = "mark"
     THEN EndTx(r, TRUE)
     ELSE GoTo(r, "tell failure") /\ UNCHANGED <<series, settings, locks, job>>
  /\ UNCHANGED <<today, customer, template, ops>>
-----------------------------------------------------------------------------
\* A statement fails or the process ends; the open transaction rolls back.
Fail(r) == ~At(r, "idle") /\ Refuse(r)

MonthEnds ==
  /\ today < MaxMonth /\ today' = today + 1
  /\ UNCHANGED <<deskRows, template, locks, docs, phase, job, ops>>

Step(r) ==
  \/ DraftBegin(r) \/ EnsureSeries(r) \/ EnsureSettings(r)
  \/ Draft(r) \/ DraftRefused(r)
  \/ GenerateRead(r) \/ GenerateLock(r) \/ Generate(r) \/ DeadlockAbort(r)
  \/ \E i \in DOMAIN docs : SendBegin(r, i)
  \/ Mail(r) \/ Tell(r) \/ Mark(r) \/ SendDone(r) \/ SendFails(r)
  \/ TellFailure(r) \/ MarkFailure(r)
  \/ Fail(r)

DeskNext ==
  \/ \E r \in Requests : Step(r)
  \/ \E t \in Templates : CreateTemplate(t) \/ UpdateTemplate(t) \/ DeleteTemplate(t)
  \/ \E i \in DOMAIN docs : ChangeStatus(i) \/ PdfReady(i) \/ CreateReminder(i)
                              \/ ExportEInvoice(i)
  \/ SetActive \/ MonthEnds

DeskSpec == DeskInit /\ [][DeskNext]_deskVars
-----------------------------------------------------------------------------
InvoicesOf(t) == {i \in DOMAIN docs : docs[i].template = t}

\* The invoice a template has made after the i-th document, if there is one.
Following(i) ==
  {j \in InvoicesOf(docs[i].template) : j > i /\
     \A k \in InvoicesOf(docs[i].template) : k > i => k >= j}

\* Every period is billed once, none early and none left out, whoever generates at the
\* same time and whatever day a template starts on: from one invoice of a
\* template to the next, and from the last one to its next run, it is as many
\* months as its frequency was.
EveryPeriodBilled ==
  \A t \in Templates : \A i \in InvoicesOf(t) :
    LET then == IF Following(i) = {} THEN template[t].next.m
                ELSE docs[CHOOSE j \in Following(i) : TRUE].date.m
    IN docs[i].date.m <= today /\ then = docs[i].date.m + docs[i].step

\* salesService.ts:3681-3682: success is never claimed that the provider did
\* not confirm, with several sends of a document, exports and failures between:
\* no row of the history and no SENT without a send() that has resolved.  That
\* a mail has left is more than the noop driver's answer says.
NoFalseSuccess ==
  \A i \in DOMAIN docs :
    /\ docs[i].told <= docs[i].confirmed
    /\ docs[i].state = "SENT" => docs[i].confirmed > 0
=============================================================================
