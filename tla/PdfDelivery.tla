---------------------------- MODULE PdfDelivery ----------------------------
(***************************************************************************)
(* Rendering of invoice and reminder PDFs: the API asks for one through    *)
(* the transactional outbox, worker processes poll the outbox, render,     *)
(* write the file and point the document at it (integrationQueue.ts,       *)
(* worker.ts, invoicePdfWorker.ts, retryInvoicePdf, requestReminderPdf).   *)
(*                                                                         *)
(* A transaction of the worker is split where it holds the PDF row and     *)
(* something outside the database happens: rendering, writing the file.    *)
(***************************************************************************)
EXTENDS Naturals, Sequences, Functions

CONSTANTS
  Invoices,     \* sales invoices
  Reminders,    \* sales reminders
  Workers,      \* worker processes (compose.yaml deploys one)
  Keys,         \* storage keys; one that nothing refers to may be drawn again
  NoKey,
  MaxAttempts,  \* tries before an event is FAILED (10 in the code)
  BatchSize,    \* events a worker claims per poll (10 in the code)
  MaxEvents,    \* bound on the outbox
  MaxCrashes    \* bound on the crashes of workers

ASSUME PdfAssumption ==
  /\ Invoices \intersect Reminders = {} /\ NoKey \notin Keys
  /\ {MaxAttempts, BatchSize} \subseteq Nat \ {0}
  /\ {MaxEvents, MaxCrashes} \subseteq Nat

Pdfs == Invoices \union Reminders

VARIABLES
  outbox,    \* integration_outbox, in the order of created_at
  pdf,       \* status of sales_invoice_pdfs and sales_reminders rows
  document,  \* storage key of the document the row points at
  file,      \* what each storage key holds
  worker,    \* where each worker process is
  crashes

vars == <<outbox, pdf, document, file, worker, crashes>>

\* due: available_at has passed.
Event == [pdf : Pdfs, status : {"PENDING", "PROCESSED", "FAILED"},
          attempts : Nat, due : BOOLEAN]

PdfStatus == {"NONE", "GENERATING", "READY", "FAILED"}

(***************************************************************************)
(* A worker: the events claimed and not yet dealt with, and what it does   *)
(* with the first of them.                                                 *)
(***************************************************************************)
Worker == [phase : {"polling", "starting", "rendering", "stored", "handled",
                    "failed", "retrying"},
           batch : Seq(1 .. MaxEvents), key : Keys \union {NoKey}]

Polling == [phase |-> "polling", batch |-> <<>>, key |-> NoKey]

Init ==
  /\ outbox = <<>>
  /\ pdf = [p \in Pdfs |-> "NONE"]
  /\ document = [p \in Pdfs |-> NoKey]
  /\ file = [k \in Keys |-> NoKey]
  /\ worker = [w \in Workers |-> Polling]
  /\ crashes = 0
-----------------------------------------------------------------------------
Current(w) == Head(worker[w].batch)
CurrentPdf(w) == outbox[Current(w)].pdf

\* processPdfRequest keeps the PDF row FOR UPDATE while it renders and stores.
PdfHeld(p) ==
  \E w \in Workers : /\ worker[w].phase \in {"rendering", "stored"}
                     /\ CurrentPdf(w) = p

In(w, phase) == worker[w].phase = phase
Go(w, phase) == worker' = [worker EXCEPT ![w].phase = phase]

\* The event is dealt with: on to the next one of the batch.
Advance(w) ==
  LET rest == Tail(worker[w].batch)
  IN  worker' = [worker EXCEPT
        ![w] = [phase |-> IF rest = <<>> THEN "polling" ELSE "starting",
                batch |-> rest, key |-> NoKey]]

Append1(p) ==
  /\ Len(outbox) < MaxEvents
  /\ outbox' = Append(outbox, [pdf |-> p, status |-> "PENDING",
                               attempts |-> 0, due |-> TRUE])

\* Issuing an invoice writes the PDF row and the event in one transaction.
IssueInvoice(i) ==
  /\ pdf[i] = "NONE"
  /\ pdf' = [pdf EXCEPT ![i] = "GENERATING"]
  /\ Append1(i)
  /\ UNCHANGED <<document, file, worker, crashes>>

RetryInvoicePdf(i) ==
  /\ ~PdfHeld(i) /\ pdf[i] = "FAILED"
  /\ pdf' = [pdf EXCEPT ![i] = "GENERATING"]
  /\ Append1(i)
  /\ UNCHANGED <<document, file, worker, crashes>>

\* A reminder may be asked for whatever its state, unless it is READY.
RequestReminderPdf(r) ==
  /\ ~PdfHeld(r) /\ pdf[r] # "READY"
  /\ pdf' = [pdf EXCEPT ![r] = "GENERATING"]
  /\ Append1(r)
  /\ UNCHANGED <<document, file, worker, crashes>>

(***************************************************************************)
(* claimOutbox.  The row locks of FOR UPDATE SKIP LOCKED end with the      *)
(* statement, which runs outside any transaction, so nothing stops another *)
(* worker from claiming the same events.                                   *)
(***************************************************************************)
Due == {n \in 1 .. Len(outbox) : outbox[n].status = "PENDING" /\ outbox[n].due}

\* The oldest of the due events, in order.
Oldest(batch) ==
  /\ \A i, j \in DOMAIN batch : i < j => batch[i] < batch[j]
  /\ \A n \in Due \ Range(batch) :
       Len(batch) = BatchSize /\ \A i \in DOMAIN batch : batch[i] < n

Claim(w) ==
  /\ In(w, "polling")
  /\ \E size \in 1 .. BatchSize : \E batch \in [1 .. size -> Due] :
       /\ Oldest(batch)
       /\ worker' = [worker EXCEPT ![w] = [phase |-> "starting", key |-> NoKey,
                                           batch |-> batch]]
  /\ UNCHANGED <<outbox, pdf, document, file, crashes>>

\* Lock the row; a READY one makes the job a no-op.
Start(w) ==
  /\ In(w, "starting") /\ ~PdfHeld(CurrentPdf(w))
  /\ Go(w, IF pdf[CurrentPdf(w)] = "READY" THEN "handled" ELSE "rendering")
  /\ UNCHANGED <<outbox, pdf, document, file, crashes>>

\* Mutant: the key is derived from the target of the event, and comes back.
FreshKeyMutant(k) == k = CHOOSE key \in Keys : TRUE

\* A random key: nobody refers to it.
FreshKey(k) ==
  /\ \A p \in Pdfs : document[p] # k
  /\ \A w \in Workers : worker[w].key # k

Store(w) ==
  /\ In(w, "rendering")
  /\ \E k \in Keys : /\ FreshKey(k)
                     /\ file' = [file EXCEPT ![k] = CurrentPdf(w)]
                     /\ worker' = [worker EXCEPT ![w].phase = "stored",
                                                 ![w].key = k]
  /\ UNCHANGED <<outbox, pdf, document, crashes>>

\* The answer to the COMMIT may be lost: the handler then takes it for failed.
CommitPdf(w) ==
  /\ In(w, "stored")
  /\ pdf' = [pdf EXCEPT ![CurrentPdf(w)] = "READY"]
  /\ document' = [document EXCEPT ![CurrentPdf(w)] = worker[w].key]
  /\ \E next \in {"handled", "failed"} :
       worker' = [worker EXCEPT ![w].phase = next, ![w].key = NoKey]
  /\ UNCHANGED <<outbox, file, crashes>>

\* Rendering, storing or committing fails: the transaction is rolled back.
RenderFails(w) ==
  /\ worker[w].phase \in {"rendering", "stored"}
  /\ worker' = [worker EXCEPT ![w].phase = "failed", ![w].key = NoKey]
  /\ UNCHANGED <<outbox, pdf, document, file, crashes>>

\* Mutant: a PDF another worker completed in the meantime is marked, too.
MarkPdfFailedMutant(w) ==
  /\ In(w, "failed") /\ ~PdfHeld(CurrentPdf(w))
  /\ pdf' = [pdf EXCEPT ![CurrentPdf(w)] = "FAILED"]
  /\ Go(w, "retrying")
  /\ UNCHANGED <<outbox, document, file, crashes>>

MarkPdfFailed(w) ==
  /\ In(w, "failed") /\ ~PdfHeld(CurrentPdf(w))
  /\ pdf' = [pdf EXCEPT ![CurrentPdf(w)] = IF @ = "READY" THEN @ ELSE "FAILED"]
  /\ Go(w, "retrying")
  /\ UNCHANGED <<outbox, document, file, crashes>>

\* An error while marking is swallowed.
LoseMark(w) ==
  /\ In(w, "failed")
  /\ Go(w, "retrying")
  /\ UNCHANGED <<outbox, pdf, document, file, crashes>>

\* Mutant: the event is marked although the handler failed.
MarkProcessedMutant(w) ==
  /\ worker[w].phase \in {"handled", "retrying"}
  /\ outbox' = [outbox EXCEPT ![Current(w)].status = "PROCESSED"]
  /\ Advance(w)
  /\ UNCHANGED <<pdf, document, file, crashes>>

MarkProcessed(w) ==
  /\ In(w, "handled")
  /\ outbox' = [outbox EXCEPT ![Current(w)].status = "PROCESSED"]
  /\ Advance(w)
  /\ UNCHANGED <<pdf, document, file, crashes>>

\* An error while marking the event is handled like one of the handler.
MarkProcessedFails(w) ==
  /\ In(w, "handled")
  /\ Go(w, "retrying")
  /\ UNCHANGED <<outbox, pdf, document, file, crashes>>

\* Mutant: the attempt is not counted.
ScheduleRetryMutant(w) ==
  /\ In(w, "retrying")
  /\ outbox' = [outbox EXCEPT ![Current(w)].due = FALSE]
  /\ Advance(w)
  /\ UNCHANGED <<pdf, document, file, crashes>>

\* scheduleOutboxRetry: whatever the status of the event is by now.
ScheduleRetry(w) ==
  LET event == outbox[Current(w)]
      failed == event.attempts + 1 >= MaxAttempts
  IN /\ In(w, "retrying")
     /\ outbox' = [outbox EXCEPT ![Current(w)] =
          [event EXCEPT !.attempts = @ + 1, !.due = FALSE,
                        !.status = IF failed THEN "FAILED" ELSE "PENDING"]]
     /\ Advance(w)
     /\ UNCHANGED <<pdf, document, file, crashes>>

\* The back-off is over.
BecomeDue(n) ==
  /\ n \in 1 .. Len(outbox) /\ outbox[n].status = "PENDING" /\ ~outbox[n].due
  /\ outbox' = [outbox EXCEPT ![n].due = TRUE]
  /\ UNCHANGED <<pdf, document, file, worker, crashes>>

\* The process dies and is restarted, or an error ends its cycle: the
\* transaction is rolled back and what it had claimed is forgotten.
Crash(w) ==
  /\ ~In(w, "polling") /\ crashes < MaxCrashes
  /\ worker' = [worker EXCEPT ![w] = Polling]
  /\ crashes' = crashes + 1
  /\ UNCHANGED <<outbox, pdf, document, file>>

WorkerStep(w) ==
  \/ Claim(w) \/ Start(w) \/ Store(w) \/ CommitPdf(w) \/ RenderFails(w)
  \/ MarkPdfFailed(w) \/ LoseMark(w) \/ MarkProcessed(w) \/ MarkProcessedFails(w)
  \/ ScheduleRetry(w)

Request ==
  \/ \E i \in Invoices : IssueInvoice(i) \/ RetryInvoicePdf(i)
  \/ \E r \in Reminders : RequestReminderPdf(r)

Next ==
  \/ Request
  \/ \E w \in Workers : WorkerStep(w) \/ Crash(w)
  \/ \E n \in 1 .. MaxEvents : BecomeDue(n)

Spec == Init /\ [][Next]_vars

\* A worker polls for ever, its restarts are automatic, and time passes.
FairSpec ==
  /\ Spec
  /\ \A w \in Workers : WF_vars(WorkerStep(w))
  /\ \A n \in 1 .. MaxEvents : WF_vars(BecomeDue(n))
-----------------------------------------------------------------------------
\* A READY row points at a document whose file is stored and is its own, also
\* after crashes between the write of the file and the commit.
ReadyHasFile ==
  \A p \in Pdfs : pdf[p] = "READY" =>
    document[p] \in Keys /\ file[document[p]] = p

\* An event is PROCESSED only when its PDF is there: no request is dropped.
ProcessedIsDelivered ==
  \A n \in 1 .. Len(outbox) :
    outbox[n].status = "PROCESSED" => pdf[outbox[n].pdf] = "READY"

\* An issued PDF is immutable (ADR-0018): a late failure, a duplicate event or
\* a second worker never changes a READY row, its document or its file.
ReadyIsFinal ==
  [][\A p \in Pdfs : pdf[p] = "READY" =>
       /\ pdf'[p] = "READY" /\ document'[p] = document[p]
       /\ file'[document[p]] = file[document[p]]]_vars

\* Every event is settled in the end: an error, a crash or a bad event in front
\* of it never blocks it for ever.
Unsettled(n) == n \in 1 .. Len(outbox) /\ outbox[n].status = "PENDING"

EveryEventSettles == \A n \in 1 .. MaxEvents : Unsettled(n) ~> ~Unsettled(n)
=============================================================================
