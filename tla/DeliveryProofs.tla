--------------------------- MODULE DeliveryProofs ---------------------------
(***************************************************************************)
(* Proofs about what reaches a customer: the PDFs and their delivery by    *)
(* workers (PdfDelivery), and the invoices of templates and the e-mails of *)
(* the sales desk (SalesDesk).  For any number of workers, requests,       *)
(* documents, events and templates, and any number of crashes.             *)
(***************************************************************************)
EXTENDS PdfDelivery, SalesDesk, FiniteSetTheorems, SequenceTheorems, TLAPS


TypeInv ==
  /\ outbox \in Seq(Event) /\ Len(outbox) <= MaxEvents
  /\ pdf \in [Pdfs -> PdfStatus]
  /\ document \in [Pdfs -> Keys \union {NoKey}]
  /\ file \in [Keys -> Pdfs \union {NoKey}]
  /\ worker \in [Workers -> Worker]

Rendering == {"rendering", "stored"}

\* A worker has something to do and knows which; what it renders is not READY,
\* what it has handled is; and its file belongs to nobody yet.
WorkerOK(w) ==
  /\ worker[w].phase # "polling" => worker[w].batch # <<>>
  /\ \A i \in DOMAIN worker[w].batch : worker[w].batch[i] <= Len(outbox)
  /\ worker[w].phase = "handled" => pdf[CurrentPdf(w)] = "READY"
  /\ worker[w].phase \in Rendering => pdf[CurrentPdf(w)] # "READY"
  /\ worker[w].phase = "stored" <=> worker[w].key # NoKey
  /\ worker[w].phase = "stored" =>
       /\ file[worker[w].key] = CurrentPdf(w)
       /\ \A p \in Pdfs : document[p] # worker[w].key

\* The lock on a PDF row is one worker's, and so is a key.
WorkersApart ==
  \A v, w \in Workers : v # w =>
    /\ worker[v].phase \in Rendering /\ worker[w].phase \in Rendering =>
         CurrentPdf(v) # CurrentPdf(w)
    /\ worker[v].key # NoKey => worker[v].key # worker[w].key

PdfInv ==
  /\ TypeInv /\ WorkersApart
  /\ \A w \in Workers : WorkerOK(w)
  /\ ReadyHasFile /\ ProcessedIsDelivered
-----------------------------------------------------------------------------
\* What every step leaves alone: what an event is about, and a PDF that is there.
Targets ==
  /\ Len(outbox) <= Len(outbox')
  /\ \A n \in 1 .. Len(outbox) : outbox'[n].pdf = outbox[n].pdf

ReadyStays ==
  \A p \in Pdfs : pdf[p] = "READY" =>
    /\ pdf'[p] = "READY" /\ document'[p] = document[p]
    /\ file'[document[p]] = file[document[p]]

LEMMA CurrentTypes ==
  ASSUME PdfInv, NEW w \in Workers, worker[w].phase # "polling"
  PROVE  /\ Current(w) \in 1 .. Len(outbox) /\ Current(w) = worker[w].batch[1]
         /\ outbox[Current(w)] \in Event /\ CurrentPdf(w) \in Pdfs
         /\ worker[w].batch \in Seq(1 .. MaxEvents) /\ worker[w].batch # <<>>
<1>1. worker[w].batch \in Seq(1 .. MaxEvents) /\ worker[w].batch # <<>>
  BY DEF PdfInv, TypeInv, Worker, WorkerOK
<1>2. 1 \in DOMAIN worker[w].batch /\ Head(worker[w].batch) = worker[w].batch[1]
  BY <1>1
<1>3. worker[w].batch[1] \in 1 .. MaxEvents /\ MaxEvents \in Nat
  BY <1>1, <1>2, PdfAssumption
<1>4. worker[w].batch[1] <= Len(outbox) /\ outbox \in Seq(Event)
  BY <1>2 DEF PdfInv, WorkerOK, TypeInv
<1>5. worker[w].batch[1] \in 1 .. Len(outbox)
  BY <1>3, <1>4
<1>6. outbox[Current(w)] \in Event
  BY <1>2, <1>4, <1>5 DEF Current
<1> QED BY <1>1, <1>2, <1>5, <1>6 DEF Current, CurrentPdf, Event

\* A worker that does not move, and that the others leave alone.
LEMMA WorkerStays ==
  ASSUME PdfInv, TypeInv', Targets, ReadyStays, NEW w \in Workers, worker'[w] = worker[w],
         worker[w].phase \in Rendering => pdf'[CurrentPdf(w)] # "READY",
         worker[w].phase = "stored" =>
           /\ file'[worker[w].key] = file[worker[w].key]
           /\ \A p \in Pdfs : document'[p] # worker[w].key
  PROVE  /\ WorkerOK(w)'
         /\ worker[w].phase # "polling" => CurrentPdf(w)' = CurrentPdf(w)
<1>1. worker[w].phase # "polling" => CurrentPdf(w)' = CurrentPdf(w) /\ CurrentPdf(w) \in Pdfs
  BY CurrentTypes DEF Targets, CurrentPdf, Current
<1>2. WorkerOK(w)
  BY DEF PdfInv
<1>3. \A i \in DOMAIN worker[w].batch : worker[w].batch[i] <= Len(outbox')
  <2> SUFFICES ASSUME NEW i \in DOMAIN worker[w].batch
               PROVE  worker[w].batch[i] <= Len(outbox')
    OBVIOUS
  <2>1. worker[w].batch \in Seq(1 .. MaxEvents)
    BY DEF PdfInv, TypeInv, Worker
  <2>2. worker[w].batch[i] \in Nat
    BY <2>1, PdfAssumption
  <2>3. worker[w].batch[i] <= Len(outbox) /\ Len(outbox) <= Len(outbox')
    BY <1>2 DEF WorkerOK, Targets
  <2>4. Len(outbox) \in Nat /\ Len(outbox') \in Nat
    BY DEF PdfInv, TypeInv
  <2> QED BY <2>2, <2>3, <2>4
<1>4. worker[w].phase = "handled" => pdf'[CurrentPdf(w)] = "READY"
  BY <1>1, <1>2 DEF WorkerOK, ReadyStays
<1>5. worker[w].phase = "stored" => file'[worker[w].key] = CurrentPdf(w)
  BY <1>2 DEF WorkerOK
<1>6. "polling" \notin Rendering /\ "stored" \in Rendering
  BY DEF Rendering
<1>7. worker[w].phase # "polling" => worker[w].batch # <<>>
  BY <1>2 DEF WorkerOK
<1>8. worker[w].phase = "stored" <=> worker[w].key # NoKey
  BY <1>2 DEF WorkerOK
<1>9. /\ worker[w].phase = "handled" => pdf'[CurrentPdf(w)'] = "READY"
      /\ worker[w].phase \in Rendering => pdf'[CurrentPdf(w)'] # "READY"
      /\ worker[w].phase = "stored" => file'[worker[w].key] = CurrentPdf(w)'
  BY <1>1, <1>4, <1>5, <1>6
<1> QED BY <1>1, <1>3, <1>7, <1>8, <1>9 DEF WorkerOK

\* A document that is there keeps its file.
LEMMA ReadyKept ==
  ASSUME PdfInv, ReadyStays, \A p \in Pdfs : pdf'[p] = "READY" => pdf[p] = "READY"
  PROVE  ReadyHasFile'
BY DEF PdfInv, ReadyHasFile, ReadyStays

LEMMA ProcessedKept ==
  ASSUME PdfInv, TypeInv', Targets, ReadyStays,
         \A n \in 1 .. Len(outbox') : outbox'[n].status = "PROCESSED" =>
           \/ n \in 1 .. Len(outbox) /\ outbox[n].status = "PROCESSED"
           \/ pdf'[outbox'[n].pdf] = "READY"
  PROVE  ProcessedIsDelivered'
<1> SUFFICES ASSUME NEW n \in 1 .. Len(outbox), outbox[n].status = "PROCESSED"
             PROVE  pdf'[outbox'[n].pdf] = "READY"
  BY DEF ProcessedIsDelivered
<1>1. outbox[n] \in Event
  BY DEF PdfInv, TypeInv
<1>2. outbox[n].pdf \in Pdfs /\ pdf[outbox[n].pdf] = "READY"
  BY <1>1 DEF PdfInv, ProcessedIsDelivered, Event
<1> QED BY <1>2 DEF Targets, ReadyStays

\* A worker moves on, and the documents stay as they are.
LEMMA MoveKeeps ==
  ASSUME PdfInv, NEW w \in Workers, NEW x \in Worker, worker' = [worker EXCEPT ![w] = x],
         UNCHANGED <<outbox, pdf, document, file>>,
         x.key = NoKey, x.phase # "stored", WorkerOK(w)',
         x.phase = "rendering" => ~PdfHeld(CurrentPdf(w)) /\ x.batch = worker[w].batch
  PROVE  PdfInv' /\ ReadyStays
<1>1. worker \in [Workers -> Worker]
  BY DEF PdfInv, TypeInv
<1>2. worker'[w] = x /\ \A v \in Workers \ {w} : worker'[v] = worker[v]
  BY <1>1
<1>3. TypeInv'
  BY <1>1 DEF PdfInv, TypeInv
<1>4. Targets /\ ReadyStays
  BY DEF PdfInv, TypeInv, Targets, ReadyStays
<1>5. \A v \in Workers \ {w} : WorkerOK(v)'
  <2> SUFFICES ASSUME NEW v \in Workers \ {w}
               PROVE  WorkerOK(v)'
    OBVIOUS
  <2>1. WorkerOK(v) /\ worker'[v] = worker[v]
    BY <1>2 DEF PdfInv
  <2> QED BY <2>1 DEF WorkerOK, CurrentPdf, Current
<1>6. WorkersApart'
  <2>1. \A v \in Workers \ {w} : CurrentPdf(v)' = CurrentPdf(v)
    BY <1>2 DEF CurrentPdf, Current
  <2>2. x.phase = "rendering" => CurrentPdf(w)' = CurrentPdf(w)
    BY <1>2 DEF CurrentPdf, Current
  <2>3. ASSUME NEW v \in Workers \ {w}, worker[v].phase \in Rendering, x.phase \in Rendering
        PROVE  CurrentPdf(v)' # CurrentPdf(w)'
    <3>1. x.phase = "rendering"
      BY <2>3 DEF Rendering
    <3> QED BY <2>1, <2>2, <2>3, <3>1 DEF PdfHeld, Rendering
  <2>4. ASSUME NEW u \in Workers \ {w}, NEW v \in Workers \ {w}, u # v
        PROVE  /\ worker'[u].phase \in Rendering /\ worker'[v].phase \in Rendering =>
                    CurrentPdf(u)' # CurrentPdf(v)'
               /\ worker'[u].key # NoKey => worker'[u].key # worker'[v].key
    BY <1>2, <2>1, <2>4 DEF PdfInv, WorkersApart
  <2> QED BY <1>2, <2>3, <2>4 DEF WorkersApart
<1>7. ReadyHasFile' /\ ProcessedIsDelivered'
  BY DEF PdfInv, ReadyHasFile, ProcessedIsDelivered
<1> QED BY <1>3, <1>4, <1>5, <1>6, <1>7 DEF PdfInv

\* A worker goes to another phase with the same events.
LEMMA GoKeeps ==
  ASSUME PdfInv, NEW w \in Workers,
         NEW p \in {"starting", "rendering", "handled", "failed", "retrying"},
         worker[w].phase # "polling",
         worker' = [worker EXCEPT ![w].phase = p, ![w].key = NoKey],
         UNCHANGED <<outbox, pdf, document, file>>,
         p = "handled" => pdf[CurrentPdf(w)] = "READY",
         p = "rendering" => pdf[CurrentPdf(w)] # "READY" /\ ~PdfHeld(CurrentPdf(w))
  PROVE  PdfInv' /\ ReadyStays
<1>1. worker[w] \in Worker /\ worker \in [Workers -> Worker]
  BY DEF PdfInv, TypeInv
<1>2. PICK x \in Worker : x = [worker[w] EXCEPT !.phase = p, !.key = NoKey]
  BY <1>1 DEF Worker
<1>3. x.phase = p /\ x.key = NoKey /\ x.batch = worker[w].batch
  BY <1>1, <1>2 DEF Worker
<1>4. worker' = [worker EXCEPT ![w] = x] /\ worker'[w] = x
  BY <1>1, <1>2
<1>5. CurrentPdf(w)' = CurrentPdf(w)
  BY <1>3, <1>4 DEF CurrentPdf, Current
<1>6. WorkerOK(w)'
  <2>1. p \notin {"polling", "stored"}
    OBVIOUS
  <2> QED BY <1>3, <1>4, <1>5, <2>1 DEF PdfInv, WorkerOK, Rendering
<1> QED BY <1>3, <1>4, <1>6, MoveKeeps

\* Without a file of its own, a worker that goes on is as if it dropped it.
LEMMA NoKeyYet ==
  ASSUME PdfInv, NEW w \in Workers, worker[w].phase # "stored", NEW p
  PROVE  [worker EXCEPT ![w].phase = p] = [worker EXCEPT ![w].phase = p, ![w].key = NoKey]
<1>1. worker \in [Workers -> Worker] /\ worker[w].key = NoKey
  BY DEF PdfInv, TypeInv, WorkerOK
<1> QED BY <1>1 DEF Worker

LEMMA QuietKeeps ==
  ASSUME PdfInv, NEW w \in Workers,
         Start(w) \/ RenderFails(w) \/ LoseMark(w) \/ MarkProcessedFails(w)
  PROVE  PdfInv' /\ ReadyStays
<1>1. CASE Start(w)
  <2>1. PICK p \in {"handled", "rendering"} :
          /\ Go(w, p) /\ ~PdfHeld(CurrentPdf(w))
          /\ p = "handled" <=> pdf[CurrentPdf(w)] = "READY"
    BY <1>1 DEF Start
  <2> QED BY <1>1, <2>1, NoKeyYet, GoKeeps DEF Start, Go, In
<1>2. CASE RenderFails(w)
  BY <1>2, GoKeeps DEF RenderFails
<1>3. CASE LoseMark(w) \/ MarkProcessedFails(w)
  BY <1>3, NoKeyYet, GoKeeps DEF LoseMark, MarkProcessedFails, Go, In
<1> QED BY <1>1, <1>2, <1>3

LEMMA CrashKeeps ==
  ASSUME PdfInv, NEW w \in Workers, Crash(w)
  PROVE  PdfInv' /\ ReadyStays
<1>1. Polling \in Worker /\ Polling.phase = "polling" /\ Polling.key = NoKey
      /\ Polling.batch = <<>>
  BY DEF Polling, Worker
<1>2. worker'[w] = Polling
  BY DEF Crash, PdfInv, TypeInv
<1>3. WorkerOK(w)'
  BY <1>1, <1>2 DEF WorkerOK, Rendering
<1> HIDE DEF Polling
<1> QED BY <1>1, <1>3, MoveKeeps DEF Crash

LEMMA ClaimKeeps ==
  ASSUME PdfInv, NEW w \in Workers, Claim(w)
  PROVE  PdfInv' /\ ReadyStays
<1>0. PICK size \in 1 .. BatchSize : \E batch \in [1 .. size -> Due] :
        worker' = [worker EXCEPT ![w] = [phase |-> "starting", key |-> NoKey,
                                         batch |-> batch]]
  BY DEF Claim
<1>1. PICK batch \in [1 .. size -> Due] :
        worker' = [worker EXCEPT ![w] = [phase |-> "starting", key |-> NoKey,
                                         batch |-> batch]]
  BY <1>0
<1>2. size \in Nat \ {0}
  BY PdfAssumption
<1>3. /\ batch \in Seq(1 .. MaxEvents) /\ batch # <<>>
      /\ \A i \in DOMAIN batch : batch[i] <= Len(outbox)
  <2>1. Len(outbox) \in Nat /\ MaxEvents \in Nat /\ Len(outbox) <= MaxEvents
    BY PdfAssumption DEF PdfInv, TypeInv
  <2>2. \A n \in Due : n \in 1 .. MaxEvents /\ n <= Len(outbox)
    BY <2>1 DEF Due
  <2>3. batch \in [1 .. size -> 1 .. MaxEvents]
    BY <2>2
  <2>4. batch \in Seq(1 .. MaxEvents)
    BY <1>2, <2>3, SeqDef
  <2>5. 1 \in DOMAIN batch
    BY <1>2
  <2>6. batch # <<>>
    BY <2>5
  <2> QED BY <2>2, <2>4, <2>6
<1>4. PICK x \in Worker : x = [phase |-> "starting", key |-> NoKey, batch |-> batch]
  BY <1>3 DEF Worker
<1>5. worker'[w] = x /\ x.phase = "starting" /\ x.key = NoKey /\ x.batch = batch
  BY <1>1, <1>4 DEF PdfInv, TypeInv
<1>6. outbox' = outbox
  BY DEF Claim
<1>7. WorkerOK(w)'
  BY <1>3, <1>5, <1>6 DEF WorkerOK, Rendering
<1> QED BY <1>1, <1>4, <1>5, <1>7, MoveKeeps DEF Claim
-----------------------------------------------------------------------------
\* Somebody asks for a PDF that is not READY.
Asks(p) ==
  /\ pdf[p] # "READY"
  /\ pdf' = [pdf EXCEPT ![p] = "GENERATING"]
  /\ Append1(p)
  /\ UNCHANGED <<document, file, worker, crashes>>

LEMMA AskKeeps ==
  ASSUME PdfInv, NEW p \in Pdfs, Asks(p)
  PROVE  PdfInv' /\ ReadyStays
<1>1. pdf \in [Pdfs -> PdfStatus] /\ outbox \in Seq(Event) /\ Len(outbox) \in Nat
  BY DEF PdfInv, TypeInv
<1>2. PICK e \in Event : outbox' = Append(outbox, e) /\ e.pdf = p /\ e.status = "PENDING"
  <2>1. PICK e \in Event :
          e = [pdf |-> p, status |-> "PENDING", attempts |-> 0, due |-> TRUE]
    BY DEF Event
  <2> QED BY <2>1 DEF Asks, Append1
<1>3. /\ outbox' \in Seq(Event) /\ Len(outbox') = Len(outbox) + 1
      /\ \A n \in 1 .. Len(outbox) : outbox'[n] = outbox[n]
      /\ outbox'[Len(outbox) + 1] = e
  BY <1>1, <1>2
<1>4. pdf' \in [Pdfs -> PdfStatus] /\ \A q \in Pdfs : pdf'[q] = "READY" <=> pdf[q] = "READY"
  BY <1>1 DEF Asks, PdfStatus
<1>5. TypeInv'
  <2>1. Len(outbox') <= MaxEvents
    BY <1>1, <1>3, PdfAssumption DEF Asks, Append1
  <2> QED BY <1>3, <1>4, <2>1 DEF PdfInv, TypeInv, Asks
<1>6. Targets /\ ReadyStays
  BY <1>1, <1>3, <1>4 DEF Targets, ReadyStays, Asks
<1>7. ASSUME NEW w \in Workers
      PROVE  WorkerOK(w)' /\ (worker[w].phase # "polling" => CurrentPdf(w)' = CurrentPdf(w))
  <2>1. worker[w].phase \in Rendering => pdf[CurrentPdf(w)] # "READY" /\ CurrentPdf(w) \in Pdfs
    BY CurrentTypes DEF PdfInv, WorkerOK, Rendering
  <2>2. worker[w].phase = "stored" => \A q \in Pdfs : document[q] # worker[w].key
    BY DEF PdfInv, WorkerOK
  <2> QED BY <1>4, <1>5, <1>6, <2>1, <2>2, WorkerStays DEF Asks
<1>8. WorkersApart'
  BY <1>7 DEF PdfInv, WorkersApart, Asks, Rendering
<1>9. ReadyHasFile'
  BY <1>4, <1>6, ReadyKept
<1>10. ASSUME NEW n \in 1 .. Len(outbox'), outbox'[n].status = "PROCESSED"
       PROVE  n \in 1 .. Len(outbox) /\ outbox[n].status = "PROCESSED"
  <2>1. n \in 1 .. Len(outbox) \/ n = Len(outbox) + 1
    BY <1>1, <1>3
  <2>2. n # Len(outbox) + 1
    BY <1>2, <1>3, <1>10
  <2> QED BY <1>3, <1>10, <2>1, <2>2
<1>11. ProcessedIsDelivered'
  BY <1>5, <1>6, <1>10, ProcessedKept
<1> QED BY <1>5, <1>6, <1>7, <1>8, <1>9, <1>11 DEF PdfInv

\* The status of one event is written, and the documents stay as they are.
LEMMA WriteKeeps ==
  ASSUME PdfInv, NEW n \in 1 .. Len(outbox), NEW e \in Event,
         outbox' = [outbox EXCEPT ![n] = e], e.pdf = outbox[n].pdf,
         e.status = "PROCESSED" => outbox[n].status = "PROCESSED" \/ pdf[e.pdf] = "READY",
         UNCHANGED <<pdf, document, file>>,
         \/ worker' = worker
         \/ \E w \in Workers : worker[w].phase # "polling" /\ worker[w].phase # "stored" /\ Advance(w)
  PROVE  PdfInv' /\ ReadyStays
<1>1. outbox \in Seq(Event) /\ worker \in [Workers -> Worker] /\ Len(outbox) \in Nat
  BY DEF PdfInv, TypeInv
<1>2. /\ outbox' \in Seq(Event) /\ Len(outbox') = Len(outbox) /\ outbox'[n] = e
      /\ \A m \in 1 .. Len(outbox) : m # n => outbox'[m] = outbox[m]
  BY <1>1
<1>3. Targets /\ ReadyStays
  BY <1>1, <1>2 DEF Targets, ReadyStays
<1> DEFINE Gone(w) ==
             /\ worker'[w] \in Worker
             /\ worker'[w].phase \in {"polling", "starting"} /\ worker'[w].key = NoKey
             /\ worker'[w].phase = "starting" => worker'[w].batch # <<>>
             /\ \A i \in DOMAIN worker'[w].batch : worker'[w].batch[i] <= Len(outbox)
<1>4. /\ worker' \in [Workers -> Worker]
      /\ \A w \in Workers : worker'[w] = worker[w] \/ Gone(w)
  <2>1. CASE worker' = worker
    BY <1>1, <2>1
  <2>2. ASSUME NEW w \in Workers, worker[w].phase # "polling", worker[w].phase # "stored",
               Advance(w)
        PROVE  /\ worker' \in [Workers -> Worker]
               /\ \A v \in Workers \ {w} : worker'[v] = worker[v]
               /\ Gone(w)
    <3> DEFINE rest == Tail(worker[w].batch)
    <3>1. worker[w].batch \in Seq(1 .. MaxEvents) /\ worker[w].batch # <<>>
      BY <2>2, CurrentTypes
    <3>2. /\ rest \in Seq(1 .. MaxEvents) /\ Len(rest) = Len(worker[w].batch) - 1
          /\ \A i \in 1 .. Len(rest) : rest[i] = worker[w].batch[i + 1]
      BY <3>1, HeadTailProperties
    <3>3. \A i \in DOMAIN rest : rest[i] <= Len(outbox)
      <4> SUFFICES ASSUME NEW i \in 1 .. Len(rest)
                   PROVE  rest[i] <= Len(outbox)
        BY <3>2
      <4>1. i + 1 \in DOMAIN worker[w].batch
        BY <3>1, <3>2
      <4>2. worker[w].batch[i + 1] <= Len(outbox)
        BY <4>1 DEF PdfInv, WorkerOK
      <4> QED BY <3>2, <4>2
    <3> HIDE DEF rest
    <3>4. PICK p \in {"polling", "starting"} : p = IF rest = <<>> THEN "polling" ELSE "starting"
      OBVIOUS
    <3>5. PICK x \in Worker : x = [phase |-> p, batch |-> rest, key |-> NoKey]
      BY <3>2 DEF Worker
    <3>6. worker' = [worker EXCEPT ![w] = x]
      BY <3>4, <3>5, <2>2 DEF Advance, rest
    <3>7. x.phase = p /\ x.batch = rest /\ x.key = NoKey
      BY <3>5
    <3>8. worker'[w] = x
      BY <1>1, <3>6
    <3>9. p = "starting" => rest # <<>>
      BY <3>4
    <3>10. worker' \in [Workers -> Worker] /\ \A v \in Workers \ {w} : worker'[v] = worker[v]
      BY <1>1, <3>6
    <3> QED BY <3>3, <3>7, <3>8, <3>9, <3>10
  <2>3. CASE \E w \in Workers :
               worker[w].phase # "polling" /\ worker[w].phase # "stored" /\ Advance(w)
    <3>1. PICK w \in Workers :
            worker[w].phase # "polling" /\ worker[w].phase # "stored" /\ Advance(w)
      BY <2>3
    <3>2. /\ worker' \in [Workers -> Worker]
          /\ \A v \in Workers \ {w} : worker'[v] = worker[v]
          /\ Gone(w)
      BY <2>2, <3>1
    <3> HIDE DEF Gone
    <3> QED BY <3>2
  <2> QED BY <2>1, <2>3
<1>5. TypeInv'
  BY <1>2, <1>4 DEF PdfInv, TypeInv
<1>6. ASSUME NEW w \in Workers, worker'[w] = worker[w]
      PROVE  WorkerOK(w)' /\ (worker[w].phase # "polling" => CurrentPdf(w)' = CurrentPdf(w))
  <2>1. WorkerOK(w)
    BY DEF PdfInv
  <2>2. worker[w].phase \in Rendering => pdf[CurrentPdf(w)] # "READY"
    BY <2>1 DEF WorkerOK
  <2>3. worker[w].phase = "stored" => \A q \in Pdfs : document[q] # worker[w].key
    BY <2>1 DEF WorkerOK
  <2> QED BY <1>3, <1>5, <1>6, <2>2, <2>3, WorkerStays
<1>7. ASSUME NEW w \in Workers, Gone(w)
      PROVE  WorkerOK(w)'
  BY <1>2, <1>7 DEF WorkerOK, Rendering
<1>8. WorkersApart'
  <2> SUFFICES ASSUME NEW v \in Workers, NEW w \in Workers, v # w
               PROVE  /\ worker'[v].phase \in Rendering /\ worker'[w].phase \in Rendering =>
                           CurrentPdf(v)' # CurrentPdf(w)'
                      /\ worker'[v].key # NoKey => worker'[v].key # worker'[w].key
    BY DEF WorkersApart
  <2>1. CASE worker'[v] = worker[v] /\ worker'[w] = worker[w]
    <3>1. "polling" \notin Rendering
      BY DEF Rendering
    <3> QED BY <1>6, <2>1, <3>1 DEF PdfInv, WorkersApart
  <2>2. CASE Gone(v)
    BY <2>2 DEF Rendering
  <2>3. CASE worker'[v] = worker[v] /\ Gone(w)
    <3>1. worker'[v].key # NoKey => worker'[v].key # worker'[w].key
      BY <2>3
    <3> QED BY <2>3, <3>1 DEF Rendering
  <2> QED BY <1>4, <2>1, <2>2, <2>3
<1>9. ReadyHasFile'
  BY <1>3, ReadyKept
<1>10. \A m \in 1 .. Len(outbox') : outbox'[m].status = "PROCESSED" =>
         \/ m \in 1 .. Len(outbox) /\ outbox[m].status = "PROCESSED"
         \/ pdf'[outbox'[m].pdf] = "READY"
  BY <1>2
<1>11. ProcessedIsDelivered'
  BY <1>3, <1>5, <1>10, ProcessedKept
<1> HIDE DEF Gone
<1> QED BY <1>3, <1>4, <1>5, <1>6, <1>7, <1>8, <1>9, <1>11 DEF PdfInv
-----------------------------------------------------------------------------
\* A worker goes on with its event, and writes documents and files.
LEMMA ActKeeps ==
  ASSUME PdfInv, NEW w \in Workers, NEW x \in Worker, worker' = [worker EXCEPT ![w] = x],
         outbox' = outbox, x.batch = worker[w].batch,
         TypeInv', ReadyStays, ReadyHasFile', WorkerOK(w)',
         x.phase \in Rendering => worker[w].phase \in Rendering,
         \A v \in Workers \ {w} :
           /\ x.key # NoKey => worker[v].key # x.key
           /\ worker[v].phase \in Rendering => pdf'[CurrentPdf(v)] # "READY"
           /\ worker[v].phase = "stored" =>
                /\ file'[worker[v].key] = file[worker[v].key]
                /\ \A p \in Pdfs : document'[p] # worker[v].key
  PROVE  PdfInv'
<1>1. worker'[w] = x /\ \A v \in Workers \ {w} : worker'[v] = worker[v]
  BY DEF PdfInv, TypeInv
<1>2. Targets
  BY DEF PdfInv, TypeInv, Targets
<1>3. ASSUME NEW v \in Workers \ {w}
      PROVE  WorkerOK(v)' /\ (worker[v].phase # "polling" => CurrentPdf(v)' = CurrentPdf(v))
  <2>1. worker'[v] = worker[v]
    BY <1>1
  <2> QED BY <1>2, <2>1, WorkerStays
<1>4. CurrentPdf(w)' = CurrentPdf(w)
  BY <1>1 DEF CurrentPdf, Current
<1>5. WorkersApart'
  <2> SUFFICES ASSUME NEW u \in Workers, NEW v \in Workers, u # v
               PROVE  /\ worker'[u].phase \in Rendering /\ worker'[v].phase \in Rendering =>
                           CurrentPdf(u)' # CurrentPdf(v)'
                      /\ worker'[u].key # NoKey => worker'[u].key # worker'[v].key
    BY DEF WorkersApart
  <2>0. "polling" \notin Rendering
    BY DEF Rendering
  <2>1. worker'[u].phase \in Rendering /\ worker'[v].phase \in Rendering =>
          CurrentPdf(u)' # CurrentPdf(v)'
    <3>1. \A y \in Workers : worker'[y].phase \in Rendering =>
            worker[y].phase \in Rendering /\ CurrentPdf(y)' = CurrentPdf(y)
      BY <1>1, <1>3, <1>4, <2>0
    <3> QED BY <3>1 DEF PdfInv, WorkersApart
  <2>2. worker'[u].key # NoKey => worker'[u].key # worker'[v].key
    <3>1. CASE u # w /\ v # w
      BY <1>1, <3>1 DEF PdfInv, WorkersApart
    <3>2. CASE u = w
      BY <1>1, <3>2
    <3>3. CASE v = w
      BY <1>1, <3>3
    <3> QED BY <3>1, <3>2, <3>3
  <2> QED BY <2>1, <2>2
<1>6. ProcessedIsDelivered'
  BY <1>2, ProcessedKept
<1> QED BY <1>1, <1>3, <1>5, <1>6 DEF PdfInv

LEMMA MarkPdfFailedKeeps ==
  ASSUME PdfInv, NEW w \in Workers, MarkPdfFailed(w)
  PROVE  PdfInv' /\ ReadyStays
<1>1. worker[w].phase = "failed" /\ UNCHANGED <<outbox, document, file>>
  BY DEF MarkPdfFailed, In
<1>2. worker[w] \in Worker /\ worker \in [Workers -> Worker] /\ worker[w].key = NoKey
  BY <1>1 DEF PdfInv, TypeInv, WorkerOK
<1>3. PICK x \in Worker : x = [worker[w] EXCEPT !.phase = "retrying"]
  BY <1>2 DEF Worker
<1>4. x.phase = "retrying" /\ x.batch = worker[w].batch /\ x.key = NoKey
  BY <1>2, <1>3 DEF Worker
<1>5. worker' = [worker EXCEPT ![w] = x] /\ worker'[w] = x
  BY <1>2, <1>3 DEF MarkPdfFailed, Go
<1>6. pdf' \in [Pdfs -> PdfStatus] /\ \A p \in Pdfs : pdf'[p] = "READY" <=> pdf[p] = "READY"
  BY DEF MarkPdfFailed, PdfInv, TypeInv, PdfStatus
<1>7. TypeInv'
  BY <1>1, <1>2, <1>5, <1>6 DEF PdfInv, TypeInv
<1>8. ReadyStays
  BY <1>1, <1>6 DEF ReadyStays
<1>9. ReadyHasFile'
  BY <1>6, <1>8, ReadyKept
<1>10. WorkerOK(w)'
  BY <1>1, <1>4, <1>5 DEF PdfInv, WorkerOK, Rendering
<1>11. ASSUME NEW v \in Workers
       PROVE  /\ worker[v].phase \in Rendering => pdf'[CurrentPdf(v)] # "READY"
              /\ worker[v].phase = "stored" => \A p \in Pdfs : document[p] # worker[v].key
  <2>1. WorkerOK(v)
    BY DEF PdfInv
  <2>2. worker[v].phase \in Rendering => CurrentPdf(v) \in Pdfs
    BY CurrentTypes DEF Rendering
  <2> QED BY <1>6, <2>1, <2>2 DEF WorkerOK
<1>12. x.phase \notin Rendering
  BY <1>4 DEF Rendering
<1> QED
  BY <1>1, <1>4, <1>5, <1>7, <1>8, <1>9, <1>10, <1>11, <1>12, ActKeeps

LEMMA StoreKeeps ==
  ASSUME PdfInv, NEW w \in Workers, Store(w)
  PROVE  PdfInv' /\ ReadyStays
<1>1. worker[w].phase = "rendering" /\ UNCHANGED <<outbox, pdf, document>>
  BY DEF Store, In
<1>2. PICK k \in Keys :
        /\ FreshKey(k) /\ file' = [file EXCEPT ![k] = CurrentPdf(w)]
        /\ worker' = [worker EXCEPT ![w].phase = "stored", ![w].key = k]
  BY DEF Store
<1>3. worker[w] \in Worker /\ worker \in [Workers -> Worker] /\ CurrentPdf(w) \in Pdfs
  BY <1>1, CurrentTypes DEF PdfInv, TypeInv
<1>4. PICK x \in Worker : x = [worker[w] EXCEPT !.phase = "stored", !.key = k]
  BY <1>3 DEF Worker
<1>5. x.phase = "stored" /\ x.batch = worker[w].batch /\ x.key = k /\ k # NoKey
  BY <1>3, <1>4, PdfAssumption DEF Worker
<1>6. worker' = [worker EXCEPT ![w] = x] /\ worker'[w] = x
  BY <1>2, <1>3, <1>4
<1>7. /\ file' \in [Keys -> Pdfs \union {NoKey}] /\ file'[k] = CurrentPdf(w)
      /\ \A l \in Keys : l # k => file'[l] = file[l]
  BY <1>2, <1>3 DEF PdfInv, TypeInv
<1>8. TypeInv'
  BY <1>1, <1>3, <1>6, <1>7 DEF PdfInv, TypeInv
<1>9. /\ \A p \in Pdfs : document[p] # k
      /\ \A v \in Workers : worker[v].key # k
  BY <1>2 DEF FreshKey
<1>10. ReadyStays
  BY <1>1, <1>7, <1>9 DEF PdfInv, ReadyHasFile, ReadyStays
<1>11. ReadyHasFile'
  BY <1>1, <1>10, ReadyKept
<1>12. CurrentPdf(w)' = CurrentPdf(w)
  BY <1>1, <1>5, <1>6 DEF CurrentPdf, Current
<1>13. WorkerOK(w)'
  BY <1>1, <1>5, <1>6, <1>7, <1>9, <1>12 DEF PdfInv, WorkerOK, Rendering
<1>14. ASSUME NEW v \in Workers
       PROVE  /\ worker[v].phase \in Rendering => pdf[CurrentPdf(v)] # "READY"
              /\ worker[v].phase = "stored" =>
                   /\ file'[worker[v].key] = file[worker[v].key]
                   /\ \A p \in Pdfs : document[p] # worker[v].key
  <2>1. WorkerOK(v)
    BY DEF PdfInv
  <2>2. worker[v].phase = "stored" => worker[v].key \in Keys
    BY <2>1 DEF PdfInv, TypeInv, WorkerOK, Worker
  <2> QED BY <1>7, <1>9, <2>1, <2>2 DEF WorkerOK
<1>15. worker[w].phase \in Rendering
  BY <1>1 DEF Rendering
<1> QED
  BY <1>1, <1>5, <1>6, <1>8, <1>9, <1>10, <1>11, <1>13, <1>14, <1>15, ActKeeps

LEMMA CommitPdfKeeps ==
  ASSUME PdfInv, NEW w \in Workers, CommitPdf(w)
  PROVE  PdfInv' /\ ReadyStays
<1> DEFINE c == CurrentPdf(w)
           k == worker[w].key
<1>1. worker[w].phase = "stored" /\ UNCHANGED <<outbox, file>>
  BY DEF CommitPdf, In
<1>2. PICK p \in {"handled", "failed"} :
        worker' = [worker EXCEPT ![w].phase = p, ![w].key = NoKey]
  BY DEF CommitPdf
<1>3. /\ worker[w] \in Worker /\ worker \in [Workers -> Worker] /\ WorkerOK(w)
      /\ c \in Pdfs
  BY <1>1, CurrentTypes DEF PdfInv, TypeInv
<1>4. k \in Keys /\ file[k] = c /\ pdf[c] # "READY"
  BY <1>1, <1>3 DEF WorkerOK, Worker, Rendering
<1>5. PICK x \in Worker : x = [worker[w] EXCEPT !.phase = p, !.key = NoKey]
  BY <1>3 DEF Worker
<1>6. x.phase = p /\ x.batch = worker[w].batch /\ x.key = NoKey
  BY <1>3, <1>5 DEF Worker
<1>7. worker' = [worker EXCEPT ![w] = x] /\ worker'[w] = x
  BY <1>2, <1>3, <1>5
<1>8. /\ pdf' \in [Pdfs -> PdfStatus] /\ document' \in [Pdfs -> Keys \union {NoKey}]
      /\ pdf'[c] = "READY" /\ document'[c] = k
      /\ \A q \in Pdfs : q # c => pdf'[q] = pdf[q] /\ document'[q] = document[q]
  BY <1>3, <1>4 DEF CommitPdf, PdfInv, TypeInv, PdfStatus
<1>9. TypeInv'
  BY <1>1, <1>3, <1>7, <1>8 DEF PdfInv, TypeInv
<1>10. ReadyStays
  BY <1>1, <1>4, <1>8 DEF ReadyStays
<1>11. ReadyHasFile'
  BY <1>1, <1>4, <1>8 DEF PdfInv, ReadyHasFile
<1>12. CurrentPdf(w)' = c
  BY <1>1, <1>6, <1>7 DEF CurrentPdf, Current
<1>13. WorkerOK(w)'
  <2>1. p \notin {"polling", "stored"} /\ p \notin Rendering
    BY DEF Rendering
  <2>2. worker[w].batch # <<>>
    BY <1>1, <1>3 DEF WorkerOK
  <2> QED BY <1>1, <1>3, <1>6, <1>7, <1>8, <1>12, <2>1, <2>2 DEF WorkerOK
<1>14. ASSUME NEW v \in Workers \ {w}
       PROVE  /\ worker[v].phase \in Rendering => pdf'[CurrentPdf(v)] # "READY"
              /\ worker[v].phase = "stored" =>
                   \A q \in Pdfs : document'[q] # worker[v].key
  <2>1. WorkerOK(v)
    BY DEF PdfInv
  <2>2. worker[v].phase \in Rendering => CurrentPdf(v) \in Pdfs /\ CurrentPdf(v) # c
    BY <1>1, CurrentTypes DEF PdfInv, WorkersApart, Rendering
  <2>3. worker[v].phase = "stored" => worker[v].key # k
    BY <2>1 DEF PdfInv, WorkersApart, WorkerOK
  <2> QED BY <1>8, <2>1, <2>2, <2>3 DEF WorkerOK
<1>15. x.phase \notin Rendering
  BY <1>6 DEF Rendering
<1> QED
  BY <1>1, <1>6, <1>7, <1>9, <1>10, <1>11, <1>13, <1>14, <1>15, ActKeeps

LEMMA MarkProcessedKeeps ==
  ASSUME PdfInv, NEW w \in Workers, MarkProcessed(w)
  PROVE  PdfInv' /\ ReadyStays
<1> DEFINE n == Current(w)
<1>1. worker[w].phase = "handled" /\ UNCHANGED <<pdf, document, file>> /\ Advance(w)
  BY DEF MarkProcessed, In
<1>2. /\ n \in 1 .. Len(outbox) /\ outbox[n] \in Event
      /\ pdf[outbox[n].pdf] = "READY"
  BY <1>1, CurrentTypes DEF PdfInv, WorkerOK, CurrentPdf
<1>3. PICK e \in Event : e = [outbox[n] EXCEPT !.status = "PROCESSED"]
  BY <1>2 DEF Event
<1>4. e.pdf = outbox[n].pdf
  BY <1>2, <1>3 DEF Event
<1>5. outbox' = [outbox EXCEPT ![n] = e]
  BY <1>2, <1>3 DEF MarkProcessed
<1> HIDE DEF n
<1> QED BY <1>1, <1>2, <1>4, <1>5, WriteKeeps

LEMMA ScheduleRetryKeeps ==
  ASSUME PdfInv, NEW w \in Workers, ScheduleRetry(w)
  PROVE  PdfInv' /\ ReadyStays
<1> DEFINE n == Current(w)
<1>1. worker[w].phase = "retrying" /\ UNCHANGED <<pdf, document, file>> /\ Advance(w)
  BY DEF ScheduleRetry, In
<1>2. n \in 1 .. Len(outbox) /\ outbox[n] \in Event
  BY <1>1, CurrentTypes
<1>3. PICK q \in {"FAILED", "PENDING"} :
        outbox' = [outbox EXCEPT ![n] = [outbox[n] EXCEPT !.attempts = @ + 1,
                                                          !.due = FALSE, !.status = q]]
  BY DEF ScheduleRetry
<1>4. PICK e \in Event :
        e = [outbox[n] EXCEPT !.attempts = @ + 1, !.due = FALSE, !.status = q]
  <2>1. outbox[n].attempts + 1 \in Nat
    BY <1>2 DEF Event
  <2> QED BY <1>2, <2>1 DEF Event
<1>5. e.pdf = outbox[n].pdf /\ e.status = q
  BY <1>2, <1>4 DEF Event
<1>6. outbox' = [outbox EXCEPT ![n] = e]
  BY <1>3, <1>4
<1> HIDE DEF n
<1> QED BY <1>1, <1>2, <1>5, <1>6, WriteKeeps

LEMMA BecomeDueKeeps ==
  ASSUME PdfInv, NEW n \in 1 .. MaxEvents, BecomeDue(n)
  PROVE  PdfInv' /\ ReadyStays
<1>1. n \in 1 .. Len(outbox) /\ outbox[n] \in Event /\ UNCHANGED <<pdf, document, file, worker>>
  BY DEF BecomeDue, PdfInv, TypeInv
<1>2. PICK e \in Event : e = [outbox[n] EXCEPT !.due = TRUE]
  BY <1>1 DEF Event
<1>3. e.pdf = outbox[n].pdf /\ e.status = outbox[n].status
  BY <1>1, <1>2 DEF Event
<1>4. outbox' = [outbox EXCEPT ![n] = e]
  BY <1>1, <1>2 DEF BecomeDue
<1> QED BY <1>1, <1>3, <1>4, WriteKeeps
-----------------------------------------------------------------------------
LEMMA PdfInit == Init => PdfInv
<1> SUFFICES ASSUME Init
             PROVE  PdfInv
  OBVIOUS
<1>1. Polling \in Worker /\ Polling.phase = "polling" /\ Polling.key = NoKey
      /\ Polling.batch = <<>>
  BY DEF Polling, Worker
<1>2. \A w \in Workers : worker[w] = Polling
  BY DEF Init
<1>3. outbox = <<>> /\ \A p \in Pdfs : pdf[p] = "NONE"
  BY DEF Init
<1>4. TypeInv
  BY <1>1, PdfAssumption DEF Init, TypeInv, PdfStatus
<1>5. \A w \in Workers : WorkerOK(w)
  BY <1>1, <1>2 DEF WorkerOK, Rendering
<1>6. WorkersApart
  BY <1>1, <1>2 DEF WorkersApart, Rendering
<1>7. ReadyHasFile /\ ProcessedIsDelivered
  BY <1>3 DEF ReadyHasFile, ProcessedIsDelivered
<1> QED BY <1>4, <1>5, <1>6, <1>7 DEF PdfInv

\* One step of a worker, of somebody who asks, or of time.
LEMMA PdfStep ==
  ASSUME PdfInv, [Next]_vars
  PROVE  PdfInv' /\ ReadyStays
<1>1. CASE Request
  <2>1. PICK p \in Pdfs : Asks(p)
    BY <1>1 DEF Request, IssueInvoice, RetryInvoicePdf, RequestReminderPdf, Asks, Pdfs
  <2> QED BY <2>1, AskKeeps
<1>2. ASSUME NEW w \in Workers, WorkerStep(w)
      PROVE  PdfInv' /\ ReadyStays
  BY <1>2, ClaimKeeps, QuietKeeps, StoreKeeps, CommitPdfKeeps, MarkPdfFailedKeeps,
     MarkProcessedKeeps, ScheduleRetryKeeps DEF WorkerStep
<1>3. CASE UNCHANGED vars
  <2>1. PdfInv'
    BY <1>3 DEF vars, PdfInv, TypeInv, WorkersApart, WorkerOK, CurrentPdf, Current,
                ReadyHasFile, ProcessedIsDelivered
  <2> QED BY <1>3, <2>1 DEF vars, ReadyStays
<1> QED BY <1>1, <1>2, <1>3, CrashKeeps, BecomeDueKeeps DEF Next

\* The inductive invariant of rendering: whoever renders has the row, and what
\* he has stored and not committed is nobody else's.
THEOREM PdfInvariant == Spec => []PdfInv
<1>1. PdfInv /\ [Next]_vars => PdfInv'
  BY PdfStep
<1> QED BY <1>1, PdfInit, PTL DEF Spec

\* A READY row has a document whose file is stored and is its own, however many
\* workers, failures and crashes there are.
THEOREM PdfReadyHasFile == Spec => []ReadyHasFile
<1>1. PdfInv => ReadyHasFile
  BY DEF PdfInv
<1> QED BY <1>1, PdfInvariant, PTL

\* No event is marked done before its PDF is there.
THEOREM PdfDelivered == Spec => []ProcessedIsDelivered
<1>1. PdfInv => ProcessedIsDelivered
  BY DEF PdfInv
<1> QED BY <1>1, PdfInvariant, PTL

\* ADR-0018: no late failure, duplicate event or second worker changes a PDF that
\* is there, its document or its file.
THEOREM PdfReadyIsFinal == Spec => ReadyIsFinal
<1>1. PdfInv /\ [Next]_vars =>
        [\A p \in Pdfs : pdf[p] = "READY" =>
           /\ pdf'[p] = "READY" /\ document'[p] = document[p]
           /\ file'[document[p]] = file[document[p]]]_vars
  BY PdfStep DEF ReadyStays
<1> QED BY <1>1, PdfInvariant, PTL DEF Spec, ReadyIsFinal

-----------------------------------------------------------------------------
(***************************************************************************)
(* The sales desk.                                                         *)
(***************************************************************************)
Doc ==
  [kind : {"INVOICE", "REMINDER"}, template : Templates \union {None},
   date : [m : Nat, d : 1..31], step : Nat, of : Nat,
   status : {"DRAFT", "ISSUED", "CANCELLED_DRAFT", "CREDITED"},
   state : {"NOT_SENT", "DRAFT", "EINVOICE_READY", "SENT", "FAILED"},
   pdf : BOOLEAN, confirmed : Nat, told : Nat]

Job == [todo : Seq(Templates), mine : SUBSET Templates, doc : Nat]

Sending == {"mail", "tell", "mark", "audit", "tell failure", "mark failure"}
Phase == {"idle", "series", "settings", "draft", "lock"} \union Sending

DeskTypes ==
  /\ today \in Nat /\ ops \in Nat /\ customer \in BOOLEAN
  /\ series \in Requests \union {"none", "set", "inactive"}
  /\ settings \in Requests \union {"none", "set"}
  /\ template \in [Templates -> TemplateRow \union {None}]
  /\ locks \in [Templates -> Requests \union {None}]
  /\ docs \in Seq(Doc)
  /\ phase \in [Requests -> Phase]
  /\ job \in [Requests -> Job]

\* What a run has taken is locked by it, there, and due.
MineLocked ==
  \A r \in Requests :
    /\ phase[r] # "lock" => job[r].mine = {}
    /\ \A t \in job[r].mine : locks[t] = r /\ DueNow(t)

\* EveryPeriodBilled of one template, without the choice of the next invoice.
Billed(t) ==
  \A i \in InvoicesOf(t) :
    /\ docs[i].date.m <= today
    /\ template[t] # None
    /\ \A j \in Following(i) : docs[j].date.m = docs[i].date.m + docs[i].step
    /\ Following(i) = {} => template[t].next.m = docs[i].date.m + docs[i].step

BillingInv == DeskTypes /\ MineLocked /\ \A t \in Templates : Billed(t)

\* The sends of a document that have resolved and still owe the history a row.
Owes(r) ==
  \/ phase[r] = "tell"
  \/ phase[r] = "mark" /\ docs[job[r].doc].kind = "REMINDER"

Owing(i) == {r \in Requests : job[r].doc = i /\ Owes(r)}

SendingKnown ==
  \A r \in Requests : phase[r] \in Sending => job[r].doc \in DOMAIN docs

ConfirmedBefore ==
  \A r \in Requests : phase[r] \in {"tell", "mark"} => docs[job[r].doc].confirmed > 0

ToldAfterConfirmed ==
  \A i \in DOMAIN docs :
    /\ docs[i].told + Cardinality(Owing(i)) <= docs[i].confirmed
    /\ docs[i].state = "SENT" => docs[i].confirmed > 0

SendingInv == SendingKnown /\ ConfirmedBefore /\ ToldAfterConfirmed
-----------------------------------------------------------------------------
\* What every step but a run of the templates does to the documents: those that
\* are there stay what they are, and none comes from a template.
Filed(i) ==
  /\ docs'[i].kind = docs[i].kind /\ docs'[i].template = docs[i].template
  /\ docs'[i].date = docs[i].date /\ docs'[i].step = docs[i].step

NoneGenerated ==
  /\ DOMAIN docs \subseteq DOMAIN docs'
  /\ \A i \in DOMAIN docs : Filed(i)
  /\ \A i \in DOMAIN docs' \ DOMAIN docs : docs'[i].template = None

\* The row of an invoice has the shape of its table.
LEMMA InvoiceType ==
  ASSUME NEW t \in Templates \union {None}, NEW m \in Nat, NEW d \in 1..31, NEW step \in Nat
  PROVE  Invoice(t, [m |-> m, d |-> d], step) \in Doc
BY DEF Invoice, Doc

\* The next run is a day of a month.
LEMMA NextRunType ==
  ASSUME NEW date \in [m : Nat, d : 1..31], NEW step \in Nat
  PROVE  NextRun(date, step) \in [m : Nat, d : 1..31]
<1>1. LastDay(date.m + step) \in 1..31
  BY DEF LastDay
<1> QED BY <1>1 DEF NextRun, Smaller

\* The end of a transaction, for the request and for the others.
LEMMA EndTxTypes ==
  ASSUME DeskTypes, NEW r \in Requests, NEW done \in BOOLEAN, EndTx(r, done)
  PROVE  /\ series' \in Requests \union {"none", "set", "inactive"}
         /\ settings' \in Requests \union {"none", "set"}
         /\ locks' \in [Templates -> Requests \union {None}]
         /\ phase' \in [Requests -> Phase] /\ phase'[r] = "idle"
         /\ job' \in [Requests -> Job] /\ job'[r].mine = {}
         /\ \A q \in Requests \ {r} : phase'[q] = phase[q] /\ job'[q] = job[q]
         /\ \A t \in Templates : locks[t] # r => locks'[t] = locks[t]
<1>1. NoJob \in Job
  BY DEF NoJob, Job
<1>2. /\ phase' \in [Requests -> Phase] /\ phase'[r] = "idle"
      /\ job' \in [Requests -> Job] /\ job'[r] = NoJob
      /\ \A q \in Requests \ {r} : phase'[q] = phase[q] /\ job'[q] = job[q]
  BY <1>1 DEF EndTx, GoTo, DeskTypes, Phase
<1>3. /\ series' \in Requests \union {"none", "set", "inactive"}
      /\ settings' \in Requests \union {"none", "set"}
  BY DEF EndTx, Settled, DeskTypes
<1>4. /\ locks' \in [Templates -> Requests \union {None}]
      /\ \A t \in Templates : locks[t] # r => locks'[t] = locks[t]
  BY DEF EndTx, Released, DeskTypes
<1> QED BY <1>2, <1>3, <1>4 DEF NoJob

\* An order of a finite set lists each of its members once.
LEMMA OrdersList ==
  ASSUME NEW S, S \subseteq Templates, NEW q \in Orders(S)
  PROVE  /\ IsFiniteSet(S) /\ Cardinality(S) \in Nat
         /\ q \in [1..Cardinality(S) -> S] /\ q \in Seq(S) /\ Len(q) = Cardinality(S)
         /\ \A i, j \in 1..Cardinality(S) : q[i] = q[j] => i = j
         /\ \A t \in S : \E i \in 1..Cardinality(S) : q[i] = t
<1>1. IsFiniteSet(S) /\ Cardinality(S) \in Nat
  BY FS_Subset, FS_CardinalityType, SalesDeskAssumption
<1>2. q \in [1..Cardinality(S) -> S]
  BY DEF Orders
<1>3. q \in Seq(S) /\ Len(q) = Cardinality(S)
  BY <1>1, <1>2
<1>4. \A i, j \in 1..Cardinality(S) : q[i] = q[j] => i = j
  <2> SUFFICES ASSUME NEW i \in 1..Cardinality(S), NEW j \in 1..Cardinality(S), i # j
      PROVE  q[i] # q[j]
    OBVIOUS
  <2>1. i < j \/ j < i
    BY <1>1
  <2> QED BY <2>1 DEF Orders
<1>5. q \in Injection(1..Cardinality(S), S)
  BY <1>2, <1>4 DEF Injection, IsInjective
<1>6. Cardinality(1..Cardinality(S)) = Cardinality(S)
  BY <1>1, FS_Interval
<1>7. q \in Surjection(1..Cardinality(S), S)
  BY <1>1, <1>5, <1>6, FS_Injection
<1> QED BY <1>1, <1>2, <1>3, <1>4, <1>7 DEF Surjection

\* What a run of the templates does to the documents: it adds an invoice for each.
LEMMA GeneratedList ==
  ASSUME DeskTypes, NEW S, S \subseteq Templates, \A t \in S : template[t] \in TemplateRow,
         NEW q \in Orders(S),
         docs' = docs \o [i \in DOMAIN q |->
                   Invoice(q[i], template[q[i]].next, template[q[i]].step)]
  PROVE  /\ docs' \in Seq(Doc) /\ Len(docs') = Len(docs) + Cardinality(S)
         /\ Cardinality(S) \in Nat
         /\ \A i \in DOMAIN docs : docs'[i] = docs[i]
         /\ \A k \in 1..Cardinality(S) :
              /\ q[k] \in S
              /\ docs'[Len(docs) + k] =
                   Invoice(q[k], template[q[k]].next, template[q[k]].step)
<1> DEFINE new == [i \in DOMAIN q |-> Invoice(q[i], template[q[i]].next, template[q[i]].step)]
           n == Cardinality(S)
<1>1. n \in Nat /\ DOMAIN q = 1..n /\ \A i \in 1..n : q[i] \in S
  BY OrdersList
<1>2. \A i \in 1..n : new[i] \in Doc
  <2> SUFFICES ASSUME NEW i \in 1..n
      PROVE  new[i] \in Doc
    OBVIOUS
  <2>1. template[q[i]] \in TemplateRow /\ q[i] \in Templates
    BY <1>1
  <2>2. /\ template[q[i]].next = [m |-> template[q[i]].next.m, d |-> template[q[i]].next.d]
        /\ template[q[i]].next.m \in Nat /\ template[q[i]].next.d \in 1..31
        /\ template[q[i]].step \in Nat
    BY <2>1, SalesDeskAssumption DEF TemplateRow
  <2> HIDE DEF n
  <2>3. Invoice(q[i], template[q[i]].next, template[q[i]].step) \in Doc
    BY <2>1, <2>2, InvoiceType
  <2> QED BY <2>3, <1>1
<1>3. new \in Seq(Doc) /\ Len(new) = n
  <2>1. new \in [1..n -> Doc]
    BY <1>1, <1>2
  <2> HIDE DEF new, n
  <2> QED BY <1>1, <2>1
<1>4. docs \in Seq(Doc) /\ docs' = docs \o new
  BY DEF DeskTypes
<1>5. \A k \in 1..n : new[k] = Invoice(q[k], template[q[k]].next, template[q[k]].step)
  BY <1>1
<1> HIDE DEF new, n
<1>6. docs' \in Seq(Doc) /\ Len(docs') = Len(docs) + n
  BY <1>3, <1>4, ConcatProperties
<1>7. \A i \in DOMAIN docs : docs'[i] = docs[i]
  BY <1>3, <1>4
<1>8. \A k \in 1..n : docs'[Len(docs) + k] = new[k]
  BY <1>1, <1>3, <1>4
<1> QED BY <1>1, <1>5, <1>6, <1>7, <1>8 DEF n
-----------------------------------------------------------------------------
\* A function on 1 .. n is a sequence.
LEMMA FunctionIsSeq ==
  ASSUME NEW S, NEW n \in Nat, NEW f \in [1..n -> S]
  PROVE  f \in Seq(S) /\ Len(f) = n
OBVIOUS

\* A document that is changed in fields that do not say what it is.
LEMMA EditedDoc ==
  ASSUME DeskTypes, NEW i, NEW d, docs' = [docs EXCEPT ![i] = d],
         i \in DOMAIN docs =>
           /\ d \in Doc
           /\ d.kind = docs[i].kind /\ d.template = docs[i].template
           /\ d.date = docs[i].date /\ d.step = docs[i].step
  PROVE  /\ docs' \in Seq(Doc) /\ DOMAIN docs' = DOMAIN docs /\ NoneGenerated
         /\ \A j \in DOMAIN docs : j # i => docs'[j] = docs[j]
         /\ i \in DOMAIN docs => docs'[i] = d
<1>1. docs \in Seq(Doc)
  BY DEF DeskTypes
<1>2. docs' \in Seq(Doc) /\ DOMAIN docs' = DOMAIN docs
  <2>1. Len(docs) \in Nat /\ DOMAIN docs = 1..Len(docs)
    BY <1>1
  <2>2. \A j \in 1..Len(docs) : docs[j] \in Doc /\ (j = i => d \in Doc)
    BY <1>1, <2>1
  <2>3. docs' = [j \in 1..Len(docs) |-> IF j = i THEN d ELSE docs[j]]
    BY <2>1
  <2>4. docs' \in [1..Len(docs) -> Doc]
    BY <2>2, <2>3
  <2>5. docs' \in Seq(Doc) /\ Len(docs') = Len(docs)
    BY <2>1, <2>4, FunctionIsSeq
  <2> QED BY <2>1, <2>5
<1>3. /\ \A j \in DOMAIN docs : j # i => docs'[j] = docs[j]
      /\ i \in DOMAIN docs => docs'[i] = d
  BY <1>1
<1>4. NoneGenerated
  BY <1>2, <1>3 DEF NoneGenerated, Filed
<1> QED BY <1>2, <1>3, <1>4

\* A document that is added, and comes from no template.
LEMMA AppendedDoc ==
  ASSUME DeskTypes, NEW d \in Doc, d.template = None, docs' = Append(docs, d)
  PROVE  /\ docs' \in Seq(Doc) /\ NoneGenerated
         /\ DOMAIN docs' = DOMAIN docs \union {Len(docs) + 1}
         /\ \A i \in DOMAIN docs : docs'[i] = docs[i]
         /\ docs'[Len(docs) + 1] = d
<1>1. docs \in Seq(Doc)
  BY DEF DeskTypes
<1>2. /\ docs' \in Seq(Doc) /\ Len(docs') = Len(docs) + 1
      /\ \A i \in DOMAIN docs : docs'[i] = docs[i]
      /\ docs'[Len(docs) + 1] = d
  BY <1>1, AppendProperties
<1>3. DOMAIN docs' = DOMAIN docs \union {Len(docs) + 1}
  BY <1>1, <1>2
<1>4. NoneGenerated
  BY <1>2, <1>3 DEF NoneGenerated, Filed
<1> QED BY <1>2, <1>3, <1>4

\* Documents nobody touches.
LEMMA SameDocs ==
  ASSUME DeskTypes, UNCHANGED docs
  PROVE  docs' \in Seq(Doc) /\ NoneGenerated
BY DEF DeskTypes, NoneGenerated, Filed

\* A request that goes on to another phase.
LEMMA GoToTypes ==
  ASSUME DeskTypes, NEW r \in Requests, NEW p \in Phase, GoTo(r, p)
  PROVE  /\ phase' \in [Requests -> Phase] /\ phase'[r] = p
         /\ \A q \in Requests \ {r} : phase'[q] = phase[q]
BY DEF DeskTypes, GoTo

\* A document with a field set is a document.
LEMMA EditTypes ==
  ASSUME DeskTypes, NEW i \in DOMAIN docs
  PROVE  /\ docs[i] \in Doc
         /\ [docs[i] EXCEPT !.pdf = TRUE] \in Doc
         /\ [docs[i] EXCEPT !.confirmed = @ + 1] \in Doc
         /\ [docs[i] EXCEPT !.told = @ + 1] \in Doc
         /\ \A s \in {"ISSUED", "CANCELLED_DRAFT", "CREDITED"} :
              [docs[i] EXCEPT !.status = s] \in Doc
         /\ \A s \in {"EINVOICE_READY", "SENT", "FAILED"} :
              [docs[i] EXCEPT !.state = s] \in Doc
<1>1. docs[i] \in Doc
  BY DEF DeskTypes
<1>2. [docs[i] EXCEPT !.pdf = TRUE] \in Doc
  BY <1>1 DEF Doc
<1>3. /\ [docs[i] EXCEPT !.confirmed = @ + 1] \in Doc
      /\ [docs[i] EXCEPT !.told = @ + 1] \in Doc
  BY <1>1 DEF Doc
<1>4. \A s \in {"ISSUED", "CANCELLED_DRAFT", "CREDITED"} :
        [docs[i] EXCEPT !.status = s] \in Doc
  BY <1>1 DEF Doc
<1>5. \A s \in {"EINVOICE_READY", "SENT", "FAILED"} :
        [docs[i] EXCEPT !.state = s] \in Doc
  BY <1>1 DEF Doc
<1> QED BY <1>1, <1>2, <1>3, <1>4, <1>5
\* The fields that steps set, one at a time.
LEMMA FieldSet ==
  ASSUME DeskTypes, NEW i,
         \/ docs' = [docs EXCEPT ![i].pdf = TRUE]
         \/ docs' = [docs EXCEPT ![i].confirmed = @ + 1]
         \/ docs' = [docs EXCEPT ![i].told = @ + 1]
         \/ \E s \in {"ISSUED", "CANCELLED_DRAFT", "CREDITED"} :
              docs' = [docs EXCEPT ![i].status = s]
         \/ \E s \in {"EINVOICE_READY", "SENT", "FAILED"} :
              docs' = [docs EXCEPT ![i].state = s]
  PROVE  docs' \in Seq(Doc) /\ NoneGenerated /\ DOMAIN docs' = DOMAIN docs
<1> DEFINE Kept(d) == /\ d \in Doc
                      /\ d.kind = docs[i].kind /\ d.template = docs[i].template
                      /\ d.date = docs[i].date /\ d.step = docs[i].step
           Set(d) == docs' = [docs EXCEPT ![i] = d]
<1>1. ASSUME NEW d, Set(d), i \in DOMAIN docs => Kept(d)
      PROVE  docs' \in Seq(Doc) /\ NoneGenerated /\ DOMAIN docs' = DOMAIN docs
  BY <1>1, EditedDoc
<1>2. CASE docs' = [docs EXCEPT ![i].pdf = TRUE]
  <2> DEFINE d == [docs[i] EXCEPT !.pdf = TRUE]
  <2>1. Set(d)
    BY <1>2
  <2>2. i \in DOMAIN docs => Kept(d)
    <3>1. i \in DOMAIN docs => docs[i] \in Doc /\ d \in Doc
      BY EditTypes
    <3>2. docs[i] \in Doc => /\ d.kind = docs[i].kind /\ d.template = docs[i].template
                            /\ d.date = docs[i].date /\ d.step = docs[i].step
      BY DEF Doc
    <3> QED BY <3>1, <3>2
  <2> HIDE DEF d, Set, Kept
  <2> QED BY <1>1, <2>1, <2>2
<1>3. CASE docs' = [docs EXCEPT ![i].confirmed = @ + 1]
  <2> DEFINE d == [docs[i] EXCEPT !.confirmed = @ + 1]
  <2>1. Set(d)
    BY <1>3
  <2>2. i \in DOMAIN docs => Kept(d)
    <3>1. i \in DOMAIN docs => docs[i] \in Doc /\ d \in Doc
      BY EditTypes
    <3>2. docs[i] \in Doc => /\ d.kind = docs[i].kind /\ d.template = docs[i].template
                            /\ d.date = docs[i].date /\ d.step = docs[i].step
      BY DEF Doc
    <3> QED BY <3>1, <3>2
  <2> HIDE DEF d, Set, Kept
  <2> QED BY <1>1, <2>1, <2>2
<1>4. CASE docs' = [docs EXCEPT ![i].told = @ + 1]
  <2> DEFINE d == [docs[i] EXCEPT !.told = @ + 1]
  <2>1. Set(d)
    BY <1>4
  <2>2. i \in DOMAIN docs => Kept(d)
    <3>1. i \in DOMAIN docs => docs[i] \in Doc /\ d \in Doc
      BY EditTypes
    <3>2. docs[i] \in Doc => /\ d.kind = docs[i].kind /\ d.template = docs[i].template
                            /\ d.date = docs[i].date /\ d.step = docs[i].step
      BY DEF Doc
    <3> QED BY <3>1, <3>2
  <2> HIDE DEF d, Set, Kept
  <2> QED BY <1>1, <2>1, <2>2
<1>5. CASE \E s \in {"ISSUED", "CANCELLED_DRAFT", "CREDITED"} :
             docs' = [docs EXCEPT ![i].status = s]
  <2>0. PICK s \in {"ISSUED", "CANCELLED_DRAFT", "CREDITED"} :
          docs' = [docs EXCEPT ![i].status = s]
    BY <1>5
  <2> DEFINE d == [docs[i] EXCEPT !.status = s]
  <2>1. Set(d)
    BY <2>0
  <2>2. i \in DOMAIN docs => Kept(d)
    <3>1. i \in DOMAIN docs => docs[i] \in Doc /\ d \in Doc
      BY EditTypes
    <3>2. docs[i] \in Doc => /\ d.kind = docs[i].kind /\ d.template = docs[i].template
                            /\ d.date = docs[i].date /\ d.step = docs[i].step
      BY DEF Doc
    <3> QED BY <3>1, <3>2
  <2> HIDE DEF d, Set, Kept
  <2> QED BY <1>1, <2>1, <2>2
<1>6. CASE \E s \in {"EINVOICE_READY", "SENT", "FAILED"} :
             docs' = [docs EXCEPT ![i].state = s]
  <2>0. PICK s \in {"EINVOICE_READY", "SENT", "FAILED"} :
          docs' = [docs EXCEPT ![i].state = s]
    BY <1>6
  <2> DEFINE d == [docs[i] EXCEPT !.state = s]
  <2>1. Set(d)
    BY <2>0
  <2>2. i \in DOMAIN docs => Kept(d)
    <3>1. i \in DOMAIN docs => docs[i] \in Doc /\ d \in Doc
      BY EditTypes
    <3>2. docs[i] \in Doc => /\ d.kind = docs[i].kind /\ d.template = docs[i].template
                            /\ d.date = docs[i].date /\ d.step = docs[i].step
      BY DEF Doc
    <3> QED BY <3>1, <3>2
  <2> HIDE DEF d, Set, Kept
  <2> QED BY <1>1, <2>1, <2>2
<1> QED BY <1>2, <1>3, <1>4, <1>5, <1>6

-----------------------------------------------------------------------------
(***************************************************************************)
(* What a step of a request leaves alone: documents keep what they are,    *)
(* no template is lost or moved, and nobody else is touched.               *)
(***************************************************************************)
TemplatesStay ==
  /\ template' \in [Templates -> TemplateRow \union {None}]
  /\ \A t \in Templates : InvoicesOf(t) # {} /\ template[t] # None =>
       template'[t] # None /\ template'[t].next = template[t].next

OthersStay(r) ==
  \A q \in Requests \ {r} :
    /\ phase'[q] = phase[q] /\ job'[q] = job[q]
    /\ \A t \in Templates : locks[t] = q => locks'[t] = q

Own(r) ==
  /\ phase' \in [Requests -> Phase] /\ job' \in [Requests -> Job]
  /\ locks' \in [Templates -> Requests \union {None}]
  /\ OthersStay(r)

\* The end of a transaction touches nobody else.
LEMMA EndTxOwn ==
  ASSUME DeskTypes, NEW r \in Requests, NEW done \in BOOLEAN, EndTx(r, done)
  PROVE  /\ Own(r) /\ phase'[r] = "idle" /\ job'[r].mine = {}
         /\ series' \in Requests \union {"none", "set", "inactive"}
         /\ settings' \in Requests \union {"none", "set"}
BY EndTxTypes DEF Own, OthersStay, DeskTypes

\* A request that goes on touches nobody else.
LEMMA GoToOwn ==
  ASSUME DeskTypes, NEW r \in Requests, NEW p \in Phase, GoTo(r, p),
         UNCHANGED <<locks, job>>
  PROVE  Own(r) /\ phase'[r] = p /\ job'[r] = job[r]
BY GoToTypes DEF Own, OthersStay, DeskTypes

\* The requests served are counted.
LEMMA ServedType ==
  ASSUME DeskTypes, Served
  PROVE  ops' \in Nat
BY DEF DeskTypes, Served

\* The steps of a draft.
LEMMA DraftSteps ==
  ASSUME DeskTypes, NEW r \in Requests,
         \/ DraftBegin(r) \/ EnsureSeries(r) \/ EnsureSettings(r)
         \/ Draft(r) \/ DraftRefused(r) \/ DeadlockAbort(r) \/ Fail(r)
  PROVE  /\ DeskTypes' /\ NoneGenerated /\ TemplatesStay /\ Own(r)
         /\ today' = today /\ template' = template
         /\ phase'[r] \notin {"lock"} \union Sending
         /\ phase[r] # "lock" => job'[r].mine = job[r].mine \/ job'[r].mine = {}
         /\ phase[r] = "lock" => job'[r].mine = {}
         /\ \A i \in DOMAIN docs : docs'[i] = docs[i]
         /\ \A i \in DOMAIN docs' \ DOMAIN docs : docs'[i].told = 0 /\ docs'[i].confirmed = 0
                                                    /\ docs'[i].state # "SENT"
<1>1. CASE DraftBegin(r)
  <2>1. ops' \in Nat
    BY <1>1, ServedType DEF DraftBegin, Begin
  <2>2. PICK p \in {"draft", "series"} : GoTo(r, p)
    BY <1>1 DEF DraftBegin, Begin
  <2>3. Own(r) /\ phase'[r] = p /\ job'[r] = job[r]
    BY <1>1, <2>2, GoToOwn DEF DraftBegin, Phase
  <2>4. docs' \in Seq(Doc) /\ NoneGenerated
    BY <1>1, SameDocs DEF DraftBegin
  <2> QED BY <1>1, <2>1, <2>2, <2>3, <2>4
          DEF DraftBegin, Begin, At, deskRows, DeskTypes, TemplatesStay, Own, Sending
<1>2. CASE EnsureSeries(r)
  <2>3. Own(r) /\ phase'[r] = "settings" /\ job'[r] = job[r]
    BY <1>2, GoToOwn DEF EnsureSeries, Phase
  <2>4. docs' \in Seq(Doc) /\ NoneGenerated
    BY <1>2, SameDocs DEF EnsureSeries
  <2> QED BY <1>2, <2>3, <2>4
          DEF EnsureSeries, At, DeskTypes, TemplatesStay, Own, Sending
<1>3. CASE EnsureSettings(r)
  <2>3. Own(r) /\ phase'[r] = "draft" /\ job'[r] = job[r]
    BY <1>3, GoToOwn DEF EnsureSettings, Phase
  <2>4. docs' \in Seq(Doc) /\ NoneGenerated
    BY <1>3, SameDocs DEF EnsureSettings
  <2> QED BY <1>3, <2>3, <2>4
          DEF EnsureSettings, At, DeskTypes, TemplatesStay, Own, Sending
<1>4. CASE Draft(r)
  <2> DEFINE d == Invoice(None, [m |-> today, d |-> 1], 0)
  <2>1. d \in Doc /\ d.template = None /\ d.told = 0 /\ d.confirmed = 0 /\ d.state = "NOT_SENT"
    <3>1. today \in Nat /\ 1 \in 1..31 /\ 0 \in Nat /\ None \in Templates \union {None}
      BY DEF DeskTypes
    <3>2. d \in Doc
      BY <3>1, InvoiceType
    <3> QED BY <3>2 DEF Invoice
  <2> HIDE DEF d
  <2>2. /\ docs' \in Seq(Doc) /\ NoneGenerated
        /\ DOMAIN docs' = DOMAIN docs \union {Len(docs) + 1}
        /\ \A i \in DOMAIN docs : docs'[i] = docs[i]
        /\ docs'[Len(docs) + 1] = d
    BY <1>4, <2>1, AppendedDoc DEF Draft, d
  <2>3. /\ Own(r) /\ phase'[r] = "idle" /\ job'[r].mine = {}
        /\ series' \in Requests \union {"none", "set", "inactive"}
        /\ settings' \in Requests \union {"none", "set"}
    BY <1>4, EndTxOwn DEF Draft
  <2> QED BY <1>4, <2>1, <2>2, <2>3
          DEF Draft, DeskTypes, TemplatesStay, Own, Sending
<1>5. CASE DraftRefused(r) \/ DeadlockAbort(r) \/ Fail(r)
  <2>1. Refuse(r)
    BY <1>5 DEF DraftRefused, DeadlockAbort, Fail
  <2>3. /\ Own(r) /\ phase'[r] = "idle" /\ job'[r].mine = {}
        /\ series' \in Requests \union {"none", "set", "inactive"}
        /\ settings' \in Requests \union {"none", "set"}
    BY <2>1, EndTxOwn DEF Refuse
  <2>4. docs' \in Seq(Doc) /\ NoneGenerated
    BY <2>1, SameDocs DEF Refuse
  <2> QED BY <2>1, <2>3, <2>4
          DEF Refuse, DeskTypes, TemplatesStay, Own, Sending
<1> QED BY <1>1, <1>2, <1>3, <1>4, <1>5

\* The first and the last phase of a send that fails or goes on.
LEMMA SendPhases ==
  ASSUME NEW r
  PROVE  /\ FirstOf(r) \in {"tell", "mark"} /\ FirstFailed(r) \in {"tell failure", "mark failure"}
         /\ FirstOf(r) = "mark" <=> docs[job[r].doc].kind # "INVOICE"
         /\ SecondOf(r) = "mark" <=> docs[job[r].doc].kind = "INVOICE"
BY DEF FirstOf, SecondOf, FirstFailed

\* The steps of a send.
LEMMA SendSteps ==
  ASSUME DeskTypes, NEW r \in Requests,
         \/ \E i \in DOMAIN docs : SendBegin(r, i)
         \/ Mail(r) \/ Tell(r) \/ Mark(r) \/ SendDone(r) \/ SendFails(r)
         \/ TellFailure(r) \/ MarkFailure(r)
  PROVE  /\ DeskTypes' /\ NoneGenerated /\ TemplatesStay /\ Own(r)
         /\ today' = today /\ template' = template /\ phase[r] # "lock" /\ phase'[r] # "lock"
         /\ job'[r].mine = job[r].mine \/ job'[r].mine = {}
<1>1. CASE \E i \in DOMAIN docs : SendBegin(r, i)
  <2>0. PICK i \in DOMAIN docs : SendBegin(r, i)
    BY <1>1
  <2>1. ops' \in Nat
    BY <2>0, ServedType DEF SendBegin, Begin
  <2>2. /\ phase' \in [Requests -> Phase] /\ phase'[r] = "mail"
        /\ \A q \in Requests \ {r} : phase'[q] = phase[q]
    BY <2>0, GoToTypes DEF SendBegin, Begin, Phase, Sending
  <2>3. /\ job' \in [Requests -> Job] /\ job'[r].mine = job[r].mine
        /\ \A q \in Requests \ {r} : job'[q] = job[q]
    <3>1. i \in Nat
      BY DEF DeskTypes
    <3>2. job \in [Requests -> Job] /\ job' = [job EXCEPT ![r].doc = i]
      BY <2>0 DEF SendBegin, DeskTypes
    <3> QED BY <3>1, <3>2 DEF Job
  <2>4. docs' \in Seq(Doc) /\ NoneGenerated
    BY <2>0, SameDocs DEF SendBegin
  <2> QED BY <2>0, <2>1, <2>2, <2>3, <2>4
          DEF SendBegin, Begin, At, deskRows, DeskTypes, TemplatesStay, Own, OthersStay
<1> DEFINE j == job[r].doc
<1>2. CASE Mail(r)
  <2>1. docs' \in Seq(Doc) /\ NoneGenerated
    <3>1. CASE UNCHANGED docs
      BY <3>1, SameDocs
    <3>2. CASE docs' = [docs EXCEPT ![j].confirmed = @ + 1]
      BY <3>2, FieldSet
    <3> QED BY <1>2, <3>1, <3>2 DEF Mail
  <2>2. PICK p \in {"tell", "mark", "tell failure", "mark failure"} : GoTo(r, p)
    BY <1>2, SendPhases DEF Mail
  <2>3. Own(r) /\ phase'[r] = p /\ job'[r] = job[r]
    BY <1>2, <2>2, GoToOwn DEF Mail, Phase, Sending
  <2> QED BY <1>2, <2>1, <2>2, <2>3 DEF Mail, At, deskRows, DeskTypes, TemplatesStay, Own
<1>3. CASE Tell(r)
  <2>1. docs' \in Seq(Doc) /\ NoneGenerated
    <3>1. docs' = [docs EXCEPT ![j].told = @ + 1]
      BY <1>3 DEF Tell
    <3> QED BY <3>1, FieldSet
  <2>2. PICK p \in {"mark", "audit"} : GoTo(r, p)
    BY <1>3 DEF Tell
  <2>3. Own(r) /\ phase'[r] = p /\ job'[r] = job[r]
    BY <1>3, <2>2, GoToOwn DEF Tell, Phase, Sending
  <2> QED BY <1>3, <2>1, <2>2, <2>3 DEF Tell, At, deskRows, DeskTypes, TemplatesStay, Own
<1>4. CASE Mark(r)
  <2>1. docs' \in Seq(Doc) /\ NoneGenerated
    <3>1. docs' = [docs EXCEPT ![j].state = "SENT"]
      BY <1>4 DEF Mark
    <3> QED BY <3>1, FieldSet
  <2>2. PICK p \in {"tell", "audit"} : GoTo(r, p)
    BY <1>4 DEF Mark
  <2>3. Own(r) /\ phase'[r] = p /\ job'[r] = job[r]
    BY <1>4, <2>2, GoToOwn DEF Mark, Phase, Sending
  <2> QED BY <1>4, <2>1, <2>2, <2>3 DEF Mark, At, deskRows, DeskTypes, TemplatesStay, Own
<1>5. CASE SendDone(r)
  <2>1. docs' \in Seq(Doc) /\ NoneGenerated
    BY <1>5, SameDocs DEF SendDone
  <2>2. /\ Own(r) /\ phase'[r] = "idle" /\ job'[r].mine = {}
        /\ series' \in Requests \union {"none", "set", "inactive"}
        /\ settings' \in Requests \union {"none", "set"}
    BY <1>5, EndTxOwn DEF SendDone
  <2> QED BY <1>5, <2>1, <2>2 DEF SendDone, At, DeskTypes, TemplatesStay, Own
<1>6. CASE SendFails(r)
  <2>1. docs' \in Seq(Doc) /\ NoneGenerated
    BY <1>6, SameDocs DEF SendFails
  <2>2. PICK p \in {"tell failure", "mark failure"} : GoTo(r, p)
    BY <1>6, SendPhases DEF SendFails
  <2>3. Own(r) /\ phase'[r] = p /\ job'[r] = job[r]
    BY <1>6, <2>2, GoToOwn DEF SendFails, Phase, Sending
  <2> QED BY <1>6, <2>1, <2>2, <2>3 DEF SendFails, deskRows, DeskTypes, TemplatesStay, Own
<1>7. CASE TellFailure(r)
  <2>1. docs' \in Seq(Doc) /\ NoneGenerated
    BY <1>7, SameDocs DEF TellFailure
  <2>2. CASE GoTo(r, "mark failure") /\ UNCHANGED <<series, settings, locks, job>>
    <3>1. Own(r) /\ phase'[r] = "mark failure" /\ job'[r] = job[r]
      BY <2>2, GoToOwn DEF Phase, Sending
    <3> QED BY <1>7, <2>1, <2>2, <3>1 DEF TellFailure, At, DeskTypes, TemplatesStay, Own
  <2>3. CASE EndTx(r, TRUE)
    <3>1. /\ Own(r) /\ phase'[r] = "idle" /\ job'[r].mine = {}
          /\ series' \in Requests \union {"none", "set", "inactive"}
          /\ settings' \in Requests \union {"none", "set"}
      BY <2>3, EndTxOwn
    <3> QED BY <1>7, <2>1, <3>1 DEF TellFailure, At, DeskTypes, TemplatesStay, Own
  <2> QED BY <1>7, <2>2, <2>3 DEF TellFailure
<1>8. CASE MarkFailure(r)
  <2>1. docs' \in Seq(Doc) /\ NoneGenerated
    <3>1. docs' = [docs EXCEPT ![j].state = "FAILED"]
      BY <1>8 DEF MarkFailure
    <3> QED BY <3>1, FieldSet
  <2>2. CASE GoTo(r, "tell failure") /\ UNCHANGED <<series, settings, locks, job>>
    <3>1. Own(r) /\ phase'[r] = "tell failure" /\ job'[r] = job[r]
      BY <2>2, GoToOwn DEF Phase, Sending
    <3> QED BY <1>8, <2>1, <2>2, <3>1 DEF MarkFailure, At, DeskTypes, TemplatesStay, Own
  <2>3. CASE EndTx(r, TRUE)
    <3>1. /\ Own(r) /\ phase'[r] = "idle" /\ job'[r].mine = {}
          /\ series' \in Requests \union {"none", "set", "inactive"}
          /\ settings' \in Requests \union {"none", "set"}
      BY <2>3, EndTxOwn
    <3> QED BY <1>8, <2>1, <3>1 DEF MarkFailure, At, DeskTypes, TemplatesStay, Own
  <2> QED BY <1>8, <2>2, <2>3 DEF MarkFailure
<1> QED BY <1>1, <1>2, <1>3, <1>4, <1>5, <1>6, <1>7, <1>8
-----------------------------------------------------------------------------
\* An invoice of a template is its last one, or there is a next one.
LEMMA SmallestNat ==
  ASSUME NEW S, S \subseteq Nat, S # {}
  PROVE  \E n \in S : \A k \in S : k >= n
<1>1. PICK n \in S : \A k \in S : ~ (<<k, n>> \in OpToRel(<, Nat))
  BY NatLessThanWellFounded, WFMin
<1>2. \A k \in S : ~ (k < n)
  BY <1>1 DEF OpToRel
<1> QED BY <1>2

NextIn(S, i) == {j \in S : j > i /\ \A k \in S : k > i => k >= j}

\* Unless it is the greatest, an element has a next one.
LEMMA LastOrNext ==
  ASSUME NEW S, S \subseteq Nat, NEW i \in S
  PROVE  NextIn(S, i) = {} <=> \A j \in S : j <= i
<1>1. ASSUME NEW j \in S, ~(j <= i)
      PROVE  NextIn(S, i) # {}
  <2> DEFINE later == {k \in S : k > i}
  <2>0. i \in Nat /\ j \in Nat
    OBVIOUS
  <2>a. j > i /\ j \in S
    BY <1>1, <2>0
  <2>1. j \in later /\ later \subseteq Nat
    BY <2>a
  <2>2. PICK n \in later : \A k \in later : k >= n
    BY <2>1, SmallestNat
  <2>3. n \in NextIn(S, i)
    BY <2>2 DEF NextIn
  <2> QED BY <2>3
<1>2. ASSUME NEW j \in NextIn(S, i)
      PROVE  \E k \in S : ~(k <= i)
  <2>1. i \in Nat /\ j \in Nat /\ j \in S /\ j > i
    BY <1>2 DEF NextIn
  <2> QED BY <2>1
<1> QED BY <1>1, <1>2

\* The invoice that follows another is the next one of its template ...
LEMMA FollowingIsNext ==
  ASSUME NEW t, NEW i \in InvoicesOf(t)
  PROVE  Following(i) = NextIn(InvoicesOf(t), i)
<1>1. docs[i].template = t
  BY DEF InvoicesOf
<1> QED BY <1>1 DEF Following, NextIn

\* ... and so it is after a step.
LEMMA FollowingIsNextThen ==
  ASSUME NEW t, NEW i \in InvoicesOf(t)'
  PROVE  Following(i)' = NextIn(InvoicesOf(t)', i)
<1>1. docs'[i].template = t
  BY DEF InvoicesOf
<1>2. InvoicesOf(t)' = {k \in DOMAIN docs' : docs'[k].template = t}
  BY DEF InvoicesOf
<1> QED BY <1>1, <1>2 DEF Following, NextIn, InvoicesOf

\* Invoices that are there stay billed while their template does not move.
LEMMA BilledStays ==
  ASSUME BillingInv, DeskTypes', today <= today', NEW t \in Templates,
         InvoicesOf(t)' = InvoicesOf(t),
         \A i \in InvoicesOf(t) : docs'[i].date = docs[i].date /\ docs'[i].step = docs[i].step,
         InvoicesOf(t) # {} /\ template[t] # None =>
           template'[t] # None /\ template'[t].next = template[t].next
  PROVE  Billed(t)'
<1>1. docs \in Seq(Doc) /\ docs' \in Seq(Doc) /\ today \in Nat /\ today' \in Nat
  BY DEF BillingInv, DeskTypes
<1>2. ASSUME NEW i \in InvoicesOf(t)
      PROVE  Following(i)' = Following(i) /\ Following(i) \subseteq InvoicesOf(t)
  <2>1. Following(i) = NextIn(InvoicesOf(t), i)
    BY <1>2, FollowingIsNext
  <2>2. Following(i)' = NextIn(InvoicesOf(t)', i)
    BY <1>2, FollowingIsNextThen
  <2>3. Following(i) \subseteq InvoicesOf(t)
    BY <2>1 DEF NextIn
  <2> QED BY <2>1, <2>2, <2>3
<1>3. SUFFICES ASSUME NEW i \in InvoicesOf(t)
      PROVE  /\ docs'[i].date.m <= today'
             /\ template'[t] # None
             /\ \A j \in Following(i) : docs'[j].date.m = docs'[i].date.m + docs'[i].step
             /\ Following(i) = {} => template'[t].next.m = docs'[i].date.m + docs'[i].step
  BY <1>2 DEF Billed
<1>4. /\ docs[i].date.m <= today /\ template[t] # None
      /\ \A j \in Following(i) : docs[j].date.m = docs[i].date.m + docs[i].step
      /\ Following(i) = {} => template[t].next.m = docs[i].date.m + docs[i].step
  BY DEF BillingInv, Billed
<1>5. docs[i].date.m \in Nat
  <2>1. docs[i] \in Doc
    BY <1>1 DEF InvoicesOf
  <2> QED BY <2>1 DEF Doc
<1>6. docs'[i].date.m <= today'
  BY <1>1, <1>4, <1>5
<1>7. \A j \in Following(i) : docs'[j].date = docs[j].date
  BY <1>2
<1> QED BY <1>4, <1>6, <1>7

\* Steps that generate nothing and move no template keep what is billed.
LEMMA BilledKept ==
  ASSUME BillingInv, DeskTypes', NoneGenerated, TemplatesStay, today <= today'
  PROVE  \A t \in Templates : Billed(t)'
<1> SUFFICES ASSUME NEW t \in Templates
    PROVE  Billed(t)'
  OBVIOUS
<1>1. InvoicesOf(t)' = InvoicesOf(t)
  BY SalesDeskAssumption DEF InvoicesOf, NoneGenerated, Filed
<1>2. \A i \in InvoicesOf(t) : docs'[i].date = docs[i].date /\ docs'[i].step = docs[i].step
  BY DEF InvoicesOf, NoneGenerated, Filed
<1>3. InvoicesOf(t) # {} /\ template[t] # None =>
        template'[t] # None /\ template'[t].next = template[t].next
  BY DEF TemplatesStay
<1> QED BY <1>1, <1>2, <1>3, BilledStays

\* A template has moved on by the invoice that was added last.
LEMMA BilledNext ==
  ASSUME BillingInv, DeskTypes', today' = today, NEW t \in Templates,
         NEW n \in Nat, n > Len(docs), template[t] \in TemplateRow, DueNow(t),
         InvoicesOf(t)' = InvoicesOf(t) \union {n},
         \A i \in InvoicesOf(t) : docs'[i] = docs[i],
         docs'[n].date = template[t].next, docs'[n].step = template[t].step,
         template'[t] \in TemplateRow,
         template'[t].next.m = template[t].next.m + template[t].step
  PROVE  Billed(t)'
<1>1. docs \in Seq(Doc) /\ docs' \in Seq(Doc) /\ today \in Nat /\ n \in InvoicesOf(t)'
  BY DEF BillingInv, DeskTypes
<1>2. \A i \in InvoicesOf(t) : i \in Nat /\ i < n
  BY <1>1 DEF InvoicesOf
<1>3. template'[t] # None
  BY SalesDeskAssumption
<1>4. ASSUME NEW i \in InvoicesOf(t)', Following(i)' = {}
      PROVE  i = n
  <2>1. NextIn(InvoicesOf(t)', i) = {} /\ InvoicesOf(t)' \subseteq Nat
    BY <1>2, <1>4, FollowingIsNextThen
  <2>2. n <= i
    BY <1>1, <1>4, <2>1, LastOrNext
  <2> QED BY <1>2, <1>4, <2>2
<1> SUFFICES ASSUME NEW i \in InvoicesOf(t)'
    PROVE  /\ docs'[i].date.m <= today
           /\ \A j \in Following(i)' : docs'[j].date.m = docs'[i].date.m + docs'[i].step
           /\ Following(i)' = {} => template'[t].next.m = docs'[i].date.m + docs'[i].step
  BY <1>3 DEF Billed
<1>5. Following(i)' = {j \in InvoicesOf(t)' : j > i /\
                        \A k \in InvoicesOf(t)' : k > i => k >= j}
  BY FollowingIsNextThen DEF NextIn
<1>6. CASE i = n
  <2>1. Following(i)' = {}
    BY <1>2, <1>5, <1>6
  <2>2. docs'[i].date.m <= today
    BY <1>6 DEF DueNow
  <2> QED BY <2>1, <2>2, <1>6
<1>7. CASE i # n
  <2>1. i \in InvoicesOf(t) /\ docs'[i] = docs[i]
    BY <1>7
  <2>2. /\ docs[i].date.m <= today /\ template[t] # None
        /\ \A j \in Following(i) : docs[j].date.m = docs[i].date.m + docs[i].step
        /\ Following(i) = {} => template[t].next.m = docs[i].date.m + docs[i].step
    BY <2>1 DEF BillingInv, Billed
  <2>3. /\ Following(i) = {j \in InvoicesOf(t) : j > i /\
                              \A k \in InvoicesOf(t) : k > i => k >= j}
        /\ Following(i) = {} <=> \A j \in InvoicesOf(t) : j <= i
    <3>1. InvoicesOf(t) \subseteq Nat
      BY <1>2
    <3>2. NextIn(InvoicesOf(t), i) = {} <=> \A j \in InvoicesOf(t) : j <= i
      BY <2>1, <3>1, LastOrNext
    <3> QED BY <2>1, <3>2, FollowingIsNext DEF NextIn
  <2>4. CASE Following(i) = {}
    <3>1. Following(i)' = {n}
      BY <1>2, <1>5, <2>1, <2>3, <2>4
    <3> QED BY <2>1, <2>2, <2>4, <3>1
  <2>5. CASE Following(i) # {}
    <3>1. PICK k \in InvoicesOf(t) : ~(k <= i)
      BY <2>3, <2>5
    <3>2. k > i /\ k < n
      BY <1>2, <2>1, <3>1
    <3>3. Following(i)' \subseteq Following(i)
      BY <1>2, <1>5, <2>3, <3>2
    <3>4. \A j \in Following(i) : docs'[j] = docs[j]
      BY <2>3
    <3>5. Following(i)' # {}
      BY <1>4, <1>7
    <3> QED BY <2>1, <2>2, <3>3, <3>4, <3>5
  <2> QED BY <2>4, <2>5
<1> QED BY <1>6, <1>7

\* What others have taken stays taken, and so does what a request keeps.
LEMMA MineStays ==
  ASSUME BillingInv, DeskTypes', today <= today', NEW r \in Requests, Own(r),
         template' = template,
         phase'[r] # "lock" => job'[r].mine = {},
         \A t \in job'[r].mine : locks'[t] = r /\ DueNow(t)
  PROVE  MineLocked'
<1> SUFFICES ASSUME NEW q \in Requests
    PROVE  /\ phase'[q] # "lock" => job'[q].mine = {}
           /\ \A t \in job'[q].mine : locks'[t] = q /\ DueNow(t)'
  BY DEF MineLocked
<1>0. /\ job \in [Requests -> Job] /\ job' \in [Requests -> Job]
      /\ today \in Nat /\ today' \in Nat
      /\ template \in [Templates -> TemplateRow \union {None}]
  BY DEF BillingInv, DeskTypes
<1>1. \A t \in Templates : DueNow(t) => DueNow(t)'
  BY <1>0 DEF DueNow, TemplateRow
<1>2. CASE q = r
  BY <1>0, <1>1, <1>2 DEF Job
<1>3. CASE q # r
  <2>1. phase'[q] = phase[q] /\ job'[q] = job[q] /\ job[q].mine \subseteq Templates
    BY <1>0, <1>3 DEF Own, OthersStay, Job
  <2>2. \A t \in job[q].mine : locks'[t] = q
    BY <1>3, <2>1 DEF Own, OthersStay, BillingInv, MineLocked
  <2> QED BY <1>1, <2>1, <2>2 DEF BillingInv, MineLocked
<1> QED BY <1>2, <1>3

\* Reading the templates that are due takes none.
LEMMA GenerateReadKeeps ==
  ASSUME BillingInv, NEW r \in Requests, GenerateRead(r)
  PROVE  BillingInv' /\ phase'[r] = "lock" /\ OthersStay(r) /\ UNCHANGED docs
<1> USE DEF BillingInv
<1>1. ops' \in Nat
  BY ServedType DEF GenerateRead, Begin
<1>2. /\ phase' \in [Requests -> Phase] /\ phase'[r] = "lock" /\ phase[r] = "idle"
      /\ \A q \in Requests \ {r} : phase'[q] = phase[q]
  BY GoToTypes DEF GenerateRead, Begin, Phase, At
<1>3. /\ job' \in [Requests -> Job] /\ job'[r].mine = job[r].mine
      /\ \A q \in Requests \ {r} : job'[q] = job[q]
  <2> DEFINE S == {t \in Templates : DueNow(t)}
  <2>1. PICK q \in Orders(S) : job' = [job EXCEPT ![r].todo = q]
    BY DEF GenerateRead
  <2>2. q \in Seq(S)
    BY OrdersList
  <2>3. S \subseteq Templates
    OBVIOUS
  <2> HIDE DEF S
  <2>4. q \in Seq(Templates)
    BY <2>2, <2>3
  <2>5. job \in [Requests -> Job]
    BY DEF DeskTypes
  <2> QED BY <2>1, <2>4, <2>5 DEF Job
<1>4. docs' \in Seq(Doc) /\ NoneGenerated
  BY SameDocs DEF GenerateRead
<1>5. Own(r) /\ DeskTypes' /\ TemplatesStay /\ today <= today' /\ template' = template
  BY <1>1, <1>2, <1>3, <1>4
     DEF GenerateRead, deskRows, DeskTypes, TemplatesStay, Own, OthersStay
<1>6. job'[r].mine = {}
  BY <1>2, <1>3 DEF MineLocked
<1>7. MineLocked'
  BY <1>5, <1>6, MineStays
<1>8. \A t \in Templates : Billed(t)'
  BY <1>4, <1>5, BilledKept DEF DeskTypes
<1> QED BY <1>2, <1>5, <1>7, <1>8 DEF Own, GenerateRead

\* A template that is locked is due, or is not taken.
LEMMA GenerateLockKeeps ==
  ASSUME BillingInv, NEW r \in Requests, GenerateLock(r)
  PROVE  BillingInv' /\ phase'[r] = "lock" /\ OthersStay(r) /\ UNCHANGED docs
<1> USE DEF BillingInv
<1> DEFINE t == Head(job[r].todo)
<1>1. /\ job[r].todo \in Seq(Templates) /\ job[r].todo # <<>> /\ job[r].mine \subseteq Templates
      /\ job \in [Requests -> Job] /\ locks \in [Templates -> Requests \union {None}]
      /\ phase[r] = "lock"
  BY DEF GenerateLock, DeskTypes, Job, At
<1>2. t \in Templates /\ Tail(job[r].todo) \in Seq(Templates)
  BY <1>1
<1>3. /\ locks[t] = None
      /\ locks' = IF DueNow(t) THEN [locks EXCEPT ![t] = r] ELSE locks
      /\ job' = [job EXCEPT ![r].todo = Tail(@),
                            ![r].mine = IF DueNow(t) THEN @ \union {t} ELSE @]
      /\ UNCHANGED <<today, deskRows, template, docs, phase, ops>>
  BY DEF GenerateLock
<1> HIDE DEF t
<1>4. /\ job' \in [Requests -> Job]
      /\ job'[r].mine = IF DueNow(t) THEN job[r].mine \union {t} ELSE job[r].mine
      /\ \A q \in Requests \ {r} : job'[q] = job[q]
  <2>0. Tail(job[r].todo) \in Seq(Templates) /\ job[r] \in Job
    BY <1>1, <1>2
  <2>1. CASE DueNow(t)
    <3>1. job' = [job EXCEPT ![r] = [job[r] EXCEPT !.todo = Tail(@), !.mine = @ \union {t}]]
      BY <1>3, <2>1
    <3>2. [job[r] EXCEPT !.todo = Tail(@), !.mine = @ \union {t}] \in Job
      BY <2>0, <1>2 DEF Job
    <3> QED BY <1>1, <2>0, <2>1, <3>1, <3>2 DEF Job
  <2>2. CASE ~DueNow(t)
    <3>1. job' = [job EXCEPT ![r] = [job[r] EXCEPT !.todo = Tail(@)]]
      BY <1>3, <2>2, <1>1 DEF Job
    <3>2. [job[r] EXCEPT !.todo = Tail(@)] \in Job
      BY <2>0, <1>2 DEF Job
    <3> QED BY <1>1, <2>0, <2>2, <3>1, <3>2 DEF Job
  <2> QED BY <2>1, <2>2
<1>5. /\ locks' \in [Templates -> Requests \union {None}]
      /\ \A s \in Templates : s # t \/ ~DueNow(t) => locks'[s] = locks[s]
      /\ DueNow(t) => locks'[t] = r
  BY <1>1, <1>2, <1>3
<1>6. docs' \in Seq(Doc) /\ NoneGenerated
  BY <1>3, SameDocs
<1>7. OthersStay(r)
  BY <1>2, <1>3, <1>4, <1>5, SalesDeskAssumption DEF OthersStay
<1>8. Own(r) /\ DeskTypes' /\ TemplatesStay /\ today <= today' /\ template' = template
  BY <1>3, <1>4, <1>5, <1>6, <1>7
     DEF deskRows, DeskTypes, TemplatesStay, Own
<1>9. \A s \in job'[r].mine : locks'[s] = r /\ DueNow(s)
  <2> SUFFICES ASSUME NEW s \in job'[r].mine
      PROVE  locks'[s] = r /\ DueNow(s)
    OBVIOUS
  <2>1. s \in job[r].mine \/ (s = t /\ DueNow(t))
    BY <1>4
  <2>2. CASE s \in job[r].mine
    <3>1. locks[s] = r /\ DueNow(s) /\ s \in Templates
      BY <2>2, <1>1 DEF MineLocked
    <3> QED BY <3>1, <1>3, <1>5, SalesDeskAssumption
  <2> QED BY <2>1, <2>2, <1>5
<1>10. MineLocked'
  BY <1>1, <1>3, <1>8, <1>9, MineStays
<1>11. \A s \in Templates : Billed(s)'
  BY <1>6, <1>8, BilledKept
<1> QED BY <1>1, <1>3, <1>7, <1>8, <1>10, <1>11

\* A run of the templates: each it holds is billed once more and moves on.
LEMMA GenerateKeeps ==
  ASSUME BillingInv, NEW r \in Requests, Generate(r)
  PROVE  /\ BillingInv' /\ phase'[r] = "idle" /\ OthersStay(r)
         /\ Len(docs) <= Len(docs')
         /\ \A i \in DOMAIN docs : docs'[i] = docs[i]
         /\ \A i \in DOMAIN docs' \ DOMAIN docs :
              docs'[i].told = 0 /\ docs'[i].confirmed = 0 /\ docs'[i].state = "NOT_SENT"
<1> USE DEF BillingInv
<1> DEFINE fresh == {t \in job[r].mine : Generated(t) = {}}
<1>1. /\ docs \in Seq(Doc) /\ today \in Nat /\ Len(docs) \in Nat
      /\ job[r].mine \subseteq Templates
      /\ template \in [Templates -> TemplateRow \union {None}]
  BY DEF DeskTypes, Job
<1>2. fresh \subseteq Templates /\ fresh \subseteq job[r].mine
  BY <1>1
<1>3. \A t \in fresh : /\ locks[t] = r /\ DueNow(t) /\ template[t] \in TemplateRow
  BY <1>1, <1>2 DEF MineLocked, DueNow
<1>4. /\ template' = [t \in Templates |->
             IF t \in fresh
             THEN [template[t] EXCEPT !.next = NextRun(@, template[t].step)]
             ELSE template[t]]
      /\ EndTx(r, TRUE)
      /\ UNCHANGED <<today, customer, ops>>
      /\ \E q \in Orders(fresh) :
           docs' = docs \o [i \in DOMAIN q |->
             Invoice(q[i], template[q[i]].next, template[q[i]].step)]
  BY DEF Generate
<1> HIDE DEF fresh
<1>5. PICK q \in Orders(fresh) :
           docs' = docs \o [i \in DOMAIN q |->
             Invoice(q[i], template[q[i]].next, template[q[i]].step)]
  BY <1>4
<1> DEFINE n == Cardinality(fresh)
<1>6. /\ docs' \in Seq(Doc) /\ Len(docs') = Len(docs) + n /\ n \in Nat
      /\ \A i \in DOMAIN docs : docs'[i] = docs[i]
      /\ \A k \in 1..n :
           /\ q[k] \in fresh
           /\ docs'[Len(docs) + k] = Invoice(q[k], template[q[k]].next, template[q[k]].step)
  BY <1>2, <1>3, <1>5, GeneratedList
<1>7. /\ \A i, j \in 1..n : q[i] = q[j] => i = j
      /\ \A t \in fresh : \E i \in 1..n : q[i] = t
  BY <1>2, OrdersList
<1>8. /\ \A t \in Templates \ fresh : template'[t] = template[t]
      /\ \A t \in fresh : /\ template'[t] \in TemplateRow
                          /\ template'[t].next.m = template[t].next.m + template[t].step
  <2>1. \A t \in Templates \ fresh : template'[t] = template[t]
    BY <1>4
  <2>2. ASSUME NEW t \in fresh
        PROVE  /\ template'[t] \in TemplateRow
               /\ template'[t].next.m = template[t].next.m + template[t].step
    <3>1. template'[t] = [template[t] EXCEPT !.next = NextRun(template[t].next, template[t].step)]
      BY <1>2, <1>4, <2>2
    <3>2. template[t] \in TemplateRow /\ template[t].step \in Nat
          /\ template[t].next \in [m : Nat, d : 1..31]
      BY <1>3, <2>2, SalesDeskAssumption DEF TemplateRow
    <3>3. NextRun(template[t].next, template[t].step) \in [m : Nat, d : 1..31]
      BY <3>2, NextRunType
    <3>4. NextRun(template[t].next, template[t].step).m = template[t].next.m + template[t].step
      BY DEF NextRun
    <3> HIDE DEF NextRun
    <3> QED BY <3>1, <3>2, <3>3, <3>4 DEF TemplateRow
  <2> QED BY <2>1, <2>2
<1>9. template' \in [Templates -> TemplateRow \union {None}]
  <2>1. \A t \in Templates : template'[t] \in TemplateRow \union {None}
    BY <1>1, <1>8
  <2> QED BY <1>4, <2>1
<1>10. /\ Own(r) /\ phase'[r] = "idle" /\ job'[r].mine = {}
       /\ series' \in Requests \union {"none", "set", "inactive"}
       /\ settings' \in Requests \union {"none", "set"}
  BY <1>4, EndTxOwn
<1>11. DeskTypes'
  BY <1>4, <1>6, <1>9, <1>10 DEF DeskTypes, Own
<1>12. MineLocked'
  <2> SUFFICES ASSUME NEW p \in Requests
      PROVE  /\ phase'[p] # "lock" => job'[p].mine = {}
             /\ \A t \in job'[p].mine : locks'[t] = p /\ DueNow(t)'
    BY DEF MineLocked
  <2>1. CASE p = r
    BY <1>10, <2>1
  <2>2. CASE p # r
    <3>1. phase'[p] = phase[p] /\ job'[p] = job[p] /\ job[p].mine \subseteq Templates
      BY <1>10, <2>2 DEF Own, OthersStay, DeskTypes, Job
    <3>2. ASSUME NEW t \in job[p].mine
          PROVE  locks'[t] = p /\ DueNow(t)'
      <4>1. locks[t] = p /\ DueNow(t) /\ t \in Templates
        BY <3>1, <3>2 DEF MineLocked
      <4>2. locks'[t] = p /\ t \notin fresh
        BY <1>3, <1>10, <2>2, <4>1 DEF Own, OthersStay
      <4> QED BY <1>4, <1>8, <4>1, <4>2 DEF DueNow
    <3> QED BY <3>1, <3>2 DEF MineLocked
  <2> QED BY <2>1, <2>2
<1>13. \A k \in 1..n : /\ docs'[Len(docs) + k].template = q[k]
                       /\ docs'[Len(docs) + k].date = template[q[k]].next
                       /\ docs'[Len(docs) + k].step = template[q[k]].step
                       /\ docs'[Len(docs) + k].told = 0 /\ docs'[Len(docs) + k].confirmed = 0
                       /\ docs'[Len(docs) + k].state = "NOT_SENT"
  <2> SUFFICES ASSUME NEW k \in 1..n
      PROVE  LET d == Invoice(q[k], template[q[k]].next, template[q[k]].step)
             IN  /\ d.template = q[k] /\ d.date = template[q[k]].next
                 /\ d.step = template[q[k]].step
                 /\ d.told = 0 /\ d.confirmed = 0 /\ d.state = "NOT_SENT"
    BY <1>6
  <2> QED BY DEF Invoice
<1>14. \A i \in DOMAIN docs' : i \in DOMAIN docs \/ \E k \in 1..n : i = Len(docs) + k
  <2> SUFFICES ASSUME NEW i \in DOMAIN docs', i \notin DOMAIN docs
      PROVE  i - Len(docs) \in 1..n /\ i = Len(docs) + (i - Len(docs))
    OBVIOUS
  <2>1. i \in 1..Len(docs) + n /\ i \notin 1..Len(docs)
    BY <1>1, <1>6
  <2> QED BY <1>1, <1>6, <2>1
<1>15. DOMAIN docs \subseteq DOMAIN docs' /\ \A k \in 1..n : Len(docs) + k \in DOMAIN docs'
  BY <1>1, <1>6
<1>16. ASSUME NEW t \in Templates
       PROVE  Billed(t)'
  <2>1. CASE t \notin fresh
    <3>1. InvoicesOf(t)' = InvoicesOf(t)
      BY <1>6, <1>13, <1>14, <1>15, <2>1 DEF InvoicesOf
    <3>2. \A i \in InvoicesOf(t) :
            docs'[i].date = docs[i].date /\ docs'[i].step = docs[i].step
      BY <1>6 DEF InvoicesOf
    <3>3. template'[t] = template[t] /\ today <= today'
      BY <1>1, <1>4, <1>8, <2>1
    <3> QED BY <1>11, <3>1, <3>2, <3>3, BilledStays
  <2>2. CASE t \in fresh
    <3>1. PICK k \in 1..n : q[k] = t
      BY <1>7, <2>2
    <3>2. InvoicesOf(t)' = InvoicesOf(t) \union {Len(docs) + k}
      <4>1. \A i \in InvoicesOf(t) : i \in InvoicesOf(t)'
        BY <1>6, <1>15 DEF InvoicesOf
      <4>2. Len(docs) + k \in InvoicesOf(t)'
        BY <1>13, <1>15, <3>1 DEF InvoicesOf
      <4>3. ASSUME NEW i \in InvoicesOf(t)'
            PROVE  i \in InvoicesOf(t) \/ i = Len(docs) + k
        <5>1. i \in DOMAIN docs' /\ docs'[i].template = t
          BY <4>3 DEF InvoicesOf
        <5>2. CASE i \in DOMAIN docs
          BY <1>6, <5>1, <5>2 DEF InvoicesOf
        <5>3. CASE \E j \in 1..n : i = Len(docs) + j
          BY <1>7, <1>13, <3>1, <5>1, <5>3
        <5> QED BY <1>14, <5>1, <5>2, <5>3
      <4> QED BY <4>1, <4>2, <4>3
    <3>3. \A i \in InvoicesOf(t) : docs'[i] = docs[i]
      BY <1>6 DEF InvoicesOf
    <3>4. Len(docs) + k \in Nat /\ Len(docs) + k > Len(docs)
      BY <1>1, <1>6
    <3>5. docs'[Len(docs) + k].date = template[t].next /\ docs'[Len(docs) + k].step = template[t].step
      BY <1>13, <3>1
    <3>6. today' = today /\ DueNow(t) /\ template[t] \in TemplateRow
      BY <1>3, <1>4, <2>2
    <3> QED BY <1>8, <1>11, <2>2, <3>2, <3>3, <3>4, <3>5, <3>6, BilledNext
  <2> QED BY <2>1, <2>2
<1>17. Len(docs) <= Len(docs')
  BY <1>1, <1>6
<1>18. \A i \in DOMAIN docs' \ DOMAIN docs :
         docs'[i].told = 0 /\ docs'[i].confirmed = 0 /\ docs'[i].state = "NOT_SENT"
  BY <1>13, <1>14
<1> QED BY <1>6, <1>10, <1>11, <1>12, <1>16, <1>17, <1>18 DEF Own

\* The steps of other people: settings, templates, documents, the passing of time.
OfTemplate(t) == CreateTemplate(t) \/ UpdateTemplate(t) \/ DeleteTemplate(t)
OfDocument(i) == ChangeStatus(i) \/ PdfReady(i) \/ CreateReminder(i) \/ ExportEInvoice(i)

HeldStay ==
  \A t \in Templates : template[t] # None /\ locks[t] # None => template'[t] = template[t]

\* Editing a template waits for its lock and keeps its next run.
LEMMA TemplateSteps ==
  ASSUME BillingInv, NEW t \in Templates, OfTemplate(t)
  PROVE  /\ DeskTypes' /\ NoneGenerated /\ TemplatesStay /\ today <= today'
         /\ UNCHANGED <<docs, locks, phase, job>> /\ HeldStay
<1> USE DEF BillingInv
<1>0. /\ ops' \in Nat /\ UNCHANGED <<today, deskRows, locks, docs, phase, job>>
      /\ docs' \in Seq(Doc) /\ NoneGenerated
      /\ template \in [Templates -> TemplateRow \union {None}]
  BY ServedType, SameDocs
     DEF OfTemplate, CreateTemplate, UpdateTemplate, DeleteTemplate, DeskTypes
<1>1. CASE CreateTemplate(t)
  <2>1. PICK d \in StartDays, step \in Steps :
          template' = [template EXCEPT ![t] =
            [next |-> [m |-> 0, d |-> d], step |-> step, active |-> TRUE]]
    BY <1>1 DEF CreateTemplate
  <2>2. [next |-> [m |-> 0, d |-> d], step |-> step, active |-> TRUE] \in TemplateRow
    BY SalesDeskAssumption DEF TemplateRow
  <2>3. \A s \in Templates : template[s] # None => template'[s] = template[s]
    BY <1>0, <1>1, <2>1 DEF CreateTemplate
  <2>4. template' \in [Templates -> TemplateRow \union {None}]
    BY <1>0, <2>1, <2>2
  <2> QED BY <1>0, <2>3, <2>4 DEF deskRows, DeskTypes, TemplatesStay, HeldStay
<1>2. CASE UpdateTemplate(t)
  <2>1. locks[t] = None /\ template[t] \in TemplateRow
    BY <1>0, <1>2 DEF UpdateTemplate, Exists
  <2>2. PICK row \in TemplateRow :
          template' = [template EXCEPT ![t] = row] /\ row.next = template[t].next
    <3>1. CASE \E step \in Steps \ {template[t].step} :
                 template' = [template EXCEPT ![t].step = step]
      <4>1. PICK step \in Steps : template' = [template EXCEPT ![t].step = step]
        BY <3>1
      <4>2. [template[t] EXCEPT !.step = step] \in TemplateRow
        BY <2>1 DEF TemplateRow
      <4>3. [template[t] EXCEPT !.step = step].next = template[t].next
        BY <2>1 DEF TemplateRow
      <4> QED BY <4>1, <4>2, <4>3
    <3>2. CASE template' = [template EXCEPT ![t].active = ~@]
      <4>1. template[t].active \in BOOLEAN
        BY <2>1 DEF TemplateRow
      <4>2. [template[t] EXCEPT !.active = ~@] \in TemplateRow
        BY <2>1, <4>1 DEF TemplateRow
      <4>3. [template[t] EXCEPT !.active = ~@].next = template[t].next
        BY <2>1 DEF TemplateRow
      <4> QED BY <3>2, <4>2, <4>3
    <3> QED BY <1>2, <3>1, <3>2 DEF UpdateTemplate
  <2>3. row # None
    BY SalesDeskAssumption
  <2>4. \A s \in Templates : template'[s] = IF s = t THEN row ELSE template[s]
    BY <1>0, <2>2
  <2>5. template' \in [Templates -> TemplateRow \union {None}]
    BY <1>0, <2>2
  <2> QED BY <1>0, <2>1, <2>2, <2>3, <2>4, <2>5 DEF deskRows, DeskTypes, TemplatesStay, HeldStay
<1>3. CASE DeleteTemplate(t)
  <2>1. locks[t] = None /\ template' = [template EXCEPT ![t] = None] /\ InvoicesOf(t) = {}
    BY <1>3 DEF DeleteTemplate, Exists, InvoicesOf
  <2>2. template' \in [Templates -> TemplateRow \union {None}]
    BY <1>0, <2>1
  <2>3. \A s \in Templates : s # t => template'[s] = template[s]
    BY <1>0, <2>1
  <2> QED BY <1>0, <2>1, <2>2, <2>3 DEF deskRows, DeskTypes, TemplatesStay, HeldStay
<1> QED BY <1>1, <1>2, <1>3 DEF OfTemplate

\* Steps on documents keep what they are.
LEMMA DocumentSteps ==
  ASSUME BillingInv, NEW i \in DOMAIN docs, OfDocument(i)
  PROVE  /\ DeskTypes' /\ NoneGenerated /\ TemplatesStay
         /\ UNCHANGED <<today, template, locks, phase, job>>
<1> USE DEF BillingInv
<1>0. ops' \in Nat /\ UNCHANGED <<today, deskRows, template, locks, phase, job>>
  BY ServedType DEF OfDocument, ChangeStatus, PdfReady, CreateReminder, ExportEInvoice, DeskTypes
<1>1. docs' \in Seq(Doc) /\ NoneGenerated
  <2>1. CASE ChangeStatus(i)
    <3>1. \E s \in {"ISSUED", "CANCELLED_DRAFT", "CREDITED"} :
            docs' = [docs EXCEPT ![i].status = s]
      BY <2>1 DEF ChangeStatus
    <3> QED BY <3>1, FieldSet
  <2>2. CASE PdfReady(i)
    <3>1. docs' = [docs EXCEPT ![i].pdf = TRUE]
      BY <2>2 DEF PdfReady
    <3> QED BY <3>1, FieldSet
  <2>3. CASE CreateReminder(i)
    <3> DEFINE d0 == Invoice(None, docs[i].date, 0)
               d == [d0 EXCEPT !.kind = "REMINDER", !.of = i, !.state = "DRAFT"]
    <3>1. /\ docs[i].date = [m |-> docs[i].date.m, d |-> docs[i].date.d]
          /\ docs[i].date.m \in Nat /\ docs[i].date.d \in 1..31 /\ i \in Nat
      <4>1. docs[i] \in Doc /\ i \in Nat
        BY DEF DeskTypes
      <4> QED BY <4>1 DEF Doc
    <3>2. 0 \in Nat /\ None \in Templates \union {None}
      OBVIOUS
    <3>3. d0 \in Doc
      BY <3>1, <3>2, InvoiceType
    <3>4. d0.template = None
      BY DEF Invoice
    <3>5. docs' = Append(docs, d)
      BY <2>3 DEF CreateReminder
    <3> HIDE DEF d0
    <3>6. d \in Doc
      BY <3>1, <3>3 DEF Doc
    <3>7. d.template = None
      BY <3>3, <3>4 DEF Doc
    <3> HIDE DEF d
    <3> QED BY <3>5, <3>6, <3>7, AppendedDoc
  <2>4. CASE ExportEInvoice(i)
    <3>1. docs' = [docs EXCEPT ![i].state = "EINVOICE_READY"]
      BY <2>4 DEF ExportEInvoice
    <3> QED BY <3>1, FieldSet
  <2> QED BY <2>1, <2>2, <2>3, <2>4 DEF OfDocument
<1> QED BY <1>0, <1>1 DEF deskRows, DeskTypes, TemplatesStay

\* Settings change and months end without touching a template.
LEMMA DeskAndTime ==
  ASSUME BillingInv, SetActive \/ MonthEnds
  PROVE  /\ DeskTypes' /\ NoneGenerated /\ TemplatesStay /\ today <= today'
         /\ UNCHANGED <<template, locks, docs, phase, job>>
<1> USE DEF BillingInv
<1>1. docs' \in Seq(Doc) /\ NoneGenerated
  BY SameDocs DEF SetActive, MonthEnds
<1>2. CASE SetActive
  <2>1. ops' \in Nat /\ UNCHANGED <<today, settings, template, locks, docs, phase, job>>
    BY <1>2, ServedType DEF SetActive
  <2>2. customer' \in BOOLEAN
    BY <1>2 DEF SetActive, DeskTypes
  <2>3. series' \in Requests \union {"none", "set", "inactive"}
    BY <1>2 DEF SetActive, DeskTypes
  <2>4. TemplatesStay /\ today <= today'
    BY <2>1 DEF DeskTypes, TemplatesStay
  <2> QED BY <1>1, <2>1, <2>2, <2>3, <2>4 DEF DeskTypes
<1>3. CASE MonthEnds
  BY <1>1, <1>3 DEF MonthEnds, deskRows, DeskTypes, TemplatesStay
<1> QED BY <1>2, <1>3

\* The empty tables satisfy the invariant of billing.
LEMMA BillingInit == DeskInit => BillingInv
<1> SUFFICES ASSUME DeskInit
    PROVE  BillingInv
  OBVIOUS
<1>1. NoJob \in Job /\ NoJob.mine = {}
  BY DEF NoJob, Job
<1>2. DeskTypes
  BY <1>1 DEF DeskInit, DeskTypes, Phase
<1>3. MineLocked
  BY <1>1 DEF DeskInit, MineLocked
<1>4. \A t \in Templates : Billed(t)
  BY DEF DeskInit, Billed, InvoicesOf
<1> QED BY <1>2, <1>3, <1>4 DEF BillingInv

\* The invariant of billing is inductive: one case per kind of step.
LEMMA BillingNext == BillingInv /\ [DeskNext]_deskVars => BillingInv'
<1> SUFFICES ASSUME BillingInv, [DeskNext]_deskVars
    PROVE  BillingInv'
  OBVIOUS
<1>1. ASSUME NEW r \in Requests, Step(r)
      PROVE  BillingInv'
  <2>1. CASE \/ DraftBegin(r) \/ EnsureSeries(r) \/ EnsureSettings(r)
             \/ Draft(r) \/ DraftRefused(r) \/ DeadlockAbort(r) \/ Fail(r)
             \/ \E i \in DOMAIN docs : SendBegin(r, i)
             \/ Mail(r) \/ Tell(r) \/ Mark(r) \/ SendDone(r) \/ SendFails(r)
             \/ TellFailure(r) \/ MarkFailure(r)
    <3>1. /\ DeskTypes' /\ NoneGenerated /\ TemplatesStay /\ Own(r)
          /\ today' = today /\ template' = template /\ phase'[r] # "lock"
          /\ phase[r] # "lock" => job'[r].mine = job[r].mine \/ job'[r].mine = {}
          /\ phase[r] = "lock" => job'[r].mine = {}
      BY <1>1, <2>1, DraftSteps, SendSteps DEF BillingInv
    <3>2. job'[r].mine = {} /\ today <= today'
      BY <3>1 DEF BillingInv, MineLocked, DeskTypes
    <3> QED BY <3>1, <3>2, MineStays, BilledKept DEF BillingInv
  <2>2. CASE GenerateRead(r) \/ GenerateLock(r) \/ Generate(r)
    BY <1>1, <2>2, GenerateReadKeeps, GenerateLockKeeps, GenerateKeeps
  <2> QED BY <1>1, <2>1, <2>2 DEF Step
<1>2. CASE \/ \E t \in Templates : OfTemplate(t)
           \/ \E i \in DOMAIN docs : OfDocument(i)
           \/ SetActive \/ MonthEnds
  <2>1. /\ DeskTypes' /\ NoneGenerated /\ TemplatesStay /\ today <= today'
        /\ UNCHANGED <<locks, phase, job>> /\ HeldStay
    BY <1>2, TemplateSteps, DocumentSteps, DeskAndTime DEF HeldStay, BillingInv, DeskTypes
  <2>2. \A t \in Templates : DueNow(t) /\ locks[t] # None => DueNow(t)'
    BY <2>1 DEF DueNow, HeldStay, BillingInv, DeskTypes, TemplateRow
  <2>3. MineLocked'
    <3> SUFFICES ASSUME NEW r \in Requests
        PROVE  /\ phase[r] # "lock" => job[r].mine = {}
               /\ \A t \in job[r].mine : locks[t] = r /\ DueNow(t)'
      BY <2>1 DEF MineLocked
    <3>1. job[r].mine \subseteq Templates
      BY DEF BillingInv, DeskTypes, Job
    <3> QED BY <2>2, <3>1, SalesDeskAssumption DEF BillingInv, MineLocked
  <2> QED BY <2>1, <2>3, BilledKept DEF BillingInv
<1>3. CASE UNCHANGED deskVars
  <2>1. UNCHANGED <<today, customer, series, settings, template, locks, docs, phase, job, ops>>
    BY <1>3 DEF deskVars, deskRows
  <2>2. DeskTypes'
    BY <2>1 DEF DeskTypes, BillingInv
  <2>3. MineLocked'
    BY <2>1 DEF MineLocked, DueNow, BillingInv
  <2>4. NoneGenerated /\ TemplatesStay /\ today <= today'
    BY <2>1, SameDocs DEF BillingInv, TemplatesStay, DeskTypes
  <2> QED BY <2>2, <2>3, <2>4, BilledKept DEF BillingInv
<1> QED BY <1>1, <1>2, <1>3 DEF DeskNext, OfTemplate, OfDocument

\* The invariant is what EveryPeriodBilled says.
LEMMA BilledIsEveryPeriod ==
  ASSUME BillingInv
  PROVE  EveryPeriodBilled
<1> SUFFICES ASSUME NEW t \in Templates, NEW i \in InvoicesOf(t)
    PROVE  LET then == IF Following(i) = {} THEN template[t].next.m
                       ELSE docs[CHOOSE j \in Following(i) : TRUE].date.m
           IN docs[i].date.m <= today /\ then = docs[i].date.m + docs[i].step
  BY DEF EveryPeriodBilled
<1>1. /\ docs[i].date.m <= today
      /\ \A j \in Following(i) : docs[j].date.m = docs[i].date.m + docs[i].step
      /\ Following(i) = {} => template[t].next.m = docs[i].date.m + docs[i].step
  BY DEF BillingInv, Billed
<1>2. Following(i) # {} => (CHOOSE j \in Following(i) : TRUE) \in Following(i)
  OBVIOUS
<1> QED BY <1>1, <1>2

\* Documents, templates, settings and requests keep their shape.
THEOREM DeskTyped == DeskSpec => []DeskTypes
<1>1. DeskInit => BillingInv
  BY BillingInit
<1>2. BillingInv /\ [DeskNext]_deskVars => BillingInv'
  BY BillingNext
<1>3. BillingInv => DeskTypes
  BY DEF BillingInv
<1> QED BY <1>1, <1>2, <1>3, PTL DEF DeskSpec

\* Whoever generates, edits or deletes templates at the same time, every period
\* is billed once (generateDueRecurringInvoices locks each template and looks at
\* it again).
THEOREM PeriodsBilled == DeskSpec => []EveryPeriodBilled
<1>1. DeskInit => BillingInv
  BY BillingInit
<1>2. BillingInv /\ [DeskNext]_deskVars => BillingInv'
  BY BillingNext
<1>3. BillingInv => EveryPeriodBilled
  BY BilledIsEveryPeriod
<1> QED BY <1>1, <1>2, <1>3, PTL DEF DeskSpec
-----------------------------------------------------------------------------
(***************************************************************************)
(* Sends.  A step edits one document at most (j, or 0); the others stay    *)
(* what they are to the history, and no request comes to owe them a row.   *)
(***************************************************************************)
DebtPaid(i) ==
  /\ docs[i].told + Cardinality(Owing(i)) <= docs[i].confirmed
  /\ docs[i].state = "SENT" => docs[i].confirmed > 0

DocsGrow ==
  /\ DOMAIN docs \subseteq DOMAIN docs'
  /\ \A i \in DOMAIN docs : docs'[i].kind = docs[i].kind /\ docs[i].confirmed <= docs'[i].confirmed
  /\ \A i \in DOMAIN docs' \ DOMAIN docs : docs'[i].told = 0 /\ docs'[i].state # "SENT"

SameHistory(i) ==
  /\ docs'[i].told = docs[i].told
  /\ docs'[i].state = "SENT" => docs[i].state = "SENT" \/ docs'[i].confirmed > 0

NoNewDebt(q, j) ==
  /\ phase'[q] \in Sending => job'[q].doc \in DOMAIN docs'
  /\ phase'[q] \in {"tell", "mark"} => docs'[job'[q].doc].confirmed > 0
  /\ Owes(q)' /\ job'[q].doc # j => Owes(q) /\ job'[q].doc = job[q].doc

\* Who owes a row of the history knows the document.
LEMMA OwesDocument ==
  ASSUME SendingInv, NEW q \in Requests, Owes(q)
  PROVE  job[q].doc \in DOMAIN docs
BY DEF SendingInv, SendingKnown, Owes, Sending

\* Finitely many requests owe a document its row.
LEMMA OwingFinite ==
  ASSUME NEW i
  PROVE  IsFiniteSet(Owing(i)) /\ Cardinality(Owing(i)) \in Nat
<1>1. Owing(i) \subseteq Requests
  BY DEF Owing
<1> QED BY <1>1, FS_Subset, FS_CardinalityType, SalesDeskAssumption

\* Fewer requests, fewer rows owed.
LEMMA OwingSmaller ==
  ASSUME NEW i, Owing(i)' \subseteq Owing(i)
  PROVE  Cardinality(Owing(i)') \in Nat /\ Cardinality(Owing(i)') <= Cardinality(Owing(i))
BY OwingFinite, FS_Subset, FS_CardinalityType

\* A step keeps the invariant of sends when the document it edits is accounted for.
LEMMA SendingStep ==
  ASSUME DeskTypes, DeskTypes', SendingInv, NEW j, j \notin DOMAIN docs' \ DOMAIN docs,
         DocsGrow,
         \A i \in DOMAIN docs : i # j => SameHistory(i),
         j \in DOMAIN docs => DebtPaid(j)',
         \A q \in Requests : NoNewDebt(q, j)
  PROVE  SendingInv'
<1>1. SendingKnown' /\ ConfirmedBefore'
  BY DEF NoNewDebt, SendingKnown, ConfirmedBefore
<1>2. docs \in Seq(Doc) /\ docs' \in Seq(Doc)
  BY DEF DeskTypes
<1>3. ASSUME NEW i \in DOMAIN docs', i # j
      PROVE  DebtPaid(i)'
  <2>1. Owing(i)' \subseteq Owing(i)
    BY <1>3 DEF Owing, NoNewDebt
  <2>2. Cardinality(Owing(i)') \in Nat /\ Cardinality(Owing(i)') <= Cardinality(Owing(i))
    BY <2>1, OwingSmaller
  <2>3. docs'[i] \in Doc
    BY <1>2
  <2>4. docs'[i].confirmed \in Nat /\ docs'[i].told \in Nat
    BY <2>3 DEF Doc
  <2>5. CASE i \in DOMAIN docs
    <3>1. docs[i] \in Doc /\ DebtPaid(i)
      BY <1>2, <2>5 DEF SendingInv, ToldAfterConfirmed, DebtPaid
    <3>2. docs[i].confirmed \in Nat /\ docs[i].told \in Nat
      BY <3>1 DEF Doc
    <3>3. SameHistory(i) /\ docs[i].confirmed <= docs'[i].confirmed
      BY <1>3, <2>5 DEF DocsGrow
    <3>4. Cardinality(Owing(i)) \in Nat
      BY OwingFinite
    <3>5. docs'[i].told + Cardinality(Owing(i)') <= docs'[i].confirmed
      BY <2>2, <2>4, <3>1, <3>2, <3>3, <3>4 DEF DebtPaid, SameHistory
    <3>6. docs'[i].state = "SENT" => docs'[i].confirmed > 0
      BY <2>4, <3>1, <3>2, <3>3 DEF DebtPaid, SameHistory
    <3> QED BY <3>5, <3>6 DEF DebtPaid
  <2>6. CASE i \notin DOMAIN docs
    <3>1. Owing(i) = {}
      BY <2>6, OwesDocument DEF Owing
    <3>2. Owing(i)' = {}
      BY <2>1, <3>1
    <3>3. Cardinality(Owing(i)') = 0
      BY <3>2, FS_EmptySet
    <3> QED BY <2>4, <2>6, <3>3 DEF DocsGrow, DebtPaid
  <2> QED BY <2>5, <2>6
<1>4. \A i \in DOMAIN docs' : DebtPaid(i)'
  BY <1>3
<1> QED BY <1>1, <1>4 DEF SendingInv, ToldAfterConfirmed, DebtPaid

\* A request that does not move owes what it owed.
LEMMA OthersOwe ==
  ASSUME DeskTypes, DeskTypes', SendingInv, DocsGrow, NEW q \in Requests,
         phase'[q] = phase[q], job'[q] = job[q], NEW j
  PROVE  NoNewDebt(q, j)
<1>1. phase[q] \in Sending => job[q].doc \in DOMAIN docs /\ job[q].doc \in DOMAIN docs'
  BY DEF SendingInv, SendingKnown, DocsGrow
<1>2. phase[q] \in {"tell", "mark"} => docs'[job[q].doc].confirmed > 0
  <2> SUFFICES ASSUME phase[q] \in {"tell", "mark"}
      PROVE  docs'[job[q].doc].confirmed > 0
    OBVIOUS
  <2>1. job[q].doc \in DOMAIN docs /\ job[q].doc \in DOMAIN docs'
    BY <1>1 DEF Sending
  <2>2. docs[job[q].doc] \in Doc /\ docs'[job[q].doc] \in Doc
    BY <2>1 DEF DeskTypes
  <2>3. docs[job[q].doc].confirmed > 0 /\ docs[job[q].doc].confirmed <= docs'[job[q].doc].confirmed
    BY <2>1 DEF SendingInv, ConfirmedBefore, DocsGrow
  <2> QED BY <2>2, <2>3 DEF Doc
<1>3. Owes(q)' => Owes(q)
  BY <1>1 DEF Owes, DocsGrow, Sending
<1> QED BY <1>1, <1>2, <1>3 DEF NoNewDebt

\* It is enough to look at the request that moves.
LEMMA OneOwes ==
  ASSUME DeskTypes, DeskTypes', SendingInv, DocsGrow, NEW r \in Requests, NEW j,
         OthersStay(r), NoNewDebt(r, j)
  PROVE  \A q \in Requests : NoNewDebt(q, j)
<1> SUFFICES ASSUME NEW q \in Requests, q # r
    PROVE  NoNewDebt(q, j)
  OBVIOUS
<1>1. phase'[q] = phase[q] /\ job'[q] = job[q]
  BY DEF OthersStay
<1> QED BY <1>1, OthersOwe

\* Steps that touch no send.
LEMMA NoSendStep ==
  ASSUME DeskTypes, DeskTypes', SendingInv, NEW r \in Requests, OthersStay(r),
         phase'[r] \notin Sending,
         \A i \in DOMAIN docs : docs'[i] = docs[i],
         DOMAIN docs \subseteq DOMAIN docs',
         \A i \in DOMAIN docs' \ DOMAIN docs : docs'[i].told = 0 /\ docs'[i].state # "SENT"
  PROVE  SendingInv'
<1>1. DocsGrow
  <2> SUFFICES ASSUME NEW i \in DOMAIN docs
      PROVE  docs[i].confirmed <= docs'[i].confirmed
    BY DEF DocsGrow
  <2>1. docs[i] \in Doc /\ docs'[i] = docs[i]
    BY DEF DeskTypes
  <2> QED BY <2>1 DEF Doc
<1>2. \A i \in DOMAIN docs : SameHistory(i)
  BY DEF SameHistory
<1>3. NoNewDebt(r, 0)
  BY DEF NoNewDebt, Sending, Owes
<1>4. 0 \notin DOMAIN docs' /\ 0 \notin DOMAIN docs
  BY DEF DeskTypes
<1> QED BY <1>1, <1>2, <1>3, <1>4, OneOwes, SendingStep

\* What is known of the request that sends.
LEMMA Sender ==
  ASSUME DeskTypes, SendingInv, NEW r \in Requests, phase[r] \in Sending
  PROVE  /\ job[r].doc \in DOMAIN docs /\ docs[job[r].doc] \in Doc
         /\ DebtPaid(job[r].doc) /\ job[r].doc # 0
         /\ phase[r] \in {"tell", "mark"} => docs[job[r].doc].confirmed > 0
<1>1. job[r].doc \in DOMAIN docs
  BY DEF SendingInv, SendingKnown
<1> QED BY <1>1 DEF SendingInv, ToldAfterConfirmed, ConfirmedBefore, DebtPaid, DeskTypes

\* Sends that change no document, or its state to a failure.
LEMMA QuietSendStep ==
  ASSUME DeskTypes, DeskTypes', SendingInv, NEW r \in Requests, OthersStay(r),
         phase'[r] \in Sending => job'[r].doc \in DOMAIN docs,
         phase'[r] \notin {"tell", "mark"},
         DOMAIN docs' = DOMAIN docs,
         \A i \in DOMAIN docs :
           /\ docs'[i].kind = docs[i].kind /\ docs'[i].confirmed = docs[i].confirmed
           /\ docs'[i].told = docs[i].told
           /\ docs'[i].state = docs[i].state \/ docs'[i].state # "SENT"
  PROVE  SendingInv'
<1>1. DocsGrow
  <2> SUFFICES ASSUME NEW i \in DOMAIN docs
      PROVE  docs[i].confirmed <= docs'[i].confirmed
    BY DEF DocsGrow
  <2>1. docs[i] \in Doc
    BY DEF DeskTypes
  <2> QED BY <2>1 DEF Doc
<1>2. \A i \in DOMAIN docs : SameHistory(i)
  BY DEF SameHistory
<1>3. NoNewDebt(r, 0)
  BY DEF NoNewDebt, Owes
<1>4. 0 \notin DOMAIN docs' /\ 0 \notin DOMAIN docs
  BY DEF DeskTypes
<1> QED BY <1>1, <1>2, <1>3, <1>4, OneOwes, SendingStep

\* A step that edits the document of the request.
LEMMA EditSendStep ==
  ASSUME DeskTypes, DeskTypes', SendingInv, NEW r \in Requests, OthersStay(r),
         phase[r] \in Sending, NEW j, j = job[r].doc, job'[r].doc = j,
         NEW d \in Doc, docs' = [docs EXCEPT ![j] = d],
         d.kind = docs[j].kind, docs[j].confirmed <= d.confirmed,
         phase'[r] \in {"tell", "mark"} => d.confirmed > 0,
         d.state = "SENT" => d.confirmed > 0,
         d.told + Cardinality(Owing(j)') <= d.confirmed
  PROVE  SendingInv'
<1>1. j \in DOMAIN docs /\ docs \in Seq(Doc)
  BY Sender DEF DeskTypes
<1>2. /\ DOMAIN docs' = DOMAIN docs /\ docs'[j] = d
      /\ \A i \in DOMAIN docs : i # j => docs'[i] = docs[i]
  BY <1>1
<1>3. DocsGrow
  <2> SUFFICES ASSUME NEW i \in DOMAIN docs
      PROVE  docs'[i].kind = docs[i].kind /\ docs[i].confirmed <= docs'[i].confirmed
    BY <1>2 DEF DocsGrow
  <2>1. docs[i].confirmed \in Nat
    <3>1. docs[i] \in Doc
      BY <1>1
    <3> QED BY <3>1 DEF Doc
  <2> QED BY <1>2, <2>1
<1>4. \A i \in DOMAIN docs : i # j => SameHistory(i)
  BY <1>2 DEF SameHistory
<1>5. NoNewDebt(r, j)
  BY <1>1, <1>2 DEF NoNewDebt
<1>6. DebtPaid(j)'
  BY <1>2 DEF DebtPaid
<1>7. j \notin DOMAIN docs' \ DOMAIN docs
  BY <1>1
<1> QED BY <1>3, <1>4, <1>5, <1>6, <1>7, OneOwes, SendingStep

\* A step adds nobody else to those who owe a row.
LEMMA OthersStillOwe ==
  ASSUME SendingInv, NEW r \in Requests, OthersStay(r), NEW i,
         \A k \in DOMAIN docs : docs'[k].kind = docs[k].kind
  PROVE  /\ Owing(i)' \subseteq Owing(i) \union {r}
         /\ ~Owes(r)' => Owing(i)' \subseteq Owing(i) \ {r}
<1> SUFFICES ASSUME NEW q \in Requests \ {r}, Owes(q)', job'[q].doc = i
    PROVE  Owes(q) /\ job[q].doc = i
  BY DEF Owing
<1>1. phase'[q] = phase[q] /\ job'[q] = job[q]
  BY DEF OthersStay
<1>2. phase[q] \in {"tell", "mark"}
  BY <1>1 DEF Owes
<1>3. job[q].doc \in DOMAIN docs
  BY <1>2 DEF SendingInv, SendingKnown, Sending
<1> QED BY <1>1, <1>3 DEF Owes

\* A send that resolves is one more row owed; one that throws is none.
LEMMA MailKeeps ==
  ASSUME DeskTypes, DeskTypes', SendingInv, NEW r \in Requests, OthersStay(r), Mail(r)
  PROVE  SendingInv'
<1>0. PICK j : j = job[r].doc
  OBVIOUS
<1>1. /\ phase[r] \in Sending /\ j \in DOMAIN docs /\ docs[j] \in Doc /\ DebtPaid(j)
      /\ job' = job /\ docs \in Seq(Doc)
  BY <1>0, Sender DEF Mail, At, Sending, DeskTypes
<1>2. CASE UNCHANGED docs /\ GoTo(r, FirstFailed(r))
  <2>1. phase'[r] \in {"tell failure", "mark failure"}
    BY <1>2, SendPhases, GoToTypes DEF Phase, Sending
  <2> QED BY <1>0, <1>1, <1>2, <2>1, QuietSendStep
<1>3. CASE docs' = [docs EXCEPT ![j].confirmed = @ + 1]
  <2> DEFINE d == [docs[j] EXCEPT !.confirmed = @ + 1]
  <2>1. docs' = [docs EXCEPT ![j] = d]
    BY <1>3
  <2>2. d \in Doc
    BY <1>1, EditTypes
  <2>3. /\ d.kind = docs[j].kind /\ d.confirmed = docs[j].confirmed + 1
        /\ d.told = docs[j].told /\ docs[j].confirmed \in Nat /\ docs[j].told \in Nat
    BY <1>1 DEF Doc
  <2>4. \A k \in DOMAIN docs : docs'[k].kind = docs[k].kind
    BY <1>1, <2>1, <2>3
  <2> HIDE DEF d
  <2>5. Owing(j)' \subseteq Owing(j) \union {r}
    BY <2>4, OthersStillOwe
  <2>6. /\ IsFiniteSet(Owing(j) \union {r})
        /\ Cardinality(Owing(j) \union {r}) <= Cardinality(Owing(j)) + 1
        /\ Cardinality(Owing(j)) \in Nat
    BY OwingFinite, FS_AddElement
  <2>7. /\ Cardinality(Owing(j)') <= Cardinality(Owing(j)) + 1
        /\ Cardinality(Owing(j)') \in Nat
    <3>1. /\ Cardinality(Owing(j)') <= Cardinality(Owing(j) \union {r})
          /\ IsFiniteSet(Owing(j)')
      BY <2>5, <2>6, FS_Subset
    <3>2. Cardinality(Owing(j)') \in Nat /\ Cardinality(Owing(j) \union {r}) \in Nat
      BY <2>6, <3>1, FS_CardinalityType
    <3> QED BY <2>6, <3>1, <3>2
  <2>8. docs[j].told + Cardinality(Owing(j)) <= docs[j].confirmed
    BY <1>1 DEF DebtPaid
  <2>9. d.told + Cardinality(Owing(j)') <= d.confirmed
    BY <2>3, <2>6, <2>7, <2>8
  <2>10. docs[j].confirmed <= d.confirmed /\ d.confirmed > 0
    BY <2>3
  <2> QED BY <1>0, <1>1, <2>1, <2>2, <2>3, <2>9, <2>10, EditSendStep
<1> QED BY <1>0, <1>2, <1>3 DEF Mail

\* A row of the history is one owed less.
LEMMA TellKeeps ==
  ASSUME DeskTypes, DeskTypes', SendingInv, NEW r \in Requests, OthersStay(r), Tell(r)
  PROVE  SendingInv'
<1>0. PICK j : j = job[r].doc
  OBVIOUS
<1>1. /\ phase[r] = "tell" /\ phase[r] \in Sending /\ j \in DOMAIN docs /\ docs[j] \in Doc
      /\ DebtPaid(j) /\ job' = job /\ docs \in Seq(Doc) /\ docs[j].confirmed > 0
  BY <1>0, Sender DEF Tell, At, Sending, DeskTypes
<1> DEFINE d == [docs[j] EXCEPT !.told = @ + 1]
<1>2. docs' = [docs EXCEPT ![j] = d]
  BY <1>0 DEF Tell
<1>3. d \in Doc
  BY <1>1, EditTypes
<1>4. /\ d.kind = docs[j].kind /\ d.confirmed = docs[j].confirmed /\ d.state = docs[j].state
      /\ d.told = docs[j].told + 1 /\ docs[j].confirmed \in Nat /\ docs[j].told \in Nat
  BY <1>1 DEF Doc
<1>5. \A k \in DOMAIN docs : docs'[k].kind = docs[k].kind
  BY <1>1, <1>2, <1>4
<1> HIDE DEF d
<1>6. ~Owes(r)'
  <2>1. phase'[r] = IF docs[j].kind = "INVOICE" THEN "mark" ELSE "audit"
    BY <1>0 DEF Tell, GoTo, FirstOf, DeskTypes
  <2>2. docs'[job'[r].doc].kind = docs[j].kind
    BY <1>0, <1>1, <1>5
  <2> QED BY <2>1, <2>2 DEF Owes
<1>7. r \in Owing(j)
  BY <1>0, <1>1 DEF Owing, Owes
<1>8. Owing(j)' \subseteq Owing(j) \ {r}
  BY <1>5, <1>6, OthersStillOwe
<1>9. /\ IsFiniteSet(Owing(j) \ {r}) /\ Cardinality(Owing(j)) \in Nat
      /\ Cardinality(Owing(j) \ {r}) = Cardinality(Owing(j)) - 1
  BY <1>7, OwingFinite, FS_RemoveElement
<1>10. /\ Cardinality(Owing(j)') <= Cardinality(Owing(j)) - 1
       /\ Cardinality(Owing(j)') \in Nat
  BY <1>8, <1>9, FS_Subset, FS_CardinalityType
<1>11. docs[j].told + Cardinality(Owing(j)) <= docs[j].confirmed
  BY <1>1 DEF DebtPaid
<1>12. d.told + Cardinality(Owing(j)') <= d.confirmed
  BY <1>4, <1>9, <1>10, <1>11
<1>13. docs[j].confirmed <= d.confirmed /\ d.confirmed > 0
  BY <1>1, <1>4
<1> QED BY <1>0, <1>1, <1>2, <1>3, <1>4, <1>12, <1>13, EditSendStep

\* SENT is written of a send that has resolved, and a reminder is still owed its row.
LEMMA MarkKeeps ==
  ASSUME DeskTypes, DeskTypes', SendingInv, NEW r \in Requests, OthersStay(r), Mark(r)
  PROVE  SendingInv'
<1>0. PICK j : j = job[r].doc
  OBVIOUS
<1>1. /\ phase[r] = "mark" /\ phase[r] \in Sending /\ j \in DOMAIN docs /\ docs[j] \in Doc
      /\ DebtPaid(j) /\ job' = job /\ docs \in Seq(Doc) /\ docs[j].confirmed > 0
  BY <1>0, Sender DEF Mark, At, Sending, DeskTypes
<1> DEFINE d == [docs[j] EXCEPT !.state = "SENT"]
<1>2. docs' = [docs EXCEPT ![j] = d]
  BY <1>0 DEF Mark
<1>3. d \in Doc
  BY <1>1, EditTypes
<1>4. /\ d.kind = docs[j].kind /\ d.confirmed = docs[j].confirmed
      /\ d.told = docs[j].told /\ docs[j].confirmed \in Nat /\ docs[j].told \in Nat
      /\ docs[j].kind \in {"INVOICE", "REMINDER"}
  BY <1>1 DEF Doc
<1>5. \A k \in DOMAIN docs : docs'[k].kind = docs[k].kind
  BY <1>1, <1>2, <1>4
<1> HIDE DEF d
<1>6. phase'[r] = IF docs[j].kind = "INVOICE" THEN "audit" ELSE "tell"
  BY <1>0 DEF Mark, GoTo, FirstOf, DeskTypes
<1>7. Owing(j)' \subseteq Owing(j)
  <2>1. CASE docs[j].kind = "INVOICE"
    <3>1. ~Owes(r)'
      BY <1>6, <2>1 DEF Owes
    <3> QED BY <1>5, <3>1, OthersStillOwe
  <2>2. CASE docs[j].kind = "REMINDER"
    <3>1. r \in Owing(j)
      BY <1>0, <1>1, <2>2 DEF Owing, Owes
    <3> QED BY <1>5, <3>1, OthersStillOwe
  <2> QED BY <1>4, <2>1, <2>2
<1>8. Cardinality(Owing(j)') \in Nat /\ Cardinality(Owing(j)') <= Cardinality(Owing(j))
  BY <1>7, OwingSmaller
<1>9. docs[j].told + Cardinality(Owing(j)) <= docs[j].confirmed /\ Cardinality(Owing(j)) \in Nat
  BY <1>1, OwingFinite DEF DebtPaid
<1>10. d.told + Cardinality(Owing(j)') <= d.confirmed
  BY <1>4, <1>8, <1>9
<1>11. docs[j].confirmed <= d.confirmed /\ d.confirmed > 0
  BY <1>1, <1>4
<1> QED BY <1>0, <1>1, <1>2, <1>3, <1>4, <1>10, <1>11, EditSendStep

\* The steps of a send keep the invariant of sends.
LEMMA SendStepKeeps ==
  ASSUME DeskTypes, SendingInv, NEW r \in Requests,
         \/ \E i \in DOMAIN docs : SendBegin(r, i)
         \/ Mail(r) \/ Tell(r) \/ Mark(r) \/ SendDone(r) \/ SendFails(r)
         \/ TellFailure(r) \/ MarkFailure(r)
  PROVE  SendingInv'
<1>1. DeskTypes' /\ OthersStay(r)
  BY SendSteps DEF Own
<1>2. CASE \E i \in DOMAIN docs : SendBegin(r, i)
  <2>0. PICK i \in DOMAIN docs : SendBegin(r, i)
    BY <1>2
  <2>1. phase'[r] = "mail" /\ job'[r].doc = i /\ UNCHANGED docs
    <3>1. job' = [job EXCEPT ![r].doc = i] /\ job \in [Requests -> Job]
      BY <2>0 DEF SendBegin, DeskTypes
    <3>2. job'[r].doc = i
      BY <3>1 DEF Job
    <3> QED BY <2>0, <3>2 DEF SendBegin, Begin, GoTo, DeskTypes
  <2> QED BY <1>1, <2>1, QuietSendStep
<1>3. CASE Mail(r) \/ Tell(r) \/ Mark(r)
  BY <1>1, <1>3, MailKeeps, TellKeeps, MarkKeeps
<1>4. CASE SendDone(r) \/ SendFails(r) \/ TellFailure(r)
  <2>1. phase[r] \in Sending /\ UNCHANGED docs
    BY <1>4 DEF SendDone, SendFails, TellFailure, At, Sending
  <2>2. \/ phase'[r] = "idle"
        \/ phase'[r] \in {"tell failure", "mark failure"} /\ UNCHANGED job
    BY <1>4, SendPhases, GoToTypes, EndTxTypes
       DEF SendDone, SendFails, TellFailure, Phase, Sending
  <2>3. job[r].doc \in DOMAIN docs
    BY <2>1, Sender
  <2> QED BY <1>1, <2>1, <2>2, <2>3, QuietSendStep DEF Sending
<1>5. CASE MarkFailure(r)
  <2>0. PICK j : j = job[r].doc
    OBVIOUS
  <2>1. /\ phase[r] \in Sending /\ docs' = [docs EXCEPT ![j].state = "FAILED"]
    BY <1>5, <2>0 DEF MarkFailure, At, Sending
  <2>2. \/ phase'[r] = "idle"
        \/ phase'[r] \in {"tell failure", "mark failure"} /\ UNCHANGED job
    BY <1>5, GoToTypes, EndTxTypes DEF MarkFailure, Phase, Sending
  <2>3. j \in DOMAIN docs /\ docs \in Seq(Doc) /\ docs[j] \in Doc
    BY <2>0, <2>1, Sender DEF DeskTypes
  <2> DEFINE d == [docs[j] EXCEPT !.state = "FAILED"]
  <2>4. docs' = [docs EXCEPT ![j] = d]
    BY <2>1
  <2>5. /\ d.kind = docs[j].kind /\ d.confirmed = docs[j].confirmed
        /\ d.told = docs[j].told /\ d.state = "FAILED"
    BY <2>3 DEF Doc
  <2> HIDE DEF d
  <2>6. DOMAIN docs' = DOMAIN docs
    BY <2>3, <2>4
  <2>7. \A i \in DOMAIN docs :
           /\ docs'[i].kind = docs[i].kind /\ docs'[i].confirmed = docs[i].confirmed
           /\ docs'[i].told = docs[i].told
           /\ docs'[i].state = docs[i].state \/ docs'[i].state # "SENT"
    BY <2>3, <2>4, <2>5
  <2> QED BY <1>1, <2>0, <2>2, <2>3, <2>6, <2>7, QuietSendStep DEF Sending
<1> QED BY <1>2, <1>3, <1>4, <1>5

\* Steps of other people edit what the history is not about, or append.
LEMMA OtherSendStep ==
  ASSUME DeskTypes, DeskTypes', SendingInv, UNCHANGED <<phase, job>>,
         DOMAIN docs \subseteq DOMAIN docs',
         \A i \in DOMAIN docs :
           /\ docs'[i].kind = docs[i].kind /\ docs'[i].confirmed = docs[i].confirmed
           /\ docs'[i].told = docs[i].told
           /\ docs'[i].state = docs[i].state \/ docs'[i].state # "SENT",
         \A i \in DOMAIN docs' \ DOMAIN docs : docs'[i].told = 0 /\ docs'[i].state # "SENT"
  PROVE  SendingInv'
<1>1. DocsGrow
  <2> SUFFICES ASSUME NEW i \in DOMAIN docs
      PROVE  docs[i].confirmed <= docs'[i].confirmed
    BY DEF DocsGrow
  <2>1. docs[i] \in Doc
    BY DEF DeskTypes
  <2> QED BY <2>1 DEF Doc
<1>2. \A i \in DOMAIN docs : SameHistory(i)
  BY DEF SameHistory
<1>3. \A q \in Requests : NoNewDebt(q, 0)
  BY <1>1, OthersOwe
<1>4. 0 \notin DOMAIN docs' /\ 0 \notin DOMAIN docs
  BY DEF DeskTypes
<1> QED BY <1>1, <1>2, <1>3, <1>4, SendingStep

\* The edits of documents that the history is not about.
LEMMA DocumentStepKeeps ==
  ASSUME BillingInv, SendingInv, NEW i \in DOMAIN docs, OfDocument(i)
  PROVE  SendingInv'
<1>1. /\ DeskTypes /\ DeskTypes' /\ UNCHANGED <<phase, job>> /\ NoneGenerated
      /\ docs \in Seq(Doc) /\ docs[i] \in Doc
  BY DocumentSteps DEF BillingInv, DeskTypes
<1> DEFINE Quiet(d) == /\ d.kind = docs[i].kind /\ d.confirmed = docs[i].confirmed
                       /\ d.told = docs[i].told
                       /\ d.state = docs[i].state \/ d.state # "SENT"
           Set(d) == docs' = [docs EXCEPT ![i] = d]
<1>2. ASSUME NEW d, Set(d), Quiet(d)
      PROVE  SendingInv'
  <2>1. DOMAIN docs' = DOMAIN docs
    BY <1>1, <1>2
  <2>2. \A k \in DOMAIN docs :
           /\ docs'[k].kind = docs[k].kind /\ docs'[k].confirmed = docs[k].confirmed
           /\ docs'[k].told = docs[k].told
           /\ docs'[k].state = docs[k].state \/ docs'[k].state # "SENT"
    BY <1>1, <1>2
  <2> QED BY <1>1, <2>1, <2>2, OtherSendStep
<1>3. CASE ChangeStatus(i)
  <2>1. PICK s : docs' = [docs EXCEPT ![i].status = s]
    BY <1>3 DEF ChangeStatus
  <2> DEFINE d == [docs[i] EXCEPT !.status = s]
  <2>2. Set(d) /\ Quiet(d)
    BY <1>1, <2>1 DEF Doc
  <2> HIDE DEF d, Set, Quiet
  <2> QED BY <1>2, <2>2
<1>4. CASE PdfReady(i)
  <2>1. docs' = [docs EXCEPT ![i].pdf = TRUE]
    BY <1>4 DEF PdfReady
  <2> DEFINE d == [docs[i] EXCEPT !.pdf = TRUE]
  <2>2. Set(d) /\ Quiet(d)
    BY <1>1, <2>1 DEF Doc
  <2> HIDE DEF d, Set, Quiet
  <2> QED BY <1>2, <2>2
<1>5. CASE ExportEInvoice(i)
  <2>1. docs' = [docs EXCEPT ![i].state = "EINVOICE_READY"]
    BY <1>5 DEF ExportEInvoice
  <2> DEFINE d == [docs[i] EXCEPT !.state = "EINVOICE_READY"]
  <2>2. Set(d) /\ Quiet(d)
    BY <1>1, <2>1 DEF Doc
  <2> HIDE DEF d, Set, Quiet
  <2> QED BY <1>2, <2>2
<1>6. CASE CreateReminder(i)
  <2> DEFINE d0 == Invoice(None, docs[i].date, 0)
             d == [d0 EXCEPT !.kind = "REMINDER", !.of = i, !.state = "DRAFT"]
  <2>1. docs' = Append(docs, d)
    BY <1>6 DEF CreateReminder
  <2>2. d.told = 0 /\ d.state # "SENT"
    BY DEF Invoice
  <2> HIDE DEF d
  <2>3. /\ \A k \in DOMAIN docs : docs'[k] = docs[k]
        /\ DOMAIN docs' = DOMAIN docs \union {Len(docs) + 1} /\ docs'[Len(docs) + 1] = d
    <3>1. Len(docs') = Len(docs) + 1 /\ Len(docs) \in Nat /\ docs' \in Seq(Doc)
      BY <1>1, <2>1 DEF DeskTypes
    <3> QED BY <1>1, <2>1, <3>1
  <2> QED BY <1>1, <2>2, <2>3, OtherSendStep
<1> QED BY <1>3, <1>4, <1>5, <1>6 DEF OfDocument

\* Where nothing is sent, the invariant of sends holds.
LEMMA SendingInit == DeskInit => SendingInv
<1> SUFFICES ASSUME DeskInit
    PROVE  SendingInv
  OBVIOUS
<1> QED BY DEF DeskInit, SendingInv, SendingKnown, ConfirmedBefore, ToldAfterConfirmed, Sending

\* The invariant of sends is inductive.
LEMMA SendingNext == BillingInv /\ BillingInv' /\ SendingInv /\ [DeskNext]_deskVars => SendingInv'
<1> SUFFICES ASSUME BillingInv, BillingInv', SendingInv, [DeskNext]_deskVars
    PROVE  SendingInv'
  OBVIOUS
<1>0. DeskTypes /\ DeskTypes'
  BY DEF BillingInv
<1>1. ASSUME NEW r \in Requests, Step(r)
      PROVE  SendingInv'
  <2>1. CASE \/ DraftBegin(r) \/ EnsureSeries(r) \/ EnsureSettings(r)
             \/ Draft(r) \/ DraftRefused(r) \/ DeadlockAbort(r) \/ Fail(r)
    <3>1. /\ OthersStay(r) /\ phase'[r] \notin Sending /\ DOMAIN docs \subseteq DOMAIN docs'
          /\ \A i \in DOMAIN docs : docs'[i] = docs[i]
          /\ \A i \in DOMAIN docs' \ DOMAIN docs : docs'[i].told = 0 /\ docs'[i].state # "SENT"
      BY <1>0, <1>1, <2>1, DraftSteps DEF Own, NoneGenerated
    <3> QED BY <1>0, <1>1, <3>1, NoSendStep
  <2>2. CASE GenerateRead(r) \/ GenerateLock(r)
    <3>1. OthersStay(r) /\ phase'[r] = "lock" /\ UNCHANGED docs
      BY <1>1, <2>2, GenerateReadKeeps, GenerateLockKeeps
    <3>2. phase'[r] \notin Sending
      BY <3>1 DEF Sending
    <3> QED BY <1>0, <1>1, <3>1, <3>2, NoSendStep
  <2>3. CASE Generate(r)
    <3>1. /\ OthersStay(r) /\ phase'[r] = "idle" /\ Len(docs) <= Len(docs')
          /\ \A i \in DOMAIN docs : docs'[i] = docs[i]
          /\ \A i \in DOMAIN docs' \ DOMAIN docs :
               docs'[i].told = 0 /\ docs'[i].state = "NOT_SENT"
      BY <1>1, <2>3, GenerateKeeps
    <3>2. phase'[r] \notin Sending /\ DOMAIN docs \subseteq DOMAIN docs'
      BY <1>0, <3>1 DEF Sending, DeskTypes
    <3> QED BY <1>0, <1>1, <3>1, <3>2, NoSendStep
  <2>4. CASE \/ \E i \in DOMAIN docs : SendBegin(r, i)
             \/ Mail(r) \/ Tell(r) \/ Mark(r) \/ SendDone(r) \/ SendFails(r)
             \/ TellFailure(r) \/ MarkFailure(r)
    BY <1>0, <1>1, <2>4, SendStepKeeps
  <2> QED BY <1>1, <2>1, <2>2, <2>3, <2>4 DEF Step
<1>2. ASSUME NEW t \in Templates, OfTemplate(t)
      PROVE  SendingInv'
  <2>1. UNCHANGED <<docs, phase, job>>
    BY <1>2, TemplateSteps
  <2> QED BY <1>0, <2>1, OtherSendStep
<1>3. ASSUME NEW i \in DOMAIN docs, OfDocument(i)
      PROVE  SendingInv'
  BY <1>3, DocumentStepKeeps
<1>4. CASE SetActive \/ MonthEnds \/ UNCHANGED deskVars
  <2>1. UNCHANGED <<docs, phase, job>>
    BY <1>4 DEF SetActive, MonthEnds, deskVars, deskRows
  <2> QED BY <1>0, <2>1, OtherSendStep
<1> QED BY <1>1, <1>2, <1>3, <1>4 DEF DeskNext, OfTemplate, OfDocument

\* However many sends of a document overlap, fail and die, SENT and the rows of
\* the history are backed by sends the provider confirmed (appendSendHistory,
\* markReminderSendResult).
THEOREM SuccessIsTrue == DeskSpec => []NoFalseSuccess
<1>1. DeskInit => BillingInv /\ SendingInv
  BY BillingInit, SendingInit
<1>2. BillingInv /\ SendingInv /\ [DeskNext]_deskVars => (BillingInv /\ SendingInv)'
  BY BillingNext, SendingNext
<1>3. BillingInv /\ SendingInv => NoFalseSuccess
  <2> SUFFICES ASSUME BillingInv, SendingInv, NEW i \in DOMAIN docs
      PROVE  docs[i].told <= docs[i].confirmed /\ (docs[i].state = "SENT" => docs[i].confirmed > 0)
    BY DEF NoFalseSuccess
  <2>1. docs[i] \in Doc
    BY DEF BillingInv, DeskTypes
  <2>2. Cardinality(Owing(i)) \in Nat
    BY OwingFinite
  <2> QED BY <2>1, <2>2 DEF SendingInv, ToldAfterConfirmed, Doc
<1> QED BY <1>1, <1>2, <1>3, PTL DEF DeskSpec
=============================================================================
