# A verification project for the Montessori office system and its QuickBooks synchronisation

The repository is a NetBeans web application (Spring MVC, JDBC) of a school. One half,
`src/src/java/quickbooksync` and `mapcusts`, keeps QuickBooks in step with RenWeb, the
school's administration: families become customers, charges become invoice lines,
payments become payments received. The other half, `controladores` and `Montessori`,
serves the teachers' pages: lessons, attendance, progress, observations, settings.
This directory holds TLA+ models of it, the TLC runs that check them and the theorems
that TLAPS proves about them. `PROJECT.json` names every run, what each definition
models (`map`), the hazards and the findings.

Contents: [The system](#the-system), [The modules](#the-modules), [The runs](#the-runs),
[Findings](#findings), [The proofs](#the-proofs), [What is not modelled](#what-is-not-modelled),
[The plan](#the-plan).

## The system

There are four stores and no transaction anywhere: every statement commits by itself.

| store | holds | written by |
|---|---|---|
| RenWeb (PostgreSQL) | families, charges, payments, students | RenWeb's own users |
| QuickBooks (CData driver) | customers, invoices and their lines, payments received | the synchronisation, the bookkeeper |
| eduweb (PostgreSQL) | `CUSTOMERMAPPING`, `syncconfig`, `custlog`, `invoicelog`, `paymentlog` | the synchronisation, the mapping page |
| Lessons (PostgreSQL) and an FTP server | lessons, attendance, progress, settings, observations, images | the teachers' pages |

Each HTTP request runs in a thread of the servlet container. Nothing serialises requests, and
nothing schedules them either: a synchronisation happens because a user presses a button.

| component | state | operations | interacts with | hard behaviour | what makes it correct |
|---|---|---|---|---|---|
| Customer synchronisation (`CustomerSync`, `InsertCustomer`, `MappingTable`, `RetrieveCustomer`) | mapping table, QuickBooks customers, lists of a request | `customersync` | RenWeb, QuickBooks, eduweb, mapping page | overlapping requests, refused names, a loop that stops early, pairs by position | links only to the customer made for the family; no family silently left out |
| Family mapping (`Getcusts`, `Map`, `MappingFamilies`) | the page an administrator has open | list, map | mapping table | stale page | does not disturb the synchronisation |
| Invoice synchronisation (`InvoiceSync`, `RetrieveInvoice`, `InsertInvoice`, `UpdateInvoice`, `DeleteInvoice`, `AddDiscounts`, `ParseChargeID`) | QuickBooks invoice lines, lists of a request | `invoicesync` | RenWeb, QuickBooks, mapping table | amendments between reads and writes, partial reads, whole-invoice deletion, sticky flag | billed to the right family, brought up to date, live lines kept |
| Payment synchronisation (`PaymentSync`, `InsertPayment`, `UpdatePayment`, `DeletePayment`, `RetrievePayment`, `PaymenttoCharge`) | QuickBooks payments, lists of a request | `paymentsync` | RenWeb, QuickBooks, invoices | ids stored where they are not looked for, array of ten, pairs by position | a payment is entered once and stays |
| Runsync (`Runsync`, `Homepage.runsync`, `GetConfig`) | configuration row | the three above in order | all | an exception ends the rest | order of the three, each on the other's results |
| Connection pools (`PoolC3P0_Local`, `PoolC3P0_RenWeb`) | up to 100 connections each | get, close | every page | nested acquisition in both orders, leaks on exceptions, unsynchronised singleton | no connection is forgotten or used twice; everyone gets one in the end |
| Lessons (`Createlesson`, `Updatelesson`, `CreateLessonControlador`, `EditLessonControlador`, `LessonsListControlador`, `LessonArchiveControlador`, `LessonIdeaControlador`) | lesson, attendance, content and presenter rows | create, update, share, archive, delete | progress records | several statements per operation, no transaction | marks are not lost by accident; a request left alone is atomic |
| Lesson form script (`createlesson.jsp`, `infouser.jsp`, and the near copy in `editlesson.jsp`) | the combos of the page, the newest request | choose a level, subject, objective, idea, year | the list handlers of `CreateLessonControlador` | five requests share one variable, answers come in any order | what is shown is what was asked for |
| Progress (`ProgressControlador`, `ProgressbyStudent`) | progress rows per lesson, student, objective | load, save | lessons | saved while the lesson changes | one record per student, a rating is not lost by accident |
| Settings (`CreateSettingControlador`, `SettingsControlador`, `SOWTreeControlador`, `Step`) | the tree of subjects, objectives, contents and steps | create, edit, delete | lessons | deletions below a lesson in use | no reference to what is gone |
| Observations and resources (`ObservationControlador`, `ImageObservation`, `upload`, `ResourcesControlador`) | rows and files | create, edit, delete | FTP server | row and file written one after the other | row and file agree |
| Login and session (`LoginVerification`, `SessionCheck`, `Homepage.login`, `CerrarLogin`) | attributes of the HTTP session | log in, change year | every page | handlers that read attributes while another request changes them | pages see one year's data |
| Reports (`Reports/html`, `ReportControlador`) | none | lay out | database | none | not a matter of states |

Exceptions decide much of the control. A helper of the synchronisation catches
`SQLException`, logs it and returns what it has; any other exception (a
`NullPointerException` on a connection that could not be opened, an index past the end, a
number that does not parse) leaves the synchronisation and the request. A database call
may fail before or after its effect: the driver cannot tell.

## The modules

| module | models |
|---|---|
| `FamilyLinks` | abstract: customers are made for families, families are linked to the customer made for them |
| `CustomerSync` | `customersync` statement by statement, the mapping page, the bookkeeper |
| `Rows` | the rows of a query without ORDER BY, in every order |
| `InvoiceCompare` | the pure part of `invoicesync`: the comparison loops, and what they come to over all orders |
| `InvoiceSync` | `invoicesync` statement by statement, RenWeb's and QuickBooks' users |
| `PaymentCharges` | the pure part of `paymentsync`: the invoices of a payment and the amounts they are paired with |
| `PaymentSync` | `paymentsync` statement by statement, with `InvoiceCompare` and `PaymentCharges` |
| `StepCompare` | the pure part of `Step.compareandupdate`: which steps of an edited objective are deleted |
| `Lessons` | the handlers that write presentations, attendance, progress, equipment and presenters, statement by statement |
| `ConnectionPool` | both connection pools and the handlers, as what they take, hold and close |
| `LessonForm` | the script of the lesson form: combos, requests, callbacks, answers in any order |
| `Loops` | the three pure modules on every input: what their loops come to, and the definitions without orders |
| `MC...` | constants for TLC |
| `CustomerSyncProofs`, `InvoiceSyncProofs`, `PaymentSyncProofs`, `LoopsProofs`, `LessonsProofs`, `LessonsAtomicProofs`, `ConnectionPoolProofs`, `LessonFormProofs` | theorems |

`InvoiceSync` takes the outcomes of `InvoiceCompare`, and `PaymentSync` those of `InvoiceCompare` and `PaymentCharges`, as
operators; `Loops` states that these are what the loops in the code come to, which is checked on small inputs and proved for all. `InvoiceSync` names a customer by its family, which
`CustomerSync` justifies. `ConnectionPool` and `Lessons` describe the same handlers from two sides: what they hold, and what they write.

### CustomerSync

A session is a thread in `customersync`; `pc` is the statement it is at and `rest`, `new`,
`ids`, `at` are `allfamily`, `newcustomer`, `custids` and the loop index.

| action | code |
|---|---|
| `Start` | `Homepage.custsync` calls `customersync` |
| `RetrieveFamily` | both reads of `RetrieveCustomer` (the customers are read and not used) |
| `CheckMapping`, `CheckDone` | the loop over `allfamily`, one `checkmappingrw` each |
| `InsertName`, `InsertStops`, `InsertDone`, `SelectIds` | the loop of `insertCustomer`, its insert and its select |
| `UpdateLog` | `updatecustlog` |
| `InsertMapping`, `Return`, `MissingId` | the loop of `updatemapping`; `MissingId` is `ids.get(i)` past the end |
| `Abort` | an exception that is not an `SQLException`, or a server that stops |
| `OpenPage`, `MapCustomer` | `Getcusts`, `Map.mapCustomer` |
| `NewFamily`, `BookkeeperAdds` | users of RenWeb and QuickBooks |

`MaxFaults` bounds the calls that fail and the threads that are lost. `customers` is a sequence,
its index is the QuickBooks id; the field `madeFor` is history (the family whose insert made it), and
so are the field `by` of a row, `seen` and `failed`. A second row that equals a first is not kept
apart. `Getcusts` reads RenWeb's view `family` where the synchronisation reads `FamilyConfig`:
they are taken to hold the same families.

External assumption: QuickBooks refuses a customer whose name another customer at the top level
bears. A job (sub-customer) may bear any name: `JobNames`.

### InvoiceCompare and InvoiceSync

After the deletions `invoicesync` compares charges and lines in two nested loops. The flag
`compareresult` is set once before them, so what is put on the add list depends on the order in
which two queries without ORDER BY return their rows. `Loop` is these loops, literally, for given
orders. `Outcomes` gives the set of results over all orders without enumerating them:

- a charge that has no line is added, whenever there is a line to compare it with;
- a charge that has its line is added as well unless it is the first charge read and its
  line the first line read;
- the line that is updated is any of the charge's lines, and the loops throw if they meet custom
  fields they cannot read.

`OutcomesExact` of `Loops` says that the two agree; `InvoiceSync` uses `Outcomes`.

A line carries the charge id in its custom fields: `field` is a charge, `Null` (none, or not XML), `Zero`
(`"0"`) or `Unreadable` (XML from which no number can be cut: `substring` or `parseInt` throws).

| action | code |
|---|---|
| `RetrieveCharge` | `retrieveCharge` |
| `RetrieveNoLine` | `retrieveInvoice` finds no line: the branch `allinvoice.isEmpty()` |
| `RetrieveInvoice` | `retrieveInvoice` and the deletion loop: the delete list |
| `DeleteInvoice` | one statement of `deleteinvoice`: the whole invoice of a line |
| `Reread` | the second `retrieveInvoice` and the comparison |
| `UpdateInvoice`, `UpdateDone` | `updateInvoice` |
| `InsertInvoice`, `InsertDone` | `insertInvoice`; an invoice for a family without a row is for the customer `'null'` and refused |
| `AddDiscount`, `Return` | `addDiscounts`: one more line on the invoice of every line of that customer and date |
| `EditCharge`, `RemoveCharge`, `LinkFamily`, `BookkeeperInvoices` | the other users |

A failing read leaves any subset of the rows (`Readable`). Amounts below zero are discounts. `quiet` and
`clean` are history: requests that ran alone, with no edit and no failed call, and how many of them
have just completed in a row (two are as good as more).
A customer is named by the family it is linked to: `CustomerSync` shows the link is one-to-one. RenWeb does not use a
deleted charge's id again (`retired`). `invoicelog` is not modelled: nothing reads it. Lines always
have an invoice id in QuickBooks, so the credit-memo branch of `AddDiscounts` (line 50) is not reached.

### PaymentSync

`paymentsync` has the shape of `invoicesync`, and its comparison loops are the same, so the module takes
`InvoiceCompare` with payments for charges. What differs is where the id goes: `insertPayment` writes it to
`ReferenceNumber` (the model's `for`) and `retrievePayment` reads `CustomFields` (the model's `field`). The
driver's table definition, `CData JDBC Driver for QuickBooks 2016/db/ReceivePayments.rsd`, has them as two columns (lines 7
and 22) and no column `Amt`, which `updatePayment` sets (line 34): the update is always refused.

| action | code |
|---|---|
| `RetrieveRwPayment` | `retrieverwPayment` |
| `RetrieveNone` | `retrievePayment` finds none: the branch `allpayment.isEmpty()` |
| `RetrievePayment`, `DeletePayment` | `retrievePayment`, the deletion loop and one statement of `deletepayment` |
| `Reread` | the second `retrievePayment` and the comparison |
| `PlanPayment` | one payment put on the add list: `checkmappingrw`, `getAppliedtoRefID` and, in the first phase, `getAppliedtoAmount` |
| `UpdatePayment` | `updatePayment`, refused |
| `InsertPayment`, `Return` | one statement of `insertPayment`: a payment without an invoice takes one, any other one per invoice; an invoice without an amount throws |
| `EditPayment`, `RemovePayment`, `InvoiceMade`, `InvoiceDeleted`, `BookkeeperReceives` | the other users, and `InvoiceSync` in another thread |

An invoice and a charge it bears are a pair in `invoices`; an id is not used again. A receipt keeps its `for` where the code
forgets it: nothing in the actions reads it. The lookups for one payment are one step, because they only read; lookups
for different payments are apart, and so are the inserts. Which amount goes with which invoice is abstracted to
the number of amounts, and a reference number longer than the column's 21 characters may be cut or refused.

### PaymentCharges and StepCompare

`getAppliedtoRefID` puts the charges of a payment into an array of ten, the first row at the index `count` and the
last at 1, and reads the array upwards; `getAppliedtoAmount` lists the amounts as they come. `AppliedToRefIDs` is the first, literally,
for given orders of the two tables; `InvoicesOf` is its set of results over all orders (the invoices of a charge stay together, the
charges come in any order), which `PaymentSync` uses; `Applied` pairs by position as `insertPayment` does.

`Deleted` is the first loop of `compareandupdate`, whose flag `found` is never reset; `Deletions` is what it comes to
over all orders: everything that was removed on the page if nothing was kept, otherwise any part of it. The inserts and updates that
follow are one statement per step of the page and left out.

### Lessons

A request is a thread in one of the handlers; `pc` is the statement it is at and `job` what was submitted with its local
variables. The tables are functions of a lesson: `attend` gives the set of marks in the rows of a student (a set, because an
overlap can make two rows and only their marks matter), `progress` the sequence of ratings.

| action | code |
|---|---|
| `BeginNew`, `InsertLesson`, `InsertStudent`, `InsertContent` | `Createlesson.newlesson` |
| `BeginUpdate`, `CompareStudents`, `InsertStudent`, `DeleteStudent`, `ReplaceContent`, `InsertContent`, `CleanProgress` | `Updatelesson.updatelesson` and `cleanProgress` |
| `OpenRecords` | `loadRecords`, `getRecords`: the page lists who is enrolled when it is opened |
| `BeginSave`, `MarkStudent`, `LookUp`, `InsertRow`, `UpdateRows` | `saveRecords`, its two loops |
| `BeginDelete`, `CheckAttendance`, `CheckProgress`, `DeleteContent`, `DeleteAttend`, `DeleteProgress`, `DeleteLessonRow`, `DeletePresenters` | `LessonsListControlador.deleteLesson` |
| `BeginArchive`, then the same deletions without progress and presenters | `LessonArchiveControlador.deleteLesson` |
| `BeginShare`, `DeletePresenters`, `InsertPresenter` | both `compartirLesson` |
| `Fail` | an exception, or the end of the server, between two statements |

`raced`, `late`, `alone` and `base` are history: the lessons two saves of which overlapped, the marks and ratings that were
saved after a deletion had looked for them, the request that nothing has disturbed since it began, and its lesson as it found it. Two
inserts of one student's row by overlapping updates are one row here. The ratings a save submits are names of the table
`rating`, so the branch for an unknown name is not taken.

### ConnectionPool

`Handlers` is a table: for each of eleven handlers the databases it connects to, the connections its helpers take while it holds them, whether
it closes in a `finally` block, and what it does afterwards (`loadRecords` goes on to RenWeb for the instructors). The actions are the same for all.

| action | code |
|---|---|
| `Look`, `Make` | `getInstance`: the field is read, and assigned if it was empty, with anything in between |
| `TakeFirst`, `TakeSecond`, `TakeNested` | `getConnection`: waits for an idle connection |
| `Proceed`, `CloseNested` | the handler calls a helper, the helper closes |
| `CloseFirst`, `CloseSecond`, `Finish` | the handler closes, in either order |
| `FailInside` | an exception in a helper, which catches it: its connection is lost unless it is `tidy`, and what it would have taken later is skipped |
| `FailOutside` | an exception in the handler: its connections go back from a `finally` block, and are lost otherwise |

A pool has all its connections from the start: that c3p0 opens them one by one up to 100 makes no difference to who waits. A connection
found broken, and c3p0's retirement of idle ones, are left out. No checkout time limit is configured, so a waiting thread waits.

### LessonForm

`ajax` is the script's variable of that name: the newest request. The requests before it are still out (`older`, by kind); their
callbacks run, but read the newest one. A callback also runs at ready states 2 and 3, so an older request may call back several
times. `shown` is what the combos list and `chosen` what they stand on.

| action | code |
|---|---|
| `ChooseLevel`, `ChooseSubject`, `ChooseObjective`, `ChooseStudents`, `ChooseIdea`, `ChooseNoIdea` | `comboSelectionLevel`, `...Subject`, `...Objective`, `...LevelStudent`, `...IdeaLessons` |
| `ChooseYear` | `terms` of `infouser.jsp`, which also runs while the page loads (`Init`) |
| `Answer`, `Callback` | the newest request is answered and its callback runs |
| `Late` | an older request calls back |
| `Fail` | an answer whose status is not 200 |

`Listed` is the server's list of subjects: the loop of `getSubjects` starts at 1, so one subject may be missing. The picture of
`loadingmessage` covers the middle of the window only, so the combos can be used while it is up. `sortSelect` exchanges texts and values of the
entries in place, so which subject is selected after an idea was copied depends on the sorting: `ShowIdea` leaves it open.

## The runs

Passing runs, with the number of distinct states:

| run | question | instance | states |
|---|---|---|---|
| `customers` | do overlapping, failing sessions ever link a family to a customer not made for it, or report success with a family left out? | 2 sessions (symmetric), 3 families of which 2 are namesakes, a customer of the bookkeeper's with such a name, 1 fault | 1.4 million |
| `customers_live` | do sessions that collide leave a family behind for good? | 2 sessions, 1 administrator with an old page, 2 families, no fault | 0.4 million |
| `loops` | what do the loops over unordered rows come to, in every order? | 3 charges, 2 amounts, up to 3 lines; an array of 4 for the one of ten; 3 steps and a new one | 23 000 |
| `invoices` | does the synchronisation bill the right family, and delete what it should keep? | 1 session, 3 charges of 2 families on one date, amounts -1 and 2, 2 requests, 1 edit, 1 fault, an invoice of the bookkeeper's | 0.4 million |
| `invoices_overlap` | does it settle after requests that overlapped? | 2 sessions (symmetric), 2 charges of 2 families, 4 requests, 1 edit | 0.9 million |
| `payments` | what do failures, overlaps and edits leave in QuickBooks, and on whose invoices? | 2 sessions (symmetric), 2 payments of which one pays 2 charges, 2 requests, 1 edit, 1 fault, at most 2 invoices | 1.8 million |
| `lessons` | what can two handlers on one presentation do to its marks and ratings? | 2 requests (symmetric) of any kind, 1 presentation, 2 students, 2 ratings, 1 fault, from every content of the tables | 1.4 million |
| `pools` | can requests run out of connections, or wait for each other? | 2 requests, 3 connections per pool, 4 shapes of handler, 2 runs, 1 fault | 0.5 million |
| `form` | what do the combos show when answers come late, out of order, or fail? | 2 levels, 3 ids, 1 idea, 6 requests, 1 fault | 0.7 million |

Why the bounds suffice: a collision takes two sessions; a namesake takes two families of one name, and a
third family shows what a stopped loop does to those behind it; a sequence of mistakes needs
a fault and the requests after it. In `invoices` two charges of one family and one of another give a discount a neighbour and a
stranger on its date, and the second request meets what the first has left. In `invoices_overlap` two requests are the claim
(`TwoRunsSettle`), and two overlapping ones before them with an edit are what it recovers from; that failed calls may precede them too is
left to the theorem, with any number of requests.
In `payments` the second request is the undisturbed one after whatever the first left, or overlaps it; a payment on two
invoices is needed for a loop that stops between them. In `loops` three rows give a first, a middle and a last.
In `lessons` two requests are a pair that overlaps, or one after what another left; the first may have failed in the middle. Every content of the
tables that requests in a row can leave is an initial state, so older histories need no requests of their own. Two students tell the one
a loop has passed from the one it has not.
The four handlers of `pools` take Local before RenWeb, RenWeb before Local, a second one of the same pool, and both kinds of each
through `getRecords`; with a lost connection, two requests and three slots a pool runs dry in every combination, and `Stuck` is reachable where
`Roomy` does not hold. Six requests of `form` are a level, a subject and an objective with a changed mind about each, or any older ones that come in late.
`CHECK_DEADLOCK FALSE` stands where the bounds on requests and edits stop the model: the invoice, payment, lesson, pool and form runs and
`loops`, whose inputs are complete at some point. The customer runs never stop: a
request may always come.

Fairness (`FairSpec`): a session that can take a step takes one in the end, because the servlet container
gives its thread time and JDBC calls return. No user is fair: `EveryFamilyLinked` assumes in
its own premise that synchronisation is asked for again and again. No fault is fair, and in the liveness run there
is none: a customer whose row was lost keeps its family unlinked for good (see below). In `ConnectionPool` the fairness is weak and on each
request's own work: a thread that can run does. It says nothing of who is served first when a connection comes free, and `EveryRequestEnds` does not need it.

What the properties say:

- `LinksCreatedCustomer`: a row written by the synchronisation links a family to the customer
  made for that very family. It rests on the loop of `insertCustomer` stopping at the first refusal: then the ids are
  a prefix that is aligned with the families. `SyncInv` is its inductive strengthening.
- `ReturnMeansLinked`: a session that returns without having met a failed call has left none of
  its families unlinked. A refused name does not pass: it ends in `MissingId`, and the request fails.
- `ImplementsFamilyLinks`: `FamilyLinks` with the rows written by the synchronisation as `links`.
- `EveryFamilyLinked`: overlapping sessions strand no family.
- `OutcomesExact`, `MissingIsAdded`: see above; the sticky flag adds too much and never too little.
- `KeepsLiveInvoices`: with one session, and while no call has failed, a line goes only with an invoice that bears a line whose charge is
  gone: the delete statement takes the invoice whole, so a live charge goes with the discount that was withdrawn beside it.
- `TwoRunsSettle`: after two undisturbed requests every charge is billed with its amount and every
  line bears a charge. One is not enough: when the deletions empty the table the comparison has nothing to
  differ from and adds nothing. A refused statement disturbs a request as a failed one does: the insert for a family without a
  customer, or the deletion of an invoice that has already gone with another of its lines, ends its loop and leaves the rest of the list undone.
- `BilledToFamily`: a line that bears a charge is on the account of the charge's family, with its date, on an invoice
  that nobody else has a line on.
- `AppliedToOwnInvoices`: a payment is on its own family's account and on no invoice that lacks a charge it pays, though the
  invoices are looked up long before the insert.
- `InvoicesExact`: the array of charges loses no invoice of a payment and adds none. `SharesMirrored`: with a line for each charge, the first
  charge of a payment is paid the amount of the last; only the sum is right.
- `DeletionsExact`: a step that is on the page is never deleted; a removed one is, or is not, as the rows come.
- `OneRecordPerStudent`: only saves that overlap make two records of a student in a presentation; no later save, update or deletion does.
- `MarksLostKnowingly`, `RatingsLostKnowingly`: a mark or a rating disappears only by a step of a request that decided so: a save that
  blanks it, an update without the student, the archive's deletion; or a deletion that had looked before it was saved.
- `UndisturbedIsAtomic`: a request that nothing disturbed turns the presentation it found, whatever state earlier overlaps and failures had left it in, into
  what one atomic change would (`Result`).
- `OnePlace`: a connection is idle, lost by an exception, or in one variable of one request. `LeakBound`: an exception costs a pool at most one.
- `NeverStuck`, `EveryRequestEnds`: requests under way wait for each other only when they and the lost connections are as many as
  a pool has; while they are fewer every request ends.
- `NewestShown`: the list asked for last is shown once its answer is there, whatever older callbacks do afterwards.
- `PatientFormFits`: a user who waits before using another combo, but may change the mind about the same one, gets lists that belong together.
- `AllOrNothing`: an undisturbed request ends with all of RenWeb's payments in QuickBooks or with none, and with no
  others. This is the best that can be said: see the third finding.

What is known not to hold, and is therefore not claimed: a family whose customer was made and whose row was
lost is never linked (its name is taken and every later request stops at it, with all families behind it); an
old mapping page can give a family a second row; a failed or overlapping read can delete live invoices
and bill charges twice; a withdrawn discount takes the live lines of its invoice with it, which are billed anew in the same request or the next; a line of an invoice that
has gone already stops the deletions, so that stray lines stay until a later request (`DeleteInvoice.java:40`); the bookkeeper's own invoices are deleted; a removed step of an objective stays when a kept one is read before it (`Step.java:98`);
a mark saved while a presentation is being deleted goes with it, though the page promises otherwise (`LessonsListControlador.java:451`); overlapping saves
leave two records of a student for good; a presentation that is not deleted loses its presenters (`LessonsListControlador.java:482`); an impatient user of the lesson
form gets objectives of another subject; a course that happens to be read first is missing from the subjects (`CreateLessonControlador.java:592`); requests that are as
many as the connections left may all wait for good.

## Findings

- `customers_jobs` violates `LinksCreatedCustomer`: the comment at `CustomerSync.java:70` says the ids are those "created by QB"; the code takes every id
  that the name selects, a job's included.
- `invoices_duplicates` violates `OneLinePerCharge`: the comments at `InvoiceSync.java:124` and `:141` speak of
  updating where a match is found; the flag that is never reset adds the charge again.
- `payments_stay` violates `PaymentsStay`: the ids that `PaymentSync.java:69` stores are not where `PaymentSync.java:82` looks
  for them, so the comments' "check for updates or deletion" and "match is found" never come true and every other request
  empties QuickBooks of the payments the one before has entered.

## The proofs

TLAPS proves, for every value of the constants:

| theorem | statement | assumption |
|---|---|---|
| `CustomerSyncProofs!TypeCorrect` | `Spec => []TypeOK` | `FamiliesAssumption` |
| `CustomerSyncProofs!SyncLinksCreatedCustomer` | `Spec => []LinksCreatedCustomer` | the same, `JobNames = {}` |
| `CustomerSyncProofs!SyncImplementsFamilyLinks` | `Spec => ImplementsFamilyLinks` | the same, `JobNames = {}` |
| `CustomerSyncProofs!SyncLinksOneToOne` | `Spec => []Links!OneToOne` | the same, `JobNames = {}` |
| `CustomerSyncProofs!SyncInvariant` | `Spec => []SyncInv` | the same, `JobNames = {}` |
| `CustomerSyncProofs!ReturnLinksAll` | `Spec => []ReturnMeansLinked` | `FamiliesAssumption` |
| `InvoiceSyncProofs!InvoicesTypeCorrect` | `Spec => []TypeOK` | `ChargesAssumption` |
| `InvoiceSyncProofs!InvoicesBilledToFamily` | `Spec => []BilledToFamily` | the same |
| `InvoiceSyncProofs!OneRequestKeepsLiveInvoices` | `Spec => KeepsLiveInvoices` | the same, one session |
| `InvoiceSyncProofs!TwoQuietRequestsSettle` | `Spec => []TwoRunsSettle` | the same |
| `PaymentSyncProofs!PaymentsTypeCorrect` | `Spec => []TypeOK` | `PaymentsAssumption` |
| `PaymentSyncProofs!PaymentsAppliedToOwnInvoices` | `Spec => []AppliedToOwnInvoices` | the same |
| `PaymentSyncProofs!QuietRequestsAllOrNothing` | `Spec => []AllOrNothing` | the same |
| `LoopsProofs!OutcomesAreExact` | `Spec => []OutcomesExact` | `FieldsAssumption`, `ArrayAssumption` |
| `LoopsProofs!MissingChargesAreAdded` | `Spec => []MissingIsAdded` | the same |
| `LoopsProofs!InvoicesAreExact` | `Spec => []InvoicesExact` | the same |
| `LoopsProofs!SharesAreMirrored` | `Spec => []SharesMirrored` | the same |
| `LoopsProofs!DeletionsAreExact` | `Spec => []DeletionsExact` | the same |
| `ConnectionPoolProofs!PoolTypeCorrect` | `Spec => []TypeOK` | `PoolAssumption` |
| `ConnectionPoolProofs!ConnectionsInOnePlace` | `Spec => []OnePlace` | the same |
| `ConnectionPoolProofs!LeaksAreBounded` | `Spec => []LeakBound` | the same |
| `ConnectionPoolProofs!RoomPreventsDeadlock` | `Spec => []NeverStuck` | the same |
| `LessonsProofs!LessonsTypeCorrect` | `Spec => []TypeOK` | `LessonsAssumption` |
| `LessonsProofs!RecordsAreSingle` | `Spec => []OneRecordPerStudent` | the same |
| `LessonsProofs!MarksGoKnowingly` | `Spec => MarksLostKnowingly` | the same |
| `LessonsProofs!RatingsGoKnowingly` | `Spec => RatingsLostKnowingly` | the same |
| `LessonsAtomicProofs!UndisturbedRequestsAreAtomic` | `Spec => []UndisturbedIsAtomic` | the same |
| `LessonFormProofs!FormTypeCorrect` | `Spec => []TypeOK` | `FormAssumption` |
| `LessonFormProofs!NewestListShown` | `Spec => []NewestShown` | the same |
| `LessonFormProofs!PatientFormFit` | `Spec => []PatientFormFits` | the same |

`LinksCreatedCustomer` is not inductive: nothing in it says why the id at position k belongs to
the family at position k. `SyncInv` does. Names tell customers apart (`NamesIdentify`), so that the select after an insert
finds exactly the customer just made; the ids a session holds are those of the first families of its
list, in order (`IdsAligned`); and while the loop runs it has one id per family it has passed
(`LoopAligned`). There is one lemma per action that disturbs a conjunct. `JobNames = {}` is needed: `customers_jobs` refutes
the theorem without it. The refinement follows from the same invariant: an `InsertName` is `Create`,
an `InsertMapping` is `Link` or, if the row is there, a stutter, and `InsertStops` and `Return` may be either or a stutter. That `FamilyLinks` keeps links
one-to-one (`LinksAreOneToOne`, with `LinksInv` as its invariant) then carries over to the synchronisation.

`ReturnMeansLinked` says nothing of a session on its way. `Accounted` does: as long as no call of it has failed, each family it has read is linked,
or still to be looked up, or on the list of new customers, at an index the loop of `updatemapping` has not passed. A refused name cannot hide one, because
the loop then runs past the end of the ids and the request fails. Jobs do not matter here: what counts is that there is a row.

`InvoiceSyncProofs`. The type invariant needs `Ids` (QuickBooks gives out an id once, and what is there has an id it gave out).
`BilledToFamily` speaks of invoices that bear a charge, and is not inductive: an invoice gets its second line from `addDiscounts`. `LinesAddressed` says of
every invoice that its lines are on one account, and `EntriesAddressed` that an entry on a list is for its charge's family or for the customer `'null'`.
`KeepsLiveInvoices` has to reach from a delete list back to the read it was made from, and from that to RenWeb now: `ChargesKnown` (no charge id comes from
anywhere but RenWeb), `LinesRead` (while no call has failed, a session has read every charge a line bears, but for those deleted since), and `StaleGone`
(a line on the delete list bears no charge that is or will be in RenWeb again). With a second session `LinesRead` is false: the other one bills charges this one
has not read; that is why the theorem assumes that any two sessions are the same one. `TwoRunsSettle` is proved by following a quiet request. `QuietAlone`: it
is the only one, and what it read is what RenWeb has. `Settling` says for each place what is done and what is left: up to the comparison no stray line
escapes the delete list; after it either QuickBooks is empty and so are the lists, which can happen in the first of the two requests only, or `InHand` holds:
no stray line, and a charge of zero or more that has no line of its amount is on the update or the add list. When the lists are empty, that is the claim.

`PaymentSyncProofs`. The type invariant is more than types here: an insert takes the invoice at an index of its entry, so that entries keep an invoice to name
until they leave the list (`EntriesPending`) has to be known, and the number of invoices found has to be finite. `AppliedToOwnInvoices` rests on
`EntriesOwn`: the invoices that an entry names bear charges of its payment *as long as they are there*, since a number is not given to a second
invoice (`BilledOnce`); so the claim survives that invoices go between the lookup and the insert, and are refused. For `AllOrNothing`, `Deposits` follows a quiet request:
it begins at a `Whole` state or deletes whatever bears no id, which is all of it unless somebody has typed one in; then the comparison has nothing to differ from, or
there was nothing to delete and every payment is on the list of those to plan or on the add list (`InHand`), with a customer and with invoices that are all there (`Sure`), so that
none is refused.

`ConnectionPoolProofs`. The type invariant needs `Locals`: what a request holds follows from where it is (a helper's connection
only inside it, nothing before the first), and the helper calls it has left are calls of its handler. With it `OnePlace` is inductive; `LettingGo` and `Taking`
are the two ways a connection moves. `LeakBound` follows by counting: a
handler holds at most one connection of a pool when it fails outside a helper, and a helper that fails loses only its own. For `NeverStuck`
suppose all requests under way wait. Each connection of the pool that one of them waits for is lost or held, and a request that waits holds at most
one of it (`WaitersHoldOne`); so the requests and the lost ones are at least as many as the pool has, against `Roomy`.

`LessonsProofs`. `OneRecordPerStudent` needs `Races`: where two saves of a lesson are under way at once the lesson is in `raced`, so elsewhere a save that has found no
record of a student is the only one that can insert it. The action properties need `AllLooked`: a deletion that has passed a check and goes on has
seen every mark, so what is there now and was not seen is in `late`. `Locals` says which fields of a job a stage may rely on.

`LessonsAtomicProofs`. `UndisturbedIsAtomic` speaks of the end of a handler. `Undisturbed` speaks of every place of it: the request in `alone` is the only one
under way (`Quiet`), and its lesson shows what `AttendIs`, `ProgressIs` and `ContentIs` compute from the lesson as it was found (`base`), from what was submitted and
from what the loop has left (`job.todo`) - the loop invariants of all five kinds of handlers. `Ways` says why a request is where it is: a deletion that goes on has found nothing
recorded, the student whose rows are inserted had none, a loop has left what it should. `Fresh` (an id not handed out yet has no rows) and `Known` (requests
work on ids that were) are needed for a new presentation only. There is one lemma for each group of statements, and `ArriveQuiet` for the requests' beginnings. `Views` lets `base` be anything
that the columns can hold, so the claim does not depend on how the tables came to be as they were.

`LessonFormProofs`. The inductive invariant adds to the properties that answers belong to what was asked (`Answered`), that the lists of a patient
user belong to the choices up to the request that is out (`Orderly`), and what the callbacks leave of the types (`Typed`). `CallbackTyped`, `CallbackShows` and `CallbackOrderly`
are about any callback reading any answer, so that `Answer` and `Late` share them.

`LoopsProofs` is about recursions over the rows of a result set (`InvoiceCompare!Loop` and `Scan`, `PaymentCharges!AppliedToRefIDs`, `StepCompare!Deleted`), for result
sets of every size. The invariant is `Inputs`: the sets are finite. All the rest is induction over data, and it takes a detour: the library states its induction theorems
for an operator, which none of the provers can instantiate, but also states for sets that `<` is well founded on `Nat` and that a well-founded relation has minimal elements. From these come `Least`,
`Induction` over the set of the numbers for which a statement holds, and `Recursion` (a loop of n rounds has a run). Every loop then gets a lemma that says what its variables are
after k rounds: `DeletedLoop`, `ScanLoop` (in which line a charge's inner loop ends, and what it passes before), `LoopOf` (add and update list, or where it throws), `FoundLoop` and `CollectLoop` (the
array upwards, and each charge's lines as they come). That an order-free definition is exact has two halves. Whatever the orders, the result is one it names: from the loop lemma. Each
result it names comes about in some order: the order is built by `Sorted`, which arranges a finite set by any key, such as "the line the update list has for a charge before its other lines"
(`OutcomesOf`) or "the charges by where they begin in the result, backwards" (`Gathered`). A result that lists rows is then determined by its order alone (`OneOrder`: a set has one listing in an
asymmetric order). `SharesOf` counts: as many lines as charges and a line for each, so one line for each.

So every invariant and every action property that a passing run checks is proved. Only model-checked is liveness (`EveryFamilyLinked`, `EveryRequestEnds`): fairness is
out of the prover's reach. The theorems about `InvoiceSync` and `PaymentSync` are about `Outcomes` and `InvoicesOf`; `OutcomesAreExact` and `InvoicesAreExact` tie them to the loops in
the code, for tables of finitely many rows.

One caution about the prover. Among the axioms `tlapm` 1.4.5 gives the SMT solver one is too strong: for every x and every natural n, `DOMAIN x = 1..n` if *and only if* `Len(x) = n`. Taken for all x it
gives a function on `0..n`, whose `Len` it takes for a natural number as well, the domain of a sequence. From an obligation with `Len` and such a function it could derive anything. All eight proof modules were
therefore also checked with the converse half of that axiom taken out, and every obligation holds; none of the proofs leans on it.

What the assumptions say: `PaymentsAssumption` takes the charges of a payment to be finitely many; `FieldsAssumption` and `ArrayAssumption` that a charge's id does not read like an odd
custom field or like an empty element of the array ("null"), that amounts are numbers and the array has a length; `FamiliesAssumption`, `ChargesAssumption`, `PoolAssumption`,
`LessonsAssumption` and `FormAssumption` say that constants are of their kinds and that the values that stand for "none" are not among the others.

## What is not modelled

Reports, data classes, page helpers and vendored code have no behaviour to check. Contents of
memos, dates beyond equality, currencies and the layout of pages are left out. A payment of ten charges, which
overruns the array of `getAppliedtoRefID`, is an outcome of `PlanPayment` that the run's sets do not reach. `invoicelog` and `paymentlog` are written and never
read.

The JavaScript files under `src/web` are third-party libraries (jQuery and its user interface, DataTables, FullCalendar, moment, jsTree,
Bootstrap and others, in several versions each), or samples that no page loads (`LessonsJS.js`, `combo.js`, `app.js`). The program is the
Java under `src/src/java` and the scripts inside the pages under `src/web/WEB-INF/jsp`, and the models are of these.

`Runsync` runs the three synchronisations in a row. Their stores are disjoint but for the mapping table and the invoice lines, and each
module lets these change at any time; the composition as one module would multiply state spaces of a million each and show nothing of its own but that an exception ends
the sequence. Ideas, the archive flag, comments and steps of progress records, the FTP folders and the activity log are left out of `Lessons`; no property
of it speaks of them.

## The plan

In this order, the most important behaviour first:

1. `FamilyLinks`, `CustomerSync` and their proofs: done.
2. `InvoiceCompare`, `InvoiceSync` and its proofs: done.
3. `PaymentSync`, `PaymentCharges` and its proofs: done.
4. `ConnectionPool`, `Lessons`, `LessonForm` and their proofs: done.
5. `StepCompare`, `Loops` and its proofs: done. The handlers of `CreateSettingControlador` that add and delete objectives and contents come next, with the lessons that refer to them:
   `delObjective` looks for lessons and deletes in later statements.
6. `Observations` (row and file), then `Session`.
