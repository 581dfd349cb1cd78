# Formal model of the ERP/CRM/document system

TLA+ models, TLC runs and TLAPS proofs for the three Odoo addons of this repository (`src/addons`) and
the parts of the Odoo platform (`src/odoo`) their correctness rests on. `PROJECT.json` lists every
component, run, mutant, mapped definition, finding, hazard and theorem; this file explains them.

## 1. The system

Users work in a web client; every button and every save is one RPC call, served by one of several
worker threads. A call is one PostgreSQL transaction in REPEATABLE READ (snapshot) isolation; a call
that meets a lock or a serialization conflict is rolled back and made again, up to five times.

| Component | Source | State it keeps | Operations |
|---|---|---|---|
| Numbering | `odoo/addons/base/models/ir_sequence.py` | row of `ir_sequence` (implementation, `number_next`), one PostgreSQL sequence per `standard` row | `next_by_code`, `write`, `create` |
| RPC transactions | `odoo/service/model.py`, `odoo/sql_db.py` | open transaction, its snapshot and locks, retries | `execute`, `commit`, `rollback`, retry loop |
| Document register | `addons/quan_ly_van_ban/models/van_ban.py` | rows of `quan_ly_van_ban`: flow, state, number, customer | `create`, `write`, `unlink`, five `action_*` methods |
| Document forms | `addons/quan_ly_van_ban/views` | the form each browser shows, with the state it was loaded with | menus, buttons, save, delete |
| Lead conversion | `addons/khach_hang/models/khach_hang_tn.py` | leads: contact and stage | `create`, `write`, `action_confirm_contract` |
| Customers, contracts | `addons/khach_hang/models/khach_hang.py`, `hop_dong.py` | customers with a stage; contracts | `create`, `write`, `unlink` with its cascade, `action_set_contract`, `action_set_done`, `action_set_fail`, contract mail, two constraints |
| Quotations | `addons/khach_hang/models/bao_gia.py` | quotation, lines, stored totals, state | `create`, computed totals, `action_gui_mail_bao_gia` |
| Support, history, legal documents | `ho_tro.py`, `lich_su_tuong_tac.py`, `tai_lieu_phap_ly.py` | tickets; passive tables | assigning a ticket tells the employee |
| Employees, departments | `addons/nhan_su` | employees, departments with a stored number of employees | `create`, `write`, `unlink`, the computed number, a controller that reads |
| Module loading, foreign keys | `odoo/modules/{loading,graph,registry}.py`, `odoo/fields.py` | states of the modules, registry of models, foreign keys of the tables | install, update, load in dependency order, create keys, delete under them |
| Scheduler | `odoo/addons/base/models/ir_cron.py` | jobs, their next call, triggers | poll, acquire, run, plan again; users' writes and triggers |
| Dashboard | `odoo_hr_dashboard` | filter, figures shown, chat history | filters, suggestions, messages; requests, answers, errors |
| ORM, HTTP layer, web client | `odoo/models.py`, `odoo/fields.py`, `odoo/http.py` | caches, sessions | the platform |

How they interact: `create` of documents, leads, customers, contracts and quotations calls
`next_by_code` inside its own transaction; forms call the methods of the register on the row *as it is
by then*, not as they show it; a converted lead searches and creates customers; documents, quotations,
contracts and tickets refer to customers and employees; the dashboard reads all tables over RPC.

What is hard: numbers drawn by concurrent transactions that may fail (ordering of read, lock and
update); methods that do not test the state they leave, so that only forms restrict what is called;
forms that are out of date or are the wrong form for a document; search-then-create under snapshot
isolation; retries; references without foreign keys; mail sent before the state is written. The list with
lines is under `hazards` in `PROJECT.json`.

What makes each part correct:

- numbering: numbers of surviving draws are distinct; `no_gap` leaves none out; no lock outlives its
  transaction; the implementation does not change under a transaction that drew from it.
- register and forms: a number belongs to one document for ever; issued documents carry a number,
  are not cancelled and not deleted; completing an internal document announces it once.
- lead conversion: no duplicate of a customer the call can see, and a customer for each converted lead that fits
  its contact.
- contracts and tickets: constraints hold for what is stored and not only for what each call saw; a call that signs
  customers signs all it was asked to or none; whoever has a ticket was told. Quotations: stored totals are those of the lines; what is marked as sent was mailed.
- departments: the stored number of employees is exact.
- references: a reference whose module depends on that of its target has its foreign key and never names a deleted record.
- scheduler: each occurrence of a job counts once, calls add up, triggers and deactivations are not lost, and a due job gets
  run, also when workers fail. Dashboard: figures are those of the month chosen and are no older than the question; replies stand below
  what they answer; loading ends.

## 2. Modules

| Module | What it models |
|---|---|
| `IrSequence`, `MCIrSequence`, `IrSequenceProofs` | one sequence and the concurrent transactions that draw from it |
| `VanBan`, `MCVanBan`, `VanBanProofs` | the document register as the server sees it: any method on any document |
| `VanBanForms`, `MCVanBanForms`, proofs in `VanBanProofs` | the register behind its forms, composed with `VanBan` (EXTENDS) |
| `VanBanRegister` | the abstract register `VanBanForms` implements |
| `LeadConversion`, `MCLeadConversion`, `LeadConversionProofs` | leads that become customers, and what others do meanwhile |
| `HopDongSerial` | calls on customers, contracts and tickets, one after the other: the specification `HopDong` implements |
| `HopDong`, `MCHopDong`, `HopDongProofs` | customers, contracts and tickets under overlapping calls |
| `BaoGia`, `MCBaoGia`, `BaoGiaProofs` | a quotation that is edited while it is mailed |
| `PhongBan`, `MCPhongBan`, `NhanSuProofs` | departments that store how many employees they have |
| `KhoaNgoai`, `MCKhoaNgoai`, `KhoaNgoaiProofs` | installing and updating modules, the foreign keys that result, deletes under them |
| `IrCron`, `MCIrCron`, `IrCronProofs` | the workers of the scheduler |
| `Dashboard`, `MCDashboard`, proofs in `NhanSuProofs` | the page of figures with its middleware |

`MC...` modules hold the instances for TLC, `...Proofs` the theorems.

**IrSequence.** `row` is the committed row, `nextval` the PostgreSQL sequence, `view[r]` the row in the
snapshot of request `r`, `drawn[r]` what it has drawn and not committed, `assigned` the numbers on
committed records. `_update_nogap` is two steps, because it reads `number_next` (`ReadNumberNext`)
before it locks the row (`LockAndUpdate`): the lock is granted if nobody else holds it and the row was
not updated since the snapshot (`LockGranted`, PostgreSQL in REPEATABLE READ). Otherwise the loop of
`service/model.py` retries (`Retry`) or, after `MaxTries`, gives up (`GiveUp`). `Commit` makes the numbers
permanent; `Abort` is every failure that is not retried. `WriteImplementation` is the administrator's
`write`, which waits for the row lock and, when it drops the PostgreSQL sequence, for the transactions that
used it. `switched` remembers what the sequence was made since, because two properties hold only until then.
`UniqueNumbers` counts numbers of open transactions too: it is what their records will carry.

**VanBan.** One action per method. A call is one step: two calls on the same row conflict and the second
one is made again, and numbers (the only other thing they share) are drawn from a `standard` sequence,
of which the model keeps what `IrSequence` shows: a number is new. `Write` is `write`, which every method goes through
with the values it changes (`vals`, a record with some of the fields): `NoiBo` is the test of the override, `Written` the row
afterwards. `Created` is what `create` makes of its values: with a flow it sets state and number itself, without one it stores what it
is given over the defaults. `Values` and `NewValues` are what clients give to the two. `Numbered` are the users in the company that owns the sequence; others
get the text `Moi`. `carried`, `issued` and `notified` are history: numbers ever shown, documents ever
issued, announcements per document.

**VanBanForms.** `form[u]` is the form in the browser of `u` with the state it was loaded with. `Buttons`
is the table of `attrs` in the two form views. The menus of the incoming and outgoing flows name their form;
the other two name none and get the default one, the first by name, which is the incoming one. `Press` calls the
method on the current row and reloads. The constant `Stale`, which both runs set to FALSE, lets users press a button on a
form that is out of date.

**VanBanRegister.** The promise: an open document may be given new numbers, is issued under the one it
has, and from then on stands. `KeepsRegister` says the forms implement it, under the mapping
`Status`/`Number` (state and number of a document) and `given` (all numbers ever shown).

**LeadConversion.** A conversion takes a snapshot (`Begin`), treats its leads one by one (`Known` or
`MakeCustomer`), and commits unless the row of a lead was updated since (`Committable`). Inserts
conflict with nothing. The search sees the snapshot and the customers made in the same call. Meanwhile others edit leads and
create, edit and delete customers. The stages other than `3` are one. The form of leads is not in the manifest of the addon
(`khach_hang_tn.xml` is commented out), so the module models the methods, as RPC calls reach them.

**HopDong.** `db` holds the committed rows of three tables. A call takes a snapshot and works on it (`mine[r]`, with the columns it
updates in `written[r]`); `Merged` is what its commit makes of the rows by then, column by column, and `Committable` refuses it if
a row it updates was updated since or a foreign key would break. Constraints are checked by the call, on its
snapshot, and only those declared on a field it writes (`Validated`), as `_validate_fields` does. Signing goes through the customers one by one
(`SignOne`), so that it may fail after some of them, and can commit only when the loop is over (`LoopOver`); `asked[r]`, history, keeps
which customers it was called on. New customers may be in any stage, as the actions of `khach_hang.xml` create them. `notes[r]` are those the call told of a ticket, `told` those it told and committed.
`DeleteCustomer` takes the contracts along and is refused by tickets.

**HopDongSerial.** What a user expects of a call: each step is a whole call on the records as they are (`AddCustomer`, `MoveTo`, `Sign`,
`RemoveCustomer`, `EditContract`, `Reassign`, ...), with its guards and all it stores and tells. `HopDong` extends it, shares `db`, `told` and the constraints
and adds what happens inside a call; `SerialSpec`, a property of its run, says that commits are steps of the serial calls and nothing else shows. It does not
know which customers a call was asked to sign, and would take a part of them for a call on that part: that all are signed is `SignedWhole`. The
transactions of PostgreSQL here are not serializable in general (write skew, see the leads); that these calls are is a fact about what they read and write.

**PhongBan.** The same view of a transaction, with the number of employees that the ORM computes again. `Touched` are the departments
`modified` marks, before the write and after it; `Counted` is the compute method on them, on the snapshot; a department whose number stays is
updated only if the call had not read it (`Field.write` compares with the cache), so both are possible. An import may write
several employees in one call and exchange them between departments without updating either. Both files of the addon define
the class of departments; `phong_ban.py` is imported last and replaces the one in `nhan_vien.py`.

**BaoGia.** `line` and `quote` are the committed rows, `quote.tong` the stored totals; `view[r]` is what the
snapshot of request `r` holds and so what it mails, `missed[r]` says that a commit has updated the row of the
quotation since. `Begin` takes the snapshot and mails, `Commit` writes the state; a conflict (`Clash`) leads to
`Retry`, which mails again on a new snapshot, or `GiveUp`; `Abort` is every failure that is not retried. A save of
the form is one step, because one that conflicts is made again. `Touched` is what a write triggers
(`@api.depends`, transitively), `Overwritten` the fields as the form sent them, with an amount that need not
fit the stored line, `Recomputed` what the ORM makes of it. Amounts are exact integers in hundredths and ten
thousandths of the currency, where the code computes in floats; rounding is not modelled.

**KhoaNgoai.** `state` are the committed states of the modules, `fk` the foreign keys there are, `life` and `value` the records and
their references; the rest belongs to the server process: `Start` is the command line with its `-u`/`-i`, `ButtonImmediate` the
menu, `LoadOnly` and `UpdateModule` one turn of `load_module_graph`, `Serve` the end of loading, `Fail` an exception and `Stop` the end of the
process at any time. A module's tables are committed before its new state, which goes with the next commit. A reference
whose target is not loaded becomes one to `_unknown` for the life of the process (`unknown`) and gets no key. `Delete` does what
the keys say: restrict, set null, and cascade with all that follows (`Doomed`).

**IrCron.** A worker goes through `Poll`, `Acquire` (or `SkipJob`, `SkipProcessed`), `Run` and `Reschedule`; polling and acquiring are
on the snapshot of `cron_cr` (`snap[w]`, `missed[w]`), the job commits in a transaction of its own. `Stale` and `Acquirable` are the conditions
of `_acquire_one_job`: not locked, not updated since the snapshot, ready. `Fail` drops the work at any step and keeps what the job
committed. `Write` is the form of a job, which needs the lock and fails while the job runs; `CallAt` sets a trigger, for a time that may be past;
`Tick` is the clock. `served`, `called` and `fresh` are history: occurrences counted, calls counted, and the triggers for which no run of their job
has started at or after their time since they were set. Triggers are a set: two of one job for the same time are one.

**Dashboard.** `flight` are the requests for figures under way, each with the closure of the render that made it, `timer` the delayed
calls of a clicked suggestion, `chats` the histories that wait for a reply. A request reads its tables one by one (`ReadTable`), since
the middleware makes a call for each. `Answer`, `AnswerError` and `NoAnswer` are the ways it ends. Figures are abstracted to what they were computed
from: the period and, for each table, how many changes it had seen. `Sent` is the period the figures are for: a month is sent as `date`, a year
alone as `year`, which the middleware does not read.

## 3. Runs

| Run | Instance | Result |
|---|---|---|
| `seq` | 3 requests, 2 numbers each, 1 retry, changes of implementation | unique until made `no_gap` again, without gap until switched, one implementation under each transaction |
| `vb_server` | 2 users (one without sequence), 2 documents, 2 numbers, no customers | numbers for life |
| `vb_forms` | 2 users, 2 documents, 4 numbers, 3 menus | the register keeps its promise |
| `vb_all_menu` | and the menu of all documents | **violated**: an issued document is deleted |
| `lead` | 2 requests, 2 leads, 2 customers, 1 edit by others | no duplicate of what the call sees, each converted lead has its customer |
| `contracts` | 2 requests, 2 customers, 2 contracts, 1 ticket, 3 calls | constraints hold, all a call is asked to sign is signed or nothing, assignees are told, calls are serializable |
| `quote_mail` | 1 request, 2 lines, 2 values of each amount | totals fit, mails fit, the call ends |
| `departments` | 2 requests, 3 employees, 2 departments, 4 calls | numbers of employees are exact |
| `refs` | the 3 addons, 6 tables, 5 references | covered references keep their keys and are whole |
| `refs_restrict` | same | **violated**: a customer a document names is deleted |
| `cron` | 2 workers, 2 jobs, 1 incident, 1 trigger | each occurrence once, calls add up, triggers are kept for a run after their time, due jobs are run |
| `dashboard` | 2 tables, a month and a year, 2 acts, 1 change | figures fit a month chosen and are fresh, replies in place, loading ends |

The passing runs have between 17,000 (`departments`) and 3 million (`lead`) distinct states and take up to two and a half minutes.

Bounds, each a named constant. Two documents suffice for a number to be shown twice, two users for a form that another's call
leaves behind and for an announcement to somebody else; four numbers are all that two documents can use up behind up-to-date
forms. Three requests on a sequence let one hold the lock while one retries and one begins; two numbers per request
show a transaction that draws after its own update. For leads, two in one call, or in two, share a contact or not, and two
customers let one be found, made or deleted. For a quotation, two lines let one be changed while the
other counts; two values of each amount, with no price, no discount and no tax among them, show each term of
a total; one request suffices, since to it another call that commits is a user who chooses `da_gui`. For contracts, three calls are one that sets up and
two that overlap; values 0 and 1 and days 1 and 2 decide both constraints; of two employees one has a user; `Changes` are the sets of
fields the form's saves differ by. For departments, two hires, an exchange and a third hire that overlaps it need four calls and three
employees. The instance of `KhoaNgoai` is the repository's own: its modules and dependencies, and one reference of
each kind (`restrict` to a module loaded later and to one loaded before, `set null`, `cascade` and a cascade of a cascade). Two workers
and two jobs show every race of the scheduler; `MaxIncidents` (failures and users' writes together) is 1, `MaxTime` 2, so that a job with
interval 1 has a call to make up for. `MaxTries` is 5 in the code and 1 or less in the runs: a retry starts from
the same state as the first try, so the number of retries adds no new situation. Sets of ids are symmetric where a cfg says so and
it checks no liveness. `CHECK_DEADLOCK FALSE`: the system stops when every id, number, call or step of the clock of the bounded instance is
used, or the user of the page does nothing more.

Fairness, where a run has a liveness property.

- `quote_mail`: weak fairness of the steps of each request after its mail (`Serve`: commit, retry or give up), and
  nothing of users. One worker thread runs the loop of `service/model.py` until it returns or raises, its waits are bounded
  (`time.sleep` of at most `2 ** tries` seconds), and an UPDATE that waits for a row lock waits for a transaction
  that ends. `EveryCallAnswered` needs the bound on retries: users may save the quotation each time the call is tried.
- `cron`: weak fairness of the steps of each worker and of the clock. `cron_thread` (`service/server.py:442`) is a loop that never ends, wakes at
  the latest after its `SLEEP_INTERVAL`, and logs and goes on after an exception. Failures and users are not fair, and failures are
  bounded: a job that raised each time at the head of the list could keep the rest waiting.
- `dashboard`: weak fairness of the end of a request for figures (`Finish`). A browser ends each fetch with an answer or an error; what the
  answer says, and when, stays open.

Each property of a passing run is broken by a mutant of the code (`mutants`): a plausible bug such as
an isolation level READ COMMITTED, a search without the `'|'`, a number given one step later, departments marked after
the write only.

## 4. Findings and limits

Two findings, each with the line of the source and the sentence it contradicts, in `PROJECT.json`: issued documents
can be cancelled and deleted from the menu of all documents (`vb_all_menu`), and the register's `ondelete='restrict'` protects
nothing, because the register is loaded before the customers it refers to (`refs_restrict`).

Limits of the code that are in the models, or next to them, and are not checked as properties:

- A sequence made `no_gap` after having been `standard` repeats numbers: `number_next` is not kept up to date while PostgreSQL counts
  (`ir_sequence.py:172`, `:183`). `UniqueNumbers` and `NoGap` say until when they hold.
- An outgoing document uses up two numbers, one on creation and one on submission (`van_ban.py:146`).
- From a form that is out of date a cancelled document is signed without a number (`van_ban.py:67`), a document that was signed meanwhile is
  cancelled and can then be deleted (`van_ban.py:136`), and a second press of the button that completes an internal document announces it again
  (`van_ban.py:97`). `Stale` is FALSE in the runs, and the four properties of `vb_forms` about documents and the theorems about them are
  about up-to-date forms only: with `Stale` TRUE in `VanBanForms.cfg` TLC finds them violated.
- Nobody writes a number of the sequence into `so_hieu`: the forms show it read-only, but an RPC `write` or `create` may give it any text, and could
  repeat a number. `NumberForLife` is about the numbers the register gives (`Values`, `NewValues`: clients write only the texts that are not numbers).
- `create` keeps a customer that is given with the flow `noi_bo`, until the next write clears it (`van_ban.py:183`).
- Two conversions that overlap create two customers with the same contact (`khach_hang_tn.py:77`), and a conversion may commit
  although the customer it found was deleted after the search. The properties are about the customers a call sees.
- A customer can be signed twice, from the status bar or by two users one after the other (`khach_hang.py:63`): `SignedWhole` is about
  each call by itself.
- A quotation may be mailed without being marked as sent, or more than once (`Retry`, `GiveUp`, `Abort` of `BaoGia`).
- A job that has committed when its worker dies is run again; of the negative values of `numbercall`, whose help says that they all mean no
  limit (`ir_cron.py:68`), only -1 does: with `doall` the others are used up at the first call (`ir_cron.py:343`).
- A year chosen on the page is answered with the figures of all time: the page sends it as `year` and leaves the rest to the backend
  (`Dashboard.jsx:193`), which reads `date` only (`server.js:57`), so "Năm ..." (`Dashboard.jsx:65`) stands above figures of all time.
  `ShownAsChosen` is about months and about no choice, and says nothing of years.
- On the page, the answer to an earlier filter replaces that to the current one if it comes later, so that `ShownAsChosen` is about
  choices made at rest; a clicked suggestion sends the text typed before the click (`Dashboard.jsx:367`); an answer with status 500 makes the figures
  undefined; the late greeting may wipe the chat, and a reply drops the messages that came after its question; `loading` is
  FALSE while another request is pending. `loading` is a flag of the page that nothing it renders reads so far: `LoadingEnds` is about the flag.

## 5. Theorems

Proved by TLAPS for every value of the constants, under the assumptions of the modules (numbers are
naturals, the step is positive, owners and absent values are outside the sets they complete, texts are
not numbers, there are finitely many employees).

`IrSequenceProofs`
- `TypeCorrect`: the type invariant, inductive as it stands.
- `LockSafety` (`LockHeldByActive`, which no run checks) and `ImplementationStays` (`NoMixedImplementation`). The strengthening `LockInv` adds that a
  request that is not running holds no draws and that a transaction whose row was changed has not drawn from
  the changed implementation.
- `NumbersUnique`. `BoundInv`, which holds until the sequence is made `no_gap` again, adds that every number handed out is below
  the next one its implementation will give, and that the lock holder sees the committed row it updates; a rollback of a
  `no_gap` transaction is the only step that lowers the next number, and it withdraws the draws above it.
- `NumbersWithoutGap`. `GapInv`, which holds until a switch, adds that the numbers of
  the lock holder continue the committed ones one step at a time up to the number it sees next.

`VanBanProofs`
- `TypeCorrect`.
- `NumbersForLife`. `NumberInv` adds that what a row shows was shown before for that row, and that every
  number shown is below the next one.
- `FormsUseTheServer`: `VanBanForms` implements `VanBan`, so the theorems above are true behind forms too. `FormsTypeCorrect` (`FormTypeOK`).
- `IssuedStay` (`IssuedNeverDeleted`), `IssuedHaveNumbers` (`IssuedIsNumbered`), `AnnouncedOnce` (`NotifiedOnce`) and `FormsKeepRegister` (`KeepsRegister`, the
  refinement of `VanBanRegister`), for any number of users, documents and open forms. The constants they need are hypotheses of the theorems, since the code
  leaves them open: `UpToDate` (forms show the present state and the menu of all documents is not used; the run `vb_all_menu` shows why, and section 4 what a stale
  form does), `Numbered = User` for what is about numbers (others get the text `Moi`), and for announcements at least one other user to tell. `FormInv`
  says that a document is in a state of its flow (`FlowInv`), that who looks at it has the form of that flow (`ViewInv`) and that what was issued is there
  and in a state no button leads out of (`IssuedInv`); numbers and announcements follow the states (`NumberedInv`, `NotifiedInv`). Each button then leads
  from a state to the next one of the flow.

`LeadConversionProofs`
- `TypeCorrect`.
- `NoDuplicates` and `LeadsGetCustomers`, action properties of commits. `LoopInv` is the invariant of the loop of `write`: what the call made is
  apart from what it saw and from each other, each lead it is done with has a customer of its contact, and a lead that was not
  updated since has that contact still.

`HopDongProofs`
- `TypeCorrect`, `ContractsStayValid` (`ContractsValid`) and `AssigneesTold` (`AssigneeTold`), from one invariant. Its core is `Unchanged`: for a record no
  commit has changed since the snapshot, what the commit of an open call would leave is what the call sees. What it checked on its
  snapshot (`CallsInv`) is then true of what it commits.
- `CustomersSigned` (`SignedWhole`, an action property). `SignInv` adds what a signing call has written so far (`Signing`: one contract for each customer it has
  moved, and nothing else) and that the ids of its contracts are known to it alone (`FreshInv`, `Mine`): another's commit could otherwise fill the row.
  `AskedInv` adds that every customer the call was asked to sign is still in its loop or has been moved: at a commit the loop is over.
- `CallsSerial`: `HopDong` implements `HopDongSerial` (`SerialSpec`). `KnownInv` says of every open call, by what it has written, which call it is (`Creates`,
  `Edits`, `Deletes`, `Signs`) and what it found there. A row it changes was changed by nobody since, or its commit fails, so the guards it tested still hold;
  those about other rows (the customer a contract or a ticket refers to, the contracts and tickets of a customer it deletes) are what the foreign keys
  test again at the commit. Signing reads revenues only of rows it writes. One lemma per kind of call shows that its commit is the serial step.

`NhanSuProofs`, departments and page
- `TypeCorrect` (`TypeOK` of `PhongBan`).
- `HeadCount` (`HeadCountExact`). `Snapshot` says there is a sound database the call may have seen, equal to the present one where no commit
  has changed it and to the call's own where it has not written. The present employees of a department may be others than those the call counted;
  the lemma `MergedCount` shows that its commit adds to their number what the call added to that of the snapshot, and `SameHeads`
  that both numbers were the same if the row was not updated.
- `PageTypeCorrect` (`PageTypeOK`), `FiguresFit` (`ShownAsChosen`), `RepliesInOrder` (`RepliesFollowQuestions`) and the action property `FiguresInTime` (`FiguresFresh`), for any tables,
  periods and number of acts. `PageInv` adds that what a request has read lies between the time it was made and now (`ReadInv`), that after a choice made at
  rest all requests and suggestions under way are for that choice (`PeriodInv`), and that the histories that wait for a reply end with the
  question and are in order themselves, since a reply makes one of them the chat (`ChatInv`).

`BaoGiaProofs`
- `TypeCorrect`.
- `TotalsCorrect`. `TotalsInv` adds that each stored amount is the one its line computes and that the totals are
  those of the lines as they are. The lemma `WrittenLine` carries it: what a write does not trigger it has not
  changed, whatever the form sent.
- `MailedCorrect`, the action property, for any number of concurrent calls. `MailedInv` adds that a request whose
  row was not updated since its snapshot holds the lines and totals as they are.

`KhoaNgoaiProofs`, for any modules, dependencies, references and records
- `TypeCorrect`.
- `KeysOfInstalled` (`CoveredHasKey`). `LoadInv` adds that the loaded modules are closed under dependency and count as installed, that a process never
  takes an installed module for one that is not, and that the keys are there for what the process counts as installed, too.
- `ReferencesWhole` (`CoveredIsWhole`). `RowInv` adds that only live records have references, that there are records of installed modules only, and
  that a reference with a foreign key names no deleted record.

`IrCronProofs`, for any workers and jobs
- `TypeCorrect`. `TypeInv` adds who holds which lock.
- `RunsDue` (`RunsAreDue`). `DueInv` adds that for a row no commit has changed since, the snapshot shows what is there.
- `ServedOnce` (`OnlyOnce`): `ServedInv` adds that occurrences not before the next call are not counted yet. `CallsExact` (`NumbercallKept`) and
  `UsersDecide` (`DeactivationStands`) rest on `DueInv` too. `TriggersHonoured` (`TriggersKept`): `FreshInv` adds that the triggers a worker saw as past for
  its job are no longer fresh once it has run the job, and `PastInv` that what a snapshot showed as past is past: the run that deletes them is one
  at or after their time.

Model-checked only: `EveryCallAnswered`, `DueIsRun` and `LoadingEnds`: liveness under fairness is out of the prover's reach. All other properties of the
passing runs are theorems. The two violated properties are shown by TLC's counterexamples.

## 6. Plan

Done: every addon, the numbering, transactions, module loading and scheduler they rest on, and the dashboard have a module. Left:

1. Abstract specifications, like `HopDongSerial`, of which `LeadConversion` implements a weaker one: conversions that overlap are not serializable, and the
   specification has to say what is promised instead.
2. The connection pool (`sql_db.py`) at its limit, and sub-sequences per date range (`ir_sequence.py`), which no addon uses.

## 7. Not modelled

Most of `src/odoo` is the platform: the ORM (`models.py`, `fields.py`), HTTP layer, views, access rights, translations, tools and the base addon, most of
the repository's 67,000 lines of implementation. It is modelled where the program's behaviour depends on it (a write and what it has computed
again, constraints, `unlink`, a transaction, loading, the scheduler, sequences) and as what it promises elsewhere; much of it is
conversion, rendering and metadata without state of the program's own. The lines the modules stand for are therefore a small share of the
whole, and nearly all of the addons' methods.

- Text around numbers, dates, files, mail bodies and the HTML of computed fields: no property depends on them.
- Calls on several documents at once: `write` refuses them unless it names the internal flow.
- The mail of a contract, which says that it is approved whatever its state, reads the contract and changes nothing of it. The states
  `trang_thai` and `thanh_toan` of contracts, the stages of customers other than `ky_hop_dong`, priorities and states of tickets: no method tests them.
- Contact history and legal documents: tables without behaviour, whose references are of the kinds `KhoaNgoai` has.
- In `KhoaNgoai`: the modules `mail` and `base`, uninstalling, requirements of columns, the reset of module states by the scheduler.
- In `IrCron`: the time between lock and end of a run from the form (`method_direct_trigger`), which is one step, users' writes of `nextcall` and `numbercall`, notifications (they make a poll come sooner), the checks of version and module
  states before a poll, the clean-up of old triggers.
- In `Dashboard`: the second chart, which asks in the same way, the name of the employee that is sent, effects run twice in development.
  `OdooService.js` is imported by nothing.
- Commented-out code and modules that are not imported (`quan_ly_van_ban/models/bao_gia.py`) do not run.
