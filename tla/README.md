# ReceiptManager: specification and proofs

ReceiptManager turns card-charge alert mails into *charges*, announces each one in a
Discord channel, captures the receipt photos people answer with, and files them. This
directory holds TLA+ modules for the parts of it that run concurrently or must survive a
crash, the TLC configurations that check them, and TLAPS proofs about them.

    tlc -config MCJobQueue.cfg MCJobQueue.tla        # check one run
    tlapm JobQueue_proofs.tla                        # check one module's proofs

| module | models | instance | proofs |
|---|---|---|---|
| `Outbox`, `JobTable`, `JobQueue` | what the queue promises; the jobs table; worker, shutdown, crash, restart, which implement it | `MCJobQueue` | `JobQueue_proofs` (with the refinement) |
| `Capture` | from a receipt photo to the deletion of its message | `MCCapture` | `Capture_proofs` |
| `Ledger`, `Intake` | what mail intake promises; the poller that implements it | `MCIntake` | `Intake_proofs` (the refinement) |
| `Charge` | a charge's announcement and its takedown, silencing, resending, deletion | `MCCharge` | `Charge_proofs`, `Announce_proofs` |
| `Schedule` | the daily tick, digest and lapse sweep | `MCSchedule` | `Schedule_proofs` |
| `QuickBooks` | OAuth round trip, rotating tokens, sync of accounts | `MCQuickBooks` | `QuickBooks_proofs` |
| `Parsing` | rule order, amounts, currencies, card endings | `MCParsing` | `Parsing_proofs` (the rule order) |

## The system

One Python process (`app/main.py`, kept alive by systemd with `Restart=always`) runs an
asyncio loop with a web UI (FastAPI), a Discord client, a mail poller, a scheduler and a
job worker. They share one SQLite file and a directory of receipts. Every access to the
database is a short session (`db.session_scope`) in a worker thread; between two sessions
of the same handler anything else may run, and that is where the difficulty lies.

| component | state | operations | what makes it hard |
|---|---|---|---|
| job queue (`services/jobs.py`) | `jobs` rows; the coroutines of the current batch | enqueue, claim, finish, retry with backoff, discard, revive, reset at start | a row may vanish, and its rowid be reused, while its handler runs; crash between claim and finish; shutdown cancels handlers |
| capture bot (`discordbot/bot.py`) | one coroutine per message, pickers held in memory, `attachments`, `discord_messages` | download, store, persist, match, link, ask | several attachments in one message, each may fail; a picker answered up to 15 minutes later |
| job handlers (`discordbot/tasks.py`) | messages in the channel, `notify_message_id`, `source_deleted` | notify, finalize, delete, digest, alert, sweep | side effects in Discord before they are recorded; retried after a crash |
| storage (`services/storage.py`) | files of the data volume | store durably, verify, delete | a file can be lost after it was stored; the message is the only other copy |
| matching and short codes (`services/matching.py`, `shortcode.py`) | none | reply, code, sole open charge, picker; next code is max+1 | codes and rowids are reused after a deletion |
| web UI (`web/routes_ui.py`) | charges, receipts | attach, assign, detach, delete, silence, resend, edit | acts on pages that are out of date, while jobs run |
| ingest (`services/ingest.py`, `graph.py`) | raw mails, the delta link, charges | poll, deduplicate, apply merchant rules, sweep | a mail must become one charge: not none, not two |
| scheduler (`services/scheduler.py`) | the date of the last run | enqueue digest, then sweep, daily | stamp and jobs are two sessions; order rests on delays |
| QuickBooks (`services/qbo.py`, `qbo_sync.py`) | tokens | refresh, sync, disconnect | a refresh token is rotated by a call that may be lost |
| accounts (`security.py`, `routes_auth.py`, `routes_account.py`) | users, sessions, lockout counters | log in and out, TOTP | counters and expiry |
| parsing, images, export, settings, templates | none or key-value | pure functions, forms, reports | amounts and rule order; otherwise plain code |

What makes each component correct:

* job queue: work that was enqueued is never forgotten, never runs twice at once, is not
  retried for ever, and is settled in the end;
* capture: bytes are on disk and verified before a source message is deleted; a captured
  receipt stays with the charge it was given; a charge's status agrees with its receipts;
* announcements: each charge is announced, by a message that names it, and an ask that was
  withdrawn does not stay in the channel;
* ingest: no mail is counted twice, and none is lost but by the two failures that the poller steps over;
* scheduler: each day is swept, and nothing lapses that no digest warned of, whatever the settings become;
* QuickBooks: the rotated refresh token is not lost while the connection looks alive, tokens are of the
  connected company, categories are the chart of the company named beside them, nobody waits for ever;
* parsing: an amount is read as what was written, and the first rule that can read it is taken.

`PROJECT.json` lists the components (modelled or not), and the hazards with the line where
each bites and the properties that cover it.

## Plan

Done, in this order: JobTable and JobQueue; Capture; Charge; Intake with its abstract Ledger;
Schedule; QuickBooks; Parsing; the abstract Outbox that JobQueue implements. Every safety property
of the runs that the provers can reach has a theorem. Left, in the order of what it would add:

1. **Storage** - the steps inside `store_receipt_bytes` with a crash between any two, shown to
   implement Capture's one-step `Store`.
2. **Liveness** of Charge and Schedule: an announcement owed is posted, a stamped day is swept, under
   JobQueue's fairness.
3. **Algorithms** - short-code allocation with its retry loop, report ranges, the envelope patterns.

## Outbox, JobTable and JobQueue

`JobTable` is the `jobs` table: a function from rowids to rows, and one operator per session of
`services/jobs.py`. Rows carry the idempotency key (which stands for kind and payload), the
status and the attempts. SQLite gives a new row the rowid after the largest in use
(`IsNextRowid`), so the rowid of a deleted last row is given out again.

`JobQueue` adds the process: `phase` says how far it and its worker are, and `batch` is
`work_forever`'s argument, which no step changes. Its steps and the code:

| action | code |
|---|---|
| `Enqueue`, `Discard`, `ReviveDead` | a session of any component calling `enqueue`, `discard_for_transaction`, `revive_dead` |
| `Elapse` | the clock passes a row's `next_run_at` (backoff, `delay_seconds`) |
| `Claim` | the commit of `_claim` in its thread: the first `batch` due rows, by `next_run_at` and then id; only when the whole previous batch is over (`gather`) |
| `Spawn` | the await of the claim returns, and `gather` starts the coroutines; until then they are "claimed" |
| `HandlerReturns`, `HandlerRaises` | the handler inside `_run_one`, or no handler for the kind |
| `Finish`, `FinishLost` | `_finish` by rowid; or it raises and `gather` swallows it |
| `Stop`, `Exit`, `Crash`, `Start` | lifespan's shutdown with cancellation, the end of the process, a kill, the tasks of the next process |
| `ResetOrphans`, `ResetFails` | `reset_orphaned_jobs`, the worker's first session, while the other tasks run already; when it raises, the worker's task is over (`phase = "workless"`) and the process stays up |
| `ClaimUnheard`, `ResetUnheard` | a session of the worker that `Stop` has cancelled the await of: its thread goes on, and may commit until the process is gone |

Times are not modelled: `due` is the set of pending rows whose time has come and `ahead` the
order in which they did. `coroutine[i].row` and the sets `owed`, `inherited` and `stranded` are
history variables, used by the properties only.

Properties: `OutboxKept` (owed work has a row that will run, runs or is dead), `NeverTwiceAtOnce`,
`AttemptBudget`, the refinement `QueueIsOutbox` (below), and

* `RunningIsHeld`: a running row has the coroutine that claimed it, or is `stranded`. Four things strand a
  row: a lost finishing write, a shutdown between the commit of a claim and its coroutines
  (`work_forever` re-raises the cancellation, and the rows that the thread has claimed have nobody), a claim
  that commits during the shutdown, and a kill. A reset that succeeds ends it.
* `EveryJobSettles`: no job starves, though more are due than a batch takes and others are enqueued,
  retried and revived for ever. That rests on the order of claims, as its mutant shows. Excepted are
  stranded rows, and a process whose worker ended because its reset raised (`workless`): there nothing runs
  until somebody restarts the service, for systemd sees a process that lives.

Two statements of the code's own comments do not hold; the second has no run of its own:

* `DoneMeansRan` (run `job_rowid_reuse`): a coroutine whose row was discarded finishes the row
  that inherited its rowid. `OutboxKept` states what remains true: only inherited rows can be
  done without having run.
* `jobs.py:174` says of a job that a shutdown cancels "leave it pending so it runs again next boot". The
  cancellation is reported to `_finish` as an error, so on the last attempt the job becomes dead. `Finish`
  makes that step; a dead job is shown and can be revived, so the properties count it as kept.

**Bounds.** `MCJobQueue.cfg`: three kinds of work (one of each of two charges, of which one is
deferred, and one without a charge), two rowids, two attempts, two disruptions, and a batch of one or of
two. A batch of one leaves a due row behind, so that the limit and the order of claims decide who runs; a
batch of two has partners that end at different times. With a row discarded under its coroutine, its rowid
given to other work, a retry, an exhausted budget, and a stop, crash, failed reset or lost write during the
recovery from another, the interesting cases are there. The real `max_attempts` is 8 and the batch 5;
nothing compares them with anything but the counters, and the proofs hold for all values. Safety and
liveness are checked in this one run, `job_queue`.

**Fairness** (`LiveSpec`): the worker claims when it can and hears of it, handlers return or raise, a
finished coroutine reaches its commit, the clock advances, a started process comes to its reset, which
succeeds or fails, a stopping process exits, and systemd starts it again (`Restart=always`, `StartLimitIntervalSec=0` in `receiptmanager.service`). Nothing is assumed
of the sessions: they may enqueue, discard and revive for ever or never. That handlers return is an
assumption on discord.py and httpx: a handler that hangs stops the whole queue (see the hazards).

`Outbox` is the queue as the components that enqueue see it: sets of keys (pending, running, done,
dead) and of runs (executing, succeeded, failed), without rowids, attempts, backoff or order. Capture,
Charge and Schedule keep their jobs in this form:

| they assume | in `Outbox` |
|---|---|
| an outstanding key is refused, a finished one is given away | `Enqueue` |
| a batch begins when every run of the last one is over; at a shutdown it may be claimed and not begin | `Claim` |
| a run that ends well closes its job; after any other end the job is pending or dead | `Close`, `Retry` |
| a discarded job's run goes on, and closes nothing or a pending job | `Discard`, `Drift` |
| after a restart what was running is pending | `Crash`, `Restart` |

What rowid reuse does is explicit there: a run whose job was discarded is in `adrift`, a job inserted
at its rowid is `exposed` to it, and only such a job can be closed by it. `JobQueue` maps its table and
its coroutines to these sets (`WorkWith`, `RunsAt`, `Adrift`, `Exposed`). The order of claims is not
in `Outbox`; Schedule has it from `Claimable`.

**Proofs** (`JobQueue_proofs`), for all values of the constants that satisfy
`JobTableAssumption` and `JobQueueAssumption`. Its first lemmas say what each session
does to one row of the table. `IInv` is inductive: the checked invariants are not
inductive by themselves and need

* `KeyUnique`: at most one row holds a key (for `OutboxKept` across `enqueue`, which deletes the
  finished row it replaces);
* `OwnRow` and `StaleRow`: a coroutine that still owns its row finds it running with its own work;
  a row that sits at the rowid of a coroutine whose row is gone was inherited or is absent;
* `AtRest`: a process that is down, started or workless has no coroutine, and a session that nobody
  hears of exists only while the process stops, without coroutines;
* `StrandedRuns`, `Spent`: a stranded row is running; attempts of unfinished rows are within the budget.

One lemma per action shows that `IInv` is preserved; `TypeCorrect`, `Outbox`, `Held`, `Exclusion`
and `Budget` follow from `Safety`. `ImplementsOutbox` proves `Spec => QueueIsOutbox` with one lemma per
action. It needs `BatchTogether`, that the coroutines of a batch begin together (none is merely claimed
while another executes, so that a shutdown between the two is an `Outbox` step); `RunsWork`, that a
coroutine has work, and that a row at the rowid of a run adrift has no attempt counted, so that a run adrift
that fails leaves it pending; and `KeyUnique` and `OwnRow` again, for
the sets of keys to follow the rows. `Enqueue` is the
telling case: it deletes a finished row and takes a rowid that a coroutine may still hold, which is
where a key becomes exposed. `EveryJobSettles` is model-checked only: liveness under fairness is out of
the prover's reach.

## Capture

A receipt's way from the channel to the data volume, and the message's way out of the channel.

| state | code |
|---|---|
| `channel` | the source messages in Discord |
| `capture` | the coroutine of `_capture_message`, then the `ReceiptPicker` it left |
| `disk` | the stored file of each attachment; "bad" is missing or changed |
| `rows`, `recorded`, `charge` | `attachments`, the messages in `discord_messages`, `transactions.status` |
| `job`, `run` | the finalize jobs by key, and the coroutines of `finalize` |
| `gated`, `adrift` | history: attachments that a gate found durable and linked; charges whose status was set by hand or whose receipt the charge page took away |

`Send` starts a capture; each attachment is stored (`Store`) or fails (`StoreFails`) and is
persisted by a session of its own (`Persist`), which raises for the second attachment of a message
because `discord_messages.message_id` is unique (`PersistRaises`). `Resolve` is `matching.resolve`:
the charge addressed by reply or code, else the only open one, else a picker. `Link` is
`_link_attachments`, at once or from the picker; it finds the charge by code, skips rows that are
linked already, and enqueues the finalize job in the same session. The job verifies the files
(`Load`), posts the confirmation (`Confirm`), deletes (`DeleteReceipt`, `DeleteRefused`) and marks
(`Mark`); it may raise anywhere in between and is then retried or dead. The web UI's forms
(`AssignOrphan`, `AttachOrphan`, `Detach`, `DeleteAttachment`, `DeleteTransaction`, `SetStatus`,
`Silence`), the ingest of charges, the lapse sweep, lost files and restarts interleave with all of it.

Abstractions: statuses that the code treats alike are one (`Status`); a transaction id and its
short code are one number, since both are allocated as max+1; a reply and a code both are an
address; jobs are kept by key, so the rowid mix-up of `DoneMeansRan` is left to JobQueue; which
recent charges a picker offers when none is open is arbitrary; the charge's own message is not in
`channel`, only whether finalize deleted it.

Properties: `DeletedMeansVerified` (the rule at the top of `bot.py`), `LinkIsKept`,
`AttachedHasReceipt` and `ReceiptClosesCharge` in run `capture`. The last three except charges in
`adrift`: the charge page's attach form has no check that the receipt is unassigned, so it can leave
a charge `receipt_attached` with no receipt. Two statements of the documentation do not hold:

* `FailedCaptureDeletesNothing` (run `capture_partial`): one attachment fails, the other is stored
  and linked, and finalize deletes the message that still held the first.
* `SourceDeletedMeansGone` (run `capture_marked`): the receipt's message stays (a setting, or no
  permission) while the charge's own message is deleted, and the attachment is marked deleted.

**Bounds.** A message with two attachments and one with a copy of the first, two charges, two
attachment rowids, one edit by hand and one mishap (restart or damaged file). Two messages are needed
for a rowid to change hands under a picker or a job, two charges for a picker to have a choice and
for a receipt to move; one edit, at any moment, is what the late-answer races need. A system at rest
with its bounds used up has no step left, so deadlock is not checked there.

**Proofs** (`Capture_proofs`), for all values of the constants that satisfy `CaptureAssumption`.
`IInv` has three parts, each kept by every action, and the checked properties follow from it:

* `Typed`: `TypeOK`, and `NextOK`, that a capture is at one of its message's attachments;
* `Safe`: `DeletedMeansVerified` is not inductive, because a deletion comes several steps after
  the gate; `TodoVerified` says that whatever a coroutine still has to delete passed the gate;
* `Agree`: `AttachedHasReceipt` and `ReceiptClosesCharge` need `RefOK`: a free rowid refers to no
  charge (so a new row takes nothing from anybody), and receipts refer to charges that exist (so a
  new charge, whose id may have been used before, starts without receipts).

`LinksAreKept` is about steps: only an orphan is linked by a capture or the orphan queue, and the
charge page's form marks the charge it takes from. The two violated statements above are TLC's.

## Ledger and Intake

`Ledger` says what mail intake promises: a mail is on record at most once, and it is acknowledged
(not asked for again) only when it is on record or was given up. `Intake` is the poller.

| state | code |
|---|---|
| `mailbox` | Graph: each item is still to come, in its folder, or gone; `MidOf` is its `internet_message_id` |
| `folder`, `link` | settings `graph.folder_id` and the stored delta link: its folder, and the items it has passed |
| `raw`, `charges` | `raw_emails`, and how many transactions derive from each mail |
| `poll` | the locals of `poll_once`: configuration read, pages listed, messages fetched, batch |
| `excused`, `overtaken` | history: mails given up; the stored link is of a poll that older settings began |

| action | code |
|---|---|
| `ReadConfig` | `_read_poll_config`, the first session of a poll |
| `Page`, `LastPage`, `Expired`, `ListFails` | `GraphClient.delta`, page by page, with the 410 that starts a full sync |
| `Fetch`, `FetchFails` | `get_message`, which answers None on an error |
| `Ingest`, `IngestFails` | `ingest_message` for one mail in its own session; an exception is logged and the mail skipped |
| `Save`, `PollLost` | `_save_poll_result`; an exception elsewhere, or the end of the process |
| `SaveSettings`, `SimulateEmail`, `DeleteTransaction` | the web UI's forms |

Properties of run `intake`: `OneChargePerMail` (deduplication and charges agree, however often a page
is delivered again and charges are deleted), `CursorCoversSettled` (what the link has passed is on
record, or was given up by one of the errors that a poll steps over: nothing else loses a mail),
`LinkFollowsSettings`, `LedgerKept`, and the liveness property `EveryMailSettles`. `LedgerKept` is the refinement: `acknowledged <- Mids(link.seen)`, so that saving
a link acknowledges, emptying it takes the acknowledgement back, and pages, fetches and failures are
stutters or excuses.

`poll_once` is called by `poll_forever` only, one poll at a time; the branch for an IntegrityError in
`ingest_message` is therefore not reached by two polls, and is not modelled. What is given up is in
`excused`: the envelope filter's refusals, errors of `get_message`, and exceptions in a mail's session,
after which the code does advance the link.

Two statements of the code do not hold:

* `NothingIsDropped` (run `intake_dropped`), after `ingest.py:5`, "Never drop a charge.", and the
  repository's README.md:127, "Nothing is ever dropped." Those lines speak of mails that no rule can read,
  and such mails do become charges. But a mail whose `get_message` fails, or whose session raises, is
  logged and passed by the stored link while it lies in the folder, and is not listed again until the link
  expires or is emptied. `CursorCoversSettled` says that these two errors are the only ones that do so.
* `LinkIsOfFolder` (run `intake_stale_link`), after `routes_settings.py:97`, "Changing the mailbox or
  folder invalidates the delta cursor." A poll that is under way stores its own link after the settings
  emptied it, and later polls follow the link's folder. `LinkFollowsSettings` states what remains true,
  with that exception (`overtaken`).

**Bounds.** Three items: a mail, a refused mail, and a copy of the first in another folder (a moved
mail is a new item of the same mail); one more mail that is simulated; two folders, one mishap, three
edits: a folder changed and changed back during a poll, with a deletion or a simulation besides.

**Fairness.** `poll_forever` catches everything and goes on, so `ReadConfig`, `LastPage` and `Save` are
weakly fair, and each fetch or ingest is weakly fair to end, with success or failure. No fairness is
assumed of pages (Graph may answer with the last page at once), of the settings or of deliveries.

**Proofs** (`Intake_proofs`). `CursorCoversSettled` is not inductive: it needs `PollCovers`, that what
the poll's cursor has passed is settled or still in the poll's hands, and `LinkFollowsSettings` needs
`PollFollows`, that a poll whose settings have not changed is of the configured folder. `ImplementsLedger`
proves `Spec => Abstract!Spec` from them, one case per action.

## Charge

The announcement of a charge: `notify` and its three sessions; `finalize` and `delete_message`, which
take it down; and the sessions that change a charge meanwhile, with rowids that are reused.

| state | code |
|---|---|
| `charge` | `transactions`: status, `notify_message_id`, `notified_at`; `id` is history: which charge has the rowid |
| `message` | the announcements in the channel and their `discord_messages` rows |
| `ask`, `sending` | jobs of kind `discord.notify` by key, and their coroutines |
| `takedown` | jobs of kind `discord.delete_message` |
| `final`, `finalizing` | jobs of kind `discord.finalize` by key, and their coroutines |

`Load`, `Send` and `Record` are `_load_notification`, `channel.send` and `_record_notification`; each may
raise, and a message may have been posted all the same (`SendRaises`). `LoadFinal` and `Clear` are what
`finalize` does about the announcement: it reads the charge's `notify_message_id` in one session and deletes
that message after an await, or does not (the setting, Discord's refusal); `FinalRaises` is a failure before
or after. `Claim` takes a batch of both kinds when the last one is over (`Busy`). `Finish` and `FinishFinal`
are the worker's, and `FinishWithoutRow` and `FinishFinalWithoutRow` the same call when the row was discarded
meanwhile: it closes nothing, or a pending job that was given the rowid (`ClosesAnother`). `Ingest`, `Link`
(which enqueues finalize), `AttachByHand`, `Detach`, `SetStatus`, `SweepLapsed`, `Reparse`, `Silence`,
`Resend` and `DeleteTransaction` are the sessions around it; `Restart` may come at any moment.

Properties (run `charge`):

* `AskIsOwed`: a charge that asks for a receipt has a message, or a job that will post one, or a dead
  one on the health page; except when a run without a row closed its job (`robbed`, which is
  `DoneMeansRan` seen from here).
* `AskIsInChannel`: the message that a charge which asks has on record is in the channel, and shows this
  charge. `finalize` deletes by a message id that it read by rowid some steps before, so nothing in the
  handler itself says that the id is still that of a settled charge: the charge may have been deleted, its
  rowid reused and the new charge announced. What keeps that apart is the worker's batch: no `notify` begins
  while a `finalize` is under way. The property fails when batches overlap.
* `ReplyFindsItsCharge`: the record of a message leads to the charge that the message shows, though the
  charge was deleted and its rowid given out again.
* `AnnouncedOnce` and `AskIsWithdrawn`: one message per charge, taken down when the charge is silenced
  or deleted.

The exceptions are history variables, so that the properties say exactly what the code does not keep:
`late` messages were posted or recorded by a run whose row was discarded, `stray` ones were posted by a
run that ended before it recorded them, `refused` ones may not be deleted, `resent` charges were
announced again by hand, and `reopened` charges were settled and set to ask again. The last is a gap that
a user meets: `detach` sets a charge whose last receipt it takes to `notified`, which `models.py:107`
explains as "posted, awaiting a receipt", but finalize has deleted the announcement, and its id is still on
record, so that no later `notify` posts another; the same holds for a status set by hand.
`AskIsOwed` and `AskIsInChannel` show that no other charge waits without being asked for.

Abstractions: jobs are kept by key, since JobQueue proves that a key has one row and one coroutine
(`Exclusion`); a `_finish` whose write is lost is JobQueue's; two resends of a charge are at least a second
apart (the key holds the second); receipts are not counted, so any of them may be the last; `delete_message`
is one step, because a second run finds the message gone; of `finalize` only the announcement is here, the
files, the confirmation and the receipt's message are in Capture.

**Bounds.** One rowid, used by two charges in turn, three messages, one resend, one finalize job at a time,
two mishaps (failures, restarts, a detached receipt or a status set by hand). The hazards are about one rowid
and who has it now; the proofs cover any number of rowids, charges, messages and jobs.

**Proofs.** `Charge_proofs` shows that `IInv` is inductive. `JobsHaveCharge` (a job's charge is there),
`RunIsAbout` (a run that kept its row is about the charge that is there), `RecordsHaveCharge` and
`RunIsCovered` (a run that ends well leaves a message or a later round) are what the checked invariants
need. `Announce_proofs` goes on with the three properties about messages. `AnnouncedOnce` rests on
`NoSecond`: once a message is posted by a run that may record it, the first round of its charge has no
job, or the charge has its message and no run is about to post. `AskIsWithdrawn` follows from
`StandingIsRecorded` and `StandingIsCurrent`: a message that nobody is about to record or delete is
recorded, and is the one that silencing its charge would delete. That a run without a row does not
replace it is `RowlessIsOver`: a charge's runs lose their rows together (`RowsGoTogether`), only by
silencing or deleting, which take down what is standing, so a run without a row meets no standing message.

`AskIsInChannel` needs `CInv`, seven parts that hold each other up. `CurrentIsRecorded`: the message a
charge has on record was posted, has a row that refers to this charge, and no delete job; `SentIsFresh`: a
message on its way to being recorded is known to its run only, and `UnpostedIsUnknown` to nobody before it
is posted. `JobIsOfSettled`: a finalize job is of a charge that is there and settled (or `reopened`), since
deleting the charge takes the job with it. That leaves runs that outlive their jobs: `RunFindsSettled` says
that such a run, if it has yet to read, finds a settled charge, or one that no run with a row has announced,
and `RunDeletesSettled` that the message it has read is on record for no asking charge. Both rest on `Busy`.
`CurrentIsUp` is then the property itself, without the identity, which `ReplyFindsItsCharge` gives.

## Schedule

One tick reads and stamps the local day in one session and enqueues the day's jobs in another, under keys
that hold the UTC day; the worker runs `digest` and `lapse_sweep` in the order in which they are due, and
files each in `_finish`, a session after the handler's own. Only that session frees the key.

| action | code |
|---|---|
| `DueTasks`, `Enqueue`, `TickFails` | `_due_tasks`, `_enqueue`, and `run_forever`'s except |
| `Elapse`, `Claim` | JobQueue, for these jobs, in the order of `next_run_at` |
| `BuildDigest`, `SendDigest`, `Sweep` | `_build_digest` and `digest`; the session of `sweep_lapsed`: each reads the settings again, and leaves the row "over" |
| `Finish`, `FinishFails`, `Fails` | `_finish`; its failure, which leaves the row "stranded" until the next start; a raise in the handler |
| `ReviveDead`, `SaveSettings`, `Announce` | health page, settings form, `_record_notification` |
| `Advance`, `Crash`, `Start`, `StartFails` | time in slots; the end of the process, its start, and a start whose reset raises, so that the worker is over (`working`) and the rest goes on |

`setting` holds what the one form of the settings page saves and this component reads: the time zone,
`DIGEST_ENABLED`, `DIGEST_HOUR` (as the slots that are at or after it, `Open`) and `LAPSE_HOURS`. Any of
them may change between any two sessions.

`DayIsSwept`: once a day is stamped, a sweep has run since, or the one under the key that the tick used
(`keyed`) will run or is dead. It excepts (`lost`) a tick that ended between the stamp and the jobs, and a tick
whose key was still held by a sweep that had committed and was not finished: with a change of the time
zone two local days share a UTC day, and if the second is stamped in the moment before `_finish`, its sweep
is refused, and none runs after the stamp. `scheduler.py:9-10` says that a restart can neither skip a
day nor run it twice; the first part of `lost` is the interval in which it can skip one.

`LapseIsWarned`: a charge lapses only after a digest showed it as lapsing soon; except when

* a digest was begun and is yet to be posted (`behind`: the 20 seconds order first attempts only), or was
  refused because its key was held by a row that is over or stranded. `behind` is a set of keys and not a
  flag, because two digests can be under way after several crashes, and the first one's post says nothing
  about the second, whose key a later day's digest may have been refused for. A post does make up for
  digests that were given up;
* the digest was switched off (`hushed`);
* `LAPSE_HOURS` was reduced after the last posted digest was built (`lowered`): the digest showed what
  would lapse by the old value, the sweep goes by the new one;
* the sweep is left over from too long ago.

Not modelled: the heartbeat alert (a text once a day), and the sync of accounts that the tick also
enqueues, which meets neither job.

**Bounds.** Days of two slots; four slots, which is two days and the ends of a third; a zone behind UTC,
whose evening is of the next UTC day, and one ahead of it; one charge; two mishaps, and one revival or change
of the settings, at any moment: the zone, the digest off, the hour at the start of the day, or an age of six
slots instead of two, and each of them back. Each exception has been seen to be needed in this run (without
it TLC finds the trace), but for the refused digest, which the proof of `CoverEnqueue` needs and these bounds
do not reach. Time ends at `MaxTime`, so deadlock is not checked.

**Proofs** (`Schedule_proofs`), for every set of settings that satisfies `ScheduleAssumption`, with any
change from one to another. `TypeOK`, which includes that the queue holds each due row once, and
`DayIsSwept`, with `TickSweeps` (a tick that has stamped has a sweep to enqueue) and `OnlyDigestsBuilt` (a
sweep has no step between its start and its end). `LapsesAreWarned` proves the action property
`LapseIsWarned`. `MayLapse(c)` is what a sweep enqueued at `c` may lapse, by `LAPSE_HOURS` as it is now, while
it is not too old; announcements and sweeps only shrink it, and so does a higher value, since what is too old
is at most a day (`Least`, `LapseBounds`). Every sweep that lives is covered (`SweepsCovered`): the digest was
switched off, `LAPSE_HOURS` was reduced, a digest is behind, a due digest stands before the sweep in the queue
(`DigestAhead`), or all of `MayLapse` was warned of. The cover passes from one to the next as the digest
is enqueued before its sweep, claimed no later than it (`CoverClaim`; from then on it is behind), and
posted (`CoverSend`), for which `BuiltShows` says that the text built shows all that sweeps of its slot may
lapse by the value that it was built with (`age`). A post ends `lowered` only if the value then is no less
than that. `DigestsBegun` says that a digest that was begun and is not over is behind, so that none is
forgotten; `HushedIsKnown` that a tick leaves the digest out only when it is switched off; `SinceOK` that no
job is of the future.

## QuickBooks

| state | code |
|---|---|
| `token`, `good` | Intuit: the pairs issued, with their grant and company, and the refresh tokens it accepts |
| `store`, `cache` | the settings `qbo.*`, and `qbo_accounts` |
| `callback`, `revoking`, `states` | the request to `/qbo/callback` under way, what `disconnect` has yet to revoke, `connect`s |
| `sync` | the coroutines of `sync_accounts` inside `QboClient` |
| `gone`, `crossed` | history: grants revoked or whose last token nobody stored; a refresh stored over another grant |

Every await is a step boundary: reading the refresh token, Intuit's answer, storing the successor, the
two requests, and the merge. An access token may be rejected at any time (`Unauthorised`), which gives one
refresh and one retry. The callback's request session may have flushed its reset of the OAuth state, and
then holds SQLite's write lock while `exchange_code` opens a session of its own: `ExchangeBusy` is the
busy timeout that ends it, `SyncBusy` that of a sync that meanwhile wants to write.

Properties (run `qbo`): `RotationIsKept`, `TokensOfCompany`, `PickerIsOfCompany` and `NobodyIsStuck` (of
`callback` and of each sync, a step is enabled). The exceptions are named: a lost answer, a failed write
or the end of the process loses a grant (`gone`), and a refresh that was under way during a disconnect or
a reconnect stores what it got (`crossed`). Since an exception that is no QboError rolls the request's
session back, the OAuth state it had reset is expected again, although `routes_qbo.py:78` calls it single
use; `CallbackRaises` has that.

Not modelled: refresh tokens that end by age (100 days), wrong client credentials, a company without a
name, the mapping of accounts to charges.

**Bounds.** Two companies with a common account, three token pairs, two authorisations, two syncs, one
mishap: two connections and a refresh, or one connection and two refreshes, in every interleaving. The
two syncs are interchangeable and all properties are invariants, so the run uses symmetry. The bounds may
be used up, so deadlock is not checked; `NobodyIsStuck` is what says that no handler waits for ever.

**Proofs** (`QuickBooks_proofs`). `RotationIsKept` needs `Fresh`, that a token received and not stored yet
is known to its receiver only (so nobody else uses it up), with `FreshAlive` that such a token is still
accepted or its grant `gone`; `TokensOfCompany` needs `Grants`, that the tokens of a grant are of one
company, and `Refs`, that what is referred to was issued. `NobodyIsStuck` speaks of ENABLED, of which the
provers know nothing, and is model-checked only: restated with guards it would hold by the case split on
`at`, and say nothing of the steps.

## Parsing

`Parsing` is the part of `parsing.py` that decides: the order of the rules, `parse_amount` character by
character (currency detection, signs and brackets, the lone-separator heuristics, rounding), and the card
ending. What a regular expression matches is an input: a rule matches the envelope or not, and captures
some texts or nothing.

`AmountIsRead` compares with a reference: the instance composes each text from a value, a convention for
separators, a sign or bracket, and a notation for the currency, of those listed below, and knows what it
means. `CardIsKept` and
`FirstReadableWins` (of the enabled rules that match the envelope, the first by priority and id that reads
an amount) are stated without the code's loop.

**Inputs.** Five whole parts, three fractions, five separator conventions, seven ways to write a sign, ten
currency notations, three defaults; five card texts; all triples of rules in six conditions (a date
that cannot be converted to UTC, which fails the rule, is one) and two priorities. The texts are those that people write, one currency notation at a time. Two notations
are outside the property, because the code does not read them as meant: a code written against the number
("CAD300") and a bracketed refund with the code outside ("($300.00) CAD"); they are listed as a hazard.

Not modelled: HTML to text, the envelope's regular expressions, what a date is read as (only that its
conversion may raise, `baddate`), merchant and cardholder texts.

**Proofs** (`Parsing_proofs`). `FirstReads` proves `FirstReadableWins` for every finite set of rules and
whatever each of them reads, from `ParsingAssumption` (rules are rows of one table: finitely many, with
distinct ids). The loop takes the least index of a sorted sequence, so the proof needs that a finite set
of rows can be sorted (`CanSort`, `OrderedSorts`) and that a set of indices has a least one (`LeastNat`).
Both are inductions over finite sets; the library's induction theorems take an operator and cannot be
used, but that strict inclusion of finite sets is well-founded takes none, and gives a least
counterexample (`SmallestSet`). `AmountIsRead` and `CardIsKept` compare with what the instance says a text
means, which is data of the instance and nothing to prove from; they are model-checked only.

## Assumptions and limits

* A session is one atomic step. SQLite serialises writers, but a session reads before it takes
  the write lock, so two overlapping sessions could both act on the same old row; the models do
  not have that (hazard at `db.py:126`). Where a session is held open across an await, in the
  QuickBooks callback, its write lock is modelled.
* Discord, Graph, Intuit and the file system are external: a call succeeds, fails, or succeeds without
  being recorded because the process ended.
* Capture, Charge and Schedule keep jobs by key and assume of the queue what `Outbox` has, which JobQueue
  provably implements. That their own job actions allow all that `Outbox` does is by reading (the table
  in the section on Outbox): each of them keeps its own kinds of job only, and Charge lets a run without a
  row close any pending job, which is more than `Outbox` allows.
* Deadlock is not checked where a system at rest with its bounds used up has no step left.
* Proved are the theorems listed in `PROJECT.json`, from the named assumptions on the constants
  (`JobTableAssumption`, `JobQueueAssumption`, `CaptureAssumption`, `IntakeAssumption`,
  `ChargeAssumption`, `ScheduleAssumption`, `QuickBooksAssumption`, `ParsingAssumption`), which TLC
  evaluates in the runs. Only model-checked, because the provers cannot reach them: the liveness
  properties `EveryJobSettles` and `EveryMailSettles` (fairness), `NobodyIsStuck` (ENABLED),
  `AmountIsRead` and `CardIsKept` (meanings that only the instance has); and the violated statements.

**Not modelled.** Accounts, sessions and login (`security.py`, `routes_auth.py`, `routes_account.py`):
single-row checks of counters and expiries within one session each. Image normalisation: bytes in, bytes
out; that it may fail is Capture's `StoreFails`. Export, formatting, templates: read-only. Migrations and
deployment scripts: run by an administrator before anything else, or not part of the running program. The
Discord supervisor and the slash commands other than /skip and /silence: they change nothing that the
properties speak of.
