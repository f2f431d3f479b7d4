# Mail engine: models, checks and proofs

`mail-engine` runs direct-mail campaigns to contractors. It keeps a spine of
contacts and an append-only log of events in one Postgres database, mails
waves of postcards through a print vendor, lends phone leads to calling
partners, keeps numbers on the Do Not Call list off their lists, and every
night recomputes what each contact's events add up to and tells the founder
what needs a human.

This directory holds TLA+ modules for the parts of it that are hard to test,
TLC configurations that check them on small instances, and TLAPS proofs for
all sizes. All paths below are relative to the repository root.

## 1. Inventory

One fact decides the shape of every module: `db/session.transaction()` is one
transaction per verb at Postgres' default READ COMMITTED. There is no
advisory lock and no lock file. FastAPI runs the web handlers on threads, the
cron jobs and the command line run beside them, and the same job may run twice
at once. A plain `select` sees what was committed when it ran; an `update`
waits for the row and then writes over whatever the row has become; a
`select ... for update` sees the row as it is once locked.

| Component | State | Operations | Talks to |
|---|---|---|---|
| **Lead custody** `service/assignment.py`, `service/custody.py`, `derivation/custody.py` | `contacts.owner_id`, `assignment_batch_id`, `assignment_batches`, `contact.assigned/expired/reclaimed` events | `assign_batch` with its same-key retry, `reclaim`, expiry and won-termination steps, `export_batch` | suppression and the scrub (they take contacts back), the night, the roster |
| **Suppression** `service/contacts.py` | `do_not_call`, `do_not_mail`, tombstones, `suppressed`/`opt_out` events | `suppress`, `clear_suppression` | custody (same transaction), intake (tombstones) |
| **DNC scrub** `jobs/dnc_refresh.py` | `dnc_registry`, `dnc_checked_at` | the due list, one transaction per row, delisting | custody, snapshots |
| **DNC snapshots** `service/dnc_snapshots.py`, `jobs/dnc_pull.py`, `seams/snapshot_inbox.py`, `workers/dnc-upload` | a private bucket, `dnc_snapshots` rows, the landed files | upload, pull, judge, land, re-land | the partner's upload client, the scrub |
| **Waves** `service/waves.py` | `waves`, `variants` | draft, update, preview, approve, cancel, `create/update_variant`, `resolve_audience` | the drop |
| **Drop** `service/execution.py`, `jobs/drop.py` | `pieces`, `piece.submitted` events, `waves.status` | `execute_wave`, `recompute_state` | the print vendor `seams/lob.py` |
| **Ingestion** `service/ingestion.py`, `resolution/matcher.py` | `events`, their `contact_id` | `append_event` (idempotency key), `ingest_event`, `resolve_orphans` | feeds, webhooks, derivation |
| **Stage derivation** `derivation/rules.py` | none (pure) | `derive_stage`, `is_suppressed`, `is_lost` ... | recompute |
| **Partner tokens** `jobs/partners_cli.py`, `seams/token_registry.py` | `partners.api_token_hash`, the edge's map from hash to partner | issue, rotate, revoke, status | upload worker |
| **Upload client** `clients/dnc_uploader.py` | the rep's folder and its `uploaded/` | download (by a robot), check, upload, move | upload worker |
| **Close correlation** `jobs/close_correlation.py` | watermark, `human.signed_up` events | one pass over the close feed | ingestion |
| **Digest and nudges** `judgment/digest.py`, `judgment/rules/`, `service/nudges.py` | `nudge.sent` events, `contacts.next_action_at` | evaluate the rules, hold back, record, send | night |
| **Partner report** `judgment/partner_report.py` | `partners.last_report_at` | compose, send, stamp | custody's events |
| **Contact intake** `service/contacts.py`, `intake/`, `resolution/pick.py`, `jobs/migrate_grain.py` | `contacts`, the two intake tables, `suppression_tombstones`, `contact_merge_map` | `load_list`, the one-time merge, seeds, `update_address`, primary pick | everything |
| **Address verification** `jobs/verify_addresses.py` | `verified_*` columns | one row per transaction | `resolve_audience` |
| **Night** `jobs/nightly.py` | none | feeds, verify, scrub, orphans, closes, recompute, expiry, won, digest, reports, in that order | all of them |

### What is hard, and what would make it right

* **Custody.** Two assignments of the same lead, a suppression or a scrub that
  read the owner before an assignment committed, retries under the same key
  after the batch has been released, a night that dies between its steps.
  Right means: the owner column, the batch pointer and the event log never
  disagree; a lead never goes from partner to partner; a retry reports the
  original batch; every holding ends; a do-not-call number is not handed out.
* **Waves and drops.** Draft verbs that overtake an approval, a cancel that
  overtakes a drop, a drop killed between the vendor's answer and its own
  commit, two drops at once, an audience changed by the wave's own mail. Right
  means: a second card of a wave takes a kill; no record without a card; what
  was approved is what is printed; a wave that is over stays over; a drop ends.
* **Ingestion and derivation.** Feeds overlap and arrive out of order; orphans
  resolve one at a time and may enable each other. Right means: one row per
  fact, `returned` outranks `delivered`, the derived stage depends on the set
  of facts and not on the order they came in, nothing about a contact is lost.
* **Snapshots.** A pull may die between recording a file and landing it, files
  may be re-sent, be short, or be missing when the scrub runs. Right means:
  only bytes that were judged are landed, and a number is never declared clean
  by a file that does not cover it.
* **Tokens.** Two stores, written in different orders by issue and revoke.
  Right means: a revoked token is dead at the edge when the verb returns, and
  a failed verb can be repeated into a consistent state.
* **Digest and reports.** Recording and sending are separate, nights die and
  are run again on the same day, and people go on working meanwhile. Right
  means: the digest never nags twice inside the cooldown; what was recorded
  reaches its founder; what a human planned stays; a removal is never left out
  of every report.
* **Intake.** Two loads read the same keys, a verification lists rows and
  stamps them much later, a correction is made in between, contacts are merged
  and erased. Right means: a phone is one business with one primary row;
  nobody who asked not to be mailed comes back into the mail; an address
  written by hand stays; no mailing is lost to the trims.

`PROJECT.json` lists each hazard at its line with the property that covers it,
or the reason why none does.

## 2. Modules

| Module | Models |
|---|---|
| `Custody` | every verb that moves a lead, run concurrently |
| `LeadLedger` | what custody promises: grants and returns, one at a time |
| `CustodyRefinement` | the mapping under which `Custody` implements `LeadLedger` |
| `CustodyProofs` | theorems about `Custody` |
| `WaveLifecycle` | a wave from draft to mailbox: operator verbs, drops, vendor |
| `WaveLifecycleProofs` | theorems about `WaveLifecycle` |
| `Derivation` | `derivation/rules.py` as operators over sets of events, and what each stage means |
| `DerivationProofs` | lemmas: rules and meanings agree, and what more events can undo |
| `EventHistory` | a contact's events become known, in any order and grouping |
| `EventHistoryProofs` | theorems about `EventHistory` |
| `Ingestion` | inlets, resolution passes, close correlation and the night's judgment, concurrently |
| `IngestionProofs` | theorems about `Ingestion`, with the refinement to `EventHistory` |
| `PartnerTokens` | upload tokens in the database and at the edge |
| `DncSupply` | registry files from the rep's laptop to a verdict on a contact, composed with `PartnerTokens` |
| `DncSupplyProofs` | theorems about `DncSupply`, with the refinement to `PartnerTokens` |
| `Judgment` | the rules of the nightly judgment and what holds their hits back, as operators |
| `NightTail` | the end of the night: expiry of actions, digest, nudges, partner reports, and what people do meanwhile |
| `NightTailProofs` | theorems about `NightTail` |
| `Intake` | the merge of licences into businesses, loads, suppressions, corrections, verification, and the trims of an audience |
| `IntakeProofs` | theorems about `Intake` |
| `MCCustody`, `MCWaveLifecycle`, `MCEventHistory`, `MCIngestion`, `MCDncSupply`, `MCNightTail`, `MCIntake` | the instances TLC checks |

`Custody` implements `LeadLedger` (through `CustodyRefinement`); `Ingestion`
implements one `EventHistory` per contact (`ImplementsHistory`); `DncSupply`
implements `PartnerTokens`, whose actions are its `Clerk`; `Derivation` is the
vocabulary of `EventHistory`, `Ingestion` and, through `Judgment`, `NightTail`.

### Custody

`owner`, `pointer`, `doNotCall`, `dncRegistry`, `checkedAge` and `stage` are
columns of `contacts` (`owner_id`, `assignment_batch_id`, `do_not_call`,
`dnc_registry`, the age class of `dnc_checked_at`, `stage_snapshot`);
`eventStage` is what `derive_stage` would return over the committed events;
`log` is each contact's ownership events; `batch` is `assignment_batches`, a
row named by its unique idempotency key. `asg`, `sup`, `scrub` and `nightly`
are the sessions of verbs that have read something and not yet committed.

| Action | Code |
|---|---|
| `AssignCheck`, `AssignCommit`, `AssignAbort` | `assign_batch`: unlocked reads of the partner and the key; `for update` on the candidates, `_gate`, insert, `set_owner`; rollback |
| `SuppressRead`, `SuppressCommit` | `suppress`: plain read of the owner; update, event, return |
| `Reclaim` | `reclaim` |
| `ScrubDue`, `ScrubApply`, `ScrubClear`, `ScrubCrash` | `_due`; `_apply`, one transaction per row; `clear_suppression`; a pass that dies |
| `RecomputeRead`, `RecomputeWrite`, `RunExpiryStep`, `RunWonTerminationStep`, `NightlyFails` | the custody part of `run_nightly`, in its order |
| `EventArrives`, `CheckAges`, `BatchExpires`, `SetPartnerStatus` | events, time, the operator |

A verb whose every statement works on rows it has already locked is one action.
A verb that acts on an unlocked read is a read and a commit, and anything may
commit between them. Which assignable contacts a batch takes is left open, so
the properties hold for every selection rule. A stage is kept as the four
classes custody tells apart, an age as the three the two limits cut. Contacts
are non-seed with a phone in a subscribed code: the other gates are constant.

### WaveLifecycle

`wave` and `creative` are the `waves` rows and the variants' creative;
`mailable` stands for the mail gates of `_audience_where`; `piece` holds the
committed piece rows, `cards` the vendor's prints. `web` and `drop` are
sessions.

| Action | Code |
|---|---|
| `DraftWave` | `draft_wave` |
| `UpdateWaveRead/Commit`, `UpdateVariantRead/Commit`, `ApproveRead/Commit`, `CancelRead/Commit` | the verbs of `service/waves.py`: each reads status (or frozenness) without a lock and updates unconditionally |
| `ExecuteRead`, `ExecuteBegin` | the first transaction of `execute_wave`: resolve, drift guard, read creatives; write `executing` |
| `SubmitPiece`, `CommitPiece`, `SkipPiece` | one piece's transaction: insert on conflict do nothing, the vendor call inside it, the commit; or the row is there |
| `ExecuteFinish`, `ExecuteDies` | the last transaction; a kill or a vendor error anywhere |
| `StopMail`, `Recompute` | suppression or the second returned piece; `recompute_state` |

Two drops meet at the unique mailer code: the second insert waits while the
first transaction is open (`CodeIsFree`). The vendor prints a request unless it
remembers its idempotency key (`SubmitToVendor`); how long it does is nowhere in
the repository, so it may forget one at any time and print a second `copy`. One
variant stands for a
wave's split, because `_assign_variant` is a pure function of contact and
split. The preview's hash only ever refuses an approval; approvals that pass it
are modelled, those it refuses change nothing. A wave's scheduled date is taken
to have come.

### Derivation and EventHistory

`derivation/rules.py` reads a list of events; every function of it looks only
at types and at `occurred_at`, so a history is a *set* of facts, told apart by
their row. `DeriveStage` and its parts keep the code's firsts and lasts
(`_first_submitted_at`, `_last_occurrence`, `_first_response_at`). Beside them
stand the meanings: `Answered` (an inbound after some piece), `Conversed` (an
engagement after an answer), `GivenUp` (a `lost` no inbound follows), written
with quantifiers and without first or last. `Rank` orders the stages.

`EventHistory` has one variable, the events of a contact attributed so far,
and one action, `Learn`: any set of further events becomes known together.
That is what a committing transaction of `Ingestion` does to each contact.

### Ingestion

`payload`, `owner` and `piece` are the columns `payload`, `contact_id` and
`piece_id` of `events`; a fact's id stands for its `(source, external_id)` and
the row is there when `payload` is not null. `status` is `pieces.status`;
`snapshot` and `undeliverable` are the columns `recompute_state` writes.
`offered` and `shown` belong to the outside: what there is to pull, and which
customers have left a number by now. `pass` holds the resolution passes in
flight, `night` where `run_nightly` stands, `judged` what `recompute_state` has
read. `night.goal` is not in the code: it remembers what this night owes.

| Action | Code |
|---|---|
| `Push` | `ingest_event` (webhooks, API): `append_event` of an orphan, any number of times |
| `AtDesk` | a desk verb (`record_outcome`) appends an event of a contact it names |
| `CommitPiece` | `execute_wave`: the piece row and its `piece.submitted` in one commit |
| `WebResolves`, `WebCommits`, `WebAborts` | `/orphans/resolve` |
| `ResolveRead`, `ResolveOne`, `ResolveCommits` | `resolve_orphans`: one read of the orphans; per orphan `resolve` and the updates; the commit |
| `NightStarts`, `SyncOne`, `NightResolves`, `NightCommits` | `run_nightly` up to the closes: feeds, one transaction per event; the pass |
| `CorrelateOne`, `CorrelateCommits`, `NightResolvesAgain` | `correlate_closes`: guard, phone backfill, insert, commit; the second pass |
| `RecomputeRead`, `RecomputeWrite` | `recompute_state` |
| `NightFails` | a feed or the database raises, or the box dies, anywhere |
| `Happens`, `LeavesNumber` | the outside |

A pass's reads see what is committed and what the pass itself wrote
(`OwnerSeenBy`); its updates take row locks until it commits (`Held`), and when
two passes wait for each other the database aborts one (`WebAborts`,
`NightFails`). What is simplified, and in which direction:

* a pass takes its orphans in any order, where the code has `order by id`: ids
  are handed out on insertion, before the commit, and say nothing of the order in
  which the facts happened. More behaviours, not fewer;
* the keys of one fact do not contradict each other (`IngestionAssumption`);
  with a code of one contact and the phone of another on one event,
  attribution depends on which key matched first, by design of `resolve`;
* a feed offers a fact to every night: the code's look-back windows
  (30 days by default, `jobs/nightly_cli.py`) are taken to outlast the nights
  that fail;
* one night at a time; phones on contacts do not change;
* that one `(source, external_id)` has one row is the unique key's doing, so
  no property is spent on it;
* the watermark of `correlate_closes` and its 45 days are not modelled.

### PartnerTokens and DncSupply

`stored` is `partners.api_token_hash`, `edge` the map the upload Worker
consults, `desk` the command the operator has running. `dropped` is not in the
code: it remembers the tokens an interrupted `issue-token` still had to kill.
`disk` and `sent` are a rep's folder and its `uploaded/`; `bucket` is what the
Worker keeps; `ledger` is `dnc_snapshots`, `lists` the files landed on the box;
`pull` and `scrub` are runs of the two jobs; `due`, `flagged` and `backing`
are the columns `dnc_checked_at` (due or not), `dnc_registry` and
`dnc_snapshot_id`. `backing` also holds the bytes a verdict was read from,
which no column does.

| Action | Code |
|---|---|
| `Issue`, `Revoke`, `EdgeConfirms`, `ClearStored`, `SetStatus` | `issue-token` (database, kill the old one, publish the new one), `revoke-token` (edge, then database), `set --status` |
| `CommandStops` | a failed call to the edge, which may have worked, or a kill, between any two writes |
| `Download`, `RepTidies`, `Upload` | what the rep's robot leaves in the folder; the CRC test, the upload, the move; the Worker's token check and its overwrite |
| `PullStart`, `PullSkips`, `PullJudges`, `PullLands`, `PullRelands` | `pull_snapshots`: one reading of what is on record, then per object skip, `record_snapshot` (a transaction), landing, or `_reland` |
| `ScrubStart`, `ScrubSkips`, `ScrubOpens`, `ScrubRow`, `ScrubClears`, `ScrubCloses` | `dnc_refresh_all`: the coverage and the due list, then per code `listed()`, one transaction per row and `clear_suppression` as a second one |
| `PullDies`, `ScrubDies`, `LosesCopy`, `BecomesDue` | deaths, a working copy that is gone, time |

A content stands for its sha256. The age test on upload is a property of a
name (`world.late`) and not a date. What the scrub's row does to custody is
`Custody`'s `ScrubApply`. One command on tokens runs at a time: they are typed
at the shell of the one box (`jobs/partners_cli.py`), and two founders typing
at once is left out.

### Judgment and NightTail

`Judgment` has each rule that can fire, as the set of its hits
(`HotResponse`, `DemoNoShow`, `QuietReengage`, ..., `BatchCheckpoint`), the
recipient, the cooldown (`Before`, `InCooldown`) and a human's slot
(`HasFutureAction`). The activation rules are left out: nothing writes
the activation table. `NightTail` has the clock, in instants of which `PerDay`
make a day, because cooldowns and slots are counted in days and nudges and
reports in instants.

| Action | Code |
|---|---|
| `NightBegins` | the night's `recompute_state`, which fixes the stages the rules see |
| `ExpireStaleActions`, `Evaluate` | `digest.run` up to the ranked list |
| `PassOver`, `Record` | per hit by priority: no sender for a partner, budget; `record_nudge`, event and slot in one transaction |
| `SendDigest`, `DigestFails`, `NightEnds`, `NightDies` | one send per founder; a send that raises ends the digest; a kill |
| `ReportsBegin`, `ReportReads`, `ReportSent`, `ReportFails`, `ReportStamped` | `run_partner_reports`: `now` once, then per partner compose, send, stamp |
| `Tick`, `Learn`, `HumanSets`, `Assign`, `Remove` | time; an event, `set_next_action`, a batch, a removal, at any moment of the night |

A removal is stamped before it is visible, as its event takes its time in the
transaction. `raced` and `broken` are not in the code: they remember the removals
a report with a later `now` could not see, and the nights whose digest did not
end; a slot's `human` remembers who filled it. A nudge about no contact is an
event of nobody, and `OrphanEvents` counts it, as the rule's query does.

### Intake

`legacy` is the contacts before the merge, `rows` the intake tables with the
verifier's answers, `contacts` the businesses, named by the row they were made
from; `tombs` is `suppression_tombstones`, `moved` is `contact_merge_map`.

| Action | Code |
|---|---|
| `Migrate`, `EnsureSwapped`, `WaveFinishes` | `jobs/migrate_grain.py`: source repair, preflight, families, the swap; a run that halts rolls back |
| `LoadRead`, `LoadCommit`, `LoadAborts` | `load_list`: known keys and tombstones are read, groups resolved and written, or a unique index takes all of it down |
| `Suppress`, `UpdateAddress`, `EnsureSeeds`, `RetireSeed` | the verbs of `service/contacts.py` |
| `VerifyList`, `Stamp`, `VerifyErrs`, `Inherit`, `VerifyDies` | `verify_addresses`: per table the list, one transaction a row, then the inheriting update |
| `Erase` | the hard delete the tombstones were made for, done by hand (not in the code) |

`PickWinner`, `CoalesceEmail` and `Groups` are `resolution/pick.py` and the
grouping; `ResolveAudience` is the two trims of `resolve_audience`, evaluated
on every subset of the eligible contacts. An e-mail, a note and an address are
atoms. `Erase` is taken to happen while no load or verification runs.

## 3. Runs

| Run | Question | Result |
|---|---|---|
| `custody_assign` | do the owner, the pointer, the log and the batches stay one story under racing assignments, retries, expiry and the night, and do the verbs implement the ledger? | pass, 190,476 states |
| `custody_removal` | with a suppression, a scrub and the night interleaved: is a do-not-call or won contact ever handed over; does every holding end? | pass, 264,900 states |
| `waves_drop` | only kills print a card twice, even with a vendor that forgets; records true to cards, only kills lose records, an approval binds, what is over is over, a drop ends | pass, 404,276 states |
| `supply` | tokens, uploads, pulls and scrubs, any of which dies: is a verdict always read from accepted bytes of the right code, is no download lost, no token alive that cannot be revoked, does what was accepted land, and does a broken code leave the others alone? | pass, 65,174 states |
| `outbox` | nights that are repeated, killed, cross midnight and race with people: is nobody nagged, does what is recorded arrive, is every removal told? | pass, 722,679 states |
| `intake` | merges, two loads at once, erasures, two verifications and corrections: one business per phone, suppressions that survive, corrections that stay, mail that is not lost | pass, 331,237 states |
| `history` | twelve events become known in every order: does each stage mean what it says, only move forward, and is `lost` left for a reason? | pass, 4,096 states |
| `ingestion` | scans of one card by poll and webhook, before and after its row; a call, a text on its thread, a close whose number comes late; a contact given up at the desk; two passes at once and nights that fail: is the piece's status what the scans say, is attribution true and final, does a night judge all it was given, does no shown stage go back, does every fact with a key come to count? | pass, 50,832 states |
| `custody_dnc` | is a `do_not_call` contact out of its assignment at once? | violated |
| `waves_cancel` | is a cancelled wave never mailed? | violated |
| `waves_resume` | can a killed drop, with contacts still to mail, always be re-run? | violated |
| `outbox_plan` | does the night leave alone what a human has planned for a later day? | violated |

### Bounds, and why they are enough

* **Custody.** A batch is named by its key, so two keys are two batches in a
  contact's life: assigned, returned, assigned again to the other partner. Two
  callers race on the same key, on different keys, and as a retry. The log is
  bounded by the keys, since every event but a repeated reclaim needs a
  grant. Two callers with two partners and two keys (no suppression) and one
  of everything with suppression and scrub are separate runs because the
  product is too large; a return meets an assignment in both. One contact is
  enough for TLC: no gate, return or pointer compares two contacts, and the
  theorems cover any number.
* **WaveLifecycle.** Two contacts, so that a drop can be half done; two
  drops; one kill (`MaxKills`), the smallest number for which a run must be
  resumed; two creatives, so that an edit can be told from none; a tolerance
  of 50 in `waves_drop`, so that one contact of two leaving is not drift, and
  of 10 in the others, so that it is. One operator in the runs, because two make
  some six million states: no two edits race there. Two founders use the desk
  (`web/api.py:5`), so `ApprovalBinds` and `SettledIsFinal` do not lean on that:
  they say what is held once no request read before is in hand, and the theorems
  cover any number of operators. What two operators can break is under
  Observations. There are no seeds in the runs; the theorems cover them.
* **EventHistory.** Five instants, and each kind of event that is compared
  with another has an early and a late one: two pieces, inbounds before,
  between and after them, two `lost`, engagements at and after the first
  answer, both kinds of opt-out. Every subset is a reachable history and every
  pair of nested subsets a step.
* **Ingestion.** One web request beside the night is enough for two passes to
  overlap, to hold each other's rows and to deadlock; one failing night
  (`MaxFails`) may fail at any point and the next one has to make up for it.
  A behaviour is of one world (`happening`), chosen at the start: `Mail` has one
  card with a delivery and the same return by poll and by webhook, so that the
  passes race on one piece's status; `Talks` has an event known by phone, one
  known only through the first, and a close that needs the backfill and the second
  pass; `Desk` has a card answered on a thread and a contact given up by hand, so
  that a stage has something to go back from. Pieces, contacts and facts beyond
  that are the theorems' part.
* **DncSupply.** One partner with two area codes, so that one code can be
  broken while the other is fine; three tokens, so that a rotation may follow
  one that failed; one mishap (a death, a damaged download or a lost
  copy), which may strike at any point. Five worlds: tokens come and go during an
  upload; a newer file delists; another content takes a judged name; one
  guid under two names and a short file; a bad name, the wrong code inside, a
  late file. One pull and one scrub: two of either are the theorems' part.
* **NightTail.** Five instants on days of two, so a night can be run twice a
  day and can straddle midnight; a cooldown of two days ends and is
  broken by an inbound within that; a budget of one, so that it bites. One mishap.
  Worlds: a conversation with a human's plan; a partner's contact beside the
  house's; a contact that leaves under the reports of two partners; every alarm at
  once without a sender.
* **Intake.** Three licences of one phone, a filing, a fourth that attaches;
  two loads of two files that share a phone; a licence that has moved to
  another phone; a licence and a filing at one delivery point under two
  verifications and a correction. `MCIntake` also has TLC compare the merge
  with a load of the same lines, for every book of up to three lines
  (`MergeIsLoad`).

`history`, `outbox` and `intake` disable the deadlock check: a contact's events are
at some point all known, the clock and the agenda end, and there may be nothing left
to load, verify or erase. No other run does.

### Fairness

* `Custody`: a night starts whenever none is running (weak fairness of
  `RecomputeRead`), and a night that keeps failing at a step is repaired in the
  end (strong fairness of each later step). Cron and the operator justify
  both; nothing is assumed of callers, suppressions, scrubs or the clock.
  `EveryHoldingEnds` takes the passing of the expiry dates as a premise of its
  own.
* `WaveLifecycle`: a run that is not killed goes on, and a due wave is picked
  up again (weak fairness of `Execute`): `docs/direct-marketing-101.md` has the
  operator re-run a killed drop until it is clean. Kills are finite.
* `Ingestion`: the night goes on and the next one starts (weak fairness of
  `NightSteps`; cron runs it daily and failures are finite); a web request that
  can go on does. Postgres queues the waiters of a row lock, so a pass that
  waits for a row gets it (strong fairness of `ResolveOne(Night)`), and
  it resolves a deadlock (`WebAborts` when both wait). Nothing is assumed of
  the outside, of webhooks or of when requests are made.
* `DncSupply`: pulls and scrubs are started daily by cron and go on unless
  they die, and deaths are finite (weak fairness of `PullGoesOn` and
  `ScrubGoesOn`). Nothing is assumed of reps, of the operator or of the clock.
* `NightTail` and `Intake` have no liveness property and state no fairness.

## 4. Theorems

All of them hold for every value of the constants that satisfies
`CustodyAssumption` (the house is not a partner, null is not a key or a row) or
`WaveAssumption` (seeds are contacts, the contacts are finite, the tolerance is
a percentage, null is no row), `HistoryAssumption` and `DerivationAssumption`
(events have instants and differ in their row), `IngestionAssumption` (the
keys of a fact do not contradict each other, null is no row, the night is not a
web request),
`TokensAssumption` and `SupplyAssumption` (null is nobody and nothing; dates
and lengths are numbers; a damaged download is not a content),
`IntakeAssumption` and `WorldsAssumption` (see Intake), or
`JudgmentAssumption` and `NightAssumption` (a day has an instant, parameters are
numbers, null is nobody and nothing; the outside has events, plans, batches and
removals only, and what is known at the start has happened).

**Custody.** `TypeCorrect`; `OwnerIsDerived` (the owner column is what the
event stream derives); `PointerIsOwned`; `RetryReportsOriginal`;
`CustodyImplementsLedger`; `NoHandover`; `WonNeverHandedOver`. The lever is
`StepShape`: every step of `Next` leaves custody alone, lets an expiry date
pass, returns a set of contacts to the house, or grants free contacts under an
unused key. The invariants are then proved once per shape and not once per
action. `PointerMatchesOwner` is inductive with `TypeOK`; the receipt is not,
because it says nothing of a contact that was released: `CustodyInv` adds
`MembersAreLogged`, that a batch's members are exactly the contacts whose log
has its assignment, each once. `WonNeverHandedOver` and `NoHandover` are action
properties and follow from the gate on locked rows in `AssignCommit`.

**WaveLifecycle.** `TypeCorrect`; `SecondCardTakesAKill`; `RowsClaimCards`;
`SettledForGood`; `ApprovalsBind`; `LossesAreKills`, for any number of operators,
drops and waves. `WaveInv` is `TypeOK` with `NamedWavesExist` (what a session holds
is a wave that has been drafted) and that the cards are finitely many.
`RowsClaimCards` needs `InFlightIsPrinted`: the contact of an open piece
transaction has its card. `LossesAreKills` counts: `OpenIsUnrecorded` says that a run
in flight holds a card that no row records, no two runs the same, so that a
submission adds one to both sides, a commit takes one from both, and a kill moves
one from the runs to `kills`. `SecondCardTakesAKill` counts copies the same way
(`CardsCounted`: a wave's cards are at most its rows, its runs in flight and the
kills) and does not use the vendor's key: what keeps copies down is the unique
mailer code, the row committed with the card, and `SkipPiece`. `ApprovalsBind`
takes one step at a time: from `Bound`, no verb can begin that edits the wave, a
variant carried by an approved wave is frozen for ever, and a drop that starts reads
what the wave holds.

**EventHistory.** For any set of events with any instants:
`StagesMeanWhatTheySay`, `StagesGoForward`, `LostStaysLost`, `TypeCorrect`. The
argument is that each rule of the code is equivalent to its meaning
(`RespondedMeans`, `EngagedMeans`, `LostMeans`, `SubmittedMeans`, from
`EarliestIsLeast` and `LatestIsGreatest`), and that the meanings other than
`GivenUp` are monotone in the set of events (`MeaningsGrow`).

**Ingestion**, under `IngestionAssumption`: `TypeCorrect`, `AttributionTrue`,
`StatusIsTrue`, `HistoryImplemented`, `SnapshotsGoForward`, `NightJudges`. `AttributionIsTrue`
is not inductive: a wrong owner could come out of what a pass has read or
found, or of what the night is about to insert. `IInv` therefore says that
payloads in the table (`EventsCarry`), in a pass (`PassesCarry`) and in the
night (`NightCarries`) carry only keys of their fact, and that what a pass has
found is the contact the fact is about, with a piece that has a row. A thread
lookup then returns the owner of another event on the thread, who is the same
contact. `OwnersStay` (an attribution is never changed) follows from `IInv`
before and after a step, and gives the refinement. `StatusIsTrue` adds `Agrees`,
per piece, and uses that an event has one piece. `SnapshotsGoForward` needs
that a snapshot is the stage of a *subset* of what is about to be judged
(`SnapshotIsOfAPast`), and then `StageGoesForward`, the lemma behind
`StagesGoForward`. `NightJudges` follows a night's goal (`GoalsDue`): a fact of
the feeds is, step after step, still to be fetched, fetched and not inserted, a row that
the pass has yet to match, a row with its owner, and judged; a close is the same
with its number and its signup (`CloseDue`). `NightIsAlone` keeps the night's
own session apart from the requests, and `FeedsAreFull` says that what a goal
names has not left its feed.

**DncSupply.** `TypeCorrect`, `TokensHonoured`, `TokensAmongTheRest`,
`UploadsKept`, `VerdictsRest`, for any number of pulls and scrubs.
`HonouredIsNamed` is inductive with the types and `DeskIsTrue`: what the
command in progress holds agrees with the two stores. `TokensAmongTheRest` is
the refinement: every step of `Next` is a step of `PartnerTokens` or leaves its
variables alone. `VerdictRestsOnAccepted` is the end of a chain over three
stores that nothing keeps together. `BoxInv` says that a file on the box, and
one a pull is about to land, is vouched for by an accepted row with its
holder, date and bytes (`Vouched`), and that an accepted row's name is well formed
(`LedgerSound`); the ledger only grows, so this stays. `ScrubInv`
carries it to a pass (`PassSound`: what a pass covers a code with is an accepted
row of that code, what it reads is vouched for) and to the contact
(`Backed`). `HitsStay` is the other direction, that a listed contact is
flagged: it needs that there is one pass, because `clear_suppression` does not look
before it clears. `Heaviest` is the lemma that a finite set of ledger rows has
one of the latest date, so that the coverage, a CHOOSE, is well defined.

**NightTail.** `TypeCorrect`; `RecordedArrives`; `RemovalsAreTold`;
`CooldownHolds`. `Typed` is `TypeOK` with `Shape` (a run is a record of its
fields). No run checks this `TypeOK`; it is proved. None of the properties is inductive: each says of the end what the
night must have kept up on the way. `Owed`: while a night is at its digest, an
undelivered nudge of tonight has its founder in the queue, and the queue holds
just the founders that have been counted. `Due`: what a report in flight does not
carry is after its `now`, so that stamping `now`, and not the time of stamping,
skips nothing. `Cleared`: a prepared hit is clear of the
nudges of earlier nights (`NotInCooldown`), and stays so, because a night is alone
and events only come in. `DayMonotone` is the lemma that joins instants to days.

**Intake.** `TypeCorrect`; `GrainHolds`; `SuppressionHolds`; `CorrectionStands`;
`MailIsKept`; `MergeIsLoad`, from `IntakeAssumption` (keys are ordered, null is nothing) and
`WorldsAssumption`: a world's book has unique keys, its pieces name its
licences, and a list's keys carry the prefix of its table, which is what the
adapters write (`intake/fbn_ca.py:11`). As no type invariant of this module is
run, `TypeOK` is only proved. `BusinessGrain` is not inductive: it does not say
*which* row is primary. `Named` does: a business bears the name of its primary
row, and so a row without its contact cannot be a business's second one. Below
it lie what the operators compute: `PickedIsMember` (a most frequent address and
a least key exist), `GroupsApart` and `FamiliesPartition` (groups are disjoint
and a phone is in one), `AcceptedKeyed` (what a file repeats is accepted once).
`SuppressionSurvives` fails to be inductive for the reason that makes the load
hard: it reads the tombstones before others write more. `LoadsSound` says what saves
it: a tombstone that a load under way has not read is of a *living* contact, by
its phone and by its primary row, because no deletion runs beside a load. The
commit then either finds that contact by the phone, or breaks on the row. The
deletion is not in the code; that it waits for the loads is the model's
assumption, and without it TLC finds the suppression lost: a load that read the
tombstones before a suppression and a deletion makes the contact anew. Whoever
writes the deletion must see to that. `CorrectionStands` is an action
property: `StampStays` goes through the steps, `SeedsApart` gives the address.
`MailIsKept` needs no history: `DedupeKeepsOne` holds in any state. `MergeIsLoad`
compares two algorithms for every book of licences, where the run compares them
over small books: groups that are `Alike`, a list's and the book's, have winners
that are twins (`PickedAlike`), e-mails that are the same, and so the same business.
It is about the cslb rule: a filing keeps its phone in a merge and loses it in a
load.

**Only model-checked.** The liveness properties (`WonIsReturned`,
`EveryHoldingEnds`, `DropEnds`, `SnapshotsCatchUp`, `AcceptedLands`,
`CodesAreIndependent`), because the prover has no liveness under fairness and no
ENABLED; the violations. Every safety invariant and action property of the passing runs is
a theorem.
What a recursive definition computes for every input would need an induction
over data that the installed provers cannot instantiate, so pure algorithms of
that kind are for bounded inputs only.

## 5. Findings

1. `suppress` reads the owner before it waits for the row
   (`service/contacts.py:446`). An `assign_batch` that commits in between leaves
   a do-not-call contact with its partner until the batch ends
   (`custody_dnc`), though the comment at 484 says the removal cannot be lost.
2. `cancel_wave` and `execute_wave` both act on a status read without a lock;
   a wave recorded as cancelled is mailed (`waves_cancel`).
3. A killed drop of a stage-filtered wave is halted, after the nightly
   recompute, by the drift its own mail caused; it stays `executing` and cannot
   be cancelled (`waves_resume`). `DropEnds` shows that drift, of this or any other
   cause, is the only thing that keeps a re-run drop from ending.

4. The night looks at `next_action_at` while it evaluates and overwrites it when
   it records, in a later transaction and without looking again
   (`judgment/digest.py:97`, `service/nudges.py:41`). What a founder planned in
   between, for any later day, is gone (`outbox_plan`), though
   `service/contacts.py:543` says the job will not overwrite it.

The damage of the first three is bounded by properties that do hold: every
holding ends, no do-not-call contact is handed over *afterwards*, and a card is
printed twice, or printed and not recorded, only for a killed run.

### Observations

What modelling brought up beside the findings. No run is spent on these; the
models have the behaviour, and the properties are stated so that they allow it.

* **Two founders.** The desk has two users (`web/api.py:5-6`,
  `docs/direct-marketing-101.md:331`, `docs/direct-mail-ai-service-contract.md:137`)
  and the draft verbs lock nothing (`service/waves.py:294`, 347): an `update_wave` or
  `update_variant` that read a draft and commits after the other's `approve_wave` has
  the approved wave mail another rule or creative, which line 288 promises it
  will not. An approval that read a draft may commit after the wave was approved by
  the other and sent. `ApprovalBinds` and `SettledIsFinal` begin where no such request
  is in hand; the models with two operators have these behaviours.
* **Print.** After a kill between the vendor's answer and the commit, what keeps a
  contact from a second card is the vendor's memory of the idempotency key alone;
  how long it lasts is not in the repository.
* **Custody and mail.** The scrub returns a listed contact only if the *due
  list*, an earlier transaction, had a partner as owner
  (`jobs/dnc_refresh.py:140`; the comment below it says more). One returned card that
  both the poll and the webhook report is two rows under two ids and closes the
  address, because rows are counted (`derivation/rules.py:85`, where line 83
  speaks of two returned pieces). A contact that opts out after its audience was
  resolved is still mailed by that drop.
* **Tokens.** After an `issue-token` that stopped at the edge, the database
  names the new token and nothing will ever kill the old one (`dropped` in
  `HonouredIsNamed`). A deactivated partner's token cannot be revoked, as
  `revoke-token` asks for an active partner.
* **Snapshots.** The same file under a second name of the same guid takes its
  first row's verdict, lands beside it, and the code is then refused as ambiguous. A
  copy under a bad name makes the same bytes under their right name
  `duplicate_content`. `clear_suppression` is called idempotent
  (`jobs/dnc_refresh.py:150`), which holds while passes do not overlap
  (`OnePass`). A pass that dies between a row and `clear_suppression` leaves the
  flag right and the event unwritten, for good.
* **Digest.** One founder's failing send also ends the other founders' digests
  and the reports of that night; their nudges are recorded and in cooldown.
  `hot_response` fires once per contact, so a failed send loses it. Without
  a sender the house's nudges are recorded and go nowhere. A human's
  slot for today is overwritten (`judgment/digest.py:30` asks for a later day). Two rules
  may nudge one contact in one night. Every nudge about a wave or about nothing is
  an event without a contact, which nothing ever attributes: in time they alone
  exceed ORPHAN_MAX, and `orphan_events` then fires every cooldown for ever, each
  time adding one to its own count (`judgment/rules/orphan_events.py:16`, `service/nudges.py:35`).
* **Reports.** A report that was sent and not stamped is sent again. A removal
  stamped before a report's `now` and committed after its reading is told in no
  report (`raced` in `NoRemovalIsSkipped`).
* **Intake.** A licence attached to a living contact by its phone brings none
  of its own tombstones (`Attached`). Two verifications at once ask the vendor twice about a
  row. `ensure_seed_contacts` overwrites an operator's correction of a seed. The
  same licence under two sources is two contacts. An audience may be
  mailed at an operator's address while its delivery point is still the primary
  row's.

## 6. Plan

Done: `Custody` with `LeadLedger`; `WaveLifecycle`; `Derivation`,
`EventHistory`, `Ingestion`; `PartnerTokens` and `DncSupply`; `Judgment` and
`NightTail`; `Intake`; proofs for all of them.

Left, in this order:

1. Two scrub passes at once, for the events of the delisting; the roster's
   status composed with `Custody`.
2. The watermark of `correlate_closes`: pages, ties, the 45 days.
3. The drop and the derivation over one clock: `piece.submitted` is stamped
   when its row is written, which after a kill is the re-run.

## 7. Not modelled

* Rendering, forms and read-only queries (`web/`, `jobs/console.py`,
  `service/queries.py`): they change no state; the
  concurrency they bring is in the sessions.
* `export_batch`: writes only a date. The request hash of a key: it only
  refuses a reused key with another body.
* The activation rules (`judgment/rules/activation_*.py`): nothing writes the
  table they read. `record_note`: no decision reads its event.
* The legacy single-registry pass `dnc_refresh` and the counters of a pass; the
  browser robot that downloads registry files, beyond the files it leaves;
  a truncated bucket listing, which only refuses.
* One-shot tools (`jobs/derive_area_codes.py`, `jobs/subscribe_area_codes.py`).
* The intake adapters, which turn published files into canonical ones, and the
  parsing and paging of the feeds.
* The eventual consistency of the edge's key-value store: a call that was
  confirmed is taken to have happened everywhere.
* The vendor's printing and the carrier, beyond the idempotency key.
* Wall-clock time, where classes that a tick moves will do; `NightTail` has a
  clock.
