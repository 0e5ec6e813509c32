# Cassocial: specifications, model checking and proofs

Cassocial is a Go web server for link-in-bio pages: users own profiles, profiles
own an ordered list of links, visitors open them.  One process serves HTTP with
one goroutine per request, keeps everything in one SQL database (SQLite,
PostgreSQL or MySQL through `database/sql`), and runs a background scheduler.
Operators set the site up with a wizard, and back it up, restore and update it
from the command line while it runs.  No handler joins two statements in a
transaction, except the storing of backup codes.  That is where the hard behaviour
is: every check, every read-modify-write and every loop of UPDATEs can be overtaken
between any two of its statements, and can end between them.

Paths below are relative to the repository root; line numbers are those of the
commit under `src/`.

## Inventory

| Component | State | Operations | What is hard, and what makes it right |
|---|---|---|---|
| Link editing, `src/src/server/handler/link_handlers.go` | rows of `links` (profile, position, flag) | create, update, toggle, delete with renumbering, reorder | count-then-insert limit, position read before the INSERT, one UPDATE per row; bounded overshoot, distinct positions, dense renumbering, no lost update without a race |
| Profile editing, `.../handler/profile_handlers.go` | rows of `profiles` (owner, slug, flag) | create, duplicate, update, delete | one limit shared by two endpoints, slug checks long before the INSERT; a slug that was found free stays free but for races, bounded overshoot |
| Users and cascades, `.../handler/admin_handlers.go`, `.../store/migrations/` | `users`, references | delete a user | a parent deleted under a request, and no engine that enforces the references; what is left behind is changed only by requests that had looked it up before |
| Profile and link services, import and export, `.../service/{profile,link,import,export}_service.go` | profiles, links, import jobs | import, export, create, duplicate, move, delete | a job that stops half way, positions computed from what was read, a limit whose setting cannot be read; a finished job accounts for every record |
| Short links, visits, reports, analytics, `.../handler/{shortlink,public_handlers,analytics_handlers}.go`, `.../service/analytics_service.go` | counters, events, sessions, hourly rows | follow, click, view, report, aggregate, clean up | a counter and its event are two statements, a report is several queries, and links and old events go in between; numbers agree, parts add up but for what drifted, nobody deletes another's link |
| Accounts and tokens, `src/src/server/auth.go`, `password.go` | users, reset and verification tokens | register, log in, reset, verify | tokens used twice, check-then-insert, settings read apart from rows; names and addresses found free stay free but for overlapping registrations, sessions for eligible accounts, links that keep working |
| Two-factor authentication, `src/src/server/2fa.go`, `.../handler/auth_handlers.go` | the secret, the backup codes | enable, disable, use and regenerate codes | two statements per change; what is answered must hold, secret and codes go together |
| Scheduler and cron expressions, `src/src/scheduler/` | loop goroutine, stop channel, last second and next run per task | Start, Stop, tick, register, run, enable, disable | repeated ticks, a restart against a dying loop, a search for the next run under the mutex; once per second, one loop, the earliest match, Stop returns |
| Notification manager and mail, `src/src/service/{notifications,mailer,smtp}.go` | queue, ticker, batch loop, tries | Queue, Start, Stop, UpdatePreferences, send | mutex against channel, a replaced ticker, answers that come too late or never; each notice once, in order, sent or given up after its tries |
| Server process, PID file, configuration, `src/src/main.go`, `src/src/server/{server,pid}.go`, `src/src/config/` | listener, handlers in flight, database handle, the two files | start, serve, signal, drain, exit, status | order of the shutdown, two instances; database closed last, exit always reached, the file names who serves |
| Setup wizard, `.../handler/setup.go` | administrators, the flag "initialized" | the form | three statements; never initialized without an administrator |
| Backups and maintenance mode, `.../service/backup.go`, `src/src/cli_ops.go` | archives, the database file | create, rotate, verify, delete, restore | copies of a file that is written, a restore that truncates it under a statement of the server, several commands; whole unless interrupted or met, bounded |
| Self-update, `src/src/cli_ops.go` | the program file and its download | check, install | one name for every download; the program stays whole |
| Sessions, rate limiter, maintenance middleware | maps under a mutex | create, allow, clean up | not modelled, see the end |
| Service catalogue; templates, i18n, PWA, swagger, GraphQL, GeoIP, metrics, logging | none that is shared | rendering and I/O | not modelled, see the end |

How they interact.  HTTP handlers share the tables and nothing else.  The scheduler
runs tasks on the same database from goroutines of its own.  `main` starts and
stops the scheduler, the listener and the database handle in a fixed order, and
Stop waits for the mutex under which the scheduler evaluates cron expressions, so an
expression that is evaluated for ever keeps the process from exiting.  The
command line works on the database file from other processes.  The notification
manager hands its notices to the mailer; it is complete and tested, and not yet
wired into the server.

## The modules

| Modules | What they are |
|---|---|
| `Quota` | abstract contract of a "count, then insert" limit: how far requests that overlap can overshoot it |
| `Tables`, `LinkHandlers`, `ProfileHandlers`, `SiteContent` | the SQL of `users`, `profiles`, `links`; the editing endpoints, each with a specification of its own (`LinkSpec`, `ProfileSpec`); a module that EXTENDS both and runs them together with the deletion of users |
| `Services`, `Transfer` | the profile and link services; imports and exports on them |
| `Serving` | requests as sequences of statements, for the next row and the server |
| `ShortLinks`, `Visits`, `AnalyticsService`, `Traffic` | short links; views, clicks and reports; the analytics service; all of them at once |
| `Accounts` | registration, login, reset, verification, administrator's changes |
| `TwoFactor` | one user's secret and backup codes |
| `Cron`, `Calendar`, `Scheduler`, `Timetable` | expressions and the search for the next run; Go's calendar in small; the tick loop; the scheduler that searches under its mutex |
| `Mail`, `NotificationManager` | attempts to send a mail; batching, and the mails it sends |
| `Server`, `Instances` | main, listener, handlers, scheduler; several invocations and the PID file |
| `Database`, `Setup`, `Backup`, `Update`, `Installation` | the database file; the form; backups and maintenance mode; self-update; all of them at once |
| `*_proofs` | theorems, see "What is proved" |

How state and actions correspond to the code:

* An action is a statement.  `job[r]` (`pjob`, `form`, `command`) is what a request
  carries from one SQL statement to the next, the local variables of the Go
  handler: `pc` names the statement to come.  A handler's early returns end the job.
  A statement may fail: errors that the code drops (`currentCount, _ :=`) are
  actions that go on with the zero value; errors it answers end the request.
  `Crash` loses every job and no row.
* Rows are functions from ids; an id is unused, stored, or deleted, and never used
  again, because ids are random.  Nothing cascades: SQLite enforces the schema's
  `REFERENCES ... ON DELETE CASCADE` only under a PRAGMA that nothing issues,
  `adaptSQL` strips them for MySQL (`store/sqlite.go:197-198`), and PostgreSQL refuses
  the first migration (`AUTOINCREMENT`, `001_initial_schema.sql:420`).
* A slug is a name followed by the numbers of its `-copy` suffixes.  A code, a
  password or a token is right or wrong.  A mail fails at one of its SMTP commands.
  A database file is its contents, or torn.  An archive is what it holds, when it
  was begun, and whether it is encrypted.  A restore truncates the file that the
  server uses, without its locks (`backup.go:368`): from then on a statement that
  began before, or the journal that it left, may land in the restored file
  (`astride`, `StatementLands`).
* `Scheduler` has one goroutine per run, the tick loop, and the stop channel that
  `Start` replaces; `Timetable` adds what `RegisterTask` and `tick` do with the mutex
  held: one turn of the loop in `next` at a time, so a search that never ends is a
  behaviour and not a hole in the model.
* `Cron` takes the calendar as parameters: the fields of a second in a zone, and
  where `time.Date` and `AddDate` lead.  `Calendar` gives them for a small calendar
  (a minute of 2 seconds, an hour of 2 minutes, a day of 3 hours, a week of 3 days,
  months of 2 and 3 days), with Go's rules for readings that a change of the clock
  repeats or skips.  Some zones skip midnight, like Cairo's and Beirut's, or move
  the clock by half an hour, like Lord Howe's.  There a turn of the search can jump
  over seconds that it has not looked at: `EvenTurn` tells such turns, and `even`
  remembers whether a search had one.
* A moment of `Visits` and `AnalyticsService` is `1/PerHour` of an hour, and old
  events are deleted up to any moment.  Each link has a counter; `DropLink` deletes
  one.  A summary shows the links that are still there (JOIN), the `TopLinks` most
  clicked of them (LIMIT 20).
* `NotificationManager` has the mutex, the unbuffered stop channel, the ticker and
  its replacement, the batch loop, and the calls of Queue; what it sends are steps of
  `Mail`.  A connection has no deadline after the dial (`smtp.go:256-325`), so the
  peer may fall silent and the attempt never end (`FallSilent`).
* `Instances` starts several processes.  Each checks and writes the PID file in two
  steps, since `os.WriteFile` empties a file first.

Ghost variables record history for the properties: `stale`, `calm`, `blind`,
`pblind`, `accepted`, `stopped`, `fired`, `fresh`, `uses`, `overlapped`, `outdated`,
`cutOff`, `refused`, `tearing`, `unrotated`, `meeting`, `overtaken`, `raced`, `late`,
`apart`, `even`, `tracked`, `cleaned`, and in the jobs of reports and in hourly rows
`drift`, `whole` and `sure`.  Guards read them only where a bound is named, or to keep
an id that is never used twice.

## What the runs check

| Run | Question | Instance |
|---|---|---|
| `link_edit` | limit, positions, renumbering and lost updates when two requests overlap and statements fail | 1 profile, 3 links against a limit of 2, 2 requests, lists of up to 2 ids, repeats included, 1 failed COUNT |
| `profile_edit` | limit, and slugs that were found free, when two requests overlap | 2 users, 4 profile ids against a limit of 1, 2 requests, 1 failed COUNT for each user |
| `site_content` | who still changes the links that a deleted profile leaves behind | 2 users, 2 profiles, 1 link, 2 requests for links and 1 for profiles |
| `notify` | each notice once, in order, flushed by Stop, delivered or given up; sent, and Stop returns, unless the manager ends in one of the ways that the properties name | 2 batched notices, 1 urgent, 1 stop, 1 new delay, 2 failed SMTP commands, a peer that may fall silent |
| `scheduler` | once per second, one loop, the earliest next run, Stop returns, across a restart | 1 task, 8 expressions, 6 zones, 2 runs, 2 ticks, 2 starts, one caller |
| `cron_clock_back` | does the search return west of Greenwich, where an hour is repeated? (violation) | as above, a western zone |
| `server_life` | the database is closed when handlers and loop are gone; the PID file names the server; a signalled server exits | 1 task, 1 run, 1 request, 2 instances, 1 status query |
| `two_factor` | secret and codes go together, reuse is bounded, answers hold | 2 requests, 3 setups, 2 codes each, 1 failure |
| `accounts` | names and addresses found free, tokens only to eligible ones, reset links and verification tokens neither lost nor reusable | 2 requests, 2 accounts, 2 words that serve as names and as addresses, 2 mail tokens, 1 change from outside, 1 failure or crash |
| `installation` | no initialized site without an administrator, whole archives, their number, a whole program | 1 form at a time, 2 commands at once and 3 in all, 1 archive to keep, 2 seconds, 1 failure or power cut, any statement of the server astride a restore |
| `traffic` | counters and events agree, reports add up, hourly rows are exact, deletions by owners only | 2 requests at once and 3 in all, 2 users, 2 short links on one code, 1 visitor, 2 links of which a summary shows 1, 3 moments in 2 hours, 1 failure or crash |
| `import_export` | jobs account for their records, positions apart, the profile quota | 2 requests, 1 user, 2 profiles, 3 links, 1 failure or crash |

Bounds and why they are enough.  Two requests are the smallest number that
overlaps, and each property relates what one request read to what another wrote
in between; three links are what renumbering needs to tell an order from its
reverse and to lose one in the middle.  A limit is always below the number of ids,
so it is reached and overshot; two users are what it takes to see that one user's
limit does not count the other's profiles.  One failed statement is enough to
leave a change half done; a second adds nothing the first does not leave.  Two SMTP
failures are one more than the tries of a normal notice.  For the scheduler two
ticks are what a repeated and a later second need, and two starts are a restart.
The first of two hours has two moments, so that it can be deleted by halves while the
second is the present one.  Three commands are a backup, one that rotates it away,
and one beside them.  The small calendar keeps every relation that the search depends
on: fields that carry, months of different lengths, a week that does not divide the
month, an hour that occurs twice and one that does not occur, a midnight that is
skipped, a change by half an hour.  `MaxReorder`, `MaxBlind`, `MaxStops`, `MaxDelays`,
`MaxFailures`, `MaxUses`, `MaxChanges`, `MaxTime`, `MaxStarts`, `Runs`,
`MaxHandling`, `MaxStarted`, `MaxServed`, `MaxCommands`, `LastSecond`, `Horizon` and
`MaxYears` are bounds and named so where they are declared; the theorems hold for any
value of them.

Deadlock is checked except where the system really may stop: the notification
manager, whose Stop can deadlock, and the server, which exits.  The other models
always have a step: a request may arrive that is refused at once.

Six properties are stated beside the ones above, in the words of a comment or a
message of the code, and fail: `StopReturns` and `DelayChangeKeepsBatching` of
`NotificationManager`, `AnswerIsTrue` of `TwoFactor`, `NoOrphanLinks` and
`NoOrphanProfiles` of `Tables`, and `NextRunIsEarliestEverywhere` of `Timetable`.  To
see the counterexample, put the property in place of the others in `MCNotify.cfg`,
`MCTwoFactor.cfg`, `MCSiteContent.cfg` or `MCTimetable.cfg`.

## Fairness

* `NotificationManager!FairSpec`: every goroutine that can run does (weak), the
  ticker keeps ticking (weak), and `StopLoop` is strongly fair: a goroutine that
  offers a value on a channel is served by a receiver that keeps coming back, since
  Go's select chooses among ready cases at random.  No fairness on callers.  A step
  of an SMTP attempt is fair only while its peer answers; in any attempt the peer may
  fall silent, and then the goroutine stays where it is, with what it holds.
  `QueuedIsSent` and `StopEnds` name this end (`Caught`) beside the others that the
  code has: a loop that listens to a stopped ticker (`Deaf`), and a loop and a Stop
  that wait for each other (`Deadlocked`).
* `Timetable!FairTimetableSpec`: goroutines that can run do, and a search takes its
  next turn; a loop that finds its channel closed again and again takes that case
  in the end (strong, same reason).
* `Server!FairServerSpec` and `Instances!FairInstancesSpec`: main, the loop and the
  runs go on.  A request may take for ever and no signal need come; only the 30
  seconds of the shutdown context are sure to pass.

The other components promise nothing that must happen: a request may be the last.

## What is proved

The modules `*_proofs` are checked by TLAPS for every value of the constants, under
the assumptions named beside the constants (finite sets of ids and requests,
positive limits, distinct model values, random ids that are not reused).

| Theorems | Along which argument |
|---|---|
| `QuotaTypes`, `QuotaBound` (`Quota_proofs`) | The pending requests are part of the sum, which is what makes the bound inductive. |
| `LinkTypes`, `LinkQuotaRefinement`, `LinkLimitBound` (`SiteContent_proofs`) | Rows := links of a profile, pending := jobs past the count.  Each statement is an abstract check, blind check, insert, abandon or removal, or a stutter; renumbering and reordering stutter because they never move a link to another profile.  `TypeOK` is not inductive: a job at `reorder` must still have an id to write; `JobsComplete` adds that. |
| `PositionsAreDistinct`, `RenumberLeavesNoGap`, `NoUpdateIsLost` (`SiteContent_proofs`) | While a profile is calm, the one request that changes it knows where it is (`OrderInv`): an insert holds the position after the last, a renumbering has given the first positions to a prefix of what it read, a reorder writes a permutation.  From there each UPDATE is a local change. |
| `ProfileTypes`, `FreeSlugsHold`, `ProfileQuotaRefinement`, `ProfileLimitBound` (`SiteContent_proofs`) | The same simulation for two endpoints that share a limit.  The bound is not proved again: it is `QuotaBound` of the abstract module, instantiated and carried over by the refinement.  A slug is free from its check to its INSERT because every INSERT in between marks those who wait with the same slug (`raced`). |
| `DeletedProfilesAreClosed`, `FreeSlugsHoldOnTheSite`, `LinkQuotaOnTheSite`, `ProfileQuotaOnTheSite`, `LimitsOnTheSite` (`SiteContent_proofs`) | The same promises when both components run at once and users are deleted under them.  Nothing cascades, so a step of one component leaves the rows of the other (`ProfileStepKeepsOthers`).  A request that knows a deleted profile knew it before (`LateKnown`): each one starts with the owner check. |
| `PositionsOnTheSite`, `RenumberingOnTheSite`, `UpdatesOnTheSite` (`SiteContent_proofs`) | `OrderInv` again, on the whole site.  It needs no fact about profiles: the links of one that was deleted stay where they are, and the loops that number them go on as if it were there. |
| `CodesAndSecretTogether`, `BackupCodeReuse`, `AnswersAreKept` (`TwoFactor_proofs`) | While nothing could part them, the only request between the two statements of a change is one that will put secret and codes together (`HalvesInv`).  A batch that is not stored yet has no row, no match and no acceptance (`BatchesInv`), so what is stored is unmarked and unused; matches in flight are part of the sum that bounds acceptances (`UsesInv`); a change that met no other is the only one in flight and the secret is what it wrote (`AloneInv`). |
| `BatchedOnceInOrder`, `StopHandsOver` (`NotificationManager_proofs`) | Only one of the loop and Stop can hold a batch, because Stop flushes after the loop has gone (`ControlInv`); the rest is that moving the head of one sequence to the end of another keeps their concatenation. |
| `DeliveredOrTried` (`NotificationManager_proofs`) | A notice has one sender, which sends it once (`OnceInv`); a sender has failed no more often than all senders together (`TriedInv`); and the deliveries that follow or announce an error are bounded by the commands that failed (`ErrorsInv`), a sum over all notices that one step changes at one place. |
| `NextRunsAreEarliest`, `OneLoopAtATime`, `DispatchedOncePerSecond` (`Server_proofs`) | For any calendar at all (`CronAssumption` says only what type its tables have), what a search finds matches; and as long as its turns were even, it has skipped nothing that matches (`NothingSkipped`), jumps back included, so what it finds is the earliest.  For a single caller of Start and Stop the old loop is gone before a new one starts (`LoopsInv`), and nothing was dispatched after `lastFired` (`FiredInv`). |
| `DatabaseClosedLast`, `PidFileIsRight` (`Server_proofs`) | Where `main` is tells who can still come to the database (`ServerInv`): only a serving or stopping main listens, and past a drain that was not cut off no loop and no handler is left.  While nobody looked at the PID file during a change, at most one process changes it and then no server is up; a server that is up is the one it names (`PidFileInv`). |
| `FreeNamesHold`, `ResetReuseIsBounded`, `VerificationIsReachable`, `SessionsAreForTheEligible`, `ResetLinksAreKept` (`Accounts_proofs`) | `AccountsInv`: every job knows of its account what it has read, unless something outdated it since; what a registration found free is free unless another account was stored since (`ChecksInv`); a token is in one row of one table (`TokensInv`); the requests that carry a reset token are part of the sum that bounds its uses, and as long as it is in its row none of them has ended (`UsesInv`). |
| `InstallationIsInvariant`, `AdminWhenInitialized`, `DatabaseIsWhole`, `RotationBoundsArchives`, `ProgramIsWhole` (`Installation_proofs`) | Not only the database but every archive and every copy under way must be sound, since a restore may bring any of them back (`AdminInv`); a torn file has its cause recorded, a restore that was interrupted or that met another or a statement (`WholeUnlessInterrupted`, inductive with the types); of any commands that remove archives one has listed them last, and has left the limit and what others were writing (`RotationInv`); an update that met no other is alone with its download (`UpdateInv`). |
| `ShortTypes`, `ClicksCountFollowers`, `OwnersDeleteShortlinks`, `CountersAndLogAgree`, `PartsOfReportsAddUp`, `HourlyRowsAreExact` (`Serving_proofs`) | The difference of a counter, of the profile or of one link, and its events is what the requests between the two statements owe.  A short link's id is used once, and who deletes it has read its owner.  Two parts of a report differ by no more than the events of its period that came or went between its queries: each of them moves a part by at most one and the drift by one.  The clicks of the links that a summary shows are part of all clicks, and all of them when every link that was clicked is shown.  An hourly row that is sure belongs to an hour that is over, nobody is left who would add to it, and a deletion that reaches into the hour is past `cleaned`. |
| `ImportsAccount`, `PositionsStayApart` (`Serving_proofs`) | The request of an import alone writes its job, and knows what it has added: nothing before the profile, then as many links as it has counted (`ImportsInv`); a job left unfinished is charged to a failure, of the statement or of the process.  A request that moves the links of a profile is the only one, unless the profile is crossed (`OneMover`), so a new link comes behind all others, a link that was read is where it was, and the place of a deleted one stays free until the others move up (`PlacesInv`).  Every format but Linkstack's numbers its links 1, 2, ... (`PlansNumber`), and files that an export made do so, too. |
| `ServicesKeepQuota`, `ServicesLimitBound` (`Serving_proofs`) | Every profile but the first takes a request of its own, so the ids never run out (`QuotaInv`).  Each statement of a creation, a duplication or an import is an abstract check, blind check, insert or abandon, a deletion is a removal, a death of the process abandons every insert, and the rest stutters.  From these steps the bound follows again, in profiles, because an id has one row. |

What a bag counts and what a sum over a set comes to is proved by the least-number
principle: the smallest set for which the formula fails loses an element and no
longer fails.  It does not need the library's induction theorems, whose operator
parameters the provers cannot instantiate.

Only model-checked: all liveness (fairness and ENABLED are out of the proof system's
reach), and in which zones of `Calendar` every turn is even: in the four ordinary ones, so
that `NextRunIsEarliest` excuses nothing there, and in neither of the two odd ones
(`UnevenTurns` in `MCTimetable`, which TLC evaluates in the run `scheduler`).

## Known disagreements

Where the code does something else than a comment, a document or a message says.
The first is the run `cron_clock_back`; the others were met while modelling, and the
models contain them as the code has them.

* "next returns the earliest time strictly after" (`scheduler/cron.go:171`): in a zone
  west of UTC, such as the image's default `America/New_York`
  (`docker/Dockerfile:59`), `time.Date` resolves a repeated wall-clock hour to its
  first occurrence.  In the second one the jump by an hour leads back, again and
  again; the search holds the scheduler's mutex, so ticks, Stop, Shutdown and a start
  in that hour hang.  A western zone that skips midnight has the same at that hour.
  East of UTC a zone that skips midnight makes the search late: `AddDate`
  (`cron.go:186`) goes from 01:00 of that day to 01:00 of the next and misses what is due
  in its first hour; so does `Add(time.Hour)` (`cron.go:190`) where the clock moves by half
  an hour (`NextRunIsEarliestEverywhere`).
* "so processQueue() can acquire it without deadlocking" (`service/notifications.go:118`):
  Stop sends while it holds the mutex, and the loop may be waiting for it.  "Restart
  ticker with new delay" (`notifications.go:243`): a loop that already waits never
  sees the new ticker.  A mail server that falls silent after the dial
  (`smtp.go:256-325` sets no deadline) keeps the loop, or Stop, for ever.
* "invalid 2FA code" (`handler/auth_handlers.go:407`) is also the answer when the code
  was right, 2FA was enabled and only the backup codes could not be stored.
* "cascade will delete related data" (`handler/profile_handlers.go:367`,
  `handler/admin_handlers.go:149`): on no engine (see above); the links of a deleted
  profile and the profiles of a deleted user stay (`NoOrphanLinks`, `NoOrphanProfiles`).
* "newest first" and "keeps only the most recent N" (`service/backup.go`): names
  sort by time, and rotation removes from the wrong end, so the newest archives go.
  `docs/admin.md:126` says the last 4 are kept; the code keeps as many as
  `backup_retention_days` says, or 30.  The endpoint and the scheduled task for backups
  (`docs/installation.md:125`) write nothing.
* "Replace binary atomically" (`cli_ops.go:487`): the rename is, but two updates
  download to one name, and the second may empty what the first installs; hence the
  exception in `ProgramWhole`.
* A restore writes into the file that the server has open (`backup.go:368`), and nothing
  stops the server meanwhile: a statement in flight can tear what was restored.
* A restored `server.yml` is put below the data directory, where nobody reads it; a
  restore accepts a torn copy of the database, and in the middle of a setup form it
  can leave an initialized site without administrator (the exception `overtaken`).
* Setup never asks whether it is complete already, and a try with the same name
  after a failure half way is refused for ever.  It saves the configuration with
  the overrides of flags and environment in it; those are applied after
  validation, so a bad `--mode` that setup saved makes the next start fail.
* "Maximum links a single profile may contain", "Maximum profiles a single user may
  create" (`config/yaml.go:97-98`): creations that overlap exceed both, by exactly what
  `LinkLimitBound` and `ProfileLimitBound` allow.  A setting that cannot be read
  counts as its default.
* The server stops the scheduler first "so in-flight scheduled work ... wind down
  cleanly" (`server/server.go:104`): its loop is waited for, its runs are not.  Two
  callers that restart the scheduler in the middle of a Stop would hang that Stop;
  the server has one caller.
* An export of a profile made by POST /api/profiles or by duplication fails,
  because it scans columns that are NULL (`handler/import_export.go:136-138`); the
  header of an exported CSV file is refused by the importer; an import forgets
  `is_active`, and stores links with an empty `service_id`, which refers to no service.
* The clicks of a summary include those of deleted links and of all but the first 20,
  its list of links does not (`analytics_service.go:368-377`).  The retention cutoff is a
  moment (`analytics_service.go:433-437`), so an hour can be half deleted while its hourly
  row stays, and aggregating that hour again loses the first half.
* Hourly aggregation joins the events with the sessions and counts an event once for
  each session row; `TrackSession` checks before it inserts into a table without a
  UNIQUE index; a failed read of the retention setting deletes with 90 days;
  `analytics_enabled` is not read by the public handlers; an Android tablet is a
  "mobile" for the one and a "tablet" for the other.
* GET /api/v1/shortlinks/{code} always answers 400, a short link stores a user's id
  in `profile_id`, and the cleanup uses `datetime('now')`, which only SQLite knows.

## What is not modelled, and why

* Sessions (`server/session.go`), the per-user limiter and the maintenance middleware
  are not wired into the server.  The limiter by address is one map under one mutex
  with no step to interleave; a limit of 0 lets the first request through.
* The notification manager and the analytics service are not wired either, and are
  modelled as a caller would run them, since both are complete.
* Most methods of `store/sqlite_profile.go` are called by nobody: the handlers have
  statements of their own, which are the ones modelled.
* The service catalogue reads a table, and its import overwrites rows by key.
* Migrations run again at each start, and each is a list of CREATE ... IF NOT EXISTS.
* Rendering, i18n, PWA, swagger, GraphQL, the client, GeoIP, metrics and logging
  keep no state that the properties tell apart.  TOTP arithmetic, password hashing,
  encryption and token signatures are abstracted to right and wrong.  The Tor
  process, DNS and GitHub are outside the repository.
* VerifyDomain never gets past "no custom domain set", because no endpoint stores
  one.  In `Accounts` the second factor does not look at status and verification
  again, because `LoginWith2FA` does not; an account whose verification token
  expired stays unverified, because `ResendVerificationEmail` has no route.
* The limits on links and profiles fall back to 100 and 5 when their setting cannot be
  read.  The second migration stores these same values, so the failure is a case of its
  own only after an administrator has changed them; the services' fallback is modelled.
* A data race on a pointer or a flag (`nm.preferences`, `task.Enabled`) is the choice
  of the old or the new value.

## What could follow

A calendar whose hours have four quarters, to tell half-hour zones from quarter-hour
ones; lists of three ids in `link_edit`, once its state space allows them.
