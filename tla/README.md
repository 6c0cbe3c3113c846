# A TLA+ model of HostVim (Panelze)

HostVim is a hosting control panel. A Laravel application, the *panel*
(`src/panel`), keeps accounts, sites, backups and invoices in MySQL, runs jobs
from a database queue and commands from a scheduler, and drives one Go daemon
per server, the *engine* (`src/engine`), over HTTP. A React application, the
*frontend* (`src/frontend`), is what users see of it: pages that keep the
panel's answers in a query cache. A second Laravel application, the *store*
(`src/store`), sells hosting and has the panel set it up. A *landing* site with
the licence hub, a WHMCS module and installation scripts complete the
repository.

This directory holds TLA+ modules translated from that code, TLC
configurations that check them on small instances, and theorems about them that
TLAPS checks for every instance. Three kinds of subsystem are modelled:

* the long-lived protocols of the server: incremental site backups and their
  uploads, billing of a hosting order, orders of the store, package limits, cron
  executions, updates of the panel, installs of server packages;
* the pages of the frontend over the requests and jobs behind them: what a page
  shows, keeps and sends while answers come late, in another order or never, and
  while the user goes on to something else;
* what the handlers of those requests do to the rows, files and processes they
  share.

## Inventory

### Site backups

| part | state | operations | source |
|---|---|---|---|
| engine: archives | `backups.json` (one mutex), archive and `.snar` files, one goroutine per archive | queue, archive, fall back to full, fail, delete, restore, daemon restart | `engine/internal/panelmirror/store.go`, `engine/internal/backup/archive.go` |
| panel: backup requests | table `backups` (status, level, parent, base, engine id, paths) | store, run a schedule, retry, destroy, restore | `panel/app/Http/Controllers/Api/BackupController.php` |
| panel: job | the queue's table `jobs`, the model the job holds | `handle` (start, POST, seed, poll, finalize), `failed` | `panel/app/Jobs/RunBackupJob.php` |
| panel: scheduler | schedules | `backups:run-due`, `backups:reconcile-running`, `backups:prune` | `panel/app/Console/Commands/Backups*.php` |
| panel: destinations | `remote_path`, status `syncing` | upload, fetch, delete remote | `panel/app/Services/BackupStorageService.php` |

How they interact: a request or the scheduler inserts a row and dispatches a
job. The one queue worker takes the job, reads the row and its parent, and POSTs
to the engine, which stores a row `running`, starts a goroutine and answers at
once. The job stores the engine's id and paths (the seed) and polls the engine's
list. When it gives up after 1500 seconds, or dies, the reconciler, every two
minutes, ends the row from the engine's list. Requests and `backups:prune`
delete engine archives and rows meanwhile.

What is hard: every actor reads, decides and writes in separate steps and keeps
Eloquent models it read long ago. An incremental archive is worth something only
with the whole chain of archives below it, made one on the snapshot file of the
other, and the chain is known to the panel as pointers, to the engine as a path
sent in a request, and to neither in one place.

What makes it correct: a completed backup can be restored; the restore replays
an increment on exactly the archive it was made on; chains never dangle or
cycle; a row never names the files of another archive; every backup ends.

### Billing and provisioning (one hosting order)

| part | state | operations | source |
|---|---|---|---|
| orders | `orders.status` | `place`, cancel by an administrator | `panel/app/Services/Billing/OrderService.php`, `AdminBillingController.php` |
| invoices | status, due date, subscription | `createForOrder`, `createRenewal`, `markPaid`, `cancel` | `panel/app/Services/Billing/InvoiceService.php` |
| payments | none of their own | callbacks of gateways, mark-paid requests, all ending in `markPaid` | `panel/app/Services/Billing/InvoicePaymentService.php`, `AdminBillingController.php` |
| subscriptions | `service_status`, `next_due_at` | provision, `renew`, `suspend`, `unsuspend`, `terminate` | `panel/app/Services/Provisioning/ProvisioningService.php` |
| site | status at the engine and of the domain row | `setPanelStatus`, deletion | the same file, `SiteStatusService` |
| commands | the rows they loaded | `billing:generate-renewals`, `billing:dunning`, daily | `panel/app/Console/Commands/Billing*.php` |

How they interact: a payment marks an invoice paid in a transaction. The invoice
of a pending order has the order provisioned, which creates the subscription and
the site and ties the invoice to them; an invoice with a subscription renews it
and opens a suspended site. One command makes the next invoice some days before
the term ends; the other makes late invoices overdue, then suspends, then
terminates.

What is hard: `isPayable` is asked of a model loaded before the transaction, the
commands load everything before their loops, `cancel` decides and writes in two
statements, and no write has a condition on what is stored by then. What keeps
them apart is only the row lock MySQL takes at the first update.

What makes it correct: an order is provisioned once; a payment gives one cycle;
what is paid stays paid and is served; what is not paid is, in the end, switched
off, and not before the term is over.

### Background work of the server

| part | state | what is hard | what makes it correct | module |
|---|---|---|---|---|
| uploads of a finished backup (`RunBackupJob`, `BackupsReconcileRunningCommand`, `BackupController`) | `remote_file_id`, status `syncing`, files at the destination | job, reconciler and a request may upload the same backup; a process dies between upload and record | what is at the destination is what the row names; no backup stays `syncing` | `BackupUploads` |
| fulfilment of store orders (`store/app/Services/Panel`, `panel/app/Services/Integrations/StoreFulfillmentService.php`) | order status, unique job lock, claim, panel orders | jobs that die after their claim, late and lost answers, retries that write without a condition | one panel order per store order; what is shown as completed is there; a paid order comes to rest | `StoreOrders` |
| package limits (`HostingQuotaService`) | counted rows | count, call the engine, then insert | the overrun is bounded by the requests under way | `HostingQuota` |
| cron executions (`CronJobExecutor`, `RunDueCronJobsCommand`) | run rows, a cache lock, a mutex | schedule and "run now" meet; executors are killed | one execution of a job at a time; the log follows a run to its end | `CronRuns` |
| updates of the panel (`PanelUpdateService`, `RunPanelUpdateJob`, `deploy/host/panelze-panel-update`) | rows, flag file, lock file, `.env` | the job dies while its script goes on; reboots | one update at a time; a success shown is one; the card stops saying "updating" | `PanelUpdates` |
| installs of server packages (`StackController`, `RunStackInstallJob`) | rows, jobs | cancellation races the job; killed jobs | one script per package; what was told to stop never succeeds | `StackInstalls` |

### Pages

Every page is a set of queries (cached answers with a lifetime), mutations
(requests whose handlers change the cache and the page's state when the answer
comes, on whatever is shown by then) and local state that outlives what it was
opened for. What is hard is the same on all of them: an answer for one site finds
another one picked; a request the browser has given up goes on; two handlers each
undo a part of the other; a form keeps what was typed for something else.

| page | module | of its own |
|---|---|---|
| file manager | `FileEditor`, `FileTransfer`, `FileListing` | tabs and reads, uploads and pastes with conflicts, folder list, search, recycle bin |
| sign-in, impersonation | `PanelSession` | tokens, the auth store, the cached `/auth/me`, 401s |
| security | `SecurityPage` | the overview cached by the panel for a minute, polled forms, quarantine |
| installer | `Installer` | runs polled from a list that is all that refuses a second click |
| databases | `Databases` | paged list, passwords shown for thirty seconds, imports |
| backups | `BackupsPage` | optimistic rows, downloads and restores, files on Drive, schedules |
| settings of a domain | `QuickSettings` | vhost editor in a dialog that is never unmounted |
| domains | `DomainsPage` | a busy flag per control, the phrase of a deletion, reports |
| e-mail | `EmailPage` | mailboxes, forwarders, shown passwords |
| cron jobs | `CronPage` | one dialog for everything, quota, suggestions |
| plugins | `PluginsStore` | the menu's slugs, the migration wizard |
| assistant | `AiAdvisor` | sessions, messages, proposed actions, providers |
| certificates | `SslPage` | progress of a job, manual uploads, row, flag and installed file |
| Node.js | `NodeApp` | detections that run by themselves |
| two-factor | `TwoFactor` | pending secrets that run out, backup codes, drawings |
| DNS | `DnsPage` | zone files written from all records by requests and jobs |
| deployments | `DeployPage` | runs without a lock in one document root |
| PHP | `PhpSettings` | `php.ini` read and rewritten without a lock, nginx's limit |
| server packages | `StackInstalls` | above |
| monitoring | `MonitoringPage` | answers kept beside a refresh, gauges and charts of one sample, a pick that follows the list |
| outbound mail | `MailSettings` | rows written one by one, the cache every process configures its mail from, a wizard with jobs |

What is left out of the components, and the components that are not modelled,
are at the end of "Modules" and in `PROJECT.json`.

## Modules

| module | what it is |
|---|---|
| `EngineBackups` | the engine's archives: rows, goroutines, files |
| `BackupChain` | the panel over that engine: rows, queue, worker, reconciler, deletion; the specification `Spec` and `FairSpec` |
| `BackupLifecycle` | the abstract specification: what the subsystem promises about each backup |
| `BackupProperties` | the invariants, the liveness property and the refinement mapping |
| `Billing` | order, invoices, subscription, site; payers, commands, administrators; `Spec` and `FairSpec` |
| `HostingService` | the abstract specification: what billing promises a customer |
| `BillingProperties` | the properties and the refinement mapping |
| `StoreOrders`, `BackupUploads`, `HostingQuota`, `CronRuns`, `PanelUpdates`, `SecurityPage` | parts of the server, composed by `MCPanelServices` |
| `FileEditor`, `FileTransfer`, `FileListing`, `PanelSession` | the file manager and the session, composed by `MCPanelFiles` |
| the eighteen other pages | composed by `MCPanelPages` |
| `MCBackupChain`, `MCBilling`, `MCPanelFiles`, `MCPanelPages`, `MCPanelServices` | the instances for TLC |
| `BackupChainProofs` | theorems about the backups, with retries and without |
| `BillingProofs` | theorems about billing, with overlap and without |
| `PanelServicesProofs`, `PanelFilesProofs`, `PanelSitesProofs`, `PanelPagesProofs` | theorems about the parts, and about the compositions of `MCPanelServices` and `MCPanelPages` |

Names in a module of a page or a service begin with two letters of it (`Db`,
`db`), so that modules can be extended together.

### State and code: backups

* `archives[a]` is everything the engine has for one id: the entry of
  `backups.json` (`row`), the goroutine (`work`), what it was asked to build on
  (`want`, the `parent_snapshot` path) and what the archive's content really
  builds on (`on`), and whether the files exist (`disk`). Ids are numbers in the
  order they are handed out; the code uses nanoseconds.
* `backups[b]` is a row of the table. `file_path` and `snapshot_path` always
  come from one answer of the engine and are one field, `snap`;
  `engine_backup_id` is `eng`. Names, sizes, dates and the backup's type are
  left out; the level stands for what the type decides.
* `worker` is `RunBackupJob::handle` between two statements at which the rest of
  the system can be seen or changed: `post` (row and parent were read), `seed`
  (the answer is there), `poll`, `finish` (a final engine row was seen).
  `calls` counts the POSTs of `postLongChecked`.
* `reconcile` is the rest of the reconciler's loop: for each candidate the
  verdict of the engine list read at the start, and those fields of the model
  loaded at the start that decide what `update()` will write. Eloquent's
  `update()` writes only attributes that differ from the loaded model, and
  `JobSeed`, `JobFinish` and `ReconcileOne` do the same.
* `deleting[d]` is the rest of what a destroy request or a prune will delete.

Each action is one handler, or the part of a handler between two such points;
the comment at the action says which. `Job` and `Request` group them.

### State and code: billing

* `invoices[i]` and `subs[s]` are rows of the two tables with the columns that
  decide anything; an id not in use is a row `absent` or with service `none`.
  Amounts, currencies and gateways are left out. Invoice 1 is the one of the
  order (`OrderInvoice`), all others are renewals.
* `site` is the status of the site at the engine together with the domain row:
  `setPanelStatus` changes both or, when the engine fails, neither, and every
  caller catches the exception.
* `payers[p]` is a callback or request inside `markPaid`: `read` when its copy of
  the invoice has passed `isPayable`; `locked` when the transaction's first
  statement, the UPDATE of the invoice, holds the row. What the transaction
  reads after that is `order` and `seen`; the subscription is found by the
  `subscription_id` of the *copy*. A second payer of the same invoice, and the
  writes of dunning and of a cancellation, wait for the row (`Locked`).
  The first consistent read of a REPEATABLE READ transaction comes after the
  update, so it sees what the transaction it waited for has committed.
* `dunning` and `renewing` are the rest of the loops of the two commands: the
  models they loaded, not the rows. A chunk's invoices share one loaded model
  per subscription, which is why `dunning.service` is kept beside `todo` and
  changes as the loop goes on. `cancelling` is a request between check and write.
* Eloquent writes only attributes that differ from the model: `PayRenewal`
  writes the service only when the model did not already say active, and
  `DunningOne` writes `overdue` only for a model that says unpaid.
* Days are the unit of time. A due date is over on the next day; a command or a
  request takes less than a day (`NextDay` waits until nobody is at work), and
  commands may run in any order and any number of times a day.
* `Overlap` says whether requests and commands may be at work at the same time.
  With `Overlap = FALSE` the model is the system as its tests run it, one
  request or command at a time; the runs and theorems say which one they are
  about.

### State and code: services

* `StoreOrders`: `stStatus` is `panel_provision_status`; `stWork[w]` is a queue
  worker inside `FulfillPanelOrderJob` with the copy of the row it loaded,
  because `update()` writes only what differs from it (`StSave`). `stLock` is the
  job's unique lock, which expires (`StLockExpires`); `stCalls` are requests to
  the panel, each a look-up and an insert in two steps under a unique column.
  `stRetry` is `retry` by an administrator or by
  `panel:recover-stuck-provisions`. `stDropped` notes that the lock refused a
  dispatch no job replaced; liveness excepts that case and says so.
* `BackupUploads`: one row, three uploaders, one deletion, each with what it read
  before. A destination where every upload makes a file of its own (Google
  Drive) is the one on which a second upload shows. `upDoubled` notes an upload
  that nothing in the code keeps from being a second one.
* `HostingQuota`: `hqPassed` are the requests between check and row; `hqPeak` is
  the largest number of them so far.
* `CronRuns`: `crLock` names the run that holds the cache lock. A process ends or
  is timed out (180 s) before its lock expires (600 s), so only the lock of a
  killed executor expires.
* `PanelUpdates`: the job, the script it waits for, the flag, the lock file and
  the installed version are separate, and every read of the status reconciles
  first. "Ten minutes" and "ninety seconds" are the choice `old`, constrained by
  `PuOld` to runs of which it can be true.
* `SecurityPage`: a change, the panel's cached overview (with requests computing
  it), and the queries the page refreshes. Values are versions: what counts is
  whether what is shown is of before or after a change.

### State and code: pages

Every page module has the same shape. The server's rows are functions over small
sets of sites, jobs or ids; a request is a record in a set (`dbAsked`, `dmAsked`,
...) that holds what its closure captured. Carrying out a request and answering
it are two actions, as the user can act in between, and a lost answer is a third:
the browser gives up, or the page is left, and the request goes on. `fresh` on a
cached answer stands for `staleTime` not having passed and nothing having
invalidated it; a query that is stale is read when it is observed. A read that is
cancelled by an invalidation is dropped, as the query library drops it. `onSuccess`
and `onError` are translated as they are, including that they run with the state
of the render they were created in: keys of caches, the site picked, the dialog
open.

Some variables are history (`dmUnheard`, `slMet`, `naMissed`, ...). They note that
something happened for which the code keeps no promise: an answer that was lost, two
requests for one thing that met, an answer that came on another site. A property
that makes an exception names it in its comment, and the exception is as narrow
as the code allows: with the note replaced by FALSE, TLC shows the behaviour.

### How the parts are composed for TLC

`MCPanelFiles` and `MCPanelServices` extend parts that share no state; `part`
says which one works in a behaviour, and the others rest in one of their initial
states, so that state spaces add up instead of multiplying.

`MCPanelPages` has eighteen pages as instances. One page is open in a behaviour
(`open`). The pages take turns in eighteen variables: `v1` is the first variable of
the page that is open, and so on; those it has no use for are `none`
(`Rest9`...`Rest18`, `Left9`...`Left18`). `group` is the part of the page that is
in use: one of its groups of actions that share no state, or all of it (`"every"`).
`PagesInit`, `PagesNext` and `PagesSpec` say this for any sites and under
`PagesAssumption`; they are what the theorems are about. `MCInit` and `MCSpec` add
what only TLC needs: a page that has parts is entered in one of them, and where the
sites differ in name only the first is picked; and on four pages (plugins, PHP,
certificates, DNS) TLC does not go on from a state in which a page has noted two kinds of
the exceptions its properties make, or one of which nothing is left they do not excuse
(`MCBound`). The theorems have none of these restrictions. Pages of the panel share the server
and not each other's state, and what one page changes is, for another, a change
made elsewhere; where a page's module has such changes, they are actions of it.

### Steps the model merges

* `store` and `runSchedule` read the tip of the chain and insert the row in one
  step. If the parent is deleted in between the foreign key refuses the insert
  and nothing happens, so nothing is lost but a completed backup overtaking the
  read. Insert and dispatch are one step, too (see the hazards in
  `PROJECT.json`).
* `ReconcileList` reads engine list and table in one step. In the code the
  engine list is a moment older; a row seeded in that moment has no entry in the
  list and, being fresh, is left alone.
* `Destroy` loads the row and looks for dependents in one step; the deletion is
  in later ones. `PruneChain` takes one base at a time and evaluates the
  retention rule for it anew, where the command lists all bases first.
* Prune runs do not overlap each other in the code; in the model two deleters
  may both prune, which adds behaviours and removes none.
* `PayCommit` makes the writes of `markPaid`'s transaction at its commit, where
  the others can see them; the calls to the engine it makes before are part of
  the step. A worker that dies inside the transaction leaves it rolled back,
  which is `PayLock` not having happened, except for the engine's part.
* `Stop` and `SetSite` change the site and the subscription in one step, where
  the code calls the engine and saves the row after it. `RenewalsOne` looks up
  open invoices and inserts the new one in one step; there is one such command
  at a time.

### What is left out

Uploads (`destination_id` is null); `execute_backups = false`, a dry mode that
records rows without files; the `expires_at` rule of prune, because no code sets
`expires_at`; the age of the base in `backups:run-due` (both outcomes are always
possible); the quota check before a backup is stored; the limit of 200
candidates of a reconciler run. A restore changes the site and not this state:
it is the predicate `Restorable`, which says that the walk of
`Backup::restoreChain`, the checks of `BackupRestoreChain` and the replay by
`RestoreDomainChain` rebuild the site.

Of billing: invoices made by hand (`createManual`) and items other than one
hosting package; reminders and mail; the package assignment, quota, host name,
SSL and DNS work of a provisioning, of which only success or failure is kept;
gateways that renew subscriptions by themselves. One customer, one order.

Of the services and pages: the drivers of destinations, ACME, the scripts of
installers, deployments and package installs, the contents of generated files
(a configuration is the site or version it was made of); cloud and domain
products of the store; archives' contents and permissions in the file manager;
aliases, DKIM and webmail logins; exports and redirects; renewals of
certificates by schedule; password resets and profiles; the port allocator of
the engine; how a health score is computed; the diagnosis of an SMTP server.

Not modelled at all, with the reason: resellers, packages, licences and FTP
(request and response over single rows); the
engine's generation of web server, PHP-FPM and security configuration (pure I/O);
the landing site and its licence hub (content, signature checks); the WHMCS
module and the installation scripts (glue; what they install justifies one queue
worker and is where the update script comes from).

## Runs

### Backups

These runs are of `MCBackupChain`. Bounds: number of backup rows (`MaxBackup`) and
archives (`MaxArchive`), concurrent deleters, chains kept by prune (`Keep` = 1),
and how often a retry, a fault (worker crash, lost answer of a POST, engine
unreachable for a deletion or for the reconciler's list) and an engine restart
may happen. Three rows are a base, an increment and a second increment or a new
base, which is what it takes for a chain to be cut in the middle, for two
increments to have one parent and for prune to find an old chain; the fourth
archive is room for a POST that is sent twice or a retry. `CHECK_DEADLOCK FALSE`
everywhere: when the bounds are used up and every backup has ended the system is
at rest.

| run | rows / archives | deleters | retries / faults / restarts | states | checks |
|---|---|---|---|---|---|
| `chain_faults` | 3 / 4 | - | 0 / 1 / 1 | 264 000 | `TypeOK`, `CompletedIsRestorable`, `SnapshotSettled` |
| `chain_delete` | 3 / 3 | 1 | 0 / 0 / 1 | 1 010 000 | `IntactChainIsRestorable`, `IncrementSitsOnParent`, `ChainAcyclic`, `CompletedHasArchive`, `Lifecycle` |
| `chain_ends` | 2 / 2 | 1 | 1 / 1 / 0 | 188 000 | `BackupEnds` under `FairSpec`, `OneArchiveAtATime`, `PathsMatchEngineId` |
| `ends_restart` | 1 / 1 | - | 0 / 0 / 1 | violated | `BackupEnds` under `FairSpec` |

What they show:

* As long as nobody deletes, every completed backup can be restored, through
  worker crashes, resent POSTs, engine restarts and outages, and a goroutine
  never copies a snapshot file another tar is still writing. Nothing in the
  engine guarantees the latter; it follows from the panel, which takes a parent
  only when it is completed.
* With deletions, a backup whose parent pointers still reach a full backup can
  be restored; one whose chain was cut shows it, by a null parent above level 0.
  The whole implements `BackupLifecycle` under the mapping of
  `BackupProperties`: no finished backup becomes unfinished, and an increment is
  finished only on top of a backup that was finished.
* One retry does not make the engine work twice at a time for one backup. The
  resend of a POST whose answer was lost does, and so does a second retry: the first
  may be answered by the verdict about the attempt before it, which leaves a failed
  row whose archive is still being made. `OneArchiveAtATime` speaks of states with
  no fault and at most one retry.
* A retry together with a fault, or two retries, let the reconciler save a
  verdict about an attempt that is over: a failed row becomes completed while
  the engine works on its new archive. `CompletedIsRestorable`,
  `CompletedHasArchive`, `SnapshotSettled` and `IntactChainIsRestorable` fail then, and with two retries
  `IncrementSitsOnParent`, too: an increment ends up on an archive its parent no
  longer points at. They are checked and proved without
  retries for that reason.

One run shows where the code does not do what it says; `PROJECT.json` has the
quotation:

* `ends_restart`: after an engine restart the engine's row stays `running`, so
  the reconciler's rule for lost goroutines (no trace in the engine, six hours
  old) never applies and the backup stays `running`.

Two more weaknesses are visible in the model and are why the properties above are
worded as they are. `CompletedIsRestorable` is checked without deletions: an
increment stored between the dependents check of `destroy` and the deletion
completes without its chain (with deletions `IntactChainIsRestorable` is what
holds). And nothing says that a failed backup is over: a retry keeps the engine
id of the failed attempt, the reconciler reads that attempt's verdict, and the
row is shown as failed while the engine works for it.

### Billing

These runs are of `MCBilling`. A cycle is four days, and the days of
`due_days`, `renew_generate_days_before`, `suspend_after_days` and
`terminate_after_days` are in the order of their defaults but one to three days
long. The last day (`MaxDay`) lets a service be renewed early, late and not at
all: 8 and 9 days are two cycles, or one with its grace and termination. Three
invoices are the order's and two renewals. At `MaxInvoice` a renewal fails as an
insert does that throws, which the command only reports; `MaxSubscription` = 2
is there to see a second provisioning. Faults are engine calls and provisionings
that fail; interventions (`MaxAdmin`) are those of administrators.
`CHECK_DEADLOCK FALSE`, because the last day is the end of the model.

| run | overlap | payers | interventions / faults | states | checks |
|---|---|---|---|---|---|
| `billing_daily` | no | 1 | 2 / 1 | 310 000 | `TypeOK`, `OneOpenRenewal`, `DueAfterTerm`, `PaidStays`, `SuspendedWhenLapsed`, `KeepsPromise` |
| `billing_overlap` | yes | 2 | 0 / 0 | 200 000 | `ProvisionedOnce`, `ServedAsShown`, `UnpaidServiceStops` under `FairSpec`; no auto-termination |
| `double_callback` | yes | 2 | 0 / 0 | violated | `ExtendedByPayment` |

What they show:

* One at a time, requests and commands do what billing is for. Nobody owes two
  renewals of one service; an open renewal is due no earlier than the term it
  follows, so that dunning, which looks only at the invoice's date, takes no
  paid day away; and the whole implements `HostingService`, in which a payment
  for a service buys it a cycle, only a lapsed service is suspended, and only a
  payment moves the term. A failed provisioning, which is only reported, and a
  cancelled order are `PayInVain` there: money is taken for nothing, but only
  while there is no service.
* Whatever overlaps, an order is provisioned once. The row lock and the order of
  statements in `markPaid` see to it: the mutant `PayLockUnlocked`, which reads
  the order before it waits, provisions twice. The theorem covers interventions
  and faults, which this run leaves out.
* A service shown as active is served although dunning and payments work on old
  models, as long as the engine does what it is asked and nothing is terminated:
  a failure of the engine is only reported and never made up for.
* Dunning reaches every unpaid service although it works on loaded models.

One run shows where the code does not do what it says:

* `double_callback`: the second of two payers that loaded one unpaid invoice
  renews again; one invoice, two cycles.

The same model shows why `OneOpenRenewal`, `DueAfterTerm`, `PaidStays` and
`SuspendedWhenLapsed` are checked and proved for actors that do not overlap, and
`ServedAsShown` without termination: a renewal paid between the listing of
`generate-renewals` and its turn is followed by another invoice for the term just
paid; dunning makes an invoice paid in between overdue again, or suspends by its
loaded model; an open invoice of a terminated service can still be paid, and the
service is then shown active while its site stays off.

### The file manager and the session: `panel_files`

3.4 million states. Two sites, two folders, two names of which one is a folder and
the other the free name tried for a copy; two uploads or pastes at a time and one
after the other; two reads and texts; pages of one row, so that a listing has a
second page; three tokens, one poll. That is enough for an operation to be
overtaken by another site, another folder and another operation of its kind.
Checked:

* `OwnText`: whatever is opened, edited, saved alone or with all others and closed
  while reads and writes are in flight, a text is written to the file it was typed
  for. `CalmTabs`: in a session that edits nothing during a save the marks of the
  tabs are true and a tab that says "loading" is.
* `OneUploadRun`: one run sends files at a time. `WaitingKeepsItems`, a property of
  steps: for a user who waits for one operation before the next, what is stored at
  a place goes only when that place was given up, by a cut or by an answer in a
  dialog.
* `ListingTrue`: the rows, ticks, search hits and bin shown are of the folder and
  site shown, and a fresh listing is the server's.
* `ShownIsSignedIn`: the account shown owns the token requests carry, unless the
  account changed within one page load while an answer for the other was kept.

### The pages: `panel_pages`

6 million states; two sites (and a subdomain where it matters), two requests at
a time (`MaxAsks`), two jobs or runs (`MaxRuns`), three operations or passwords
(`MaxMade`). Two requests are what it takes for answers to come in another order
and for a second thing to be picked in between; the third password is one that
replaces one on show. Where the two sites would only change names the page starts
on the first; on the monitoring page the other one may be deleted. `MCBound` ends the
search where a page has met two kinds of exceptions. Each property joins what it says of
each page; the parts are defined, with their exceptions, in the pages' modules:

| property | parts |
|---|---|
| `ListsAreTrue` | `DbListTrue`, `NoGhostRow`, `SwitchIsTrue`, `DomainsListTrue`, `MailListTrue`, `CronListTrue`, `PluginsListTrue`, `ChatListTrue`, `CertListTrue`, `AppConfigTrue`, `TwoFactorStatusTrue`, `DnsListTrue`, `DeployConfigTrue`, `IniShownTrue`, `ChartsEndAtGauges`, `MailSettingsTrue` |
| `ShownIsOfPicked` | `RootOfPicked`, `FilesOfPicked`, `ReportOfSite`, `SuggestionsOfSite`, `ShownSessionIsThere`, `OutputOfPicked`, `HealthOfPicked` |
| `FormsKeepTheirOwn` | `AddNeverOverwrites`, `SavedToOwnSite`, `AppliedToOwnSite`, `PhraseForThisDomain`, `TypedForThisMailbox`, `SavedToOwnJob`, `MigratesOwnSource`, `UploadedToOwnSite`, `SavedToOwnApp`, `DeploysOwnRepository`, `SavedToOwnVersion` |
| `OneAtATime` | `OneInstall`, `OneImport`, `OneOperation`, `OneIssue`, `BusyIsUnderWay`, `OneMessageAtATime`, `BarIsHonest`, `OneScriptPerBundle`, `OneSync` |
| `ShownSecretsWork` | `RevealedWorks`, `ShownPasswordWorks`, `ShownCodesWork`, `ShownSecretIsChecked`, `AuthenticatorWorks` |
| `RowsAreTrue` | `OneDefaultProvider`, `FlaggedIsServed`, `ZonesAreServed`, `LiveIsRecorded`, `ToldNeverSucceeds`, `MailCacheTrue`, `MailRecordsOnce` |

Some of what the code of these pages does is not asked for by any comment or test, and
is therefore not a finding, but it is why the parts are worded as they are:

* Monitoring: picking "Global" in the health select goes back to the first site
  (`useAutoDomainId`). A background refresh of a site that was deleted stores the
  account's payload under the site's key. An engine that does not answer is shown
  as one without load: the empty answer is kept for twenty seconds, and the
  charts get a sample of zeros.
* Outbound mail: the rows are written one by one without a transaction, the cache
  is forgotten last. A process that had read the rows before keeps what it read,
  for up to 300 seconds (`mlLate`). What was typed and not saved is overwritten by
  the refill after a save. The wizard adds records for the domain in the input field,
  though those shown may be of another. Adding records and setting up the stack can
  overlap, both look before they create, and a record is there twice (`mlCrossed`).

`vhost_reload`, of the same instance, violates `VhostShowsDisk`: after a save, a
swap with the previous version or a regeneration the vhost editor of the domain
settings is filled at once from the cached answer of before, and shows that as
the file on disk.

### Services: `panel_services`

714 000 states. Two workers, two requests to the panel, three callbacks or
retries and one fault of the store; three uploads and two faults; four names,
three requests and a limit of two; three cron runs and one kill; three updates
and two faults; two changes under the cached overview. Checked: `OnePanelOrder`,
`SuccessIsTrue` (`CompletedIsThere`, `UpdateShownIsInstalled`), `UploadsKnown`,
`OverrunBounded`, `OneAtWork` (`OneExecution`, `OneUpdate`), `SecurityIsTrue`
(`SecurityShownTrue`, `TickedIsListed`), `PollKeepsTyped` (a step of a poll never
empties a form that was typed in), and under fairness `WorkEnds`: a paid order
comes to rest, and as completed if the panel has it; no backup stays `syncing`;
the cron log follows its run to the end; the panel stops saying "updating"
although the job is killed; the overview catches up.

`update_reboot`, of the same instance, violates `UpdateEnds`: after a reboot, or a
job killed before its script began, nobody removes the flag file, and the
reconciler returns before it looks at the run. `WorkEnds` excepts this case by
`PuCutOff`.

What these runs say beyond "it holds" is in the mutants of `PROJECT.json`: for
nearly every part of the joined properties there is a one-line change of the code
(a cache not invalidated, a flag per kind and not per row, a guard that asks only
about the own runs, a form not reset) that TLC finds violated.

### Fairness

In `BackupChain`, `FairSpec` assumes weak fairness of the job's own steps
(systemd restarts the worker,
`deploy/bootstrap/install-production.sh:1022-1034`, and the queue has one
worker), of `failed()` for a lost job (the reservation expires after 90
seconds), of the reconciler with a reachable engine (every two minutes), of its
loop, of a deletion once begun, and of the goroutines (`BackupMaxSeconds` bounds
tar). No fairness is assumed of requests, crashes, lost answers, outages or
restarts. In `chain_ends` the engine does not restart, because of
`ends_restart`. `StaleFor6Hours` turns the six hours of the reconciler into the
order of events they stand for: longer than any job, reservation or goroutine.

In `Billing`, `FairSpec` assumes weak fairness of the daily dunning run and of its
loop (`panel/bootstrap/app.php` schedules it), of a payer that has begun its
transaction, and of the write of a cancellation. Nobody has to pay, to renew, or
to end a day.

In `MCPanelServices`, every part keeps its own fairness; one part works in a
behaviour, so the conditions of several share a line. Of `StoreOrders`: workers go
on, the panel answers or refuses, time passes, the recovery command is scheduled
every five minutes. Of `BackupUploads`: the reconciler every two minutes, uploads
end. Of `CronRuns`: a process ends or is timed out; the dialog's query polls, as its
window is visible while it is open. Of `PanelUpdates`: the job and its script go on
(the script is stopped after an hour), the request is answered, the page polls. Of
`SecurityPage`: the minute of the cache passes, requests are computed, the page
polls. Nothing is assumed of users, faults or kills. The pages of `MCPanelPages`
have no liveness property and no fairness: they may be closed at any time.

## Proofs

TLAPS proves the theorems below for every value of the constants their assumptions
allow (numbers; `Keep`, `Cycle`, `MaxInvoice` and `MaxSubscription` positive;
`Overlap` and `AutoTerminate` Boolean; providers without repetition). A theorem
that needs more says so: some do not hold with retries, with overlap or with
deletions, for the reasons given with the runs. Every inductive invariant was checked with TLC
before it was proved. Where a proof failed for a good reason the model was at fault,
and was corrected (at the end of this section).

### Backups

* `TypeCorrect`: `Spec => []TypeOK`. The inductive invariant `TypeInv` adds that
  a busy worker holds an id, that it has an archive once the POST was answered,
  that at most one POST was sent while it still sends, and that a verdict
  "completed" names an archive; without them the record updates could leave
  their sets.
* `ChainsAreAcyclic`: `Spec => []ChainAcyclic`, and `PathsBelongToEngineId`:
  `Spec => []PathsMatchEngineId`. Both come from `LinkInv`: ids in use were
  handed out (so a new row is younger than its parent); a worker that polls
  holds the archive its row points at; a verdict's paths are those of its
  archive. `RowWrite` is the lemma all writes go through.

* `ArchivesAreMadeOneByOne`: `Spec => []OneArchiveAtATime`, for every number of
  retries and faults the constants allow; the property speaks of the states with no
  fault yet and at most one retry, since after more TLC shows two goroutines of a backup.
  `OneInv` adds that a goroutine ends with its archive (`GoroutinesEnd`), that what the
  worker polls was handed out to it (`HandedOut`, `OwnArchives`), that a backup is queued
  once, not while a worker is about to POST for it, and that nothing of it is being made
  then (`PostsApart`); and that before the first retry a waiting backup has no
  archive and no verdict, and one that failed, or is about to, is no longer archived
  (`FirstAttempt`). In the model the engine refuses no second POST: the
  panel's queue alone keeps two archives of a backup apart.

If `MaxRetry = 0` (with a retry and a fault, TLC shows all of these violated):

* `RestoreReplaysRightArchive`: `Spec => []IncrementSitsOnParent`. `SitInv` says that
  jobs run in the order of the ids and a backup not yet seeded has no archive; that a
  parent has one, which therefore never changes; that a snapshot path on its way to
  the engine is the parent's; and that an archive is made on what was asked for or on
  nothing. Most steps only lose pointers (`RowsOnlyLose`) and keep requests
  (`WantsKept`), and one lemma, `NoJobProgress`, covers them all.
* `CompletedBackupsHaveArchives`: `Spec => []CompletedHasArchive`;
  `CopiedSnapshotsAreSettled`: `Spec => []SnapshotSettled`. Their invariant `DoneInv`
  follows a finished archive on its way into a row: the engine records a result only
  with the end of the goroutine (`EngineClean`), what an increment is made on is a
  settled archive of an older, completed backup (`WantsBase`), and the row, the worker, the queue, the lost job and the
  reconciler's verdicts each say "completed" only of a finished archive (`RowsDone`,
  `WorkerDone`, `QueueDone`, `LostDone`, `VerdictsDone`).
* `ImplementsLifecycle`: `Spec => Lifecycle`, the refinement of `BackupLifecycle`:
  initial states map to initial states and each action to a step or a stutter.
* `IntactChainsAreRestorable`: `Spec => []IntactChainIsRestorable`, with any number
  of deleters. `RestInv` adds what the replay looks at: files of a finished archive are
  there until a deletion whose owner is the row takes them (`EngineWhole`,
  `VictimsOwn`, `DeletedWithOwner`), and levels agree along the chain (`WorkerLevel`,
  `LevelsAgree`). `restoreChain` is a recursive function of the pointers; the
  library's induction theorems cannot be instantiated here, so the walk is followed
  with sets of naturals and their least elements (`LeastNumber`, `WalkIsThere`,
  `ChainUnfolds`, `ChainIsDone`).
* `CompletedBackupsAreRestorable`: if nobody deletes (`Deleters = {}`), too,
  `Spec => []CompletedIsRestorable`. With a deleter it is violated by an increment
  that begins between the count of dependents and the deletion.

### Billing

* `BillingTypes`: `Spec => []TypeOK`, which is inductive by itself.
* `OrderProvisionedOnce`: `Spec => []ProvisionedOnce`, with overlap, any number of
  payers and any number of faults. `OnceInv` says that two payers never hold one
  invoice (`LockIsExclusive`), that a payer that read a pending order holds the
  order's invoice and nothing is provisioned while it does (`PendingIsLocked`),
  and that a pending order has no subscription (`PendingIsUnprovisioned`).
  Without the lock the second fails at once.
* `ActiveIsServed`: with automatic termination off (its default,
  `panel/app/Services/Billing/BillingSettings.php:34`) and for as long as nobody
  intervenes and no call fails, `Spec => []ServedAsShown`, with overlap. `ServedInv`
  adds that invoices and copies refer to subscriptions that were made
  (`RefersToMade`), that a made one is shown (`MadeIsShown`), and that the site is
  off only when the service is suspended (`SiteFollows`).
* If `~Overlap`: `SequentialOneOpenRenewal`, `SequentialDueAfterTerm`,
  `SequentialPaidStays` and `SequentialSuspendedWhenLapsed`. `SeqInv` says that
  at most one actor is at work (`OneAtATime`), that what it loaded is still what
  the tables hold, and that ids not handed out are empty (`FutureIsEmpty`); the
  lemma `OpenShrinks` covers all steps that only close invoices. With overlap
  the last two fail: dunning then works on models a payment has made old.
* `BillingKeepsPromise`: if `~Overlap`, `Spec => KeepsPromise`, the refinement of
  `HostingService`. `PromiseInv` ties the order's status to its invoice and to the
  subscription the invoices name (`LockedIsFresh`, `ServiceIsFresh`, `OnlyOrderIsBare`,
  `OrderIsFirst`, `ProvisionedIsThere`); the cycles paid are a cardinality of a set
  of invoices.

### Services

* `OneOrderPerStoreOrder`: `StSpec => []OnePanelOrder`, and
  `CompletedOrdersAreThere`: `StSpec => []CompletedIsThere`, for every number of
  workers, requests, retries and faults. `StInv` adds that an answered request means
  an order in the panel (`AnswerIsThere`) and that a worker that has posted names
  its request. Neither the job's unique lock nor the claim is used: the unique
  column alone decides.
* `UploadsAreKnown`: `UpSpec => []UploadsKnown`. `UpInv` accounts for the files at
  the destination at every step of an upload and of a deletion (`UpAccounted`),
  as long as one uploader is at work and none beside a deletion (`UpAlone`).
* `OneExecutionAtATime`: `CrSpec => []OneExecution`. `CrInv` adds that the lock names
  a run that was begun and that runs to come have no row.
* `QuotaOverrunBounded`: `HqSpec => []OverrunBounded`, for every limit. `QuotaInv`
  says that from the moment the limit is reached rows and passed requests only
  shrink together; the cardinalities are those of finite sets
  (`HqAssumption`).
* `OneUpdateAtATime`: `PuSpec => []OneUpdate`, and `ShownUpdateIsInstalled`:
  `PuSpec => []UpdateShownIsInstalled`. `PuInv` says that at most one run is
  live whatever request, job, script, reconciler and reboot do (`PuOneLive`), that
  rows are used in their order (`PuUsed`), and what a success has left behind
  (`PuSuccess`).
* Over all of them together (`ServicesSpec`): `WorkIsSingle`
  (`[]OneAtWork`), `SuccessesAreTrue` (`[]SuccessIsTrue`), `SecurityPageIsTrue`
  (`[]SecurityIsTrue`) and `TypedOutlivesPolls` (`PollKeepsTyped`, an action property).
  `ServicesInv` joins the invariants of the parts.

### File manager and session

* `ShownAccountIsSignedIn`: `PsSpec => []ShownIsSignedIn`, for any number of tokens,
  requests and impersonations (`SessionInv`).
* `ListingIsTrue`: `FlSpec => []ListingTrue`, for any sites, folders and names
  (`ListingInv`).
* `UploadsOneAtATime`: `FtSpec => []OneUploadRun`. `UploadInv` adds that a
  comparison of names under way has the busy flag and no run beside it; the rest of
  the file manager leaves these variables alone (`UploadElsewhere`).
* `ItemsOutliveTransfers`: `FtSpec => WaitingKeepsItems`, an action property.
  `TransferInv` says what a waiting user's dialogs, runs and clipboard agree with, and
  the clipboard holds only what was known to be there (`FtClipKnown`).
* `TextsStayWithTheirFiles`: `EdSpec => []OwnText` (`OwnInv`), for any number of tabs,
  reads and saves; `CalmTabsTellTheTruth`: `EdSpec => []CalmTabs` (`CalmInv`).

### Pages

These theorems are about `PagesSpec`: any number of sites, jobs, requests and
answers, and whole pages, where TLC takes the parts of a page separately. All that
`panel_pages` checks are theorems; `VhostShowsDisk` is the property `vhost_reload` shows
violated. The invariants of the pages stand at the end
of their modules (`InInv`, `DbInv`, `BkInv`, `QsInv`, `DmInv`, `EmInv`, `CnInv`,
`PlInv`, `AiInv`, `SlInv`, `NaInv`, `TfInv`, `DnInv`, `SkInv`, `DpInv`, `PhInv`,
`MoInv`, `MlInv`), `PagesInv` joins them (`PanelSitesProofs` has the first ten pages, `PanelPagesProofs`,
which extends it, the others and the theorems), and `PagesStep` shows that the actions of
the page that is open keep its own. Most have the same shape: what is cached and not
stale, and what an answer on its way carries, is what the server has unless a request
that changes it is on its way (`...Leads`), and a form or a request remembers the item it is
for (`...Own`).

* `RowsTellTheTruth`: `PagesSpec => []RowsAreTrue`. Of the assistant, at most one provider
  is the default once saves are over, however they crossed; of certificates, a site that
  is flagged serves one, unless two requests for it met; of DNS, the name server has
  the records unless a sync is under way or owed; of deployments, the commit in the
  document root is the one of the last run that succeeded, unless two runs met; of packages, an install told to stop does not
  succeed; of outbound mail, what is kept is what is saved unless a save is about to
  forget it, and a suggested record is there once.
* `SecretsOnShowWork`: `PagesSpec => []ShownSecretsWork`. A password on show is the one
  in force: one request at a time can change it and none while it is shown, unless
  two crossed, which is noted; for two-factor, the picture, the pending secret and
  the codes follow the one request that is under way.
* `ListsTellTheTruth`: `PagesSpec => []ListsAreTrue`. A list that no request is about to
  change and no reading is about to replace shows what the server has, and the charts of
  the load end at the last sample read. The
  invariants also follow what is not settled yet: a reading answered before a
  save makes the list stale again (`MlReadsAgain`), and an optimistic row is in a list
  only while its creation is awaited (`BkGhostsAreAwaited`).
* `PagesShowThePicked`: `PagesSpec => []ShownIsOfPicked`. Every answer is
  kept under the key it was asked with, so an invariant per cache suffices
  (`BkFilesOwn`, `CnFoundOwn`, `MoOwn`, `DmReportsOwn`); for pages that keep one answer only,
  the last request is the one that is heeded (`InLatestOnly`, `NaOutIsOfLast`).
* `FormsSendTheirOwn`: `PagesSpec => []FormsKeepTheirOwn`. What a form holds was typed, or
  read, for the item its dialog is open for, until it is saved there (`CnFormIsOfDialog`,
  `BkAddsAnew`, `QsPickIsOwn`, `PlFilledIn`, `PhFormsAreOwn`, `NaFormIsOwn`, `EmTypedForOne`).
* `WorkDoesNotOverlap`: `PagesSpec => []OneAtATime`. A button is off from the click
  to the answer, and a job keeps it off until it is seen to have ended (`InInTurn`,
  `BkOneAfterAnother`, `QsIssueOnce`, `DmOneEach`, `PhSyncIsFollowed`, `SlOneEach`).

### Only model-checked

Every invariant the passing runs check is a theorem, and so are the action properties
and refinements. What is left to TLC is liveness (`BackupEnds`, `UnpaidServiceStops`,
`WorkEnds`), which is out of the provers' reach, and the counterexamples of the runs that
expect a violation.

### What the proofs changed in the model

* `PanelUpdates`: a row can be ten minutes old (`PuOld`) only if its job or its script
  has died; the model had allowed it of others, too.
* `FileListing`: `flBinAsked` holds a set of reads, as each opening of the bin asks
  anew, and the answer names the folder shown when it comes.
* `FileEditor`: a calm session has one tab; a second one comes by a file being created
  and can lose its mark. The tabs' helpers (`EdNth`, `EdOnly`) are written without
  `SelectSeq`.
* `PanelSession` states what its tokens have to be (`PsAssumption`).
* `BackupProperties`: `OneArchiveAtATime` had allowed for faults and not for a second
  retry. `restoreChain` is a recursive function and not an operator.
* `Databases`, `DeployPage`: free ids, rows after a change and the latest run are
  functions of what is there and do not depend on bounds.
* `MCPanelPages`: the specification is separated from the reductions made for TLC, and
  `PagesAssumption` says of `none` and of the bounds what the pages need: it is no site and
  no value a page shows in place of one, and at least one operation may be made.
* `DomainsPage`: `dmRead` is the set of the answers on their way (one at most), so that
  an answer without rows is told from none whatever `none` is.
* `PhpSettings`: the answer about the modules carries their switches only
  (`PhSwitches`), not the directives of the same version.
* `MonitoringPage`: a visit begins its charts with the sample that is kept, if there is
  one (`MoVisit`), said without an enumeration of a set.

## Plan

Done since the first version: uploads (planned as `BackupSync`), the fulfilment of
store orders, cron executions, package limits, panel updates, package installs, the
pages with monitoring and outbound mail, and all theorems that were planned. Left, in
this order:

1. Billing: a domain item beside the hosting item, so that one of two provisionings
   may fail.
2. Cloud and domain orders of the store, whose providers answer asynchronously.
