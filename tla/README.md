# DocAssistant: models and proofs

DocAssistant is a document assistant for organizations: a FastAPI backend with
PostgreSQL, an object store, Celery workers on Redis and a React client. This
directory holds TLA+ models of it, the TLC configurations that check them and
proofs of their main properties for all instances. `PROJECT.json` is the index:
it maps definitions to source lines (`map`) and lists runs, mutants, findings,
hazards and theorems. Paths below are relative to `src/backend/app/` unless they
start with `src/`.

    tlc -config MCBilling_all.cfg MCBilling       # one run
    tlapm BillingProofs.tla                       # one proof module

## 1. The system

Each HTTP request has an `AsyncSession` of its own; it gives up control at every
`await`, several API processes may serve the same organization, and PostgreSQL
runs the transactions READ COMMITTED. There is no locking in the services
(`SELECT ... FOR UPDATE`, version columns) and few unique constraints, so almost
every read-then-write of the code is a hazard. The ORM loads a row, changes it
in memory and writes **only the columns that differ from what it has loaded**;
all models are built on that.

| Component | State | Operations | Interacts with | What makes it correct | Module |
|---|---|---|---|---|---|
| Documents (`services/documents.py`, `workers/document_tasks.py`) | `Document`, `DocumentChunk` rows, files in the store, Celery messages | upload under quota, process, delete | quota, storage, broker, activity log | quota, no leaked or lost file, chunks exactly for READY documents, nothing stays in processing | `Documents`, `DocumentLife` |
| Chunking and text extraction (`utils/chunking.py`, `text_extractor.py`, `file_validator.py`) | local variables | check a file, extract its text, cut it | documents | what is accepted can be processed; all text is in a chunk of its page | `Intake`, `Chunking` |
| Billing (`services/billing.py`, `billing/gateway.py`) | `Subscription`, `Organization.plan`, `WebhookEvent` | webhook, daily `reconcile`, checkout | payment provider, quotas | events take effect once, the plan follows the subscription, a canceled subscription ends on Free | `Billing` |
| Sessions (`services/auth.py`) | `RefreshToken`, `PasswordResetToken`, the password | login, rotate, logout, forgot, reset | web client | a token works once; a reset and a detected reuse close every session | `Sessions` |
| Web client session (`src/frontend/src/lib/api-client.ts`, `stores/authStore.ts`) | tokens in the memory of each tab and in the local storage, the refresh in flight | sign in, call, refresh on 401, log out, load | sessions | one refresh for all calls, never taken for a thief, logout is final | `ApiClient` |
| Lockout (`services/auth.py`) | `failed_login_attempts`, `locked_until` | login | | guessing is locked out | `Lockout` |
| Accounts (`services/auth.py`, `services/slug.py`) | `User`, `Organization`, verification tokens, `totp_secret`, `totp_enabled` | register, verify the address, set up the second factor | mail, notifications | one account, organization and slug each; a second factor that is on has been confirmed | `Accounts` |
| Organizations (`services/organization.py`, `services/gdpr.py`) | `Organization`, `Membership`, `Invitation` | invite, accept, change role, remove, delete account | every request's role check | an owner remains, only owners make owners, an invitation works once | `Membership` |
| Activity log (`core/audit.py`, `services/activity.py`) | `ActivityLog`, chained by HMAC | `log`, `verify_chain` | documents, shares, comments, exports | tampering shows, an untouched log is valid | `AuditChain` |
| AI jobs and usage (`services/ai_features.py`, `usage.py`, `quota.py`, `workers/ai_tasks.py`) | `AIJob`, `UsageRecord`, Celery messages | create, run, delete, record usage, check quota | cache, provider, broker | the month's limits, every answer counted once, every job ends, a finished job is not run again | `AiJobs` |
| AI prompts and results (`services/ai_features.py`, `ai/json_output.py`, `exports/`) | none (pure) | build a prompt, read an answer, build and render an export | AI jobs, exports | an answer is usable whatever the model says; an export shows all of it | `AiContent` |
| Chat (`services/ai_chat.py`) | `Conversation`, `ChatMessage` | chat, stream | cache, provider, usage | the same limits and counters | in `AiJobs`, `ActiveModel` |
| Model settings, cache (`services/app_settings.py`, `ai/provider.py`, `ai/cache.py`) | `AppSetting.version`, provider per process, answers | choose model, answer | AI jobs, chat | answers come from the model that was chosen, in every process and from the cache | `ActiveModel` |
| Model discovery (`ai/registry.py`, `api/v1/models.py`) | a folder, an Ollama server | discover, import, choose, build a provider | model settings | no other model answers in the place of the chosen one | `Registry` |
| Reindexing (`services/reindex.py`) | `DocumentChunk.embedding` | page through and embed, show status | documents | every chunk is re-embedded | `Reindex` |
| Exports (`services/exports.py`, `workers/export_tasks.py`) | `ExportJob`, files | create, run, read | AI jobs, storage, Celery | DONE means the file is there; an export ends | `Exports` |
| Sharing (`services/sharing.py`, `api/v1/shares.py`) | `ShareLink`, signed addresses | create, revoke, resolve, count, download | documents, activity log | a revoked or expired link opens nothing; accesses are counted | `Sharing` |
| Account erasure (`services/gdpr.py`) | rows of all tables, files | delete account | membership, documents, exports, shares, activity log | nothing of the organization remains, or nothing was deleted | `Workspace` (rows and files), `Membership` (members) |
| Rate limiting (`core/ratelimit.py`) | counters per window | `hit`, 429 | every request | limit per window | `RateLimit` |
| Dashboard (`services/dashboard.py`) | none; several queries for one page | `org_stats` | documents, jobs | the numbers agree and no day is counted wrongly | `Dashboard` |
| Comments, notifications, mail, migrations | single rows | | | | what touches the above only (section 6) |
| Web application, configuration, user interface, deployment | none that lasts | | | | not modelled |

The behaviours that are hard: requests that overlap between a check and the
write that relies on it (quota, last owner, latest signature, live tokens,
subscription, second factor, counters of views); the store and the database,
written one after the other; a helper that commits in the middle of its caller's
transaction (`get_subscription`); events and Celery messages delivered late, twice
or not at all; a browser that shares one token among tabs; paging through a table
that changes; processes that die between two of these steps. `PROJECT.json` lists
each one at its line.

## 2. The modules

**Common form.** An action is one database transaction, one call of another
service, or the part of a request between two queries whose answers another
request can change. A request in progress is a record (`proc`, `tx`, `req`,
`call`, `visit`) with a label and what it has read; requests that fail are rolled
back and end. Where a promise of the code holds only as long as requests do not
overlap, the module has a history variable `overlapped` (`raced` in `AiJobs` and
`ActiveModel`, `twofold` in `Accounts`, `crowded` in `Sharing`, `mixed` in
`ApiClient`, where only what matters to the property must not overlap), set for
ever once two have met, and the property is `~overlapped => P` (`Serial...`); such
a property still covers every order of the operations, crashes between two of their
steps, late and repeated events and expiry. Where overlapping breaks what the
source promises, section 4 says so. History variables appear in no guard, but for
the counters that bound an instance (`mishaps`, `restarts`, `moves`, `opened`,
`secrets`, deaths and redeliveries).

**Documents** (with **DocumentLife**). `upload_document` in the order of the
code: the two quota queries, the file, the row, the hand-over (inline or to
Celery, `eager`); `process_document` with its early commits and its `except`
block; `delete_document` with the file first and the row second. `seen` is the
status that a session has loaded, since a status equal to it is not written.
`Abort` is a death or a lost service at any label; `Redeliver` is the broker's
visibility timeout. `DocumentLife` is what the owner of a document is promised;
`KeepsLife` is the refinement, with `life` computed from status and upload and
`searchable` the stored chunks. Activity logging after the commits is left out
(its failure changes no document). Extraction, chunking and embedding are one
step that ends in chunks or failure; what is in it is in `Intake`.

**Intake** (over **Chunking**). One file through `detect_type` and the checks on
size and kind, `extract` for its type, and `chunk_pages`, one turn of the loop at a
time. A file is its extension, its signature, the folders of its archive and
whether it decodes and opens; its body is pages of lines of cells. A line
stands in the text, in a table or aside (headers and text boxes, groups and charts),
and each extractor looks at some of these places only (`PlacesRead`). Processing can
fail in extraction, for want of embeddings, and in the database, which stores no NUL
in a text. `Chunking` works on texts as sequences of characters, of which it tells
apart the space, other blanks and the rest. How the libraries read bytes is external,
and so is the embedder, taken to give a vector for each chunk
(`services/documents.py:31` would drop chunks without one).

**Billing.** A transaction `tx` keeps the loaded and the changed subscription;
`Commit` merges the changed columns and writes the plan it has computed. A
changed row is locked from flush to commit (`Locked`). `Receive` inserts the
event's log row and stops at a duplicate; `ResolveAndCreate` is the `commit` inside
`get_subscription`, which also commits the log row. A change has a `flaw` when some
part of its object makes `_apply_event` raise; `FailToResolve` and `FailToApply` are
the `except` block, which commits the log row with its error and the columns set until
then (`Halfway`), without `_sync_org_plan`. `reconcile` asks the provider or, when it
gives no answer, goes by what the row says (`ReconcileLocal`); a period in the answer
that is no date ends it (`FailToReconcile`). The provider's changes are a sequence `history`; the
provider's state is the last change that has happened, while events arrive in any
order and any number of times.

**Sessions.** Tokens and passwords are values; `SelectLive` is the query of
`_revoke_all_user_tokens`, `RevokeAll` and `ResetPassword` write what it has
seen. `StartRefresh` checks expiry before revocation, as the code does. Access
tokens are not modelled on the server: nothing revokes them.

**ApiClient** composes the tabs of a browser with `Sessions`: its actions contain
those of the server (`StartSignIn` has `Authenticate`, `RefreshEnds` the end of a
rotation, `LogoutArrives` the revocation). Memory (`kept`) and local storage
(`disk`) are separate: a tab reads the storage when it is loaded only. Answers may
be lost. An access token is known by the refresh token it came with, and lapses
when it likes.

**Lockout** is the other half of `authenticate`: count and lock as columns, read
and written back. **Accounts** is `register` in its order: the lookup, the two
INSERTs that wait at a unique index for another open transaction, the search for a
free slug between them, one commit, then mail and notification, each of which may
not come to pass; and `enable_2fa`, `verify_2fa` on the user as `get_current_user`
has loaded him.

**Membership.** One organization; requests for a role change, a removal, an
invitation, its acceptance and the deletion of an account, each query a step.
Who asks about himself gets the row his session already holds (`ReadTarget`).
`CloseAndDrop` is SQLAlchemy's refusal to update a row that is gone. When
`delete_account` finds a sole owner it deletes his organization with its members
and invitations; the files and the other rows are the matter of `Workspace`.

**AuditChain.** An entry is its `created_at`, fixed in `Stamp` before the latest
signature is read and committed later. Signatures are ideal. `Alter`, `Clear` (an
entry is changed and its signature set to NULL) and `Remove` are tampering in the
database, which the append-only trigger of migration 0007 prevents on PostgreSQL only.
Not detected by design, and not claimed: deletion of the newest entries or of unsigned
ones; the same for an entry whose signature was cleared, since `verify_chain` passes
over entries without one (`core/audit.py:80`); and a changed `created_at` that keeps
the order (it is not in the signed payload). `Broken` is
every entry that does not fit; `verify_chain` stops at the first.

**AiJobs.** The requests of one organization in one month. A chat question and a
job differ in where they come from: a job has a row and, unless
`AI_JOBS_EAGER`, a message. `BeginJob` is `run_job` up to the quota check; its
first flush locks the job's row until the commit, which is what `Locked` says, so
the status RUNNING is never committed and never seen. `SelectUsage` and `Record`
are the two halves of `usage.record`: the sum is computed in Python, the flush of
the row of requests locks it until the commit, and therefore nothing comes
between the two halves for the row of tokens. `Collide` is the unique
constraint of the first row of a month; the session then refuses the commit of
FAILED as well. The two reads of the quota are one step. `stream_chat` checks the
quota and records nothing, so it changes no state here. Conversations and
messages are inserted with the answer and are left out.

**AiContent.** What the job says: the documents' blocks cut to the budget, the
keys each type of job asks for, the four ways `json_output` looks for JSON in an
answer, the sections and tables `builder` makes of a result and what each of the
renderers shows of them. The answer is kept (`answer`) so that what was made of it can be
compared with it; a comparison gives each document half of the budget. DOCX refuses
control characters; PDF can fail for any table with rows, as reportlab breaks tables
between rows only and heights are left open. A text is a sequence of words and of the characters that
mean something to a format (the bar of a Markdown table, line ends, control
characters); a value is tagged text, list, dict or null. `Values` are the values that
can occur in an answer, the parts of a list or a dict among them, and `Atoms` what
their texts and keys are made of; the proofs use no more of them than that.

**ActiveModel.** One organization, one prompt. A request reads the setting for
its cache key (`LookUp`) and again for its provider (`Reread`), in two queries
between which it may have changed, and gets its answer later. `providers` is the
dictionary of each process, `cache` the one in Redis; the in-memory caches of
processes hold a part of it, and `Expire` covers what they miss. `SaveSetting`
writes the version it has read plus one, and the model only if it differs from the
loaded one. **Registry** is where the models come from: files in a folder, the
models of a server that comes and goes, what `discover` shows, `import_gguf`,
`set_active_model` and `build_provider`.

**Exports**, **Sharing**, **Workspace.** `Exports` is the life of an export: row,
message, rendering, file, row. `Sharing` is documents with their files, links,
signed addresses and visitors, who resolve a link, count the access and read the
file in three steps; `views` is what the visitor has loaded. An upload or a deletion
can stop between the file and the row (`Abandon`: a death or a failed commit), which
leaves a file without a row or, `halted`, a row without a file; and the last commit of
an export can fail (`RunFails` when `stored`), which leaves FAILED and a file that no
row names. `Workspace` composes both (each of its actions is one of theirs, with what
it means to the activity log) and adds `delete_account`: the rows are read, the files
deleted one by one, then one commit takes all rows by cascades, unless the append-only
trigger refuses it: because the organization has activity, which would be deleted, or
because the user has some `elsewhere`, whose `user_id` would be set to NULL.

**Reindex** pages through chunks whose ids are numbers in their order, one commit a
page, while chunks are inserted (with the vector of the provider the worker had, old
or new) and deleted. **RateLimit** has a counter for each window, in every process
or shared. **Dashboard** is `org_stats` query by query, with a clock that may pass
midnight between two.

Beside the two compositions the modules share no state: plans meet the quotas only
as the constants `DocLimit`, `ByteLimit`, `RequestLimit`, `TokenLimit`, and which
model answers is of no concern to the counters.

## 3. Runs that pass

Each property of these runs is also checked to fail for one plausible mistake in
the code (`mutants`; the mistakes are operators marked "Mistake:").

| Run | Instance | Shows |
|---|---|---|
| `documents_life` | 3 ids of different size, 2 clients, 2 workers, limits of 1 document and 3 bytes, eager or not, 1 death | the limit is overshot by fewer documents than there are clients (`CountOvershootBounded`); a leaked or lost file costs a process death each (`DamageBounded`); refinement of `DocumentLife` (`KeepsLife`) |
| `documents_settle` | 2 ids, 1 message delivered twice, no death, fair | every document is settled (`Settles`), though delivered twice |
| `billing` | 2 API processes and Cron, histories of 3 changes: an end with the period, an unknown status and a cancellation, a failed payment, a malformed cancellation, nothing but malformed events; 1 death, fair | no event takes effect twice, and only malformed ones and, by a death, the one that creates the subscription can be lost (`EventsOnce`); plan and subscription are in line without overlaps, but for an event that raised over its period (`SerialInSync`); they end in line (`Repaired`), and on Free where the subscription has ended (`EndsOnFree`), if `reconcile` can read the provider's answer |
| `sessions` | scene `server`: 2 requests, 3 tokens, 1 reset link; scene `client`: 2 tabs, 2 calls, 2 requests, 3 tokens | rotated tokens are spent under any interleaving, tokens and links work once without overlap (`TokensSpent`); `SerialResetCloses`, `SerialReuseClosesAll`; a tab by itself is never taken for a thief (`NeverTakenForTheft`) and its logout holds (`LogoutHolds`) |
| `lockout` | 2 requests, the limit of 5 of the settings | `SerialLocksInTime`; `GuessingLocks` under any interleaving |
| `membership` | 3 users with any roles to begin with, 1 invitation, 2 requests, which make owners and admins | `SerialHasOwner`, `SerialInviteOnce`, `SerialOwnersChangeOwners` |
| `ai_jobs` | 3 requests or tasks, 2 jobs, 2 requests and 3 tokens a month, answers of 0 to 2 tokens, eager or not, each message delivered again once, 1 death | `OvershootBounded`, `AnswersCounted`, `StrandedBounded`, `DoneIsFinal` |
| `active_model` | 2 requests, 2 processes, 2 models, 2 changes | `ProvidersFollow`; `CacheFollows`, though answers of a new model are cached for the old version |
| `workspace` | 1 result, export, document and link; scene `erasure`: one visit to the link, with or without the trigger and activity elsewhere, 1 death of a worker or the erasure or file that cannot be deleted, uploads and deletions that stop half-way at any time; scene `crowd`: 2 visitors, up to 3 accesses of a link; fair | rows have their files, but for deletions that stopped half-way (`RowsHaveFiles`); an erasure that nothing met leaves nothing, and only a failure or the log keeps it from its end (`ErasureIsWhole`); links hold (`SharesHold`); an export settles unless somebody died (`ExportSettles`) |
| `parts` | eight parts, below | below |

`parts` checks the smaller parts in one run. A behaviour is one of the part it
begins with; the others keep their initial state, so the state space is the sum
of the parts and not their product.

| Part | Instance | Shows |
|---|---|---|
| intake | files of every type with fitting and other signatures, archives with all combinations of folders, sizes around the limit; bodies of up to three pages with tables, asides and a NUL; texts of up to 3 characters and two longer ones, chunks of 3 with an overlap of 2 | `ChunksCover`: every character is in a chunk of its page, chunks are numbered, within the size, and repeat the overlap at most; `AcceptedIsRead`: processing fails for files only that cannot be read, for a NUL and for want of embeddings, and the text of every line is on the page it is cited with, but for DOCX, PPTX and XLSX lines that stand where the extractor does not look |
| content | every type of job, answers with parts missing, null, of another kind or not JSON at all, texts with bars, line ends and control characters; a budget of 4 blocks' length | `AnswerIsUsable`: contexts are whole beginnings of their documents, within their share of the budget, and what is stored has the keys its type needs and all that the answer gave for them, or the answer itself as `raw`; `ExportShowsResult`: each format shows every word that was asked for, no bar ends a cell of a Markdown row, and only DOCX and PDF can fail |
| dashboard | 2 documents, 2 days of 2 ticks, midnight at any query | `TrendCountsDays` |
| registry | 2 files, 2 models of a server, one of which is also the file's | `ChosenAnswers` |
| reindex | 4 ids, pages of 2, two insertions or deletions during a rebuild | `RebuildMissesFew`: at most one chunk for each that moved keeps its old vector |
| rate | 2 processes, windows of 2 seconds, a limit of 1, 1 restart, both backends | `WindowsHold`: the limit for each window, process and restart, and twice that for any stretch of its length; who is refused is told when to come again |
| accounts | 2 registrations at a time, 2 addresses, one random suffix, 2 secrets for one of the accounts | `AccountsAreWhole`, `SerialFactorConfirmed` |
| log | 2 calls, 5 entries, signing on and off, tampering | `DamageShows` under any interleaving: every changed entry that is signed, and every one deleted or cleared that another is chained to, is found; `SerialBreaksAreDamage` |

Why these are enough. Every race in the code is between two requests, so two
handlers show it; the overshoot bound depends on the number of clients, which
the proof generalizes. Three documents give one inside the quota, one that
passes with it and one refused by bytes; 3 tokens give a token, its successor
and a second session, and in the browser a sign-in and two rotations. Three
changes of the provider are a beginning, a change and an end, in every order of
arrival. Three users give two owners and an admin, or an owner and two admins;
requests that make somebody a member or viewer are left out, as their rights do not
differ from having left. Five entries allow a gap, a fork and damage before and
after both. In `Sessions` the tokens bound the number of steps; in `Membership`,
where actions can repeat for ever, only the invitations are bounded. In `Documents`
a message is redelivered in the liveness run only, as `KeepsLife` is false with
redelivery (`process_document` adds its chunks to those of the first run); it is
stated for delivery once. In `AiJobs` the smallest limits are met by requests
alone, by tokens alone and by both, and three requests can be in flight when the
limit is reached; TLC also shows why the bound on requests needs `~raced`: a count
that went back lets in more, and a higher one, read before, is written after. Two
changes of the model give three versions, of which the first and the last may name
the same model. Four chunks are two pages, so that an insertion or deletion in the
first moves the second. A limit of 1 and windows of 2 seconds already put both
sides of a window's boundary and a restart into one run. In the texts, the one with
a short word before a long one is the case in which the last blank of a chunk lies
within the overlap. The client's behaviours are followed until tokens meet in the
browser (`Unmixed`, a state constraint of `sessions`): from there on only the
server promises something, and what it promises is checked in the other scene.
Symmetry is used in runs without liveness properties, on handlers, clients, workers,
users other than the founder, tabs, calls and tokens, which no definition
distinguishes.

Deadlock checking is off in all runs: ids, tokens, entries and the provider's
changes are finite in an instance, and a system without requests rests.

**Fairness.** `Documents`: a process that has begun goes on (weak fairness of its
next step) and some idle worker takes a queued message; no user action is fair.
`Billing`: the provider retries an event until it is answered, a request goes
on, Celery beat starts `reconcile` daily (`workers/celery_app.py:24`), and the
provider answers infinitely often if it is asked infinitely often (strong
fairness of `ReconcileRemote`); deaths are bounded. `Repaired` and `EndsOnFree` presume
that the provider's answer can be read in the end (`Readable`): while its period is no
date, `reconcile` raises each time. `Repaired` says the plan is
in line in the end and stays so, because the histories end; it does not say that the
plan is the one the provider has: `reconcile` takes over status and period only, so
the plan of an event that arrives last stays, however old (`services/billing.py:161`,
`:240`). `Workspace`: the request that ordered an export goes on and a worker takes
and finishes it (weak fairness of `PassOn` and `RunExport` for each export);
visitors, deletions and the erasure are not fair. `GuessingLocks` needs no fairness;
its premise is that wrong passwords go on.

## 4. Runs that find a violation

| Run | Property, as the source says it | What the code does |
|---|---|---|
| `membership_owner` | `HasOwner`, "Organizasyonda en az bir Owner kalmalı" (`services/organization.py:200`) | two owners step down, are removed or delete their accounts at once, each counting the other |
| `audit_fork` | `UntouchedIsValid` (`core/audit.py:3`, `src/backend/tests/test_security.py:145`) | two calls of `log` chain to the same entry; the untouched log does not verify |

Met on the way and visible in the models, but not stated as a violation:

- Billing: an event over which the handler raised is logged, the columns set until then
  are committed without the plan (`services/billing.py:221`), and retries are answered
  "duplicate": the effect is lost. A period that is no date in one answer of the provider
  makes `reconcile` raise (`:247`), for all organizations, as one loop serves them.
- Billing: "event'i tek kez işler" (`services/billing.py:200`) is not so for the
  event that creates the subscription when the process dies after
  `get_subscription`'s commit, as retries are then answered "duplicate". Two
  overlapping webhooks can leave a past_due subscription on a paid plan until the
  next reconciliation, against "Aktif olmayan abonelikte organizasyon Free'ye düşer"
  (`services/billing.py:185`). A provider status the enum does not know counts as
  active (`services/billing.py:166`).
- Sessions: "Parola değişince tüm oturumları kapat" (`services/auth.py:259`) misses a
  token that a login or rotation under way inserts after the reset has selected what
  to revoke; two overlapping rotations of a token both succeed; overlapping logins
  lose counts, so that more wrong passwords than the limit fit before the lock.
- The client: two tabs, or a tab loaded or logged out during a refresh, present a
  token twice, which closes all of the user's sessions, or sign him in again after he
  has logged out (`mixed`).
- Accounts: a code checked against the old secret turns the second factor on with a
  new one that nobody has shown to have; a slug that was free when it was looked up
  fails the registration; a verification mail that failed is never sent again.
- Erasure (`services/gdpr.py:160`): on PostgreSQL the trigger of migration 0007
  refuses the deletion of an organization that has activity, by the cascade, and of a
  user who has activity in any other, by SET NULL (`models/collab.py:80`), after
  all files are gone. An upload or export under way leaves a file behind.
- Documents: a deletion that stops before its commit leaves a row, even READY, without
  its file (`services/documents.py:126`), an upload a file without a row.
- Exports: deleting an AI job deletes the rows of its exports and not their files, and
  an export whose last commit fails (`services/exports.py:69`) keeps a file its row does
  not name;
  a worker that dies leaves an export RUNNING, and a document in processing, for ever.
- Sharing: `view_count` loses accesses that meet; a link revoked after it was checked
  still opens once.
- Model settings: "her yazmada artar" (`models/setting.py:22`) does not make the
  versions of two simultaneous choices different, and a process that built a provider
  between them keeps it. A model "file:..." is shown as ready
  (`ai/registry.py:63`) and answered by the model of the environment.
- Reindexing: a new provider with vectors of the same length is not noticed; chunks
  that move a page are skipped and stay stale, which the status shows.
- Dashboard: the oldest day of the trend begins at the present time of day.
- Rate limits: the memory backend counts per process, forgets with a restart and
  never drops an old key.
- Activity log: the newest entries can be changed unseen by clearing their signatures.
- Intake and exports: of a DOCX the tables, headers, footers and text boxes are not
  extracted, of a PPTX the tables, groups and charts, of an XLSX charts and drawings; a
  text with a NUL fails in the database; a JPEG is stored as
  `image/png`, an answer that was not JSON is not shown in an export (`raw`), DOCX
  cannot be made of control characters nor PDF of a table row higher than a page; in
  Markdown tables bars in the names of columns (`exports/renderers.py:50`) and line ends
  (`:53`) are not escaped.

## 5. Proofs

TLAPS checks these for any sets of documents, processes, users, tokens, texts, files,
links and events and any limits. Constants are assumed to be of their type, numbers that
count or divide to be positive where the code needs it, and sets that are counted to be
finite (visitors, clients, processes that serve, models that are offered): `DocsAssumption`,
`ProcsAssumption`, `LimitsAssumption`, `ChunkingAssumption`, `IntakeAssumption`,
`HistoryAssumption`, `HandlersAssumption`, `TokensAssumption`, `ClientAssumption`,
`LockoutAssumption`, `AccountsAssumption`, `MembershipAssumption`, `SharingAssumption`,
`ExportsAssumption`, `EntriesAssumption`, `ReindexAssumption`, `RateAssumption`,
`DashboardAssumption`, `ContentAssumption`, `AiAssumption`, `ModelAssumption`,
`RegistryAssumption`. TLC evaluates each in the run of its module.

| Module | Theorems | Argument |
|---|---|---|
| `DocumentsProofs` | `TypeCorrect`, `QuotaOvershoot`, `IdsAreFresh`, `NoFileLeaksOrGetsLost`, `ChunksOnlyWhenReady`, `ImplementsDocumentLife` | the overshoot needs a count of rows plus uploads past the check, for any finite set of clients; `UploadInv` (an id is private until its row is committed) is the base of the damage bound, of `OneHolder` (one holder, and chunks exactly when READY) and of the refinement, where every step maps to one of `DocumentLife` or a stutter, under `MaxRedeliveries = 0` |
| | `TextIsCovered` | about `Chunking`, for texts, sizes and overlaps of any length: `text` is the stripped page, and the chunks of that page begin before `start` and end at most the overlap after it; a chunk ends after it begins because the last space is sought after its start only |
| | `AcceptedFilesAreRead`, `IntakeCuts`, `UploadsAreCovered` | about `Intake`: what was accepted has the type its signature says, so that only an unsound file fails to open; a page has a NUL only if a cell of the body has; what `FlattenSeq` and `Filled` make of a page keeps each text they were given, in its place. Intake takes the steps of `Chunking` for the loop, so that `TextIsCovered` holds of every upload |
| `BillingProofs` | `TypeCorrect`, `EventsApplyAtMostOnce`, `EventsLost`, `EventsTakeEffectOnce`, `SerialTransactionsKeepInSync` | an event past `Receive` is in one transaction or logged, and one logged without effect raised, or created the row; for the serial theorem: an open transaction's view is the row itself, and before the commit the plan still fits the row unless an event that raised over its period is unsynced; the columns of one that raised earlier (`Named`) do not change the plan |
| `SessionsProofs` | `TypeCorrect`, `RotatedTokensAreSpent`, `ResetClosesEverySession`, `TokensWorkOnce`, `TokensAreSpent`, `ReuseClosesEverySession` | `ParentsSpent` is inductive with the types; the serial ones rest on: the open request's checks still hold when it commits, and what it has seen are all live tokens |
| | `ClientUsesServer`, `TabIsNotTheft`, `LoggedOutStaysOut` | about `ApiClient`: every step of a browser is one of `Sessions` or a stutter; while tabs keep to themselves (`Alone`), what a tab has posted is the token it keeps and nobody has used it, a tab refreshes or logs out but not both, and a token that was revoked by a logout had no successor, because of `ParentsSpent` |
| `LockoutProofs` | `TypeCorrect`, `LocksInTime` | serially the stored count equals the wrong passwords tried |
| | `RegistrationIsWhole`, `FactorIsConfirmed` | about `Accounts`: an address or a slug is in one open transaction or in a row and never in both, which is what the waiting INSERTs give; while requests about a second factor have not met, the open one works on what the row still says |
| `MembershipProofs` | `TypeCorrect`, `OrganizationsHaveOwners`, `InvitationsWorkOnce`, `OwnersChangeOwners` | the invariant says, per label, that what the only open request has read is still true |
| | `WorkspaceTypeCorrect`, `FilesBehindRows`, `Erased`, `LinksHold` | about `Workspace`: a file is there before its row and goes before it, by where each upload, deletion and export is (`FilesInv`), those that have stopped included; as long as nothing has met the erasure, the files that remain are among those it has yet to delete (`UntroubledInv`), and it is refused for a reason only (`ErasureInv`); while a link is valid no access is late, and from then on those that can be are the visitors already at it (`LateBound`); a visitor by himself writes back what the row says (`CountsHold`) |
| `PartsProofs` | `TypeCorrect`, `TamperingShows`, `BreaksAreDamage` | an entry's predecessor is a committed entry, which is signed still or passed over (types suffice for `TamperingShows`); serially there is no entry between an entry and its predecessor, and an open call is later than all |
| | `RebuildFinds` | about `Reindex`: the old chunks that the pages to come do not contain, and the rows above the count at the start, are as many as there were insertions and deletions at most (`PagesInv`); without any the pages are the chunks, one after the other (`ExactInv`) |
| | `WindowsKeep` | about `RateLimit`: a counter outlives its window (`ExpiryInv`), so each request let through in a window has one of the `Limit` slots of a counter that lives or of one that a restart forgot (`SlotsInv`); a stretch as long as a window meets two of them |
| | `DaysAreCounted` | about `Dashboard`: whatever midnight came between the two looks at the clock, the period of the query begins within the first day shown or before it (`PeriodInv`), so every later day is counted whole (`TrendInv`); two numbers differ by what was changed between their queries (`MovesInv`) |
| | `AnswersAreUsable` | about `AiContent`: a result is one of `ShapeResult` for its job (`ContentInv`), which for every type and every answer has the keys that are read later; when its answer gives no object it is `raw`; the blocks of a context are an initial part of the documents', fit its share of the budget, and the next does not |
| | `ExportsShowResults` | about `AiContent`: the sheet of a result is sections whose tables have rows of one length (`InShape`) and in which each text asked for has its words (`Says`), type by type: the paragraphs of a text lose none of its words, the columns of an extract have every key of every record, a question is a section; each renderer shows the words of every text it draws (`SectionShows`, `RenderShows`), and Markdown escapes the bars of a cell; so DOCX can refuse a control character only (`RefusalMeans`), and PDF a table with rows |
| `AiJobsProofs` | `TypeCorrect`, `Metered`, `Overshoot`, `Final`, `FewStranded` | every step is, for the counters, an admission, a move or a write (`MeterSteps`), and for a job one of eight (`JobSteps`); what is counted plus what is in flight stays below the bound (`TokensBound`, `RequestsBound`); a job whose message is not delivered again is in one place (`OnePlace`) |
| `ActiveModelProofs` | `TypeCorrect`, `Follows`, `CacheIsRight` | all settings that anybody has read (`Known`) agree on what a version means and none is newer than the row; nothing is cached under a version to come; a request's second read is not older than its first |
| | `ChosenOneAnswers` | about `Registry`: the setting names what `discover` showed when it was made, so the provider that is built has that name or says why not, but for the models from files: "file:..." is answered by the environment's model |

None of the properties is inductive by itself: each needs to know what open
requests have read and that it is still (or, for events that are lost, no longer)
so. In the serial proofs the induction is on `~overlapped => SerialInv`: a step that
makes two requests overlap has nothing left to show.

`FlattenSeq` and `Used` are recursive functions on numbers, and `Filled` filters a sequence. What they
return is proved from `UpTo`: a set of numbers that has 0, and with each number below
`n` its successor, contains all numbers up to `n`, because otherwise there were a
least one that it lacks. The recursion is shown to have a solution in the same way,
one initial part at a time (`UsedExists`).

Model-checked only: the liveness properties (`Settles`, `Repaired`, `EndsOnFree`,
`ExportSettles`, `GuessingLocks`), which rest on fairness and `ENABLED`. Every
invariant of the passing runs is a theorem for all values of the constants.

## 6. Not modelled, and why

- Reads: listings, downloads by members, the data export, comments and
  notifications, the numbers of the dashboard that are one query each. They change
  nothing, and nothing depends on their order.
- Single flags and names (favorites, the name of an organization, `is_read`), and
  conversations, which are inserted together with an answer and touched by nothing
  else.
- Mail beyond whether it was given to the provider; the wording of prompts, the
  patterns against injection, similarity search, the catalogue of plans, signatures,
  hashes, JWTs and the strength of passwords: data no property here tells apart.
- Routing, dependency injection, schemas, settings, translations, logs and metrics;
  pages and components of the client; containers, backups and load tests: no state
  that outlives a request. Of the migrations only the trigger has behaviour.
- Retries of a request by a client are new requests. `reconcile` is modelled for one
  organization at a time: the loop in the code commits once for all of them, so one
  death rolls all back, which for one organization is `Abort`.
- Workers run each task with `asyncio.run` over one pooled engine
  (`core/database.py:12`): a later task of a process may get a connection of a loop that
  is closed and fail before its first commit. The models see it as a death (`Abort`,
  `Stop`), which the properties about progress (`Settles`, `ExportSettles`) set aside.
- What openpyxl makes of a cell beyond its 32,767 characters, or of a text that begins
  with "=".
- Libraries (SQLAlchemy, Celery, Redis, Ollama, the payment provider, the readers and
  writers of file formats) appear as the code uses them.

## 7. What could follow

1. A life cycle for the jobs of `AiJobs` and for exports, as `DocumentLife` is one
   for documents, implemented for messages delivered once.
2. `Membership` and `Workspace` in one erasure, with a second owner who leaves
   while it is under way.
