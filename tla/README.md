# Formal models of olushkiny-igrushki-backend

TLA+ modules of the parts of the shop whose correctness depends on how
requests, workers, Redis, PostgreSQL, RabbitMQ, MinIO and the browser's own
callbacks interleave and fail, with the TLC runs that check them on small
instances and theorems that TLAPS proves for every value of the constants. Everything is translated from the source;
`PROJECT.json` ties each definition to its lines.

- [The system](#the-system)
- [Modules and runs](#modules-and-runs): [Tokens](#tokens-and-sessions),
  [ConfirmationCodes](#confirmationcodes-and-codelimit), [EmailMessages](#emailmessages),
  [FileUpload](#fileupload), [RouterService](#routerservice), [UserCache](#usercache),
  [the pages](#the-pages), [list page](#listpage),
  [entity page](#entitypage), [sign-in page](#signinpage)
- [What the checks show that the documentation does not say](#disagreements)
- [Proofs](#proofs)
- [What is only checked, and what is not modelled](#limits)
- [Plan](#plan)

## The system

A FastAPI application (`app_backend`, 16 uvicorn processes over one PostgreSQL
database, one Redis and one MinIO) and a supervisor with worker processes
(`app_queue_processing`) that consume RabbitMQ queues. Each request is a
coroutine; whatever it does between two `await`s is atomic in its process, and
nothing is atomic across processes but single Redis commands, SQL statements
and the commit of a transaction.

| Component | State | Operations | Interacts with |
|---|---|---|---|
| Middlewares (`app_backend/main.py`) | the request's session, user and token | `jwt_token_middleware` (verify a token, or let a public endpoint pass), `db_async_session_middleware` (open a session; commit on 200/201 if something changed, else roll back) | Redis (token lists, user cache), every service through `request.state` |
| JWT sessions (`services/users.py`, `routers/auth.py`) | Redis: one hash of active tokens per user and device, one blacklist key per revoked token; cookies | `sign_in`, `token_refresh`, `sign_out`, `verify_token` | confirmation codes (sign-in), the middleware |
| Confirmation codes (`services/user_authorization_codes.py`) | table `user_authorization_codes` (status, group, time) | create with a rate limit, cancel earlier codes, confirm at sign-in | devices, email pipeline, sessions |
| Email pipeline (`BaseService.send_email`, `helpers/rabbitmq.py`, `workers/`) | table `email_messages`, the queue, a worker's callback | insert and publish, deliver, send over SMTP with retries, store the result, ack or nack | request transaction, RabbitMQ, SMTP |
| Database sessions (`helpers/database.py`) | `new`/`dirty`/`deleted` objects and the flag `flushed` | `log_flush`, `reset_flushed`, `has_uncommitted_changes`, `get_sa_async_session` | both applications |
| Supervisor (`app_queue_processing/main.py`) | the pids it started | every 5 s: start each worker that `ps` does not show | worker processes |
| Task lock (`helpers/lock.py`) and user cache | Redis key with a TTL; hash `user:list` | `SET NX EX`, unconditional `DELETE`; load the users | start of every process, `verify_token` |
| Generic CRUD service (`services/base.py`) and its subclasses | rows, states of entities | check uniqueness, create, update, change state, delete | every router |
| Routers (`routers/base.py` and subclasses) | `instance.service` of one object shared by all requests; pages | list, create, update, view | services |
| File service (`services/files.py`) | table `files`, objects in two MinIO buckets | `upload`: check, remove the old object, store the new one, commit the row (there is a schema for deletions, but no method) | entities that own files |
| Browser code (`static/js/common.js`) | what is in the page: the grid's order, filter, page and size, the dialog and its submit button, the form, loading blocks | load, sort, filter, page through, export, open a dialog, save, generate a code | the routes of lists, records and codes |
| Sign-in page (`static/js/auth.js`) | the address, the fields of the code and their focus | request a code, type it, sign in | confirmation codes, JWT sessions |
| Helpers, models, schemas, migrations, templates | none of their own | conversions, declarations | everything |

### Where it is hard

- *Several requests of one device.* The token lists are changed by several
  Redis commands with an await between them, and `verify_token` reads them with
  two. What correct means: a revoked token stays revoked, a token that a client
  holds is good until it is revoked, a successful sign-in or refresh leaves a session.
- *Requests that are cut off.* Redis keeps what was written before a crash, a
  disconnection or a rollback of the database.
- *Reads before somebody else's commit.* The limit on codes and their
  cancellation are queries that do not see the requests that overlap. Correct:
  codes of a period are limited, a used code stays used.
- *Delivery at least once.* A message is published before its row is committed,
  a worker may die anywhere between the SMTP dialogue and the acknowledgement.
  Correct: no published message is given up, mails are repeated only because
  of a fault.
- *What commits.* A session that has been flushed looks clean; whether it is
  committed hangs on a flag.
- *Two stores, one file.* An upload changes a bucket and a table that know
  nothing of each other. Correct: each fault leaves at most one row without an
  object or one object without a row, and without faults and overlaps there is
  neither.
- *Answers that come late.* Nothing in the scripts relates an answer to the
  request that is the newest one, most buttons stay enabled, and forms that
  arrive in a dialog bring the script along and execute it again. Correct: what
  a page shows agrees with itself once it is quiet, a click sends one request,
  and a save goes to the record that the user sees.
- *Clocks.* Microseconds, whole seconds of `exp` and of TTLs, and limits that
  are compared with `<` on both sides.

The complete list, each at its line and with the properties that cover it, is
`"hazards"` in `PROJECT.json`.

## Modules and runs

| Run | Module, configuration | Result | Distinct states |
|---|---|---|---|
| `tokens_concurrent` | MCTokens, `MCTokens.cfg` | holds | about 1,040,000 |
| `tokens_serial` | MCTokens, `MCTokensSerial.cfg` | holds | about 493,000 |
| `codes_concurrent` | MCConfirmationCodes, `MCCodes.cfg` | holds | about 558,000 |
| `codes_serial` | MCConfirmationCodes, `MCCodesSerial.cfg` | holds | about 767,000 |
| `email_delivery` | MCEmailMessages, `MCEmail.cfg` | holds | about 243,000 |
| `email_result` | MCEmailMessages, `MCEmailResult.cfg` | `ResultRecorded` violated | - |
| `file_upload` | MCFileUpload, `MCFileUpload.cfg` | holds | about 521,000 |
| `list_page` | MCListPage, `MCListPage.cfg` | holds | about 405,000 |
| `entity_page` | MCEntityPage, `MCEntityPage.cfg` | holds | about 797,000 |
| `sign_in_page` | MCSignInPage, `MCSignInPage.cfg` | holds | about 554,000 |
| `backend` | MCBackend, `MCBackend.cfg` | holds | about 666,000 |
| `router_own_session` | MCRouterService, `MCRouterOwn.cfg` | `OwnSession` violated | - |

Every run has `CHECK_DEADLOCK FALSE`: the requests, codes, messages, uploads and
clicks of a run are bounded, and when all of them are done the system rightly
stops; a page stops when it is left. (In `backend` processes may start and stop
for ever.)
The definitions marked "Variant with a fault" in the modules are no part of the
models: each is a plausible bug, and putting it in the place of the definition
that follows it makes TLC refute one property (`"mutants"` in `PROJECT.json`).

### Tokens and Sessions

`Tokens.tla` models `sign_in`, `token_refresh`, `sign_out` and the verification
of a token. `listed` and `fieldExp` are the hashes
`REDIS_KEY_JWT_ACTIVELIST_HASH`, `blacklist` the keys `REDIS_KEY_JWT_BLACKLIST`
with their expirations, `token` the claims, `held` the tokens that reached a
client in a cookie. The other variables are the locals of a coroutine.

| Action | Code |
|---|---|
| `Arrive`, `Refuse`, `CheckBlacklist`, `CheckActive` | `verify_token`: claims, cached user, GET of the blacklist, HEXISTS of the active list |
| `SignIn` | `sign_in` after a successful `verify_confirmation_code` |
| `TokenRefresh` | `token_refresh`: is the refresh token to be replaced? |
| `HGetAll`, `SetEx`, `HDel` | `revoke_user_device_all_tokens`, one iteration per token in any order |
| `Revoked`, `HSet`, `HExpire` | `generate_jtw_tokens`, `add_jtw_token_to_active_list` |
| `Respond` | the cookies of the response |
| `Abort` | the request stops at this await |
| `Tick` | the clock |

Time is in ticks, `Second` of them to a second, because the code mixes
microseconds with whole seconds: `exp` is cut to a second, and redis-py cuts the
TTLs of SETEX and HEXPIRE (`WholeSeconds`). SETEX refuses a TTL of 0.

`Sessions.tla` is what the lists promise: a token opens a session of one device
at most once, and what is over stays over. `SessionsSpec` is the refinement;
a live token is one that is in its active list, not blacklisted, and has a
second left before `exp` (see below why).

- `tokens_concurrent`: `RevokedUntilLastSecond`, `NoRevokedAccess`,
  `RevokesAllHeldBefore`, `HeldUntilRevoked`, `SessionsSpec`, `TypeOK`. Two requests in flight out
  of three, one device, every cut-off point. Two in flight are enough for each
  pair of commands to interleave; the third request comes after them and finds
  what they left. `Second = 1` and lives of 2 and 3 keep the whole life of a
  token within `MaxTime = 3`; three tokens let a sign-in (2) and a refresh (1)
  follow each other. `RevokesAllHeldBefore` is about the tokens that a client
  held when the revoking request came: tokens being generated at that time
  escape (see [below](#disagreements)).
- `tokens_serial`: `LiveRefreshBound` and `NewSessionUsable`. Requests one after
  another on two devices with two ticks to a second, so that the rounding is seen.
  `LiveRefreshBound` then says that a device has one refresh token, at the boundary
  where token_refresh replaces it, too; the bound for requests that overlap is the
  theorem `RefreshTokensAreBounded` and no run. `NewSessionUsable` says that whoever
  has signed in or refreshed can go on.

Two facts are visible in the guards and worth knowing. In the last second of a
token the TTL of its blacklist entry is 0, so that SETEX fails and with it the
sign-out or sign-in that wanted to revoke it; and an entry may end up to a
second before its token. All statements about revocation are therefore "until
the last second". And if a request is cut off between HSET and HEXPIRE, the
field stays without a TTL: from its `exp` on, every revocation of that device
stops with an error at SETEX. `HeldUntilRevoked` says how far this can go:
whatever overlaps and wherever requests are cut off, each token that a client holds
and nobody has revoked is in the list, with a TTL that lasts until its last second.
A field without a TTL is one whose token no client ever got, or one that was revoked.

Abstracted: the contents of the claims, the HMAC of the device identifier, the
user's cached state (`Refuse` may happen whenever it can), CORS and logging.
The session of a request ends by `Abort` wherever it can be cancelled.

### ConfirmationCodes and CodeLimit

`ConfirmationCodes.tla` models `UserAuthorizationCodeService.create` with its
limit and `after_entity_create`, and the part of `sign_in` that reads and
confirms a code, for one device and one login (all queries are restricted to
them). `codes` is the table, `stored` its committed rows; `clearing` and
`canceling` are the effects of UPDATEs of transactions that are not committed.
PostgreSQL runs at READ COMMITTED: a query sees what was committed when it ran,
and an UPDATE looks again at rows that changed meanwhile (`CanceledStatus`).

| Action | Code |
|---|---|
| `RequestCode` | `entity_validate` up to the query of the last code |
| `SelectLast`, `Reset`, `CountGroup` | the query, the reset of the groups, the count; `NextGroup` is the table of cases |
| `Insert`, `Cancel` | flush of the row, UPDATE of the earlier codes (and `send_email`, modelled in EmailMessages) |
| `Commit`, `Rollback` | `db_async_session_middleware` |
| `SignIn`, `VerifyConfirmationCode`, `Confirm` | `verify_confirmation_code`, then the status after the tokens were generated |

`CodeLimit.tla` is the limit as one would want it: the time of the last code,
the number of its group and how many it has. With one request at a time the
queries implement it (`CodeLimitSpec`).

- `codes_concurrent`: two handlers, faults at every await, limits of one code
  per group and two groups, within one control period (`LimitTimeout = 99`).
  `UsableCodesBound`, `UsesBound` and `GroupSizeBound` say that an overlap costs
  one code or one use per overlapping request and no more; the last one as long as
  groups follow one another in the order of the codes (`InOrder`, below);
  `SomeCodeLeft` that
  requests which cancel what they see of one another never cancel everything;
  `ConfirmedForever` that the cancellation never hides a use. (A request that lasts longer than a
  whole control period could miss a reset, too; the run leaves that out.)
- `codes_serial`: seven codes of one handler over two control periods,
  with two codes per group and two groups: `Spacing`, `PeriodBound`,
  `CodeLimitSpec`. The timeouts keep their order (1 < 3 < 13 for 120 s < 600 s <
  24 h). `Step = 2` with odd timeouts means that no interval equals a limit: in
  the code such an interval is none of the cases, and the code is created
  without a group. `NextGroup` has that case, and the three properties do not
  hold of it.

The size of a group is not bounded by the overlap alone. A request counts the
codes of group 1 and is slow; others fill group 1 and begin group 2; then the
slow request inserts a code of group 1, which is now the last code, and the next
request counts group 1 again, finds it full and gives its code to group 2 although
that is full as well. With `Attempts = 1`, two handlers and five codes a
group gets three codes in this way. So `GroupSizeBound` bounds the number of the
groups in any case, and their size while the groups are in order.

Assumed: the device is registered and linked to the user (else rows are
created first), created_on orders the codes (the microseconds of the clock),
and a digit code is identified with its row (of two rows with the same digits
the later one is read).

### EmailMessages

`EmailMessages.tla` follows a mail from `BaseService.send_email` to the
acknowledgement of its message. `request` and `session` belong to the HTTP
request; `row` is the committed row; `place` says where the broker has the
message; `owner`, `task`, `attempt` and `result` are the callback of a worker;
`mails` counts what the recipient got.

A session is reduced to what `has_uncommitted_changes` sees: changed objects and
the flag of `after_flush`. That is enough to see why the row of a request is
committed (`AnsweredIsCommitted`) and why the result of a mail is not.

| Action | Code |
|---|---|
| `Insert`, `Publish` | `send_email`, `async_publish_message` |
| `CommitRequest`, `RollbackRequest` | the middleware |
| `Deliver` | `consume`, `on_message_pre_processing` |
| `Send`, `SendUnanswered` | one attempt; the mail was accepted, but `quit()` failed |
| `Update`, `Ack`, `Nack` | the UPDATE and the end of the session; the acknowledgement |
| `Crash`, `Restart`, `BrokerRestart` | a worker dies, the supervisor starts it, RabbitMQ restarts |

smtplib is synchronous: while a worker sends, none of its other callbacks runs
(`Free`).

- `email_delivery`: two messages, two workers, two attempts, two faults. Two
  messages let callbacks of one worker interleave, two workers let a message
  change hands, two faults let a redelivery fail again.
  `AckedIsSettled` (no message is acknowledged unsettled), `MailsBound` (each
  repeated mail has a fault of its own), `AnsweredIsCommitted`,
  `EventuallySettled` (a published message is settled, unless the broker loses
  it).

Fairness: `WF(Work(m))`, since event loops go on and the broker delivers to a
consumer that is there, and `WF(Restart(w))`, since the supervisor's loop starts
a missing worker every few seconds. Nothing is assumed of requests, of the
outcome of an attempt or of faults, which are bounded by `MaxFaults`.
The broker loses the messages when it restarts: the queue is durable but
`delivery_mode` is not set.

### FileUpload

`FileUpload.tla` models `FileService.upload` for the file fields of one entity.
`rows` are the committed rows of `files`, `objects` what is in the buckets; a
row and an object have the name of the upload that made them. The other
variables are the locals of a request, and three histories count what the bounds
are stated in: `faults`, `overlaps` (uploads that came while another was in
flight) and `moves` (files that replaced one of the other bucket).

| Action | Code |
|---|---|
| `Begin` | `check_data`, `max(entity_field_index) + 1` of a multiple field |
| `Select` | the row of the field and index |
| `Remove`, `RemoveFails` | `remove_object` of the old object; its errors are suppressed |
| `Put`, `PutFails` | `put_object`; an error is answered with 409 |
| `Commit`, `CommitFails`, `Withdraw` | `commit_and_refresh_entity`; if it raises, the new object is removed again |
| `Abort` | the request is cut off at this await, what it waited for done or not |

An upload that `check_data` refuses changes nothing and is left out. The removal
of an object that is not there is a success in MinIO. The bucket is chosen by
the type of the new file, and the old object is looked for there, so that a file
of another type leaves its predecessor behind (`moves`). At this commit the one
field is `photo`, an image; multiple fields and the second bucket
are in the generic code of the service and taken from it.

- `file_upload`: three uploads, all of them at a time, a single and a multiple
  field, both buckets, two faults. Three are enough for one upload to replace
  what two others that overlap have left; with two faults a failure meets the
  remains of an earlier one. `RowsWithoutObjectBound` and `OrphansBound` say how
  far table and buckets can come apart: at most one row or object for each
  fault, overlap or move, besides those that uploads in flight account for. In
  particular, without any of these, rows and objects match one to one.
  `FieldHoldsItsFiles`: an overlap costs a single field one surplus row, a
  multiple one a lost file, and no more.

### RouterService

`RouterService.tla` is one router of one server process and the requests to it.
Each request has a session of its own, which the middleware opens, commits and
closes; the service that works with it is an attribute of the router, `service`,
which every request replaces when it begins (`base_router_initial_service`,
`routers/base.py:48`). `create_api` waits for the CSRF check and the form and takes
the service only then: it may be another's. So may the one that fills the choices of a
form, or the items of a list's columns, after the rows were there. `using` is the
request whose service was taken last, `pending` what was flushed in the session of each, `table`
the committed rows. `key` stands for all the unique fields of a row together.

| Action | Code |
|---|---|
| `Begin` | `db_async_session_middleware`, `base_router_initial_service` |
| `List`, `ListColumns`, `Listed` | `list_api`: the rows by the service it finds at once, the columns that are filtered by a relation (the state of a category, the module of a property) by the one it finds then |
| `FillForm` | `create_form_fill` of properties, which reads the service for the choices |
| `Create`, `CheckUnique`, `InsertRow`, `Refresh` | `create_api`, `BaseModelService.create` with `entity_check_unique`, the flush and the refresh |
| `Respond`, `Fail` | the end of the middleware: commit, or roll back, the session of the *own* request |
| `Refuse` | an invalid form, a row that exists, a row that can't be refreshed |
| `Break` | a statement fails, two tasks use a session at once, the request is cut off |

- `backend`, first half: four requests, three of them at a time, one key, a failure at
  any await. Two in flight are enough to take a service from each other; the third one
  makes a row depend on a request that has itself taken another service, and
  the fourth finds what the others have left. Requests for different keys meet only in
  a session that they share, as a list and a creation do; lists write nothing, but stray, and roll back the session of another. `RowsFollowTheirSession`: whoever takes
  whose service, a row is in the table only by the success of the request in whose
  session it was written; and a row that was answered with success is there, unless that
  session was rolled back, or is another's and still to be committed.
  `SameKeyBound`: no table has
  a constraint, so requests that overlap can all find their key unused; as many as
  overlap, and one for each that took another's service, but no more. The extra one
  is real: a row that waits in the session of another is not bounded by the
  requests that are in flight with it.
- `router_own_session` is the finding below.

RouterService and UserCache share no variable. `MCBackend` checks them in one run, in
each behaviour of which one of the two moves: the product would show nothing more of
either. `RouterTypeOK` and `CacheTypeOK` are theorems and not checked again.

Abstracted: the fields of a row, the user of the service (it goes with the session),
and the other operations of the generic service. A row that was flushed in a session that is
closed meanwhile is committed by nobody, since the middleware of that request is done:
it stays in `pending`, and only those who use the same session see it.

### UserCache

`UserCache.tla` is the lock of the decorator `task_lock` and the one function that has
it, `save_user_list_to_cache`. Each process runs it at its start. `lock` is the key in
Redis; whose it is, is known to the model only (the value is always `"1"`), and
no guard of an action other than the expiry looks at it. `users` are the versions in
the database, `cache` those in the hash that `verify_token` reads, `entities` and `todo`
the locals of a load. `newest`, `torn` and `overruns` are histories that the properties
are stated in; `overruns` also bounds the run.

| Action | Code |
|---|---|
| `StartProcess` | `app_lifespan`, `SET NX EX` once: without the lock the process goes on silently |
| `GetEntities`, `StoreUser` | the query, one HSET after another |
| `Loaded`, `LoadFails`, `Release` | the `finally`: DEL, whoever has set the key; its error is only logged |
| `StopProcess` | the process dies, and its lock stays |
| `ExpireLock` | the TTL of the key (`task_lock_timeout`) |
| `ChangeUser` | `PUT /users/me` or a change in the database, which the cache does not follow |

- `backend`, second half: three processes, two users, one change of each, one load that outlasts
  its lock. With one expiry a second process loads beside the first, the first one
  deletes the lock of the second, and a third one gets in: what `LoadersBound` bounds.
  Two users are enough for a load to be cut off in the middle. `CacheIsNewest`: without an
  overrun, a cache at rest after a load that was not cut off is what that load has read,
  all of it. `NeverBack`: without an overrun no step puts an older
  version into the cache, cut-off loads included.

Both premises are needed. With an overrun a slow load writes old versions over new ones;
and a process that starts while another loads relies on that one, which may
still be cut off: then the cache keeps what it has, until the next start.

### The pages

The scripts' state is the document. The modules keep what handlers and answers
read or write of it, and nothing else.

`Page.tla` is what all pages with `common.js` share. `scripts` counts executions
of the script whose `$(document).ready` callback is still to come: forms and
blocks bring `<script src=".../common.js">` along, jQuery executes it, and the
callback binds all handlers once more (`bound`, counted up to 2) and loads grids
and blocks again. `Runs` says that a handler bound several times runs once,
because each ends with `stopImmediatePropagation`. `left` is set when
`location.href` is assigned: from then on the page is on its way out and
the models end. `clicks` is the bound of the user's clicks.

`Grid`, `PageFilters`, `Modal`, `PageForm` and `Blocks` are the parts of a page;
`ListPage` and `EntityPage` compose them. A button behind an open dialog cannot be
clicked; answers arrive at any time and in any order; each load or save may end
with an answer, with an error that has a message, or with one that has none.

| Module | Actions | Code |
|---|---|---|
| `Grid` | `FirstLoad`, `Load`, `Request` | the ready callback, `load_grid_table_data`, `get_grid_table_load_url_params` |
| | `ChangeOrder`, `ChangePage`, `ChangePageSize` | `table_data_sortable_change_order`, `list_pagination_change_page`, `..._page_size` |
| | `EditFilter`, `FilterApply`, `FilterClear`, `Export` | the controls, `list_filter_apply`, `list_filter_clear`, `list_export` |
| | `Answer`, `Refuse`, `Break`, `FileAnswer` | success and complete (with `table_data_sortable_update_header`), error, error without JSON, the export |
| | `PageLinks`, `Window`, `Clickable` | `GridPagination` and the pagination template |
| `PageFilters` | `PageFilterApply`, `PageFilterClear`, `PageGridExport`, `Collapse` | `page_filter_apply`, `page_filter_clear`, `page_grid_export`, `change_collapse_button_icon` |
| `Modal` | `ModalOpen`, `FormLoaded`, `FormFailed`, `Faded`, `Close` | `modal_open_create`, `$.get` of the form, Bootstrap's modal |
| | `ModalSubmit`, `ModalServe`, `ModalSaved`, `ModalRefused`, `ModalLost` | `modal_form_submit`, the routes, success and error |
| `PageForm` | `FormSubmit`, `PutServe`, `PutSaved`, `PutRefused`, `PutLost` | `form_on_page_submit`, the route, success and error |
| | `CodeGenerate`, `CodeArrives` | `code_generate`, `add_code_generate_input_addons` |
| `Blocks` | `Fetch`, `FetchServe`, `FetchAnswer`, `FetchFail` | `load_block_data` |

Facts that the modules reproduce and a reader of the scripts may miss:

- The `||` of the page size binds stronger than its `? :`, so that a table with
  `data-limit` is loaded by it whatever the control says. All lists that are served
  have it, from `backend_page_size` or the query of the page: the control of the page
  size changes nothing there, and the answer sets it back. (`TableLimit = 0` would be
  a partial template, which no route renders.)
- The loader of a page's form is looked for as `.form-on-page-loade` and never
  found, so nothing tells the user to wait.
- A success on a page's form hides the error but leaves the marks of inputs.
- An answer without JSON makes the error callbacks throw, and `complete` does not
  run after that: the grid's loader stays.
- `handleError` (export) and `$.uuid` (generator) do not exist.
- A form's url is set by the click and its form and method by its arrival. While
  one is on its way and another is asked for, url and form can belong to
  different records. `SavesOwnRecord` is about dialogs that were the only ones.

At this commit no template has a loading block, filters of a page or a button of
the generator, and no route renders `view_and_update.html`, the page with a form;
these handlers are modelled as `common.js` has them, and what the hazards of loading
blocks and page forms would be is not listed in `PROJECT.json`.

### ListPage

- `list_page`: two clicks anywhere on a page with a grid, filters and three
  buttons; two columns, two texts that filter and the string "None", which the
  script does not send; answers of none or eleven pages. Two clicks besides the
  first load put three requests in flight at a time, answered in any order, and
  a form that was opened reloads the grid as a fourth. Eleven pages are enough
  for both gaps of the page links; `LinksComplete` compares the links with
  another definition of them for every number of pages up to 14.
  `QuietGridIsConsistent`: however orders, sizes and answers were mixed up
  before, one load that is alone puts rows, icons, size and loader right.
  `OneRequestPerClick`: the script is executed again by each form, and still a
  click sends one request.

### EntityPage

- `entity_page`: three clicks on a page with a form, a block with two records
  and a button of each kind. Three clicks can open a dialog, save in it and open
  another one before the answer, or save the form three times.
  `SavesOwnRecord` relates the request to the record shown (of openings that overlap
  it says nothing);
  `BlockShowsSaves` says that a save made from the block is shown by it;
  `FormTellsTheTruth` that the alerts agree with what the server has, once all is
  quiet and the last save was alone; `BlocksComeToRest` that loading blocks,
  whose content executes the script that loads blocks, comes to an end.

Fairness: `WF(Ready)` and `WF` of the loads. The browser runs callbacks that are
due, and a load ends with an answer or an error. Nothing is assumed of the user
or of saves.

### SignInPage

`SignInPage.tla` is `auth.js`. What the server does with a request, one that the
browser or a proxy has given up included, is in ConfirmationCodes and Tokens; here
it is an answer with success, an error with a message, or one without. `waiting` counts
the requests of each kind: the handlers do not tell one from another.

| Action | Code |
|---|---|
| `Fingerprint` | `ThumbmarkJS.get().then` |
| `EditEmail`, `ClickField`, `KeyDown` | the user and the browser |
| `KeyUp`, `NextField` | `otp_field_keyup` and the fields' `data-next` and `data-previous` |
| `RequestInvalid`, `RequestCode`, `SignIn` | `sign_in_request_code`, `sign_in` |
| `CodeSent`, `SignedIn`, `Refused`, `Failed` | success and error |

- `sign_in_page`: one address and the empty input, codes of three digits, two digits
  and the three other keys, five key presses or clicks of which two keys can be down
  at a time, three requests. Three fields have one with a neighbour on both sides, one without
  a predecessor and one without a successor; five keys are more than the fields, or
  have corrections among them. `CodeAsTyped`: the
  focus moves on release and from the field that has it by then, and the answer to a
  second request for a code moves it as well, so quick typing
  loses digits but never mixes them up.

A request before the fingerprint is there is refused by the server, whose schema
wants a time zone (`"code for no device"`). The buttons for a new code and for another
address have no handler. `select()` in `otp_field_keyup` is taken to focus the field
and to select its digit, as browsers do; `focus()` after a code was sent only moves
the focus and selects nothing.
`copy_to_clipboard` has no caller. The vendored libraries (swagger-ui, ReDoc,
ThumbmarkJS) are external.

<a name="disagreements"></a>
## What the checks show that the documentation does not say

Two runs expect a violation; `"findings"` in `PROJECT.json` quotes both sides.

1. `email_result`: the worker never stores what came of a mail. Its UPDATE is a
   statement, not the flush of an object, so the commit rule sees nothing to
   commit. `is_sent` stays false for every mail.
2. `router_own_session`: the middleware opens a session for each request, but the service
   that holds it is kept in the router, one object for all requests. A creation that
   waits for its form while another request begins writes its row in the other's
   session, and in the name of the other's user; the row is committed or rolled back with
   the other request, and the own answer says nothing about it.

Three more can be read off the bounds that hold, where the documentation would have less:

- `LiveRefreshBound` allows as many usable refresh tokens as requests overlap, although
  `generate_jtw_tokens` says that all active tokens are revoked before a new one is
  generated: of two sign-ins each reads the list before the other adds to it.
- `PeriodBound` allows `attempts * groups + 1` codes in a control period, because the
  code that resets the groups is in none of them; the settings describe
  `attempts * groups`.
- `LoadersBound` allows one load more for each lock that expired too early. The lock that is to
  keep the next run from starting before the last one has ended is deleted
  by key alone, so a load that has outlasted its TTL deletes the lock of the next one.

## Proofs

Eight modules hold theorems, each about the modules it extends (`ModalProofs` has
the lemmas that the two pages with a dialog share; `BackendProofs` is about three small
modules of the server). The theorems hold for every
value of the constants that the assumptions of the modules allow; TLC evaluates
these assumptions in the runs. A theorem that needs more of the constants says so
with `ASSUME`, and the sections below say what in the code or its configuration
justifies it. Bounds like `MaxTime`, `MaxClicks` or `MaxFaults` are arbitrary natural
numbers here: what is proved is proved of runs of any length.

### TokensProofs

For every set of requests, devices and tokens, every
`Second`, every pair of lives with `1 < AccessLife < RefreshLife`, any
concurrency, with and without faults:

| Theorem | Statement |
|---|---|
| `TypeCorrect` | `Spec => []TypeOK` |
| `RevocationHolds` | `Spec => []RevokedUntilLastSecond` |
| `TokensImplementSessions` | `Spec => SessionsSpec` |
| `RevokedGetNoAccess` | `Spec => []NoRevokedAccess` |
| `RevocationIsComplete` | `Spec => []RevokesAllHeldBefore` |
| `RefreshTokensAreBounded` | `Spec => []LiveRefreshBound` |
| `HeldTokensStayListed` | `Spec => []HeldUntilRevoked` |
| `SuccessLeavesASession` | `ASSUME Concurrency = 1 PROVE Spec => []NewSessionUsable` |

*Type correctness.* `TypeOK` is not inductive: a step of the revocation or of
the generation uses the token of its locals. `TypeInv` adds `LocalsOK`: a
request in flight has its `op`, `cur` is an issued token at the awaits that use
it, and the clock that HEXPIRE subtracts from `exp` is not ahead of it.

*Revocation.* `ListsOK` relates the Redis structures and the locals. `ClockOK`:
the clock that a coroutine keeps is not from the future. `BlacklistOK`: an entry
that was set ends less than a second before its token. `FreshOK`: a token that is
not used yet has left no trace in Redis. `PendingOK`: a token between its HSET
and its HEXPIRE belongs to one request, and its field has no TTL. `TodoOK`: a
revocation meets only tokens that were added. The rounding enters by one lemma,
`WholeSecondsBounds`: cutting to seconds loses less than a second; and SETEX does
not run before the clock reading its TTL was computed from (`ClockOK`).
`RevocationHolds` follows from `BlacklistOK`; the other conjuncts make it
inductive and are needed for the refinement.

*Refinement.* HSet opens a session (`HSetRefines`: the token was not used
before and is good), the end of a request that was about to HSET burns its
token (`EndRefines`), and every other step, the clock included, only shrinks the
sets of live tokens (`LiveShrinks`, `ShrinkCloses`) or stutters. There `ListsOK`
is needed again: without the bound on blacklist entries, a token between SETEX
and HDEL could come back to life when its entry expires first.

*Access.* `AccessInv` says what a verification knows between its two reads. A
token that was revoked before the request came and passed the first read is in its
last second: its entry was there, and only the rounded TTL can have ended it.

*Completeness of a revocation.* No step puts a token back on a list that it
has left (`NothingRelisted`). So it is enough to follow one request: while
`revoke_user_device_all_tokens` runs, what a client held when the request came and
what is still listed is in `todo` (`RevokingOK`), and a token that HSET is still
to add was held by nobody (`KnownOK`).

*How many refresh tokens.* For every set R of requests that are about to add
one, the requests of R and the usable refresh tokens that none of R is going
to revoke are together no more than `Concurrency` (`Bounded`, for all R at once).
The count of tokens alone is not inductive: an HSet of one request needs to know
that it has not added the token of another that has not revoked yet. Taking
the statement for all R gives each step the R that it needs.

*What a client holds.* `HeldOK` follows a token from its HSET to the cookie. HDEL
only comes after the SETEX of the same token, and what was once blacklisted keeps a
blacklist entry, expired or not (`Grows`): so a field that is gone when its own
request gets to HEXPIRE is that of a token revoked meanwhile, and any other gets its TTL
there. A request sends only what it has taken past HEXPIRE (`made`), and nothing but a
revocation takes a listed field back (`SafeKept`). `LifeOK` (an `exp` lies a second at
least ahead of the clock that issued it) shows that HEXPIRE never gets 0, `FieldTtlOK`
that the TTL reaches the last second of the token. No premise on faults is needed.

*A session after a success.* `SessionInv` follows the request from its
revocation to its response: what it has made stays listed, unrevoked and of the
right life (`MadeOK`), and a refresh token that is kept is not among those to
be revoked (`KeptOK`). Requests come one at a time here; otherwise a sign-out may
revoke the new tokens before the response, as it should. Faults are allowed: what
the requests before were cut off at does not matter.

### ConfirmationCodesProofs

For any number of handlers and codes, any limits and timeouts, with and without
faults:

| Theorem | Statement |
|---|---|
| `CodesTypeCorrect` | `Spec => []TypeOK` |
| `UsesAreBounded` | `Spec => []UsesBound` |
| `UseIsKept` | `Spec => ConfirmedForever` |
| `SomeCodeIsLeft` | `Spec => []SomeCodeLeft` |
| `UsableCodesAreBounded` | `Spec => []UsableCodesBound` |
| `GroupsAreBounded` | `ASSUME OffLimits, OnePeriod PROVE Spec => []GroupSizeBound` |
| `RowsImplementCounters` | `ASSUME Serial, OffLimits PROVE Spec => CodeLimitSpec` |
| `CodesKeepTheirDistance` | `ASSUME Serial, OffLimits PROVE Spec => []Spacing` |
| `PeriodIsBounded` | `ASSUME Serial, OffLimits PROVE Spec => []PeriodBound` |

`OffLimits`: no multiple of `Step` is one of the three timeouts, so no two codes are
exactly 120 s, 600 s or 24 h apart. The times in the code have microseconds;
an interval that meets a limit exactly is the case that `entity_validate` does not
have, `<` and `>` being tested on both sides (a hazard without a property). `Serial`: one handler. Requests that overlap
do exceed these limits, by as much as `GroupsAreBounded` and
`UsableCodesAreBounded` say. `OnePeriod`: the clock ends before a reset, which a
request that lasts longer than a day could miss.

`TypeInv` adds to `TypeOK` that a request that has inserted a code refers to a
row that exists, and one that will confirm a code to a committed one (`LocalsOK`).
`UsesBound` alone is not inductive: nothing in it stops a confirmation. `UsesInv`
counts the requests as well that have read the code as created and will confirm
it (`Confirming`): uses and pending uses together are no more than the handlers.
A confirmation moves a request from one count to the other. A request can
join `Confirming(c)` only while `c` is committed as created, and then nobody has
used it yet: that is `ConfirmedInv`. It survives the UPDATE of a cancellation
because that looks at the status again when it waited for the row
(`CommitRows`); `UseIsKept` follows from the same step.

`SomeCodeLeft` needs `PendingInv`: a code that was inserted and is not committed
belongs to one request and has the status created. The UPDATE of another request
cannot touch it, since `canceling` has committed rows only (`TypeOK`). So a commit
that cancels every earlier code leaves its own (`LeftStep`).

`UsableCodesBound` needs more than a count: `OwnersInv` says that each usable code
has a request of its own that answers for it, and that this is not one that is
about to cancel what it saw without this code. A commit then takes over the new
code, and the codes it has cancelled free their owners.

*One request at a time.* `SerialInv` has the clock (`TimesInv`: all times are
multiples of `Step` and none is ahead of the clock), the order of the codes
(`NumbersInv`), what a request knows at each await (`RequestsInv`: it begins the first
group, continues the last, begins the next or resets them all, and the rows are
as it has found them) and `HighestInv`: the last code is of the highest group. The
refinement maps the rows to the counters of CodeLimit; only a commit is a step
there, and each of the four decisions is one of its actions. `Spacing` follows in the
same way. For `PeriodBound`, `EpochInv` adds that a reset divides the codes: those
before it are out of the control period of the code that brought it, and of the
groups since then all but the last are full. A period that
meets both has the codes of the groups and the one that reset them.

*Requests that overlap.* In `SizeInv` the codes of a group and the requests
that are going to add one to it (`Towards`, those included that have counted the
group before) are together less than `Attempts` and the number of handlers. That is
where `InOrder` is used: whoever begins to count sees the last code, and
the premise makes it one of the last group.

### BackendProofs

EmailMessages, for any sets of messages and workers, any limit of attempts and any number
of faults; RouterService, for any finite set of requests, any keys and any
concurrency; UserCache, for any finite set of processes, any users and any numbers of changes and
overruns:

| Theorem | Statement |
|---|---|
| `EmailTypeCorrect` | `Spec => []TypeOK` |
| `RowsAreCommitted` | `Spec => []AnsweredIsCommitted` |
| `NothingIsGivenUp` | `Spec => []AckedIsSettled` |
| `RepetitionsAreFaults` | `Spec => []MailsBound` |
| `RouterTypeCorrect` | `RouterSpec => []RouterTypeOK` |
| `RowsAreCommittedWithTheirSession` | `RouterSpec => []RowsFollowTheirSession` |
| `SameKeyIsBounded` | `RouterSpec => []SameKeyBound` |
| `CacheTypeCorrect` | `CacheSpec => []CacheTypeOK` |
| `LoadersAreBounded` | `CacheSpec => []LoadersBound` |
| `CacheIsWhatWasRead` | `CacheSpec => []CacheIsNewest` |
| `CacheGoesForward` | `CacheSpec => NeverBack` |

*Mails.* The inductive invariant `DeliveryOK` has four parts for each message. `RowOK`: the
row is flushed before the middleware looks at the session, which is what
`has_uncommitted_changes` needs to see. `PlaceOK`: a message is published once,
and one that no worker holds has no callback. `ResultOK`: the loop of the attempts
is left only with a result, which nothing changes before the acknowledgement.
`MailsOK`: at most `1 + faults` mails, and at most `faults` as long as the message
is still to be sent. The second half makes it inductive: a successful attempt
uses up the one mail that needs no excuse, and only a fault brings the message
back to where it can be sent.

*The shared service.* `RowsOK` says where a row is between its flush and the
table. `PendingOK`: a flushed row was written by a request that uses that session, and
it goes with the session, so the end of a request commits its own rows and those
of its guests, and no row twice. `TableOK`: a committed row came with the success of the
request whose session it was in. `FlushedOK`: from the flush on, a row is in that session,
in the table, or lost by a rollback of the session, and a session that was rolled back
stays so (`StaysRolledBack`: its own request is over, and one that failed with it takes no
other). For a list, `ListsOK`: it writes nothing, whichever services it takes one after
another.

*The rows of one key.* A count of rows says nothing about the requests that
will still insert one. `Takers(k)` are the requests that have found the key `k` unused
with their own service, and have inserted it or may do so. One joins them only
when its query sees no row of that key, so that none of them has committed
yet and all of them are in flight with it (`TakersStep`): no more than `Concurrency` then,
and at any other step they become fewer. The rows of requests that have taken the
service of another are counted one by one.

*The lock.* `LoadersBound` is not inductive: the one who gets the lock must
know that all other loaders are accounted for. `Others`, the loaders that do
not hold the lock, are at most `overruns`: a loader joins them by an expiry that
is counted, and the deletion of another's lock is only possible for one of them, which leaves
as the holder joins. `FreshOK`, for runs without an overrun: the only load holds the lock, has read
`newest`, and what it has stored already is equal to it; the cache is nowhere newer
than that.

### FileUploadProofs

For any sets of uploads, fields and buckets, any number of faults, nothing assumed
besides `FileAssumption`:

| Theorem | Statement |
|---|---|
| `TypeCorrect` | `Spec => []TypeOK` |
| `RowsKeepTheirFiles` | `Spec => []RowsWithoutObjectBound` |
| `ObjectsAreAccountedFor` | `Spec => []OrphansBound` |
| `FieldsHoldTheirFiles` | `Spec => []FieldHoldsItsFiles` |

`Steps` is what the steps of an upload do at each await, the fault at it included;
the proofs have one case for each. `Facts`: rows have the name of
the request that inserted them and the object of the one that wrote them last, and
the row that a request has found is still there (`RowsOK`, `FoundOK`).

The bounds are not inductive, because a count does not say whose the
rows and objects are. `UncoveredOK` counts the rows without an object that no
request is replacing: these are due to faults alone, and a request that replaces
one takes it over. `LeftOK` counts the objects that are left over (`Left`), the
requests that will leave one because they have not removed the object that their
commit replaces (`Leaving`), and the ones whose row has got another object
since they read it (`Missed`): of the requests at work one needs no cause, unless a
row has changed under one of them, and then two overlap and that overlap
is still unused. For the fields, `SingleOK` counts rows and the requests that will
insert one, and `MultiOK` the uploads that have found the row of another
(`Lost`) or whose index has been taken (`Losing`).

### ModalProofs and EntityPageProofs

For any buttons, records, inputs and values, any numbers of clicks and requests,
answers in any order:

| Theorem | Statement |
|---|---|
| `TypeCorrect` | `Spec => []TypeOK` |
| `DialogSavesItsRecord` | `Spec => []SavesOwnRecord` |
| `AlertsAreTrue` | `Spec => []FormTellsTheTruth` |
| `BlockIsUpToDate` | `Spec => []BlockShowsSaves` |

`UrlOK`: a form that is alone on its way is that of the button clicked last, whose
url the submit button has; what the window holds alone has the url of the submit
button as long as it can be seen. `TruthOK`: since the last save was sent with
nothing open, no earlier one has been touched, so the server has its data once it
is done with it, and the answer that the page shows is its own. `ShownOK`: a load
that is the only one was asked for after the last success, so the server knew of
every save when it answered.

### ListPageProofs

For any columns, filters, page sizes and buttons, any numbers of clicks, requests
and pages, answers in any order:

| Theorem | Statement |
|---|---|
| `TypeCorrect` | `Spec => []TypeOK` |
| `LinksAreComplete` | `Spec => []LinksComplete` |
| `OneRequestForAClick` | `Spec => []OneRequestPerClick` |
| `QuietGridIsRight` | `Spec => []QuietGridIsConsistent` |

The links are a matter of arithmetic: `WindowIs` gives the window after it was
moved and cut, `LinksAre` the pages linked, and `LinksByDistance` shows that they
are those of the other definition, for every number of pages and not only for
the 14 of the property. `ClicksOK`: each request carries the click that led to
it, none a later one than the last, and no two the same. `QuietOK`: while the newest
request for rows is alone, no other answer can come in between, so the table keeps
its order until the answer is there; what is shown then stays until the
next request. The assumption on `Texts` says that the empty filter is not the text
"None", as in the script.

### SignInPageProofs

For any addresses, digits, codes and numbers of fields, keys and requests:

| Theorem | Statement |
|---|---|
| `TypeCorrect` | `Spec => []TypeOK` |
| `DigitsKeepTheirOrder` | `Spec => []CodeAsTyped` |

The type invariant needs that a key is down only while a field has the focus:
`NextField` of no field would be none of the fields.

As long as only digits were typed, the digits lie in the fields up to the one that has
the focus, in the order in which they were typed (`OrderOK`). The focus never moves back then,
so a key goes to a field behind all that are filled or overwrites the last of them,
and in either case it is the last digit typed: the order is kept, whatever was lost before.
When no two keys were down together, nothing is lost: the field that
has the focus is the one after the digits typed so far, or the last one (`Place`,
`SingleOK`). `SignInAssumption` has what the script takes for granted, that a
digit is none of the keys that move or delete.

<a name="limits"></a>
## What is only checked, and what is not modelled

Only model-checked: `EventuallySettled` and `BlocksComeToRest`, because liveness
under fairness is out of the prover's reach. All other
properties of the passing runs are theorems. The type invariants of ConfirmationCodes,
FileUpload, ListPage, EntityPage, RouterService and UserCache are theorems only; no run
checks them again. `NewSessionUsable`, `Spacing`, `PeriodBound`
and `CodeLimitSpec` hold for one request at a time only, as their comments say; these
premises are those of the theorems, and of the runs.

Not modelled: the components that `PROJECT.json` marks so, with the reason. Read
paths, SQL construction, templates, translations, schemas and the deployment
have no state that steps of several actors could break. The registration of
users by code has services, but its routes are commented out.

Of the generic service only `create` is modelled. `update_api` takes the shared
service in the same way as `create_api`, and `update` reads the state of the row
before others commit; deletion against related rows is checked in queries, as uniqueness
is. The registration of a device (`user_authorization_codes.py:91`) has the same pattern as
`SameKeyBound`. Tokens and ConfirmationCodes are not composed: that a sign-in writes
its tokens before the code is committed as used is in each of them as a fault, but the two
together are not.

## Plan

Done: Tokens with Sessions, ConfirmationCodes with CodeLimit, EmailMessages,
FileUpload, RouterService, UserCache, the links of the pagination and the pages, each
with its proofs.

Left, in this order:

1. `update`, `change_state` and `delete` of the generic service on the rows of
   RouterService: lost updates, deletion against a related row.
2. The composition of a sign-in's tokens with the commit of its code, and of SignInPage
   with ConfirmationCodes for one user: which of the codes a user types that were
   sent to them is in neither.
3. The supervisor's matching of worker processes, and the session that overlapping
   callbacks of a worker share (`workers/base.py:123`).
