# WebHome in TLA+

WebHome is a self-hosted start page: a Rust server (axum, leptos server
functions, tower-sessions) and a client compiled to WebAssembly. Users sign in,
place modules on a page (links, to-do lists, RSS feeds, mail boxes, calendars,
weather), and store each module's content on the server, encrypted in the
browser with a key derived from the passphrase. The server keeps one file per
account and never sees a plaintext.

This directory models the parts of WebHome whose correctness depends on the
order in which things happen, checks them with TLC on small instances, and
proves theorems about them with TLAPS for every value of the constants. Paths
below are relative to the repository's `src/src/` unless they begin with
`static/`.

## 1. Inventory

### 1.1 Components

| Component | Where | State | Operations |
|---|---|---|---|
| Account file and handlers | `api/login/user_back.rs`, `api/modules/` | one JSON file per account: verifier, credential version, rotation receipt, modules, preferences; one mutation mutex per identity | login, logout, check, write / remove a module, preferences, prepare and finalize a password rotation |
| Session layer | `api/login/session.rs`, `server.rs` | session records in memory, one copy per request | load, save back, renew after an error, flush, cycle the id, expire |
| Sign-in throttling, sign-up | `api/login/user_back.rs`, `salt.rs` | attempts per session and per identity, lock window, a bounded registry | try, fail, succeed, sign up |
| Module documents | `api/modules/components.rs` | modules with content, timestamp and position in the account file | update if newer, retrieve newer, report missing, remove |
| Browser vault and rotation | `front/utils/users_data.rs`, `front/components/options_menu.rs`, `entry.rs` | active and pending key in local storage, copies in each tab, "rotation running" | set, clear, promote, resume, storage events |
| Module holder | `front/modules/module_holder.rs`, `module_actions.rs`, `components.rs` | modules shown, epoch, network generation, crons, positions | open, close, suspend, resume, call, apply |
| Options and preferences | `front/components/options_menu.rs`, `front/utils/users_data.rs` | preferences cookie, their sealed copy in the account, a preview while the dialog is open | open, preview, save, close, rotate |
| Pages | `front/pages/*.rs`, `entry.rs` | signals only | views that drive the three above |
| RSS proxy and cache | `api/proxys/wget.rs`, `proxy_cache.rs` | cache files keyed by a hash, an index, a lock | fetch, revalidate (304), save, clean up |
| Outbound policy | `api/proxys/outbound_policy.rs` | permit counters | admit, release; address filter |
| IMAP proxy | `api/proxys/imap*.rs` | none between calls | list, fetch the new mails of a box, mark seen |
| Mail module | `front/modules/mail.rs` | mails, uid validity, marks "seen" on their way | synchronise, mark, roll back, change box |
| Calendar module | `front/modules/calendar*` | events, remote etags | CalDAV exchange, merge, recurrence, views |
| To-do module | `front/modules/todo*` | a tree of lines | split, merge, indent, edit |
| Links, RSS, weather | `front/modules/{link,rss,weather}.rs` | fetched data with its time | show, refresh |
| Dialogs, toasts | `front/utils/dialog.rs` | stack of dialogs | open, validate, close |
| Translations | `api/translateBooks/`, `front/utils/fluent/` | books loaded per language | load, switch |
| Assets | `browser_asset_delivery.rs`, `static/public/asset_version_monitor.js` | release hash, reload guard | serve, compare, reload |
| Security headers, health, tracing | `browser_content_security.rs`, `deployment_health.rs`, `api/Htrace/` | none | header text, constant answers |
| Start-up | `main.rs`, `lib.rs`, `global_security.rs` | configuration, read once | build the router |
| Client encryption | `front/utils/users_data.rs` | the derived key | encrypt, decrypt, derive |

### 1.2 How they interact

* The browser calls the server through leptos server functions over HTTP. All
  tabs of a browser share one session cookie and one local-storage document;
  a tab that writes the document causes a storage event in the others.
* Handlers of one account meet at the account file and at the identity's
  mutex; handlers of one browser meet at the session record, of which each
  request has its own copy.
* The module holder sends what the modules hold, applies what the server
  answers, and drops answers that belong to a closed epoch or an older network
  generation. A rotation suspends it.
* The proxies are called by modules through the server and share only the RSS
  cache directory and the outbound permits.

### 1.3 What is hard, and what makes each component correct

| Component | Hard | Correct when |
|---|---|---|
| Account file | load-modify-save by concurrent handlers; handlers dropped with their connection; a save that fails; a restart between the save and the session's write-back; a request repeated after it was applied | the file changes one whole operation at a time; a session of before a rotation writes nothing after it; answers to a rotation tell the truth; the mutex always comes back |
| Session layer | copies written back over newer or deleted records | no session is ahead of the account; a rotated session survives |
| Throttling | checks before the lock, counters from stale copies, a full registry | bounded failures per window, a window that ends |
| Module documents | equal timestamps, batches that fail half-way, two browsers | a stored edit is never replaced by an older one |
| Browser vault | lost answers, reloads, late requests, two tabs | the browser always holds the key of the account, "success" is true, documents stay readable |
| Module holder | answers after logout or suspension, edits during a retrieve, two Homes at once | no answer applied outside its generation, nothing shown under another account, no block goes back |
| RSS proxy | two fetches of one feed, clean-up while reading | version numbers identify contents and do not go back |
| Options | storage that refuses to write, answers lost or late, dialogs replaced while a save runs | what is shown is what is stored; the preview ends with its dialog; preferences and key fit the account |
| Mail module | synchronisation against marks on their way, a bound on what one request may name | a mail marked seen does not reappear; the page comes to show what is unread |
| Calendar, reading | answers for a period or configuration left meanwhile, time zones, weeks over two years, XML in any order and cut anywhere | a grid that says "ready" draws what the server had on each day |
| Calendar, writing | other clients, requests carried out after they were given up | nothing another client wrote is lost; one dialog makes one event |
| To-do editor | a screen the browser edits before the editor is told, limits in bytes | screen, blocks and source agree; nothing grows past the limit |
| Weather | dates of UTC, hours of the browser | each card tells its own day |
| Translations | loads that overlap, servers of two releases | one language on a page comes from one book |
| Assets | two releases behind one address | no endless reload |

The hazards, each at its line, are listed under `hazards` in `PROJECT.json`
with the properties that cover them. Four have none, and eight are covered but
for a part: mostly what the code does not defend itself against, which a model
reaches and a property excepts by name. Their notes say so.

## 2. Plan

The modules, in the order they were written, the most important behaviour
first:

1. `AccountData`, `AtomicAccount`, `AccountServer` with `AccountServer_proofs`:
   the account file is the heart of the system, and everything a user could
   lose passes through it.
2. `RotationBrowser`: the other half of the password rotation, composed with
   the abstract account.
3. `RssProxy`, proved in `Feeds_proofs`: the cache that concurrent calls share,
   small enough to be proved whole.
4. `ModuleSync`: the module holder, the Home page that opens and closes it, its
   calls, and the documents on the server, with several browsers. Holder and
   synchronisation are one module: what is lost or comes back depends on both.
5. `SignInContract` and `LoginThrottle`: sign-up, sign-in and their counters.
6. `MailSync`: the mail module, the IMAP proxy and a mail server.
7. `TodoEditor`: the block editor of notes.
8. `CalendarDates` and `CalendarRefresh`: what the calendar reads and draws.
9. `DialogHost`, and over it `CalendarWrites` and `OptionsMenu`, which both
   live in dialogs; `DavMultistatus`, the parser of the answers.
10. `WeatherForecast`, the other feed; `PageAssets`, releases and texts.

`MC...` modules give the constants of the runs. Where two components share
nothing, one `MC` module takes both and a variable `part` says which one a
behaviour is about: `MCFeeds` (RSS, weather), `MCPage` (to-do editor, releases
and texts), `MCDialogs` (calendar writes, options, multistatus). A run then
visits the sum of their states, not the product.

Abstract specifications: `AtomicAccount`, implemented by `AccountServer` (proved)
and used by `RotationBrowser`; `SignInContract`, implemented by `LoginThrottle`
(proved).

The proofs are in eight modules: `AccountServer_proofs`, `RotationBrowser_proofs`,
`ModuleSync_proofs`, `LoginThrottle_proofs` and `OptionsMenu_proofs` for one
component each, `Calendar_proofs` for `CalendarRefresh`, `CalendarWrites` and
`DavMultistatus`, `Feeds_proofs` for `RssProxy`, `MailSync` and
`WeatherForecast`, `Page_proofs` for `TodoEditor` and `PageAssets` (section 5).

## 3. Modules

### 3.1 `AccountData`: what an account file holds

One account is modelled, because every lock, file and check of the code is per
identity. An element of `Keys` stands for a passphrase, hence both for the
credential the server verifies and the AES key the browser encrypts with. A
document is a stored module or the account preferences: the server treats both
as opaque text, `Docs` are their ids, and a blob is the key it was sealed with
and what it says. `Rotated` is the account after the single `file_save` of a
rotation, with a receipt whose `old` and `new` stand for `resultDigest`.
`SnapshotOf` stands for the revision hash that a rotation is prepared from.

### 3.2 `AtomicAccount`: what the account store promises

Four atomic operations on the file (`SetDoc`, `MigrateVerifier`, `Prepare`,
`Rotate`), with no session, lock, request, copy or crash in sight.
`AccountServer` implements it; `RotationBrowser` is built on it.

### 3.3 `AccountServer`: the handlers

`Requests` are slots for requests in flight, `SessionIds` the cookies.

| TLA+ | Code |
|---|---|
| `account` | the account file on disk |
| `store` | the `MemoryStore` of tower-sessions |
| `user[r]`, `sid[r]` | the `auth.user` entry and the id of request r's session copy |
| `mutex` | the identity's entry of `UserMutationRegistry` |
| `config[r]` | the `HConfig` a handler under the mutex has loaded |
| `pc[r]` | `loaded`: session read, file not; `waiting`: in `lock_arc().await`; `holding`: after it; `done`: returned, session not yet written back |
| `prepared` | what `passwordRotation_prepare` returned for each rotation id |

A handler is split where another one can run: before it takes the mutex, while
it holds it (the credential hash is awaited), and between its answer and the
write-back of its session copy. `Read`, `Logout`, `WriteBegin`, `WriteDoc`,
`WriteOutdated`, `WriteFail`, `LoginBegin`..`LoginFail`, `PreparePassword` and
`FinalizeMark`..`FinalizeFail` are the handlers' steps, each with its refusals;
`Respond` is the session layer's write-back, with `serverErrorActivity_renew`.
`Cancel` drops the future of a handler wherever it awaits (axum does when the
connection goes), `Restart` drops every handler and session, `Expire` a record.

Decisions worth knowing:

* The session is loaded once per request. The code reads it again after the
  mutex, but from the same request-local copy: the branches that compare the
  two readings (`user_back.rs` 236-243, 828-831, 843-853) cannot be taken in
  production and are not modelled. The unit tests reach them by sharing one
  `Session` object between two requests.
* Errors of server functions are HTTP 500, after which tower-sessions saves
  nothing: only `serverErrorActivity_renew` does, for sessions that are current.
* A finalize request is built from a snapshot that was handed out. Content size
  limits and `CONTENT_INVALID` are left out.
* `ModuleContent::update` compares timestamps; here it may store or refuse.
* Sign-up and throttling are `LoginThrottle`. The
  middleware that raises the body limit for rotations holds no state.

### 3.4 `RotationBrowser`: the browser's half

Over the account of `AtomicAccount`, with every request atomic on the account
and the session record (the account side of that is what `AccountServer` is
shown to implement), this module takes the browser: `local` is the stored
document with its active and pending key, `held` the copies in the tabs,
`unseen` the tabs whose storage event has not run, `task` what a tab awaits,
`net` and `back` requests and answers on their way.

| TLA+ | Code |
|---|---|
| `LoginSend`, `LoginApply` | `Connection`'s submit and `ClientState::login_apply` |
| `SignOut`, `Sync`, `Reload` | `user_disconnected`; `browser_sync` with `Home`'s effects; a page load |
| `WriteSend`, `WriteAnswered` | `ModuleHolder::network_deferredCall` before and after its await |
| `ChangeBegin`, `ChangeAnswered`, `FinalizeAnswered` | `OptionsPasswordRotation`'s submit and `passwordRotation_change`, cut at its awaits |
| `Resume` | `passwordRotation_resume`, by the user or at start-up |
| `Promote`, `DropPending` | `pending_promote`, `pending_clear` |
| `ServeWrite`, `ServePrepare`, `ServeFinalize` | the handlers, in one step each |
| `GiveUp`, `Lose`, `LoseAnswer`, `SessionEnds` | the network, expiry and restarts |
| `ElsewhereWrites`, `ElsewhereRotates` | another browser of the same user |

`ServeFinalize` has the variant in which the response is cut after the file was
saved, so that the session record stays behind. `GiveUp` is what makes a
request late: the browser has failed it, and it still arrives.

`sent`, `refused` and `crossed` are history variables, read by the properties
only: the rotations this browser asked for, those it was told are refused or let
go of itself, and whether two tabs ever worked across each other. They do when
one writes the vault, or starts a rotation, while another one waits for
something or has not yet handled its storage event. Local storage that fails to write, the migration of former cookies and
the wait for the logout's answer are abstracted.

### 3.5 `RssProxy`: one feed behind the proxy

Cache entries are independent, so one URL is modelled: its entry `cache`, the
calls of the RSS modules that show it (`Pages`, one call each: a module asks
every ten minutes), and the feed, whose document is a growing revision number.

| TLA+ | Code |
|---|---|
| `cache`, `Record` | the cache file, `RssCacheRecord`; ETag and Last-Modified stand for the revision they came with |
| `call[p]` | the locals of `content_get`: what was loaded, what the feed answered, the record that is due |
| `shown[p]` | `Rss::rssContent`: the version number and the document |
| `time`, `skew` | physical time; how far `SystemTime` is behind it |
| `AskFresh`, `AskStale` | `content_get` up to its first await, with a fresh entry or without |
| `FeedAnswers` | `fetch_get`: 200 or 304, decided by the feed |
| `FetchEnds` | the second `now_get` and the new or revalidated record |
| `Save` | `cacheRecord_save`, which may fail, and the answer |
| `Answer` | `clientResult_get` and `Rss::sync`; an answer may be lost, and a document that the page cannot parse leaves the page as it is |
| `Fail` | errors of the fetch, its timeout, a dropped connection, a restart (the cache is on disk) |
| `Evict` | `ProxyCache::cleanup` for other entries; removal of an unreadable file |

Calls interleave at the awaits and between the critical sections of
`CACHE_FILE_LOCK`. Loading and the test of freshness are one step: nothing that
another call does between them changes what either of them sees. A page that is
reloaded is another page. `left`, `lastNew` and `past`, and `shown[p].at`, are
history: when a revision was replaced, when the last new document came, and
whether numbers were tied, calls overlapped or an entry was lost.

### 3.6 `ModuleSync`: the page and its documents

Browsers have one tab and one holder each; all accounts share one server, whose
documents are a block of the page or the list of links. The content of a
document is the moment of its last edit, which is also its timestamp, and the
account it was written under: this is all the code compares, and all the
properties tell apart.

| TLA+ | Code |
|---|---|
| `holder[b]` | the `ModuleHolder` singleton; `epoch` `_activeEpoch`, `opened` `_epochCounter`, `generation` and `suspended` the network's; a block's `doc.at` and `fetched` are `_update` and `_sended`, `dirty` the editor's flag; `crons` says which crons tick |
| `home[b]`, `loaded[b]`, `editing[b]` | the Home shown: its `lifecycleEpoch`, `is_initialized`, `editMode` |
| `session[b]`, `user[b]` | the cookie; the account whose key the client holds |
| `leaving[b]` | `user_disconnected` waits for the server |
| `rotating[b]` | a password rotation runs or is pending |
| `call[s]` | one `network_deferredCall` on its way: what it was sent under, what it sent, what was answered, and whether its task is still alive |
| `OpenInner`, `CloseInner`, `CloseIf`, `SuspendInner`, `ResumeInner` | the functions `lifecycle_*_inner` and `network_*_inner` |
| `Mount`, `Leave`, `SignIn`, `SignOut`, `SignedOut` | `Home` and its cleanup, `Connection`, `user_disconnected` before and after its await |
| `FirstLoad`, `PendingRotation`, `RotationStarts`, `RotationEnds` | the effect of `Home`, and the options dialog |
| `EditBlock`, `EditLinks`, `AddBlock`, `Save`, `SaveAll`, `Cancel`, `Remove` | what the user does |
| `Tick`, `Refresh` | `module_refresh` by a cron, and the refresh it spawns |
| `Serve`, `Refuse`, `Fail` | the handlers of `api/modules/mod.rs`, in one step each |
| `Finish` | `network_deferredCall` after its await, with `network_apply` |

Decisions worth knowing:

* The code between two awaits of the browser is one step, as the browser runs
  it. `prepare` reads the holder in the step that reads the generation, so a
  call carries what the page showed when it was sent.
* `Owner::cleanup` ends the tasks of an epoch. What they sent may still reach
  the server: such a call stays, with `live` FALSE, until the server is done
  with it, unless it could change nothing any more.
* A handler that changes documents is atomic by `AccountServer`; a batch that
  fails may have stored any part. `Fail` is also a lost call or answer.
* Timestamps are in nanoseconds, and the clocks of the browsers are taken to
  agree: two edits never have the same one. Ids are random and never collide.
* Blocks behave as to-do lists: their refresh asks for their document, every
  minute. The other modules fetch something else, which is not a document.
* The waits for toasts within `network_deferredCall` are merged with the step
  after them: the generation is tested again after each.
* Not modelled: a sign-in while the sign-out of the same tab still waits, the
  depth of blocks, documents that do not decrypt. The sign-outs of a refused
  rotation and of the options dialog take the same steps as `user_disconnected`.

### 3.7 `SignInContract` and `LoginThrottle`: signing up, signing in, the counters

`SignInContract` says, with no counter, lock, clock, queue or crash, what both
promise: the first sign-up of an identity decides its credential, and a session
becomes that of an identity only by that credential. `LoginThrottle` is the code.
Its last lines map it: the credential of an account is that of its file, the
user of a session that of the stored record, and `proved` is history.

| TLA+ | Code |
|---|---|
| `accounts` | the account files: the form of the verifier (none, former, Argon2) and the credential it accepts |
| `tracked` | `AccountAttemptRegistry`: attempts and last time of each identity, at most `MaxTracked` of them |
| `sessions` | the session records: the counters of sign-in and sign-up, the user |
| `mutex` | `UserMutationRegistry` |
| `request[q]` | one call: what it sends, the one time it reads, its copy of the session, the file it has read |
| `Arrive` | the time is read, once |
| `Admit` | `SessionAttempts::fromSession` and, for a sign-in, the registry's `lockedUntil_get`: before the mutex |
| `Acquire` | the mutex and the loaded file |
| `LoginRefused`, `LoginAccepted`, `StoreFails` | `UserBackHelper::login` past the mutex, with the replacement of a former verifier |
| `SignUp` | `signCheckAndCreate` past the mutex |
| `Tick`, `StepBack`, `Restart` | time; a clock that is set back once; all state in memory is lost |

A refusal is an HTTP error, after which only the record of a signed-in session
is stored: the counter of a session that never signed in is not (`Answered`).
`active_get`, `lockedUntil_get` and `attempt_record` are the code's functions,
with its comparisons. `past` is history; `past.guessed` numbers the wrong
credentials verified of each account, with the time each was verified at.

### 3.8 `MailSync`: the mail module, the IMAP proxy, a mail server

A message is a key: box, UIDVALIDITY, UID. Of a box only the answer to the
proxy's search counts, the unread messages, and its last UID.

| TLA+ | Code |
|---|---|
| `mailCache` | `mailsClientCache`: the boxes with their validity, the mails shown, the marks `pending` and `confirmed`, the list of boxes and the connector it was made for |
| `connector` | `config.imap`, with the selection of boxes and the black list of older versions |
| `mailCall[s]` | a call with what it captured, how far the proxy is, and its result |
| `timers`, `dialogs` | confirmations of a first click; dialogs that show a message |
| `Sync`, `Prepared` | `Mail::sync` and `syncRequest_get` up to the call |
| `MarkRow`, `MarkDialog`, `View`, `Arm`, `TimerFires` | the two clicks on a row, the dialog, their timer |
| `GetBoxes`, `SwitchBox`, `EditAccount` | the configuration form and the holder's import |
| `Serve` | one step of `ImapProxy`: the list, one box of a synchronisation, a mark, a content |
| `MailAnswer` | `sync_apply`, `mailSeen_commit`, `mailSeen_rollback`, `boxSelection_migrate` with `topology_set`, on whatever the module is by then |
| `CallFails`, `Suspend`, `Resume`, `BoxChanges` | lost calls and answers, a rotation, other mail clients |

`told.disturbed` marks what the module does not defend itself against, all of it
in the code: two synchronisations that overlap, an account edited over messages
or calls, a mark or a roll-back of a message that a synchronisation has dropped.
The properties claim nothing after it. `told.contested` holds the messages whose
mark on its way lost its hold of them: one that was marked again, and one that was
taken off the page under the mark, by a synchronisation that found it seen
elsewhere or by deselecting its box (`TakenOff`).

A message whose header is too long, or that FETCH does not bring, is left out of an
answer without an error (`headers_get`, `mailBound.heavy`): it is never shown, and
takes its part of the budget all the same.

`trackedUids` says by rank what the code says by sorting, "the newest of the box,
as many as the budget has left", and `Refused` counts the pairs of a box and a UID.
`MailAssumption` asks that boxes are numbers (their order stands for that of their
names) and that the budget is at least one.

### 3.9 `TodoEditor`: the note editor

The browser edits the text of a block, and ticks the box of a task, before the
editor hears of it, so `screen` and `marks` (the text each row shows, and its kind
and checkbox) and `document` (the blocks) are variables of their own, and so is
`source`, the content of the module. `sent` is history.

| TLA+ | Code |
|---|---|
| `source_parse`, `source_get`, `sourceLine_parse` | `TodoEditorDocument`'s conversions |
| `Type`, `Compose`, `CompositionEnd` | the input event, and compositions, during which nothing is taken |
| `KeySpace`, `KeyEnter`, `KeyBackspaceAtStart`, `KeyDeleteAtEnd` | the keys that change blocks |
| `RangeReplace`, `TaskToggle` | a selection over blocks replaced by a text or a paste; the box of a task |
| `CutAcross` | a cut over several blocks by the browser, which the editor does not see |
| `External` | a newer content from the holder |
| `SaveNow` | the debounced save |

Texts are sequences over any set `Chars` that holds the line break and the marks of
the markers (`TodoAssumption`); lengths are bytes (`Bytes`), since the limits of the
code are. `Lines` cuts a text at its breaks: the k-th line lies between the breaks
that k - 2 and k - 1 others precede, which says what `str::split` does without a
recursion. `foreign` says that the screen holds an edit which the
editor has not taken, and `unheeded` which boxes show a toggle that was refused for
the length of the note (`block_taskToggle`, which then redraws nothing): clicked
again, such a box is right again, and so it is once the rows are drawn anew.

### 3.10 `CalendarDates` and `CalendarRefresh`: what the calendar shows

`CalendarDates` has the operators: the grid of a view, the range asked of the
server, the local days an event is drawn on, the years whose holidays are
needed. A date is a number of days, an instant a number of half days, an offset
-1, 0 or 1 half days: enough for an event to fall on another local day.
`DatesAssumption` is what a calendar has: months of at most 31 days, years of at
least 365, and a view that is opened on a date between `FirstDate` and `LastDate`
(`Anchors`), which are far enough from the ends of what is counted for its grid to
lie in known years. `RefreshAssumption` says that an event does not end before it
begins, which the decoder rejects (`InvalidEnd`), and that a country's holidays of a
year lie in it.

| TLA+ | Code |
|---|---|
| `config`, `runtime` | `CalendarConfig`, `CalendarRuntime` |
| `refreshes` | the tasks of `Calendar::refresh`, each with what it captured and how far it is |
| `searches` | the tasks of `calendarCollections_discover` |
| `cache` | `HOLIDAY_CACHE` |
| `CalendarDraw`, `calendarPeriod_set`, `calendarPeriod_shift`, `calendarViewMode_set`, `Refresh` | what draws or navigates |
| `EditEnter`, `EditLeave`, `IdentityEdit`, `CountryEdit`, `CollectionToggle` | the configuration form |
| `EventsGet`, `RefreshFinish`, `HolidaysGet` | a refresh, collection after collection, year after year |
| `Import` | the holder replaces the module and refreshes it |
| `OthersEdit`, `CacheAges`, `NetworkToggle` | the CalDAV server, the failed year that is asked again, a rotation |

`reused` is the one exemption: a replaced module starts its generations again at
zero, and an answer to the former one may then pass for an answer to the new.

### 3.11 `DialogHost`, `CalendarWrites`, `OptionsMenu`: what lives in a dialog

`DialogHost` is `DialogManager`: one place, which a dialog opened by an answer
takes over another without running its close action, and a timer for the closing
animation that takes down whatever is shown when it fires. The two modules over
it use its operators in their own actions.

`CalendarWrites` has one resource of the CalDAV server with its etag. `Validate`
starts an operation, `Request` is one HTTP request of it (PUT, GET, DELETE, with
their conditions), `Abort` the timeout of twenty seconds, after which the
request may still be carried out (`late`). `reported` and `exposed` are the
servers: whether the etag comes with the report and whether the browser may read
its header. An operation has the number of its `attempt`, so that two creates of
one dialog that were both given up stay two requests on their way.

`OptionsMenu` has the account as the server sees it (key, revision, sealed
preferences), the cookie, the preview, the vault in storage and in memory, and
the futures of one page, cut at their awaits. `IsTask` tells the steps each kind
of future has and what it carries.

| TLA+ | Code |
|---|---|
| `login_get`, `login_apply` | the submit of `Connection`, `ClientState::login_apply` with the preferences |
| `openFn`, `OptionsPreferences`, `preferencesPreview_commit`, `Saved`, `OptionsClose` | the dialog, its inputs, its save |
| `submit`, `passwordRotation_change`, `passwordRotation_finalizePending` | the rotation form and its steps |
| `SignOut`, `pendingLogout`, `SignedOut`, `authenticationRequired`, `Leaves` | the ways out |
| `initialize` | a page load, which resumes a pending rotation |
| `Serve` | the handlers, in one step each; `late` are requests whose page is gone |
| `StorageSets`, `WriteFails` | local storage, which may refuse |
| `OtherSets`, `OtherRotates`, `SessionEnds`, `OverOptions` | another browser, expiry, a dialog opened by an answer |

`authenticationRequired` is a request of a module, of the holder or of a proxy
(`network_deferredCall`, `toaster_api`), that is refused while the options are open.
The mail and feed requests are not stopped when a rotation suspends the network, so
it may come during one. A page that resumes a rotation has no modules yet and asks
nothing; the model lets it be refused as well, which only adds behaviours.

`disturbed` marks a dialog that came up by itself over another or over the
animation, or a page that was left during a save. What can happen then is a preview
left without its dialog, until the next page load, or a style that the late answer
to the save writes into the cookie of the next sign-in.

The delete buttons of the details are not locked by the closing animation, so the
confirmation may be opened under a timer, which then takes it down.

### 3.12 `DavMultistatus`: reading a CalDAV answer

The parser `multistatus_parse` is a machine over the events of an XML reader:
`stack`, `response`, `propStat`, `responses`; `Start`, `Empty`, `text_append`,
`End` and `Eof` are its branches. The server writes a document (`doc`) in any
order that RFC 4918 allows, texts in pieces, and the connection may break
anywhere; `doc.all` is what it meant. An answer with nothing in it counts as one
that was broken off (`doc.broken`), though the parser accepts it.

`MultistatusAssumption` says that the limits are numbers, that the properties are
those the code knows, and that no response and no propstat is `Nothing` (`None` in
the code).

### 3.13 `WeatherForecast`: the forecast

Time is in hours of UTC, and a browser has an offset that may change once. The
request is made from dates of UTC (`Asked`), the service answers with the hours
these dates have where the browser is (`Given`, external), and the module sorts
them with the offset of the moment it reads (`Cards`). `Refresh`, `Answered`,
`Broken`, `Configure` and `SuspendOrResume` are the module's steps.

`Cards` numbers the dates of an answer by the dates before them, which is the order
the code sorts them into. `WeatherAssumption` says what the code relies on: an offset
is at most a day, a change of the clock leaves the first displayed hour within its
date, and the service gives numbers for the hours around a request.

The throttle of thirty seconds is modelled as it is: `lastUpdate` of a received
answer is never set, so it does not hold anything back.

### 3.14 `PageAssets`: releases and texts

| TLA+ | Code |
|---|---|
| `fleet`, `Rollout` | the servers behind the address, by release |
| `slot`, `BookServed` | `TranslateManager`: a language's book is loaded once |
| `page`, `storage`, `VersionApply`, `CallAnswered`, `Load` | `asset_version_monitor.js`: comparing, noting, reloading |
| `books`, `task`, `Draw`, `BookGet`, `BookAnswered`, `BookLost` | `FluentManager`: one slot per language, with a mutex |
| `ChooseLang` | the language of the page changes, and every text is asked for again |

Document and bundle come from two requests, so a page may load without its
bundle when another release serves ("broken"): then nothing calls the API, and
only the user can reload it.

## 4. Runs

| Run | Question | Result |
|---|---|---|
| `account_server` | Does the file behave atomically, and are answers and sessions right? | holds |
| `account_liveness` | Is every request answered, whatever is dropped? | holds |
| `lost_answer` | Is a rotation whose answer was lost recognised when repeated? | violated (finding) |
| `rotation` | Does the browser keep the account's key, and is "success" true, with one tab and with two? | holds, as long as tabs do not write the vault across each other |
| `late_write` | Do all documents stay readable? | violated (finding) |
| `module_sync` | Do pages and stored documents only go forward, under the right account, whatever is late, lost or closed meanwhile? | holds |
| `login` | Are guesses bounded and locks passing, and is the contract of sign-in kept? | holds |
| `mail` | Do marked messages stay away, is no request too large, does the page converge? | holds |
| `calendar` | Does a grid that says "ready" tell the truth, holidays included? | holds |
| `dialogs` | Do other clients' edits survive, do dialogs come free, do preferences, preview and key fit, is an answer read as it was meant? | holds |
| `feeds` | Do version numbers name documents, do pages go forward and stay recent? Does a forecast tell its days? | holds |
| `page` | Do screen, blocks and source of a note agree? Does a page settle on the release, with texts of one book? | holds |

No property restates a type. The type invariants of the components of
section 5 are proved; those of the other modules are defined in them, for
whoever changes them.

### 4.1 Properties

`AccountServer`:

* `ImplementsAtomicAccount`: every step on the file is one operation of
  `AtomicAccount`. No update is lost; a rotation replaces exactly what it was
  prepared from and is applied at most once.
* `OnlyCurrentSessionsWrite`: documents change only under a session that
  carries the account's version at that moment, even for a request that was
  waiting for the mutex during a rotation.
* `AckedRotationIsInForce`, `RefusedRotationIsNotInForce`: the two answers on
  which the browser acts, promoting or dropping the new key, are true.
* `SessionsNeverAhead`: what makes "differs from the account's version" mean
  "older".
* `EveryRequestAnswered` (liveness): the mutex always comes back.

`RotationBrowser`:

* `RotatorHoldsKey`: while the account is at a rotation of this browser, the
  browser's stored document holds its key, active or pending, whatever is
  lost, late, repeated or reloaded. Excepted are a browser that was told the
  rotation is refused, and tabs that crossed.
* `SuccessIsTrue`: when the answer a tab waits for turns its pending key into its
  active one, which is what it announces as a success, the account was rotated to
  that key. It needs no exception for tabs that crossed.
* `OnlyOvertakenWritesStrand`: a request that still counts, under the key its
  tab holds, never leaves a document the passphrase does not open. What can is
  exactly the overtaken request of the finding below.

The two exceptions are real, not artefacts. A rotation answered CONFLICT may
still be applied later by a delayed first copy of its request, if the document
that caused the conflict has been removed again: the answer was true when it
was given, and the server forgets it. Two tabs that rotate at once, or one that
signs in while the other rotates, write the whole stored document from their
own copies (`users_data.rs:322`), and nothing coordinates them. `pending_set`
(`users_data.rs:319`) does not look for a pending key before it stores one, so a
tab that has not handled its storage event replaces that of the other tab. The
proofs showed what the run is too small for (two tabs, three rotations): a
rotation that only begins across another tab must count as crossed, and a tab
can be refused a key that it already uses, which is no success, so that
`SuccessIsTrue` speaks of active keys that change.

`ModuleSync`:

* `ContentStaysWithItsAccount`: after any sequence of sign-ins, sign-outs, late
  answers and late writes, nothing written under one account is stored for, or
  shown to, another.
* `ShownHomeIsLive`: only the Home that is shown closes the holder it opened,
  although the cleanup of an earlier Home runs after the new one has opened.
* `CronsFollowTheNetwork`: crons exist for shown blocks only and tick exactly
  while the network is not suspended.
* `ShownBlocksGoForward`: the page never exchanges a block for an older version,
  and loses one only to a removal that the server has confirmed.
* `OnlySaveAllGoesBack`: on the server, only a save of the whole page replaces a
  document by an older one. Edit mode overwrites on purpose; the automatic save
  does not, however late it arrives.

`LoginThrottle`:

* `GuessesBounded`: in any window at most `LoginMax` wrong credentials of an
  account are verified, from whatever sessions, and one more for each other
  request: the lock is read before the mutex and not again after it. The window
  is two units shorter than `LoginReset`: a request counts with the time at which
  it arrived, which a clock set back makes a unit older, and the first and the
  last guess of a window may both be so.
* `LocksArePassing`: "locked until" is in the future when it is said, and at most
  one window away, also when the clock was set back; no attempt prolongs a lock.
* `SignsOneAccount`: a session whose requests do not overlap creates at most
  `SignMax` accounts in a window. Overlapping ones work on stale copies of the
  counter.
* `KeepsContract`: the refinement of `SignInContract`.

`MailSync` (nothing is claimed after `told.disturbed`, see 3.8):

* `MarkedReadStaysAway`: a message marked read through this page is not brought
  back by the answer to a synchronisation, whatever overtook what,
  unless it was `contested`.
* `KnownFits`: the page never knows more messages than one request may name; it
  would be refused from then on.
* `Converges` (liveness): once nobody changes the mailboxes, the page shows the
  newest unread messages of the boxes it follows, as many as the budget allows.
  Those whose header the proxy leaves out are not shown, and those hidden by a mark
  that was never answered neither. The boxes it follows are those of the cache: a box whose SELECT was refused
  once is dropped from the cache, and not asked for again until the list is.

`TodoEditor`:

* `SourceIsDocument`: the content that is saved is that of the blocks, and
  reading it back gives it again: a note that is only opened never changes.
* `ScreenShowsDocument`: each row shows the text, the kind and the checkbox of its
  block. Two kinds of refusal are left on the screen: a refused toggle leaves its
  box, and no other, saying the opposite of what is saved; and nothing is said
  while a refused line break or a cut across blocks is shown (`foreign`).
* `LengthKept`: no edit lengthens a note beyond the limit, or beyond what it was.
* `EditsAreSent` (liveness): what is typed is sent.

`CalendarRefresh`:

* `GridTellsTheTruth`: a grid that says "ready" was read for the period and the
  configuration it shows; each day draws the readable events the server had on
  that local date, whatever the offset; what is missing is counted as failed or
  rejected; and only collections of the configured server were asked.
* `HolidaysAreComplete`: every holiday of the grid, in both of its years, and of
  the country shown.

`CalendarWrites`:

* `OthersEditsSurvive`: a series is deleted only in the version that was shown;
  an occurrence is taken out of the newest version, and nothing else with it.
* `PendingIsUnderWay`: a dialog that cannot be closed has an operation under way
  that will release it.
* `CreatedOnce`: one create dialog makes one event, but for the attempts that
  were given up without knowing what became of them: each of those may make one
  more, since a name is drawn for each attempt.

`OptionsMenu`:

* `ShownIsStored`: what a signed-in page is drawn with is what the account holds,
  until another browser or a request whose answer was lost changes it.
* `PreviewGoesWithDialog`: a preview exists exactly while the options are open.
* `KeysFit`: the account's preferences open with its key, and a browser whose
  session is good holds that key, active or pending, though storage fails,
  answers are lost and pages reload in between.

`DavMultistatus`, `ParsedIsMeant`: of each resource its own href and the
properties of its successful propstats, whole, and nothing of another; a document
that was broken off is not taken for a short one, except that an answer with nothing
in it is taken for one without resources; and nothing else is refused.

`RssProxy`:

* `VersionNamesContent`: one number never stands for two documents, in the
  cache, in a call or on a page, so that NOT_MODIFIED may be decided by numbers.
  A number is the clock or the loaded number plus one; it can be given twice only
  when both fail: two new documents in one millisecond or a clock set back, and
  with that overlapping calls or a lost entry (`NumbersMayRepeat`).
* `ShownWasRecent`: what a page was last told is at most the time to live and one
  fetch old, plus what the clock was set back.
* `ShownGoesForward`: a page goes back to an older document only after calls
  overlapped or the entry was lost. (A failed save counts as a loss: the next
  call starts from the older entry.)

Each exception is needed: without any one of its parts TLC finds a behaviour
that breaks the property.

`WeatherForecast`, `ForecastTellsTheDay`: one card for each date asked for, in
order, with the extremes of its own hours, wherever the browser is; unless the
offset changes within the forecast.

`PageAssets`:

* `SettlesOnRelease` (liveness): once one release is left, the page runs it or has
  been reloaded for it, and is not reloaded any more. Excepted are storage that
  does not work, a page that does not know its own hash and one without its
  bundle.
* `TextsShareTheirBook`: the texts of a page in one language come from one book.

What the models show besides, and the code does not promise otherwise:

* A module write that waited for the mutex while its own browser rotated the
  passphrase is refused with its copy of the session from before, and flushes
  (`user_back.rs:254`): that deletes the record the rotation has brought to the
  new version, and the browser that rotated is signed out.
* Links are imported without comparing times, so a retrieve under way undoes an
  edit of them; a removed block comes back when a retrieve sent before is
  answered after; a save answered OUTDATED is announced as stored; "Cancel
  changes?" asks the server for what is newer than the edits, which nothing is,
  so that the edits stay.
* When a feed changes between the answers to two calls, the call that was told
  304 may save last and put the older record back (`wget.rs:307`).
* The effect of the Home page sends a second sign-out after every clearing of the
  browser's state (`home.rs:60`). Its late answer clears a sign-in made since.
* When the offset of the browser changes within a forecast, an hour may fall out
  of the dates asked for and gets a card of its own, whose wind is -infinity.
* While two releases serve, each answer of the other one may reload the page
  again. It settles only when one is left.

### 4.2 Bounds, and why they are enough

* `account_server`: two request slots, one session id, two keys, two documents,
  one payload, one rotation, `MaxVersion` 1. Every conflict of the handlers is
  between two requests, and a slot is reused without bound, so that a rotation
  can be prepared, overtaken, repeated and refused in one behaviour. Two
  documents make batches that stop half-way. The symmetry sets are model values
  that are only compared; they are used for safety only.
* `account_liveness`: the same with one document, from a state in which a login
  has happened, without symmetry. `lost_answer` likewise with one document.
* `rotation`: a behaviour follows one of two cases. `OneTab`: two rotations, so
  that one can follow or be overtaken by another, by either browser, and six
  requests on their way, which removes no step (with 8, 9 and 12 the states of
  this case are the same). `TwoTabs`: one rotation and two requests on their way:
  a rotation of one tab and a write of the other.
* `module_sync`: each behaviour follows one of four cases, because all of it at
  once is out of reach: one browser with edit mode and two calls at once; one
  browser that two accounts share, with a rotation, two openings of the page,
  expiry and sign-outs; two browsers of one account with two calls at once; two
  browsers of which one uses edit mode. A case bounds the openings, rotations,
  calls on their way and the last moment, which opening a page and each edit
  move towards (`MaxTime` is the last of all cases). Two calls suffice for every
  overtaking, since a slot is used again once its call has ended; one account of
  two documents and one of a single one tell batches, mixed answers and an
  account without links.
* `login`: two requests at a time, `LoginMax` 2, windows of 4 (sign-in) and 3
  (sign-up) in 6 units of time, a registry of one. Five cases: one account guessed at five times with a clock
  that steps back; guesses, successes, failures to store and restarts; two
  accounts and a full registry; two sessions that sign one account up; one session
  that creates accounts and signs in. Five guesses pass the limit with one queued
  behind the mutex and one after the window.
* `mail`: two boxes, a budget of two, three UIDs, two validities, two calls. Nine
  cases: one call at a time with every failure; overlapping calls; a suspended
  network; armed rows; two boxes that share the budget and may be refused; a
  message that is left out; and three with an edited configuration, among them one of an older version. `changes`
  bounds what users, other clients and failures do (3 to 5), after which
  `Converges` applies.
* `calendar`: two collections of one server, three events (before the week, one
  that cannot be read, a whole day), a week that spans two years and its month,
  two countries, two refreshes at a time and `MaxEdits` 3 actions from outside: a
  change, a change back and one more, each with every answer before or after it.
* `dialogs`: three dialogs, three versions of the resource, two attempts of a
  dialog that were given up (it is then the only one to have any, `WritesBound`;
  else one of each), servers that tell the etag in one of the two ways; two keys, one
  failure, one revision by another browser, two languages and two hues. The
  options are opened twice at most and not followed any further once `disturbed`
  (constraint `OptionsBound`; symmetry of the languages, which are only
  compared). Multistatus documents of up to two responses and three pieces of
  text, to a depth of six.
* `feeds`, RSS: two pages, two revisions, four milliseconds, of which the clock
  may be set back one, a time to live of one and a fetch that ends in the
  millisecond it began in: enough for an entry to be fresh, go stale, be fetched
  twice at once, saved late and go stale again. Fetches that take time are in the
  theorems. Weather: days of eight hours, of which four are displayed, five zones
  of which two change their clock, two places, zero days (taken as one) or two,
  two requests.
* `page`: notes of at most three blocks and five bytes, four edits, five cases
  (markers and merges; tasks at the limit with contents from the holder;
  characters of two bytes and a note beyond the limit; compositions; cuts the
  editor does not see). Two releases of which the older has no French book, two
  texts, one error; which releases are hashed and whether storage works are
  chosen at the start.
* `MaxVersion`, `Rotations`, `MaxTime`, `MaxRevision`, `StepsBack`, `MaxUid`,
  `MaxEdits`, `MaxRefreshes`, `MaxRequests`, `LastHour`, `MaxDialogs`, `MaxLost`,
  `MaxKeys`, `MaxFaults`, `MaxChunks`, and the records of `Cases`,
  `ThrottleCases`, `MailCases`, `TodoCases` and `AssetCases` are bounds. No other
  bound is in a guard.

Deadlock is checked except where a behaviour may end because a bound is reached
and users need do nothing more (`module_sync`, `login`, `mail`, `calendar`,
`dialogs`, `page`).

### 4.3 Fairness

* `account_liveness`: strong fairness of `Handle(r)`, the steps a handler takes by
  itself. The executor polls every handler that can move, and the tokio mutex is
  first-come first-served, so a handler that can take the mutex again and again
  is not passed over for ever. Nothing makes a client call, a connection drop, a
  session expire or the server restart.
* `mail`: weak fairness of `Sync` (the cron of the module ticks every half hour, and
  sends whatever else happens), of `Serve` and `MailAnswer` for each call (calls have
  timeouts), of `TimerFires` and of `Resume` (a rotation ends). Nothing makes a
  user or a mail client act, or a call fail.
* `page`: weak fairness of `SaveNow` (a debounced save is due at last), of the
  reload that has begun, and of `CallServed` and `CallAnswered` for each release:
  the crons of a page call all the time, and a server that is left answers.
  Nothing makes a release be rolled out, a text be drawn or a user reload.
* All other runs assume none.

### 4.4 Findings

* `lost_answer` (`user_back.rs:811`). The comment at `user_back.rs:168-170` says
  that keeping the rotation id lets the exact pending request recover through
  the receipt. The id is written into the request's copy only and reaches the
  store with the response: if the handler is dropped after the file was saved,
  the stored session has the old version and no id, and the repetition is
  answered AUTH_REQUIRED.
* `late_write` (`module_holder.rs:343`). "Password changed. Your encrypted data
  remains available." (`static/translates/EN/main.flt:83`). A module write that
  is on its way when the rotation commits is served under the rotated session
  and stores a document under the old key, which nobody keeps.

## 5. Proofs

Eight modules hold theorems, about thirteen components. A run shows a property on
a small instance; its theorem for every value of the constants that the named
assumptions allow. Those say that bounds are natural numbers, that the sets a
run chooses its cases from are well formed, and that `None` and its like belong
to no set of values. For each component one inductive invariant carries everything;
it was checked by TLC before it was proved. A lemma for each action, or for a few
that are alike, shows that it is kept.

### 5.1 `AccountServer_proofs`

It proves, for any sets of requests, sessions, documents,
keys, payloads and rotations and any `MaxVersion`:

| Theorem | States |
|---|---|
| `TypeCorrect` | `TypeOK` and `Phases` (what each `pc` implies of the other variables of a request) |
| `SafeAlways` | the inductive invariant `Safe` |
| `SessionsAndReceipt` | `SessionsNeverAhead` and `ReceiptVouches` |
| `CurrentSessionsWrite` | `OnlyCurrentSessionsWrite` |
| `AccountIsAtomic` | `ImplementsAtomicAccount` |
| `AckedRotation`, `RefusedRotation` | `AckedRotationIsInForce`, `RefusedRotationIsNotInForce` |

They rest on the named assumptions of `AccountData` and `AccountServer` only:
`MaxVersion` is a natural number and `None` belongs to none of the other sets.

The argument. Type correctness is inductive together with `Phases`, which says
that a handler holds the mutex exactly in `holding`, has a loaded file only
there and an answer only in `done`. None of the safety properties is inductive
by itself; `Safe` adds

* `LoadedIsCurrent`: the file a handler holding the mutex has loaded is the file
  on disk. This is what makes "load, change, save" atomic, and holds because
  every save is made under the mutex;
* `WritersAreCurrent`: a write admitted by the version test stays current until
  it returns, because only a rotation changes the version and needs the mutex;
* `SessionsNeverAhead` and `ReceiptVouches`, which support each other: a session
  is only ever given the version of the file, and the receipt that of a rotation;
* `RotationsAreDrawn`: the id a prepare call will draw was not drawn before, so
  a snapshot is never replaced.

`SafeStep` takes the actions one by one. The refinement maps `account` and
`prepared` to themselves; `AtomicStep` shows which actions are operations of
`AtomicAccount` (`WriteDoc`, `LoginAccept`, `PreparePassword`,
`FinalizeCommit`) and that all others leave both unchanged.

### 5.2 `Feeds_proofs`

Of `RssProxy`, for any set of pages, time to live, timeout and bounds:

| Theorem | States |
|---|---|
| `Inductive` | the inductive invariant `IInv` |
| `TypeCorrect` | `TypeOK` |
| `VersionsNameContent` | `VersionNamesContent` |
| `PagesAreRecent` | `ShownWasRecent` |
| `PagesGoForward` | `ShownGoesForward` |

They rest on `RssAssumption` (the bounds are natural numbers, and there is a
first revision) and `NoneIsNothing`. The properties are not inductive; `IInv`
adds three independent parts:

* `HonestInv`: every record, loaded, due or stored, says something that the feed
  said at its date or until at most one fetch before. A revalidated record
  inherits this from the feed's "not modified", not from the record. It survives
  any overlap, which is why `ShownWasRecent` needs no exception of its own: it
  cites `VersionNamesContent` only for pages that are told NOT_MODIFIED.
* `QuietInv`: as long as no calls overlapped and nothing was lost, the entry
  follows (`Follows`) all pages and all loaded records, and at most one call is
  about to save, a record that follows the entry. This gives `ShownGoesForward`
  and, since a new number exceeds the loaded one, `VersionNamesContent` when the
  clock is of no help.
* `ClockInv`: as long as the clock was not set back and no two new documents came
  in one millisecond, every number is at most the time of the last new document;
  the next is then new whatever was loaded. This gives `VersionNamesContent`
  when calls overlap.

Of `MailSync`, for any accounts, boxes, UIDs, calls and cases and any budget:

| Theorem | States |
|---|---|
| `MailInvariant`, `MailTypesKept` | the inductive invariant `MailInv`, `MailTypeOK` |
| `KnownAlwaysFits` | `KnownFits` |
| `MarkedReadIsGone` | `MarkedReadStaysAway` |

They rest on `MailAssumption`. Neither property is inductive, because both are about
a page and an answer that was computed from what the page was earlier. `MailInv` is
`MailTypeOK` and, until `told.disturbed`:

* `HeldFits`: what the page holds (shown or hidden) lies in the boxes it follows,
  under the validity it knows, and is no more than the budget;
* `SyncsFit`: a synchronisation that is not `late` still names, or has already
  judged, everything the page holds. `SyncFits` keeps the account of the budget: a
  set `kept` of messages the answer brings or spares, which with what is `left` of the
  budget is never more than the maximum. When the answer comes, what the page then
  holds is part of `kept`, and this is `KnownFits`: the page never counts, the
  budget of the proxy does it for the page;
* `MarksFit`: a mark on its way keeps its message hidden, unless contested. It is
  why a message is read on the mail server only while it is hidden, so that no
  answer under way brings it (the second half of `SyncsFit`);
* `OneAccount`: everything held, asked and captured is of the account the connector
  names;
* `ReadsFit`: what this page has marked read and is not unread since is not unread.

The attempt to prove `MarkedReadStaysAway` showed a case the property had claimed too
much about: while the mark of a message is on its way, its box is deselected and
selected again. `topology_set` drops the hidden mark with the box (`mail.rs:602`), a
synchronisation asked before the mark arrives brings the message back after it, and
the message stays until the next one. Such messages are `contested` now.

Of `WeatherForecast`, for any zones, places, days and times:

| Theorem | States |
|---|---|
| `ForecastInvariant` | `WeatherInv`: `WeatherTypeOK` and `ForecastTellsTheDay` |
| `ForecastTells` | `ForecastTellsTheDay` |

They rest on `WeatherAssumption`. The content shown is replaced whole, so the step to
prove is one answer (`AnswerTells`), read with the offset its hours have. `DateIsGiven`
is the heart of it: each date asked for, a date of UTC, has its first displayed hour
among the hours of the answer, wherever the browser is. With equal offsets the dates
read are then exactly those asked for (`DatesRead`), none is left without a displayed
hour, and `CardTells` takes the extremes of a card from its own hours; that they exist
is `GreatestIs`, a finite set of numbers has a greatest.

### 5.3 `LoginThrottle_proofs`

For any sets of identities, sessions, credentials and requests, and any policies:

| Theorem | States |
|---|---|
| `ThrottleInvariant` | the inductive invariant `IInv` |
| `ThrottleTypes` | `ThrottleTypeOK`: no counter outgrows its maximum and the requests that overlap |
| `GuessesAreBounded`, `LocksPass` | `GuessesBounded`, `LocksArePassing` |
| `SignsOne` | `SignsOneAccount`, assuming `SignMax = 1`, the value of `SIGN_ATTEMPT_POLICY` (`user_back.rs:28`) |
| `ContractKept` | `KeepsContract`, the refinement of `SignInContract` |

`GuessesBounded` counts over windows of a history, the code over one counter that
is reset and forgotten. The invariant connects them: the guesses of an account
split into those its counter has (`Guesses`: as many as it counts, none later than
its last time) and older ones that no window holds together with them. `Budget`
is the argument for the bound: what is counted and what was admitted and not yet
counted (`Guessing`) never exceed `Limit`, since a request is admitted only below
the maximum. `SignsOne` follows from a second invariant, `SignUps`: a session
whose requests do not overlap has counted its account, or the window is over.
With two attempts the counter of a session tells the last one only, and a window
that begins at the first does not follow from it; hence the assumption.
`ContractKept` rests on `Mutexes`: whoever holds the mutex has read the file that
is stored.

### 5.4 `ModuleSync_proofs`

For any browsers, accounts, documents, slots and cases:

| Theorem | States |
|---|---|
| `SyncInvariant`, `SyncTypes` | the inductive invariant `IInv`, `TypeOK` |
| `ContentStays` | `ContentStaysWithItsAccount` |
| `CronsFollow`, `ShownHomeLives` | `CronsFollowTheNetwork`, `ShownHomeIsLive` |
| `BlocksGoForward`, `StoredGoesForward` | `ShownBlocksGoForward`, `OnlySaveAllGoesBack` |

The invariant says of each place where a document can be (a holder, a call, its
answer, the server) that it was written under the key of that place and no later
than now. It holds of late calls because of `CallOK`: a call was sent under the
cookie and the key its browser still has, or its session is gone and the server
refuses it; and of sign-ins because a holder that is closed is empty.

### 5.5 `RotationBrowser_proofs`

For any tabs, passphrases, documents, rotations and requests on their way:

| Theorem | States |
|---|---|
| `RotationInvariant`, `RotationTypes` | the inductive invariant `IInv`, `TypeOK` |
| `RotatorHolds` | `RotatorHoldsKey` |
| `SuccessTold` | `SuccessIsTrue` |
| `OvertakenStrand` | `OnlyOvertakenWritesStrand` |

`Calls` says that a tab waits for one request of its rotation or for one answer,
`Truthful` that OK is said of a rotation that was applied (`Done`: the account is
at it, or past it); this gives `SuccessTold`. `Held` is the heart of the rest:
while the account is where this browser took it (`Ours`), the vault has the
account's passphrase, active or pending, and every other pending rotation that
is still known somewhere was overtaken, so that no late request can apply it.
It is kept only while the tabs do not work across each other, which is the
exception the properties make. `LoggingIn` and `Preparing` carry it over the two
moments in which the vault does not yet say what the tab will store.

### 5.6 `Page_proofs`

Of `PageAssets`, for any releases, languages, texts and answers: `AssetInvariant`
and `AssetTypes`, and `TextsShare` for `TextsShareTheirBook`. The book of a language
is asked for by one text at a time and only while the page has none (`OneLoads`),
and what a text shows is what the page keeps (`ShownIsKept`); a book that is kept is
never replaced.

Of `TodoEditor`, for any characters of one or two bytes, notes, contents from the
holder, pastes, numbers of blocks and lengths:

| Theorem | States |
|---|---|
| `TodoInvariant`, `TodoTypesKept` | the inductive invariant `TodoInv`, `TodoTypeOK` |
| `SourceIsTheDocument` | `SourceIsDocument` |
| `ScreenIsDrawn` | `ScreenShowsDocument` |
| `LengthIsKept` | `LengthKept` |

The invariant is short (`EditorOK`: a well-formed document, the source that is its
text, rows that show it unless `foreign`, with the boxes of `unheeded` turned); the work is in what the operations
of a document do, for texts and documents of any size. These are facts that one
would prove by induction, which the provers cannot: each is proved from a least
counterexample instead (`NatHasLeast`), after the recursive function behind
`FlattenSeq` was shown to exist (`FlattenIs`).

* Reading and writing (`ReadIsWritten`): the lines of a text are what lies between
  its cuts, `EndOf` being the k-th of them (`RankedIs`, `EndsAre`); lines cut out of
  a text, put together with breaks, give what was between the first cut and the
  last (`JoinedOfCuts`); a line read as a kind and a text is written as itself
  (`LineIsRead`); and the last block holds the lines that are too many
  (`RestIsRead`).
* Identifiers: an operation replaces a part of the blocks by others (`SplicedIs`),
  whose identifiers are new or those of what it replaces, so that no two blocks
  share one (`LinesReplaceKeeps`, `RangeReplaceKeeps`, `EnterKeeps`, `MergeIs`). A
  row of the screen is therefore the text of one block (`DrawnIs`, `DrawnRetext`).
* Lengths: bytes add up (`BytesAdd`, `JoinedBytes`); a text of which one line is
  another one differs by the bytes of that line (`ChangedBytes`), and two lines made
  one are no longer (`MergedBytes`). So what is taken of an input fits or is no
  longer than what was there (`TakenIs`), and a start of a line that becomes a
  marker costs nothing (`ShortcutBytes`), nor does a marker that goes (`PlainBytes`):
  the edits that the code keeps without measuring them.

### 5.7 `Calendar_proofs`

Of `CalendarWrites`, for any dates, contents, dialogs, versions and lost attempts:

| Theorem | States |
|---|---|
| `WritesInvariant`, `WritesTypes` | the inductive invariant `WritesInv`, `WritesTypeOK` |
| `EditsSurvive` | `OthersEditsSurvive` |
| `PendingEnds` | `PendingIsUnderWay` |
| `EventsAreCounted` | `CreatedOnce` |

`Versions`: what was read for an occurrence is no older than what was shown, and
is the resource while their versions agree, which is what a conditional PUT
tests. `Attempts`: events made and attempts that may still be carried out unseen
are at most the attempts given up, and one more only while the dialog may not be
validated again (`MayAsk`). Proving it showed two things the model had wrong: two
creates of one dialog, both given up, were one element of a set (operations now
have the number of their attempt), and a guard of `calendarEventDetails_open`
bound less than the code's.

Of `CalendarRefresh`, for any collections, events, countries, configurations and
calendar of months and years, and any number of refreshes at once:

| Theorem | States |
|---|---|
| `RefreshInvariant`, `RefreshTypesKept` | the inductive invariant `RefreshInv`, `CalendarTypeOK` |
| `GridIsTrue` | `GridTellsTheTruth` |
| `HolidaysAreAll` | `HolidaysAreComplete` |

`Current` is the heart: unless a generation was `reused`, whoever has the newest one
is alone with it, was asked for the period, the country and the configuration that
are shown, and has not given its events while it reads them. With `Gathers`, what a
refresh has is what the collections it went through had when they were read, and
what it counts as failed is the rest; with `YearsRead`, its days are the holidays of
the years it has behind it. `ReadyIsGathered` is what remains of that once the events
are applied. The theorems then need the dates: the days of a grid are at most 43
(`Grids`), so that they lie in the years of the first and the last of them, and an
event drawn on a local date of the grid overlaps the range that was asked for, which
is a day wider at both ends than the grid (`DrawnIsAsked`).

Of `DavMultistatus`, for documents of any length and depth, any properties and limits:

| Theorem | States |
|---|---|
| `MultistatusInvariant` | the inductive invariant `MultistatusInv` |
| `AnswersAreRead` | `ParsedIsMeant` |

Document and parser are two machines, and the invariant is what relates them while
the answer is read (`Reading`). `PathFits` says which elements may be open, so that
the two innermost ones, which is all the parser looks at, tell which property a text
belongs to, and an `href` of no property is not taken for one. `KeepsUp` says that
response and propstat of the parser are those of the document from the element that
opens them to the one that ends them. `ToldOnce` is what `merge` relies on: the
parser replaces a text where the document means both, and the two agree because a
response tells a property once (`MergeIsAll`).

### 5.8 `OptionsMenu_proofs`

For any languages, hues, keys, dialogs, faults and revisions:

| Theorem | States |
|---|---|
| `OptionsInvariant`, `OptionsTypes` | the inductive invariant `OptionsInv`, `OptionsTypeOK` |
| `ShownAgrees` | `ShownIsStored` |
| `PreviewEnds` | `PreviewGoesWithDialog` |
| `KeysAgree` | `KeysFit` |

None of the three is inductive. `Signed` says who has a vault and that a sign-in
starts with nothing else being asked; `Runs` that one rotation runs at a time,
that it is prepared while none is pending and that what it finalizes is what is
pending; `Attended` that a save keeps its dialog up and everything else away,
which is what `optionsCanClose`, `running` and the timer are for; a page that is
left during a save is `disturbed` from then on. `Keyed` is what
`KeysFit` needs of late requests: a finalize that is still on its way is that of
the pending rotation, or of the key the account has, or was prepared from a
revision the account has left, so that the server refuses it. It is why a
conflict lets the browser forget the pending key. `Agreeing` says when what the
page was told of the account is still so: an answer to a save or a sign-in that
is on its way agrees with the server, not yet with the cookie.

### 5.9 Only model-checked

* `EveryRequestAnswered`, `Converges`, `EditsAreSent` and `SettlesOnRelease`:
  liveness under fairness is out of this prover's reach.

Every other property of a passing run has its theorem.

## 6. Not modelled

Each component of the inventory is listed in `PROJECT.json` with what is
modelled of it and why the rest is not. Left out:

* of the server: the size limits of contents, the registration switch and the
  format checks of a sign-up (they hold no state), the limits of the proxy
  cache's clean-up (an entry may go at any time), redirects, the outbound permits
  and address filter (a model would restate the predicate), security headers,
  health, tracing, start-up, the server-side rendering of texts;
* of mail: the parsing and cleaning of messages, addresses and tags, the list of
  images that may be loaded, the placement of overlays, the exclusion of the Gmail
  inbox;
* of the calendar: labels and colours, the widgets of the create form, the text of
  iCalendar objects and the expansion of recurrences, which the server does;
* of notes: the caret, links and inline marks, the levels of headings,
  non-breaking spaces;
* of the page: the focus and layout of dialogs, toasts, the geometry of the hue
  wheel, colours and icons of the weather, the formatting of messages, the depth
  of blocks, the migration of former cookies, several tabs in the options;
* the cryptography itself: a blob opens under the key it was sealed with, a
  verifier accepts one key.
