# SangamDrive API: specifications

TLA+ models of the Go API under `apps/api`, the TLC configurations that check them,
and proofs for TLAPS. SangamDrive shows the files of several Google accounts as one
drive. It stores identity, credentials and display order; Google owns the files and
is asked live. What can go wrong is therefore concurrency and failure *around* a few
small tables and one in-memory cache, and that is what is modelled.

## The system

| Component | State | Operations | What is hard | What makes it correct |
|---|---|---|---|---|
| Token cache, `google/tokens.go` | cached access tokens, one refresh in flight per account | `AccessToken`, `Forget` | goroutines share a refresh; rotation and disconnect happen meanwhile; Google fails or answers late; a row cannot be opened | one flight per account, entries that match their credential, no token of another account, everybody answered |
| Accounts, `accounts/service.go`, `routes_auth.go` | the `accounts` table | link, reconnect, upgrade, disconnect, reorder, list, note a failure, touch | no transactions: rows read, then written whole, later; check then insert; a crash in between | one row per user and Google account, each with a refresh token of that very account; what is deleted stays deleted |
| Sessions, `auth/auth.go`, `routes_auth.go`, `cmd/server/main.go` | `sessions` and `users` tables | issue, resolve and touch, log out, log out everywhere, first login, hourly sweep | logout against requests in flight, first logins that race, timestamps ordered as text | an ended session stays ended, never extended, one user per email |
| Merged listing, `files/service.go`, `files/cursor.go`, `web/lib/files.ts` | a cursor, held by the client | list, load more | fan-out in which some calls fail, accounts that come and go between pages, lost answers | pages in turn, nothing missing in silence |
| Folder paths, `google/files.go`, `files/service.go` | none beyond a request | `ResolvePath`, beside the fan-out | folders that move while the path is walked, cycles, the goroutine limit | a path is one, ends at the folder, keeps to its bound; the listing does not wait for ever |
| Order of a page, `files/sort.go` | none | `merge`, `sortFiles` | ties between files of several Drives | one order, whichever account is listed first |
| Drive calls, `google/drive.go`, `google/errors.go` | none beyond a call | `call` with retries | answers lost or late, 5xx for what was done, deadline in a pause | a create happens at most once, "ok" means done |
| File operations, `files/service.go`, `google/files.go` | none beyond a request | create a folder, rename, move, trash, delete | a move is a read and a write; somebody else changes the file | what the user is told is what he finds |
| OAuth round trip, `auth/state.go`, `routes_auth.go` | a signed state that travels, one state cookie per browser | start, callback, the three intents | several tabs, replays, late and lost answers, logins and logouts in between | a trip ends where it began, for whom it began, and once |
| Rate limiter, `httpx/middleware.go`, `server/server.go` | hits per key and window, in memory | limit | the order of middlewares, the border of windows, restarts | bursts are bounded |
| Schema and migrations, `store/sqlite` | `schema_migrations` and what it records | `Migrate`, `applyMigration` | two processes on one file, killed at any moment | each migration once, in order, recorded exactly if applied |
| Server process, `cmd/server/main.go` | – | start, listen, shut down | signals and kills at any stage, the end of the grace period | who serves has migrated; a process comes up |
| Storage summary, `accounts/service.go` | none | `Summarise` | sums over different sets of cards | totals agree with the cards |
| Preferences, config, logging, encryption, CSRF, headers, web UI | – | – | – | not modelled, see below |

They interact by calls. A handler resolves the session, reads account rows from the
store, opens the refresh token of a row (which fails for rows sealed under a former
`ENCRYPTION_KEY`), gets an access token from the cache, calls
Drive with it, and reports rejected credentials back to the row (`NoteFailure`), to
the cache (`Forget`) and to the user. SQLite has one connection and no handler opens
a transaction, so the statements of concurrent requests interleave freely; handlers
decide on rows as they read them. Only a migration runs in a transaction. All requests
pass the rate limiter, and live no longer than the process that has them.

## The modules

| Module | Models | Notes |
|---|---|---|
| `TokenManager` | `AccessToken`, `cached`, `Forget` | a step is one critical section of `mu` or of the singleflight group, or one answer of Google |
| `AccessTokens` | the `AccessTokens` interface | abstract: asked, then answered, alone or with others of the same account |
| `CredentialLifecycle` | `EXTENDS TokenManager` with rows, grants, `NoteFailure`, `Disconnect`, `completeReconnect` | composes cache, table, encryption key and Google |
| `ConnectedAccounts` | the `accounts` table and every request on it | a step is one SQL statement or one call to Google |
| `AccountVault` | the table as its users see it | abstract: connect, replace the refresh token, disconnect |
| `Sessions` | `Resolve`, `Issue`, `Revoke`, `RevokeAll`, `completeLogin`'s user, `pruneSessions` | a step is one SQL statement; timestamps are compared as the texts they are |
| `FileListing` | `List`, `targets`, `listOne`, `nextCursor`, the client's infinite query | a step is one row read, one Drive answer, or one answer to the client |
| `Breadcrumbs` | `EXTENDS FileListing` with `resolvePath`, `ResolvePath` and the goroutine that runs them | each call may name any folder as the one above: folders move |
| `FileOrder` | `merge`, `sortFiles`, `less`, `driveOrderBy` | operators, and one step that makes a page |
| `StorageSummary` | `Summarise`, `StorageQuota.Free` | the loop, against sums |
| `ReadRequests` | the three above, as the requests a dashboard makes | they share no state: a behaviour is of one of them |
| `DriveCall` | `Drive.call`, `mapAPIError`, `IsRetryable`, `sleepCtx` | Google carries requests out late, or answers 5xx to what it did |
| `FileOperations` | `EXTENDS DriveCall` with `CreateFolder`, `Update`, `Delete` of one file | a move is two calls under one deadline; somebody else may change the file between any two steps |
| `Requests` | `EXTENDS ReadRequests, FileOperations` | all requests that reach Drive, again one at a time |
| `OAuthFlow` | `handleAuthStart`, `handleAuthCallback`, `completeOAuth`, `SignState`, `VerifyState` and the cookies | a cookie is read when a request leaves and written when an answer arrives |
| `SignIn` | `EXTENDS Sessions, OAuthFlow` | neither reads what the other writes: a behaviour is of one of them |
| `RateLimiting` | `RateLimit` where `registerRoutes` mounts it | |
| `ServerLifecycle` | `EXTENDS RateLimiting` with `run`, `Migrate`, `applyMigration` | processes of several versions on one file; the limiter lives and dies with its process |
| `TokenManagerProofs`, `ConnectedAccountsProofs`, `SessionsProofs`, `FileListingProofs`, `ReadRequestsProofs`, `DriveCallProofs`, `OAuthFlowProofs`, `ServerLifecycleProofs` | theorems about the module each is named after, and about `CredentialLifecycle`, `Breadcrumbs`, `FileOrder`, `StorageSummary`, `FileOperations` and `RateLimiting` | see Proofs |

`MC*` modules give the constants values for TLC. Operators named `X_Something`, each
just before the definition `X` it varies, are plausible bugs of `X`; no behaviour uses
them. They say what a property would catch.

How state corresponds to code, where it is not obvious:

- An access token is represented by the refresh token it was minted from: the one
  fact the properties need. An opaque token differs each time, and no code compares it.
- `flight` is the map of the singleflight group; `Finish` is the moment the leader's
  call ends and the value and the error of its waiters are set.
- `snap` and `list` in `ConnectedAccounts`, `snap` and `readAt` in `Sessions` are the rows and
  the time a handler holds in local variables: nearly every hazard here is that they
  are old when they are used.
- Emails, names, avatars, file contents and messages are left out. They are copied
  and never decided on.
- `foreign` in `CredentialLifecycle` and `ConnectedAccounts` are the refresh tokens sealed
  under a key the process does not have, so that `OpenRefreshToken` fails on them. In
  `ConnectedAccounts` a restart may make all of them foreign; a key that comes back is left
  out. A row always has a refresh token: `completeOAuth` turns an empty one away, so the
  check for one in `Refresh` is never reached.
- `refused` in `CredentialLifecycle` remembers of which accounts Google has rejected a
  refresh token, or Drive an access token: a 401 of Drive may come whatever the grant.
- A timestamp in `Sessions` is a number of instants, `PerSecond` to a second, and its text
  is that number's digits in base `Base`: the seconds, which are all written alike, and
  `Digits` places of a fraction, cut after the last that is not zero (`Place`). In the
  program these are 10 and 9; with 2 and 2 there are a fraction that is a prefix of
  another, and one that is empty.
- In `ConnectedAccounts` the access token is asked for afresh; the cache in between
  is the business of `CredentialLifecycle`. In `Sessions` the account row a login also
  writes is left to `ConnectedAccounts`; that it may fail is kept (`IssueSession`).
- In `OAuthFlow` a trip stands for its state and its nonce, and a visit for a request to
  the callback and for the code Google may have issued with it. What a completed trip
  writes is in `ConnectedAccounts` and `Sessions`; the session cookie is the user it is
  of, and that resolving it may fail is kept.
- In `ServerLifecycle` a version is the number of migrations it carries. What a migration
  did shows when it commits; `writer` is SQLite's write lock.
- In `FileOrder` names, times, sizes and addresses are numbers in the order Go compares
  them in: what is lower-cased, parsed or absent there is so before.
- A failure of the leader's context in a shared refresh becomes `upstream_unavailable`
  (`tokens.go`), as any failure to reach Google does; the joined callers fail with it, and
  their account is not flagged.
- An account's status `disconnected` exists in the schema, and no code ever sets it.

## What the runs show

Passing runs:

| Run | Bounds | What it shows |
|---|---|---|
| `token_safety` | 3 goroutines, 2 accounts, 3 refresh tokens (one account rotated), 2 instants | all safety properties of the cache, and that it implements `AccessTokens` |
| `credential_lifecycle` | 2 requests, 1 account, one reconnect | a row is flagged only with cause, so an outage never flags one; every call is answered; after a rotation the old credentials are used for a while, never for ever |
| `accounts_safety` | 2 requests of any kind, 2 users, 2 Google accounts, 3 account ids, limit 2 | the table stays a vault of refresh tokens (`KeepsVault`), rows change only for their owner, a lone reorder does what it says, a lone link narrows no scope |
| `requests` | 2 Drives of 3 and 2 pages and a third that may come, room for 2 accounts and 2 goroutines, one answer lost; 4 folders and a path of at most 3; pages of up to 3 files of 2 accounts, in either direction, 2 values of each key (sizes alike); 3 accounts of 3 amounts; 4 attempts, as in the code, 3 folders to move to and 3 names | pages in turn, nothing missing in silence, a path is a path, a page reads as one list, the totals add up, and the fan-out ends, that of a folder too; a create happens at most once, "ok" means done, an answer to a single attempt is final, a change that is alone takes effect, silence after the deadline, and the handler ends |
| `sign_in` | 3 requests, 2 emails, 2 sessions, 5 instants, 4 to a second; 2 trips of one browser, 2 returns in it or another, 2 people with a Google account each, one account connected, a mishap | ended sessions stay ended and nothing is extended, a session is its user's, the sweep is early by less than a second; a trip ends where it began and for whom, its state is used up, a link strays only when a login crosses it, nobody is turned away without cause |
| `server_lifecycle` | 2 processes of versions 1 or 2, one migration that may be repeated and one that may not, 2 kills, failures or shutdowns; 1 browser, 2 addresses, limit 1, window 2 | bursts of at most twice the limit in a run of a server, the schema in order, nobody serves who has not migrated, a process comes up |

Type invariants are not among the properties of the runs: they are proved
(`TypeCorrect`, `HandlerTypes`, `SumsTyped`).

The bounds are small and each reaches the case it is about. Two goroutines suffice
for a stale joiner; the third makes a waiter and a late leader of the same account.
Two accounts are needed to confuse them. Two requests are enough for every
read-then-write race between statements, and the second user for every mistake of a
`WHERE` clause. Three pages make a first, a middle and a last one; three accounts for
two places make one that is cut off. Four folders make a path longer than the bound, and
a circle. Three files are enough for two of one Drive with one of another between, and
for a comparison that is not transitive. Two trips make a second tab; two returns make a
reload, a replay or two callbacks that overlap. Three requests are a login, a use and a
logout of one session. Two processes race for the lock and for
the port, and two mishaps let one die on the way and another after it. The clocks run
just past the intervals they are compared with. `credential_lifecycle` starts with the
first of the two refresh tokens stored, as they differ in nothing but their names, and
`sign_in` with nobody signed in or with the one whose account is connected. Symmetry is
used for goroutines, trips and visits, in runs that check no liveness. One mishap is
enough to lose an answer, sign out, disconnect or let a state age anywhere in a trip; what
several of them do together is left to the proofs, which hold for any number. No run takes
more than about two minutes with two workers.

Deadlock is checked, but not in two runs: in `sign_in` the requests and the time run out,
or the trips and returns, and in `requests` a page once made or a sum once made is the end
of its request. `timestamps_as_text` is like `sign_in`.

Runs that end in a counterexample each check one sentence of the documentation or of
a comment which the code does not keep:

| Run | The sentence | What happens |
|---|---|---|
| `disconnect_drops` | a disconnect "drops the cached access token" | the refresh in flight puts one back |
| `reorder_stale` | "display order is cosmetic" | a reorder writes back whole rows read before a reconnect |
| `account_limit` | "up to 50 Google accounts" | count and create are two statements |
| `empty_exhausted` | "NextPage is empty when every account has been exhausted" | an account that failed once is dropped from the cursor |
| `timestamps_as_text` | the format "keeps timestamps sortable as text", and the sweep takes "rows past their expiry" | within a second `:05.5Z` sorts before `:05Z` (and `:05.55Z` before `:05.5Z`), and a session is taken before it expires |
| `limit_by_session` | the limit is "keyed by session when authenticated" | the limiter is mounted before the session is known, and counts by address whoever asks |

The same races bend other sentences a little, and there the passing runs check what
does hold: a caller with a new refresh token may join a refresh begun with the old one
(`OnlyJoinersGetForeignTokens`, `RotationConverges`); a request that failed with the
replaced refresh token flags the row a reconnect has just repaired
(`FlaggedOnlyWithCause`); a link beside an upgrade may narrow the scope, which "never
silently narrow" in `upsertAccount` does not expect (`LoneLinkNeverNarrows` is about a
link that is alone), and a reconnect stores the scope it was asked for; an account beyond
the room of a listing is missing from it without an entry in `meta.errors`, which
`docs/api.md` reads as "all accounts responded" (`NothingMissingInSilence` leaves those
out); a request whose session goes between read and touch is answered 500 rather than 401;
and a consent link works once only after its first answer has arrived (`StateUsedUp`): of
two callbacks of one trip that overlap, both get past `VerifyState`, and it is Google, who
takes a code once, that stops the second, unless it comes with a code of its own.

Worth knowing, and no disagreement with any text:

- The free space of `/storage` subtracts the usage of unlimited Drives from the limits of
  capped ones, which its test pins; it never overstates (`FreeNeverOverstated`).
- A deletion whose answer was lost is retried and answered 404; the file is gone either
  way (`LoneChangeTakesEffect`).
- A file that somebody else moves between the read and the write of a move ends in both
  folders.
- Sorted by account downwards, the files of a Drive are asked for by name downwards and
  then sorted by name upwards within the page, so pages do not continue one another
  (`ReadsAsOneList` leaves that field out).
- A disconnect cannot revoke a refresh token it cannot open; the row goes, the grant stays.
- A restart forgets the hits (`BurstBounded` is about one run of a server), and `docker
  stop` kills after ten seconds where the server
  gives its requests thirty.

## Fairness

Fairness is part of a specification only where a run checks liveness. It assumes that
goroutines that can run do run, and that every call to Google ends: the HTTP client of
the token endpoint has a timeout, Drive calls have the deadline `DRIVE_TIMEOUT`. In
`DriveCall` and `FileOperations`, `Expire` is fair and `Do` then returns, with an answer
or without; in `Breadcrumbs` the calls of a path are fair together, under one deadline.
In `ServerLifecycle` a process that is down is started again, as
`docker/docker-compose.yml` says (`restart: unless-stopped`), a process that is not
killed goes on, and a wait for the write lock ends when the lock is free; a second
process that finds the port taken ends and is started again, which is why `ComesUp` asks
for *some* process that stays. Nothing is assumed of users, of the clock, of grants
being lost, of kills and failures (they are bounded), of a grace period being long
enough, or of Google answering well: weak fairness is on "Google answers or the call
fails", never on success.

## Proofs

All the modules but the two abstract ones are proved about, in eight proof modules, for
any values of their constants. Assumed are only the named `ASSUME`s of the modules: null
values are no values, durations, bounds and byte counts are naturals, account ids and the
addresses of the accounts listed are finitely many, the tables a behaviour starts from
are in order, every Drive has a page, and two refresh tokens in use share no fingerprint.
`IInv` is the inductive invariant of a module, `Invariance` says it always holds, and the
other theorems follow from it; `LInv`, `WalkInv`, `LoneInv`, `LimiterInv`, `SummaryInv`
and `OrderInv` are those of a part or of an addition. TLC checked each before it was
proved; now that it is a theorem no run repeats it. The two abstract modules are what
`Refinement` shows implemented.

| Module | Theorems | Properties proved |
|---|---|---|
| `TokenManagerProofs` | `TypeCorrect`, `OneFlight`, `EntriesMatch`, `OwnAccount`, `ForeignOnlyByJoining`, `RefreshOnlyWhenNeeded`, `CacheIsOwn`, `Refinement`, `CacheAmongRequests`, `FlagsWithCause` | every safety property of the cache, that it implements `AccessTokens`, also among requests, and that a row is flagged with cause |
| `ConnectedAccountsProofs` | `TypeCorrect`, `OneCardPerIdentity`, `CredentialsOfTheirCard`, `OwnersOnly`, `Refinement`, `LoneReorders`, `LoneLinks` | every property `accounts_safety` checks: one card per identity, credentials of their own card, rows that only their owner changes, that the table implements `AccountVault`, and what a request that is alone may be relied on for |
| `SessionsProofs` | `TypeCorrect`, `EndIsFinal`, `OwnUser`, `OneUser`, `NoExtension`, `PrunedInTime` | every property `sign_in` checks of sessions, and one user per email |
| `FileListingProofs` | `TypeCorrect`, `InTurn`, `NothingMissing`, `InFolders`, `Paths` | pages in turn and nothing missing, of a plain walk and of a walk into folders; a path is one |
| `ReadRequestsProofs` | `OneList`, `Totals`, `NeverOverstated`, `SumsTyped`, `WalkBesides` | every safety property `requests` checks of what only reads, of any number of files, accounts and folders |
| `DriveCallProofs` | `TypeCorrect`, `CreateOnce`, `OkIsDone`, `GivesUpLast`, `Silent`, `FirstAnswerFinal`, `HandlersKeepPromises`, `LoneChanges`, `HandlerTypes` | what a call promises, by itself and as a call of a handler; a change nobody disturbs is what the user is told |
| `OAuthFlowProofs` | `TypeCorrect`, `OwnTrips`, `UsedUp`, `ToldWithCause`, `LinksFindTheirUser` | a trip ends where it began and for whom, its state is used up, nobody is turned away without cause, a link strays only when a login crosses it |
| `ServerLifecycleProofs` | `InOrder`, `Migrated`, `TypeCorrect`, `BurstsBounded` | every safety property `server_lifecycle` checks: the schema in order, nobody serves who has not migrated, bursts bounded |

**Token cache.** The properties are not inductive one by one: that a waiter is never
orphaned needs that a leader is in the flight under its own account, that an entry
matches needs that a leader's token is its own. `IInv` joins them with
`CallsWellFormed`, what each program counter implies about the variables. The
refinement maps a caller that is anywhere inside `AccessToken` to "asked"; every step is
a stutter but the call, the two answers from the cache, and `Finish`, which answers the
leader and all its waiters at once.

**Credential lifecycle.** Every step of it is, for the cache, a step of `TokenManager` or
none (`UsesCache`), so what is proved of the cache alone holds among the requests. A row
is flagged by a request that could not open it, that Drive answered 401, or that was told
so by its own refresh or by the one it joined. In each case the cause lies with the account
of the row it works on, which is the account of its call (`AboutOneRow`, `WithCause`), and
a cause once given stays one (`CauseStays`).

**Accounts table.** Whatever the request, a step does to the table one of four things
for one user: nothing, or it writes a row whose user and Google account stay, removes
one, or adds one of a Google account the user has no card of (`TableStep`). A handler
writes rows that are old by then, so the invariant says what of a snapshot is still
true when it is written: `RequestWellFormed` keeps, for each row a request holds, that
its id was in use, and that the row now under this id, if there is one, has the same
user and Google account. It stays true because ids are never used twice. Reconnecting
checks that the Google account matches and the insert is refused by the unique index;
these are the two places where `CredOfIdentity` and `UniqueIdentity` are at stake. The
refinement forgets status, scope and order, so a stale reorder is at worst a step of
the vault that stores an old refresh token of the same card.

What a request does that nothing runs beside rests on its rows being those of the table
still (`Undisturbed`). A link that writes such a row keeps the scope of the card. A
reorder is half done when each position written has its card at it and each position to
come still has the row that was read (`Halfway`). That needs that no card is at two
positions: the completed order is as long as the user has cards and has every one of
them, so, by counting, none twice (`OrderOnce`).

**Sessions.** Again one relation, `TableStep`, covers every statement: a session id in
use keeps its user and its expiry or goes for good, and an email keeps its user. What a
request has read (`RequestWellFormed`) is therefore wrong only about rows that are
gone, and a statement that finds no row does not bring it back. That a late request is
refused needs one fact more than the property states: while it waits to read, its
session is among the ended. `PrunedInTime` rests on a lemma about the order of
timestamps as text (`TextOrder`): a text comes before another only if its second does, or
if they share it; so for any base and number of digits the order is wrong by less than a
second.

**Listing.** The argument follows the cursor. While a request is under way it carries the
cursor of the last answer that was read (`Resumes`), and each Drive is asked for the page
after those shown (`Asks`): so a page that is appended is the next one, also when an
answer was lost and the request is repeated. An account neither shown to its end nor told
of is in the cursor, or the walk has only begun (`Pending`); then the fan-out asks it or
cuts it off (`Covered`). So nothing is missing when the cursor is empty (`Complete`). A
walk into a folder makes the same steps as far as the listing goes, which carries both
theorems over (`InFolders`); its own invariant, `WalkInv`, says that what was collected
begins at the open folder, repeats none and is forgotten with the request.

**Order of a page.** `less` is irreflexive and transitive, and any two files that differ in
account or id are told apart (`LessIrreflexive`, `LessTransitive`, `LessTotal`). So each file has a rank, one more than the number of files
before it; of no two files is it the same, hence there is a file of every rank (`Ranks`).
`sortFiles` puts each file at its rank, whatever it found in which place (`SortedByRank`),
so two arrangements of the same files come out the same. Merging pages that have no
account in common loses nothing and doubles nothing (`Flattened`, by induction on the
pages).

**Storage.** What the loop has counted is what the accounts it is past add up to
(`LoopSums`). A fold takes the elements in some fixed order; that the order does not
matter, and that one element more adds just its amount, is proved of every finite sum
(`Sums`), by the smallest set that would not have it so. The free space is never
overstated, for the limits so far are at most the usage so far and what is free on each
card (`NeverMore`).

**Drive calls.** A count: what Google did, and the attempts still on their way, are
together no more than the attempts made, and fewer while the next one is not sent. A
create has one attempt, so it happens at most once. As long as the first attempt is the
only one, what Google did and what the client has heard agree (`First`), hence
`FirstAnswerFinal`. The second call of a move starts afresh, and others change the file
meanwhile; `Parted` is the part of the invariant that survives both, so the same holds
of every call of a handler (`HandlersKeepPromises`). While nobody else touches the file,
how far the change has come is known from whether Google has carried the call out
(`Lone`): once done, doing it again changes nothing, so "ok" is what the user finds.

**OAuth round trip.** The cookie of a browser names a trip that began in that browser and
is at Google (`Cookies`), so a callback that gets past `VerifyState` is in its own browser
and in time (`Verified`). The answer to a callback takes the cookie away, and a nonce is
set only once (`Cleared`), so the state is used up; until another answer writes it the
cookie stays (`Undisturbed`), so nobody is turned away without cause. The user a
reconnection is for is the owner of the account at both ends (`TripsWellFormed` and the
guard of `CompleteReconnect`), which makes him the same. A login answered while a link is
at Google takes the nonce with it. So, as long as the link still has its nonce, whoever is
signed in is the one who began it or was signed in by a login that crossed the start
(`SignedIn`, `Crossing`), and the callback takes that user along (`Carried`).

**Schema.** A process skips no migration (`NothingSkipped`), so what it is about to commit
is at most the next one; the write lock (`OneWriter`) and the primary key of
`schema_migrations` (`AboutToCommit`) see to it that it is none of those there already.
Whoever listens has gone through them all (`UpToDate`), and who has a request has been
listening (`Answering`).

**Limiter.** Of what a server has let through from an address in the last `Window` ticks,
the last are those counted in the current window, and all before them are older than it
is (`Counted`). Those before were let through in one window at most, because a window is
as long as what is looked back on: hence at most the limit before and the limit now. A process that
goes down takes its count along (`CutOffStep`), and what the processes do besides is none of
the limiter's steps (`UsesLimiter`).

Induction over data is done by the least counterexample: a set of naturals that is not
empty has a least element (`Least`, from the well-foundedness of the naturals), and of
finite sets of a kind one is smallest (`Smallest`). The induction theorems of the library
take an operator as a parameter, which the provers cannot instantiate.

Left to TLC is liveness: `EveryCallAnswered`, `RotationConverges`, `RequestAnswered`,
`HandlerEnds`, `ComesUp`. Fairness and `ENABLED` are out of the provers' reach.

## Not modelled

- **Preferences**: three single statements no handler calls.
- **Configuration and logging**: read once at start-up, no state afterwards.
- **Encryption at rest and the CSRF token**: a cipher, or a keyed hash, of one value; what
  makes them right is the cryptography, and no step of theirs interleaves. That a value
  sealed under another key cannot be opened is modelled.
- **Headers, CORS, request ids, recovery, envelopes**: stateless, request by request.
- **The page size per account, the kinds and the mapping of files, validation of input**:
  arithmetic and tables that their unit tests enumerate; none of it decides what is asked
  of whom, or when.
- **The presentation of the web client**: components, styles, routes. Its paging is in
  `FileListing` and `Breadcrumbs`, its part in a sign-in in `OAuthFlow`.
- **Google**: external. Its tokens, grants, codes, pages and files are modelled as far as
  the code relies on them.
