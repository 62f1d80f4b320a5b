# A TLA+ model of ecomm

The repository is a small commerce system: an API gateway whose routing is
administered at run time, an authentication service, three stub services behind
the gateway that it asks by gRPC reflection what they offer, and an admin UI. This
directory holds a TLA+ model of the parts that keep state and run concurrently, TLC
configurations that check it on small instances, and proofs checked by TLAPS that hold
for every value of the constants.

Paths below are relative to `src/apps/`.

## 1. Inventory

| component | state | operations | what makes it correct |
|---|---|---|---|
| **services table**, `api-gateway/internal/registry/sqlrepo.go` | `gateway_services` in PostgreSQL: id, unique `public_prefix`, base URL, protocol, `enabled`, `swagger_json`, health columns | `LoadEnabled`, `List`, `Get`, `Create`, `Update`, `Delete`, each one statement in autocommit mode | the keys of the table; a deleted row stays deleted |
| **cache**, `registry/cache_redis.go` | Redis keys `gateway:services:enabled`, `...:list`, `gateway:service:<id>` with a time to live | read-through GET/SET, three DELs after every write; all errors ignored | an entry is the result of its own query on one committed table; fresh between requests when nothing overlaps or fails; an old one passes in the end |
| **runtime registry**, `registry/registry.go` | `byPrefix`, `order` under a `RWMutex` | `Set`, `Match` | longest prefix first; the map and the order are never seen out of step; nothing of the path is lost |
| **admin handlers**, `admin/handlers.go` | none of their own; each request is a goroutine | list, create, get, update, delete, refresh; each write is followed by `registry.LoadEnabled` | what was written is loaded; a stale write-back does no more damage than one row |
| **health checker**, `health/checker.go` | the list of the current round | a tick, then a probe and an `Update` per service | every enabled service is probed again and again, as long as each base URL can be parsed |
| **start of a gateway**, `cmd/api-gateway/main.go`, `migrate/run.go`, `SQLRepository.Init`, `app/server.go` | `schema_migrations`; which schemas, tables and columns exist | migrate (apply, then record, each), create or extend the tables, load the registry, serve, start the checker | a gateway serves on complete tables, whoever else starts or dies; nothing left behind keeps it from starting |
| **route mappings**, `admin/handlers.go`, `sqlrepo.go` | `gateway_routes`: unique (service, method, path), cascade from services | create, update, delete, and a bulk request that lists, discovers by reflection (`admin/discover.go`) and inserts one by one | the table's keys; the bulk count; the discovered list is what the upstream offers; each method's default path is there afterwards, and its own |
| **proxy and transcoder**, `proxy/proxy.go`, `grpcjson/transcoder.go` | none | match a route, take parameters from path and query, merge the body, call the gRPC method | the longest matching pattern; the body overrides parameters; only what the request or a route names is called, with a message of the description it has |
| **auth-service**, `auth-service/main.go` | `users` (unique email), `refresh:<uuid>` keys in Redis with a time to live; access tokens, which only clients keep | signup, login, refresh, logout, me | an account keeps its password; tokens belong to their account, live until presented, are dead after logout; a session that is over is over for good, for its access tokens too, in the end |
| **admin UI**, `api-gateway-ui/pages/`, `src/components/ServiceForm.jsx` | React state per page: what is shown, `loading`, `submitting`, the contents of a form; requests under way, also of pages left | poll, Refresh, save, probe, delete, create, edit routes; each change is followed by a read or by `router.push('/')` | which answers show up where; no form is locked for good, or sent again before it was answered; the home page converges; what a save changes besides what was typed |
| **user, catalog, orders services**, `*/main.go`, `*/gen/` | a process with an HTTP and a gRPC side; the service it registers | start, end, fixed answers, reflection | a process that answers its health checks serves gRPC or comes to |

### Interactions

    admin UI -> admin handlers -> CachingRepository -> Redis
                     |                   `-> SQLRepository -> PostgreSQL
                     `-> registry.LoadEnabled -> Registry.Set
    main     -> migrate.Run -> SQLRepository.Init -> NewServer -> Registry.Set
    ticker   -> health checker -> CachingRepository (List, Update)
    client   -> proxy.Dynamic -> Registry.Match -> http service
                     `-> ListRoutes -> route matching -> transcoder -> gRPC service
    admin handlers, transcoder -> reflection -> gRPC service
    client   -> auth-service -> PostgreSQL (users), Redis (refresh tokens)

`docker-compose.yml` runs one replica of each process. PostgreSQL and Redis are
shared by the goroutines of a process and outlive it. The repository has no tests.

### What is hard here

* every admin write is a sequence of calls (UPDATE, three DELs, GET, perhaps a
  SELECT and a SET, then `Registry.Set`) that interleaves with the same sequence
  of another request and with the checker;
* rows are read, carried across a network call and written back with every
  column (refresh, health checker);
* errors of Redis, of the reload and of `rows.Err` are dropped, and a request's
  context may end between any two calls, whereas the reload has its own;
* a crash may leave Redis and PostgreSQL at different versions, and the boot
  loads from Redis first;
* rotation of refresh tokens is GET, DEL, SET with no transaction, and access tokens outlive
  whatever is done to the refresh tokens made with them;
* what an upstream is asked by reflection and what it is sent are separate calls, between which it
  may end or come back as another release;
* a migration and the row that records it are two transactions, and two places create
  one table with different columns;
* in the UI, requests of one page overlap, outlive the page, and are answered in any order and from a
  cache, a form stays as it was mounted, and is open again before the page has changed.

`PROJECT.json` lists each of these as a hazard at the line where it bites.

## 2. Modules

| module | models | state | actions |
|---|---|---|---|
| `SQLRepository` | the statements on `gateway_services` | - | operators from tables to tables: `Insert`, `Update` (no upsert, leaves the status columns alone), `Delete`, and the three views the queries return |
| `SnapshotRouting` | **abstract**: what the gateway promises of its routing | `history` of committed tables, `routed` | `Commit`, `Install` (any part of the enabled rows of any committed table), `Restart` |
| `Gateway` | handlers, cache, checker, boot, crash | `history`, `cache`, `routed`, and per process `pc`, `task`, `val`; `todo` of the checker; `budget` | one per handler and one per call that leaves the process: `CacheHit`, `CacheMiss`, `Select`, `SelectTruncated`, `SelectFails`, `Fill`, `InstallRegistry`, `DelEnabled`, `DelList`, `DelItem`, `DelsCancelled`, `CommitUnanswered`, `Probe`, `ProbePanics`, ... |
| `Registry` | `Set`, `Match`, `normalizePrefix`, on prefixes made of characters | `byPrefix`, `order`, `loading` (the lock), `answer` | `SetMap`, `SetOrder`, `Match` |
| `AuthService` | the auth-service | `users`, `refresh`, per request `pc`, `task`; `issued`; what clients know; which calls failed, which sessions forked | `Signup`, `LoginLookup`, `RefreshGet`, `RefreshDel`, `CreateRefreshToken`, `Logout`, `Expire`, `Cancel`, `Crash` |
| `Sessions` | **abstract**: what the auth-service promises of accounts and sessions | `accounts`, `session`, `accepts` | `Register`, `Login`, `Refresh`, `End` |
| `AccessTokens` | time in the auth-service: access tokens and lifetimes | those of `AuthService`, `ttl`, `left`, `minted`, `access` | the steps of `AuthService`, some with a token or an answer along, `CreateAccessToken`, `Tick`, `TimeOut` |
| `RouteTable` | `gateway_routes` and the bulk request | `live`, `routes`, per bulk request `pc`, `bulk` | `CreateRoute`, `UpdateRoute`, `DeleteRoute`, `DeleteService`, `BulkDiscover`, `BulkList`, `BulkSkip`, `BulkInsert`, `BulkRefused`, `BulkAnswer` |
| `RouteKeys` | the method and path a discovered method gets | - | operators on names: `HTTPMethod`, `Kebab` |
| `Discovery` | an upstream's process, and the requests that ask it by reflection: discovery and transcoding | `grpc`, `http`, `release`; per request `pc`, `todo`, `found`, `target` | `Start`, `ListenHTTP`, `ListenGRPC`, `Serve`, `End`; `Discover`, `ListServices`, `Skip`, `ResolveService`, `ResolveFails`, `Answer`; `Transcode`, `Describe`, `Invoke`, `Reply` |
| `Boot` | a gateway from its start to serving, statement by statement | `db` (which objects exist, which versions are recorded), per process `pc`, `todo` | `EnsureSchema`, `EnsureLog`, `ReadApplied`, `Apply`, `Record`, `InitSchema`, `InitTable`, `AddColumn`, `InitRoutes`, `Serve`, `Crash` |
| `AdminUI` | the pages in one tab, their requests and the answers | `server`, `routes` and how old answers about them can be (`low`); `page`, `view`, `leaving`; `calls`; `faults` | `Visit`, `Arrive`, `Poll`, `Refetch`, `Create`, `Save`, `Probe`, `Delete`, `Write`, `Remove`; `ServeRead`, `ServeCreate`, `ServeChange`, `Lose`, `Other`, `Expire`; `ShowAnswer`, `ReadFails`, `ChangeDone`, `GoHome`, `ChangeFails` |
| `EditForm` | the form of a service, what its saves send, and the rows they are stored in | `table`, `past`, `writes`, `page`, `reads`, `form`, `saves` | `Visit`, `Leave`, `ServeGet`, `GetFails`, `Show`, `Type`, `Save`; `Store`, `SaveFails`, `Refresh`, `Other` |
| `RouteMatch` | `matchPattern`, `matchTemplatedRoute`, `mergeQueryParams`, `coerceType` | - | operators on sequences of segments |
| `Proxy` | the grpc-json branch of `Dynamic` and `ServeWithParams` | `routes`, `request`, `reply` | `EditRoutes`, `Transcode`, `TranscodeTruncated`, `Answered` |

Two abstract specifications are implemented: `Gateway`, which extends `SQLRepository`, is shown to
implement `SnapshotRouting` (`Routing == INSTANCE SnapshotRouting WITH history <- history, routed <-
routed`), and `AuthService` to implement `Sessions` (`Promise == INSTANCE Sessions WITH accounts <-
users, accepts <- refresh`). `AccessTokens` extends `AuthService`, whose every behaviour it refines in
time; `Discovery` extends `RouteKeys`; `Proxy` extends `RouteMatch`. The lists that `Discovery` shows to
be complete are the constant `Discovered` of `RouteTable`. `Boot` ends where `Gateway` begins. `AdminUI` and
`EditForm` meet the gateway at its HTTP interface: of its cache, which is `Gateway`'s matter, they have that an
answer may be an older row than the table's, and when it may not. An `MC` module gives a model its values for TLC, a `Proofs` module holds the theorems:
`AuthServiceProofs` those of `AuthService` and `AccessTokens`, `DispatchProofs` those of `Registry` and
`Proxy`, which two a proxied request goes through one after the other. `Proxy` therefore names its parts
apart from those of `Registry` (`ProxyInit`, `ProxyNext`, `ProxySpec`).

### Conventions of `Gateway`

* **Atomicity.** A step is one Redis command, one SQL statement or one
  `Registry.Set`: the units that are atomic where they are executed. Everything a
  goroutine does between two of them touches its own variables only.
* **Data.** A row is its id, prefix, `conf` (the columns every statement reads and
  writes together), `enabled`, document and status. A document is named by the
  configuration it was fetched for; timestamps are left out.
* **History.** Committed tables are kept in a sequence, and every row set carries
  the version it was read from. No guard reads the version; the properties do.
* **Faults.** `SelectFails` stands for every failing query, `SelectTruncated` for a
  connection lost inside `rows.Next`, `CacheMiss` (with a fault) for a Redis error,
  the second branch of `Fill` and `Del` for a failing SET or DEL, `DelsCancelled` for
  a client that goes away during the invalidation, `CommitUnanswered` for a commit
  whose answer is lost, `Crash` for the end of the process.
* **Malformed URLs.** A base URL is either one `http.NewRequest` takes or not (`Malformed`). Nobody asks when it is
  stored; the checker ends the process by it (`ProbePanics`), which is no fault of the environment and has
  no budget. The process is then started again by somebody, as after a `Crash`; `docker-compose.yml` itself names no
  restart policy.
* **Ghosts.** `routedAt`, `wrote`, in `AuthService` the client's and the observer's variables
  (`clients`, `observed`), in `RouteTable` `ghosts`, in `Discovery` `seen` and `missed`, in
  `EditForm` the fields `of`, `base` and `typed`, and in `AdminUI` the field `floor`
  are there for the properties only.

### Conventions of `Boot` and `AdminUI`

* A statement of `Boot` is committed on its own and may fail before or after its commit;
  either way the process ends (`log.Fatalf`). `ReadApplied` may also go on with a part of the
  rows. PostgreSQL runs two `CREATE ... IF NOT EXISTS` of one object one after the other; that
  one of them may fail when they collide is the fault of `Exec`.
* A service in `AdminUI` is the number of its changes, and its routes are the number of theirs, which bounds the
  model: after `MaxVersion` and `MaxRoutes` a change is not told apart any more. A page shows pairs of service and
  version.
* The gateway's cache is in `low`: no answer about a service is older. A change raises it if its DELs work and no
  reader is between its SELECT and its SET; otherwise, which is a fault of `MaxFaults`, it stays until what is old has
  expired (`Expire`). The list and a single service are separate keys and may be of different ages; both are bounded by
  `low`. Routes are not cached.
* `router.push('/')` is not awaited: `GoHome` ends the handler and unlocks the form, `Arrive` changes the page, and
  between the two (`leaving`) everything on the old page works.
* A request has a slot of the tab; a click, a visit and the poll need a free one (`MaxCalls`).
  `Left` is what becomes of a request when the tab moves on: React ignores what an unmounted
  component sets, Next.js keeps a component whose page is the same, and `mounted` guards the
  effects' own GETs.
* `Cleared` is the `finally` of each handler. `load` sends two GETs at once, of the service, which
  may come from the cache, and of its routes, in either order; `got` is what the latter read.

### Conventions of `AccessTokens`, `Discovery` and `EditForm`

* Clocks of `AccessTokens` count down to zero, so that there is no present instant in the state. A tick
  waits for Redis to delete the keys that are due. Signatures are not forged: an access token is its claims,
  and it is `access[t]` of the refresh token `t` that was answered with it.
* What an upstream sends is abstracted to the `release` that describes it: a message built by another
  release's description is what the target may misread. A call waits while the port is bound and not
  served, as a connection does in the backlog.
* `EditForm` has the fields on which the payload depends (`protocol`, `base_url`, `grpc_target`) and the column no form
  has (`swagger_json`). The other fields are sent always, as the protocol is, and `swagger_url` goes with `base_url`.
  Rows are those that forms and the refresh of a document make; services are not deleted. `past` is every row a
  service has had: a reader may have any of them from an entry that was stored late. The GET after a PUT, the button's
  lock for it and the list of services are in `AdminUI`.

## 3. Runs

Every bound is a constant of the configuration. `Budget` limits writes, ticks of the
checker, faults and crashes; a negative budget is no bound.

| run | question | bounds |
|---|---|---|
| `gateway` | What can table, cache and registry hold, do the latter agree with the table between requests, does a handler load its own write, and is the gateway an implementation of `SnapshotRouting`? | 1 request beside the checker, 2 services, http, bare and grpc-json, prefixes with and without a slash, 2 writes, 1 round, 1 fault, 1 crash |
| `probing` | Do old entries pass, whoever stores them late, and is every enabled service probed again and again? | 2 requests beside the checker, 2 services, one of them with a base URL that does not parse, 2 writes, unbounded ticks, cache, no failing calls, fairness |
| `registry` | Is `Match` the longest match, with its whole remainder? | 2 characters, paths up to 4 characters, lists of up to 3 services |
| `auth` | Whose is a token, is it there while it should be, and gone when it should be? | 2 requests, 2 accounts, 3 tokens, every fault: clients that go away, crashes, failing SET and DEL |
| `access` | Do both tokens of an answer name one account, is a session that is over handed anything more, and do tokens end? | 2 requests, 2 accounts with one password, 2 tokens, clients that go away and crashes, lifetimes of one tick and of zero, fairness |
| `routes` | Do the keys of `gateway_routes` hold, and do bulk requests do what they answer? | 2 bulk requests, 2 services (one with both of 2 methods, one with the second), 3 route ids, all edits, lost connections |
| `proxy` | Which route is taken and what message is sent? | every table of up to 4 routes over 4 patterns, 2 methods and 2 targets, read whole or in part; 8 paths, integers and floats (`07` and `inf` among the texts), collisions of path, query and body |
| `boot` | Does a gateway serve on complete tables, and does it get there? | 3 gateways starting and restarting, a new or an older database, 3 failing statements or crashes, fairness |
| `ui` | Where does an answer show up, how old is it, and when is a page locked? | 1 tab, home, the form of a new service, the detail pages of 2 services and the routes of one; 2 versions of one service, 1 of the other, routes without versions, 2 requests under way, 1 fault (a request, a DEL or a list that fails, or a late SET), another admin, fairness |
| `discovery` | Is what is listed and sent what the upstream offers and takes, and does it come to serve? | 2 requests, 2 releases of 3 services, names that collide but for a case, any call may fail, fairness |
| `edit` | What is a form mounted with, what stays in it, and what do its saves overwrite or empty? | 1 tab, 2 services of either protocol, 3 fields with 2 values each and the document, 1 field typed into, 1 save under way, 2 rows written, by the tab or another admin, answers as old as may be |
| `probe_overwrites` | *violated*: a probe writes the status only | 1 request, 1 round |

**Why the bounds are enough.** Two services are what it takes for prefixes to collide and
for a list to be mixed; two writes and a reader are what it takes for a read, a write
and a stale use of what was read; the faults and crashes are each met at every step of
the sequence. Two requests show each race of two; what must hold for more of them is
proved (section 5). Paths of four characters contain every way two of the prefixes can nest, touch
and miss their slash. `registry` and `proxy` range over all tables of their bounds. Two requests under
way are what a poll and a click, a save and a delete, or a late answer and a new page are;
three gateways are one that has read the versions, one that applies and one that dies. Three tokens
are a session with its successor beside another session; in `access` two are enough, since its
properties are about one token and its successor, or two sessions. Two releases are what was described and what came after. That a list of routes has the change before it, which no cache can
undo, is proved only: in `ui` changes of routes are not told apart. Four routes are two
that compete and two that should not, and a list cut short. In `probing` the second request is the
reader whose SET comes late, or the other writer; faults are in `gateway`. With one save under way another writer is
`Other`; two rows written are the save and one change before or after it; a column with a value and an empty one
is what it takes to tell a kept field from an emptied one.

**What the passing properties say.**

* `Provenance`: whatever is cached, carried between two calls, routed by or left to probe is
  (part of) the result of its own query on *one* committed table. Together with
  `ImplementsSnapshotRouting` this is the gateway's routing promise: maybe old, maybe
  short, never mixed.
* `NoResurrection`: truncated lists, stale write-backs and crashes do not bring a deleted service
  back; nor (`PrefixesDistinct`, proved) do they bring two services under one prefix.
* `RoutingCurrent`, `CacheFresh`: without overlap and failure everything
  agrees. `Undisturbed` is when the budgets of faults, ticks and crashes are untouched, `Quiet` when no
  request is at work. `OwnWriteLoaded` bears with ticks, probes, expiry and crashes, up to the first call that
  fails. This is as far as the code goes: with a second request under way all three can fail, and a write
  may never be loaded at all (section 4).
* `CacheConverges` (liveness): what was stored too late, by another handler or by the checker, is gone in
  the end, and the cache has what the table has. The registry need not: it has what the last handler loaded, and
  nothing loads it again.
* `ProbedAgain` (liveness): a service that stays enabled is probed again and again, although the list is cached,
  because entries expire. It takes that every enabled service has a base URL that parses (`Parsable`), at least from
  some time on: one that does not ends the process in each round.
* `LongestMatch`, `RemainderIsRest`: on every `Match` step, whatever `Set` is doing and however
  equal lengths are sorted.
* `AnsweredTokenStored`, `LoggedOutRevoked`: the life of a refresh token. The exceptions are per
  token: only a token whose own SET or DEL failed may be missing or linger.
  `TwoTokensOnlyForked` says when exactly a session gets a second token: after a refresh whose DEL
  deleted nothing, which takes no fault but another refresh of the same token.
* `ImplementsSessions`: users and Redis keys go through the life of accounts and sessions, whatever fails
  between two calls: no signup changes a password, no token is accepted for another account or again
  (`OwnerKept` and `GoneStaysGone`, proved, are the same seen from the service).
* `AccessOwner`, `OverForGood`: the tokens of an answer are of one account; a session of which nothing is
  stored and no request carries a token gets none any more, of either kind. With `AccessRunsOut`
  (liveness) this is how far an access token outlives its session: its own lifetime. `RefreshRunsOut`
  (liveness) has the exception of a lifetime that is not a number, for which the key never expires.
* `AnswerComplete`, `SentAsDescribed`: discovery and transcoding take several calls; if the upstream is not
  replaced meanwhile, only services whose resolution failed are missing, and if it is, nothing is made up.
  `KeysApart` is about the names: two methods of one service share a default path only if their
  names differ in the case of the first letter alone.
* `HealthyServes` (liveness): an upstream does not stay half up, because the gRPC side takes the process along.
* `OverwritesStaleOrLeftOut`, `MountedWithOwn`, `TypedStays`: of a save from the service's own form, the two ways in
  which it changes a column nobody typed into. Either the payload leaves the column out, and the UPDATE empties it, or
  the column was not any more what the form was mounted with. Then, that no answer, late or not, gets into a form that
  is there. The first delimits a weakness; the form of another service, sent under a new address, is left out of it.
* `CountsAddUp`, `BulkCovers`: overlapping bulk requests count each row once (`Counted` is what those under
  way have counted so far, a row for each), and leave no
  default path uncovered unless somebody removes routes or a connection is lost.
* `LongestRoute`, `ParamsDenotePath`, `CalledByRoute`: the way of a request through the proxy. A parameter denotes its
  segment of the path, as its text or as the value `strconv` reads; how a number was spelled is lost.
* `ServingComplete`, `RecordedIsApplied`, `StartsAtLast`: whatever is left of earlier starts, and with
  others starting, a gateway that keeps being started gets to serve, on tables with every
  column its statements name; no version is recorded that was not applied.
* `OneSubmission`: the lock of a page is the submission it waits for, on every way out of every
  handler, so that no form is sent again before it was answered and none is locked for good. After the
  answer the form of a new service is open until the pushed page is there, and may be sent again.
* `ReadsOwnChange`: what a handler reads after its change has the change in it. Of a service this takes that the DELs
  after the change worked and no late SET was under way (section 4 has the other case); then neither the reads nor
  the failing DELs of others can undo it.
* `ForeignByAddressOrUnguarded`: a page shows another service than its address names in two ways only, a new address
  in the same component and an answer without a `mounted` guard. It delimits a weakness of the pages rather than
  excluding it.
* `HomeConverges` (liveness): an open home page comes to show what there is: old entries, short lists, late answers
  and failed polls do not last.

**Fairness.** `FairSpec` of `Gateway` assumes that PostgreSQL and Redis answer (weak fairness of
`Proceed(p)`), that the ticker ticks and a probe ends (`Check`; the probing client has a timeout
of 3 seconds) and that entries expire (`Expire`; SET has a time to live, 15 seconds unless
configured). Nothing is assumed of clients, nor of the backend a refresh fetches its
document from: that request has no timeout. `Boot` assumes that a started process goes on
(`Proceed`), not that anyone starts it: `StartsAtLast` is about processes that are up again and
again. `AccessTokens` assumes that time goes on and that Redis ends a key
that is due, and nothing of requests; `Discovery` that the goroutines of a started process go on, and not
that anyone starts it. `AdminUI` assumes the interval of `index.js:33`, that each request is answered or
fails, and that entries expire; nobody has to click.

## 4. Where code and words differ

One disagreement has a run:

* `probe_overwrites`. The checker (`health/checker.go:45`) gives the row of its list to `Update`,
  which writes every column but the health ones. `List` does not read `swagger_json`, so
  the first round wipes the documents, and it reverts whatever was edited since the list was read.

Others are part of the model as the code has them, and no property is stated against them:

* `LoadEnabled` (`registry/repository.go:28`) reads and then sets without a lock around both. A handler
  that read before another one's `UPDATE enabled = false` may set after it, so that a disabled service
  stays routed until the next write, though `registry/model.go:18` says `Enabled` "controls whether a
  service receives proxied traffic". `ImplementsSnapshotRouting` allows it: an `Install` is of any
  committed table.
* The count DEL returns is not looked at (`auth-service/main.go:171`), so two refreshes with one token
  both succeed; `TwoTokensOnlyForked` delimits it.
* `auth-service/main.go:100` says "upsert user"; the statement is `ON CONFLICT (email) DO NOTHING` and the
  answer "created" in any case, with a password that does not log in. `ImplementsSessions` is the good
  side of it.
* `admin/discover.go:36` says "skip reflection service itself" and skips the v1alpha name;
  `reflection.Register` of the grpc version in use registers v1 as well, which is listed and offered as
  a route.
* `README.md:18` promises "Health/readiness endpoints baked into every service"; `/readyz` of the three
  services says "ready" before the gRPC port is bound (`user-service/main.go:38`).
* `ServiceForm.jsx:120` says "If empty, gateway will try to infer from swagger servers"; that is so for a
  new service and for Refresh Swagger, not for Save (`handlers.go:182`).
* `Update` names neither `last_status` nor `last_health_at` (`sqlrepo.go:236`): no probe is ever
  recorded, and the UI shows "No health checks yet".
* A refresh writes back `enabled` and the prefix as they were before it fetched the document
  (`handlers.go:236`).
* A read that queried before a write may fill the cache after its DELs (`cache_redis.go:66`). The reload after the
  write may then find the old list (`cache_redis.go:51`), and if no later request loads the registry, the write is not
  routed by until the process is started again. A GET after a PUT may get the old row in the same way, and the detail
  page, which alerts "Updated" (`[id].js:37`), shows it; `CacheConverges` is what is left.
* The error of `http.NewRequest` is dropped (`health/checker.go:36`). POST and PUT store a base URL
  as it comes; if it does not parse, the next round calls `client.Do(nil)`, the panic is not recovered, and the process
  ends, after every start again.
* `rows.Err` is not asked in `ListRoutes` (`sqlrepo.go:92`) and the error of the query is dropped by the proxy: a request
  may miss its route, and is then taken as the name of a gRPC method.
* Parameters are numbers by the time they are sent: `/users/007` is user 7, and `t` is true where a template says bool
  (`proxy.go:145`). `ParseFloat` takes `inf` and `NaN`, which `json.Marshal` refuses, and all parameters are then dropped
  (`transcoder.go:64` and `78`).
* PUT stores the prefix as sent (`handlers.go:182`) though `model.go:14` says slashes are
  normalized, and answers 200 for an id that does not exist.
* A refresh whose SET fails answers with a token nobody stored (`auth-service/main.go:173`); a logout
  whose DEL fails answers "logged_out" (line 193), and its access token stays good until it expires.
* `ACCESS_TOKEN_MIN` and `REFRESH_TOKEN_DAYS` that are no numbers count as zero (lines 34 and 35): access
  tokens are dead when they are made, refresh tokens never expire.
* A service whose resolution fails is left out of a discovery that answers 200 (`discover.go:41`).
* `len(rt.Path)` counts the spelling of a template, so `/users/{id:int}` is preferred to
  `/users/all` (`proxy.go:77`); a path with a dot and a slash never reaches a template (line 31).
* `migrate.Run` takes the schema as it is, `NewSQLRepository` falls back to `public` for an
  empty one; `getenv` never returns an empty one here.
* The routes page's PUT sends no `query_mapping` (`routes.js:113`), and the table's statement
  writes the missing one: an edit of a route drops its mapping.
* `ServiceForm` keeps the values it was mounted with (`ServiceForm.jsx:20`): after a refresh, or under
  another id, Save sends the old fields. And its payload never has `swagger_json`, and has `base_url` and `swagger_url`
  or `grpc_target` by the protocol (lines 78 to 83), while `UpdateService` decodes it into an empty `Service` and writes
  every column (`handlers.go:177`, `sqlrepo.go:245`): each Save wipes the stored document, and one with another protocol
  the URLs of the former. `OverwritesStaleOrLeftOut` delimits all of it but the form under another id.
* `router.push('/')` is not awaited (`new.js:17`), so that the `finally` unlocks the form while the next page is still
  on its way: a second click creates a second service, or is refused because of its prefix. The push takes the tab home
  from wherever it is by then (`[id].js:48`, too).
* A page of one service keeps what it shows when the address changes to another (`[id].js:24`, `explore.js`,
  `routes.js`), and if the new GET fails, it keeps it for good.
* The detail page reports "Update failed" when only the GET after the PUT failed
  (`[id].js:35`).
* PUT and DELETE of a service or route that does not exist answer 200, so that the UI reports
  success.
* Bulk add gives two methods of one name one path; the second gets no route (`handlers.go:433`).

## 5. Proofs

`tlapm` checks all of these for every value of the constants that the named assumptions admit.

**`GatewayProofs`**, from `PrefixesAssumption`, `ConfsAssumption` and `GatewayAssumption`.

* `TypeCorrect` is inductive as it stands: the `CanInsert` and `CanUpdate` guards keep `IsTable` true of
  each table appended to `history`, and no step changes an earlier one.
* `ReadsHaveProvenance`: `Provenance` is inductive relative to `TypeOK`. It needs the version of each entry,
  and that `history` only grows: what was part of `View(key, history[at])` stays so. `val[p]` has to
  be covered at `fill` and `use`, and the key of a task must fit its `op`, which is why `Task` in
  `TypeOK` relates them.
* `RoutedPrefixesDistinct` follows from `Provenance` and `IsTable`.
* `DeletedStaysDeleted`: the strengthening is that a new version contains no id that is absent from
  the current table and present in an earlier one (`Create` draws from `Ids \ UsedIds`, `Update` adds
  no id).
* `GatewayRefines`: under the identity mapping each step is a `Commit`, an `Install`, a `Restart` or a
  stutter. `InstallRegistry` needs `Provenance`, the write steps need `IsTable`.
* `UncachedOwnWriteLoaded` adds that the version read is at least the one written, whatever fails (`LoadsOwnWrite`).
  Without a cache the value comes from a `Select` after the write, and `history` grows.
* `SerialRoutingCurrent` and `SerialCacheFresh` are theorems of `Spec /\ []OneAtATime`: of the behaviours in which
  no two handlers overlap, for any number of handlers, services and writes, with or without a cache. The
  run has a single handler, and there `OneAtATime` always holds; with two that overlap both properties are
  false. `DisturbancesCounted`, that the budgets of ticks, faults and crashes are not negative, is what lets
  `Undisturbed` say that none of them was used. The invariant, `SerialInv`, follows a request call by call: which
  keys it has changed the table under and still has to delete (`Pending`), that every other entry is
  fresh, that what it carries is what the table holds, and that the registry is current unless a reload is on its
  way; it is asserted up to the first disturbance (`UndisturbedInv`).
* `SerialOwnWriteLoaded` is `OwnWriteLoaded` with the cache, again when no two handlers overlap, up to the first fault,
  if these are counted (`Budget["fault"] >= 0`). Ticks, probes, expiry and crashes are allowed: the invariant `LoadInv`
  has that after a handler's DEL of the enabled list whatever is stored there is as recent as its write, since the
  checker does not fill that key. After a fault it is false, because a failed DEL leaves an old entry behind.

**`DispatchProofs`**, on `Registry` from `RegistryAssumption`: `TypeCorrect` (the order lists the keys by descending
length when the lock is free), `MatchIsLongest`, `NothingOfThePathIsLost` and `NormalizeIdempotent`. The
invariant is the type invariant; the first hit in a descending order is the longest one. On `Proxy`, from
`RouteMatchAssumption` and `ProxyAssumption` (the table has finitely many HTTP methods, none of them empty; paths
and patterns are sequences of segments with lengths):

* `LongestIsChosen` proves `LongestRoute` of every list of routes. The loop of `matchTemplatedRoute` is a recursive
  function, the best route after each round. That such a function exists and has the values its definition
  says (`LoopRuns`), and that what holds of 0 and passes from each round to the next holds after all of them
  (`UpTo`), are lemmas about sets of numbers with a least element (`LeastNumber`). What is shown to pass from round
  to round: the best route so far matches, and every other match so far is shorter, or as long and behind it.
* `PathDenoted` proves `ParamsDenotePath`, whatever texts `strconv` reads as what (the constant `Reads`): a template
  stands for the segment at its own position, unless its key is there twice.
* `OnlyRoutedCalls` proves `CalledByRoute` with the invariant that there is no reply while no request is
  being answered; an element of the list `ListRoutes` returns is a row of the table (`ListHasRows`).

The first two hold in every state, whatever led there: they are about the algorithm, and the
routes are arbitrary. The third is about behaviours, with edits of the table between two requests.

**`AuthServiceProofs`**, from `AuthAssumption`: `TypeCorrect`, `GoneTokensStayGone`, `TokensKeepOwner` for any
number of requests and any faults. The invariant behind the second is that the account a request
carries is that of the session of the token it was sent. `UnusedTokensKept` and `LogoutRevokes` name
the tokens whose own calls failed, and need no further assumption. `OneTokenPerSession` proves
`TwoTokensOnlyForked`: the strengthening says that in a session that never forked, a refresh
between DEL and SET is alone and its session has no stored token, so that the token it stores
is the only one. `AuthServiceRefines` shows that each step is one of `Sessions` or a stutter: the DEL of a
refresh, a logout and an expiry are `End`, a SET is `Login` or `Refresh`, a crash changes nothing. It needs
that the account of a request is that of its session, or is registered.

On `AccessTokens`, in the same module, from `AuthAssumption` and `LifetimesAssumption`. `TimedIsAuthService` (each step is one of
`AuthService` or leaves its variables alone) brings over the theorems above. `AccessNamesOwner` adds that
what a request has made names its own account. `SessionsStayOver` needs that a token of a session is only
made by a request that carries one of its tokens, or by a login, which begins a session of its own.

**`RouteTableProofs`**, from `RoutesAssumption`. `TypeCorrect`: an INSERT or UPDATE the keys admit keeps them, for any
number of requests. `DiscoveredCovered` proves `BulkCovers`: the strengthening says that what a bulk request has
left is the end of its list, that what it skips is in the table, and that a service that is gone is one of
which routes were removed; no step takes a method and path from a service without noting it. `CountsAreRows` proves
`CountsAddUp` for any number of bulk requests, with the sum written as the size of the set `Counted`: the
invariant adds that this is finite and that a request that is not adding routes has counted nothing, and each step puts in
one row, or takes out those of one request.

**`EditFormProofs`**, from `EditFormAssumption`, for any number of services, values and saves. `FormCorrect` is the
invariant `FormInv`: the types, that a GET under way is for the page that is open, that a field nobody typed into
is as the form was mounted or has stored since (`Untouched`), and that the form of a save whose page is still open has
gone on from what was sent (`SavesBehind`). `StaleOverwrites`, `FormIsOwn` and `TypingStays` prove
`OverwritesStaleOrLeftOut`, `MountedWithOwn` and `TypedStays` from it; the first adds what a stored row has of a form
(`StoredRow`).

**`AdminUIProofs`**, from `UIAssumption`, for any number of services, slots and faults. The invariant `UIInv` has two parts. `Kept` is about
each request (`Good`): which component and page it belongs to (`Fits`), and how old what it has read can be (`Backed`):
as recent as the change of its handler, if that is not newer than anything still stored. What makes this inductive is
that `low`, like the versions, only grows (`Grown`). `Submission` is that one request at most holds the lock. A step
changes one request (`OneCall`) or changes the page (`OpenKeeps`). `SubmittedOnce`, `ChangesAreRead` and
`ForeignInTwoWays` follow.

**`DiscoveryProofs`**, from `RouteKeysAssumption` and `DiscoveryAssumption`. `DefaultKeysApart` is about names of any
length: hyphens and letters of equal paths agree position by position. `AnswersComplete` strengthens
the property from the end of the loop to all of it: what is found, missed, left to do and skipped is what
the release registered, as long as only one was seen. `MessagesAsDescribed` and `FoundKeysApart` follow from
the type invariant and that one.

**`BootProofs`**, from `BootAssumption`: `ServesComplete`, `RecordsAreTrue`, `TypeCorrect`, for any number of
gateways, starts and crashes. No statement removes anything, so what a process has made sure of stays; the
invariant says for each label of `pc` what exists by then, and that `todo` holds nothing
but versions.

**Only model-checked.** Liveness (`CacheConverges`, `ProbedAgain`, `StartsAtLast`, `AccessRunsOut`,
`RefreshRunsOut`, `HealthyServes`, `HomeConverges`), which is out of the prover's reach, as is `ENABLED`. Every
invariant and every action property of the passing runs has a theorem; `RoutingCurrent`, `CacheFresh` and
`OwnWriteLoaded` have it for handlers that come one at a time. The library's induction theorems
take an operator as a parameter, which the provers do not instantiate; induction over a list is done here
with sets (`UpTo`), loop by loop. The mapping of query parameters (`MergeQueryParams`) is part of `Proxy`'s
steps and has no property of its own.

## 6. What is not modelled

* the reverse proxy to http services and the middleware (CORS, JWT): no state of this system changes in
  them;
* `registry/memory.go`, `registry/postgres.go` and `swagger/`: not wired into the running gateway;
* the root `main.go` of the gateway, its first version: the Dockerfile does not build it; it imports no
  SQL driver, so a `DATABASE_URL` ends it, and without one its admin writes call a nil `*sql.DB`;
* of the UI, the contents of the route form, the drafts of discovery, the API explorer's requests (the
  late answer that overwrites a typed path there is listed as a hazard), and the reload of a tab (which is
  its `Init` again);
* generated messages and clients, the API documentation, seeds, scripts and the layout of the UI.

## 7. Plan

Done: the admin plane with its abstract specification (`SQLRepository`, `SnapshotRouting`, `Gateway`), the
registry, the auth-service with its abstract specification, its access tokens and its time, route mappings
with discovery and the upstreams, the transcoder, the start of a gateway, and the admin UI with the form
of a service, with the theorems above.

Next, in this order:

1. `OwnWriteLoaded` under a weaker condition than `OneAtATime`: that no other handler loads the
   registry while this one has a write to load (what `Gateway` says of it);
2. proofs about `MergeQueryParams` and `Input`: that a field of the body always wins, and that the order in
   which the mapping is ranged over shows only where two parameters name one field;
3. `Boot` and `Gateway` joined: that the table `Gateway` starts from is what `Boot` left;
4. the http branch of `Dynamic`, and the API explorer as its client.
