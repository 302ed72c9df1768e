# Builder hub: a verification project

builder-hub is the registry of a group of block builders. Instances running in
trusted execution environments fetch their configuration and secrets from it,
register the credentials of their services and look up their peers;
administrators maintain builders, measurements, configurations and secrets.
These modules model the hub at the level of its calls to PostgreSQL and to the
secret store, TLC checks them on small instances, and TLAPS proves the most
important results for every instance.

## Inventory

| part | state | operations | hard behaviour |
|---|---|---|---|
| Replacing writes (`adapters/database/service.go`) | `service_credential_registrations`, `builder_configs`: at most one active row per key | `RegisterCredentialsForBuilder`, `AddBuilderConfig` | UPDATE then INSERT under READ COMMITTED, row locks, a partial unique index and an exclusion constraint, deadlock victims, rollback, lost commit answers, a pool of 50 connections |
| Instance API (`ports/http_handler.go`, `application/service.go`) | none of its own; each handler holds what it has looked up | `GetConfigSecrets`, `GetActiveBuilders`, `RegisterCredentials`, `GetAllowedMeasurements` | two lookups to authorise, then one to three more calls, no transaction around them |
| Internal API (`ports/http_handler.go`) | none | peer lists of the production network and of a given one | reads concurrent with everything else |
| Admin API (`ports/admin_handler.go`) | `builders`, `measurements_whitelist`, `builder_configs`, the secret store | eight handlers | activation is a check followed by an UPDATE |
| Measurement matching (`application/service.go`, `domain/types.go`) | none | `validateMeasurement`, `checkMeasurement`, `GetExpectedValues` | alternatives, missing registers, empty templates |
| Secret stores (`adapters/secrets`, `domain/inmemory_secret.go`) | a JSON document per builder; a Vault token | `GetSecretValues`, `SetSecretValues`, `watchTokenRenewal` | AWS: read, modify, write, and create against create; lost answers; Vault: a token that may stop being renewed |
| Server lifecycle (`httpserver`, `metrics`, `cmd/httpserver`) | `isReady`, three servers and a metrics server | start, `/drain`, `/undrain`, `/readyz`, shutdown | a signal at any moment of the start, drain against undrain, one deadline for three servers, the database closed under handlers |
| Admin basic auth (`httpserver/server.go`) | none | one comparison per request | - |
| Peer JSON (`ports/types.go`, `adapters/database/types.go`) | none | `MarshalJSON`, `UnmarshalJSON`, the conversions between body, row and domain type | service names that equal a field name; empty, missing and NULL values |
| Config utilities (`application/config_utils.go`) | none | merge and flatten JSON | maps in any order, dots in keys, no escaping; called by tests only |

What makes the parts correct: a key has exactly one active row from the first
commit on, and it is the last one committed; a call answered with success took
effect as a whole; an active builder has a configuration; only authorised
instances get secrets or peers or register credentials; releases of secrets are
logged; peer lists are complete, restricted to a network and readable; revocation
takes effect; no call waits for ever; a secret store is a register per builder;
the process ends when it is told to, and takes requests with it only at the
deadline. `PROJECT.json` lists the places where each of
these could go wrong.

## Modules

* `ActiveRegister` - what a replacing write promises: a call replaces the active
  row of its key in one step or leaves it alone, and is answered "ok" only in
  the first case.
* `ActiveRowTx` - the two transactions, one step per SQL statement and, in the
  UPDATE, one per row. The calls are all of one operation: `table`, chosen in the
  initial state, is the table they write, and with it the constraint that guards
  it.
  `ActiveRowTxProofs` has the theorems about what the calls write and answer,
  `ActiveRowTxProgressProofs` those about who waits, `MCActiveRowTx` the symmetry
  set.
* `Measurements` - the matching of measurements.
* `PeerJson` - a credential from the body of its registration to what a peer
  reads.
* `Conversions` - the reference definitions for these two and a state that takes
  up one input after the other; `ConversionProofs` has the theorems.
* `ConfigUtils` - flattening secrets and merging them into a configuration, with
  recursive operators; results are sets, because Go ranges over maps in any order.
  `MCConversions` has the small inputs of all three, and the reference definitions
  of this one, which are recursive as well and so kept apart from the proofs.
* `SecretRegister` - what the hub expects of a secret store: a value per builder
  that a call reads or replaces in one step, or leaves alone.
* `SecretStore` - the AWS, Vault and in-memory stores, one of them chosen in the
  initial state; `SecretStoreProofs` has the theorems, `MCSecretStore` the symmetry
  set and what float64 makes of the payloads.
* `ServerLifecycle` - the process from its start to its end, with the Vault token;
  `ServerLifecycleProofs` has the theorems, `MCServerLifecycle` the command lines.
* `BuilderHub` - tables, secret store and all handlers. It uses `Measurements`
  for authorisation, takes the two transactions as single steps, which is what
  `ActiveRowTxProofs` justifies, and the secret store as a register, which is what
  `SecretStoreProofs` justifies. `BuilderHubProofs` has the
  theorems about types, activation, authorisation, written rows and revocation,
  `BuilderHubReleaseProofs` those about the release of secrets,
  `BuilderHubPeerProofs` the one about peer lists, `MCBuilderHub` templates, claims, symmetry and a view.

### How ActiveRowTx corresponds to the code

| model | code |
|---|---|
| `BeginTx`, `FreeConn` | `BeginTx` takes one of `MaxOpenConns` connections and keeps it until the transaction ends |
| `StartUpdate`, `VisitRow` | the UPDATE: its snapshot, then row by row in an order SQL leaves open. A row that another transaction holds makes it wait; then the newest version is tested with the same WHERE clause (`UpdateWhere`) |
| `InsertUnique` | the INSERT under the unique index: it waits for uncommitted entries of the same key and then places its own |
| `InsertExclude`, `CheckExclude` | the INSERT under the exclusion constraint: it places its entry and then looks for others |
| `Refused` | a committed active row collides: the statement fails and the deferred `Rollback` runs |
| `DeadlockAbort` | PostgreSQL ends a cycle of waits by aborting a member; `Deadlocked` says that a transaction is in every set that has those it waits for and is closed under waiting |
| `Ready` | the guards of `Step`, for `NoneStuck`: a call's next statement can be executed now, without a fault |
| `Commit`, `CommitUnacked` | `tx.Commit`, with its answer delivered or lost |
| `Fail` | any statement fails or the request's context is cancelled |

PostgreSQL's behaviour is external: it is modelled from the isolation level, the
statements and the constraints that the code and the schema ask for.

### How BuilderHub corresponds to the code

The tables are functions or sequences of rows (`builders`, `measurements`,
`credentials`, `configs`, `eventLog`), with the columns the code decides on.
`secrets` is the secret store. `req[r]` is the handler in slot `r`, with the
results of its calls; `resp` is the response written in the last step.
`released` and `seen` are history variables: to whom configurations went, and
what has been in force since a request began. No action reads the last three.

A handler takes one step per call to the database or the secret store:

| handler | steps |
|---|---|
| `GetConfigSecrets` | `BeginAuth`, `MatchMeasurement`, `LookupBuilder`, `FetchConfig`, `FetchSecrets`, `LogEvent`, `WriteConfig` |
| `GetActiveBuilders` | `BeginAuth`, `MatchMeasurement`, `LookupBuilder`, `ListPeers` |
| `RegisterCredentials` | `BeginAuth`, `MatchMeasurement`, `LookupBuilder`, `RegisterCredentials` or `RejectCredentials` |
| `ChangeActiveStatusForBuilder` | `CheckActivation`, `Activate`; or `Deactivate` |
| `GetFullConfigForBuilder` | `CheckFullConfig`, `FetchFullSecrets` |
| the others | one step each |

`FailStep`, `RejectCall` and `RejectAuthData` are the error paths without effect.
A write may take effect and still be answered 500, when the database's answer is
lost (`Written`). An authentication lookup that fails makes `GetConfigSecrets`
dereference a nil builder; the Recoverer middleware turns the panic into a 500,
so the path is `FailStep` as well. Where SQL leaves the choice open (several
builders at an address, several matching measurements) so does the model.

A crash of the process is nothing new for the tables: each handler ends there as
in `FailStep`, and its last write may have taken effect.

### How SecretStore corresponds to the code

| model | code |
|---|---|
| `docs` | AWS: a document per builder (`secretName`), a map from keys to values of which the builder's name is one; others may have been put there by hand. `Opaque` is a document made by hand that is not an object: not JSON, JSON of another kind, `null`, or binary without a `SecretString` |
| `kv` | Vault's path per builder, or the map in memory; `Absent` until it is written, `Empty` for a version without data |
| `AwsGet` | `GetSecretValues`: no document is `{}`, a document without the builder's key `ErrMissingSecret`, one that does not unmarshal an error or a panic that the Recoverer middleware answers |
| `AwsUnmarshalFails` | `SetSecretValues` meets such a document: it ends without a write |
| `AwsRead`, then `AwsCreate`, `AwsPut` or `AwsMarshalFails` | `SetSecretValues`: two calls of the service with everything in between |
| `VaultGet` | a version without data is `{}`; a path that was never written is the client's `ErrSecretNotFound`, which `isVault404` does not recognise, and so an error |
| `VaultUnmarshalFails`, `VaultPut`, `Stored` | only objects, and `null`, unmarshal into the map; numbers go through float64 (`Rounded`), so what is stored may be another object than was sent |
| `MemGet`, `MemSet` | under the lock; takes any bytes |
| `Written`, `Fail` | the answer of a write is lost; a call fails without effect |

Several hubs may use one store, so the calls stand for handlers of any of them.
That CreateSecret refuses an existing name is how AWS Secrets Manager behaves; the
code relies on it. What the Vault client returns for a path without a secret is not in
the repository either; `VaultGet` follows the version that `go.mod` names. No property
depends on it: `SecretRegister` lets any read be refused.

### How ServerLifecycle corresponds to the code

| model | code |
|---|---|
| `main` | where `runCli` is: opening the database, connecting to the secret store, starting, serving, in the `Shutdown` of a server, closing the database; or how the process ended |
| `server`, `closing` | the goroutine of a server up to and in `ListenAndServe`; whether `http.Server.Shutdown` was called, after which `ListenAndServe` refuses |
| `AssignMetrics` | `MetricsServer.Start` creates its `http.Server` in the goroutine, unlike the others |
| `Stop`, `Stopped`, `Expire`, `Context` | `Server.Shutdown`: one server after the other, errors logged, one context for the API servers and one for metrics |
| `Drain`, `DrainReturns`, `Undrain`, `PollReadiness` | `/drain` up to its sleep and after it, `/undrain`, and `/readyz` as the load balancer asks it |
| `ConnectSecrets`, `TokenRenewed`, `RenewalEnds`, `WatcherCancelled`, `TokenExpires` | the login and `watchTokenRenewal`, whose context is that of the signal: a login after the signal fails |

`handler` records for a drain whether the load balancer has asked and whether an
undrain came since; `refused` that Vault ended the renewal. These serve the
properties. Nothing is assumed of the drain duration: a drain may return before the
load balancer has asked, and `DrainNoticed` speaks of a load balancer that has.

## Runs

| run | checks | bounds |
|---|---|---|
| `replacing_tx` | `TypeOK`, `LatestIsActive`, `SomeCallWins`, `NoneStuck`, `AtomicReplacement` | either table, 4 calls, 2 keys, 3 connections, 2 faults |
| `replacing_tx_live` | `EveryCallReturns` | either table, 4 calls of one key, 3 connections, 1 fault |
| `hub_config` | `TypeOK`, `ActiveBuilderConfigured`, `EveryReleaseLogged`, `SecretsWereCurrent`, `WrittenAsAttested` | 2 builders at one address, 2 requests in flight, 2 configurations, 2 events |
| `hub_auth` | `AuthorisedDuringRequest`, `RevokedOnlyDrains`, `RevocationTakesEffect` | 2 builders and addresses, 1 measurement of either of 2 types, 2 templates, 4 claims, 1 request in flight |
| `hub_peers` | `PeerListFaithful`, `WrittenAsAttested` | 2 builders, 2 networks, 2 services, 3 registrations, 2 requests in flight |
| `secret_stores` | `TypeOK`, `SomeSetWins`, `OtherKeysKept`, `AtomicSecrets` | each store, 3 calls, 2 builders, 5 payloads of every kind, one with a number that float64 rounds, documents and paths as an administrator may have left them, 1 fault |
| `lifecycle` | `TypeOK`, `CutOffOnlyAtDeadline`, `ClosedToNewRequests`, `DrainNoticed`, `TokenKept`, `SignalEndsProcess` | 5 command lines, 2 requests in flight |
| `conversions` | `MatchIsSomeReading`, `PeersReadBack`, `FlatMapsAreReadings`, `MergedInPlace` | 2 registers and 3 values; 3 service names, 2 builders; secrets of depth 2 over 3 keys, one with a dot, and 8 configurations |

Four calls are enough for two pairs that compete for different keys, for three
that compete for one, and for a cycle of more than two waits; two faults can hit
two of them, or a call and the one that waited for it. In the hub, two requests
in flight plus the calls that take one step give every overlap of two handlers
with any change an administrator makes; `hub_auth` has one request because its
properties speak of one and its rivals are administrators. In the stores, three
calls are two writes that overlap and a read or a third write of the same or of
another builder. Two requests in the lifecycle are enough for two drains, for a
drain and a call, and for calls that hang on two servers; the command lines are
those that differ in what is started. `Endpoints` restricts
a run to the handlers that matter for its properties, and `MaxRegistrations`,
`MaxConfigs` and `MaxEvents` bound the tables. Between them the runs take every
action.

The hub's safety runs use symmetry of names and a view without `resp`. No action
reads `resp` and the action properties of those runs read `resp'` only, so two
states that differ in `resp` alone have the same successors and satisfy the same
properties. The invariants of those runs do not mention it.

`NoneStuck` is more than the absence of deadlock that TLC checks by itself: there a
fault or a call given up by its client counts as a way out, here it does not.

`replacing_tx_live`, `hub_auth` and `lifecycle` check liveness and use no symmetry.
The first does not check for deadlock: a call that is stuck is a counterexample of
its property.

`WrittenAsAttested` is checked for events in `hub_config` and for registrations in
`hub_peers`. In `hub_config` one secret value is enough to tell a builder's secrets
before and after `SetSecrets`, and one builder's from another's; the theorem is about any.

`MergedInPlace` speaks of secrets without dots in their keys, `FlatMapsAreReadings`
of all: where a dotted key and nested ones give the same path, either string may
win. The strings are a plain one, one that spells an escape sequence and is read back as
the character, and one with a control character, which no JSON string may hold.
`PeersReadBack` states what happens to a service named like a field too: the
whole list cannot be read.

Four runs are expected to find a violation; each states what a comment or the
repository's README says of the code, and `PROJECT.json` quotes it under findings:

* `duplicate_measurement`: uniqueness of measurements is per name, not per name
  and attestation type as the note at `service.go:282` says;
* `full_config`: `GetFullConfigForBuilder` returns the secrets without the
  configuration;
* `add_builder_payload`: the documented payload of a new builder lacks the
  network that the handler requires;
* `early_signal`: a signal that is pending when the servers are started makes
  `Shutdown` dereference the metrics server that its goroutine has not created. In
  the trace it arrives after the login to Vault; an earlier one makes the login fail.

### Fairness

`ActiveRowTx!FairSpec` is weakly fair for the steps of each call that need no
fault: the Go runtime runs the handler, PostgreSQL executes a statement that can
proceed and looks for deadlocks. Nothing is assumed of faults. A call blocked on
the pool or on a lock is not helped by fairness; it is the others that must
finish. `BuilderHub!FairSpec` is weakly fair for the next step of each handler:
calls to the database and the secret store return, with a result or an error. It
assumes nothing of the arrival of requests or of what administrators do.
`ServerLifecycle!FairSpec` is weakly fair for the main goroutine, whose calls at the
start return with a result or an error, and for the deadlines of the shutdown
contexts. Handlers, the goroutines of the servers, the token watcher and the signal
are not fair: `SignalEndsProcess` holds although all of them may hang.

## Proofs

For any number of requests, keys, builders, measurements and slots, under the
assumptions named in the modules (a pool of at least one connection, finitely many
calls at a time, `None` and
`Null` different from the values they stand beside and, as SQL's NULL, from the
number of a row, the production network among the networks; payloads of different
kinds different, `Absent` neither a document nor a payload and `Opaque` no document, an
object still an object once its numbers are rounded; a field of a JSON object read from its
own key). TLC evaluates all of them in the runs.

* `ActiveRowTxProofs`
  * `TypeCorrect`: `Spec => []TypeOK`.
  * `OneActiveRow`: `Spec => []LatestIsActive`. The inductive invariant `IInv`
    adds `LocksOwnKey` (a transaction deactivates rows of its key only) and
    `CommitReady` (past its INSERT a transaction holds every active row of its
    key, and no other transaction is past its INSERT for that key). Without
    `CommitReady` the step `Commit` could leave two active rows; it is
    established by the index and kept because a rival cannot place its entry.
  * `ReplacementIsAtomic`: `Spec => AtomicReplacement`, refinement of
    `ActiveRegister` with the owner of the active row as its value. A commit maps
    to `Replace`, an end without commit to `Refuse`, all else stutters;
    `LatestIsActive` makes the active row unique.
  * `OneCallWins`: `Spec => []SomeCallWins`. The property says something only when
    all calls for a key have returned, so it is not inductive; `Survivor` is the
    form that is: without faults, a refused call leaves another of its key that is
    not refused. A violated constraint points to a committed row, whose owner got
    its success (`OwnersWon`); a deadlock victim waits for a transaction that is
    open (`LocksOpen`) and, because a scan and the locks stay within a key
    (`ScansOwnKey`, `LocksOwnKey`), writes the same key (`WaitsForOpen`). How the
    cycle of waits is found plays no part.
* `ActiveRowTxProgressProofs`
  * `CallsNeverAllWait`: `Spec => []NoneStuck`. The inductive invariant `WaitInv` adds
    to those above that only an open transaction holds locks (`LocksInTx`); hence
    whoever waits, waits for open transactions (`WaitsForInTx`), and an open one that
    waits for nobody is ready (`FreeIsReady`). Suppose nobody is ready. If calls wait
    for a connection, the pool is used up, so there is an open transaction in any
    case, and every open one waits. Of the sets of calls that are closed under
    waiting and have an open member take a minimal one; it exists because there are
    finitely many calls (`MinimalSet`, from the well-foundedness of strict inclusion).
    A member that were not in a cycle of waits would give a smaller one
    (`SomeoneDeadlocked`), so one is in a cycle, and PostgreSQL ends it: a
    contradiction. Finitely many calls are assumed for this step only.
  * `CallsOnlyAdvance`: in every step one call comes nearer to its return, by a
    statement or by a row of its UPDATE (`Advances`), and the others stay where they
    are. An UPDATE fixes the rows it visits when it starts, so the calls cannot go on
    for ever: with `CallsNeverAllWait` this is all of `EveryCallReturns` but the
    fairness.
* `BuilderHubProofs`
  * `HubTypeCorrect`: `Spec => []TypeOK`, with `RequestsHold` (what a handler has
    looked up by each of its steps) as the strengthening.
  * `ConfiguredWhenActive`: `Spec => []ActiveBuilderConfigured`. Three facts: a
    configuration is replaced and never taken away (`ConfigsGrow`), a builder
    becomes active only in `Activate` (`WhoActivates`), and a request gets there
    only past the check (`WhoNeedsConfig`).
  * `OnlyAuthorisedTakeEffect`: `Spec => AuthorisedDuringRequest`. The inductive
    invariant `RequestsAuthorised` says what a request has established after each
    lookup; it is kept because rows keep their address, type and template
    (`RowsFixed`) and the history only grows, and only a request past both
    lookups takes effect (`EffectIsLocated`).
  * `AuditRowsAttested`: `Spec => WrittenAsAttested`, from the same invariant: only
    `RegisterCredentials` and `LogEvent` add rows (`WhoRegisters`, `WhoInsertsEvents`),
    both past the lookups, and the row of the measurement a request holds is still
    there, with its type, so the subquery finds it.
  * `RevokedDrains`: `Spec => RevokedOnlyDrains`, from `HowRequestsChange`: a request
    keeps the builder and the measurement it has, begins without any, or takes them
    from a query for active rows.
  * `HandlersOnlyAdvance`: each step of a handler lowers the number of steps it has
    ahead (`StepsAhead`, at most six), and nobody else's step changes it. With
    `RevokedDrains`: the requests that act for a builder when it is deactivated are
    the only ones that will, and each is over after its own next few steps, which is
    all of `RevocationTakesEffect` but the fairness.
* `BuilderHubReleaseProofs`
  * `ReleasedSecretsCurrent`: `Spec => SecretsWereCurrent`. `SecretsFresh` says that
    from `FetchSecrets` on a request carries a pair of builder and secrets that was
    in force since it began; the history only grows, so later changes do no harm.
  * `ReleasesAreLogged`: `Spec => []EveryReleaseLogged`. The count of answers alone
    is not inductive: the event is written one step before the answer. `LogBalanced`
    adds, for each event, the requests that have logged it and not answered yet
    (`Owed`), a finite set: answers and debts together never exceed the events.
    A request keeps its event while it is in debt because rows of measurements are
    never deleted (`EventNamed`).
* `BuilderHubPeerProofs`
  * `PeerListsFaithful`: `Spec => PeerListFaithful`. The inductive invariant
    `LatestActive` says of registrations for the same builder and service that one
    is active and that an active one is the last. The list then follows from the
    LEFT JOIN (`JoinFacts`, `ListFacts`): a builder with registrations always joins
    an active one, so it is never dropped, and the row a service is mapped to is
    the last. `WhoListsPeers` shows that only `ListPeers` and the two internal
    endpoints answer with such a list.
* `SecretStoreProofs`. The inductive invariant `StoreInv` adds to `TypeOK` that
  nobody is answered twice and `ReadStillTrue`: what a call of the AWS store has
  read still agrees with the document in every key but the builder's. Each step is
  of one of four kinds (`StepKinds`): it leaves the store alone, reads a document,
  writes one, or writes a value.
  * `StoreTypeCorrect`: `Spec => []TypeOK`.
  * `NoOtherKeyLost`: `Spec => OtherKeysKept`, from `ReadStillTrue`: without it the
    document written back could be any. It also says that what was read is still a
    document that can be read.
  * `StoresAreRegisters`: `Spec => AtomicSecrets`, refinement of `SecretRegister`
    with the builder's own key as its value. The write of the document is the
    moment a set takes effect, the read before it a stutter.
  * `SomeSetGetsThrough`: `Spec => []SomeSetWins`. `WinInv` says that the document a
    call has missed was made by a call that was acknowledged.
* `ServerLifecycleProofs`
  * `LifecycleTypeCorrect`: `Spec => []TypeOK`.
  * `OnlyDeadlineCutsOff` and `NoneListensAtClose`: `Spec => []CutOffOnlyAtDeadline`
    and `Spec => []ClosedToNewRequests`. The inductive invariant `ShutdownInv` says of
    each server that `runCli` has left behind (`Past`) that it is closing and that
    whatever still runs on it met the deadline; it also needs that a closing server
    does not listen, however late its goroutine comes, and that requests run on
    servers that have listened.
  * `LoginTokenKept`: `Spec => []TokenKept`, with why the watcher has stopped.
  * `DrainsAreNoticed`: `Spec => []DrainNoticed`; an undisturbed drain keeps the
    server not ready, so that a readiness check can only find it so.
  * `SignalNeverStuck`: after the signal the main goroutine can go on (`MainReady`) or
    the deadline of the call it waits in is still to come (`DeadlineReady`).
  * `ShutdownOnlyAdvances`: each step of either lowers `StepsLeft`, at most 20, and no
    other step raises it. Together these are all of `SignalEndsProcess` but the
    fairness.

* `ConversionProofs`, about `Conversions!Spec`, whose inputs are arbitrary: any
  registers, values and lists of alternatives, and any lists of builders with
  bodies over any texts. The run `conversions` has the same steps and those of
  `ConfigUtils`.
  * `AlternativesAreReadings`: `Spec => []MatchIsSomeReading`. A measurement that is
    accepted is itself a reading of the template, once restricted to its registers.
  * `CredentialsReachPeers`: `Spec => []PeersReadBack`, stage by stage: `RowKeeps`
    (NULL and the empty string), `JsonKeeps` (`omitempty`), `ServedFacts` (the
    services are written over the fields), `PeerReadBack` (one builder). It rests on
    NULL not being a text and on `Fold` keeping the names of the fields.

Every invariant and action property of the runs that can be proved here is. Only
model-checked: `FlatMapsAreReadings` and `MergedInPlace`, which say what recursive
definitions compute and would need induction over the secrets; and the liveness
properties `EveryCallReturns`, `RevocationTakesEffect` and `SignalEndsProcess`,
which are out of the prover's reach. Of each of the three the safety part is proved:
a step is possible until the goal is reached, and each step lowers a bound. That
`Ready`, `MainReady` and `DeadlineReady` are when `Step`, `MainStep` and `Deadline`
are enabled can be read off their guards; it is not proved, as ENABLED cannot be
reasoned about.

## Not modelled

The wording of responses and logs, the bytes of certificates, keys and addresses,
time stamps; header parsing beyond well-formed or not; log output and metrics
counters. The admin password check is a filter without state: a model of it would
be its two conditions over again. Paths with array indices in `MergeConfigSecrets`
are left to `jsonparser`, whose code is not in the repository; what `SetPath` does
for other paths is marked external. The empty string as a key of secrets is not
among the inputs, nor are strings with a double quote or an odd backslash at their end:
`MergeConfigSecrets` does not escape them and `Quote` says what it makes of the others.
`MergeSecrets`, `LoadMockResponses` and the pprof routes are used
by nothing or keep no state. Rows are never deleted by the code, so no action
deletes one. The order in which PostgreSQL takes locks inside one statement beyond
the order of rows is not modelled. Read and write timeouts of the servers end
connections, not handlers, and are left out.

## Plan

1. Done: the replacing writes with their abstract register; measurements; the hub
   with its three APIs; the theorems above.
2. Done: the secret stores with their abstract register, the server lifecycle, the
   conversions.
3. Done: the proofs about the secret stores and the lifecycle.
4. Done: the proofs about releases, peer lists, competing calls and the
   conversions.
5. Done: the proofs about waiting, progress and revocation. What is left to TLC is
   named under Proofs.
