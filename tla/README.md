# A TLA+ verification of openagent-tools

openagent-tools is a set of tools an agent host runs or calls: Go services that
keep provider credentials and act on providers for a host
(`packages/connectors`), and Python, TypeScript and Rust tools that run beside
the agent (shell, code execution, files, desktop control, browser). This
directory models the parts of it that keep state under concurrency, failures
and restarts, checks the models with TLC and proves theorems about them with
TLAPS.

## 1. Inventory

What each component keeps, does and must guarantee. Paths are relative to
`src/packages/` unless they begin with `src/`.

| component | state | operations | what is hard | what makes it correct | module |
|---|---|---|---|---|---|
| Slack channel relay, `connectors/channels/slack/{server,api,store,provider,types}.go` | in an encrypted vault: bindings, one bot grant per workspace, consent transactions, deliveries, operations; in memory: `grantMu` | start, consent page, OAuth callback, activate, session, inbox, ack, api, disconnect, Slack events, OpenStore | handlers interleave at every store Update and provider call; events take no lock; rotation of a single-use refresh token; restarts in the middle of provider calls; late, repeated and reordered events | one owner of the grant; one live destination per channel; revocation fences grants and delayed callbacks; a code and a refresh token are used once; a message is posted once per operation id | `SlackChannel` |
| Encrypted vault, `connectors/central/vault.go` | the sealed file, its temporary successor, the cached state, the poisoned flag, the process registry and the file lock | OpenVault, View, Update, Close | a crash or an error at each of write, fsync, rename, directory fsync; a failed Update that did reach the disk | a published state is durable; after a restart the state is the last published or, of an Update that failed, its old or new one and never a mix; one owner | `Vault`, `AtomicStore` |
| Central execution, `connectors/central/server.go`, `auth/central.go` | connections, invocations, one gate per connection, in the vault; the broker's token bindings elsewhere | create, callback, complete, refresh, invoke, status, disconnect, revocation, recovery | a provider call between two durable records; an invocation id retried; disconnect and revocation during a call; a crash between the broker's update and the vault's | an invocation reaches the provider at most once; its answers agree; nothing is done or published under a grant that ended; no token is stored that is not bound | `CentralExecution`, `TokenBindings`, `InvocationLog` |
| OAuth broker, `connectors/auth/{server,central,store}.go` | a JSON file: installations, transactions, token bindings, tombstones; in memory: disclosure forms | begin, consent page, approve, callback, redeem, refresh, revoke, update, NewStore | exchanges in flight against revocation; forms in several tabs; a crash or a loss of power around the rename | a consent is approved by the form disclosed last and redeemed once; a revoked grant has no token left; a token stays with its owner | `Broker`, `TokenBindings`, `BrokerStore` |
| Shopify groups, `connectors/auth/server.go` | per shop: version and digest of the pair, members, pending operation, mail, recoveries | redeem, refresh, finish, fail, expire, commit, publish, recover, disconnect, webhook | a pair is single-use and no host tells the broker what it is; hosts crash between provider and disk; mail is lost | no older pair is taken for the current one; a refresh token is spent once; everyone catches up or is told to reconnect | `RotationGroups` |
| Privacy events, `connectors/auth/{server,legacy_webhooks,legacy_relay,shopify_receipts,shopify_uninstall_safety}.go` | events, their recipients and acks, leases, receipts | webhook, events, ack, RunLegacy, Deliver, assess, reconcileShopRedacts | at-least-once relay with leases; uninstalls, redacts and new authorizations arrive late and out of order; an upgrade with events already stored | an uninstall is answered once; a delayed one revokes no later grant; a payload is cleared only after all acks; an emitted pair never changes | `PrivacyEvents` |
| Google Drive upload, `connectors/providers/drive_upload.go` | a session URL and an offset per call | create, lookup, chunks, probes, restarts | lost and late requests, partial chunks, lapsed sessions, answers that lie | a success means every byte is stored, once; no byte is skipped; the call ends | `DriveUpload` |
| Provider calls, `connectors/{runtime.go,providers/{http_adapter,budgeted_adapter,replio_context}.go}` | attempts, a budget | Invoke with retries, reservation, scope check | a retry of a write that may have been applied; a quota reserved before a call that fails; a scope that changes between attempts | a write without a key is sent once, a keyed one is applied once; the budget holds | `ProviderCalls` |
| Page tokens, `connectors/providers/{reviewed_batch,microsoft_files}.go` | none: all in the signed token | first page, next page | credentials rotate, accounts and configurations change between pages | a walk stays in one listing and is not cut short | `PageWalks` |
| IMAP stream, `connectors/providers/imap_stream.go` | captured and pending bytes, a budget | Read | chunks and responses do not coincide; read-ahead | the parser gets the bytes once, in order and validated | `ImapStream` |
| MCP calls, `connectors/providers/{keyless_mcp,higgsfield_mcp,coingecko_mcp,parallel_mcp,context7_mcp}.go` | a session and a protocol version, within one call | load the reviewed tools; initialize, notify, call | a server answers in streams, out of turn or with an error inside a success; a snapshot of tools that was changed; a credential that expires between two posts | only reviewed tools run; a refused call runs none; a result is the output of what was called and asked for | `McpCalls` |
| Mail, `connectors/providers/{imap,imap_send}.go` | none: `before_uid` and `uid_validity` are the caller's | list, get, mailboxes, send | messages arrive and go, and the mailbox is made anew, between two pages; a server that reports anything; a failure after the end of a message was sent | a walk misses no message that stays, repeats none and ends; a password goes out over TLS; a message is delivered whole and once, or said to be in doubt | `MailCalls` |
| Calendar, `connectors/providers/google_calendar.go` | none: ETags, page and sync tokens are the host's | list, get, create, update, delete | another host writes between a read and a write, or while a listing is followed; a write whose answer is lost | no update is lost; an error that says a write was turned away is true; events stay well-formed; a sync token covers everything before it | `CalendarCalls` |
| Connector runner, `connectors-python/.../runner.py`, `connectors/cmd/connector-runner`, `auth/local_oauth.go` | a process and its pipes; consents of own apps in its memory | call, close; start, poll, redeem | a call that times out leaves a reply behind; the process is replaced under other callers | a call gets its own reply; a code is presented once | `RunnerCalls` |
| Desktop host bridge, `desktop-tools/src/host-bridge.ts` | lifecycle revision, child process, retiring set, pending requests | start, stop, hardStop, request, receive, retire | awaits inside start; a late answer; a helper that will not exit | one helper at a time; every request ends once | `HostBridge` |
| Shell jobs, `shell` | jobs per principal, bounded output buffers | exec, output, kill, release, close | a job started while its principal is released; readers, pump and kill race | output is read in order and dropped only when counted; released principals keep no job | `ShellJobs` |
| Code executor, `execution` | active processes, the container, the closed flag | prepare, run, close | close between registration and spawn; a call cancelled at each await | nothing runs after close | `CodeExecutor` |
| Web search, `web-search/src/{browser-pool,rate-limiter,search-engine,enhanced-content-extractor,url-guard}.ts` | browsers and launches per type, the closing promise, a request counter | getBrowser, closeAll, execute, search, extract | eviction, relaunch and shutdown interleave at awaits; retries, fallbacks, redirects | every browser is in the pool or closed; the best answer is kept; the extractor requests only checked destinations | `BrowserPool`, `WebSearches`, `PageExtraction` |
| Browser sidecar, `src/sidecars/agent-in-chrome/host`: connection and viewers, `{cdp,browser-session,proxy-relay}.js` | pending commands, waits, the page shown, frames under way, two sockets | send, once, close, follow, deliver, frame_ack, handle | a command meets its answer, timeout, abort, detachment and the close; handlers share variables across awaits | each command is settled once, by its own answer; the newest page is shown; bytes stay in order | `CdpConnection`, `LiveView`, `LiveFrames`, `ProxyRelay` |
| Browser sidecar: control, `{mcp-server,browser-advanced,browser}.js` | tab numbers, sessions, `humanControl`, pending requests, used approvals | ensure, attach, click, install, request_takeover, resume, permissions | all agents share one browser with a human; everything may end between two awaits | a call admitted before a takeover stops but for its releases; a press goes to its tab and is released | `HumanControl`, `BrowserTabs` |
| Clients, catalogs, configuration, adapters that are manifests of the HTTP adapter, file and device tools, Meta Ads, other sidecars | none of their own | tools | string algorithms, operating system and network I/O | – | – |

The host talks to the relay and to central execution over signed HTTP; both ask
the broker to authenticate the installation (`AuthenticateInstallation`) and run
their store Updates inside its fence (`WithCentralInstallation`). Slack talks to
the relay by webhooks, the browser by redirects. The relay and central execution
each own a vault. The broker owns its own file. The local tools share nothing
with the services.

## 2. Modules

One module per component, as in the table; `TokenBindings` holds the operators
that central execution and the broker share, `InvocationLog` and `AtomicStore`
are abstract specifications. The theorems about a module are in its `Proofs` module:
`SlackChannelProofs`, `VaultProofs`, `CentralExecutionProofs`, `BrokerProofs`,
`RotationGroupsProofs`. `MCServicesProofs` derives the properties of the composite run
`services` from those theorems, and proves the ones of `BrokerStore`; `MCToolsProofs` proves
those of the run `tools`, `MCSidecarProofs` those of `sidecar`.
The `MC` modules give the constants values,
where a `.cfg` alone (`SlackChannel` with one of everything) does not:

    MCSlackPairs   SlackChannel, with two of something
    MCVault                                      Vault
    MCServices     CentralExecution (twice), Broker (twice), BrokerStore
    MCGroups       RotationGroups, PrivacyEvents (twice)
    MCProviders    DriveUpload, ProviderCalls, PageWalks (twice each),
                   ImapStream, McpCalls, MailCalls (three times),
                   CalendarCalls (twice), RunnerCalls (three times)
    MCTools        HostBridge, ShellJobs (twice), CodeExecutor, BrowserPool,
                   WebSearches (twice), PageExtraction, CdpConnection, LiveView,
                   LiveFrames, ProxyRelay
    MCSidecar      HumanControl, BrowserTabs (twice each)
    MCCallsEnd     the components that owe their caller an end

The last six each put several components side by side. Those of one module share
no state, or each models what it needs of the others, with all that the others
may do; so they are not interleaved. A variable `part`, chosen in `Init`, says
which instance of which component a behaviour exercises, and the others do not
move. Every behaviour of every instance is a behaviour of the whole and the other
way round, so an invariant `part = "x" => X!Inv` holds if and only if `Inv` holds
of instance x. Where the components really meet they are in one module:
`CentralExecution` contains the broker calls it makes in process, `RunnerCalls`
the client, the runner and the consents in its memory, `RotationGroups` the
broker and its hosts, `HumanControl` the agents, the human and the transport.

Deadlock is checked for the Slack relay and the vault. In the other runs a
behaviour stops when its bounded calls are used up, so those say
`CHECK_DEADLOCK FALSE`; that nobody waits for ever is `CallsEnd`.

Definitions marked "Faulty" are plausible mistakes in the code; each property of a
run is checked to fail when one of them replaces the definition after it.

Still worth doing: theorems about `PrivacyEvents`, the provider adapters, the runner and
the sidecar; the composition of `BrokerStore` with `Broker`.

## 3. The Slack channel relay

### SlackChannel.tla

One process serves everything, so the model's concurrency is that of goroutines
around a store. Every `Store.Update` is atomic and durable when it returns
(`central/vault.go`), so it is one step. A handler is cut into steps at each
Update, at each View whose result is used later, and at each provider call:

    installPage  InstallPage . Confirm
    callback     Callback . Consume . FenceExchange . Exchange . StoreGrant
                 (FailBinding after a cancelled or refused consent)
    withGrant    Acquire . [AdmitRefresh . Refresh . Refreshed] .
                 {AdmitMembers . Members} . AdmitCall . [Call] . Leave
    activate     Activate . withGrant . ActivateBinding
    inbox        Inbox . withGrant . Answer
    api          Api . [AdmitOperation] . withGrant . CompleteOperation
                 (OutcomeUnknown after an error)

`start`, `issueSession`, `disconnect`, `ack` and each Slack event are one Update
each and so one action each. `reqs` holds, for every handler in progress, where
it stands (`at`) and what it read earlier: the binding's version and session,
the grant's version (`held`), the time before a call (`stamp`). `grantMu` is the
mutex. The store's tables are functions; a record that is not there is the zero
record, with status `"none"`.

Slack is external: it mints events, delivers each any number of times within its
retry window and in any order, and honours a bot token until it mints an
uninstall or a revocation of it (`minted`). Code exchange, refresh,
`conversations.members` and the other calls may succeed or fail; a failed call
may or may not have had its effect.

What is left out, and why it does not matter to the properties:

* Authentication of hosts, signatures, CSRF and parsing are guards on data. A
  host's installation is checked by the broker under `fence`; registrations are
  not deleted while the process runs, and the allow-list is fixed, so for an
  admitted host the fence only fails with the broker. Without it the model has
  more behaviours, never fewer.
* `Acquire` is `Lock`, the first guard, the View and the Update that marks the
  rotation, in one step. Nothing but lifecycle events changes a grant whose
  mutex is held, and an event between any two of these makes the later one
  refuse, which is what an event before or after the whole step does.
* `api` admits the call in `membership`'s last line and again before it; with
  nothing between the two they are one step.
* The purge, caps, windows and lifetimes are parameters. An assumption of the
  module relates them as the constants of the code do: consent and redelivery
  are over before a record may be purged.
* Errors of a store Update are `StoreFails`: the Update has no effect. A vault
  poisoned after its rename is an Update that took effect followed by
  `StoreFails` of all others until `Restart`. That an Update is atomic, and
  durable once it returned, is what section 4 proves of the vault.
* A crash is `Restart`: handlers vanish and `OpenStore` recovers.

### Properties and runs

| run | model | properties |
|---|---|---|
| `slack_consent` (`SlackConsent.cfg`, `MCSlackPairs`) | 2 bindings, 2 channels, 2 handlers, 1 event, clock 0..1 | `OneGrantOwner`, `OneLiveBindingPerChannel`, `LiveBindingHasGrant`, `ConsentExchangedOnce` |
| `slack_serving` (`SlackServing.cfg`, `MCSlackPairs`) | 1 binding, 2 handlers, 2 events, 1 operation id, clock 0..1 | `TypeOK`, `RecordedRevocationFences`, `PostedAtMostOnce`, `MentionsReachTheirConsent`, `RefreshTokenUsedOnce`, `OutcomesAreFinal` |
| `slack_lifecycle` (`SlackLifecycle.cfg`, `SlackChannel`) | 1 binding, 1 handler, 2 events, clock 0..3, a delivery table of 1 | `UninstallFencesDelayedCallback` |
| `slack_handlers_end` (`SlackLiveness.cfg`, `SlackChannel`) | fairness, 1 binding, 2 handlers, 1 event, 1 operation id, 2 pages | `HandlersEnd` |
| `slack_revocation_before_store` (`SlackDelayedCallback.cfg`) | 1 binding, 1 handler, 1 event | `RevocationFencesDelayedCallback`, violated |

Why the bounds are enough. The races of consent are between two handlers or a
handler and an event, and the channel rule needs two bindings: two of each. A
grant with `GrantLife = 1` expires within the clock, so rotation, restart and
revocation meet; `TxLife`, `SessionLife` and the clock let a transaction and a
session end while a handler waits. `MaxVersion` lets a binding be disconnected
or revoked while handlers hold its old version. In `slack_lifecycle` the clock
passes `Retention`, so records are purged, and the table of one record is full
as soon as one is stored. Symmetry is used over bindings, channels, requests and
events, in safety runs only.

Fairness (`FairSpec`). A handler's own steps are weakly fair: every provider
call and every request has a deadline (`provider.go:55`, `server.go:128`), so it
returns, with an answer or an error. Taking `grantMu` is strongly fair: a
`sync.Mutex` in starvation mode hands itself to its first waiter. Hosts, users,
Slack, the clock and the disk promise nothing. `HandlersEnd` says that then every
handler ends.

### SlackChannelProofs.tla

For every value of the constants, from the module's three assumptions (the
durations are naturals ordered as in the code, `None` is no id, the events are
finitely many; the proofs use the first two):

* `TypeCorrect`: `Spec => []TypeOK`.
* `GrantOwnerUnique`: `Spec => []OneGrantOwner`. Every step of a handler keeps
  the lock, releases it, does without it or takes it when it is free
  (`LockSteps`); the invariant is inductive over that.
* `ChannelsUnshared`: `Spec => []OneLiveBindingPerChannel`. No step but `Start`
  makes a binding live or moves one (`BindingsRevived`), and `Start` looks at
  all of them.
* `LiveBindingsGranted`: `Spec => []LiveBindingHasGrant`. No step but
  `StoreGrant` and a lifecycle event makes a grant appear or be revoked
  (`GrantsKept`), and an event revokes the team's bindings with its grant.
* `RevocationsFence`: `Spec => []RecordedRevocationFences`. Not inductive by
  itself: `StoreGrant` compares records with the time its consent began but
  stamps the grant with the current one. The strengthening is `ConsentsBegun`:
  no consent began in the future.
* `ConsentsExchangedOnce`: `Spec => []ConsentExchangedOnce`. The strengthening
  `ConsentSpent` counts who can still exchange a code: a transaction that is not
  consumed has no exchange and no request behind it, a consumed one has one request at
  most between `Consume` and `Exchange`, and none after an exchange.
* `OperationsPostedOnce`: `Spec => []PostedAtMostOnce`. `OperationsWorked`: one
  request at most works on an operation; before its call nothing was posted, after it
  one message; an operation nobody was admitted to was never posted.
* `MentionsConsented`: `Spec => []MentionsReachTheirConsent`, with what a delivery
  knows of the binding it waits for (`PendingKnown`).
* `RefreshTokensUsedOnce`: `Spec => RefreshTokenUsedOnce`. The version of an
  active grant was never presented, and a request that renews holds a version nobody
  presented as long as it has not called (`TokensPresented`).
* `OutcomesFinal`: `Spec => OutcomesAreFinal`, step by step from the frame lemmas.
* `UninstallsFence`: `Spec => UninstallFencesDelayedCallback`. The callback can be
  late by the life of the consent and of a call, and the assumption on the durations
  says the record of the event is kept longer.

The proofs rest on frame lemmas, one per variable: which actions change it. Each
invariant then has one step for each of those actions.

Only model-checked, of the relay: `HandlersEnd` (the prover has no reasoning about
fairness and `ENABLED`).

## 4. The encrypted vault

### Vault.tla

A vault is one file that every Update replaces whole. Methods of one vault are
serial (`mu`), so each vault is at one stage (`at`) of what it does; the steps
between two stages are those where a process can die, a call can fail, or a
machine can lose power:

    OpenVault  Register . Lock | LockRefused
               ReadCurrent | ReadStale . persist | ReadFailed
    Update     UpdateRejected | Update . persist
    persist    WriteTemp . Rename . SyncDirectory
               (PersistFailed before the rename, SyncFailed after it)
    Close      Close . Unlock . Unregister, also what a failed OpenVault does

`registry` is `vaultPaths`, one per process; `flock` is the lock of the lock
file, which the operating system drops with its process. `sealed` is the state a
vault serves, `next` the one it persists. A state is reduced to what the
properties tell apart: the key it is sealed with, the set of updates it reflects
and the status of each invocation record. `View` has no effect and is not an
action.

The file system is external. A rename is atomic and seen at once, and a power
loss may take it back until an fsync of the directory: `older` holds what the
path may then hold again. A file renamed before its bytes were flushed may be
left damaged. `outcome` records what each caller of Update knows: "indoubt" is
the error of a vault that poisons itself, or no answer because of a crash.

Left out: limits on file sizes, file modes and symbolic links, which are
`ReadFailed`; the temporary file is private until its rename, so its creation,
write, fsync and close are one step. The lock file is only locked, on Unix
(`vault_lock_unix.go`).

### AtomicStore.tla

What a vault promises its callers, without files, locks or processes: an update
commits whole or not at all; only a committed one is acknowledged and only an
uncommitted one is rejected; a crash may take away what no caller was told is
stored. `Vault` implements it with `applied <- file.applied`
(`ImplementsAtomicStore`).

### Runs

| run | model | properties |
|---|---|---|
| `vault_crashes` (`Vault.cfg`, `MCVault`) | 2 processes trying the path twice at a time, 2 keys, 2 updates, 1 invocation record | `TypeOK`, `OneOwner`, `AcknowledgedUpdatesSurvive`, `ServedStateIsStored`, `FileStaysWhole`, `RecoveredBeforeServing`, `ImplementsAtomicStore` |

Why the bounds are enough. Exclusion has two layers, the registry within a
process and the lock between processes: two of each contend for both. Two keys
rotate back and forth without bound. Two updates let a failed one be followed by
another from the state the failure left. Openings, crashes and power losses are
not bounded. Symmetry is used over processes and updates; no property is a
liveness property.

Recovery itself is not durable (section 9). What does hold is
`RecoveredBeforeServing`: the file as it is seen is recovered whenever a vault
begins to serve.

### VaultProofs.tla

For every set of processes, slots, keys, updates and invocation records, from
the assumption `Distinct` (the null values are no members of the sets they stand
beside):

* `TypeCorrect`, `OwnerUnique`, `AcknowledgedSurvive`, `ServedIsStored`,
  `NeverDamaged`: the five invariants of the run.
* `VaultIsAtomic`: `Spec => ImplementsAtomicStore`, by the initial states and
  one step per action.
* `OpensRecovered`: `Spec => []RecoveredBeforeServing`.

`OneOwner` needs only the types. The others are one induction over `IInv`, since
each needs the others: what a vault holds in memory is the file
(`ServedStateIsStored`), the state it persists is that file and its update
(`WorkIsCurrent`), what a power loss may put back reflects no update the file
does not (`OlderStatesAreEarlier`), what is renamed was flushed
(`BytesAreFlushed`), the update a vault works on has not been answered
(`UpdateUnderWay`), and nothing that was rejected, or not called, is stored
(`NothingElseIsStored`). `RecoveredBeforeServing` is about the moment a vault begins to
serve; what it needs on the way there is that the state it persists, or found to need no
recovery, is recovered (`RecoveryUnderWay`).

Every property of `vault_crashes` is proved.

## 5. The connectors' services

### CentralExecution.tla, TokenBindings.tla, InvocationLog.tla

`conns` and `invs` are the two tables of the vault's state, `gate` is who holds
`s.gate`, `txs` and `bindings` are what the broker keeps for central mode,
`offered` stands for the catalog that `current()` compares with. `reqs` holds for
each HTTP request where it stands and the copy of the record it works on. A
request takes the gate and keeps it over its provider calls, so what interleaves
inside it is the gate-free invocations route, the broker's revocation, the
withdrawal of a catalog entry and a crash:

    complete    Enter . Redeem . Exchange . Bind . Store
    refresh     Enter . PresentRefresh . ProviderRefresh . Rebind . Restore
    invoke      Enter . (Replay | StartInvoke . [refresh] . Admit . Call . Finish)
    disconnect  Enter . Disconnect

`Refuse` is any early return or error and gives the gate back; `GiveUp` is a
caller that leaves the queue. `create` calls no provider and is one action.
`Bind` and `Store`, `Rebind` and `Restore` are the Updates of two stores that can
be separated by a crash. `InvocationLog` is the promise to a host: an identifier
is admitted once, reaches the provider at most once, and its outcome is final.
Left out: recipients, argument and result contracts, sizes (guards on data, which
are `Refuse`), and the vault's own failures, which section 4 has.

`TokenBindings` translates `bindTokenInState`, `bindRefreshedToken` and the
revocation of a grant as operators over a table of bindings. A token is a number;
a grant is named by the first token bound under it.

### CentralExecutionProofs.tla

For all sets of connections, requests and identifiers and any number of tokens and
restarts, from `CentralAssumption` (the sets are sets of distinct names, the bounds
naturals):

* `TypeCorrect`; `AnswersNeverDisagree`: `[]AnswersAgree`; `StoredTokensBound`:
  `[]StoredTokensAreBound`; `GrantsRevokedWhole`: `[]GrantRevokedWhole`;
  `CodesExchangedOnce`: `[]CodeExchangedOnce`.
* `CallsUnderItsGrant`, `PublishesUnderItsGrant`: the two action properties.
* `ExecutionIsLogged`: `Spec => ImplementsInvocationLog`.

One induction carries them. Its parts say what the gate is for: whoever is past `Enter`
is the one the gate names and works on a copy of the record that is still the record
(`CopiesCurrent`); an operation at the provider is covered by the scopes held and
recorded as running (`CallsRecorded`); what is answered is what is recorded. The two stores are tied by
`GrantsKept` and `PairKept`: the tokens of a connected handle are bound to it, and under
one grant; only the request at the gate can be between the broker's update and the
vault's. A revocation takes no gate, so the invariant cannot say that a stored token is
live; it says it is bound whole, live or revoked with all of its grant. The first lemmas
state what each operator of `TokenBindings` keeps: owners, tombstones, grants (`Kept`,
`WellBound`); `BrokerProofs` begins with the same lemmas, about its own table.

### BrokerProofs.tla

For all installations, transactions, requests and forms, from `BrokerAssumption`:
`TypeCorrect`, `CodesExchangedOnce`, `GrantsRevokedWhole`, and the action properties
`RevocationsFinal`, `OwnersKeepTokens`, `LastFormsAccepted`, `PostsApprove`. Codes need
`CodesSpentOnce`: a transaction that is not consumed was not exchanged, and one request
at most is about to exchange a consumed one; grants need
`WellBound`, the invariant of the shared table.

### Broker.tla, BrokerStore.tla

`Broker` has the transactions in memory and the bindings in the store. `authorize`
is `Render` (GET), and `Post . Approve` (POST), which are two critical sections;
`redeem` is `Redeem . Exchange . Bind . Return`, `refresh` is
`PresentRefresh . ProviderRefresh . Rebind`, `revoke` is one Update. `Expire` is
the lifetime of a transaction, `Restart` loses transactions and requests and keeps
the bindings. The provider may answer with the access token it gave before, to
another installation too. Left out: rate limits, registration of installations,
signatures and sizes; the pages' wording.

`BrokerStore` is the file under it: `update` is
`Call . Copy . Write . SyncFile . Rename . SyncDirectory . Publish`, `NewStore` is
`Open`, its own update, and `OpenEnds`. `Crash` may come between any two, `PowerLoss`
puts back any content renamed since the last fsync of the directory. It implements
the same `AtomicStore` as the vault. `SyncMayFail` says whether the directory's
fsync may fail (section 9).

### MCServicesProofs.tla

The broker's store first, for every set of updates, from `RepairsAssumption` (the repairs
are updates, the null value is none):

* `StoreTypeCorrect`, `PublishedStored`: whether or not the directory's fsync fails, what
  a request can read is in the file at the path.
* `RepairedFirst`: `[]RepairedBeforeServing`, also if the fsync fails.
* `AcknowledgedSurvival`, `StoreUpdatesAtomic`: if that fsync does not fail, nothing
  acknowledged is ever lost, and the store implements `AtomicStore`: a rename commits, a
  publication acknowledges, a failure rejects, the end of the process leaves in doubt.

The induction is over `Consistent` for the first three: memory is the file but for the
update that was renamed and not published (`MemoryIsCurrent`), the holder of the lock
belongs to a process that runs and to a caller that waits (`HolderRuns`), the file
holds nothing rejected or not yet renamed (`NothingElseIsStored`), and a loss of power
puts back nothing the file did not grow from (`PossibleIsEarlier`). The last two add
`SyncedIsDurable`: from that fsync on there is one content the path can have.

Then the composite. The run `services` checks conjunctions over the five parts of
`MCServices`; they are theorems about it: `CentralIsSafe`, `BrokerIsSafe`, `GrantsBind`,
`ExecutionIsLogged`, `StoreIsAtomic`. The invariant is that each part's inductive
invariant holds when it is exercised; the lemmas about the parts are instantiated with
the constants of the composite, which satisfy their assumptions (`ServicesAssumption`,
evaluated by TLC). `BrokerIsSafe` and `StoreIsAtomic` name the case `SyncMayFail = FALSE`,
which is the one of the run.

### RotationGroups.tla

One group of one shop, the hosts in it and the shop. `group` is the record of the
store; `ops` are the requests in the broker's memory, each
`BeginAuthorization | BeginRefresh`, then `ProviderCall`, then `Finish | Fail`;
`mail` and `recoveries` are the queues; `hosts` is what each host has in memory
and on disk (`Save` before `Commit`, as the runner does); `shop` is the truth:
the pairs issued, and how often each refresh token was presented. `Lapse` and
`Expire` are the two halves of `PendingUntil`. Faults are counted: a crash of a
host, a restart of the broker, an envelope that runs out of time. A pair is a
number; digests are the pair itself, since the code only compares them.

### RotationGroupsProofs.tla

For all members, finitely many operations and any number of faults, from
`RotationAssumption`: `TypeCorrect`; `PairsPresentedOnce`: `[]RefreshPresentedOnce`;
`CurrentHoldThePair`: `[]CurrentMembersHoldThePair`; `RevokedComesBackByConsent`:
`RevokedUntilConsent`; and, for a group nobody redacts, `CurrentIsLatest`:
`[]CurrentPairIsLatest`. With redacts that one is false of the model (a redact takes the
reservation of an authorization whose answer the shop then gives to nobody), so the
theorem names the case; the run has it FALSE.

None of the properties is inductive, for the reservation can be lost while its holder is
at the provider. What saves them is that only an uninstall takes it from a refresh, and
an uninstall voids the pair the refresh presents. The invariant:

* `ReservedKept`: the operation that holds the reservation is the one that reserved, a
  refresh only of a group that is not revoked; its answer is a pair that is newer than
  the group's version, not voided and not presented.
* `PresentedFresh`: a refresh at the provider presents a pair nobody presented before it
  and nobody else presents now; if it has lost the reservation, that pair is void.
* `SettledUnspent`: the pair of a group that is neither rotated nor told to reconnect is
  unspent, so the next refresh may present it.
* `TokensKnown`, `HoldersCurrent`, `VersionsAgree`: no token anywhere is newer than the
  group, one of its version is its pair, and versions do not outrun the shop.
* `LatestKept`, without redacts: whoever is at the provider without the reservation
  presents a void pair, so the reservation's answer stays the last one.

TLC checked the conjunction on the run's constants before it was proved.

### PrivacyEvents.tla

Events of one shop from `webhook` over pairing (`Reconciled` is
`reconcileShopRedacts`), to `events` in both versions, `ack` and the legacy
worker (`TakeLegacy`, `FinishLegacy`, `CrashLegacy` for an expired lease). Time is
logical: each acquisition, uninstall and redact has a moment of its own, so that
"older" and "newer" are exact, and `Skew` and `Delay` are the two clock
allowances of the code. Authorizations are reduced to the moments that events are
compared with; `RotationGroups` has them in detail, and an uninstall there is one
that this module's checks let through. Left out: the signature of legacy posts,
the minimization of payloads, and `customers/*` topics, which revoke nothing and
are paired with nothing.

## 6. Providers and the runner

`DriveUpload` is one call of the adapter: `Create` and `Lookup` for a bounded
upload, `StartSession`, `SendChunk` and `Probe` for a resumable one, with the
counters of attempts, recoveries and restarts as in the code. A request's effect
takes place now, later (`Arrive`) or never, and the adapter sees Drive's answer
or a failure, independently (`Travels`). Sizes are in quanta of Drive's chunk
granularity. `Trusted` FALSE is a Drive that answers anything: the adapter must
still end and not claim bytes it never sent.

`ProviderCalls` is the path of one invocation: admission (`Runtime.Tools`,
`Runtime.Invoke`), the reservation of a budgeted call, and per attempt the
credential, the scope check of a replio key, the request and what becomes of it.
An operation is reduced to what decides its retries. The provider applies a
request when it arrives, later, or not at all, and drops a repetition only by its
key.

`PageWalks` covers the adapters that sign page tokens. They keep no state, so the
model's is the host's: results that carry tokens, handed back in any order while
the credential, the account and the configuration change. What the adapters do
differently (what is hashed into a binding, who checks a link) is `Adapter`.

`ImapStream` numbers the bytes of a connection. `Read(n)` is a read of the
client's parser; `Fill`, `Validates`, `Refuses` and `Ends` are the second parser
that runs inside it, with the read-ahead of its `bufio.Reader`.

`McpCalls` is one call at an MCP server: `Load` builds the adapter, from the compiled
tools or from a file of reviewed ones; `Invoke` refuses or begins; `Post` sends the
three messages in turn, and `Initialized`, `Notified`, `Called` or `Fail` takes the
answer to each. A body is a list of lines, each with the id of a request and what it
says; what the decoders and validators of the five adapters make of it is kept
(`Decodes`, `Responds`, `Result`, `OutputValid`), how they parse it is not. The server
runs a tool once, at any moment after it was sent (`Run`), and answers anything, except
that it claims no result of a tool it has not run.

`MailCalls` is one connection at a time to a mailbox and its server. `Dial . Secure .
Login . Authenticated` are common to reading (`Select . Search . Fetch . Return`, `Get`)
and sending (`Sender . Recipient . Start . Write . Finish . Reply`); `Fail` ends any of
them with what the code reports of that step. A caller walks from page to page as the
operation's description says. `Arrive`, `Expunge` and `Recreate` change the mailbox of an
honest server; one that is not honest reports and finds what it likes. The caller sends
its message again unless it was accepted or may have been: what `delivery_unknown` asks
of it.

`CalendarCalls` is one calendar and the calls of several hosts: `Invoke` is what the
adapter sends (a call that `Planned` refuses leaves nothing), Google answers by `Gets`,
`Lists`, `Creates`, `Changes` or `Refuses`, and `Return` is what the adapter makes of the
answer and the host of the result. An ETag is the number of the change that made an event
as it is. What a host keeps is what the operations' descriptions ask of it: the ETag of
what it read, the page token, the final sync token, and a fresh start at
`sync_reset_required`. The calendar list is read by the same code and is not modelled
apart; recurrence rules, filters and texts are data. A PATCH of start and end alone is
not compared with the recurrence an event already has (`calendarValidEvent` sees the
PATCH only), so nothing is claimed of rules and dates together.

`RunnerCalls` puts the Python client (`call`, `queue`, `lock`, `process`) and the
Go runner (`live`, `stdin`, `stdout`, `busy`, `tx`) together. The client's steps
are `Acquire . Spawn . Read`, ended by `Timeout`, `Cancel` or `Unavailable`,
each of which kills the process; the runner's are `Take` and one action per
method, with the exchange of a code as a step of its own (`Redeem . Exchanged`).

## 7. Local tools

Event loops and asyncio run one callback at a time, so an action of these modules
is what runs between two awaits that can wait.

* `HostBridge`: `Start` is everything up to the first await; then
  `AwaitRetirements`, `Prepare`, `Spawn` (with `initialize` in the same turn) and
  `Consent`, any of which may find itself `Overtaken` by a later revision.
  `Stop . StopRetires . Stopped`, `HardStop`. A helper is named by the start that
  spawned it and may answer late, send garbage, exit, or ignore signals.
* `ShellJobs`: per job the process, the pipe, the drain task, the bounded buffer
  and the reader's cursor. `Exec . Started` in the background,
  `ExecForeground . StartedForeground . [Fed] . (Ends | TimesOut | CancelCall) .
  ForegroundReturns`, `Kill . [GraceEnds] . KillReturns`,
  `Stop . StopJob .. StopAwaits . StopReturns` for a release and for close.
  `shell_input`, `shell_list`, `shell_which` and `shell_processes` change none of
  that state.
* `CodeExecutor`: `Run . Prepare . [Prepared] . Spawned`, the command in its
  container (`CodeStarts`, `FileWritten`, `CodeEnds`), the ends of the wait
  (`Return`, `Timeout`, `Cancel`) and the kill in two halves (`KillCode`,
  `KillClient`); `Close . CloseKills .. Cleanup` under the prepare lock.
* `BrowserPool`: `Acquire` is the synchronous part of `getBrowser`; a launch is
  `[OldClosed] . Launched . [Evicted]`; `CloseAll . CloseEnds`.
* `WebSearches`: the limiter (`Execute`, `Begin`), the loop over the engines and
  each engine's attempts. Results are reduced to the four scores the loop
  compares.
* `PageExtraction`: per page the plain client (`Check . Get`) and the two browser
  contexts (`Route` of a hop or `RouteRefused`, then `Load . Read`). A document that is
  there may navigate while `goto` waits (`Interrupt`), and it requests things of its own
  as often as it likes (`PageRequests`): a navigation is checked and its redirect aborted,
  a sub-resource is checked on its first URL and continued, and its redirects are
  followed by the browser unchecked, as the comment of `navigateGuarded` says. So
  `OnlyCheckedRequests` and `RequestsAreBounded` are about what the extractor requests;
  of what a page requests itself the first says that nothing but such a redirect
  (`"unrouted"`) reaches a refused destination, and there is no bound. Destinations are
  `"public"` or `"refused"`; the classification of an address is a pure function and
  left out.
* `CdpConnection`: commands and waits over one socket; the browser may run a
  command whose caller is gone.
* `LiveView`: `follow` by several handlers at once, each `await` a suspension;
  the messages to and from the browser are queues. Pages are numbered as they are
  created, and of the list of pages, of which the code takes the last, the answer
  carries only that one, the newest.
* `LiveFrames`: the frame state of each viewer, the frames on the wire and the
  acknowledgements on their way back.
* `ProxyRelay`: one connection; `stage` is the await of `httpTunnel` or
  `socksTunnel` it stands at; both directions of bytes after it.
* `HumanControl`: calls of the three kinds (over `send`, over the connection
  itself, over playwright), the transport they share, and requests that a human
  decides by signed approvals. A takeover, a detach and an abort ask playwright to
  close the transport, and nothing waits for a close that another of them asked for.
  That a later connection is made only once it is cut is left to playwright, and is the
  constant `ClosesInOrder`: where it is FALSE an old transport may outlive the next one.
  `Press` and `Release` are the two halves of a click, a key and a drag; `send` lets a
  release through under human control, and `late` counts those, up to the two a call may
  owe (of what it had pressed, and of the next press, whose refusal leaves through the
  same `finally`). `control` tests nothing after `page()`, so `RequestTakeover` may be
  over a connection that another call has given up and not yet closed; `strayed` records
  that, for it can take the slot from a takeover under way (section 9).
* `BrowserTabs`: `ensure` (`Launched . Discovered . Ready`), attachment
  (`Attached . SetUp`), a click (`Press . Release`) and a relaunch (`Relaunch .
  CloseConnection . Kill . Reset . Installed`), shared by all calls; a browser, a
  connection and a session each end on their own.

### MCToolsProofs.tla

For all the calls, jobs, runs, containers, browsers, searches and pages the assumptions of
the modules admit (`ToolsAssumption`, evaluated by TLC), about the composite of the run,
whose sidecar connections have the sets and bounds the run gives them (`Requests`,
`Popups`, `Watching`, `Tunnel`):

| theorem | property | components |
|---|---|---|
| `HostIsSafe` | `HostSafe` | `HostBridge` |
| `ShellIsSafe` | `ShellSafe` | `ShellJobs`, for both parts |
| `CodeIsSafe` | `CodeSafe` | `CodeExecutor`, with docker and without |
| `SearchesAreSafe` | `SearchesSafe` | `BrowserPool`, `WebSearches` in both modes, `PageExtraction` |
| `SearchesAreFinal` | `SearchesFinal` | `BrowserPool`, `PageExtraction` |
| `ConnectionsAreSafe` | `ConnectionsSafe` | `CdpConnection`, `ProxyRelay`, `LiveFrames`, `LiveView` |

The last is derived from lemmas about those four whatever their sets and bounds (`b`, a
record of them), so that each has a theorem of its own as well: `ConnectionIsSafe` for any
commands, waits and sessions, `RelayIsSafe` for any number of bytes and pieces,
`FramesAreSafe` for any viewers and any limit of frames in flight, `ViewIsSafe` for any
number of pages and of handlers.

Each component has an inductive invariant, `IInv` of its module, whose parts TLC checked
before they were proved; here is a lemma for the initial states, one for each action and
one that says what the invariant means. `StepCases` then says that a step is one of the
component that is exercised. What makes each of them inductive:

* `HostBridge`. That one helper lives is not inductive: a start may spawn while another
  helper is dying. `DeciderKnows` says what the current decider, the start or the stop of
  the last revision, knows: it has given up the helper it found, waits for whatever lives
  still, and nothing lives when it goes on to spawn. `Numbered` makes that decider unique.
* `ShellJobs`. `JobKnown` ties the call, the process and the reader of a job: what is
  registered was started in the background, a background job is final only after its
  process exited and its total was announced, a drain that reads is of a job that is not
  final. So the total that was announced cannot grow. `ReadKnown` says that everything
  given lies below the cursor, so a byte is not given again; `KillKnown` and `StopKnown`
  that kills, releases and closes hold on to jobs of that kind, also when a release has
  made the server forget them.
* `CodeExecutor`. `ExecKnown`: the prepare lock is held by the run that asks docker for
  a container, or by `close` from its first step to its last. `RunKnown`: code starts only
  in the executor's container or in one that was given up or is gone. `KillKnown`: a kill
  that reached the pid file reaches it again until the code has ended.
* `BrowserPool`, where the pool has room for a browser of every type (`Room`, which is a
  hypothesis of the two theorems: with less room an eviction removes the entry of another
  browser, section 9). `LaunchKnown`: a launch has taken its type off the map and began
  after the last closing, unless that one waits for it.
* `WebSearches`. `SearchKnown`: until a search is answered it keeps the best score that any
  engine found, and DuckDuckGo, which needs no browser, comes last. `BegunCounted` bounds
  the limiter by the searches that began.
* `PageExtraction`. `PageKnown` counts: what a page has requested is at most `Spent`, a
  request for each hop and for each client it tried, whatever its document does to the
  hops; and nothing but an unrouted request of the page reached a refused destination.

* `CdpConnection`. `UnsentUnknown`: a command that was not sent is not at the browser; so
  one that is refused has not run there. The rest is inductive with it.
* `ProxyRelay`. `Negotiates`: the stage is one its upstream is asked for, and nothing was
  piped before the tunnel stands, so the first bytes piped are the first of all.
  `GoneByReset` says when a browser can be gone while the handler goes on: after a reset,
  or behind a plain request.
* `LiveFrames`. What the server counts as in flight is at most what is on the wire, to be
  acknowledged or withheld, and exactly that for a viewer that was never resumed
  (`Counted`); what is on the wire rises and stays below what waits (`Rising`).
* `LiveView`. What is shown once the handlers are through is decided by the order of
  messages no handler has read. `Ordered` says that the handlers which head for a page by
  the same command are answered in the order of their pages, oldest first, and that events
  and lists come in the order the browser knew of them; `EventKnown` that what a message
  says of pages is still true when it is read: a page that was created lives, and every
  page newer than the one a list names is announced behind it. With `HandlerKnown`, that
  no handler goes back behind the page shown unless that one ended, the newest page is
  shown or somebody will follow it (`NewestComes`), and the page shown is cast or will be
  (`CastComes`). `Blink` is FALSE, in the proof as in the run: a page that ends before a
  handler on its way to it is there leaves the view frozen (section 9).

An instance has its own `Cardinality` for the prover; `HostCounts` and its like equate it
with the one of `FiniteSets`. That a set of pages has a newest (`NewestIs`) is drawn from
the well-foundedness of the numbers.

### MCSidecarProofs.tla

For any calls, pages, requests, nonces and origins and every bound (`p`, one record of
parameters for each part of `MCSidecar`), from `HumanControlAssumption` and
`BrowserTabsAssumption`:

* `HumanKeepsControl`, where playwright closes in order: `AdmittedCallsPause`,
  `OnlyOwedReleases`, `OrderlyTakeoversEnd` and `RequestsDecidedOnce`; `HumanIsSafe`:
  `[]HumanSafe` of the run. The first three are about what happens until a takeover is
  asked for over a connection given up (`~strayed`).
* `TabsKeepApart`: `LiveSessionsAreShared`, `PressesAreReleased` and `PressesReachTheirTab`;
  `TabsAreSafe`: `[]TabsSafe` of the run.

Why they are inductive:

* `HumanControl`. That no call acts once the human was told speaks of the moment he is
  told; `HandsOver` says what makes it true then. A takeover that has not been resumed is
  the slot's request from the handler's first step, and no transport works but the one it
  is closing. For this `Paused` keeps everyone else from connecting meanwhile, and
  `OneTransport` says that a connection is only made while there is none.
  `HandedOver` then holds until the resume, and `DecidedIsGone` makes it the last one.
  `LateKnown` counts a call's releases under human control by where the call is: none
  while it holds what it pressed before, at most one once it released that or its next
  press was refused, at most `Owed` afterwards.
* `OneTransport` is where `ClosesInOrder` is needed. Without it, and with three calls, TLC
  finds a call at work over connection 1 while a detach waits for that connection to
  close; another call connects anew, a third takes the browser over and closes connection
  2, and the human is told while the first still acts. Two calls, as in the run, are not
  enough for it.
* `BrowserTabs`. `NumbersAreOwn`: a number is above all that were given, so `named`, its
  first page, is its only one. `SessionsKnown`: a session that lives is of a connection
  and a page that live, so a new session never meets a live one on the connection it is
  made on. `CallKnown` says what a call holds at each await: while it attaches,
  `attaching` of the page is the call itself and no session is registered, so nobody else
  attaches the page; afterwards its session is its number's page. `SetUpAlone`: until a new
  session is set up nobody else holds it. A session is set up before it is shared, and a
  click is released in the session it was pressed in or that session has ended.

## 8. The runs of sections 5 to 7

| run | parts and bounds | properties |
|---|---|---|
| `services` (`MCServices`) | `invokes`: 1 connection, 2 requests, 1 identifier, a read and a write, 3 tokens, 1 restart. `grants`: 2 connections of one account, 1 request, 5 tokens, 1 restart. `tokens`: 2 installations of one account, 2 transactions, 2 requests, 6 tokens. `forms`: 1 transaction, 4 forms in 3 tabs. `store`: 2 requests' updates and 2 of `NewStore`. | `CentralSafe`, `BrokerSafe`, `GrantsAreFinal`, `ImplementsInvocationLog`, `ImplementsAtomicStore` |
| `groups` (`MCGroups`) | `rotation`: 2 members, 3 rotations, an uninstall, 2 faults. `pairs`: 2 uninstalls and 2 redacts around 2 authorizations, 1 host. `history`: 2 hosts and the legacy worker, an uninstall known before the upgrade. | `GroupsSafe`, `GroupsFinal` |
| `providers` (`MCProviders`) | uploads of 1 to 3 quanta in chunks of 2 to a Drive that tells the truth and one that does not; a keyed write, its repetition and a raw call; a scoped read, two budgeted calls and a write, of 2 attempts where there are several; 3 calls over listings of 3 pages for each adapter; all IMAP streams of up to 2 responses of up to 3 bytes; MCP calls of each provider for up to 2 pages or coins, snapshots of up to 3 tools where 2 are allowed, bodies of up to 2 lines; a mailbox of 4 messages made anew once, pages of 1 over windows of 2, and one of 5, pages of 2 over windows of 3; a message to 2 recipients; 2 hosts writing 1 event and a host following 2, 3 changes; three mixes of 4 runner calls | `WritesSafe`, `ListingsSafe`, `RunnerSafe`, `RefusedScopesAreFinal`, `RepliesAreOwn` |
| `tools` (`MCTools`) | 2 starts, a stop and a call; 2 shell jobs of 1 byte with a kill and a stop, 1 job of 5 bytes over a buffer of 2; 2 accounts; 2 runs and 3 containers; 4 acquisitions, 2 browser types, 4 launches, 2 closes; 2 searches in each mode; 2 pages, 1 redirect; 2 commands and 2 waits in 2 sessions; a page and 2 popups, 4 handlers; 1 viewer, 6 frames, 2 in flight; 1 proxied connection, 2 bytes each way | `HostSafe`, `ShellSafe`, `CodeSafe`, `SearchesSafe`, `SearchesFinal`, `ConnectionsSafe` |
| `sidecar` (`MCSidecar`) | `takeover`: 2 calls, 2 takeovers, 2 transports. `decision`: 1 request, 2 nonces, 2 origins, clock 0..1; playwright closes in order. `tabs`: 2 calls, 2 pages, 2 connections, 2 sessions. `relaunch`: 2 browsers, 1 install. | `HumanSafe`, `TabsSafe` |
| `calls_end` (`MCCallsEnd`) | sixteen components under fairness, each with 1 to 3 callers | `CallsEnd` |

Each property is a conjunction of named properties of the modules, one per part;
the comment before it says what each of them is about.

Why the bounds are enough. Every race the properties are about has two
participants: two requests at one gate or one store, two installations of one
account, two members of a group, a call and a stop, a call and a close, two
handlers of events; the third thing that may happen in between (a restart, a
revocation, an uninstall, a crash) is there once, or twice where a second one can
undo what the first one caused (two faults in a group, two closes of the pool).
Tokens are bounded by what the requests can mint, so that no behaviour ends for
want of a token before its requests do. Windows and pages of a mailbox are smaller than it
is, so that a walk has pages that are full, short and empty; three changes to a calendar
let a read, a write of another host and a write under the old ETag follow each other. Three rotations let a lapsed one be
followed by one that succeeds and another that meets both. An upload of three
quanta in chunks of two has a whole chunk, a short one and an upload of one chunk,
and `Recoveries` and `Restarts` let a session lapse after progress. Two attempts have one
that is repeated and one that is not. The clock of `pairs` ends where a second redact can
follow two authorizations and two uninstalls. Pages are
three so that a walk has a middle. Two redirect hops and one place force a page
to wait for a browser. Six frames with two in flight let one be replaced while
another is unacknowledged.

Symmetry is used over what is interchangeable (requests, hosts, calls, jobs,
pages) and in safety runs only. Where only one part has interchangeable names that are
taken up once, the next-state relation takes them in order instead (`InOrder`, the
operations of `groups` and the calls over listings of `providers`): a first is called
the first, and no behaviour is lost but for its names.

### Fairness

`calls_end` repeats, component by component, the fairness of the module's own
`FairSpec`:

* Weak fairness of a call's own steps. Every provider call, command, launch,
  probe, navigation and wait has a deadline in the code, so each ends with an
  answer or an error: the runtime's 90 s, the HTTP client of the adapters, the
  timers of `send` and `once`, the bridge's request limit, `withTimeout` of the
  relay, the shell's timeout, grace and drain limits, the executor's limits.
* Strong fairness of taking a lock or a place (`Place`): the gate is a channel,
  the prepare lock an `asyncio.Lock`, the limiters are queues; each serves its
  waiters in order, and a waiter may leave first.
* A killed process exits, and a docker daemon asked for something answers or
  fails.
* Nothing else. Providers, the runner, the viewers, the browsers, users and
  hosts owe no answer, and what they never do must not keep a caller waiting.
  For the groups, hosts run their own loop: they save, commit, poll and answer
  peers; nothing makes anybody begin a rotation.

`CallsEnd` is `Unfinished(i) ~> ~Unfinished(i)` for each caller, and that every
member of a group ends with the current pair or is told to reconnect. What is
excluded is in `Unfinished`: a proxied request whose upstream ended its side in
silence (the browser waits for ever), a viewer that has shown a frame without
acknowledging it, a background shell job, which has no end of its own, and a
foreground command that was fed more than the pipe holds (section 9).

## 9. Where the code and its documentation disagree

`slack_revocation_before_store` is checked as a run that TLC refutes. On the first
installation of a workspace a revocation of the bot token that is accepted
between the exchange of the code and the store Update leaves no record, since it
only counts for a grant that is stored; the delayed callback then stores the
revoked grant, against `server.go:387`.

The other disagreements were met while modelling. Each property below is stated in its
module and fails in the instance named; the runs of sections 4 and 8 leave it out, or
fix the constant that makes the case possible, so that the other properties are
checked without it. `PROJECT.json` quotes the text each one contradicts.

| property | instance | what happens |
|---|---|---|
| `SlackChannel.UninstallFencesDestinations` | 1 binding, 1 event | an uninstall between the exchange and the Update, delivered after it, is older than `AuthorizedAt` and revokes nothing |
| `Vault.RecoveryIsPersisted` | 1 process, a power loss | an opening that died before the directory's fsync leaves a rewritten file that the next opening serves without an fsync |
| `BrokerStore.AcknowledgedSurvive` | `SyncMayFail` TRUE | the directory's fsync fails unnoticed and the acknowledged update may be undone |
| `RotationGroups.OneAcquisition` | 2 members, 3 operations | an uninstall frees the group while an acquisition is at Shopify |
| `RotationGroups.MembersConsented` | 2 members | a refresh that ends after its host disconnected makes it a member again |
| `PrivacyEvents.RevokedGrantIsGone` | `Skew` 2 | an uninstall dated ahead of the broker's clock revokes a later authorization |
| `ShellJobs.NewOutputIsReturned` | 1 job | a filter that does not compile moves the cursor past output nobody saw |
| `ShellJobs.TimeoutEndsCommand` | 1 job, fed | a command that does not read its input is never timed out |
| `CodeExecutor.OneContainer` | docker, 2 runs | a cancelled `docker run` leaves a container and the next call makes another |
| `CodeExecutor.EndedRunsLeaveNothing` | docker, 1 run | a call cancelled before the pid file is written leaves its code running |
| `CodeExecutor.CloseEndsCommands` | local, 1 run | close passes over a command whose process is being created |
| `BrowserPool.EveryBrowserIsOwned` | `MaxBrowsers` 1, 2 types | an eviction removes the entry of a type that was launched anew meanwhile |
| `WebSearches.ResultsAreNotErased` | 1 search | results that all score zero are lost when the next engine finds nothing |
| `WebSearches.RateIsKept` | 2 searches | searches that arrive together pass the limiter together |
| `LiveView.ShowsLivingPage` | `Blink` TRUE | a popup that closes before it is attached leaves the view frozen |
| `HumanControl.AutomationPaused` | 2 calls | an install relaunches the browser, and `resize_window` moves the window, after the takeover; a click, key or drag in progress still sends its releases |
| `HumanControl.TakeoversEndByTheirResume` | 2 calls, 2 requests | a takeover asked for over a connection that another call gave up overwrites the takeover under way: both humans are told, and the second one's resume frees the browser the first one has |
| `HumanControl.TakeoverStaysPending` | 2 calls | a detach that awaits downloads clears a takeover begun meanwhile |
| `HumanControl.PermissionsExpireOnNavigation` | 2 origins | a navigation while playwright is disconnected is not heard |
| `BrowserTabs.DeadSessionsAreDropped` | 1 call | `ensure` that fails after the connection leaves one without handlers |
| `BrowserTabs.InstalledIsLoaded` | `MaxInstalls` 1 | a browser that may not be killed is reused without the extension |

Each is about a promise that the text makes and the code does not keep in the case
named. One bears on a property that is checked: `HumanSafe` says what it says until
such a takeover is asked for, since after it the code keeps neither the human's nor
the agents' side of the slot.

## 10. Proved and checked

Proved for every value of the constants:

| proofs of | section | properties of the runs | from |
|---|---|---|---|
| `SlackChannel` | 3 | all of `slack_consent`, `slack_serving`, `slack_lifecycle` | `NoneAssumption`, `DurationAssumption` |
| `Vault` | 4 | all of `vault_crashes` | `Distinct` |
| `CentralExecution`, `Broker`, `BrokerStore` | 5 | all of `services` | `ServicesAssumption`: `CentralAssumption`, `BrokerAssumption`, `RepairsAssumption`; for what an acknowledged update of the broker is worth: a directory fsync that does not fail |
| `RotationGroups` | 5 | what `groups` says of rotations | `RotationAssumption`; one theorem: no redacts |
| `HostBridge`, `ShellJobs`, `CodeExecutor`, `BrowserPool`, `WebSearches`, `PageExtraction` | 7 | `HostSafe`, `ShellSafe`, `CodeSafe`, `SearchesSafe`, `SearchesFinal` of `tools` | `ToolsAssumption`; the last two: a pool with room for every type |
| `CdpConnection`, `ProxyRelay`, `LiveFrames`, `LiveView` | 7 | `ConnectionsSafe` of `tools` | `ToolsAssumption`; pages that do not `Blink` |
| `HumanControl`, `BrowserTabs` | 7 | `HumanSafe`, `TabsSafe` of `sidecar` | `SidecarAssumption`; `HumanSafe`: `ClosesInOrder`, and until a takeover over a connection given up |

The assumptions are named in the modules and evaluated by TLC in the runs. Each follows
from the code: distinct names, natural bounds and, for the relay, the order of its
durations.

Only model-checked: of `groups` what it says of privacy events (so `GroupsSafe` and
`GroupsFinal` as a whole); `providers` (`WritesSafe`, `ListingsSafe`, `RunnerSafe`); a pool
with fewer places than types; human control over transports that close out of order; and everything that is liveness (`HandlersEnd`, `CallsEnd`), since the prover
reasons about neither fairness nor `ENABLED`.

## 11. Not modelled

* Clients, catalogs and configuration (`channels/slack/{client,config}.go`,
  `central/{client,catalog,config}.go`), the OAuth provider adapters' requests
  and decoding, the provider adapters that are manifests of the HTTP adapter (their
  argument validators and body builders), the Microsoft Graph adapter,
  the desktop tool front ends, the file and editor tools, the device tools, the
  Meta Ads server: stateless, or one system call after another. What they
  compute is string and JSON processing, which is out of TLC's reach.
* The broker's registration of installations, identity keys and rate limits,
  the privacy client in Python, the broker's command line.
* The limits of the relay's other tables: bindings, transactions and operations are
  never deleted (`server.go:250`), and deliveries of a binding that can no longer
  acknowledge them stay (`server.go:837`). `slack_lifecycle` has a full delivery
  table; the other tables have no limit in the model, so it says nothing about a
  relay that has used them up.
* `shell_input` and the Windows branch of the shell's kill; the ssh backend of
  the executor; locators, uploads, file choosers and downloads of the advanced
  browser tools; captures and console buffers of the controller; the translation
  of viewer input; the computer-control sidecar (native input, recordings).
* Details left out of modelled components, which no property depends on: the cancel
  request the host bridge sends without waiting for it (`host-bridge.ts:205-215`), the
  stop and start that give a late viewer a first frame (`browser-session.js:209-210`),
  and the IMAP stream's test `consumed > remaining`, which its own limited reader makes
  false (`imap_stream.go:151`).
