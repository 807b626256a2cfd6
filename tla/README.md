# Mission Control, in TLA+

A verification project for cybercore-mission-control: TLA+ modules translated
from its source, model-checked with TLC on small instances, and theorems
about them checked by TLAPS for every instance. Paths below are relative to the
repository root, which is `src/` here (so `src/src/db.ts` is the repository's
`src/db.ts`).

## 1. The system

A fleet of machines runs a small Rust **connector** each. The connector posts
**heartbeats** to a Cloudflare **Worker**, which keeps them in **D1** (SQLite)
and hands live events to one **Durable Object** per project; a single-page
**dashboard** loads snapshots from the Worker and listens to the Durable
Object over a WebSocket.

| component | state it keeps | operations | source |
|---|---|---|---|
| Heartbeat API | D1: `heartbeats`, `machines`, `agents.revoked_at`, `audit_events`; per request: where its handler stands | `POST /api/agents/:id/heartbeat`: authenticate, parse, SELECT / INSERT / UPDATE, audit, publish twice, answer | `src/worker.ts`, `src/db.ts`, `src/protocol.ts`, `migrations/0001_initial.sql` |
| Registration and projects | D1: `projects`, `machines`, `agents` | `createProject`, `createAgent` (two INSERTs), audit, publish, show the credential once | the same files |
| Read routes | none | list projects, agents, heartbeats, audit events | the same files |
| Project event channel | the sockets it accepted | accept a WebSocket, fan an event out, drop a socket, be rebuilt after hibernation | `src/worker.ts` |
| Connector | configuration, the heartbeat it is sending, attempt, wait, stop flag | `send_once`, `run_periodic_until`, SIGINT | `connector/src/lib.rs`, `connector/src/main.rs` |
| Dashboard | selected project, agents shown, stream and its generation, reconnect timer | connect, load, switch project, register, merge live events, derive *stale* | `public/index.html` |
| Schema migrations | D1 schema and foreign keys | rebuild `machines` with the *degraded* status | `migrations/` |
| Preflight, smoke test, helper script | none | validate a configuration; drive a local Worker | `scripts/` |
| Workflows | none | build, release, deploy | `.github/workflows/` |

How they interact:

- connector → Worker: one HTTPS request per attempt, all attempts of one
  heartbeat with the same bytes; the connector blocks for at most
  `timeout_secs`, while the Worker knows nothing of that timeout;
- Worker → D1: each statement is a round trip of its own. `recordHeartbeat` and
  `createAgent` use no batch and no transaction;
- Worker → Durable Object: an awaited `fetch` per event, after the audit;
- Durable Object → dashboard: WebSocket messages, dropped when the socket fails;
- dashboard → Worker: snapshots, and registration by the operator.

What is hard about it: handlers of one agent interleave at every `await`; a
handler may stop at any of them and leave a prefix of its writes; requests and
answers get lost or overtake each other; a timed-out attempt keeps executing
beside its retry; clocks differ; revocation meets requests already past their
check. `PROJECT.json` lists each such hazard at the line where it bites
(`hazards`) with the properties that would catch it.

What makes each component correct:

- **Heartbeat API**: an observation is recorded once, whoever retries or races;
  a 202 means recorded, audited and announced; nothing is announced before it
  is durable; a machine's latest state comes from one heartbeat of its own
  agent; a revoked agent falls silent; every request is answered.
- **Connector**: bounded attempts, one nonce per heartbeat, an interrupt is
  honoured, success is reported only for recorded heartbeats.
- **The two together**: reported delivered ⇒ one row, own data, audited; the
  machine's latest observation does not go back.
- **Registration**: a 201 means stored, audited and published; a failure leaves
  nothing that blocks a repetition. **Channel**: an open socket gets every event
  published after it was accepted. **Dashboard**: what is shown belongs to the
  selected project and converges to D1. **Migration**: keeps every row.

## 2. The modules

| module | what it is |
|---|---|
| `HeartbeatApi` | the heartbeat handler: any number of concurrent requests, agents, projects |
| `HeartbeatLedger` | abstract: what a replay-protected heartbeat service promises |
| `Connector` | abstract: what the service may rely on of a process `cybercore-agent run` |
| `AgentProcess` | the whole program `cybercore-agent`, in milliseconds, which implements `Connector` |
| `Delivery` | one connector composed with `HeartbeatApi` over an unreliable network |
| `Registration` | creating projects and agents, concurrently and repeatedly |
| `NameRegistry` | abstract: what registration promises about names and credentials |
| `EventChannel` | the Durable Objects and their WebSockets |
| `LiveView` | a dashboard over `EventChannel`: its tasks, its stream, its reconnections |
| `MCHeartbeatApi`, `MCAgentProcess`, `MCDelivery`, `MCRegistration`, `MCLiveView` | instances for TLC |
| `HeartbeatApiProofs` | type correctness, replay protection |
| `DurabilityProofs` | what a 202 and a live event guarantee, the audit trail, no event twice |
| `LedgerProofs` | `HeartbeatApi` implements `HeartbeatLedger` |
| `MachineProofs` | a machine's latest state, the clock window, revocation, announced changes |
| `AgentProcessProofs` | the safety properties of the program, and that it implements `Connector` |
| `DeliveryProofs` | exactly-once delivery, bounded attempts, conflicts, order of observations and of live events; that the API keeps its promises under this client |
| `RegistrationProofs` | unique names, references, what a 201 and a live event guarantee; that the routes implement `NameRegistry` |
| `LiveViewProofs` | streams, views and fan-out |

Definitions whose names carry a suffix such as `Insert_withoutIndex` are
mutated forms of the definition that follows them. They belong to no
specification; each shows, put in place of its original, that a property notices
a plausible mistake in that code.

### HeartbeatApi

One action per await of the handler, because the isolate may run other requests
at each of them, and only there. `phase[r]` names the await request `r` stands at.

| action | code |
|---|---|
| `Arrive` / `Receive` | the request reaches the route (`worker.ts:196`) |
| `AuthenticateAgent` | `authenticateAgent` (`db.ts:121`), 401/403 (`worker.ts:199-202`) |
| `ParseHeartbeat` | `readJson`, `parseHeartbeat`: malformed, stale, future (`protocol.ts:104-141`) |
| `ReadStatus` | the SELECT of `recordHeartbeat` (`db.ts:159`) |
| `InsertHeartbeat`, `RejectReplay` | the INSERT against `UNIQUE(agent_id, nonce)`, 409 (`db.ts:161`, `worker.ts:229`) |
| `UpdateMachine` | the UPDATE (`db.ts:165`) |
| `RecordAudit` | `audit` (`worker.ts:206`) |
| `PublishHeartbeat`, `PublishStatusChange` | the two `publish` calls (`worker.ts:212-227`) |
| `Respond` | 202 (`worker.ts:228`) |
| `Fail` | any other rejection at any await: 500 (`worker.ts:239-251`) |
| `Abort` | the isolate is evicted, or the client hangs up (runtime, external) |
| `Revoke` | an operator sets `revoked_at` in D1 (external: no route does) |
| `Tick` | the wall clock |
| `Rest` | stuttering once everything is answered, so that TLC's deadlock check means something before |

A statement whose answer is lost after it took effect is its action followed by
`Fail` at the next phase. Data is abstracted: a credential resolves to an agent
or to `NoAgent`; a body is a nonce, a time and a status, or `Malformed`;
payloads, names and ids are left out, and a heartbeat row's random id is the
name of the request that wrote it. Two comparisons in the parser decide the
window; they are kept, strictness included. A heartbeat whose body has no
`status` is the same as one that says `online` (`protocol.ts:119-124`).

`channel[p]` is what project `p`'s Durable Object was handed, in order; who was
listening is the subject of `EventChannel`.

### HeartbeatLedger

A set of entries (agent, nonce, request) and a verdict per request. A request
submits one claim; it may be recorded only if no entry has that claim, accepted
only after being recorded, replayed only if an entry exists, or left without a
verdict. `HeartbeatApi!Ledger` maps rows to entries and phases to verdicts: the
INSERT is `Record`, the 409 is `Replay`, the 202 is `Accept`, a failure or
abort is `Lose`, denials are `Refuse`, everything else stutters.

### Connector

The loop and, inlined in it, `send_once`: `StartHeartbeat` (fresh nonce, time
stamp), `Send`, `Answer` (= `Succeed`, `BackOff` or `GiveUp`), `Retry`, `Sleep`
per 100 ms slice, `Stop`; and the environment, `Interrupt`, `Kill`, `Restart`.
`mode` is the program counter. Durations are left out: which of them expire first
is nondeterministic. A restarted process may have another of the `Configs`.

### AgentProcess

The program from its arguments to its exit status.

| action | code |
|---|---|
| `ConfigArgument`, `CommandArgument`, `InfoOrUsage` | the loop over the arguments (`connector/src/main.rs`); `--config` takes the next argument whatever it is |
| `LoadConfig` | `Config::from_file` and `validate`: one field after the other, unknown fields refused, defaults filled in |
| `NewConnector` | `read_credential`, `read_access_credentials`: permissions, then form |
| `InstallHandler` | `ctrlc::set_handler`; before it, and in `once`, SIGINT kills |
| `MakeHeartbeat` | `heartbeat()` and the test of the body's size |
| `Send`, `Answer` (= `Succeed`, `BackOff`, `GiveUp`), `Retry` | `send_once`; the delay doubles and is capped |
| `Doze`, `Wake`, `Stop` | the slices of `run_periodic_until` and its reads of the flag |
| `Report` | the end of `once` |
| `Interrupt`, `Kill`, `Restart` | the environment; a restart may find another file and command line |

Time passes only where the code blocks: `age` is the time since the heartbeat
was stamped, `lag` the time the code has asked to be blocked for since the
interrupt, both in milliseconds. A request takes one of `Durations` or its whole
timeout. `thread::sleep` sleeps at least as long as it is asked to, and ureq's
timeout fires when it is due or later: each may overrun by one of `Overruns`,
which `age` includes and `drift` adds up, to at most `MaxDrift` for a heartbeat.
A file is a function
from the fields it sets to kinds of text and to numbers, so that a missing field
and an unknown one are different things. `-V` and `-h` are `--version` and
`--help`. `http://[::1]` does not count as a loopback endpoint: `validate`
compares the host with `::1`, and the parsed host keeps its brackets.

`Conn` in this module is the refinement mapping: everything before the loop is
`top`, a slice and the sleep in it are one `Sleep`, every exit that does not come
out of the loop (usage, startup, a body too large, `once` being done, SIGINT
before the handler) is a `Kill`, from which `Connector` promises nothing.

### Delivery

Extends `HeartbeatApi`, instantiates `Connector`. `sent` numbers the requests;
`Transmit` sends, `Deliver` is the arrival of any earlier request in any
order, or never; `Reply` hands back the Worker's answer through `is_retryable`;
`TimeOut` stands for the timeout, a lost request and a lost answer alike. After
it the old request remains in the network or in the Worker, beside its retry.
`TimeOut` is enabled whenever the process waits, so every interleaving of a
late answer with a retry occurs. Interrupts, and revocation, are left to the
component modules. Since `AgentProcess` implements `Connector`, what `Delivery`
shows of a connector holds of the program.

### Registration

The two creating routes, action by await as above: `Arrive`/`Deny` (admin
check), `Parse`, then `InsertProject`, `AuditProject`, or `ProjectExists`,
`InsertMachine` (or `NameConflict`, which this route answers with the outer
catch's 500), `InsertAgent`, `AuditAgent`, `Publish`; `Respond` is the 201, the
only answer that carries the credential. A row's id, and an agent's credential,
is the name of the request that wrote it. The rows a registration leaves are
the initial rows of `HeartbeatApi`: status *unknown*, never seen. Nobody can
present a credential before its 201, so the two routes do not race.

### NameRegistry

The names taken, each by a request; the requests whose credential is valid; a
claim and a verdict per request. A name is taken only if it is free, and never
given back; a credential exists only for a taken name; only its request is
granted it. A request may be lost at any time, with a name taken or a credential
valid that nobody was told of. `Registration!Registry` maps machines to names,
agents to credentials and phases to verdicts: the INSERT into `machines` is
`Take`, that into `agents` is `Issue`, the 201 is `Grant`, the 404 is `Refuse`,
every other end, the conflict's 500 included, is `Lose`. Requests that create
projects stutter.

### EventChannel

Per project the sockets attached to the runtime (`attached`), the object's own
set while it is in memory (`sockets`, `awake`), and upgrade requests on their way
(`pending`); per socket the browser's end (`link`) and the events in between
(`wire`). `Publish` sends to every socket in the set, with any outcome of a send
into a dead connection; `Accept`, `Detach` (`webSocketClose`, `webSocketError`)
and `Publish` run the constructor first if the object was hibernated
(`Loaded`); `Hibernate` takes its memory; `LosePublication` is a `publish` that
fails, which after a registration leaves a row without event. The events are
registrations of agents; heartbeats take the same way.

### LiveView

| action | code (`public/index.html`) |
|---|---|
| `Connect`, `ConnectWithoutToken`, `Disconnect`, `ChangeProject`, `SubmitAgent` | the operator's gestures |
| `Task` (`Listed`, `Read`, `Render`, `Registered`), `StoreForm`, `TaskFails` | the continuation of `connect`, `loadProject` and the agent form after each `await` |
| `ConnectStream`, `CloseStream`, `NewSocket` | `connectStream`, `closeStream`, `openStream` |
| `OpenEvent`, `MessageEvent`, `CloseEvent`, `TimerEvent` | the handlers of socket and timer, each with its guards on generation, socket and project |

Up to `Tasks` tasks overlap in any order. `disturbed` is a history variable: two
tasks have overlapped, or one has failed. The list of projects is fixed; of an
agent only whether it is listed is kept.

## 3. The runs

| run | module, cfg | instance | shows |
|---|---|---|---|
| `two_agents` | `MCHeartbeatApi`, `HeartbeatTwoAgents` | 2 requests, 2 agents in 2 projects, own, foreign and unknown credentials, 2 nonces, 2 statuses, clock 1..2, window 0 | typing; nothing live before durable and nothing on another project's channel; however the INSERTs and UPDATEs of two heartbeats interleave, a machine's pair comes from one of them; nothing from the future; revocation; every request is answered |
| `races` | `MCHeartbeatApi`, `HeartbeatRaces` | 3 requests of one agent, 2 nonces, 2 statuses, clock still | replay protection, durability, history and audit trail in agreement, nothing announced twice, no change announced that was none, and the refinement of `HeartbeatLedger`, with three handlers interleaving |
| `connector_loop` | `MCAgentProcess`, `ConnectorLoop` | 16 configurations (defaults, quick, patient, all limits at once, just fresh, 11 unusable), 7 command lines, requests that take no time or their timeout, sleeps and requests that overrun by 6 s in all or not at all, 2 heartbeats, 1 restart | nothing unchecked is sent; observations are fresh but for a sixth attempt at a timeout of 55 s or more, or an overrun of more than 5 s; an interrupt waits for one `send_once` and a slice; a body too large is reported by the first heartbeat or never; the exit status tells; heartbeats are spaced; `send_once` ends, an interrupt is honoured, a usable program sends; the program implements `Connector` |
| `delivery` | `MCDelivery`, `Delivery` | 2 heartbeats, 2 attempts each, 1 restart, clock 1..2, window 1 | the connector's own bounds; bounded attempts; what is reported delivered is stored once, with own data, audited and announced; a 409 is about the own heartbeat; without a restart the machine's observation advances, live events come in the order of the heartbeats, and while the process sleeps both show its latest |
| `registration` | `MCRegistration`, `Registration` | 3 requests, one project to begin with, 2 names, failures at every await | one agent and one 201 per name and project; foreign keys hold at every moment and a machine without agent has a cut-short registration as its cause; a 201 is complete; live events tell of complete registrations, once, on their own channel; the routes implement `NameRegistry` |
| `live_view` | `MCLiveView`, `LiveView` | 2 projects, 1 agent, 2 overlapping tasks, 2 sockets, 3 gestures, 1 fault | one stream; what it was handed is listed; undisturbed, the view is of one project; an event goes to all sockets of its project that are up, and to no others; a stream recovers |
| `missed_registration` | `MCLiveView`, `MissedRegistration` | one project, two agents, one gesture, no fault | violated, see findings |
| `lost_credential` | `MCRegistration`, `LostCredential` | one registration that fails | violated, see findings |
| `stale_previous` | `MCHeartbeatApi`, `StalePrevious` | 2 heartbeats of one agent | violated, see findings |
| `unaudited_write` | `MCHeartbeatApi`, `UnauditedWrite` | 1 heartbeat that fails | violated, see findings |
| `machine_out_of_order` | `MCDelivery`, `MachineOutOfOrder` | as `delivery` | violated, see findings |
| `reused_nonce` | `MCDelivery`, `ReusedNonce` | one heartbeat, 1 retry | violated, see findings |

**Bounds.** `MaxClock` bounds the clock and the times bodies carry, `MaxBeats`
the heartbeats, `MaxRestarts` the restarts, `MaxGestures` what the operator of a
dashboard does, `MaxFaults` the failures of its network; the rest are the
constants' sizes.

- *Handlers.* Every hazard involves at most two (a pair of statements split by a
  third party, or two claims of one nonce), and two or three requests provide it;
  three let a row written by one, read by another and overwritten by a third
  meet. With a window of 0 and two ticks, a body can be fresh, stale or from the
  future at every phase; with two nonces an agent can have two rows, observed at
  different times, and its machine two UPDATEs. Two agents in two projects with foreign credentials are
  the least in which a write or an event can go to the wrong place. `races` and
  `registration` use symmetry over the requests, with safety properties only.
- *Delivery.* Two heartbeats of two attempts give each of "late first attempt",
  "late attempt of the previous heartbeat" and "late attempt of a killed process".
- *Program.* The five usable configurations are the defaults, the smallest
  limits, the largest ones, the largest under which observations stay fresh, and
  an interval longer than a request; each of the others differs from a usable
  one in what a single check is for. Two heartbeats are needed for their
  spacing, a restart for a changed file. Requests end at once or at their
  timeout; the theorems cover every duration between.
- *Dashboard.* Two tasks overlap in any way, and three gestures let one of them
  select a project under a stream another opened. Two sockets are a superseded
  one and its successor; names are used again when both ends are gone. One fault
  is one dropped connection, failed upgrade or failed task, on top of which the
  reconnection must succeed.

The theorems of section 4 remove the bounds for everything but liveness.

**Deadlock** is checked in the runs of `HeartbeatApi` and `Registration`, where
`Rest` is the only permitted end. The others may stop: a process exits, the
bound on heartbeats is reached, or a dashboard has nothing left to do.

**Fairness.**

- `Spec` of `HeartbeatApi` has weak fairness of `Handle(r)`: D1 and the Durable
  Object answer or reject each call and the runtime resumes the handler. Failing,
  aborting, arriving, revoking and ticking are not fair.
- `ConnSpec` and `ProcSpec` have weak fairness of the process's own steps: it is
  running, and a request ends by an answer or by ureq's `timeout_global`, which
  `validate` keeps between 1 and 60 seconds. Interrupts, kills and restarts are
  not fair. That `ProcSpec` implies `ConnSpec`, fairness included, is checked.
- `LiveSpec` has weak fairness of `Accept` (an upgrade is answered), of
  `OpenEvent`, `CloseEvent` and `TimerEvent` (the browser runs the page's
  handlers), and of `Detach` (the runtime learns of a closed connection). The answers
  of the Worker to the page's fetches need not come, and nothing makes the
  operator act. Failures are bounded by `MaxFaults`: the network gets better
  some day, which `StreamRecovers` needs.
- `Delivery` and `Registration` have no fairness: their properties are safety.

### Findings

Six statements of the repository that the code does not keep; each is the
only property of a run TLC refutes. Details and quotations are in
`PROJECT.json`.

1. `MachineIsLatest` (`docs/ARCHITECTURE.md:29`): the UPDATE of `machines` is
   unconditional, so a delayed heartbeat of a killed connector process takes
   the observation of its successor back. `ObservationAdvances` shows the
   other half: without a restart it cannot happen, because the connector makes its
   next heartbeat only after a 202. `LatestIsShown` draws the
   consequence for who looks at the machine or at the live events.
2. `ChangeCarriesPrevious` (`docs/ARCHITECTURE.md:36`): the previous status is read
   two statements before it is replaced.
3. `WritesAreAudited` (`docs/ARCHITECTURE.md:11`, `:32`): a handler that stops
   between INSERT and audit leaves a row without an audit event, and its retry
   gets a 409 instead of repairing that.
4. `CredentialReturned` (`docs/CONNECTOR_PROTOCOL.md:8`): when the audit or the
   publish of a registration fails, the agent is stored, the 500 does not carry its
   credential, and its machine's name cannot be registered again.
5. `ConnectedShowsAgents` (`docs/ARCHITECTURE.md:12`, `:35`): the page reads the
   agents first and opens the stream afterwards, and a reconnection reads
   nothing; an agent registered in between stays off the list although the page
   says STREAM CONNECTED, until it is refreshed.
6. `NoncePerRequest` (`docs/CONNECTOR_PROTOCOL.md:47`): nonce and timestamp are
   made once per heartbeat, not "for every request"; retries resend both. The
   Worker's replay protection makes use of that (`DeliveredOnce`,
   `ConflictIsOwn`); the timestamp of a late attempt is an old one
   (`FreshWhenSent`).

Met while modelling, and visible in how properties are qualified:

- `loadProject` and the agent form do not look whether their project is still the
  selected one, so overlapping or failing tasks can list agents of another
  project; `ViewIsOfOneProject` holds while `disturbed` is false.
- `connect()` selects a project without closing a stream that another task
  opened meanwhile. When that stream drops, no reconnection is scheduled, and
  after a clean close the page still says STREAM CONNECTED. `StreamRecovers`
  excludes this case by name (`Foreign`), `OneStream` by `disturbed`.
- With five retries, the longest delay and a timeout of 55 seconds or more the
  sixth attempt of a heartbeat carries an observation the Worker finds stale. At
  54 seconds five seconds are left for what requests and sleeps overrun
  (`FreshWhenSent`).
- The usage text of `run` says "publish periodically until interrupted"
  (`connector/src/main.rs:19`), but `send_once()?` ends the process when the
  attempts of a single heartbeat fail transiently (`GiveUp`, exit status 1); with
  `max_retries = 0` one 503 does it. `ExitStatusTells` and the composition allow it.
- A payload within an envelope of the limit passes the startup test and ends the
  process at its first heartbeat, never at a later one (`ExitStatusTells`).
- A registration that stops between its two INSERTs leaves a machine without
  agent, whose name cannot be registered again. `NothingDangles` and
  `NameRegistry` allow it, as no statement of the repository excludes it.

## 4. The theorems

All are of the form `Spec => ...`, for every value of the constants that satisfies
the named assumptions. Besides the sets' types these say:

- `ConfigAssumption`, `MalformedAssumption` (`HeartbeatApi`): writers are agents,
  every agent has one project, statuses are the three the parser admits, a
  rejected body is not a parsed one;
- `DeliveryAssumption`: there is a nonce for each heartbeat and a request for
  each attempt, so that none is refused for lack of a name;
- `ProcessAssumption`, `FilesAssumption`: durations are natural numbers, a field
  that names a secret holds one of the kinds of secret;
- `ChannelAssumption`, `ViewAssumption`: every agent has one project, the project
  that `connect` selects exists.

TLC evaluates each on every run of its module.

| module | theorem | states |
|---|---|---|
| `HeartbeatApiProofs` | `TypeCorrect` | `[]TypeOK` |
| | `ReplayIsProtected` | `[]ReplayProtected` |
| `DurabilityProofs` | `AcceptanceIsDurable` | `[]AcceptedIsDurable` |
| | `NothingLiveBeforeDurable` | `[]DurableBeforeLive` |
| | `HistoryIsAudited` | `[]AuditTrail` |
| | `NothingAnnouncedTwice` | `[]AnnouncedOnce` |
| `LedgerProofs` | `HandlerImplementsLedger` | the refinement of `HeartbeatLedger` |
| `MachineProofs` | `MachineStateIsOneHeartbeat` | `[]MachineFromOneHeartbeat` |
| | `NothingFromTheFuture` | `[]NeverFromFuture` |
| | `RevocationSilences` | `RevokedStaysSilent` |
| | `AnnouncedChangeIsReal` | `[]ChangeIsReal` |
| `DeliveryProofs` | `ConnTypesCorrect` | `[]ConnTypeOK` |
| | `AttemptsAreBounded` | `[]AttemptsBounded` |
| | `DeliveredExactlyOnce` | `[]DeliveredOnce` |
| | `ConflictsAreOwn` | `[]ConflictIsOwn` |
| | `ObservationsAdvance` | `ObservationAdvances` |
| | `LatestStaysShown` | `[]LatestIsShown` |
| | `ServiceIsKept` | all invariants of `HeartbeatApi`, of the composition |
| | `DeliveryImplementsLedger` | the refinement of `HeartbeatLedger`, by the composition |
| `AgentProcessProofs` | `ProcTypesCorrect` | `[]ProcTypeOK` |
| | `SendsOnlyChecked` | `[]NothingSentUnchecked` |
| | `FreshUnlessExtreme` | `[]FreshWhenSent` |
| | `ShutdownBounded` | `[]StopBounded` |
| | `ExitStatusRight` | `[]ExitStatusTells` |
| | `SpacingKept` | `Spacing` |
| | `ProgramImplementsConnector` | `Conn!ConnInit /\ [][Conn!ConnNext]_(Conn!conn)`, the safety part of `ImplementsConnector` |
| `RegistrationProofs` | `RegTypesCorrect` | `[]RegTypeOK` |
| | `NamesAreUnique` | `[]OneAgentPerName` |
| | `ReferencesHold` | `[]NothingDangles` |
| | `CreatedMeansAll` | `[]CreatedIsComplete` |
| | `AnnouncementsTrue` | `[]AnnouncedIsRegistered` |
| | `RoutesImplementRegistry` | the refinement of `NameRegistry` |
| `LiveViewProofs` | `LiveTypesCorrect` | `[]LiveTypeOK` |
| | `OneStreamOnly` | `[]OneStream` |
| | `HandedIsListed` | `[]NothingHandedIsLost` |
| | `OneProjectShown` | `[]ViewIsOfOneProject` |
| | `FanOutComplete` | `FanOutReachesAll` |

Each component has one inductive invariant, built up in layers; the properties
follow from it. The layers of the API are `RowInv` (`HeartbeatApiProofs`),
`DurabilityInv` and `TrailInv` (`DurabilityProofs`), `MachineInv` and `ChangeInv`
(`MachineProofs`). Their lemmas are about `Serves`: a step of the API with
whatever credential and body a client may present. A step of `HeartbeatApi`'s own
`Next` is one (`NextServes`), and so is a step of `Delivery` (`DeliveryServes`);
the invariants of the API are thus proved once and hold in both.

1. `Typing` = `TypeOK` + `Identified` + `Parsed`. A row is well typed only because
   its request passed authentication (its credential is an agent) and parsing
   (its body is a `Bodies`), which `TypeOK` does not remember.
2. `RowInv` adds who wrote a row: every row is `Row(r)` of a request `r` that is
   past its INSERT, every such request has its row, one row per (agent, nonce),
   and a 409 has a row of another request behind it. `ReplayProtected` follows:
   two accepted requests with one claim own the same row.
3. `DurabilityInv` adds the order of the statements: an audit event for every
   request past `audit`, the announcements of those past `publish`. Its lemmas
   say that tables and channels only grow, so what was announced stays so.
   `TrailInv` adds the other direction, from what is stored to who wrote it:
   every audit event and every live event was written by the request it names,
   which has come at least that far (`AuditOrigins`, `EventOrigins`). A request that
   is about to publish has not published that type before, and of the requests
   with one nonce only the one that wrote the row gets there, so no event occurs
   twice.
4. The refinement needs `RowInv` only: the INSERT's guard is `Record`'s, by the
   mapping of rows to entries.
5. `MachineInv` adds to `RowInv` that a request in its three statements read a body
   not further ahead than the allowed skew (`Skewed`); the clock never goes back,
   so that stays true, and row and machine take their time from that body.
   `ChangeInv` adds that the previous status a request has read is that of a
   row, or of the registration (`PrevReal`), and that a request stands before its
   second `publish` only if it differs from its own (`Differs`).
6. `RevokedStaysSilent` follows from `Typing` by cases: the only step into the
   phases past authentication is `AuthenticateAgent`, which tests `revoked`, and
   only requests in those phases write rows or machines, and only their own
   agent's.

7. `Delivering` (end-to-end) is the invariant of the API (`Service`); the
   connector's control state, with every heartbeat of a process that was not
   restarted delivered but the one it is at (`InTurn`); what was sent, counted by
   `attempt` (`Sending`); and five links: what reached the Worker is what was
   sent (`Traced`), what was reported was answered 202 (`Reported`), the machine
   shows nothing newer than the latest heartbeat (`Ordered`), it shows that one once
   its UPDATE was executed (`Shown`), and the channel has heard of heartbeats in
   their order (`Listed`). A request past its INSERT and not done has its row; if
   its heartbeat were delivered, that row would be the accepted request's; so it is
   of the latest heartbeat (`UnansweredIsLatest`). Whatever such a request does, its
   UPDATE or a `publish`, is therefore about the latest heartbeat, from which
   `ObservationAdvances` and `LatestIsShown` follow. That
   `Awaited` is a request at all needs a bound on `Len(sent)` by heartbeats times
   attempts (`Fits`).
8. `Invariant` of the program says what has been checked by where the program
   is (`Checked`; the file is read once), bounds `lag`, and `age` less `drift`, by
   the number of the attempt and of the slice, and tells what was delivered by
   the same (for the exit status). The limits of `validate` turn these bounds into
   `FreshWhenSent`, whose margin of 5 s is what they leave of five minutes; the
   refinement of `Connector` is by cases over the actions.
9. `RegInv`: a request's phase tells what it has stored (`Stages`), every row
   and event tells which request made it and how far that one has come
   (`Origins`), channels hold events of their own project (`Channels`), and no
   event occurs twice (`Once`). Uniqueness comes from the guards against the
   tables, as in SQLite. For the refinement also what a request carries before it
   arrives is fixed (`Unread`), so that its claim changes only when it asks.
10. `LiveInv`: sockets are attached only to the object of the project they were
    opened for, and nothing is in flight on one that is down (`Wired`); tasks and
    streams have a project (`Selected`), and what was read is of the task's
    (`Answered`); while undisturbed there is one task at most, it loads with the
    stream closed, and it and the stream are of the selected project, as is the
    list when nothing is loading
    (`Quiet`). For the fan-out, no handler makes the object forget a socket that
    is up (`Remembered`), and
    nothing is on the wire before it is published (`Unheard`).

Model-checked only: liveness (`Answered` of `HeartbeatApi`, `SendOnceEnds`,
`StopHonoured`, `UsableSends`, `StreamRecovers`, and the fairness in
`ImplementsConnector`), which is beyond this prover, as are recursive
definitions, of which the modules have none. Every invariant and every action
property that a passing run checks is a theorem. Proved only: `ServiceIsKept` and
`DeliveryImplementsLedger`, which the run `delivery` leaves out because checking the
ledger on its state space takes minutes; a run of the composition with
`ImplementsLedger` as its property does pass.

## 5. Not modelled

- Of the dashboard: the state of each listed agent (heartbeats merged by
  `handleStreamEvent`, the derivation of *stale* from the clock, sorting), the
  agent's detail, and all rendering. In which order the events of an agent reach
  its channel is the subject of `LatestIsShown` in `Delivery`; a page takes status
  and time from the last of them.
- Read routes: they change no state; a `limit` that is not a number passes their
  clamp as NaN, a matter of JavaScript's conversions.
- Hostname and admin-token checks of the Worker: decisions on strings, without
  state. The connector's checks are in `AgentProcess` by the kinds of value they
  tell apart; permissions of files on systems other than Unix, which the code does
  not check, are left out.
- Migrations: what rebuilding `machines` does to rows that refer to it depends on
  how D1 runs a migration and on SQLite's pragma inside a transaction, neither of
  which the repository contains. In which order code and schema are deployed is
  the operator's.
- Preflight and smoke scripts, HTML and CSS, workflows, packaging, the build
  script of the connector: no state or protocol.

## 6. Plan

Everything planned at the beginning is done, except for the migrations, for the
reason above. What would add to it:

1. `LiveView` with the status and time of each agent, fed by the events of
   `HeartbeatApi` instead of registrations: whether a page that reads a snapshot
   while events arrive ends with what the machine shows.
2. A second connector in `Delivery` that presents the credential of the same
   agent, as happens when a replaced process has not ended. `Serves` already gives
   it the invariants of the API.
3. Theorems about restarts in `Delivery`: what the order of observations still
   is when a killed process leaves requests behind (each machine state is that of
   a heartbeat some process made, by `MachineFromOneHeartbeat`; which one is open).
