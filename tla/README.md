# Verification of modkit-binding-poc

TLA+ models of the binding layer of this repository: generated REST clients,
their retry loop and error mapping, the SSE parser, the service directory, the
notification module and its two delivery plugins, the host that wires them, and
the two compositions that matter: a retried call through client and module, and
a delivery stream from a plugin to its consumer. TLC checks them on small
instances; TLAPS proves the statements that matter most for every value of the
constants.

## 1. The system

Two contracts are traits: `NotificationApi` (for consumers) and
`NotificationBackend` (for delivery plugins). A consumer holds an
`Arc<dyn Trait>`; behind it is either a local struct or a client generated by a
macro that speaks HTTP to another process.

    consumer -> [REST client] -> NotificationModule -> [REST client] -> plugin
                     ^                                     ^
                     +----------- ServiceDirectory --------+   (poc-host wires)

| Component | State | Operations | Hard part |
|---|---|---|---|
| Typed errors (`derive(ContractError)`) | none | error to problem document and back, fallback | a failure of any other origin must become the catch-all, never a typed error |
| REST client, `with_retry` | loop counter of each call | one attempt, one sleep, return | lost and late answers, time-outs, answers by proxies, retries of what already happened |
| Back-off (`RetryConfig`) | none | `delay_for_attempt` | saturation, truncation, the wrap of the jitter |
| SSE parser (`sse_stream`) | text buffer, end flag | poll: parse a block, read a chunk | arbitrary chunk boundaries, blocks without data, the broken end of a stream |
| Contract document (`modkit_rest_contract`) | none | `openapi_spec`, the requests of the client | document and client are generated separately and must agree |
| Service directory | map from id to configuration | `register`, `register_and_validate`, `resolve` | an await between check and insert, hash order, services redeployed meanwhile |
| Notification module | map from notification id to status | `send`, `get_status` | concurrent tasks, tasks dropped at the await, restart |
| Email plugin | one task and one channel per stream | `deliver`, delivery stream | producer that outlives its consumer |
| Remote SMS plugin | none that is shared | `deliver`, delivery stream | the `unfold` machine behind the response |
| poc-host | the directory | register, resolve, bind, demo | two hops with time-outs and retries of their own |

The interactions are calls (host to directory, module to backend), HTTP
exchanges (client to service, directory to `/.well-known/openapi.json`), one
shared map behind a lock in the directory and one in the module, and streams
that a consumer polls.

What makes each of them correct:

- *REST client*: a call is carried out at most once; what it returns is true of
  what happened; typed errors arrive unchanged; the retry budget is kept and is
  used; a call returns.
- *Back-off*: never longer than the maximum, never under half of the exponential
  delay, no collapse by overflow.
- *SSE parser*: events in the written order, once each, none held back or lost,
  and an end after the connection's.
- *Directory*: an entry was validated unless made by hand; an accepted
  registration can be resolved; a client is bound to a service that has the
  endpoints it calls; a registration ends.
- *Notification module*: it gives its callers what its backend gives it; a
  status exists only for a delivery; a caller finds the status of its own send.
- *The module behind a REST client*: still one delivery at most, whatever the
  retries; no attempt overlaps the one before; a receipt names a known status.
- *Delivery streams*: through either binding, a prefix of the delivery's events
  in order, complete unless the connection was cut, with an end; and a delivery
  in the same process does not depend on its consumer.
- *poc-host*: what it binds was validated for the contract it is bound for; a
  failed validation, a service that is down and a failed call do not stop it.

## 2. Modules

| Module | Models | Uses |
|---|---|---|
| `ContractErrors` | `NotificationError`, both conversions, `parse_error`, decoding of a response, `is_retryable_error` | |
| `DeliveryContract` | abstract: what a consumer of either trait may rely on | |
| `RestClient` | a generated client with its retry loop, against service and network | `ContractErrors`; implements `DeliveryContract` |
| `RetryBackoff` | `delay_for_attempt` in its integer arithmetic and the sleeps of a call | |
| `NotificationModule` | `send`, `get_status`, cancellation, restart | a `DeliveryContract` as its backend; implements `DeliveryContract` |
| `SseParser` | `sse_stream` and the byte stream below it | |
| `DeliveryStream` | abstract: what a consumer of `stream_delivery` may rely on | |
| `EmailStream` | `stream_delivery` of the email plugin: task, channel, consumer | |
| `RestStream` | `stream_delivery` over HTTP: SMS plugin, keep-alives, client | `SseParser` |
| `BackendStream` | `stream_delivery` behind the trait object, either binding | `EmailStream`, `RestStream`; implements `DeliveryStream` |
| `NotificationSystem` | a REST client with retries, the handlers, the module | `RestClient`, `NotificationModule`; implements `DeliveryContract` |
| `RestContract` | attributes to endpoints, document, client requests | |
| `SpecValidation` | `validate_remote_spec` | `RestContract` |
| `ServiceDirectory` | the directory, its hosts, clients and services | `SpecValidation` |
| `NotificationContracts` | the two REST traits of the SDK and their ids | `RestContract` |
| `PocHost` | `main` of the host | `ServiceDirectory`, `NotificationContracts` |
| `MCNotificationModule`, `MCNotificationSystem`, `MCServiceDirectory`, `MCPocHost` | instances for TLC | |
| `RestClientProofs`, `RetryBackoffProofs`, `NotificationModuleProofs`, `SseParserProofs` | theorems | the module each is named after |
| `ServiceDirectoryProofs` | theorems about the directory and about `SpecValidation` | `ServiceDirectory` |
| `NotificationSystemProofs` | theorems | `NotificationModuleProofs`, `RestClientProofs` |
| `PocHostProofs` | theorems | `ServiceDirectoryProofs` |
| `BackendStreamProofs` | theorems, also about `EmailStream` and `RestStream` | `SseParserProofs` |

Operators whose name begins with `Bug` are not part of any specification. Each
is the operator below it with one plausible mistake (a dropped guard, an
off-by-one, a cap in the wrong place). Put in the place of the original, it makes
TLC report one of the module's properties, which shows that the property can fail.

### How they correspond to the code

`DeliveryContract` has two pieces of state for each call: what happened at the
provider (`performed`) and what the caller was told (`result`). *Ok* means it
happened, a typed error means that it did not and will not, and only `Internal`
leaves it open; then it may still happen after the call has returned.

`RestClient`. `phase` and `attempt` are the position of a call in `with_retry`;
`exchange`, `response` and `delivered` are the network's and the service's.
`Receive`, `TransportError` and `Resume` are the steps between the awaits of the
loop: each includes the decoding, the test of the error and either the return or
the start of the sleep. `TransportError` may come at any time (a time-out, a
broken connection), also when the answer is under way. `Answer` and `Lose`
happen whether or not the client still listens, and so does `CarryOutLate`: a
proxy has answered, with something that claims nothing, and the service carries
out the request the proxy had already handed on. `Replies` is what a service or a
proxy may answer; the assumption in it is that a typed error other than
`Internal` means that the request was not carried out. The handlers in the
repository keep it: they return a typed error only before they do anything.

`RetryBackoff` computes in integers below `Limit` (2^64 in the code), with the
truncation of `as u64`, the saturating product and the wrapping one.

`NotificationModule`. A send is a task that awaits `deliver()`
(`DeliverReturned`), holds the write lock for one insert (`Record`) and returns
(`Respond`). It can be dropped only at an await (`Cancel`), and `Restart` empties
the map and cuts the tasks. Delivery ids are readings of a clock; that two are
never equal is an assumption of `Deliver`.

`SseParser`. The wire is a sequence of pieces (line ends, the field name, a
character, half of a two-byte character), which the network cuts anywhere. One
poll of the Rust stream is a sequence of steps, each an iteration of its loop:
`ParseBlock` or `NoBlock` for `try_parse_event`, then `ReadChunk`, `ReadError` or
`ReadEnd`. `ParseBlock` removes a block also when it has no data, and then behaves
as `NoBlock`, as the code does. A time-out (`Expire`) covers the body of a
response too; reqwest repeats its error at every poll, and `sse_stream` skips an
error as often as it comes, so that a consumer that collects such a stream spins.

`EmailStream`. `producer` counts the sends of the spawned task, `channel` is what
it has sent and the consumer has not read. `send()` waits for room while there
is a receiver, and fails, which is ignored, when there is none.

`RestStream`. `server` is the `SmsState` of the `unfold` machine; each `Produce`
writes one event to the wire from which `SseParser` reads. A keep-alive may come
after an event when the connection was too congested to ask for the next one
within 15 s, but not twice in a row, since the machine then sleeps for 40 ms
only. The client opens the stream with one request, which is never retried
(`gen_streaming_method` has no retry loop) and looks only at the status of the
answer: an error ends the call (`OpenFails`), and somebody else's 2xx answer is a
stream without events (`OpenForeign`). `Cut` is a broken connection or the
time-out. `CompleteUnlessCut` holds because of that "not twice in a row":
`sse_keep_alive` below shows what two would do.

`BackendStream` puts the two side by side under `BINDING_MODE`, with one consumer.
Its promise, `DeliveryStream`, differs in one point between them: a remote stream
may end early and nothing says so.

`NotificationSystem` shares `exchange` and `response` of `RestClient` with the tasks
of `NotificationModule`, one task for each attempt. `Arrive`, `Work` and `Reply` are
the server's steps, and a request arrives also after a proxy has answered for it
(`OnItsWay`), as in `CarryOutLate`; `Dropped` is axum dropping the handler of a connection it has
found gone; `Forge` and `Lose` are the network's. What the backend does is still
`DeliveryContract`.

`PocHost` is `main`, statement by statement: two registrations, the binding, the
demo's three calls, the consumer on the module and then on the remote API.
`environ` is the environment it was started in. Its calls only return, or, for a
stream over REST past its time-out (`Stall`), do not.

`RestContract` and `SpecValidation` are pure; a document is a function from
paths to items. `extract_endpoint_path` stops at the first attribute with a path
of several segments, as `get_ident()?` does. `ClientRequests` is always POST.
`IsOptional` looks at POST only.

`ServiceDirectory`. The hash map is a sequence in iteration order, which an
insertion of a new key may change in any way. Every access under the lock is one
step; `register_and_validate` is `BeginRegister`, `Fetch` and then `Accept` or
`Reject`, with other hosts, clients and redeployments in between. `Bind` is the
host's `resolve` of a contract's prefix and the client it builds.

## 3. Runs

| Run | Question | Bounds |
|---|---|---|
| `rest_client` | Is a call carried out at most once, truthful, typed, within budget, and does it return? Is it a `DeliveryContract`? | one retried and one plain call, two retries, two field values |
| `retry_backoff` | Do the sleeps stay within their bounds? | integers below a small `Limit` so that every overflow happens, more than eleven attempts so that the shift stops growing |
| `notification_module` | Does the module keep the contract and its map, under concurrency, dropped tasks and a restart? | two sends, two ids, an empty and a non-empty user, one restart |
| `sse_parser` | Are events in order, none lost, none held back while the parser waits, and does the stream end? | three blocks of four kinds, cut anywhere |
| `service_directory` | Do only validated services get entries, are they found, are clients served, do registrations end? | two hosts, three registrations (one by hand), two contracts whose ids share a beginning, six documents |
| `backend_stream` | Does the consumer get the same stream through either binding, complete unless cut, and does it end? Does a local delivery finish without its consumer? | one stream of each plugin with its own events, up to two keep-alives, chunks of any length |
| `notification_system` | Is a retried call through client, handlers and module still one delivery at most? Do attempts overlap? Is a receipt's status known? | one retried call of three attempts, two delivery ids, one restart |
| `poc_host` | Is what the host binds validated for that contract, is a panic explained, does the host end? | every environment, two services with the right document, the other's, a wrong content type, silent or down |
| `rest_client_transient`, `sse_keep_alive`, `directory_wiring`, `directory_content_types` | the findings below: what the repository says and the code does not do | as small as the case allows |

Why the bounds are enough. Two retries give a first, a middle and a last
attempt, and calls of a client share no state, so that two (one of each kind)
cover their combinations. Two sends are what a race on one map needs; two ids let
both be entered; a second restart meets nothing the first does not. In the
parser a boundary can fall within one block or between two, and the third lets
one more follow a block that was skipped. Its kinds of blocks are the ones that
differ for the parser: data on several lines, data that is no event, no data, and
a character of two bytes. The streams of `backend_stream` are the plugins' own, and
`DeliveryFinishes` rests on their being fewer than the channel has room for: with
room for two, a consumer that stops polling stops the delivery. In `notification_system` each
attempt is a task of its own, so that one call has three concurrent tasks; two
calls share only the map, whose concurrency `notification_module` checks. Two hosts race for one entry, the
third registration is the one by hand, and the two contracts are chosen so that
one id would match the other's prefix without its closing mark.

Deadlock checking is off where the system really comes to rest: all calls have
returned, the loop has made its last sleep, the stream has ended, each send has
its answer. `ServiceDirectory` and `PocHost` never rest, because services keep
being deployed, and deadlock is checked there.

### Fairness

Only steps the code itself schedules are fair, and only weakly. `RestClient`:
reqwest is built with a time-out and sleeps are finite, so a waiting call moves;
service and network owe nothing. `NotificationModule`: the executor runs tasks,
and `deliver()` returns (the email plugin only sleeps, the REST client by
`CallReturns`). `SseParser`: the consumer polls until the end and bytes that were
sent arrive; nothing makes the connection end. `ServiceDirectory`: registrations
are polled; a service that stays silent may keep one for ever, and
`RegistrationEnds` says so. `BackendStream`: the plugins' tasks run and what they
write arrives; the consumer owes nothing, and that it polls is a premise of
`StreamEnds` alone. `PocHost`: the process runs, and its calls return as
`CallReturns` says; `HostEnds` names the two ways it may not, a service that is silent
again and again and a stream past its time-out. `NotificationSystem` states safety
only: its liveness is that of its two parts.

### Findings

Each is a run in which TLC violates one statement taken from the repository.

1. `TransientStatusRetried`. "429 (rate limit), 502, 503, 504 are retryable", but
   the status that is tested is that of the decoded error, and an answer that
   is not a problem document of the contract decodes to `Internal`, status 500.
   A plain 503 ends the call with its retry budget untouched; 429, 502 and 504
   can never be retried, since no variant has them.
2. `AllParsed`. A block without data (a keep-alive) looks to the parser like an
   empty buffer; after the end of the byte stream what is left is tried once, and
   with two keep-alives before it the last event is lost.
3. `WiringIsSafe`. `#[get]` and `#[delete]` methods are described and validated
   as such, but the client sends POST.
4. `ContentTypesPresent`. Request content types are never compared, and a
   response that the remote document leaves out is skipped.

The repository's own contracts meet none but the first: all their methods are
POST, their services publish the documents of the same macro, and the SMS plugin
cannot send two keep-alives in a row.

Limits of the code that the models show; only the last is at odds with a text of
the repository:

- A character of more than one byte that a chunk boundary cuts reaches the consumer
  as replacement characters (`Reads` in `SseParser`): each chunk is decoded on its
  own. No event is lost, torn or reordered by it.
- A stream collected past its time-out never ends and keeps its task busy
  (`Expire`, `Stall`).
- A remote stream that is cut ends as a complete one does.
- After a restart of the module, ids it has returned are unknown.
- A handler dropped between the delivery and the insert leaves a notification that
  was delivered and has no status (`Cancel`); a status once entered never changes.
- A service that is redeployed after the fetch of its document, before the insert or
  later, is not validated again (`Deploy`).
- The backend trait says that the module does the validation
  (`modules/notification/notification-sdk/src/api.rs:95-97`); it does none, and an
  empty user is handed on like any other. One step shows it, so it has no run.

## 4. Proofs

TLAPS checks these for every value of the constants that the named assumptions
allow. Every invariant, every action property and every refinement that a passing
run checks is the subject of a theorem. Few of them are inductive; each proof
module has the stronger invariant that is (`IInv`, in `RetryBackoffProofs`
`SleptInv`), shows that it holds at first and that each action keeps it, one
step for each, and reads the property off it.

Single parts:

- `RestClientProofs`: `TypeCorrect`, `AtMostOnce`, `Truthful`, `BudgetSpent`,
  `ErrorsUnchanged` and `Refinement` (the client implements `DeliveryContract`), for
  any set of calls and any number of retries; `RoundTrip`, that a typed error
  survives the conversion and back. From `RetryAssumption` and `ValuesAssumption`.
  The invariant adds what the loop knows when it goes round: attempts after the
  current one were never sent; every earlier one was answered with a typed
  transient error, was not carried out and, the answer not being a vague one, never
  will be; an answered exchange's reply agrees with whether it was carried out; what
  was returned agrees with the last of them. `ErrorsUnchanged` is that invariant and
  `RoundTrip`. The refinement then needs, for each action, which abstract step it
  is: `Answer`, `CarryOutLate` and `Lose` are `Perform` or a stutter, the end of a
  loop is `Return`, the rest stutter.
- `RetryBackoffProofs`: `TypeCorrect`, `MaxRespected`, `BackoffGrows` and
  `PatientEnough`, all from `DelayWithinBounds`, for integers of any width above
  1024; a delay is never above the exponential one, capped, and that never above
  the maximum. The invariant says that the last sleep is the delay of the attempt before
  the current one. `PatientEnough` also needs that the shift is the power it stands
  for (`FactorIsPower`) and that below `Limit` the saturating product, capped, is
  the true one (`CappedIsExact`): saturation never makes a delay shorter.
- `NotificationModuleProofs`: `TypeCorrect`, `NoGhosts`, `SendReadsItself`,
  `StatusesKept` and `Refinement` (the module implements `DeliveryContract` over a
  backend that does), for any sends, any ids and any number of restarts. The
  invariant relates the backend's answer, the position of the task and what the
  caller knows (`BackendKept`, `Progress`); no two deliveries have one id
  (`UniqueIds`); and from the insert on, as long as the caller may ask, the map has
  the status of this delivery (`KeptWhileKnown`). The last does not survive without
  `UniqueIds`: an insert by another send could overwrite it.
- `SseParserProofs`: `TypeCorrect`, `Ordered`, `PromptParser` and `NothingIsLost`, for
  every choice among the nine kinds of blocks, streams of any length, and bytes cut
  in any way (`BlocksAssumption`). The invariant says that for some *k* the first *k*
  blocks were taken off the buffer: the buffer is what was received behind them
  (`Buffered`), the consumer has their events (`Handed`), and a whole block is left
  in the buffer only where the parser stopped behind a keep-alive, or at the end
  behind two (`Looked`). `NextBlock` says that the first blank line in the buffer is
  the end of block *k + 1*, and `Understands` what `Data` makes of that block. That a
  concatenation of any number of blocks is what one expects is an induction; it is
  done on a set of numbers (`SetInduction`, from the library's well-foundedness of
  the natural numbers), since the library's own induction takes an operator.
- `ServiceDirectoryProofs`, on `SpecValidation`: `ValidatedServes` (a document that
  passes has every endpoint the client calls, for contracts of POST methods with one
  path each, which is also what finding 3 lacks), `SelfCompatible`,
  `ExtraEndpointsAllowed`. On the directory: `TypeCorrect`, `OnlyPassed`, `Found` and
  `WiringServes`, for any contracts, documents, hosts and iteration orders, from the
  assumptions on names (sequences of segments, none of them a prefix of another),
  deployment and `Nothing`. The invariant adds to the types that what a host has
  fetched or registered and what a client is bound to has a provenance: an accepted
  registration's id is in the map, and a bound entry is vouched for and has the
  prefix of its contract. `WiringServes` is then `ValidatedServes` for that entry.

Compositions. What is known of the parts is not proved again: the proof modules
of the parts are instantiated with the state of the whole.

- `NotificationSystemProofs`: `TypeCorrect`, `AttemptsApart`, `OkFindsStatus` and
  `Refinement`, for any number of calls, any retry budget and any number of restarts
  (`SystemAssumption`). The service's part of the invariant is that of
  `NotificationModuleProofs`, kept whatever client and network do. What is added
  relates both sides: an answer that says what became of a request says what the
  module told its handler (`Exchanged`), and each attempt that the loop has put
  behind it was answered and refused by the module itself (`Lockstep`), which is why
  no two attempts ever run at once. The effects of a call are those of its attempts
  (`effects`); the refinement shows that at most one attempt has one.
- `PocHostProofs`: `TypeCorrect`, `ClientsWiredRight` and `PanicsExplained`, for any
  documents and deployments (`HostAssumption`). The steps of `main` that reach the
  directory are steps of `ServiceDirectory`, whose assumptions are shown of the
  host's own ids and prefixes, and so its theorems hold of it. `Reached` adds what
  `main` has bound by each of its stages.
- `BackendStreamProofs`: `TypeCorrect`, `Complete` and `Refinement`, for any consumer,
  any congestion, any chunks and any cut of the connection. With a local provider
  the channel holds what was sent and not read (`EmailInv`), so that a send always
  finds room (`RoomLeft`). With a remote one the invariant of the parser is kept while
  the wire is still being written (`WriteKeeps`); `OnWire` counts the events of the
  plan on it, and at most one keep-alive behind each (`Spaced`). The parser yields
  what is on the wire, that is the plan, and `Complete` is `NothingIsLost` where no
  two keep-alives meet.

Only model-checked:

- Liveness (`CallReturns`, `SendEnds`, `Ends`, `RegistrationEnds`, `DeliveryFinishes`,
  `StreamEnds`, `HostEnds`): TLAPS does not reason about fairness through ENABLED.
- What `Data` makes of a block of any other form than the nine: it is a recursion
  over the text, and what it computes for every text is an induction over data. For
  the nine its lines are unfolded one by one.
- That the four statements under Findings are violated: TLC shows a behaviour for each.

No module uses a RECURSIVE operator, which would cost TLAPS its SMT backend.

## 5. Not modelled

- The backend in `NotificationSystem` is its contract and not a second `RestClient`:
  `RestClientProofs!Refinement` is what allows the one to stand for the other.
- Durations: a time-out may strike at any time, a sleep takes any time. That a
  keep-alive comes only to a congested stream is the one place where two are
  compared.
- The ids of streamed deliveries, which are the constant `sms-1` for the SMS plugin.
- `NotificationFormatter`, declared and never called; `openapi_gen`, which prints
  a document; the tests; `Makefile` and `run-demo.sh`.
- `list` of the directory, which only reads and is not called.
- CR LF line ends and `data:` without a blank: no server here writes them.
- Equal readings of the clock that delivery ids are made from.
- Schemas, messages, titles and log output.

## 6. Plan

Done, in this order: `ContractErrors`, `DeliveryContract`, `RestClient` and its
proofs; `RetryBackoff` and its proofs; `NotificationModule`; `SseParser`;
`RestContract`, `SpecValidation`, `ServiceDirectory` and their proofs; `DeliveryStream`, `EmailStream`, `RestStream`, `BackendStream`; `NotificationSystem`;
`NotificationContracts`, `PocHost`.

Proofs, in this order: `RestClient`, `RetryBackoff`, `SpecValidation` and
`ServiceDirectory`; `NotificationModule`; `NotificationSystem`; `PocHost`; `SseParser`;
`BackendStream`.

Next:

1. The email plugin's stream for any plan and any capacity above its length, with
   both as constants, so that the theorem says which capacity `RoomLeft` needs.
2. The remote stream for any number of keep-alives, with `Spaced` as the condition
   on the server, so that finding 2 and `Complete` are two sides of one theorem.
