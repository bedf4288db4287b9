# Verification of Anjay Lite

Anjay Lite is a LwM2M client for small devices, written in C, without threads
and without blocking calls.  This directory holds TLA+ models of the library
(`src/src/anj/`) and of the example applications that complete it, the TLC runs
that check them, and TLAPS proofs about them.  `PROJECT.json` lists the runs, a
mutant for every property, the source lines behind every definition, and the
hazards the models are aimed at.

## The system

The application calls `anj_core_step()` again and again.  Everything the client
does happens inside these calls, one after another; what makes the code hard is
not parallelism but that every operation can be suspended at any net call
(`EINPROGRESS`), interrupted by an API call between two steps or from a
callback, overtaken by a timer, or answered by a message that is late,
repeated or lost.

| part | source | state | operations |
|---|---|---|---|
| client core | `core/core.c` | `conn_status`, the forced-transition flags, the enable times | `anj_core_step` and the `anj_core_*` API |
| registration machine | `core/server_register.c`, `core/register.c` | machine state, retry and sequence counters, back-off time; the register context | connect, Register, back off, give up |
| bootstrap machine | `core/server_bootstrap.c`, `core/bootstrap.c` | machine state, retry counter, back-off time; the bootstrap context | connect, Bootstrap-Request, the server's requests, Bootstrap-Finish, retry |
| registration session | `core/reg_session.c` | session state, next Update, queue-mode time, what the next Update must carry | requests, Updates, Send, notifications, queue mode, De-Register, suspension |
| server connection | `core/srv_conn.c` | net context, send in progress | connect, close, send/receive loop of an exchange |
| exchange | `exchange.c` | the one ongoing exchange (NSTART = 1), timers, block number | start, process an event, terminate |
| retransmission cache | `exchange_cache.c` | the last N responses and their lifetimes | add, look up |
| Send | `core/lwm2m_send.c` | queue of requests | new, abort, process |
| Observe | `observe/*.c` | observations, stored attributes, the one being processed | Observe, Cancel, Write-Attributes, value changes, notifications |
| data model | `dm/dm_*.c` | the operation in progress, its cursors, the open transactions | Read, Write, Create, Delete, Execute, Discover, composites |
| objects | `dm/dm_security_object.c`, `dm_server_object.c`, `dm_device_object.c`, `dm_fw_update.c`; the Objects of the tutorials | instances and their backups; the firmware update state | the data model handlers, store and restore |
| key storage, persistence | `compat/posix/crypto/`, `persistence.c`, the tutorial on persistence | records and files | store, resolve, delete; write and read the state of the Objects |
| downloader, NTP client | `coap_downloader.c`, `ntp.c` | a state machine each | start, step, terminate |
| sockets | `compat/posix/anj_socket.c`, `compat/anj_mbedtls_dtls_socket.c`, the example of a custom network | a socket; a DTLS session over it | the net API |
| payload decoders | `io/tlv_decoder.c`, `text_decoder.c`, `opaque.c`, `base64.c` | the position in a payload | feed a block, get an entry |
| other codecs, utilities | the rest of `io/`, `coap/*.c`, `utils.c`, `time.c`, `log.c` | | convert |

How they interact: `anj_core_step()` runs the machine of the current
`conn_status`.  A machine opens the connection, prepares a request, and calls
`_anj_srv_conn_handle_request()` until the exchange is over; the exchange calls
the handlers of whoever started it (register, bootstrap, data model, Send,
Observe), and those end the data model operation, set the result that the
machine reads next, or call back into the core (an Execute on `/1/x/4` forces a
transition, a Write of the Lifetime makes an Update due).  The API calls
terminate the exchange, whose completion handler runs at once, and set a flag
that the next iteration turns into a change of status.

## Modules

| modules | model |
|---|---|
| `CoreState` | the shared state (`struct anj_struct`), the connection, the exchange as its callers see it, the register and bootstrap contexts |
| `ServerRegister`, `ServerBootstrap`, `RegSession` | the machines of REGISTERING, of BOOTSTRAPPING, and of REGISTERED, ENTERING_QUEUE_MODE, QUEUE_MODE and SUSPENDED |
| `Core` | `anj_core_step()` over these machines, the API, time; the properties |
| `ExchangeCache`, `Exchange` | the retransmission cache; an exchange in both directions with the loop of `_anj_srv_conn_handle_request()`, the cache, a network and a server |
| `Lwm2mSend`, `SendPromise` | the queue of Sends with handlers that call the API; what its header promises, which it implements |
| `Observe` | observations, attributes and notifications, with the data model changing under them |
| `DmDefs`, `DmCore`, `DmRead`, `DataModel` | paths and values; writing operations and transactions; reading operations and their cursors; the exchange's calls into them, with payloads and answers in blocks |
| `SecurityObject`, `ServerObject`, `TemperatureObject`, `BinaryContainer`, `DmObjects` | the Objects and the dispatch to their handlers |
| `CryptoStorage`, `Provisioning` | the key storage; a device that stores its accounts, loses power and restores them; the properties of the data model |
| `Downloader`, `FwUpdate` | the CoAP downloader; the Firmware Update Object composed with it as an application does it |
| `Ntp` | the NTP client, its Object, its API |
| `PosixSocket`, `MinimalSocket`, `DtlsSocket`, `NetStack`, `NetContract` | the transports, the connection layer over them, and what `anj_net_api.h` promises, which they implement |
| `InCtx`, `TlvDecoder`, `TextDecoder`, `TlvPayload`, `IoIn` | the decoders; the payloads of a server; a payload that arrives in blocks and is decoded |
| `MC...` | the instances TLC checks |
| `CoreProofs`, `ClientProofs`, `SendProofs`, `FwUpdateProofs`, `NtpProofs`, `NetProofs` | the proofs |

The arms of a `CASE` are in the order of the code's returns, and the first one
whose guard holds counts, as TLC evaluates it; in the modules with proofs the
arms exclude each other.

### The core

* **One iteration of a machine's loop is one action.**  `pc` says where
  `anj_core_step()` is: `"idle"` between two calls, `"loop"` between two
  iterations of one call, `"cb_continue"`/`"cb_leave"` inside
  `connection_status_cb`, with which an iteration that changed the status ends,
  `"shutdown"`/`"down"` after `anj_core_shutdown()`.  Two long handlers are
  split where nothing but time can come between (`BsExchange` and the actions
  that follow it).
* **The net API answers as it likes.**  Each call returns `"ok"`,
  `"inprogress"` or `"error"`, and a close or a connect leaves the socket in any
  state the API allows for that result.
* **`HandleRequest`** stands for `_anj_srv_conn_handle_request()`: it waits, ends
  the exchange well or badly, or first repeats a cached response.  `Complete` is
  the completion handler of each kind of exchange, `Prepare` the start of one,
  with both ways it can fail.
* **The union `server_state.details`** has a `view`, the member in use.  The code
  reads a member of the union it has not written in one place, after a hold-off
  time; `LeftoverAttempt` is what it finds there.
* **Time** is kept as the time left until a timestamp, so that states do not
  grow: 0 is reached, `Never` (-1) is `ANJ_TIME_MONOTONIC_INVALID`, `Tick`
  decrements.  Comparisons with an invalid time are false, as in `time.h`.
* **Messages** are abstracted to their kind.  What the properties need of their
  contents is kept as history: the Lifetime the server was last told
  (`srvPeriod`) and whether it has missed a change of the Object Instances
  (`srvStale`).  `told`, `regTries`, `bsTries` and `deregTried` are history too;
  no action reads them.

### The exchange

* **One call of the net API with the `_anj_exchange_process()` that follows is one
  action.**  `ex` is `_anj_exchange_ctx_t`, `out` the message in the buffer.  The
  core modules see only that an exchange is ongoing and how it ends; this module
  is where it is driven from one event to the next.
* **A payload is its number of blocks.**  Block sizes and contents are left out.
* **The network** loses, repeats, delays and reorders: whatever the server was
  sent (`sent`) it may answer at any time and any number of times, with an empty
  acknowledgement, a reset, an error, a piggybacked or a separate response.  Its
  requests (`reqs`) arrive any number of times within the `EXCHANGE_LIFETIME`,
  as RFC 7252 has it.
* **The server** asks for the next block once per answer, and does not go on with
  a transfer after it began another one of the same kind; the code tells blocks
  apart by their operation and number only and depends on this.
* `log`, `answered`, `started`, `completed`, `outcome`, `got` and `taken` are
  history; no action reads the first five, and the last two stand for the state
  of the handlers.

### Send

* **The call stack is explicit**: a finish handler that runs, with what the
  library does when it returns, or the loop of `anj_send_abort(ANJ_SEND_ID_ALL)`.
  From a handler the application may queue and abort requests again, up to
  `MaxDepth` frames, so every way in which the queue is shifted under a loop that
  walks it is there.
* **A record has a size**, a block holds `BlockSize` bytes, and data from an
  external source are opened, read over several blocks and closed.
* **The session** around the queue begins and ends at any time, other exchanges
  take their turns, and `anj_core_shutdown()` closes down in its steps.
* `SendPromise` is the header's promise as a specification: requests are accepted
  in order, one at a time has its turn, each is told exactly one result.  The
  phase of a request is read off the queue and `active_exchange`.

### Observe

* **One action** is a message of the server as `_anj_observe_new_request()` handles
  it, a block of a payload, the end of an exchange, a call of
  `anj_observe_data_model_changed()`, or the check for a notification that is due.
  They share the one exchange, and the application changes values and the Object
  at any time, from within the handlers of a notification too.
* **Timestamps are ages**, up to `MaxAge`; the attributes are small numbers
  compared as in `observe_attr.c`; a composite observation is a ring of slots.
* Reading a value may fail where `ReadFails` says so.

### The data model and its Objects

* **One action is one call** of the exchange layer: the request, a block of its
  payload, a block of the answer, the end.  Within it the operation runs to where
  the next block is needed, with all the handlers it calls; `e` in the operators
  is everything a handler can reach (`objs`, the state `c` of the key storage, the
  operation `dm`, what was announced), and an operator returns `[v, ret]` as the
  functions return.
* **Requests and Objects** come from `Workloads`: the Objects installed, the
  requests sent to them, whether the sensor is polled, whether an Object is
  installed and removed meanwhile, whether keys are kept in the key storage.
* **The Objects** are those of the library and of two tutorials: one with Instances
  that come and go, one with Resource Instances that do.  The Device Object is
  its Resources.  Values are small numbers and short strings with their length
  limits; a string may arrive in chunks.
* **An application Object** may refuse to begin a transaction, and is then asked
  to end it all the same (`_anj_dm_operation_end()`); with nothing saved its
  end handler restores nothing.  (That of the tutorials would restore the cache of
  an earlier transaction; their begin handlers never refuse.)
* **Power** may go at any time (`Restart`), also while a key is written (`FilesLeft`)
  and while the state of the Objects is (`TornFiles`): the file is then empty or
  ends inside an account, between the two Objects or inside the Server Object, at
  the boundary of a key or a field.  The records of the key storage are files of
  their own.  A file that was closed is assumed to be kept; writing the state and
  closing its file do not fail (`main.c:131` ignores the result of `fclose()`).
* **After a restore that failed** the key storage keeps the entries it made and the
  Server Object the values it read, as in the code; only the Security Object is
  set up anew.
* `before`, `stored` and `raw` (the Objects last written without a payload) are
  history.

### Firmware update, NTP

* **One action is one step or one iteration of the loop in a step**, one request
  of the server to the Object, or one API call.  They come in every order.
* **The application** of `FwUpdate` is the one of
  `examples/tutorial/firmware-update-coap-downloader`: it writes the blocks to a
  file (`file`), passes the final status on to the Object, and its reset handler
  terminates the download.  Every handler may also fail.
* **The exchange** of the downloader is used by what `Exchange` shows of it for a
  GET: blocks in order, each once, one completion.  A response to an older
  request is ignored by the exchange, but its ETag is looked at first
  (`ReceiveStray`).  An empty message resets the timer and the retransmissions
  (`ReceiveEmpty`).  A request that arrives during a download is answered with 5.03
  and is left out.
* **An assertion stops the program**: `StartAsserts` and `WriteAsserts` guard the
  steps that contain them, so that a state in which one fails has no such step.
* **A content** is its ETag; the server may replace it at any time.  Contents
  without an ETag are not modelled: the code cannot tell two of them apart.
* **The API called from a callback** is part of the action that calls back
  (`Callback` and `Start` of `Ntp`).  The callback at the end of a Write to the
  NTP Object changes nothing itself, so a call from it is `ApiStart` or
  `ApiTerminate` as the next action.
* `pkg`, `via`, `cut` and `broken` of `FwUpdate` and `started`, `ended`, `tries`,
  `steady` and `aborted` of `Ntp` are history (`started` also bounds the run).

### Transports

* **A function of a transport is the set of its outcomes**: its result and the
  context afterwards, for every answer of the system below or of mbed TLS, which
  are external.  A `close()` that fails may have released the descriptor (`Stale`)
  or not; the context keeps its number either way, and loses the socket if it is
  freed then (`lost`).  That the system gives the number out again is left out.
* **`NetStack` calls them** as `srv_conn.c` does for the core, the NTP client and the
  downloader: connect until done, use, close after an error or at any time.  The
  binding is UDP (the library's socket or the example's), DTLS or non-IP; the last
  is external and does all the API allows.
* `NetContract` is the state of a socket as the API describes it.  `ContractKept`
  states that every transport implements it.  Of the caller it asks less than the
  header does: a call in progress may be followed by a close or a cleanup.

### Payload decoders

* **The decoders are modelled byte by byte**, because where a block ends inside a
  header, a number or a group of base64 characters is what they are about.  An
  action feeds a block or asks for an entry, in the loop of `process_write()`.
* **`TlvPayload` is the other side**: it encodes a tree of entries and says what
  they mean, without regard to blocks.  `DeliveredAsSent` compares the two.

## Runs

| run | question | result |
|---|---|---|
| `session` | the whole client in queue mode, two attempts in each of two sequences, every API call at every point, the data model changed from both sides | holds |
| `bootstrap` | a bootstrap with a retry, calls from the callback, two Lifetimes, messages that may not fit | holds |
| `progress` | restart and registration under fairness | holds |
| `exchange` | exchanges of both sides over a bad network, in blocks, with the cache | holds |
| `send` | the Send queue with handlers that call the API; it implements its promise | holds |
| `observe` | plain and composite observations, attributes, changes at any time, failing reads | holds |
| `data_model` | operations over several Objects in blocks, failing anywhere; power cuts | holds |
| `fw_update` | pull and push with every order of requests, steps and API calls; a content that changes | holds |
| `ntp` | synchronizations with retries, two servers, and a server that changes them | holds |
| `net` | the transports under the connection layer; they implement the net API | holds |
| `payload_in` | payloads in blocks cut anywhere | holds |
| `tlv_entries` | a payload with more entries than others | violated |

What the properties say.  A name ending in "InOrder" and the like joins the type
invariant with the invariants listed under it.

**Core.**

* `NothingLeftBehind`, whatever interrupts an operation:
  `SendOver`, nothing connects or receives over a half-sent message (asserted by
  `_anj_srv_conn_connect()` and `_anj_srv_conn_receive()`); `ExchangeDriven`, an
  exchange is ongoing only where it is driven on, and never when another one is
  started (asserted by `exchange.c`); `DmOpClosed`, a data model operation does not
  outlive its exchange (asserted by `dm_core.c`); `RegCtxSettled`, an old failed
  Update is never taken for the result of another exchange; `StatusTold`, between
  two steps the application knows the status.
* `TransitionsKept`: a requested transition is dropped only by making it, and a
  suspension ends when both timeouts have expired.
* `AllAttemptsMade`, `AllBootstrapAttemptsMade`: all configured attempts are made
  before the client gives up, and no more.
* `InstancesReported`, `LifetimeReported`: no change is lost on the way to the
  server, however it interleaves with Updates, queue mode and failures.
* `BootstrapSequence`: the bootstrap context and the machine agree on whether a
  sequence is in progress, across every abort.
* `RestartHappens`, `RegisteringEnds`: a requested restart happens, and
  registering comes to an end.

**Exchange.**

* `BlocksInOrder`: the handlers get every block once and in order, and know the
  last one.
* `SuccessComplete`: success is reported only with the whole payload passed on.
* `ExchangeInOrder`: `CompletedOnce`, the completion handler is called exactly once
  per exchange, also when the acknowledgement of a separate response fails or
  times out; `CacheKept`, the newest N answers are remembered for their lifetime,
  and nothing else is taken for a repetition.  Answers that expire at the same
  time count as equally old: the code may then forget any of them.
* `NotRepeated`: a request the cache promises to remember is not processed again.
  `BlocksInOrder` and `SuccessComplete` speak of the behaviours in which no
  request was; with more answers than the cache holds a repetition does run the
  handlers again.

**Send.**

* `PromiseKept`: the queue implements `SendPromise`: requests are sent in order and
  one at a time, and each handler is called once; in the end it is called, unless
  the client stays for ever without a session.
* `QueueInOrder`: `NoGaps`, free slots are behind the used ones except within the
  loop that aborts all; `LoopExact`, that loop leaves nothing that was there when it
  began.
* `PayloadExact`: when there is no more to read, every record was put into blocks
  exactly once; `SourcesClosed`, an external source is open only for the record
  being read.

**Observe.**

* `TableInOrder`: `ChainsClosed`, the slots of a composite observation form one
  ring, also while blocks of its request are still to come, so that the loop that
  removes it ends (`~hung`); `NumbersInStep`, they carry one number;
  `SlotsReleased`, no slot is left of a request that failed.
* `AttributesInForce`: an observation follows the attributes written to its path
  and above, also after a Write-Attributes that was refused.
* `TimeExact`: the time to the next notification is exact.
* `ChangesReported`: no change that the attributes ask for is forgotten.
* `OnlyItsOwn`: the end of an exchange changes its own observation only.

**Data model.**

* `RolledBack`: an operation that fails at any call and after any block, also
  because a second Object refuses to begin, leaves every Object as it was, and no
  key record of an account it created; a request
  that is refused changes nothing; only a Bootstrap Server changes accounts, and
  no Delete takes away its own (`AccountsGuarded`).
* `WriteExact`: what was sent is read back, however it was cut into blocks.
* `ReadComplete`: an answer has every record once, in however many blocks.
* `ChangesAnnounced`: every change of a server is announced to the core.
* `ModelInOrder`: `TablesSorted`, the tables stay sorted and without gaps at every
  step; `ValidWhenIdle`, between operations no transaction or backup is left and
  the Objects pass their own validation, unless the last write to one came without
  a payload.
* `RestoredAsStored`: a start restores exactly what was stored, with the credentials
  in their records unless a Bootstrap Server has turned to the Security Object
  since; from a file that was cut anywhere, or when a record is gone, it is back
  at the factory's account, whichever part of the file could be read.

**Firmware update, NTP.**

* `PulledWhole`: an image that the Object calls downloaded is closed and holds all
  blocks of one content of its URI.
* `PartiesInStep`: `UriStable`, the URI the downloader points into is not changed
  under it; `Released`, a downloader that rests has released connection and
  exchange; `CallbackAsserts`, the asserts of the application on its file and of
  the connection hold.
* Both leave out what follows, until the device starts anew, a download whose end
  was overtaken (`broken`), and `PulledWhole` one for which no token could be created
  (`cut`); see the table below.
* `DownloadEnds`: the Object does not stay in Downloading, unless the server sends
  empty messages for ever or an assert stops the program after such a download.
* `SyncInOrder`: `OneFinalEvent`, a synchronization gets exactly one final event,
  also when the callback starts or terminates one; `ConnectionReleased`, its
  connection is closed when it rests, and never used over a half-sent message.
* `GivesUpAfterAll`, `SyncEnds`: the NTP client gives up a synchronization that was
  not terminated after all attempts with each server, and every synchronization
  ends.

**Transports.**

* `ContractKept`: the refinement of `NetContract`.
* `TransportInOrder`: `ConnectedIsUsable`, a transport that says CONNECTED has an
  open socket and, for DTLS, keys; `NoSocketLost`, no socket of the system is lost;
  `CutReported`, a datagram that is too long is not taken for a message.  The first
  leaves out the POSIX transport with a descriptor that a failed `close()` released,
  the second counts the sockets that a failed `close()` did not.
* `MessageWhole`: a message reported as sent was handed over once and in order,
  whatever was left of an earlier one, and the MTU leaves room for the headers.
* `ComesUpAgain`: after whatever failure but that of a `close()`, a connection to a
  server that can be reached comes up again.

**Payload decoders.**

* `DeliveredAsSent`: the entries delivered are those of the payload, wherever the
  blocks end.
* `ReadToItsEnd`: `WholeIsRead`, a legal payload is decoded to its end (as long as
  its headers fit, see below); `NoByteSkipped`, a block is read to its end before
  the next one replaces it; `CutIsRefused`, a payload that is illegal or stops
  inside a header or a value is refused; one that stops behind an entry of an open
  container is not (see the table).
* `LoopEnds`: every call of the loop ends it or leaves less to do.

### Bounds

*Core.*  Two attempts and two sequences make every combination of the two
counters happen: the last of a sequence, the last of the last sequence.  All
delays are one or two units, enough for each timer to be reached before, with
and after the others.  Two Lifetime values make a change visible.  The API may be
called without limit.  `session` has the calls between and during steps,
`bootstrap` those inside the callback too; all of it at once does not fit in the
time of a run and asks no new question.  `AllBootstrapAttemptsMade` is checked
without a hold-off time: with one the first attempt counts from a leftover value
of the union.

*Exchange.*  Three blocks have a first, a middle and a last one; two exchanges let
the messages of one arrive in the other; a cache of three has two older entries to
choose from, and four requests overflow it.  One retransmission makes both the
first and the last timeout happen.  Message IDs of the two sides do not overlap
(`MidOffset = 10`), and `OrphanBlocks` is off.

*Send.*  Three slots have a first, a middle and a last one; ids start just below
their limit, so that they wrap; the deepest stack has a handler within a loop
within a handler; five requests let handlers queue more than the queue holds.

*Observe.*  Two slots hold two plain observations or a composite one; two tokens
and one entry for attributes let each run out; four events (changes and requests)
make a change come before, during and after a notification.  Numbers are counted
modulo 2 (`NumMod`), because only equality matters.  Deadlock is not checked: the
run ends when its events are used up.

*Data model.*  Each workload has the requests that meet: writes of one and several
Resources and Objects, values too long, unknown and malformed records; Instances
up to the limit and beyond; reads of every level and composites of three paths
with room for two; a bootstrap with accounts good and bad; a Replace without a
payload; a composite Write whose second Object refuses to begin.  A block holds two
records, a chunk of a string is cut anywhere.  A torn state file ends at any key of
any account, behind the Security Object, or in the last field of the Server Object
(`ServerCuts`: its fields are read in one go, and one that is missing fails the
restore as any other does); a record of one or two bytes can be cut and two of them
fill the storage (`MaxRecordLen`, `MaxRecords`).  Numbers keep the widths of their
fields (`U8Max`, `U16Max`), except that 32 bits are `U32Max`, as TLC's integers end
below 2^31.

*Firmware update, NTP.*  A download of two blocks, a first and a last one, with two
contents and two URIs has a change between them and a second download over the
first; that more blocks change nothing is proved (below).  Tokens, files and
acknowledgements may all fail, and the last acknowledgement stay in progress.  A
package of two chunks has a first and a last one.  Two attempts with each NTP
server and three synchronizations let one end, another be started from its
callback and a third by the period.

*Transports.*  Messages of three bytes are sent in up to three parts; two sockets of
the system are enough to lose one and to lose all; MTUs below, at and above the
headers.

*Payloads.*  All levels of nesting, ids and lengths of one and two bytes, blocks of
one to five bytes and the rest, a cut at every byte.

### Fairness

In the core (`FairSpec`) the application keeps calling `anj_core_step()`, time
passes, and no net call or exchange stays unfinished for ever: an exchange is
bounded by its retransmissions and timeouts, and a net call that never completes
is a fault of the integration.  This leaves out a peer that sends empty messages for
ever: each one gives the request all its retransmissions and time again
(`exchange.c:179`), so an exchange with such a peer has no end; `RegisteringEnds` and
`RestartHappens` do not speak of it.  Messages may still come in without an end, so
the session is not promised to ever send its Update.

In `FwUpdate` and `Ntp` weak fairness of `Progress` says the same of their step
functions.  That the server answers is not assumed; a request without an answer
ends with its timeout.  The empty messages are in the model of the downloader, and
`DownloadEnds` names them as the exception.

In `Lwm2mSend` handlers return, loops go on and exchanges end (as in the core).
Nothing makes the client register again after a session: it may be suspended,
bootstrapping or out of attempts for ever, and `PromiseKept` names this as the
exception.  Processing of the queue is strongly fair: requests of the server
and notifications come first, and the promise cannot hold against a server that
never leaves a pause.

In `NetStack` the caller keeps trying (the machines of the core do), and a connect
and a close that are tried again and again succeed now and then, where they can:
with a descriptor that was released no `close()` can.  Nothing can come up with a
peer that never answers.

Deadlock is checked in every run but `observe` and `send`, which end with their
bounds; in `Exchange` and `IoIn` time and the end of the loop can always go on, so
that the check says nothing there.

## Disagreements with the documentation

`tlv_entries` is violated: `id_length_buff` collects the ids and lengths of all
entries of a payload and is never emptied, so a legal payload whose headers take
more than five bytes of it is refused (the finding in `PROJECT.json` quotes the
lines).  The following have no run of their own.  The models show each of them
when the constant named here is changed in the cfg, or the property added to it.

| where | what the code does, and what is said of it | to see it |
|---|---|---|
| `core/reg_session.c:590` | a disable with `ANJ_TIME_DURATION_INVALID` ends at once; `core.h:434` has it disable "indefinitely" | `DisableTimes <- Indefinitely` in `MCSession.cfg`: `TransitionsKept` |
| `core/register.c:63` | a Location-Path that is too long leaves the data model operation open; the next one asserts that none is (`dm_core.c:205`) | `LongLocation = TRUE` in `MCSession.cfg`: `NothingLeftBehind` |
| `core/srv_conn.c:346` | a Register, an Update or a response for which the MTU has no room is refused before its exchange starts, so that nobody ends its data model operation; the next one asserts that none is open (`dm_core.c:205`) | `SmallMtu = TRUE` in `MCSession.cfg`: `NothingLeftBehind` |
| `core/reg_session.c:519` | a forced transition during an Update closes the connection without the De-Register that `core.h:470` promises | property `DeregisterFirst` in `MCSession.cfg` |
| `core/reg_session.c:91` | a restart, disable or bootstrap requested from the status callback for REGISTERED is cleared by `_anj_reg_session_init()`; `core.h:446` has a bootstrap begin "immediately" | `ApiInCallback = TRUE` in `MCSession.cfg`: `TransitionsKept`; `NothingLeftBehind` (`StatusTold`) fails as well, a call from the callback changes the status after it was told; and so does `InstancesReported`, for Object Instances that this callback adds or removes |
| `core/core.c:214` | a Lifetime the application changes during a Register is used and never reported | `AppChanges = TRUE` in `MCBootstrap.cfg`: `LifetimeReported` |
| `core/server_bootstrap.c:106` | after a hold-off time the retry counter starts from what the union held | `HoldOff = 1` in `MCBootstrap.cfg`: `AllBootstrapAttemptsMade` |
| `exchange.c:690` | after a separate response the next block goes out with the Message ID and token of the last one | invariant `MidFresh` in `MCExchange.cfg` |
| `exchange.c:518` | a block of a Write whose exchange is over is written as the beginning of a new payload | `OrphanBlocks = TRUE` in `MCExchange.cfg`: `BlocksInOrder` |
| `core/lwm2m_send.c:226` | an API call that terminates the exchange from a finish handler meets `assert(ctx->active_exchange)` in the completion handler | invariant `CompletionExpected` with `HandlerLeaves = TRUE` in `MCSend.cfg` |
| `core/core.c:472` | a request queued by a handler during the shutdown is never told; the comment says all are | invariant `ShutdownTells` with `HandlerQueues = TRUE` in `MCSend.cfg` |
| `observe/notification.c:532` | a change during the notification itself is not reported; `AT-Observations.rst:131` has every one reported | invariant `EveryChangeReported` in `MCObserve.cfg` |
| `observe/observe.c:262` | a value that cannot be read when the server changes it leaves a ring that the removal does not find its way through (`assert(prev_observation)`); one that cannot be read between two blocks of a request leaves the ring open | `ReadFails` with `"server"` or `"between blocks"` in `MCObserve.cfg`: `TableInOrder` |
| `dm/dm_security_object.c:450` | a Delete that is undone has already removed the key record; the comment says a Delete cannot fail | invariant `KeysResolve` in `MCDataModel.cfg` |
| `io/io.c:579` | the assert that there is room in the buffer fails when the last record of a path fills it exactly and another path follows | invariant `RoomForPayload` in `MCDataModel.cfg` |
| `exchange.c:526` | a Write-Replace of an Instance without a payload resets it and is committed without a validation, which `dm/defs.h:493` has every Create, Write and Delete go through; of the Server Object this leaves Lifetime and Short Server ID 0, which the validation after a bootstrap takes for the Bootstrap Server's and lets pass | invariant `AlwaysValid` in `MCDataModel.cfg` |
| `compat/posix/crypto/anj_crypto_storage.c:81` | a record created after the state was stored takes the name and the file of one that the stored state still names; a start then comes up with the other credential | property `KeysAsStored` in `MCDataModel.cfg` |
| `compat/posix/crypto/anj_crypto_storage.c:86` | the comment says of a file with the name of a new record that "we don't track it"; a start enters the names it reads into the first free slots, so another entry may track it, and its file is deleted | invariant `RecordsNamedOnce` in `MCDataModel.cfg` |
| `dm/dm_fw_update.c:263` | a package pushed after one that was abandoned, or whose update could not be started, reaches the handlers without a start; `fw_update.h:78` has a start first | invariant `PushedWhole` in `MCFwUpdate.cfg` |
| `coap_downloader.c:60` | when no token can be created, the error is dropped and the truncated download reported as finished | `PulledWhole` leaves it out with `cut` |
| `exchange.c:302`, `coap_downloader.c:296` | the completion handler runs before the acknowledgement of the last block is sent, so that one in progress is never waited for; when the application terminates from the callback for STARTING, the step goes on and overwrites the status, where `coap_downloader.h:278` has it FINISHING.  In both cases an exchange, a half-sent message or an open file is left for the next download, whose asserts fail | invariant `InStep` in `MCFwUpdate.cfg` |
| `exchange.c:179` | an empty message for a request restores all its retransmissions, so a server that sends nothing else keeps a download for ever | property `AlwaysEnds` in `MCFwUpdate.cfg` |
| `ntp.c:301` | a terminated synchronization is tried again while attempts are left; `ntp.h:290` has the status become FINISHED_WITH_ERROR | property `TerminatedForGood` in `MCNtp.cfg` |
| `core/server_register.c:158` | the requests in the queue are aborted by the next registration or a shutdown, not by the end of the session, which `lwm2m_send.h:72` lists as a cause; without either their handlers are not called, where `lwm2m_send.h:176` has it that they "will be" | property `PromisedAnyway` in `MCSend.cfg` |
| `compat/posix/anj_socket.c:213` | after a `close()` that failed the context keeps the descriptor and stays CONNECTED; `anj_net_api.h:377` allows no further communication after it | property `ClosedAfterClose` in `MCNet.cfg` |
| `core/srv_conn.c` | a connect or a send in progress is followed by a close when the caller gives up; `anj_net_api.h:262` asks for a repeated call "without any other" | property `StrictlyRepeated` in `MCNet.cfg` |
| `compat/anj_mbedtls_dtls_socket.c:405` | a datagram longer than the buffer is cut without `ANJ_NET_EMSGSIZE`, which `anj_net_api.h` has every transport return | invariant `TooLongReported` in `MCNet.cfg` |
| `io/text_decoder.c:291`, `:171` | `io.h:259` allows an empty last block; of a number or an Object Link it is refused, of base64 text the last decoded chunk is delivered a second time.  `exchange.c` never feeds one | `Case = "texts"`, `EmptyLast` with `"text"` in `MCIoIn.cfg`: `ReadToItsEnd` |
| `io/tlv_decoder.c:515` | a payload that ends behind an entry is complete, also inside a container that states more: the stack of open entries is not looked at | invariant `ContainersAreWhole` in `MCIoIn.cfg` |
| `io/base64.c` | base64 text whose last characters do not make up four is accepted | `Case = "tail"` in `MCIoIn.cfg`: `ReadToItsEnd` |

Some more the models follow without a property that would tell: a Bootstrap-Delete
of an account behind that of the Bootstrap Server is refused, as if it were for
that one (`dm_delete.c:145`); the reset of an Instance by a Write-Replace is not
announced; the storage of the Security Object pairs sorted Instances with unsorted
slots; the
transport of the custom-network example loses a socket when `connect()` fails; an
empty last block makes a TLV payload that is cut end well.

## Proofs

`TypeCorrect` (`CoreProofs`): `Spec => []TypeOK` for all constants that satisfy
the four assumptions of `CoreState` and the one of `Core`, which only say that
counts and times are natural numbers and options are Booleans.  There is one
lemma per action or group of actions with the same frame.

`AttemptsMade` (`CoreProofs`): `Spec => []AllAttemptsMade`, for every retry
count and sequence count, zero included (the code then makes one attempt).
`AllAttemptsMade` speaks of the last state of the machine only and is not
inductive.  `AttemptsInv` says for each state of the machine how the attempts
made so far relate to the two counters: before an attempt they are
`seq * Tries + retry`, after it one more, with `retry < Tries` and `seq < Rounds`,
where `Tries` and `Rounds` are the limits with zero read as one.  The step that matters is
`NextAttemptCounted`: a new sequence resets `retry` and adds one to `seq`, which
keeps the product; the mutant `NextAttemptKeepsRetry` breaks exactly this.

`BootstrapAttemptsMade` (`CoreProofs`): `[]AllBootstrapAttemptsMade` for every
retry count, assuming `HoldOff = 0`; with a hold-off time the counter starts from
what the union held (see the table above).  `BsAttemptsInv` relates the attempts to
the retry counter in each state, and says that the details of `server_state` are
the bootstrap's whenever its machine runs.

`SequencesAgree` (`CoreProofs`): `[]BootstrapSequence` with no assumption.  What
makes it inductive is that a bootstrap is not forced upon a client that is
bootstrapping already (the early return of `anj_core_request_bootstrap()`):
whatever interrupts the machine leads out of BOOTSTRAPPING, and the next start
resets the context.

`ClientProofs` has the properties of the client across its statuses.  The
assumptions of its theorems are about the environment, and each one is needed:
without it TLC finds the counterexample that the table above describes.

* `TransitionsAlwaysKept`: the action property `TransitionsKept`, assuming
  `~ApiInCallback` and `Never \notin DisableTimes`.  The invariant `Calm` says that no
  transition is pending in a callback after which the details are set up anew:
  `_anj_reg_session_init()` would drop it.  `Finite` keeps the enable times valid, so
  that the later one is found by comparing them.
* `ExchangesAlwaysDriven`: `SendOver`, `ExchangeDriven` and `RegCtxSettled`, with no
  assumption.  `SendHeld` says in which states `send_in_progress` can be set: those
  that drive an exchange and those that lead from its failure to a close, which
  clears it.  `Driven` adds to `ExchangeDriven` that no forced transition is pending
  where it would take the machine away from its exchange: the API calls terminate
  the exchange before they set the flag, and the session makes its transitions
  itself, after the De-Register.
  `Settled` says where a failed result can still be seen (until `"disconnect"`), and
  `SessionStates` that EXITING_QUEUE_MODE is left within one call, so that no API
  call can cancel the exchange that it is about to start.
* `NothingEverLeftBehind`: all of `NothingLeftBehind`, assuming `~LongLocation`,
  `~SmallMtu` (for the data model operation) and `~ApiInCallback` (for the status).
  `ToldInv` says that only the INVALID of a failed start can be untold, within a
  call and with nothing pending (`Calm` again), so that the same call goes on to
  FAILURE and tells it.
* `InstancesAlwaysReported`: `[]InstancesReported`, assuming `~ApiInCallback`.
  `StaleInv` says what takes a change to the server, and that nothing is stale
  until the session is set up; `Working`, that the result of an Update in progress
  is open, so that the old one cannot be taken for it.
* `LifetimeAlwaysReported`: `[]LifetimeReported`, assuming `~AppChanges`.  `PeriodInv`
  adds that the cached Lifetime is that of the data model from the start of a
  registration on, and that a Register carries it.

`QueueAlwaysInOrder` and `PromiseAlwaysKept` (`SendProofs`): `[]QueueInOrder` and the
safety part of the refinement of `SendPromise`, with no assumption but that of
`Lwm2mSend`: for every size of the queue and whatever the handlers call, also with
`HandlerLeaves` and `HandlerQueues`, short of the call that the assertion in
`send_completion_callback()` stops (see the table above).  `StackInv` says what the calls that have not
returned can be: the handler called from the loop of `anj_send_abort()` is always
the innermost one, since `abort_in_progress` makes every other abort return at
once, and an exchange that is no longer active is about to be finalized further
out.  `QueueInv` says where each request is: in exactly one slot until its handler
is called (within the loop, until it has returned), and in the order of acceptance
in the slots that the loop has gone through, where the handlers queue new ones.
From `Ordered` and `Present` follows that the first slot holds the oldest request
that is pending, which is what the promise asks for before it is sent.  What
`send_read_payload()` puts into a block is not part of the argument.

`PulledWholeAlways` and `PartiesAlwaysInStep` (`FwUpdateProofs`): `PulledWhole` and
`PartiesInStep` for every number of blocks, chunks and retransmissions and all sets
of URIs and contents, with no assumption but those of the two modules: files,
tokens, sends and connects may all fail or stay in progress.  Both properties are
about the states in which `broken` is false, that is, until one of the two orders of
events that the code does not handle (`InStep` in the table above) and again after
the device has started anew; the invariant of the proof is therefore
`~broken => FwInv /\ Bounds`, with `broken` shown to be cleared by `Reboot` alone, which
establishes `FwInv` afresh.  Neither property is inductive.  `FwInv` adds what ties the three parties together: while the status is DOWNLOADING the file
holds exactly the first `block` blocks of the content whose ETag the downloader
keeps; FINISHING or FINISHED without an error means that the file is whole, unless
a missing token cut it; an Object that is Downloading has the URI of the
downloader; a file is open only while a download is active.  A stray response may
set the ETag before the first block only, which is why the blocks are tied to the
ETag and not to what the server offers.  `Bounds` adds the ranges of the counters,
which need `FwInv`: a block is only written while one is missing.

`SyncAlwaysInOrder` and `AlwaysGivesUpAfterAll` (`NtpProofs`): `SyncInOrder` and the
action property `GivesUpAfterAll` for every number of attempts, retransmissions
and every configuration, with no assumption but that of `Ntp`; the latter is about
synchronizations that were not terminated.  `NtpInv` adds
`OnItsWay` (a synchronization that is under way was counted when it started and
has attempts left, so the counters of starts and ends agree when it ends) and
`TriesCounted`, which relates the one counter of the code, reset when the backup
server takes over, to the connections tried with each server.

`TransportAlwaysInOrder`, `ContractAlwaysKept` and `MessageAlwaysWhole` (`NetProofs`):
the invariant `TransportInOrder`, the refinement `ContractKept` of `NetContract` and
the action property `MessageWhole`, for all transports, message lengths, families
and paths, with every call of the platform failing anywhere, `close()` included.  What
a failed `close()` leaves is part of the statements: `Stale` descriptors are exempt from
`ConnectedIsUsable`, lost sockets are counted by `NoSocketLost`, and `NetContract` lets
the state stay as it was.  The last one assumes that `AF_INET6` is only forced where it is built
in; without it the socket counts the header of a family that was never used.
`NetInv` adds what `srv_conn.c` relies on between two calls: for each phase of the
caller which states the socket and the DTLS context can be in (`PhaseInv`), and
which call was answered with "in progress" last (`ProgressInv`), since the contract
only allows that call, a close or a cleanup to follow.  Each step is then shown to keep `NetInv`, to
be a step of the contract or a stutter, and to be one that `MessageWhole` allows,
in one go (`StepsOk`), from one lemma per function of each transport.

Only model-checked:

* liveness (`RegisteringEnds`, `LoopEnds`, `RestartHappens`, `DownloadEnds`,
  `SyncEnds`, `ComesUpAgain`) and the liveness in `PromiseKept`, that every handler
  is called in the end: fairness and ENABLED are out of the prover's reach;
* whatever is computed by recursion over a payload, a queue or a tree (the
  decoders, the reading of a Send in `PayloadExact`, the data model): it needs
  induction over data;
* the safety properties of `Exchange` and `Observe`.

## Not modelled

The CBOR codecs, the encoders of payloads (`io/`) and the codec of CoAP messages
(`coap/`) convert bytes: the first two in the streaming style of the decoders that
are modelled, the last one datagram at a time without state.  The models take what
they produce as records and fields; a message that does not decode is one that is
dropped or answered with an error.  Of the text decoder the conversion of the text
of a double and numbers beyond 31 bits are left out.  The byte layout of
`persistence.c` is left out.  `anj_core_next_step_time()` is a query.  `utils.c`,
`time.c`, `log.c`, the clock and the random numbers are helpers without state.

Bounds of the models that are not those of the code: the back-off of the
registration is not counted to the width of its type; block sizes are not
negotiated; the TCP binding of the socket, which shares the functions of the UDP
one, is not bound.
