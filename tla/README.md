# Verification of the WhatsMiner worker

This directory holds TLA+ models of `whatsminer-mdk-worker`, the TLC runs that
check them on small instances, and TLAPS proofs of what matters most. Paths such
as `wm-api-v2.js:86` are below `lib/`, `lib/protocols/` or `src/` of the
repository; `PROJECT.json` maps every definition to its lines.

## 1. The system

A worker process serves one miner. Telemetry handlers read from it, command
handlers write to it, all on one Node.js event loop. A function runs without
interruption from one completion of I/O to its next wait for I/O: a chain of
`await`s over promises that are already settled is drained before the next
socket event. **One action of a model is therefore the code between two network
waits.**

| Component | State it keeps | Operations | Interacts with | What is hard | What makes it correct |
| --- | --- | --- | --- | --- | --- |
| Connection (`client.js`, `with-device.js`, `protocols/index.js`) | `devicePromise`, a client per probe | `getDevice`, `connect`, `candidatesFor`, `createDevice` | every handler | handlers that start together or during another's failure | one open client for all, a failure leaves nothing behind and is retried |
| API v2 session (`wm-api-v2.js`, `tcp-rpc.js`) | `token` | `authenticate`, `refreshToken`, `requestWrite`, `requestWriteOnce`, `clearToken` | all authenticated v2 calls share the token | concurrent retry loops, late answers, abandoned requests | at most one execution, definite outcomes stay true, no wasted attempt, no dead token restored |
| API v3 session (`wm-api-v3.js`) | `salt` | `authenticate`, `requestWrite`, `requestRead` | all v3 writes share the salt | late salts, refusals that forget a newer salt, `setPowerMode`'s two writes | the same contract, a replaced salt does not survive |
| Firmware upload (both clients, `wm-api-v3-transport.js`) | `phase`, `transmitted`, buffers | `updateFirmware`, `_requestUpdateMiner`, `requestUpload`, `requestFirmwareUpload` | session (token, salt), `readFirmware` | a long exchange that may break anywhere | an outcome says truthfully whether the image can have been flashed |
| Streams (`wm-api-v3-transport.js`, v2 log download) | buffer, announced size | `FrameDecoder.push`, `requestBinary`, `_requestLogDownload`, `findJSONObjectEnd` | sockets | chunks cut anywhere | the cuts do not show; a complete answer is given at once |
| Data cache (`miner-base.js`, v3 client) | `deviceDataCache` | `fetchDeviceData` | telemetry, `setPools` | test, await, store | bounded age; never behind a `setPools` |
| Pool setup (`miner-base.js`, both clients) | `configuredPools`, the miner's pools | `setPools`, `setupPools`, `checkSamePools`, `getPools` | cache, session, reboot | read-compare-write, padding, unawaited reboot | success was true; the pools become active; the view merges |
| Commands (both clients) | the timers of `setLED` | `setLED`, `setPowerMode`, `suspendMining`, `resumeMining`, `setZone`, single writes | session | two writes, of which one may fail; a timer that belongs to an earlier call; writes nobody waits for | a success is true; a lit LED is given back |
| Snapshots | `cachedShares`, `_errorLog`, `lastSnap` | `getSnap`, `_prepSnap`, `_calcNewShares` | all getters | several reads, counters and a log that all snapshots share, a failure in the middle | the reported shares add up, the log agrees with the last snapshot, the LED that was set is shown |
| Telemetry handlers, argument checks, crypto, mock, contract | none | formatting, validation | the above | little | unit tests |

The hazards behind these columns are listed one by one, each at its line, in
`PROJECT.json`.

## 2. The modules

```
WriteContract                      what a write promises (abstract)
  implemented by (INSTANCE ... WITH):
    V2Session (MCV2Session)        V2SessionProofs
    V3Session                      V3SessionProofs
    FirmwareUpload                 FirmwareUploadProofs
  used by (INSTANCE ... WITH):
    Commands                       ClientProofs
      Snapshots (MCSnapshots)      ClientProofs

Connect                            ConnectProofs
PoolSetup (MCPoolSetup)            PoolSetupProofs
PoolCache (MCPoolCache)            PoolCacheProofs
StreamReader                       StreamReaderProofs
```

A component's proofs are in the module named beside it; the modules in brackets
bound it for TLC.

**WriteContract** is the abstract specification. A write is issued; the miner
carries it out at most once; its caller is told "applied", "notApplied" or
"unknown", and a definite verdict is never contradicted: the miner does not
carry a write out after "notApplied". It condenses the safety section of the
repository's README and the descriptions of the outcome codes in
`mdk-contract.json`. `Proceed` is the step of a command of two writes whose first
was confirmed and whose second is sent in the same turn of the event loop.

**V2Session**: the shared `token`, and calls of four kinds, because the code
reads their answers in four ways: `Commands` (`requestWrite`, up to three
attempts), `Reboots` (`requestWrite` with `json = false`), `NetworkCalls`
(`requestWriteOnce`) and `Downloads` (`downloadLogs`). `pc` is the wait a call is
in; `Start`, `TokenGranted`, `TokenRefused`, `TokenFailed`, `Answered`,
`ExpiredRetry`, `ExpiredLast` and `SocketFails` are what the code does at the end
of a wait. Tokens are numbers. The device mints, forgets, applies, rejects,
answers or does not; a request whose socket was given up may still arrive. Two
peculiarities of the code are kept: a refused `get_token` whose `Msg` is a text
yields a token the device never issued (`TokenRefused`), and `requestWriteOnce`
keeps a token that an unencrypted answer called expired (`TokenAfter`).
`Verdict` maps outcomes to the verdicts of the contract: errors of the
authentication and error codes are definite, transport and decoding errors are
not.

**V3Session**: the shared `salt`, a miner that changes its own, and calls of one
write or two (`setPowerMode`). A write is sent once; `-4` forgets the salt that
is stored by then. The writes of a call are the calls of the contract.

**FirmwareUpload**: `updateFirmware` of both generations, from the preparation
(token and version in the order of v2, version and salt in the order of v3)
through "ready", the transmission and the result. The connection carries messages
that arrive in chunks of one or more (`Data`); v3 decodes a whole chunk before it
looks at a frame (`ReadV3`), v2 takes one object per chunk and leaves the others
in the buffer (`ReadV2`). The miner may answer, garble, close or fall silent
anywhere.

**Commands**: what the commands of both clients do above the session. Below it is
not one session but the contract: a write of a command is a write of
`WriteContract`, which both sessions are proved to implement, so that what holds
here holds above either. `HasSecond` and `Awaited` give the shape of a command (v2
lights two LEDs one after the other, starts the service before it sets a mode, and
does not wait for the mode or for `power_off`), `GoesOn`, `ResultOf` and
`TimersAfter` what it makes of the answers: `Begin`, `GoOn` and `Return` are the
turns of a call, `Refuse` a refused argument, `TimerFires` the `setLED(false)` two
minutes later, `Unheard` an answer that nobody waits for. The history `solo` names,
per attribute of the miner (LED, power), the call that nobody interfered with
since it began.

**Snapshots**: `getSnap` of both clients while commands run. A snapshot has three
reads that matter (`Reads`: the pools' counters, the error codes, the miner info,
which shows the LED); each may be answered at any moment (`Answered`), and the turn
after the last one is the whole of `_prepSnap` (`CompletesV2`, `CompletesV3`), with
the order of the code: the error log and the counters change before the miner info
is looked at, which may throw. The miner mines, resets its counter, and changes its
error codes. Its counter has any value at first: a worker that starts, or restarts,
finds a miner that has been mining. `mined`, `counted`, `excuses` and `lit` are
histories for the properties. `got` is cleared at the end of a snapshot, where the
code's local variables are gone.

**Connect**: `devicePromise` and the connections made so far. Handlers that call
`getDevice` start or join one; the end of a probe gives the client, probes the next
candidate, or rejects and forgets the promise. `Invalid` and `candidatesFor` are
the decisions of `deviceConfig` and `candidatesFor`, checked over every
combination of options.

**StreamReader**: the three readers as one machine: `request` (`ReadFrame`),
`requestBinary` and `_requestLogDownload` (`Consume`). The miner's stream is
chosen first and delivered in chunks (`Data`). Bytes are bits, a length has two
of them, JSON text consists of braces, quotes and backslashes ("open", "close",
"quote", "backslash"), and a message is reduced to whether it refuses and what size
it announces. The two loops of the code are recursive functions: `Cuts` from the
back of the buffer, for `FrameDecoder.push`, and `Scan` from its front, for
`findJSONObjectEnd`. `Says` is the reference: what the stream, taken as a whole,
calls for; for JSON it uses a grammar (`Objects`) and not the scanner.

**PoolCache**: `fetchDeviceData(getPools)` and `setPools` of v3, with a clock.
The miner's answer is reduced to the time it was made and to the chunks it came in,
`configuredPools` to how often it was replaced, which is all that staleness needs.
`socket.setTimeout` is no deadline of a request: the timer runs anew when the
socket is connected (`Connected`) and at every chunk (`Chunk`), and only a silence of
`Timeout` ends the call (`heard`, `Overdue`). An answer may therefore be older than
`Timeout` when it is complete, by as much as the chunks it came in allow. The clock
does not pass the moment at which a silent socket is given up: the delay of a busy
event loop is left out. A `setPools` has no timer here, it may take any time: it can
have to ask for a salt first.

**PoolSetup**: `setPools` and `setupPools` of both generations on one miner, with
real lists of pools (address and user), the padding, `checkSamePools`, the
unawaited reboot of v2, the `configuredPools` of v3 and the merge of `getPools`:
`Merging` is its `map` with the set of used entries, `Others` its `concat`.
The history `crossed` says that a v3 update began while another was not over.

`MCV2Session` and `MCSnapshots` give the calls of every kind names and let a
behaviour make those of one cast, so that one run has every two kinds together
without the product of all of them; in `MCSnapshots` the miner moreover changes
only while there is a snapshot to see it. `MCPoolCache` and `MCPoolSetup` add
symmetry; all their properties are safety, and the symmetric constants occur in no
`CHOOSE` of their type, so the reduction is sound. The other runs give their
constants in the cfg alone.

## 3. The runs

| Run | Shows | Bounds, and why they are enough |
| --- | --- | --- |
| `v2_session` | two retrying writes, and two calls of any two different kinds, keep the contract, give up only after three different tokens, never restore a dead token, and end | two calls reach every interleaving of a clear, a store and a late answer; `MaxTokens` is all that two retrying writes can ask for (three each), so the bound holds nothing back |
| `v2_network_report` | *violation*: an unknown outcome is reported though nothing was transmitted | one call |
| `v3_session` | a write and a two-write call keep the contract; a replaced salt does not survive; they end | three salts: a late answer can carry one that was already refused |
| `firmware_upload` | both generations keep the contract and end | two undecodable messages: one before "ready", one after |
| `firmware_unconfirmed` | *violation*: an unconfirmed upload ends with a decoding error | v3, one undecodable message |
| `pool_cache` | no reader is behind the `setPools` that preceded it; the age of a value is bounded by the chunks it came in | three readers (a slow, a fast, a late one), cache time and timeout 1, answers in one or two chunks, clock to 4: an answer that took both its timeouts is handed out at the last moment of its cache time, so the bound is reached |
| `client` | two commands, a command and a snapshot, or two snapshots: a success is true, a mode follows its start, a lit LED is attended and returns; shares add up, the error log agrees, the LED is shown | two calls of any kind: a timer of one fires during the other; counter up to 2: it rises, is reset and rises again; one error code is enough to tell two lists apart |
| `pool_setup` | success was true, the reboot follows the update, the view merges, the configured pools are the miner's unless updates crossed | two calls, two addresses, two users, lists of up to two: repeated addresses, partial matches and padding all occur |
| `setup_pools` | *violation*: success after a failed update | one v2 call |
| `skip_pools` | *violation*: a dropped backup pool is skipped as "same" | one v2 call |
| `connect` | one open client, no leak, no remembered failure, every handler is served | three handlers (one starts, one joins, one comes after a failure); the miner changes three times |
| `stream_reader` | the cuts do not show, complete answers are given at once | streams of up to seven bytes: two frames, or a frame and an archive, with every short JSON object and archives of up to three bytes behind it |

A mutant per property (in the modules, marked *Mutant*) is a plausible mistake in
the code, and breaks the property under the run's own configuration.

**Fairness.** `V2Session`, `V3Session`, `FirmwareUpload` and `Connect` assume that
a call which waits on a socket is settled sooner or later (weak fairness of
`Settle(c)`, `Client`, `Probe`). The code arms a timeout on every socket
(`tcp-rpc.js:30`, `wm-api-v3-transport.js:66`, `:122`, `:161`,
`whatsminer-api-v2-client.js:160`, `:289`). These timers end a silence, not a call:
each chunk starts them anew. For v3 that is enough, since a frame and an archive have
a greatest size and each chunk brings at least a byte of it. The v2 readers keep what
comes, however much it is: `TcpRpc.request` until the connection ends, the upload and
the log download until an object is complete. For v2 the fairness therefore assumes
one thing of the miner, that it does not send bytes for ever, never pausing for the
timeout and never ending its answer; apart from that it may answer anything, or
nothing. For the same reason `Commands` assumes
that an awaited write is answered or fails (`GoOn`, `Return`) and so is one that
nobody waits for (`Unheard`), and that the event loop serves its timers
(`TimerFires`), as long as the worker lives. No step of the miner is fair. The
other modules have no liveness properties.

## 4. What the code does against its documents

1. `setNetworkInformation` (v2) turns every error that is not an `ERR_` text into
   `ERR_NETWORK_OUTCOME_UNKNOWN`, which `mdk-contract.json:161` explains as a
   connection that failed *after transmission*. A `get_token` answered without
   `Msg` gives this code before anything was transmitted (run
   `v2_network_report`). The transport failures after the transmission, which the
   sentence is about, are reported as `ERR_API_V2_TIMEOUT` and
   `ERR_API_V2_CONNECTION`.
2. After a v3 image was sent, an invalid frame length or a result that is not JSON
   is reported as a decoding error, not as `ERR_FIRMWARE_OUTCOME_UNKNOWN`
   (`mdk-contract.json:174`; run `firmware_unconfirmed`).
3. `setupPools` (v2) returns success without looking at what `setPools` resolved to
   (run `setup_pools`).
4. `checkSamePools` calls a shorter list the same as a longer one, because both are
   padded to three; a dropped backup pool stays on the miner (run `skip_pools`).

The following was met while modelling and has no run: either no document says
otherwise, or the repository does not tell what a miner does.

- `fetchDeviceData` lets concurrent readers duplicate a request, although
  `mdk-contract.json:28` gives avoiding duplicates as the purpose of the cache.
- The v2 upload takes any accepted answer that is not "ready" for the final
  success, also before the transmission (`whatsminer-api-v2-client.js:179`). Whether
  a miner answers so cannot be told from the repository: `FirmwareUpload.cfg` allows
  it for v3 only (`EarlyOk`), where the code checks for it, and the theorem
  `Contracted` of `FirmwareUploadProofs` has the assumption `"v2" \notin EarlyOk`.
- The v2 `setPowerMode`, `suspendMining` and `setZone` report success without
  knowing. `SuccessIsTrue` excepts them (`Unchecked`); the tests of the first two
  expect it (`whatsminer-actions.test.js:126`, `:244`, `:252`), those of `setZone`
  stop at an exception, for which it does report a failure.
- A timer of an earlier `setLED(true)` cuts a later one short. A lit LED whose call
  or timer ended with an exception is not given back by anybody (`LedForsaken`), nor
  is one whose worker stopped: the timers are in memory.
- The v2 `checkIfAllErrorsAreMinor` is given objects where it expects codes, so that
  `are_all_errors_minor` is never true for a miner that has errors.
- Two telemetry pulls may take snapshots at the same time. If the older counter
  comes last it looks like a reset, and shares are counted again; `SharesAddUp`
  excuses overlaps (`excuses`).
- `scripts/test-live-led.js` prints the state it read after `setLED(true)` and
  does not compare it, although `README.md:88` says that it confirms it.

## 5. What is proved

Eight modules hold proofs. Their theorems are for **every** value of the constants
under the named `ASSUME`s of the modules, which TLC evaluates in the runs. All of
them go the same way: an inductive invariant `IndInv` (`SnapInv` for the
snapshots) strengthens `TypeOK` and the properties; one lemma per action
shows that the action keeps it; the theorem combines them.

Two modules also reason about what recursive functions compute, for every input.
The induction theorems of the library take an operator as a parameter and cannot be
used; in their place stands the lemma `Induction`, about a *set* of numbers, which is
derived from the theory of finite sets: a one-to-one map of a finite set into itself
reaches all of it, but were m not in the set, x - 1 would be such a map of the
numbers up to m that are not, and would not reach m. `InductionUpTo`, `CompleteInduction` and
`Recursion` (a function defined by recursion exists, so that the model's definitions
mean what they say) follow from it.

| Proof module | Theorems (property of the runs) |
| --- | --- |
| `V2SessionProofs` | `TypeCorrect` (`TypeOK`), `ThreeTokens` (`ExpiredOnlyAfterThreeTokens`), `NotRestored` (`DeadTokenNotRestored`), `Contracted` (`KeepsContract`) |
| `V3SessionProofs` | `TypeCorrect`, `SaltGone` (`RefusedSaltIsGone`), `Contracted` (`KeepsContract`) |
| `FirmwareUploadProofs` | `TypeCorrect`, `Contracted` (`KeepsContract`, if `"v2" \notin EarlyOk`) |
| `ClientProofs`, commands | `TypeCorrect`, `Successful` (`SuccessIsTrue`), `StartedFirst` (`ModeAfterStart`), `Attended` (`LedAttended`) |
| `ClientProofs`, snapshots | `SnapTypeCorrect` (`SnapTypeOK`), `Adds` (`SharesAddUp`), `LogAgrees` (`LastSnapAgrees`), `ShowsLed` (`SnapShowsLed`) |
| `PoolCacheProofs` | `TypeCorrect`, `NotBehind` (`ReadsNotBehindSetPools`), `Aged` (`AgeBound`) |
| `PoolSetupProofs` | `TypeCorrect`, `WasTrue` (`SuccessWasTrue`), `Activated` (`PoolsAreActive`), `Configured` (`ConfiguredAgrees`), `ViewIsMerged` (`ViewMergesPools`) |
| `ConnectProofs` | `TypeCorrect`, `Shared` (`OneClient`), `OneOpen` (`NothingLeaks`), `FailureForgotten` (`FailureNotKept`) |
| `StreamReaderProofs` | `TypeCorrect`, `CutsDoNotShow` (`ChunksDoNotShow`), `Prompt` (`AnswersPromptly`), `ScannerAgreesWithGrammar` |

### V2SessionProofs

The assumptions are those of the module: `MaxTokens` is a natural number and the
kinds of calls are disjoint. None of the four properties is inductive. `IndInv`
adds to `TypeOK`, for every call:

- `Shape`: which messages can be under way in which phase, and that a call in
  phase "write" has a token;
- `Effect`: a request under way was not carried out yet, an answer tells whether
  it was, and a definite outcome leaves no request behind;
- `Budget`: the tokens a call was told are dead are as many as the attempts it has
  behind it, and finite. This is what gives three *different* tokens;
- `Fresh`: a token on its way to a call is new to everybody: it is not the stored
  token, no call has used it or was told that it is dead, and no two calls are
  granted the same. This is why a late answer to `get_token` cannot restore a
  dead token: what it carries has never been used.

`InitInv` and `NextInv` show that it is an invariant; the step lemma has one case
per action. `NotRestored` follows from `Fresh` before the step, and `Contracted`
maps `Start` to `Issue`, `DeviceApplies` to `Apply`, the ends of a call to `Report`
and everything else to stuttering.

### V3SessionProofs

`MaxSalt` is positive and no call is of both kinds. Besides `TypeOK`, `IndInv` has
`Shape` (what may be under way in which phase), `Effect` (the writes before the one
a call is at were carried out, those after it were not; a definite outcome leaves no
request behind) and `Doubted`: the miner's own salt was never refused, and if the
stored one was, then a call is about to be refused with it and to forget it
(`Refutes`), or ended without an answer it could read and nobody can tell. `Doubted` is why a late
answer with an old salt does no lasting harm. `Counts` is a technical part: it makes
`applied` a function, which `TypeOK` leaves open. `Contracted` maps the writes of a
call, `<<call, step>>`, to the writes of the contract, and the turn between the two
writes of `setPowerMode` to `Proceed`.

### FirmwareUploadProofs

What the client has not looked at yet is `Pipe`, its buffer followed by what is on
the connection. Every reader takes messages from the front of `Pipe`, and the miner
adds at its end; the lemmas `Suffix`, `Joined` and `Added` say so of the operators
on sequences, however the chunks are cut. `IndInv` says of every message in `Pipe`:

- `Before` the transmission at most one answer of the miner is under way;
- `After` it, every answer under way is the miner's last word: "ok" means flashed,
  "denied" and "fail" refused, and there is no second "ready";
- `Ready`: where the first success is "ready", no "ok" is under way before the
  transmission.

`Told` then makes the result true. `TypeCorrect` needs no assumption; `Contracted`
needs that a v2 miner gives no success before the image (section 4).

### ClientProofs: the commands

The commands are any, of any number of calls, on either generation; the names of the
modes are not those of other commands. `IndInv` adds to `TypeOK` and `LedAttended`:

- `Shape`, `Honest`, `Ordered`: which writes were sent in which phase, that answers
  are truthful, and that a second write follows a definite answer to the first;
- `Watched`: a write that lights the LED is waited for, and if nobody can tell what
  became of it the call ended with an exception. It is why a lit LED has a call, a
  timer or a write that attends to it, or is forsaken;
- `Confirms`: a success was confirmed write by write, unless it is `Unchecked`;
- `Undisturbed`: as long as nobody interfered with a call, nothing else is under way
  for its attribute, not even an abandoned write that could still arrive, and what
  the call has changed is still there.

### ClientProofs: the snapshots

`SnapInv` builds on the `IndInv` of the commands: `CommandsKeep` is all it needs of
the steps of a command. `Accounts` counts what is to come: what was reported plus
what the miner's counter would add now, or what the answer that a running snapshot
has would add (`News`) plus the shares since then (`Since`), is no more than what was
mined. This is inductive across resets and answers without pools, but only while at
most one snapshot runs. `Exact` is the same as an equation where nothing was lost.
`Sees` says that the answers of a snapshot show the LED as its undisturbed `setLED`
left it. `LogAgrees` needs no excuse for overlaps: v2 replaces the last snapshot in
every turn that touches the log.

### PoolCacheProofs

The times and the bound on the chunks are natural numbers and no call is both a
reader and a writer. `IndInv` adds to `TypeOK`:

- `Stored`: an entry was merged from the pools configured now, was not stored in
  the future, and was at most one `Timeout` per chunk old when it was stored
  (`Complete`). It is kept because
  `setPools` drops the entry in the turn that replaces `configuredPools`, and
  because the merge and the store are one turn as well;
- `Timed`: a socket that waits has been silent for no more than `Timeout`, and with
  every chunk that came its timer was armed at most one `Timeout` later than before,
  counted from the moment the miner looked at its pools;
- `Served`: what a reader found when it began is not in the future, the miner looked
  no earlier, and what the reader was given is neither behind nor too old.

Timeouts times chunks is a product of two variables; `OneMore` is all that the proof
needs of it.

### PoolSetupProofs

`NoPool` is not a pool (`NoPoolIsNone`) and lists have at most three. The lemma
`SameIsHeld` is about the data: whenever `checkSamePools` calls two padded lists the
same, the old one holds every requested pool, padding included. `IndInv` has
`Stages` (phases and messages), `Held` (`had` is true wherever an answer under way
says so), `Rebooted` (the miner mines with what it holds, or a call owes it a
reboot, `Owes`) and `Remembered`: while no two v3 updates crossed, at most one is
under way, and if `configuredPools` are not the miner's there is a `Reason`, an
update in flight or one that was reported as failed and arrived.

`ViewIsMerged` is about the data again: for any two lists, with any repetitions.
`Joins` is the invariant of the `map`: after i configured pools, an address has as
many used entries as there were pools of it, at most all of them, a pool is unknown
just if it came after all were used, and the view reports the used entries, each
once. `Appends` is that of the `concat`: after k entries of the miner, the view
reports those that are used and the first k. `PlaceAdded` counts one place more.

### ConnectProofs

`Memoized`: the memoized connection is the only one with an open client, has a
handler, and all its handlers were given the same. `Given`: what a handler was given
says which connection it awaits; one of an earlier connection was rejected. The
candidates are proved to be at most two for every configuration (`CandidatesAre`).

### StreamReaderProofs

The bounds are natural numbers (`BoundsAreNat`), and otherwise arbitrary: streams of
any length, any number of frames and any nesting. `IndInv` says of a reader that
waits on a stream which has a message at its front (`WellFormed`) that it is
`Collecting` (the message is not complete, and nothing was taken out of the buffer)
or `Downloading` (the message was complete, announced the size that is expected, and
the buffer is what came behind it). The lemmas below it are about the data:

- `PushIs`: `FrameDecoder.push` finds the frame at the front of a buffer whatever
  comes behind it, and finds none while it is incomplete;
- `ItemScan` and `StringScan`: over the words of the grammar the scanner comes back to
  the depth, and out of the string, it began with; `ObjectEnds` and
  `ScannerAgreesWithGrammar` follow: it reports the end of the object at the front of
  a text exactly when that byte has arrived;
- `LogEnds`, `FrameEnds`, `SaysIs`: what the stream as a whole calls for is
  determined by its first message, which ends at one place only;
- `DataAnswers`: the reader finds the message in the turn that delivers its last
  byte, and the archive in the turn that delivers its own.

### Only model-checked

What the violations show, and liveness under fairness, which is out of reach of the
prover: `Termination`, `LedReturns` and the other temporal properties that say that
something happens eventually. Every invariant that a run checks is also a theorem.

## 6. Not modelled

- Encryption, MD5 crypt and hexadecimal decoding: a message is either understood
  or "garbled".
- The parsing of firmware images, the normalisation of arguments, the formatting of
  telemetry and of most fields of a snapshot, with their rounding: pure functions
  with unit tests.
- `prePowerOn`, and the new password of `updateAdminPassword`, which the session
  would go on without (`whatsminer-api-v2-client.js:488`): no handler of the worker
  reaches them.
- Two operating systems' views of a socket: a reset and a failed connection are one
  event, "error".
- Time, except in `PoolCache`: elsewhere a timeout may happen at any point, and a
  timer may fire at any point after it was set, which allows more behaviours than
  the code has.
- The stop of a worker in the middle of a call. Nothing is persisted: what a restart
  finds is an initial state of the models (a miner in any state), and what it loses
  are the timers of `setLED`.

## 7. Plan

1. Composition of `PoolCache` and `PoolSetup` with the v3 session: their writes are
   writes of `WriteContract`, as those of `Commands` are already.
2. `V2Session` with `updateAdminPassword`, should a handler come to use it: tokens
   that belong to a password.
3. Algorithms against reference definitions: `readFirmware`,
   `decodeFirmwarePayload`'s size checks, `setPowerPct`.
4. The rest of the mock miner as a module of its own, to which the miners of the
   models are related.

The set of runs is kept small: a new module's run takes over the place of one whose
question it includes.
