# BroSettlement MPC Core in TLA+

A formal model of the parts of `brosettlement-mpc-core` that hold state and run
concurrently: the execution of one DKG or signing session, the pool and the
durable cache of DKG pre-parameters, the handling of concurrent DKG calls, the
signing sessions of several parties with their derivation contexts, and the
deduplication of inbound frames. TLC checks each module on small instances;
TLAPS proves the safety properties for every value of the constants. `PROJECT.json`
is the index: components, runs, the map from definitions to source lines, mutants,
findings, hazards and theorems.

## The system

| Component | State | Operations | Hard behaviour |
| --- | --- | --- | --- |
| Protocol execution (`internal/tssbnb/execution`) | event channel, errgroup and its context, `stopping`, result fields, `protocolDoneFlag`, last progress | `Run` with five workers: outbound pump, watchdog, receive worker, result worker, `party.Start` | result, worker failure, cancellation and stall in any order; joining everyone; two ready cases of a `select` |
| Receive loop (`internal/tssbnb/utils/recv_loop.go`) | inbound queue, error channel of capacity one | `RecvLoop` | full queue, error and closed channel ready together |
| Frame deduplication (`deduper.go`) | table of accepted frames with times | `ShouldAccept` | limit and lifetime |
| Pre-parameter pool (`internal/preparams/pool.go`) | channel of items, `inFlight`, `refillCh`, pause and close flags | `Start`, `Close`, `Acquire`, `TryAcquire`, `PauseRefill`, `ResumeRefill`, refill loop, generations | stale reads, lost wake-ups, close racing start |
| Pre-parameter cache (`internal/preparams/fs.go`, `pool.go`) | directory of files | publish, load, remove durably | crashes, failing calls, shared directories |
| Handles (`internal/preparams/handle.go`) | state, material, owner | `Consume`, `Discard` | concurrent use |
| DKG service (`internal/tss/service`) and runner (`internal/tssbnb/runner`) | active run keys, temporary shares | `RunDKGSession`, `RunDKGSessionWithPreParams`, export | duplicate runs, failure between protocol and storage |
| Signing service and runner | one table of signatures, under session and key ids | `RunSignSession`, `ExportECDSASignature` | concurrent calls under one name, frames of other attempts of a session |
| Derivation (`internal/tss/derivation`), validation, share codec | none | normalise, match, hash and derive; accept or refuse; encode | many spellings of one request, repeated normalisation, boundaries of indices |
| Flow (`internal/tssbnb/flow`), facade (`tss`) | none | build an execution, validate, delegate | - |
| Configuration, identifiers, logging and metrics | none that is read back | pure functions | - |

The facade validates a request and calls the service. The service registers the
run key, takes pre-parameters from a handle, the pool or an external source, and
calls the runner, which through `flow` builds a `ProtocolExecution` around
tss-lib's party and runs it over the caller's transport. The result comes back
through a callback into the runner's table, from where the service exports it and
gives it to the caller's `ShareWriter`. The pool fills itself in the background
and keeps its items in a cache directory. What makes each part correct:

- execution: `Run` is a completion barrier; a failure exposes nothing; a success
  has delivered everything; it always returns;
- pool: it is filled to its target and not beyond, pause and close mean what they say;
- cache: a set of pre-parameters is used once, and once published it is there until
  it is taken, whatever crashes;
- service: a handle is used once, a run key by one call at a time, a share is
  stored before success is reported; a share that could not be stored stays with the
  runner, until a retry under its run key replaces it;
- signing: nobody signs unless all signers have asked for the same thing; what a
  caller reads back is the signature of its own run; a call the facade
  accepts fails further down for a short list of reasons only; a key made by a DKG can be signed with;
- deduper: bounded, and a replay is refused within its window, whatever the clock does.

## Modules

**`Execution`** is one session. Goroutines have a control point in `pc` (`main`
for `Run`), channels are sequences with their capacity, and an action is what a
goroutine does between two points where another can interfere. Errors are
classes: `canceled` and `deadline` as the code tells them apart, `stalled`,
`failed` for all others. A message is its number; `Recipients[i]` is how many
`SendFrame` calls it needs; a frame is what validation makes of it. The party, the
transport and the caller are external; `Jobs` are the sessions explored, each a
protocol, a number of messages and a bound on the frames delivered: tss-lib runs `Start` and `Update` under a
lock, produces its messages before its result and, by `OutCapAssumption`, never
fills `outCh` (8n places against n + 2 messages in keygen and 2n + 6 in signing).
`EndlessReplays` lifts the bound on frames for those that are ignored.
`faults` records what the environment did wrong, and `late` the frames accepted
after the session's context ended, so that properties can speak of causes. The
pump's test of `ctx.Err()` and the `select` after it are one step; an end of the
context that falls in between is met by the next test, before any further frame.

**`Session`** is the abstract specification of `Run`: it produces and delivers,
and returns once; success exposes the result behind all frames, failure exposes
nothing, and nothing happens afterwards. `Execution!ImplementsSession` is the
refinement; for an EdDSA DKG delivery is not promised (see the findings) and no
result is exposed (the code keeps none).

**`ExecutionInv`** has the strengthened invariant of `Execution`, **`MCExecution`**
the instances for TLC; **`ExecutionProofs`** proves its types, **`ExecutionInvProofs`**
the rest.

**`PreParamsPool`** counts goroutines and callers at the same control point, for
items are interchangeable there. The loop's reads of `inFlight` and `len(ch)` are
separate steps, and so are the decrement of `inFlight` and the signal that follows.
The count of the wait group is derived from the control points. The configured
size and concurrency are any integers; `TargetSize` and `MaxConcurrency` are what
`NewPool` makes of them.

**`PreParamsCache`** follows single items. `dir` is the directory as calls see
it, `disk` what a machine crash leaves; `SyncDir` equates them and the kernel may
write single entries back at any time. Each pool has one generation and one caller
at a time in the middle of a sequence of file system calls: two of either touch
different items, and the interference that matters, two users of one entry, comes
from a second pool on the directory. `fate` records what has been promised of an item:
published once its generator has synced the directory, taken once a caller or a
dropping generator sets out to remove it.

**`DKGService`** has one process per API call. A call's steps are its critical
sections and its calls of collaborators; the protocol run is a step that ends with
a share or an error, as `Execution` justifies. Several services can exist, so
handles can be foreign. A handle is consumed before the run key is checked, so a
refused duplicate burns it: the repository's tests require that, and the model
does it. An EdDSA call consumes a handle but uses no material.
After a failed save the runner keeps the share, and a retry under the same run key
overwrites it (`bnb_runner.go:193`): `NoShareDropped` says that this is the only way
an unsaved share goes, and that it cannot happen before the failed call has returned.
`TestRunDKGSession_PersistFailureKeepsRunnerShare` looks at one call, without a retry.

**`Derivation`** is the derivation context as a value: a text is what it says and
how it is written (plain, padded, with capitals, not UTF-8), a path its root and its
components with their marks, leading zeros and blanks. Each Go function becomes an
operator for its success and one for its value. `Meaning` reads off the request as
written what it asks for, and is the reference for the hash. SHA-256 and BIP32 are
injective constructors. `Texts`, `Paths` and `Contexts` say what a caller may write:
any string and any path, not the samples of a run. (`Words` is every string; it lists
the literals of the code because the provers do not know that these are strings.)

**`KeyMaterial`** carries a key from DKG to signing: validation of the DKG request,
the parameters, the key id and the blob it is saved under, and what loading makes of
it. The calls have ended here (`DKGService` has their interleaving), so it has no
variables; `Store` is what they leave, next to blobs from elsewhere (`Imported`).
Session and key ids are case-sensitive: `Ids` spells them out and sets only the blanks
around them apart.

**`Signing`** composes them: several parties, several concurrent `RunSignSession`
calls on each party's service, one signature table per party and a network in which
a frame, once sent, may reach any run of its session late, twice, out of order or
never. One frame stands for all frames of a run; `PartyEnds` says what tss-lib needs
to end with a signature: one run of every other signer with the same key, number and
signers. The two writes of the table and the read-back are separate steps. **`MCSigning`** has the
requests. The stored key material carries the DKG session's name as its public key, so
`DKGKeysSign` can say which DKG a signature goes back to. `FacadeDecides` lists what
can be wrong with an accepted call, short of a failed run: no ECDSA share (every
accepted EdDSA request ends here), a child key the share does not
derive or `DerivedPublicKey` does not expect, a local party
that is not literally among the two or more parties of the request (blanks around
its id are enough), a frame of another party's call that says something else
or is of no signer. The hash of the context is never a reason. `SignInv` is the inductive
invariant.

**`Deduper`** is `ShouldAccept` with its prune, eviction and lookup in the code's
order. `time.Now().UnixNano()` is the wall clock, so a call reads any instant: the
same as the last one, a later or an earlier one. Stamps tie, ties of the eviction are
broken in any way, and the entry accepted last may be the oldest. What the table
promises is therefore said in terms of `rivals`, the entries no older that a frame has
had beside it, and of `outlived`, the frames some call has found to be past the TTL;
with a clock that only advances these are the frames accepted since, and real age.

Modules ending in `Proofs` hold the theorems of the module they extend.

## Runs

| Run | Module | Shows |
| --- | --- | --- |
| `ExecutionSafety` | `MCExecution` | types and capacities, completion barrier, no result behind a failure, complete delivery before success, failed sends never papered over, order of delivery, at most one late frame, refinement of `Session`, the strengthened invariant |
| `ExecutionLiveness` | `MCExecution` | termination, return on cancellation, the result reaches the caller |
| `PoolRefill` | `PreParamsPool` | pool invariant, no wasted generation, concurrency limit, pause, close, refill |
| `CacheCrash` | `MCPreParamsCache` | single use, erasure before use, complete entries (part of `CacheInv`), which are durable from publication until they are taken |
| `DKGServiceCalls` | `DKGService` | single use of material, exclusive run keys, own share stored, an unsaved share replaced by a later retry only, burned handles not reissued, key released |
| `DedupReplay` | `MCDeduper` | bounded table (part of `DedupInv`) and replay window under any clock |
| `SigningSessions` | `MCSigning` | commitments agree behind every signature, hashes agree exactly with the requests, what an accepted call may still be refused for, own signature read back, table entries belong to their names, DKG keys sign, the strengthened invariant (types are part of it) |
| `ExecutionNoise`, `ExecutionProvenance`, `ExecutionEdDSADrain`, `ExecutionRecvError`, `PoolStartRace` | | the findings below, each a counterexample |

*Bounds.* `ExecutionSafety`: outbound, for each protocol, two messages, one of them with two recipients, so that a
message can be cut between recipients, and a queued message can be overtaken; one
kind of fault at a time, which may strike more than once; inbound, two frames
against a queue and an event channel of capacity one, so both overflow, with a party
that has only its result to publish (the inbound path is the same for all
protocols). One tick is a stall. Liveness leaves out EdDSA, whose result worker does strictly less than
that of a signing, and has one broadcast. Pool: three places and two generations,
so that the concurrency limit and the target differ; one caller, one failure, one
pause. Cache: two pools, three items, one crash, one fault. Service: two calls
under one key and two handles over three services (writer and source, writer only,
source only). Dedup: four frames against three places, and six instants, in any
order, with a lifetime of three. Signing: two parties with two calls each; call `a1` is made with a base
request or any variation of it in one field, about ninety in all, the others join
its session, retry it with another profile, or run in a session named like the key.
Two calls on one service are enough for every collision of names, two parties for
every disagreement. `HardenedStart` is 3, so that indices below, at and above it
occur. Every safety property of these runs is also proved without bounds
(`CloseStopsWorkers` where Close does not overlap Start, as in `PoolRefill`).

*Deadlock* is checked for `Execution`, where the only resting state is that `Run`
has returned, and for `Signing`, where it is that all calls have. Pool, cache, service and deduper rest when their clients do, or when
the bounds are used up.

*Fairness.* `Execution!FairSpec`: the Go scheduler runs every goroutine that can
take a step; `SendFrame`, `Start` and `Update` return; `RecvFrame` returns once its
context has ended. Nothing makes the caller cancel, a peer send or the clock run:
the ticking clock is a hypothesis of `Termination` alone. `PreParamsPool!FairSpec`:
goroutines run, a generation ends (its context has a timeout), a caller with an item
returns. `DKGService!FairSpec`: a call goes on to its end, the protocol run because
`Execution` terminates.

*Mutants.* Next to an action stands the bug its property is there to find (a
dropped guard, a missing sync, a skipped join); `PROJECT.json` names them, and each
makes TLC report the property violated.

## Findings

1. *Provenance of errors* (`ExecutionProvenance`). A failed send cancels the group's
   context; the receive loop reports that cancellation as an event, and if `Run`
   handles it first, it returns `context.Canceled` instead of the send's error, although
   that is the group's first error and nothing else has failed, stalled or been canceled.
   `TestSignCompletionWaitsForOutboundDelivery` expects the send's error.
2. *EdDSA is not drained* (`ExecutionEdDSADrain`). The comment on `drainOutbound`
   promises that produced frames are sent before the result is published; the
   EdDSA result does not pass the pump.
3. *A receive error can vanish* (`ExecutionRecvError`). `RecvLoop` leaves its error
   and closes the queue; the worker's `select` may see only the closed queue.
4. *Close during Start* (`PoolStartRace`). Close finds no `cancel` to call, and Start
   then launches a loop nobody stops. `PoolRefill` assumes that Start has returned.
5. *Ignored frames count as progress* (`ExecutionNoise`). The repository's README
   promises failure after 120 seconds without protocol progress; `handleEvent` marks
   progress for every frame, before and after `handleIncoming` drops it, so a steady
   trickle of duplicates or of another session's frames keeps a dead session alive
   until its caller's deadline. `ExecutionLiveness` shows termination without them.

## Proofs

TLAPS proves, for all values of the constants that satisfy the named assumptions:

- `ExecutionProofs`: `TypeCorrect`. `Execution` has ten disjuncts and over thirty
  actions; lemmas per group of actions name what each group leaves alone
  (`PumpFrame`, `OutFrame`, `RunFrame`) and the type invariant follows by one step
  per action; `JobBounds` draws what is needed of a session from the assumptions.
- `ExecutionInvProofs`: `InvCorrect`, from it `CompletionBarrierCorrect`,
  `FailureHidesResultCorrect`, `SuccessIsCompleteCorrect`, `SendFailureFailsCorrect`,
  `DeliveryInOrderCorrect` and `AtMostOneLateFrameCorrect`. That success means
  delivered everything is not inductive by itself: it rests on a chain from the party
  to the caller. `QueueInv` and `DeliveredInv` say which frames are produced, queued,
  at the pump or delivered, `ResultInv` that a result is published behind all of them,
  `EventInv` that the event the caller acts on tells of that result, `DoneInv` and `JoinInv`
  that Run returns it only when everyone has been joined. `FaultInv` follows a failed
  send to the errgroup's first error, `LateInv` counts frames after the end of the
  context. One lemma per conjunct; `Latches` and `DoneStays` gather what no step undoes.
- `RunImplementsSession`, in the same module: `Spec => ImplementsSession`. The initial
  states map to initial states (`SessionInit`), and each step to a step of `Session`
  or a stutter (`SessionStep`; `Invisible` lists the actions the caller cannot see).
- `PreParamsPoolProofs`: `PoolInvariant`, from it `NoGenerationDiscarded`,
  `GenerationsBounded`, `PausedStartsNothing`, `CloseJoinsEverything`, for every configuration: `Sizes` is the
  lemma that clamping makes any two integers fit each other. The bounds alone are not inductive:
  the loop decides on copies. `CountInv` says that its copy of `inFlight` is never
  below the true value (only the loop increments it), and that once it has decided
  to spawn there is still room (items are only removed by callers, and a published
  item was counted in flight). `PauseInv` says that past its test of the flag the
  refill is not paused, because `PauseRefill` needs the mutex the loop holds.
  `CloseInv` says that Start is behind Close or will be refused, which is what fails
  when they overlap: `CloseJoinsEverything` assumes that they do not, and the run
  `PoolStartRace` shows that it must.
- `PreParamsCacheProofs`: `CacheInvariant`, from it `NeverReused`, `ErasedBeforeUse`,
  `EntriesComplete`, `PublishedSurvives`. Besides the properties, the invariant follows an item through
  its life: before it is written nobody has it, until it is linked only its
  generator, and after the unlink, whose success excludes any other unlink, only
  the caller. A crash only restores entries that no caller has been given. For
  `PublishedSurvives` it follows the `fate` of an item: what is about to be unlinked has
  been taken, and a linked item keeps its entry, and has no second generator, until
  the sync that publishes it, so that no crash, restart or removal meets an item
  that is published and not taken.
- `DKGServiceProofs`: `ServiceInvariant`, from it `SingleUse`, `KeysExclusive`,
  `PersistsOwnShare`, `SuccessStored`, `SharesKept`, `Burned`. `MaterialInv` says that a
  material is unclaimed, in one handle or with one call; `ShareInv` that between the
  end of the protocol and the cleanup the table holds the call's own share, which
  rests on the exclusive run key, and that a share still there after its call has
  ended is that of a failed call. `SharesKept` follows: who overwrites an entry holds
  its run key, so the call that left it there has failed and returned.
- `DeduperProofs`: `DedupInvariant`, from it `TableStaysBounded`, `ReplaysRefused`.
  `LossInv` says that the rivals of an entry include every other entry no older than
  it, and that an accepted frame missing from the table has outlived the TTL or had
  MaxEntries - 1 rivals. No order of the instants is assumed; the proof counts: an
  oldest of MaxEntries entries has all the others for rivals.

- `DerivationProofs`: `NormalizeOnce` (a context normalised at the facade and again in
  the runner is the same context) and `HashSays` (two contexts that pass validation
  have the same hash exactly if they mean the same). They rest on lemmas about
  trimming, lower case and the two path parsers: each is idempotent, and tells two texts
  apart exactly when they say different things. `DerivesRequested` and
  `DerivesUnlessUnexpected`: what is derived is the child the request means, and a
  context that passed the facade's validation derives it from any key material that
  loads, unless its `DerivedPublicKey` is another child.
- `SigningProofs`: `SignInvCorrect`, from it all six properties of `SigningSessions`.
  `InputInv` traces the input of an accepted call to one of the requests it may be made
  with, so that facts on requests become facts on calls; `HashMeansSameCorrect` is then
  `HashSays`. `HeardInv` says that frames heard come from accepted calls of the session
  with the listener's commitment; with injectivity it gives `CommitmentsAgreeCorrect`.
  `LoadInv` says who found a share that decodes, which `FacadeDecidesCorrect` and
  `DKGKeysSignCorrect` need. For the former, `PrepareRefuses` and `FrameRefuses` take each
  refusal below the facade back to its reason, and `WrongStays` shows that the reason
  still holds later: what is loaded does not change, and the network only grows.
  `EntriesBelongCorrect` adds to the invariant the writes of the
  table, and `WrittenInv`, that who has signed has left an entry, turns that into
  `OwnSignatureCorrect`: an entry under a name no one else uses is one's own.
  `DKGKeysSignCorrect` relates two views of the DKG calls, those that save under a key id
  and those the caller thinks of as making that key (`SavesAreKeyDKGs`), and takes the
  last of them, which is the one loaded.

The assumptions named in the modules say what the code or its callers guarantee:
`OutCapAssumption` the capacity of `outCh`, `HardenedStartAssumption` that there are
indices which are not hardened, `RequestsAssumption` and `KeyMaterialAssumption` that
requests have the types of their Go structs and that `Names` holds their ids,
`CallsAssumption` that each call is made on one service. None restricts what a
request says.

Only model-checked: the liveness properties `Termination`, `CancellationReturns`,
`ResultReachesCaller`, `CloseTerminates`, `Refilled` and `KeyReleased`, for fairness and
`ENABLED` are out of the prover's reach. The counterexamples of the findings are TLC's too.

## Not modelled

The parsing of environment variables, the service's options and `Snapshot`; the gob
encoding and the size limit of share blobs and the inspector, which reads a blob and
keeps nothing; identifiers, logging and metrics, which nothing reads back; the
example, a demonstration. SHA-256, BIP32 and the curve arithmetic are out of TLC's
reach and are injective constructors. tss-lib, errgroup, contexts, the transport, the
share store and the file system are external and appear by the way the code uses
them. Two hazards have no property: a full `outCh` (an assumption, see `Execution`),
and a Start that fails because another pool took an entry (safe, and nothing promises
otherwise).

## Plan

Done: all modules and proofs above; every safety property of a passing run is proved.
Next, in this order:

1. The codec: a blob that `Persists` has written always loads again, and the key that is
   loaded belongs to the DKG request that was saved.
2. Facts on `Session` that a caller relies on (it returns once, and nothing is delivered
   behind its return), proved of `Session` and inherited through the refinement.
3. The steps that liveness rests on, as far as they are safety: that the variant of
   `Termination` (frames, faults and ticks left) only decreases.
