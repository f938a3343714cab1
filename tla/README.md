# Verification of reflector.go: the wallet RPC Node and the blob stores

This directory holds TLA+ models of the code under `src/`, the TLC configurations
that check them, and TLAPS proofs about them.

## 1. Inventory

The repository snapshot has three source files:

| File | Lines | Contents |
|------|-------|----------|
| `src/store/http.go` | 1-160 | `HTTPStore`: a blob store backed by an upstream HTTP server, with a `sync.Pool` of read buffers |
| `src/store/http.go` | 161-439 | package `wallet`: the multiplexed JSON-RPC client `Node` (spec.md covers this part) |
| `src/unnamed/part_000` | 1-212 | `DiskStore`: a blob store on the local disk |
| `src/dht/bitmap_test.go` | 1-153 | tests of the DHT `Bitmap` (the type itself is not in the snapshot) |

### 1.1 The wallet Node (`http.go` 161-439)

**State.** `Node` holds `transport` (nil until `Connect`), `nextID` (an
`atomic.Uint32`), `grp` (a `stop.Group`: a closable channel plus a wait group),
`handlers` (id → the `chan response` of size 1 of the waiting request, behind
an RWMutex), `pushHandlers` (method → channels, behind an RWMutex) and `timeout`.

**Operations and goroutines.**
- `Connect(addrs, tls)` (224-275). If `transport != nil` it returns
  `ErrNodeConnected`. Otherwise it shuffles the addresses and dials them in turn.
  A timeout or "no such host" moves on to the next address. Any other error
  returns at once. When every address fails, it returns `ErrConnectFailed`.
  On success it starts three goroutines: teardown (waits for the stop signal,
  then calls `transport.Shutdown`), `handleErrors` and `listen`.
- `request(method, params, v)` (392-439), called concurrently by callers:
  1. `ID := nextID.Load()`;
  2. `nextID.Inc()`;
  3. `handlers[ID] = c` under the lock;
  4. `transport.Send`; on error it returns at once;
  5. select: stop signal (returns nil), the answer on `c`, or `time.After(timeout)`;
  6. `delete(handlers, ID)`;
  7. it returns the error or unmarshals the data.
- `listen` (305-380) runs as a goroutine. It checks the stop signal without
  blocking, then selects between the stop signal and the next frame. It
  decodes a frame with shape A, and with shape B when A fails. It classifies
  the frame as decode error, server error (message non-empty) or data. It
  fans the frame out to `pushHandlers[method]` with non-blocking sends. It
  looks up `handlers[msg.ID]` and sends `c <- r`, a blocking send.
- `handleErrors` (287-296) logs each transport error until the stop signal.
- `Shutdown` (277-285) is `grp.StopAndWait()`: it closes the channel, then
  waits for the three goroutines.
- `listenPush` (382-389) is commented out, so `pushHandlers` is never written.

**How they interact.** The request goroutines, `listen` and `Shutdown` share
`handlers`, the request channels and the stop channel. The server answers in
any order. It also sends pushes, which carry no id. The transport may deliver
frames that are not JSON.

**What is hard.** The goroutines interleave between the id's load and its
increment, and between registration, send, wait and delete. A timeout races a
late answer. Frames may carry no id. Shutdown must reach a goroutine blocked
in a send. The id counter wraps around.

**Properties that make it correct.** Each answer reaches exactly the request it
answers. Every handler entry is removed once its request returns. Shutdown
returns. No request hangs. A Node once shut down stays down.

### 1.2 DiskStore (`part_000`)

**State.** The files under `blobDir` (one per hash, plus `tmp/<hash>` while a
Put runs), the `initialized` flag and the `concurrentChecks` counter.

**Operations.** `Has` stats the file. `Get` reads the file and, while fewer
than 30 checks run, hashes it and deletes a blob whose hash differs. `Put`
writes `tmp/<hash>` through a directio writer, renames it into place, and only
then runs the deferred `Flush` and `Close`. `Delete` calls `Has`, then
removes. `list` walks the directory.

**What is hard.** Concurrent calls on one hash:
- a Get that reads between the rename and the flush;
- a Get that deletes after a Put has replaced the file;
- two Puts that share one tmp path;
- two Deletes;
- the check-then-add of the throttle.

### 1.3 HTTPStore (`http.go` 1-160)

**State.** It has none except a `sync.Pool` of 2 MB buffers. `Has` maps status
404 to false, 204 to true, and any other status to an error. `Get` maps 404 to
`ErrBlobNotFound`. On 200 it copies the body into a pooled buffer, then copies
that into a fresh blob, before the deferred `putBuffer` resets the buffer. A
`Via` header that fails to parse makes `Get` fail. `Put`, `PutSD` and `Delete`
return `ErrNotImplemented`.

**What is hard.** A pooled buffer must never back a blob that has been
returned.

### 1.4 Not in the snapshot

`TCPTransport`, `stop.Group` and `Bitmap` are not under `src/`. The transport
is modelled from spec.md §6 as the environment. `stop.Group` is modelled by
its contract: a closable channel plus a wait group.

## 2. Plan

1. **WalletNode** (done): the Node with the server and the transport as the
   environment.
2. **WalletNodeProofs** (done): type correctness, and routing by id for any
   number of callers (`IdsRouted`). **WalletRPCProofs**
   (done): the correlation invariant under one caller, and the refinement
   (§5). Left for later: NoLeak restricted to the delivery and timeout paths.
3. **DiskStore** (done, §3b): one action per step of Put, Get and Delete,
   with faults. A corrupt blob is an initial state rather than an
   environment action, because the store itself never corrupts a file.
   `ChecksAccurate` is proved (§5). Left for later: a bound on the checks in
   progress (limit plus racing Gets), which the comment at lines 86-87
   accepts.
4. **HTTPStore** (done, §3c): a pool of buffers and concurrent Gets.
   `BlobIntact` and `BufferExclusive` are checked and proved (§5).
5. **Abstract Node specification** (done, §3d): `WalletRPC`, with the
   refinement `RPC` proved in `WalletRPCProofs`. TLC checked `RPCSpec`
   on the one-caller instance while the proof was built. No run keeps it:
   without liveness, on that instance it adds nothing to `ResponseMatches`
   but the stop guard of `Abort`.
6. **Push subscriptions**, if `listenPush` is enabled: non-blocking fan-out
   to every subscriber.
7. **Bitmap** operators from the test vectors, over a small width, checked
   against a reference definition.

## 3. The WalletNode model

`WalletNode.tla` models lines 161-439 of `src/store/http.go`.
`MCWalletNode.tla` binds its constants for TLC.

**Constants.**
- `Callers`: caller goroutines. Each issues `Calls` requests one after the
  other, and a request is the pair `<<caller, k>>`.
- `IdWidth`: the width of `nextID` (32 in the code). The counter is computed
  `% 2^IdWidth`.
- `Addrs`.
- `ServerShapes`: the envelope shapes the server answers with.
- `MaxUnsolicited`: the number of pushes or non-JSON frames.
- `MaxTransportErrors`.
- `NoReq`: a model value for "no channel".

**State.**

| Variable | Code |
|----------|------|
| `transport` | `n.transport`: nil (`"none"`), `"up"`, or `"down"` once the teardown goroutine called `Shutdown` |
| `stopped` | `n.grp.Ch()` closed |
| `workers`, `lpc` | running teardown and error goroutines; where `listen` is |
| `ldst`, `lresp` | locals `c`, `r` of `listen` |
| `nextID`, `handlers` | `n.nextID`, `n.handlers` (the channel is named by its request) |
| `chan`, `pc`, `myId`, `resp` | each request's channel (a sequence of at most one response), position, `msg.ID`, and its local `r` |
| `srvPending`, `inbox` | requests at the server; frames on `transport.Responses()` |

A response carries, as a ghost field, the request whose frame the server
answered (`origin`). This lets the properties say which answer a request
really got.

**Actions.**
- `ConnectConnected` and `ConnectDial` model `Connect`. `DialResult` is the
  address loop over one permutation and one outcome per address.
- `ShutdownStop` and `ShutdownWait` model `StopAndWait`.
- `Teardown` and `HandleErrors` are the two goroutines.
- `ListenCheck`, `ListenSelect` and `ListenDeliver` are the three blocking
  points of `listen`. The push fan-out is a no-op because `pushHandlers` is
  empty.
- `RequestLoad` through `RequestDelete` are the steps of `request`.
- `ServerReply`, `ServerUnsolicited` and `TransportError` are the environment.

Decoding follows the code:
- `KindOf` is the classification of lines 350-357.
- `DecodedId` is zero for a frame that is not JSON.
- A push has no id field, so its id is zero.

**Fairness.** Weak fairness covers the teardown and error goroutines,
`listen`, the waiting `Shutdown`, and each started request. They are
goroutines that run when they can. `time.After` always fires, so a waiting
request is always enabled. Callers, the server and the transport get no
fairness: a caller may never call, and a server may never answer.

**Bounds.**
- `Addrs` has two addresses. This covers both orders and every mix of
  continuable and fatal outcomes.
- `IdWidth` is 1. Two requests wrap the counter back to 0, but with at
  most 2^IdWidth requests per caller no passing run uses a wrapped id
  again.
- `Calls` is 2 for one caller, or 1 each for two callers. This is the
  smallest instance with a late answer to an earlier request, and with a
  race between two requests.
- One push or garbage frame and one transport error.
- The sequential run takes about 10 s. With three calls at width 1 it
  reuses id 0, and TLC finds `ResponseMatches` violated: request 1 times
  out with its answer in flight, and request 3 returns that answer (hazard
  at line 402). No run keeps that instance, because at width 32 it needs
  2^32 requests while one answer is delayed.

## 3b. The DiskStore model

`DiskStore.tla` models `Put`, `Get` and `Delete` of one hash
(`src/unnamed/part_000`). `Puts`, `Gets` and `Deletes` are sets of
goroutines, each making one call.

**What the model keeps.**
- The file system is reduced to the two names the store uses: `path`
  (`d.path(hash)`) and `tmp` (`d.tmpPath(hash)`). Each names an inode or
  `NoFile`.
- `data[i]` is what inode `i` holds: `empty`, `partial` (the directio tail
  not yet flushed), `full` or `corrupt`.
- A Put that creates the tmp file creates the inode named after itself.
- `OldBlob` and `OldTmp` are a blob stored before the run (sound or corrupt)
  and a tmp file left by a lost Put.
- Every Put of the hash writes the same bytes, so the content class is all
  a reader can tell apart.

**Steps.**
- Put: `PutOpen` covers initOnce, MkdirAll, OpenFile and directio.New. It
  opens the existing tmp inode, since the flags are `O_WRONLY|O_CREATE`
  without `O_TRUNC` (the flag definition is outside `src/`). Then come
  `PutWrite` (io.Copy), `PutRename`, and `PutFlush`, the deferred Flush and
  Close, which run after Rename.
- Get: `GetRead` (initOnce and ReadFile), `GetLoad` and `GetAdd` (the
  throttle, two separate atomic steps), `GetCheck`, and then the Delete it
  calls (`GetHas`, `GetRemove`). Every return from the checking steps runs
  the deferred `Sub(1)` (`GetReturnChecked`).
- Delete: `DelHas`, then `DelRemove`.
- I/O errors: every checked syscall may return an I/O error. `Fault` counts
  them against `MaxFaults`. A Flush error is swallowed.

**Deadlock.** Every call returns, so the runs end when all goroutines are
done. The cfgs set `CHECK_DEADLOCK FALSE` for that reason. There is no
fairness and no liveness property.

**Races left out.** The unsynchronised `initialized` flag is a data race.
Both racers run the same idempotent MkdirAll calls, so no state the model
keeps differs; `InitOnce` just sets the flag.

## 3c. The HTTPStore model

`HTTPStore.tla` models `Get` (lines 61-107) and the buffer pool (lines
120-139). `Gets` is a set of goroutines, each calling `Get` once, and
`Bufs` the buffers `New` may allocate.

**What the model keeps.**
- `pool` is the set of pooled buffers and `allocated` the buffers `New`
  has made. `sync.Pool` may drop its contents, so `getBuffer` may always
  allocate instead of reusing (`GetBuffer`).
- The bytes of a body are abstracted to the name of its Get. `bufData[b]`
  is the sequence of bodies written into `b` since its last `Reset`. Bytes
  left over from an earlier Get show up as a longer sequence.
- `hblob[g]` is the blob `g` returned, and `hres[g]` its result.

**Steps.**
- `GetDo`: `NewRequest` and `Do`. A transport error returns before a buffer
  is taken. Otherwise `getBuffer`, then the `Via` parse and the status, as
  `AfterHeaders` gives them.
- `GetCopyIn`: `io.Copy` appends the body. A read error returns.
- `GetCopyOut`: the blob is a copy of the buffer's bytes.
- `GetPut`: the deferred `putBuffer` resets and pools the buffer. Every
  return after `getBuffer` goes through it.

`Has` changes no state: it maps a status to a result. `Put`, `PutSD` and
`Delete` return `ErrNotImplemented`. Every Get returns, so
`HTTPPool.cfg` sets `CHECK_DEADLOCK FALSE`. Three Gets and three buffers
let a buffer be reused twice, and let three Gets hold distinct buffers at
once.

## 3d. The abstract request contract and the refinement

`WalletRPC.tla` states what `request` promises, with the Node's internals
hidden. Each request is `idle`, `pending` or `done`. A caller's k-th request
is issued once its (k-1)-th returned (`Issue`). A pending request ends
exactly once, in one of three ways:
- `Answer`: with the server's answer to that very request, as data, a
  server error or a decode error;
- `Fail`: with a timeout or a send error;
- `Abort`: with the shutdown return, only once `Stop` has happened.

`WalletNode` maps onto it with `RPC == INSTANCE WalletRPC WITH ...`:
- `AbsPc` makes a request pending from its id `Load` until its `pc` is
  `done`.
- `AbsResult` exposes `resp`'s kind and `origin` when the request returns.
- `astopped` is `stopped`.

The timeout branch sets `resp` and then deletes the handler, so the
abstract `Fail` happens at `RequestDelete`. Every other detailed step is a
stutter or one abstract step. `RPCSpec == RPC!Spec` is what the theorem
`Refinement` proves. With two callers it fails like `ResponseMatches`,
because of the duplicate-id race.

## 4. Runs

| Run | Expect | What it shows |
|-----|--------|---------------|
| `WalletSequential.cfg` | pass | One caller, no unsolicited frames. `ResponseMatches`: each request gets the answer to itself, even when an earlier request timed out and its answer arrives late. `ShutdownCompletes`. `RequestsTerminate`. `TypeOK`. |
| `WalletConcurrent.cfg` | pass | Two callers racing on `nextID`, and one push or garbage frame. `IdRouted`: every answer a request holds, or has waiting in its channel, came in a frame carrying the request's own id. Misrouting is therefore confined to requests that share an id (the duplicate-id race) or to id 0 (pushes and garbage). |
| `WalletDuplicateId.cfg` | violation | `ResponseMatches`: two concurrent requests both `Load` id 0 before either `Inc`. One returns the other's answer. |
| `WalletUnsolicited.cfg` | violation | `ResponseMatches`: a push, or a non-JSON frame, decodes to id 0 and is delivered to the first request. |
| `WalletLeak.cfg` | violation | `NoLeak`: a failed `Send`, or a return on shutdown, leaves the channel in `n.handlers`. |
| `WalletShutdownHang.cfg` | violation | `ShutdownCompletes`: the listener blocks forever on `c <- r` into a full channel whose owner returned, so `Shutdown` never returns. |
| `WalletReconnect.cfg` | violation | `TerminatedFinal`: Shutdown runs on a Node that never connected, then Connect dials and brings a transport up. Spec §3 says terminated is final. |

| `DiskPuts.cfg` | pass | `PutsComplete`: two Puts of one hash share the tmp path in every order. Sometimes the second writes into the inode the first already renamed, and sometimes its Rename fails with ENOENT. When both return and one returned nil, the whole blob is at the path. |
| `DiskChecks.cfg` | pass | `ChecksAccurate` and `TypeOK`: a Put, two Gets racing past a limit of 1, a Delete and one I/O error anywhere. The counter always equals the number of checking Gets. |
| `DiskPutGet.cfg` | violation | `BlobStored`: Put renames its unflushed file into place, Get reads the short bytes, the deferred Flush completes the file, Put returns nil, and Get deletes the blob as broken. |
| `DiskDeleteRace.cfg` | violation | `DeleteFailsOnlyOnIO`: two Deletes both pass `Has`, and the second `os.Remove` returns ENOENT as an error. |
| `HTTPPool.cfg` | pass | `BlobIntact`, `BufferExclusive`: three Gets share the pool with every status, Via header and read error. Each blob is exactly its own body, and no buffer is held twice or pooled while held. |

The violation runs are findings about the code, listed in `PROJECT.json`. The
duplicate-id race and the blocking send are bugs. The zero-id routing
disagrees with spec.md §4.3, and the reconnection after Shutdown with §3.

Two more disagreements follow from a single condition each, so a unit test
reaches them and no run is kept for them:
- `listen` takes the error branch only when `len(msg.Error.Message) > 0`
  (line 353). An error object with an empty message (shape `errNoMsg`) is
  returned as data, though spec §4.3 builds a server error whenever the
  error field is non-empty.
- `defer dio.Flush()` (part_000 line 131) discards the error. With
  `MaxFaults = 1` and one Put in `DiskPuts.cfg`, TLC finds `PutsComplete`
  violated: Put returns nil with a short file at the path.

Each property of a passing run has a mutant: a plausible bug of the mapped
code, which TLC must catch.
- `RequestIncNoWrap` drops the uint32 wrap and breaks `TypeOK`.
- `RequestIncDropped` drops the `Inc` and breaks `ResponseMatches`.
- `ListenSelectNoStop` drops the stop case of the select and breaks
  `ShutdownCompletes`.
- `RequestWaitNoTimeout` drops the `time.After` case and breaks
  `RequestsTerminate`.
- `PutFlushDropped` leaves out the deferred Flush and breaks `PutsComplete`.
- `GetHasNoSub` makes the Has-false return skip `Sub(1)` and breaks
  `ChecksAccurate`.
- `GetRemoveDoubleSub` adds an explicit `Sub(1)` beside the deferred one.
  The counter goes negative and `TypeOK` breaks.
- `GetPutNoReset` pools the buffer without `Reset` and breaks `BlobIntact`.
- `GetCopyOutEarlyPut` returns the buffer to the pool before the deferred
  `putBuffer` also does, and breaks `BufferExclusive`.
- `RequestRegisterReloaded` registers the channel under `n.nextID` read
  again instead of `msg.ID`. It breaks `IdRouted`: the other caller's Inc
  has moved the counter, so an answer goes to a request of another id.

The DiskStore bounds (two goroutines of a kind, one fault, a throttle limit
of 1) are enough to reach every order of the two writers' four steps. They
also put one Get over the limit while the other checks, and place the fault
at every syscall.

## 5. Proofs

`WalletNodeProofs.tla` proves `TypeCorrect == Spec => []TypeOK` for every value
of the constants allowed by `ConstAssumption`:
- `InitTypeOK` shows that `Init` establishes `TypeOK`.
- `NextTypeOK` shows that every step preserves it, with one step per action.
  `ListenSelect` and `RequestWait` are split on whether a frame or a response
  is there. `ListenDeliver` is split on whether `ldst` names a request.
- Small lemmas state the types of `DecodedId`, `DialResult` and the response
  the listener builds.

`TypeOK` is inductive as it stands, so no strengthening is needed. The
assumption `2^IdWidth \in Nat \ {0}` is a fact of arithmetic that the backends
cannot derive for `^`. TLC checks it on every run.

The same module proves `IdsRouted == Spec => []IdRouted`. Like `TypeCorrect`,
it holds for every value of the constants: any number of callers and calls,
any id width, and any number of pushes. It is the part of correlation that
survives the duplicate-id race. An answer a request holds, or has waiting in
its channel, came in a frame carrying the request's own `msg.ID`. Id 0 is
the one exception: a push or a garbage frame routed there has no request.
So a request can only get another request's answer when the two loaded the
same id.

`IdRouted` is not inductive. A frame in the inbox could carry an id other
than the one its request loaded, and then land in that request's channel.
`RouteInv` follows the id along the path an answer takes:
- `HandlersRouted`: a handler entry under `i` belongs to a started request
  whose id is `i`.
- `PendingRouted`: a request at the server was sent with its own id.
- `InboxRouted`: a frame decodes to the id of the request it answers, or to
  0 if it answers none.
- `DeliverRouted`: the response `listen` is sending goes to the request of
  its id.
- `ChanRouted` and `RespRouted`: a channel slot, or a returned answer, is
  routed to its request.

Every item names a request that has loaded its id. `StartedStable` says a
started request never loads again, so those ids do not move. `KeepRouted`
discharges each part for a step that leaves its variables alone. Each action
that moves an answer has its own lemma: `RegisterRouted`, `SendRouted`,
`SelectRouted`, `DeliverStepRouted`, `ReplyRouted`, `UnsolicitedRouted`,
`WaitRouted` and `DeleteRouted`. TLC checked `RouteInv` before the proof:
- on `WalletConcurrent.cfg`;
- on one caller with three calls, 1-bit ids and one push, where the ids wrap;
- on two callers with two calls each.

`DiskStoreProofs.tla` proves `ChecksCorrect == Spec => [](TypeOK /\ ChecksAccurate)`.
It holds for any finite sets of goroutines, any limit and any fault bound
allowed by `DiskAssumption`.

`TypeOK` alone is not inductive: the deferred `Sub(1)` could take the counter
below zero. The inductive invariant is `IInv == TypeOK /\ ChecksAccurate`,
since the counter is the size of a set and so a natural number. The argument
rests on three lemmas:
- `CountStep`: when one Get changes label, the set of checking Gets gains
  or loses at most that Get, and its size moves by at most one. The proof
  uses `FS_AddElement` and `FS_RemoveElement`.
- `GetStepCount`: each Get step moves `checks` by exactly the same amount.
- `NextAccurate`: every step preserves `ChecksAccurate`.

`NextTypeOK` then shows each action keeps the types. It splits `PutWrite` on
whether the file handle names an inode, and the `InitOnce` actions on the
Boolean flag. TLC checks the same two invariants on `DiskChecks.cfg`.

`HTTPStoreProofs.tla` proves `PoolSafe == Spec => [](BlobIntact /\ BufferExclusive)`
for any finite sets of Gets and buffers allowed by `HTTPAssumption`. The two
properties are not inductive on their own: a step could pool a dirty
buffer, or hand out one that is still held. The inductive invariant adds
two conjuncts:
- `BuffersPlaced`: a Get holds a buffer exactly while it is between
  `getBuffer` and its `putBuffer`. A held buffer is allocated. Every pooled
  or unallocated buffer is empty, and an unallocated one is not pooled.
- `BuffersFilled`: a Get about to copy in sees an empty buffer, and one
  about to copy out sees exactly its own body.

TLC checked this `IInv` as an invariant before it was proved. There is one
lemma per action.

`WalletRPCProofs.tla` proves `Refinement`: under `Hyp`, `Spec => RPCSpec`.
`Hyp` has three parts, and each one is needed:
- One caller. Two callers race on `nextID` (`WalletDuplicateId.cfg`).
- `Calls <= 2^IdWidth`. With one caller, three calls and `IdWidth = 1`,
  TLC finds `ResponseMatches` violated. Request 1 times out with its answer still
  in flight, and request 3 takes id 0 again and returns that answer.
- No unsolicited frames. They decode to id 0 (`WalletUnsolicited.cfg`).

The argument is an inductive invariant `RInv`, proved by `RInvariant`.
TLC checked it on one caller with 1-bit ids and 2 calls, and with 2-bit ids
and 3 calls. Its parts:
- `Sequential`: a started request's earlier requests have returned.
- `Counter`: the k-th request took id k-1, and `nextID` is what the last
  Inc left.
- `Owned`: every id-carrying item belongs to the request of that id: a
  handler entry, a request at the server, a frame on the transport, the
  response `listen` is sending, and a channel slot.
- `Results`: at `del` or `done` a request holds its own answer, a timeout,
  a send error, or a shutdown return while stopped.

`Owned` is what makes the listener's lookup (`handlers[DecodedId(f)]`)
land on the frame's own request. The one-caller hypothesis enters only
through `OneCaller`: a request is named by its position. The refinement
step is then one lemma per kind of step:
- a step of no request is a stutter (`AbsUnchanged`);
- a step inside `request` is a stutter (`AbsStutter`);
- a return is `Answer`, `Fail` or `Abort` (`AbsReturn`);
- `RequestLoad` is `Issue`, and `ShutdownStop` is `Stop`.

One more result rests on `RInv`, under the same `Hyp`:
- `ResponsesCorrelated == Spec => []ResponseMatches`. `Results` covers only
  the requests whose select is over. It is completed by `Fresh`: a request
  before that point still holds `NoResp`, because `resp[r]` is written only
  by the Send error and by the select. `Fresh` is inductive on its own
  (`NextFresh`). TLC checked it together with `RInv` on the two
  instances above.

`DiskStoreProofs.tla` also proves `PutsStore`: under `PutsOnly`,
`Spec => []PutsComplete`. `PutsOnly` says only Puts run and no syscall
fails, which is the setting of `DiskPuts.cfg`, and both parts are needed:
- with a Get, the Get's Delete removes the blob (`DiskPutGet.cfg`);
- with one fault, a failed deferred Flush leaves a short file behind a nil
  return.

`PutsComplete` is not inductive, since it says nothing until every Put has
returned. `PutsInv` follows the inodes:
- `OpenedFd`: a Put past OpenFile owns an inode.
- `TmpOwned`: once some Put has opened it, the temporary path names an
  inode that a Put owns. So a Rename moves an owned inode over the blob
  path.
- `StoredOwned`: once a Put returned nil, the blob path names an owned
  inode.
- `DoneFull`: a Put that has returned flushed its inode whole. `Written`
  keeps a whole inode whole, so a later `io.Copy` into the same inode by
  the other Put does not shorten it.

There is one lemma per Put action. TLC checked `PutsInv` on three Puts
before the proof. The corollaries `DiskTypeCorrect` (`[]TypeOK`) and
`BuffersExclusive` (`[]BufferExclusive`) name, one theorem each, invariants
that `ChecksCorrect` and `PoolSafe` prove jointly.

**What stays with TLC.**
- The liveness properties (`ShutdownCompletes`, `RequestsTerminate`) need
  fairness and ENABLED, which the prover cannot handle here.
- `NoLeak` and `TerminatedFinal` are false of the code. Their violation
  runs are the evidence.
- `ResponseMatches` does not hold in general: it fails with two callers.
  It is proved under `Hyp`. Its weaker part, `IdRouted`, is proved without
  `Hyp`.

## 6. Not modelled

- Byte framing, TLS, JSON text and logging. The model abstracts them to
  frame shapes.
- The unmarshalling of a result into the caller's `v`, which can fail. It is
  local to one request.
- `getClient`, which is configuration.
- `list`, `Name` and `Shutdown` of the stores, which are pure I/O or no-ops.
- `Bitmap`, which is planned (§2).
- `HTTPStore.Has`, `Put`, `PutSD`, `Delete` and `Shutdown`, which change no
  state.
- The missing overall timeout of the `http.Client` (line 159). In the
  model every `Do` returns, because a stall is a step that never happens.
- DiskStore's `list`, hashes other than one, and the prefix subdirectories.
  Distinct hashes share no file, so their calls do not interact.
