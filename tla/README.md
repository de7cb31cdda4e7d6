# TLA+ models of SoHoLINK

SoHoLINK is an offline RADIUS AAA node written in Go. It authenticates users with
self-contained Ed25519-signed credentials. It authorises them with an OPA/Rego
policy, appends accounting events to daily JSONL files, and commits those files
hourly to SHA3-256 Merkle roots. This directory holds TLA+ models of its
concurrent and algorithmic parts, and the TLC configurations that check them.

## The system and how its parts interact

| Part | Source | State | Operations |
|---|---|---|---|
| RADIUS handler | `src/unnamed/part_005` (`Handler.HandleAuth`, `HandleAccounting`), `src/internal/radius/server.go` | none of its own; one goroutine per packet | parse the Access-Request, call the verifier, call the policy engine, write the reply, record an accounting event |
| Credential verifier | `src/internal/verifier/verifier_test.go` (`Verifier.Verify`, `CreateCredential*`) | none; reads and writes the store | parse, user lookup, username digest, DID/key, signature, clock window, nonce check, revocation check, nonce record |
| Identity store | `src/unnamed/part_003`, `src/internal/store/users.go`, `revocations.go` | SQLite tables `users`, `revocations`, `nonce_cache`, `node_info` | AddUser, RevokeUser, IsRevoked, CheckNonce, RecordNonce, PruneExpiredNonces |
| Application lifecycle | `src/internal/cli/users.go` (`App`) | the goroutines started by `Start` | nonce pruner ticker (5 min), log compressor ticker (24 h), Merkle batcher ticker, ordered Shutdown |
| Policy engine | `src/internal/policy/engine.go` | the prepared Rego query under an RWMutex | Evaluate, Reload |
| Accounting collector | `src/internal/accounting/collector.go` | the open daily file, its date and an event counter, under a mutex | Record (rotate, append, fsync every 100), Close, CompressOldLogs |
| Merkle batcher | `src/internal/merkle/batch.go`, `tree.go` | per-hour batch files | BuildBatch on today's file, NewTree, Proof, VerifyProof |
| Administration commands | `src/internal/cli/install.go` (`runInstall`), `src/internal/cli/users.go` (`runUsersAdd`, `runUsersRevoke`) | separate processes on the same data directory and SQLite file | install: node key, node_did, config, default.rego, each only if absent; users: existence check, key generation, INSERT, key file; revoked check, RevokeUser |
| DID codec | `src/internal/did` | the PEM key files | GenerateKeypair, SavePrivateKey, LoadPublicKey; EncodeDIDKey, DecodeDIDKey (multicodec prefix, base58btc) |
| Viewers and configuration | `src/internal/cli/{status,logs,policy,root}.go`, `src/internal/config` | none of their own | read and print; load the configuration |

A request flows handler → verifier → store → policy → handler → collector. The
pruner, the compressor and the batcher run on their own tickers and touch the
same store and files. CLI commands (`install`, `users add`, `users revoke`)
are other processes writing the same SQLite database and data directory.

What makes the code hard is the parts that run at once. Many handler goroutines
verify credentials concurrently against one store. Check-then-act sequences run
across separate SQL statements. The pruner deletes nonces while tokens that carry
them are still valid. Store queries and writes can fail. A crash can lose data
between an append and its fsync. Shutdown has a deadline.

## Modules

### `Verifier.tla` and `MCVerifier.tla`: the verification pipeline and the store

**State**

- `now` is the server clock, in units of the clock skew τ.
- `users` is the set of usernames with a row in `users`.
- `revocations` is the number of revocation rows per user.
- `nonceCache` maps each nonce to its `seen_at`, or to `NotSeen`.
- `issued` is the set of credentials minted so far.
- `pc`, `req` and `res` hold each handler goroutine's step, request and result.
- `accepted`, `allowCount`, `startAccepted`, `startRevoked` and
  `revokedBeforeCheck` are history variables for the properties.
  `revokedBeforeCheck` is set when the request arrives for a revoked user, and
  by a `RevokeUser` that commits while the handler is between its user lookup
  and its revocation query (`BeforeStep8`).

**Abstractions**

- A credential is a record `[ts, nonce, uname, signer]`. `signer` is the user
  whose key signed it, and `uname` is the username its digest was computed over.
- A user's DID and key are identified with the user. `DIDKeyRoundTrip` justifies this for the DIDs that `users add` writes, which are encoded from the key stored beside them. Verify's fallback to the stored key (taken when the DID does not decode) is never needed for such a row.
- The byte layout, base64url, SHA3 and Ed25519 are abstracted. A forged or
  garbled token is the model value `Malformed`.

**Actions**

- `CreateCredential(k, u)` models `CreateCredentialAtTime`. The timestamp ranges
  over `now .. now + Skew + 1`, so client clocks run ahead, including beyond the
  skew.
- `AddUser(u)` and `RevokeUser(u)` are the store methods, called from the CLI.
- `PruneExpiredNonces` is one tick of `startNoncePruner`. It deletes every nonce
  with `seen_at < now - MaxNonceAge`.
- `Tick` advances the clock.
- `Receive(p)` is an Access-Request reaching `HandleAuth` with non-empty
  attributes.

`Verify` is split at its store calls, because those are where another goroutine
or process can interleave:

- `Lookup(p)` models `GetUserByUsername`, then the digest, key, signature and
  clock checks. Those checks are in-memory, so `LookupVerdict` computes them in
  one step.
- `CheckNonce(p)` is the `SELECT COUNT` on `nonce_cache`. `NonceSeen(n)` is
  `Store.CheckNonce` itself.
- `CheckRevoked(p)` calls `IsRevoked(u)`, which is `Store.IsRevoked`.
- `RecordNonce(p)` is the `INSERT OR IGNORE` followed by `ALLOW`.
  `InsertOrIgnore(n, t)` is `Store.RecordNonce`: a row that already exists
  keeps its `seen_at`.
- `RecordNonceFails(p)` is the same step when the INSERT's error is discarded.
- `QueryFails(p)` is an `internal_error` from any of the three queries.
- `Deny(p, reason)` is each early return.

The two failure modes are switched by `StoreMayFail` and `RecordMayFail`.

**Timing assumption.** `Tick` is disabled while a handler is between `Receive`
and its result. One `Verify` call takes milliseconds, while the model's time unit
is the 300 s skew. Without this assumption TLC reports replays only possible when
a request stalls for ten minutes between two SQL statements.

**Constants of the checks**

- TTL = 2 and Skew = 1, so L = 2τ, which matches the shipped ratio 3600 s : 300 s
  only in shape. The properties depend on L > τ and on the relation between L, τ
  and the retention, not on the exact ratio.
- `MaxTime = 5` in the replay runs lets a token be accepted, pruned and replayed
  within its validity. `verifier_safety` uses `MaxTime = 3`. Its properties are
  about revocation and binding, not about the clock. Three ticks still reach
  tokens stamped ahead of the clock and revocations between steps. Expired
  tokens first appear at `MaxTime = 4`, and the replay runs cover them.
- There are two handlers, two users and two nonces. `verifier_replay` uses one
  nonce and three requests. Replay is a question about one token, and three
  requests let it be accepted, replayed and raced by two handlers. The
  refinement check under this bound finishes well inside the time limit.
- `MaxRequests = 2` is the number of requests per handler.
- `MaxRevocations = 1`.
- Symmetry over nonces and over usernames is sound because no definition names a
  particular one.

### `AuthService.tla`: what `Verify` promises, and the refinement

`AuthService` is the abstract specification of the verifier. It shares
`Verifier`'s environment (the clock, `AddUser`, `RevokeUser`, clients minting
tokens) and replaces the eight steps of `Verify` by two actions:

- `Receive(p)` takes a request, and records whether its user was revoked on
  arrival.
- `Decide(p)` returns, in one step, any result that `Justified(p, r)` allows in
  the current state. `ALLOW` needs a token valid for an existing user who was not
  revoked on arrival. Each refusal needs its reason to hold; `nonce_replay`
  needs the nonce to have been allowed before.

`Verifier.tla` ends with the refinement mapping:

- `pc` is `"busy"` for every step inside `Verify`.
- `allowed` is the set of accepted nonces.
- `arrivedRevoked` is the revocation state seen when the request arrived.
- The nonce cache is hidden.

The concrete step that sets `res` is the abstract `Decide`. Every other step
of `Verify` and the pruner stutter. `ImplementsAuthService` (`Abstract!Spec`)
is a PROPERTY of `verifier_replay`. At-most-once acceptance is deliberately not
part of `AuthService`, because the code does not provide it
(`verifier_concurrent_replay`).

### `Pipeline.tla` and `MCPipeline.tla`: startup, request handlers and shutdown

`Pipeline` models the process from `App.New` to its exit, with one handler
goroutine per request.

- **Startup.** `NewStore`, `NewEngine` (the policy directory's `load`: glob, no
  file, unreadable or uncompilable module) and `NewCollector` may each fail; the
  failure closes the store and the process exits. `AppStart` is `Radius.Start`,
  which returns nil at once. `Listen(k)` is a listener goroutine that binds or
  fails; a failure is only logged, and that port never serves.
- **HandleAuth.** `AuthArrives` (missing username or password), `Verify`,
  `Authorize` (`Evaluate` of a policy result), `Reply` (the Access-Accept or
  Access-Reject), then `Record`.
- **HandleAccounting.** `AcctArrives`, then `Record`, then the
  Accounting-Response whatever `Record` returned.
- **Shutdown.** `Signal` cancels and starts `authServer.Shutdown`.
  `AuthServerShutdown` and `AcctServerShutdown` return when their handlers are
  done or the shared 10 s context expires. `Expire` can happen at any step of the
  shutdown. Then come `CloseAccounting`, `FinalBatch`, `CloseStore` and `Exit`.
  After `Exit` no handler moves.

The verifier's outcome is free here, since `AuthService` says when each outcome
may happen. Once the store is closed, `Verify` only fails. `Evaluate` is the code's
conversion of the query result: an error, no result (`no_policy_result`),
`allow` counted only when it is the boolean true, and only the string entries
of `deny_reasons` kept. `PolicyResults` holds every shape of result that
conversion tells apart.

`Record` can append, fail to write, or run after `Close`. After `Close` the
write to the closed file fails on the same day. On a later day, `rotate` opens
a new file (that file's durability is checked by `Accounting`).

Bounds: three requests, each auth or accounting, under symmetry. Three are
enough for an auth and an accounting handler to be in flight during each
drain.

### `AdminCLI.tla` and `MCAdminCLI.tla`: `install`, `users add` and `users revoke`

Each CLI invocation is a process with a step counter `cpc`. The database is
`users`, `revocations` (rows per user's DID) and `nodeDID` (the `node_did` row
of `node_info`); SQLite commits are durable. The files are `keyFile` (one per
user), `nodeKey`, `config` and `policy`. Each holds its content, `NoKey` (no
file) or `Torn` (a content that does not parse). `dirtyKeys` and `dirtyNode`
are the files not yet written back by the kernel.

- `WriteFile` is what `os.WriteFile` leaves once its open succeeded: the
  content, or `Torn` when the write fails. `LoadsKey` is `LoadPublicKey`.
- `Start` is `openStore`, which can fail.
- `runUsersAdd` is made of four steps:
  - `AddCheck` (`GetUserByUsername`, modelled by `UserExists`, which `RevokeCheck` also uses);
  - `Generate`, which draws a fresh key pair;
  - `Insert`, which fails on the UNIQUE username if another process got there first;
  - `Save`, which fails to open, tears, or writes `keys/<name>.pem`.
- `runUsersRevoke` is `RevokeCheck` (not found or already revoked) and then
  `RevokeUser`. That step is the store's transaction: it either commits both the
  UPDATE and the INSERT, or neither.
- `runInstall` is made of six steps, each able to fail and end the command:
  - `StartInstall`: `config.Load` and `EnsureDirectories`;
  - `KeyCheck`: `os.Stat` of `node_key.pem`; an existing key is kept, and a
    torn one ends the command;
  - `KeyGen`: `GenerateKeypair` and `SavePrivateKey`;
  - `InitDB`: `NewStore`, `LoadPublicKey` of the file as it is now, and the
    upsert of `node_did` (then `node_name`, whose failure comes after);
  - `WriteConfig`: the config file, only when absent, with the DID loaded in
    `InitDB`; a failed write is only a warning;
  - `WritePolicy`: `default.rego`, only when absent.
- `WritebackKey` / `WritebackNode` are the kernel writing a file back;
  `Crash` is a power loss: every process dies, and each file not written back
  is lost, torn or kept (`AfterLoss`).

`install.go` refers to `configPath` (lines 117-206), which no file of the
repository declares, so the `cli` package does not build as given. The model
takes it to be the path of the configuration file.

Nothing holds between a check and the statement after it. Bounds: two
processes, two usernames, three invocations, three of four keys used and one
power loss, under symmetry of usernames and keys. Only `a1` runs `install`
(`Installers`): one operator installs the node, while the two processes race
on the user commands. Three invocations are enough for two `users add` of one
name to race beside an install, or for an install, a power loss and a second
install beside one user command. The run takes about 15 s; with four
invocations it takes two minutes and finds nothing more.

### `MerkleTree.tla`, `DIDKey.tla` and `MCAlgorithms.tla`: the pure algorithms

`NewTree` (`BuildFrom` over `NextLevel` with odd-node promotion, and its
`height`), `Tree.Proof` (`InclusionPath` / `PathSteps`) and `VerifyProof`
(`VerifyInclusion`, a `FoldLeft`) are pure operators. Hashes are free
constructors (`<<"leaf", d>>` and `<<"node", l, r>>`), which models collision
resistance and the domain-separation prefixes.

The reference definitions are written independently of the code:

- `ReferenceRoot` is the RFC 6962 tree hash, which splits at the largest power of
  two below n.

`DIDKey` is `EncodeDIDKey` and `DecodeDIDKey` of `internal/did/didkey.go`.
Both call the `mr-tron/base58` library, whose coding is modelled by what it
computes:

- `Base58Encode` writes each leading zero byte as `"1"` (digit 0). It writes the
  rest of the bytes, read as one big-endian number, in base 58.
- `Base58Decode` fails on a character outside the alphabet (the model value
  `Bad`) and is otherwise the inverse.
- The number is a digit sequence, converted one digit at a time (`MulAdd`,
  `Convert`), because the code's 34-byte values overflow TLC's integers.
- A DID string is its `did:key:z` prefix, which `strings.HasPrefix` tests, or
  `"other"`, plus a body of characters.
- `DecodeDIDKey` makes its checks in the code's order: the prefix, base58, too
  short, the `0xed 0x01` multicodec, and the key length.

`MCAlgorithms` builds one input per behaviour. Either it grows a leaf sequence
one line at a time, as the accounting file grows, or it draws a public key.

- It checks the tree operators on every sequence of up to 7 leaves over 3 data
  values (3280 sequences). That covers every shape of odd promotion up to three
  levels: n = 3, 5, 6 and 7.
- It checks the DID operators on every one-byte key (`PublicKeySize = 1`
  instead of 32; 256 keys). The body of such a key's DID has five base-58
  digits, enough for carries across digits, leading zeros and leading `"1"`s.
- The strings `DecodeDIDKey` is tried on are each key's DID edited once: one
  character replaced, inserted (a leading `"1"` among them) or removed, an
  empty body, another scheme, and the encodings of keys one byte short or long.
  Every error branch of `DecodeDIDKey` is reached.

### `Accounting.tla` and `MCAccounting.tla`: collector, batcher and shutdown on a crashing machine

**State**

- `file[d]` is the content of `<d>.jsonl` as the OS shows it. Each line is the
  number of the event that wrote it, so every line is distinct.
- `durable[d]` is the length of its prefix that is on disk.
- `currentDate`, `closed` and `eventCount` are the collector's fields.
- `batches[<<d, h>>]` is the content of `<d>T<h>.batch.json`: source day, root,
  leaf count and height.
- `bpc`, `bsrc` and `bleaves` hold the two BuildBatch callers. One is the ticker
  goroutine; the other is the synchronous final batch of `App.Shutdown`.
- `phase` is the application lifecycle: `running`, then the Shutdown steps
  `draining`, `closed` and `exiting`, or `stopped`.
- `day` and `hour` are the clock. `ticked` and `crossed` are scheduling
  bookkeeping.

**Collector actions**

- `Record` is `Collector.Record` as one step, because it holds `c.mu`
  throughout. It rotates through `RotateFlush`, then appends. It fsyncs when
  `eventCount % syncEvery = 0`.
- `Record` has two failure paths. rotate sets `currentDate` before its
  `OpenFile`; if the open fails, the collector keeps the closed handle and
  every Record that day fails. A failed `Write` (closed file, full disk)
  appends nothing and does not count. Both lose the event, which spec
  section 7 accepts. A failing fsync is not modelled: after one, the kernel
  may already have dropped the pages, and no bound on loss can hold.
- A write to a closed file on the same date fails and changes nothing, so it is
  a stutter step.
- `CloseCollector` is `Collector.Close`.
- `Restart` and `Init` are `NewCollector` / `openFile` with a zero `eventCount`.

**Batcher actions**

`BuildBatch` reads `time.Now` twice (batch.go:60 and :85) with the file read in
between, so it is split in two:

- `BatchRead` reads today's file, and is a no-op when the file is empty.
- `WriteBatch` builds `MerkleTree!NewTree` over the lines read and writes the
  record for the current hour, overwriting that hour's file.

**Lifecycle and environment actions**

- `Shutdown` cancels ctx, which stops the ticker loop but not a BuildBatch
  already running, and begins `Radius.Shutdown`.
- `FinalBatchRead` and `FinalBatchWrites` are the final BuildBatch.
- `Exit` is `Store.Close` and the return from main.
- `Writeback` is the kernel flushing part of a file.
- `Crash` is a power loss: every file is cut back to its durable prefix.

**Timing assumptions**

- The ticker fires once in every hour slot while the application runs, so
  `AdvanceHour` requires `ticked`.
- A shutdown is bounded by its 10 s deadline, so it crosses at most one hour
  boundary (`crossed`).
- `LateRecords` says whether a handler may still call `Record` after `Close`,
  that is, whether the deadline may expire with handlers running. The history
  variable `late` holds the events recorded after `Close`; the spec promises
  nothing of their durability (§5 flushes pending writes within the 10 s cap),
  so `CrashLossBounded` leaves them out.

**Bounds**

- The pass run uses two days of two hour slots, five events and `SyncEvery = 3`,
  so an fsync falls in the middle of a file and every file can have unsynced
  lines.
- The end-of-day violation run uses four events and `SyncEvery = 2`.
- Two slots per day are enough to have a tick before the last records of a day.
- Batch files are taken to survive a crash. A torn batch file is not modelled.

### `Compressor.tla` and `MCCompressor.tla`: the log compressor

This module models `CompressOldLogs` and `compressFile`, run by
`startLogCompressor` every 24 h.

**State**

For each day-file:

- `src` says whether `.jsonl` exists.
- `gz` is what `.jsonl.gz` holds: `none`, `partial` or `complete`.
- `gzSynced` says whether that content has been fsynced.

The loop's own state is the step `cpc`, the ReadDir snapshot `queue` and the
current file `cur`.

**Actions**

- `StartRun` is the ReadDir.
- `Scan` is one iteration. It skips a file that is not old or whose `.gz` exists
  (`os.Stat`). Otherwise it opens the source and creates the destination.
- `CopyDone` and `CopyFails` are the copy and `gz.Close`. On failure the
  destination is removed.
- `SyncDst` and `SyncFails` are the `dstFile.Sync`.
- `RemoveSrc` and `RemoveFails` are the `os.Remove` of the original.
- `FinishRun` ends the loop.
- A failed call returns from the whole run (`Abort`).
- `Crash` keeps a synced `.gz` intact. An unsynced one may be absent, partial or
  complete.

**What the day-files are**

The day-files here are old, so by `CrashLossBounded` in `Accounting` they are
entirely durable. That is why `.jsonl` files are not truncated by a crash in this
module. Unlinks are taken to be durable. A crash that undoes an unlink would
leave both files, which is harmless here.

**Bounds**

- Three files, two of them old.
- Two crashes and two failed calls, so any step can be interrupted twice.

## Runs

| Run | cfg | Expect | What it shows |
|---|---|---|---|
| `verifier_safety` | `MCVerifier.cfg` | pass | With concurrent handlers, failing queries and a failing nonce INSERT, `RevokedUserNeverAdmitted` holds: no ALLOW for a user revoked before the request arrived, or by a `RevokeUser` that commits between the user lookup and `IsRevoked` (spec §8, "revoked between steps 3 and 8 must still deny"). |
| `verifier_replay` | `MCVerifierReplay.cfg` | pass | With retention `TTL + 2*Skew` and a reliable store, `NoReplayAfterAcceptance` holds: a request that starts after a token was accepted never accepts it again, across any number of prunes. `ImplementsAuthService` holds: the step-by-step `Verify` implements the one-step `AuthService`. |
| `verifier_concurrent_replay` | `MCVerifierRace.cfg` | violation | `NonceAcceptedAtMostOnce` fails. Two handlers both pass `CheckNonce` before either runs `RecordNonce`, and both allow the same token. |
| `verifier_default_prune` | `MCVerifierDefaultPrune.cfg` | violation | With the pruner's shipped retention (`max_nonce_age`, one skew unit), a still-valid token is replayed after its nonce is pruned. |
| `pipeline_safety` | `MCPipeline.cfg` | pass | `OrderlyShutdownAuditsAll`: if every handler finishes before the deadline, then at exit every request that reached a listener was answered and has exactly one event, unless its write failed. This includes accounting requests accepted during the auth drain. |
| `admin_cli` | `MCAdminCLI.cfg` | pass | `KeyFileMatchesStore`: a key file that parses holds the key whose public half the users table stores, even when two `users add` of one name race or a power loss tears it. `RevokedIffRevocationRow`: `revoked_at` is set exactly when a revocation row exists. `NodeDIDIsNodeKey`: when `install` succeeds, `node_did` is the DID of the key in `node_key.pem`, also after a power loss made it generate a new key. |
| `accounting_durability` | `MCAccounting.cfg` | pass | `CrashLossBounded` holds with crashes, kernel writeback, rotation, restarts, and handlers that outlive the shutdown deadline and `Record` after `Close`. A crash never loses a line recorded before `Close` of a file that was rotated away from or closed, and loses fewer than `syncEvery` lines of the open one. |
| `accounting_end_of_day` | `MCAccountingEndOfDay.cfg` | violation | `EveryLineCommitted` fails under fair scheduling. A line written after the last tick of a day is never in any batch, because `BuildBatch` only reads today's file. |
| `compressor_safety` | `MCCompressor.cfg` | pass | `NoLogLost` holds whatever crashes and failed calls interrupt the loop. Every day-file keeps its `.jsonl` or a complete, durable `.gz`. |
| `compressor_crash_progress` | `MCCompressorCrash.cfg` | violation | `EveryOldLogCompressed` fails under a fair ticker after one crash. A partial `.gz` makes every later run skip that day. A failed fsync has the same effect. |
| `admin_double_revoke` | `MCAdminCLIDoubleRevoke.cfg` | violation | `AtMostOneRevocation` fails. Two `users revoke` of one user both pass the `revoked_at` check before either transaction commits, and `RevokeUser` does not refuse a revoked user, so two revocation rows are written. Spec 4.3 says `revoke_user` fails if the user is already revoked. |
| `algorithms` | `MCAlgorithms.cfg` | pass | `RootMatchesReference` and `InclusionSoundAndComplete` hold. A proof verifies for a leaf exactly when the data is that leaf's. `DIDKeyRoundTrip`: `DecodeDIDKey` gives back every key `EncodeDIDKey` wrote. `DIDKeyAcceptsOnlyCanonical`: every DID string it accepts is the canonical encoding of the key it returns. |

The violation runs are the findings in `PROJECT.json`.

- Code bugs against the spec's own requirements:
  - the non-atomic nonce check (§5);
  - the pruner's retention (§4.4);
- A divergence from the spec: a second revocation of a user succeeds (§4.3).
- Gaps in the spec:
  - no end-of-day seal;
  - the compressor's existence check (§8 asks that an existing `.gz` is not
    overwritten, so a partial one left by a crash stops §4.6's compression
    of that day for good).

Two more properties are stated in the modules and reported in
`PROJECT.json` as hazard notes. TLC finds each one violated, but no run keeps
it:

- **The spec's retention bound.** With retention `L + τ` (spec 4.4),
  `NoReplayAfterAcceptance` fails: a token stamped τ ahead is valid until
  `L + 2τ` after first use.
- **`BatchMatchesLog`** (`Accounting`). A batch commits a line that is only in
  the page cache, a crash loses it, and the recorded root no longer matches the
  day-file.

Three more outcomes of `install` are listed as hazards; no property of a run
is stated for the first:

- Two concurrent installs can both find no node key and both write one, the
  later replacing the earlier. `admin_cli` runs one installer, and the spec
  says nothing of concurrent installation.
- A node key not yet written back is lost in a power loss, and the next
  install makes a new one: the node's identity changes. `NodeDIDIsNodeKey`
  still holds, because the install upserts `node_did`. The config file keeps
  the old DID, since it is written only when absent; nothing reads it back.
- A torn node key file makes every later install stop at line 71.

Each property of a passing run has a mutant in `PROJECT.json`. The mutant is a
plausible bug of the mapped code, and TLC finds the property violated under that
run's cfg:

- nonce `seen_at` set to the token's time;
- the revocation decided from the status seen when the request arrived;
- the prune cutoff made inclusive;
- the expiry check without the skew (breaks the refinement);
- the accounting listener closed without waiting for its handlers;
- the key file written before the INSERT;
- `RevokeUser` without its transaction;
- `node_did` written with INSERT OR IGNORE instead of the upsert;
- odd nodes duplicated instead of promoted;
- the proof index not halved;
- the multicodec prefix stripped one byte short;
- leading `"1"`s not decoded to zero bytes;
- `rotate` without its Sync;
- the original removed before the `.gz` is synced.

With `RecordMayFail = TRUE`, `NoReplayAfterAcceptance` also fails: a token
whose nonce INSERT failed is accepted again. Spec 4.4 step 9 accepts this as a
design choice, so it is recorded as a hazard and not as a run.

## Fairness

The verifier, pipeline, CLI and algorithm runs check safety only (the CLI's action
property included). `pipeline_safety`, `admin_cli` and `admin_double_revoke` set
`CHECK_DEADLOCK FALSE`: the process really stops after `Exit`
or a failed startup, and a CLI run really stops after its last invocation.

`compressor_crash_progress` uses `Compressor!FairSpec`. It assumes weak fairness
of the ticker (`StartRun`) and of the loop's successful steps. Failures and
crashes are bounded and not assumed.

The liveness run `accounting_end_of_day` uses `FairSpec`, which assumes weak fairness of:

- `AdvanceHour`: the clock runs.
- `TickerFires` and `TickerWrites`: `time.Ticker` fires while the process runs,
  and a BuildBatch that has read its file goes on to write.
- `CloseCollector`, `FinalBatchRead`, `FinalBatchWrites` and `Exit`: once
  SIGTERM has arrived, `App.Shutdown` runs to the end on its own goroutine.

It assumes no fairness of requests, signals, crashes or restarts. They come from
outside.

The property is stated for the days before the last checked day. The last day
has no later tick inside the bound.

## Plan

Done: Verifier, MerkleTree, Accounting, Compressor, Pipeline (startup, handlers,
shutdown), the `AuthService` refinement, AdminCLI (`install` and the user
commands), and the rotate and write failures of `Collector.Record`. Still open:

1. A line that becomes visible in two parts. `BuildBatch` (batch.go:150) and
   `logs -f` (logs.go:145) both read a day-file while `Record` writes it, and a
   write that spans a page is visible half done. That needs a sub-line file
   content in `Accounting`.
2. Liveness of the pipeline. Every request that arrives before `Signal` is
   answered, under weak fairness of the handler steps.
3. Composition of `Pipeline` with `Accounting`, so that a late `Record` lands
   in the collector's file model.

The project has twelve runs. New modules add their properties to existing
cfgs where the configuration fits. A new run must replace a weaker one.

## Not modelled

- **Base58 beyond one-byte keys.** `DIDKey` is checked for one-byte keys, not
  32-byte keys: 256^32 inputs are out of reach. The conversion works one digit
  at a time, so a longer key exercises only more of the same carry steps.
- **`Engine.Reload`.** No code in the repository calls it: there is no SIGHUP
  handler and no CLI command. So the prepared query never changes after
  `NewEngine`, and the read-lock copy in `Evaluate` cannot be stale.
- **`status`, `logs`, `policy list`/`test` and `config.Load`.** They read
  and print and change no shared state. Their failures (`config.Load`,
  `EnsureDirectories`) are steps of the commands that call them. `logs -f`
  reads a day-file the collector writes; its two hazards, no switch at
  midnight and a dropped partial line, are listed in `PROJECT.json`.
- **The Rego language.** The plan models the default policy as a predicate.
- **RADIUS packet encoding and the shared secret.** These belong to the layeh
  library.
- **`GetNodeInfo` and the listing queries.** Only the status output and the
  tests read them. `SetNodeInfo` is a step of `install`.
