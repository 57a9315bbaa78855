# TLA+ models of goose and its example programs

goose translates a subset of Go into Coq (Gallina) programs in a shallow
embedding. The repository contains three kinds of code:

- the Coq AST and its pretty-printer (`src/internal/coq/coq.go`);
- the command-line driver (`src/unnamed/part_000`);
- the gold outputs of the translator, which are the Coq programs goose
  produces for its example Go programs:
  - the mail server (`src/internal/examples/mailserver/mailserver.gold.v`);
  - the small examples and the simpledb key-value store
    (`src/unnamed/part_001`, lines 1-330).

The gold programs are real concurrent, crash-prone programs. They run on
goose's `proc` semantics:
- `FS.*` calls are atomic file-system operations whose effects survive a crash.
- `Data.*` calls act on heap memory, locks and random numbers, and a crash
  loses all of them.
- `Loop` and `Continue` describe loops.

This project models those programs at the granularity of those atomic
operations. Every action is one step of one thread between two atomic calls.

## Inventory

| Component | Source | Module | Status |
|---|---|---|---|
| Mail server: Deliver, createTmp, writeTmp, Pickup, readMessage, Delete, Unlock, initLocks, Recover | mailserver.gold.v 1-151 | `Mailserver` | modelled |
| simpledb table: encoders and decoders, tableWriter, bufFile, RecoverTable, readTableIndex, TableRead, ReadValue | part_001 62-262 | `SimpleDBTable` (CreateTable in `SimpleDBDatabase`) | modelled |
| simpledb Database: NewDb, Read, Write, with the bufferL and tableL locks | part_001 264-330 | `SimpleDBDatabase`, abstract `KVStore` via `SimpleDBRefinement` | modelled |
| Small examples: DoSomeLocking and MakeLock; UseSlice, UseMap, UsePtr, literals | part_001 1-62 | `GooseLock`, `GooseLocking` | partly: the straight-line examples are not modelled |
| Coq AST and pretty-printer: buffer, addParens, indent, every Coq() and CoqDecl(), File.Write | coq.go | `CoqPrinter` | modelled (StructMethod and Binding.Unwrap, pure name helpers, left out) |
| Translator from Go | not under src/ (spec.md 4.x) | none | not modelled: no code here, and a sequential pure tree walk |
| CLI driver | part_000 | none | not modelled: flag parsing and file I/O |
| CI workflow | part_001 330-366 | none | not modelled: configuration |

How the parts interact:

- **Mail server.** Any number of Deliver threads run concurrently with
  Pickup/Delete/Unlock sessions, one session per user.
  - The sessions of a user are serialised by that user's lock.
  - Deliver takes no lock. It relies on `FS.create` and `FS.link` failing on an
    existing name, and it writes the message under the spool directory before
    linking it into the user's directory.
  - A crash ends every thread and drops every lock.
  - `Recover` runs before anything else, and again after each crash.
    - It rebuilds the locks (initLocks).
    - It then deletes every spool file.
- **simpledb.** A `tableWriter` buffers encoded entries and records each
  key's value offset in its index. `tableWriterClose` flushes the buffer to
  the file. After that, the file is read with `TableRead`.
  - On restart `RecoverTable` rebuilds the index by parsing the file in chunks
    of 4096 bytes (`readTableIndex`).
  - The Database puts a write buffer and a read buffer in front of the
    table. Read holds `bufferL` as a reader, and also `tableL` when it falls
    through to the table. Write holds `bufferL` as the writer.
- **Locking examples.** `DoSomeLocking l` takes `l` as the writer, gives it
  back, then takes it twice as a reader and gives both back. `MakeLock`
  calls it on a lock of its own. The function is exported, so callers may
  share one lock. The Database and these examples use the same goose lock
  (`GooseLock`).

## Modules

### `Mailserver` (with `MCMailserver`)

State, and the code it models:

| Variable | Code |
|---|---|
| `spool[id]` | the spool directory; an entry holds the inode of a Deliverer's tmp file or `NoFile` |
| `mbox[u][id]` | user u's directory, where `id` stands for the name `"msg" ++ id` |
| `data[i]` | the contents of the file with inode i; there is one inode per Deliverer, and FS.link shares it |
| `locks[u]` | the per-user `LockRef` taken with `Writer` |
| `dpc`, `duser`, `dmsg`, `did`, `tmpName`, `wbuf` | each Deliver thread's program counter, arguments, current random id, spool name and the remaining `buf` of writeTmp's loop |
| `spc`, `names`, `idx`, `rfile`, `pf`, `messages` | each user session's program counter, Pickup's `names`, its loop index `i`, the message being read, readMessage's `partialFile`, and the `messages` slice |
| `asked` | the picked messages the client has passed to Delete |
| `deleted` | the Deliverers whose message the client deleted with Delete |
| `rpc`, `spooled`, `ridx`, `crashes` | the Recover thread and its `spooled` list and loop index, and the number of crashes so far |

The actions are named after the code step they model; `map` in PROJECT.json
gives the lines of each one.
- **Deliver:**
  - `DeliverStart` draws `initID` for createTmp.
  - `createTmpOk` and `createTmpRetry` are the two outcomes of `FS.create`.
  - `writeTmpChunk` and `writeTmpLast` are the two branches of writeTmp's loop.
  - `writeTmpClose` closes the file and draws the link id.
  - `DeliverLinkOk` and `DeliverLinkRetry` are the two outcomes of `FS.link`.
  - `DeliverDeleteTmp` deletes the spool file.
- **Pickup:**
  - `PickupLock` acquires the user's lock.
  - `PickupList` runs `FS.list` and sets up the messages slice.
  - `readMessageOpen`, then `readMessageMore` and `readMessageDone` (the two
    branches of readMessage's loop), then `PickupReturn`.
- **Client:** `ClientDelete` and `Unlock` model a client that, holding the
  lock since Pickup returned, deletes some of the picked messages and then
  unlocks.
  - `Delete` is the code: `FS.delete userDir msgID`, by name alone. A name
    that is already gone is left gone.
  - The constant `DeleteOnce` says whether the client passes each picked
    message to Delete at most once. Without it the client may repeat a
    Delete, as a retry would. Neither gold.v nor spec.md says which.
- **Recovery:**
  - `Crash` ends every thread. Open files, locks and memory are lost; the
    directories and file data are kept.
  - `RecoverInit` is initLocks.
  - `RecoverDelete` and `RecoverDone` are the two branches of Recover's loop.

### `MailserverFiles` (with `MCMailserverFiles`)

This module extends `Mailserver` with one variable, `fds`. It holds the set of
open descriptors, each recorded as its holder plus the inode it refers to.
The module keeps every action of `Mailserver` unchanged:
- `createTmpOpen` is createTmpOk (`FS.create`) and adds a descriptor.
- `writeTmpRelease` is writeTmpClose (`FS.close`) and removes it.
- `readMessageOpenFile` is readMessageOpen (`FS.open`) and adds one.
- `CrashFiles` empties the set.
- All other steps (`KeepFiles`) leave it alone.

### `MailStore` and `MailserverRefinement`

`MailStore` states what the mail server promises, with no files, spool or
retries:
- Each user has a set of messages, each under an id that is unique in that
  mailbox.
- `Deliver` adds its message at once, and only once.
- A session has five steps:
  1. `Lock`;
  2. `Snapshot`, which takes a snapshot of the mailbox;
  3. `Return`, which hands the snapshot back;
  4. `Remove`, which deletes messages it returned;
  5. `Unlock`.
- `Crash` ends every session and keeps every message.

`MailserverRefinement` maps `Mailserver` onto this spec with
`INSTANCE MailStore WITH ...`:
- **mailbox.** The messages linked in the user's directory, each with its
  file's contents.
- **linked.** The Deliverers whose file is in a mailbox or was deleted from
  one.
- **phase.** Taken from Pickup's program counter.
- **snapshot (`picked`).** The messages read so far, plus the listed names
  not yet read.
- **result (`result`).** What Pickup returned.

Each abstract step happens at one concrete step:
- Deliver at `FS.link`;
- the snapshot at `FS.list`;
- Remove at `FS.delete`.

Every other concrete step is a stutter. `StoreSpec == Store!Spec` is checked
as a property. `MCMailserver` extends `MailserverRefinement`, so every mail
server run can check it.

### `SimpleDBTable` (with `MCSimpleDBTable`)

The module models one table's life.
- A writer is created by `newTableWriter` (with `newBuf`), which is `Init`.
- The puts of a bounded sequence `puts` are applied in order (`tablePut`,
  which includes tableWriterAppend and bufAppend).
- The writer is closed:
  - `tableWriterCloseFlush` flushes a non-empty buffer;
  - `tableWriterCloseEmpty` handles an empty one.
- The table is then read:
  - `TableReadMissing` and `TableReadFound` are TableRead, including
    ReadValue's one or two `readAt` calls.
- It is recovered any number of times up to `MaxRecoveries`:
  - `RecoverTable` is CloseTable on the open table, then RecoverTable: it
    opens the file and starts `readTableIndex`.
  - `readTableIndex`'s loop is one action per branch: `readTableIndexEntry`,
    `readTableIndexFill` and `readTableIndexEnd`.
  - `readTableIndexPanic` is DecodeEntry's out-of-range subslice.

Data is abstracted as follows:
- A byte is a number below `ByteBase`.
- An encoded uint64 is `EncLen` bytes, little-endian, modulo
  `ByteBase^EncLen`. These play the role of 8 bytes of 256 values.
- `ChunkSize` plays the role of 4096.

The encoders and decoders are operators over these sequences:
`uint64Put`, `LittleEndian`/`uint64Get`, `EncodeUInt64`, `EncodeSlice`,
`DecodeUInt64` and `DecodeEntry`.

### `SimpleDBDatabase` (with `MCSimpleDBDatabase`)

Each client is a thread that calls `Read` or `Write` on the one Database
that `NewDb` (`Init`) made. Its `pc` says which step of the call comes next.
- **Locks.** `bufferL` and `tableL` follow goose's `Data.lockAcquire`, as
  the module `GooseLock` states it:
  - a lock is a reader count plus a writer flag;
  - a reader waits while a writer holds the lock;
  - a writer waits while anyone holds it.
- **Read:** `ReadAcquire`, `ReadBuffers`, `ReadTableAcquire`, `ReadTable`.
  - `ReadBuffers` looks in wbuffer, then in rbuffer. On a hit it releases
    `bufferL` and returns.
  - `ReadTable` is TableRead, then both releases.
- **Write:** `WriteAcquire`, `WriteAlter`, `WriteRelease`.
  - Goose's map operations are not atomic, so `Data.mapAlter` spans
    `WriteAcquire` to `WriteAlter`.
  - A `mapGet` in that window is a data race. Its result is any entry
    (`mapGet`).
- **What never changes.** The program never writes rbuffer or the table,
  and never takes `tableL` as a writer: there is no compaction. So they keep
  what NewDb gave them. NewDb's table is `CreateTable`: an empty index over
  an empty file, so TableRead misses without reading the file.
- `res` is the last result of a client's Read.

### `KVStore` and `SimpleDBRefinement`

`KVStore` is what the Database promises: one map from keys to values.
- A client's call is `BeginRead` or `BeginWrite`.
- It takes effect at one atomic step, `Read` or `Write`.
- A Read returns what the map holds at that step.

`SimpleDBRefinement` maps the Database onto it:
- `KVContents` says the map holds, for each key, what Read finds first: the
  value in wbuffer, else in rbuffer, else in the table.
- `KVCall` says a client's call is pending while its `pc` is before the
  step that takes effect.
- A Read takes effect at `ReadBuffers`. On a miss its result is already
  decided there (the table's, `KVOut`), so `ReadTableAcquire` and
  `ReadTable` are stutters.
- A Write takes effect at `WriteAlter`. Taking and giving back `bufferL` are
  stutters.

`KVSpec == KV!Spec` is checked as a property, in the way the barrier and
lock refinements of the TLA+ examples translate a program counter.

### `GooseLock`, and `GooseLocking` (with `MCGooseLocking`)

`GooseLock` is goose's lock as the gold programs call it:
- `FreeLock` is `Data.newLock`;
- `CanAcquire` is the condition under which `Data.lockAcquire` returns;
- `lockAcquire` and `lockRelease` give the new state.

Nothing in it makes a reader wait for a writer that is only waiting.
`SimpleDBDatabase` and `GooseLocking` both extend it.

`GooseLocking` models DoSomeLocking and MakeLock (part_001 52-62).
- `DoSomeLocking` is the function's body as the sequence of its six lock
  calls. `step` says which call a caller makes next.
- Each caller makes one call:
  - `CallDoSomeLocking` runs DoSomeLocking on the `Shared` lock;
  - `MakeLock` makes the caller its own lock (`Data.newLock`) and runs
    DoSomeLocking on it.
- `Acquire` is one `Data.lockAcquire`, enabled when the lock can be
  granted. `Release` is one `Data.lockRelease`. After the last release the
  call returns.
- `holds` records how each caller holds its lock, for the properties.

### `CoqPrinter` (with `MCCoqPrinter`)

The pretty-printer is pure code: it turns an AST into text. The model keeps
its control exactly and abstracts the characters.

- **Text** is a sequence of tokens: words, `SP` (a blank), `NL` (a newline)
  and the delimiters `(`, `)`, `[`, `]`, `{|`, `|}` as tokens of their own.
  `Width` counts characters, so `len(prefix)` is exact.
- **AST nodes** are records with a kind field `k`, one per Go type of coq.go
  (`call`, `block`, `if`, `structlit`, `mapT`, ...).
- **Buffer.** `buffer` is the record `[lines, indentLevel]`. `AddLine`,
  `Indent`, `Block`, `AddComment` and `Build` are functions from buffer to
  buffer. `indent` splits on `NL`, prefixes every non-empty continuation line,
  and joins again.
- **Rendering.** Each `Coq()` method is an operator named after its type
  (`CallExprCoq`, `IfExprCoq`, `flowBranch`, `BlockExprCoq`, ...). `Coq(e)`
  dispatches on the kind, and each `CoqDecl()` is a `...CoqDecl` operator.
- **Panics.** A Go panic is the token `Panic`. It stands for `make` or
  `strings.Repeat` with a negative count, a binding of three names in
  `AddTo`, and an unknown operator in `BinaryExpr`. A panic aborts
  `File.Write`, so the File is then `<<Panic>>`.

State and actions:
- `decls` is `File.Decls`, and `out` is what `File.Write` prints for it.
- `AddDecl` is the environment, not code: the translator appends one
  declaration of the universe `Decls` to `File.Decls` and the File is
  printed. `MaxDecls` is the model's bound on a File's length.
- Each declaration is rendered once into the constant `Rendered`. That keeps
  TLC's per-state work to the properties.

The universe `MCDecls` holds:
- every expression kind over an identifier and a composite atom;
- each of these as a call argument, nested once more in if branches, tuples,
  bindings and struct literals;
- loops, map iterations and spawns whose body is a block;
- functions with and without argument types;
- structs, type declarations and constants, each with comments of one line,
  of two lines and with a blank line.

## Runs

| Run | Checks | Shows |
|---|---|---|
| `mail_core` | TypeOK, DeliveredDurable, DeliveredOnce, PickupWholeMessages, SpoolOnlyLive, DeliverTerminates | See below. |
| `mail_long` | DeliveredDurable, DeliveredOnce, SpoolOnlyLive, StoreSpec | Messages of two chunks, so writeTmp takes several appends and a crash can leave a partial spool file. Durability, uniqueness and spool cleanup still hold. The client deletes each picked message once (`DeleteOnce = TRUE`). StoreSpec checks, through the refinement mapping, that the server implements MailStore with two-chunk messages and the crash. Pickup never returns a message of a chunk or more (finding 1), so those messages stay unreturned, which the abstract spec allows. |
| `mail_fd_leak` | DescriptorsHeldByRunningCalls (violation) | One user, one Deliver, no crash: after Pickup reads the message, readMessage has returned with its file still open. |
| `mail_read_offset` | ReadTracksOffset (violation) | readMessage re-reads a full chunk from offset 0. |
| `table_recover_one_chunk` | TypeOK, RecoverOneChunk, TableReadReturnsLastPut | Every sequence of up to 3 puts over 2 keys, with empty, one-byte and 9-byte values. Bytes are base 4 and a chunk is 10 bytes. The table is closed, read, recovered up to twice and read again. Recovery panics or goes wrong on files longer than a chunk, but is exact on every file that fits in one (two 5-byte entries fill it exactly). So the stale refill is the only way recovery fails. A 9-byte value makes ReadValue take its second readAt. Reads of the written table, and of a table recovered from one chunk, return the last put. The panic is a final state, so deadlock is not checked. |
| `table_recover_chunks` | RecoverTableRebuildsIndex (violation) | A file longer than a chunk, with an entry across the chunk boundary, makes recovery panic. |
| `db_core` | TypeOK, KVSpec | Three clients run every interleaving of Reads and Writes over two keys and two values. The Database implements the atomic map `KVStore`: every call takes effect at one step between its call and its return. The mutant `ReadAcquireIgnoresWriter` lets a Read look at wbuffer while a Write's mapAlter is half done, and the refinement fails. No state deadlocks, and deadlock checking is on, so a lock left held would show. |
| `goose_locking` | TypeOK, WriterExcludesOthers | Three callers each make one call: DoSomeLocking on a shared lock, or MakeLock. The writer section of one call never overlaps another caller's hold on the lock. Once every caller has returned the program has ended, so deadlock is not checked. |
| `coq_core` | CallArgumentsReparse, DelimitersBalanced, NoTrailingWhitespace, RenderNeverPanics | Every File of two declarations of the universe prints so that every call reparses with its own arguments. Delimiters nest across the lines of ifs, loops and struct literals, no line ends in a blank, and no `Indent` leaves a negative level. |
| `coq_call_args` | CallArgumentsReparse (violation) | Call arguments that are blocks or comparisons of tuples are printed unparenthesised. |
| `coq_struct_zero` | StructDeclHasZeroValue (violation) | No struct module contains the zero-value instance. |
| `coq_string_newline` | StringLiteralsPreserved (violation) | A string literal holding a newline is changed by indentation. |

`mail_core` runs two users, two concurrent Deliverers colliding on two ids,
one crash anywhere, and a client that may repeat a Delete
(`DeleteOnce = FALSE`). It shows five things:
- Delivered mail survives crashes.
- Delivered mail is never linked twice.
- Pickup only sees complete messages.
- After recovery the spool holds only the files of running Delivers.
- Every Deliver ends, under fairness.

### Findings

1. **readMessage never advances its offset**
   (mailserver.gold.v:30, `partialFile.off := pf.(partialFile.off)`).
   - A message of 4096 bytes or more is read chunk 0 again and again, so
     Pickup never returns and keeps the user's lock.
   - The comment at line 45 says Pickup "reads all stored messages".
   - Run `mail_read_offset` shows it. TLC reaches a state where `pf.off` lags
     behind the data gathered and the data read is no prefix of the file.
2. **readTableIndex re-reads bytes it already holds** (part_001:141).
   - When no whole entry is left in `buf.next`, the loop reads at
     `buf.offset`, the start of the bytes `next` already holds, and appends
     them again.
   - An entry crossing a 4096-byte chunk therefore decodes from duplicated
     bytes.
   - DecodeEntry (line 119) does not check that `valueLen` bytes are present,
     and takes a subslice past the end, which panics in Go.
   - With other sizes the duplicated bytes decode to a wrong index without a
     panic. With ChunkSize 3, 5, 6 and 7 this was seen as a recovered index
     that differs from the writer's.
   - With an empty value, a 3-put file of 13 bytes and a 10-byte chunk,
     recovery ends without a panic, and TableRead then returns something
     other than the key's last put. `TableReadReturnsLastPut` therefore only
     speaks of the written table and of tables recovered from one chunk.
   - Run `table_recover_chunks` shows the panic.

3. **addParens misses composite arguments** (coq.go:61). The spec (line 43)
   says the printer parenthesises every composite call argument. addParens
   leaves an argument alone in two cases:
   - it contains no blank, like a block printed as `"x";;` and `"y"` on two
     lines;
   - it merely starts with `(` and ends with `)`, like `(x, x) = (x, x)`.

   Coq then reads several arguments. In Go, call arguments are expressions,
   so neither case comes from translated code today. `coq_core` therefore
   excludes statements as arguments, and `coq_call_args` adds them.
4. **No zero-value instance for structs** (coq.go:132). The comment on
   StructDecl.CoqDecl (lines 128-130) and the spec (lines 61 and 182) say
   that every struct module defines a HasGoZero instance. The code emits the
   record, `T`, `Ptr` and the fields section only.
5. **String literals are re-indented** (coq.go:419 and 77).
   StringLiteral.Coq prints the value raw between `str"` and `"`. The spec
   (line 81) says escapes are processed before translation, backquoted strings
   included, so a value can hold a newline. `indent` then adds the enclosing
   indentation after the newline, and the Coq literal no longer has the Go
   value.

6. **readMessage leaks its descriptor** (mailserver.gold.v:20).
   - readMessage opens the message file with `FS.open` and returns the
     contents (line 43) without `FS.close`.
   - writeTmp does close the file it creates (line 98).
   - Each message Pickup reads therefore leaves a descriptor open, and only
     a crash releases it.
   - Run `mail_fd_leak` shows it with one message and one Pickup.

## Bounds and why they are enough

**Mail server.**
- Two Deliverers and two ids give both collisions:
  - on the spool name (createTmp);
  - on the user's message name (Deliver's link loop).
- Two users let the user locks and directories be independent.
- One crash lets recovery meet a partial tmp file and a linked but still
  spooled message. A crash during a Recover that still has spool files to
  delete needs a second crash. `mail_long` with `MaxCrashes = 2` takes
  about 3 minutes without coverage, so it is not kept; that half of the
  spool-cleanup hazard is not checked.
- `ChunkSize = 2`, with messages of 1 and 2 bytes, covers both branches of
  writeTmp's loop (`mail_long`).
- The short-message core run keeps the state space under two minutes.
- `ReadBound` is a state constraint that stops readMessage's data from
  growing past 4 bytes. It is needed only because of finding 1.

**simpledb.**
- Every put sequence up to length 3 over two keys includes overwrites of a
  key and puts of an empty value.
- Encoded integers of 2 bytes in base 2 keep all arithmetic exact while
  still exercising the truncation of `uint64Put`.
- `table_recover_one_chunk` uses bytes of base 4, so that lengths up to 15
  can be encoded. A 9-byte value is then longer than a 10-byte chunk's room
  after its header, and that exercises ReadValue's second readAt. Empty and
  one-byte values give files that fit one chunk, exactly fill it, or cross
  it. Two recoveries recover a recovered table again.
- `table_recover_chunks` uses 2-byte integers of base 2 and a 6-byte chunk,
  so that an entry crosses a chunk boundary.
- The index ranges over every encodable key (`KeySpace`), as Go's map does.
  A key decoded from duplicated bytes can therefore be one that was never put.

**simpledb Database.**
- Three clients give:
  - two readers sharing `bufferL` while a writer waits;
  - a Read beside a Write.
- Two keys let a Write to one key run beside a Read of the other.
- Two values tell an older write from a newer one.
- Calls never end, but the state space is finite: maps, locks and program
  counters are all bounded (42,783 distinct states).
- Four clients (485,520 states) add no case that three do not have.
- Clients, keys and values are symmetric, because they are only compared
  for equality.

**Locking examples.**
- Three callers give two DoSomeLocking calls on the shared lock, which is
  the least that can interleave the writer and reader sections, beside a
  MakeLock caller. They also give a state where both shared callers run
  DoSomeLocking while the third makes its own lock.
- No symmetry is declared: the shared callers and the MakeLock caller are
  not interchangeable within a state.

**Pretty-printer.**
- Nesting depth two reaches every pair of an enclosing construct (call, if,
  tuple, binding, struct literal, loop, spawn) and an enclosed one, including
  the multi-line ones.
- A File holds two declarations (`MaxDecls = 2`): every ordered pair of the
  universe, so the properties also hold across the blank line that `Write`
  puts between two declarations and across the end of one multi-line
  declaration and the start of the next.

## Fairness

- Each Deliver step is weakly fair: a running thread keeps running.
- `createTmpOk` and `DeliverLinkOk` are strongly fair.
  - They model `Data.randomUint64`, which draws a fresh id on every retry.
  - A free id that is enabled again and again is eventually drawn.
  - A retry that reused the same id would never succeed. The mutant
    `DeliverLinkRetrySameId` shows that `DeliverTerminates` catches this.
- Recovery steps are weakly fair, and so are the read steps of a session.
- Crashes and the client's choices (Delete, Unlock) carry no fairness.
- `GooseLocking` checks safety only and assumes no fairness. Under goose's
  lock the second read lock of DoSomeLocking (line 56) is always granted,
  because a reader never waits for a writer that is only waiting, so a
  deadlock there cannot happen and there is no liveness question to ask.

## Not modelled, and why

- **Pretty-printer helpers.** `StructMethod` and `Binding.Unwrap` build
  names for the translator and change no printed text of their own.
- **Translator.** Its Go code (types, expressions, statements,
  declarations, diagnostics) is not in the repository's src/. What is there
  is its output: the gold programs, which are modelled as the programs they
  are (`Mailserver`, `SimpleDB*`, `GooseLocking`).
  - spec.md describes the translator as a deterministic, single-threaded
    tree walk with no suspension, failure recovery or retry (sections 4.6
    and 5).
  - A model written from that description would restate its mapping tables
    and its two-state outcome (emit the File, or report the diagnostics).
  - There would be no code to check such a model against, and no
    interleaving or fault for TLC to explore.
- **CLI.** I/O only.
- **Mail server details that no property is about:**
  - message contents beyond their length and chunk structure;
  - user numbers beyond two;
  - `NumUsers`.
- **simpledb compaction.** The Database never writes rbuffer or the table,
  and never takes `tableL` or `compactionL` as a writer, because the program
  has no compaction. The model therefore keeps them as NewDb made them.
- **UseSlice, UseMap, UsePtr, Empty, EmptyReturn and the literal
  functions.** Each runs straight-line on objects it allocates itself and
  shares with no thread, so a model would only restate each assignment.
- **A repeated Delete.** With `DeleteOnce = FALSE`, TLC finds `StoreSpec`
  violated in 21 steps: Pickup returns msg1, Delete msg1, a concurrent
  Deliver (which takes no lock, line 102) links its message as msg1, and a
  second Delete msg1 removes it unread. gold.v does not say whether a
  client may repeat a Delete, so this is kept as a hazard note, not a
  finding, and `mail_long` checks the refinement for a client that deletes
  each picked message once.
- **Writer starvation on `bufferL`.** Goose's lock gives a waiting writer no
  priority over new readers, while Go's `sync.RWMutex` does. No fairness
  assumption is made about this, so `db_core` checks safety and deadlock
  freedom only.

## Plan for later work

1. Liveness of sessions: every Pickup returns under the fairness of the read
   steps. It held on two users, two Delivers and no crash in about 30s. With
   the crash it needs the full `mail_core` model. It also holds there
   (about 470,000 states), but beside `DeliverTerminates` the run takes about
   4.5 minutes, too close to the time limit to keep.
