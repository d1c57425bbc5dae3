# Syntra Engine in TLA+

A formal model of the two programs of this repository. The engine is an HTTP service that
compresses files into *essences*, keeps one essence per content in a vault shared by its
tenants, counts what each tenant references and bills what each one sent. The bench is a set of
Python command line tools that measure codecs, plans and machines on a user's files, and tell
the user what compression would save.

Paths below are relative to the repository: `service.rs` is `src/service.rs`, a `.py` or `.c` file
is in `bench/`, and the documents are `README.md` and `docs/*.md` at its root.

## 1. The system

| Component | State | Operations | Meets the others through |
|---|---|---|---|
| Archive operations, `service.rs` | the local variables of each request | compress, replay of a key, load_object, load_container, delete_object, reconstruct, analyze | everything below; no lock and no transaction spans two of them |
| Vault, `vault.rs` | `<hash>.syntra` files, a sled index | path_for, contains, write_atomic, record, purge, reconciliation at start | file system calls in blocking tasks |
| References, `tenancy.rs` | table `object_grants` (tenant, object, refs) | find, add, release, count | single SQL statements, read-then-write |
| Ledger, `usage.rs` | table `usage_events`, unique on (tenant, key) | find_by_idempotency, record, totals, quote | single SQL statements |
| CPU gate, `service.rs`, `main.rs` | semaphore `sem_compress`, rayon pool, permits retained | acquire, drop, load balancer | every compress, restore and analyze |
| Directory ingestion, `watcher.rs`, `watch_registry.rs` | pending names, names in flight, cache of what was seen, table `watch_seen` | notify thread, scanner, drainer, ingest | calls compress as tenant `default` |
| Dictionaries, `dict_store.rs` | samples, active and all dictionaries, files, redis | observe, train, active_for, resolve, load | compress observes, restore resolves |
| Planner and codecs, `planner.rs`, `codec.rs`, `transform.rs`, `content.rs`, `probe.rs` | none (pure) | classify, candidates, measure, compress_best | called by compress in the pool |
| Container, `container.rs` | none (pure) | build, seal, parse, restore, verify_roundtrip | compress, restore |
| Block envelope v4, `blockfile.rs`, `stored.rs` | a writer's and a reader's position | write blocks, read and check the table | not reached by a request yet |
| Tenants and keys, `tenancy.rs`, `api/mod.rs`, `api/accounts.rs` | tables `tenants`, `api_keys`, flag `auth_required` | bootstrap, issue, revoke, authenticate | every request |
| Budget, `budget.rs` | two semaphores | take, release | compiled nowhere yet |
| Profile, `perfil_dataset.py` | the inventory, the tasks of a pool of readers, rows of the sample | varrer, amostrar, delta, estimar | reads trees that other programs change; takes its speeds from economia.py |
| Dedup bench, `dedup.py`, `cdc.c` | downloads, archives, tars and manifests of the versions; table of chunks | preparar, analisar | files that a later start finds |
| Codec bench, `syntrabench.py` | the file of measurements, a queue of cells, worker processes, a barrier | principal, complemento, dicionario, ecore, escala | its file is read by economia.py |
| Capacity, `capacidade_local.py` | shared memory, barrier, queue, files of frames | io-disco, sustentado | worker processes |
| Plans, `plano_bloco.py` | labelled blocks, models, plans | rotular, modelos, avaliar, kernel | |
| Economy, `economia.py` | none (pure) | aggregates, frontier, marginal value, recompression | reads the file of syntrabench.py |
| OpenZL bench, `openzl_bench.py` | the result file, rewritten after each item | preparar, razao, relatorio, transformadas | a later start goes on from the file |

What is hard in it:

* **Concurrency without transactions.** A compress is up to ten steps over three stores;
  so is a delete. Any two requests interleave at every one of them.
* **Failure between steps.** A kill, an SQL error or a client that leaves can come after
  any step. A handler's future is dropped at its `await`; its blocking task is not.
* **Retries.** A client retries with its `Idempotency-Key` while the first send may still
  run, or after it failed half-way.
* **Stale checks.** The grant is read in one await and the vault in another; a listing is
  read before the awaits that act on it; a stamp is taken before the bytes are read.
* **A gate that shrinks.** The load balancer takes permits away and gives them back.
* **Pools of processes.** The bench tools share queues, barriers and memory with workers that
  may die, raise or be late, and wait for them with a timeout or without one.
* **Files that outlive a run.** Measurements and prepared data are written in several steps and
  found by the next start, which may have other options.
* **Two ways to one number.** A price, a transform or a saving is worked out in two tools, or
  chosen by one formula and reported by another.

What makes each component correct: one essence per content, whole, kept while anyone
references it; bytes only for who sent them; one charge per key, after its archive, never
taken back; permits neither lost nor invented, and every waiter served; every quiet file of
the directory archived, and nothing skipped that is not. Of the bench: no measurement lost, counted
twice or taken from the wrong bytes, whatever workers and starts do; rounds that are measured
together; commands that end; plans judged on what they have not seen; prices that agree.

## 2. Modules

| Module | Models | State | Read with |
|---|---|---|---|
| `Archive` | what README.md:45-52, 428-432, 515 and 834 promise | contents that can be read back, references of each tenant, events charged | abstract specification |
| `ObjectStore` | compress, replay, load, delete over grants, ledger, vault, index | tables and files, one program counter and the locals of each request | `service.rs`, `tenancy.rs`, `usage.rs`, `vault.rs`, `main.rs` |
| `EngineGate` | `sem_compress`, the pool behind it, the load balancer | phase of each handler, free permits, queue, tasks, permits withdrawn | `service.rs`, `main.rs` |
| `Watcher` | notify, scanner, drainer, ingest, registry | directory, pending, tasks, scanner, cache, rows | `watcher.rs`, `watch_registry.rs` |
| `DictStore` | training, publication, files, redis, resolution | samples, active and all dictionaries, files of each node, redis | `dict_store.rs`, `service.rs`, `container.rs` |
| `ProfileScan` | the walk, the readers, the duplicate search | tree and bytes, inventory, tasks, open directories of each worker | `perfil_dataset.py` |
| `DedupBench` | preparation of the versions; chunking, rebuilding, savings | what the disk holds of each version, step of the preparation, table of chunks | `dedup.py`, `cdc.c` |
| `BenchCells` | phases, workers, barrier, the file of measurements | queue, messages, workers, barrier, main program, file | `syntrabench.py` |
| `CapacityIO` | io-disco and sustentado | parent, workers, shared memory, barrier, files of frames, clock | `capacidade_local.py` |
| `BlockPlan` | labels, oracle, trees, cross validation, plans, stopping criterion | none (operators) | `plano_bloco.py` |
| `BenchEconomy` | aggregates, frontier, marginal value, recompression; the estimate of a data set | none (operators) | `economia.py`, `perfil_dataset.py` |
| `BenchTransforms` | transforms and their emulation, cuts of training data, the kernel's tar | none (operators) | `plano_bloco.py`, `openzl_bench.py` |
| `BenchSampling` | families, pairs, the sample and its rows | none (operators) | `perfil_dataset.py` |
| `BenchOpenzl` | razao with its options, relatorio | none (operators) | `openzl_bench.py` |
| `BenchCalc` | the commands made of the five modules above, one step per stage; workers that answer in any order; a start that is cut short | stage, data, result | the commands of those tools |
| `MC*` | instances for TLC | small inputs, symmetry sets | |
| `*_proofs` | theorems | | |

### ObjectStore

A request is identified with the call it makes, chosen in `Init`. There is one action per
SQL statement, system call or sled operation, because nothing in the code spans two:

| Code | Actions |
|---|---|
| `usage::find_by_idempotency`, then `replay` | `FindEvent`; `LoadGrant`, `LoadBlob`, `BytesGrant`, `BytesBlob` |
| `compress_blocking`: essence found, or compressed and verified | `DedupHit`, `DedupMiss` |
| `write_atomic`: open and truncate, write, rename; `vault.record` | `CreateTmp`, `WriteTmp`, `Rename`, `Record` |
| `find_grant` for `had_grant`; `add_grant` | `HadGrant`; `AddFind`, `AddWrite` |
| `usage::record` | `FindCharge`, `Charge` |
| `release_grant`, `count_grants_for_object`, `vault.purge` | `RelFind`, `RelWrite`; `Count`; `Exists`, `Unlink`, `Unindex` |
| an error of a statement or write; a client that leaves; a kill and the next start | `StatementFails`; `Disconnect`; `Restart` |

`pc` names the step a request executes next; labels in `Waiting` are awaits, where a client
that leaves ends the request, those in `Blocking` belong to a blocking task, which then runs
to its end (`detached`). An essence file is a body, `empty`, `whole` or `mixed` (the bytes of
two writers overlaid), held by the request that created the file, so that a rename moves a
body that another request may still be writing. `MayParse` and `MayNotParse` say what
`container::parse` does with each. `linked` is a history variable, and so is `unrecorded`.

`StatementFails` is an error of any one step, `AfterError` what the request does then: most answer
500, but an error of `usage::record` is only logged, a file that cannot be read is not there, an
essence that dedup cannot read is compressed again, and `path.exists()`, which is false when it
cannot tell, makes `purge` take the row of the index and leave the file. Two errors leave an essence without a
row of the index and nothing in progress: that one, and an error of `vault.record`, which comes
after the rename. `unrecorded` names those contents until a record or the next start, whose reconciliation may skip
a file that it can neither read nor record.

Left out: requests with `persist = false`, which write none of this; which codec is chosen
and what the bytes are; names, sizes and times; the counters of the metrics; `sem_io`. The
checks of the existence and of the bytes in the dedup test are one step, since a file that
disappears in between is handled like one that was not there. A kill loses
what sled had not flushed; the file system keeps what it was given.

### EngineGate

A request stands for a client that sends one request after another: `Acquire`, `Spawn`,
`Start` (a worker of the pool; an idle one, or one that waits inside a parallel iterator and
takes other work), `Finish`, `Return`. `Cancel` is a client that leaves in any phase: its
place in the queue or its permit goes, its task stays. The queue of the semaphore is tokio's:
first come, first served, and a dropped permit goes to the head. `BalancerSees` and
`BalancerTakes` are the two steps of the balancer, with requests in between; the CPU reading
is any number. The three callers (compress, reconstruct, analyze) do the same with the gate.

### Watcher

A name leads to an inode, to a symbolic link or nowhere; an inode holds a content and a
stamp. The stamp (size and mtime) is the number of the edit that made it, so that two
versions never share one: docs/uso.md:262 states that limit. `Place`, `Rewrite`, `Link`,
`Unlink` are other programs. The scanner is `ScanStart`, one `ScanEntry` per name,
`ScanCollect`, `ForgetCache` and `ForgetRow` per name forgotten, `ScanQueue`; the task of a
name is `Begin`, `Settle`, `Open`, `Read`, `Send`, `Remove`, `Put` or `Forget`, `WriteRow`.
`Notify` puts any regular file in the queue at any time, or never: events come early, late
and repeated, the engine's own opening of a file being one, and a thread that could not start
sends none. `Send` is the whole of `service::compress`. A restart may change
`SYNTRA_WATCH_DELETE_SOURCE`. Left out: `seen.skipped`, which only mutes repeated warnings,
and the extensions that are never looked at.

### DictStore

Workers are threads of the pools of nodes that share a redis; each runs a compress or a restore
at a time. There is one action per lock, map operation, system call or redis command:

| Code | Actions |
|---|---|
| `active_for`, the compression, `seal` | `ActiveFor`, `Seal` |
| `observe`: the map, the buffer; `train`: the buffer taken, zstd | `Observe`, `Sample`; `Train` |
| `write_file`: exists, open and truncate, write, rename; any error | `Exists`, `Create`, `Write`, `Rename`; `RenameFails`, `DiskFault` |
| publication in `by_id`, `active`, redis | `Publish`, `Activate`, `RedisPut` |
| `resolve`: the maps, the file, `redis_get` and the file it leaves | `Resolve`, `ReadFile`, `RedisGet`, then `write_file` |
| a kill, and `load_from_disk` | `Restart` |

An id is the digest of the bytes, so that all who write one file write the same bytes; a file is
`whole`, `torn` or absent. `fd` follows the file a worker has open through the renames of
others, `cut` holds those whose file another has truncated under their hands. `sealed` and
`raced` are history variables. Which of the intact files is active after a restart is left open: the
code takes the newest, and modification times may be equal. One class of content is modelled,
since classes share nothing but the directory. Left out: the flag `redis_online`, which changes
how many commands one attempt takes; counters; the refusal to start with a directory that cannot be made.

### ProfileScan

`tree` maps the names of a directory to inodes, `node` holds the bytes and stamp of a file; `Edit`
is another program that rewrites a file or puts another inode (a hard link, a new file, a link, a
directory) under a name, at any moment. The walk lists a directory in one step and opens each
subdirectory in another, with its depth, device and permission checks; the pipeline then hands
tasks (sample, full hash) to workers that open the ancestors they have not cached, the file, and
read. `lidos` is a history variable. Left out: the classification of names and headers (a cascade of
tests on one file), and the progress file.

### DedupBench

A version is downloaded, checked against its sum, unpacked, packed as a tar, the tree removed and the
manifest written, in steps between which the tool may be killed, a download fail and the user start
it again. The analysis then varies with the source (tar, files) and the chunker: `Chunk` cuts, looks
the chunk up and keeps it or counts it, and `Reconstruir` rebuilds the second version.
`fastcdc_cortar` is `cdc.c` with its two masks as a predicate on the window (`Impressao`). A hash is
what was hashed. Left out: times, codecs on the chunks, the report.

### BenchCells

One action per step of the parent (`ComecarCelulas`, `Receber`, `Guardar`; `ComecarEscala`,
`AbrirSessao`, `ReceberMedida`, `FecharSessao`, `GuardarEscala`) and of a worker (`Tomar`, `Medir`,
`Falhar`; `Preparar`, `Entrar`, `Passar`, `MedirRodada`). The barrier is Python's: it fills, drains
before it fills again, and a timeout breaks it; a process that is killed inside stays counted. Each
run is any `--fase` with or without `--arquivos`, or a group of `--escala-cpus`, on the file the run
before left; `SemBlocos` is a session of more workers than the chosen files have blocks, which divides by zero.
`Interromper` kills the tool, `Matar` a worker. A measurement is whether the bytes came back; sizes and
times are left out, so the efficiency of scale, which is a quotient of times, is too.

The file does not keep all that was measured. With `--arquivos` a phase writes its whole tables from the
chosen files (864-865, 876, 888, 903), and the complement takes the main phase's failures off the list (877)
although it measures again only some of those cells. `CellsAccounted` says exactly this: a cell that leaves the
file is of an input the run was not for, or such a failure.

### CapacityIO

A test is `Lancar` by the parent, the barrier, the shared deadline, one message of each worker, and the
curve of samples; a worker compresses or decompresses one block in one step (sustentado either of the two, on
blocks in memory), after a look at the deadline every `Passo` blocks. Frames are headed by their length, written through a buffer that is
flushed in whole blocks and padded at the end, and read back in blocks (`LerBloco`, `Quadro`,
`DescomprimirBloco`). A block that does not compress has a frame that is longer than the block; a worker whose
part of the input is empty compresses one block all the same, as the code does. Time is a counter (`Tic`) to which
the deadline is compared. `Falhar` is an exception of a read or write, after which the worker ends without a
message; `Morrer` a kill anywhere. What the dead leave is in `travas`: the lock of the barrier;
`dormindo`, those killed asleep in `wait()`, whom the condition still counts, so that the next
`notify_all` waits for them for good and keeps the lock (`Acordar`); the lock of the queue, half a message,
and messages that the feeder thread of a worker has not written, which hold up its end.

### BlockPlan, BenchEconomy, BenchTransforms, BenchSampling, BenchOpenzl, BenchCalc

The tools that calculate. Their functions are operators, and `BenchCalc` runs each command as one
behaviour of one step per stage, on any input of a small set. Fractions are whole numbers over a common
multiple (`Esc`). What the sample's workers answer comes in any order and may stop half way
(`Chega`); `razao` may be cut short after any item and started again with other options
(`RazaoCai`, `cmd_razao`).

* plano_bloco.py: a training has the weights of `pesos_gap` or none. They hold the mean gap over all blocks,
  the held-out file's among them (838-841), and `Escolhida` takes the variant and the weights of the least
  regret on all files (1170-1185); so the plan of a file is not made without any knowledge of it, and
  `JudgedOnUnseen` says what the knowledge is. `Triar` is that choice, of one granularity where the code
  takes the mean of three.
* economia.py: every price is divided by what a core still yields at that load (`perda`, for the price of a
  class at its mean load; `cheio`, for a recompression, with every core in use). `perfil_dataset` has one parameter
  for it, and `ToolsAgree` names the curves for which the two agree.
* The kernel's tar: names are joined and sanitised as the code does (`seguro`), may coincide, and then the later
  group takes the place of the earlier; `limite` cuts the walk, and an `x` record may give the size.

Left out: the logistic models of plano_bloco.py (the trees stand for both), the bootstrap intervals,
`max_unidades`, and everything that is a measured time. Simpler than in the code: the efficiency is a step
table where economia.py interpolates between measured loads and solves for a count of cores, the costs of a
class are per codec, and the truncation of names in a tar header is that of the `L` and `x` records.

## 3. Runs

| Run | Bounds | Question |
|---|---|---|
| `store_races` | 3 requests (any operation), 2 tenants, 1 content, 1 key, all in progress | what holds for every interleaving: one charge per key, isolation, billing, the file behind a reference |
| `store_serial` | 3 requests (send, delete) one at a time, 2 contents, 1 kill, 1 fault | what holds without concurrency, whatever fails: the store implements `Archive` |
| `store_last_reference` | 2 in progress | violated: a delete purges what a send has just referenced |
| `gate` | 4 clients, 3 permits, 2 threads | permits, queue, balancer, and every waiter served |
| `watcher` | 1 name, 2 contents, 2 edits, 1 kill, 1 fault, both settings | what is skipped is archived, links are not followed, quiet files get archived |
| `dicts` | 2 workers that train on one node, 1 that restores on another, 2 dictionaries, 1 kill, 1 fault | what is sealed resolves, what resolves is genuine, full buffers get trained |
| `profile_scan` | 3 trees of up to 13 inodes, 2 workers, 1 cached directory, 1 edit | the inventory is exact, no task reads another inode, every copy is found and nothing else |
| `dedup_bench` | 3 starts, kills and failed downloads anywhere; pairs of versions of up to 3 files and 8 bytes, 3 chunkers | only whole archives are analysed, files come back from chunks, savings add up |
| `bench_cells` | 2 runs of any command, 2 files (both, or one by `--arquivos`), 2 workers, 1 round of each operation, 1 fault (inexact, exception, kill) | what leaves the file of measurements is what `CellsAccounted` names, rounds start together, the tool ends but for two waits |
| `bench_violations` | the same | violated: an empty list of violations beside an inexact measurement |
| `capacity_io` | 2 workers, 4 blocks of which one does not compress, 2 files, 3 commands, 1 death, 2 ticks | frames come back, workers stop for the deadline, a command ends but for three waits |
| `bench_calc` | every command of the calculating tools on the inputs of `MCBenchCalc` | plans against their oracle, policies against their value, one price against the other, transforms against inverses, families, samples, resumed results |

Why the bounds suffice. A race in the store needs two writers and one that observes; two
tenants tell "own" from "others'"; one content suffices for races, because requests on
different contents touch different rows, files and records, and meet only in a key, which
`store_serial` covers with two contents. Three requests give the sequence
send, failing send, retry and the sequence send, send, delete. One kill and one fault can
come at every step; a second one would meet a state that the first restart has already
brought back to an initial one but for the stores. In the gate, four clients and three
permits let the balancer withdraw two and leave two clients waiting behind one permit. In the
dictionaries, two workers of one node race for the buffer and for a file, a third fetches
through redis; two ids are a dictionary and its retraining; three bytes of samples are a buffer
that suffices exactly at its budget, and sizes of one and two reach it and miss it. In the
watcher, tasks of different names share only the gate of `IngestConcurrency`; two edits are a
version and its replacement.

In the bench, an edit of the tree at any moment tells what depends on a second look at a name; one file
that is a copy by size and sample but not by content tells sampling from comparing. Three starts are a
start that is cut, one that meets what it left, and one that meets what that left. Two runs of
`syntrabench.py` are the file of one command under any other; two workers and one round of compression
and one of decompression, which share the barrier, are the least for which a round can be overtaken (more rounds are
left to `RoundsStayTogether`); two files tell what a run with `--arquivos` was for from what
it was not. One fault already comes at every step. Four blocks, one with a frame of more than a
buffer, in buffers of one block make frames lie across buffers, files and the padding. In `capacity_io` a worker does at most one block a tick
(`MaxPorTic`), and a wait of the parent times out only in a run with a death: a preparation
that is merely slower than its 900 s is not covered. The inputs of
`MCBenchCalc` hold ties, empty and incompressible blocks, lengths that are no multiple of the width,
classes without a measurement, families with a copy in the middle, files whose pairs are over
the limit, curves of efficiency with a step, limits of the tar inside and behind it, and groups whose names coincide.

In the store's runs every request is answered once and the system stops then, so that
deadlock is not checked; nor is it for the bench, whose commands end after a bounded number of starts. It
is checked in `gate`, `watcher` and `dicts`.

### Fairness

`EngineGate!Fairness`: tokio polls a handler that can go on (weak fairness of `Spawn` and
`Return`), an idle worker of the pool takes the first task, and a task ends (codecs are
finite, and reconstruction is bounded). Nothing is asked of the balancer: a CPU may stay hot
for ever, and it is not assumed that clients leave.

`Watcher!Fairness`: the tickers tick (`Scan`, `Drain`), and tokio polls each task. The
semaphore of the drainer is first come first served, hence strong fairness of `Begin`.
Nothing is asked of notify, of other programs, or of crashes, which are bounded.

`BenchCells!FairSpec` and `CapacityIO!FairSpec`: the operating system runs every process that can go
on (weak fairness of each worker and of the parent), time goes by (`Tic`), and a wait with a timeout
ends when nothing comes (`TempoFila`, `TempoBarreira`, `Tempo`; in `BenchCells` as a step of the process that waits). Waits that the code makes without a
timeout have none here: `ToolEnds` names what nobody ends, a worker killed with a cell in its hands
(syntrabench.py:296) and one killed inside the barrier, which stays counted. `CommandEnds` names three waits of
capacidade_local.py: for the lock of the barrier, which one killed with it, or the `notify_all` that waits for one
killed asleep, keeps (661, 804, 914, 1196); for the rest of a message, by the parent; and, at the end of a worker,
for its own messages, which it cannot write while another has died with the lock of the queue, or nobody reads.

## 4. Where the code and the documents part

Shown by a run:

* `store_last_reference` (`service.rs:740-746`): count and purge are not one step. README.md:834.
* `bench_violations` (`syntrabench.py:867`): the principal phase writes the list of violations anew, on a file
  whose other tables stay. economia.py:918 then says there are none.

Found while modelling. Each is a property of its module that no run checks; to see the
counterexample, name it in the cfg of the run beside it:

* `PublishedWhole` in `store_races` (`service.rs:529-533`): one temporary name per content. docs/adr-001-envelope-v4-blocos.md:51.
* `KeyReferencesOnce` in `store_serial` (`service.rs:289`, `343`): the reference precedes the event that makes a
  retry safe. README.md:430.
* `WorkWithinPermits` in `gate` (`service.rs:258-275`, `548-563`): the permit leaves with the client.
  docs/seguranca.md:112.
* `SentOnce` in `watcher` (`watcher.rs:254-264`, `374`): the scanner forgets fresh records. README.md:742. A kill
  between compress and put has the same effect (`Restart`), which README.md:740 does not mention.
* `RemovedIsArchived` in `watcher` (`watcher.rs:512`): removal by name. README.md:730.
* `SealedIsReplicated` in `dicts` (`dict_store.rs:280`): a new dictionary is sent to redis once, and its error
  ignored; a restart activates it without sending it. README.md:711-712.

Smaller ones, which the models follow as the code has them:

* plano_bloco.py:294, 300, 305, 308: names of parts of the kernel's tree are joined with `_` and sanitised, so that two
  groups may coincide and the later overwrites the earlier. `BytesComeBack` says which files are there.
* plano_bloco.py:838-841, 1170-1185: the models judged on a file were weighted, and chosen, with it (`JudgedOnUnseen`).
* syntrabench.py:813-815 with 864-903: a run with `--arquivos` drops the other files' measurements from the tables it
  writes; 877: the complement drops failures of cells it does not measure (`CellsAccounted`).
* capacidade_local.py:914, 1196: a worker killed asleep in the barrier leaves the command waiting for good (`CommandEnds`).
* perfil_dataset.py:1352: where the minima exceed the limit, `alocar_pares` still gives every class a pair after
  rounding, and may exceed what line 2467 prints as an upper bound.
* perfil_dataset.py:2226: a slow codec without a measurement is None where a number is added.
* economia.py:352: where storage alone does not pay for the recompression, `n_max` is 0.0, also where the new
  codec is cheaper to read and reads would pay for it; `ToolsAgree` leaves that case out.
* openzl_bench.py:1474: the best ratio of a class may be that of a measurement that was not exact; a training that
  failed is in `treinos` and never tried again; the report stops with a KeyError (about line 1560) where
  `generico:serial` failed, which `ResultHoldsAll` states; `--retomar` is needed beside `--somente`, or
  the rest of the result goes.

Only in the texts: docs/uso.md:396 and docs/seguranca.md:122 say that the ingestion follows symbolic
links; `open_verified` refuses them, and `LinksNotFollowed` shows it.

## 5. Proofs

Proved by TLAPS for every value of the constants (any requests, tenants, contents, keys,
numbers of crashes and faults, permits, threads, nodes, dictionaries):

`ObjectStore_proofs`

* `TypeCorrect` by induction over the actions (`StepTypes`).
* `LedgerOnlyGrows`, `KeysAreChargedOnce`: only `Charge` writes the ledger (`Writers`), and its
  guard `KeyTaken` is the unique index.
* `TenantsAreIsolated`, `BillsFollowArchives`, `DedupIsOwn` from the inductive invariant
  `IInv == TypeOK /\ ControlOK /\ GrantsLinked /\ ReadersLinked /\ HadPrior`. The properties are not
  inductive alone: a request that stands between `require_grant` and the vault has read a row
  that may be gone by now. `ControlOK` ties the label of a request to its operation and to
  `linked`, `GrantsLinked` says that every row goes back to a send of its tenant, `ReadersLinked`
  that who passed `require_grant` had such a send, `HadPrior` that `had_grant` means an
  earlier one. Sends are never taken back (`SendsStay`), so a stale check stays true of
  the past although the row is gone.
* `ReferencesHaveFiles` from `FileInv`, which adds that whoever has passed the rename, or read the
  essence, has its file while no delete of the content has found a row.
* `AnsweredIsBilled` (crashes and races of retries, but `MaxFaults = 0`: `usage::record` logs an error of the
  database and the request answers all the same) from `BillInv`: a compress that answers, or that replays,
  has the event of its key or its own behind it, and only a compress has a key.

The rest of the module has the hypothesis `[]OnePerContent`: no two requests that are under way are about the same content. The
races of those that are lose references and essences (`store_races` shows which), so these theorems are about a store
whose callers do not race on one content; requests on different contents interleave freely.

* `ReferencesReadBack` (`GrantHasBlob`), `EssencesAreWhole` (`PublishedWhole`), `IndexIsComplete` (`IndexCoversVault`) from
  `SInv == FilesOwned /\ RefsHaveFile /\ AllProgress /\ Indexed`. Of the index this says that an essence has its row unless
  the index itself, or the look at the file, gave an error (`unrecorded`): the code does not promise more. A request writes the file, the row and the
  index one after the other, and the properties are false of a content between its steps; `AllProgress` says for each
  label what the one request on a content has done by then, and `FilesOwned` that nobody else has done anything.
* `LastReferenceGoesFirst` (`BlobLeavesWithLastReference`) is the action property from the same invariant.
* `StoreIsArchive` (`ImplementsArchive`): `StepRefines` takes every step to one step of `Archive`, or to none; the step that
  counts is the one that writes or removes the row, not the one that touches the file.
* `SerialNeverOverlaps`: with `MaxActive = 1` the hypothesis holds, so `SerialStoreKeepsPromise`
  states the refinement for `store_serial` with no hypothesis on the run.

`EngineGate_proofs`

* `TypeCorrect`, `PermitsAreConserved`, `WaitersAreQueued`, `BalancerAlwaysLeavesOne` from
  `IInv == TypeOK /\ PermitsConserved /\ WaitersQueued /\ BalancerLeavesOne /\ TakingIsSafe`.
  Conservation needs the queue (a dropped permit goes to a waiter, once), and the balancer's bound
  needs both: between its look and its take, permits can only move to holders.

`DictStore_proofs`

* `TypeCorrect`, with `WorkOK`: who trains, writes or resolves has a dictionary to do it for.
* `SealedDictionariesResolve` from `IInv == TypeInv /\ FilesOK /\ Kept`. A compress seals with a
  dictionary it took from `active` long before, so `Kept` follows a dictionary back: what is sealed was
  taken, what was taken was active, what was active was published, and what was published is on the
  disk (`Saved`). That it is there is `FilesOK`: a temporary file that only one worker has had open
  is whole when it is renamed. `raced` names the others, for which nothing is claimed.
* `ResolvedAreGenuine`: `accept` and `load_from_disk` stand before every entry of `by_id`, and a training
  publishes its own bytes.
* `ReadySamplesAreTrained`: the buffer is read and filled under one lock, and `train` empties it whole.

`Watcher_proofs`

* `TypeCorrect`, `SkippedAreArchived`, `LinksAreNotFollowed`, `RecordedAreArchived` from
  `IInv == TypeOK /\ StampsOK /\ RegistryOK /\ TasksOK /\ LinksNotFollowed`. A stamp may be
  recorded for an inode that was rewritten between its stamp and its reading. `StampsOK` says that stamps are
  given once and no later one is recorded anywhere, so that such a record never matches
  again; `TasksOK` follows a task's stamp and bytes from `Open` on: either the inode still has that
  stamp and these bytes, or a later one; `RegistryOK` says the same of the cache and the rows.

`DedupBench_proofs`

* `PreparedVersionsAreGenuine` (with `PreparationTypes`) from `StepsOK`: behind the comparison of the sums the
  archive is the expected one, and behind the closing of the tar the tar is whole, in the same start: of what an
  earlier start left, only names are known.
* `RebuildIsExact` from `AInv`, which is `ScanTypeOK`, once the scan has begun `Andamento /\ RefsOK /\ UnicosOK`, and at its end
  `bit_exato`: the scan, the
  digest and the marks agree on how far they are, the references of a file name unique chunks that, joined, are the file up to
  where the scan has come, and every unique chunk lies where the table says. Files, archives and references are
  folds, and the proof needs induction over them: from the well-founded minimum of the library comes a least natural, from it
  induction stated with a set instead of an operator (`SetInduction`, `PrefixInduction`), from that the existence of
  the function a fold chooses (`FoldIsDefined`), and so the step `FoldLeft(op, b, Append(s, x))`. `CountFits` bounds the
  number of cuts by the minimum size, which is what the allocation of the code rests on.
* `ChunksFindAll` (`ChunksFindWholeFiles`) from `BInv`, which is `AInv` and once the scan has begun `CortesOK /\ ContasOK /\
  SomasOK`. The sums of the code are folds over sets in an order that nothing fixes; `WeightIsSum` and `SumIsWeight` show each to be
  the cardinality of a set (`Weight`), where the order is gone. `CortesOK`: a file is cut in the same places every time
  it is read, since the cut depends on the bytes and on the place alone: the scan is at a place that belongs to every set
  closed under the cut, and of each file read so far there is such a set with every chunk known. So the second file with the same bytes
  finds every chunk (`KnownIsFound`). `ContasOK`: the hashes of unique chunks differ, and a chunk that is new in v2
  comes from no file that v1 has. `SomasOK`: what has been read of v2 is new or duplicate, and of the files met before no more than what was saved.

`BenchCells_proofs`

* `RoundsStayTogether` from `IInv == TypesOK /\ CpusOK /\ SessaoOK /\ BarreiraOK /\ RodadasOK`. A worker that
  is killed inside the barrier stays counted, so the count is not the number of those who wait. `BarreiraOK` keeps
  it between those who wait and those who wait or are dead; who completes the barrier then finds nobody alive
  outside of it (`LastFindsAll`, by counting). `RodadasOK` compares any two workers by the states they are
  in: one round apart at most, and which is ahead depends on whether the barrier drains. `CpusOK` says that
  the CPUs of the sessions left are there and each once, from the check of `fase_escala_cpus` or from
  `EscalaAssumption`: the table of the source names each CPU once, and no more workers are asked for than it names.

`CapacityIO_proofs`

* `WorkersStopForTheDeadline` from `CInv == Tipos /\ Lancados /\ BarreiraOK /\ ProntosOK /\ PrazoOK /\ CurvaOK /\ PassosOK /\ ContadoOK`.
  The deadline is put into the shared page by the parent, who then goes to the barrier as everybody does. `BarreiraOK` and
  `ProntosOK` say that until the parent arrives at most `n` of `n + 1` parties are counted, so that nobody
  passes it with the deadline of the last curve in the page (`PrazoOK`). A worker looks at the clock once in `Passo` blocks; `PassosOK` ties
  what it has read since the deadline to the remainder of its count.
* `FramesAreTheBlocks` (`FramesComeBack`) from `DInv`, which is `CInv /\ ModosOK /\ RespostasOK /\ PreparoOK /\ TesteOK /\ LeitoresOK`. A frame
  may lie across any border of a block or of a read, and a reader may begin a round while its writer of another file is long
  gone. `Gravado` says where in a file its frames end, as the existence of such places; a worker of the preparation has in its file
  and its buffer, together, exactly the frames of its blocks so far (`Escrevendo`), and since its cap is larger than all
  it is given (`CapPreparo`), nothing is written again from the start. `RespostasOK` counts: at the end of the preparation all have
  answered, no file is missing (`SaveKeeps`), and nobody writes one again. A reader is behind some number of whole frames, holds the bytes
  from there to where it has read (`Lugar`), and its count is that of the rounds, the files and the frames behind it (`Ordem`, `Posto`). So what
  it takes next is the next block (`FrameTaken`), and zeros or the end of the file mean that all frames have been taken
  (`FileDone`). The sizes of frames are positive and at most `2 * B`: a block that does not compress exceeds the buffer. A worker of the
  preparation without a part of the input compresses one block (`Fundo`), so every file has a frame. Of the numbers of workers
  only `NTeste <= NPrep` is assumed, the code having 16 files and tests of 8 or 16 workers, so that every reader has a file.

`ProfileScan_proofs`

* `TypeCorrect` and `RedundantAreCopies` (`RedundantIsCopy`) from `IInv == TypeOK /\ DatasOK /\ RegistrosOK /\ ParadoOK /\ LeiturasOK /\ HashesOK /\
  GruposOK`. The profile reads a file several times while other programs change it, and what makes two hashes of different
  moments comparable is the stamp. `DatasOK`: no stamp is later than the last change, so a change gives one that
  nobody has recorded. `RegistrosOK` and `HashesOK`: a file that still has the stamp of its record still has its recorded size, and a
  whole hash of it is that of its bytes, a sample counting as whole only where it covers the recorded size. `LeiturasOK`: who is reading has
  opened the inode of the record, whatever directories his cache holds open. `GruposOK`: the files of a
  group have one hash, the groups are apart, and nobody reads a file of a group again.
  `ParadoOK`: nobody reads during the walk or at the end. The listing of a directory is a fold, with the
  induction lemmas of `DedupBench_proofs`.
* `ScanIsExact` (`ScanExact`) adds `WalkOK`, about a tree nobody has changed. `Percurso` says that there is a map `D`
  from the numbers the walk gave its directories to the directories themselves, one to one, and `P` to their depths, and that every entry of
  those is still to be opened (`L`) or has had its due (`Feito`): the inode of a file is recorded, unless the walk was truncated,
  and a directory that can be entered has a number. No entry is ignored twice, or ignored and recorded. `PilhaOK` and `Pendentes` say
  that what is still to be opened is what the stack of open directories holds, so nothing is at the end, and the directories of `D` are those of
  `ScanExact`. That side is a recursive function (`Alcance`); `AlcancePassos` shows that it exists, as the least relation
  of depths and directories that is closed (`Fechada`), before anything is said of its values.
* `CopiesFound` (`CopiesAreFound`) adds `LeitoresOK` and `CopiasOK`. `LeitoresOK`: each directory a reader keeps open is the one the
  walk gave that number, whatever was evicted, so opening by names finds the walk's inode. `CopiasOK`: two copies never
  part. A file to compare can be opened; while hashes are taken it is waiting, being read or hashed; and a
  group that has one of two copies has the other. The report then is a matter of sums, and induction over the summed
  set is out of reach, so a sum of sizes is taken as the cardinality of a set of pairs (`Peso`), to which the
  library's theorems on unions apply, and the fold of the model is shown to be that (`SomaPor`).

  `RootAssumption` and the finite set of nodes are what these two need of an instance: the root could be opened, or
  the tool has ended in `abrir_raiz`, and a directory has one name, which a file system guarantees by refusing hard links
  to directories. A file may have any number of names.

The assumptions are those of the modules (`KeysAssumption`, `PermitsAssumption`, ...), which TLC
evaluates in every run. The type invariants of the modules with proofs are proved and no longer
checked by a run.

Model-checked only: liveness (`WaitersServed`, `QuietFilesArchived`, `ToolEnds`, `CommandEnds`), which is beyond
the prover; and `CellsAccounted`, whose order is `SetToSortSeq` with ties, which its definition leaves open. What `BlockPlan` and `BenchTransforms` compute, and so `BenchCalc`, rests on
recursive operators, where the prover loses its SMT backend: these are compared with reference
definitions on bounded inputs.

## 6. Not modelled

* HTTP surface, DTOs, OpenAPI, dashboard, scripts: formatting.
* Configuration, metrics and the SQL layer: no decision depends on their state.
* `sem_io`: bounds reads of one file, and nothing depends on it.
* Container, planner and codecs: the codecs are libraries, and the store uses of `parse` only which files it accepts.
* Block envelope v4 (`blockfile.rs`, `stored.rs`), budget: no request reaches them at this commit.
* Tenants, keys and scopes: single statements on rows; the store takes the tenant of a request as given.
* Totals and quotes of the ledger.
* Of the bench: generators of data, the self tests, the collection of sensors and of the hardware inventory, the
  texts of the reports, fitting of the logistic models, bootstrap intervals, classification of files.

## 7. Plan

Done: the store, the gate, the ingestion, the dictionaries and their theorems; the bench tools, with theorems of the
rounds, the preparation, the analysis, the deadline, the files of frames, the walk and the duplicates. Next, the most important first:

1. `Accounts`: bootstrap, issue, revoke, authenticate, the flag `auth_required`. Property: a
   revoked or expired key, or one of a suspended tenant, opens nothing; no window without authentication.
2. `Container` and `Planner` as operators: a plan is chosen among the measured ones, never larger
   than `stored`, and what `verify_roundtrip` accepts `restore_with_limit` restores.
3. `Blockfile`, once a request reaches it: the writer's table of blocks and the reader's checks, at the widths of its fields.
