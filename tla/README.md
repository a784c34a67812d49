# A TLA+ verification of Rhea (HFlow)

Rhea moves data blocks between application ranks and storage through a stream
of *parcels*. An application publishes a parcel (a block with its bytes) or
subscribes to one (a block it wants to read); *jobs*, small dataflow graphs that
run on other nodes, take parcels from shared queues, touch the storage and
record the parcel as done. A *byte flow regulator* watches how fast bytes enter
and leave each job and asks for more or fewer nodes.

This directory holds TLA+ modules of the parts of Rhea where an interleaving, an
ordering, a copy or an integer conversion decides whether data arrives; TLC
configurations that check them on small instances; and TLAPS proofs, for instances
of every size, of all safety properties of the runs: of the three jobs, an
application's life cycle, the two jobs over one storage, the transport of parcels, the
regulator and the two legacy services. `PROJECT.json` maps each definition to its lines
in `src/`.

Running it, in this directory:

    tlc -workers 2 -config RheaWrite.cfg MCRheaWriteJob.tla
    tlc -workers 2 -config ReadAfterWait.cfg MCReadAfterWrite.tla
    tlapm RheaWriteJobProofs.tla        # and any other *Proofs.tla

## 1. Inventory

| Component | State it keeps | Operations | Where | Here |
|---|---|---|---|---|
| `rhea::Client`, publishing | none of its own: it opens four containers by name | `Publish`, `Wait`, `WaitAll`, `FinalizeClient`, `GetWriteParsel`, `GetData`, `DeleteData`, `UpdateParcelStatus` | `src/src/rhea/lib/rhea.cpp` | `WriteClient` |
| `rhea::Client`, subscribing | the same | `Subscribe`, `AsyncSubscribe`, `GetSubscribedData`, `GetReadParsel`, `PutData` | the same | `RheaReadJob` |
| Write job (job 0) | temporary files, events in flight, the sink's buffer | source task, key-by task, sink task | `src/rhea_job/.../rhea_job.h` | `RheaWriteJob` |
| Direct write jobs (2, 3, 4) | a batch of parcels | one source task | the same | `IOFWriteJob` |
| Read job (job 1) | a batch, events in flight, the sink's buffer | source task, sink task | the same | `RheaReadJob` |
| RheaClient service | hosts `DATA_WAREHOUSE`, `PARSEL_STATE`, `WRITE_QUEUE`, `READ_QUEUE` | none: its thread sleeps | `src/src/rhea/client_service` | state only, in `ParcelStore` |
| Byte flow regulator server | in and out rate of each job, two locks | `RegisterJob`, `FinalizeJob`, `SetInRate`, `SetOutRate`, `CalculateRate`, `AlterNodes` | `src/src/rhea/byte_flow_regulator/server.cpp` | `Regulator`, `NodeVar` |
| Byte flow regulator client | none | one remote call per handler | `.../client.cpp` | the handlers of `Regulator` |
| Parcel, ParcelState, tasks of a job | | equality and hash on `id_` and `unique_id`, the msgpack adaptors | `src/include/rhea/common/data_structures.h`, `rhea_job.h` | `Wire`, `ParcelRelay` |
| Configuration manager | constants, and `BASKET_CONF` | reads JSON, `Configure...Client` | `src/include/rhea/common` | `NodeVar`, `Application`; not the parsing |
| Client life cycle | barriers entered, what the job manager was told | constructor, `SubmitJob`, `TerminateJob`, the MPI barriers around them | `rhea.cpp:9-27` | `Application` |
| Sentinel (job manager, workers, task base classes) | | | git submodule, absent | external: what tasks rely on |
| Basket containers, RPC, file clients | | `Put`, `Get`, `Erase`, `Push`, `Pop`, `Size`, `Read`, `Write`, `Remove` | git submodules, absent | external: atomic calls |
| Legacy `TaskManager`, `TaskExecutor` | `queueMap`, `executorStop`, `executorDestination`, a thread pool | `PutTask`, `GetTask`, `SpawnTask`, `DestroyTask`, `updateDestination`, `GetDestination`, the executor's loop | `src/old/TaskManager` | partly |
| Legacy `JobManager` | load per task manager | placement of tasks | `src/old/JobManager` | not modelled (section 6) |
| Legacy tasks, aggregation | a map of aggregators | the loops of `exec` | `src/old/JobUtils` | not modelled (section 6) |
| Legacy queue service | one queue per process, a worker thread, a signal handler | `Run`, `Stop`, `finalize`, `PutTask`, `GetTask` | `src/old/queue`, `src/old/basketCommon` | `Wire`, `QueueDaemon` |
| Legacy `Daemon` template | | process start-up | `src/old/Daemon` | not modelled (section 6) |

How they interact. Clients and tasks never talk to each other: they share the four
containers by name. A parcel enters `DATA_WAREHOUSE` (its bytes) and `WRITE_QUEUE` or
`READ_QUEUE` (itself); tasks report in `PARSEL_STATE`; the client polls that map. What
travels between nodes is packed and converted by msgpack adaptors; what stays on a node
is copied. The processes of an application meet at MPI barriers in the constructor and
in `FinalizeClient`, and each has one `BASKET_CONF`, whose `MY_SERVER` names the queue
of its next call. Within a job a source task emits a parcel to the key-by task, which
picks a sink. The regulator's daemon thread and the RPC threads share two maps under two
locks. The jobs meet in the storage. The legacy task manager is a process of its own:
RPC handlers and the executors of a thread pool share its maps without a lock. The
processes of the legacy queue service meet at a barrier twice, the second time inside a
signal handler.

What is hard here:

* every call on a container is a separate remote call, so any other process can
  act between two calls of one function (`Publish` makes three, a source task
  four per parcel, a sink five);
* several source tasks drain one queue, and several jobs one storage;
* deletions come before the copy they made obsolete is final: the warehouse
  entry goes before the target block is written, and so does the temporary file;
* the temporary file is named after the block, not after the parcel;
* the client learns of completion from a record that it itself also writes
  (`QUEUED`), and erases;
* each of `Publish`'s calls may fail, and nothing is undone;
* jobs are terminated without draining;
* the regulator decides on rates read earlier, under a lock of the other map, and
  computes in mixed signed and unsigned widths;
* the legacy task manager looks a queue up, makes it, posts an executor and files
  the executor's promise in four steps, and destroys all this in three; a queue that is
  gone when it is used makes an executor throw, and an executor has no handler;
* the copies of a parcel, five of them and made by different code, must be one key in
  two maps, and an adaptor that packs and converts in different orders compiles;
* all clients of a process write one configuration, and barriers of different clients
  are one barrier;
* the legacy queue service ends itself from a signal handler that may run in either
  thread, in a process that has or has not yet installed it.

What makes each part correct:

* **write job** - a parcel is in one hand at a time; its last copy is never
  dropped; `DONE` means the block holds it; every queued parcel is written; a
  `Wait` whose record was timely returns;
* **direct write jobs** - the same promise, plus the order of pushes per block;
* **read job** - a reader gets a content of its block not older than its call;
  the data is there before `DONE`; a `Subscribe` leaves nothing behind; a first
  `Wait` returns;
* **an application of both** - a rank reads what it wrote; every call finds its job
  running and its queue served; nobody waits at a barrier for ever, and nobody leaves
  a job behind;
* **transport** - a `Wait` is ended by the record of its own parcel, and a parcel comes
  to its sink, whatever was converted on the way;
* **regulator** - both rates of a decision were current together (proved, section 5); a job that was
  reset is not resized again and again; requests have the right size and sign; a
  lasting imbalance is answered;
* **legacy task manager** - as long as the process runs, a queue has an executor that
  stays with it and no executor gets out of the reach of `DestroyTask`; only the
  destruction of a queue in use, or a call to another manager that fails, ends it; no
  event stays in a queue for ever;
* **legacy queue service** - a process exits with its worker joined and not before all
  others were told to end; when all are told, all exit; what is got was put.

`PROJECT.json` lists the hazards of the code at their lines, with the property
that covers each, or the reason why none does.

## 2. Modules

    ParcelStore ─┬─ WriteClient ─┬─ IOFWriteJob  (implements DurableWrite) ── PushOrder
                 │               └─ RheaWriteJob (implements DurableWrite) ─┐
                 └─ RheaReadJob ────────────────────────────────────────────┤
    Application (ranks and barriers) ───────────────────────────────────────┴─ ReadAfterWrite
                                     (both jobs, one storage, the programs of the ranks)
    Wire ─┬─ ParcelRelay ─┐
          └─ QueueDaemon ─┴─ MCContainers
    NodeVar ── Regulator
    TaskManager (legacy)
    MC*: instances for TLC
    QueueLemmas and *Proofs: section 5

**ParcelStore.** What everything shares: `warehouse` (`DATA_WAREHOUSE`),
`parselState` (`PARSEL_STATE`), `storage` (the target blocks). A *block* is the
pair of `id_` and `position_`; a parcel also has a `unique_id`, so several
parcels may address one block, and a parcel is its own map key. `Blank` is what a
buffer holds that was resized and never filled: none of the tasks looks at
the number of bytes read, or at the found flag of a `Get`, and `Fetched` says so.

**WriteClient.** The client half of a write. `pc[p]` says where the owner of `p`
is: `PublishPut`, `PublishPush` and `PublishRecord` are the three calls of
`Publish`, each of which may report failure; `WaitBegin`, `WaitPoll`,
`WaitErase` are `Wait`. A rank makes one call at a time (`Idle`).
`FinalizeClient` needs every rank at the barrier. `Poll`, `Pop`, `PopFails` and
`Stop` are the head of a source task's loop with `GetWriteParsel`: the
`amount` it computes is never decremented, so a non-zero `Size` starts a loop that
ends only on an empty queue.

**RheaWriteJob.** Job 0. `SpoolTemp`, `DeleteData`, `MarkInProgress`, `Emit` are
the body of the source task's `for` loop; `KeyBy` is the key-by task;
`ReadTemp`, `RemoveTemp`, `WriteTarget`, `MarkDone` are the sink's `Run`.
`temp` is indexed by block because the file's name is `id_` and `position_`.
`GetData` and the write of the temporary file are one step: between them the task
touches only a local variable, and no other process changes this parcel's entry.
In `ReadTemp` to `MarkDone` the sink's constructor of `rhea::Client` is no step: what it
does to the process is `Application`'s.

**IOFWriteJob.** Jobs 2, 3 and 4: the source task writes the block itself.

**PushOrder.** The same with a history variable, `order`, the parcels in the order of
their pushes. `BlocksFollowPushOrder` is about a deployment in which each queue has one
source task and all ranks that write a block push to the same queue.

**DurableWrite.** The promise of a write job, with no queue in it: an accepted
parcel is written once, whole, to its block; it is acknowledged only afterwards;
nothing else reaches the storage.

**RheaReadJob.** Job 1 with its client calls. `Subscribe` is a push, a `Wait` and a
fetch in one call; after `AsyncSubscribe` the application makes those steps
itself, so `after[p]` says where a `Wait` returns to. `OthersWrite` rewrites
blocks at any time, because the storage is shared. `seen` is a history
variable: what the block has held since the call began.

**Application.** The processes of the MPI program. Each runs a program of operations
(`ProgramOf`): a `Client` constructor, a client of the regulator, calls (`Use`), a
`Finalize`. The constructor is `ConfigureRheaClient`, on rank 0 `SubmitJob`, and the
barrier, which is two steps, `EnterBarrier` and `LeaveBarrier`: a barrier names nobody,
so the n-th call of one rank meets the n-th call of every other. `FinalizeClient` is a
barrier, on rank 0 `TerminateJob`, and another barrier. `config[r]` is what the last
`Configure` of that process left in `BASKET_CONF`: `NUM_SERVERS` and `MY_SERVER` are
computed by Basket (external), and taken to be the length of the list and the rank
modulo it. Nothing makes a program call these in any order; `WellFormedProgram` says
what the library relies on: all ranks enter their barriers in the same operations
(`SameCollectives`), a rank opens a client before it uses it, and does not use it, or
open another, after it finalized it.

**ReadAfterWrite.** `Application` with `RheaWriteJob` and `RheaReadJob`, instantiated,
over one `storage`. A rank makes its calls while its program is in `Use` of that job
(`WriteCallsInProgram`, `ReadCallsInProgram`), pushes to the queue that `MY_SERVER`
names at that moment, reads after it published (`AwaitFirst`: after its `Wait`), and
goes on when it is outside calls. `TerminateJob` is the same step as the jobs' own
`FinalizeClient`. `RankStep` is everything a rank does outside `Use`.

**Wire.** The adaptors: `PackParcel` and `ConvertParcel`, and so on, over objects that
are a type and a value. `type_` and `buffer_` of a parcel and `keyby` of an `Event` do
not travel; a field of the wrong type is a `TypeError`. `KeyOfParcel` is what
`operator==` compares and `hash` hashes. The two calls of `TaskEvent`'s adaptor name the
fields in different orders.

**ParcelRelay.** The write job again, with every copy made explicit: `Carried(p)` is a
copy or a conversion, and each push, pop, emit and call on `PARSEL_STATE` makes one.
The job itself travels too (`CarriedChain`): links are converted as `Task<Parcel>`, and
a worker runs the class its library has under the ids that arrived (`Runs`).
`RheaWriteJob` takes all this to be the identity; here is why it may.

**QueueDaemon.** `mainTask` and `mainEvent`. `Start`, `Run` and `CatchAllSignals` are
`main`, `RunInternal` is the worker, and `MeetOthers`, `SignalWorker`, `JoinWorker`, `Exit`
are `finalize` in whichever thread the signal reached. A second one makes `set_value`
throw, or the thread join itself: `Abort`. A `SIGTERM` before the handlers are installed
kills. `PutTask`, `GetTask` are the clients; a refused conversion loses the element. The
queue of `mainTask` holds single `TaskEvent`s, that of `mainEvent` vectors of `Event`s.

**NodeVar.** The arithmetic of `AlterNodes` in its C++ types: the product with the
multiplier is an `int`, the division converts it to `uint64_t`, the result is cut
to `int16_t`. TLC's integers have 32 bits, so 2^64 is kept modulo `65536 * Step`.

**Regulator.** RPC threads and the daemon. `ResetIn` and `ResetOut` are
`RegisterJob` and `FinalizeJob`, which are the same code: two locks, one after
the other. The daemon's step is split at its locks: `ListJobs`, `ReadIn`,
`ReadOut` (which reads, and may insert into, `out_rate_map` while holding
`in_mutex`), then `AlterNodes` or `Skip` with no lock held.

**TaskManager.** The legacy `Server::TaskManager`. A *call* is a `PutTask` of an event or a
`SpawnTask` of a task from outside; `call[c]` says which operation on the shared maps comes
next: `FindQueue`, `EmplaceQueue`, `PostExecutor`, `InsertStop`, `Push`. An executor is
named by its task and the call that spawned it. Its future becomes ready (`signalled`)
when `DestroyTask` sets its promise, and also when its promise finds the map's
place taken: `insert` drops it, and a promise that is destroyed releases its future.
A pool thread runs the loop of `TaskExecutor::exec`: `FindEvents`, the `find` of the
server's `GetTask`, then its `at` and pop (`GetTask`), or `GetNothing`; `Exec`; `Send`, which makes
a new `PutTask` call and waits for it (`Sent`); and `Leave`. What a task returns decides where the
event goes (`NextLocations`): to the destination filed, to another location (`KEYBY`),
or nowhere (`HOLD`). An executor polls its origin, which `SpawnTask` from outside may choose
(`OriginOf`). A location of another task manager is `Elsewhere`.

`PutTask` and `GetTask` on the server both find a queue and use `at` later. When a
`DestroyTask` erased it in between, `at` throws. A handler called from outside is
`refused`. When the caller is an executor, nothing from `send` to `run` catches the
exception; it leaves the function a pool thread runs, and `std::terminate` ends the
process, with every other executor and every queue (`Throw`, `terminated`;
`FailElsewhere` for a call to another manager). So an executor is never lost alone, with
its promise still filed: `QueueIsServed` and `ExecutorsCanBeStopped` are about the
process as long as it runs, and `OnlyDestroyThrows` says what may end it. The loop's
condition is an *or*, so an executor leaves only when it is signalled and has found
nothing since its last event (`missed`; the ten seconds of its timer are any time after
that).

## 3. Runs

| Run (`.cfg`) | Instance | Shows |
|---|---|---|
| `rhea_write` (RheaWrite) | 2 parcels on 2 blocks, 2 ranks, 1 queue, 2 source tasks, 2 sinks, failures and termination anywhere; 22 090 states | `OneHolder`, `DataInPlace`, `DoneIsDurable`, `DoneLostOnlyToLateRecord`, `PushedIsStored`, `TimelyRecordIsAcked`, `ImplementsDurableWrite` |
| `rhea_write_wait` (RheaWriteWait) | 1 parcel | **violated**: `WaitReturns` |
| `rhea_write_one_block` (RheaWriteOneBlock) | 2 parcels of one rank for 1 block | **violated**: `BlocksHoldPublishedData` |
| `iof_write` (IOFWrite) | `PushOrder` with 3 parcels, 2 for one block, 2 servers with a task each | `ImplementsDurableWrite`, `BlocksFollowPushOrder`, `PushedIsWritten` |
| `rhea_read` (RheaRead) | 2 readers of 1 block that is being rewritten, 2 source tasks, 1 sink | `FreshRead`, `DoneHasData`, `SubscribeCleansUp`, `FirstWaitReturns` |
| `rhea_read_wait_twice` (RheaReadWaitTwice) | 1 parcel | **violated**: `WaitAfterSubscribeReturns` |
| `read_after_wait` (ReadAfterWait) | 2 ranks, 2 services, each rank opens both clients, publishes, waits, reads back, finalizes both; rank 0 opens a client of the regulator in between; 424 167 states | `ReadsOwnWrite`, `JobOutlivesCalls`, `CallsReachServedQueue`, `EveryRankFinishes` |
| `read_after_publish` (ReadAfterPublish) | 1 rank that does not wait | **violated**: `ReadsOwnWrite` |
| `regulator` (Regulator) | 2 jobs, 2 RPC threads, 2 rates, the default configuration | `AtMostOneLateRequest`, `GrowthIsProportional`, `ImbalanceIsAnswered` |
| `regulator_shrink` (RegulatorShrink) | 1 job, 1 thread | **violated**: `ShrinkTakesNodes` |
| `task_manager` (TaskManager) | tasks t1 and t2, an event put to t1, which sends it on to t2, to another manager, or holds it; `SpawnTask` and `updateDestination` of either, one `DestroyTask` of either, 2 pool threads; 607 472 states | `QueueIsServed`, `ExecutorsCanBeStopped`, `OnlyDestroyThrows`, `NoEventIsStuck` |
| `containers` (Containers) | a job of 3 tasks and 3 parcels, 2 of one file; and 2 processes of the queue service, 2 tasks or 2 vectors of events, up to 2 `SIGTERM`s each; 99 448 states | `AckedIsWritten`, `PushedReachesSink`, `ExitIsOrderly`, `TermEndsService`, `TakenWasPut` |

**Bounds, and why they are enough.** The sets of parcels, ranks, tasks, sinks and
servers are the only bounds: no counter and no queue is cut. In the write job two
parcels give everything a parcel can meet: another one ahead of it in the queue, in the
same batch, in another task's batch, with the other sink, and (in
`rhea_write_one_block`) on the same block. The safety properties of that run are also
proved for sets of any size (section 5). `iof_write` needs a third parcel to have a
second server with work of its own. In `rhea_read` both readers share the block, queue
and sink; two payloads let a block change and change back. The regulator's two rates lie
159 850 apart, where the cut to 16 bits of a growth request comes close to its limit;
with the default step of 5 a distance above 163 885 would exceed an `int16_t`. `late`
counts to 2, one more than its property allows. In `task_manager` the event for t1
travels on to t2, so a `PutTask` and a `SpawnTask` race for each of the tasks, one
`PutTask` comes from outside and the other from an executor, and one `DestroyTask` can
hit either race, and either executor's poll, at every point; afterwards the task can be
made anew. A race of two `PutTask` calls takes a second event, which makes the run too
long: the safety properties are proved for any number of them. In `read_after_wait` two
ranks are what a barrier needs, and rank 0, which submits and terminates, is one of
them. It has two services, so that `MY_SERVER` of the ranks differs, and one regulator,
which the client of rank 0 leaves in the configuration for its write calls. With more
regulators than services `CallsReachServedQueue` would not hold: `MY_SERVER` would name
a queue no source task drains. In `containers` two parcels of one file and two
positions, and a third that shares a position with one of them, tell every field of the
key and the target apart. `MaxSignals` is a bound, named in `QueueDaemon`: two signals
to a process meet in its two threads, and since a handler that has begun only ends with
the process, there is no thread left for a third to run in. What is proved of this
module (section 5) holds for any bound.

**Deadlock.** The write and read runs set `CHECK_DEADLOCK FALSE`: these systems do stop,
when every client has been finalized and every task has ended, or when all that is left
is a rank in a `Wait` that never ends (which is what two of the findings are about). The
composition stops when all ranks have finished, the containers when every parcel is
acknowledged or every process has ended or waits for one that was killed. The task
manager stops when nobody puts an event, or when an exception has ended the process. The
regulator never stops, and its runs check deadlock.

**Fairness.** Weak fairness of each thread that has work: a rank inside a call
(`ClientStep`), a source task (`SourceStep`), the key-by task per event (`KeyBy`), a
sink (`SinkStep`), the regulator's daemon (`CalculateRate`), a handler of the task
manager and a thread of its pool (`MadeStep`, `WorkerStep`). Each is an operating system
thread that loops or polls with a bounded sleep and holds no lock while it sleeps, so it
is never disabled by others for good, and the scheduler runs it. Nobody has to put an
event: a call of the task manager goes on once it is made (`Made`). `Leave` has strong
fairness: an executor that polls a queue which stays empty is between two polls again
and again, its timer and its future only have to be looked at once when both are over,
and time passes. A rank outside its calls (`RankStep`: constructors, barriers,
`FinalizeClient`), the tasks of the relay (`TaskStep`) and the threads of a process of
the queue service (`ThreadStep`) run on in the same way; `EveryRankFinishes` asks in its
premise that calls end, and `TermEndsService` that every process is signalled, so
neither is assumed. An event in flight is in a queue of a worker that serves its queue.
Nothing is assumed of applications: they may never publish, never wait, never finalize.
A liveness property therefore speaks of calls that have begun, and excuses what is still
on its way when the job is terminated, since `FinalizeClient` drains nothing.

## 4. Findings

Each has a run whose counterexample shows it.

1. *A Wait may never return* (`rhea_write_wait`). `Publish` records `QUEUED` after the
   push (`rhea.cpp:37-38`). A job that has marked the parcel `DONE` by then has
   its record overwritten, and no step marks it again. `DoneLostOnlyToLateRecord`
   (checked and proved) says this is the only way to lose a `DONE`, and
   `TimelyRecordIsAcked` that a timely record leads to an acknowledgement.
2. *Parcels for one block destroy each other's temporary file*
   (`rhea_write_one_block`). The block then holds bytes nobody published.
3. *A Wait after Subscribe never returns* (`rhea_read_wait_twice`), though
   `single_write/test.cpp` makes one: `Subscribe` has erased the record.
4. *Reading back without a Wait may miss the write* (`read_after_publish`), though
   `writeIO/test.cpp` compares the bytes. With the Wait it holds
   (`read_after_wait`).
5. *A request to shrink may grow* (`regulator_shrink`). The negative product is
   converted to `uint64_t` by the division.

## 5. Proofs

Each module holds for every value of its constants.

| Module | Theorem | Statement | Hypothesis |
|---|---|---|---|
| `RheaWriteJobProofs` | `TypeCorrect` | `Spec => []TypeOK` | |
| | `HeldOnce` | `Spec => []OneHolder` | |
| | `LastCopyIsKept` | `Spec => []DataInPlace` | `DistinctBlocks` |
| | `AckedIsDurable` | `Spec => []DoneIsDurable` | `DistinctBlocks` |
| | `DoneIsStable` | `Spec => DoneLostOnlyToLateRecord` | `DistinctBlocks` |
| | `PipelineIsDurable` | `Spec => ImplementsDurableWrite` | `DistinctBlocks` |
| `IOFWriteJobProofs` | `TypeCorrect` | `Spec => []TypeOK` | |
| | `DirectWriteIsDurable` | `Spec => ImplementsDurableWrite` | |
| | `WritesFollowPushes` | `OrderSpec => []BlocksFollowPushOrder` | `OneTaskPerQueue`, `OneQueuePerBlock` |
| `RheaReadJobProofs` | `TypeCorrect` | `Spec => []TypeOK` | |
| | `ReadsAreFresh` | `Spec => []FreshRead` | |
| | `WaitsEndWithData` | `Spec => []DoneHasData` | |
| | `NothingIsLeftBehind` | `Spec => []SubscribeCleansUp` | |
| `ReadAfterWriteProofs` | `JobsLiveAroundCalls` | `AppSpec => []JobOutlivesCalls` | `WellFormedProgram` |
| | `QueuesOfCallsAreServed` | `AppSpec => []CallsReachServedQueue` | `WellFormedProgram`, `Regulators <= Services` |
| | `JobsLiveAroundReadsAndWrites` | `Spec => []JobOutlivesCalls` | `WellFormedProgram` |
| | `QueuesOfReadsAndWritesAreServed` | `Spec => []CallsReachServedQueue` | `WellFormedProgram`, `Regulators <= Services` |
| | `JobsRunAsAlone` | `Spec => W!Spec /\ R!Spec` | `W!DistinctBlocks` |
| | `AwaitedWritesAreRead` | `Spec => []ReadsOwnWrite` | `AwaitFirst`, `W!DistinctBlocks` |
| `ContainersProofs` | `AckFollowsWrite` | `RelaySpec => []AckedIsWritten` | |
| | `NobodyExitsAlone` | `DaemonSpec => []ExitIsOrderly` | |
| | `NothingIsGarbled` | `DaemonSpec => []TakenWasPut` | |
| `RegulatorProofs` | `TypeCorrect` | `Spec => []TypeOK` | |
| | `RatesAreOfOneMoment` | `Spec => []RatesReadTogether` | |
| | `ResetsAreHeeded` | `Spec => []AtMostOneLateRequest` | |
| | `GrowthIsExact` | `Spec => []GrowthIsProportional` | `GrowthFits` |
| `TaskManagerProofs` | `TypeCorrect` | `Spec => []TypeOK` | |
| | `NoExecutorEscapes` | `Spec => []ExecutorsCanBeStopped` | |
| | `NoQueueIsOrphaned` | `Spec => []QueueIsServed` | |
| | `NothingElseThrows` | `Spec => []OnlyDestroyThrows` | |

`QueueLemmas` holds what the library lacks: the elements of a sequence after an
append, a tail, a head, and that an append and a tail keep the order of what was
there (`AppendInOrder`, `TailInOrder`).

**Assumptions.** The named `ASSUME`s of the modules (`StoreAssumption`,
`WriteAssumption`, `SinkAssumption`, `ReadAssumption`, `RegulatorAssumption`,
`TaskAssumption`, `WireAssumption`, `RequestAssumption`, `DaemonAssumption`,
`ItemAssumption`, `ApplicationAssumption`, `ReadBackAssumption`, `JobsAssumption`) give
constants their types and keep marks such as `Nothing` apart from the data;
`RequestAssumption` also says that parcels have `unique_id`s of their own, and `NoCycle`
that no event of the legacy tasks comes back: from the origin a task takes its events
from to where it may send them there is no cycle. TLC evaluates them in every run.

What is a hypothesis in the table is a condition on a deployment or on the program of
an application, which the code does not enforce; where a theorem needs one, what it
states is false without it.

* `DistinctBlocks`, no two parcels address one block: `rhea_write_one_block` refutes
  the four theorems of the write job without it. In the composition it also keeps a
  sink from writing what nobody published, which no reader expects, and a
  block from being written again between a publication and the read.
* `OneTaskPerQueue` and `OneQueuePerBlock`: two tasks that popped two parcels for one
  block may write them in either order, and so may the tasks of two queues.
* `GrowthFits`, an excess is worth fewer than 2^15 nodes: with the default step of 5,
  rates are less than 163 840 apart.
* `WellFormedProgram`: a barrier names nobody, so a rank in the constructor of one
  client lets another rank out of the constructor of another client, whose job nobody
  has submitted.
* `Regulators <= Services`: the last client a process opened may be one of the
  regulator, and its `MY_SERVER` then exceeds the number of queues.
* `AwaitFirst`: `read_after_publish` refutes `ReadsOwnWrite` without it.

The modules MCReadAfterWrite and MCIOFWriteJob assume these of their instances, so that
TLC evaluates them, `AwaitFirst` apart, which one of the two runs gives up.

**The write job.** `OneHolder` is not inductive. A push could put a parcel in the
queue a second time, unless parcels about to be pushed are not yet in anybody's
hands (`HeldArePushed`, `OwnersArePast`); and a sink could be running no
event while its state says otherwise (`SinksHoldEvents`). With `TypeOK` these make
the inductive `Inv`. Its proof follows `hands`, the tuple of what each actor
holds: an action either leaves it alone (`SameHands`), or moves one parcel from one
hand to the next, and there is a lemma for each move (`PushOneHolder` to
`ReadOneHolder`).

`DataInPlace` then says, for each hand, where the bytes are. It needs
`Inv`: the one who deletes a copy is the only one to hold the parcel. It needs
`DoneIsDurable` beside it: `Publish` is the only step that could put a
payload back, and `DONE` is put for an event whose block was just written.
`DataInv` is their conjunction, and again there is one lemma for each action.
Under it each step of the write job is a step of `DurableWrite` or
a stutter: `PublishPush` is `Accept`, `WriteTarget` is `Write`, `WaitErase` is `Ack`.

**The direct jobs.** The same with two hands, queue and batch, and without
`DistinctBlocks`: the payload is in the warehouse under the parcel's own key until
its task has written it (`DataInPlace`), and only the parcel a task is at can be
past its write and still in the batch. A parcel is therefore written with its own
bytes, once, and marked afterwards (`DoneIsWritten`).

For the order of writes, `OrderInv` says that a queue holds its parcels in the order of
their pushes, that the one task of a queue has in its batch what was pushed before all
that is still in the queue (`NoneOvertakes`). The task takes the head of its batch, so
the next one it writes is the oldest that is not written (`WrittenInOrder`). A block
goes back to an earlier parcel only by a second write of that parcel, and no parcel is
written twice (`NoneReturns`).

**The read job.** The same skeleton with a larger invariant: where a parcel is, from its
push through queue, batch, emit and sink to its `DONE`, decides what the two maps, the
sink's buffer and the caller's may hold. `DataFits` says so, stage by stage: nothing
before the sink's `PutData`, fresh data from there to the fetch, nothing again when a
`Subscribe` is over. It needs that at most one copy of the parcel is under way
(`OneHand`), since a second one could mark a record anew after it was erased.

**The application.** `AppInv` counts: a rank has entered the barriers of all
operations behind it and those of the one it is in (`BarriersAreCounted`), and of what
one rank has left, every rank has entered as many (`BarriersHold`). With
`SameCollectives` the count tells the place: a rank that has returned from a
constructor, or is past the first barrier of a `Finalize`, knows that every other
rank has come to the same operation (`CollectivesMeet`), rank 0 among them, and
`JobsFollowRoot` says what rank 0 has told the job manager by then. That a job is
submitted before it is used uses the barrier of the constructor; that it is not
terminated while it is used, the first of `FinalizeClient`; that it is
terminated when `FinalizeClient` has returned, the second. `ConfigInv` follows
`BASKET_CONF` from one `Configure` to the next.

**The two jobs together.** Each step of the composition is a step of the write job or a
stutter, and likewise of the read job: a write of a block is one of
the rewrites by others that the read job allows at any time (`WritesAreSeen`), and the
termination of a job is its own `FinalizeClient`. So `Spec` implies the
specification of each job, and the invariants proved of each alone hold here
(`JobsRunAsAlone`; `WP` and `RP` are instances of the proof modules). Then
`ReadsFollowWrites` is inductive: a call that awaited its publication began when
that was acknowledged, so by `DataInv` its block held it, and by `DistinctBlocks` nothing
else was written there since. What is read is among what the block has held since
the call began (`FreshRead`), which is this one publication.

**The relay.** A copy has the key and the target of what it was copied from, by the
definitions of the adaptors, so every copy in the queue or at a task has those of
a request; a record of status `DONE` is put by the sink alone, after the block; and two requests
with one key are one request, because `unique_id` is in the key.

**The queue service.** The barriers a process has entered are at most one more than the
signals it was sent, and a thread that has passed the barrier of `finalize` met
processes that had entered two. For `TakenWasPut` each queue holds what was put,
field by field but for `keyby`, and no conversion changes a field it does not refuse;
a vector of events is converted element by element, so its length and order stay.

**The regulator.** `RatesReadTogether` (the two rates of a decision were in the maps at
one moment) needs the lock: the daemon holds `in_mutex`
from its first read to the second. For `AtMostOneLateRequest` the invariant adds
`LateMeansReset`: as long as a late request is counted the in rate in the map is zero, and a
daemon that looks at the job again has seen that zero, which `NeedsChange` excludes.
`TypeOK` says in addition that a request fits an `int16_t`; its proof goes through the
arithmetic of `NodeVar`, which has no recursion: 2^48 modulo the step is the square of
2^24, and 2^64 modulo 65536 steps is 65536 times that.

**The task manager.** An event is in one queue or with one worker or call (`OnePlace`),
so a call that spawns an executor has a name for it that no executor had before. That
name is made of a task and a call; that it is unused follows from the order of
`NoCycle`: an event only moves to later tasks, and later names are unused
(`LaterNamesAreUnused`). So the promise that `InsertStop` files is never one that was
dropped before, and the promise a task keeps is that of an executor of its own that runs
or will run (`StopsAreAlive`). The `PutTask` that makes a queue posts an executor for
it. When its promise finds no place, the executor whose promise has the place polls the
same queue; when it has one, only a `DestroyTask` signals it, which erases the queue
next (`QueuesAreServed`). `OnlyDestroyThrows` adds `LossInv`: a call that is about to
push, and an executor that is about to pop, has a queue there, or a `DestroyTask` has
taken it away since.

**Only model-checked.** The liveness properties: `PushedIsStored`,
`TimelyRecordIsAcked`, `PushedIsWritten`, `FirstWaitReturns`, `EveryRankFinishes`,
`ImbalanceIsAnswered`, `NoEventIsStuck`, `PushedReachesSink`, `TermEndsService`.

## 6. What is assumed and what is left out

* The containers and file clients are submodules without source here. Each call is
  taken as atomic and a `Get` after a `Put` finds it. `Publish`'s calls
  may report failure; those made by tasks, which ignore results, do not.
* Parcels have distinct `unique_id`s, as `Parcel`'s constructor intends. Fields keep
  the widths they are converted to, so no field of a message is cut.
* One write job runs at a time, although all write jobs share `WRITE_QUEUE`.
* Workers do not crash. There is no recovery code; a crash between `Remove` and
  the target's `Write` loses the parcel.
* An event between tasks is delivered once, in any order. What Sentinel does
  with events when a job is terminated is not known here; events already emitted
  may still arrive in the model.
* Rates are below 2^31, where the casts to `int` are exact. Each access
  to an entry of the rate maps is atomic: the data race on `out_rate_map` while it
  rehashes is not modelled.
* A constructor of `rhea::Client` inside a task (`rhea_job.h:184` and others) meets
  the barrier of the workers' world. Which tasks share it is Sentinel's to decide, whose
  source is absent, so `Application` is about the ranks of an application.
* Tracing, formatting, MPI start-up and the parsing of configuration files are left out.
* Under `src/old` is an earlier system that no build file of Rhea includes any more. It
  does not compile as it stands (`my_id =;` in `Server.cpp:16`), so `TaskManager` takes
  its functions as they are written: operations on the unlocked maps are atomic, which
  is what a lock around each would give; a lookup of a missing destination inserts one
  that names no task, and events sent there, or to another task manager (`Elsewhere`),
  reach none of the tasks; the call of `DestroyTask` in `finalize`, which lacks its task
  id, does nothing. What tasks return is theirs to choose, from `NextLocations`;
  `finish` returns nothing to send. An exception of a handler is the RPC layer's to
  report to the caller (external), whose call then throws. In an executor nothing
  catches it, and an exception that leaves the function of a thread of
  `boost::asio::thread_pool` ends the process; what becomes of a caller outside is not
  modelled. The client's `DestroyTask` calls `"PutTask"` on the wire (`Client.cpp:67`);
  the handlers are modelled, called by anybody. For a task whose `SpawnTask` named
  another origin the code gives no executor to a queue of its own: the properties are
  about tasks that are their own origin. `TerminateTaskManager` uses an iterator whose
  entry is gone and is left out.
* The legacy queue service is taken as written as well. `GetSize` is declared to return
  a `bool` and changes nothing. `daemonize()` is called by nobody. Its client opens the
  queue and copies `NUM_SERVERS` before `ConfigureQueueClient` runs; what the
  queue makes of that is the submodule's. A `GetTask` of a `TaskEvent` by a client on
  another node pops the element and then throws: `GetTask` models it, and `TakenWasPut`
  says that nothing is garbled, not that nothing is lost. A `SIGTERM` in the worker
  thread, or a second one, aborts the process or leaves it at the barrier, so
  `TermEndsService` excludes it.
* The legacy `JobManager` is left out because its code does not fix what it does: the
  constructor never returns from `RunInternal`, `BindRPC` binds members that do not
  exist, and `GiveMeDestination`, the only operation with control of its own, is
  private, has no caller and compares with a limit nothing initializes. The legacy tasks are
  templates that nothing instantiates, over a client interface the tree no longer has.
* The legacy `Daemon` template cannot be instantiated: it passes a member function to
  `signal`, and its constructor does not return.

## 7. Plan

Done: `ParcelStore`, `WriteClient`, `RheaWriteJob`, `DurableWrite`, `IOFWriteJob`,
`PushOrder`, `RheaReadJob`, `Application`, `ReadAfterWrite`, `Wire`, `ParcelRelay`, `QueueDaemon`,
`NodeVar`, `Regulator`, `TaskManager`, and the proofs of section 5.

Next, in this order:

1. Two write jobs on one `WRITE_QUEUE`.
2. What `TaskManager` leaves out: `TerminateTaskManager` and the result of `finish`.
3. An abstract specification of the read side, as `DurableWrite` is of the write side,
   and the proof that `RheaReadJob` implements it.
