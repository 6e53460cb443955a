------------------------------ MODULE Scheduler ------------------------------
(***************************************************************************)
(* The I/O scheduler of src/src/scheduler.c and the loop of src/src/main.c *)
(* that drives it.  One thread owns an io_uring.  It submits the prepared  *)
(* SQEs, waits for completions and runs the callback of every CQE; the     *)
(* callbacks of five timer-driven jobs (writer, reader, flusher, tracing,  *)
(* status) prepare further SQEs.  The kernel executes what was submitted   *)
(* at its own pace and in its own order.                                   *)
(*                                                                         *)
(* An operation is a tuple <<kind, id>> and stands for the struct op that  *)
(* the CQE's user_data points to.  Its life is sq (prepared) -> kern       *)
(* (submitted) -> cq (completed, callback due) -> gone.  The completion    *)
(* queue is a set: the order in which its CQEs are delivered is the order  *)
(* in which the kernel completed them, which nothing in the code fixes.    *)
(***************************************************************************)
EXTENDS Integers, Sequences, FiniteSets

CONSTANTS
  Pages,                \* BYTES_TO_WRITE / BUF_SIZE
  ENTRIES,              \* capacity of the submission queue
  INFLIGHT_LOW_RANGE,
  INFLIGHT_HIGH_RANGE,
  TRACING_BUF_LEN,      \* items the trace ring holds
  U8,                   \* number of values of a __u8  (256)
  U64,                  \* number of values of a __u64 (2^64)
  Enabled,              \* the jobs that main() runs (ENABLE_* of configure.h)
  Ordered,              \* TRUE: the device completes writes in page order
  MayFail               \* kinds of operations that may end with res < 0

BATCH_INCREMENT_PERCENT == 1

Jobs == {"writer", "reader", "flusher", "tracing", "status"}

\* The period of each job's timer, in milliseconds.
Period == [writer |-> 5, reader |-> 100, flusher |-> 100, tracing |-> 10,
           status |-> 200]

ASSUME SchedulerAssumption ==
  /\ Pages \in Nat \ {0}
  /\ ENTRIES \in Nat /\ ENTRIES >= 2
  /\ INFLIGHT_LOW_RANGE \in Nat
  /\ INFLIGHT_HIGH_RANGE \in Nat
  /\ INFLIGHT_LOW_RANGE <= INFLIGHT_HIGH_RANGE
  /\ TRACING_BUF_LEN \in Nat \ {0}
  /\ TRACING_BUF_LEN % 2 = 0
  /\ U8 \in Nat \ {0}
  /\ U64 \in Nat /\ U64 > 2 * Pages
  /\ Enabled \subseteq Jobs
  /\ {"writer", "flusher", "status"} \subseteq Enabled
  /\ Ordered \in BOOLEAN
  /\ MayFail \subseteq {"write", "read", "fsync", "dump", "tsync"}

VARIABLES
  pc,          \* "submit", "drain" (inside io_tick), "exit" or "abort"
  sq,          \* prepared, not yet submitted
  kern,        \* submitted, not yet executed
  ahead,       \* per armed timer, the armed timers that expire before it
  cq,          \* executed, callback not yet run
  writer,      \* thread_ctx.writer_job
  reader,      \* thread_ctx.reader_job
  flusher,     \* thread_ctx.flusher_job
  tracing,     \* thread_ctx.tracing_job
  page_id_check_order,
  disk,        \* pages whose write the device has executed
  syncset,     \* pages the submitted fsync is bound to cover
  durable      \* pages some completed fsync was bound to cover

jobs == <<writer, reader, flusher, tracing, page_id_check_order>>
device == <<disk, syncset, durable>>
vars == <<pc, sq, kern, ahead, cq, jobs, device>>

-----------------------------------------------------------------------------
(* Operations *)

WriteOp(p) == <<"write", p>>
ReadOp(p) == <<"read", p>>
Timer(j) == <<"timer", j>>
Fsync == <<"fsync", "flusher">>
Dump == <<"dump", "tracing">>     \* dump_op with callback tracing_writed
TSync == <<"tsync", "tracing">>   \* dump_op with callback tracing_synced

Op == ({"write", "read"} \X Nat) \cup ({"timer"} \X Jobs)
        \cup {Fsync, Dump, TSync}

\* The fields of the job structs that the program's behaviour depends on.
WriterJob == [running : {0, 1}, page_id : Nat, batch_size : Nat,
              written_no_flush : Nat, inflight : 0 .. U8 - 1]
ReaderJob == [running : {0, 1}, page_id : Nat, batch_size : Nat,
              inflight : 0 .. U8 - 1]
FlusherJob == [running : {0, 1}, page_id : Nat, inflight : {0, 1},
               write_list : Seq(Nat)]
\* used is what cbuf_used_count returns; items and inflight are dump_op's.
TracingJob == [running : {0, 1}, used : 0 .. TRACING_BUF_LEN,
               items : 0 .. TRACING_BUF_LEN, inflight : {0, 1}]

InRing == sq \cup kern \cup cq

max(a, b) == IF a > b THEN a ELSE b
min(a, b) == IF a < b THEN a ELSE b

-----------------------------------------------------------------------------
(* What the callbacks compute *)

\* Mutants: stops at zero; leaves the counter alone.
decrement_saturating(inflight) == IF inflight = 0 THEN 0 ELSE inflight - 1
decrement_forgotten(inflight) == inflight

\* inflight-- of a __u8, which wraps.
decrement(inflight) == (inflight - 1) % U8

\* Mutant: adds the increment first and then also doubles.
next_batch_both(job) ==
  LET step == max(1, (job.batch_size * BATCH_INCREMENT_PERCENT) \div 100)
  IN  IF job.inflight <= INFLIGHT_LOW_RANGE /\ job.batch_size < ENTRIES \div 2
      THEN (job.batch_size + step) * (IF job.inflight = 0 THEN 2 ELSE 1)
      ELSE job.batch_size

\* The adaptive batch of background_reader and background_writer.
next_batch(job) ==
  LET step == max(1, (job.batch_size * BATCH_INCREMENT_PERCENT) \div 100)
  IN  IF job.inflight <= INFLIGHT_LOW_RANGE /\ job.batch_size < ENTRIES \div 2
      THEN IF job.inflight = 0 /\ job.batch_size > 0
           THEN job.batch_size * 2
           ELSE job.batch_size + step
      ELSE IF job.batch_size > 0 /\ job.inflight >= INFLIGHT_HIGH_RANGE
           THEN job.batch_size - step
           ELSE job.batch_size

writer_batch == next_batch(writer)

\* Mutant: the reader follows the writer instead of the flusher.
limit_unflushed == writer.page_id

limit_page_id == flusher.page_id

reader_batch ==
  min(next_batch(reader), (limit_page_id - reader.page_id) % U64)

\* Mutant: does not look whether op_fsync is in use.
flush_due_unguarded == writer.written_no_flush > 0

flush_due == writer.written_no_flush > 0 /\ flusher.inflight = 0

\* Mutant: forgets the reader.
finished_without_reader == writer.running = 0 /\ flusher.running = 0

\* The test that main(), background_tracing and tracing_synced share.
finished ==
  /\ writer.running = 0
  /\ flusher.running = 0
  /\ reader.running = 0

\* Mutant: ignores the free space that cbuf_put returns.
traced_unchecked == IF ~finished THEN tracing.used + 1 ELSE tracing.used

\* Items in the trace ring after this tick's item was put, if it was.
traced == IF tracing.used < TRACING_BUF_LEN /\ ~finished
          THEN tracing.used + 1
          ELSE tracing.used

half_full(used) == TRACING_BUF_LEN - used <= TRACING_BUF_LEN \div 2

\* Mutant: does not look whether dump_op is in use.
dump_due_unguarded == traced > 0 /\ (half_full(traced) \/ finished)

\* dump_tracing_items issues a write: called when the ring is half full, and
\* once more when the other jobs are finished.
dump_due == /\ tracing.inflight = 0
            /\ traced > 0
            /\ half_full(traced) \/ finished

\* Mutant: does not re-arm while a dump is under way.
trace_again_idle == ~finished /\ tracing.inflight = 0

\* background_tracing re-arms its timer, unless its last dump is what remains.
trace_again == \/ ~finished
               \/ tracing.inflight = 1
               \/ traced > 0 /\ half_full(traced)

\* resend_job: re-arm the timer of job j.
Rearm(j, again) == IF again THEN {Timer(j)} ELSE {}

\* Mutant: the loop runs while i <= batch_size.
writer_sqes_one_more ==
  LET next == writer.page_id + writer_batch
  IN  {WriteOp(p) : p \in writer.page_id .. next}
        \cup Rearm("writer", next < Pages)

\* Mutant: page_id is advanced before it is used.
writer_sqes_advanced ==
  LET next == writer.page_id + writer_batch
  IN  {WriteOp(p) : p \in writer.page_id + 1 .. next}
        \cup Rearm("writer", next < Pages)

writer_sqes ==
  LET next == writer.page_id + writer_batch
  IN  {WriteOp(p) : p \in writer.page_id .. next - 1}
        \cup Rearm("writer", next < Pages)

reader_sqes ==
  LET next == reader.page_id + reader_batch
  IN  {ReadOp(p) : p \in reader.page_id .. next - 1}
        \cup Rearm("reader", next < Pages)

\* Mutant: re-arms the timer only when there was nothing to flush.
flusher_sqes_else ==
  IF flush_due THEN {Fsync} ELSE Rearm("flusher", flusher.page_id < Pages)

flusher_sqes ==
  (IF flush_due THEN {Fsync} ELSE {})
    \cup Rearm("flusher", flusher.page_id < Pages)

tracing_sqes ==
  (IF dump_due THEN {Dump} ELSE {}) \cup Rearm("tracing", trace_again)

\* The SQEs that the callback of op asks io_prepare_sqe for.
sqes(op) ==
  CASE op = Timer("writer")  -> writer_sqes
    [] op = Timer("reader")  -> reader_sqes
    [] op = Timer("flusher") -> flusher_sqes
    [] op = Timer("tracing") -> tracing_sqes
    [] op = Timer("status")  -> {Timer("status")}
    [] op = Dump             -> {TSync}
    [] OTHER                 -> {}

-----------------------------------------------------------------------------
(* main() up to the loop: every job is initialised, the enabled ones run. *)

\* run_job, for the jobs that are compiled in.
running(j) == IF j \in Enabled THEN 1 ELSE 0

background_writer_init ==
  writer = [running |-> running("writer"), page_id |-> 0, batch_size |-> 0,
            written_no_flush |-> 0, inflight |-> 0]

background_reader_init ==
  reader = [running |-> running("reader"), page_id |-> 0, batch_size |-> 0,
            inflight |-> 0]

background_flusher_init ==
  flusher = [running |-> running("flusher"), page_id |-> 0, inflight |-> 0,
             write_list |-> << >>]

background_tracing_init ==
  tracing = [running |-> running("tracing"), used |-> 0, items |-> 0,
             inflight |-> 0]

Init ==
  /\ pc = "submit"
  /\ sq = {Timer(j) : j \in Enabled}
  /\ kern = {}
  /\ ahead = [j \in Jobs |-> {}]
  /\ cq = {}
  /\ background_writer_init
  /\ background_reader_init
  /\ background_flusher_init
  /\ background_tracing_init
  /\ page_id_check_order = 0
  /\ disk = {}
  /\ syncset = {}
  /\ durable = {}

-----------------------------------------------------------------------------
(* The kernel and the device (external) *)

\* With Ordered, writes keep their order in the device and in the CQ.
InOrder(op, S) ==
  Ordered /\ op[1] = "write" =>
    \A o \in S : o[1] = "write" => op[2] <= o[2]

\* Timers expire in the order of their deadlines: a timer armed earlier than,
\* or together with, one of a longer period expires before it.  How long any
\* other operation takes is not bounded.
expire_first(newly_armed) ==
  [j \in Jobs |->
     IF Timer(j) \in newly_armed
     THEN {k \in Jobs : /\ Timer(k) \in kern \cup newly_armed
                        /\ Period[k] < Period[j]}
     ELSE ahead[j]]

\* A submitted operation is executed and its CQE posted.  A timer posts
\* -ETIME; a write is on the device, an fsync has flushed what it covers.
complete(op) ==
  /\ pc \in {"submit", "drain"}
  /\ op \in kern
  /\ InOrder(op, kern)
  /\ op[1] = "timer" => ahead[op[2]] = {}
  /\ ahead' = IF op[1] = "timer"
              THEN [j \in Jobs |-> ahead[j] \ {op[2]}]
              ELSE ahead
  /\ kern' = kern \ {op}
  /\ cq' = cq \cup {op}
  /\ disk' = IF op[1] = "write" THEN disk \cup {op[2]} ELSE disk
  /\ durable' = IF op = Fsync THEN durable \cup syncset ELSE durable
  /\ UNCHANGED <<pc, sq, jobs, syncset>>

\* A submitted operation ends with res < 0: io_tick logs the CQE and runs no
\* callback, so that nothing of the scheduler's state changes.
fail(op) ==
  /\ pc \in {"submit", "drain"}
  /\ op \in kern
  /\ op[1] \in MayFail
  /\ kern' = kern \ {op}
  /\ UNCHANGED <<pc, sq, ahead, cq, jobs, device>>

-----------------------------------------------------------------------------
(* The loop of main() and io_tick() *)

\* io_uring_submit.  An fsync is bound to cover what the device has executed
\* when it is submitted, and no more.
io_uring_submit ==
  /\ pc = "submit"
  /\ pc' = "drain"
  /\ kern' = kern \cup sq
  /\ ahead' = expire_first(sq)
  /\ sq' = {}
  /\ syncset' = IF Fsync \in sq THEN disk ELSE syncset
  /\ UNCHANGED <<cq, jobs, disk, durable>>

\* io_tick returns (no CQE is left, or the wait timed out) and main() tests
\* whether the four jobs have stopped.
io_tick_return ==
  /\ pc = "drain"
  /\ cq = {}
  /\ pc' = IF finished /\ tracing.running = 0 THEN "exit" ELSE "submit"
  /\ UNCHANGED <<sq, kern, ahead, cq, jobs, device>>

\* Mutant: the ring is set up with ENTRIES >> 1, the bound of the batches.
sqes_available_half(op) ==
  Cardinality(sq) + Cardinality(sqes(op)) <= ENTRIES \div 2

\* io_prepare_sqe returns no NULL while the callback of op runs.
sqes_available(op) == Cardinality(sq) + Cardinality(sqes(op)) <= ENTRIES

\* The assertions of the callback of op hold.
asserts_hold(op) ==
  /\ sqes_available(op)
  /\ op[1] = "write" => op[2] = page_id_check_order

\* The turn of io_uring_for_each_cqe that delivers op.
Dispatch(op) ==
  /\ pc = "drain"
  /\ op \in cq
  /\ InOrder(op, cq)
  /\ asserts_hold(op)
  /\ cq' = cq \ {op}
  /\ sq' = sq \cup sqes(op)
  /\ UNCHANGED <<pc, kern, ahead, device>>

\* The same turn when an ASSERT of the callback fails: abort().
assert_fails(op) ==
  /\ pc = "drain"
  /\ op \in cq
  /\ InOrder(op, cq)
  /\ ~asserts_hold(op)
  /\ pc' = "abort"
  /\ UNCHANGED <<sq, kern, ahead, cq, jobs, device>>

-----------------------------------------------------------------------------
(* The callbacks *)

\* Mutant: credits the flusher as soon as the write completes.
page_written_credits(p) ==
  /\ Dispatch(WriteOp(p))
  /\ page_id_check_order' = page_id_check_order + 1
  /\ flusher' = [flusher EXCEPT !.page_id = @ + 1]
  /\ writer' = [writer EXCEPT !.inflight = decrement(@)]
  /\ UNCHANGED <<reader, tracing>>

page_written(p) ==
  /\ Dispatch(WriteOp(p))
  /\ page_id_check_order' = page_id_check_order + 1
  /\ flusher' = [flusher EXCEPT !.write_list = Append(@, p)]
  /\ writer' = [writer EXCEPT !.written_no_flush = @ + 1,
                              !.inflight = decrement(@)]
  /\ UNCHANGED <<reader, tracing>>

page_read(p) ==
  /\ Dispatch(ReadOp(p))
  /\ reader' = [reader EXCEPT !.inflight = decrement(@)]
  /\ UNCHANGED <<writer, flusher, tracing, page_id_check_order>>

\* Mutant: resets written_no_flush before it is added.
file_synced_reset_first ==
  /\ Dispatch(Fsync)
  /\ writer' = [writer EXCEPT !.written_no_flush = 0]
  /\ flusher' = [flusher EXCEPT !.page_id = @ + writer'.written_no_flush,
                                !.write_list = << >>,
                                !.inflight = 0]
  /\ UNCHANGED <<reader, tracing, page_id_check_order>>

file_synced ==
  /\ Dispatch(Fsync)
  /\ flusher' = [flusher EXCEPT !.page_id = @ + writer.written_no_flush,
                                !.write_list = << >>,
                                !.inflight = 0]
  /\ writer' = [writer EXCEPT !.written_no_flush = 0]
  /\ UNCHANGED <<reader, tracing, page_id_check_order>>

background_writer ==
  LET next == writer.page_id + writer_batch
  IN  /\ Dispatch(Timer("writer"))
      /\ writer' = [writer EXCEPT
                      !.batch_size = writer_batch,
                      !.inflight = (@ + writer_batch) % U8,
                      !.page_id = next,
                      !.running = IF next < Pages THEN @ ELSE 0]
      /\ UNCHANGED <<reader, flusher, tracing, page_id_check_order>>

background_reader ==
  LET next == reader.page_id + reader_batch
  IN  /\ Dispatch(Timer("reader"))
      /\ reader' = [reader EXCEPT
                      !.batch_size = reader_batch,
                      !.inflight = (@ + reader_batch) % U8,
                      !.page_id = next,
                      !.running = IF next < Pages THEN @ ELSE 0]
      /\ UNCHANGED <<writer, flusher, tracing, page_id_check_order>>

background_flusher ==
  /\ Dispatch(Timer("flusher"))
  /\ flusher' = [flusher EXCEPT
                   !.inflight = IF flush_due THEN 1 ELSE @,
                   !.running = IF flusher.page_id < Pages THEN @ ELSE 0]
  /\ UNCHANGED <<writer, reader, tracing, page_id_check_order>>

background_tracing ==
  /\ Dispatch(Timer("tracing"))
  /\ tracing' = [tracing EXCEPT
                   !.used = traced,
                   !.items = IF dump_due THEN traced ELSE @,
                   !.inflight = IF dump_due THEN 1 ELSE @]
  /\ UNCHANGED <<writer, reader, flusher, page_id_check_order>>

\* The trace write is complete: its items leave the ring and an fsync of the
\* trace file follows, on the same struct op.
tracing_writed ==
  /\ Dispatch(Dump)
  /\ tracing' = [tracing EXCEPT !.used = @ - tracing.items]
  /\ UNCHANGED <<writer, reader, flusher, page_id_check_order>>

tracing_synced ==
  /\ Dispatch(TSync)
  /\ tracing' = [tracing EXCEPT !.inflight = 0,
                                !.running = IF finished THEN 0 ELSE @]
  /\ UNCHANGED <<writer, reader, flusher, page_id_check_order>>

\* The status job only moves the statistics window (module Stats).
background_status ==
  /\ Dispatch(Timer("status"))
  /\ UNCHANGED jobs

Callback ==
  \/ \E op \in cq : op[1] = "write" /\ page_written(op[2])
  \/ \E op \in cq : op[1] = "read" /\ page_read(op[2])
  \/ file_synced
  \/ background_writer
  \/ background_reader
  \/ background_flusher
  \/ background_tracing
  \/ tracing_writed
  \/ tracing_synced
  \/ background_status

Program ==
  \/ io_uring_submit
  \/ io_tick_return
  \/ Callback
  \/ \E op \in cq : assert_fails(op)

Kernel == \E op \in kern : complete(op) \/ fail(op)

Next == Program \/ Kernel

Spec == Init /\ [][Next]_vars

\* Every operation that can be prepared: the writer stays below 2 * Pages
\* (Overshoot), the reader behind the writer.
PossibleOp ==
  ({"write", "read"} \X (0 .. 2 * Pages - 1)) \cup ({"timer"} \X Jobs)
    \cup {Fsync, Dump, TSync}

\* The thread never stops by itself, and the kernel executes each operation it
\* was given: timers expire, and reads, writes and fsyncs end.
Fairness ==
  /\ WF_vars(Program)
  /\ \A op \in PossibleOp : WF_vars(complete(op))

FairSpec == Spec /\ Fairness

-----------------------------------------------------------------------------
(* Properties *)

\* Every variable holds a value of its C type; the trace ring never holds
\* more items than it has room for, nor fewer than none.
TypeOK ==
  /\ pc \in {"submit", "drain", "exit", "abort"}
  /\ sq \in SUBSET Op
  /\ kern \in SUBSET Op
  /\ ahead \in [Jobs -> SUBSET Jobs]
  /\ cq \in SUBSET Op
  /\ writer \in WriterJob
  /\ reader \in ReaderJob
  /\ flusher \in FlusherJob
  /\ tracing \in TracingJob
  /\ page_id_check_order \in Nat
  /\ disk \in SUBSET Nat
  /\ syncset \in SUBSET Nat
  /\ durable \in SUBSET Nat

\* A struct op is owned by one party at a time: it is prepared, in the kernel
\* or completed, never two of these.  The jobs, the fsync and the trace dump
\* each reuse one embedded struct op (io_prepare_sqe overwrites its callback),
\* so an op prepared twice would run the wrong callback.
OneOwner ==
  /\ sq \cap kern = {}
  /\ sq \cap cq = {}
  /\ kern \cap cq = {}

\* The pages whose write completed are those credited to the flusher plus
\* those waiting in its write_list, which file_synced will free, in page order
\* and without a gap.
FlushAccounting ==
  /\ flusher.page_id + writer.written_no_flush = page_id_check_order
  /\ flusher.write_list = [i \in 1 .. writer.written_no_flush |->
                             flusher.page_id + i - 1]

\* The reader stays behind the flusher, and a read is only ever in flight for
\* a page that the device holds (page_read compares what it got with what was
\* written).
ReadsFollowWrites ==
  /\ reader.page_id <= flusher.page_id
  /\ \A op \in InRing : op[1] = "read" => op[2] \in disk

\* writer_job.inflight is a __u8: it is the number of writes without a
\* callback modulo 256, whatever the batches, also after a failed write.
InflightModulo ==
  writer.inflight = (writer.page_id - page_id_check_order) % U8

\* reader_job.inflight is the number of reads in flight modulo 256.
ReaderInflightModulo ==
  reader.inflight = Cardinality({op \in InRing : op[1] = "read"}) % U8

\* A job that is marked running has its timer armed or about to be delivered;
\* otherwise nothing would ever call it again and main() would never end.
RunningIsArmed ==
  /\ writer.running = 1 => Timer("writer") \in InRing
  /\ reader.running = 1 => Timer("reader") \in InRing
  /\ flusher.running = 1 => Timer("flusher") \in InRing

\* The writer checks its target only after a whole batch: it writes past the
\* target, but never as much again as it was asked for.
Overshoot == writer.page_id < 2 * Pages

\* While the trace dump is being written its items stay in the ring, so that
\* advancing the head never passes the tail; and dump_op serves one request
\* at a time.
DumpHoldsItems ==
  /\ Dump \in InRing => tracing.items \in 1 .. tracing.used
  /\ Dump \in InRing \/ TSync \in InRing => tracing.inflight = 1
  /\ ~(Dump \in InRing /\ TSync \in InRing)

\* main() leaves its loop only when every page asked for has been written to
\* the device and credited to the flusher, and an enabled reader has asked for
\* every one of them, whatever operations failed on the way.
ExitComplete ==
  pc = "exit" =>
    /\ 0 .. Pages - 1 \subseteq disk
    /\ Pages <= flusher.page_id
    /\ "reader" \in Enabled => Pages <= reader.page_id

\* Whenever the flusher advances its mark, everything it had credited before
\* is durable: the mark runs ahead of the device by at most one fsync.
DurableLag ==
  [][flusher.page_id' # flusher.page_id =>
       0 .. flusher.page_id - 1 \subseteq durable]_vars

\* The scheduler implements the abstract pipeline: page_written, file_synced,
\* the writer's and the reader's batches and the end of main() are its stages,
\* and every other step, a failed operation or abort() included, is invisible.
Abstract == INSTANCE Pipeline WITH
  Target <- Pages, ReadBack <- "reader" \in Enabled,
  issued <- writer.page_id, written <- page_id_check_order,
  flushed <- flusher.page_id, read <- reader.page_id, done <- pc = "exit"

\* Refinement of Pipeline, under whatever order and failures of completions.
ImplementsPipeline == Abstract!PipelineSpec

\* ASSERT(op->page_id == page_id_check_order) of page_written never fails.
WritesCompleteInOrder ==
  \A op \in cq : pc = "drain" /\ op[1] = "write" /\ InOrder(op, cq) =>
    op[2] = page_id_check_order

\* What the submission queue has to hold when the callback of op runs: a batch
\* of each kind, a timer of each job, an fsync and a trace dump.
queue_need(op) ==
  (IF op = Timer("writer") THEN writer_batch ELSE writer.batch_size)
    + (IF op = Timer("reader") THEN reader_batch ELSE reader.batch_size)
    + Cardinality(Enabled)
    + (IF "tracing" \in Enabled THEN 2 ELSE 1)

\* However many callbacks one io_tick runs with nothing submitted in between,
\* together they prepare no more than that: of each kind only the last batch.
\* io_prepare_sqe can return NULL only once the batches come near ENTRIES.
QueueBounded ==
  pc = "drain" =>
    \A op \in cq : Cardinality(sq) + Cardinality(sqes(op)) <= queue_need(op)

\* Of the two assertions of the callbacks, on a device that keeps the order of
\* its writes only the ASSERT on io_prepare_sqe's result can fail, and only when
\* the batches of writer and reader have together outgrown the queue.
AbortIsOverflow == pc = "abort" => \E op \in cq : queue_need(op) > ENTRIES

\* main() returns.
Termination == <>(pc = "exit")

\* One way in which main() may fail to return: the other jobs are finished
\* and the trace ring was found empty, so that background_tracing neither
\* re-armed its timer nor started the dump whose fsync would stop the job.
TraceStall ==
  /\ finished
  /\ tracing.running = 1
  /\ tracing.used = 0
  /\ InRing \cap {Timer("tracing"), Dump, TSync} = {}

\* The other: a write or fsync of the trace failed, dump_op.inflight stays 1 and
\* the tracing job re-arms its timer for ever.
DumpLost == tracing.inflight = 1 /\ InRing \cap {Dump, TSync} = {}

\* main() returns, or the tracing job stalls, or it has lost its dump.
TerminationOrStall == <>(pc = "exit" \/ TraceStall \/ DumpLost)

\* io_tick drops a CQE with res < 0 without telling anyone.  Three losses cannot
\* be made good.  An fsync: flusher_job.inflight stays 1, no other is ever sent.
\* A write with no later one to trip over the gap it left.
FsyncLost == flusher.inflight = 1 /\ Fsync \notin InRing
WriteLost == /\ writer.running = 0
             /\ page_id_check_order < writer.page_id
             /\ \A op \in InRing : op[1] # "write"

\* And as many reads, or writes, as leave the counter of their job above the low
\* mark when nothing is in flight: once its batch has come down to 0 (the reader
\* had caught up with the flusher, or the counter is at the high mark) it stays
\* 0, and the job re-arms its timer for ever without an operation.
Starved(job, kind) ==
  /\ job.running = 1
  /\ job.batch_size = 0
  /\ job.inflight > INFLIGHT_LOW_RANGE
  /\ \A op \in InRing : op[1] # kind

\* Whatever fails, in whatever order the rest completes, main() returns or
\* aborts, or an fsync or the last writes are lost, or lost operations starve
\* the reader or the writer: nothing else keeps main() from returning.
FaultOutcome ==
  <>(\/ pc \in {"exit", "abort"}
     \/ FsyncLost
     \/ WriteLost
     \/ Starved(reader, "read")
     \/ Starved(writer, "write"))
=============================================================================
