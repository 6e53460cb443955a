--------------------------- MODULE SchedulerProofs ---------------------------
(***************************************************************************)
(* Proofs about module Scheduler, for every value of its constants: any    *)
(* number of pages, any ring size, any widths, any order of completions    *)
(* and any failures.                                                       *)
(***************************************************************************)
EXTENDS Scheduler, Arithmetic, SequenceTheorems, FiniteSetTheorems, TLAPS

-----------------------------------------------------------------------------
(* The inductive invariant *)

\* Writes and reads in the ring are of pages that were issued, the fsync and
\* the dump are in the ring only while their job says so, and an fsync is never
\* on its way for nothing.
RingInv ==
  /\ OneOwner
  /\ \A p : WriteOp(p) \in InRing => p < writer.page_id
  /\ \A p : ReadOp(p) \in InRing => p < reader.page_id
  /\ Fsync \in InRing => flusher.inflight = 1 /\ writer.written_no_flush > 0
  /\ DumpHoldsItems

\* The stages are in order; the writer is called again only below its target
\* and its batch is at most about half of what it issued, so that one more
\* batch cannot double the target; a job that stopped has done its work.
FlowInv ==
  /\ FlushAccounting
  /\ page_id_check_order <= writer.page_id
  /\ reader.page_id <= flusher.page_id
  /\ Timer("writer") \in InRing => writer.page_id < Pages
  /\ writer.batch_size > 0 => 2 * writer.batch_size <= writer.page_id + 1
  /\ Overshoot
  /\ flusher.running = 0 => Pages <= flusher.page_id
  /\ reader.running = 0 /\ "reader" \in Enabled => Pages <= reader.page_id
  /\ pc = "exit" => flusher.running = 0 /\ reader.running = 0

\* The device holds every page whose write was delivered, and an fsync that is
\* under way covers every page that was credited when it was submitted.
DeviceInv ==
  /\ \A p \in Nat : p < page_id_check_order => p \in disk
  /\ \A p : WriteOp(p) \in cq => p \in disk
  /\ Fsync \in kern => \A p \in Nat : p < flusher.page_id => p \in syncset
  /\ Fsync \in cq => \A p \in Nat : p < flusher.page_id => p \in durable

IndInv ==
  TypeOK /\ RingInv /\ FlowInv /\ DeviceInv /\ RunningIsArmed /\ InflightModulo

-----------------------------------------------------------------------------
(* Operators *)

\* An 8-bit counter stays in range.
LEMMA Wrap ==
  ASSUME NEW x \in Int
  PROVE  x % U8 \in 0 .. U8 - 1
  BY ModRange, SchedulerAssumption DEF SchedulerAssumption

\* What the proofs need of the constants.
LEMMA Widths ==
  /\ U8 \in Nat \ {0}
  /\ \A n \in 0 .. U8 - 1 : n \in Nat
  /\ TRACING_BUF_LEN \in Nat \ {0}
  /\ Pages \in Nat \ {0}
  BY SchedulerAssumption DEF SchedulerAssumption

\* inflight-- stays in range.
LEMMA Decrement ==
  ASSUME NEW n \in 0 .. U8 - 1
  PROVE  decrement(n) \in 0 .. U8 - 1
  <1>1. n - 1 \in Int
    BY Widths
  <1> QED
    BY <1>1, Wrap DEF decrement

\* The types of the fields.
LEMMA Fields ==
  ASSUME TypeOK
  PROVE  /\ writer.running \in {0, 1}
         /\ writer.page_id \in Nat
         /\ writer.batch_size \in Nat
         /\ writer.written_no_flush \in Nat
         /\ writer.inflight \in 0 .. U8 - 1
         /\ reader.running \in {0, 1}
         /\ reader.page_id \in Nat
         /\ reader.batch_size \in Nat
         /\ reader.inflight \in 0 .. U8 - 1
         /\ flusher.running \in {0, 1}
         /\ flusher.page_id \in Nat
         /\ flusher.inflight \in {0, 1}
         /\ flusher.write_list \in Seq(Nat)
         /\ tracing.running \in {0, 1}
         /\ tracing.used \in 0 .. TRACING_BUF_LEN
         /\ tracing.items \in 0 .. TRACING_BUF_LEN
         /\ tracing.inflight \in {0, 1}
  BY DEF TypeOK, WriterJob, ReaderJob, FlusherJob, TracingJob

\* The adaptive batch at most doubles, and starts with one.
LEMMA NextBatch ==
  ASSUME NEW job, job.batch_size \in Nat, job.inflight \in Nat
  PROVE  /\ next_batch(job) \in Nat
         /\ job.batch_size = 0 => next_batch(job) <= 1
         /\ job.batch_size > 0 => next_batch(job) <= 2 * job.batch_size
  BY SchedulerAssumption
  DEF next_batch, max, BATCH_INCREMENT_PERCENT, SchedulerAssumption

\* The writer's batch.
LEMMA WriterBatch ==
  ASSUME TypeOK
  PROVE  /\ writer_batch \in Nat
         /\ writer.batch_size = 0 => writer_batch <= 1
         /\ writer.batch_size > 0 => writer_batch <= 2 * writer.batch_size
  <1>1. writer.batch_size \in Nat /\ writer.inflight \in Nat
    BY Fields, Widths
  <1> QED
    BY <1>1, NextBatch DEF writer_batch

\* The reader asks for no more than the flusher has credited.
LEMMA ReaderBatch ==
  ASSUME TypeOK
  PROVE  /\ reader_batch \in Nat
         /\ reader.page_id <= flusher.page_id =>
              reader.page_id + reader_batch <= flusher.page_id
  <1>1. reader.batch_size \in Nat /\ reader.inflight \in Nat
    BY Fields, Widths
  <1>2. next_batch(reader) \in Nat
    BY <1>1, NextBatch
  <1>3. /\ flusher.page_id - reader.page_id \in Int
        /\ flusher.page_id \in Nat /\ reader.page_id \in Nat
    BY Fields
  <1>4. U64 \in Nat \ {0}
    BY SchedulerAssumption DEF SchedulerAssumption
  <1>5. (flusher.page_id - reader.page_id) % U64 \in Nat
    BY <1>3, <1>4, ModRange
  <1>6. reader.page_id <= flusher.page_id =>
          (flusher.page_id - reader.page_id) % U64
            <= flusher.page_id - reader.page_id
    BY <1>3, <1>4, ModLe
  <1> QED
    BY <1>2, <1>3, <1>5, <1>6 DEF reader_batch, min, limit_page_id

\* The number of items in the trace ring after a tick of the tracing job.
LEMMA Traced ==
  ASSUME TypeOK
  PROVE  /\ traced \in 0 .. TRACING_BUF_LEN
         /\ tracing.used <= traced
  <1>1. tracing.used \in 0 .. TRACING_BUF_LEN /\ TRACING_BUF_LEN \in Nat
    BY Fields, Widths
  <1>2. traced = tracing.used
          \/ (tracing.used < TRACING_BUF_LEN /\ traced = tracing.used + 1)
    BY DEF traced
  <1> QED
    BY <1>1, <1>2

\* What each callback prepares.
LEMMA SqesOf ==
  /\ \A p : sqes(WriteOp(p)) = {} /\ sqes(ReadOp(p)) = {}
  /\ sqes(Fsync) = {}
  /\ sqes(TSync) = {}
  /\ sqes(Dump) = {TSync}
  /\ sqes(Timer("writer")) = writer_sqes
  /\ sqes(Timer("reader")) = reader_sqes
  /\ sqes(Timer("flusher")) = flusher_sqes
  /\ sqes(Timer("tracing")) = tracing_sqes
  /\ sqes(Timer("status")) = {Timer("status")}
  BY DEF sqes, WriteOp, ReadOp, Fsync, TSync, Dump, Timer

\* Different operations are different struct ops.
LEMMA OpsDiffer ==
  /\ \A p, q : WriteOp(p) # ReadOp(q)
  /\ \A p, q : WriteOp(p) = WriteOp(q) => p = q
  /\ \A p, q : ReadOp(p) = ReadOp(q) => p = q
  /\ \A p, j : WriteOp(p) # Timer(j) /\ ReadOp(p) # Timer(j)
  /\ \A p : WriteOp(p) \notin {Fsync, Dump, TSync}
  /\ \A p : ReadOp(p) \notin {Fsync, Dump, TSync}
  /\ \A j : Timer(j) \notin {Fsync, Dump, TSync}
  /\ \A j, k : Timer(j) = Timer(k) => j = k
  /\ Fsync # Dump /\ Fsync # TSync /\ Dump # TSync
  BY DEF WriteOp, ReadOp, Timer, Fsync, Dump, TSync

\* Which tuples are operations.
LEMMA OpTypes ==
  /\ \A p : WriteOp(p) \in Op => p \in Nat
  /\ \A p : ReadOp(p) \in Op => p \in Nat
  /\ \A p \in Nat : WriteOp(p) \in Op /\ ReadOp(p) \in Op
  /\ \A j \in Jobs : Timer(j) \in Op
  /\ Fsync \in Op /\ Dump \in Op /\ TSync \in Op
  BY DEF WriteOp, ReadOp, Timer, Fsync, Dump, TSync, Op

\* Only operations are prepared.
LEMMA SqesType ==
  ASSUME TypeOK
  PROVE  /\ writer_sqes \subseteq Op
         /\ reader_sqes \subseteq Op
         /\ flusher_sqes \subseteq Op
         /\ tracing_sqes \subseteq Op
  <1>1. /\ writer.page_id \in Nat /\ writer_batch \in Nat
        /\ reader.page_id \in Nat /\ reader_batch \in Nat
    BY WriterBatch, ReaderBatch, Fields
  <1>2. /\ \A p \in writer.page_id .. (writer.page_id + writer_batch) - 1 : p \in Nat
        /\ \A p \in reader.page_id .. (reader.page_id + reader_batch) - 1 : p \in Nat
    BY <1>1
  <1>3. \A j \in {"writer", "reader", "flusher", "tracing"} :
          \A b : Rearm(j, b) \subseteq Op
    BY OpTypes DEF Rearm, Jobs
  <1>4. writer_sqes \subseteq Op
    BY <1>2, <1>3, OpTypes DEF writer_sqes
  <1>5. reader_sqes \subseteq Op
    BY <1>2, <1>3, OpTypes DEF reader_sqes
  <1>6. flusher_sqes \subseteq Op
    BY <1>3, OpTypes DEF flusher_sqes
  <1>7. tracing_sqes \subseteq Op
    BY <1>3, OpTypes DEF tracing_sqes
  <1> QED
    BY <1>4, <1>5, <1>6, <1>7

\* The next-state relation, one disjunct per action.
LEMMA NextCases ==
  ASSUME Next
  PROVE  \/ io_uring_submit
         \/ io_tick_return
         \/ \E op : assert_fails(op)
         \/ \E op : complete(op)
         \/ \E op : fail(op)
         \/ \E p : page_written(p)
         \/ \E p : page_read(p)
         \/ file_synced
         \/ background_writer
         \/ background_reader
         \/ background_flusher
         \/ background_tracing
         \/ tracing_writed
         \/ tracing_synced
         \/ background_status
  <1>1. CASE Kernel
    BY <1>1 DEF Kernel
  <1>2. CASE Program
    BY <1>2 DEF Program, Callback
  <1> QED
    BY <1>1, <1>2 DEF Next

\* Every operation moves through the ring in one piece: a delivered one leaves
\* it, and what its callback prepares enters.
LEMMA DispatchRing ==
  ASSUME OneOwner, NEW op, Dispatch(op), sqes(op) \cap InRing \subseteq {op}
  PROVE  /\ OneOwner'
         /\ InRing' = (InRing \ {op}) \cup sqes(op)
         /\ op \in InRing
  BY DEF OneOwner, InRing, Dispatch

\* The kernel completes an operation: it stays in the ring.
LEMMA CompleteRing ==
  ASSUME OneOwner, NEW op, complete(op)
  PROVE  OneOwner' /\ InRing' = InRing
  BY DEF OneOwner, InRing, complete

\* A failed operation leaves the ring.
LEMMA FailRing ==
  ASSUME OneOwner, NEW op, fail(op)
  PROVE  OneOwner' /\ InRing' = InRing \ {op}
  BY DEF OneOwner, InRing, fail

\* Submission moves operations inside the ring.
LEMMA SubmitRing ==
  ASSUME OneOwner, io_uring_submit
  PROVE  OneOwner' /\ InRing' = InRing
  BY DEF OneOwner, InRing, io_uring_submit

-----------------------------------------------------------------------------
(* Types *)

\* The set-up in main() has the right types.
LEMMA TypeInit ==
  ASSUME Init
  PROVE  TypeOK
  <1>1. {Timer(j) : j \in Enabled} \subseteq Op
    BY OpTypes, SchedulerAssumption DEF SchedulerAssumption
  <1>2. \A j \in Jobs : running(j) \in {0, 1}
    BY DEF running
  <1> QED
    BY <1>1, <1>2, SchedulerAssumption
    DEF Init, background_writer_init, background_reader_init,
      background_flusher_init, background_tracing_init,
      TypeOK, SchedulerAssumption, Jobs,
      WriterJob, ReaderJob, FlusherJob, TracingJob

\* The parts of the state a callback leaves to Dispatch.
LEMMA DispatchType ==
  ASSUME TypeOK, NEW op, Dispatch(op), sqes(op) \subseteq Op
  PROVE  /\ pc' \in {"submit", "drain", "exit", "abort"}
         /\ sq' \in SUBSET Op
         /\ kern' \in SUBSET Op
         /\ ahead' \in [Jobs -> SUBSET Jobs]
         /\ cq' \in SUBSET Op
         /\ disk' \in SUBSET Nat
         /\ syncset' \in SUBSET Nat
         /\ durable' \in SUBSET Nat
  BY DEF Dispatch, TypeOK, device

\* Every step keeps the types.  Only tracing_writed needs more than the types:
\* the head may advance by dump_op.items because these are still in the ring.
LEMMA TypeStep ==
  ASSUME TypeOK, RingInv, [Next]_vars
  PROVE  TypeOK'
  <1>1. CASE io_uring_submit
    <2>1. expire_first(sq) \in [Jobs -> SUBSET Jobs]
      BY DEF expire_first, TypeOK
    <2> QED
      BY <1>1, <2>1 DEF io_uring_submit, TypeOK, jobs
  <1>2. CASE io_tick_return
    BY <1>2 DEF io_tick_return, TypeOK, jobs, device
  <1>3. ASSUME NEW op, assert_fails(op) PROVE TypeOK'
    BY <1>3 DEF assert_fails, TypeOK, jobs, device
  <1>4. ASSUME NEW op, complete(op) PROVE TypeOK'
    <2>1. op[1] = "write" => op[2] \in Nat
      BY <1>4 DEF complete, TypeOK, Op, Fsync, Dump, TSync
    <2>2. ahead' \in [Jobs -> SUBSET Jobs]
      BY <1>4 DEF complete, TypeOK
    <2>3. /\ disk' \in SUBSET Nat
          /\ durable' \in SUBSET Nat
          /\ syncset' \in SUBSET Nat
      BY <1>4, <2>1 DEF complete, TypeOK
    <2> QED
      BY <1>4, <2>2, <2>3 DEF complete, TypeOK, jobs
  <1>5. ASSUME NEW op, fail(op) PROVE TypeOK'
    BY <1>5 DEF fail, TypeOK, jobs, device
  <1>6. ASSUME NEW p, page_written(p) PROVE TypeOK'
    <2>1. p \in Nat
      BY <1>6, OpTypes DEF page_written, Dispatch, TypeOK
    <2>2. flusher' \in FlusherJob
      <3>1. Append(flusher.write_list, p) \in Seq(Nat)
        BY <2>1, Fields
      <3>2. flusher' = [flusher EXCEPT !.write_list = Append(@, p)]
        BY <1>6 DEF page_written
      <3> QED
        BY <3>1, <3>2, Fields DEF TypeOK, FlusherJob
    <2>3. writer' \in WriterJob
      <3>1. decrement(writer.inflight) \in 0 .. U8 - 1
        BY Decrement, Fields
      <3>2. writer' = [writer EXCEPT !.written_no_flush = @ + 1,
                                     !.inflight = decrement(@)]
        BY <1>6 DEF page_written
      <3>3. writer.written_no_flush + 1 \in Nat
        BY Fields
      <3> QED
        BY <3>1, <3>2, <3>3, Fields DEF TypeOK, WriterJob
    <2> QED
      BY <1>6, <2>2, <2>3, DispatchType, SqesOf DEF page_written, TypeOK
  <1>7. ASSUME NEW p, page_read(p) PROVE TypeOK'
    <2>1. reader' \in ReaderJob
      BY <1>7, Decrement, Fields DEF page_read, TypeOK, ReaderJob
    <2> QED
      BY <1>7, <2>1, DispatchType, SqesOf DEF page_read, TypeOK
  <1>8. CASE file_synced
    <2>1. flusher' \in FlusherJob
      <3>1. << >> \in Seq(Nat)
        OBVIOUS
      <3>2. flusher.page_id + writer.written_no_flush \in Nat
        BY Fields
      <3>3. flusher' = [flusher EXCEPT
                          !.page_id = @ + writer.written_no_flush,
                          !.write_list = << >>,
                          !.inflight = 0]
        BY <1>8 DEF file_synced
      <3> QED
        BY <3>1, <3>2, <3>3, Fields DEF TypeOK, FlusherJob
    <2>2. writer' \in WriterJob
      BY <1>8, Fields DEF file_synced, TypeOK, WriterJob
    <2> QED
      BY <1>8, <2>1, <2>2, DispatchType, SqesOf DEF file_synced, TypeOK
  <1>9. CASE background_writer
    <2>1. /\ (writer.inflight + writer_batch) % U8 \in 0 .. U8 - 1
          /\ writer.page_id + writer_batch \in Nat
      <3>1. writer.inflight + writer_batch \in Int
        BY Widths, WriterBatch, Fields
      <3>2. writer.page_id + writer_batch \in Nat
        BY WriterBatch, Fields
      <3> QED
        BY <3>1, <3>2, Wrap
    <2>2. writer' \in WriterJob
      BY <1>9, <2>1, WriterBatch, Fields DEF background_writer, TypeOK, WriterJob
    <2> QED
      BY <1>9, <2>2, DispatchType, SqesOf, SqesType DEF background_writer, TypeOK
  <1>10. CASE background_reader
    <2>1. /\ (reader.inflight + reader_batch) % U8 \in 0 .. U8 - 1
          /\ reader.page_id + reader_batch \in Nat
      <3>1. reader.inflight + reader_batch \in Int
        BY Widths, ReaderBatch, Fields
      <3>2. reader.page_id + reader_batch \in Nat
        BY ReaderBatch, Fields
      <3> QED
        BY <3>1, <3>2, Wrap
    <2>2. reader' \in ReaderJob
      BY <1>10, <2>1, ReaderBatch, Fields DEF background_reader, TypeOK, ReaderJob
    <2> QED
      BY <1>10, <2>2, DispatchType, SqesOf, SqesType DEF background_reader, TypeOK
  <1>11. CASE background_flusher
    <2>1. flusher' \in FlusherJob
      BY <1>11, Fields DEF background_flusher, TypeOK, FlusherJob
    <2> QED
      BY <1>11, <2>1, DispatchType, SqesOf, SqesType DEF background_flusher, TypeOK
  <1>12. CASE background_tracing
    <2>1. tracing' \in TracingJob
      BY <1>12, Traced, Fields DEF background_tracing, TypeOK, TracingJob
    <2> QED
      BY <1>12, <2>1, DispatchType, SqesOf, SqesType DEF background_tracing, TypeOK
  <1>13. CASE tracing_writed
    <2>1. tracing.items \in 1 .. tracing.used
      BY <1>13 DEF RingInv, tracing_writed, Dispatch, DumpHoldsItems, InRing
    <2>2. tracing.used - tracing.items \in 0 .. TRACING_BUF_LEN
      BY <2>1, Fields, Widths, SMTT(30)
    <2>3. tracing' \in TracingJob
      BY <1>13, <2>2, Fields DEF tracing_writed, TypeOK, TracingJob
    <2> QED
      BY <1>13, <2>3, DispatchType, SqesOf, OpTypes DEF tracing_writed, TypeOK
  <1>14. CASE tracing_synced
    <2>1. tracing' \in TracingJob
      BY <1>14, Fields DEF tracing_synced, TypeOK, TracingJob
    <2> QED
      BY <1>14, <2>1, DispatchType, SqesOf DEF tracing_synced, TypeOK
  <1>15. CASE background_status
    BY <1>15, DispatchType, SqesOf, OpTypes DEF background_status, TypeOK, jobs, Jobs
  <1>16. CASE UNCHANGED vars
    BY <1>16 DEF vars, jobs, device, TypeOK
  <1> QED
    BY <1>1, <1>2, <1>3, <1>4, <1>5, <1>6, <1>7, <1>8, <1>9, <1>10, <1>11,
       <1>12, <1>13, <1>14, <1>15, <1>16, NextCases

-----------------------------------------------------------------------------
(* The ring *)

\* At the start only timers are in the ring.
LEMMA RingInit ==
  ASSUME Init
  PROVE  RingInv
  <1>1. InRing = {Timer(j) : j \in Enabled}
    BY DEF Init, InRing
  <1>2. OneOwner
    BY DEF Init, OneOwner
  <1> QED
    BY <1>1, <1>2, OpsDiffer DEF RingInv, DumpHoldsItems

\* A step that adds nothing to the ring and leaves the jobs alone.
LEMMA RingShrinks ==
  ASSUME RingInv, OneOwner', InRing' \subseteq InRing, UNCHANGED jobs
  PROVE  RingInv'
  BY DEF RingInv, DumpHoldsItems, jobs

\* What the writer and the reader prepare is new.
LEMMA FreshSqes ==
  ASSUME TypeOK, RingInv
  PROVE  /\ writer_sqes \cap InRing \subseteq {Timer("writer")}
         /\ reader_sqes \cap InRing \subseteq {Timer("reader")}
         /\ flusher_sqes \cap InRing \subseteq {Timer("flusher")}
         /\ tracing_sqes \cap InRing \subseteq {Timer("tracing")}
  <1>1. \A p \in writer.page_id .. (writer.page_id + writer_batch) - 1 :
          WriteOp(p) \notin InRing
    BY WriterBatch, Fields DEF RingInv
  <1>2. \A p \in reader.page_id .. (reader.page_id + reader_batch) - 1 :
          ReadOp(p) \notin InRing
    BY ReaderBatch, Fields DEF RingInv
  <1>3. flush_due => Fsync \notin InRing
    BY DEF flush_due, RingInv
  <1>4. dump_due => Dump \notin InRing
    BY DEF dump_due, RingInv, DumpHoldsItems
  <1>5. writer_sqes \cap InRing \subseteq {Timer("writer")}
    BY <1>1 DEF writer_sqes, Rearm
  <1>6. reader_sqes \cap InRing \subseteq {Timer("reader")}
    BY <1>2 DEF reader_sqes, Rearm
  <1>7. flusher_sqes \cap InRing \subseteq {Timer("flusher")}
    BY <1>3 DEF flusher_sqes, Rearm
  <1>8. tracing_sqes \cap InRing \subseteq {Timer("tracing")}
    BY <1>4 DEF tracing_sqes, Rearm
  <1> QED
    BY <1>5, <1>6, <1>7, <1>8

\* Every step keeps the ring invariant.
LEMMA RingStep ==
  ASSUME TypeOK, RingInv, [Next]_vars
  PROVE  RingInv'
  <1>0. OneOwner
    BY DEF RingInv
  <1>1. CASE io_uring_submit
    BY <1>0, <1>1, SubmitRing, RingShrinks DEF io_uring_submit
  <1>2. CASE io_tick_return
    BY <1>0, <1>2, RingShrinks DEF io_tick_return, OneOwner, InRing
  <1>3. ASSUME NEW op, assert_fails(op) PROVE RingInv'
    BY <1>0, <1>3, RingShrinks DEF assert_fails, OneOwner, InRing
  <1>4. ASSUME NEW op, complete(op) PROVE RingInv'
    BY <1>0, <1>4, CompleteRing, RingShrinks DEF complete
  <1>5. ASSUME NEW op, fail(op) PROVE RingInv'
    BY <1>0, <1>5, FailRing, RingShrinks DEF fail
  <1>6. ASSUME NEW p, page_written(p) PROVE RingInv'
    <2>1. OneOwner' /\ InRing' = InRing \ {WriteOp(p)}
      BY <1>0, <1>6, DispatchRing, SqesOf DEF page_written
    <2>2. /\ writer'.page_id = writer.page_id
          /\ writer'.written_no_flush = writer.written_no_flush + 1
          /\ flusher'.inflight = flusher.inflight
      BY <1>6 DEF page_written, TypeOK, WriterJob, FlusherJob
    <2>3. writer.written_no_flush \in Nat
      BY Fields
    <2> QED
      BY <1>6, <2>1, <2>2, <2>3 DEF page_written, RingInv, DumpHoldsItems
  <1>7. ASSUME NEW p, page_read(p) PROVE RingInv'
    <2>1. OneOwner' /\ InRing' = InRing \ {ReadOp(p)}
      BY <1>0, <1>7, DispatchRing, SqesOf DEF page_read
    <2>2. reader'.page_id = reader.page_id
      BY <1>7 DEF page_read, TypeOK, ReaderJob
    <2> QED
      BY <1>7, <2>1, <2>2 DEF page_read, RingInv, DumpHoldsItems
  <1>8. CASE file_synced
    <2>1. OneOwner' /\ InRing' = InRing \ {Fsync}
      BY <1>0, <1>8, DispatchRing, SqesOf DEF file_synced
    <2>2. writer'.page_id = writer.page_id
      BY <1>8 DEF file_synced, TypeOK, WriterJob
    <2> QED
      BY <1>8, <2>1, <2>2 DEF file_synced, RingInv, DumpHoldsItems
  <1>9. CASE background_writer
    <2>1. /\ OneOwner'
          /\ InRing' = (InRing \ {Timer("writer")}) \cup writer_sqes
      BY <1>0, <1>9, DispatchRing, SqesOf, FreshSqes DEF background_writer
    <2>2. /\ writer'.page_id = writer.page_id + writer_batch
          /\ writer'.written_no_flush = writer.written_no_flush
      BY <1>9 DEF background_writer, TypeOK, WriterJob
    <2>3. \A p : WriteOp(p) \in writer_sqes =>
                   p \in writer.page_id .. (writer.page_id + writer_batch) - 1
      BY OpsDiffer DEF writer_sqes, Rearm
    <2>4. /\ \A p : ReadOp(p) \notin writer_sqes
          /\ writer_sqes \cap {Fsync, Dump, TSync} = {}
      BY OpsDiffer DEF writer_sqes, Rearm
    <2>5. \A p : WriteOp(p) \in InRing => p \in Nat
      BY OpTypes DEF TypeOK, InRing
    <2>6. \A p : WriteOp(p) \in InRing' => p < writer'.page_id
      BY <2>1, <2>2, <2>3, <2>5, WriterBatch, Fields DEF RingInv
    <2> QED
      BY <1>9, <2>1, <2>2, <2>4, <2>6 DEF background_writer, RingInv, DumpHoldsItems
  <1>10. CASE background_reader
    <2>1. /\ OneOwner'
          /\ InRing' = (InRing \ {Timer("reader")}) \cup reader_sqes
      BY <1>0, <1>10, DispatchRing, SqesOf, FreshSqes DEF background_reader
    <2>2. reader'.page_id = reader.page_id + reader_batch
      BY <1>10 DEF background_reader, TypeOK, ReaderJob
    <2>3. \A p : ReadOp(p) \in reader_sqes =>
                   p \in reader.page_id .. (reader.page_id + reader_batch) - 1
      BY OpsDiffer DEF reader_sqes, Rearm
    <2>4. /\ \A p : WriteOp(p) \notin reader_sqes
          /\ reader_sqes \cap {Fsync, Dump, TSync} = {}
      BY OpsDiffer DEF reader_sqes, Rearm
    <2>5. \A p : ReadOp(p) \in InRing => p \in Nat
      BY OpTypes DEF TypeOK, InRing
    <2>6. \A p : ReadOp(p) \in InRing' => p < reader'.page_id
      BY <2>1, <2>2, <2>3, <2>5, ReaderBatch, Fields DEF RingInv
    <2> QED
      BY <1>10, <2>1, <2>4, <2>6 DEF background_reader, RingInv, DumpHoldsItems
  <1>11. CASE background_flusher
    <2>1. /\ OneOwner'
          /\ InRing' = (InRing \ {Timer("flusher")}) \cup flusher_sqes
      BY <1>0, <1>11, DispatchRing, SqesOf, FreshSqes DEF background_flusher
    <2>2. flusher'.inflight = IF flush_due THEN 1 ELSE flusher.inflight
      BY <1>11 DEF background_flusher, TypeOK, FlusherJob
    <2>3. /\ \A p : WriteOp(p) \notin flusher_sqes /\ ReadOp(p) \notin flusher_sqes
          /\ Dump \notin flusher_sqes /\ TSync \notin flusher_sqes
          /\ Fsync \in flusher_sqes => flush_due
      BY OpsDiffer DEF flusher_sqes, Rearm
    <2>4. Fsync \in InRing' =>
            flusher'.inflight = 1 /\ writer.written_no_flush > 0
      BY <2>1, <2>2, <2>3 DEF RingInv, flush_due
    <2> QED
      BY <1>11, <2>1, <2>3, <2>4 DEF background_flusher, RingInv, DumpHoldsItems
  <1>12. CASE background_tracing
    <2>1. /\ OneOwner'
          /\ InRing' = (InRing \ {Timer("tracing")}) \cup tracing_sqes
      BY <1>0, <1>12, DispatchRing, SqesOf, FreshSqes DEF background_tracing
    <2>2. /\ tracing'.used = traced
          /\ tracing'.items = IF dump_due THEN traced ELSE tracing.items
          /\ tracing'.inflight = IF dump_due THEN 1 ELSE tracing.inflight
      BY <1>12 DEF background_tracing, TypeOK, TracingJob
    <2>3. /\ \A p : WriteOp(p) \notin tracing_sqes /\ ReadOp(p) \notin tracing_sqes
          /\ Fsync \notin tracing_sqes /\ TSync \notin tracing_sqes
          /\ Dump \in tracing_sqes <=> dump_due
      BY OpsDiffer DEF tracing_sqes, Rearm
    <2>4. dump_due => /\ Dump \notin InRing /\ TSync \notin InRing
                      /\ traced \in 1 .. traced
      BY Traced DEF dump_due, RingInv, DumpHoldsItems
    <2>5. tracing.items \in 1 .. tracing.used => tracing.items \in 1 .. traced
      BY Traced, Fields
    <2>6. DumpHoldsItems'
      BY <2>1, <2>2, <2>3, <2>4, <2>5 DEF RingInv, DumpHoldsItems
    <2> QED
      BY <1>12, <2>1, <2>3, <2>6 DEF background_tracing, RingInv
  <1>13. CASE tracing_writed
    <2>1. Dump \in InRing /\ TSync \notin InRing
      BY <1>13 DEF tracing_writed, Dispatch, InRing, RingInv, DumpHoldsItems
    <2>2. OneOwner' /\ InRing' = (InRing \ {Dump}) \cup {TSync}
      BY <1>0, <1>13, <2>1, DispatchRing, SqesOf DEF tracing_writed
    <2>3. tracing'.inflight = tracing.inflight
      BY <1>13 DEF tracing_writed, TypeOK, TracingJob
    <2> QED
      BY <1>13, <2>1, <2>2, <2>3, OpsDiffer
      DEF tracing_writed, RingInv, DumpHoldsItems
  <1>14. CASE tracing_synced
    <2>1. TSync \in InRing /\ Dump \notin InRing
      BY <1>14 DEF tracing_synced, Dispatch, InRing, RingInv, DumpHoldsItems
    <2>2. OneOwner' /\ InRing' = InRing \ {TSync}
      BY <1>0, <1>14, DispatchRing, SqesOf DEF tracing_synced
    <2> QED
      BY <1>14, <2>1, <2>2 DEF tracing_synced, RingInv, DumpHoldsItems
  <1>15. CASE background_status
    <2>1. OneOwner' /\ InRing' = InRing
      BY <1>0, <1>15, DispatchRing, SqesOf DEF background_status
    <2> QED
      BY <1>15, <2>1, RingShrinks DEF background_status
  <1>16. CASE UNCHANGED vars
    BY <1>0, <1>16, RingShrinks DEF vars, OneOwner, InRing
  <1> QED
    BY <1>1, <1>2, <1>3, <1>4, <1>5, <1>6, <1>7, <1>8, <1>9, <1>10, <1>11,
       <1>12, <1>13, <1>14, <1>15, <1>16, NextCases

-----------------------------------------------------------------------------
(* The flow of pages *)

\* The list of written pages grows by the next page.
LEMMA AppendNext ==
  ASSUME NEW n \in Nat, NEW f \in Nat
  PROVE  Append([i \in 1 .. n |-> f + i - 1], f + n)
           = [i \in 1 .. n + 1 |-> f + i - 1]
  <1> DEFINE s == [i \in 1 .. n |-> f + i - 1]
  <1> DEFINE t == [i \in 1 .. n + 1 |-> f + i - 1]
  <1>1. s \in Seq(Nat) /\ Len(s) = n
    OBVIOUS
  <1>2. t \in Seq(Nat) /\ Len(t) = n + 1
    OBVIOUS
  <1>3. /\ Append(s, f + n) \in Seq(Nat)
        /\ Len(Append(s, f + n)) = n + 1
        /\ \A i \in 1 .. n : Append(s, f + n)[i] = s[i]
        /\ Append(s, f + n)[n + 1] = f + n
    BY <1>1
  <1>4. \A i \in 1 .. n + 1 : Append(s, f + n)[i] = t[i]
    BY <1>3
  <1> QED
    BY <1>2, <1>3, <1>4, SeqEqual

\* At the start no page is under way.
LEMMA FlowInit ==
  ASSUME Init
  PROVE  FlowInv
  <1>1. running("flusher") = 1 /\ ("reader" \in Enabled => running("reader") = 1)
    BY SchedulerAssumption DEF running, SchedulerAssumption
  <1>2. FlushAccounting
    BY DEF Init, background_writer_init, background_reader_init,
      background_flusher_init, background_tracing_init,
      FlushAccounting
  <1> QED
    BY <1>1, <1>2, Widths
    DEF Init, background_writer_init, background_reader_init,
      background_flusher_init, background_tracing_init,
      FlowInv, Overshoot

\* A step that leaves the jobs alone, does not arm the writer's timer and does
\* not leave the loop.
LEMMA FlowStutters ==
  ASSUME FlowInv, UNCHANGED jobs, InRing' \subseteq InRing,
         pc' = "exit" => pc = "exit"
  PROVE  FlowInv'
  BY DEF FlowInv, FlushAccounting, Overshoot, jobs

\* A step of a callback is a turn of the loop.
LEMMA DispatchDrains ==
  ASSUME NEW op, Dispatch(op)
  PROVE  pc = "drain" /\ pc' = "drain"
  BY DEF Dispatch

\* Completions are counted in page order, or abort() is called.
LEMMA NextPage ==
  ASSUME NEW p, page_written(p)
  PROVE  p = page_id_check_order
  <1>1. asserts_hold(WriteOp(p))
    BY DEF page_written, Dispatch
  <1>2. WriteOp(p)[1] = "write" /\ WriteOp(p)[2] = p
    BY DEF WriteOp
  <1> QED
    BY <1>1, <1>2 DEF asserts_hold

\* Every step keeps the stages in order.
LEMMA FlowStep ==
  ASSUME TypeOK, RingInv, FlowInv, [Next]_vars
  PROVE  FlowInv'
  <1>0. OneOwner
    BY DEF RingInv
  <1>1. CASE io_uring_submit
    BY <1>0, <1>1, SubmitRing, FlowStutters DEF io_uring_submit
  <1>2. CASE io_tick_return
    <2>1. UNCHANGED jobs /\ UNCHANGED InRing
      BY <1>2 DEF io_tick_return, InRing
    <2>2. pc' = "exit" => flusher.running = 0 /\ reader.running = 0
      BY <1>2 DEF io_tick_return, finished
    <2> QED
      BY <2>1, <2>2 DEF FlowInv, FlushAccounting, Overshoot, jobs
  <1>3. ASSUME NEW op, assert_fails(op) PROVE FlowInv'
    BY <1>3, FlowStutters DEF assert_fails, InRing
  <1>4. ASSUME NEW op, complete(op) PROVE FlowInv'
    BY <1>0, <1>4, CompleteRing, FlowStutters DEF complete
  <1>5. ASSUME NEW op, fail(op) PROVE FlowInv'
    BY <1>0, <1>5, FailRing, FlowStutters DEF fail
  <1>6. ASSUME NEW p, page_written(p) PROVE FlowInv'
    <2>1. InRing' = InRing \ {WriteOp(p)} /\ WriteOp(p) \in InRing
      BY <1>0, <1>6, DispatchRing, SqesOf DEF page_written
    <2>2. /\ writer'.page_id = writer.page_id
          /\ writer'.batch_size = writer.batch_size
          /\ writer'.written_no_flush = writer.written_no_flush + 1
          /\ flusher'.page_id = flusher.page_id
          /\ flusher'.running = flusher.running
          /\ flusher'.write_list = Append(flusher.write_list, p)
          /\ page_id_check_order' = page_id_check_order + 1
          /\ reader' = reader
      BY <1>6 DEF page_written, TypeOK, WriterJob, FlusherJob
    <2>3. p = page_id_check_order /\ p < writer.page_id
      BY <1>6, <2>1, NextPage DEF RingInv
    <2>4. page_id_check_order \in Nat
      BY DEF TypeOK
    <2>5. FlushAccounting'
      <3>1. p = flusher.page_id + writer.written_no_flush
        BY <2>3 DEF FlowInv, FlushAccounting
      <3>2. flusher.write_list =
              [i \in 1 .. writer.written_no_flush |-> flusher.page_id + i - 1]
        BY DEF FlowInv, FlushAccounting
      <3>3. Append([i \in 1 .. writer.written_no_flush |-> flusher.page_id + i - 1],
                   flusher.page_id + writer.written_no_flush)
              = [i \in 1 .. writer.written_no_flush + 1 |-> flusher.page_id + i - 1]
        BY AppendNext, Fields
      <3>4. flusher'.write_list =
              [i \in 1 .. writer'.written_no_flush |-> flusher'.page_id + i - 1]
        BY <2>2, <3>1, <3>2, <3>3, Zenon
      <3>5. flusher'.page_id + writer'.written_no_flush = page_id_check_order'
        BY <2>2, <2>3, <2>4, <3>1, Fields
      <3> QED
        BY <3>4, <3>5 DEF FlushAccounting
    <2>6. (page_id_check_order <= writer.page_id)'
      BY <2>2, <2>3, <2>4, Fields
    <2> QED
      BY <1>6, <2>1, <2>2, <2>5, <2>6, DispatchDrains
      DEF page_written, FlowInv, Overshoot
  <1>7. ASSUME NEW p, page_read(p) PROVE FlowInv'
    <2>1. InRing' = InRing \ {ReadOp(p)}
      BY <1>0, <1>7, DispatchRing, SqesOf DEF page_read
    <2>2. reader'.page_id = reader.page_id /\ reader'.running = reader.running
      BY <1>7 DEF page_read, TypeOK, ReaderJob
    <2> QED
      BY <1>7, <2>1, <2>2, DispatchDrains
      DEF page_read, FlowInv, FlushAccounting, Overshoot
  <1>8. CASE file_synced
    <2>1. InRing' = InRing \ {Fsync}
      BY <1>0, <1>8, DispatchRing, SqesOf DEF file_synced
    <2>2. /\ writer'.page_id = writer.page_id
          /\ writer'.batch_size = writer.batch_size
          /\ writer'.written_no_flush = 0
          /\ flusher'.page_id = flusher.page_id + writer.written_no_flush
          /\ flusher'.running = flusher.running
          /\ flusher'.write_list = << >>
          /\ page_id_check_order' = page_id_check_order
          /\ reader' = reader
      BY <1>8 DEF file_synced, TypeOK, WriterJob, FlusherJob
    <2>3. FlushAccounting'
      <3>1. [i \in 1 .. 0 |-> flusher'.page_id + i - 1] = << >>
        OBVIOUS
      <3> QED
        BY <2>2, <3>1, Fields DEF FlowInv, FlushAccounting
    <2>4. flusher.page_id <= flusher'.page_id
      BY <2>2, Fields
    <2>5. /\ (reader.page_id <= flusher.page_id)'
          /\ (flusher.running = 0 => Pages <= flusher.page_id)'
      BY <2>2, <2>4, Fields, Widths, SMTT(30) DEF FlowInv
    <2> QED
      BY <1>8, <2>1, <2>2, <2>3, <2>5, DispatchDrains
      DEF file_synced, FlowInv, Overshoot
  <1>9. CASE background_writer
    <2>1. /\ InRing' = (InRing \ {Timer("writer")}) \cup writer_sqes
          /\ Timer("writer") \in InRing
      BY <1>0, <1>9, DispatchRing, SqesOf, FreshSqes DEF background_writer
    <2>2. /\ writer'.page_id = writer.page_id + writer_batch
          /\ writer'.batch_size = writer_batch
          /\ writer'.written_no_flush = writer.written_no_flush
      BY <1>9 DEF background_writer, TypeOK, WriterJob
    <2>3. writer.page_id < Pages
      BY <2>1 DEF FlowInv
    <2>4. Timer("writer") \in writer_sqes => writer'.page_id < Pages
      BY <2>2, OpsDiffer DEF writer_sqes, Rearm
    <2>5. writer_batch <= writer.page_id + 1
      BY WriterBatch, Fields, SMTT(30) DEF FlowInv
    <2>6. Overshoot'
      BY <2>2, <2>3, <2>5, WriterBatch, Fields, Widths, SMTT(30) DEF Overshoot
    <2>7. (page_id_check_order <= writer.page_id)'
      BY <1>9, <2>2, WriterBatch, Fields, SMTT(30) DEF background_writer, FlowInv, TypeOK
    <2>8. (writer.batch_size > 0 => 2 * writer.batch_size <= writer.page_id + 1)'
      BY <2>2, <2>5, WriterBatch, Fields
    <2> QED
      BY <1>9, <2>1, <2>2, <2>4, <2>6, <2>7, <2>8, DispatchDrains
      DEF background_writer, FlowInv, FlushAccounting
  <1>10. CASE background_reader
    <2>1. InRing' = (InRing \ {Timer("reader")}) \cup reader_sqes
      BY <1>0, <1>10, DispatchRing, SqesOf, FreshSqes DEF background_reader
    <2>2. /\ reader'.page_id = reader.page_id + reader_batch
          /\ reader'.running = IF reader.page_id + reader_batch < Pages
                               THEN reader.running
                               ELSE 0
      BY <1>10 DEF background_reader, TypeOK, ReaderJob
    <2>3. Timer("writer") \notin reader_sqes
      BY OpsDiffer DEF reader_sqes, Rearm
    <2>4. reader'.page_id <= flusher.page_id
      BY <2>2, ReaderBatch DEF FlowInv
    <2>5. (reader.running = 0 /\ "reader" \in Enabled => Pages <= reader.page_id)'
      BY <2>2, ReaderBatch, Fields, Widths DEF FlowInv
    <2> QED
      BY <1>10, <2>1, <2>3, <2>4, <2>5, DispatchDrains
      DEF background_reader, FlowInv, FlushAccounting, Overshoot
  <1>11. CASE background_flusher
    <2>1. InRing' = (InRing \ {Timer("flusher")}) \cup flusher_sqes
      BY <1>0, <1>11, DispatchRing, SqesOf, FreshSqes DEF background_flusher
    <2>2. /\ flusher'.page_id = flusher.page_id
          /\ flusher'.write_list = flusher.write_list
          /\ flusher'.running = IF flusher.page_id < Pages
                                THEN flusher.running
                                ELSE 0
      BY <1>11 DEF background_flusher, TypeOK, FlusherJob
    <2>3. Timer("writer") \notin flusher_sqes
      BY OpsDiffer DEF flusher_sqes, Rearm
    <2>4. (flusher.running = 0 => Pages <= flusher.page_id)'
      BY <2>2, Fields, Widths DEF FlowInv
    <2> QED
      BY <1>11, <2>1, <2>2, <2>3, <2>4, DispatchDrains
      DEF background_flusher, FlowInv, FlushAccounting, Overshoot
  <1>12. CASE background_tracing
    <2>1. InRing' = (InRing \ {Timer("tracing")}) \cup tracing_sqes
      BY <1>0, <1>12, DispatchRing, SqesOf, FreshSqes DEF background_tracing
    <2>2. Timer("writer") \notin tracing_sqes
      BY OpsDiffer DEF tracing_sqes, Rearm
    <2> QED
      BY <1>12, <2>1, <2>2, DispatchDrains
      DEF background_tracing, FlowInv, FlushAccounting, Overshoot
  <1>13. CASE tracing_writed
    <2>1. TSync \notin InRing
      BY <1>13 DEF tracing_writed, Dispatch, InRing, RingInv, DumpHoldsItems
    <2>2. InRing' = (InRing \ {Dump}) \cup {TSync}
      BY <1>0, <1>13, <2>1, DispatchRing, SqesOf DEF tracing_writed
    <2> QED
      BY <1>13, <2>2, OpsDiffer, DispatchDrains
      DEF tracing_writed, FlowInv, FlushAccounting, Overshoot
  <1>14. CASE tracing_synced
    <2>1. InRing' = InRing \ {TSync}
      BY <1>0, <1>14, DispatchRing, SqesOf DEF tracing_synced
    <2> QED
      BY <1>14, <2>1, DispatchDrains
      DEF tracing_synced, FlowInv, FlushAccounting, Overshoot
  <1>15. CASE background_status
    <2>1. InRing' = InRing
      BY <1>0, <1>15, DispatchRing, SqesOf DEF background_status
    <2> QED
      BY <1>15, <2>1, FlowStutters, DispatchDrains DEF background_status
  <1>16. CASE UNCHANGED vars
    BY <1>16, FlowStutters DEF vars, InRing
  <1> QED
    BY <1>1, <1>2, <1>3, <1>4, <1>5, <1>6, <1>7, <1>8, <1>9, <1>10, <1>11,
       <1>12, <1>13, <1>14, <1>15, <1>16, NextCases

-----------------------------------------------------------------------------
(* The device *)

\* At the start the device holds nothing.
LEMMA DeviceInit ==
  ASSUME Init
  PROVE  DeviceInv
  BY DEF Init, background_writer_init, background_reader_init,
      background_flusher_init, background_tracing_init,
      DeviceInv

\* A callback that changes neither the flusher's mark nor the number of writes
\* delivered.
LEMMA DeviceStutters ==
  ASSUME DeviceInv, NEW op, Dispatch(op),
         page_id_check_order' = page_id_check_order,
         flusher'.page_id = flusher.page_id
  PROVE  DeviceInv'
  BY DEF DeviceInv, Dispatch, device

\* Every step keeps what is known of the device.
LEMMA DeviceStep ==
  ASSUME TypeOK, RingInv, FlowInv, DeviceInv, [Next]_vars
  PROVE  DeviceInv'
  <1>0. /\ page_id_check_order \in Nat
        /\ flusher.page_id <= page_id_check_order
        /\ flusher.page_id \in Nat
    BY Fields DEF TypeOK, FlowInv, FlushAccounting
  <1>1. CASE io_uring_submit
    <2>1. Fsync \in sq => Fsync \notin kern /\ Fsync \notin cq
      BY DEF RingInv, OneOwner
    <2>2. \A p \in Nat : p < flusher.page_id => p \in disk
      BY <1>0 DEF DeviceInv
    <2>3. Fsync \in kern' => \A p \in Nat : p < flusher.page_id => p \in syncset'
      BY <1>1, <2>2 DEF io_uring_submit, DeviceInv
    <2> QED
      BY <1>1, <2>3 DEF io_uring_submit, DeviceInv, jobs
  <1>2. CASE io_tick_return
    BY <1>2 DEF io_tick_return, DeviceInv, jobs, device
  <1>3. ASSUME NEW op, assert_fails(op) PROVE DeviceInv'
    BY <1>3 DEF assert_fails, DeviceInv, jobs, device
  <1>4. ASSUME NEW op, complete(op) PROVE DeviceInv'
    <2>1. /\ disk \subseteq disk' /\ durable \subseteq durable'
          /\ syncset' = syncset /\ kern' \subseteq kern
          /\ cq' = cq \cup {op}
          /\ UNCHANGED jobs
      BY <1>4 DEF complete
    <2>2. \A p : op = WriteOp(p) => p \in disk'
      BY <1>4 DEF complete, WriteOp
    <2>3. op = Fsync => /\ syncset \subseteq durable'
                        /\ Fsync \in kern
      BY <1>4 DEF complete
    <2> QED
      BY <2>1, <2>2, <2>3 DEF DeviceInv, jobs
  <1>5. ASSUME NEW op, fail(op) PROVE DeviceInv'
    BY <1>5 DEF fail, DeviceInv, jobs, device
  <1>6. ASSUME NEW p, page_written(p) PROVE DeviceInv'
    <2>1. p = page_id_check_order /\ p \in disk
      BY <1>6, NextPage DEF page_written, Dispatch, DeviceInv
    <2>2. flusher'.page_id = flusher.page_id
      BY <1>6 DEF page_written, TypeOK, FlusherJob
    <2>3. \A q \in Nat : q < page_id_check_order + 1 => q \in disk
      BY <1>0, <2>1 DEF DeviceInv
    <2> QED
      BY <1>6, <2>2, <2>3 DEF page_written, Dispatch, DeviceInv, device
  <1>7. ASSUME NEW p, page_read(p) PROVE DeviceInv'
    BY <1>7, DeviceStutters DEF page_read
  <1>8. CASE file_synced
    <2>1. Fsync \notin kern /\ Fsync \notin cq'
      BY <1>8 DEF file_synced, Dispatch, RingInv, OneOwner
    <2> QED
      BY <1>8, <2>1 DEF file_synced, Dispatch, DeviceInv, device
  <1>9. CASE background_writer
    BY <1>9, DeviceStutters DEF background_writer
  <1>10. CASE background_reader
    BY <1>10, DeviceStutters DEF background_reader
  <1>11. CASE background_flusher
    <2>1. flusher'.page_id = flusher.page_id
      BY <1>11 DEF background_flusher, TypeOK, FlusherJob
    <2> QED
      BY <1>11, <2>1, DeviceStutters DEF background_flusher
  <1>12. CASE background_tracing
    BY <1>12, DeviceStutters DEF background_tracing
  <1>13. CASE tracing_writed
    BY <1>13, DeviceStutters DEF tracing_writed
  <1>14. CASE tracing_synced
    BY <1>14, DeviceStutters DEF tracing_synced
  <1>15. CASE background_status
    BY <1>15, DeviceStutters DEF background_status, jobs
  <1>16. CASE UNCHANGED vars
    BY <1>16 DEF vars, jobs, device, DeviceInv
  <1> QED
    BY <1>1, <1>2, <1>3, <1>4, <1>5, <1>6, <1>7, <1>8, <1>9, <1>10, <1>11,
       <1>12, <1>13, <1>14, <1>15, <1>16, NextCases

-----------------------------------------------------------------------------
(* The timers *)

\* At the start the timer of every enabled job is armed.
LEMMA ArmedInit ==
  ASSUME Init
  PROVE  RunningIsArmed
  <1>1. \A j \in Jobs : running(j) = 1 => Timer(j) \in InRing
    BY DEF Init, InRing, running
  <1> QED
    BY <1>1
    DEF Init, background_writer_init, background_reader_init,
      background_flusher_init, background_tracing_init,
      RunningIsArmed, Jobs

\* A step that stops no timer and leaves the jobs alone.
LEMMA ArmedStutters ==
  ASSUME RunningIsArmed,
         writer'.running = writer.running,
         reader'.running = reader.running,
         flusher'.running = flusher.running,
         \A j : Timer(j) \in InRing => Timer(j) \in InRing'
  PROVE  RunningIsArmed'
  BY DEF RunningIsArmed

\* Every step keeps a timer for each running job.
LEMMA ArmedStep ==
  ASSUME TypeOK, RingInv, RunningIsArmed, [Next]_vars
  PROVE  RunningIsArmed'
  <1>0. /\ OneOwner
        /\ writer \in WriterJob /\ reader \in ReaderJob /\ flusher \in FlusherJob
    BY DEF RingInv, TypeOK
  <1>1. CASE io_uring_submit
    BY <1>0, <1>1, SubmitRing, ArmedStutters DEF io_uring_submit, jobs
  <1>2. CASE io_tick_return
    BY <1>2, ArmedStutters DEF io_tick_return, InRing, jobs
  <1>3. ASSUME NEW op, assert_fails(op) PROVE RunningIsArmed'
    BY <1>3, ArmedStutters DEF assert_fails, InRing, jobs
  <1>4. ASSUME NEW op, complete(op) PROVE RunningIsArmed'
    BY <1>0, <1>4, CompleteRing, ArmedStutters DEF complete, jobs
  <1>5. ASSUME NEW op, fail(op) PROVE RunningIsArmed'
    <2>1. \A j : op # Timer(j)
      BY <1>5, SchedulerAssumption DEF fail, Timer, SchedulerAssumption
    <2> QED
      BY <1>0, <1>5, <2>1, FailRing, ArmedStutters DEF fail, jobs
  <1>6. ASSUME NEW p, page_written(p) PROVE RunningIsArmed'
    <2>1. InRing' = InRing \ {WriteOp(p)}
      BY <1>0, <1>6, DispatchRing, SqesOf DEF page_written
    <2>2. writer'.running = writer.running /\ flusher'.running = flusher.running
      BY <1>0, <1>6 DEF page_written, WriterJob, FlusherJob
    <2> QED
      BY <1>6, <2>1, <2>2, OpsDiffer, ArmedStutters DEF page_written
  <1>7. ASSUME NEW p, page_read(p) PROVE RunningIsArmed'
    <2>1. InRing' = InRing \ {ReadOp(p)}
      BY <1>0, <1>7, DispatchRing, SqesOf DEF page_read
    <2>2. reader'.running = reader.running
      BY <1>0, <1>7 DEF page_read, ReaderJob
    <2> QED
      BY <1>7, <2>1, <2>2, OpsDiffer, ArmedStutters DEF page_read
  <1>8. CASE file_synced
    <2>1. InRing' = InRing \ {Fsync}
      BY <1>0, <1>8, DispatchRing, SqesOf DEF file_synced
    <2>2. writer'.running = writer.running /\ flusher'.running = flusher.running
      BY <1>0, <1>8 DEF file_synced, WriterJob, FlusherJob
    <2> QED
      BY <1>8, <2>1, <2>2, OpsDiffer, ArmedStutters DEF file_synced
  <1>9. CASE background_writer
    <2>1. InRing' = (InRing \ {Timer("writer")}) \cup writer_sqes
      BY <1>0, <1>9, DispatchRing, SqesOf, FreshSqes DEF background_writer
    <2>2. writer'.running = IF writer.page_id + writer_batch < Pages
                            THEN writer.running
                            ELSE 0
      BY <1>0, <1>9 DEF background_writer, WriterJob
    <2>3. writer'.running = 1 => Timer("writer") \in writer_sqes
      BY <2>2 DEF writer_sqes, Rearm
    <2> QED
      BY <1>9, <2>1, <2>3, OpsDiffer DEF background_writer, RunningIsArmed
  <1>10. CASE background_reader
    <2>1. InRing' = (InRing \ {Timer("reader")}) \cup reader_sqes
      BY <1>0, <1>10, DispatchRing, SqesOf, FreshSqes DEF background_reader
    <2>2. reader'.running = IF reader.page_id + reader_batch < Pages
                            THEN reader.running
                            ELSE 0
      BY <1>0, <1>10 DEF background_reader, ReaderJob
    <2>3. reader'.running = 1 => Timer("reader") \in reader_sqes
      BY <2>2 DEF reader_sqes, Rearm
    <2> QED
      BY <1>10, <2>1, <2>3, OpsDiffer DEF background_reader, RunningIsArmed
  <1>11. CASE background_flusher
    <2>1. InRing' = (InRing \ {Timer("flusher")}) \cup flusher_sqes
      BY <1>0, <1>11, DispatchRing, SqesOf, FreshSqes DEF background_flusher
    <2>2. flusher'.running = IF flusher.page_id < Pages
                             THEN flusher.running
                             ELSE 0
      BY <1>0, <1>11 DEF background_flusher, FlusherJob
    <2>3. flusher'.running = 1 => Timer("flusher") \in flusher_sqes
      BY <2>2 DEF flusher_sqes, Rearm
    <2> QED
      BY <1>11, <2>1, <2>3, OpsDiffer DEF background_flusher, RunningIsArmed
  <1>12. CASE background_tracing
    <2>1. InRing' = (InRing \ {Timer("tracing")}) \cup tracing_sqes
      BY <1>0, <1>12, DispatchRing, SqesOf, FreshSqes DEF background_tracing
    <2> QED
      BY <1>12, <2>1, OpsDiffer DEF background_tracing, RunningIsArmed
  <1>13. CASE tracing_writed
    <2>1. TSync \notin InRing
      BY <1>13 DEF tracing_writed, Dispatch, InRing, RingInv, DumpHoldsItems
    <2>2. InRing' = (InRing \ {Dump}) \cup {TSync}
      BY <1>0, <1>13, <2>1, DispatchRing, SqesOf DEF tracing_writed
    <2> QED
      BY <1>13, <2>2, OpsDiffer, ArmedStutters DEF tracing_writed
  <1>14. CASE tracing_synced
    <2>1. InRing' = InRing \ {TSync}
      BY <1>0, <1>14, DispatchRing, SqesOf DEF tracing_synced
    <2> QED
      BY <1>14, <2>1, OpsDiffer, ArmedStutters DEF tracing_synced
  <1>15. CASE background_status
    <2>1. InRing' = InRing
      BY <1>0, <1>15, DispatchRing, SqesOf DEF background_status
    <2> QED
      BY <1>15, <2>1, ArmedStutters DEF background_status, jobs
  <1>16. CASE UNCHANGED vars
    BY <1>16, ArmedStutters DEF vars, jobs, InRing
  <1> QED
    BY <1>1, <1>2, <1>3, <1>4, <1>5, <1>6, <1>7, <1>8, <1>9, <1>10, <1>11,
       <1>12, <1>13, <1>14, <1>15, <1>16, NextCases

-----------------------------------------------------------------------------
(* The 8-bit counter *)

\* At the start nothing is in flight.
LEMMA ModuloInit ==
  ASSUME Init
  PROVE  InflightModulo
  <1>1. (0 - 0) % U8 = 0
    BY Widths
  <1> QED
    BY <1>1
    DEF Init, background_writer_init, background_reader_init,
      background_flusher_init, background_tracing_init,
      InflightModulo

\* Every step keeps the counter equal to the writes in flight, modulo its width.
LEMMA ModuloStep ==
  ASSUME TypeOK, InflightModulo, [Next]_vars
  PROVE  InflightModulo'
  <1>0. /\ writer \in WriterJob
        /\ writer.page_id \in Nat /\ page_id_check_order \in Nat
        /\ writer.page_id - page_id_check_order \in Int
    BY Fields DEF TypeOK
  <1>1. ASSUME NEW p, page_written(p) PROVE InflightModulo'
    <2>1. /\ writer'.page_id = writer.page_id
          /\ writer'.inflight = (writer.inflight - 1) % U8
          /\ page_id_check_order' = page_id_check_order + 1
      BY <1>0, <1>1 DEF page_written, decrement, WriterJob
    <2>2. (((writer.page_id - page_id_check_order) % U8) + (-1)) % U8
            = ((writer.page_id - page_id_check_order) + (-1)) % U8
      BY <1>0, ModAdd, Widths
    <2>3. /\ (writer.page_id - page_id_check_order) + (-1)
               = writer.page_id - (page_id_check_order + 1)
          /\ ((writer.page_id - page_id_check_order) % U8) + (-1)
               = ((writer.page_id - page_id_check_order) % U8) - 1
      <3>1. (writer.page_id - page_id_check_order) % U8 \in Int
        BY <1>0, Wrap, Widths
      <3> QED
        BY <1>0, <3>1
    <2>4. writer.inflight = (writer.page_id - page_id_check_order) % U8
      BY DEF InflightModulo
    <2>5. writer'.inflight = (writer'.page_id - page_id_check_order') % U8
      BY <2>1, <2>2, <2>3, <2>4, Zenon
    <2> QED
      BY <2>5 DEF InflightModulo
  <1>2. CASE background_writer
    <2>1. /\ writer'.page_id = writer.page_id + writer_batch
          /\ writer'.inflight = (writer.inflight + writer_batch) % U8
          /\ page_id_check_order' = page_id_check_order
      BY <1>0, <1>2 DEF background_writer, WriterJob
    <2>2. writer_batch \in Nat
      BY WriterBatch
    <2>3. (((writer.page_id - page_id_check_order) % U8) + writer_batch) % U8
            = ((writer.page_id - page_id_check_order) + writer_batch) % U8
      BY <1>0, <2>2, ModAdd, Widths
    <2>4. (writer.page_id - page_id_check_order) + writer_batch
            = (writer.page_id + writer_batch) - page_id_check_order
      BY <1>0, <2>2
    <2>5. writer.inflight = (writer.page_id - page_id_check_order) % U8
      BY DEF InflightModulo
    <2>6. writer'.inflight = (writer'.page_id - page_id_check_order') % U8
      BY <2>1, <2>3, <2>4, <2>5, Zenon
    <2> QED
      BY <2>6 DEF InflightModulo
  <1>3. CASE file_synced
    <2>1. /\ writer'.page_id = writer.page_id
          /\ writer'.inflight = writer.inflight
          /\ page_id_check_order' = page_id_check_order
      BY <1>0, <1>3 DEF file_synced, WriterJob
    <2> QED
      BY <2>1 DEF InflightModulo
  <1>4. CASE \/ io_uring_submit
             \/ io_tick_return
             \/ background_reader
             \/ background_flusher
             \/ background_tracing
             \/ tracing_writed
             \/ tracing_synced
             \/ background_status
             \/ \E p : page_read(p)
             \/ \E op : assert_fails(op) \/ complete(op) \/ fail(op)
             \/ UNCHANGED vars
    <2>1. UNCHANGED <<writer, page_id_check_order>>
      BY <1>4 DEF io_uring_submit, io_tick_return, background_reader,
           background_flusher, background_tracing, tracing_writed,
           tracing_synced, background_status, page_read, assert_fails,
           complete, fail, jobs, vars
    <2> QED
      BY <2>1 DEF InflightModulo
  <1> QED
    BY <1>1, <1>2, <1>3, <1>4, NextCases

-----------------------------------------------------------------------------
(* The reader's counter *)

Reads == {op \in InRing : op[1] = "read"}

\* The reader's counter is the number of reads in the ring, modulo its width,
\* and that number is finite.
ReadsInv == IsFiniteSet(Reads) /\ ReaderInflightModulo

\* What a tuple of the ring can be.
LEMMA OpKinds ==
  ASSUME NEW op \in Op
  PROVE  \/ \E p \in Nat : op = WriteOp(p)
         \/ \E p \in Nat : op = ReadOp(p)
         \/ \E j \in Jobs : op = Timer(j)
         \/ op \in {Fsync, Dump, TSync}
  BY DEF Op, WriteOp, ReadOp, Timer

\* The kind of an operation is its first component, its page the second.
LEMMA Kinds ==
  /\ \A p : WriteOp(p)[1] = "write" /\ WriteOp(p)[2] = p
  /\ \A p : ReadOp(p)[1] = "read" /\ ReadOp(p)[2] = p
  /\ \A j : Timer(j)[1] = "timer"
  /\ Fsync[1] = "fsync" /\ Dump[1] = "dump" /\ TSync[1] = "tsync"
  BY DEF WriteOp, ReadOp, Timer, Fsync, Dump, TSync

\* A callback takes its operation out of the ring and puts what it prepares in,
\* none of which was there before.
LEMMA CallbackRing ==
  ASSUME TypeOK, RingInv, NEW op, Dispatch(op)
  PROVE  /\ OneOwner'
         /\ InRing' = (InRing \ {op}) \cup sqes(op)
         /\ op \in InRing
         /\ sqes(op) \cap InRing \subseteq {op}
  <1>1. op \in Op /\ op \in InRing
    BY DEF Dispatch, TypeOK, InRing
  <1>2. op = Dump => TSync \notin InRing
    BY <1>1 DEF RingInv, DumpHoldsItems
  <1>3. \A j \in Jobs : sqes(Timer(j)) \cap InRing \subseteq {Timer(j)}
    BY FreshSqes, SqesOf DEF Jobs
  <1>4. sqes(op) \cap InRing \subseteq {op}
    BY <1>1, <1>2, <1>3, OpKinds, SqesOf
  <1> QED
    BY <1>4, DispatchRing DEF RingInv

\* A batch of n pages is n operations.
LEMMA BatchSize ==
  ASSUME NEW a \in Int, NEW n \in Nat, NEW T,
         \/ \A x : x \in T <=> \E p \in a .. (a + n) - 1 : x = ReadOp(p)
         \/ \A x : x \in T <=> \E p \in a .. (a + n) - 1 : x = WriteOp(p)
  PROVE  IsFiniteSet(T) /\ Cardinality(T) = n
  <1> DEFINE I == a .. (a + n) - 1
             f == [x \in T |-> x[2]]
  <1>1. IsFiniteSet(I) /\ Cardinality(I) = n
    BY FS_Interval
  <1>2. /\ \A x \in T : x[2] \in I
        /\ \A x, y \in T : x[2] = y[2] => x = y
        /\ \A p \in I : \E x \in T : x[2] = p
    BY Kinds
  <1>3. f \in Injection(T, I)
    BY <1>2 DEF Injection, IsInjective
  <1>4. f \in Surjection(T, I)
    BY <1>2 DEF Surjection
  <1> QED
    BY <1>1, <1>3, <1>4, FS_Injection

\* At the start nothing is read.
LEMMA ReadsInit ==
  ASSUME Init
  PROVE  ReadsInv
  <1>1. Reads = {}
    BY Kinds DEF Init, Reads, InRing
  <1>2. reader.inflight = 0
    BY DEF Init, background_reader_init
  <1>3. 0 % U8 = 0
    BY Widths
  <1> QED
    BY <1>1, <1>2, <1>3, FS_EmptySet DEF ReadsInv, Reads, ReaderInflightModulo

\* Every step keeps the reader's counter right, if no read fails: the CQE of a
\* failed one is dropped without decrementing it.
LEMMA ReadsStep ==
  ASSUME "read" \notin MayFail, TypeOK, RingInv, ReadsInv, [Next]_vars
  PROVE  ReadsInv'
  <1>0. /\ OneOwner /\ IsFiniteSet(Reads)
        /\ reader.inflight = Cardinality(Reads) % U8
        /\ reader \in ReaderJob
        /\ Cardinality(Reads) \in Nat
        /\ U8 \in Nat \ {0}
    BY FS_CardinalityType, Widths
    DEF RingInv, ReadsInv, ReaderInflightModulo, Reads, TypeOK
  <1> DEFINE c == Cardinality(Reads)
  <1>a. c \in Int /\ -1 \in Int
    BY <1>0
  <1>1. ASSUME NEW p, page_read(p) PROVE ReadsInv'
    <2>1. ReadOp(p) \in InRing /\ InRing' = InRing \ {ReadOp(p)}
      BY <1>1, CallbackRing, SqesOf DEF page_read
    <2>2. Reads' = Reads \ {ReadOp(p)} /\ ReadOp(p) \in Reads
      BY <2>1, Kinds DEF Reads
    <2>3. IsFiniteSet(Reads') /\ Cardinality(Reads') = c - 1
      BY <1>0, <2>2, FS_RemoveElement
    <2>4. reader'.inflight = ((c % U8) - 1) % U8
      BY <1>0, <1>1 DEF page_read, decrement, ReaderJob
    <2>5. ((c % U8) + (-1)) % U8 = (c + (-1)) % U8
      BY <1>0, <1>a, ModAdd
    <2>6. (c % U8) + (-1) = (c % U8) - 1 /\ c + (-1) = c - 1
      <3>1. c % U8 \in Int
        BY <1>0, <1>a, Wrap
      <3> QED
        BY <1>a, <3>1
    <2>7. reader'.inflight = Cardinality(Reads') % U8
      BY <2>3, <2>4, <2>5, <2>6, Zenon
    <2> QED
      BY <2>3, <2>7 DEF ReadsInv, ReaderInflightModulo, Reads
  <1>2. CASE background_reader
    <2> DEFINE B == {ReadOp(p) : p \in reader.page_id .. (reader.page_id + reader_batch) - 1}
    <2>0. /\ reader.page_id \in Nat /\ reader.page_id \in Int
          /\ reader_batch \in Nat /\ reader_batch \in Int
      BY Fields, ReaderBatch
    <2>1. InRing' = (InRing \ {Timer("reader")}) \cup reader_sqes
      BY <1>2, CallbackRing, SqesOf DEF background_reader
    <2>2. reader_sqes = B \cup Rearm("reader", reader.page_id + reader_batch < Pages)
      BY DEF reader_sqes
    <2>3. Reads' = Reads \cup B
      BY <2>1, <2>2, Kinds DEF Reads, Rearm
    <2>4. Reads \cap B = {}
      <3>1. ASSUME NEW op \in Reads, op \in B PROVE FALSE
        <4>1. PICK p \in reader.page_id .. (reader.page_id + reader_batch) - 1 :
                op = ReadOp(p)
          BY <3>1
        <4>2. ReadOp(p) \in InRing
          BY <4>1 DEF Reads
        <4> QED
          BY <2>0, <4>2 DEF RingInv
      <3> QED
        BY <3>1
    <2>5. IsFiniteSet(B) /\ Cardinality(B) = reader_batch
      <3>1. \A x : x \in B <=>
              \E p \in reader.page_id .. (reader.page_id + reader_batch) - 1 :
                x = ReadOp(p)
        OBVIOUS
      <3> HIDE DEF B
      <3> QED
        BY <2>0, <3>1, BatchSize
    <2> HIDE DEF B
    <2>6. IsFiniteSet(Reads') /\ Cardinality(Reads') = c + reader_batch
      <3>1. /\ IsFiniteSet(Reads \cup B)
            /\ Cardinality(Reads \cup B) = c + Cardinality(B) - Cardinality(Reads \cap B)
        BY <1>0, <2>5, FS_Union
      <3>2. Cardinality(Reads \cap B) = 0
        BY <2>4, FS_EmptySet
      <3> HIDE DEF c
      <3> QED
        BY <1>a, <2>0, <2>3, <2>5, <3>1, <3>2
    <2>7. reader'.inflight = ((c % U8) + reader_batch) % U8
      BY <1>0, <1>2 DEF background_reader, ReaderJob
    <2>8. ((c % U8) + reader_batch) % U8 = (c + reader_batch) % U8
      BY <1>0, <1>a, <2>0, ModAdd
    <2>9. reader'.inflight = Cardinality(Reads') % U8
      BY <2>6, <2>7, <2>8, Zenon
    <2> QED
      BY <2>6, <2>9 DEF ReadsInv, ReaderInflightModulo, Reads
  <1>3. ASSUME Reads' = Reads, reader' = reader PROVE ReadsInv'
    BY <1>3 DEF ReadsInv, ReaderInflightModulo, Reads
  <1>4. ASSUME NEW op, fail(op) PROVE Reads' = Reads
    BY <1>0, <1>4, FailRing DEF fail, Reads
  <1>5. ASSUME NEW op, Dispatch(op), op[1] # "read",
               \A o \in sqes(op) : o[1] # "read"
        PROVE  Reads' = Reads
    BY <1>5, CallbackRing DEF Reads
  <1>6. /\ \A o \in writer_sqes : o[1] # "read"
        /\ \A o \in flusher_sqes : o[1] # "read"
        /\ \A o \in tracing_sqes : o[1] # "read"
    BY Kinds DEF writer_sqes, flusher_sqes, tracing_sqes, Rearm
  <1>7. CASE \/ \E p : page_written(p)
             \/ file_synced
             \/ background_writer
             \/ background_flusher
             \/ background_tracing
             \/ tracing_writed
             \/ tracing_synced
             \/ background_status
    <2>1. Reads' = Reads
      BY <1>5, <1>6, <1>7, SqesOf, Kinds
      DEF page_written, file_synced, background_writer, background_flusher,
        background_tracing, tracing_writed, tracing_synced, background_status
    <2>2. reader' = reader
      BY <1>7
      DEF page_written, file_synced, background_writer, background_flusher,
        background_tracing, tracing_writed, tracing_synced, background_status,
        jobs
    <2> QED
      BY <1>3, <2>1, <2>2
  <1>8. CASE \/ io_uring_submit
             \/ io_tick_return
             \/ \E op : assert_fails(op) \/ complete(op) \/ fail(op)
             \/ UNCHANGED vars
    <2>1. Reads' = Reads
      BY <1>0, <1>4, <1>8, SubmitRing, CompleteRing
      DEF io_tick_return, assert_fails, vars, InRing, Reads
    <2>2. reader' = reader
      BY <1>8 DEF io_uring_submit, io_tick_return, assert_fails, complete, fail,
                  vars, jobs
    <2> QED
      BY <1>3, <2>1, <2>2
  <1> QED
    BY <1>1, <1>2, <1>7, <1>8, NextCases

-----------------------------------------------------------------------------
(* The order of the writes *)

\* The writes in the ring are those issued and not yet delivered, and they keep
\* their order on the way: what completed precedes what the kernel has, and
\* that precedes what is only prepared.
OrderInv ==
  /\ \A p \in Nat : page_id_check_order <= p /\ p < writer.page_id =>
       WriteOp(p) \in InRing
  /\ \A p \in Nat : WriteOp(p) \in InRing => page_id_check_order <= p
  /\ \A p, q \in Nat : WriteOp(p) \in cq /\ WriteOp(q) \in kern \cup sq => p < q
  /\ \A p, q \in Nat : WriteOp(p) \in kern /\ WriteOp(q) \in sq => p < q

\* At the start nothing is written.
LEMMA OrderInit ==
  ASSUME Init
  PROVE  OrderInv
  <1>1. \A p : WriteOp(p) \notin InRing
    BY OpsDiffer DEF Init, InRing
  <1>2. writer.page_id = 0 /\ page_id_check_order = 0
    BY DEF Init, background_writer_init
  <1> QED
    BY <1>1, <1>2 DEF OrderInv, InRing

\* A step that moves no write and counts none.
LEMMA OrderStutters ==
  ASSUME OrderInv,
         writer'.page_id = writer.page_id,
         page_id_check_order' = page_id_check_order,
         \A p : /\ WriteOp(p) \in sq' <=> WriteOp(p) \in sq
                /\ WriteOp(p) \in kern' <=> WriteOp(p) \in kern
                /\ WriteOp(p) \in cq' <=> WriteOp(p) \in cq
  PROVE  OrderInv'
  BY DEF OrderInv, InRing

\* Every step keeps the order, on a device that keeps it, if no write fails.
LEMMA OrderStep ==
  ASSUME Ordered, "write" \notin MayFail,
         TypeOK, RingInv, FlowInv, OrderInv, [Next]_vars
  PROVE  OrderInv'
  <1>0. /\ OneOwner
        /\ writer \in WriterJob
        /\ writer.page_id \in Nat /\ page_id_check_order \in Nat
        /\ page_id_check_order <= writer.page_id
    BY Fields DEF RingInv, TypeOK, FlowInv
  <1>1. CASE io_uring_submit
    <2>1. InRing' = InRing
      BY <1>0, <1>1, SubmitRing
    <2>2. /\ kern' = kern \cup sq /\ sq' = {} /\ cq' = cq
          /\ writer' = writer /\ page_id_check_order' = page_id_check_order
      BY <1>1 DEF io_uring_submit, jobs
    <2> QED
      BY <2>1, <2>2 DEF OrderInv
  <1>2. ASSUME NEW op, complete(op) PROVE OrderInv'
    <2>0. /\ UNCHANGED <<sq, writer, page_id_check_order>>
          /\ kern' = kern \ {op} /\ cq' = cq \cup {op} /\ op \in kern
          /\ op \in Op
      BY <1>2 DEF complete, jobs, TypeOK
    <2>1. InRing' = InRing
      BY <1>0, <1>2, CompleteRing
    <2>2. CASE op[1] = "write"
      <3>1. PICK p \in Nat : op = WriteOp(p)
        BY <2>0, <2>2, OpKinds, Kinds
      <3>2. \A q \in Nat : WriteOp(q) \in kern => p <= q
        BY <1>2, <2>2, <3>1, Kinds DEF complete, InOrder
      <3>3. \A q \in Nat : WriteOp(q) \in kern' => p < q
        BY <2>0, <3>1, <3>2
      <3>4. \A q \in Nat : WriteOp(q) \in sq => p < q
        BY <2>0, <3>1 DEF OrderInv
      <3>5. \A q \in Nat : WriteOp(q) \in cq' => WriteOp(q) \in cq \/ q = p
        BY <2>0, <3>1, OpsDiffer
      <3>6. \A q, r \in Nat : WriteOp(q) \in cq' /\ WriteOp(r) \in kern' \cup sq'
              => q < r
        BY <2>0, <3>3, <3>4, <3>5 DEF OrderInv
      <3> QED
        BY <2>0, <2>1, <3>6 DEF OrderInv
    <2>3. CASE op[1] # "write"
      <3>1. \A p : WriteOp(p) # op
        BY <2>3, Kinds
      <3> QED
        BY <2>0, <3>1, OrderStutters
    <2> QED
      BY <2>2, <2>3
  <1>3. ASSUME NEW op, fail(op) PROVE OrderInv'
    <2>1. \A p : WriteOp(p) # op
      BY <1>3, Kinds DEF fail
    <2> QED
      BY <1>3, <2>1, OrderStutters DEF fail, jobs
  <1>4. ASSUME NEW p, page_written(p) PROVE OrderInv'
    <2>1. /\ InRing' = InRing \ {WriteOp(p)} /\ OneOwner'
          /\ WriteOp(p) \in InRing
      BY <1>4, CallbackRing, SqesOf DEF page_written
    <2>2. p = page_id_check_order
      BY <1>4, Kinds DEF page_written, Dispatch, asserts_hold
    <2>3. /\ sq' = sq /\ kern' = kern /\ cq' = cq \ {WriteOp(p)}
      BY <1>4, SqesOf DEF page_written, Dispatch
    <2>4. writer'.page_id = writer.page_id
      BY <1>0, <1>4 DEF page_written, WriterJob
    <2>5. page_id_check_order' = page_id_check_order + 1
      BY <1>4 DEF page_written
    <2>6. \A q \in Nat : WriteOp(q) \in InRing' <=> WriteOp(q) \in InRing /\ q # p
      BY <2>1, OpsDiffer
    <2>7. /\ \A q \in Nat : page_id_check_order' <= q /\ q < writer'.page_id =>
               WriteOp(q) \in InRing'
          /\ \A q \in Nat : WriteOp(q) \in InRing' => page_id_check_order' <= q
      BY <1>0, <2>2, <2>4, <2>5, <2>6 DEF OrderInv
    <2> QED
      BY <2>3, <2>7 DEF OrderInv
  <1>5. CASE background_writer
    <2>0. writer_batch \in Nat
      BY WriterBatch
    <2>1. InRing' = (InRing \ {Timer("writer")}) \cup writer_sqes
      BY <1>5, CallbackRing, SqesOf DEF background_writer
    <2>2. \A q \in Nat : WriteOp(q) \in writer_sqes <=>
            writer.page_id <= q /\ q < writer.page_id + writer_batch
      <3>1. \A q \in Nat : WriteOp(q) \in writer_sqes <=>
              q \in writer.page_id .. (writer.page_id + writer_batch) - 1
        BY OpsDiffer DEF writer_sqes, Rearm
      <3> QED
        BY <1>0, <2>0, <3>1
    <2>3. sq' = sq \cup writer_sqes /\ kern' = kern /\ cq' = cq \ {Timer("writer")}
      BY <1>5, SqesOf DEF background_writer, Dispatch
    <2>4. /\ writer'.page_id = writer.page_id + writer_batch
          /\ page_id_check_order' = page_id_check_order
      BY <1>0, <1>5 DEF background_writer, WriterJob
    <2>5. \A q \in Nat : WriteOp(q) \in InRing' <=>
            WriteOp(q) \in InRing \/ WriteOp(q) \in writer_sqes
      BY <2>1, OpsDiffer
    <2>6. \A q \in Nat : WriteOp(q) \in InRing => q < writer.page_id
      BY DEF RingInv
    <2>7. \A q \in Nat : page_id_check_order' <= q /\ q < writer'.page_id =>
            WriteOp(q) \in InRing'
      BY <1>0, <2>0, <2>2, <2>4, <2>5 DEF OrderInv
    <2>8. \A q \in Nat : WriteOp(q) \in InRing' => page_id_check_order' <= q
      BY <1>0, <2>2, <2>4, <2>5 DEF OrderInv
    <2>9. \A q, r \in Nat :
            WriteOp(q) \in kern \cup cq /\ WriteOp(r) \in writer_sqes => q < r
      BY <1>0, <2>2, <2>6 DEF InRing
    <2>10. \A q, r \in Nat : WriteOp(q) \in cq' /\ WriteOp(r) \in kern' \cup sq'
             => q < r
      BY <2>3, <2>9 DEF OrderInv
    <2>11. \A q, r \in Nat : WriteOp(q) \in kern' /\ WriteOp(r) \in sq' => q < r
      BY <2>3, <2>9 DEF OrderInv
    <2> QED
      BY <2>7, <2>8, <2>10, <2>11 DEF OrderInv
  <1>6. ASSUME NEW op, Dispatch(op), op[1] # "write",
               \A o \in sqes(op) : o[1] # "write",
               writer'.page_id = writer.page_id,
               page_id_check_order' = page_id_check_order
        PROVE  OrderInv'
    <2>1. \A p : WriteOp(p) # op /\ WriteOp(p) \notin sqes(op)
      BY <1>6, Kinds
    <2> QED
      BY <1>6, <2>1, OrderStutters DEF Dispatch
  <1>7. /\ \A o \in reader_sqes : o[1] # "write"
        /\ \A o \in flusher_sqes : o[1] # "write"
        /\ \A o \in tracing_sqes : o[1] # "write"
    BY Kinds DEF reader_sqes, flusher_sqes, tracing_sqes, Rearm
  <1>8. CASE file_synced
    <2>1. writer'.page_id = writer.page_id
      BY <1>0, <1>8 DEF file_synced, WriterJob
    <2> QED
      BY <1>6, <1>8, <2>1, SqesOf, Kinds DEF file_synced
  <1>9. CASE \/ \E p : page_read(p)
             \/ background_reader
             \/ background_flusher
             \/ background_tracing
             \/ tracing_writed
             \/ tracing_synced
             \/ background_status
    <2>1. writer' = writer /\ page_id_check_order' = page_id_check_order
      BY <1>9
      DEF page_read, background_reader, background_flusher,
        background_tracing, tracing_writed, tracing_synced, background_status,
        jobs
    <2> QED
      BY <1>6, <1>7, <1>9, <2>1, SqesOf, Kinds
      DEF page_read, background_reader, background_flusher,
        background_tracing, tracing_writed, tracing_synced, background_status
  <1>10. CASE io_tick_return \/ (\E op : assert_fails(op)) \/ UNCHANGED vars
    BY <1>10, OrderStutters DEF io_tick_return, assert_fails, vars, jobs
  <1> QED
    BY <1>1, <1>2, <1>3, <1>4, <1>5, <1>8, <1>9, <1>10, NextCases

-----------------------------------------------------------------------------
(* The submission queue *)

\* Between two submissions the timer of a job is delivered once at most, so
\* that only its last batch can be in the queue; timers and trace writes are
\* those of enabled jobs.
QueueInv ==
  /\ \A p \in Nat : WriteOp(p) \in sq =>
       /\ writer.page_id - writer.batch_size <= p
       /\ Timer("writer") \notin kern \cup cq
  /\ \A p \in Nat : ReadOp(p) \in sq =>
       /\ reader.page_id - reader.batch_size <= p
       /\ Timer("reader") \notin kern \cup cq
  /\ \A j \in Jobs : Timer(j) \in InRing => j \in Enabled
  /\ Dump \in InRing \/ TSync \in InRing => "tracing" \in Enabled

\* What a callback prepares, by kind: writes and reads only by their jobs, no
\* timer but its own, a dump only while dump_op is free, its fsync only after it.
LEMMA SqesKinds ==
  ASSUME TypeOK, NEW op \in Op, NEW x \in sqes(op)
  PROVE  /\ x \in Op
         /\ x[1] = "write" =>
              /\ op = Timer("writer")
              /\ \E p \in writer.page_id .. (writer.page_id + writer_batch) - 1 :
                   x = WriteOp(p)
         /\ x[1] = "read" =>
              /\ op = Timer("reader")
              /\ \E p \in reader.page_id .. (reader.page_id + reader_batch) - 1 :
                   x = ReadOp(p)
         /\ x[1] = "timer" => x = op
         /\ x = Dump => op = Timer("tracing") /\ tracing.inflight = 0
         /\ x = TSync => op = Dump
  <1>1. CASE op \notin {Timer(j) : j \in Jobs} \cup {Dump}
    BY <1>1, OpKinds, SqesOf
  <1>2. CASE op = Dump
    BY <1>2, SqesOf, Kinds, OpTypes, OpsDiffer
  <1>3. CASE op = Timer("writer")
    <2>1. \/ \E p \in writer.page_id .. (writer.page_id + writer_batch) - 1 :
               x = WriteOp(p)
          \/ x = op
      BY <1>3, SqesOf DEF writer_sqes, Rearm
    <2>2. x \in Op
      BY <1>3, SqesOf, SqesType
    <2> QED
      BY <1>3, <2>1, <2>2, Kinds
  <1>4. CASE op = Timer("reader")
    <2>1. \/ \E p \in reader.page_id .. (reader.page_id + reader_batch) - 1 :
               x = ReadOp(p)
          \/ x = op
      BY <1>4, SqesOf DEF reader_sqes, Rearm
    <2>2. x \in Op
      BY <1>4, SqesOf, SqesType
    <2> QED
      BY <1>4, <2>1, <2>2, Kinds
  <1>5. CASE op = Timer("flusher")
    <2>1. x = Fsync \/ x = op
      BY <1>5, SqesOf DEF flusher_sqes, Rearm
    <2> QED
      BY <1>5, <2>1, Kinds, OpTypes
  <1>6. CASE op = Timer("tracing")
    <2>1. (x = Dump /\ tracing.inflight = 0) \/ x = op
      BY <1>6, SqesOf DEF tracing_sqes, Rearm, dump_due
    <2> QED
      BY <1>6, <2>1, Kinds, OpTypes
  <1>7. CASE op = Timer("status")
    BY <1>7, SqesOf, Kinds
  <1> QED
    BY <1>1, <1>2, <1>3, <1>4, <1>5, <1>6, <1>7 DEF Jobs

\* At the start the timers of the enabled jobs are prepared and nothing else.
LEMMA QueueInit ==
  ASSUME Init
  PROVE  QueueInv
  BY OpsDiffer DEF Init, QueueInv, InRing

\* A step that prepares nothing.
LEMMA QueueStutters ==
  ASSUME QueueInv, sq' \subseteq sq, InRing' \subseteq InRing,
         kern' \cup cq' \subseteq kern \cup cq \/ sq' = {},
         writer'.page_id = writer.page_id,
         writer'.batch_size = writer.batch_size,
         reader'.page_id = reader.page_id,
         reader'.batch_size = reader.batch_size
  PROVE  QueueInv'
  BY DEF QueueInv

\* A callback: the writer's and the reader's may replace their batches.
LEMMA QueueCallback ==
  ASSUME TypeOK, RingInv, QueueInv, NEW op, Dispatch(op),
         IF op = Timer("writer")
         THEN /\ writer'.page_id = writer.page_id + writer_batch
              /\ writer'.batch_size = writer_batch
         ELSE /\ writer'.page_id = writer.page_id
              /\ writer'.batch_size = writer.batch_size,
         IF op = Timer("reader")
         THEN /\ reader'.page_id = reader.page_id + reader_batch
              /\ reader'.batch_size = reader_batch
         ELSE /\ reader'.page_id = reader.page_id
              /\ reader'.batch_size = reader.batch_size
  PROVE  QueueInv'
  <1>0. /\ op \in Op /\ op \in cq /\ op \in InRing
        /\ sq' = sq \cup sqes(op) /\ kern' = kern /\ cq' = cq \ {op}
        /\ op \notin kern
        /\ InRing' = (InRing \ {op}) \cup sqes(op)
    BY CallbackRing DEF Dispatch, TypeOK, RingInv, OneOwner
  <1>1. /\ writer.page_id \in Nat /\ writer_batch \in Nat
        /\ reader.page_id \in Nat /\ reader_batch \in Nat
    BY Fields, WriterBatch, ReaderBatch
  <1>2. ASSUME NEW p \in Nat, WriteOp(p) \in sq'
        PROVE  /\ writer'.page_id - writer'.batch_size <= p
               /\ Timer("writer") \notin kern' \cup cq'
    <2>1. CASE WriteOp(p) \in sq
      <3>1. Timer("writer") \notin kern \cup cq
        BY <2>1 DEF QueueInv
      <3> QED
        BY <1>0, <2>1, <3>1 DEF QueueInv
    <2>2. CASE WriteOp(p) \in sqes(op)
      <3>1. op = Timer("writer") /\ p \in writer.page_id .. (writer.page_id + writer_batch) - 1
        BY <1>0, <2>2, SqesKinds, Kinds
      <3> QED
        BY <1>0, <1>1, <3>1
    <2> QED
      BY <1>0, <1>2, <2>1, <2>2
  <1>3. ASSUME NEW p \in Nat, ReadOp(p) \in sq'
        PROVE  /\ reader'.page_id - reader'.batch_size <= p
               /\ Timer("reader") \notin kern' \cup cq'
    <2>1. CASE ReadOp(p) \in sq
      <3>1. Timer("reader") \notin kern \cup cq
        BY <2>1 DEF QueueInv
      <3> QED
        BY <1>0, <2>1, <3>1 DEF QueueInv
    <2>2. CASE ReadOp(p) \in sqes(op)
      <3>1. op = Timer("reader") /\ p \in reader.page_id .. (reader.page_id + reader_batch) - 1
        BY <1>0, <2>2, SqesKinds, Kinds
      <3> QED
        BY <1>0, <1>1, <3>1
    <2> QED
      BY <1>0, <1>3, <2>1, <2>2
  <1>4. \A j \in Jobs : Timer(j) \in InRing' => j \in Enabled
    <2>1. \A j \in Jobs : Timer(j) \in sqes(op) => Timer(j) = op
      BY <1>0, SqesKinds, Kinds
    <2> QED
      BY <1>0, <2>1 DEF QueueInv
  <1>5. Dump \in InRing' \/ TSync \in InRing' => "tracing" \in Enabled
    <2>1. Dump \in sqes(op) => op = Timer("tracing")
      BY <1>0, SqesKinds
    <2>2. TSync \in sqes(op) => op = Dump
      BY <1>0, SqesKinds
    <2> QED
      BY <1>0, <2>1, <2>2 DEF QueueInv, Jobs
  <1> QED
    BY <1>2, <1>3, <1>4, <1>5 DEF QueueInv

\* Every step keeps the queue invariant.
LEMMA QueueStep ==
  ASSUME TypeOK, RingInv, QueueInv, [Next]_vars
  PROVE  QueueInv'
  <1>0. OneOwner /\ writer \in WriterJob /\ reader \in ReaderJob
    BY DEF RingInv, TypeOK
  <1>1. CASE io_uring_submit
    BY <1>0, <1>1, SubmitRing, QueueStutters DEF io_uring_submit, jobs
  <1>2. CASE io_tick_return \/ (\E op : assert_fails(op)) \/ UNCHANGED vars
    BY <1>2, QueueStutters DEF io_tick_return, assert_fails, vars, jobs, InRing
  <1>3. ASSUME NEW op, complete(op) PROVE QueueInv'
    BY <1>0, <1>3, CompleteRing, QueueStutters DEF complete, jobs
  <1>4. ASSUME NEW op, fail(op) PROVE QueueInv'
    BY <1>0, <1>4, FailRing, QueueStutters DEF fail, jobs
  <1>5. ASSUME NEW p, page_written(p) PROVE QueueInv'
    <2>1. writer'.page_id = writer.page_id /\ writer'.batch_size = writer.batch_size
      BY <1>0, <1>5 DEF page_written, WriterJob
    <2> QED
      BY <1>5, <2>1, QueueCallback, OpsDiffer DEF page_written
  <1>6. ASSUME NEW p, page_read(p) PROVE QueueInv'
    <2>1. reader'.page_id = reader.page_id /\ reader'.batch_size = reader.batch_size
      BY <1>0, <1>6 DEF page_read, ReaderJob
    <2> QED
      BY <1>6, <2>1, QueueCallback, OpsDiffer DEF page_read
  <1>7. CASE file_synced
    <2>1. writer'.page_id = writer.page_id /\ writer'.batch_size = writer.batch_size
      BY <1>0, <1>7 DEF file_synced, WriterJob
    <2> QED
      BY <1>7, <2>1, QueueCallback, OpsDiffer DEF file_synced
  <1>8. CASE background_writer
    <2>1. /\ writer'.page_id = writer.page_id + writer_batch
          /\ writer'.batch_size = writer_batch
      BY <1>0, <1>8 DEF background_writer, WriterJob
    <2>2. reader' = reader /\ Dispatch(Timer("writer"))
      BY <1>8 DEF background_writer
    <2> QED
      BY <2>1, <2>2, QueueCallback, OpsDiffer
  <1>9. CASE background_reader
    <2>1. /\ reader'.page_id = reader.page_id + reader_batch
          /\ reader'.batch_size = reader_batch
      BY <1>0, <1>9 DEF background_reader, ReaderJob
    <2>2. writer' = writer /\ Dispatch(Timer("reader"))
      BY <1>9 DEF background_reader
    <2> QED
      BY <2>1, <2>2, QueueCallback, OpsDiffer
  <1>10. CASE \/ background_flusher
              \/ background_tracing
              \/ tracing_writed
              \/ tracing_synced
              \/ background_status
    <2>1. writer' = writer /\ reader' = reader
      BY <1>10
      DEF background_flusher, background_tracing, tracing_writed,
        tracing_synced, background_status, jobs
    <2>2. \E op : /\ Dispatch(op)
                  /\ op # Timer("writer") /\ op # Timer("reader")
      BY <1>10, OpsDiffer
      DEF background_flusher, background_tracing, tracing_writed,
        tracing_synced, background_status
    <2> QED
      BY <2>1, <2>2, QueueCallback
  <1> QED
    BY <1>1, <1>2, <1>3, <1>4, <1>5, <1>6, <1>7, <1>8, <1>9, <1>10, NextCases

\* Operations of one kind on n pages are at most n operations.
LEMMA BatchBound ==
  ASSUME NEW a \in Int, NEW n \in Nat, NEW T,
         \/ \A x \in T : \E p \in a .. (a + n) - 1 : x = ReadOp(p)
         \/ \A x \in T : \E p \in a .. (a + n) - 1 : x = WriteOp(p)
  PROVE  IsFiniteSet(T) /\ Cardinality(T) <= n
  <1> DEFINE I == a .. (a + n) - 1
             f == [x \in T |-> x[2]]
  <1>1. IsFiniteSet(I) /\ Cardinality(I) = n
    BY FS_Interval
  <1>2. /\ \A x \in T : x[2] \in I
        /\ \A x, y \in T : x[2] = y[2] => x = y
    BY Kinds
  <1>3. f \in Injection(T, I)
    BY <1>2 DEF Injection, IsInjective
  <1> QED
    BY <1>1, <1>3, FS_Injection

\* There is one timer for each job.
LEMMA TimerBound ==
  ASSUME NEW T, \A x \in T : \E j \in Enabled : x = Timer(j)
  PROVE  /\ IsFiniteSet(T) /\ Cardinality(T) <= Cardinality(Enabled)
         /\ Cardinality(Enabled) \in Nat
  <1>1. IsFiniteSet(Jobs)
    <2>1. Jobs = (((({"writer"} \cup {"reader"}) \cup {"flusher"})
                     \cup {"tracing"}) \cup {"status"})
      BY DEF Jobs
    <2>2. IsFiniteSet({"writer"})
      BY FS_Singleton
    <2> QED
      BY <2>1, <2>2, FS_AddElement
  <1>2. IsFiniteSet(Enabled) /\ Cardinality(Enabled) \in Nat
    BY <1>1, FS_Subset, FS_CardinalityType, SchedulerAssumption
    DEF SchedulerAssumption
  <1> DEFINE f == [x \in T |-> x[2]]
  <1>3. /\ \A x \in T : x[2] \in Enabled
        /\ \A x, y \in T : x[2] = y[2] => x = y
    BY DEF Timer
  <1>4. f \in Injection(T, Enabled)
    BY <1>3 DEF Injection, IsInjective
  <1> QED
    BY <1>2, <1>4, FS_Injection

\* The sizes of two parts bound the size of the whole.
LEMMA BoundUnion ==
  ASSUME NEW A, IsFiniteSet(A), NEW m \in Nat, Cardinality(A) <= m,
         NEW B, IsFiniteSet(B), NEW n \in Nat, Cardinality(B) <= n
  PROVE  IsFiniteSet(A \cup B) /\ Cardinality(A \cup B) <= m + n
  <1>1. /\ IsFiniteSet(A \cup B)
        /\ Cardinality(A \cup B)
             = Cardinality(A) + Cardinality(B) - Cardinality(A \cap B)
    BY FS_Union
  <1>2. IsFiniteSet(A \cap B)
    BY FS_Subset
  <1>3. /\ Cardinality(A) \in Nat /\ Cardinality(B) \in Nat
        /\ Cardinality(A \cap B) \in Nat
    BY <1>2, FS_CardinalityType
  <1> QED
    BY <1>1, <1>3

\* When the callback of op runs, the queue and what the callback adds to it are
\* one batch of each kind, a timer of each job, an fsync and a trace write.
LEMMA QueueNeed ==
  ASSUME TypeOK, RingInv, QueueInv, NEW op \in cq
  PROVE  /\ Cardinality(sq) + Cardinality(sqes(op)) <= queue_need(op)
         /\ Cardinality(sq) + Cardinality(sqes(op)) \in Nat
         /\ queue_need(op) \in Nat
  <1> DEFINE U == sq \cup sqes(op)
             W == {x \in U : x[1] = "write"}
             R == {x \in U : x[1] = "read"}
             T == {x \in U : x[1] = "timer"}
             F == U \cap {Fsync}
             D == U \cap {Dump, TSync}
             w == IF op = Timer("writer") THEN writer_batch ELSE writer.batch_size
             r == IF op = Timer("reader") THEN reader_batch ELSE reader.batch_size
             d == IF "tracing" \in Enabled THEN 1 ELSE 0
  <1>0. /\ op \in Op /\ op \notin sq /\ op \notin kern /\ op \in InRing
        /\ sq \subseteq Op
        /\ writer.page_id \in Nat /\ writer.batch_size \in Nat /\ writer_batch \in Nat
        /\ reader.page_id \in Nat /\ reader.batch_size \in Nat /\ reader_batch \in Nat
    BY Fields, WriterBatch, ReaderBatch DEF TypeOK, RingInv, OneOwner, InRing
  <1>1. IsFiniteSet(W) /\ Cardinality(W) <= w /\ w \in Nat
    <2> DEFINE a == IF op = Timer("writer")
                    THEN writer.page_id ELSE writer.page_id - writer.batch_size
    <2>1. a \in Int /\ w \in Nat
      BY <1>0
    <2>2. ASSUME NEW x \in W PROVE \E p \in a .. (a + w) - 1 : x = WriteOp(p)
      <3>1. CASE x \in sqes(op)
        BY <1>0, <2>2, <3>1, SqesKinds
      <3>2. CASE x \in sq
        <4>1. PICK p \in Nat : x = WriteOp(p)
          BY <1>0, <2>2, <3>2, OpKinds, Kinds
        <4>2. /\ writer.page_id - writer.batch_size <= p
              /\ op # Timer("writer")
          BY <3>2, <4>1 DEF QueueInv
        <4>3. p < writer.page_id
          BY <3>2, <4>1 DEF RingInv, InRing
        <4>4. p \in a .. (a + w) - 1
          BY <1>0, <4>2, <4>3
        <4> QED
          BY <4>1, <4>4
      <3> QED
        BY <2>2, <3>1, <3>2
    <2> HIDE DEF a, w, W
    <2> QED
      BY <2>1, <2>2, BatchBound
  <1>2. IsFiniteSet(R) /\ Cardinality(R) <= r /\ r \in Nat
    <2> DEFINE a == IF op = Timer("reader")
                    THEN reader.page_id ELSE reader.page_id - reader.batch_size
    <2>1. a \in Int /\ r \in Nat
      BY <1>0
    <2>2. ASSUME NEW x \in R PROVE \E p \in a .. (a + r) - 1 : x = ReadOp(p)
      <3>1. CASE x \in sqes(op)
        BY <1>0, <2>2, <3>1, SqesKinds
      <3>2. CASE x \in sq
        <4>1. PICK p \in Nat : x = ReadOp(p)
          BY <1>0, <2>2, <3>2, OpKinds, Kinds
        <4>2. /\ reader.page_id - reader.batch_size <= p
              /\ op # Timer("reader")
          BY <3>2, <4>1 DEF QueueInv
        <4>3. p < reader.page_id
          BY <3>2, <4>1 DEF RingInv, InRing
        <4>4. p \in a .. (a + r) - 1
          BY <1>0, <4>2, <4>3
        <4> QED
          BY <4>1, <4>4
      <3> QED
        BY <2>2, <3>1, <3>2
    <2> HIDE DEF a, r, R
    <2> QED
      BY <2>1, <2>2, BatchBound
  <1>3. /\ IsFiniteSet(T) /\ Cardinality(T) <= Cardinality(Enabled)
        /\ Cardinality(Enabled) \in Nat
    <2>1. ASSUME NEW x \in T PROVE \E j \in Enabled : x = Timer(j)
      <3>1. x \in InRing
        BY <1>0, <2>1, SqesKinds DEF InRing
      <3>2. x \in Op
        BY <1>0, <2>1, SqesKinds
      <3>3. PICK j \in Jobs : x = Timer(j)
        BY <2>1, <3>2, OpKinds, Kinds
      <3> QED
        BY <3>1, <3>3 DEF QueueInv
    <2> HIDE DEF T
    <2> QED
      BY <2>1, TimerBound
  <1>4. IsFiniteSet(F) /\ Cardinality(F) <= 1
    <2>1. IsFiniteSet({Fsync}) /\ Cardinality({Fsync}) = 1
      BY FS_Singleton
    <2> QED
      BY <2>1, FS_Subset
  <1>5. IsFiniteSet(D) /\ Cardinality(D) <= d /\ d \in Nat
    <2>1. ~(Dump \in U /\ TSync \in U)
      <3>1. Dump \in sq => TSync \notin sq /\ TSync \notin sqes(op)
        BY <1>0, SqesKinds DEF RingInv, DumpHoldsItems, InRing
      <3>2. Dump \in sqes(op) => TSync \notin sq
        BY <1>0, SqesKinds DEF RingInv, DumpHoldsItems, InRing
      <3>3. Dump \in sqes(op) => TSync \notin sqes(op)
        BY <1>0, SqesKinds, OpsDiffer
      <3> QED
        BY <3>1, <3>2, <3>3
    <2>2. D # {} => "tracing" \in Enabled
      <3>1. Dump \in sqes(op) => op = Timer("tracing")
        BY <1>0, SqesKinds
      <3>2. TSync \in sqes(op) => op = Dump
        BY <1>0, SqesKinds
      <3> QED
        BY <1>0, <3>1, <3>2 DEF QueueInv, InRing, Jobs
    <2>3. D = {} \/ \E x : D = {x}
      BY <2>1
    <2>4. CASE D = {}
      BY <2>4, FS_EmptySet
    <2>5. CASE D # {}
      <3>1. d = 1
        BY <2>2, <2>5
      <3>2. PICK x : D = {x}
        BY <2>3, <2>5
      <3>3. IsFiniteSet({x}) /\ Cardinality({x}) = 1
        BY FS_Singleton
      <3> HIDE DEF D, d
      <3> QED
        BY <3>1, <3>2, <3>3
    <2> QED
      BY <2>4, <2>5
  <1>6. U = (((W \cup R) \cup T) \cup F) \cup D
    <2>1. U \subseteq Op
      BY <1>0, SqesKinds
    <2> QED
      BY <2>1, OpKinds, Kinds
  <1>7. sq \cap sqes(op) = {}
    <2>1. ASSUME NEW x \in sq, x \in sqes(op) PROVE FALSE
      <3>1. \A j \in Jobs : sqes(Timer(j)) \cap InRing \subseteq {Timer(j)}
        BY FreshSqes, SqesOf DEF Jobs
      <3>2. op = Dump => TSync \notin InRing
        BY <1>0 DEF RingInv, DumpHoldsItems
      <3>3. sqes(op) \cap InRing \subseteq {op}
        BY <1>0, <3>1, <3>2, OpKinds, SqesOf
      <3> QED
        BY <1>0, <2>1, <3>3 DEF InRing
    <2> QED
      BY <2>1
  <1>8. queue_need(op) = (((w + r) + Cardinality(Enabled)) + 1) + d
    <2>1. d + 1 = IF "tracing" \in Enabled THEN 2 ELSE 1
      OBVIOUS
    <2>2. queue_need(op) = w + r + Cardinality(Enabled)
                             + (IF "tracing" \in Enabled THEN 2 ELSE 1)
      BY DEF queue_need
    <2> HIDE DEF w, r, d
    <2> QED
      BY <1>1, <1>2, <1>3, <1>5, <2>1, <2>2
  <1> HIDE DEF W, R, T, F, D, w, r, d
  <1> DEFINE e == Cardinality(Enabled)
             V == W \cup R
             v == w + r
             X == V \cup T
             y == v + e
             Y == X \cup F
             z == y + 1
  <1> HIDE DEF e
  <1>9. IsFiniteSet(V) /\ Cardinality(V) <= v /\ v \in Nat
    BY <1>1, <1>2, BoundUnion
  <1>10. IsFiniteSet(X) /\ Cardinality(X) <= y /\ y \in Nat
    <2>1. IsFiniteSet(T) /\ Cardinality(T) <= e /\ e \in Nat
      BY <1>3 DEF e
    <2> HIDE DEF V, v
    <2> QED
      BY <1>9, <2>1, BoundUnion
  <1>11. IsFiniteSet(Y) /\ Cardinality(Y) <= z /\ z \in Nat
    <2>1. 1 \in Nat
      OBVIOUS
    <2> HIDE DEF X, y
    <2> QED
      BY <1>4, <1>10, <2>1, BoundUnion
  <1>12. /\ IsFiniteSet(U) /\ Cardinality(U) <= queue_need(op)
         /\ queue_need(op) \in Nat
    <2>1. queue_need(op) = z + d
      BY <1>8 DEF e
    <2>2. U = Y \cup D
      BY <1>6
    <2> HIDE DEF Y, z, U
    <2>3. IsFiniteSet(Y \cup D) /\ Cardinality(Y \cup D) <= z + d
      BY <1>5, <1>11, BoundUnion
    <2>4. z + d \in Nat
      BY <1>5, <1>11
    <2> QED
      BY <2>1, <2>2, <2>3, <2>4
  <1>13. IsFiniteSet(sq) /\ IsFiniteSet(sqes(op))
    BY <1>12, FS_Subset
  <1>14. /\ Cardinality(U) = Cardinality(sq) + Cardinality(sqes(op))
         /\ Cardinality(sq) + Cardinality(sqes(op)) \in Nat
    <2>1. Cardinality(U) = Cardinality(sq) + Cardinality(sqes(op))
                             - Cardinality(sq \cap sqes(op))
      BY <1>13, FS_Union
    <2>2. Cardinality(sq \cap sqes(op)) = 0
      BY <1>7, FS_EmptySet
    <2>3. Cardinality(sq) \in Nat /\ Cardinality(sqes(op)) \in Nat
      BY <1>13, FS_CardinalityType
    <2> HIDE DEF U
    <2> QED
      BY <2>1, <2>2, <2>3
  <1> QED
    BY <1>12, <1>14

-----------------------------------------------------------------------------
(* The theorems *)

\* The invariant is inductive: main()'s set-up establishes it and every step of
\* the program, the kernel and the device keeps it.
THEOREM Inductive == Spec => []IndInv
  <1>1. Init => IndInv
    BY TypeInit, RingInit, FlowInit, DeviceInit, ArmedInit, ModuloInit DEF IndInv
  <1>2. IndInv /\ [Next]_vars => IndInv'
    BY TypeStep, RingStep, FlowStep, DeviceStep, ArmedStep, ModuloStep DEF IndInv
  <1> QED
    BY <1>1, <1>2, PTL DEF Spec

\* Every variable keeps its type; the trace ring neither over- nor underflows.
THEOREM TypeCorrect == Spec => []TypeOK
  <1>1. IndInv => TypeOK
    BY DEF IndInv
  <1> QED
    BY <1>1, Inductive, PTL

\* No struct op is ever in the ring twice.
THEOREM OpsNeverShared == Spec => []OneOwner
  <1>1. IndInv => OneOwner
    BY DEF IndInv, RingInv
  <1> QED
    BY <1>1, Inductive, PTL

\* The trace ring keeps the items of a dump until it has been written.
THEOREM DumpIsStable == Spec => []DumpHoldsItems
  <1>1. IndInv => DumpHoldsItems
    BY DEF IndInv, RingInv
  <1> QED
    BY <1>1, Inductive, PTL

\* A running writer, reader or flusher always has its timer in the ring.
THEOREM NoJobForgotten == Spec => []RunningIsArmed
  <1>1. IndInv => RunningIsArmed
    BY DEF IndInv
  <1> QED
    BY <1>1, Inductive, PTL

\* The writer's 8-bit counter is the number of writes without a callback, modulo
\* its width.
THEOREM InflightIsModulo == Spec => []InflightModulo
  <1>1. IndInv => InflightModulo
    BY DEF IndInv
  <1> QED
    BY <1>1, Inductive, PTL

\* The flusher's mark and list account for every completed write.
THEOREM AccountingHolds == Spec => []FlushAccounting
  <1>1. IndInv => FlushAccounting
    BY DEF IndInv, FlowInv
  <1> QED
    BY <1>1, Inductive, PTL

\* The writer never issues twice what it was asked for.
THEOREM OvershootBounded == Spec => []Overshoot
  <1>1. IndInv => Overshoot
    BY DEF IndInv, FlowInv
  <1> QED
    BY <1>1, Inductive, PTL

\* A page is read only after the device has it.
THEOREM ReadsAreSafe == Spec => []ReadsFollowWrites
  <1>1. ASSUME IndInv PROVE ReadsFollowWrites
    <2>1. /\ reader.page_id <= flusher.page_id
          /\ flusher.page_id <= page_id_check_order
          /\ page_id_check_order \in Nat
      BY <1>1, Fields DEF IndInv, TypeOK, FlowInv, FlushAccounting
    <2>2. ASSUME NEW op \in InRing, op[1] = "read" PROVE op[2] \in disk
      <3>1. op = ReadOp(op[2]) /\ op[2] \in Nat
        BY <1>1, <2>2 DEF IndInv, TypeOK, InRing, Op, ReadOp, Fsync, Dump, TSync
      <3>2. op[2] < reader.page_id
        BY <1>1, <3>1 DEF IndInv, RingInv
      <3> QED
        BY <1>1, <2>1, <3>1, <3>2, Fields DEF IndInv, DeviceInv
    <2> QED
      BY <2>1, <2>2 DEF ReadsFollowWrites
  <1> QED
    BY <1>1, Inductive, PTL

\* main() ends only when everything was written, credited and read back.
THEOREM ExitIsComplete == Spec => []ExitComplete
  <1>1. ASSUME IndInv PROVE ExitComplete
    <2>1. /\ flusher.page_id <= page_id_check_order
          /\ page_id_check_order \in Nat
          /\ flusher.page_id \in Nat
      BY <1>1, Fields DEF IndInv, TypeOK, FlowInv, FlushAccounting
    <2>2. SUFFICES ASSUME pc = "exit"
                   PROVE  /\ 0 .. Pages - 1 \subseteq disk
                          /\ Pages <= flusher.page_id
                          /\ "reader" \in Enabled => Pages <= reader.page_id
      BY DEF ExitComplete
    <2>3. /\ Pages <= flusher.page_id
          /\ "reader" \in Enabled => Pages <= reader.page_id
      BY <1>1, <2>2 DEF IndInv, FlowInv
    <2>4. 0 .. Pages - 1 \subseteq disk
      BY <1>1, <2>1, <2>3, Widths DEF IndInv, DeviceInv
    <2> QED
      BY <2>3, <2>4
  <1> QED
    BY <1>1, Inductive, PTL

\* When the flusher's mark moves, what it had credited before is durable.
THEOREM LagIsOneFsync == Spec => DurableLag
  <1>1. ASSUME IndInv, [Next]_vars
        PROVE  [flusher.page_id' # flusher.page_id =>
                  0 .. flusher.page_id - 1 \subseteq durable]_vars
    <2>0. flusher \in FlusherJob /\ flusher.page_id \in Nat
      BY <1>1, Fields DEF IndInv, TypeOK
    <2>1. CASE file_synced
      <3>1. Fsync \in cq
        BY <2>1 DEF file_synced, Dispatch
      <3> QED
        BY <1>1, <2>0, <3>1 DEF IndInv, DeviceInv
    <2>2. ASSUME NEW p, page_written(p) PROVE flusher'.page_id = flusher.page_id
      BY <2>0, <2>2 DEF page_written, FlusherJob
    <2>3. CASE background_flusher
      BY <2>0, <2>3 DEF background_flusher, FlusherJob
    <2>4. CASE \/ io_uring_submit
               \/ io_tick_return
               \/ background_writer
               \/ background_reader
               \/ background_tracing
               \/ tracing_writed
               \/ tracing_synced
               \/ background_status
               \/ \E p : page_read(p)
               \/ \E op : assert_fails(op) \/ complete(op) \/ fail(op)
      BY <2>4 DEF io_uring_submit, io_tick_return, background_writer,
           background_reader, background_tracing, tracing_writed,
           tracing_synced, background_status, page_read, assert_fails,
           complete, fail, jobs
    <2>5. CASE UNCHANGED vars
      BY <2>5
    <2> QED
      BY <1>1, <2>1, <2>2, <2>3, <2>4, <2>5, NextCases
  <1> QED
    BY <1>1, Inductive, PTL DEF Spec, DurableLag

\* As long as no read fails, the reader's 8-bit counter is the number of reads
\* in flight, modulo its width.
THEOREM ReaderInflightIsModulo ==
  ASSUME "read" \notin MayFail
  PROVE  Spec => []ReaderInflightModulo
  <1>1. Init => ReadsInv
    BY ReadsInit
  <1>2. IndInv /\ ReadsInv /\ [Next]_vars => ReadsInv'
    BY ReadsStep DEF IndInv
  <1>3. ReadsInv => ReaderInflightModulo
    BY DEF ReadsInv
  <1> QED
    BY <1>1, <1>2, <1>3, Inductive, PTL DEF Spec

\* On a device that keeps the order of its writes and fails none of them, the
\* assertion of page_written holds for every CQE it can be called with.
THEOREM AssertOrderHolds ==
  ASSUME Ordered, "write" \notin MayFail
  PROVE  Spec => []WritesCompleteInOrder
  <1>1. Init => OrderInv
    BY OrderInit
  <1>2. IndInv /\ OrderInv /\ [Next]_vars => OrderInv'
    BY OrderStep DEF IndInv
  <1>3. ASSUME IndInv, OrderInv PROVE WritesCompleteInOrder
    <2>1. SUFFICES ASSUME NEW op \in cq, op[1] = "write", InOrder(op, cq)
                   PROVE  op[2] = page_id_check_order
      BY DEF WritesCompleteInOrder
    <2>2. PICK p \in Nat : op = WriteOp(p)
      BY <1>3, <2>1, OpKinds, Kinds DEF IndInv, TypeOK
    <2>3. /\ page_id_check_order \in Nat /\ writer.page_id \in Nat
          /\ page_id_check_order <= p /\ p < writer.page_id
      BY <1>3, <2>2, Fields DEF IndInv, TypeOK, RingInv, OrderInv, InRing
    <2>4. WriteOp(page_id_check_order) \in InRing
      BY <1>3, <2>3 DEF OrderInv
    <2>5. \A q \in Nat : WriteOp(q) \in cq => p <= q
      BY <1>3, <2>1, <2>2, Kinds DEF InOrder
    <2>6. \A q \in Nat : WriteOp(q) \in kern \cup sq => p <= q
      BY <1>3, <2>2 DEF OrderInv
    <2>7. p <= page_id_check_order
      BY <2>3, <2>4, <2>5, <2>6 DEF InRing
    <2> QED
      BY <2>2, <2>3, <2>7, Kinds
  <1> QED
    BY <1>1, <1>2, <1>3, Inductive, PTL DEF Spec

\* The queue invariant holds throughout.
LEMMA QueueInductive == Spec => []QueueInv
  <1>1. Init => QueueInv
    BY QueueInit
  <1>2. IndInv /\ QueueInv /\ [Next]_vars => QueueInv'
    BY QueueStep DEF IndInv
  <1> QED
    BY <1>1, <1>2, Inductive, PTL DEF Spec

\* In whatever order and number the completions of one io_tick arrive, their
\* callbacks never need more of the submission queue than the last batches, the
\* timers, an fsync and a trace write.
THEOREM QueueIsBounded == Spec => []QueueBounded
  <1>1. ASSUME IndInv, QueueInv PROVE QueueBounded
    BY <1>1, QueueNeed DEF IndInv, QueueBounded
  <1> QED
    BY <1>1, Inductive, QueueInductive, PTL

\* On a device that keeps the order of its writes and fails none of them, only
\* the ASSERT on the SQE that io_prepare_sqe returned can stop the program, and
\* only when the adaptive batches have outgrown the queue.
THEOREM OnlyOverflowAborts ==
  ASSUME Ordered, "write" \notin MayFail
  PROVE  Spec => []AbortIsOverflow
  <1>1. Init => AbortIsOverflow
    BY DEF Init, AbortIsOverflow
  <1>2. ASSUME IndInv, QueueInv, WritesCompleteInOrder, AbortIsOverflow,
               [Next]_vars
        PROVE  AbortIsOverflow'
    <2>1. CASE UNCHANGED vars
      <3>1. \A op : queue_need(op)' = queue_need(op)
        BY <2>1 DEF vars, jobs, queue_need, writer_batch, reader_batch,
                    limit_page_id
      <3>2. pc' = pc /\ cq' = cq
        BY <2>1 DEF vars
      <3> QED
        BY <1>2, <3>1, <3>2 DEF AbortIsOverflow
    <2>2. ASSUME NEW op, assert_fails(op) PROVE AbortIsOverflow'
      <3>1. /\ pc = "drain" /\ op \in cq /\ InOrder(op, cq) /\ ~asserts_hold(op)
            /\ UNCHANGED <<cq, jobs>>
        BY <2>2 DEF assert_fails
      <3>2. op[1] = "write" => op[2] = page_id_check_order
        BY <1>2, <3>1 DEF WritesCompleteInOrder
      <3>3. ~(Cardinality(sq) + Cardinality(sqes(op)) <= ENTRIES)
        BY <3>1, <3>2 DEF asserts_hold, sqes_available
      <3>4. /\ Cardinality(sq) + Cardinality(sqes(op)) <= queue_need(op)
            /\ Cardinality(sq) + Cardinality(sqes(op)) \in Nat
            /\ queue_need(op) \in Nat
        BY <1>2, <3>1, QueueNeed DEF IndInv
      <3>5. ENTRIES \in Nat
        BY SchedulerAssumption DEF SchedulerAssumption
      <3>6. queue_need(op) > ENTRIES
        BY <3>3, <3>4, <3>5
      <3>7. queue_need(op)' = queue_need(op)
        BY <3>1 DEF jobs, queue_need, writer_batch, reader_batch, limit_page_id
      <3> QED
        BY <3>1, <3>6, <3>7 DEF AbortIsOverflow
    <2>3. CASE ~(UNCHANGED vars) /\ ~\E op : assert_fails(op)
      <3>1. pc' # "abort"
        BY <1>2, <2>3, NextCases
        DEF io_uring_submit, io_tick_return, complete, fail, page_written,
          page_read, file_synced, background_writer, background_reader,
          background_flusher, background_tracing, tracing_writed,
          tracing_synced, background_status, Dispatch
      <3> QED
        BY <3>1 DEF AbortIsOverflow
    <2> QED
      BY <2>1, <2>2, <2>3
  <1> QED
    BY <1>1, <1>2, Inductive, QueueInductive, AssertOrderHolds, PTL DEF Spec
=============================================================================
