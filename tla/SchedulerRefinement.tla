------------------------- MODULE SchedulerRefinement -------------------------
(***************************************************************************)
(* Module Scheduler implements module Pipeline, for every value of the     *)
(* constants: each step of the program, the kernel and the device is a     *)
(* step of the pipeline or leaves its stages alone.                        *)
(***************************************************************************)
EXTENDS SchedulerProofs

\* The steps that are invisible to the pipeline.
LEMMA Invisible ==
  ASSUME UNCHANGED <<writer.page_id, page_id_check_order, flusher.page_id,
                     reader.page_id, pc = "exit">>
  PROVE  UNCHANGED Abstract!stages
  BY DEF Abstract!stages

\* The initial state of the scheduler is that of the pipeline.
LEMMA SimulateInit ==
  ASSUME Init
  PROVE  Abstract!PipelineInit
  BY DEF Init, background_writer_init, background_reader_init,
      background_flusher_init, background_tracing_init,
      Abstract!PipelineInit

\* Every step is a step of the pipeline or invisible to it.
LEMMA SimulateStep ==
  ASSUME IndInv, [Next]_vars
  PROVE  [Abstract!PipelineNext]_(Abstract!stages)
  <1>0. /\ TypeOK
        /\ writer \in WriterJob /\ reader \in ReaderJob /\ flusher \in FlusherJob
        /\ page_id_check_order \in Nat
    BY DEF IndInv, TypeOK
  <1>1. CASE io_uring_submit
    BY <1>1, Invisible DEF io_uring_submit, jobs
  <1>2. CASE io_tick_return
    <2>1. pc = "drain" /\ UNCHANGED jobs
      BY <1>2 DEF io_tick_return
    <2>2. CASE finished /\ tracing.running = 0
      <3>1. pc' = "exit"
        BY <1>2, <2>2 DEF io_tick_return
      <3>2. /\ Pages <= flusher.page_id
            /\ "reader" \in Enabled => Pages <= reader.page_id
        BY <2>2 DEF IndInv, FlowInv, finished
      <3>3. Abstract!Finish
        BY <2>1, <3>1, <3>2 DEF Abstract!Finish, jobs
      <3> QED
        BY <3>3 DEF Abstract!PipelineNext
    <2>3. CASE ~(finished /\ tracing.running = 0)
      <3>1. pc' = "submit"
        BY <1>2, <2>3 DEF io_tick_return
      <3> QED
        BY <2>1, <3>1, Invisible DEF jobs
    <2> QED
      BY <2>2, <2>3
  <1>3. ASSUME NEW op, assert_fails(op) PROVE UNCHANGED Abstract!stages
    BY <1>3, Invisible DEF assert_fails, jobs
  <1>4. ASSUME NEW op, complete(op) PROVE UNCHANGED Abstract!stages
    BY <1>4, Invisible DEF complete, jobs
  <1>5. ASSUME NEW op, fail(op) PROVE UNCHANGED Abstract!stages
    BY <1>5, Invisible DEF fail, jobs
  <1>6. ASSUME NEW p, page_written(p) PROVE Abstract!Land
    <2>1. pc = "drain" /\ pc' = "drain"
      BY <1>6, DispatchDrains DEF page_written
    <2>2. p = page_id_check_order /\ WriteOp(p) \in InRing
      BY <1>6, NextPage DEF page_written, Dispatch, InRing
    <2>3. page_id_check_order < writer.page_id
      BY <2>2 DEF IndInv, RingInv
    <2>4. /\ writer'.page_id = writer.page_id
          /\ flusher'.page_id = flusher.page_id
          /\ reader' = reader
          /\ page_id_check_order' = page_id_check_order + 1
      BY <1>0, <1>6 DEF page_written, WriterJob, FlusherJob
    <2> QED
      BY <2>1, <2>3, <2>4 DEF Abstract!Land
  <1>7. ASSUME NEW p, page_read(p) PROVE UNCHANGED Abstract!stages
    <2>1. pc = "drain" /\ pc' = "drain"
      BY <1>7, DispatchDrains DEF page_read
    <2>2. reader'.page_id = reader.page_id
      BY <1>0, <1>7 DEF page_read, ReaderJob
    <2> QED
      BY <1>7, <2>1, <2>2, Invisible DEF page_read
  <1>8. CASE file_synced
    <2>1. pc = "drain" /\ pc' = "drain"
      BY <1>8, DispatchDrains DEF file_synced
    <2>2. writer.written_no_flush > 0
      BY <1>8 DEF file_synced, Dispatch, InRing, IndInv, RingInv
    <2>3. /\ writer'.page_id = writer.page_id
          /\ flusher'.page_id = flusher.page_id + writer.written_no_flush
          /\ reader' = reader
          /\ page_id_check_order' = page_id_check_order
      BY <1>0, <1>8 DEF file_synced, WriterJob, FlusherJob
    <2>4. flusher.page_id + writer.written_no_flush = page_id_check_order
      BY DEF IndInv, FlowInv, FlushAccounting
    <2>5. flusher.page_id < page_id_check_order
      BY <1>0, <2>2, <2>4, Fields
    <2>6. Abstract!Credit
      BY <2>1, <2>3, <2>4, <2>5 DEF Abstract!Credit
    <2> QED
      BY <2>6 DEF Abstract!PipelineNext
  <1>9. CASE background_writer
    <2>1. pc = "drain" /\ pc' = "drain"
      BY <1>9, DispatchDrains DEF background_writer
    <2>2. /\ writer'.page_id = writer.page_id + writer_batch
          /\ flusher' = flusher /\ reader' = reader
          /\ page_id_check_order' = page_id_check_order
      BY <1>0, <1>9 DEF background_writer, WriterJob
    <2>3. writer.page_id < Pages
      BY <1>9 DEF background_writer, Dispatch, InRing, IndInv, FlowInv
    <2>4. writer'.page_id < 2 * Pages
      BY FlowStep DEF IndInv, FlowInv, Overshoot
    <2>5. writer_batch \in Nat /\ writer.page_id \in Nat
      BY <1>0, WriterBatch, Fields
    <2>6. CASE writer_batch = 0
      BY <2>1, <2>2, <2>5, <2>6, Invisible
    <2>7. CASE writer_batch > 0
      <3>1. writer'.page_id \in writer.page_id + 1 .. 2 * Pages - 1
        BY <2>2, <2>4, <2>5, <2>7, Widths
      <3>2. Abstract!Issue
        BY <2>1, <2>2, <2>3, <3>1 DEF Abstract!Issue
      <3> QED
        BY <3>2 DEF Abstract!PipelineNext
    <2> QED
      BY <2>5, <2>6, <2>7
  <1>10. CASE background_reader
    <2>1. pc = "drain" /\ pc' = "drain"
      BY <1>10, DispatchDrains DEF background_reader
    <2>2. /\ reader'.page_id = reader.page_id + reader_batch
          /\ flusher' = flusher /\ writer' = writer
          /\ page_id_check_order' = page_id_check_order
      BY <1>0, <1>10 DEF background_reader, ReaderJob
    <2>3. reader.page_id + reader_batch <= flusher.page_id
      BY <1>0, ReaderBatch DEF IndInv, FlowInv
    <2>4. reader_batch \in Nat /\ reader.page_id \in Nat /\ flusher.page_id \in Nat
      BY <1>0, ReaderBatch, Fields
    <2>5. CASE reader_batch = 0
      BY <2>1, <2>2, <2>4, <2>5, Invisible
    <2>6. CASE reader_batch > 0
      <3>1. /\ reader'.page_id \in reader.page_id + 1 .. flusher.page_id
            /\ reader.page_id < flusher.page_id
        BY <2>2, <2>3, <2>4, <2>6
      <3>2. Abstract!Fetch
        BY <2>1, <2>2, <3>1 DEF Abstract!Fetch
      <3> QED
        BY <3>2 DEF Abstract!PipelineNext
    <2> QED
      BY <2>4, <2>5, <2>6
  <1>11. CASE background_flusher
    <2>1. pc = "drain" /\ pc' = "drain"
      BY <1>11, DispatchDrains DEF background_flusher
    <2>2. flusher'.page_id = flusher.page_id
      BY <1>0, <1>11 DEF background_flusher, FlusherJob
    <2> QED
      BY <1>11, <2>1, <2>2, Invisible DEF background_flusher
  <1>12. CASE background_tracing
    BY <1>12, DispatchDrains, Invisible DEF background_tracing
  <1>13. CASE tracing_writed
    BY <1>13, DispatchDrains, Invisible DEF tracing_writed
  <1>14. CASE tracing_synced
    BY <1>14, DispatchDrains, Invisible DEF tracing_synced
  <1>15. CASE background_status
    BY <1>15, DispatchDrains, Invisible DEF background_status, jobs
  <1>16. CASE UNCHANGED vars
    BY <1>16, Invisible DEF vars, jobs
  <1> QED
    BY <1>1, <1>2, <1>3, <1>4, <1>5, <1>6, <1>7, <1>8, <1>9, <1>10, <1>11,
       <1>12, <1>13, <1>14, <1>15, <1>16, NextCases DEF Abstract!PipelineNext

\* The scheduler implements the pipeline: pages are issued, completed, credited
\* and read back in order, and main() ends only when all stages are done.
THEOREM Refinement == Spec => ImplementsPipeline
  <1>1. Init => Abstract!PipelineInit
    BY SimulateInit
  <1>2. IndInv /\ [Next]_vars => [Abstract!PipelineNext]_(Abstract!stages)
    BY SimulateStep
  <1> QED
    BY <1>1, <1>2, Inductive, PTL DEF Spec, ImplementsPipeline, Abstract!PipelineSpec
=============================================================================
