------------------------------ MODULE Pipeline ------------------------------
(***************************************************************************)
(* What the scheduler promises, without rings, timers or batches: pages    *)
(* 0, 1, 2, ... are issued, complete, are credited as flushed and are read *)
(* back, each stage strictly behind the one before; and the program ends   *)
(* only when the pages it was asked for have gone through every stage.     *)
(*                                                                         *)
(* There is no code of its own behind this module: it is the abstract      *)
(* specification that module Scheduler is shown to implement.              *)
(***************************************************************************)
EXTENDS Naturals

CONSTANTS
  Target,     \* the number of pages the program is asked to write
  ReadBack    \* TRUE: the pages are also read back

VARIABLES issued, written, flushed, read, done

stages == <<issued, written, flushed, read, done>>

PipelineInit ==
  /\ issued = 0
  /\ written = 0
  /\ flushed = 0
  /\ read = 0
  /\ done = FALSE

\* A batch of writes is issued while the target is not reached; the last batch
\* may pass it, but not by as much again.
Issue ==
  /\ ~done
  /\ issued < Target
  /\ issued' \in issued + 1 .. 2 * Target - 1
  /\ UNCHANGED <<written, flushed, read, done>>

\* The write of the next page completes.
Land ==
  /\ ~done
  /\ written < issued
  /\ written' = written + 1
  /\ UNCHANGED <<issued, flushed, read, done>>

\* An fsync is reported: every completed write is credited.
Credit ==
  /\ ~done
  /\ flushed < written
  /\ flushed' = written
  /\ UNCHANGED <<issued, written, read, done>>

\* A batch of reads is issued, of credited pages only.
Fetch ==
  /\ ~done
  /\ read < flushed
  /\ read' \in read + 1 .. flushed
  /\ UNCHANGED <<issued, written, flushed, done>>

Finish ==
  /\ ~done
  /\ Target <= flushed
  /\ ReadBack => Target <= read
  /\ done' = TRUE
  /\ UNCHANGED <<issued, written, flushed, read>>

PipelineNext == Issue \/ Land \/ Credit \/ Fetch \/ Finish

PipelineSpec == PipelineInit /\ [][PipelineNext]_stages
=============================================================================
