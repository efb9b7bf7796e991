------------------------------ MODULE Backfill ------------------------------
(***************************************************************************)
(* /obs backfill (src/commands/obs-backfill.ts): the entries of the        *)
(* current session are replayed as log records, after a confirmation, by   *)
(* an exporter that is made for the run.  Every call that may not return   *)
(* is raced against a timer and an abort signal, and what lost the race    *)
(* goes on by itself: an exporter may be there after its setup was given   *)
(* up, a record may be queued after its emit was.                          *)
(*                                                                         *)
(* The exporter is any implementation of ObsBackfillExporter; the one for  *)
(* OTLP logs answers a flush or a shutdown within a time limit of its own. *)
(* One that has no flush is taken to send what it is given.                *)
(***************************************************************************)
EXTENDS Naturals, Sequences, FiniteSets

CONSTANTS
  MaxTokens,   \* bound on the options of the command
  MaxEntries,  \* bound on the entries of the session
  MaxRecords   \* the rate limit of a run (OBS_BACKFILL_DEFAULT_MAX_RECORDS)
ASSUME BoundsAreNat == {MaxTokens, MaxEntries, MaxRecords} \subseteq Nat

\* A token of the command line, and what a line of them asks for.
Token == {"--current-session", "--since", "--since=", "window", "bogus"}
Request == {"none", "all", "window"}

\* An entry: too old for a window or without a date, of a type that is not
\* replayed, or replayed without content, with it, or without it because the
\* content-capture policy refused it.
Entry == {"old", "unknown", "plain", "captured", "refused"}

VARIABLES
  step,      \* where the command is
  window,    \* whether a window was asked for
  signal,    \* the abort signals: the caller's, and the one of the run
  op,        \* the operation that is raced: its name, its promise, the race
  build,     \* what was made of the entries
  progress,  \* records attempted and queued, whether the flush succeeded
  pending,   \* the error that the run will end with
  exporter,  \* the exporter, and the promise of one whose setup was given up
  world,     \* emits given up that may still succeed, records queued and sent
  told       \* the summary

vars == <<step, window, signal, op, build, progress, pending, exporter, world, told>>

NoOp == [label |-> "none", promise |-> "none", race |-> "none"]
NothingBuilt == [selected |-> 0, scanned |-> 0, eligible |-> 0, skipped |-> 0, refused |-> 0]
NoProgress == [attempted |-> 0, queued |-> 0, flushed |-> "no"]
Untold == [status |-> "none", confirmed |-> 0, unknown |-> 0, notAttempted |-> 0, type |-> "none"]

Init ==
  /\ step = "idle" /\ window = "none" /\ op = NoOp
  /\ signal = [caller |-> "live", run |-> "live"]
  /\ build = NothingBuilt /\ progress = NoProgress /\ pending = "none"
  /\ exporter = [st |-> "none", late |-> "none"]
  /\ world = [late |-> 0, queued |-> 0, sent |-> 0]
  /\ told = Untold

-----------------------------------------------------------------------------
(* The command line                                                        *)

\* parseObsBackfillFlags: --current-session once and at most one window.
ParseFlags(tokens) ==
  LET parse[i \in 1..(Len(tokens) + 2), current \in {"no", "yes"}, since \in {"no", "yes"}] ==
        IF i > Len(tokens) THEN IF current = "no" THEN "none" ELSE IF since = "no" THEN "all" ELSE "window"
        ELSE CASE tokens[i] = "--current-session" /\ current = "no" -> parse[i + 1, "yes", since]
               [] tokens[i] = "--since=" /\ since = "no" -> parse[i + 1, current, "yes"]
               [] tokens[i] = "--since" /\ since = "no" /\ i < Len(tokens) /\ tokens[i + 1] = "window" ->
                    parse[i + 2, current, "yes"]
               [] OTHER -> "none"
  IN parse[1, "no", "no"]

Tell(status, type, confirmed, unknown, notAttempted) ==
  /\ told' = [status |-> status, confirmed |-> confirmed, unknown |-> unknown,
              notAttempted |-> notAttempted, type |-> type]
  /\ step' = "over"
TellCancelled == Tell("cancelled", "warning", 0, 0, 0)
TellError == Tell("error", "error", 0, 0, 0)

Begin ==
  /\ step = "idle"
  /\ \E tokens \in UNION {[1..n -> Token] : n \in 0..MaxTokens} :
       LET request == ParseFlags(tokens) IN
         /\ window' = request
         /\ CASE request = "none" -> Tell("usage", "warning", 0, 0, 0)
              [] request # "none" /\ signal.caller = "aborted" -> TellCancelled
              [] OTHER -> step' = "loading" /\ UNCHANGED told
  /\ UNCHANGED <<signal, op, build, progress, pending, exporter, world>>

\* Nothing is replayed where nothing is exported.
LoadConfig ==
  /\ step = "loading"
  /\ \/ step' = "confirming" /\ UNCHANGED told
     \/ Tell("skipped", "warning", 0, 0, 0)
     \/ TellCancelled
     \/ TellError
  /\ UNCHANGED <<window, signal, op, build, progress, pending, exporter, world>>

-----------------------------------------------------------------------------
(* An operation and its race                                               *)

Race(label) == [label |-> label, promise |-> "pending", race |-> "racing"]
\* The run's signal: not listened to while the exporter shuts down.
Listens == op.label # "shutdown"
AbortRun == [signal EXCEPT !.run = "aborted"]

\* The promise settles: as the operation wants, with an AbortError, or with the
\* time limit of the exporter itself.
Settle(result) ==
  /\ op.promise = "pending"
  /\ op' = [op EXCEPT !.promise = result,
                      !.race = CASE @ = "racing" -> result
                                 [] @ = "timing_out" -> "timeout"
                                 [] @ = "cancelling" -> "cancelled"
                                 [] OTHER -> @]
  /\ signal' = IF op.race = "racing" /\ result = "timeout" THEN AbortRun ELSE signal
  /\ world' = CASE result = "ok" /\ op.label = "emit"  -> [world EXCEPT !.queued = @ + 1]
                [] result = "ok" /\ op.label = "flush" -> [world EXCEPT !.sent = world.queued]
                [] OTHER -> world
  /\ exporter' = IF result = "ok" /\ op.label = "setup" THEN [exporter EXCEPT !.st = "live"] ELSE exporter
  /\ UNCHANGED <<step, window, build, progress, pending, told>>

\* The timer aborts the run; the operation is given a moment to settle.
OperationTimesOut ==
  /\ op.race = "racing"
  /\ op' = [op EXCEPT !.race = "timing_out"]
  /\ signal' = AbortRun
  /\ UNCHANGED <<step, window, build, progress, pending, exporter, world, told>>

Running == step \in {"waiting", "reading", "setup", "emitting", "flushing", "stopping"}

\* The caller aborts: ObsBackfillRunScope passes it on while the run lasts.
Abort ==
  /\ signal.caller = "live"
  /\ signal' = [caller |-> "aborted", run |-> IF Running THEN "aborted" ELSE signal.run]
  /\ op' = IF Running /\ op.race = "racing" /\ Listens THEN [op EXCEPT !.race = "cancelling"] ELSE op
  /\ UNCHANGED <<step, window, build, progress, pending, exporter, world, told>>

\* waitForBackfillOperationCleanup lasts OBS_BACKFILL_ABORT_CLEANUP_TIMEOUT_MS.
CleanupOver(o) ==
  CASE o.race = "timing_out" -> [o EXCEPT !.race = "timeout"]
    [] o.race = "cancelling" -> [o EXCEPT !.race = "cancelled"]
    [] OTHER -> o
CleanupEnds ==
  /\ op.race \in {"timing_out", "cancelling"}
  /\ op' = CleanupOver(op)
  /\ UNCHANGED <<step, window, signal, build, progress, pending, exporter, world, told>>

Over(label) == op.label = label /\ op.race \in {"ok", "error", "abort", "timeout", "cancelled"}

\* backfillOperationError
ErrorOf(outcome) ==
  CASE outcome = "timeout" -> "timed_out"
    [] outcome \in {"abort", "cancelled"} -> "cancelled"
    [] OTHER -> "failed"

-----------------------------------------------------------------------------
(* The run                                                                 *)

\* The run has its signal once it is confirmed, and first waits until Pi is idle.
Confirm ==
  /\ step = "confirming"
  /\ \/ /\ signal.caller = "live"
        /\ \/ step' = "waiting" /\ op' = Race("idle")
           \/ step' = "reading" /\ op' = NoOp
        /\ UNCHANGED told
     \/ TellCancelled /\ UNCHANGED op
     \/ signal.caller = "live" /\ TellError /\ UNCHANGED op
  /\ UNCHANGED <<window, signal, build, progress, pending, exporter, world>>

WaitedForIdle ==
  /\ step = "waiting" /\ Over("idle")
  /\ op' = NoOp
  /\ CASE op.race = "ok" -> step' = "reading" /\ UNCHANGED told
       [] op.race \in {"timeout", "cancelled"} -> TellCancelled
       [] OTHER -> TellError
  /\ UNCHANGED <<window, signal, build, progress, pending, exporter, world>>

Eligible(entry) == entry # "old" \/ window # "window"
Convertible(entry) == entry # "unknown"

\* buildObsBackfillRecords: of the eligible entries those count that have fewer
\* than MaxRecords records before them, the others are skipped.
BuildRecords(entries) ==
  LET eligible == {i \in DOMAIN entries : Eligible(entries[i])}
      RecordsBefore(i) == {j \in eligible : j < i /\ Convertible(entries[j])}
      within == {i \in eligible : Cardinality(RecordsBefore(i)) < MaxRecords}
      selected == {i \in within : Convertible(entries[i])}
  IN [selected |-> Cardinality(selected), scanned |-> Len(entries),
      eligible |-> Cardinality(eligible), skipped |-> Cardinality(eligible \ within),
      refused |-> Cardinality({i \in selected : entries[i] = "refused"})]

\* backfillDeliveryOutcome.  Fault: what was not acknowledged was not sent.
Outcome_TrustsAcks(b, p) ==
  [confirmed |-> IF p.flushed = "yes" THEN p.queued ELSE 0,
   unknown |-> IF p.flushed = "yes" THEN 0 ELSE p.queued,
   notAttempted |-> b.selected - p.attempted]
Outcome(b, p) ==
  [confirmed |-> IF p.flushed = "yes" THEN p.queued ELSE 0,
   unknown |-> IF p.flushed = "yes" THEN 0 ELSE p.attempted,
   notAttempted |-> b.selected - p.attempted]

\* completedBackfillSummary and interruptedBackfillSummary
Summarise(b, p, error) ==
  LET outcome == Outcome(b, p) IN
    Tell(CASE error = "none" -> "completed" [] error = "cancelled" -> "cancelled" [] OTHER -> "partial",
         IF error = "none" /\ b.skipped = 0 /\ b.refused = 0 THEN "info" ELSE "warning",
         outcome.confirmed, outcome.unknown, outcome.notAttempted)

\* The entries are read and the exporter is set up: nothing of it when there is
\* nothing to send or the run was aborted, or when the factory throws.
ReadEntries ==
  /\ step = "reading"
  /\ \/ TellError /\ UNCHANGED <<op, build, exporter>>
     \/ \E entries \in UNION {[1..n -> Entry] : n \in 0..MaxEntries} :
          LET b == BuildRecords(entries) IN
            /\ build' = b
            /\ CASE signal.run = "aborted" ->
                      Summarise(b, NoProgress, "cancelled") /\ UNCHANGED <<op, exporter>>
                 [] signal.run = "live" /\ b.selected = 0 ->
                      Summarise(b, NoProgress, "none") /\ UNCHANGED <<op, exporter>>
                 [] OTHER ->
                      \/ /\ step' = "setup" /\ op' = Race("setup")
                         /\ exporter' = [exporter EXCEPT !.st = "setup"]
                         /\ UNCHANGED told
                      \/ Summarise(b, NoProgress, "failed") /\ UNCHANGED <<op, exporter>>
  /\ UNCHANGED <<window, signal, progress, pending, world>>

\* disposeObsBackfillExporterAfterSetupFailure waits for the promise.
\* Fault: an exporter whose setup was given up is left alone.
Disposal_Never(promise) == "over"
Disposal(promise) == IF promise = "pending" THEN "awaited" ELSE IF promise = "ok" THEN "arrived" ELSE "over"

SetupConcluded ==
  /\ step = "setup" /\ Over("setup")
  /\ op' = NoOp
  /\ IF op.race = "ok" THEN step' = "emitting" /\ UNCHANGED <<exporter, told>>
     ELSE /\ exporter' = [exporter EXCEPT !.late = Disposal(op.promise)]
          /\ Summarise(build, progress, ErrorOf(op.race))
  /\ UNCHANGED <<window, signal, build, progress, pending, world>>

\* The finally of exportObsBackfillRecords: the exporter is shut down, whatever
\* happened.
ShutDown(error) ==
  /\ step' = "stopping" /\ op' = Race("shutdown")
  /\ exporter' = [exporter EXCEPT !.st = "stopped"]
  /\ pending' = error

\* The next record, or the flush when there is none.
EmitNext ==
  /\ step = "emitting" /\ op = NoOp
  /\ CASE signal.run = "aborted" -> ShutDown("cancelled") /\ UNCHANGED progress
       [] signal.run = "live" /\ progress.attempted < build.selected ->
            /\ op' = Race("emit") /\ progress' = [progress EXCEPT !.attempted = @ + 1]
            /\ UNCHANGED <<step, exporter, pending>>
       [] OTHER -> step' = "flushing" /\ op' = Race("flush") /\ UNCHANGED <<progress, exporter, pending>>
  /\ UNCHANGED <<window, signal, build, world, told>>

EmitConcluded ==
  /\ step = "emitting" /\ Over("emit")
  /\ world' = IF op.promise = "pending" THEN [world EXCEPT !.late = @ + 1] ELSE world
  /\ IF op.race = "ok" THEN /\ progress' = [progress EXCEPT !.queued = @ + 1] /\ op' = NoOp
                            /\ UNCHANGED <<step, exporter, pending>>
     ELSE ShutDown(ErrorOf(op.race)) /\ UNCHANGED progress
  /\ UNCHANGED <<window, signal, build, told>>

FlushConcluded ==
  /\ step = "flushing" /\ Over("flush")
  /\ progress' = [progress EXCEPT !.flushed = IF op.race = "ok" THEN "yes" ELSE "no"]
  /\ ShutDown(CASE op.race # "ok" -> ErrorOf(op.race)
                [] op.race = "ok" /\ signal.run = "aborted" -> "cancelled"
                [] OTHER -> "none")
  /\ UNCHANGED <<window, signal, build, world, told>>

\* The first error counts.  Fault: that of the shutdown does not.
FirstError_IgnoresShutdown(error, outcome) == error
FirstError(error, outcome) == IF error = "none" /\ outcome # "ok" THEN ErrorOf(outcome) ELSE error
ShutdownConcluded ==
  /\ step = "stopping" /\ Over("shutdown")
  /\ op' = NoOp
  /\ LET error == FirstError(pending, op.race) IN
       Summarise(build, progress, IF error = "none" /\ signal.run = "aborted" THEN "cancelled" ELSE error)
  /\ UNCHANGED <<window, signal, build, progress, pending, exporter, world>>

-----------------------------------------------------------------------------
(* What goes on by itself                                                  *)

\* An exporter arrives after its setup was given up, or never will.
LateSetup ==
  /\ exporter.late = "awaited"
  /\ \E promise \in {"ok", "error"} :
       exporter' = [st |-> IF promise = "ok" THEN "live" ELSE exporter.st, late |-> Disposal(promise)]
  /\ UNCHANGED <<step, window, signal, op, build, progress, pending, world, told>>

Dispose ==
  /\ exporter.late = "arrived"
  /\ exporter' = [st |-> "stopped", late |-> "over"]
  /\ UNCHANGED <<step, window, signal, op, build, progress, pending, world, told>>

LateEmit ==
  /\ world.late > 0
  /\ \E queued \in {0, 1} : world' = [world EXCEPT !.late = @ - 1, !.queued = @ + queued]
  /\ UNCHANGED <<step, window, signal, op, build, progress, pending, exporter, told>>

\* The exporter sends what is queued when it likes.
Send ==
  /\ world.sent < world.queued
  /\ world' = [world EXCEPT !.sent = @ + 1]
  /\ UNCHANGED <<step, window, signal, op, build, progress, pending, exporter, told>>

-----------------------------------------------------------------------------
Proceed ==
  \/ Begin \/ LoadConfig \/ WaitedForIdle \/ ReadEntries \/ SetupConcluded
  \/ EmitNext \/ EmitConcluded \/ FlushConcluded \/ ShutdownConcluded \/ Dispose
External ==
  \/ Confirm \/ Abort \/ LateSetup \/ LateEmit \/ Send
  \/ \E result \in {"ok", "error", "abort", "timeout"} : Settle(result)

Next == Proceed \/ External \/ OperationTimesOut \/ CleanupEnds
Spec == Init /\ [][Next]_vars

\* The event loop runs what is ready and fires the timers.  The user need not
\* confirm, and no operation need settle.
FairSpec == Spec /\ WF_vars(Proceed) /\ WF_vars(OperationTimesOut) /\ WF_vars(CleanupEnds)

-----------------------------------------------------------------------------
(* Properties                                                              *)

\* A summary never calls a record unsent that may have been sent, also after
\* the run, nor one confirmed that was not; and it accounts for each of them.
CountsAreHonest ==
  told.status \in {"completed", "partial", "cancelled"} =>
    /\ told.confirmed <= world.sent /\ world.sent <= told.confirmed + told.unknown
    /\ step = "over" /\ build.scanned > 0 =>
         told.confirmed + told.unknown + told.notAttempted = build.selected

\* A run is only said to be completed when all was sent, nobody cancelled it and
\* its exporter has shut down.
CompletedIsComplete ==
  [][told'.status = "completed" /\ told.status = "none" =>
       /\ world.sent = build'.selected /\ signal.run = "live"
       /\ exporter.st \in {"none", "stopped"} /\ op.promise \in {"none", "ok"}]_vars

\* An exporter that exists is shut down in the end, also one that arrives when
\* its setup has been given up.
ExporterIsStopped == (exporter.st = "live") ~> (exporter.st = "stopped")

\* A run that was confirmed ends, though every one of its operations may hang.
RunEnds == Running ~> (step = "over")

\* Neither the run nor its exporter is left hanging.
BackfillEnds == RunEnds /\ ExporterIsStopped
=============================================================================
