--------------------------- MODULE AnchoredCreate ---------------------------
(***************************************************************************)
(* Creation of <project>/.pi/observme.yaml at session start                *)
(* (src/config/bootstrap-project-config.ts, project-paths.ts and           *)
(* anchored-exclusive-create-helper.mjs).  A Pi process forks a helper     *)
(* whose working directory pins the project's; the two exchange one        *)
(* message at a time over a channel either may lose, and the process waits *)
(* for a bounded time only.  Several Pi processes start in one project,    *)
(* helpers stall and die, and the user edits or moves the project.         *)
(*                                                                         *)
(* A file is named by who made it: a process makes at most one.            *)
(***************************************************************************)
EXTENDS Naturals, FiniteSets

CONSTANTS
  Proc,            \* Pi processes that start a session in the project
  MaxDisturbances  \* bound on what the user does meanwhile

ASSUME DisturbancesBounded == MaxDisturbances \in Nat
ASSUME NoProcOutside == Proc \cap {"user", "nobody"} = {}

Dir == {"old", "new"}        \* the directory at the project's path, and one moved there
Maker == Proc \cup {"user", "nobody"}
None == [by |-> "nobody", text |-> "empty"]

VARIABLES
  at,         \* the directory the project's path leads to
  file,       \* observme.yaml in each directory
  disturbed,  \* steps the user has taken
  pc,         \* the process: where createCanonicalProjectLocalFileExclusively is
  root,       \* rootIdentity of its snapshot
  parent,     \* parentStats, taken before the fork
  outcome,    \* what it will return: "created", "exists", "error", "timeout", "cleanup_failed"
  requested,  \* createRequested
  opened,     \* openedIdentity is set
  confirmed,  \* protocolCleanupConfirmed
  request,    \* the command on its way to the helper
  reply,      \* the message on its way back
  linked,     \* the channel, as the process sees it (process.connected)
  helper,     \* the helper: where it is
  cwd,        \* the directory it is anchored in
  active,     \* activeCreate is set
  why         \* what its cleanup is for: "abort", "fail", "disconnect"

world == <<at, file, disturbed>>
own == <<root, parent, outcome, requested, opened, confirmed>>
channel == <<request, reply, linked>>
helping == <<helper, cwd, active, why>>
vars == <<world, pc, own, channel, helping>>

Working == {"snapshot", "looking", "statting", "forking", "starting", "asserting",
            "opening", "checkOpened", "writing", "checkWritten", "committing",
            "checkExisting", "aborting", "cancelling", "reaping", "verifying"}
Answers == {"created", "exists", "skipped", "failed", "cleanup_failed"}
Replies == {"none", "ready", "opened", "exists", "written", "committed", "aborted",
            "cancelled", "error", "cleanup_failed"}

\* The model's state is well typed.
TypeOK ==
  /\ at \in Dir /\ disturbed \in 0 .. MaxDisturbances
  /\ file \in [Dir -> [by : Maker, text : {"empty", "whole"}]]
  /\ pc \in [Proc -> Working \cup Answers]
  /\ root \in [Proc -> Dir] /\ parent \in [Proc -> Dir] /\ cwd \in [Proc -> Dir]
  /\ outcome \in [Proc -> {"none", "created", "exists", "error", "timeout", "cleanup_failed"}]
  /\ \A f \in {requested, opened, confirmed, linked, active} : f \in [Proc -> BOOLEAN]
  /\ request \in [Proc -> {"none", "create", "write", "commit", "abort", "cancel"}]
  /\ reply \in [Proc -> Replies]
  /\ helper \in [Proc -> {"absent", "booting", "idle", "creating", "open", "filling", "filled",
                          "closing", "checking", "unlinking", "leaving", "exited"}]
  /\ why \in [Proc -> {"none", "abort", "fail", "disconnect"}]

Init ==
  /\ at = "old" /\ disturbed = 0
  /\ file = [d \in Dir |-> None]
  /\ pc = [p \in Proc |-> "snapshot"]
  /\ root = [p \in Proc |-> "old"] /\ parent = root /\ cwd = root
  /\ outcome = [p \in Proc |-> "none"]
  /\ requested = [p \in Proc |-> FALSE]
  /\ opened = requested /\ confirmed = requested /\ linked = requested /\ active = requested
  /\ request = [p \in Proc |-> "none"] /\ reply = request /\ why = request
  /\ helper = [p \in Proc |-> "absent"]

Goto(p, next) == pc' = [pc EXCEPT ![p] = next]
\* exchangeHelperMessage: a reply no one waited for any more is not read.
Send(p, command) ==
  /\ request' = [request EXCEPT ![p] = command]
  /\ reply' = [reply EXCEPT ![p] = "none"]
\* helper.disconnect(), on entry to the reaping.
Disconnect(p) == linked' = [linked EXCEPT ![p] = FALSE] /\ UNCHANGED <<request, reply>>

-----------------------------------------------------------------------------
(* The Pi process before it has a helper                                   *)

\* ensureProjectObservMeConfig: no file is made in a project without trust.
SkipUntrusted(p) ==
  /\ pc[p] = "snapshot" /\ Goto(p, "skipped")
  /\ UNCHANGED <<world, own, channel, helping>>

\* createCanonicalProjectPathSnapshot, after the mkdir.
TakeSnapshot(p) ==
  /\ pc[p] = "snapshot" /\ Goto(p, "looking")
  /\ root' = [root EXCEPT ![p] = at]
  /\ UNCHANGED <<world, parent, outcome, requested, opened, confirmed, channel, helping>>

\* projectFileAlreadyExists: an unstable root is an error.
LookForFile(p) ==
  /\ pc[p] = "looking"
  /\ Goto(p, IF at # root[p] THEN "failed" ELSE IF file[at] # None THEN "exists" ELSE "statting")
  /\ UNCHANGED <<world, own, channel, helping>>

\* startAnchoredCreateHelper stats the parent directory, and then forks there.
StatParent(p) ==
  /\ pc[p] = "statting" /\ Goto(p, "forking")
  /\ parent' = [parent EXCEPT ![p] = at]
  /\ UNCHANGED <<world, root, outcome, requested, opened, confirmed, channel, helping>>

Fork(p) ==
  /\ pc[p] = "forking" /\ Goto(p, "starting")
  /\ cwd' = [cwd EXCEPT ![p] = at]
  /\ helper' = [helper EXCEPT ![p] = "booting"]
  /\ linked' = [linked EXCEPT ![p] = TRUE]
  /\ UNCHANGED <<world, own, request, reply, active, why>>

-----------------------------------------------------------------------------
(* Failure, and the reaping of the helper                                  *)

\* The catch of createCanonicalProjectLocalFileExclusively and
\* cleanupFailedAnchoredCreate: what was opened is aborted, what was not asked
\* for is cancelled, and nothing is said to a helper that is late or gone.
CleanUp(p, kind) ==
  /\ outcome' = [outcome EXCEPT ![p] = kind]
  /\ IF kind # "timeout" /\ linked[p] /\ (opened[p] \/ ~requested[p])
     THEN /\ Goto(p, IF opened[p] THEN "aborting" ELSE "cancelling")
          /\ Send(p, IF opened[p] THEN "abort" ELSE "cancel")
          /\ UNCHANGED linked
     ELSE Goto(p, "reaping") /\ Disconnect(p)
  /\ UNCHANGED <<root, parent, requested, opened, confirmed>>

\* A start that fails has no cleanup but the reaping.
AbandonStart(p) ==
  /\ outcome' = [outcome EXCEPT ![p] = "error"]
  /\ Goto(p, "reaping") /\ Disconnect(p)
  /\ UNCHANGED <<root, parent, requested, opened, confirmed>>

\* Whether the outcome was reached on the failing path.
Failing(p) == outcome[p] \notin {"created", "exists"}

\* Fault: the process does not wait for the helper's exit.
EndReaping_Hasty(p) ==
  Goto(p, IF ~Failing(p) THEN outcome[p]
          ELSE IF outcome[p] = "cleanup_failed" THEN "cleanup_failed"
          ELSE IF confirmed[p] \/ ~requested[p] THEN "failed" ELSE "verifying")

\* terminateAndReapAnchoredCreateHelper returns: the exit was seen, or the
\* waits after disconnect, SIGTERM and SIGKILL have all run out.
EndReaping(p) ==
  Goto(p, IF helper[p] # "exited" THEN "cleanup_failed"
          ELSE IF ~Failing(p) THEN outcome[p]
          ELSE IF outcome[p] = "cleanup_failed" THEN "cleanup_failed"
          ELSE IF confirmed[p] \/ ~requested[p] THEN "failed" ELSE "verifying")

Reap(p) ==
  /\ pc[p] = "reaping" /\ EndReaping(p)
  /\ UNCHANGED <<world, own, channel, helping>>

\* isAnchoredTargetVerifiedMissing: the same root and parent, and no file.
VerifyMissing(p) ==
  /\ pc[p] = "verifying"
  /\ Goto(p, IF at = root[p] /\ at = cwd[p] /\ file[at] = None THEN "failed" ELSE "cleanup_failed")
  /\ UNCHANGED <<world, own, channel, helping>>

-----------------------------------------------------------------------------
(* The exchanges of the Pi process                                         *)

Exchanging(p) == pc[p] \in {"starting", "opening", "writing", "committing", "aborting", "cancelling"}

\* Fault: an exchange ends with a message or an exit only.
Losses_Untimed(p) == IF helper[p] = "exited" THEN {"error"} ELSE {}
\* What may win the race of exchangeHelperMessage against the message: the
\* timer of the phase, and the exit of a helper that is gone.
Losses(p) == {"timeout"} \cup (IF helper[p] = "exited" THEN {"error"} ELSE {})

LoseHelper(p) ==
  /\ Exchanging(p)
  /\ \E kind \in Losses(p) :
       CASE pc[p] = "starting" -> AbandonStart(p)
         [] pc[p] \in {"aborting", "cancelling"} ->
              Goto(p, "reaping") /\ Disconnect(p) /\ UNCHANGED own
         [] OTHER -> CleanUp(p, kind)
  /\ UNCHANGED <<world, helping>>

\* assertMissingProjectPathIsSafe, and the create command.
AskToCreate(p) ==
  /\ pc[p] = "asserting"
  /\ IF at = root[p]
     THEN /\ Goto(p, "opening") /\ Send(p, "create")
          /\ requested' = [requested EXCEPT ![p] = TRUE]
          /\ UNCHANGED <<root, parent, outcome, opened, confirmed, linked>>
     ELSE CleanUp(p, "error")
  /\ UNCHANGED <<world, helping>>

\* assertAnchoredProjectFileIsStable: the path still leads to the opened file.
IsStable(p) == at = root[p] /\ file[at].by = p

\* The next command after a check of the opened file.
Proceed(p, here, next, command) ==
  /\ pc[p] = here
  /\ IF IsStable(p)
     THEN Goto(p, next) /\ Send(p, command) /\ UNCHANGED <<own, linked>>
     ELSE CleanUp(p, "error")
  /\ UNCHANGED <<world, helping>>
AskToWrite(p) == Proceed(p, "checkOpened", "writing", "write")
AskToCommit(p) == Proceed(p, "checkWritten", "committing", "commit")

\* assertExistingProjectFileIsSafe: a file another one made.
CheckExisting(p) ==
  /\ pc[p] = "checkExisting"
  /\ IF file[at] # None
     THEN /\ outcome' = [outcome EXCEPT ![p] = "exists"]
          /\ Goto(p, "reaping") /\ Disconnect(p)
          /\ UNCHANGED <<root, parent, requested, opened, confirmed>>
     ELSE CleanUp(p, "error")
  /\ UNCHANGED <<world, helping>>

\* A message of the wrong kind is a failure (throwHelperFailure).
ReceiveReady(p) ==
  /\ pc[p] = "starting" /\ reply[p] # "none"
  /\ IF reply[p] = "ready" /\ parent[p] = cwd[p]
     THEN Goto(p, "asserting") /\ UNCHANGED <<own, channel>>
     ELSE AbandonStart(p)
  /\ UNCHANGED <<world, helping>>

Refused(p) == IF reply[p] = "cleanup_failed" THEN "cleanup_failed" ELSE "error"

ReceiveOpened(p) ==
  /\ pc[p] = "opening" /\ reply[p] # "none"
  /\ CASE reply[p] = "exists" -> Goto(p, "checkExisting") /\ UNCHANGED <<own, channel>>
       [] reply[p] = "opened" -> /\ Goto(p, "checkOpened")
                                 /\ opened' = [opened EXCEPT ![p] = TRUE]
                                 /\ UNCHANGED <<root, parent, outcome, requested, confirmed, channel>>
       [] OTHER -> CleanUp(p, Refused(p))
  /\ UNCHANGED <<world, helping>>

ReceiveWritten(p) ==
  /\ pc[p] = "writing" /\ reply[p] # "none"
  /\ IF reply[p] = "written"
     THEN Goto(p, "checkWritten") /\ UNCHANGED <<own, channel>>
     ELSE CleanUp(p, Refused(p))
  /\ UNCHANGED <<world, helping>>

ReceiveCommitted(p) ==
  /\ pc[p] = "committing" /\ reply[p] # "none"
  /\ IF reply[p] = "committed"
     THEN /\ outcome' = [outcome EXCEPT ![p] = "created"]
          /\ opened' = [opened EXCEPT ![p] = FALSE]
          /\ Goto(p, "reaping") /\ Disconnect(p)
          /\ UNCHANGED <<root, parent, requested, confirmed>>
     ELSE CleanUp(p, Refused(p))
  /\ UNCHANGED <<world, helping>>

ReceiveCleaned(p) ==
  /\ pc[p] \in {"aborting", "cancelling"} /\ reply[p] # "none"
  /\ confirmed' = [confirmed EXCEPT ![p] = reply[p] \in {"aborted", "cancelled"}]
  /\ Goto(p, "reaping") /\ Disconnect(p)
  /\ UNCHANGED <<world, root, parent, outcome, requested, opened, helping>>

-----------------------------------------------------------------------------
(* The helper process                                                      *)

Move(p, next) == helper' = [helper EXCEPT ![p] = next]
\* sendMessage: nothing arrives once the process has disconnected.
Say(p, message) == reply' = [reply EXCEPT ![p] = IF linked[p] THEN message ELSE @]
\* The disconnect is read after the commands that were sent before it.
SeesDisconnect(p) == ~linked[p] /\ request[p] = "none"
Take(p, command) ==
  /\ request[p] = command
  /\ request' = [request EXCEPT ![p] = "none"]

\* The top level of the helper: ready.
HelperReady(p) ==
  /\ helper[p] = "booting" /\ Move(p, "idle") /\ Say(p, "ready")
  /\ UNCHANGED <<world, pc, own, request, linked, cwd, active, why>>

\* processInitialMessage up to the exclusive open, which may fail otherwise.
HelperCreate(p) ==
  /\ helper[p] = "idle" /\ Take(p, "create")
  /\ \/ /\ file[cwd[p]] = None
        /\ file' = [file EXCEPT ![cwd[p]] = [by |-> p, text |-> "empty"]]
        /\ Move(p, "creating") /\ UNCHANGED reply
     \/ file[cwd[p]] # None /\ Say(p, "exists") /\ Move(p, "leaving") /\ UNCHANGED file
     \/ Say(p, "error") /\ Move(p, "leaving") /\ UNCHANGED file
  /\ UNCHANGED <<at, disturbed, pc, own, linked, cwd, active, why>>

HelperCancel(p) ==
  /\ helper[p] = "idle" /\ Take(p, "cancel") /\ Say(p, "cancelled") /\ Move(p, "leaving")
  /\ UNCHANGED <<world, pc, own, linked, cwd, active, why>>

\* The file is tracked once its identity is known; without it nothing may be
\* removed (reportUntrackedOpenFailure).
HelperOpened(p) ==
  /\ helper[p] = "creating"
  /\ \/ /\ active' = [active EXCEPT ![p] = TRUE]
        /\ IF SeesDisconnect(p)
           THEN /\ Move(p, "checking") /\ why' = [why EXCEPT ![p] = "disconnect"]
                /\ UNCHANGED reply
           ELSE Move(p, "open") /\ Say(p, "opened") /\ UNCHANGED why
     \/ Say(p, "cleanup_failed") /\ Move(p, "leaving") /\ UNCHANGED <<active, why>>
  /\ UNCHANGED <<world, pc, own, request, linked, cwd>>

\* processOpenedMessage and processFinalizeMessage: the write and the close
\* begin, or the create is aborted.
HelperBegin(p) ==
  /\ \/ helper[p] = "open" /\ Take(p, "write") /\ Move(p, "filling") /\ UNCHANGED why
     \/ helper[p] = "filled" /\ Take(p, "commit") /\ Move(p, "closing") /\ UNCHANGED why
     \/ /\ helper[p] \in {"open", "filled"} /\ Take(p, "abort")
        /\ Move(p, "checking") /\ why' = [why EXCEPT ![p] = "abort"]
  /\ UNCHANGED <<world, pc, own, reply, linked, cwd, active>>

\* Fault: the committed file is still tracked when the helper disconnects.
AfterClose_Tracks(p) ==
  IF SeesDisconnect(p)
  THEN Move(p, "checking") /\ why' = [why EXCEPT ![p] = "disconnect"] /\ UNCHANGED <<active, reply>>
  ELSE Say(p, "committed") /\ Move(p, "leaving") /\ UNCHANGED <<active, why>>

\* The rest of processFinalizeMessage: a parent that is gone wants no file.
AfterClose(p) ==
  IF SeesDisconnect(p)
  THEN Move(p, "checking") /\ why' = [why EXCEPT ![p] = "disconnect"] /\ UNCHANGED <<active, reply>>
  ELSE /\ active' = [active EXCEPT ![p] = FALSE]
       /\ Say(p, "committed") /\ Move(p, "leaving") /\ UNCHANGED why

\* The operation ends: a failure and a parent that is gone start the cleanup.
HelperEnd(p) ==
  /\ \/ /\ helper[p] = "filling"
        /\ file' = IF file[cwd[p]].by = p
                   THEN [file EXCEPT ![cwd[p]] = [by |-> p, text |-> "whole"]] ELSE file
        /\ UNCHANGED active
        /\ IF SeesDisconnect(p)
           THEN Move(p, "checking") /\ why' = [why EXCEPT ![p] = "disconnect"] /\ UNCHANGED reply
           ELSE Move(p, "filled") /\ Say(p, "written") /\ UNCHANGED why
     \/ helper[p] = "closing" /\ AfterClose(p) /\ UNCHANGED file
     \/ /\ helper[p] \in {"filling", "closing"}
        /\ Move(p, "checking") /\ why' = [why EXCEPT ![p] = "fail"] /\ UNCHANGED <<file, active, reply>>
  /\ UNCHANGED <<at, disturbed, pc, own, request, linked, cwd>>

\* handleParentDisconnect while the helper waits for a command, or after its
\* own disconnectHelper.
HelperOrphaned(p) ==
  /\ \/ helper[p] \in {"idle", "open", "filled"} /\ SeesDisconnect(p)
     \/ helper[p] = "leaving" /\ active[p]
  /\ Move(p, "checking") /\ why' = [why EXCEPT ![p] = "disconnect"]
  /\ UNCHANGED <<world, pc, own, channel, cwd, active>>

\* What a cleanup reports, and to whom.
Cleaned(p, success) ==
  /\ Move(p, "leaving") /\ active' = [active EXCEPT ![p] = FALSE]
  /\ IF why[p] = "disconnect" THEN UNCHANGED reply
     ELSE Say(p, IF ~success THEN "cleanup_failed" ELSE IF why[p] = "abort" THEN "aborted" ELSE "error")

\* cleanupActiveCreate: lstat finds the file that was opened.
MayUnlink(p) == active[p] /\ file[cwd[p]].by = p

HelperCheck(p) ==
  /\ helper[p] = "checking"
  /\ \/ MayUnlink(p) /\ Move(p, "unlinking") /\ UNCHANGED <<active, reply>>
     \/ ~MayUnlink(p) /\ Cleaned(p, ~active[p] \/ file[cwd[p]] = None)
     \/ active[p] /\ Cleaned(p, FALSE)           \* the close fails
  /\ UNCHANGED <<world, pc, own, request, linked, cwd, why>>

HelperUnlink(p) ==
  /\ helper[p] = "unlinking"
  /\ file' = [file EXCEPT ![cwd[p]] = None]
  /\ Cleaned(p, TRUE)
  /\ UNCHANGED <<at, disturbed, pc, own, request, linked, cwd, why>>

\* The helper leaves, or is killed or crashes with whatever it holds.
HelperExits(p) ==
  /\ helper[p] \notin {"absent", "exited"} /\ Move(p, "exited")
  /\ UNCHANGED <<world, pc, own, channel, cwd, active, why>>

-----------------------------------------------------------------------------
(* The user                                                                *)

Disturb == disturbed < MaxDisturbances /\ disturbed' = disturbed + 1

\* Another directory is moved to the project's path.
MoveProject ==
  /\ Disturb /\ at = "old" /\ at' = "new"
  /\ UNCHANGED <<file, pc, own, channel, helping>>
\* The file is removed, or one of the user's own takes its place.
EditFile ==
  /\ Disturb
  /\ \E f \in {None, [by |-> "user", text |-> "whole"]} : file' = [file EXCEPT ![at] = f]
  /\ UNCHANGED <<at, pc, own, channel, helping>>

Process(p) ==
  \/ SkipUntrusted(p) \/ TakeSnapshot(p) \/ LookForFile(p) \/ StatParent(p) \/ Fork(p)
  \/ ReceiveReady(p) \/ AskToCreate(p) \/ ReceiveOpened(p) \/ AskToWrite(p)
  \/ ReceiveWritten(p) \/ AskToCommit(p) \/ ReceiveCommitted(p) \/ CheckExisting(p)
  \/ ReceiveCleaned(p) \/ LoseHelper(p) \/ Reap(p) \/ VerifyMissing(p)

Helper(p) ==
  \/ HelperReady(p) \/ HelperCreate(p) \/ HelperCancel(p) \/ HelperOpened(p)
  \/ HelperBegin(p) \/ HelperEnd(p) \/ HelperOrphaned(p) \/ HelperCheck(p)
  \/ HelperUnlink(p) \/ HelperExits(p)

Next ==
  \/ \E p \in Proc : Process(p) \/ Helper(p)
  \/ MoveProject \/ EditFile

Spec == Init /\ [][Next]_vars
\* The process's timers run; nothing is assumed of the helper.
FairSpec == Spec /\ \A p \in Proc : WF_vars(Process(p))

-----------------------------------------------------------------------------
(* Properties                                                              *)

\* A start that reports an ordinary failure has left no file of its own at the
\* project's path, whatever step timed out or died
\* (cleanupFailedAnchoredCreate).
FailureLeavesNothing ==
  \A p \in Proc : pc[p] = "failed" => file[at].by # p

\* The guide a start reports as created is whole, unless the user changed it:
\* no other process's cleanup and no late helper of its own has taken it away
\* (cleanupActiveCreate, receiveAnchoredCommitResult).
CreatedStays ==
  \A p \in Proc : pc[p] = "created" /\ disturbed = 0 => file[at] = [by |-> p, text |-> "whole"]

\* What a start reports is what is at the project's path.
PathIsAsReported == TypeOK /\ FailureLeavesNothing /\ CreatedStays

\* No helper outlives a start that did not report a failed cleanup
\* (assertAnchoredCreateHelperReaped).
HelperReaped ==
  \A p \in Proc : pc[p] \in {"created", "exists", "skipped", "failed"} =>
    helper[p] \in {"absent", "exited"}

\* Every start is answered, also when its helper hangs: each exchange and each
\* step of the reaping has its own timer.
EveryStartAnswered == \A p \in Proc : <>(pc[p] \in Answers)
=============================================================================
