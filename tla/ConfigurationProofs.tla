------------------------- MODULE ConfigurationProofs -------------------------
(***************************************************************************)
(* The configuration of a project: the creation of observme.yaml by any    *)
(* number of Pi processes, with any number of disturbances by the user,    *)
(* and the loading of the configuration from any choice of layers.         *)
(***************************************************************************)
EXTENDS AnchoredCreate, SessionConfig, TLAPS

(***************************************************************************)
(* The creation of a project configuration (AnchoredCreate).               *)
(***************************************************************************)

\* What a helper tracks, where it is: it holds the file it opened until the
\* file is committed, or the helper is done with it.
HelperKept(p) ==
  /\ pc[p] \in {"snapshot", "looking", "statting", "forking", "skipped"} => helper[p] = "absent"
  /\ pc[p] \in {"created", "exists", "failed", "verifying"} => helper[p] \in {"absent", "exited"}
  /\ helper[p] \in {"absent", "booting", "idle", "creating", "leaving"} => ~active[p]
  /\ helper[p] \in {"open", "filling", "filled", "closing", "unlinking"} => active[p]
  /\ (helper[p] = "checking" /\ why[p] = "abort") => active[p]
  /\ request[p] = "create" => requested[p]

\* No directory has a file of p.
Gone(p) == \A d \in Dir : file[d].by # p

\* A file of p is where its helper is, and was asked for; what is confirmed to
\* be gone, or reported as a failure, does not come back.
FileKept(p) ==
  /\ \A d \in Dir : file[d].by = p => /\ d = cwd[p] /\ requested[p]
                                      /\ helper[p] \notin {"absent", "booting", "idle"}
  /\ (reply[p] \in {"aborted", "cancelled"} \/ confirmed[p]) =>
       Gone(p) /\ helper[p] \in {"leaving", "exited"}
  /\ pc[p] = "failed" => Gone(p)

\* While the user lets the project alone, a helper's file is there from its
\* creation to its removal, and whole from the write on.
UndisturbedKept(p) ==
  /\ at = "old" /\ root[p] = "old" /\ parent[p] = "old" /\ cwd[p] = "old"
  /\ (\/ helper[p] \in {"creating", "open", "filling", "filled", "closing", "unlinking"}
      \/ helper[p] = "checking" /\ active[p]) => file["old"].by = p
  /\ helper[p] \in {"filled", "closing"} => file["old"].text = "whole"
  /\ (reply[p] = "committed" \/ outcome[p] = "created" \/ pc[p] = "created") =>
       /\ file["old"] = [by |-> p, text |-> "whole"]
       /\ helper[p] \in {"leaving", "exited"}

IInv ==
  /\ TypeOK
  /\ \A p \in Proc : HelperKept(p) /\ FileKept(p)
  /\ disturbed = 0 => at = "old" /\ \A p \in Proc : UndisturbedKept(p)

-----------------------------------------------------------------------------
(* The Pi process                                                          *)

\* What a process claims in a step: no more than it was told.
Claims(p) ==
  /\ \A q \in Proc \ {p} :
       /\ pc'[q] = pc[q] /\ root'[q] = root[q] /\ parent'[q] = parent[q]
       /\ outcome'[q] = outcome[q] /\ requested'[q] = requested[q]
       /\ confirmed'[q] = confirmed[q] /\ request'[q] = request[q] /\ reply'[q] = reply[q]
  /\ root'[p] \in {root[p], at} /\ parent'[p] \in {parent[p], at}
  /\ requested[p] => requested'[p]
  /\ request'[p] = "create" => requested'[p]
  /\ reply'[p] \in {reply[p], "none"}
  /\ confirmed'[p] => confirmed[p] \/ reply[p] \in {"aborted", "cancelled"}
  /\ outcome'[p] = "created" => outcome[p] = "created" \/ reply[p] = "committed"
  /\ pc'[p] = "created" => outcome[p] = "created"
  /\ pc'[p] \in {"snapshot", "looking", "statting", "forking", "skipped"} => helper[p] = "absent"
  /\ pc'[p] \in {"created", "exists", "failed", "verifying"} => helper[p] \in {"absent", "exited"}
  /\ pc'[p] = "failed" => Gone(p)

\* A step of the process leaves the helper and the files alone.
LEMMA ProcessKeeps ==
  ASSUME IInv, NEW p \in Proc, TypeOK', UNCHANGED <<world, helping>>, Claims(p)
  PROVE  IInv'
<1>1. UNCHANGED <<at, file, disturbed, helper, cwd, active, why>>
  BY DEF world, helping
<1>2. ASSUME NEW q \in Proc
      PROVE  HelperKept(q)'
  <2>1. HelperKept(q)
    BY DEF IInv
  <2>2. CASE q = p
    BY <1>1, <2>1, <2>2 DEF HelperKept, Claims
  <2>3. CASE q # p
    BY <1>1, <2>1, <2>3 DEF HelperKept, Claims
  <2>4. QED
    BY <2>2, <2>3
<1>3. ASSUME NEW q \in Proc
      PROVE  FileKept(q)'
  <2>1. FileKept(q) /\ (Gone(q)' <=> Gone(q))
    BY <1>1 DEF IInv, Gone
  <2>2. CASE q = p
    BY <1>1, <2>1, <2>2 DEF FileKept, Claims
  <2>3. CASE q # p
    BY <1>1, <2>1, <2>3 DEF FileKept, Claims
  <2>4. QED
    BY <2>2, <2>3
<1>4. ASSUME disturbed' = 0, NEW q \in Proc
      PROVE  UndisturbedKept(q)'
  <2>1. UndisturbedKept(q) /\ at = "old"
    BY <1>1, <1>4 DEF IInv
  <2>2. CASE q = p
    BY <1>1, <2>1, <2>2 DEF UndisturbedKept, Claims
  <2>3. CASE q # p
    BY <1>1, <2>1, <2>3 DEF UndisturbedKept, Claims
  <2>4. QED
    BY <2>2, <2>3
<1>5. disturbed' = 0 => at' = "old"
  BY <1>1 DEF IInv
<1>6. QED
  BY <1>2, <1>3, <1>4, <1>5 DEF IInv

\* Before there is a helper there is no file.
LEMMA NoneBeforeHelper ==
  ASSUME IInv, NEW p \in Proc, helper[p] = "absent" \/ ~requested[p]
  PROVE  Gone(p)
BY DEF IInv, FileKept, Gone

\* The steps before the fork only read the project.
LEMMA BeforeForkStep ==
  ASSUME IInv, NEW p \in Proc,
         SkipUntrusted(p) \/ TakeSnapshot(p) \/ LookForFile(p) \/ StatParent(p)
  PROVE  IInv'
<1>1. helper[p] = "absent" /\ Gone(p)
  <2>1. helper[p] = "absent"
    BY DEF IInv, HelperKept, SkipUntrusted, TakeSnapshot, LookForFile, StatParent
  <2>2. QED
    BY <2>1, NoneBeforeHelper
<1>2. TypeOK /\ HelperKept(p)
  BY DEF IInv
<1>3. CASE SkipUntrusted(p)
  <2>1. /\ pc' = [pc EXCEPT ![p] = "skipped"] /\ UNCHANGED <<world, own, channel, helping>>
    BY <1>3 DEF SkipUntrusted, Goto
  <2>2. TypeOK'
    BY <1>2, <2>1 DEF TypeOK, Working, Answers, world, own, channel, helping
  <2>3. Claims(p)
    BY <1>1, <1>2, <2>1 DEF Claims, TypeOK, HelperKept, Working, Answers, own, channel
  <2>4. QED
    BY <2>1, <2>2, <2>3, ProcessKeeps
<1>4. CASE TakeSnapshot(p)
  <2>1. /\ pc' = [pc EXCEPT ![p] = "looking"] /\ root' = [root EXCEPT ![p] = at]
        /\ UNCHANGED <<world, parent, outcome, requested, opened, confirmed, channel, helping>>
    BY <1>4 DEF TakeSnapshot, Goto
  <2>2. TypeOK'
    BY <1>2, <2>1 DEF TypeOK, Working, Answers, world, channel, helping
  <2>3. Claims(p)
    BY <1>1, <1>2, <2>1 DEF Claims, TypeOK, HelperKept, Working, Answers, channel
  <2>4. QED
    BY <2>1, <2>2, <2>3, ProcessKeeps
<1>5. CASE LookForFile(p)
  <2>1. PICK next \in {"failed", "exists", "statting"} :
          pc' = [pc EXCEPT ![p] = next] /\ UNCHANGED <<world, own, channel, helping>>
    BY <1>5 DEF LookForFile, Goto
  <2>2. TypeOK'
    BY <1>2, <2>1 DEF TypeOK, Working, Answers, world, own, channel, helping
  <2>3. Claims(p)
    BY <1>1, <1>2, <2>1 DEF Claims, TypeOK, HelperKept, Working, Answers, own, channel
  <2>4. QED
    BY <2>1, <2>2, <2>3, ProcessKeeps
<1>6. CASE StatParent(p)
  <2>1. /\ pc' = [pc EXCEPT ![p] = "forking"] /\ parent' = [parent EXCEPT ![p] = at]
        /\ UNCHANGED <<world, root, outcome, requested, opened, confirmed, channel, helping>>
    BY <1>6 DEF StatParent, Goto
  <2>2. TypeOK'
    BY <1>2, <2>1 DEF TypeOK, Working, Answers, world, channel, helping
  <2>3. Claims(p)
    BY <1>1, <1>2, <2>1 DEF Claims, TypeOK, HelperKept, Working, Answers, channel
  <2>4. QED
    BY <2>1, <2>2, <2>3, ProcessKeeps
<1>7. QED
  BY <1>3, <1>4, <1>5, <1>6

\* The helper is anchored where it is forked.
LEMMA ForkStep ==
  ASSUME IInv, NEW p \in Proc, Fork(p)
  PROVE  IInv'
<1>1. /\ pc[p] = "forking" /\ pc' = [pc EXCEPT ![p] = "starting"] /\ cwd' = [cwd EXCEPT ![p] = at]
      /\ helper' = [helper EXCEPT ![p] = "booting"] /\ linked' = [linked EXCEPT ![p] = TRUE]
      /\ UNCHANGED <<at, file, disturbed, root, parent, outcome, requested, opened, confirmed,
                     request, reply, active, why>>
  BY DEF Fork, Goto, world, own
<1>2. TypeOK /\ helper[p] = "absent"
  BY <1>1 DEF IInv, HelperKept
<1>3. TypeOK'
  BY <1>1, <1>2 DEF TypeOK, Working, Answers
<1>4. ASSUME NEW q \in Proc
      PROVE  HelperKept(q)' /\ FileKept(q)'
  <2>1. HelperKept(q) /\ FileKept(q) /\ (Gone(q)' <=> Gone(q))
    BY <1>1 DEF IInv, Gone
  <2>2. CASE q = p
    <3>1. Gone(q)
      BY <1>2, <2>2, NoneBeforeHelper
    <3>2. HelperKept(q)'
      BY <1>1, <1>2, <2>1, <2>2 DEF HelperKept, TypeOK
    <3>3. FileKept(q)'
      BY <1>1, <1>2, <2>1, <2>2, <3>1 DEF FileKept, TypeOK, Gone
    <3>4. QED
      BY <3>2, <3>3
  <2>3. CASE q # p
    BY <1>1, <1>2, <2>1, <2>3 DEF HelperKept, FileKept, TypeOK
  <2>4. QED
    BY <2>2, <2>3
<1>5. ASSUME disturbed' = 0, NEW q \in Proc
      PROVE  UndisturbedKept(q)'
  <2>1. UndisturbedKept(q) /\ at = "old"
    BY <1>1, <1>5 DEF IInv
  <2>2. CASE q = p
    BY <1>1, <1>2, <2>1, <2>2 DEF UndisturbedKept, TypeOK
  <2>3. CASE q # p
    BY <1>1, <1>2, <2>1, <2>3 DEF UndisturbedKept, TypeOK
  <2>4. QED
    BY <2>2, <2>3
<1>6. QED
  BY <1>1, <1>3, <1>4, <1>5 DEF IInv

\* A failure claims nothing, whichever cleanup it has.
LEMMA CleanUpKeeps ==
  ASSUME IInv, NEW p \in Proc, UNCHANGED <<world, helping>>,
         \/ \E kind \in {"error", "timeout", "cleanup_failed"} : CleanUp(p, kind)
         \/ AbandonStart(p)
  PROVE  IInv'
<1>1. PICK kind \in {"error", "timeout", "cleanup_failed"},
           next \in {"aborting", "cancelling", "reaping"} :
        /\ outcome' = [outcome EXCEPT ![p] = kind] /\ pc' = [pc EXCEPT ![p] = next]
        /\ \/ request' = request
           \/ \E command \in {"abort", "cancel"} : request' = [request EXCEPT ![p] = command]
        /\ reply' = reply \/ reply' = [reply EXCEPT ![p] = "none"]
        /\ linked' = linked \/ linked' = [linked EXCEPT ![p] = FALSE]
        /\ UNCHANGED <<root, parent, requested, opened, confirmed>>
  <2>1. CASE AbandonStart(p)
    BY <2>1 DEF AbandonStart, Goto, Disconnect
  <2>2. CASE \E kind \in {"error", "timeout", "cleanup_failed"} : CleanUp(p, kind)
    BY <2>2 DEF CleanUp, Goto, Send, Disconnect
  <2>3. QED
    BY <2>1, <2>2
<1>2. TypeOK /\ HelperKept(p)
  BY DEF IInv
<1>3. TypeOK'
  <2>1. /\ request' \in [Proc -> {"none", "create", "write", "commit", "abort", "cancel"}]
        /\ reply' \in [Proc -> Replies] /\ linked' \in [Proc -> BOOLEAN]
    <3>1. request' \in [Proc -> {"none", "create", "write", "commit", "abort", "cancel"}]
      BY <1>1, <1>2 DEF TypeOK
    <3>2. reply' \in [Proc -> Replies]
      BY <1>1, <1>2 DEF TypeOK, Replies
    <3>3. linked' \in [Proc -> BOOLEAN]
      BY <1>1, <1>2 DEF TypeOK
    <3>4. QED
      BY <3>1, <3>2, <3>3
  <2>2. QED
    BY <1>1, <1>2, <2>1 DEF TypeOK, Working, Answers, world, helping
<1>4. Claims(p)
  BY <1>1, <1>2 DEF Claims, TypeOK, HelperKept
<1>5. QED
  BY <1>3, <1>4, ProcessKeeps

\* A process that waits moves on, with another command for its helper.
LEMMA ProceedsKeeps ==
  ASSUME IInv, NEW p \in Proc, UNCHANGED <<world, helping>>,
         NEW next \in {"asserting", "checkExisting", "checkOpened", "checkWritten", "opening", "writing", "committing"},
         pc' = [pc EXCEPT ![p] = next],
         \/ UNCHANGED <<request, reply>>
         \/ \E command \in {"create", "write", "commit"} :
              /\ request' = [request EXCEPT ![p] = command] /\ reply' = [reply EXCEPT ![p] = "none"],
         requested' = requested \/ requested' = [requested EXCEPT ![p] = TRUE],
         request'[p] = "create" => requested'[p],
         opened' = opened \/ opened' = [opened EXCEPT ![p] = TRUE],
         UNCHANGED <<root, parent, outcome, confirmed, linked>>
  PROVE  IInv'
<1>1. TypeOK
  BY DEF IInv
<1>2. TypeOK'
  <2>1. /\ request' \in [Proc -> {"none", "create", "write", "commit", "abort", "cancel"}]
        /\ reply' \in [Proc -> Replies]
        /\ requested' \in [Proc -> BOOLEAN] /\ opened' \in [Proc -> BOOLEAN]
    <3>1. request' \in [Proc -> {"none", "create", "write", "commit", "abort", "cancel"}]
      BY <1>1 DEF TypeOK
    <3>2. reply' \in [Proc -> Replies]
      BY <1>1 DEF TypeOK, Replies
    <3>3. requested' \in [Proc -> BOOLEAN]
      <4>1. requested \in [Proc -> BOOLEAN]
        BY <1>1 DEF TypeOK
      <4>2. QED
        BY <4>1
    <3>4. opened' \in [Proc -> BOOLEAN]
      <4>1. opened \in [Proc -> BOOLEAN]
        BY <1>1 DEF TypeOK
      <4>2. QED
        BY <4>1
    <3>5. QED
      BY <3>1, <3>2, <3>3, <3>4
  <2>2. pc' \in [Proc -> Working \cup Answers]
    BY <1>1 DEF TypeOK, Working
  <2>3. QED
    BY <1>1, <2>1, <2>2 DEF TypeOK, world, helping
<1>3. Claims(p)
  BY <1>1 DEF Claims, TypeOK
<1>4. QED
  BY <1>2, <1>3, ProcessKeeps

\* The create command goes out to a stable root, or the create fails.
LEMMA AskToCreateStep ==
  ASSUME IInv, NEW p \in Proc, AskToCreate(p)
  PROVE  IInv'
<1>1. UNCHANGED <<world, helping>>
  BY DEF AskToCreate
<1>2. CASE at = root[p]
  <2>1. /\ pc' = [pc EXCEPT ![p] = "opening"]
        /\ request' = [request EXCEPT ![p] = "create"] /\ reply' = [reply EXCEPT ![p] = "none"]
        /\ requested' = [requested EXCEPT ![p] = TRUE]
        /\ UNCHANGED <<root, parent, outcome, opened, confirmed, linked>>
    BY <1>2 DEF AskToCreate, Goto, Send
  <2>2. requested'[p]
    BY <2>1 DEF IInv, TypeOK
  <2>3. QED
    BY <1>1, <2>1, <2>2, ProceedsKeeps
<1>3. CASE at # root[p]
  BY <1>1, <1>3, CleanUpKeeps DEF AskToCreate
<1>4. QED
  BY <1>2, <1>3

\* A check of the opened file sends the next command, or the create fails.
LEMMA ProceedStep ==
  ASSUME IInv, NEW p \in Proc, NEW here, NEW next \in {"writing", "committing"},
         NEW command \in {"write", "commit"}, Proceed(p, here, next, command)
  PROVE  IInv'
<1>1. UNCHANGED <<world, helping>>
  BY DEF Proceed
<1>2. CASE IsStable(p)
  <2>1. /\ pc' = [pc EXCEPT ![p] = next]
        /\ request' = [request EXCEPT ![p] = command] /\ reply' = [reply EXCEPT ![p] = "none"]
        /\ UNCHANGED <<root, parent, outcome, requested, opened, confirmed, linked>>
    BY <1>2 DEF Proceed, Goto, Send, own
  <2>2. request'[p] # "create"
    BY <2>1 DEF IInv, TypeOK
  <2>3. QED
    BY <1>1, <2>1, <2>2, ProceedsKeeps
<1>3. CASE ~IsStable(p)
  BY <1>1, <1>3, CleanUpKeeps DEF Proceed
<1>4. QED
  BY <1>2, <1>3

\* What another one made is reported as it is found.
LEMMA CheckExistingStep ==
  ASSUME IInv, NEW p \in Proc, CheckExisting(p)
  PROVE  IInv'
<1>1. UNCHANGED <<world, helping>>
  BY DEF CheckExisting
<1>2. CASE file[at] # None
  <2>1. /\ outcome' = [outcome EXCEPT ![p] = "exists"] /\ pc' = [pc EXCEPT ![p] = "reaping"]
        /\ linked' = [linked EXCEPT ![p] = FALSE]
        /\ UNCHANGED <<request, reply, root, parent, requested, opened, confirmed>>
    BY <1>2 DEF CheckExisting, Goto, Disconnect
  <2>2. TypeOK /\ HelperKept(p)
    BY DEF IInv
  <2>3. TypeOK'
    BY <1>1, <2>1, <2>2 DEF TypeOK, Working, Answers, world, helping
  <2>4. Claims(p)
    BY <2>1, <2>2 DEF Claims, TypeOK, HelperKept
  <2>5. QED
    BY <1>1, <2>3, <2>4, ProcessKeeps
<1>3. CASE ~(file[at] # None)
  BY <1>1, <1>3, CleanUpKeeps DEF CheckExisting
<1>4. QED
  BY <1>2, <1>3

\* A message moves the exchange on, or the create fails.
LEMMA ReceiveStep ==
  ASSUME IInv, NEW p \in Proc, ReceiveReady(p) \/ ReceiveOpened(p) \/ ReceiveWritten(p)
  PROVE  IInv'
<1>1. UNCHANGED <<world, helping>> /\ Refused(p) \in {"error", "timeout", "cleanup_failed"}
  BY DEF ReceiveReady, ReceiveOpened, ReceiveWritten, Refused
<1>2. CASE AbandonStart(p) \/ CleanUp(p, Refused(p))
  BY <1>1, <1>2, CleanUpKeeps
<1>3. CASE ~(AbandonStart(p) \/ CleanUp(p, Refused(p)))
  <2>1. /\ \/ pc' = [pc EXCEPT ![p] = "asserting"]
           \/ pc' = [pc EXCEPT ![p] = "checkExisting"]
           \/ pc' = [pc EXCEPT ![p] = "checkOpened"]
           \/ pc' = [pc EXCEPT ![p] = "checkWritten"]
        /\ opened' = opened \/ opened' = [opened EXCEPT ![p] = TRUE]
        /\ UNCHANGED <<root, parent, outcome, requested, confirmed, request, reply, linked>>
    BY <1>3 DEF ReceiveReady, ReceiveOpened, ReceiveWritten, Goto, own, channel
  <2>2. request'[p] = "create" => requested'[p]
    BY <2>1 DEF IInv, HelperKept
  <2>3. QED
    BY <1>1, <2>1, <2>2, ProceedsKeeps
<1>4. QED
  BY <1>2, <1>3

\* Only the helper's word makes a start a success.
LEMMA ReceiveCommittedStep ==
  ASSUME IInv, NEW p \in Proc, ReceiveCommitted(p)
  PROVE  IInv'
<1>1. UNCHANGED <<world, helping>> /\ Refused(p) \in {"error", "timeout", "cleanup_failed"}
  BY DEF ReceiveCommitted, Refused
<1>2. CASE reply[p] = "committed"
  <2>1. /\ outcome' = [outcome EXCEPT ![p] = "created"] /\ opened' = [opened EXCEPT ![p] = FALSE]
        /\ pc' = [pc EXCEPT ![p] = "reaping"] /\ linked' = [linked EXCEPT ![p] = FALSE]
        /\ UNCHANGED <<request, reply, root, parent, requested, confirmed>>
    BY <1>2 DEF ReceiveCommitted, Goto, Disconnect
  <2>2. TypeOK /\ HelperKept(p)
    BY DEF IInv
  <2>3. TypeOK'
    BY <1>1, <2>1, <2>2 DEF TypeOK, Working, Answers, world, helping
  <2>4. Claims(p)
    BY <1>2, <2>1, <2>2 DEF Claims, TypeOK, HelperKept
  <2>5. QED
    BY <1>1, <2>3, <2>4, ProcessKeeps
<1>3. CASE reply[p] # "committed"
  BY <1>1, <1>3, CleanUpKeeps DEF ReceiveCommitted
<1>4. QED
  BY <1>2, <1>3

\* What a helper says of its cleanup is what is confirmed.
LEMMA ReceiveCleanedStep ==
  ASSUME IInv, NEW p \in Proc, ReceiveCleaned(p)
  PROVE  IInv'
<1>1. /\ confirmed' = [confirmed EXCEPT ![p] = reply[p] \in {"aborted", "cancelled"}]
      /\ pc' = [pc EXCEPT ![p] = "reaping"] /\ linked' = [linked EXCEPT ![p] = FALSE]
      /\ UNCHANGED <<request, reply, root, parent, outcome, requested, opened, world, helping>>
  BY DEF ReceiveCleaned, Goto, Disconnect
<1>2. TypeOK /\ HelperKept(p)
  BY DEF IInv
<1>3. TypeOK'
  BY <1>1, <1>2 DEF TypeOK, Working, Answers, world, helping
<1>4. Claims(p)
  BY <1>1, <1>2 DEF Claims, TypeOK, HelperKept
<1>5. QED
  BY <1>1, <1>3, <1>4, ProcessKeeps

\* A lost exchange of a cleanup ends it, any other one begins it.
LEMMA LoseHelperStep ==
  ASSUME IInv, NEW p \in Proc, LoseHelper(p)
  PROVE  IInv'
<1>1. PICK kind \in {"timeout", "error"} :
        CASE pc[p] = "starting" -> AbandonStart(p)
          [] pc[p] \in {"aborting", "cancelling"} ->
               Goto(p, "reaping") /\ Disconnect(p) /\ UNCHANGED own
          [] OTHER -> CleanUp(p, kind)
  BY DEF LoseHelper, Losses
<1>2. UNCHANGED <<world, helping>>
  BY DEF LoseHelper
<1>3. CASE pc[p] = "starting"
  BY <1>1, <1>2, <1>3, CleanUpKeeps
<1>4. CASE pc[p] \in {"aborting", "cancelling"}
  <2>1. /\ pc' = [pc EXCEPT ![p] = "reaping"] /\ linked' = [linked EXCEPT ![p] = FALSE]
        /\ UNCHANGED <<request, reply, root, parent, outcome, requested, opened, confirmed>>
    BY <1>1, <1>4 DEF Goto, Disconnect, own
  <2>2. TypeOK /\ HelperKept(p)
    BY DEF IInv
  <2>3. TypeOK'
    BY <1>2, <2>1, <2>2 DEF TypeOK, Working, Answers, world, helping
  <2>4. Claims(p)
    BY <2>1, <2>2 DEF Claims, TypeOK, HelperKept
  <2>5. QED
    BY <1>2, <2>3, <2>4, ProcessKeeps
<1>5. CASE pc[p] \notin {"starting", "aborting", "cancelling"}
  BY <1>1, <1>2, <1>5, CleanUpKeeps
<1>6. QED
  BY <1>3, <1>4, <1>5

\* The helper has left when the reaping ends well, and a failure that is not
\* verified is one whose file was never asked for or was confirmed to be gone.
LEMMA ReapStep ==
  ASSUME IInv, NEW p \in Proc, Reap(p)
  PROVE  IInv'
<1>1. PICK next \in {"cleanup_failed", "created", "exists", "failed", "verifying"} :
        /\ pc' = [pc EXCEPT ![p] = next]
        /\ next # "cleanup_failed" => helper[p] = "exited"
        /\ next = "created" => outcome[p] = "created"
        /\ next = "failed" => confirmed[p] \/ ~requested[p]
  BY DEF Reap, EndReaping, Failing, Goto
<1>2. TypeOK /\ HelperKept(p) /\ FileKept(p) /\ UNCHANGED <<world, own, channel, helping>>
  BY DEF IInv, Reap
<1>3. TypeOK'
  BY <1>1, <1>2 DEF TypeOK, Working, Answers, world, own, channel, helping
<1>4. next = "failed" => Gone(p)
  BY <1>1, <1>2, NoneBeforeHelper DEF FileKept
<1>5. Claims(p)
  BY <1>1, <1>2, <1>4 DEF Claims, TypeOK, HelperKept, own, channel
<1>6. QED
  BY <1>2, <1>3, <1>5, ProcessKeeps

\* A file that is verified to be missing was in one directory only.
LEMMA VerifyMissingStep ==
  ASSUME IInv, NEW p \in Proc, VerifyMissing(p)
  PROVE  IInv'
<1>1. PICK next \in {"failed", "cleanup_failed"} :
        /\ pc' = [pc EXCEPT ![p] = next]
        /\ next = "failed" => at = cwd[p] /\ file[at] = None
  BY DEF VerifyMissing, Goto
<1>2. /\ TypeOK /\ HelperKept(p) /\ FileKept(p) /\ pc[p] = "verifying"
      /\ UNCHANGED <<world, own, channel, helping>>
  BY DEF IInv, VerifyMissing
<1>3. TypeOK'
  BY <1>1, <1>2 DEF TypeOK, Working, Answers, world, own, channel, helping
<1>4. next = "failed" => Gone(p)
  BY <1>1, <1>2, NoProcOutside DEF FileKept, Gone, None
<1>5. Claims(p)
  BY <1>1, <1>2, <1>4 DEF Claims, TypeOK, HelperKept, own, channel
<1>6. QED
  BY <1>2, <1>3, <1>5, ProcessKeeps

\* Every step of the Pi process keeps the invariant.
LEMMA ProcessStep ==
  ASSUME IInv, NEW p \in Proc, Process(p)
  PROVE  IInv'
BY BeforeForkStep, ForkStep, ReceiveStep, AskToCreateStep, ProceedStep, ReceiveCommittedStep,
   CheckExistingStep, ReceiveCleanedStep, LoseHelperStep, ReapStep, VerifyMissingStep
   DEF Process, AskToWrite, AskToCommit

-----------------------------------------------------------------------------
(* The helper                                                              *)

\* What a step of p's helper may touch: its own state, and a file of its own
\* or none.
Touches(p) ==
  /\ UNCHANGED <<at, disturbed, pc, own, linked, cwd>>
  /\ \A q \in Proc \ {p} :
       /\ helper'[q] = helper[q] /\ active'[q] = active[q] /\ why'[q] = why[q]
       /\ request'[q] = request[q] /\ reply'[q] = reply[q]
  /\ \A d \in Dir, q \in Proc \ {p} : file'[d].by = q => file[d].by = q
  /\ disturbed = 0 =>
       \A q \in Proc \ {p} : file["old"].by = q => file'["old"] = file["old"]

LEMMA HelperKeeps ==
  ASSUME IInv, NEW p \in Proc, TypeOK', Touches(p), HelperKept(p)', FileKept(p)',
         disturbed = 0 => UndisturbedKept(p)'
  PROVE  IInv'
<1>1. UNCHANGED <<at, disturbed, pc, root, parent, outcome, requested, opened, confirmed, linked, cwd>>
  BY DEF Touches, own
<1>2. ASSUME NEW q \in Proc, q # p
      PROVE  HelperKept(q)' /\ FileKept(q)'
  <2>1. HelperKept(q) /\ FileKept(q)
    BY DEF IInv
  <2>2. HelperKept(q)'
    BY <1>1, <1>2, <2>1 DEF HelperKept, Touches
  <2>3. \A d \in Dir : file'[d].by = q => file[d].by = q
    BY <1>2 DEF Touches
  <2>4. FileKept(q)'
    BY <1>1, <1>2, <2>1, <2>3 DEF FileKept, Gone, Touches
  <2>5. QED
    BY <2>2, <2>4
<1>3. ASSUME disturbed' = 0, NEW q \in Proc, q # p
      PROVE  UndisturbedKept(q)'
  <2>1. UndisturbedKept(q)
    BY <1>1, <1>3 DEF IInv
  <2>2. file["old"].by = q => file'["old"] = file["old"]
    BY <1>1, <1>3 DEF Touches
  <2>3. /\ helper'[q] = helper[q] /\ active'[q] = active[q] /\ reply'[q] = reply[q]
    BY <1>3 DEF Touches
  <2>4. QED
    BY <1>1, <2>1, <2>2, <2>3 DEF UndisturbedKept
<1>4. disturbed' = 0 => at' = "old"
  BY <1>1 DEF IInv
<1>5. QED
  BY <1>1, <1>2, <1>3, <1>4 DEF IInv

\* A helper begins with nothing of its own.
LEMMA HelperReadyStep ==
  ASSUME IInv, NEW p \in Proc, HelperReady(p)
  PROVE  IInv'
<1>1. /\ helper[p] = "booting" /\ helper' = [helper EXCEPT ![p] = "idle"]
      /\ reply' = [reply EXCEPT ![p] = IF linked[p] THEN "ready" ELSE @]
      /\ UNCHANGED <<at, file, disturbed, pc, root, parent, outcome, requested, opened, confirmed,
                     request, linked, cwd, active, why>>
  BY DEF HelperReady, Move, Say, Take, world, own, channel
<1>2. TypeOK /\ HelperKept(p) /\ FileKept(p) /\ (disturbed = 0 => UndisturbedKept(p))
  BY DEF IInv
<1>3. TypeOK'
  BY <1>1, <1>2 DEF TypeOK, Replies
<1>4. Touches(p)
  BY <1>1, <1>2 DEF TypeOK, Touches, own
<1>5. HelperKept(p)'
  BY <1>1, <1>2 DEF TypeOK, HelperKept
<1>6. FileKept(p)'
  BY <1>1, <1>2 DEF TypeOK, HelperKept, FileKept, Gone
<1>7. disturbed = 0 => UndisturbedKept(p)'
  BY <1>1, <1>2 DEF TypeOK, HelperKept, UndisturbedKept
<1>8. QED
  BY <1>3, <1>4, <1>5, <1>6, <1>7, HelperKeeps

\* What is cancelled was never made.
LEMMA HelperCancelStep ==
  ASSUME IInv, NEW p \in Proc, HelperCancel(p)
  PROVE  IInv'
<1>1. /\ helper[p] = "idle" /\ helper' = [helper EXCEPT ![p] = "leaving"]
      /\ request' = [request EXCEPT ![p] = "none"]
      /\ reply' = [reply EXCEPT ![p] = IF linked[p] THEN "cancelled" ELSE @]
      /\ UNCHANGED <<at, file, disturbed, pc, root, parent, outcome, requested, opened, confirmed,
                     linked, cwd, active, why>>
  BY DEF HelperCancel, Move, Say, Take, world, own, channel
<1>2. TypeOK /\ HelperKept(p) /\ FileKept(p) /\ (disturbed = 0 => UndisturbedKept(p))
  BY DEF IInv
<1>3. TypeOK'
  BY <1>1, <1>2 DEF TypeOK, Replies
<1>4. Touches(p)
  BY <1>1, <1>2 DEF TypeOK, Touches, own
<1>5. HelperKept(p)'
  BY <1>1, <1>2 DEF TypeOK, HelperKept
<1>6. FileKept(p)'
  BY <1>1, <1>2 DEF TypeOK, HelperKept, FileKept, Gone
<1>7. disturbed = 0 => UndisturbedKept(p)'
  BY <1>1, <1>2 DEF TypeOK, HelperKept, UndisturbedKept
<1>8. QED
  BY <1>3, <1>4, <1>5, <1>6, <1>7, HelperKeeps

\* What is begun is about the file that is tracked.
LEMMA HelperBeginStep ==
  ASSUME IInv, NEW p \in Proc, HelperBegin(p)
  PROVE  IInv'
<1>1. /\ request' = [request EXCEPT ![p] = "none"]
      /\ \/ helper[p] = "open" /\ helper' = [helper EXCEPT ![p] = "filling"] /\ why' = why
         \/ helper[p] = "filled" /\ helper' = [helper EXCEPT ![p] = "closing"] /\ why' = why
         \/ /\ helper[p] \in {"open", "filled"}
            /\ helper' = [helper EXCEPT ![p] = "checking"] /\ why' = [why EXCEPT ![p] = "abort"]
      /\ UNCHANGED <<at, file, disturbed, pc, root, parent, outcome, requested, opened, confirmed,
                     reply, linked, cwd, active>>
  BY DEF HelperBegin, Move, Say, Take, world, own, channel
<1>2. TypeOK /\ HelperKept(p) /\ FileKept(p) /\ (disturbed = 0 => UndisturbedKept(p))
  BY DEF IInv
<1>3. TypeOK'
  BY <1>1, <1>2 DEF TypeOK, Replies
<1>4. Touches(p)
  BY <1>1, <1>2 DEF TypeOK, Touches, own
<1>5. HelperKept(p)'
  BY <1>1, <1>2 DEF TypeOK, HelperKept
<1>6. FileKept(p)'
  BY <1>1, <1>2 DEF TypeOK, HelperKept, FileKept, Gone
<1>7. disturbed = 0 => UndisturbedKept(p)'
  BY <1>1, <1>2 DEF TypeOK, HelperKept, UndisturbedKept
<1>8. QED
  BY <1>3, <1>4, <1>5, <1>6, <1>7, HelperKeeps

\* An orphan cleans up what it tracks.
LEMMA HelperOrphanedStep ==
  ASSUME IInv, NEW p \in Proc, HelperOrphaned(p)
  PROVE  IInv'
<1>1. /\ \/ helper[p] \in {"idle", "open", "filled"}
         \/ helper[p] = "leaving" /\ active[p]
      /\ helper' = [helper EXCEPT ![p] = "checking"] /\ why' = [why EXCEPT ![p] = "disconnect"]
      /\ UNCHANGED <<at, file, disturbed, pc, root, parent, outcome, requested, opened, confirmed,
                     request, reply, linked, cwd, active>>
  BY DEF HelperOrphaned, Move, Say, Take, world, own, channel
<1>2. TypeOK /\ HelperKept(p) /\ FileKept(p) /\ (disturbed = 0 => UndisturbedKept(p))
  BY DEF IInv
<1>3. TypeOK'
  BY <1>1, <1>2 DEF TypeOK, Replies
<1>4. Touches(p)
  BY <1>1, <1>2 DEF TypeOK, Touches, own
<1>5. HelperKept(p)'
  BY <1>1, <1>2 DEF TypeOK, HelperKept
<1>6. FileKept(p)'
  BY <1>1, <1>2 DEF TypeOK, HelperKept, FileKept, Gone
<1>7. disturbed = 0 => UndisturbedKept(p)'
  BY <1>1, <1>2 DEF TypeOK, HelperKept, UndisturbedKept
<1>8. QED
  BY <1>3, <1>4, <1>5, <1>6, <1>7, HelperKeeps

\* A helper that is gone leaves what it holds.
LEMMA HelperExitsStep ==
  ASSUME IInv, NEW p \in Proc, HelperExits(p)
  PROVE  IInv'
<1>1. /\ helper[p] \notin {"absent", "exited"} /\ helper' = [helper EXCEPT ![p] = "exited"]
      /\ UNCHANGED <<at, file, disturbed, pc, root, parent, outcome, requested, opened, confirmed,
                     request, reply, linked, cwd, active, why>>
  BY DEF HelperExits, Move, Say, Take, world, own, channel
<1>2. TypeOK /\ HelperKept(p) /\ FileKept(p) /\ (disturbed = 0 => UndisturbedKept(p))
  BY DEF IInv
<1>3. TypeOK'
  BY <1>1, <1>2 DEF TypeOK, Replies
<1>4. Touches(p)
  BY <1>1, <1>2 DEF TypeOK, Touches, own
<1>5. HelperKept(p)'
  BY <1>1, <1>2 DEF TypeOK, HelperKept
<1>6. FileKept(p)'
  BY <1>1, <1>2 DEF TypeOK, HelperKept, FileKept, Gone
<1>7. disturbed = 0 => UndisturbedKept(p)'
  BY <1>1, <1>2 DEF TypeOK, HelperKept, UndisturbedKept
<1>8. QED
  BY <1>3, <1>4, <1>5, <1>6, <1>7, HelperKeeps

\* The file is tracked from when its identity is known.
LEMMA HelperOpenedStep ==
  ASSUME IInv, NEW p \in Proc, HelperOpened(p)
  PROVE  IInv'
<1>1. /\ helper[p] = "creating"
      /\ \/ /\ active' = [active EXCEPT ![p] = TRUE]
            /\ \/ /\ helper' = [helper EXCEPT ![p] = "checking"]
                  /\ why' = [why EXCEPT ![p] = "disconnect"] /\ reply' = reply
               \/ /\ helper' = [helper EXCEPT ![p] = "open"] /\ why' = why
                  /\ reply' = [reply EXCEPT ![p] = IF linked[p] THEN "opened" ELSE @]
         \/ /\ helper' = [helper EXCEPT ![p] = "leaving"] /\ UNCHANGED <<active, why>>
            /\ reply' = [reply EXCEPT ![p] = IF linked[p] THEN "cleanup_failed" ELSE @]
      /\ UNCHANGED <<at, file, disturbed, pc, root, parent, outcome, requested, opened, confirmed,
                     request, linked, cwd>>
  BY DEF HelperOpened, Move, Say, Take, world, own, channel
<1>2. TypeOK /\ HelperKept(p) /\ FileKept(p) /\ (disturbed = 0 => UndisturbedKept(p))
  BY DEF IInv
<1>3. TypeOK'
  <2>1. /\ active' \in [Proc -> BOOLEAN] /\ why' \in [Proc -> {"none", "abort", "fail", "disconnect"}]
        /\ reply' \in [Proc -> Replies]
    <3>1. active' \in [Proc -> BOOLEAN]
      <4>1. active \in [Proc -> BOOLEAN]
        BY <1>2 DEF TypeOK
      <4>2. active' = active \/ active' = [active EXCEPT ![p] = TRUE]
        BY <1>1
      <4>3. QED
        BY <4>1, <4>2
    <3>2. why' \in [Proc -> {"none", "abort", "fail", "disconnect"}]
      BY <1>1, <1>2 DEF TypeOK
    <3>3. reply' \in [Proc -> Replies]
      <4>1. reply \in [Proc -> Replies]
        BY <1>2 DEF TypeOK
      <4>2. QED
        BY <1>1, <4>1 DEF Replies
    <3>4. QED
      BY <3>1, <3>2, <3>3
  <2>2. PICK next \in {"checking", "open", "leaving"} : helper' = [helper EXCEPT ![p] = next]
    BY <1>1
  <2>3. QED
    BY <1>1, <1>2, <2>1, <2>2 DEF TypeOK
<1>4. Touches(p)
  BY <1>1, <1>2 DEF TypeOK, Touches, own
<1>5. HelperKept(p)'
  BY <1>1, <1>2 DEF TypeOK, HelperKept
<1>6. FileKept(p)'
  BY <1>1, <1>2 DEF TypeOK, HelperKept, FileKept, Gone
<1>7. disturbed = 0 => UndisturbedKept(p)'
  BY <1>1, <1>2 DEF TypeOK, HelperKept, UndisturbedKept
<1>8. QED
  BY <1>3, <1>4, <1>5, <1>6, <1>7, HelperKeeps

\* A helper makes its file where there is none.
LEMMA HelperCreateStep ==
  ASSUME IInv, NEW p \in Proc, HelperCreate(p)
  PROVE  IInv'
<1> DEFINE made == [by |-> p, text |-> "empty"]
<1>1. /\ helper[p] = "idle" /\ request[p] = "create" /\ request' = [request EXCEPT ![p] = "none"]
      /\ \/ /\ file[cwd[p]] = None /\ file' = [file EXCEPT ![cwd[p]] = made]
            /\ helper' = [helper EXCEPT ![p] = "creating"] /\ reply' = reply
         \/ /\ file' = file /\ helper' = [helper EXCEPT ![p] = "leaving"]
            /\ \E message \in {"exists", "error"} :
                 reply' = [reply EXCEPT ![p] = IF linked[p] THEN message ELSE @]
      /\ UNCHANGED <<at, disturbed, pc, root, parent, outcome, requested, opened, confirmed,
                     linked, cwd, active, why>>
  BY DEF HelperCreate, Move, Say, Take, own
<1>2. TypeOK /\ HelperKept(p) /\ FileKept(p) /\ (disturbed = 0 => UndisturbedKept(p))
  BY DEF IInv
<1>3. made \in [by : Maker, text : {"empty", "whole"}] /\ made.by = p /\ cwd[p] \in Dir
  BY <1>2 DEF Maker, TypeOK
<1> HIDE DEF made
<1>4. Gone(p)
  BY <1>1, <1>2 DEF FileKept, Gone
<1>5. CASE file' = file
  <2>1. TypeOK'
    <3>1. reply' \in [Proc -> Replies]
      BY <1>1, <1>2 DEF TypeOK, Replies
    <3>2. helper' \in [Proc -> {"absent", "booting", "idle", "creating", "open", "filling", "filled",
                                "closing", "checking", "unlinking", "leaving", "exited"}]
      BY <1>1, <1>2 DEF TypeOK
    <3>3. QED
      BY <1>1, <1>2, <1>5, <3>1, <3>2 DEF TypeOK
  <2>2. Touches(p)
    BY <1>1, <1>2, <1>5 DEF TypeOK, Touches, own
  <2>3. HelperKept(p)'
    BY <1>1, <1>2 DEF TypeOK, HelperKept
  <2>4. CASE helper'[p] = "creating"
    BY <1>1, <1>2, <1>3, <1>4, <1>5, <2>4 DEF TypeOK, Gone, None, Maker
  <2>5. CASE helper'[p] # "creating"
    <3>1. helper'[p] = "leaving" /\ reply'[p] \in {reply[p], "exists", "error"}
      BY <1>1, <1>2, <2>5 DEF TypeOK
    <3>2. FileKept(p)'
      BY <1>1, <1>2, <1>4, <1>5, <3>1 DEF HelperKept, FileKept, Gone
    <3>3. disturbed = 0 => UndisturbedKept(p)'
      BY <1>1, <1>2, <1>5, <3>1 DEF HelperKept, UndisturbedKept
    <3>4. QED
      BY <2>1, <2>2, <2>3, <3>2, <3>3, HelperKeeps
  <2>6. QED
    BY <2>4, <2>5
<1>6. CASE file' # file
  <2>1. /\ file[cwd[p]] = None /\ file' = [file EXCEPT ![cwd[p]] = made]
        /\ helper' = [helper EXCEPT ![p] = "creating"] /\ reply' = reply
    BY <1>1, <1>6
  <2>2. /\ file' \in [Dir -> [by : Maker, text : {"empty", "whole"}]] /\ file'[cwd[p]] = made
        /\ \A d \in Dir : d # cwd[p] => file'[d] = file[d]
    BY <1>2, <1>3, <2>1 DEF TypeOK
  <2>3. TypeOK'
    BY <1>1, <1>2, <2>1, <2>2 DEF TypeOK
  <2>4. Touches(p)
    <3>1. \A q \in Proc : file[cwd[p]].by # q
      BY <2>1, NoProcOutside DEF None
    <3>2. disturbed = 0 => cwd[p] = "old"
      BY <1>2 DEF UndisturbedKept
    <3>3. \A d \in Dir, q \in Proc \ {p} : file'[d].by = q => file[d].by = q
      BY <1>3, <2>2
    <3>4. "old" \in Dir
      BY DEF Dir
    <3>5. QED
      BY <1>1, <1>2, <2>1, <2>2, <3>1, <3>2, <3>3, <3>4 DEF TypeOK, Touches, own
  <2>5. HelperKept(p)'
    BY <1>1, <1>2, <2>1 DEF TypeOK, HelperKept
  <2>6. FileKept(p)'
    <3>1. \A d \in Dir : file'[d].by = p => d = cwd[p]
      BY <1>4, <2>2 DEF Gone
    <3>2. QED
      BY <1>1, <1>2, <2>1, <3>1 DEF TypeOK, HelperKept, FileKept
  <2>7. disturbed = 0 => UndisturbedKept(p)'
    <3>1. disturbed = 0 => file'["old"].by = p
      BY <1>2, <1>3, <2>2 DEF UndisturbedKept
    <3>2. QED
      BY <1>1, <1>2, <2>1, <3>1 DEF TypeOK, HelperKept, UndisturbedKept
  <2>8. QED
    BY <2>3, <2>4, <2>5, <2>6, <2>7, HelperKeeps
<1>7. QED
  BY <1>5, <1>6

\* A file that is written is whole; one that is committed is tracked no more.
LEMMA HelperEndStep ==
  ASSUME IInv, NEW p \in Proc, HelperEnd(p)
  PROVE  IInv'
<1> DEFINE filled == IF file[cwd[p]].by = p
                     THEN [file EXCEPT ![cwd[p]] = [by |-> p, text |-> "whole"]] ELSE file
<1>1. /\ helper[p] \in {"filling", "closing"}
      /\ \/ /\ helper' = [helper EXCEPT ![p] = "checking"] /\ UNCHANGED <<reply, active>>
            /\ why' = [why EXCEPT ![p] = "fail"] \/ why' = [why EXCEPT ![p] = "disconnect"]
         \/ /\ helper[p] = "filling" /\ helper' = [helper EXCEPT ![p] = "filled"]
            /\ reply' = [reply EXCEPT ![p] = IF linked[p] THEN "written" ELSE @]
            /\ UNCHANGED <<why, active>> /\ file' = filled
         \/ /\ helper[p] = "closing" /\ helper' = [helper EXCEPT ![p] = "leaving"]
            /\ reply' = [reply EXCEPT ![p] = IF linked[p] THEN "committed" ELSE @]
            /\ active' = [active EXCEPT ![p] = FALSE] /\ why' = why /\ file' = file
      /\ file' = file \/ (helper[p] = "filling" /\ file' = filled)
      /\ UNCHANGED <<at, disturbed, pc, root, parent, outcome, requested, opened, confirmed,
                     request, linked, cwd>>
  BY DEF HelperEnd, AfterClose, Move, Say, own
<1>2. TypeOK /\ HelperKept(p) /\ FileKept(p) /\ (disturbed = 0 => UndisturbedKept(p))
  BY DEF IInv
<1>3. cwd[p] \in Dir /\ "old" \in Dir /\ file[cwd[p]] \in [by : Maker, text : {"empty", "whole"}]
  BY <1>2 DEF TypeOK, Dir
<1>4. /\ filled \in [Dir -> [by : Maker, text : {"empty", "whole"}]]
      /\ \A d \in Dir : filled[d].by = file[d].by
      /\ \A d \in Dir : file[d].by # p => filled[d] = file[d]
      /\ file[cwd[p]].by = p => filled[cwd[p]].text = "whole"
  BY <1>2, <1>3 DEF TypeOK, Maker
<1> HIDE DEF filled
<1>5. /\ file' \in [Dir -> [by : Maker, text : {"empty", "whole"}]]
      /\ \A d \in Dir : file'[d].by = file[d].by
      /\ \A d \in Dir : file[d].by # p => file'[d] = file[d]
  <2>1. file \in [Dir -> [by : Maker, text : {"empty", "whole"}]]
    BY <1>2 DEF TypeOK
  <2>2. CASE file' = file
    BY <2>1, <2>2
  <2>3. CASE file' = filled
    BY <1>4, <2>3
  <2>4. QED
    BY <1>1, <2>2, <2>3
<1>6. TypeOK'
  <2>1. reply' \in [Proc -> Replies]
    <3>1. reply \in [Proc -> Replies]
      BY <1>2 DEF TypeOK
    <3>2. QED
      BY <1>1, <3>1 DEF Replies
  <2>2. active' \in [Proc -> BOOLEAN]
    BY <1>1, <1>2 DEF TypeOK
  <2>3. why' \in [Proc -> {"none", "abort", "fail", "disconnect"}]
    BY <1>1, <1>2 DEF TypeOK
  <2>4. PICK next \in {"checking", "filled", "leaving"} : helper' = [helper EXCEPT ![p] = next]
    BY <1>1
  <2>5. QED
    BY <1>1, <1>2, <1>5, <2>1, <2>2, <2>3, <2>4 DEF TypeOK
<1>7. Touches(p)
  BY <1>1, <1>2, <1>3, <1>5 DEF TypeOK, Touches, own
<1>8. HelperKept(p)'
  BY <1>1, <1>2 DEF TypeOK, HelperKept
<1>9. FileKept(p)'
  <2>1. reply'[p] \in {reply[p], "written", "committed"} /\ helper'[p] \in {"checking", "filled", "leaving"}
    BY <1>1, <1>2 DEF TypeOK
  <2>2. QED
    BY <1>1, <1>2, <1>5, <2>1 DEF HelperKept, FileKept, Gone
<1>10. disturbed = 0 => UndisturbedKept(p)'
  <2>1. ASSUME disturbed = 0
        PROVE  /\ file'["old"].by = p /\ cwd[p] = "old"
               /\ reply[p] # "committed" /\ outcome[p] # "created" /\ pc[p] # "created"
    BY <1>1, <1>2, <1>3, <1>5, <2>1 DEF UndisturbedKept
  <2>2. ASSUME disturbed = 0, helper'[p] \in {"filled", "leaving"}
        PROVE  file'["old"].text = "whole"
    <3>1. CASE helper[p] = "filling"
      <4>1. file' = filled
        BY <1>1, <1>2, <2>2, <3>1 DEF TypeOK
      <4>2. QED
        BY <1>3, <1>4, <1>5, <2>1, <2>2, <4>1
    <3>2. CASE helper[p] = "closing"
      <4>1. file' = file
        BY <1>1, <3>2
      <4>2. QED
        BY <1>2, <2>2, <3>2, <4>1 DEF UndisturbedKept
    <3>3. QED
      BY <1>1, <3>1, <3>2
  <2>3. reply'[p] = "committed" => helper'[p] = "leaving" \/ reply[p] = "committed"
    BY <1>1, <1>2 DEF TypeOK
  <2>4. helper'[p] \in {"checking", "filled", "leaving"}
    BY <1>1, <1>2 DEF TypeOK
  <2>5. ASSUME disturbed = 0, file'["old"].text = "whole"
        PROVE  file'["old"] = [by |-> p, text |-> "whole"]
    BY <1>3, <1>5, <2>1, <2>5
  <2>6. QED
    BY <1>1, <1>2, <2>1, <2>2, <2>3, <2>4, <2>5 DEF UndisturbedKept
<1>11. QED
  BY <1>6, <1>7, <1>8, <1>9, <1>10, HelperKeeps

\* The helper's check finds its file, or says what it found instead.
LEMMA HelperCheckStep ==
  ASSUME IInv, NEW p \in Proc, HelperCheck(p)
  PROVE  IInv'
<1>1. /\ helper[p] = "checking"
      /\ UNCHANGED <<at, disturbed, pc, root, parent, outcome, requested, opened, confirmed,
                     file, request, linked, cwd, why>>
  BY DEF HelperCheck, world, own
<1>2. TypeOK /\ HelperKept(p) /\ FileKept(p) /\ (disturbed = 0 => UndisturbedKept(p))
  BY DEF IInv
<1>3. CASE MayUnlink(p) /\ Move(p, "unlinking") /\ UNCHANGED <<active, reply>>
  <2>1. /\ helper' = [helper EXCEPT ![p] = "unlinking"] /\ UNCHANGED <<active, reply>>
        /\ active[p] /\ file[cwd[p]].by = p
    BY <1>3 DEF Move, MayUnlink
  <2>2. TypeOK'
    BY <1>1, <1>2, <2>1 DEF TypeOK
  <2>3. Touches(p)
    BY <1>1, <1>2, <2>1 DEF TypeOK, Touches, own
  <2>4. HelperKept(p)'
    BY <1>1, <1>2, <2>1 DEF TypeOK, HelperKept
  <2>5. FileKept(p)'
    BY <1>1, <1>2, <2>1 DEF TypeOK, FileKept, Gone
  <2>6. disturbed = 0 => UndisturbedKept(p)'
    BY <1>1, <1>2, <2>1 DEF TypeOK, UndisturbedKept
  <2>7. QED
    BY <2>2, <2>3, <2>4, <2>5, <2>6, HelperKeeps
<1>4. CASE \E success \in BOOLEAN :
             /\ Cleaned(p, success)
             /\ success => ~active[p] \/ file[cwd[p]] = None
  <2>0. PICK success \in BOOLEAN :
          Cleaned(p, success) /\ (success => ~active[p] \/ file[cwd[p]] = None)
    BY <1>4
  <2>1. PICK message \in {"cleanup_failed", "aborted", "error"} :
          /\ helper' = [helper EXCEPT ![p] = "leaving"] /\ active' = [active EXCEPT ![p] = FALSE]
          /\ reply' = reply \/ reply' = [reply EXCEPT ![p] = IF linked[p] THEN message ELSE @]
          /\ message = "aborted" => why[p] = "abort" /\ (~active[p] \/ file[cwd[p]] = None)
    <3>1. helper' = [helper EXCEPT ![p] = "leaving"] /\ active' = [active EXCEPT ![p] = FALSE]
      BY <2>0 DEF Cleaned, Move
    <3>2. CASE why[p] = "disconnect"
      <4>1. reply' = reply
        BY <2>0, <3>2 DEF Cleaned
      <4>2. QED
        BY <3>1, <4>1
    <3>3. CASE why[p] # "disconnect" /\ ~success
      <4>1. reply' = [reply EXCEPT ![p] = IF linked[p] THEN "cleanup_failed" ELSE @]
        BY <2>0, <3>3 DEF Cleaned, Say
      <4>2. QED
        BY <3>1, <4>1
    <3>4. CASE why[p] = "abort" /\ success
      <4>1. reply' = [reply EXCEPT ![p] = IF linked[p] THEN "aborted" ELSE @]
        BY <2>0, <3>4 DEF Cleaned, Say
      <4>2. QED
        BY <2>0, <3>1, <3>4, <4>1
    <3>5. CASE why[p] \notin {"disconnect", "abort"} /\ success
      <4>1. reply' = [reply EXCEPT ![p] = IF linked[p] THEN "error" ELSE @]
        BY <2>0, <3>5 DEF Cleaned, Say
      <4>2. QED
        BY <3>1, <4>1
    <3>6. QED
      BY <3>2, <3>3, <3>4, <3>5
  <2>2. TypeOK'
    <3>1. reply' \in [Proc -> Replies]
      <4>1. reply \in [Proc -> Replies]
        BY <1>2 DEF TypeOK
      <4>2. QED
        BY <2>1, <4>1 DEF Replies
    <3>2. helper' = [helper EXCEPT ![p] = "leaving"] /\ active' = [active EXCEPT ![p] = FALSE]
      BY <2>1
    <3>3. QED
      BY <1>1, <1>2, <3>1, <3>2 DEF TypeOK
  <2>3. Touches(p)
    BY <1>1, <1>2, <2>1 DEF TypeOK, Touches, own
  <2>4. HelperKept(p)'
    BY <1>1, <1>2, <2>1 DEF TypeOK, HelperKept
  <2>5. helper'[p] = "leaving" /\ reply'[p] \in {reply[p], message}
    BY <1>2, <2>1 DEF TypeOK
  <2>6. message = "aborted" => Gone(p)
    BY <1>1, <1>2, <2>1, NoProcOutside DEF HelperKept, FileKept, Gone, None
  <2>7. FileKept(p)'
    BY <1>1, <1>2, <2>5, <2>6 DEF HelperKept, FileKept, Gone
  <2>8. disturbed = 0 => UndisturbedKept(p)'
    BY <1>1, <1>2, <2>5 DEF HelperKept, UndisturbedKept
  <2>9. QED
    BY <2>2, <2>3, <2>4, <2>7, <2>8, HelperKeeps
<1>5. QED
  BY <1>3, <1>4 DEF HelperCheck

\* What the helper removes is its own file, unless the user put another there.
LEMMA HelperUnlinkStep ==
  ASSUME IInv, NEW p \in Proc, HelperUnlink(p)
  PROVE  IInv'
<1>1. PICK message \in {"cleanup_failed", "aborted", "error"} :
        /\ helper[p] = "unlinking"
        /\ helper' = [helper EXCEPT ![p] = "leaving"] /\ active' = [active EXCEPT ![p] = FALSE]
        /\ reply' = reply \/ reply' = [reply EXCEPT ![p] = IF linked[p] THEN message ELSE @]
        /\ file' = [file EXCEPT ![cwd[p]] = None]
        /\ UNCHANGED <<at, disturbed, pc, root, parent, outcome, requested, opened, confirmed,
                       request, linked, cwd, why>>
  BY DEF HelperUnlink, Cleaned, Move, Say, own
<1>2. /\ TypeOK /\ HelperKept(p) /\ FileKept(p) /\ (disturbed = 0 => UndisturbedKept(p))
      /\ cwd[p] \in Dir /\ "old" \in Dir /\ \A q \in Proc : None.by # q
  BY NoProcOutside DEF IInv, TypeOK, Dir, None
<1>3. /\ file' \in [Dir -> [by : Maker, text : {"empty", "whole"}]] /\ file'[cwd[p]] = None
      /\ \A d \in Dir : d # cwd[p] => file'[d] = file[d]
  <2>1. None \in [by : Maker, text : {"empty", "whole"}]
    BY DEF None, Maker
  <2>2. QED
    BY <1>1, <1>2, <2>1 DEF TypeOK
<1>4. TypeOK'
  <2>1. reply' \in [Proc -> Replies]
    BY <1>1, <1>2 DEF TypeOK, Replies
  <2>2. QED
    BY <1>1, <1>2, <1>3, <2>1 DEF TypeOK
<1>5. Touches(p)
  <2>1. \A d \in Dir, q \in Proc : file'[d].by = q => file[d].by = q
    BY <1>2, <1>3
  <2>2. disturbed = 0 => file["old"].by = p
    BY <1>1, <1>2 DEF UndisturbedKept
  <2>3. QED
    BY <1>1, <1>2, <2>1, <2>2 DEF TypeOK, Touches, own
<1>6. HelperKept(p)'
  BY <1>1, <1>2 DEF TypeOK, HelperKept
<1>7. Gone(p)'
  BY <1>2, <1>3 DEF FileKept, Gone
<1>8. helper'[p] = "leaving" /\ reply'[p] \in {reply[p], message}
  BY <1>1, <1>2 DEF TypeOK
<1>9. FileKept(p)'
  BY <1>7, <1>8 DEF FileKept, Gone
<1>10. disturbed = 0 => UndisturbedKept(p)'
  BY <1>1, <1>2, <1>8 DEF HelperKept, UndisturbedKept
<1>11. QED
  BY <1>4, <1>5, <1>6, <1>9, <1>10, HelperKeeps

\* Every step of a helper keeps the invariant.
LEMMA HelperStep ==
  ASSUME IInv, NEW p \in Proc, Helper(p)
  PROVE  IInv'
BY HelperReadyStep, HelperCreateStep, HelperCancelStep, HelperOpenedStep, HelperBeginStep,
   HelperEndStep, HelperOrphanedStep, HelperCheckStep, HelperUnlinkStep, HelperExitsStep
   DEF Helper

-----------------------------------------------------------------------------
(* The user, and the theorems                                              *)

\* The user makes no file of a process.
LEMMA DisturbStep ==
  ASSUME IInv, MoveProject \/ EditFile
  PROVE  IInv'
<1>1. /\ disturbed < MaxDisturbances /\ disturbed' = disturbed + 1 /\ at' \in Dir
      /\ UNCHANGED <<pc, own, channel, helping>>
      /\ file' = file \/ \E f \in {None, [by |-> "user", text |-> "whole"]} : file' = [file EXCEPT ![at] = f]
  BY DEF MoveProject, EditFile, Disturb, IInv, TypeOK, Dir
<1>2. TypeOK /\ disturbed' \in 0 .. MaxDisturbances /\ disturbed' # 0
  BY <1>1, DisturbancesBounded DEF IInv, TypeOK
<1>3. UNCHANGED <<root, parent, outcome, requested, opened, confirmed, request, reply, linked,
                  helper, cwd, active, why>>
  BY <1>1 DEF own, channel, helping
<1>4. /\ file' \in [Dir -> [by : Maker, text : {"empty", "whole"}]]
      /\ \A d \in Dir, p \in Proc : file'[d].by = p => file[d].by = p
  <2>1. CASE file' = file
    BY <1>2, <2>1 DEF TypeOK
  <2>2. CASE \E f \in {None, [by |-> "user", text |-> "whole"]} : file' = [file EXCEPT ![at] = f]
    <3>1. PICK f \in {None, [by |-> "user", text |-> "whole"]} : file' = [file EXCEPT ![at] = f]
      BY <2>2
    <3>2. f \in [by : Maker, text : {"empty", "whole"}] /\ \A p \in Proc : f.by # p
      BY NoProcOutside DEF None, Maker
    <3>3. \A d \in Dir : file'[d] = f \/ file'[d] = file[d]
      BY <1>2, <3>1 DEF TypeOK
    <3>4. file' \in [Dir -> [by : Maker, text : {"empty", "whole"}]]
      BY <1>2, <3>1, <3>2 DEF TypeOK
    <3>5. QED
      BY <3>2, <3>3, <3>4
  <2>3. QED
    BY <1>1, <2>1, <2>2
<1>5. TypeOK'
  BY <1>1, <1>2, <1>3, <1>4 DEF TypeOK
<1>6. ASSUME NEW p \in Proc
      PROVE  HelperKept(p)' /\ FileKept(p)'
  BY <1>1, <1>3, <1>4 DEF IInv, HelperKept, FileKept, Gone
<1>7. QED
  BY <1>2, <1>5, <1>6 DEF IInv

\* The invariant holds at first.
LEMMA Beginning ==
  ASSUME Init
  PROVE  IInv
<1>1. file = [d \in Dir |-> None] /\ \A p \in Proc : None.by # p
  BY NoProcOutside DEF Init, None
<1>2. TypeOK
  <2>1. None \in [by : Maker, text : {"empty", "whole"}]
    BY DEF None, Maker
  <2>2. QED
    BY <1>1, <2>1, DisturbancesBounded DEF Init, TypeOK, Dir, Working, Replies
<1>3. ASSUME NEW p \in Proc
      PROVE  HelperKept(p) /\ FileKept(p) /\ UndisturbedKept(p)
  BY <1>1 DEF Init, HelperKept, FileKept, UndisturbedKept, Gone
<1>4. QED
  BY <1>2, <1>3 DEF Init, IInv

\* What a process and its helper may rely on.
THEOREM CreationIsInductive == Spec => []IInv
<1>1. Init => IInv
  BY Beginning
<1>2. IInv /\ [Next]_vars => IInv'
  <2> SUFFICES ASSUME IInv, [Next]_vars
               PROVE  IInv'
    OBVIOUS
  <2>1. CASE Next
    BY <2>1, ProcessStep, HelperStep, DisturbStep DEF Next
  <2>2. CASE UNCHANGED vars
    BY <2>2 DEF vars, world, own, channel, helping, IInv, TypeOK, HelperKept, FileKept,
                UndisturbedKept, Gone
  <2>3. QED
    BY <2>1, <2>2
<1>3. QED
  BY <1>1, <1>2, PTL DEF Spec

\* An ordinary failure left no file, and what was created stays whole until the
\* user changes it, however many processes start at once and whatever becomes
\* of their helpers.
THEOREM PathIsTold == Spec => []PathIsAsReported
<1>1. IInv => PathIsAsReported
  <2> SUFFICES ASSUME IInv
               PROVE  PathIsAsReported
    OBVIOUS
  <2>1. FailureLeavesNothing
    BY DEF IInv, TypeOK, FileKept, Gone, FailureLeavesNothing
  <2>2. CreatedStays
    BY DEF IInv, UndisturbedKept, CreatedStays
  <2>3. QED
    BY <2>1, <2>2 DEF IInv, PathIsAsReported
<1>2. QED
  BY CreationIsInductive, <1>1, PTL

\* A start that ends well, or fails in an ordinary way, leaves no helper.
THEOREM HelpersAreReaped == Spec => []HelperReaped
<1>1. IInv => HelperReaped
  BY DEF IInv, HelperKept, HelperReaped
<1>2. QED
  BY CreationIsInductive, <1>1, PTL

-----------------------------------------------------------------------------
(***************************************************************************)
(* The configuration of a session (SessionConfig).                         *)
(***************************************************************************)

\* What a source can have read, and what the sources come to.
Reading == UNION {Readings(s) : s \in Source}
Outcome == EnsureValid(Source, WrongShape(source["runtime_options"]))
Diagnosis == [effectiveSource |-> EffectiveSource, rejectedSources |-> RejectedSources]

\* The invariant of a load: it has read nothing of a project without trust, and
\* what it returns is what its sources come to.
LoadInv ==
  /\ source \in [Source -> Reading]
  /\ loading \in {"global", "trust"} => trusted = "unknown"
  /\ trusted # "yes" => \A s \in ProjectSource : source[s] = Missing
  /\ Done => result = Outcome /\ diagnostics = Diagnosis

\* The five layers.
LEMMA OrderIs ==
  /\ DOMAIN Order = 1..5
  /\ Order[1] = "global" /\ Order[2] = "trusted_project" /\ Order[3] = "project_env"
  /\ Order[4] = "process_environment" /\ Order[5] = "runtime_options"
  /\ Source = {"global", "trusted_project", "project_env", "process_environment", "runtime_options"}
<1>1. /\ DOMAIN Order = 1..5
      /\ Order[1] = "global" /\ Order[2] = "trusted_project" /\ Order[3] = "project_env"
      /\ Order[4] = "process_environment" /\ Order[5] = "runtime_options"
  BY DEF Order
<1>2. Source = {Order[i] : i \in 1..5}
  BY <1>1 DEF Source, Range
<1> QED BY <1>1, <1>2

\* The greatest of some of the five places.
LEMMA GreatestPlace ==
  ASSUME NEW S \in SUBSET (1..5), S # {}
  PROVE  Max(S) \in S /\ \A i \in S : i <= Max(S)
<1>1. \E i \in S : \A j \in S : i >= j
  <2>1. CASE 5 \in S BY <2>1
  <2>2. CASE 5 \notin S /\ 4 \in S BY <2>2
  <2>3. CASE 5 \notin S /\ 4 \notin S /\ 3 \in S BY <2>3
  <2>4. CASE 5 \notin S /\ 4 \notin S /\ 3 \notin S /\ 2 \in S BY <2>4
  <2>5. CASE 5 \notin S /\ 4 \notin S /\ 3 \notin S /\ 2 \notin S
    <3>1. PICK i \in S : TRUE
      OBVIOUS
    <3>2. \A j \in S : j = 1
      BY <2>5
    <3> QED BY <3>1, <3>2
  <2> QED BY <2>1, <2>2, <2>3, <2>4, <2>5
<1> QED BY <1>1 DEF Max

\* What is read says what it enables, and is loaded without an issue.
LEMMA ReadingIs ==
  ASSUME NEW r \in Reading
  PROVE  /\ r.said = r.enabled
         /\ r.enabled \in Enablement
         /\ r.status = "loaded" => r.issue = "none"
         /\ \E s \in Source : r.layer \in Layer(s)
<1>0. PICK s \in Source : r \in Readings(s)
  BY DEF Reading
<1>00. <<>> \in Layer(s)
  BY DEF Layer
<1>1. CASE r = Missing
  BY <1>1, <1>00 DEF Missing, Enablement
<1>2. CASE r \in Failures
  BY <1>2, <1>00 DEF Failures, Unusable, Missing, Enablement
<1>3. CASE \E e \in Enablement : r = RejectShape(e)
  <2> PICK e \in Enablement : r = RejectShape(e)
    BY <1>3
  <2> QED BY <1>00 DEF RejectShape, Unusable, Missing, Enablement
<1>4. CASE \E l \in Layer(s), e \in Enablement : r = Loaded(l, e)
  BY <1>4 DEF Loaded, Enablement
<1> QED BY <1>0, <1>1, <1>2, <1>3, <1>4 DEF Readings, Texts

\* A reading changes one source.
LEMMA ReadSource ==
  ASSUME source \in [Source -> Reading], NEW s \in Source, Read(s)
  PROVE  source' \in [Source -> Reading] /\ \A t \in Source \ {s} : source'[t] = source[t]
<1> PICK r \in Readings(s) : source' = [source EXCEPT ![s] = r]
  BY DEF Read
<1> r \in Reading
  BY DEF Reading
<1> QED OBVIOUS

\* What the sources come to depends on nothing else.
LEMMA OutcomeStays ==
  ASSUME source' = source
  PROVE  Outcome' = Outcome /\ Diagnosis' = Diagnosis
<1>1. Merge(Source)' = Merge(Source)
  BY DEF Merge
<1>2. ResolveExplicitEnablement(Source)' = ResolveExplicitEnablement(Source)
  BY DEF ResolveExplicitEnablement
<1>3. MergedEnablement(Source)' = MergedEnablement(Source)
  BY DEF MergedEnablement
<1>4. WrongShape(source["runtime_options"])' = WrongShape(source["runtime_options"])
  BY DEF WrongShape
<1>5. RejectedSources' = RejectedSources
  BY DEF RejectedSources
<1>6. EffectiveSource' = EffectiveSource
  BY DEF EffectiveSource, HasLayer, WrongShape
<1>7. Outcome' = Outcome
  BY <1>1, <1>2, <1>3, <1>4 DEF Outcome, EnsureValid, FallbackEnablement
<1> QED BY <1>5, <1>6, <1>7 DEF Diagnosis

\* Until the configuration is merged, its steps read sources.
LEMMA NotDoneStep ==
  ASSUME LoadInv, source' \in [Source -> Reading], loading' # "done", loading' \notin {"global", "trust"},
         trusted' # "yes" => \A s \in ProjectSource : source'[s] = Missing
  PROVE  LoadInv'
BY DEF LoadInv, Done

\* The sources of the project.
LEMMA ProjectIs == ProjectSource = {"trusted_project", "project_env"}
BY DEF ProjectSource

\* What a load may rely on, in any order of trust, readings and failures.
THEOREM LoadingIsInductive == LoadSpec => []LoadInv
<1>1. LoadInit => LoadInv
  BY OrderIs DEF LoadInit, LoadInv, Reading, Readings, Done, ProjectSource
<1>2. LoadInv /\ [LoadNext]_loadVars => LoadInv'
  <2> SUFFICES ASSUME LoadInv, [LoadNext]_loadVars PROVE LoadInv'
    OBVIOUS
  <2>1. CASE ReadGlobal
    <3>1. source' \in [Source -> Reading] /\ \A t \in Source \ {"global"} : source'[t] = source[t]
      BY <2>1, ReadSource, OrderIs DEF ReadGlobal, LoadInv
    <3> QED BY <2>1, <3>1, OrderIs DEF ReadGlobal, LoadInv, Done, ProjectSource
  <2>2. CASE ResolveProjectTrust
    BY <2>2, NotDoneStep DEF ResolveProjectTrust, LoadInv
  <2>3. CASE ReadProject
    <3>1. CASE MayRead("trusted_project")
      <4>1. source' \in [Source -> Reading]
        BY <2>3, <3>1, ReadSource, OrderIs DEF ReadProject, LoadInv
      <4> QED BY <2>3, <3>1, <4>1, NotDoneStep DEF ReadProject, MayRead
    <3>2. CASE ~MayRead("trusted_project")
      BY <2>3, <3>2, NotDoneStep DEF ReadProject, LoadInv
    <3> QED BY <3>1, <3>2
  <2>4. CASE ReadEnvFile
    <3>1. CASE MayRead("project_env") /\ Read("project_env")
      <4>1. source' \in [Source -> Reading]
        BY <2>4, <3>1, ReadSource, OrderIs DEF LoadInv
      <4> QED BY <2>4, <3>1, <4>1, NotDoneStep DEF ReadEnvFile, MayRead
    <3>2. CASE UNCHANGED source
      BY <2>4, <3>2, NotDoneStep DEF ReadEnvFile, LoadInv
    <3> QED BY <2>4, <3>1, <3>2 DEF ReadEnvFile
  <2>5. CASE ReadEnvironment
    <3>1. /\ source' \in [Source -> Reading]
          /\ \A t \in Source \ {"process_environment"} : source'[t] = source[t]
      BY <2>5, ReadSource, OrderIs DEF ReadEnvironment, LoadInv
    <3>2. trusted' # "yes" => \A s \in ProjectSource : source'[s] = Missing
      BY <2>5, <3>1, OrderIs, ProjectIs DEF ReadEnvironment, LoadInv
    <3> QED BY <2>5, <3>1, <3>2, NotDoneStep DEF ReadEnvironment
  <2>6. CASE LoadSessionConfig
    <3>1. /\ source' \in [Source -> Reading]
          /\ \A t \in Source \ {"runtime_options"} : source'[t] = source[t]
      BY <2>6, ReadSource, OrderIs DEF LoadSessionConfig, LoadInv
    <3>2. trusted' # "yes" => \A s \in ProjectSource : source'[s] = Missing
      BY <2>6, <3>1, OrderIs, ProjectIs DEF LoadSessionConfig, LoadInv
    <3> QED BY <2>6, <3>1, <3>2, NotDoneStep DEF LoadSessionConfig
  <2>7. CASE Finish
    <3>1. result' = Outcome' /\ diagnostics' = Diagnosis'
      BY <2>7, OutcomeStays DEF Finish, Outcome, Diagnosis
    <3> QED BY <2>7, <3>1 DEF Finish, LoadInv, Done
  <2>8. CASE UNCHANGED loadVars
    <3>1. Outcome' = Outcome /\ Diagnosis' = Diagnosis
      BY <2>8, OutcomeStays DEF loadVars
    <3> QED BY <2>8, <3>1 DEF loadVars, LoadInv, Done
  <2> QED BY <2>1, <2>2, <2>3, <2>4, <2>5, <2>6, <2>7, <2>8 DEF LoadNext
<1> QED BY <1>1, <1>2, PTL DEF LoadSpec

-----------------------------------------------------------------------------
(* What is in effect                                                       *)

\* A merged switch has a value the code knows.
LEMMA MergedValues ==
  ASSUME source \in [Source -> Reading]
  PROVE  /\ Merge(Source).environment \in {"production", "development"}
         /\ Merge(Source).insecure \in {"refused", "allowed"}
         /\ Merge(Source).unsafe \in {"refused", "allowed"}
<1>1. ASSUME NEW s \in Source, NEW key \in DOMAIN source[s].layer
      PROVE  /\ key = "insecure" => source[s].layer[key] = "allowed"
             /\ key = "unsafe" => source[s].layer[key] = "allowed"
             /\ key = "environment" => source[s].layer[key] = "development"
  <2>1. PICK t \in Source : source[s].layer \in Layer(t)
    BY ReadingIs
  <2>2. source[s].layer # <<>>
    BY <1>1
  <2>3. CASE source[s].layer = [x \in {"lineage"} |-> "malformed"]
    BY <1>1, <2>3
  <2>4. CASE \E o \in Overrides : source[s].layer = [x \in {o[1]} |-> o[2]]
    <3>1. PICK o \in Overrides : source[s].layer = [x \in {o[1]} |-> o[2]]
      BY <2>4
    <3>2. key = o[1] /\ source[s].layer[key] = o[2]
      BY <1>1, <3>1
    <3> QED BY <3>2 DEF Overrides
  <2> QED BY <2>1, <2>2, <2>3, <2>4 DEF Layer
<1>2. ASSUME NEW key \in DOMAIN Defaults
      PROVE  \/ Merge(Source)[key] = Defaults[key]
             \/ \E s \in Source : key \in DOMAIN source[s].layer /\ Merge(Source)[key] = source[s].layer[key]
  <2> DEFINE setting == {i \in DOMAIN Order : Order[i] \in Source /\ key \in DOMAIN source[Order[i]].layer}
  <2>1. Merge(Source)[key] = IF setting = {} THEN Defaults[key] ELSE source[Order[Max(setting)]].layer[key]
    BY DEF Merge
  <2>2. setting \in SUBSET (1..5)
    BY OrderIs
  <2>3. CASE setting # {}
    <3>1. Max(setting) \in setting
      BY <2>2, <2>3, GreatestPlace
    <3> QED BY <2>1, <2>3, <3>1
  <2> QED BY <2>1, <2>3
<1>3. /\ {"environment", "insecure", "unsafe"} \subseteq DOMAIN Defaults
      /\ Defaults.environment = "production" /\ Defaults.insecure = "refused" /\ Defaults.unsafe = "refused"
  BY DEF Defaults
<1> QED BY <1>1, <1>2, <1>3

\* From any number of layers, whichever of them are unusable: the configuration
\* in effect sends nothing to a plain endpoint in production, nor raw content,
\* without the acknowledgement.
THEOREM EffectiveSettingsAreSafe == LoadSpec => []EffectiveIsSafe
<1>1. LoadInv => EffectiveIsSafe
  <2> SUFFICES ASSUME LoadInv, Done
               PROVE  /\ result.settings.environment = "production" /\ result.settings.endpoint = "http"
                           => result.settings.insecure = "allowed"
                      /\ result.settings.content = "raw" => result.settings.unsafe = "allowed"
    BY DEF EffectiveIsSafe
  <2>1. result = Outcome /\ source \in [Source -> Reading]
    BY DEF LoadInv
  <2>2. CASE Valid(Merge(Source), WrongShape(source["runtime_options"]))
    <3>1. result.settings = Merge(Source)
      BY <2>1, <2>2 DEF Outcome, EnsureValid
    <3>2. ~UnsafeCapture(Merge(Source)) /\ ~InsecureTransport(Merge(Source))
      BY <2>2 DEF Valid, Issues
    <3> QED BY <2>1, <3>1, <3>2, MergedValues DEF UnsafeCapture, InsecureTransport
  <2>3. CASE ~Valid(Merge(Source), WrongShape(source["runtime_options"]))
    <3>1. result.settings = Defaults
      BY <2>1, <2>3 DEF Outcome, EnsureValid
    <3> QED BY <3>1 DEF Defaults
  <2> QED BY <2>2, <2>3
<1> QED BY <1>1, LoadingIsInductive, PTL

\* The last of the decisions is that of the last who decides.
LEMMA LastIs ==
  ASSUME NEW decisions, DOMAIN decisions = 1..5, \A i \in 1..5 : decisions[i] \in Enablement,
         NEW i \in 1..5, decisions[i] = "off", \A j \in 1..5 : i < j => decisions[j] # "on"
  PROVE  LastDecision(decisions) = "off"
<1> DEFINE decided == {j \in DOMAIN decisions : decisions[j] # "unset"}
<1>1. decided \in SUBSET (1..5) /\ i \in decided
  OBVIOUS
<1>2. Max(decided) \in decided /\ i <= Max(decided)
  BY <1>1, GreatestPlace
<1>3. decisions[Max(decided)] = "off"
  BY <1>2 DEF Enablement
<1> QED BY <1>1, <1>3 DEF LastDecision

\* A disablement that no later layer takes back disables the session, whatever is
\* rejected.
THEOREM DisablementsAreKept == LoadSpec => []DisablementKept
<1>1. LoadInv => DisablementKept
  <2> SUFFICES ASSUME LoadInv, Done, NEW s \in Source, Says(s, "off"),
                      \A t \in Source : Before(s, t) => ~Says(t, "on")
               PROVE  result.enabled = "off"
    BY DEF DisablementKept
  <2>1. result = Outcome /\ source \in [Source -> Reading]
    BY DEF LoadInv
  <2> DEFINE decisions == [i \in DOMAIN Order |->
        IF Order[i] \in Source THEN source[Order[i]].enabled ELSE "unset"]
  <2>2. /\ DOMAIN decisions = 1..5
        /\ \A i \in 1..5 : Order[i] \in Source /\ decisions[i] = source[Order[i]].enabled
    BY OrderIs
  <2>3. PICK i \in 1..5 : Order[i] = s
    BY OrderIs
  <2>4. \A j \in 1..5 : /\ decisions[j] \in Enablement
                        /\ decisions[j] = source[Order[j]].said
    BY <2>1, <2>2, ReadingIs
  <2>5. decisions[i] = "off" /\ \A j \in 1..5 : i < j => decisions[j] # "on"
    BY <2>2, <2>3, <2>4, OrderIs DEF Says, Before
  <2> HIDE DEF decisions
  <2>6. LastDecision(decisions) = "off"
    BY <2>2, <2>4, <2>5, LastIs
  <2>7. ResolveExplicitEnablement(Source) = "off"
    BY <2>6 DEF ResolveExplicitEnablement, decisions
  <2> QED BY <2>1, <2>7 DEF Outcome, EnsureValid, FallbackEnablement
<1> QED BY <1>1, LoadingIsInductive, PTL

\* Sources that are missing decide nothing.
LEMMA WithoutMissing ==
  ASSUME source \in [Source -> Reading], \A s \in ProjectSource : source[s] = Missing
  PROVE  Outcome = FactoryConfig
<1> DEFINE Kept == Source \ ProjectSource
<1>1. \A i \in DOMAIN Order : Order[i] \in Source
  BY OrderIs
<1>2. /\ \A i \in DOMAIN Order : Order[i] \notin Kept => source[Order[i]] = Missing
      /\ Missing.layer = <<>> /\ Missing.enabled = "unset"
  BY <1>1 DEF Missing
<1>3. Merge(Kept) = Merge(Source)
  <2>1. \A key \in DOMAIN Defaults :
          {i \in DOMAIN Order : Order[i] \in Source /\ key \in DOMAIN source[Order[i]].layer}
            = {i \in DOMAIN Order : Order[i] \in Kept /\ key \in DOMAIN source[Order[i]].layer}
    BY <1>1, <1>2
  <2> QED BY <2>1 DEF Merge
<1>4. ResolveExplicitEnablement(Kept) = ResolveExplicitEnablement(Source)
  <2>1. [i \in DOMAIN Order |-> IF Order[i] \in Source THEN source[Order[i]].enabled ELSE "unset"]
          = [i \in DOMAIN Order |-> IF Order[i] \in Kept THEN source[Order[i]].enabled ELSE "unset"]
    BY <1>1, <1>2
  <2> QED BY <2>1 DEF ResolveExplicitEnablement
<1>5. MergedEnablement(Kept) = MergedEnablement(Source)
  <2>1. \A i \in DOMAIN Order :
          (IF Order[i] \in Source /\ (source[Order[i]].status = "loaded" \/ Order[i] = "runtime_options")
           THEN source[Order[i]].enabled ELSE "unset")
          = IF Order[i] \in Kept /\ (source[Order[i]].status = "loaded" \/ Order[i] = "runtime_options")
            THEN source[Order[i]].enabled ELSE "unset"
    BY <1>1, <1>2
  <2> QED BY <2>1 DEF MergedEnablement
<1> HIDE DEF Kept
<1>6. FallbackEnablement(Kept) = FallbackEnablement(Source)
  BY <1>4, <1>5 DEF FallbackEnablement
<1>7. FactoryConfig = EnsureValid(Kept, WrongShape(source["runtime_options"]))
  BY DEF FactoryConfig, Kept
<1> QED BY <1>3, <1>4, <1>5, <1>6, <1>7 DEF Outcome, EnsureValid

\* A project without trust changes nothing, and no rejected source is called
\* effective.
THEOREM OnlyAcceptedSourcesCount == LoadSpec => []AcceptedSourcesCount
<1>1. LoadInv => UntrustedIsFactory
  <2> SUFFICES ASSUME LoadInv, Done, trusted = "no"
               PROVE  result = FactoryConfig
    BY DEF UntrustedIsFactory
  <2> QED BY WithoutMissing DEF LoadInv
<1>2. LoadInv => EffectiveIsAccepted
  <2> SUFFICES ASSUME LoadInv, Done
               PROVE  IF diagnostics.effectiveSource = "environment"
                      THEN ~({"project_env", "process_environment"} \subseteq diagnostics.rejectedSources)
                      ELSE diagnostics.effectiveSource \notin diagnostics.rejectedSources
    BY DEF EffectiveIsAccepted
  <2>1. source \in [Source -> Reading]
        /\ diagnostics.effectiveSource = EffectiveSource /\ diagnostics.rejectedSources = RejectedSources
    BY DEF LoadInv, Diagnosis
  <2>2. \A s \in Source : HasLayer(s) => s \notin RejectedSources
    BY <2>1, ReadingIs DEF HasLayer, RejectedSources
  <2>3. "runtime_options" \notin RejectedSources /\ "defaults" \notin RejectedSources
    BY OrderIs DEF RejectedSources
  <2>4. CASE EffectiveSource = "environment"
    <3>1. HasLayer("project_env") \/ HasLayer("process_environment")
      BY <2>4 DEF EffectiveSource
    <3> QED BY <2>1, <2>2, <2>4, <3>1, OrderIs
  <2>5. CASE EffectiveSource # "environment"
    <3>1. EffectiveSource \notin RejectedSources
      BY <2>2, <2>3, <2>5, OrderIs DEF EffectiveSource
    <3> QED BY <2>1, <2>5, <3>1
  <2> QED BY <2>4, <2>5
<1>3. LoadInv => AcceptedSourcesCount
  BY <1>1, <1>2 DEF AcceptedSourcesCount
<1> QED BY <1>3, LoadingIsInductive, PTL
=============================================================================
