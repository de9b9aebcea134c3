------------------------------ MODULE FilesJob ------------------------------
(***************************************************************************)
(* The file manager's worker thread (alpine/aports/fplinux-files/           *)
(* files-job.c) under the user interface that starts it, waits for it,      *)
(* cancels it and closes over it (fplinux-files.c, and the wait of          *)
(* lib/fplinux/fplinux-ui-screen.c).                                       *)
(*                                                                         *)
(* One action is one callback of the UI loop or one step of the worker;     *)
(* collect() is two, because the worker may finish between its drain of    *)
(* the pipe and its look at the status.  What a file operation does is     *)
(* FilesOperation; here it ends with an error or without, published or not. *)
(***************************************************************************)
EXTENDS Naturals

CONSTANT PipeCapacity    \* bytes the notification pipe holds

ASSUME PipeAssumption == PipeCapacity \in Nat \ {0}

VARIABLES
    \* struct fplinux_files_job and its thread
    job, thread, pipe,
    \* where the UI thread is: "loop", in collect(), in job_close(), gone
    ui,
    \* struct files_app
    app,
    \* the UI's wait, and the screens that matter
    wait, outcome, cancellable, question, decision,
    \* a storage request is outstanding; the close request of the manager
    storage, close

screens == <<wait, outcome, cancellable, question, decision>>
jobVars == <<job, thread, pipe, ui, app, screens, storage, close>>

Idle == [active |-> FALSE, reading |-> FALSE, cancelled |-> FALSE, done |-> FALSE,
         error |-> "none", operation |-> FALSE, published |-> FALSE]

JobInit ==
    /\ job = Idle /\ thread = "none" /\ pipe = 0
    /\ ui = "loop"
    /\ app = [reading |-> FALSE, pending |-> FALSE, card |-> FALSE, target |-> "PLAIN",
              waiting |-> FALSE, closing |-> FALSE, stop_and_close |-> FALSE,
              read_storage |-> FALSE, storage_wait |-> FALSE]
    /\ wait = "none" /\ outcome = "none" /\ cancellable = FALSE
    /\ question = FALSE /\ decision = FALSE
    /\ storage = FALSE /\ close = "none"

-----------------------------------------------------------------------------
(* The worker: run(), progress() and notify() *)

\* A byte is dropped when the nonblocking pipe is full.
Notified == IF pipe < PipeCapacity THEN pipe + 1 ELSE pipe

Progress ==
    /\ thread = "running" /\ ~job.reading
    /\ pipe' = Notified
    /\ UNCHANGED <<job, thread, ui, app, screens, storage, close>>

\* The error of the reading or of the operation, under the lock.
Finish ==
    /\ thread = "running"
    /\ \E e \in {"none", "EIO"} \cup (IF job.cancelled THEN {"ECANCELED"} ELSE {}) :
       \E p \in BOOLEAN :
           /\ p \/ e # "none" \/ job.reading
           /\ p => ~job.reading
           /\ job.published /\ ~job.reading => p    \* a retry
           /\ job' = [job EXCEPT !.done = TRUE, !.error = e, !.published = p,
                                 !.operation = ~job.reading]
    /\ thread' = "done"
    /\ UNCHANGED <<pipe, ui, app, screens, storage, close>>

NotifySilent ==
    /\ thread = "done" /\ thread' = "exited"
    /\ UNCHANGED <<job, pipe, ui, app, screens, storage, close>>

Notify ==
    /\ thread = "done"
    /\ thread' = "exited" /\ pipe' = Notified
    /\ UNCHANGED <<job, ui, app, screens, storage, close>>

-----------------------------------------------------------------------------
(* Calls of the UI thread *)

\* fplinux_files_job_reset, and start() of a reading, an operation or a retry.
Reset(j) == [j EXCEPT !.operation = FALSE, !.published = FALSE]
StartedStale(j, reading) ==
    [j EXCEPT !.active = TRUE, !.reading = reading, !.done = FALSE, !.error = "none"]
Started(j, reading) ==
    [j EXCEPT !.active = TRUE, !.reading = reading, !.cancelled = FALSE,
              !.done = FALSE, !.error = "none"]

BeginWait(c) ==
    /\ wait = "none"
    /\ wait' = "on" /\ outcome' = "none" /\ cancellable' = c

\* begin_wait, then the job refuses: the wait ends at once.
BeginFailed ==
    /\ wait = "none"
    /\ wait' = "ending" /\ outcome' = "error" /\ cancellable' = FALSE
    /\ app' = [app EXCEPT !.waiting = TRUE]
    /\ UNCHANGED <<job, thread>>

\* end_wait: the UI shows the outcome later, unless there is no wait to end.
EndWait(a, o) ==
    IF wait = "on"
    THEN wait' = "ending" /\ outcome' = o /\ cancellable' = FALSE /\ app' = a
    ELSE app' = [a EXCEPT !.waiting = FALSE] /\ UNCHANGED <<wait, outcome, cancellable>>

\* request_storage: at most one is outstanding, and sending may fail.
RequestStorage == storage' \in {storage, TRUE}

\* read_folder, when the job takes it.
ReadFolder(a, j, target, card) ==
    /\ job' = Started(Reset(j), TRUE)
    /\ thread' = "running"
    /\ app' = [a EXCEPT !.pending = TRUE, !.target = target, !.reading = TRUE,
                        !.card = card]

\* The user can reach a command: no wait, no question, not about to exit.
Free == ui = "loop" /\ wait = "none" /\ ~question /\ close # "ready"

OpenFolder ==
    /\ Free /\ ~decision
    /\ \/ /\ BeginWait(TRUE)
          /\ \E card \in BOOLEAN :
                 ReadFolder([app EXCEPT !.waiting = TRUE], job, "PLAIN", card)
       \/ BeginFailed
    /\ UNCHANGED <<pipe, ui, question, decision, storage, close>>

StartMutation ==
    /\ Free /\ ~decision
    /\ \/ /\ BeginWait(TRUE)
          /\ job' = Started(Reset(job), FALSE) /\ thread' = "running"
          /\ app' = [app EXCEPT !.waiting = TRUE, !.reading = FALSE]
       \/ BeginFailed
    /\ UNCHANGED <<pipe, ui, question, decision, storage, close>>

\* change_volume: connect or eject a card.
ChangeVolume ==
    /\ Free /\ ~decision /\ ~storage
    /\ storage' = TRUE
    /\ BeginWait(FALSE)
    /\ app' = [app EXCEPT !.waiting = TRUE, !.storage_wait = TRUE]
    /\ UNCHANGED <<job, thread, pipe, ui, question, decision, close>>

\* operation_error_command: retry what is published, or give up.
AnswerError ==
    /\ Free /\ decision
    /\ decision' = FALSE
    /\ \/ /\ job.operation /\ job.published
          /\ BeginWait(TRUE)
          /\ job' = Started(job, FALSE) /\ thread' = "running"
          /\ app' = [app EXCEPT !.waiting = TRUE, !.reading = FALSE]
       \/ job.operation /\ job.published /\ BeginFailed
       \/ job' = Reset(job) /\ UNCHANGED <<thread, app, wait, outcome, cancellable>>
    /\ UNCHANGED <<pipe, ui, question, storage, close>>

\* cancel_work, once per wait.
CancelWork ==
    /\ ui = "loop" /\ wait = "on" /\ cancellable /\ ~question
    /\ cancellable' = FALSE
    /\ job' = [job EXCEPT !.cancelled = @ \/ ~(app.reading /\ app.target = "CHANGED")]
    /\ UNCHANGED <<thread, pipe, ui, app, wait, outcome, question, decision, storage, close>>

-----------------------------------------------------------------------------
(* job_event: fplinux_files_job_collect and what follows *)

Drain ==
    /\ ui = "loop" /\ pipe > 0
    /\ pipe' = 0 /\ ui' = "collecting"
    /\ UNCHANGED <<job, thread, app, screens, storage, close>>

ReadFinished(a) ==
    /\ UNCHANGED <<thread, decision>>
    /\ IF job.error = "none"
       THEN job' = [job EXCEPT !.active = FALSE] /\ EndWait(a, "folder") /\ UNCHANGED storage
       ELSE LET failed == [a EXCEPT !.pending = FALSE] IN
            /\ job' = Reset([job EXCEPT !.active = FALSE])
            /\ \/ /\ a.card /\ job.error # "ECANCELED" /\ storage' = TRUE
                  /\ app' = [failed EXCEPT !.read_storage = TRUE]
                  /\ UNCHANGED <<wait, outcome, cancellable>>
               \/ /\ a.card /\ job.error # "ECANCELED" /\ ~storage /\ UNCHANGED storage
                  /\ EndWait(failed, "error")
               \/ /\ ~a.card /\ job.error # "ECANCELED" /\ RequestStorage
                  /\ EndWait(failed, "error")
               \/ /\ job.error = "ECANCELED" /\ UNCHANGED storage
                  /\ EndWait(failed, "error")

\* A completed change goes on to read the changed folder in the same wait.
MutationFinished ==
    LET ended == [job EXCEPT !.active = FALSE]
        stopped == job.error = "ECANCELED" /\ ~job.published IN
    /\ UNCHANGED decision
    /\ \/ /\ job.error # "none"
          /\ job' = ended /\ UNCHANGED thread
          /\ EndWait(app, IF stopped THEN "cancelled" ELSE "failed")
          /\ IF stopped THEN UNCHANGED storage ELSE RequestStorage
       \/ /\ job.error = "none"
          /\ \E card \in BOOLEAN : ReadFolder(app, ended, "CHANGED", card)
          /\ UNCHANGED <<wait, outcome, cancellable, storage>>
       \/ /\ job.error = "none"    \* read_folder fails
          /\ job' = ended /\ UNCHANGED <<thread, storage>>
          /\ EndWait([app EXCEPT !.target = "CHANGED"], "error")

\* The status, and the join once it says done.
Collected ==
    IF job.active /\ job.done
    THEN /\ thread = "exited"    \* pthread_join
         /\ IF app.stop_and_close
            THEN /\ job' = [job EXCEPT !.active = FALSE]
                 /\ EndWait([app EXCEPT !.closing = FALSE], "none")
                 /\ close' = (IF close = "asked" THEN "ready" ELSE close)
                 /\ UNCHANGED <<thread, decision, storage>>
            ELSE /\ IF app.reading
                    THEN ReadFinished([app EXCEPT !.reading = FALSE])
                    ELSE MutationFinished
                 /\ UNCHANGED close
    ELSE UNCHANGED <<job, thread, app, wait, outcome, cancellable, decision, storage, close>>

Collect ==
    /\ ui = "collecting"
    /\ ui' = "loop"
    /\ Collected
    /\ UNCHANGED <<pipe, question>>

\* wait_step: the outcome appears once no screen is above the wait's.
ShowOutcome ==
    /\ ui = "loop" /\ wait = "ending" /\ ~question
    /\ wait' = "none" /\ outcome' = "none" /\ UNCHANGED cancellable
    /\ app' = [app EXCEPT !.waiting = FALSE, !.pending = @ /\ outcome # "folder"]
    /\ decision' = (outcome = "failed")
    /\ job' = (IF outcome = "cancelled" THEN Reset(job) ELSE job)
    /\ UNCHANGED <<thread, pipe, ui, question, storage, close>>

StorageResultVolume ==
    /\ ui = "loop" /\ storage
    /\ storage' = FALSE
    /\ IF app.storage_wait
       THEN EndWait([app EXCEPT !.storage_wait = FALSE], "volume")
       ELSE UNCHANGED <<app, wait, outcome, cancellable>>
    /\ UNCHANGED <<job, thread, pipe, ui, question, decision, close>>

\* The session answers: storage_result.
StorageResult ==
    /\ ui = "loop" /\ storage
    /\ storage' = FALSE
    /\ \/ /\ app.read_storage
          /\ EndWait([app EXCEPT !.read_storage = FALSE], "error")
       \/ /\ ~app.read_storage /\ app.storage_wait
          /\ EndWait([app EXCEPT !.storage_wait = FALSE], "volume")
       \/ /\ ~app.read_storage /\ ~app.storage_wait
          /\ UNCHANGED <<app, wait, outcome, cancellable>>
    /\ UNCHANGED <<job, thread, pipe, ui, question, decision, close>>

\* An activation refreshes the volumes.
Activate ==
    /\ ui = "loop" /\ ~storage
    /\ storage' = TRUE
    /\ UNCHANGED <<job, thread, pipe, ui, app, screens, close>>

-----------------------------------------------------------------------------
(* Closing *)

\* prepare_close: the manager asks, perhaps again.
PrepareClose ==
    /\ ui = "loop" /\ close # "ready"
    /\ \/ /\ ~job.active \/ app.reading
          /\ close' = "ready" /\ UNCHANGED <<app, question>>
       \/ /\ job.active /\ ~app.reading /\ app.closing
          /\ close' = "asked" /\ UNCHANGED <<app, question>>
       \/ /\ job.active /\ ~app.reading /\ ~app.closing
          /\ \/ close' = "none" /\ UNCHANGED <<app, question>>
             \/ /\ close' = "asked" /\ question' = TRUE
                /\ app' = [app EXCEPT !.closing = TRUE]
    /\ UNCHANGED <<job, thread, pipe, ui, wait, outcome, cancellable, decision, storage>>

\* fplinux_ui_close_reply is refused unless WAIT was the last answer.
Reply(response) == IF close = "asked" THEN response ELSE close

\* close_command: stop and close, or continue.
CloseCommand ==
    /\ ui = "loop" /\ question
    /\ question' = FALSE
    /\ \/ /\ job.active
          /\ app' = [app EXCEPT !.stop_and_close = TRUE]
          /\ job' = [job EXCEPT !.cancelled = TRUE] /\ UNCHANGED close
       \/ /\ ~job.active
          /\ app' = [app EXCEPT !.closing = FALSE]
          /\ close' = Reply("ready") /\ UNCHANGED job
       \/ /\ app' = [app EXCEPT !.closing = FALSE]
          /\ close' = Reply("none") /\ UNCHANGED job
    /\ UNCHANGED <<thread, pipe, ui, wait, outcome, cancellable, decision, storage>>

\* The CLOSE event, asked for or not, and fplinux_files_job_close.
CloseEvent ==
    /\ ui = "loop"
    /\ ui' = "closing"
    /\ job' = [job EXCEPT !.cancelled = TRUE]
    /\ UNCHANGED <<thread, pipe, app, screens, storage, close>>

JobCloseCollected ==
    /\ ui = "closing" /\ ~job.active
    /\ ui' = "gone"
    /\ UNCHANGED <<job, thread, pipe, app, screens, storage, close>>

JobClose ==
    /\ ui = "closing" /\ thread \in {"none", "exited"}
    /\ ui' = "gone"
    /\ job' = Reset([job EXCEPT !.active = FALSE])
    /\ UNCHANGED <<thread, pipe, app, screens, storage, close>>

JobNext ==
    \/ Progress \/ Finish \/ Notify
    \/ OpenFolder \/ StartMutation \/ ChangeVolume \/ AnswerError \/ CancelWork
    \/ Drain \/ Collect \/ ShowOutcome \/ StorageResult \/ Activate
    \/ PrepareClose \/ CloseCommand \/ CloseEvent \/ JobClose

\* The worker and the UI loop run, operations end, the session answers
\* storage requests.  Nothing makes the user answer a question.
Fairness ==
    /\ WF_jobVars(Finish) /\ WF_jobVars(Notify)
    /\ WF_jobVars(Drain) /\ WF_jobVars(Collect) /\ WF_jobVars(ShowOutcome)
    /\ WF_jobVars(StorageResult) /\ WF_jobVars(JobClose)

JobSpec == JobInit /\ [][JobNext]_jobVars /\ Fairness

-----------------------------------------------------------------------------
(* Properties *)

JobTypeOK ==
    /\ job \in [active : BOOLEAN, reading : BOOLEAN, cancelled : BOOLEAN, done : BOOLEAN,
                error : {"none", "EIO", "ECANCELED"}, operation : BOOLEAN,
                published : BOOLEAN]
    /\ thread \in {"none", "running", "done", "exited"}
    /\ pipe \in 0 .. PipeCapacity
    /\ ui \in {"loop", "collecting", "closing", "gone"}
    /\ app \in [reading : BOOLEAN, pending : BOOLEAN, card : BOOLEAN,
                target : {"PLAIN", "CHANGED"}, waiting : BOOLEAN, closing : BOOLEAN,
                stop_and_close : BOOLEAN, read_storage : BOOLEAN, storage_wait : BOOLEAN]
    /\ wait \in {"none", "on", "ending"}
    /\ outcome \in {"none", "folder", "error", "failed", "cancelled", "volume"}
    /\ cancellable \in BOOLEAN /\ question \in BOOLEAN /\ decision \in BOOLEAN
    /\ storage \in BOOLEAN /\ close \in {"none", "asked", "ready"}

\* A worker that has ended is noticed: collect() drains the pipe before it
\* reads the status, so the last notification is never swallowed.
WakePending == job.active /\ thread = "exited" => pipe > 0 \/ ui # "loop"

\* A wait that is not ending has work, or an answer, that will end it.
WaitHasCause ==
    app.waiting /\ wait = "on" /\ ui = "loop" =>
        job.active \/ ((app.read_storage \/ app.storage_wait) /\ storage)

\* The folder being read belongs to the running job or to the outcome that
\* will show it: it is neither freed twice, nor lost, nor overwritten.
PendingOwned ==
    app.pending /\ ~app.stop_and_close =>
        \/ job.active /\ job.reading /\ wait = "on"
        \/ wait = "ending" /\ outcome = "folder"
        \/ ui \in {"closing", "gone"}

\* Reading the folder that shows a completed change is not cancelled, by a
\* late key nor by a cancellation meant for the change (cancel_work, start),
\* unless Files closes.
ChangeShown ==
    job.active /\ job.reading /\ app.target = "CHANGED" /\ job.cancelled =>
        app.stop_and_close \/ ui \in {"closing", "gone"}

\* A close request answered WAIT is still on its way to an answer: the
\* question is open, or the work that was told to stop has not ended.
AskedAnswered ==
    close = "asked" =>
        question \/ (app.stop_and_close /\ job.active) \/ ui \in {"closing", "gone"}

\* The job, the folder it reads, the wait and a close request are accounted for
\* in every state of the worker.
JobAccounted ==
    JobTypeOK /\ WakePending /\ WaitHasCause /\ PendingOwned /\ AskedAnswered

\* Every wait ends, unless a question stands above it.
WaitEnds == app.waiting ~> (~app.waiting \/ question \/ app.stop_and_close \/ ui = "gone")

\* A process told to close leaves.
Leaves == ui = "closing" ~> ui = "gone"
=============================================================================
