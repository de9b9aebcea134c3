--------------------------- MODULE FilesOperation ---------------------------
(***************************************************************************)
(* One retryable file operation of the file manager                        *)
(* (alpine/aports/fplinux-files/files-core.c): open, run as often as the   *)
(* user retries, close, with every system call a step that may fail, a     *)
(* power loss at any moment and other processes using the same folders.    *)
(*                                                                         *)
(* The file system is external.  `seen' is what the running system sees    *)
(* under each name, `disk' what a power loss would leave.  A device writes *)
(* its metadata back in order, so that its part of `disk' is always an     *)
(* earlier state of its part of `seen'; fsync of a folder brings it up to  *)
(* date.  File data are written back separately, in chunks.                *)
(***************************************************************************)
EXTENDS Naturals

CONSTANTS
    Chunks,    \* the file's size in buffers of copy_open_file
    MaxRuns    \* bound: calls of fplinux_files_operation_run

ASSUME ChunksAssumption == Chunks \in Nat \ {0} /\ MaxRuns \in Nat

Actions == {"MKDIR", "RENAME", "REMOVE", "COPY", "MOVE"}
Names == {"source", "destination", "temporary"}
\* "original" is the source, "new" what the operation creates, "rival" and
\* "replacement" what other processes put at the destination and the source.
NoFile == "none"
Files == {"original", "new", "rival", "replacement"}

VARIABLES
    \* struct fplinux_files_operation
    action, step, state, source_state, error, cross_device,
    identity,  \* source_metadata: the file it was taken from
    \* the call in progress, and the user's cancel flag
    pc, cancel, runs,
    \* the file system
    one_device,       \* both folders are on one device
    seen, disk,
    written, synced,  \* chunks of "new" written and durable
    others            \* ghost: what other processes and failures did

operation == <<action, step, state, source_state, error, cross_device, identity>>
files == <<seen, disk, written, synced>>
vars == <<operation, pc, cancel, runs, one_device, files, others>>

Init ==
    /\ action \in Actions
    /\ step = "EXECUTE" /\ state = "UNPUBLISHED" /\ source_state = "INTACT"
    /\ error = "none" /\ cross_device = FALSE /\ identity = NoFile
    /\ pc = "new" /\ cancel = FALSE /\ runs = 0
    /\ one_device \in BOOLEAN
    /\ seen = [n \in Names |-> IF n = "source" THEN "original" ELSE NoFile]
    /\ disk = seen
    /\ written = 0 /\ synced = 0
    /\ others = {}

-----------------------------------------------------------------------------
(* The file system *)

\* The names whose metadata are on the device of folder f.
Device(f) ==
    IF one_device THEN Names
    ELSE IF f = "source" THEN {"source"} ELSE {"destination", "temporary"}

Flushed(f) == [n \in Names |-> IF n \in Device(f) THEN seen[n] ELSE disk[n]]

\* The kernel writes back on its own: a device's metadata, or file data.
Writeback ==
    /\ pc # "crashed"
    /\ \/ \E f \in {"source", "destination"} :
              Flushed(f) # disk /\ disk' = Flushed(f) /\ UNCHANGED synced
       \/ synced < written /\ synced' = synced + 1 /\ UNCHANGED disk
    /\ UNCHANGED <<operation, pc, cancel, runs, one_device, seen, written, others>>

Crash ==
    /\ pc # "crashed"
    /\ pc' = "crashed"
    /\ seen' = disk /\ written' = synced
    /\ UNCHANGED <<operation, cancel, runs, one_device, disk, synced, others>>

\* Another process creates the destination.
OtherCreates ==
    /\ pc # "crashed"
    /\ seen["destination"] = NoFile /\ "rival" \notin others
    /\ seen' = [seen EXCEPT !["destination"] = "rival"]
    /\ others' = others \cup {"rival"}
    /\ UNCHANGED <<operation, pc, cancel, runs, one_device, disk, written, synced>>

\* Another process replaces the source by a file of its own, perhaps
\* between the identity check and the unlink ("raced").
OtherReplaces ==
    /\ pc # "crashed"
    /\ seen["source"] = "original"
    /\ seen' = [seen EXCEPT !["source"] = "replacement"]
    /\ others' = others \cup {"replacement"}
                        \cup (IF pc = "unlink_source" THEN {"raced"} ELSE {})
    /\ UNCHANGED <<operation, pc, cancel, runs, one_device, disk, written, synced>>

-----------------------------------------------------------------------------
(* fplinux_files_operation_open and _run *)

\* goto failed: the result of run, which a retry may follow.
Fail(e) == pc' = "idle" /\ error' = e
\* goto failed inside copy_open_file, which removes its temporary file.
Abandon(e) == pc' = "cleanup" /\ error' = e

Open ==
    /\ pc = "new"
    /\ \/ pc' = "idle" /\ UNCHANGED error
       \/ pc' = "closed" /\ error' = "EIO"
    /\ UNCHANGED <<action, step, state, source_state, cross_device, identity,
                   cancel, runs, one_device, files, others>>

\* A first run, or a retry (fplinux_files_job_retry) of what is published.
Run ==
    /\ pc = "idle" /\ runs < MaxRuns
    /\ \/ step = "EXECUTE" /\ runs = 0 /\ pc' = "execute"
       \/ step = "SYNC_DESTINATION" /\ pc' = "sync_destination"
       \/ step = "UNLINK_SOURCE" /\ pc' = "check_source"
       \/ step = "SYNC_SOURCE" /\ pc' = "sync_source"
    /\ runs' = runs + 1
    /\ error' = "none" /\ cancel' = FALSE
    /\ UNCHANGED <<action, step, state, source_state, cross_device, identity,
                   one_device, files, others>>

Cancel ==
    /\ pc \notin {"new", "idle", "closed", "crashed"} /\ ~cancel
    /\ cancel' = TRUE
    /\ UNCHANGED <<operation, pc, runs, one_device, files, others>>

Close ==
    /\ pc = "idle"
    /\ pc' = "closed"
    /\ UNCHANGED <<operation, cancel, runs, one_device, files, others>>

\* The end of execute_operation: the change is visible.
Published ==
    /\ state' = "PUBLISHED_UNSYNCED"
    /\ IF action = "REMOVE"
       THEN step' = "SYNC_SOURCE" /\ pc' = "sync_source"
       ELSE step' = "SYNC_DESTINATION" /\ pc' = "sync_destination"
    /\ UNCHANGED error

Execute ==
    /\ pc = "execute"
    /\ \/ /\ cancel /\ Fail("ECANCELED")
          /\ UNCHANGED <<step, state, source_state, cross_device, seen>>
       \/ /\ Fail("EIO")
          /\ UNCHANGED <<step, state, source_state, cross_device, seen>>
       \/ /\ ~cancel /\ action \in {"MKDIR", "RENAME", "MOVE"}
          /\ seen["destination"] # NoFile /\ Fail("EEXIST")
          /\ UNCHANGED <<step, state, source_state, cross_device, seen>>
       \/ /\ ~cancel /\ action = "MKDIR" /\ seen["destination"] = NoFile
          /\ seen' = [seen EXCEPT !["destination"] = "new"]
          /\ Published /\ UNCHANGED <<source_state, cross_device>>
       \/ /\ ~cancel /\ action = "REMOVE"
          /\ seen' = [seen EXCEPT !["source"] = NoFile]
          /\ source_state' = "REMOVED_UNSYNCED"
          /\ Published /\ UNCHANGED cross_device
       \/ /\ ~cancel /\ action \in {"RENAME", "MOVE"} /\ one_device
          /\ seen["destination"] = NoFile
          /\ seen' = [seen EXCEPT !["destination"] = seen["source"], !["source"] = NoFile]
          /\ source_state' = "REMOVED_UNSYNCED"
          /\ Published /\ UNCHANGED cross_device
       \/ /\ ~cancel /\ action = "RENAME" /\ ~one_device /\ Fail("EXDEV")
          /\ UNCHANGED <<step, state, source_state, cross_device, seen>>
       \/ /\ ~cancel /\ pc' = "open_input"
          /\ \/ action = "COPY" /\ UNCHANGED cross_device
             \/ action = "MOVE" /\ ~one_device /\ cross_device' = TRUE
          /\ UNCHANGED <<step, state, source_state, error, seen>>
    /\ UNCHANGED <<action, identity, cancel, runs, one_device, disk, written, synced, others>>

\* open_regular_file: the identity is that of the file really opened.
OpenInput ==
    /\ pc = "open_input"
    /\ \/ Fail("EIO") /\ UNCHANGED identity
       \/ pc' = "create" /\ identity' = seen["source"] /\ UNCHANGED error
    /\ UNCHANGED <<action, step, state, source_state, cross_device,
                   cancel, runs, one_device, files, others>>

\* copy_open_file up to its loop.
CreateTemporary ==
    /\ pc = "create"
    /\ \/ /\ \/ cancel /\ Fail("ECANCELED")
             \/ ~cancel /\ seen["destination"] # NoFile /\ Fail("EEXIST")
             \/ Fail("EIO")
          /\ UNCHANGED seen
       \/ /\ ~cancel /\ seen["destination"] = NoFile
          /\ seen' = [seen EXCEPT !["temporary"] = "new"]
          /\ pc' = "copying" /\ UNCHANGED error
    /\ UNCHANGED <<action, step, state, source_state, cross_device, identity,
                   cancel, runs, one_device, disk, written, synced, others>>

\* One turn of the loop.
CopyChunk ==
    /\ pc = "copying"
    /\ \/ cancel /\ Abandon("ECANCELED") /\ UNCHANGED written
       \/ Abandon("EIO") /\ UNCHANGED written
       \/ ~cancel /\ written < Chunks /\ written' = written + 1 /\ UNCHANGED <<pc, error>>
       \/ ~cancel /\ written = Chunks /\ pc' = "flush" /\ UNCHANGED <<written, error>>
    /\ UNCHANGED <<action, step, state, source_state, cross_device, identity,
                   cancel, runs, one_device, seen, disk, synced, others>>

FlushDataForgotten ==
    /\ pc = "flush" /\ pc' = "publish"
    /\ UNCHANGED <<operation, cancel, runs, one_device, files, others>>

\* fsync and close of the temporary file.
FlushData ==
    /\ pc = "flush"
    /\ \/ cancel /\ Abandon("ECANCELED") /\ UNCHANGED synced
       \/ Abandon("EIO") /\ UNCHANGED synced
       \/ synced' = written /\ pc' = "publish" /\ UNCHANGED error
    /\ UNCHANGED <<action, step, state, source_state, cross_device, identity,
                   cancel, runs, one_device, seen, disk, written, others>>

\* rename_no_replace of the temporary file onto the destination.
PublishOver ==
    /\ pc = "publish" /\ ~cancel
    /\ seen' = [seen EXCEPT !["destination"] = "new", !["temporary"] = NoFile]
    /\ Published
    /\ UNCHANGED <<action, source_state, cross_device, identity,
                   cancel, runs, one_device, disk, written, synced, others>>

Publish ==
    /\ pc = "publish"
    /\ \/ /\ \/ cancel /\ Abandon("ECANCELED")
             \/ ~cancel /\ seen["destination"] # NoFile /\ Abandon("EEXIST")
             \/ Abandon("EIO")
          /\ UNCHANGED <<step, state, seen>>
       \/ /\ ~cancel /\ seen["destination"] = NoFile
          /\ seen' = [seen EXCEPT !["destination"] = "new", !["temporary"] = NoFile]
          /\ Published
    /\ UNCHANGED <<action, source_state, cross_device, identity,
                   cancel, runs, one_device, disk, written, synced, others>>

\* remove_created_file, whose own failure nobody reports.
CleanupNone ==
    /\ pc = "cleanup" /\ pc' = "idle"
    /\ UNCHANGED <<operation, cancel, runs, one_device, files, others>>

Cleanup ==
    /\ pc = "cleanup"
    /\ pc' = "idle"
    /\ \/ seen' = [seen EXCEPT !["temporary"] = NoFile] /\ UNCHANGED others
       \/ others' = others \cup {"leaked"} /\ UNCHANGED seen
    /\ UNCHANGED <<operation, cancel, runs, one_device, disk, written, synced>>

AfterDestination ==
    IF cross_device
    THEN step' = "UNLINK_SOURCE" /\ pc' = "check_source"
    ELSE IF action \in {"MOVE", "RENAME"}
    THEN step' = "SYNC_SOURCE" /\ pc' = "sync_source"
    ELSE step' = "DONE" /\ pc' = "idle"

SyncDestinationLate ==
    /\ pc = "sync_destination"
    /\ state' = "DURABLE" /\ AfterDestination
    /\ UNCHANGED <<action, source_state, error, cross_device, identity,
                   cancel, runs, one_device, files, others>>

SyncDestination ==
    /\ pc = "sync_destination"
    /\ \/ Fail("EIO") /\ UNCHANGED <<step, state, disk>>
       \/ /\ disk' = Flushed("destination")
          /\ state' = "DURABLE"
          /\ AfterDestination
          /\ UNCHANGED error
    /\ UNCHANGED <<action, source_state, cross_device, identity,
                   cancel, runs, one_device, seen, written, synced, others>>

\* The source may have been replaced since the copy was made.
CheckSource ==
    /\ pc = "check_source"
    /\ \/ cancel /\ Fail("ECANCELED")
       \/ Fail("EIO")
       \/ ~cancel /\ seen["source"] # identity /\ Fail("ESTALE")
       \/ ~cancel /\ seen["source"] = identity /\ pc' = "unlink_source" /\ UNCHANGED error
    /\ UNCHANGED <<action, step, state, source_state, cross_device, identity,
                   cancel, runs, one_device, files, others>>

UnlinkSource ==
    /\ pc = "unlink_source"
    /\ \/ Fail("EIO") /\ UNCHANGED <<step, source_state, seen>>
       \/ /\ seen' = [seen EXCEPT !["source"] = NoFile]
          /\ source_state' = "REMOVED_UNSYNCED"
          /\ step' = "SYNC_SOURCE" /\ pc' = "sync_source" /\ UNCHANGED error
    /\ UNCHANGED <<action, state, cross_device, identity,
                   cancel, runs, one_device, disk, written, synced, others>>

SyncSource ==
    /\ pc = "sync_source"
    /\ \/ Fail("EIO") /\ UNCHANGED <<step, state, source_state, disk>>
       \/ /\ disk' = Flushed("source")
          /\ source_state' = "REMOVED_DURABLE" /\ state' = "DURABLE"
          /\ step' = "DONE" /\ pc' = "idle" /\ UNCHANGED error
    /\ UNCHANGED <<action, cross_device, identity,
                   cancel, runs, one_device, seen, written, synced, others>>

Next ==
    \/ Open \/ Run \/ Cancel \/ Close
    \/ Execute \/ OpenInput \/ CreateTemporary \/ CopyChunk \/ FlushData
    \/ Publish \/ Cleanup \/ SyncDestination \/ CheckSource
    \/ UnlinkSource \/ SyncSource
    \/ Writeback \/ Crash \/ OtherCreates \/ OtherReplaces

Spec == Init /\ [][Next]_vars

-----------------------------------------------------------------------------
(* Properties *)

Places == {n \in {"source", "destination"} :
    \/ disk[n] \in {"original", "replacement"}
    \/ disk[n] = "new" /\ synced = Chunks}

TypeOK ==
    /\ action \in Actions
    /\ step \in {"EXECUTE", "SYNC_DESTINATION", "UNLINK_SOURCE", "SYNC_SOURCE", "DONE"}
    /\ state \in {"UNPUBLISHED", "PUBLISHED_UNSYNCED", "DURABLE"}
    /\ source_state \in {"INTACT", "REMOVED_UNSYNCED", "REMOVED_DURABLE"}
    /\ error \in {"none", "EIO", "EEXIST", "EXDEV", "ESTALE", "ECANCELED"}
    /\ cross_device \in BOOLEAN /\ cancel \in BOOLEAN /\ one_device \in BOOLEAN
    /\ identity \in {NoFile, "original", "replacement"}
    /\ pc \in {"new", "idle", "closed", "crashed", "execute", "open_input", "create",
               "copying", "flush", "publish", "cleanup", "sync_destination",
               "check_source", "unlink_source", "sync_source"}
    /\ runs \in 0 .. MaxRuns
    /\ seen \in [Names -> Files \cup {NoFile}] /\ disk \in [Names -> Files \cup {NoFile}]
    /\ written \in 0 .. Chunks /\ synced \in 0 .. written
    /\ others \subseteq {"rival", "replacement", "raced", "leaked"}

\* What a power loss leaves behind follows FileTransfer: run() syncs the copy's
\* data, publishes it, syncs its folder and only then unlinks the source.
Transfer == INSTANCE FileTransfer WITH Kinds <- Actions, kind <- action, places <- Places
TransferSpec == Transfer!Spec

\* "No destination is replaced" (files-core.h): renameat2 with
\* RENAME_NOREPLACE, mkdirat and O_EXCL never take a name from another file.
NoReplace ==
    [][pc' # "crashed" /\ seen["destination"] # NoFile
        => seen'["destination"] = seen["destination"]]_vars

\* The destination's name never outlives a power loss with part of the data:
\* copy_open_file syncs the temporary file before it renames it.
NeverPartial == disk["destination"] = "new" /\ action # "MKDIR" => synced = Chunks

\* What the result calls durable is: a power loss keeps the destination once
\* state is DURABLE, and does not bring the source back once source_state is
\* REMOVED_DURABLE.
Truthful ==
    /\ state = "DURABLE" /\ action # "REMOVE" =>
           disk["destination"] \in {"new", "original", "replacement"}
    /\ source_state = "REMOVED_DURABLE" => disk["source"] = NoFile

\* A run that reports ECANCELED has left the source where it was.
CancelKeeps ==
    error = "ECANCELED" /\ pc # "crashed" =>
        source_state = "INTACT" /\ seen["source"] # NoFile

\* A file another process put at the source is never deleted, unless it came
\* between the identity check and the unlink (fstatat, then unlinkat).
ReplacementKept ==
    "replacement" \in others /\ "raced" \notin others
            /\ action # "REMOVE" /\ pc # "crashed" =>
        \/ \E n \in Names : seen[n] = "replacement"
        \/ identity = "replacement" /\ seen["destination"] = "new"

\* No run leaves its temporary file, unless removing it failed.
NoDebris ==
    pc \in {"idle", "closed"} /\ seen["temporary"] # NoFile => "leaked" \in others

\* What a power loss finds is whole and is what the result says.
Durable == TypeOK /\ NeverPartial /\ Truthful

\* Failures and cancellations cost nobody a file and leave none behind.
NothingLost == CancelKeeps /\ ReplacementKept /\ NoDebris
=============================================================================
