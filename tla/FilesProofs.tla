---------------------------- MODULE FilesProofs -----------------------------
(***************************************************************************)
(* The file manager.  For every size of file and every number of retries: a *)
(* file operation implements FileTransfer, what it reports about a power    *)
(* loss is true, and failures, cancellations and other processes cost       *)
(* nobody a file.  For a notification pipe of every size: the worker's end  *)
(* is noticed, a wait has what ends it, the folder being read has one       *)
(* owner, a close request has an answer coming, and the reading that shows  *)
(* a completed change is not cancelled.                                     *)
(***************************************************************************)
EXTENDS FilesOperation, FilesJob, TLAPS

(* File operations: FilesOperation. *)

Whole == {"original", "replacement"}
Live == pc # "crashed"
Copying == {"open_input", "create", "copying", "flush", "publish", "cleanup"}

\* Where the operation is.
StepInv ==
    /\ pc \in Copying \cup {"new", "execute"} => step = "EXECUTE"
    /\ pc \in Copying => action = "COPY" \/ cross_device
    /\ cross_device => action = "MOVE" /\ ~one_device
    /\ pc = "sync_destination" => step = "SYNC_DESTINATION"
    /\ pc \in {"check_source", "unlink_source"} => step = "UNLINK_SOURCE"
    /\ pc = "sync_source" => step = "SYNC_SOURCE"
    /\ pc = "flush" => written = Chunks
    /\ pc = "publish" => synced = Chunks
    /\ error # "none" => pc \in {"idle", "cleanup", "closed", "crashed"}

\* What each step has done.
DoneInv ==
    /\ Live => (source_state = "INTACT" <=> seen["source"] # NoFile)
    /\ step = "EXECUTE" /\ Live =>
           seen["source"] # NoFile /\ seen["destination"] \in {NoFile, "rival"}
    /\ step = "SYNC_DESTINATION" /\ Live =>
           /\ action # "REMOVE" /\ seen["destination"] \in Whole \cup {"new"}
           /\ cross_device => seen["destination"] = "new" /\ seen["source"] # NoFile
           /\ action \in {"MOVE", "RENAME"} /\ ~cross_device => seen["source"] = NoFile
    /\ step = "UNLINK_SOURCE" =>
           /\ cross_device /\ state = "DURABLE" /\ disk["destination"] = "new"
           /\ Live => seen["source"] # NoFile
    /\ step = "SYNC_SOURCE" /\ Live =>
           seen["source"] = NoFile /\ (action # "REMOVE" => state = "DURABLE")

\* What each file system may hold: fs is seen or disk.
Held(fs) ==
    /\ fs["source"] \in Whole \cup {NoFile}
    /\ fs["destination"] \in Whole =>
           one_device /\ action \in {"MOVE", "RENAME"} /\ fs["source"] = NoFile
    /\ fs["destination"] = "new" =>
           \/ action = "MKDIR"
           \/ (action = "COPY" \/ (action = "MOVE" /\ ~one_device)) /\ synced = Chunks
    /\ fs["source"] = NoFile =>
           \/ action = "REMOVE"
           \/ one_device /\ action \in {"MOVE", "RENAME"} /\ fs["destination"] \in Whole
           \/ ~one_device /\ action = "MOVE" /\ disk["destination"] = "new"

DiskInv ==
    /\ Held(seen) /\ Held(disk)
    /\ disk["destination"] # NoFile => seen["destination"] = disk["destination"]
    /\ disk["source"] = NoFile => seen["source"] = NoFile
    /\ action = "MKDIR" => written = 0

\* What the result calls durable.
DurableInv ==
    /\ state = "DURABLE" /\ action # "REMOVE" => disk["destination"] \in Whole \cup {"new"}
    /\ source_state = "REMOVED_DURABLE" => disk["source"] = NoFile

OthersInv ==
    /\ seen["temporary"] \in {NoFile, "new"} /\ disk["temporary"] \in {NoFile, "new"}
    /\ Live /\ "replacement" \in others => seen["source"] # "original"
    /\ pc = "unlink_source" /\ "raced" \notin others => seen["source"] = identity
    /\ Live /\ seen["temporary"] # NoFile =>
           "leaked" \in others \/ pc \in {"copying", "flush", "publish", "cleanup"}

Inv == TypeOK /\ StepInv /\ DoneInv /\ DiskInv /\ DurableInv /\ OthersInv

-----------------------------------------------------------------------------
(* The invariant.                                                          *)

\* The state before the operation is opened.
LEMMA InvInit == Init => Inv /\ NothingLost
  <1> USE ChunksAssumption
      DEF ChunksAssumption, Init, NoFile, Files, Names, Actions, Copying, Whole, Live
  <1>1. Init => TypeOK
    <2> SUFFICES ASSUME Init PROVE TypeOK
      OBVIOUS
    <2>1. cross_device \in BOOLEAN /\ cancel \in BOOLEAN /\ one_device \in BOOLEAN
      BY Zenon
    <2>2. seen \in [Names -> Files \cup {NoFile}] /\ disk \in [Names -> Files \cup {NoFile}]
      OBVIOUS
    <2> QED
      BY <2>1, <2>2 DEF TypeOK
  <1>2. Init => StepInv /\ DoneInv
    BY DEF StepInv, DoneInv
  <1>3. Init => DiskInv
    BY DEF DiskInv, Held
  <1>4. Init => DurableInv /\ OthersInv
    BY DEF DurableInv, OthersInv
  <1>5. Init => NothingLost
    BY DEF NothingLost, CancelKeeps, ReplacementKept, NoDebris
  <1> QED
    BY <1>1, <1>2, <1>3, <1>4, <1>5 DEF Inv

\* Every step keeps the types.
LEMMA TypeNext ==
  ASSUME TypeOK, StepInv, DiskInv, [Next]_vars
  PROVE  TypeOK'
  <1> USE ChunksAssumption DEF ChunksAssumption, TypeOK, StepInv, NoFile, Files, Names
  <1>s. CASE UNCHANGED vars
    BY <1>s DEF vars, operation, files
  <1>1. CASE Open
    BY <1>1 DEF Open, files
  <1>2. CASE Run
    <2>1. runs' \in 0 .. MaxRuns
      BY <1>2 DEF Run
    <2>2. pc' \in {"execute", "sync_destination", "check_source", "sync_source"}
      BY <1>2 DEF Run
    <2> QED
      BY <1>2, <2>1, <2>2 DEF Run, files
  <1>3. CASE Cancel
    BY <1>3 DEF Cancel, operation, files
  <1>4. CASE Close
    BY <1>4 DEF Close, operation, files
  <1>5. CASE Execute
    <2>1. seen' \in [Names -> Files \cup {NoFile}]
      BY <1>5 DEF Execute
    <2>2. /\ step' \in {"EXECUTE", "SYNC_DESTINATION", "UNLINK_SOURCE", "SYNC_SOURCE", "DONE"}
          /\ state' \in {"UNPUBLISHED", "PUBLISHED_UNSYNCED", "DURABLE"}
          /\ source_state' \in {"INTACT", "REMOVED_UNSYNCED", "REMOVED_DURABLE"}
      BY <1>5 DEF Execute, Fail, Published
    <2>3. error' \in {"none", "EIO", "EEXIST", "EXDEV", "ESTALE", "ECANCELED"}
      BY <1>5 DEF Execute, Fail, Published
    <2>4. pc' \in {"idle", "open_input", "copying", "cleanup", "sync_destination", "sync_source"}
      BY <1>5 DEF Execute, Fail, Published
    <2>5. cross_device' \in BOOLEAN
      BY <1>5 DEF Execute, Fail, Published
    <2> QED
      BY <1>5, <2>1, <2>2, <2>3, <2>4, <2>5 DEF Execute
  <1>6. CASE OpenInput
    BY <1>6 DEF OpenInput, Fail, files, DiskInv, Held, Whole
  <1>7. CASE CreateTemporary
    <2>1. seen' \in [Names -> Files \cup {NoFile}]
      BY <1>7 DEF CreateTemporary
    <2>2. /\ step' \in {"EXECUTE", "SYNC_DESTINATION", "UNLINK_SOURCE", "SYNC_SOURCE", "DONE"}
          /\ state' \in {"UNPUBLISHED", "PUBLISHED_UNSYNCED", "DURABLE"}
          /\ source_state' \in {"INTACT", "REMOVED_UNSYNCED", "REMOVED_DURABLE"}
      BY <1>7 DEF CreateTemporary, Fail
    <2>3. error' \in {"none", "EIO", "EEXIST", "EXDEV", "ESTALE", "ECANCELED"}
      BY <1>7 DEF CreateTemporary, Fail
    <2>4. pc' \in {"idle", "open_input", "copying", "cleanup", "sync_destination", "sync_source"}
      BY <1>7 DEF CreateTemporary, Fail
    <2>5. cross_device' \in BOOLEAN
      BY <1>7 DEF CreateTemporary, Fail
    <2> QED
      BY <1>7, <2>1, <2>2, <2>3, <2>4, <2>5 DEF CreateTemporary
  <1>8. CASE CopyChunk
    BY <1>8 DEF CopyChunk, Abandon
  <1>9. CASE FlushData
    BY <1>9 DEF FlushData, Abandon
  <1>10. CASE Publish
    <2>1. seen' \in [Names -> Files \cup {NoFile}]
      BY <1>10 DEF Publish
    <2>2. /\ step' \in {"EXECUTE", "SYNC_DESTINATION", "UNLINK_SOURCE", "SYNC_SOURCE", "DONE"}
          /\ state' \in {"UNPUBLISHED", "PUBLISHED_UNSYNCED", "DURABLE"}
          /\ source_state' \in {"INTACT", "REMOVED_UNSYNCED", "REMOVED_DURABLE"}
      BY <1>10 DEF Publish, Abandon, Published
    <2>3. error' \in {"none", "EIO", "EEXIST", "EXDEV", "ESTALE", "ECANCELED"}
      BY <1>10 DEF Publish, Abandon, Published
    <2>4. pc' \in {"idle", "open_input", "copying", "cleanup", "sync_destination", "sync_source"}
      BY <1>10 DEF Publish, Abandon, Published
    <2>5. cross_device' \in BOOLEAN
      BY <1>10 DEF Publish, Abandon, Published
    <2> QED
      BY <1>10, <2>1, <2>2, <2>3, <2>4, <2>5 DEF Publish
  <1>11. CASE Cleanup
    <2>1. others' \subseteq {"rival", "replacement", "raced", "leaked"}
      BY <1>11 DEF Cleanup
    <2>2. seen' \in [Names -> Files \cup {NoFile}]
      BY <1>11 DEF Cleanup
    <2> QED
      BY <1>11, <2>1, <2>2 DEF Cleanup, operation
  <1>12. CASE SyncDestination
    BY <1>12 DEF SyncDestination, Fail, AfterDestination, Flushed, Device
  <1>13. CASE CheckSource
    BY <1>13 DEF CheckSource, Fail, files
  <1>14. CASE UnlinkSource
    BY <1>14 DEF UnlinkSource, Fail
  <1>15. CASE SyncSource
    BY <1>15 DEF SyncSource, Fail, Flushed, Device
  <1>16. CASE Writeback
    BY <1>16 DEF Writeback, operation, Flushed, Device
  <1>17. CASE Crash
    BY <1>17 DEF Crash, operation
  <1>18. CASE OtherCreates
    BY <1>18 DEF OtherCreates, operation
  <1>19. CASE OtherReplaces
    BY <1>19 DEF OtherReplaces, operation
  <1> QED
    BY <1>s, <1>1, <1>2, <1>3, <1>4, <1>5, <1>6, <1>7, <1>8, <1>9, <1>10,
       <1>11, <1>12, <1>13, <1>14, <1>15, <1>16, <1>17, <1>18, <1>19 DEF Next

\* The place in the code agrees with the step.
LEMMA StepNext ==
  ASSUME TypeOK, StepInv, [Next]_vars
  PROVE  StepInv'
  <1> USE ChunksAssumption DEF ChunksAssumption, TypeOK, StepInv, Copying
  <1>s. CASE UNCHANGED vars
    BY <1>s DEF vars, operation, files
  <1>1. CASE Open
    BY <1>1 DEF Open, files
  <1>2. CASE Run
    BY <1>2 DEF Run, files
  <1>3. CASE Cancel
    BY <1>3 DEF Cancel, operation, files
  <1>4. CASE Close
    BY <1>4 DEF Close, operation, files
  <1>5. CASE Execute
    BY <1>5 DEF Execute, Fail, Published
  <1>6. CASE OpenInput
    BY <1>6 DEF OpenInput, Fail, files
  <1>7. CASE CreateTemporary
    BY <1>7 DEF CreateTemporary, Fail
  <1>8. CASE CopyChunk
    BY <1>8 DEF CopyChunk, Abandon
  <1>9. CASE FlushData
    BY <1>9 DEF FlushData, Abandon
  <1>10. CASE Publish
    BY <1>10 DEF Publish, Abandon, Published
  <1>11. CASE Cleanup
    BY <1>11 DEF Cleanup, operation
  <1>12. CASE SyncDestination
    BY <1>12 DEF SyncDestination, Fail, AfterDestination
  <1>13. CASE CheckSource
    BY <1>13 DEF CheckSource, Fail, files
  <1>14. CASE UnlinkSource
    BY <1>14 DEF UnlinkSource, Fail
  <1>15. CASE SyncSource
    BY <1>15 DEF SyncSource, Fail
  <1>16. CASE Writeback
    BY <1>16 DEF Writeback, operation
  <1>17. CASE Crash
    BY <1>17 DEF Crash, operation
  <1>18. CASE OtherCreates
    BY <1>18 DEF OtherCreates, operation
  <1>19. CASE OtherReplaces
    BY <1>19 DEF OtherReplaces, operation
  <1> QED
    BY <1>s, <1>1, <1>2, <1>3, <1>4, <1>5, <1>6, <1>7, <1>8, <1>9, <1>10,
       <1>11, <1>12, <1>13, <1>14, <1>15, <1>16, <1>17, <1>18, <1>19 DEF Next

\* Each step has done what the ones after it rely on.
LEMMA DoneNext ==
  ASSUME TypeOK, StepInv, DoneInv, DiskInv, [Next]_vars
  PROVE  DoneInv'
  <1> USE ChunksAssumption DEF ChunksAssumption, TypeOK, StepInv, DoneInv, Live, Copying, Whole, NoFile, Files, Names
  <1>s. CASE UNCHANGED vars
    BY <1>s DEF vars, operation, files
  <1>1. CASE Open
    BY <1>1 DEF Open, files
  <1>2. CASE Run
    BY <1>2 DEF Run, files
  <1>3. CASE Cancel
    BY <1>3 DEF Cancel, operation, files
  <1>4. CASE Close
    BY <1>4 DEF Close, operation, files
  <1>5. CASE Execute
    BY <1>5 DEF Execute, Fail, Published, DiskInv, Held
  <1>6. CASE OpenInput
    BY <1>6 DEF OpenInput, Fail, files
  <1>7. CASE CreateTemporary
    BY <1>7 DEF CreateTemporary, Fail
  <1>8. CASE CopyChunk
    BY <1>8 DEF CopyChunk, Abandon
  <1>9. CASE FlushData
    BY <1>9 DEF FlushData, Abandon
  <1>10. CASE Publish
    BY <1>10 DEF Publish, Abandon, Published
  <1>11. CASE Cleanup
    BY <1>11 DEF Cleanup, operation
  <1>12. CASE SyncDestination
    BY <1>12 DEF SyncDestination, Fail, AfterDestination, Flushed, Device
  <1>13. CASE CheckSource
    BY <1>13 DEF CheckSource, Fail, files
  <1>14. CASE UnlinkSource
    BY <1>14 DEF UnlinkSource, Fail
  <1>15. CASE SyncSource
    BY <1>15 DEF SyncSource, Fail, Flushed, Device
  <1>16. CASE Writeback
    BY <1>16 DEF Writeback, operation, Flushed, Device, DiskInv
  <1>17. CASE Crash
    BY <1>17 DEF Crash, operation
  <1>18. CASE OtherCreates
    BY <1>18 DEF OtherCreates, operation
  <1>19. CASE OtherReplaces
    BY <1>19 DEF OtherReplaces, operation
  <1> QED
    BY <1>s, <1>1, <1>2, <1>3, <1>4, <1>5, <1>6, <1>7, <1>8, <1>9, <1>10,
       <1>11, <1>12, <1>13, <1>14, <1>15, <1>16, <1>17, <1>18, <1>19 DEF Next

\* What may be seen and what may be on the disk.
LEMMA DiskNext ==
  ASSUME TypeOK, StepInv, DoneInv, DiskInv, [Next]_vars
  PROVE  DiskInv'
  <1> USE ChunksAssumption DEF ChunksAssumption, TypeOK, StepInv, DoneInv, DiskInv, Held, Live, Copying, Whole, NoFile, Files, Names
  <1>s. CASE UNCHANGED vars
    BY <1>s DEF vars, operation, files
  <1>1. CASE Open
    BY <1>1 DEF Open, files
  <1>2. CASE Run
    BY <1>2 DEF Run, files
  <1>3. CASE Cancel
    BY <1>3 DEF Cancel, operation, files
  <1>4. CASE Close
    BY <1>4 DEF Close, operation, files
  <1>5. CASE Execute
    BY <1>5 DEF Execute, Fail, Published
  <1>6. CASE OpenInput
    BY <1>6 DEF OpenInput, Fail, files
  <1>7. CASE CreateTemporary
    BY <1>7 DEF CreateTemporary, Fail
  <1>8. CASE CopyChunk
    BY <1>8 DEF CopyChunk, Abandon
  <1>9. CASE FlushData
    BY <1>9 DEF FlushData, Abandon
  <1>10. CASE Publish
    BY <1>10 DEF Publish, Abandon, Published
  <1>11. CASE Cleanup
    BY <1>11 DEF Cleanup, operation
  <1>12. CASE SyncDestination
    BY <1>12 DEF SyncDestination, Fail, AfterDestination, Flushed, Device
  <1>13. CASE CheckSource
    BY <1>13 DEF CheckSource, Fail, files
  <1>14. CASE UnlinkSource
    BY <1>14 DEF UnlinkSource, Fail
  <1>15. CASE SyncSource
    BY <1>15 DEF SyncSource, Fail, Flushed, Device
  <1>16. CASE Writeback
    BY <1>16 DEF Writeback, operation, Flushed, Device
  <1>17. CASE Crash
    BY <1>17 DEF Crash, operation
  <1>18. CASE OtherCreates
    BY <1>18 DEF OtherCreates, operation
  <1>19. CASE OtherReplaces
    BY <1>19 DEF OtherReplaces, operation
  <1> QED
    BY <1>s, <1>1, <1>2, <1>3, <1>4, <1>5, <1>6, <1>7, <1>8, <1>9, <1>10,
       <1>11, <1>12, <1>13, <1>14, <1>15, <1>16, <1>17, <1>18, <1>19 DEF Next

\* What is called durable stays so.
LEMMA DurableNext ==
  ASSUME TypeOK, StepInv, DoneInv, DiskInv, DurableInv, [Next]_vars
  PROVE  DurableInv'
  <1> USE ChunksAssumption DEF ChunksAssumption, TypeOK, StepInv, DoneInv, DiskInv, DurableInv, Live, Copying, Whole, NoFile, Files, Names
  <1>s. CASE UNCHANGED vars
    BY <1>s DEF vars, operation, files
  <1>1. CASE Open
    BY <1>1 DEF Open, files
  <1>2. CASE Run
    BY <1>2 DEF Run, files
  <1>3. CASE Cancel
    BY <1>3 DEF Cancel, operation, files
  <1>4. CASE Close
    BY <1>4 DEF Close, operation, files
  <1>5. CASE Execute
    BY <1>5 DEF Execute, Fail, Published
  <1>6. CASE OpenInput
    BY <1>6 DEF OpenInput, Fail, files
  <1>7. CASE CreateTemporary
    BY <1>7 DEF CreateTemporary, Fail
  <1>8. CASE CopyChunk
    BY <1>8 DEF CopyChunk, Abandon
  <1>9. CASE FlushData
    BY <1>9 DEF FlushData, Abandon
  <1>10. CASE Publish
    BY <1>10 DEF Publish, Abandon, Published
  <1>11. CASE Cleanup
    BY <1>11 DEF Cleanup, operation
  <1>12. CASE SyncDestination
    BY <1>12 DEF SyncDestination, Fail, AfterDestination, Flushed, Device
  <1>13. CASE CheckSource
    BY <1>13 DEF CheckSource, Fail, files
  <1>14. CASE UnlinkSource
    BY <1>14 DEF UnlinkSource, Fail
  <1>15. CASE SyncSource
    BY <1>15 DEF SyncSource, Fail, Flushed, Device
  <1>16. CASE Writeback
    BY <1>16 DEF Writeback, operation, Flushed, Device
  <1>17. CASE Crash
    BY <1>17 DEF Crash, operation
  <1>18. CASE OtherCreates
    BY <1>18 DEF OtherCreates, operation
  <1>19. CASE OtherReplaces
    BY <1>19 DEF OtherReplaces, operation
  <1> QED
    BY <1>s, <1>1, <1>2, <1>3, <1>4, <1>5, <1>6, <1>7, <1>8, <1>9, <1>10,
       <1>11, <1>12, <1>13, <1>14, <1>15, <1>16, <1>17, <1>18, <1>19 DEF Next

\* What the others did, and what is left over.
LEMMA OthersNext ==
  ASSUME TypeOK, StepInv, DoneInv, DiskInv, OthersInv, [Next]_vars
  PROVE  OthersInv'
  <1> USE ChunksAssumption DEF ChunksAssumption, TypeOK, StepInv, OthersInv, DoneInv, Live, Copying, Whole, NoFile, Files, Names
  <1>s. CASE UNCHANGED vars
    BY <1>s DEF vars, operation, files
  <1>1. CASE Open
    BY <1>1 DEF Open, files
  <1>2. CASE Run
    BY <1>2 DEF Run, files
  <1>3. CASE Cancel
    BY <1>3 DEF Cancel, operation, files
  <1>4. CASE Close
    BY <1>4 DEF Close, operation, files
  <1>5. CASE Execute
    BY <1>5 DEF Execute, Fail, Published
  <1>6. CASE OpenInput
    BY <1>6 DEF OpenInput, Fail, files
  <1>7. CASE CreateTemporary
    BY <1>7 DEF CreateTemporary, Fail
  <1>8. CASE CopyChunk
    BY <1>8 DEF CopyChunk, Abandon
  <1>9. CASE FlushData
    BY <1>9 DEF FlushData, Abandon
  <1>10. CASE Publish
    BY <1>10 DEF Publish, Abandon, Published
  <1>11. CASE Cleanup
    BY <1>11 DEF Cleanup, operation
  <1>12. CASE SyncDestination
    BY <1>12 DEF SyncDestination, Fail, AfterDestination, Flushed, Device
  <1>13. CASE CheckSource
    BY <1>13 DEF CheckSource, Fail, files
  <1>14. CASE UnlinkSource
    BY <1>14 DEF UnlinkSource, Fail
  <1>15. CASE SyncSource
    BY <1>15 DEF SyncSource, Fail, Flushed, Device
  <1>16. CASE Writeback
    BY <1>16 DEF Writeback, operation, Flushed, Device
  <1>17. CASE Crash
    BY <1>17 DEF Crash, operation
  <1>18. CASE OtherCreates
    BY <1>18 DEF OtherCreates, operation
  <1>19. CASE OtherReplaces
    BY <1>19 DEF OtherReplaces, operation
  <1> QED
    BY <1>s, <1>1, <1>2, <1>3, <1>4, <1>5, <1>6, <1>7, <1>8, <1>9, <1>10,
       <1>11, <1>12, <1>13, <1>14, <1>15, <1>16, <1>17, <1>18, <1>19 DEF Next

\* A run that gives up because of the user has the source still there.
LEMMA CancelNext ==
  ASSUME TypeOK, StepInv, DoneInv, CancelKeeps, [Next]_vars
  PROVE  CancelKeeps'
  <1> USE ChunksAssumption DEF ChunksAssumption, TypeOK, StepInv, DoneInv, CancelKeeps, Live, Copying, NoFile, Files, Names
  <1>s. CASE UNCHANGED vars
    BY <1>s DEF vars, operation, files
  <1>1. CASE Open
    BY <1>1 DEF Open, files
  <1>2. CASE Run
    BY <1>2 DEF Run, files
  <1>3. CASE Cancel
    BY <1>3 DEF Cancel, operation, files
  <1>4. CASE Close
    BY <1>4 DEF Close, operation, files
  <1>5. CASE Execute
    BY <1>5 DEF Execute, Fail, Published
  <1>6. CASE OpenInput
    BY <1>6 DEF OpenInput, Fail, files
  <1>7. CASE CreateTemporary
    BY <1>7 DEF CreateTemporary, Fail
  <1>8. CASE CopyChunk
    BY <1>8 DEF CopyChunk, Abandon
  <1>9. CASE FlushData
    BY <1>9 DEF FlushData, Abandon
  <1>10. CASE Publish
    BY <1>10 DEF Publish, Abandon, Published
  <1>11. CASE Cleanup
    BY <1>11 DEF Cleanup, operation
  <1>12. CASE SyncDestination
    BY <1>12 DEF SyncDestination, Fail, AfterDestination
  <1>13. CASE CheckSource
    BY <1>13 DEF CheckSource, Fail, files
  <1>14. CASE UnlinkSource
    BY <1>14 DEF UnlinkSource, Fail
  <1>15. CASE SyncSource
    BY <1>15 DEF SyncSource, Fail
  <1>16. CASE Writeback
    BY <1>16 DEF Writeback, operation
  <1>17. CASE Crash
    BY <1>17 DEF Crash, operation
  <1>18. CASE OtherCreates
    BY <1>18 DEF OtherCreates, operation
  <1>19. CASE OtherReplaces
    BY <1>19 DEF OtherReplaces, operation
  <1> QED
    BY <1>s, <1>1, <1>2, <1>3, <1>4, <1>5, <1>6, <1>7, <1>8, <1>9, <1>10,
       <1>11, <1>12, <1>13, <1>14, <1>15, <1>16, <1>17, <1>18, <1>19 DEF Next

\* What another process put in the source's place is still under some name.
LEMMA KeptNext ==
  ASSUME TypeOK, StepInv, DoneInv, DiskInv, OthersInv, ReplacementKept, [Next]_vars
  PROVE  ReplacementKept'
  <1> USE ChunksAssumption DEF ChunksAssumption, TypeOK, StepInv, DoneInv, OthersInv, ReplacementKept, DiskInv, Held, Live, Copying, Whole, NoFile, Files, Names
  <1>s. CASE UNCHANGED vars
    BY <1>s DEF vars, operation, files
  <1>1. CASE Open
    BY <1>1 DEF Open, files
  <1>2. CASE Run
    BY <1>2 DEF Run, files
  <1>3. CASE Cancel
    BY <1>3 DEF Cancel, operation, files
  <1>4. CASE Close
    BY <1>4 DEF Close, operation, files
  <1>5. CASE Execute
    BY <1>5 DEF Execute, Fail, Published
  <1>6. CASE OpenInput
    BY <1>6 DEF OpenInput, Fail, files
  <1>7. CASE CreateTemporary
    BY <1>7 DEF CreateTemporary, Fail
  <1>8. CASE CopyChunk
    BY <1>8 DEF CopyChunk, Abandon
  <1>9. CASE FlushData
    BY <1>9 DEF FlushData, Abandon
  <1>10. CASE Publish
    BY <1>10 DEF Publish, Abandon, Published
  <1>11. CASE Cleanup
    BY <1>11 DEF Cleanup, operation
  <1>12. CASE SyncDestination
    BY <1>12 DEF SyncDestination, Fail, AfterDestination
  <1>13. CASE CheckSource
    BY <1>13 DEF CheckSource, Fail, files
  <1>14. CASE UnlinkSource
    BY <1>14 DEF UnlinkSource, Fail
  <1>15. CASE SyncSource
    BY <1>15 DEF SyncSource, Fail
  <1>16. CASE Writeback
    BY <1>16 DEF Writeback, operation
  <1>17. CASE Crash
    BY <1>17 DEF Crash, operation
  <1>18. CASE OtherCreates
    BY <1>18 DEF OtherCreates, operation
  <1>19. CASE OtherReplaces
    BY <1>19 DEF OtherReplaces, operation
  <1> QED
    BY <1>s, <1>1, <1>2, <1>3, <1>4, <1>5, <1>6, <1>7, <1>8, <1>9, <1>10,
       <1>11, <1>12, <1>13, <1>14, <1>15, <1>16, <1>17, <1>18, <1>19 DEF Next

\* Every step keeps the whole invariant.
LEMMA InvNext == Inv /\ NothingLost /\ [Next]_vars => (Inv /\ NothingLost)'
  <1> SUFFICES ASSUME Inv, NothingLost, [Next]_vars PROVE (Inv /\ NothingLost)'
    OBVIOUS
  <1>1. Inv'
    BY TypeNext, StepNext, DoneNext, DiskNext, DurableNext, OthersNext DEF Inv
  <1>2. CancelKeeps' /\ ReplacementKept'
    BY CancelNext, KeptNext DEF Inv, NothingLost
  <1>3. NoDebris'
    BY <1>1 DEF Inv, OthersInv, Live, NoDebris
  <1> QED
    BY <1>1, <1>2, <1>3 DEF NothingLost

-----------------------------------------------------------------------------
(* What follows.                                                           *)

\* Whatever fails and whoever interferes, a power loss finds the destination
\* whole or not at all, and finds what the result called durable.
THEOREM DurableAlways == Spec => []Durable
  <1>1. Inv => Durable
    BY DEF Inv, Durable, StepInv, DoneInv, DiskInv, Held, NeverPartial, Truthful, DurableInv, Whole
  <1> QED
    BY <1>1, InvInit, InvNext, PTL DEF Spec

\* Failures and cancellations cost nobody a file and leave none behind.
THEOREM NothingIsLost == Spec => []NothingLost
  BY InvInit, InvNext, PTL DEF Spec

\* No step of the operation, and none of its retries, takes the destination's
\* name from another file.
THEOREM NothingIsReplaced == Spec => NoReplace
  <1> DEFINE Keeps == pc' # "crashed" /\ seen["destination"] # NoFile
                          => seen'["destination"] = seen["destination"]
  <1>1. ASSUME Inv, Next PROVE Keeps
    <2> USE <1>1 DEF Inv, TypeOK, Names, NoFile, Files
    <2>1. CASE Open \/ Run \/ Cancel \/ Close \/ OpenInput \/ CheckSource
      BY <2>1 DEF Open, Run, Cancel, Close, OpenInput, CheckSource, files
    <2>2. CASE Execute
      BY <2>2 DEF Execute, DoneInv, StepInv, Copying, Live
    <2>3. CASE CreateTemporary \/ CopyChunk \/ FlushData \/ Cleanup
      BY <2>3 DEF CreateTemporary, CopyChunk, FlushData, Cleanup
    <2>4. CASE Publish
      BY <2>4 DEF Publish
    <2>5. CASE SyncDestination \/ UnlinkSource \/ SyncSource
      BY <2>5 DEF SyncDestination, UnlinkSource, SyncSource
    <2>6. CASE Writeback \/ Crash \/ OtherCreates \/ OtherReplaces
      BY <2>6 DEF Writeback, Crash, OtherCreates, OtherReplaces
    <2> QED
      BY <2>1, <2>2, <2>3, <2>4, <2>5, <2>6 DEF Next
  <1> QED
    BY <1>1, InvInit, InvNext, PTL DEF Spec, NoReplace

-----------------------------------------------------------------------------
(* The refinement.                                                         *)

\* The places a power loss would leave, one by one.
InSource == disk["source"] # NoFile
InDestination ==
    disk["destination"] \in Whole \/ (disk["destination"] = "new" /\ action # "MKDIR")

PlacesKnown ==
    /\ InSource /\ InDestination => Places = {"source", "destination"}
    /\ InSource /\ ~InDestination => Places = {"source"}
    /\ ~InSource /\ InDestination => Places = {"destination"}
    /\ ~InSource /\ ~InDestination => Places = {}

\* Under the invariant the two names on the disk determine Places.
LEMMA PlacesAre == Inv => PlacesKnown
  <1> SUFFICES ASSUME Inv PROVE PlacesKnown
    OBVIOUS
  <1>1. "source" \in Places <=> InSource
    BY DEF Inv, DiskInv, Held, Places, InSource, Whole, NoFile
  <1>2. "destination" \in Places <=> InDestination
    <2>1. action = "MKDIR" => synced # Chunks
      BY ChunksAssumption DEF ChunksAssumption, Inv, TypeOK, DiskInv
    <2> QED
      BY <2>1 DEF Inv, DiskInv, Held, Places, InDestination, Whole, NoFile
  <1>3. Places \subseteq {"source", "destination"}
    BY DEF Places
  <1> HIDE DEF Places
  <1> QED
    BY <1>1, <1>2, <1>3 DEF PlacesKnown

\* A device that is written back changes the places as FileTransfer allows.
LEMMA FlushTransfers ==
  ASSUME Inv, Inv', NEW f \in {"source", "destination"}, disk' = Flushed(f),
         UNCHANGED <<action, one_device, seen>>
  PROVE  \/ UNCHANGED <<InSource, InDestination>>
         \/ InSource /\ ~InDestination /\ InSource' /\ InDestination'
         \/ /\ action \in {"MOVE", "RENAME"}
            /\ InSource /\ InDestination /\ ~InSource' /\ InDestination'
         \/ /\ action \in {"MOVE", "RENAME"}
            /\ InSource /\ ~InDestination /\ ~InSource' /\ InDestination'
         \/ /\ action = "REMOVE"
            /\ InSource /\ ~InDestination /\ ~InSource' /\ ~InDestination'
  BY DEF Inv, TypeOK, DiskInv, Held, InSource, InDestination, Flushed, Device, Whole,
         NoFile, Files, Names

\* A file operation, with its failures, retries, cancellations, power losses and
\* other processes, implements FileTransfer.
THEOREM Implements == Spec => TransferSpec
  <1>1. Init => Transfer!Init
    BY DEF Init, Transfer!Init, Places, NoFile, Names
  <1>2. ASSUME Inv, Inv', PlacesKnown, PlacesKnown', [Next]_vars
        PROVE  [Transfer!Next]_(Transfer!vars)
    <2>1. action' = action
      BY <1>2 DEF Next, vars, operation, Open, Run, Cancel, Close, Execute, OpenInput,
         CreateTemporary, CopyChunk, FlushData, Publish, Cleanup, SyncDestination,
         CheckSource, UnlinkSource, SyncSource, Writeback, Crash, OtherCreates, OtherReplaces
    <2>2. \/ UNCHANGED disk
          \/ /\ \E f \in {"source", "destination"} : disk' = Flushed(f)
             /\ UNCHANGED <<one_device, seen>>
      BY <1>2 DEF Next, vars, operation, files, Open, Run, Cancel, Close, Execute, OpenInput,
         CreateTemporary, CopyChunk, FlushData, Publish, Cleanup, SyncDestination,
         CheckSource, UnlinkSource, SyncSource, Writeback, Crash, OtherCreates, OtherReplaces
    <2>3. CASE UNCHANGED disk
      <3>1. UNCHANGED <<InSource, InDestination>>
        BY <2>1, <2>3 DEF InSource, InDestination
      <3> QED
        BY <1>2, <2>1, <3>1 DEF PlacesKnown, Transfer!vars
    <2>4. CASE /\ \E f \in {"source", "destination"} : disk' = Flushed(f)
               /\ UNCHANGED <<one_device, seen>>
      <3>1. PICK f \in {"source", "destination"} : disk' = Flushed(f)
        BY <2>4
      <3>2. \/ UNCHANGED <<InSource, InDestination>>
            \/ InSource /\ ~InDestination /\ InSource' /\ InDestination'
            \/ /\ action \in {"MOVE", "RENAME"}
               /\ InSource /\ InDestination /\ ~InSource' /\ InDestination'
            \/ /\ action \in {"MOVE", "RENAME"}
               /\ InSource /\ ~InDestination /\ ~InSource' /\ InDestination'
            \/ /\ action = "REMOVE"
               /\ InSource /\ ~InDestination /\ ~InSource' /\ ~InDestination'
        BY <1>2, <2>1, <2>4, <3>1, FlushTransfers
      <3> HIDE DEF Places
      <3> QED
        BY <1>2, <2>1, <3>2
        DEF PlacesKnown, Transfer!Next, Transfer!Arrive, Transfer!Leave, Transfer!Pass,
            Transfer!Remove, Transfer!Removing, Transfer!vars
    <2> QED
      BY <2>2, <2>3, <2>4
  <1> QED
    BY <1>1, <1>2, PlacesAre, InvInit, InvNext, PTL DEF Spec, TransferSpec, Transfer!Spec

-----------------------------------------------------------------------------
(* The worker and the waits: FilesJob. *)

JobType == [active : BOOLEAN, reading : BOOLEAN, cancelled : BOOLEAN, done : BOOLEAN,
            error : {"none", "EIO", "ECANCELED"}, operation : BOOLEAN, published : BOOLEAN]
AppType == [reading : BOOLEAN, pending : BOOLEAN, card : BOOLEAN,
            target : {"PLAIN", "CHANGED"}, waiting : BOOLEAN, closing : BOOLEAN,
            stop_and_close : BOOLEAN, read_storage : BOOLEAN, storage_wait : BOOLEAN]
Outcomes == {"none", "folder", "error", "failed", "cancelled", "volume"}

\* The UI thread serves its loop; it is not on its way out.
Serving == ui \in {"loop", "collecting"}

\* A worker that has ended has said so under the lock.
DoneKnown == job.active /\ thread \in {"done", "exited"} => job.done

\* A job runs inside a wait of its own, which no storage answer will end, and
\* the application knows whether it reads.
ActiveWaits ==
    job.active => /\ wait = "on" /\ ~app.read_storage /\ ~app.storage_wait
                  /\ job.reading <=> app.reading

\* A storage answer is waited for in one wait for one reason.
StorageWaits ==
    /\ app.read_storage \/ app.storage_wait => wait = "on"
    /\ ~(app.read_storage /\ app.storage_wait)

\* What the properties say between callbacks holds within collect() too.
CauseStays ==
    app.waiting /\ wait = "on" /\ Serving =>
        job.active \/ ((app.read_storage \/ app.storage_wait) /\ storage)
PendingStays ==
    app.pending /\ ~app.stop_and_close /\ Serving =>
        \/ job.active /\ job.reading /\ wait = "on"
        \/ wait = "ending" /\ outcome = "folder"
CloseStays ==
    (app.closing \/ close = "asked") /\ Serving =>
        question \/ (app.stop_and_close /\ job.active)
ChangeStays ==
    job.active /\ job.reading /\ app.target = "CHANGED" /\ job.cancelled /\ Serving =>
        app.stop_and_close

\* The inductive invariant.
JobInv ==
    /\ JobTypeOK
    /\ WakePending /\ DoneKnown
    /\ ActiveWaits /\ StorageWaits
    /\ CauseStays /\ PendingStays /\ CloseStays /\ ChangeStays

\* The parts of the invariant that speak of the tables.
Parts == DoneKnown /\ ActiveWaits /\ StorageWaits /\ CauseStays /\ PendingStays /\ CloseStays
         /\ ChangeStays

-----------------------------------------------------------------------------
(* The worker. *)

\* Progress only wakes the UI.
LEMMA ProgressInv ==
  ASSUME JobInv, Progress
  PROVE  JobInv'
  <1>1. /\ UNCHANGED <<job, thread, ui, app, wait, outcome, cancellable, question, decision,
                       storage, close>>
        /\ pipe' = Notified /\ thread = "running"
    BY DEF Progress, screens
  <1>2. pipe' \in 0 .. PipeCapacity
    BY <1>1, PipeAssumption DEF JobInv, JobTypeOK, Notified, PipeAssumption
  <1>3. JobTypeOK' /\ WakePending'
    BY <1>1, <1>2 DEF JobInv, JobTypeOK, WakePending
  <1>4. Parts'
    BY <1>1 DEF JobInv, Parts, DoneKnown, ActiveWaits, StorageWaits, CauseStays, PendingStays,
                CloseStays, ChangeStays, Serving
  <1> QED
    BY <1>3, <1>4 DEF JobInv, Parts

\* The worker says that it is done before it ends.
LEMMA FinishInv ==
  ASSUME JobInv, Finish
  PROVE  JobInv'
  <1>1. PICK e \in {"none", "EIO", "ECANCELED"}, p \in BOOLEAN :
          job' = [job EXCEPT !.done = TRUE, !.error = e, !.published = p,
                             !.operation = ~job.reading]
    BY DEF Finish
  <1>2. /\ thread = "running" /\ thread' = "done"
        /\ UNCHANGED <<pipe, ui, app, wait, outcome, cancellable, question, decision,
                       storage, close>>
    BY DEF Finish, screens
  <1>3. job \in JobType
    BY DEF JobInv, JobTypeOK, JobType
  <1>4. /\ job' \in JobType /\ job'.done
        /\ job'.active = job.active /\ job'.reading = job.reading
        /\ job'.cancelled = job.cancelled
    BY <1>1, <1>3 DEF JobType
  <1>5. JobTypeOK' /\ WakePending'
    BY <1>2, <1>4 DEF JobInv, JobTypeOK, WakePending, JobType
  <1>6. Parts'
    BY <1>2, <1>4 DEF JobInv, Parts, DoneKnown, ActiveWaits, StorageWaits, CauseStays,
                      PendingStays, CloseStays, ChangeStays, Serving
  <1> QED
    BY <1>5, <1>6 DEF JobInv, Parts

\* The last notification finds room or a byte that is already there.
LEMMA NotifyInv ==
  ASSUME JobInv, Notify
  PROVE  JobInv'
  <1>1. /\ UNCHANGED <<job, ui, app, wait, outcome, cancellable, question, decision,
                       storage, close>>
        /\ pipe' = Notified /\ thread = "done" /\ thread' = "exited"
    BY DEF Notify, screens
  <1>2. pipe' \in 0 .. PipeCapacity /\ pipe' > 0
    BY <1>1, PipeAssumption DEF JobInv, JobTypeOK, Notified, PipeAssumption
  <1>3. JobTypeOK' /\ WakePending'
    BY <1>1, <1>2 DEF JobInv, JobTypeOK, WakePending
  <1>4. Parts'
    BY <1>1 DEF JobInv, Parts, DoneKnown, ActiveWaits, StorageWaits, CauseStays, PendingStays,
                CloseStays, ChangeStays, Serving
  <1> QED
    BY <1>3, <1>4 DEF JobInv, Parts

-----------------------------------------------------------------------------
(* Starting a job. *)

\* What start() and fplinux_files_job_reset set, and what they leave.
LEMMA JobRecords ==
  ASSUME NEW j \in JobType
  PROVE  /\ Reset(j) \in JobType
         /\ Reset(j).active = j.active /\ Reset(j).reading = j.reading
         /\ Reset(j).cancelled = j.cancelled /\ Reset(j).done = j.done
         /\ \A r \in BOOLEAN : /\ Started(j, r) \in JobType
                               /\ Started(j, r).active /\ Started(j, r).reading = r
                               /\ ~Started(j, r).cancelled
         /\ [j EXCEPT !.active = FALSE] \in JobType
         /\ ~[j EXCEPT !.active = FALSE].active
         /\ [j EXCEPT !.cancelled = TRUE] \in JobType
         /\ [j EXCEPT !.cancelled = TRUE].active = j.active
         /\ [j EXCEPT !.cancelled = TRUE].reading = j.reading
         /\ [j EXCEPT !.cancelled = TRUE].done = j.done
  BY DEF JobType, Reset, Started

\* A wait begins only when there is none, and then nothing is under way.
LEMMA NothingRuns ==
  ASSUME JobInv, wait = "none", Serving
  PROVE  /\ ~job.active /\ ~app.read_storage /\ ~app.storage_wait
         /\ app.pending => app.stop_and_close
  BY DEF JobInv, ActiveWaits, StorageWaits, PendingStays

\* A job that starts in a wait, for a reading or for a change.
LEMMA StartsInv ==
  ASSUME JobInv, ui = "loop" \/ ui = "collecting", ui' = "loop", NEW reading \in BOOLEAN,
         job' \in JobType, job'.active, job'.reading = reading, ~job'.cancelled,
         thread' = "running",
         app' \in AppType, app'.reading = reading, app'.stop_and_close = app.stop_and_close,
         ~app'.read_storage, ~app'.storage_wait, app'.closing = app.closing,
         app'.pending => reading \/ app.stop_and_close,
         wait' = "on", outcome' \in Outcomes, cancellable' \in BOOLEAN, decision' \in BOOLEAN,
         (app.closing \/ close = "asked") => question \/ app.stop_and_close,
         UNCHANGED <<pipe, question, storage, close>>
  PROVE  JobInv'
  <1>1. JobTypeOK'
    BY DEF JobInv, JobTypeOK, JobType, AppType, Outcomes
  <1>2. WakePending' /\ DoneKnown'
    BY DEF WakePending, DoneKnown
  <1>3. ActiveWaits' /\ StorageWaits' /\ CauseStays'
    BY DEF ActiveWaits, StorageWaits, CauseStays
  <1>4. PendingStays' /\ CloseStays' /\ ChangeStays'
    BY DEF PendingStays, CloseStays, ChangeStays
  <1> QED
    BY <1>1, <1>2, <1>3, <1>4 DEF JobInv

\* A wait that ends at once because the job could not start.
LEMMA BeginFailedInv ==
  ASSUME JobInv, ui = "loop", BeginFailed, decision' \in BOOLEAN,
         UNCHANGED <<pipe, ui, question, storage, close>>
  PROVE  JobInv'
  <1>1. /\ wait = "none" /\ wait' = "ending" /\ outcome' = "error" /\ cancellable' = FALSE
        /\ app' = [app EXCEPT !.waiting = TRUE]
        /\ UNCHANGED <<job, thread>>
    BY DEF BeginFailed
  <1>2. app \in AppType
    BY DEF JobInv, JobTypeOK, AppType
  <1>3. /\ app' \in AppType /\ app'.reading = app.reading /\ app'.pending = app.pending
        /\ app'.target = app.target /\ app'.closing = app.closing
        /\ app'.stop_and_close = app.stop_and_close
        /\ app'.read_storage = app.read_storage /\ app'.storage_wait = app.storage_wait
    BY <1>1, <1>2 DEF AppType
  <1>4. /\ ~job.active /\ ~app.read_storage /\ ~app.storage_wait
        /\ app.pending => app.stop_and_close
    BY <1>1, NothingRuns DEF Serving
  <1>5. cancellable' \in BOOLEAN
    BY <1>1, Zenon
  <1>6. JobTypeOK'
    BY <1>1, <1>3, <1>5 DEF JobInv, JobTypeOK, AppType
  <1>7. WakePending' /\ Parts'
    BY <1>1, <1>3, <1>4 DEF JobInv, WakePending, Parts, DoneKnown, ActiveWaits, StorageWaits,
                            CauseStays, PendingStays, CloseStays, ChangeStays, Serving
  <1> QED
    BY <1>6, <1>7 DEF JobInv, Parts

\* Opening a folder.
LEMMA OpenFolderInv ==
  ASSUME JobInv, OpenFolder
  PROVE  JobInv'
  <1>1. /\ ui = "loop" /\ wait = "none" /\ ~question
        /\ UNCHANGED <<pipe, ui, question, decision, storage, close>>
    BY DEF OpenFolder, Free, BeginWait, BeginFailed
  <1>2. /\ ~job.active /\ ~app.read_storage /\ ~app.storage_wait
        /\ app.pending => app.stop_and_close
    BY <1>1, NothingRuns DEF Serving
  <1>3. job \in JobType /\ app \in AppType /\ decision' \in BOOLEAN
    BY <1>1 DEF JobInv, JobTypeOK, JobType, AppType
  <1>4. CASE BeginFailed
    BY <1>1, <1>3, <1>4, BeginFailedInv
  <1>5. CASE ~BeginFailed
    <2>1. PICK card \in BOOLEAN :
            /\ BeginWait(TRUE)
            /\ ReadFolder([app EXCEPT !.waiting = TRUE], job, "PLAIN", card)
      BY <1>5 DEF OpenFolder
    <2>2. /\ job' = Started(Reset(job), TRUE) /\ thread' = "running"
          /\ app' = [[app EXCEPT !.waiting = TRUE] EXCEPT !.pending = TRUE, !.target = "PLAIN",
                                                          !.reading = TRUE, !.card = card]
          /\ wait' = "on" /\ outcome' = "none" /\ cancellable' = TRUE
      BY <2>1 DEF ReadFolder, BeginWait
    <2>3. job' \in JobType /\ job'.active /\ job'.reading = TRUE /\ ~job'.cancelled
      BY <1>3, <2>2, JobRecords
    <2>4. /\ app' \in AppType /\ app'.reading = TRUE /\ app'.stop_and_close = app.stop_and_close
          /\ app'.closing = app.closing
          /\ app'.read_storage = app.read_storage /\ app'.storage_wait = app.storage_wait
      BY <1>3, <2>2 DEF AppType
    <2>5. (app.closing \/ close = "asked") => question \/ app.stop_and_close
      BY <1>1 DEF JobInv, CloseStays, Serving
    <2>6. cancellable' \in BOOLEAN /\ outcome' \in Outcomes
      BY <2>2 DEF Outcomes
    <2> QED
      BY <1>1, <1>2, <1>3, <2>2, <2>3, <2>4, <2>5, <2>6, StartsInv
  <1> QED
    BY <1>4, <1>5

\* Starting a change.
LEMMA StartMutationInv ==
  ASSUME JobInv, StartMutation
  PROVE  JobInv'
  <1>1. /\ ui = "loop" /\ wait = "none" /\ ~question
        /\ UNCHANGED <<pipe, ui, question, decision, storage, close>>
    BY DEF StartMutation, Free, BeginWait, BeginFailed
  <1>2. /\ ~job.active /\ ~app.read_storage /\ ~app.storage_wait
        /\ app.pending => app.stop_and_close
    BY <1>1, NothingRuns DEF Serving
  <1>3. job \in JobType /\ app \in AppType /\ decision' \in BOOLEAN
    BY <1>1 DEF JobInv, JobTypeOK, JobType, AppType
  <1>4. CASE BeginFailed
    BY <1>1, <1>3, <1>4, BeginFailedInv
  <1>5. CASE ~BeginFailed
    <2>1. /\ job' = Started(Reset(job), FALSE) /\ thread' = "running"
          /\ app' = [app EXCEPT !.waiting = TRUE, !.reading = FALSE]
          /\ wait' = "on" /\ outcome' = "none" /\ cancellable' = TRUE
      BY <1>5 DEF StartMutation, BeginWait
    <2>2. job' \in JobType /\ job'.active /\ job'.reading = FALSE /\ ~job'.cancelled
      BY <1>3, <2>1, JobRecords
    <2>3. /\ app' \in AppType /\ app'.reading = FALSE /\ app'.stop_and_close = app.stop_and_close
          /\ app'.closing = app.closing /\ app'.pending = app.pending
          /\ app'.read_storage = app.read_storage /\ app'.storage_wait = app.storage_wait
      BY <1>3, <2>1 DEF AppType
    <2>4. (app.closing \/ close = "asked") => question \/ app.stop_and_close
      BY <1>1 DEF JobInv, CloseStays, Serving
    <2>5. cancellable' \in BOOLEAN /\ outcome' \in Outcomes
      BY <2>1 DEF Outcomes
    <2> QED
      BY <1>1, <1>2, <1>3, <2>1, <2>2, <2>3, <2>4, <2>5, StartsInv
  <1> QED
    BY <1>4, <1>5

\* The answer to an error: a retry, or giving up.
LEMMA AnswerErrorInv ==
  ASSUME JobInv, AnswerError
  PROVE  JobInv'
  <1>1. /\ ui = "loop" /\ wait = "none" /\ ~question /\ decision' = FALSE
        /\ UNCHANGED <<pipe, ui, question, storage, close>>
    BY DEF AnswerError, Free
  <1>2. /\ ~job.active /\ ~app.read_storage /\ ~app.storage_wait
        /\ app.pending => app.stop_and_close
    BY <1>1, NothingRuns DEF Serving
  <1>3. job \in JobType /\ app \in AppType
    BY DEF JobInv, JobTypeOK, JobType, AppType
  <1>4. decision' \in BOOLEAN
    BY <1>1, Zenon
  <1>5. CASE BeginFailed
    BY <1>1, <1>4, <1>5, BeginFailedInv
  <1>6. CASE /\ BeginWait(TRUE)
             /\ job' = Started(job, FALSE) /\ thread' = "running"
             /\ app' = [app EXCEPT !.waiting = TRUE, !.reading = FALSE]
    <2>1. wait' = "on" /\ outcome' = "none" /\ cancellable' = TRUE
      BY <1>6 DEF BeginWait
    <2>2. job' \in JobType /\ job'.active /\ job'.reading = FALSE /\ ~job'.cancelled
      BY <1>3, <1>6, JobRecords
    <2>3. /\ app' \in AppType /\ app'.reading = FALSE /\ app'.stop_and_close = app.stop_and_close
          /\ app'.closing = app.closing /\ app'.pending = app.pending
          /\ app'.read_storage = app.read_storage /\ app'.storage_wait = app.storage_wait
      BY <1>3, <1>6 DEF AppType
    <2>4. (app.closing \/ close = "asked") => question \/ app.stop_and_close
      BY <1>1 DEF JobInv, CloseStays, Serving
    <2>5. cancellable' \in BOOLEAN /\ outcome' \in Outcomes
      BY <2>1 DEF Outcomes
    <2> QED
      BY <1>1, <1>2, <1>4, <1>6, <2>1, <2>2, <2>3, <2>4, <2>5, StartsInv
  <1>7. CASE job' = Reset(job) /\ UNCHANGED <<thread, app, wait, outcome, cancellable>>
    <2>1. job' \in JobType /\ job'.active = job.active
      BY <1>3, <1>7, JobRecords
    <2>2. JobTypeOK'
      BY <1>1, <1>4, <1>7, <2>1 DEF JobInv, JobTypeOK, JobType
    <2>3. WakePending' /\ Parts'
      BY <1>1, <1>2, <1>7, <2>1
         DEF JobInv, WakePending, Parts, DoneKnown, ActiveWaits, StorageWaits,
             CauseStays, PendingStays, CloseStays, ChangeStays, Serving
    <2> QED
      BY <2>2, <2>3 DEF JobInv, Parts
  <1> QED
    BY <1>5, <1>6, <1>7 DEF AnswerError

\* Connecting or ejecting a card waits for the session.
LEMMA ChangeVolumeInv ==
  ASSUME JobInv, ChangeVolume
  PROVE  JobInv'
  <1>1. /\ ui = "loop" /\ wait = "none" /\ ~question /\ storage' = TRUE
        /\ wait' = "on" /\ outcome' = "none" /\ cancellable' = FALSE
        /\ app' = [app EXCEPT !.waiting = TRUE, !.storage_wait = TRUE]
        /\ UNCHANGED <<job, thread, pipe, ui, question, decision, close>>
    BY DEF ChangeVolume, Free, BeginWait
  <1>2. /\ ~job.active /\ ~app.read_storage /\ ~app.storage_wait
        /\ app.pending => app.stop_and_close
    BY <1>1, NothingRuns DEF Serving
  <1>3. app \in AppType
    BY DEF JobInv, JobTypeOK, AppType
  <1>4. /\ app' \in AppType /\ app'.pending = app.pending /\ app'.closing = app.closing
        /\ app'.stop_and_close = app.stop_and_close
        /\ app'.read_storage = app.read_storage /\ app'.storage_wait
    BY <1>1, <1>3 DEF AppType
  <1>5. cancellable' \in BOOLEAN /\ storage' \in BOOLEAN
    BY <1>1, Zenon
  <1>6. JobTypeOK'
    BY <1>1, <1>4, <1>5 DEF JobInv, JobTypeOK, AppType
  <1>7. WakePending' /\ Parts'
    BY <1>1, <1>2, <1>4
       DEF JobInv, WakePending, Parts, DoneKnown, ActiveWaits, StorageWaits, CauseStays,
           PendingStays, CloseStays, ChangeStays, Serving
  <1> QED
    BY <1>6, <1>7 DEF JobInv, Parts

\* A cancellation spares the reading that shows a completed change.
LEMMA CancelWorkInv ==
  ASSUME JobInv, CancelWork
  PROVE  JobInv'
  <1>1. /\ ui = "loop" /\ cancellable' = FALSE
        /\ job' = [job EXCEPT !.cancelled = @ \/ ~(app.reading /\ app.target = "CHANGED")]
        /\ UNCHANGED <<thread, pipe, ui, app, wait, outcome, question, decision, storage, close>>
    BY DEF CancelWork
  <1>2. job \in JobType /\ app \in AppType
    BY DEF JobInv, JobTypeOK, JobType, AppType
  <1>3. /\ job' \in JobType /\ job'.active = job.active /\ job'.reading = job.reading
        /\ job'.done = job.done
        /\ job'.cancelled => job.cancelled \/ ~app.reading \/ app.target # "CHANGED"
    BY <1>1, <1>2 DEF JobType, AppType
  <1>4. cancellable' \in BOOLEAN
    BY <1>1, Zenon
  <1>5. JobTypeOK'
    BY <1>1, <1>3, <1>4 DEF JobInv, JobTypeOK, JobType
  <1>6. WakePending' /\ Parts'
    BY <1>1, <1>3
       DEF JobInv, WakePending, Parts, DoneKnown, ActiveWaits, StorageWaits, CauseStays,
           PendingStays, CloseStays, ChangeStays, Serving
  <1> QED
    BY <1>5, <1>6 DEF JobInv, Parts

-----------------------------------------------------------------------------
(* Collecting what the worker did. *)

\* The pipe is emptied while the UI thread is on its way to the status.
LEMMA DrainInv ==
  ASSUME JobInv, Drain
  PROVE  JobInv'
  <1>1. /\ ui = "loop" /\ ui' = "collecting" /\ pipe' = 0
        /\ UNCHANGED <<job, thread, app, wait, outcome, cancellable, question, decision,
                       storage, close>>
    BY DEF Drain, screens
  <1>2. pipe' \in 0 .. PipeCapacity
    BY <1>1, PipeAssumption
  <1>3. JobTypeOK' /\ WakePending'
    BY <1>1, <1>2 DEF JobInv, JobTypeOK, WakePending
  <1>4. Parts'
    BY <1>1 DEF JobInv, Parts, DoneKnown, ActiveWaits, StorageWaits, CauseStays, PendingStays,
                CloseStays, ChangeStays, Serving
  <1> QED
    BY <1>3, <1>4 DEF JobInv, Parts

\* A wait ends when no job runs any more and no storage answer is awaited: the
\* folder that was read, if any, is the outcome's.
LEMMA EndedInv ==
  ASSUME JobInv, Serving, ui' = "loop", wait = "on",
         job' \in JobType, ~job'.active,
         NEW a \in AppType, NEW o \in Outcomes, EndWait(a, o),
         ~a.read_storage, ~a.storage_wait,
         a.pending /\ ~a.stop_and_close => o = "folder",
         a.closing \/ close' = "asked" => question,
         storage' \in BOOLEAN, close' \in {"none", "asked", "ready"},
         UNCHANGED <<thread, pipe, question, decision>>
  PROVE  JobInv'
  <1>1. wait' = "ending" /\ outcome' = o /\ cancellable' = FALSE /\ app' = a
    BY DEF EndWait
  <1>2. cancellable' \in BOOLEAN
    BY <1>1, Zenon
  <1>3. JobTypeOK'
    BY <1>1, <1>2 DEF JobInv, JobTypeOK, JobType, AppType, Outcomes
  <1>4. WakePending' /\ DoneKnown' /\ ActiveWaits' /\ StorageWaits' /\ CauseStays'
    BY <1>1 DEF WakePending, DoneKnown, ActiveWaits, StorageWaits, CauseStays
  <1>5. PendingStays' /\ CloseStays' /\ ChangeStays'
    BY <1>1 DEF PendingStays, CloseStays, ChangeStays
  <1> QED
    BY <1>3, <1>4, <1>5 DEF JobInv

\* What collect() finds once the worker is joined: the wait of the job stands,
\* and unless the user stopped it a question is open wherever an answer is owed.
LEMMA JobEnds ==
  ASSUME JobInv, Serving, job.active
  PROVE  /\ wait = "on" /\ ~app.read_storage /\ ~app.storage_wait
         /\ job.reading <=> app.reading
         /\ app.pending /\ ~app.stop_and_close => app.reading
         /\ (app.closing \/ close = "asked") /\ ~app.stop_and_close => question
  BY DEF JobInv, ActiveWaits, PendingStays, CloseStays

\* A folder that was read is handed to the outcome; one that was not is
\* released, and a card that failed asks the session first.
LEMMA ReadFinishedInv ==
  ASSUME JobInv, ui = "collecting", ui' = "loop", job.active, ~app.stop_and_close, app.reading,
         ReadFinished([app EXCEPT !.reading = FALSE]), UNCHANGED <<pipe, question, close>>
  PROVE  JobInv'
  <1> DEFINE a == [app EXCEPT !.reading = FALSE]
             failed == [a EXCEPT !.pending = FALSE]
  <1>1. Serving
    BY DEF Serving
  <1>2. /\ wait = "on" /\ ~app.read_storage /\ ~app.storage_wait
        /\ (app.closing \/ close = "asked") => question
    BY <1>1, JobEnds
  <1>3. /\ job \in JobType /\ app \in AppType /\ storage \in BOOLEAN
        /\ close \in {"none", "asked", "ready"} /\ outcome \in Outcomes
    BY DEF JobInv, JobTypeOK, JobType, AppType, Outcomes
  <1>4. /\ a \in AppType /\ ~a.read_storage /\ ~a.storage_wait /\ a.closing = app.closing
        /\ failed \in AppType /\ ~failed.read_storage /\ ~failed.storage_wait
        /\ failed.closing = app.closing /\ ~failed.pending
    BY <1>2, <1>3 DEF AppType
  <1>5. UNCHANGED <<thread, decision>>
    BY DEF ReadFinished
  <1>6. "folder" \in Outcomes /\ "error" \in Outcomes
    BY DEF Outcomes
  <1>7. job' \in JobType /\ ~job'.active
    <2>1. /\ [job EXCEPT !.active = FALSE] \in JobType
          /\ ~[job EXCEPT !.active = FALSE].active
      BY <1>3, JobRecords
    <2>2. /\ Reset([job EXCEPT !.active = FALSE]) \in JobType
          /\ ~Reset([job EXCEPT !.active = FALSE]).active
      BY <2>1, JobRecords
    <2> QED
      BY <2>1, <2>2 DEF ReadFinished
  <1>8. CASE EndWait(a, "folder") /\ UNCHANGED storage
    BY <1>1, <1>2, <1>3, <1>4, <1>5, <1>6, <1>7, <1>8, EndedInv
  <1>9. CASE EndWait(failed, "error") /\ storage' \in BOOLEAN
    BY <1>1, <1>2, <1>3, <1>4, <1>5, <1>6, <1>7, <1>9, EndedInv
  <1>10. CASE /\ storage' = TRUE /\ app' = [failed EXCEPT !.read_storage = TRUE]
              /\ UNCHANGED <<wait, outcome, cancellable>>
    <2>1. /\ app' \in AppType /\ app'.read_storage /\ ~app'.storage_wait
          /\ app'.closing = app.closing /\ ~app'.pending
      BY <1>4, <1>10 DEF AppType
    <2>2. storage' \in BOOLEAN
      BY <1>10, Zenon
    <2>3. JobTypeOK'
      BY <1>3, <1>5, <1>7, <1>10, <2>1, <2>2 DEF JobInv, JobTypeOK, JobType, AppType
    <2>4. WakePending' /\ Parts'
      BY <1>2, <1>5, <1>7, <1>10, <2>1
         DEF WakePending, Parts, DoneKnown, ActiveWaits, StorageWaits, CauseStays,
             PendingStays, CloseStays, ChangeStays, Serving
    <2> QED
      BY <2>3, <2>4 DEF JobInv, Parts
  <1>11. \/ EndWait(a, "folder") /\ UNCHANGED storage
         \/ EndWait(failed, "error") /\ (storage' = storage \/ storage' = TRUE)
         \/ /\ storage' = TRUE /\ app' = [failed EXCEPT !.read_storage = TRUE]
            /\ UNCHANGED <<wait, outcome, cancellable>>
    BY DEF ReadFinished, RequestStorage
  <1>12. storage' = storage \/ storage' = TRUE => storage' \in BOOLEAN
    BY <1>3, Zenon
  <1> HIDE DEF a, failed
  <1> QED
    BY <1>8, <1>9, <1>10, <1>11, <1>12

\* A change that completed goes on to the reading that shows it; one that did
\* not ends the wait.
LEMMA MutationFinishedInv ==
  ASSUME JobInv, ui = "collecting", ui' = "loop", job.active, ~app.stop_and_close, ~app.reading,
         MutationFinished, UNCHANGED <<pipe, question, close>>
  PROVE  JobInv'
  <1> DEFINE ended == [job EXCEPT !.active = FALSE]
             unread == [app EXCEPT !.target = "CHANGED"]
  <1>1. Serving
    BY DEF Serving
  <1>2. /\ wait = "on" /\ ~app.read_storage /\ ~app.storage_wait
        /\ ~app.pending
        /\ (app.closing \/ close = "asked") => question
    BY <1>1, JobEnds
  <1>3. /\ job \in JobType /\ app \in AppType /\ storage \in BOOLEAN /\ decision \in BOOLEAN
        /\ close \in {"none", "asked", "ready"} /\ outcome \in Outcomes
        /\ cancellable \in BOOLEAN
    BY DEF JobInv, JobTypeOK, JobType, AppType, Outcomes
  <1>4. ended \in JobType /\ ~ended.active
    BY <1>3, JobRecords
  <1>5. /\ unread \in AppType /\ ~unread.read_storage /\ ~unread.storage_wait
        /\ unread.closing = app.closing /\ unread.pending = app.pending
    BY <1>2, <1>3 DEF AppType
  <1>6. /\ "cancelled" \in Outcomes /\ "failed" \in Outcomes /\ "error" \in Outcomes
        /\ UNCHANGED decision
    BY DEF Outcomes, MutationFinished
  <1>7. ASSUME NEW o \in Outcomes, job' = ended, UNCHANGED thread, EndWait(app, o),
               storage' \in BOOLEAN
        PROVE  JobInv'
    BY <1>1, <1>2, <1>3, <1>4, <1>6, <1>7, EndedInv
  <1>8. ASSUME job' = ended, UNCHANGED <<thread, storage>>, EndWait(unread, "error")
        PROVE  JobInv'
    BY <1>1, <1>2, <1>3, <1>4, <1>5, <1>6, <1>8, EndedInv
  <1>9. ASSUME NEW card \in BOOLEAN, ReadFolder(app, ended, "CHANGED", card),
               UNCHANGED <<wait, outcome, cancellable, storage>>
        PROVE  JobInv'
    <2>1. /\ job' = Started(Reset(ended), TRUE) /\ thread' = "running"
          /\ app' = [app EXCEPT !.pending = TRUE, !.target = "CHANGED", !.reading = TRUE,
                                !.card = card]
      BY <1>9 DEF ReadFolder
    <2>2. job' \in JobType /\ job'.active /\ job'.reading = TRUE /\ ~job'.cancelled
      BY <1>4, <2>1, JobRecords
    <2>3. /\ app' \in AppType /\ app'.reading = TRUE /\ app'.stop_and_close = app.stop_and_close
          /\ app'.closing = app.closing
          /\ app'.read_storage = app.read_storage /\ app'.storage_wait = app.storage_wait
      BY <1>3, <2>1 DEF AppType
    <2>4. /\ wait' = "on" /\ outcome' \in Outcomes /\ cancellable' \in BOOLEAN
          /\ decision' \in BOOLEAN
      BY <1>2, <1>3, <1>6, <1>9
    <2>5. UNCHANGED <<pipe, question, storage, close>>
      BY <1>9
    <2> QED
      BY <1>2, <2>1, <2>2, <2>3, <2>4, <2>5, StartsInv
  <1>10. \/ /\ job' = ended /\ UNCHANGED thread
            /\ EndWait(app, IF job.error = "ECANCELED" /\ ~job.published
                            THEN "cancelled" ELSE "failed")
            /\ storage' = storage \/ storage' = TRUE
         \/ \E card \in BOOLEAN : /\ ReadFolder(app, ended, "CHANGED", card)
                                  /\ UNCHANGED <<wait, outcome, cancellable, storage>>
         \/ job' = ended /\ UNCHANGED <<thread, storage>> /\ EndWait(unread, "error")
    BY DEF MutationFinished, RequestStorage
  <1>11. storage' = storage \/ storage' = TRUE => storage' \in BOOLEAN
    BY <1>3, Zenon
  <1>12. (IF job.error = "ECANCELED" /\ ~job.published
          THEN "cancelled" ELSE "failed") \in Outcomes
    BY <1>6
  <1> HIDE DEF ended, unread
  <1> QED
    BY <1>7, <1>8, <1>9, <1>10, <1>11, <1>12

\* A worker that the user stopped before closing.
LEMMA StoppedInv ==
  ASSUME JobInv, ui = "collecting", ui' = "loop", job.active, app.stop_and_close,
         job' = [job EXCEPT !.active = FALSE], EndWait([app EXCEPT !.closing = FALSE], "none"),
         close' = (IF close = "asked" THEN "ready" ELSE close),
         UNCHANGED <<thread, decision, storage, pipe, question>>
  PROVE  JobInv'
  <1> DEFINE a == [app EXCEPT !.closing = FALSE]
  <1>1. Serving
    BY DEF Serving
  <1>2. wait = "on" /\ ~app.read_storage /\ ~app.storage_wait
    BY <1>1, JobEnds
  <1>3. /\ job \in JobType /\ app \in AppType /\ storage \in BOOLEAN
        /\ close \in {"none", "asked", "ready"}
    BY DEF JobInv, JobTypeOK, JobType, AppType
  <1>4. job' \in JobType /\ ~job'.active
    BY <1>3, JobRecords
  <1>5. /\ a \in AppType /\ ~a.read_storage /\ ~a.storage_wait /\ ~a.closing
        /\ a.stop_and_close
    BY <1>2, <1>3 DEF AppType
  <1>6. "none" \in Outcomes /\ close' \in {"none", "asked", "ready"} /\ close' # "asked"
    BY <1>3 DEF Outcomes
  <1>7. EndWait(a, "none") /\ storage' \in BOOLEAN
    BY <1>3
  <1> HIDE DEF a
  <1> QED
    BY <1>1, <1>2, <1>4, <1>5, <1>6, <1>7, EndedInv

\* The status is read after the pipe was emptied, so an end that is not seen
\* now has still to write its byte.
LEMMA CollectInv ==
  ASSUME JobInv, Collect
  PROVE  JobInv'
  <1>1. ui = "collecting" /\ ui' = "loop" /\ UNCHANGED <<pipe, question>>
    BY DEF Collect
  <1>2. CASE job.active /\ job.done /\ app.stop_and_close
    BY <1>1, <1>2, StoppedInv DEF Collect, Collected
  <1>3. CASE job.active /\ job.done /\ ~app.stop_and_close /\ app.reading
    BY <1>1, <1>3, ReadFinishedInv DEF Collect, Collected
  <1>4. CASE job.active /\ job.done /\ ~app.stop_and_close /\ ~app.reading
    BY <1>1, <1>4, MutationFinishedInv DEF Collect, Collected
  <1>5. CASE ~(job.active /\ job.done)
    <2>1. UNCHANGED <<job, thread, app, wait, outcome, cancellable, decision, storage, close>>
      BY <1>5 DEF Collect, Collected
    <2>2. JobTypeOK'
      BY <1>1, <2>1 DEF JobInv, JobTypeOK
    <2>3. WakePending' /\ Parts'
      BY <1>1, <1>5, <2>1
         DEF JobInv, WakePending, Parts, DoneKnown, ActiveWaits, StorageWaits, CauseStays,
             PendingStays, CloseStays, ChangeStays, Serving
    <2> QED
      BY <2>2, <2>3 DEF JobInv, Parts
  <1> QED
    BY <1>2, <1>3, <1>4, <1>5

\* The outcome appears, and takes the folder that was read with it.
LEMMA ShowOutcomeInv ==
  ASSUME JobInv, ShowOutcome
  PROVE  JobInv'
  <1>1. /\ ui = "loop" /\ wait = "ending" /\ wait' = "none" /\ outcome' = "none"
        /\ app' = [app EXCEPT !.waiting = FALSE, !.pending = @ /\ outcome # "folder"]
        /\ decision' = (outcome = "failed")
        /\ job' = Reset(job) \/ job' = job
        /\ UNCHANGED <<cancellable, thread, pipe, ui, question, storage, close>>
    BY DEF ShowOutcome
  <1>2. job \in JobType /\ app \in AppType
    BY DEF JobInv, JobTypeOK, JobType, AppType
  <1>3. job' \in JobType /\ job'.active = job.active
    <2>1. CASE job' = Reset(job)
      BY <1>2, <2>1, JobRecords
    <2>2. CASE job' = job
      BY <1>2, <2>2
    <2> QED
      BY <1>1, <2>1, <2>2
  <1>4. /\ app' \in AppType /\ ~app'.waiting /\ app'.closing = app.closing
        /\ app'.pending => app.pending /\ outcome # "folder"
        /\ app'.stop_and_close = app.stop_and_close
        /\ app'.read_storage = app.read_storage /\ app'.storage_wait = app.storage_wait
    BY <1>1, <1>2 DEF AppType
  <1>5. decision' \in BOOLEAN
    BY <1>1, Zenon
  <1>6. ~job.active
    BY <1>1 DEF JobInv, ActiveWaits
  <1>7. JobTypeOK'
    BY <1>1, <1>3, <1>4, <1>5 DEF JobInv, JobTypeOK, JobType, AppType
  <1>8. WakePending' /\ Parts'
    BY <1>1, <1>3, <1>4, <1>6
       DEF JobInv, WakePending, Parts, DoneKnown, ActiveWaits, StorageWaits, CauseStays,
           PendingStays, CloseStays, ChangeStays, Serving
  <1> QED
    BY <1>7, <1>8 DEF JobInv, Parts

-----------------------------------------------------------------------------
(* Storage and closing. *)

\* The session's answer ends the wait that it was asked for.
LEMMA StorageResultInv ==
  ASSUME JobInv, StorageResult
  PROVE  JobInv'
  <1>1. /\ ui = "loop" /\ storage' = FALSE
        /\ UNCHANGED <<job, thread, pipe, ui, question, decision, close>>
    BY DEF StorageResult
  <1>2. job \in JobType /\ app \in AppType /\ close \in {"none", "asked", "ready"}
    BY DEF JobInv, JobTypeOK, JobType, AppType
  <1>3. storage' \in BOOLEAN /\ Serving /\ "error" \in Outcomes /\ "volume" \in Outcomes
    <2>1. storage' \in BOOLEAN
      BY <1>1, Zenon
    <2> QED
      BY <1>1, <2>1 DEF Serving, Outcomes
  <1>4. CASE app.read_storage \/ app.storage_wait
    <2>1. /\ wait = "on" /\ ~job.active /\ ~(app.read_storage /\ app.storage_wait)
          /\ app.pending => app.stop_and_close
          /\ (app.closing \/ close = "asked") => question
      BY <1>3, <1>4 DEF JobInv, ActiveWaits, StorageWaits, PendingStays, CloseStays
    <2>2. PICK a \in AppType, o \in Outcomes :
            /\ EndWait(a, o) /\ ~a.read_storage /\ ~a.storage_wait
            /\ a.pending = app.pending /\ a.stop_and_close = app.stop_and_close
            /\ a.closing = app.closing
      <3>1. CASE app.read_storage
        <4>1. /\ [app EXCEPT !.read_storage = FALSE] \in AppType
              /\ EndWait([app EXCEPT !.read_storage = FALSE], "error")
          BY <1>2, <3>1 DEF StorageResult, AppType
        <4> QED
          BY <1>2, <1>3, <2>1, <3>1, <4>1 DEF AppType
      <3>2. CASE ~app.read_storage
        <4>1. /\ [app EXCEPT !.storage_wait = FALSE] \in AppType
              /\ EndWait([app EXCEPT !.storage_wait = FALSE], "volume")
          BY <1>2, <1>4, <3>2 DEF StorageResult, AppType
        <4> QED
          BY <1>2, <1>3, <3>2, <4>1 DEF AppType
      <3> QED
        BY <3>1, <3>2
    <2> QED
      BY <1>1, <1>2, <1>3, <2>1, <2>2, EndedInv
  <1>5. CASE ~app.read_storage /\ ~app.storage_wait
    <2>1. UNCHANGED <<app, wait, outcome, cancellable>>
      BY <1>5 DEF StorageResult
    <2>2. JobTypeOK'
      BY <1>1, <1>3, <2>1 DEF JobInv, JobTypeOK
    <2>3. WakePending' /\ Parts'
      BY <1>1, <1>5, <2>1
         DEF JobInv, WakePending, Parts, DoneKnown, ActiveWaits, StorageWaits, CauseStays,
             PendingStays, CloseStays, ChangeStays, Serving
    <2> QED
      BY <2>2, <2>3 DEF JobInv, Parts
  <1> QED
    BY <1>4, <1>5

\* A refresh of the volumes.
LEMMA ActivateInv ==
  ASSUME JobInv, Activate
  PROVE  JobInv'
  <1>1. /\ storage' = TRUE
        /\ UNCHANGED <<job, thread, pipe, ui, app, wait, outcome, cancellable, question,
                       decision, close>>
    BY DEF Activate, screens
  <1>2. storage' \in BOOLEAN
    BY <1>1, Zenon
  <1>3. JobTypeOK'
    BY <1>1, <1>2 DEF JobInv, JobTypeOK
  <1>4. WakePending' /\ Parts'
    BY <1>1 DEF JobInv, WakePending, Parts, DoneKnown, ActiveWaits, StorageWaits, CauseStays,
                PendingStays, CloseStays, ChangeStays, Serving
  <1> QED
    BY <1>3, <1>4 DEF JobInv, Parts

\* WAIT is only answered while the user is asked or the work is stopping.
LEMMA PrepareCloseInv ==
  ASSUME JobInv, PrepareClose
  PROVE  JobInv'
  <1>1. /\ ui = "loop"
        /\ UNCHANGED <<job, thread, pipe, ui, wait, outcome, cancellable, decision, storage>>
    BY DEF PrepareClose
  <1>2. app \in AppType
    BY DEF JobInv, JobTypeOK, AppType
  <1>3. CASE UNCHANGED <<app, question>> /\ close' \in {"none", "ready"}
    <2>1. JobTypeOK'
      BY <1>1, <1>3 DEF JobInv, JobTypeOK
    <2>2. WakePending' /\ Parts'
      BY <1>1, <1>3
         DEF JobInv, WakePending, Parts, DoneKnown, ActiveWaits, StorageWaits, CauseStays,
             PendingStays, CloseStays, ChangeStays, Serving
    <2> QED
      BY <2>1, <2>2 DEF JobInv, Parts
  <1>4. CASE UNCHANGED <<app, question>> /\ close' = "asked" /\ app.closing
    <2>1. JobTypeOK'
      BY <1>1, <1>4 DEF JobInv, JobTypeOK
    <2>2. WakePending' /\ Parts'
      BY <1>1, <1>4
         DEF JobInv, WakePending, Parts, DoneKnown, ActiveWaits, StorageWaits, CauseStays,
             PendingStays, CloseStays, ChangeStays, Serving
    <2> QED
      BY <2>1, <2>2 DEF JobInv, Parts
  <1>5. CASE close' = "asked" /\ question' = TRUE /\ app' = [app EXCEPT !.closing = TRUE]
    <2>1. /\ app' \in AppType /\ app'.reading = app.reading /\ app'.pending = app.pending
          /\ app'.target = app.target /\ app'.waiting = app.waiting
          /\ app'.stop_and_close = app.stop_and_close
          /\ app'.read_storage = app.read_storage /\ app'.storage_wait = app.storage_wait
      BY <1>2, <1>5 DEF AppType
    <2>2. question' \in BOOLEAN
      BY <1>5, Zenon
    <2>3. JobTypeOK'
      BY <1>1, <1>5, <2>1, <2>2 DEF JobInv, JobTypeOK, AppType
    <2>4. WakePending' /\ Parts'
      BY <1>1, <1>5, <2>1
         DEF JobInv, WakePending, Parts, DoneKnown, ActiveWaits, StorageWaits, CauseStays,
             PendingStays, CloseStays, ChangeStays, Serving
    <2> QED
      BY <2>3, <2>4 DEF JobInv, Parts
  <1> QED
    BY <1>3, <1>4, <1>5 DEF PrepareClose

\* The user's answer is passed on, or the stopping work will answer.
LEMMA CloseCommandInv ==
  ASSUME JobInv, CloseCommand
  PROVE  JobInv'
  <1>1. /\ ui = "loop" /\ question' = FALSE
        /\ UNCHANGED <<thread, pipe, ui, wait, outcome, cancellable, decision, storage>>
    BY DEF CloseCommand
  <1>2. /\ job \in JobType /\ app \in AppType /\ close \in {"none", "asked", "ready"}
    BY DEF JobInv, JobTypeOK, JobType, AppType
  <1>3. question' \in BOOLEAN
    BY <1>1, Zenon
  <1>4. CASE /\ job.active /\ app' = [app EXCEPT !.stop_and_close = TRUE]
             /\ job' = [job EXCEPT !.cancelled = TRUE] /\ UNCHANGED close
    <2>1. /\ app' \in AppType /\ app'.reading = app.reading /\ app'.pending = app.pending
          /\ app'.stop_and_close
          /\ app'.read_storage = app.read_storage /\ app'.storage_wait = app.storage_wait
      BY <1>2, <1>4 DEF AppType
    <2>2. /\ job' \in JobType /\ job'.active = job.active /\ job'.reading = job.reading
          /\ job'.done = job.done
      BY <1>2, <1>4, JobRecords
    <2>3. JobTypeOK'
      BY <1>1, <1>3, <1>4, <2>1, <2>2 DEF JobInv, JobTypeOK, JobType, AppType
    <2>4. WakePending' /\ Parts'
      BY <1>1, <1>4, <2>1, <2>2
         DEF JobInv, WakePending, Parts, DoneKnown, ActiveWaits, StorageWaits, CauseStays,
             PendingStays, CloseStays, ChangeStays, Serving
    <2> QED
      BY <2>3, <2>4 DEF JobInv, Parts
  <1>5. CASE /\ app' = [app EXCEPT !.closing = FALSE] /\ UNCHANGED job
             /\ close' = Reply("ready") \/ close' = Reply("none")
    <2>1. /\ app' \in AppType /\ app'.reading = app.reading /\ app'.pending = app.pending
          /\ app'.waiting = app.waiting /\ app'.target = app.target /\ ~app'.closing
          /\ app'.stop_and_close = app.stop_and_close
          /\ app'.read_storage = app.read_storage /\ app'.storage_wait = app.storage_wait
      BY <1>2, <1>5 DEF AppType
    <2>2. close' \in {"none", "ready"}
      BY <1>2, <1>5 DEF Reply
    <2>3. JobTypeOK'
      BY <1>1, <1>3, <1>5, <2>1, <2>2 DEF JobInv, JobTypeOK, AppType
    <2>4. WakePending' /\ Parts'
      BY <1>1, <1>5, <2>1, <2>2
         DEF JobInv, WakePending, Parts, DoneKnown, ActiveWaits, StorageWaits, CauseStays,
             PendingStays, CloseStays, ChangeStays, Serving
    <2> QED
      BY <2>3, <2>4 DEF JobInv, Parts
  <1> QED
    BY <1>4, <1>5 DEF CloseCommand

\* Told to close, the UI thread leaves its loop and cancels what runs.
LEMMA CloseEventInv ==
  ASSUME JobInv, CloseEvent
  PROVE  JobInv'
  <1>1. /\ ui' = "closing" /\ job' = [job EXCEPT !.cancelled = TRUE]
        /\ UNCHANGED <<thread, pipe, app, wait, outcome, cancellable, question, decision,
                       storage, close>>
    BY DEF CloseEvent, screens
  <1>2. job \in JobType
    BY DEF JobInv, JobTypeOK, JobType
  <1>3. /\ job' \in JobType /\ job'.active = job.active /\ job'.reading = job.reading
        /\ job'.done = job.done
    BY <1>1, <1>2, JobRecords
  <1>4. JobTypeOK'
    BY <1>1, <1>3 DEF JobInv, JobTypeOK, JobType
  <1>5. WakePending' /\ Parts'
    BY <1>1, <1>3
       DEF JobInv, WakePending, Parts, DoneKnown, ActiveWaits, StorageWaits, CauseStays,
           PendingStays, CloseStays, ChangeStays, Serving
  <1> QED
    BY <1>4, <1>5 DEF JobInv, Parts

\* The worker is joined before the process leaves.
LEMMA JobCloseInv ==
  ASSUME JobInv, JobClose
  PROVE  JobInv'
  <1>1. /\ ui' = "gone" /\ job' = Reset([job EXCEPT !.active = FALSE])
        /\ UNCHANGED <<thread, pipe, app, wait, outcome, cancellable, question, decision,
                       storage, close>>
    BY DEF JobClose, screens
  <1>2. job \in JobType
    BY DEF JobInv, JobTypeOK, JobType
  <1>3. job' \in JobType /\ ~job'.active
    BY <1>1, <1>2, JobRecords
  <1>4. JobTypeOK'
    BY <1>1, <1>3 DEF JobInv, JobTypeOK, JobType
  <1>5. WakePending' /\ Parts'
    BY <1>1, <1>3
       DEF JobInv, WakePending, Parts, DoneKnown, ActiveWaits, StorageWaits, CauseStays,
           PendingStays, CloseStays, ChangeStays, Serving
  <1> QED
    BY <1>4, <1>5 DEF JobInv, Parts

-----------------------------------------------------------------------------
(* The theorems. *)

\* At first no job runs and nothing is waited for.
LEMMA JobInvInit == JobInit => JobInv
  <1> SUFFICES ASSUME JobInit PROVE JobInv
    OBVIOUS
  <1>1. JobTypeOK
    <2>1. job \in JobType
      BY DEF JobInit, Idle, JobType
    <2>2. app \in AppType
      BY DEF JobInit, AppType
    <2>3. /\ cancellable \in BOOLEAN /\ question \in BOOLEAN /\ decision \in BOOLEAN
          /\ storage \in BOOLEAN
      BY Zenon DEF JobInit
    <2>4. pipe \in 0 .. PipeCapacity
      BY PipeAssumption DEF JobInit
    <2> QED
      BY <2>1, <2>2, <2>3, <2>4 DEF JobInit, JobTypeOK, JobType, AppType
  <1>2. WakePending /\ Parts
    BY DEF JobInit, Idle, WakePending, Parts, DoneKnown, ActiveWaits, StorageWaits, CauseStays,
           PendingStays, CloseStays, ChangeStays, Serving
  <1> QED
    BY <1>1, <1>2 DEF JobInv, Parts

\* Every callback of the UI loop and every step of the worker keeps the invariant.
LEMMA JobInvNext == JobInv /\ [JobNext]_jobVars => JobInv'
  <1> SUFFICES ASSUME JobInv, [JobNext]_jobVars PROVE JobInv'
    OBVIOUS
  <1>1. CASE UNCHANGED jobVars
    <2>1. UNCHANGED <<job, thread, pipe, ui, app, wait, outcome, cancellable, question,
                      decision, storage, close>>
      BY <1>1 DEF jobVars, screens
    <2>2. JobTypeOK' /\ WakePending'
      BY <2>1 DEF JobInv, JobTypeOK, WakePending
    <2>3. Parts'
      BY <2>1
         DEF JobInv, Parts, DoneKnown, ActiveWaits, StorageWaits, CauseStays, PendingStays,
             CloseStays, ChangeStays, Serving
    <2> QED
      BY <2>2, <2>3 DEF JobInv, Parts
  <1>2. CASE Progress \/ Finish \/ Notify
    BY <1>2, ProgressInv, FinishInv, NotifyInv
  <1>3. CASE OpenFolder \/ StartMutation \/ ChangeVolume \/ AnswerError \/ CancelWork
    BY <1>3, OpenFolderInv, StartMutationInv, ChangeVolumeInv, AnswerErrorInv, CancelWorkInv
  <1>4. CASE Drain \/ Collect \/ ShowOutcome \/ StorageResult \/ Activate
    BY <1>4, DrainInv, CollectInv, ShowOutcomeInv, StorageResultInv, ActivateInv
  <1>5. CASE PrepareClose \/ CloseCommand \/ CloseEvent \/ JobClose
    BY <1>5, PrepareCloseInv, CloseCommandInv, CloseEventInv, JobCloseInv
  <1> QED
    BY <1>1, <1>2, <1>3, <1>4, <1>5 DEF JobNext

\* In every state of the worker and the UI (files-job.c, fplinux-files.c) the
\* wait, the folder, the pipe and a close request are as the invariant says.
THEOREM JobInvAlways == JobSpec => []JobInv
  BY JobInvInit, JobInvNext, PTL DEF JobSpec

\* fplinux_files_job_collect never swallows the last notification; a wait has
\* what will end it; the folder being read has exactly one owner; and a close
\* request that was told WAIT has an answer coming.
THEOREM JobIsAccounted == JobSpec => []JobAccounted
  <1>1. JobInv => JobAccounted
    <2> SUFFICES ASSUME JobInv PROVE JobAccounted
      OBVIOUS
    <2>1. ui \in {"loop", "collecting", "closing", "gone"}
      BY DEF JobInv, JobTypeOK
    <2>2. WaitHasCause /\ PendingOwned /\ AskedAnswered
      BY <2>1 DEF JobInv, CauseStays, PendingStays, CloseStays, Serving, WaitHasCause,
                  PendingOwned, AskedAnswered
    <2> QED
      BY <2>2 DEF JobInv, JobAccounted
  <1> QED
    BY <1>1, JobInvAlways, PTL

\* cancel_work and start() never cancel the reading that shows a completed
\* change, unless Files closes.
THEOREM ChangeIsShown == JobSpec => []ChangeShown
  <1>1. JobInv => ChangeShown
    <2> SUFFICES ASSUME JobInv PROVE ChangeShown
      OBVIOUS
    <2>1. ui \in {"loop", "collecting", "closing", "gone"}
      BY DEF JobInv, JobTypeOK
    <2> QED
      BY <2>1 DEF JobInv, ChangeStays, Serving, ChangeShown
  <1> QED
    BY <1>1, JobInvAlways, PTL
=============================================================================
