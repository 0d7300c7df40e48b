----------------------------- MODULE FileMessage -----------------------------
(***************************************************************************)
(* The files of one inbound image message: its blob and the blob of its    *)
(* thumbnail.  Callers ask for either; under the lock of that blob it is   *)
(* loaded from the file storage, or downloaded, stored and recorded in the *)
(* database and the view of the model.  A downloaded image makes a new     *)
(* thumbnail in the background.  Meanwhile the user may delete the message *)
(* and the app may restart; both leave the running calls behind.           *)
(***************************************************************************)
EXTENDS Naturals, Sequences, FiniteSets

CONSTANTS
    Calls,       \* calls of blob() and thumbnailBlob()
    MainCalls,   \* those of blob()
    Blobs,       \* kinds of blob the message names
    MaxFiles,    \* bound: files stored
    MaxFaults,   \* bound: errors of the file storage and the download
    MaxRestarts  \* bound: restarts of the app

Kinds == {"main", "thumbnail"}

ASSUME FileMessageAssumption ==
    /\ IsFiniteSet(Calls) /\ MainCalls \subseteq Calls /\ "regen" \notin Calls
    /\ Blobs \subseteq Kinds
    /\ MaxFiles \in Nat /\ MaxFaults \in Nat /\ MaxRestarts \in Nat

VARIABLES
    row,         \* the message in the database; gone: it is not there any more
    state,       \* state in the view of the model
    queue,       \* callers of the AsyncLock of each blob, the holder first
    pc,          \* where each call is
    file,        \* the file a call or the regeneration has written, or loads
    regen,       \* where regenerateThumbnail is
    disk,        \* what each file on disk holds
    stored,      \* number of files stored so far
    removing,    \* files being deleted in the background
    marking,     \* blobs whose done call is under way
    server,      \* blobs the servers still have
    faults, restarts

vars == <<row, state, queue, pc, file, regen, disk, stored, removing, marking,
          server, faults, restarts>>

Kind(c) == IF c \in MainCalls THEN "main" ELSE "thumbnail"
Files == 1..MaxFiles
NoFile == 0
Ended == {"idle", "returned", "failed"}

\* The state a model gets when it is made from its row.
StateOf(r) ==
    CASE r.file["main"] # NoFile /\ "main" \in Blobs -> "synced"
      [] r.file["main"] = NoFile /\ (r.failed["main"] \/ "main" \notin Blobs) -> "failed"
      [] OTHER -> "unsynced"

TypeOK ==
    /\ row \in [gone : BOOLEAN, file : [Kinds -> Files \cup {NoFile}],
                failed : [Kinds -> BOOLEAN]]
    /\ state \in {"unsynced", "syncing", "synced", "failed"}
    /\ queue \in [Kinds -> Seq(Calls)]
    /\ pc \in [Calls -> Ended \cup {"waiting", "loading", "downloading",
                                    "storing", "written"}]
    /\ file \in [Calls \cup {"regen"} -> Files \cup {NoFile}]
    /\ regen \in {"idle", "making", "storing", "written", "rejected"}
    /\ disk \in [Files -> {"nothing", "main", "thumbnail"}]
    /\ stored \in 0..MaxFiles /\ removing \subseteq Files
    /\ marking \subseteq Kinds /\ server \subseteq Kinds
    /\ faults \in 0..MaxFaults /\ restarts \in 0..MaxRestarts

Init ==
    /\ row = [gone |-> FALSE, file |-> [k \in Kinds |-> NoFile],
              failed |-> [k \in Kinds |-> FALSE]]
    /\ state = StateOf(row)
    /\ queue = [k \in Kinds |-> <<>>] /\ pc = [c \in Calls |-> "idle"]
    /\ file = [c \in Calls \cup {"regen"} |-> NoFile]
    /\ regen = "idle" /\ disk = [f \in Files |-> "nothing"] /\ stored = 0
    /\ removing = {} /\ marking = {} /\ server = Blobs
    /\ faults = 0 /\ restarts = 0

-----------------------------------------------------------------------------
(* Calls: the lock, the file storage and the download *)

Call(c) ==
    /\ pc[c] = "idle"
    /\ pc' = [pc EXCEPT ![c] = "waiting"]
    /\ queue' = [queue EXCEPT ![Kind(c)] = Append(@, c)]
    /\ UNCHANGED <<row, state, file, regen, disk, stored, removing, marking,
                   server, faults, restarts>>

\* Call c is at a point of its executor.
Holds(c, at) == pc[c] = at /\ Head(queue[Kind(c)]) = c

\* Faulty variant: the lock is held for ever when an executor throws.
EndStuck(c, how) ==
    /\ pc' = [pc EXCEPT ![c] = how]
    /\ queue' = [queue EXCEPT ![Kind(c)] =
                    IF how = "failed" THEN @ ELSE Tail(@)]

\* The call ends, however it does, and the next one has the lock.
End(c, how) ==
    /\ pc' = [pc EXCEPT ![c] = how]
    /\ queue' = [queue EXCEPT ![Kind(c)] = Tail(@)]

\* markDownloadAsPermanentlyFailed, nothing when the guard throws.
Fail(k) ==
    /\ row' = IF row.gone THEN row ELSE [row EXCEPT !.failed[k] = TRUE]
    /\ state' = IF row.gone \/ k # "main" THEN state ELSE "failed"

\* The blob is on disk already.
Load(c) ==
    /\ Holds(c, "waiting") /\ ~row.gone /\ row.file[Kind(c)] # NoFile
    /\ pc' = [pc EXCEPT ![c] = "loading"]
    /\ file' = [file EXCEPT ![c] = row.file[Kind(c)]]
    /\ UNCHANGED <<row, state, queue, regen, disk, stored, removing, marking,
                   server, faults, restarts>>

Loaded(c) ==
    /\ Holds(c, "loading")
    /\ \/ disk[file[c]] # "nothing" /\ End(c, "returned") /\ UNCHANGED faults
       \/ disk[file[c]] = "nothing" /\ End(c, "failed") /\ UNCHANGED faults
       \/ faults < MaxFaults /\ faults' = faults + 1 /\ End(c, "failed")
    /\ file' = [file EXCEPT ![c] = NoFile]
    /\ UNCHANGED <<row, state, regen, disk, stored, removing, marking, server,
                   restarts>>

\* There is nothing to download: the message is gone, or the blob is, or the
\* message names none.
Refuse(c) ==
    /\ Holds(c, "waiting") /\ (row.gone \/ row.file[Kind(c)] = NoFile)
    /\ \/ row.gone /\ End(c, "failed") /\ UNCHANGED <<row, state>>
       \/ /\ ~row.gone /\ row.failed[Kind(c)]
          /\ End(c, IF Kind(c) = "main" THEN "failed" ELSE "returned")
          /\ UNCHANGED <<row, state>>
       \/ /\ ~row.gone /\ ~row.failed[Kind(c)] /\ Kind(c) \notin Blobs
          /\ IF Kind(c) = "main" THEN Fail("main") /\ End(c, "failed")
             ELSE End(c, "returned") /\ UNCHANGED <<row, state>>
    /\ UNCHANGED <<file, regen, disk, stored, removing, marking, server, faults,
                   restarts>>

Download(c) ==
    LET k == Kind(c) IN
    /\ Holds(c, "waiting") /\ ~row.gone /\ row.file[k] = NoFile
    /\ ~row.failed[k] /\ k \in Blobs
    /\ pc' = [pc EXCEPT ![c] = "downloading"]
    /\ state' = IF k = "main" THEN "syncing" ELSE state
    /\ UNCHANGED <<row, queue, file, regen, disk, stored, removing, marking,
                   server, faults, restarts>>

\* The servers do not have the blob (any more).
NotFound(c) ==
    /\ Holds(c, "downloading") /\ Kind(c) \notin server
    /\ Fail(Kind(c)) /\ End(c, "failed")
    /\ UNCHANGED <<file, regen, disk, stored, removing, marking, server, faults,
                   restarts>>

\* Any other error of the request.
DownloadError(c) ==
    /\ Holds(c, "downloading") /\ faults < MaxFaults /\ faults' = faults + 1
    /\ state' = IF row.gone \/ Kind(c) # "main" THEN state ELSE "unsynced"
    /\ End(c, "failed")
    /\ UNCHANGED <<row, file, regen, disk, stored, removing, marking, server,
                   restarts>>

\* Faulty variant: the blob is marked as done before it is stored.
DownloadedMarking(c) ==
    /\ Holds(c, "downloading") /\ Kind(c) \in server
    /\ IF row.gone THEN End(c, "failed")
       ELSE pc' = [pc EXCEPT ![c] = "storing"] /\ UNCHANGED queue
    /\ marking' = marking \cup {Kind(c)}
    /\ UNCHANGED <<row, state, file, regen, disk, stored, removing, server,
                   faults, restarts>>

\* The key is read from the model, whose guard throws when it is gone.
Downloaded(c) ==
    /\ Holds(c, "downloading") /\ Kind(c) \in server
    /\ IF row.gone THEN End(c, "failed")
       ELSE pc' = [pc EXCEPT ![c] = "storing"] /\ UNCHANGED queue
    /\ UNCHANGED <<row, state, file, regen, disk, stored, removing, marking,
                   server, faults, restarts>>

\* The bytes cannot be decrypted or stored.
StoreError(c) ==
    /\ Holds(c, "storing") /\ faults < MaxFaults /\ faults' = faults + 1
    /\ End(c, "failed")
    /\ UNCHANGED <<row, state, file, regen, disk, stored, removing, marking,
                   server, restarts>>

-----------------------------------------------------------------------------
(* The file storage and the database *)

\* A file is written for a call or for the regeneration.
Write(w, holding) ==
    /\ stored < MaxFiles /\ stored' = stored + 1
    /\ disk' = [disk EXCEPT ![stored'] = holding]
    /\ file' = [file EXCEPT ![w] = stored']

Store(c) ==
    /\ Holds(c, "storing") /\ Write(c, Kind(c))
    /\ pc' = [pc EXCEPT ![c] = "written"]
    /\ UNCHANGED <<row, state, queue, regen, removing, marking, server, faults,
                   restarts>>

\* Faulty variant: what the row refers to after the update is deleted.
RecordDeleting(k, f) ==
    /\ row' = [row EXCEPT !.file[k] = f]
    /\ removing' = removing \cup (IF row.file[k] = NoFile THEN {} ELSE {f})

\* updateFileBasedMessage: a file that is not referenced any more is deleted.
Record(k, f) ==
    /\ row' = [row EXCEPT !.file[k] = f]
    /\ removing' = removing \cup ({row.file[k]} \ {NoFile, f})

\* The guard throws when the message is gone; the file stays.  An image that
\* came from the network makes a new thumbnail.
Recorded(c) ==
    LET k == Kind(c) IN
    /\ Holds(c, "written")
    /\ IF row.gone
       THEN End(c, "failed") /\ UNCHANGED <<row, state, removing, marking, regen>>
       ELSE /\ Record(k, file[c]) /\ End(c, "returned")
            /\ state' = IF k = "main" THEN "synced" ELSE state
            /\ marking' = marking \cup {k}
            /\ regen' = IF k = "main" THEN "making" ELSE regen
    /\ file' = [file EXCEPT ![c] = NoFile]
    /\ UNCHANGED <<disk, stored, server, faults, restarts>>

\* The done call, in the background, or its error.
Done(k) ==
    /\ k \in marking /\ marking' = marking \ {k}
    /\ \/ server' = server \ {k} /\ UNCHANGED faults
       \/ faults < MaxFaults /\ faults' = faults + 1 /\ UNCHANGED server
    /\ UNCHANGED <<row, state, queue, pc, file, regen, disk, stored, removing,
                   restarts>>

\* A file is deleted in the background; an error is logged.
Remove(f) ==
    /\ f \in removing /\ removing' = removing \ {f}
    /\ \/ disk' = [disk EXCEPT ![f] = "nothing"] /\ UNCHANGED faults
       \/ faults < MaxFaults /\ faults' = faults + 1 /\ UNCHANGED disk
    /\ UNCHANGED <<row, state, queue, pc, file, regen, stored, marking, server,
                   restarts>>

-----------------------------------------------------------------------------
(* The thumbnail that is made from the image *)

Generated ==
    /\ regen = "making" /\ regen' \in {"idle", "storing"}
    /\ UNCHANGED <<row, state, queue, pc, file, disk, stored, removing, marking,
                   server, faults, restarts>>

\* overwriteThumbnail is given the bytes of the image, not the new thumbnail.
StoreThumbnail ==
    /\ regen = "storing"
    /\ \/ regen' = "written" /\ Write("regen", "main") /\ UNCHANGED faults
       \/ /\ faults < MaxFaults /\ faults' = faults + 1 /\ regen' = "rejected"
          /\ UNCHANGED <<disk, stored, file>>
    /\ UNCHANGED <<row, state, queue, pc, removing, marking, server, restarts>>

\* It does not take the lock of the thumbnail.
RecordThumbnail ==
    /\ regen = "written"
    /\ IF row.gone THEN regen' = "rejected" /\ UNCHANGED <<row, removing>>
       ELSE /\ regen' = "idle"
            /\ row' = [row EXCEPT !.file["thumbnail"] = file["regen"],
                                  !.failed["thumbnail"] = FALSE]
            /\ removing' = removing \cup ({row.file["thumbnail"]} \ {NoFile})
    /\ file' = [file EXCEPT !["regen"] = NoFile]
    /\ UNCHANGED <<state, queue, pc, disk, stored, marking, server, faults,
                   restarts>>

-----------------------------------------------------------------------------
(* The user, the servers and the app *)

\* The message is removed, or marked as deleted, with the files it refers to.
Delete ==
    /\ ~row.gone
    /\ row' = [gone |-> TRUE, file |-> [k \in Kinds |-> NoFile],
               failed |-> [k \in Kinds |-> FALSE]]
    /\ removing' = removing \cup ({row.file[k] : k \in Kinds} \ {NoFile})
    /\ UNCHANGED <<state, queue, pc, file, regen, disk, stored, marking, server,
                   faults, restarts>>

\* A blob is not kept for ever (external).
Expire(k) ==
    /\ faults < MaxFaults /\ faults' = faults + 1
    /\ k \in server /\ server' = server \ {k}
    /\ UNCHANGED <<row, state, queue, pc, file, regen, disk, stored, removing,
                   marking, restarts>>

Restart ==
    /\ restarts < MaxRestarts /\ restarts' = restarts + 1
    /\ state' = StateOf(row)
    /\ queue' = [k \in Kinds |-> <<>>] /\ pc' = [c \in Calls |-> "idle"]
    /\ file' = [c \in Calls \cup {"regen"} |-> NoFile]
    /\ regen' = "idle" /\ removing' = {} /\ marking' = {}
    /\ UNCHANGED <<row, disk, stored, server, faults>>

-----------------------------------------------------------------------------
Step(c) == \/ Load(c) \/ Loaded(c) \/ Refuse(c) \/ Download(c) \/ NotFound(c)
           \/ Downloaded(c) \/ Store(c) \/ Recorded(c)

Error(c) == DownloadError(c) \/ StoreError(c)

Next == \/ \E c \in Calls : Call(c) \/ Step(c) \/ Error(c)
        \/ \E k \in Kinds : Done(k) \/ Expire(k)
        \/ \E f \in Files : Remove(f)
        \/ Generated \/ StoreThumbnail \/ RecordThumbnail \/ Delete \/ Restart

Spec == Init /\ [][Next]_vars

\* Requests are answered and the file storage works through what it is given.
Fairness == \A c \in Calls : WF_vars(Step(c))
FairSpec == Spec /\ Fairness

-----------------------------------------------------------------------------
(* Properties *)

\* The database refers to files that exist, with two writers of the thumbnail,
\* one of them without its lock, and deletion in the background.
FilesExist ==
    \A k \in Kinds : row.file[k] # NoFile =>
        disk[row.file[k]] # "nothing" /\ row.file[k] \notin removing

\* A blob is marked as done, and so taken from the servers, only once the
\* database refers to its file or the user has deleted the message; a restart
\* at any point loses nothing (blob.ts:122).
DoneOnceKept == \A k \in marking : row.gone \/ row.file[k] # NoFile

\* Every call gets its bytes or an error, whoever else failed before it.
CallsEnd == \A c \in Calls : pc[c] = "waiting" ~> pc[c] \in Ended
=============================================================================
