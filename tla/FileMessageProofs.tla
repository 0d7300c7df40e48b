-------------------------- MODULE FileMessageProofs --------------------------
(***************************************************************************)
(* Proofs about FileMessage for any calls, any kinds of blobs and any      *)
(* bounds.                                                                 *)
(*                                                                         *)
(* That the database refers to existing files depends on whose file it is: *)
(* one that is written and not yet recorded belongs to its writer alone,   *)
(* one that is recorded to one kind of blob, and what is being deleted to  *)
(* nobody.  The locks are not needed for that, which is why the            *)
(* regeneration of the thumbnail may do without.  That they exclude, and   *)
(* are handed on whoever fails, is proved of their queues: in the queue of *)
(* a blob is every call for it that has not ended, once, and all but the   *)
(* first one wait.                                                         *)
(***************************************************************************)
EXTENDS FileMessage, TLAPS

Writers == Calls \cup {"regen"}

\* w has a file that it has written and not yet recorded.
HasWritten(w) == IF w = "regen" THEN regen = "written" ELSE pc[w] = "written"

\* The part of TypeOK that is about files.
Typed ==
    /\ row \in [gone : BOOLEAN, file : [Kinds -> Files \cup {NoFile}],
                failed : [Kinds -> BOOLEAN]]
    /\ pc \in [Calls -> Ended \cup {"waiting", "loading", "downloading",
                                    "storing", "written"}]
    /\ file \in [Writers -> Files \cup {NoFile}]
    /\ regen \in {"idle", "making", "storing", "written", "rejected"}
    /\ disk \in [Files -> {"nothing", "main", "thumbnail"}]
    /\ stored \in 0..MaxFiles /\ removing \subseteq 1..stored
    /\ marking \subseteq Kinds

\* Files are numbered in the order in which they were written.
Stored ==
    /\ \A k \in Kinds : row.file[k] <= stored
    /\ \A w \in Writers : file[w] <= stored

\* What a writer has is on disk, is nobody else's and stays.
Owned ==
    /\ \A w \in Writers : HasWritten(w) =>
        /\ file[w] # NoFile /\ disk[file[w]] # "nothing" /\ file[w] \notin removing
        /\ \A k \in Kinds : row.file[k] # file[w]
    /\ \A v, w \in Writers :
        HasWritten(v) /\ HasWritten(w) /\ v # w => file[v] # file[w]

\* No file is recorded for two blobs.
RecordedOnce ==
    \A j, k \in Kinds : j # k /\ row.file[j] # NoFile => row.file[j] # row.file[k]

IInv == Typed /\ Stored /\ Owned /\ RecordedOnce /\ FilesExist /\ DoneOnceKept

filevars == <<row, file, disk, stored, removing, marking>>

LEMMA Constants == MaxFiles \in Nat /\ "regen" \notin Calls /\ NoFile \notin Files
BY FileMessageAssumption DEF Files, NoFile

LEMMA KindOf == \A c \in Calls : Kind(c) \in Kinds
BY DEF Kind, Kinds

\* The invariant holds initially.
THEOREM InitInvariant == Init => IInv
<1> SUFFICES ASSUME Init PROVE IInv
  OBVIOUS
<1> USE Constants DEF Init, Files, NoFile, Kinds
<1>1. Typed
  BY DEF Typed, Ended, Writers
<1>2. Stored /\ Owned /\ RecordedOnce
  BY DEF Stored, Owned, RecordedOnce, Writers, HasWritten
<1>3. FilesExist /\ DoneOnceKept
  BY DEF FilesExist, DoneOnceKept
<1> QED
  BY <1>1, <1>2, <1>3 DEF IInv

\* A step in which nobody gets a file and nothing is deleted.
LEMMA NoNewOwner ==
  ASSUME IInv, UNCHANGED <<row.gone, row.file, disk, stored>>,
         marking' \subseteq marking, removing' \subseteq removing, Typed',
         \A w \in Writers : HasWritten(w)' => HasWritten(w) /\ file'[w] = file[w],
         \A w \in Writers : file'[w] <= stored
  PROVE  IInv'
<1> USE DEF IInv
<1>1. Stored'
  BY DEF Stored
<1>2. Owned'
  BY DEF Owned
<1>3. RecordedOnce'
  BY DEF RecordedOnce
<1>4. FilesExist' /\ DoneOnceKept'
  BY DEF FilesExist, DoneOnceKept
<1> QED
  BY <1>1, <1>2, <1>3, <1>4

\* A new file belongs to its writer.
LEMMA WriteOwns ==
  ASSUME IInv, NEW w \in Writers, NEW holding \in {"main", "thumbnail"},
         Write(w, holding), UNCHANGED <<row, removing, marking>>, Typed',
         \A v \in Writers \ {w} : HasWritten(v)' => HasWritten(v)
  PROVE  IInv'
<1> USE DEF IInv
<1> DEFINE new == stored + 1
<1>1. /\ stored' = new /\ new \in Files /\ new > stored /\ stored \in Nat
      /\ disk' = [disk EXCEPT ![new] = holding]
      /\ file' = [file EXCEPT ![w] = new]
  BY Constants DEF Write, Typed, Files
<1>2. /\ file'[w] = new /\ disk'[new] = holding
      /\ \A v \in Writers \ {w} : file'[v] = file[v] /\ file[v] # new
      /\ \A f \in Files \ {new} : disk'[f] = disk[f]
      /\ new \notin removing
      /\ \A k \in Kinds : row.file[k] # new
  BY <1>1 DEF Typed, Stored, Files, NoFile
<1>3. Stored'
  BY <1>1, <1>2 DEF Stored, Typed, Files, NoFile
<1>4. Owned'
  <2>1. ASSUME NEW v \in Writers, HasWritten(v)'
        PROVE  /\ file'[v] # NoFile /\ disk'[file'[v]] # "nothing"
               /\ file'[v] \notin removing'
               /\ \A k \in Kinds : row'.file[k] # file'[v]
    <3>1. CASE v = w
      BY <3>1, <1>1, <1>2 DEF Files, NoFile
    <3>2. CASE v # w
      BY <3>2, <2>1, <1>1, <1>2 DEF Owned, Typed
    <3> QED
      BY <3>1, <3>2
  <2>2. ASSUME NEW u \in Writers, NEW v \in Writers, HasWritten(u)', HasWritten(v)', u # v
        PROVE  file'[u] # file'[v]
    BY <2>2, <1>2 DEF Owned
  <2> QED
    BY <2>1, <2>2 DEF Owned
<1>5. RecordedOnce' /\ DoneOnceKept'
  BY DEF RecordedOnce, DoneOnceKept
<1>6. FilesExist'
  BY <1>1, <1>2 DEF FilesExist, Typed
<1> QED
  BY <1>3, <1>4, <1>5, <1>6

\* The file of a writer is recorded, and what was recorded is deleted.
LEMMA RecordKeeps ==
  ASSUME IInv, NEW w \in Writers, NEW k \in Kinds, HasWritten(w), ~HasWritten(w)',
         UNCHANGED <<row.gone, disk, stored>>,
         row'.file = [row.file EXCEPT ![k] = file[w]],
         removing' = removing \cup ({row.file[k]} \ {NoFile}),
         marking' \subseteq marking \cup {k}, Typed',
         file' = [file EXCEPT ![w] = NoFile],
         \A v \in Writers \ {w} : HasWritten(v)' => HasWritten(v)
  PROVE  IInv'
<1> USE DEF IInv
<1> DEFINE f == file[w]
<1>1. /\ f # NoFile /\ f \in Files /\ disk[f] # "nothing" /\ f \notin removing
      /\ \A j \in Kinds : row.file[j] # f
  BY DEF Owned, Typed
<1>2. row'.file[k] = f /\ \A j \in Kinds \ {k} : row'.file[j] = row.file[j]
  BY DEF Typed
<1>3. \A v \in Writers \ {w} : file'[v] = file[v]
  BY DEF Typed
<1>4. Stored'
  BY <1>2, <1>3, Constants DEF Stored, Typed, NoFile
<1>5. Owned'
  <2>1. ASSUME NEW v \in Writers, HasWritten(v)'
        PROVE  /\ file'[v] # NoFile /\ disk'[file'[v]] # "nothing"
               /\ file'[v] \notin removing'
               /\ \A j \in Kinds : row'.file[j] # file'[v]
    <3>1. v # w /\ HasWritten(v)
      BY <2>1
    <3>2. file'[v] = file[v] /\ file[v] # f
      BY <3>1, <1>3 DEF Owned
    <3> QED
      BY <3>1, <3>2, <1>2 DEF Owned
  <2>2. ASSUME NEW u \in Writers, NEW v \in Writers, HasWritten(u)', HasWritten(v)', u # v
        PROVE  file'[u] # file'[v]
    <3>1. u # w /\ v # w /\ HasWritten(u) /\ HasWritten(v)
      BY <2>2
    <3> QED
      BY <3>1, <2>2, <1>3 DEF Owned
  <2> QED
    BY <2>1, <2>2 DEF Owned
<1>6. RecordedOnce'
  BY <1>1, <1>2 DEF RecordedOnce
<1>7. FilesExist'
  <2> SUFFICES ASSUME NEW j \in Kinds, row'.file[j] # NoFile
               PROVE  disk'[row'.file[j]] # "nothing" /\ row'.file[j] \notin removing'
    BY DEF FilesExist
  <2>1. CASE j = k
    BY <2>1, <1>1, <1>2
  <2>2. CASE j # k
    BY <2>2, <1>2 DEF FilesExist, RecordedOnce
  <2> QED
    BY <2>1, <2>2
<1>8. DoneOnceKept'
  BY <1>1, <1>2 DEF DoneOnceKept, Typed
<1> QED
  BY <1>4, <1>5, <1>6, <1>7, <1>8

\* What is marked as failed leaves the files alone.
LEMMA FailKeepsFiles ==
  ASSUME Typed, NEW k \in Kinds, Fail(k)
  PROVE  /\ row' \in [gone : BOOLEAN, file : [Kinds -> Files \cup {NoFile}],
                       failed : [Kinds -> BOOLEAN]]
         /\ row'.gone = row.gone /\ row'.file = row.file
BY DEF Typed, Fail

LEMMA CallStep ==
  ASSUME IInv, NEW c \in Calls,
         \/ Call(c) \/ Load(c) \/ Loaded(c) \/ Refuse(c) \/ Download(c)
         \/ NotFound(c) \/ Downloaded(c) \/ Error(c)
  PROVE  IInv'
<1> USE Constants, KindOf DEF IInv
<1> DEFINE Keeps ==
      /\ UNCHANGED <<row.gone, row.file, disk, stored, removing, marking>>
      /\ row' \in [gone : BOOLEAN, file : [Kinds -> Files \cup {NoFile}],
                   failed : [Kinds -> BOOLEAN]]
      /\ regen' = regen
      /\ \E at \in (Ended \cup {"waiting", "loading", "downloading", "storing"}) :
            pc' = [pc EXCEPT ![c] = at]
      /\ \/ file' = file
         \/ file' = [file EXCEPT ![c] = NoFile]
         \/ file' = [file EXCEPT ![c] = row.file[Kind(c)]]
<1>1. Keeps
  <2>1. CASE Call(c)
    BY <2>1 DEF Call, Typed
  <2>2. CASE Load(c)
    BY <2>2 DEF Load, Typed
  <2>3. CASE Loaded(c)
    BY <2>3 DEF Loaded, End, Typed, Ended
  <2>4. CASE Refuse(c)
    <3>1. row' = row \/ Fail("main")
      BY <2>4 DEF Refuse
    <3>2. /\ row' \in [gone : BOOLEAN, file : [Kinds -> Files \cup {NoFile}],
                        failed : [Kinds -> BOOLEAN]]
          /\ row'.gone = row.gone /\ row'.file = row.file
      BY <3>1, FailKeepsFiles DEF Typed, Kinds
    <3>3. \E at \in {"returned", "failed"} : pc' = [pc EXCEPT ![c] = at]
      BY <2>4 DEF Refuse, End
    <3>4. UNCHANGED <<file, regen, disk, stored, removing, marking>>
      BY <2>4 DEF Refuse
    <3> QED
      BY <3>2, <3>3, <3>4 DEF Ended
  <2>5. CASE Download(c) \/ Downloaded(c)
    BY <2>5 DEF Download, Downloaded, End, Typed, Ended
  <2>6. CASE NotFound(c)
    <3>1. Fail(Kind(c)) /\ pc' = [pc EXCEPT ![c] = "failed"]
          /\ UNCHANGED <<file, regen, disk, stored, removing, marking>>
      BY <2>6 DEF NotFound, End
    <3> QED
      BY <3>1, FailKeepsFiles DEF Ended
  <2>7. CASE Error(c)
    BY <2>7 DEF Error, DownloadError, StoreError, End, Typed, Ended
  <2> QED
    BY <2>1, <2>2, <2>3, <2>4, <2>5, <2>6, <2>7
<1>2. Typed'
  BY <1>1 DEF Typed, Writers, Ended
<1>3. \A w \in Writers : HasWritten(w)' => HasWritten(w) /\ file'[w] = file[w]
  BY <1>1 DEF HasWritten, Typed, Writers, Ended
<1>4. \A w \in Writers : file'[w] <= stored
  BY <1>1 DEF Typed, Stored, Writers, NoFile
<1> QED
  BY <1>1, <1>2, <1>3, <1>4, NoNewOwner

LEMMA StoreStep ==
  ASSUME IInv, NEW c \in Calls, Store(c)
  PROVE  IInv'
<1> USE Constants, KindOf DEF IInv
<1>1. Typed'
  BY DEF Store, Write, Typed, Files, Kinds, Writers
<1>2. \A v \in Writers \ {c} : HasWritten(v)' => HasWritten(v)
  BY DEF Store, HasWritten, Typed, Writers
<1> QED
  BY <1>1, <1>2, WriteOwns DEF Store, Writers, Kinds

LEMMA RecordedStep ==
  ASSUME IInv, NEW c \in Calls, Recorded(c)
  PROVE  IInv'
<1> USE Constants, KindOf DEF IInv
<1>1. HasWritten(c) /\ c \in Writers /\ c # "regen"
  BY DEF Recorded, Holds, HasWritten, Writers
<1>2. /\ pc' \in [Calls -> {"returned", "failed"} \cup Ended \cup {"waiting",
                   "loading", "downloading", "storing", "written"}]
      /\ pc'[c] # "written" /\ \A d \in Calls \ {c} : pc'[d] = pc[d]
      /\ regen' = "written" => regen = "written"
  BY DEF Recorded, End, Typed
<1>3. ~HasWritten(c)' /\ \A v \in Writers \ {c} : HasWritten(v)' => HasWritten(v)
  BY <1>1, <1>2 DEF HasWritten, Writers
<1>4. CASE row.gone
  <2>1. Typed'
    BY <1>4, <1>2 DEF Recorded, Typed, Writers, Ended, End
  <2>2. \A w \in Writers : file'[w] <= stored
    BY DEF Recorded, Typed, Stored, Writers, NoFile
  <2>3. \A v \in Writers \ {c} : file'[v] = file[v]
    BY DEF Recorded, Typed
  <2> QED
    BY <1>3, <1>4, <2>1, <2>2, <2>3, NoNewOwner DEF Recorded
<1>5. CASE ~row.gone
  <2>1. file[c] \in Files /\ file[c] # row.file[Kind(c)] /\ file[c] <= stored
    BY <1>1 DEF Owned, Typed, Stored
  <2>2. /\ row' = [row EXCEPT !.file[Kind(c)] = file[c]]
        /\ removing' = removing \cup ({row.file[Kind(c)]} \ {NoFile})
        /\ marking' = marking \cup {Kind(c)}
        /\ UNCHANGED <<disk, stored>>
        /\ file' = [file EXCEPT ![c] = NoFile]
    BY <1>5, <2>1 DEF Recorded, Record
  <2>3. Typed'
    <3>1. row' \in [gone : BOOLEAN, file : [Kinds -> Files \cup {NoFile}],
                    failed : [Kinds -> BOOLEAN]]
      BY <2>1, <2>2 DEF Typed
    <3>2. removing' \subseteq 1..stored'
      BY <2>2 DEF Typed, Stored, Files, NoFile
    <3> QED
      BY <1>2, <2>2, <3>1, <3>2, <1>5 DEF Recorded, Typed, Writers, Ended
  <2>4. row'.gone = row.gone /\ row'.file = [row.file EXCEPT ![Kind(c)] = file[c]]
    BY <2>2 DEF Typed
  <2> QED
    BY <1>1, <1>3, <2>2, <2>3, <2>4, RecordKeeps
<1> QED
  BY <1>4, <1>5

LEMMA ThumbnailStep ==
  ASSUME IInv, Generated \/ StoreThumbnail \/ RecordThumbnail
  PROVE  IInv'
<1> USE Constants, KindOf DEF IInv
<1>1. CASE Generated
  <2>1. Typed' /\ \A w \in Writers : HasWritten(w)' => HasWritten(w)
    BY <1>1 DEF Generated, Typed, HasWritten
  <2> QED
    BY <1>1, <2>1, NoNewOwner DEF Generated, Stored
<1>2. CASE StoreThumbnail /\ regen' = "rejected"
  <2>1. UNCHANGED <<file, disk, stored>>
    BY <1>2 DEF StoreThumbnail
  <2>2. Typed' /\ \A w \in Writers : HasWritten(w)' => HasWritten(w)
    BY <1>2, <2>1 DEF StoreThumbnail, Typed, HasWritten
  <2> QED
    BY <1>2, <2>1, <2>2, NoNewOwner DEF StoreThumbnail, Stored
<1>3. CASE StoreThumbnail /\ regen' = "written"
  <2>1. Write("regen", "main") /\ UNCHANGED <<row, pc, removing, marking>>
    BY <1>3 DEF StoreThumbnail
  <2>2. Typed'
    BY <1>3, <2>1 DEF Write, Typed, Files, Writers
  <2>3. \A v \in Writers \ {"regen"} : HasWritten(v)' => HasWritten(v)
    BY <2>1 DEF HasWritten
  <2> QED
    BY <2>1, <2>2, <2>3, WriteOwns DEF Writers
<1>4. CASE RecordThumbnail
  <2>1. /\ HasWritten("regen") /\ ~HasWritten("regen")' /\ "regen" \in Writers
        /\ \A v \in Writers \ {"regen"} : HasWritten(v)' => HasWritten(v)
        /\ UNCHANGED <<pc, disk, stored, marking>> /\ regen' \in {"idle", "rejected"}
        /\ file' = [file EXCEPT !["regen"] = NoFile]
    BY <1>4 DEF RecordThumbnail, HasWritten, Writers
  <2>2. CASE row.gone
    <3>1. UNCHANGED <<row, removing>>
      BY <1>4, <2>2 DEF RecordThumbnail
    <3>2. Typed'
      BY <2>1, <3>1 DEF Typed, Writers
    <3>3. \A w \in Writers : file'[w] <= stored
      BY <2>1 DEF Typed, Stored, Writers, NoFile
    <3>4. \A v \in Writers \ {"regen"} : file'[v] = file[v]
      BY <2>1 DEF Typed
    <3> QED
      BY <2>1, <3>1, <3>2, <3>3, <3>4, NoNewOwner
  <2>3. CASE ~row.gone
    <3>1. /\ row' = [row EXCEPT !.file["thumbnail"] = file["regen"],
                                !.failed["thumbnail"] = FALSE]
          /\ removing' = removing \cup ({row.file["thumbnail"]} \ {NoFile})
      BY <1>4, <2>3 DEF RecordThumbnail
    <3>2. "thumbnail" \in Kinds /\ file["regen"] \in Files
      BY <2>1 DEF Owned, Typed, Kinds
    <3>3. row' \in [gone : BOOLEAN, file : [Kinds -> Files \cup {NoFile}],
                    failed : [Kinds -> BOOLEAN]]
          /\ row'.gone = row.gone
          /\ row'.file = [row.file EXCEPT !["thumbnail"] = file["regen"]]
      BY <3>1, <3>2 DEF Typed
    <3>4. removing' \subseteq 1..stored'
      BY <2>1, <3>1, <3>2 DEF Typed, Stored, Files, NoFile
    <3>5. Typed'
      BY <2>1, <3>3, <3>4 DEF Typed, Writers
    <3> QED
      BY <2>1, <3>1, <3>2, <3>3, <3>5, RecordKeeps
  <2> QED
    BY <2>2, <2>3
<1> QED
  BY <1>1, <1>2, <1>3, <1>4 DEF StoreThumbnail

LEMMA OtherStep ==
  ASSUME IInv,
         \/ \E k \in Kinds : Done(k) \/ Expire(k)
         \/ \E f \in Files : Remove(f)
         \/ Delete \/ Restart
  PROVE  IInv'
<1> USE Constants DEF IInv
<1>1. ASSUME NEW k \in Kinds, Done(k) \/ Expire(k) PROVE IInv'
  <2>1. UNCHANGED <<row, pc, file, regen, disk, stored, removing>> /\ marking' \subseteq marking
    BY <1>1 DEF Done, Expire
  <2>2. Typed' /\ \A w \in Writers : HasWritten(w)' => HasWritten(w)
    BY <2>1 DEF Typed, HasWritten
  <2> QED
    BY <2>1, <2>2, NoNewOwner DEF Stored
<1>2. ASSUME NEW f \in Files, Remove(f) PROVE IInv'
  <2>1. /\ UNCHANGED <<row, pc, file, regen, stored, marking>>
        /\ f \in removing /\ removing' = removing \ {f}
        /\ disk' = disk \/ disk' = [disk EXCEPT ![f] = "nothing"]
    BY <1>2 DEF Remove
  <2>2. Typed'
    BY <2>1 DEF Typed
  <2>3. \A g \in Files \ {f} : disk'[g] = disk[g]
    BY <2>1 DEF Typed
  <2>4. Owned'
    <3>1. \A w \in Writers : HasWritten(w)' <=> HasWritten(w)
      BY <2>1 DEF HasWritten
    <3>2. ASSUME NEW w \in Writers, HasWritten(w)
          PROVE  /\ file[w] # NoFile /\ disk'[file[w]] # "nothing" /\ file[w] \notin removing'
                 /\ \A k \in Kinds : row.file[k] # file[w]
      <4>1. /\ file[w] # NoFile /\ disk[file[w]] # "nothing" /\ file[w] \notin removing
            /\ \A k \in Kinds : row.file[k] # file[w]
        BY <3>2 DEF Owned
      <4>2. file[w] \in Files \ {f}
        BY <2>1, <4>1 DEF Typed
      <4> QED
        BY <2>1, <2>3, <4>1, <4>2
    <3> QED
      BY <2>1, <3>1, <3>2 DEF Owned
  <2>5. FilesExist'
    <3> SUFFICES ASSUME NEW k \in Kinds, row.file[k] # NoFile
                 PROVE  disk'[row.file[k]] # "nothing" /\ row.file[k] \notin removing'
      BY <2>1 DEF FilesExist
    <3>1. row.file[k] \in Files /\ row.file[k] \notin removing /\ disk[row.file[k]] # "nothing"
      BY DEF FilesExist, Typed
    <3> QED
      BY <3>1, <2>1, <2>3
  <2> QED
    BY <2>1, <2>2, <2>4, <2>5 DEF Stored, RecordedOnce, DoneOnceKept
<1>3. CASE Delete
  <2>1. /\ UNCHANGED <<pc, file, regen, disk, stored, marking>>
        /\ row'.gone = TRUE /\ \A k \in Kinds : row'.file[k] = NoFile
        /\ removing' = removing \cup ({row.file[k] : k \in Kinds} \ {NoFile})
    BY <1>3 DEF Delete
  <2>2. Typed'
    <3>1. row' \in [gone : BOOLEAN, file : [Kinds -> Files \cup {NoFile}],
                    failed : [Kinds -> BOOLEAN]]
      BY <1>3 DEF Delete
    <3>2. removing' \subseteq 1..stored'
      <4>1. ASSUME NEW k \in Kinds, row.file[k] # NoFile PROVE row.file[k] \in 1..stored
        BY <4>1 DEF Typed, Stored, Files, NoFile
      <4>2. removing \subseteq 1..stored
        BY DEF Typed
      <4> SUFFICES ASSUME NEW f \in removing' PROVE f \in 1..stored
        BY <2>1
      <4>3. f \in removing \/ \E k \in Kinds : row.file[k] = f /\ f # NoFile
        BY <2>1
      <4> QED
        BY <4>1, <4>2, <4>3
    <3> QED
      BY <2>1, <3>1, <3>2 DEF Typed
  <2>3. Owned'
    BY <2>1 DEF Owned, HasWritten
  <2>4. Stored'
    BY <2>1 DEF Stored, Typed, NoFile
  <2> QED
    BY <2>1, <2>2, <2>3, <2>4 DEF RecordedOnce, FilesExist, DoneOnceKept
<1>4. CASE Restart
  <2>1. /\ UNCHANGED <<row, disk, stored>> /\ removing' = {} /\ marking' = {}
        /\ pc' = [c \in Calls |-> "idle"] /\ regen' = "idle"
        /\ file' = [c \in Writers |-> NoFile]
    BY <1>4 DEF Restart, Writers
  <2>2. Typed'
    BY <2>1 DEF Typed, Ended
  <2>3. \A w \in Writers : ~HasWritten(w)' /\ file'[w] = NoFile
    BY <2>1 DEF HasWritten, Writers
  <2> QED
    BY <2>1, <2>2, <2>3, NoNewOwner DEF Typed, NoFile
<1> QED
  BY <1>1, <1>2, <1>3, <1>4

\* Every step keeps the invariant.
THEOREM NextInvariant == IInv /\ [Next]_vars => IInv'
<1> SUFFICES ASSUME IInv, [Next]_vars PROVE IInv'
  OBVIOUS
<1>1. CASE UNCHANGED vars
  <2>1. Typed' /\ \A w \in Writers : HasWritten(w)' => HasWritten(w)
    BY <1>1 DEF vars, IInv, Typed, HasWritten
  <2> QED
    BY <1>1, <2>1, NoNewOwner DEF vars, IInv, Stored
<1>2. ASSUME NEW c \in Calls, Call(c) \/ Step(c) \/ Error(c) PROVE IInv'
  BY <1>2, CallStep, StoreStep, RecordedStep DEF Step
<1> QED
  BY <1>1, <1>2, ThumbnailStep, OtherStep DEF Next

\* The inductive invariant holds in every behaviour.
THEOREM Invariance == Spec => []IInv
BY InitInvariant, NextInvariant, PTL DEF Spec

\* The database refers to files that exist (updateFileBasedMessage,
\* overwriteThumbnail and the deletion in the background).
THEOREM FilesAreThere == Spec => []FilesExist
<1>1. IInv => FilesExist
  BY DEF IInv
<1> QED
  BY Invariance, <1>1, PTL

\* A blob is given up only once its file is recorded or its message deleted.
THEOREM BlobsAreKept == Spec => []DoneOnceKept
<1>1. IInv => DoneOnceKept
  BY DEF IInv
<1> QED
  BY Invariance, <1>1, PTL

-----------------------------------------------------------------------------
(* The locks of the blobs *)

\* What TypeOK says of everything else.
RestTyped ==
    /\ state \in {"unsynced", "syncing", "synced", "failed"}
    /\ server \subseteq Kinds
    /\ faults \in 0..MaxFaults /\ restarts \in 0..MaxRestarts

Inside(c) == pc[c] \notin Ended \cup {"waiting"}

\* In the queue of a lock are the calls that have not ended, each once, and those
\* behind the first one wait.
QueueFits(k) ==
    /\ queue[k] \in Seq(Calls)
    /\ \A i, j \in DOMAIN queue[k] : queue[k][i] = queue[k][j] => i = j
    /\ \A i \in DOMAIN queue[k] :
        /\ Kind(queue[k][i]) = k /\ pc[queue[k][i]] \notin Ended
        /\ i # 1 => pc[queue[k][i]] = "waiting"
    /\ \A c \in Calls : Kind(c) = k /\ pc[c] \notin Ended =>
        \E i \in DOMAIN queue[k] : queue[k][i] = c

LockInv ==
    /\ RestTyped
    /\ queue \in [Kinds -> Seq(Calls)]
    /\ \A k \in Kinds : QueueFits(k)

\* Two calls for one blob are never between the lock and their end both.
OneAtATime == \A c, d \in Calls : Inside(c) /\ Inside(d) /\ Kind(c) = Kind(d) => c = d

LEMMA CallsAppend ==
  ASSUME NEW s \in Seq(Calls), NEW c \in Calls
  PROVE  /\ Append(s, c) \in Seq(Calls)
         /\ Len(s) \in Nat /\ DOMAIN s = 1..Len(s)
         /\ DOMAIN Append(s, c) = 1..Len(s) + 1
         /\ \A i \in DOMAIN s : Append(s, c)[i] = s[i]
         /\ Append(s, c)[Len(s) + 1] = c
  OBVIOUS

LEMMA CallsTail ==
  ASSUME NEW s \in Seq(Calls), s # <<>>
  PROVE  /\ Tail(s) \in Seq(Calls) /\ Head(s) = s[1]
         /\ Len(s) \in Nat \ {0} /\ DOMAIN s = 1..Len(s)
         /\ DOMAIN Tail(s) = 1..Len(s) - 1
         /\ \A i \in DOMAIN Tail(s) : Tail(s)[i] = s[i + 1]
  OBVIOUS

\* Who is at a step of its executor is the first in the queue of its lock.
LEMMA HolderIsFirst ==
  ASSUME Typed, LockInv, NEW c \in Calls, NEW at, at \notin Ended, Holds(c, at)
  PROVE  /\ queue[Kind(c)] # <<>> /\ queue[Kind(c)][1] = c
         /\ 1 \in DOMAIN queue[Kind(c)]
<1> DEFINE s == queue[Kind(c)]
<1>1. pc[c] = at /\ Head(s) = c /\ QueueFits(Kind(c))
  BY KindOf DEF Holds, LockInv
<1>2. s \in Seq(Calls) /\ \E i \in DOMAIN s : s[i] = c
  BY <1>1 DEF QueueFits
<1> HIDE DEF s
<1>3. s # <<>>
  BY <1>2
<1>4. Head(s) = s[1] /\ 1 \in DOMAIN s
  BY <1>2, <1>3, CallsTail
<1> QED
  BY <1>1, <1>3, <1>4 DEF s

\* The holder goes on.
LEMMA MoveStep ==
  ASSUME Typed, LockInv, NEW c \in Calls, NEW at, at \notin Ended, Holds(c, at),
         NEW to, to \notin Ended, pc' = [pc EXCEPT ![c] = to], queue' = queue, RestTyped'
  PROVE  LockInv'
<1>1. pc \in [Calls -> Ended \cup {"waiting", "loading", "downloading", "storing", "written"}]
  BY DEF Typed
<1>2. pc'[c] = to /\ \A d \in Calls \ {c} : pc'[d] = pc[d]
  BY <1>1
<1>3. queue[Kind(c)][1] = c /\ 1 \in DOMAIN queue[Kind(c)] /\ pc[c] = at
  BY HolderIsFirst DEF Holds
<1>4. ASSUME NEW k \in Kinds PROVE QueueFits(k)'
  <2>1. QueueFits(k)
    BY DEF LockInv
  <2>2. \A i \in DOMAIN queue[k] : queue[k][i] \in Calls
    BY <2>1 DEF QueueFits
  <2>3. \A i \in DOMAIN queue[k] : queue[k][i] = c => k = Kind(c) /\ i = 1
    BY <1>3, <2>1 DEF QueueFits
  <2>4. \A i \in DOMAIN queue[k] : pc'[queue[k][i]] \notin Ended
                                   /\ (i # 1 => pc'[queue[k][i]] = "waiting")
    BY <1>2, <2>1, <2>2, <2>3 DEF QueueFits
  <2>5. \A d \in Calls : Kind(d) = k /\ pc'[d] \notin Ended =>
            \E i \in DOMAIN queue[k] : queue[k][i] = d
    BY <1>2, <1>3, <2>1 DEF QueueFits
  <2> QED
    BY <2>1, <2>4, <2>5 DEF QueueFits
<1> QED
  BY <1>4 DEF LockInv

\* It ends, and the next one is the first.
LEMMA EndStep ==
  ASSUME Typed, LockInv, NEW c \in Calls, NEW at, at \notin Ended, Holds(c, at),
         NEW how \in Ended, End(c, how), RestTyped'
  PROVE  LockInv'
<1> DEFINE s == queue[Kind(c)]
           t == Tail(s)
<1>1. /\ pc \in [Calls -> Ended \cup {"waiting", "loading", "downloading", "storing", "written"}]
      /\ queue \in [Kinds -> Seq(Calls)] /\ Kind(c) \in Kinds /\ QueueFits(Kind(c))
  BY KindOf DEF Typed, LockInv
<1>2. /\ pc'[c] = how /\ \A d \in Calls \ {c} : pc'[d] = pc[d]
      /\ queue'[Kind(c)] = t /\ \A k \in Kinds \ {Kind(c)} : queue'[k] = queue[k]
      /\ queue' = [queue EXCEPT ![Kind(c)] = t]
  BY <1>1 DEF End
<1>3. s \in Seq(Calls) /\ s # <<>> /\ s[1] = c /\ 1 \in DOMAIN s
  BY <1>1, HolderIsFirst DEF QueueFits
<1> HIDE DEF s
<1>4. /\ t \in Seq(Calls)
      /\ Len(s) \in Nat \ {0} /\ DOMAIN s = 1..Len(s) /\ DOMAIN t = 1..Len(s) - 1
      /\ \A i \in DOMAIN t : t[i] = s[i + 1]
  BY <1>3, CallsTail
<1> HIDE DEF t
<1>5. \A i \in DOMAIN t : i + 1 \in DOMAIN s /\ i + 1 # 1
  BY <1>4
<1>6. /\ \A i, j \in DOMAIN s : s[i] = s[j] => i = j
      /\ \A i \in DOMAIN s : /\ Kind(s[i]) = Kind(c) /\ s[i] \in Calls
                             /\ pc[s[i]] \notin Ended /\ (i # 1 => pc[s[i]] = "waiting")
      /\ \A d \in Calls : Kind(d) = Kind(c) /\ pc[d] \notin Ended =>
            \E i \in DOMAIN s : s[i] = d
  BY <1>1, <1>3 DEF QueueFits, s
<1>7. QueueFits(Kind(c))'
  <2>1. \A i, j \in DOMAIN t : t[i] = t[j] => i = j
    <3> SUFFICES ASSUME NEW i \in DOMAIN t, NEW j \in DOMAIN t, t[i] = t[j] PROVE i = j
      OBVIOUS
    <3>1. i + 1 = j + 1
      BY <1>4, <1>5, <1>6
    <3>2. i \in Nat /\ j \in Nat
      BY <1>4
    <3> QED
      BY <3>1, <3>2
  <2>2. \A i \in DOMAIN t : /\ Kind(t[i]) = Kind(c) /\ t[i] \in Calls /\ t[i] # c
                            /\ pc[t[i]] = "waiting"
    BY <1>3, <1>4, <1>5, <1>6
  <2>3. \A i \in DOMAIN t : Kind(t[i]) = Kind(c) /\ pc'[t[i]] = "waiting"
    BY <1>2, <2>2
  <2>4. ASSUME NEW d \in Calls, Kind(d) = Kind(c), pc'[d] \notin Ended
        PROVE  \E i \in DOMAIN t : t[i] = d
    <3>1. d # c /\ pc[d] \notin Ended
      BY <1>2, <2>4
    <3>2. PICK i \in DOMAIN s : s[i] = d
      BY <1>6, <2>4, <3>1
    <3>3. i # 1 /\ i \in 1..Len(s)
      BY <1>3, <1>4, <3>1, <3>2
    <3>4. i - 1 \in DOMAIN t /\ (i - 1) + 1 = i
      BY <1>4, <3>3
    <3>5. t[i - 1] = d
      BY <1>4, <3>2, <3>4
    <3> QED
      BY <3>4, <3>5
  <2>5. "waiting" \notin Ended
    BY DEF Ended
  <2> QED
    BY <1>2, <1>4, <2>1, <2>3, <2>4, <2>5 DEF QueueFits
<1>8. ASSUME NEW k \in Kinds, k # Kind(c) PROVE QueueFits(k)'
  <2>1. QueueFits(k) /\ queue'[k] = queue[k]
    BY <1>2, <1>8 DEF LockInv
  <2>2. \A i \in DOMAIN queue[k] : queue[k][i] \in Calls /\ queue[k][i] # c
    BY <1>8, <2>1 DEF QueueFits
  <2>3. \A i \in DOMAIN queue[k] : pc'[queue[k][i]] = pc[queue[k][i]]
    BY <1>2, <2>2
  <2>4. \A d \in Calls : Kind(d) = k => pc'[d] = pc[d]
    BY <1>2, <1>8
  <2> QED
    BY <2>1, <2>3, <2>4 DEF QueueFits
<1>9. queue' \in [Kinds -> Seq(Calls)]
  <2>1. \A k \in Kinds : queue[k] \in Seq(Calls)
    BY <1>1
  <2> QED
    BY <1>1, <1>2, <1>4, <2>1
<1> QED
  BY <1>7, <1>8, <1>9 DEF LockInv

\* It enters the queue behind all others.
LEMMA CallEnters ==
  ASSUME Typed, LockInv, NEW c \in Calls, Call(c)
  PROVE  LockInv'
<1> DEFINE s == queue[Kind(c)]
           t == Append(s, c)
<1>1. /\ pc \in [Calls -> Ended \cup {"waiting", "loading", "downloading", "storing", "written"}]
      /\ queue \in [Kinds -> Seq(Calls)] /\ Kind(c) \in Kinds /\ QueueFits(Kind(c))
  BY KindOf DEF Typed, LockInv
<1>2. /\ pc[c] = "idle" /\ pc'[c] = "waiting" /\ \A d \in Calls \ {c} : pc'[d] = pc[d]
      /\ queue'[Kind(c)] = t /\ \A k \in Kinds \ {Kind(c)} : queue'[k] = queue[k]
      /\ queue' = [queue EXCEPT ![Kind(c)] = t]
  BY <1>1 DEF Call
<1>3. s \in Seq(Calls)
  BY <1>1 DEF QueueFits
<1> HIDE DEF s
<1>4. /\ t \in Seq(Calls) /\ Len(s) \in Nat /\ DOMAIN s = 1..Len(s)
      /\ DOMAIN t = 1..Len(s) + 1
      /\ \A i \in DOMAIN s : t[i] = s[i]
      /\ t[Len(s) + 1] = c
  BY <1>3, CallsAppend
<1> HIDE DEF t
<1>5. /\ \A i, j \in DOMAIN s : s[i] = s[j] => i = j
      /\ \A i \in DOMAIN s : /\ Kind(s[i]) = Kind(c) /\ s[i] \in Calls
                             /\ pc[s[i]] \notin Ended /\ (i # 1 => pc[s[i]] = "waiting")
      /\ \A d \in Calls : Kind(d) = Kind(c) /\ pc[d] \notin Ended =>
            \E i \in DOMAIN s : s[i] = d
  BY <1>1, <1>3 DEF QueueFits, s
<1>6. "idle" \in Ended /\ "waiting" \notin Ended
  BY DEF Ended
<1>7. \A i \in DOMAIN s : s[i] # c
  BY <1>2, <1>5, <1>6
<1>8. \A i \in DOMAIN t : i \in DOMAIN s \/ i = Len(s) + 1
  BY <1>4
<1>9. QueueFits(Kind(c))'
  <2>1. \A i, j \in DOMAIN t : t[i] = t[j] => i = j
    BY <1>4, <1>5, <1>7, <1>8
  <2>2. \A i \in DOMAIN t : /\ Kind(t[i]) = Kind(c) /\ pc'[t[i]] \notin Ended
                            /\ (i # 1 => pc'[t[i]] = "waiting")
    BY <1>2, <1>4, <1>5, <1>6, <1>7, <1>8
  <2>3. ASSUME NEW d \in Calls, Kind(d) = Kind(c), pc'[d] \notin Ended
        PROVE  \E i \in DOMAIN t : t[i] = d
    <3>1. CASE d = c
      BY <1>4, <3>1
    <3>2. CASE d # c
      <4>1. PICK i \in DOMAIN s : s[i] = d
        BY <1>2, <1>5, <2>3, <3>2
      <4>2. i \in DOMAIN t /\ t[i] = d
        BY <1>4, <4>1
      <4> QED
        BY <4>2
    <3> QED
      BY <3>1, <3>2
  <2> QED
    BY <1>2, <1>4, <2>1, <2>2, <2>3 DEF QueueFits
<1>10. ASSUME NEW k \in Kinds, k # Kind(c) PROVE QueueFits(k)'
  <2>1. QueueFits(k) /\ queue'[k] = queue[k]
    BY <1>2, <1>10 DEF LockInv
  <2>2. \A i \in DOMAIN queue[k] : queue[k][i] \in Calls /\ queue[k][i] # c
    BY <1>10, <2>1 DEF QueueFits
  <2>3. \A i \in DOMAIN queue[k] : pc'[queue[k][i]] = pc[queue[k][i]]
    BY <1>2, <2>2
  <2>4. \A d \in Calls : Kind(d) = k => pc'[d] = pc[d]
    BY <1>2, <1>10
  <2> QED
    BY <2>1, <2>3, <2>4 DEF QueueFits
<1>11. queue' \in [Kinds -> Seq(Calls)]
  <2>1. \A k \in Kinds : queue[k] \in Seq(Calls)
    BY <1>1
  <2> QED
    BY <1>1, <1>2, <1>4, <2>1
<1>12. RestTyped'
  BY DEF LockInv, RestTyped, Call
<1> QED
  BY <1>9, <1>10, <1>11, <1>12 DEF LockInv

\* Neither a call nor a lock is touched.
LEMMA LocksKept ==
  ASSUME LockInv, UNCHANGED <<pc, queue>>, RestTyped'
  PROVE  LockInv'
BY DEF LockInv, QueueFits

LEMMA CallKeepsLocks ==
  ASSUME IInv, LockInv, NEW c \in Calls, Call(c) \/ Step(c) \/ Error(c)
  PROVE  LockInv'
<1> DEFINE Inner == {"waiting", "loading", "downloading", "storing", "written"}
<1>1. Typed /\ RestTyped /\ Inner \cap Ended = {}
  BY DEF IInv, LockInv, Ended
<1>2. \A k : Fail(k) => state' \in {"unsynced", "syncing", "synced", "failed"}
  BY <1>1 DEF Fail, RestTyped
<1>3. CASE Call(c)
  BY <1>1, <1>3, CallEnters
<1>4. ASSUME ~Call(c) PROVE RestTyped'
  <2>1. state' \in {"unsynced", "syncing", "synced", "failed"}
    BY <1>1, <1>2, <1>4 DEF RestTyped, Step, Error, Load, Loaded, Refuse, Download, NotFound,
       Downloaded, Store, Recorded, DownloadError, StoreError
  <2>2. UNCHANGED <<server, restarts>>
    BY <1>4 DEF Step, Error, Load, Loaded, Refuse, Download, NotFound,
       Downloaded, Store, Recorded, DownloadError, StoreError
  <2>3. faults' \in 0..MaxFaults
    <3>1. faults' = faults \/ (faults < MaxFaults /\ faults' = faults + 1)
      BY <1>4 DEF Step, Error, Load, Loaded, Refuse, Download, NotFound,
         Downloaded, Store, Recorded, DownloadError, StoreError
    <3>2. MaxFaults \in Nat /\ faults \in 0..MaxFaults
      BY <1>1, FileMessageAssumption DEF RestTyped
    <3> QED
      BY <3>1, <3>2
  <2> QED
    BY <1>1, <2>1, <2>2, <2>3 DEF RestTyped
<1>5. ASSUME ~Call(c)
      PROVE  \E at \in Inner : Holds(c, at) /\
                \/ \E how \in Ended : End(c, how)
                \/ \E to \in Inner : pc' = [pc EXCEPT ![c] = to] /\ queue' = queue
  <2>1. CASE Load(c)
    BY <2>1 DEF Load
  <2>2. CASE Loaded(c)
    BY <2>2 DEF Loaded, Ended
  <2>3. CASE Refuse(c)
    <3>1. End(c, "failed") \/ End(c, "returned")
      BY <2>3 DEF Refuse
    <3>2. Holds(c, "waiting")
      BY <2>3 DEF Refuse
    <3> QED
      BY <3>1, <3>2 DEF Ended
  <2>4. CASE Download(c)
    BY <2>4 DEF Download
  <2>5. CASE NotFound(c)
    BY <2>5 DEF NotFound, Ended
  <2>6. CASE Downloaded(c)
    BY <2>6 DEF Downloaded, Ended
  <2>7. CASE Store(c)
    BY <2>7 DEF Store
  <2>8. CASE Recorded(c)
    <3>1. Holds(c, "written") /\ (End(c, "failed") \/ End(c, "returned"))
      BY <2>8 DEF Recorded
    <3> QED
      BY <3>1 DEF Ended
  <2>9. CASE Error(c)
    BY <2>9 DEF Error, DownloadError, StoreError, Ended
  <2> QED
    BY <1>5, <2>1, <2>2, <2>3, <2>4, <2>5, <2>6, <2>7, <2>8, <2>9 DEF Step
<1>6. ASSUME ~Call(c) PROVE LockInv'
  <2>1. PICK at \in Inner : Holds(c, at) /\
                \/ \E how \in Ended : End(c, how)
                \/ \E to \in Inner : pc' = [pc EXCEPT ![c] = to] /\ queue' = queue
    BY <1>5, <1>6
  <2>2. RestTyped' /\ at \notin Ended
    BY <1>1, <1>4, <1>6
  <2>3. CASE \E how \in Ended : End(c, how)
    BY <1>1, <2>1, <2>2, <2>3, EndStep
  <2>4. CASE \E to \in Inner : pc' = [pc EXCEPT ![c] = to] /\ queue' = queue
    <3>1. PICK to \in Inner : pc' = [pc EXCEPT ![c] = to] /\ queue' = queue
      BY <2>4
    <3>2. to \notin Ended
      BY <1>1
    <3> QED
      BY <1>1, <2>1, <2>2, <3>1, <3>2, MoveStep
  <2> QED
    BY <2>1, <2>3, <2>4
<1> QED
  BY <1>3, <1>6

LEMMA StatesTyped == \A r : StateOf(r) \in {"unsynced", "syncing", "synced", "failed"}
BY DEF StateOf

LEMMA OthersKeepLocks ==
  ASSUME LockInv,
         \/ \E k \in Kinds : Done(k) \/ Expire(k)
         \/ \E f \in Files : Remove(f)
         \/ Generated \/ StoreThumbnail \/ RecordThumbnail \/ Delete
  PROVE  LockInv'
<1>1. UNCHANGED <<pc, queue, state, restarts>>
  BY DEF Done, Expire, Remove, Generated, StoreThumbnail, RecordThumbnail, Delete
<1>2. server' \subseteq server
  BY DEF Done, Expire, Remove, Generated, StoreThumbnail, RecordThumbnail, Delete
<1>3. faults' = faults \/ (faults < MaxFaults /\ faults' = faults + 1)
  BY DEF Done, Expire, Remove, Generated, StoreThumbnail, RecordThumbnail, Delete
<1>4. MaxFaults \in Nat /\ faults \in 0..MaxFaults
  BY FileMessageAssumption DEF LockInv, RestTyped
<1>5. faults' \in 0..MaxFaults
  BY <1>3, <1>4
<1>6. RestTyped'
  BY <1>1, <1>2, <1>5 DEF LockInv, RestTyped
<1> QED
  BY <1>1, <1>6, LocksKept

\* All locks are free, as after the start of the app.
Free == queue = [k \in Kinds |-> <<>>] /\ pc = [c \in Calls |-> "idle"] /\ RestTyped

LEMMA FreeLocks == Free => LockInv
<1> SUFFICES ASSUME Free PROVE LockInv
  OBVIOUS
<1>1. <<>> \in Seq(Calls) /\ DOMAIN <<>> = {}
  OBVIOUS
<1>2. \A k \in Kinds : queue[k] = <<>>
  BY DEF Free
<1>3. \A c \in Calls : pc[c] \in Ended
  BY DEF Free, Ended
<1>4. ASSUME NEW k \in Kinds PROVE QueueFits(k)
  BY <1>1, <1>2, <1>3 DEF QueueFits
<1> QED
  BY <1>1, <1>4 DEF Free, LockInv

LEMMA RestartKeepsLocks == LockInv /\ Restart => LockInv'
<1>1. LockInv /\ Restart => Free'
  <2> SUFFICES ASSUME LockInv, Restart PROVE Free'
    OBVIOUS
  <2>1. /\ restarts < MaxRestarts /\ restarts' = restarts + 1
        /\ state' = StateOf(row) /\ UNCHANGED <<server, faults>>
        /\ queue' = [k \in Kinds |-> <<>>] /\ pc' = [c \in Calls |-> "idle"]
    BY DEF Restart
  <2>2. MaxRestarts \in Nat /\ restarts \in 0..MaxRestarts
    BY FileMessageAssumption DEF LockInv, RestTyped
  <2>3. restarts' \in 0..MaxRestarts
    BY <2>1, <2>2
  <2>4. RestTyped'
    BY <2>1, <2>3, StatesTyped DEF LockInv, RestTyped
  <2> QED
    BY <2>1, <2>4 DEF Free
<1> QED
  BY <1>1, FreeLocks, PTL

\* The locks are held by one call each, and handed on.
THEOREM LockInvariance == Spec => []LockInv
<1>1. Init => LockInv
  <2> SUFFICES ASSUME Init PROVE LockInv
    OBVIOUS
  <2>1. RestTyped
    BY FileMessageAssumption, StatesTyped DEF Init, RestTyped
  <2> QED
    BY <2>1, FreeLocks DEF Init, Free
<1>2. IInv /\ LockInv /\ [Next]_vars => LockInv'
  <2> SUFFICES ASSUME IInv, LockInv, [Next]_vars PROVE LockInv'
    OBVIOUS
  <2>1. CASE UNCHANGED vars
    BY <2>1, LocksKept DEF vars, LockInv, RestTyped
  <2>2. ASSUME NEW c \in Calls, Call(c) \/ Step(c) \/ Error(c) PROVE LockInv'
    BY <2>2, CallKeepsLocks
  <2> QED
    BY <2>1, <2>2, OthersKeepLocks, RestartKeepsLocks DEF Next
<1> QED
  BY <1>1, <1>2, Invariance, PTL DEF Spec

\* Type correctness of FileMessage.
THEOREM TypeCorrect == Spec => []TypeOK
<1>1. IInv /\ LockInv => TypeOK
  <2> SUFFICES ASSUME IInv, LockInv PROVE TypeOK
    OBVIOUS
  <2>1. removing \subseteq Files
    BY Constants DEF IInv, Typed, Files
  <2> QED
    BY <2>1 DEF IInv, Typed, LockInv, RestTyped, TypeOK, Writers
<1> QED
  BY <1>1, Invariance, LockInvariance, PTL

\* A blob is loaded or downloaded for one call at a time (AsyncLock.with around
\* blob and thumbnailBlob), whichever calls fail.
THEOREM CallsTakeTurns == Spec => []OneAtATime
<1>1. IInv /\ LockInv => OneAtATime
  <2> SUFFICES ASSUME LockInv, NEW c \in Calls, NEW d \in Calls,
                      Inside(c), Inside(d), Kind(c) = Kind(d)
               PROVE  c = d
    BY DEF OneAtATime
  <2>1. QueueFits(Kind(c))
    BY KindOf DEF LockInv
  <2>2. /\ pc[c] \notin Ended /\ pc[d] \notin Ended
        /\ pc[c] # "waiting" /\ pc[d] # "waiting"
    BY DEF Inside
  <2>3. PICK i \in DOMAIN queue[Kind(c)] : queue[Kind(c)][i] = c
    BY <2>1, <2>2 DEF QueueFits
  <2>4. PICK j \in DOMAIN queue[Kind(c)] : queue[Kind(c)][j] = d
    BY <2>1, <2>2 DEF QueueFits
  <2>5. i = 1 /\ j = 1
    BY <2>1, <2>2, <2>3, <2>4 DEF QueueFits
  <2> QED
    BY <2>3, <2>4, <2>5
<1> QED
  BY <1>1, Invariance, LockInvariance, PTL
=============================================================================
