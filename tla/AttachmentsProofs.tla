------------------------- MODULE AttachmentsProofs --------------------------
(* Theorems about Attachments, for any number of uploads, messages, journal *)
(* entries, workers and mishaps.                                            *)
EXTENDS Attachments, TLAPS

USE AttachmentsAssumption

Kinds == {"upload", "thread", "channel", "save", "clean", "sweep"}

(* The fields of a worker's task are what it was made of. *)
LEMMA TaskFields ==
    ASSUME NEW kind, NEW doomed, NEW check, NEW unlink
    PROVE  LET j == Task(kind, doomed, check, unlink)
           IN  /\ j.kind = kind /\ j.doomed = doomed
               /\ j.check = check /\ j.unlink = unlink
BY DEF Task

(* A task of well-formed parts is a well-formed job. *)
LEMMA TaskType ==
    ASSUME NEW kind \in Kinds, NEW doomed \in SUBSET Messages,
           NEW check \in SUBSET Uploads, NEW unlink \in SUBSET Uploads
    PROVE  Task(kind, doomed, check, unlink) \in Job
BY DEF Task, Job, Kinds

(* The parts of a job that some worker has. *)
LEMMA JobFields ==
    ASSUME TypeOK, NEW w \in Workers, job[w] # None
    PROVE  /\ job[w] \in Job
           /\ job[w].kind \in Kinds /\ job[w].doomed \subseteq Messages
           /\ job[w].check \subseteq Uploads /\ job[w].unlink \subseteq Uploads
BY DEF TypeOK, Job, Kinds

(* The uploads of a set of messages are uploads. *)
LEMMA UploadsOfType ==
    ASSUME TypeOK, NEW S \in SUBSET Messages
    PROVE  UploadsOf(S) \subseteq Uploads
BY DEF UploadsOf, TypeOK

(* Ending, starting and continuing a task leave jobs behind. *)
LEMMA JobsType ==
    ASSUME TypeOK, NEW w \in Workers
    PROVE  /\ Ends(w) => job' \in [Workers -> Job \cup {None}]
           /\ \A j \in Job : Starts(w, j) => job' \in [Workers -> Job \cup {None}]
           /\ \A kind \in Kinds, check \in SUBSET Uploads, unlink \in SUBSET Uploads :
                 GoesOn(w, kind, check, unlink) => job' \in [Workers -> Job \cup {None}]
<1>1. Ends(w) => job' \in [Workers -> Job \cup {None}]
  BY DEF Ends, TypeOK
<1>2. ASSUME NEW j \in Job, Starts(w, j) PROVE job' \in [Workers -> Job \cup {None}]
  BY <1>2 DEF Starts, TypeOK
<1>3. ASSUME NEW kind \in Kinds, NEW check \in SUBSET Uploads,
             NEW unlink \in SUBSET Uploads, GoesOn(w, kind, check, unlink)
      PROVE  job' \in [Workers -> Job \cup {None}]
  <2>1. Task(kind, {}, check, unlink) \in Job
    BY TaskType
  <2> QED BY <1>3, <2>1 DEF GoesOn, TypeOK
<1> QED BY <1>1, <1>2, <1>3

(* What a worker's step leaves of the jobs. *)
LEMMA StartsJob ==
    ASSUME TypeOK, NEW w \in Workers, NEW kind \in Kinds,
           NEW doomed \in SUBSET Messages, NEW check \in SUBSET Uploads,
           NEW unlink \in SUBSET Uploads,
           Starts(w, Task(kind, doomed, check, unlink))
    PROVE  /\ \A v \in Workers \ {w} : job'[v] = job[v]
           /\ job[w] = None
           /\ job'[w] # None /\ job'[w].kind = kind /\ job'[w].doomed = doomed
           /\ job'[w].check = check /\ job'[w].unlink = unlink
<1>1. job'[w] = Task(kind, doomed, check, unlink)
  BY DEF Starts, TypeOK
<1> QED BY <1>1, TaskFields, TaskType DEF Starts, TypeOK

(* A worker that ends its task has none; the other workers keep theirs. *)
LEMMA EndsJob ==
    ASSUME TypeOK, NEW w \in Workers, Ends(w)
    PROVE  (\A v \in Workers \ {w} : job'[v] = job[v]) /\ job'[w] = None
BY DEF Ends, TypeOK

(* A worker goes on with what is left of its task, and drops the task when nothing is. *)
LEMMA GoesOnJob ==
    ASSUME TypeOK, NEW w \in Workers, NEW kind \in Kinds,
           NEW check \in SUBSET Uploads, NEW unlink \in SUBSET Uploads,
           GoesOn(w, kind, check, unlink)
    PROVE  /\ \A v \in Workers \ {w} : job'[v] = job[v]
           /\ check \cup unlink # {} => job'[w] # None
           /\ job'[w] # None =>
                 /\ job'[w].kind = kind /\ job'[w].doomed = {}
                 /\ job'[w].check = check /\ job'[w].unlink = unlink
<1> DEFINE t == Task(kind, {}, check, unlink)
<1>1. /\ t # None /\ t.kind = kind /\ t.doomed = {}
      /\ t.check = check /\ t.unlink = unlink
  BY TaskFields, TaskType
<1>2. job'[w] = IF check = {} /\ unlink = {} THEN None ELSE t
  BY DEF GoesOn, TypeOK
<1>3. \A v \in Workers \ {w} : job'[v] = job[v]
  BY DEF GoesOn, TypeOK
<1> HIDE DEF t
<1> QED BY <1>1, <1>2, <1>3

(* A cleanup or a sweep that goes on is of the same kind. *)
LEMMA GoesOnSame ==
    ASSUME TypeOK, NEW w \in Workers, job[w] # None,
           NEW check \in SUBSET Uploads, NEW unlink \in SUBSET Uploads,
           GoesOn(w, job[w].kind, check, unlink)
    PROVE  /\ \A v \in Workers \ {w} : job'[v] = job[v]
           /\ check \cup unlink # {} => job'[w] # None
           /\ job'[w] # None =>
                 /\ job'[w].kind = job[w].kind /\ job'[w].doomed = {}
                 /\ job'[w].check = check /\ job'[w].unlink = unlink
<1> DEFINE kind == job[w].kind
<1>1. kind \in Kinds
  BY JobFields
<1>2. GoesOn(w, kind, check, unlink)
  OBVIOUS
<1> HIDE DEF kind
<1>3. /\ \A v \in Workers \ {w} : job'[v] = job[v]
      /\ check \cup unlink # {} => job'[w] # None
      /\ job'[w] # None =>
            /\ job'[w].kind = kind /\ job'[w].doomed = {}
            /\ job'[w].check = check /\ job'[w].unlink = unlink
  BY <1>1, <1>2, GoesOnJob
<1> QED BY <1>3 DEF kind

(* How a cleanup or sweep w goes on, and what it leaves of the other jobs.  *)
CleanupGoesOn(w, check, unlink) ==
    /\ Doing(w, "clean") \/ Doing(w, "sweep")
    /\ \A v \in Workers \ {w} : job'[v] = job[v]
    /\ check \cup unlink # {} => job'[w] # None
    /\ job'[w] # None => /\ job'[w].kind = job[w].kind
                         /\ job'[w].check = check /\ job'[w].unlink = unlink

(* GoesOn, for a worker that removes uploads. *)
LEMMA CleanupEffect ==
    ASSUME TypeOK, NEW w \in Workers, Doing(w, "clean") \/ Doing(w, "sweep"),
           NEW check \in SUBSET Uploads, NEW unlink \in SUBSET Uploads,
           GoesOn(w, job[w].kind, check, unlink)
    PROVE  /\ CleanupGoesOn(w, check, unlink)
           /\ job' \in [Workers -> Job \cup {None}]
<1>1. job[w] # None /\ job[w].kind \in Kinds
  BY JobFields DEF Doing
<1> QED BY <1>1, GoesOnSame, JobsType DEF CleanupGoesOn

(* removeUnreferencedPrivateUpload takes one upload off the list, and its row if it is
   removable. *)
LEMMA RemoveRowEffect ==
    ASSUME TypeOK, NEW w \in Workers, RemoveRow(w)
    PROVE  \E a \in Uploads : LET removed == IF Removable(job[w].kind, a) THEN {a} ELSE {} IN
              /\ a \in job[w].check
              /\ row' = [b \in Uploads |-> IF b \in removed THEN "gone" ELSE row[b]]
              /\ CleanupGoesOn(w, job[w].check \ {a}, job[w].unlink \cup removed)
              /\ job' \in [Workers -> Job \cup {None}]
<1>1. PICK a \in job[w].check :
        LET j == job[w]
            removed == IF Removable(j.kind, a) THEN {a} ELSE {}
        IN /\ row' = [b \in Uploads |-> IF b \in removed THEN "gone" ELSE row[b]]
           /\ GoesOn(w, j.kind, j.check \ {a}, j.unlink \cup removed)
  BY DEF RemoveRow
<1> DEFINE removed == IF Removable(job[w].kind, a) THEN {a} ELSE {}
           check == job[w].check \ {a}
           unlink == job[w].unlink \cup removed
<1>2. /\ Doing(w, "clean") \/ Doing(w, "sweep")
      /\ a \in Uploads /\ check \in SUBSET Uploads /\ unlink \in SUBSET Uploads
  BY JobFields DEF RemoveRow, Doing
<1>3. GoesOn(w, job[w].kind, check, unlink)
  BY <1>1
<1>4. CleanupGoesOn(w, check, unlink) /\ job' \in [Workers -> Job \cup {None}]
  <2> HIDE DEF check, unlink
  <2> QED BY <1>2, <1>3, CleanupEffect
<1> QED BY <1>1, <1>2, <1>4

(* unlinkPrivateStorageKey removes the file of one upload on the list. *)
LEMMA UnlinkEffect ==
    ASSUME TypeOK, NEW w \in Workers, Unlink(w)
    PROVE  \E a \in Uploads : /\ a \in job[w].unlink /\ file' = file \ {a}
                              /\ CleanupGoesOn(w, job[w].check, job[w].unlink \ {a})
                              /\ job' \in [Workers -> Job \cup {None}]
<1>1. PICK a \in job[w].unlink :
        /\ file' = file \ {a}
        /\ GoesOn(w, job[w].kind, job[w].check, job[w].unlink \ {a})
  BY DEF Unlink
<1> DEFINE check == job[w].check
           unlink == job[w].unlink \ {a}
<1>2. /\ Doing(w, "clean") \/ Doing(w, "sweep")
      /\ a \in Uploads /\ check \in SUBSET Uploads /\ unlink \in SUBSET Uploads
  BY JobFields DEF Unlink, Doing
<1>3. GoesOn(w, job[w].kind, check, unlink)
  BY <1>1
<1>4. CleanupGoesOn(w, check, unlink) /\ job' \in [Workers -> Job \cup {None}]
  <2> HIDE DEF check, unlink
  <2> QED BY <1>2, <1>3, CleanupEffect
<1> QED BY <1>1, <1>2, <1>4

(* A failure takes one upload off the list; it is lost if its row or file was due to go. *)
LEMMA CleanupFailsEffect ==
    ASSUME TypeOK, NEW w \in Workers, CleanupFails(w)
    PROVE  \E a \in Uploads :
              /\ lost' = lost \cup ({a} \cap Abandoned(job[w]))
              /\ CleanupGoesOn(w, job[w].check \ {a}, job[w].unlink \ {a})
              /\ job' \in [Workers -> Job \cup {None}]
<1>1. PICK a \in job[w].check \cup job[w].unlink :
        /\ lost' = lost \cup ({a} \cap Abandoned(job[w]))
        /\ GoesOn(w, job[w].kind, job[w].check \ {a}, job[w].unlink \ {a})
  BY DEF CleanupFails
<1> DEFINE check == job[w].check \ {a}
           unlink == job[w].unlink \ {a}
<1>2. /\ Doing(w, "clean") \/ Doing(w, "sweep")
      /\ a \in Uploads /\ check \in SUBSET Uploads /\ unlink \in SUBSET Uploads
  BY JobFields DEF CleanupFails, Doing
<1>3. GoesOn(w, job[w].kind, check, unlink)
  BY <1>1
<1>4. CleanupGoesOn(w, check, unlink) /\ job' \in [Workers -> Job \cup {None}]
  <2> HIDE DEF check, unlink
  <2> QED BY <1>2, <1>3, CleanupEffect
<1> QED BY <1>1, <1>2, <1>4

-----------------------------------------------------------------------------
(* Types *)

(* What has ever been attached was claimed, so that no second message can   *)
(* claim it.                                                                *)
AttachedIsClaimed ==
    \A m \in Messages : attachment[m] # None => row[attachment[m]] \in {"claimed", "gone"}

(* The initial state is well formed. *)
LEMMA InitType == Init => TypeOK /\ AttachedIsClaimed
BY DEF Init, TypeOK, AttachedIsClaimed, Posted

(* A step of the uploads, the sweeps and the crash: posts and entries stay. *)
LEMMA TypeFrame ==
    ASSUME TypeOK, AttachedIsClaimed, UNCHANGED <<posts, entry, history>>,
           file' \subseteq Uploads, lost' \subseteq Uploads,
           row' \in [Uploads -> {"new", "pending", "claimed", "gone"}],
           job' \in [Workers -> Job \cup {None}],
           mishaps' \in 0..MaxMishaps,
           \A a \in Uploads : row[a] \in {"claimed", "gone"} => row'[a] \in {"claimed", "gone"}
    PROVE  TypeOK' /\ AttachedIsClaimed'
<1>1. Posted' = Posted
  BY DEF Posted, posts
<1> QED BY <1>1 DEF TypeOK, AttachedIsClaimed, posts, history

(* A step that reads and starts, or gives up, a job. *)
LEMMA TypeRead ==
    ASSUME TypeOK, AttachedIsClaimed,
           UNCHANGED <<file, row, posts, entry, history, lost, mishaps>>,
           job' \in [Workers -> Job \cup {None}]
    PROVE  TypeOK' /\ AttachedIsClaimed'
BY TypeFrame DEF TypeOK

(* Deleting messages keeps the types, and keeps attached uploads claimed. *)
LEMMA DeletedType ==
    ASSUME TypeOK, AttachedIsClaimed, NEW S \in SUBSET Posted, Deleted(S),
           UNCHANGED <<file, row, attachment, entry, late, mishaps>>,
           open' \in BOOLEAN, Posted \ S # {} => open',
           lost' \subseteq Uploads,
           job' \in [Workers -> Job \cup {None}]
    PROVE  TypeOK' /\ AttachedIsClaimed'
<1>1. /\ message' \in [Messages -> {"new", "posted", "deleted"}]
      /\ parent' \in [Messages -> Messages \cup {None}]
      /\ surfaced' \subseteq Messages
  BY DEF Deleted, Posted, TypeOK
<1>2. Posted' = Posted \ S
  BY DEF Deleted, Posted, TypeOK
<1>3. \A m \in Posted' : parent'[m] \in Posted' \cup {None}
  BY <1>2 DEF Deleted, Posted, TypeOK
<1> QED BY <1>1, <1>2, <1>3 DEF TypeOK, AttachedIsClaimed

-----------------------------------------------------------------------------
(* What the jobs rely on *)

(* An upload is private to its request until the row is there. *)
UploadUnderWay(w) ==
    Doing(w, "upload") => \A a \in job[w].check : row[a] = "new" /\ a \in file
(* A file is removed after its row. *)
UnlinksRemoved(w) ==
    job[w] # None => \A a \in job[w].unlink : row[a] = "gone"
(* Whoever saves a message to the journal has read its attachment. *)
SaveRead(w) ==
    Doing(w, "save") => \E m \in Messages : /\ job[w].doomed = {m}
                                            /\ message[m] # "new" /\ attachment[m] # None
JobsRight ==
    /\ \A w \in Workers : UploadUnderWay(w) /\ UnlinksRemoved(w) /\ SaveRead(w)
    /\ \A v, w \in Workers : Doing(v, "upload") /\ Doing(w, "upload") /\ v # w
                                => job[v].check \cap job[w].check = {}

RowsStored == \A a \in Uploads : row[a] \in {"pending", "claimed"} => a \in file

Safe == /\ TypeOK /\ AttachedIsClaimed /\ JobsRight
        /\ RowsStored /\ ReferencesAreServed

(* What the jobs say survives a step of one worker that takes away none of the things
   the others read. *)
LEMMA JobsFrame ==
    ASSUME JobsRight, NEW w \in Workers,
           \A v \in Workers \ {w} : job'[v] = job[v],
           \A a \in Uploads : row[a] = "gone" => row'[a] = "gone",
           \A v \in Workers \ {w} : job[v] # None => job[v].unlink \subseteq Uploads,
           \A v \in Workers \ {w} : Doing(v, "upload") =>
               \A a \in job[v].check : row'[a] = "new" /\ a \in file',
           \A m \in Messages : message[m] # "new" =>
               message'[m] # "new" /\ attachment'[m] = attachment[m],
           UploadUnderWay(w)', UnlinksRemoved(w)', SaveRead(w)',
           Doing(w, "upload")' => \A v \in Workers \ {w} : Doing(v, "upload") =>
               job[v].check \cap job'[w].check = {}
    PROVE  JobsRight'
<1>1. ASSUME NEW v \in Workers
      PROVE  UploadUnderWay(v)' /\ UnlinksRemoved(v)' /\ SaveRead(v)'
  <2>1. CASE v # w
    <3>1. job'[v] = job[v]
      BY <2>1
    <3>2. UploadUnderWay(v)'
      BY <2>1, <3>1 DEF UploadUnderWay, Doing
    <3>3. UnlinksRemoved(v)'
      BY <2>1, <3>1 DEF JobsRight, UnlinksRemoved
    <3>4. SaveRead(v)'
      BY <2>1, <3>1 DEF JobsRight, SaveRead, Doing
    <3> QED BY <3>2, <3>3, <3>4
  <2> QED BY <2>1
<1>2. ASSUME NEW u \in Workers, NEW v \in Workers, u # v,
             Doing(u, "upload")', Doing(v, "upload")'
      PROVE  job'[u].check \cap job'[v].check = {}
  <2>1. CASE u = w
    BY <1>2, <2>1 DEF Doing
  <2>2. CASE v = w
    BY <1>2, <2>2 DEF Doing
  <2>3. CASE u # w /\ v # w
    BY <1>2, <2>3 DEF JobsRight, Doing
  <2> QED BY <2>1, <2>2, <2>3
<1> QED BY <1>1, <1>2 DEF JobsRight

(* Rows, files and posts as they were: only the new job of w is to check.   *)
LEMMA JobsRead ==
    ASSUME TypeOK, JobsRight, NEW w \in Workers,
           \A v \in Workers \ {w} : job'[v] = job[v],
           UNCHANGED <<file, row>>,
           \A m \in Messages : message[m] # "new" =>
               message'[m] # "new" /\ attachment'[m] = attachment[m],
           UnlinksRemoved(w)', SaveRead(w)', ~Doing(w, "upload")'
    PROVE  JobsRight'
<1>1. UploadUnderWay(w)'
  BY DEF UploadUnderWay
<1>2. \A v \in Workers \ {w} : Doing(v, "upload") =>
          \A a \in job[v].check : row'[a] = "new" /\ a \in file'
  BY DEF JobsRight, UploadUnderWay
<1>3. \A v \in Workers : job[v] # None => job[v].unlink \subseteq Uploads
  BY JobFields
<1> QED BY <1>1, <1>2, <1>3, JobsFrame

(* References stay when messages and journal stay. *)
LEMMA ReferencedFrame ==
    ASSUME UNCHANGED <<posts, entry>>
    PROVE  Posted' = Posted /\ \A a : Referenced(a)' <=> Referenced(a)
BY DEF posts, Posted, Referenced

(* Rows and files may go where nothing shows the upload. *)
LEMMA ServedFrame ==
    ASSUME RowsStored, ReferencesAreServed, TypeOK,
           \A a \in Uploads : Referenced(a)' => Referenced(a),
           \A a \in Uploads : row'[a] \in {"pending", "claimed"} => a \in file',
           \A a \in Uploads : row[a] = "claimed" /\ Referenced(a) => row'[a] = "claimed"
    PROVE  RowsStored' /\ ReferencesAreServed'
BY DEF RowsStored, ReferencesAreServed

(* Deleting messages adds no reference and makes no used message new. *)
LEMMA DeletedReferences ==
    ASSUME TypeOK, NEW S \in SUBSET Posted, Deleted(S), UNCHANGED <<attachment, entry>>
    PROVE  /\ Posted' = Posted \ S
           /\ \A a : Referenced(a)' => Referenced(a)
           /\ \A m \in Messages : message[m] # "new" => message'[m] # "new"
<1>1. Posted' = Posted \ S
  BY DEF Deleted, Posted, TypeOK
<1>2. \A m \in Messages : message[m] # "new" => message'[m] # "new"
  BY DEF Deleted, TypeOK
<1> QED BY <1>1, <1>2 DEF Referenced

-----------------------------------------------------------------------------
(* One lemma for each action *)

(* Safe is kept by the first half of an upload, which writes the file. *)
LEMMA WriteFileSafe ==
    ASSUME Safe, NEW w \in Workers, NEW a \in Uploads, WriteFile(w, a)
    PROVE  Safe'
<1> USE DEF Safe
<1>1. /\ row[a] = "new" /\ a \notin file /\ file' = file \cup {a}
      /\ UNCHANGED <<row, posts, entry, history, lost, mishaps>>
      /\ Starts(w, Task("upload", {}, {a}, {}))
  BY DEF WriteFile
<1>2. /\ job[w] = None /\ job'[w] # None /\ job'[w].kind = "upload"
      /\ job'[w].check = {a} /\ job'[w].unlink = {}
      /\ \A v \in Workers \ {w} : job'[v] = job[v]
  BY <1>1, StartsJob DEF Kinds
<1>3. TypeOK' /\ AttachedIsClaimed'
  <2>1. Task("upload", {}, {a}, {}) \in Job
    BY TaskType DEF Kinds
  <2> QED BY <1>1, <2>1, JobsType, TypeFrame DEF TypeOK
<1>4. JobsRight'
  <2>1. UploadUnderWay(w)' /\ UnlinksRemoved(w)' /\ SaveRead(w)'
    BY <1>1, <1>2 DEF UploadUnderWay, UnlinksRemoved, SaveRead, Doing
  <2>2. \A v \in Workers \ {w} : Doing(v, "upload") =>
           /\ \A b \in job[v].check : row'[b] = "new" /\ b \in file'
           /\ job[v].check \cap job'[w].check = {}
    BY <1>1, <1>2 DEF JobsRight, UploadUnderWay
  <2> QED BY <1>1, <1>2, <2>1, <2>2, JobFields, JobsFrame DEF posts
<1>5. RowsStored' /\ ReferencesAreServed'
  BY <1>1, ReferencedFrame, ServedFrame DEF RowsStored
<1> QED BY <1>3, <1>4, <1>5

(* Safe is kept by the second half, which creates the row. *)
LEMMA CreateRowSafe ==
    ASSUME Safe, NEW w \in Workers, CreateRow(w) PROVE Safe'
<1> USE DEF Safe
<1>1. /\ Doing(w, "upload") /\ Ends(w)
      /\ row' = [a \in Uploads |-> IF a \in job[w].check THEN "pending" ELSE row[a]]
      /\ UNCHANGED <<file, posts, entry, history, lost, mishaps>>
  BY DEF CreateRow
<1>2. job'[w] = None /\ \A v \in Workers \ {w} : job'[v] = job[v]
  BY <1>1, EndsJob
<1>3. \A a \in job[w].check : row[a] = "new" /\ a \in file
  BY <1>1 DEF JobsRight, UploadUnderWay
<1>4. TypeOK' /\ AttachedIsClaimed'
  BY <1>1, <1>3, JobsType, TypeFrame DEF TypeOK
<1>5. JobsRight'
  <2>1. UploadUnderWay(w)' /\ UnlinksRemoved(w)' /\ SaveRead(w)' /\ ~Doing(w, "upload")'
    BY <1>2 DEF UploadUnderWay, UnlinksRemoved, SaveRead, Doing
  <2>2. \A v \in Workers \ {w} : Doing(v, "upload") =>
           \A b \in job[v].check : row'[b] = "new" /\ b \in file'
    BY <1>1, JobFields DEF JobsRight, UploadUnderWay, Doing
  <2> QED BY <1>1, <1>2, <1>3, <2>1, <2>2, JobFields, JobsFrame DEF posts
<1>6. RowsStored' /\ ReferencesAreServed'
  <2>1. \A a \in Uploads : row'[a] \in {"pending", "claimed"} => a \in file'
    BY <1>1, <1>3 DEF RowsStored
  <2>2. \A a \in Uploads : row[a] = "claimed" => row'[a] = "claimed"
    BY <1>1, <1>3
  <2> QED BY <1>1, <2>1, <2>2, ReferencedFrame, ServedFrame
<1> QED BY <1>4, <1>5, <1>6

(* Safe is kept when that fails, whether the file can be removed or not. *)
LEMMA CreateFailsSafe ==
    ASSUME Safe, NEW w \in Workers, CreateFails(w) PROVE Safe'
<1> USE DEF Safe
<1>1. /\ Doing(w, "upload") /\ Ends(w) /\ file \ job[w].check \subseteq file' /\ file' \subseteq file
      /\ lost' \subseteq lost \cup job[w].check
      /\ row' = [a \in Uploads |-> IF a \in job[w].check THEN "gone" ELSE row[a]]
      /\ UNCHANGED <<posts, entry, history>>
      /\ mishaps < MaxMishaps /\ mishaps' = mishaps + 1
  BY DEF CreateFails, GoesWrong
<1>2. job'[w] = None /\ \A v \in Workers \ {w} : job'[v] = job[v]
  BY <1>1, EndsJob
<1>3. \A a \in job[w].check : row[a] = "new" /\ a \in file
  BY <1>1 DEF JobsRight, UploadUnderWay
<1>4. TypeOK' /\ AttachedIsClaimed'
  <2>1. mishaps' \in 0..MaxMishaps
    BY <1>1 DEF TypeOK
  <2> QED BY <1>1, <1>3, <2>1, JobsType, TypeFrame DEF TypeOK
<1>5. JobsRight'
  <2>1. UploadUnderWay(w)' /\ UnlinksRemoved(w)' /\ SaveRead(w)' /\ ~Doing(w, "upload")'
    BY <1>2 DEF UploadUnderWay, UnlinksRemoved, SaveRead, Doing
  <2>2. \A v \in Workers \ {w} : Doing(v, "upload") =>
           \A b \in job[v].check : row'[b] = "new" /\ b \in file'
    BY <1>1, JobFields DEF JobsRight, UploadUnderWay, Doing
  <2> QED BY <1>1, <1>2, <1>3, <2>1, <2>2, JobFields, JobsFrame DEF posts
<1>6. RowsStored' /\ ReferencesAreServed'
  <2>1. \A a \in Uploads : row'[a] \in {"pending", "claimed"} => a \in file'
    BY <1>1, <1>3 DEF RowsStored
  <2>2. \A a \in Uploads : row[a] = "claimed" => row'[a] = "claimed"
    BY <1>1, <1>3
  <2> QED BY <1>1, <2>1, <2>2, ReferencedFrame, ServedFrame
<1> QED BY <1>4, <1>5, <1>6

(* Safe is kept by a message and its claim of an upload. *)
LEMMA SendSafe ==
    ASSUME Safe, NEW m \in Messages, NEW a \in Uploads \cup {None},
           NEW p \in Messages \cup {None}, Send(m, a, p)
    PROVE  Safe'
<1> USE DEF Safe
<1>1. /\ open /\ message[m] = "new" /\ (a # None => row[a] = "pending")
      /\ (p # None => p \in Posted)
      /\ row' = [b \in Uploads |-> IF b = a THEN "claimed" ELSE row[b]]
      /\ message' = [message EXCEPT ![m] = "posted"]
      /\ attachment' = [attachment EXCEPT ![m] = a]
      /\ parent' = [parent EXCEPT ![m] = p]
      /\ late' \subseteq late \cup {m}
      /\ UNCHANGED <<file, open, entry, job, surfaced, lost, mishaps>>
  BY DEF Send, Claimable
<1>2. Posted' = Posted \cup {m} /\ m \notin Posted
  BY <1>1 DEF Posted, TypeOK
<1>3. TypeOK'
  <2>1. \A n, k \in Messages : attachment'[n] = attachment'[k]
                                 => n = k \/ attachment'[n] = None
    BY <1>1 DEF TypeOK, AttachedIsClaimed
  <2>2. \A n \in Posted' : parent'[n] \in Posted' \cup {None}
    BY <1>1, <1>2 DEF TypeOK, Posted
  <2>3. /\ row' \in [Uploads -> {"new", "pending", "claimed", "gone"}]
        /\ message' \in [Messages -> {"new", "posted", "deleted"}]
        /\ attachment' \in [Messages -> Uploads \cup {None}]
        /\ parent' \in [Messages -> Messages \cup {None}]
        /\ late' \subseteq Messages
    BY <1>1 DEF TypeOK
  <2> QED BY <1>1, <2>1, <2>2, <2>3 DEF TypeOK
<1>4. AttachedIsClaimed'
  BY <1>1 DEF AttachedIsClaimed, TypeOK
<1>5. JobsRight'
  <2>1. ASSUME NEW w \in Workers
        PROVE  UploadUnderWay(w)' /\ UnlinksRemoved(w)' /\ SaveRead(w)'
    <3>1. UploadUnderWay(w)'
      BY <1>1, JobFields DEF JobsRight, UploadUnderWay, Doing
    <3>2. UnlinksRemoved(w)'
      BY <1>1, JobFields DEF JobsRight, UnlinksRemoved
    <3>3. SaveRead(w)'
      BY <1>1 DEF JobsRight, SaveRead, Doing, TypeOK
    <3> QED BY <3>1, <3>2, <3>3
  <2> QED BY <1>1, <2>1 DEF JobsRight, Doing
<1>6. RowsStored' /\ ReferencesAreServed'
  <2>1. \A b \in Uploads : Referenced(b)' => Referenced(b) \/ b = a
    BY <1>1, <1>2 DEF Referenced, TypeOK, Posted
  <2> QED BY <1>1, <2>1 DEF RowsStored, ReferencesAreServed, TypeOK
<1> QED BY <1>3, <1>4, <1>5, <1>6

(* A thread consists of messages. *)
LEMMA WithRepliesType ==
    ASSUME TypeOK, NEW S \in SUBSET Posted
    PROVE  WithReplies(S) \subseteq Messages
BY DEF WithReplies, Posted

(* Reading what to delete, list or save, and giving up. *)
LEMMA ReadingSafe ==
    ASSUME Safe, NEW w \in Workers,
           UNCHANGED <<file, row, posts, entry, history, lost, mishaps>>,
           NEW kind \in Kinds \ {"upload"}, NEW doomed \in SUBSET Messages,
           NEW check \in SUBSET Uploads,
           Starts(w, Task(kind, doomed, check, {})),
           kind = "save" => \E m \in Messages : /\ doomed = {m} /\ message[m] # "new"
                                                /\ attachment[m] # None
    PROVE  Safe'
<1> USE DEF Safe
<1>1. /\ job[w] = None /\ job'[w] # None /\ job'[w].kind = kind
      /\ job'[w].doomed = doomed /\ job'[w].check = check /\ job'[w].unlink = {}
      /\ \A v \in Workers \ {w} : job'[v] = job[v]
  <2>1. {} \in SUBSET Uploads /\ kind \in Kinds
    OBVIOUS
  <2> QED BY <2>1, StartsJob DEF Safe
<1>2. TypeOK' /\ AttachedIsClaimed'
  <2>1. Task(kind, doomed, check, {}) \in Job
    BY TaskType
  <2> QED BY <2>1, JobsType, TypeRead
<1>3. JobsRight'
  <2>1. UnlinksRemoved(w)' /\ SaveRead(w)' /\ ~Doing(w, "upload")'
    BY <1>1 DEF UnlinksRemoved, SaveRead, Doing, posts
  <2> QED BY <1>1, <2>1, JobsRead DEF posts
<1>4. RowsStored' /\ ReferencesAreServed'
  BY ReferencedFrame, ServedFrame DEF RowsStored
<1> QED BY <1>2, <1>3, <1>4

(* Safe is kept by the handlers that only read and start a task. *)
LEMMA ReadersSafe ==
    ASSUME Safe, NEW w \in Workers,
           \/ Collect(w) \/ CollectChannel(w) \/ ListAbandoned(w)
           \/ \E m \in Messages : ReadMessage(w, m)
    PROVE  Safe'
<1>1. CASE Collect(w)
  <2>1. PICK S \in SUBSET Posted : Starts(w, Task("thread", WithReplies(S), {}, {}))
    BY <1>1 DEF Collect
  <2>2. WithReplies(S) \in SUBSET Messages
    BY WithRepliesType DEF Safe
  <2> QED BY <1>1, <2>1, <2>2, ReadingSafe DEF Collect, Kinds
<1>2. CASE CollectChannel(w)
  <2>1. Posted \in SUBSET Messages
    BY DEF Posted
  <2> QED BY <1>2, <2>1, ReadingSafe DEF CollectChannel, Kinds
<1>3. CASE ListAbandoned(w)
  BY <1>3, ReadingSafe DEF ListAbandoned, Kinds
<1>4. ASSUME NEW m \in Messages, ReadMessage(w, m) PROVE Safe'
  BY <1>4, ReadingSafe DEF ReadMessage, Kinds, Posted
<1> QED BY <1>1, <1>2, <1>3, <1>4

(* Safe is kept by a transaction that is rolled back. *)
LEMMA RollBackSafe ==
    ASSUME Safe, NEW w \in Workers, RollBack(w) PROVE Safe'
<1> USE DEF Safe
<1>1. Ends(w) /\ UNCHANGED <<file, row, posts, entry, history, lost, mishaps>>
  BY DEF RollBack
<1>2. job'[w] = None /\ \A v \in Workers \ {w} : job'[v] = job[v]
  BY <1>1, EndsJob
<1>3. TypeOK' /\ AttachedIsClaimed'
  BY <1>1, JobsType, TypeRead
<1>4. JobsRight'
  <2>1. UnlinksRemoved(w)' /\ SaveRead(w)' /\ ~Doing(w, "upload")'
    BY <1>2 DEF UnlinksRemoved, SaveRead, Doing
  <2> QED BY <1>1, <1>2, <2>1, JobsRead DEF posts
<1>5. RowsStored' /\ ReferencesAreServed'
  BY <1>1, ReferencedFrame, ServedFrame DEF RowsStored
<1> QED BY <1>3, <1>4, <1>5

(* Deleting messages, by thread or with the channel. *)
LEMMA DeletionSafe ==
    ASSUME Safe, NEW w \in Workers, NEW S \in SUBSET Posted, Deleted(S),
           job[w] # None, GoesOn(w, "clean", UploadsOf(job[w].doomed), {}),
           UNCHANGED <<file, row, attachment, entry, late, mishaps>>,
           open' \in BOOLEAN, Posted \ S # {} => open',
           lost' \subseteq Uploads
    PROVE  Safe'
<1> USE DEF Safe
<1>1. UploadsOf(job[w].doomed) \in SUBSET Uploads
  BY JobFields, UploadsOfType
<1>2. TypeOK' /\ AttachedIsClaimed'
  <2>1. job' \in [Workers -> Job \cup {None}]
    BY <1>1, JobsType DEF Kinds
  <2> QED BY <2>1, DeletedType
<1>3. /\ \A v \in Workers \ {w} : job'[v] = job[v]
      /\ job'[w] # None => job'[w].kind = "clean" /\ job'[w].unlink = {}
  <2>1. {} \in SUBSET Uploads /\ "clean" \in Kinds
    BY DEF Kinds
  <2> QED BY <1>1, <2>1, GoesOnJob
<1>4. /\ \A a : Referenced(a)' => Referenced(a)
      /\ \A m \in Messages : message[m] # "new" => message'[m] # "new"
  BY DeletedReferences
<1>5. JobsRight'
  <2>1. UnlinksRemoved(w)' /\ SaveRead(w)' /\ ~Doing(w, "upload")'
    BY <1>3 DEF UnlinksRemoved, SaveRead, Doing
  <2> QED BY <1>3, <1>4, <2>1, JobsRead
<1>6. RowsStored' /\ ReferencesAreServed'
  BY <1>4, ServedFrame DEF RowsStored
<1> QED BY <1>2, <1>5, <1>6

(* Safe is kept by the deletion of a thread or a channel. *)
LEMMA DeletersSafe ==
    ASSUME Safe, NEW w \in Workers, DeleteThread(w) \/ DeleteChannel(w)
    PROVE  Safe'
<1>1. CASE DeleteThread(w)
  <2>1. job[w].doomed \cap Posted \in SUBSET Posted
    OBVIOUS
  <2> QED BY <1>1, <2>1, DeletionSafe DEF DeleteThread, Doing, Safe, TypeOK
<1>2. CASE DeleteChannel(w)
  <2>1. UploadsOf(Posted \ job[w].doomed) \subseteq Uploads
    BY UploadsOfType DEF Posted, Safe
  <2>2. lost' \subseteq Uploads
    BY <1>2, <2>1 DEF DeleteChannel, Safe, TypeOK
  <2> QED BY <1>2, <2>2, DeletionSafe DEF DeleteChannel, Doing
<1> QED BY <1>1, <1>2

(* What an entry is given is the attachment of a message still posted. *)
LEMMA SavedUpload ==
    ASSUME Safe, NEW w \in Workers, Doing(w, "save"), job[w].doomed \subseteq Posted
    PROVE  LET a == CHOOSE b \in UploadsOf(job[w].doomed) : TRUE
           IN  a \in Uploads /\ Referenced(a)
<1>1. PICK m \in Messages : job[w].doomed = {m} /\ attachment[m] # None
  BY DEF Safe, JobsRight, SaveRead
<1>2. UploadsOf(job[w].doomed) = {attachment[m]}
  BY <1>1 DEF UploadsOf
<1>3. attachment[m] \in Uploads /\ Referenced(attachment[m])
  BY <1>1 DEF Safe, TypeOK, Referenced
<1> QED BY <1>2, <1>3

(* Safe is kept by an entry of the journal: what it copies is still claimed. *)
LEMMA SaveMomentSafe ==
    ASSUME Safe, NEW w \in Workers, NEW e \in Entries, SaveMoment(w, e)
    PROVE  Safe'
<1> USE DEF Safe
<1> DEFINE a == CHOOSE b \in UploadsOf(job[w].doomed) : TRUE
<1>1. /\ Doing(w, "save") /\ Ends(w)
      /\ entry' = IF job[w].doomed \subseteq Posted
                  THEN [entry EXCEPT ![e] = a] ELSE entry
      /\ UNCHANGED <<file, row, posts, history, lost, mishaps>>
  BY DEF SaveMoment
<1>2. job'[w] = None /\ \A v \in Workers \ {w} : job'[v] = job[v]
  BY <1>1, EndsJob
<1>3. job[w].doomed \subseteq Posted => a \in Uploads /\ Referenced(a)
  BY <1>1, SavedUpload
<1> HIDE DEF a
<1>4. entry' \in [Entries -> Uploads \cup {None}]
  BY <1>1, <1>3 DEF TypeOK
<1>5. Posted' = Posted
  BY <1>1 DEF posts, Posted
<1>6. TypeOK' /\ AttachedIsClaimed'
  BY <1>1, <1>4, <1>5, JobsType DEF TypeOK, AttachedIsClaimed, posts, history
<1>7. JobsRight'
  <2>1. UnlinksRemoved(w)' /\ SaveRead(w)' /\ ~Doing(w, "upload")'
    BY <1>2 DEF UnlinksRemoved, SaveRead, Doing
  <2> QED BY <1>1, <1>2, <2>1, JobsRead DEF posts
<1>8. \A b \in Uploads : Referenced(b)' => Referenced(b)
  BY <1>1, <1>3, <1>5 DEF Referenced, posts, TypeOK
<1>9. RowsStored' /\ ReferencesAreServed'
  BY <1>1, <1>8, ServedFrame DEF RowsStored
<1> QED BY <1>6, <1>7, <1>9

(* Safe is kept when an entry of the journal is deleted. *)
LEMMA DeleteEntrySafe ==
    ASSUME Safe, NEW w \in Workers, NEW e \in Entries, DeleteEntry(w, e)
    PROVE  Safe'
<1> USE DEF Safe
<1>1. /\ entry[e] # None /\ Starts(w, Task("clean", {}, {entry[e]}, {}))
      /\ entry' = [entry EXCEPT ![e] = None]
      /\ UNCHANGED <<file, row, posts, history, lost, mishaps>>
  BY DEF DeleteEntry
<1>2. {entry[e]} \in SUBSET Uploads
  BY <1>1 DEF TypeOK
<1>3. /\ job'[w].kind = "clean" /\ job'[w].unlink = {}
      /\ \A v \in Workers \ {w} : job'[v] = job[v]
  <2>1. {} \in SUBSET Messages /\ {} \in SUBSET Uploads /\ "clean" \in Kinds
    BY DEF Kinds
  <2> QED BY <1>1, <1>2, <2>1, StartsJob
<1>4. TypeOK' /\ AttachedIsClaimed'
  <2>1. Task("clean", {}, {entry[e]}, {}) \in Job
    BY <1>2, TaskType DEF Kinds
  <2>2. job' \in [Workers -> Job \cup {None}] /\ Posted' = Posted
    BY <1>1, <2>1, JobsType DEF posts, Posted
  <2> QED BY <1>1, <2>2 DEF TypeOK, AttachedIsClaimed, posts, history
<1>5. JobsRight'
  <2>1. UnlinksRemoved(w)' /\ SaveRead(w)' /\ ~Doing(w, "upload")'
    BY <1>3 DEF UnlinksRemoved, SaveRead, Doing
  <2> QED BY <1>1, <1>3, <2>1, JobsRead DEF posts
<1>6. \A b \in Uploads : Referenced(b)' => Referenced(b)
  BY <1>1 DEF Referenced, posts, Posted, TypeOK
<1>7. RowsStored' /\ ReferencesAreServed'
  BY <1>1, <1>6, ServedFrame DEF RowsStored
<1> QED BY <1>4, <1>5, <1>7

(* Safe is kept by the removal of a row, which nothing references. *)
LEMMA RemoveRowSafe ==
    ASSUME Safe, NEW w \in Workers, RemoveRow(w) PROVE Safe'
<1> USE DEF Safe
<1>1. PICK a \in Uploads : LET removed == IF Removable(job[w].kind, a) THEN {a} ELSE {} IN
        /\ a \in job[w].check
        /\ row' = [b \in Uploads |-> IF b \in removed THEN "gone" ELSE row[b]]
        /\ CleanupGoesOn(w, job[w].check \ {a}, job[w].unlink \cup removed)
        /\ job' \in [Workers -> Job \cup {None}]
  BY RemoveRowEffect
<1> DEFINE removed == IF Removable(job[w].kind, a) THEN {a} ELSE {}
<1>2. UNCHANGED <<file, posts, entry, history, lost, mishaps>>
  BY DEF RemoveRow
<1>3. /\ removed \subseteq Uploads
      /\ \A b \in removed : ~Referenced(b) /\ row[b] \in {"pending", "claimed"}
  BY DEF Removable
<1>4. /\ row' = [b \in Uploads |-> IF b \in removed THEN "gone" ELSE row[b]]
      /\ CleanupGoesOn(w, job[w].check \ {a}, job[w].unlink \cup removed)
      /\ job' \in [Workers -> Job \cup {None}]
  BY <1>1
<1> HIDE DEF removed
<1>5. TypeOK' /\ AttachedIsClaimed'
  BY <1>2, <1>4, TypeFrame DEF TypeOK
<1>6. JobsRight'
  <2>1. UploadUnderWay(w)' /\ SaveRead(w)' /\ ~Doing(w, "upload")'
    BY <1>4 DEF UploadUnderWay, SaveRead, Doing, CleanupGoesOn
  <2>2. UnlinksRemoved(w)'
    <3>1. job[w] # None /\ job[w].unlink \subseteq Uploads
      BY <1>4, JobFields DEF CleanupGoesOn, Doing
    <3>2. \A b \in job[w].unlink : row[b] = "gone"
      BY <3>1 DEF JobsRight, UnlinksRemoved
    <3>3. \A b \in job[w].unlink \cup removed : row'[b] = "gone"
      BY <1>3, <1>4, <3>1, <3>2
    <3> QED BY <1>4, <3>3 DEF UnlinksRemoved, CleanupGoesOn
  <2>3. \A v \in Workers \ {w} : Doing(v, "upload") =>
           \A b \in job[v].check : row'[b] = "new" /\ b \in file'
    BY <1>2, <1>3, <1>4, JobFields DEF JobsRight, UploadUnderWay, Doing
  <2> QED BY <1>2, <1>4, <2>1, <2>2, <2>3, JobFields, JobsFrame DEF posts, CleanupGoesOn
<1>7. RowsStored' /\ ReferencesAreServed'
  <2>1. \A b \in Uploads : row'[b] \in {"pending", "claimed"} => b \in file'
    BY <1>2, <1>4 DEF RowsStored
  <2>2. \A b \in Uploads : row[b] = "claimed" /\ Referenced(b) => row'[b] = "claimed"
    BY <1>3, <1>4
  <2> QED BY <1>2, <2>1, <2>2, ReferencedFrame, ServedFrame
<1> QED BY <1>5, <1>6, <1>7

(* Safe is kept by the removal of a file, whose row is gone. *)
LEMMA UnlinkSafe ==
    ASSUME Safe, NEW w \in Workers, Unlink(w) PROVE Safe'
<1> USE DEF Safe
<1>1. PICK a \in Uploads : /\ a \in job[w].unlink /\ file' = file \ {a}
                           /\ CleanupGoesOn(w, job[w].check, job[w].unlink \ {a})
                           /\ job' \in [Workers -> Job \cup {None}]
  BY UnlinkEffect
<1>2. UNCHANGED <<row, posts, entry, history, lost, mishaps>>
  BY DEF Unlink
<1>3. row[a] = "gone"
  BY <1>1 DEF JobsRight, UnlinksRemoved, CleanupGoesOn, Doing
<1>4. TypeOK' /\ AttachedIsClaimed'
  BY <1>1, <1>2, TypeFrame DEF TypeOK
<1>5. JobsRight'
  <2>1. UploadUnderWay(w)' /\ SaveRead(w)' /\ ~Doing(w, "upload")'
    BY <1>1 DEF UploadUnderWay, SaveRead, Doing, CleanupGoesOn
  <2>2. UnlinksRemoved(w)'
    BY <1>1, <1>2 DEF JobsRight, UnlinksRemoved, CleanupGoesOn, Doing
  <2>3. \A v \in Workers \ {w} : Doing(v, "upload") =>
           \A b \in job[v].check : row'[b] = "new" /\ b \in file'
    BY <1>1, <1>2, <1>3 DEF JobsRight, UploadUnderWay
  <2> QED BY <1>1, <1>2, <2>1, <2>2, <2>3, JobFields, JobsFrame DEF posts, CleanupGoesOn
<1>6. RowsStored' /\ ReferencesAreServed'
  BY <1>1, <1>2, <1>3, ReferencedFrame, ServedFrame DEF RowsStored
<1> QED BY <1>4, <1>5, <1>6

(* What a failing task abandons are uploads. *)
LEMMA AbandonedType ==
    ASSUME TypeOK, NEW w \in Workers, job[w] # None
    PROVE  Abandoned(job[w]) \subseteq Uploads
BY JobFields DEF Abandoned

(* Safe is kept by a failure of a cleanup. *)
LEMMA CleanupFailsSafe ==
    ASSUME Safe, NEW w \in Workers, CleanupFails(w) PROVE Safe'
<1> USE DEF Safe
<1>1. PICK a \in Uploads : /\ lost' = lost \cup ({a} \cap Abandoned(job[w]))
                           /\ CleanupGoesOn(w, job[w].check \ {a}, job[w].unlink \ {a})
                           /\ job' \in [Workers -> Job \cup {None}]
  BY CleanupFailsEffect
<1>2. /\ mishaps < MaxMishaps /\ mishaps' = mishaps + 1
      /\ UNCHANGED <<file, row, posts, entry, history>>
  BY DEF CleanupFails, GoesWrong
<1>3. TypeOK' /\ AttachedIsClaimed'
  <2>1. mishaps' \in 0..MaxMishaps
    BY <1>2 DEF TypeOK
  <2>2. lost' \subseteq Uploads
    BY <1>1 DEF TypeOK
  <2> QED BY <1>1, <1>2, <2>1, <2>2, TypeFrame DEF TypeOK
<1>4. JobsRight'
  <2>1. UnlinksRemoved(w)' /\ SaveRead(w)' /\ ~Doing(w, "upload")'
    BY <1>1, <1>2 DEF JobsRight, UnlinksRemoved, SaveRead, Doing, CleanupGoesOn
  <2> QED BY <1>1, <1>2, <2>1, JobsRead DEF posts, CleanupGoesOn
<1>5. RowsStored' /\ ReferencesAreServed'
  BY <1>2, ReferencedFrame, ServedFrame DEF RowsStored
<1> QED BY <1>3, <1>4, <1>5

(* Safe is kept by a crash, which ends every task. *)
LEMMA CrashSafe == Safe /\ Crash => Safe'
<1> SUFFICES ASSUME Safe, Crash PROVE Safe'
  OBVIOUS
<1> USE DEF Safe
<1>1. /\ mishaps < MaxMishaps /\ mishaps' = mishaps + 1
      /\ lost' = lost \cup UNION {Abandoned(job[w]) : w \in {v \in Workers : job[v] # None}}
      /\ job' = [w \in Workers |-> None]
      /\ UNCHANGED <<file, row, posts, entry, history>>
  BY DEF Crash, GoesWrong
<1>2. TypeOK' /\ AttachedIsClaimed'
  <2>1. job' \in [Workers -> Job \cup {None}] /\ mishaps' \in 0..MaxMishaps
    BY <1>1 DEF TypeOK
  <2>2. lost' \subseteq Uploads
    BY <1>1, AbandonedType DEF TypeOK
  <2> QED BY <1>1, <2>1, <2>2, TypeFrame DEF TypeOK
<1>3. JobsRight'
  BY <1>1 DEF JobsRight, UploadUnderWay, UnlinksRemoved, SaveRead, Doing
<1>4. RowsStored' /\ ReferencesAreServed'
  BY <1>1, ReferencedFrame, ServedFrame DEF RowsStored
<1> QED BY <1>2, <1>3, <1>4

(* Safe holds in every reachable state. *)
LEMMA SafeInvariant == Spec => []Safe
<1>1. Init => Safe
  <2>1. Init => JobsRight /\ RowsStored /\ ReferencesAreServed
    BY DEF Init, JobsRight, UploadUnderWay, UnlinksRemoved, SaveRead, Doing,
           RowsStored, ReferencesAreServed, Referenced, Posted
  <2> QED BY <2>1, InitType DEF Safe
<1>2. Safe /\ UNCHANGED vars => Safe'
  <2> SUFFICES ASSUME Safe, UNCHANGED vars PROVE Safe'
    OBVIOUS
  <2>1. UNCHANGED <<file, row, posts, entry, job, history, lost, mishaps>>
    BY DEF vars
  <2>2. TypeOK' /\ AttachedIsClaimed'
    BY <2>1, TypeRead DEF Safe, TypeOK
  <2>3. JobsRight'
    BY <2>1 DEF Safe, JobsRight, UploadUnderWay, UnlinksRemoved, SaveRead, Doing, posts
  <2>4. RowsStored' /\ ReferencesAreServed'
    BY <2>1, ReferencedFrame, ServedFrame DEF Safe, RowsStored
  <2> QED BY <2>2, <2>3, <2>4 DEF Safe
<1>3. Safe /\ [Next]_vars => Safe'
  BY <1>2, WriteFileSafe, CreateRowSafe, CreateFailsSafe, SendSafe, ReadersSafe,
     RollBackSafe, DeletersSafe, SaveMomentSafe, DeleteEntrySafe, RemoveRowSafe,
     UnlinkSafe, CleanupFailsSafe, CrashSafe
     DEF Next
<1> QED BY <1>1, <1>3, PTL DEF Spec

(* Every table keeps its shape: an upload is attached to one message at     *)
(* most, and a reply's thread is there.                                     *)
THEOREM AttachmentsTypeCorrect == Spec => []TypeOK
BY SafeInvariant, PTL DEF Safe

(* Whatever a message or a journal entry shows has its row and its file,    *)
(* for any number of uploads, workers and mishaps.                          *)
THEOREM ShownIsServed == Spec => []ReferencesAreServed
BY SafeInvariant, PTL DEF Safe

-----------------------------------------------------------------------------
(* Replies and their thread *)

(* What a thread's deletion has not collected was sent after it looked.     *)
ThreadsCollected ==
    \A w \in Workers : Doing(w, "thread") =>
        \A m \in Posted : parent[m] \in job[w].doomed => m \in job[w].doomed \cup late

RepliesInv == RepliesGoWithTheThread /\ ThreadsCollected

(* Collecting stops where no reply is missing. *)
LEMMA CollectedAll ==
    ASSUME NEW S \in SUBSET Posted, NEW m \in Posted, parent[m] \in WithReplies(S)
    PROVE  m \in WithReplies(S)
<1> SUFFICES ASSUME NEW R \in SUBSET Posted, S \subseteq R, RepliesIn(R)
             PROVE  m \in R
  BY DEF WithReplies
<1>1. parent[m] \in R
  BY DEF WithReplies
<1> QED BY <1>1 DEF RepliesIn

(* The threads are untouched by a step that changes no message and starts no deletion. *)
LEMMA RepliesFrame ==
    ASSUME RepliesInv, UNCHANGED <<posts, history>>,
           \A v \in Workers : job'[v] = job[v] \/ ~Doing(v, "thread")'
    PROVE  RepliesInv'
BY DEF RepliesInv, RepliesGoWithTheThread, ThreadsCollected, posts, history, Posted, Doing

(* A collection of replies closes the set it will delete. *)
LEMMA CollectReplies ==
    ASSUME Safe, RepliesInv, NEW w \in Workers, Collect(w) PROVE RepliesInv'
<1>1. PICK S \in SUBSET Posted : Starts(w, Task("thread", WithReplies(S), {}, {}))
  BY DEF Collect
<1>2. UNCHANGED <<posts, history>> /\ Posted' = Posted
  BY DEF Collect, posts, Posted
<1>3. /\ \A v \in Workers \ {w} : job'[v] = job[v]
      /\ job'[w].doomed = WithReplies(S)
  <2>1. WithReplies(S) \in SUBSET Messages /\ {} \in SUBSET Uploads /\ "thread" \in Kinds
    BY WithRepliesType DEF Kinds, Safe
  <2> QED BY <1>1, <2>1, StartsJob DEF Safe
<1>4. ASSUME NEW v \in Workers, Doing(v, "thread")', NEW m \in Posted,
             parent[m] \in job'[v].doomed
      PROVE  m \in job'[v].doomed \cup late
  <2>1. CASE v = w
    BY <1>3, <1>4, <2>1, CollectedAll
  <2>2. CASE v # w
    BY <1>3, <1>4, <2>2 DEF RepliesInv, ThreadsCollected, Doing
  <2> QED BY <2>1, <2>2
<1> QED BY <1>2, <1>4
        DEF RepliesInv, RepliesGoWithTheThread, ThreadsCollected, posts, history

(* A reply sent into a thread that is being deleted is recorded as late. *)
LEMMA SendReplies ==
    ASSUME Safe, RepliesInv, NEW m \in Messages, NEW a \in Uploads \cup {None},
           NEW p \in Messages \cup {None}, Send(m, a, p)
    PROVE  RepliesInv'
<1>1. /\ message' = [message EXCEPT ![m] = "posted"]
      /\ parent' = [parent EXCEPT ![m] = p]
      /\ late' = IF \E w \in Workers : Doing(w, "thread") /\ p \in job[w].doomed
                 THEN late \cup {m} ELSE late
      /\ UNCHANGED <<job, surfaced>>
  BY DEF Send
<1>2. Posted' = Posted \cup {m}
  BY <1>1 DEF Posted, Safe, TypeOK
<1>3. ASSUME NEW v \in Workers, Doing(v, "thread"), NEW n \in Posted',
             parent'[n] \in job[v].doomed
      PROVE  n \in job[v].doomed \cup late'
  <2>1. CASE n = m
    BY <1>1, <1>3, <2>1 DEF Safe, TypeOK
  <2>2. CASE n # m
    BY <1>1, <1>2, <1>3, <2>2 DEF Safe, TypeOK, RepliesInv, ThreadsCollected, Posted
  <2> QED BY <2>1, <2>2
<1> QED BY <1>1, <1>3
        DEF RepliesInv, RepliesGoWithTheThread, ThreadsCollected, Doing

(* A deletion takes the whole set, so that a reply is cut off only if it was late. *)
LEMMA DeletersReplies ==
    ASSUME Safe, RepliesInv, NEW w \in Workers, DeleteThread(w) \/ DeleteChannel(w)
    PROVE  RepliesInv'
<1>1. /\ job[w] # None /\ GoesOn(w, "clean", UploadsOf(job[w].doomed), {})
      /\ UNCHANGED late
  BY DEF DeleteThread, DeleteChannel, Doing
<1>2. PICK S \in SUBSET Posted :
        /\ Deleted(S)
        /\ \A m \in Posted \ S : parent[m] \in S => m \in late
  <2>1. CASE DeleteThread(w)
    <3>1. Deleted(job[w].doomed \cap Posted) /\ Doing(w, "thread")
      BY <2>1 DEF DeleteThread
    <3>2. \A m \in Posted \ (job[w].doomed \cap Posted) :
              parent[m] \in job[w].doomed \cap Posted => m \in late
      BY <3>1 DEF RepliesInv, ThreadsCollected
    <3> QED BY <3>1, <3>2
  <2>2. CASE DeleteChannel(w)
    BY <2>2 DEF DeleteChannel
  <2> QED BY <2>1, <2>2
<1>3. \A v \in Workers : Doing(v, "thread")' => job'[v] = job[v]
  <2>1. /\ UploadsOf(job[w].doomed) \in SUBSET Uploads /\ {} \in SUBSET Uploads
        /\ "clean" \in Kinds
    BY <1>1, JobFields, UploadsOfType DEF Kinds, Safe
  <2>2. /\ \A v \in Workers \ {w} : job'[v] = job[v]
        /\ job'[w] # None => job'[w].kind = "clean"
    BY <1>1, <2>1, GoesOnJob DEF Safe
  <2> QED BY <2>2 DEF Doing
<1>4. /\ Posted' = Posted \ S /\ surfaced' \subseteq late'
      /\ parent' = [m \in Messages |-> IF parent[m] \in S THEN None ELSE parent[m]]
  BY <1>1, <1>2 DEF Deleted, Posted, Safe, TypeOK, RepliesInv, RepliesGoWithTheThread
<1>5. ASSUME NEW v \in Workers, Doing(v, "thread")', NEW m \in Posted',
             parent'[m] \in job'[v].doomed
      PROVE  m \in job'[v].doomed \cup late'
  <2>1. job'[v] = job[v] /\ Doing(v, "thread") /\ job[v].doomed \subseteq Messages
    BY <1>3, <1>5, JobFields DEF Doing, Safe
  <2>2. m \in Posted /\ parent'[m] = parent[m]
    BY <1>4, <1>5, <2>1 DEF Posted
  <2> QED BY <1>1, <1>5, <2>1, <2>2 DEF RepliesInv, ThreadsCollected
<1> QED BY <1>4, <1>5 DEF RepliesInv, RepliesGoWithTheThread, ThreadsCollected

(* The remaining steps leave posts alone and start no deletion of a thread. *)
LEMMA OtherReplies ==
    ASSUME Safe, RepliesInv, NEW w \in Workers,
           \/ \E a \in Uploads : WriteFile(w, a)
           \/ CreateRow(w) \/ CreateFails(w) \/ CollectChannel(w) \/ RollBack(w)
           \/ \E m \in Messages : ReadMessage(w, m)
           \/ \E e \in Entries : SaveMoment(w, e) \/ DeleteEntry(w, e)
           \/ ListAbandoned(w) \/ RemoveRow(w) \/ Unlink(w) \/ CleanupFails(w)
    PROVE  RepliesInv'
<1>1. UNCHANGED <<posts, history>>
  BY DEF WriteFile, CreateRow, CreateFails, CollectChannel, RollBack, ReadMessage,
         SaveMoment, DeleteEntry, ListAbandoned, RemoveRow, Unlink, CleanupFails
<1>2. CASE Ends(w)
  BY <1>1, <1>2, EndsJob, RepliesFrame DEF Safe, Doing
<1>3. ASSUME NEW kind \in Kinds \ {"thread"}, NEW doomed \in SUBSET Messages,
             NEW check \in SUBSET Uploads, Starts(w, Task(kind, doomed, check, {}))
      PROVE  RepliesInv'
  <2>1. kind \in Kinds /\ {} \in SUBSET Uploads
    OBVIOUS
  <2>2. job'[w].kind = kind /\ \A v \in Workers \ {w} : job'[v] = job[v]
    BY <1>3, <2>1, StartsJob DEF Safe
  <2> QED BY <1>1, <2>2, RepliesFrame DEF Doing
<1>4. ASSUME NEW check, NEW unlink, CleanupGoesOn(w, check, unlink) PROVE RepliesInv'
  BY <1>1, <1>4, RepliesFrame DEF CleanupGoesOn, Doing
<1>5. CASE CreateRow(w) \/ CreateFails(w) \/ RollBack(w) \/ \E e \in Entries : SaveMoment(w, e)
  BY <1>2, <1>5 DEF CreateRow, CreateFails, RollBack, SaveMoment
<1>6. CASE RemoveRow(w) \/ Unlink(w) \/ CleanupFails(w)
  BY <1>4, <1>6, RemoveRowEffect, UnlinkEffect, CleanupFailsEffect DEF Safe
<1>7. CASE CollectChannel(w) \/ ListAbandoned(w)
  <2>1. Posted \in SUBSET Messages
    BY DEF Posted
  <2> QED BY <1>3, <1>7, <2>1 DEF CollectChannel, ListAbandoned, Kinds
<1>8. ASSUME NEW e \in Entries, DeleteEntry(w, e) PROVE RepliesInv'
  <2>1. {entry[e]} \in SUBSET Uploads
    BY <1>8 DEF DeleteEntry, Safe, TypeOK
  <2> QED BY <1>3, <1>8, <2>1 DEF DeleteEntry, Kinds
<1>9. CASE (\E a \in Uploads : WriteFile(w, a)) \/ \E m \in Messages : ReadMessage(w, m)
  <2>1. ASSUME NEW a \in Uploads, WriteFile(w, a) PROVE RepliesInv'
    <3>1. {a} \in SUBSET Uploads
      OBVIOUS
    <3> QED BY <1>3, <2>1, <3>1 DEF WriteFile, Kinds
  <2>2. ASSUME NEW m \in Messages, ReadMessage(w, m) PROVE RepliesInv'
    <3>1. {m} \in SUBSET Messages
      OBVIOUS
    <3> QED BY <1>3, <2>2, <3>1 DEF ReadMessage, Kinds
  <2> QED BY <1>9, <2>1, <2>2
<1> QED BY <1>5, <1>6, <1>7, <1>8, <1>9

(* A reply left to surface in the main timeline was sent after the replies  *)
(* of its thread had been collected, however deep the thread and however    *)
(* many deletions run at once.                                              *)
THEOREM RepliesGo == Spec => []RepliesGoWithTheThread
<1>1. Init => RepliesInv
  BY DEF Init, RepliesInv, RepliesGoWithTheThread, ThreadsCollected, Doing
<1>2. Safe /\ RepliesInv /\ Crash => RepliesInv'
  <2> SUFFICES ASSUME RepliesInv, Crash PROVE RepliesInv'
    OBVIOUS
  <2>1. UNCHANGED <<posts, history>> /\ \A v \in Workers : ~Doing(v, "thread")'
    BY DEF Crash, Doing
  <2> QED BY <2>1, RepliesFrame
<1>3. Safe /\ RepliesInv /\ UNCHANGED vars => RepliesInv'
  BY RepliesFrame DEF vars
<1>4. Safe /\ RepliesInv /\ [Next]_vars => RepliesInv'
  BY <1>2, <1>3, CollectReplies, SendReplies, DeletersReplies, OtherReplies DEF Next
<1> QED BY <1>1, <1>4, SafeInvariant, PTL DEF Spec, RepliesInv

-----------------------------------------------------------------------------
(* Nothing left behind *)

(* Who is still about an upload that nothing shows: the cleanup that is to  *)
(* check its row, the upload under way, or whoever is to remove its file.   *)
BeingChecked(a)  == \E w \in Workers : Doing(w, "clean") /\ a \in job[w].check
BeingUploaded(a) == \E w \in Workers : Doing(w, "upload") /\ a \in job[w].check
BeingUnlinked(a) == \E w \in Workers : /\ Doing(w, "clean") \/ Doing(w, "sweep")
                                       /\ a \in job[w].unlink

Attended(a) ==
    /\ row[a] = "claimed" /\ ~Referenced(a) => BeingChecked(a)
    /\ row[a] = "new" /\ a \in file => BeingUploaded(a)
    /\ row[a] = "gone" /\ a \in file => BeingUnlinked(a)

AllAttended == \A a \in Uploads \ lost : Attended(a)

(* A sweep that happens to hold the upload does not attend it: it removes   *)
(* pending rows only.                                                       *)
LEMMA AttendedSuffices == AllAttended => NothingIsLeftBehind
BY DEF AllAttended, Attended, BeingChecked, BeingUploaded, BeingUnlinked,
       NothingIsLeftBehind, Doing

(* An upload stays attended while its row, file, references and cleaners stay. *)
LEMMA AttendedFrame ==
    ASSUME AllAttended, NEW a \in Uploads \ lost,
           row'[a] = row[a], a \in file' => a \in file, Referenced(a) => Referenced(a)',
           \A v \in Workers : \/ job[v] = None \/ job'[v] = job[v]
                              \/ job[v].kind \in {"thread", "channel", "save"}
    PROVE  Attended(a)'
BY DEF AllAttended, Attended, BeingChecked, BeingUploaded, BeingUnlinked, Doing

(* Only one worker goes on, and not with this upload. *)
LEMMA AttendedElsewhere ==
    ASSUME AllAttended, NEW w \in Workers, NEW check, NEW unlink,
           CleanupGoesOn(w, check, unlink), NEW a \in Uploads \ lost,
           row'[a] = row[a], a \in file' => a \in file, Referenced(a)' <=> Referenced(a),
           Doing(w, "clean") /\ a \in job[w].check => a \in check,
           a \in job[w].unlink => a \in unlink
    PROVE  Attended(a)'
<1>1. BeingChecked(a) => BeingChecked(a)'
  BY DEF BeingChecked, CleanupGoesOn, Doing
<1>2. BeingUploaded(a) => BeingUploaded(a)'
  BY DEF BeingUploaded, CleanupGoesOn, Doing
<1>3. BeingUnlinked(a) => BeingUnlinked(a)'
  BY DEF BeingUnlinked, CleanupGoesOn, Doing
<1> QED BY <1>1, <1>2, <1>3 DEF AllAttended, Attended

(* The steps of an upload leave every upload attended. *)
LEMMA UploadAttended ==
    ASSUME Safe, AllAttended, NEW w \in Workers,
           (\E a \in Uploads : WriteFile(w, a)) \/ CreateRow(w) \/ CreateFails(w)
    PROVE  AllAttended'
<1> SUFFICES ASSUME NEW b \in Uploads \ lost' PROVE Attended(b)'
  BY DEF AllAttended
<1>0. b \in Uploads \ lost
  BY DEF WriteFile, CreateRow, CreateFails
<1>1. \A c : Referenced(c)' <=> Referenced(c)
  BY ReferencedFrame DEF WriteFile, CreateRow, CreateFails
<1>2. ASSUME NEW a \in Uploads, WriteFile(w, a) PROVE Attended(b)'
  <2>1. {a} \in SUBSET Uploads /\ {} \in SUBSET Uploads /\ {} \in SUBSET Messages
        /\ "upload" \in Kinds
    BY DEF Kinds
  <2>2. /\ row' = row /\ file' = file \cup {a} /\ row[a] = "new"
        /\ job[w] = None /\ Doing(w, "upload")' /\ job'[w].check = {a}
        /\ \A v \in Workers \ {w} : job'[v] = job[v]
    BY <1>2, <2>1, StartsJob DEF WriteFile, Doing, Safe
  <2>3. CASE b = a
    BY <2>2, <2>3 DEF Attended, BeingUploaded
  <2>4. CASE b # a
    BY <1>0, <1>1, <2>2, <2>4, AttendedFrame
  <2> QED BY <2>3, <2>4
<1>3. CASE CreateRow(w) \/ CreateFails(w)
  <2>1. /\ Doing(w, "upload") /\ job'[w] = None
        /\ \A v \in Workers \ {w} : job'[v] = job[v]
    BY <1>3, EndsJob DEF CreateRow, CreateFails, Safe
  <2>2. CASE b \in job[w].check
    BY <1>3, <2>2 DEF CreateRow, CreateFails, Attended
  <2>3. CASE b \notin job[w].check
    <3>1. row'[b] = row[b] /\ (b \in file' => b \in file)
      BY <1>3, <2>3 DEF CreateRow, CreateFails
    <3>2. BeingChecked(b) => BeingChecked(b)'
      BY <2>1 DEF BeingChecked, Doing
    <3>3. BeingUploaded(b) => BeingUploaded(b)'
      BY <2>1, <2>3 DEF BeingUploaded, Doing
    <3>4. BeingUnlinked(b) => BeingUnlinked(b)'
      BY <2>1 DEF BeingUnlinked, Doing
    <3> QED BY <1>0, <1>1, <3>1, <3>2, <3>3, <3>4 DEF AllAttended, Attended
  <2> QED BY <2>2, <2>3
<1> QED BY <1>2, <1>3

(* A message leaves every upload attended: it only adds a reference. *)
LEMMA SendAttended ==
    ASSUME Safe, AllAttended, NEW m \in Messages, NEW a \in Uploads \cup {None},
           NEW p \in Messages \cup {None}, Send(m, a, p)
    PROVE  AllAttended'
<1>1. /\ message[m] = "new" /\ (a # None => row[a] = "pending")
      /\ row' = [b \in Uploads |-> IF b = a THEN "claimed" ELSE row[b]]
      /\ message' = [message EXCEPT ![m] = "posted"]
      /\ attachment' = [attachment EXCEPT ![m] = a]
      /\ UNCHANGED <<file, entry, job, lost>>
  BY DEF Send, Claimable
<1> SUFFICES ASSUME NEW b \in Uploads \ lost PROVE Attended(b)'
  BY <1>1 DEF AllAttended
<1>2. Posted' = Posted \cup {m} /\ m \notin Posted
  BY <1>1 DEF Posted, Safe, TypeOK
<1>3. CASE b = a
  <2>1. Referenced(b)' /\ row'[b] = "claimed"
    BY <1>1, <1>2, <1>3 DEF Referenced, Safe, TypeOK
  <2> QED BY <2>1 DEF Attended
<1>4. CASE b # a
  <2>1. row'[b] = row[b] /\ (Referenced(b) => Referenced(b)')
    BY <1>1, <1>2, <1>4 DEF Referenced, Safe, TypeOK
  <2> QED BY <1>1, <2>1, AttendedFrame
<1> QED BY <1>3, <1>4

(* Steps that read, roll back or save leave every upload attended. *)
LEMMA ReadersAttended ==
    ASSUME Safe, AllAttended, NEW w \in Workers,
           \/ Collect(w) \/ CollectChannel(w) \/ ListAbandoned(w) \/ RollBack(w)
           \/ \E m \in Messages : ReadMessage(w, m)
           \/ \E e \in Entries : SaveMoment(w, e)
    PROVE  AllAttended'
<1>1. UNCHANGED <<file, row, posts, lost>>
  BY DEF Collect, CollectChannel, ListAbandoned, RollBack, ReadMessage, SaveMoment
<1>2. \A v \in Workers : \/ job[v] = None \/ job'[v] = job[v]
                         \/ job[v].kind \in {"thread", "channel", "save"}
  <2>1. CASE RollBack(w) \/ \E e \in Entries : SaveMoment(w, e)
    <3>1. Ends(w) /\ job[w].kind \in {"thread", "channel", "save"}
      BY <2>1 DEF RollBack, SaveMoment, Doing
    <3> QED BY <3>1, EndsJob DEF Safe
  <2>2. ASSUME NEW j, Starts(w, j)
        PROVE  \A v \in Workers : job[v] = None \/ job'[v] = job[v]
    BY <2>2 DEF Starts, Safe, TypeOK
  <2> QED BY <2>1, <2>2 DEF Collect, CollectChannel, ListAbandoned, ReadMessage
<1> SUFFICES ASSUME NEW b \in Uploads \ lost PROVE Attended(b)'
  BY <1>1 DEF AllAttended
<1>3. Referenced(b) => Referenced(b)'
  <2>1. Posted' = Posted /\ attachment' = attachment
    BY <1>1 DEF posts, Posted
  <2>2. \A e \in Entries : entry[e] # None => entry'[e] = entry[e]
    BY DEF Collect, CollectChannel, ListAbandoned, RollBack, ReadMessage, SaveMoment,
           Safe, TypeOK
  <2> QED BY <2>1, <2>2 DEF Referenced
<1> QED BY <1>1, <1>2, <1>3, AttendedFrame

(* Whoever deletes the last message that shows an upload goes on to check   *)
(* it; only the channel's deletion overlooks one, and counts it as lost.    *)
LEMMA DeletersAttended ==
    ASSUME Safe, AllAttended, NEW w \in Workers, DeleteThread(w) \/ DeleteChannel(w)
    PROVE  AllAttended'
<1> DEFINE seen == UploadsOf(job[w].doomed)
<1>1. /\ job[w] # None /\ job[w].kind \in {"thread", "channel"}
      /\ GoesOn(w, "clean", seen, {}) /\ lost \subseteq lost'
      /\ UNCHANGED <<file, row, attachment, entry>>
  BY DEF DeleteThread, DeleteChannel, Doing
<1>2. PICK S \in SUBSET Posted : Deleted(S) /\ UploadsOf(S) \subseteq seen \cup lost'
  <2>1. CASE DeleteThread(w)
    <3>1. UploadsOf(job[w].doomed \cap Posted) \subseteq seen
      BY DEF UploadsOf
    <3> QED BY <2>1, <3>1 DEF DeleteThread
  <2>2. CASE DeleteChannel(w)
    <3>1. UploadsOf(Posted) \subseteq seen \cup UploadsOf(Posted \ job[w].doomed)
      BY DEF UploadsOf
    <3> QED BY <2>2, <3>1 DEF DeleteChannel
  <2> QED BY <2>1, <2>2
<1>3. /\ \A v \in Workers \ {w} : job'[v] = job[v]
      /\ \A b \in seen : Doing(w, "clean")' /\ b \in job'[w].check
  <2>1. seen \in SUBSET Uploads /\ {} \in SUBSET Uploads /\ "clean" \in Kinds
    BY <1>1, JobFields, UploadsOfType DEF Kinds, Safe
  <2> HIDE DEF seen
  <2>2. /\ \A v \in Workers \ {w} : job'[v] = job[v]
        /\ seen \cup {} # {} => job'[w] # None
        /\ job'[w] # None => job'[w].kind = "clean" /\ job'[w].check = seen
    BY <1>1, <2>1, GoesOnJob DEF Safe
  <2> QED BY <2>2 DEF Doing
<1> SUFFICES ASSUME NEW b \in Uploads \ lost' PROVE Attended(b)'
  BY <1>1 DEF AllAttended
<1>4. b \in Uploads \ lost
  BY <1>1
<1>5. CASE Referenced(b) /\ ~Referenced(b)'
  <2>1. Posted' = Posted \ S
    BY <1>1, <1>2, DeletedReferences DEF Safe
  <2>2. PICK m \in S : attachment[m] = b
    BY <1>1, <1>5, <2>1 DEF Referenced
  <2>3. b \in seen
    BY <1>2, <2>2 DEF UploadsOf, Posted
  <2>4. row'[b] = "claimed" /\ BeingChecked(b)'
    BY <1>1, <1>3, <1>5, <2>3 DEF BeingChecked, Safe, ReferencesAreServed
  <2> QED BY <2>4 DEF Attended
<1>6. CASE Referenced(b) => Referenced(b)'
  BY <1>1, <1>3, <1>4, <1>6, AttendedFrame
<1> QED BY <1>5, <1>6

(* A deleted entry's upload is checked by its worker. *)
LEMMA DeleteEntryAttended ==
    ASSUME Safe, AllAttended, NEW w \in Workers, NEW e \in Entries, DeleteEntry(w, e)
    PROVE  AllAttended'
<1>1. /\ entry[e] # None /\ entry' = [entry EXCEPT ![e] = None]
      /\ UNCHANGED <<file, row, posts, lost>>
  BY DEF DeleteEntry
<1>2. /\ job[w] = None /\ Doing(w, "clean")' /\ job'[w].check = {entry[e]}
      /\ \A v \in Workers \ {w} : job'[v] = job[v]
  <2>1. {entry[e]} \in SUBSET Uploads /\ {} \in SUBSET Messages
        /\ {} \in SUBSET Uploads /\ "clean" \in Kinds
    BY <1>1 DEF Kinds, Safe, TypeOK
  <2> QED BY <2>1, StartsJob DEF DeleteEntry, Doing, Safe
<1> SUFFICES ASSUME NEW b \in Uploads \ lost PROVE Attended(b)'
  BY <1>1 DEF AllAttended
<1>3. CASE b = entry[e]
  <2>1. BeingChecked(b)' /\ row[b] = "claimed"
    BY <1>2, <1>3 DEF BeingChecked, Safe, ReferencesAreServed, Referenced
  <2> QED BY <1>1, <2>1 DEF Attended
<1>4. CASE b # entry[e]
  <2>1. Referenced(b) => Referenced(b)'
    BY <1>1, <1>4 DEF Referenced, posts, Posted, Safe, TypeOK
  <2> QED BY <1>1, <1>2, <2>1, AttendedFrame
<1> QED BY <1>3, <1>4

(* A row is removed by the worker that goes on to its file. *)
LEMMA RemoveRowAttended ==
    ASSUME Safe, AllAttended, NEW w \in Workers, RemoveRow(w) PROVE AllAttended'
<1>1. PICK a \in Uploads : LET removed == IF Removable(job[w].kind, a) THEN {a} ELSE {} IN
        /\ a \in job[w].check
        /\ row' = [b \in Uploads |-> IF b \in removed THEN "gone" ELSE row[b]]
        /\ CleanupGoesOn(w, job[w].check \ {a}, job[w].unlink \cup removed)
  BY RemoveRowEffect DEF Safe
<1> DEFINE removed == IF Removable(job[w].kind, a) THEN {a} ELSE {}
<1>2. UNCHANGED <<file, posts, entry, lost>> /\ \A b : Referenced(b)' <=> Referenced(b)
  BY ReferencedFrame DEF RemoveRow
<1> SUFFICES ASSUME NEW b \in Uploads \ lost PROVE Attended(b)'
  BY <1>2 DEF AllAttended
<1>3. CASE b # a
  BY <1>1, <1>2, <1>3, AttendedElsewhere
<1>4. CASE b = a /\ Removable(job[w].kind, a)
  <2>1. row'[b] = "gone" /\ BeingUnlinked(b)'
    BY <1>1, <1>4 DEF BeingUnlinked, CleanupGoesOn, Doing
  <2> QED BY <2>1 DEF Attended
<1>5. CASE b = a /\ ~Removable(job[w].kind, a)
  <2>1. row'[b] = row[b]
    BY <1>1, <1>5
  <2>2. CASE row[b] = "claimed" /\ ~Referenced(b)
    <3>1. job[w].kind = "sweep"
      BY <1>1, <1>5, <2>2 DEF Removable, CleanupGoesOn, Doing
    <3> QED BY <1>1, <1>2, <2>1, <3>1, AttendedElsewhere DEF Doing
  <2>3. CASE ~(row[b] = "claimed" /\ ~Referenced(b))
    <3>1. BeingUploaded(b) => BeingUploaded(b)'
      BY <1>1 DEF BeingUploaded, CleanupGoesOn, Doing
    <3>2. BeingUnlinked(b) => BeingUnlinked(b)'
      BY <1>1 DEF BeingUnlinked, CleanupGoesOn, Doing
    <3> QED BY <1>2, <2>1, <2>3, <3>1, <3>2 DEF AllAttended, Attended
  <2> QED BY <2>2, <2>3
<1> QED BY <1>3, <1>4, <1>5

(* The file of a removed row is the last thing to go. *)
LEMMA UnlinkAttended ==
    ASSUME Safe, AllAttended, NEW w \in Workers, Unlink(w) PROVE AllAttended'
<1>1. PICK a \in Uploads : /\ a \in job[w].unlink /\ file' = file \ {a}
                           /\ CleanupGoesOn(w, job[w].check, job[w].unlink \ {a})
  BY UnlinkEffect DEF Safe
<1>2. UNCHANGED <<row, posts, entry, lost>> /\ \A b : Referenced(b)' <=> Referenced(b)
  BY ReferencedFrame DEF Unlink
<1> SUFFICES ASSUME NEW b \in Uploads \ lost PROVE Attended(b)'
  BY <1>2 DEF AllAttended
<1>3. CASE b # a
  BY <1>1, <1>2, <1>3, AttendedElsewhere
<1>4. CASE b = a
  <2>1. row'[b] = "gone" /\ b \notin file'
    BY <1>1, <1>2, <1>4 DEF Safe, JobsRight, UnlinksRemoved, CleanupGoesOn, Doing
  <2> QED BY <2>1 DEF Attended
<1> QED BY <1>3, <1>4

(* What a failure leaves behind is lost. *)
LEMMA CleanupFailsAttended ==
    ASSUME Safe, AllAttended, NEW w \in Workers, CleanupFails(w) PROVE AllAttended'
<1>1. PICK a \in Uploads : /\ lost' = lost \cup ({a} \cap Abandoned(job[w]))
                           /\ CleanupGoesOn(w, job[w].check \ {a}, job[w].unlink \ {a})
  BY CleanupFailsEffect DEF Safe
<1>2. UNCHANGED <<file, row, posts, entry>> /\ \A b : Referenced(b)' <=> Referenced(b)
  BY ReferencedFrame DEF CleanupFails
<1> SUFFICES ASSUME NEW b \in Uploads \ lost' PROVE Attended(b)'
  BY DEF AllAttended
<1>3. b \in Uploads \ lost /\ (b = a => b \notin Abandoned(job[w]))
  BY <1>1
<1>4. /\ Doing(w, "clean") /\ b \in job[w].check => b \in job[w].check \ {a}
      /\ b \in job[w].unlink => b \in job[w].unlink \ {a}
  BY <1>3 DEF Abandoned, Doing
<1> QED BY <1>1, <1>2, <1>3, <1>4, AttendedElsewhere

(* What a crash leaves behind is lost. *)
LEMMA CrashAttended == Safe /\ AllAttended /\ Crash => AllAttended'
<1> SUFFICES ASSUME Safe, AllAttended, Crash, NEW b \in Uploads \ lost'
             PROVE  Attended(b)'
  BY DEF AllAttended
<1>1. lost' = lost \cup UNION {Abandoned(job[w]) : w \in {v \in Workers : job[v] # None}}
      /\ UNCHANGED <<file, row, posts, entry>>
  BY DEF Crash
<1>2. b \notin lost /\ \A w \in Workers : job[w] # None => b \notin Abandoned(job[w])
  BY <1>1
<1>3. ~BeingChecked(b) /\ ~BeingUploaded(b) /\ ~BeingUnlinked(b)
  BY <1>2 DEF BeingChecked, BeingUploaded, BeingUnlinked, Abandoned, Doing
<1>4. \A c : Referenced(c)' <=> Referenced(c)
  BY <1>1, ReferencedFrame
<1> QED BY <1>1, <1>2, <1>3, <1>4 DEF AllAttended, Attended

(* An upload that nothing shows any more is on its way out, row and file,   *)
(* unless a mishap or the channel's deletion has left it behind.            *)
THEOREM NothingStaysBehind == Spec => []NothingIsLeftBehind
<1>1. Init => AllAttended
  BY DEF Init, AllAttended, Attended
<1>2. Safe /\ AllAttended /\ UNCHANGED vars => AllAttended'
  <2> SUFFICES ASSUME AllAttended, UNCHANGED vars PROVE AllAttended'
    OBVIOUS
  <2>1. UNCHANGED <<file, row, posts, entry, job, lost>>
    BY DEF vars
  <2>2. \A b : Referenced(b)' <=> Referenced(b)
    BY <2>1, ReferencedFrame
  <2> QED BY <2>1, <2>2, AttendedFrame DEF AllAttended
<1>3. Safe /\ AllAttended /\ [Next]_vars => AllAttended'
  BY <1>2, UploadAttended, SendAttended, ReadersAttended, DeletersAttended,
     DeleteEntryAttended, RemoveRowAttended, UnlinkAttended, CleanupFailsAttended,
     CrashAttended
     DEF Next
<1> QED BY <1>1, <1>3, SafeInvariant, AttendedSuffices, PTL DEF Spec
=============================================================================
