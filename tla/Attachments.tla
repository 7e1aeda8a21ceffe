---------------------------- MODULE Attachments -----------------------------
(***************************************************************************)
(* Private attachments of one Campfire channel, from the upload to the     *)
(* removal of the file: app/api/attachments/route.ts, the attachment and   *)
(* thread part of app/api/messages, the deletion of messages, of threads   *)
(* and of the channel, the journal, and the sweeps of                      *)
(* lib/messageRetention.ts.                                                *)
(*                                                                         *)
(* A row of the database and a file on disk are never changed together: a  *)
(* crash may come between.  One statement, and the writes of a transaction,*)
(* are one step; what a transaction reads beforehand is another, as with   *)
(* PostgreSQL's default isolation.  Foreign keys are enforced: deleting a  *)
(* message cuts its replies and journal entries off from it.               *)
(***************************************************************************)
EXTENDS Naturals

CONSTANTS
  Uploads, Messages,  \* identifiers, each used once
  Entries,            \* identifiers of journal entries
  Workers,            \* requests and sweeps that may run at once (a bound)
  MaxMishaps,         \* crashes, failed statements and failed removals of files (a bound)
  None

Job == [kind: {"upload", "thread", "channel", "save", "clean", "sweep"},
        doomed: SUBSET Messages, check: SUBSET Uploads, unlink: SUBSET Uploads]

ASSUME AttachmentsAssumption ==
  /\ None \notin Uploads /\ None \notin Messages /\ None \notin Job
  /\ MaxMishaps \in Nat

VARIABLES
  file,                          \* uploads whose file is on disk
  row,                           \* the PrivateUpload table
  message, attachment, parent,   \* the Message table
  open,                          \* does the channel exist
  entry,                         \* the JournalEntry table: the upload an entry shows
  job,                           \* what each worker is about
  surfaced,                      \* replies cut off from their thread
  late,                          \* history: replies sent while their thread was being deleted
  lost,                          \* history: uploads a mishap has left behind
  mishaps

posts == <<message, attachment, parent, open>>
history == <<surfaced, late>>
vars == <<file, row, posts, entry, job, history, lost, mishaps>>

Posted == {m \in Messages : message[m] = "posted"}

TypeOK ==
  /\ file \subseteq Uploads
  /\ row \in [Uploads -> {"new", "pending", "claimed", "gone"}]
  /\ message \in [Messages -> {"new", "posted", "deleted"}]
  /\ attachment \in [Messages -> Uploads \cup {None}]
  /\ parent \in [Messages -> Messages \cup {None}]
  /\ \A m, n \in Messages : attachment[m] = attachment[n] => m = n \/ attachment[m] = None
  /\ \A m \in Posted : parent[m] \in Posted \cup {None}
  /\ open \in BOOLEAN
  /\ Posted # {} => open
  /\ entry \in [Entries -> Uploads \cup {None}]
  /\ job \in [Workers -> Job \cup {None}]
  /\ surfaced \subseteq Messages /\ late \subseteq Messages
  /\ lost \subseteq Uploads
  /\ mishaps \in 0..MaxMishaps

Init ==
  /\ file = {} /\ row = [a \in Uploads |-> "new"]
  /\ message = [m \in Messages |-> "new"]
  /\ attachment = [m \in Messages |-> None] /\ parent = [m \in Messages |-> None]
  /\ open = TRUE
  /\ entry = [e \in Entries |-> None]
  /\ job = [w \in Workers |-> None]
  /\ surfaced = {} /\ late = {} /\ lost = {} /\ mishaps = 0

Task(kind, doomed, check, unlink) ==
  [kind |-> kind, doomed |-> doomed, check |-> check, unlink |-> unlink]
Starts(w, j) == job[w] = None /\ job' = [job EXCEPT ![w] = j]
Doing(w, kind) == job[w] # None /\ job[w].kind = kind
Ends(w) == job' = [job EXCEPT ![w] = None]

(* Go on with the uploads left to check and the files left to remove, if any. *)
GoesOn(w, kind, check, unlink) ==
  job' = [job EXCEPT ![w] = IF check = {} /\ unlink = {} THEN None
                            ELSE Task(kind, {}, check, unlink)]

GoesWrong == mishaps < MaxMishaps /\ mishaps' = mishaps + 1

Referenced(a) == \/ \E m \in Posted : attachment[m] = a
                 \/ \E e \in Entries : entry[e] = a

-----------------------------------------------------------------------------
(* Upload: the file first, then the row. *)

WriteFile(w, a) ==
  /\ row[a] = "new" /\ a \notin file
  /\ Starts(w, Task("upload", {}, {a}, {}))
  /\ file' = file \cup {a}
  /\ UNCHANGED <<row, posts, entry, history, lost, mishaps>>

CreateRow(w) ==
  /\ Doing(w, "upload")
  /\ row' = [a \in Uploads |-> IF a \in job[w].check THEN "pending" ELSE row[a]]
  /\ Ends(w)
  /\ UNCHANGED <<file, posts, entry, history, lost, mishaps>>

(* The file is removed again; if that fails too, it stays and nobody is told. *)
CreateFails(w) ==
  /\ GoesWrong
  /\ Doing(w, "upload")
  /\ row' = [a \in Uploads |-> IF a \in job[w].check THEN "gone" ELSE row[a]]
  /\ \E left \in {{}, job[w].check} :
       /\ file' = file \ (job[w].check \ left)
       /\ lost' = lost \cup left
  /\ Ends(w)
  /\ UNCHANGED <<posts, entry, history>>

ClaimableAgain(a) == row[a] \in {"pending", "claimed"}  \* mutant

(* claimPrivateUpload *)
Claimable(a) == row[a] = "pending"

(* A message with an upload a or none, as a reply to p or not: claim and message are
   one transaction, and p must still be there when it is written. *)
Send(m, a, p) ==
  /\ open
  /\ message[m] = "new"
  /\ a # None => Claimable(a)
  /\ p # None => p \in Posted
  /\ row' = [b \in Uploads |-> IF b = a THEN "claimed" ELSE row[b]]
  /\ message' = [message EXCEPT ![m] = "posted"]
  /\ attachment' = [attachment EXCEPT ![m] = a]
  /\ parent' = [parent EXCEPT ![m] = p]
  /\ late' = IF \E w \in Workers : Doing(w, "thread") /\ p \in job[w].doomed
             THEN late \cup {m} ELSE late
  /\ UNCHANGED <<file, open, entry, job, surfaced, lost, mishaps>>

-----------------------------------------------------------------------------
(* Deletion of messages with all replies beneath them: by hand, as a purge, or
   because they have expired. *)

DirectReplies(S) == S \cup {m \in Posted : parent[m] \in S}  \* mutant

RepliesIn(R) == \A m \in Posted : parent[m] \in R => m \in R

(* collectThreadReplies, level by level until one brings no new reply: what it has
   collected then is the least set that holds S and the replies to all it holds. *)
WithReplies(S) ==
  {m \in Posted : \A R \in SUBSET Posted : S \subseteq R /\ RepliesIn(R) => m \in R}

Collect(w) ==
  /\ \E S \in SUBSET Posted : S # {} /\ Starts(w, Task("thread", WithReplies(S), {}, {}))
  /\ UNCHANGED <<file, row, posts, entry, history, lost, mishaps>>

(* DELETE of the channel reads the attachments of its messages. *)
CollectChannel(w) ==
  /\ open
  /\ Starts(w, Task("channel", Posted, {}, {}))
  /\ UNCHANGED <<file, row, posts, entry, history, lost, mishaps>>

UploadsOf(S) == {attachment[m] : m \in S} \ {None}

Deleted(S) ==
  /\ message' = [m \in Messages |-> IF m \in S THEN "deleted" ELSE message[m]]
  /\ parent' = [m \in Messages |-> IF parent[m] \in S THEN None ELSE parent[m]]
  /\ surfaced' = surfaced \cup {m \in Posted \ S : parent[m] \in S}

DeleteThread(w) ==
  /\ Doing(w, "thread")
  /\ Deleted(job[w].doomed \cap Posted)
  /\ GoesOn(w, "clean", UploadsOf(job[w].doomed), {})
  /\ UNCHANGED <<file, row, attachment, open, entry, late, lost, mishaps>>

(* Every message of the channel goes, those sent since the attachments were read too. *)
DeleteChannel(w) ==
  /\ Doing(w, "channel")
  /\ open
  /\ open' = FALSE
  /\ Deleted(Posted)
  /\ GoesOn(w, "clean", UploadsOf(job[w].doomed), {})
  /\ lost' = lost \cup UploadsOf(Posted \ job[w].doomed)
  /\ UNCHANGED <<file, row, attachment, entry, late, mishaps>>

(* The transaction fails, or the channel is already gone. *)
RollBack(w) ==
  /\ Doing(w, "thread") \/ Doing(w, "channel")
  /\ Ends(w)
  /\ UNCHANGED <<file, row, posts, entry, history, lost, mishaps>>

-----------------------------------------------------------------------------
(* The journal keeps the attachment of a message that was saved. *)

ReadMessage(w, m) ==
  /\ m \in Posted /\ attachment[m] # None
  /\ Starts(w, Task("save", {m}, {}, {}))
  /\ UNCHANGED <<file, row, posts, entry, history, lost, mishaps>>

(* The entry refers to the message: it cannot be created once that is deleted. *)
SaveMoment(w, e) ==
  /\ Doing(w, "save")
  /\ entry[e] = None
  /\ entry' = IF job[w].doomed \subseteq Posted
              THEN [entry EXCEPT ![e] = CHOOSE a \in UploadsOf(job[w].doomed) : TRUE]
              ELSE entry
  /\ Ends(w)
  /\ UNCHANGED <<file, row, posts, history, lost, mishaps>>

DeleteEntryOnly(w, e) ==  \* mutant
  /\ entry[e] # None
  /\ job[w] = None
  /\ entry' = [entry EXCEPT ![e] = None]
  /\ UNCHANGED <<file, row, posts, job, history, lost, mishaps>>

DeleteEntry(w, e) ==
  /\ entry[e] # None
  /\ Starts(w, Task("clean", {}, {entry[e]}, {}))
  /\ entry' = [entry EXCEPT ![e] = None]
  /\ UNCHANGED <<file, row, posts, history, lost, mishaps>>

-----------------------------------------------------------------------------
(* Removal of the row, then of the file *)

(* sweepAbandonedPrivateUploads; any pending upload may be a day old. *)
ListAbandoned(w) ==
  /\ \E a \in Uploads : row[a] = "pending"
  /\ Starts(w, Task("sweep", {}, {a \in Uploads : row[a] = "pending"}, {}))
  /\ UNCHANGED <<file, row, posts, entry, history, lost, mishaps>>

RemovableUnlessPosted(kind, a) ==  \* mutant
  /\ row[a] \in {"pending", "claimed"}
  /\ kind = "sweep" => row[a] = "pending"
  /\ \A m \in Posted : attachment[m] # a

(* The conditions of the two deleteMany. *)
Removable(kind, a) ==
  /\ row[a] \in {"pending", "claimed"}
  /\ kind = "sweep" => row[a] = "pending"
  /\ ~Referenced(a)

RemoveRow(w) ==
  /\ Doing(w, "clean") \/ Doing(w, "sweep")
  /\ \E a \in job[w].check :
       LET j == job[w]
           removed == IF Removable(j.kind, a) THEN {a} ELSE {}
       IN /\ row' = [b \in Uploads |-> IF b \in removed THEN "gone" ELSE row[b]]
          /\ GoesOn(w, j.kind, j.check \ {a}, j.unlink \cup removed)
  /\ UNCHANGED <<file, posts, entry, history, lost, mishaps>>

Unlink(w) ==
  /\ Doing(w, "clean") \/ Doing(w, "sweep")
  /\ \E a \in job[w].unlink :
       /\ file' = file \ {a}
       /\ GoesOn(w, job[w].kind, job[w].check, job[w].unlink \ {a})
  /\ UNCHANGED <<row, posts, entry, history, lost, mishaps>>

(* What nobody comes back to: a later sweep finds again what is pending. *)
Abandoned(j) == (IF j.kind = "sweep" THEN {} ELSE j.check) \cup j.unlink

(* The database or the file system refuses: logged, and not tried again. *)
CleanupFails(w) ==
  /\ GoesWrong
  /\ Doing(w, "clean") \/ Doing(w, "sweep")
  /\ \E a \in job[w].check \cup job[w].unlink :
       /\ lost' = lost \cup ({a} \cap Abandoned(job[w]))
       /\ GoesOn(w, job[w].kind, job[w].check \ {a}, job[w].unlink \ {a})
  /\ UNCHANGED <<file, row, posts, entry, history>>

(* The process dies with everything it was about; transactions are rolled back. *)
Crash ==
  /\ GoesWrong
  /\ lost' = lost \cup UNION {Abandoned(job[w]) : w \in {v \in Workers : job[v] # None}}
  /\ job' = [w \in Workers |-> None]
  /\ UNCHANGED <<file, row, posts, entry, history>>

-----------------------------------------------------------------------------
Next ==
  \/ \E w \in Workers :
       \/ \E a \in Uploads : WriteFile(w, a)
       \/ CreateRow(w)
       \/ CreateFails(w)
       \/ Collect(w)
       \/ CollectChannel(w)
       \/ DeleteThread(w)
       \/ DeleteChannel(w)
       \/ RollBack(w)
       \/ \E m \in Messages : ReadMessage(w, m)
       \/ \E e \in Entries : SaveMoment(w, e) \/ DeleteEntry(w, e)
       \/ ListAbandoned(w)
       \/ RemoveRow(w)
       \/ Unlink(w)
       \/ CleanupFails(w)
  \/ \E m \in Messages, a \in Uploads \cup {None}, p \in Messages \cup {None} : Send(m, a, p)
  \/ Crash

Spec == Init /\ [][Next]_vars

-----------------------------------------------------------------------------
(* Whatever a message or a journal entry shows can be fetched: its row is there and
   claimed, and its file on disk, while sweeps, cleanups of other references and
   crashes go on around it. *)
ReferencesAreServed ==
  \A a \in Uploads : Referenced(a) => row[a] = "claimed" /\ a \in file

(* An upload that nothing shows any more is removed, row and file, by someone who is
   still about it: whoever deletes the last reference notices, also when two delete
   one each.  Only a crash or a failure leaves something behind, or a message sent
   while its channel was being deleted.  (What is pending the sweep will find.) *)
NothingIsLeftBehind ==
  \A a \in Uploads \ lost :
    /\ row[a] = "claimed" /\ ~Referenced(a)
         => \E w \in Workers : job[w] # None /\ a \in job[w].check
    /\ row[a] \in {"new", "gone"} /\ a \in file
         => \E w \in Workers : job[w] # None /\ a \in job[w].check \cup job[w].unlink

(* Replies go with their thread, to every depth: one that is left to surface in the
   main timeline was sent after the replies had been collected. *)
RepliesGoWithTheThread == surfaced \subseteq late
=============================================================================
