------------------------------- MODULE Library -------------------------------
(***************************************************************************)
(* A book's source files: upload sessions in Redis and their admission,    *)
(* the ingestion of an admitted file into the book's version, deletion,    *)
(* restoration and purge (BooksService, processIngestionJob,               *)
(* processMaintenanceJob), with the registry of Idempotency-Keys around    *)
(* the requests that create work (IdempotencyService).  A request reads,   *)
(* decides and writes in separate steps, and may stop between any two.     *)
(*                                                                         *)
(* The module has one book of one tenant.  What a key's request asks for   *)
(* is part of its hash: an "ask" is an operation, its target and its key.  *)
(* The text of a version stands for the bytes it was parsed from; a job    *)
(* finds its file by the session whose object it is.  The counters of      *)
(* storage used are left out.                                              *)
(***************************************************************************)
EXTENDS Naturals

CONSTANTS
  Clients,
  Sessions,       \* upload sessions; an object is named by its session
  Contents,       \* bytes, and their hashes
  MaxRequests,    \* bound: requests
  MaxTroubles,    \* bound: processes that end, and calls that fail
  MaxAttempts     \* maxAttempts of cleanup_artifacts

ASSUME LibraryAssumption ==
  /\ {MaxRequests, MaxTroubles} \subseteq Nat /\ MaxAttempts \in Nat \ {0}
  /\ {"none", "absent"} \cap Contents = {}

VARIABLES
  pc,                       \* the request of each client
  record,                   \* idempotency_key: status, id, and the request whose response it has
  session, content, object, \* upload session, its declared hash, the bytes under its key
  file,                     \* ADMITTED book_file rows: the request that made one, and its session
  jobs,                     \* processing_job rows of type parse_book, with the bytes downloaded
  status, deleted, gone,    \* book: status, deleted_at, no row
  chapters, current,        \* the text of the chapters there are, and of the current version
  purge,                    \* the cleanup_artifacts job and the step it is at
  requests, troubles        \* how many there were

requestVars == <<pc, record, requests, troubles>>
uploadVars == <<session, content, object>>
bookVars == <<status, deleted, gone, chapters, current>>
vars == <<requestVars, uploadVars, file, jobs, bookVars, purge>>

None == "none"
Idle == [at |-> "idle"]
Asks == ({"complete", "ingest"} \X Sessions) \cup {<<"purge", None>>}
NoRecord == [status |-> "ABSENT", id |-> 0, n |-> 0]
NoPurge == [status |-> "ABSENT", step |-> "rest", attempts |-> 0]

\* createUploadSession for every session, and what its client has put under the key
Init ==
  /\ pc = [c \in Clients |-> Idle] /\ record = [a \in Asks |-> NoRecord] /\ requests = 0 /\ troubles = 0
  /\ session = [s \in Sessions |-> "AWAITING_UPLOAD"]
  /\ content \in [Sessions -> Contents] /\ object \in [Sessions -> Contents]
  /\ file = {} /\ jobs = {}
  /\ status = "CREATED" /\ deleted = FALSE /\ gone = FALSE
  /\ chapters = None /\ current = None
  /\ purge = NoPurge

Counts == requests < MaxRequests /\ requests' = requests + 1 /\ UNCHANGED troubles
Trouble == troubles < MaxTroubles /\ troubles' = troubles + 1 /\ UNCHANGED requests

Active(j) == j.status \in {"CREATED", "RUNNING"}

Admitted(s) == \E f \in file : f.s = s
Duplicate(s) == \E f \in file : content[f.s] = content[s]

-----------------------------------------------------------------------------
(* Upload sessions *)

\* The client puts bytes, those it declared or others: its URL is good for as long as it was
\* signed for, whatever becomes of the session
Upload(s) ==
  /\ \E b \in Contents \ {object[s]} : object' = [object EXCEPT ![s] = b]
  /\ UNCHANGED <<requestVars, session, content, file, jobs, bookVars, purge>>

ReadForAbortion(c, s) ==
  /\ pc[c] = Idle /\ Counts
  /\ session[s] \in {"AWAITING_UPLOAD", "REJECTED"}
  /\ pc' = [pc EXCEPT ![c] = [at |-> "abort", s |-> s]]
  /\ UNCHANGED <<record, uploadVars, file, jobs, bookVars, purge>>

\* Mutation of AbortUploadSession: the bytes go with the session
AbortUploadSession_Bytes(c) ==
  /\ pc[c].at = "abort"
  /\ session' = [session EXCEPT ![pc[c].s] = "GONE"]
  /\ object' = [object EXCEPT ![pc[c].s] = "absent"]
  /\ pc' = [pc EXCEPT ![c] = Idle]
  /\ UNCHANGED <<record, requests, troubles, content, file, jobs, bookVars, purge>>

\* The session that was not ADMITTED goes, and leaves the bytes; expiry does the same
AbortUploadSession(c) ==
  /\ pc[c].at = "abort"
  /\ session' = [session EXCEPT ![pc[c].s] = "GONE"]
  /\ pc' = [pc EXCEPT ![c] = Idle]
  /\ UNCHANGED <<record, requests, troubles, content, object, file, jobs, bookVars, purge>>

-----------------------------------------------------------------------------
(* IdempotencyService.run around a handler *)

\* A record that is COMPLETED or IN_PROGRESS answers by itself; a FAILED one is taken over
Lookup(c, a) ==
  /\ pc[c] = Idle /\ Counts
  /\ record[a].status \in {"ABSENT", "FAILED"}
  /\ pc' = [pc EXCEPT ![c] = [at |-> "claim", ask |-> a, n |-> requests + 1,
              id |-> IF record[a].status = "FAILED" THEN record[a].id ELSE requests + 1]]
  /\ UNCHANGED <<record, uploadVars, file, jobs, bookVars, purge>>

\* The upsert: of two that found nothing, one creates the row
Claim(c) ==
  /\ pc[c].at = "claim"
  /\ record' = [record EXCEPT ![pc[c].ask] =
       [status |-> "IN_PROGRESS", id |-> IF @.status = "ABSENT" THEN pc[c].id ELSE @.id, n |-> 0]]
  /\ pc' = [pc EXCEPT ![c].at = "check"]
  /\ UNCHANGED <<requests, troubles, uploadVars, file, jobs, bookVars, purge>>

\* The outcome goes to the row with this request's id, where there is one
Settled(c, outcome) ==
  /\ record' = [record EXCEPT ![pc[c].ask] =
       IF @.id = pc[c].id
       THEN [status |-> outcome, id |-> @.id, n |-> IF outcome = "COMPLETED" THEN pc[c].n ELSE @.n]
       ELSE @]
  /\ pc' = [pc EXCEPT ![c] = Idle]

Settle(c) ==
  /\ pc[c].at = "settle"
  /\ Settled(c, "COMPLETED")
  /\ UNCHANGED <<requests, troubles, uploadVars, file, jobs, bookVars, purge>>

\* Mutation of CallFails: the outcome of a call that fails is recorded as the other one is
CallFails_Completed(c) ==
  /\ pc[c].at \in {"check", "reject", "commit", "mark"} /\ Trouble
  /\ Settled(c, "COMPLETED")
  /\ UNCHANGED <<uploadVars, file, jobs, bookVars, purge>>

\* A call of the handler fails
CallFails(c) ==
  /\ pc[c].at \in {"check", "reject", "commit", "mark"} /\ Trouble
  /\ Settled(c, "FAILED")
  /\ UNCHANGED <<uploadVars, file, jobs, bookVars, purge>>

\* The API process ends
Crash(c) ==
  /\ pc[c] # Idle /\ Trouble
  /\ pc' = [pc EXCEPT ![c] = Idle]
  /\ UNCHANGED <<record, uploadVars, file, jobs, bookVars, purge>>

Asked(c, op, at) == pc[c].at = at /\ pc[c].ask[1] = op
Goes(c, at) == pc' = [pc EXCEPT ![c].at = at] /\ UNCHANGED <<record, requests, troubles>>

-----------------------------------------------------------------------------
(* completeUploadSession *)

\* The bytes are as declared and no admitted file has them; the answer to allow_duplicate is
\* the same, since nothing writes deduplicated_from_book_file_id
CheckUpload(c) ==
  LET s == pc[c].ask[2]
  IN  /\ Asked(c, "complete", "check")
      /\ session[s] \in {"AWAITING_UPLOAD", "REJECTED"} /\ object[s] = content[s]
      /\ ~Duplicate(s)
      /\ Goes(c, "commit")
      /\ UNCHANGED <<uploadVars, file, jobs, bookVars, purge>>

\* A hash that differs, or a size or a format, of whatever bytes
CheckFails(c) ==
  LET s == pc[c].ask[2]
  IN  /\ Asked(c, "complete", "check")
      /\ session[s] \in {"AWAITING_UPLOAD", "REJECTED"} /\ object[s] # "absent"
      /\ Goes(c, "reject")
      /\ UNCHANGED <<uploadVars, file, jobs, bookVars, purge>>

\* The record of the session is written anew, whatever it has become
RejectSession(c) ==
  /\ Asked(c, "complete", "reject")
  /\ session' = [session EXCEPT ![pc[c].ask[2]] = "REJECTED"]
  /\ Settled(c, "FAILED")
  /\ UNCHANGED <<requests, troubles, content, object, file, jobs, bookVars, purge>>

NewJob(c, op) == [n |-> pc[c].n, s |-> pc[c].ask[2], op |-> op, status |-> "CREATED", text |-> None]

\* book_file_tenant_id_content_hash_admitted_key admits the first of two
Admit(c) ==
  LET s == pc[c].ask[2]
  IN  /\ Asked(c, "complete", "commit")
      /\ ~Duplicate(s)
      /\ file' = file \cup {[n |-> pc[c].n, s |-> s]}
      /\ jobs' = jobs \cup {NewJob(c, "complete")}
      /\ status' = "UPLOADED"
      /\ Goes(c, "mark")
      /\ UNCHANGED <<uploadVars, deleted, gone, chapters, current, purge>>

\* After the dispatch and the record of the usage, which may fail: the session, gone or not
MarkAdmitted(c) ==
  /\ Asked(c, "complete", "mark")
  /\ session' = [session EXCEPT ![pc[c].ask[2]] = "ADMITTED"]
  /\ Goes(c, "settle")
  /\ UNCHANGED <<content, object, file, jobs, bookVars, purge>>

-----------------------------------------------------------------------------
(* requestIngestion and parse_book *)

\* With force, whatever runs
CheckIngestion(c) ==
  /\ Asked(c, "ingest", "check")
  /\ Admitted(pc[c].ask[2])
  /\ Goes(c, "commit")
  /\ UNCHANGED <<uploadVars, file, jobs, bookVars, purge>>

RequestIngestion(c) ==
  /\ Asked(c, "ingest", "commit")
  /\ jobs' = jobs \cup {NewJob(c, "ingest")}
  /\ status' = "PARSING"
  /\ Goes(c, "settle")
  /\ UNCHANGED <<uploadVars, file, deleted, gone, chapters, current, purge>>

Becomes(j, outcome) == jobs' = (jobs \ {j}) \cup {[j EXCEPT !.status = outcome]}

\* A delivery downloads what is under the key now, and does not compare it with content_hash
Parse(j) ==
  /\ Active(j) /\ Admitted(j.s)
  /\ jobs' = (jobs \ {j}) \cup {[j EXCEPT !.status = "RUNNING", !.text = object[j.s]]}
  /\ UNCHANGED <<requestVars, uploadVars, file, bookVars, purge>>

\* A text that is there already is merged; the book keeps the status it was given
MergeVersion(j) ==
  /\ j.status = "RUNNING"
  /\ current # None /\ current = j.text
  /\ Becomes(j, "SUCCEEDED")
  /\ UNCHANGED <<requestVars, uploadVars, file, bookVars, purge>>

\* Mutation of PersistVersion: the structure is written in a transaction of its own
PersistVersion_Apart(j) ==
  /\ j.status = "RUNNING" /\ Admitted(j.s) /\ j.text \in Contents
  /\ current' = IF current = None THEN j.text ELSE current
  /\ chapters' = j.text
  /\ status' = "STRUCTURED"
  /\ Becomes(j, "SUCCEEDED")
  /\ UNCHANGED <<requestVars, uploadVars, file, deleted, gone, purge>>

\* The new version is inserted as current before another is superseded, so that
\* book_version_current_key admits it only if there is none.  STRUCTURED stands for NEEDS_REVIEW too
PersistVersion(j) ==
  /\ j.status = "RUNNING" /\ Admitted(j.s) /\ j.text \in Contents
  /\ current = None
  /\ current' = j.text /\ chapters' = j.text
  /\ status' = "STRUCTURED"
  /\ Becomes(j, "SUCCEEDED")
  /\ UNCHANGED <<requestVars, uploadVars, file, deleted, gone, purge>>

\* handleIngestionFailure, of the final attempt, for that reason or any other
ParseFails(j) ==
  /\ j.status = "RUNNING"
  /\ Becomes(j, "FAILED")
  /\ status' = "FAILED"
  /\ UNCHANGED <<requestVars, uploadVars, file, deleted, gone, chapters, current, purge>>

-----------------------------------------------------------------------------
(* Deletion, restoration and purge *)

\* deleteBook counts QUEUED, RUNNING and RETRYING jobs, and a job is CREATED until it runs
CheckDeletion(c) ==
  /\ pc[c] = Idle /\ ~deleted /\ Counts
  /\ \A j \in jobs : j.status # "RUNNING"
  /\ purge.status # "RUNNING"
  /\ pc' = [pc EXCEPT ![c] = [at |-> "delete"]]
  /\ UNCHANGED <<record, uploadVars, file, jobs, bookVars, purge>>

DeleteBook(c) ==
  /\ pc[c].at = "delete"
  /\ deleted' = TRUE
  /\ pc' = [pc EXCEPT ![c] = Idle]
  /\ UNCHANGED <<record, requests, troubles, uploadVars, file, jobs, status, gone, chapters, current, purge>>

RestoreBook ==
  /\ deleted /\ Counts
  /\ deleted' = FALSE
  /\ UNCHANGED <<pc, record, uploadVars, file, jobs, status, gone, chapters, current, purge>>

CheckPurge(c) ==
  /\ Asked(c, "purge", "check")
  /\ deleted /\ purge.status = "ABSENT" /\ \A j \in jobs : ~Active(j)
  /\ Goes(c, "commit")
  /\ UNCHANGED <<uploadVars, file, jobs, bookVars, purge>>

\* processing_job_tenant_idempotency_key: one purge of the book
PurgeBook(c) ==
  /\ Asked(c, "purge", "commit")
  /\ purge.status = "ABSENT"
  /\ purge' = [purge EXCEPT !.status = "CREATED"]
  /\ Goes(c, "settle")
  /\ UNCHANGED <<uploadVars, file, jobs, bookVars>>

\* A delivery of the job; runPurgeBook does not look at deleted_at
RunPurgeBook ==
  /\ purge.status \in {"CREATED", "RUNNING"} /\ purge.step = "rest"
  /\ purge.attempts < MaxAttempts
  /\ purge' = [status |-> "RUNNING", step |-> "structure", attempts |-> purge.attempts + 1]
  /\ UNCHANGED <<requestVars, uploadVars, file, jobs, bookVars>>

PurgeStep(from, to) == purge.step = from /\ purge' = [purge EXCEPT !.step = to]

\* Paragraphs, scenes, sections and chapters
PurgeStructure ==
  /\ PurgeStep("structure", "versions")
  /\ chapters' = None
  /\ UNCHANGED <<requestVars, uploadVars, file, jobs, status, deleted, gone, current>>

PurgeBookVersions ==
  /\ chapters = None
  /\ PurgeStep("versions", "objects")
  /\ current' = None
  /\ UNCHANGED <<requestVars, uploadVars, file, jobs, status, deleted, gone, chapters>>

\* A key that cannot be deleted is logged
PurgeObjects ==
  /\ purge.step = "objects"
  /\ purge' = [purge EXCEPT !.step = "files"]
  /\ \E removed \in SUBSET {s \in Sessions : Admitted(s)} :
       object' = [s \in Sessions |-> IF s \in removed THEN "absent" ELSE object[s]]
  /\ UNCHANGED <<requestVars, session, content, file, jobs, bookVars>>

PurgeBookFiles ==
  /\ current = None
  /\ PurgeStep("files", "jobs")
  /\ file' = {}
  /\ UNCHANGED <<requestVars, uploadVars, jobs, bookVars>>

PurgeJobsAndAttempts ==
  /\ PurgeStep("jobs", "book")
  /\ jobs' = {}
  /\ UNCHANGED <<requestVars, uploadVars, file, bookVars>>

\* The row of a book goes when no job has its id; the purge is such a job.  The catch block
\* records FAILED without an error_code, which a CHECK refuses, and the job stays RUNNING
DeleteBookRow ==
  /\ purge.step = "book"
  /\ IF jobs # {} \/ purge.status # "ABSENT"
     THEN purge' = [purge EXCEPT !.step = "rest"] /\ UNCHANGED gone
     ELSE purge' = [purge EXCEPT !.status = "SUCCEEDED", !.step = "rest"] /\ gone' = TRUE
  /\ UNCHANGED <<requestVars, uploadVars, file, jobs, status, deleted, chapters, current>>

\* The chapters of a version hold it, and a version its file, when a parse came between
PurgeRefused ==
  /\ \/ purge.step = "versions" /\ chapters # None
     \/ purge.step = "files" /\ current # None
  /\ purge' = [purge EXCEPT !.step = "rest"]
  /\ UNCHANGED <<requestVars, uploadVars, file, jobs, bookVars>>

PurgeDies ==
  /\ purge.step # "rest" /\ Trouble
  /\ purge' = [purge EXCEPT !.step = "rest"]
  /\ UNCHANGED <<pc, record, uploadVars, file, jobs, bookVars>>

-----------------------------------------------------------------------------
(* What the handlers check, and what the database refuses them *)
Refused(c) ==
  LET s == pc[c].ask[2]
  IN  \/ /\ pc[c].at = "check" /\ pc[c].ask[1] = "complete"
         /\ \/ session[s] \notin {"AWAITING_UPLOAD", "REJECTED"}
            \/ object[s] = "absent"
            \/ object[s] = content[s] /\ Duplicate(s)
      \/ /\ pc[c].at = "check" /\ pc[c].ask[1] = "ingest"
         /\ ~Admitted(s) \/ \E j \in jobs : j.s = s /\ Active(j)
      \/ /\ pc[c].at = "check" /\ pc[c].ask[1] = "purge"
         /\ ~deleted \/ purge.status # "ABSENT" \/ \E j \in jobs : Active(j)
      \/ /\ pc[c].at = "commit" /\ pc[c].ask[1] = "complete"
         /\ Duplicate(s)
      \/ pc[c].at = "commit" /\ pc[c].ask[1] = "purge" /\ purge.status # "ABSENT"

Refuse(c) ==
  /\ Refused(c)
  /\ Settled(c, "FAILED")
  /\ UNCHANGED <<requests, troubles, uploadVars, file, jobs, bookVars, purge>>

Handler(c) ==
  \/ CheckUpload(c) \/ CheckFails(c) \/ RejectSession(c) \/ Admit(c) \/ MarkAdmitted(c)
  \/ CheckIngestion(c) \/ RequestIngestion(c)
  \/ CheckPurge(c) \/ PurgeBook(c)

PurgeProgress ==
  \/ RunPurgeBook \/ PurgeStructure \/ PurgeBookVersions \/ PurgeObjects \/ PurgeBookFiles
  \/ PurgeJobsAndAttempts \/ DeleteBookRow \/ PurgeRefused

Next ==
  \/ \E s \in Sessions : Upload(s)
  \/ \E c \in Clients :
       \/ \E a \in Asks : Lookup(c, a)
       \/ Claim(c) \/ Handler(c) \/ Settle(c) \/ Refuse(c) \/ CallFails(c) \/ Crash(c)
       \/ (\E s \in Sessions : ReadForAbortion(c, s)) \/ AbortUploadSession(c)
       \/ CheckDeletion(c) \/ DeleteBook(c)
  \/ \E j \in jobs : Parse(j) \/ MergeVersion(j) \/ PersistVersion(j) \/ ParseFails(j)
  \/ RestoreBook
  \/ PurgeProgress \/ PurgeDies

Spec == Init /\ [][Next]_vars

\* The queue delivers the job and the worker takes its steps
FairSpec == Spec /\ WF_vars(PurgeProgress)

-----------------------------------------------------------------------------
(* Properties *)

\* The types of the requests, the files, the book and the purge.
TypeOK ==
  /\ \A a \in Asks : record[a].status \in {"ABSENT", "IN_PROGRESS", "COMPLETED", "FAILED"}
                     /\ record[a].id \in 0..requests
  /\ session \in [Sessions -> {"AWAITING_UPLOAD", "REJECTED", "ADMITTED", "GONE"}]
  /\ object \in [Sessions -> Contents \cup {"absent"}]
  /\ \A f \in file : f.n \in 1..requests /\ f.s \in Sessions
  /\ \A j \in jobs : j.n \in 1..requests /\ j.s \in Sessions
  /\ status \in {"CREATED", "UPLOADED", "PARSING", "STRUCTURED", "FAILED"}
  /\ {chapters, current} \subseteq Contents \cup {None}
  /\ purge.attempts \in 0..MaxAttempts

\* There is a job of a request.
JobOf(n, a) == \E j \in jobs : j.n = n /\ j.op = a[1] /\ j.s = a[2]

\* A key is answered only with work that was done: whoever raced for the key, took it over after
\* a failure, or stopped, the response that a COMPLETED record gives again is of a request whose
\* job is there until the book is purged.
AnsweredIsDone ==
  \A a \in Asks :
    record[a].status = "COMPLETED" /\ purge.status = "ABSENT" => JobOf(record[a].n, a)

\* An admitted file has an object until a purge was asked for: not even a session that a stopped
\* request left open, and that the client then aborts, takes it away.
ObjectsKept == purge.status = "ABSENT" => \A f \in file : object[f.s] # "absent"

\* Only a purge leaves a book without a current version that has its chapters: a further parse,
\* of whatever bytes, replaces both or neither.
VersionStaysWhole ==
  [][current # None /\ chapters = current
       => \/ current' # None /\ chapters' = current'
          \/ purge.step = "structure"]_vars

\* A purge that was asked for removes the book in the end, its job delivered as often as it may:
\* "re-running this function for the same book after a partial failure resumes correctly".
PurgeCompletes == purge.status = "CREATED" ~> gone

-----------------------------------------------------------------------------
(* The inductive invariant *)

Handling == {"claim", "check", "reject", "commit", "mark", "settle"}

\* Where a request may be.
Places ==
  {Idle, [at |-> "delete"]} \cup [at : {"abort"}, s : Sessions]
  \cup [at : Handling, ask : Asks, n : Nat, id : Nat]

\* The requests, the registry of keys, the jobs and the purge, as records.
RecordsTyped ==
  /\ pc \in [Clients -> Places]
  /\ record \in [Asks -> [status : {"ABSENT", "IN_PROGRESS", "COMPLETED", "FAILED"}, id : Nat, n : Nat]]
  /\ jobs \subseteq [n : Nat, s : Sessions, op : {"complete", "ingest"},
                     status : {"CREATED", "RUNNING", "SUCCEEDED", "FAILED"},
                     text : Contents \cup {"absent", None}]
  /\ purge \in [status : {"ABSENT", "CREATED", "RUNNING"}, attempts : Nat,
                step : {"rest", "structure", "versions", "objects", "files", "jobs", "book"}]
  /\ content \in [Sessions -> Contents] /\ deleted \in BOOLEAN
  /\ requests \in Nat /\ troubles \in Nat

\* Requests are numbered as they come.
Numbered ==
  \A c \in Clients :
    pc[c].at \in Handling =>
      pc[c].n \in 1..requests /\ pc[c].id \in 0..requests

\* The chapters there are belong to the current version.
ChaptersOfCurrent == chapters \in {None, current}

\* Only a purge that was asked for takes steps.
PurgeAskedFor == purge.status = "ABSENT" => purge.step = "rest"

\* The bytes that a completion has checked, or others, are there when it commits.
CheckedBytesKept ==
  purge.status = "ABSENT" =>
    \A c \in Clients : Asked(c, "complete", "commit") => object[pc[c].ask[2]] # "absent"

\* The purge never removes the book's row: it is itself a job of the book.
RowStays == ~gone

IInv ==
  /\ TypeOK /\ RecordsTyped /\ Numbered /\ ChaptersOfCurrent
  /\ PurgeAskedFor /\ CheckedBytesKept /\ RowStays /\ ObjectsKept

\* A request that has committed has its job, or the purge it asked for.
CommittedHasJob ==
  purge.status = "ABSENT" =>
    \A c \in Clients : pc[c].at \in {"mark", "settle"} => JobOf(pc[c].n, pc[c].ask)
=============================================================================
