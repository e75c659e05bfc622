---------------------------- MODULE Publication ----------------------------
(***************************************************************************)
(* From an assemble_audiobook command to a published audiobook: the        *)
(* assembly of the book-level master (assembly-audiobook.ts), the encode   *)
(* jobs of its delivery formats (assembly-encode.ts) and the gate that     *)
(* makes the audiobook READY, for one book and one book version.           *)
(*                                                                         *)
(* Deliveries of different messages run concurrently, in the slots of any  *)
(* number of audio workers; a message is in one slot at a time, so each    *)
(* job has one program counter.  A step is one transaction, one query, one *)
(* upload or one decision between two of them.  Transactions run at READ   *)
(* COMMITTED: where one reads, decides and writes, another may commit in   *)
(* between.                                                                *)
(*                                                                         *)
(* How a CREATED row reaches its queue, how often a message is delivered   *)
(* and how cancellation stops it is JobLifecycle's subject: here a created *)
(* row has a waiting message, nobody cancels, and a crash returns the      *)
(* message to the queue.                                                   *)
(***************************************************************************)
EXTENDS Naturals, Sequences, FiniteSets

CONSTANTS
  AJobs,        \* assemble_audiobook jobs that may be requested
  Formats,      \* delivery formats
  PerChapter,   \* the formats with one rendition per chapter (MP3_PER_CHAPTER)
  Chapters,     \* the chapters of the book version
  Whole,        \* the rendition of a single-file format: chapter_id is null
  Requests,     \* the delivery_formats a command may carry
  MaxAttempts,  \* ASSEMBLY_MAX_ATTEMPTS
  MaxVersion,   \* bound: audiobook versions
  MaxManifest,  \* bound: states of the chapters' current audio
  MaxCrashes,   \* bound: worker deaths (one: BullMQ redelivers a stalled job once)
  MaxFaults,    \* bound: queries, transactions and uploads that fail
  MaxTroubles   \* bound: deaths and failures together

ASSUME FormatsAssumption == PerChapter \subseteq Formats /\ Whole \notin Chapters
ASSUME RequestsAssumption == Requests \subseteq Seq(Formats) /\ <<>> \notin Requests
ASSUME NumbersAssumption ==
  /\ MaxAttempts \in Nat \ {0} /\ MaxVersion \in Nat /\ MaxManifest \in Nat \ {0}
  /\ MaxCrashes \in 0..1 /\ MaxFaults \in Nat /\ MaxTroubles \in Nat

VARIABLES
  manifest,     \* which chapter audios are current
  \* audiobook rows by version (abFormats: the creating command's delivery_formats, of which
  \* the row keeps the first), and the master object under each version's key
  abStatus, abManifest, abFormats, master,
  current,      \* the version with is_current, 0 before the first
  pointer,      \* book.current_audiobook_id, 0 before the first publication
  rendition,    \* audiobook_rendition.status by version, format and chapter
  completed,    \* the available_formats that audiobook.completed events of a version listed
  \* assemble_audiobook: the row, and the delivery of its message with the positions of the
  \* formats it has yet to enqueue
  aStatus, aKey, aFormats, aPc, aTries, aManifest, aBook, aTodo,
  \* encode_delivery_format, by version and format
  eStatus, ePc, eTries, eSeen,
  crashes, faults

bookVars == <<abStatus, abManifest, abFormats, master, current>>
gateVars == <<pointer, completed>>
aVars == <<aStatus, aKey, aFormats, aPc, aTries, aManifest, aBook, aTodo>>
eVars == <<eStatus, ePc, eTries, eSeen>>
faultVars == <<crashes, faults>>
vars == <<manifest, bookVars, gateVars, rendition, aVars, eVars, faultVars>>

Versions == 1..MaxVersion
Encodes == Versions \X Formats
Units == Chapters \cup {Whole}

JobStatuses == {"ABSENT", "CREATED", "RUNNING", "SUCCEEDED", "FAILED"}
BookStatuses == {"ABSENT", "ASSEMBLING", "READY", "FAILED"}
RenditionStatuses == {"ABSENT", "READY", "FAILED"}
APcs == {"absent", "wait", "resume", "start", "build", "commit", "enqueue",
         "repack", "fail", "done"}
EPcs == {"absent", "wait", "noop", "start", "encode", "succeed", "publish", "gate", "recheck",
         "flip", "fail", "record", "done"}

\* What a delivery of an encode job remembers: the audiobook's status as last read, the
\* requested formats as last read, and whether it is inside the try block
NothingSeen == [book |-> "ABSENT", formats |-> {}, inTry |-> FALSE]

Init ==
  /\ manifest = 1
  /\ abStatus = [v \in Versions |-> "ABSENT"]
  /\ abManifest = [v \in Versions |-> 0]
  /\ abFormats = [v \in Versions |-> <<>>]
  /\ master = [v \in Versions |-> 0]
  /\ current = 0
  /\ pointer = 0
  /\ rendition = [e \in Encodes |-> [u \in Units |-> "ABSENT"]]
  /\ completed = [v \in Versions |-> {}]
  /\ aStatus = [j \in AJobs |-> "ABSENT"]
  /\ aKey = [j \in AJobs |-> <<>>]
  /\ aFormats = [j \in AJobs |-> <<>>]
  /\ aPc = [j \in AJobs |-> "absent"]
  /\ aTries = [j \in AJobs |-> 0]
  /\ aManifest = [j \in AJobs |-> 0]
  /\ aBook = [j \in AJobs |-> 0]
  /\ aTodo = [j \in AJobs |-> {}]
  /\ eStatus = [e \in Encodes |-> "ABSENT"]
  /\ ePc = [e \in Encodes |-> "absent"]
  /\ eTries = [e \in Encodes |-> 0]
  /\ eSeen = [e \in Encodes |-> NothingSeen]
  /\ crashes = 0
  /\ faults = 0

Fault ==
  /\ faults < MaxFaults /\ crashes + faults < MaxTroubles
  /\ faults' = faults + 1 /\ UNCHANGED crashes

Crash ==
  /\ crashes < MaxCrashes /\ crashes + faults < MaxTroubles
  /\ crashes' = crashes + 1 /\ UNCHANGED faults

\* the largest of a set of versions, 0 when there is none
Latest(S) == IF S = {} THEN 0 ELSE CHOOSE v \in S : \A w \in S : w <= v

RangeOf(s) == {s[i] : i \in DOMAIN s}

-----------------------------------------------------------------------------
(* Renditions *)

\* the renditions a format consists of
UnitsOf(f) == IF f \in PerChapter THEN Chapters ELSE {Whole}

\* isFormatFullyReady and isDeliveryFormatReady; one packaging policy exists, so every
\* rendition matches it
FullyReady(v, f) == \A u \in UnitsOf(f) : rendition[<<v, f>>][u] = "READY"

\* resolveRequestedDeliveryFormats: the formats of every encode job row of the audiobook
RequestedFormats(v) == {f \in Formats : eStatus[<<v, f>>] # "ABSENT"}

-----------------------------------------------------------------------------
(* The chapters, and the two ways to ask for the audiobook *)

\* An assemble_chapter job supersedes the current audio of its chapter
Reassemble ==
  /\ manifest < MaxManifest
  /\ manifest' = manifest + 1
  /\ UNCHANGED <<bookVars, gateVars, rendition, aVars, eVars, faultVars>>

\* The partial unique index on (tenant_id, idempotency_key)
KeyFree(key) == \A j \in AJobs : aKey[j] = key => aStatus[j] \in {"ABSENT", "FAILED"}

CreateAssemble(j, formats, key) ==
  /\ aStatus[j] = "ABSENT"
  /\ KeyFree(key)
  /\ aStatus' = [aStatus EXCEPT ![j] = "CREATED"]
  /\ aKey' = [aKey EXCEPT ![j] = key]
  /\ aFormats' = [aFormats EXCEPT ![j] = formats]
  /\ aPc' = [aPc EXCEPT ![j] = "wait"]
  /\ UNCHANGED <<aTries, aManifest, aBook, aTodo>>
  /\ UNCHANGED <<manifest, bookVars, gateVars, rendition, eVars, faultVars>>

\* The formats of a READY audiobook that maybeEnqueueAssembleAudiobook takes for available:
\* containerFormat, and every format with some READY rendition
TakenForReady(v) ==
  {f \in Formats :
     \/ \E u \in Units : rendition[<<v, f>>][u] = "READY"
     \/ Head(abFormats[v]) = f}

\* startAssembly with scope AUDIOBOOK when every chapter is up to date
\* (maybeEnqueueAssembleAudiobook, not forced)
RequestByApi(j, formats) ==
  LET ready == {v \in Versions : abStatus[v] = "READY" /\ abManifest[v] = manifest}
  IN  /\ ready = {} \/ \E v \in ready : ~(RangeOf(formats) \subseteq TakenForReady(v))
      /\ CreateAssemble(j, formats, <<"api", manifest, Head(formats)>>)

\* maybeTriggerAudiobookFanIn by the last chapter to finish
RequestByFanIn(j, formats) ==
  /\ \A k \in AJobs : aStatus[k] \notin {"CREATED", "RUNNING"}
  /\ CreateAssemble(j, formats, <<"fanin">>)

-----------------------------------------------------------------------------
(* processAssembleAudiobookJob *)

AGoto(j, pc) == aPc' = [aPc EXCEPT ![j] = pc]

\* The processor threw: another attempt, or none left
ANack(j) ==
  /\ aTries' = [aTries EXCEPT ![j] = @ + 1]
  /\ AGoto(j, IF aTries[j] + 1 >= MaxAttempts THEN "done" ELSE "wait")

\* A redelivered terminal job is skipped
ASkip(j) ==
  /\ aPc[j] = "wait"
  /\ aStatus[j] \in {"SUCCEEDED", "FAILED"}
  /\ AGoto(j, "done")
  /\ UNCHANGED <<aStatus, aKey, aFormats, aTries, aManifest, aBook, aTodo>>
  /\ UNCHANGED <<manifest, bookVars, gateVars, rendition, eVars, faultVars>>

\* The chapters are not all assembled, or they mix Director versions: FAILED, no throw
ANotReady(j) ==
  /\ aPc[j] = "wait"
  /\ aStatus[j] \notin {"SUCCEEDED", "FAILED"}
  /\ aStatus' = [aStatus EXCEPT ![j] = "FAILED"]
  /\ AGoto(j, "done")
  /\ UNCHANGED <<aKey, aFormats, aTries, aManifest, aBook, aTodo>>
  /\ UNCHANGED <<manifest, bookVars, gateVars, rendition, eVars, faultVars>>

\* Mutation of Reusable: a version of any manifest will do
Reusable_AnyManifest(m) == {v \in Versions : abStatus[v] \notin {"ABSENT", "FAILED"}}

\* The versions of the same manifest that are neither FAILED nor SUPERSEDED
Reusable(m) ==
  {v \in Versions : abManifest[v] = m /\ abStatus[v] \notin {"ABSENT", "FAILED"}}

\* The manifest is hashed and the latest reusable version looked up
ALoad(j) ==
  /\ aPc[j] = "wait"
  /\ aStatus[j] \notin {"SUCCEEDED", "FAILED"}
  /\ aManifest' = [aManifest EXCEPT ![j] = manifest]
  /\ IF Reusable(manifest) = {}
     THEN AGoto(j, "start") /\ UNCHANGED <<aBook, aTodo>>
     ELSE LET v == Latest(Reusable(manifest))
          IN  /\ AGoto(j, "resume")
              /\ aBook' = [aBook EXCEPT ![j] = v]
              /\ aTodo' = [aTodo EXCEPT ![j] =
                             {i \in DOMAIN aFormats[j] : ~FullyReady(v, aFormats[j][i])}]
  /\ UNCHANGED <<aStatus, aKey, aFormats, aTries>>
  /\ UNCHANGED <<manifest, bookVars, gateVars, rendition, eVars, faultVars>>

\* Packaging only: the job succeeds at once, the missing formats are enqueued after that
AResume(j) ==
  /\ aPc[j] = "resume"
  /\ aStatus' = [aStatus EXCEPT ![j] = "SUCCEEDED"]
  /\ AGoto(j, IF aTodo[j] = {} THEN "done" ELSE "repack")
  /\ UNCHANGED <<aKey, aFormats, aTries, aManifest, aBook, aTodo>>
  /\ UNCHANGED <<manifest, bookVars, gateVars, rendition, eVars, faultVars>>

\* RUNNING, then the next version is read, outside the transaction that takes it
AStart(j) ==
  /\ aPc[j] = "start"
  /\ current < MaxVersion
  /\ aStatus' = [aStatus EXCEPT ![j] = "RUNNING"]
  /\ aBook' = [aBook EXCEPT ![j] = Latest({v \in Versions : abStatus[v] # "ABSENT"}) + 1]
  /\ AGoto(j, "build")
  /\ UNCHANGED <<aKey, aFormats, aTries, aManifest, aTodo>>
  /\ UNCHANGED <<manifest, bookVars, gateVars, rendition, eVars, faultVars>>

\* assembleAudiobookMaster, and the upload under the version's key
ABuild(j) ==
  /\ aPc[j] = "build"
  /\ master' = [master EXCEPT ![aBook[j]] = aManifest[j]]
  /\ AGoto(j, "commit")
  /\ UNCHANGED <<aStatus, aKey, aFormats, aTries, aManifest, aBook, aTodo>>
  /\ UNCHANGED <<abStatus, abManifest, abFormats, current>>
  /\ UNCHANGED <<manifest, gateVars, rendition, eVars, faultVars>>

\* Mutation of ACommit: the new version is not made current when there is one already
ACommit_KeepCurrent(j) ==
  /\ aPc[j] = "commit"
  /\ abStatus[aBook[j]] = "ABSENT"
  /\ abStatus' = [abStatus EXCEPT ![aBook[j]] = "ASSEMBLING"]
  /\ abManifest' = [abManifest EXCEPT ![aBook[j]] = aManifest[j]]
  /\ abFormats' = [abFormats EXCEPT ![aBook[j]] = aFormats[j]]
  /\ current' = IF current = 0 THEN aBook[j] ELSE current
  /\ aStatus' = [aStatus EXCEPT ![j] = "SUCCEEDED"]
  /\ aTodo' = [aTodo EXCEPT ![j] = DOMAIN aFormats[j]]
  /\ AGoto(j, "enqueue")
  /\ UNCHANGED <<aKey, aFormats, aTries, aManifest, aBook, master>>
  /\ UNCHANGED <<manifest, gateVars, rendition, eVars, faultVars>>

\* The transaction that demotes the current audiobook and creates the new one
ACommit(j) ==
  /\ aPc[j] = "commit"
  /\ abStatus[aBook[j]] = "ABSENT"
  /\ abStatus' = [abStatus EXCEPT ![aBook[j]] = "ASSEMBLING"]
  /\ abManifest' = [abManifest EXCEPT ![aBook[j]] = aManifest[j]]
  /\ abFormats' = [abFormats EXCEPT ![aBook[j]] = aFormats[j]]
  /\ current' = aBook[j]
  /\ aStatus' = [aStatus EXCEPT ![j] = "SUCCEEDED"]
  /\ aTodo' = [aTodo EXCEPT ![j] = DOMAIN aFormats[j]]
  /\ AGoto(j, "enqueue")
  /\ UNCHANGED <<aKey, aFormats, aTries, aManifest, aBook, master>>
  /\ UNCHANGED <<manifest, gateVars, rendition, eVars, faultVars>>

\* Another job took the version: audiobook_book_id_version_key refuses the row
ACommitConflict(j) ==
  /\ aPc[j] = "commit"
  /\ abStatus[aBook[j]] # "ABSENT"
  /\ AGoto(j, "fail")
  /\ UNCHANGED <<aStatus, aKey, aFormats, aTries, aManifest, aBook, aTodo>>
  /\ UNCHANGED <<manifest, bookVars, gateVars, rendition, eVars, faultVars>>

EncodeKeyFree(e) == eStatus[e] \in {"ABSENT", "FAILED"}

CreateEncode(e) ==
  /\ eStatus' = [eStatus EXCEPT ![e] = "CREATED"]
  /\ ePc' = [ePc EXCEPT ![e] = "wait"]
  /\ eTries' = [eTries EXCEPT ![e] = 0]
  /\ UNCHANGED eSeen

\* enqueueEncodeJobs takes the formats in their order
NextTodo(j) == CHOOSE i \in aTodo[j] : \A k \in aTodo[j] : i <= k

NextEncode(j) == <<aBook[j], aFormats[j][NextTodo(j)]>>

\* The next row (once the message of a FAILED one has gone)
EnqueueNext(j) ==
  LET e == NextEncode(j)
  IN  /\ aPc[j] \in {"enqueue", "repack"}
      /\ EncodeKeyFree(e) /\ ePc[e] \in {"absent", "done"}
      /\ CreateEncode(e)

\* The loop ends with an exception: inside the try block when the master was built, outside
\* it when only the packaging was resumed
EnqueueThrows(j) ==
  /\ aTodo' = [aTodo EXCEPT ![j] = {}]
  /\ IF aPc[j] = "enqueue" THEN AGoto(j, "fail") /\ UNCHANGED aTries ELSE ANack(j)

AEnqueue(j) ==
  /\ EnqueueNext(j)
  /\ aTodo' = [aTodo EXCEPT ![j] = @ \ {NextTodo(j)}]
  /\ AGoto(j, IF aTodo[j] = {NextTodo(j)} THEN "done" ELSE aPc[j])
  /\ UNCHANGED <<aStatus, aKey, aFormats, aTries, aManifest, aBook>>
  /\ UNCHANGED <<manifest, bookVars, gateVars, rendition, faultVars>>

\* The encode job of that format exists: the unique index refuses the row
AEnqueueConflict(j) ==
  /\ aPc[j] \in {"enqueue", "repack"}
  /\ ~EncodeKeyFree(NextEncode(j))
  /\ EnqueueThrows(j)
  /\ UNCHANGED <<aStatus, aKey, aFormats, aManifest, aBook>>
  /\ UNCHANGED <<manifest, bookVars, gateVars, rendition, eVars, faultVars>>

\* The row cannot be created, or it is and Redis refuses its message (the sweeper will
\* dispatch it)
AEnqueueFault(j) ==
  /\ aPc[j] \in {"enqueue", "repack"}
  /\ Fault
  /\ UNCHANGED eVars \/ EnqueueNext(j)
  /\ EnqueueThrows(j)
  /\ UNCHANGED <<aStatus, aKey, aFormats, aManifest, aBook>>
  /\ UNCHANGED <<manifest, bookVars, gateVars, rendition>>

\* Mutation of AFail: the status is not looked at again
AFail_Unguarded(j) ==
  /\ aPc[j] = "fail"
  /\ aStatus' = [aStatus EXCEPT ![j] = "FAILED"]
  /\ ANack(j)
  /\ UNCHANGED <<aKey, aFormats, aManifest, aBook, aTodo>>
  /\ UNCHANGED <<manifest, bookVars, gateVars, rendition, eVars, faultVars>>

\* handleAudiobookAssemblyFailure: terminal on the first error, then the error is rethrown
AFail(j) ==
  /\ aPc[j] = "fail"
  /\ aStatus' = [aStatus EXCEPT ![j] = IF @ \in {"FAILED", "SUCCEEDED"} THEN @ ELSE "FAILED"]
  /\ ANack(j)
  /\ UNCHANGED <<aKey, aFormats, aManifest, aBook, aTodo>>
  /\ UNCHANGED <<manifest, bookVars, gateVars, rendition, eVars, faultVars>>

\* A query, transaction or upload rejects.  Inside the try block the failure handler follows.
AFault(j) ==
  /\ aPc[j] \in {"wait", "resume", "start", "build", "commit", "fail"}
  /\ Fault
  /\ IF aPc[j] \in {"build", "commit"}
     THEN AGoto(j, "fail") /\ UNCHANGED aTries ELSE ANack(j)
  /\ UNCHANGED <<aStatus, aKey, aFormats, aManifest, aBook, aTodo>>
  /\ UNCHANGED <<manifest, bookVars, gateVars, rendition, eVars>>

\* The worker dies; BullMQ finds the job stalled and delivers it again
ACrash(j) ==
  /\ aPc[j] \notin {"absent", "wait", "done"}
  /\ Crash
  /\ AGoto(j, "wait")
  /\ aTodo' = [aTodo EXCEPT ![j] = {}]
  /\ UNCHANGED <<aStatus, aKey, aFormats, aTries, aManifest, aBook>>
  /\ UNCHANGED <<manifest, bookVars, gateVars, rendition, eVars>>

-----------------------------------------------------------------------------
(* processEncodeDeliveryFormatJob, for the job e of version e[1], format e[2] *)

EGoto(e, pc) == ePc' = [ePc EXCEPT ![e] = pc]

\* The end of a delivery
ELeave(e, pc) == EGoto(e, pc) /\ eSeen' = [eSeen EXCEPT ![e] = NothingSeen]

ENack(e) ==
  /\ eTries' = [eTries EXCEPT ![e] = @ + 1]
  /\ ELeave(e, IF eTries[e] + 1 >= MaxAttempts THEN "done" ELSE "wait")

ESkip(e) ==
  /\ ePc[e] = "wait"
  /\ eStatus[e] \in {"SUCCEEDED", "FAILED"}
  /\ ELeave(e, "done")
  /\ UNCHANGED <<eStatus, eTries>>
  /\ UNCHANGED <<manifest, bookVars, gateVars, rendition, aVars, faultVars>>

\* The job and the audiobook are read, and whether the format is READY already
ELoad(e) ==
  /\ ePc[e] = "wait"
  /\ eStatus[e] \notin {"SUCCEEDED", "FAILED"}
  /\ eSeen' = [eSeen EXCEPT ![e] = [book |-> abStatus[e[1]], formats |-> {},
                                    inTry |-> ~FullyReady(e[1], e[2])]]
  /\ EGoto(e, IF FullyReady(e[1], e[2]) THEN "noop" ELSE "start")
  /\ UNCHANGED <<eStatus, eTries>>
  /\ UNCHANGED <<manifest, bookVars, gateVars, rendition, aVars, faultVars>>

EStart(e) ==
  /\ ePc[e] = "start"
  /\ eStatus' = [eStatus EXCEPT ![e] = "RUNNING"]
  /\ EGoto(e, "encode")
  /\ UNCHANGED <<eTries, eSeen>>
  /\ UNCHANGED <<manifest, bookVars, gateVars, rendition, aVars, faultVars>>

\* encodeSingleFileFormat: encode, verify, upload and upsertRendition
EEncodeWhole(e) ==
  /\ ePc[e] = "encode"
  /\ e[2] \notin PerChapter
  /\ rendition' = [rendition EXCEPT ![e][Whole] = "READY"]
  /\ EGoto(e, "succeed")
  /\ UNCHANGED <<eStatus, eTries, eSeen>>
  /\ UNCHANGED <<manifest, bookVars, gateVars, aVars, faultVars>>

\* Mutation of EEncodeChapter: the job is done with the first missing chapter
EEncodeChapter_FirstOnly(e) ==
  /\ ePc[e] = "encode"
  /\ e[2] \in PerChapter
  /\ \E u \in Chapters :
       /\ rendition[e][u] # "READY"
       /\ rendition' = [rendition EXCEPT ![e][u] = "READY"]
  /\ EGoto(e, "succeed")
  /\ UNCHANGED <<eStatus, eTries, eSeen>>
  /\ UNCHANGED <<manifest, bookVars, gateVars, aVars, faultVars>>

\* encodeMp3PerChapter: a chapter that has no READY rendition yet; their order is immaterial
EEncodeChapter(e) ==
  /\ ePc[e] = "encode"
  /\ e[2] \in PerChapter
  /\ \E u \in Chapters :
       /\ rendition[e][u] # "READY"
       /\ rendition' = [rendition EXCEPT ![e][u] = "READY"]
       /\ EGoto(e, IF \A x \in Chapters \ {u} : rendition[e][x] = "READY"
                   THEN "succeed" ELSE "encode")
  /\ UNCHANGED <<eStatus, eTries, eSeen>>
  /\ UNCHANGED <<manifest, bookVars, gateVars, aVars, faultVars>>

\* ffmpeg fails, or the artifact does not pass its verification
EEncodeFails(e) ==
  /\ ePc[e] = "encode"
  /\ EGoto(e, "fail")
  /\ UNCHANGED <<eStatus, eTries, eSeen>>
  /\ UNCHANGED <<manifest, bookVars, gateVars, rendition, aVars, faultVars>>

\* The job SUCCEEDED, in a transaction of its own; publication comes after it
ESucceed(e) ==
  /\ ePc[e] \in {"succeed", "noop"}
  /\ eStatus' = [eStatus EXCEPT ![e] = "SUCCEEDED"]
  /\ EGoto(e, "publish")
  /\ UNCHANGED <<eTries, eSeen>>
  /\ UNCHANGED <<manifest, bookVars, gateVars, rendition, aVars, faultVars>>

-----------------------------------------------------------------------------
(* maybePublishAudiobook *)

\* The audiobook as it was loaded is already READY
EPublishSkip(e) ==
  /\ ePc[e] = "publish"
  /\ eSeen[e].book = "READY"
  /\ ELeave(e, "done")
  /\ UNCHANGED <<eStatus, eTries>>
  /\ UNCHANGED <<manifest, bookVars, gateVars, rendition, aVars, faultVars>>

EPublish(e) ==
  /\ ePc[e] = "publish"
  /\ eSeen[e].book # "READY"
  /\ eSeen' = [eSeen EXCEPT ![e].formats = RequestedFormats(e[1])]
  /\ EGoto(e, "gate")
  /\ UNCHANGED <<eStatus, eTries>>
  /\ UNCHANGED <<manifest, bookVars, gateVars, rendition, aVars, faultVars>>

\* Mutation of AllReady: the format just encoded is enough
AllReady_Own(e) == FullyReady(e[1], e[2])

\* Every requested format, as the rows told, has its READY renditions
AllReady(e) == \A f \in eSeen[e].formats : FullyReady(e[1], f)

EGatePasses(e) ==
  /\ ePc[e] = "gate"
  /\ AllReady(e)
  /\ EGoto(e, "recheck")
  /\ UNCHANGED <<eStatus, eTries, eSeen>>
  /\ UNCHANGED <<manifest, bookVars, gateVars, rendition, aVars, faultVars>>

EGateHolds(e) ==
  /\ ePc[e] = "gate"
  /\ ~AllReady(e)
  /\ ELeave(e, "done")
  /\ UNCHANGED <<eStatus, eTries>>
  /\ UNCHANGED <<manifest, bookVars, gateVars, rendition, aVars, faultVars>>

\* The publishing transaction reads the status again: nothing to do ...
ERecheckSkip(e) ==
  /\ ePc[e] = "recheck"
  /\ abStatus[e[1]] = "READY"
  /\ ELeave(e, "done")
  /\ UNCHANGED <<eStatus, eTries>>
  /\ UNCHANGED <<manifest, bookVars, gateVars, rendition, aVars, faultVars>>

\* ... or it goes on
ERecheck(e) ==
  /\ ePc[e] = "recheck"
  /\ abStatus[e[1]] # "READY"
  /\ EGoto(e, "flip")
  /\ UNCHANGED <<eStatus, eTries, eSeen>>
  /\ UNCHANGED <<manifest, bookVars, gateVars, rendition, aVars, faultVars>>

\* and writes audiobook, book and audiobook.completed, without a lock since the read
EFlip(e) ==
  /\ ePc[e] = "flip"
  /\ abStatus' = [abStatus EXCEPT ![e[1]] = "READY"]
  /\ pointer' = e[1]
  /\ completed' = [completed EXCEPT ![e[1]] = @ \cup {eSeen[e].formats}]
  /\ ELeave(e, "done")
  /\ UNCHANGED <<eStatus, eTries>>
  /\ UNCHANGED <<manifest, abManifest, abFormats, master, current, rendition, aVars, faultVars>>

-----------------------------------------------------------------------------
(* handleEncodeFailure *)

\* Nothing is recorded before the final attempt, nor twice
EFail(e) ==
  /\ ePc[e] = "fail"
  /\ eTries[e] + 1 < MaxAttempts \/ eStatus[e] = "FAILED"
  /\ ENack(e)
  /\ UNCHANGED eStatus
  /\ UNCHANGED <<manifest, bookVars, gateVars, rendition, aVars, faultVars>>

\* The recording transaction reads the audiobook ...
EFailFinal(e) ==
  /\ ePc[e] = "fail"
  /\ eTries[e] + 1 >= MaxAttempts /\ eStatus[e] # "FAILED"
  /\ eSeen' = [eSeen EXCEPT ![e].book = abStatus[e[1]]]
  /\ EGoto(e, "record")
  /\ UNCHANGED <<eStatus, eTries>>
  /\ UNCHANGED <<manifest, bookVars, gateVars, rendition, aVars, faultVars>>

\* Mutation of ERecord: the audiobook is left to the formats that succeed
ERecord_KeepBook(e) ==
  /\ ePc[e] = "record"
  /\ e[2] \notin PerChapter
  /\ eStatus' = [eStatus EXCEPT ![e] = "FAILED"]
  /\ rendition' = [rendition EXCEPT ![e][Whole] = "FAILED"]
  /\ ENack(e)
  /\ UNCHANGED <<manifest, bookVars, gateVars, aVars, faultVars>>

\* ... and writes the job, its rendition and, unless it was READY, the audiobook
ERecord(e) ==
  /\ ePc[e] = "record"
  /\ e[2] \notin PerChapter
  /\ eStatus' = [eStatus EXCEPT ![e] = "FAILED"]
  /\ rendition' = [rendition EXCEPT ![e][Whole] = "FAILED"]
  /\ abStatus' = IF eSeen[e].book = "READY"
                 THEN abStatus ELSE [abStatus EXCEPT ![e[1]] = "FAILED"]
  /\ ENack(e)
  /\ UNCHANGED <<manifest, abManifest, abFormats, master, current, gateVars, aVars, faultVars>>

\* audiobook_rendition_mp3_per_chapter_chk refuses a per-chapter rendition without a
\* chapter, and the transaction is rolled back
ERecordRefused(e) ==
  /\ ePc[e] = "record"
  /\ e[2] \in PerChapter
  /\ ENack(e)
  /\ UNCHANGED eStatus
  /\ UNCHANGED <<manifest, bookVars, gateVars, rendition, aVars, faultVars>>

\* A query, transaction or upload rejects.  Inside the try block, publication included, the
\* failure handler follows; the no-op path publishes outside it.
EFault(e) ==
  /\ ePc[e] \notin {"absent", "done"}
  /\ Fault
  /\ IF ePc[e] \in {"encode", "succeed", "publish", "gate", "recheck", "flip"} /\ eSeen[e].inTry
     THEN EGoto(e, "fail") /\ UNCHANGED <<eTries, eSeen>> ELSE ENack(e)
  /\ UNCHANGED eStatus
  /\ UNCHANGED <<manifest, bookVars, gateVars, rendition, aVars>>

ECrash(e) ==
  /\ ePc[e] \notin {"absent", "wait", "done"}
  /\ Crash
  /\ ELeave(e, "wait")
  /\ UNCHANGED <<eStatus, eTries>>
  /\ UNCHANGED <<manifest, bookVars, gateVars, rendition, aVars>>

-----------------------------------------------------------------------------
AssembleStep(j) ==
  \/ ASkip(j) \/ ALoad(j) \/ AResume(j) \/ AStart(j) \/ ABuild(j)
  \/ ACommit(j) \/ ACommitConflict(j) \/ AEnqueue(j) \/ AEnqueueConflict(j) \/ AFail(j)

EncodeStep(e) ==
  \/ ESkip(e) \/ ELoad(e) \/ EStart(e) \/ EEncodeWhole(e) \/ EEncodeChapter(e) \/ ESucceed(e)
  \/ EPublishSkip(e) \/ EPublish(e) \/ EGatePasses(e) \/ EGateHolds(e)
  \/ ERecheckSkip(e) \/ ERecheck(e) \/ EFlip(e)
  \/ EFail(e) \/ EFailFinal(e) \/ ERecord(e) \/ ERecordRefused(e)

Next ==
  \/ Reassemble
  \/ \E j \in AJobs, formats \in Requests : RequestByApi(j, formats) \/ RequestByFanIn(j, formats)
  \/ \E j \in AJobs : AssembleStep(j) \/ ANotReady(j) \/ AFault(j) \/ AEnqueueFault(j) \/ ACrash(j)
  \/ \E e \in Encodes : EncodeStep(e) \/ EEncodeFails(e) \/ EFault(e) \/ ECrash(e)

Spec == Init /\ [][Next]_vars

\* Audio workers keep taking waiting messages and finish the deliveries they began
Fairness ==
  /\ \A j \in AJobs : WF_vars(AssembleStep(j))
  /\ \A e \in Encodes : WF_vars(EncodeStep(e))

FairSpec == Spec /\ Fairness

-----------------------------------------------------------------------------
(* Properties *)

\* The types of the rows, the objects and the deliveries.
TypeOK ==
  /\ manifest \in 1..MaxManifest
  /\ abStatus \in [Versions -> BookStatuses]
  /\ abManifest \in [Versions -> 0..MaxManifest]
  /\ abFormats \in [Versions -> Seq(Formats)]
  /\ master \in [Versions -> 0..MaxManifest]
  /\ current \in 0..MaxVersion
  /\ pointer \in 0..MaxVersion
  /\ rendition \in [Encodes -> [Units -> RenditionStatuses]]
  /\ completed \in [Versions -> SUBSET SUBSET Formats]
  /\ aStatus \in [AJobs -> JobStatuses]
  /\ aFormats \in [AJobs -> Seq(Formats)]
  /\ aPc \in [AJobs -> APcs]
  /\ aTries \in [AJobs -> 0..MaxAttempts]
  /\ aManifest \in [AJobs -> 0..MaxManifest]
  /\ aBook \in [AJobs -> 0..MaxVersion]
  /\ aTodo \in [AJobs -> SUBSET Nat]
  /\ eStatus \in [Encodes -> JobStatuses]
  /\ ePc \in [Encodes -> EPcs]
  /\ eTries \in [Encodes -> 0..MaxAttempts]
  /\ eSeen \in [Encodes -> [book : BookStatuses, formats : SUBSET Formats, inTry : BOOLEAN]]
  /\ crashes \in 0..MaxCrashes /\ faults \in 0..MaxFaults

\* is_current marks the newest version, however many assembly jobs of the book run at once:
\* the version read outside the transaction never lets an older audiobook be made current
\* after a newer one.
CurrentIsNewest == \A v \in Versions : abStatus[v] # "ABSENT" <=> v <= current

\* An assemble_audiobook job that SUCCEEDED names as its result an audiobook of exactly the
\* chapter audio it hashed, whether it built that version or resumed one.
ResultOfManifest ==
  \A j \in AJobs : aStatus[j] = "SUCCEEDED" =>
    aBook[j] # 0 /\ abStatus[aBook[j]] # "ABSENT" /\ abManifest[aBook[j]] = aManifest[j]

\* A SUCCEEDED encode job stands for READY renditions of its whole format, every chapter of
\* a per-chapter one included, after any number of resumed attempts and failing queries.
SucceededIsEncoded == \A e \in Encodes : eStatus[e] = "SUCCEEDED" => FullyReady(e[1], e[2])

\* While no query fails, every format that an audiobook.completed event lists as available
\* has, from then on, all its READY renditions.
AdvertisedReady ==
  faults = 0 => \A v \in Versions : \A formats \in completed[v] : \A f \in formats : FullyReady(v, f)

\* The recorded outcome of an assembly is final: an enqueue that fails after the commit
\* does not turn SUCCEEDED into FAILED, nor does a redelivery run the job again.
AssemblyOutcomeStands ==
  [][\A j \in AJobs : aStatus[j] \in {"SUCCEEDED", "FAILED"} => aStatus'[j] = aStatus[j]]_vars

\* The final failure of a per-chapter format that could not be recorded (ERecordRefused)
Unrecorded(v) ==
  \E f \in PerChapter : ePc[<<v, f>>] = "done" /\ eStatus[<<v, f>>] = "RUNNING"

\* An audiobook does not stay ASSEMBLING: concurrent finishers cannot each leave the
\* publication to the other, and a format that fails for good fails the audiobook.  A crash,
\* a failing query and the refused record of a per-chapter failure are the ways out.
Publishes ==
  \A v \in Versions : abStatus[v] = "ASSEMBLING" ~>
    abStatus[v] \in {"READY", "FAILED"} \/ crashes + faults > 0 \/ Unrecorded(v)

-----------------------------------------------------------------------------
(* The inductive invariant *)

\* The row and the message of an assembly are of one age, its formats are those of its request,
\* and a delivery has an attempt left.
AssemblyInStep ==
  \A j \in AJobs :
    /\ aPc[j] = "absent" <=> aStatus[j] = "ABSENT"
    /\ aPc[j] \in {"resume", "start", "build", "commit"} => aStatus[j] \notin {"SUCCEEDED", "FAILED"}
    /\ aPc[j] \in {"enqueue", "repack"} => aStatus[j] = "SUCCEEDED" /\ aTodo[j] # {}
    /\ aTodo[j] \subseteq DOMAIN aFormats[j]
    /\ aPc[j] = "absent" => aTodo[j] = {}
    /\ aPc[j] # "absent" => aFormats[j] # <<>>
    /\ aPc[j] # "done" => aTries[j] < MaxAttempts

\* The result of an assembly, from the moment it is found or created.
ResultNamed ==
  \A j \in AJobs : aPc[j] = "resume" \/ aStatus[j] = "SUCCEEDED" =>
    aBook[j] \in Versions /\ abStatus[aBook[j]] # "ABSENT" /\ abManifest[aBook[j]] = aManifest[j]

\* The version read outside the transaction is the next one, or was taken since.
VersionReserved ==
  \A j \in AJobs : aPc[j] \in {"build", "commit"} => aBook[j] \in Versions /\ aBook[j] <= current + 1

\* An encode job is of an audiobook that there is, and its delivery has an attempt left.
EncodeInStep ==
  \A e \in Encodes :
    /\ ePc[e] # "absent" => abStatus[e[1]] # "ABSENT"
    /\ ePc[e] # "done" => eTries[e] < MaxAttempts

\* A delivery about to succeed has the renditions of its format.
AboutToSucceed ==
  \A e \in Encodes : ePc[e] \in {"succeed", "noop"} => FullyReady(e[1], e[2])

\* While no query fails, a rendition that a failure handler is going to mark FAILED was not
\* READY, and what the gate has seen stays so until the flip.
GateStands ==
  faults = 0 => \A e \in Encodes :
    /\ ePc[e] \in {"start", "encode", "fail", "record"} /\ e[2] \notin PerChapter =>
         rendition[e][Whole] # "READY"
    /\ ePc[e] \in {"recheck", "flip"} => AllReady(e)

IInv ==
  /\ TypeOK /\ AssemblyInStep /\ ResultNamed /\ VersionReserved /\ EncodeInStep /\ CurrentIsNewest
  /\ AboutToSucceed /\ SucceededIsEncoded /\ GateStands /\ AdvertisedReady
=============================================================================
