------------------------------- MODULE Casting -------------------------------
(***************************************************************************)
(* The cast of a book: the characters of its registry with their aliases   *)
(* and merges (AnalysisService), the versions of a voice profile with      *)
(* their previews, approval and locks, and the assignment of voices to     *)
(* characters (VoiceService).  Nearly every request reads, decides and     *)
(* then writes by id: a request is two steps, and other requests, the      *)
(* director and the TTS worker come between them.                          *)
(*                                                                         *)
(* There is one voice profile and one surface form stands for an alias     *)
(* with its scope.  A merge is a transaction whose statements each see     *)
(* what is committed and hold the rows they have written.                  *)
(* PREVIEW_GENERATED is an approval state that nothing writes, so that a   *)
(* version cannot be rejected, and is left out.                            *)
(***************************************************************************)
EXTENDS Naturals

CONSTANTS
  Users,        \* requests at a time
  Characters,
  Cast,         \* the characters that speak and are given voices
  Narrator,     \* the one whose voice stands in
  Names,        \* normalized surface forms
  MaxVersions,  \* bound: versions of the profile
  MaxCalls      \* bound: requests

ASSUME CastingAssumption ==
  /\ Narrator \in Cast /\ "nobody" \notin Characters
  /\ MaxVersions \in Nat \ {0} /\ MaxCalls \in Nat

VARIABLES
  req,                      \* what the request of each user has read
  versionCount, active,     \* voice_profile: version_count, active_version_number
  profileDeleted,           \* deleted_at
  approval, locked,         \* voice_profile_version: approval_state, lock_state
  pending, ready,           \* versions with a preview GENERATING, with one READY
  assigned, nth,            \* the version a character has, and how many it has had
  bindings,                 \* the versions the director has loaded for a chapter
  bound, frozen,            \* the version its chunks carry, and whether they are LOCKED
  standing, mergedInto,     \* character: status, merged_into_character_id
  aliasOf,                  \* the character of a surface form
  calls,                    \* how many there were
  met                       \* history: <<c, v>> when an assignment of v to c and a retirement
                            \* of v were requested at the same time

voiceVars == <<versionCount, active, profileDeleted, approval, locked, pending, ready>>
castVars == <<assigned, nth, bindings, bound, frozen>>
registryVars == <<standing, mergedInto, aliasOf>>
callVars == <<req, calls, met>>
castingVars == <<callVars, voiceVars, castVars, registryVars>>

Versions == 1..MaxVersions
Nobody == "nobody"
NoBindings == [c \in {} |-> 0]
NoCall == [op |-> "idle"]

CastingInit ==
  /\ req = [u \in Users |-> NoCall]
  /\ versionCount = 0 /\ active = 0 /\ profileDeleted = FALSE
  /\ approval = [v \in Versions |-> "ABSENT"] /\ locked = {}
  /\ pending = {} /\ ready = {}
  /\ assigned = [c \in Cast |-> 0] /\ nth = [c \in Cast |-> 0]
  /\ bindings = NoBindings /\ bound = [c \in Cast |-> 0] /\ frozen = {}
  /\ standing = [c \in Characters |-> "PROVISIONAL"]
  /\ mergedInto = [c \in Characters |-> Nobody]
  /\ aliasOf = [n \in Names |-> Nobody]
  /\ calls = 0 /\ met = {}

CountsCall == calls < MaxCalls /\ calls' = calls + 1

Overlaps(requests) ==
  {p \in Cast \X Versions : \E t, u \in Users :
     /\ requests[t].op = "assign" /\ <<requests[t].c, requests[t].v>> = p
     /\ requests[u].op = "retire" /\ requests[u].v = p[2]}

Reads(u, r) ==
  /\ req[u] = NoCall /\ CountsCall
  /\ req' = [req EXCEPT ![u] = r]
  /\ met' = met \cup Overlaps(req')
Writes(u, op) == req[u].op = op /\ req' = [req EXCEPT ![u] = NoCall] /\ UNCHANGED <<calls, met>>

Existing == {v \in Versions : approval[v] # "ABSENT"}
Production(v) == approval[v] = "APPROVED"

-----------------------------------------------------------------------------
(* The voice profile; requireOwnedVoiceProfile answers for one that is not deleted *)

\* createVoiceProfileVersion takes the next number from version_count, before its transaction
ReadVersionCount(u) ==
  /\ ~profileDeleted /\ versionCount < MaxVersions
  /\ Reads(u, [op |-> "create", v |-> versionCount + 1])
  /\ UNCHANGED <<voiceVars, castVars, registryVars>>

\* The unique key (voice_profile_id, version) admits the first of two
CreateVersion(u) ==
  /\ Writes(u, "create")
  /\ IF req[u].v \in Existing
     THEN UNCHANGED <<approval, versionCount>>
     ELSE /\ approval' = [approval EXCEPT ![req[u].v] = "DRAFT"]
          /\ versionCount' = req[u].v
  /\ UNCHANGED <<active, profileDeleted, locked, pending, ready, castVars, registryVars>>

\* createVoicePreviews, and the job generate_voice_preview, which leaves the preview GENERATING
\* unless it succeeds or fails on its final attempt
CreateVoicePreview(v) ==
  /\ ~profileDeleted /\ v \in Existing \ (pending \cup ready)
  /\ pending' = pending \cup {v}
  /\ UNCHANGED <<callVars, versionCount, active, profileDeleted, approval, locked, ready, castVars, registryVars>>

MarkVoicePreviewReady(v) ==
  /\ v \in pending
  /\ pending' = pending \ {v} /\ ready' = ready \cup {v}
  /\ UNCHANGED <<callVars, versionCount, active, profileDeleted, approval, locked, castVars, registryVars>>

MarkVoicePreviewFailed(v) ==
  /\ v \in pending
  /\ pending' = pending \ {v}
  /\ UNCHANGED <<callVars, versionCount, active, profileDeleted, approval, locked, ready, castVars, registryVars>>

\* approveVoiceProfileVersion, of a version with a READY preview; a RETIRED one too
ReadForApproval(u, v) ==
  /\ ~profileDeleted /\ v \in ready /\ ~Production(v)
  /\ Reads(u, [op |-> "approve", v |-> v])
  /\ UNCHANGED <<voiceVars, castVars, registryVars>>

\* Its transaction reads the active version, without a lock
ReadActive(u) ==
  /\ req[u].op = "approve"
  /\ req' = [req EXCEPT ![u] = [op |-> "promote", v |-> req[u].v, newest |-> active]]
  /\ UNCHANGED <<calls, met, voiceVars, castVars, registryVars>>

\* and raises it
Approve(u) ==
  /\ Writes(u, "promote")
  /\ approval' = [approval EXCEPT ![req[u].v] = "APPROVED"]
  /\ active' = IF req[u].newest < req[u].v THEN req[u].v ELSE active
  /\ UNCHANGED <<versionCount, profileDeleted, locked, pending, ready, castVars, registryVars>>

ReadForLock(u, v) ==
  /\ ~profileDeleted /\ Production(v) /\ v \notin locked
  /\ Reads(u, [op |-> "lock", v |-> v])
  /\ UNCHANGED <<voiceVars, castVars, registryVars>>

LockVersion(u) ==
  /\ Writes(u, "lock")
  /\ locked' = locked \cup {req[u].v}
  /\ UNCHANGED <<versionCount, active, profileDeleted, approval, pending, ready, castVars, registryVars>>

\* Mutation of ReadForRetirement: without a look at the assignments
ReadForRetirement_Blind(u, v) ==
  /\ ~profileDeleted /\ v \in Existing
  /\ Reads(u, [op |-> "retire", v |-> v])
  /\ UNCHANGED <<voiceVars, castVars, registryVars>>

\* retireVoiceProfileVersion, of any version that no character has
ReadForRetirement(u, v) ==
  /\ ~profileDeleted /\ v \in Existing
  /\ \A c \in Cast : assigned[c] # v
  /\ Reads(u, [op |-> "retire", v |-> v])
  /\ UNCHANGED <<voiceVars, castVars, registryVars>>

\* Mutation of Retire: a version goes back to DRAFT
Retire_ToDraft(u) ==
  /\ Writes(u, "retire")
  /\ approval' = [approval EXCEPT ![req[u].v] = "DRAFT"]
  /\ UNCHANGED <<versionCount, active, profileDeleted, locked, pending, ready, castVars, registryVars>>

Retire(u) ==
  /\ Writes(u, "retire")
  /\ approval' = [approval EXCEPT ![req[u].v] = "RETIRED"]
  /\ UNCHANGED <<versionCount, active, profileDeleted, locked, pending, ready, castVars, registryVars>>

ReadForDeletion(u) ==
  /\ ~profileDeleted /\ locked = {}
  /\ Reads(u, [op |-> "delete"])
  /\ UNCHANGED <<voiceVars, castVars, registryVars>>

DeleteProfile(u) ==
  /\ Writes(u, "delete")
  /\ profileDeleted' = TRUE
  /\ UNCHANGED <<versionCount, active, approval, locked, pending, ready, castVars, registryVars>>

-----------------------------------------------------------------------------
(* The voices of characters *)

\* The version asked for, or the active one
ReadForAssignment(u, c, v) ==
  /\ ~profileDeleted /\ Production(v)
  /\ Reads(u, [op |-> "assign", c |-> c, v |-> v, nth |-> IF assigned[c] # 0 THEN nth[c] ELSE 0])
  /\ UNCHANGED <<voiceVars, castVars, registryVars>>

\* A previous assignment is made to point to the new row before there is one, which the
\* foreign key refuses; voice_assignment_active_key admits the first of two new ones
Assign(u) ==
  LET c == req[u].c
  IN  /\ Writes(u, "assign")
      /\ IF req[u].nth # 0 \/ assigned[c] # 0
         THEN UNCHANGED <<assigned, nth>>
         ELSE /\ assigned' = [assigned EXCEPT ![c] = req[u].v]
              /\ nth' = [nth EXCEPT ![c] = @ + 1]
      /\ UNCHANGED <<voiceVars, bindings, bound, frozen, registryVars>>

\* clearCharacterVoice, unless LOCKED chunks carry the version
ReadForClearing(u, c) ==
  /\ assigned[c] # 0
  /\ ~(c \in frozen /\ bound[c] = assigned[c])
  /\ Reads(u, [op |-> "clear", c |-> c, nth |-> nth[c]])
  /\ UNCHANGED <<voiceVars, castVars, registryVars>>

\* Mutation of ClearVoice: whichever assignment the character has
ClearVoice_Any(u) ==
  /\ Writes(u, "clear")
  /\ assigned' = [assigned EXCEPT ![req[u].c] = 0]
  /\ UNCHANGED <<voiceVars, nth, bindings, bound, frozen, registryVars>>

\* The assignment that was read is no longer active; a later one is another row
ClearVoice(u) ==
  LET c == req[u].c
  IN  /\ Writes(u, "clear")
      /\ assigned' = [assigned EXCEPT ![c] = IF nth[c] = req[u].nth THEN 0 ELSE @]
      /\ UNCHANGED <<voiceVars, nth, bindings, bound, frozen, registryVars>>

\* preload_voice_bindings: the versions in production, read before the model is asked
PreloadVoiceBindings ==
  /\ bindings = NoBindings
  /\ bindings' = [c \in {d \in Cast : assigned[d] # 0 /\ Production(assigned[d])} |-> assigned[c]]
  /\ bindings' # NoBindings
  /\ UNCHANGED <<callVars, voiceVars, assigned, nth, bound, frozen, registryVars>>

\* resolve_voice_binding_from_cache: a character without a voice is read by the narrator
CastVoice(c) ==
  IF c \in DOMAIN bindings THEN bindings[c]
  ELSE IF Narrator \in DOMAIN bindings THEN bindings[Narrator] ELSE 0

\* The chunks of the chapter, those that are LOCKED excepted
Direct ==
  /\ bindings # NoBindings
  /\ bound' = [c \in Cast |-> IF c \in frozen THEN bound[c] ELSE CastVoice(c)]
  /\ bindings' = NoBindings
  /\ UNCHANGED <<callVars, voiceVars, assigned, nth, frozen, registryVars>>

\* The transaction of generate_tts_chunk that checks the version again and, in begin_tts_job,
\* locks the chunks and the version
BeginTtsJob(c) ==
  /\ bound[c] # 0 /\ Production(bound[c]) /\ c \notin frozen
  /\ frozen' = frozen \cup {c}
  /\ locked' = locked \cup {bound[c]}
  /\ UNCHANGED <<callVars, versionCount, active, profileDeleted, approval, pending, ready>>
  /\ UNCHANGED <<assigned, nth, bindings, bound, registryVars>>

-----------------------------------------------------------------------------
(* The registry *)

\* createCharacterAlias, where the surface form is free
ReadForAlias(u, c, n) ==
  /\ aliasOf[n] \in {Nobody, c}
  /\ Reads(u, [op |-> "alias", c |-> c, n |-> n])
  /\ UNCHANGED <<voiceVars, castVars, registryVars>>

\* character_alias_no_overlap_excl admits one row, of whichever character
CreateAlias(u) ==
  /\ Writes(u, "alias")
  /\ aliasOf' = [aliasOf EXCEPT ![req[u].n] = IF @ = Nobody THEN req[u].c ELSE @]
  /\ UNCHANGED <<voiceVars, castVars, standing, mergedInto>>

\* Mutation of Held: the aliases are only read before they are moved
Held_Read == {}

\* The rows that merges have written and not committed
Held == UNION {IF req[u].op = "move" THEN req[u].moved ELSE {} : u \in Users}

\* Waits for the transaction that holds the row
DeleteAlias(n) ==
  /\ aliasOf[n] # Nobody /\ n \notin Held /\ CountsCall
  /\ aliasOf' = [aliasOf EXCEPT ![n] = Nobody]
  /\ UNCHANGED <<req, met, voiceVars, castVars, standing, mergedInto>>

\* createCharacterMerge looks at the loser alone
ReadForMerge(u, loser, winner) ==
  /\ standing[loser] # "MERGED_INTO"
  /\ Reads(u, [op |-> "merge", c |-> loser, w |-> winner])
  /\ UNCHANGED <<voiceVars, castVars, registryVars>>

\* Its transaction first moves the aliases that the loser has by now, another merge's when
\* that has ended
MoveAliases(u) ==
  LET r == req[u]
      moved == {n \in Names : aliasOf[n] = r.c}
  IN  /\ r.op = "merge" /\ moved \cap Held = {}
      /\ req' = [req EXCEPT ![u] = [op |-> "move", c |-> r.c, w |-> r.w, moved |-> moved]]
      /\ UNCHANGED <<calls, met, voiceVars, castVars, registryVars>>

\* then marks the loser, and commits: an alias created in between stays with the loser
Merge(u) ==
  LET r == req[u]
  IN  /\ Writes(u, "move")
      /\ aliasOf' = [n \in Names |-> IF n \in r.moved THEN r.w ELSE aliasOf[n]]
      /\ standing' = [standing EXCEPT ![r.c] = "MERGED_INTO"]
      /\ mergedInto' = [mergedInto EXCEPT ![r.c] = r.w]
      /\ UNCHANGED <<voiceVars, castVars>>

\* The operation SPLIT, of any character: the aliases stay with the winner
Split(c) ==
  /\ CountsCall
  /\ standing' = [standing EXCEPT ![c] = "PROVISIONAL"]
  /\ mergedInto' = [mergedInto EXCEPT ![c] = Nobody]
  /\ UNCHANGED <<req, met, voiceVars, castVars, aliasOf>>

\* updateCharacter, to a status that a character which was not merged may have
ReadForUpdate(u, c) ==
  /\ standing[c] # "MERGED_INTO"
  /\ Reads(u, [op |-> "update", c |-> c])
  /\ UNCHANGED <<voiceVars, castVars, registryVars>>

UpdateCharacter(u) ==
  /\ Writes(u, "update")
  /\ standing' = [standing EXCEPT ![req[u].c] = "CONFIRMED"]
  /\ UNCHANGED <<voiceVars, castVars, mergedInto, aliasOf>>

-----------------------------------------------------------------------------
Request(u) ==
  \/ ReadVersionCount(u) \/ CreateVersion(u) \/ ReadActive(u) \/ Approve(u) \/ LockVersion(u) \/ Retire(u)
  \/ ReadForDeletion(u) \/ DeleteProfile(u) \/ Assign(u) \/ ClearVoice(u)
  \/ CreateAlias(u) \/ MoveAliases(u) \/ Merge(u) \/ UpdateCharacter(u)
  \/ \E v \in Versions : ReadForApproval(u, v) \/ ReadForLock(u, v) \/ ReadForRetirement(u, v)
  \/ \E c \in Cast : ReadForClearing(u, c) \/ \E v \in Versions : ReadForAssignment(u, c, v)
  \/ \E c \in Characters :
       \/ ReadForUpdate(u, c)
       \/ \E n \in Names : ReadForAlias(u, c, n)
       \/ \E w \in Characters : ReadForMerge(u, c, w)

CastingNext ==
  \/ \E u \in Users : Request(u)
  \/ \E v \in Versions : CreateVoicePreview(v) \/ MarkVoicePreviewReady(v) \/ MarkVoicePreviewFailed(v)
  \/ PreloadVoiceBindings \/ Direct
  \/ \E c \in Cast : BeginTtsJob(c)
  \/ \E c \in Characters : Split(c)
  \/ \E n \in Names : DeleteAlias(n)

CastingSpec == CastingInit /\ [][CastingNext]_castingVars

-----------------------------------------------------------------------------
(* Properties *)

\* The types of the profile, its versions, the cast and the registry.
CastingTypeOK ==
  /\ versionCount \in 0..MaxVersions /\ active \in Existing \cup {0} /\ profileDeleted \in BOOLEAN
  /\ approval \in [Versions -> {"ABSENT", "DRAFT", "APPROVED", "RETIRED"}]
  /\ locked \cup pending \cup ready \subseteq Existing
  /\ assigned \in [Cast -> Existing \cup {0}] /\ nth \in [Cast -> Nat]
  /\ DOMAIN bindings \subseteq Cast /\ \A c \in DOMAIN bindings : bindings[c] \in Existing
  /\ bound \in [Cast -> Existing \cup {0}] /\ frozen \subseteq Cast
  /\ standing \in [Characters -> {"PROVISIONAL", "CONFIRMED", "MERGED_INTO"}]
  /\ mergedInto \in [Characters -> Characters \cup {Nobody}]
  /\ aliasOf \in [Names -> Characters \cup {Nobody}]
  /\ calls \in 0..MaxCalls /\ met \subseteq Cast \X Versions

\* Speech is synthesized with a locked version, and a locked version was approved, could be
\* heard and never becomes a draft again, whoever retires or approves it meanwhile.
LockedWasApproved ==
  /\ \A c \in frozen : bound[c] \in locked
  /\ \A v \in locked : v \in ready /\ approval[v] \in {"APPROVED", "RETIRED"}

\* Nobody loses an assignment to a request that knew of an earlier one: what ends it is a
\* clearing, or a new assignment, that has read this very row.
SupersededOnlyIfSeen ==
  [][\A c \in Cast :
       assigned[c] # 0 /\ <<assigned'[c], nth'[c]>> # <<assigned[c], nth[c]>>
         => \E u \in Users : /\ req[u].op \in {"clear", "assign"} /\ req'[u] = NoCall
                             /\ req[u].c = c /\ req[u].nth = nth[c]]_castingVars

\* A character keeps a voice that is RETIRED only where its assignment and the retirement were
\* requested at the same time; with one after the other, the second is refused.
RetiredOnlyByRace ==
  \A c \in Cast :
    assigned[c] # 0 /\ approval[assigned[c]] = "RETIRED" => <<c, assigned[c]>> \in met

\* A surface form passes from one character to another only when the one is merged into the
\* other: a merge never takes along a form that was freed and given to a third meanwhile.
FormsPassByMerge ==
  [][\A n \in Names :
       aliasOf[n] # Nobody /\ aliasOf'[n] \notin {aliasOf[n], Nobody}
         => mergedInto'[aliasOf[n]] = aliasOf'[n] /\ standing'[aliasOf[n]] = "MERGED_INTO"]_castingVars

-----------------------------------------------------------------------------
(* The inductive invariant *)

\* What a request may have read.
Reading ==
  {NoCall, [op |-> "delete"]}
  \cup [op : {"create", "approve", "lock"}, v : Versions]
  \cup [op : {"promote"}, v : Versions, newest : 0..MaxVersions]
  \cup [op : {"retire"}, v : Versions]
  \cup [op : {"assign"}, c : Cast, v : Versions, nth : Nat]
  \cup [op : {"clear"}, c : Cast, nth : Nat]
  \cup [op : {"alias"}, c : Characters, n : Names]
  \cup [op : {"merge"}, c : Characters, w : Characters]
  \cup [op : {"move"}, c : Characters, w : Characters, moved : SUBSET Names]
  \cup [op : {"update"}, c : Characters]

\* A version that could be heard when it was approved; no request takes that back.
Heard == {v \in ready : approval[v] \in {"APPROVED", "RETIRED"}}

\* Approval, and every use of a version, follows a preview.
VoicesHeard ==
  /\ \A v \in Versions : Production(v) => v \in ready
  /\ \A c \in Cast : assigned[c] \in Heard \cup {0} /\ bound[c] \in Heard \cup {0}
  /\ \A c \in DOMAIN bindings : bindings[c] \in Heard
  /\ \A c \in frozen : bound[c] \in locked
  /\ locked \subseteq Heard

\* What a request has read of the versions outlives the requests that come before its write.
ReadingStands ==
  \A u \in Users :
    /\ req[u].op \in {"approve", "promote"} => req[u].v \in ready
    /\ req[u].op \in {"lock", "assign"} => req[u].v \in Heard
    /\ req[u].op = "retire" => req[u].v \in Existing

CastingInv == CastingTypeOK /\ req \in [Users -> Reading] /\ VoicesHeard /\ ReadingStands

\* Where a request under way has met another: whatever it still writes is among those.
RacesNoted ==
  /\ Overlaps(req) \subseteq met
  /\ \A u \in Users : \A c \in Cast :
       /\ req[u].op = "retire" /\ assigned[c] = req[u].v => <<c, req[u].v>> \in met
       /\ req[u].op = "assign" /\ req[u].c = c /\ approval[req[u].v] = "RETIRED"
            => <<c, req[u].v>> \in met

\* The forms that a merge holds are the loser's until it commits, and no other merge has them.
MovesHold ==
  \A u \in Users : req[u].op = "move" =>
    /\ \A n \in req[u].moved : aliasOf[n] = req[u].c
    /\ \A t \in Users \ {u} : req[t].op = "move" => req[t].moved \cap req[u].moved = {}
=============================================================================
