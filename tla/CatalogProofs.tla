---------------------------- MODULE CatalogProofs ----------------------------
(***************************************************************************)
(* Proofs about the two components of a book that requests change step by  *)
(* step: Casting, its voices and characters, for every number of users,    *)
(* characters, versions and requests; and Library, its source files, for   *)
(* every number of clients, sessions, contents and attempts.               *)
(*                                                                         *)
(* Each has an inductive invariant, CastingInv and IInv, from which its    *)
(* invariants and action properties follow.                                *)
(***************************************************************************)
EXTENDS Casting, Library, TLAPS


-----------------------------------------------------------------------------
(* What a request has read *)

\* The fields of what a request has read, by the operation it is for.
LEMMA ReadingFields ==
  ASSUME req \in [Users -> Reading], NEW u \in Users
  PROVE  /\ req[u].op \in {"create", "approve", "lock", "promote", "retire", "assign"} =>
              req[u].v \in Versions
         /\ req[u].op = "promote" => req[u].newest \in 0..MaxVersions
         /\ req[u].op \in {"assign", "clear"} => req[u].c \in Cast /\ req[u].nth \in Nat
         /\ req[u].op \in {"alias", "merge", "move", "update"} => req[u].c \in Characters
         /\ req[u].op = "alias" => req[u].n \in Names
         /\ req[u].op \in {"merge", "move"} => req[u].w \in Characters
         /\ req[u].op = "move" => req[u].moved \subseteq Names
<1>1. req[u] \in Reading
  OBVIOUS
<1> QED
  BY <1>1 DEF Reading, NoCall

\* A request that reads or writes leaves what the others have read.
LEMMA ReadingTyped ==
  ASSUME req \in [Users -> Reading], NEW u \in Users, NEW r \in Reading,
         req' = [req EXCEPT ![u] = r]
  PROVE  /\ req' \in [Users -> Reading]
         /\ req'[u] = r
         /\ \A x \in Users \ {u} : req'[x] = req[x]
  OBVIOUS

\* An idle request has read nothing.
LEMMA IdleReads == NoCall \in Reading /\ NoCall.op = "idle"
  BY DEF NoCall, Reading

-----------------------------------------------------------------------------
(* Steps that read *)

\* A request that reads what stands keeps the inductive invariant.
LEMMA ReadPreserves ==
  ASSUME CastingInv, NEW u \in Users, NEW r \in Reading, Reads(u, r),
         UNCHANGED <<voiceVars, castVars, registryVars>>,
         r.op \in {"approve", "promote"} => r.v \in ready,
         r.op \in {"lock", "assign"} => r.v \in Heard,
         r.op = "retire" => r.v \in Existing
  PROVE  CastingInv'
<1> USE DEF voiceVars, castVars, registryVars
<1>1. /\ req' = [req EXCEPT ![u] = r] /\ calls' \in 0..MaxCalls
      /\ met' \subseteq Cast \X Versions
  BY CastingAssumption DEF Reads, CountsCall, Overlaps, CastingInv, CastingTypeOK
<1>2. /\ req' \in [Users -> Reading] /\ req'[u] = r
      /\ \A x \in Users \ {u} : req'[x] = req[x]
  BY <1>1, ReadingTyped DEF CastingInv
<1>3. CastingTypeOK'
  BY <1>1 DEF CastingInv, CastingTypeOK, Existing
<1>4. VoicesHeard'
  BY DEF CastingInv, VoicesHeard, Heard, Production
<1>5. ReadingStands'
  BY <1>2 DEF CastingInv, ReadingStands, Heard, Existing
<1> QED
  BY <1>2, <1>3, <1>4, <1>5 DEF CastingInv

\* What approveVoiceProfileVersion and the other requests check before they write.
LEMMA ReadsPreserve ==
  ASSUME CastingInv, NEW u \in Users,
         \/ ReadVersionCount(u) \/ ReadForDeletion(u)
         \/ \E v \in Versions : ReadForApproval(u, v) \/ ReadForLock(u, v) \/ ReadForRetirement(u, v)
         \/ \E c \in Cast : ReadForClearing(u, c) \/ \E v \in Versions : ReadForAssignment(u, c, v)
         \/ \E c \in Characters :
              \/ ReadForUpdate(u, c)
              \/ \E n \in Names : ReadForAlias(u, c, n)
              \/ \E w \in Characters : ReadForMerge(u, c, w)
  PROVE  CastingInv'
<1>1. CASE ReadVersionCount(u)
  <2>1. [op |-> "create", v |-> versionCount + 1] \in Reading
    BY <1>1, CastingAssumption DEF ReadVersionCount, CastingInv, CastingTypeOK, Reading, Versions
  <2> QED
    BY <1>1, <2>1, ReadPreserves DEF ReadVersionCount
<1>2. CASE ReadForDeletion(u)
  <2>1. [op |-> "delete"] \in Reading
    BY DEF Reading
  <2> QED
    BY <1>2, <2>1, ReadPreserves DEF ReadForDeletion
<1>3. ASSUME NEW v \in Versions, ReadForApproval(u, v) PROVE CastingInv'
  <2>1. [op |-> "approve", v |-> v] \in Reading
    BY DEF Reading
  <2> QED
    BY <1>3, <2>1, ReadPreserves DEF ReadForApproval
<1>4. ASSUME NEW v \in Versions, ReadForLock(u, v) PROVE CastingInv'
  <2>1. [op |-> "lock", v |-> v] \in Reading /\ v \in Heard
    BY <1>4 DEF Reading, ReadForLock, Heard, CastingInv, VoicesHeard, Production
  <2> QED
    BY <1>4, <2>1, ReadPreserves DEF ReadForLock
<1>5. ASSUME NEW v \in Versions, ReadForRetirement(u, v) PROVE CastingInv'
  <2>1. [op |-> "retire", v |-> v] \in Reading
    BY DEF Reading
  <2> QED
    BY <1>5, <2>1, ReadPreserves DEF ReadForRetirement
<1>6. ASSUME NEW c \in Cast, ReadForClearing(u, c) PROVE CastingInv'
  <2>1. [op |-> "clear", c |-> c, nth |-> nth[c]] \in Reading
    BY DEF Reading, CastingInv, CastingTypeOK
  <2> QED
    BY <1>6, <2>1, ReadPreserves DEF ReadForClearing
<1>7. ASSUME NEW c \in Cast, NEW v \in Versions, ReadForAssignment(u, c, v) PROVE CastingInv'
  <2> DEFINE seen == IF assigned[c] # 0 THEN nth[c] ELSE 0
  <2>1. seen \in Nat
    BY DEF CastingInv, CastingTypeOK
  <2>2. [op |-> "assign", c |-> c, v |-> v, nth |-> seen] \in Reading
    BY <2>1 DEF Reading
  <2>3. v \in Heard
    BY <1>7 DEF ReadForAssignment, Heard, CastingInv, VoicesHeard, Production
  <2> QED
    BY <1>7, <2>2, <2>3, ReadPreserves DEF ReadForAssignment
<1>8. ASSUME NEW c \in Characters, ReadForUpdate(u, c) PROVE CastingInv'
  <2>1. [op |-> "update", c |-> c] \in Reading
    BY DEF Reading
  <2> QED
    BY <1>8, <2>1, ReadPreserves DEF ReadForUpdate
<1>9. ASSUME NEW c \in Characters, NEW n \in Names, ReadForAlias(u, c, n) PROVE CastingInv'
  <2>1. [op |-> "alias", c |-> c, n |-> n] \in Reading
    BY DEF Reading
  <2> QED
    BY <1>9, <2>1, ReadPreserves DEF ReadForAlias
<1>10. ASSUME NEW c \in Characters, NEW w \in Characters, ReadForMerge(u, c, w) PROVE CastingInv'
  <2>1. [op |-> "merge", c |-> c, w |-> w] \in Reading
    BY DEF Reading
  <2> QED
    BY <1>10, <2>1, ReadPreserves DEF ReadForMerge
<1> QED
  BY <1>1, <1>2, <1>3, <1>4, <1>5, <1>6, <1>7, <1>8, <1>9, <1>10

-----------------------------------------------------------------------------
(* Steps that write *)

\* A request that writes is idle again and leaves the others.
LEMMA WriteFrees ==
  ASSUME CastingInv, NEW u \in Users, NEW op, Writes(u, op)
  PROVE  /\ req' \in [Users -> Reading] /\ req[u].op = op /\ req'[u].op = "idle"
         /\ \A x \in Users \ {u} : req'[x] = req[x]
         /\ calls' = calls /\ met' = met
  BY ReadingTyped, IdleReads DEF CastingInv, Writes

\* The writes of the voice profile keep the inductive invariant.
LEMMA VoicePreserves ==
  ASSUME CastingInv, NEW u \in Users,
         CreateVersion(u) \/ ReadActive(u) \/ Approve(u) \/ LockVersion(u) \/ Retire(u) \/ DeleteProfile(u)
  PROVE  CastingInv'
<1> USE DEF voiceVars, castVars, registryVars
<1>1. CASE CreateVersion(u)
  <2>1. /\ req' \in [Users -> Reading] /\ req[u].op = "create" /\ req'[u].op = "idle"
        /\ \A x \in Users \ {u} : req'[x] = req[x]
        /\ calls' = calls /\ met' = met
    BY <1>1, WriteFrees DEF CreateVersion
  <2>2. req[u].v \in Versions
    BY <2>1, ReadingFields DEF CastingInv
  <2>3. req[u].v \in 0..MaxVersions
    BY <2>2, CastingAssumption DEF Versions
  <2>4. /\ approval' \in [Versions -> {"ABSENT", "DRAFT", "APPROVED", "RETIRED"}]
        /\ versionCount' \in 0..MaxVersions
        /\ \A v \in Existing : approval'[v] = approval[v]
        /\ \A v \in Versions : Production(v)' => Production(v)
    <3>1. CASE req[u].v \in Existing
      BY <1>1, <3>1 DEF CreateVersion, CastingInv, CastingTypeOK, Production
    <3>2. CASE req[u].v \notin Existing
      BY <1>1, <2>2, <2>3, <3>2 DEF CreateVersion, CastingInv, CastingTypeOK, Existing, Production
    <3> QED
      BY <3>1, <3>2
  <2>5. Existing \subseteq Existing'
    BY <2>4 DEF Existing
  <2>6. ready \subseteq Existing
    BY DEF CastingInv, CastingTypeOK
  <2>7. Heard' = Heard
    BY <1>1, <2>4, <2>6 DEF CreateVersion, Heard
  <2>8. CastingTypeOK'
    BY <1>1, <2>1, <2>4, <2>5 DEF CreateVersion, CastingInv, CastingTypeOK
  <2>9. VoicesHeard'
    BY <1>1, <2>4, <2>7 DEF CreateVersion, CastingInv, VoicesHeard
  <2>10. ReadingStands'
    BY <1>1, <2>1, <2>5, <2>7 DEF CreateVersion, CastingInv, ReadingStands
  <2> QED
    BY <2>1, <2>8, <2>9, <2>10 DEF CastingInv
<1>2. CASE ReadActive(u)
  <2> DEFINE r == [op |-> "promote", v |-> req[u].v, newest |-> active]
  <2>1. req[u].op = "approve" /\ req[u].v \in Versions /\ req[u].v \in ready
    BY <1>2, ReadingFields DEF ReadActive, CastingInv, ReadingStands
  <2>2. active \in 0..MaxVersions
    BY CastingAssumption DEF CastingInv, CastingTypeOK, Existing, Versions
  <2>3. r \in Reading
    BY <2>1, <2>2 DEF Reading
  <2>4. /\ req' \in [Users -> Reading] /\ req'[u] = r
        /\ \A x \in Users \ {u} : req'[x] = req[x]
    BY <1>2, <2>3, ReadingTyped DEF ReadActive, CastingInv
  <2>5. CastingTypeOK' /\ VoicesHeard'
    BY <1>2 DEF ReadActive, CastingInv, CastingTypeOK, VoicesHeard, Existing, Heard, Production
  <2>6. ReadingStands'
    BY <1>2, <2>1, <2>4 DEF ReadActive, CastingInv, ReadingStands, Heard, Existing
  <2> QED
    BY <2>4, <2>5, <2>6 DEF CastingInv
<1>3. CASE Approve(u)
  <2>1. /\ req' \in [Users -> Reading] /\ req[u].op = "promote" /\ req'[u].op = "idle"
        /\ \A x \in Users \ {u} : req'[x] = req[x]
        /\ calls' = calls /\ met' = met
    BY <1>3, WriteFrees DEF Approve
  <2>2. req[u].v \in Versions /\ req[u].v \in ready
    BY <2>1, ReadingFields DEF CastingInv, ReadingStands
  <2>3. /\ approval' \in [Versions -> {"ABSENT", "DRAFT", "APPROVED", "RETIRED"}]
        /\ approval'[req[u].v] = "APPROVED"
        /\ \A v \in Versions \ {req[u].v} : approval'[v] = approval[v]
    BY <1>3, <2>2 DEF Approve, CastingInv, CastingTypeOK
  <2>4. Existing' = Existing
    BY <2>2, <2>3 DEF Existing, CastingInv, CastingTypeOK
  <2>5. Heard' = Heard \cup {req[u].v}
    BY <1>3, <2>2, <2>3, <2>4 DEF Approve, Heard, Existing, CastingInv, CastingTypeOK
  <2>6. CastingTypeOK'
    BY <1>3, <2>1, <2>2, <2>3, <2>4 DEF Approve, CastingInv, CastingTypeOK
  <2>7. VoicesHeard'
    BY <1>3, <2>2, <2>3, <2>5 DEF Approve, CastingInv, VoicesHeard, Production
  <2>8. ReadingStands'
    BY <1>3, <2>1, <2>4, <2>5 DEF Approve, CastingInv, ReadingStands
  <2> QED
    BY <2>1, <2>6, <2>7, <2>8 DEF CastingInv
<1>4. CASE LockVersion(u)
  <2>1. /\ req' \in [Users -> Reading] /\ req[u].op = "lock" /\ req'[u].op = "idle"
        /\ \A x \in Users \ {u} : req'[x] = req[x]
        /\ calls' = calls /\ met' = met
    BY <1>4, WriteFrees DEF LockVersion
  <2>2. req[u].v \in Heard
    BY <2>1 DEF CastingInv, ReadingStands
  <2>3. CastingTypeOK'
    BY <1>4, <2>1, <2>2 DEF LockVersion, CastingInv, CastingTypeOK, Existing, Heard
  <2>4. VoicesHeard' /\ ReadingStands'
    BY <1>4, <2>1, <2>2 DEF LockVersion, CastingInv, VoicesHeard, ReadingStands, Heard, Production, Existing
  <2> QED
    BY <2>1, <2>3, <2>4 DEF CastingInv
<1>5. CASE Retire(u)
  <2>1. /\ req' \in [Users -> Reading] /\ req[u].op = "retire" /\ req'[u].op = "idle"
        /\ \A x \in Users \ {u} : req'[x] = req[x]
        /\ calls' = calls /\ met' = met
    BY <1>5, WriteFrees DEF Retire
  <2>2. req[u].v \in Existing
    BY <2>1 DEF CastingInv, ReadingStands
  <2>3. /\ approval' \in [Versions -> {"ABSENT", "DRAFT", "APPROVED", "RETIRED"}]
        /\ approval'[req[u].v] = "RETIRED"
        /\ \A v \in Versions \ {req[u].v} : approval'[v] = approval[v]
    BY <1>5, <2>2 DEF Retire, CastingInv, CastingTypeOK, Existing
  <2>4. Existing' = Existing
    BY <2>2, <2>3 DEF Existing, CastingInv, CastingTypeOK
  <2>5. Heard \subseteq Heard'
    BY <1>5, <2>3, <2>4 DEF Retire, Heard, Existing, CastingInv, CastingTypeOK
  <2>6. CastingTypeOK'
    BY <1>5, <2>1, <2>3, <2>4 DEF Retire, CastingInv, CastingTypeOK
  <2>7. VoicesHeard'
    BY <1>5, <2>2, <2>3, <2>5 DEF Retire, CastingInv, VoicesHeard, Production
  <2>8. ReadingStands'
    BY <1>5, <2>1, <2>4, <2>5 DEF Retire, CastingInv, ReadingStands
  <2> QED
    BY <2>1, <2>6, <2>7, <2>8 DEF CastingInv
<1>6. CASE DeleteProfile(u)
  <2>1. /\ req' \in [Users -> Reading] /\ req'[u].op = "idle"
        /\ \A x \in Users \ {u} : req'[x] = req[x]
        /\ calls' = calls /\ met' = met
    BY <1>6, WriteFrees DEF DeleteProfile
  <2>2. CastingTypeOK' /\ VoicesHeard'
    BY <1>6, <2>1 DEF DeleteProfile, CastingInv, CastingTypeOK, VoicesHeard, Existing, Heard, Production
  <2>3. ReadingStands'
    BY <1>6, <2>1 DEF DeleteProfile, CastingInv, ReadingStands, Existing, Heard
  <2> QED
    BY <2>1, <2>2, <2>3 DEF CastingInv
<1> QED
  BY <1>1, <1>2, <1>3, <1>4, <1>5, <1>6

\* The writes of assignments and of the registry keep the inductive invariant.
LEMMA CastPreserves ==
  ASSUME CastingInv, NEW u \in Users,
         Assign(u) \/ ClearVoice(u) \/ CreateAlias(u) \/ MoveAliases(u) \/ Merge(u) \/ UpdateCharacter(u)
  PROVE  CastingInv'
<1> USE DEF voiceVars, castVars, registryVars
<1>1. CASE Assign(u)
  <2>1. /\ req' \in [Users -> Reading] /\ req[u].op = "assign" /\ req'[u].op = "idle"
        /\ \A x \in Users \ {u} : req'[x] = req[x]
        /\ calls' = calls /\ met' = met
    BY <1>1, WriteFrees DEF Assign
  <2>2. req[u].c \in Cast /\ req[u].v \in Heard
    BY <2>1, ReadingFields DEF CastingInv, ReadingStands
  <2>3. Existing' = Existing /\ Heard' = Heard /\ Heard \subseteq Existing
    BY <1>1 DEF Assign, Existing, Heard, CastingInv, CastingTypeOK
  <2>4. assigned' \in [Cast -> Heard \cup {0}] /\ nth' \in [Cast -> Nat]
    BY <1>1, <2>2 DEF Assign, CastingInv, CastingTypeOK, VoicesHeard
  <2>5. CastingTypeOK'
    BY <1>1, <2>1, <2>3, <2>4 DEF Assign, CastingInv, CastingTypeOK
  <2>6. VoicesHeard'
    BY <1>1, <2>3, <2>4 DEF Assign, CastingInv, VoicesHeard, Production
  <2>7. ReadingStands'
    BY <1>1, <2>1, <2>3 DEF ReadingStands, CastingInv, Assign
  <2> QED
    BY <2>1, <2>5, <2>6, <2>7 DEF CastingInv
<1>2. CASE ClearVoice(u)
  <2>1. /\ req' \in [Users -> Reading] /\ req[u].op = "clear" /\ req'[u].op = "idle"
        /\ \A x \in Users \ {u} : req'[x] = req[x]
        /\ calls' = calls /\ met' = met
    BY <1>2, WriteFrees DEF ClearVoice
  <2>2. Existing' = Existing /\ Heard' = Heard /\ 0 \notin Existing
    BY <1>2, CastingAssumption DEF ClearVoice, Existing, Heard, Versions
  <2>3. /\ assigned' \in [Cast -> Existing \cup {0}]
        /\ \A c \in Cast : assigned'[c] \in {assigned[c], 0}
    BY <1>2, <2>1, ReadingFields DEF ClearVoice, CastingInv, CastingTypeOK
  <2>4. CastingTypeOK'
    BY <1>2, <2>1, <2>2, <2>3 DEF ClearVoice, CastingInv, CastingTypeOK
  <2>5. VoicesHeard'
    BY <1>2, <2>2, <2>3 DEF ClearVoice, CastingInv, VoicesHeard, Production
  <2>6. ReadingStands'
    BY <1>2, <2>1, <2>2, <2>3 DEF ClearVoice, CastingInv, ReadingStands
  <2> QED
    BY <2>1, <2>4, <2>5, <2>6 DEF CastingInv
<1>3. CASE CreateAlias(u) \/ Merge(u) \/ UpdateCharacter(u)
  <2>1. /\ req' \in [Users -> Reading] /\ req'[u].op = "idle"
        /\ req[u].op \in {"alias", "move", "update"}
        /\ \A x \in Users \ {u} : req'[x] = req[x]
        /\ calls' = calls /\ met' = met
    BY <1>3, WriteFrees DEF CreateAlias, Merge, UpdateCharacter
  <2>2. UNCHANGED <<voiceVars, castVars>>
    BY <1>3 DEF CreateAlias, Merge, UpdateCharacter
  <2>3. /\ standing' \in [Characters -> {"PROVISIONAL", "CONFIRMED", "MERGED_INTO"}]
        /\ mergedInto' \in [Characters -> Characters \cup {Nobody}]
        /\ aliasOf' \in [Names -> Characters \cup {Nobody}]
    <3>1. CASE CreateAlias(u)
      BY <3>1, ReadingFields DEF CreateAlias, Writes, CastingInv, CastingTypeOK
    <3>2. CASE Merge(u)
      BY <3>2, ReadingFields DEF Merge, Writes, CastingInv, CastingTypeOK
    <3>3. CASE UpdateCharacter(u)
      BY <3>3, ReadingFields DEF UpdateCharacter, Writes, CastingInv, CastingTypeOK
    <3> QED
      BY <1>3, <3>1, <3>2, <3>3
  <2>4. CastingTypeOK'
    BY <2>1, <2>2, <2>3 DEF CastingInv, CastingTypeOK, Existing
  <2>5. VoicesHeard' /\ ReadingStands'
    BY <2>1, <2>2 DEF CastingInv, VoicesHeard, ReadingStands, Heard, Existing, Production
  <2> QED
    BY <2>1, <2>4, <2>5 DEF CastingInv
<1>4. CASE MoveAliases(u)
  <2> DEFINE r == [op |-> "move", c |-> req[u].c, w |-> req[u].w,
                   moved |-> {n \in Names : aliasOf[n] = req[u].c}]
  <2>1. r \in Reading
    BY <1>4, ReadingFields DEF MoveAliases, Reading, CastingInv
  <2>2. /\ req' \in [Users -> Reading] /\ req'[u] = r
        /\ \A x \in Users \ {u} : req'[x] = req[x]
    BY <1>4, <2>1, ReadingTyped DEF MoveAliases, CastingInv
  <2>3. UNCHANGED <<calls, met, voiceVars, castVars, registryVars>>
    BY <1>4 DEF MoveAliases
  <2>4. CastingTypeOK' /\ VoicesHeard'
    BY <2>3 DEF CastingInv, CastingTypeOK, VoicesHeard, Existing, Heard, Production
  <2>5. ReadingStands'
    BY <2>2, <2>3 DEF CastingInv, ReadingStands, Heard, Existing
  <2> QED
    BY <2>2, <2>4, <2>5 DEF CastingInv
<1> QED
  BY <1>1, <1>2, <1>3, <1>4

-----------------------------------------------------------------------------
(* Steps of the workers, and requests of one step *)

\* The previews, the director, the TTS worker and requests of one step keep the inductive invariant.
LEMMA OthersPreserve ==
  ASSUME CastingInv,
         \/ \E v \in Versions : CreateVoicePreview(v) \/ MarkVoicePreviewReady(v) \/ MarkVoicePreviewFailed(v)
         \/ PreloadVoiceBindings \/ Direct
         \/ \E c \in Cast : BeginTtsJob(c)
         \/ \E c \in Characters : Split(c)
         \/ \E n \in Names : DeleteAlias(n)
  PROVE  CastingInv'
<1> USE DEF callVars, voiceVars, castVars, registryVars
<1>1. ASSUME NEW v \in Versions,
             CreateVoicePreview(v) \/ MarkVoicePreviewReady(v) \/ MarkVoicePreviewFailed(v)
      PROVE  CastingInv'
  <2>1. /\ UNCHANGED <<callVars, castVars, registryVars, versionCount, active, profileDeleted, approval, locked>>
        /\ ready \subseteq ready' /\ ready' \cup pending' \subseteq Existing
    BY <1>1 DEF CreateVoicePreview, MarkVoicePreviewReady, MarkVoicePreviewFailed, CastingInv, CastingTypeOK
  <2>2. Existing' = Existing /\ Heard \subseteq Heard'
    BY <2>1 DEF Existing, Heard
  <2>3. CastingTypeOK'
    BY <2>1, <2>2 DEF CastingInv, CastingTypeOK
  <2>4. VoicesHeard'
    BY <2>1, <2>2 DEF CastingInv, VoicesHeard, Production
  <2>5. ReadingStands'
    BY <2>1, <2>2 DEF CastingInv, ReadingStands
  <2> QED
    BY <2>1, <2>3, <2>4, <2>5 DEF CastingInv
<1>2. CASE PreloadVoiceBindings
  <2>1. /\ UNCHANGED <<callVars, voiceVars, registryVars, assigned, nth, bound, frozen>>
        /\ DOMAIN bindings' \subseteq Cast
        /\ \A c \in DOMAIN bindings' : bindings'[c] = assigned[c] /\ assigned[c] # 0
    BY <1>2 DEF PreloadVoiceBindings
  <2>2. Existing' = Existing /\ Heard' = Heard /\ Heard \subseteq Existing
    BY <2>1 DEF Existing, Heard, CastingInv, CastingTypeOK
  <2>3. \A c \in DOMAIN bindings' : bindings'[c] \in Heard
    BY <2>1 DEF CastingInv, VoicesHeard
  <2>4. CastingTypeOK'
    BY <2>1, <2>2, <2>3 DEF CastingInv, CastingTypeOK
  <2>5. VoicesHeard'
    BY <2>1, <2>2, <2>3 DEF CastingInv, VoicesHeard, Production
  <2>6. ReadingStands'
    BY <2>1, <2>2 DEF CastingInv, ReadingStands
  <2> QED
    BY <2>1, <2>4, <2>5, <2>6 DEF CastingInv
<1>3. CASE Direct
  <2>1. /\ UNCHANGED <<callVars, voiceVars, registryVars, assigned, nth, frozen>>
        /\ DOMAIN bindings' = {}
    BY <1>3 DEF Direct, NoBindings
  <2>2. Existing' = Existing /\ Heard' = Heard /\ Heard \subseteq Existing
    BY <2>1 DEF Existing, Heard, CastingInv, CastingTypeOK
  <2>3. \A c \in Cast : CastVoice(c) \in Heard \cup {0}
    BY DEF CastVoice, CastingInv, VoicesHeard
  <2>4. /\ bound' \in [Cast -> Heard \cup {0}]
        /\ \A c \in frozen : bound'[c] = bound[c]
    BY <1>3, <2>3 DEF Direct, CastingInv, CastingTypeOK, VoicesHeard
  <2>5. CastingTypeOK'
    BY <2>1, <2>2, <2>4 DEF CastingInv, CastingTypeOK
  <2>6. VoicesHeard'
    BY <2>1, <2>2, <2>4 DEF CastingInv, CastingTypeOK, VoicesHeard, Production
  <2>7. ReadingStands'
    BY <2>1, <2>2 DEF CastingInv, ReadingStands
  <2> QED
    BY <2>1, <2>5, <2>6, <2>7 DEF CastingInv
<1>4. ASSUME NEW c \in Cast, BeginTtsJob(c) PROVE CastingInv'
  <2>1. bound[c] \in Heard /\ bound[c] \in Existing
    BY <1>4 DEF BeginTtsJob, CastingInv, CastingTypeOK, VoicesHeard
  <2>2. Existing' = Existing /\ Heard' = Heard
    BY <1>4 DEF BeginTtsJob, Existing, Heard
  <2>3. CastingTypeOK'
    BY <1>4, <2>1, <2>2 DEF BeginTtsJob, CastingInv, CastingTypeOK
  <2>4. VoicesHeard'
    BY <1>4, <2>1, <2>2 DEF BeginTtsJob, CastingInv, VoicesHeard, Production
  <2>5. ReadingStands'
    BY <1>4, <2>2 DEF BeginTtsJob, CastingInv, ReadingStands
  <2> QED
    BY <1>4, <2>3, <2>4, <2>5 DEF BeginTtsJob, CastingInv
<1>5. CASE (\E c \in Characters : Split(c)) \/ (\E n \in Names : DeleteAlias(n))
  <2>1. UNCHANGED <<req, met, voiceVars, castVars>> /\ calls' \in 0..MaxCalls
    BY <1>5, CastingAssumption DEF Split, DeleteAlias, CountsCall, CastingInv, CastingTypeOK
  <2>2. /\ standing' \in [Characters -> {"PROVISIONAL", "CONFIRMED", "MERGED_INTO"}]
        /\ mergedInto' \in [Characters -> Characters \cup {Nobody}]
        /\ aliasOf' \in [Names -> Characters \cup {Nobody}]
    BY <1>5 DEF Split, DeleteAlias, CastingInv, CastingTypeOK
  <2>3. CastingTypeOK'
    BY <2>1, <2>2 DEF CastingInv, CastingTypeOK, Existing
  <2>4. VoicesHeard' /\ ReadingStands'
    BY <2>1 DEF CastingInv, VoicesHeard, ReadingStands, Heard, Existing, Production
  <2> QED
    BY <2>1, <2>3, <2>4 DEF CastingInv
<1> QED
  BY <1>1, <1>2, <1>3, <1>4, <1>5

-----------------------------------------------------------------------------
(* The invariant of the specification *)

\* The initial state satisfies the inductive invariant.
LEMMA CastingInitSatisfies == CastingInit => CastingInv
<1> SUFFICES ASSUME CastingInit PROVE CastingInv
  OBVIOUS
<1>1. DOMAIN bindings = {}
  BY DEF CastingInit, NoBindings
<1>2. CastingTypeOK
  <2>1. /\ versionCount \in 0..MaxVersions /\ calls \in 0..MaxCalls
        /\ nth \in [Cast -> Nat] /\ met \subseteq Cast \X Versions
    BY CastingAssumption DEF CastingInit
  <2>2. /\ active \in Existing \cup {0} /\ profileDeleted \in BOOLEAN
        /\ locked \cup pending \cup ready \subseteq Existing
        /\ assigned \in [Cast -> Existing \cup {0}] /\ bound \in [Cast -> Existing \cup {0}]
        /\ frozen \subseteq Cast
    BY DEF CastingInit
  <2>3. /\ approval \in [Versions -> {"ABSENT", "DRAFT", "APPROVED", "RETIRED"}]
        /\ standing \in [Characters -> {"PROVISIONAL", "CONFIRMED", "MERGED_INTO"}]
        /\ mergedInto \in [Characters -> Characters \cup {Nobody}]
        /\ aliasOf \in [Names -> Characters \cup {Nobody}]
    BY DEF CastingInit
  <2> QED
    BY <1>1, <2>1, <2>2, <2>3 DEF CastingTypeOK
<1>3. req \in [Users -> Reading] /\ ReadingStands
  BY IdleReads DEF CastingInit, ReadingStands
<1>4. VoicesHeard
  BY <1>1 DEF CastingInit, VoicesHeard, Production
<1> QED
  BY <1>2, <1>3, <1>4 DEF CastingInv

\* A stuttering step keeps the inductive invariant.
LEMMA CastingStutterPreserves == CastingInv /\ UNCHANGED castingVars => CastingInv'
  BY DEF CastingInv, CastingTypeOK, VoicesHeard, ReadingStands, Existing, Heard, Production, castingVars, callVars,
         voiceVars, castVars, registryVars

\* The inductive invariant holds in every reachable state.
THEOREM CastingInvariance == CastingSpec => []CastingInv
<1>1. CastingInv /\ [CastingNext]_castingVars => CastingInv'
  <2> SUFFICES ASSUME CastingInv, [CastingNext]_castingVars PROVE CastingInv'
    OBVIOUS
  <2>1. ASSUME NEW u \in Users, Request(u) PROVE CastingInv'
    BY <2>1, ReadsPreserve, VoicePreserves, CastPreserves DEF Request
  <2> QED
    BY <2>1, OthersPreserve, CastingStutterPreserves DEF CastingNext
<1> QED
  BY <1>1, CastingInitSatisfies, PTL DEF CastingSpec

-----------------------------------------------------------------------------
(* What the run checks, for every value of the constants *)

\* The rows of the voice profile, of the cast and of the registry keep their types.
THEOREM CastingTypeCorrect == CastingSpec => []CastingTypeOK
  BY CastingInvariance, PTL DEF CastingInv

\* begin_tts_job and lockVoiceProfileVersion lock only versions that were approved with a READY
\* preview, whatever is retired, approved or assigned between a request's check and its write.
THEOREM LockedVersionsWereApproved == CastingSpec => []LockedWasApproved
<1>1. CastingInv => LockedWasApproved
  BY DEF CastingInv, VoicesHeard, Heard, LockedWasApproved
<1> QED
  BY <1>1, CastingInvariance, PTL

\* clearCharacterVoice and assignCharacterVoice end an assignment by the id of the row they have read.
THEOREM AssignmentsAreSuperseded == CastingSpec => SupersededOnlyIfSeen
<1> DEFINE Seen ==
      \A c \in Cast :
        assigned[c] # 0 /\ <<assigned'[c], nth'[c]>> # <<assigned[c], nth[c]>>
          => \E u \in Users : /\ req[u].op \in {"clear", "assign"} /\ req'[u] = NoCall
                              /\ req[u].c = c /\ req[u].nth = nth[c]
<1>1. CastingInv /\ [CastingNext]_castingVars => [Seen]_castingVars
  <2> SUFFICES ASSUME CastingInv, CastingNext PROVE Seen
    OBVIOUS
  <2>1. ASSUME NEW u \in Users, Assign(u) PROVE Seen
    <3>1. req[u].c \in Cast
      BY <2>1, ReadingFields DEF Assign, Writes, CastingInv
    <3> QED
      BY <2>1, <3>1 DEF Assign, CastingInv, CastingTypeOK
  <2>2. ASSUME NEW u \in Users, ClearVoice(u) PROVE Seen
    <3>1. req[u].op = "clear" /\ req'[u] = NoCall /\ nth' = nth
      BY <2>2 DEF ClearVoice, Writes, CastingInv
    <3>2. \A c \in Cast : assigned'[c] # assigned[c] => req[u].c = c /\ req[u].nth = nth[c]
      BY <2>2 DEF ClearVoice, CastingInv, CastingTypeOK
    <3> QED
      BY <3>1, <3>2
  <2>3. CASE UNCHANGED <<assigned, nth>>
    BY <2>3
  <2>4. \/ \E u \in Users : Assign(u) \/ ClearVoice(u)
        \/ UNCHANGED <<assigned, nth>>
    BY DEF CastingNext, Request, ReadVersionCount, CreateVersion, ReadActive, Approve, LockVersion, Retire,
           ReadForDeletion, DeleteProfile, CreateAlias, MoveAliases, Merge, UpdateCharacter, ReadForApproval,
           ReadForLock, ReadForRetirement, ReadForClearing, ReadForAssignment, ReadForUpdate,
           ReadForAlias, ReadForMerge, CreateVoicePreview, MarkVoicePreviewReady,
           MarkVoicePreviewFailed, PreloadVoiceBindings, Direct, BeginTtsJob, Split, DeleteAlias,
           castVars
  <2> QED
    BY <2>1, <2>2, <2>3, <2>4
<1> QED
  BY <1>1, CastingInvariance, PTL DEF CastingSpec, SupersededOnlyIfSeen

-----------------------------------------------------------------------------
(* Retirements and assignments that meet *)

\* What a step does to the requests that assign and retire, and to what these write.
RaceStep ==
  /\ met \subseteq met'
  /\ \/ Overlaps(req') \subseteq met'
     \/ \A x \in Users : req'[x].op \in {"assign", "retire"} => req'[x] = req[x]
  /\ \A x \in Users :
       req'[x].op \in {"assign", "retire"} =>
         \/ req'[x] = req[x]
         \/ /\ UNCHANGED <<assigned, approval>>
            /\ req'[x].op = "retire" => \A c \in Cast : assigned[c] # req'[x].v
            /\ req'[x].op = "assign" => approval[req'[x].v] = "APPROVED"
  /\ \/ UNCHANGED assigned
     \/ /\ UNCHANGED approval
        /\ \A c \in Cast : \/ assigned'[c] \in {assigned[c], 0}
                           \/ \E u \in Users : /\ req[u].op = "assign" /\ req[u].c = c
                                               /\ req[u].v = assigned'[c]
  /\ \A v \in Versions :
       approval'[v] = "RETIRED" =>
         \/ approval[v] = "RETIRED"
         \/ \E u \in Users : req[u].op = "retire" /\ req[u].v = v

\* A request that reads makes such a step.
LEMMA ReadRaces ==
  ASSUME CastingInv, NEW u \in Users, NEW r \in Reading, Reads(u, r),
         UNCHANGED <<voiceVars, castVars, registryVars>>,
         r.op = "retire" => \A c \in Cast : assigned[c] # r.v,
         r.op = "assign" => approval[r.v] = "APPROVED"
  PROVE  RaceStep
<1>1. /\ req'[u] = r /\ \A x \in Users \ {u} : req'[x] = req[x]
      /\ met' = met \cup Overlaps(req')
  BY ReadingTyped DEF Reads, CastingInv
<1>2. UNCHANGED <<assigned, approval>>
  BY DEF voiceVars, castVars
<1> QED
  BY <1>1, <1>2 DEF RaceStep

\* Every step is one.
LEMMA StepRaces ==
  ASSUME CastingInv, CastingNext
  PROVE  RaceStep
<1> USE DEF voiceVars, castVars, registryVars, callVars
<1>1. ASSUME NEW u \in Users, Request(u) PROVE RaceStep
  <2>1. CASE ReadVersionCount(u)
    <3>1. [op |-> "create", v |-> versionCount + 1] \in Reading
      BY <2>1, CastingAssumption DEF ReadVersionCount, CastingInv, CastingTypeOK, Reading, Versions
    <3> QED
      BY <2>1, <3>1, ReadRaces DEF ReadVersionCount
  <2>2. CASE ReadForDeletion(u)
    <3>1. [op |-> "delete"] \in Reading
      BY DEF Reading
    <3> QED
      BY <2>2, <3>1, ReadRaces DEF ReadForDeletion
  <2>3. ASSUME NEW v \in Versions, ReadForApproval(u, v) \/ ReadForLock(u, v) PROVE RaceStep
    <3>1. [op |-> "approve", v |-> v] \in Reading /\ [op |-> "lock", v |-> v] \in Reading
      BY DEF Reading
    <3> QED
      BY <2>3, <3>1, ReadRaces DEF ReadForApproval, ReadForLock
  <2>4. ASSUME NEW v \in Versions, ReadForRetirement(u, v) PROVE RaceStep
    <3>1. [op |-> "retire", v |-> v] \in Reading
      BY DEF Reading
    <3> QED
      BY <2>4, <3>1, ReadRaces DEF ReadForRetirement
  <2>5. ASSUME NEW c \in Cast, ReadForClearing(u, c) PROVE RaceStep
    <3>1. [op |-> "clear", c |-> c, nth |-> nth[c]] \in Reading
      BY DEF Reading, CastingInv, CastingTypeOK
    <3> QED
      BY <2>5, <3>1, ReadRaces DEF ReadForClearing
  <2>6. ASSUME NEW c \in Cast, NEW v \in Versions, ReadForAssignment(u, c, v) PROVE RaceStep
    <3> DEFINE seen == IF assigned[c] # 0 THEN nth[c] ELSE 0
    <3>1. seen \in Nat
      BY DEF CastingInv, CastingTypeOK
    <3>2. [op |-> "assign", c |-> c, v |-> v, nth |-> seen] \in Reading
      BY <3>1 DEF Reading
    <3> QED
      BY <2>6, <3>2, ReadRaces DEF ReadForAssignment, Production
  <2>7. ASSUME NEW c \in Characters,
               \/ ReadForUpdate(u, c)
               \/ \E n \in Names : ReadForAlias(u, c, n)
               \/ \E w \in Characters : ReadForMerge(u, c, w)
        PROVE  RaceStep
    <3>1. /\ [op |-> "update", c |-> c] \in Reading
          /\ \A n \in Names : [op |-> "alias", c |-> c, n |-> n] \in Reading
          /\ \A w \in Characters : [op |-> "merge", c |-> c, w |-> w] \in Reading
      BY DEF Reading
    <3> QED
      BY <2>7, <3>1, ReadRaces DEF ReadForUpdate, ReadForAlias, ReadForMerge
  <2>8. CASE \/ CreateVersion(u) \/ Approve(u) \/ LockVersion(u) \/ Retire(u) \/ DeleteProfile(u)
             \/ Assign(u) \/ ClearVoice(u) \/ CreateAlias(u) \/ Merge(u) \/ UpdateCharacter(u)
    <3>1. /\ req'[u].op = "idle" /\ \A x \in Users \ {u} : req'[x] = req[x]
          /\ met' = met
      BY <2>8, WriteFrees DEF CreateVersion, Approve, LockVersion, Retire, DeleteProfile, Assign,
         ClearVoice, CreateAlias, Merge, UpdateCharacter
    <3>2. \/ UNCHANGED assigned
          \/ /\ UNCHANGED approval
             /\ \A c \in Cast : \/ assigned'[c] \in {assigned[c], 0}
                                \/ \E t \in Users : /\ req[t].op = "assign" /\ req[t].c = c
                                                    /\ req[t].v = assigned'[c]
      BY <2>8 DEF CreateVersion, Approve, LockVersion, Retire, DeleteProfile, Assign,
         ClearVoice, CreateAlias, Merge, UpdateCharacter, Writes, CastingInv, CastingTypeOK
    <3>3. \A v \in Versions :
            approval'[v] = "RETIRED" =>
              \/ approval[v] = "RETIRED"
              \/ \E t \in Users : req[t].op = "retire" /\ req[t].v = v
      BY <2>8 DEF CreateVersion, Approve, LockVersion, Retire, DeleteProfile, Assign,
         ClearVoice, CreateAlias, Merge, UpdateCharacter, Writes, CastingInv, CastingTypeOK
    <3> QED
      BY <3>1, <3>2, <3>3 DEF RaceStep
  <2>9. CASE ReadActive(u) \/ MoveAliases(u)
    <3>1. /\ req'[u].op \in {"promote", "move"} /\ \A x \in Users \ {u} : req'[x] = req[x]
          /\ UNCHANGED <<met, assigned, approval>>
      BY <2>9 DEF ReadActive, MoveAliases, CastingInv
    <3> QED
      BY <3>1 DEF RaceStep
  <2> QED
    BY <1>1, <2>1, <2>2, <2>3, <2>4, <2>5, <2>6, <2>7, <2>8, <2>9 DEF Request
<1>2. CASE UNCHANGED <<req, met, assigned, approval>>
  BY <1>2 DEF RaceStep
<1> QED
  BY <1>1, <1>2 DEF CastingNext, CreateVoicePreview, MarkVoicePreviewReady, MarkVoicePreviewFailed,
     PreloadVoiceBindings, Direct, BeginTtsJob, Split, DeleteAlias

\* What has met is noted before either of the two writes.
LEMMA RacesStay ==
  ASSUME CastingInv, RetiredOnlyByRace, RacesNoted, RaceStep
  PROVE  RetiredOnlyByRace' /\ RacesNoted'
<1>1. 0 \notin Versions /\ \A c \in Cast : assigned[c] \in Versions \cup {0} /\ assigned'[c] = assigned'[c]
  BY DEF CastingInv, CastingTypeOK, Existing, Versions
<1>2. Overlaps(req') \subseteq met'
  <2>1. ASSUME \A x \in Users : req'[x].op \in {"assign", "retire"} => req'[x] = req[x]
        PROVE  Overlaps(req') \subseteq Overlaps(req)
    BY <2>1 DEF Overlaps
  <2> QED
    BY <2>1 DEF RaceStep, RacesNoted
<1>3. ASSUME NEW c \in Cast, NEW u \in Users, req'[u].op = "retire", assigned'[c] = req'[u].v
      PROVE  <<c, req'[u].v>> \in met'
  <2>1. CASE req'[u] # req[u]
    BY <1>3, <2>1 DEF RaceStep
  <2>2. CASE req'[u] = req[u]
    <3>1. req[u].v \in Versions
      BY <1>3, <2>2, ReadingFields DEF CastingInv
    <3>2. CASE assigned'[c] = assigned[c]
      BY <1>3, <2>2, <3>2 DEF RaceStep, RacesNoted
    <3>3. ASSUME NEW t \in Users, req[t].op = "assign", req[t].c = c, req[t].v = assigned'[c]
          PROVE  <<c, req[u].v>> \in met
      BY <1>3, <2>2, <3>1, <3>3 DEF RacesNoted, Overlaps
    <3> QED
      BY <1>1, <1>3, <2>2, <3>1, <3>2, <3>3 DEF RaceStep
  <2> QED
    BY <2>1, <2>2
<1>4. ASSUME NEW c \in Cast, NEW u \in Users, req'[u].op = "assign", req'[u].c = c,
             approval'[req'[u].v] = "RETIRED"
      PROVE  <<c, req'[u].v>> \in met'
  <2>1. CASE req'[u] # req[u]
    BY <1>4, <2>1 DEF RaceStep
  <2>2. CASE req'[u] = req[u]
    <3>1. req[u].v \in Versions
      BY <1>4, <2>2, ReadingFields DEF CastingInv
    <3>2. CASE approval[req[u].v] = "RETIRED"
      BY <1>4, <2>2, <3>2 DEF RaceStep, RacesNoted
    <3>3. ASSUME NEW t \in Users, req[t].op = "retire", req[t].v = req[u].v
          PROVE  <<c, req[u].v>> \in met
      BY <1>4, <2>2, <3>1, <3>3 DEF RacesNoted, Overlaps
    <3> QED
      BY <1>4, <2>2, <3>1, <3>2, <3>3 DEF RaceStep
  <2> QED
    BY <2>1, <2>2
<1>5. ASSUME NEW c \in Cast, assigned'[c] # 0, approval'[assigned'[c]] = "RETIRED"
      PROVE  <<c, assigned'[c]>> \in met'
  <2>1. CASE UNCHANGED assigned
    <3>1. assigned[c] \in Versions
      BY <1>1, <1>5, <2>1
    <3>2. CASE approval[assigned[c]] = "RETIRED"
      BY <1>5, <2>1, <3>2 DEF RaceStep, RetiredOnlyByRace
    <3>3. ASSUME NEW u \in Users, req[u].op = "retire", req[u].v = assigned[c]
          PROVE  <<c, assigned[c]>> \in met
      BY <3>3 DEF RacesNoted
    <3> QED
      BY <1>5, <2>1, <3>1, <3>2, <3>3 DEF RaceStep
  <2>2. CASE UNCHANGED approval /\ assigned'[c] \in {assigned[c], 0}
    BY <1>5, <2>2 DEF RaceStep, RetiredOnlyByRace
  <2>3. ASSUME UNCHANGED approval, NEW u \in Users, req[u].op = "assign", req[u].c = c,
               req[u].v = assigned'[c]
        PROVE  <<c, assigned'[c]>> \in met
    BY <1>5, <2>3 DEF RacesNoted
  <2> QED
    BY <2>1, <2>2, <2>3 DEF RaceStep
<1> QED
  BY <1>2, <1>3, <1>4, <1>5 DEF RetiredOnlyByRace, RacesNoted

\* retireVoiceProfileVersion and assignCharacterVoice each look at what the other writes, so that
\* a retired voice that a character has comes of two requests that were pending together.
THEOREM RetirementsRace == CastingSpec => []RetiredOnlyByRace
<1>1. CastingInit => RetiredOnlyByRace /\ RacesNoted
  BY IdleReads DEF CastingInit, RetiredOnlyByRace, RacesNoted, Overlaps
<1>2. ASSUME CastingInv, RetiredOnlyByRace, RacesNoted, [CastingNext]_castingVars
      PROVE  RetiredOnlyByRace' /\ RacesNoted'
  <2>1. CASE CastingNext
    BY <1>2, <2>1, StepRaces, RacesStay
  <2>2. CASE UNCHANGED castingVars
    BY <1>2, <2>2 DEF castingVars, callVars, voiceVars, castVars, registryVars, RetiredOnlyByRace,
       RacesNoted, Overlaps
  <2> QED
    BY <1>2, <2>1, <2>2
<1> QED
  BY <1>1, <1>2, CastingInvariance, PTL DEF CastingSpec

-----------------------------------------------------------------------------
(* Merges that meet other requests *)

\* A merge's forms stay the loser's while it holds them.
LEMMA MovesStay ==
  ASSUME CastingInv, MovesHold, [CastingNext]_castingVars
  PROVE  MovesHold'
<1> USE DEF voiceVars, castVars, registryVars, callVars
<1>0. req \in [Users -> Reading] /\ aliasOf \in [Names -> Characters \cup {Nobody}]
      /\ Nobody \notin Characters
  BY CastingAssumption DEF CastingInv, CastingTypeOK, Nobody
<1>1. ASSUME \A x \in Users : req'[x].op = "move" => req'[x] = req[x],
             \A n \in Names : aliasOf'[n] = aliasOf[n] \/ n \notin UNION {IF req'[x].op = "move" THEN req'[x].moved ELSE {} : x \in Users}
      PROVE  MovesHold'
  <2> SUFFICES ASSUME NEW u \in Users, req'[u].op = "move"
               PROVE  /\ \A n \in req'[u].moved : aliasOf'[n] = req'[u].c
                      /\ \A t \in Users \ {u} : req'[t].op = "move" => req'[t].moved \cap req'[u].moved = {}
    BY DEF MovesHold
  <2>1. req'[u] = req[u] /\ req[u].moved \subseteq Names
    BY <1>1, <1>0, ReadingFields
  <2>2. \A n \in req'[u].moved : aliasOf'[n] = aliasOf[n]
    BY <1>1, <2>1
  <2> QED
    BY <1>1, <2>1, <2>2 DEF MovesHold
<1>2. ASSUME UNCHANGED aliasOf, \A x \in Users : req'[x].op = "move" => req'[x] = req[x]
      PROVE  MovesHold'
  BY <1>1, <1>2
<1>3. ASSUME NEW u \in Users, CreateAlias(u) PROVE MovesHold'
  <2>1. /\ req'[u].op = "idle" /\ \A x \in Users \ {u} : req'[x] = req[x]
    BY <1>3, WriteFrees DEF CreateAlias
  <2>2. \A n \in Names : aliasOf'[n] = aliasOf[n] \/ aliasOf[n] = Nobody
    BY <1>0, <1>3 DEF CreateAlias
  <2>3. ASSUME NEW x \in Users, req'[x].op = "move", NEW n \in req'[x].moved PROVE aliasOf[n] # Nobody
    <3>1. req'[x] = req[x] /\ req[x].op = "move"
      BY <2>1, <2>3
    <3> QED
      BY <1>0, <2>3, <3>1, ReadingFields DEF MovesHold
  <2> QED
    BY <1>1, <2>1, <2>2, <2>3
<1>4. ASSUME NEW u \in Users, Merge(u) PROVE MovesHold'
  <2>1. /\ req[u].op = "move" /\ req'[u].op = "idle" /\ \A x \in Users \ {u} : req'[x] = req[x]
    BY <1>4, WriteFrees DEF Merge
  <2>2. \A n \in Names : aliasOf'[n] = aliasOf[n] \/ n \in req[u].moved
    BY <1>0, <1>4 DEF Merge
  <2>3. ASSUME NEW x \in Users, req'[x].op = "move", NEW n \in req'[x].moved PROVE n \notin req[u].moved
    <3>1. x # u /\ req'[x] = req[x] /\ req[x].op = "move"
      BY <2>1, <2>3
    <3> QED
      BY <2>1, <2>3, <3>1 DEF MovesHold
  <2> QED
    BY <1>1, <2>1, <2>2, <2>3
<1>5. ASSUME NEW n \in Names, DeleteAlias(n) PROVE MovesHold'
  <2>1. UNCHANGED req /\ n \notin Held /\ \A k \in Names \ {n} : aliasOf'[k] = aliasOf[k]
    BY <1>0, <1>5 DEF DeleteAlias
  <2> QED
    BY <1>1, <2>1 DEF Held
<1>6. ASSUME NEW u \in Users, MoveAliases(u) PROVE MovesHold'
  <2> DEFINE m == {n \in Names : aliasOf[n] = req[u].c}
  <2>1. /\ req'[u] = [op |-> "move", c |-> req[u].c, w |-> req[u].w, moved |-> m]
        /\ \A x \in Users \ {u} : req'[x] = req[x]
        /\ UNCHANGED aliasOf
        /\ m \cap Held = {}
    BY <1>0, <1>6 DEF MoveAliases
  <2>2. \A t \in Users \ {u} : req[t].op = "move" => req[t].moved \cap m = {}
    BY <2>1 DEF Held
  <2>3. \A n \in req'[u].moved : aliasOf'[n] = req'[u].c
    BY <2>1
  <2> QED
    BY <2>1, <2>2, <2>3 DEF MovesHold
<1>7. ASSUME NEW u \in Users, Request(u), ~CreateAlias(u), ~Merge(u), ~MoveAliases(u) PROVE MovesHold'
  <2>1. UNCHANGED aliasOf
    BY <1>7 DEF Request, ReadVersionCount, CreateVersion, ReadActive, Approve, LockVersion, Retire,
       ReadForDeletion, DeleteProfile, Assign, ClearVoice, UpdateCharacter, ReadForApproval,
       ReadForLock, ReadForRetirement, ReadForClearing, ReadForAssignment, ReadForUpdate,
       ReadForAlias, ReadForMerge
  <2>2. \E r : req' = [req EXCEPT ![u] = r] /\ r.op # "move"
    BY <1>7 DEF Request, ReadVersionCount, CreateVersion, ReadActive, Approve, LockVersion, Retire,
       ReadForDeletion, DeleteProfile, Assign, ClearVoice, UpdateCharacter, ReadForApproval,
       ReadForLock, ReadForRetirement, ReadForClearing, ReadForAssignment, ReadForUpdate,
       ReadForAlias, ReadForMerge, Reads, Writes, NoCall
  <2>3. \A x \in Users : req'[x].op = "move" => req'[x] = req[x]
    BY <1>0, <2>2
  <2> QED
    BY <1>2, <2>1, <2>3
<1>8. CASE UNCHANGED <<req, aliasOf>>
  BY <1>2, <1>8
<1> QED
  BY <1>3, <1>4, <1>5, <1>6, <1>7, <1>8 DEF CastingNext, CreateVoicePreview, MarkVoicePreviewReady,
     MarkVoicePreviewFailed, PreloadVoiceBindings, Direct, BeginTtsJob, Split, castingVars

\* createCharacterMerge moves the forms that its updateMany finds and holds them until it commits,
\* so that none goes with it that another character has been given meanwhile.
THEOREM FormsStay == CastingSpec => FormsPassByMerge
<1> DEFINE Passed ==
      \A n \in Names :
        aliasOf[n] # Nobody /\ aliasOf'[n] \notin {aliasOf[n], Nobody}
          => mergedInto'[aliasOf[n]] = aliasOf'[n] /\ standing'[aliasOf[n]] = "MERGED_INTO"
<1>1. ASSUME CastingInv, MovesHold, [CastingNext]_castingVars PROVE [Passed]_castingVars
  <2> SUFFICES ASSUME CastingNext PROVE Passed
    BY <1>1
  <2>1. ASSUME NEW u \in Users, Merge(u) PROVE Passed
    <3>1. req[u].op = "move" /\ req[u].c \in Characters
      BY <1>1, <2>1, ReadingFields DEF Merge, Writes, CastingInv
    <3>2. \A n \in Names : aliasOf'[n] = IF n \in req[u].moved THEN req[u].w ELSE aliasOf[n]
      BY <2>1 DEF Merge
    <3>3. mergedInto'[req[u].c] = req[u].w /\ standing'[req[u].c] = "MERGED_INTO"
      BY <1>1, <2>1, <3>1 DEF Merge, CastingInv, CastingTypeOK
    <3>4. \A n \in req[u].moved : aliasOf[n] = req[u].c
      BY <1>1, <3>1 DEF MovesHold
    <3> QED
      BY <3>2, <3>3, <3>4
  <2>2. ASSUME NEW u \in Users, CreateAlias(u) PROVE Passed
    BY <1>1, <2>2 DEF CreateAlias, CastingInv, CastingTypeOK
  <2>3. ASSUME NEW n \in Names, DeleteAlias(n) PROVE Passed
    BY <1>1, <2>3 DEF DeleteAlias, CastingInv, CastingTypeOK
  <2>4. CASE UNCHANGED aliasOf
    BY <2>4
  <2>5. \/ \E u \in Users : Merge(u) \/ CreateAlias(u)
        \/ \E n \in Names : DeleteAlias(n)
        \/ UNCHANGED aliasOf
    BY DEF CastingNext, Request, ReadVersionCount, CreateVersion, ReadActive, Approve, LockVersion, Retire,
           ReadForDeletion, DeleteProfile, Assign, ClearVoice, MoveAliases, UpdateCharacter, ReadForApproval,
           ReadForLock, ReadForRetirement, ReadForClearing, ReadForAssignment, ReadForUpdate,
           ReadForAlias, ReadForMerge, CreateVoicePreview, MarkVoicePreviewReady,
           MarkVoicePreviewFailed, PreloadVoiceBindings, Direct, BeginTtsJob, Split,
           registryVars
  <2> QED
    BY <2>1, <2>2, <2>3, <2>4, <2>5
<1>2. CastingInit => MovesHold
  BY IdleReads DEF CastingInit, MovesHold
<1> QED
  BY <1>1, <1>2, MovesStay, CastingInvariance, PTL DEF CastingSpec, FormsPassByMerge


-----------------------------------------------------------------------------
(* Where a request is *)

\* The fields of a request in hand.
LEMMA PlaceFields ==
  ASSUME RecordsTyped, NEW c \in Clients, pc[c].at \in Handling
  PROVE  /\ pc[c] \in [at : Handling, ask : Asks, n : Nat, id : Nat]
         /\ pc[c].ask \in Asks
         /\ pc[c].ask[1] \in {"complete", "ingest"} => pc[c].ask[2] \in Sessions
<1>1. pc[c] \in Places
  BY DEF RecordsTyped
<1>2. pc[c] \in [at : Handling, ask : Asks, n : Nat, id : Nat]
  BY <1>1 DEF Places, Idle, Handling
<1>3. pc[c].ask \in Asks
  BY <1>2
<1>4. ASSUME NEW a \in Asks, a[1] \in {"complete", "ingest"} PROVE a[2] \in Sessions
  BY <1>4 DEF Asks
<1> QED
  BY <1>2, <1>3, <1>4

\* An idle request, or one that deletes, is not in hand.
LEMMA OutOfHand ==
  /\ Idle \in Places /\ Idle.at \notin Handling
  /\ [at |-> "delete"] \in Places /\ [at |-> "delete"].at \notin Handling
  BY DEF Places, Idle, Handling

\* Nor is one that aborts.
LEMMA AbortOutOfHand ==
  ASSUME NEW s \in Sessions
  PROVE  [at |-> "abort", s |-> s] \in Places /\ [at |-> "abort", s |-> s].at \notin Handling
  BY DEF Places, Handling

\* A step that moves one request and leaves the book, its files, jobs and bytes keeps the
\* inductive invariant if the request has the number it was given and has checked its bytes.
LEMMA MovePreserves ==
  ASSUME IInv, NEW c \in Clients, NEW p \in Places, pc' = [pc EXCEPT ![c] = p],
         record' \in [Asks -> [status : {"ABSENT", "IN_PROGRESS", "COMPLETED", "FAILED"}, id : Nat, n : Nat]],
         \A a \in Asks : record'[a].id \in 0..requests',
         requests' \in Nat, requests \in 0..requests', troubles' \in Nat,
         session' \in [Sessions -> {"AWAITING_UPLOAD", "REJECTED", "ADMITTED", "GONE"}],
         deleted' \in BOOLEAN,
         UNCHANGED <<content, object, file, jobs, status, gone, chapters, current, purge>>,
         p.at \in Handling => p.n \in 1..requests' /\ p.id \in 0..requests',
         purge.status = "ABSENT" /\ p.at = "commit" /\ p.ask[1] = "complete" =>
           object[p.ask[2]] # "absent"
  PROVE  IInv'
<1>1. /\ pc' \in [Clients -> Places] /\ pc'[c] = p
      /\ \A d \in Clients \ {c} : pc'[d] = pc[d]
  BY DEF IInv, RecordsTyped
<1>2. \A k : (k \in 1..requests => k \in 1..requests') /\ (k \in 0..requests => k \in 0..requests')
  BY DEF IInv, RecordsTyped
<1>3. TypeOK'
  BY <1>2 DEF IInv, TypeOK, RecordsTyped
<1>4. RecordsTyped'
  BY <1>1 DEF IInv, RecordsTyped
<1>5. Numbered'
  BY <1>1, <1>2 DEF IInv, Numbered
<1>6. CheckedBytesKept'
  BY <1>1 DEF IInv, CheckedBytesKept, Asked
<1>7. ChaptersOfCurrent' /\ PurgeAskedFor' /\ RowStays' /\ ObjectsKept'
  BY DEF IInv, ChaptersOfCurrent, PurgeAskedFor, RowStays, ObjectsKept
<1> QED
  BY <1>3, <1>4, <1>5, <1>6, <1>7 DEF IInv

-----------------------------------------------------------------------------
(* IdempotencyService.run *)

\* The registry of keys keeps its type when a request settles, and the request is idle.
LEMMA SettledTyped ==
  ASSUME IInv, NEW c \in Clients, pc[c].at \in Handling, NEW outcome \in {"COMPLETED", "FAILED"},
         Settled(c, outcome)
  PROVE  /\ pc' = [pc EXCEPT ![c] = Idle]
         /\ record' \in [Asks -> [status : {"ABSENT", "IN_PROGRESS", "COMPLETED", "FAILED"}, id : Nat, n : Nat]]
         /\ \A a \in Asks : record'[a].id \in 0..requests
<1> DEFINE a == pc[c].ask
           row == IF record[a].id = pc[c].id
                  THEN [status |-> outcome, id |-> record[a].id,
                        n |-> IF outcome = "COMPLETED" THEN pc[c].n ELSE record[a].n]
                  ELSE record[a]
<1>1. a \in Asks
  BY PlaceFields DEF IInv
<1>2. record' = [record EXCEPT ![a] = row]
  BY DEF Settled
<1>3. /\ record[a] \in [status : {"ABSENT", "IN_PROGRESS", "COMPLETED", "FAILED"}, id : Nat, n : Nat]
      /\ pc[c].n \in Nat
  BY <1>1, PlaceFields DEF IInv, RecordsTyped
<1>4. /\ row \in [status : {"ABSENT", "IN_PROGRESS", "COMPLETED", "FAILED"}, id : Nat, n : Nat]
      /\ row.id = record[a].id
  BY <1>3
<1> QED
  BY <1>1, <1>2, <1>4 DEF Settled, IInv, RecordsTyped, TypeOK

\* Looking a key up, claiming it, settling it, failing and stopping keep the inductive invariant.
LEMMA RegistryPreserves ==
  ASSUME IInv, NEW c \in Clients,
         \/ \E a \in Asks : Lookup(c, a)
         \/ Claim(c) \/ Settle(c) \/ Refuse(c) \/ CallFails(c) \/ Crash(c)
  PROVE  IInv'
<1> USE DEF uploadVars, bookVars
<1>0. /\ record \in [Asks -> [status : {"ABSENT", "IN_PROGRESS", "COMPLETED", "FAILED"}, id : Nat, n : Nat]]
      /\ \A a \in Asks : record[a].id \in 0..requests
      /\ requests \in Nat /\ requests \in 0..requests /\ troubles \in Nat /\ deleted \in BOOLEAN
      /\ session \in [Sessions -> {"AWAITING_UPLOAD", "REJECTED", "ADMITTED", "GONE"}]
  BY DEF IInv, TypeOK, RecordsTyped
<1>1. ASSUME NEW a \in Asks, Lookup(c, a) PROVE IInv'
  <2> DEFINE p == [at |-> "claim", ask |-> a, n |-> requests + 1,
                   id |-> IF record[a].status = "FAILED" THEN record[a].id ELSE requests + 1]
  <2>1. pc' = [pc EXCEPT ![c] = p] /\ requests' = requests + 1 /\ troubles' = troubles
    BY <1>1 DEF Lookup, Counts
  <2>2. record[a].id \in 0..requests
    BY <1>0
  <2>3. p \in Places /\ p.n \in 1..requests' /\ p.id \in 0..requests'
    BY <1>0, <2>1, <2>2 DEF Places, Handling
  <2>4. /\ requests \in 0..requests' /\ requests' \in Nat /\ record' = record
        /\ \A b \in Asks : record'[b].id \in 0..requests'
        /\ p.at # "commit"
    BY <1>0, <1>1, <2>1 DEF Lookup
  <2> QED
    BY <1>0, <1>1, <2>1, <2>3, <2>4, MovePreserves DEF Lookup
<1>2. CASE Claim(c)
  <2> DEFINE a == pc[c].ask
             p == [pc[c] EXCEPT !.at = "check"]
             row == [status |-> "IN_PROGRESS",
                     id |-> IF record[a].status = "ABSENT" THEN pc[c].id ELSE record[a].id,
                     n |-> 0]
  <2>1. pc[c].at \in Handling
    BY <1>2 DEF Claim, Handling
  <2>2. a \in Asks /\ pc[c] \in [at : Handling, ask : Asks, n : Nat, id : Nat]
    BY <2>1, PlaceFields DEF IInv
  <2>3. pc[c].n \in 1..requests /\ pc[c].id \in 0..requests
    BY <2>1 DEF IInv, Numbered
  <2>4. /\ p \in Places /\ p.n \in 1..requests /\ p.id \in 0..requests /\ p.at = "check"
        /\ pc' = [pc EXCEPT ![c] = p]
    BY <1>2, <2>2, <2>3 DEF Places, Handling, Claim
  <2>5. /\ row \in [status : {"ABSENT", "IN_PROGRESS", "COMPLETED", "FAILED"}, id : Nat, n : Nat]
        /\ row.id \in 0..requests /\ record' = [record EXCEPT ![a] = row]
    BY <1>0, <1>2, <2>2, <2>3 DEF Claim
  <2>6. /\ record' \in [Asks -> [status : {"ABSENT", "IN_PROGRESS", "COMPLETED", "FAILED"}, id : Nat, n : Nat]]
        /\ \A b \in Asks : record'[b].id \in 0..requests
    BY <1>0, <2>2, <2>5
  <2> QED
    BY <1>0, <1>2, <2>4, <2>6, MovePreserves DEF Claim
<1>3. CASE Settle(c) \/ Refuse(c) \/ CallFails(c)
  <2>1. pc[c].at \in Handling
    BY <1>3 DEF Settle, Refuse, Refused, CallFails, Handling
  <2>2. \E outcome \in {"COMPLETED", "FAILED"} : Settled(c, outcome)
    BY <1>3 DEF Settle, Refuse, CallFails
  <2>3. /\ pc' = [pc EXCEPT ![c] = Idle]
        /\ record' \in [Asks -> [status : {"ABSENT", "IN_PROGRESS", "COMPLETED", "FAILED"}, id : Nat, n : Nat]]
        /\ \A a \in Asks : record'[a].id \in 0..requests
    BY <2>1, <2>2, SettledTyped
  <2>4. /\ requests' = requests /\ troubles' \in Nat
        /\ UNCHANGED <<uploadVars, file, jobs, bookVars, purge>>
    BY <1>0, <1>3 DEF Settle, Refuse, CallFails, Trouble
  <2>5. Idle \in Places /\ Idle.at \notin Handling /\ Idle.at # "commit"
    BY OutOfHand DEF Idle
  <2> QED
    BY <1>0, <2>3, <2>4, <2>5, MovePreserves
<1>4. CASE Crash(c)
  <2>1. requests' = requests /\ troubles' \in Nat
    BY <1>0, <1>4 DEF Crash, Trouble
  <2>2. Idle \in Places /\ Idle.at \notin Handling /\ Idle.at # "commit"
    BY OutOfHand DEF Idle
  <2> QED
    BY <1>0, <1>4, <2>1, <2>2, MovePreserves DEF Crash
<1> QED
  BY <1>1, <1>2, <1>3, <1>4

-----------------------------------------------------------------------------
(* The handlers *)

\* A handler that goes on keeps its number and its ask.
LEMMA GoesOn ==
  ASSUME IInv, NEW c \in Clients, pc[c].at \in Handling, NEW at \in Handling, Goes(c, at)
  PROVE  \E p \in Places : /\ pc' = [pc EXCEPT ![c] = p]
                           /\ p.at = at /\ p.ask = pc[c].ask
                           /\ p.n \in 1..requests /\ p.id \in 0..requests
<1>1. pc[c] \in [at : Handling, ask : Asks, n : Nat, id : Nat]
  BY PlaceFields DEF IInv
<1>2. pc[c].n \in 1..requests /\ pc[c].id \in 0..requests
  BY DEF IInv, Numbered
<1> DEFINE p == [pc[c] EXCEPT !.at = at]
<1>3. /\ p \in [at : Handling, ask : Asks, n : Nat, id : Nat]
      /\ p.at = at /\ p.ask = pc[c].ask /\ p.n = pc[c].n /\ p.id = pc[c].id
  BY <1>1
<1>4. p \in Places
  BY <1>3 DEF Places
<1>5. pc' = [pc EXCEPT ![c] = p]
  BY DEF Goes
<1> QED
  BY <1>2, <1>3, <1>4, <1>5

\* The checks, and the steps that leave files and jobs, keep the inductive invariant.
LEMMA CheckPreserves ==
  ASSUME IInv, NEW c \in Clients,
         \/ CheckUpload(c) \/ CheckFails(c) \/ RejectSession(c) \/ MarkAdmitted(c) \/ CheckIngestion(c) \/ CheckPurge(c)
         \/ CheckDeletion(c) \/ DeleteBook(c) \/ (\E s \in Sessions : ReadForAbortion(c, s))
         \/ AbortUploadSession(c)
  PROVE  IInv'
<1> USE DEF uploadVars, bookVars
<1>0. /\ record \in [Asks -> [status : {"ABSENT", "IN_PROGRESS", "COMPLETED", "FAILED"}, id : Nat, n : Nat]]
      /\ \A a \in Asks : record[a].id \in 0..requests
      /\ requests \in Nat /\ requests \in 0..requests /\ troubles \in Nat
      /\ deleted \in BOOLEAN
      /\ session \in [Sessions -> {"AWAITING_UPLOAD", "REJECTED", "ADMITTED", "GONE"}]
  BY DEF IInv, TypeOK, RecordsTyped
<1>1. CASE CheckUpload(c) \/ CheckIngestion(c) \/ CheckPurge(c)
  <2>1. pc[c].at \in Handling /\ "commit" \in Handling /\ Goes(c, "commit")
    BY <1>1 DEF CheckUpload, CheckIngestion, CheckPurge, Asked, Handling
  <2>2. PICK p \in Places : /\ pc' = [pc EXCEPT ![c] = p]
                            /\ p.at = "commit" /\ p.ask = pc[c].ask
                            /\ p.n \in 1..requests /\ p.id \in 0..requests
    BY <2>1, GoesOn
  <2>3. p.ask[1] = "complete" => object[p.ask[2]] # "absent"
    <3>1. CASE CheckUpload(c)
      <4>1. p.ask[2] \in Sessions /\ object[p.ask[2]] = content[p.ask[2]]
        BY <2>1, <2>2, <3>1, PlaceFields DEF CheckUpload, Asked, IInv
      <4> QED
        BY <4>1, LibraryAssumption DEF IInv, RecordsTyped
    <3> QED
      BY <1>1, <2>2, <3>1 DEF CheckUpload, CheckIngestion, CheckPurge, Asked
  <2>4. UNCHANGED <<record, requests, troubles, uploadVars, file, jobs, bookVars, purge>>
    BY <1>1 DEF CheckUpload, CheckIngestion, CheckPurge, Goes
  <2> QED
    BY <1>0, <2>2, <2>3, <2>4, MovePreserves
<1>2. CASE RejectSession(c)
  <2>1. pc[c].at \in Handling /\ Settled(c, "FAILED") /\ pc[c].ask[1] = "complete"
    BY <1>2 DEF RejectSession, Asked, Handling
  <2>2. /\ pc' = [pc EXCEPT ![c] = Idle]
        /\ record' \in [Asks -> [status : {"ABSENT", "IN_PROGRESS", "COMPLETED", "FAILED"}, id : Nat, n : Nat]]
        /\ \A a \in Asks : record'[a].id \in 0..requests
    BY <2>1, SettledTyped
  <2>3. session' \in [Sessions -> {"AWAITING_UPLOAD", "REJECTED", "ADMITTED", "GONE"}]
    BY <1>0, <1>2 DEF RejectSession
  <2>4. UNCHANGED <<requests, troubles, content, object, file, jobs, bookVars, purge>>
    BY <1>2 DEF RejectSession
  <2>5. Idle \in Places /\ Idle.at \notin Handling /\ Idle.at # "commit"
    BY OutOfHand DEF Idle
  <2> QED
    BY <1>0, <2>2, <2>3, <2>4, <2>5, MovePreserves
<1>3. CASE MarkAdmitted(c)
  <2>1. pc[c].at \in Handling /\ "settle" \in Handling /\ Goes(c, "settle")
    BY <1>3 DEF MarkAdmitted, Asked, Handling
  <2>2. PICK p \in Places : /\ pc' = [pc EXCEPT ![c] = p]
                            /\ p.at = "settle" /\ p.ask = pc[c].ask
                            /\ p.n \in 1..requests /\ p.id \in 0..requests
    BY <2>1, GoesOn
  <2>3. session' \in [Sessions -> {"AWAITING_UPLOAD", "REJECTED", "ADMITTED", "GONE"}]
    BY <1>0, <1>3 DEF MarkAdmitted
  <2>4. UNCHANGED <<record, requests, troubles, content, object, file, jobs, bookVars, purge>>
    BY <1>3 DEF MarkAdmitted, Goes
  <2> QED
    BY <1>0, <2>2, <2>3, <2>4, MovePreserves
<1>4. CASE CheckDeletion(c)
  <2> DEFINE p == [at |-> "delete"]
  <2>1. requests' \in Nat /\ requests \in 0..requests' /\ troubles' = troubles
    BY <1>0, <1>4 DEF CheckDeletion, Counts
  <2>2. \A a \in Asks : record[a].id \in 0..requests'
    BY <1>0, <2>1
  <2>3. /\ pc' = [pc EXCEPT ![c] = p]
        /\ UNCHANGED <<record, uploadVars, file, jobs, bookVars, purge>>
    BY <1>4 DEF CheckDeletion
  <2>4. p \in Places /\ p.at \notin Handling /\ p.at # "commit"
    BY OutOfHand
  <2> QED
    BY <1>0, <2>1, <2>2, <2>3, <2>4, MovePreserves
<1>5. CASE DeleteBook(c)
  <2>1. Idle \in Places /\ Idle.at \notin Handling /\ Idle.at # "commit"
    BY OutOfHand DEF Idle
  <2>2. /\ pc' = [pc EXCEPT ![c] = Idle] /\ deleted' \in BOOLEAN
        /\ UNCHANGED <<record, requests, troubles, uploadVars, file, jobs, status, gone, chapters,
                      current, purge>>
    BY <1>5 DEF DeleteBook
  <2> QED
    BY <1>0, <2>1, <2>2, MovePreserves
<1>6. CASE CheckFails(c)
  <2>1. pc[c].at \in Handling /\ "reject" \in Handling /\ Goes(c, "reject")
    BY <1>6 DEF CheckFails, Asked, Handling
  <2>2. PICK p \in Places : /\ pc' = [pc EXCEPT ![c] = p]
                            /\ p.at = "reject" /\ p.ask = pc[c].ask
                            /\ p.n \in 1..requests /\ p.id \in 0..requests
    BY <2>1, GoesOn
  <2>3. UNCHANGED <<record, requests, troubles, uploadVars, file, jobs, bookVars, purge>>
    BY <1>6 DEF CheckFails, Goes
  <2> QED
    BY <1>0, <2>2, <2>3, MovePreserves
<1>7. ASSUME NEW s \in Sessions, ReadForAbortion(c, s) PROVE IInv'
  <2> DEFINE p == [at |-> "abort", s |-> s]
  <2>1. requests' \in Nat /\ requests \in 0..requests' /\ troubles' = troubles
    BY <1>0, <1>7 DEF ReadForAbortion, Counts
  <2>2. \A a \in Asks : record[a].id \in 0..requests'
    BY <1>0, <2>1
  <2>3. /\ pc' = [pc EXCEPT ![c] = p]
        /\ UNCHANGED <<record, uploadVars, file, jobs, bookVars, purge>>
    BY <1>7 DEF ReadForAbortion
  <2>4. p \in Places /\ p.at \notin Handling /\ p.at # "commit"
    BY AbortOutOfHand
  <2> QED
    BY <1>0, <2>1, <2>2, <2>3, <2>4, MovePreserves
<1>8. CASE AbortUploadSession(c)
  <2>1. Idle \in Places /\ Idle.at \notin Handling /\ Idle.at # "commit"
    BY OutOfHand DEF Idle
  <2>2. session' \in [Sessions -> {"AWAITING_UPLOAD", "REJECTED", "ADMITTED", "GONE"}]
    BY <1>0, <1>8 DEF AbortUploadSession
  <2>3. /\ pc' = [pc EXCEPT ![c] = Idle]
        /\ UNCHANGED <<record, requests, troubles, content, object, file, jobs, bookVars, purge>>
    BY <1>8 DEF AbortUploadSession
  <2> QED
    BY <1>0, <2>1, <2>2, <2>3, MovePreserves
<1> QED
  BY <1>1, <1>2, <1>3, <1>4, <1>5, <1>6, <1>7, <1>8

\* The transactions that admit a file and create jobs keep the inductive invariant.
LEMMA CommitPreserves ==
  ASSUME IInv, NEW c \in Clients, Admit(c) \/ RequestIngestion(c) \/ PurgeBook(c)
  PROVE  IInv'
<1> USE DEF uploadVars, bookVars
<1> DEFINE s == pc[c].ask[2]
<1>1. /\ pc[c].at = "commit" /\ pc[c].at \in Handling
      /\ pc[c].n \in 1..requests /\ pc[c].n \in Nat /\ requests \in Nat
  BY DEF Admit, RequestIngestion, PurgeBook, Asked, Handling, IInv, Numbered, RecordsTyped
<1>2. \E at \in {"mark", "settle"} : Goes(c, at)
  BY DEF Admit, RequestIngestion, PurgeBook
<1>3. PICK p \in Places : /\ pc' = [pc EXCEPT ![c] = p]
                          /\ p.at \in {"mark", "settle"} /\ p.ask = pc[c].ask
                          /\ p.n \in 1..requests /\ p.id \in 0..requests
  BY <1>1, <1>2, GoesOn DEF Handling
<1>4. /\ pc' \in [Clients -> Places] /\ pc'[c] = p
      /\ \A d \in Clients \ {c} : pc'[d] = pc[d]
  BY <1>3 DEF IInv, RecordsTyped
<1>5. UNCHANGED <<record, requests, troubles, uploadVars, deleted, gone, chapters, current>>
  BY DEF Admit, RequestIngestion, PurgeBook, Goes
<1>6. Numbered'
  BY <1>3, <1>4, <1>5 DEF IInv, Numbered
<1>7. CASE Admit(c)
  <2>1. s \in Sessions /\ file' = file \cup {[n |-> pc[c].n, s |-> s]}
    BY <1>1, <1>7, PlaceFields DEF Admit, Asked, IInv
  <2>2. jobs' = jobs \cup {[n |-> pc[c].n, s |-> s, op |-> "complete", status |-> "CREATED", text |-> None]}
        /\ purge' = purge /\ status' = "UPLOADED"
    BY <1>7 DEF Admit, NewJob
  <2>3. purge.status = "ABSENT" => object[s] # "absent"
    BY <1>7 DEF Admit, IInv, CheckedBytesKept
  <2>4. TypeOK'
    BY <1>1, <1>5, <2>1, <2>2 DEF IInv, TypeOK
  <2>6. RecordsTyped'
    BY <1>1, <1>4, <1>5, <2>1, <2>2 DEF IInv, RecordsTyped
  <2>7. CheckedBytesKept'
    BY <1>3, <1>4, <1>5, <2>2 DEF IInv, CheckedBytesKept, Asked
  <2>8. ObjectsKept'
    BY <1>5, <2>1, <2>2, <2>3 DEF IInv, ObjectsKept
  <2>9. ChaptersOfCurrent' /\ PurgeAskedFor' /\ RowStays'
    BY <1>5, <2>2 DEF IInv, ChaptersOfCurrent, PurgeAskedFor, RowStays
  <2> QED
    BY <1>6, <2>4, <2>6, <2>7, <2>8, <2>9 DEF IInv
<1>8. CASE RequestIngestion(c)
  <2>1. s \in Sessions /\ file' = file /\ purge' = purge /\ status' = "PARSING"
    BY <1>1, <1>8, PlaceFields DEF RequestIngestion, Asked, IInv
  <2>2. jobs' = jobs \cup {[n |-> pc[c].n, s |-> s, op |-> "ingest", status |-> "CREATED", text |-> None]}
    BY <1>8 DEF RequestIngestion, NewJob
  <2>3. TypeOK'
    BY <1>1, <1>5, <2>1, <2>2 DEF IInv, TypeOK
  <2>4. RecordsTyped'
    BY <1>1, <1>4, <1>5, <2>1, <2>2 DEF IInv, RecordsTyped
  <2>5. CheckedBytesKept'
    BY <1>3, <1>4, <1>5, <2>1 DEF IInv, CheckedBytesKept, Asked
  <2>6. ObjectsKept' /\ ChaptersOfCurrent' /\ PurgeAskedFor' /\ RowStays'
    BY <1>5, <2>1 DEF IInv, ObjectsKept, ChaptersOfCurrent, PurgeAskedFor, RowStays
  <2> QED
    BY <1>6, <2>3, <2>4, <2>5, <2>6 DEF IInv
<1>9. CASE PurgeBook(c)
  <2>1. /\ UNCHANGED <<file, jobs, status>>
        /\ purge' = [purge EXCEPT !.status = "CREATED"]
    BY <1>9 DEF PurgeBook
  <2>2. /\ purge' \in [status : {"ABSENT", "CREATED", "RUNNING"}, attempts : Nat,
                step : {"rest", "structure", "versions", "objects", "files", "jobs", "book"}]
        /\ purge'.status = "CREATED" /\ purge'.attempts = purge.attempts
    BY <2>1 DEF IInv, RecordsTyped
  <2>3. TypeOK'
    BY <1>5, <2>1, <2>2 DEF IInv, TypeOK
  <2>4. RecordsTyped'
    BY <1>4, <1>5, <2>1, <2>2 DEF IInv, RecordsTyped
  <2>5. CheckedBytesKept' /\ ObjectsKept' /\ PurgeAskedFor'
    BY <2>2 DEF CheckedBytesKept, ObjectsKept, PurgeAskedFor
  <2>6. ChaptersOfCurrent' /\ RowStays'
    BY <1>5, <2>1 DEF IInv, ChaptersOfCurrent, RowStays
  <2> QED
    BY <1>6, <2>3, <2>4, <2>5, <2>6 DEF IInv
<1> QED
  BY <1>7, <1>8, <1>9

-----------------------------------------------------------------------------
(* Uploads, parses, deletion and purge *)

\* A parse keeps the inductive invariant: it changes its own job, and the version where there is none.
LEMMA ParsePreserves ==
  ASSUME IInv, NEW j \in jobs, Parse(j) \/ MergeVersion(j) \/ PersistVersion(j) \/ ParseFails(j)
  PROVE  IInv'
<1> USE DEF requestVars, uploadVars, bookVars
<1>4. j \in [n : Nat, s : Sessions, op : {"complete", "ingest"},
             status : {"CREATED", "RUNNING", "SUCCEEDED", "FAILED"},
             text : Contents \cup {"absent", None}]
  BY DEF IInv, RecordsTyped
<1>1. /\ UNCHANGED <<requestVars, uploadVars, file, deleted, gone, purge>>
      /\ \E outcome \in {"RUNNING", "SUCCEEDED", "FAILED"}, text \in {j.text, object[j.s]} :
           jobs' = (jobs \ {j}) \cup {[j EXCEPT !.status = outcome, !.text = text]}
  <2>1. CASE Parse(j)
    BY <2>1 DEF Parse
  <2>2. CASE MergeVersion(j) \/ PersistVersion(j) \/ ParseFails(j)
    <3>1. PICK outcome \in {"SUCCEEDED", "FAILED"} : Becomes(j, outcome)
      BY <2>2 DEF MergeVersion, PersistVersion, ParseFails
    <3>2. [j EXCEPT !.status = outcome] = [j EXCEPT !.status = outcome, !.text = j.text]
      BY <1>4
    <3> QED
      BY <2>2, <3>1, <3>2 DEF Becomes, MergeVersion, PersistVersion, ParseFails
  <2> QED
    BY <2>1, <2>2
<1>2. /\ status' \in {"CREATED", "UPLOADED", "PARSING", "STRUCTURED", "FAILED"}
      /\ {chapters', current'} \subseteq Contents \cup {None} /\ chapters' \in {None, current'}
  BY DEF Parse, MergeVersion, PersistVersion, ParseFails, IInv, TypeOK, ChaptersOfCurrent
<1>3. PICK outcome \in {"RUNNING", "SUCCEEDED", "FAILED"}, text \in {j.text, object[j.s]} :
        jobs' = (jobs \ {j}) \cup {[j EXCEPT !.status = outcome, !.text = text]}
  BY <1>1
<1> DEFINE k == [j EXCEPT !.status = outcome, !.text = text]
<1>5. /\ k \in [n : Nat, s : Sessions, op : {"complete", "ingest"},
                status : {"CREATED", "RUNNING", "SUCCEEDED", "FAILED"},
                text : Contents \cup {"absent", None}]
      /\ k.n = j.n /\ k.s = j.s
  <2>1. text \in Contents \cup {"absent", None}
    BY <1>4 DEF IInv, TypeOK
  <2> QED
    BY <1>4, <2>1
<1>6. jobs' = (jobs \ {j}) \cup {k}
  BY <1>3
<1>7. \A i \in jobs' : i.n \in 1..requests /\ i.s \in Sessions
  BY <1>5, <1>6 DEF IInv, TypeOK
<1>8. TypeOK'
  BY <1>1, <1>2, <1>7 DEF IInv, TypeOK
<1>9. RecordsTyped'
  BY <1>1, <1>5, <1>6 DEF IInv, RecordsTyped
<1>10. Numbered' /\ ChaptersOfCurrent' /\ PurgeAskedFor' /\ RowStays'
  BY <1>1, <1>2 DEF IInv, Numbered, ChaptersOfCurrent, PurgeAskedFor, RowStays
<1>11. CheckedBytesKept' /\ ObjectsKept'
  BY <1>1 DEF IInv, CheckedBytesKept, Asked, ObjectsKept
<1> QED
  BY <1>8, <1>9, <1>10, <1>11 DEF IInv

\* Uploads and restorations keep the inductive invariant.
LEMMA UploadPreserves ==
  ASSUME IInv, RestoreBook \/ \E s \in Sessions : Upload(s)
  PROVE  IInv'
<1> USE DEF requestVars, uploadVars, bookVars
<1>1. /\ UNCHANGED <<pc, record, session, content, file, jobs, status, gone, chapters, current, purge, troubles>>
      /\ deleted' \in BOOLEAN
      /\ requests' \in Nat /\ requests \in 0..requests'
  <2>1. requests \in Nat /\ deleted \in BOOLEAN
    BY DEF IInv, RecordsTyped
  <2>2. requests' \in {requests, requests + 1}
    BY DEF RestoreBook, Upload, Counts
  <2>3. requests' \in Nat /\ requests \in 0..requests'
    BY <2>1, <2>2
  <2> QED
    BY <2>1, <2>3 DEF RestoreBook, Upload, Counts
<1>2. /\ object' \in [Sessions -> Contents \cup {"absent"}]
      /\ \A s \in Sessions : object[s] # "absent" => object'[s] # "absent"
  <2>1. CASE object' = object
    BY <2>1 DEF IInv, TypeOK
  <2>2. ASSUME NEW s \in Sessions, NEW b \in Contents, object' = [object EXCEPT ![s] = b]
        PROVE  /\ object' \in [Sessions -> Contents \cup {"absent"}]
               /\ \A t \in Sessions : object[t] # "absent" => object'[t] # "absent"
    BY <2>2, LibraryAssumption DEF IInv, TypeOK
  <2> QED
    BY <2>1, <2>2 DEF RestoreBook, Upload
<1>3. \A k : (k \in 1..requests => k \in 1..requests') /\ (k \in 0..requests => k \in 0..requests')
  BY <1>1 DEF IInv, RecordsTyped
<1>4. TypeOK'
  BY <1>1, <1>2, <1>3 DEF IInv, TypeOK
<1>5. RecordsTyped'
  BY <1>1 DEF IInv, RecordsTyped
<1>6. Numbered'
  BY <1>1, <1>3 DEF IInv, Numbered
<1>7. CheckedBytesKept'
  <2> SUFFICES ASSUME purge.status = "ABSENT", NEW c \in Clients, Asked(c, "complete", "commit")
               PROVE  object'[pc[c].ask[2]] # "absent"
    BY <1>1 DEF CheckedBytesKept, Asked
  <2>1. pc[c].ask[2] \in Sessions /\ object[pc[c].ask[2]] # "absent"
    BY PlaceFields DEF Asked, Handling, IInv, CheckedBytesKept
  <2> QED
    BY <1>2, <2>1
<1>8. ObjectsKept'
  BY <1>1, <1>2 DEF IInv, TypeOK, ObjectsKept
<1>9. ChaptersOfCurrent' /\ PurgeAskedFor' /\ RowStays'
  BY <1>1 DEF IInv, ChaptersOfCurrent, PurgeAskedFor, RowStays
<1> QED
  BY <1>4, <1>5, <1>6, <1>7, <1>8, <1>9 DEF IInv

\* Every step of the purge keeps the inductive invariant.
LEMMA PurgePreserves == ASSUME IInv, PurgeProgress \/ PurgeDies PROVE IInv'
<1> USE DEF requestVars, uploadVars, bookVars
<1>0. /\ purge \in [status : {"ABSENT", "CREATED", "RUNNING"}, attempts : Nat,
                step : {"rest", "structure", "versions", "objects", "files", "jobs", "book"}]
      /\ purge.attempts \in 0..MaxAttempts
      /\ purge.step # "rest" => purge.status # "ABSENT"
  BY DEF IInv, RecordsTyped, TypeOK, PurgeAskedFor
<1>1. purge.status # "ABSENT"
  BY <1>0 DEF PurgeProgress, PurgeDies, RunPurgeBook, PurgeStructure, PurgeBookVersions, PurgeObjects,
       PurgeBookFiles, PurgeJobsAndAttempts, DeleteBookRow, PurgeRefused,
       PurgeStep
<1>2. /\ purge' \in [status : {"ABSENT", "CREATED", "RUNNING"}, attempts : Nat,
                step : {"rest", "structure", "versions", "objects", "files", "jobs", "book"}]
      /\ purge'.attempts \in 0..MaxAttempts /\ purge'.status # "ABSENT"
  <2>1. CASE RunPurgeBook
    BY <1>0, <2>1, LibraryAssumption DEF RunPurgeBook
  <2>3. CASE DeleteBookRow
    BY <1>0, <1>1, <2>3 DEF DeleteBookRow
  <2>4. CASE PurgeStructure \/ PurgeBookVersions \/ PurgeObjects \/ PurgeBookFiles
             \/ PurgeJobsAndAttempts \/ PurgeRefused \/ PurgeDies
    <3>1. \E to \in {"rest", "versions", "objects", "files", "jobs", "book"} :
            purge' = [purge EXCEPT !.step = to]
      BY <2>4 DEF PurgeStructure, PurgeBookVersions, PurgeObjects, PurgeBookFiles,
         PurgeJobsAndAttempts, PurgeRefused, PurgeDies, PurgeStep
    <3> QED
      BY <1>0, <1>1, <3>1
  <2> QED
    BY <2>1, <2>3, <2>4 DEF PurgeProgress
<1>3. /\ UNCHANGED <<pc, record, requests, session, content, status, deleted, gone>>
      /\ troubles' \in Nat /\ file' \in {file, {}} /\ jobs' \in {jobs, {}}
  <2>1. UNCHANGED gone
    BY <1>1 DEF PurgeProgress, PurgeDies, RunPurgeBook, PurgeStructure, PurgeBookVersions,
       PurgeObjects, PurgeBookFiles, PurgeJobsAndAttempts, DeleteBookRow,
       PurgeRefused
  <2>2. troubles' \in Nat
    BY DEF PurgeProgress, PurgeDies, RunPurgeBook, PurgeStructure, PurgeBookVersions,
       PurgeObjects, PurgeBookFiles, PurgeJobsAndAttempts, DeleteBookRow,
       PurgeRefused, Trouble, IInv, RecordsTyped
  <2> QED
    BY <2>1, <2>2 DEF PurgeProgress, PurgeDies, RunPurgeBook, PurgeStructure, PurgeBookVersions,
       PurgeObjects, PurgeBookFiles, PurgeJobsAndAttempts, DeleteBookRow,
       PurgeRefused, Trouble
<1>4. object' \in [Sessions -> Contents \cup {"absent"}]
  BY DEF PurgeProgress, PurgeDies, RunPurgeBook, PurgeStructure, PurgeBookVersions, PurgeObjects,
     PurgeBookFiles, PurgeJobsAndAttempts, DeleteBookRow, PurgeRefused,
     IInv, TypeOK
<1>6. {chapters', current'} \subseteq Contents \cup {None} /\ ChaptersOfCurrent'
  BY DEF PurgeProgress, PurgeDies, RunPurgeBook, PurgeStructure, PurgeBookVersions, PurgeObjects,
     PurgeBookFiles, PurgeJobsAndAttempts, DeleteBookRow, PurgeRefused,
     IInv, TypeOK, ChaptersOfCurrent
<1>7. TypeOK'
  BY <1>2, <1>3, <1>4, <1>6 DEF IInv, TypeOK
<1>9. RecordsTyped'
  BY <1>2, <1>3 DEF IInv, RecordsTyped
<1>10. Numbered' /\ RowStays'
  BY <1>3 DEF IInv, Numbered, RowStays
<1>11. PurgeAskedFor' /\ CheckedBytesKept' /\ ObjectsKept'
  BY <1>2 DEF PurgeAskedFor, CheckedBytesKept, ObjectsKept
<1> QED
  BY <1>6, <1>7, <1>9, <1>10, <1>11 DEF IInv

-----------------------------------------------------------------------------
(* The invariant of the specification *)

\* The initial state satisfies the inductive invariant.
LEMMA InitSatisfies == Init => IInv
<1> SUFFICES ASSUME Init PROVE IInv
  OBVIOUS
<1>1. /\ record \in [Asks -> [status : {"ABSENT", "IN_PROGRESS", "COMPLETED", "FAILED"}, id : Nat, n : Nat]]
      /\ \A a \in Asks : record[a].id \in 0..requests
  BY DEF Init, NoRecord
<1>2. purge \in [status : {"ABSENT", "CREATED", "RUNNING"}, attempts : Nat,
                step : {"rest", "structure", "versions", "objects", "files", "jobs", "book"}]
      /\ purge.attempts \in 0..MaxAttempts /\ purge.step = "rest"
  BY LibraryAssumption DEF Init, NoPurge
<1>3. pc \in [Clients -> Places] /\ \A c \in Clients : pc[c].at \notin Handling
  BY OutOfHand DEF Init
<1>4. /\ session \in [Sessions -> {"AWAITING_UPLOAD", "REJECTED", "ADMITTED", "GONE"}]
      /\ object \in [Sessions -> Contents \cup {"absent"}]
  BY DEF Init
<1>5. TypeOK
  BY <1>1, <1>2, <1>4 DEF Init, TypeOK
<1>6. RecordsTyped
  BY <1>1, <1>2, <1>3 DEF Init, RecordsTyped
<1>7. Numbered /\ CheckedBytesKept
  BY <1>3 DEF Numbered, CheckedBytesKept, Asked, Handling
<1>8. ChaptersOfCurrent /\ PurgeAskedFor /\ RowStays /\ ObjectsKept
  BY <1>2 DEF Init, ChaptersOfCurrent, PurgeAskedFor, RowStays, ObjectsKept
<1> QED
  BY <1>5, <1>6, <1>7, <1>8 DEF IInv

\* A stuttering step keeps the inductive invariant.
LEMMA StutterPreserves == IInv /\ UNCHANGED vars => IInv'
  BY DEF IInv, TypeOK, RecordsTyped, Numbered, ChaptersOfCurrent, PurgeAskedFor, CheckedBytesKept,
         Asked, RowStays, ObjectsKept, vars, requestVars, uploadVars, bookVars

\* The inductive invariant holds in every reachable state.
THEOREM Invariance == Spec => []IInv
<1>1. IInv /\ [Next]_vars => IInv'
  <2> SUFFICES ASSUME IInv, [Next]_vars PROVE IInv'
    OBVIOUS
  <2>1. ASSUME NEW c \in Clients, Handler(c) PROVE IInv'
    BY <2>1, CheckPreserves, CommitPreserves DEF Handler
  <2>2. ASSUME NEW c \in Clients,
               \/ \E a \in Asks : Lookup(c, a)
               \/ Claim(c) \/ Settle(c) \/ Refuse(c) \/ CallFails(c) \/ Crash(c)
        PROVE  IInv'
    BY <2>2, RegistryPreserves
  <2>3. ASSUME NEW c \in Clients,
               \/ CheckDeletion(c) \/ DeleteBook(c) \/ (\E s \in Sessions : ReadForAbortion(c, s))
               \/ AbortUploadSession(c)
        PROVE  IInv'
    BY <2>3, CheckPreserves
  <2> QED
    BY <2>1, <2>2, <2>3, UploadPreserves, ParsePreserves, PurgePreserves, StutterPreserves DEF Next
<1> QED
  BY <1>1, InitSatisfies, PTL DEF Spec

-----------------------------------------------------------------------------
(* What a COMPLETED key answers with *)

\* Without a purge, a step of a request keeps its promise and every other's if the jobs stay,
\* and a request that has committed has its job.
LEMMA PromiseKept ==
  ASSUME IInv, CommittedHasJob, AnsweredIsDone, purge.status = "ABSENT",
         \A n \in Nat, a \in Asks : JobOf(n, a) => \E j \in jobs' : j.n = n /\ j.op = a[1] /\ j.s = a[2],
         NEW c \in Clients, NEW p, pc' = [pc EXCEPT ![c] = p],
         p.at \in {"mark", "settle"} =>
           \E j \in jobs' : j.n = p.n /\ j.op = p.ask[1] /\ j.s = p.ask[2],
         \A a \in Asks : record'[a].status = "COMPLETED" =>
           \/ record'[a] = record[a]
           \/ \E j \in jobs' : j.n = record'[a].n /\ j.op = a[1] /\ j.s = a[2]
  PROVE  CommittedHasJob' /\ AnsweredIsDone'
<1>1. pc'[c] = p /\ \A d \in Clients \ {c} : pc'[d] = pc[d]
  BY DEF IInv, RecordsTyped
<1>2. ASSUME NEW d \in Clients, pc'[d].at \in {"mark", "settle"} PROVE JobOf(pc[d].n, pc[d].ask)'
  <2>1. CASE d = c
    BY <1>1, <1>2, <2>1 DEF JobOf
  <2>2. CASE d # c
    <3>1. pc'[d] = pc[d] /\ JobOf(pc[d].n, pc[d].ask)
      BY <1>1, <1>2, <2>2 DEF CommittedHasJob
    <3>2. pc[d].n \in Nat /\ pc[d].ask \in Asks
      BY <1>2, <3>1, PlaceFields DEF IInv, Handling
    <3> QED
      BY <3>1, <3>2 DEF JobOf
  <2> QED
    BY <2>1, <2>2
<1>3. ASSUME NEW a \in Asks, record'[a].status = "COMPLETED" PROVE JobOf(record[a].n, a)'
  <2>1. record[a].n \in Nat
    BY DEF IInv, RecordsTyped
  <2> QED
    BY <1>3, <2>1 DEF AnsweredIsDone, JobOf
<1> QED
  BY <1>2, <1>3 DEF CommittedHasJob, AnsweredIsDone

\* Without a purge, jobs stay what they are for: a parse changes their status and text alone.
LEMMA JobsStay ==
  ASSUME IInv, [Next]_vars, purge.status = "ABSENT", NEW n \in Nat, NEW a \in Asks, JobOf(n, a)
  PROVE  \E j \in jobs' : j.n = n /\ j.op = a[1] /\ j.s = a[2]
<1> USE DEF bookVars
<1>1. PICK j \in jobs : j.n = n /\ j.op = a[1] /\ j.s = a[2]
  BY DEF JobOf
<1>2. CASE jobs \subseteq jobs'
  BY <1>1, <1>2
<1>3. ASSUME NEW i \in jobs, Parse(i) \/ MergeVersion(i) \/ PersistVersion(i) \/ ParseFails(i)
      PROVE  \E k \in jobs' : k.n = n /\ k.op = a[1] /\ k.s = a[2]
  <2>1. i \in [n : Nat, s : Sessions, op : {"complete", "ingest"},
               status : {"CREATED", "RUNNING", "SUCCEEDED", "FAILED"},
               text : Contents \cup {"absent", None}]
    BY DEF IInv, RecordsTyped
  <2>2. \E k : jobs' = (jobs \ {i}) \cup {k} /\ k.n = i.n /\ k.op = i.op /\ k.s = i.s
    <3>1. CASE Parse(i)
      <4>1. jobs' = (jobs \ {i}) \cup {[i EXCEPT !.status = "RUNNING", !.text = object[i.s]]}
        BY <3>1 DEF Parse
      <4> DEFINE k == [i EXCEPT !.status = "RUNNING", !.text = object[i.s]]
      <4>2. k.n = i.n /\ k.op = i.op /\ k.s = i.s
        BY <2>1
      <4> HIDE DEF k
      <4> QED
        BY <4>1, <4>2 DEF k
    <3>2. CASE MergeVersion(i) \/ PersistVersion(i) \/ ParseFails(i)
      <4>1. PICK outcome : jobs' = (jobs \ {i}) \cup {[i EXCEPT !.status = outcome]}
        BY <3>2 DEF MergeVersion, PersistVersion, ParseFails, Becomes
      <4> DEFINE k == [i EXCEPT !.status = outcome]
      <4>2. k.n = i.n /\ k.op = i.op /\ k.s = i.s
        BY <2>1
      <4> HIDE DEF k
      <4> QED
        BY <4>1, <4>2 DEF k
    <3> QED
      BY <1>3, <3>1, <3>2
  <2> QED
    BY <1>1, <2>2
<1>4. ASSUME NEW c \in Clients, Handler(c) PROVE jobs \subseteq jobs'
  BY <1>4 DEF Handler, CheckUpload, CheckFails, RejectSession, Admit, MarkAdmitted, CheckIngestion,
     RequestIngestion, CheckPurge, PurgeBook
<1>5. ASSUME NEW c \in Clients,
             \/ \E b \in Asks : Lookup(c, b)
             \/ Claim(c) \/ Settle(c) \/ Refuse(c) \/ CallFails(c) \/ Crash(c)
             \/ (\E s \in Sessions : ReadForAbortion(c, s)) \/ AbortUploadSession(c)
             \/ CheckDeletion(c) \/ DeleteBook(c)
      PROVE  jobs \subseteq jobs'
  BY <1>5 DEF Lookup, Claim, Settle, Refuse, CallFails, Crash, ReadForAbortion, AbortUploadSession,
     CheckDeletion, DeleteBook
<1>6. ASSUME RestoreBook \/ (\E s \in Sessions : Upload(s)) \/ UNCHANGED vars PROVE jobs \subseteq jobs'
  BY <1>6 DEF RestoreBook, Upload, vars
<1>7. ~PurgeProgress /\ ~PurgeDies
  BY DEF IInv, PurgeAskedFor, PurgeProgress, PurgeDies, RunPurgeBook, PurgeStructure, PurgeBookVersions,
     PurgeObjects, PurgeBookFiles, PurgeJobsAndAttempts, DeleteBookRow, PurgeRefused, PurgeStep
<1> QED
  BY <1>2, <1>3, <1>4, <1>5, <1>6, <1>7 DEF Next

\* The promises are kept by every step.
LEMMA AnswersStay ==
  ASSUME IInv, CommittedHasJob, AnsweredIsDone, [Next]_vars
  PROVE  CommittedHasJob' /\ AnsweredIsDone'
<1> USE DEF uploadVars, bookVars
<1>1. CASE purge'.status # "ABSENT"
  BY <1>1 DEF CommittedHasJob, AnsweredIsDone
<1>2. CASE purge'.status = "ABSENT"
  <2>1. purge.status = "ABSENT"
    <3>1. ASSUME PurgeProgress \/ PurgeDies PROVE FALSE
      BY <1>2, <3>1 DEF IInv, PurgeAskedFor, RecordsTyped, PurgeProgress, PurgeDies, RunPurgeBook,
         PurgeStructure, PurgeBookVersions, PurgeObjects, PurgeBookFiles, PurgeJobsAndAttempts,
         DeleteBookRow, PurgeRefused, PurgeStep
    <3>2. ASSUME NEW c \in Clients, PurgeBook(c) PROVE FALSE
      BY <1>2, <3>2 DEF PurgeBook, IInv, RecordsTyped
    <3> QED
      BY <1>2, <3>1, <3>2 DEF Next, Upload, ReadForAbortion, AbortUploadSession, Lookup, Claim, Settle,
         Refuse, CallFails, Crash, Handler, CheckUpload, CheckFails, RejectSession, Admit, MarkAdmitted,
         CheckIngestion, RequestIngestion, CheckPurge, CheckDeletion, DeleteBook, Parse, MergeVersion,
         PersistVersion, ParseFails, RestoreBook, vars
  <2>2. \A n \in Nat, a \in Asks : JobOf(n, a) => \E j \in jobs' : j.n = n /\ j.op = a[1] /\ j.s = a[2]
    BY <2>1, JobsStay
  <2>3. CASE UNCHANGED <<pc, record>>
    <3>1. ASSUME NEW d \in Clients, pc'[d].at \in {"mark", "settle"} PROVE JobOf(pc[d].n, pc[d].ask)'
      <4>1. JobOf(pc[d].n, pc[d].ask) /\ pc[d].n \in Nat /\ pc[d].ask \in Asks
        BY <2>1, <2>3, <3>1, PlaceFields DEF CommittedHasJob, IInv, Handling
      <4> QED
        BY <2>2, <2>3, <4>1 DEF JobOf
    <3>2. ASSUME NEW a \in Asks, record'[a].status = "COMPLETED" PROVE JobOf(record[a].n, a)'
      <4>1. JobOf(record[a].n, a) /\ record[a].n \in Nat
        BY <2>1, <2>3, <3>2 DEF AnsweredIsDone, IInv, RecordsTyped
      <4> QED
        BY <2>2, <2>3, <4>1 DEF JobOf
    <3> QED
      BY <3>1, <3>2 DEF CommittedHasJob, AnsweredIsDone
  <2>4. ASSUME NEW c \in Clients,
               \/ \E a \in Asks : Lookup(c, a)
               \/ Crash(c) \/ (\E s \in Sessions : ReadForAbortion(c, s)) \/ AbortUploadSession(c)
               \/ CheckUpload(c) \/ CheckFails(c) \/ CheckIngestion(c) \/ CheckPurge(c)
               \/ CheckDeletion(c) \/ DeleteBook(c)
        PROVE  CommittedHasJob' /\ AnsweredIsDone'
    <3>1. record' = record
      BY <2>4 DEF Lookup, Crash, ReadForAbortion, AbortUploadSession, CheckUpload, CheckFails,
         CheckIngestion, CheckPurge, CheckDeletion, DeleteBook, Goes
    <3>2. \E p : pc' = [pc EXCEPT ![c] = p] /\ p.at \notin {"mark", "settle"}
      <4>1. ASSUME NEW at \in {"commit", "reject"}, Goes(c, at), pc[c].at \in Handling
            PROVE  \E p : pc' = [pc EXCEPT ![c] = p] /\ p.at \notin {"mark", "settle"}
        BY <4>1, GoesOn DEF Handling
      <4>2. CASE CheckUpload(c) \/ CheckFails(c) \/ CheckIngestion(c) \/ CheckPurge(c)
        BY <4>1, <4>2 DEF CheckUpload, CheckFails, CheckIngestion, CheckPurge, Asked, Handling
      <4> QED
        BY <2>4, <4>2 DEF Lookup, Crash, ReadForAbortion, AbortUploadSession, CheckDeletion, DeleteBook,
           Idle
    <3> QED
      BY <2>1, <2>2, <3>1, <3>2, PromiseKept
  <2>5. ASSUME NEW c \in Clients, Claim(c) PROVE CommittedHasJob' /\ AnsweredIsDone'
    <3>1. pc[c].at \in Handling
      BY <2>5 DEF Claim, Handling
    <3>2. pc[c] \in [at : Handling, ask : Asks, n : Nat, id : Nat]
      BY <3>1, PlaceFields DEF IInv
    <3> DEFINE q == [pc[c] EXCEPT !.at = "check"]
    <3>3. pc' = [pc EXCEPT ![c] = q] /\ q.at \notin {"mark", "settle"}
      BY <2>5, <3>2 DEF Claim
    <3> HIDE DEF q
    <3>4. \A a \in Asks : record'[a].status = "COMPLETED" => record'[a] = record[a]
      BY <2>5 DEF Claim, IInv, RecordsTyped
    <3> QED
      BY <2>1, <2>2, <3>3, <3>4, PromiseKept
  <2>6. ASSUME NEW c \in Clients, RejectSession(c) \/ Refuse(c) \/ CallFails(c) \/ Settle(c)
        PROVE  CommittedHasJob' /\ AnsweredIsDone'
    <3>1. pc' = [pc EXCEPT ![c] = Idle] /\ Idle.at \notin {"mark", "settle"}
      BY <2>6 DEF RejectSession, Refuse, CallFails, Settle, Settled, Idle
    <3>2. CASE Settled(c, "FAILED")
      <4>1. \A a \in Asks : record'[a].status = "COMPLETED" => record'[a] = record[a]
        BY <3>2 DEF Settled, IInv, RecordsTyped
      <4> QED
        BY <2>1, <2>2, <3>1, <4>1, PromiseKept
    <3>3. CASE Settle(c)
      <4>1. pc[c].at = "settle" /\ pc[c].ask \in Asks /\ pc[c].n \in Nat
        BY <3>3, PlaceFields DEF Settle, IInv, Handling
      <4>2. JobOf(pc[c].n, pc[c].ask)
        BY <2>1, <4>1 DEF CommittedHasJob
      <4>3. ASSUME NEW a \in Asks, record'[a] # record[a] PROVE a = pc[c].ask /\ record'[a].n = pc[c].n
        BY <3>3, <4>1, <4>3 DEF Settle, Settled, IInv, RecordsTyped
      <4>4. \A a \in Asks : record'[a].status = "COMPLETED" =>
              \/ record'[a] = record[a]
              \/ \E j \in jobs' : j.n = record'[a].n /\ j.op = a[1] /\ j.s = a[2]
        BY <2>2, <4>1, <4>2, <4>3
      <4> QED
        BY <2>1, <2>2, <3>1, <4>4, PromiseKept
    <3> QED
      BY <2>6, <3>2, <3>3 DEF RejectSession, Refuse, CallFails
  <2>7. ASSUME NEW c \in Clients, Admit(c) \/ RequestIngestion(c) \/ MarkAdmitted(c)
        PROVE  CommittedHasJob' /\ AnsweredIsDone'
    <3>1. pc[c].at \in Handling /\ record' = record
      BY <2>7 DEF Admit, RequestIngestion, MarkAdmitted, Asked, Handling, Goes
    <3>2. pc[c] \in [at : Handling, ask : Asks, n : Nat, id : Nat]
      BY <3>1, PlaceFields DEF IInv
    <3>3. PICK at \in {"mark", "settle"} : Goes(c, at)
      BY <2>7 DEF Admit, RequestIngestion, MarkAdmitted
    <3>4. PICK p : pc' = [pc EXCEPT ![c] = p] /\ p.n = pc[c].n /\ p.ask = pc[c].ask
      <4> WITNESS [pc[c] EXCEPT !.at = at]
      <4> QED
        BY <3>2, <3>3 DEF Goes
    <3>5. \E j \in jobs' : j.n = pc[c].n /\ j.op = pc[c].ask[1] /\ j.s = pc[c].ask[2]
      <4>1. CASE MarkAdmitted(c)
        <5>1. JobOf(pc[c].n, pc[c].ask)
          BY <2>1, <4>1 DEF MarkAdmitted, Asked, CommittedHasJob
        <5> QED
          BY <2>2, <3>2, <5>1
      <4>2. CASE Admit(c) \/ RequestIngestion(c)
        <5>1. NewJob(c, pc[c].ask[1]) \in jobs'
          BY <4>2 DEF Admit, RequestIngestion, Asked
        <5>2. /\ NewJob(c, pc[c].ask[1]).n = pc[c].n /\ NewJob(c, pc[c].ask[1]).op = pc[c].ask[1]
              /\ NewJob(c, pc[c].ask[1]).s = pc[c].ask[2]
          BY DEF NewJob
        <5> QED
          BY <5>1, <5>2
      <4> QED
        BY <2>7, <4>1, <4>2
    <3>6. \E j \in jobs' : j.n = p.n /\ j.op = p.ask[1] /\ j.s = p.ask[2]
      BY <3>4, <3>5
    <3> QED
      BY <2>1, <2>2, <3>1, <3>4, <3>6, PromiseKept
  <2>8. ASSUME NEW c \in Clients, PurgeBook(c) PROVE FALSE
    BY <1>2, <2>8 DEF PurgeBook, IInv, RecordsTyped
  <2>9. ~PurgeProgress /\ ~PurgeDies
    BY <2>1 DEF IInv, PurgeAskedFor, PurgeProgress, PurgeDies, RunPurgeBook, PurgeStructure,
       PurgeBookVersions, PurgeObjects, PurgeBookFiles, PurgeJobsAndAttempts, DeleteBookRow,
       PurgeRefused, PurgeStep
  <2>10. ASSUME \/ RestoreBook \/ (\E s \in Sessions : Upload(s)) \/ UNCHANGED vars
                \/ \E j \in jobs : Parse(j) \/ MergeVersion(j) \/ PersistVersion(j) \/ ParseFails(j)
         PROVE  UNCHANGED <<pc, record>>
    BY <2>10 DEF RestoreBook, Upload, Parse, MergeVersion, PersistVersion, ParseFails, vars, requestVars
  <2> QED
    BY <2>3, <2>4, <2>5, <2>6, <2>7, <2>8, <2>9, <2>10 DEF Next, Handler
<1> QED
  BY <1>1, <1>2

-----------------------------------------------------------------------------
(* What the run checks, for every value of the constants *)

\* The rows of books, files, jobs and keys keep their types; the chapters and the current version
\* are what a parse has read.
THEOREM TypeCorrect == Spec => []TypeOK
  BY Invariance, PTL DEF IInv

\* What a key answers with was done: the job of the request whose response its COMPLETED record
\* has is there, whoever raced for the key, took it over after a failure, or stopped.
THEOREM AnswersAreDone == Spec => []AnsweredIsDone
<1>1. Init => CommittedHasJob /\ AnsweredIsDone
  BY DEF Init, CommittedHasJob, AnsweredIsDone, Idle, NoRecord
<1>2. IInv /\ CommittedHasJob /\ AnsweredIsDone /\ [Next]_vars => CommittedHasJob' /\ AnsweredIsDone'
  BY AnswersStay
<1> QED
  BY <1>1, <1>2, Invariance, PTL DEF Spec

\* An admitted file keeps an object until the purge: what a completion has checked can be replaced
\* by the client, and not taken away, an abortion leaves it, and nothing else removes it.
THEOREM ObjectsAreKept == Spec => []ObjectsKept
  BY Invariance, PTL DEF IInv

\* A parse replaces the chapters and the current version of a book together or not at all; the
\* purge's step on the structure alone takes the chapters away.
THEOREM VersionsStayWhole == Spec => VersionStaysWhole
<1>1. [Next]_vars =>
        [current # None /\ chapters = current
           => \/ current' # None /\ chapters' = current'
              \/ purge.step = "structure"]_vars
  BY DEF Next, Upload, ReadForAbortion, AbortUploadSession, Lookup, Claim, Settle, Refuse, CallFails,
     Crash, Handler, CheckUpload, CheckFails, RejectSession, Admit, MarkAdmitted, CheckIngestion,
     RequestIngestion, CheckPurge, PurgeBook, CheckDeletion, DeleteBook, Parse, MergeVersion,
     PersistVersion, ParseFails, RestoreBook, PurgeProgress, RunPurgeBook, PurgeStructure,
     PurgeBookVersions, PurgeObjects, PurgeBookFiles, PurgeJobsAndAttempts, DeleteBookRow,
     PurgeRefused, PurgeDies, PurgeStep, bookVars
<1> QED
  BY <1>1, PTL DEF Spec, VersionStaysWhole

\* runPurgeBook never removes the row of the book it purges, whatever its attempts: the purge is
\* itself a processing_job with that book's id.
THEOREM BookRowStays == Spec => []RowStays
  BY Invariance, PTL DEF IInv
=============================================================================
