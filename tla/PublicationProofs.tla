-------------------------- MODULE PublicationProofs --------------------------
(***************************************************************************)
(* Proofs about Publication, for every number of assembly jobs, formats,   *)
(* chapters, versions, attempts and faults.  IInv is inductive; the safety *)
(* properties of both runs follow from it.                                 *)
(***************************************************************************)
EXTENDS Publication, SequenceTheorems, WellFoundedInduction, TLAPS

-----------------------------------------------------------------------------
(* Least and greatest elements *)

\* A nonempty set of natural numbers has a least element.
LEMMA LeastElement ==
  ASSUME NEW S \in SUBSET Nat, S # {}
  PROVE  \E m \in S : \A k \in S : m <= k
<1> DEFINE R == {ss \in Nat \X Nat : ss[1] < ss[2]}
<1>1. IsWellFoundedOn(R, Nat)
  BY NatLessThanWellFounded DEF OpToRel
<1> HIDE DEF R
<1>2. PICK m \in S : \A k \in S : ~(<<k, m>> \in R)
  BY <1>1, WFMin, Zenon
<1>3. ASSUME NEW k \in S, k < m PROVE <<k, m>> \in R
  <2>1. <<k, m>> \in Nat \X Nat /\ <<k, m>>[1] = k /\ <<k, m>>[2] = m
    OBVIOUS
  <2> QED
    BY <1>3, <2>1, Zenon DEF R
<1>4. ASSUME NEW k \in S PROVE m <= k
  <2>1. ~(k < m)
    BY <1>2, <1>3, Zenon
  <2>2. k \in Nat /\ m \in Nat
    OBVIOUS
  <2> QED
    BY <2>1, <2>2
<1> QED
  BY <1>4

\* A nonempty set of numbers up to a bound has a greatest element.
LEMMA GreatestElement ==
  ASSUME NEW n \in Nat, NEW S \in SUBSET (1..n), S # {}
  PROVE  \E m \in S : \A k \in S : k <= m
<1> DEFINE U == {u \in Nat : \A k \in S : k <= u}
<1>1. n \in U
  OBVIOUS
<1>2. PICK u \in U : \A w \in U : u <= w
  BY <1>1, LeastElement
<1>3. u \in S
  <2> SUFFICES ASSUME u \notin S PROVE FALSE
    OBVIOUS
  <2>1. \A k \in S : k <= u - 1
    OBVIOUS
  <2>2. PICK k \in S : TRUE
    OBVIOUS
  <2>3. u - 1 \in U
    BY <2>1, <2>2
  <2> QED
    BY <1>2, <2>3
<1> QED
  BY <1>3

\* The largest of a set of versions.
LEMMA LatestIsGreatest ==
  ASSUME NEW S \in SUBSET Versions, S # {}
  PROVE  Latest(S) \in S /\ \A w \in S : w <= Latest(S)
<1>1. \E v \in S : \A w \in S : w <= v
  BY GreatestElement, NumbersAssumption DEF Versions
<1> QED
  BY <1>1, Zenon DEF Latest

\* A request has a first format.
LEMMA FirstPosition ==
  ASSUME NEW s \in Seq(Formats), s # <<>>
  PROVE  DOMAIN s \in SUBSET Nat /\ 1 \in DOMAIN s
<1>1. Len(s) \in Nat /\ DOMAIN s = 1..Len(s) /\ Len(s) # 0
  BY EmptySeq, LenProperties
<1> QED
  BY <1>1

\* The next format to enqueue is one of those left.
LEMMA NextTodoIsLeft ==
  ASSUME NEW j, aTodo[j] \subseteq Nat, aTodo[j] # {}
  PROVE  NextTodo(j) \in aTodo[j]
<1>1. \E i \in aTodo[j] : \A k \in aTodo[j] : i <= k
  BY LeastElement
<1> QED
  BY <1>1, Zenon DEF NextTodo

-----------------------------------------------------------------------------
(* What a step leaves alone *)

\* An encode step leaves what is known of the assemblies.
LEMMA AssembliesKept ==
  ASSUME IInv, UNCHANGED <<aVars, abManifest, current>>,
         \A v \in Versions : abStatus'[v] = "ABSENT" <=> abStatus[v] = "ABSENT"
  PROVE  AssemblyInStep' /\ ResultNamed' /\ VersionReserved' /\ CurrentIsNewest'
<1> USE DEF aVars
<1>1. AssemblyInStep'
  BY DEF IInv, AssemblyInStep
<1>2. ResultNamed'
  BY DEF IInv, ResultNamed
<1>3. VersionReserved' /\ CurrentIsNewest'
  BY DEF IInv, VersionReserved, CurrentIsNewest
<1> QED
  BY <1>1, <1>2, <1>3

\* An assembly step that creates no encode job leaves what is known of those there are.
LEMMA EncodesKept ==
  ASSUME IInv, UNCHANGED <<eVars, rendition, completed>>,
         \A v \in Versions : abStatus[v] # "ABSENT" => abStatus'[v] # "ABSENT",
         faults' = 0 => faults = 0
  PROVE  EncodeInStep' /\ AboutToSucceed' /\ SucceededIsEncoded' /\ GateStands' /\ AdvertisedReady'
<1> USE DEF eVars
<1>1. EncodeInStep'
  BY DEF IInv, EncodeInStep, Encodes
<1>2. \A v \in Versions, f \in Formats : FullyReady(v, f)' <=> FullyReady(v, f)
  BY DEF FullyReady
<1>3. AboutToSucceed' /\ SucceededIsEncoded'
  BY <1>2 DEF IInv, AboutToSucceed, SucceededIsEncoded, Encodes
<1>4. GateStands' /\ AdvertisedReady'
  BY DEF IInv, GateStands, AllReady, AdvertisedReady, FullyReady
<1> QED
  BY <1>1, <1>3, <1>4

\* Deaths and failures are counted up to their bounds.
LEMMA FaultCounted ==
  ASSUME IInv, Fault \/ Crash \/ UNCHANGED faultVars
  PROVE  /\ crashes' \in 0..MaxCrashes /\ faults' \in 0..MaxFaults
         /\ faults' = 0 => faults = 0
  BY NumbersAssumption DEF IInv, TypeOK, Fault, Crash, faultVars

\* The version of an encode job is one, and its format is one.
LEMMA EncodeParts ==
  ASSUME NEW e \in Encodes
  PROVE  e[1] \in Versions /\ e[2] \in Formats /\ e = <<e[1], e[2]>>
  BY DEF Encodes

-----------------------------------------------------------------------------
(* processAssembleAudiobookJob *)

\* Where one assembly moves, the others stay in step.
LEMMA OneAssemblyMoves ==
  ASSUME AssemblyInStep, NEW j \in AJobs,
         \A i \in AJobs \ {j} : /\ aPc'[i] = aPc[i] /\ aStatus'[i] = aStatus[i]
                                /\ aTodo'[i] = aTodo[i] /\ aFormats'[i] = aFormats[i]
                                /\ aTries'[i] = aTries[i],
         aPc'[j] = "absent" <=> aStatus'[j] = "ABSENT",
         aPc'[j] \in {"resume", "start", "build", "commit"} =>
           aStatus'[j] \notin {"SUCCEEDED", "FAILED"},
         aPc'[j] \in {"enqueue", "repack"} => aStatus'[j] = "SUCCEEDED" /\ aTodo'[j] # {},
         aTodo'[j] \subseteq DOMAIN aFormats'[j],
         aPc'[j] = "absent" => aTodo'[j] = {},
         aPc'[j] # "absent" => aFormats'[j] # <<>>,
         aPc'[j] # "done" => aTries'[j] < MaxAttempts
  PROVE  AssemblyInStep'
<1> SUFFICES ASSUME NEW i \in AJobs
             PROVE  /\ aPc'[i] = "absent" <=> aStatus'[i] = "ABSENT"
                    /\ aPc'[i] \in {"resume", "start", "build", "commit"} =>
                         aStatus'[i] \notin {"SUCCEEDED", "FAILED"}
                    /\ aPc'[i] \in {"enqueue", "repack"} => aStatus'[i] = "SUCCEEDED" /\ aTodo'[i] # {}
                    /\ aTodo'[i] \subseteq DOMAIN aFormats'[i]
                    /\ aPc'[i] = "absent" => aTodo'[i] = {}
                    /\ aPc'[i] # "absent" => aFormats'[i] # <<>>
                    /\ aPc'[i] # "done" => aTries'[i] < MaxAttempts
  BY DEF AssemblyInStep
<1>1. CASE i = j
  BY <1>1
<1>2. CASE i # j
  BY <1>2 DEF AssemblyInStep
<1> QED
  BY <1>1, <1>2

\* The steps of an assembly up to the transaction keep the inductive invariant.
LEMMA LookupPreserves ==
  ASSUME IInv, NEW j \in AJobs,
         \/ \E formats \in Requests : RequestByApi(j, formats) \/ RequestByFanIn(j, formats)
         \/ ASkip(j) \/ ANotReady(j) \/ ALoad(j) \/ AResume(j) \/ AStart(j)
  PROVE  IInv'
<1> USE NumbersAssumption DEF bookVars, gateVars, aVars, eVars, faultVars, AGoto
<1>1. /\ UNCHANGED <<manifest, bookVars, gateVars, rendition, eVars, faultVars>>
      /\ EncodeInStep' /\ AboutToSucceed' /\ SucceededIsEncoded' /\ GateStands' /\ AdvertisedReady'
      /\ CurrentIsNewest'
  <2>1. UNCHANGED <<manifest, bookVars, gateVars, rendition, eVars, faultVars>>
    BY DEF RequestByApi, RequestByFanIn, CreateAssemble, ASkip, ANotReady, ALoad, AResume, AStart
  <2> QED
    BY <2>1, EncodesKept DEF IInv, CurrentIsNewest
<1>2. CASE \E formats \in Requests : RequestByApi(j, formats) \/ RequestByFanIn(j, formats)
  <2>0. PICK formats \in Requests : RequestByApi(j, formats) \/ RequestByFanIn(j, formats)
    BY <1>2
  <2>1. PICK key : CreateAssemble(j, formats, key)
    BY <2>0 DEF RequestByApi, RequestByFanIn
  <2>2. formats \in Seq(Formats) /\ formats # <<>>
    BY RequestsAssumption
  <2>3. TypeOK'
    BY <1>1, <2>1, <2>2 DEF CreateAssemble, IInv, TypeOK, JobStatuses, APcs
  <2>4. AssemblyInStep'
    BY <1>1, <2>1, <2>2 DEF CreateAssemble, IInv, TypeOK, AssemblyInStep
  <2>5. ResultNamed' /\ VersionReserved'
    BY <1>1, <2>1 DEF CreateAssemble, IInv, TypeOK, ResultNamed, VersionReserved
  <2> QED
    BY <1>1, <2>3, <2>4, <2>5 DEF IInv
<1>3. CASE ASkip(j) \/ ANotReady(j)
  <2>1. TypeOK'
    BY <1>1, <1>3 DEF ASkip, ANotReady, IInv, TypeOK, JobStatuses, APcs
  <2>2. AssemblyInStep'
    BY <1>1, <1>3 DEF ASkip, ANotReady, IInv, TypeOK, AssemblyInStep
  <2>3. ResultNamed' /\ VersionReserved'
    BY <1>1, <1>3 DEF ASkip, ANotReady, IInv, TypeOK, ResultNamed, VersionReserved
  <2> QED
    BY <1>1, <2>1, <2>2, <2>3 DEF IInv
<1>4. CASE ALoad(j)
  <2> DEFINE v == Latest(Reusable(manifest))
             todo == {i \in DOMAIN aFormats[j] : ~FullyReady(v, aFormats[j][i])}
  <2>1. Reusable(manifest) # {} =>
          v \in Versions /\ abStatus[v] # "ABSENT" /\ abManifest[v] = manifest
    <3>1. Reusable(manifest) \in SUBSET Versions
      BY DEF Reusable
    <3> QED
      BY <3>1, LatestIsGreatest DEF Reusable
  <2>2. todo \in SUBSET Nat /\ todo \subseteq DOMAIN aFormats[j]
    BY DEF IInv, TypeOK
  <2>3. /\ aPc[j] = "wait" /\ aStatus[j] \notin {"SUCCEEDED", "FAILED"}
        /\ aManifest' = [aManifest EXCEPT ![j] = manifest]
        /\ UNCHANGED <<aStatus, aKey, aFormats, aTries>>
    BY <1>4 DEF ALoad
  <2>4. \/ Reusable(manifest) = {} /\ aPc' = [aPc EXCEPT ![j] = "start"] /\ UNCHANGED <<aBook, aTodo>>
        \/ /\ Reusable(manifest) # {} /\ aPc' = [aPc EXCEPT ![j] = "resume"]
           /\ aBook' = [aBook EXCEPT ![j] = v] /\ aTodo' = [aTodo EXCEPT ![j] = todo]
    BY <1>4, Zenon DEF ALoad
  <2> HIDE DEF v, todo
  <2>5. /\ Reusable(manifest) # {} => v \in 0..MaxVersion
        /\ manifest \in 0..MaxManifest
    BY <2>1 DEF IInv, TypeOK, Versions
  <2>6. aManifest' \in [AJobs -> 0..MaxManifest] /\ aPc' \in [AJobs -> APcs]
    BY <2>3, <2>4, <2>5 DEF IInv, TypeOK, APcs
  <2>7. aBook' \in [AJobs -> 0..MaxVersion] /\ aTodo' \in [AJobs -> SUBSET Nat]
    <3>1. aBook \in [AJobs -> 0..MaxVersion] /\ aTodo \in [AJobs -> SUBSET Nat]
      BY DEF IInv, TypeOK
    <3>2. aBook' \in [AJobs -> 0..MaxVersion]
      BY <2>4, <2>5, <3>1
    <3>3. aTodo' \in [AJobs -> SUBSET Nat]
      BY <2>2, <2>4, <3>1
    <3> QED
      BY <3>2, <3>3
  <2>8. TypeOK'
    BY <1>1, <2>3, <2>6, <2>7 DEF IInv, TypeOK
  <2>9. AssemblyInStep'
    <3>1. AssemblyInStep /\ aPc \in [AJobs -> APcs] /\ aTodo \in [AJobs -> SUBSET Nat]
      BY DEF IInv, TypeOK
    <3>2. \A i \in AJobs \ {j} : aPc'[i] = aPc[i] /\ aTodo'[i] = aTodo[i]
      BY <2>4, <3>1
    <3>3. /\ aPc'[j] \in {"start", "resume"}
          /\ aTodo'[j] = todo \/ aTodo'[j] = aTodo[j]
      BY <2>4, <3>1
    <3>4. /\ aStatus[j] # "ABSENT" /\ aTodo[j] \subseteq DOMAIN aFormats[j]
          /\ aFormats[j] # <<>> /\ aTries[j] < MaxAttempts
      BY <2>3, <3>1 DEF AssemblyInStep
    <3> QED
      BY <2>2, <2>3, <3>1, <3>2, <3>3, <3>4, OneAssemblyMoves
  <2>10. ResultNamed'
    BY <1>1, <2>1, <2>3, <2>4 DEF IInv, TypeOK, ResultNamed
  <2>11. VersionReserved'
    BY <1>1, <2>3, <2>4 DEF IInv, TypeOK, VersionReserved
  <2> QED
    BY <1>1, <2>8, <2>9, <2>10, <2>11 DEF IInv
<1>5. CASE AResume(j)
  <2>1. TypeOK'
    BY <1>1, <1>5 DEF AResume, IInv, TypeOK, JobStatuses, APcs
  <2>2. AssemblyInStep'
    BY <1>1, <1>5 DEF AResume, IInv, TypeOK, AssemblyInStep
  <2>3. ResultNamed' /\ VersionReserved'
    BY <1>1, <1>5 DEF AResume, IInv, TypeOK, ResultNamed, VersionReserved
  <2> QED
    BY <1>1, <2>1, <2>2, <2>3 DEF IInv
<1>6. CASE AStart(j)
  <2> DEFINE there == {v \in Versions : abStatus[v] # "ABSENT"}
  <2>1. \A v \in Versions : v \in there <=> v <= current
    BY DEF IInv, CurrentIsNewest
  <2>2. current \in 0..MaxVersion /\ current < MaxVersion
    BY <1>6 DEF AStart, IInv, TypeOK
  <2>3. Latest(there) = current
    <3>1. CASE current = 0
      BY <2>1, <3>1 DEF Latest, Versions
    <3>2. CASE current # 0
      <4>1. current \in there
        BY <2>1, <2>2, <3>2 DEF Versions
      <4>2. Latest(there) \in there /\ current <= Latest(there)
        BY <4>1, LatestIsGreatest
      <4> QED
        BY <2>1, <2>2, <4>2 DEF Versions
    <3> QED
      BY <3>1, <3>2
  <2>4. aBook' = [aBook EXCEPT ![j] = current + 1] /\ current + 1 \in Versions
    <3>1. aBook' = [aBook EXCEPT ![j] = Latest(there) + 1]
      BY <1>6, Zenon DEF AStart
    <3>2. current + 1 \in Versions
      BY <2>2 DEF Versions
    <3> HIDE DEF there
    <3> QED
      BY <2>3, <3>1, <3>2
  <2>5. TypeOK'
    <3>1. aBook' \in [AJobs -> 0..MaxVersion]
      <4>1. aBook \in [AJobs -> 0..MaxVersion] /\ current + 1 \in 0..MaxVersion
        BY <2>2 DEF IInv, TypeOK
      <4> QED
        BY <2>4, <4>1
    <3>2. aStatus' \in [AJobs -> JobStatuses] /\ aPc' \in [AJobs -> APcs]
      <4>1. aStatus \in [AJobs -> JobStatuses] /\ aPc \in [AJobs -> APcs]
        BY DEF IInv, TypeOK
      <4> QED
        BY <1>6, <4>1 DEF AStart, JobStatuses, APcs
    <3>3. UNCHANGED <<aFormats, aTries, aManifest, aTodo>>
      BY <1>6 DEF AStart
    <3> QED
      BY <1>1, <3>1, <3>2, <3>3 DEF IInv, TypeOK
  <2>6. AssemblyInStep'
    BY <1>1, <1>6 DEF AStart, IInv, TypeOK, AssemblyInStep
  <2>7. ResultNamed'
    BY <1>1, <1>6, <2>4 DEF AStart, IInv, TypeOK, ResultNamed
  <2>8. VersionReserved'
    BY <1>1, <1>6, <2>2, <2>4 DEF AStart, IInv, TypeOK, VersionReserved
  <2> QED
    BY <1>1, <2>5, <2>6, <2>7, <2>8 DEF IInv
<1> QED
  BY <1>2, <1>3, <1>4, <1>5, <1>6

\* The steps that build and record the master keep the inductive invariant.
LEMMA CommitPreserves ==
  ASSUME IInv, NEW j \in AJobs, ABuild(j) \/ ACommit(j) \/ ACommitConflict(j)
  PROVE  IInv'
<1> USE NumbersAssumption DEF bookVars, gateVars, aVars, eVars, faultVars, AGoto
<1>1. /\ UNCHANGED <<manifest, gateVars, rendition, eVars, faultVars>>
      /\ UNCHANGED <<aKey, aFormats, aTries, aManifest, aBook>>
  BY DEF ABuild, ACommit, ACommitConflict
<1>2. CASE ABuild(j)
  <2>1. UNCHANGED <<abStatus, abManifest, abFormats, current>>
    BY <1>2 DEF ABuild
  <2>2. EncodeInStep' /\ AboutToSucceed' /\ SucceededIsEncoded' /\ GateStands' /\ AdvertisedReady'
    BY <1>1, <2>1, EncodesKept
  <2>3. aBook[j] \in Versions
    BY <1>2 DEF ABuild, IInv, VersionReserved
  <2>4. TypeOK'
    BY <1>1, <1>2, <2>1, <2>3 DEF ABuild, IInv, TypeOK, APcs
  <2>5. AssemblyInStep'
    BY <1>1, <1>2 DEF ABuild, IInv, TypeOK, AssemblyInStep
  <2>6. ResultNamed' /\ VersionReserved' /\ CurrentIsNewest'
    BY <1>1, <1>2, <2>1 DEF ABuild, IInv, TypeOK, ResultNamed, VersionReserved, CurrentIsNewest
  <2> QED
    BY <2>2, <2>4, <2>5, <2>6 DEF IInv
<1>3. CASE ACommit(j)
  <2> DEFINE v == aBook[j]
  <2>1. v \in Versions /\ v <= current + 1 /\ abStatus[v] = "ABSENT"
    BY <1>3 DEF ACommit, IInv, VersionReserved
  <2>2. v = current + 1 /\ v \in 0..MaxVersion /\ current \in Nat
    <3>1. current \in 0..MaxVersion /\ (abStatus[v] # "ABSENT" <=> v <= current)
      BY <2>1 DEF IInv, TypeOK, CurrentIsNewest
    <3>2. v \in 1..MaxVersion
      BY <2>1 DEF Versions
    <3> HIDE DEF v
    <3> QED
      BY <2>1, <3>1, <3>2
  <2>3. /\ abStatus' = [abStatus EXCEPT ![v] = "ASSEMBLING"]
        /\ abManifest' = [abManifest EXCEPT ![v] = aManifest[j]]
        /\ abFormats' = [abFormats EXCEPT ![v] = aFormats[j]]
        /\ current' = v /\ master' = master
        /\ aStatus' = [aStatus EXCEPT ![j] = "SUCCEEDED"]
        /\ aTodo' = [aTodo EXCEPT ![j] = DOMAIN aFormats[j]]
        /\ aPc' = [aPc EXCEPT ![j] = "enqueue"]
    BY <1>3 DEF ACommit
  <2> HIDE DEF v
  <2>4. \A w \in Versions : abStatus[w] # "ABSENT" => abStatus'[w] # "ABSENT"
    BY <2>3 DEF IInv, TypeOK
  <2>5. EncodeInStep' /\ AboutToSucceed' /\ SucceededIsEncoded' /\ GateStands' /\ AdvertisedReady'
    BY <1>1, <2>4, EncodesKept
  <2>6. aFormats[j] \in Seq(Formats) /\ aFormats[j] # <<>>
    BY <1>3 DEF ACommit, IInv, TypeOK, AssemblyInStep
  <2>7. DOMAIN aFormats[j] \in SUBSET Nat /\ DOMAIN aFormats[j] # {}
    BY <2>6, FirstPosition
  <2>8. TypeOK'
    BY <1>1, <2>1, <2>2, <2>3, <2>6, <2>7 DEF IInv, TypeOK, APcs, JobStatuses, BookStatuses
  <2>9. AssemblyInStep'
    BY <1>1, <1>3, <2>3, <2>7 DEF ACommit, IInv, TypeOK, AssemblyInStep
  <2>10. ResultNamed'
    <3> SUFFICES ASSUME NEW k \in AJobs, aPc'[k] = "resume" \/ aStatus'[k] = "SUCCEEDED"
                 PROVE  aBook[k] \in Versions /\ abStatus'[aBook[k]] # "ABSENT"
                        /\ abManifest'[aBook[k]] = aManifest[k]
      BY <1>1 DEF ResultNamed
    <3>1. CASE k = j
      BY <2>1, <2>3, <3>1 DEF IInv, TypeOK, v
    <3>2. CASE k # j
      <4>1. aBook[k] \in Versions /\ abStatus[aBook[k]] # "ABSENT" /\ abManifest[aBook[k]] = aManifest[k]
        BY <2>3, <3>2 DEF IInv, TypeOK, ResultNamed
      <4> QED
        BY <2>1, <2>3, <4>1 DEF IInv, TypeOK
    <3> QED
      BY <3>1, <3>2
  <2>11. VersionReserved'
    <3> SUFFICES ASSUME NEW k \in AJobs, aPc'[k] \in {"build", "commit"}
                 PROVE  aBook[k] \in Versions /\ aBook[k] <= v + 1
      BY <1>1, <2>3 DEF VersionReserved
    <3>1. aPc[k] \in {"build", "commit"}
      BY <2>3 DEF IInv, TypeOK
    <3>2. aBook[k] \in Versions /\ aBook[k] <= current + 1
      BY <3>1 DEF IInv, VersionReserved
    <3> QED
      BY <2>2, <3>2 DEF Versions
  <2>12. CurrentIsNewest'
    <3> SUFFICES ASSUME NEW w \in Versions PROVE abStatus'[w] # "ABSENT" <=> w <= v
      BY <2>3 DEF CurrentIsNewest
    <3>1. abStatus[w] # "ABSENT" <=> w <= current
      BY DEF IInv, CurrentIsNewest
    <3>2. abStatus'[w] = IF w = v THEN "ASSEMBLING" ELSE abStatus[w]
      BY <2>3 DEF IInv, TypeOK
    <3>3. w \in Nat
      BY DEF Versions
    <3> QED
      BY <2>2, <3>1, <3>2, <3>3
  <2> QED
    BY <2>5, <2>8, <2>9, <2>10, <2>11, <2>12 DEF IInv
<1>4. CASE ACommitConflict(j)
  <2>1. UNCHANGED <<bookVars, aStatus, aTodo>>
    BY <1>4 DEF ACommitConflict
  <2>2. EncodeInStep' /\ AboutToSucceed' /\ SucceededIsEncoded' /\ GateStands' /\ AdvertisedReady'
    BY <1>1, <2>1, EncodesKept
  <2>3. TypeOK'
    BY <1>1, <1>4, <2>1 DEF ACommitConflict, IInv, TypeOK, APcs
  <2>4. AssemblyInStep'
    BY <1>1, <1>4, <2>1 DEF ACommitConflict, IInv, TypeOK, AssemblyInStep
  <2>5. ResultNamed' /\ VersionReserved' /\ CurrentIsNewest'
    BY <1>1, <1>4, <2>1 DEF ACommitConflict, IInv, TypeOK, ResultNamed, VersionReserved, CurrentIsNewest
  <2> QED
    BY <2>2, <2>3, <2>4, <2>5 DEF IInv
<1> QED
  BY <1>2, <1>3, <1>4

\* A new encode job keeps what is known of encode jobs.
LEMMA CreateEncodeKeeps ==
  ASSUME IInv, NEW e \in Encodes, CreateEncode(e), abStatus[e[1]] # "ABSENT",
         UNCHANGED <<abStatus, rendition, completed>>, faults' = 0 => faults = 0
  PROVE  /\ eStatus' \in [Encodes -> JobStatuses] /\ ePc' \in [Encodes -> EPcs]
         /\ eTries' \in [Encodes -> 0..MaxAttempts] /\ eSeen' = eSeen
         /\ EncodeInStep' /\ AboutToSucceed' /\ SucceededIsEncoded' /\ GateStands' /\ AdvertisedReady'
<1> USE NumbersAssumption DEF CreateEncode
<1>1. eStatus' \in [Encodes -> JobStatuses] /\ ePc' \in [Encodes -> EPcs] /\ eSeen' = eSeen
  BY DEF IInv, TypeOK, JobStatuses, EPcs
<1>2. eTries' \in [Encodes -> 0..MaxAttempts]
  BY DEF IInv, TypeOK
<1>3. EncodeInStep'
  BY DEF IInv, TypeOK, EncodeInStep
<1>4. \A v, f : FullyReady(v, f)' <=> FullyReady(v, f)
  BY DEF FullyReady
<1>5. AboutToSucceed' /\ SucceededIsEncoded'
  BY <1>4 DEF IInv, TypeOK, AboutToSucceed, SucceededIsEncoded
<1>6. GateStands' /\ AdvertisedReady'
  BY <1>4 DEF IInv, TypeOK, GateStands, AdvertisedReady, AllReady
<1> QED
  BY <1>1, <1>2, <1>3, <1>5, <1>6

\* The processor of an assembly throws: the row keeps its outcome and the message its place.
LEMMA NackKeeps ==
  ASSUME IInv, NEW j \in AJobs, aPc[j] \notin {"absent", "done"},
         \/ ANack(j)
         \/ AGoto(j, "fail") /\ UNCHANGED aTries
         \/ AGoto(j, "wait") /\ UNCHANGED aTries,
         aTodo' = [aTodo EXCEPT ![j] = {}] \/ (aPc[j] \notin {"enqueue", "repack"} /\ UNCHANGED aTodo),
         UNCHANGED <<aStatus, aKey, aFormats, aManifest, aBook, bookVars>>
  PROVE  /\ aPc' \in [AJobs -> APcs] /\ aTries' \in [AJobs -> 0..MaxAttempts]
         /\ aTodo' \in [AJobs -> SUBSET Nat]
         /\ AssemblyInStep' /\ ResultNamed' /\ VersionReserved' /\ CurrentIsNewest'
<1> USE NumbersAssumption DEF bookVars, AGoto
<1>1. aTries[j] \in Nat /\ aTries[j] < MaxAttempts
  BY DEF IInv, TypeOK, AssemblyInStep
<1>2. PICK pc \in {"wait", "fail", "done"} :
        /\ aPc' = [aPc EXCEPT ![j] = pc]
        /\ pc # "done" => aTries'[j] < MaxAttempts
  BY <1>1 DEF ANack, IInv, TypeOK
<1>3. aTries' \in [AJobs -> 0..MaxAttempts] /\ \A k \in AJobs \ {j} : aTries'[k] = aTries[k]
  <2>1. aTries' = aTries \/ aTries' = [aTries EXCEPT ![j] = aTries[j] + 1]
    BY DEF ANack
  <2>2. aTries[j] + 1 \in 0..MaxAttempts
    BY <1>1
  <2> QED
    BY <2>1, <2>2 DEF IInv, TypeOK
<1>4. /\ aTodo' \in [AJobs -> SUBSET Nat]
      /\ \A k \in AJobs : aTodo'[k] \subseteq aTodo[k]
      /\ \A k \in AJobs \ {j} : aTodo'[k] = aTodo[k]
  BY DEF IInv, TypeOK
<1>5. aPc' \in [AJobs -> APcs]
  BY <1>2 DEF IInv, TypeOK, APcs
<1>6. AssemblyInStep'
  BY <1>2, <1>3, <1>4 DEF IInv, TypeOK, AssemblyInStep
<1>7. ResultNamed' /\ VersionReserved' /\ CurrentIsNewest'
  BY <1>2 DEF IInv, TypeOK, ResultNamed, VersionReserved, CurrentIsNewest
<1> QED
  BY <1>3, <1>4, <1>5, <1>6, <1>7

\* The next encode job that an assembly asks for is of the audiobook it named.
LEMMA NextEncodeNamed ==
  ASSUME IInv, NEW j \in AJobs, aPc[j] \in {"enqueue", "repack"}
  PROVE  NextEncode(j) \in Encodes /\ abStatus[NextEncode(j)[1]] # "ABSENT"
<1>1. aBook[j] \in Versions /\ abStatus[aBook[j]] # "ABSENT"
  BY DEF IInv, AssemblyInStep, ResultNamed
<1>2. NextTodo(j) \in DOMAIN aFormats[j]
  BY NextTodoIsLeft DEF IInv, TypeOK, AssemblyInStep
<1>3. aFormats[j][NextTodo(j)] \in Formats
  BY <1>2, LenProperties, ElementOfSeq DEF IInv, TypeOK
<1> QED
  BY <1>1, <1>3 DEF NextEncode, Encodes

\* enqueueEncodeJobs keeps the inductive invariant, whatever it meets.
LEMMA EnqueuePreserves ==
  ASSUME IInv, NEW j \in AJobs, AEnqueue(j) \/ AEnqueueConflict(j) \/ AEnqueueFault(j)
  PROVE  IInv'
<1> USE NumbersAssumption DEF bookVars, gateVars, aVars, eVars, faultVars
<1>1. /\ aPc[j] \in {"enqueue", "repack"}
      /\ UNCHANGED <<manifest, bookVars, gateVars, rendition, aStatus, aKey, aFormats, aManifest, aBook>>
      /\ Fault \/ UNCHANGED faultVars
      /\ UNCHANGED eVars \/ EnqueueNext(j)
  BY DEF AEnqueue, AEnqueueConflict, AEnqueueFault, EnqueueNext
<1>2. /\ crashes' \in 0..MaxCrashes /\ faults' \in 0..MaxFaults
      /\ faults' = 0 => faults = 0
  BY <1>1, FaultCounted
<1>3. /\ eStatus' \in [Encodes -> JobStatuses] /\ ePc' \in [Encodes -> EPcs]
      /\ eTries' \in [Encodes -> 0..MaxAttempts] /\ eSeen' = eSeen
      /\ EncodeInStep' /\ AboutToSucceed' /\ SucceededIsEncoded' /\ GateStands' /\ AdvertisedReady'
  <2>1. CASE UNCHANGED eVars
    <3>1. EncodeInStep' /\ AboutToSucceed' /\ SucceededIsEncoded' /\ GateStands' /\ AdvertisedReady'
      BY <1>1, <1>2, <2>1, EncodesKept
    <3> QED
      BY <2>1, <3>1 DEF IInv, TypeOK
  <2>2. CASE EnqueueNext(j)
    <3>1. CreateEncode(NextEncode(j))
      BY <2>2 DEF EnqueueNext
    <3> QED
      BY <1>1, <1>2, <3>1, NextEncodeNamed, CreateEncodeKeeps
  <2> QED
    BY <1>1, <2>1, <2>2
<1>4. /\ aPc' \in [AJobs -> APcs] /\ aTries' \in [AJobs -> 0..MaxAttempts]
      /\ aTodo' \in [AJobs -> SUBSET Nat]
      /\ AssemblyInStep' /\ ResultNamed' /\ VersionReserved' /\ CurrentIsNewest'
  <2>1. CASE AEnqueue(j)
    <3>1. PICK pc \in {"enqueue", "repack", "done"} :
            /\ aPc' = [aPc EXCEPT ![j] = pc]
            /\ pc # "done" => aTodo[j] # {NextTodo(j)}
      BY <1>1, <2>1 DEF AEnqueue, AGoto
    <3>2. aTodo' = [aTodo EXCEPT ![j] = @ \ {NextTodo(j)}] /\ aTries' = aTries
      BY <2>1 DEF AEnqueue
    <3>3. /\ aTodo' \in [AJobs -> SUBSET Nat] /\ aPc' \in [AJobs -> APcs]
          /\ aTries' \in [AJobs -> 0..MaxAttempts]
      BY <3>1, <3>2 DEF IInv, TypeOK, APcs
    <3>4. aTodo[j] # {} /\ aStatus[j] = "SUCCEEDED"
      BY <1>1 DEF IInv, AssemblyInStep
    <3>5. AssemblyInStep'
      <4>1. AssemblyInStep /\ aPc \in [AJobs -> APcs] /\ aTodo \in [AJobs -> SUBSET Nat]
        BY DEF IInv, TypeOK
      <4>2. \A i \in AJobs \ {j} : aPc'[i] = aPc[i] /\ aTodo'[i] = aTodo[i]
        BY <3>1, <3>2, <4>1
      <4>3. aPc'[j] = pc /\ aTodo'[j] = aTodo[j] \ {NextTodo(j)}
        BY <3>1, <3>2, <4>1
      <4>4. /\ aTodo[j] \subseteq DOMAIN aFormats[j]
            /\ aFormats[j] # <<>> /\ aTries[j] < MaxAttempts
        BY <1>1, <4>1 DEF AssemblyInStep
      <4>5. pc # "done" => aTodo[j] \ {NextTodo(j)} # {}
        BY <3>1, <3>4
      <4> QED
        BY <1>1, <3>1, <3>2, <3>4, <4>1, <4>2, <4>3, <4>4, <4>5, OneAssemblyMoves
    <3>6. ResultNamed' /\ VersionReserved' /\ CurrentIsNewest'
      BY <1>1, <3>1 DEF IInv, TypeOK, ResultNamed, VersionReserved, CurrentIsNewest
    <3> QED
      BY <3>3, <3>5, <3>6
  <2>2. CASE AEnqueueConflict(j) \/ AEnqueueFault(j)
    <3>1. EnqueueThrows(j)
      BY <2>2 DEF AEnqueueConflict, AEnqueueFault
    <3>2. /\ aTodo' = [aTodo EXCEPT ![j] = {}]
          /\ \/ ANack(j)
             \/ AGoto(j, "fail") /\ UNCHANGED aTries
             \/ AGoto(j, "wait") /\ UNCHANGED aTries
      BY <3>1, Zenon DEF EnqueueThrows
    <3>3. aPc[j] \notin {"absent", "done"}
      BY <1>1
    <3> QED
      BY <1>1, <3>2, <3>3, NackKeeps, Zenon
  <2> QED
    BY <2>1, <2>2
<1>5. TypeOK'
  BY <1>1, <1>2, <1>3, <1>4 DEF IInv, TypeOK
<1> QED
  BY <1>3, <1>4, <1>5 DEF IInv

\* Failures and deaths of an assembly, and a chapter's new audio, keep the inductive invariant.
LEMMA AssemblyFaultPreserves ==
  ASSUME IInv, Reassemble \/ \E j \in AJobs : AFail(j) \/ AFault(j) \/ ACrash(j)
  PROVE  IInv'
<1> USE NumbersAssumption DEF bookVars, gateVars, aVars, eVars, faultVars
<1>1. /\ UNCHANGED <<bookVars, gateVars, rendition, eVars>>
      /\ Fault \/ Crash \/ UNCHANGED faultVars
  BY DEF Reassemble, AFail, AFault, ACrash
<1>2. /\ crashes' \in 0..MaxCrashes /\ faults' \in 0..MaxFaults
      /\ faults' = 0 => faults = 0
  BY <1>1, FaultCounted
<1>3. EncodeInStep' /\ AboutToSucceed' /\ SucceededIsEncoded' /\ GateStands' /\ AdvertisedReady'
  BY <1>1, <1>2, EncodesKept
<1>4. CASE Reassemble
  <2>1. UNCHANGED aVars /\ manifest' \in 1..MaxManifest
    BY <1>4 DEF Reassemble, IInv, TypeOK
  <2>2. AssemblyInStep' /\ ResultNamed' /\ VersionReserved' /\ CurrentIsNewest'
    BY <1>1, <2>1, AssembliesKept
  <2>3. TypeOK'
    BY <1>1, <1>2, <2>1 DEF IInv, TypeOK
  <2> QED
    BY <1>3, <2>2, <2>3 DEF IInv
<1>5. ASSUME NEW j \in AJobs, AFault(j) \/ ACrash(j) PROVE IInv'
  <2>1. /\ aPc[j] \notin {"absent", "done"}
        /\ UNCHANGED <<manifest, aStatus, aKey, aFormats, aManifest, aBook>>
        /\ \/ ANack(j)
           \/ AGoto(j, "fail") /\ UNCHANGED aTries
           \/ AGoto(j, "wait") /\ UNCHANGED aTries
        /\ aTodo' = [aTodo EXCEPT ![j] = {}] \/ (aPc[j] \notin {"enqueue", "repack"} /\ UNCHANGED aTodo)
    <3>1. CASE AFault(j)
      <4>1. aPc[j] \notin {"absent", "done", "enqueue", "repack"} /\ UNCHANGED aTodo
        BY <3>1 DEF AFault
      <4>2. ANack(j) \/ (AGoto(j, "fail") /\ UNCHANGED aTries)
        BY <3>1, Zenon DEF AFault
      <4> QED
        BY <3>1, <4>1, <4>2 DEF AFault
    <3>2. CASE ACrash(j)
      BY <3>2 DEF ACrash
    <3> QED
      BY <1>5, <3>1, <3>2
  <2>2. /\ aPc' \in [AJobs -> APcs] /\ aTries' \in [AJobs -> 0..MaxAttempts]
        /\ aTodo' \in [AJobs -> SUBSET Nat]
        /\ AssemblyInStep' /\ ResultNamed' /\ VersionReserved' /\ CurrentIsNewest'
    BY <1>1, <2>1, NackKeeps
  <2>3. TypeOK'
    BY <1>1, <1>2, <2>1, <2>2 DEF IInv, TypeOK
  <2> QED
    BY <1>3, <2>2, <2>3 DEF IInv
<1>6. ASSUME NEW j \in AJobs, AFail(j) PROVE IInv'
  <2>1. /\ aPc[j] = "fail" /\ ANack(j)
        /\ UNCHANGED <<manifest, aKey, aFormats, aManifest, aBook, aTodo, faultVars>>
        /\ aStatus' = [aStatus EXCEPT ![j] = IF @ \in {"FAILED", "SUCCEEDED"} THEN @ ELSE "FAILED"]
    BY <1>6 DEF AFail
  <2>2. aTries[j] \in Nat /\ aTries[j] < MaxAttempts /\ aStatus[j] # "ABSENT"
    BY <2>1 DEF IInv, TypeOK, AssemblyInStep
  <2>3. PICK pc \in {"wait", "done"} :
          /\ aPc' = [aPc EXCEPT ![j] = pc]
          /\ pc # "done" => aTries'[j] < MaxAttempts
    <3>1. aTries'[j] = aTries[j] + 1
      BY <2>1 DEF ANack, IInv, TypeOK
    <3>2. CASE aTries[j] + 1 >= MaxAttempts
      BY <2>1, <3>2 DEF ANack, AGoto
    <3>3. CASE ~(aTries[j] + 1 >= MaxAttempts)
      <4>1. aTries'[j] < MaxAttempts
        BY <2>2, <3>1, <3>3
      <4>2. aPc' = [aPc EXCEPT ![j] = "wait"]
        BY <2>1, <3>3 DEF ANack, AGoto
      <4> QED
        BY <4>1, <4>2
    <3> QED
      BY <3>2, <3>3
  <2>4. aTries' \in [AJobs -> 0..MaxAttempts] /\ \A k \in AJobs \ {j} : aTries'[k] = aTries[k]
    <3>1. aTries[j] + 1 \in 0..MaxAttempts
      BY <2>2
    <3> QED
      BY <2>1, <3>1 DEF ANack, IInv, TypeOK
  <2>5. /\ aStatus' \in [AJobs -> JobStatuses]
        /\ aStatus'[j] \in {"FAILED", "SUCCEEDED"}
        /\ aStatus'[j] = "SUCCEEDED" => aStatus[j] = "SUCCEEDED"
        /\ \A k \in AJobs \ {j} : aStatus'[k] = aStatus[k]
    BY <2>1 DEF IInv, TypeOK, JobStatuses
  <2>6. aPc' \in [AJobs -> APcs]
    BY <2>3 DEF IInv, TypeOK, APcs
  <2>7. TypeOK'
    BY <1>1, <1>2, <2>1, <2>4, <2>5, <2>6 DEF IInv, TypeOK
  <2>8. AssemblyInStep'
    BY <2>1, <2>3, <2>4, <2>5 DEF IInv, TypeOK, AssemblyInStep
  <2>9. ResultNamed' /\ VersionReserved' /\ CurrentIsNewest'
    BY <1>1, <2>1, <2>3, <2>5 DEF IInv, TypeOK, ResultNamed, VersionReserved, CurrentIsNewest
  <2> QED
    BY <1>3, <2>7, <2>8, <2>9 DEF IInv
<1> QED
  BY <1>4, <1>5, <1>6

-----------------------------------------------------------------------------
(* processEncodeDeliveryFormatJob *)

\* The types of the encode jobs.
EncodesTyped ==
  /\ eStatus \in [Encodes -> JobStatuses] /\ ePc \in [Encodes -> EPcs]
  /\ eTries \in [Encodes -> 0..MaxAttempts]
  /\ eSeen \in [Encodes -> [book : BookStatuses, formats : SUBSET Formats, inTry : BOOLEAN]]

\* A step of one encode job.
Alone(e) ==
  \A k \in Encodes \ {e} :
    ePc'[k] = ePc[k] /\ eStatus'[k] = eStatus[k] /\ eTries'[k] = eTries[k] /\ eSeen'[k] = eSeen[k]

\* A step of one encode job that leaves renditions and audiobooks keeps the inductive invariant
\* if the place it goes to asks for no more than there is.
LEMMA MovePreserves ==
  ASSUME IInv, NEW e \in Encodes, EncodesTyped', Alone(e), ePc[e] # "absent",
         UNCHANGED <<manifest, bookVars, gateVars, rendition, aVars>>,
         Fault \/ Crash \/ UNCHANGED faultVars,
         ePc'[e] # "done" => eTries'[e] < MaxAttempts,
         ePc'[e] \in {"succeed", "noop"} \/ eStatus'[e] = "SUCCEEDED" => FullyReady(e[1], e[2]),
         faults' = 0 /\ ePc'[e] \in {"start", "encode", "fail", "record"} /\ e[2] \notin PerChapter =>
           rendition[e][Whole] # "READY",
         faults' = 0 /\ ePc'[e] \in {"recheck", "flip"} =>
           \A f \in eSeen'[e].formats : FullyReady(e[1], f)
  PROVE  IInv'
<1> USE DEF bookVars, gateVars, Alone
<1>1. /\ crashes' \in 0..MaxCrashes /\ faults' \in 0..MaxFaults
      /\ faults' = 0 => faults = 0
  BY FaultCounted
<1>2. TypeOK'
  BY <1>1 DEF IInv, TypeOK, EncodesTyped, aVars
<1>3. AssemblyInStep' /\ ResultNamed' /\ VersionReserved' /\ CurrentIsNewest'
  BY AssembliesKept
<1>4. EncodeInStep'
  BY DEF IInv, EncodeInStep
<1>5. \A v, f : FullyReady(v, f)' <=> FullyReady(v, f)
  BY DEF FullyReady
<1>6. AboutToSucceed' /\ SucceededIsEncoded'
  BY <1>5 DEF IInv, AboutToSucceed, SucceededIsEncoded
<1>7. GateStands'
  <2> SUFFICES ASSUME faults' = 0, NEW k \in Encodes
               PROVE  /\ ePc'[k] \in {"start", "encode", "fail", "record"} /\ k[2] \notin PerChapter =>
                           rendition[k][Whole] # "READY"
                      /\ ePc'[k] \in {"recheck", "flip"} =>
                           \A f \in eSeen'[k].formats : FullyReady(k[1], f)
    BY <1>5 DEF GateStands, AllReady
  <2>1. CASE k = e
    BY <2>1
  <2>2. CASE k # e
    BY <1>1, <2>2 DEF IInv, GateStands, AllReady
  <2> QED
    BY <2>1, <2>2
<1>8. AdvertisedReady'
  BY <1>1, <1>5 DEF IInv, AdvertisedReady
<1> QED
  BY <1>2, <1>3, <1>4, <1>6, <1>7, <1>8 DEF IInv

\* What a delivery has when it ends, and when it is given back.
LEMMA LeaveTyped ==
  ASSUME IInv, NEW e \in Encodes, ePc[e] \notin {"absent", "done"},
         \/ \E pc \in {"wait", "done"} : ELeave(e, pc) /\ UNCHANGED eTries
         \/ ENack(e)
  PROVE  /\ ePc' \in [Encodes -> EPcs] /\ eTries' \in [Encodes -> 0..MaxAttempts]
         /\ eSeen' \in [Encodes -> [book : BookStatuses, formats : SUBSET Formats, inTry : BOOLEAN]]
         /\ ePc'[e] \in {"wait", "done"} /\ (ePc'[e] # "done" => eTries'[e] < MaxAttempts)
         /\ \A k \in Encodes \ {e} : ePc'[k] = ePc[k] /\ eTries'[k] = eTries[k] /\ eSeen'[k] = eSeen[k]
<1> USE NumbersAssumption
<1>1. eTries[e] \in Nat /\ eTries[e] < MaxAttempts
  BY DEF IInv, TypeOK, EncodeInStep
<1>2. NothingSeen \in [book : BookStatuses, formats : SUBSET Formats, inTry : BOOLEAN]
  BY DEF NothingSeen, BookStatuses
<1>3. CASE \E pc \in {"wait", "done"} : ELeave(e, pc) /\ UNCHANGED eTries
  BY <1>1, <1>2, <1>3 DEF ELeave, EGoto, IInv, TypeOK, EPcs
<1>4. CASE ENack(e)
  <2>1. PICK pc \in {"wait", "done"} :
          /\ ELeave(e, pc) /\ eTries' = [eTries EXCEPT ![e] = @ + 1]
          /\ pc = "wait" => ~(eTries[e] + 1 >= MaxAttempts)
    BY <1>4 DEF ENack
  <2>2. eTries[e] + 1 \in 0..MaxAttempts /\ (pc = "wait" => eTries[e] + 1 < MaxAttempts)
    BY <1>1, <2>1
  <2>3. /\ eTries' \in [Encodes -> 0..MaxAttempts] /\ eTries'[e] = eTries[e] + 1
        /\ \A k \in Encodes \ {e} : eTries'[k] = eTries[k]
    BY <2>1, <2>2 DEF IInv, TypeOK
  <2> QED
    BY <1>2, <2>1, <2>2, <2>3 DEF ELeave, EGoto, IInv, TypeOK, EPcs
<1> QED
  BY <1>3, <1>4

\* A delivery that ends, with the status it had, keeps the inductive invariant.
LEMMA LeavePreserves ==
  ASSUME IInv, NEW e \in Encodes, ePc[e] \notin {"absent", "done"},
         \/ \E pc \in {"wait", "done"} : ELeave(e, pc) /\ UNCHANGED eTries
         \/ ENack(e),
         UNCHANGED <<eStatus, manifest, bookVars, gateVars, rendition, aVars>>,
         Fault \/ Crash \/ UNCHANGED faultVars
  PROVE  IInv'
<1>1. /\ ePc' \in [Encodes -> EPcs] /\ eTries' \in [Encodes -> 0..MaxAttempts]
      /\ eSeen' \in [Encodes -> [book : BookStatuses, formats : SUBSET Formats, inTry : BOOLEAN]]
      /\ ePc'[e] \in {"wait", "done"} /\ (ePc'[e] # "done" => eTries'[e] < MaxAttempts)
      /\ \A k \in Encodes \ {e} : ePc'[k] = ePc[k] /\ eTries'[k] = eTries[k] /\ eSeen'[k] = eSeen[k]
  BY LeaveTyped
<1>2. EncodesTyped' /\ Alone(e)
  BY <1>1 DEF EncodesTyped, Alone, IInv, TypeOK
<1>3. eStatus'[e] = "SUCCEEDED" => FullyReady(e[1], e[2])
  BY DEF IInv, SucceededIsEncoded
<1> QED
  BY <1>1, <1>2, <1>3, MovePreserves

\* The steps that end a delivery without touching renditions or audiobooks keep the inductive
\* invariant.
LEMMA EndPreserves ==
  ASSUME IInv, NEW e \in Encodes,
         \/ ESkip(e) \/ EPublishSkip(e) \/ EGateHolds(e) \/ ERecheckSkip(e)
         \/ EFail(e) \/ ERecordRefused(e) \/ ECrash(e)
  PROVE  IInv'
<1>1. /\ ePc[e] \notin {"absent", "done"}
      /\ UNCHANGED <<eStatus, manifest, bookVars, gateVars, rendition, aVars>>
      /\ Fault \/ Crash \/ UNCHANGED faultVars
  BY DEF ESkip, EPublishSkip, EGateHolds, ERecheckSkip, EFail, ERecordRefused, ECrash
<1>2. \/ \E pc \in {"wait", "done"} : ELeave(e, pc) /\ UNCHANGED eTries
      \/ ENack(e)
  BY DEF ESkip, EPublishSkip, EGateHolds, ERecheckSkip, EFail, ERecordRefused, ECrash
<1> QED
  BY <1>1, <1>2, LeavePreserves

\* The steps of a delivery that touch neither renditions nor audiobooks keep the inductive
\* invariant.
LEMMA StepPreserves ==
  ASSUME IInv, NEW e \in Encodes,
         \/ ELoad(e) \/ EStart(e) \/ EEncodeFails(e) \/ ESucceed(e)
         \/ EPublish(e) \/ EGatePasses(e) \/ ERecheck(e) \/ EFailFinal(e)
  PROVE  IInv'
<1>1. /\ ePc[e] \notin {"absent", "done"}
      /\ UNCHANGED <<eTries, manifest, bookVars, gateVars, rendition, aVars>>
      /\ UNCHANGED faultVars
  BY DEF ELoad, EStart, EEncodeFails, ESucceed, EPublish, EGatePasses, ERecheck, EFailFinal
<1>2. eTries'[e] < MaxAttempts
  BY <1>1 DEF IInv, EncodeInStep
<1>3. e[1] \in Versions /\ e[2] \in Formats
  BY EncodeParts
<1>4. faults' = faults
  BY <1>1 DEF faultVars
<1>5. CASE ELoad(e)
  <2> DEFINE seen == [book |-> abStatus[e[1]], formats |-> {}, inTry |-> ~FullyReady(e[1], e[2])]
  <2>1. PICK pc \in {"noop", "start"} :
          /\ ePc' = [ePc EXCEPT ![e] = pc]
          /\ pc = "noop" <=> FullyReady(e[1], e[2])
    BY <1>5 DEF ELoad, EGoto
  <2>2. seen \in [book : BookStatuses, formats : SUBSET Formats, inTry : BOOLEAN]
    BY <1>3 DEF IInv, TypeOK
  <2>3. eSeen' = [eSeen EXCEPT ![e] = seen] /\ eStatus' = eStatus /\ eStatus[e] # "SUCCEEDED"
    BY <1>5 DEF ELoad
  <2> HIDE DEF seen
  <2>4. EncodesTyped' /\ Alone(e)
    BY <1>1, <2>1, <2>2, <2>3 DEF IInv, TypeOK, EncodesTyped, Alone, EPcs
  <2>5. ePc'[e] = pc
    BY <2>1 DEF IInv, TypeOK
  <2>6. pc = "start" /\ e[2] \notin PerChapter => rendition[e][Whole] # "READY"
    BY <2>1, EncodeParts DEF FullyReady, UnitsOf
  <2> QED
    BY <1>1, <1>2, <2>1, <2>3, <2>4, <2>5, <2>6, MovePreserves
<1>6. CASE EStart(e) \/ EEncodeFails(e)
  <2>1. PICK pc \in {"encode", "fail"} : ePc' = [ePc EXCEPT ![e] = pc]
    BY <1>6 DEF EStart, EEncodeFails, EGoto
  <2>2. /\ ePc[e] \in {"start", "encode"} /\ eSeen' = eSeen
        /\ eStatus' = [eStatus EXCEPT ![e] = "RUNNING"] \/ eStatus' = eStatus
    BY <1>6 DEF EStart, EEncodeFails
  <2>3. EncodesTyped' /\ Alone(e)
    BY <1>1, <2>1, <2>2 DEF IInv, TypeOK, EncodesTyped, Alone, EPcs, JobStatuses
  <2>4. eStatus'[e] = "SUCCEEDED" => FullyReady(e[1], e[2])
    BY <2>2 DEF IInv, TypeOK, SucceededIsEncoded
  <2>5. ePc'[e] = pc
    BY <2>1 DEF IInv, TypeOK
  <2>6. faults' = 0 /\ e[2] \notin PerChapter => rendition[e][Whole] # "READY"
    BY <1>4, <2>2 DEF IInv, GateStands
  <2> QED
    BY <1>1, <1>2, <2>3, <2>4, <2>5, <2>6, MovePreserves
<1>7. CASE ESucceed(e)
  <2>1. /\ ePc' = [ePc EXCEPT ![e] = "publish"] /\ eSeen' = eSeen
        /\ eStatus' = [eStatus EXCEPT ![e] = "SUCCEEDED"] /\ ePc[e] \in {"succeed", "noop"}
    BY <1>7 DEF ESucceed, EGoto
  <2>2. EncodesTyped' /\ Alone(e)
    BY <1>1, <2>1 DEF IInv, TypeOK, EncodesTyped, Alone, EPcs, JobStatuses
  <2>3. FullyReady(e[1], e[2])
    BY <2>1 DEF IInv, AboutToSucceed
  <2>4. ePc'[e] = "publish"
    BY <2>1 DEF IInv, TypeOK
  <2> QED
    BY <1>1, <1>2, <2>2, <2>3, <2>4, MovePreserves
<1>8. CASE EPublish(e)
  <2>1. /\ ePc' = [ePc EXCEPT ![e] = "gate"] /\ eStatus' = eStatus
        /\ eSeen' = [eSeen EXCEPT ![e].formats = RequestedFormats(e[1])]
    BY <1>8 DEF EPublish, EGoto
  <2> DEFINE seen == [eSeen[e] EXCEPT !.formats = RequestedFormats(e[1])]
  <2>2. seen \in [book : BookStatuses, formats : SUBSET Formats, inTry : BOOLEAN]
    <3>1. RequestedFormats(e[1]) \in SUBSET Formats
      BY DEF RequestedFormats
    <3>2. eSeen[e] \in [book : BookStatuses, formats : SUBSET Formats, inTry : BOOLEAN]
      BY DEF IInv, TypeOK
    <3> QED
      BY <3>1, <3>2
  <2>3. EncodesTyped' /\ Alone(e)
    <3>1. eSeen' = [eSeen EXCEPT ![e] = seen]
      BY <2>1
    <3> HIDE DEF seen
    <3> QED
      BY <1>1, <2>1, <2>2, <3>1 DEF IInv, TypeOK, EncodesTyped, Alone, EPcs
  <2>4. eStatus'[e] = "SUCCEEDED" => FullyReady(e[1], e[2])
    BY <2>1 DEF IInv, SucceededIsEncoded
  <2>5. ePc'[e] = "gate"
    BY <2>1 DEF IInv, TypeOK
  <2> QED
    BY <1>1, <1>2, <2>3, <2>4, <2>5, MovePreserves
<1>9. CASE EGatePasses(e) \/ ERecheck(e)
  <2>1. PICK pc \in {"recheck", "flip"} : ePc' = [ePc EXCEPT ![e] = pc]
    BY <1>9 DEF EGatePasses, ERecheck, EGoto
  <2>2. UNCHANGED <<eStatus, eSeen>> /\ (AllReady(e) \/ ePc[e] = "recheck")
    BY <1>9 DEF EGatePasses, ERecheck
  <2>3. EncodesTyped' /\ Alone(e)
    BY <1>1, <2>1, <2>2 DEF IInv, TypeOK, EncodesTyped, Alone, EPcs
  <2>4. eStatus'[e] = "SUCCEEDED" => FullyReady(e[1], e[2])
    BY <2>2 DEF IInv, SucceededIsEncoded
  <2>5. ePc'[e] = pc
    BY <2>1 DEF IInv, TypeOK
  <2>6. faults' = 0 => \A f \in eSeen'[e].formats : FullyReady(e[1], f)
    BY <1>4, <2>2 DEF IInv, GateStands, AllReady
  <2> QED
    BY <1>1, <1>2, <2>3, <2>4, <2>5, <2>6, MovePreserves
<1>10. CASE EFailFinal(e)
  <2>1. /\ ePc' = [ePc EXCEPT ![e] = "record"] /\ eStatus' = eStatus /\ ePc[e] = "fail"
        /\ eSeen' = [eSeen EXCEPT ![e].book = abStatus[e[1]]]
    BY <1>10 DEF EFailFinal, EGoto
  <2> DEFINE seen == [eSeen[e] EXCEPT !.book = abStatus[e[1]]]
  <2>2. seen \in [book : BookStatuses, formats : SUBSET Formats, inTry : BOOLEAN]
    <3>1. abStatus[e[1]] \in BookStatuses
      BY <1>3 DEF IInv, TypeOK
    <3>2. eSeen[e] \in [book : BookStatuses, formats : SUBSET Formats, inTry : BOOLEAN]
      BY DEF IInv, TypeOK
    <3> QED
      BY <3>1, <3>2
  <2>3. EncodesTyped' /\ Alone(e)
    <3>1. eSeen' = [eSeen EXCEPT ![e] = seen]
      BY <2>1
    <3> HIDE DEF seen
    <3> QED
      BY <1>1, <2>1, <2>2, <3>1 DEF IInv, TypeOK, EncodesTyped, Alone, EPcs
  <2>4. eStatus'[e] = "SUCCEEDED" => FullyReady(e[1], e[2])
    BY <2>1 DEF IInv, SucceededIsEncoded
  <2>5. ePc'[e] = "record"
    BY <2>1 DEF IInv, TypeOK
  <2>6. faults' = 0 /\ e[2] \notin PerChapter => rendition[e][Whole] # "READY"
    BY <1>4, <2>1 DEF IInv, GateStands
  <2> QED
    BY <1>1, <1>2, <2>3, <2>4, <2>5, <2>6, MovePreserves
<1> QED
  BY <1>5, <1>6, <1>7, <1>8, <1>9, <1>10

\* A failing query of an encode job keeps the inductive invariant.
LEMMA EncodeFaultPreserves ==
  ASSUME IInv, NEW e \in Encodes, EFault(e)
  PROVE  IInv'
<1>1. /\ ePc[e] \notin {"absent", "done"} /\ Fault
      /\ UNCHANGED <<eStatus, manifest, bookVars, gateVars, rendition, aVars>>
  BY DEF EFault
<1>2. ENack(e) \/ (EGoto(e, "fail") /\ UNCHANGED <<eTries, eSeen>>)
  BY Zenon DEF EFault
<1>3. CASE ENack(e)
  BY <1>1, <1>3, LeavePreserves
<1>4. CASE EGoto(e, "fail") /\ UNCHANGED <<eTries, eSeen>>
  <2>1. EncodesTyped' /\ Alone(e)
    BY <1>1, <1>4 DEF EGoto, IInv, TypeOK, EncodesTyped, Alone, EPcs
  <2>2. ePc'[e] = "fail" /\ eTries'[e] < MaxAttempts
    BY <1>1, <1>4 DEF EGoto, IInv, TypeOK, EncodeInStep
  <2>3. faults' # 0
    BY <1>1 DEF Fault, IInv, TypeOK
  <2>4. eStatus'[e] = "SUCCEEDED" => FullyReady(e[1], e[2])
    BY <1>1 DEF IInv, SucceededIsEncoded
  <2> QED
    BY <1>1, <2>1, <2>2, <2>3, <2>4, MovePreserves
<1> QED
  BY <1>2, <1>3, <1>4

\* A new READY rendition leaves every format that was complete complete, and keeps the
\* inductive invariant.
LEMMA EncodingPreserves ==
  ASSUME IInv, NEW e \in Encodes, EEncodeWhole(e) \/ EEncodeChapter(e)
  PROVE  IInv'
<1> USE DEF bookVars, gateVars, Alone
<1>1. /\ ePc[e] = "encode"
      /\ UNCHANGED <<eStatus, eTries, eSeen, manifest, bookVars, gateVars, aVars, faultVars>>
  BY DEF EEncodeWhole, EEncodeChapter
<1>2. PICK u \in Units :
        /\ rendition' = [rendition EXCEPT ![e][u] = "READY"]
        /\ u = Whole <=> e[2] \notin PerChapter
        /\ \/ ePc' = [ePc EXCEPT ![e] = "encode"] /\ e[2] \in PerChapter
           \/ /\ ePc' = [ePc EXCEPT ![e] = "succeed"]
              /\ \A x \in UnitsOf(e[2]) \ {u} : rendition[e][x] = "READY"
  BY FormatsAssumption DEF EEncodeWhole, EEncodeChapter, EGoto, Units, UnitsOf
<1>3. e[1] \in Versions /\ e[2] \in Formats /\ e = <<e[1], e[2]>>
  BY EncodeParts
<1> DEFINE row == [rendition[e] EXCEPT ![u] = "READY"]
<1>4. row \in [Units -> RenditionStatuses]
  BY DEF IInv, TypeOK, RenditionStatuses
<1>5. /\ \A k \in Encodes \ {e} : rendition'[k] = rendition[k]
      /\ rendition' \in [Encodes -> [Units -> RenditionStatuses]]
      /\ rendition'[e] = row
  <2>1. rendition' = [rendition EXCEPT ![e] = row]
    BY <1>2
  <2> HIDE DEF row
  <2> QED
    BY <1>4, <2>1 DEF IInv, TypeOK
<1>6. \A x \in Units : rendition'[e][x] = IF x = u THEN "READY" ELSE rendition[e][x]
  BY <1>5 DEF IInv, TypeOK
<1> HIDE DEF row
<1>7. \A k \in Encodes, x \in Units : rendition[k][x] = "READY" => rendition'[k][x] = "READY"
  BY <1>5, <1>6
<1>8. \A v \in Versions, f \in Formats : FullyReady(v, f) => FullyReady(v, f)'
  BY <1>7 DEF FullyReady, UnitsOf, Units, Encodes
<1>9. /\ ePc' \in [Encodes -> EPcs] /\ ePc'[e] \in {"encode", "succeed"}
      /\ \A k \in Encodes \ {e} : ePc'[k] = ePc[k]
      /\ ePc'[e] = "encode" => e[2] \in PerChapter
      /\ ePc'[e] = "succeed" => \A x \in UnitsOf(e[2]) \ {u} : rendition[e][x] = "READY"
  BY <1>2 DEF IInv, TypeOK, EPcs
<1>10. TypeOK'
  BY <1>1, <1>5, <1>9 DEF IInv, TypeOK, aVars, faultVars
<1>11. AssemblyInStep' /\ ResultNamed' /\ VersionReserved' /\ CurrentIsNewest'
  BY <1>1, AssembliesKept
<1>12. EncodeInStep'
  BY <1>1, <1>9 DEF IInv, EncodeInStep
<1>13. ePc'[e] = "succeed" => FullyReady(e[1], e[2])'
  <2> SUFFICES ASSUME ePc'[e] = "succeed", NEW x \in UnitsOf(e[2])
               PROVE  rendition'[e][x] = "READY"
    BY <1>3 DEF FullyReady
  <2>1. x \in Units
    BY DEF UnitsOf, Units
  <2> QED
    BY <1>6, <1>9, <2>1
<1>14. AboutToSucceed' /\ SucceededIsEncoded'
  <2>1. \A k \in Encodes : k[1] \in Versions /\ k[2] \in Formats
    BY EncodeParts
  <2> QED
    BY <1>1, <1>8, <1>9, <1>13, <2>1 DEF IInv, AboutToSucceed, SucceededIsEncoded
<1>15. faults' = faults
  BY <1>1 DEF faultVars
<1>16. GateStands'
  <2> SUFFICES ASSUME faults = 0, NEW k \in Encodes
               PROVE  /\ ePc'[k] \in {"start", "encode", "fail", "record"} /\ k[2] \notin PerChapter =>
                           rendition'[k][Whole] # "READY"
                      /\ ePc'[k] \in {"recheck", "flip"} => AllReady(k)'
    BY <1>15 DEF GateStands
  <2>1. CASE k = e
    BY <1>9, <2>1
  <2>2. CASE k # e
    <3>1. ePc[k] \in {"recheck", "flip"} => AllReady(k)'
      <4> SUFFICES ASSUME ePc[k] \in {"recheck", "flip"}, NEW f \in eSeen[k].formats
                   PROVE  FullyReady(k[1], f)'
        BY <1>1 DEF AllReady
      <4>1. FullyReady(k[1], f)
        BY DEF IInv, GateStands, AllReady
      <4>2. k[1] \in Versions /\ f \in Formats
        BY EncodeParts DEF IInv, TypeOK
      <4> QED
        BY <1>8, <4>1, <4>2
    <3>2. ePc[k] \in {"start", "encode", "fail", "record"} /\ k[2] \notin PerChapter =>
            rendition[k][Whole] # "READY"
      BY DEF IInv, GateStands
    <3>3. ePc'[k] = ePc[k] /\ rendition'[k] = rendition[k]
      BY <1>5, <1>9, <2>2
    <3> QED
      BY <3>1, <3>2, <3>3
  <2> QED
    BY <2>1, <2>2
<1>17. AdvertisedReady'
  <2> SUFFICES ASSUME faults = 0, NEW v \in Versions, NEW formats \in completed[v], NEW f \in formats
               PROVE  FullyReady(v, f)'
    BY <1>1, <1>15 DEF AdvertisedReady
  <2>1. FullyReady(v, f) /\ f \in Formats
    BY DEF IInv, TypeOK, AdvertisedReady
  <2> QED
    BY <1>8, <2>1
<1> QED
  BY <1>10, <1>11, <1>12, <1>14, <1>16, <1>17 DEF IInv

\* The publication of an audiobook keeps the inductive invariant.
LEMMA FlipPreserves ==
  ASSUME IInv, NEW e \in Encodes, EFlip(e)
  PROVE  IInv'
<1> USE DEF bookVars, gateVars
<1>1. /\ ePc[e] = "flip" /\ ELeave(e, "done") /\ UNCHANGED <<eStatus, eTries>>
      /\ UNCHANGED <<manifest, abManifest, abFormats, master, current, rendition, aVars, faultVars>>
      /\ abStatus' = [abStatus EXCEPT ![e[1]] = "READY"]
      /\ pointer' = e[1]
      /\ completed' = [completed EXCEPT ![e[1]] = @ \cup {eSeen[e].formats}]
  BY DEF EFlip
<1>2. e[1] \in Versions /\ e[1] \in 0..MaxVersion
  BY EncodeParts, NumbersAssumption DEF Versions
<1>3. abStatus[e[1]] # "ABSENT"
  BY <1>1 DEF IInv, EncodeInStep
<1>4. /\ abStatus' \in [Versions -> BookStatuses]
      /\ \A v \in Versions : abStatus'[v] = "ABSENT" <=> abStatus[v] = "ABSENT"
  BY <1>1, <1>2, <1>3 DEF IInv, TypeOK, BookStatuses
<1>5. eSeen[e].formats \in SUBSET Formats
  BY DEF IInv, TypeOK
<1>6. completed' \in [Versions -> SUBSET SUBSET Formats]
  BY <1>1, <1>2, <1>5 DEF IInv, TypeOK
<1>7. /\ ePc' \in [Encodes -> EPcs] /\ eTries' \in [Encodes -> 0..MaxAttempts]
      /\ eSeen' \in [Encodes -> [book : BookStatuses, formats : SUBSET Formats, inTry : BOOLEAN]]
      /\ ePc'[e] \in {"wait", "done"} /\ (ePc'[e] # "done" => eTries'[e] < MaxAttempts)
      /\ \A k \in Encodes \ {e} : ePc'[k] = ePc[k] /\ eTries'[k] = eTries[k] /\ eSeen'[k] = eSeen[k]
  BY <1>1, LeaveTyped
<1>8. TypeOK'
  BY <1>1, <1>2, <1>4, <1>6, <1>7 DEF IInv, TypeOK, aVars, faultVars
<1>9. AssemblyInStep' /\ ResultNamed' /\ VersionReserved' /\ CurrentIsNewest'
  BY <1>1, <1>4, AssembliesKept
<1>10. EncodeInStep'
  <2>1. \A k \in Encodes : k[1] \in Versions
    BY EncodeParts
  <2> QED
    BY <1>1, <1>4, <1>7, <2>1 DEF IInv, EncodeInStep
<1>11. \A v, f : FullyReady(v, f)' <=> FullyReady(v, f)
  BY <1>1 DEF FullyReady
<1>12. AboutToSucceed' /\ SucceededIsEncoded'
  BY <1>1, <1>7, <1>11 DEF IInv, AboutToSucceed, SucceededIsEncoded
<1>13. faults' = faults
  BY <1>1 DEF faultVars
<1>14. GateStands'
  <2> SUFFICES ASSUME faults = 0, NEW k \in Encodes, k # e
               PROVE  /\ ePc[k] \in {"start", "encode", "fail", "record"} /\ k[2] \notin PerChapter =>
                           rendition[k][Whole] # "READY"
                      /\ ePc[k] \in {"recheck", "flip"} =>
                           \A f \in eSeen[k].formats : FullyReady(k[1], f)
    BY <1>1, <1>7, <1>11, <1>13 DEF GateStands, AllReady
  <2> QED
    BY DEF IInv, GateStands, AllReady
<1>15. AdvertisedReady'
  <2> SUFFICES ASSUME faults = 0, NEW v \in Versions, NEW formats \in completed'[v], NEW f \in formats
               PROVE  FullyReady(v, f)
    BY <1>11, <1>13 DEF AdvertisedReady
  <2>1. formats \in completed[v] \/ (v = e[1] /\ formats = eSeen[e].formats)
    BY <1>1 DEF IInv, TypeOK
  <2> QED
    BY <1>1, <2>1 DEF IInv, GateStands, AllReady, AdvertisedReady
<1> QED
  BY <1>8, <1>9, <1>10, <1>12, <1>14, <1>15 DEF IInv

\* The recorded failure of a single-file format keeps the inductive invariant.
LEMMA RecordPreserves ==
  ASSUME IInv, NEW e \in Encodes, ERecord(e)
  PROVE  IInv'
<1> USE DEF bookVars, gateVars
<1>1. /\ ePc[e] = "record" /\ e[2] \notin PerChapter /\ ENack(e)
      /\ UNCHANGED <<manifest, abManifest, abFormats, master, current, gateVars, aVars, faultVars>>
      /\ eStatus' = [eStatus EXCEPT ![e] = "FAILED"]
      /\ rendition' = [rendition EXCEPT ![e][Whole] = "FAILED"]
      /\ abStatus' = abStatus \/ abStatus' = [abStatus EXCEPT ![e[1]] = "FAILED"]
  BY DEF ERecord
<1>2. e[1] \in Versions /\ e[2] \in Formats /\ e = <<e[1], e[2]>>
  BY EncodeParts
<1>3. abStatus[e[1]] # "ABSENT"
  BY <1>1 DEF IInv, EncodeInStep
<1>4. /\ abStatus' \in [Versions -> BookStatuses]
      /\ \A v \in Versions : abStatus'[v] = "ABSENT" <=> abStatus[v] = "ABSENT"
  BY <1>1, <1>2, <1>3 DEF IInv, TypeOK, BookStatuses
<1> DEFINE row == [rendition[e] EXCEPT ![Whole] = "FAILED"]
<1>5. row \in [Units -> RenditionStatuses]
  BY DEF IInv, TypeOK, RenditionStatuses, Units
<1>6. /\ \A k \in Encodes \ {e} : rendition'[k] = rendition[k]
      /\ rendition' \in [Encodes -> [Units -> RenditionStatuses]]
  <2>1. rendition' = [rendition EXCEPT ![e] = row]
    BY <1>1
  <2> HIDE DEF row
  <2> QED
    BY <1>5, <2>1 DEF IInv, TypeOK
<1> HIDE DEF row
<1>7. /\ ePc' \in [Encodes -> EPcs] /\ eTries' \in [Encodes -> 0..MaxAttempts]
      /\ eSeen' \in [Encodes -> [book : BookStatuses, formats : SUBSET Formats, inTry : BOOLEAN]]
      /\ ePc'[e] \in {"wait", "done"} /\ (ePc'[e] # "done" => eTries'[e] < MaxAttempts)
      /\ \A k \in Encodes \ {e} : ePc'[k] = ePc[k] /\ eTries'[k] = eTries[k] /\ eSeen'[k] = eSeen[k]
  BY <1>1, LeaveTyped
<1>8. /\ eStatus' \in [Encodes -> JobStatuses] /\ eStatus'[e] = "FAILED"
      /\ \A k \in Encodes \ {e} : eStatus'[k] = eStatus[k]
  BY <1>1 DEF IInv, TypeOK, JobStatuses
<1>9. TypeOK'
  BY <1>1, <1>4, <1>6, <1>7, <1>8 DEF IInv, TypeOK, aVars, faultVars
<1>10. AssemblyInStep' /\ ResultNamed' /\ VersionReserved' /\ CurrentIsNewest'
  BY <1>1, <1>4, AssembliesKept
<1>11. \A k \in Encodes : k[1] \in Versions /\ k[2] \in Formats /\ k = <<k[1], k[2]>>
  BY EncodeParts
<1>12. EncodeInStep'
  BY <1>1, <1>4, <1>7, <1>11 DEF IInv, EncodeInStep
<1>13. \A v \in Versions, f \in Formats : <<v, f>> # e => (FullyReady(v, f)' <=> FullyReady(v, f))
  BY <1>6 DEF FullyReady, Encodes
<1>14. AboutToSucceed' /\ SucceededIsEncoded'
  <2> SUFFICES ASSUME NEW k \in Encodes, k # e
               PROVE  /\ ePc'[k] \in {"succeed", "noop"} => FullyReady(k[1], k[2])'
                      /\ eStatus'[k] = "SUCCEEDED" => FullyReady(k[1], k[2])'
    BY <1>7, <1>8 DEF AboutToSucceed, SucceededIsEncoded
  <2> QED
    BY <1>7, <1>8, <1>11, <1>13 DEF IInv, AboutToSucceed, SucceededIsEncoded
<1>15. faults' = faults /\ completed' = completed
  BY <1>1 DEF faultVars
<1>16. faults = 0 => ~FullyReady(e[1], e[2])
  BY <1>1, <1>2 DEF IInv, GateStands, FullyReady, UnitsOf
<1>17. ASSUME faults = 0, NEW v \in Versions, NEW f \in Formats, FullyReady(v, f)
       PROVE  FullyReady(v, f)'
  <2>1. <<v, f>> # e
    BY <1>2, <1>16, <1>17
  <2> QED
    BY <1>13, <1>17, <2>1
<1>18. GateStands'
  <2> SUFFICES ASSUME faults = 0, NEW k \in Encodes, k # e
               PROVE  /\ ePc[k] \in {"start", "encode", "fail", "record"} /\ k[2] \notin PerChapter =>
                           rendition[k][Whole] # "READY"
                      /\ ePc[k] \in {"recheck", "flip"} =>
                           \A f \in eSeen[k].formats : FullyReady(k[1], f)'
    BY <1>6, <1>7, <1>15 DEF GateStands, AllReady
  <2>1. eSeen[k].formats \in SUBSET Formats
    BY DEF IInv, TypeOK
  <2>2. /\ ePc[k] \in {"start", "encode", "fail", "record"} /\ k[2] \notin PerChapter =>
             rendition[k][Whole] # "READY"
        /\ ePc[k] \in {"recheck", "flip"} => \A f \in eSeen[k].formats : FullyReady(k[1], f)
    BY DEF IInv, GateStands, AllReady
  <2> QED
    BY <1>11, <1>17, <2>1, <2>2
<1>19. AdvertisedReady'
  <2> SUFFICES ASSUME faults = 0, NEW v \in Versions, NEW formats \in completed[v], NEW f \in formats
               PROVE  FullyReady(v, f)'
    BY <1>15 DEF AdvertisedReady
  <2>1. FullyReady(v, f) /\ f \in Formats
    BY DEF IInv, TypeOK, AdvertisedReady
  <2> QED
    BY <1>17, <2>1
<1> QED
  BY <1>9, <1>10, <1>12, <1>14, <1>18, <1>19 DEF IInv

-----------------------------------------------------------------------------
(* The invariant of the specification *)

\* Every initial state satisfies the inductive invariant.
LEMMA InitSatisfies == Init => IInv
<1> SUFFICES ASSUME Init PROVE IInv
  OBVIOUS
<1> USE NumbersAssumption DEF Init
<1>1. <<>> \in Seq(Formats)
  BY EmptySeq
<1>2. NothingSeen \in [book : BookStatuses, formats : SUBSET Formats, inTry : BOOLEAN]
  BY DEF NothingSeen, BookStatuses
<1>3. TypeOK
  BY <1>1, <1>2 DEF TypeOK, BookStatuses, RenditionStatuses, JobStatuses, APcs, EPcs
<1>4. AssemblyInStep /\ ResultNamed /\ VersionReserved
  BY DEF AssemblyInStep, ResultNamed, VersionReserved
<1>5. EncodeInStep /\ AboutToSucceed /\ SucceededIsEncoded
  BY DEF EncodeInStep, AboutToSucceed, SucceededIsEncoded
<1>6. CurrentIsNewest
  BY DEF CurrentIsNewest, Versions
<1>7. GateStands /\ AdvertisedReady
  BY DEF GateStands, AdvertisedReady
<1> QED
  BY <1>3, <1>4, <1>5, <1>6, <1>7 DEF IInv

\* Every step, and every stuttering step, keeps the inductive invariant.
LEMMA NextPreserves == IInv /\ [Next]_vars => IInv'
<1> SUFFICES ASSUME IInv, [Next]_vars PROVE IInv'
  OBVIOUS
<1>1. CASE Next
  <2>1. CASE Reassemble
    BY <2>1, AssemblyFaultPreserves
  <2>2. CASE \E j \in AJobs, formats \in Requests : RequestByApi(j, formats) \/ RequestByFanIn(j, formats)
    BY <2>2, LookupPreserves
  <2>3. ASSUME NEW j \in AJobs,
               AssembleStep(j) \/ ANotReady(j) \/ AFault(j) \/ AEnqueueFault(j) \/ ACrash(j)
        PROVE  IInv'
    BY <2>3, LookupPreserves, CommitPreserves, EnqueuePreserves, AssemblyFaultPreserves DEF AssembleStep
  <2>4. ASSUME NEW e \in Encodes, EncodeStep(e) \/ EEncodeFails(e) \/ EFault(e) \/ ECrash(e)
        PROVE  IInv'
    BY <2>4, EndPreserves, StepPreserves, EncodeFaultPreserves, EncodingPreserves, FlipPreserves,
       RecordPreserves DEF EncodeStep
  <2> QED
    BY <1>1, <2>1, <2>2, <2>3, <2>4 DEF Next
<1>2. CASE UNCHANGED vars
  <2> USE <1>2 DEF vars, bookVars, gateVars, aVars, eVars, faultVars
  <2>1. AssemblyInStep' /\ ResultNamed' /\ VersionReserved' /\ CurrentIsNewest'
    BY AssembliesKept
  <2>2. EncodeInStep' /\ AboutToSucceed' /\ SucceededIsEncoded' /\ GateStands' /\ AdvertisedReady'
    BY EncodesKept
  <2>3. TypeOK'
    BY DEF IInv, TypeOK
  <2> QED
    BY <2>1, <2>2, <2>3 DEF IInv
<1> QED
  BY <1>1, <1>2

\* IInv holds in every state the program reaches, for every value of the constants.
THEOREM Invariance == Spec => []IInv
  BY InitSatisfies, NextPreserves, PTL DEF Spec

\* The rows, the objects and the deliveries keep their types.
THEOREM TypeCorrect == Spec => []TypeOK
<1>1. IInv => TypeOK
  BY DEF IInv
<1> QED
  BY <1>1, Invariance, PTL

\* However many assembly jobs of a book run at once, the audiobook with is_current is the
\* newest version: the transaction of assembly-audiobook.ts never makes an older one current
\* after a newer one, although it read the version before it began.
THEOREM CurrentVersionIsNewest == Spec => []CurrentIsNewest
<1>1. IInv => CurrentIsNewest
  BY DEF IInv
<1> QED
  BY <1>1, Invariance, PTL

\* The audiobook that a SUCCEEDED assembly job names exists and is of the chapter audio that
\* the job hashed.
THEOREM ResultsMatchTheirManifest == Spec => []ResultOfManifest
<1>1. IInv => ResultOfManifest
  BY DEF IInv, ResultNamed, ResultOfManifest, Versions
<1> QED
  BY <1>1, Invariance, PTL

\* An encode job that SUCCEEDED has READY renditions of its whole format, after any number of
\* attempts, deaths and failing queries.
THEOREM SucceededJobsAreEncoded == Spec => []SucceededIsEncoded
<1>1. IInv => SucceededIsEncoded
  BY DEF IInv
<1> QED
  BY <1>1, Invariance, PTL

\* While no query fails, what audiobook.completed lists as available is and stays READY.
THEOREM AdvertisedFormatsAreReady == Spec => []AdvertisedReady
<1>1. IInv => AdvertisedReady
  BY DEF IInv
<1> QED
  BY <1>1, Invariance, PTL

\* No step of any process changes the outcome of an assembly once it is recorded.
LEMMA OutcomeKept ==
  ASSUME IInv, [Next]_vars, NEW j \in AJobs, aStatus[j] \in {"SUCCEEDED", "FAILED"}
  PROVE  aStatus'[j] = aStatus[j]
<1>1. ASSUME NEW k \in AJobs, NEW s, aStatus' = [aStatus EXCEPT ![k] = s],
             k = j => s = aStatus[j]
      PROVE  aStatus'[j] = aStatus[j]
  BY <1>1 DEF IInv, TypeOK
<1>2. CASE UNCHANGED vars
  BY <1>2 DEF vars, aVars
<1>3. CASE Reassemble
  BY <1>3 DEF Reassemble, aVars
<1>4. ASSUME NEW k \in AJobs, NEW formats \in Requests, RequestByApi(k, formats) \/ RequestByFanIn(k, formats)
      PROVE  aStatus'[j] = aStatus[j]
  <2>1. aStatus[k] = "ABSENT" /\ aStatus' = [aStatus EXCEPT ![k] = "CREATED"]
    BY <1>4 DEF RequestByApi, RequestByFanIn, CreateAssemble
  <2> QED
    BY <1>1, <2>1
<1>5. ASSUME NEW k \in AJobs,
             AssembleStep(k) \/ ANotReady(k) \/ AFault(k) \/ AEnqueueFault(k) \/ ACrash(k)
      PROVE  aStatus'[j] = aStatus[j]
  <2>1. CASE ANotReady(k) \/ AResume(k) \/ AStart(k) \/ ACommit(k)
    <3>1. aStatus[k] \notin {"SUCCEEDED", "FAILED"}
      BY <2>1 DEF ANotReady, AResume, AStart, ACommit, IInv, AssemblyInStep
    <3>2. \E s : aStatus' = [aStatus EXCEPT ![k] = s]
      BY <2>1 DEF ANotReady, AResume, AStart, ACommit
    <3> QED
      BY <1>1, <3>1, <3>2
  <2>2. CASE AFail(k)
    <3>1. aStatus' = [aStatus EXCEPT ![k] = IF @ \in {"FAILED", "SUCCEEDED"} THEN @ ELSE "FAILED"]
      BY <2>2 DEF AFail
    <3> QED
      BY <3>1 DEF IInv, TypeOK
  <2>3. CASE \/ ASkip(k) \/ ALoad(k) \/ ABuild(k) \/ ACommitConflict(k) \/ AEnqueue(k)
             \/ AEnqueueConflict(k) \/ AFault(k) \/ AEnqueueFault(k) \/ ACrash(k)
    BY <2>3 DEF ASkip, ALoad, ABuild, ACommitConflict, AEnqueue, AEnqueueConflict, AFault,
       AEnqueueFault, ACrash
  <2> QED
    BY <1>5, <2>1, <2>2, <2>3 DEF AssembleStep
<1>6. ASSUME NEW e \in Encodes, EncodeStep(e) \/ EEncodeFails(e) \/ EFault(e) \/ ECrash(e)
      PROVE  aStatus'[j] = aStatus[j]
  <2>1. UNCHANGED aVars
    BY <1>6 DEF EncodeStep, ESkip, ELoad, EStart, EEncodeWhole, EEncodeChapter, ESucceed, EPublishSkip,
       EPublish, EGatePasses, EGateHolds, ERecheckSkip, ERecheck, EFlip, EFail, EFailFinal, ERecord,
       ERecordRefused, EEncodeFails, EFault, ECrash
  <2> QED
    BY <2>1 DEF aVars
<1> QED
  BY <1>2, <1>3, <1>4, <1>5, <1>6 DEF Next

\* The recorded outcome of an assembly stands: neither a failing enqueue after the commit nor a
\* redelivery changes it.
THEOREM AssemblyOutcomesStand == Spec => AssemblyOutcomeStands
<1>1. IInv /\ [Next]_vars =>
        [\A j \in AJobs : aStatus[j] \in {"SUCCEEDED", "FAILED"} => aStatus'[j] = aStatus[j]]_vars
  BY OutcomeKept
<1> QED
  BY <1>1, Invariance, PTL DEF Spec, AssemblyOutcomeStands
=============================================================================
