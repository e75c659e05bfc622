------------------------------- MODULE Analysis -------------------------------
(***************************************************************************)
(* What the narrative analysis makes of a book, chapter by chapter: the    *)
(* default analyser (semantic/deterministic.py), the characters and scenes *)
(* analyze_scene stores, and the relationships and locations that          *)
(* build_story_bible_delta integrates into the story bible.                *)
(*                                                                         *)
(* A name is a sequence of words.  A paragraph carries what the patterns   *)
(* find in it: its capitalised names, the names speech tags give, the      *)
(* relationship types of its keywords, the nouns after "the", whether it   *)
(* is a scene break, and its pronouns.  Confidence is in hundredths.       *)
(***************************************************************************)
EXTENDS Integers, FiniteSets, SequencesExt, Lists, TLC

CONSTANTS
    Stopwords,      \* words that are no name on their own
    LocationNouns   \* words that end the name of a place

Multi(name) == Len(name) > 1

----------------------------------------------------------------------------
(* Characters *)

\* A speech tag names anybody, a stop word such as "he" included.
Mentions(paragraph) ==
    SelectSeq(paragraph.names, LAMBDA n : Multi(n) \/ n[1] \notin Stopwords)
        \o paragraph.tags

\* The names of a chapter in the order they first occur.
Keys(paragraphs) ==
    FoldLeft(LAMBDA keys, name : IF name \in ToSet(keys) THEN keys ELSE Append(keys, name),
             <<>>, FlattenSeq([i \in DOMAIN paragraphs |-> Mentions(paragraphs[i])]))

Count(paragraphs, key) ==
    FoldLeft(LAMBDA n, p : n + Len(SelectSeq(Mentions(p), LAMBDA m : m = key)), 0, paragraphs)

IsSpeaker(paragraphs, key) == \E p \in ToSet(paragraphs) : key \in ToSet(p.tags)

(* A short form of exactly one longer name is the same person: the long    *)
(* form takes over its evidence, the short form the long one's identity.   *)
LinkShortForms(candidates) ==
    LET longs(short) == {c \in ToSet(candidates) : Multi(c.key) /\ c.key[1] = short.key[1]}
        linked(c) == ~Multi(c.key) /\ Cardinality(longs(c)) = 1
        shorts(long) == {c \in ToSet(candidates) : linked(c) /\ longs(c) = {long}}
        update(c) ==
            IF linked(c) THEN [c EXCEPT !.resolved = (CHOOSE long \in longs(c) : TRUE).resolved]
            ELSE [c EXCEPT !.speaker = @ \/ \E s \in shorts(c) : s.speaker,
                           !.evidence = @ \cup UNION {s.evidence : s \in shorts(c)}]
    IN [i \in DOMAIN candidates |-> update(candidates[i])]

\* A single word seen once is too weak unless somebody is said to speak so.
DetectCharacters(paragraphs, known) ==
    LET kept == SelectSeq(Keys(paragraphs), LAMBDA k :
                    Count(paragraphs, k) >= 2 \/ IsSpeaker(paragraphs, k) \/ Multi(k))
        confidence(k) == 40 + 15 * Count(paragraphs, k)
                            + (IF IsSpeaker(paragraphs, k) THEN 20 ELSE 0)
        candidate(k) ==
            [key |-> k, speaker |-> IsSpeaker(paragraphs, k),
             evidence |-> {p.id : p \in {q \in ToSet(paragraphs) : k \in ToSet(Mentions(q))}},
             confidence |-> IF confidence(k) > 95 THEN 95 ELSE confidence(k),
             resolved |-> IF k \in DOMAIN known THEN known[k] ELSE 0]
    IN LinkShortForms([i \in DOMAIN kept |-> candidate(kept[i])])

----------------------------------------------------------------------------
(* Scenes, relationships, places, point of view *)

\* Runs of paragraphs between scene breaks; breaks alone make one scene.
SceneGroups(paragraphs) ==
    LET prose == {i \in DOMAIN paragraphs : ~paragraphs[i].break}
        starts == {k \in 1..Cardinality(prose) :
                       k = 1 \/ paragraphs[Nth(prose, k) - 1].break}
    IN IF prose = {} /\ paragraphs # <<>> THEN <<paragraphs>>
       ELSE Cut(Pick(paragraphs, prose), starts)

\* The first name of a place, or any noun after "the": the nouns are tried in
\* the order of a set, which differs from process to process.
FirstLocationMention(group) ==
    LET named == SelectSeq(FlattenSeq([i \in DOMAIN group |-> group[i].names]),
                           LAMBDA n : Last(n) \in LocationNouns)
    IN IF named # <<>> THEN {Head(named)}
       ELSE {<<noun>> : noun \in UNION {p.nouns : p \in ToSet(group)} \cap LocationNouns}

DetectScene(group, candidates, order, groups) ==
    LET ids == [i \in DOMAIN group |-> group[i].id]
        present == SelectSeq(candidates, LAMBDA c : c.evidence \cap ToSet(ids) # {})
        speaking == SelectSeq(present, LAMBDA c : c.speaker)
    IN [order_index |-> order - 1, paragraphs |-> ids,
        participants |-> [i \in DOMAIN present |-> present[i].key],
        pov |-> IF speaking # <<>> THEN speaking[1].key
                ELSE IF present # <<>> THEN present[1].key ELSE <<>>,
        location |-> FirstLocationMention(group),
        confidence |-> IF groups > 1 THEN 50 ELSE 40]

DetectScenes(paragraphs, candidates) ==
    LET groups == SceneGroups(paragraphs)
    IN [g \in DOMAIN groups |-> DetectScene(groups[g], candidates, g, Len(groups))]

\* A keyword relates the first two characters of its paragraph; a claim made
\* again in the chapter is passed over with its evidence.
DetectRelationships(paragraphs, candidates) ==
    LET present(p) == SelectSeq(candidates, LAMBDA c : p.id \in c.evidence)
        claim(p, type) ==
            [source |-> present(p)[1].key, target |-> present(p)[2].key, type |-> type,
             evidence |-> {p.id}, confidence |-> 55]
        same(c, d) == c.source = d.source /\ c.target = d.target /\ c.type = d.type
        made == FlattenSeq([i \in DOMAIN paragraphs |->
                    IF Len(present(paragraphs[i])) < 2 THEN <<>>
                    ELSE [k \in DOMAIN paragraphs[i].claims |->
                             claim(paragraphs[i], paragraphs[i].claims[k])]])
        again(n) == \E m \in 1..(n - 1) : same(made[m], made[n])
    IN IF Len(candidates) < 2 THEN <<>>
       ELSE Pick(made, {n \in DOMAIN made : ~again(n)})

DetectLocations(paragraphs, candidates) ==
    LET people == {c.key : c \in ToSet(candidates)}
        places(p) == {n \in ToSet(p.names) : n \notin people /\ Last(n) \in LocationNouns}
    IN {[name |-> n, evidence |-> {p.id : p \in {q \in ToSet(paragraphs) : n \in places(q)}}] :
            n \in UNION {places(p) : p \in ToSet(paragraphs)}}

DetectPov(paragraphs) ==
    LET first == FoldLeft(LAMBDA n, p : n + p.first, 0, paragraphs)
        third == FoldLeft(LAMBDA n, p : n + p.third, 0, paragraphs)
    IN CASE first = 0 /\ third = 0 -> "none"
         [] first > third -> "FIRST"
         [] OTHER -> "THIRD_LIMITED"

----------------------------------------------------------------------------
(* The book: its characters and its story bible *)

EmptyBook == [characters |-> <<>>, relationships |-> {}, locations |-> {}, staged |-> <<>>,
              scenes |-> <<>>]

(* The index of the names: characters are listed with the most lines first *)
(* and a later entry replaces an earlier one of the same name; the order   *)
(* of characters with equally many lines is the database's.                *)
LoadKnownCharacters(characters, newest) ==
    LET called(n) == {i \in DOMAIN characters : characters[i].name = n}
        least(n) == {i \in called(n) : \A j \in called(n) :
                        characters[i].lines <= characters[j].lines}
    IN [n \in {c.name : c \in ToSet(characters)} |->
            IF newest THEN CHOOSE i \in least(n) : \A j \in least(n) : j <= i
            ELSE CHOOSE i \in least(n) : \A j \in least(n) : i <= j]

UpdateCharacterLastAppearance(characters, i) == [characters EXCEPT ![i].lines = @ + 1]

\* The character and its one alias, under the name it was met by.
CreateCharacter(characters, c) ==
    Append(characters, [name |-> c.key, speaking |-> c.speaker, lines |-> 0])

\* A mention that resolves adds a line to its character; any other becomes one.
RegisterCharacters(characters, candidates) ==
    FoldLeft(LAMBDA acc, c :
        IF c.resolved # 0
        THEN [characters |-> UpdateCharacterLastAppearance(acc.characters, c.resolved),
              ids |-> c.key :> c.resolved @@ acc.ids]
        ELSE [characters |-> CreateCharacter(acc.characters, c),
              ids |-> c.key :> (Len(acc.characters) + 1) @@ acc.ids],
        [characters |-> characters, ids |-> <<>>], candidates)

\* The scene's place is detected and not stored.
StoreScene(scene, ids) ==
    [order_index |-> scene.order_index, paragraphs |-> scene.paragraphs,
     participants |-> {ids[key] : key \in ToSet(scene.participants)},
     pov |-> IF scene.pov = <<>> THEN 0 ELSE ids[scene.pov], confidence |-> scene.confidence]

\* Mutation of FindExistingRelationships: only the same direction is looked up.
FindSameDirection(rows, a, b) == {r \in rows : r.source = a /\ r.target = b}

\* Either direction of the pair.
FindExistingRelationships(rows, a, b) ==
    {r \in rows : (r.source = a /\ r.target = b) \/ (r.source = b /\ r.target = a)}

Ceiling == 40

CreateRelationship(rows, claim, confidence, spine) ==
    rows \cup {[source |-> claim.source, target |-> claim.target, type |-> claim.type,
                evidence |-> claim.evidence, confidence |-> confidence, from |-> spine]}

ExtendRelationshipEvidence(row, evidence) == [row EXCEPT !.evidence = @ \cup evidence]

LowerRelationshipConfidence(row, confidence) == [row EXCEPT !.confidence = confidence]

(* A claim met before extends the row's evidence; claims of two types for  *)
(* one pair in one chapter contradict each other and are kept at low       *)
(* confidence.                                                             *)
IntegrateRelationship(rows, claim, contradiction, spine) ==
    LET same == {r \in FindExistingRelationships(rows, claim.source, claim.target) :
                    r.type = claim.type}
        confidence == IF contradiction /\ claim.confidence > Ceiling THEN Ceiling
                      ELSE claim.confidence
        row == CHOOSE r \in same : TRUE
        extended == ExtendRelationshipEvidence(row, claim.evidence)
    IN IF same = {} THEN CreateRelationship(rows, claim, confidence, spine)
       ELSE (rows \ {row}) \cup {IF contradiction
                                 THEN LowerRelationshipConfidence(extended, confidence)
                                 ELSE extended}

SamePair(c, d) == {c.source, c.target} = {d.source, d.target}

Contradicted(claims, c) ==
    \E d \in ToSet(claims) : SamePair(c, d) /\ d.type # c.type

IntegrateRelationships(rows, claims, spine) ==
    LET after[n \in 0..Len(claims)] ==
            IF n = 0 THEN rows
            ELSE IntegrateRelationship(after[n - 1], claims[n], Contradicted(claims, claims[n]), spine)
    IN after[Len(claims)]

FindLocationByName(known, name) == {k \in known : k.name = name}

\* A place that is known keeps its first evidence.
IntegrateLocations(known, locations) ==
    known \cup {l \in locations : FindLocationByName(known, l.name) = {}}

StoreScenes(scenes, ids) == [i \in DOMAIN scenes |-> StoreScene(scenes[i], ids)]

StageClaims(claims, ids) ==
    [i \in DOMAIN claims |-> [claims[i] EXCEPT !.source = ids[@], !.target = ids[@]]]

\* build_story_bible_delta, for what analyze_scene staged of one chapter.
IntegrateChapter(book, characters, scenes, staged, locations, spine) ==
    [characters |-> characters,
     relationships |-> IntegrateRelationships(book.relationships, staged, spine),
     locations |-> IntegrateLocations(book.locations, locations),
     staged |-> Append(book.staged, staged),
     scenes |-> Append(book.scenes, scenes)]

\* analyze_scene: the characters first, then scenes and claims by their ids.
StoreChapter(book, paragraphs, candidates, registered, spine) ==
    IntegrateChapter(book, registered.characters,
        StoreScenes(DetectScenes(paragraphs, candidates), registered.ids),
        StageClaims(DetectRelationships(paragraphs, candidates), registered.ids),
        DetectLocations(paragraphs, candidates), spine)

AnalyzeMentions(book, paragraphs, candidates, spine) ==
    StoreChapter(book, paragraphs, candidates,
                 RegisterCharacters(book.characters, candidates), spine)

AnalyzeChapter(book, paragraphs, spine, newest) ==
    AnalyzeMentions(book, paragraphs,
        DetectCharacters(paragraphs, LoadKnownCharacters(book.characters, newest)), spine)

AnalyzeBook(chapters, newest) ==
    LET after[n \in 0..Len(chapters)] ==
            IF n = 0 THEN EmptyBook ELSE AnalyzeChapter(after[n - 1], chapters[n], n, newest)
    IN after[Len(chapters)]
===============================================================================
