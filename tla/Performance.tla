----------------------------- MODULE Performance -----------------------------
(***************************************************************************)
(* What the director decides about a paragraph and what a voice can do     *)
(* about it: splitting the text into chunks, attributing the speech,       *)
(* choosing the performance from the words, assembling the chunk row with  *)
(* its review flags, validating a chapter, and negotiating the request     *)
(* with the capabilities of the voice's engine.                            *)
(*                                                                         *)
(* For the chunker a text is a sequence of character classes.  For the     *)
(* attribution the text of a chapter is the sequence of the names that     *)
(* occur in it, and for the rest a span says what the patterns find in it. *)
(***************************************************************************)
EXTENDS Integers, FiniteSets, FiniteSetsExt, SequencesExt, TLC

CONSTANTS
    MaxChars,   \* characters a chunk may hold
    AttributionWindow,   \* characters around a quote that are searched for its speaker
    Nobody,     \* no speaker
    Narrator, Unknown   \* the sentinel speakers of a book

ASSUME MaxCharsPositive == MaxChars \in Nat \ {0}
ASSUME WindowAssumption == AttributionWindow \in Nat

----------------------------------------------------------------------------
(* Chunks *)

Openers == {"quote", "open"}
Closers == {"quote", "close"}

Char(text, i) == text[i + 1]   \* positions are counted from zero

Piece(start, end, dialogue) ==
    [start |-> start, end |-> end, dialogue |-> dialogue]

\* Quoted runs and the text between them; an unclosed quote runs to the end.
QuoteSpans(text) ==
    LET narration(acc, end) ==
            IF end > acc.cursor THEN Append(acc.out, Piece(acc.cursor, end, FALSE)) ELSE acc.out
        step(acc, n) ==
            LET i == n - 1 IN
            CASE acc.open = -1 /\ Char(text, i) \in Openers ->
                     [acc EXCEPT !.out = narration(acc, i), !.open = i]
              [] acc.open # -1 /\ Char(text, i) \in Closers ->
                     [out |-> Append(acc.out, Piece(acc.open, n, TRUE)), open |-> -1, cursor |-> n]
              [] OTHER -> acc
        read[n \in 0..Len(text)] ==
            IF n = 0 THEN [out |-> <<>>, open |-> -1, cursor |-> 0] ELSE step(read[n - 1], n)
        end == read[Len(text)]
    IN IF end.open # -1 THEN Append(end.out, Piece(end.open, Len(text), TRUE))
       ELSE narration(end, Len(text))

\* Whether the space after a sentence ends at b, between start and end.
SentenceBoundary(text, start, end, b) ==
    /\ b = end \/ Char(text, b) # "space"
    /\ \E i \in start..(b - 1) :
           /\ i > 0 /\ Char(text, i - 1) = "stop"
           /\ \A k \in i..(b - 1) : Char(text, k) = "space"

HardSplit(start, end, dialogue) ==
    LET pieces == (end - start + MaxChars - 1) \div MaxChars
        cut(k) == start + k * MaxChars
    IN [k \in 1..pieces |->
           Piece(cut(k - 1), IF cut(k) < end THEN cut(k) ELSE end, dialogue)]

\* Mutation of SplitToBudget: a segment over budget is cut off.
SplitTruncates(text, start, end, dialogue) ==
    <<Piece(start, IF end - start > MaxChars THEN start + MaxChars ELSE end, dialogue)>>

(* A segment over budget is cut at its sentences.  A run that reaches the  *)
(* budget waits for the last boundary, the end, and is then cut hard.  A   *)
(* sentence that stops at the end is met twice; the empty piece which that *)
(* makes is filtered out.                                                  *)
SplitToBudget(text, start, end, dialogue) ==
    LET step(acc, b) ==
            CASE b # end /\ (~SentenceBoundary(text, start, end, b) \/ b - acc.start >= MaxChars) -> acc
              [] b = end /\ b - acc.start > MaxChars ->
                     [out |-> acc.out \o HardSplit(acc.start, b, dialogue), start |-> b]
              [] OTHER -> [out |-> Append(acc.out, Piece(acc.start, b, dialogue)), start |-> b]
        split[b \in start..end] ==
            IF b = start THEN [out |-> <<>>, start |-> start] ELSE step(split[b - 1], b)
    IN IF end - start <= MaxChars THEN <<Piece(start, end, dialogue)>> ELSE split[end].out

ChunkParagraph(text) ==
    IF text = <<>> THEN <<Piece(0, 0, FALSE)>>
    ELSE LET spans == QuoteSpans(text)
         IN FlattenSeq([i \in DOMAIN spans |->
                SplitToBudget(text, spans[i].start, spans[i].end, spans[i].dialogue)])

----------------------------------------------------------------------------
(* Speakers *)

(* A known speaker is [id, names].  A name in the text has a form, "after" *)
(* when it is in a tag that follows a closing quote or a comma (said Ann), *)
(* "before" when it is in one that the verb ends (Ann said), else "named". *)
(* The place of a tag is all of it.  Confidence is in hundredths.          *)
Resolved(type, id, confidence) ==
    [type |-> type, id |-> id, confidence |-> confidence]

InWindow(span, name) ==
    /\ name.paragraph = span.paragraph
    /\ name.start >= span.start - AttributionWindow
    /\ name.end <= span.end + AttributionWindow

\* The known speakers, by number, whom the first tag of a form names.
Attributed(span, text, known, form) ==
    LET found == {i \in DOMAIN text : text[i].form = form /\ InWindow(span, text[i])}
    IN {k \in DOMAIN known : found # {} /\ text[Min(found)].name \in known[k].names}

\* Mutation of ResolveSpeaker: the first of several candidates is taken.
ResolveFirst(span, text, known, participants, previous) ==
    IF ~span.dialogue THEN Resolved("NARRATOR", Narrator, 100)
    ELSE IF DOMAIN known = {} THEN Resolved("UNKNOWN", Unknown, 0)
    ELSE Resolved("CHARACTER", known[Min(DOMAIN known)].id, 95)

(* Strategies in order: narration, the first tag in the window, of the one *)
(* form or else of the other and be it another quote's, if it names        *)
(* somebody known, one name in the window, whoever did not speak last, the *)
(* only participant; otherwise nobody is guessed.  When two speakers share *)
(* a name, a tag goes to the one registered last.                          *)
ResolveSpeaker(span, text, known, participants, previous) ==
    LET all == ToSet(known)
        after == Attributed(span, text, known, "after")
        named == IF after # {} THEN after ELSE Attributed(span, text, known, "before")
        present == {s \in all : s.id \in participants}
        scoped == IF present # {} THEN present ELSE all
        near == {name \in ToSet(text) : InWindow(span, name)}
        hits == {s \in scoped : \E name \in near : name.name \in s.names}
        plausible == IF participants # {} THEN scoped ELSE all
        others == {s \in plausible : s.id # previous}
        only(S) == (CHOOSE s \in S : TRUE).id
    IN CASE ~span.dialogue -> Resolved("NARRATOR", Narrator, 100)
         [] span.dialogue /\ named # {} -> Resolved("CHARACTER", known[Max(named)].id, 95)
         [] span.dialogue /\ named = {} /\ Cardinality(hits) = 1 ->
                Resolved("CHARACTER", only(hits), 75)
         [] span.dialogue /\ named = {} /\ Cardinality(hits) # 1 /\ previous # Nobody
                /\ Cardinality(others) = 1 -> Resolved("CHARACTER", only(others), 60)
         [] OTHER -> IF span.dialogue /\ Cardinality(plausible) = 1
                     THEN Resolved("CHARACTER", only(plausible), 55)
                     ELSE Resolved("UNKNOWN", Unknown, 0)

----------------------------------------------------------------------------
(* The performance read from the words *)

\* Cues in order of priority: the first one found decides.
DeliveryCues == <<"WHISPER", "SHOUT", "LAUGHING", "CRYING", "SINGING", "READING_ALOUD">>
EmotionCues ==
    <<"GRIEF", "ANGRY", "FEARFUL", "SURPRISED", "DISGUSTED", "EXCITED", "SAD", "HAPPY",
      "CALM", "TENSE", "ANXIOUS", "SOMBER", "CONFIDENT", "UNCERTAIN", "PLAYFUL", "SERIOUS">>
NonVerbalCues == <<"LAUGH", "SIGH", "GASP", "SOB", "GROAN">>

FirstCue(order, cues, default) ==
    LET found == {i \in DOMAIN order : order[i] \in cues}
    IN IF found = {} THEN default ELSE order[Min(found)]

Clamp(value, lo, hi) == IF value < lo THEN lo ELSE IF value > hi THEN hi ELSE value

DetectDeliveryMode(cues) == FirstCue(DeliveryCues, cues, "NORMAL")

\* Without a cue the mood of the chunk before carries on, fading to 20.
DetectEmotion(cues, previous) ==
    CASE ToSet(EmotionCues) \cap cues # {} ->
             [emotion |-> FirstCue(EmotionCues, cues, "NEUTRAL"), intensity |-> 60, hit |-> TRUE]
      [] ToSet(EmotionCues) \cap cues = {} /\ previous.emotion # "none" ->
             [emotion |-> previous.emotion, hit |-> FALSE,
              intensity |-> Clamp((IF previous.intensity = 0 THEN 30 ELSE previous.intensity) - 5,
                                  20, 100)]
      [] OTHER -> [emotion |-> "NEUTRAL", intensity |-> 20, hit |-> FALSE]

\* In hundredths; a scene's tension moves it by a twentieth either way.
DetectPacing(cues, tension, delivery) ==
    LET fast == delivery = "SHOUT" \/ "fast" \in cues
        slow == delivery \in {"WHISPER", "CRYING"} \/ "slow" \in cues
    IN Clamp(100 + (IF fast THEN 12 ELSE 0) - (IF slow THEN 12 ELSE 0)
                 + (IF tension = -1 THEN 0 ELSE (tension - 50) \div 10), 50, 200)

\* In ten-thousandths.
DetectPitchVolume(delivery, emotion, intensity) ==
    LET loud == emotion \in {"ANGRY", "EXCITED", "SURPRISED"}
        low == emotion \in {"SAD", "GRIEF", "SOMBER", "FEARFUL"}
        voice == CASE delivery = "SHOUT" -> [pitch |-> 1000, volume |-> 4000]
                   [] delivery = "WHISPER" -> [pitch |-> -500, volume |-> -4000]
                   [] OTHER -> [pitch |-> 0, volume |-> 0]
    IN [pitch |-> Clamp(voice.pitch - (IF low THEN 5 * intensity ELSE 0), -10000, 10000),
        volume |-> Clamp(voice.volume + (IF loud THEN 15 * intensity ELSE 0)
                             - (IF low THEN 10 * intensity ELSE 0), -10000, 10000)]

\* A change of speaker is announced, except before the first chunk.
DetectPauses(cues, speaker, previous) ==
    (IF previous.emotion # "none" /\ previous.speaker # speaker THEN {"SPEAKER_TRANSITION"} ELSE {})
        \cup (IF "trails" \in cues THEN {"DRAMATIC"} ELSE {})

DetectEmphasis(cues) == "capitals" \in cues

DetectNonVerbal(cues) == FirstCue(NonVerbalCues, cues, "none")

DecidePerformance(cues, tension, speaker, previous) ==
    LET delivery == DetectDeliveryMode(cues)
        mood == DetectEmotion(cues, previous)
        voice == DetectPitchVolume(delivery, mood.emotion, mood.intensity)
    IN [delivery_mode |-> delivery, emotion |-> mood.emotion, intensity |-> mood.intensity,
        pacing |-> DetectPacing(cues, tension, delivery),
        pitch |-> voice.pitch, volume |-> voice.volume,
        pauses |-> DetectPauses(cues, speaker, previous),
        emphasis |-> DetectEmphasis(cues), non_verbal |-> DetectNonVerbal(cues),
        confidence |-> IF delivery # "NORMAL" \/ mood.hit THEN 90 ELSE 75]

----------------------------------------------------------------------------
(* A chapter's chunks *)

\* Characters merged into another one do not speak; sentinels are kept apart.
\* The others keep their order.
LoadSpeakerRegistry(characters) ==
    [i \in {k \in DOMAIN characters : ~characters[k].merged /\ ~characters[k].sentinel} |->
        [id |-> characters[i].id, names |-> characters[i].names]]

(* A character speaks with its own voice or, like everybody unresolved,    *)
(* with the narrator's; `bindings` holds the castable voices.              *)
ResolveVoiceBinding(speaker, bindings) ==
    IF speaker.type = "CHARACTER" /\ speaker.id \in DOMAIN bindings
    THEN [voice |-> bindings[speaker.id], fallback |-> FALSE]
    ELSE [voice |-> IF Narrator \in DOMAIN bindings THEN bindings[Narrator] ELSE "none",
          fallback |-> speaker.type # "NARRATOR" \/ speaker.id # Narrator]

\* One hint for each lexicon entry that occurs in the text.
MatchPronunciationHints(words, lexicon) == {entry \in lexicon : entry \in words}

LowConfidence == 85

\* The flags that send a chunk to a person, and its composite confidence.
BuildChunk(span, speaker, decision, binding, lexicon, sequence) ==
    [sequence |-> sequence, start |-> span.start, end |-> span.end,
     paragraph |-> span.paragraph, scene |-> span.scene,
     speaker_type |-> speaker.type, character_id |-> speaker.id,
     voice |-> binding.voice, decision |-> decision,
     hints |-> MatchPronunciationHints(span.words, lexicon),
     confidence |-> IF speaker.confidence < decision.confidence
                    THEN speaker.confidence ELSE decision.confidence,
     review_flags |->
         (CASE speaker.type = "UNKNOWN" -> {"UNKNOWN_SPEAKER"}
            [] speaker.type # "UNKNOWN" /\ speaker.confidence < LowConfidence -> {"LOW_CONFIDENCE"}
            [] OTHER -> {})
         \cup (IF binding.voice = "none" THEN {"CAPABILITY_GAP"} ELSE {}),
     fallback_applied |-> binding.voice = "none" \/ binding.fallback]

\* Nothing was said before the run's first chunk.
NoState == [speaker |-> Nobody, emotion |-> "none", intensity |-> 0]

(* One chunk after the other: the speaker and the mood of a chunk are the  *)
(* context of the next, the narrator's included.                           *)
DirectSpan(context, run, span) ==
    LET speaker == ResolveSpeaker(span, context.text, context.known, span.participants,
                                  run.state.speaker)
        decision == DecidePerformance(span.cues, span.tension, speaker.id, run.state)
        chunk == BuildChunk(span, speaker, decision,
                            ResolveVoiceBinding(speaker, context.bindings),
                            context.lexicon, Len(run.chunks))
    IN [chunks |-> Append(run.chunks, chunk),
        state |-> [speaker |-> speaker.id, emotion |-> decision.emotion,
                   intensity |-> decision.intensity]]

DirectChapter(context, spans, state) ==
    LET run[n \in 0..Len(spans)] ==
            IF n = 0 THEN [chunks |-> <<>>, state |-> state]
            ELSE DirectSpan(context, run[n - 1], spans[n])
    IN run[Len(spans)].chunks

\* The chapter summary is never there; scenes without semantics degrade L4.
DegradedLayers(scenesPresent, sceneSemantics) ==
    {"L3"} \cup (IF scenesPresent \subseteq sceneSemantics THEN {} ELSE {"L4"})

----------------------------------------------------------------------------
(* Validation of a run *)

(* The spans of one paragraph in order of their start, then of their end:  *)
(* each must begin exactly where the ones before it have reached.          *)
ValidateCoverage(length, spans) ==
    LET before(i, j) ==
            \/ spans[i].start < spans[j].start
            \/ /\ spans[i].start = spans[j].start
               /\ spans[i].end < spans[j].end \/ (spans[i].end = spans[j].end /\ i < j)
        reached(S) == Max({0} \cup {spans[i].end : i \in S})
    IN /\ \A j \in DOMAIN spans : spans[j].start = reached({i \in DOMAIN spans : before(i, j)})
       /\ reached(DOMAIN spans) >= length

\* At most two chunks in a hundred may be unattributed.
ValidateUnknownSpeakerRate(chunks) ==
    LET unknown == SelectSeq(chunks, LAMBDA c : c.speaker_type = "UNKNOWN")
    IN 100 * Len(unknown) <= 2 * Len(chunks)

\* Within a scene a character keeps one voice.
ValidateVoiceConsistency(chunks) ==
    \A c, d \in ToSet(chunks) :
        (/\ c.scene # "none" /\ c.scene = d.scene /\ c.character_id = d.character_id
         /\ c.voice # "none" /\ d.voice # "none")
            => c.voice = d.voice

----------------------------------------------------------------------------
(* Capability negotiation *)

\* The voice's own declaration may only lower what the engine offers.
EmotionHandling(engine, declared) ==
    CASE declared = "UNSUPPORTED" -> "UNSUPPORTED"
      [] declared # "UNSUPPORTED" /\ ~engine.emotion -> "APPROXIMATED"
      [] declared \in {"NATIVE", "APPROXIMATED"} /\ engine.emotion -> declared
      [] OTHER -> "NATIVE"

Gap(field, handling) == [field |-> field, handling |-> handling]

\* An emotion the voice cannot act is approximated by pace, pitch and level.
NegotiateEmotion(intent, engine, declared) ==
    LET handling == EmotionHandling(engine, declared) IN
    CASE intent.emotion = "NEUTRAL" -> [gaps |-> {}, shaped |-> {}, tags |-> {}]
      [] intent.emotion # "NEUTRAL" /\ handling = "NATIVE" ->
             [gaps |-> {}, shaped |-> {}, tags |-> {intent.emotion}]
      [] OTHER -> [gaps |-> {Gap("emotion", handling)},
                   shaped |-> {"emotion"}, tags |-> {}]

\* No engine has a delivery control: every mode but the normal one is shaped.
NegotiateDelivery(intent) ==
    IF intent.delivery_mode = "NORMAL" THEN {} ELSE {Gap("delivery_mode", "APPROXIMATED")}

\* Mutation of NegotiateControls: a pace the engine cannot take is left out.
ControlsForgetPace(intent, engine) ==
    (IF intent.pitch # 0 /\ ~engine.pitch THEN {Gap("pitch", "UNSUPPORTED")} ELSE {})
        \cup (IF intent.volume # 0 THEN {Gap("volume", "APPROXIMATED")} ELSE {})

\* Pace and pitch need a control of the engine; level is left to mastering.
NegotiateControls(intent, engine) ==
    (IF intent.pacing # 100 /\ ~engine.speed THEN {Gap("pacing", "UNSUPPORTED")} ELSE {})
        \cup (IF intent.pitch # 0 /\ ~engine.pitch THEN {Gap("pitch", "UNSUPPORTED")} ELSE {})
        \cup (IF intent.volume # 0 THEN {Gap("volume", "APPROXIMATED")} ELSE {})

NegotiateMarkup(intent, hints, engine) ==
    (IF hints # {} /\ ~(engine.phonemes \/ engine.ssml)
     THEN {Gap("pronunciation_hints", "UNSUPPORTED")} ELSE {})
        \cup (IF intent.emphasis /\ ~engine.ssml THEN {Gap("emphasis", "UNSUPPORTED")} ELSE {})
        \cup (IF intent.non_verbal # "none" THEN {Gap("non_verbal", "UNSUPPORTED")} ELSE {})

(* Language and length are critical: the request is refused.  Everything   *)
(* else degrades, and each degradation is recorded.                        *)
Negotiate(intent, hints, engine, declared, length) ==
    LET mood == NegotiateEmotion(intent, engine, declared) IN
    CASE ~engine.language -> [error |-> "VOICE_LANGUAGE_MISMATCH"]
      [] engine.language /\ length > MaxChars -> [error |-> "UNSUPPORTED_TTS_CAPABILITY"]
      [] OTHER ->
           [error |-> "none", tags |-> mood.tags,
            gaps |-> mood.gaps \cup NegotiateDelivery(intent) \cup NegotiateControls(intent, engine)
                         \cup NegotiateMarkup(intent, hints, engine),
            speed |-> mood.shaped \cup (IF intent.delivery_mode # "NORMAL" THEN {"delivery_mode"} ELSE {})
                          \cup (IF intent.pacing # 100 /\ engine.speed THEN {"pacing"} ELSE {}),
            pitch |-> mood.shaped \cup (IF intent.delivery_mode # "NORMAL" THEN {"delivery_mode"} ELSE {})
                          \cup (IF intent.pitch # 0 /\ engine.pitch THEN {"pitch"} ELSE {})]
=============================================================================
