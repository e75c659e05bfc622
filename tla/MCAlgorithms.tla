----------------------------- MODULE MCAlgorithms ----------------------------
(***************************************************************************)
(* The pure algorithms (Ingestion, Analysis, Performance, Rendering,       *)
(* ReadModels) on every small input.  The one variable is an input of one  *)
(* of them; a step makes it larger by one element, so that the reachable   *)
(* states are the inputs up to the bounds below, and the invariants        *)
(* compare what the algorithm returns with what it promises.               *)
(***************************************************************************)
EXTENDS Ingestion, Analysis, Performance, Rendering, ReadModels

CONSTANTS
    MaxItems,      \* text items of a PDF
    MaxElements,   \* elements of an EPUB
    MaxSpine,      \* spine items of an EPUB
    MaxChapters,   \* chapters of an analysed book
    MaxProse,      \* paragraphs of an analysed book
    MaxText,       \* characters of a paragraph
    MaxCover,      \* spans shown to the coverage validator
    MaxSpans,      \* spans of a scene
    MaxCues,       \* cues and capabilities of a request
    MaxSamples,    \* samples of an engine's answer
    MaxFrames,     \* frames of a chunk to trim
    MaxJoined,     \* chunks of a book to join
    MaxFacts       \* facts of a snapshot

VARIABLE input

----------------------------------------------------------------------------
(* Files *)

Fragment(w, at) == [w |-> w, at |-> at, glued |-> FALSE]

\* An empty file; each kind has its own of the fields in the last two lines.
File(kind) == [kind |-> kind, small |-> TRUE, opens |-> "ok", sniffed |-> kind,
               declared |-> kind, available |-> TRUE, used |-> 0,
               pages |-> <<>>, frames |-> <<>>, spine |-> <<>>, entries |-> <<>>,
               rootfile |-> TRUE, package |-> TRUE]

\* What a line of a PDF may look like: body text, with a gap before it, a
\* number, headings, a broken word, an empty boundary item, half a line.
ItemShapes ==
    { [w |-> <<"dog">>, font |-> 10, gap |-> 1, eol |-> TRUE],
      [w |-> <<"dog">>, font |-> 10, gap |-> 3, eol |-> TRUE],
      [w |-> <<"12">>, font |-> 10, gap |-> 1, eol |-> TRUE],
      [w |-> <<"chapter">>, font |-> 14, gap |-> 1, eol |-> TRUE],
      [w |-> <<"Tales">>, font |-> 14, gap |-> 1, eol |-> TRUE],
      [w |-> <<"extra-">>, font |-> 10, gap |-> 1, eol |-> TRUE],
      [w |-> <<>>, font |-> 14, gap |-> 1, eol |-> TRUE],
      [w |-> <<"extra-">>, font |-> 10, gap |-> 1, eol |-> FALSE] }

\* A fourth item is one of these.
CommonShapes == {shape \in ItemShapes : shape.font = 10 /\ shape.w # <<"extra-">>}

Blank == [items |-> <<>>, images |-> "none",
          scan |-> [outcome |-> "read", confident |-> TRUE, paragraphs |-> <<>>]]

\* What reading a picture may give.
Scans(at) ==
    { [outcome |-> o, confident |-> TRUE, paragraphs |-> <<>>] :
        o \in {"raster_failed", "ocr_failed", "read"} }
    \cup { [outcome |-> "read", confident |-> c, paragraphs |-> <<<<Fragment("dog", at)>>>>] :
        c \in BOOLEAN }

Items(file) == FoldLeft(LAMBDA n, p : n + Len(p.items), 0, file.pages)

GrowPdf ==
    /\ input.kind = "PDF" /\ input.opens = "ok" /\ input.small /\ input.sniffed = "PDF"
    /\ \/ /\ Len(input.pages) < MaxPages \/ (Len(input.pages) = MaxPages /\ Items(input) <= 1)
          /\ input' = [input EXCEPT !.pages = Append(@, Blank)]
       \/ /\ Len(input.pages) < 2 /\ Items(input) <= 1
          /\ \E scan \in Scans(input.used + 1) :
                 input' = [input EXCEPT !.used = @ + 1,
                     !.pages = Append(@, [Blank EXCEPT !.images = "painted", !.scan = scan])]
       \/ /\ Len(input.pages) \in 1..MaxPages
          /\ Items(input) < IF ~input.available \/ \E p \in ToSet(input.pages) : p.images # "none"
                           THEN 2 ELSE MaxItems
          /\ Last(input.pages).images = "none"
          /\ \E shape \in IF Items(input) < 3 THEN ItemShapes ELSE CommonShapes :
                 LET n == Len(input.pages)
                     last == input.pages[n].items
                     y == IF last = <<>> THEN 0 ELSE Last(last).y
                     item == [text |-> [i \in DOMAIN shape.w |-> Fragment(shape.w[i], input.used + 1)],
                              font |-> shape.font, y |-> y + shape.gap, eol |-> shape.eol]
                 IN input' = [input EXCEPT !.used = @ + 1, !.pages[n].items = Append(@, item)]
       \/ /\ input = File("PDF")
          /\ \/ \E o \in {"late", "corrupt"} : input' = [input EXCEPT !.opens = o]
             \/ input' = [input EXCEPT !.available = FALSE]
             \/ input' = [input EXCEPT !.small = FALSE]
             \/ \E f \in {"empty", "zip", "text"} : input' = [input EXCEPT !.sniffed = f]

OpenTag(tag) == [type |-> "open", tag |-> tag]
CloseTag(tag) == [type |-> "close", tag |-> tag]
Words(w, at) == [type |-> "text", text |-> <<Fragment(w, at)>>]

\* Elements of a spine document, with three fresh places for their text.
Elements(at) ==
    { <<OpenTag(tag), Words(w, at), CloseTag(tag)>> :
          tag \in {"p", "h1", "h2", "li"}, w \in {"dog", "12"} }
    \cup { <<OpenTag("p"), Words("extra-", at), CloseTag("p")>>,
           <<OpenTag("blockquote"), Words("dog", at), OpenTag("p"), Words("dog", at + 1), CloseTag("p"),
             Words("dog", at + 2), CloseTag("blockquote")>>,
           <<OpenTag("p"), Words("dog", at), OpenTag("script"), Words("dog", at + 1), CloseTag("script"),
             Words("dog", at + 2), CloseTag("p")>>,
           <<OpenTag("p"), CloseTag("p")>> }

SpineItem(listed, inside, present, size) ==
    [listed |-> listed, inside |-> inside, events |-> <<>>,
     entry |-> [present |-> present, size |-> size]]

GrowEpub ==
    /\ input.kind = "EPUB"
    /\ \/ /\ Len(input.spine) < MaxSpine /\ input.entries = <<>>
          /\ \E item \in {SpineItem(TRUE, TRUE, TRUE, 1), SpineItem(FALSE, TRUE, TRUE, 1),
                          SpineItem(TRUE, FALSE, TRUE, 1), SpineItem(TRUE, TRUE, FALSE, 1),
                          SpineItem(TRUE, TRUE, TRUE, 3)} :
                 input' = [input EXCEPT !.spine = Append(@, item)]
       \/ /\ input.spine # <<>> /\ input.used < 3 * MaxElements
          /\ Last(input.spine).inside /\ ReadEntry(Last(input.spine).entry) = "none"
          /\ \E element \in Elements(input.used + 1) :
                 input' = [input EXCEPT !.used = @ + 3,
                               !.spine[Len(input.spine)].events = @ \o element]
       \/ /\ input.spine = <<>> /\ Len(input.entries) <= MaxEntries
          /\ \E size \in {1, 3}, safe \in BOOLEAN :
                 input' = [input EXCEPT !.entries = Append(@, [size |-> size, safe |-> safe])]
       \/ /\ input.spine = <<>> /\ input.rootfile /\ input.package /\ input.sniffed = "EPUB"
          /\ \/ input' = [input EXCEPT !.rootfile = FALSE]
             \/ input' = [input EXCEPT !.package = FALSE]
             \/ input' = [input EXCEPT !.sniffed = "zip"]

GrowImageSet ==
    /\ input.kind = "IMAGE_SET"
    /\ \/ /\ Len(input.frames) <= MaxPages /\ input.used <= MaxPages
          /\ \E scan \in Scans(input.used + 1), image \in {"fine", "corrupt", "huge"} :
                 /\ image # "fine" => scan.outcome = "ocr_failed"
                 /\ input' = [input EXCEPT !.used = @ + 1,
                                 !.frames = Append(@, [image |-> image, scan |-> scan])]
       \/ /\ input.frames = <<>> /\ input.available
          /\ input' = [input EXCEPT !.available = FALSE]

----------------------------------------------------------------------------
(* Chapters to analyse *)

Tells(names, tags, claims) ==
    [id |-> 0, names |-> names \o tags, tags |-> tags, claims |-> claims, nouns |-> {},
     break |-> FALSE, first |-> 0, third |-> 1]

\* Ann and Bob in either order, Ann by her long name, "he" as a speaker, two
\* claims that contradict each other, places and a scene break.
ParagraphShapes ==
    { Tells(<<<<"ann">>>>, <<<<"bob">>>>, <<"FAMILY">>),
      Tells(<<<<"ann", "carter">>>>, <<<<"bob">>>>, <<"FAMILY", "RIVALRY">>),
      Tells(<<<<"bob">>>>, <<<<"ann">>>>, <<"RIVALRY">>),
      Tells(<<<<"ann">>>>, <<<<"he">>>>, <<"FAMILY">>),
      Tells(<<<<"ann", "carter">>>>, <<<<"ann">>>>, <<"FAMILY">>),
      [Tells(<<<<"manor">>>>, <<>>, <<>>) EXCEPT !.first = 2],
      [Tells(<<<<"ann">>>>, <<>>, <<>>) EXCEPT !.nouns = {"manor"}],
      [Tells(<<>>, <<>>, <<>>) EXCEPT !.break = TRUE, !.third = 0] }

GrowChapters ==
    /\ input.kind = "chapters" /\ input.used < MaxProse
    /\ \E shape \in ParagraphShapes :
           LET paragraph == [shape EXCEPT !.id = input.used + 1]
               n == Len(input.chapters)
           IN \/ /\ n < MaxChapters
                 /\ input' = [input EXCEPT !.used = @ + 1,
                                 !.chapters = Append(@, <<paragraph>>)]
              \/ /\ n > 0
                 /\ input' = [input EXCEPT !.used = @ + 1,
                                 !.chapters[n] = Append(@, paragraph)]

----------------------------------------------------------------------------
(* Paragraphs, spans, scenes, requests, snapshots *)

GrowParagraph ==
    /\ input.kind = "paragraph" /\ Len(input.text) < MaxText
    /\ \E c \in {"quote", "open", "close", "stop", "space", "letter"} :
           input' = [input EXCEPT !.text = Append(@, c)]

GrowCover ==
    /\ input.kind = "cover" /\ Len(input.spans) < MaxCover
    /\ \E s \in 0..input.length : \E e \in s..input.length :
           input' = [input EXCEPT !.spans = Append(@, Piece(s, e, FALSE))]

\* Ann and Bob share a nickname; Cid was merged into another character.
Characters ==
    << [id |-> "ann", names |-> {"Ann", "Sis"}, merged |-> FALSE, sentinel |-> FALSE],
       [id |-> "cid", names |-> {"Cid"}, merged |-> TRUE, sentinel |-> FALSE],
       [id |-> "bob", names |-> {"Bob", "Sis"}, merged |-> FALSE, sentinel |-> FALSE],
       [id |-> Narrator, names |-> {"narrator"}, merged |-> FALSE, sentinel |-> TRUE] >>

\* Sentinel rows have ids of their own.
ASSUME SentinelsApart == {Narrator, Unknown} \cap {"ann", "bob", "cid"} = {}

\* A quote, perhaps with a name in it, and narration, short or longer than
\* the window, with a tag or without a name.
SpanShapes ==
    {shape \in [dialogue : BOOLEAN, length : {2, 3, 6}, form : {"none", "named", "after", "before"},
                name : {"nobody", "Ann", "Bob", "Cid", "Sis"},
                cues : {{}, {"HAPPY", "GRIEF"}, {"SAD"}}] :
        /\ shape.dialogue <=> shape.length = 2
        /\ CASE shape.form = "none" -> /\ shape.name = "nobody" /\ shape.length # 6
                                       /\ shape.dialogue <=> "SAD" \notin shape.cues
             [] shape.form = "named" -> shape.dialogue /\ shape.name = "Bob" /\ shape.cues = {}
             [] shape.form = "after" -> /\ ~shape.dialogue /\ shape.cues = {}
                                        /\ shape.name \in {"Ann", "Sis", "Cid"}
             [] shape.form = "before" -> /\ ~shape.dialogue /\ shape.cues = {}
                                         /\ shape.name \in {"Bob", "Sis"}}

\* The span of a shape that begins there.
SpanOf(shape, start, paragraph, participants) ==
    [start |-> start, end |-> start + shape.length, paragraph |-> paragraph, scene |-> "s",
     words |-> {shape.name}, dialogue |-> shape.dialogue, participants |-> participants,
     cues |-> shape.cues, tension |-> -1]

\* The name in it: a tag after a quote begins with the quote's end.
NameOf(shape, start, paragraph) ==
    [name |-> shape.name, form |-> shape.form, paragraph |-> paragraph,
     start |-> CASE shape.form = "after" -> start - 1
                 [] shape.form = "before" -> start + shape.length - 2
                 [] OTHER -> start,
     end |-> IF shape.form = "before" THEN start + shape.length ELSE start + 2]

\* Where the next span begins, and in which paragraph.
NextStart(spans, fresh) == IF fresh THEN 0 ELSE Last(spans).end

NextParagraph(spans, fresh) ==
    CASE spans = <<>> -> 1
      [] spans # <<>> /\ fresh -> Last(spans).paragraph + 1
      [] OTHER -> Last(spans).paragraph

\* A paragraph goes on, quote and narration by turns, or a new one begins.
GrowScene ==
    /\ input.kind = "scene" /\ Len(input.spans) < MaxSpans
    /\ \E shape \in SpanShapes, participants \in {{}, {"ann"}, {"ann", "bob"}}, fresh \in BOOLEAN :
           LET start == NextStart(input.spans, fresh)
               paragraph == NextParagraph(input.spans, fresh)
           IN /\ shape.dialogue \/ participants = {}
              /\ IF fresh THEN shape.form # "after"
                 ELSE input.spans # <<>> /\ shape.dialogue # Last(input.spans).dialogue
              /\ input' = [input EXCEPT
                     !.spans = Append(@, SpanOf(shape, start, paragraph, participants)),
                     !.text = IF shape.form = "none" THEN @
                              ELSE Append(@, NameOf(shape, start, paragraph))]

Engine == [language |-> TRUE, emotion |-> FALSE, speed |-> FALSE, pitch |-> FALSE,
           phonemes |-> FALSE, ssml |-> FALSE]

GrowRequest ==
    /\ input.kind = "request"
    /\ \/ \E cue \in {"SHOUT", "WHISPER", "ANGRY", "GRIEF", "fast", "slow", "capitals", "SIGH"} \ input.cues :
              /\ Cardinality(input.cues) < MaxCues
              /\ input' = [input EXCEPT !.cues = @ \cup {cue}]
       \/ \E able \in {"emotion", "speed", "pitch", "phonemes", "ssml"} :
              ~input.engine[able] /\ input' = [input EXCEPT !.engine[able] = TRUE]
       \/ /\ input.declared = "none"
          /\ \E d \in {"NATIVE", "APPROXIMATED", "UNSUPPORTED"} :
                 input' = [input EXCEPT !.declared = d]
       \/ input.hints = {} /\ input' = [input EXCEPT !.hints = {"name"}]

\* Silence, a sound too quiet for assembly, speech, too loud, no number.
GrowSound ==
    /\ input.kind = "sound" /\ Len(input.samples) < MaxSamples
    /\ NotANumber \notin ToSet(input.samples)
    /\ \E s \in {0, 2, 4, 8, NotANumber} : input' = [input EXCEPT !.samples = Append(@, s)]

GrowTake ==
    /\ input.kind = "take" /\ Len(input.levels) < MaxFrames
    /\ \E s \in {0, 4} : input' = [input EXCEPT !.levels = Append(@, s)]

Pause(position, ms) == [position |-> position, ms |-> ms]

\* Chunks of two and four frames, with dead air, and with pauses.
ChunkShapes ==
    { [levels |-> levels, pauses |-> pauses] :
        levels \in {<<4, 4>>, <<0, 0, 4, 4, 4, 4, 0, 0>>},
        pauses \in {<<>>, <<Pause("LEADING", 1), Pause("OFFSET", 2), Pause("TRAILING", 1)>>} }

Chunks(book) == FoldLeft(LAMBDA n, c : n + Len(c.chunks), 0, book)

GrowBook ==
    /\ input.kind = "book" /\ Chunks(input.book) < MaxJoined
    /\ \E chunk \in ChunkShapes :
           \/ \E loudness \in {18, 20, 23} :
                  input' = [input EXCEPT !.book =
                      Append(@, [chunks |-> <<chunk>>, loudness |-> loudness])]
           \/ /\ input.book # <<>>
              /\ input' = [input EXCEPT !.book[Len(input.book)].chunks = Append(@, chunk)]

NoFacts ==
    [jobs |-> [n \in ToSet(Stages) |-> {}], encodes |-> {}, version |-> "none", pagesOk |-> 0,
     pagesReview |-> 0, pagesTotal |-> -1, scenes |-> 0, semantics |-> 0, script |-> "none",
     chunks |-> 0, audioDone |-> 0, chapters |-> 0, assembled |-> 0, elapsed |-> 5,
     book |-> "CREATED", lastParse |-> "none", voices |-> [c \in {"ann"} |-> "none"],
     audiobook |-> "none", outdated |-> FALSE]

Counters == {"pagesOk", "pagesReview", "scenes", "semantics", "chunks", "audioDone",
             "chapters", "assembled"}

\* One less than the fewest units of which all but one are shown as all.
Almost == 2 * Full - 1

Learns(facts) == input' = [input EXCEPT !.used = @ + 1, !.facts = facts]

GrowSnapshot ==
    LET facts == input.facts IN
    /\ input.kind = "snapshot" /\ input.used < MaxFacts
    /\ \/ \E n \in ToSet(Stages), status \in JobStatuses :
              Learns([facts EXCEPT !.jobs[n] = @ \cup {status}])
       \/ \E status \in JobStatuses : Learns([facts EXCEPT !.encodes = @ \cup {status}])
       \/ \E v \in {"READY", "PARTIAL_OCR", "NEEDS_REVIEW", "FAILED"} :
              facts.version = "none" /\ Learns([facts EXCEPT !.version = v, !.pagesTotal = 2])
       \/ facts.script = "none" /\ Learns([facts EXCEPT !.script = "VALIDATED"])
       \/ \E c \in Counters, k \in {1, Almost} : Learns([facts EXCEPT ![c] = @ + k])
       \/ \E b \in {"PARSING", "NEEDS_REVIEW", "GENERATING", "FAILED"} :
              Learns([facts EXCEPT !.book = b])
       \/ \E v \in {"APPROVED", "LOCKED", "RETIRED"} : Learns([facts EXCEPT !.voices["ann"] = v])
       \/ \E a \in {"DRAFT_METADATA", "ASSEMBLING", "READY", "FAILED"}, o \in BOOLEAN :
              facts.audiobook = "none" /\ Learns([facts EXCEPT !.audiobook = a, !.outdated = o])

InputInit ==
    \/ \E kind \in {"PDF", "EPUB", "IMAGE_SET"} : input = File(kind)
    \/ \E newest \in BOOLEAN :
           input = [kind |-> "chapters", chapters |-> <<>>, newest |-> newest, used |-> 0]
    \/ input = [kind |-> "paragraph", text |-> <<>>]
    \/ input = [kind |-> "cover", length |-> 3, spans |-> <<>>]
    \/ \E voices \in SUBSET {"ann", Narrator} :
           input = [kind |-> "scene", spans |-> <<>>, text |-> <<>>, voices |-> voices]
    \/ input = [kind |-> "request", cues |-> {}, engine |-> Engine, declared |-> "none",
                hints |-> {}]
    \/ \E rate \in 1..2, channels \in 1..2, chars \in {0, 1, 3} :
           input = [kind |-> "sound", samples |-> <<>>, chars |-> chars,
                    format |-> [rate |-> rate, channels |-> channels]]
    \/ \E flushed \in BOOLEAN : input = [kind |-> "take", levels |-> <<>>, flushed |-> flushed]
    \/ input = [kind |-> "book", book |-> <<>>]
    \/ input = [kind |-> "snapshot", facts |-> NoFacts, used |-> 0]

GrowInput ==
    \/ GrowPdf \/ GrowEpub \/ GrowImageSet \/ GrowChapters \/ GrowParagraph
    \/ GrowCover \/ GrowScene \/ GrowRequest \/ GrowSound \/ GrowTake \/ GrowBook
    \/ GrowSnapshot

InputSpec == InputInit /\ [][GrowInput]_input

----------------------------------------------------------------------------
(* Properties *)

IsFile == input.kind \in {"PDF", "EPUB", "IMAGE_SET"}

Places(text) == [i \in DOMAIN text |-> text[i].at]

Increasing(places) == \A i \in 2..Len(places) : places[i - 1] < places[i]

\* A chapter as a listener hears it: its title, then each section's title
\* and paragraphs, those before the first section first.
Reading(chapter) ==
    LET of(s) == FlattenSeq([i \in DOMAIN chapter.paragraphs |->
                     IF chapter.paragraphs[i].section = s THEN chapter.paragraphs[i].text ELSE <<>>])
    IN chapter.title \o of(0) \o FlattenSeq([s \in DOMAIN chapter.sections |->
                                       chapter.sections[s].title \o of(s)])

Told(result) == FlattenSeq([c \in DOMAIN result.chapters |-> Reading(result.chapters[c])])

\* PDF lines that may go: page numbers, and texts met twice at page edges.
Dispensable(pages, line) ==
    LET lines(p) == GroupItemsIntoLines(pages[p].items)
        words(t) == [i \in DOMAIN t |-> t[i].w]
        edges == {e \in (DOMAIN pages) \X (1..MaxItems) :
                     e[2] \in DOMAIN lines(e[1]) /\ e[2] \in {1, Len(lines(e[1]))}}
    IN \/ Len(line.text) = 1 /\ line.text[1].w \in Numbers
       \/ /\ Cardinality({p \in DOMAIN pages : lines(p) # <<>>}) >= 3
          /\ Cardinality({e \in edges : words(lines(e[1])[e[2]].text) = words(line.text)}) >= 2

\* Text events of an EPUB document inside a block with no block inside it.
LeafText(events) ==
    {i \in DOMAIN events : events[i].type = "text" /\
        \E j \in 1..(i - 1), k \in (i + 1)..Len(events) :
            /\ events[j].type = "open" /\ events[j].tag \in BlockTags
            /\ events[k].type = "close" /\ events[k].tag = events[j].tag
            /\ \A m \in (j + 1)..(k - 1) :
                   events[m].type = "text" \/ events[m].tag \in {"script"}
            /\ ~\E m \in (j + 1)..(i - 1) : events[m] = OpenTag("script")
                    /\ \A l \in (m + 1)..(i - 1) : events[l] # CloseTag("script")}

\* The places of the file whose text the book must contain.
OwedPlaces(file) ==
    CASE file.kind = "PDF" ->
           UNION {UNION {{f.at : f \in ToSet(line.text)} :
                       line \in {l \in ToSet(GroupItemsIntoLines(file.pages[p].items)) :
                                    ~Dispensable(file.pages, l)}} :
                  p \in {q \in DOMAIN file.pages : HasText(file.pages[q])}}
      [] file.kind = "EPUB" ->
           UNION {{file.spine[s].events[i].text[1].at :
                       i \in {j \in LeafText(file.spine[s].events) :
                                 file.spine[s].events[j].text[1].w \notin Numbers}} :
                  s \in {t \in DOMAIN file.spine : file.spine[t].listed}}
      [] OTHER -> {}

\* The pictures nobody has read for certain.
Unread(file) ==
    LET unsure(scan) == ~(file.available /\ scan.outcome = "read" /\ scan.confident
                            /\ scan.paragraphs # <<>>)
    IN CASE file.kind = "PDF" ->
                {p \in DOMAIN file.pages : ~HasText(file.pages[p])
                     /\ file.pages[p].images = "painted" /\ unsure(file.pages[p].scan)}
         [] file.kind = "IMAGE_SET" ->
                {p \in DOMAIN file.frames :
                     file.frames[p].image = "corrupt" \/ unsure(file.frames[p].scan)}
         [] OTHER -> {}

Result == RunIngestionPipeline(input, input.available)

Kept(file, result, told, printed) ==
    /\ Increasing(told) /\ Increasing(printed)
    /\ ToSet(printed) \subseteq ToSet(told)
    /\ OwedPlaces(file) \subseteq ToSet(told)
    /\ result.status = "READY" => Unread(file) = {}

KeptBy(file, result) ==
    result.error = "none" =>
        Kept(file, result, Places(Told(result)), Places(result.markdown))

\* Ingestion (pdf-parser.ts, epub-parser.ts, detect-structure.ts) loses no
\* text silently: the words of the book come out once each and in the order
\* of the file, as they do in the Markdown; of the text of a PDF only page
\* numbers and lines seen twice at page edges may be missing, of an EPUB
\* only page numbers and text that is not in a leaf block; and a version
\* with a page nobody could read is never READY.
TextKept == IsFile => KeptBy(input, Result)

Numbered(result, rows) ==
    /\ \A i \in DOMAIN rows.paragraph :
           LET paragraph == rows.paragraph[i]
               chapter == rows.chapter[paragraph.chapter]
           IN /\ paragraph.spinePosition = i - 1
              /\ i - 1 \in chapter.spineStart..chapter.spineEnd
              /\ \A s \in ToSet(rows.section) :
                     (s.chapter = paragraph.chapter /\ s.section = paragraph.section)
                     => i - 1 \in s.spineStart..s.spineEnd
    /\ result.status = "READY" =>
           \A c, d \in DOMAIN rows.chapter :
               c < d => rows.chapter[c].spineEnd < rows.chapter[d].spineStart

NumberedBy(result) == result.error = "none" => Numbered(result, PersistStructure(result))

\* The stored structure (detect-structure.ts, persistStructure) is a
\* numbering: paragraphs carry 0, 1, 2, ... through the book, each inside
\* the range of its chapter and of its section, and the ranges of a READY
\* version's chapters follow one another without overlap.
SpineNumbered == IsFile => NumberedBy(Result)

ClaimKept(rows, claim, contradicted) ==
    \E r \in rows : /\ SamePair(r, claim) /\ r.type = claim.type
                    /\ claim.evidence \subseteq r.evidence
                    /\ contradicted => r.confidence <= Ceiling

ScenesKept(scenes, paragraphs) ==
    LET shown == FlattenSeq([i \in DOMAIN scenes |-> scenes[i].paragraphs])
        prose == {p \in ToSet(paragraphs) : ~p.break}
    IN /\ Increasing(shown)
       /\ ToSet(shown) = {p.id : p \in IF prose = {} THEN ToSet(paragraphs) ELSE prose}

ChapterKept(book, c, paragraphs) ==
    /\ \A claim \in ToSet(book.staged[c]) :
           ClaimKept(book.relationships, claim, Contradicted(book.staged[c], claim))
    /\ ScenesKept(book.scenes[c], paragraphs)

BookKept(book, chapters) ==
    /\ \A c \in DOMAIN chapters : ChapterKept(book, c, chapters[c])
    /\ \A r, s \in book.relationships : SamePair(r, s) /\ r.type = s.type => r = s
    /\ \A r \in book.relationships, c \in DOMAIN chapters : \A p \in ToSet(chapters[c]) :
           p.id \in r.evidence => r.type \in ToSet(p.claims) /\ r.from <= c
    /\ \A k, l \in book.locations : k.name = l.name => k = l

\* The story bible (build_story_bible_delta.py) keeps what the chapters
\* claim: "all evidence is kept, none discarded" (writes_bible.py).  Each staged
\* claim is in the one row of its pair and type, whichever way round the pair
\* was met and in however many chapters; contradictory claims are all there, at
\* low confidence; a row's evidence really makes the claim and is not older
\* than the row; and the scenes of a chapter hold its paragraphs in order.
EvidenceKept ==
    input.kind = "chapters" =>
        BookKept(AnalyzeBook(input.chapters, input.newest), input.chapters)

\* Sound is only lost at the edges, by less than the tolerance there, and a
\* chunk in which something is loud enough to keep is never trimmed away.
TrimKeepsSound(levels, kept) ==
    LET loud == {i \in DOMAIN levels : levels[i] >= TrimFloor}
    IN /\ \A i \in loud \ kept :
              i <= Epsilon \/ i > Len(levels) - Epsilon - FramesPerMs \div 2
       /\ Cardinality(loud) > 2 * Epsilon + FramesPerMs \div 2 => kept # {}

\* Pieces follow each other without gap or overlap, and none is placed further
\* from where it is heard than half a millisecond for each piece before it.
Timeline(frames, placed) ==
    /\ DOMAIN placed = DOMAIN frames
    /\ \A i \in DOMAIN placed :
           LET heard == Sums(frames)[i - 1]
               drift == 2 * (FramesPerMs * placed[i].start - heard)
           IN /\ placed[i].start = IF i = 1 THEN 0 ELSE placed[i - 1].start + placed[i - 1].duration
              /\ drift <= FramesPerMs * (i - 1) /\ -drift <= FramesPerMs * (i - 1)

BookJoined(book, master) ==
    LET joined == [c \in DOMAIN book |-> AssembleChapterAudio(book[c].chunks)]
        markers == BuildFfmetadataChapters(master.chapters)
        sum == Total([c \in DOMAIN book |-> book[c].loudness])
        n == Len(book)
    IN /\ \A c \in DOMAIN book :
              Timeline([i \in DOMAIN book[c].chunks |-> ChunkFrames(book[c].chunks[i])],
                       joined[c].members)
       /\ Timeline([c \in DOMAIN book |-> joined[c].frames], master.chapters)
       /\ \A c \in 2..n : markers[c].start = markers[c - 1].end
       /\ \A c \in 1..n : master.loudness[c] - sum \in (-n * Tolerance)..(n * Tolerance)
       /\ n > 0 =>
              LET late == 2 * (FramesPerMs * markers[n].end - master.frames)
              IN late <= FramesPerMs * n /\ -late <= FramesPerMs * n

\* The chunker (chunker.py) splits a paragraph into consecutive pieces that
\* cover it exactly and fit the budget, and validate_coverage accepts a set
\* of spans inside a paragraph only if it covers each character exactly once.
\* What is split is joined again (assembly-chapter.ts, assembly-audiobook.ts):
\* trimming a chunk loses no speech, the chunks of a chapter and the chapters
\* of the book follow each other without gap or overlap, the rounded times
\* stay with the sound, the markers end where the book does, and no chapter
\* stands out from the mean loudness.
ChunksPartition ==
    /\ input.kind = "paragraph" =>
           LET pieces == ChunkParagraph(input.text) IN
           /\ pieces[1].start = 0 /\ Last(pieces).end = Len(input.text)
           /\ \A i \in 2..Len(pieces) : pieces[i].start = pieces[i - 1].end
           /\ \A i \in DOMAIN pieces : pieces[i].end - pieces[i].start <= MaxChars
           /\ ValidateCoverage(Len(input.text), pieces)
    /\ input.kind = "cover" =>
           (ValidateCoverage(input.length, input.spans) =>
               \A c \in 0..(input.length - 1) :
                   Cardinality({i \in DOMAIN input.spans :
                       input.spans[i].start <= c /\ c < input.spans[i].end}) = 1)
    /\ input.kind = "take" => TrimKeepsSound(input.levels, KeptFrames(input.levels, input.flushed))
    /\ input.kind = "book" => BookJoined(input.book, AssembleAudiobookMaster(input.book))

\* The tags near a quote.
TagsNear(span, text) ==
    {i \in DOMAIN text : text[i].form \in {"after", "before"} /\ InWindow(span, text[i])}

\* Those who may speak and have the name.
Bearers(characters, name) ==
    {c \in ToSet(characters) : ~c.merged /\ ~c.sentinel /\ name \in c.names}

\* A chunk of speech against the span it was made of and the mood that the
\* spans so far have set.
ChunkAccounted(characters, text, span, chunk, mood) ==
    LET who == {c \in ToSet(characters) : c.id = chunk.character_id}
        tags == TagsNear(span, text)
    IN /\ (span.dialogue /\ chunk.review_flags = {}) =>
              \E c \in who, i \in tags : text[i].name \in c.names
       /\ \A c \in ToSet(characters) :
              (/\ span.dialogue /\ tags # {}
               /\ \A i \in tags : Bearers(characters, text[i].name) = {c}) => c \in who
       /\ chunk.speaker_type = "CHARACTER" => \A c \in who : ~c.merged /\ ~c.sentinel
       /\ chunk.speaker_type # "CHARACTER" => chunk.character_id \in {Narrator, Unknown}
       /\ chunk.voice \notin {"none", chunk.character_id} => chunk.fallback_applied
       /\ chunk.voice = "none" => "CAPABILITY_GAP" \in chunk.review_flags
       /\ chunk.decision.emotion = mood

ChapterAccounted(characters, text, spans, chunks) ==
    LET moved == {i \in DOMAIN spans : spans[i].cues \cap ToSet(EmotionCues) # {}}
        mood(i) == IF moved \cap 1..i = {} THEN "NEUTRAL"
                   ELSE FirstCue(EmotionCues, spans[Max(moved \cap 1..i)].cues, "NEUTRAL")
    IN /\ Len(chunks) = Len(spans)
       /\ ValidateVoiceConsistency(chunks)
       /\ \A i \in DOMAIN chunks :
              ChunkAccounted(characters, text, spans[i], chunks[i], mood(i))

\* The director (speaker_resolver.py, ir_builder.py) never passes a guess off
\* as a fact: speech that no tag within reach of it, its own or another
\* quote's, attributes to the character it is given to is flagged for review,
\* and when all the tags within reach name one character that character has
\* it; a speaker is never a merged character, a voice that is not the
\* character's own is recorded as a fallback, or as a gap when there is none,
\* one character keeps one voice through the chapter, and a mood is the one
\* the last emotional word set.
SpeechAccounted ==
    input.kind = "scene" =>
        ChapterAccounted(Characters, input.text, input.spans,
            DirectChapter([known |-> LoadSpeakerRegistry(Characters), text |-> input.text,
                           lexicon |-> {"Bob"}, bindings |-> [v \in input.voices |-> v]],
                          input.spans, NoState))

\* Each wish of the director is either met by a control the engine really has
\* or recorded as a gap, never both, and no gap is recorded that nobody asked
\* for.
WishesAnswered(intent, answer, engine, declared, hints) ==
    LET wished == (IF intent.emotion # "NEUTRAL" THEN {"emotion"} ELSE {})
                  \cup (IF intent.delivery_mode # "NORMAL" THEN {"delivery_mode"} ELSE {})
                  \cup (IF intent.pacing # 100 THEN {"pacing"} ELSE {})
                  \cup (IF intent.pitch # 0 THEN {"pitch"} ELSE {})
                  \cup (IF intent.volume # 0 THEN {"volume"} ELSE {})
                  \cup (IF intent.emphasis THEN {"emphasis"} ELSE {})
                  \cup (IF intent.non_verbal # "none" THEN {"non_verbal"} ELSE {})
                  \cup (IF hints # {} THEN {"pronunciation_hints"} ELSE {})
        met == (IF answer.tags # {} THEN {"emotion"} ELSE {})
               \cup (answer.speed \cap {"pacing"}) \cup (answer.pitch \cap {"pitch"})
               \cup (IF engine.ssml THEN {"emphasis"} ELSE {})
               \cup (IF engine.phonemes \/ engine.ssml THEN {"pronunciation_hints"} ELSE {})
        missed == {gap.field : gap \in answer.gaps}
    IN /\ wished \subseteq met \cup missed
       /\ missed \subseteq wished \ met
       /\ answer.tags # {} => engine.emotion /\ declared \notin {"APPROXIMATED", "UNSUPPORTED"}

Mono == [rate |-> 1, channels |-> 1]

\* Audio that is accepted can be heard, is in the format asked for and is
\* nowhere silent for longer than the limit; a file that is silent throughout
\* is refused as silent and not for a gap.
SoundJudged(samples, format, verdict) ==
    LET n == Len(samples)
        silent(i, j) == \A k \in i..j : samples[k] = 0
    IN /\ verdict = "PASS" =>
              /\ format = Mono /\ NotANumber \notin ToSet(samples)
              /\ \E k \in 1..n : samples[k] > 0
              /\ \A i, j \in 1..n :
                     (i <= j /\ silent(i, j)) => ToMs(j - i + 1) <= Limits.silence
       /\ (format = Mono /\ n > 0 /\ silent(1, n)) =>
              verdict \in {"duration_within_bounds", "not_silent"}
       /\ NotANumber \in ToSet(samples) => verdict = "AUDIO_CORRUPTED"

\* Capability negotiation (capability.py) drops nothing silently, and what the
\* engine returns is accepted (audio.py) only if it is speech of the kind that
\* was asked for.
SynthesisAccounted ==
    /\ input.kind = "request" =>
           LET intent == DecidePerformance(input.cues, -1, Narrator, NoState)
           IN WishesAnswered(intent,
                  Negotiate(intent, input.hints, input.engine, input.declared, 1),
                  input.engine, input.declared, input.hints)
    /\ input.kind = "sound" =>
           SoundJudged(input.samples, input.format,
                       Verdict(input.samples, input.format, Mono, input.chars))

\* Each stage's own rows say that it is over.
Decided(facts) ==
    {n \in ToSet(Stages) :
        \/ n = "ingestion" /\ facts.version # "none"
        \/ n = "analysis" /\ facts.semantics > 0 /\ facts.semantics >= facts.scenes
        \/ n = "director" /\ facts.script = "VALIDATED"
        \/ n = "tts" /\ facts.chunks > 0 /\ facts.audioDone >= facts.chunks
        \/ n = "assembly" /\ facts.chapters > 0 /\ facts.assembled >= facts.chapters}

Moves(jobs) == \E j \in jobs : JobShownActive(j) /\ IsCancellable(j)

\* Of this many units that many missing are too few to show.
TooFewToShow(missing, total) == 2 * Full * missing <= total

StageTold(facts, n, stage, entry, idle) ==
    LET jobs == StageJobs(facts, n)
    IN /\ n \notin Decided(facts) =>
              /\ StageShownActive(stage.status) <=> Moves(jobs)
              /\ stage.status = "FAILED" => ~Moves(jobs) /\ "SUCCEEDED" \notin jobs
              /\ stage.status = "NOT_STARTED" => jobs = {}
       /\ n \in Decided(facts) => ~entry.running
       /\ stage.progress = idle.progress
       /\ stage.progress = Full =>
              n \in Decided(facts) \/ TooFewToShow(stage.total - stage.completed, stage.total)

\* The assembly page, the project page and the progress page are one story,
\* but for a stage that is COMPLETED only because one of its jobs succeeded,
\* and for encodes, of which the assembly page knows nothing.
AssemblyTold(facts, stage, page, project) ==
    /\ facts.chapters > 0 /\ page.blocking = 0 =>
           stage.status = "COMPLETED" /\ page.status # "NOT_STARTED"
    /\ stage.status = "COMPLETED" =>
           \/ facts.chapters > 0 /\ page.blocking = 0
           \/ "SUCCEEDED" \in StageJobs(facts, "assembly") /\ ~page.working
    /\ stage.progress = Full => TooFewToShow(project.blocking, facts.chapters)
    /\ project.status = "COMPLETED" => facts.audiobook = "READY" /\ page.status = "COMPLETED"
    /\ (StageShownActive(stage.status) \/ stage.status = "BLOCKED") =>
           page.working \/ facts.encodes \cap (Moving \cup {"BLOCKED"}) # {}

\* The overall figure lies among those of the stages that can be measured:
\* the others do not count as zero.
OverallTold(stages, overall) ==
    LET measured == {n \in ToSet(Stages) : stages[n].progress # -1}
    IN /\ overall = -1 <=> measured = {}
       /\ overall # -1 => /\ \E n \in measured : stages[n].progress <= overall
                          /\ \E n \in measured : overall <= stages[n].progress

PlanTold(facts, told, idle, plan) ==
    /\ AssemblyTold(facts, told.stages.assembly, GetAssemblyState(facts),
                    GetAudiobookProject(facts))
    /\ OverallTold(told.stages, told.overall)
    /\ \A n \in ToSet(Stages) :
           StageTold(facts, n, told.stages[n], plan.entries[n], idle[n])
    /\ plan.next # "none" =>
           ~plan.entries[plan.next].running /\ ~plan.entries[plan.next].complete
    /\ plan.entries["tts"].blocked = "none" =>
           \A c \in DOMAIN facts.voices : facts.voices[c] \in {"APPROVED", "LOCKED"}
    /\ told.estimate # -1 => \E n \in ToSet(Stages) : Moves(StageJobs(facts, n))
    /\ GetIngestionStatus(facts) = "COMPLETED" =>
           told.stages.ingestion.status = "COMPLETED"
    /\ BookShownActive(facts.book) =>
           NextActionForBook(facts.book, FALSE, TRUE) \in {"overview", "generation"}

FactsTold(facts, told) ==
    PlanTold(facts, told, GetStageSummary([facts EXCEPT !.jobs = NoFacts.jobs, !.encodes = {}]),
             BuildGenerationPlan(told.stages, facts.script,
                 IF CastingReady(facts.voices) THEN "ready" ELSE "incomplete"))

\* What the user is told (progress.service.ts, status.ts, generation.ts) agrees
\* with the jobs and rows behind it: an undecided stage is shown as active
\* exactly when one of its jobs can still be cancelled and moves, it is FAILED
\* only when none of its jobs moves or succeeded, queueing work never changes
\* the measured progress, which is full only when at most a twenty-thousandth
\* is missing, the overall progress is among the measured ones, the stage
\* offered next is not one that runs, narration is not offered before the
\* casting is complete, an estimate is only given while something moves, the
\* ingestion page and the progress page agree that a book has been read, and
\* the assembly and audiobook pages (assembly.service.ts) agree with the
\* progress page on what is left to do, encodes apart.
StagesTold == input.kind = "snapshot" => FactsTold(input.facts, GetBookProgress(input.facts))
=============================================================================
